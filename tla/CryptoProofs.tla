---------------------------- MODULE CryptoProofs ----------------------------
(***************************************************************************)
(* The cipher and the session key it is used with.                         *)
(*                                                                         *)
(* RC5: decryption inverts encryption, for every word size, number of      *)
(* rounds, key table and block.  All that is used of the arithmetic is     *)
(* that the three operations on words have inverses.                       *)
(*                                                                         *)
(* SessionKey: whatever the relay, the SDK's thread and main do, and       *)
(* however they are restarted, the relay never works with a half-written   *)
(* key, and never with a wrong one in a session without a repeated CERTIFY, *)
(* a failed write of the hook and a write of main.                         *)
(***************************************************************************)
EXTENDS RC5, SessionKey, TLAPS

USE RoundsAssumption

-----------------------------------------------------------------------------
(* The cipher                                                              *)

\* A round and the whitening, done or undone, give blocks again.
LEMMA RoundType ==
  ASSUME RC5TypeOK, NEW b \in Blocks, NEW k \in 0 .. Rounds
  PROVE  /\ Round(k, b) \in Blocks /\ UndoRound(k, b) \in Blocks
         /\ Whiten(b) \in Blocks /\ Unwhiten(b) \in Blocks
<1>1. {0, 1, 2 * k, 2 * k + 1} \subseteq 0 .. 2 * Rounds + 1
  OBVIOUS
<1>2. {S[0], S[1], S[2 * k], S[2 * k + 1]} \subseteq Words
  BY <1>1 DEF RC5TypeOK
<1>3. b[1] \in Words /\ b[2] \in Words
  BY DEF Blocks
<1> QED
  BY <1>2, <1>3, ClosedAssumption DEF Round, UndoRound, Whiten, Unwhiten, Blocks

\* Half a round: one word, the other word n and a key word t.
LEMMA HalfRoundInverts ==
  ASSUME NEW v \in Words, NEW n \in Words, NEW t \in Words
  PROVE  Xor(Rotr(Sub(Add(Rotl(Xor(v, n), n), t), t), n), n) = v
<1> DEFINE x == Xor(v, n)
           y == Rotl(x, n)
<1>1. x \in Words
  BY ClosedAssumption
<1>2. y \in Words
  BY <1>1, ClosedAssumption
<1>3. Sub(Add(y, t), t) = y
  BY <1>2, InverseAssumption
<1>4. Rotr(y, n) = x
  BY <1>1, InverseAssumption
<1>5. Xor(x, n) = v
  BY InverseAssumption
<1> QED
  BY <1>3, <1>4, <1>5

\* A round and its undoing with the same key words cancel.
LEMMA UndoRoundInverts ==
  ASSUME RC5TypeOK, NEW b \in Blocks, NEW k \in 0 .. Rounds
  PROVE  UndoRound(k, Round(k, b)) = b
<1> DEFINE s == S[2 * k]
           u == S[2 * k + 1]
           A == Add(Rotl(Xor(b[1], b[2]), b[2]), s)
           B == Add(Rotl(Xor(b[2], A), A), u)
<1>1. {2 * k, 2 * k + 1} \subseteq 0 .. 2 * Rounds + 1
  OBVIOUS
<1>2. s \in Words /\ u \in Words
  BY <1>1 DEF RC5TypeOK
<1>3. b[1] \in Words /\ b[2] \in Words /\ b = <<b[1], b[2]>>
  BY DEF Blocks
<1>4. A \in Words
  BY <1>2, <1>3, ClosedAssumption
<1>5. Xor(Rotr(Sub(B, u), A), A) = b[2]
  BY <1>2, <1>3, <1>4, HalfRoundInverts
<1>6. Xor(Rotr(Sub(A, s), b[2]), b[2]) = b[1]
  BY <1>2, <1>3, HalfRoundInverts
<1>7. UndoRound(k, <<A, B>>) = <<b[1], b[2]>>
  BY <1>5, <1>6 DEF UndoRound
<1> QED
  BY <1>3, <1>7 DEF Round

\* Taking the first two subkeys off again undoes the whitening.
LEMMA UnwhitenInverts ==
  ASSUME RC5TypeOK, NEW b \in Blocks
  PROVE  Unwhiten(Whiten(b)) = b
<1>1. {0, 1} \subseteq 0 .. 2 * Rounds + 1
  OBVIOUS
<1>2. S[0] \in Words /\ S[1] \in Words
  BY <1>1 DEF RC5TypeOK
<1>3. b[1] \in Words /\ b[2] \in Words /\ b = <<b[1], b[2]>>
  BY DEF Blocks
<1> QED
  BY <1>2, <1>3, InverseAssumption DEF Whiten, Unwhiten

-----------------------------------------------------------------------------
\* The trail records the encryption so far: each entry is the round function
\* of the entry before.
Recorded(n) ==
  /\ trail[0] = Whiten(plain)
  /\ \A k \in 1 .. n : trail[k] = Round(k, trail[k - 1])

RC5Inv ==
  /\ RC5TypeOK
  /\ stage \in {"idle", "done"} => block = plain
  /\ stage = "encrypt" => roundNr \in 1 .. Rounds + 1 /\ Recorded(roundNr - 1) /\ block = trail[roundNr - 1]
  /\ stage \in {"sent", "decrypt"} => Recorded(Rounds)
  /\ stage = "sent" => block = trail[Rounds]
  /\ stage = "decrypt" => roundNr \in 0 .. Rounds /\ block = trail[roundNr]

\* The cipher starts in the invariant.
LEMMA InitRC5Inv == RC5Init => RC5Inv
  BY TablesAssumption DEF RC5Init, RC5Inv, RC5TypeOK, Stages

\* Every step of the cipher keeps the invariant.
LEMMA NextRC5Inv == RC5Inv /\ [RC5Next]_rc5Vars => RC5Inv'
<1> SUFFICES ASSUME RC5Inv, [RC5Next]_rc5Vars PROVE RC5Inv'
  OBVIOUS
<1>0. RC5TypeOK
  BY DEF RC5Inv
<1>1. CASE EncryptStarts
  <2>1. Whiten(block) \in Blocks
    BY <1>0, RoundType DEF RC5TypeOK
  <2>2. RC5TypeOK'
    BY <1>0, <1>1, <2>1 DEF EncryptStarts, RC5TypeOK, Stages
  <2>3. 0 \in 0 .. Rounds /\ block = plain
    BY <1>1 DEF EncryptStarts, RC5Inv
  <2>4. trail'[0] = Whiten(plain) /\ block' = trail'[0]
    BY <1>0, <1>1, <2>3 DEF EncryptStarts, RC5TypeOK
  <2>5. Recorded(roundNr - 1)'
    BY <1>1, <2>4 DEF EncryptStarts, Recorded, Whiten
  <2> QED
    BY <1>1, <2>2, <2>4, <2>5 DEF EncryptStarts, RC5Inv
<1>2. CASE EncryptRound
  <2>1. roundNr \in 1 .. Rounds /\ Recorded(roundNr - 1) /\ block = trail[roundNr - 1]
    BY <1>0, <1>2 DEF EncryptRound, RC5Inv, RC5TypeOK
  <2>0. roundNr \in 0 .. Rounds /\ block \in Blocks
    BY <1>0, <2>1 DEF RC5TypeOK
  <2>2. Round(roundNr, block) \in Blocks
    BY <1>0, <2>0, RoundType
  <2>3. RC5TypeOK'
    BY <1>0, <1>2, <2>1, <2>2 DEF EncryptRound, RC5TypeOK, Stages
  <2>4. trail'[roundNr] = Round(roundNr, block) /\ \A k \in 0 .. roundNr - 1 : trail'[k] = trail[k]
    BY <1>0, <1>2, <2>1 DEF EncryptRound, RC5TypeOK
  <2>5. \A k \in 1 .. roundNr : trail'[k] = Round(k, trail'[k - 1])
    BY <2>1, <2>4 DEF Recorded
  <2>6. Recorded(roundNr - 1)'
    <3>1. roundNr' - 1 = roundNr /\ S' = S /\ plain' = plain
      BY <1>2, <2>1 DEF EncryptRound
    <3>2. trail'[0] = trail[0]
      BY <2>1, <2>4
    <3>3. trail'[0] = Whiten(plain)'
      BY <2>1, <3>1, <3>2 DEF Recorded, Whiten
    <3>4. ASSUME NEW k \in 1 .. roundNr PROVE trail'[k] = Round(k, trail[k - 1])'
      BY <2>5, <3>1, <3>4 DEF Round
    <3> QED BY <3>1, <3>3, <3>4 DEF Recorded
  <2> QED
    BY <1>2, <2>1, <2>3, <2>4, <2>6 DEF EncryptRound, RC5Inv
<1>3. CASE EncryptEnds
  <2>1. roundNr = Rounds + 1
    BY <1>0, <1>3 DEF EncryptEnds, RC5Inv, RC5TypeOK
  <2> QED
    BY <1>0, <1>3, <2>1 DEF EncryptEnds, RC5Inv, RC5TypeOK, Stages, Recorded, Round, Whiten
<1>4. CASE DecryptStarts
  <2>1. Recorded(Rounds) /\ block = trail[Rounds]
    BY <1>4 DEF DecryptStarts, RC5Inv
  <2>2. Recorded(Rounds)'
    BY <1>4, <2>1 DEF DecryptStarts, Recorded, Round, Whiten
  <2>3. RC5TypeOK' /\ Rounds \in 0 .. Rounds
    BY <1>0, <1>4, RoundsAssumption DEF DecryptStarts, RC5TypeOK, Stages
  <2> QED BY <1>4, <2>1, <2>2, <2>3 DEF DecryptStarts, RC5Inv
<1>5. CASE DecryptRound
  <2>1. roundNr \in 1 .. Rounds /\ block = trail[roundNr] /\ trail[roundNr] = Round(roundNr, trail[roundNr - 1])
    BY <1>0, <1>5 DEF DecryptRound, RC5Inv, RC5TypeOK, Recorded
  <2>2. trail[roundNr - 1] \in Blocks
    BY <1>0, <2>1 DEF RC5TypeOK
  <2>3. block' = trail[roundNr - 1]
    BY <1>0, <1>5, <2>1, <2>2, UndoRoundInverts DEF DecryptRound
  <2>4. RC5TypeOK'
    BY <1>0, <1>5, <2>1, <2>2, <2>3 DEF DecryptRound, RC5TypeOK, Stages
  <2>5. Recorded(Rounds)'
    <3>1. Recorded(Rounds)
      BY <1>5 DEF DecryptRound, RC5Inv
    <3> QED BY <1>5, <3>1 DEF DecryptRound, Recorded, Round, Whiten
  <2>6. stage' = "decrypt" /\ roundNr' \in 0 .. Rounds /\ block' = trail'[roundNr']
    BY <1>5, <2>1, <2>3, RoundsAssumption DEF DecryptRound
  <2> QED BY <2>4, <2>5, <2>6 DEF RC5Inv
<1>6. CASE DecryptEnds
  <2>1. block = Whiten(plain) /\ plain \in Blocks
    BY <1>0, <1>6 DEF DecryptEnds, RC5Inv, RC5TypeOK, Recorded
  <2>2. block' = plain
    BY <1>0, <1>6, <2>1, UnwhitenInverts DEF DecryptEnds
  <2> QED
    BY <1>0, <1>6, <2>1, <2>2 DEF DecryptEnds, RC5Inv, RC5TypeOK, Stages
<1>7. CASE UNCHANGED rc5Vars
  BY <1>0, <1>7 DEF rc5Vars, RC5Inv, RC5TypeOK, Recorded, Round, Whiten
<1> QED
  BY <1>1, <1>2, <1>3, <1>4, <1>5, <1>6, <1>7 DEF RC5Next

-----------------------------------------------------------------------------
\* The block, the round and the trail keep their types (rc5.py 121-163).
THEOREM BlocksTyped == RC5Spec => []RC5TypeOK
<1>1. RC5Inv => RC5TypeOK
  BY DEF RC5Inv
<1> QED
  BY <1>1, InitRC5Inv, NextRC5Inv, PTL DEF RC5Spec

\* Decryption has, before every round, the block that encryption had after it.
THEOREM DecryptionRetraces == RC5Spec => []Retraces
<1>1. RC5Inv => Retraces
  BY DEF RC5Inv, Retraces
<1> QED
  BY <1>1, InitRC5Inv, NextRC5Inv, PTL DEF RC5Spec

\* decrypt_block(encrypt_block(b)) = b with the same key (rc5.py 121-163).
THEOREM DecryptInvertsEncrypt == RC5Spec => []RoundTrip
<1>1. RC5Inv => RoundTrip
  BY DEF RC5Inv, RoundTrip
<1> QED
  BY <1>1, InitRC5Inv, NextRC5Inv, PTL DEF RC5Spec

-----------------------------------------------------------------------------
(* The session key                                                         *)

\* Keys in use are keys that were made; only the file is ever blank.
KeyInv ==
  /\ file \in (1 .. made) \cup {None, Blank}
  /\ hooked \in (1 .. made) \cup {None}
  /\ copied \in (1 .. made) \cup {None}
  /\ addrKey \in (1 .. made) \cup {None, Stray}
  /\ termKey \in (1 .. made) \cup {None, Foreign, Stray}
  /\ cached \in (1 .. made) \cup {None, Foreign, Stray}
  /\ writer \in {"got", "opened"} => copied # None

\* In a session that nothing befell: once the hook is through, the file holds
\* the present key; an address that has the present key agrees with its term id;
\* a session that is online has no other key for its address.
HookInv ==
  faults = {} =>
    /\ sdk \in {"installed", "online"} => file = made
    /\ addrKey = made => termKey = made
    /\ sdk = "online" => addrKey \in {None, made}
    /\ used # "wrong"

SessionInv == TypeOK /\ KeyInv /\ HookInv

-----------------------------------------------------------------------------
\* The values that are no key are different from every key and each other.
LEMMA NoKeysDiffer ==
  /\ None \notin Nat /\ Blank \notin Nat /\ Foreign \notin Nat /\ Stray \notin Nat
  /\ None # Blank /\ None # Foreign /\ None # Stray
  /\ Blank # Foreign /\ Blank # Stray /\ Foreign # Stray
BY NoKeyAssumption

\* What the handling of a CERTIFY puts among the relay's keys.
LEMMA RelayKeys ==
  ASSUME KeyInv, made \in Nat, NEW k, NEW here \in BOOLEAN, RelayCertifies(k, here),
         NEW m \in Nat, k \in (1 .. m) \cup {Stray}, made <= m
  PROVE  /\ addrKey' \in (1 .. m) \cup {None, Stray}
         /\ termKey' \in (1 .. m) \cup {None, Foreign, Stray}
         /\ cached' \in (1 .. m) \cup {None, Foreign, Stray}
<1> USE NoKeysDiffer
<1>1. Loaded \in (1 .. m) \cup {None}
  BY DEF KeyInv, Loaded
<1>2. CASE CertifiedWith(k, here)
  BY <1>1, <1>2 DEF CertifiedWith, KeyInv
<1>3. CASE Loaded = None /\ addrKey' = addrKey /\ termKey' = Foreign /\ cached' = Foreign
  BY <1>3 DEF KeyInv
<1>4. CASE UNCHANGED relayVars
  BY <1>4 DEF KeyInv, relayVars
<1> QED BY <1>2, <1>3, <1>4 DEF RelayCertifies

\* No step takes the relay out of KeyInv: it reads a file that may be blank, and
\* what it takes from it is checked first.
LEMMA KeysStep ==
  ASSUME TypeOK, KeyInv, [Next]_vars
  PROVE  TypeOK' /\ KeyInv'
<1> USE MaxKeysAssumption, NoKeysDiffer DEF TypeOK, KeyInv, Keys, Phases, Faults
<1>1. CASE CertifyHandled
  <2>1. made' \in Keys /\ made' = made + 1
    BY <1>1 DEF CertifyHandled
  <2>2. RelayCertifies(made + 1, TRUE)
    BY <1>1, <2>1 DEF CertifyHandled
  <2>3. PICK k \in Nat : k = made + 1 /\ made <= k /\ k \in 1 .. k
    OBVIOUS
  <2>4. PICK here \in BOOLEAN : RelayCertifies(k, here)
    BY <2>2, <2>3
  <2>5. /\ addrKey' \in (1 .. k) \cup {None, Stray}
        /\ termKey' \in (1 .. k) \cup {None, Foreign, Stray}
        /\ cached' \in (1 .. k) \cup {None, Foreign, Stray}
    BY <2>3, <2>4, RelayKeys
  <2> QED BY <1>1, <2>1, <2>3, <2>5 DEF CertifyHandled, bridgeVars, mainVars
<1>13. CASE CertifyRepeated
  <2>1. PICK here \in BOOLEAN : RelayCertifies(Stray, here)
    BY <1>13 DEF CertifyRepeated
  <2>2. /\ addrKey' \in (1 .. made) \cup {None, Stray}
        /\ termKey' \in (1 .. made) \cup {None, Foreign, Stray}
        /\ cached' \in (1 .. made) \cup {None, Foreign, Stray}
    BY <2>1, RelayKeys
  <2> QED BY <1>13, <2>2 DEF CertifyRepeated, bridgeVars, mainVars
<1>14. CASE SetKeyFails
  BY <1>14 DEF SetKeyFails, bridgeVars, mainVars, relayVars
<1>15. CASE MainFails
  BY <1>15 DEF MainFails, bridgeVars, mainVars, relayVars
<1>2. CASE InitInfoHandled
  BY <1>2 DEF InitInfoHandled, Refresh, Loaded, Judge, bridgeVars, mainVars, relayVars
<1>3. CASE CallingHandled
  BY <1>3 DEF CallingHandled, CallingTakes, Loaded, Judge, bridgeVars, mainVars, relayVars
<1>4. CASE RelayRestarts
  BY <1>4 DEF RelayRestarts, bridgeVars, mainVars, relayVars
<1>5. CASE SetKeyCaptures
  BY <1>5 DEF SetKeyCaptures, bridgeVars, mainVars, relayVars
<1>6. CASE SetKeyOpens
  BY <1>6 DEF SetKeyOpens, bridgeVars, mainVars, relayVars
<1>7. CASE SetKeyWrites
  BY <1>7 DEF SetKeyWrites, bridgeVars, mainVars, relayVars
<1>8. CASE MainCopies
  BY <1>8 DEF MainCopies, bridgeVars, mainVars, relayVars
<1>9. CASE MainOpens
  BY <1>9 DEF MainOpens, bridgeVars, mainVars, relayVars
<1>10. CASE MainWrites
  BY <1>10 DEF MainWrites, bridgeVars, mainVars, relayVars
<1>11. CASE BridgeRestarts
  BY <1>11 DEF BridgeRestarts, bridgeVars, mainVars, relayVars
<1>12. CASE UNCHANGED vars
  BY <1>12 DEF vars, bridgeVars, mainVars, relayVars
<1> QED
  BY <1>1, <1>2, <1>3, <1>4, <1>5, <1>6, <1>7, <1>8, <1>9, <1>10, <1>11,
     <1>12, <1>13, <1>14, <1>15 DEF Next

\* No step but those that leave a fault makes the relay and the SDK disagree.
LEMMA HookStep ==
  ASSUME TypeOK, KeyInv, HookInv, [Next]_vars
  PROVE  HookInv'
<1> USE MaxKeysAssumption, NoKeysDiffer DEF TypeOK, KeyInv, HookInv, Keys
<1>1. CASE CertifyHandled
  <2>1. used' # "wrong" /\ sdk' = "certified" /\ made' = made + 1 /\ made \in Nat
    BY <1>1 DEF CertifyHandled
  <2>2. RelayCertifies(made + 1, TRUE)
    BY <1>1, <2>1 DEF CertifyHandled
  <2>3. addrKey # made + 1 /\ Loaded # made + 1
    BY <2>1 DEF Loaded
  <2>4. addrKey' = made + 1 => termKey' = made + 1
    BY <2>2, <2>3 DEF RelayCertifies, CertifiedWith, relayVars
  <2> QED
    BY <2>1, <2>4
<1>13. CASE CertifyRepeated
  BY <1>13 DEF CertifyRepeated
<1>14. CASE SetKeyFails
  BY <1>14 DEF SetKeyFails
<1>15. CASE MainFails
  BY <1>15 DEF MainFails, bridgeVars, mainVars, relayVars
<1>2. CASE InitInfoHandled
  BY <1>2 DEF InitInfoHandled, Refresh, Loaded, Judge, bridgeVars, mainVars, relayVars
<1>3. CASE CallingHandled
  BY <1>3 DEF CallingHandled, CallingTakes, Loaded, Judge, bridgeVars, mainVars, relayVars
<1>4. CASE RelayRestarts
  BY <1>4 DEF RelayRestarts, bridgeVars, mainVars, relayVars
<1>5. CASE SetKeyCaptures
  BY <1>5 DEF SetKeyCaptures, bridgeVars, mainVars, relayVars
<1>6. CASE SetKeyOpens
  BY <1>6 DEF SetKeyOpens, bridgeVars, mainVars, relayVars
<1>7. CASE SetKeyWrites
  BY <1>7 DEF SetKeyWrites, bridgeVars, mainVars, relayVars
<1>8. CASE MainCopies
  BY <1>8 DEF MainCopies, bridgeVars, mainVars, relayVars
<1>9. CASE MainOpens
  BY <1>9 DEF MainOpens, bridgeVars, mainVars, relayVars
<1>10. CASE MainWrites
  BY <1>10 DEF MainWrites, bridgeVars, mainVars, relayVars
<1>11. CASE BridgeRestarts
  BY <1>11 DEF BridgeRestarts, bridgeVars, mainVars, relayVars
<1>12. CASE UNCHANGED vars
  BY <1>12 DEF vars, bridgeVars, mainVars, relayVars
<1> QED
  BY <1>1, <1>2, <1>3, <1>4, <1>5, <1>6, <1>7, <1>8, <1>9, <1>10, <1>11,
     <1>12, <1>13, <1>14, <1>15 DEF Next

\* The initial state satisfies the strengthening.
LEMMA InitSession == Init => SessionInv
<1> SUFFICES ASSUME Init PROVE SessionInv
  OBVIOUS
<1> USE MaxKeysAssumption, NoKeysDiffer DEF Init
<1>1. TypeOK
  <2>1. made \in 0 .. MaxKeys
    OBVIOUS
  <2>2. sdk \in Phases /\ (sdk # "off" => made \in Keys)
    BY DEF Phases
  <2>3. writer \in {"wait", "got", "opened", "done"} /\ writer \notin {"got", "opened"}
    OBVIOUS
  <2> QED
    BY <2>1, <2>2, <2>3 DEF TypeOK
<1>2. KeyInv
  BY DEF KeyInv
<1>3. HookInv
  BY DEF HookInv
<1> QED
  BY <1>1, <1>2, <1>3 DEF SessionInv

\* The strengthening is an invariant, for any number of CERTIFY exchanges.
THEOREM SessionHolds == Spec => []SessionInv
<1>1. SessionInv /\ [Next]_vars => SessionInv'
  BY KeysStep, HookStep DEF SessionInv
<1> QED
  BY InitSession, <1>1, PTL DEF Spec

\* Every variable keeps its type.
THEOREM KeyTypesCorrect == Spec => []TypeOK
<1>1. SessionInv => TypeOK
  BY DEF SessionInv
<1> QED
  BY SessionHolds, <1>1, PTL

\* The relay never works with a key read from a half-written file.
THEOREM BlankNeverUsed == Spec => []NeverBlank
<1>1. SessionInv => NeverBlank
  BY NoKeysDiffer DEF SessionInv, KeyInv, NeverBlank
<1> QED
  BY SessionHolds, <1>1, PTL

\* The relay uses the key of the SDK's present session at every INIT_INFO and
\* CALLING of a session in which no CERTIFY was handled again, the hook wrote the
\* file, and main did not, whatever happened in the sessions before.
THEOREM UndisturbedSessionAgrees == Spec => []RightKeyUsed
<1>1. SessionInv => RightKeyUsed
  BY DEF SessionInv, HookInv, RightKeyUsed
<1> QED
  BY SessionHolds, <1>1, PTL
=============================================================================
