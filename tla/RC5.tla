-------------------------------- MODULE RC5 --------------------------------
(***************************************************************************)
(* The cipher of the GUTES protocol (src/src/relay/rc5.py): encrypt_block  *)
(* at one side and decrypt_block at the other with the same key table.     *)
(*                                                                         *)
(* One step is one round.  The arithmetic on words is a parameter: what is *)
(* said here holds for both word sizes of the code (RC5Words defines it    *)
(* for any size), every number of rounds and every key table.              *)
(***************************************************************************)
EXTENDS Integers

CONSTANTS
  Words,                 \* 0 .. mask
  Add(_, _), Sub(_, _),  \* (v + s) & mask, (v - s) & mask
  Xor(_, _),
  Rotl(_, _), Rotr(_, _),
  Rounds,
  Tables                 \* the key tables S that setkey makes

ASSUME RoundsAssumption == Rounds \in Nat
ASSUME TablesAssumption == Tables \subseteq [0 .. 2 * Rounds + 1 -> Words]
ASSUME ClosedAssumption ==
  \A v, n \in Words : {Add(v, n), Sub(v, n), Xor(v, n), Rotl(v, n), Rotr(v, n)} \subseteq Words
ASSUME InverseAssumption ==
  \A v, n \in Words :
    /\ Sub(Add(v, n), n) = v
    /\ Xor(Xor(v, n), n) = v
    /\ Rotr(Rotl(v, n), n) = v

VARIABLES
  S,       \* the key table of both sides
  block,   \* the block <<A, B>> being worked on
  roundNr, \* the round
  stage,   \* "idle", "encrypt", "sent", "decrypt" or "done"
  plain,   \* the plaintext (history)
  trail    \* the blocks between the rounds of the encryption (history)

rc5Vars == <<S, block, roundNr, stage, plain, trail>>

Blocks == Words \X Words
Stages == {"idle", "encrypt", "sent", "decrypt", "done"}

RC5TypeOK ==
  /\ S \in [0 .. 2 * Rounds + 1 -> Words]
  /\ block \in Blocks /\ plain \in Blocks
  /\ roundNr \in 0 .. Rounds + 1
  /\ stage \in Stages
  /\ trail \in [0 .. Rounds -> Blocks]

RC5Init ==
  /\ S \in Tables
  /\ plain \in Blocks
  /\ block = plain
  /\ roundNr = 0 /\ stage = "idle"
  /\ trail = [k \in 0 .. Rounds |-> plain]

-----------------------------------------------------------------------------
Whiten(b) == <<Add(b[1], S[0]), Add(b[2], S[1])>>

Round(k, b) ==
  LET A == Add(Rotl(Xor(b[1], b[2]), b[2]), S[2 * k])
      B == Add(Rotl(Xor(b[2], A), A), S[2 * k + 1])
  IN <<A, B>>

UndoRound_OldA(k, b) ==    \* mutant: A is computed first, from the old B
  LET A == Xor(Rotr(Sub(b[1], S[2 * k]), b[2]), b[2])
      B == Xor(Rotr(Sub(b[2], S[2 * k + 1]), A), A)
  IN <<A, B>>
UndoRound(k, b) ==
  LET B == Xor(Rotr(Sub(b[2], S[2 * k + 1]), b[1]), b[1])
      A == Xor(Rotr(Sub(b[1], S[2 * k]), B), B)
  IN <<A, B>>

Unwhiten(b) == <<Sub(b[1], S[0]), Sub(b[2], S[1])>>

-----------------------------------------------------------------------------
EncryptStarts ==
  /\ stage = "idle"
  /\ stage' = "encrypt"
  /\ block' = Whiten(block)
  /\ roundNr' = 1
  /\ trail' = [trail EXCEPT ![0] = block']
  /\ UNCHANGED <<S, plain>>

EncryptRound ==
  /\ stage = "encrypt" /\ roundNr <= Rounds
  /\ block' = Round(roundNr, block)
  /\ trail' = [trail EXCEPT ![roundNr] = block']
  /\ roundNr' = roundNr + 1
  /\ UNCHANGED <<S, stage, plain>>

EncryptEnds ==
  /\ stage = "encrypt" /\ roundNr > Rounds
  /\ stage' = "sent"
  /\ UNCHANGED <<S, block, roundNr, plain, trail>>

DecryptStarts_Short ==     \* mutant: range(rounds - 1, 0, -1)
  /\ stage = "sent" /\ Rounds > 0
  /\ stage' = "decrypt"
  /\ roundNr' = Rounds - 1
  /\ UNCHANGED <<S, block, plain, trail>>
DecryptStarts ==
  /\ stage = "sent"
  /\ stage' = "decrypt"
  /\ roundNr' = Rounds
  /\ UNCHANGED <<S, block, plain, trail>>

DecryptRound ==
  /\ stage = "decrypt" /\ roundNr > 0
  /\ block' = UndoRound(roundNr, block)
  /\ roundNr' = roundNr - 1
  /\ UNCHANGED <<S, stage, plain, trail>>

DecryptEnds ==
  /\ stage = "decrypt" /\ roundNr = 0
  /\ stage' = "done"
  /\ block' = Unwhiten(block)
  /\ UNCHANGED <<S, roundNr, plain, trail>>

RC5Next ==
  \/ EncryptStarts \/ EncryptRound \/ EncryptEnds
  \/ DecryptStarts \/ DecryptRound \/ DecryptEnds

RC5Spec == RC5Init /\ [][RC5Next]_rc5Vars

-----------------------------------------------------------------------------
(* Properties                                                              *)

\* Decryption retraces encryption (rc5.py 135-159): before every round it has
\* the block that encryption had after the same round.
Retraces == stage = "decrypt" => block = trail[roundNr]

\* What is decrypted is what was encrypted, for every block and key table,
\* although the rotations depend on the data (rc5.py 121-163).
RoundTrip == stage = "done" => block = plain
=============================================================================
