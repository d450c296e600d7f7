--------------------------- MODULE MtpRelayProofs ---------------------------
(* Proofs about MtpRelay, for every set of connections and every bound: the *)
(* pairs are made one to one, the relay implements MediaPairing, media of   *)
(* two calls is never mixed, and each stream stays in order, undoubled.     *)
EXTENDS MtpRelay, ListLemmas

USE PollLimitAssumption, MaxChunksAssumption, MaxLinkIdAssumption

-----------------------------------------------------------------------------
(* Type correctness                                                        *)

\* Other yields the opposite role, never the role itself.
LEMMA OtherRole == \A r \in Roles : Other(r) \in Roles /\ Other(r) # r
  BY DEF Roles, Other

\* The pair built from c on side r and o opposite (MtpRelayPair(...)) has c
\* and o on these sides, and there is no third side.
LEMMA MakePairType ==
  ASSUME NEW c \in Conns, NEW o \in Conns, NEW r \in Roles
  PROVE  /\ MakePair(c, r, o) \in Pairs
         /\ MakePair(c, r, o)[r] = c
         /\ MakePair(c, r, o)[Other(r)] = o
         /\ \A x \in Roles : x = r \/ x = Other(r)
  BY DEF Pairs, MakePair, Roles, Other

\* Waking the readers of some connections keeps the copy tasks well typed.
LEMMA WakeType ==
  ASSUME copy \in [Conns -> [Roles -> CopyPcs]], NEW C
  PROVE  Wake(C) \in [Conns -> [Roles -> CopyPcs]]
  BY DEF Wake, CopyPcs

\* The queue of a queued connection without it.
LEMMA UnqueuedMembers ==
  ASSUME TypeOK, NEW c \in Conns, role[c] \in Roles, Queued(c)
  PROVE  /\ Unqueued(c) \in Seq(Conns)
         /\ ToSet(Unqueued(c)) \subseteq ToSet(pending[role[c]])
         /\ Distinct(pending[role[c]]) => /\ Distinct(Unqueued(c))
                                          /\ c \notin ToSet(Unqueued(c))
<1> DEFINE q == pending[role[c]]
           k == CHOOSE i \in DOMAIN q : q[i] = c
<1>1. q \in Seq(Conns) /\ DOMAIN q = 1 .. Len(q)
  BY LenProperties DEF TypeOK
<1>2. \E i \in DOMAIN q : q[i] = c
  BY <1>1, ToSetMembers DEF Queued
<1>3. k \in 1 .. Len(q) /\ q[k] = c
  BY <1>1, <1>2
<1>4. Unqueued(c) = RemoveAt(q, k)
  BY DEF Unqueued
<1> HIDE DEF q, k
<1>5. QED
  BY <1>1, <1>3, <1>4, RemoveAtMembers DEF q

\* Every step keeps the types; role[c] of a handler that waits is one of the
\* two roles, which the queue operations rely on.
RoleKnown == \A c \in Conns : phase[c] \in {"waiting", "relaying"} => role[c] \in Roles
RelayerHasPair == \A c \in Conns : \A r \in Roles :
                    phase[c] = "relaying" \/ copy[c][r] # "idle" => pairOf[c] \in Pairs

TypeInv == TypeOK /\ RoleKnown /\ RelayerHasPair

\* The relay starts well typed (RelayState's defaults).
LEMMA InitTypeInv == Init => TypeInv
<1> SUFFICES ASSUME Init PROVE TypeInv
  OBVIOUS
<1>1. <<>> \in Seq(Conns) /\ <<>> \in Seq(Chunks)
  BY EmptySeq
<1>2. TypeOK
  BY <1>1 DEF Init, TypeOK, Phases, CopyPcs, LinkIds
<1>3. RoleKnown /\ RelayerHasPair
  BY DEF Init, RoleKnown, RelayerHasPair
<1> QED BY <1>2, <1>3 DEF TypeInv

\* What a handler does on entering _relay_loop keeps the types it changes.
LEMMA EnterRelayLoopType ==
  ASSUME TypeInv, NEW c \in Conns, NEW p \in Pairs, EnterRelayLoop(c, p)
  PROVE  /\ phase' \in [Conns -> Phases]
         /\ pairOf' \in [Conns -> Pairs \cup {NoPair}]
         /\ copy' \in [Conns -> [Roles -> CopyPcs]]
         /\ RelayerHasPair'
         /\ \A d \in Conns : phase'[d] = IF d = c THEN "relaying" ELSE phase[d]
<1>1. phase' \in [Conns -> Phases] /\ pairOf' \in [Conns -> Pairs \cup {NoPair}]
  BY DEF EnterRelayLoop, TypeInv, TypeOK, Phases
<1>2. copy' \in [Conns -> [Roles -> CopyPcs]]
  BY DEF EnterRelayLoop, TypeInv, TypeOK, CopyPcs
<1>3. \A d \in Conns : phase'[d] = IF d = c THEN "relaying" ELSE phase[d]
  BY DEF EnterRelayLoop, TypeInv, TypeOK
<1>4. RelayerHasPair'
  BY DEF EnterRelayLoop, TypeInv, TypeOK, RelayerHasPair
<1> QED BY <1>1, <1>2, <1>3, <1>4

\* What a handler does on writer.close() and return keeps the types it changes.
LEMMA CloseAndReturnType ==
  ASSUME TypeInv, NEW c \in Conns, CloseAndReturn(c), UNCHANGED <<role, pairOf>>
  PROVE  /\ phase' \in [Conns -> Phases]
         /\ copy' \in [Conns -> [Roles -> CopyPcs]]
         /\ closed' \in [Conns -> BOOLEAN]
         /\ RoleKnown' /\ RelayerHasPair'
<1>1. copy' \in [Conns -> [Roles -> CopyPcs]]
  BY WakeType DEF CloseAndReturn, TypeInv, TypeOK
<1>2. phase' \in [Conns -> Phases] /\ closed' \in [Conns -> BOOLEAN]
  BY DEF CloseAndReturn, TypeInv, TypeOK, Phases
<1>3. RoleKnown'
  BY DEF CloseAndReturn, TypeInv, TypeOK, RoleKnown
<1>4. RelayerHasPair'
  BY DEF CloseAndReturn, TypeInv, TypeOK, RelayerHasPair, Wake
<1> QED BY <1>1, <1>2, <1>3, <1>4

\* writer.write() of a sequence of chunks keeps what each peer received a
\* sequence of chunks.
LEMMA WriteType ==
  ASSUME TypeInv, NEW d \in Conns, NEW data \in Seq(Chunks), Write(d, data)
  PROVE  got' \in [Conns -> Seq(Chunks)]
<1>1. got[d] \o data \in Seq(Chunks)
  BY ConcatProperties DEF TypeInv, TypeOK
<1> QED BY <1>1 DEF Write, TypeInv, TypeOK

\* A new connection (_tcp_handle_client) keeps the types.
LEMMA AcceptType ==
  ASSUME TypeInv, NEW c \in Conns, Accept(c)
  PROVE  TypeInv'
<1>1. ASSUME NEW r \in IpRoles \cap Roles, AcceptAndPair(c, r) PROVE TypeInv'
  <2> DEFINE o == Head(pending[Other(r)])
  <2>1. /\ Other(r) \in Roles
        /\ pending[Other(r)] \in Seq(Conns) /\ pending[Other(r)] # <<>>
    BY <1>1, OtherRole DEF AcceptAndPair, TypeInv, TypeOK
  <2>2. o \in Conns /\ Tail(pending[Other(r)]) \in Seq(Conns)
    BY <2>1, TailMembers
  <2>3. MakePair(c, r, o) \in Pairs
    BY <2>2, MakePairType
  <2> HIDE DEF o
  <2>4. EnterRelayLoop(c, MakePair(c, r, o))
    BY <1>1 DEF AcceptAndPair, o
  <2>5. pending' \in [Roles -> Seq(Conns)]
    BY <1>1, <2>2 DEF AcceptAndPair, TypeInv, TypeOK
  <2>6. RoleKnown'
    BY <1>1, <2>3, <2>4, EnterRelayLoopType DEF AcceptAndPair, TypeInv, TypeOK, RoleKnown
  <2>7. role' \in [Conns -> Roles \cup {"unknown"}]
    BY <1>1 DEF AcceptAndPair, TypeInv, TypeOK
  <2> QED BY <1>1, <2>3, <2>4, <2>5, <2>6, <2>7, EnterRelayLoopType
          DEF AcceptAndPair, TypeInv, TypeOK, streamVars
<1>2. ASSUME NEW r \in IpRoles \cap Roles, AcceptAndQueue(c, r) PROVE TypeInv'
  <2>1. Append(pending[r], c) \in Seq(Conns)
    BY AppendMembers DEF TypeInv, TypeOK
  <2>2. TypeOK'
    BY <1>2, <2>1 DEF AcceptAndQueue, TypeInv, TypeOK, Phases, streamVars
  <2>3. RoleKnown' /\ RelayerHasPair'
    BY <1>2 DEF AcceptAndQueue, TypeInv, TypeOK, RoleKnown, RelayerHasPair
  <2> QED BY <2>2, <2>3 DEF TypeInv
<1>3. ASSUME AcceptUnknown(c) PROVE TypeInv'
  BY <1>3 DEF AcceptUnknown, TypeInv, TypeOK, Phases, RoleKnown, RelayerHasPair,
              pairingVars, streamVars
<1> QED BY <1>1, <1>2, <1>3 DEF Accept

\* A first frame that identifies its sender keeps the types.
LEMMA IdentifyType ==
  ASSUME TypeInv, NEW c \in Conns,
         (\E r \in Roles : Identify(c, r)) \/ IdentifyFails(c)
  PROVE  TypeInv'
<1>1. ASSUME NEW r \in Roles, Identify(c, r) PROVE TypeInv'
  <2>1. Append(pending[r], c) \in Seq(Conns)
    BY AppendMembers DEF TypeInv, TypeOK
  <2>2. <<>> \in Seq(Chunks)
    BY EmptySeq
  <2>3. TypeOK'
    BY <1>1, <2>1, <2>2 DEF Identify, Taken, TypeInv, TypeOK, Phases
  <2>4. RoleKnown' /\ RelayerHasPair'
    BY <1>1 DEF Identify, TypeInv, TypeOK, RoleKnown, RelayerHasPair
  <2> QED BY <2>3, <2>4 DEF TypeInv
<1>2. ASSUME IdentifyFails(c) PROVE TypeInv'
  BY <1>2, CloseAndReturnType DEF IdentifyFails, TypeInv, TypeOK, pairingVars
<1> QED BY <1>1, <1>2

\* A wait that ends forgets its polls.
LEMMA EndsWaitType ==
  ASSUME TypeInv, NEW c \in Conns, EndsWait(c)
  PROVE  polls' \in [Conns -> 0 .. PollLimit - 1]
<1>1. 0 \in 0 .. PollLimit - 1
  BY PollLimitAssumption
<1> QED BY <1>1 DEF EndsWait, TypeInv, TypeOK

\* Every way an iteration of _wait_for_pair can go keeps the types.
LEMMA PollType ==
  ASSUME TypeInv, NEW c \in Conns, Poll(c)
  PROVE  TypeInv'
<1>0. role[c] \in Roles /\ Other(role[c]) \in Roles
  BY OtherRole DEF Poll, PollFindsPair, PollFindsNothing, PollPairs, PollAgain,
                   PollTimesOut, TypeInv, RoleKnown
<1>1. CASE PollFindsPair(c)
  <2>1. PICK p \in StoredPairs(c) : EnterRelayLoop(c, p) /\ Write(p[Other(role[c])], first[c])
    BY <1>1 DEF PollFindsPair
  <2>2. p \in Pairs
    BY <2>1 DEF StoredPairs, TypeInv, TypeOK
  <2>3. p[Other(role[c])] \in Conns
    BY <1>0, <2>2 DEF Pairs
  <2>4. first[c] \in Seq(Chunks)
    BY DEF TypeInv, TypeOK
  <2>5. got' \in [Conns -> Seq(Chunks)]
    BY <2>1, <2>3, <2>4, WriteType
  <2>6. RoleKnown'
    BY <1>0, <1>1, <2>1, <2>2, EnterRelayLoopType DEF PollFindsPair, TypeInv, RoleKnown
  <2> QED BY <1>1, <2>1, <2>2, <2>5, <2>6, EnterRelayLoopType, EndsWaitType
          DEF PollFindsPair, TypeInv, TypeOK, pairingVars
<1>2. CASE PollFindsNothing(c)
  BY <1>2, CloseAndReturnType, EndsWaitType DEF PollFindsNothing, TypeInv, TypeOK, pairingVars
<1>3. CASE PollPairs(c)
  <2> DEFINE r == role[c]
             o == Head(pending[Other(r)])
             p == MakePair(c, r, o)
  <2>1. pending[Other(r)] \in Seq(Conns) /\ pending[Other(r)] # <<>>
    BY <1>0, <1>3 DEF PollPairs, TypeInv, TypeOK
  <2>2. o \in Conns /\ Tail(pending[Other(r)]) \in Seq(Conns)
    BY <2>1, TailMembers
  <2>3. p \in Pairs
    BY <1>0, <2>2, MakePairType
  <2>4. Unqueued(c) \in Seq(Conns)
    BY <1>0, <1>3, UnqueuedMembers DEF PollPairs, TypeInv
  <2>5. EnterRelayLoop(c, p) /\ Write(o, first[c])
    BY <1>3 DEF PollPairs
  <2>6. pending' \in [Roles -> Seq(Conns)]
    BY <1>0, <1>3, <2>2, <2>4 DEF PollPairs, TypeInv, TypeOK
  <2>7. mtpPairs' \in [LinkIds -> Pairs \cup {NoPair}]
    BY <1>3, <2>3 DEF PollPairs, TypeInv, TypeOK
  <2> HIDE DEF o, p, r
  <2>8. first[c] \in Seq(Chunks)
    BY DEF TypeInv, TypeOK
  <2>9. got' \in [Conns -> Seq(Chunks)]
    BY <2>2, <2>5, <2>8, WriteType
  <2>10. RoleKnown'
    BY <1>0, <1>3, <2>3, <2>5, EnterRelayLoopType DEF PollPairs, TypeInv, RoleKnown
  <2> QED BY <1>3, <2>3, <2>5, <2>6, <2>7, <2>9, <2>10, EnterRelayLoopType, EndsWaitType
          DEF PollPairs, TypeInv, TypeOK
<1>4. CASE PollAgain(c)
  <2>1. polls' \in [Conns -> 0 .. PollLimit - 1]
    BY <1>4 DEF PollAgain, DeadlinePassed, TypeInv, TypeOK
  <2> QED BY <1>4, <2>1 DEF PollAgain, TypeInv, TypeOK, RoleKnown, RelayerHasPair,
                            pairingVars, streamVars
<1>5. CASE PollTimesOut(c)
  <2>1. Unqueued(c) \in Seq(Conns)
    BY <1>0, <1>5, UnqueuedMembers DEF PollTimesOut, TypeInv
  <2>2. pending' \in [Roles -> Seq(Conns)]
    BY <1>0, <1>5, <2>1 DEF PollTimesOut, TypeInv, TypeOK
  <2> QED BY <1>5, <2>2, CloseAndReturnType, EndsWaitType DEF PollTimesOut, TypeInv, TypeOK
<1> QED BY <1>1, <1>2, <1>3, <1>4, <1>5 DEF Poll

\* A step of a copy task: only its program counter, its source's buffer, its
\* destination's output and its destination's connection change.
LEMMA CopyStepType ==
  ASSUME TypeInv, NEW h \in Conns, NEW r \in Roles, CopyStep(h, r)
  PROVE  TypeInv'
<1>1. pairOf[h] \in Pairs /\ Other(r) \in Roles
  BY OtherRole DEF CopyStep, DrainFails, CopyReads, CopyResumes, TypeInv, RelayerHasPair
<1>2. pairOf[h][r] \in Conns /\ pairOf[h][Other(r)] \in Conns
  BY <1>1 DEF Pairs
<1>3. ASSUME NEW pc \in CopyPcs, SetCopy(h, r, pc) \/ ResumeCopy(h, r, pc),
             UNCHANGED handlerVars
      PROVE  /\ copy' \in [Conns -> [Roles -> CopyPcs]]
             /\ RoleKnown' /\ RelayerHasPair'
  <2>1. copy \in [Conns -> [Roles -> CopyPcs]] /\ "lost" \in CopyPcs
    BY DEF TypeInv, TypeOK, CopyPcs
  <2>2. /\ copy' \in [Conns -> [Roles -> CopyPcs]]
        /\ \A g \in Conns : \A x \in Roles :
             copy'[g][x] # "idle" => copy[g][x] # "idle" \/ g = h
    <3>1. CASE SetCopy(h, r, pc)
      BY <2>1, <3>1 DEF SetCopy
    <3>2. CASE ResumeCopy(h, r, pc)
      BY <1>3, <2>1, <3>2 DEF ResumeCopy
    <3> QED BY <1>3, <3>1, <3>2
  <2>3. RoleKnown'
    BY <1>3 DEF handlerVars, TypeInv, RoleKnown
  <2>4. RelayerHasPair'
    BY <1>1, <1>3, <2>2 DEF handlerVars, TypeInv, TypeOK, RelayerHasPair
  <2> QED BY <2>2, <2>3, <2>4
<1>4. ASSUME Forward(h, r)
      PROVE  /\ inbuf' \in [Conns -> Seq(Chunks)]
             /\ got' \in [Conns -> Seq(Chunks)]
             /\ closed' \in [Conns -> BOOLEAN]
             /\ sent' = sent /\ left' = left
  <2>1. <<>> \in Seq(Chunks) /\ inbuf[pairOf[h][r]] \in Seq(Chunks)
    BY <1>2, EmptySeq DEF TypeInv, TypeOK
  <2>2. got' \in [Conns -> Seq(Chunks)]
    BY <1>2, <1>4, <2>1, WriteType DEF Forward
  <2>3. inbuf' \in [Conns -> Seq(Chunks)]
    BY <1>2, <1>4, <2>1 DEF Forward, Taken, TypeInv, TypeOK
  <2>4. closed' \in [Conns -> BOOLEAN]
    BY <1>2, <1>4 DEF Forward, TypeInv, TypeOK
  <2> QED BY <1>4, <2>2, <2>3, <2>4 DEF Forward
<1>5. CopyPcs = {"idle", "start", "blocked", "woken", "lost", "drain", "ended", "raised"}
  BY DEF CopyPcs
<1>6. UNCHANGED <<handlerVars, pairingVars>>
  BY DEF CopyStep, DrainFails, CopyReads, CopyResumes
<1>7. CASE Forward(h, r) /\ (SetCopy(h, r, "drain") \/ ResumeCopy(h, r, "drain"))
  <2>1. "drain" \in CopyPcs
    BY <1>5
  <2> QED BY <1>3, <1>4, <1>6, <1>7, <2>1
          DEF TypeInv, TypeOK, handlerVars, pairingVars
<1>8. ASSUME NEW pc \in CopyPcs, SetCopy(h, r, pc) \/ ResumeCopy(h, r, pc),
             UNCHANGED streamVars
      PROVE  TypeInv'
  BY <1>3, <1>6, <1>8 DEF TypeInv, TypeOK, handlerVars, pairingVars, streamVars
<1> QED BY <1>5, <1>7, <1>8 DEF CopyStep, DrainFails, CopyReads, CopyResumes

\* The finally block of _relay_loop keeps the types.
LEMMA RelayEndsType ==
  ASSUME TypeInv, NEW h \in Conns, RelayEnds(h)
  PROVE  TypeInv'
<1>1. copy' \in [Conns -> [Roles -> CopyPcs]]
  BY WakeType DEF RelayEnds, TypeInv, TypeOK
<1>2. closed' \in [Conns -> BOOLEAN]
  BY DEF RelayEnds, TypeInv, TypeOK
<1>3. TypeOK'
  BY <1>1, <1>2 DEF RelayEnds, TypeInv, TypeOK, Phases, pairingVars
<1>4. RoleKnown' /\ RelayerHasPair'
  BY DEF RelayEnds, TypeInv, TypeOK, RoleKnown, RelayerHasPair, Wake
<1> QED BY <1>3, <1>4 DEF TypeInv

\* What the peers do keeps the types.
LEMMA PeerType ==
  ASSUME TypeInv, NEW c \in Conns, PeerSends(c) \/ PeerLeaves(c) \/ PeerResets(c)
  PROVE  TypeInv'
<1>1. copy' = Wake({c}) /\ UNCHANGED <<handlerVars, pairingVars>>
  BY DEF PeerSends, PeerLeaves, PeerResets
<1>2. copy' \in [Conns -> [Roles -> CopyPcs]]
  BY <1>1, WakeType DEF TypeInv, TypeOK
<1>3. RoleKnown' /\ RelayerHasPair'
  BY <1>1 DEF handlerVars, TypeInv, TypeOK, RoleKnown, RelayerHasPair, Wake
<1>4. CASE PeerSends(c)
  <2>1. <<c, sent[c] + 1>> \in Chunks
    BY <1>4 DEF PeerSends, TypeInv, TypeOK, Chunks
  <2>2. Append(inbuf[c], <<c, sent[c] + 1>>) \in Seq(Chunks)
    BY <2>1, AppendProperties DEF TypeInv, TypeOK
  <2>3. inbuf' \in [Conns -> Seq(Chunks)]
    BY <1>4, <2>2 DEF PeerSends, TypeInv, TypeOK
  <2>4. sent' \in [Conns -> 0 .. MaxChunks]
    <3>1. sent \in [Conns -> 0 .. MaxChunks] /\ sent[c] + 1 \in 0 .. MaxChunks
      BY <1>4, MaxChunksAssumption DEF PeerSends, TypeInv, TypeOK
    <3> QED BY <1>4, <3>1 DEF PeerSends
  <2> QED BY <1>1, <1>2, <1>3, <1>4, <2>3, <2>4
          DEF PeerSends, TypeInv, TypeOK, handlerVars, pairingVars
<1>5. CASE PeerLeaves(c)
  BY <1>1, <1>2, <1>3, <1>5 DEF PeerLeaves, TypeInv, TypeOK, handlerVars, pairingVars
<1>6. CASE PeerResets(c)
  <2>1. <<>> \in Seq(Chunks)
    BY EmptySeq
  <2> QED BY <1>1, <1>2, <1>3, <1>6, <2>1
          DEF PeerResets, TypeInv, TypeOK, handlerVars, pairingVars
<1> QED BY <1>4, <1>5, <1>6

\* TypeInv is inductive.
LEMMA NextTypeInv == TypeInv /\ [Next]_vars => TypeInv'
<1> SUFFICES ASSUME TypeInv, [Next]_vars PROVE TypeInv'
  OBVIOUS
<1>1. CASE UNCHANGED vars
  BY <1>1 DEF vars, handlerVars, pairingVars, streamVars, TypeInv, TypeOK,
              RoleKnown, RelayerHasPair
<1>2. CASE TakeLinkId
  BY <1>2 DEF TakeLinkId, TypeInv, TypeOK, LinkIds, RoleKnown, RelayerHasPair,
              handlerVars, streamVars
<1> QED BY <1>1, <1>2, AcceptType, IdentifyType, PollType, CopyStepType,
           RelayEndsType, PeerType DEF Next

\* Type correctness of the media relay for every set of connections: queues
\* hold connections, stored pairs are pairs, a poll never exceeds its limit.
THEOREM TypeCorrect == Spec => []TypeOK
<1>1. TypeInv => TypeOK
  BY DEF TypeInv
<1> QED BY <1>1, InitTypeInv, NextTypeInv, PTL DEF Spec

-----------------------------------------------------------------------------
(* Pairing is one to one and final                                         *)

Early == {"new", "identifying"}

\* PairedOnce is not inductive alone.  It also takes that queues hold nobody
\* twice, that only waiting connections are queued, each under its role, and
\* that a paired connection has its role for good.
QueueInv ==
  /\ \A r \in Roles : Distinct(pending[r])
  /\ \A r \in Roles : \A c \in ToSet(pending[r]) : phase[c] = "waiting" /\ role[c] = r

PairRoles ==
  \A p \in MadePairs : \A r \in Roles : phase[p[r]] \notin Early /\ role[p[r]] = r

PairInv == QueueInv /\ PairRoles /\ PairedOnce

\* The pairs in existence have a connection on each side.
LEMMA MadePairsType ==
  ASSUME TypeOK PROVE MadePairs \subseteq Pairs
  BY DEF MadePairs, TypeOK

\* The two pending lists are lists of connections.
LEMMA QueueType ==
  ASSUME TypeOK, NEW r \in Roles
  PROVE  pending[r] \in Seq(Conns) /\ ToSet(pending[r]) \subseteq Conns
  BY ToSetMembers DEF TypeOK

\* Once past identification a connection keeps its role and does not go back.
Settled == \A c \in Conns : phase[c] \notin Early => phase'[c] \notin Early /\ role'[c] = role[c]

\* What a step may do to a queue: drop members, or add one that was not
\* settled before.
QueueStep ==
  \A r \in Roles : \A c \in ToSet(pending'[r]) :
    c \in ToSet(pending[r]) \/ phase[c] \in Early

\* A step that makes no pair.
LEMMA NoPairMade ==
  ASSUME TypeOK, TypeOK', PairInv, QueueInv', Settled, QueueStep,
         MadePairs' \subseteq MadePairs
  PROVE  PairInv'
<1>1. \A p \in MadePairs : \A r \in Roles : p[r] \in Conns
  BY MadePairsType DEF Pairs
<1>2. PairRoles'
  BY <1>1 DEF PairInv, PairRoles, Settled
<1>3. \A p \in MadePairs' : \A r, x \in Roles : p[r] \notin ToSet(pending'[x])
  BY DEF PairInv, PairRoles, PairedOnce, QueueStep
<1>4. \A p, q \in MadePairs' : \A r, x \in Roles : p[r] = q[x] => p = q /\ r = x
  BY DEF PairInv, PairedOnce
<1>5. PairedOnce'
  BY <1>3, <1>4 DEF PairedOnce
<1> QED BY <1>2, <1>5 DEF PairInv

\* A step that makes pair p of two connections that were in no pair and are
\* in no queue any more.
LEMMA PairMade ==
  ASSUME TypeOK, TypeOK', PairInv, QueueInv', Settled, QueueStep,
         NEW p \in Pairs, MadePairs' \subseteq MadePairs \cup {p},
         \A r \in Roles : phase'[p[r]] \notin Early /\ role'[p[r]] = r,
         \A q \in MadePairs : \A r, x \in Roles : q[x] # p[r],
         \A r, x \in Roles : p[r] \notin ToSet(pending'[x])
  PROVE  PairInv'
<1>1. \A q \in MadePairs : \A r \in Roles : q[r] \in Conns
  BY MadePairsType DEF Pairs
<1>2. PairRoles'
  BY <1>1 DEF PairInv, PairRoles, Settled
<1>3. \A q \in MadePairs' : \A r, x \in Roles : q[r] \notin ToSet(pending'[x])
  BY DEF PairInv, PairRoles, PairedOnce, QueueStep
<1>4. \A r, x \in Roles : p[r] = p[x] => r = x
  OBVIOUS
<1>5. \A q1, q2 \in MadePairs' : \A r, x \in Roles : q1[r] = q2[x] => q1 = q2 /\ r = x
  BY <1>4 DEF PairInv, PairedOnce
<1>6. PairedOnce'
  BY <1>3, <1>5 DEF PairedOnce
<1> QED BY <1>2, <1>6 DEF PairInv

\* The relay starts without pairs and with empty queues.
LEMMA InitPairInv == Init => PairInv
<1> SUFFICES ASSUME Init PROVE PairInv
  OBVIOUS
<1>1. \A r \in Roles : pending[r] = <<>>
  BY DEF Init
<1>2. \A r \in Roles : ToSet(pending[r]) = {} /\ Distinct(pending[r])
  BY <1>1 DEF ToSet, Distinct
<1>3. MadePairs = {}
  BY DEF Init, MadePairs
<1> QED BY <1>2, <1>3 DEF PairInv, QueueInv, PairRoles, PairedOnce

\* Steps that touch no queue and no pair.
LEMMA QuietStep ==
  ASSUME TypeOK, TypeOK', PairInv, UNCHANGED <<pending, mtpPairs, pairOf, role>>,
         \A c \in Conns : \/ phase'[c] = phase[c]
                          \/ phase'[c] \notin Early /\ \A r \in Roles : c \notin ToSet(pending[r])
  PROVE  PairInv'
<1>1. MadePairs' = MadePairs
  BY DEF MadePairs
<1>2. \A r \in Roles : ToSet(pending[r]) \subseteq Conns
  BY QueueType
<1>3. QueueInv'
  BY <1>2 DEF PairInv, QueueInv
<1>4. Settled /\ QueueStep
  BY DEF Settled, QueueStep
<1> QED BY <1>1, <1>3, <1>4, NoPairMade

\* A connection that was not settled is appended to the queue of its role.
LEMMA QueueAppend ==
  ASSUME TypeOK, TypeOK', PairInv, NEW c \in Conns, NEW r \in Roles,
         phase[c] \in Early,
         pending' = [pending EXCEPT ![r] = Append(@, c)],
         phase' = [phase EXCEPT ![c] = "waiting"],
         role' = [role EXCEPT ![c] = r],
         UNCHANGED <<mtpPairs, pairOf>>
  PROVE  PairInv'
<1>1. \A x \in Roles : c \notin ToSet(pending[x])
  BY DEF PairInv, QueueInv, Early
<1>2. pending[r] \in Seq(Conns) /\ \A x \in Roles : ToSet(pending[x]) \subseteq Conns
  BY QueueType
<1>3. /\ ToSet(Append(pending[r], c)) = ToSet(pending[r]) \cup {c}
      /\ Distinct(Append(pending[r], c))
  BY <1>1, <1>2, AppendMembers DEF PairInv, QueueInv
<1>4. \A x \in Roles : pending'[x] = IF x = r THEN Append(pending[r], c) ELSE pending[x]
  BY DEF TypeOK
<1>5. /\ \A d \in Conns : phase'[d] = IF d = c THEN "waiting" ELSE phase[d]
      /\ \A d \in Conns : role'[d] = IF d = c THEN r ELSE role[d]
  BY DEF TypeOK
<1>6. \A x \in Roles : Distinct(pending'[x])
  BY <1>3, <1>4 DEF PairInv, QueueInv
<1>7. \A x \in Roles : \A d \in ToSet(pending'[x]) :
        /\ d \in Conns
        /\ d \in ToSet(pending[x]) \/ (d = c /\ x = r)
  BY <1>2, <1>3, <1>4
<1>8. \A x \in Roles : \A d \in ToSet(pending'[x]) : phase'[d] = "waiting" /\ role'[d] = x
  BY <1>1, <1>5, <1>7 DEF PairInv, QueueInv
<1>9. QueueInv'
  BY <1>6, <1>8 DEF QueueInv
<1>10. Settled /\ QueueStep
  BY <1>5, <1>7 DEF Settled, QueueStep
<1>11. MadePairs' = MadePairs
  BY DEF MadePairs
<1> QED BY <1>9, <1>10, <1>11, NoPairMade

\* The queues lose members, and no connection that stays queued is touched.
LEMMA QueueShrinks ==
  ASSUME TypeOK, QueueInv,
         \A x \in Roles : Distinct(pending'[x]) /\ ToSet(pending'[x]) \subseteq ToSet(pending[x]),
         \A x \in Roles : \A d \in ToSet(pending'[x]) : phase'[d] = phase[d] /\ role'[d] = role[d]
  PROVE  QueueInv' /\ QueueStep
  BY DEF QueueInv, QueueStep

\* A new connection takes the head of the other queue.
LEMMA AcceptPairInv ==
  ASSUME TypeInv, TypeInv', PairInv, NEW c \in Conns, Accept(c)
  PROVE  PairInv'
<1>0. phase[c] = "new"
  BY DEF Accept, AcceptAndPair, AcceptAndQueue, AcceptUnknown
<1>1. \A r \in Roles : c \notin ToSet(pending[r])
  BY <1>0 DEF PairInv, QueueInv
<1>2. \A q \in MadePairs : \A x \in Roles : q[x] # c
  BY <1>0 DEF PairInv, PairRoles, Early
<1>3. ASSUME NEW r \in IpRoles \cap Roles, AcceptAndPair(c, r) PROVE PairInv'
  <2> DEFINE s == Other(r)
             o == Head(pending[s])
             p == MakePair(c, r, o)
  <2>1. s \in Roles /\ s # r /\ pending[s] \in Seq(Conns) /\ pending[s] # <<>>
    BY <1>3, OtherRole, QueueType DEF AcceptAndPair, TypeInv
  <2>2. /\ o \in Conns /\ o \in ToSet(pending[s])
        /\ ToSet(Tail(pending[s])) \subseteq ToSet(pending[s])
        /\ Distinct(Tail(pending[s])) /\ o \notin ToSet(Tail(pending[s]))
    BY <2>1, TailMembers DEF PairInv, QueueInv
  <2>3. p \in Pairs /\ p[r] = c /\ p[s] = o /\ \A x \in Roles : x = r \/ x = s
    BY <2>2, MakePairType
  <2>4. phase[o] = "waiting" /\ role[o] = s /\ o # c
    BY <1>0, <2>1, <2>2 DEF PairInv, QueueInv
  <2>5. o \notin ToSet(pending[r])
    BY <2>1, <2>4 DEF PairInv, QueueInv
  <2>6. EnterRelayLoop(c, p)
    BY <1>3 DEF AcceptAndPair
  <2>7. /\ pending'[s] = Tail(pending[s]) /\ pending'[r] = pending[r]
        /\ phase' = [phase EXCEPT ![c] = "relaying"]
        /\ role' = [role EXCEPT ![c] = r]
        /\ pairOf' = [pairOf EXCEPT ![c] = p] /\ mtpPairs' = mtpPairs
    BY <1>3, <2>1, <2>6 DEF AcceptAndPair, EnterRelayLoop, TypeInv, TypeOK
  <2> HIDE DEF s, o, p
  <2>8. MadePairs' \subseteq MadePairs \cup {p}
    <3>1. \A h \in Conns : pairOf'[h] = pairOf[h] \/ pairOf'[h] = p
      BY <2>7 DEF TypeInv, TypeOK
    <3>2. \A l \in LinkIds : mtpPairs'[l] = mtpPairs[l]
      BY <2>7
    <3> QED BY <3>1, <3>2 DEF MadePairs
  <2>9. \A x \in Roles : ToSet(pending'[x]) \subseteq ToSet(pending[x])
    BY <2>2, <2>3, <2>7
  <2>10. \A x \in Roles : c \notin ToSet(pending'[x]) /\ o \notin ToSet(pending'[x])
    BY <1>1, <2>2, <2>3, <2>5, <2>7
  <2>11. \A x \in Roles : ToSet(pending[x]) \subseteq Conns
    BY QueueType DEF TypeInv
  <2>12. \A x \in Roles : Distinct(pending'[x])
    BY <2>2, <2>3, <2>7 DEF PairInv, QueueInv
  <2>13. \A d \in Conns : d # c => phase'[d] = phase[d] /\ role'[d] = role[d]
    BY <2>7 DEF TypeInv, TypeOK
  <2>14. QueueInv' /\ QueueStep
    BY <2>9, <2>10, <2>11, <2>12, <2>13, QueueShrinks DEF PairInv, TypeInv
  <2>19. Settled
    BY <1>0, <2>13 DEF Settled, Early
  <2>15. \A x \in Roles : phase'[p[x]] \notin Early /\ role'[p[x]] = x
    BY <2>2, <2>3, <2>4, <2>7 DEF Early, TypeInv, TypeOK
  <2>16. \A q \in MadePairs : \A x \in Roles : q[x] # o
    BY <2>1, <2>2 DEF PairInv, PairedOnce
  <2>17. \A q \in MadePairs : \A y, x \in Roles : q[x] # p[y]
    BY <1>2, <2>3, <2>16
  <2>18. \A y, x \in Roles : p[y] \notin ToSet(pending'[x])
    BY <2>3, <2>10
  <2> QED BY <2>3, <2>8, <2>14, <2>15, <2>17, <2>19, <2>18, PairMade DEF TypeInv
<1>4. ASSUME NEW r \in IpRoles \cap Roles, AcceptAndQueue(c, r) PROVE PairInv'
  BY <1>0, <1>4, QueueAppend DEF AcceptAndQueue, Early, TypeInv
<1>5. ASSUME AcceptUnknown(c) PROVE PairInv'
  <2>1. UNCHANGED <<pending, mtpPairs, pairOf, role>>
    BY <1>5 DEF AcceptUnknown, pairingVars
  <2>2. \A d \in Conns : d # c => phase'[d] = phase[d]
    BY <1>5 DEF AcceptUnknown, TypeInv, TypeOK
  <2>3. \A x \in Roles : ToSet(pending[x]) \subseteq Conns
    BY QueueType DEF TypeInv
  <2>4. QueueInv' /\ QueueStep
    BY <1>1, <2>1, <2>2, <2>3, QueueShrinks DEF PairInv, QueueInv, TypeInv
  <2>5. Settled
    BY <1>0, <2>1, <2>2 DEF Settled, Early
  <2>6. MadePairs' = MadePairs
    BY <2>1 DEF MadePairs
  <2> QED BY <2>4, <2>5, <2>6, NoPairMade DEF TypeInv
<1> QED BY <1>3, <1>4, <1>5 DEF Accept

\* A connection identified by its first frame is queued, which pairs nobody.
LEMMA IdentifyPairInv ==
  ASSUME TypeInv, TypeInv', PairInv, NEW c \in Conns, NEW r \in Roles, Identify(c, r)
  PROVE  PairInv'
  BY QueueAppend DEF Identify, Early, TypeInv

\* A waiting connection takes the head of the other queue and leaves its own.
LEMMA PollPairsPairInv ==
  ASSUME TypeInv, TypeInv', PairInv, NEW c \in Conns, PollPairs(c)
  PROVE  PairInv'
<1> DEFINE r == role[c]
           s == Other(r)
           o == Head(pending[s])
           p == MakePair(c, r, o)
<1>1. r \in Roles /\ s \in Roles /\ s # r
  BY OtherRole DEF PollPairs, TypeInv, RoleKnown
<1>2. c \in ToSet(pending[r]) /\ phase[c] = "waiting"
  BY DEF PollPairs, Queued
<1>3. pending[s] \in Seq(Conns) /\ pending[s] # <<>>
  BY <1>1, QueueType DEF PollPairs, TypeInv
<1>4. /\ o \in Conns /\ o \in ToSet(pending[s])
      /\ ToSet(Tail(pending[s])) \subseteq ToSet(pending[s])
      /\ Distinct(Tail(pending[s])) /\ o \notin ToSet(Tail(pending[s]))
  BY <1>1, <1>3, TailMembers DEF PairInv, QueueInv
<1>5. /\ ToSet(Unqueued(c)) \subseteq ToSet(pending[r])
      /\ Distinct(Unqueued(c)) /\ c \notin ToSet(Unqueued(c))
  BY <1>1, <1>2, UnqueuedMembers DEF Queued, TypeInv, PairInv, QueueInv
<1>6. p \in Pairs /\ p[r] = c /\ p[s] = o /\ \A x \in Roles : x = r \/ x = s
  BY <1>1, <1>4, MakePairType
<1>7. phase[o] = "waiting" /\ role[o] = s /\ o # c
  BY <1>1, <1>4 DEF PairInv, QueueInv
<1>8. c \notin ToSet(pending[s]) /\ o \notin ToSet(pending[r])
  BY <1>1, <1>7 DEF PairInv, QueueInv
<1>9. /\ pending'[s] = Tail(pending[s]) /\ pending'[r] = Unqueued(c)
      /\ phase' = [phase EXCEPT ![c] = "relaying"]
      /\ role' = role
      /\ pairOf' = [pairOf EXCEPT ![c] = p]
      /\ mtpPairs' = [mtpPairs EXCEPT ![linkCounter] = p]
  BY <1>1 DEF PollPairs, EnterRelayLoop, TypeInv, TypeOK
<1> HIDE DEF r, s, o, p
<1>10. MadePairs' \subseteq MadePairs \cup {p}
  BY <1>9 DEF MadePairs, TypeInv, TypeOK
<1>11. \A x \in Roles : Distinct(pending'[x]) /\ ToSet(pending'[x]) \subseteq ToSet(pending[x])
  BY <1>4, <1>5, <1>6, <1>9
<1>12. \A x \in Roles : c \notin ToSet(pending'[x]) /\ o \notin ToSet(pending'[x])
  BY <1>4, <1>5, <1>6, <1>8, <1>9
<1>13. \A x \in Roles : ToSet(pending[x]) \subseteq Conns
  BY QueueType DEF TypeInv
<1>14. \A d \in Conns : phase'[d] = IF d = c THEN "relaying" ELSE phase[d]
  BY <1>9 DEF TypeInv, TypeOK
<1>15. QueueInv' /\ QueueStep
  BY <1>9, <1>11, <1>12, <1>13, <1>14, QueueShrinks DEF PairInv, TypeInv
<1>16. Settled
  BY <1>9, <1>14 DEF Settled, Early
<1>17. \A x \in Roles : phase'[p[x]] \notin Early /\ role'[p[x]] = x
  BY <1>4, <1>6, <1>7, <1>9, <1>14 DEF Early, r
<1>18. \A q \in MadePairs : \A x \in Roles : q[x] # o /\ q[x] # c
  BY <1>1, <1>2, <1>4 DEF PairInv, PairedOnce
<1>19. \A q \in MadePairs : \A y, x \in Roles : q[x] # p[y]
  BY <1>6, <1>18
<1>20. \A y, x \in Roles : p[y] \notin ToSet(pending'[x])
  BY <1>6, <1>12
<1> QED BY <1>6, <1>10, <1>15, <1>16, <1>17, <1>19, <1>20, PairMade DEF TypeInv

\* Every way an iteration of _wait_for_pair can go keeps pairing one to one.
LEMMA PollPairInv ==
  ASSUME TypeInv, TypeInv', PairInv, NEW c \in Conns, Poll(c)
  PROVE  PairInv'
<1>1. CASE PollFindsPair(c)
  <2>1. PICK p \in StoredPairs(c) : EnterRelayLoop(c, p)
    BY <1>1 DEF PollFindsPair
  <2>2. p \in MadePairs
    BY <2>1 DEF StoredPairs, MadePairs
  <2>3. UNCHANGED <<pending, mtpPairs, role>>
    BY <1>1 DEF PollFindsPair, pairingVars
  <2>4. MadePairs' \subseteq MadePairs
    <3>1. \A h \in Conns : pairOf'[h] = p \/ pairOf'[h] = pairOf[h]
      BY <2>1 DEF EnterRelayLoop, TypeInv, TypeOK
    <3> SUFFICES ASSUME NEW q \in MadePairs' PROVE q \in MadePairs
      OBVIOUS
    <3>2. q # NoPair /\ ((\E h \in Conns : q = pairOf'[h]) \/ (\E l \in LinkIds : q = mtpPairs[l]))
      BY <2>3 DEF MadePairs
    <3> QED BY <2>2, <3>1, <3>2 DEF MadePairs
  <2>5. \A d \in Conns : phase'[d] = IF d = c THEN "relaying" ELSE phase[d]
    BY <2>1 DEF EnterRelayLoop, TypeInv, TypeOK
  <2>6. \A x \in Roles : ToSet(pending[x]) \subseteq Conns /\ c \notin ToSet(pending[x])
    BY <1>1, QueueType DEF PollFindsPair, Queued, TypeInv, PairInv, QueueInv
  <2>7. QueueInv' /\ QueueStep
    BY <2>3, <2>5, <2>6, QueueShrinks DEF PairInv, QueueInv, TypeInv
  <2>8. Settled
    BY <2>3, <2>5 DEF Settled, Early
  <2> QED BY <2>4, <2>7, <2>8, NoPairMade DEF TypeInv
<1>2. CASE PollFindsNothing(c)
  <2>1. UNCHANGED <<pending, mtpPairs, pairOf, role>>
    BY <1>2 DEF PollFindsNothing, pairingVars
  <2>2. \A d \in Conns : phase'[d] = IF d = c THEN "done" ELSE phase[d]
    BY <1>2 DEF PollFindsNothing, CloseAndReturn, TypeInv, TypeOK
  <2>3. \A x \in Roles : c \notin ToSet(pending[x])
    BY <1>2 DEF PollFindsNothing, Queued, PairInv, QueueInv
  <2> QED BY <2>1, <2>2, <2>3, QuietStep DEF TypeInv, Early
<1>3. CASE PollPairs(c)
  BY <1>3, PollPairsPairInv
<1>4. CASE PollAgain(c)
  BY <1>4, QuietStep DEF PollAgain, pairingVars, TypeInv
<1>5. CASE PollTimesOut(c)
  <2>1. role[c] \in Roles /\ Queued(c)
    BY <1>5 DEF PollTimesOut, TypeInv, RoleKnown
  <2>2. /\ ToSet(Unqueued(c)) \subseteq ToSet(pending[role[c]])
        /\ Distinct(Unqueued(c)) /\ c \notin ToSet(Unqueued(c))
    BY <2>1, UnqueuedMembers DEF TypeInv, PairInv, QueueInv
  <2>3. \A x \in Roles : pending'[x] = IF x = role[c] THEN Unqueued(c) ELSE pending[x]
    BY <1>5, <2>1 DEF PollTimesOut, TypeInv, TypeOK
  <2>4. \A d \in Conns : phase'[d] = IF d = c THEN "done" ELSE phase[d]
    BY <1>5 DEF PollTimesOut, CloseAndReturn, TypeInv, TypeOK
  <2>5. UNCHANGED <<mtpPairs, pairOf, role>>
    BY <1>5 DEF PollTimesOut
  <2>6. \A x \in Roles : Distinct(pending'[x]) /\ ToSet(pending'[x]) \subseteq ToSet(pending[x])
    BY <2>2, <2>3 DEF PairInv, QueueInv
  <2>7. \A x \in Roles : ToSet(pending[x]) \subseteq Conns /\ c \notin ToSet(pending'[x])
    BY <2>1, <2>2, <2>3, QueueType DEF TypeInv, PairInv, QueueInv
  <2>8. QueueInv' /\ QueueStep
    BY <2>4, <2>5, <2>6, <2>7, QueueShrinks DEF PairInv, TypeInv
  <2>9. Settled
    BY <2>4, <2>5 DEF Settled, Early
  <2>10. MadePairs' = MadePairs
    BY <2>5 DEF MadePairs
  <2> QED BY <2>8, <2>9, <2>10, NoPairMade DEF TypeInv
<1> QED BY <1>1, <1>2, <1>3, <1>4, <1>5 DEF Poll

\* PairInv is inductive relative to TypeInv.
LEMMA NextPairInv == TypeInv /\ TypeInv' /\ PairInv /\ [Next]_vars => PairInv'
<1> SUFFICES ASSUME TypeInv, TypeInv', PairInv, [Next]_vars PROVE PairInv'
  OBVIOUS
<1>1. CASE UNCHANGED vars \/ TakeLinkId
  BY <1>1, QuietStep DEF vars, TakeLinkId, handlerVars, pairingVars, TypeInv
<1>2. ASSUME NEW c \in Conns, IdentifyFails(c) PROVE PairInv'
  <2>1. \A d \in Conns : phase'[d] = IF d = c THEN "done" ELSE phase[d]
    BY <1>2 DEF IdentifyFails, CloseAndReturn, TypeInv, TypeOK
  <2>2. \A r \in Roles : c \notin ToSet(pending[r])
    BY <1>2 DEF IdentifyFails, PairInv, QueueInv
  <2> QED BY <1>2, <2>1, <2>2, QuietStep DEF IdentifyFails, pairingVars, TypeInv, Early
<1>3. ASSUME NEW h \in Conns, NEW r \in Roles, CopyStep(h, r) PROVE PairInv'
  <2>1. UNCHANGED <<handlerVars, pairingVars>>
    BY <1>3 DEF CopyStep, DrainFails, CopyReads, CopyResumes
  <2> QED BY <2>1, QuietStep DEF handlerVars, pairingVars, TypeInv
<1>4. ASSUME NEW h \in Conns, RelayEnds(h) PROVE PairInv'
  <2>1. \A d \in Conns : phase'[d] = IF d = h THEN "done" ELSE phase[d]
    BY <1>4 DEF RelayEnds, TypeInv, TypeOK
  <2>2. \A r \in Roles : h \notin ToSet(pending[r])
    BY <1>4 DEF RelayEnds, PairInv, QueueInv
  <2> QED BY <1>4, <2>1, <2>2, QuietStep DEF RelayEnds, pairingVars, TypeInv, Early
<1>5. ASSUME NEW c \in Conns, PeerSends(c) \/ PeerLeaves(c) \/ PeerResets(c)
      PROVE  PairInv'
  BY <1>5, QuietStep DEF PeerSends, PeerLeaves, PeerResets, handlerVars,
                         pairingVars, TypeInv
<1> QED BY <1>1, <1>2, <1>3, <1>4, <1>5, AcceptPairInv, IdentifyPairInv, PollPairInv
        DEF Next

\* For every number of connections: two pairs never share a connection, and a
\* paired connection waits in no queue, so nobody can pair it a second time.
THEOREM PairingOneToOne == Spec => []PairedOnce
<1>1. Init => TypeInv /\ PairInv
  BY InitTypeInv, InitPairInv
<1>2. TypeInv /\ PairInv /\ [Next]_vars => TypeInv' /\ PairInv'
  BY NextTypeInv, NextPairInv
<1>3. PairInv => PairedOnce
  BY DEF PairInv
<1> QED BY <1>1, <1>2, <1>3, PTL DEF Spec

-----------------------------------------------------------------------------
(* What handlers hold                                                      *)

Unpaired == {"new", "identifying", "waiting"}

\* A handler holds no pair before it relays one, then a pair with its own
\* connection on one side, and its connection is closed when it has returned.
HandlerInv ==
  /\ \A c \in Conns : phase[c] \in Unpaired => pairOf[c] = NoPair
  /\ \A c \in Conns : phase[c] = "relaying" => \E r \in Roles : pairOf[c][r] = c
  /\ ReturnedIsClosed

\* What mtp_pairs keeps is a pair that its maker relays or has relayed.
StoredHeld == \A l \in LinkIds : mtpPairs[l] # NoPair => mtpPairs[l] \in HeldPairs

Words(c) == {c} \X (1 .. sent[c])

\* What a connection has buffered, or its handler has read to identify it, was
\* sent by its own peer.
Authentic ==
  \A c \in Conns : ToSet(inbuf[c]) \subseteq Words(c) /\ ToSet(first[c]) \subseteq Words(c)

HeldInv == HandlerInv /\ StoredHeld /\ Authentic
Inv == TypeInv /\ PairInv /\ HeldInv

\* Initially nobody holds or has sent anything.
LEMMA InitHeldInv == Init => HeldInv
<1> SUFFICES ASSUME Init PROVE HeldInv
  OBVIOUS
<1>1. \A c \in Conns : ToSet(inbuf[c]) = {} /\ ToSet(first[c]) = {}
  BY DEF Init, ToSet
<1>2. HandlerInv /\ StoredHeld
  BY DEF Init, HandlerInv, ReturnedIsClosed, StoredHeld
<1> QED BY <1>1, <1>2 DEF HeldInv, Authentic

\* Steps that change nothing a handler holds, and only close connections.
LEMMA HandlersQuiet ==
  ASSUME HandlerInv, StoredHeld, UNCHANGED <<pairOf, mtpPairs>>,
         \A c \in Conns : phase'[c] = phase[c],
         \A c \in Conns : closed[c] => closed'[c]
  PROVE  HandlerInv' /\ StoredHeld'
  BY DEF HandlerInv, ReturnedIsClosed, StoredHeld, HeldPairs

\* Steps of a handler that holds no pair and does not start to relay one.
LEMMA HandlerMoves ==
  ASSUME HandlerInv, StoredHeld, NEW c \in Conns, phase[c] \in Unpaired,
         UNCHANGED <<pairOf, mtpPairs>>,
         \A d \in Conns : d # c => phase'[d] = phase[d],
         phase'[c] \in Unpaired \/ (phase'[c] = "done" /\ closed'[c]),
         \A d \in Conns : closed[d] => closed'[d]
  PROVE  HandlerInv' /\ StoredHeld'
  BY DEF HandlerInv, ReturnedIsClosed, StoredHeld, HeldPairs, Unpaired

\* A handler that held no pair starts to relay p; p may be stored.
LEMMA HandlerRelays ==
  ASSUME TypeOK, HandlerInv, StoredHeld, NEW c \in Conns, phase[c] \in Unpaired,
         NEW p \in Pairs, \E r \in Roles : p[r] = c, EnterRelayLoop(c, p),
         UNCHANGED closed,
         \A l \in LinkIds : mtpPairs'[l] = mtpPairs[l] \/ mtpPairs'[l] = p
  PROVE  /\ HandlerInv' /\ StoredHeld'
         /\ HeldPairs' = HeldPairs \cup {p}
<1>1. \A d \in Conns : /\ pairOf'[d] = IF d = c THEN p ELSE pairOf[d]
                       /\ phase'[d] = IF d = c THEN "relaying" ELSE phase[d]
  BY DEF EnterRelayLoop, TypeOK
<1>2. p # NoPair /\ pairOf[c] = NoPair
  BY NoPairAssumption DEF Pairs, HandlerInv
<1>3. HandlerInv'
  BY <1>1 DEF HandlerInv, ReturnedIsClosed, Unpaired
<1>4. HeldPairs' = HeldPairs \cup {p}
  BY <1>1, <1>2 DEF HeldPairs
<1> QED BY <1>3, <1>4 DEF StoredHeld

\* Steps that take from what is buffered and let peers send at most more.
LEMMA AuthenticKept ==
  ASSUME TypeOK, TypeOK', Authentic, UNCHANGED first,
         \A c \in Conns : sent[c] <= sent'[c],
         \A c \in Conns : ToSet(inbuf'[c]) \subseteq ToSet(inbuf[c]) \cup Words(c)'
  PROVE  Authentic'
<1>1. \A c \in Conns : sent[c] \in Nat /\ sent'[c] \in Nat
  BY DEF TypeOK
<1>2. \A c \in Conns : Words(c) \subseteq Words(c)'
  BY <1>1 DEF Words
<1> QED BY <1>2 DEF Authentic

-----------------------------------------------------------------------------
(* HeldInv is inductive                                                    *)

\* A new connection starts a relay loop over its own pair, or waits.
LEMMA AcceptHeldInv ==
  ASSUME Inv, TypeInv', NEW c \in Conns, Accept(c)
  PROVE  HeldInv'
<1>1. UNCHANGED <<first, mtpPairs, streamVars>> /\ phase[c] = "new"
  BY DEF Accept, AcceptAndPair, AcceptAndQueue, AcceptUnknown, pairingVars
<1>2. Authentic'
  BY <1>1 DEF streamVars, Inv, HeldInv, Authentic, Words
<1>3. ASSUME NEW r \in IpRoles \cap Roles, AcceptAndPair(c, r)
      PROVE  HandlerInv' /\ StoredHeld'
  <2> DEFINE o == Head(pending[Other(r)])
             p == MakePair(c, r, o)
  <2>1. Other(r) \in Roles /\ pending[Other(r)] \in Seq(Conns) /\ pending[Other(r)] # <<>>
    BY <1>3, OtherRole, QueueType DEF AcceptAndPair, Inv, TypeInv
  <2>2. o \in Conns
    BY <2>1, TailMembers
  <2>3. p \in Pairs /\ p[r] = c
    BY <2>2, MakePairType
  <2>4. EnterRelayLoop(c, p)
    BY <1>3 DEF AcceptAndPair
  <2> HIDE DEF o, p
  <2> QED BY <1>1, <2>3, <2>4, HandlerRelays
          DEF Inv, HeldInv, TypeInv, Unpaired, streamVars
<1>4. ASSUME \/ AcceptUnknown(c)
             \/ \E r \in IpRoles \cap Roles : AcceptAndQueue(c, r)
      PROVE  HandlerInv' /\ StoredHeld'
  <2>1. pairOf' = pairOf /\ \/ phase' = [phase EXCEPT ![c] = "identifying"]
                            \/ phase' = [phase EXCEPT ![c] = "waiting"]
    BY <1>4 DEF AcceptUnknown, AcceptAndQueue
  <2>2. phase'[c] \in Unpaired /\ \A d \in Conns : d # c => phase'[d] = phase[d]
    BY <2>1 DEF Unpaired, Inv, TypeInv, TypeOK
  <2> QED BY <1>1, <2>1, <2>2, HandlerMoves DEF Inv, HeldInv, Unpaired, streamVars
<1> QED BY <1>2, <1>3, <1>4 DEF Accept, HeldInv

\* CloseAndReturn of a handler that held no pair.
LEMMA ReturnHeldInv ==
  ASSUME Inv, NEW c \in Conns, phase[c] \in Unpaired, CloseAndReturn(c),
         UNCHANGED <<pairOf, mtpPairs, first, inbuf, sent>>
  PROVE  HeldInv'
<1>1. /\ \A d \in Conns : phase'[d] = IF d = c THEN "done" ELSE phase[d]
      /\ \A d \in Conns : closed'[d] = IF d = c THEN TRUE ELSE closed[d]
  BY DEF CloseAndReturn, Inv, TypeInv, TypeOK
<1>2. HandlerInv' /\ StoredHeld'
  BY <1>1, HandlerMoves DEF Inv, HeldInv
<1>3. Authentic'
  BY DEF Inv, HeldInv, Authentic, Words
<1> QED BY <1>2, <1>3 DEF HeldInv

\* What is read to identify a connection is moved from its buffer.
LEMMA IdentifyHeldInv ==
  ASSUME Inv, TypeInv', NEW c \in Conns, NEW r \in Roles, Identify(c, r)
  PROVE  HeldInv'
<1>1. /\ \A d \in Conns : phase'[d] = IF d = c THEN "waiting" ELSE phase[d]
      /\ \A d \in Conns : first'[d] = IF d = c THEN inbuf[c] ELSE first[d]
      /\ \A d \in Conns : inbuf'[d] = IF d = c THEN <<>> ELSE inbuf[d]
  BY DEF Identify, Taken, Inv, TypeInv, TypeOK
<1>2. phase[c] \in Unpaired /\ phase'[c] \in Unpaired
  BY <1>1 DEF Identify, Unpaired
<1>3. UNCHANGED <<pairOf, mtpPairs, closed, sent>>
  BY DEF Identify
<1>4. HandlerInv' /\ StoredHeld'
  BY <1>1, <1>2, <1>3, HandlerMoves DEF Inv, HeldInv
<1>5. Authentic'
  BY <1>1, <1>3, EmptyToSet DEF Inv, HeldInv, Authentic, Words
<1> QED BY <1>4, <1>5 DEF HeldInv

\* A waiting handler starts to relay the pair that was stored for it.
LEMMA FindsPairHeld ==
  ASSUME Inv, NEW c \in Conns, PollFindsPair(c),
         NEW p \in StoredPairs(c), EnterRelayLoop(c, p)
  PROVE  /\ HeldInv'
         /\ p \in HeldPairs /\ role[c] \in Roles /\ p[role[c]] = c
         /\ HeldPairs' = HeldPairs
<1>1. /\ p \in HeldPairs /\ p \in Pairs
      /\ role[c] \in Roles /\ p[role[c]] = c
      /\ phase[c] \in Unpaired
  BY DEF StoredPairs, PollFindsPair, Inv, HeldInv, StoredHeld, TypeInv, TypeOK,
         RoleKnown, Unpaired
<1>2. UNCHANGED <<mtpPairs, closed, first, inbuf, sent>>
  BY DEF PollFindsPair, pairingVars
<1>3. HandlerInv' /\ StoredHeld' /\ HeldPairs' = HeldPairs
  BY <1>1, <1>2, HandlerRelays DEF Inv, HeldInv, TypeInv
<1>4. Authentic'
  BY <1>2 DEF Inv, HeldInv, Authentic, Words
<1> QED BY <1>1, <1>3, <1>4 DEF HeldInv

\* A waiting handler takes the head of the other queue and stores the pair.
LEMMA PollPairsHeld ==
  ASSUME Inv, NEW c \in Conns, PollPairs(c),
         NEW r, r = role[c], NEW o, o = Head(pending[Other(r)]),
         NEW p, p = MakePair(c, r, o)
  PROVE  /\ HeldInv'
         /\ r \in Roles /\ o \in Conns /\ o # c
         /\ p \in Pairs /\ p[r] = c /\ p[Other(r)] = o
         /\ c \in ToSet(pending[r]) /\ o \in ToSet(pending[Other(r)])
         /\ HeldPairs' = HeldPairs \cup {p}
<1>1. r \in Roles /\ Other(r) \in Roles /\ Other(r) # r /\ phase[c] \in Unpaired
  BY OtherRole DEF PollPairs, Inv, TypeInv, RoleKnown, Unpaired
<1>2. pending[Other(r)] \in Seq(Conns) /\ pending[Other(r)] # <<>>
  BY <1>1, QueueType DEF PollPairs, Inv, TypeInv
<1>3. o \in Conns /\ o \in ToSet(pending[Other(r)])
  BY <1>2, TailMembers
<1>4. p \in Pairs /\ p[r] = c /\ p[Other(r)] = o
  BY <1>1, <1>3, MakePairType
<1>5. o # c
  BY <1>1, <1>3 DEF Inv, PairInv, QueueInv
<1>6. /\ EnterRelayLoop(c, p) /\ mtpPairs' = [mtpPairs EXCEPT ![linkCounter] = p]
      /\ UNCHANGED <<closed, first, inbuf, sent>> /\ c \in ToSet(pending[r])
  BY DEF PollPairs, Queued
<1>7. \A l \in LinkIds : mtpPairs'[l] = mtpPairs[l] \/ mtpPairs'[l] = p
  BY <1>6 DEF Inv, TypeInv, TypeOK
<1>8. HandlerInv' /\ StoredHeld' /\ HeldPairs' = HeldPairs \cup {p}
  BY <1>1, <1>4, <1>6, <1>7, HandlerRelays DEF Inv, HeldInv, TypeInv
<1>9. Authentic'
  BY <1>6 DEF Inv, HeldInv, Authentic, Words
<1> QED BY <1>1, <1>3, <1>4, <1>5, <1>6, <1>8, <1>9 DEF HeldInv

\* Every way an iteration of _wait_for_pair can go keeps HeldInv.
LEMMA PollHeldInv ==
  ASSUME Inv, TypeInv', NEW c \in Conns, Poll(c)
  PROVE  HeldInv'
<1>1. CASE PollFindsPair(c)
  <2>1. PICK p \in StoredPairs(c) : EnterRelayLoop(c, p)
    BY <1>1 DEF PollFindsPair
  <2> QED BY <1>1, <2>1, FindsPairHeld
<1>2. CASE PollFindsNothing(c)
  BY <1>2, ReturnHeldInv DEF PollFindsNothing, pairingVars, Unpaired
<1>3. CASE PollPairs(c)
  BY <1>3, PollPairsHeld
<1>4. CASE PollAgain(c)
  <2>1. HandlerInv' /\ StoredHeld'
    BY <1>4, HandlersQuiet DEF PollAgain, pairingVars, streamVars, Inv, HeldInv
  <2>2. Authentic'
    BY <1>4 DEF PollAgain, streamVars, Inv, HeldInv, Authentic, Words
  <2> QED BY <2>1, <2>2 DEF HeldInv
<1>5. CASE PollTimesOut(c)
  BY <1>5, ReturnHeldInv DEF PollTimesOut, Unpaired
<1> QED BY <1>1, <1>2, <1>3, <1>4, <1>5 DEF Poll

\* The effect of a copy task's step on the streams: nothing, or it moves what
\* one side of its pair has buffered to the other side.
LEMMA CopyStepEffect ==
  ASSUME Inv, NEW h \in Conns, NEW r \in Roles, CopyStep(h, r)
  PROVE  /\ UNCHANGED <<handlerVars, pairingVars, sent, left>>
         /\ pairOf[h] \in HeldPairs /\ pairOf[h] \in Pairs
         /\ Other(r) \in Roles
         /\ \/ UNCHANGED <<inbuf, got, closed>>
            \/ Forward(h, r)
<1>1. pairOf[h] \in Pairs /\ Other(r) \in Roles
  BY OtherRole DEF CopyStep, DrainFails, CopyReads, CopyResumes, Inv, TypeInv, RelayerHasPair
<1>2. pairOf[h] \in HeldPairs
  BY <1>1, NoPairAssumption DEF HeldPairs, Pairs
<1> QED BY <1>1, <1>2 DEF CopyStep, DrainFails, CopyReads, CopyResumes, Forward, streamVars

\* A copy task only takes from a buffer and may find a connection lost.
LEMMA CopyStepHeldInv ==
  ASSUME Inv, TypeInv', NEW h \in Conns, NEW r \in Roles, CopyStep(h, r)
  PROVE  HeldInv'
<1>1. UNCHANGED <<handlerVars, pairingVars, sent, left>>
  BY CopyStepEffect
<1>2. \/ UNCHANGED <<inbuf, got, closed>>
      \/ Forward(h, r)
  BY CopyStepEffect
<1>3. \A c \in Conns : closed[c] => closed'[c]
  BY <1>2 DEF Forward, Inv, TypeInv, TypeOK
<1>4. HandlerInv' /\ StoredHeld'
  BY <1>1, <1>3, HandlersQuiet DEF handlerVars, pairingVars, Inv, HeldInv
<1>5. \A c \in Conns : inbuf'[c] = inbuf[c] \/ inbuf'[c] = <<>>
  BY <1>2 DEF Forward, Taken, Inv, TypeInv, TypeOK
<1>6. \A c \in Conns : ToSet(inbuf'[c]) \subseteq ToSet(inbuf[c])
  BY <1>5, EmptyToSet
<1>7. \A c \in Conns : sent[c] <= sent'[c]
  BY <1>1 DEF Inv, TypeInv, TypeOK
<1>8. Authentic'
  BY <1>1, <1>6, <1>7, AuthenticKept DEF handlerVars, Inv, HeldInv, TypeInv
<1> QED BY <1>4, <1>8 DEF HeldInv

\* The finally block closes both ends of the pair, its own among them.
LEMMA RelayEndsHeldInv ==
  ASSUME Inv, NEW h \in Conns, RelayEnds(h)
  PROVE  HeldInv'
<1>1. PICK r \in Roles : pairOf[h][r] = h
  BY DEF RelayEnds, Inv, HeldInv, HandlerInv
<1>2. h \in BothEnds(h)
  BY <1>1 DEF BothEnds
<1>3. /\ \A c \in Conns : phase'[c] = IF c = h THEN "done" ELSE phase[c]
      /\ \A c \in Conns : closed'[c] = (closed[c] \/ c \in BothEnds(h))
      /\ UNCHANGED <<pairOf, mtpPairs, first, inbuf, sent>>
  BY DEF RelayEnds, pairingVars, Inv, TypeInv, TypeOK
<1>4. HandlerInv'
  BY <1>2, <1>3 DEF Inv, HeldInv, HandlerInv, ReturnedIsClosed, Unpaired
<1>5. StoredHeld' /\ Authentic'
  BY <1>3 DEF Inv, HeldInv, StoredHeld, HeldPairs, Authentic, Words
<1> QED BY <1>4, <1>5 DEF HeldInv

\* A peer only adds to its own buffer, under its own name.
LEMMA PeerHeldInv ==
  ASSUME Inv, TypeInv', NEW c \in Conns, PeerSends(c) \/ PeerLeaves(c) \/ PeerResets(c)
  PROVE  HeldInv'
<1>1. UNCHANGED <<handlerVars, pairingVars>> /\ \A d \in Conns : closed[d] => closed'[d]
  BY DEF PeerSends, PeerLeaves, PeerResets, Inv, TypeInv, TypeOK
<1>2. HandlerInv' /\ StoredHeld'
  BY <1>1, HandlersQuiet DEF handlerVars, pairingVars, Inv, HeldInv
<1>3. \A d \in Conns : sent[d] <= sent'[d]
  <2>1. \A d \in Conns : sent[d] \in Nat
    BY DEF Inv, TypeInv, TypeOK
  <2>2. \A d \in Conns : sent'[d] = sent[d] \/ sent'[d] = sent[d] + 1
    <3>1. sent' = sent \/ sent' = [sent EXCEPT ![c] = @ + 1]
      BY DEF PeerSends, PeerLeaves, PeerResets
    <3>2. sent \in [Conns -> 0 .. MaxChunks]
      BY DEF Inv, TypeInv, TypeOK
    <3> QED BY <3>1, <3>2
  <2> QED BY <2>1, <2>2
<1>4. \A d \in Conns : ToSet(inbuf'[d]) \subseteq ToSet(inbuf[d]) \cup Words(d)'
  <2>1. CASE PeerSends(c)
    <3> DEFINE w == <<c, sent[c] + 1>>
    <3>1. sent[c] \in Nat /\ sent'[c] = sent[c] + 1
      BY <2>1 DEF PeerSends, Inv, TypeInv, TypeOK
    <3>2. w \in Words(c)' /\ w \in Chunks
      BY <2>1, <3>1 DEF PeerSends, Words, Chunks, Inv, TypeInv, TypeOK
    <3>3. inbuf[c] \in Seq(Chunks)
      BY DEF Inv, TypeInv, TypeOK
    <3>4. \A d \in Conns : inbuf'[d] = IF d = c THEN Append(inbuf[c], w) ELSE inbuf[d]
      BY <2>1 DEF PeerSends, Inv, TypeInv, TypeOK
    <3> HIDE DEF w
    <3>5. ToSet(Append(inbuf[c], w)) = ToSet(inbuf[c]) \cup {w}
      BY <3>2, <3>3, AppendMembers
    <3> QED BY <3>2, <3>4, <3>5
  <2>2. CASE PeerLeaves(c) \/ PeerResets(c)
    <3>1. \A d \in Conns : inbuf'[d] = inbuf[d] \/ inbuf'[d] = <<>>
      BY <2>2 DEF PeerLeaves, PeerResets, Inv, TypeInv, TypeOK
    <3> QED BY <3>1, EmptyToSet
  <2> QED BY <2>1, <2>2
<1>5. Authentic'
  BY <1>1, <1>3, <1>4, AuthenticKept DEF handlerVars, Inv, HeldInv, TypeInv
<1> QED BY <1>2, <1>5 DEF HeldInv

\* HeldInv is inductive relative to TypeInv and PairInv.
LEMMA NextHeldInv == Inv /\ TypeInv' /\ [Next]_vars => HeldInv'
<1> SUFFICES ASSUME Inv, TypeInv', [Next]_vars PROVE HeldInv'
  OBVIOUS
<1>1. CASE UNCHANGED vars \/ TakeLinkId
  <2>1. UNCHANGED <<handlerVars, mtpPairs, streamVars>>
    BY <1>1 DEF vars, TakeLinkId, pairingVars
  <2>2. HandlerInv' /\ StoredHeld'
    BY <2>1, HandlersQuiet DEF handlerVars, streamVars, Inv, HeldInv
  <2>3. Authentic'
    BY <2>1 DEF handlerVars, streamVars, Inv, HeldInv, Authentic, Words
  <2> QED BY <2>2, <2>3 DEF HeldInv
<1>2. ASSUME NEW c \in Conns, IdentifyFails(c) PROVE HeldInv'
  BY <1>2, ReturnHeldInv DEF IdentifyFails, pairingVars, Unpaired
<1> QED BY <1>1, <1>2, AcceptHeldInv, IdentifyHeldInv, PollHeldInv, CopyStepHeldInv,
           RelayEndsHeldInv, PeerHeldInv DEF Next

\* The whole inductive invariant of the media relay.
LEMMA InvHolds == Spec => []Inv
<1>1. Init => Inv
  BY InitTypeInv, InitPairInv, InitHeldInv DEF Inv
<1>2. Inv /\ [Next]_vars => Inv'
  BY NextTypeInv, NextPairInv, NextHeldInv DEF Inv
<1> QED BY <1>1, <1>2, PTL DEF Spec

\* For every set of connections: when a handler has returned, its connection
\* is closed, whichever of the two paired handlers closed it.
THEOREM ReturnedClosed == Spec => []ReturnedIsClosed
<1>1. Inv => ReturnedIsClosed
  BY DEF Inv, HeldInv, HandlerInv
<1> QED BY <1>1, InvHolds, PTL

-----------------------------------------------------------------------------
(* The steps of the relay, seen by its peers                               *)

\* The one pair of c gives it its partner.
LEMMA PartnerIn ==
  ASSUME TypeOK, PairedOnce, NEW p \in HeldPairs, NEW r \in Roles
  PROVE  p[r] \in Conns /\ PartnerOf(p[r]) = p[Other(r)]
<1> DEFINE c == p[r]
<1>1. p \in Pairs /\ p \in MadePairs
  BY MadePairsType DEF HeldPairs, MadePairs
<1>2. c \in Conns
  BY <1>1 DEF Pairs
<1>3. \A q \in PairsOf(c) : q = p
  BY <1>1 DEF PairsOf, HeldPairs, MadePairs, PairedOnce
<1>4. p \in PairsOf(c)
  BY DEF PairsOf
<1>5. PairsOf(c) = {p}
  BY <1>3, <1>4
<1>6. PartnerOf(c) = IF p["bridge"] = c THEN p["doorbell"] ELSE p["bridge"]
  BY <1>5 DEF PartnerOf
<1>7. p["bridge"] # p["doorbell"]
  BY <1>1 DEF PairedOnce, Roles
<1> QED BY <1>2, <1>6, <1>7 DEF Roles, Other

\* Who is in no pair has no partner.
LEMMA NoPartner ==
  ASSUME NEW c, \A p \in HeldPairs : \A r \in Roles : p[r] # c
  PROVE  PartnerOf(c) = NoPair
  BY DEF PartnerOf, PairsOf

\* Steps that make no pair keep everybody's partner.
LEMMA PartnersKept ==
  ASSUME HeldPairs' = HeldPairs
  PROVE  Partners' = Partners
  BY DEF Partners, PartnerOf, PairsOf

\* Steps that make a pair of two connections which were in none.
LEMMA PartnersMade ==
  ASSUME TypeOK, NEW p \in Pairs, HeldPairs' = HeldPairs \cup {p},
         NEW r \in Roles, NEW c \in Conns, NEW o \in Conns, c # o,
         p[r] = c, p[Other(r)] = o,
         \A q \in HeldPairs : \A x \in Roles : q[x] # c /\ q[x] # o
  PROVE  /\ Partners[c] = NoPair /\ Partners[o] = NoPair
         /\ Partners' = [Partners EXCEPT ![c] = o, ![o] = c]
<1>1. PartnerOf(c) = NoPair /\ PartnerOf(o) = NoPair
  BY NoPartner
<1>2. \/ p["bridge"] = c /\ p["doorbell"] = o
      \/ p["bridge"] = o /\ p["doorbell"] = c
  BY DEF Roles, Other
<1>3. \A d \in Conns : PairsOf(d)' = {q \in HeldPairs \cup {p} : \E x \in Roles : q[x] = d}
  BY DEF PairsOf
<1>4. PairsOf(c)' = {p} /\ PairsOf(o)' = {p}
  BY <1>2, <1>3 DEF Roles
<1>5. \A d \in Conns : d # c /\ d # o => PairsOf(d)' = PairsOf(d)
  BY <1>2, <1>3 DEF PairsOf, Roles
<1>6. PartnerOf(c)' = o /\ PartnerOf(o)' = c
  BY <1>2, <1>4 DEF PartnerOf
<1>7. \A d \in Conns : d # c /\ d # o => PartnerOf(d)' = PartnerOf(d)
  <2> SUFFICES ASSUME NEW d \in Conns, PairsOf(d)' = PairsOf(d)
               PROVE  PartnerOf(d)' = PartnerOf(d)
    BY <1>5
  <2> QED BY DEF PartnerOf
<1> QED BY <1>1, <1>6, <1>7 DEF Partners

\* What a write to d puts into Heard: nothing, or what it was given, when the
\* peer is still there.
LEMMA WriteHeard ==
  ASSUME TypeOK, NEW d \in Conns, NEW data \in Seq(Chunks), Write(d, data)
  PROVE  \/ Heard' = Heard
         \/ /\ ~ left[d]
            /\ Heard' = [Heard EXCEPT ![d] = @ \cup ToSet(data)]
<1>1. CASE AtEof(d)
  BY <1>1 DEF Write, Heard
<1>2. CASE ~ AtEof(d)
  <2>1. got' = [got EXCEPT ![d] = @ \o data]
    BY <1>2 DEF Write
  <2>2. got[d] \in Seq(Chunks)
    BY DEF TypeOK
  <2>3. ToSet(got[d] \o data) = ToSet(got[d]) \cup ToSet(data)
    BY <2>2, ConcatToSet
  <2>4. \A e \in Conns : ToSet(got[e])' = IF e = d THEN ToSet(got[d]) \cup ToSet(data) ELSE ToSet(got[e])
    BY <2>1, <2>3 DEF TypeOK
  <2> QED BY <1>2, <2>4 DEF AtEof, Heard
<1> QED BY <1>1, <1>2

\* A write of what one side has said to its partner: nothing, or Listen.
LEMMA WriteListens ==
  ASSUME TypeOK, PairedOnce, NEW p \in HeldPairs, NEW r \in Roles,
         NEW data \in Seq(Chunks), ToSet(data) \subseteq Words(p[r]),
         Write(p[Other(r)], data),
         HeldPairs' = HeldPairs, UNCHANGED <<sent, left>>
  PROVE  [Promise!Next]_Promise!vars
<1> DEFINE c == p[r]
           d == p[Other(r)]
<1>1. Other(r) \in Roles /\ Other(Other(r)) = r
  BY DEF Roles, Other
<1>2. c \in Conns /\ d \in Conns /\ PartnerOf(d) = c
  BY <1>1, PartnerIn
<1>3. Partners[d] = c /\ Partners[d] # NoPair
  BY <1>2, NoPairIsNoConn DEF Partners
<1>4. Partners' = Partners
  BY PartnersKept
<1>5. \/ Heard' = Heard
      \/ ~ left[d] /\ Heard' = [Heard EXCEPT ![d] = @ \cup ToSet(data)]
  BY <1>2, WriteHeard
<1> HIDE DEF c, d
<1>6. CASE Heard' = Heard
  BY <1>4, <1>6 DEF Promise!vars
<1>7. CASE ~ left[d] /\ Heard' = [Heard EXCEPT ![d] = @ \cup ToSet(data)]
  <2>1. ToSet(data) \in SUBSET Promise!Words(Partners[d])
    BY <1>3 DEF Promise!Words, Words, c
  <2>2. Promise!Hear(d, ToSet(data))
    BY <1>4, <1>7, <2>1 DEF Promise!Hear
  <2>3. Promise!Listen(d)
    BY <1>3, <1>4, <2>1, <2>2 DEF Promise!Listen
  <2> QED BY <1>2, <2>3 DEF Promise!Next
<1> QED BY <1>5, <1>6, <1>7

\* Steps no peer notices.
LEMMA Unnoticed ==
  ASSUME HeldPairs' = HeldPairs, UNCHANGED <<sent, left, got>>
  PROVE  UNCHANGED Promise!vars
<1>1. Heard' = Heard
  BY DEF Heard
<1> QED BY <1>1, PartnersKept DEF Promise!vars

\* A new connection meets the head of the other queue, or nobody.
LEMMA AcceptPromised ==
  ASSUME Inv, NEW c \in Conns, Accept(c)
  PROVE  [Promise!Next]_Promise!vars
<1>1. UNCHANGED streamVars /\ phase[c] = "new"
  BY DEF Accept, AcceptAndPair, AcceptAndQueue, AcceptUnknown
<1>2. ASSUME NEW r \in IpRoles \cap Roles, AcceptAndPair(c, r)
      PROVE  [Promise!Next]_Promise!vars
  <2> DEFINE o == Head(pending[Other(r)])
             p == MakePair(c, r, o)
  <2>1. Other(r) \in Roles /\ pending[Other(r)] \in Seq(Conns) /\ pending[Other(r)] # <<>>
    BY <1>2, OtherRole, QueueType DEF AcceptAndPair, Inv, TypeInv
  <2>2. o \in Conns /\ o \in ToSet(pending[Other(r)])
    BY <2>1, TailMembers
  <2>3. p \in Pairs /\ p[r] = c /\ p[Other(r)] = o
    BY <2>2, MakePairType
  <2>4. EnterRelayLoop(c, p) /\ mtpPairs' = mtpPairs
    BY <1>2 DEF AcceptAndPair
  <2> HIDE DEF o, p
  <2>5. HeldPairs' = HeldPairs \cup {p}
    BY <1>1, <2>3, <2>4, HandlerRelays
       DEF Inv, HeldInv, TypeInv, Unpaired, streamVars
  <2>6. c # o
    BY <1>1, <2>1, <2>2 DEF Inv, PairInv, QueueInv
  <2>7. \A q \in HeldPairs : \A x \in Roles : q[x] # c /\ q[x] # o
    <3>1. HeldPairs \subseteq MadePairs
      BY DEF HeldPairs, MadePairs
    <3> QED BY <1>1, <2>1, <2>2, <3>1 DEF Inv, PairInv, PairRoles, PairedOnce, Early
  <2>8. /\ Partners[c] = NoPair /\ Partners[o] = NoPair
        /\ Partners' = [Partners EXCEPT ![c] = o, ![o] = c]
    BY <2>2, <2>3, <2>5, <2>6, <2>7, PartnersMade DEF Inv, TypeInv
  <2>9. Heard' = Heard
    BY <1>1 DEF streamVars, Heard
  <2>10. Promise!Meet(c, o)
    BY <1>1, <2>6, <2>8, <2>9 DEF Promise!Meet, streamVars
  <2> QED BY <2>2, <2>10 DEF Promise!Next
<1>3. ASSUME \/ AcceptUnknown(c)
             \/ \E r \in IpRoles \cap Roles : AcceptAndQueue(c, r)
      PROVE  [Promise!Next]_Promise!vars
  <2>1. HeldPairs' = HeldPairs
    BY <1>3 DEF AcceptUnknown, AcceptAndQueue, HeldPairs
  <2> QED BY <1>1, <2>1, Unnoticed DEF streamVars
<1> QED BY <1>2, <1>3 DEF Accept

\* A waiting handler hands over first_data, or meets the head of the other
\* queue, which may hear first_data at once.
LEMMA PollPromised ==
  ASSUME Inv, NEW c \in Conns, Poll(c)
  PROVE  [Promise!Next]_Promise!vars
<1>1. CASE PollFindsPair(c)
  <2>1. PICK p \in StoredPairs(c) : EnterRelayLoop(c, p) /\ Write(p[Other(role[c])], first[c])
    BY <1>1 DEF PollFindsPair
  <2>2. p \in HeldPairs /\ role[c] \in Roles /\ p[role[c]] = c /\ HeldPairs' = HeldPairs
    BY <1>1, <2>1, FindsPairHeld
  <2>3. first[c] \in Seq(Chunks) /\ ToSet(first[c]) \subseteq Words(c)
    BY DEF Inv, TypeInv, TypeOK, HeldInv, Authentic
  <2>4. UNCHANGED <<sent, left>>
    BY <1>1 DEF PollFindsPair
  <2> QED BY <2>1, <2>2, <2>3, <2>4, WriteListens DEF Inv, TypeInv, PairInv
<1>2. CASE PollFindsNothing(c) \/ PollAgain(c) \/ PollTimesOut(c)
  <2>1. UNCHANGED <<pairOf, sent, left, got>>
    BY <1>2 DEF PollFindsNothing, PollAgain, PollTimesOut, streamVars
  <2> QED BY <2>1, Unnoticed DEF HeldPairs
<1>3. CASE PollPairs(c)
  <2> DEFINE r == role[c]
             o == Head(pending[Other(r)])
             p == MakePair(c, r, o)
  <2>1. /\ r \in Roles /\ o \in Conns /\ o # c
        /\ p \in Pairs /\ p[r] = c /\ p[Other(r)] = o
        /\ c \in ToSet(pending[r]) /\ o \in ToSet(pending[Other(r)])
        /\ HeldPairs' = HeldPairs \cup {p}
    BY <1>3, PollPairsHeld
  <2>2. Write(o, first[c]) /\ UNCHANGED <<sent, left>>
    BY <1>3 DEF PollPairs
  <2> HIDE DEF r, o, p
  <2>3. \A q \in HeldPairs : \A x \in Roles : q[x] # c /\ q[x] # o
    <3>1. HeldPairs \subseteq MadePairs /\ Other(r) \in Roles
      BY <2>1, OtherRole DEF HeldPairs, MadePairs
    <3> QED BY <2>1, <3>1 DEF Inv, PairInv, PairedOnce
  <2>4. /\ Partners[c] = NoPair /\ Partners[o] = NoPair
        /\ Partners' = [Partners EXCEPT ![c] = o, ![o] = c]
    BY <2>1, <2>3, PartnersMade DEF Inv, TypeInv
  <2>5. first[c] \in Seq(Chunks) /\ ToSet(first[c]) \subseteq Words(c)
    BY DEF Inv, TypeInv, TypeOK, HeldInv, Authentic
  <2>6. \/ Heard' = Heard
        \/ ~ left[o] /\ Heard' = [Heard EXCEPT ![o] = @ \cup ToSet(first[c])]
    BY <2>1, <2>2, <2>5, WriteHeard DEF Inv, TypeInv
  <2>7. ToSet(first[c]) \in SUBSET Promise!Words(c)
    BY <2>5 DEF Promise!Words, Words
  <2>8. Partners'[o] = c
    BY <2>1, <2>4 DEF Partners
  <2>9. Heard' = Heard \/ Promise!Hear(o, ToSet(first[c]))
    BY <2>6, <2>7, <2>8 DEF Promise!Hear
  <2>10. Promise!Meet(c, o)
    BY <2>1, <2>2, <2>4, <2>7, <2>9 DEF Promise!Meet
  <2> QED BY <2>1, <2>10 DEF Promise!Next
<1> QED BY <1>1, <1>2, <1>3 DEF Poll

\* A copy task lets one side hear what the other has said.
LEMMA CopyStepPromised ==
  ASSUME Inv, NEW h \in Conns, NEW r \in Roles, CopyStep(h, r)
  PROVE  [Promise!Next]_Promise!vars
<1>1. /\ UNCHANGED <<handlerVars, pairingVars, sent, left>>
      /\ pairOf[h] \in HeldPairs /\ pairOf[h] \in Pairs
      /\ UNCHANGED <<inbuf, got, closed>> \/ Forward(h, r)
  BY CopyStepEffect
<1>2. HeldPairs' = HeldPairs
  BY <1>1 DEF handlerVars, HeldPairs
<1>3. CASE UNCHANGED <<inbuf, got, closed>>
  BY <1>1, <1>2, <1>3, Unnoticed
<1>4. CASE Forward(h, r)
  <2> DEFINE s == pairOf[h][r]
  <2>1. s \in Conns
    BY <1>1 DEF Pairs
  <2>2. inbuf[s] \in Seq(Chunks) /\ ToSet(inbuf[s]) \subseteq Words(s)
    BY <2>1 DEF Inv, TypeInv, TypeOK, HeldInv, Authentic
  <2>3. Write(pairOf[h][Other(r)], inbuf[s])
    BY <1>4 DEF Forward
  <2> QED BY <1>1, <1>2, <2>2, <2>3, WriteListens DEF Inv, TypeInv, PairInv
<1> QED BY <1>1, <1>3, <1>4

\* Peers speak and hang up.
LEMMA PeerPromised ==
  ASSUME Inv, NEW c \in Conns, PeerSends(c) \/ PeerLeaves(c) \/ PeerResets(c)
  PROVE  [Promise!Next]_Promise!vars
<1>1. UNCHANGED <<pairOf, got>> /\ ~ left[c]
  BY DEF PeerSends, PeerLeaves, PeerResets, handlerVars, Connected, AtEof
<1>2. Heard' = Heard /\ Partners' = Partners
  BY <1>1, PartnersKept DEF Heard, HeldPairs
<1>3. CASE PeerSends(c)
  <2>1. Promise!Say(c)
    BY <1>1, <1>2, <1>3 DEF PeerSends, Promise!Say
  <2> QED BY <2>1 DEF Promise!Next
<1>4. CASE PeerLeaves(c) \/ PeerResets(c)
  <2>1. Promise!HangUp(c)
    BY <1>2, <1>4 DEF PeerLeaves, PeerResets, Promise!HangUp
  <2> QED BY <2>1 DEF Promise!Next
<1> QED BY <1>3, <1>4

\* Every step of the relay is a step of the promise, or unnoticed.
LEMMA NextPromised == Inv /\ [Next]_vars => [Promise!Next]_Promise!vars
<1> SUFFICES ASSUME Inv, [Next]_vars PROVE [Promise!Next]_Promise!vars
  OBVIOUS
<1>1. ASSUME UNCHANGED <<pairOf, sent, left, got>> PROVE [Promise!Next]_Promise!vars
  BY <1>1, Unnoticed DEF HeldPairs
<1>2. CASE \/ UNCHANGED vars \/ TakeLinkId
           \/ \E c \in Conns : \/ IdentifyFails(c) \/ RelayEnds(c)
                               \/ \E r \in Roles : Identify(c, r)
  <2>1. UNCHANGED <<pairOf, sent, left, got>>
    BY <1>2 DEF vars, handlerVars, streamVars, TakeLinkId, IdentifyFails, RelayEnds, Identify
  <2> QED BY <1>1, <2>1
<1> QED BY <1>2, AcceptPromised, PollPromised, CopyStepPromised, PeerPromised DEF Next

\* For every set of connections and every bound the relay implements what it
\* promises its peers: pairs for good, and words of one's one partner only.
THEOREM RelayKeepsPromise == Spec => Implements
<1>1. Init => Promise!Init
  <2> SUFFICES ASSUME Init PROVE Promise!Init
    OBVIOUS
  <2>1. HeldPairs = {}
    BY DEF Init, HeldPairs
  <2>2. \A c \in Conns : PartnerOf(c) = NoPair
    BY <2>1, NoPartner
  <2>3. \A c \in Conns : ToSet(got[c]) = {}
    BY EmptyToSet DEF Init
  <2> QED BY <2>2, <2>3 DEF Init, Promise!Init, Partners, Heard
<1>2. Inv /\ [Next]_vars => [Promise!Next]_Promise!vars
  BY NextPromised
<1> QED BY <1>1, <1>2, InvHolds, PTL DEF Spec, Implements, Promise!Spec

-----------------------------------------------------------------------------
(* What the promise is good for: media of two calls is never mixed         *)

\* Partners are each other's, and everything heard was said by the partner.
OneVoice ==
  /\ \A c, d \in Conns : Partners[c] = d => Partners[d] = c
  /\ \A c \in Conns : \A w \in Heard[c] : w[1] = Partners[c]

\* A step that keeps the promise keeps OneVoice: who has heard something has a
\* partner already and meets nobody else.
LEMMA NextOneVoice ==
  ASSUME Inv, Inv', OneVoice, [Promise!Next]_Promise!vars
  PROVE  OneVoice'
<1>0. /\ DOMAIN Partners = Conns /\ DOMAIN Heard = Conns
      /\ Partners = [c \in Conns |-> Partners[c]]
      /\ Heard = [c \in Conns |-> Heard[c]]
  BY DEF Partners, Heard
<1>1. \A c \in Conns : \A w \in Heard[c] : w[1] \in Conns
  BY ToSetMembers DEF Inv, TypeInv, TypeOK, Heard, Chunks
<1>2. CASE UNCHANGED Promise!vars
  BY <1>2 DEF Promise!vars, OneVoice
<1>3. ASSUME NEW p \in Conns, Promise!Say(p) \/ Promise!HangUp(p) PROVE OneVoice'
  BY <1>3 DEF Promise!Say, Promise!HangUp, OneVoice
<1>4. ASSUME NEW p \in Conns, NEW words \in SUBSET Promise!Words(Partners'[p]),
             Promise!Hear(p, words)
      PROVE  \A c \in Conns : \A w \in Heard'[c] :
               w \in Heard[c] \/ (c = p /\ w[1] = Partners'[p])
  <2>1. Heard' = [Heard EXCEPT ![p] = @ \cup words]
    BY <1>4 DEF Promise!Hear
  <2>2. \A c \in Conns : Heard'[c] = IF c = p THEN Heard[p] \cup words ELSE Heard[c]
    BY <1>0, <2>1
  <2>3. \A w \in words : w[1] = Partners'[p]
    BY <1>4 DEF Promise!Words
  <2> QED BY <2>2, <2>3
<1>5. ASSUME NEW p \in Conns, Promise!Listen(p) PROVE OneVoice'
  <2>1. Partners' = Partners
    BY <1>5 DEF Promise!Listen
  <2>2. PICK words \in SUBSET Promise!Words(Partners[p]) : Promise!Hear(p, words)
    BY <1>5 DEF Promise!Listen
  <2> QED BY <1>4, <2>1, <2>2 DEF OneVoice
<1>6. ASSUME NEW p \in Conns, NEW q \in Conns, Promise!Meet(p, q) PROVE OneVoice'
  <2>1. /\ p # q /\ Partners[p] = NoPair /\ Partners[q] = NoPair
        /\ \A c \in Conns :
             Partners'[c] = IF c = q THEN p ELSE IF c = p THEN q ELSE Partners[c]
    BY <1>0, <1>6 DEF Promise!Meet
  <2>2. \A c \in Conns : Partners[c] # p /\ Partners[c] # q
    BY <2>1, NoPairIsNoConn DEF OneVoice
  <2>3. \A c, d \in Conns : Partners'[c] = d => Partners'[d] = c
    BY <2>1, <2>2 DEF OneVoice
  <2>4. Heard[p] = {} /\ Heard[q] = {}
    BY <1>1, <2>1, NoPairIsNoConn DEF OneVoice
  <2>5. \A c \in Conns : \A w \in Heard'[c] : w \in Heard[c] \/ (c = q /\ w[1] = Partners'[q])
    <3>1. CASE Heard' = Heard
      BY <3>1
    <3>2. CASE \E words \in SUBSET Promise!Words(p) : Promise!Hear(q, words)
      <4>1. Partners'[q] = p
        BY <2>1
      <4>2. PICK words \in SUBSET Promise!Words(Partners'[q]) : Promise!Hear(q, words)
        BY <3>2, <4>1
      <4> QED BY <1>4, <4>2
    <3> QED BY <1>6, <3>1, <3>2 DEF Promise!Meet
  <2> QED BY <2>1, <2>3, <2>4, <2>5 DEF OneVoice
<1> QED BY <1>2, <1>3, <1>5, <1>6 DEF Promise!Next

\* However many calls are relayed at once, what a peer receives comes from one
\* peer, and that peer receives from nobody else.
THEOREM CallsStayApart == Spec => []NoCrossTalk
<1>1. Init => OneVoice
  <2> SUFFICES ASSUME Init PROVE OneVoice
    OBVIOUS
  <2>1. \A c \in Conns : PartnerOf(c) = NoPair
    BY NoPartner DEF Init, HeldPairs
  <2>2. \A c \in Conns : ToSet(got[c]) = {}
    BY EmptyToSet DEF Init
  <2> QED BY <2>1, <2>2, NoPairIsNoConn DEF OneVoice, Partners, Heard
<1>2. Inv /\ Inv' /\ OneVoice /\ [Next]_vars => OneVoice'
  BY NextPromised, NextOneVoice
<1>3. Inv /\ OneVoice => NoCrossTalk
  <2> SUFFICES ASSUME Inv, OneVoice PROVE NoCrossTalk
    OBVIOUS
  <2>1. \A c \in Conns : got[c] \in Seq(Chunks) /\ DOMAIN got[c] = 1 .. Len(got[c])
    BY LenProperties DEF Inv, TypeInv, TypeOK
  <2>2. \A c \in Conns : \A i \in DOMAIN got[c] :
          got[c][i] \in Heard[c] /\ got[c][i] \in Chunks
    BY <2>1, ToSetMembers DEF Heard
  <2>3. \A c \in Conns : \A i \in DOMAIN got[c] :
          got[c][i][1] = Partners[c] /\ got[c][i][1] \in Conns
    BY <2>2 DEF OneVoice, Chunks
  <2> QED BY <2>3 DEF NoCrossTalk, OneVoice
<1> QED BY <1>1, <1>2, <1>3, InvHolds, PTL DEF Spec
-----------------------------------------------------------------------------
(* The order of a stream, read by one relay loop or by two                 *)

\* Numbers rise along a list.
Rising(s) == \A i, j \in DOMAIN s : i < j => s[i][2] < s[j][2]

\* Every word of one list is before every word of another.
Before(s, t) == \A v \in ToSet(s), w \in ToSet(t) : v[2] < w[2]

\* What is buffered comes after what was read to identify the connection.
BufferInv ==
  \A c \in Conns :
    /\ Rising(inbuf[c]) /\ Rising(first[c]) /\ Before(first[c], inbuf[c])
    /\ phase[c] \in {"new", "identifying"} => first[c] = <<>>

\* It also comes after everything of the same peer that has been written.
WrittenInv ==
  \A d \in Conns : \A w \in ToSet(got[d]) :
    /\ w[2] \in 1 .. sent[w[1]]
    /\ \A v \in ToSet(inbuf[w[1]]) : w[2] < v[2]

\* first_data is written by its own handler, when that starts to relay.
FirstInv ==
  \A c, d \in Conns :
    phase[c] \in Unpaired => ToSet(first[c]) \cap ToSet(got[d]) = {}

OrderInv == BufferInv /\ WrittenInv /\ FirstInv /\ NoDuplicates /\ LoopKeepsOrder

\* The numbers of chunks can be compared.
LEMMA Numbers ==
  ASSUME NEW s \in Seq(Chunks)
  PROVE  /\ \A w \in ToSet(s) : w \in Chunks /\ w[1] \in Conns /\ w[2] \in Nat
         /\ \A i \in DOMAIN s : s[i] \in ToSet(s)
<1>1. ToSet(s) \subseteq Chunks
  BY ToSetMembers
<1>2. DOMAIN s = 1 .. Len(s)
  BY LenProperties
<1> QED BY <1>1, <1>2, ToSetMembers, MaxChunksAssumption DEF Chunks

\* What a peer c says is written to d behind what d has got: all of it new, and
\* in order unless it is first_data.
LEMMA WriteInOrder ==
  ASSUME TypeOK, TypeOK', NoDuplicates, LoopKeepsOrder, NoCrossTalk', UNCHANGED first,
         NEW c \in Conns, NEW d \in Conns, NEW data \in Seq(Chunks), Write(d, data),
         ToSet(data) \subseteq Words(c), Rising(data),
         ToSet(data) \cap ToSet(got[d]) = {},
         \/ ToSet(data) \subseteq ToSet(first[c])
         \/ \A w \in ToSet(got[d]) : w[1] = c => \A v \in ToSet(data) : w[2] < v[2]
  PROVE  /\ NoDuplicates' /\ LoopKeepsOrder'
         /\ \A e \in Conns : \A w \in ToSet(got'[e]) : w \in ToSet(got[e]) \/ w \in ToSet(data)
<1>1. CASE got' = got
  BY <1>1 DEF NoDuplicates, LoopKeepsOrder
<1>2. ASSUME got' = [got EXCEPT ![d] = @ \o data]
      PROVE  /\ NoDuplicates' /\ LoopKeepsOrder'
             /\ \A e \in Conns : \A w \in ToSet(got'[e]) : w \in ToSet(got[e]) \/ w \in ToSet(data)
  <2>1. got[d] \in Seq(Chunks) /\ got'[d] = got[d] \o data
    BY <1>2 DEF TypeOK
  <2>2. \A e \in Conns : e # d => got'[e] = got[e]
    BY <1>2 DEF TypeOK
  <2>3. PICK n \in Nat : n = Len(got[d])
    BY <2>1, LenProperties
  <2>4. /\ DOMAIN data \subseteq Nat \ {0} /\ DOMAIN got[d] = 1 .. n
    BY <2>1, <2>3, LenProperties
  <2>5. \A i \in DOMAIN got'[d] :
          \/ i \in 1 .. n /\ got'[d][i] = got[d][i] /\ got[d][i] \in ToSet(got[d])
          \/ \E k \in DOMAIN data : i = n + k /\ got'[d][i] = data[k] /\ data[k] \in ToSet(data)
    <3> DEFINE s == got[d]
               u == s \o data
    <3>1. \A i \in DOMAIN u : \/ i \in DOMAIN s /\ u[i] = s[i] /\ s[i] \in ToSet(s)
                            \/ \E k \in DOMAIN data : i = Len(s) + k /\ u[i] = data[k]
                                                     /\ data[k] \in ToSet(data)
      BY <2>1, ConcatPositions
    <3>2. got'[d] = u
      BY <2>1
    <3> HIDE DEF u
    <3> QED BY <2>3, <2>4, <3>1, <3>2
  <2>6. \A k, l \in DOMAIN data : data[k] = data[l] => k = l
    <3>1. \A k \in DOMAIN data : data[k][2] \in Nat
      BY Numbers
    <3> QED BY <2>4, <3>1 DEF Rising
  <2>7. ASSUME NEW i \in DOMAIN got'[d], NEW j \in DOMAIN got'[d], got'[d][i] = got'[d][j]
        PROVE  i = j
    <3>1. CASE i \in 1 .. n /\ got'[d][i] = got[d][i] /\ got[d][i] \in ToSet(got[d])
      BY <2>4, <2>5, <2>7, <3>1 DEF NoDuplicates
    <3>2. CASE \E k \in DOMAIN data : i = n + k /\ got'[d][i] = data[k] /\ data[k] \in ToSet(data)
      BY <2>5, <2>6, <2>7, <3>2
    <3> QED BY <2>5, <3>1, <3>2
  <2>8. ASSUME NEW i \in DOMAIN got'[d], NEW j \in DOMAIN got'[d],
               i < j, got'[d][i][2] > got'[d][j][2]
        PROVE  got'[d][j] \in ToSet(first[got'[d][j][1]])
    <3>1. CASE j \in 1 .. n /\ got'[d][j] = got[d][j]
      <4>1. i \in 1 .. n /\ got'[d][i] = got[d][i]
        BY <2>3, <2>4, <2>5, <2>8, <3>1
      <4> QED BY <2>4, <2>8, <3>1, <4>1 DEF LoopKeepsOrder
    <3>2. ASSUME NEW l \in DOMAIN data, j = n + l, got'[d][j] = data[l], data[l] \in ToSet(data)
          PROVE  got'[d][j] \in ToSet(first[got'[d][j][1]])
      <4>1. data[l][1] = c
        BY <3>2 DEF Words
      <4>2. CASE ToSet(data) \subseteq ToSet(first[c])
        BY <3>2, <4>1, <4>2
      <4>3. CASE \A w \in ToSet(got[d]) : w[1] = c => \A v \in ToSet(data) : w[2] < v[2]
        <5>1. CASE i \in 1 .. n /\ got'[d][i] = got[d][i] /\ got[d][i] \in ToSet(got[d])
          <6>1. got'[d][i][1] = c
            BY <3>2, <4>1 DEF NoCrossTalk
          <6>2. got[d][i][2] < data[l][2] /\ got[d][i][2] \in Nat /\ data[l][2] \in Nat
            BY <2>1, <3>2, <4>3, <5>1, <6>1, Numbers
          <6> QED BY <2>8, <3>2, <5>1, <6>2
        <5>2. ASSUME NEW k \in DOMAIN data, i = n + k, got'[d][i] = data[k]
              PROVE  FALSE
          <6>1. k < l /\ data[k][2] \in Nat /\ data[l][2] \in Nat
            BY <2>3, <2>4, <2>8, <3>2, <5>2, Numbers
          <6> QED BY <2>8, <3>2, <5>2, <6>1 DEF Rising
        <5> QED BY <2>5, <5>1, <5>2
      <4> QED BY <4>2, <4>3
    <3> QED BY <2>5, <3>1, <3>2
  <2>9. NoDuplicates'
    BY <2>2, <2>7 DEF NoDuplicates
  <2>10. LoopKeepsOrder'
    BY <2>2, <2>8 DEF LoopKeepsOrder
  <2>11. ToSet(got'[d]) = ToSet(got[d]) \cup ToSet(data)
    BY <2>1, ConcatToSet
  <2> QED BY <2>2, <2>9, <2>10, <2>11
<1> QED BY <1>1, <1>2 DEF Write

\* Steps that only take what is buffered, and write what comes before all that
\* is still buffered, but no first_data unless its handler starts to relay.
LEMMA TakingOrder ==
  ASSUME TypeOK, Authentic, OrderInv, UNCHANGED <<sent, first>>,
         \A c \in Conns : inbuf'[c] = inbuf[c] \/ inbuf'[c] = <<>>,
         \A c \in Conns : /\ phase'[c] \in Unpaired => phase[c] \in Unpaired
                          /\ phase'[c] \in {"new", "identifying"} => phase[c] \in {"new", "identifying"},
         \A d \in Conns : \A w \in ToSet(got'[d]) :
           \/ w \in ToSet(got[d])
           \/ \E c \in Conns : /\ w \in Words(c)
                               /\ \A v \in ToSet(inbuf'[c]) : w[2] < v[2]
                               /\ phase'[c] \in Unpaired => w \notin ToSet(first[c])
  PROVE  BufferInv' /\ WrittenInv' /\ FirstInv'
<1>1. Rising(<<>>) /\ \A s : Before(s, <<>>)
  BY EmptySeq, EmptyToSet DEF Rising, Before
<1>2. BufferInv'
  BY <1>1 DEF OrderInv, BufferInv
<1>3. \A c \in Conns : ToSet(inbuf'[c]) \subseteq ToSet(inbuf[c])
  BY EmptyToSet
<1>4. \A d \in Conns : \A w \in ToSet(got[d]) : w[1] \in Conns
  BY Numbers DEF TypeOK
<1>5. WrittenInv'
  <2> SUFFICES ASSUME NEW d \in Conns, NEW w \in ToSet(got'[d])
               PROVE  /\ w[2] \in 1 .. sent[w[1]]
                      /\ \A v \in ToSet(inbuf'[w[1]]) : w[2] < v[2]
    BY DEF WrittenInv
  <2>1. CASE w \in ToSet(got[d])
    BY <1>3, <1>4, <2>1 DEF OrderInv, WrittenInv
  <2>2. CASE w \notin ToSet(got[d])
    BY <2>2 DEF Words
  <2> QED BY <2>1, <2>2
<1>6. FirstInv'
  <2> SUFFICES ASSUME NEW c \in Conns, NEW d \in Conns, phase'[c] \in Unpaired,
                      NEW w \in ToSet(first[c]), w \in ToSet(got'[d])
               PROVE  FALSE
    BY DEF FirstInv
  <2>1. w \notin ToSet(got[d])
    BY DEF OrderInv, FirstInv
  <2>2. PICK e \in Conns : w \in Words(e) /\ (phase'[e] \in Unpaired => w \notin ToSet(first[e]))
    BY <2>1
  <2>3. w \in Words(c)
    BY DEF Authentic
  <2>4. c = e
    BY <2>2, <2>3 DEF Words
  <2> QED BY <2>2, <2>4
<1> QED BY <1>2, <1>5, <1>6

\* Steps that write nothing.
LEMMA QuietOrder ==
  ASSUME TypeOK, Authentic, OrderInv, UNCHANGED <<sent, first, got>>,
         \A c \in Conns : inbuf'[c] = inbuf[c] \/ inbuf'[c] = <<>>,
         \A c \in Conns : /\ phase'[c] \in Unpaired => phase[c] \in Unpaired
                          /\ phase'[c] \in {"new", "identifying"} => phase[c] \in {"new", "identifying"}
  PROVE  OrderInv'
<1>1. BufferInv' /\ WrittenInv' /\ FirstInv'
  BY TakingOrder
<1> QED BY <1>1 DEF OrderInv, NoDuplicates, LoopKeepsOrder

\* A handler that held no pair starts to relay and writes its first_data.
LEMMA FirstOrder ==
  ASSUME TypeOK, TypeOK', Authentic, OrderInv, NoCrossTalk',
         NEW c \in Conns, NEW d \in Conns, phase[c] \in Unpaired,
         phase' = [phase EXCEPT ![c] = "relaying"],
         Write(d, first[c]), UNCHANGED <<first, inbuf, sent>>
  PROVE  OrderInv'
<1>1. \A e \in Conns : phase'[e] = IF e = c THEN "relaying" ELSE phase[e]
  BY DEF TypeOK
<1>2. /\ first[c] \in Seq(Chunks) /\ ToSet(first[c]) \subseteq Words(c)
      /\ Rising(first[c]) /\ ToSet(first[c]) \cap ToSet(got[d]) = {}
      /\ Before(first[c], inbuf[c])
  BY DEF TypeOK, Authentic, OrderInv, BufferInv, FirstInv
<1>3. /\ NoDuplicates' /\ LoopKeepsOrder'
      /\ \A e \in Conns : \A w \in ToSet(got'[e]) : w \in ToSet(got[e]) \/ w \in ToSet(first[c])
  BY <1>2, WriteInOrder DEF OrderInv
<1>4. \A w \in ToSet(first[c]) : /\ w \in Words(c)
                                 /\ \A v \in ToSet(inbuf'[c]) : w[2] < v[2]
                                 /\ phase'[c] \notin Unpaired
  BY <1>1, <1>2 DEF Before, Unpaired
<1>5. BufferInv' /\ WrittenInv' /\ FirstInv'
  BY <1>1, <1>3, <1>4, TakingOrder DEF Unpaired
<1> QED BY <1>3, <1>5 DEF OrderInv

\* A relay loop writes all that is buffered.
LEMMA ForwardOrder ==
  ASSUME TypeOK, TypeOK', Authentic, OrderInv, NoCrossTalk',
         NEW h \in Conns, NEW r \in Roles, Forward(h, r), UNCHANGED handlerVars,
         pairOf[h] \in Pairs, Other(r) \in Roles
  PROVE  OrderInv'
<1>1. PICK c \in Conns, d \in Conns : c = pairOf[h][r] /\ d = pairOf[h][Other(r)]
  BY DEF Pairs
<1>2. Write(d, inbuf[c]) /\ inbuf' = [inbuf EXCEPT ![c] = <<>>] /\ UNCHANGED <<sent, first, phase>>
  BY <1>1 DEF Forward, Taken, handlerVars
<1>3. /\ inbuf[c] \in Seq(Chunks) /\ ToSet(inbuf[c]) \subseteq Words(c) /\ Rising(inbuf[c])
      /\ Before(first[c], inbuf[c])
      /\ \A e \in Conns : \A w \in ToSet(got[e]) : w[1] = c => \A v \in ToSet(inbuf[c]) : w[2] < v[2]
  BY DEF TypeOK, Authentic, OrderInv, BufferInv, WrittenInv
<1>4. \A w \in ToSet(inbuf[c]) : w[1] = c /\ w[2] \in Nat
  BY <1>3, Numbers DEF Words
<1>5. ToSet(inbuf[c]) \cap ToSet(got[d]) = {}
  <2> SUFFICES ASSUME NEW w \in ToSet(inbuf[c]), w \in ToSet(got[d]) PROVE FALSE
    OBVIOUS
  <2>1. w[2] \in Nat /\ w[2] < w[2]
    BY <1>3, <1>4
  <2> QED BY <2>1
<1>6. /\ NoDuplicates' /\ LoopKeepsOrder'
      /\ \A e \in Conns : \A w \in ToSet(got'[e]) : w \in ToSet(got[e]) \/ w \in ToSet(inbuf[c])
  BY <1>2, <1>3, <1>5, WriteInOrder DEF OrderInv
<1>7. \A e \in Conns : inbuf'[e] = IF e = c THEN <<>> ELSE inbuf[e]
  BY <1>2 DEF TypeOK
<1>8. \A w \in ToSet(inbuf[c]) : w \notin ToSet(first[c])
  <2> SUFFICES ASSUME NEW w \in ToSet(inbuf[c]), w \in ToSet(first[c]) PROVE FALSE
    OBVIOUS
  <2>1. w[2] < w[2] /\ w[2] \in Nat
    BY <1>3, <1>4 DEF Before
  <2> QED BY <2>1
<1>9. \A w \in ToSet(inbuf[c]) : /\ w \in Words(c)
                                 /\ \A v \in ToSet(inbuf'[c]) : w[2] < v[2]
                                 /\ w \notin ToSet(first[c])
  BY <1>3, <1>7, <1>8, EmptyToSet
<1>10. BufferInv' /\ WrittenInv' /\ FirstInv'
  BY <1>2, <1>6, <1>7, <1>9, TakingOrder
<1> QED BY <1>6, <1>10 DEF OrderInv

\* What was buffered becomes first_data: nothing of it has been written.
LEMMA IdentifyOrder ==
  ASSUME TypeOK, TypeOK', Authentic, OrderInv, NEW c \in Conns, NEW r \in Roles, Identify(c, r)
  PROVE  OrderInv'
<1>1. /\ \A d \in Conns : phase'[d] = IF d = c THEN "waiting" ELSE phase[d]
      /\ \A d \in Conns : first'[d] = IF d = c THEN inbuf[c] ELSE first[d]
      /\ \A d \in Conns : inbuf'[d] = IF d = c THEN <<>> ELSE inbuf[d]
      /\ UNCHANGED <<sent, got>> /\ phase[c] = "identifying"
  BY DEF Identify, Taken, TypeOK
<1>2. Rising(<<>>) /\ \A s : Before(s, <<>>)
  BY EmptySeq, EmptyToSet DEF Rising, Before
<1>3. first[c] = <<>>
  BY <1>1 DEF OrderInv, BufferInv
<1>4. BufferInv'
  BY <1>1, <1>2 DEF OrderInv, BufferInv
<1>5. WrittenInv'
  <2>1. \A e \in Conns : ToSet(inbuf'[e]) \subseteq ToSet(inbuf[e])
    BY <1>1, EmptyToSet
  <2>2. \A d \in Conns : \A w \in ToSet(got[d]) : w[1] \in Conns
    BY Numbers DEF TypeOK
  <2> QED BY <1>1, <2>1, <2>2 DEF OrderInv, WrittenInv
<1>6. \A d \in Conns : ToSet(inbuf[c]) \cap ToSet(got[d]) = {}
  <2> SUFFICES ASSUME NEW d \in Conns, NEW w \in ToSet(inbuf[c]), w \in ToSet(got[d])
               PROVE  FALSE
    OBVIOUS
  <2>1. w[1] = c
    BY DEF Authentic, Words
  <2>2. w[2] < w[2]
    BY <2>1 DEF OrderInv, WrittenInv
  <2>3. w[2] \in Nat
    BY Numbers DEF TypeOK
  <2> QED BY <2>2, <2>3
<1>7. FirstInv'
  BY <1>1, <1>6 DEF OrderInv, FirstInv, Unpaired
<1>8. LoopKeepsOrder'
  <2>1. \A d \in Conns : ToSet(first[d]) \subseteq ToSet(first'[d])
    BY <1>1, <1>3, EmptyToSet
  <2>2. \A d \in Conns : \A i \in DOMAIN got[d] : got[d][i][1] \in Conns
    BY Numbers DEF TypeOK
  <2> QED BY <1>1, <2>1, <2>2 DEF OrderInv, LoopKeepsOrder
<1>9. NoDuplicates'
  BY <1>1 DEF OrderInv, NoDuplicates
<1> QED BY <1>4, <1>5, <1>7, <1>8, <1>9 DEF OrderInv

\* The next chunk of a peer has the next number.
LEMMA SendsOrder ==
  ASSUME TypeOK, TypeOK', Authentic, OrderInv, NEW c \in Conns, PeerSends(c)
  PROVE  OrderInv'
<1> DEFINE k == sent[c] + 1
<1>1. /\ UNCHANGED <<phase, first, got>>
      /\ \A d \in Conns : sent'[d] = IF d = c THEN k ELSE sent[d]
      /\ \A d \in Conns : inbuf'[d] = IF d = c THEN Append(inbuf[c], <<c, k>>) ELSE inbuf[d]
  BY DEF PeerSends, handlerVars, TypeOK
<1>2. /\ k \in Nat /\ sent[c] \in Nat /\ \A d \in Conns : sent[d] \in Nat /\ sent[d] <= sent'[d]
      /\ <<c, k>> \in Chunks
  <2>1. \A d \in Conns : sent[d] \in 0 .. MaxChunks
    BY DEF TypeOK
  <2>2. sent[c] < MaxChunks /\ MaxChunks \in Nat
    BY MaxChunksAssumption DEF PeerSends
  <2>3. k \in 1 .. MaxChunks
    BY <2>1, <2>2
  <2>4. \A d \in Conns : sent[d] \in Nat /\ sent[d] <= sent'[d]
    BY <1>1, <2>1
  <2> QED BY <2>3, <2>4 DEF Chunks
<1>3. inbuf[c] \in Seq(Chunks) /\ first[c] \in Seq(Chunks)
  BY DEF TypeOK
<1>4. \A w \in ToSet(inbuf[c]) \cup ToSet(first[c]) : w[2] \in Nat /\ w[2] < k
  <2>1. \A w \in ToSet(inbuf[c]) \cup ToSet(first[c]) : w[2] \in 1 .. sent[c]
    BY DEF Authentic, Words
  <2> QED BY <1>2, <2>1
<1> HIDE DEF k
<1>5. PICK s \in Seq(Chunks) : s = Append(inbuf[c], <<c, k>>)
  BY <1>2, <1>3, AppendProperties
<1>6. ToSet(s) = ToSet(inbuf[c]) \cup {<<c, k>>}
  BY <1>2, <1>3, <1>5, AppendMembers
<1>7. Rising(s)
  <2>1. PICK n \in Nat : /\ DOMAIN inbuf[c] = 1 .. n /\ DOMAIN s = 1 .. n + 1
                         /\ \A i \in 1 .. n : s[i] = inbuf[c][i]
                         /\ s[n + 1] = <<c, k>>
    <3>1. PICK n \in Nat : n = Len(inbuf[c])
      BY <1>3, LenProperties
    <3>2. /\ Len(s) = n + 1 /\ s[n + 1] = <<c, k>>
          /\ \A i \in 1 .. n : s[i] = inbuf[c][i]
      BY <1>2, <1>3, <1>5, <3>1, AppendProperties
    <3>3. DOMAIN inbuf[c] = 1 .. n /\ DOMAIN s = 1 .. n + 1
      BY <1>3, <3>1, <3>2, LenProperties
    <3> QED BY <3>1, <3>2, <3>3
  <2>2. \A i \in 1 .. n : s[i][2] < k
    BY <1>3, <1>4, <2>1, Numbers
  <2>3. Rising(inbuf[c])
    BY DEF OrderInv, BufferInv
  <2> QED BY <2>1, <2>2, <2>3, SMTT(20) DEF Rising
<1>8. Before(first[c], s)
  BY <1>4, <1>6 DEF OrderInv, BufferInv, Before
<1>9. BufferInv'
  BY <1>1, <1>5, <1>7, <1>8 DEF OrderInv, BufferInv
<1>10. WrittenInv'
  <2> SUFFICES ASSUME NEW d \in Conns, NEW w \in ToSet(got'[d])
               PROVE  /\ w[2] \in 1 .. sent'[w[1]]
                      /\ \A v \in ToSet(inbuf'[w[1]]) : w[2] < v[2]
    BY DEF WrittenInv
  <2>1. PICK e \in Conns, m \in Nat : e = w[1] /\ m = w[2]
    BY <1>1, Numbers DEF TypeOK
  <2>2. m \in 1 .. sent[e] /\ \A v \in ToSet(inbuf[e]) : m < v[2]
    BY <1>1, <2>1 DEF OrderInv, WrittenInv
  <2>3. sent[e] \in Nat /\ sent'[e] \in Nat /\ sent[e] <= sent'[e]
    BY <1>2 DEF TypeOK
  <2>4. m \in 1 .. sent'[e]
    BY <2>2, <2>3
  <2>5. e = c => m < k
    BY <1>2, <2>2 DEF k
  <2>6. \A v \in ToSet(inbuf'[e]) : m < v[2]
    <3>1. CASE e = c
      <4>1. inbuf'[e] = s
        BY <1>1, <1>5, <3>1
      <4>2. \A v \in ToSet(s) : v \in ToSet(inbuf[c]) \/ v = <<c, k>>
        BY <1>6
      <4>3. \A v \in ToSet(s) : m < v[2]
        BY <2>2, <2>5, <3>1, <4>2
      <4> QED BY <4>1, <4>3
    <3>2. CASE e # c
      BY <1>1, <2>2, <3>2
    <3> QED BY <3>1, <3>2
  <2> QED BY <2>1, <2>4, <2>6
<1>11. FirstInv' /\ NoDuplicates' /\ LoopKeepsOrder'
  BY <1>1 DEF OrderInv, FirstInv, NoDuplicates, LoopKeepsOrder
<1> QED BY <1>9, <1>10, <1>11 DEF OrderInv

\* Nothing has been sent, read or written.
LEMMA InitOrder == Init => OrderInv
<1> SUFFICES ASSUME Init PROVE OrderInv
  OBVIOUS
<1>1. \A c \in Conns : inbuf[c] = <<>> /\ first[c] = <<>> /\ got[c] = <<>>
  BY DEF Init
<1>2. ToSet(<<>>) = {} /\ Rising(<<>>) /\ Before(<<>>, <<>>) /\ DOMAIN <<>> = {}
  BY EmptySeq, EmptyToSet DEF Rising, Before
<1> QED BY <1>1, <1>2
        DEF OrderInv, BufferInv, WrittenInv, FirstInv, NoDuplicates, LoopKeepsOrder

\* Every way an iteration of _wait_for_pair can go keeps OrderInv.
LEMMA PollOrder ==
  ASSUME Inv, TypeOK', OrderInv, NoCrossTalk', NEW c \in Conns, Poll(c)
  PROVE  OrderInv'
<1>0. phase[c] \in Unpaired /\ phase[c] \notin {"new", "identifying"} /\ TypeOK /\ Authentic
  BY DEF Poll, PollFindsPair, PollFindsNothing, PollPairs, PollAgain, PollTimesOut,
         Unpaired, Inv, TypeInv, HeldInv
<1>1. CASE PollFindsPair(c)
  <2>1. PICK p \in StoredPairs(c) : EnterRelayLoop(c, p) /\ Write(p[Other(role[c])], first[c])
    BY <1>1 DEF PollFindsPair
  <2>2. p[Other(role[c])] \in Conns
    <3>1. p \in HeldPairs /\ role[c] \in Roles
      BY <1>1, <2>1, FindsPairHeld
    <3>2. p \in Pairs
      BY <1>1, <2>1, NoPairAssumption DEF StoredPairs, TypeOK, Inv, TypeInv, Pairs
    <3> QED BY <3>1, <3>2, OtherRole DEF Pairs
  <2>3. phase' = [phase EXCEPT ![c] = "relaying"] /\ UNCHANGED <<first, inbuf, sent>>
    BY <1>1, <2>1 DEF PollFindsPair, EnterRelayLoop
  <2> QED BY <1>0, <2>1, <2>2, <2>3, FirstOrder
<1>2. CASE PollPairs(c)
  <2>1. Head(pending[Other(role[c])]) \in Conns
    BY <1>2, PollPairsHeld
  <2>2. /\ phase' = [phase EXCEPT ![c] = "relaying"] /\ UNCHANGED <<first, inbuf, sent>>
        /\ Write(Head(pending[Other(role[c])]), first[c])
    BY <1>2 DEF PollPairs, EnterRelayLoop
  <2> QED BY <1>0, <2>1, <2>2, FirstOrder
<1>3. CASE PollFindsNothing(c) \/ PollAgain(c) \/ PollTimesOut(c)
  <2>1. UNCHANGED <<sent, first, got, inbuf>>
    BY <1>3 DEF PollFindsNothing, PollAgain, PollTimesOut, streamVars
  <2>2. \A d \in Conns : phase'[d] = phase[d] \/ phase'[d] = "done"
    BY <1>0, <1>3 DEF PollFindsNothing, PollAgain, PollTimesOut, CloseAndReturn, TypeOK
  <2> QED BY <1>0, <2>1, <2>2, QuietOrder DEF Unpaired
<1> QED BY <1>1, <1>2, <1>3 DEF Poll

\* A new connection is queued, identified or relayed: nothing is written.
LEMMA AcceptOrder ==
  ASSUME TypeOK, Authentic, OrderInv, NEW c \in Conns, Accept(c)
  PROVE  OrderInv'
<1>1. phase[c] = "new" /\ UNCHANGED <<sent, first, got, inbuf>>
  BY DEF Accept, AcceptAndPair, AcceptAndQueue, AcceptUnknown, streamVars
<1>2. \A d \in Conns : d # c => phase'[d] = phase[d]
  BY DEF Accept, AcceptAndPair, AcceptAndQueue, AcceptUnknown, EnterRelayLoop, TypeOK
<1> QED BY <1>1, <1>2, QuietOrder DEF Unpaired

\* OrderInv is inductive, when media of two calls is never mixed.
LEMMA NextOrder ==
  Inv /\ Inv' /\ OrderInv /\ NoCrossTalk' /\ [Next]_vars => OrderInv'
<1> SUFFICES ASSUME Inv, Inv', OrderInv, NoCrossTalk', [Next]_vars PROVE OrderInv'
  OBVIOUS
<1>0. TypeOK /\ TypeOK' /\ Authentic
  BY DEF Inv, TypeInv, HeldInv
<1>1. CASE UNCHANGED vars \/ TakeLinkId
  <2>1. UNCHANGED <<sent, first, got, inbuf, phase>>
    BY <1>1 DEF vars, TakeLinkId, handlerVars, streamVars
  <2> QED BY <1>0, <2>1, QuietOrder
<1>2. ASSUME NEW c \in Conns, IdentifyFails(c) \/ RelayEnds(c) PROVE OrderInv'
  <2>1. UNCHANGED <<sent, first, got, inbuf>>
    BY <1>2 DEF IdentifyFails, RelayEnds
  <2>2. \A d \in Conns : phase'[d] = phase[d] \/ phase'[d] = "done"
    BY <1>0, <1>2 DEF IdentifyFails, RelayEnds, CloseAndReturn, TypeOK
  <2> QED BY <1>0, <2>1, <2>2, QuietOrder DEF Unpaired
<1>3. ASSUME NEW c \in Conns, PeerLeaves(c) \/ PeerResets(c) PROVE OrderInv'
  <2>1. UNCHANGED <<sent, first, got, phase>>
    BY <1>3 DEF PeerLeaves, PeerResets, handlerVars
  <2>2. \A d \in Conns : inbuf'[d] = inbuf[d] \/ inbuf'[d] = <<>>
    BY <1>0, <1>3 DEF PeerLeaves, PeerResets, Taken, TypeOK
  <2> QED BY <1>0, <2>1, <2>2, QuietOrder
<1>4. ASSUME NEW h \in Conns, NEW r \in Roles, CopyStep(h, r) PROVE OrderInv'
  <2>1. /\ UNCHANGED <<handlerVars, pairingVars, sent, left>>
        /\ pairOf[h] \in Pairs /\ Other(r) \in Roles
        /\ UNCHANGED <<inbuf, got, closed>> \/ Forward(h, r)
    BY <1>4, CopyStepEffect
  <2>2. CASE UNCHANGED <<inbuf, got, closed>>
    BY <1>0, <2>1, <2>2, QuietOrder DEF handlerVars
  <2>3. CASE Forward(h, r)
    BY <1>0, <2>1, <2>3, ForwardOrder
  <2> QED BY <2>1, <2>2, <2>3
<1> QED BY <1>0, <1>1, <1>2, <1>3, <1>4, AcceptOrder, PollOrder, IdentifyOrder, SendsOrder DEF Next

\* OrderInv holds in every state, for every set of connections and every bound.
LEMMA OrderHolds == Spec => []OrderInv
<1>1. Init => OrderInv
  BY InitOrder
<1>2. Inv /\ Inv' /\ OrderInv /\ NoCrossTalk' /\ [Next]_vars => OrderInv'
  BY NextOrder
<1> QED BY <1>1, <1>2, InvHolds, CallsStayApart, PTL DEF Spec

\* Although two relay loops copy the same pair, no chunk reaches a peer twice.
THEOREM NothingTwice == Spec => []NoDuplicates
<1>1. OrderInv => NoDuplicates
  BY DEF OrderInv
<1> QED BY <1>1, OrderHolds, PTL

\* A peer gets what its partner sent in the order it was sent, but for what the
\* relay has read to identify the partner.
THEOREM StreamsInOrder == Spec => []LoopKeepsOrder
<1>1. OrderInv => LoopKeepsOrder
  BY DEF OrderInv
<1> QED BY <1>1, OrderHolds, PTL
=============================================================================
