------------------------------ MODULE MtpRelay ------------------------------
(***************************************************************************)
(* The MTP media relay (src/src/relay/mtp_relay.py): a TCP server that     *)
(* pairs a bridge connection with a doorbell connection and copies bytes   *)
(* between them.                                                           *)
(*                                                                         *)
(* Every connection has a handler task; a handler that holds a pair runs   *)
(* _relay_loop, which adds two copy tasks.  All tasks share one asyncio    *)
(* event loop, so a task runs without interruption from one await to the   *)
(* next and one action below is one such stretch.                          *)
(*                                                                         *)
(* Data is abstracted to numbered chunks: one PeerSend is what one recv()  *)
(* adds to a StreamReader's buffer.  Clock time is abstracted to the       *)
(* number of 0.1 s polls a waiter makes before its 30 s deadline.          *)
(***************************************************************************)
EXTENDS Naturals, Sequences, SequencesExt

CONSTANTS
  Conns,       \* TCP connections that may arrive
  IpRoles,     \* what _identify_role may answer for them
  PollLimit,   \* polls before _wait_for_pair gives up (300 in the code)
  MaxChunks,   \* bound: chunks one peer sends
  MaxLinkId,   \* bound: values mtp_link_counter takes
  NoPair       \* the absence of a pair (Python's None)

Roles == {"bridge", "doorbell"}
LinkIds == 1 .. MaxLinkId

ASSUME IpRolesAssumption   == IpRoles \subseteq Roles \cup {"unknown"}
ASSUME PollLimitAssumption == PollLimit \in Nat \ {0}
ASSUME MaxChunksAssumption == MaxChunks \in Nat
ASSUME MaxLinkIdAssumption == MaxLinkId \in Nat \ {0}
ASSUME NoPairAssumption    == NoPair \notin [Roles -> Conns]
ASSUME NoPairIsNoConn      == NoPair \notin Conns

VARIABLES
  phase,        \* where the handler of each connection is suspended
  role,         \* MtpConnection.role
  polls,        \* polls its handler has made in _wait_for_pair
  first,        \* first_data, read to identify an unknown peer
  pending,      \* mtp_pending_bridges and mtp_pending_doorbells
  mtpPairs,     \* mtp_pairs: link id -> pair
  linkCounter,  \* mtp_link_counter
  pairOf,       \* the pair a handler passed to _relay_loop
  copy,         \* copy[h][r]: task of h's relay loop that reads the r side
  inbuf,        \* bytes in the connection's StreamReader
  sent,         \* number of chunks its peer has sent
  got,          \* chunks written to its peer, in order
  left,         \* the peer has closed or reset its end
  closed        \* the relay's transport is closed or lost

handlerVars == <<phase, role, polls, first, pairOf>>
pairingVars == <<pending, mtpPairs, linkCounter>>
streamVars  == <<inbuf, sent, got, left, closed>>
vars == <<handlerVars, pairingVars, copy, streamVars>>

Pairs    == [Roles -> Conns]
Chunks   == Conns \X (1 .. MaxChunks)
Phases   == {"new", "identifying", "waiting", "relaying", "done"}

\* "blocked": suspended in read() as the reader's waiter; "woken": that future
\* is completed; "lost": suspended on a future that the reader has forgotten.
CopyPcs  == {"idle", "start", "blocked", "woken", "lost", "drain", "ended", "raised"}

\* The queue a connection of role r pairs from.
Other(r) == IF r = "bridge" THEN "doorbell" ELSE "bridge"

\* MtpRelayPair(bridge=..., doorbell=...) with c on side r and o opposite.
MakePair(c, r, o) == [x \in Roles |-> IF x = r THEN c ELSE o]

TypeOK ==
  /\ phase \in [Conns -> Phases]
  /\ role \in [Conns -> Roles \cup {"unknown"}]
  /\ polls \in [Conns -> 0 .. PollLimit - 1]
  /\ first \in [Conns -> Seq(Chunks)]
  /\ pending \in [Roles -> Seq(Conns)]
  /\ mtpPairs \in [LinkIds -> Pairs \cup {NoPair}]
  /\ linkCounter \in LinkIds
  /\ pairOf \in [Conns -> Pairs \cup {NoPair}]
  /\ copy \in [Conns -> [Roles -> CopyPcs]]
  /\ inbuf \in [Conns -> Seq(Chunks)]
  /\ sent \in [Conns -> 0 .. MaxChunks]
  /\ got \in [Conns -> Seq(Chunks)]
  /\ left \in [Conns -> BOOLEAN]
  /\ closed \in [Conns -> BOOLEAN]

Init ==
  /\ phase = [c \in Conns |-> "new"]
  /\ role = [c \in Conns |-> "unknown"]
  /\ polls = [c \in Conns |-> 0]
  /\ first = [c \in Conns |-> <<>>]
  /\ pending = [r \in Roles |-> <<>>]
  /\ mtpPairs = [l \in LinkIds |-> NoPair]
  /\ linkCounter = 1
  /\ pairOf = [c \in Conns |-> NoPair]
  /\ copy = [h \in Conns |-> [r \in Roles |-> "idle"]]
  /\ inbuf = [c \in Conns |-> <<>>]
  /\ sent = [c \in Conns |-> 0]
  /\ got = [c \in Conns |-> <<>>]
  /\ left = [c \in Conns |-> FALSE]
  /\ closed = [c \in Conns |-> FALSE]

-----------------------------------------------------------------------------
(* Streams                                                                 *)

\* New data, EOF or the loss of connections in C completes the future that
\* a read() of theirs is waiting for; the reading task becomes runnable.
Wake(C) ==
  [h \in Conns |-> [r \in Roles |->
     IF copy[h][r] = "blocked" /\ pairOf[h][r] \in C
     THEN "woken" ELSE copy[h][r]]]

AtEof(c) == left[c] \/ closed[c]

\* The reader's buffer after a read() of everything in it.
Taken(c) == [inbuf EXCEPT ![c] = <<>>]

\* writer.write(data): lost unless both ends of the connection are up.
Write(d, data) ==
  got' = IF AtEof(d) THEN got ELSE [got EXCEPT ![d] = @ \o data]

\* The handler of c closes its writer and returns.
CloseAndReturn(c) ==
  /\ phase' = [phase EXCEPT ![c] = "done"]
  /\ closed' = [closed EXCEPT ![c] = TRUE]
  /\ copy' = Wake({c})

\* The handler of c enters _relay_loop with pair p: gather() schedules the
\* two copy tasks.
EnterRelayLoop(c, p) ==
  /\ phase' = [phase EXCEPT ![c] = "relaying"]
  /\ pairOf' = [pairOf EXCEPT ![c] = p]
  /\ copy' = [copy EXCEPT ![c] = [r \in Roles |-> "start"]]

-----------------------------------------------------------------------------
(* The connection handler                                                  *)

\* _try_pair_bridge / _try_pair_doorbell found a waiting connection.  The
\* pair it builds is handed to this handler only, not stored in mtp_pairs.
AcceptAndPair(c, r) ==
  /\ phase[c] = "new"
  /\ pending[Other(r)] # <<>>
  /\ role' = [role EXCEPT ![c] = r]
  /\ pending' = [pending EXCEPT ![Other(r)] = Tail(@)]
  /\ EnterRelayLoop(c, MakePair(c, r, Head(pending[Other(r)])))
  /\ UNCHANGED <<polls, first, mtpPairs, linkCounter, streamVars>>

\* Nobody to pair with: the connection is queued and its handler waits.
AcceptAndQueue(c, r) ==
  /\ phase[c] = "new"
  /\ pending[Other(r)] = <<>>
  /\ role' = [role EXCEPT ![c] = r]
  /\ phase' = [phase EXCEPT ![c] = "waiting"]
  /\ pending' = [pending EXCEPT ![r] = Append(@, c)]
  /\ UNCHANGED <<polls, first, pairOf, mtpPairs, linkCounter, copy, streamVars>>

\* The address says nothing: read a first frame.
AcceptUnknown(c) ==
  /\ phase[c] = "new"
  /\ "unknown" \in IpRoles
  /\ phase' = [phase EXCEPT ![c] = "identifying"]
  /\ UNCHANGED <<role, polls, first, pairOf, pairingVars, copy, streamVars>>

Accept(c) ==
  \/ \E r \in IpRoles \cap Roles : AcceptAndPair(c, r) \/ AcceptAndQueue(c, r)
  \/ AcceptUnknown(c)

Identify_PutsBack(c, r) ==         \* mutant: the data is also left to the relay loop
  /\ phase[c] = "identifying"
  /\ inbuf[c] # <<>>
  /\ role' = [role EXCEPT ![c] = r]
  /\ first' = [first EXCEPT ![c] = inbuf[c]]
  /\ phase' = [phase EXCEPT ![c] = "waiting"]
  /\ pending' = [pending EXCEPT ![r] = Append(@, c)]
  /\ UNCHANGED <<polls, pairOf, mtpPairs, linkCounter, copy, streamVars>>

\* read(8192) returned data; the frame's term id decides the role.  The
\* connection is queued without a pairing attempt, even when the other
\* queue holds somebody.
Identify(c, r) ==
  /\ phase[c] = "identifying"
  /\ inbuf[c] # <<>>
  /\ role' = [role EXCEPT ![c] = r]
  /\ first' = [first EXCEPT ![c] = inbuf[c]]
  /\ inbuf' = Taken(c)
  /\ phase' = [phase EXCEPT ![c] = "waiting"]
  /\ pending' = [pending EXCEPT ![r] = Append(@, c)]
  /\ UNCHANGED <<polls, pairOf, mtpPairs, linkCounter, copy, sent, got, left, closed>>

\* EOF, a connection error or the 10 s timeout before any data.
IdentifyFails(c) ==
  /\ phase[c] = "identifying"
  /\ inbuf[c] = <<>>
  /\ CloseAndReturn(c)
  /\ UNCHANGED <<role, polls, first, pairOf, pairingVars, inbuf, sent, got, left>>

-----------------------------------------------------------------------------
(* _wait_for_pair: one action per way an iteration of its loop can go      *)

Queued(c) == c \in ToSet(pending[role[c]])

\* pending.remove(conn): c's own queue without c, which is in it once.
Unqueued_Kept(c) == pending[role[c]]   \* mutant: conn is not removed
Unqueued(c) ==
  LET queue == pending[role[c]]
  IN  RemoveAt(queue, CHOOSE i \in DOMAIN queue : queue[i] = c)

StoredPairs(c) ==
  {mtpPairs[l] : l \in {k \in LinkIds : /\ mtpPairs[k] # NoPair
                                        /\ mtpPairs[k][role[c]] = c}}

\* _wait_for_pair returns, and its start time with it.
EndsWait(c) == polls' = [polls EXCEPT ![c] = 0]

\* Another handler took c off its queue and stored the pair.  first_data,
\* if any, goes to the peer before c's handler starts its relay loop.
PollFindsPair(c) ==
  /\ phase[c] = "waiting"
  /\ ~ Queued(c)
  /\ \E p \in StoredPairs(c) :
       /\ EnterRelayLoop(c, p)
       /\ Write(p[Other(role[c])], first[c])
  /\ EndsWait(c)
  /\ UNCHANGED <<role, first, pairingVars, inbuf, sent, left, closed>>

PollFindsNothing_Polls(c) ==       \* mutant: the loop waits on for the pair to be stored
  /\ phase[c] = "waiting"
  /\ ~ Queued(c)
  /\ StoredPairs(c) = {}
  /\ UNCHANGED vars

\* Off the queue but in no stored pair: the loop breaks with None and the
\* handler closes the connection.
PollFindsNothing(c) ==
  /\ phase[c] = "waiting"
  /\ ~ Queued(c)
  /\ StoredPairs(c) = {}
  /\ CloseAndReturn(c)
  /\ EndsWait(c)
  /\ UNCHANGED <<role, first, pairOf, pairingVars, inbuf, sent, got, left>>

\* Still queued and somebody waits on the other queue: pair with its head.
PollPairs(c) ==
  LET r == role[c]
      o == Head(pending[Other(r)])
      p == MakePair(c, r, o)
  IN
  /\ phase[c] = "waiting"
  /\ Queued(c)
  /\ pending[Other(r)] # <<>>
  /\ pending' = [pending EXCEPT ![Other(r)] = Tail(@),
                                ![r] = Unqueued(c)]
  /\ mtpPairs' = [mtpPairs EXCEPT ![linkCounter] = p]
  /\ EnterRelayLoop(c, p)
  /\ Write(o, first[c])
  /\ EndsWait(c)
  /\ UNCHANGED <<role, first, linkCounter, inbuf, sent, left, closed>>

\* time.time() - start has reached the timeout when the loop tests it.
DeadlinePassed_Late(c) == polls[c] >= PollLimit  \* mutant: one poll too many
DeadlinePassed(c) == polls[c] + 1 >= PollLimit

PollAgain(c) ==
  /\ phase[c] = "waiting"
  /\ Queued(c)
  /\ pending[Other(role[c])] = <<>>
  /\ ~ DeadlinePassed(c)
  /\ polls' = [polls EXCEPT ![c] = @ + 1]
  /\ UNCHANGED <<phase, role, first, pairOf, pairingVars, copy, streamVars>>

\* The deadline has passed: leave the queue and close the connection.
PollTimesOut(c) ==
  /\ phase[c] = "waiting"
  /\ Queued(c)
  /\ pending[Other(role[c])] = <<>>
  /\ DeadlinePassed(c)
  /\ pending' = [pending EXCEPT ![role[c]] = Unqueued(c)]
  /\ CloseAndReturn(c)
  /\ EndsWait(c)
  /\ UNCHANGED <<role, first, pairOf, mtpPairs, linkCounter,
                 inbuf, sent, got, left>>

Poll(c) ==
  \/ PollFindsPair(c)
  \/ PollFindsNothing(c)
  \/ PollPairs(c)
  \/ PollAgain(c)
  \/ PollTimesOut(c)

-----------------------------------------------------------------------------
(* _relay_loop of handler h: the copy task that reads side r               *)

SetCopy(h, r, pc) == copy' = [copy EXCEPT ![h][r] = pc]

Forward_Reversed(h, r) ==          \* mutant: what came together is sent last first
  LET s == pairOf[h][r]
      d == pairOf[h][Other(r)]
  IN
  /\ inbuf[s] # <<>>
  /\ inbuf' = Taken(s)
  /\ Write(d, Reverse(inbuf[s]))
  /\ closed' = [closed EXCEPT ![d] = @ \/ left[d]]
  /\ UNCHANGED <<sent, left>>

\* write(), before await drain().  A write to a peer that has gone provokes a
\* reset, which loses the connection.
Forward(h, r) ==
  LET s == pairOf[h][r]
      d == pairOf[h][Other(r)]
  IN
  /\ inbuf[s] # <<>>
  /\ inbuf' = Taken(s)
  /\ Write(d, inbuf[s])
  /\ closed' = [closed EXCEPT ![d] = @ \/ left[d]]
  /\ UNCHANGED <<sent, left>>

\* drain() raises ConnectionError because the destination is lost.
DrainFails(h, r) ==
  /\ copy[h][r] = "drain"
  /\ closed[pairOf[h][Other(r)]]
  /\ SetCopy(h, r, "ended")
  /\ UNCHANGED <<handlerVars, pairingVars, streamVars>>

\* A task that starts, or that drained: the next read() returns at once,
\* returns b'' at EOF, suspends, or raises RuntimeError when another task
\* is suspended on the same StreamReader.
CopyReads(h, r) ==
  LET s == pairOf[h][r] IN
  /\ \/ copy[h][r] = "start"
     \/ copy[h][r] = "drain" /\ ~ closed[pairOf[h][Other(r)]]
  /\ \/ Forward(h, r) /\ SetCopy(h, r, "drain")
     \/ /\ inbuf[s] = <<>>
        /\ SetCopy(h, r,
             IF AtEof(s) THEN "ended"
             ELSE IF \E g \in Conns : copy[g][r] = "blocked" /\ pairOf[g][r] = s
                  THEN "raised" ELSE "blocked")
        /\ UNCHANGED streamVars
  /\ UNCHANGED <<handlerVars, pairingVars>>

\* StreamReader._wait_for_data sets _waiter to None when the task goes on, even
\* if another task has taken the data in between and is the waiter by now:
\* nothing will wake that one any more, not even EOF.
ResumeCopy(h, r, pc) ==
  LET Forgotten(g, x) ==
        x = r /\ copy[g][x] = "blocked" /\ pairOf[g][x] = pairOf[h][r]
  IN  copy' = [g \in Conns |-> [x \in Roles |->
        IF g = h /\ x = r THEN pc
        ELSE IF Forgotten(g, x) THEN "lost" ELSE copy[g][x]]]

\* A task woken from a suspended read() takes what is in the buffer now;
\* nothing there counts as EOF.
CopyResumes(h, r) ==
  /\ copy[h][r] = "woken"
  /\ \/ Forward(h, r) /\ ResumeCopy(h, r, "drain")
     \/ /\ inbuf[pairOf[h][r]] = <<>>
        /\ ResumeCopy(h, r, "ended")
        /\ UNCHANGED streamVars
  /\ UNCHANGED <<handlerVars, pairingVars>>

CopyStep(h, r) == DrainFails(h, r) \/ CopyReads(h, r) \/ CopyResumes(h, r)

\* gather() returns when both tasks ended and raises when one raised (the
\* other keeps running); either way the finally block closes both writers.
BothEnds_Bridge(h) == {pairOf[h]["bridge"]}   \* mutant: one writer is left open
BothEnds(h) == {pairOf[h][r] : r \in Roles}

RelayEnds_WaitsForBoth(h) ==       \* mutant: an error waits for the other direction
  /\ phase[h] = "relaying"
  /\ \A r \in Roles : copy[h][r] = "ended"
  /\ phase' = [phase EXCEPT ![h] = "done"]
  /\ closed' = [c \in Conns |-> closed[c] \/ c \in BothEnds(h)]
  /\ copy' = Wake(BothEnds(h))
  /\ UNCHANGED <<role, polls, first, pairOf, pairingVars, inbuf, sent, got, left>>

RelayEnds(h) ==
  /\ phase[h] = "relaying"
  /\ \/ \A r \in Roles : copy[h][r] = "ended"
     \/ \E r \in Roles : copy[h][r] = "raised"
  /\ phase' = [phase EXCEPT ![h] = "done"]
  /\ closed' = [c \in Conns |-> closed[c] \/ c \in BothEnds(h)]
  /\ copy' = Wake(BothEnds(h))
  /\ UNCHANGED <<role, polls, first, pairOf, pairingVars, inbuf, sent, got, left>>

-----------------------------------------------------------------------------
(* The peers, and the part of the relay that advances mtp_link_counter     *)

Connected(c) == phase[c] # "new" /\ ~ AtEof(c)

PeerSends(c) ==
  /\ Connected(c)
  /\ sent[c] < MaxChunks
  /\ sent' = [sent EXCEPT ![c] = @ + 1]
  /\ inbuf' = [inbuf EXCEPT ![c] = Append(@, <<c, sent[c] + 1>>)]
  /\ copy' = Wake({c})
  /\ UNCHANGED <<handlerVars, pairingVars, got, left, closed>>

\* The peer closes its end: the reader sees EOF after the buffered data.
PeerLeaves(c) ==
  /\ Connected(c)
  /\ left' = [left EXCEPT ![c] = TRUE]
  /\ copy' = Wake({c})
  /\ UNCHANGED <<handlerVars, pairingVars, inbuf, sent, got, closed>>

\* The peer resets the connection: buffered data is discarded.
PeerResets(c) ==
  /\ Connected(c)
  /\ left' = [left EXCEPT ![c] = TRUE]
  /\ closed' = [closed EXCEPT ![c] = TRUE]
  /\ inbuf' = [inbuf EXCEPT ![c] = <<>>]
  /\ copy' = Wake({c})
  /\ UNCHANGED <<handlerVars, pairingVars, sent, got>>

\* build_mtp_res_resp of a CALLING whose link id cannot be extracted.
TakeLinkId ==
  /\ linkCounter < MaxLinkId
  /\ linkCounter' = linkCounter + 1
  /\ UNCHANGED <<handlerVars, pending, mtpPairs, copy, streamVars>>

Next ==
  \/ \E c \in Conns : \/ Accept(c) \/ IdentifyFails(c) \/ Poll(c) \/ RelayEnds(c)
                      \/ \E r \in Roles : Identify(c, r) \/ CopyStep(c, r)
                      \/ PeerSends(c) \/ PeerLeaves(c) \/ PeerResets(c)
  \/ TakeLinkId

Spec == Init /\ [][Next]_vars

\* The event loop runs every ready task and timer; peers owe nothing.
Fairness ==
  \A c \in Conns :
    /\ WF_vars(IdentifyFails(c) \/ \E r \in Roles : Identify(c, r))
    /\ WF_vars(Poll(c))
    /\ WF_vars(RelayEnds(c))
    /\ \A r \in Roles : WF_vars(CopyStep(c, r))

FairSpec == Spec /\ Fairness

-----------------------------------------------------------------------------
(* Properties                                                              *)

HoldsPair(h) == pairOf[h] # NoPair

\* The pairs in existence: those handlers relay and those mtp_pairs keeps.
MadePairs == ({pairOf[h] : h \in Conns} \cup {mtpPairs[l] : l \in LinkIds}) \ {NoPair}

\* Pairing is one to one and final: two different pairs never share a
\* connection, no connection is on both sides of one, and a connection that
\* still waits in a queue is in no pair (mtp_relay.py 164-247 pops and removes
\* from two lists in four places).
PairedOnce ==
  /\ \A p, q \in MadePairs : \A r, x \in Roles : p[r] = q[x] => p = q /\ r = x
  /\ \A p \in MadePairs : \A r, x \in Roles : p[r] \notin ToSet(pending[x])

\* When the handler of a connection has returned, the relay holds no open
\* socket for it, whichever of the two paired handlers did the closing.
ReturnedIsClosed == \A c \in Conns : phase[c] = "done" => closed[c]

\* What a peer receives comes from one peer only, and that peer receives from
\* nobody else: media of two calls is never mixed, even when two relay loops
\* read the same streams.
NoCrossTalk ==
  \A c \in Conns : \A i \in DOMAIN got[c] :
    LET s == got[c][i][1] IN
    /\ \A j \in DOMAIN got[c] : got[c][j][1] = s
    /\ \A j \in DOMAIN got[s] : got[s][j][1] = c

\* No chunk is forwarded twice although two relay loops may read one stream.
NoDuplicates ==
  \A c \in Conns : \A i, j \in DOMAIN got[c] : got[c][i] = got[c][j] => i = j

\* The chunks the relay loops forward stay in the order they were sent, with
\* one loop or two; only first_data can arrive late, since the handler that
\* read it writes it when its own poll finds the pair.
LoopKeepsOrder ==
  \A c \in Conns : \A i, j \in DOMAIN got[c] :
    i < j /\ got[c][i][2] > got[c][j][2] => got[c][j] \in ToSet(first[got[c][j][1]])

\* A connection that waits to be paired is relayed or closed in the end: no
\* handler polls for ever (timeout 30 s, mtp_relay.py 194-251).
WaiterResolved ==
  \A c \in Conns : phase[c] = "waiting" ~> phase[c] \in {"relaying", "done"}

\* When both peers of a pair are gone, the handler that relays it returns, also
\* after drain() failures, stolen reads and orphaned copy tasks, unless one of its
\* tasks is a forgotten waiter, which takes a second loop over the same stream.
RelayTornDown ==
  \A h \in Conns :
    phase[h] = "relaying" /\ (\A r \in Roles : left[pairOf[h][r]])
      ~> \/ phase[h] = "done"
         \/ \E r \in Roles : /\ copy[h][r] = "lost"
                             /\ \E g \in Conns \ {h} : pairOf[g] = pairOf[h]

\* The pairs some handler relays or has relayed, and c's one partner in them.
HeldPairs == {pairOf[h] : h \in Conns} \ {NoPair}
PairsOf(c) == {p \in HeldPairs : \E r \in Roles : p[r] = c}

PartnerOf(c) ==
  IF PairsOf(c) = {} THEN NoPair
  ELSE LET p == CHOOSE p \in PairsOf(c) : TRUE
       IN  IF p["bridge"] = c THEN p["doorbell"] ELSE p["bridge"]

Partners == [c \in Conns |-> PartnerOf(c)]
Heard    == [c \in Conns |-> ToSet(got[c])]

Promise == INSTANCE MediaPairing WITH
  Peers <- Conns, Nobody <- NoPair,
  partner <- Partners, said <- sent, heard <- Heard, gone <- left

\* The relay implements what it promises its peers: whatever the handlers and
\* copy tasks do, each step brings two free peers together, or lets a peer that
\* is still there hear words of its one partner, or is nothing a peer notices.
Implements == Promise!Spec

\* Claimed by the comments of _wait_for_pair (lines 201-206) and the docstring of
\* _tcp_handle_client (line 53), violated: while a handler relays a pair whose peers are
\* both there, the relay itself does not close the pair's connections.
RelayedStaysOpen ==
  \A h \in Conns :
    phase[h] = "relaying" =>
      \A r \in Roles : closed[pairOf[h][r]] => \E x \in Roles : left[pairOf[h][x]]
=============================================================================
