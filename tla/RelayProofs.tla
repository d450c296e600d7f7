----------------------------- MODULE RelayProofs -----------------------------
(***************************************************************************)
(* What the signaling relay answers and forwards, for every instance.      *)
(*                                                                         *)
(* ResponseDispatch: what each client receives, for every set of clients   *)
(* and every number of requests.  All loops share one list of ACKs, and a  *)
(* client gets its own frames once, over UDP nobody else's and in order.   *)
(*                                                                         *)
(* Wakeup: what becomes of a CALLING frame, for every number of calls,     *)
(* every limit and every behaviour of the sockets.                         *)
(*                                                                         *)
(* The two specifications share no variable; each has theorems of its own. *)
(***************************************************************************)
EXTENDS ResponseDispatch, Wakeup, ListLemmas

-----------------------------------------------------------------------------
(* ResponseDispatch                                                        *)

Frames    == [kind : {"ack", "resp"}, req : Requests, nr : Nat]
AckFrames == {f \in Frames : f.kind = "ack"}
Tasks     == {"read", "respDrain", "extraDrain", "closed"}

DispatchTypeInv ==
  /\ extraResponses \in Seq(AckFrames)
  /\ taken \in [Clients -> Nat]
  /\ received \in [Clients -> Seq(Frames)]
  /\ task \in [TcpClients -> Tasks]
  /\ index \in [TcpClients -> Nat]

\* A client's own frames, and the order of what it gets, in a list of frames.
OwnOnce(c, s)  == \A i, j \in DOMAIN s : s[i] = s[j] /\ s[i].req[1] = c => i = j
OnlyOwn(c, s)  == \A f \in ToSet(s) : f.req[1] = c
AckFirst(s) ==
  \A i, j \in DOMAIN s :
    s[i].kind = "ack" /\ s[j].kind = "resp" /\ s[i].req = s[j].req => i < j

\* Only requests the relay has taken are queued or answered.
Known(q) == q[2] <= taken[q[1]]
KnownInv ==
  /\ \A f \in ToSet(extraResponses) : Known(f.req)
  /\ \A c \in Clients : \A f \in ToSet(received[c]) : Known(f.req)

\* s holds a response to the request q.
Answered(q, s) == \E f \in ToSet(s) : f.kind = "resp" /\ f.req = q

\* An ACK is queued once.  It has not reached its own client, unless this is
\* the handler that has written it and not yet come to the end of the list;
\* and a UDP client has not got the response.
QueueInv ==
  /\ Distinct(extraResponses)
  /\ \A p \in DOMAIN extraResponses :
       LET f == extraResponses[p]
           c == f.req[1]
       IN  /\ (c \in TcpClients /\ p <= index[c]) \/ f \notin ToSet(received[c])
           /\ c \in UdpClients => ~ Answered(f.req, received[c])
  /\ \A c \in TcpClients : task[c] = "read" => index[c] = 0

ReceivedInv ==
  /\ \A c \in Clients : OwnOnce(c, received[c])
  /\ \A c \in UdpClients : OnlyOwn(c, received[c]) /\ AckFirst(received[c])

DispatchInv == KnownInv /\ QueueInv /\ ReceivedInv

-----------------------------------------------------------------------------
(* Lists of frames                                                         *)

\* Two lists of frames in a row.
LEMMA FramesConcat ==
  ASSUME NEW s \in Seq(Frames), NEW t \in Seq(Frames), NEW c
  PROVE  /\ s \o t \in Seq(Frames) /\ ToSet(s \o t) = ToSet(s) \cup ToSet(t)
         /\ OwnOnce(c, s) /\ OwnOnce(c, t)
              /\ (\A f \in ToSet(t) : f.req[1] = c => f \notin ToSet(s))
              => OwnOnce(c, s \o t)
         /\ AckFirst(s) /\ AckFirst(t)
              /\ (\A f \in ToSet(t), g \in ToSet(s) :
                    f.kind = "ack" /\ g.kind = "resp" => f.req # g.req)
              => AckFirst(s \o t)
<1>1. s \o t \in Seq(Frames) /\ ToSet(s \o t) = ToSet(s) \cup ToSet(t)
  BY ConcatProperties, ConcatToSet
<1>2. PICK n \in Nat, u \in Seq(Frames) : n = Len(s) /\ u = s \o t
  BY <1>1, LenProperties
<1>3. /\ DOMAIN s = 1 .. n /\ DOMAIN t \subseteq Nat \ {0}
  BY <1>2, LenProperties
<1>4. \A i \in DOMAIN u :
        \/ i \in 1 .. n /\ u[i] = s[i] /\ s[i] \in ToSet(s)
        \/ \E k \in DOMAIN t : i = n + k /\ u[i] = t[k] /\ t[k] \in ToSet(t)
  <2>1. \A i \in DOMAIN (s \o t) :
          \/ i \in DOMAIN s /\ (s \o t)[i] = s[i] /\ s[i] \in ToSet(s)
          \/ \E k \in DOMAIN t : i = Len(s) + k /\ (s \o t)[i] = t[k] /\ t[k] \in ToSet(t)
    BY ConcatPositions
  <2>2. u = s \o t /\ Len(s) = n /\ DOMAIN s = 1 .. n
    BY <1>2, <1>3
  <2>3. \A i \in DOMAIN u :
          \/ i \in DOMAIN s /\ u[i] = s[i] /\ s[i] \in ToSet(s)
          \/ \E k \in DOMAIN t : i = Len(s) + k /\ u[i] = t[k] /\ t[k] \in ToSet(t)
    BY <2>1, <2>2, Zenon
  <2> QED BY <2>2, <2>3, Zenon
<1>5. ASSUME OwnOnce(c, s), OwnOnce(c, t),
             \A f \in ToSet(t) : f.req[1] = c => f \notin ToSet(s)
      PROVE  OwnOnce(c, u)
  <2> SUFFICES ASSUME NEW i \in DOMAIN u, NEW j \in DOMAIN u, u[i] = u[j], u[i].req[1] = c
               PROVE  i = j
    BY DEF OwnOnce
  <2>1. CASE i \in 1 .. n /\ u[i] = s[i] /\ s[i] \in ToSet(s)
    BY <1>3, <1>4, <1>5, <2>1 DEF OwnOnce
  <2>2. CASE \E k \in DOMAIN t : i = n + k /\ u[i] = t[k] /\ t[k] \in ToSet(t)
    BY <1>3, <1>4, <1>5, <2>2 DEF OwnOnce
  <2> QED BY <1>4, <2>1, <2>2
<1>6. ASSUME AckFirst(s), AckFirst(t),
             \A f \in ToSet(t), g \in ToSet(s) :
               f.kind = "ack" /\ g.kind = "resp" => f.req # g.req
      PROVE  AckFirst(u)
  <2> SUFFICES ASSUME NEW i \in DOMAIN u, NEW j \in DOMAIN u,
                      u[i].kind = "ack", u[j].kind = "resp", u[i].req = u[j].req
               PROVE  i < j
    BY DEF AckFirst
  <2>1. CASE i \in 1 .. n /\ u[i] = s[i] /\ s[i] \in ToSet(s)
    BY <1>3, <1>4, <1>6, <2>1 DEF AckFirst
  <2>2. CASE \E k \in DOMAIN t : i = n + k /\ u[i] = t[k] /\ t[k] \in ToSet(t)
    <3>1. PICK k \in DOMAIN t : i = n + k /\ u[i] = t[k] /\ t[k] \in ToSet(t)
      BY <2>2
    <3>2. CASE j \in 1 .. n /\ u[j] = s[j] /\ s[j] \in ToSet(s)
      BY <1>6, <3>1, <3>2
    <3>3. ASSUME NEW l \in DOMAIN t, j = n + l, u[j] = t[l] PROVE i < j
      <4>1. k < l
        BY <1>6, <3>1, <3>3 DEF AckFirst
      <4> QED BY <1>3, <3>1, <3>3, <4>1
    <3> QED BY <1>4, <3>2, <3>3
  <2> QED BY <1>4, <2>1, <2>2
<1> QED BY <1>1, <1>2, <1>5, <1>6

\* The frames the handler builds.
LEMMA FrameKinds ==
  ASSUME NEW q \in Requests, NEW n \in Nat
  PROVE  /\ Ack(q, n) \in AckFrames /\ Ack(q, n).req = q /\ Ack(q, n).nr = n
         /\ Resp(q) \in Frames /\ Resp(q).kind = "resp" /\ Resp(q).req = q
  BY DEF Frames, AckFrames, Ack, Resp

\* The fields of a queued frame.
LEMMA AckFields ==
  ASSUME NEW f \in AckFrames
  PROVE  f \in Frames /\ f.kind = "ack" /\ f.req \in Requests /\ f.req[1] \in Clients
<1>1. f \in Frames /\ f.kind = "ack" /\ f.req \in Requests
  BY DEF AckFrames, Frames
<1> QED BY <1>1 DEF Requests

\* New ACKs of one request at the end of the list.
LEMMA AcksQueued ==
  ASSUME NEW s \in Seq(AckFrames), Distinct(s), NEW q \in Requests, NEW n \in Nat,
         \A f \in ToSet(s) : f.req # q,
         NEW new \in Seq(AckFrames), DOMAIN new = 1 .. n,
         \A k \in 1 .. n : new[k] = Ack(q, k)
  PROVE  LET queue == s \o new IN
         /\ queue \in Seq(AckFrames) /\ Distinct(queue)
         /\ \A p \in DOMAIN queue : \/ p \in DOMAIN s /\ queue[p] = s[p]
                                    \/ queue[p].req = q
         /\ \A f \in ToSet(queue) : f \in AckFrames /\ (f \in ToSet(s) \/ f.req = q)
<1>1. PICK t : t = s \o new
  OBVIOUS
<1>2. /\ new \in Seq(AckFrames) /\ DOMAIN new = 1 .. n
      /\ \A k \in 1 .. n : new[k] \in AckFrames /\ new[k].req = q /\ new[k].nr = k
  <2>1. \A k \in 1 .. n : Ack(q, k) \in AckFrames /\ Ack(q, k).req = q /\ Ack(q, k).nr = k
    BY FrameKinds
  <2> QED BY <2>1
<1>3. PICK m : m = Len(s)
  OBVIOUS
<1>4. /\ t \in Seq(AckFrames) /\ ToSet(t) = ToSet(s) \cup ToSet(new)
      /\ m \in Nat /\ DOMAIN s = 1 .. m /\ Len(t) \in Nat /\ DOMAIN t = 1 .. Len(t)
  BY <1>1, <1>2, <1>3, ConcatProperties, ConcatToSet, LenProperties
<1>5. \A p \in DOMAIN t : \/ p \in 1 .. m /\ t[p] = s[p] /\ t[p].req # q
                          \/ \E k \in 1 .. n : p = m + k /\ t[p].req = q /\ t[p].nr = k
  <2>1. \A p \in DOMAIN t :
          \/ p \in DOMAIN s /\ t[p] = s[p] /\ s[p] \in ToSet(s)
          \/ \E k \in DOMAIN new : p = m + k /\ t[p] = new[k] /\ new[k] \in ToSet(new)
    <3>1. \A p \in DOMAIN (s \o new) :
            \/ p \in DOMAIN s /\ (s \o new)[p] = s[p] /\ s[p] \in ToSet(s)
            \/ \E k \in DOMAIN new : p = Len(s) + k /\ (s \o new)[p] = new[k] /\ new[k] \in ToSet(new)
      BY <1>2, ConcatPositions
    <3> QED BY <1>1, <1>3, <3>1, Zenon
  <2>2. \A f \in ToSet(s) : f.req # q
    OBVIOUS
  <2> QED BY <1>2, <1>4, <2>1, <2>2
<1>6. Distinct(t)
  <2> SUFFICES ASSUME NEW i \in 1 .. Len(t), NEW j \in 1 .. Len(t), t[i] = t[j]
               PROVE  i = j
    BY DEF Distinct
  <2>1. CASE i \in 1 .. m /\ t[i] = s[i] /\ t[i].req # q
    <3>1. j \in 1 .. m /\ t[j] = s[j]
      BY <1>4, <1>5, <2>1
    <3> QED BY <1>3, <2>1, <3>1 DEF Distinct
  <2>2. CASE \E k \in 1 .. n : i = m + k /\ t[i].req = q /\ t[i].nr = k
    BY <1>4, <1>5, <2>2
  <2> QED BY <1>4, <1>5, <2>1, <2>2
<1>7. \A f \in ToSet(t) : f \in AckFrames /\ (f \in ToSet(s) \/ f.req = q)
  <2>1. \A f \in ToSet(new) : \E k \in 1 .. n : f = new[k]
    BY <1>2, ToSetMembers, LenProperties
  <2>2. \A f \in ToSet(s) : f \in AckFrames
    BY ToSetMembers, LenProperties
  <2> QED BY <1>2, <1>4, <2>1, <2>2
<1>8. \A p \in DOMAIN t : \/ p \in DOMAIN s /\ t[p] = s[p]
                          \/ t[p].req = q
  BY <1>4, <1>5
<1> QED BY <1>1, <1>4, <1>6, <1>7, <1>8

\* One frame more.
LEMMA FrameAppended ==
  ASSUME NEW s \in Seq(Frames), NEW f \in Frames, NEW c, OwnOnce(c, s),
         f.req[1] = c => f \notin ToSet(s)
  PROVE  /\ Append(s, f) \in Seq(Frames) /\ ToSet(Append(s, f)) = ToSet(s) \cup {f}
         /\ OwnOnce(c, Append(s, f))
<1>1. Append(s, f) \in Seq(Frames) /\ ToSet(Append(s, f)) = ToSet(s) \cup {f}
  BY AppendMembers
<1>2. PICK n \in Nat, t \in Seq(Frames) : n = Len(s) /\ t = Append(s, f)
  BY <1>1, LenProperties
<1>3. /\ DOMAIN s = 1 .. n /\ DOMAIN t = 1 .. n + 1
      /\ \A i \in 1 .. n : t[i] = s[i]
      /\ t[n + 1] = f
  BY <1>2, AppendProperties, LenProperties
<1>4. \A i \in 1 .. n : s[i] \in ToSet(s)
  BY <1>2, ToSetMembers
<1>5. OwnOnce(c, t)
  BY <1>3, <1>4 DEF OwnOnce
<1> QED BY <1>1, <1>2, <1>5

\* The datagrams with which a UDP loop empties the list towards one client.
LEMMA DatagramsSent ==
  ASSUME NEW d \in UdpClients, NEW queue \in Seq(AckFrames), Distinct(queue),
         NEW q \in Requests
  PROVE  LET s == Datagrams(d, queue, q) IN
         /\ s \in Seq(Frames)
         /\ \A f \in ToSet(s) : \/ f \in ToSet(queue) /\ f \in AckFrames /\ f.req[1] = d
                                \/ q[1] = d /\ f = Resp(q)
         /\ OwnOnce(d, s) /\ OnlyOwn(d, s) /\ AckFirst(s)
<1>1. PICK own \in Seq(AckFrames) :
        /\ own = AddressedTo(d, queue, q)
        /\ ToSet(own) = ToSet(queue) \cap {f \in ToSet(queue) : f.req[1] = d}
        /\ Distinct(own)
  BY SelectMembers DEF AddressedTo
<1>2. /\ own \in Seq(Frames) /\ Len(own) \in Nat /\ DOMAIN own = 1 .. Len(own)
      /\ \A f \in ToSet(own) : f \in AckFrames /\ f \in ToSet(queue) /\ f.req[1] = d
      /\ \A i \in 1 .. Len(own) : own[i] \in ToSet(own)
  <2>1. AckFrames \subseteq Frames
    BY DEF AckFrames
  <2>2. /\ Len(own) \in Nat /\ DOMAIN own = 1 .. Len(own)
        /\ \A i \in 1 .. Len(own) : own[i] \in AckFrames /\ own[i] \in ToSet(own)
    BY ToSetMembers, LenProperties
  <2>3. own \in Seq(Frames)
    <3>1. PICK n \in Nat : own \in [1 .. n -> AckFrames]
      BY SeqDef
    <3>2. own \in [1 .. n -> Frames]
      BY <2>1, <3>1
    <3> QED BY <3>2, SeqDef
  <2>4. \A f \in ToSet(own) : f \in AckFrames
    BY <2>2, ToSetMembers
  <2> QED BY <1>1, <2>2, <2>3, <2>4
<1>3. OwnOnce(d, own) /\ AckFirst(own)
  <2>1. \A i \in 1 .. Len(own) : own[i].kind = "ack"
    BY <1>2, AckFields
  <2> QED BY <1>1, <1>2, <2>1 DEF OwnOnce, AckFirst, Distinct
<1>4. PICK resp : resp = IF d = q[1] THEN <<Resp(q)>> ELSE <<>>
  OBVIOUS
<1>5. Resp(q) \in Frames /\ Resp(q).kind = "resp" /\ Resp(q).req = q
  BY FrameKinds
<1>6. /\ resp \in Seq(Frames) /\ OwnOnce(d, resp) /\ AckFirst(resp)
      /\ \A f \in ToSet(resp) : d = q[1] /\ f = Resp(q)
  <2>1. CASE d = q[1]
    <3>1. resp \in Seq(Frames) /\ DOMAIN resp = {1} /\ resp[1] = Resp(q)
      BY <1>4, <1>5, <2>1
    <3> QED BY <1>5, <2>1, <3>1 DEF OwnOnce, AckFirst, ToSet
  <2>2. CASE d # q[1]
    BY <1>4, <2>2 DEF OwnOnce, AckFirst, ToSet
  <2> QED BY <2>1, <2>2
<1>7. PICK s : s = Datagrams(d, queue, q)
  OBVIOUS
<1>8. s = own \o resp
  BY <1>1, <1>4, <1>7 DEF Datagrams, InOrder
<1>9. \A f \in ToSet(own) : f.kind = "ack" /\ f.req[1] = d
  BY <1>2, AckFields
<1>10. \A f \in ToSet(resp) : f.kind = "resp" /\ f.req[1] = d
  BY <1>5, <1>6
<1>11. s \in Seq(Frames) /\ ToSet(s) = ToSet(own) \cup ToSet(resp)
       /\ OwnOnce(d, s) /\ AckFirst(s)
  BY <1>2, <1>3, <1>6, <1>8, <1>9, <1>10, FramesConcat
<1>12. OnlyOwn(d, s)
  BY <1>9, <1>10, <1>11 DEF OnlyOwn
<1>13. \A f \in ToSet(s) : \/ f \in ToSet(queue) /\ f \in AckFrames /\ f.req[1] = d
                           \/ q[1] = d /\ f = Resp(q)
  BY <1>2, <1>6, <1>11
<1> QED BY <1>7, <1>11, <1>12, <1>13

-----------------------------------------------------------------------------
(* The steps                                                               *)

\* The next request is new: neither in the list nor in any client's frames.
LEMMA RequestIsNew ==
  ASSUME DispatchTypeInv, DispatchInv, NEW c \in Clients, TakeRequest(c), NEW acks \in Nat,
         NEW q, q = NewRequest(c), NEW queue, queue = AfterHandle(c, acks)
  PROVE  /\ taken' \in [Clients -> Nat]
         /\ q \in Requests /\ q[1] = c /\ Known(q)'
         /\ \A e \in Requests : Known(e) => Known(e)' /\ e # q
         /\ queue \in Seq(AckFrames) /\ Distinct(queue)
         /\ \A p \in DOMAIN queue :
              \/ p \in DOMAIN extraResponses /\ queue[p] = extraResponses[p]
              \/ queue[p].req = q
         /\ \A f \in ToSet(queue) : f \in AckFrames /\ Known(f.req)'
<1>1. taken[c] \in Nat /\ taken' = [taken EXCEPT ![c] = taken[c] + 1]
  BY DEF TakeRequest, DispatchTypeInv
<1>2. \A d \in Clients : /\ taken'[d] = IF d = c THEN taken[c] + 1 ELSE taken[d]
                         /\ taken[d] \in Nat
  BY <1>1 DEF DispatchTypeInv
<1>3. taken' \in [Clients -> Nat]
  BY <1>1 DEF DispatchTypeInv
<1>4. q \in Requests /\ q[1] = c /\ q[2] = taken[c] + 1
  BY <1>1 DEF NewRequest, Requests
<1>5. Known(q)'
  BY <1>2, <1>4 DEF Known
<1>6. \A e \in Requests : Known(e) => Known(e)' /\ e # q
  <2> SUFFICES ASSUME NEW e \in Requests, Known(e) PROVE Known(e)' /\ e # q
    OBVIOUS
  <2>1. PICK d \in Clients, k \in Nat : d = e[1] /\ k = e[2]
    BY DEF Requests
  <2>2. k <= taken[d]
    BY <2>1 DEF Known
  <2>3. k <= taken'[d]
    BY <1>1, <1>2, <2>2
  <2>4. e # q
    BY <1>1, <1>4, <2>1, <2>2
  <2> QED BY <2>1, <2>3, <2>4 DEF Known
<1>7. extraResponses \in Seq(AckFrames) /\ Distinct(extraResponses)
  BY DEF DispatchTypeInv, DispatchInv, QueueInv
<1>8. \A f \in ToSet(extraResponses) : f.req \in Requests /\ Known(f.req) /\ f.req # q
  <2>1. \A f \in ToSet(extraResponses) : f \in AckFrames /\ Known(f.req)
    BY <1>7, ToSetMembers, LenProperties DEF DispatchInv, KnownInv
  <2> QED BY <1>6, <2>1, AckFields
<1>9. queue = extraResponses \o [n \in 1 .. acks |-> Ack(q, n)]
  BY DEF AfterHandle
<1>10. /\ queue \in Seq(AckFrames) /\ Distinct(queue)
       /\ \A p \in DOMAIN queue : \/ p \in DOMAIN extraResponses /\ queue[p] = extraResponses[p]
                                  \/ queue[p].req = q
       /\ \A f \in ToSet(queue) : f \in AckFrames /\ (f \in ToSet(extraResponses) \/ f.req = q)
  <2>1. \A f \in ToSet(extraResponses) : f.req # q
    BY <1>8
  <2>2. \A k \in 1 .. acks : Ack(q, k) \in AckFrames
    BY <1>4, FrameKinds
  <2>3. PICK new : new = [n \in 1 .. acks |-> Ack(q, n)]
    OBVIOUS
  <2>4. new \in [1 .. acks -> AckFrames]
    BY <2>2, <2>3
  <2>5. new \in Seq(AckFrames)
    BY <2>4, SeqDef
  <2>6. DOMAIN new = 1 .. acks /\ \A k \in 1 .. acks : new[k] = Ack(q, k)
    BY <2>3
  <2>7. queue = extraResponses \o new
    BY <1>9, <2>3
  <2>8. LET u == extraResponses \o new IN
        /\ u \in Seq(AckFrames) /\ Distinct(u)
        /\ \A p \in DOMAIN u : \/ p \in DOMAIN extraResponses /\ u[p] = extraResponses[p]
                               \/ u[p].req = q
        /\ \A f \in ToSet(u) : f \in AckFrames /\ (f \in ToSet(extraResponses) \/ f.req = q)
    BY <1>4, <1>7, <2>1, <2>5, <2>6, AcksQueued
  <2> QED BY <2>7, <2>8, Zenon
<1>11. \A f \in ToSet(queue) : Known(f.req)'
  BY <1>5, <1>6, <1>8, <1>10
<1> QED BY <1>3, <1>4, <1>5, <1>6, <1>10, <1>11

\* What a list of ACKs must satisfy towards the clients, were it the list.
Unwritten(queue, idx, rcv) ==
  \A p \in DOMAIN queue :
    LET f == queue[p]
        c == f.req[1]
    IN  /\ (c \in TcpClients /\ p <= idx[c]) \/ f \notin ToSet(rcv[c])
        /\ c \in UdpClients => ~ Answered(f.req, rcv[c])

\* The list with the new ACKs at its end.
LEMMA RequestUnwritten ==
  ASSUME DispatchTypeInv, DispatchInv, NEW c \in Clients, TakeRequest(c), NEW acks \in Nat
  PROVE  Unwritten(AfterHandle(c, acks), index, received)
<1>1. PICK q, queue : q = NewRequest(c) /\ queue = AfterHandle(c, acks)
  OBVIOUS
<1>2. /\ q \in Requests /\ q[1] = c
      /\ \A e \in Requests : Known(e) => e # q
      /\ \A p \in DOMAIN queue :
           \/ p \in DOMAIN extraResponses /\ queue[p] = extraResponses[p]
           \/ queue[p].req = q
  BY <1>1, RequestIsNew
<1>3. \A f \in ToSet(received[c]) : f.req # q
  BY <1>2 DEF DispatchInv, KnownInv
<1>4. \A p \in DOMAIN queue : queue[p].req = q =>
         queue[p] \notin ToSet(received[c]) /\ ~ Answered(q, received[c])
  BY <1>3 DEF Answered
<1>5. Unwritten(queue, index, received)
  BY <1>2, <1>4 DEF Unwritten, DispatchInv, QueueInv
<1> QED BY <1>1, <1>5

\* A UDP loop either sends every ACK and the response, or keeps the list.
LEMMA UdpDispatch ==
  ASSUME DispatchTypeInv, DispatchInv, NEW c \in UdpClients, NEW acks \in Nat, NEW responds \in BOOLEAN,
         UdpRequest(c, acks, responds)
  PROVE  DispatchTypeInv' /\ DispatchInv'
<1>1. PICK q, queue : q = NewRequest(c) /\ queue = AfterHandle(c, acks)
  OBVIOUS
<1>2. c \in Clients /\ TakeRequest(c) /\ UNCHANGED <<task, index>>
  BY DEF UdpRequest, Clients
<1>3. /\ taken' \in [Clients -> Nat]
      /\ q \in Requests /\ q[1] = c /\ Known(q)'
      /\ \A e \in Requests : Known(e) => Known(e)' /\ e # q
      /\ queue \in Seq(AckFrames) /\ Distinct(queue)
      /\ \A f \in ToSet(queue) : f \in AckFrames /\ Known(f.req)'
  BY <1>1, <1>2, RequestIsNew
<1>4. Unwritten(queue, index, received)
  BY <1>1, <1>2, RequestUnwritten
<1>5. \A d \in Clients : received[d] \in Seq(Frames)
                         /\ \A f \in ToSet(received[d]) : f \in Frames /\ f.req \in Requests /\ Known(f.req)
  <2>1. \A d \in Clients : ToSet(received[d]) \subseteq Frames
    BY ToSetMembers DEF DispatchTypeInv
  <2> QED BY <2>1 DEF DispatchTypeInv, DispatchInv, KnownInv, Frames
<1>6. CASE ~ responds
  <2>1. extraResponses' = queue /\ received' = received
    BY <1>1, <1>6 DEF UdpRequest
  <2>2. DispatchTypeInv'
    BY <1>2, <1>3, <2>1 DEF DispatchTypeInv
  <2>3. KnownInv'
    BY <1>3, <1>5, <2>1 DEF KnownInv
  <2>4. QueueInv'
    BY <1>2, <1>3, <1>4, <2>1 DEF QueueInv, Unwritten, DispatchInv
  <2>5. ReceivedInv'
    BY <2>1 DEF DispatchInv, ReceivedInv
  <2> QED BY <2>2, <2>3, <2>4, <2>5 DEF DispatchInv
<1>7. CASE responds
  <2>1. /\ extraResponses' = <<>>
        /\ received' = [d \in Clients |-> IF d \in UdpClients THEN received[d] \o Datagrams(d, queue, q)
                                                             ELSE received[d]]
    BY <1>1, <1>7 DEF UdpRequest
  <2>2. ASSUME NEW d \in UdpClients
        PROVE  /\ received'[d] \in Seq(Frames)
               /\ \A f \in ToSet(received'[d]) : Known(f.req)'
               /\ OwnOnce(d, received'[d]) /\ OnlyOwn(d, received'[d]) /\ AckFirst(received'[d])
    <3>1. d \in Clients /\ d \notin TcpClients
      BY ClientsAssumption DEF Clients
    <3>2. PICK s : s = Datagrams(d, queue, q)
      OBVIOUS
    <3>3. received'[d] = received[d] \o s
      BY <2>1, <3>1, <3>2
    <3>4. /\ s \in Seq(Frames)
          /\ \A f \in ToSet(s) : \/ f \in ToSet(queue) /\ f \in AckFrames /\ f.req[1] = d
                                 \/ q[1] = d /\ f = Resp(q)
          /\ OwnOnce(d, s) /\ OnlyOwn(d, s) /\ AckFirst(s)
      BY <1>3, <3>2, DatagramsSent
    <3>5. \A f \in ToSet(queue) : \E p \in DOMAIN queue : queue[p] = f
      BY <1>3, ToSetMembers, LenProperties
    <3>6. \A f \in ToSet(queue) : f.req[1] = d => /\ f \notin ToSet(received[d])
                                                 /\ ~ Answered(f.req, received[d])
      BY <1>4, <3>1, <3>5 DEF Unwritten
    <3>7. q[1] = d => Resp(q) \notin ToSet(received[d])
      BY <1>3, <1>5, <3>1, FrameKinds
    <3>8. \A f \in ToSet(s) : f \notin ToSet(received[d]) /\ Known(f.req)'
      <4>1. ASSUME NEW f \in ToSet(s), f \in ToSet(queue), f.req[1] = d
            PROVE  f \notin ToSet(received[d]) /\ Known(f.req)'
        BY <1>3, <3>6, <4>1
      <4>2. ASSUME NEW f \in ToSet(s), q[1] = d, f = Resp(q)
            PROVE  f \notin ToSet(received[d]) /\ Known(f.req)'
        BY <1>3, <3>7, <4>2, FrameKinds
      <4> QED BY <3>4, <4>1, <4>2
    <3>9. \A f \in ToSet(s), g \in ToSet(received[d]) :
            f.kind = "ack" /\ g.kind = "resp" => f.req # g.req
      <4> SUFFICES ASSUME NEW f \in ToSet(s), NEW g \in ToSet(received[d]),
                          f.kind = "ack", g.kind = "resp", f.req = g.req
                   PROVE  FALSE
        OBVIOUS
      <4>1. f \in ToSet(queue) /\ f.req[1] = d
        BY <1>3, <3>4, FrameKinds
      <4> QED BY <3>6, <4>1 DEF Answered
    <3>10. OwnOnce(d, received[d]) /\ OnlyOwn(d, received[d]) /\ AckFirst(received[d])
      BY <3>1 DEF DispatchInv, ReceivedInv
    <3>11. /\ received'[d] \in Seq(Frames) /\ ToSet(received'[d]) = ToSet(received[d]) \cup ToSet(s)
           /\ OwnOnce(d, received'[d]) /\ AckFirst(received'[d])
      BY <1>5, <3>1, <3>3, <3>4, <3>8, <3>9, <3>10, FramesConcat
    <3>12. OnlyOwn(d, received'[d])
      BY <3>4, <3>10, <3>11 DEF OnlyOwn
    <3>13. \A f \in ToSet(received'[d]) : Known(f.req)'
      BY <1>3, <1>5, <3>1, <3>8, <3>11
    <3> QED BY <3>11, <3>12, <3>13
  <2>3. \A d \in Clients : d \notin UdpClients => received'[d] = received[d]
    BY <2>1
  <2>4. <<>> \in Seq(AckFrames) /\ ToSet(<<>>) = {} /\ DOMAIN <<>> = {} /\ Distinct(<<>>)
    BY EmptySeq DEF ToSet, Distinct
  <2>5. \A d \in Clients : received'[d] \in Seq(Frames)
    BY <1>5, <2>2, <2>3
  <2>6. DispatchTypeInv'
    <3>1. received' \in [Clients -> Seq(Frames)]
      <4>1. received' = [d \in Clients |-> received'[d]]
        BY <2>1
      <4> QED BY <2>5, <4>1
    <3> QED BY <1>2, <1>3, <2>1, <2>4, <3>1 DEF DispatchTypeInv
  <2>7. KnownInv'
    BY <1>3, <1>5, <2>1, <2>2, <2>3, <2>4 DEF KnownInv
  <2>8. QueueInv'
    BY <1>2, <2>1, <2>4 DEF QueueInv, DispatchInv
  <2>9. ReceivedInv'
    BY <2>2, <2>3 DEF ReceivedInv, DispatchInv
  <2> QED BY <2>6, <2>7, <2>8, <2>9 DEF DispatchInv
<1> QED BY <1>6, <1>7

\* A TCP handler writes the next element of the list to its own connection, or
\* is through and clears the list.
LEMMA TcpWrites ==
  ASSUME DispatchTypeInv, DispatchInv, NEW c \in TcpClients, NEW queue \in Seq(AckFrames),
         taken' \in [Clients -> Nat],
         \A e \in Requests : Known(e) => Known(e)',
         \A f \in ToSet(queue) : Known(f.req)',
         Distinct(queue), Unwritten(queue, index, received),
         SendNextExtra(c, queue, index[c], received[c])
  PROVE  DispatchTypeInv' /\ DispatchInv'
<1>1. c \in Clients /\ c \notin UdpClients
  BY ClientsAssumption DEF Clients
<1>2. PICK i \in Nat : i = index[c]
  BY DEF DispatchTypeInv
<1>3. \A d \in Clients : received[d] \in Seq(Frames)
                         /\ \A f \in ToSet(received[d]) : f \in Frames /\ f.req \in Requests /\ Known(f.req)
  <2>1. \A d \in Clients : ToSet(received[d]) \subseteq Frames
    BY ToSetMembers DEF DispatchTypeInv
  <2> QED BY <2>1 DEF DispatchTypeInv, DispatchInv, KnownInv, Frames
<1>4. CASE i < Len(queue)
  <2>1. PICK n \in Nat : n = Len(queue) /\ DOMAIN queue = 1 .. n
    BY LenProperties
  <2>2. PICK e \in AckFrames : e = queue[i + 1] /\ e \in ToSet(queue)
    BY <1>2, <1>4, <2>1, ToSetMembers
  <2>3. /\ received' = [received EXCEPT ![c] = Append(received[c], e)]
        /\ task' = [task EXCEPT ![c] = "extraDrain"]
        /\ index' = [index EXCEPT ![c] = i + 1]
        /\ extraResponses' = queue
    BY <1>2, <1>4, <2>2 DEF SendNextExtra
  <2>4. /\ \A d \in Clients : received'[d] = IF d = c THEN Append(received[c], e) ELSE received[d]
        /\ \A d \in TcpClients : index'[d] = IF d = c THEN i + 1 ELSE index[d]
        /\ \A d \in TcpClients : task'[d] = IF d = c THEN "extraDrain" ELSE task[d]
    BY <2>3 DEF DispatchTypeInv
  <2>5. e.req[1] = c => e \notin ToSet(received[c])
    <3>1. i + 1 \in DOMAIN queue /\ ~ (i + 1 <= i)
      BY <1>2, <1>4, <2>1
    <3> QED BY <1>2, <2>2, <3>1 DEF Unwritten
  <2>6. /\ received'[c] \in Seq(Frames) /\ ToSet(received'[c]) = ToSet(received[c]) \cup {e}
        /\ OwnOnce(c, received'[c])
    <3>1. e \in Frames
      BY AckFields
    <3>2. received[c] \in Seq(Frames) /\ OwnOnce(c, received[c])
      BY <1>1, <1>3 DEF DispatchInv, ReceivedInv
    <3>3. LET t == Append(received[c], e) IN
          /\ t \in Seq(Frames) /\ ToSet(t) = ToSet(received[c]) \cup {e}
          /\ OwnOnce(c, t)
      BY <2>5, <3>1, <3>2, FrameAppended
    <3>4. received'[c] = Append(received[c], e)
      BY <1>1, <2>4
    <3> QED BY <3>3, <3>4
  <2>7. DispatchTypeInv'
    BY <1>1, <2>3, <2>6 DEF DispatchTypeInv, Tasks
  <2>8. KnownInv'
    <3>1. \A d \in Clients : \A f \in ToSet(received'[d]) : Known(f.req)'
      BY <1>3, <2>2, <2>4, <2>6
    <3> QED BY <2>3, <3>1 DEF KnownInv
  <2>9. QueueInv'
    <3>1. ASSUME NEW p \in DOMAIN queue, NEW f, f = queue[p], NEW d, d = f.req[1]
          PROVE  /\ (d \in TcpClients /\ p <= index'[d]) \/ f \notin ToSet(received'[d])
                 /\ d \in UdpClients => ~ Answered(f.req, received'[d])
      <4>1. p \in 1 .. n /\ f \in AckFrames /\ d \in Clients
        BY <2>1, <3>1, AckFields
      <4>2. CASE d # c
        BY <2>4, <3>1, <4>1, <4>2 DEF Unwritten
      <4>3. CASE d = c /\ p <= i + 1
        BY <1>1, <2>4, <4>3
      <4>4. CASE d = c /\ ~ (p <= i + 1)
        <5>1. f \notin ToSet(received[c])
          <6>1. p \in DOMAIN queue /\ ~ (c \in TcpClients /\ p <= index[c])
            BY <1>2, <2>1, <4>1, <4>4
          <6> QED BY <3>1, <4>4, <6>1 DEF Unwritten
        <5>2. f # e
          <6>1. i + 1 \in 1 .. n
            BY <1>2, <1>4, <2>1
          <6> QED BY <1>2, <2>1, <2>2, <3>1, <4>1, <4>4, <6>1 DEF Distinct
        <5> QED BY <1>1, <2>6, <4>4, <5>1, <5>2
      <4> QED BY <4>2, <4>3, <4>4
    <3>2. \A d \in TcpClients : task'[d] = "read" => index'[d] = 0
      BY <2>4 DEF DispatchInv, QueueInv
    <3> QED BY <2>3, <3>1, <3>2 DEF QueueInv
  <2>10. ReceivedInv'
    <3>1. \A d \in Clients : OwnOnce(d, received'[d])
      BY <2>4, <2>6 DEF ReceivedInv, DispatchInv
    <3>2. \A d \in UdpClients : received'[d] = received[d]
      BY <1>1, <2>4 DEF Clients
    <3>3. \A d \in UdpClients : OnlyOwn(d, received'[d]) /\ AckFirst(received'[d])
      BY <3>2 DEF ReceivedInv, DispatchInv
    <3> QED BY <3>1, <3>3 DEF ReceivedInv
  <2> QED BY <2>7, <2>8, <2>9, <2>10 DEF DispatchInv
<1>5. CASE ~ (i < Len(queue))
  <2>1. /\ received' = [received EXCEPT ![c] = received[c]]
        /\ task' = [task EXCEPT ![c] = "read"]
        /\ index' = [index EXCEPT ![c] = 0]
        /\ extraResponses' = <<>>
    BY <1>2, <1>5 DEF SendNextExtra, Cleared, Rewound
  <2>2. received' = received
    BY <2>1 DEF DispatchTypeInv
  <2>3. <<>> \in Seq(AckFrames) /\ ToSet(<<>>) = {} /\ DOMAIN <<>> = {} /\ Distinct(<<>>)
    BY EmptySeq DEF ToSet, Distinct
  <2>4. DispatchTypeInv'
    BY <2>1, <2>2, <2>3 DEF DispatchTypeInv, Tasks
  <2>5. KnownInv'
    BY <1>3, <2>1, <2>2, <2>3 DEF KnownInv
  <2>6. QueueInv'
    <3>1. \A d \in TcpClients : task'[d] = "read" => index'[d] = 0
      BY <2>1 DEF DispatchTypeInv, DispatchInv, QueueInv
    <3> QED BY <2>1, <2>3, <3>1 DEF QueueInv
  <2>7. ReceivedInv'
    BY <2>2 DEF ReceivedInv, DispatchInv
  <2> QED BY <2>4, <2>5, <2>6, <2>7 DEF DispatchInv
<1> QED BY <1>4, <1>5

\* A TCP handler answers, or turns to the list when there is no response.
LEMMA TcpDispatch ==
  ASSUME DispatchTypeInv, DispatchInv, NEW c \in TcpClients, NEW acks \in Nat, NEW responds \in BOOLEAN,
         TcpRequest(c, acks, responds)
  PROVE  DispatchTypeInv' /\ DispatchInv'
<1>1. PICK q, queue : q = NewRequest(c) /\ queue = AfterHandle(c, acks)
  OBVIOUS
<1>2. c \in Clients /\ c \notin UdpClients /\ TakeRequest(c) /\ task[c] = "read" /\ index[c] = 0
  BY ClientsAssumption DEF TcpRequest, Clients, DispatchInv, QueueInv
<1>3. /\ taken' \in [Clients -> Nat]
      /\ q \in Requests /\ q[1] = c /\ Known(q)'
      /\ \A e \in Requests : Known(e) => Known(e)' /\ e # q
      /\ queue \in Seq(AckFrames) /\ Distinct(queue)
      /\ \A f \in ToSet(queue) : f \in AckFrames /\ Known(f.req)'
  BY <1>1, <1>2, RequestIsNew
<1>4. Unwritten(queue, index, received)
  BY <1>1, <1>2, RequestUnwritten
<1>5. CASE ~ responds
  <2>1. SendNextExtra(c, queue, index[c], received[c])
    BY <1>1, <1>2, <1>5 DEF TcpRequest
  <2> QED BY <1>3, <1>4, <2>1, TcpWrites
<1>6. CASE responds
  <2>1. /\ received' = [received EXCEPT ![c] = Append(received[c], Resp(q))]
        /\ task' = [task EXCEPT ![c] = "respDrain"]
        /\ extraResponses' = queue /\ index' = index
    BY <1>1, <1>6 DEF TcpRequest
  <2>2. /\ \A d \in Clients : received'[d] = IF d = c THEN Append(received[c], Resp(q)) ELSE received[d]
        /\ \A d \in TcpClients : task'[d] = IF d = c THEN "respDrain" ELSE task[d]
    BY <2>1 DEF DispatchTypeInv
  <2>3. \A d \in Clients : /\ received[d] \in Seq(Frames)
                           /\ \A f \in ToSet(received[d]) : f \in Frames /\ f.req \in Requests /\ Known(f.req)
    <3>1. \A d \in Clients : ToSet(received[d]) \subseteq Frames
      BY ToSetMembers DEF DispatchTypeInv
    <3> QED BY <3>1 DEF DispatchTypeInv, DispatchInv, KnownInv, Frames
  <2>4. /\ received'[c] \in Seq(Frames) /\ ToSet(received'[c]) = ToSet(received[c]) \cup {Resp(q)}
        /\ OwnOnce(c, received'[c])
    <3>1. Resp(q) \in Frames /\ Resp(q).req = q /\ Resp(q) \notin ToSet(received[c])
      BY <1>2, <1>3, <2>3, FrameKinds
    <3>2. received[c] \in Seq(Frames) /\ OwnOnce(c, received[c])
      BY <1>2, <2>3 DEF DispatchInv, ReceivedInv
    <3> QED BY <1>2, <2>2, <3>1, <3>2, FrameAppended
  <2>5. DispatchTypeInv'
    BY <1>2, <1>3, <2>1, <2>4 DEF DispatchTypeInv, Tasks
  <2>6. KnownInv'
    <3>1. \A d \in Clients : \A f \in ToSet(received'[d]) : Known(f.req)'
      BY <1>3, <2>2, <2>3, <2>4, FrameKinds
    <3> QED BY <1>3, <2>1, <3>1 DEF KnownInv
  <2>7. QueueInv'
    <3>1. ASSUME NEW p \in DOMAIN queue, NEW f, f = queue[p], NEW d, d = f.req[1]
          PROVE  /\ (d \in TcpClients /\ p <= index[d]) \/ f \notin ToSet(received'[d])
                 /\ d \in UdpClients => ~ Answered(f.req, received'[d])
      <4>1. f \in AckFrames /\ f.kind = "ack" /\ d \in Clients
        BY <1>3, <3>1, LenProperties, AckFields
      <4>2. CASE d # c
        BY <1>4, <2>2, <3>1, <4>1, <4>2 DEF Unwritten
      <4>3. CASE d = c
        <5>1. f # Resp(q)
          BY <1>3, <4>1, FrameKinds
        <5> QED BY <1>2, <1>4, <2>4, <3>1, <4>3, <5>1 DEF Unwritten
      <4> QED BY <4>2, <4>3
    <3>2. \A d \in TcpClients : task'[d] = "read" => index[d] = 0
      BY <2>2 DEF DispatchInv, QueueInv
    <3> QED BY <1>3, <2>1, <3>1, <3>2 DEF QueueInv
  <2>8. ReceivedInv'
    <3>1. \A d \in Clients : OwnOnce(d, received'[d])
      BY <2>2, <2>4 DEF ReceivedInv, DispatchInv
    <3>2. \A d \in UdpClients : received'[d] = received[d]
      BY <1>2, <2>2 DEF Clients
    <3>3. \A d \in UdpClients : OnlyOwn(d, received'[d]) /\ AckFirst(received'[d])
      BY <3>2 DEF ReceivedInv, DispatchInv
    <3> QED BY <3>1, <3>3 DEF ReceivedInv
  <2> QED BY <2>5, <2>6, <2>7, <2>8 DEF DispatchInv
<1> QED BY <1>5, <1>6

\* The dispatch starts in its invariant.
LEMMA InitDispatch == DispatchInit => DispatchTypeInv /\ DispatchInv
<1> SUFFICES ASSUME DispatchInit PROVE DispatchTypeInv /\ DispatchInv
  OBVIOUS
<1>1. /\ <<>> \in Seq(AckFrames) /\ <<>> \in Seq(Frames) /\ ToSet(<<>>) = {}
      /\ DOMAIN <<>> = {} /\ Distinct(<<>>)
  BY EmptySeq DEF ToSet, Distinct
<1>2. DispatchTypeInv
  BY <1>1 DEF DispatchInit, DispatchTypeInv, Tasks
<1>3. \A c \in Clients : received[c] = <<>>
  BY DEF DispatchInit
<1>4. KnownInv
  BY <1>1, <1>3 DEF DispatchInit, KnownInv
<1>5. QueueInv
  BY <1>1 DEF DispatchInit, QueueInv
<1>6. ReceivedInv
  BY <1>1, <1>3 DEF ReceivedInv, OwnOnce, OnlyOwn, AckFirst, Clients
<1> QED BY <1>2, <1>4, <1>5, <1>6 DEF DispatchInv

\* Every request, delivery and close keeps the invariant of the dispatch.
LEMMA NextDispatch == DispatchTypeInv /\ DispatchInv /\ [DispatchNext]_dispatchVars => DispatchTypeInv' /\ DispatchInv'
<1> SUFFICES ASSUME DispatchTypeInv, DispatchInv, [DispatchNext]_dispatchVars PROVE DispatchTypeInv' /\ DispatchInv'
  OBVIOUS
<1>1. ASSUME NEW c \in UdpClients, NEW acks \in Nat, NEW responds \in BOOLEAN,
             UdpRequest(c, acks, responds)
      PROVE  DispatchTypeInv' /\ DispatchInv'
  BY <1>1, UdpDispatch
<1>2. ASSUME NEW c \in TcpClients, NEW acks \in Nat, NEW responds \in BOOLEAN,
             TcpRequest(c, acks, responds)
      PROVE  DispatchTypeInv' /\ DispatchInv'
  BY <1>2, TcpDispatch
<1>3. ASSUME NEW c \in TcpClients, TcpDrained(c) PROVE DispatchTypeInv' /\ DispatchInv'
  <2>1. extraResponses \in Seq(AckFrames) /\ taken' = taken
        /\ SendNextExtra(c, extraResponses, index[c], received[c])
    BY <1>3 DEF TcpDrained, DispatchTypeInv
  <2>2. /\ taken' \in [Clients -> Nat]
        /\ \A e \in Requests : Known(e) => Known(e)'
        /\ \A f \in ToSet(extraResponses) : Known(f.req)'
    BY <2>1 DEF DispatchTypeInv, DispatchInv, KnownInv, Known
  <2>3. Distinct(extraResponses) /\ Unwritten(extraResponses, index, received)
    BY DEF DispatchInv, QueueInv, Unwritten
  <2> QED BY <2>1, <2>2, <2>3, TcpWrites
<1>4. ASSUME NEW c \in TcpClients, TcpCloses(c) PROVE DispatchTypeInv' /\ DispatchInv'
  <2>1. \A d \in TcpClients : task'[d] = "read" => task[d] = "read"
    BY <1>4 DEF TcpCloses, DispatchTypeInv
  <2>2. DispatchTypeInv'
    BY <1>4 DEF TcpCloses, DispatchTypeInv, Tasks
  <2>3. KnownInv'
    BY <1>4 DEF TcpCloses, DispatchInv, KnownInv, Known
  <2>4. QueueInv'
    BY <1>4, <2>1 DEF TcpCloses, DispatchInv, QueueInv
  <2>5. ReceivedInv'
    BY <1>4 DEF TcpCloses, DispatchInv, ReceivedInv
  <2> QED BY <2>2, <2>3, <2>4, <2>5 DEF DispatchInv
<1>5. ASSUME UNCHANGED dispatchVars PROVE DispatchTypeInv' /\ DispatchInv'
  BY <1>5 DEF dispatchVars, DispatchTypeInv, DispatchInv, KnownInv, Known, QueueInv, ReceivedInv
<1>6. 0 .. MaxAcks \subseteq Nat
  BY BoundsAssumption
<1> QED BY <1>1, <1>2, <1>3, <1>4, <1>5, <1>6 DEF DispatchNext

\* The types and the invariant of the dispatch hold always.
LEMMA DispatchHolds == DispatchSpec => [](DispatchTypeInv /\ DispatchInv)
<1>1. DispatchInit => DispatchTypeInv /\ DispatchInv
  BY InitDispatch
<1>2. DispatchTypeInv /\ DispatchInv /\ [DispatchNext]_dispatchVars => DispatchTypeInv' /\ DispatchInv'
  BY NextDispatch
<1> QED BY <1>1, <1>2, PTL DEF DispatchSpec

-----------------------------------------------------------------------------
(* What the clients receive                                                *)

\* However many ACKs a request queues and however many loops iterate over, pop
\* from and clear the one list, no client receives one of its own ACKs twice.
THEOREM AckedOnce == DispatchSpec => []AckAtMostOnce
<1>1. DispatchInv => AckAtMostOnce
  BY DEF DispatchInv, ReceivedInv, OwnOnce, AckAtMostOnce
<1> QED BY <1>1, DispatchHolds, PTL

\* A client served over UDP receives no ACK that was built for another.
THEOREM OwnersAcked == DispatchSpec => []UdpAckToOwner
<1>1. DispatchTypeInv /\ DispatchInv => UdpAckToOwner
  <2> SUFFICES ASSUME DispatchTypeInv, DispatchInv, NEW c \in UdpClients, NEW i \in DOMAIN received[c]
               PROVE  received[c][i].req[1] = c
    BY DEF UdpAckToOwner, AckIsMine
  <2>1. received[c] \in Seq(Frames)
    BY DEF DispatchTypeInv, Clients
  <2>2. received[c][i] \in ToSet(received[c])
    BY DEF ToSet
  <2> QED BY <2>2 DEF DispatchInv, ReceivedInv, OnlyOwn
<1> QED BY <1>1, DispatchHolds, PTL

\* A client served over UDP receives the ACK of a request before the response,
\* whatever the TCP handlers do to the list meanwhile.
THEOREM AckedFirst == DispatchSpec => []UdpAckBeforeResp
<1>1. DispatchInv => UdpAckBeforeResp
  BY DEF DispatchInv, ReceivedInv, AckFirst, UdpAckBeforeResp
<1> QED BY <1>1, DispatchHolds, PTL

-----------------------------------------------------------------------------
(* Wakeup                                                                  *)

Fates   == {"queued", "reached", "expired", "failed"}
Entries == [call : Calls, from : Callers, age : Nat]

TypeInv ==
  /\ calls \in 0 .. MaxCalls
  /\ pending \in Seq(Entries)
  /\ fate \in [Calls -> Seq(Fates)]

\* The doorbell is called at most once by what f tells of.
Once(f) == \A i, j \in DOMAIN f : f[i] = "reached" /\ f[j] = "reached" => i = j

\* A frame waits in one entry of the queue; while it does, it has not reached
\* the doorbell nor expired, and nothing has happened to a frame not yet sent.
CallsInv ==
  /\ \A e1, e2 \in ToSet(pending) : e1.call = e2.call => e1 = e2
  /\ \A c \in Calls :
       /\ Once(fate[c])
       /\ c > calls => fate[c] = <<>> /\ ~ IsQueued(c)
       /\ IsQueued(c) => fate[c] # <<>> /\ ToSet(fate[c]) \subseteq {"queued", "failed"}

\* What happens next to a frame.
LEMMA FateAppended ==
  ASSUME NEW f \in Seq(Fates), NEW x \in Fates
  PROVE  /\ Append(f, x) \in Seq(Fates) /\ Append(f, x) # <<>>
         /\ ToSet(Append(f, x)) = ToSet(f) \cup {x}
         /\ Last(Append(f, x)) = x /\ Append(f, x) # f
         /\ Once(f) /\ (x = "reached" => "reached" \notin ToSet(f)) => Once(Append(f, x))
<1> DEFINE g == Append(f, x)
<1>1. /\ Len(f) \in Nat /\ DOMAIN f = 1 .. Len(f)
      /\ g \in Seq(Fates) /\ Len(g) = Len(f) + 1 /\ DOMAIN g = 1 .. Len(f) + 1
      /\ \A i \in 1 .. Len(f) : g[i] = f[i]
      /\ g[Len(f) + 1] = x
  BY AppendProperties, LenProperties
<1>2. ToSet(g) = ToSet(f) \cup {x}
  BY AppendMembers
<1>3. \A i \in 1 .. Len(f) : f[i] \in ToSet(f)
  BY ToSetMembers
<1> HIDE DEF g
<1>4. Last(g) = x
  BY <1>1 DEF Last
<1>5. g # <<>> /\ g # f
  BY <1>1, EmptySeq
<1>6. ASSUME Once(f), x = "reached" => "reached" \notin ToSet(f) PROVE Once(g)
  BY <1>1, <1>3, <1>6 DEF Once
<1> QED BY <1>1, <1>2, <1>4, <1>5, <1>6 DEF g

\* Steps after which the fate of every frame is as it was or one event longer,
\* and a frame is queued only if it was or is new.
LEMMA FatesMove ==
  ASSUME TypeInv, TypeInv', CallsInv, calls <= calls',
         \A e1, e2 \in ToSet(pending') : e1.call = e2.call => e1 = e2,
         \A c \in Calls :
           /\ c > calls' => fate'[c] = fate[c] /\ ~ IsQueued(c)'
           /\ \/ fate'[c] = fate[c] /\ (IsQueued(c)' => IsQueued(c))
              \/ \E x \in Fates :
                   /\ fate'[c] = Append(fate[c], x)
                   /\ x = "reached" => IsQueued(c) \/ fate[c] = <<>>
                   /\ IsQueued(c)' => /\ x \in {"queued", "failed"}
                                      /\ IsQueued(c) \/ fate[c] = <<>>
  PROVE  CallsInv'
<1> SUFFICES ASSUME NEW c \in Calls
             PROVE  /\ Once(fate'[c])
                    /\ c > calls' => fate'[c] = <<>> /\ ~ IsQueued(c)'
                    /\ IsQueued(c)' =>
                         fate'[c] # <<>> /\ ToSet(fate'[c]) \subseteq {"queued", "failed"}
  BY DEF CallsInv, Once
<1>1. /\ fate[c] \in Seq(Fates) /\ c \in Nat /\ calls \in Nat /\ calls' \in Nat
      /\ ToSet(<<>>) = {}
  BY DEF TypeInv, Calls, ToSet
<1>2. /\ Once(fate[c]) /\ (c > calls => fate[c] = <<>>)
      /\ IsQueued(c) => fate[c] # <<>> /\ ToSet(fate[c]) \subseteq {"queued", "failed"}
  BY DEF CallsInv
<1>3. c > calls' => fate'[c] = <<>> /\ ~ IsQueued(c)'
  BY <1>1, <1>2
<1>4. CASE fate'[c] = fate[c] /\ (IsQueued(c)' => IsQueued(c))
  BY <1>2, <1>3, <1>4
<1>5. ASSUME NEW x \in Fates, fate'[c] = Append(fate[c], x),
             x = "reached" => IsQueued(c) \/ fate[c] = <<>>,
             IsQueued(c)' => x \in {"queued", "failed"} /\ (IsQueued(c) \/ fate[c] = <<>>)
      PROVE  /\ Once(fate'[c])
             /\ IsQueued(c)' =>
                  fate'[c] # <<>> /\ ToSet(fate'[c]) \subseteq {"queued", "failed"}
  <2>1. /\ fate'[c] # <<>> /\ ToSet(fate'[c]) = ToSet(fate[c]) \cup {x}
        /\ (x = "reached" => "reached" \notin ToSet(fate[c])) => Once(fate'[c])
    BY <1>1, <1>2, <1>5, FateAppended
  <2> QED BY <1>1, <1>2, <1>5, <2>1
<1> QED BY <1>3, <1>4, <1>5

\* What QueuedNotLost and NotCalledLate ask of a step: how a frame may leave the
\* queue, and what may not happen to one that has waited too long.
LeavesFated ==
  \A c \in Calls : IsQueued(c) /\ ~ IsQueued(c)' =>
    \/ fate'[c] # <<>> /\ Last(fate'[c]) \in {"reached", "expired"}
    \/ fate' = [k \in Calls |-> <<>>]
    \/ via'["doorbell"] # "udp"
NoneLate ==
  \A e \in ToSet(pending) :
    e.age > PendingTimeout => fate'[e.call] # Append(fate[e.call], "reached")

\* A step in which everybody who waits goes on waiting.
LEMMA WaitingFated ==
  ASSUME TypeInv, \A c \in Calls : IsQueued(c) => IsQueued(c)' /\ fate'[c] = fate[c]
  PROVE  LeavesFated /\ NoneLate
<1>1. LeavesFated
  BY DEF LeavesFated
<1>2. NoneLate
  <2> SUFFICES ASSUME NEW e \in ToSet(pending)
               PROVE  fate'[e.call] # Append(fate[e.call], "reached")
    BY DEF NoneLate
  <2>1. e \in Entries
    BY ToSetMembers, LenProperties DEF TypeInv
  <2>2. e.call \in Calls
    BY <2>1 DEF Entries
  <2>3. fate'[e.call] = fate[e.call]
    BY <2>2 DEF IsQueued
  <2>4. fate[e.call] \in Seq(Fates) /\ "reached" \in Fates
    BY <2>2 DEF TypeInv, Fates
  <2> QED BY <2>3, <2>4, FateAppended
<1> QED BY <1>1, <1>2

-----------------------------------------------------------------------------
(* The steps                                                               *)

\* Nothing is queued and nothing has happened to any call.
LEMMA InitWakeup == Init => TypeInv /\ CallsInv
<1> SUFFICES ASSUME Init PROVE TypeInv /\ CallsInv
  OBVIOUS
<1>1. ToSet(<<>>) = {} /\ DOMAIN <<>> = {} /\ \A S : <<>> \in Seq(S)
  BY EmptySeq DEF ToSet
<1>2. MaxCalls \in Nat
  BY LimitsAssumption
<1>3. pending = <<>> /\ calls = 0 /\ fate = [c \in Calls |-> <<>>]
  BY DEF Init
<1> QED BY <1>1, <1>2, <1>3 DEF TypeInv, CallsInv, Once, IsQueued

\* A frame that is routed or queued is a new one.
LEMMA CallWakeup ==
  ASSUME TypeInv, CallsInv, NEW s \in Callers, NEW t, NEW dest, NEW err \in BOOLEAN,
         Call(s, t, dest, err)
  PROVE  /\ TypeInv' /\ CallsInv'
         /\ \A d \in Calls : IsQueued(d) => IsQueued(d)' /\ fate'[d] = fate[d]
<1> DEFINE c == calls + 1
           e == [call |-> c, from |-> s, age |-> 0]
<1>1. /\ calls' = c /\ c \in Calls /\ calls' \in 0 .. MaxCalls /\ calls <= calls'
      /\ \A d \in Calls : d > c => d > calls
      /\ c > calls /\ ~ (c > calls')
  BY LimitsAssumption DEF Call, TypeInv, Calls
<1>2. fate[c] = <<>> /\ ~ IsQueued(c) /\ fate[c] \in Seq(Fates)
  BY <1>1 DEF CallsInv, TypeInv
<1>3. e \in Entries /\ e.call = c
  BY <1>1 DEF Entries
<1> HIDE DEF c, e
<1>4. CASE RouteCalling(c, Target(s, dest), err)
  <2>1. pending' = pending /\ (fate' = fate \/ fate' = [fate EXCEPT ![c] = Append(@, "reached")])
    BY <1>4 DEF RouteCalling
  <2>2. \A d \in Calls : IsQueued(d)' <=> IsQueued(d)
    BY <2>1 DEF IsQueued
  <2>3. \A d \in Calls : \/ fate'[d] = fate[d]
                         \/ d = c /\ fate'[d] = Append(fate[d], "reached")
    BY <2>1 DEF TypeInv
  <2>4. Append(fate[c], "reached") \in Seq(Fates)
    BY <1>2, FateAppended DEF Fates
  <2>5. TypeInv'
    BY <1>1, <2>1, <2>4 DEF TypeInv
  <2>6. "reached" \in Fates
    BY DEF Fates
  <2>7. CallsInv'
    <3>1. \A d \in Calls : d > calls' => fate'[d] = fate[d] /\ ~ IsQueued(d)'
      BY <1>1, <2>2, <2>3 DEF CallsInv
    <3>2. \A e1, e2 \in ToSet(pending') : e1.call = e2.call => e1 = e2
      BY <2>1 DEF CallsInv
    <3>3. \A d \in Calls : \/ fate'[d] = fate[d] /\ (IsQueued(d)' => IsQueued(d))
                           \/ \E x \in Fates :
                                /\ fate'[d] = Append(fate[d], x)
                                /\ x = "reached" => IsQueued(d) \/ fate[d] = <<>>
                                /\ IsQueued(d)' => /\ x \in {"queued", "failed"}
                                                   /\ IsQueued(d) \/ fate[d] = <<>>
      BY <1>2, <2>2, <2>3, <2>6
    <3> QED BY <1>1, <2>5, <3>1, <3>2, <3>3, FatesMove
  <2>8. \A d \in Calls : IsQueued(d) => IsQueued(d)' /\ fate'[d] = fate[d]
    BY <1>2, <2>2, <2>3
  <2> QED BY <2>5, <2>7, <2>8
<1>5. CASE QueueCalling(c, s, err)
  <2>1. pending' = Append(pending, e) /\ fate' = [fate EXCEPT ![c] = Append(@, "queued")]
    BY <1>5 DEF QueueCalling, Queue, e
  <2>2. pending' \in Seq(Entries) /\ ToSet(pending') = ToSet(pending) \cup {e}
    BY <1>3, <2>1, AppendMembers DEF TypeInv
  <2>3. \A d \in Calls : IsQueued(d)' <=> IsQueued(d) \/ d = c
    BY <1>3, <2>2 DEF IsQueued
  <2>4. \A d \in Calls : fate'[d] = IF d = c THEN Append(fate[c], "queued") ELSE fate[d]
    BY <1>1, <2>1 DEF TypeInv
  <2>5. "queued" \in Fates /\ Append(fate[c], "queued") \in Seq(Fates)
    BY <1>2, FateAppended DEF Fates
  <2>6. TypeInv'
    BY <1>1, <2>1, <2>2, <2>5 DEF TypeInv
  <2>7. CallsInv'
    <3>1. \A d \in Calls : d > calls' => fate'[d] = fate[d] /\ ~ IsQueued(d)'
      BY <1>1, <2>3, <2>4 DEF CallsInv
    <3>2. \A e1, e2 \in ToSet(pending') : e1.call = e2.call => e1 = e2
      BY <1>2, <1>3, <2>2 DEF CallsInv, IsQueued
    <3>3. \A d \in Calls : \/ fate'[d] = fate[d] /\ (IsQueued(d)' => IsQueued(d))
                           \/ \E x \in Fates :
                                /\ fate'[d] = Append(fate[d], x)
                                /\ x = "reached" => IsQueued(d) \/ fate[d] = <<>>
                                /\ IsQueued(d)' => /\ x \in {"queued", "failed"}
                                                   /\ IsQueued(d) \/ fate[d] = <<>>
      BY <1>2, <2>3, <2>4, <2>5
    <3> QED BY <1>1, <2>6, <3>1, <3>2, <3>3, FatesMove
  <2>8. \A d \in Calls : IsQueued(d) => IsQueued(d)' /\ fate'[d] = fate[d]
    BY <1>2, <2>3, <2>4
  <2> QED BY <2>6, <2>7, <2>8
<1> QED BY <1>4, <1>5 DEF Call, c

\* What is left of the queue when the doorbell certifies.
LEMMA LiveMembers ==
  ASSUME TypeInv
  PROVE  /\ Live \in Seq(Entries)
         /\ \A e : e \in ToSet(Live) <=> e \in ToSet(pending) /\ ~ Expired(e)
<1> DEFINE S == {e \in ToSet(pending) : ~ Expired(e)}
<1>1. pending \in Seq(Entries)
  BY DEF TypeInv
<1>2. Select(pending, S) \in Seq(Entries) /\ ToSet(Select(pending, S)) = ToSet(pending) \cap S
  BY <1>1, SelectMembers
<1> QED BY <1>2 DEF Live

\* An entry stays exactly if it has not expired and its own sendto raises.
LEMMA RemainingMembers ==
  ASSUME TypeInv, NEW t, NEW failing
  PROVE  /\ Remaining(t, failing) \in Seq(Entries)
         /\ \A e : e \in ToSet(Remaining(t, failing)) <=>
                   e \in ToSet(Live) /\ Raises(e.call, t, failing)
<1> DEFINE S == {e \in ToSet(Live) : Raises(e.call, t, failing)}
<1>1. pending \in Seq(Entries)
  BY DEF TypeInv
<1>2. Select(pending, S) \in Seq(Entries) /\ ToSet(Select(pending, S)) = ToSet(pending) \cap S
  BY <1>1, SelectMembers
<1> QED BY <1>2, LiveMembers DEF Remaining

\* Every entry has its own fate, whatever happens to the others: it expires, or
\* is delivered, or stays because its own sendto raised, or is sent nowhere.
LEMMA EntryFate ==
  ASSUME TypeInv, CallsInv, NEW t, NEW failing, DeliverPending(t, failing), NEW c \in Calls
  PROVE  LET Had  == \E e \in ToSet(pending) : e.call = c /\ Expired(e)
             Sent == t = "udp" /\ c \notin failing
         IN
         /\ Had => IsQueued(c) /\ ~ IsQueued(c)' /\ fate'[c] = Append(fate[c], "expired")
         /\ ~ Had /\ IsQueued(c) /\ Sent =>
              ~ IsQueued(c)' /\ fate'[c] = Append(fate[c], "reached")
         /\ ~ Had /\ ~ (IsQueued(c) /\ Sent) =>
              /\ IsQueued(c)' <=> IsQueued(c) /\ Raises(c, t, failing)
              /\ \/ fate'[c] = fate[c]
                 \/ IsQueued(c)' /\ fate'[c] = Append(fate[c], "failed")
<1> DEFINE Had   == \E e \in ToSet(pending) : e.call = c /\ Expired(e)
           Waits == \E e \in ToSet(Live) : e.call = c
           Sent  == t = "udp" /\ c \notin failing
           Now   == \E e \in ToSet(Live) : e.call = c /\ t = "udp" /\ c \notin failing
           Fails == \E e \in ToSet(Live) : e.call = c /\ Raises(c, t, failing)
                                                   /\ Last(fate[c]) = "queued"
<1>1. fate'[c] = CASE Had   -> Append(fate[c], "expired")
                   [] Now   -> Append(fate[c], "reached")
                   [] Fails -> Append(fate[c], "failed")
                   [] OTHER -> fate[c]
  BY DEF DeliverPending
<1>2. /\ IsQueued(c) <=> Had \/ Waits
      /\ ~ (Had /\ Waits)
      /\ IsQueued(c)' <=> Waits /\ Raises(c, t, failing)
  <2>1. \A e1, e2 \in ToSet(pending) : e1.call = c /\ e2.call = c => e1 = e2
    BY DEF CallsInv
  <2>2. \A e : e \in ToSet(pending') <=> e \in ToSet(Live) /\ Raises(e.call, t, failing)
    BY RemainingMembers DEF DeliverPending
  <2> QED BY <2>1, <2>2, LiveMembers DEF IsQueued
<1>3. (Now <=> Waits /\ Sent) /\ (Fails => Waits /\ Raises(c, t, failing))
  OBVIOUS
<1>4. Sent => ~ Raises(c, t, failing)
  BY DEF Raises
<1> HIDE DEF Had, Waits, Sent, Now, Fails
<1>5. /\ Had => IsQueued(c) /\ ~ IsQueued(c)' /\ fate'[c] = Append(fate[c], "expired")
      /\ ~ Had /\ IsQueued(c) /\ Sent =>
           ~ IsQueued(c)' /\ fate'[c] = Append(fate[c], "reached")
      /\ ~ Had /\ ~ (IsQueued(c) /\ Sent) =>
           /\ IsQueued(c)' <=> IsQueued(c) /\ Raises(c, t, failing)
           /\ \/ fate'[c] = fate[c]
              \/ IsQueued(c)' /\ fate'[c] = Append(fate[c], "failed")
  <2>1. CASE Had
    BY <1>1, <1>2, <1>3, <2>1
  <2>2. CASE ~ Had /\ Now
    BY <1>1, <1>2, <1>3, <1>4, <2>2
  <2>3. CASE ~ Had /\ ~ Now /\ Fails
    BY <1>1, <1>2, <1>3, <2>3
  <2>4. CASE ~ Had /\ ~ Now /\ ~ Fails
    BY <1>1, <1>2, <1>3, <2>4
  <2> QED BY <2>1, <2>2, <2>3, <2>4
<1> QED BY <1>5 DEF Had, Sent

\* Who leaves the queue on a delivery over transport t, and how.
Delivered(t) ==
  \A c \in Calls :
    /\ IsQueued(c) /\ ~ IsQueued(c)' =>
         \/ fate'[c] # <<>> /\ Last(fate'[c]) \in {"reached", "expired"}
         \/ t # "udp"
    /\ (\E e \in ToSet(pending) : e.call = c /\ Expired(e)) =>
         fate'[c] = Append(fate[c], "expired")

\* What is queued is delivered, expires, fails, stays or has no route.
LEMMA DeliverWakeup ==
  ASSUME TypeInv, CallsInv, NEW t, NEW failing, UNCHANGED calls, DeliverPending(t, failing)
  PROVE  TypeInv' /\ CallsInv' /\ Delivered(t)
<1>1. Fates = {"queued", "reached", "expired", "failed"}
  BY DEF Fates
<1>2. \A c \in Calls :
        /\ IsQueued(c)' => IsQueued(c)
        /\ \/ fate'[c] = fate[c]
           \/ \E x \in Fates : /\ fate'[c] = Append(fate[c], x)
                               /\ x = "reached" => IsQueued(c)
                               /\ IsQueued(c)' => x = "failed"
  BY <1>1, EntryFate
<1>3. TypeInv'
  <2>1. pending' \in Seq(Entries)
    BY RemainingMembers DEF DeliverPending
  <2>2. \A c \in Calls : fate'[c] \in Seq(Fates)
    <3> SUFFICES ASSUME NEW c \in Calls PROVE fate'[c] \in Seq(Fates)
      OBVIOUS
    <3>1. fate[c] \in Seq(Fates)
      BY DEF TypeInv
    <3>2. CASE fate'[c] = fate[c]
      BY <3>1, <3>2
    <3>3. ASSUME NEW x \in Fates, fate'[c] = Append(fate[c], x) PROVE fate'[c] \in Seq(Fates)
      BY <3>1, <3>3, FateAppended
    <3> QED BY <1>2, <3>2, <3>3
  <2>3. fate' = [c \in Calls |-> fate'[c]]
    BY DEF DeliverPending
  <2> QED BY <2>1, <2>2, <2>3 DEF TypeInv
<1>4. CallsInv'
  <2>1. calls <= calls'
    BY LimitsAssumption DEF TypeInv
  <2>2. \A e1, e2 \in ToSet(pending') : e1.call = e2.call => e1 = e2
    <3>1. \A e \in ToSet(pending') : e \in ToSet(pending)
      BY RemainingMembers, LiveMembers DEF DeliverPending
    <3> QED BY <3>1 DEF CallsInv
  <2>3. \A c \in Calls : c > calls' => fate'[c] = fate[c] /\ ~ IsQueued(c)'
    <3> SUFFICES ASSUME NEW c \in Calls, c > calls' PROVE fate'[c] = fate[c] /\ ~ IsQueued(c)'
      OBVIOUS
    <3>1. ~ IsQueued(c)
      BY DEF CallsInv
    <3> QED BY <3>1, EntryFate
  <2>4. \A c \in Calls : \/ fate'[c] = fate[c] /\ (IsQueued(c)' => IsQueued(c))
                         \/ \E x \in Fates :
                              /\ fate'[c] = Append(fate[c], x)
                              /\ x = "reached" => IsQueued(c) \/ fate[c] = <<>>
                              /\ IsQueued(c)' => /\ x \in {"queued", "failed"}
                                                 /\ IsQueued(c) \/ fate[c] = <<>>
    BY <1>2
  <2> QED BY <1>3, <2>1, <2>2, <2>3, <2>4, FatesMove
<1>5. Delivered(t)
  <2> SUFFICES ASSUME NEW c \in Calls
               PROVE  /\ IsQueued(c) /\ ~ IsQueued(c)' =>
                           \/ fate'[c] # <<>> /\ Last(fate'[c]) \in {"reached", "expired"}
                           \/ t # "udp"
                      /\ (\E e \in ToSet(pending) : e.call = c /\ Expired(e)) =>
                           fate'[c] = Append(fate[c], "expired")
    BY DEF Delivered
  <2>1. \A x \in Fates : Append(fate[c], x) # <<>> /\ Last(Append(fate[c], x)) = x
    BY FateAppended DEF TypeInv
  <2>2. t = "udp" => (Raises(c, t, failing) <=> c \in failing)
    BY DEF Raises
  <2> QED BY <1>1, <2>1, <2>2, EntryFate
<1> QED BY <1>3, <1>4, <1>5

\* CERTIFY of the doorbell delivers, CERTIFY of another device does not.
LEMMA CertifyWakeup ==
  ASSUME TypeInv, CallsInv, DOMAIN via = Devices,
         NEW d \in Devices, NEW t \in Transports, NEW failing, Certify(d, t, failing)
  PROVE  TypeInv' /\ CallsInv' /\ LeavesFated /\ NoneLate
<1>1. UNCHANGED calls /\ via' = [via EXCEPT ![d] = t]
  BY DEF Certify, Register
<1>2. CASE d = "doorbell" /\ DeliverPending(t, failing)
  <2>1. TypeInv' /\ CallsInv' /\ Delivered(t)
    BY <1>1, <1>2, DeliverWakeup
  <2>2. via'["doorbell"] = t
    BY <1>1, <1>2 DEF Devices
  <2>3. LeavesFated
    BY <2>1, <2>2 DEF Delivered, LeavesFated
  <2>4. NoneLate
    <3> SUFFICES ASSUME NEW e \in ToSet(pending), e.age > PendingTimeout
                 PROVE  fate'[e.call] # Append(fate[e.call], "reached")
      BY DEF NoneLate
    <3>1. e \in Entries
      BY ToSetMembers, LenProperties DEF TypeInv
    <3>2. e.call \in Calls /\ Expired(e)
      BY <3>1 DEF Entries, Expired
    <3>3. fate'[e.call] = Append(fate[e.call], "expired")
      BY <2>1, <3>2 DEF Delivered
    <3>4. fate[e.call] \in Seq(Fates) /\ {"reached", "expired"} \subseteq Fates
      BY <3>2 DEF TypeInv, Fates
    <3>5. Last(Append(fate[e.call], "expired")) = "expired"
      BY <3>4, FateAppended
    <3>6. Last(Append(fate[e.call], "reached")) = "reached"
      BY <3>4, FateAppended
    <3> QED BY <3>3, <3>5, <3>6
  <2> QED BY <2>1, <2>3, <2>4
<1>3. CASE UNCHANGED <<pending, fate>>
  <2>1. TypeInv' /\ CallsInv' /\ \A c \in Calls : IsQueued(c) => IsQueued(c)' /\ fate'[c] = fate[c]
    BY <1>1, <1>3 DEF TypeInv, CallsInv, IsQueued
  <2> QED BY <2>1, WaitingFated
<1> QED BY <1>2, <1>3 DEF Certify, Delivers

\* Time makes entries older, and neither adds nor removes one.
LEMMA TickWakeup ==
  ASSUME TypeInv, CallsInv, Tick
  PROVE  /\ TypeInv' /\ CallsInv'
         /\ \A c \in Calls : IsQueued(c) => IsQueued(c)' /\ fate'[c] = fate[c]
<1> DEFINE Aged(e) == [e EXCEPT !.age = Older(@, PendingTimeout + 1)]
<1>1. /\ pending' = [i \in DOMAIN pending |-> Aged(pending[i])]
      /\ UNCHANGED <<calls, fate>>
  BY DEF Tick
<1>2. Len(pending) \in Nat /\ DOMAIN pending = 1 .. Len(pending)
      /\ \A i \in 1 .. Len(pending) : pending[i] \in Entries
  BY LenProperties DEF TypeInv
<1>3. \A e \in Entries : Aged(e) \in Entries /\ Aged(e).call = e.call
  BY LimitsAssumption DEF Entries, Older
<1> HIDE DEF Aged
<1>4. pending' \in Seq(Entries) /\ Len(pending') = Len(pending)
      /\ \A i \in 1 .. Len(pending) : pending'[i] = Aged(pending[i])
  <2>1. PICK n \in Nat : n = Len(pending)
    BY <1>2
  <2>2. pending' = [i \in 1 .. n |-> Aged(pending[i])]
    BY <1>1, <1>2, <2>1
  <2>3. \A i \in 1 .. n : Aged(pending[i]) \in Entries
    BY <1>2, <1>3, <2>1
  <2>4. pending' \in [1 .. n -> Entries]
    BY <2>2, <2>3
  <2> QED BY <2>1, <2>2, <2>4, SeqDef, LenProperties
<1>5. /\ \A e : e \in ToSet(pending) <=> \E i \in 1 .. Len(pending) : pending[i] = e
      /\ \A e : e \in ToSet(pending') <=> \E i \in 1 .. Len(pending) : pending'[i] = e
  BY <1>4, ToSetMembers DEF TypeInv
<1>6. /\ \A e \in ToSet(pending') : \E f \in ToSet(pending) : f \in Entries /\ e = Aged(f)
      /\ \A f \in ToSet(pending) : \E e \in ToSet(pending') : f \in Entries /\ e = Aged(f)
  BY <1>2, <1>4, <1>5
<1>7. \A c \in Calls : IsQueued(c)' <=> IsQueued(c)
  BY <1>3, <1>6 DEF IsQueued
<1>8. \A e1, e2 \in ToSet(pending') : e1.call = e2.call => e1 = e2
  BY <1>3, <1>6 DEF CallsInv
<1> QED BY <1>1, <1>4, <1>7, <1>8 DEF TypeInv, CallsInv

\* A device has one transport, the doorbell too.
ViaInv == DOMAIN via = Devices

\* No step gives a device another number of transports.
LEMMA ViaType == Spec => []ViaInv
<1>1. Init => ViaInv
  BY DEF Init, ViaInv
<1>2. ViaInv /\ [Next]_vars => ViaInv'
  <2> SUFFICES ASSUME DOMAIN via = Devices, [Next]_vars PROVE DOMAIN via' = Devices
    BY DEF ViaInv
  <2>1. ASSUME NEW d, NEW t, Register(d, t) PROVE DOMAIN via' = Devices
    BY <2>1 DEF Register
  <2>2. CASE UNCHANGED via
    BY <2>2
  <2>3. CASE Restart
    BY <2>3 DEF Restart
  <2>4. CASE Tick \/ ChimeWakesDoorbell \/ DoorbellWakes \/ DoorbellSleeps \/ UNCHANGED vars
    BY <2>2, <2>4 DEF Tick, ChimeWakesDoorbell, DoorbellWakes, DoorbellSleeps, vars, registryVars
  <2>5. ASSUME NEW t \in Transports, NEW d \in Devices, Frame(d, t) PROVE DOMAIN via' = Devices
    BY <2>1, <2>5 DEF Frame
  <2>6. ASSUME NEW t \in Transports, Keepalive(t) PROVE DOMAIN via' = Devices
    BY <2>1, <2>6 DEF Keepalive
  <2>7. ASSUME NEW t \in Transports, NEW d \in Devices, NEW failing \in FailingSets,
               Certify(d, t, failing)
        PROVE  DOMAIN via' = Devices
    BY <2>1, <2>7 DEF Certify
  <2>8. ASSUME NEW t \in Transports, NEW s \in Callers, NEW dest \in Dests, NEW err \in SendErrors,
               Call(s, t, dest, err)
        PROVE  DOMAIN via' = Devices
    BY <2>1, <2>8 DEF Call
  <2> QED BY <2>3, <2>4, <2>5, <2>6, <2>7, <2>8 DEF Next
<1> QED BY <1>1, <1>2, PTL DEF Spec

\* Every step keeps what is known of the calls, and takes nobody out of the
\* queue but as LeavesFated says.
LEMMA NextWakeup ==
  TypeInv /\ CallsInv /\ ViaInv /\ [Next]_vars =>
    TypeInv' /\ CallsInv' /\ LeavesFated /\ NoneLate
<1> SUFFICES ASSUME TypeInv, CallsInv, DOMAIN via = Devices, [Next]_vars
             PROVE  TypeInv' /\ CallsInv' /\ LeavesFated /\ NoneLate
  BY DEF ViaInv
<1>1. CASE UNCHANGED <<pending, calls, fate>>
  <2>1. TypeInv' /\ CallsInv' /\ \A c \in Calls : IsQueued(c) => IsQueued(c)' /\ fate'[c] = fate[c]
    BY <1>1 DEF TypeInv, CallsInv, IsQueued
  <2> QED BY <2>1, WaitingFated
<1>2. CASE Restart
  <2>1. ToSet(<<>>) = {} /\ DOMAIN <<>> = {} /\ \A S : <<>> \in Seq(S)
    BY EmptySeq DEF ToSet
  <2>2. pending' = <<>> /\ calls' = calls /\ fate' = [c \in Calls |-> <<>>]
    BY <1>2 DEF Restart
  <2>3. TypeInv' /\ CallsInv' /\ LeavesFated
    BY <2>1, <2>2 DEF TypeInv, CallsInv, Once, IsQueued, LeavesFated
  <2>4. NoneLate
    <3> SUFFICES ASSUME NEW e \in ToSet(pending)
                 PROVE  fate'[e.call] # Append(fate[e.call], "reached")
      BY DEF NoneLate
    <3>1. e \in Entries
      BY ToSetMembers, LenProperties DEF TypeInv
    <3>2. e.call \in Calls
      BY <3>1 DEF Entries
    <3>3. fate[e.call] \in Seq(Fates) /\ "reached" \in Fates /\ fate'[e.call] = <<>>
      BY <2>2, <3>2 DEF TypeInv, Fates
    <3> QED BY <3>3, FateAppended
  <2> QED BY <2>3, <2>4
<1>3. ASSUME NEW t \in Transports,
             \/ \E d \in Devices : Frame(d, t)
             \/ Keepalive(t)
      PROVE  UNCHANGED <<pending, calls, fate>>
  BY <1>3 DEF Frame, Keepalive
<1>4. CASE ChimeWakesDoorbell \/ DoorbellWakes \/ DoorbellSleeps \/ UNCHANGED vars
  <2>1. UNCHANGED <<pending, calls, fate>>
    BY <1>4 DEF ChimeWakesDoorbell, DoorbellWakes, DoorbellSleeps, vars
  <2> QED BY <1>1, <2>1
<1>5. ASSUME NEW t \in Transports, NEW s \in Callers, NEW dest \in Dests, NEW err \in SendErrors,
             Call(s, t, dest, err)
      PROVE  TypeInv' /\ CallsInv' /\ LeavesFated /\ NoneLate
  BY <1>5, CallWakeup, WaitingFated, SendErrorsAssumption
<1>6. CASE Tick
  BY <1>6, TickWakeup, WaitingFated
<1> QED BY <1>1, <1>2, <1>3, <1>4, <1>5, <1>6, CertifyWakeup DEF Next

-----------------------------------------------------------------------------

\* The invariant of the calls.
LEMMA WakeupHolds == Spec => [](TypeInv /\ CallsInv /\ ViaInv)
<1>1. Init => TypeInv /\ CallsInv
  BY InitWakeup
<1>2. TypeInv /\ CallsInv /\ ViaInv /\ [Next]_vars => TypeInv' /\ CallsInv'
  BY NextWakeup
<1> QED BY <1>1, <1>2, ViaType, PTL DEF Spec

\* For every number of calls and every subset of the sends of a delivery that
\* fails: the doorbell is called at most once for one CALLING, routed, queued,
\* retried or delivered late, over UDP, TCP or the LIST port.
THEOREM NeverCalledTwice == Spec => []CalledAtMostOnce
<1>1. CallsInv => CalledAtMostOnce
  BY DEF CallsInv, Once, CalledAtMostOnce
<1> QED BY <1>1, WakeupHolds, PTL

\* Over every mix of transports, a queued CALLING leaves the queue only by
\* reaching the doorbell or by expiring, if the relay is not restarted and the
\* doorbell does not certify where it cannot be sent to.
THEOREM QueueLosesNothing == Spec => QueuedNotLost
<1>1. TypeInv /\ CallsInv /\ ViaInv /\ [Next]_vars => [LeavesFated]_vars
  BY NextWakeup
<1>2. [][LeavesFated]_vars => QueuedNotLost
  BY PTL DEF LeavesFated, QueuedNotLost
<1> QED BY <1>1, <1>2, WakeupHolds, PTL DEF Spec

\* For every limit: a CALLING that waited longer than its timeout is never
\* delivered, however often its earlier sends failed.
THEOREM NeverCalledLate == Spec => NotCalledLate
<1>1. TypeInv /\ CallsInv /\ ViaInv /\ [Next]_vars => [NoneLate]_vars
  BY NextWakeup
<1>2. [][NoneLate]_vars => NotCalledLate
  BY PTL DEF NoneLate, NotCalledLate
<1> QED BY <1>1, <1>2, WakeupHolds, PTL DEF Spec
=============================================================================
