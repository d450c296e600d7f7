--------------------------- MODULE UpstreamProofs ---------------------------
(* Proofs about Upstream, for every number of clients, requests, answers     *)
(* and keepalives.                                                           *)
EXTENDS Upstream, SequenceTheorems, TLAPS

USE AddrsAssumption, LimitsAssumption, BoundsAssumption

-----------------------------------------------------------------------------
(* Whose answer is in which socket                                         *)

Packets   == [to : Nat, kind : {"ack", "resp", "other"}]
CertKinds == {"CERTIFY", "CERTIFY_ACK"}

TypeInv ==
  /\ requests \in Seq(Addrs \X Kinds)
  /\ inbox \subseteq DOMAIN requests
  /\ job \in [request : Nat, stage : Nat, read : Nat]
  /\ job # Idle => /\ job.request \in DOMAIN requests
                   /\ Kind(job.request) \in {"INIT_INFO"} \cup CertKinds
  /\ job = Idle => job.request = 0
  /\ buf \in [Sockets -> Seq(Packets)]
  /\ upstream_to_client \in [TermIds -> Addrs \cup {NoAddr}]

\* The client of a term id is one of its own addresses, unless it is the id of
\* frames that have none.
ClientInv ==
  \A t \in TermIds :
    LET client == upstream_to_client[t]
    IN client = NoAddr \/ (client \in Addrs /\ (t = "none" \/ TermId(client) = t))

\* Request n may have an answer in socket s: the socket of its address, the one
\* its own CERTIFY waits on, or the one of its term id, which then has a client.
Fits(n, s) ==
  /\ n \in DOMAIN requests
  /\ \/ s = <<"frame", Addr(n)>>
     \/ s = Certifying /\ n = job.request /\ Kind(n) \in CertKinds
     \/ s = <<"upstream", TermOf(n)>> /\ upstream_to_client[TermOf(n)] # NoAddr

PacketsFit(b) == \A s \in Sockets : \A i \in DOMAIN b[s] : Fits(b[s][i].to, s)
Placed(b)     == b \in [Sockets -> Seq(Packets)] /\ PacketsFit(b)

FitInv ==
  /\ \A x \in asked : Fits(x[1], x[2])
  /\ PacketsFit(buf)

\* An extra response is an ACK for a CERTIFY of the address it is queued for.
ExtraInv ==
  \A e \in extras :
    e.to \in DOMAIN requests /\ e.addr = Addr(e.to) /\ Kind(e.to) \in CertKinds

GivenInv ==
  /\ \A g \in given : g.meant \in DOMAIN requests
  /\ ClientsApart

ApartInv == TypeInv /\ ClientInv /\ FitInv /\ ExtraInv /\ GivenInv

\* A packet added at the end of a socket it fits.
LEMMA ArrivesFits ==
  ASSUME NEW p \in Packets, NEW s \in Sockets, TypeInv, FitInv, Fits(p.to, s),
         NEW b, b = [buf EXCEPT ![s] = Append(@, p)]
  PROVE  Placed(b)
<1>1. buf[s] \in Seq(Packets)
  BY DEF TypeInv
<1>2. b = [buf EXCEPT ![s] = Append(buf[s], p)]
  OBVIOUS
<1>3. b \in [Sockets -> Seq(Packets)]
  BY <1>1, <1>2, AppendProperties DEF TypeInv
<1>4. ASSUME NEW r \in Sockets, NEW i \in DOMAIN b[r] PROVE Fits(b[r][i].to, r)
  <2>1. CASE r # s
    BY <1>2, <1>4, <2>1 DEF TypeInv, FitInv, PacketsFit
  <2>2. CASE r = s
    <3>1. b[r] = Append(buf[s], p)
      BY <1>2, <2>2 DEF TypeInv
    <3>2. /\ DOMAIN b[r] = 1 .. Len(buf[s]) + 1
          /\ DOMAIN buf[s] = 1 .. Len(buf[s])
          /\ Len(buf[s]) \in Nat
          /\ \A j \in 1 .. Len(buf[s]) : b[r][j] = buf[s][j]
          /\ b[r][Len(buf[s]) + 1] = p
      <4>1. PICK q, c : q \in Seq(Packets) /\ q = buf[s] /\ c = Append(q, p)
        BY <1>1
      <4>2. /\ c \in Seq(Packets) /\ Len(c) = Len(q) + 1
            /\ \A j \in 1 .. Len(q) : c[j] = q[j]
            /\ c[Len(q) + 1] = p
        BY <4>1, AppendProperties
      <4>3. Len(q) \in Nat /\ DOMAIN q = 1 .. Len(q) /\ DOMAIN c = 1 .. Len(c)
        BY <4>2, LenProperties
      <4> QED BY <3>1, <4>1, <4>2, <4>3
    <3>3. i \in 1 .. Len(buf[s]) \/ i = Len(buf[s]) + 1
      <4>1. i \in 1 .. Len(buf[s]) + 1 /\ Len(buf[s]) \in Nat
        BY <1>4, <2>2, <3>2
      <4> QED BY <4>1
    <3>4. CASE i \in 1 .. Len(buf[s])
      BY <2>2, <3>2, <3>4 DEF FitInv, PacketsFit
    <3>5. CASE i = Len(buf[s]) + 1
      BY <2>2, <3>2, <3>5
    <3> QED BY <3>3, <3>4, <3>5
  <2> QED BY <2>1, <2>2
<1> QED BY <1>3, <1>4 DEF Placed, PacketsFit

\* The front of a socket fits there, and so does what is behind it.
LEMMA TakenFits ==
  ASSUME NEW s \in Sockets, TypeInv, FitInv, buf[s] # <<>>,
         NEW b, b = [buf EXCEPT ![s] = Tail(@)]
  PROVE  Head(buf[s]) \in Packets /\ Fits(Head(buf[s]).to, s) /\ Placed(b)
<1>1. buf[s] \in Seq(Packets)
  BY DEF TypeInv
<1>2. /\ Len(buf[s]) \in Nat /\ Len(buf[s]) # 0 /\ DOMAIN buf[s] = 1 .. Len(buf[s])
      /\ Head(buf[s]) = buf[s][1] /\ Head(buf[s]) \in Packets
      /\ Tail(buf[s]) \in Seq(Packets)
      /\ DOMAIN Tail(buf[s]) = 1 .. Len(buf[s]) - 1
      /\ \A j \in 1 .. Len(buf[s]) - 1 : Tail(buf[s])[j] = buf[s][j + 1]
  BY <1>1, LenProperties, HeadTailProperties, EmptySeq
<1>3. Fits(Head(buf[s]).to, s)
  BY <1>2 DEF FitInv, PacketsFit
<1>4. b \in [Sockets -> Seq(Packets)]
  BY <1>2 DEF TypeInv
<1>5. ASSUME NEW r \in Sockets, NEW i \in DOMAIN b[r] PROVE Fits(b[r][i].to, r)
  <2>1. CASE r # s
    BY <1>5, <2>1 DEF TypeInv, FitInv, PacketsFit
  <2>2. CASE r = s
    <3>1. PICK k \in Nat : k = Len(buf[s])
      BY <1>2
    <3>2. PICK t : t = Tail(buf[s])
      OBVIOUS
    <3>3. /\ DOMAIN t = 1 .. k - 1 /\ DOMAIN buf[s] = 1 .. k
          /\ \A j \in 1 .. k - 1 : t[j] = buf[s][j + 1]
      BY <1>2, <3>1, <3>2
    <3>4. b[r] = t
      BY <2>2, <3>2 DEF TypeInv
    <3>5. i \in 1 .. k - 1
      BY <1>5, <3>3, <3>4
    <3>6. i + 1 \in 1 .. k /\ b[r][i] = buf[s][i + 1]
      BY <3>1, <3>3, <3>4, <3>5
    <3> QED BY <2>2, <3>3, <3>6 DEF FitInv, PacketsFit
  <2> QED BY <2>1, <2>2
<1> QED BY <1>2, <1>3, <1>4, <1>5 DEF Placed, PacketsFit

-----------------------------------------------------------------------------
(* What a step must keep                                                   *)

\* Requests are never forgotten, and a term id that has a client keeps one.
Later ==
  /\ \A n \in DOMAIN requests : n \in DOMAIN requests' /\ requests'[n] = requests[n]
  /\ \A t \in TermIds : upstream_to_client[t] # NoAddr => upstream_to_client'[t] # NoAddr

\* A step that sends no request and forgets no client.
LEMMA SameRequests ==
  ASSUME UNCHANGED <<requests, upstream_to_client>>
  PROVE  Later
BY DEF Later

\* A request came from an address, with a kind.
LEMMA RequestParts ==
  ASSUME TypeInv, NEW n \in DOMAIN requests
  PROVE  /\ n \in Nat /\ n # 0 /\ Addr(n) \in Addrs /\ Kind(n) \in Kinds
         /\ TermOf(n) \in TermIds
<1>1. DOMAIN requests = 1 .. Len(requests) /\ Len(requests) \in Nat
  BY LenProperties DEF TypeInv
<1>2. requests[n] \in Addrs \X Kinds
  BY <1>1, ElementOfSeq DEF TypeInv
<1> QED BY <1>1, <1>2 DEF Addr, Kind, TermOf, TermIds

\* What fits goes on fitting; on the CERTIFY socket only for the same job.
LEMMA FitsStays ==
  ASSUME TypeInv, NEW n, NEW s, Fits(n, s), Later,
         s = Certifying => job'.request = job.request
  PROVE  Fits(n, s)'
<1>1. /\ n \in DOMAIN requests' /\ requests'[n] = requests[n]
      /\ Addr(n) \in Addrs /\ TermOf(n) \in TermIds
  BY RequestParts DEF Fits, Later
<1>2. CASE s = <<"frame", Addr(n)>>
  BY <1>1, <1>2 DEF Fits, Addr
<1>3. CASE s = Certifying /\ n = job.request /\ Kind(n) \in CertKinds
  BY <1>1, <1>3 DEF Fits, Kind
<1>4. CASE s = <<"upstream", TermOf(n)>> /\ upstream_to_client[TermOf(n)] # NoAddr
  <2>1. TermOf(n)' = TermOf(n)
    BY <1>1 DEF TermOf, Kind, Addr
  <2> QED BY <1>1, <1>4, <2>1 DEF Fits, Later
<1> QED BY <1>2, <1>3, <1>4 DEF Fits

\* While nothing blocks the loop, or something other than a CERTIFY does, the
\* CERTIFY socket has nothing to deliver.
LEMMA CertifyQuiet ==
  ASSUME TypeInv, NEW n, NEW s, Fits(n, s),
         job = Idle \/ SocketFor(job.request) # Certifying
  PROVE  s # Certifying
<1>1. n \in Nat /\ n # 0
  BY RequestParts DEF Fits
<1>2. <<"frame", Addr(n)>> # Certifying /\ <<"upstream", TermOf(n)>> # Certifying
  BY DEF Certifying
<1> QED BY <1>1, <1>2 DEF Fits, SocketFor, TypeInv, CertKinds

-----------------------------------------------------------------------------
(* What clients are given                                                  *)

\* The response to a request, with what Mars meant for the same address, and
\* the extras, each to its own address.
LEMMA RespondKeeps ==
  ASSUME TypeInv, ExtraInv, NEW n \in DOMAIN requests, NEW m \in DOMAIN requests,
         Addr(m) = Addr(n), Respond(n, m, extras), UNCHANGED requests
  PROVE  GivenInv' /\ ExtraInv'
<1>1. extras' \subseteq extras
  BY DEF Respond
<1>2. ExtraInv'
  BY <1>1 DEF ExtraInv, Addr, Kind
<1>3. ASSUME NEW g \in given'
      PROVE  g.meant \in DOMAIN requests /\ g.addr = Addr(g.meant)
  <2>1. \/ g = Answer(Addr(n), n, m, "resp")
        \/ \E e \in extras : g = Answer(e.addr, 0, e.to, "extra")
    BY <1>3 DEF Respond
  <2>2. CASE g = Answer(Addr(n), n, m, "resp")
    BY <2>2 DEF Answer
  <2>3. ASSUME NEW e \in extras, g = Answer(e.addr, 0, e.to, "extra")
        PROVE  g.meant \in DOMAIN requests /\ g.addr = Addr(g.meant)
    BY <2>3 DEF Answer, ExtraInv
  <2> QED BY <2>1, <2>2, <2>3
<1>4. GivenInv'
  BY <1>3 DEF GivenInv, ClientsApart, Addr
<1> QED BY <1>2, <1>4

\* A step that gives nothing and queues nothing.
LEMMA NothingGiven ==
  ASSUME ExtraInv, Later, given' = {}, extras' \subseteq extras
  PROVE  GivenInv' /\ ExtraInv'
BY DEF GivenInv, ClientsApart, ExtraInv, Later, Addr, Kind

-----------------------------------------------------------------------------
(* The steps                                                               *)

\* What a request to Mars leaves to be shown.
JobInv ==
  /\ job \in [request : Nat, stage : Nat, read : Nat]
  /\ job # Idle => /\ job.request \in DOMAIN requests
                   /\ Kind(job.request) \in {"INIT_INFO"} \cup CertKinds
  /\ job = Idle => job.request = 0
  /\ \A x \in asked : Fits(x[1], x[2])
  /\ GivenInv /\ ExtraInv

\* The parts put together.
LEMMA Parts ==
  ASSUME ApartInv, UNCHANGED requests, inbox' \subseteq inbox, JobInv',
         ClientInv', buf' \in [Sockets -> Seq(Packets)], PacketsFit(buf)',
         upstream_to_client' \in [TermIds -> Addrs \cup {NoAddr}]
  PROVE  ApartInv'
BY DEF ApartInv, TypeInv, FitInv, JobInv

\* A step that touches none of the state involved.
LEMMA IdleSteps ==
  ASSUME ApartInv,
         UNCHANGED <<requests, inbox, job, buf, asked, upstream_to_client>>,
         UNCHANGED extras \/ extras' = {}, GivenInv'
  PROVE  ApartInv'
<1>1. TypeInv' /\ ClientInv'
  BY DEF ApartInv, TypeInv, ClientInv, Kind
<1>2. FitInv'
  <2>1. Later /\ TypeInv
    BY DEF ApartInv, Later
  <2> QED BY <2>1, FitsStays DEF ApartInv, FitInv, PacketsFit
<1>3. ExtraInv'
  BY DEF ApartInv, ExtraInv, Addr, Kind
<1> QED BY <1>1, <1>2, <1>3 DEF ApartInv

\* A TCP handler writes an extra to its own client, or is done with them.
LEMMA TcpSteps ==
  ASSUME ApartInv, NEW a \in TcpAddrs,
         TcpHandlerEnds(a) \/ \E e \in extras : TcpWritesExtra(a, e)
  PROVE  ApartInv'
<1>1. CASE TcpHandlerEnds(a)
  <2>1. given' = {} /\ (UNCHANGED extras \/ extras' = {})
    BY <1>1 DEF TcpHandlerEnds
  <2>2. GivenInv'
    BY <2>1 DEF GivenInv, ClientsApart
  <2> QED BY <1>1, <2>1, <2>2, IdleSteps DEF TcpHandlerEnds, clientVars, marsVars
<1>2. ASSUME NEW e \in extras, TcpWritesExtra(a, e) PROVE ApartInv'
  <2>1. given' = {Answer(a, 0, e.to, "tcp")} /\ UNCHANGED <<requests, extras>>
    BY <1>2 DEF TcpWritesExtra, clientVars, listVars
  <2>2. e.to \in DOMAIN requests /\ Kind(e.to) \in CertKinds
    BY DEF ApartInv, ExtraInv
  <2>3. GivenInv'
    BY <2>1, <2>2 DEF GivenInv, ClientsApart, Answer, Kind, CertKinds
  <2> QED BY <1>2, <2>1, <2>3, IdleSteps DEF TcpWritesExtra, clientVars, marsVars
<1> QED BY <1>1, <1>2

\* Sending adds a request.
LEMMA SendSteps ==
  ASSUME ApartInv, NEW a \in Addrs, NEW k \in Kinds, Send(a, k)
  PROVE  ApartInv'
<1>1. /\ requests' = Append(requests, <<a, k>>)
      /\ inbox' = inbox \cup {Len(requests')} /\ given' = {}
      /\ UNCHANGED <<job, buf, asked, extras, upstream_to_client>>
  BY DEF Send, marsVars, listVars
<1>2. /\ requests' \in Seq(Addrs \X Kinds)
      /\ DOMAIN requests = 1 .. Len(requests) /\ Len(requests) \in Nat
      /\ DOMAIN requests' = 1 .. Len(requests) + 1
      /\ Len(requests') = Len(requests) + 1
      /\ \A n \in 1 .. Len(requests) : requests'[n] = requests[n]
  BY <1>1, AppendProperties, LenProperties DEF ApartInv, TypeInv
<1>3. Later
  BY <1>1, <1>2 DEF Later
<1>4. TypeInv'
  BY <1>1, <1>2 DEF ApartInv, TypeInv, Kind
<1>5. ClientInv'
  BY <1>1 DEF ApartInv, ClientInv
<1>6. FitInv'
  BY <1>1, <1>3, FitsStays DEF ApartInv, FitInv, PacketsFit
<1>7. GivenInv' /\ ExtraInv'
  BY <1>1, <1>3, NothingGiven DEF ApartInv
<1> QED BY <1>4, <1>5, <1>6, <1>7 DEF ApartInv

\* Mars answers where it was asked.
LEMMA MarsSteps ==
  ASSUME ApartInv, NEW n \in Requests, NEW s \in Sockets, <<n, s>> \in asked,
         NEW p \in Packets, p.to = n, Arrives(p, s),
         UNCHANGED <<requests, inbox, job, asked, extras, upstream_to_client>>
  PROVE  ApartInv'
<1>1. Later
  BY SameRequests
<1>2. Fits(p.to, s)
  BY DEF ApartInv, FitInv
<1>3. Placed(buf')
  BY <1>2, ArrivesFits DEF ApartInv, Arrives
<1>4. TypeInv'
  BY <1>3 DEF ApartInv, TypeInv, Placed, Kind
<1>5. ClientInv'
  BY DEF ApartInv, ClientInv
<1>6. FitInv'
  BY <1>1, <1>3, FitsStays DEF ApartInv, FitInv, Placed, PacketsFit
<1>7. GivenInv' /\ ExtraInv'
  BY <1>1, NothingGiven DEF ApartInv, Arrives
<1> QED BY <1>4, <1>5, <1>6, <1>7 DEF ApartInv

\* The socket of a request, and the request in it.
LEMMA SocketFits ==
  ASSUME TypeInv, NEW n \in DOMAIN requests
  PROVE  /\ SocketFor(n) \in Sockets
         /\ Kind(n) = "INIT_INFO" => SocketFor(n) = <<"frame", Addr(n)>>
         /\ Kind(n) # "INIT_INFO" => SocketFor(n) = Certifying
BY RequestParts DEF SocketFor, Sockets

\* Blocking starts with a request to Mars, when nothing is in the way to the
\* CERTIFY socket.
LEMMA ProxySteps ==
  ASSUME TypeInv, NEW n \in DOMAIN requests, NEW stage \in Nat, NEW others,
         Kind(n) \in {"INIT_INFO"} \cup CertKinds,
         \A x \in others : x[2] # Certifying /\ Fits(x[1], x[2]),
         Proxy(n, stage, others), UNCHANGED <<requests, upstream_to_client>>
  PROVE  /\ job' \in [request : Nat, stage : Nat, read : Nat]
         /\ job' # Idle
         /\ job'.request = n /\ Kind(n)' = Kind(n)
         /\ \A x \in asked' : Fits(x[1], x[2])'
<1>1. /\ job' = [request |-> n, stage |-> stage, read |-> 0]
      /\ asked' = others \cup {<<n, SocketFor(n)>>}
  BY DEF Proxy
<1>2. n \in Nat /\ n # 0
  BY RequestParts
<1>3. Later
  BY SameRequests
<1>4. ASSUME NEW x \in others PROVE Fits(x[1], x[2])'
  BY <1>3, <1>4, FitsStays
<1>5. job' \in [request : Nat, stage : Nat, read : Nat] /\ job'.request = n /\ job' # Idle
  BY <1>1, <1>2 DEF Idle
<1>6. PICK s : s = SocketFor(n)
  OBVIOUS
<1>7. Fits(n, s)' /\ Kind(n)' = Kind(n)
  <2>1. n \in DOMAIN requests' /\ Addr(n)' = Addr(n) /\ Kind(n)' = Kind(n)
    BY DEF Addr, Kind
  <2>2. CASE Kind(n) = "INIT_INFO"
    BY <1>6, <2>1, <2>2, SocketFits DEF Fits
  <2>3. CASE Kind(n) \in CertKinds
    BY <1>5, <1>6, <2>1, <2>3, SocketFits DEF Fits, CertKinds
  <2> QED BY <2>1, <2>2, <2>3
<1>8. ASSUME NEW x \in asked' PROVE Fits(x[1], x[2])'
  <2>1. CASE x \in others
    BY <1>4, <2>1
  <2>2. CASE x = <<n, s>>
    BY <1>7, <2>2
  <2> QED BY <1>1, <1>6, <2>1, <2>2
<1> QED BY <1>5, <1>7, <1>8

\* When the wait of a request is over, nothing is left for the CERTIFY socket.
LEMMA JobEnds ==
  ASSUME ApartInv, job # Idle, NEW b, Placed(b),
         buf' = Dropped(SocketFor(job.request), b),
         UNCHANGED <<requests, upstream_to_client>>
  PROVE  /\ buf' \in [Sockets -> Seq(Packets)]
         /\ PacketsFit(buf)'
         /\ \A x \in Unasked(SocketFor(job.request)) : x[2] # Certifying /\ Fits(x[1], x[2])
<1>1. Later
  BY SameRequests
<1>2. Certifying \in Sockets
  BY DEF Sockets
<1>3. <<>> \in Seq(Packets) /\ DOMAIN <<>> = {}
  BY EmptySeq
<1>4. CASE SocketFor(job.request) = Certifying
  <2>1. buf' = [b EXCEPT ![Certifying] = <<>>]
    BY <1>4 DEF Dropped
  <2>2. buf' \in [Sockets -> Seq(Packets)]
    BY <1>3, <2>1 DEF Placed
  <2>3. ASSUME NEW s \in Sockets, NEW i \in DOMAIN buf'[s]
        PROVE  Fits(buf[s][i].to, s)'
    <3>1. s # Certifying
      BY <1>2, <1>3, <2>1, <2>3 DEF Placed
    <3>2. buf'[s] = b[s]
      BY <2>1, <3>1 DEF Placed
    <3>3. PICK n : n = b[s][i].to
      OBVIOUS
    <3>4. Fits(n, s)
      BY <2>3, <3>2, <3>3 DEF Placed, PacketsFit
    <3>5. Fits(n, s)'
      BY <1>1, <3>1, <3>4, FitsStays DEF ApartInv
    <3> QED BY <3>2, <3>3, <3>5
  <2>4. ASSUME NEW x \in Unasked(SocketFor(job.request))
        PROVE  x[2] # Certifying /\ Fits(x[1], x[2])
    BY <1>4, <2>4 DEF Unasked, Without, ApartInv, FitInv
  <2> QED BY <2>2, <2>3, <2>4 DEF PacketsFit
<1>5. CASE SocketFor(job.request) # Certifying
  <2>1. buf' = b
    BY <1>5 DEF Dropped
  <2>2. ASSUME NEW s \in Sockets, NEW i \in DOMAIN buf'[s]
        PROVE  Fits(buf[s][i].to, s)'
    <3>1. PICK n : n = b[s][i].to
      OBVIOUS
    <3>2. Fits(n, s)
      BY <2>1, <2>2, <3>1 DEF Placed, PacketsFit
    <3>3. Fits(n, s)'
      BY <1>1, <1>5, <3>2, CertifyQuiet, FitsStays DEF ApartInv
    <3> QED BY <2>1, <3>1, <3>3
  <2>3. ASSUME NEW x \in Unasked(SocketFor(job.request))
        PROVE  x[2] # Certifying /\ Fits(x[1], x[2])
    <3>1. x \in asked
      BY <1>5, <2>3 DEF Unasked
    <3> QED BY <1>5, <3>1, CertifyQuiet DEF ApartInv, FitInv
  <2> QED BY <2>1, <2>2, <2>3 DEF Placed, PacketsFit
<1> QED BY <1>4, <1>5

\* Without an answer of Mars, another attempt or an answer of the relay's own.
LEMMA InsteadSteps ==
  ASSUME ApartInv, job # Idle, NEW others,
         \A x \in others : x[2] # Certifying /\ Fits(x[1], x[2]),
         Instead(job.request, others), UNCHANGED <<requests, upstream_to_client>>
  PROVE  JobInv'
<1>1. PICK n \in DOMAIN requests : n = job.request /\ Kind(n) \in {"INIT_INFO"} \cup CertKinds
  BY DEF ApartInv, TypeInv
<1>2. Later
  BY SameRequests
<1>3. \/ Proxy(n, 2, others) /\ Quiet
      \/ job' = Idle /\ asked' = others /\ (Respond(n, n, extras) \/ Silent(n))
  BY <1>1 DEF Instead
<1>4. CASE Proxy(n, 2, others) /\ Quiet
  <2>1. GivenInv' /\ ExtraInv'
    BY <1>2, <1>4, NothingGiven DEF ApartInv, Quiet, listVars
  <2>2. /\ job' \in [request : Nat, stage : Nat, read : Nat]
        /\ job' # Idle
        /\ job'.request = n /\ Kind(n)' = Kind(n)
        /\ \A x \in asked' : Fits(x[1], x[2])'
    BY <1>1, <1>4, ProxySteps DEF ApartInv
  <2>3. Kind(job.request)' = Kind(n)
    BY <2>2 DEF Kind
  <2> QED BY <1>1, <2>1, <2>2, <2>3 DEF JobInv
<1>5. CASE job' = Idle /\ asked' = others /\ (Respond(n, n, extras) \/ Silent(n))
  <2>1. GivenInv' /\ ExtraInv'
    BY <1>2, <1>5, NothingGiven, RespondKeeps DEF ApartInv, Silent
  <2>2. \A x \in asked' : Fits(x[1], x[2])'
    BY <1>2, <1>5, FitsStays DEF ApartInv
  <2> QED BY <1>5, <2>1, <2>2 DEF JobInv, Idle
<1> QED BY <1>3, <1>4, <1>5

\* A turn of the receive loop.
LEMMA ReceiveSteps ==
  ASSUME ApartInv, NEW n \in Requests, Receive(n)
  PROVE  ApartInv'
<1>1. /\ n \in DOMAIN requests /\ job = Idle
      /\ UNCHANGED <<requests, buf>> /\ inbox' \subseteq inbox
      /\ StartBlocking(n) \/ HandleLocally(n) \/ Forward(n)
  BY DEF Receive, clientVars, ApartInv, TypeInv
<1>2. \A x \in asked : x[2] # Certifying /\ Fits(x[1], x[2])
  BY <1>1, CertifyQuiet DEF ApartInv, FitInv
<1>3. Addr(n) \in Addrs /\ n # 0 /\ TermOf(n) \in TermIds
  BY <1>1, RequestParts DEF ApartInv
<1>4. buf' \in [Sockets -> Seq(Packets)]
  BY <1>1 DEF ApartInv, TypeInv
<1>5. CASE StartBlocking(n) \/ HandleLocally(n)
  <2>1. /\ UNCHANGED upstream_to_client
        /\ \/ /\ \E stage \in {1, 2} : Proxy(n, stage, asked) /\ Quiet
              /\ Kind(n) \in {"INIT_INFO"} \cup CertKinds
           \/ (Respond(n, n, extras) \/ Silent(n)) /\ UNCHANGED <<job, asked>>
    BY <1>5 DEF StartBlocking, HandleLocally, CertKinds
  <2>2. Later
    BY <1>1, <2>1, SameRequests
  <2>3. ASSUME \E stage \in {1, 2} : Proxy(n, stage, asked) /\ Quiet,
               Kind(n) \in {"INIT_INFO"} \cup CertKinds
        PROVE  JobInv'
    <3>1. PICK stage \in Nat : Proxy(n, stage, asked) /\ Quiet
      BY <2>3
    <3>2. /\ job' \in [request : Nat, stage : Nat, read : Nat]
          /\ job' # Idle
          /\ job'.request = n /\ Kind(n)' = Kind(n)
          /\ \A x \in asked' : Fits(x[1], x[2])'
      BY <1>1, <1>2, <2>1, <2>3, <3>1, ProxySteps DEF ApartInv
    <3>3. GivenInv' /\ ExtraInv'
      BY <2>2, <3>1, NothingGiven DEF ApartInv, Quiet, listVars
    <3>4. Kind(job.request)' = Kind(n)
      BY <3>2 DEF Kind
    <3> QED BY <1>1, <2>3, <3>2, <3>3, <3>4 DEF JobInv
  <2>4. ASSUME Respond(n, n, extras) \/ Silent(n), UNCHANGED <<job, asked>>
        PROVE  JobInv'
    <3>1. GivenInv' /\ ExtraInv'
      BY <1>1, <2>2, <2>4, RespondKeeps, NothingGiven DEF ApartInv, Silent
    <3>2. \A x \in asked' : Fits(x[1], x[2])'
      BY <1>2, <2>2, <2>4, FitsStays DEF ApartInv
    <3> QED BY <1>1, <2>4, <3>1, <3>2 DEF JobInv, ApartInv, TypeInv
  <2>5. JobInv'
    BY <2>1, <2>3, <2>4
  <2>6. PacketsFit(buf)'
    BY <1>1, <2>1, <2>2, CertifyQuiet, FitsStays DEF ApartInv, FitInv, PacketsFit
  <2>7. ClientInv'
    BY <2>1 DEF ApartInv, ClientInv
  <2> QED BY <1>1, <1>4, <2>1, <2>5, <2>6, <2>7, Parts DEF ApartInv, TypeInv
<1>6. CASE Forward(n)
  <2>1. PICK t \in TermIds : t = TermOf(n)
    BY <1>3
  <2>2. PICK a \in Addrs : a = Addr(n)
    BY <1>3
  <2>3. /\ asked' = asked \cup {<<n, <<"upstream", t>>>>}
        /\ upstream_to_client' = [upstream_to_client EXCEPT ![t] = a]
        /\ given' = {} /\ UNCHANGED <<job, extras>>
    BY <1>6, <2>1, <2>2 DEF Forward, Silent
  <2>4. (t = "none" \/ TermId(a) = t) /\ a # NoAddr
    BY <2>1, <2>2 DEF TermOf
  <2>5. /\ upstream_to_client' \in [TermIds -> Addrs \cup {NoAddr}]
        /\ upstream_to_client'[t] = a
    BY <2>3, <2>4 DEF ApartInv, TypeInv
  <2>6. ClientInv'
    BY <2>3, <2>4, <2>5 DEF ApartInv, ClientInv, TypeInv
  <2>7. Later
    BY <1>1, <2>3, <2>4 DEF Later, ApartInv, TypeInv
  <2>8. GivenInv' /\ ExtraInv'
    BY <2>3, <2>7, NothingGiven DEF ApartInv
  <2>9. Fits(n, <<"upstream", t>>)'
    <3>1. TermOf(n)' = t /\ n \in DOMAIN requests'
      BY <1>1, <2>1 DEF TermOf, Kind, Addr
    <3> QED BY <2>4, <2>5, <3>1 DEF Fits
  <2>10. \A x \in asked' : Fits(x[1], x[2])'
    <3>1. \A x \in asked : Fits(x[1], x[2])'
      BY <1>2, <2>7, FitsStays DEF ApartInv
    <3> QED BY <2>3, <2>9, <3>1
  <2>11. PacketsFit(buf)'
    BY <1>1, <2>3, <2>7, FitsStays DEF ApartInv, FitInv, PacketsFit
  <2>12. JobInv'
    BY <1>1, <2>3, <2>8, <2>10 DEF JobInv, ApartInv, TypeInv
  <2> QED BY <1>1, <1>4, <2>5, <2>6, <2>11, <2>12, Parts
<1> QED BY <1>1, <1>5, <1>6

\* The wait reads a packet: the answer, an ACK for the client, or one of no use.
LEMMA ReadSteps ==
  ASSUME ApartInv, ReadPacket
  PROVE  ApartInv'
<1> DEFINE s == SocketFor(job.request)
<1>1. PICK n \in DOMAIN requests : n = job.request /\ Kind(n) \in {"INIT_INFO"} \cup CertKinds
  BY DEF ReadPacket, ApartInv, TypeInv
<1>2. /\ job # Idle /\ s \in Sockets /\ buf[s] # <<>>
      /\ UNCHANGED <<requests, inbox, upstream_to_client>>
  BY <1>1, SocketFits DEF ReadPacket, clientVars, ApartInv
<1>3. Later
  BY <1>2, SameRequests
<1>4. PICK rest : rest = [buf EXCEPT ![s] = Tail(@)]
  OBVIOUS
<1>5. PICK m : m = Head(buf[s]).to
  OBVIOUS
<1>6. Fits(m, s) /\ Placed(rest)
  BY <1>2, <1>4, <1>5, TakenFits DEF ApartInv
<1>7. m \in DOMAIN requests /\ Addr(m) = Addr(n) /\ (s = Certifying => m = n /\ Kind(n) \in CertKinds)
  <2>1. CASE Kind(n) = "INIT_INFO"
    BY <1>1, <1>6, <2>1, SocketFits DEF Fits, Certifying, ApartInv
  <2>2. CASE Kind(n) # "INIT_INFO"
    BY <1>1, <1>6, <2>2, SocketFits DEF Fits, Certifying, ApartInv
  <2> QED BY <2>1, <2>2
<1>8. ClientInv'
  BY <1>2 DEF ApartInv, ClientInv
<1>9. ASSUME Respond(n, m, extras), job' = Idle, asked' = Unasked(s),
             buf' = Dropped(s, rest)
      PROVE  ApartInv'
  <2>1. GivenInv' /\ ExtraInv'
    BY <1>2, <1>7, <1>9, RespondKeeps DEF ApartInv
  <2>2. /\ buf' \in [Sockets -> Seq(Packets)]
        /\ PacketsFit(buf)'
        /\ \A x \in Unasked(s) : x[2] # Certifying /\ Fits(x[1], x[2])
    BY <1>2, <1>6, <1>9, JobEnds
  <2>3. \A x \in asked' : Fits(x[1], x[2])'
    BY <1>3, <1>9, <2>2, FitsStays DEF ApartInv
  <2>4. JobInv'
    BY <1>9, <2>1, <2>3 DEF JobInv, Idle
  <2> QED BY <1>2, <1>8, <2>2, <2>4, Parts DEF ApartInv, TypeInv
<1>10. ASSUME job' = [job EXCEPT !.read = IF @ < MaxRead THEN @ + 1 ELSE @],
              buf' = rest, UNCHANGED asked, given' = {},
              \/ UNCHANGED extras
              \/ s = Certifying /\ extras' = extras \cup {[addr |-> Addr(n), to |-> m]}
       PROVE  ApartInv'
  <2>1. /\ job' \in [request : Nat, stage : Nat, read : Nat]
        /\ job'.request = job.request
    <3>1. job.read \in Nat /\ job \in [request : Nat, stage : Nat, read : Nat]
      BY DEF ApartInv, TypeInv
    <3>2. PICK k \in Nat : job' = [job EXCEPT !.read = k]
      BY <1>10, <3>1
    <3> QED BY <3>1, <3>2
  <2>2. PacketsFit(buf)'
    BY <1>3, <1>6, <1>10, <2>1, FitsStays DEF ApartInv, Placed, PacketsFit
  <2>3. \A x \in asked' : Fits(x[1], x[2])'
    BY <1>3, <1>10, <2>1, FitsStays DEF ApartInv, FitInv
  <2>4. GivenInv'
    BY <1>10 DEF GivenInv, ClientsApart
  <2>5. ExtraInv'
    <3>1. \A e \in extras : e.to \in DOMAIN requests /\ e.addr = Addr(e.to) /\ Kind(e.to) \in CertKinds
      BY DEF ApartInv, ExtraInv
    <3>2. \A e \in extras' : e \in extras \/ (s = Certifying /\ e = [addr |-> Addr(n), to |-> m])
      BY <1>10
    <3>3. ASSUME NEW e \in extras'
          PROVE  e.to \in DOMAIN requests /\ e.addr = Addr(e.to) /\ Kind(e.to) \in CertKinds
      BY <1>7, <3>1, <3>2, <3>3
    <3> QED BY <1>2, <3>3 DEF ExtraInv, Addr, Kind
  <2>6. /\ job'.request \in DOMAIN requests' /\ job'.request # 0
        /\ Kind(job.request)' = Kind(n)
    BY <1>1, <1>2, <2>1, RequestParts DEF ApartInv, Kind
  <2>7. JobInv'
    BY <1>1, <2>1, <2>3, <2>4, <2>5, <2>6 DEF JobInv, Idle
  <2> QED BY <1>2, <1>6, <1>8, <1>10, <2>2, <2>7, Parts DEF Placed, ApartInv, TypeInv
<1>11. \/ /\ Respond(n, m, extras) /\ job' = Idle /\ asked' = Unasked(s)
          /\ buf' = Dropped(s, rest)
       \/ /\ job' = [job EXCEPT !.read = IF @ < MaxRead THEN @ + 1 ELSE @]
          /\ buf' = rest /\ UNCHANGED asked /\ given' = {}
          /\ \/ UNCHANGED extras
             \/ s = Certifying /\ extras' = extras \cup {[addr |-> Addr(n), to |-> m]}
  BY <1>1, <1>4, <1>5 DEF ReadPacket
<1> QED BY <1>9, <1>10, <1>11

\* The wait ends without an answer, by a timeout or by an exception.
LEMMA EndSteps ==
  ASSUME ApartInv, GiveUp \/ ProxyFails
  PROVE  ApartInv'
<1> DEFINE s == SocketFor(job.request)
<1>1. /\ job # Idle /\ UNCHANGED <<requests, inbox, upstream_to_client>>
      /\ job.request \in DOMAIN requests
  BY DEF GiveUp, ProxyFails, clientVars, ApartInv, TypeInv
<1>2. Placed(buf) /\ Placed([buf EXCEPT ![s] = <<>>])
  <2>1. Placed(buf)
    BY DEF Placed, ApartInv, TypeInv, FitInv
  <2>2. PICK b : b = [buf EXCEPT ![s] = <<>>]
    OBVIOUS
  <2>3. <<>> \in Seq(Packets) /\ DOMAIN <<>> = {}
    BY EmptySeq
  <2>4. b \in [Sockets -> Seq(Packets)]
    BY <2>2, <2>3 DEF ApartInv, TypeInv
  <2>5. ASSUME NEW r \in Sockets, NEW i \in DOMAIN b[r]
        PROVE  Fits(b[r][i].to, r)
    <3>1. r # s /\ b[r] = buf[r]
      BY <2>2, <2>3, <2>5 DEF ApartInv, TypeInv
    <3> QED BY <2>1, <2>5, <3>1 DEF Placed, PacketsFit
  <2> QED BY <2>1, <2>2, <2>4, <2>5 DEF Placed, PacketsFit
<1>3. PICK others : others \subseteq Unasked(s) /\ Instead(job.request, others)
  BY DEF GiveUp, ProxyFails, Unasked, Without
<1>4. buf' = Dropped(s, buf) \/ buf' = Dropped(s, [buf EXCEPT ![s] = <<>>])
  BY DEF GiveUp, ProxyFails, Dropped, ApartInv, TypeInv
<1>5. /\ buf' \in [Sockets -> Seq(Packets)]
      /\ PacketsFit(buf)'
      /\ \A x \in Unasked(s) : x[2] # Certifying /\ Fits(x[1], x[2])
  BY <1>1, <1>2, <1>4, JobEnds
<1>6. JobInv'
  BY <1>1, <1>3, <1>5, InsteadSteps
<1>7. ClientInv'
  BY <1>1 DEF ApartInv, ClientInv
<1> QED BY <1>1, <1>5, <1>6, <1>7, Parts DEF ApartInv, TypeInv

\* Proxy mode hands the packet to the client of the term id.
LEMMA UpstreamSteps ==
  ASSUME ApartInv, NEW t \in TermIds, UpstreamReceive(t)
  PROVE  ApartInv'
<1>1. PICK s \in Sockets : s = <<"upstream", t>>
  BY DEF Sockets, UpstreamSocks
<1>2. PICK n : n = Head(buf[s]).to
  OBVIOUS
<1>3. PICK client : client = upstream_to_client[t]
  OBVIOUS
<1>4. /\ buf[s] # <<>> /\ buf' = [buf EXCEPT ![s] = Tail(@)]
      /\ given' = {Answer(client, 0, n, "upstream")}
      /\ UNCHANGED <<requests, inbox, job, asked, extras, upstream_to_client>>
  BY <1>1, <1>2, <1>3 DEF UpstreamReceive, clientVars, marsVars, listVars
<1>5. Fits(n, s) /\ Placed(buf')
  BY <1>2, <1>4, TakenFits DEF ApartInv
<1>6. Later
  BY <1>4, SameRequests
<1>7. n \in DOMAIN requests /\ TermOf(n) = t /\ client # NoAddr
  BY <1>1, <1>3, <1>5 DEF Fits, Certifying
<1>8. client \in Addrs /\ (t = "none" \/ TermId(client) = t)
  BY <1>3, <1>7 DEF ApartInv, ClientInv
<1>9. TermId(client) = TermId(Addr(n)) \/ Kind(n) = "SHORT"
  BY <1>7, <1>8 DEF TermOf, TermId
<1>10. GivenInv'
  <2>1. \A g \in given' : g.meant = n /\ g.addr = client /\ g.via = "upstream"
    BY <1>4 DEF Answer
  <2>2. Addr(n)' = Addr(n) /\ Kind(n)' = Kind(n) /\ n \in DOMAIN requests'
    BY <1>4, <1>7 DEF Addr, Kind
  <2> QED BY <1>8, <1>9, <2>1, <2>2 DEF GivenInv, ClientsApart
<1>11. ExtraInv'
  BY <1>4 DEF ApartInv, ExtraInv, Addr, Kind
<1>12. PacketsFit(buf)'
  BY <1>4, <1>5, <1>6, FitsStays DEF ApartInv, Placed, PacketsFit
<1>13. JobInv'
  BY <1>4, <1>6, <1>10, <1>11, FitsStays DEF JobInv, ApartInv, TypeInv, FitInv, Kind
<1>14. ClientInv'
  BY <1>4 DEF ApartInv, ClientInv
<1> QED BY <1>4, <1>5, <1>12, <1>13, <1>14, Parts DEF Placed, ApartInv, TypeInv

\* Nothing is in any socket at the start.
LEMMA InitApart == Init => ApartInv
<1> SUFFICES ASSUME Init PROVE ApartInv
  OBVIOUS
<1>1. \A S : <<>> \in Seq(S)
  BY EmptySeq
<1>2. TypeInv
  BY <1>1 DEF Init, TypeInv, Idle
<1>3. ClientInv
  BY DEF Init, ClientInv
<1>4. FitInv
  BY DEF Init, FitInv, PacketsFit
<1>5. GivenInv /\ ExtraInv
  BY DEF Init, GivenInv, ClientsApart, ExtraInv
<1> QED BY <1>2, <1>3, <1>4, <1>5 DEF ApartInv

\* Every step keeps every answer with its asker.
LEMMA NextApart == ApartInv /\ [Next]_vars => ApartInv'
<1> SUFFICES ASSUME ApartInv, [Next]_vars PROVE ApartInv'
  OBVIOUS
<1>1. CASE UNCHANGED vars \/ KeepaliveTurn
  <2>1. GivenInv'
    BY <1>1 DEF vars, KeepaliveTurn, ApartInv, GivenInv, ClientsApart, Addr, Kind
  <2> QED BY <1>1, <2>1, IdleSteps DEF vars, KeepaliveTurn, marsVars, clientVars, listVars
<1>2. ASSUME NEW n \in Requests, NEW s \in Sockets, MarsAcks(n, s) PROVE ApartInv'
  <2>0. [to |-> n, kind |-> "ack"] \in Packets
    BY DEF Packets, Requests
  <2>1. PICK p \in Packets : p = [to |-> n, kind |-> "ack"]
    BY <2>0
  <2> QED BY <1>2, <2>1, MarsSteps DEF MarsAcks, clientVars, marsVars, listVars
<1>3. ASSUME NEW n \in Requests, NEW s \in Sockets, NEW kind \in {"resp", "other"},
             MarsAnswers(n, s, kind)
      PROVE  ApartInv'
  <2>0. [to |-> n, kind |-> kind] \in Packets
    BY DEF Packets, Requests
  <2>1. PICK p \in Packets : p = [to |-> n, kind |-> kind]
    BY <2>0
  <2> QED BY <1>3, <2>1, MarsSteps DEF MarsAnswers, clientVars, listVars
<1> QED BY <1>1, <1>2, <1>3, SendSteps, ReceiveSteps, ReadSteps, EndSteps, TcpSteps, UpstreamSteps
        DEF Next

\* What Mars sends for one client reaches another only where clients share a
\* term id, where frames have none, and through a TCP handler that writes out
\* the ACKs of a CERTIFY, whatever Mars sends, when, and how often
\* (gutes_relay.py 463-467, 544-549, 882-884, 1051-1059).
THEOREM AnswersStayApart == Spec => []ClientsApart
<1>1. ApartInv => ClientsApart
  BY DEF ApartInv, GivenInv
<1> QED BY <1>1, InitApart, NextApart, PTL DEF Spec

-----------------------------------------------------------------------------
(* The keepalive counter                                                   *)

\* The counter of the keepalive task, and the keepalives it stands for.
CountInv ==
  /\ keepalive_misses \in Nat /\ unheard \in Nat
  /\ DormantMeansUnheard

\* A step that sends nothing either resets the counter or leaves every sign of
\* life where it waits.
LEMMA CountStep ==
  ASSUME CountInv, UNCHANGED <<requests, unheard>>,
         \/ keepalive_misses' = 0
         \/ UNCHANGED keepalive_misses /\ \A n \in inbox : IsSign(n) => n \in inbox'
  PROVE  CountInv'
<1>1. \A n : IsSign(n)' = IsSign(n)
  BY DEF IsSign, Addr, Kind
<1> QED BY <1>1 DEF CountInv, DormantMeansUnheard

\* A certification of the doorbell resets the counter, one of the bridge does
\* not.
LEMMA CertifiedCounts ==
  ASSUME NEW a, CountInv, (UNCHANGED dozeVars) \/ Certified(a), UNCHANGED <<requests, inbox>>
  PROVE  CountInv'
BY CountStep DEF Certified, dozeVars

\* Every step leaves a reason for every miss that is counted.
LEMMA NextCounts == ApartInv /\ CountInv /\ [Next]_vars => CountInv'
<1> SUFFICES ASSUME ApartInv, CountInv, [Next]_vars PROVE CountInv'
  OBVIOUS
<1>0. ASSUME UNCHANGED <<requests, inbox, dozeVars>> PROVE CountInv'
  BY <1>0, CountStep DEF dozeVars
<1>1. CASE UNCHANGED vars
  BY <1>0, <1>1 DEF vars
<1>2. ASSUME NEW a \in Addrs, NEW k \in Kinds, Send(a, k) PROVE CountInv'
  <2>1. /\ requests' = Append(requests, <<a, k>>) /\ UNCHANGED keepalive_misses
        /\ inbox' = inbox \cup {Len(requests')}
        /\ unheard' = IF Sign(a, k) THEN 0 ELSE unheard
    BY <1>2 DEF Send
  <2>2. /\ requests'[Len(requests')] = <<a, k>>
        /\ \A n \in DOMAIN requests : requests'[n] = requests[n]
    <3>1. requests \in Seq(Addrs \X Kinds) /\ <<a, k>> \in Addrs \X Kinds
      BY DEF ApartInv, TypeInv
    <3> QED BY <2>1, <3>1, AppendProperties, LenProperties
  <2>3. CASE Sign(a, k)
    <3>1. IsSign(Len(requests))'
      BY <2>2, <2>3 DEF IsSign, Sign, Addr, Kind
    <3> QED BY <2>1, <2>3, <3>1 DEF CountInv, DormantMeansUnheard
  <2>4. CASE ~ Sign(a, k)
    <3>1. \A n \in inbox : IsSign(n)' = IsSign(n)
      BY <2>2 DEF IsSign, Addr, Kind, ApartInv, TypeInv
    <3> QED BY <2>1, <2>4, <3>1 DEF CountInv, DormantMeansUnheard
  <2> QED BY <2>3, <2>4
<1>3. ASSUME NEW n \in Requests, NEW s \in Sockets, MarsAcks(n, s) PROVE CountInv'
  BY <1>0, <1>3 DEF MarsAcks, clientVars
<1>4. ASSUME NEW n \in Requests, NEW s \in Sockets, NEW kind, MarsAnswers(n, s, kind)
      PROVE  CountInv'
  BY <1>0, <1>4 DEF MarsAnswers, clientVars
<1>5. ASSUME NEW n \in Requests, Receive(n) PROVE CountInv'
  <2>1. /\ inbox' = inbox \ {n} /\ UNCHANGED requests
        /\ StartBlocking(n) \/ HandleLocally(n) \/ Forward(n)
    BY <1>5 DEF Receive, clientVars
  <2>2. UNCHANGED unheard /\ (keepalive_misses' = 0 \/ (UNCHANGED keepalive_misses /\ ~ IsSign(n)))
    <3>1. CASE StartBlocking(n)
      BY <3>1 DEF StartBlocking, Certified, dozeVars, IsSign, Sign
    <3>2. CASE HandleLocally(n)
      BY <3>2 DEF HandleLocally, Heard, dozeVars, IsSign, Sign
    <3>3. CASE Forward(n)
      BY <3>3 DEF Forward, Heard, dozeVars, IsSign, Sign
    <3> QED BY <2>1, <3>1, <3>2, <3>3
  <2> QED BY <2>1, <2>2, CountStep
<1>6. CASE ReadPacket
  <2>1. (UNCHANGED dozeVars) \/ Certified(Addr(job.request))
    BY <1>6 DEF ReadPacket
  <2> QED BY <1>6, <2>1, CertifiedCounts DEF ReadPacket, clientVars
<1>7. CASE GiveUp \/ ProxyFails
  <2>1. PICK others : Instead(job.request, others)
    BY <1>7 DEF GiveUp, ProxyFails
  <2>2. (UNCHANGED dozeVars) \/ Certified(Addr(job.request))
    BY <2>1 DEF Instead
  <2> QED BY <1>7, <2>2, CertifiedCounts DEF GiveUp, ProxyFails, clientVars
<1>8. ASSUME NEW t, UpstreamReceive(t) PROVE CountInv'
  BY <1>0, <1>8 DEF UpstreamReceive, clientVars
<1>9. ASSUME NEW a, TcpHandlerEnds(a) \/ \E e \in extras : TcpWritesExtra(a, e) PROVE CountInv'
  BY <1>0, <1>9 DEF TcpHandlerEnds, TcpWritesExtra, clientVars
<1>10. CASE KeepaliveTurn
  <2>1. \A n : IsSign(n)' = IsSign(n)
    BY <1>10 DEF KeepaliveTurn, clientVars, IsSign, Addr, Kind
  <2> QED BY <1>10, <2>1 DEF KeepaliveTurn, CountInv, DormantMeansUnheard
<1> QED BY <1>1, <1>2, <1>3, <1>4, <1>5, <1>6, <1>7, <1>8, <1>9, <1>10 DEF Next

\* The doorbell has more misses than keepalives since it was last heard only
\* while that sign of life waits to be handled (gutes_relay.py 375-393, 731).
THEOREM DormantIsUnheard == Spec => []DormantMeansUnheard
<1>1. Init => CountInv
  BY DEF Init, CountInv, DormantMeansUnheard
<1>2. CountInv => DormantMeansUnheard
  BY DEF CountInv
<1> QED BY <1>1, <1>2, InitApart, NextApart, NextCounts, PTL DEF Spec

-----------------------------------------------------------------------------
(* Which answers a persistent socket holds                                 *)

\* Where the answers of Mars to request n are in a queue of packets.
Answers(q, n) == {i \in DOMAIN q : q[i].kind # "ack" /\ q[i].to = n}
None(q, n)    == Answers(q, n) = {}
One(q, n)     == \A i, j \in Answers(q, n) : i = j
Only(q, n)    == \A i \in DOMAIN q : q[i].kind # "ack" => q[i].to = n

\* A queue that loses its front gains no answer, and loses the one in front.
LEMMA TailAnswers ==
  ASSUME NEW q \in Seq(Packets), q # <<>>, NEW n
  PROVE  /\ Tail(q) \in Seq(Packets)
         /\ \A i \in DOMAIN Tail(q) : \E j \in DOMAIN q : Tail(q)[i] = q[j]
         /\ None(q, n) => None(Tail(q), n)
         /\ One(q, n) => One(Tail(q), n)
         /\ Only(q, n) => Only(Tail(q), n)
         /\ One(q, n) /\ 1 \in Answers(q, n) => None(Tail(q), n)
<1>1. PICK k \in Nat, t \in Seq(Packets) : k = Len(q) /\ t = Tail(q)
  BY LenProperties, HeadTailProperties
<1>2. /\ DOMAIN t = 1 .. k - 1 /\ DOMAIN q = 1 .. k
      /\ \A j \in 1 .. k - 1 : t[j] = q[j + 1]
  BY <1>1, LenProperties, HeadTailProperties
<1>3. \A i \in DOMAIN t : i \in Nat /\ i # 0 /\ i + 1 \in DOMAIN q /\ t[i] = q[i + 1]
  BY <1>1, <1>2
<1>4. \A i \in Answers(t, n) : i \in Nat /\ i # 0 /\ i + 1 \in Answers(q, n)
  BY <1>3 DEF Answers
<1>5. None(q, n) => None(t, n)
  BY <1>4 DEF None
<1>6. One(q, n) => One(t, n)
  BY <1>4 DEF One
<1>7. Only(q, n) => Only(t, n)
  BY <1>3 DEF Only
<1>8. One(q, n) /\ 1 \in Answers(q, n) => None(t, n)
  BY <1>4 DEF One, None
<1> QED BY <1>1, <1>3, <1>5, <1>6, <1>7, <1>8

\* A queue that gains a packet gains at most that answer.
LEMMA AppendAnswers ==
  ASSUME NEW q \in Seq(Packets), NEW p \in Packets, NEW n
  PROVE  /\ Append(q, p) \in Seq(Packets)
         /\ \A i \in DOMAIN Append(q, p) :
              (i \in DOMAIN q /\ Append(q, p)[i] = q[i]) \/ Append(q, p)[i] = p
         /\ p.kind = "ack" \/ p.to # n =>
              /\ None(q, n) => None(Append(q, p), n)
              /\ One(q, n) => One(Append(q, p), n)
         /\ None(q, n) => One(Append(q, p), n)
         /\ (p.kind = "ack" \/ p.to = n) /\ Only(q, n) => Only(Append(q, p), n)
<1>1. PICK k \in Nat, t \in Seq(Packets) : k = Len(q) /\ t = Append(q, p)
  BY LenProperties, AppendProperties
<1>2. /\ DOMAIN t = 1 .. k + 1 /\ DOMAIN q = 1 .. k
      /\ \A j \in 1 .. k : t[j] = q[j]
      /\ t[k + 1] = p
  BY <1>1, LenProperties, AppendProperties
<1>3. \A i \in DOMAIN t : (i \in DOMAIN q /\ t[i] = q[i]) \/ (i = k + 1 /\ t[i] = p)
  BY <1>1, <1>2
<1>4. \A i \in Answers(t, n) : i \in Answers(q, n) \/ (i = k + 1 /\ p.kind # "ack" /\ p.to = n)
  BY <1>3 DEF Answers
<1>5. p.kind = "ack" \/ p.to # n =>
              /\ None(q, n) => None(t, n)
              /\ One(q, n) => One(t, n)
  BY <1>4 DEF None, One
<1>6. None(q, n) => One(t, n)
  BY <1>4 DEF None, One
<1>7. (p.kind = "ack" \/ p.to = n) /\ Only(q, n) => Only(t, n)
  BY <1>3 DEF Only
<1> QED BY <1>1, <1>3, <1>5, <1>6, <1>7

\* An empty queue holds none.
LEMMA EmptyAnswers ==
  ASSUME NEW n
  PROVE  None(<<>>, n) /\ One(<<>>, n) /\ Only(<<>>, n)
BY EmptySeq DEF None, One, Only, Answers

\* A queue with answers to one request at most, and none to that, has none.
LEMMA OnlyNone ==
  ASSUME NEW q, NEW n, NEW m, Only(q, n), None(q, n)
  PROVE  Only(q, m)
BY DEF Only, None, Answers

-----------------------------------------------------------------------------
(* When an answer comes late                                               *)

Frame(a) == <<"frame", a>>

\* The request that waits on the persistent socket of an address, or 0.
Waits(a) ==
  IF job # Idle /\ SocketFor(job.request) = Frame(a) THEN job.request ELSE 0

\* A request is not asked, answered or given up while it waits in a socket of
\* the relay, nor before it is sent.
FreshInv ==
  /\ answered \in [Requests -> Nat]
  /\ DOMAIN requests \subseteq Requests
  /\ job.request \notin inbox
  /\ gaveUp \subseteq DOMAIN requests \ inbox
  /\ \A x \in asked : x[1] \notin inbox
  /\ \A n \in Requests : answered[n] # 0 => n \in DOMAIN requests \ inbox

\* What is in a persistent socket, or may come there, was asked on it.
HomeInv ==
  \A a \in Addrs :
    /\ \A n \in DOMAIN requests : <<n, Frame(a)>> \in asked => SocketFor(n) = Frame(a)
    /\ \A i \in DOMAIN buf[Frame(a)] : SocketFor(buf[Frame(a)][i].to) = Frame(a)

\* A socket holds no more answers to a request than Mars has sent.
SentInv ==
  \A a \in Addrs, n \in Requests :
    /\ answered[n] = 0 => None(buf[Frame(a)], n)
    /\ answered[n] <= 1 => One(buf[Frame(a)], n)

\* Nothing went wrong with any request of an address but the one that waits.
Clean(a) ==
  \A n \in DOMAIN requests :
    SocketFor(n) = Frame(a) /\ n # Waits(a) => n \notin gaveUp /\ answered[n] <= 1

\* Then the socket holds only answers to that one: the others have had theirs.
CleanInv ==
  \A a \in Addrs : Clean(a) =>
    /\ Only(buf[Frame(a)], Waits(a))
    /\ \A n \in DOMAIN requests :
         <<n, Frame(a)>> \in asked /\ n # Waits(a) => answered[n] # 0

LateRest == FreshInv /\ HomeInv /\ SentInv /\ CleanInv /\ LateOnlyAfterGivingUp
LateInv  == ApartInv /\ LateRest

\* The queue of a persistent socket, and the requests its packets are for.
LEMMA FrameQueue ==
  ASSUME ApartInv, NEW a \in Addrs
  PROVE  /\ Frame(a) \in Sockets /\ Frame(a) # Certifying
         /\ \A t : Frame(a) # <<"upstream", t>>
         /\ buf[Frame(a)] \in Seq(Packets)
         /\ Only(buf[Frame(a)], 0) => \A n : Only(buf[Frame(a)], n)
<1>1. Frame(a) \in Sockets /\ Frame(a) # Certifying /\ \A t : Frame(a) # <<"upstream", t>>
  BY DEF Frame, Sockets, Certifying
<1>2. \A i \in DOMAIN buf[Frame(a)] : buf[Frame(a)][i].to # 0
  BY <1>1, RequestParts DEF ApartInv, FitInv, PacketsFit, Fits
<1> QED BY <1>1, <1>2 DEF ApartInv, TypeInv, Only

\* A request of a persistent socket comes from its address, and is no CERTIFY.
LEMMA FrameAsker ==
  ASSUME NEW n, NEW a \in Addrs, SocketFor(n) = Frame(a)
  PROVE  Addr(n) = a /\ Kind(n) = "INIT_INFO"
BY DEF SocketFor, Frame, Certifying

\* A step that gives no client the answer to another request of its own.
Plain == \A g \in given' : g.request = 0 \/ g.meant = g.request

\* Nothing at all, or one's own answer and extras, is nothing of the kind.
LEMMA PlainSteps ==
  ASSUME NEW n, NEW queue, given' = {} \/ Respond(n, n, queue) \/ Silent(n)
  PROVE  Plain
BY DEF Plain, Respond, Silent, Answer

\* Whoever got a late answer got it for a reason that stays one.
LEMMA GivenLate ==
  ASSUME LateInv, Later, gaveUp \subseteq gaveUp',
         \A n \in DOMAIN requests : answered[n] > 1 => answered'[n] > 1,
         given' = given \/ Plain
  PROVE  LateOnlyAfterGivingUp'
<1>1. CASE given' = given
  <2>1. LateOnlyAfterGivingUp
    BY DEF LateInv, LateRest
  <2> QED BY <1>1, <2>1 DEF Later, LateOnlyAfterGivingUp, Addr, Kind
<1> QED BY <1>1 DEF LateOnlyAfterGivingUp, Plain

\* A step that no persistent socket has to do with.
LEMMA SameFrames ==
  ASSUME LateInv, UNCHANGED <<requests, answered>>, inbox' \subseteq inbox,
         job'.request \notin inbox',
         gaveUp \subseteq gaveUp', gaveUp' \subseteq DOMAIN requests \ inbox',
         \A x \in asked' : x[1] \notin inbox' /\ (x \in asked \/ \A a \in Addrs : x[2] # Frame(a)),
         \A a \in Addrs : buf'[Frame(a)] = buf[Frame(a)] /\ Waits(a)' = Waits(a),
         LateOnlyAfterGivingUp'
  PROVE  LateRest'
<1>1. FreshInv'
  BY DEF LateInv, LateRest, FreshInv
<1>2. \A n : SocketFor(n)' = SocketFor(n)
  BY DEF SocketFor, Kind, Addr
<1>3. ASSUME NEW a \in Addrs, NEW n, <<n, Frame(a)>> \in asked'
      PROVE  <<n, Frame(a)>> \in asked
  BY <1>3
<1>4. HomeInv'
  BY <1>2, <1>3 DEF LateInv, LateRest, HomeInv
<1>5. SentInv'
  BY DEF LateInv, LateRest, SentInv
<1>6. \A a \in Addrs : Clean(a)' => Clean(a)
  BY <1>2 DEF Clean
<1>7. CleanInv'
  BY <1>3, <1>6 DEF LateInv, LateRest, CleanInv
<1> QED BY <1>1, <1>4, <1>5, <1>7 DEF LateRest

\* Sending adds a request nobody has asked.
LEMMA SendLate ==
  ASSUME LateInv, NEW a \in Addrs, NEW k \in Kinds, Send(a, k)
  PROVE  LateRest'
<1>1. /\ requests' = Append(requests, <<a, k>>) /\ Len(requests) < MaxRequests
      /\ inbox' = inbox \cup {Len(requests')} /\ given' = {}
      /\ UNCHANGED <<job, buf, asked, answered, upstream_to_client, gaveUp>>
  BY DEF Send, marsVars
<1>2. PICK k0 \in Nat : k0 = Len(requests)
  BY LenProperties DEF LateInv, ApartInv, TypeInv
<1>3. /\ DOMAIN requests = 1 .. k0 /\ DOMAIN requests' = 1 .. k0 + 1
      /\ Len(requests') = k0 + 1
      /\ \A n \in 1 .. k0 : requests'[n] = requests[n]
  BY <1>1, <1>2, AppendProperties, LenProperties DEF LateInv, ApartInv, TypeInv
<1>4. inbox' = inbox \cup {k0 + 1} /\ k0 + 1 \notin DOMAIN requests
  BY <1>1, <1>3
<1>5. /\ \A x \in asked : x[1] \in DOMAIN requests
      /\ job.request = 0 \/ job.request \in DOMAIN requests
  BY DEF LateInv, ApartInv, FitInv, Fits, TypeInv
<1>6. FreshInv'
  <2>1. DOMAIN requests' \subseteq Requests
    BY <1>1, <1>2, <1>3 DEF Requests
  <2>2. job'.request \notin inbox'
    BY <1>1, <1>2, <1>4, <1>5 DEF LateInv, LateRest, FreshInv
  <2>3. \A n \in DOMAIN requests \ inbox : n \in DOMAIN requests' \ inbox'
    BY <1>3, <1>4
  <2> QED BY <1>1, <1>4, <1>5, <2>1, <2>2, <2>3 DEF LateInv, LateRest, FreshInv
<1>7. \A n \in DOMAIN requests : SocketFor(n)' = SocketFor(n)
  BY <1>3 DEF SocketFor, Kind, Addr
<1>8. \A b \in Addrs : Waits(b)' = Waits(b)
  BY <1>1, <1>5, <1>7 DEF Waits, LateInv, ApartInv, TypeInv
<1>9. HomeInv'
  <2>1. ASSUME NEW b \in Addrs, NEW i \in DOMAIN buf[Frame(b)]
        PROVE  buf[Frame(b)][i].to \in DOMAIN requests
    BY FrameQueue DEF LateInv, ApartInv, FitInv, PacketsFit, Fits
  <2> QED BY <1>1, <1>5, <1>7, <2>1 DEF LateInv, LateRest, HomeInv
<1>10. SentInv'
  BY <1>1 DEF LateInv, LateRest, SentInv
<1>11. ASSUME NEW b \in Addrs, Clean(b)' PROVE Clean(b)
  BY <1>1, <1>3, <1>7, <1>8, <1>11 DEF Clean
<1>12. CleanInv'
  BY <1>1, <1>5, <1>8, <1>11 DEF LateInv, LateRest, CleanInv
<1>13. LateOnlyAfterGivingUp'
  <2>1. Later /\ Plain
    BY <1>1, <1>3 DEF Later, Plain
  <2> QED BY <1>1, <2>1, GivenLate
<1> QED BY <1>6, <1>9, <1>10, <1>12, <1>13 DEF LateRest

\* A packet of Mars joins the socket it was asked on.
LEMMA MarsLate ==
  ASSUME LateInv, NEW n \in Requests, NEW s \in Sockets, <<n, s>> \in asked,
         NEW p \in Packets, p.to = n, Arrives(p, s),
         UNCHANGED <<requests, inbox, job, asked, upstream_to_client, gaveUp>>,
         \/ p.kind = "ack" /\ UNCHANGED answered
         \/ p.kind # "ack" /\ answered' = [answered EXCEPT ![n] = @ + 1]
  PROVE  LateRest'
<1>1. n \in DOMAIN requests \ inbox
  BY DEF LateInv, LateRest, ApartInv, FitInv, Fits, FreshInv
<1>2. /\ answered' \in [Requests -> Nat] /\ DOMAIN requests \subseteq Requests
      /\ \A m \in Requests : answered[m] \in Nat /\ answered'[m] \in Nat
                               /\ answered[m] <= answered'[m]
      /\ \A m \in Requests : m # n \/ p.kind = "ack" => answered'[m] = answered[m]
      /\ p.kind = "ack" \/ answered'[n] = answered[n] + 1
  <2>1. /\ answered \in [Requests -> Nat] /\ DOMAIN requests \subseteq Requests
        /\ answered[n] + 1 \in Nat /\ answered[n] <= answered[n] + 1
    BY DEF LateInv, LateRest, FreshInv
  <2>2. CASE UNCHANGED answered /\ p.kind = "ack"
    BY <2>1, <2>2
  <2>3. PICK k \in Nat : k = answered[n] + 1
    BY <2>1
  <2>4. CASE p.kind # "ack" /\ answered' = [answered EXCEPT ![n] = k]
    BY <2>1, <2>3, <2>4
  <2> QED BY <2>2, <2>3, <2>4
<1>3. FreshInv'
  BY <1>1, <1>2 DEF LateInv, LateRest, FreshInv
<1>4. \A m : SocketFor(m)' = SocketFor(m)
  BY DEF SocketFor, Kind, Addr
<1>5. \A a \in Addrs : Waits(a)' = Waits(a)
  BY <1>4 DEF Waits
<1>6. LateOnlyAfterGivingUp'
  <2>1. Later /\ Plain
    BY SameRequests DEF Arrives, Plain
  <2>2. \A m \in DOMAIN requests : answered[m] > 1 => answered'[m] > 1
    BY <1>2
  <2> QED BY <2>1, <2>2, GivenLate
<1>7. ASSUME NEW a \in Addrs
      PROVE  \/ buf'[Frame(a)] = buf[Frame(a)]
             \/ s = Frame(a) /\ buf'[Frame(a)] = Append(buf[Frame(a)], p)
  BY FrameQueue DEF Arrives, LateInv, ApartInv, TypeInv
<1>8. ASSUME NEW a \in Addrs
      PROVE  buf[Frame(a)] \in Seq(Packets) /\ (s = Frame(a) => SocketFor(n) = Frame(a))
  BY <1>1, FrameQueue DEF LateInv, LateRest, HomeInv
<1>9. HomeInv'
  <2>1. ASSUME NEW a \in Addrs, NEW i \in DOMAIN buf'[Frame(a)]
        PROVE  SocketFor(buf'[Frame(a)][i].to) = Frame(a)
    <3>1. CASE buf'[Frame(a)] = buf[Frame(a)]
      BY <2>1, <3>1 DEF LateInv, LateRest, HomeInv
    <3>2. CASE s = Frame(a) /\ buf'[Frame(a)] = Append(buf[Frame(a)], p)
      <4>1. \/ i \in DOMAIN buf[Frame(a)] /\ buf'[Frame(a)][i] = buf[Frame(a)][i]
            \/ buf'[Frame(a)][i] = p
        <5>1. PICK q, u : q \in Seq(Packets) /\ q = buf[Frame(a)] /\ u = Append(q, p)
          BY <1>8
        <5>2. \A x \in DOMAIN u : (x \in DOMAIN q /\ u[x] = q[x]) \/ u[x] = p
          BY <5>1, AppendAnswers
        <5> QED BY <2>1, <3>2, <5>1, <5>2
      <4> QED BY <1>8, <3>2, <4>1 DEF LateInv, LateRest, HomeInv
    <3> QED BY <1>7, <3>1, <3>2
  <2>2. \A a \in Addrs : \A m \in DOMAIN requests :
          <<m, Frame(a)>> \in asked => SocketFor(m) = Frame(a)
    BY DEF LateInv, LateRest, HomeInv
  <2> QED BY <1>4, <2>1, <2>2 DEF HomeInv
<1>10. SentInv'
  <2>1. ASSUME NEW a \in Addrs, NEW m \in Requests
        PROVE  /\ answered'[m] = 0 => None(buf'[Frame(a)], m)
               /\ answered'[m] <= 1 => One(buf'[Frame(a)], m)
    <3>1. /\ answered[m] = 0 => None(buf[Frame(a)], m)
          /\ answered[m] <= 1 => One(buf[Frame(a)], m)
      BY DEF LateInv, LateRest, SentInv
    <3>2. CASE buf'[Frame(a)] = buf[Frame(a)]
      BY <1>2, <3>1, <3>2
    <3>3. CASE buf'[Frame(a)] = Append(buf[Frame(a)], p)
      <4>1. PICK q \in Seq(Packets) : q = buf[Frame(a)]
        BY <1>8
      <4>2. /\ p.kind = "ack" \/ p.to # m =>
                 (None(q, m) => None(Append(q, p), m)) /\ (One(q, m) => One(Append(q, p), m))
            /\ None(q, m) => One(Append(q, p), m)
        BY AppendAnswers
      <4>3. PICK u : u = Append(q, p)
        OBVIOUS
      <4>4. /\ p.kind = "ack" \/ p.to # m =>
                 (None(q, m) => None(u, m)) /\ (One(q, m) => One(u, m))
            /\ None(q, m) => One(u, m)
        BY <4>2, <4>3
      <4>5. buf'[Frame(a)] = u /\ (answered[m] = 0 => None(q, m)) /\ (answered[m] <= 1 => One(q, m))
        BY <3>1, <3>3, <4>1, <4>3
      <4> HIDE DEF None, One
      <4> QED BY <1>2, <4>4, <4>5
    <3> QED BY <1>7, <3>2, <3>3
  <2> QED BY <2>1 DEF SentInv
<1>11. CleanInv'
  <2>1. ASSUME NEW a \in Addrs, Clean(a)'
        PROVE  /\ Only(buf'[Frame(a)], Waits(a))
               /\ \A m \in DOMAIN requests :
                    <<m, Frame(a)>> \in asked /\ m # Waits(a) => answered'[m] # 0
    <3>1. \A m \in DOMAIN requests :
            SocketFor(m) = Frame(a) /\ m # Waits(a) => m \notin gaveUp /\ answered'[m] <= 1
      BY <1>4, <1>5, <2>1 DEF Clean
    <3>2. Clean(a)
      BY <1>2, <3>1 DEF Clean
    <3>3. /\ Only(buf[Frame(a)], Waits(a))
          /\ \A m \in DOMAIN requests :
               <<m, Frame(a)>> \in asked /\ m # Waits(a) => answered[m] # 0
      BY <3>2 DEF LateInv, LateRest, CleanInv
    <3>4. \A m \in DOMAIN requests :
            <<m, Frame(a)>> \in asked /\ m # Waits(a) => answered'[m] # 0
      BY <1>2, <3>3
    <3>5. CASE buf'[Frame(a)] = buf[Frame(a)]
      BY <3>3, <3>4, <3>5
    <3>6. CASE s = Frame(a) /\ buf'[Frame(a)] = Append(buf[Frame(a)], p)
      <4>1. p.kind = "ack" \/ n = Waits(a)
        <5> SUFFICES ASSUME p.kind # "ack", n # Waits(a) PROVE FALSE
          OBVIOUS
        <5>1. answered[n] # 0 /\ answered'[n] <= 1
          BY <1>1, <1>8, <3>1, <3>3, <3>6
        <5> QED BY <1>1, <1>2, <5>1
      <4>2. Only(buf'[Frame(a)], Waits(a))
        BY <1>8, <3>3, <3>6, <4>1, AppendAnswers
      <4> QED BY <3>4, <4>2
    <3> QED BY <1>7, <3>5, <3>6
  <2> QED BY <1>5, <2>1 DEF CleanInv
<1> QED BY <1>3, <1>6, <1>9, <1>10, <1>11 DEF LateRest

\* A request is taken from its socket: it is fresh.
LEMMA ReceiveLate ==
  ASSUME LateInv, NEW n \in Requests, Receive(n)
  PROVE  LateRest'
<1>1. /\ n \in inbox /\ inbox' = inbox \ {n} /\ job = Idle
      /\ UNCHANGED <<requests, buf, answered, gaveUp>>
      /\ StartBlocking(n) \/ HandleLocally(n) \/ Forward(n)
  BY DEF Receive, clientVars
<1>2. /\ n \in DOMAIN requests /\ n # 0 /\ answered[n] = 0 /\ n \notin gaveUp
      /\ DOMAIN requests \subseteq Requests /\ job.request = 0
  BY <1>1, RequestParts DEF LateInv, LateRest, FreshInv, ApartInv, TypeInv
<1>3. \A m : SocketFor(m)' = SocketFor(m)
  BY <1>1 DEF SocketFor, Kind, Addr
<1>4. \A a \in Addrs : Waits(a) = 0
  BY <1>1 DEF Waits
<1>5. LateOnlyAfterGivingUp'
  <2>1. Plain
    BY <1>1, PlainSteps DEF StartBlocking, HandleLocally, Forward, Quiet
  <2>2. UNCHANGED upstream_to_client \/ Forward(n)
    BY <1>1 DEF StartBlocking, HandleLocally
  <2>3. Later
    <3>1. CASE UNCHANGED upstream_to_client
      BY <1>1, <3>1, SameRequests
    <3>2. CASE Forward(n)
      <4>1. PICK a \in Addrs : a = Addr(n)
        BY <1>2, RequestParts DEF LateInv, ApartInv
      <4>2. PICK t \in TermIds : t = TermOf(n)
        BY <1>2, RequestParts DEF LateInv, ApartInv
      <4>3. upstream_to_client' = [upstream_to_client EXCEPT ![t] = a]
        BY <3>2, <4>1, <4>2 DEF Forward
      <4>4. a # NoAddr
        OBVIOUS
      <4> QED BY <1>1, <4>3, <4>4 DEF Later, LateInv, ApartInv, TypeInv
    <3> QED BY <2>2, <3>1, <3>2
  <2> QED BY <1>1, <2>1, <2>3, GivenLate
<1>6. \/ \E stage : Proxy(n, stage, asked)
      \/ UNCHANGED <<job, asked>>
      \/ UNCHANGED job /\ \E t : asked' = asked \cup {<<n, <<"upstream", t>>>>}
  BY <1>1 DEF StartBlocking, HandleLocally, Forward
<1>7. CASE UNCHANGED <<job, asked>>
  <2>1. \A a \in Addrs : Waits(a)' = Waits(a)
    BY <1>3, <1>7 DEF Waits
  <2>2. \A x \in asked : x[1] \notin inbox
    BY DEF LateInv, LateRest, FreshInv
  <2>3. gaveUp \subseteq DOMAIN requests \ inbox /\ job.request \notin inbox
    BY DEF LateInv, LateRest, FreshInv
  <2> QED BY <1>1, <1>5, <1>7, <2>1, <2>2, <2>3, SameFrames
<1>8. CASE UNCHANGED job /\ \E t : asked' = asked \cup {<<n, <<"upstream", t>>>>}
  <2>1. \A a \in Addrs : Waits(a)' = Waits(a)
    BY <1>3, <1>8 DEF Waits
  <2>2. \A x \in asked : x[1] \notin inbox
    BY DEF LateInv, LateRest, FreshInv
  <2>3. gaveUp \subseteq DOMAIN requests \ inbox /\ job.request \notin inbox
    BY DEF LateInv, LateRest, FreshInv
  <2>4. \A x \in asked' : x \in asked \/ (x[1] = n /\ \A a \in Addrs : x[2] # Frame(a))
    BY <1>8 DEF Frame
  <2> QED BY <1>1, <1>5, <1>8, <2>1, <2>2, <2>3, <2>4, SameFrames
<1>9. CASE \E stage : Proxy(n, stage, asked)
  <2>1. /\ asked' = asked \cup {<<n, SocketFor(n)>>} /\ job'.request = n
        /\ job' # Idle
    BY <1>2, <1>9 DEF Proxy, Idle
  <2>3. FreshInv'
    BY <1>1, <1>2, <2>1 DEF LateInv, LateRest, FreshInv
  <2>4. HomeInv'
    BY <1>1, <1>3, <2>1 DEF LateInv, LateRest, HomeInv
  <2>5. SentInv'
    BY <1>1 DEF LateInv, LateRest, SentInv
  <2>6. ASSUME NEW a \in Addrs
        PROVE  Waits(a)' = IF SocketFor(n) = Frame(a) THEN n ELSE 0
    BY <1>3, <2>1 DEF Waits
  <2>7. ASSUME NEW a \in Addrs, Clean(a)'
        PROVE  /\ Only(buf[Frame(a)], Waits(a)')
               /\ \A m \in DOMAIN requests :
                    <<m, Frame(a)>> \in asked' /\ m # Waits(a)' => answered[m] # 0
    <3>1. Clean(a)
      BY <1>1, <1>2, <1>3, <1>4, <2>6, <2>7 DEF Clean
    <3>2. /\ Only(buf[Frame(a)], 0)
          /\ \A m \in DOMAIN requests : <<m, Frame(a)>> \in asked => answered[m] # 0
      <4>1. \A m \in DOMAIN requests : m # 0
        BY RequestParts DEF LateInv, ApartInv
      <4> QED BY <1>4, <3>1, <4>1 DEF LateInv, LateRest, CleanInv
    <3>3. Only(buf[Frame(a)], Waits(a)')
      BY <3>2, FrameQueue DEF LateInv
    <3> QED BY <2>1, <2>6, <3>2, <3>3
  <2>8. CleanInv'
    BY <1>1, <2>7 DEF CleanInv
  <2> QED BY <1>5, <2>3, <2>4, <2>5, <2>8 DEF LateRest
<1> QED BY <1>6, <1>7, <1>8, <1>9

\* The wait reads a packet: an answer too many would not be the first oddity.
LEMMA ReadLate ==
  ASSUME LateInv, ReadPacket
  PROVE  LateRest'
<1> DEFINE s == SocketFor(job.request)
<1>1. PICK n \in DOMAIN requests : n = job.request
  BY DEF ReadPacket, LateInv, ApartInv, TypeInv
<1>2. PICK p : p = Head(buf[s])
  OBVIOUS
<1>3. /\ job # Idle /\ s \in Sockets /\ buf[s] # <<>> /\ n # 0 /\ n \notin inbox
      /\ DOMAIN requests \subseteq Requests /\ s = SocketFor(n)
      /\ UNCHANGED <<requests, inbox, answered, upstream_to_client, gaveUp>>
  BY <1>1, SocketFits, RequestParts
     DEF ReadPacket, clientVars, LateInv, LateRest, FreshInv, ApartInv
<1>4. Fits(p.to, s) /\ buf[s] \in Seq(Packets) /\ p \in Packets
  <2>1. PICK b : b = [buf EXCEPT ![s] = Tail(@)]
    OBVIOUS
  <2> QED BY <1>2, <1>3, <2>1, TakenFits DEF LateInv, ApartInv, TypeInv
<1>5. \/ /\ Accepted(n, p) /\ Respond(n, p.to, extras) /\ job' = Idle /\ asked' = Unasked(s)
         /\ buf' = Dropped(s, [buf EXCEPT ![s] = Tail(@)])
      \/ /\ job' = [job EXCEPT !.read = IF @ < MaxRead THEN @ + 1 ELSE @]
         /\ buf' = [buf EXCEPT ![s] = Tail(@)] /\ UNCHANGED asked /\ given' = {}
  BY <1>1, <1>2 DEF ReadPacket
<1>6. \A m : SocketFor(m)' = SocketFor(m)
  BY <1>3 DEF SocketFor, Kind, Addr
<1>7. /\ \A a \in Addrs : \A m : <<m, Frame(a)>> \in asked' <=> <<m, Frame(a)>> \in asked
      /\ asked' \subseteq asked
  BY <1>5, FrameQueue DEF Unasked, Without, LateInv
<1>8. job'.request \notin inbox /\ job'.request \in {n, 0}
  <2>1. 0 \notin inbox
    BY RequestParts DEF LateInv, ApartInv, TypeInv
  <2>2. job \in [request : Nat, stage : Nat, read : Nat]
    BY DEF LateInv, ApartInv, TypeInv
  <2>3. job'.request = job.request \/ job'.request = 0
    BY <1>5, <2>2 DEF Idle
  <2> QED BY <1>1, <1>3, <2>1, <2>3
<1>9. Later
  BY <1>3, SameRequests
<1>10. CASE \A a \in Addrs : s # Frame(a)
  <2>1. Kind(n) # "INIT_INFO" /\ s = Certifying
    <3>1. Addr(n) \in Addrs
      BY <1>1, RequestParts DEF LateInv, ApartInv
    <3> QED BY <1>3, <1>10, <3>1 DEF SocketFor, Frame
  <2>2. p.to = n
    BY <1>1, <1>4, <2>1 DEF Fits, Certifying
  <2>3. \A a \in Addrs : buf'[Frame(a)] = buf[Frame(a)]
    BY <1>5, <1>10, FrameQueue DEF Dropped, LateInv, ApartInv, TypeInv
  <2>4. \A a \in Addrs : Waits(a) = 0 /\ Waits(a)' = 0
    <3>1. job'.request = n \/ job' = Idle
      BY <1>1, <1>5 DEF LateInv, ApartInv, TypeInv
    <3> QED BY <1>1, <1>3, <1>6, <1>10, <3>1 DEF Waits
  <2>5. LateOnlyAfterGivingUp'
    <3>1. Plain
      BY <1>5, <2>2, PlainSteps
    <3> QED BY <1>3, <1>9, <3>1, GivenLate
  <2>6. gaveUp \subseteq DOMAIN requests \ inbox /\ \A x \in asked : x[1] \notin inbox
    BY DEF LateInv, LateRest, FreshInv
  <2> QED BY <1>3, <1>7, <1>8, <2>3, <2>4, <2>5, <2>6, SameFrames
<1>11. ASSUME NEW a0 \in Addrs, s = Frame(a0) PROVE LateRest'
  <2> DEFINE q == buf[s]
  <2>1. Addr(n) = a0 /\ Kind(n) = "INIT_INFO" /\ s # Certifying
    BY <1>3, <1>11, FrameAsker, FrameQueue DEF LateInv
  <2>2. /\ buf'[s] = Tail(q)
        /\ \A a \in Addrs : a # a0 => buf'[Frame(a)] = buf[Frame(a)]
    <3>1. buf' = [buf EXCEPT ![s] = Tail(@)]
      BY <1>5, <2>1 DEF Dropped
    <3>2. \A a \in Addrs : a # a0 => Frame(a) # s
      BY <1>11 DEF Frame
    <3> QED BY <1>3, <3>1, <3>2, FrameQueue DEF LateInv, ApartInv, TypeInv
  <2>3. /\ 1 \in DOMAIN q /\ q[1] = p
        /\ p.kind # "ack" => 1 \in Answers(q, p.to)
    <3>1. 1 \in DOMAIN q /\ q[1] = p
      BY <1>2, <1>3, <1>4, LenProperties, EmptySeq, HeadTailProperties
    <3> QED BY <3>1 DEF Answers
  <2>4. FreshInv'
    BY <1>3, <1>7, <1>8 DEF LateInv, LateRest, FreshInv
  <2>5. HomeInv'
    <3>1. ASSUME NEW a \in Addrs, NEW i \in DOMAIN buf'[Frame(a)]
          PROVE  SocketFor(buf'[Frame(a)][i].to) = Frame(a)
      <4>1. CASE a # a0
        BY <2>2, <3>1, <4>1 DEF LateInv, LateRest, HomeInv
      <4>2. CASE a = a0
        <5>1. PICK t : t = Tail(q)
          OBVIOUS
        <5>2. \A x \in DOMAIN t : \E j \in DOMAIN q : t[x] = q[j]
          <6>1. q \in Seq(Packets) /\ q # <<>>
            BY <1>3, <1>4
          <6> HIDE DEF q
          <6>2. \A x \in DOMAIN Tail(q) : \E j \in DOMAIN q : Tail(q)[x] = q[j]
            BY <6>1, TailAnswers
          <6> QED BY <5>1, <6>2, Zenon
        <5>3. buf'[Frame(a)] = t /\ q = buf[Frame(a0)] /\ a0 \in Addrs
          BY <1>11, <2>2, <4>2, <5>1
        <5>4. PICK j \in DOMAIN q : t[i] = q[j]
          BY <3>1, <5>2, <5>3
        <5>5. SocketFor(q[j].to) = Frame(a0)
          BY <5>3, <5>4 DEF LateInv, LateRest, HomeInv
        <5> QED BY <4>2, <5>3, <5>4, <5>5
      <4> QED BY <4>1, <4>2
    <3> QED BY <1>3, <1>6, <1>7, <3>1 DEF LateInv, LateRest, HomeInv
  <2>6. SentInv'
    <3>1. ASSUME NEW a \in Addrs, NEW m \in Requests
          PROVE  /\ answered[m] = 0 => None(buf'[Frame(a)], m)
                 /\ answered[m] <= 1 => One(buf'[Frame(a)], m)
      <4>1. /\ answered[m] = 0 => None(buf[Frame(a)], m)
            /\ answered[m] <= 1 => One(buf[Frame(a)], m)
        BY DEF LateInv, LateRest, SentInv
      <4>2. CASE a # a0
        BY <2>2, <4>1, <4>2
      <4>3. CASE a = a0
        BY <1>3, <1>4, <1>11, <2>2, <4>1, <4>3, TailAnswers
      <4> QED BY <4>2, <4>3
    <3> QED BY <1>3, <3>1 DEF SentInv
  <2>7. \A a \in Addrs : Waits(a) = IF a = a0 THEN n ELSE 0
    BY <1>1, <1>3, <1>11 DEF Waits, Frame
  <2>8. CASE UNCHANGED asked /\ given' = {} /\ job' = [job EXCEPT !.read = IF @ < MaxRead THEN @ + 1 ELSE @]
    <3>1. job' # Idle /\ job'.request = n
      BY <1>1, <1>3, <2>8 DEF LateInv, ApartInv, TypeInv, Idle
    <3>2. \A a \in Addrs : Waits(a)' = Waits(a)
      BY <1>1, <1>3, <1>6, <3>1 DEF Waits
    <3>3. \A a \in Addrs : Clean(a)' => Clean(a)
      BY <1>3, <1>6, <3>2 DEF Clean
    <3>4. ASSUME NEW a \in Addrs, Only(buf[Frame(a)], Waits(a))
          PROVE  Only(buf'[Frame(a)], Waits(a))
      BY <1>3, <1>4, <1>11, <2>2, <3>4, TailAnswers
    <3>5. CleanInv'
      BY <1>3, <2>8, <3>2, <3>3, <3>4 DEF LateInv, LateRest, CleanInv
    <3>6. LateOnlyAfterGivingUp'
      BY <1>3, <1>9, <2>8, PlainSteps, GivenLate
    <3> QED BY <2>4, <2>5, <2>6, <3>5, <3>6 DEF LateRest
  <2>9. CASE Accepted(n, p) /\ Respond(n, p.to, extras) /\ job' = Idle
    <3>1. p.kind # "ack"
      BY <2>9 DEF Accepted
    <3>2. \A a \in Addrs : Waits(a)' = 0
      BY <2>9 DEF Waits
    <3>3. Clean(a0) =>
            /\ p.to = n /\ Only(q, n)
            /\ \A m \in DOMAIN requests : <<m, s>> \in asked /\ m # n => answered[m] # 0
      BY <1>11, <2>3, <2>7, <3>1 DEF LateInv, LateRest, CleanInv, Only
    <3>4. LateOnlyAfterGivingUp'
      <4>1. CASE p.to = n
        BY <1>3, <1>9, <2>9, <4>1, PlainSteps, GivenLate
      <4>2. CASE p.to # n
        <5>1. PICK m \in DOMAIN requests : SocketFor(m) = Frame(a0) /\ m # n
                                             /\ ~ (m \notin gaveUp /\ answered[m] <= 1)
          BY <2>7, <3>3, <4>2 DEF Clean
        <5>2. answered[m] \in Nat
          BY <1>3 DEF LateInv, LateRest, FreshInv
        <5>3. m \in gaveUp \/ answered[m] > 1
          BY <5>1, <5>2
        <5>4. Addr(m) = a0 /\ Kind(m) = "INIT_INFO"
          BY <5>1, FrameAsker
        <5>5. \A g \in given' : g.request = 0 \/ (g.addr = a0 /\ g.request = n)
          BY <2>1, <2>9 DEF Respond, Answer
        <5> QED BY <1>3, <5>1, <5>3, <5>4, <5>5 DEF LateOnlyAfterGivingUp, Addr, Kind
      <4> QED BY <4>1, <4>2
    <3>5. ASSUME NEW a \in Addrs, Clean(a)'
          PROVE  /\ Only(buf'[Frame(a)], 0)
                 /\ \A m \in DOMAIN requests : <<m, Frame(a)>> \in asked => answered[m] # 0
      <4>1. \A m \in DOMAIN requests : SocketFor(m) = Frame(a) => m \notin gaveUp /\ answered[m] <= 1
        <5>1. \A m \in DOMAIN requests : m # 0
          BY RequestParts DEF LateInv, ApartInv
        <5> QED BY <1>3, <1>6, <3>2, <3>5, <5>1 DEF Clean
      <4>2. Clean(a)
        BY <4>1 DEF Clean
      <4>3. CASE a # a0
        <5>1. \A m \in DOMAIN requests : m # 0
          BY RequestParts DEF LateInv, ApartInv
        <5> QED BY <2>2, <2>7, <4>2, <4>3, <5>1 DEF LateInv, LateRest, CleanInv
      <4>4. CASE a = a0
        <5>1. One(q, n) /\ 1 \in Answers(q, n)
          BY <1>1, <1>3, <1>11, <2>3, <3>1, <3>3, <4>1, <4>2, <4>4 DEF LateInv, LateRest, SentInv
        <5>2. None(Tail(q), n) /\ Only(Tail(q), n)
          BY <1>3, <1>4, <3>3, <4>2, <4>4, <5>1, TailAnswers
        <5>3. Only(Tail(q), 0)
          BY <5>2, OnlyNone
        <5>4. answered[n] # 0
          BY <1>3, <1>11, <5>1 DEF LateInv, LateRest, SentInv, None
        <5> QED BY <1>11, <2>2, <3>3, <4>2, <4>4, <5>3, <5>4
      <4> QED BY <4>3, <4>4
    <3>6. CleanInv'
      BY <1>3, <1>7, <3>2, <3>5 DEF CleanInv
    <3> QED BY <2>4, <2>5, <2>6, <3>4, <3>6 DEF LateRest
  <2> QED BY <1>5, <2>8, <2>9
<1> QED BY <1>10, <1>11

\* The wait ends without an answer: the request is given up, and its socket
\* no longer counts on it.
LEMMA EndLate ==
  ASSUME LateInv, GiveUp \/ ProxyFails
  PROVE  LateRest'
<1> DEFINE s == SocketFor(job.request)
<1>1. PICK n \in DOMAIN requests : n = job.request
  BY DEF GiveUp, ProxyFails, LateInv, ApartInv, TypeInv
<1>2. /\ job # Idle /\ s \in Sockets /\ n # 0 /\ n \notin inbox /\ s = SocketFor(n)
      /\ DOMAIN requests \subseteq Requests
      /\ gaveUp' = gaveUp \cup {n}
      /\ UNCHANGED <<requests, inbox, answered, upstream_to_client>>
  BY <1>1, SocketFits, RequestParts
     DEF GiveUp, ProxyFails, clientVars, LateInv, LateRest, FreshInv, ApartInv
<1>3. PICK others : others \subseteq asked /\ Instead(n, others)
  BY <1>1 DEF GiveUp, ProxyFails, Unasked, Without
<1>4. buf' = buf \/ buf' = [buf EXCEPT ![s] = <<>>]
  BY DEF GiveUp, ProxyFails, Dropped
<1>5. \/ Proxy(n, 2, others) /\ given' = {}
      \/ job' = Idle /\ asked' = others /\ (Respond(n, n, extras) \/ Silent(n))
  BY <1>3 DEF Instead, Quiet
<1>6. \A m : SocketFor(m)' = SocketFor(m)
  BY <1>2 DEF SocketFor, Kind, Addr
<1>7. asked' \subseteq asked \cup {<<n, s>>}
  BY <1>2, <1>3, <1>5 DEF Proxy
<1>8. job'.request \notin inbox /\ (job' = Idle \/ (job' # Idle /\ job'.request = n))
  <2>1. 0 \notin inbox
    BY RequestParts DEF LateInv, ApartInv, TypeInv
  <2> QED BY <1>2, <1>5, <2>1 DEF Proxy, Idle
<1>9. LateOnlyAfterGivingUp'
  <2>1. Plain
    BY <1>5, PlainSteps
  <2>2. Later
    BY <1>2, SameRequests
  <2> QED BY <1>2, <2>1, <2>2, GivenLate
<1>10. ASSUME NEW a \in Addrs
       PROVE  buf'[Frame(a)] = buf[Frame(a)] \/ (s = Frame(a) /\ buf'[Frame(a)] = <<>>)
  BY <1>4, FrameQueue DEF LateInv, ApartInv, TypeInv
<1>11. FreshInv'
  BY <1>2, <1>7, <1>8 DEF LateInv, LateRest, FreshInv
<1>12. HomeInv'
  <2>1. ASSUME NEW a \in Addrs, NEW i \in DOMAIN buf'[Frame(a)]
        PROVE  SocketFor(buf'[Frame(a)][i].to) = Frame(a)
    <3>1. buf'[Frame(a)] # <<>>
      BY <2>1, EmptySeq
    <3> QED BY <1>10, <2>1, <3>1 DEF LateInv, LateRest, HomeInv
  <2> QED BY <1>2, <1>6, <1>7, <2>1 DEF LateInv, LateRest, HomeInv
<1>13. SentInv'
  <2>1. ASSUME NEW a \in Addrs, NEW m \in Requests
        PROVE  /\ answered[m] = 0 => None(buf'[Frame(a)], m)
               /\ answered[m] <= 1 => One(buf'[Frame(a)], m)
    BY <1>10, EmptyAnswers DEF LateInv, LateRest, SentInv
  <2> QED BY <1>2, <2>1 DEF SentInv
<1>14. ASSUME NEW a \in Addrs, Clean(a)'
       PROVE  /\ Only(buf'[Frame(a)], Waits(a)')
              /\ \A m \in DOMAIN requests :
                   <<m, Frame(a)>> \in asked' /\ m # Waits(a)' => answered[m] # 0
  <2>1. \A m \in DOMAIN requests :
          SocketFor(m) = Frame(a) /\ m # Waits(a)' => m \notin gaveUp' /\ answered[m] <= 1
    BY <1>2, <1>6, <1>14 DEF Clean
  <2>2. Waits(a)' = Waits(a)
    <3>1. Waits(a) = IF s = Frame(a) THEN n ELSE 0
      BY <1>1, <1>2 DEF Waits
    <3>2. Waits(a)' = IF job' # Idle /\ s = Frame(a) THEN n ELSE 0
      BY <1>2, <1>6, <1>8 DEF Waits
    <3> QED BY <1>2, <2>1, <3>1, <3>2
  <2>3. Clean(a)
    BY <1>2, <2>1, <2>2 DEF Clean
  <2>4. /\ Only(buf[Frame(a)], Waits(a))
        /\ \A m \in DOMAIN requests :
             <<m, Frame(a)>> \in asked /\ m # Waits(a) => answered[m] # 0
    BY <2>3 DEF LateInv, LateRest, CleanInv
  <2>5. s = Frame(a) => Waits(a) = n
    BY <1>1, <1>2 DEF Waits
  <2> QED BY <1>7, <1>10, <2>2, <2>4, <2>5, EmptyAnswers
<1>15. CleanInv'
  BY <1>2, <1>14 DEF CleanInv
<1> QED BY <1>9, <1>11, <1>12, <1>13, <1>15 DEF LateRest

\* The sockets of proxy mode, and steps that touch no socket.
LEMMA OtherLate ==
  ASSUME LateInv, UNCHANGED <<requests, inbox, job, asked, answered, upstream_to_client, gaveUp>>,
         UNCHANGED buf \/ \E t : buf' = [buf EXCEPT ![<<"upstream", t>>] = Tail(@)],
         UNCHANGED given \/ Plain
  PROVE  LateRest'
<1>1. \A a \in Addrs : buf'[Frame(a)] = buf[Frame(a)] /\ Waits(a)' = Waits(a)
  BY FrameQueue DEF Waits, SocketFor, Kind, Addr, LateInv, ApartInv, TypeInv
<1>2. LateOnlyAfterGivingUp'
  BY SameRequests, GivenLate
<1> QED BY <1>1, <1>2, SameFrames DEF LateInv, LateRest, FreshInv

\* Nothing is asked, answered or given up at the start.
LEMMA InitLate == Init => LateInv
<1> SUFFICES ASSUME Init PROVE LateInv
  OBVIOUS
<1>1. ApartInv
  BY InitApart
<1>2. \A a \in Addrs : buf[Frame(a)] = <<>>
  BY <1>1, FrameQueue DEF Init
<1>3. DOMAIN requests = {}
  BY EmptySeq DEF Init
<1>4. FreshInv
  BY <1>3 DEF Init, FreshInv, Idle
<1>5. HomeInv
  BY <1>2, <1>3, EmptySeq DEF HomeInv
<1>6. SentInv
  BY <1>2, EmptyAnswers DEF SentInv
<1>7. CleanInv
  BY <1>2, <1>3, EmptyAnswers DEF CleanInv
<1>8. LateOnlyAfterGivingUp
  BY DEF Init, LateOnlyAfterGivingUp
<1> QED BY <1>1, <1>4, <1>5, <1>6, <1>7, <1>8 DEF LateInv, LateRest

\* Every step keeps the books of the persistent sockets.
LEMMA NextLate == LateInv /\ [Next]_vars => LateInv'
<1> SUFFICES ASSUME LateInv, [Next]_vars PROVE LateInv'
  OBVIOUS
<1>0. ApartInv'
  BY NextApart DEF LateInv
<1>1. CASE UNCHANGED vars \/ KeepaliveTurn
  BY <1>0, <1>1, OtherLate DEF vars, KeepaliveTurn, marsVars, clientVars, LateInv, Plain
<1>2. ASSUME NEW n \in Requests, NEW s \in Sockets, MarsAcks(n, s) PROVE LateInv'
  <2>0. [to |-> n, kind |-> "ack"] \in Packets
    BY DEF Packets, Requests
  <2>1. PICK p \in Packets : p = [to |-> n, kind |-> "ack"]
    BY <2>0
  <2> QED BY <1>0, <1>2, <2>1, MarsLate DEF MarsAcks, clientVars, marsVars, LateInv
<1>3. ASSUME NEW n \in Requests, NEW s \in Sockets, NEW kind \in {"resp", "other"},
             MarsAnswers(n, s, kind)
      PROVE  LateInv'
  <2>0. [to |-> n, kind |-> kind] \in Packets
    BY DEF Packets, Requests
  <2>1. PICK p \in Packets : p = [to |-> n, kind |-> kind]
    BY <2>0
  <2> QED BY <1>0, <1>3, <2>1, MarsLate DEF MarsAnswers, clientVars, LateInv
<1>4. ASSUME NEW t, UpstreamReceive(t) PROVE LateInv'
  <2>1. Plain
    BY <1>4 DEF UpstreamReceive, Plain, Answer
  <2>2. \E u : buf' = [buf EXCEPT ![<<"upstream", u>>] = Tail(@)]
    BY <1>4 DEF UpstreamReceive
  <2>3. UNCHANGED <<requests, inbox, job, asked, answered, upstream_to_client, gaveUp>>
    BY <1>4 DEF UpstreamReceive, clientVars, marsVars
  <2>4. LateRest'
    BY <2>1, <2>2, <2>3, OtherLate
  <2> QED BY <1>0, <2>4 DEF LateInv
<1>5. ASSUME NEW a, TcpHandlerEnds(a) \/ \E e \in extras : TcpWritesExtra(a, e) PROVE LateInv'
  BY <1>0, <1>5, OtherLate
     DEF TcpHandlerEnds, TcpWritesExtra, clientVars, marsVars, LateInv, Plain, Answer
<1> QED BY <1>0, <1>1, <1>2, <1>3, <1>4, <1>5, SendLate, ReceiveLate, ReadLate, EndLate DEF Next, LateInv

\* A client gets Mars' answer to another request of its own only if one of its
\* requests was given up or answered more than once, however many it sends
\* (gutes_relay.py 556-566).
THEOREM LateForAReason == Spec => []LateOnlyAfterGivingUp
<1>1. LateInv => LateOnlyAfterGivingUp
  BY DEF LateInv, LateRest
<1> QED BY <1>1, InitLate, NextLate, PTL DEF Spec
=============================================================================
