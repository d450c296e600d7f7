------------------------------ MODULE Upstream ------------------------------
(***************************************************************************)
(* The relay and the real Mars server (gutes_relay.py): requests that are  *)
(* proxied while the event loop blocks, the ACKs of Mars in the list all    *)
(* handlers share, the upstream sockets of proxy mode, and the keepalive    *)
(* task, which has to wait like everybody else.                             *)
(*                                                                         *)
(* A request is numbered in the order of sending.  An answer of Mars is a  *)
(* packet that names the request it is for and the socket it comes to; the *)
(* relay looks at neither, only at the kind of the packet.                 *)
(***************************************************************************)
EXTENDS Naturals, Sequences

CONSTANTS
  Doorbells,    \* addresses of the doorbell: it gets a new port now and then
  Bridges,      \* addresses of the bridge
  TcpAddrs,     \* those that are TCP connections, not UDP ports
  NoAddr,       \* the absence of an address
  MAX_MISSES,   \* keepalives after which the doorbell counts as dormant (3)
  MaxRead,      \* packets a proxied request looks at (10)
  MaxRequests,  \* bound: requests of all clients
  MaxAnswers    \* bound: packets other than ACKs Mars sends for a request

Addrs    == Doorbells \cup Bridges
Requests == 1 .. MaxRequests

\* A KEEPALIVE is one of the frames that are answered locally or passed on; a
\* SHORT frame has no complete header, and with it no term id.
Kinds    == {"INIT_INFO", "CERTIFY", "CERTIFY_ACK", "KEEPALIVE", "SHORT"}

ASSUME AddrsAssumption  == Doorbells \cap Bridges = {} /\ TcpAddrs \subseteq Addrs /\ NoAddr \notin Addrs
ASSUME LimitsAssumption == {MAX_MISSES, MaxRead} \subseteq Nat \ {0}
ASSUME BoundsAssumption == {MaxRequests, MaxAnswers} \subseteq Nat

VARIABLES
  mode,          \* "relay" or "proxy"
  requests,      \* the requests sent, as <<address, kind>>
  inbox,         \* those that wait in a socket of the relay
  job,           \* the request that blocks the event loop, or Idle
  buf,           \* packets in the upstream sockets
  asked,         \* <<request, socket>> that Mars may answer
  extras,        \* _extra_responses: [addr, to], an ACK of Mars for request to
  writing,       \* TCP clients whose handler writes out the extras
  upstream_to_client,  \* the address that sent last with a term id
  keyed,         \* addresses in addr_session_keys
  doorbell_addr, keepalive_misses,
  given,         \* what the last step gave to clients, see Answer
  gaveUp,        \* history: requests the relay has stopped waiting for
  answered,      \* history: packets other than ACKs Mars has sent for a request
  unheard        \* history: keepalives since a sign of the doorbell arrived

marsVars   == <<asked, answered>>
clientVars == <<requests, mode>>
listVars   == <<extras, writing>>
dozeVars   == <<doorbell_addr, keepalive_misses, unheard>>
vars == <<mode, requests, inbox, job, buf, marsVars, listVars, upstream_to_client, keyed, dozeVars, given, gaveUp>>

Idle == [request |-> 0, stage |-> 0, read |-> 0]

Addr(n) == requests[n][1]
Kind(n) == requests[n][2]

\* decode_term_id, 0 for a frame without a complete header.
TermId(a) == IF a \in Doorbells THEN "doorbell" ELSE "bridge"
TermOf(n) == IF Kind(n) = "SHORT" THEN "none" ELSE TermId(Addr(n))
TermIds   == {TermId(a) : a \in Addrs} \cup {"none"}

\* _mars_proxy_socks has a socket per address; a CERTIFY has one of its own,
\* closed after use; upstream_socks has one per term id.
Certifying    == <<"certify", NoAddr>>
UpstreamSocks == {<<"upstream", t>> : t \in TermIds}
Sockets       == {<<"frame", a>> : a \in Addrs} \cup UpstreamSocks \cup {Certifying}

Init ==
  /\ mode \in {"relay", "proxy"}
  /\ requests = <<>> /\ inbox = {} /\ job = Idle
  /\ buf = [s \in Sockets |-> <<>>]
  /\ asked = {} /\ answered = [n \in Requests |-> 0]
  /\ extras = {} /\ writing = {}
  /\ upstream_to_client = [t \in TermIds |-> NoAddr]
  /\ keyed = {}
  /\ doorbell_addr = NoAddr /\ keepalive_misses = 0 /\ unheard = 0
  /\ given = {} /\ gaveUp = {}

-----------------------------------------------------------------------------
(* Clients and Mars                                                        *)

\* What handle_packet takes for a sign of life of the doorbell.
Sign(a, k) == a \in Doorbells /\ k \in {"KEEPALIVE", "INIT_INFO"}
IsSign(n)  == Sign(Addr(n), Kind(n))

\* Only in relay mode does the relay itself read from TCP connections.
Send(a, k) ==
  /\ Len(requests) < MaxRequests
  /\ a \in TcpAddrs => mode = "relay"
  /\ requests' = Append(requests, <<a, k>>)
  /\ inbox' = inbox \cup {Len(requests')}
  /\ unheard' = IF Sign(a, k) THEN 0 ELSE unheard
  /\ given' = {}
  /\ UNCHANGED <<mode, job, buf, marsVars, listVars, upstream_to_client, keyed, doorbell_addr, keepalive_misses, gaveUp>>

Arrives(p, s) ==
  /\ buf' = [buf EXCEPT ![s] = Append(@, p)]
  /\ given' = {}

\* Answers, notifications and copies, at any time, in any order.  Proxy mode
\* passes on whatever comes, so one kind will do there.
MarsAnswers(n, s, kind) ==
  /\ <<n, s>> \in asked /\ answered[n] < MaxAnswers
  /\ s \in UpstreamSocks => kind = "resp"
  /\ answered' = [answered EXCEPT ![n] = @ + 1]
  /\ Arrives([to |-> n, kind |-> kind], s)
  /\ UNCHANGED <<clientVars, inbox, job, asked, listVars, upstream_to_client, keyed, dozeVars, gaveUp>>

\* ACKs, as many as Mars likes.
MarsAcks(n, s) ==
  /\ <<n, s>> \in asked /\ buf[s] = <<>> /\ s \notin UpstreamSocks
  /\ Arrives([to |-> n, kind |-> "ack"], s)
  /\ UNCHANGED <<clientVars, inbox, job, marsVars, listVars, upstream_to_client, keyed, dozeVars, gaveUp>>

-----------------------------------------------------------------------------
(* on_client_certified for the doorbell, and its other signs of life       *)

Certified_AddrOnly(a) ==         \* mutant: the misses are kept
  IF a \in Doorbells THEN doorbell_addr' = a /\ UNCHANGED <<keepalive_misses, unheard>>
                     ELSE UNCHANGED dozeVars
Certified(a) ==
  IF a \in Doorbells THEN doorbell_addr' = a /\ keepalive_misses' = 0 /\ UNCHANGED unheard
                     ELSE UNCHANGED dozeVars

-----------------------------------------------------------------------------
(* What handle_packet's caller sends                                       *)

Answer(a, n, m, via) == [addr |-> a, request |-> n, meant |-> m, via |-> via]

\* The response to request n is what Mars meant for request m.  A receive loop
\* first sends every queued extra to the address it was queued for; a TCP
\* handler writes the response, and then starts on the list.
Respond(n, m, queue) ==
  LET response == Answer(Addr(n), n, m, "resp")
  IN IF Addr(n) \in TcpAddrs
     THEN /\ given' = {response}
          /\ extras' = queue /\ writing' = writing \cup {Addr(n)}
     ELSE /\ given' = {response} \cup {Answer(e.addr, 0, e.to, "extra") : e \in queue}
          /\ extras' = {} /\ UNCHANGED writing

\* Without a response a receive loop leaves the list alone.
Silent(n) ==
  /\ given' = {} /\ UNCHANGED extras
  /\ writing' = IF Addr(n) \in TcpAddrs THEN writing \cup {Addr(n)} ELSE writing

Quiet == given' = {} /\ UNCHANGED listVars

\* The TCP handler gives its own client whatever is in the list; each drain()
\* lets other handlers add to it and take from it.
TcpWritesExtra(a, e) ==
  /\ job = Idle /\ a \in writing /\ e \in extras
  /\ given' = {Answer(a, 0, e.to, "tcp")}
  /\ UNCHANGED <<clientVars, inbox, job, buf, marsVars, listVars, upstream_to_client, keyed, dozeVars, gaveUp>>

\* It clears the list, unless that was empty or the connection broke.
TcpHandlerEnds(a) ==
  /\ job = Idle /\ a \in writing
  /\ writing' = writing \ {a}
  /\ extras' \in {{}, extras}
  /\ given' = {}
  /\ UNCHANGED <<clientVars, inbox, job, buf, marsVars, upstream_to_client, keyed, dozeVars, gaveUp>>

-----------------------------------------------------------------------------
(* handle_packet blocks: _proxy_frame_to_mars, _proxy_certify_to_mars      *)

SocketFor_Shared(n) ==           \* mutant: one socket for all clients
  IF Kind(n) = "INIT_INFO" THEN <<"frame", CHOOSE a \in Addrs : TRUE>> ELSE Certifying
SocketFor(n) == IF Kind(n) = "INIT_INFO" THEN <<"frame", Addr(n)>> ELSE Certifying

\* What ends the wait: a CERTIFY_RESP for CERTIFY, and for other frames
\* anything that is a response or else no ACK and of another type.
Accepted_Any(n, p) == TRUE       \* mutant: the first packet is the answer
Accepted(n, p) ==
  \/ p.kind = "resp"
  \/ p.kind = "other" /\ Kind(n) = "INIT_INFO"

MayRead_Always(j) == TRUE        \* mutant: until the socket is silent
MayRead(j) == j.read < MaxRead

\* The CERTIFY socket is closed when the wait is over: what is in it or on its
\* way to it is lost.  A persistent socket keeps what it has not delivered.
Dropped(s, b) == IF s = Certifying THEN [b EXCEPT ![s] = <<>>] ELSE b
Without(s)    == {x \in asked : x[2] # s}
Unasked(s)    == IF s = Certifying THEN Without(s) ELSE asked

Proxy(n, stage, others) ==
  /\ job' = [request |-> n, stage |-> stage, read |-> 0]
  /\ asked' = others \cup {<<n, SocketFor(n)>>}

\* Nothing usable from Mars.  INIT_INFO of a device takes the captured key, if
\* there is one, else tries Mars again unless the address has a key, else
\* predicts; CERTIFY of a device is handled like one of the bridge, where the
\* certify key may not fit.  CERTIFY_ACK needs no answer.
Instead(n, others) ==
  \E key \in BOOLEAN :
    LET a == Addr(n)
        has == key \/ (Kind(n) = "INIT_INFO" /\ a \in keyed)
        again == ~ has /\ job.stage = 1 /\ Kind(n) # "CERTIFY_ACK"
    IN /\ IF again THEN Proxy(n, 2, others) /\ Quiet /\ UNCHANGED <<keyed, dozeVars>>
          ELSE /\ job' = Idle
               /\ asked' = others
               /\ IF Kind(n) = "CERTIFY_ACK" THEN Silent(n) /\ UNCHANGED <<keyed, dozeVars>>
                  ELSE /\ Respond(n, n, extras)
                       /\ keyed' = IF has THEN keyed \cup {a} ELSE keyed
                       /\ IF Kind(n) = "CERTIFY" THEN Certified(a) ELSE UNCHANGED dozeVars

\* Waiting ends with the packet in front; others are skipped, but an ACK that
\* comes to the CERTIFY socket is queued for the client.
ReadPacket ==
  LET n == job.request
      s == SocketFor(n)
      p == Head(buf[s])
      rest == [buf EXCEPT ![s] = Tail(@)]
      acks == IF p.kind = "ack" /\ s = Certifying THEN {[addr |-> Addr(n), to |-> p.to]} ELSE {}
  IN /\ job # Idle /\ buf[s] # <<>> /\ MayRead(job)
     /\ IF Accepted(n, p)
        THEN /\ Respond(n, p.to, extras)
             /\ job' = Idle
             /\ asked' = Unasked(s)
             /\ buf' = Dropped(s, rest)
             /\ IF Kind(n) = "CERTIFY" THEN Certified(Addr(n)) ELSE UNCHANGED dozeVars
        ELSE /\ job' = [job EXCEPT !.read = IF @ < MaxRead THEN @ + 1 ELSE @]
             /\ buf' = rest
             /\ extras' = extras \cup acks /\ given' = {}
             /\ UNCHANGED <<asked, writing, dozeVars>>
     /\ UNCHANGED <<clientVars, inbox, answered, upstream_to_client, keyed, gaveUp>>

\* 3 s without a packet, or too many packets of no use.
GiveUp ==
  /\ job # Idle
  /\ buf[SocketFor(job.request)] = <<>> \/ ~ MayRead(job)
  /\ Instead(job.request, Unasked(SocketFor(job.request)))
  /\ buf' = Dropped(SocketFor(job.request), buf)
  /\ gaveUp' = gaveUp \cup {job.request}
  /\ UNCHANGED <<clientVars, inbox, answered, upstream_to_client>>

\* An exception: the persistent socket is forgotten with all it would deliver.
ProxyFails ==
  LET s == SocketFor(job.request)
  IN /\ job # Idle
     /\ Instead(job.request, Without(s))
     /\ buf' = [buf EXCEPT ![s] = <<>>]
     /\ gaveUp' = gaveUp \cup {job.request}
     /\ UNCHANGED <<clientVars, inbox, answered, upstream_to_client>>

-----------------------------------------------------------------------------
(* The other handlers, and the loops                                       *)

\* INIT_INFO in either mode, and CERTIFY in relay mode: a request of a device,
\* or of a bridge without a session key, is proxied.  INIT_INFO counts as
\* certification before anything else.
StartBlocking(n) ==
  LET a == Addr(n)
  IN /\ \/ Kind(n) = "INIT_INFO"
        \/ Kind(n) = "CERTIFY" /\ mode = "relay"
        \/ Kind(n) = "CERTIFY_ACK" /\ mode = "relay" /\ a \in Doorbells
     /\ \/ a \in Doorbells /\ Proxy(n, 1, asked) /\ Quiet /\ UNCHANGED keyed
        \/ a \notin Doorbells /\ a \notin keyed /\ Proxy(n, 2, asked) /\ Quiet /\ UNCHANGED keyed
        \/ /\ a \notin Doorbells
           /\ Respond(n, n, extras) /\ keyed' = keyed \cup {a}
           /\ UNCHANGED <<job, asked>>
     /\ IF Kind(n) = "INIT_INFO" THEN Certified(a) ELSE UNCHANGED dozeVars
     /\ UNCHANGED upstream_to_client

Heard(n) ==
  IF Kind(n) = "KEEPALIVE" /\ IsSign(n)
  THEN keepalive_misses' = 0 /\ UNCHANGED <<doorbell_addr, unheard>>
  ELSE UNCHANGED dozeVars

\* Frames that are answered without Mars, or not at all.
HandleLocally(n) ==
  /\ \/ Kind(n) = "KEEPALIVE" /\ Respond(n, n, extras)
     \/ /\ mode = "relay" /\ Silent(n)
        /\ Kind(n) \in {"KEEPALIVE", "SHORT"} \/ (Kind(n) = "CERTIFY_ACK" /\ Addr(n) \notin Doorbells)
  /\ Heard(n)
  /\ UNCHANGED <<job, asked, upstream_to_client, keyed>>

\* _forward_to_upstream: the frames that get no local answer in proxy mode.
Forward(n) ==
  /\ mode = "proxy" /\ Kind(n) # "INIT_INFO"
  /\ asked' = asked \cup {<<n, <<"upstream", TermOf(n)>>>>}
  /\ upstream_to_client' = [upstream_to_client EXCEPT ![TermOf(n)] = Addr(n)]
  /\ Heard(n) /\ Silent(n)
  /\ UNCHANGED <<job, keyed>>

\* One turn of _recv_loop, or of a TCP handler that is not still writing.
Receive(n) ==
  /\ job = Idle /\ n \in inbox /\ Addr(n) \notin writing
  /\ inbox' = inbox \ {n}
  /\ StartBlocking(n) \/ HandleLocally(n) \/ Forward(n)
  /\ UNCHANGED <<clientVars, buf, answered, gaveUp>>

\* One socket of _upstream_recv_loop: to the address that sent last.
UpstreamReceive(t) ==
  LET s == <<"upstream", t>>
  IN /\ job = Idle /\ buf[s] # <<>>
     /\ buf' = [buf EXCEPT ![s] = Tail(@)]
     /\ given' = {Answer(upstream_to_client[t], 0, Head(buf[s]).to, "upstream")}
     /\ UNCHANGED <<clientVars, inbox, job, marsVars, listVars, upstream_to_client, keyed, dozeVars, gaveUp>>

\* One turn of _keepalive_loop, whether sendto fails or not.
KeepaliveTurn ==
  /\ job = Idle /\ doorbell_addr # NoAddr
  /\ keepalive_misses' = IF keepalive_misses + 1 >= MAX_MISSES THEN MAX_MISSES ELSE keepalive_misses + 1
  /\ unheard' = IF unheard < MAX_MISSES THEN unheard + 1 ELSE unheard
  /\ given' = {}
  /\ UNCHANGED <<clientVars, inbox, job, buf, marsVars, listVars, upstream_to_client, keyed, doorbell_addr, gaveUp>>

Next ==
  \/ \E a \in Addrs, k \in Kinds : Send(a, k)
  \/ \E n \in Requests, s \in Sockets :
       MarsAcks(n, s) \/ \E kind \in {"resp", "other"} : MarsAnswers(n, s, kind)
  \/ \E n \in Requests : Receive(n)
  \/ ReadPacket \/ GiveUp \/ ProxyFails
  \/ \E a \in TcpAddrs : TcpHandlerEnds(a) \/ \E e \in extras : TcpWritesExtra(a, e)
  \/ \E t \in TermIds : UpstreamReceive(t)
  \/ KeepaliveTurn

Spec == Init /\ [][Next]_vars

\* The receive loops run, and sockets time out or have something to read.
FairSpec ==
  /\ Spec
  /\ WF_vars(ReadPacket \/ GiveUp)
  /\ \A n \in Requests : WF_vars(Receive(n))

-----------------------------------------------------------------------------
(* Properties                                                              *)

\* What Mars sends for one client never reaches another, but for two holes: in
\* proxy mode an answer goes to whoever used the term id last, and frames
\* without a header share one; and a TCP handler gives its client the ACKs
\* Mars sent for anybody's CERTIFY (gutes_relay.py 463-467, 544-549, 882-884,
\* 1051-1059).
ClientsApart ==
  \A g \in given :
    \/ g.addr = Addr(g.meant)
    \/ /\ g.via = "upstream" /\ g.addr \in Addrs
       /\ TermId(g.addr) = TermId(Addr(g.meant)) \/ Kind(g.meant) = "SHORT"
    \/ /\ g.via = "tcp" /\ g.addr \in TcpAddrs
       /\ Kind(g.meant) \in {"CERTIFY", "CERTIFY_ACK"}

\* A client gets Mars' answer to another request of its own only if the relay
\* had given up on one of the client's requests, or Mars had sent more than one
\* packet for one: the persistent socket keeps what is left over, and from then
\* on every answer may be taken for that to the next request
\* (gutes_relay.py 556-566).
LateOnlyAfterGivingUp ==
  \A g \in given : g.request # 0 /\ g.meant # g.request =>
    \E n \in DOMAIN requests \ {g.request} :
      /\ Addr(n) = g.addr /\ Kind(n) = "INIT_INFO"
      /\ n \in gaveUp \/ answered[n] > 1

\* The keepalive task counts more misses than it has sent keepalives since the
\* doorbell was last heard only while that sign of life still waits behind a
\* request that blocks the loop: once handled it always takes effect, wherever
\* the doorbell has moved (gutes_relay.py 375-393, 449, 731; calling.py 331).
DormantMeansUnheard ==
  keepalive_misses > unheard => \E n \in inbox : IsSign(n)

\* Every request is taken from its socket in the end: Mars, however slow or
\* talkative, does not block the relay for ever, and a TCP client that does not
\* read what it is sent delays itself only (gutes_relay.py 449, 556, 1045-1056).
EveryoneServed ==
  \A n \in Requests : n \in inbox ~> n \notin inbox \/ Addr(n) \in writing
=============================================================================
