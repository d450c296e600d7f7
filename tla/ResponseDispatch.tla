-------------------------- MODULE ResponseDispatch --------------------------
(***************************************************************************)
(* How the signaling relay answers a request (gutes_relay.py).             *)
(*                                                                         *)
(* handle_packet returns at most one response; what must be sent besides   *)
(* it (CALLING_ACK, CERTIFY_ACK from Mars) goes into the list              *)
(* _extra_responses, shared by every UDP receive loop and every TCP        *)
(* signaling handler.  A UDP loop dispatches without an await, a TCP       *)
(* handler suspends in drain() after each write, and meanwhile the others  *)
(* run and use the same list.                                              *)
(*                                                                         *)
(* A frame is abstracted to its kind, the request it answers, and which of  *)
(* the ACKs of that request it is.                                          *)
(***************************************************************************)
EXTENDS Naturals, Sequences, SequencesExt, Lists

CONSTANTS
  UdpClients,   \* clients whose requests arrive as datagrams
  TcpClients,   \* clients with a TCP signaling connection
  MaxRequests,  \* bound: requests of all clients together
  MaxAcks       \* bound: ACKs queued for one request (up to ten packets of
                \* Mars are read for a CERTIFY, twice for that of a device)

Clients  == UdpClients \cup TcpClients
Requests == Clients \X Nat   \* the client and which of its requests

ASSUME ClientsAssumption     == UdpClients \cap TcpClients = {}
ASSUME BoundsAssumption      == MaxRequests \in Nat /\ MaxAcks \in Nat

VARIABLES
  extraResponses,  \* _extra_responses: the ACKs that are queued
  taken,           \* requests the relay has taken from each client
  received,        \* frames each client has received, in order
  task,            \* where the TCP handler of a client is suspended: "read",
                   \* "respDrain", "extraDrain", or "closed"
  index            \* position of its iteration over _extra_responses

dispatchVars == <<extraResponses, taken, received, task, index>>

Ack(q, n) == [kind |-> "ack", req |-> q, nr |-> n]
Resp(q)   == [kind |-> "resp", req |-> q, nr |-> 0]

DispatchInit ==
  /\ extraResponses = <<>>
  /\ taken = [c \in Clients |-> 0]
  /\ received = [c \in Clients |-> <<>>]
  /\ task = [c \in TcpClients |-> "read"]
  /\ index = [c \in TcpClients |-> 0]

-----------------------------------------------------------------------------
\* Take the next request q of client c.
TakeRequest(c) ==
  /\ FoldFunction(+, 0, taken) < MaxRequests
  /\ taken' = [taken EXCEPT ![c] = @ + 1]

NewRequest(c) == <<c, taken[c] + 1>>

\* The list after the handler has run.  CALLING queues one ACK when it also
\* responds; a CERTIFY proxied to Mars queues each CERTIFY_ACK among the packets
\* it reads, and may then come back without any response.
AfterHandle(c, acks) == extraResponses \o [n \in 1 .. acks |-> Ack(NewRequest(c), n)]

\* The frames of one answer in order.
InOrder_RespFirst(acks, resp) == resp \o acks   \* mutant: the response goes first
InOrder(acks, resp) == acks \o resp

\* The extras a UDP loop addresses to client d.
AddressedTo_Asker(d, extras, q) ==     \* mutant: all go to the asker
  IF d = q[1] THEN extras ELSE <<>>
AddressedTo(d, extras, q) == Select(extras, {e \in ToSet(extras) : e.req[1] = d})

\* The datagrams a UDP loop sends to client d while it answers request q.  An
\* ACK addressed to a TCP client goes to that connection's (ip, port) as a
\* datagram, which nobody receives.
Datagrams(d, extras, q) ==
  InOrder(AddressedTo(d, extras, q), IF d = q[1] THEN <<Resp(q)>> ELSE <<>>)

\* One iteration of _recv_loop: with a response, all queued extras are sent
\* before it; without one the frame is routed on and the extras stay queued.
UdpRequest(c, acks, responds) ==
  LET queue == AfterHandle(c, acks)
      q     == NewRequest(c)
  IN
  /\ TakeRequest(c)
  /\ IF responds
     THEN /\ received' = [d \in Clients |->
               IF d \in UdpClients THEN received[d] \o Datagrams(d, queue, q)
                                   ELSE received[d]]
          /\ extraResponses' = <<>>
     ELSE /\ extraResponses' = queue
          /\ UNCHANGED received
  /\ UNCHANGED <<task, index>>

\* The list and the iterator once a handler has written the last element.
Cleared_Kept(extras) == extras   \* mutant: the list is not cleared
Cleared(extras) == <<>>
Rewound(c, i) == 0

\* The TCP handler of c goes on with the list "extras" from position i: it
\* writes the next element to its own connection whatever its address, or it
\* is through and clears the list.  "out" is what it has written so far.
SendNextExtra(c, extras, i, out) ==
  IF i < Len(extras)
  THEN /\ received' = [received EXCEPT ![c] = Append(out, extras[i + 1])]
       /\ task' = [task EXCEPT ![c] = "extraDrain"]
       /\ index' = [index EXCEPT ![c] = i + 1]
       /\ extraResponses' = extras
  ELSE /\ received' = [received EXCEPT ![c] = out]
       /\ task' = [task EXCEPT ![c] = "read"]
       /\ index' = [index EXCEPT ![c] = Rewound(c, i)]
       /\ extraResponses' = Cleared(extras)

\* _tcp_signaling_handle read a frame: the response is written first, then
\* the handler suspends in drain(); without one it turns to the extras.
TcpRequest(c, acks, responds) ==
  LET queue == AfterHandle(c, acks) IN
  /\ task[c] = "read"
  /\ TakeRequest(c)
  /\ IF responds
     THEN /\ received' = [received EXCEPT ![c] = Append(@, Resp(NewRequest(c)))]
          /\ task' = [task EXCEPT ![c] = "respDrain"]
          /\ extraResponses' = queue
          /\ UNCHANGED index
     ELSE SendNextExtra(c, queue, 0, received[c])

TcpDrained(c) ==
  /\ task[c] \in {"respDrain", "extraDrain"}
  /\ SendNextExtra(c, extraResponses, index[c], received[c])
  /\ UNCHANGED taken

\* The connection is lost: readexactly() or drain() raises, the handler
\* closes the writer; what it queued stays queued.
TcpCloses(c) ==
  /\ task[c] # "closed"
  /\ task' = [task EXCEPT ![c] = "closed"]
  /\ UNCHANGED <<extraResponses, taken, received, index>>

DispatchNext ==
  \/ \E acks \in 0 .. MaxAcks, responds \in BOOLEAN :
       \/ \E c \in UdpClients : UdpRequest(c, acks, responds)
       \/ \E c \in TcpClients : TcpRequest(c, acks, responds)
  \/ \E c \in TcpClients : TcpDrained(c) \/ TcpCloses(c)

DispatchSpec == DispatchInit /\ [][DispatchNext]_dispatchVars

-----------------------------------------------------------------------------
(* Properties                                                              *)

AckIsMine(c) == \A i \in DOMAIN received[c] : received[c][i].req[1] = c

\* A client served over UDP never gets a response before the ACK of the same
\* request, whatever TCP handlers do to the shared list in their drains.
UdpAckBeforeResp ==
  \A c \in UdpClients : \A i, j \in DOMAIN received[c] :
    /\ received[c][i].kind = "ack" /\ received[c][j].kind = "resp"
    /\ received[c][i].req = received[c][j].req
    => i < j

\* No ACK that was queued once is sent to its client twice, although several
\* loops iterate over, pop from and clear one list: a client gets at most as
\* many ACKs for a request as Mars sent or as the handler built.
AckAtMostOnce ==
  \A c \in Clients : \A i, j \in DOMAIN received[c] :
    received[c][i] = received[c][j] /\ received[c][i].req[1] = c => i = j

\* A client served over UDP receives no ACK built for another client, even one
\* left over from a request that got no response, whoever fills the list.  (A TCP
\* handler writes what it finds to its own connection, whomever it is for.)
UdpAckToOwner == \A c \in UdpClients : AckIsMine(c)
=============================================================================
