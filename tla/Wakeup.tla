------------------------------- MODULE Wakeup -------------------------------
(***************************************************************************)
(* Routing a CALLING request of the signaling relay in relay mode          *)
(* (src/src/relay/calling.py, called from handle_packet of gutes_relay.py):*)
(* straight to a peer that was heard of lately, or into a queue while the  *)
(* chime is asked to wake the doorbell over Bluetooth, to be delivered     *)
(* when the doorbell certifies again.                                      *)
(*                                                                         *)
(* A device stands for its term id and its IP address; a frame stands for  *)
(* its type, its sender and the transport it came over.  Time advances in  *)
(* units of 30 s.                                                          *)
(***************************************************************************)
EXTENDS Naturals, Sequences, SequencesExt, Lists

CONSTANTS
  Transports,      \* how frames arrive: "udp" (a relay port), "list" (UDP
                   \* port 51701), "tcp" (a TCP signaling connection)
  Callers,         \* devices that send CALLING
  Dests,           \* what decrypting a CALLING payload yields: "none", the
                   \* "peer"'s term id, or "garbage" (a wrong session key)
  SendErrors,      \* whether sendto may raise: {FALSE} or BOOLEAN
  FreshLimit,      \* units after which a device counts as offline (30 s)
  ChimeLimit,      \* units after which the chime's session is stale (120 s)
  PendingTimeout,  \* units a queued CALLING stays deliverable (90 s)
  MaxCalls         \* bound: CALLING frames sent

Devices == {"bridge", "doorbell", "chime"}
Calls   == 1 .. MaxCalls

ASSUME TransportsAssumption == Transports \subseteq {"udp", "list", "tcp"}
ASSUME CallersAssumption    == Callers \subseteq {"bridge", "doorbell"}
ASSUME DestsAssumption      == Dests \subseteq {"none", "peer", "garbage"}
ASSUME SendErrorsAssumption == SendErrors \subseteq BOOLEAN
ASSUME LimitsAssumption     ==
  {FreshLimit, ChimeLimit, PendingTimeout, MaxCalls} \subseteq Nat

VARIABLES
  via,       \* clients[d].our_port / addr: transport of d's last frame, or "none"
  age,       \* units since clients[d].last_seen
  known,     \* devices whose bridge_/doorbell_/chime_term_id is set
  pending,   \* pending_callings
  calls,     \* CALLING frames sent so far
  doorbell,  \* the doorbell itself: "asleep", "connecting" or "online"
  asked,     \* the chime holds a request to wake the doorbell
  fate       \* what became of each CALLING in this run of the relay

registryVars == <<via, age, known>>
deviceVars   == <<doorbell, asked>>
vars == <<registryVars, pending, calls, deviceVars, fate>>

\* Ages beyond every limit the code compares them with are the same.
AgeLimit(d) == IF d = "chime" THEN ChimeLimit + 1 ELSE FreshLimit
Older(n, limit) == IF n < limit THEN n + 1 ELSE n

Init ==
  /\ via = [d \in Devices |-> "none"]
  /\ age = [d \in Devices |-> 0]
  /\ known = {}
  /\ pending = <<>>
  /\ calls = 0
  /\ doorbell \in {"asleep", "connecting"}
  /\ asked = FALSE
  /\ fate = [c \in Calls |-> <<>>]

-----------------------------------------------------------------------------
\* A sleeping doorbell sends and receives nothing.
Awake(d) == d = "doorbell" => doorbell # "asleep"

\* handle_packet registers the sender of every frame before it looks at it.
Register(d, t) ==
  /\ Awake(d)
  /\ via' = [via EXCEPT ![d] = t]
  /\ age' = [age EXCEPT ![d] = 0]

\* A datagram the relay sends to d arrives: over a relay port's socket to the
\* address of d's last frame.  list_port is not in relay_socks, and the
\* address of a TCP connection receives no datagrams.
Reachable(d) == via[d] = "udp" /\ Awake(d)

\* Any frame that only registers its sender (DETECT_REQ, LIST_REQ, acks ...).
Frame(d, t) ==
  /\ Register(d, t)
  /\ UNCHANGED <<known, pending, calls, deviceVars, fate>>

\* A KEEPALIVE from the doorbell's address identifies it when nobody has.
Keepalive(t) ==
  /\ Register("doorbell", t)
  /\ known' = known \cup {"doorbell"}
  /\ UNCHANGED <<pending, calls, deviceVars, fate>>

-----------------------------------------------------------------------------
(* handle_calling                                                          *)

Peer(s) == IF s = "bridge" THEN "doorbell" ELSE "bridge"

\* The term id the CALLING is for: the one extracted, or the other device of
\* the two when both roles are known.
Target(s, dest) ==
  CASE dest = "peer"    -> Peer(s)
    [] dest = "garbage" -> "stranger"
    [] dest = "none"    -> IF {s, Peer(s)} \subseteq known THEN Peer(s) ELSE "nobody"

\* The relay's guess: heard of within the last 30 s.
SeemsOnline(d) == d \in Devices /\ via[d] # "none" /\ age[d] < FreshLimit

\* _trigger_chime_wakeup (and the CALLING forwarded to the chime after it,
\* under a condition that implies this one) gets through.
ChimeReached ==
  "chime" \in known /\ age["chime"] <= ChimeLimit /\ Reachable("chime")

Queue_LastOnly(e) == <<e>>               \* mutant: one slot instead of a list
Queue(e) == Append(pending, e)

\* Straight to a target that seems online, and nowhere else.
RouteCalling(c, target, err) ==
  /\ fate' = IF target = "doorbell" /\ Reachable(target) /\ ~ err
             THEN [fate EXCEPT ![c] = Append(@, "reached")] ELSE fate
  /\ UNCHANGED <<pending, asked>>

\* Ask the chime and queue, whether the target is offline or unknown.
QueueCalling(c, s, err) ==
  /\ pending' = Queue([call |-> c, from |-> s, age |-> 0])
  /\ asked' = (asked \/ (ChimeReached /\ ~ err))
  /\ fate' = [fate EXCEPT ![c] = Append(@, "queued")]

\* CALLING_REQ from s.  The caller is told in any case (CALLING_ACK and
\* MTP_RES_RESP, module ResponseDispatch).
Call(s, t, dest, err) ==
  LET c      == calls + 1
      target == Target(s, dest)
  IN
  /\ calls < MaxCalls
  /\ calls' = c
  /\ Register(s, t)
  /\ IF SeemsOnline(target) THEN RouteCalling(c, target, err)
                            ELSE QueueCalling(c, s, err)
  /\ UNCHANGED <<known, doorbell>>

-----------------------------------------------------------------------------
(* on_client_certified and deliver_pending_callings                        *)

Expired_Never(e) == FALSE                \* mutant: the timeout is not looked at
Expired(e) == e.age > PendingTimeout
Live == Select(pending, {e \in ToSet(pending) : ~ Expired(e)})

IsQueued(c) == \E e \in ToSet(pending) : e.call = c

\* Each entry is sent on its own, and failing is the set of calls whose sendto
\* raises.  list_port has no socket in relay_socks: nothing is sent for it.
Raises(c, t, failing) == t # "list" /\ c \in failing

\* Which of the queued calls fail.
FailingSets ==
  {S \in SUBSET {e.call : e \in ToSet(pending)} : S = {} \/ TRUE \in SendErrors}

\* What stays queued, in its order: the entries whose sendto raised.  One for
\* which there is no route is dropped as if it had been delivered.
Remaining_AllOrNone(t, failing) ==       \* mutant: one failure keeps them all
  IF \E e \in ToSet(Live) : Raises(e.call, t, failing) THEN Live ELSE <<>>
Remaining(t, failing) ==
  Select(pending, {e \in ToSet(Live) : Raises(e.call, t, failing)})

DeliverPending(t, failing) ==
  /\ pending' = Remaining(t, failing)
  /\ fate' = [c \in Calls |->
       CASE \E e \in ToSet(pending) : e.call = c /\ Expired(e) -> Append(fate[c], "expired")
         [] \E e \in ToSet(Live) : e.call = c /\ t = "udp" /\ c \notin failing ->
              Append(fate[c], "reached")
         [] \E e \in ToSet(Live) : e.call = c /\ Raises(c, t, failing)
                                 /\ Last(fate[c]) = "queued" -> Append(fate[c], "failed")
         [] OTHER -> fate[c]]

Delivers_OnIdentify(d) ==      \* mutant: only when the role was not known yet
  d = "doorbell" /\ d \notin known
Delivers(d) == d = "doorbell"

\* CERTIFY_REQ or INIT_INFO of d handled to the end: d's role is identified
\* from its address, and a doorbell gets what is queued.
Certify(d, t, failing) ==
  /\ Register(d, t)
  /\ known' = known \cup {d}
  /\ IF Delivers(d) THEN DeliverPending(t, failing) ELSE UNCHANGED <<pending, fate>>
  /\ doorbell' = IF d = "doorbell" THEN "online" ELSE doorbell
  /\ UNCHANGED <<calls, asked>>

-----------------------------------------------------------------------------
(* Time, a relay restart, and the devices                                  *)

Tick ==
  /\ age' = [d \in Devices |-> Older(age[d], AgeLimit(d))]
  /\ pending' = [i \in DOMAIN pending |->
       [pending[i] EXCEPT !.age = Older(@, PendingTimeout + 1)]]
  /\ UNCHANGED <<via, known, calls, deviceVars, fate>>

\* RelayState is in memory only.
Restart ==
  /\ via' = [d \in Devices |-> "none"]
  /\ age' = [d \in Devices |-> 0]
  /\ known' = {}
  /\ pending' = <<>>
  /\ fate' = [c \in Calls |-> <<>>]
  /\ UNCHANGED <<calls, deviceVars>>

ChimeWakesDoorbell ==
  /\ asked
  /\ asked' = FALSE
  /\ doorbell' = IF doorbell = "asleep" THEN "connecting" ELSE doorbell
  /\ UNCHANGED <<registryVars, pending, calls, fate>>

\* Its button or its motion sensor.
DoorbellWakes ==
  /\ doorbell = "asleep"
  /\ doorbell' = "connecting"
  /\ UNCHANGED <<registryVars, pending, calls, asked, fate>>

DoorbellSleeps ==
  /\ doorbell = "online"
  /\ doorbell' = "asleep"
  /\ UNCHANGED <<registryVars, pending, calls, asked, fate>>

Next ==
  \/ \E t \in Transports :
       \/ \E d \in Devices : Frame(d, t)
       \/ Keepalive(t)
       \/ \E d \in Devices, failing \in FailingSets : Certify(d, t, failing)
       \/ \E s \in Callers, dest \in Dests, err \in SendErrors : Call(s, t, dest, err)
  \/ Tick
  \/ Restart
  \/ ChimeWakesDoorbell
  \/ DoorbellWakes
  \/ DoorbellSleeps

Spec == Init /\ [][Next]_vars

\* The chime acts on a request it holds, and a doorbell that has woken up goes
\* through CERTIFY: that is the SDK of each device, not the relay.
Fairness ==
  /\ WF_vars(ChimeWakesDoorbell)
  /\ WF_vars(doorbell = "connecting" /\
             \E t \in Transports, failing \in FailingSets : Certify("doorbell", t, failing))

FairSpec == Spec /\ Fairness

-----------------------------------------------------------------------------
(* Properties                                                              *)

\* A queued CALLING leaves the queue only when it reaches the doorbell or is
\* found expired, through retries, failures of some of the sends, role changes
\* and silence.  There are two exceptions: a restart forgets the queue, and a
\* doorbell that certifies over the LIST port, which has no socket to answer
\* from, or over TCP signaling, whose address receives no datagrams, gets
\* nothing of what is then dropped (calling.py 273-284).
QueuedNotLost ==
  [][\A c \in Calls : IsQueued(c) /\ ~ IsQueued(c)' =>
       \/ fate'[c] # <<>> /\ Last(fate'[c]) \in {"reached", "expired"}
       \/ fate' = [k \in Calls |-> <<>>]
       \/ via'["doorbell"] # "udp"]_vars

\* A CALLING that waited longer than its timeout does not call the doorbell any
\* more, whatever failed sends and other deliveries happened in between
\* (calling.py 256-261): the caller has long given up.
NotCalledLate ==
  [][\A e \in ToSet(pending) :
       e.age > PendingTimeout => fate'[e.call] # Append(fate[e.call], "reached")]_vars

\* The doorbell is called at most once for one CALLING frame, although a frame
\* may be routed, queued, retried after a failed send and delivered late.
CalledAtMostOnce ==
  \A c \in Calls : \A i, j \in DOMAIN fate[c] :
    fate[c][i] = "reached" /\ fate[c][j] = "reached" => i = j

\* A CALLING queued while the chime holds a wake request and the doorbell
\* sleeps leaves the queue, unless its sendto fails: the whole wakeup works,
\* whoever wakes the doorbell (calling.py 335-337).
WakeupDelivers ==
  \A c \in Calls :
    (IsQueued(c) /\ asked /\ doorbell = "asleep")
      ~> (~ IsQueued(c) \/ Last(fate[c]) = "failed")
=============================================================================
