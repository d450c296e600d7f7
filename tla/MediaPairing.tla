---------------------------- MODULE MediaPairing ----------------------------
(***************************************************************************)
(* What the MTP relay promises its peers, without queues, handlers, polls  *)
(* and copy tasks: peers are brought together two by two and for good, and *)
(* who stays on the line may hear what the other has said, and nothing     *)
(* else.  MtpRelay implements this (Implements there).                     *)
(***************************************************************************)
EXTENDS Naturals

CONSTANTS Peers,
          Nobody

VARIABLES
  partner,   \* the peer each one is connected with, or Nobody
  said,      \* how much each peer has said
  heard,     \* <<peer, number>> of what each peer has heard
  gone       \* peers that have hung up

vars == <<partner, said, heard, gone>>

Init ==
  /\ partner = [p \in Peers |-> Nobody]
  /\ said = [p \in Peers |-> 0]
  /\ heard = [p \in Peers |-> {}]
  /\ gone = [p \in Peers |-> FALSE]

Words(p) == {p} \X (1 .. said[p])

Say(p) ==
  /\ ~ gone[p]
  /\ said' = [said EXCEPT ![p] = @ + 1]
  /\ UNCHANGED <<partner, heard, gone>>

HangUp(p) ==
  /\ gone' = [gone EXCEPT ![p] = TRUE]
  /\ UNCHANGED <<partner, said, heard>>

Hear(p, words) ==
  /\ ~ gone[p]
  /\ words \subseteq Words(partner'[p])
  /\ heard' = [heard EXCEPT ![p] = @ \cup words]

Listen(p) ==
  /\ UNCHANGED <<said, gone, partner>>
  /\ partner[p] # Nobody
  /\ \E words \in SUBSET Words(partner[p]) : Hear(p, words)

\* p and q meet, and q may hear at once what p has said before.
Meet(p, q) ==
  /\ p # q /\ partner[p] = Nobody /\ partner[q] = Nobody
  /\ UNCHANGED <<said, gone>>
  /\ partner' = [partner EXCEPT ![p] = q, ![q] = p]
  /\ heard' = heard \/ \E words \in SUBSET Words(p) : Hear(q, words)

Next ==
  \/ \E p \in Peers : Say(p) \/ HangUp(p) \/ Listen(p)
  \/ \E p, q \in Peers : Meet(p, q)

Spec == Init /\ [][Next]_vars
=============================================================================
