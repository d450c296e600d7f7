------------------------------ MODULE MCWakeup ------------------------------
(* Small instances of Wakeup for TLC. *)
EXTENDS Wakeup

UdpAndList == {"udp", "list"}
BothCall   == {"bridge", "doorbell"}
AnyDest    == {"none", "peer", "garbage"}
MayFail    == BOOLEAN
=============================================================================
