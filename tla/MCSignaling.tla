---------------------------- MODULE MCSignaling ----------------------------
(* Model-checking instance of Signaling.                                    *)
EXTENDS Signaling

ThreePorts == {"p1", "p2", "call"}
=============================================================================
