-------------------------- MODULE MCResponseDispatch ------------------------
(* Model-checking instance of ResponseDispatch: clients of one transport are *)
(* interchangeable.                                                          *)
EXTENDS ResponseDispatch

ClientSymmetry == Permutations(UdpClients) \cup Permutations(TcpClients)
=============================================================================
