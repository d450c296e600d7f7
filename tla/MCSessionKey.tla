---------------------------- MODULE MCSessionKey ----------------------------
(* Small instances of SessionKey for TLC. *)
EXTENDS SessionKey
=============================================================================
