----------------------------- MODULE MCUpstream -----------------------------
(* Model-checking instance of Upstream.                                     *)
EXTENDS Upstream
=============================================================================
