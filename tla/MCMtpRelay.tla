----------------------------- MODULE MCMtpRelay -----------------------------
(* Model-checking instance of MtpRelay: connections are interchangeable, so  *)
(* the safety runs use their permutations as a symmetry set.                 *)
EXTENDS MtpRelay

ConnSymmetry == Permutations(Conns)
AllIpRoles == {"bridge", "doorbell", "unknown"}
KnownIpRoles == {"bridge", "doorbell"}
\* The doorbell's address is not known yet: it is identified by a first frame
\* and paired late, the case with two relay loops over one pair.
BridgeIpOnly == {"bridge", "unknown"}
=============================================================================
