---------------------------- MODULE MCHostSetup ----------------------------
(* Model-checking instance of HostSetup: a doorbell with and without a      *)
(* chime, a relay address that changes, and LAN_ONLY switched on and off.   *)
EXTENDS HostSetup

Config(devices, to, lan) == [devices |-> devices, relay |-> to, lanOnly |-> lan]

TwoConfigs == {Config(<<"doorbell", "chime">>, 1, TRUE), Config(<<"doorbell">>, 2, FALSE)}
LanOnly    == {Config(<<"doorbell">>, 1, TRUE)}
Both       == {"network", "entry"}
EntryOnly  == {"entry"}
=============================================================================
