--------------------------- MODULE MCBridgeDaemon ---------------------------
(* Small instances of BridgeDaemon for TLC. *)
EXTENDS BridgeDaemon

AllCommands == {"start", "stop", "quit", "status"}
TwoChannels == {0, 1}
=============================================================================
