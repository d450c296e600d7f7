---------------------------- MODULE BridgeDaemon ----------------------------
(***************************************************************************)
(* The persistent bridge (src/src/bridge/daemon.cpp): a main thread that   *)
(* starts the vendor SDK, then takes commands from stdin and opens or      *)
(* closes an AV link, while SDK threads call back with video frames   *)
(* (callbacks.cpp) and signals set the shutdown flag (signal.cpp).         *)
(*                                                                         *)
(* A command is a line that the controller writes to the pipe at once.     *)
(* Waits and timeouts are abstracted to "ends with success or without".    *)
(* The daemon ends only the link whose channel is in g_channel_id; the SDK  *)
(* keeps every link it was asked for until it is stopped or lost.           *)
(***************************************************************************)
EXTENDS Integers, Sequences, SequencesExt

CONSTANTS
  Commands,     \* lines the controller writes: "start", "stop", "quit", "status"
  MaxCommands,  \* bound: lines written
  Channels      \* channels that iv_start_av_link can return

ASSUME CommandsAssumption    == Commands \subseteq {"start", "stop", "quit", "status"}
ASSUME MaxCommandsAssumption == MaxCommands \in Nat
ASSUME ChannelsAssumption    == Channels \subseteq Nat

VARIABLES
  pc,         \* what the main thread does
  shutdown,   \* g_shutdown
  streaming,  \* g_streaming
  channel,    \* g_channel_id: the link that stop_stream ends, or -1
  links,      \* channels on which the SDK has a link up and calls back
  outOpen,    \* the duplicated stdout that frames are written to is open
  pipe,       \* lines in the stdin pipe
  buffer,     \* lines that stdio has read from it and fgets has not returned
  written,    \* lines the controller has written
  eof,        \* the controller has closed its end
  torn        \* a frame was written after the output was closed

ioVars   == <<pipe, buffer, written, eof>>
linkVars == <<streaming, channel, links>>
vars == <<pc, shutdown, linkVars, outOpen, ioVars, torn>>

Startup == <<"auth", "init", "online", "subscribe", "loop">>
Pcs == ToSet(Startup) \cup {"poll", "link", "parked", "leave", "close", "exited"}

TypeOK ==
  /\ pc \in Pcs
  /\ shutdown \in BOOLEAN /\ streaming \in BOOLEAN
  /\ channel \in Channels \cup {-1} /\ links \subseteq Channels
  /\ outOpen \in BOOLEAN /\ eof \in BOOLEAN /\ torn \in BOOLEAN
  /\ pipe \in Seq(Commands) /\ buffer \in Seq(Commands)
  /\ written \in 0 .. MaxCommands
  /\ Len(pipe) + Len(buffer) <= written
  /\ pc \in {"poll", "link"} => ~ streaming

Init ==
  /\ pc = "auth"
  /\ shutdown = FALSE /\ streaming = FALSE /\ channel = -1 /\ links = {}
  /\ outOpen = TRUE
  /\ pipe = <<>> /\ buffer = <<>> /\ written = 0 /\ eof = FALSE
  /\ torn = FALSE

-----------------------------------------------------------------------------
(* Start of the process: bootstrap, access_init, APP_ONLINE, subscribe     *)

\* One wait of the startup ends: the event happened and the next begins, or
\* it failed, timed out or met the shutdown flag, and main returns 1.
\* bootstrap and sdk::load do not look at the flag.
StartupStep ==
  \E i \in 1 .. Len(Startup) - 1 :
    /\ pc = Startup[i]
    /\ pc' \in {Startup[i + 1], "exited"}
    /\ UNCHANGED <<shutdown, linkVars, outOpen, ioVars, torn>>

-----------------------------------------------------------------------------
(* start_stream and stop_stream                                            *)

\* stop_stream: stop_av_link returns when the SDK makes no more callbacks on the
\* channel.  (It is called if the loader found it: this models that it did.)
StopStream ==
  /\ links' = IF channel >= 0 THEN links \ {channel} ELSE links
  /\ channel' = -1
  /\ streaming' = FALSE

StopIfStreaming ==
  IF streaming THEN StopStream ELSE UNCHANGED linkVars

\* broadcast::poll finds the doorbell, gives up after 10 s or sees the
\* shutdown flag; start_stream goes on in every case.
PollEnds ==
  /\ pc = "poll"
  /\ pc' = "link"
  /\ UNCHANGED <<shutdown, linkVars, outOpen, ioVars, torn>>

\* start_av_link returned an error, or the channel of a new link, which takes
\* the place of the one in g_channel_id.
LinkReturns ==
  /\ pc = "link"
  /\ pc' = "loop"
  /\ \/ UNCHANGED linkVars
     \/ \E c \in Channels \ links :
          links' = links \cup {c} /\ channel' = c /\ streaming' = TRUE
  /\ UNCHANGED <<shutdown, outOpen, ioVars, torn>>

-----------------------------------------------------------------------------
(* The command loop                                                        *)

\* select() sees the pipe only, not what stdio has buffered.
Readable == pipe # <<>> \/ eof

\* The lines fgets can return without blocking: its buffer, filled with all
\* that is in the pipe when it is empty.
Available == IF buffer = <<>> THEN pipe ELSE buffer

\* fgets returns the first line.
TakeLine ==
  /\ buffer' = Tail(Available)
  /\ pipe' = IF buffer = <<>> THEN <<>> ELSE pipe
  /\ UNCHANGED <<written, eof>>

Obey_StartsAgain(cmd) ==       \* mutant: start does not look at g_streaming
  \/ cmd = "start" /\ pc' = "poll" /\ UNCHANGED linkVars
  \/ cmd = "stop" /\ pc' = "loop" /\ StopStream
  \/ cmd = "quit" /\ pc' = "leave" /\ UNCHANGED linkVars
  \/ cmd = "status" /\ pc' = "loop" /\ UNCHANGED linkVars

\* What a command makes the main thread do next.
Obey(cmd) ==
  \/ /\ cmd = "start"
     /\ pc' = IF streaming THEN "loop" ELSE "poll"
     /\ UNCHANGED linkVars
  \/ cmd = "stop" /\ pc' = "loop" /\ StopStream
  \/ cmd = "quit" /\ pc' = "leave" /\ UNCHANGED linkVars
  \/ cmd = "status" /\ pc' = "loop" /\ UNCHANGED linkVars

RunCommand ==
  /\ pc = "loop" /\ ~ shutdown
  /\ Readable
  /\ Available # <<>>
  /\ Obey(Head(Available))
  /\ TakeLine
  /\ UNCHANGED <<shutdown, outOpen, torn>>

EndOfInput_KeepsStream ==      \* mutant: the stream goes on without a controller
  /\ pc = "loop" /\ ~ shutdown
  /\ eof /\ Available = <<>>
  /\ pc' = "parked"
  /\ UNCHANGED <<shutdown, linkVars, outOpen, ioVars, torn>>

\* fgets returns NULL at end of file: stop the stream, then only wait for a
\* signal.
EndOfInput ==
  /\ pc = "loop" /\ ~ shutdown
  /\ eof /\ Available = <<>>
  /\ StopIfStreaming
  /\ pc' = "parked"
  /\ UNCHANGED <<shutdown, outOpen, ioVars, torn>>

\* The loops that test g_shutdown.
Interruptible_LoopOnly == {"loop"}   \* mutant: the wait after EOF ignores it
Interruptible == {"loop", "parked"}

NoticeShutdown ==
  /\ shutdown
  /\ pc \in Interruptible
  /\ pc' = "leave"
  /\ UNCHANGED <<shutdown, linkVars, outOpen, ioVars, torn>>

-----------------------------------------------------------------------------
(* The end of main                                                         *)

Leave_CloseFirst ==            \* mutant: the order of main.cpp, close then stop
  \/ /\ pc = "leave" /\ pc' = "close" /\ outOpen' = FALSE
     /\ UNCHANGED <<shutdown, linkVars, ioVars, torn>>
  \/ /\ pc = "close" /\ pc' = "exited" /\ StopIfStreaming
     /\ UNCHANGED <<shutdown, outOpen, ioVars, torn>>

\* Stop the stream, close the output, _exit(0).
Leave ==
  \/ /\ pc = "leave" /\ pc' = "close" /\ StopIfStreaming
     /\ UNCHANGED <<shutdown, outOpen, ioVars, torn>>
  \/ /\ pc = "close" /\ pc' = "exited" /\ outOpen' = FALSE
     /\ UNCHANGED <<shutdown, linkVars, ioVars, torn>>

MainThread ==
  \/ StartupStep \/ PollEnds \/ LinkReturns
  \/ RunCommand \/ EndOfInput \/ NoticeShutdown \/ Leave

-----------------------------------------------------------------------------
(* The SDK, the controller, and signals                                    *)

\* bridge_decode_video writes the frame to g_h264_output_fd.
Frame ==
  /\ links # {} /\ pc # "exited"
  /\ torn' = (torn \/ ~ outOpen)
  /\ UNCHANGED <<pc, shutdown, linkVars, outOpen, ioVars>>

\* The doorbell hangs up: bridge_destroy_decoder tells nobody.
LinkLost ==
  /\ pc # "exited"
  /\ \E c \in links : links' = links \ {c}
  /\ UNCHANGED <<pc, shutdown, streaming, channel, outOpen, ioVars, torn>>

WriteCommand(cmd) ==
  /\ ~ eof /\ written < MaxCommands
  /\ pipe' = Append(pipe, cmd)
  /\ written' = written + 1
  /\ UNCHANGED <<pc, shutdown, linkVars, outOpen, buffer, eof, torn>>

CloseInput ==
  /\ ~ eof
  /\ eof' = TRUE
  /\ UNCHANGED <<pc, shutdown, linkVars, outOpen, pipe, buffer, written, torn>>

\* SIGINT or SIGTERM.
Signal ==
  /\ ~ shutdown /\ pc # "exited"
  /\ shutdown' = TRUE
  /\ UNCHANGED <<pc, linkVars, outOpen, ioVars, torn>>

Next ==
  \/ MainThread
  \/ Frame \/ LinkLost
  \/ \E cmd \in Commands : WriteCommand(cmd)
  \/ CloseInput
  \/ Signal

Spec == Init /\ [][Next]_vars

\* The main thread runs; every wait in it is bounded by a timeout of its own or
\* returns with the SDK call it is in.
FairSpec == Spec /\ WF_vars(MainThread)

-----------------------------------------------------------------------------
(* Properties                                                              *)

\* The SDK never writes a frame to the output after main has closed it, and
\* the process never exits with the link up, whatever interleaving of
\* commands, signals, end of input and a start in progress led there.
FramesHaveOutput == ~ torn /\ (pc = "exited" => links = {})

\* Every link of the SDK is the one whose channel the daemon remembers, so that
\* the next stop, end of input or exit ends it: no start overwrites g_channel_id
\* while a link is up, whatever commands and lost links came before.
NoForgottenLink == links \subseteq (IF streaming THEN {channel} ELSE {})

\* A signal ends the process from any state: startup, a start in progress, the
\* command loop, and the wait after the end of input (daemon.cpp:215).
ShutdownExits == shutdown ~> pc = "exited"

\* Once the controller has closed stdin, every command it wrote is carried out,
\* the buffered ones too, and the stream is down for good (or main is over).
EndOfInputStops ==
  eof ~> [](pc = "exited" \/ (pipe = <<>> /\ buffer = <<>> /\ links = {}))
=============================================================================
