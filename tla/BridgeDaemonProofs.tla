------------------------- MODULE BridgeDaemonProofs -------------------------
(* Proofs about BridgeDaemon, for every set of commands, every number of    *)
(* lines the controller writes, and every set of channels.                  *)
EXTENDS BridgeDaemon, SequenceTheorems, TLAPS

USE CommandsAssumption, MaxCommandsAssumption, ChannelsAssumption

-----------------------------------------------------------------------------
(* Type correctness                                                        *)

\* The startup is four waits and then the loop; its steps are states of main.
LEMMA StartupSteps ==
  /\ Len(Startup) = 5
  /\ Startup[1] = "auth" /\ Startup[2] = "init" /\ Startup[3] = "online"
  /\ Startup[4] = "subscribe" /\ Startup[5] = "loop"
  /\ Pcs = {"auth", "init", "online", "subscribe", "loop",
            "poll", "link", "parked", "leave", "close", "exited"}
<1>1. /\ Len(Startup) = 5
      /\ Startup[1] = "auth" /\ Startup[2] = "init" /\ Startup[3] = "online"
      /\ Startup[4] = "subscribe" /\ Startup[5] = "loop"
  BY DEF Startup
<1>2. ToSet(Startup) = {"auth", "init", "online", "subscribe", "loop"}
  BY DEF Startup, ToSet
<1> QED BY <1>1, <1>2 DEF Pcs

\* One wait of the startup is followed by the next or by the exit.
LEMMA StartupMoves ==
  ASSUME StartupStep
  PROVE  /\ pc \in {"auth", "init", "online", "subscribe"}
         /\ pc' \in {"init", "online", "subscribe", "loop", "exited"}
         /\ UNCHANGED <<shutdown, linkVars, outOpen, ioVars, torn>>
<1>1. PICK i \in 1 .. 4 : pc = Startup[i] /\ pc' \in {Startup[i + 1], "exited"}
  BY StartupSteps DEF StartupStep
<1>2. i = 1 \/ i = 2 \/ i = 3 \/ i = 4
  OBVIOUS
<1>3. UNCHANGED <<shutdown, linkVars, outOpen, ioVars, torn>>
  BY DEF StartupStep
<1> QED BY <1>1, <1>2, <1>3, StartupSteps

\* fgets moves lines from the pipe to the buffer and takes one away.
LEMMA TakeLineType ==
  ASSUME TypeOK, Available # <<>>, TakeLine
  PROVE  /\ Head(Available) \in Commands
         /\ pipe' \in Seq(Commands) /\ buffer' \in Seq(Commands)
         /\ Len(pipe') + Len(buffer') <= written'
         /\ written' = written
<1>1. /\ Available \in Seq(Commands)
      /\ pipe \in Seq(Commands) /\ buffer \in Seq(Commands)
      /\ written \in 0 .. MaxCommands /\ Len(pipe) + Len(buffer) <= written
  BY DEF TypeOK, Available
<1>2. /\ Head(Available) \in Commands
      /\ Tail(Available) \in Seq(Commands)
      /\ Len(Tail(Available)) = Len(Available) - 1
      /\ Len(Available) \in Nat /\ Len(pipe) \in Nat /\ Len(buffer) \in Nat
  BY <1>1, HeadTailProperties, LenProperties
<1>3. buffer' = Tail(Available) /\ written' = written
  BY DEF TakeLine
<1>4. CASE buffer = <<>>
  <2>1. pipe' = <<>> /\ Available = pipe /\ Len(pipe') = 0 /\ pipe' \in Seq(Commands)
    BY <1>4, EmptySeq DEF TakeLine, Available
  <2> QED BY <1>1, <1>2, <1>3, <2>1
<1>5. CASE buffer # <<>>
  <2>1. pipe' = pipe /\ Available = buffer
    BY <1>5 DEF TakeLine, Available
  <2> QED BY <1>1, <1>2, <1>3, <2>1
<1> QED BY <1>4, <1>5

\* The daemon starts well typed.
LEMMA InitTypeOK == Init => TypeOK
<1> SUFFICES ASSUME Init PROVE TypeOK
  OBVIOUS
<1>1. /\ pipe \in Seq(Commands) /\ Len(pipe) = 0
      /\ buffer \in Seq(Commands) /\ Len(buffer) = 0
  BY EmptySeq DEF Init
<1>2. pc \in Pcs
  BY StartupSteps DEF Init
<1>3. written \in 0 .. MaxCommands /\ Len(pipe) + Len(buffer) <= written
  BY <1>1 DEF Init
<1>4. /\ shutdown \in BOOLEAN /\ streaming \in BOOLEAN
      /\ channel \in Channels \cup {-1} /\ links \subseteq Channels
      /\ outOpen \in BOOLEAN /\ eof \in BOOLEAN /\ torn \in BOOLEAN
  BY DEF Init
<1>5. pc \notin {"poll", "link"}
  BY DEF Init
<1> QED BY <1>1, <1>2, <1>3, <1>4, <1>5 DEF TypeOK

\* Every step keeps the types.
LEMMA NextTypeOK == TypeOK /\ [Next]_vars => TypeOK'
<1> SUFFICES ASSUME TypeOK, [Next]_vars PROVE TypeOK'
  OBVIOUS
<1>1. CASE UNCHANGED vars
  BY <1>1 DEF vars, linkVars, ioVars, TypeOK
<1>2. CASE StartupStep
  <2>1. pc' \in Pcs /\ pc' \notin {"poll", "link"}
    BY <1>2, StartupMoves, StartupSteps
  <2>2. UNCHANGED <<shutdown, linkVars, outOpen, ioVars, torn>>
    BY <1>2, StartupMoves
  <2> QED BY <2>1, <2>2 DEF TypeOK, linkVars, ioVars
<1>3. CASE PollEnds \/ LinkReturns \/ NoticeShutdown \/ EndOfInput \/ Leave
  <2>1. pc' \in Pcs /\ (pc' \in {"poll", "link"} => ~ streaming')
    BY <1>3, StartupSteps DEF PollEnds, LinkReturns, NoticeShutdown, EndOfInput,
         Leave, TypeOK, linkVars
  <2>2. /\ streaming' \in BOOLEAN /\ outOpen' \in BOOLEAN
        /\ channel' \in Channels \cup {-1} /\ links' \subseteq Channels
    BY <1>3 DEF PollEnds, LinkReturns, NoticeShutdown, EndOfInput, Leave,
         StopIfStreaming, StopStream, TypeOK, linkVars
  <2>3. UNCHANGED <<shutdown, ioVars, torn>>
    BY <1>3 DEF PollEnds, LinkReturns, NoticeShutdown, EndOfInput, Leave
  <2> QED BY <2>1, <2>2, <2>3 DEF TypeOK, ioVars
<1>4. CASE RunCommand
  <2>1. /\ Head(Available) \in Commands
        /\ pipe' \in Seq(Commands) /\ buffer' \in Seq(Commands)
        /\ Len(pipe') + Len(buffer') <= written' /\ written' = written
    BY <1>4, TakeLineType DEF RunCommand
  <2>2. /\ pc' \in Pcs /\ streaming' \in BOOLEAN
        /\ channel' \in Channels \cup {-1} /\ links' \subseteq Channels
    BY <1>4, <2>1, StartupSteps DEF RunCommand, Obey, StopStream, TypeOK, linkVars
  <2>3. pc' \in {"poll", "link"} => ~ streaming'
    BY <1>4, <2>1 DEF RunCommand, Obey, linkVars
  <2>4. eof' = eof
    BY <1>4 DEF RunCommand, TakeLine
  <2> QED BY <1>4, <2>1, <2>2, <2>3, <2>4 DEF RunCommand, TypeOK
<1>5. CASE Frame \/ LinkLost \/ CloseInput \/ Signal
  <2>1. /\ UNCHANGED <<pc, streaming, channel, outOpen, pipe, buffer, written>>
        /\ links' \subseteq Channels /\ eof' \in BOOLEAN
        /\ shutdown' \in BOOLEAN /\ torn' \in BOOLEAN
    BY <1>5 DEF Frame, LinkLost, CloseInput, Signal, TypeOK, linkVars, ioVars
  <2> QED BY <2>1 DEF TypeOK
<1>6. ASSUME NEW cmd \in Commands, WriteCommand(cmd) PROVE TypeOK'
  <2>1. pipe' \in Seq(Commands) /\ Len(pipe') = Len(pipe) + 1
    BY <1>6, AppendProperties DEF WriteCommand, TypeOK
  <2>2. Len(pipe) \in Nat /\ Len(buffer) \in Nat
    BY LenProperties DEF TypeOK
  <2>3. Len(pipe') + Len(buffer') <= written' /\ written' \in 0 .. MaxCommands
    BY <1>6, <2>1, <2>2 DEF WriteCommand, TypeOK
  <2>4. (pc \in {"poll", "link"} => ~ streaming)'
    BY <1>6 DEF WriteCommand, TypeOK, linkVars
  <2> QED BY <1>6, <2>1, <2>3, <2>4 DEF WriteCommand, TypeOK, linkVars
<1> QED BY <1>1, <1>2, <1>3, <1>4, <1>5, <1>6 DEF Next, MainThread

\* Type correctness: main is always in one of its states, and no line that the
\* controller wrote is multiplied on its way through pipe and stdio.
THEOREM DaemonTypeCorrect == Spec => []TypeOK
  BY InitTypeOK, NextTypeOK, PTL DEF Spec

-----------------------------------------------------------------------------
(* Frames and the output                                                   *)

\* The inductive invariant: main starts a link only when there is none, stops
\* the one it remembers before it closes the output, and closes the output last.
LinkInv ==
  /\ pc \in {"auth", "init", "online", "subscribe", "poll", "link"} => ~ streaming
  /\ streaming => channel \in Nat
  /\ streaming => links \subseteq {channel}
  /\ ~ streaming => links = {}
  /\ pc \in {"close", "exited"} => links = {}
  /\ ~ outOpen => pc = "exited"
  /\ ~ torn

\* LinkInv is inductive relative to TypeOK.
LEMMA NextLinkInv == TypeOK /\ LinkInv /\ [Next]_vars => LinkInv'
<1> SUFFICES ASSUME TypeOK, LinkInv, [Next]_vars PROVE LinkInv'
  OBVIOUS
<1>1. CASE UNCHANGED vars
  BY <1>1 DEF vars, linkVars, ioVars, LinkInv
<1>2. CASE StartupStep
  BY <1>2, StartupMoves DEF LinkInv, linkVars
<1>3. CASE PollEnds
  BY <1>3 DEF PollEnds, LinkInv, linkVars
<1>4. CASE LinkReturns
  <2>1. ~ streaming /\ links = {} /\ pc' = "loop" /\ outOpen /\ outOpen' = outOpen /\ torn' = torn
    BY <1>4 DEF LinkReturns, LinkInv
  <2>2. CASE UNCHANGED linkVars
    BY <2>1, <2>2 DEF LinkInv, linkVars
  <2>3. ASSUME NEW c \in Channels,
               links' = links \cup {c}, channel' = c, streaming' = TRUE
        PROVE  LinkInv'
    BY <2>1, <2>3 DEF LinkInv
  <2> QED BY <1>4, <2>2, <2>3 DEF LinkReturns
<1>5. CASE RunCommand
  <2>1. Head(Available) \in Commands
    BY <1>5, TakeLineType DEF RunCommand
  <2> QED BY <1>5, <2>1 DEF RunCommand, Obey, StopStream, LinkInv, linkVars
<1>6. CASE EndOfInput
  BY <1>6 DEF EndOfInput, StopIfStreaming, StopStream, LinkInv, linkVars
<1>7. CASE NoticeShutdown
  BY <1>7 DEF NoticeShutdown, Interruptible, LinkInv, linkVars
<1>8. CASE Leave
  BY <1>8 DEF Leave, StopIfStreaming, StopStream, LinkInv, linkVars
<1>9. CASE Frame
  BY <1>9 DEF Frame, LinkInv, linkVars
<1>10. CASE LinkLost \/ CloseInput \/ Signal
  BY <1>10 DEF LinkLost, CloseInput, Signal, LinkInv, linkVars
<1>11. ASSUME NEW cmd \in Commands, WriteCommand(cmd) PROVE LinkInv'
  BY <1>11 DEF WriteCommand, LinkInv, linkVars
<1> QED BY <1>1, <1>2, <1>3, <1>4, <1>5, <1>6, <1>7, <1>8, <1>9, <1>10, <1>11
        DEF Next, MainThread

\* In every behaviour, whatever the controller, the SDK and the signals do, no
\* frame is written to a closed output, and the process exits without a link.
THEOREM FramesAlwaysHaveOutput == Spec => []FramesHaveOutput
<1>1. Init => LinkInv
  BY DEF Init, LinkInv
<1>2. LinkInv => FramesHaveOutput
  BY DEF LinkInv, FramesHaveOutput
<1> QED BY <1>1, <1>2, InitTypeOK, NextTypeOK, NextLinkInv, PTL DEF Spec

\* In every behaviour, over every sequence of commands, lost links and failed
\* starts, the SDK has no link but the one whose channel the daemon remembers.
THEOREM NoLinkForgotten == Spec => []NoForgottenLink
<1>1. Init => LinkInv
  BY DEF Init, LinkInv
<1>2. LinkInv => NoForgottenLink
  BY DEF LinkInv, NoForgottenLink
<1> QED BY <1>1, <1>2, InitTypeOK, NextTypeOK, NextLinkInv, PTL DEF Spec
=============================================================================
