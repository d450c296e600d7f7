SPECIFICATION FairSpec
CONSTANTS
  Commands <- AllCommands
  MaxCommands = 3
  Channels <- TwoChannels
INVARIANTS
  TypeOK
  FramesHaveOutput
  NoForgottenLink
PROPERTIES
  ShutdownExits
  EndOfInputStops
CHECK_DEADLOCK FALSE
