SPECIFICATION Spec
CONSTANTS
  Ports <- ThreePorts
  CallPort = "call"
  MaxSessions = 2
  MaxRepeats = 1
INVARIANTS
  OneClient
  KeysMatch
  OnlyOldSessionsMislead
  AnswersFit
  OnlyRepeatsMislead
CHECK_DEADLOCK FALSE
