SPECIFICATION RC5Spec
CONSTANTS
  Words <- AllWords
  Add <- AddW
  Sub <- SubW
  Xor <- XorW
  Rotl <- RotlW
  Rotr <- RotrW
  Rounds = 3
  Tables <- KeyTables
INVARIANTS
  Retraces
  RoundTrip
CHECK_DEADLOCK FALSE
