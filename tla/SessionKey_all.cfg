SPECIFICATION Spec
CONSTANTS
  MaxKeys = 4
  None = None
  Blank = Blank
  Foreign = Foreign
  Stray = Stray
INVARIANTS
  NeverBlank
  RightKeyUsed
