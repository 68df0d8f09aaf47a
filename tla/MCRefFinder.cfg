SPECIFICATION Spec
CONSTANTS
  Modulus = 32
  FrameOf <- MCFrameOf
  MaxStashedFrames = 1
  MaxPaddingAge = 3
  GopAge = 3
  GopAdvance = 6
  MaxBack = 3
  Gapless = FALSE
  MaxJump = 3
CHECK_DEADLOCK FALSE
INVARIANTS FinderInv
PROPERTIES RefersToPredecessor
