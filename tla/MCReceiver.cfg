SPECIFICATION ReceiverSpec
CONSTANTS
  Modulus = 32
  StartSize = 2
  MaxSize = 4
  PaddingAge = 5
  FrameOf <- MCFrameOf
  Crowded <- MCCrowded
  FirstSeqs <- MCFirstSeqs
  MaxBack = 2
  MaxJump = 2
  MaxStashedFrames = 1
  MaxPaddingAge = 3
  GopAge = 3
  GopAdvance = 6
  OutOfBand = FALSE
  IdGap = 31
  LastPosition = 37
  StopsAt = {31}
VIEW MCView
CHECK_DEADLOCK FALSE
INVARIANTS HandedOutWhole ReceiverInv
PROPERTIES FramesDelivered 
