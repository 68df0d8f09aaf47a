SPECIFICATION FeedbackSpec
CONSTANTS
  Modulus = 12
  MaxPacketAge = 3
  MaxNackPackets = 1
  MaxNackRetries = 2
  FirstBack = 2
  DefaultRtt = 1
  Rtts = {1, 2}
  MaxJump = 2
  MaxPosted = 1
  Fec = FALSE
  MaxBuffered = 1
  Stream = {10, 11, 0, 1, 2, 3}
CHECK_DEADLOCK FALSE
INVARIANTS NacksAreSound
PROPERTIES MissingIsAsked NacksEnd HeldNacksLeave
