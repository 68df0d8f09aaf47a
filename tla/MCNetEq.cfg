SPECIFICATION Spec
CONSTANTS
  Modulus = 64
  OutputSize = 2
  FrameLength = 4
  ExpandLength = 3
  MergeLength = 5
  StretchLength = 1
  Tolerance = 1
  FiveSeconds = 16
  TargetLevel = 10
  NoiseWindow = 3
  ReinitAfterExpands = 5
  MaxWaitForPacket = 2
  MaxPacketsInBuffer = 3
  MaxLead = 4
  MaxCalls = 3
  Red <- MCRed
  Aac <- MCAac
  Rewritten <- MCRewritten
  Rate <- MCRate
  LatmFormat <- MCLatmFormat
  CodecMaps <- MCCodecMaps
  Packets <- MCPackets
CHECK_DEADLOCK FALSE
INVARIANTS NetEqInv NeverShort
PROPERTIES NothingHeardTwice NoPacketStarves
