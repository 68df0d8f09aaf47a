SPECIFICATION Spec
CONSTANTS
  MaxUnsignaled = 2
  DefaultReportSsrc = 10
  LocalContents <- MCLocalContents
  RemoteContents <- MCRemoteContents
  u1 = u1
  u2 = u2
  Ssrcs <- MCSsrcs
  Payloads <- MCPayloads
  Media <- MCMedia
  MaxDescriptions = 3
  MaxCalls = 2
  MaxPackets = 3
  MaxTasks = 2
SYMMETRY UnsignalledSsrcs
CHECK_DEADLOCK FALSE
INVARIANTS VoiceInv StreamsFollowChannel PlaysAsAnswered
PROPERTIES NegotiatedIsInserted
