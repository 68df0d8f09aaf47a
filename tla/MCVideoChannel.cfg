SPECIFICATION Spec
CONSTANTS
  DecoderFormats <- MCDecoderFormats
  EncoderFormats = {"H264-high", "H264-base"}
  LowerFormats = {"AV1"}
  NackHistoryMs = 3
  DefaultReportSsrc = 10
  MaxStashedPackets = 2
  VideoSsrcs = {1, 2, 3}
  BufferUnknown = FALSE
  OtherSsrc = 9
  RtxSsrcs = {2}
  LocalContents <- MCLocalContents
  RemoteContents <- MCRemoteContents
  MaxPackets = 4
  MaxCalls = 3
  MaxInputs = 5
CHECK_DEADLOCK FALSE
INVARIANTS SsrcBookkeeping StreamsFollowChannel SignalledStreams DeliveredInOrder
PROPERTIES NoStaleDefault
