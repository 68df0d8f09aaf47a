SPECIFICATION FairSpec
CONSTANTS
  Ids <- MCIds
  Frames <- MCFrames
  MaxFramesBuffered = 2
  HistorySize = 2
CHECK_DEADLOCK FALSE
INVARIANTS BufferInv
PROPERTIES ReferencesDecoded DecoderInSync NoDecodeAfterStop StarvedAsksForKeyFrame
