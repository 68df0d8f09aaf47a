SPECIFICATION Spec
CONSTANTS
  Modulus = 16
  MaxLost = 3
  Media = media
  OtherStreams = {rtx}
  DefaultThreshold = 4
  Thresholds = {5}
  Garbage = {0, 9}
  MaxBlocks = 1
  FirstNumbers = {14}
  Jumps = {6, 9, 13}
  MaxSent = 5
  MaxLosses = 2
  MaxRestarts = 1
  MaxSettings = 1
  MaxOther = 0
CHECK_DEADLOCK FALSE
INVARIANTS  ReportsAreSane
