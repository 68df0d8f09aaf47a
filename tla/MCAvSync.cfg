SPECIFICATION Spec
CONSTANTS
  StartDelay = 8
  DefaultBase = 20
  MinBase = 10
  MaxBase = 60
  MaxPacketsInBuffer = 24
  RenderDelay = 1
  DefaultMinPlayout = 10
  DefaultMaxPlayout = 60
  BaseTarget = 20
  MaxChange = 2
  Lateness <- MCLateness
  MaxDeltaDelay = 40
  FilterLength = 4
  MinDelta = 3
  MaxMinPlayout = 60
  MaxVideoDelay = 50
  PacketLength = 2
  Offsets <- MCOffsets
  Levels = {4, 26}
  Jitters = {2}
  PlayoutDelays <- MCPlayoutDelays
  BaseMinimums = {5, 25}
  MaxUpsets = 1
  MaxLag = 2
CHECK_DEADLOCK FALSE
PROPERTIES CarefulSteps Converges
