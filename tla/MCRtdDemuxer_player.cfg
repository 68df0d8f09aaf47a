SPECIFICATION FairSpec
CONSTANTS
  VideoCapacity = 2
  AudioCapacity = 1
  VideoNumbers = 4
  AudioNumbers = 2
  Kind <- MCKind
  Capacity <- MCCapacity
  Numbers <- MCNumbers
INVARIANTS OwnedOnce PoolInv
PROPERTIES ImplementsVideoStream QueuedFramesLeave
VIEW MCView
