SPECIFICATION Spec
CONSTANTS
  Modes = {TRUE}
  Types = {0, 3}
  ArraySizes = {16}
  Words = 64
  Garbage <- LeftOver
  MaxCounter = 80
  MaxFrames = 2
  MaxHandles = 2
CHECK_DEADLOCK FALSE
INVARIANTS AssignsSucceed
