SPECIFICATION Spec
CONSTANTS
  Modes = {TRUE, FALSE}
  Types = {0}
  ArraySizes = {16}
  Words = 48
  Garbage <- LeftOver
  MaxCounter = 80
  MaxFrames = 2
  MaxHandles = 2
CHECK_DEADLOCK FALSE
INVARIANTS StackInv ScopeKept NoOverlap ValuesKept RoundCollects
