SPECIFICATION Spec
CONSTANTS
  Shell = Shell
  Watch = Watch
  Watches <- Lists
  PipeSize = 3
  MAX_BUFFER_SIZE = 2
  MaxOut = 3
INVARIANT CtrlCEnds
CHECK_DEADLOCK FALSE
