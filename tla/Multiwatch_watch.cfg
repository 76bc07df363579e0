SPECIFICATION FairSpec
CONSTANTS
  Shell = Shell
  Watch = Watch
  Watches <- Lists
  PipeSize = 3
  MAX_BUFFER_SIZE = 2
  MaxOut = 3
INVARIANT WatchInv
PROPERTY AllShown
CHECK_DEADLOCK FALSE
