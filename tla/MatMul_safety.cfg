SPECIFICATION FairSpec
CONSTANTS
  Producer = {p1, p2}
  Worker = {w1, w2}
  Q_SIZE = 3
  MAXJOBS = 4
  NewMatrix <- Mixed
INVARIANTS RingInv SlotReserved OnlyFrontStarted FactorsConserved
PROPERTIES Finishes BlocksInOrder
