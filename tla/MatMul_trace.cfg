SPECIFICATION Spec
CONSTANTS
  Producer = {p1}
  Worker = {w1, w2}
  Q_SIZE = 4
  MAXJOBS = 3
  NewMatrix <- TwoI
INVARIANTS FinalTrace
