---- MODULE MCMatMul ----
\* Values for TLC.
EXTENDS MatMulQueue
Mixed == [b \in 0 .. 3 |-> IF b = 1 THEN 2 ELSE 1]       \* no two entries of a product agree by chance
TwoI == [b \in 0 .. 3 |-> IF b \in {0, 3} THEN 2 ELSE 0]  \* line 110
====
