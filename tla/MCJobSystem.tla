--------------------------- MODULE MCJobSystem ---------------------------
(* Threads of the same kind are interchangeable.                           *)
EXTENDS JobSystem, TLC
Symmetry == Permutations(Producer) \cup Permutations(Consumer)
=============================================================================
