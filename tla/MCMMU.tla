---- MODULE MCMMU ----
\* Values for TLC.
EXTENDS MMU
LeftOver == {{}, 0 .. Slots - 1}    \* malloc returns zeroed memory, or memory with bits set
====
