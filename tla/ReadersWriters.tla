------------------------- MODULE ReadersWriters -------------------------
(***************************************************************************)
(* What the three mutexes in_mutex, mutex and rw_mutex of shmem_t are for: *)
(* any number of threads may read count_jobs together, a thread that       *)
(* inserts a job is alone.  RWLock is shown to implement this module.      *)
(***************************************************************************)
EXTENDS FiniteSets

CONSTANT Thread

VARIABLES readers,   \* the threads between lines 161 and 165 (225 and 229)
          writers    \* the threads between lines 184 and 190

absvars == <<readers, writers>>

AbsInit == readers = {} /\ writers = {}

BeginRead(t) ==
    /\ t \notin readers
    /\ writers = {}
    /\ readers' = readers \cup {t}
    /\ UNCHANGED writers

EndRead(t) ==
    /\ t \in readers
    /\ readers' = readers \ {t}
    /\ UNCHANGED writers

BeginWrite(t) ==
    /\ readers = {} /\ writers = {}
    /\ writers' = {t}
    /\ UNCHANGED readers

EndWrite(t) ==
    /\ t \in writers
    /\ writers' = writers \ {t}
    /\ UNCHANGED readers

AbsNext == \E t \in Thread :
    BeginRead(t) \/ EndRead(t) \/ BeginWrite(t) \/ EndWrite(t)

AbsSpec == AbsInit /\ [][AbsNext]_absvars
=============================================================================
