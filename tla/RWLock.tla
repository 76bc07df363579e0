----------------------------- MODULE RWLock -----------------------------
(***************************************************************************)
(* The readers-writers protocol that producer_thread_handler and           *)
(* consumer_thread_handler (a4-threads-and-locks/Assignment_4_35.cpp) write *)
(* out around every access to count_jobs.                                  *)
(*                                                                         *)
(*   reader   lock(in_mutex); lock(mutex); counter++;                      *)
(*            if (counter == 1) lock(rw_mutex);                            *)
(*            unlock(mutex); unlock(in_mutex);   ... reads ...             *)
(*            lock(mutex); counter--; if (counter == 0) unlock(rw_mutex);  *)
(*            unlock(mutex);                                               *)
(*   writer   lock(in_mutex); lock(rw_mutex);    ... inserts ...           *)
(*            unlock(rw_mutex); unlock(in_mutex);                          *)
(*                                                                         *)
(* Each action begins with the one lock call that may block; the unlocks   *)
(* that follow it belong to the same step.  No thread uses trylock on      *)
(* these three mutexes, so the instant of an unlock is not observable.     *)
(* The last reader may unlock an rw_mutex that another reader locked:      *)
(* rw_mutex is therefore a flag here and not an owner.                     *)
(***************************************************************************)
EXTENDS Naturals, FiniteSets

CONSTANTS Thread, NoThread

ASSUME ThreadAssumption == IsFiniteSet(Thread) /\ NoThread \notin Thread

VARIABLES in_mutex,   \* the thread that holds in_mutex, or NoThread
          mutex,      \* the thread that holds mutex, or NoThread
          rw_mutex,   \* is rw_mutex locked?
          counter,    \* shmem->counter
          rw          \* rw[t]: where thread t is in the protocol

rwvars == <<in_mutex, mutex, rw_mutex, counter, rw>>

RWState == {"out", "arrived", "counted", "reading", "w_arrived", "writing"}

RWInit ==
    /\ in_mutex = NoThread
    /\ mutex = NoThread
    /\ rw_mutex = FALSE
    /\ counter = 0
    /\ rw = [t \in Thread |-> "out"]

\* lock(in_mutex) of a reader
ReadArrive(t) ==
    /\ rw[t] = "out"
    /\ in_mutex = NoThread
    /\ in_mutex' = t
    /\ rw' = [rw EXCEPT ![t] = "arrived"]
    /\ UNCHANGED <<mutex, rw_mutex, counter>>

\* lock(mutex); counter++
ReadCount(t) ==
    /\ rw[t] = "arrived"
    /\ mutex = NoThread
    /\ mutex' = t
    /\ counter' = counter + 1
    /\ rw' = [rw EXCEPT ![t] = "counted"]
    /\ UNCHANGED <<in_mutex, rw_mutex>>

\* Mutant of ReadEnter: no reader locks rw_mutex.
ReadEnterUnlocked(t) ==
    /\ rw[t] = "counted"
    /\ mutex' = NoThread
    /\ in_mutex' = NoThread
    /\ rw' = [rw EXCEPT ![t] = "reading"]
    /\ UNCHANGED <<rw_mutex, counter>>

\* if(counter == 1) lock(rw_mutex); unlock(mutex); unlock(in_mutex)
ReadEnter(t) ==
    /\ rw[t] = "counted"
    /\ counter = 1 => ~rw_mutex
    /\ rw_mutex' = (rw_mutex \/ counter = 1)
    /\ mutex' = NoThread
    /\ in_mutex' = NoThread
    /\ rw' = [rw EXCEPT ![t] = "reading"]
    /\ UNCHANGED counter

\* Mutant of ReadLeave: counter is compared with 1 as in ReadEnter.
ReadLeaveKeepsLock(t) ==
    /\ rw[t] = "reading"
    /\ mutex = NoThread
    /\ counter' = counter - 1
    /\ rw_mutex' = (rw_mutex /\ counter' # 1)
    /\ rw' = [rw EXCEPT ![t] = "out"]
    /\ UNCHANGED <<in_mutex, mutex>>

\* lock(mutex); counter--; if(counter == 0) unlock(rw_mutex); unlock(mutex)
ReadLeave(t) ==
    /\ rw[t] = "reading"
    /\ mutex = NoThread
    /\ counter' = counter - 1
    /\ rw_mutex' = (rw_mutex /\ counter' # 0)
    /\ rw' = [rw EXCEPT ![t] = "out"]
    /\ UNCHANGED <<in_mutex, mutex>>

\* Mutant of WriteArrive: the writer does not go through in_mutex.
WriteArriveNoTurnstile(t) ==
    /\ rw[t] = "out"
    /\ rw' = [rw EXCEPT ![t] = "w_arrived"]
    /\ UNCHANGED <<in_mutex, mutex, rw_mutex, counter>>

\* lock(in_mutex) of a writer
WriteArrive(t) ==
    /\ rw[t] = "out"
    /\ in_mutex = NoThread
    /\ in_mutex' = t
    /\ rw' = [rw EXCEPT ![t] = "w_arrived"]
    /\ UNCHANGED <<mutex, rw_mutex, counter>>

\* lock(rw_mutex)
WriteEnter(t) ==
    /\ rw[t] = "w_arrived"
    /\ ~rw_mutex
    /\ rw_mutex' = TRUE
    /\ rw' = [rw EXCEPT ![t] = "writing"]
    /\ UNCHANGED <<in_mutex, mutex, counter>>

\* unlock(rw_mutex); unlock(in_mutex)
WriteLeave(t) ==
    /\ rw[t] = "writing"
    /\ rw_mutex' = FALSE
    /\ in_mutex' = NoThread
    /\ rw' = [rw EXCEPT ![t] = "out"]
    /\ UNCHANGED <<mutex, counter>>

RWStep(t) ==
    \/ ReadArrive(t) \/ ReadCount(t) \/ ReadEnter(t) \/ ReadLeave(t)
    \/ WriteArrive(t) \/ WriteEnter(t) \/ WriteLeave(t)

RWNext == \E t \in Thread : RWStep(t)

RWSpec == RWInit /\ [][RWNext]_rwvars

-----------------------------------------------------------------------------
Reading == {t \in Thread : rw[t] = "reading"}
Writing == {t \in Thread : rw[t] = "writing"}
Counted == {t \in Thread : rw[t] \in {"counted", "reading"}}

\* The type invariant of the five shared variables.
RWTypeOK ==
    /\ in_mutex \in Thread \cup {NoThread}
    /\ mutex \in Thread \cup {NoThread}
    /\ rw_mutex \in BOOLEAN
    /\ counter \in Nat
    /\ rw \in [Thread -> RWState]

\* Who holds in_mutex and mutex is decided by where the threads are.
Turnstile == \A t \in Thread :
    /\ in_mutex = t <=> rw[t] \in {"arrived", "counted", "w_arrived", "writing"}
    /\ mutex = t <=> rw[t] = "counted"

\* Lines 158-168 count exactly the readers that have announced themselves.
CounterExact == counter = Cardinality(Counted)

\* rw_mutex is locked exactly while somebody reads or writes, although the
\* thread that unlocks it (line 167 or 231) need not be the one that locked it.
RWMutexExact == rw_mutex <=> Reading \cup Writing # {}

\* insert_new_job (line 187) runs alone: no other writer, and nobody between
\* lines 161 and 165 or 225 and 229.
Exclusion ==
    /\ Reading # {} => Writing = {}
    /\ \A t, u \in Writing : t = u

\* The first reader locks rw_mutex (lines 159, 223) while it holds mutex and
\* in_mutex.  That call never blocks: whoever could hold rw_mutex would also
\* hold in_mutex or be counted.
FirstReaderNeverBlocks ==
    \A t \in Thread : rw[t] = "counted" /\ counter = 1 => ~rw_mutex

\* The inductive invariant: the conjunction of the above.
RWInv == RWTypeOK /\ Turnstile /\ CounterExact /\ RWMutexExact /\ Exclusion

\* Once a writer has passed in_mutex (line 183) no further reader gets in
\* before it: the readers inside can only leave.
NoOvertaking == [][
    \A w \in Thread : rw[w] = "w_arrived" => Reading' \subseteq Reading ]_rwvars

\* ... so a stream of readers cannot starve it.  (Under the fairness of JobSystem,
\* where all threads that use the lock live.)
WriterGetsIn == \A w \in Thread : rw[w] = "w_arrived" ~> rw[w] = "writing"

\* The protocol implements the abstract readers-writers lock.
RW == INSTANCE ReadersWriters WITH readers <- Reading, writers <- Writing
RWImplementsAbs == RW!AbsSpec
=============================================================================
