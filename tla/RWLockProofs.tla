-------------------------- MODULE RWLockProofs --------------------------
(***************************************************************************)
(* RWInv is inductive for every finite set of threads; the exclusion of    *)
(* readers and writers, the order in which a writer is let in and the      *)
(* refinement of ReadersWriters follow from it.                            *)
(***************************************************************************)
EXTENDS RWLock, FiniteSetTheorems, TLAPS

\* The readers that count are finitely many.
LEMMA CountedFinite == /\ IsFiniteSet(Counted)
                       /\ Cardinality(Counted) \in Nat
  BY ThreadAssumption, FS_Subset, FS_CardinalityType DEF Counted

\* counter = 1 held by t means that t is the only one counted; 0 means nobody.
LEMMA CountedOne ==
  ASSUME NEW t \in Counted, Cardinality(Counted) = 1
  PROVE  Counted = {t}
<1>1. IsFiniteSet(Counted \ {t}) /\ Cardinality(Counted \ {t}) = 0
  BY CountedFinite, FS_RemoveElement
<1>2. Counted \ {t} = {}
  BY <1>1, FS_EmptySet
<1> QED BY <1>2

LEMMA CountedNone == Cardinality(Counted) = 0 <=> Counted = {}
  BY CountedFinite, FS_EmptySet

\* The initial state satisfies the invariant.
LEMMA RWInvInit == RWInit => RWInv
<1> SUFFICES ASSUME RWInit PROVE RWInv
  OBVIOUS
<1> USE DEF RWInit
<1>1. RWTypeOK
  BY DEF RWTypeOK, RWState
<1>2. Counted = {} /\ Reading = {} /\ Writing = {}
  BY DEF Counted, Reading, Writing
<1>3. CounterExact
  BY <1>2, CountedNone, CountedFinite DEF CounterExact
<1> QED
  BY <1>1, <1>2, <1>3, ThreadAssumption DEF RWInv, Turnstile, RWMutexExact, Exclusion

\* A step of the protocol preserves the types.
LEMMA RWTypeStep ==
  ASSUME RWInv, NEW t \in Thread, RWStep(t)
  PROVE  RWTypeOK'
<1> USE DEF RWInv, RWTypeOK, RWState
<1>1. CASE ReadArrive(t) BY <1>1 DEF ReadArrive
<1>2. CASE ReadCount(t) BY <1>2 DEF ReadCount
<1>3. CASE ReadEnter(t) BY <1>3 DEF ReadEnter
<1>4. CASE ReadLeave(t)
  <2>1. t \in Counted
    BY <1>4 DEF ReadLeave, Counted
  <2>2. counter # 0
    BY <2>1, CountedNone DEF CounterExact
  <2> QED BY <1>4, <2>2 DEF ReadLeave
<1>5. CASE WriteArrive(t) BY <1>5 DEF WriteArrive
<1>6. CASE WriteEnter(t) BY <1>6 DEF WriteEnter
<1>7. CASE WriteLeave(t) BY <1>7 DEF WriteLeave
<1> QED BY <1>1, <1>2, <1>3, <1>4, <1>5, <1>6, <1>7 DEF RWStep

\* A step keeps in_mutex and mutex with the threads whose place says so.
LEMMA TurnstileStep ==
  ASSUME RWInv, NEW t \in Thread, RWStep(t)
  PROVE  Turnstile'
<1> USE ThreadAssumption DEF RWInv, RWTypeOK, Turnstile
<1>1. CASE ReadArrive(t) BY <1>1 DEF ReadArrive
<1>2. CASE ReadCount(t) BY <1>2 DEF ReadCount
<1>3. CASE ReadEnter(t) BY <1>3 DEF ReadEnter
<1>4. CASE ReadLeave(t) BY <1>4 DEF ReadLeave
<1>5. CASE WriteArrive(t) BY <1>5 DEF WriteArrive
<1>6. CASE WriteEnter(t) BY <1>6 DEF WriteEnter
<1>7. CASE WriteLeave(t) BY <1>7 DEF WriteLeave
<1> QED BY <1>1, <1>2, <1>3, <1>4, <1>5, <1>6, <1>7 DEF RWStep

\* A step adds or removes one counted reader exactly when it changes counter.
LEMMA CounterStep ==
  ASSUME RWInv, NEW t \in Thread, RWStep(t)
  PROVE  CounterExact'
<1> USE DEF RWInv, RWTypeOK, CounterExact, Counted
<1>1. CASE ReadArrive(t)
  <2>1. Counted' = Counted BY <1>1 DEF ReadArrive
  <2> QED BY <2>1, <1>1 DEF ReadArrive
<1>2. CASE ReadCount(t)
  <2>1. Counted' = Counted \cup {t} /\ t \notin Counted BY <1>2 DEF ReadCount
  <2> QED BY <2>1, <1>2, CountedFinite, FS_AddElement DEF ReadCount
<1>3. CASE ReadEnter(t)
  <2>1. Counted' = Counted BY <1>3 DEF ReadEnter
  <2> QED BY <2>1, <1>3 DEF ReadEnter
<1>4. CASE ReadLeave(t)
  <2>1. Counted' = Counted \ {t} /\ t \in Counted BY <1>4 DEF ReadLeave
  <2> QED BY <2>1, <1>4, CountedFinite, FS_RemoveElement DEF ReadLeave
<1>5. CASE WriteArrive(t)
  <2>1. Counted' = Counted BY <1>5 DEF WriteArrive
  <2> QED BY <2>1, <1>5 DEF WriteArrive
<1>6. CASE WriteEnter(t)
  <2>1. Counted' = Counted BY <1>6 DEF WriteEnter
  <2> QED BY <2>1, <1>6 DEF WriteEnter
<1>7. CASE WriteLeave(t)
  <2>1. Counted' = Counted BY <1>7 DEF WriteLeave
  <2> QED BY <2>1, <1>7 DEF WriteLeave
<1> QED BY <1>1, <1>2, <1>3, <1>4, <1>5, <1>6, <1>7 DEF RWStep

\* Whoever reads or writes keeps rw_mutex locked, and nobody else does.
LEMMA RWMutexStep ==
  ASSUME RWInv, NEW t \in Thread, RWStep(t)
  PROVE  RWMutexExact'
<1> USE ThreadAssumption DEF RWInv, RWTypeOK, Turnstile, RWMutexExact, Exclusion, Reading, Writing
<1>1. CASE ReadArrive(t) BY <1>1 DEF ReadArrive
<1>2. CASE ReadCount(t) BY <1>2 DEF ReadCount
<1>3. CASE ReadEnter(t)
  <2>1. t \in Counted
    BY <1>3 DEF ReadEnter, Counted
  <2>2. CASE counter # 1
    <3>1. Counted # {t}
      BY <2>1, <2>2, FS_Singleton DEF CounterExact
    <3>2. PICK u \in Counted : u # t
      BY <2>1, <3>1
    <3>3. rw[u] = "reading"
      BY <3>2, <2>1, <1>3 DEF Counted, ReadEnter
    <3> QED BY <3>3, <2>2, <1>3 DEF ReadEnter, Counted
  <2> QED BY <2>2, <1>3 DEF ReadEnter
<1>4. CASE ReadLeave(t)
  <2>1. Counted = Reading /\ t \in Reading
    BY <1>4 DEF ReadLeave, Counted
  <2>2. Counted' = Reading'
    BY <2>1, <1>4 DEF ReadLeave, Counted
  <2>3. IsFiniteSet(Counted') /\ counter' = Cardinality(Counted')
    <3>1. Counted' = Counted \ {t}
      BY <1>4 DEF ReadLeave, Counted
    <3> QED BY <3>1, CountedFinite, FS_RemoveElement, CounterStep DEF CounterExact
  <2>4. counter' = 0 <=> Reading' = {}
    BY <2>2, <2>3, FS_EmptySet
  <2>5. Writing' = {} /\ rw_mutex
    BY <2>1, <1>4 DEF ReadLeave
  <2> QED BY <2>4, <2>5, <1>4 DEF ReadLeave
<1>5. CASE WriteArrive(t) BY <1>5 DEF WriteArrive
<1>6. CASE WriteEnter(t) BY <1>6 DEF WriteEnter
<1>7. CASE WriteLeave(t) BY <1>7 DEF WriteLeave
<1> QED BY <1>1, <1>2, <1>3, <1>4, <1>5, <1>6, <1>7 DEF RWStep

\* A reader gets in only while it holds in_mutex, which a writer keeps.
LEMMA ExclusionStep ==
  ASSUME RWInv, NEW t \in Thread, RWStep(t)
  PROVE  Exclusion'
<1> USE ThreadAssumption DEF RWInv, RWTypeOK, Turnstile, RWMutexExact, Exclusion, Reading, Writing
<1>1. CASE ReadArrive(t) BY <1>1 DEF ReadArrive
<1>2. CASE ReadCount(t) BY <1>2 DEF ReadCount
<1>3. CASE ReadEnter(t) BY <1>3 DEF ReadEnter
<1>4. CASE ReadLeave(t) BY <1>4 DEF ReadLeave
<1>5. CASE WriteArrive(t) BY <1>5 DEF WriteArrive
<1>6. CASE WriteEnter(t) BY <1>6 DEF WriteEnter
<1>7. CASE WriteLeave(t) BY <1>7 DEF WriteLeave
<1> QED BY <1>1, <1>2, <1>3, <1>4, <1>5, <1>6, <1>7 DEF RWStep

\* A step that leaves the lock alone preserves the invariant.
LEMMA RWInvStutter == RWInv /\ UNCHANGED rwvars => RWInv'
  BY DEF RWInv, rwvars, RWTypeOK, Turnstile, CounterExact, Counted, RWMutexExact,
         Exclusion, Reading, Writing

\* A step of the protocol preserves the invariant.
LEMMA RWInvStep ==
  ASSUME RWInv, NEW t \in Thread, RWStep(t)
  PROVE  RWInv'
  BY RWTypeStep, TurnstileStep, CounterStep, RWMutexStep, ExclusionStep DEF RWInv

\* Readers and writers exclude each other, rw_mutex is locked exactly while one
\* of them is inside, and counter counts the readers: for any number of threads.
THEOREM RWSafety == RWSpec => []RWInv
<1>1. RWInv /\ [RWNext]_rwvars => RWInv'
  BY RWInvStep, RWInvStutter DEF RWNext
<1> QED BY <1>1, RWInvInit, PTL DEF RWSpec

\* Locking rw_mutex while holding mutex and in_mutex (lines 159, 223) never blocks.
THEOREM FirstReaderProceeds == RWSpec => []FirstReaderNeverBlocks
<1>1. RWInv => FirstReaderNeverBlocks
  <2> SUFFICES ASSUME RWInv, NEW t \in Thread, rw[t] = "counted", counter = 1
               PROVE  ~rw_mutex
    BY DEF FirstReaderNeverBlocks
  <2>1. Counted = {t}
    BY CountedOne DEF Counted, RWInv, CounterExact
  <2>2. Reading = {}
    BY <2>1 DEF Counted, Reading
  <2>3. Writing = {}
    BY DEF Writing, RWInv, Turnstile
  <2> QED BY <2>2, <2>3 DEF RWInv, RWMutexExact
<1> QED BY <1>1, RWSafety, PTL

\* After a writer has passed in_mutex no reader overtakes it.
THEOREM WriterNotOvertaken == RWSpec => NoOvertaking
<1>1. RWInv /\ [RWNext]_rwvars
      => [\A w \in Thread : rw[w] = "w_arrived" => Reading' \subseteq Reading]_rwvars
  <2> SUFFICES ASSUME RWInv, NEW t \in Thread, RWStep(t),
                      NEW w \in Thread, rw[w] = "w_arrived"
               PROVE  Reading' \subseteq Reading
    BY DEF RWNext
  <2>1. ~ReadEnter(t)   \* t and w would both hold in_mutex
    BY DEF RWInv, Turnstile, ReadEnter
  <2> QED
    BY <2>1, ThreadAssumption DEF RWStep, RWInv, RWTypeOK, Turnstile, Reading, ReadArrive,
       ReadCount, ReadEnter, ReadLeave, WriteArrive, WriteEnter, WriteLeave
<1> QED BY <1>1, RWSafety, PTL DEF RWSpec, NoOvertaking

\* Every step of the protocol is a step of the abstract readers-writers lock or
\* leaves its readers and writers as they are.
LEMMA RWStepRefines ==
  ASSUME RWInv, NEW t \in Thread, RWStep(t)
  PROVE  RW!AbsNext \/ UNCHANGED RW!absvars
<1> USE ThreadAssumption DEF RWInv, RWTypeOK, Turnstile, RWMutexExact, Exclusion, Reading,
        Writing, RW!AbsNext, RW!absvars, RW!BeginRead, RW!EndRead, RW!BeginWrite, RW!EndWrite
<1>1. CASE ReadArrive(t) BY <1>1 DEF ReadArrive
<1>2. CASE ReadCount(t) BY <1>2 DEF ReadCount
<1>3. CASE ReadEnter(t)
  <2>1. t \notin Reading /\ Reading' = Reading \cup {t} /\ Writing = {} /\ Writing' = Writing
    BY <1>3 DEF ReadEnter
  <2> QED BY <2>1
<1>4. CASE ReadLeave(t)
  <2>1. t \in Reading /\ Reading' = Reading \ {t} /\ Writing' = Writing
    BY <1>4 DEF ReadLeave
  <2> QED BY <2>1
<1>5. CASE WriteArrive(t) BY <1>5 DEF WriteArrive
<1>6. CASE WriteEnter(t)
  <2>1. Reading = {} /\ Writing = {} /\ Writing' = {t} /\ Reading' = Reading
    BY <1>6 DEF WriteEnter
  <2> QED BY <2>1
<1>7. CASE WriteLeave(t)
  <2>1. t \in Writing /\ Writing' = Writing \ {t} /\ Reading' = Reading
    BY <1>7 DEF WriteLeave
  <2> QED BY <2>1
<1> QED BY <1>1, <1>2, <1>3, <1>4, <1>5, <1>6, <1>7 DEF RWStep

\* The protocol implements ReadersWriters.
THEOREM RWRefinement == RWSpec => RWImplementsAbs
<1>1. RWInit => RW!AbsInit
  BY DEF RWInit, RW!AbsInit, Reading, Writing
<1>2. RWInv /\ [RWNext]_rwvars => [RW!AbsNext]_RW!absvars
  <2>1. UNCHANGED rwvars => UNCHANGED RW!absvars
    BY DEF rwvars, RW!absvars, Reading, Writing
  <2> QED BY <2>1, RWStepRefines DEF RWNext
<1> QED BY <1>1, <1>2, RWSafety, PTL DEF RWSpec, RWImplementsAbs, RW!AbsSpec
=============================================================================
