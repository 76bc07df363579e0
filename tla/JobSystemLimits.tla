------------------------- MODULE JobSystemLimits -------------------------
(***************************************************************************)
(* What the bounds of the job queue are worth, for any numbers of threads  *)
(* and jobs: the lists of children and the queue do not overflow, and the  *)
(* jobs form a tree, no threads wait in a circle, and the report at the    *)
(* end is complete.  Each needs an invariant beside JInv.                  *)
(***************************************************************************)
EXTENDS JobSystemProofs, FiniteSetTheorems

\* The registers of producer q.
Stays(q) == /\ pc'[q] = pc[q] /\ idx'[q] = idx[q]
            /\ newjob'[q] = newjob[q] /\ added'[q] = added[q]

\* Only a producer's own steps change its registers.
LEMMA ProducersApart ==
  ASSUME JInv, [Next]_vars, NEW q \in Producer, ~ProducerStep(q)
  PROVE  Stays(q)
<1>0. /\ pc \in [Thread -> ProducerPC \cup ConsumerPC] /\ idx \in [Thread -> Job \cup {NoJob}]
      /\ newjob \in [Producer -> Job \cup {NoJob}] /\ added \in [Producer -> Nat]
  BY DEF JInv, TypeOK
<1> USE <1>0, JobAssumption DEF Stays, Goto, queue, locals, regs, procs, tree
<1>1. ASSUME NEW p \in Producer, ProducerStep(p)
      PROVE  Stays(q)
  <2>0. p # q
    BY <1>1
  <2>1. CASE TimeOver(p) \/ StartRound(p) \/ LockRoot(p) \/ CheckRoot(p)
    BY <2>0, <2>1 DEF TimeOver, StartRound, LockRoot, CheckRoot
  <2>2. CASE EnterRead(p) \/ PickJob(p) \/ TryJob(p) \/ CheckJob(p)
    BY <2>0, <2>2 DEF EnterRead, PickJob, TryJob, CheckJob
  <2>3. CASE EnterWrite(p) \/ InsertNewJob(p) \/ InitMutex(p)
    BY <2>0, <2>3 DEF EnterWrite, InsertNewJob, InitMutex
  <2>4. CASE AttachChild(p)
    BY <2>0, <2>4 DEF AttachChild
  <2> QED BY <1>1, <2>1, <2>2, <2>3, <2>4 DEF ProducerStep
<1>2. ASSUME NEW c \in Consumer, ConsumerStep(c)
      PROVE  Stays(q)
  <2>0. c # q
    OBVIOUS
  <2>1. CASE EnterRead(c) \/ TakeSnapshot(c) \/ ScanJob(c) \/ ExamineJob(c)
    BY <2>0, <2>1 DEF EnterRead, TakeSnapshot, ScanJob, ExamineJob
  <2>2. CASE LockChild(c) \/ ReadChild(c) \/ LeaveJob(c) \/ StartJob(c)
    BY <2>0, <2>2 DEF LockChild, ReadChild, LeaveJob, StartJob
  <2>3. CASE LockToFinish(c) \/ FinishJob(c) \/ EndSweep(c)
    BY <2>0, <2>3 DEF LockToFinish, FinishJob, EndSweep
  <2> QED BY <1>2, <2>1, <2>2, <2>3 DEF ConsumerStep
<1>3. CASE MainStep
  BY <1>3 DEF MainStep, Fork, ExitB, JoinProducers, Report
<1>4. CASE UNCHANGED vars
  BY <1>4 DEF vars
<1> QED BY <1>1, <1>2, <1>3, <1>4 DEF Next, Terminated

\* What is counted and what hangs where changes in two actions only.
LEMMA GrowthFrame ==
  ASSUME JInv, [Next]_vars
  PROVE  \/ UNCHANGED <<count_jobs, child_jobs>>
         \/ \E p \in Producer : InsertNewJob(p) /\ count_jobs < Capacity
         \/ \E p \in Producer : AttachChild(p) /\ newjob[p] # NoJob
<1>0. count_jobs \in Int /\ Capacity \in Int
  BY JobAssumption DEF JInv, TypeOK
<1>1. ASSUME NEW p \in Producer, InsertNewJob(p), ~(count_jobs < Capacity)
      PROVE  UNCHANGED <<count_jobs, child_jobs>>
  BY <1>0, <1>1 DEF InsertNewJob
<1>2. ASSUME NEW p \in Producer, AttachChild(p), newjob[p] = NoJob
      PROVE  UNCHANGED <<count_jobs, child_jobs>>
  BY <1>2 DEF AttachChild
<1> QED BY <1>1, <1>2, TreeFrame DEF tree, StartJob, FinishJob

-----------------------------------------------------------------------------
(* The lists of children.                                                  *)

\* Whoever has found room in the list of a job still has it, and needs one place.
Roomy ==
    /\ ChildListBounded
    /\ \A p \in Producer : pc[p] \in {"write", "init", "attach"} =>
          Len(child_jobs[idx[p]]) < MAX_CHILD_JOBS

LEMMA RoomyInit == Init => Roomy
<1> SUFFICES ASSUME Init PROVE Roomy
  OBVIOUS
<1> DEFINE first == [n \in 1 .. InitJobs - 1 |-> n]
<1>1. InitJobs - 1 \in Nat /\ Len(first) = InitJobs - 1 /\ Len(<<>>) = 0
  BY JobAssumption, LenProperties
<1>2. \A i \in Job : child_jobs[i] = IF i = Root THEN first ELSE <<>>
  BY DEF Init
<1>3. ChildListBounded
  <2> HIDE DEF first
  <2> QED BY <1>1, <1>2, ListAssumption, JobAssumption DEF ChildListBounded
<1> QED BY <1>3, JobAssumption DEF Roomy, Init

LEMMA RoomyStep ==
  ASSUME JInv, Roomy, [Next]_vars
  PROVE  Roomy'
<1>0. /\ child_jobs \in [Job -> Seq(Job)] /\ idx \in [Thread -> Job \cup {NoJob}]
      /\ pc \in [Thread -> ProducerPC \cup ConsumerPC] /\ newjob \in [Producer -> Job \cup {NoJob}]
      /\ MAX_CHILD_JOBS \in Nat /\ Producer \subseteq Thread
  BY JobAssumption DEF JInv, TypeOK
<1>1. CASE UNCHANGED child_jobs
  <2>1. ChildListBounded'
    BY <1>1 DEF Roomy, ChildListBounded
  <2>2. ASSUME NEW q \in Producer, pc'[q] \in {"write", "init", "attach"}
        PROVE  Len(child_jobs'[idx'[q]]) < MAX_CHILD_JOBS
    <3>1. CASE ~ProducerStep(q)
      BY <1>1, <2>2, <3>1, ProducersApart DEF Roomy, Stays
    <3>2. CASE ProducerStep(q)
      <4>1. CASE TimeOver(q) \/ StartRound(q) \/ LockRoot(q) \/ CheckRoot(q)
        BY <1>0, <2>2, <4>1 DEF TimeOver, StartRound, LockRoot, CheckRoot, Goto
      <4>2. CASE EnterRead(q) \/ PickJob(q) \/ TryJob(q) \/ AttachChild(q)
        BY <1>0, <2>2, <4>2 DEF EnterRead, PickJob, TryJob, AttachChild, Goto, locals
      <4>3. CASE CheckJob(q)
        BY <1>0, <1>1, <2>2, <4>3 DEF CheckJob, Goto, regs
      <4>4. CASE EnterWrite(q) \/ InsertNewJob(q) \/ InitMutex(q)
        BY <1>0, <1>1, <2>2, <4>4 DEF EnterWrite, InsertNewJob, InitMutex, Goto, locals, regs, Roomy
      <4> QED BY <3>2, <4>1, <4>2, <4>3, <4>4 DEF ProducerStep
    <3> QED BY <3>1, <3>2
  <2> QED BY <2>1, <2>2 DEF Roomy
<1>2. ASSUME NEW p \in Producer, AttachChild(p), newjob[p] # NoJob
      PROVE  Roomy'
  <2>1. idx[p] \in Job /\ Len(child_jobs[idx[p]]) < MAX_CHILD_JOBS /\ newjob[p] \in Job
    BY <1>0, <1>2 DEF AttachChild, JInv, Indexed, Roomy
  <2>2. /\ child_jobs'[idx[p]] = Append(child_jobs[idx[p]], newjob[p])
        /\ \A i \in Job \ {idx[p]} : child_jobs'[i] = child_jobs[i]
    BY <1>0, <1>2, <2>1 DEF AttachChild
  <2>3. ChildListBounded'
    <3>1. Len(child_jobs'[idx[p]]) = Len(child_jobs[idx[p]]) + 1
      BY <1>0, <2>1, <2>2
    <3>2. Len(child_jobs'[idx[p]]) <= MAX_CHILD_JOBS
      BY <1>0, <2>1, <3>1
    <3> QED BY <2>2, <3>2 DEF Roomy, ChildListBounded
  <2>4. ASSUME NEW q \in Producer, pc'[q] \in {"write", "init", "attach"}
        PROVE  Len(child_jobs'[idx'[q]]) < MAX_CHILD_JOBS
    <3>1. q # p
      BY <1>0, <1>2, <2>4 DEF AttachChild, Goto
    <3>2. pc[q] = pc'[q] /\ idx' = idx
      BY <1>0, <1>2, <3>1 DEF AttachChild, Goto
    <3>3. idx[q] \in Job /\ Holds(q, idx[q]) /\ Holds(p, idx[p])
      BY <1>0, <1>2, <2>4, <3>2 DEF JInv, Indexed, Holds, AttachChild
    <3>4. idx[q] # idx[p]
      BY <1>0, <2>1, <3>1, <3>3 DEF JInv, JobMutexOwned
    <3> QED BY <2>2, <2>4, <3>2, <3>3, <3>4 DEF Roomy
  <2> QED BY <2>3, <2>4 DEF Roomy
<1> QED BY <1>1, <1>2, GrowthFrame DEF InsertNewJob

\* However many producers pick the same job, its list of children does not
\* overflow: the room that line 174 has seen is still there at line 195.
THEOREM ListsBounded == Spec => []ChildListBounded
<1>1. Init => Roomy
  BY RoomyInit
<1>2. JInv /\ Roomy /\ [Next]_vars => Roomy'
  BY RoomyStep
<1>3. Roomy => ChildListBounded
  BY DEF Roomy
<1> QED BY <1>1, <1>2, <1>3, JobSafety, PTL DEF Spec

-----------------------------------------------------------------------------
(* The queue.                                                              *)

\* Producer p has a new job that it has not hung up yet.
Making(p) == pc[p] \in {"init", "attach"} /\ newjob[p] # NoJob

\* The jobs p has counted, numbered from 1, and those of all producers.
Claimed(p) == added[p] + (IF Making(p) THEN 1 ELSE 0)
Made == {e \in Producer \X (1 .. MaxAdds) : e[2] <= Claimed(e[1])}

\* count_jobs is what main has inserted and what the producers have; a producer
\* in a round has not used up its time.
AddedExact ==
    /\ \A p \in Producer : added[p] <= MaxAdds
    /\ \A p \in Producer : pc[p] \notin {"time", "done"} => added[p] < MaxAdds
    /\ count_jobs = InitJobs + Cardinality(Made)

\* When there is room for all jobs nobody finds the queue full.
Room == InitJobs + Cardinality(Producer) * MaxAdds <= Capacity
NoneRefused == Room => \A p \in Producer :
    /\ pc[p] # "crashed"
    /\ pc[p] \in {"init", "attach"} => newjob[p] # NoJob

LEMMA SlotsFinite ==
  /\ IsFiniteSet(Producer \X (1 .. MaxAdds))
  /\ Cardinality(Producer \X (1 .. MaxAdds)) = Cardinality(Producer) * MaxAdds
<1>1. IsFiniteSet(Producer)
  BY FS_Subset, ThreadAssumption, JobAssumption
<1>2. IsFiniteSet(1 .. MaxAdds) /\ Cardinality(1 .. MaxAdds) = MaxAdds
  BY FS_Interval, JobAssumption
<1> QED BY <1>1, <1>2, FS_Product

LEMMA MadeFinite == IsFiniteSet(Made)
  BY SlotsFinite, FS_Subset, Made \subseteq Producer \X (1 .. MaxAdds) DEF Made

LEMMA AddedInit == Init => AddedExact /\ NoneRefused
<1> SUFFICES ASSUME Init PROVE AddedExact /\ NoneRefused
  OBVIOUS
<1>1. \A p \in Producer : added[p] = 0 /\ pc[p] = "time"
  BY JobAssumption DEF Init
<1>2. Made = {}
  BY <1>1 DEF Made, Claimed, Making
<1>3. Cardinality(Made) = 0
  BY <1>2, FS_EmptySet
<1> QED BY <1>1, <1>3, JobAssumption DEF AddedExact, NoneRefused, Init

\* A step counts one job of one producer, or none at all.
LEMMA MadeStep ==
  ASSUME JInv, AddedExact, [Next]_vars
  PROVE  \/ count_jobs' = count_jobs /\ Made' = Made
         \/ \E e \in (Producer \X (1 .. MaxAdds)) \ Made :
               count_jobs' = count_jobs + 1 /\ Made' = Made \cup {e}
<1>0. /\ pc \in [Thread -> ProducerPC \cup ConsumerPC] /\ newjob \in [Producer -> Job \cup {NoJob}]
      /\ added \in [Producer -> Nat] /\ count_jobs \in Int /\ Capacity \in Int
      /\ MaxAdds \in Nat /\ Producer \subseteq Thread
  BY JobAssumption DEF JInv, TypeOK
<1>1. CASE \E p \in Producer : InsertNewJob(p) /\ count_jobs < Capacity
  <2>1. PICK p \in Producer : InsertNewJob(p) /\ count_jobs < Capacity
    BY <1>1
  <2>2. count_jobs' = count_jobs + 1 /\ added' = added /\ added[p] \in Nat
    BY <1>0, <2>1 DEF InsertNewJob
  <2>3. Claimed(p) = added[p] /\ Claimed(p)' = added[p] + 1
    <3>1. ~Making(p)
      BY <2>1 DEF InsertNewJob, Making
    <3>2. newjob'[p] = count_jobs /\ pc'[p] = "init"
      BY <1>0, <2>1 DEF InsertNewJob, Goto
    <3>3. count_jobs # NoJob
      BY JobAssumption DEF JInv, TypeOK, NoJob
    <3> QED BY <2>2, <3>1, <3>2, <3>3 DEF Claimed, Making
  <2>4. \A q \in Producer \ {p} : Claimed(q)' = Claimed(q)
    BY <1>0, <2>1, <2>2 DEF InsertNewJob, Goto, Claimed, Making
  <2>5. added[p] + 1 \in 1 .. MaxAdds
    BY <1>0, <2>1, <2>2 DEF AddedExact, InsertNewJob
  <2> DEFINE e == <<p, added[p] + 1>>
  <2>6. e \in Producer \X (1 .. MaxAdds) /\ e \notin Made
    BY <2>2, <2>3, <2>5 DEF Made
  <2>7. Made' = Made \cup {e}
    <3>1. ASSUME NEW q \in Producer, NEW n \in 1 .. MaxAdds
          PROVE  n <= Claimed(q)' <=> n <= Claimed(q) \/ <<q, n>> = e
      <4>1. CASE q = p BY <2>2, <2>3, <4>1
      <4>2. CASE q # p BY <2>4, <4>2
      <4> QED BY <4>1, <4>2
    <3> QED BY <2>6, <3>1 DEF Made
  <2> QED BY <2>2, <2>6, <2>7
<1>2. CASE ~\E p \in Producer : InsertNewJob(p) /\ count_jobs < Capacity
  <2>1. count_jobs' = count_jobs
    BY <1>2, GrowthFrame DEF AttachChild
  <2>2. ASSUME NEW q \in Producer
        PROVE  Claimed(q)' = Claimed(q)
    <3>1. CASE ~ProducerStep(q)
      BY <3>1, ProducersApart DEF Stays, Claimed, Making
    <3>2. CASE ProducerStep(q)
      <4>1. CASE TimeOver(q) \/ StartRound(q) \/ LockRoot(q) \/ CheckRoot(q)
        BY <1>0, <4>1 DEF TimeOver, StartRound, LockRoot, CheckRoot, Goto, Claimed, Making, regs
      <4>2. CASE EnterRead(q) \/ PickJob(q) \/ TryJob(q) \/ CheckJob(q)
        BY <1>0, <4>2 DEF EnterRead, PickJob, TryJob, CheckJob, Goto, Claimed, Making, regs, locals
      <4>3. CASE EnterWrite(q) \/ InitMutex(q)
        BY <1>0, <4>3 DEF EnterWrite, InitMutex, Goto, Claimed, Making, regs, locals
      <4>4. CASE InsertNewJob(q)
        <5>1. newjob'[q] = NoJob /\ added' = added
          BY <1>0, <1>2, <4>4 DEF InsertNewJob
        <5> QED BY <4>4, <5>1 DEF InsertNewJob, Claimed, Making
      <4>5. CASE AttachChild(q)
        BY <1>0, <4>5 DEF AttachChild, Goto, Claimed, Making
      <4> QED BY <3>2, <4>1, <4>2, <4>3, <4>4, <4>5 DEF ProducerStep
    <3> QED BY <3>1, <3>2
  <2> QED BY <2>1, <2>2 DEF Made
<1> QED BY <1>1, <1>2

LEMMA AddedStep ==
  ASSUME JInv, AddedExact, [Next]_vars
  PROVE  AddedExact'
<1>0. /\ pc \in [Thread -> ProducerPC \cup ConsumerPC]
      /\ added \in [Producer -> Nat] /\ MaxAdds \in Nat /\ Producer \subseteq Thread
  BY JobAssumption DEF JInv, TypeOK
<1>1. ASSUME NEW q \in Producer
      PROVE  added'[q] <= MaxAdds /\ (pc'[q] \notin {"time", "done"} => added'[q] < MaxAdds)
  <2>1. CASE ~ProducerStep(q)
    BY <2>1, ProducersApart DEF Stays, AddedExact
  <2>2. CASE ProducerStep(q)
    <3>1. CASE TimeOver(q) \/ StartRound(q) \/ LockRoot(q) \/ CheckRoot(q)
      BY <1>0, <3>1 DEF TimeOver, StartRound, LockRoot, CheckRoot, Goto, regs, AddedExact
    <3>2. CASE EnterRead(q) \/ PickJob(q) \/ TryJob(q) \/ CheckJob(q)
      BY <1>0, <3>2 DEF EnterRead, PickJob, TryJob, CheckJob, Goto, regs, locals, AddedExact
    <3>3. CASE EnterWrite(q) \/ InsertNewJob(q) \/ InitMutex(q)
      BY <1>0, <3>3 DEF EnterWrite, InsertNewJob, InitMutex, Goto, regs, locals, AddedExact
    <3>4. CASE AttachChild(q)
      BY <1>0, <3>4 DEF AttachChild, Goto, AddedExact
    <3> QED BY <2>2, <3>1, <3>2, <3>3, <3>4 DEF ProducerStep
  <2> QED BY <2>1, <2>2
<1>2. count_jobs' = InitJobs + Cardinality(Made')
  <2>1. CASE count_jobs' = count_jobs /\ Made' = Made
    BY <2>1 DEF AddedExact
  <2>2. ASSUME NEW e \in (Producer \X (1 .. MaxAdds)) \ Made,
               count_jobs' = count_jobs + 1, Made' = Made \cup {e}
        PROVE  count_jobs' = InitJobs + Cardinality(Made')
    <3>1. Cardinality(Made \cup {e}) = Cardinality(Made) + 1
      BY MadeFinite, FS_AddElement
    <3>2. Cardinality(Made) \in Nat
      BY MadeFinite, FS_CardinalityType
    <3> QED BY <2>2, <3>1, <3>2, JobAssumption DEF AddedExact
  <2> QED BY <2>1, <2>2, MadeStep
<1> QED BY <1>1, <1>2 DEF AddedExact

\* A producer that is about to insert has a slot of its own left in the queue.
LEMMA RoomLeft ==
  ASSUME JInv, AddedExact, Room, NEW p \in Producer, pc[p] = "write"
  PROVE  count_jobs < Capacity
<1> DEFINE All == Producer \X (1 .. MaxAdds)
           e == <<p, added[p] + 1>>
<1>1. added[p] \in Nat /\ added[p] < MaxAdds /\ MaxAdds \in Nat
  BY JobAssumption DEF JInv, TypeOK, AddedExact
<1>2. e \in All \ Made
  <2>1. Claimed(p) = added[p]
    BY <1>1 DEF Claimed, Making
  <2> QED BY <1>1, <2>1 DEF Made
<1>3. Made \subseteq All /\ IsFiniteSet(All) /\ IsFiniteSet(Made)
  BY SlotsFinite, MadeFinite DEF Made
<1>4. Cardinality(Made) \in Nat /\ Cardinality(All) \in Nat
      /\ Cardinality(Made) <= Cardinality(All) /\ Cardinality(Made) # Cardinality(All)
  BY <1>2, <1>3, FS_Subset, FS_CardinalityType
<1>5. Cardinality(All) = Cardinality(Producer) * MaxAdds
  BY SlotsFinite
<1> DEFINE room == Cardinality(Producer) * MaxAdds
<1>6. InitJobs + room <= Capacity /\ room = Cardinality(All)
  BY <1>5 DEF Room
<1> QED
  <2> HIDE DEF room, All
  <2> QED BY <1>4, <1>6, JobAssumption DEF AddedExact

LEMMA RefusedStep ==
  ASSUME JInv, AddedExact, NoneRefused, [Next]_vars
  PROVE  NoneRefused'
<1> SUFFICES ASSUME Room, NEW q \in Producer
             PROVE  /\ pc'[q] # "crashed"
                    /\ pc'[q] \in {"init", "attach"} => newjob'[q] # NoJob
  BY DEF NoneRefused, Room
<1>0. /\ pc \in [Thread -> ProducerPC \cup ConsumerPC] /\ newjob \in [Producer -> Job \cup {NoJob}]
      /\ Producer \subseteq Thread
  BY JobAssumption DEF JInv, TypeOK
<1>1. CASE ~ProducerStep(q)
  BY <1>1, ProducersApart DEF Stays, NoneRefused
<1>2. CASE ProducerStep(q)
  <2>1. CASE TimeOver(q) \/ StartRound(q) \/ LockRoot(q) \/ CheckRoot(q)
    BY <1>0, <2>1 DEF TimeOver, StartRound, LockRoot, CheckRoot, Goto
  <2>2. CASE EnterRead(q) \/ PickJob(q) \/ TryJob(q) \/ CheckJob(q)
    BY <1>0, <2>2 DEF EnterRead, PickJob, TryJob, CheckJob, Goto, locals
  <2>3. CASE EnterWrite(q) \/ InitMutex(q)
    BY <1>0, <2>3 DEF EnterWrite, InitMutex, Goto, locals, regs, NoneRefused
  <2>4. CASE InsertNewJob(q)
    <3>1. count_jobs < Capacity /\ count_jobs \in Int /\ Capacity \in Int /\ count_jobs # NoJob
      BY <2>4, RoomLeft, JobAssumption DEF InsertNewJob, JInv, TypeOK, NoJob
    <3>2. newjob'[q] = count_jobs /\ pc'[q] = "init"
      BY <1>0, <2>4, <3>1 DEF InsertNewJob, Goto
    <3> QED BY <3>1, <3>2
  <2>5. CASE AttachChild(q)
    BY <1>0, <2>5 DEF AttachChild, Goto, NoneRefused
  <2> QED BY <1>2, <2>1, <2>2, <2>3, <2>4, <2>5 DEF ProducerStep
<1> QED BY <1>1, <1>2

\* A queue made as long as line 310 makes it never gets full, so that no producer
\* follows the NULL of insert_new_job at line 193.
THEOREM QueueLongEnough == Spec => []QueueNeverFull
<1>1. Init => AddedExact /\ NoneRefused
  BY AddedInit
<1>2. JInv /\ AddedExact /\ NoneRefused /\ [Next]_vars => (AddedExact /\ NoneRefused)'
  BY AddedStep, RefusedStep
<1>3. NoneRefused => QueueNeverFull
  BY DEF NoneRefused, QueueNeverFull, Room
<1> QED BY <1>1, <1>2, <1>3, JobSafety, PTL DEF Spec

-----------------------------------------------------------------------------
(* The shape of the tree.                                                  *)

\* A job is in one list at one place, or with one producer, but not in both.
Unique ==
    /\ \A i, j \in Job : \A m \in 1 .. Len(child_jobs[i]), n \in 1 .. Len(child_jobs[j]) :
          child_jobs[i][m] = child_jobs[j][n] => i = j /\ m = n
    /\ \A p, q \in Producer : Making(p) /\ Making(q) /\ newjob[p] = newjob[q] => p = q
    /\ \A p \in Producer, i \in Job : \A n \in 1 .. Len(child_jobs[i]) :
          Making(p) => child_jobs[i][n] # newjob[p]

LEMMA UniqueInit == Init => Unique
<1> SUFFICES ASSUME Init PROVE Unique
  OBVIOUS
<1> DEFINE first == [n \in 1 .. InitJobs - 1 |-> n]
<1>1. \A p \in Producer : ~Making(p)
  BY JobAssumption DEF Init, Making
<1>2. InitJobs - 1 \in Nat /\ Len(first) = InitJobs - 1 /\ Len(<<>>) = 0
  BY JobAssumption, LenProperties
<1>3. \A n \in 1 .. Len(first) : first[n] = n
  BY <1>2
<1>4. \A i \in Job : child_jobs[i] = IF i = Root THEN first ELSE <<>>
  BY DEF Init
<1>5. ASSUME NEW i \in Job, NEW m \in 1 .. Len(child_jobs[i])
      PROVE  i = Root /\ child_jobs[i][m] = m
  <2>1. i = Root
    <3> HIDE DEF first
    <3> SUFFICES ASSUME i # Root PROVE FALSE
      OBVIOUS
    <3>1. child_jobs[i] = <<>>
      BY <1>4
    <3>2. 1 .. Len(child_jobs[i]) = {}
      BY <1>2, <3>1
    <3> QED BY <3>2
  <2> QED BY <1>3, <1>4, <1>5, <2>1
<1> QED
  <2> HIDE DEF first
  <2> QED BY <1>1, <1>5 DEF Unique

LEMMA UniqueStep ==
  ASSUME JInv, Unique, [Next]_vars
  PROVE  Unique'
<1>0. /\ child_jobs \in [Job -> Seq(Job)] /\ idx \in [Thread -> Job \cup {NoJob}]
      /\ pc \in [Thread -> ProducerPC \cup ConsumerPC] /\ newjob \in [Producer -> Job \cup {NoJob}]
      /\ count_jobs \in Int /\ Producer \subseteq Thread
  BY JobAssumption DEF JInv, TypeOK
\* Whoever is not inserting keeps the new job, or has hung it up.
<1>1. ASSUME NEW q \in Producer, ~(InsertNewJob(q) /\ count_jobs < Capacity), Making(q)'
      PROVE  Making(q) /\ newjob'[q] = newjob[q]
  <2>1. CASE ~ProducerStep(q)
    BY <1>1, <2>1, ProducersApart DEF Stays, Making
  <2>2. CASE ProducerStep(q)
    <3>1. CASE TimeOver(q) \/ StartRound(q) \/ LockRoot(q) \/ CheckRoot(q)
      BY <1>0, <1>1, <3>1 DEF TimeOver, StartRound, LockRoot, CheckRoot, Goto, Making
    <3>2. CASE EnterRead(q) \/ PickJob(q) \/ TryJob(q) \/ CheckJob(q)
      BY <1>0, <1>1, <3>2 DEF EnterRead, PickJob, TryJob, CheckJob, Goto, Making, locals
    <3>3. CASE EnterWrite(q) \/ InitMutex(q)
      BY <1>0, <1>1, <3>3 DEF EnterWrite, InitMutex, Goto, Making, locals, regs
    <3>4. CASE InsertNewJob(q)
      <4>1. ~(count_jobs < Capacity)
        BY <1>1, <3>4
      <4>2. newjob'[q] = NoJob
        BY <1>0, <3>4, <4>1, JobAssumption DEF InsertNewJob
      <4> QED BY <1>1, <4>2 DEF Making
    <3>5. CASE AttachChild(q)
      BY <1>0, <1>1, <3>5 DEF AttachChild, Goto, Making
    <3> QED BY <2>2, <3>1, <3>2, <3>3, <3>4, <3>5 DEF ProducerStep
  <2> QED BY <2>1, <2>2
<1>2. ASSUME NEW p \in Producer, InsertNewJob(p), count_jobs < Capacity
      PROVE  Unique'
  <2>1. newjob'[p] = count_jobs /\ UNCHANGED child_jobs
    BY <1>0, <1>2, JobAssumption DEF InsertNewJob
  <2>2. ASSUME NEW q \in Producer \ {p}, Making(q)'
        PROVE  Making(q) /\ newjob'[q] = newjob[q] /\ newjob[q] < count_jobs
    <3>1. Making(q) /\ newjob'[q] = newjob[q]
      BY <1>0, <1>2, <2>2 DEF InsertNewJob, Goto, Making
    <3> QED BY <3>1 DEF JInv, Ordered, Making
  <2>3. \A i \in Job : \A n \in 1 .. Len(child_jobs[i]) : child_jobs[i][n] < count_jobs
    BY DEF JInv, Ordered
  <2>4. \A q, r \in Producer : Making(q)' /\ Making(r)' /\ newjob'[q] = newjob'[r] => q = r
    BY <1>0, <2>1, <2>2 DEF Unique
  <2>5. ASSUME NEW q \in Producer, NEW i \in Job, NEW n \in 1 .. Len(child_jobs[i]), Making(q)'
        PROVE  child_jobs[i][n] # newjob'[q]
    <3>1. CASE q = p
      BY <1>0, <2>1, <2>3, <3>1
    <3>2. CASE q # p
      BY <2>2, <2>5, <3>2 DEF Unique
    <3> QED BY <3>1, <3>2
  <2> QED BY <2>1, <2>4, <2>5 DEF Unique
<1>3. ASSUME NEW p \in Producer, AttachChild(p), newjob[p] # NoJob
      PROVE  Unique'
  <2> DEFINE x == idx[p]
             k == newjob[p]
             len == Len(child_jobs[x])
  <2>1. x \in Job /\ k \in Job /\ Making(p) /\ len \in Nat
    BY <1>0, <1>3 DEF AttachChild, JInv, Indexed, Making
  <2>2. /\ \A i \in Job \ {x} : child_jobs'[i] = child_jobs[i]
        /\ Len(child_jobs'[x]) = len + 1
        /\ child_jobs'[x][len + 1] = k
        /\ \A n \in 1 .. len : child_jobs'[x][n] = child_jobs[x][n]
    <3>1. child_jobs'[x] = Append(child_jobs[x], k)
      BY <1>0, <1>3, <2>1 DEF AttachChild
    <3>2. child_jobs[x] \in Seq(Job)
      BY <1>0, <2>1
    <3>3. \A i \in Job \ {x} : child_jobs'[i] = child_jobs[i]
      BY <1>0, <1>3 DEF AttachChild
    <3> QED BY <2>1, <3>1, <3>2, <3>3, AppendProperties
  <2>3. ASSUME NEW i \in Job, NEW m \in 1 .. Len(child_jobs'[i])
        PROVE  \/ m \in 1 .. Len(child_jobs[i]) /\ child_jobs'[i][m] = child_jobs[i][m]
               \/ i = x /\ m = len + 1 /\ child_jobs'[i][m] = k
    BY <2>1, <2>2, <2>3
  <2>4. \A i \in Job : \A n \in 1 .. Len(child_jobs[i]) : child_jobs[i][n] # k
    BY <2>1 DEF Unique
  <2> HIDE DEF x, k, len
  <2>5. ASSUME NEW i \in Job, NEW j \in Job, NEW m \in 1 .. Len(child_jobs'[i]),
               NEW n \in 1 .. Len(child_jobs'[j]), child_jobs'[i][m] = child_jobs'[j][n]
        PROVE  i = j /\ m = n
    <3>1. CASE child_jobs'[i][m] = k
      <4>1. i = x /\ m = len + 1
        BY <2>3, <2>4, <3>1
      <4>2. j = x /\ n = len + 1
        BY <2>3, <2>4, <2>5, <3>1
      <4> QED BY <4>1, <4>2
    <3>2. CASE child_jobs'[i][m] # k
      <4>1. m \in 1 .. Len(child_jobs[i]) /\ child_jobs'[i][m] = child_jobs[i][m]
        BY <2>3, <3>2
      <4>2. n \in 1 .. Len(child_jobs[j]) /\ child_jobs'[j][n] = child_jobs[j][n]
        BY <2>3, <2>5, <3>2
      <4>3. child_jobs[i][m] = child_jobs[j][n]
        BY <2>5, <4>1, <4>2
      <4> QED BY <4>1, <4>2, <4>3 DEF Unique
    <3> QED BY <3>1, <3>2
  <2>6. ~InsertNewJob(p) /\ \A q \in Producer : ~InsertNewJob(q)
    <3>1. pc[p] = "attach" /\ pc'[p] = "time"
      BY <1>0, <1>3 DEF AttachChild, Goto
    <3> QED BY <1>0, <3>1 DEF InsertNewJob, Goto
  <2>7. \A q \in Producer : Making(q)' => Making(q) /\ newjob'[q] = newjob[q] /\ q # p
    <3>1. pc'[p] = "time"
      BY <1>0, <1>3 DEF AttachChild, Goto
    <3>2. ~Making(p)'
      BY <3>1 DEF Making
    <3> QED BY <1>1, <2>6, <3>2
  <2>8. ASSUME NEW q \in Producer, Making(q)', NEW i \in Job, NEW n \in 1 .. Len(child_jobs'[i])
        PROVE  child_jobs'[i][n] # newjob'[q]
    <3>1. Making(q) /\ newjob'[q] = newjob[q] /\ newjob[q] # k
      BY <2>1, <2>7, <2>8 DEF Unique, k
    <3> QED BY <2>3, <3>1 DEF Unique
  <2> QED BY <2>5, <2>7, <2>8 DEF Unique
<1>4. ASSUME UNCHANGED <<count_jobs, child_jobs>>
      PROVE  Unique'
  <2>1. \A p \in Producer : ~(InsertNewJob(p) /\ count_jobs < Capacity)
    BY <1>0, <1>4, JobAssumption DEF InsertNewJob
  <2> QED BY <1>1, <1>4, <2>1 DEF Unique
<1> QED BY <1>2, <1>3, <1>4, GrowthFrame

\* All places of a list are places in a list of Capacity jobs.
LEMMA ListFits ==
  ASSUME JInv, Unique, NEW i \in Job
  PROVE  Len(child_jobs[i]) <= Capacity
<1> DEFINE len == Len(child_jobs[i])
           f == [n \in 1 .. len |-> child_jobs[i][n]]
<1>1. child_jobs[i] \in Seq(Job) /\ len \in Nat
  BY DEF JInv, TypeOK
<1>2. f \in [1 .. len -> Job]
  BY <1>1
<1>3. f \in Injection(1 .. len, Job)
  BY <1>2 DEF Injection, IsInjective, Unique
<1>4. IsFiniteSet(Job) /\ Cardinality(Job) <= Capacity
  <2>1. Capacity \in Int /\ Capacity - 1 \in Int /\ 0 \in Int /\ Capacity >= 1
    BY JobAssumption
  <2>2. IsFiniteSet(Job) /\ Cardinality(Job) = IF 0 > Capacity - 1 THEN 0 ELSE Capacity - 1 - 0 + 1
    BY ONLY <2>1, FS_Interval DEF Job
  <2> QED BY <2>1, <2>2
<1>5. Cardinality(1 .. len) = len
  BY <1>1, FS_Interval
<1>6. Cardinality(1 .. len) <= Cardinality(Job) /\ Cardinality(Job) \in Nat
  BY <1>3, <1>4, FS_Injection, FS_CardinalityType
<1> QED BY ONLY <1>1, <1>4, <1>5, <1>6, JobAssumption

\* The places where job k hangs, and the producers that have not hung it up yet.
Hooks(k) == {h \in (0 .. k - 1) \X (1 .. Capacity) :
                h[2] <= Len(child_jobs[h[1]]) /\ child_jobs[h[1]][h[2]] = k}
Makers(k) == {p \in Producer : newjob[p] = k /\ \E i \in 0 .. k - 1 : Pending(p, i)}

\* Whatever the producers do at the same time the jobs form a tree: each but the
\* root has one place in one list of an earlier job, or is on its way there.
THEOREM TreeShaped == Spec => []TreeShape
<1>1. Init => Unique
  BY UniqueInit
<1>2. JInv /\ Unique /\ [Next]_vars => Unique'
  BY UniqueStep
<1>3. JInv /\ Unique => TreeShape
  <2> SUFFICES ASSUME JInv, Unique, NEW k \in Jobs \ {Root}
               PROVE  Cardinality(Hooks(k) \cup Makers(k)) = 1
    BY DEF TreeShape, Hooks, Makers
  <2>0. count_jobs \in Nat /\ count_jobs <= Capacity /\ Capacity \in Nat /\ k \in Nat /\ k < count_jobs
    BY JobAssumption DEF JInv, TypeOK, Jobs
  <2>1. 0 .. k - 1 \subseteq Job
    BY <2>0 DEF Job
  <2>2. PICK i \in 0 .. k - 1 : k \in Kids[i]
    BY <2>0 DEF JInv, T!Rooted, T!Made, T!Root, Root
  <2>3. \A p \in Makers(k) : p \in Producer /\ Making(p) /\ newjob[p] = k
    BY DEF Makers, Pending, Making
  <2>4. \A h \in Hooks(k) : h[1] \in Job /\ h[2] \in 1 .. Len(child_jobs[h[1]])
            /\ child_jobs[h[1]][h[2]] = k /\ h = <<h[1], h[2]>>
    <3> SUFFICES ASSUME NEW h \in Hooks(k)
                 PROVE  h[1] \in Job /\ h[2] \in 1 .. Len(child_jobs[h[1]])
                        /\ child_jobs[h[1]][h[2]] = k /\ h = <<h[1], h[2]>>
      OBVIOUS
    <3>1. h[1] \in Job /\ h[2] \in 1 .. Capacity /\ h = <<h[1], h[2]>>
      BY <2>1 DEF Hooks
    <3>2. Len(child_jobs[h[1]]) \in Nat
      BY <3>1 DEF JInv, TypeOK
    <3> QED BY <2>0, <3>1, <3>2 DEF Hooks
  <2>5. CASE \E n \in 1 .. Len(child_jobs[i]) : k = child_jobs[i][n]
    <3>1. PICK n \in 1 .. Len(child_jobs[i]) : k = child_jobs[i][n]
      BY <2>5
    <3>2. i \in Job /\ Len(child_jobs[i]) \in Nat /\ Len(child_jobs[i]) <= Capacity
      <4>1. i \in Job
        BY <2>1
      <4>2. child_jobs[i] \in Seq(Job)
        BY <4>1 DEF JInv, TypeOK
      <4> QED BY <4>1, <4>2, ListFits
    <3>3. <<i, n>> \in Hooks(k)
      BY <2>0, <3>1, <3>2 DEF Hooks
    <3>4. Hooks(k) = {<<i, n>>}
      <4>1. ASSUME NEW h \in Hooks(k) PROVE h = <<i, n>>
        BY <2>4, <3>1, <3>2 DEF Unique
      <4> QED BY <3>3, <4>1
    <3>5. Makers(k) = {}
      BY <2>3, <3>1, <3>2 DEF Unique
    <3>6. Hooks(k) \cup Makers(k) = {<<i, n>>}
      BY <3>4, <3>5
    <3> QED BY <3>6, FS_Singleton
  <2>6. CASE \E p \in Producer : Pending(p, i) /\ k = newjob[p]
    <3>1. PICK p \in Producer : Pending(p, i) /\ k = newjob[p]
      BY <2>6
    <3>2. Making(p) /\ p \in Makers(k)
      BY <3>1 DEF Pending, Making, Makers
    <3>3. Makers(k) = {p}
      BY <2>3, <3>1, <3>2 DEF Unique
    <3>4. Hooks(k) = {}
      BY <2>4, <3>1, <3>2 DEF Unique
    <3>5. Hooks(k) \cup Makers(k) = {p}
      BY <3>3, <3>4
    <3> QED BY <3>5, FS_Singleton
  <2> QED BY <2>1, <2>2, <2>5, <2>6, KidsMember
<1> QED BY <1>1, <1>2, <1>3, JobSafety, PTL DEF Spec

-----------------------------------------------------------------------------
(***************************************************************************)
(* No threads of the two processes ever wait for each other in a circle.   *)
(* Three mutexes of the queue and one of each job are taken in an order    *)
(* that is written down nowhere: a job before its children, and a job      *)
(* before the mutexes of the queue.                                        *)
(***************************************************************************)
\* The converse of JobMutexOwned: a locked job mutex belongs to a thread at a place
\* where it will unlock it, or to a producer that has crashed.
Held == \A i \in Job, t \in Thread : job_mutex[i] = t => Holds(t, i)

\* A step of t locks at most the mutex of job i.
OnlyLocks(t, i) == \A k \in Job :
    job_mutex'[k] = job_mutex[k] \/ job_mutex'[k] = NoThread \/ (k = i /\ job_mutex'[k] = t)

LEMMA OthersHold ==
  ASSUME TypeOK, Held, NEW t \in Thread, OnlyMoves(t), NEW i, OnlyLocks(t, i),
         \A k \in Job : job_mutex'[k] = t => Holds(t, k)'
  PROVE  Held'
<1> SUFFICES ASSUME NEW u \in Thread, NEW k \in Job, job_mutex'[k] = u
             PROVE  Holds(u, k)'
  BY DEF Held
<1>1. CASE u = t
  BY <1>1
<1>2. CASE u # t
  <2>1. job_mutex[k] = u
    BY <1>2, ThreadAssumption DEF OnlyLocks
  <2>2. Holds(u, k)
    BY <2>1 DEF Held
  <2>3. pc[u] = "childheld" => u \in Consumer
    BY JobAssumption DEF TypeOK, ProducerPC
  <2> QED BY <1>2, <2>2, <2>3 DEF OnlyMoves, Holds
<1> QED BY <1>1, <1>2

LEMMA HeldInit == Init => Held
  BY ThreadAssumption DEF Init, Held

LEMMA HeldStep ==
  ASSUME JInv, Held, [Next]_vars
  PROVE  Held'
<1>0. /\ TypeOK /\ JobMutexOwned
      /\ pc \in [Thread -> ProducerPC \cup ConsumerPC] /\ idx \in [Thread -> Job \cup {NoJob}]
      /\ job_mutex \in [Job -> Thread \cup {NoThread}] /\ kid \in [Consumer -> Nat \ {0}]
      /\ child_jobs \in [Job -> Seq(Job)]
      /\ (\A p \in Producer : pc[p] \in ProducerPC) /\ \A c \in Consumer : pc[c] \in ConsumerPC
  BY DEF JInv, TypeOK
<1> USE JobAssumption, ThreadAssumption, <1>0
    DEF Held, Goto, LockJob, UnlockJob, queue, locals, regs, procs, tree, Root
<1>1. ASSUME NEW p \in Producer, ProducerStep(p)
      PROVE  Held'
  <2>1. CASE TimeOver(p)
    <3>1. OnlyMoves(p) /\ OnlyLocks(p, Root)
      BY <2>1 DEF TimeOver, OnlyMoves, OnlyLocks
    <3>2. ASSUME NEW k \in Job, job_mutex'[k] = p PROVE Holds(p, k)'
      <4>1. job_mutex[k] = p => Holds(p, k)
        OBVIOUS
      <4> QED BY <2>1, <3>2, <4>1 DEF TimeOver, Holds
    <3> QED BY <3>1, <3>2, OthersHold
  <2>2. CASE StartRound(p)
    <3>1. OnlyMoves(p) /\ OnlyLocks(p, Root)
      BY <2>2 DEF StartRound, OnlyMoves, OnlyLocks
    <3>2. ASSUME NEW k \in Job, job_mutex'[k] = p PROVE Holds(p, k)'
      <4>1. job_mutex[k] = p => Holds(p, k)
        OBVIOUS
      <4> QED BY <2>2, <3>2, <4>1 DEF StartRound, Holds
    <3> QED BY <3>1, <3>2, OthersHold
  <2>3. CASE LockRoot(p)
    <3>1. OnlyMoves(p) /\ OnlyLocks(p, Root)
      BY <2>3 DEF LockRoot, OnlyMoves, OnlyLocks
    <3>2. ASSUME NEW k \in Job, job_mutex'[k] = p PROVE Holds(p, k)'
      <4>1. job_mutex[k] = p => Holds(p, k)
        OBVIOUS
      <4> QED BY <2>3, <3>2, <4>1 DEF LockRoot, Holds
    <3> QED BY <3>1, <3>2, OthersHold
  <2>4. CASE CheckRoot(p)
    <3>1. OnlyMoves(p) /\ OnlyLocks(p, Root)
      BY <2>4 DEF CheckRoot, OnlyMoves, OnlyLocks
    <3>2. ASSUME NEW k \in Job, job_mutex'[k] = p PROVE Holds(p, k)'
      <4>1. job_mutex[k] = p => Holds(p, k)
        OBVIOUS
      <4> QED BY <2>4, <3>2, <4>1 DEF CheckRoot, Holds
    <3> QED BY <3>1, <3>2, OthersHold
  <2>5. CASE EnterRead(p)
    <3>1. OnlyMoves(p) /\ OnlyLocks(p, Root)
      BY <2>5 DEF EnterRead, OnlyMoves, OnlyLocks
    <3>2. ASSUME NEW k \in Job, job_mutex'[k] = p PROVE Holds(p, k)'
      <4>1. job_mutex[k] = p => Holds(p, k)
        OBVIOUS
      <4> QED BY <2>5, <3>2, <4>1 DEF EnterRead, Holds
    <3> QED BY <3>1, <3>2, OthersHold
  <2>6. CASE PickJob(p)
    <3>1. OnlyMoves(p) /\ OnlyLocks(p, Root)
      BY <2>6 DEF PickJob, OnlyMoves, OnlyLocks
    <3>2. ASSUME NEW k \in Job, job_mutex'[k] = p PROVE Holds(p, k)'
      <4>1. job_mutex[k] = p => Holds(p, k)
        OBVIOUS
      <4> QED BY <2>6, <3>2, <4>1 DEF PickJob, Holds
    <3> QED BY <3>1, <3>2, OthersHold
  <2>7. CASE TryJob(p)
    <3>1. OnlyMoves(p) /\ OnlyLocks(p, idx[p])
      BY <2>7 DEF TryJob, OnlyMoves, OnlyLocks
    <3>2. ASSUME NEW k \in Job, job_mutex'[k] = p PROVE Holds(p, k)'
      <4>1. job_mutex[k] = p => Holds(p, k)
        OBVIOUS
      <4> QED BY <2>7, <3>2, <4>1 DEF TryJob, Holds
    <3> QED BY <3>1, <3>2, OthersHold
  <2>8. CASE CheckJob(p)
    <3>1. OnlyMoves(p) /\ OnlyLocks(p, idx[p])
      BY <2>8 DEF CheckJob, OnlyMoves, OnlyLocks
    <3>2. ASSUME NEW k \in Job, job_mutex'[k] = p PROVE Holds(p, k)'
      <4>1. job_mutex[k] = p => Holds(p, k)
        OBVIOUS
      <4> QED BY <2>8, <3>2, <4>1 DEF CheckJob, Holds
    <3> QED BY <3>1, <3>2, OthersHold
  <2>9. CASE EnterWrite(p)
    <3>1. OnlyMoves(p) /\ OnlyLocks(p, Root)
      BY <2>9 DEF EnterWrite, OnlyMoves, OnlyLocks
    <3>2. ASSUME NEW k \in Job, job_mutex'[k] = p PROVE Holds(p, k)'
      <4>1. job_mutex[k] = p => Holds(p, k)
        OBVIOUS
      <4> QED BY <2>9, <3>2, <4>1 DEF EnterWrite, Holds
    <3> QED BY <3>1, <3>2, OthersHold
  <2>10. CASE InsertNewJob(p)
    <3>1. OnlyMoves(p) /\ OnlyLocks(p, Root)
      BY <2>10 DEF InsertNewJob, OnlyMoves, OnlyLocks
    <3>2. ASSUME NEW k \in Job, job_mutex'[k] = p PROVE Holds(p, k)'
      <4>1. job_mutex[k] = p => Holds(p, k)
        OBVIOUS
      <4> QED BY <2>10, <3>2, <4>1 DEF InsertNewJob, Holds
    <3> QED BY <3>1, <3>2, OthersHold
  <2>11. CASE InitMutex(p)
    <3>1. OnlyMoves(p) /\ OnlyLocks(p, Root)
      BY <2>11 DEF InitMutex, OnlyMoves, OnlyLocks
    <3>2. ASSUME NEW k \in Job, job_mutex'[k] = p PROVE Holds(p, k)'
      <4>1. job_mutex[k] = p => Holds(p, k)
        OBVIOUS
      <4> QED BY <2>11, <3>2, <4>1 DEF InitMutex, Holds
    <3> QED BY <3>1, <3>2, OthersHold
  <2>12. CASE AttachChild(p)
    <3>1. idx[p] \in Job /\ job_mutex[idx[p]] = p
      BY <2>12 DEF AttachChild, Holds, JInv, Indexed, JobMutexOwned
    <3>2. ASSUME NEW k \in Job, NEW t \in Thread, job_mutex'[k] = t
          PROVE  Holds(t, k) /\ (newjob[p] # NoJob => t # p)
      <4>1. CASE newjob[p] = NoJob
        BY <2>12, <3>2, <4>1 DEF AttachChild
      <4>2. CASE newjob[p] # NoJob
        <5>1. job_mutex' = [job_mutex EXCEPT ![idx[p]] = NoThread]
          BY <2>12, <4>2 DEF AttachChild
        <5>2. k # idx[p] /\ job_mutex[k] = t
          BY <3>1, <3>2, <5>1
        <5>3. Holds(t, k)
          BY <5>2
        <5>4. pc[p] = "attach"
          BY <2>12 DEF AttachChild
        <5>5. t # p
          BY <5>2, <5>3, <5>4 DEF Holds
        <5> QED BY <5>3, <5>5
      <4> QED BY <4>1, <4>2
    <3>3. ASSUME NEW k \in Job, NEW t \in Thread \ {p}, Holds(t, k)
          PROVE  Holds(t, k)'
      <4>1. pc'[t] = pc[t] /\ UNCHANGED <<idx, kid>>
        BY <2>12 DEF AttachChild
      <4>2. CASE pc[t] = "childheld"
        <5>1. idx[t] \in Job /\ Holds(t, idx[t])
          BY <4>2 DEF Holds, JInv, Indexed
        <5>2. idx[t] # idx[p]
          BY <3>1, <5>1 DEF JobMutexOwned
        <5>3. child_jobs'[idx[t]] = child_jobs[idx[t]]
          BY <2>12, <5>1, <5>2 DEF AttachChild
        <5> QED BY <3>3, <4>1, <4>2, <5>3 DEF Holds
      <4>3. CASE pc[t] # "childheld"
        BY <3>3, <4>1, <4>3 DEF Holds
      <4> QED BY <4>2, <4>3
    <3>4. ASSUME NEW k \in Job, Holds(p, k), newjob[p] = NoJob
          PROVE  Holds(p, k)'
      BY <2>12, <3>4 DEF AttachChild, Holds
    <3>5. ASSUME NEW k \in Job, NEW t \in Thread, job_mutex'[k] = t
          PROVE  Holds(t, k)'
      <4>1. Holds(t, k) /\ (newjob[p] # NoJob => t # p)
        BY <3>2, <3>5
      <4> HIDE DEF Held
      <4>2. CASE t = p
        BY <3>4, <4>1, <4>2
      <4>3. CASE t # p
        BY <3>3, <4>1, <4>3
      <4> QED BY <4>2, <4>3
    <3> QED BY <3>5
  <2> QED BY <1>1, <2>1, <2>2, <2>3, <2>4, <2>5, <2>6, <2>7, <2>8, <2>9, <2>10, <2>11, <2>12 DEF ProducerStep
<1>2. ASSUME NEW c \in Consumer, ConsumerStep(c)
      PROVE  Held'
  <2>1. CASE EnterRead(c)
    <3>1. OnlyMoves(c) /\ OnlyLocks(c, Root)
      BY <2>1 DEF EnterRead, OnlyMoves, OnlyLocks
    <3>2. ASSUME NEW k \in Job, job_mutex'[k] = c PROVE Holds(c, k)'
      <4>1. job_mutex[k] = c => Holds(c, k)
        OBVIOUS
      <4> QED BY <2>1, <3>2, <4>1 DEF EnterRead, Holds
    <3> QED BY <3>1, <3>2, OthersHold
  <2>2. CASE TakeSnapshot(c)
    <3>1. OnlyMoves(c) /\ OnlyLocks(c, Root)
      BY <2>2 DEF TakeSnapshot, OnlyMoves, OnlyLocks
    <3>2. ASSUME NEW k \in Job, job_mutex'[k] = c PROVE Holds(c, k)'
      <4>1. job_mutex[k] = c => Holds(c, k)
        OBVIOUS
      <4> QED BY <2>2, <3>2, <4>1 DEF TakeSnapshot, Holds
    <3> QED BY <3>1, <3>2, OthersHold
  <2>3. CASE ScanJob(c)
    <3>1. OnlyMoves(c) /\ OnlyLocks(c, idx[c])
      BY <2>3 DEF ScanJob, OnlyMoves, OnlyLocks
    <3>2. ASSUME NEW k \in Job, job_mutex'[k] = c PROVE Holds(c, k)'
      <4>1. job_mutex[k] = c => Holds(c, k)
        OBVIOUS
      <4> QED BY <2>3, <3>2, <4>1 DEF ScanJob, Holds
    <3> QED BY <3>1, <3>2, OthersHold
  <2>4. CASE ExamineJob(c)
    <3>1. OnlyMoves(c) /\ OnlyLocks(c, idx[c])
      BY <2>4 DEF ExamineJob, OnlyMoves, OnlyLocks
    <3>2. ASSUME NEW k \in Job, job_mutex'[k] = c PROVE Holds(c, k)'
      <4>1. job_mutex[k] = c => Holds(c, k)
        OBVIOUS
      <4> QED BY <2>4, <3>2, <4>1 DEF ExamineJob, Holds
    <3> QED BY <3>1, <3>2, OthersHold
  <2>5. CASE LockChild(c)
    <3>1. OnlyMoves(c) /\ OnlyLocks(c, child_jobs[idx[c]][kid[c]])
      BY <2>5 DEF LockChild, OnlyMoves, OnlyLocks
    <3>2. ASSUME NEW k \in Job, job_mutex'[k] = c PROVE Holds(c, k)'
      <4>1. job_mutex[k] = c => Holds(c, k)
        OBVIOUS
      <4> QED BY <2>5, <3>2, <4>1 DEF LockChild, Holds
    <3> QED BY <3>1, <3>2, OthersHold
  <2>6. CASE ReadChild(c)
    <3>1. OnlyMoves(c) /\ OnlyLocks(c, child_jobs[idx[c]][kid[c]])
      BY <2>6 DEF ReadChild, OnlyMoves, OnlyLocks
    <3>2. ASSUME NEW k \in Job, job_mutex'[k] = c PROVE Holds(c, k)'
      <4>1. job_mutex[k] = c => Holds(c, k)
        OBVIOUS
      <4> QED BY <2>6, <3>2, <4>1 DEF ReadChild, Holds
    <3> QED BY <3>1, <3>2, OthersHold
  <2>7. CASE LeaveJob(c)
    <3>1. OnlyMoves(c) /\ OnlyLocks(c, idx[c])
      BY <2>7 DEF LeaveJob, OnlyMoves, OnlyLocks
    <3>2. ASSUME NEW k \in Job, job_mutex'[k] = c PROVE Holds(c, k)'
      <4>1. job_mutex[k] = c => Holds(c, k)
        OBVIOUS
      <4> QED BY <2>7, <3>2, <4>1 DEF LeaveJob, Holds
    <3> QED BY <3>1, <3>2, OthersHold
  <2>8. CASE StartJob(c)
    <3>1. OnlyMoves(c) /\ OnlyLocks(c, idx[c])
      BY <2>8 DEF StartJob, OnlyMoves, OnlyLocks
    <3>2. ASSUME NEW k \in Job, job_mutex'[k] = c PROVE Holds(c, k)'
      <4>1. job_mutex[k] = c => Holds(c, k)
        OBVIOUS
      <4> QED BY <2>8, <3>2, <4>1 DEF StartJob, Holds
    <3> QED BY <3>1, <3>2, OthersHold
  <2>9. CASE LockToFinish(c)
    <3>1. OnlyMoves(c) /\ OnlyLocks(c, idx[c])
      BY <2>9 DEF LockToFinish, OnlyMoves, OnlyLocks
    <3>2. ASSUME NEW k \in Job, job_mutex'[k] = c PROVE Holds(c, k)'
      <4>1. job_mutex[k] = c => Holds(c, k)
        OBVIOUS
      <4> QED BY <2>9, <3>2, <4>1 DEF LockToFinish, Holds
    <3> QED BY <3>1, <3>2, OthersHold
  <2>10. CASE FinishJob(c)
    <3>1. OnlyMoves(c) /\ OnlyLocks(c, idx[c])
      BY <2>10 DEF FinishJob, OnlyMoves, OnlyLocks
    <3>2. ASSUME NEW k \in Job, job_mutex'[k] = c PROVE Holds(c, k)'
      <4>1. job_mutex[k] = c => Holds(c, k)
        OBVIOUS
      <4> QED BY <2>10, <3>2, <4>1 DEF FinishJob, Holds
    <3> QED BY <3>1, <3>2, OthersHold
  <2>11. CASE EndSweep(c)
    <3>1. OnlyMoves(c) /\ OnlyLocks(c, Root)
      BY <2>11 DEF EndSweep, OnlyMoves, OnlyLocks
    <3>2. ASSUME NEW k \in Job, job_mutex'[k] = c PROVE Holds(c, k)'
      <4>1. job_mutex[k] = c => Holds(c, k)
        OBVIOUS
      <4> QED BY <2>11, <3>2, <4>1 DEF EndSweep, Holds
    <3> QED BY <3>1, <3>2, OthersHold
  <2> QED BY <1>2, <2>1, <2>2, <2>3, <2>4, <2>5, <2>6, <2>7, <2>8, <2>9, <2>10, <2>11 DEF ConsumerStep
<1>3. CASE MainStep
  <2>1. UNCHANGED <<job_mutex, idx, kid, child_jobs>>
    BY <1>3 DEF MainStep, Fork, ExitB, JoinProducers, Report
  <2>2. ASSUME NEW t \in Thread PROVE pc'[t] = pc[t] \/ (pc[t] = "unborn" /\ t \in Consumer)
    BY <1>3 DEF MainStep, Fork, ExitB, JoinProducers, Report, JInv, Unborn
  <2> QED BY <2>1, <2>2 DEF Holds
<1>4. CASE UNCHANGED vars
  BY <1>4 DEF vars, Holds
<1> QED BY <1>1, <1>2, <1>3, <1>4 DEF Next, Terminated

-----------------------------------------------------------------------------
\* The index of the job whose children consumer c checks.
At(c) == Capacity - idx[c]

\* Among consumers that wait for children one has the job with the greatest index.
LEMMA YoungestJob ==
  ASSUME JInv, NEW C, C # {}, C \subseteq Thread
  PROVE  \E t \in C : \A u \in C : ~(idx[t] < idx[u])
<1> DEFINE D == {At(t) : t \in C}
<1>0. Capacity \in Nat /\ \A t \in C : idx[t] \in Int /\ idx[t] < Capacity
  BY JobAssumption DEF JInv, TypeOK, Job, NoJob
<1>1. D \subseteq Nat /\ D # {}
  BY <1>0 DEF At
<1>2. PICK d \in D : \A e \in D : ~(<<e, d>> \in OpToRel(<, Nat))
  BY <1>1, NatLessThanWellFounded, WFMin
<1>3. PICK t \in C : d = At(t)
  OBVIOUS
<1>4. ASSUME NEW u \in C PROVE ~(idx[t] < idx[u])
  <2>1. At(u) \in D
    OBVIOUS
  <2>2. ~(At(u) < At(t)) /\ At(u) \in Nat /\ At(t) \in Nat
    BY <1>1, <1>2, <1>3, <2>1 DEF OpToRel
  <2>3. idx[t] \in Int /\ idx[u] \in Int
    BY <1>0
  <2> QED BY <1>0, <2>2, <2>3 DEF At
<1> QED BY <1>4

LEMMA NobodyInACircle ==
  ASSUME JInv, Held
  PROVE  NoWaitCycle
<1> SUFFICES ASSUME NEW S \in (SUBSET Thread) \ {{}},
                    \A t \in S : \E u \in S : WaitsFor(t, u)
             PROVE  FALSE
  BY DEF NoWaitCycle
<1>0. /\ rw \in [Thread -> RWState] /\ pc \in [Thread -> ProducerPC \cup ConsumerPC]
      /\ idx \in [Thread -> Job \cup {NoJob}] /\ child_jobs \in [Job -> Seq(Job)]
      /\ kid \in [Consumer -> Nat \ {0}] /\ Root \in Job /\ S \subseteq Thread
  BY JobAssumption DEF JInv, TypeOK, RWTypeOK, Job, Root
<1>p. Places /\ Turnstile
  BY DEF JInv, RWInv
\* Whoever holds mutex, or is inside, is not blocked; so nobody in S waits for these.
<1>1. ASSUME NEW t \in S, rw[t] \in {"counted", "writing"}
      PROVE  FALSE
  <2>1. pc[t] \in {"read", "write", "init"}
    BY <1>0, <1>1, <1>p DEF Places
  <2> QED BY <1>0, <1>1, <2>1 DEF WaitsFor
<1>2. ASSUME NEW t \in S, rw[t] \in {"arrived", "reading"}
      PROVE  FALSE
  <2>1. pc[t] = "read"
    BY <1>0, <1>2, <1>p DEF Places
  <2>2. PICK u \in S : mutex = u
    BY <1>0, <1>2, <2>1 DEF WaitsFor
  <2>3. rw[u] = "counted"
    BY <1>0, <1>p, <2>2 DEF Turnstile
  <2> QED BY <1>1, <2>3
<1>3. ASSUME NEW t \in S, rw[t] = "w_arrived"
      PROVE  FALSE
  <2>1. pc[t] = "write"
    BY <1>0, <1>3, <1>p DEF Places
  <2>2. PICK u \in S : u \in Reading \cup Writing
    BY <1>0, <1>3, <2>1 DEF WaitsFor
  <2>3. rw[u] \in {"reading", "writing"}
    BY <2>2 DEF Reading, Writing
  <2> QED BY <1>1, <1>2, <2>3
<1>4. \A t \in S : rw[t] = "out"
  BY <1>0, <1>1, <1>2, <1>3 DEF RWState
\* So nobody in S holds in_mutex, and all wait for job mutexes.
<1>5. ASSUME NEW t \in S, NEW u \in S, WaitsFor(t, u)
      PROVE  /\ pc[t] \in {"root", "child", "run"}
             /\ \E i \in Job : /\ job_mutex[i] = u
                               /\ pc[t] = "child" => i > idx[t]
  <2>1. in_mutex # u
    BY <1>0, <1>4, <1>p DEF Turnstile
  <2>2. pc[t] \in {"root", "child", "run"}
    BY <1>0, <1>4, <1>5, <2>1 DEF WaitsFor
  <2>3. CASE pc[t] = "root"
    BY <1>0, <1>4, <1>5, <2>3 DEF WaitsFor
  <2>4. CASE pc[t] = "run"
    <3>1. idx[t] \in Job
      BY <1>0, <2>4 DEF JInv, Indexed
    <3> QED BY <1>0, <1>4, <1>5, <2>4, <3>1 DEF WaitsFor
  <2>5. CASE pc[t] = "child"
    <3>1. idx[t] \in Job /\ t \in Consumer
      BY <1>0, <2>5, JobAssumption DEF JInv, Indexed, TypeOK, ProducerPC
    <3>2. kid[t] \in 1 .. Len(child_jobs[idx[t]]) /\ job_mutex[child_jobs[idx[t]][kid[t]]] = u
      <4>1. kid[t] <= Len(child_jobs[idx[t]]) /\ job_mutex[child_jobs[idx[t]][kid[t]]] = u
        BY <1>0, <1>4, <1>5, <2>5 DEF WaitsFor
      <4>2. kid[t] \in Nat \ {0} /\ Len(child_jobs[idx[t]]) \in Nat
        BY <1>0, <3>1
      <4> QED BY <4>1, <4>2
    <3>3. child_jobs[idx[t]][kid[t]] \in Job /\ idx[t] < child_jobs[idx[t]][kid[t]]
      BY <1>0, <3>1, <3>2 DEF JInv, Ordered
    <3> DEFINE i == child_jobs[idx[t]][kid[t]]
    <3>4. i \in Job /\ job_mutex[i] = u /\ i > idx[t]
      <4>1. i \in Int /\ idx[t] \in Int
        BY <3>1, <3>3, JobAssumption DEF Job
      <4> QED BY <3>2, <3>3, <4>1
    <3> HIDE DEF i
    <3> QED BY <2>5, <3>4
  <2> QED BY <2>2, <2>3, <2>4, <2>5
\* Of those that wait for job mutexes only a consumer among the children of a job holds one.
<1>6. ASSUME NEW t \in S
      PROVE  \E u \in S : pc[u] = "child" /\ (pc[t] = "child" => idx[u] > idx[t])
  <2>1. PICK u \in S : WaitsFor(t, u)
    OBVIOUS
  <2>2. PICK i \in Job : job_mutex[i] = u /\ (pc[t] = "child" => i > idx[t])
    BY <1>5, <2>1
  <2>3. PICK v \in S : WaitsFor(u, v)
    OBVIOUS
  <2>4. pc[u] \in {"root", "child", "run"}
    BY <1>5, <2>3
  <2>5. Holds(u, i)
    BY <1>0, <2>2 DEF Held
  <2>6. pc[u] = "child" /\ i = idx[u]
    BY <2>4, <2>5 DEF Holds
  <2> QED BY <2>2, <2>6
\* Each of them waits for one with a younger job.
<1> DEFINE C == {t \in S : pc[t] = "child"}
<1>7. C # {} /\ C \subseteq Thread
  <2>1. PICK t \in S : TRUE
    OBVIOUS
  <2> QED BY <1>0, <1>6, <2>1
<1>8. PICK t \in C : \A u \in C : ~(idx[t] < idx[u])
  BY <1>7, YoungestJob
<1>9. \E u \in C : idx[u] > idx[t]
  BY <1>6
<1>10. \A u \in C : idx[u] \in Int
  BY <1>0 DEF Job, NoJob
<1> QED BY <1>8, <1>9, <1>10

\* Whatever the threads of the two processes do, no set of them waits in a circle:
\* a consumer waits for a child with the parent locked, a producer for the queue.
THEOREM DeadlockFree == Spec => []NoWaitCycle
<1>1. JInv /\ Held /\ [Next]_vars => Held'
  BY HeldStep
<1>2. JInv /\ Held => NoWaitCycle
  BY NobodyInACircle
<1> QED BY <1>1, <1>2, HeldInit, JobSafety, PTL DEF Spec

-----------------------------------------------------------------------------
(***************************************************************************)
(* The report.  print_job_tree is recursive over jobs, children and the    *)
(* queue; each recursion is unfolded by the least step at which it would   *)
(* go wrong, the one over jobs from the youngest to the root.              *)
(***************************************************************************)
\* Any set of numbers has a least one.
LEMMA LeastNumber ==
  ASSUME NEW S, S \subseteq Nat, S # {}
  PROVE  \E m \in S : \A k \in S : m <= k
<1>1. PICK m \in S : \A j \in S : ~(<<j, m>> \in OpToRel(<, Nat))
  BY NatLessThanWellFounded, WFMin
<1>2. m \in S /\ \A j \in S : ~(j < m)
  BY <1>1 DEF OpToRel
<1>3. \A j \in S : m <= j
  BY <1>2
<1> QED BY <1>2, <1>3

\* The lists of children as the report needs them: a child is younger than its
\* parent, and in one list at one place.
Grown ==
    /\ child_jobs \in [Job -> Seq(Job)]
    /\ \A i \in Job : \A n \in 1 .. Len(child_jobs[i]) : i < child_jobs[i][n]
    /\ \A i, j \in Job : \A m \in 1 .. Len(child_jobs[i]), n \in 1 .. Len(child_jobs[j]) :
          child_jobs[i][m] = child_jobs[j][n] => i = j /\ m = n

\* The loop over the children of x, unrolled once.
LEMMA PrintedUpToDef ==
  ASSUME NEW x, Len(child_jobs[x]) \in Nat, NEW trees
  PROVE  printedUpTo(x, trees) =
             [n \in 0 .. Len(child_jobs[x]) |->
                 IF n = 0 THEN <<x>> ELSE printedUpTo(x, trees)[n - 1] \o trees[child_jobs[x][n]]]
<1> DEFINE Is(f, m) == f = [n \in 0 .. m |-> IF n = 0 THEN <<x>> ELSE f[n - 1] \o trees[child_jobs[x][n]]]
           Gaps == {m \in Nat : ~\E f : Is(f, m)}
<1>1. \E f : Is(f, Len(child_jobs[x]))
  <2> SUFFICES ASSUME Gaps # {} PROVE FALSE
    OBVIOUS
  <2>1. PICK m \in Gaps : \A j \in Gaps : m <= j
    BY LeastNumber
  <2>n. m \in Nat
    <3> HIDE DEF Is
    <3> QED BY <2>1
  <2>2. m # 0
    <3>1. Is([n \in 0 .. 0 |-> <<x>>], 0)
      OBVIOUS
    <3> QED BY <3>1
  <2>3. PICK f : Is(f, m - 1)
    <3>1. m - 1 \in Nat /\ ~(m <= m - 1)
      BY ONLY <2>2, <2>n
    <3>2. m - 1 \notin Gaps
      <4> HIDE DEF Gaps
      <4> QED BY <2>1, <3>1
    <3> HIDE DEF Is
    <3> QED BY <3>1, <3>2
  <2> DEFINE After(n, before) == before \o trees[child_jobs[x][n]]
             g == [n \in 0 .. m |-> IF n = m THEN After(m, f[m - 1]) ELSE f[n]]
  <2>4. \A n \in 0 .. m : g[n] = IF n = 0 THEN <<x>> ELSE After(n, g[n - 1])
    <3>1. m \in Nat /\ m - 1 \in Nat
      BY ONLY <2>2, <2>n
    <3>2. \A n \in 0 .. m - 1 : f[n] = IF n = 0 THEN <<x>> ELSE After(n, f[n - 1])
      BY <2>3
    <3> HIDE DEF After
    <3>3. \A n \in 0 .. m - 1 : g[n] = f[n] /\ (n # 0 => g[n - 1] = f[n - 1])
      BY <3>1
    <3>4. g[m] = After(m, f[m - 1]) /\ g[m - 1] = f[m - 1]
      BY <3>1
    <3> HIDE DEF g
    <3> QED BY <2>2, <3>1, <3>2, <3>3, <3>4
  <2>5. Is(g, m)
    BY <2>4
  <2> QED BY <2>1, <2>5
<1>2. Is(printedUpTo(x, trees), Len(child_jobs[x]))
  BY <1>1 DEF printedUpTo
<1> QED BY <1>2

\* Of the trees only those of the children of x matter.
LEMMA SameTrees ==
  ASSUME NEW x, Len(child_jobs[x]) \in Nat, NEW f, NEW g,
         \A n \in 1 .. Len(child_jobs[x]) : f[child_jobs[x][n]] = g[child_jobs[x][n]]
  PROVE  printedUpTo(x, f) = printedUpTo(x, g)
<1> DEFINE L == Len(child_jobs[x])
           F == printedUpTo(x, f)
           G == printedUpTo(x, g)
           Bad == {n \in 0 .. L : F[n] # G[n]}
<1>1. /\ F = [n \in 0 .. L |-> IF n = 0 THEN <<x>> ELSE F[n - 1] \o f[child_jobs[x][n]]]
      /\ G = [n \in 0 .. L |-> IF n = 0 THEN <<x>> ELSE G[n - 1] \o g[child_jobs[x][n]]]
  <2>1. F = [n \in 0 .. L |-> IF n = 0 THEN <<x>> ELSE F[n - 1] \o f[child_jobs[x][n]]]
    BY ONLY PrintedUpToDef, Len(child_jobs[x]) \in Nat
  <2>2. G = [n \in 0 .. L |-> IF n = 0 THEN <<x>> ELSE G[n - 1] \o g[child_jobs[x][n]]]
    BY ONLY PrintedUpToDef, Len(child_jobs[x]) \in Nat
  <2> QED BY <2>1, <2>2
<1> HIDE DEF F, G
<1>2. ASSUME Bad # {} PROVE FALSE
  <2>1. Bad \subseteq Nat
    OBVIOUS
  <2>2. PICK m \in Bad : \A j \in Bad : m <= j
    <3> HIDE DEF Bad
    <3> QED BY <1>2, <2>1, LeastNumber
  <2>3. m \in 1 .. L
    <3>1. m # 0
      BY <1>1
    <3> QED BY <3>1
  <2>4. F[m - 1] = G[m - 1]
    <3>1. m - 1 \in 0 .. L /\ ~(m <= m - 1)
      BY <2>3
    <3>2. m - 1 \notin Bad
      <4> HIDE DEF Bad
      <4> QED BY <2>2, <3>1
    <3> QED BY <3>1, <3>2
  <2>5. F[m] = F[m - 1] \o f[child_jobs[x][m]] /\ G[m] = G[m - 1] \o g[child_jobs[x][m]]
    <3>1. m \in 0 .. L /\ m # 0
      BY <2>3
    <3> QED BY <1>1, <3>1
  <2>6. F[m] = G[m]
    BY <2>3, <2>4, <2>5
  <2> QED BY <2>6
<1>3. \A n \in 0 .. L : F[n] = G[n]
  BY <1>2
<1>4. F = [n \in 0 .. L |-> F[n]] /\ G = [n \in 0 .. L |-> G[n]]
  BY <1>1
<1>5. F = G
  BY <1>3, <1>4
<1> QED BY <1>5 DEF F, G

\* print_NTree does what its body says: the recursion ends, as children are younger.
LEMMA PrintNTreeDef ==
  ASSUME Grown
  PROVE  printNTree = [x \in Job |-> printedUpTo(x, printNTree)[Len(child_jobs[x])]]
<1> DEFINE Body(x, f) == printedUpTo(x, f)[Len(child_jobs[x])]
           Is(f, m) == /\ f = [x \in Job |-> f[x]]
                       /\ \A x \in Job : x >= Capacity - m => f[x] = Body(x, f)
           Gaps == {m \in 0 .. Capacity : ~\E f : Is(f, m)}
<1>0. Capacity \in Nat /\ \A x \in Job : Len(child_jobs[x]) \in Nat
  BY JobAssumption DEF Grown
<1>1. ASSUME Gaps # {} PROVE FALSE
  <2>0. Gaps \subseteq Nat
    OBVIOUS
  <2>1. PICK m \in Gaps : \A j \in Gaps : m <= j
    <3> HIDE DEF Gaps
    <3> QED BY <1>1, <2>0, LeastNumber
  <2>2. m # 0
    <3>1. Is([x \in Job |-> 0], 0)
      <4> HIDE DEF Body
      <4> QED BY <1>0 DEF Job
    <3> HIDE DEF Is
    <3> QED BY <1>0, <3>1
  <2>3. PICK f : Is(f, m - 1)
    <3>1. m - 1 \in 0 .. Capacity /\ ~(m <= m - 1)
      BY <1>0, <2>1, <2>2
    <3>2. m - 1 \notin Gaps
      <4> HIDE DEF Gaps
      <4> QED BY <2>1, <3>1
    <3> HIDE DEF Is
    <3> QED BY <3>1, <3>2
  <2> DEFINE y == Capacity - m
             g == [x \in Job |-> IF x = y THEN Body(y, f) ELSE f[x]]
  <2>4. y \in Job /\ y \in Int /\ \A x \in Job : x >= y => x = y \/ x >= Capacity - (m - 1)
    BY <1>0, <2>2 DEF Job
  <2>5. ASSUME NEW x \in Job, x >= y
        PROVE  printedUpTo(x, g) = printedUpTo(x, f)
    <3>1. ASSUME NEW n \in 1 .. Len(child_jobs[x])
          PROVE  g[child_jobs[x][n]] = f[child_jobs[x][n]]
      <4>1. child_jobs[x][n] \in Job /\ x < child_jobs[x][n]
        BY <1>0 DEF Grown
      <4>2. child_jobs[x][n] # y
        BY <2>4, <2>5, <4>1 DEF Job
      <4> HIDE DEF y, Body
      <4> QED BY <4>1, <4>2
    <3>2. Len(child_jobs[x]) \in Nat
      BY <1>0
    <3> HIDE DEF g, y
    <3> QED BY <3>1, <3>2, SameTrees
  <2>6. \A x \in Job : x >= y => g[x] = Body(x, g)
    <3> SUFFICES ASSUME NEW x \in Job, x >= y PROVE g[x] = Body(x, g)
      OBVIOUS
    <3>1. Body(x, g) = Body(x, f)
      BY <2>5
    <3>2. CASE x = y
      BY <3>1, <3>2
    <3>3. CASE x # y
      <4>1. f[x] = Body(x, f)
        <5> HIDE DEF Body
        <5> QED BY <2>3, <2>4, <3>3
      <4>2. g[x] = f[x]
        <5> HIDE DEF Body, y
        <5> QED BY <3>3
      <4> HIDE DEF g, Body
      <4> QED BY <3>1, <4>1, <4>2
    <3> QED BY <3>2, <3>3
  <2>7. g = [x \in Job |-> g[x]]
    OBVIOUS
  <2>8. Is(g, m)
    <3> HIDE DEF g, Body
    <3> QED BY <2>6, <2>7
  <2> HIDE DEF Is, g
  <2> QED BY <2>1, <2>8
<1>2. \E f : Is(f, Capacity)
  <2>1. Capacity \in 0 .. Capacity
    BY <1>0
  <2> HIDE DEF Is
  <2> QED BY <1>1, <2>1
<1>3. PICK f : Is(f, Capacity)
  BY <1>2
<1>4. f = [x \in Job |-> printedUpTo(x, f)[Len(child_jobs[x])]]
  <2>1. \A x \in Job : x >= Capacity - Capacity
    BY <1>0 DEF Job
  <2>2. \A x \in Job : f[x] = Body(x, f)
    <3> HIDE DEF Body
    <3> QED BY <1>3, <2>1
  <2>3. f = [x \in Job |-> f[x]]
    BY <1>3
  <2>4. f = [x \in Job |-> Body(x, f)]
    <3> HIDE DEF Body
    <3> QED BY <2>2, <2>3
  <2> QED BY <2>4
<1> QED BY <1>4 DEF printNTree

\* The loop over the jobs, unrolled once.
LEMMA VisitedUpToDef ==
  ASSUME count_jobs \in Nat
  PROVE  visitedUpTo =
             [n \in 0 .. count_jobs |->
                 IF n = 0 THEN <<>>
                 ELSE IF \E m \in DOMAIN visitedUpTo[n - 1] : visitedUpTo[n - 1][m] = n - 1
                 THEN visitedUpTo[n - 1]
                 ELSE visitedUpTo[n - 1] \o printNTree[n - 1]]
<1> DEFINE After(n, before) == IF \E m \in DOMAIN before : before[m] = n - 1
                               THEN before ELSE before \o printNTree[n - 1]
           Is(f, m) == f = [n \in 0 .. m |-> IF n = 0 THEN <<>> ELSE After(n, f[n - 1])]
           Gaps == {m \in Nat : ~\E f : Is(f, m)}
<1>1. \E f : Is(f, count_jobs)
  <2> SUFFICES ASSUME Gaps # {} PROVE FALSE
    OBVIOUS
  <2>1. PICK m \in Gaps : \A j \in Gaps : m <= j
    BY LeastNumber
  <2>n. m \in Nat
    <3> HIDE DEF Is
    <3> QED BY <2>1
  <2>2. m # 0
    <3>1. Is([n \in 0 .. 0 |-> <<>>], 0)
      OBVIOUS
    <3> QED BY <3>1
  <2>3. PICK f : Is(f, m - 1)
    <3>1. m - 1 \in Nat /\ ~(m <= m - 1)
      BY ONLY <2>2, <2>n
    <3>2. m - 1 \notin Gaps
      <4> HIDE DEF Gaps
      <4> QED BY <2>1, <3>1
    <3> HIDE DEF Is
    <3> QED BY <3>1, <3>2
  <2> DEFINE g == [n \in 0 .. m |-> IF n = m THEN After(m, f[m - 1]) ELSE f[n]]
  <2>4. \A n \in 0 .. m : g[n] = IF n = 0 THEN <<>> ELSE After(n, g[n - 1])
    <3>1. m \in Nat /\ m - 1 \in Nat
      BY ONLY <2>2, <2>n
    <3> HIDE DEF After
    <3>2. \A n \in 0 .. m - 1 : f[n] = IF n = 0 THEN <<>> ELSE After(n, f[n - 1])
      BY <2>3
    <3>3. \A n \in 0 .. m - 1 : g[n] = f[n] /\ (n # 0 => g[n - 1] = f[n - 1])
      BY <3>1
    <3>4. g[m] = After(m, f[m - 1]) /\ g[m - 1] = f[m - 1]
      BY <3>1
    <3> HIDE DEF g
    <3> QED BY <2>2, <3>1, <3>2, <3>3, <3>4
  <2>5. Is(g, m)
    <3> HIDE DEF After
    <3> QED BY <2>4
  <2> QED BY <2>1, <2>5
<1>2. Is(visitedUpTo, count_jobs)
  BY <1>1 DEF visitedUpTo
<1> QED BY <1>2

\* The jobs of a list, and a list that names no job twice.
Els(s) == {s[m] : m \in 1 .. Len(s)}
Once(s) == \A m, n \in 1 .. Len(s) : s[m] = s[n] => m = n

LEMMA ElsOfConcat ==
  ASSUME NEW S, NEW s \in Seq(S), NEW t \in Seq(S)
  PROVE  /\ s \o t \in Seq(S)
         /\ Els(s \o t) = Els(s) \cup Els(t)
         /\ Once(s) /\ Once(t) /\ Els(s) \cap Els(t) = {} => Once(s \o t)
<1> DEFINE u == s \o t
           k == Len(s)
           l == Len(t)
<1>1. /\ u \in Seq(S) /\ Len(u) = k + l /\ k \in Nat /\ l \in Nat
      /\ \A m \in 1 .. k + l : u[m] = IF m <= k THEN s[m] ELSE t[m - k]
  BY ConcatProperties, LenProperties
<1>2. /\ \A m \in 1 .. k : m \in 1 .. k + l /\ u[m] = s[m]
      /\ \A m \in 1 .. l : k + m \in 1 .. k + l /\ u[k + m] = t[m]
  <2> HIDE DEF u, k, l
  <2>1. \A m \in 1 .. k : m \in 1 .. k + l /\ u[m] = s[m]
    BY <1>1
  <2>2. ASSUME NEW m \in 1 .. l
        PROVE  k + m \in 1 .. k + l /\ u[k + m] = t[m]
    <3>1. k + m \in 1 .. k + l /\ ~(k + m <= k) /\ (k + m) - k = m
      BY <1>1
    <3> QED BY <1>1, <3>1
  <2> QED BY <2>1, <2>2
<1>3. ASSUME NEW m \in 1 .. k + l
      PROVE  \/ m \in 1 .. k /\ u[m] = s[m]
             \/ m - k \in 1 .. l /\ u[m] = t[m - k]
  <2> HIDE DEF u, k, l
  <2> QED BY <1>1
<1> HIDE DEF u
<1>4. Els(u) = Els(s) \cup Els(t)
  <2>1. Els(u) = {u[m] : m \in 1 .. k + l}
    BY <1>1 DEF Els
  <2>2. Els(s) = {s[m] : m \in 1 .. k} /\ Els(t) = {t[m] : m \in 1 .. l}
    BY DEF Els
  <2> HIDE DEF k, l
  <2>3. Els(u) \subseteq Els(s) \cup Els(t)
    BY <1>3, <2>1, <2>2
  <2>4. Els(s) \subseteq Els(u)
    BY <1>2, <2>1, <2>2
  <2>5. Els(t) \subseteq Els(u)
    BY <1>2, <2>1, <2>2
  <2> QED BY <2>3, <2>4, <2>5
<1>5. ASSUME Once(s), Once(t), Els(s) \cap Els(t) = {}
      PROVE  Once(u)
  <2> SUFFICES ASSUME NEW m \in 1 .. k + l, NEW n \in 1 .. k + l, u[m] = u[n]
               PROVE  m = n
    BY <1>1 DEF Once
  <2>1. /\ \A i, j \in 1 .. k : s[i] = s[j] => i = j
        /\ \A i, j \in 1 .. l : t[i] = t[j] => i = j
        /\ \A i \in 1 .. k, j \in 1 .. l : s[i] # t[j]
    <3>1. \A i \in 1 .. k : s[i] \in Els(s)
      BY DEF Els
    <3>2. \A j \in 1 .. l : t[j] \in Els(t)
      BY DEF Els
    <3>3. \A i \in 1 .. k, j \in 1 .. l : s[i] # t[j]
      <4> HIDE DEF k, l
      <4> QED BY <1>5, <3>1, <3>2
    <3> QED BY <1>5, <3>3 DEF Once
  <2> HIDE DEF k, l
  <2>2. CASE m \in 1 .. k /\ u[m] = s[m]
    <3>1. n \in 1 .. k /\ u[n] = s[n]
      BY <1>3, <2>1, <2>2
    <3> QED BY <2>1, <2>2, <3>1
  <2>3. CASE m - k \in 1 .. l /\ u[m] = t[m - k]
    <3>1. n - k \in 1 .. l /\ u[n] = t[n - k]
      BY <1>3, <2>1, <2>3
    <3>2. m - k = n - k
      BY <2>1, <2>3, <3>1
    <3> QED BY <1>1, <3>2
  <2> QED BY <1>3, <2>2, <2>3
<1> QED BY <1>1, <1>4, <1>5 DEF u

\* What print_NTree prints for job x: x and jobs younger than it, each once; with a
\* job its children, and with every job but x its parent.
TreeOf(x) == LET E == Els(printNTree[x]) IN
    /\ printNTree[x] \in Seq(Job)
    /\ Once(printNTree[x])
    /\ x \in E /\ \A y \in E : x <= y
    /\ \A y \in E : Children(y) \subseteq E
    /\ \A y \in E \ {x} : \E z \in E : y \in Children(z)

\* The trees of two children of a job have no job in common: the oldest one would
\* have two parents.
LEMMA TreesApart ==
  ASSUME Grown, NEW x \in Job, NEW k \in 1 .. Len(child_jobs[x]), NEW n \in 1 .. Len(child_jobs[x]),
         k # n, TreeOf(child_jobs[x][k]), TreeOf(child_jobs[x][n])
  PROVE  Els(printNTree[child_jobs[x][k]]) \cap Els(printNTree[child_jobs[x][n]]) = {}
<1> DEFINE a == child_jobs[x][k]
           b == child_jobs[x][n]
           A == Els(printNTree[a])
           B == Els(printNTree[b])
<1>1. a \in Job /\ b \in Job /\ a # b /\ x < a /\ x < b
  BY DEF Grown
\* No job has two parents, and a parent is older.
<1>2. \A y, z, w \in Job : y \in Children(z) /\ y \in Children(w) => z = w /\ z < y
  BY DEF Grown, Children
<1>3. a \in Children(x) /\ b \in Children(x)
  BY DEF Children
<1>4. /\ A \subseteq Job /\ B \subseteq Job
      /\ (\A y \in A : a <= y) /\ (\A y \in B : b <= y)
      /\ (\A y \in A \ {a} : \E z \in A : y \in Children(z))
      /\ (\A y \in B \ {b} : \E z \in B : y \in Children(z))
  <2>1. TreeOf(a) /\ TreeOf(b)
    OBVIOUS
  <2> HIDE DEF a, b
  <2>2. A \subseteq Job /\ B \subseteq Job
    <3>1. \A s \in Seq(Job) : Els(s) \subseteq Job
      BY DEF Els
    <3>2. printNTree[a] \in Seq(Job) /\ printNTree[b] \in Seq(Job)
      BY <2>1 DEF TreeOf
    <3> QED BY <3>1, <3>2
  <2>3. (\A y \in A : a <= y) /\ (\A y \in A \ {a} : \E z \in A : y \in Children(z))
    BY <2>1 DEF TreeOf
  <2>4. (\A y \in B : b <= y) /\ (\A y \in B \ {b} : \E z \in B : y \in Children(z))
    BY <2>1 DEF TreeOf
  <2> QED BY <2>2, <2>3, <2>4
<1> HIDE DEF a, b, A, B
<1>5. ASSUME A \cap B # {} PROVE FALSE
  <2>0. Job \subseteq Nat
    BY JobAssumption DEF Job
  <2>1. PICK y \in A \cap B : \A z \in A \cap B : y <= z
    BY <1>4, <1>5, <2>0, LeastNumber
  <2>2. y # a
    <3> SUFFICES ASSUME y = a PROVE FALSE
      OBVIOUS
    <3>1. PICK z \in B : a \in Children(z)
      BY <1>1, <1>4, <2>1
    <3>2. z = x /\ b <= z
      BY <1>1, <1>2, <1>3, <1>4, <3>1
    <3> QED BY <1>1, <2>0, <3>2
  <2>3. y # b
    <3> SUFFICES ASSUME y = b PROVE FALSE
      OBVIOUS
    <3>1. PICK z \in A : b \in Children(z)
      BY <1>1, <1>4, <2>1
    <3>2. z = x /\ a <= z
      BY <1>1, <1>2, <1>3, <1>4, <3>1
    <3> QED BY <1>1, <2>0, <3>2
  <2>4. PICK z \in A : y \in Children(z)
    BY <1>4, <2>1, <2>2
  <2>5. PICK w \in B : y \in Children(w)
    BY <1>4, <2>1, <2>3
  <2>6. y \in Job /\ z \in Job /\ w \in Job
    BY <1>4, <2>1
  <2>7. z = w /\ z < y
    BY <1>2, <2>4, <2>5, <2>6
  <2>8. z \in A \cap B
    BY <2>7
  <2>9. y <= z
    BY <2>1, <2>8
  <2> QED BY <2>0, <2>6, <2>7, <2>9
<1> QED BY <1>5 DEF A, B, a, b

\* Job x in front of the trees of its children makes the tree of x.
LEMMA TreeFromChildren ==
  ASSUME Grown, NEW x \in Job, \A n \in 1 .. Len(child_jobs[x]) : TreeOf(child_jobs[x][n])
  PROVE  TreeOf(x)
<1> DEFINE L == Len(child_jobs[x])
           c(n) == child_jobs[x][n]
           E(n) == Els(printNTree[c(n)])
           U == printedUpTo(x, printNTree)
           Good(n) == /\ U[n] \in Seq(Job) /\ Once(U[n])
                      /\ \A y : y \in Els(U[n]) <=> y = x \/ \E k \in 1 .. n : y \in E(k)
           Bad == {n \in 0 .. L : ~Good(n)}
<1>1. L \in Nat /\ \A n \in 1 .. L : c(n) \in Job /\ x < c(n)
  BY DEF Grown
<1>2. U[0] = <<x>> /\ \A n \in 1 .. L : U[n] = U[n - 1] \o printNTree[c(n)]
  <2>1. U = [n \in 0 .. L |-> IF n = 0 THEN <<x>> ELSE U[n - 1] \o printNTree[c(n)]]
    BY ONLY <1>1, PrintedUpToDef
  <2> HIDE DEF U, c
  <2> QED BY <1>1, <2>1
<1>3. \A n \in 1 .. L : /\ printNTree[c(n)] \in Seq(Job) /\ Once(printNTree[c(n)])
                        /\ c(n) \in E(n) /\ \A y \in E(n) : c(n) <= y
                        /\ \A y \in E(n) : Children(y) \subseteq E(n)
                        /\ \A y \in E(n) \ {c(n)} : \E z \in E(n) : y \in Children(z)
  BY DEF TreeOf
<1>4. \A n \in 1 .. L : E(n) \subseteq Job
  BY <1>3 DEF Els
<1>5. \A k, n \in 1 .. L : k # n => E(k) \cap E(n) = {}
  BY TreesApart
<1>6. printNTree[x] = U[L]
  <2>1. printNTree = [i \in Job |-> printedUpTo(i, printNTree)[Len(child_jobs[i])]]
    BY PrintNTreeDef
  <2> QED BY <2>1
<1> HIDE DEF L, c, E, U
<1>7. ASSUME Bad # {} PROVE FALSE
  <2>1. Bad \subseteq Nat
    BY <1>1
  <2>2. PICK m \in Bad : \A j \in Bad : m <= j
    <3> HIDE DEF Bad
    <3> QED BY <1>7, <2>1, LeastNumber
  <2>3. m # 0
    <3>1. U[0] \in Seq(Job) /\ Len(U[0]) = 1 /\ U[0][1] = x
      BY <1>2
    <3>2. Els(U[0]) = {x} /\ Once(U[0])
      BY <3>1 DEF Els, Once
    <3>3. Good(0)
      BY <3>1, <3>2
    <3> QED BY <2>2, <3>3
  <2>4. m \in 1 .. L
    BY <2>2, <2>3, <1>1
  <2>5. Good(m - 1)
    <3>1. m - 1 \in 0 .. L /\ ~(m <= m - 1)
      BY <2>4, <1>1
    <3>2. m - 1 \notin Bad
      <4> HIDE DEF Bad
      <4> QED BY <2>2, <3>1
    <3> HIDE DEF Good
    <3> QED BY <3>1, <3>2
  <2> DEFINE s == U[m - 1]
             t == printNTree[c(m)]
  <2>6. /\ s \in Seq(Job) /\ Once(s) /\ t \in Seq(Job) /\ Once(t) /\ U[m] = s \o t
        /\ Els(t) = E(m)
        /\ \A y : y \in Els(s) <=> y = x \/ \E k \in 1 .. m - 1 : y \in E(k)
    BY <1>2, <1>3, <2>4, <2>5 DEF E
  <2> HIDE DEF s, t
  <2>7. Els(s) \cap Els(t) = {}
    <3>1. x \notin E(m)
      <4>1. x \in Int /\ c(m) \in Int
        BY <1>1, <2>4 DEF Job
      <4> QED BY <1>1, <1>3, <2>4, <4>1
    <3>2. \A k \in 1 .. m - 1 : E(k) \cap E(m) = {}
      <4>1. \A k \in 1 .. m - 1 : k \in 1 .. L /\ k # m
        BY <1>1, <2>4
      <4> QED BY <1>5, <2>4, <4>1
    <3> QED BY <2>6, <3>1, <3>2
  <2>8. s \o t \in Seq(Job) /\ Once(s \o t) /\ Els(s \o t) = Els(s) \cup Els(t)
    BY <2>6, <2>7, ElsOfConcat
  <2>9. \A y : y \in Els(U[m]) <=> y = x \/ \E k \in 1 .. m : y \in E(k)
    <3>1. 1 .. m = (1 .. m - 1) \cup {m}
      BY <1>1, <2>4
    <3>2. \A y : y \in Els(U[m]) <=> y \in Els(s) \/ y \in E(m)
      BY <2>6, <2>8
    <3> QED BY <2>6, <3>1, <3>2
  <2>10. Good(m)
    BY <2>6, <2>8, <2>9
  <2> QED BY <2>2, <2>10
<1>8. Good(L)
  <2>1. L \in 0 .. L
    BY <1>1
  <2> HIDE DEF Good
  <2> QED BY <1>7, <2>1
<1> DEFINE D == Els(printNTree[x])
<1>9. \A y : y \in D <=> y = x \/ \E k \in 1 .. L : y \in E(k)
  BY <1>6, <1>8
<1>10. printNTree[x] \in Seq(Job) /\ Once(printNTree[x])
  BY <1>6, <1>8
<1> HIDE DEF D, Good, Bad
<1>11. x \in D /\ \A y \in D : x <= y
  <2>1. ASSUME NEW k \in 1 .. L, NEW y \in E(k)
        PROVE  x <= y
    <3>1. c(k) <= y /\ x < c(k) /\ x \in Int /\ c(k) \in Int /\ y \in Int
      BY <1>1, <1>3, <1>4, <2>1, JobAssumption DEF Job
    <3> QED BY <3>1
  <2>2. x <= x
    BY JobAssumption DEF Job
  <2> QED BY <1>9, <2>1, <2>2
<1>12. Children(x) = {c(k) : k \in 1 .. L}
  BY DEF Children, L, c
<1>13. \A y \in D : Children(y) \subseteq D
  <2>1. Children(x) \subseteq D
    BY <1>3, <1>9, <1>12
  <2> QED BY <1>3, <1>9, <2>1
<1>14. \A y \in D \ {x} : \E z \in D : y \in Children(z)
  <2> SUFFICES ASSUME NEW k \in 1 .. L, NEW y \in E(k)
               PROVE  \E z \in D : y \in Children(z)
    BY <1>9
  <2>1. CASE y = c(k)
    BY <1>11, <1>12, <2>1
  <2>2. CASE y # c(k)
    <3>1. PICK z \in E(k) : y \in Children(z)
      BY <1>3, <2>2
    <3> QED BY <1>9, <3>1
  <2> QED BY <2>1, <2>2
<1> QED BY <1>10, <1>11, <1>13, <1>14 DEF TreeOf, D

\* So it is for every job, from the youngest to the root.
LEMMA TreesPrinted ==
  ASSUME Grown
  PROVE  \A x \in Job : TreeOf(x)
<1> DEFINE Bad == {d \in 1 .. Capacity : ~TreeOf(Capacity - d)}
<1>0. Capacity \in Nat
  BY JobAssumption
<1>1. ASSUME Bad # {} PROVE FALSE
  <2>1. Bad \subseteq Nat
    BY <1>0
  <2>2. PICK d \in Bad : \A j \in Bad : d <= j
    <3> HIDE DEF Bad
    <3> QED BY <1>1, <2>1, LeastNumber
  <2> DEFINE x == Capacity - d
  <2>3. x \in Job /\ d \in 1 .. Capacity
    BY <1>0, <2>2 DEF Job
  <2>4. ASSUME NEW n \in 1 .. Len(child_jobs[x])
        PROVE  TreeOf(child_jobs[x][n])
    <3> DEFINE k == child_jobs[x][n]
    <3>1. k \in Job /\ x < k
      BY <2>3 DEF Grown
    <3> HIDE DEF k
    <3>2. Capacity - k \in 1 .. Capacity /\ ~(d <= Capacity - k) /\ Capacity - (Capacity - k) = k
      BY <1>0, <2>3, <3>1 DEF Job
    <3>3. Capacity - k \notin Bad
      <4> HIDE DEF Bad
      <4> QED BY <2>2, <3>2
    <3>4. TreeOf(Capacity - (Capacity - k))
      BY <3>2, <3>3
    <3>5. TreeOf(k)
      BY <3>2, <3>4
    <3> QED BY <3>5 DEF k
  <2>5. TreeOf(x)
    <3> HIDE DEF x
    <3> QED BY <2>3, <2>4, TreeFromChildren
  <2> QED BY <2>2, <2>5
<1>2. ASSUME NEW x \in Job
      PROVE  TreeOf(x)
  <2>1. Capacity - x \in 1 .. Capacity /\ Capacity - (Capacity - x) = x
    BY <1>0 DEF Job
  <2>2. TreeOf(Capacity - (Capacity - x))
    BY <1>1, <2>1
  <2> QED BY <2>1, <2>2
<1> QED BY <1>2

\* With all producers gone the tree of the root has all jobs in it.
LEMMA RootTreeIsAll ==
  ASSUME JInv, Unique, \A p \in Producer : pc[p] = "done"
  PROVE  /\ printNTree[Root] \in Seq(Job) /\ Once(printNTree[Root])
         /\ Els(printNTree[Root]) = Jobs
<1> DEFINE E == Els(printNTree[Root])
<1>1. Root \in Job /\ Root = 0 /\ count_jobs \in Nat \ {0} /\ Jobs \subseteq Job /\ Jobs \subseteq Nat
  BY JobAssumption DEF JInv, TypeOK, Root, Job, Jobs
<1>2. Grown
  BY DEF Grown, Unique, JInv, TypeOK, Ordered
<1>3. /\ printNTree[Root] \in Seq(Job) /\ Once(printNTree[Root])
      /\ Root \in E
      /\ \A y \in E : Children(y) \subseteq E
      /\ \A y \in E \ {Root} : \E z \in E : y \in Children(z)
  <2>1. TreeOf(Root)
    BY <1>1, <1>2, TreesPrinted
  <2> QED BY <2>1 DEF TreeOf
<1>4. E \subseteq Job
  BY <1>3 DEF Els
<1> HIDE DEF E
<1>5. E \subseteq Jobs
  <2> SUFFICES ASSUME NEW y \in E PROVE y \in Jobs
    OBVIOUS
  <2>1. y \in Nat
    BY <1>4, JobAssumption DEF Job
  <2>2. CASE y = Root
    BY <1>1, <2>2 DEF Jobs
  <2>3. CASE y # Root
    <3>1. PICK z \in E : y \in Children(z)
      BY <1>3, <2>3
    <3>2. y < count_jobs
      BY <1>4, <3>1 DEF JInv, Ordered, Children
    <3> QED BY <1>1, <2>1, <3>2 DEF Jobs
  <2> QED BY <2>2, <2>3
<1>6. Jobs \subseteq E
  <2> SUFFICES ASSUME Jobs \ E # {} PROVE FALSE
    OBVIOUS
  <2>1. PICK k \in Jobs \ E : \A j \in Jobs \ E : k <= j
    BY <1>1, LeastNumber
  <2>2. k \in Jobs \ {Root} /\ k \in Nat
    BY <1>1, <1>3, <2>1
  <2>3. PICK i \in 0 .. k - 1 : k \in Kids[i]
    BY <2>2 DEF JInv, T!Rooted, T!Made, T!Root, Jobs, Root
  <2>4. i \in Jobs /\ ~(k <= i)
    BY <1>1, <2>2 DEF Jobs
  <2>5. i \in E
    BY <2>1, <2>4
  <2>6. k \in Children(i)
    <3>1. \A p \in Producer : ~Pending(p, i)
      BY DEF Pending
    <3>2. i \in Job
      BY <1>1, <2>4
    <3> QED BY <2>3, <3>1, <3>2, KidsMember DEF Children
  <2> QED BY <1>3, <2>1, <2>5, <2>6
<1> QED BY <1>3, <1>5, <1>6 DEF E

\* So print_job_tree prints the tree of the root and finds all jobs visited.
LEMMA PrintedAll ==
  ASSUME JInv, Unique, \A p \in Producer : pc[p] = "done"
  PROVE  Len(print_job_tree) = count_jobs /\ Els(print_job_tree) = Jobs
<1> DEFINE all == printNTree[Root]
           V == visitedUpTo
           Bad == {n \in 1 .. count_jobs : V[n] # all}
<1>1. count_jobs \in Nat \ {0} /\ Root = 0
  BY JobAssumption DEF JInv, TypeOK, Root
<1>2. all \in Seq(Job) /\ Once(all) /\ Els(all) = Jobs
  BY RootTreeIsAll
<1>3. \A n \in 0 .. count_jobs :
          V[n] = IF n = 0 THEN <<>>
                 ELSE IF \E m \in DOMAIN V[n - 1] : V[n - 1][m] = n - 1
                 THEN V[n - 1] ELSE V[n - 1] \o printNTree[n - 1]
  <2>1. V = [n \in 0 .. count_jobs |->
               IF n = 0 THEN <<>>
               ELSE IF \E m \in DOMAIN V[n - 1] : V[n - 1][m] = n - 1
               THEN V[n - 1] ELSE V[n - 1] \o printNTree[n - 1]]
    BY <1>1, VisitedUpToDef
  <2> HIDE DEF V
  <2> QED BY <2>1
<1> HIDE DEF V
<1>4. V[1] = all
  <2>1. V[0] = <<>>
    BY <1>1, <1>3
  <2>2. V[1] = V[0] \o all
    <3>1. 1 \in 0 .. count_jobs /\ 1 # 0 /\ 1 - 1 = 0
      BY <1>1
    <3>2. ~\E m \in DOMAIN V[0] : V[0][m] = 0
      <4>1. DOMAIN V[0] = {}
        BY <2>1
      <4> QED BY <4>1
    <3>3. V[1] = V[0] \o printNTree[0]
      BY <1>3, <3>1, <3>2
    <3> QED BY <1>1, <3>3
  <2> HIDE DEF all
  <2>3. <<>> \o all = all
    BY <1>2, ConcatEmptySeq
  <2> QED BY <2>1, <2>2, <2>3
<1> HIDE DEF all
<1>5. ASSUME Bad # {} PROVE FALSE
  <2>1. Bad \subseteq Nat
    BY <1>1
  <2>2. PICK m \in Bad : \A j \in Bad : m <= j
    <3> HIDE DEF Bad
    <3> QED BY <1>5, <2>1, LeastNumber
  <2>3. m \in 1 .. count_jobs /\ m # 1
    BY <1>4, <2>2
  <2>4. m - 1 \in 1 .. count_jobs /\ ~(m <= m - 1) /\ m \in 0 .. count_jobs /\ m # 0 /\ m - 1 \in Jobs
    BY <1>1, <2>3 DEF Jobs
  <2>5. V[m - 1] = all
    <3>1. m - 1 \notin Bad
      <4> HIDE DEF Bad
      <4> QED BY <2>2, <2>4
    <3> QED BY <2>4, <3>1
  <2>6. \E j \in DOMAIN all : all[j] = m - 1
    <3>1. PICK j \in 1 .. Len(all) : all[j] = m - 1
      BY <1>2, <2>4 DEF Els
    <3> QED BY <1>2, <3>1
  <2>7. V[m] = all
    BY <1>3, <2>4, <2>5, <2>6
  <2> QED BY <2>2, <2>7
<1>6. print_job_tree = all
  <2>1. count_jobs \in 1 .. count_jobs
    BY <1>1
  <2>2. V[count_jobs] = all
    BY <1>5, <2>1
  <2> QED BY <2>2 DEF print_job_tree, V
<1>7. Len(all) = count_jobs
  <2>1. Len(all) \in Nat /\ all \in [1 .. Len(all) -> Job]
    BY <1>2
  <2>2. all \in Bijection(1 .. Len(all), Jobs)
    <3>1. /\ \A m \in 1 .. Len(all) : all[m] \in Jobs
          /\ \A y \in Jobs : \E m \in 1 .. Len(all) : all[m] = y
          /\ \A m, n \in 1 .. Len(all) : all[m] = all[n] => m = n
      BY <1>2 DEF Els, Once
    <3>2. all \in [1 .. Len(all) -> Jobs]
      BY <2>1, <3>1
    <3> QED BY <3>1, <3>2 DEF Bijection, Injection, Surjection, IsInjective
  <2>3. Cardinality(Jobs) = Len(all)
    BY <2>1, <2>2, FS_CountingElements DEF ExistsBijection
  <2>4. Cardinality(Jobs) = count_jobs
    BY <1>1, FS_Interval DEF Jobs
  <2> QED BY <2>3, <2>4
<1> QED BY <1>2, <1>6, <1>7

-----------------------------------------------------------------------------
\* Where main is tells what the others have left; and what has been reported is
\* complete, as nobody changes the queue any more.
Closing ==
    /\ main = "fork" <=> procB = "unborn"
    /\ main \in {"wait", "exit"} => \A p \in Producer : pc[p] = "done"
    /\ procB = "exited" => \A c \in Consumer : pc[c] = "done"
    /\ main = "exit" => procB = "exited"
    /\ ReportComplete

\* A thread that is done takes no step.
LEMMA DoneStays ==
  /\ \A p \in Producer : ProducerStep(p) => pc[p] # "done"
  /\ \A c \in Consumer : ConsumerStep(c) => pc[c] # "done"
<1>1. ASSUME NEW p \in Producer, ProducerStep(p), pc[p] = "done" PROVE FALSE
  BY <1>1 DEF ProducerStep, TimeOver, StartRound, LockRoot, CheckRoot, EnterRead, PickJob,
     TryJob, CheckJob, EnterWrite, InsertNewJob, InitMutex, AttachChild
<1>2. ASSUME NEW c \in Consumer, ConsumerStep(c), pc[c] = "done" PROVE FALSE
  BY <1>2 DEF ConsumerStep, EnterRead, TakeSnapshot, ScanJob, ExamineJob, LockChild, ReadChild,
     LeaveJob, StartJob, LockToFinish, FinishJob, EndSweep
<1> QED BY <1>1, <1>2

\* When the consumers have left and somebody was there, all jobs are complete.
LEMMA NoneMissed ==
  ASSUME JInv, Consumer # {}, \A c \in Consumer : pc[c] = "done"
  PROVE  \A i \in Jobs : status[i] = 2
<1>1. PICK c \in Consumer : TRUE
  OBVIOUS
<1>2. status[Root] # 0
  BY <1>1 DEF JInv, RootSeen
<1>3. \A i \in Jobs \ {Root} : status[i] = 2
  <2>1. T!RootLast
    BY TreeTyped, RootRunsLast
  <2> QED BY <1>2, <2>1 DEF T!RootLast, T!Made, T!Root, Jobs, Root
<1>4. Root \in Job /\ status \in [Job -> {0, 1, 2}]
  BY JobAssumption DEF JInv, TypeOK, Root, Job
<1>5. status[Root] # 1
  <2>1. \A d \in Consumer : ~Runs(d, Root)
    BY DEF Runs
  <2> QED BY <1>4, <2>1 DEF JInv, OneRunner
<1> QED BY <1>2, <1>3, <1>4, <1>5

LEMMA ClosingInit == Init => Closing
  BY DEF Init, Closing, ReportComplete

LEMMA ClosingStep ==
  ASSUME Consumer # {}, JInv, Unique, Closing, [Next]_vars
  PROVE  Closing'
<1>0. pc \in [Thread -> ProducerPC \cup ConsumerPC]
  BY DEF JInv, TypeOK
\* Nobody moves after main has exited.
<1>1. CASE main = "exit"
  <2>1. UNCHANGED vars
    BY <1>1, DoneStays DEF Closing, Next, MainStep, Fork, ExitB, JoinProducers, Report, Terminated
  <2> QED BY <2>1 DEF vars, procs, locals, queue, tree, regs, Closing, ReportComplete, Jobs
<1>2. ASSUME main # "exit", NEW p \in Producer, ProducerStep(p)
      PROVE  Closing'
  <2>1. main # "wait" /\ UNCHANGED <<main, procB>>
    BY <1>2, DoneStays DEF Closing, ProducerStep, TimeOver, StartRound, LockRoot, CheckRoot,
       EnterRead, PickJob, TryJob, CheckJob, EnterWrite, InsertNewJob, InitMutex, AttachChild, procs
  <2>2. \A c \in Consumer : pc'[c] = pc[c]
    BY <1>0, <1>2, JobAssumption DEF ProducerStep, TimeOver, StartRound, LockRoot, CheckRoot,
       EnterRead, PickJob, TryJob, CheckJob, EnterWrite, InsertNewJob, InitMutex, AttachChild, Goto, locals
  <2> QED BY <1>2, <2>1, <2>2 DEF Closing, ReportComplete
<1>3. ASSUME main # "exit", NEW c \in Consumer, ConsumerStep(c)
      PROVE  Closing'
  <2>1. procB # "exited" /\ UNCHANGED <<main, procB>>
    BY <1>3, DoneStays DEF Closing, ConsumerStep, EnterRead, TakeSnapshot, ScanJob, ExamineJob,
       LockChild, ReadChild, LeaveJob, StartJob, LockToFinish, FinishJob, EndSweep, procs
  <2>2. \A p \in Producer : pc'[p] = pc[p]
    BY <1>0, <1>3, JobAssumption DEF ConsumerStep, EnterRead, TakeSnapshot, ScanJob, ExamineJob,
       LockChild, ReadChild, LeaveJob, StartJob, LockToFinish, FinishJob, EndSweep, Goto, locals
  <2> QED BY <1>3, <2>1, <2>2 DEF Closing, ReportComplete
<1>4. CASE Fork
  BY <1>4 DEF Fork, Closing, ReportComplete
<1>5. CASE ExitB \/ JoinProducers
  BY <1>5 DEF ExitB, JoinProducers, Closing, ReportComplete, locals
<1>6. CASE Report
  <2>1. /\ \A p \in Producer : pc[p] = "done"
        /\ \A c \in Consumer : pc[c] = "done"
    BY <1>6 DEF Report, Closing
  <2>2. UNCHANGED <<count_jobs, status, pc, procB>> /\ procB = "exited" /\ main' = "exit"
    BY <1>6 DEF Report, queue, tree, locals
  <2>3. missed' = {}
    BY <1>6, <2>1, NoneMissed DEF Report, Jobs
  <2>4. Len(printed') = count_jobs /\ Els(printed') = Jobs
    BY <1>6, <2>1, PrintedAll DEF Report
  <2>5. ReportComplete'
    BY <2>2, <2>3, <2>4 DEF ReportComplete, Els, Jobs
  <2> QED BY <2>1, <2>2, <2>5 DEF Closing
<1>7. CASE UNCHANGED vars
  BY <1>7 DEF vars, procs, locals, queue, tree, regs, Closing, ReportComplete, Jobs
<1> QED BY <1>1, <1>2, <1>3, <1>4, <1>5, <1>6, <1>7 DEF Next, MainStep, Terminated

\* Process A reads the queue without locks when everybody has left: it prints every
\* job exactly once and misses none.  (With no consumer at all process B would exit
\* at once, and A miss every job.)
THEOREM ReportIsComplete ==
  ASSUME Consumer # {}
  PROVE  Spec => []ReportComplete
<1>1. Init => Unique /\ Closing
  BY UniqueInit, ClosingInit
<1>2. JInv /\ Unique /\ [Next]_vars => Unique'
  BY UniqueStep
<1>3. JInv /\ Unique /\ Closing /\ [Next]_vars => Closing'
  BY ClosingStep
<1>4. Closing => ReportComplete
  BY DEF Closing
<1> QED BY <1>1, <1>2, <1>3, <1>4, JobSafety, PTL DEF Spec
=============================================================================
