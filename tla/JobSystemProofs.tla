------------------------- MODULE JobSystemProofs -------------------------
(***************************************************************************)
(* JInv is inductive for any numbers of producers, consumers and jobs, and *)
(* the properties of the job queue follow from it.                         *)
(***************************************************************************)
EXTENDS JobSystem, RWLockProofs, SequenceTheorems, WellFoundedInduction

\* The program goes through the readers-writers protocol step by step.
LEMMA StepOfLock ==
  ASSUME [Next]_vars
  PROVE  (\E t \in Thread : RWStep(t)) \/ UNCHANGED rwvars
<1>1. CASE UNCHANGED vars BY <1>1 DEF vars
<1>2. ASSUME NEW p \in Producer, ProducerStep(p)
      PROVE  RWStep(p) \/ UNCHANGED rwvars
  BY <1>2 DEF ProducerStep, RWStep, TimeOver, StartRound, LockRoot, CheckRoot, EnterRead,
     PickJob, TryJob, CheckJob, EnterWrite, InsertNewJob, InitMutex, AttachChild
<1>3. ASSUME NEW c \in Consumer, ConsumerStep(c)
      PROVE  RWStep(c) \/ UNCHANGED rwvars
  BY <1>3 DEF ConsumerStep, RWStep, EnterRead, TakeSnapshot, ScanJob, ExamineJob, LockChild,
     ReadChild, LeaveJob, StartJob, LockToFinish, FinishJob, EndSweep
<1>4. CASE MainStep \/ Terminated
  BY <1>4 DEF MainStep, Fork, ExitB, JoinProducers, Report, Terminated, vars
<1> QED
  BY <1>1, <1>2, <1>3, <1>4, JobAssumption DEF Next

LEMMA RWInvPreserved ==
  ASSUME RWInv, [Next]_vars
  PROVE  RWInv'
  BY StepOfLock, RWInvStep, RWInvStutter

\* The tree is changed by four actions only.
LEMMA TreeFrame ==
  ASSUME [Next]_vars
  PROVE  \/ UNCHANGED tree
         \/ \E p \in Producer : InsertNewJob(p) \/ AttachChild(p)
         \/ \E c \in Consumer : StartJob(c) \/ FinishJob(c)
<1>1. ASSUME NEW p \in Producer, ProducerStep(p)
      PROVE  UNCHANGED tree \/ InsertNewJob(p) \/ AttachChild(p)
  BY <1>1 DEF ProducerStep, TimeOver, StartRound, LockRoot, CheckRoot, EnterRead,
     PickJob, TryJob, CheckJob, EnterWrite, InitMutex, queue, tree
<1>2. ASSUME NEW c \in Consumer, ConsumerStep(c)
      PROVE  UNCHANGED tree \/ StartJob(c) \/ FinishJob(c)
  BY <1>2 DEF ConsumerStep, EnterRead, TakeSnapshot, ScanJob, ExamineJob, LockChild,
     ReadChild, LeaveJob, LockToFinish, EndSweep, queue, tree
<1>3. CASE MainStep \/ Terminated
  BY <1>3 DEF MainStep, Fork, ExitB, JoinProducers, Report, Terminated, vars, queue
<1> QED
  BY <1>1, <1>2, <1>3 DEF Next, vars, queue

-----------------------------------------------------------------------------
\* The initial state satisfies the invariant.
LEMMA JInvInit == Init => JInv
<1> SUFFICES ASSUME Init PROVE JInv
  OBVIOUS
<1> DEFINE first == [n \in 1 .. InitJobs - 1 |-> n]
<1> USE JobAssumption DEF Job, Root, NoJob
<1>1. child_jobs = [i \in Job |-> IF i = Root THEN first ELSE <<>>]
  BY DEF Init
<1>2. /\ first \in Seq(Job) /\ Len(first) = InitJobs - 1
      /\ \A n \in 1 .. InitJobs - 1 : first[n] = n
  <2>1. first \in [1 .. InitJobs - 1 -> Job] /\ InitJobs - 1 \in Nat
    OBVIOUS
  <2>2. first \in Seq(Job)
    BY <2>1, SeqDef
  <2> QED BY <2>2
<1> HIDE DEF first
<1>3. RWInv
  BY RWInvInit DEF Init
<1>4. TypeOK
  <2>1. child_jobs \in [Job -> Seq(Job)]
    BY <1>1, <1>2
  <2>2. all_done \in [Consumer -> BOOLEAN] /\ kid \in [Consumer -> Nat \ {0}]
    BY DEF Init
  <2>3. pc \in [Thread -> ProducerPC \cup ConsumerPC]
        /\ (\A p \in Producer : pc[p] \in ProducerPC)
        /\ \A c \in Consumer : pc[c] \in ConsumerPC
    BY DEF ProducerPC, ConsumerPC, Init
  <2>4. count_jobs \in InitJobs .. Capacity /\ status \in [Job -> {0, 1, 2}]
        /\ job_mutex \in [Job -> Thread \cup {NoThread}]
    BY DEF Init
  <2>5. idx \in [Thread -> Job \cup {NoJob}] /\ newjob \in [Producer -> Job \cup {NoJob}]
        /\ added \in [Producer -> Nat]
    BY DEF Init
  <2>6. main \in {"fork", "join", "wait", "exit"}
        /\ procB \in {"unborn", "running", "exited"}
    BY DEF Init
  <2> QED BY <1>3, <2>1, <2>2, <2>3, <2>4, <2>5, <2>6 DEF TypeOK, RWInv
<1>5. Places /\ Unborn /\ Indexed /\ Hidden /\ Checked /\ OneRunner /\ RootSeen
  BY DEF Places, Unborn, Indexed, Hidden, Checked, OneRunner, RootSeen, Runs, RWInit, Init
<1>6. Ordered /\ Fresh
  BY <1>1, <1>2 DEF Ordered, Fresh, Init
<1>7. JobMutexOwned
  BY DEF JobMutexOwned, Holds, Init
<1>8. T!ChildrenFirst /\ T!Rooted
  <2>1. T!ChildrenFirst
    BY DEF T!ChildrenFirst, T!Job, Init
  <2>2. \A k \in 1 .. InitJobs - 1 : k \in Kids[Root]
    <3>1. Children(Root) = {first[n] : n \in 1 .. Len(first)}
      BY <1>1 DEF Children
    <3>2. \A k \in 1 .. InitJobs - 1 : k \in Children(Root)
      BY <3>1, <1>2
    <3> QED BY <3>2 DEF Kids
  <2>3. T!Rooted
    <3> SUFFICES ASSUME NEW k \in 1 .. InitJobs - 1 PROVE \E i \in 0 .. k - 1 : k \in Kids[i]
      BY DEF T!Rooted, T!Made, T!Root, Init
    <3>1. Root \in 0 .. k - 1 /\ k \in Kids[Root]
      BY <2>2
    <3> QED BY <3>1
  <2> QED BY <2>1, <2>3
<1> QED
  BY <1>3, <1>4, <1>5, <1>6, <1>7, <1>8 DEF JInv

-----------------------------------------------------------------------------
\* The types of pc, job_mutex and idx after the steps that change them.
PCType ==
    /\ pc \in [Thread -> ProducerPC \cup ConsumerPC]
    /\ \A p \in Producer : pc[p] \in ProducerPC
    /\ \A c \in Consumer : pc[c] \in ConsumerPC

LEMMA GotoType ==
  ASSUME TypeOK
  PROVE  /\ \A p \in Producer : \A l \in ProducerPC : Goto(p, l) => PCType'
         /\ \A c \in Consumer : \A l \in ConsumerPC : Goto(c, l) => PCType'
<1>1. PCType
  BY DEF TypeOK, PCType
<1>2. ASSUME NEW p \in Producer, NEW l \in ProducerPC, Goto(p, l)
      PROVE  PCType'
  BY <1>1, <1>2, JobAssumption DEF PCType, Goto
<1>3. ASSUME NEW c \in Consumer, NEW l \in ConsumerPC, Goto(c, l)
      PROVE  PCType'
  BY <1>1, <1>3, JobAssumption DEF PCType, Goto
<1> QED BY <1>2, <1>3

LEMMA MutexType ==
  ASSUME TypeOK
  PROVE  /\ \A t \in Thread : \A i : LockJob(t, i) => job_mutex' \in [Job -> Thread \cup {NoThread}]
         /\ \A i : UnlockJob(i) => job_mutex' \in [Job -> Thread \cup {NoThread}]
  BY DEF TypeOK, LockJob, UnlockJob

LEMMA IdxDown ==
  ASSUME TypeOK, NEW t \in Thread, idx[t] \in Job, idx' = [idx EXCEPT ![t] = @ - 1]
  PROVE  idx' \in [Thread -> Job \cup {NoJob}]
  BY JobAssumption DEF TypeOK, Job, NoJob

\* Every step keeps the types.
LEMMA TypeStep ==
  ASSUME JInv, [Next]_vars
  PROVE  TypeOK'
<1>0. RWTypeOK' /\ TypeOK /\ Indexed
  BY RWInvPreserved DEF RWInv, JInv
<1>t. Producer \subseteq Thread /\ Consumer \subseteq Thread
  BY JobAssumption
<1> USE DEF PCType, queue, tree, locals, regs, procs
<1>1. ASSUME NEW p \in Producer, ProducerStep(p)
      PROVE  TypeOK'
  <2> USE <1>0, <1>t, GotoType, MutexType
  <2>1. CASE TimeOver(p) BY <2>1 DEF TimeOver, TypeOK, ProducerPC
  <2>2. CASE StartRound(p) BY <2>2 DEF StartRound, TypeOK, ProducerPC
  <2>3. CASE LockRoot(p) BY <2>3 DEF LockRoot, TypeOK, ProducerPC
  <2>4. CASE CheckRoot(p) BY <2>4 DEF CheckRoot, TypeOK, ProducerPC
  <2>5. CASE EnterRead(p) BY <2>5 DEF EnterRead, TypeOK, ProducerPC
  <2>6. CASE PickJob(p)
    <3>1. 0 .. count_jobs - 1 \subseteq Job BY JobAssumption DEF TypeOK, Job
    <3> QED BY <2>6, <3>1 DEF PickJob, TypeOK, ProducerPC
  <2>7. CASE TryJob(p) BY <2>7 DEF TryJob, TypeOK, ProducerPC
  <2>8. CASE CheckJob(p) BY <2>8 DEF CheckJob, TypeOK, ProducerPC
  <2>9. CASE EnterWrite(p) BY <2>9 DEF EnterWrite, TypeOK, ProducerPC
  <2>10. CASE InsertNewJob(p)
    <3>1. CASE count_jobs >= Capacity
      BY <2>10, <3>1 DEF InsertNewJob, TypeOK, ProducerPC
    <3>2. CASE ~(count_jobs >= Capacity)
      <4>1. count_jobs \in Job /\ count_jobs + 1 \in InitJobs .. Capacity
        BY <3>2, JobAssumption DEF TypeOK, Job
      <4>2. status' \in [Job -> {0, 1, 2}] BY <2>10, <3>2 DEF InsertNewJob, TypeOK
      <4>3. newjob' \in [Producer -> Job \cup {NoJob}]
        BY <2>10, <3>2, <4>1 DEF InsertNewJob, TypeOK
      <4>4. PCType' BY <2>10 DEF InsertNewJob, ProducerPC
      <4> QED BY <2>10, <3>2, <4>1, <4>2, <4>3, <4>4 DEF InsertNewJob, TypeOK
    <3> QED BY <3>1, <3>2
  <2>11. CASE InitMutex(p) BY <2>11 DEF InitMutex, TypeOK, ProducerPC
  <2>12. CASE AttachChild(p)
    <3>1. CASE newjob[p] = NoJob
      BY <2>12, <3>1 DEF AttachChild, TypeOK, ProducerPC
    <3>2. CASE newjob[p] # NoJob
      <4>1. newjob[p] \in Job /\ idx[p] \in Job
        BY <2>12, <3>2 DEF AttachChild, Indexed, TypeOK
      <4>2. Append(child_jobs[idx[p]], newjob[p]) \in Seq(Job)
        BY <4>1 DEF TypeOK
      <4>3. child_jobs' \in [Job -> Seq(Job)]
        BY <2>12, <3>2, <4>2 DEF AttachChild, TypeOK
      <4>4. added' \in [Producer -> Nat]
        <5>1. added \in [Producer -> Nat] BY DEF TypeOK
        <5>2. added' = [added EXCEPT ![p] = @ + 1] BY <2>12, <3>2 DEF AttachChild
        <5> QED BY ONLY <5>1, <5>2
      <4>5. PCType' BY <2>12, <3>2 DEF AttachChild, ProducerPC
      <4> QED BY <2>12, <3>2, <4>3, <4>4, <4>5 DEF AttachChild, TypeOK
    <3> QED BY <3>1, <3>2
  <2> QED BY <1>1, <2>1, <2>2, <2>3, <2>4, <2>5, <2>6, <2>7, <2>8, <2>9, <2>10, <2>11, <2>12 DEF ProducerStep
<1>2. ASSUME NEW c \in Consumer, ConsumerStep(c)
      PROVE  TypeOK'
  <2> USE <1>0, <1>t, GotoType, MutexType, IdxDown
  <2>1. CASE EnterRead(c) BY <2>1 DEF EnterRead, TypeOK, ConsumerPC
  <2>2. CASE TakeSnapshot(c)
    <3>1. count_jobs - 1 \in Job BY JobAssumption DEF TypeOK, Job
    <3> QED BY <2>2, <3>1 DEF TakeSnapshot, TypeOK, ConsumerPC
  <2>3. CASE ScanJob(c)
    <3>1. idx[c] \in Job BY <2>3 DEF ScanJob, TypeOK, Job, NoJob
    <3>2. CASE LockJob(c, idx[c]) /\ Goto(c, "examine") /\ UNCHANGED <<idx, all_done>>
      BY <2>3, <3>2 DEF ScanJob, TypeOK, ConsumerPC
    <3>3. CASE /\ all_done' = [all_done EXCEPT ![c] = FALSE]
               /\ idx' = [idx EXCEPT ![c] = @ - 1]
               /\ UNCHANGED <<job_mutex, pc>>
      BY <2>3, <3>1, <3>3 DEF ScanJob, TypeOK
    <3> QED BY <2>3, <3>2, <3>3 DEF ScanJob
  <2>4. CASE ExamineJob(c)
    <3>1. idx[c] \in Job BY <2>4 DEF ExamineJob, Indexed
    <3>2. CASE status[idx[c]] = 0 BY <2>4, <3>2 DEF ExamineJob, TypeOK, ConsumerPC
    <3>3. CASE status[idx[c]] # 0 BY <2>4, <3>1, <3>3 DEF ExamineJob, TypeOK, ConsumerPC
    <3> QED BY <3>2, <3>3
  <2>5. CASE LockChild(c) BY <2>5 DEF LockChild, TypeOK, ConsumerPC
  <2>6. CASE ReadChild(c)
    <3>1. kid' \in [Consumer -> Nat \ {0}] BY <2>6 DEF ReadChild, TypeOK
    <3>2. PCType' BY <2>6 DEF ReadChild, ConsumerPC
    <3>3. job_mutex' \in [Job -> Thread \cup {NoThread}] BY <2>6 DEF ReadChild
    <3> QED BY <2>6, <3>1, <3>2, <3>3 DEF ReadChild, TypeOK
  <2>7. CASE LeaveJob(c)
    <3>1. idx[c] \in Job BY <2>7 DEF LeaveJob, Indexed
    <3> QED BY <2>7, <3>1 DEF LeaveJob, TypeOK, ConsumerPC
  <2>8. CASE StartJob(c)
    <3>1. idx[c] \in Job BY <2>8 DEF StartJob, Indexed
    <3> QED BY <2>8, <3>1 DEF StartJob, TypeOK, ConsumerPC
  <2>9. CASE LockToFinish(c) BY <2>9 DEF LockToFinish, TypeOK, ConsumerPC
  <2>10. CASE FinishJob(c)
    <3>1. idx[c] \in Job BY <2>10 DEF FinishJob, Indexed
    <3>2. status' \in [Job -> {0, 1, 2}]
      <4>1. status \in [Job -> {0, 1, 2}] BY DEF TypeOK
      <4>2. status' = [status EXCEPT ![idx[c]] = 2] BY <2>10 DEF FinishJob
      <4> QED BY ONLY <4>1, <4>2
    <3>3. PCType' BY <2>10 DEF FinishJob, ConsumerPC
    <3> QED BY <2>10, <3>1, <3>2, <3>3 DEF FinishJob, TypeOK
  <2>11. CASE EndSweep(c) BY <2>11 DEF EndSweep, TypeOK, ConsumerPC
  <2> QED BY <1>2, <2>1, <2>2, <2>3, <2>4, <2>5, <2>6, <2>7, <2>8, <2>9, <2>10, <2>11 DEF ConsumerStep
<1>3. CASE MainStep
  BY <1>0, <1>3, JobAssumption DEF TypeOK, ProducerPC, ConsumerPC, MainStep, Fork, ExitB, JoinProducers, Report
<1>4. CASE UNCHANGED vars
  BY <1>0, <1>4 DEF vars, TypeOK
<1> QED BY <1>1, <1>2, <1>3, <1>4 DEF Next, Terminated

\* A thread moves in the lock protocol only where its program does.
LEMMA PlacesStep ==
  ASSUME JInv, [Next]_vars
  PROVE  Places'
<1>0. /\ Places /\ Unborn
      /\ pc \in [Thread -> ProducerPC \cup ConsumerPC] /\ rw \in [Thread -> RWState]
      /\ (\A p \in Producer : pc[p] \in ProducerPC) /\ \A c \in Consumer : pc[c] \in ConsumerPC
  BY DEF JInv, TypeOK, RWTypeOK
<1> USE JobAssumption, <1>0 DEF Places, Unborn, Goto, RWState, queue, locals, regs, procs, rwvars
<1>1. ASSUME NEW p \in Producer, ProducerStep(p)
      PROVE  Places'
  <2>1. CASE TimeOver(p) BY <2>1 DEF TimeOver, ReadArrive, ReadCount, ReadEnter, ReadLeave, WriteArrive, WriteEnter, WriteLeave
  <2>2. CASE StartRound(p) BY <2>2 DEF StartRound, ReadArrive, ReadCount, ReadEnter, ReadLeave, WriteArrive, WriteEnter, WriteLeave
  <2>3. CASE LockRoot(p) BY <2>3 DEF LockRoot, ReadArrive, ReadCount, ReadEnter, ReadLeave, WriteArrive, WriteEnter, WriteLeave
  <2>4. CASE CheckRoot(p) BY <2>4 DEF CheckRoot, ReadArrive, ReadCount, ReadEnter, ReadLeave, WriteArrive, WriteEnter, WriteLeave
  <2>5. CASE EnterRead(p) BY <2>5 DEF EnterRead, ReadArrive, ReadCount, ReadEnter, ReadLeave, WriteArrive, WriteEnter, WriteLeave
  <2>6. CASE PickJob(p) BY <2>6 DEF PickJob, ReadArrive, ReadCount, ReadEnter, ReadLeave, WriteArrive, WriteEnter, WriteLeave
  <2>7. CASE TryJob(p) BY <2>7 DEF TryJob, ReadArrive, ReadCount, ReadEnter, ReadLeave, WriteArrive, WriteEnter, WriteLeave
  <2>8. CASE CheckJob(p) BY <2>8 DEF CheckJob, ReadArrive, ReadCount, ReadEnter, ReadLeave, WriteArrive, WriteEnter, WriteLeave
  <2>9. CASE EnterWrite(p) BY <2>9 DEF EnterWrite, ReadArrive, ReadCount, ReadEnter, ReadLeave, WriteArrive, WriteEnter, WriteLeave
  <2>10. CASE InsertNewJob(p) BY <2>10 DEF InsertNewJob, ReadArrive, ReadCount, ReadEnter, ReadLeave, WriteArrive, WriteEnter, WriteLeave
  <2>11. CASE InitMutex(p) BY <2>11 DEF InitMutex, ReadArrive, ReadCount, ReadEnter, ReadLeave, WriteArrive, WriteEnter, WriteLeave
  <2>12. CASE AttachChild(p) BY <2>12 DEF AttachChild, ReadArrive, ReadCount, ReadEnter, ReadLeave, WriteArrive, WriteEnter, WriteLeave
  <2> QED BY <1>1, <2>1, <2>2, <2>3, <2>4, <2>5, <2>6, <2>7, <2>8, <2>9, <2>10, <2>11, <2>12 DEF ProducerStep
<1>2. ASSUME NEW c \in Consumer, ConsumerStep(c)
      PROVE  Places'
  <2>1. CASE EnterRead(c) BY <2>1 DEF EnterRead, ReadArrive, ReadCount, ReadEnter, ReadLeave
  <2>2. CASE TakeSnapshot(c) BY <2>2 DEF TakeSnapshot, ReadArrive, ReadCount, ReadEnter, ReadLeave
  <2>3. CASE ScanJob(c) BY <2>3 DEF ScanJob, ReadArrive, ReadCount, ReadEnter, ReadLeave
  <2>4. CASE ExamineJob(c) BY <2>4 DEF ExamineJob, ReadArrive, ReadCount, ReadEnter, ReadLeave
  <2>5. CASE LockChild(c) BY <2>5 DEF LockChild, ReadArrive, ReadCount, ReadEnter, ReadLeave
  <2>6. CASE ReadChild(c) BY <2>6 DEF ReadChild, ReadArrive, ReadCount, ReadEnter, ReadLeave
  <2>7. CASE LeaveJob(c) BY <2>7 DEF LeaveJob, ReadArrive, ReadCount, ReadEnter, ReadLeave
  <2>8. CASE StartJob(c) BY <2>8 DEF StartJob, ReadArrive, ReadCount, ReadEnter, ReadLeave
  <2>9. CASE LockToFinish(c) BY <2>9 DEF LockToFinish, ReadArrive, ReadCount, ReadEnter, ReadLeave
  <2>10. CASE FinishJob(c) BY <2>10 DEF FinishJob, ReadArrive, ReadCount, ReadEnter, ReadLeave
  <2>11. CASE EndSweep(c) BY <2>11 DEF EndSweep, ReadArrive, ReadCount, ReadEnter, ReadLeave
  <2> QED BY <1>2, <2>1, <2>2, <2>3, <2>4, <2>5, <2>6, <2>7, <2>8, <2>9, <2>10, <2>11 DEF ConsumerStep
<1>3. CASE MainStep
  BY <1>3 DEF MainStep, Fork, ExitB, JoinProducers, Report
<1>4. CASE UNCHANGED vars
  BY <1>4 DEF vars
<1> QED BY <1>1, <1>2, <1>3, <1>4 DEF Next, Terminated

\* Only Fork starts consumers.
LEMMA UnbornStep ==
  ASSUME JInv, [Next]_vars
  PROVE  Unborn'
<1>0. /\ Unborn
      /\ pc \in [Thread -> ProducerPC \cup ConsumerPC]
  BY DEF JInv, TypeOK
<1> USE JobAssumption, <1>0 DEF Unborn, Goto, queue, locals, regs, procs, rwvars
<1>1. ASSUME NEW p \in Producer, ProducerStep(p)
      PROVE  Unborn'
  <2>1. CASE TimeOver(p) BY <2>1 DEF TimeOver
  <2>2. CASE StartRound(p) BY <2>2 DEF StartRound
  <2>3. CASE LockRoot(p) BY <2>3 DEF LockRoot
  <2>4. CASE CheckRoot(p) BY <2>4 DEF CheckRoot
  <2>5. CASE EnterRead(p) BY <2>5 DEF EnterRead
  <2>6. CASE PickJob(p) BY <2>6 DEF PickJob
  <2>7. CASE TryJob(p) BY <2>7 DEF TryJob
  <2>8. CASE CheckJob(p) BY <2>8 DEF CheckJob
  <2>9. CASE EnterWrite(p) BY <2>9 DEF EnterWrite
  <2>10. CASE InsertNewJob(p) BY <2>10 DEF InsertNewJob
  <2>11. CASE InitMutex(p) BY <2>11 DEF InitMutex
  <2>12. CASE AttachChild(p) BY <2>12 DEF AttachChild
  <2> QED BY <1>1, <2>1, <2>2, <2>3, <2>4, <2>5, <2>6, <2>7, <2>8, <2>9, <2>10, <2>11, <2>12 DEF ProducerStep
<1>2. ASSUME NEW c \in Consumer, ConsumerStep(c)
      PROVE  Unborn'
  <2>1. CASE EnterRead(c) BY <2>1 DEF EnterRead
  <2>2. CASE TakeSnapshot(c) BY <2>2 DEF TakeSnapshot
  <2>3. CASE ScanJob(c) BY <2>3 DEF ScanJob
  <2>4. CASE ExamineJob(c) BY <2>4 DEF ExamineJob
  <2>5. CASE LockChild(c) BY <2>5 DEF LockChild
  <2>6. CASE ReadChild(c) BY <2>6 DEF ReadChild
  <2>7. CASE LeaveJob(c) BY <2>7 DEF LeaveJob
  <2>8. CASE StartJob(c) BY <2>8 DEF StartJob
  <2>9. CASE LockToFinish(c) BY <2>9 DEF LockToFinish
  <2>10. CASE FinishJob(c) BY <2>10 DEF FinishJob
  <2>11. CASE EndSweep(c) BY <2>11 DEF EndSweep
  <2> QED BY <1>2, <2>1, <2>2, <2>3, <2>4, <2>5, <2>6, <2>7, <2>8, <2>9, <2>10, <2>11 DEF ConsumerStep
<1>3. CASE MainStep
  BY <1>3 DEF MainStep, Fork, ExitB, JoinProducers, Report
<1>4. CASE UNCHANGED vars
  BY <1>4 DEF vars
<1> QED BY <1>1, <1>2, <1>3, <1>4 DEF Next, Terminated

\* The registers are set before they are used.
LEMMA IndexedStep ==
  ASSUME JInv, [Next]_vars
  PROVE  Indexed'
<1>0. /\ Indexed /\ Unborn
      /\ pc \in [Thread -> ProducerPC \cup ConsumerPC] /\ idx \in [Thread -> Job \cup {NoJob}]
      /\ count_jobs \in InitJobs .. Capacity
      /\ (\A p \in Producer : pc[p] \in ProducerPC) /\ \A c \in Consumer : pc[c] \in ConsumerPC
  BY DEF JInv, TypeOK
<1> USE JobAssumption, <1>0 DEF Indexed, Unborn, Goto, queue, locals, regs, procs, Job, NoJob
<1>1. ASSUME NEW p \in Producer, ProducerStep(p)
      PROVE  Indexed'
  <2>1. CASE TimeOver(p) BY <2>1 DEF TimeOver
  <2>2. CASE StartRound(p) BY <2>2 DEF StartRound
  <2>3. CASE LockRoot(p) BY <2>3 DEF LockRoot
  <2>4. CASE CheckRoot(p) BY <2>4 DEF CheckRoot
  <2>5. CASE EnterRead(p) BY <2>5 DEF EnterRead
  <2>6. CASE PickJob(p) BY <2>6 DEF PickJob
  <2>7. CASE TryJob(p) BY <2>7 DEF TryJob
  <2>8. CASE CheckJob(p) BY <2>8 DEF CheckJob
  <2>9. CASE EnterWrite(p) BY <2>9 DEF EnterWrite
  <2>10. CASE InsertNewJob(p) BY <2>10 DEF InsertNewJob
  <2>11. CASE InitMutex(p) BY <2>11 DEF InitMutex
  <2>12. CASE AttachChild(p) BY <2>12 DEF AttachChild
  <2> QED BY <1>1, <2>1, <2>2, <2>3, <2>4, <2>5, <2>6, <2>7, <2>8, <2>9, <2>10, <2>11, <2>12 DEF ProducerStep
<1>2. ASSUME NEW c \in Consumer, ConsumerStep(c)
      PROVE  Indexed'
  <2>1. CASE EnterRead(c) BY <2>1 DEF EnterRead
  <2>2. CASE TakeSnapshot(c) BY <2>2 DEF TakeSnapshot
  <2>3. CASE ScanJob(c) BY <2>3 DEF ScanJob
  <2>4. CASE ExamineJob(c) BY <2>4 DEF ExamineJob
  <2>5. CASE LockChild(c) BY <2>5 DEF LockChild
  <2>6. CASE ReadChild(c) BY <2>6 DEF ReadChild
  <2>7. CASE LeaveJob(c) BY <2>7 DEF LeaveJob
  <2>8. CASE StartJob(c) BY <2>8 DEF StartJob
  <2>9. CASE LockToFinish(c) BY <2>9 DEF LockToFinish
  <2>10. CASE FinishJob(c) BY <2>10 DEF FinishJob
  <2>11. CASE EndSweep(c) BY <2>11 DEF EndSweep
  <2> QED BY <1>2, <2>1, <2>2, <2>3, <2>4, <2>5, <2>6, <2>7, <2>8, <2>9, <2>10, <2>11 DEF ConsumerStep
<1>3. CASE MainStep
  BY <1>3 DEF MainStep, Fork, ExitB, JoinProducers, Report
<1>4. CASE UNCHANGED vars
  BY <1>4 DEF vars
<1> QED BY <1>1, <1>2, <1>3, <1>4 DEF Next, Terminated

\* Only made jobs are touched.
LEMMA FreshStep ==
  ASSUME JInv, [Next]_vars
  PROVE  Fresh'
<1>0. /\ Fresh /\ Indexed /\ Ordered
      /\ count_jobs \in InitJobs .. Capacity /\ idx \in [Thread -> Job \cup {NoJob}]
      /\ status \in [Job -> {0, 1, 2}] /\ child_jobs \in [Job -> Seq(Job)]
  BY DEF JInv, TypeOK
<1> USE JobAssumption, <1>0 DEF Fresh, Ordered, Indexed, queue, locals, tree, Job
<1>1. ASSUME NEW p \in Producer, ProducerStep(p)
      PROVE  Fresh'
  <2>1. CASE TimeOver(p) BY <2>1 DEF TimeOver
  <2>2. CASE StartRound(p) BY <2>2 DEF StartRound
  <2>3. CASE LockRoot(p) BY <2>3 DEF LockRoot
  <2>4. CASE CheckRoot(p) BY <2>4 DEF CheckRoot
  <2>5. CASE EnterRead(p) BY <2>5 DEF EnterRead
  <2>6. CASE PickJob(p) BY <2>6 DEF PickJob
  <2>7. CASE TryJob(p) BY <2>7 DEF TryJob
  <2>8. CASE CheckJob(p) BY <2>8 DEF CheckJob
  <2>9. CASE EnterWrite(p) BY <2>9 DEF EnterWrite
  <2>10. CASE InsertNewJob(p) BY <2>10 DEF InsertNewJob
  <2>11. CASE InitMutex(p) BY <2>11 DEF InitMutex
  <2>12. CASE AttachChild(p) BY <2>12 DEF AttachChild
  <2> QED BY <1>1, <2>1, <2>2, <2>3, <2>4, <2>5, <2>6, <2>7, <2>8, <2>9, <2>10, <2>11, <2>12 DEF ProducerStep
<1>2. ASSUME NEW c \in Consumer, ConsumerStep(c)
      PROVE  Fresh'
  <2>1. CASE EnterRead(c) BY <2>1 DEF EnterRead
  <2>2. CASE TakeSnapshot(c) BY <2>2 DEF TakeSnapshot
  <2>3. CASE ScanJob(c) BY <2>3 DEF ScanJob
  <2>4. CASE ExamineJob(c) BY <2>4 DEF ExamineJob
  <2>5. CASE LockChild(c) BY <2>5 DEF LockChild
  <2>6. CASE ReadChild(c) BY <2>6 DEF ReadChild
  <2>7. CASE LeaveJob(c) BY <2>7 DEF LeaveJob
  <2>8. CASE StartJob(c) BY <2>8 DEF StartJob
  <2>9. CASE LockToFinish(c) BY <2>9 DEF LockToFinish
  <2>10. CASE FinishJob(c) BY <2>10 DEF FinishJob
  <2>11. CASE EndSweep(c) BY <2>11 DEF EndSweep
  <2> QED BY <1>2, <2>1, <2>2, <2>3, <2>4, <2>5, <2>6, <2>7, <2>8, <2>9, <2>10, <2>11 DEF ConsumerStep
<1>3. CASE MainStep
  BY <1>3 DEF MainStep, Fork, ExitB, JoinProducers, Report
<1>4. CASE UNCHANGED vars
  BY <1>4 DEF vars
<1> QED BY <1>1, <1>2, <1>3, <1>4 DEF Next, Terminated

\* Attaching a child appends it to the list of one job.
LEMMA AttachChildren ==
  ASSUME TypeOK, Indexed, NEW p \in Producer, AttachChild(p)
  PROVE  \A i \in Job : \A n \in 1 .. Len(child_jobs'[i]) :
             \/ n \in 1 .. Len(child_jobs[i]) /\ child_jobs'[i][n] = child_jobs[i][n]
             \/ i = idx[p] /\ newjob[p] # NoJob /\ child_jobs'[i][n] = newjob[p]
<1>1. CASE newjob[p] = NoJob
  BY <1>1 DEF AttachChild, TypeOK
<1>2. CASE newjob[p] # NoJob
  <2>1. child_jobs' = [child_jobs EXCEPT ![idx[p]] = Append(@, newjob[p])]
    BY <1>2 DEF AttachChild
  <2>2. newjob[p] \in Job /\ idx[p] \in Job /\ child_jobs[idx[p]] \in Seq(Job)
    BY <1>2, JobAssumption DEF AttachChild, TypeOK, Indexed
  <2>3. \A i \in Job : i # idx[p] => child_jobs'[i] = child_jobs[i]
    BY <2>1 DEF TypeOK
  <2>4. child_jobs'[idx[p]] = Append(child_jobs[idx[p]], newjob[p])
    BY <2>1, <2>2 DEF TypeOK
  <2>5. \A n \in 1 .. Len(child_jobs'[idx[p]]) :
           \/ n \in 1 .. Len(child_jobs[idx[p]]) /\ child_jobs'[idx[p]][n] = child_jobs[idx[p]][n]
           \/ child_jobs'[idx[p]][n] = newjob[p]
    BY ONLY <2>2, <2>4
  <2> QED BY <2>3, <2>5, <1>2
<1> QED BY <1>1, <1>2

\* Moving a consumer's index down disturbs neither Ordered nor Hidden.
LEMMA LowerIsSafe ==
  ASSUME TypeOK, Ordered, Hidden, NEW c \in Consumer,
         idx' = idx \/ idx' = [idx EXCEPT ![c] = @ - 1],
         UNCHANGED <<count_jobs, child_jobs, newjob>>,
         \A p \in Producer : pc'[p] = pc[p]
  PROVE  Ordered' /\ Hidden'
<1>1. \A t \in Thread : idx[t] \in Int /\ idx'[t] \in Int /\ idx'[t] <= idx[t]
  <2>1. idx \in [Thread -> Int] /\ c \in Thread
    BY JobAssumption DEF TypeOK, Job, NoJob
  <2> QED BY <2>1
<1>2. \A p \in Producer : idx'[p] = idx[p]
  BY JobAssumption DEF TypeOK
<1>3. count_jobs \in Int /\ \A p \in Producer : newjob[p] \in Int
  BY JobAssumption DEF TypeOK, Job, NoJob
<1>4. \A t \in Thread : idx'[t] < count_jobs
  BY <1>1, <1>3 DEF Ordered
<1>5. Ordered'
  BY <1>2, <1>4 DEF Ordered
<1>6. ASSUME NEW p \in Producer, pc[p] = "init", newjob[p] # NoJob, NEW t \in Thread
      PROVE  idx'[t] < newjob[p]
  BY <1>1, <1>3, <1>6 DEF Hidden
<1>7. Hidden'
  BY <1>6 DEF Hidden
<1> QED BY <1>5, <1>7

\* A new job is younger than everything that refers to it.
LEMMA OrderedStep ==
  ASSUME JInv, [Next]_vars
  PROVE  Ordered'
<1>0. /\ Ordered /\ Hidden /\ Indexed /\ TypeOK
      /\ pc \in [Thread -> ProducerPC \cup ConsumerPC] /\ idx \in [Thread -> Job \cup {NoJob}]
      /\ count_jobs \in InitJobs .. Capacity /\ newjob \in [Producer -> Job \cup {NoJob}]
      /\ child_jobs \in [Job -> Seq(Job)]
      /\ (\A p \in Producer : pc[p] \in ProducerPC) /\ \A c \in Consumer : pc[c] \in ConsumerPC
  BY DEF JInv, TypeOK
<1> USE JobAssumption, <1>0 DEF Ordered, Indexed, Goto, queue, locals, regs, procs, tree, Job, NoJob
<1>1. ASSUME NEW p \in Producer, ProducerStep(p)
      PROVE  Ordered'
  <2>1. CASE TimeOver(p) BY <2>1 DEF TimeOver
  <2>2. CASE StartRound(p) BY <2>2 DEF StartRound
  <2>3. CASE LockRoot(p) BY <2>3 DEF LockRoot
  <2>4. CASE CheckRoot(p) BY <2>4 DEF CheckRoot
  <2>5. CASE EnterRead(p) BY <2>5 DEF EnterRead
  <2>6. CASE PickJob(p) BY <2>6 DEF PickJob
  <2>7. CASE TryJob(p) BY <2>7 DEF TryJob
  <2>8. CASE CheckJob(p) BY <2>8 DEF CheckJob
  <2>9. CASE EnterWrite(p) BY <2>9 DEF EnterWrite
  <2>10. CASE InsertNewJob(p)
    <3>1. CASE count_jobs >= Capacity
      <4>1. UNCHANGED <<count_jobs, child_jobs, idx>> /\ newjob' = [newjob EXCEPT ![p] = NoJob]
        BY <2>10, <3>1 DEF InsertNewJob
      <4>2. \A q \in Producer : q # p => pc'[q] = pc[q] BY <2>10 DEF InsertNewJob
      <4> QED BY <4>1, <4>2
    <3>2. CASE ~(count_jobs >= Capacity)
      <4>1. count_jobs' = count_jobs + 1 /\ newjob' = [newjob EXCEPT ![p] = count_jobs]
            /\ UNCHANGED <<child_jobs, idx>>
        BY <2>10, <3>2 DEF InsertNewJob
      <4>2. \A q \in Producer : q # p => pc'[q] = pc[q] BY <2>10 DEF InsertNewJob
      <4> QED BY <4>1, <4>2
    <3> QED BY <3>1, <3>2
  <2>11. CASE InitMutex(p) BY <2>11 DEF InitMutex
  <2>12. CASE AttachChild(p)
    <3>1. UNCHANGED <<count_jobs, newjob, idx>> /\ \A q \in Producer : q # p => pc'[q] = pc[q]
      BY <2>12 DEF AttachChild
    <3>2. pc'[p] \notin {"init", "attach"} BY <2>12 DEF AttachChild
    <3>3. \A i \in Job : \A n \in 1 .. Len(child_jobs'[i]) :
             \/ n \in 1 .. Len(child_jobs[i]) /\ child_jobs'[i][n] = child_jobs[i][n]
             \/ i = idx[p] /\ newjob[p] # NoJob /\ child_jobs'[i][n] = newjob[p]
      BY <2>12, AttachChildren
    <3>4. newjob[p] # NoJob => idx[p] < newjob[p] /\ newjob[p] < count_jobs
      BY <2>12 DEF AttachChild
    <3> QED BY <3>1, <3>2, <3>3, <3>4
  <2> QED BY <1>1, <2>1, <2>2, <2>3, <2>4, <2>5, <2>6, <2>7, <2>8, <2>9, <2>10, <2>11, <2>12 DEF ProducerStep
<1>2. ASSUME NEW c \in Consumer, ConsumerStep(c)
      PROVE  Ordered'
  <2>1. CASE EnterRead(c) BY <2>1 DEF EnterRead
  <2>2. CASE TakeSnapshot(c) BY <2>2 DEF TakeSnapshot
  <2>3. CASE ScanJob(c)
    <3>1. idx' = idx \/ idx' = [idx EXCEPT ![c] = @ - 1] BY <2>3 DEF ScanJob
    <3>2. UNCHANGED <<count_jobs, child_jobs, newjob>> /\ \A p \in Producer : pc'[p] = pc[p]
      BY <2>3 DEF ScanJob
    <3> QED BY <3>1, <3>2, LowerIsSafe
  <2>4. CASE ExamineJob(c)
    <3>1. idx' = idx \/ idx' = [idx EXCEPT ![c] = @ - 1] BY <2>4 DEF ExamineJob
    <3>2. UNCHANGED <<count_jobs, child_jobs, newjob>> /\ \A p \in Producer : pc'[p] = pc[p]
      BY <2>4 DEF ExamineJob
    <3> QED BY <3>1, <3>2, LowerIsSafe
  <2>5. CASE LockChild(c) BY <2>5 DEF LockChild
  <2>6. CASE ReadChild(c) BY <2>6 DEF ReadChild
  <2>7. CASE LeaveJob(c)
    <3>1. idx' = idx \/ idx' = [idx EXCEPT ![c] = @ - 1] BY <2>7 DEF LeaveJob
    <3>2. UNCHANGED <<count_jobs, child_jobs, newjob>> /\ \A p \in Producer : pc'[p] = pc[p]
      BY <2>7 DEF LeaveJob
    <3> QED BY <3>1, <3>2, LowerIsSafe
  <2>8. CASE StartJob(c) BY <2>8 DEF StartJob
  <2>9. CASE LockToFinish(c) BY <2>9 DEF LockToFinish
  <2>10. CASE FinishJob(c)
    <3>1. idx' = idx \/ idx' = [idx EXCEPT ![c] = @ - 1] BY <2>10 DEF FinishJob
    <3>2. UNCHANGED <<count_jobs, child_jobs, newjob>> /\ \A p \in Producer : pc'[p] = pc[p]
      BY <2>10 DEF FinishJob
    <3> QED BY <3>1, <3>2, LowerIsSafe
  <2>11. CASE EndSweep(c) BY <2>11 DEF EndSweep
  <2> QED BY <1>2, <2>1, <2>2, <2>3, <2>4, <2>5, <2>6, <2>7, <2>8, <2>9, <2>10, <2>11 DEF ConsumerStep
<1>3. CASE MainStep
  BY <1>3 DEF MainStep, Fork, ExitB, JoinProducers, Report
<1>4. CASE UNCHANGED vars
  BY <1>4 DEF vars
<1> QED BY <1>1, <1>2, <1>3, <1>4 DEF Next, Terminated

\* all_done survives a sweep only past jobs that have been started.
LEMMA RootSeenStep ==
  ASSUME JInv, [Next]_vars
  PROVE  RootSeen'
<1>0. /\ RootSeen /\ Indexed /\ Checked /\ Unborn
      /\ pc \in [Thread -> ProducerPC \cup ConsumerPC] /\ idx \in [Thread -> Job \cup {NoJob}]
      /\ count_jobs \in InitJobs .. Capacity /\ status \in [Job -> {0, 1, 2}]
      /\ all_done \in [Consumer -> BOOLEAN]
      /\ (\A p \in Producer : pc[p] \in ProducerPC) /\ \A c \in Consumer : pc[c] \in ConsumerPC
  BY DEF JInv, TypeOK
<1> USE JobAssumption, <1>0 DEF RootSeen, Unborn, Indexed, Goto, queue, locals, regs, procs, tree, Job, NoJob, Root
<1>1. ASSUME NEW p \in Producer, ProducerStep(p)
      PROVE  RootSeen'
  <2>1. CASE TimeOver(p) BY <2>1 DEF TimeOver
  <2>2. CASE StartRound(p) BY <2>2 DEF StartRound
  <2>3. CASE LockRoot(p) BY <2>3 DEF LockRoot
  <2>4. CASE CheckRoot(p) BY <2>4 DEF CheckRoot
  <2>5. CASE EnterRead(p) BY <2>5 DEF EnterRead
  <2>6. CASE PickJob(p) BY <2>6 DEF PickJob
  <2>7. CASE TryJob(p) BY <2>7 DEF TryJob
  <2>8. CASE CheckJob(p) BY <2>8 DEF CheckJob
  <2>9. CASE EnterWrite(p) BY <2>9 DEF EnterWrite
  <2>10. CASE InsertNewJob(p)
    <3>1. status'[Root] = status[Root] BY <2>10 DEF InsertNewJob
    <3>2. UNCHANGED <<idx, all_done>> /\ \A c \in Consumer : pc'[c] = pc[c]
      BY <2>10 DEF InsertNewJob
    <3> QED BY <3>1, <3>2
  <2>11. CASE InitMutex(p) BY <2>11 DEF InitMutex
  <2>12. CASE AttachChild(p)
    <3>1. UNCHANGED <<status, idx, all_done>> /\ \A c \in Consumer : pc'[c] = pc[c]
      BY <2>12 DEF AttachChild
    <3> QED BY <3>1
  <2> QED BY <1>1, <2>1, <2>2, <2>3, <2>4, <2>5, <2>6, <2>7, <2>8, <2>9, <2>10, <2>11, <2>12 DEF ProducerStep
<1>2. ASSUME NEW c \in Consumer, ConsumerStep(c)
      PROVE  RootSeen'
  <2>1. CASE EnterRead(c) BY <2>1 DEF EnterRead
  <2>2. CASE TakeSnapshot(c) BY <2>2 DEF TakeSnapshot
  <2>3. CASE ScanJob(c)
    <3>1. CASE LockJob(c, idx[c]) /\ Goto(c, "examine") /\ UNCHANGED <<idx, all_done>>
      BY <2>3, <3>1 DEF ScanJob
    <3>2. CASE /\ all_done' = [all_done EXCEPT ![c] = FALSE]
               /\ idx' = [idx EXCEPT ![c] = @ - 1]
               /\ UNCHANGED <<job_mutex, pc>>
      BY <2>3, <3>2 DEF ScanJob
    <3> QED BY <2>3, <3>1, <3>2 DEF ScanJob
  <2>4. CASE ExamineJob(c)
    <3>1. CASE status[idx[c]] = 0 BY <2>4, <3>1 DEF ExamineJob
    <3>2. CASE status[idx[c]] # 0 BY <2>4, <3>2 DEF ExamineJob
    <3> QED BY <3>1, <3>2
  <2>5. CASE LockChild(c) BY <2>5 DEF LockChild
  <2>6. CASE ReadChild(c) BY <2>6 DEF ReadChild
  <2>7. CASE LeaveJob(c) BY <2>7 DEF LeaveJob
  <2>8. CASE StartJob(c) BY <2>8 DEF StartJob
  <2>9. CASE LockToFinish(c) BY <2>9 DEF LockToFinish
  <2>10. CASE FinishJob(c) BY <2>10 DEF FinishJob
  <2>11. CASE EndSweep(c) BY <2>11 DEF EndSweep
  <2> QED BY <1>2, <2>1, <2>2, <2>3, <2>4, <2>5, <2>6, <2>7, <2>8, <2>9, <2>10, <2>11 DEF ConsumerStep
<1>3. CASE MainStep
  BY <1>3 DEF MainStep, Fork, ExitB, JoinProducers, Report
<1>4. CASE UNCHANGED vars
  BY <1>4 DEF vars
<1> QED BY <1>1, <1>2, <1>3, <1>4 DEF Next, Terminated

\* The readers-writers lock keeps a job invisible until its mutex is initialised.
LEMMA HiddenStep ==
  ASSUME JInv, [Next]_vars
  PROVE  Hidden'
<1>0. /\ Hidden /\ Ordered /\ Indexed /\ TypeOK /\ Places
      /\ pc \in [Thread -> ProducerPC \cup ConsumerPC] /\ idx \in [Thread -> Job \cup {NoJob}]
      /\ count_jobs \in InitJobs .. Capacity /\ newjob \in [Producer -> Job \cup {NoJob}]
      /\ child_jobs \in [Job -> Seq(Job)]
      /\ (\A p \in Producer : pc[p] \in ProducerPC) /\ \A c \in Consumer : pc[c] \in ConsumerPC
  BY DEF JInv, TypeOK
<1>l. \A p \in Producer : pc[p] = "init" =>
         \A t \in Thread : rw[t] # "reading" /\ (rw[t] = "writing" => t = p)
  BY JobAssumption DEF JInv, Places, RWInv, Exclusion, Reading, Writing
<1> USE JobAssumption, <1>0, <1>l DEF Hidden, Ordered, Indexed, Goto, queue, locals, regs, procs, tree, Job, NoJob
<1>1. ASSUME NEW p \in Producer, ProducerStep(p)
      PROVE  Hidden'
  <2>1. CASE TimeOver(p) BY <2>1 DEF TimeOver
  <2>2. CASE StartRound(p)
    <3>1. UNCHANGED <<count_jobs, child_jobs>> /\ pc'[p] = "root"
          /\ \A q \in Producer : q # p => pc'[q] = pc[q] /\ newjob'[q] = newjob[q]
      BY <2>2 DEF StartRound
    <3>2. \A t \in Thread : idx'[t] = idx[t] \/ idx'[t] = -1
      BY <2>2 DEF StartRound
    <3>3. \A q \in Producer : newjob[q] # NoJob => newjob[q] \in Nat
      OBVIOUS
    <3>4. ASSUME NEW q \in Producer, pc'[q] = "init", newjob'[q] # NoJob
          PROVE  pc[q] = "init" /\ newjob'[q] = newjob[q] /\ \A t \in Thread : idx'[t] < newjob[q]
      <4>1. pc[q] = "init" /\ newjob'[q] = newjob[q] BY <3>1, <3>4
      <4>2. \A t \in Thread : idx[t] < newjob[q] BY <4>1, <3>4
      <4>3. newjob[q] \in Nat BY <4>1, <3>3, <3>4
      <4> QED BY ONLY <4>1, <4>2, <4>3, <3>2
    <3>5. \A q \in Producer : pc'[q] = "attach" => pc[q] = "attach" /\ newjob'[q] = newjob[q]
      BY <3>1
    <3> QED BY <3>1, <3>4, <3>5
  <2>3. CASE LockRoot(p) BY <2>3 DEF LockRoot
  <2>4. CASE CheckRoot(p) BY <2>4 DEF CheckRoot
  <2>5. CASE EnterRead(p) BY <2>5 DEF EnterRead
  <2>6. CASE PickJob(p)
    <3>1. \A q \in Producer : pc'[q] # "init" BY <2>6 DEF PickJob, ReadLeave
    <3> QED BY <3>1
  <2>7. CASE TryJob(p) BY <2>7 DEF TryJob
  <2>8. CASE CheckJob(p) BY <2>8 DEF CheckJob
  <2>9. CASE EnterWrite(p) BY <2>9 DEF EnterWrite
  <2>10. CASE InsertNewJob(p)
    <3>1. \A q \in Producer : pc'[q] = "init" => q = p BY <2>10 DEF InsertNewJob
    <3>2. CASE count_jobs >= Capacity
      <4>1. newjob'[p] = NoJob BY <2>10, <3>2 DEF InsertNewJob
      <4> QED BY <3>1, <4>1
    <3>3. CASE ~(count_jobs >= Capacity)
      <4>1. count_jobs' = count_jobs + 1 /\ newjob' = [newjob EXCEPT ![p] = count_jobs]
            /\ UNCHANGED <<child_jobs, idx>>
        BY <2>10, <3>3 DEF InsertNewJob
      <4>2. \A q \in Producer : q # p => pc'[q] = pc[q] BY <2>10 DEF InsertNewJob
      <4>3. \A q \in Producer : pc'[q] = "attach" => newjob'[q] < newjob'[p]
        BY <4>1, <4>2, <2>10 DEF InsertNewJob
      <4> QED BY <3>1, <4>1, <4>3
    <3> QED BY <3>2, <3>3
  <2>11. CASE InitMutex(p)
    <3>1. \A q \in Producer : pc'[q] # "init" BY <2>11 DEF InitMutex, WriteLeave, Places, JInv
    <3> QED BY <3>1
  <2>12. CASE AttachChild(p)
    <3>1. UNCHANGED <<count_jobs, newjob, idx>> BY <2>12 DEF AttachChild
    <3>2. \A q \in Producer : (q # p => pc'[q] = pc[q]) /\ pc'[p] \notin {"init", "attach"}
      BY <2>12 DEF AttachChild
    <3>3. \A i \in Job : \A n \in 1 .. Len(child_jobs'[i]) :
             \/ n \in 1 .. Len(child_jobs[i]) /\ child_jobs'[i][n] = child_jobs[i][n]
             \/ i = idx[p] /\ newjob[p] # NoJob /\ child_jobs'[i][n] = newjob[p]
      BY <2>12, AttachChildren
    <3>4. \A q \in Producer : pc[q] = "init" /\ newjob[q] # NoJob /\ newjob[p] # NoJob
                 => newjob[p] < newjob[q]
      BY <2>12 DEF AttachChild
    <3>5. ASSUME NEW q \in Producer, pc'[q] = "init", newjob[q] # NoJob,
                 NEW i \in Job, NEW n \in 1 .. Len(child_jobs'[i])
          PROVE  child_jobs'[i][n] < newjob[q]
      BY <3>2, <3>3, <3>4, <3>5
    <3>6. \A q \in Producer : pc'[q] = "init" => pc[q] = "init"
      BY <3>2
    <3>7. \A q \in Producer : pc'[q] = "attach" => pc[q] = "attach"
      BY <3>2
    <3> QED BY <3>1, <3>5, <3>6, <3>7
  <2> QED BY <1>1, <2>1, <2>2, <2>3, <2>4, <2>5, <2>6, <2>7, <2>8, <2>9, <2>10, <2>11, <2>12 DEF ProducerStep
<1>2. ASSUME NEW c \in Consumer, ConsumerStep(c)
      PROVE  Hidden'
  <2>1. CASE EnterRead(c) BY <2>1 DEF EnterRead
  <2>2. CASE TakeSnapshot(c)
    <3>1. \A q \in Producer : pc'[q] # "init" BY <2>2 DEF TakeSnapshot, ReadLeave
    <3> QED BY <3>1
  <2>3. CASE ScanJob(c)
    <3>1. idx' = idx \/ idx' = [idx EXCEPT ![c] = @ - 1] BY <2>3 DEF ScanJob
    <3>2. UNCHANGED <<count_jobs, child_jobs, newjob>> /\ \A p \in Producer : pc'[p] = pc[p]
      BY <2>3 DEF ScanJob
    <3> QED BY <3>1, <3>2, LowerIsSafe
  <2>4. CASE ExamineJob(c)
    <3>1. idx' = idx \/ idx' = [idx EXCEPT ![c] = @ - 1] BY <2>4 DEF ExamineJob
    <3>2. UNCHANGED <<count_jobs, child_jobs, newjob>> /\ \A p \in Producer : pc'[p] = pc[p]
      BY <2>4 DEF ExamineJob
    <3> QED BY <3>1, <3>2, LowerIsSafe
  <2>5. CASE LockChild(c) BY <2>5 DEF LockChild
  <2>6. CASE ReadChild(c) BY <2>6 DEF ReadChild
  <2>7. CASE LeaveJob(c)
    <3>1. idx' = idx \/ idx' = [idx EXCEPT ![c] = @ - 1] BY <2>7 DEF LeaveJob
    <3>2. UNCHANGED <<count_jobs, child_jobs, newjob>> /\ \A p \in Producer : pc'[p] = pc[p]
      BY <2>7 DEF LeaveJob
    <3> QED BY <3>1, <3>2, LowerIsSafe
  <2>8. CASE StartJob(c) BY <2>8 DEF StartJob
  <2>9. CASE LockToFinish(c) BY <2>9 DEF LockToFinish
  <2>10. CASE FinishJob(c)
    <3>1. idx' = idx \/ idx' = [idx EXCEPT ![c] = @ - 1] BY <2>10 DEF FinishJob
    <3>2. UNCHANGED <<count_jobs, child_jobs, newjob>> /\ \A p \in Producer : pc'[p] = pc[p]
      BY <2>10 DEF FinishJob
    <3> QED BY <3>1, <3>2, LowerIsSafe
  <2>11. CASE EndSweep(c) BY <2>11 DEF EndSweep
  <2> QED BY <1>2, <2>1, <2>2, <2>3, <2>4, <2>5, <2>6, <2>7, <2>8, <2>9, <2>10, <2>11 DEF ConsumerStep
<1>3. CASE MainStep
  BY <1>3 DEF MainStep, Fork, ExitB, JoinProducers, Report
<1>4. CASE UNCHANGED vars
  BY <1>4 DEF vars
<1> QED BY <1>1, <1>2, <1>3, <1>4 DEF Next, Terminated

-----------------------------------------------------------------------------
\* A step of thread t moves no other thread and leaves the lists of children.
OnlyMoves(t) ==
    /\ UNCHANGED child_jobs
    /\ \A u \in Thread \ {t} :
          pc'[u] = pc[u] /\ idx'[u] = idx[u] /\ (u \in Consumer => kid'[u] = kid[u])

\* It changes at most the mutex of job i, which was free or its own.
OnlyMutex(t, i) ==
    \/ UNCHANGED job_mutex
    \/ /\ job_mutex[i] \in {NoThread, t}
       /\ \A k \in Job \ {i} : job_mutex'[k] = job_mutex[k]

\* Then the others still own what they hold, and only t has to be looked at.
LEMMA OthersOwn ==
  ASSUME TypeOK, JobMutexOwned, NEW t \in Thread, OnlyMoves(t),
         NEW i, OnlyMutex(t, i),
         \A k \in Job : Holds(t, k)' => job_mutex'[k] = t
  PROVE  JobMutexOwned'
<1> SUFFICES ASSUME NEW u \in Thread, NEW k \in Job, Holds(u, k)'
             PROVE  job_mutex'[k] = u
  BY DEF JobMutexOwned
<1>1. CASE u = t
  BY <1>1
<1>2. CASE u # t
  <2>1. pc[u] = "childheld" => u \in Consumer
    BY JobAssumption DEF TypeOK, ProducerPC
  <2>2. Holds(u, k)
    BY <1>2, <2>1 DEF OnlyMoves, Holds
  <2>3. job_mutex[k] = u
    BY <2>2 DEF JobMutexOwned
  <2> QED BY <2>3, <1>2, ThreadAssumption DEF OnlyMutex
<1> QED BY <1>1, <1>2

\* A job whose mutex is about to be initialised is held by nobody.
LEMMA NobodyHoldsNewJob ==
  ASSUME JInv, NEW p \in Producer, pc[p] = "init", newjob[p] # NoJob, NEW t \in Thread
  PROVE  ~Holds(t, newjob[p])
<1>1. newjob[p] \in Job /\ idx[p] \in Job /\ idx[p] < newjob[p]
  BY JobAssumption DEF JInv, TypeOK, Indexed, Ordered
<1>2. newjob[p] # Root
  BY <1>1 DEF Root, Job
<1>3. idx[t] < newjob[p] /\ idx[t] \in Int /\ newjob[p] \in Int
  BY <1>1 DEF JInv, Hidden, TypeOK, Job, NoJob
<1>4. ASSUME pc[t] = "childheld"
      PROVE  newjob[p] # child_jobs[idx[t]][kid[t]]
  <2>1. t \in Consumer /\ idx[t] \in Job
    BY <1>4, JobAssumption DEF JInv, TypeOK, ProducerPC, Indexed
  <2>2. kid[t] \in 1 .. Len(child_jobs[idx[t]])
    BY <1>4, <2>1 DEF JInv, TypeOK, Checked
  <2>3. child_jobs[idx[t]][kid[t]] < newjob[p]
    BY <2>1, <2>2 DEF JInv, Hidden
  <2> QED BY <2>3, <1>3
<1> QED BY <1>2, <1>3, <1>4 DEF Holds

\* A job mutex is locked and unlocked by the thread that is entitled to it.
LEMMA OwnedStep ==
  ASSUME JInv, [Next]_vars
  PROVE  JobMutexOwned'
<1>0. /\ TypeOK /\ JobMutexOwned
      /\ pc \in [Thread -> ProducerPC \cup ConsumerPC] /\ idx \in [Thread -> Job \cup {NoJob}]
      /\ job_mutex \in [Job -> Thread \cup {NoThread}] /\ kid \in [Consumer -> Nat \ {0}]
      /\ child_jobs \in [Job -> Seq(Job)]
      /\ (\A p \in Producer : pc[p] \in ProducerPC) /\ \A c \in Consumer : pc[c] \in ConsumerPC
  BY DEF JInv, TypeOK
<1> USE JobAssumption, ThreadAssumption, <1>0 DEF JobMutexOwned, Goto, LockJob, UnlockJob, queue, locals, regs, procs, tree, Root
<1>1. ASSUME NEW p \in Producer, ProducerStep(p)
      PROVE  JobMutexOwned'
  <2>1. CASE TimeOver(p)
    <3>1. OnlyMoves(p) BY <2>1 DEF TimeOver, OnlyMoves
    <3>2. OnlyMutex(p, Root) BY <2>1 DEF TimeOver, OnlyMutex, Holds
    <3>3. \A k \in Job : Holds(p, k)' => job_mutex'[k] = p BY <2>1 DEF TimeOver, Holds
    <3> QED BY <3>1, <3>2, <3>3, OthersOwn
  <2>2. CASE StartRound(p)
    <3>1. OnlyMoves(p) BY <2>2 DEF StartRound, OnlyMoves
    <3>2. OnlyMutex(p, Root) BY <2>2 DEF StartRound, OnlyMutex, Holds
    <3>3. \A k \in Job : Holds(p, k)' => job_mutex'[k] = p BY <2>2 DEF StartRound, Holds
    <3> QED BY <3>1, <3>2, <3>3, OthersOwn
  <2>3. CASE LockRoot(p)
    <3>1. OnlyMoves(p) BY <2>3 DEF LockRoot, OnlyMoves
    <3>2. OnlyMutex(p, Root) BY <2>3 DEF LockRoot, OnlyMutex, Holds
    <3>3. \A k \in Job : Holds(p, k)' => job_mutex'[k] = p BY <2>3 DEF LockRoot, Holds
    <3> QED BY <3>1, <3>2, <3>3, OthersOwn
  <2>4. CASE CheckRoot(p)
    <3>1. OnlyMoves(p) BY <2>4 DEF CheckRoot, OnlyMoves
    <3>2. OnlyMutex(p, Root) BY <2>4 DEF CheckRoot, OnlyMutex, Holds
    <3>3. \A k \in Job : Holds(p, k)' => job_mutex'[k] = p BY <2>4 DEF CheckRoot, Holds
    <3> QED BY <3>1, <3>2, <3>3, OthersOwn
  <2>5. CASE EnterRead(p)
    <3>1. OnlyMoves(p) BY <2>5 DEF EnterRead, OnlyMoves
    <3>2. OnlyMutex(p, Root) BY <2>5 DEF EnterRead, OnlyMutex, Holds
    <3>3. \A k \in Job : Holds(p, k)' => job_mutex'[k] = p BY <2>5 DEF EnterRead, Holds
    <3> QED BY <3>1, <3>2, <3>3, OthersOwn
  <2>6. CASE PickJob(p)
    <3>1. OnlyMoves(p) BY <2>6 DEF PickJob, OnlyMoves
    <3>2. OnlyMutex(p, Root) BY <2>6 DEF PickJob, OnlyMutex, Holds
    <3>3. \A k \in Job : Holds(p, k)' => job_mutex'[k] = p BY <2>6 DEF PickJob, Holds
    <3> QED BY <3>1, <3>2, <3>3, OthersOwn
  <2>7. CASE TryJob(p)
    <3>1. OnlyMoves(p) BY <2>7 DEF TryJob, OnlyMoves
    <3>2. OnlyMutex(p, idx[p]) BY <2>7 DEF TryJob, OnlyMutex, Holds
    <3>3. \A k \in Job : Holds(p, k)' => job_mutex'[k] = p BY <2>7 DEF TryJob, Holds
    <3> QED BY <3>1, <3>2, <3>3, OthersOwn
  <2>8. CASE CheckJob(p)
    <3>1. OnlyMoves(p) BY <2>8 DEF CheckJob, OnlyMoves
    <3>2. OnlyMutex(p, idx[p]) BY <2>8 DEF CheckJob, OnlyMutex, Holds
    <3>3. \A k \in Job : Holds(p, k)' => job_mutex'[k] = p BY <2>8 DEF CheckJob, Holds
    <3> QED BY <3>1, <3>2, <3>3, OthersOwn
  <2>9. CASE EnterWrite(p)
    <3>1. OnlyMoves(p) BY <2>9 DEF EnterWrite, OnlyMoves
    <3>2. OnlyMutex(p, Root) BY <2>9 DEF EnterWrite, OnlyMutex, Holds
    <3>3. \A k \in Job : Holds(p, k)' => job_mutex'[k] = p BY <2>9 DEF EnterWrite, Holds
    <3> QED BY <3>1, <3>2, <3>3, OthersOwn
  <2>10. CASE InsertNewJob(p)
    <3>1. OnlyMoves(p) BY <2>10 DEF InsertNewJob, OnlyMoves
    <3>2. OnlyMutex(p, Root) BY <2>10 DEF InsertNewJob, OnlyMutex, Holds
    <3>3. \A k \in Job : Holds(p, k)' => job_mutex'[k] = p BY <2>10 DEF InsertNewJob, Holds
    <3> QED BY <3>1, <3>2, <3>3, OthersOwn
  <2>11. CASE InitMutex(p)
    <3>1. CASE newjob[p] = NoJob
      <4>1. OnlyMoves(p) /\ UNCHANGED job_mutex BY <2>11, <3>1 DEF InitMutex, OnlyMoves
      <4>2. \A k \in Job : Holds(p, k)' => job_mutex'[k] = p BY <2>11, <4>1 DEF InitMutex, Holds
      <4> QED BY <4>1, <4>2, OthersOwn DEF OnlyMutex
    <3>2. CASE newjob[p] # NoJob
      <4>1. \A t \in Thread, k \in Job : Holds(t, k)' => Holds(t, k)
        BY <2>11 DEF InitMutex, Holds
      <4>2. \A t \in Thread : ~Holds(t, newjob[p])
        BY <2>11, <3>2, NobodyHoldsNewJob DEF InitMutex
      <4>3. \A k \in Job : k # newjob[p] => job_mutex'[k] = job_mutex[k]
        BY <2>11, <3>2 DEF InitMutex
      <4> QED BY <4>1, <4>2, <4>3
    <3> QED BY <3>1, <3>2
  <2>12. CASE AttachChild(p)
    <3>0. idx[p] \in Job /\ job_mutex[idx[p]] = p
      BY <2>12 DEF AttachChild, Holds, JInv, Indexed
    <3>1. \A t \in Thread \ {p}, k \in Job : Holds(t, k)' => Holds(t, k) /\ k # idx[p]
      <4> SUFFICES ASSUME NEW t \in Thread \ {p}, NEW k \in Job, Holds(t, k)'
                   PROVE  Holds(t, k) /\ k # idx[p]
        OBVIOUS
      <4>1. pc'[t] = pc[t] /\ UNCHANGED <<idx, kid>>
        BY <2>12 DEF AttachChild
      <4>2. CASE pc[t] = "childheld"
        <5>1. idx[t] \in Job /\ Holds(t, idx[t])
          BY <4>2 DEF Holds, JInv, Indexed
        <5>2. idx[t] # idx[p]
          BY <3>0, <5>1
        <5>3. child_jobs'[idx[t]] = child_jobs[idx[t]]
          BY <2>12, <5>1, <5>2 DEF AttachChild
        <5> QED BY <3>0, <4>1, <4>2, <5>3 DEF Holds
      <4>3. CASE pc[t] # "childheld"
        <5>1. Holds(t, k) BY <4>1, <4>3 DEF Holds
        <5> QED BY <3>0, <5>1
      <4> QED BY <4>2, <4>3
    <3>2. \A k \in Job : Holds(p, k)' => newjob[p] = NoJob /\ k = idx[p]
      BY <2>12 DEF AttachChild, Holds
    <3>3. \A k \in Job : k # idx[p] => job_mutex'[k] = job_mutex[k]
      BY <2>12 DEF AttachChild
    <3>4. newjob[p] = NoJob => UNCHANGED job_mutex
      BY <2>12 DEF AttachChild
    <3> QED BY <3>0, <3>1, <3>2, <3>3, <3>4
  <2> QED BY <1>1, <2>1, <2>2, <2>3, <2>4, <2>5, <2>6, <2>7, <2>8, <2>9, <2>10, <2>11, <2>12 DEF ProducerStep
<1>2. ASSUME NEW c \in Consumer, ConsumerStep(c)
      PROVE  JobMutexOwned'
  <2>1. CASE EnterRead(c)
    <3>1. OnlyMoves(c) BY <2>1 DEF EnterRead, OnlyMoves
    <3>2. OnlyMutex(c, Root) BY <2>1 DEF EnterRead, OnlyMutex, Holds
    <3>3. \A k \in Job : Holds(c, k)' => job_mutex'[k] = c BY <2>1 DEF EnterRead, Holds
    <3> QED BY <3>1, <3>2, <3>3, OthersOwn
  <2>2. CASE TakeSnapshot(c)
    <3>1. OnlyMoves(c) BY <2>2 DEF TakeSnapshot, OnlyMoves
    <3>2. OnlyMutex(c, Root) BY <2>2 DEF TakeSnapshot, OnlyMutex, Holds
    <3>3. \A k \in Job : Holds(c, k)' => job_mutex'[k] = c BY <2>2 DEF TakeSnapshot, Holds
    <3> QED BY <3>1, <3>2, <3>3, OthersOwn
  <2>3. CASE ScanJob(c)
    <3>1. OnlyMoves(c) BY <2>3 DEF ScanJob, OnlyMoves
    <3>2. OnlyMutex(c, idx[c]) BY <2>3 DEF ScanJob, OnlyMutex, Holds
    <3>3. \A k \in Job : Holds(c, k)' => job_mutex'[k] = c BY <2>3 DEF ScanJob, Holds
    <3> QED BY <3>1, <3>2, <3>3, OthersOwn
  <2>4. CASE ExamineJob(c)
    <3>1. OnlyMoves(c) BY <2>4 DEF ExamineJob, OnlyMoves
    <3>2. OnlyMutex(c, idx[c]) BY <2>4 DEF ExamineJob, OnlyMutex, Holds
    <3>3. \A k \in Job : Holds(c, k)' => job_mutex'[k] = c BY <2>4 DEF ExamineJob, Holds
    <3> QED BY <3>1, <3>2, <3>3, OthersOwn
  <2>5. CASE LockChild(c)
    <3>1. OnlyMoves(c) BY <2>5 DEF LockChild, OnlyMoves
    <3>2. OnlyMutex(c, child_jobs[idx[c]][kid[c]]) BY <2>5 DEF LockChild, OnlyMutex, Holds
    <3>3. \A k \in Job : Holds(c, k)' => job_mutex'[k] = c BY <2>5 DEF LockChild, Holds
    <3> QED BY <3>1, <3>2, <3>3, OthersOwn
  <2>6. CASE ReadChild(c)
    <3>1. OnlyMoves(c) BY <2>6 DEF ReadChild, OnlyMoves
    <3>2. OnlyMutex(c, child_jobs[idx[c]][kid[c]]) BY <2>6 DEF ReadChild, OnlyMutex, Holds
    <3>3. \A k \in Job : Holds(c, k)' => job_mutex'[k] = c
      <4>1. idx[c] \in Job /\ idx[c] < child_jobs[idx[c]][kid[c]]
        BY <2>6 DEF ReadChild, JInv, Indexed, Checked, Ordered
      <4>2. \A k \in Job : Holds(c, k)' => k = idx[c]
        BY <2>6 DEF ReadChild, Holds
      <4>3. job_mutex[idx[c]] = c
        BY <2>6, <4>1 DEF ReadChild, Holds
      <4>4. idx[c] # child_jobs[idx[c]][kid[c]]
        BY <4>1 DEF Job
      <4> QED BY <4>1, <4>2, <4>3, <4>4, <2>6 DEF ReadChild
    <3> QED BY <3>1, <3>2, <3>3, OthersOwn
  <2>7. CASE LeaveJob(c)
    <3>1. OnlyMoves(c) BY <2>7 DEF LeaveJob, OnlyMoves
    <3>2. OnlyMutex(c, idx[c]) BY <2>7 DEF LeaveJob, OnlyMutex, Holds
    <3>3. \A k \in Job : Holds(c, k)' => job_mutex'[k] = c BY <2>7 DEF LeaveJob, Holds
    <3> QED BY <3>1, <3>2, <3>3, OthersOwn
  <2>8. CASE StartJob(c)
    <3>1. OnlyMoves(c) BY <2>8 DEF StartJob, OnlyMoves
    <3>2. OnlyMutex(c, idx[c]) BY <2>8 DEF StartJob, OnlyMutex, Holds
    <3>3. \A k \in Job : Holds(c, k)' => job_mutex'[k] = c BY <2>8 DEF StartJob, Holds
    <3> QED BY <3>1, <3>2, <3>3, OthersOwn
  <2>9. CASE LockToFinish(c)
    <3>1. OnlyMoves(c) BY <2>9 DEF LockToFinish, OnlyMoves
    <3>2. OnlyMutex(c, idx[c]) BY <2>9 DEF LockToFinish, OnlyMutex, Holds
    <3>3. \A k \in Job : Holds(c, k)' => job_mutex'[k] = c BY <2>9 DEF LockToFinish, Holds
    <3> QED BY <3>1, <3>2, <3>3, OthersOwn
  <2>10. CASE FinishJob(c)
    <3>1. OnlyMoves(c) BY <2>10 DEF FinishJob, OnlyMoves
    <3>2. OnlyMutex(c, idx[c]) BY <2>10 DEF FinishJob, OnlyMutex, Holds
    <3>3. \A k \in Job : Holds(c, k)' => job_mutex'[k] = c BY <2>10 DEF FinishJob, Holds
    <3> QED BY <3>1, <3>2, <3>3, OthersOwn
  <2>11. CASE EndSweep(c)
    <3>1. OnlyMoves(c) BY <2>11 DEF EndSweep, OnlyMoves
    <3>2. OnlyMutex(c, Root) BY <2>11 DEF EndSweep, OnlyMutex, Holds
    <3>3. \A k \in Job : Holds(c, k)' => job_mutex'[k] = c BY <2>11 DEF EndSweep, Holds
    <3> QED BY <3>1, <3>2, <3>3, OthersOwn
  <2> QED BY <1>2, <2>1, <2>2, <2>3, <2>4, <2>5, <2>6, <2>7, <2>8, <2>9, <2>10, <2>11 DEF ConsumerStep
<1>3. CASE MainStep
  <2>1. \A t \in Thread, k \in Job : Holds(t, k)' => Holds(t, k)
    BY <1>3 DEF MainStep, Fork, ExitB, JoinProducers, Report, Holds
  <2>2. UNCHANGED job_mutex
    BY <1>3 DEF MainStep, Fork, ExitB, JoinProducers, Report
  <2> QED BY <2>1, <2>2
<1>4. CASE UNCHANGED vars
  BY <1>4 DEF vars, Holds
<1> QED BY <1>1, <1>2, <1>3, <1>4 DEF Next, Terminated

-----------------------------------------------------------------------------
\* A complete job stays complete, and only the owner of a job's mutex changes
\* its status or its list of children, at the places named.
LEMMA TreeStable ==
  ASSUME JInv, [Next]_vars
  PROVE  /\ \A k \in Job : status[k] = 2 => status'[k] = 2
         /\ \A u \in Thread, k \in Job : job_mutex[k] = u =>
               /\ status'[k] = status[k] \/ pc'[u] \in {"run", "scan"}
               /\ child_jobs'[k] = child_jobs[k] \/ pc'[u] \in {"time", "crashed"}
<1> DEFINE Goal ==
         /\ \A k \in Job : status[k] = 2 => status'[k] = 2
         /\ \A u \in Thread, k \in Job : job_mutex[k] = u =>
               /\ status'[k] = status[k] \/ pc'[u] \in {"run", "scan"}
               /\ child_jobs'[k] = child_jobs[k] \/ pc'[u] \in {"time", "crashed"}
<1>0. /\ status \in [Job -> {0, 1, 2}] /\ child_jobs \in [Job -> Seq(Job)]
      /\ pc \in [Thread -> ProducerPC \cup ConsumerPC]
      /\ Producer \subseteq Thread /\ Consumer \subseteq Thread
      /\ Fresh /\ JobMutexOwned /\ Indexed /\ Checked /\ OneRunner
  BY JobAssumption DEF JInv, TypeOK
<1>1. CASE UNCHANGED tree
  BY <1>1 DEF tree
<1>2. ASSUME NEW p \in Producer, InsertNewJob(p)
      PROVE  Goal
  <2>1. UNCHANGED child_jobs /\ \A k \in Job : status'[k] = status[k]
    <3>1. CASE count_jobs >= Capacity BY <1>2, <3>1 DEF InsertNewJob
    <3>2. CASE ~(count_jobs >= Capacity)
      <4>1. status' = [status EXCEPT ![count_jobs] = 0] /\ UNCHANGED child_jobs
        BY <1>2, <3>2 DEF InsertNewJob
      <4>2. count_jobs \in Job => status[count_jobs] = 0
        BY <1>0 DEF Fresh, Job
      <4> QED BY <1>0, <4>1, <4>2
    <3> QED BY <3>1, <3>2
  <2> QED BY <2>1
<1>3. ASSUME NEW p \in Producer, AttachChild(p)
      PROVE  Goal
  <2>1. UNCHANGED status /\ \A k \in Job : k # idx[p] => child_jobs'[k] = child_jobs[k]
    BY <1>0, <1>3 DEF AttachChild
  <2>2. pc'[p] \in {"time", "crashed"}
    BY <1>0, <1>3 DEF AttachChild, Goto
  <2>3. job_mutex[idx[p]] = p
    BY <1>0, <1>3 DEF AttachChild, JobMutexOwned, Holds, Indexed
  <2> QED BY <2>1, <2>2, <2>3
<1>4. ASSUME NEW c \in Consumer, StartJob(c) \/ FinishJob(c)
      PROVE  Goal
  <2>1. idx[c] \in Job /\ job_mutex[idx[c]] = c
    BY <1>0, <1>4 DEF StartJob, FinishJob, JobMutexOwned, Holds, Indexed
  <2>2. UNCHANGED child_jobs /\ \A k \in Job : k # idx[c] => status'[k] = status[k]
    BY <1>0, <1>4 DEF StartJob, FinishJob
  <2>3. pc'[c] \in {"run", "scan"}
    BY <1>0, <1>4 DEF StartJob, FinishJob, Goto
  <2>4. status[idx[c]] = 2 => status'[idx[c]] = 2
    <3>1. CASE StartJob(c)
      <4>1. status[idx[c]] = 0 BY <1>0, <3>1 DEF StartJob, Checked
      <4> QED BY <4>1
    <3>2. CASE FinishJob(c) BY <1>0, <2>1, <3>2 DEF FinishJob
    <3> QED BY <1>4, <3>1, <3>2
  <2> QED BY <2>1, <2>2, <2>3, <2>4
<1> QED BY <1>1, <1>2, <1>3, <1>4, TreeFrame

\* The part of Checked that is about thread t.
CheckedAt(t) ==
    /\ t \in Producer /\ pc[t] \in {"write", "init", "attach"} => status[idx[t]] = 0
    /\ t \in Consumer /\ pc[t] \notin {"child", "childheld"} => kid[t] = 1
    /\ t \in Consumer /\ pc[t] \in {"child", "childheld", "giveup"} =>
        /\ status[idx[t]] = 0
        /\ kid[t] <= Len(child_jobs[idx[t]]) + 1
        /\ pc[t] = "childheld" => kid[t] <= Len(child_jobs[idx[t]])
        /\ \A n \in 1 .. kid[t] - 1 : Complete(child_jobs[idx[t]][n])

LEMMA CheckedSplit == Checked <=> \A t \in Thread : CheckedAt(t)
  BY JobAssumption DEF Checked, CheckedAt

\* What a thread has found out survives while it holds the job and does not move.
LEMMA CheckedStays ==
  ASSUME JInv, [Next]_vars, NEW t \in Thread,
         pc'[t] = pc[t], idx'[t] = idx[t], t \in Consumer => kid'[t] = kid[t]
  PROVE  CheckedAt(t)'
<1>1. CheckedAt(t)
  BY CheckedSplit DEF JInv
<1>2. CASE pc[t] \notin {"write", "init", "attach", "child", "childheld", "giveup"}
  BY <1>1, <1>2 DEF CheckedAt
<1>3. CASE pc[t] \in {"write", "init", "attach", "child", "childheld", "giveup"}
  <2>1. idx[t] \in Job /\ job_mutex[idx[t]] = t
    BY <1>3 DEF JInv, Indexed, JobMutexOwned, Holds
  <2>2. status'[idx[t]] = status[idx[t]] /\ child_jobs'[idx[t]] = child_jobs[idx[t]]
    BY <1>3, <2>1, TreeStable
  <2>3. t \in Consumer => kid[t] \in Nat
    BY DEF JInv, TypeOK
  <2>4. ASSUME t \in Consumer, pc[t] \in {"child", "childheld", "giveup"},
               NEW n \in 1 .. kid[t] - 1
        PROVE  Complete(child_jobs[idx[t]][n])'
    <3>1. Complete(child_jobs[idx[t]][n]) /\ n \in 1 .. Len(child_jobs[idx[t]])
      BY <1>1, <2>1, <2>3, <2>4 DEF CheckedAt, JInv, TypeOK
    <3>2. child_jobs[idx[t]][n] \in Job
      BY <2>1, <3>1 DEF JInv, TypeOK
    <3> QED BY <2>2, <3>1, <3>2, TreeStable DEF Complete
  <2> QED BY <1>1, <2>2, <2>4 DEF CheckedAt
<1> QED BY <1>2, <1>3

\* What a thread finds out about the job it holds is kept up to date.
LEMMA CheckedStep ==
  ASSUME JInv, [Next]_vars
  PROVE  \A t \in Thread : CheckedAt(t)'
<1>0. /\ JInv /\ Checked /\ Indexed /\ JobMutexOwned /\ Unborn
      /\ pc \in [Thread -> ProducerPC \cup ConsumerPC] /\ idx \in [Thread -> Job \cup {NoJob}]
      /\ kid \in [Consumer -> Nat \ {0}] /\ child_jobs \in [Job -> Seq(Job)]
      /\ (\A p \in Producer : pc[p] \in ProducerPC) /\ \A c \in Consumer : pc[c] \in ConsumerPC
  BY DEF JInv, TypeOK
<1> USE JobAssumption, <1>0 DEF Checked, Goto, queue, locals, regs, procs, tree
<1>1. ASSUME NEW p \in Producer, ProducerStep(p)
      PROVE  \A t \in Thread : CheckedAt(t)'
  <2>1. CASE TimeOver(p)
    <3>1. \A t \in Thread \ {p} : pc'[t] = pc[t] /\ idx'[t] = idx[t] /\ (t \in Consumer => kid'[t] = kid[t])
      BY <2>1 DEF TimeOver
    <3>2. CheckedAt(p)' BY <2>1 DEF TimeOver, CheckedAt
    <3> QED BY <3>1, <3>2, CheckedStays
  <2>2. CASE StartRound(p)
    <3>1. \A t \in Thread \ {p} : pc'[t] = pc[t] /\ idx'[t] = idx[t] /\ (t \in Consumer => kid'[t] = kid[t])
      BY <2>2 DEF StartRound
    <3>2. CheckedAt(p)' BY <2>2 DEF StartRound, CheckedAt
    <3> QED BY <3>1, <3>2, CheckedStays
  <2>3. CASE LockRoot(p)
    <3>1. \A t \in Thread \ {p} : pc'[t] = pc[t] /\ idx'[t] = idx[t] /\ (t \in Consumer => kid'[t] = kid[t])
      BY <2>3 DEF LockRoot
    <3>2. CheckedAt(p)' BY <2>3 DEF LockRoot, CheckedAt
    <3> QED BY <3>1, <3>2, CheckedStays
  <2>4. CASE CheckRoot(p)
    <3>1. \A t \in Thread \ {p} : pc'[t] = pc[t] /\ idx'[t] = idx[t] /\ (t \in Consumer => kid'[t] = kid[t])
      BY <2>4 DEF CheckRoot
    <3>2. CheckedAt(p)' BY <2>4 DEF CheckRoot, CheckedAt
    <3> QED BY <3>1, <3>2, CheckedStays
  <2>5. CASE EnterRead(p)
    <3>1. UNCHANGED <<pc, idx, kid>> BY <2>5 DEF EnterRead
    <3> QED BY <3>1, CheckedStays
  <2>6. CASE PickJob(p)
    <3>1. \A t \in Thread \ {p} : pc'[t] = pc[t] /\ idx'[t] = idx[t] /\ (t \in Consumer => kid'[t] = kid[t])
      BY <2>6 DEF PickJob
    <3>2. CheckedAt(p)' BY <2>6 DEF PickJob, CheckedAt
    <3> QED BY <3>1, <3>2, CheckedStays
  <2>7. CASE TryJob(p)
    <3>1. \A t \in Thread \ {p} : pc'[t] = pc[t] /\ idx'[t] = idx[t] /\ (t \in Consumer => kid'[t] = kid[t])
      BY <2>7 DEF TryJob
    <3>2. CheckedAt(p)' BY <2>7 DEF TryJob, CheckedAt
    <3> QED BY <3>1, <3>2, CheckedStays
  <2>8. CASE CheckJob(p)
    <3>1. \A t \in Thread \ {p} : pc'[t] = pc[t] /\ idx'[t] = idx[t] /\ (t \in Consumer => kid'[t] = kid[t])
      BY <2>8 DEF CheckJob
    <3>2. CheckedAt(p)' BY <2>8 DEF CheckJob, CheckedAt
    <3> QED BY <3>1, <3>2, CheckedStays
  <2>9. CASE EnterWrite(p)
    <3>1. UNCHANGED <<pc, idx, kid>> BY <2>9 DEF EnterWrite
    <3> QED BY <3>1, CheckedStays
  <2>10. CASE InsertNewJob(p)
    <3>1. \A t \in Thread \ {p} : pc'[t] = pc[t] /\ idx'[t] = idx[t] /\ (t \in Consumer => kid'[t] = kid[t])
      BY <2>10 DEF InsertNewJob
    <3>2. CheckedAt(p)'
      <4>1. status[idx[p]] = 0 /\ idx[p] \in Job /\ job_mutex[idx[p]] = p
        BY <2>10 DEF InsertNewJob, Checked, Indexed, JobMutexOwned, Holds
      <4>2. pc'[p] \in {"init", "attach"} /\ idx'[p] = idx[p]
        BY <2>10 DEF InsertNewJob
      <4>3. status'[idx[p]] = 0
        BY <4>1, <4>2, TreeStable
      <4> QED BY <4>2, <4>3 DEF CheckedAt
    <3> QED BY <3>1, <3>2, CheckedStays
  <2>11. CASE InitMutex(p)
    <3>1. \A t \in Thread \ {p} : pc'[t] = pc[t] /\ idx'[t] = idx[t] /\ (t \in Consumer => kid'[t] = kid[t])
      BY <2>11 DEF InitMutex
    <3>2. CheckedAt(p)'
      <4>1. status[idx[p]] = 0 /\ idx[p] \in Job /\ job_mutex[idx[p]] = p
        BY <2>11 DEF InitMutex, Checked, Indexed, JobMutexOwned, Holds
      <4>2. pc'[p] \in {"init", "attach"} /\ idx'[p] = idx[p]
        BY <2>11 DEF InitMutex
      <4>3. status'[idx[p]] = 0
        BY <4>1, <4>2, TreeStable
      <4> QED BY <4>2, <4>3 DEF CheckedAt
    <3> QED BY <3>1, <3>2, CheckedStays
  <2>12. CASE AttachChild(p)
    <3>1. \A t \in Thread \ {p} : pc'[t] = pc[t] /\ idx'[t] = idx[t] /\ (t \in Consumer => kid'[t] = kid[t])
      BY <2>12 DEF AttachChild
    <3>2. CheckedAt(p)' BY <2>12 DEF AttachChild, CheckedAt
    <3> QED BY <3>1, <3>2, CheckedStays
  <2> QED BY <1>1, <2>1, <2>2, <2>3, <2>4, <2>5, <2>6, <2>7, <2>8, <2>9, <2>10, <2>11, <2>12 DEF ProducerStep
<1>2. ASSUME NEW c \in Consumer, ConsumerStep(c)
      PROVE  \A t \in Thread : CheckedAt(t)'
  <2>1. CASE EnterRead(c)
    <3>1. UNCHANGED <<pc, idx, kid>> BY <2>1 DEF EnterRead
    <3> QED BY <3>1, CheckedStays
  <2>2. CASE TakeSnapshot(c)
    <3>1. \A t \in Thread \ {c} : pc'[t] = pc[t] /\ idx'[t] = idx[t] /\ (t \in Consumer => kid'[t] = kid[t])
      BY <2>2 DEF TakeSnapshot
    <3>2. CheckedAt(c)' BY <2>2 DEF TakeSnapshot, CheckedAt
    <3> QED BY <3>1, <3>2, CheckedStays
  <2>3. CASE ScanJob(c)
    <3>1. \A t \in Thread \ {c} : pc'[t] = pc[t] /\ idx'[t] = idx[t] /\ (t \in Consumer => kid'[t] = kid[t])
      BY <2>3 DEF ScanJob
    <3>2. CheckedAt(c)' BY <2>3 DEF ScanJob, CheckedAt
    <3> QED BY <3>1, <3>2, CheckedStays
  <2>4. CASE ExamineJob(c)
    <3>1. \A t \in Thread \ {c} : pc'[t] = pc[t] /\ idx'[t] = idx[t] /\ (t \in Consumer => kid'[t] = kid[t])
      BY <2>4 DEF ExamineJob
    <3>2. CheckedAt(c)' BY <2>4 DEF ExamineJob, CheckedAt
    <3> QED BY <3>1, <3>2, CheckedStays
  <2>5. CASE LockChild(c)
    <3>1. \A t \in Thread \ {c} : pc'[t] = pc[t] /\ idx'[t] = idx[t] /\ (t \in Consumer => kid'[t] = kid[t])
      BY <2>5 DEF LockChild
    <3>2. CheckedAt(c)'
      <4>1. UNCHANGED <<status, child_jobs, idx, kid>>
            /\ pc[c] = "child" /\ pc'[c] = "childheld" /\ kid[c] <= Len(child_jobs[idx[c]])
        BY <2>5 DEF LockChild
      <4>2. CheckedAt(c)
        BY CheckedSplit
      <4> QED BY ONLY JobAssumption, <4>1, <4>2 DEF CheckedAt, Complete
    <3> QED BY <3>1, <3>2, CheckedStays
  <2>6. CASE ReadChild(c)
    <3>1. \A t \in Thread \ {c} : pc'[t] = pc[t] /\ idx'[t] = idx[t] /\ (t \in Consumer => kid'[t] = kid[t])
      BY <2>6 DEF ReadChild
    <3>2. CheckedAt(c)'
      <4>1. UNCHANGED <<status, child_jobs, idx>> /\ pc[c] = "childheld"
        BY <2>6 DEF ReadChild
      <4>2. CheckedAt(c)
        BY CheckedSplit
      <4>3. CASE status[child_jobs[idx[c]][kid[c]]] = 2
        <5>1. pc'[c] = "child" /\ kid'[c] = kid[c] + 1
          BY <2>6, <4>3 DEF ReadChild
        <5>2. idx[c] \in Job /\ kid[c] \in Nat \ {0} /\ Len(child_jobs[idx[c]]) \in Nat
          BY <4>1 DEF Indexed
        <5>3. ASSUME NEW n \in 1 .. kid[c]
              PROVE  Complete(child_jobs[idx[c]][n])
          <6>1. n = kid[c] \/ n \in 1 .. kid[c] - 1
            BY <5>2, <5>3
          <6> QED BY ONLY <6>1, <4>1, <4>2, <4>3, JobAssumption DEF CheckedAt, Complete
        <5>4. kid[c] <= Len(child_jobs[idx[c]]) /\ status[idx[c]] = 0
          BY ONLY <4>1, <4>2, JobAssumption DEF CheckedAt
        <5>5. kid'[c] - 1 = kid[c] /\ kid'[c] <= Len(child_jobs[idx[c]]) + 1
          BY ONLY <5>1, <5>2, <5>4
        <5>6. \A n \in 1 .. kid'[c] - 1 : Complete(child_jobs[idx[c]][n])'
          BY ONLY <4>1, <5>3, <5>5 DEF Complete
        <5> QED BY ONLY <4>1, <5>1, <5>4, <5>5, <5>6, JobAssumption DEF CheckedAt
      <4>4. CASE status[child_jobs[idx[c]][kid[c]]] # 2
        <5>1. pc'[c] = "giveup" /\ kid'[c] = 1
          BY <2>6, <4>4 DEF ReadChild
        <5>2. idx[c] \in Job /\ Len(child_jobs[idx[c]]) \in Nat
          BY <4>1 DEF Indexed
        <5>3. status[idx[c]] = 0
          BY ONLY <4>1, <4>2, JobAssumption DEF CheckedAt
        <5> QED BY ONLY <4>1, <5>1, <5>2, <5>3, JobAssumption DEF CheckedAt
      <4> QED BY <4>3, <4>4
    <3> QED BY <3>1, <3>2, CheckedStays
  <2>7. CASE LeaveJob(c)
    <3>1. \A t \in Thread \ {c} : pc'[t] = pc[t] /\ idx'[t] = idx[t] /\ (t \in Consumer => kid'[t] = kid[t])
      BY <2>7 DEF LeaveJob
    <3>2. CheckedAt(c)' BY <2>7 DEF LeaveJob, CheckedAt
    <3> QED BY <3>1, <3>2, CheckedStays
  <2>8. CASE StartJob(c)
    <3>1. \A t \in Thread \ {c} : pc'[t] = pc[t] /\ idx'[t] = idx[t] /\ (t \in Consumer => kid'[t] = kid[t])
      BY <2>8 DEF StartJob
    <3>2. CheckedAt(c)' BY <2>8 DEF StartJob, CheckedAt
    <3> QED BY <3>1, <3>2, CheckedStays
  <2>9. CASE LockToFinish(c)
    <3>1. \A t \in Thread \ {c} : pc'[t] = pc[t] /\ idx'[t] = idx[t] /\ (t \in Consumer => kid'[t] = kid[t])
      BY <2>9 DEF LockToFinish
    <3>2. CheckedAt(c)' BY <2>9 DEF LockToFinish, CheckedAt
    <3> QED BY <3>1, <3>2, CheckedStays
  <2>10. CASE FinishJob(c)
    <3>1. \A t \in Thread \ {c} : pc'[t] = pc[t] /\ idx'[t] = idx[t] /\ (t \in Consumer => kid'[t] = kid[t])
      BY <2>10 DEF FinishJob
    <3>2. CheckedAt(c)' BY <2>10 DEF FinishJob, CheckedAt
    <3> QED BY <3>1, <3>2, CheckedStays
  <2>11. CASE EndSweep(c)
    <3>1. \A t \in Thread \ {c} : pc'[t] = pc[t] /\ idx'[t] = idx[t] /\ (t \in Consumer => kid'[t] = kid[t])
      BY <2>11 DEF EndSweep
    <3>2. CheckedAt(c)' BY <2>11 DEF EndSweep, CheckedAt
    <3> QED BY <3>1, <3>2, CheckedStays
  <2> QED BY <1>2, <2>1, <2>2, <2>3, <2>4, <2>5, <2>6, <2>7, <2>8, <2>9, <2>10, <2>11 DEF ConsumerStep
<1>3. CASE MainStep
  <2>1. CASE Fork
    <3>1. UNCHANGED <<status, child_jobs, idx, kid>>
          /\ (\A p \in Producer : pc'[p] = pc[p]) /\ \A c \in Consumer : pc'[c] = "read"
      BY <2>1 DEF Fork
    <3>2. \A c \in Consumer : kid[c] = 1
      BY <2>1 DEF Fork, Unborn
    <3> QED BY <3>1, <3>2, CheckedSplit DEF CheckedAt, Complete
  <2>2. CASE ExitB \/ JoinProducers \/ Report
    <3>1. UNCHANGED <<pc, idx, kid>> BY <2>2 DEF ExitB, JoinProducers, Report
    <3> QED BY <3>1, CheckedStays
  <2> QED BY <1>3, <2>1, <2>2 DEF MainStep
<1>4. CASE UNCHANGED vars
  BY <1>4, CheckedStays DEF vars
<1> QED BY <1>1, <1>2, <1>3, <1>4 DEF Next, Terminated

-----------------------------------------------------------------------------
\* OneRunner is kept when no status changes and no consumer starts or finishes.
LEMMA OneRunnerStays ==
  ASSUME OneRunner,
         \A i \in Job : status'[i] = status[i],
         \A c \in Consumer, i \in Job : Runs(c, i)' <=> Runs(c, i)
  PROVE  OneRunner'
  BY DEF OneRunner

\* A job has one runner: only a job that waits is started.
LEMMA OneRunnerStep ==
  ASSUME JInv, [Next]_vars
  PROVE  OneRunner'
<1>0. /\ OneRunner /\ Checked /\ Indexed /\ Fresh
      /\ pc \in [Thread -> ProducerPC \cup ConsumerPC] /\ idx \in [Thread -> Job \cup {NoJob}]
      /\ status \in [Job -> {0, 1, 2}]
  BY DEF JInv, TypeOK
<1> USE JobAssumption DEF Goto, queue, locals, regs, procs, tree
<1>1. ASSUME NEW p \in Producer, ProducerStep(p)
      PROVE  OneRunner'
  <2>1. \A c \in Consumer : pc'[c] = pc[c] /\ idx'[c] = idx[c]
    BY <1>0, <1>1 DEF ProducerStep, TimeOver, StartRound, LockRoot, CheckRoot, EnterRead,
       PickJob, TryJob, CheckJob, EnterWrite, InsertNewJob, InitMutex, AttachChild
  <2>2. UNCHANGED status \/ InsertNewJob(p)
    BY <1>1 DEF ProducerStep, TimeOver, StartRound, LockRoot, CheckRoot, EnterRead,
       PickJob, TryJob, CheckJob, EnterWrite, InitMutex, AttachChild
  <2>3. \A i \in Job : status'[i] = status[i]
    <3>1. CASE InsertNewJob(p)
      BY <1>0, <3>1 DEF InsertNewJob, Fresh, JInv, TypeOK, Job
    <3> QED BY <2>2, <3>1
  <2> QED BY ONLY <1>0, <2>1, <2>3, OneRunnerStays DEF Runs
<1>2. ASSUME NEW c \in Consumer, ConsumerStep(c)
      PROVE  OneRunner'
  <2>0. \A d \in Consumer \ {c} : pc'[d] = pc[d] /\ idx'[d] = idx[d]
    BY <1>0, <1>2 DEF ConsumerStep, EnterRead, TakeSnapshot, ScanJob, ExamineJob, LockChild,
       ReadChild, LeaveJob, StartJob, LockToFinish, FinishJob, EndSweep
  <2>1. CASE StartJob(c)
    <3>1. /\ pc[c] = "child" /\ pc'[c] = "run" /\ idx'[c] = idx[c]
          /\ status' = [status EXCEPT ![idx[c]] = 1]
      BY <1>0, <2>1 DEF StartJob
    <3>2. idx[c] \in Job /\ status[idx[c]] = 0
      BY <1>0, <3>1 DEF Indexed, Checked
    <3>3. \A d \in Consumer : ~Runs(d, idx[c])
      BY <1>0, <3>2 DEF OneRunner
    <3>4. \A i \in Job : status'[i] = IF i = idx[c] THEN 1 ELSE status[i]
      BY <1>0, <3>1
    <3>5. \A d \in Consumer, i \in Job :
              Runs(d, i)' <=> (Runs(d, i) \/ (d = c /\ i = idx[c]))
      BY ONLY <2>0, <3>1 DEF Runs
    <3> QED BY ONLY <1>0, <3>2, <3>3, <3>4, <3>5 DEF OneRunner
  <2>2. CASE FinishJob(c)
    <3>1. /\ pc[c] = "finish" /\ pc'[c] = "scan"
          /\ status' = [status EXCEPT ![idx[c]] = 2]
      BY <1>0, <2>2 DEF FinishJob
    <3>2. idx[c] \in Job /\ Runs(c, idx[c])
      BY <1>0, <3>1 DEF Indexed, Runs
    <3>3. \A d \in Consumer : Runs(d, idx[c]) => d = c
      BY <1>0, <3>2 DEF OneRunner
    <3>4. \A i \in Job : status'[i] = IF i = idx[c] THEN 2 ELSE status[i]
      BY <1>0, <3>1
    <3>5. \A d \in Consumer, i \in Job : Runs(d, i)' <=> Runs(d, i) /\ d # c
      BY ONLY <2>0, <3>1 DEF Runs
    <3>6. \A i \in Job : Runs(c, i) => i = idx[c]
      BY DEF Runs
    <3> QED BY ONLY <1>0, <3>2, <3>3, <3>4, <3>5, <3>6 DEF OneRunner
  <2>3. CASE LockToFinish(c)
    <3>1. UNCHANGED <<status, idx>> /\ pc[c] = "run" /\ pc'[c] = "finish"
      BY <1>0, <2>3 DEF LockToFinish
    <3> QED BY ONLY <1>0, <2>0, <3>1, OneRunnerStays DEF Runs
  <2>4. CASE ~StartJob(c) /\ ~FinishJob(c) /\ ~LockToFinish(c)
    <3>1. UNCHANGED status /\ pc[c] \notin {"run", "finish"} /\ pc'[c] \notin {"run", "finish"}
      BY <1>0, <1>2, <2>4 DEF ConsumerStep, EnterRead, TakeSnapshot, ScanJob, ExamineJob,
         LockChild, ReadChild, LeaveJob, EndSweep
    <3> QED BY ONLY <1>0, <2>0, <3>1, OneRunnerStays DEF Runs
  <2> QED BY <2>1, <2>2, <2>3, <2>4
<1>3. CASE MainStep
  <2>1. UNCHANGED <<status, idx>>
    BY <1>3 DEF MainStep, Fork, ExitB, JoinProducers, Report
  <2>2. \A c \in Consumer : pc'[c] = pc[c] \/ (pc[c] = "unborn" /\ pc'[c] = "read")
    <3>1. CASE Fork
      <4>1. \A c \in Consumer : pc[c] = "unborn" BY <3>1 DEF JInv, Unborn, Fork
      <4>2. \A c \in Consumer : pc'[c] = "read" BY <3>1 DEF Fork
      <4> QED BY <4>1, <4>2
    <3>2. CASE ExitB \/ JoinProducers \/ Report
      BY <3>2 DEF ExitB, JoinProducers, Report
    <3> QED BY <1>3, <3>1, <3>2 DEF MainStep
  <2> QED BY ONLY <1>0, <2>1, <2>2, OneRunnerStays DEF Runs
<1>4. CASE UNCHANGED vars
  BY <1>0, <1>4, OneRunnerStays DEF vars, Runs
<1> QED BY <1>1, <1>2, <1>3, <1>4 DEF Next, Terminated

-----------------------------------------------------------------------------
(* The abstract tree.                                                      *)

\* The abstract invariant is kept by the abstract steps.
LEMMA TreeInvStep ==
  ASSUME T!TreeInv, [T!TreeNext]_(T!treevars)
  PROVE  T!TreeInv'
<1>0. /\ count_jobs \in InitJobs .. Capacity /\ InitJobs \in Nat /\ Capacity \in Nat
      /\ InitJobs >= 1
      /\ status \in [Job -> {0, 1, 2}] /\ Kids \in [Job -> SUBSET (0 .. count_jobs - 1)]
      /\ T!Job = Job
  BY JobAssumption DEF T!TreeInv, T!TreeTypeOK, T!Job, T!Made, Job
<1>1. /\ \A i \in Job : status[i] # 0 => \A k \in Kids[i] : status[k] = 2
      /\ \A k \in (0 .. count_jobs - 1) \ {0} : \E i \in 0 .. k - 1 : k \in Kids[i]
  BY <1>0 DEF T!TreeInv, T!ChildrenFirst, T!Rooted, T!Made, T!Root
<1>2. ASSUME NEW i \in 0 .. count_jobs - 1, T!Add(i)
      PROVE  T!TreeInv'
  <2>1. /\ count_jobs < Capacity /\ status[i] = 0 /\ count_jobs' = count_jobs + 1
        /\ UNCHANGED status
        /\ Kids' = [Kids EXCEPT ![i] = @ \cup {count_jobs}]
    BY <1>2 DEF T!Add
  <2>2. i \in Job /\ \A k \in Job : Kids'[k] = IF k = i THEN Kids[k] \cup {count_jobs} ELSE Kids[k]
    <3>1. i \in Job
      BY ONLY <1>0, i \in 0 .. count_jobs - 1 DEF Job
    <3> QED BY ONLY <1>0, <2>1, <3>1
  <2>3. T!TreeTypeOK'
    <3>1. Kids' \in [Job -> SUBSET (0 .. count_jobs)]
      BY ONLY <1>0, <2>1, <2>2
    <3>2. 0 .. count_jobs' - 1 = 0 .. count_jobs /\ count_jobs' \in InitJobs .. Capacity
      BY ONLY <1>0, <2>1
    <3> QED BY ONLY <1>0, <2>1, <3>1, <3>2 DEF T!TreeTypeOK, T!Made, T!Job, Job
  <2>4. T!ChildrenFirst'
    BY ONLY <1>0, <1>1, <2>1, <2>2 DEF T!ChildrenFirst, T!Job, Job
  <2>5. T!Rooted'
    <3>1. ASSUME NEW k \in (0 .. count_jobs) \ {0}
          PROVE  \E j \in 0 .. k - 1 : k \in Kids'[j]
      <4>1. CASE k = count_jobs
        BY ONLY <1>0, <2>2, <4>1, i \in 0 .. count_jobs - 1
      <4>2. CASE k # count_jobs
        <5>1. k \in (0 .. count_jobs - 1) \ {0}
          BY ONLY <1>0, <3>1, <4>2
        <5>2. PICK j \in 0 .. k - 1 : k \in Kids[j]
          BY ONLY <1>1, <5>1
        <5>3. j \in Job
          BY ONLY <1>0, <5>1, <5>2, j \in 0 .. k - 1 DEF Job
        <5> QED BY ONLY <2>2, <5>2, <5>3, j \in 0 .. k - 1
      <4> QED BY <4>1, <4>2
    <3>2. 0 .. count_jobs' - 1 = 0 .. count_jobs
      BY ONLY <1>0, <2>1
    <3> QED BY ONLY <3>1, <3>2 DEF T!Rooted, T!Made, T!Root
  <2> QED BY <2>3, <2>4, <2>5 DEF T!TreeInv
<1>3. ASSUME NEW i \in 0 .. count_jobs - 1, T!Start(i) \/ T!Finish(i)
      PROVE  T!TreeInv'
  <2>1. /\ UNCHANGED <<count_jobs, Kids>>
        /\ status' = [status EXCEPT ![i] = 1] \/ status' = [status EXCEPT ![i] = 2]
        /\ status[i] = 0 => \A k \in Kids[i] : status[k] = 2
        /\ status[i] # 2
    BY <1>3 DEF T!Start, T!Finish
  <2>2. i \in Job
    BY ONLY <1>0, i \in 0 .. count_jobs - 1 DEF Job
  <2>3. \A k \in Job : k # i => status'[k] = status[k]
    BY ONLY <1>0, <2>1, <2>2
  <2>4. \A j \in Job : \A k \in Kids[j] : k \in Job
    BY ONLY <1>0 DEF Job
  <2>5. \A k \in Job : status[k] = 2 => status'[k] = 2
    BY ONLY <2>1, <2>3
  <2>6. T!ChildrenFirst'
    BY ONLY <1>0, <1>1, <2>1, <2>2, <2>3, <2>4, <2>5 DEF T!ChildrenFirst
  <2>7. T!TreeTypeOK'
    BY ONLY <1>0, <2>1 DEF T!TreeTypeOK, T!Made, T!Job, Job
  <2>8. T!Rooted'
    BY ONLY <1>1, <2>1 DEF T!Rooted, T!Made, T!Root
  <2> QED BY <2>6, <2>7, <2>8 DEF T!TreeInv
<1>4. CASE UNCHANGED T!treevars
  BY <1>4 DEF T!treevars, T!TreeInv, T!TreeTypeOK, T!ChildrenFirst, T!Rooted, T!Made, T!Job
<1> QED BY <1>2, <1>3, <1>4 DEF T!TreeNext, T!Made

\* With the abstract invariant the root runs last.
LEMMA RootRunsLast ==
  ASSUME T!TreeInv
  PROVE  T!RootLast
<1> SUFFICES ASSUME status[0] # 0,
                    NEW k \in (0 .. count_jobs - 1) \ {0}, status[k] # 2
             PROVE  FALSE
  BY DEF T!RootLast, T!Made, T!Root
<1> DEFINE Undone == {m \in (0 .. count_jobs - 1) \ {0} : status[m] # 2}
<1>0. count_jobs \in Nat /\ count_jobs <= Capacity /\ Capacity \in Nat
  BY JobAssumption DEF T!TreeInv, T!TreeTypeOK
<1>1. PICK m \in Undone : \A j \in Undone : ~(j < m)
  <2>1. Undone \subseteq Nat /\ k \in Undone
    BY <1>0
  <2>2. PICK m \in Undone : \A j \in Undone : ~(<<j, m>> \in OpToRel(<, Nat))
    BY <2>1, NatLessThanWellFounded, WFMin
  <2> QED BY <2>1, <2>2 DEF OpToRel
<1>2. PICK i \in 0 .. m - 1 : m \in Kids[i]
  BY <1>1 DEF T!TreeInv, T!Rooted, T!Made, T!Root
<1>3. i \in Job /\ i \notin Undone
  BY <1>0, <1>1, <1>2 DEF Job
<1>4. status[i] # 0
  BY <1>0, <1>1, <1>2, <1>3
<1> QED BY <1>1, <1>2, <1>3, <1>4 DEF T!TreeInv, T!ChildrenFirst, T!Job, Job

-----------------------------------------------------------------------------
(* The queue implements the abstract tree.                                 *)

LEMMA KidsMember ==
  \A i \in Job : \A k : k \in Kids[i] <=>
      \/ \E n \in 1 .. Len(child_jobs[i]) : k = child_jobs[i][n]
      \/ \E p \in Producer : Pending(p, i) /\ k = newjob[p]
  BY DEF Kids, Children

\* The children of a job stay the same while its list and the pending jobs do.
LEMMA KidsFrame ==
  ASSUME UNCHANGED child_jobs,
         \A p \in Producer, i \in Job :
            /\ Pending(p, i)' <=> Pending(p, i)
            /\ Pending(p, i) => newjob'[p] = newjob[p]
  PROVE  UNCHANGED Kids
<1>1. ASSUME NEW i \in Job
      PROVE  /\ Children(i)' = Children(i)
             /\ {newjob[p] : p \in {q \in Producer : Pending(q, i)}}'
                  = {newjob[p] : p \in {q \in Producer : Pending(q, i)}}
  <2>1. Children(i)' = Children(i)
    BY DEF Children
  <2>2. {q \in Producer : Pending(q, i)}' = {q \in Producer : Pending(q, i)}
    OBVIOUS
  <2>3. \A p \in {q \in Producer : Pending(q, i)} : newjob'[p] = newjob[p]
    OBVIOUS
  <2> QED BY <2>1, <2>2, <2>3
<1> QED BY <1>1 DEF Kids

\* A producer that stays away from its new job keeps the children as they are.
LEMMA KidsAway ==
  ASSUME UNCHANGED child_jobs, NEW p \in Producer,
         \A q \in Producer \ {p} : pc'[q] = pc[q] /\ idx'[q] = idx[q] /\ newjob'[q] = newjob[q],
         \A i \in Job : Pending(p, i)' <=> Pending(p, i),
         \A i \in Job : Pending(p, i) => newjob'[p] = newjob[p]
  PROVE  UNCHANGED Kids
<1>1. \A q \in Producer \ {p}, i \in Job : Pending(q, i)' <=> Pending(q, i)
  BY DEF Pending
<1> QED BY <1>1, KidsFrame

\* Inserting a job adds it to the children of the job its producer holds.
LEMMA InsertIsAdd ==
  ASSUME JInv, NEW p \in Producer, InsertNewJob(p)
  PROVE  (\E i \in 0 .. count_jobs - 1 : T!Add(i)) \/ UNCHANGED T!treevars
<1>0. /\ pc \in [Thread -> ProducerPC \cup ConsumerPC] /\ idx \in [Thread -> Job \cup {NoJob}]
      /\ newjob \in [Producer -> Job \cup {NoJob}] /\ status \in [Job -> {0, 1, 2}]
      /\ count_jobs \in InitJobs .. Capacity /\ Fresh /\ Ordered /\ Indexed /\ Checked
  BY DEF JInv, TypeOK
<1> USE JobAssumption
<1>1. /\ pc[p] = "write" /\ pc'[p] = "init" /\ UNCHANGED <<idx, child_jobs>>
      /\ \A q \in Producer \ {p} : pc'[q] = pc[q] /\ newjob'[q] = newjob[q]
  BY <1>0 DEF InsertNewJob, Goto
<1>2. idx[p] \in 0 .. count_jobs - 1 /\ idx[p] \in Job /\ status[idx[p]] = 0
  <2>1. idx[p] \in Job /\ status[idx[p]] = 0 /\ idx[p] < count_jobs
    BY <1>0, <1>1 DEF Indexed, Checked, Ordered
  <2> QED BY <1>0, <2>1 DEF Job
<1>3. CASE count_jobs >= Capacity
  <2>1. newjob'[p] = NoJob /\ UNCHANGED <<count_jobs, status>>
    BY <1>0, <1>3 DEF InsertNewJob
  <2>2. UNCHANGED Kids
    BY ONLY <1>1, <2>1, KidsAway, p \in Producer DEF Pending
  <2> QED BY <2>1, <2>2 DEF T!treevars
<1>4. CASE ~(count_jobs >= Capacity)
  <2>1. /\ newjob'[p] = count_jobs /\ count_jobs' = count_jobs + 1
        /\ status' = [status EXCEPT ![count_jobs] = 0]
    BY <1>0, <1>4 DEF InsertNewJob
  <2>2. count_jobs \in Job /\ count_jobs # NoJob /\ count_jobs < Capacity
    BY <1>0, <1>4 DEF Job, NoJob
  <2>3. UNCHANGED status
    BY <1>0, <2>1, <2>2 DEF Fresh
  <2>4. \A q \in Producer, i \in Job :
            Pending(q, i)' <=> (Pending(q, i) \/ (q = p /\ i = idx[p]))
    BY ONLY <1>1, <2>1, <2>2 DEF Pending
  <2>5. ASSUME NEW i \in Job
        PROVE  Kids'[i] = IF i = idx[p] THEN Kids[i] \cup {count_jobs} ELSE Kids[i]
    <3>1. \A k : k \in Kids'[i] <=> (k \in Kids[i] \/ (i = idx[p] /\ k = count_jobs))
      <4>1. TAKE k
      <4>2. k \in Kids'[i] <=>
              \/ \E n \in 1 .. Len(child_jobs[i]) : k = child_jobs[i][n]
              \/ \E q \in Producer : Pending(q, i)' /\ k = newjob'[q]
        BY <1>1 DEF Kids, Children
      <4>3. ~Pending(p, i)
        BY <1>1 DEF Pending
      <4> QED BY <1>1, <2>1, <2>4, <4>2, <4>3, KidsMember
    <3>2. Kids'[i] = Children(i)' \cup {newjob'[q] : q \in {r \in Producer : Pending(r, i)'}}
      BY DEF Kids
    <3>3. Kids[i] = Children(i) \cup {newjob[q] : q \in {r \in Producer : Pending(r, i)}}
      BY DEF Kids
    <3> QED BY <3>1, <3>2, <3>3
  <2>6. Kids' = [Kids EXCEPT ![idx[p]] = @ \cup {count_jobs}]
    <3>1. Kids = [i \in Job |-> Kids[i]] /\ Kids' = [i \in Job |-> Kids'[i]]
      BY DEF Kids
    <3> QED BY ONLY <1>2, <2>5, <3>1
  <2>7. T!Add(idx[p])
    BY <1>2, <2>1, <2>2, <2>3, <2>6 DEF T!Add
  <2> QED BY <1>2, <2>7
<1> QED BY <1>3, <1>4

\* Attaching it changes nothing in the abstract tree.
LEMMA AttachIsStutter ==
  ASSUME JInv, NEW p \in Producer, AttachChild(p)
  PROVE  UNCHANGED T!treevars
<1>0. /\ pc \in [Thread -> ProducerPC \cup ConsumerPC] /\ idx \in [Thread -> Job \cup {NoJob}]
      /\ newjob \in [Producer -> Job \cup {NoJob}] /\ child_jobs \in [Job -> Seq(Job)]
      /\ Indexed
  BY DEF JInv, TypeOK
<1> USE JobAssumption
<1>1. /\ pc[p] = "attach" /\ pc'[p] \in {"time", "crashed"}
      /\ UNCHANGED <<idx, newjob, count_jobs, status>>
      /\ \A q \in Producer \ {p} : pc'[q] = pc[q]
  BY <1>0 DEF AttachChild, Goto
<1>2. idx[p] \in Job
  BY <1>0, <1>1 DEF Indexed
<1>3. CASE newjob[p] = NoJob
  <2>1. UNCHANGED child_jobs
    BY <1>3 DEF AttachChild
  <2>2. \A i \in Job : ~Pending(p, i) /\ ~Pending(p, i)'
    BY ONLY <1>1, <1>3 DEF Pending
  <2>3. \A q \in Producer \ {p} : idx'[q] = idx[q] /\ newjob'[q] = newjob[q]
    BY <1>1
  <2>4. UNCHANGED Kids
    BY ONLY <1>1, <2>1, <2>2, <2>3, KidsAway, p \in Producer
  <2> QED BY <1>1, <2>4 DEF T!treevars
<1>4. CASE newjob[p] # NoJob
  <2>1. child_jobs' = [child_jobs EXCEPT ![idx[p]] = Append(@, newjob[p])]
    BY <1>4 DEF AttachChild
  <2>2. \A q \in Producer, i \in Job :
            /\ Pending(q, i)' <=> (Pending(q, i) /\ q # p)
            /\ Pending(p, i) <=> i = idx[p]
    BY ONLY <1>1, <1>4 DEF Pending
  <2>3. ASSUME NEW i \in Job
        PROVE  Kids'[i] = Kids[i]
    <3>1. \A k : (\E n \in 1 .. Len(child_jobs'[i]) : k = child_jobs'[i][n]) <=>
                 \/ \E n \in 1 .. Len(child_jobs[i]) : k = child_jobs[i][n]
                 \/ i = idx[p] /\ k = newjob[p]
      <4>1. CASE i # idx[p]
        <5>1. child_jobs'[i] = child_jobs[i]
          BY <1>0, <2>1, <4>1
        <5> QED BY <4>1, <5>1
      <4>2. CASE i = idx[p]
        <5>1. child_jobs'[i] = Append(child_jobs[i], newjob[p])
          BY <1>0, <2>1, <4>2
        <5>2. child_jobs[i] \in Seq(Job) /\ newjob[p] \in Job
          BY <1>0, <1>4
        <5>3. Len(child_jobs[i]) \in Nat /\ Len(child_jobs'[i]) = Len(child_jobs[i]) + 1
          BY <5>1, <5>2
        <5>4. child_jobs'[i][Len(child_jobs[i]) + 1] = newjob[p]
              /\ \A n \in 1 .. Len(child_jobs[i]) : child_jobs'[i][n] = child_jobs[i][n]
          BY ONLY <5>1, <5>2
        <5>5. 1 .. Len(child_jobs'[i]) = (1 .. Len(child_jobs[i])) \cup {Len(child_jobs[i]) + 1}
          BY ONLY <5>3
        <5> QED BY ONLY <4>2, <5>4, <5>5
      <4> QED BY <4>1, <4>2
    <3>2. \A k : k \in Kids'[i] <=>
              \/ \E n \in 1 .. Len(child_jobs'[i]) : k = child_jobs'[i][n]
              \/ \E q \in Producer : Pending(q, i)' /\ k = newjob'[q]
      BY DEF Kids, Children
    <3>3. \A k : (\E q \in Producer : Pending(q, i) /\ k = newjob[q]) <=>
                 \/ \E q \in Producer : Pending(q, i)' /\ k = newjob'[q]
                 \/ i = idx[p] /\ k = newjob[p]
      <4>1. \A q \in Producer : Pending(q, i)' <=> (Pending(q, i) /\ q # p)
        BY ONLY <2>2, i \in Job
      <4>2. Pending(p, i) <=> i = idx[p]
        BY ONLY <2>2, p \in Producer, i \in Job
      <4> QED BY ONLY <1>1, <4>1, <4>2, p \in Producer
    <3>4. \A k : k \in Kids'[i] <=> k \in Kids[i]
      <4> TAKE k
      <4>1. k \in Kids[i] <=>
              \/ \E n \in 1 .. Len(child_jobs[i]) : k = child_jobs[i][n]
              \/ \E q \in Producer : Pending(q, i) /\ k = newjob[q]
        BY KidsMember
      <4>2. k \in Kids'[i] <=>
              \/ \E n \in 1 .. Len(child_jobs'[i]) : k = child_jobs'[i][n]
              \/ \E q \in Producer : Pending(q, i)' /\ k = newjob'[q]
        BY ONLY <3>2
      <4>3. (\E n \in 1 .. Len(child_jobs'[i]) : k = child_jobs'[i][n]) <=>
              \/ \E n \in 1 .. Len(child_jobs[i]) : k = child_jobs[i][n]
              \/ i = idx[p] /\ k = newjob[p]
        BY ONLY <3>1
      <4>4. (\E q \in Producer : Pending(q, i) /\ k = newjob[q]) <=>
              \/ \E q \in Producer : Pending(q, i)' /\ k = newjob'[q]
              \/ i = idx[p] /\ k = newjob[p]
        BY ONLY <3>3
      <4> QED BY ONLY <4>1, <4>2, <4>3, <4>4
    <3>5. Kids'[i] = Children(i)' \cup {newjob'[q] : q \in {r \in Producer : Pending(r, i)'}}
      BY DEF Kids
    <3>6. Kids[i] = Children(i) \cup {newjob[q] : q \in {r \in Producer : Pending(r, i)}}
      BY DEF Kids
    <3> QED BY <3>4, <3>5, <3>6
  <2>4. Kids = [i \in Job |-> Kids[i]] /\ Kids' = [i \in Job |-> Kids'[i]]
    BY DEF Kids
  <2> QED BY <1>1, <2>3, <2>4 DEF T!treevars
<1> QED BY <1>3, <1>4

\* The children of a job are jobs made after it, so the abstract state is typed.
LEMMA TreeTyped == JInv => T!TreeInv
<1> SUFFICES ASSUME JInv PROVE T!TreeInv
  OBVIOUS
<1>0. /\ count_jobs \in InitJobs .. Capacity /\ status \in [Job -> {0, 1, 2}]
      /\ newjob \in [Producer -> Job \cup {NoJob}] /\ Ordered
      /\ T!ChildrenFirst /\ T!Rooted /\ Capacity \in Nat /\ InitJobs \in Nat
  BY JobAssumption DEF JInv, TypeOK
<1>1. ASSUME NEW i \in Job, NEW k \in Kids[i]
      PROVE  k \in 0 .. count_jobs - 1
  <2>1. CASE \E n \in 1 .. Len(child_jobs[i]) : k = child_jobs[i][n]
    <3>1. PICK n \in 1 .. Len(child_jobs[i]) : k = child_jobs[i][n]
      BY <2>1
    <3>2. child_jobs[i] \in Seq(Job)
      BY DEF JInv, TypeOK
    <3>3. k \in Job
      BY <3>1, <3>2
    <3>4. k < count_jobs
      BY <1>0, <3>1 DEF Ordered
    <3> QED BY <1>0, <3>3, <3>4 DEF Job
  <2>2. CASE \E p \in Producer : Pending(p, i) /\ k = newjob[p]
    BY <1>0, <2>2 DEF Pending, Ordered, Job, NoJob
  <2> QED BY <2>1, <2>2, KidsMember
<1>2. Kids \in [Job -> SUBSET (0 .. count_jobs - 1)]
  <2>1. Kids = [i \in Job |-> Kids[i]]
    BY DEF Kids
  <2> QED BY <1>1, <2>1
<1>3. T!TreeTypeOK
  BY <1>0, <1>2 DEF T!TreeTypeOK, T!Job, T!Made, Job
<1> QED BY <1>0, <1>3 DEF T!TreeInv

\* A consumer starts a job only when all its abstract children are complete:
\* it has checked the list, and nobody else can be about to extend it.
LEMMA StartIsStart ==
  ASSUME JInv, NEW c \in Consumer, StartJob(c)
  PROVE  \E i \in 0 .. count_jobs - 1 : T!Start(i)
<1>0. /\ count_jobs \in InitJobs .. Capacity /\ Capacity \in Nat /\ status \in [Job -> {0, 1, 2}]
      /\ pc \in [Thread -> ProducerPC \cup ConsumerPC] /\ idx \in [Thread -> Job \cup {NoJob}]
      /\ kid \in [Consumer -> Nat \ {0}] /\ child_jobs \in [Job -> Seq(Job)]
      /\ Indexed /\ Ordered /\ Checked /\ JobMutexOwned
  BY JobAssumption DEF JInv, TypeOK
<1>1. /\ pc[c] = "child" /\ kid[c] > Len(child_jobs[idx[c]]) /\ pc'[c] = "run"
      /\ status' = [status EXCEPT ![idx[c]] = 1]
      /\ UNCHANGED <<count_jobs, child_jobs, idx, newjob>>
      /\ \A p \in Producer : pc'[p] = pc[p]
  BY <1>0, JobAssumption DEF StartJob, Goto
<1>2. idx[c] \in Job /\ status[idx[c]] = 0 /\ idx[c] < count_jobs
  BY <1>0, <1>1, JobAssumption DEF Indexed, Checked, Ordered
<1>3. UNCHANGED Kids
  <2>1. \A p \in Producer, i \in Job : Pending(p, i)' <=> Pending(p, i)
    BY ONLY <1>1 DEF Pending
  <2> QED BY ONLY <1>1, <2>1, KidsFrame
<1>4. ASSUME NEW k \in Kids[idx[c]]
      PROVE  status[k] = 2
  <2>1. \A p \in Producer : ~Pending(p, idx[c])
    <3>1. \A p \in Producer : p \in Thread /\ c \in Thread /\ p # c
      BY JobAssumption
    <3>2. Holds(c, idx[c])
      BY <1>1 DEF Holds
    <3>3. \A p \in Producer : Pending(p, idx[c]) => Holds(p, idx[c])
      BY DEF Pending, Holds
    <3> QED BY <1>0, <1>2, <3>1, <3>2, <3>3 DEF JobMutexOwned
  <2>2. PICK n \in 1 .. Len(child_jobs[idx[c]]) : k = child_jobs[idx[c]][n]
    BY <1>2, <1>4, <2>1, KidsMember
  <2>3. n \in 1 .. kid[c] - 1
    <3>1. kid[c] \in Nat /\ Len(child_jobs[idx[c]]) \in Nat
      BY <1>0, <1>2
    <3> QED BY <1>1, <3>1
  <2> QED BY <1>0, <1>1, <2>2, <2>3 DEF Checked, Complete
<1>5. T!Start(idx[c])
  BY <1>1, <1>2, <1>3, <1>4 DEF T!Start
<1> QED BY <1>0, <1>2, <1>5 DEF Job

LEMMA FinishIsFinish ==
  ASSUME JInv, NEW c \in Consumer, FinishJob(c)
  PROVE  \E i \in 0 .. count_jobs - 1 : T!Finish(i)
<1>0. /\ count_jobs \in InitJobs .. Capacity /\ Capacity \in Nat
      /\ pc \in [Thread -> ProducerPC \cup ConsumerPC] /\ idx \in [Thread -> Job \cup {NoJob}]
      /\ Indexed /\ Ordered /\ OneRunner
  BY JobAssumption DEF JInv, TypeOK
<1>1. /\ pc[c] = "finish" /\ pc'[c] = "scan"
      /\ status' = [status EXCEPT ![idx[c]] = 2]
      /\ UNCHANGED <<count_jobs, child_jobs, newjob>>
      /\ \A p \in Producer : pc'[p] = pc[p] /\ idx'[p] = idx[p]
  BY <1>0, JobAssumption DEF FinishJob, Goto
<1>2. idx[c] \in Job /\ status[idx[c]] = 1 /\ idx[c] < count_jobs
  <2>1. idx[c] \in Job /\ idx[c] < count_jobs
    BY <1>0, <1>1, JobAssumption DEF Indexed, Ordered
  <2>2. Runs(c, idx[c])
    BY <1>1 DEF Runs
  <2> QED BY <1>0, <2>1, <2>2 DEF OneRunner
<1>3. UNCHANGED Kids
  <2>1. \A p \in Producer, i \in Job : Pending(p, i)' <=> Pending(p, i)
    BY ONLY <1>1 DEF Pending
  <2> QED BY ONLY <1>1, <2>1, KidsFrame
<1>4. T!Finish(idx[c])
  BY <1>1, <1>2, <1>3 DEF T!Finish
<1> QED BY <1>0, <1>2, <1>4 DEF Job

\* Every step of the program is a step of the abstract tree or none.
LEMMA TreeStep ==
  ASSUME JInv, [Next]_vars
  PROVE  [T!TreeNext]_(T!treevars)
<1>0. /\ pc \in [Thread -> ProducerPC \cup ConsumerPC] /\ idx \in [Thread -> Job \cup {NoJob}]
      /\ newjob \in [Producer -> Job \cup {NoJob}]
  BY DEF JInv, TypeOK
<1> USE JobAssumption
<1>1. ASSUME NEW p \in Producer, ProducerStep(p), ~InsertNewJob(p), ~AttachChild(p)
      PROVE  UNCHANGED T!treevars
  <2>1. UNCHANGED <<count_jobs, status, child_jobs>>
    BY <1>1 DEF ProducerStep, TimeOver, StartRound, LockRoot, CheckRoot, EnterRead, PickJob,
       TryJob, CheckJob, EnterWrite, InitMutex, queue, tree
  <2>2. \A q \in Producer \ {p} : pc'[q] = pc[q] /\ idx'[q] = idx[q] /\ newjob'[q] = newjob[q]
    BY <1>0, <1>1 DEF ProducerStep, TimeOver, StartRound, LockRoot, CheckRoot, EnterRead,
       PickJob, TryJob, CheckJob, EnterWrite, InitMutex, Goto, locals, regs
  <2>3. \/ pc[p] \notin {"init", "attach"} /\ pc'[p] \notin {"init", "attach"}
        \/ pc[p] = "init" /\ pc'[p] = "attach" /\ UNCHANGED <<idx, newjob>>
        \/ UNCHANGED <<pc, idx, newjob>>
    BY <1>0, <1>1 DEF ProducerStep, TimeOver, StartRound, LockRoot, CheckRoot, EnterRead,
       PickJob, TryJob, CheckJob, EnterWrite, InitMutex, Goto, locals, regs
  <2>4. \A i \in Job : /\ Pending(p, i)' <=> Pending(p, i)
                       /\ Pending(p, i) => newjob'[p] = newjob[p]
    BY ONLY <2>3 DEF Pending
  <2>5. UNCHANGED Kids
    BY ONLY <2>1, <2>2, <2>4, KidsAway, p \in Producer
  <2> QED BY <2>1, <2>5 DEF T!treevars
<1>2. ASSUME NEW c \in Consumer, ConsumerStep(c), ~StartJob(c), ~FinishJob(c)
      PROVE  UNCHANGED T!treevars
  <2>1. UNCHANGED <<count_jobs, status, child_jobs, newjob>>
    BY <1>2 DEF ConsumerStep, EnterRead, TakeSnapshot, ScanJob, ExamineJob, LockChild,
       ReadChild, LeaveJob, LockToFinish, EndSweep, queue, tree, locals, regs
  <2>2. \A q \in Producer : pc'[q] = pc[q] /\ idx'[q] = idx[q]
    BY <1>0, <1>2 DEF ConsumerStep, EnterRead, TakeSnapshot, ScanJob, ExamineJob, LockChild,
       ReadChild, LeaveJob, LockToFinish, EndSweep, Goto, locals, regs
  <2>3. \A p \in Producer, i \in Job : Pending(p, i)' <=> Pending(p, i)
    BY ONLY <2>1, <2>2 DEF Pending
  <2>4. UNCHANGED Kids
    BY ONLY <2>1, <2>3, KidsFrame
  <2> QED BY <2>1, <2>4 DEF T!treevars
<1>3. CASE MainStep \/ Terminated \/ UNCHANGED vars
  <2>1. UNCHANGED <<count_jobs, status, child_jobs, newjob, idx>>
    BY <1>3 DEF MainStep, Fork, ExitB, JoinProducers, Report, Terminated, vars, queue, tree,
       locals, regs
  <2>2. \A p \in Producer : pc'[p] = pc[p]
    <3>1. CASE Fork BY <1>0, <3>1 DEF Fork
    <3> QED BY <1>3, <3>1 DEF MainStep, ExitB, JoinProducers, Report, Terminated, vars, locals
  <2>3. \A p \in Producer, i \in Job : Pending(p, i)' <=> Pending(p, i)
    BY ONLY <2>1, <2>2 DEF Pending
  <2>4. UNCHANGED Kids
    BY ONLY <2>1, <2>3, KidsFrame
  <2> QED BY <2>1, <2>4 DEF T!treevars
<1>4. ASSUME NEW p \in Producer, ProducerStep(p)
      PROVE  [T!TreeNext]_(T!treevars)
  BY <1>1, <1>4, InsertIsAdd, AttachIsStutter DEF T!TreeNext, T!Made
<1>5. ASSUME NEW c \in Consumer, ConsumerStep(c)
      PROVE  [T!TreeNext]_(T!treevars)
  BY <1>2, <1>5, StartIsStart, FinishIsFinish DEF T!TreeNext, T!Made
<1> QED BY <1>3, <1>4, <1>5 DEF Next

\* Every part of JInv is kept by every step.
LEMMA JInvStep ==
  ASSUME JInv, [Next]_vars
  PROVE  JInv'
<1>1. T!TreeInv'
  BY TreeTyped, TreeStep, TreeInvStep
<1>2. Checked'
  BY CheckedStep, JobAssumption DEF Checked, CheckedAt
<1>3. TypeOK' /\ Places' /\ Unborn' /\ Indexed' /\ Fresh' /\ Ordered' /\ Hidden'
  BY TypeStep, PlacesStep, UnbornStep, IndexedStep, FreshStep, OrderedStep, HiddenStep DEF JInv
<1>4. RWInv' /\ JobMutexOwned' /\ OneRunner' /\ RootSeen'
  BY RWInvPreserved, OwnedStep, OneRunnerStep, RootSeenStep DEF JInv
<1> QED BY <1>1, <1>2, <1>3, <1>4 DEF JInv, T!TreeInv

-----------------------------------------------------------------------------
\* Whatever the threads of the two processes do, and in whatever order, the
\* invariant of the program holds.
THEOREM JobSafety == Spec => []JInv
<1>1. Init => JInv
  BY JInvInit
<1>2. JInv /\ [Next]_vars => JInv'
  BY JInvStep
<1> QED BY <1>1, <1>2, PTL DEF Spec

\* Every variable of the program keeps its type: no index ever leaves the queue.
THEOREM TypeCorrect == Spec => []TypeOK
<1>1. JInv => TypeOK
  BY DEF JInv
<1> QED BY <1>1, JobSafety, PTL

\* Whoever works on a job holds its mutex, although insert_new_job initialises
\* mutexes while other threads run.
THEOREM MutualExclusion == Spec => []JobMutexOwned
<1>1. JInv => JobMutexOwned
  BY DEF JInv
<1> QED BY <1>1, JobSafety, PTL

\* No job is run by two consumers, and a running job has a runner.
THEOREM SingleRunner == Spec => []OneRunner
<1>1. JInv => OneRunner
  BY DEF JInv
<1> QED BY <1>1, JobSafety, PTL

\* No job starts before all jobs below it are complete, those included that
\* producers hang there meanwhile.
THEOREM BottomUp == Spec => []DependencyOrder
<1>1. JInv => DependencyOrder
  <2> SUFFICES ASSUME JInv, NEW i \in Jobs, status[i] # 0, NEW k \in Children(i)
               PROVE  Complete(k)
    BY DEF DependencyOrder
  <2>1. i \in Job /\ T!ChildrenFirst
    BY JobAssumption DEF JInv, TypeOK, Jobs, Job
  <2>2. k \in Kids[i]
    BY <2>1 DEF Kids
  <2> QED BY <2>1, <2>2 DEF T!ChildrenFirst, T!Job, Job, Complete
<1> QED BY <1>1, JobSafety, PTL

\* A consumer leaves its loop only when the root has been started and all other
\* jobs are complete, although its sweeps are not atomic.
THEOREM NoEarlyQuit == Spec => []QuitsOnlyWhenDone
<1>1. JInv => QuitsOnlyWhenDone
  <2> SUFFICES ASSUME JInv, NEW c \in Consumer, pc[c] = "done"
               PROVE  status[Root] # 0 /\ \A i \in Jobs \ {Root} : Complete(i)
    BY DEF QuitsOnlyWhenDone
  <2>1. status[Root] # 0
    BY DEF JInv, RootSeen
  <2>2. T!RootLast
    BY TreeTyped, RootRunsLast
  <2> QED BY <2>1, <2>2 DEF T!RootLast, T!Made, T!Root, Jobs, Root, Complete
<1> QED BY <1>1, JobSafety, PTL

\* Once the root has been started the tree does not grow any more, although
\* producers look at the root long before they insert.
THEOREM TreeClosed == Spec => ClosedAfterRoot
<1>1. JInv /\ [Next]_vars => [status[Root] # 0 => UNCHANGED <<count_jobs, child_jobs>>]_vars
  <2> SUFFICES ASSUME JInv, [Next]_vars, status[Root] # 0
               PROVE  UNCHANGED <<count_jobs, child_jobs>>
    OBVIOUS
  <2>1. \A i \in Jobs : status[i] # 0
    <3>1. T!RootLast
      BY TreeTyped, RootRunsLast
    <3> QED BY <3>1 DEF T!RootLast, T!Made, T!Root, Jobs, Root
  <2>2. \A p \in Producer : pc[p] \notin {"write", "attach"}
    <3>1. \A p \in Producer : pc[p] \in {"write", "attach"} =>
              idx[p] \in Jobs /\ status[idx[p]] = 0
      BY JobAssumption DEF JInv, TypeOK, Indexed, Ordered, Checked, Jobs, Job
    <3> QED BY <2>1, <3>1
  <2>3. \A p \in Producer : ~InsertNewJob(p) /\ ~AttachChild(p)
    BY <2>2 DEF InsertNewJob, AttachChild
  <2> QED BY <2>3, TreeFrame DEF tree, StartJob, FinishJob
<1> QED BY <1>1, JobSafety, PTL DEF Spec, ClosedAfterRoot

\* The program with its locks and copies implements the abstract tree of jobs.
THEOREM Refinement == Spec => ImplementsTree
<1>1. Init => T!TreeInit
  <2> SUFFICES ASSUME Init PROVE T!TreeInit
    OBVIOUS
  <2> USE JobAssumption
  <2>1. count_jobs = InitJobs /\ status = [i \in Job |-> 0]
    BY DEF Init
  <2>2. \A p \in Producer, i \in Job : ~Pending(p, i)
    BY DEF Init, Pending
  <2>3. ASSUME NEW i \in Job
        PROVE  Kids[i] = IF i = 0 THEN 1 .. InitJobs - 1 ELSE {}
    <3> DEFINE first == [n \in 1 .. InitJobs - 1 |-> n]
    <3>1. child_jobs[i] = IF i = 0 THEN first ELSE <<>>
      BY DEF Init, Root
    <3>2. InitJobs - 1 \in Nat /\ Len(first) = InitJobs - 1 /\ Len(<<>>) = 0
      BY LenProperties
    <3>3. \A k : k \in Kids[i] <=> \E n \in 1 .. Len(child_jobs[i]) : k = child_jobs[i][n]
      BY <2>2, KidsMember
    <3>4. Kids[i] = Children(i) \cup {newjob[p] : p \in {q \in Producer : Pending(q, i)}}
      BY DEF Kids
    <3>5. CASE i = 0
      <4>1. child_jobs[i] = first /\ \A n \in 1 .. InitJobs - 1 : first[n] = n
        BY <3>1, <3>5
      <4>2. \A k : k \in Kids[i] <=> k \in 1 .. InitJobs - 1
        BY ONLY <3>2, <3>3, <4>1
      <4> QED BY ONLY <3>4, <3>5, <4>2
    <3>6. CASE i # 0
      <4>1. child_jobs[i] = <<>>
        BY <3>1, <3>6
      <4>2. \A k : k \notin Kids[i]
        BY ONLY <3>2, <3>3, <4>1
      <4> QED BY ONLY <3>4, <3>6, <4>2
    <3> QED BY <3>5, <3>6
  <2>4. Kids = [i \in Job |-> Kids[i]]
    BY DEF Kids
  <2>5. Kids = [i \in Job |-> IF i = 0 THEN 1 .. InitJobs - 1 ELSE {}]
    BY ONLY <2>3, <2>4
  <2> QED BY <2>1, <2>5 DEF T!TreeInit, T!Job, T!Root, Job
<1>2. JInv /\ [Next]_vars => [T!TreeNext]_(T!treevars)
  BY TreeStep
<1> QED BY <1>1, <1>2, JobSafety, PTL DEF Spec, T!TreeSpec, ImplementsTree
=============================================================================
