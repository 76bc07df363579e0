---------------------------- MODULE JobSystem ----------------------------
(***************************************************************************)
(* a4-threads-and-locks/Assignment_4_35.cpp: process A creates a tree of   *)
(* jobs in shared memory, starts producer threads that hang new jobs under *)
(* waiting ones, and forks process B whose consumer threads run the jobs   *)
(* bottom up.  A then joins its producers, waits for B, prints the tree    *)
(* and looks for jobs that were missed.                                    *)
(*                                                                         *)
(* count_jobs is protected by the lock of RWLock, the fields of job i by   *)
(* job_queue[i].mutex.  The job mutexes are taken with trylock as well, so *)
(* here the interval during which one is held is explicit: an action takes *)
(* at most one of them, and everything a thread does while holding it up   *)
(* to the next lock call is one further step.                              *)
(*                                                                         *)
(* Left out: job_id and duration (random numbers nobody branches on), the  *)
(* sleeps (a thread may be delayed anywhere), the messages on cout.        *)
(***************************************************************************)
EXTENDS RWLock, Integers, Sequences

CONSTANTS Producer, Consumer,  \* the threads of process A and of process B
          Capacity,            \* expected_jobs
          InitJobs,            \* init_num_jobs
          MAX_CHILD_JOBS,
          MaxAdds              \* the jobs a producer can add in its time_to_run

ASSUME JobAssumption ==
    /\ Thread = Producer \cup Consumer
    /\ Producer \cap Consumer = {}
    /\ Capacity \in Nat
    /\ InitJobs \in 1 .. Capacity
    /\ MAX_CHILD_JOBS \in Nat
    /\ MaxAdds \in Nat

\* main hangs the first jobs under the root without looking at MAX_CHILD_JOBS,
\* 499 of them at most where 2000 fit (lines 24, 326 and 331).
ASSUME ListAssumption == InitJobs - 1 <= MAX_CHILD_JOBS

Job == 0 .. Capacity - 1
Root == 0
NoJob == -1     \* the NULL insert_new_job returns, and the initial j

VARIABLES
    count_jobs,    \* shmem->count_jobs
    status,        \* job_queue[i].status: 0 created, 1 running, 2 completed
    child_jobs,    \* job_queue[i].child_jobs[0 .. num_child_jobs-1]
    job_mutex,     \* the thread that holds job_queue[i].mutex, or NoThread
    pc,            \* the next step of each thread
    idx,           \* j of a producer, i of a consumer
    kid,           \* k of a consumer, counted from 1; 1 outside its loop
    all_done,      \* all_done of a consumer
    newjob,        \* newjob of a producer
    added,         \* the jobs a producer has added
    main,          \* where main of process A is
    procB,         \* process B: "unborn", "running" or "exited"
    printed,       \* the jobs print_job_tree has printed, in order
    missed         \* the jobs reported by "missed this one"

tree == <<count_jobs, status, child_jobs>>
queue == <<tree, job_mutex>>
regs == <<idx, kid, all_done, newjob, added>>
locals == <<pc, regs>>
procs == <<main, procB, printed, missed>>
vars == <<rwvars, queue, locals, procs>>

Goto(t, l) == pc' = [pc EXCEPT ![t] = l]
LockJob(t, i) == job_mutex[i] = NoThread /\ job_mutex' = [job_mutex EXCEPT ![i] = t]
UnlockJob(i) == job_mutex' = [job_mutex EXCEPT ![i] = NoThread]

\* main up to line 356: the root and its first children are in the queue, the
\* producers have been created; the slots behind count_jobs are zero pages.
Init ==
    /\ RWInit
    /\ count_jobs = InitJobs
    /\ status = [i \in Job |-> 0]
    /\ child_jobs = [i \in Job |-> IF i = Root THEN [n \in 1 .. InitJobs - 1 |-> n] ELSE <<>>]
    /\ job_mutex = [i \in Job |-> NoThread]
    /\ pc = [t \in Thread |-> IF t \in Producer THEN "time" ELSE "unborn"]
    /\ idx = [t \in Thread |-> NoJob]
    /\ kid = [c \in Consumer |-> 1]
    /\ all_done = [c \in Consumer |-> TRUE]
    /\ newjob = [p \in Producer |-> NoJob]
    /\ added = [p \in Producer |-> 0]
    /\ main = "fork" /\ procB = "unborn"
    /\ printed = <<>> /\ missed = {}

-----------------------------------------------------------------------------
(* Mutants: plausible bugs in the actions that follow, each of which breaks a *)
(* property below.                                                          *)

\* CheckRoot: the unlock before the read of count_jobs is missing.
CheckRootKeepsLock(p) ==
    /\ pc[p] = "rootheld"
    /\ Goto(p, IF status[Root] # 0 THEN "done" ELSE "read")
    /\ UNCHANGED <<rwvars, queue, regs, procs>>

\* CheckRoot: over_flag is never set.
CheckRootIgnoresStatus(p) ==
    /\ pc[p] = "rootheld"
    /\ UnlockJob(Root)
    /\ Goto(p, "read")
    /\ UNCHANGED <<rwvars, tree, regs, procs>>

\* PickJob: count_jobs is read without the lock.
PickJobUnlocked(p) ==
    /\ pc[p] = "read" /\ p \in Producer /\ rw[p] = "out"
    /\ \E j \in 0 .. count_jobs - 1 : idx' = [idx EXCEPT ![p] = j]
    /\ Goto(p, "try")
    /\ UNCHANGED <<rwvars, queue, kid, all_done, newjob, added, procs>>

\* CheckJob: the status of the parent is not looked at.
CheckJobAnyStatus(p) ==
    /\ pc[p] = "check"
    /\ IF Len(child_jobs[idx[p]]) < MAX_CHILD_JOBS
       THEN Goto(p, "write") /\ UNCHANGED job_mutex
       ELSE Goto(p, "root") /\ UnlockJob(idx[p])
    /\ UNCHANGED <<rwvars, tree, regs, procs>>

\* CheckJob: the parent is unlocked before the new job is made.
CheckJobUnlocks(p) ==
    /\ pc[p] = "check"
    /\ Goto(p, IF status[idx[p]] = 0 /\ Len(child_jobs[idx[p]]) < MAX_CHILD_JOBS
               THEN "write" ELSE "root")
    /\ UnlockJob(idx[p])
    /\ UNCHANGED <<rwvars, tree, regs, procs>>

\* CheckJob: the unlock of line 177 is missing.
CheckJobKeepsLock(p) ==
    /\ pc[p] = "check"
    /\ Goto(p, IF status[idx[p]] = 0 /\ Len(child_jobs[idx[p]]) < MAX_CHILD_JOBS
               THEN "write" ELSE "root")
    /\ UNCHANGED <<rwvars, queue, regs, procs>>

\* AttachChild: num_child_jobs is not incremented.
AttachChildUncounted(p) ==
    /\ pc[p] = "attach" /\ newjob[p] # NoJob
    /\ UnlockJob(idx[p])
    /\ added' = [added EXCEPT ![p] = @ + 1]
    /\ Goto(p, "time")
    /\ UNCHANGED <<rwvars, tree, idx, kid, all_done, newjob, procs>>

\* ScanJob: a job that cannot be locked is forgotten.
ScanJobForgets(c) ==
    /\ pc[c] = "scan" /\ idx[c] >= 0
    /\ \/ LockJob(c, idx[c]) /\ Goto(c, "examine") /\ UNCHANGED idx
       \/ /\ job_mutex[idx[c]] # NoThread
          /\ idx' = [idx EXCEPT ![c] = @ - 1]
          /\ UNCHANGED <<job_mutex, pc>>
    /\ UNCHANGED <<rwvars, tree, kid, all_done, newjob, added, procs>>

\* StartJob: the loop over the children ends one too early.
StartJobEarly(c) ==
    /\ pc[c] = "child" /\ kid[c] >= Len(child_jobs[idx[c]])
    /\ status' = [status EXCEPT ![idx[c]] = 1]
    /\ UnlockJob(idx[c])
    /\ kid' = [kid EXCEPT ![c] = 1]
    /\ Goto(c, "run")
    /\ UNCHANGED <<rwvars, count_jobs, child_jobs, idx, all_done, newjob, added, procs>>

\* LockToFinish: trylock instead of lock, and on to the next job if it fails.
LockToFinishTry(c) ==
    /\ pc[c] = "run"
    /\ \/ LockJob(c, idx[c]) /\ Goto(c, "finish") /\ UNCHANGED idx
       \/ /\ job_mutex[idx[c]] # NoThread
          /\ idx' = [idx EXCEPT ![c] = @ - 1]
          /\ Goto(c, "scan")
          /\ UNCHANGED job_mutex
    /\ UNCHANGED <<rwvars, tree, kid, all_done, newjob, added, procs>>

\* ExitB: process B joins only one of its consumers.
ExitBJoinsOne ==
    /\ procB = "running"
    /\ \E c \in Consumer : pc[c] = "done"
    /\ procB' = "exited"
    /\ UNCHANGED <<rwvars, queue, locals, main, printed, missed>>

-----------------------------------------------------------------------------
(* Both kinds of thread read count_jobs as readers of the lock.            *)

EnterRead(t) ==
    /\ pc[t] = "read"
    /\ ReadArrive(t) \/ ReadCount(t) \/ ReadEnter(t)
    /\ UNCHANGED <<queue, locals, procs>>

-----------------------------------------------------------------------------
(* producer_thread_handler                                                 *)

\* time_to_run is over: the clock is looked at only here.
TimeOver(p) ==
    /\ pc[p] = "time"
    /\ Goto(p, "done")
    /\ UNCHANGED <<rwvars, queue, regs, procs>>

StartRound(p) ==
    /\ pc[p] = "time"
    /\ added[p] < MaxAdds
    /\ Goto(p, "root")
    /\ idx' = [idx EXCEPT ![p] = NoJob]
    /\ newjob' = [newjob EXCEPT ![p] = NoJob]
    /\ UNCHANGED <<rwvars, queue, kid, all_done, added, procs>>

LockRoot(p) ==
    /\ pc[p] = "root"
    /\ LockJob(p, Root)
    /\ Goto(p, "rootheld")
    /\ UNCHANGED <<rwvars, tree, regs, procs>>

\* Once the root runs the producer gives up.
CheckRoot(p) ==
    /\ pc[p] = "rootheld"
    /\ UnlockJob(Root)
    /\ Goto(p, IF status[Root] # 0 THEN "done" ELSE "read")
    /\ UNCHANGED <<rwvars, tree, regs, procs>>

\* j = rand()%(count_jobs), and the reader leaves
PickJob(p) ==
    /\ pc[p] = "read" /\ p \in Producer
    /\ ReadLeave(p)
    /\ \E j \in 0 .. count_jobs - 1 : idx' = [idx EXCEPT ![p] = j]
    /\ Goto(p, "try")
    /\ UNCHANGED <<queue, kid, all_done, newjob, added, procs>>

TryJob(p) ==
    /\ pc[p] = "try"
    /\ \/ LockJob(p, idx[p]) /\ Goto(p, "check")
       \/ job_mutex[idx[p]] # NoThread /\ Goto(p, "root") /\ UNCHANGED job_mutex
    /\ UNCHANGED <<rwvars, tree, regs, procs>>

\* A waiting job with room for a child stays locked.
CheckJob(p) ==
    /\ pc[p] = "check"
    /\ IF status[idx[p]] = 0 /\ Len(child_jobs[idx[p]]) < MAX_CHILD_JOBS
       THEN Goto(p, "write") /\ UNCHANGED job_mutex
       ELSE Goto(p, "root") /\ UnlockJob(idx[p])
    /\ UNCHANGED <<rwvars, tree, regs, procs>>

EnterWrite(p) ==
    /\ pc[p] = "write"
    /\ WriteArrive(p) \/ WriteEnter(p)
    /\ UNCHANGED <<queue, locals, procs>>

\* Mutant of InsertNewJob: the last slot is not used.
InsertNewJobKeepsSlot(p) ==
    /\ pc[p] = "write" /\ rw[p] = "writing"
    /\ Goto(p, "init")
    /\ IF count_jobs >= Capacity - 1
       THEN newjob' = [newjob EXCEPT ![p] = NoJob] /\ UNCHANGED <<count_jobs, status>>
       ELSE /\ status' = [status EXCEPT ![count_jobs] = 0]
            /\ newjob' = [newjob EXCEPT ![p] = count_jobs]
            /\ count_jobs' = count_jobs + 1
    /\ UNCHANGED <<rwvars, child_jobs, job_mutex, idx, kid, all_done, added, procs>>

\* insert_new_job up to count_jobs += 1; in a full queue it returns NULL
InsertNewJob(p) ==
    /\ pc[p] = "write" /\ rw[p] = "writing"
    /\ Goto(p, "init")
    /\ IF count_jobs >= Capacity
       THEN newjob' = [newjob EXCEPT ![p] = NoJob] /\ UNCHANGED <<count_jobs, status>>
       ELSE /\ status' = [status EXCEPT ![count_jobs] = 0]
            /\ newjob' = [newjob EXCEPT ![p] = count_jobs]
            /\ count_jobs' = count_jobs + 1
    /\ UNCHANGED <<rwvars, child_jobs, job_mutex, idx, kid, all_done, added, procs>>

\* The rest of insert_new_job initialises the job's mutex, whatever its state,
\* and the writer leaves.
InitMutex(p) ==
    /\ pc[p] = "init"
    /\ IF newjob[p] = NoJob THEN UNCHANGED job_mutex ELSE UnlockJob(newjob[p])
    /\ WriteLeave(p)
    /\ Goto(p, "attach")
    /\ UNCHANGED <<tree, regs, procs>>

\* The message of line 193 dereferences newjob before line 194 tests it.
AttachChild(p) ==
    /\ pc[p] = "attach"
    /\ IF newjob[p] = NoJob
       THEN Goto(p, "crashed") /\ UNCHANGED <<child_jobs, job_mutex, added>>
       ELSE /\ child_jobs' = [child_jobs EXCEPT ![idx[p]] = Append(@, newjob[p])]
            /\ UnlockJob(idx[p])
            /\ added' = [added EXCEPT ![p] = @ + 1]
            /\ Goto(p, "time")
    /\ UNCHANGED <<rwvars, count_jobs, status, idx, kid, all_done, newjob, procs>>

-----------------------------------------------------------------------------
(* consumer_thread_handler                                                 *)

\* count_jobs is copied, the reader leaves, and a sweep over the queue begins.
TakeSnapshot(c) ==
    /\ pc[c] = "read" /\ c \in Consumer
    /\ ReadLeave(c)
    /\ idx' = [idx EXCEPT ![c] = count_jobs - 1]
    /\ all_done' = [all_done EXCEPT ![c] = TRUE]
    /\ Goto(c, "scan")
    /\ UNCHANGED <<queue, kid, newjob, added, procs>>

\* A job whose mutex is taken is passed over, but not forgotten.
ScanJob(c) ==
    /\ pc[c] = "scan" /\ idx[c] >= 0
    /\ \/ LockJob(c, idx[c]) /\ Goto(c, "examine") /\ UNCHANGED <<idx, all_done>>
       \/ /\ job_mutex[idx[c]] # NoThread
          /\ all_done' = [all_done EXCEPT ![c] = FALSE]
          /\ idx' = [idx EXCEPT ![c] = @ - 1]
          /\ UNCHANGED <<job_mutex, pc>>
    /\ UNCHANGED <<rwvars, tree, kid, newjob, added, procs>>

\* Only a job that has not been started counts as not done (line 243).
ExamineJob(c) ==
    /\ pc[c] = "examine"
    /\ IF status[idx[c]] = 0
       THEN /\ all_done' = [all_done EXCEPT ![c] = FALSE]
            /\ Goto(c, "child")
            /\ UNCHANGED <<job_mutex, idx>>
       ELSE /\ UnlockJob(idx[c])
            /\ idx' = [idx EXCEPT ![c] = @ - 1]
            /\ Goto(c, "scan")
            /\ UNCHANGED all_done
    /\ UNCHANGED <<rwvars, tree, kid, newjob, added, procs>>

\* The k-th child is locked, waiting if need be, while the job stays locked.
LockChild(c) ==
    /\ pc[c] = "child" /\ kid[c] <= Len(child_jobs[idx[c]])
    /\ LockJob(c, child_jobs[idx[c]][kid[c]])
    /\ Goto(c, "childheld")
    /\ UNCHANGED <<rwvars, tree, regs, procs>>

ReadChild(c) ==
    LET child == child_jobs[idx[c]][kid[c]] IN
    /\ pc[c] = "childheld"
    /\ UnlockJob(child)
    /\ IF status[child] = 2
       THEN kid' = [kid EXCEPT ![c] = @ + 1] /\ Goto(c, "child")
       ELSE kid' = [kid EXCEPT ![c] = 1] /\ Goto(c, "giveup")
    /\ UNCHANGED <<rwvars, tree, idx, all_done, newjob, added, procs>>

\* A child is not complete: the job has to wait.
LeaveJob(c) ==
    /\ pc[c] = "giveup"
    /\ UnlockJob(idx[c])
    /\ idx' = [idx EXCEPT ![c] = @ - 1]
    /\ Goto(c, "scan")
    /\ UNCHANGED <<rwvars, tree, kid, all_done, newjob, added, procs>>

\* All children are complete: the job is started, and runs unlocked.
StartJob(c) ==
    /\ pc[c] = "child" /\ kid[c] > Len(child_jobs[idx[c]])
    /\ status' = [status EXCEPT ![idx[c]] = 1]
    /\ UnlockJob(idx[c])
    /\ kid' = [kid EXCEPT ![c] = 1]
    /\ Goto(c, "run")
    /\ UNCHANGED <<rwvars, count_jobs, child_jobs, idx, all_done, newjob, added, procs>>

LockToFinish(c) ==
    /\ pc[c] = "run"
    /\ LockJob(c, idx[c])
    /\ Goto(c, "finish")
    /\ UNCHANGED <<rwvars, tree, regs, procs>>

FinishJob(c) ==
    /\ pc[c] = "finish"
    /\ status' = [status EXCEPT ![idx[c]] = 2]
    /\ UnlockJob(idx[c])
    /\ idx' = [idx EXCEPT ![c] = @ - 1]
    /\ Goto(c, "scan")
    /\ UNCHANGED <<rwvars, count_jobs, child_jobs, kid, all_done, newjob, added, procs>>

EndSweep(c) ==
    /\ pc[c] = "scan" /\ idx[c] < 0
    /\ Goto(c, IF all_done[c] THEN "done" ELSE "read")
    /\ UNCHANGED <<rwvars, queue, regs, procs>>

-----------------------------------------------------------------------------
(* main of process A, and process B                                        *)

\* Preorder: job x, then the trees of its first n children.
printedUpTo(x, trees) ==
    LET upto[n \in 0 .. Len(child_jobs[x])] ==
            IF n = 0 THEN <<x>> ELSE upto[n - 1] \o trees[child_jobs[x][n]]
    IN  upto
printNTree[x \in Job] == printedUpTo(x, printNTree)[Len(child_jobs[x])]

\* Every job not visited yet starts a tree of its own.
visitedUpTo ==
    LET upto[n \in 0 .. count_jobs] ==
            IF n = 0 THEN <<>>
            ELSE IF \E m \in DOMAIN upto[n - 1] : upto[n - 1][m] = n - 1 THEN upto[n - 1]
            ELSE upto[n - 1] \o printNTree[n - 1]
    IN  upto
print_job_tree == visitedUpTo[count_jobs]

\* Process B creates its consumers.
Fork ==
    /\ main = "fork"
    /\ main' = "join" /\ procB' = "running"
    /\ pc' = [t \in Thread |-> IF t \in Consumer THEN "read" ELSE pc[t]]
    /\ UNCHANGED <<rwvars, queue, regs, printed, missed>>

ExitB ==
    /\ procB = "running"
    /\ \A c \in Consumer : pc[c] = "done"
    /\ procB' = "exited"
    /\ UNCHANGED <<rwvars, queue, locals, main, printed, missed>>

JoinProducers ==
    /\ main = "join"
    /\ \A p \in Producer : pc[p] = "done"
    /\ main' = "wait"
    /\ UNCHANGED <<rwvars, queue, locals, procB, printed, missed>>

\* wait(NULL) has returned: the tree is printed and missed jobs are reported.
Report ==
    /\ main = "wait" /\ procB = "exited"
    /\ main' = "exit"
    /\ printed' = print_job_tree
    /\ missed' = {i \in 0 .. count_jobs - 1 : status[i] # 2}
    /\ UNCHANGED <<rwvars, queue, locals, procB>>

Terminated == main = "exit" /\ UNCHANGED vars

ProducerStep(p) ==
    \/ TimeOver(p) \/ StartRound(p) \/ LockRoot(p) \/ CheckRoot(p)
    \/ EnterRead(p) \/ PickJob(p) \/ TryJob(p) \/ CheckJob(p)
    \/ EnterWrite(p) \/ InsertNewJob(p) \/ InitMutex(p) \/ AttachChild(p)

ConsumerStep(c) ==
    \/ EnterRead(c) \/ TakeSnapshot(c) \/ ScanJob(c) \/ ExamineJob(c)
    \/ LockChild(c) \/ ReadChild(c) \/ LeaveJob(c) \/ StartJob(c)
    \/ LockToFinish(c) \/ FinishJob(c) \/ EndSweep(c)

MainStep == Fork \/ ExitB \/ JoinProducers \/ Report

Next ==
    \/ \E p \in Producer : ProducerStep(p)
    \/ \E c \in Consumer : ConsumerStep(c)
    \/ MainStep
    \/ Terminated

Spec == Init /\ [][Next]_vars

\* A thread that can take a step takes one, and a thread blocked in
\* pthread_mutex_lock gets the mutex if it is released again and again: such a
\* thread has no other step.  Nothing is assumed of the outcome of trylock, of
\* rand() or of the clock.
Fairness ==
    /\ \A p \in Producer : SF_vars(ProducerStep(p))
    /\ \A c \in Consumer : SF_vars(ConsumerStep(c))
    /\ WF_vars(MainStep)

FairSpec == Spec /\ Fairness

-----------------------------------------------------------------------------
Jobs == 0 .. count_jobs - 1
Children(i) == {child_jobs[i][n] : n \in 1 .. Len(child_jobs[i])}
Complete(i) == status[i] = 2

\* p has made its new job and not yet hung it under job i.
Pending(p, i) == pc[p] \in {"init", "attach"} /\ newjob[p] # NoJob /\ idx[p] = i

\* Consumer c has started job i and not yet finished it.
Runs(c, i) == pc[c] \in {"run", "finish"} /\ idx[c] = i

\* Thread t is at a place where it holds the mutex of job i.
Holds(t, i) ==
    \/ pc[t] = "rootheld" /\ i = Root
    \/ pc[t] \in {"check", "write", "init", "attach", "crashed"} /\ idx[t] = i
    \/ pc[t] \in {"examine", "child", "childheld", "giveup", "finish"} /\ idx[t] = i
    \/ pc[t] = "childheld" /\ i = child_jobs[idx[t]][kid[t]]

ProducerPC == {"time", "root", "rootheld", "read", "try", "check", "write", "init",
               "attach", "done", "crashed"}
ConsumerPC == {"unborn", "read", "scan", "examine", "child", "childheld", "giveup",
               "run", "finish", "done"}

TypeOK ==
    /\ RWTypeOK
    /\ count_jobs \in InitJobs .. Capacity
    /\ status \in [Job -> {0, 1, 2}]
    /\ child_jobs \in [Job -> Seq(Job)]
    /\ job_mutex \in [Job -> Thread \cup {NoThread}]
    /\ pc \in [Thread -> ProducerPC \cup ConsumerPC]
    /\ \A p \in Producer : pc[p] \in ProducerPC
    /\ \A c \in Consumer : pc[c] \in ConsumerPC
    /\ idx \in [Thread -> Job \cup {NoJob}]
    /\ kid \in [Consumer -> Nat \ {0}]
    /\ all_done \in [Consumer -> BOOLEAN]
    /\ newjob \in [Producer -> Job \cup {NoJob}]
    /\ added \in [Producer -> Nat]
    /\ main \in {"fork", "join", "wait", "exit"}
    /\ procB \in {"unborn", "running", "exited"}

\* Job mutexes exclude each other: every thread inside a critical section on
\* job i is the owner of its mutex.  pthread_mutex_init (line 121) resets a
\* mutex whoever holds it, so this needs the new job to be invisible until then.
JobMutexOwned == \A t \in Thread, i \in Job : Holds(t, i) => job_mutex[i] = t

\* A job that runs or has run has only complete children, also those added
\* while its children were being checked (lines 248-263).
DependencyOrder ==
    \A i \in Jobs : status[i] # 0 => \A k \in Children(i) : Complete(k)

\* A job is run by one consumer, which alone will complete it.
OneRunner == \A i \in Job :
    /\ status[i] = 1 <=> \E c \in Consumer : Runs(c, i)
    /\ \A c, d \in Consumer : Runs(c, i) /\ Runs(d, i) => c = d

\* Every job but the root hangs under exactly one earlier job, or is about to.
TreeShape == \A k \in Jobs \ {Root} :
    LET hooks == {h \in (0 .. k - 1) \X (1 .. Capacity) :
                     h[2] <= Len(child_jobs[h[1]]) /\ child_jobs[h[1]][h[2]] = k}
        makers == {p \in Producer : newjob[p] = k /\ \E i \in 0 .. k - 1 : Pending(p, i)}
    IN  Cardinality(hooks \cup makers) = 1

\* child_jobs[MAX_CHILD_JOBS] does not overflow, whichever producers picked the job.
ChildListBounded == \A i \in Job : Len(child_jobs[i]) <= MAX_CHILD_JOBS

\* The queue never gets full: line 310 makes it 500 jobs long, as many as main
\* inserts at most, and 110 for each producer, which runs for 20 seconds at most
\* and sleeps 200 ms after each job.  Were it full, a producer would die at line
\* 193 with the mutex of the parent locked.
QueueNeverFull ==
    InitJobs + Cardinality(Producer) * MaxAdds <= Capacity =>
        \A p \in Producer : pc[p] # "crashed"

\* A consumer stops (line 288) only when the root has been started and
\* everything else is complete, although its count_jobs is a copy and a sweep
\* is not atomic.  (The root itself another consumer may still be running: it is
\* not counted as undone, line 243.)
QuitsOnlyWhenDone == \A c \in Consumer :
    pc[c] = "done" => status[Root] # 0 /\ \A i \in Jobs \ {Root} : Complete(i)

\* When A has read the queue without locks (lines 383-389) it has printed each
\* job exactly once and found none that was missed.
ReportComplete == main = "exit" =>
    /\ missed = {}
    /\ Len(printed) = count_jobs
    /\ {printed[n] : n \in 1 .. Len(printed)} = Jobs

\* t is blocked in pthread_mutex_lock on a mutex that u holds.
WaitsFor(t, u) ==
    \/ pc[t] = "root" /\ job_mutex[Root] = u
    \/ pc[t] = "child" /\ kid[t] <= Len(child_jobs[idx[t]])
          /\ job_mutex[child_jobs[idx[t]][kid[t]]] = u
    \/ pc[t] = "run" /\ job_mutex[idx[t]] = u
    \/ pc[t] \in {"read", "write"} /\ rw[t] = "out" /\ in_mutex = u
    \/ rw[t] \in {"arrived", "reading"} /\ mutex = u
    \/ rw[t] = "w_arrived" /\ u \in Reading \cup Writing

\* No set of threads waits in a circle, whatever the others still do: a
\* consumer waits for a child while it holds the parent, a producer for the
\* queue while it holds a job.
NoWaitCycle == \A S \in (SUBSET Thread) \ {{}} :
    \E t \in S : \A u \in S : ~WaitsFor(t, u)

\* From the moment the root is started no job is added any more, although a
\* producer looks at the root (line 148) long before it inserts (line 187).
ClosedAfterRoot ==
    [][status[Root] # 0 => UNCHANGED <<count_jobs, child_jobs>>]_vars

\* The queue is the abstract tree of jobs, a new job belonging to its parent
\* from the moment it is counted.
Kids == [i \in Job |-> Children(i) \cup {newjob[p] : p \in {q \in Producer : Pending(q, i)}}]
T == INSTANCE JobTree WITH made <- count_jobs, state <- status, kids <- Kids
ImplementsTree == T!TreeSpec

\* No job mutex is held for ever: not by a consumer that waits for the mutex of
\* a child (line 250), nor by a producer that waits for the queue (lines 183-184).
JobMutexReleased == \A i \in Job, t \in Thread : job_mutex[i] = t ~> job_mutex[i] # t

\* A started job completes, although its consumer has to lock it again.
StartedCompletes == \A i \in Job : status[i] = 1 ~> status[i] = 2

\* With one consumer, A exits once the root has been started.  (With more, two
\* consumers may keep finding each other's mutexes taken.)
RootEndsAll == status[Root] = 1 ~> main = "exit"

-----------------------------------------------------------------------------
(* The inductive invariant behind the safety properties.                   *)

\* The lock protocol is used where the threads say so.
Places == \A t \in Thread :
    /\ rw[t] \in {"arrived", "counted", "reading"} => pc[t] = "read"
    /\ rw[t] = "w_arrived" => pc[t] = "write"
    /\ rw[t] = "writing" => pc[t] \in {"write", "init"}
    /\ pc[t] = "init" => rw[t] = "writing"

\* No consumer runs before process B has been forked.
Unborn == main = "fork" => \A c \in Consumer : pc[c] = "unborn"

\* The registers are defined where they are used.
Indexed == \A t \in Thread :
    pc[t] \in {"try", "check", "write", "init", "attach", "crashed",
              "examine", "child", "childheld", "giveup", "run", "finish"} => idx[t] \in Job

\* Nothing refers to a job that is not made, and a child is younger than its parent.
Ordered ==
    /\ \A t \in Thread : idx[t] < count_jobs
    /\ \A i \in Job : \A n \in 1 .. Len(child_jobs[i]) :
            i < child_jobs[i][n] /\ child_jobs[i][n] < count_jobs
    /\ \A p \in Producer : pc[p] \in {"init", "attach"} /\ newjob[p] # NoJob =>
            idx[p] < newjob[p] /\ newjob[p] < count_jobs

\* Nothing refers to a job whose mutex is not initialised yet.
Hidden == \A p \in Producer : pc[p] = "init" /\ newjob[p] # NoJob =>
    /\ newjob[p] = count_jobs - 1
    /\ \A t \in Thread : idx[t] < newjob[p]
    /\ \A i \in Job : \A n \in 1 .. Len(child_jobs[i]) : child_jobs[i][n] < newjob[p]
    /\ \A q \in Producer : pc[q] = "attach" => newjob[q] < newjob[p]

\* The slots behind count_jobs are as shmget delivered them.
Fresh == \A i \in Job : i >= count_jobs => status[i] = 0 /\ child_jobs[i] = <<>>

\* What a thread has found out about the job it holds is still true.
Checked ==
    /\ \A p \in Producer : pc[p] \in {"write", "init", "attach"} => status[idx[p]] = 0
    /\ \A c \in Consumer : pc[c] \notin {"child", "childheld"} => kid[c] = 1
    /\ \A c \in Consumer : pc[c] \in {"child", "childheld", "giveup"} =>
        /\ status[idx[c]] = 0
        /\ kid[c] <= Len(child_jobs[idx[c]]) + 1
        /\ pc[c] = "childheld" => kid[c] <= Len(child_jobs[idx[c]])
        /\ \A n \in 1 .. kid[c] - 1 : Complete(child_jobs[idx[c]][n])

\* A sweep that ends with all_done has seen the root started.
RootSeen == \A c \in Consumer :
    /\ pc[c] = "done" => status[Root] # 0
    /\ pc[c] = "scan" /\ all_done[c] /\ idx[c] < 0 => status[Root] # 0
    /\ pc[c] \in {"child", "childheld", "giveup"} => ~all_done[c]

\* The inductive invariant, mutual exclusion and the single runner among it.
JInv ==
    /\ TypeOK /\ RWInv /\ Places /\ Unborn /\ Indexed /\ Ordered /\ Hidden /\ Fresh
    /\ JobMutexOwned /\ Checked /\ OneRunner /\ RootSeen
    /\ T!ChildrenFirst /\ T!Rooted
=============================================================================
