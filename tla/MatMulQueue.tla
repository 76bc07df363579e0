--------------------------- MODULE MatMulQueue ---------------------------
(***************************************************************************)
(* a3-parallel-matrix-multiplication/task2.cpp: producer processes put     *)
(* matrices into a ring in shared memory, worker processes multiply the    *)
(* two at its front, block by block, into a result segment at its end, and *)
(* the main process kills everybody once a single matrix is left and       *)
(* prints its trace.                                                       *)
(*                                                                         *)
(* One semaphore, mutex, guards the ring; a second one, empty, counts its  *)
(* free slots and is waited for while mutex is held.  A worker has two     *)
(* critical sections: in the first it takes and computes a block product,  *)
(* in the second it adds that product to the result.                       *)
(*                                                                         *)
(* Matrices are of size 2 x 2, so that a block is a number; matrixId and   *)
(* producerId, which nobody branches on, the sleeps and the messages are   *)
(* left out.  SIGTERM is asynchronous: a killed process may run on a while.*)
(***************************************************************************)
EXTENDS Integers

CONSTANTS Producer, Worker,  \* the NP and NW forked processes
          Q_SIZE, MAXJOBS,
          NewMatrix          \* what CreateJob puts into a matrix

ASSUME QueueAssumption ==
    /\ Producer \cap Worker = {}
    /\ Q_SIZE \in Nat /\ Q_SIZE >= 3
    /\ MAXJOBS \in Nat \ {0}
    /\ NewMatrix \in [0 .. 3 -> Int]

Slot == 0 .. Q_SIZE - 1
Process == Producer \cup Worker
Zero == [b \in 0 .. 3 |-> 0]

VARIABLES
    mutex,         \* the value of semaphore mutex
    empty,         \* the value of semaphore empty
    jobsCreated,
    inPointer, outPointer, count,
    status,        \* jobQueue[i].status
    matrix,        \* jobQueue[i].matrix, as its blocks 0 to 3
    resultIndex,   \* jobQueue[i].resultIndex
    pc,            \* the next step of each process
    killed,        \* the processes main has sent SIGTERM to
    job,           \* status1, status2, resPointer and D of each worker; res = -1 before its first block
    main,          \* "loop", "trace" or "exit"
    trace          \* the Final Trace main prints

ring == <<inPointer, outPointer, count>>
slots == <<status, matrix, resultIndex>>
vars == <<mutex, empty, jobsCreated, ring, slots, pc, killed, job, main, trace>>

Second == (outPointer + 1) % Q_SIZE   \* the slot behind the front
Goto(x, l) == pc' = [pc EXCEPT ![x] = l]

Init ==
    /\ mutex = 1 /\ empty = Q_SIZE
    /\ jobsCreated = 0 /\ inPointer = 0 /\ outPointer = 0 /\ count = 0
    /\ status = [i \in Slot |-> 0]
    /\ matrix = [i \in Slot |-> Zero]
    /\ resultIndex = [i \in Slot |-> 0]
    /\ pc = [x \in Process |-> "loop"]
    /\ killed = {}
    /\ job = [w \in Worker |-> [status1 |-> 0, status2 |-> 0, res |-> -1, D |-> 0]]
    /\ main = "loop" /\ trace = 0

\* Mutant of UpdateStatus: the second status always wraps around at 4.
UpdateStatusWraps(a, b) ==
    IF a = 4 /\ b = 4 THEN <<4, 4>>
    ELSE <<IF b % 2 = 1 THEN a + 1 ELSE a, (b + 1) % 4>>

\* The next statuses of two matrices that are being multiplied.
UpdateStatus(a, b) ==
    IF a = 4 /\ b = 4 THEN <<4, 4>>
    ELSE <<IF b % 2 = 1 THEN a + 1 ELSE a, IF a < 2 THEN (b + 1) % 4 ELSE b + 1>>

\* The block of a matrix that a status selects: row (s>1), column s%2.
Block(s) == (IF s > 1 THEN 2 ELSE 0) + (s % 2)

\* The product ComputeBlockProduct stores in D.
BlockProduct == matrix[outPointer][Block(status[outPointer])] * matrix[Second][Block(status[Second])]

\* Mutant of cblockindex: status1 is not shifted.
cblockindexUnshifted(a, b) == (a % 2) * 2 + (b % 2)

\* The block of the result that the product of blocks a and b belongs to.
cblockindex(a, b) == ((a \div 2) % 2) * 2 + (b % 2)

\* Mutant of Insert: inPointer wraps around one slot too early.
InsertWrapsEarly(m) ==
    /\ empty' = empty - 1
    /\ count' = count + 1
    /\ status' = [status EXCEPT ![inPointer] = 0]
    /\ matrix' = [matrix EXCEPT ![inPointer] = m]
    /\ inPointer' = (inPointer + 1) % (Q_SIZE - 1)

\* sem_wait(empty) has returned: m takes the slot at inPointer.  A ring with a free
\* slot is not full (RingInv), so that the return of lines 120-123 is never taken;
\* FirstBlock has the one of InsertResultJob.
Insert(m) ==
    /\ empty' = empty - 1
    /\ count' = count + 1
    /\ status' = [status EXCEPT ![inPointer] = 0]
    /\ matrix' = [matrix EXCEPT ![inPointer] = m]
    /\ inPointer' = (inPointer + 1) % Q_SIZE

-----------------------------------------------------------------------------
(* A producer.                                                             *)

\* Mutant of EnterProducer: no slot is kept for the result.
EnterProducerFills(p) ==
    /\ pc[p] = "loop" /\ mutex = 1
    /\ IF jobsCreated = MAXJOBS
       THEN Goto(p, "exit") /\ UNCHANGED mutex
       ELSE count < Q_SIZE /\ mutex' = 0 /\ Goto(p, "insert")
    /\ UNCHANGED <<empty, jobsCreated, ring, slots, killed, job, main, trace>>

\* A producer whose matrix would take the last slot gives mutex back at once
\* and tries again: a step that changes nothing.
EnterProducer(p) ==
    /\ pc[p] = "loop" /\ mutex = 1
    /\ IF jobsCreated = MAXJOBS
       THEN Goto(p, "exit") /\ UNCHANGED mutex
       ELSE count < Q_SIZE - 1 /\ mutex' = 0 /\ Goto(p, "insert")
    /\ UNCHANGED <<empty, jobsCreated, ring, slots, killed, job, main, trace>>

InsertJob(p) ==
    /\ pc[p] = "insert" /\ empty > 0
    /\ Insert(NewMatrix)
    /\ resultIndex' = [resultIndex EXCEPT ![inPointer] = -1]
    /\ jobsCreated' = jobsCreated + 1
    /\ mutex' = 1
    /\ Goto(p, "loop")
    /\ UNCHANGED <<outPointer, killed, job, main, trace>>

-----------------------------------------------------------------------------
(* A worker.                                                               *)

\* With less than two matrices, or none of their blocks left, a worker gives
\* mutex back at once: a step that changes nothing.
EnterWorker(w) ==
    /\ pc[w] = "loop" /\ mutex = 1
    /\ count >= 2
    /\ <<status[outPointer], status[Second]>> # <<4, 4>>
    /\ mutex' = 0
    /\ Goto(w, IF status[outPointer] = 0 /\ status[Second] = 0 THEN "first" ELSE "block")
    /\ UNCHANGED <<empty, jobsCreated, ring, slots, killed, job, main, trace>>

\* The first block of two matrices: their result gets a slot (InsertResultJob).
\* In a full ring the worker exits and keeps mutex.
FirstBlock(w) ==
    /\ pc[w] = "first" /\ empty > 0
    /\ IF count = Q_SIZE
       THEN /\ empty' = empty - 1
            /\ Goto(w, "exit")
            /\ UNCHANGED <<inPointer, count, slots>>
       ELSE /\ Insert(Zero)
            /\ resultIndex' = [resultIndex EXCEPT
                   ![inPointer] = -1, ![outPointer] = inPointer, ![Second] = inPointer]
            /\ Goto(w, "block")
    /\ UNCHANGED <<mutex, jobsCreated, outPointer, killed, job, main, trace>>

\* Mutant of TakeBlock: only one of the two freed slots is posted to empty.
TakeBlockPostsOnce(w) ==
    LET next == UpdateStatus(status[outPointer], status[Second])
        last == next = <<4, 4>>
    IN  /\ pc[w] = "block"
        /\ job' = [job EXCEPT ![w] = [status1 |-> status[outPointer], status2 |-> status[Second],
                                      res |-> resultIndex[outPointer], D |-> BlockProduct]]
        /\ status' = [status EXCEPT ![outPointer] = next[1], ![Second] = next[2]]
        /\ outPointer' = IF last THEN (outPointer + 2) % Q_SIZE ELSE outPointer
        /\ count' = IF last THEN count - 2 ELSE count
        /\ empty' = IF last THEN empty + 1 ELSE empty
        /\ mutex' = 1
        /\ Goto(w, "add")
        /\ UNCHANGED <<jobsCreated, inPointer, matrix, resultIndex, killed, main, trace>>

\* The block product is computed, the statuses advance, and with the last
\* block both matrices leave the ring.
TakeBlock(w) ==
    LET next == UpdateStatus(status[outPointer], status[Second])
        last == next = <<4, 4>>
    IN  /\ pc[w] = "block"
        /\ job' = [job EXCEPT ![w] = [status1 |-> status[outPointer], status2 |-> status[Second],
                                      res |-> resultIndex[outPointer], D |-> BlockProduct]]
        /\ status' = [status EXCEPT ![outPointer] = next[1], ![Second] = next[2]]
        /\ outPointer' = IF last THEN (outPointer + 2) % Q_SIZE ELSE outPointer
        /\ count' = IF last THEN count - 2 ELSE count
        /\ empty' = IF last THEN empty + 2 ELSE empty
        /\ mutex' = 1
        /\ Goto(w, "add")
        /\ UNCHANGED <<jobsCreated, inPointer, matrix, resultIndex, killed, main, trace>>

\* The second critical section.
AddBlock(w) ==
    /\ pc[w] = "add" /\ mutex = 1
    /\ matrix' = [matrix EXCEPT ![job[w].res][cblockindex(job[w].status1, job[w].status2)] =
                      @ + job[w].D]
    /\ Goto(w, "loop")
    /\ UNCHANGED <<mutex, empty, jobsCreated, ring, status, resultIndex, killed, job, main, trace>>

-----------------------------------------------------------------------------
(* The main process.                                                       *)

Stop ==
    /\ main = "loop" /\ mutex = 1
    /\ jobsCreated = MAXJOBS /\ count = 1
    /\ killed' = Process
    /\ main' = "trace"
    /\ UNCHANGED <<mutex, empty, jobsCreated, ring, slots, pc, job, trace>>

\* SIGTERM reaches x.
Die(x) ==
    /\ x \in killed /\ pc[x] \notin {"exit", "dead"}
    /\ Goto(x, "dead")
    /\ UNCHANGED <<mutex, empty, jobsCreated, ring, slots, killed, job, main, trace>>

\* Blocks 0 and 3 are on the diagonal.
Trace(m) == m[0] + m[3]

PrintTrace ==
    /\ main = "trace"
    /\ trace' = Trace(matrix[outPointer])
    /\ main' = "exit"
    /\ UNCHANGED <<mutex, empty, jobsCreated, ring, slots, pc, killed, job>>

Terminated == main = "exit" /\ UNCHANGED vars

ProducerStep(p) == EnterProducer(p) \/ InsertJob(p) \/ Die(p)
WorkerStep(w) == EnterWorker(w) \/ FirstBlock(w) \/ TakeBlock(w) \/ AddBlock(w) \/ Die(w)

Next ==
    \/ \E p \in Producer : ProducerStep(p)
    \/ \E w \in Worker : WorkerStep(w)
    \/ Stop \/ PrintTrace
    \/ Terminated

Spec == Init /\ [][Next]_vars

\* The scheduler runs every process, and a process that keeps calling sem_wait
\* on mutex gets it if it is posted again and again.
Fairness ==
    /\ \A p \in Producer : SF_vars(ProducerStep(p))
    /\ \A w \in Worker : SF_vars(WorkerStep(w))
    /\ SF_vars(Stop) /\ WF_vars(PrintTrace)

FairSpec == Spec /\ Fairness

-----------------------------------------------------------------------------
Int4 == [0 .. 3 -> Int]

TypeOK ==
    /\ mutex \in {0, 1} /\ empty \in 0 .. Q_SIZE /\ count \in 0 .. Q_SIZE
    /\ jobsCreated \in 0 .. MAXJOBS
    /\ inPointer \in Slot /\ outPointer \in Slot
    /\ status \in [Slot -> 0 .. 4]
    /\ matrix \in [Slot -> Int4]
    /\ resultIndex \in [Slot -> Slot \cup {-1}]
    /\ pc \in [Process -> {"loop", "insert", "first", "block", "add", "exit", "dead"}]
    /\ killed \in SUBSET Process
    /\ job \in [Worker -> [status1 : 0 .. 4, status2 : 0 .. 4, res : Slot \cup {-1}, D : Int]]
    /\ main \in {"loop", "trace", "exit"} /\ trace \in Int

\* The slots of the ring in use, from the front.
Queue == {(outPointer + n) % Q_SIZE : n \in 0 .. count - 1}

\* The front two matrices are being multiplied.
Started == count >= 2 /\ <<status[outPointer], status[Second]>> # <<0, 0>>

\* inPointer, outPointer, count and empty agree.
RingConsistent ==
    /\ empty + count = Q_SIZE
    /\ inPointer = (outPointer + count) % Q_SIZE

\* Types and the pointers of the ring together.
RingInv == TypeOK /\ RingConsistent

\* Whoever waits for empty holds mutex, so nobody could ever post it: the ring
\* keeps a slot for the result of its front (lines 32-33), and InsertResultJob
\* never finds the ring full.
SlotReserved == \A x \in Process :
    pc[x] \in {"insert", "first"} => empty > 0 /\ count < Q_SIZE

\* The table of lines 35-48.
Table == <<<<0, 0>>, <<0, 1>>, <<1, 2>>, <<1, 3>>, <<2, 0>>, <<2, 1>>, <<3, 2>>, <<3, 3>>, <<4, 4>>>>
Statuses == <<status[outPointer], status[Second]>>

\* Only the front two matrices are ever in work; their statuses are a row of
\* the table, and both name the slot of their result, which is in the ring.
OnlyFrontStarted ==
    /\ \A i \in Queue : status[i] # 0 => Started /\ i \in {outPointer, Second}
    /\ Started =>
        /\ \E n \in 2 .. 8 : Table[n] = Statuses
        /\ resultIndex[outPointer] = resultIndex[Second]
        /\ resultIndex[outPointer] \in Queue \ {outPointer, Second}

\* Block products are handed out row by row, none twice and none left out.
BlocksInOrder ==
    [][count >= 2 =>
         LET new == <<status'[outPointer], status'[Second]>>
         IN  \/ new = Statuses /\ UNCHANGED outPointer
             \/ \E n \in 1 .. 8 : /\ <<Statuses, new>> = <<Table[n], Table[n + 1]>>
                                  /\ n = 8 <=> outPointer' # outPointer]_vars

\* The reference: the n-th power of the matrix the producers create.
MatProd(A, B) == [b \in 0 .. 3 |->
    A[2 * (b \div 2)] * B[b % 2] + A[2 * (b \div 2) + 1] * B[2 + (b % 2)]]
Power[n \in 1 .. MAXJOBS] == IF n = 1 THEN NewMatrix ELSE MatProd(Power[n - 1], NewMatrix)

\* No worker is in the middle of a block, from taking it to having added it.
NothingOutstanding == \A w \in Worker : pc[w] \in {"loop", "exit"}

\* No two workers have ever taken a block.
OneServes == \A v, w \in Worker : job[v].res # -1 /\ job[w].res # -1 => v = w

\* From the front to the end of the ring, e counts the created matrices that have
\* gone in: each matrix of the ring is the product of those it adds, but for the
\* unfinished result, which adds none; and together they are all, each once.
\* This holds as long as one worker does all the work: of two, one may be late
\* with its sum (see FinalTrace).
FactorsConserved == NothingOutstanding /\ OneServes =>
    \E e \in [0 .. count -> 0 .. jobsCreated] :
        /\ e[0] = 0 /\ e[count] = jobsCreated
        /\ \A n \in 0 .. count - 1 :
              LET i == (outPointer + n) % Q_SIZE
              IN  IF Started /\ i = resultIndex[outPointer] THEN e[n + 1] = e[n]
                  ELSE e[n] < e[n + 1] /\ matrix[i] = Power[e[n + 1] - e[n]]

\* README.md line 20, "a deadlock-free producer consumer problem": whatever the
\* order in which processes get mutex, main finishes.
Finishes == <>(main = "exit")

\* The comment of line 110 says what Final Trace is when all matrices are 2.I.
\* It does not hold: main may stop before the last products are added.
FinalTrace == main = "exit" => trace = 2 * 2 ^ MAXJOBS
=============================================================================
