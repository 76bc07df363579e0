------------------------ MODULE MatMulQueueProofs ------------------------
(***************************************************************************)
(* The ring of task2.cpp, for any numbers of producers and workers and any *)
(* length of the ring: its pointers and semaphores agree, nobody waits for *)
(* a slot that nobody could free, blocks are handed out in order, and each *)
(* created matrix goes into exactly one product as long as one worker does *)
(* all the work.                                                           *)
(***************************************************************************)
EXTENDS MatMulQueue, WellFoundedInduction, TLAPS

\* The slot n behind the front of the ring.
At(n) == (outPointer + n) % Q_SIZE

LEMMA Modulo ==
  ASSUME NEW a \in 0 .. 2 * Q_SIZE - 1
  PROVE  a % Q_SIZE = IF a < Q_SIZE THEN a ELSE a - Q_SIZE
  BY QueueAssumption

LEMMA AtValue ==
  ASSUME outPointer \in Slot, NEW n \in 0 .. Q_SIZE
  PROVE  At(n) = IF outPointer + n < Q_SIZE THEN outPointer + n ELSE outPointer + n - Q_SIZE
<1>1. outPointer + n \in 0 .. 2 * Q_SIZE - 1
  BY QueueAssumption DEF Slot
<1>2. Q_SIZE \in Nat /\ outPointer \in Nat
  BY QueueAssumption DEF Slot
<1> QED BY <1>1, <1>2, Modulo DEF At

\* Different places of the ring are different slots.
LEMMA AtApart ==
  ASSUME outPointer \in Slot
  PROVE  /\ At(0) = outPointer /\ At(1) = Second
         /\ \A n \in 0 .. Q_SIZE : At(n) \in Slot
         /\ \A m, n \in 0 .. Q_SIZE - 1 : At(m) = At(n) => m = n
<1>1. Q_SIZE \in Nat /\ Q_SIZE >= 3
  BY QueueAssumption
<1>2. At(0) = outPointer /\ At(1) = Second
  BY <1>1, AtValue DEF At, Second, Slot
<1>3. \A n \in 0 .. Q_SIZE : At(n) \in Slot
  BY <1>1, AtValue DEF Slot
<1>4. ASSUME NEW m \in 0 .. Q_SIZE - 1, NEW n \in 0 .. Q_SIZE - 1, At(m) = At(n)
      PROVE  m = n
  BY <1>1, <1>4, AtValue DEF Slot
<1> QED BY <1>2, <1>3, <1>4

\* UpdateStatus goes through the rows of the table one by one.
LEMMA RowByRow ==
  /\ \A n \in 1 .. 9 : /\ Table[n] = <<Table[n][1], Table[n][2]>>
                       /\ Table[n][1] \in 0 .. 4 /\ Table[n][2] \in 0 .. 4
                       /\ Table[n] = <<0, 0>> <=> n = 1
                       /\ Table[n] = <<4, 4>> <=> n = 9
  /\ \A n \in 1 .. 8 : UpdateStatus(Table[n][1], Table[n][2]) = Table[n + 1]
<1>1. /\ Table[1] = <<0, 0>> /\ Table[2] = <<0, 1>> /\ Table[3] = <<1, 2>>
      /\ Table[4] = <<1, 3>> /\ Table[5] = <<2, 0>> /\ Table[6] = <<2, 1>>
      /\ Table[7] = <<3, 2>> /\ Table[8] = <<3, 3>> /\ Table[9] = <<4, 4>>
  BY DEF Table
<1>2. ASSUME NEW n \in 1 .. 9
      PROVE  /\ Table[n] = <<Table[n][1], Table[n][2]>>
             /\ Table[n][1] \in 0 .. 4 /\ Table[n][2] \in 0 .. 4
             /\ Table[n] = <<0, 0>> <=> n = 1
             /\ Table[n] = <<4, 4>> <=> n = 9
  <2>1. n = 1 \/ n = 2 \/ n = 3 \/ n = 4 \/ n = 5 \/ n = 6 \/ n = 7 \/ n = 8 \/ n = 9
    OBVIOUS
  <2> QED BY <1>1, <2>1
<1>3. ASSUME NEW n \in 1 .. 8
      PROVE  UpdateStatus(Table[n][1], Table[n][2]) = Table[n + 1]
  <2>1. n = 1 \/ n = 2 \/ n = 3 \/ n = 4 \/ n = 5 \/ n = 6 \/ n = 7 \/ n = 8
    OBVIOUS
  <2> QED BY <1>1, <2>1 DEF UpdateStatus
<1> QED BY <1>2, <1>3

-----------------------------------------------------------------------------
(* The inductive invariant.                                                *)

\* The processes between the acquisition of mutex and its release.
Inside == {x \in Process : pc[x] \in {"insert", "first", "block"}}

\* mutex keeps them apart; SIGTERM comes when nobody is inside, nor will be again.
Guarded ==
    /\ \A x \in Inside : mutex = 0
    /\ \A x, y \in Inside : x = y
    /\ \A p \in Producer : pc[p] \in {"loop", "insert", "exit", "dead"}
    /\ \A w \in Worker : pc[w] \in {"loop", "first", "block", "add", "exit", "dead"}
    /\ killed # {} => Inside = {} /\ count = 1 /\ jobsCreated = MAXJOBS

\* The front matrices are being multiplied, or will be in the same critical section.
InWork == Started \/ \E w \in Worker : pc[w] = "block"

\* Only the front two matrices have a status, a row of the table; once they are in
\* work they have their result in the ring, and otherwise a slot is left for it.
Front ==
    /\ \A n \in 0 .. count - 1 : status[At(n)] # 0 => n < 2 /\ count >= 2
    /\ count >= 2 => \E n \in 1 .. 8 : Table[n] = Statuses
    /\ InWork => \E m \in 2 .. count - 1 : resultIndex[outPointer] = At(m) /\ resultIndex[Second] = At(m)
    /\ count = Q_SIZE => InWork

\* What a process has seen in the ring before it waits for a slot is still there.
Ready ==
    /\ \A p \in Producer : pc[p] = "insert" => count < Q_SIZE - 1 /\ jobsCreated < MAXJOBS
    /\ \A w \in Worker : pc[w] = "first" => count >= 2 /\ count < Q_SIZE /\ Statuses = <<0, 0>>
    /\ \A w \in Worker : pc[w] = "block" => count >= 3

QInv == TypeOK /\ RingConsistent /\ Guarded /\ Front /\ Ready

LEMMA QInvInit == Init => QInv
<1> SUFFICES ASSUME Init PROVE QInv
  OBVIOUS
<1> USE QueueAssumption DEF Init, Slot, Process
<1>1. TypeOK
  <2>1. Zero \in Int4
    BY DEF Zero, Int4
  <2> QED BY <2>1 DEF TypeOK, Zero
<1>2. RingConsistent
  <2>1. 0 % Q_SIZE = 0
    BY Modulo
  <2> QED BY <2>1 DEF RingConsistent
<1>3. Guarded /\ Ready
  BY DEF Guarded, Ready, Inside
<1>4. Front
  BY DEF Front, InWork, Started
<1> QED BY <1>1, <1>2, <1>3, <1>4 DEF QInv


\* Two slots further on, every slot is two places nearer.
LEMMA MovedOn ==
  ASSUME outPointer \in Slot, outPointer' = (outPointer + 2) % Q_SIZE
  PROVE  outPointer' \in Slot /\ \A n \in 0 .. Q_SIZE - 2 : At(n)' = At(n + 2)
<1>1. Q_SIZE \in Nat /\ Q_SIZE >= 3 /\ outPointer \in Nat /\ outPointer < Q_SIZE
  BY QueueAssumption DEF Slot
<1>2. outPointer' = IF outPointer + 2 < Q_SIZE THEN outPointer + 2 ELSE outPointer + 2 - Q_SIZE
  BY <1>1, Modulo, outPointer + 2 \in 0 .. 2 * Q_SIZE - 1
<1>3. outPointer' \in Slot
  BY <1>1, <1>2 DEF Slot
<1>4. ASSUME NEW n \in 0 .. Q_SIZE - 2
      PROVE  At(n)' = At(n + 2)
  <2>1. At(n + 2) = IF outPointer + (n + 2) < Q_SIZE THEN outPointer + (n + 2) ELSE outPointer + (n + 2) - Q_SIZE
    BY <1>1, AtValue, n + 2 \in 0 .. Q_SIZE
  <2>2. outPointer' + n \in 0 .. 2 * Q_SIZE - 1
    BY <1>1, <1>3 DEF Slot
  <2>3. At(n)' = IF outPointer' + n < Q_SIZE THEN outPointer' + n ELSE outPointer' + n - Q_SIZE
    BY <1>1, <1>3, <2>2, Modulo DEF At, Slot
  <2> QED BY <1>1, <1>2, <2>1, <2>3
<1> QED BY <1>3, <1>4

\* A matrix goes into the first free slot, and the others stay where they are.
LEMMA Inserted ==
  ASSUME TypeOK, RingConsistent, count < Q_SIZE, NEW m \in Int4, Insert(m), UNCHANGED outPointer
  PROVE  /\ empty' \in 0 .. Q_SIZE /\ count' \in 0 .. Q_SIZE /\ inPointer' \in Slot
         /\ status' \in [Slot -> 0 .. 4] /\ matrix' \in [Slot -> Int4]
         /\ RingConsistent' /\ count' = count + 1 /\ inPointer = At(count)
         /\ \A n \in 0 .. Q_SIZE : At(n)' = At(n)
         /\ \A n \in 0 .. count - 1 : At(n) # inPointer /\ status'[At(n)] = status[At(n)]
         /\ status'[At(count)] = 0
<1>1. /\ Q_SIZE \in Nat /\ Q_SIZE >= 3 /\ outPointer \in Slot /\ inPointer \in Slot
      /\ count \in 0 .. Q_SIZE - 1 /\ empty \in Nat /\ empty + count = Q_SIZE
      /\ status \in [Slot -> 0 .. 4] /\ matrix \in [Slot -> Int4]
  BY QueueAssumption DEF TypeOK, RingConsistent
<1>2. inPointer = At(count) /\ count' = count + 1 /\ empty' = empty - 1
  BY DEF RingConsistent, At, Insert
<1>3. \A n \in 0 .. Q_SIZE : At(n)' = At(n)
  BY DEF At
<1>4. status' \in [Slot -> 0 .. 4] /\ matrix' \in [Slot -> Int4]
  BY <1>1 DEF Insert
<1>5. inPointer' = At(count + 1)
  <2>1. At(count) = IF outPointer + count < Q_SIZE THEN outPointer + count ELSE outPointer + count - Q_SIZE
    BY <1>1, AtValue
  <2>2. At(count + 1) = IF outPointer + (count + 1) < Q_SIZE THEN outPointer + (count + 1)
                        ELSE outPointer + (count + 1) - Q_SIZE
    BY <1>1, AtValue, count + 1 \in 0 .. Q_SIZE
  <2>3. /\ inPointer' = (inPointer + 1) % Q_SIZE /\ inPointer + 1 \in 0 .. 2 * Q_SIZE - 1
        /\ inPointer \in Nat /\ Q_SIZE \in Nat
    BY <1>1 DEF Insert, Slot
  <2>4. inPointer' = IF inPointer + 1 < Q_SIZE THEN inPointer + 1 ELSE inPointer + 1 - Q_SIZE
    BY <2>3, Modulo
  <2> QED BY <1>1, <1>2, <2>1, <2>2, <2>4 DEF Slot
<1>6. inPointer' \in Slot
  BY <1>1, <1>5, AtApart, count + 1 \in 0 .. Q_SIZE
<1>7. RingConsistent'
  BY <1>1, <1>2, <1>5 DEF RingConsistent, At
<1>8. ASSUME NEW n \in 0 .. count - 1
      PROVE  At(n) # inPointer /\ status'[At(n)] = status[At(n)]
  <2>1. At(n) # inPointer /\ At(n) \in Slot
    BY <1>1, <1>2, AtApart
  <2> QED BY <1>1, <2>1 DEF Insert
<1>9. status'[At(count)] = 0
  BY <1>1, <1>2 DEF Insert
<1> QED BY <1>1, <1>2, <1>3, <1>4, <1>6, <1>7, <1>8, <1>9

-----------------------------------------------------------------------------
(* One lemma per action that changes the ring, or what may be done with it. *)

LEMMA EnterProducerKeeps ==
  ASSUME QInv, NEW p \in Producer, EnterProducer(p)
  PROVE  QInv'
<1>1. /\ pc[p] = "loop" /\ mutex = 1 /\ Inside = {}
      /\ UNCHANGED <<empty, jobsCreated, ring, slots, killed, job, main, trace>>
      /\ p \in Process /\ p \notin Worker /\ pc \in [Process -> {"loop", "insert", "first", "block", "add", "exit", "dead"}]
  BY QueueAssumption DEF EnterProducer, QInv, Guarded, Inside, TypeOK, Process
<1>2. \/ jobsCreated = MAXJOBS /\ pc' = [pc EXCEPT ![p] = "exit"] /\ UNCHANGED mutex
      \/ jobsCreated # MAXJOBS /\ count < Q_SIZE - 1 /\ mutex' = 0 /\ pc' = [pc EXCEPT ![p] = "insert"]
  BY DEF EnterProducer, Goto
<1>3. TypeOK'
  BY <1>1, <1>2 DEF TypeOK, QInv, ring, slots
<1>4. RingConsistent'
  BY <1>1 DEF RingConsistent, QInv, ring
<1>5. Guarded'
  <2>1. Inside' \subseteq {p} /\ (Inside' # {} => mutex' = 0 /\ jobsCreated # MAXJOBS)
    BY <1>1, <1>2 DEF Inside
  <2>2. /\ \A x \in Process : x # p => pc'[x] = pc[x]
        /\ pc'[p] \in {"insert", "exit"}
    BY <1>1, <1>2
  <2>3. killed' # {} => Inside' = {} /\ count' = 1 /\ jobsCreated' = MAXJOBS
    BY <1>1, <2>1 DEF Guarded, QInv, ring
  <2> QED BY <1>1, <2>1, <2>2, <2>3 DEF Guarded, QInv, Process
<1>6. Front'
  <2>1. \A w \in Worker : pc'[w] = pc[w]
    BY <1>1, <1>2 DEF Process
  <2> QED BY <1>1, <2>1 DEF Front, InWork, Started, Statuses, At, Second, QInv, ring, slots
<1>7. Ready'
  <2>1. \A x \in Process : x # p => pc'[x] = pc[x]
    BY <1>1, <1>2
  <2>2. Inside = {} => \A x \in Process : pc[x] \notin {"insert", "first", "block"}
    BY DEF Inside
  <2>3. jobsCreated \in 0 .. MAXJOBS /\ MAXJOBS \in Nat
    BY QueueAssumption DEF QInv, TypeOK
  <2>4. pc'[p] = "insert" => count < Q_SIZE - 1 /\ jobsCreated < MAXJOBS
    BY <1>1, <1>2, <2>3
  <2> QED BY <1>1, <2>1, <2>2, <2>4 DEF Ready, Process, ring
<1> QED BY <1>3, <1>4, <1>5, <1>6, <1>7 DEF QInv

LEMMA EnterWorkerKeeps ==
  ASSUME QInv, NEW w \in Worker, EnterWorker(w)
  PROVE  QInv'
<1>1. /\ pc[w] = "loop" /\ mutex = 1 /\ mutex' = 0 /\ Inside = {} /\ count >= 2 /\ killed = {}
      /\ UNCHANGED <<empty, jobsCreated, ring, slots, killed, job, main, trace>>
      /\ w \in Process /\ w \notin Producer /\ count \in Nat /\ count <= Q_SIZE
      /\ pc \in [Process -> {"loop", "insert", "first", "block", "add", "exit", "dead"}]
  BY QueueAssumption DEF EnterWorker, QInv, Guarded, Inside, TypeOK, Process
<1>2. \/ Statuses = <<0, 0>> /\ pc' = [pc EXCEPT ![w] = "first"]
      \/ Statuses # <<0, 0>> /\ pc' = [pc EXCEPT ![w] = "block"]
  BY DEF EnterWorker, Goto, Statuses
<1>3. \A x \in Process : pc[x] \notin {"insert", "first", "block"} /\ (x # w => pc'[x] = pc[x])
  BY <1>1, <1>2 DEF Inside
<1>4. Started <=> Statuses # <<0, 0>>
  BY <1>1 DEF Started, Statuses
<1>5. /\ InWork <=> Started
      /\ InWork' <=> Started
      /\ Statuses' = Statuses
  <2>1. Started' <=> Started
    BY <1>1 DEF Started, Second, ring, slots
  <2> QED BY <1>1, <1>2, <1>3, <1>4, <2>1 DEF InWork, Process, Statuses, Second, ring, slots
<1>6. TypeOK'
  BY <1>1, <1>2 DEF TypeOK, QInv, ring, slots
<1>7. RingConsistent'
  BY <1>1 DEF RingConsistent, QInv, ring
<1>8. Guarded'
  <2>1. Inside' \subseteq {w} /\ pc'[w] \in {"first", "block"}
    BY <1>1, <1>2, <1>3 DEF Inside
  <2>2. killed' = {}
    BY <1>1
  <2> QED BY <1>1, <1>3, <2>1, <2>2 DEF Guarded, QInv, Process
<1>9. Front'
  BY <1>1, <1>5 DEF Front, At, Second, QInv, ring, slots, Statuses
<1>10. Ready'
  <2>1. pc'[w] = "first" => count < Q_SIZE /\ Statuses = <<0, 0>>
    <3>1. pc'[w] = "first" => Statuses = <<0, 0>>
      BY <1>1, <1>2
    <3>2. count = Q_SIZE => Statuses # <<0, 0>>
      BY <1>4, <1>5 DEF QInv, Front
    <3>3. Q_SIZE \in Nat
      BY QueueAssumption
    <3> QED BY <1>1, <3>1, <3>2, <3>3
  <2>2. pc'[w] = "block" => count >= 3
    BY <1>1, <1>2, <1>4, <1>5 DEF QInv, Front
  <2> QED BY <1>1, <1>3, <1>5, <2>1, <2>2 DEF Ready, Process, ring
<1> QED BY <1>6, <1>7, <1>8, <1>9, <1>10 DEF QInv

LEMMA InsertJobKeeps ==
  ASSUME QInv, NEW p \in Producer, InsertJob(p)
  PROVE  QInv'
<1>1. /\ pc[p] = "insert" /\ mutex' = 1 /\ jobsCreated' = jobsCreated + 1 /\ Insert(NewMatrix)
      /\ resultIndex' = [resultIndex EXCEPT ![inPointer] = -1]
      /\ pc' = [pc EXCEPT ![p] = "loop"]
      /\ UNCHANGED <<outPointer, killed, job, main, trace>>
  BY DEF InsertJob, Goto
<1>2. /\ p \in Process /\ p \notin Worker /\ Inside = {p} /\ killed = {}
      /\ pc \in [Process -> {"loop", "insert", "first", "block", "add", "exit", "dead"}]
      /\ resultIndex \in [Slot -> Slot \cup {-1}] /\ outPointer \in Slot
      /\ count \in Nat /\ count < Q_SIZE - 1 /\ Q_SIZE \in Nat /\ Q_SIZE >= 3
      /\ jobsCreated \in 0 .. MAXJOBS /\ jobsCreated < MAXJOBS /\ MAXJOBS \in Nat
  BY <1>1, QueueAssumption DEF QInv, Guarded, Inside, TypeOK, Process, Ready
<1>3. /\ empty' \in 0 .. Q_SIZE /\ count' \in 0 .. Q_SIZE /\ inPointer' \in Slot
      /\ status' \in [Slot -> 0 .. 4] /\ matrix' \in [Slot -> Int4]
      /\ RingConsistent' /\ count' = count + 1 /\ inPointer = At(count)
      /\ \A n \in 0 .. Q_SIZE : At(n)' = At(n)
      /\ \A n \in 0 .. count - 1 : At(n) # inPointer /\ status'[At(n)] = status[At(n)]
      /\ status'[At(count)] = 0
  BY <1>1, <1>2, QueueAssumption, Inserted DEF QInv, Int4
<1>4. \A x \in Process : x # p => pc'[x] = pc[x] /\ pc[x] \notin {"insert", "first", "block"}
  BY <1>1, <1>2 DEF Inside
<1>5. pc'[p] = "loop"
  BY <1>1, <1>2
<1>6. TypeOK'
  <2>1. resultIndex' \in [Slot -> Slot \cup {-1}]
    BY <1>1, <1>2
  <2>2. pc' \in [Process -> {"loop", "insert", "first", "block", "add", "exit", "dead"}]
    BY <1>1, <1>2
  <2>3. jobsCreated' \in 0 .. MAXJOBS /\ mutex' \in {0, 1}
    BY <1>1, <1>2
  <2> QED BY <1>1, <1>3, <2>1, <2>2, <2>3 DEF TypeOK, QInv
<1>7. Guarded'
  <2>1. Inside' = {} /\ killed' = {}
    BY <1>1, <1>2, <1>4, <1>5 DEF Inside
  <2> QED BY <1>4, <1>5, <2>1 DEF Guarded, QInv, Process
<1>8. Ready'
  BY <1>2, <1>4, <1>5 DEF Ready, Process
<1>9. Front'
  <2>1. At(0) = outPointer /\ At(1) = Second /\ (At(0) = outPointer)' /\ (At(1) = Second)'
    BY <1>1, <1>2, AtApart DEF At, Second
  <2>2. ASSUME NEW n \in 0 .. count' - 1, status'[At(n)'] # 0
        PROVE  n < 2 /\ count' >= 2
    <3>1. n # count
      BY <1>2, <1>3, <2>2
    <3>2. n \in 0 .. count - 1 /\ status[At(n)] # 0
      BY <1>2, <1>3, <2>2, <3>1
    <3> QED BY <1>2, <1>3, <3>2 DEF QInv, Front
  <2>3. count >= 2 => Statuses' = Statuses
    BY <1>2, <1>3, <2>1, 0 \in 0 .. Q_SIZE, 1 \in 0 .. Q_SIZE DEF Statuses
  <2>4. count = 1 => Statuses' = <<0, 0>>
    <3>1. count = 1 => status[At(0)] = 0
      BY <1>2 DEF QInv, Front
    <3>2. count = 1 => status'[At(0)'] = 0 /\ status'[At(1)'] = 0
      BY <1>2, <1>3, <3>1, 0 \in 0 .. Q_SIZE, 1 \in 0 .. Q_SIZE
    <3> QED BY <2>1, <3>2 DEF Statuses
  <2>5. count' >= 2 => \E n \in 1 .. 8 : Table[n] = Statuses'
    <3>1. Table[1] = <<0, 0>>
      BY DEF Table
    <3>2. count' >= 2 => count >= 2 \/ count = 1
      BY <1>2, <1>3
    <3> QED BY <2>3, <2>4, <3>1, <3>2, 1 \in 1 .. 8 DEF QInv, Front
  <2>6. InWork' => count >= 2 /\ Started
    <3>1. InWork' => Started'
      BY <1>2, <1>4, <1>5 DEF InWork, Process
    <3>2. Started' => count >= 2 \/ count = 1
      BY <1>2, <1>3 DEF Started
    <3>3. Started' <=> count' >= 2 /\ Statuses' # <<0, 0>>
      BY DEF Started, Statuses
    <3>4. Started <=> count >= 2 /\ Statuses # <<0, 0>>
      BY DEF Started, Statuses
    <3> QED BY <2>3, <2>4, <3>1, <3>2, <3>3, <3>4
  <2>7. ASSUME InWork'
        PROVE  \E m \in 2 .. count' - 1 : resultIndex'[outPointer'] = At(m)' /\ resultIndex'[Second'] = At(m)'
    <3>1. PICK m \in 2 .. count - 1 : resultIndex[outPointer] = At(m) /\ resultIndex[Second] = At(m)
      BY <2>6, <2>7 DEF QInv, Front, InWork
    <3>2. outPointer # inPointer /\ Second # inPointer
      BY <1>2, <1>3, <2>1, <2>6, <2>7
    <3>3. Second \in Slot /\ Second' = Second
      BY <1>1, <1>2, <2>1, AtApart, 1 \in 0 .. Q_SIZE DEF Second
    <3>4. resultIndex'[outPointer] = At(m) /\ resultIndex'[Second] = At(m)
      BY <1>1, <1>2, <3>1, <3>2, <3>3
    <3> QED BY <1>1, <1>2, <1>3, <3>1, <3>3, <3>4
  <2>8. count' # Q_SIZE
    BY <1>2, <1>3
  <2> QED BY <2>2, <2>5, <2>7, <2>8 DEF Front
<1> QED BY <1>3, <1>6, <1>7, <1>8, <1>9 DEF QInv

LEMMA FirstBlockKeeps ==
  ASSUME QInv, NEW w \in Worker, FirstBlock(w)
  PROVE  QInv'
<1>1. /\ pc[w] = "first" /\ w \in Process /\ w \notin Producer /\ Inside = {w} /\ killed = {} /\ mutex = 0
      /\ pc \in [Process -> {"loop", "insert", "first", "block", "add", "exit", "dead"}]
      /\ resultIndex \in [Slot -> Slot \cup {-1}] /\ outPointer \in Slot /\ inPointer \in Slot
      /\ count \in Nat /\ count >= 2 /\ count < Q_SIZE /\ Q_SIZE \in Nat /\ Q_SIZE >= 3
      /\ Statuses = <<0, 0>>
  BY QueueAssumption DEF FirstBlock, QInv, Guarded, Inside, TypeOK, Process, Ready
<1>2. /\ Insert(Zero) /\ pc' = [pc EXCEPT ![w] = "block"]
      /\ resultIndex' = [resultIndex EXCEPT
             ![inPointer] = -1, ![outPointer] = inPointer, ![Second] = inPointer]
      /\ UNCHANGED <<mutex, jobsCreated, outPointer, killed, job, main, trace>>
  BY <1>1 DEF FirstBlock, Goto
<1>3. /\ empty' \in 0 .. Q_SIZE /\ count' \in 0 .. Q_SIZE /\ inPointer' \in Slot
      /\ status' \in [Slot -> 0 .. 4] /\ matrix' \in [Slot -> Int4]
      /\ RingConsistent' /\ count' = count + 1 /\ inPointer = At(count)
      /\ \A n \in 0 .. Q_SIZE : At(n)' = At(n)
      /\ \A n \in 0 .. count - 1 : At(n) # inPointer /\ status'[At(n)] = status[At(n)]
      /\ status'[At(count)] = 0
  <2>1. Zero \in Int4
    BY DEF Zero, Int4
  <2> QED BY <1>1, <1>2, <2>1, Inserted DEF QInv
<1>4. \A x \in Process : x # w => pc'[x] = pc[x] /\ pc[x] \notin {"insert", "first", "block"}
  BY <1>1, <1>2 DEF Inside
<1>5. pc'[w] = "block"
  BY <1>1, <1>2
<1>6. At(0) = outPointer /\ At(1) = Second /\ Second \in Slot /\ UNCHANGED Second /\ outPointer # Second
  BY <1>1, <1>2, AtApart, 0 \in 0 .. Q_SIZE - 1, 1 \in 0 .. Q_SIZE - 1, 1 \in 0 .. Q_SIZE DEF Second
<1>7. TypeOK'
  <2>1. resultIndex' \in [Slot -> Slot \cup {-1}]
    BY <1>1, <1>2, <1>6
  <2>2. pc' \in [Process -> {"loop", "insert", "first", "block", "add", "exit", "dead"}]
    BY <1>1, <1>2
  <2> QED BY <1>2, <1>3, <2>1, <2>2 DEF TypeOK, QInv
<1>8. Guarded'
  <2>1. Inside' = {w} /\ killed' = {} /\ mutex' = 0
    BY <1>1, <1>2, <1>4, <1>5 DEF Inside
  <2> QED BY <1>1, <1>4, <1>5, <2>1 DEF Guarded, QInv, Process
<1>9. Ready'
  BY <1>1, <1>3, <1>4, <1>5 DEF Ready, Process
<1>10. Front'
  <2>1. ASSUME NEW n \in 0 .. count' - 1, status'[At(n)'] # 0
        PROVE  n < 2 /\ count' >= 2
    <3>1. n # count
      BY <1>1, <1>3, <2>1
    <3>2. n \in 0 .. count - 1 /\ status[At(n)] # 0
      BY <1>1, <1>3, <2>1, <3>1
    <3> QED BY <1>1, <1>3, <3>2 DEF QInv, Front
  <2>2. Statuses' = <<0, 0>>
    <3>1. status'[outPointer] = status[outPointer] /\ status'[Second] = status[Second]
      BY <1>1, <1>3, <1>6, 0 \in 0 .. count - 1, 1 \in 0 .. count - 1
    <3> QED BY <1>1, <1>2, <1>6, <3>1 DEF Statuses
  <2>3. \E n \in 1 .. 8 : Table[n] = Statuses'
    BY <2>2, 1 \in 1 .. 8 DEF Table
  <2>4. resultIndex'[outPointer] = At(count) /\ resultIndex'[Second] = At(count)
    BY <1>1, <1>2, <1>3, <1>6
  <2>5. \E m \in 2 .. count' - 1 : resultIndex'[outPointer'] = At(m)' /\ resultIndex'[Second'] = At(m)'
    BY <1>1, <1>2, <1>3, <1>6, <2>4, count \in 2 .. count' - 1
  <2>6. InWork'
    BY <1>5 DEF InWork
  <2> QED BY <2>1, <2>3, <2>5, <2>6 DEF Front
<1> QED BY <1>3, <1>7, <1>8, <1>9, <1>10 DEF QInv

\* What a worker does with the statuses: the next row of the table, and with the
\* last one the ring moves on.
LEMMA BlockTaken ==
  ASSUME QInv, NEW w \in Worker, TakeBlock(w)
  PROVE  /\ At(0) = outPointer /\ At(1) = Second /\ Second \in Slot /\ outPointer # Second
         /\ count >= 3
         /\ \E n \in 1 .. 8 :
              /\ Statuses = Table[n]
              /\ status' = [status EXCEPT ![outPointer] = Table[n + 1][1], ![Second] = Table[n + 1][2]]
              /\ outPointer' = IF n = 8 THEN (outPointer + 2) % Q_SIZE ELSE outPointer
              /\ count' = IF n = 8 THEN count - 2 ELSE count
              /\ empty' = IF n = 8 THEN empty + 2 ELSE empty
<1>1. /\ pc[w] = "block" /\ outPointer \in Slot /\ Q_SIZE \in Nat /\ Q_SIZE >= 3 /\ count \in Nat
  BY QueueAssumption DEF TakeBlock, QInv, TypeOK
<1>2. At(0) = outPointer /\ At(1) = Second /\ Second \in Slot /\ outPointer # Second
  BY <1>1, AtApart, 0 \in 0 .. Q_SIZE - 1, 1 \in 0 .. Q_SIZE - 1, 1 \in 0 .. Q_SIZE
<1>3. count >= 3
  BY <1>1 DEF QInv, Ready
<1>4. PICK n \in 1 .. 8 : Table[n] = Statuses
  BY <1>1, <1>3 DEF QInv, Front
<1>5. Table[n][1] = status[outPointer] /\ Table[n][2] = status[Second]
  BY <1>4 DEF Statuses
<1>6. UpdateStatus(status[outPointer], status[Second]) = Table[n + 1]
  BY <1>5, RowByRow
<1>7. Table[n + 1] = <<4, 4>> <=> n = 8
  BY RowByRow, n + 1 \in 1 .. 9
<1> QED BY <1>2, <1>3, <1>4, <1>6, <1>7 DEF TakeBlock

LEMMA TakeBlockKeeps ==
  ASSUME QInv, NEW w \in Worker, TakeBlock(w)
  PROVE  QInv'
<1>1. /\ pc[w] = "block" /\ w \in Process /\ w \notin Producer /\ Inside = {w} /\ killed = {}
      /\ pc \in [Process -> {"loop", "insert", "first", "block", "add", "exit", "dead"}]
      /\ status \in [Slot -> 0 .. 4] /\ matrix \in [Slot -> Int4]
      /\ resultIndex \in [Slot -> Slot \cup {-1}] /\ outPointer \in Slot
      /\ count \in 0 .. Q_SIZE /\ empty \in 0 .. Q_SIZE /\ Q_SIZE \in Nat /\ Q_SIZE >= 3
      /\ job \in [Worker -> [status1 : 0 .. 4, status2 : 0 .. 4, res : Slot \cup {-1}, D : Int]]
      /\ empty + count = Q_SIZE
  BY QueueAssumption DEF TakeBlock, QInv, Guarded, Inside, TypeOK, Process, RingConsistent
<1>2. /\ mutex' = 1 /\ pc' = [pc EXCEPT ![w] = "add"]
      /\ job' = [job EXCEPT ![w] = [status1 |-> status[outPointer], status2 |-> status[Second],
                                    res |-> resultIndex[outPointer], D |-> BlockProduct]]
      /\ UNCHANGED <<jobsCreated, inPointer, matrix, resultIndex, killed, main, trace>>
  BY DEF TakeBlock, Goto
<1>3. At(0) = outPointer /\ At(1) = Second /\ Second \in Slot /\ outPointer # Second /\ count >= 3
  BY BlockTaken
<1>4. PICK n \in 1 .. 8 :
        /\ Statuses = Table[n]
        /\ status' = [status EXCEPT ![outPointer] = Table[n + 1][1], ![Second] = Table[n + 1][2]]
        /\ outPointer' = IF n = 8 THEN (outPointer + 2) % Q_SIZE ELSE outPointer
        /\ count' = IF n = 8 THEN count - 2 ELSE count
        /\ empty' = IF n = 8 THEN empty + 2 ELSE empty
  BY BlockTaken
<1>5. \A x \in Process : x # w => pc'[x] = pc[x] /\ pc[x] \notin {"insert", "first", "block"}
  BY <1>1, <1>2 DEF Inside
<1>6. pc'[w] = "add"
  BY <1>1, <1>2
<1>7. /\ Table[n + 1] = <<Table[n + 1][1], Table[n + 1][2]>>
      /\ Table[n + 1][1] \in 0 .. 4 /\ Table[n + 1][2] \in 0 .. 4
      /\ Table[n + 1] # <<0, 0>>
  BY RowByRow, n + 1 \in 1 .. 9
<1>8. status' \in [Slot -> 0 .. 4]
  BY <1>1, <1>4, <1>7
<1>9. InWork' <=> Started'
  BY <1>5, <1>6, <1>1 DEF InWork, Process
<1>10. InWork
  BY <1>1 DEF InWork
<1>11. outPointer' \in Slot
  BY <1>1, <1>4, MovedOn
<1>12. TypeOK'
  <2>1. BlockProduct \in Int
    <3>1. \A c \in 0 .. 4 : Block(c) \in 0 .. 3
      <4>1. \A c \in 0 .. 4 : c = 0 \/ c = 1 \/ c = 2 \/ c = 3 \/ c = 4
        OBVIOUS
      <4> QED BY <4>1 DEF Block
    <3>2. status[outPointer] \in 0 .. 4 /\ status[Second] \in 0 .. 4
      BY <1>1, <1>3
    <3>3. /\ matrix[outPointer][Block(status[outPointer])] \in Int
          /\ matrix[Second][Block(status[Second])] \in Int
      BY <1>1, <1>3, <3>1, <3>2 DEF Int4
    <3>4. \A a, b \in Int : a * b \in Int
      OBVIOUS
    <3> QED BY <3>3, <3>4 DEF BlockProduct
  <2>2. job' \in [Worker -> [status1 : 0 .. 4, status2 : 0 .. 4, res : Slot \cup {-1}, D : Int]]
    BY <1>1, <1>2, <1>3, <2>1
  <2>3. pc' \in [Process -> {"loop", "insert", "first", "block", "add", "exit", "dead"}]
    BY <1>1, <1>2
  <2>4. count' \in 0 .. Q_SIZE /\ empty' \in 0 .. Q_SIZE
    BY <1>1, <1>3, <1>4
  <2> QED BY <1>2, <1>8, <1>11, <2>2, <2>3, <2>4 DEF TypeOK, QInv
<1>13. Guarded'
  <2>1. Inside' = {} /\ killed' = {}
    BY <1>1, <1>2, <1>5, <1>6 DEF Inside
  <2> QED BY <1>1, <1>5, <1>6, <2>1 DEF Guarded, QInv, Process
<1>14. Ready'
  BY <1>1, <1>5, <1>6 DEF Ready, Process
<1>15. CASE n < 8
  <2>1. UNCHANGED <<outPointer, count, empty, Second>>
    BY <1>4, <1>15 DEF Second
  <2>2. RingConsistent'
    BY <1>2, <2>1 DEF RingConsistent, QInv
  <2>3. Statuses' = Table[n + 1]
    BY <1>1, <1>3, <1>4, <1>7, <2>1 DEF Statuses
  <2>4. n + 1 \in 1 .. 8 /\ Started'
    BY <1>1, <1>3, <1>7, <1>15, <2>1, <2>3 DEF Started, Statuses
  <2>5. ASSUME NEW k \in 0 .. count' - 1, status'[At(k)'] # 0
        PROVE  k < 2 /\ count' >= 2
    <3>1. At(k)' = At(k) /\ k \in 0 .. count - 1
      BY <2>1 DEF At
    <3>2. k < 2 \/ k >= 2
      BY <2>1
    <3>3. ASSUME k >= 2
          PROVE  FALSE
      <4>1. At(k) \in Slot /\ At(k) # At(0) /\ At(k) # At(1)
        BY <1>1, <3>1, <3>3, AtApart, k \in 0 .. Q_SIZE - 1, 0 \in 0 .. Q_SIZE - 1, 1 \in 0 .. Q_SIZE - 1
      <4>2. status'[At(k)] = status[At(k)]
        BY <1>1, <1>3, <1>4, <4>1
      <4> QED BY <2>5, <3>1, <3>3, <4>2 DEF QInv, Front
    <3> QED BY <1>1, <1>3, <2>1, <3>2, <3>3
  <2>6. \E m \in 2 .. count' - 1 : resultIndex'[outPointer'] = At(m)' /\ resultIndex'[Second'] = At(m)'
    BY <1>2, <1>10, <2>1 DEF QInv, Front, At
  <2>7. Front'
    BY <1>9, <2>3, <2>4, <2>5, <2>6 DEF Front
  <2> QED BY <1>12, <1>13, <1>14, <2>2, <2>7 DEF QInv
<1>16. CASE n = 8
  <2>1. outPointer' = (outPointer + 2) % Q_SIZE /\ count' = count - 2 /\ empty' = empty + 2
    BY <1>4, <1>16
  <2>2. \A k \in 0 .. Q_SIZE - 2 : At(k)' = At(k + 2)
    BY <1>1, <2>1, MovedOn
  <2>3. RingConsistent'
    <3>1. PICK k \in 0 .. Q_SIZE - 2 : k + 2 = count /\ k = count - 2
      BY <1>1, <1>3, count - 2 \in 0 .. Q_SIZE - 2
    <3>2. inPointer = At(count)
      BY DEF QInv, RingConsistent, At
    <3>3. inPointer' = (outPointer' + count') % Q_SIZE
      BY <1>2, <2>1, <2>2, <3>1, <3>2 DEF At
    <3> QED BY <1>1, <2>1, <3>3 DEF RingConsistent
  <2>4. ASSUME NEW k \in 0 .. count' - 1
        PROVE  status'[At(k)'] = 0
    <3>1. k + 2 \in 0 .. count - 1 /\ k \in 0 .. Q_SIZE - 2 /\ ~(k + 2 < 2)
      BY <1>1, <2>1
    <3>2. At(k)' = At(k + 2)
      BY <2>2, <3>1
    <3>3. At(k + 2) \in Slot /\ At(k + 2) # At(0) /\ At(k + 2) # At(1)
      BY <1>1, <3>1, AtApart, k + 2 \in 0 .. Q_SIZE - 1, 0 \in 0 .. Q_SIZE - 1, 1 \in 0 .. Q_SIZE - 1
    <3>4. status[At(k + 2)] = 0
      BY <3>1 DEF QInv, Front
    <3> QED BY <1>1, <1>3, <1>4, <3>2, <3>3, <3>4
  <2>5. count' >= 2 => Statuses' = <<0, 0>>
    <3>1. At(0)' = outPointer' /\ At(1)' = Second'
      <4>1. \A o \in Slot : o + 0 = o /\ o \in 0 .. 2 * Q_SIZE - 1 /\ o < Q_SIZE
        BY QueueAssumption DEF Slot
      <4>2. \A o \in Slot : (o + 0) % Q_SIZE = o
        BY <4>1, Modulo
      <4> QED BY <1>11, <4>2 DEF At, Second
    <3>2. count' >= 2 => 0 \in 0 .. count' - 1 /\ 1 \in 0 .. count' - 1
      BY <1>1, <2>1
    <3>3. count' >= 2 => status'[At(0)'] = 0 /\ status'[At(1)'] = 0
      BY <2>4, <3>2
    <3> QED BY <3>1, <3>3 DEF Statuses
  <2>6. ~Started' /\ count' # Q_SIZE
    BY <1>1, <2>1, <2>5 DEF Started, Statuses
  <2>7. Front'
    BY <1>9, <2>4, <2>5, <2>6, 1 \in 1 .. 8 DEF Front, Table
  <2> QED BY <1>12, <1>13, <1>14, <2>3, <2>7 DEF QInv
<1> QED BY <1>15, <1>16

\* Adding a product changes a matrix and nothing else.
LEMMA AddBlockKeeps ==
  ASSUME QInv, NEW w \in Worker, AddBlock(w)
  PROVE  QInv'
<1>1. /\ pc[w] = "add" /\ w \in Process /\ w \notin Producer
      /\ pc \in [Process -> {"loop", "insert", "first", "block", "add", "exit", "dead"}]
      /\ matrix \in [Slot -> Int4]
      /\ job \in [Worker -> [status1 : 0 .. 4, status2 : 0 .. 4, res : Slot \cup {-1}, D : Int]]
      /\ matrix' = [matrix EXCEPT ![job[w].res][cblockindex(job[w].status1, job[w].status2)] =
                                      @ + job[w].D]
      /\ pc' = [pc EXCEPT ![w] = "loop"]
      /\ UNCHANGED <<mutex, empty, jobsCreated, ring, status, resultIndex, killed, job, main, trace>>
  BY QueueAssumption DEF AddBlock, Goto, QInv, TypeOK, Process
<1>2. \A x \in Process : pc'[x] \in {"insert", "first", "block"} \/ pc[x] \in {"insert", "first", "block"}
                            => pc'[x] = pc[x]
  BY <1>1
<1>3. TypeOK'
  <2>1. matrix' \in [Slot -> Int4]
    <3> DEFINE r == job[w].res
               c == cblockindex(job[w].status1, job[w].status2)
    <3>1. job[w].D \in Int
      BY <1>1
    <3>2. matrix' = [matrix EXCEPT ![r] = [matrix[r] EXCEPT ![c] = @ + job[w].D]]
      BY <1>1
    <3>3. r \in Slot => [matrix[r] EXCEPT ![c] = @ + job[w].D] \in Int4
      <4>1. ASSUME NEW f \in [0 .. 3 -> Int], NEW i, NEW d \in Int
            PROVE  [f EXCEPT ![i] = @ + d] \in [0 .. 3 -> Int]
        <5>1. CASE i \in 0 .. 3
          BY <5>1
        <5>2. CASE i \notin 0 .. 3
          BY <5>2
        <5> QED BY <5>1, <5>2
      <4>2. r \in Slot => matrix[r] \in [0 .. 3 -> Int]
        BY <1>1 DEF Int4
      <4> QED BY <3>1, <4>1, <4>2 DEF Int4
    <3> QED BY <1>1, <3>2, <3>3
  <2> QED BY <1>1, <2>1 DEF TypeOK, QInv, ring
<1>4. RingConsistent'
  BY <1>1 DEF RingConsistent, QInv, ring
<1>5. Guarded'
  <2>1. Inside' = Inside
    BY <1>2 DEF Inside
  <2> QED BY <1>1, <2>1 DEF Guarded, QInv, ring, Process
<1>6. Front' /\ Ready'
  BY <1>1, <1>2 DEF Front, Ready, InWork, Started, Statuses, At, Second, QInv, ring, Process
<1> QED BY <1>3, <1>4, <1>5, <1>6 DEF QInv

LEMMA StopKeeps ==
  ASSUME QInv, Stop
  PROVE  QInv'
<1> USE DEF Stop, ring, slots
<1>1. Inside = {}
  BY DEF QInv, Guarded
<1>2. TypeOK' /\ RingConsistent'
  BY DEF QInv, TypeOK, RingConsistent
<1>3. Guarded'
  BY <1>1 DEF QInv, Guarded, Inside
<1>4. Front' /\ Ready'
  BY DEF Front, Ready, InWork, Started, Statuses, At, Second, QInv
<1> QED BY <1>2, <1>3, <1>4 DEF QInv

LEMMA DieKeeps ==
  ASSUME QInv, NEW x \in Process, Die(x)
  PROVE  QInv'
<1>1. /\ pc' = [pc EXCEPT ![x] = "dead"]
      /\ UNCHANGED <<mutex, empty, jobsCreated, ring, slots, killed, job, main, trace>>
      /\ pc \in [Process -> {"loop", "insert", "first", "block", "add", "exit", "dead"}]
      /\ Inside = {}
  BY DEF Die, Goto, QInv, TypeOK, Guarded
<1>2. \A y \in Process : pc'[y] = pc[y] \/ pc'[y] = "dead"
  BY <1>1
<1>3. \A y \in Process : pc[y] \notin {"insert", "first", "block"} /\ pc'[y] \notin {"insert", "first", "block"}
  BY <1>1, <1>2 DEF Inside
<1>4. TypeOK' /\ RingConsistent'
  BY <1>1 DEF QInv, TypeOK, RingConsistent, ring, slots
<1>5. Guarded'
  <2>1. Inside' = {}
    BY <1>3 DEF Inside
  <2> QED BY <1>1, <1>2, <2>1 DEF QInv, Guarded, ring, slots, Process
<1>6. Front' /\ Ready'
  BY <1>1, <1>3 DEF Front, Ready, InWork, Started, Statuses, At, Second, QInv, ring, slots, Process
<1> QED BY <1>4, <1>5, <1>6 DEF QInv

LEMMA QInvStep == QInv /\ [Next]_vars => QInv'
<1> SUFFICES ASSUME QInv, [Next]_vars PROVE QInv'
  OBVIOUS
<1>1. CASE \E p \in Producer : ProducerStep(p)
  BY <1>1, EnterProducerKeeps, InsertJobKeeps, DieKeeps DEF ProducerStep, Process
<1>2. CASE \E w \in Worker : WorkerStep(w)
  BY <1>2, EnterWorkerKeeps, FirstBlockKeeps, TakeBlockKeeps, AddBlockKeeps, DieKeeps DEF WorkerStep, Process
<1>3. CASE Stop
  BY <1>3, StopKeeps
<1>4. CASE PrintTrace
  <2>1. trace' \in Int
    <3>1. matrix[outPointer] \in [0 .. 3 -> Int]
      BY DEF QInv, TypeOK, Int4
    <3>2. matrix[outPointer][0] \in Int /\ matrix[outPointer][3] \in Int
      BY <3>1
    <3> QED BY <1>4, <3>2 DEF PrintTrace, Trace
  <2>2. TypeOK' /\ RingConsistent' /\ Guarded'
    BY <1>4, <2>1 DEF PrintTrace, QInv, TypeOK, RingConsistent, Guarded, Inside, ring, slots
  <2>3. Front' /\ Ready'
    BY <1>4 DEF PrintTrace, Front, Ready, InWork, Started, Statuses, At, Second, QInv, ring, slots
  <2> QED BY <2>2, <2>3 DEF QInv
<1>5. CASE UNCHANGED vars
  BY <1>5 DEF vars, QInv, TypeOK, RingConsistent, Guarded, Inside, Front, Ready, InWork, Started, Statuses,
              At, Second, ring, slots
<1> QED BY <1>1, <1>2, <1>3, <1>4, <1>5 DEF Next, Terminated

\* QInv is an invariant of the ring.
THEOREM RingInvariant == Spec => []QInv
  BY QInvInit, QInvStep, PTL DEF Spec

-----------------------------------------------------------------------------
(* What follows from it.                                                   *)

\* inPointer, outPointer, count and the semaphore empty always agree, whatever
\* producers, workers and SIGTERM do.
THEOREM RingSafety == Spec => []RingInv
<1>1. QInv => RingInv
  BY DEF QInv, RingInv
<1> QED BY <1>1, RingInvariant, PTL

\* Nobody who holds mutex finds no free slot (lines 32-33 keep one for a result):
\* sem_wait(empty) never blocks, and InsertResultJob never meets a full ring.
THEOREM SlotsReserved == Spec => []SlotReserved
<1>1. QInv => SlotReserved
  <2> SUFFICES ASSUME QInv, NEW x \in Process, pc[x] \in {"insert", "first"}
               PROVE  empty > 0 /\ count < Q_SIZE
    BY DEF SlotReserved
  <2>1. count < Q_SIZE
    <3>1. x \in Producer => pc[x] = "insert"
      BY DEF QInv, Guarded
    <3>2. x \in Worker => pc[x] = "first"
      BY DEF QInv, Guarded
    <3>3. count \in Nat /\ Q_SIZE \in Nat
      BY QueueAssumption DEF QInv, TypeOK
    <3> QED BY <3>1, <3>2, <3>3 DEF QInv, Ready, Process
  <2>2. empty + count = Q_SIZE /\ empty \in Nat /\ count \in Nat /\ Q_SIZE \in Nat
    BY QueueAssumption DEF QInv, RingConsistent, TypeOK
  <2> QED BY <2>1, <2>2
<1> QED BY <1>1, RingInvariant, PTL

\* Only the front two matrices are ever being multiplied, with statuses from the
\* table of lines 35-48 and one result slot, which is in the ring.
THEOREM FrontOnly == Spec => []OnlyFrontStarted
<1>1. QInv => OnlyFrontStarted
  <2> SUFFICES ASSUME QInv PROVE OnlyFrontStarted
    OBVIOUS
  <2>1. /\ Q_SIZE \in Nat /\ Q_SIZE >= 3 /\ outPointer \in Slot /\ count \in 0 .. Q_SIZE
        /\ status \in [Slot -> 0 .. 4]
    BY QueueAssumption DEF QInv, TypeOK
  <2>2. Queue = {At(n) : n \in 0 .. count - 1}
    BY DEF Queue, At
  <2>3. /\ At(0) = outPointer /\ At(1) = Second
        /\ \A m, n \in 0 .. Q_SIZE - 1 : At(m) = At(n) => m = n
    BY <2>1, AtApart
  <2>4. ASSUME NEW i \in Queue, status[i] # 0
        PROVE  Started /\ i \in {outPointer, Second}
    <3>1. PICK n \in 0 .. count - 1 : i = At(n)
      BY <2>2
    <3>2. n < 2 /\ count >= 2
      BY <2>4, <3>1 DEF QInv, Front
    <3>3. i \in {outPointer, Second}
      BY <2>3, <3>1, <3>2
    <3> QED BY <2>4, <3>2, <3>3 DEF Started
  <2>5. ASSUME Started
        PROVE  /\ \E n \in 2 .. 8 : Table[n] = Statuses
               /\ resultIndex[outPointer] = resultIndex[Second]
               /\ resultIndex[outPointer] \in Queue \ {outPointer, Second}
    <3>1. count >= 2 /\ Statuses # <<0, 0>>
      BY <2>5 DEF Started, Statuses
    <3>2. PICK n \in 1 .. 8 : Table[n] = Statuses
      BY <3>1 DEF QInv, Front
    <3>3. n \in 2 .. 8
      <4>1. n # 1
        BY <3>1, <3>2 DEF Table
      <4> QED BY <4>1
    <3>4. PICK m \in 2 .. count - 1 : resultIndex[outPointer] = At(m) /\ resultIndex[Second] = At(m)
      BY <2>5 DEF QInv, Front, InWork
    <3>5. At(m) \in Queue
      BY <2>2, m \in 0 .. count - 1
    <3>6. At(m) # At(0) /\ At(m) # At(1)
      BY <2>1, <2>3, m \in 0 .. Q_SIZE - 1, 0 \in 0 .. Q_SIZE - 1, 1 \in 0 .. Q_SIZE - 1
    <3> QED BY <2>3, <3>2, <3>3, <3>4, <3>5, <3>6
  <2> QED BY <2>4, <2>5 DEF OnlyFrontStarted
<1> QED BY <1>1, RingInvariant, PTL

\* An insertion leaves the statuses of the front two alone.
LEMMA InsertKeepsFront ==
  ASSUME QInv, count >= 2, NEW m \in Int4, Insert(m), count < Q_SIZE, UNCHANGED outPointer
  PROVE  status'[outPointer] = status[outPointer] /\ status'[Second] = status[Second]
<1>1. outPointer \in Slot /\ count \in Nat /\ Q_SIZE \in Nat
  BY QueueAssumption DEF QInv, TypeOK
<1>2. At(0) = outPointer /\ At(1) = Second
  BY <1>1, AtApart
<1>3. \A n \in 0 .. count - 1 : status'[At(n)] = status[At(n)]
  BY Inserted DEF QInv
<1> QED BY <1>1, <1>2, <1>3, 0 \in 0 .. count - 1, 1 \in 0 .. count - 1

\* The eight block products of two matrices are handed out in the order of the
\* table, each once, and the matrices leave the ring with the last one.
THEOREM InOrder == Spec => BlocksInOrder
<1> DEFINE new == <<status'[outPointer], status'[Second]>>
           Step == \/ new = Statuses /\ UNCHANGED outPointer
                   \/ \E n \in 1 .. 8 : /\ <<Statuses, new>> = <<Table[n], Table[n + 1]>>
                                        /\ n = 8 <=> outPointer' # outPointer
<1>1. ASSUME QInv, [Next]_vars, count >= 2
      PROVE  Step
  <2>1. /\ Q_SIZE \in Nat /\ Q_SIZE >= 3 /\ outPointer \in Slot /\ status \in [Slot -> 0 .. 4]
        /\ NewMatrix \in Int4 /\ Zero \in Int4
    BY <1>1, QueueAssumption DEF QInv, TypeOK, Int4, Zero
  <2>2. ASSUME UNCHANGED <<outPointer, status>>
        PROVE  Step
    BY <2>2 DEF Statuses
  <2>3. ASSUME NEW p \in Producer, InsertJob(p)
        PROVE  Step
    <3>1. count < Q_SIZE
      BY <1>1, <2>1, <2>3 DEF InsertJob, QInv, Ready, TypeOK
    <3> QED BY <1>1, <2>1, <2>3, <3>1, InsertKeepsFront DEF InsertJob, Statuses
  <2>4. ASSUME NEW w \in Worker, FirstBlock(w)
        PROVE  Step
    <3>1. count < Q_SIZE
      BY <1>1, <2>1, <2>4 DEF FirstBlock, QInv, Ready, TypeOK
    <3>2. Insert(Zero) /\ UNCHANGED outPointer
      BY <2>1, <2>4, <3>1 DEF FirstBlock
    <3> QED BY <1>1, <2>1, <3>1, <3>2, InsertKeepsFront DEF Statuses
  <2>5. ASSUME NEW w \in Worker, TakeBlock(w)
        PROVE  Step
    <3>1. Second \in Slot /\ outPointer # Second
      BY <1>1, <2>5, BlockTaken
    <3>2. PICK n \in 1 .. 8 :
            /\ Statuses = Table[n]
            /\ status' = [status EXCEPT ![outPointer] = Table[n + 1][1], ![Second] = Table[n + 1][2]]
            /\ outPointer' = IF n = 8 THEN (outPointer + 2) % Q_SIZE ELSE outPointer
      BY <1>1, <2>5, BlockTaken
    <3>3. Table[n + 1] = <<Table[n + 1][1], Table[n + 1][2]>>
      BY RowByRow, n + 1 \in 1 .. 9
    <3>4. new = Table[n + 1]
      BY <2>1, <3>1, <3>2, <3>3
    <3>5. (outPointer + 2) % Q_SIZE # outPointer
      <4>1. At(0) = outPointer /\ At(2) = (outPointer + 2) % Q_SIZE /\ At(2) # At(0)
        BY <2>1, AtApart, 2 \in 0 .. Q_SIZE - 1, 0 \in 0 .. Q_SIZE - 1 DEF At
      <4> QED BY <4>1
    <3> QED BY <3>2, <3>4, <3>5
  <2>6. CASE \E p \in Producer : ProducerStep(p)
    BY <2>2, <2>3, <2>6 DEF ProducerStep, EnterProducer, Die, ring, slots
  <2>7. CASE \E w \in Worker : WorkerStep(w)
    BY <2>2, <2>4, <2>5, <2>7 DEF WorkerStep, EnterWorker, AddBlock, Die, ring, slots
  <2>8. CASE Stop \/ PrintTrace \/ Terminated \/ UNCHANGED vars
    BY <2>2, <2>8 DEF Stop, PrintTrace, Terminated, vars, ring, slots
  <2> HIDE DEF Step
  <2> QED BY <1>1, <2>6, <2>7, <2>8 DEF Next
<1>2. QInv /\ [Next]_vars => [count >= 2 => Step]_vars
  BY <1>1
<1> QED BY <1>2, RingInvariant, PTL DEF Spec, BlocksInOrder

-----------------------------------------------------------------------------
(* The powers of the matrix the producers create.                          *)

\* A set of numbers has a least one.
LEMMA LeastOf ==
  ASSUME NEW S, S \subseteq Nat, S # {}
  PROVE  \E m \in S : \A k \in S : m <= k
<1>1. PICK m \in S : \A j \in S : ~ (<<j, m>> \in OpToRel(<, Nat))
  BY NatLessThanWellFounded, WFMin
<1>2. \A j \in S : ~ (j < m)
  BY <1>1 DEF OpToRel
<1>3. \A j \in S : m <= j
  BY <1>2
<1> QED BY <1>3

\* The function Power describes exists.
LEMMA PowerDef ==
  Power = [n \in 1 .. MAXJOBS |-> IF n = 1 THEN NewMatrix ELSE MatProd(Power[n - 1], NewMatrix)]
<1> DEFINE Is(f, m) == f = [n \in 1 .. m |-> IF n = 1 THEN NewMatrix ELSE MatProd(f[n - 1], NewMatrix)]
           Gaps == {m \in Nat : ~ \E f : Is(f, m)}
<1>1. \E f : Is(f, MAXJOBS)
  <2> SUFFICES ASSUME Gaps # {} PROVE FALSE
    BY QueueAssumption
  <2>1. PICK m \in Gaps : \A j \in Gaps : m <= j
    BY LeastOf
  <2>2. m # 0
    <3>1. Is([n \in 1 .. 0 |-> NewMatrix], 0)
      OBVIOUS
    <3> QED BY <3>1
  <2>3. PICK f : Is(f, m - 1)
    <3>1. m - 1 \in Nat /\ ~ (m <= m - 1)
      BY <2>1, <2>2
    <3> HIDE DEF Is
    <3> QED BY <2>1, <3>1
  <2> DEFINE g == [n \in 1 .. m |-> IF n = m THEN IF m = 1 THEN NewMatrix ELSE MatProd(f[m - 1], NewMatrix) ELSE f[n]]
  <2>4. \A n \in 1 .. m : g[n] = IF n = 1 THEN NewMatrix ELSE MatProd(g[n - 1], NewMatrix)
    <3>1. m \in Nat /\ m - 1 \in Nat
      BY <2>1, <2>2
    <3>2. \A n \in 1 .. m - 1 : f[n] = IF n = 1 THEN NewMatrix ELSE MatProd(f[n - 1], NewMatrix)
      BY <2>3
    <3>3. \A n \in 1 .. m - 1 : g[n] = f[n] /\ (n # 1 => g[n - 1] = f[n - 1])
      BY <3>1
    <3>4. /\ g[m] = IF m = 1 THEN NewMatrix ELSE MatProd(f[m - 1], NewMatrix)
          /\ m # 1 => g[m - 1] = f[m - 1]
      BY <2>2, <3>1
    <3> HIDE DEF g
    <3> QED BY <2>2, <3>1, <3>2, <3>3, <3>4
  <2>5. Is(g, m)
    BY <2>4
  <2> QED BY <2>1, <2>5
<1>2. Is(Power, MAXJOBS)
  BY <1>1 DEF Power
<1> QED BY <1>2

LEMMA ProdType ==
  ASSUME NEW A \in Int4, NEW B \in Int4
  PROVE  MatProd(A, B) \in Int4
<1>1. ASSUME NEW b \in 0 .. 3
      PROVE  A[2 * (b \div 2)] * B[b % 2] + A[2 * (b \div 2) + 1] * B[2 + (b % 2)] \in Int
  <2>1. b = 0 \/ b = 1 \/ b = 2 \/ b = 3
    OBVIOUS
  <2>2. \A i \in 0 .. 3 : A[i] \in Int /\ B[i] \in Int
    BY DEF Int4
  <2>3. \A x, y, z, u \in Int : x * y + z * u \in Int
    OBVIOUS
  <2>4. /\ 2 * (b \div 2) \in 0 .. 3 /\ b % 2 \in 0 .. 3
        /\ 2 * (b \div 2) + 1 \in 0 .. 3 /\ 2 + (b % 2) \in 0 .. 3
    BY <2>1
  <2> QED BY <2>2, <2>3, <2>4
<1> QED BY <1>1 DEF MatProd, Int4

\* The four blocks of a product.
LEMMA ProdBlocks ==
  ASSUME NEW A, NEW B
  PROVE  /\ MatProd(A, B)[0] = A[0] * B[0] + A[1] * B[2]
         /\ MatProd(A, B)[1] = A[0] * B[1] + A[1] * B[3]
         /\ MatProd(A, B)[2] = A[2] * B[0] + A[3] * B[2]
         /\ MatProd(A, B)[3] = A[2] * B[1] + A[3] * B[3]
  BY DEF MatProd

LEMMA Associates ==
  ASSUME NEW a \in Int, NEW b \in Int, NEW p \in Int, NEW q \in Int, NEW r \in Int, NEW s \in Int,
         NEW x \in Int, NEW y \in Int
  PROVE  a * (p * x + q * y) + b * (r * x + s * y) = (a * p + b * r) * x + (a * q + b * s) * y
  OBVIOUS

LEMMA ProdAssociates ==
  ASSUME NEW A \in Int4, NEW B \in Int4, NEW C \in Int4
  PROVE  MatProd(A, MatProd(B, C)) = MatProd(MatProd(A, B), C)
<1> DEFINE BC == MatProd(B, C)
           AB == MatProd(A, B)
           L == MatProd(A, BC)
           R == MatProd(AB, C)
<1>1. \A i \in 0 .. 3 : A[i] \in Int /\ B[i] \in Int /\ C[i] \in Int
  BY DEF Int4
<1>2. L \in Int4 /\ R \in Int4
  BY ProdType
<1>3. /\ BC[0] = B[0] * C[0] + B[1] * C[2] /\ BC[1] = B[0] * C[1] + B[1] * C[3]
      /\ BC[2] = B[2] * C[0] + B[3] * C[2] /\ BC[3] = B[2] * C[1] + B[3] * C[3]
      /\ AB[0] = A[0] * B[0] + A[1] * B[2] /\ AB[1] = A[0] * B[1] + A[1] * B[3]
      /\ AB[2] = A[2] * B[0] + A[3] * B[2] /\ AB[3] = A[2] * B[1] + A[3] * B[3]
  BY ProdBlocks
<1>4. /\ L[0] = A[0] * BC[0] + A[1] * BC[2] /\ L[1] = A[0] * BC[1] + A[1] * BC[3]
      /\ L[2] = A[2] * BC[0] + A[3] * BC[2] /\ L[3] = A[2] * BC[1] + A[3] * BC[3]
      /\ R[0] = AB[0] * C[0] + AB[1] * C[2] /\ R[1] = AB[0] * C[1] + AB[1] * C[3]
      /\ R[2] = AB[2] * C[0] + AB[3] * C[2] /\ R[3] = AB[2] * C[1] + AB[3] * C[3]
  <2> HIDE DEF BC, AB
  <2> QED BY ProdBlocks
<1> HIDE DEF BC, AB, L, R
<1>5. L[0] = R[0] /\ L[1] = R[1]
  BY <1>1, <1>3, <1>4, Associates
<1>6. L[2] = R[2] /\ L[3] = R[3]
  BY <1>1, <1>3, <1>4, Associates
<1>7. \A i \in 0 .. 3 : L[i] = R[i]
  <2>1. \A i \in 0 .. 3 : i = 0 \/ i = 1 \/ i = 2 \/ i = 3
    OBVIOUS
  <2> QED BY <1>5, <1>6, <2>1
<1>8. L = R
  BY <1>2, <1>7 DEF Int4
<1> QED BY <1>8 DEF L, R, AB, BC

LEMMA PowerType == \A n \in 1 .. MAXJOBS : Power[n] \in Int4
<1> DEFINE Bad == {n \in Nat : n \in 1 .. MAXJOBS /\ Power[n] \notin Int4}
<1> SUFFICES ASSUME Bad # {} PROVE FALSE
  BY QueueAssumption
<1>1. PICK n \in Bad : \A k \in Bad : n <= k
  BY LeastOf
<1>2. n # 1 /\ n \in 1 .. MAXJOBS /\ MAXJOBS \in Nat
  BY <1>1, PowerDef, QueueAssumption DEF Int4
<1>3. n - 1 \in 1 .. MAXJOBS /\ n - 1 \in Nat /\ ~ (n <= n - 1)
  BY <1>2
<1>4. Power[n - 1] \in Int4 /\ NewMatrix \in Int4
  BY <1>1, <1>3, QueueAssumption DEF Int4
<1>5. Power[n] = MatProd(Power[n - 1], NewMatrix)
  BY <1>2, PowerDef
<1> QED BY <1>1, <1>4, <1>5, ProdType

\* The product of two powers is the power of the sum.
LEMMA PowersAdd ==
  ASSUME NEW a \in 1 .. MAXJOBS, NEW b \in 1 .. MAXJOBS, a + b <= MAXJOBS
  PROVE  MatProd(Power[a], Power[b]) = Power[a + b]
<1> DEFINE Bad == {n \in Nat : n >= 1 /\ a + n <= MAXJOBS /\ MatProd(Power[a], Power[n]) # Power[a + n]}
<1> SUFFICES ASSUME Bad # {} PROVE FALSE
  BY QueueAssumption
<1>1. PICK n \in Bad : \A k \in Bad : n <= k
  BY LeastOf
<1>2. n \in 1 .. MAXJOBS /\ a + n \in 2 .. MAXJOBS /\ MAXJOBS \in Nat /\ a \in Nat
  BY <1>1, QueueAssumption
<1>3. Power[a + n] = MatProd(Power[a + n - 1], NewMatrix)
  BY <1>2, PowerDef, a + n \in 1 .. MAXJOBS, a + n # 1
<1>4. CASE n = 1
  <2>1. Power[1] = NewMatrix
    BY <1>2, <1>4, PowerDef
  <2> QED BY <1>1, <1>2, <1>3, <1>4, <2>1, a + n - 1 = a
<1>5. CASE n # 1
  <2>1. n - 1 \in Nat /\ n - 1 \in 1 .. MAXJOBS /\ ~ (n <= n - 1) /\ a + (n - 1) = a + n - 1 /\ a + (n - 1) <= MAXJOBS
    BY <1>2, <1>5
  <2>2. MatProd(Power[a], Power[n - 1]) = Power[a + n - 1]
    BY <1>1, <2>1
  <2>3. Power[n] = MatProd(Power[n - 1], NewMatrix)
    BY <1>2, <1>5, PowerDef
  <2>4. Power[a] \in Int4 /\ Power[n - 1] \in Int4 /\ NewMatrix \in Int4
    BY <2>1, PowerType, QueueAssumption DEF Int4
  <2>5. MatProd(Power[a], Power[n]) = MatProd(MatProd(Power[a], Power[n - 1]), NewMatrix)
    BY <2>3, <2>4, ProdAssociates
  <2> QED BY <1>1, <1>3, <2>2, <2>5
<1> QED BY <1>4, <1>5

-----------------------------------------------------------------------------
(* The sum of the block products handed out so far.                        *)

\* The first k products, in the order of the table.
PartSum(A, B, k) == [b \in 0 .. 3 |->
    LET first == 4 * (b \div 2) + (b % 2)
    IN  (IF first < k THEN A[2 * (b \div 2)] * B[b % 2] ELSE 0)
        + (IF first + 2 < k THEN A[2 * (b \div 2) + 1] * B[2 + (b % 2)] ELSE 0)]

LEMMA PartBlocks ==
  ASSUME NEW A \in Int4, NEW B \in Int4, NEW k \in 0 .. 8
  PROVE  /\ PartSum(A, B, k) \in Int4
         /\ PartSum(A, B, k)[0] = (IF 0 < k THEN A[0] * B[0] ELSE 0) + (IF 2 < k THEN A[1] * B[2] ELSE 0)
         /\ PartSum(A, B, k)[1] = (IF 1 < k THEN A[0] * B[1] ELSE 0) + (IF 3 < k THEN A[1] * B[3] ELSE 0)
         /\ PartSum(A, B, k)[2] = (IF 4 < k THEN A[2] * B[0] ELSE 0) + (IF 6 < k THEN A[3] * B[2] ELSE 0)
         /\ PartSum(A, B, k)[3] = (IF 5 < k THEN A[2] * B[1] ELSE 0) + (IF 7 < k THEN A[3] * B[3] ELSE 0)
<1> DEFINE S == PartSum(A, B, k)
<1>1. /\ S[0] = (IF 0 < k THEN A[0] * B[0] ELSE 0) + (IF 2 < k THEN A[1] * B[2] ELSE 0)
      /\ S[1] = (IF 1 < k THEN A[0] * B[1] ELSE 0) + (IF 3 < k THEN A[1] * B[3] ELSE 0)
      /\ S[2] = (IF 4 < k THEN A[2] * B[0] ELSE 0) + (IF 6 < k THEN A[3] * B[2] ELSE 0)
      /\ S[3] = (IF 5 < k THEN A[2] * B[1] ELSE 0) + (IF 7 < k THEN A[3] * B[3] ELSE 0)
  BY DEF PartSum
<1>2. \A x, y \in Int : x * y \in Int
  OBVIOUS
<1>3. \A i, j \in 0 .. 3 : A[i] * B[j] \in Int
  BY <1>2 DEF Int4
<1>4. S[0] \in Int /\ S[1] \in Int /\ S[2] \in Int /\ S[3] \in Int
  <2> DEFINE P(i, j) == A[i] * B[j]
  <2>1. /\ P(0, 0) \in Int /\ P(1, 2) \in Int /\ P(0, 1) \in Int /\ P(1, 3) \in Int
        /\ P(2, 0) \in Int /\ P(3, 2) \in Int /\ P(2, 1) \in Int /\ P(3, 3) \in Int
    BY <1>3
  <2>2. /\ S[0] = (IF 0 < k THEN P(0, 0) ELSE 0) + (IF 2 < k THEN P(1, 2) ELSE 0)
        /\ S[1] = (IF 1 < k THEN P(0, 1) ELSE 0) + (IF 3 < k THEN P(1, 3) ELSE 0)
        /\ S[2] = (IF 4 < k THEN P(2, 0) ELSE 0) + (IF 6 < k THEN P(3, 2) ELSE 0)
        /\ S[3] = (IF 5 < k THEN P(2, 1) ELSE 0) + (IF 7 < k THEN P(3, 3) ELSE 0)
    BY <1>1
  <2> HIDE DEF P, S
  <2> QED BY <2>1, <2>2
<1>5. \A b \in 0 .. 3 : S[b] \in Int
  <2>1. \A b \in 0 .. 3 : b = 0 \/ b = 1 \/ b = 2 \/ b = 3
    OBVIOUS
  <2> HIDE DEF S
  <2> QED BY <1>4, <2>1
<1>6. S = [b \in 0 .. 3 |-> S[b]]
  BY DEF PartSum
<1>7. S \in Int4
  <2> HIDE DEF S
  <2> QED BY <1>5, <1>6 DEF Int4
<1> QED BY <1>1, <1>7

\* At first there is nothing, and in the end the whole product.
LEMMA PartEnds ==
  ASSUME NEW A \in Int4, NEW B \in Int4
  PROVE  PartSum(A, B, 0) = Zero /\ PartSum(A, B, 8) = MatProd(A, B)
<1>1. Zero \in Int4 /\ \A b \in 0 .. 3 : Zero[b] = 0
  BY DEF Zero, Int4
<1>2. \A b \in 0 .. 3 : b = 0 \/ b = 1 \/ b = 2 \/ b = 3
  OBVIOUS
<1>3. PartSum(A, B, 0) = Zero
  <2> DEFINE S == PartSum(A, B, 0)
  <2>1. S \in Int4 /\ S[0] = 0 /\ S[1] = 0 /\ S[2] = 0 /\ S[3] = 0
    <3>1. /\ S \in Int4
          /\ S[0] = (IF 0 < 0 THEN A[0] * B[0] ELSE 0) + (IF 2 < 0 THEN A[1] * B[2] ELSE 0)
          /\ S[1] = (IF 1 < 0 THEN A[0] * B[1] ELSE 0) + (IF 3 < 0 THEN A[1] * B[3] ELSE 0)
          /\ S[2] = (IF 4 < 0 THEN A[2] * B[0] ELSE 0) + (IF 6 < 0 THEN A[3] * B[2] ELSE 0)
          /\ S[3] = (IF 5 < 0 THEN A[2] * B[1] ELSE 0) + (IF 7 < 0 THEN A[3] * B[3] ELSE 0)
      BY PartBlocks
    <3> HIDE DEF S
    <3> QED BY <3>1
  <2> HIDE DEF S
  <2>2. \A b \in 0 .. 3 : S[b] = Zero[b]
    BY <1>1, <1>2, <2>1
  <2>3. S = Zero
    BY <1>1, <2>1, <2>2 DEF Int4
  <2> QED BY <2>3 DEF S
<1>4. PartSum(A, B, 8) = MatProd(A, B)
  <2> DEFINE S == PartSum(A, B, 8)
             R == MatProd(A, B)
  <2>1. /\ S \in Int4
        /\ S[0] = A[0] * B[0] + A[1] * B[2] /\ S[1] = A[0] * B[1] + A[1] * B[3]
        /\ S[2] = A[2] * B[0] + A[3] * B[2] /\ S[3] = A[2] * B[1] + A[3] * B[3]
    BY PartBlocks
  <2>2. /\ R \in Int4
        /\ R[0] = A[0] * B[0] + A[1] * B[2] /\ R[1] = A[0] * B[1] + A[1] * B[3]
        /\ R[2] = A[2] * B[0] + A[3] * B[2] /\ R[3] = A[2] * B[1] + A[3] * B[3]
    BY ProdType, ProdBlocks
  <2> HIDE DEF S, R
  <2>3. \A b \in 0 .. 3 : S[b] = R[b]
    BY <1>2, <2>1, <2>2
  <2>4. S = R
    BY <2>1, <2>2, <2>3 DEF Int4
  <2> QED BY <2>4 DEF S, R
<1> QED BY <1>3, <1>4

\* Which blocks row n of the table multiplies, and where the product goes.
LEMMA RowBlocks ==
  \A n \in 1 .. 8 :
    LET a == Table[n][1]  b == Table[n][2]
    IN  <<n, Block(a), Block(b), cblockindex(a, b)>> \in
          {<<1, 0, 0, 0>>, <<2, 0, 1, 1>>, <<3, 1, 2, 0>>, <<4, 1, 3, 1>>,
           <<5, 2, 0, 2>>, <<6, 2, 1, 3>>, <<7, 3, 2, 2>>, <<8, 3, 3, 3>>}
<1> SUFFICES ASSUME NEW n \in 1 .. 8
             PROVE  <<n, Block(Table[n][1]), Block(Table[n][2]), cblockindex(Table[n][1], Table[n][2])>> \in
                      {<<1, 0, 0, 0>>, <<2, 0, 1, 1>>, <<3, 1, 2, 0>>, <<4, 1, 3, 1>>,
                       <<5, 2, 0, 2>>, <<6, 2, 1, 3>>, <<7, 3, 2, 2>>, <<8, 3, 3, 3>>}
  OBVIOUS
<1>1. /\ Table[1] = <<0, 0>> /\ Table[2] = <<0, 1>> /\ Table[3] = <<1, 2>>
      /\ Table[4] = <<1, 3>> /\ Table[5] = <<2, 0>> /\ Table[6] = <<2, 1>>
      /\ Table[7] = <<3, 2>> /\ Table[8] = <<3, 3>>
  BY DEF Table
<1>2. n = 1 \/ n = 2 \/ n = 3 \/ n = 4 \/ n = 5 \/ n = 6 \/ n = 7 \/ n = 8
  OBVIOUS
<1> QED BY <1>1, <1>2 DEF Block, cblockindex

\* Each row of the table adds one product.
LEMMA PartNext ==
  ASSUME NEW A \in Int4, NEW B \in Int4, NEW n \in 1 .. 8
  PROVE  LET a == Table[n][1]  b == Table[n][2]
         IN  PartSum(A, B, n) =
               [PartSum(A, B, n - 1) EXCEPT ![cblockindex(a, b)] = @ + A[Block(a)] * B[Block(b)]]
<1> DEFINE i == Block(Table[n][1])
           j == Block(Table[n][2])
           c == cblockindex(Table[n][1], Table[n][2])
           S == PartSum(A, B, n - 1)
           R == PartSum(A, B, n)
           P(x, y) == A[x] * B[y]
           T == [S EXCEPT ![c] = @ + P(i, j)]
<1>1. \/ n = 1 /\ i = 0 /\ j = 0 /\ c = 0
      \/ n = 2 /\ i = 0 /\ j = 1 /\ c = 1
      \/ n = 3 /\ i = 1 /\ j = 2 /\ c = 0
      \/ n = 4 /\ i = 1 /\ j = 3 /\ c = 1
      \/ n = 5 /\ i = 2 /\ j = 0 /\ c = 2
      \/ n = 6 /\ i = 2 /\ j = 1 /\ c = 3
      \/ n = 7 /\ i = 3 /\ j = 2 /\ c = 2
      \/ n = 8 /\ i = 3 /\ j = 3 /\ c = 3
  <2>1. <<n, i, j, c>> \in {<<1, 0, 0, 0>>, <<2, 0, 1, 1>>, <<3, 1, 2, 0>>, <<4, 1, 3, 1>>,
                            <<5, 2, 0, 2>>, <<6, 2, 1, 3>>, <<7, 3, 2, 2>>, <<8, 3, 3, 3>>}
    BY RowBlocks
  <2> HIDE DEF i, j, c
  <2> QED BY <2>1
<1>2. /\ S \in Int4 /\ R \in Int4
      /\ S[0] = (IF 0 < n - 1 THEN P(0, 0) ELSE 0) + (IF 2 < n - 1 THEN P(1, 2) ELSE 0)
      /\ S[1] = (IF 1 < n - 1 THEN P(0, 1) ELSE 0) + (IF 3 < n - 1 THEN P(1, 3) ELSE 0)
      /\ S[2] = (IF 4 < n - 1 THEN P(2, 0) ELSE 0) + (IF 6 < n - 1 THEN P(3, 2) ELSE 0)
      /\ S[3] = (IF 5 < n - 1 THEN P(2, 1) ELSE 0) + (IF 7 < n - 1 THEN P(3, 3) ELSE 0)
      /\ R[0] = (IF 0 < n THEN P(0, 0) ELSE 0) + (IF 2 < n THEN P(1, 2) ELSE 0)
      /\ R[1] = (IF 1 < n THEN P(0, 1) ELSE 0) + (IF 3 < n THEN P(1, 3) ELSE 0)
      /\ R[2] = (IF 4 < n THEN P(2, 0) ELSE 0) + (IF 6 < n THEN P(3, 2) ELSE 0)
      /\ R[3] = (IF 5 < n THEN P(2, 1) ELSE 0) + (IF 7 < n THEN P(3, 3) ELSE 0)
  <2>1. n \in 0 .. 8 /\ n - 1 \in 0 .. 8
    OBVIOUS
  <2> QED BY <2>1, PartBlocks
<1>3. \A x, y \in 0 .. 3 : P(x, y) \in Int
  <2>1. \A x, y \in Int : x * y \in Int
    OBVIOUS
  <2> QED BY <2>1 DEF Int4
<1>4. \A b \in 0 .. 3 : b = 0 \/ b = 1 \/ b = 2 \/ b = 3
  OBVIOUS
<1> HIDE DEF i, j, c, S, R, P
<1>5. /\ P(0, 0) \in Int /\ P(1, 2) \in Int /\ P(0, 1) \in Int /\ P(1, 3) \in Int
      /\ P(2, 0) \in Int /\ P(3, 2) \in Int /\ P(2, 1) \in Int /\ P(3, 3) \in Int
  BY <1>3
<1>6. /\ c \in 0 .. 3 /\ R[c] = S[c] + P(i, j)
      /\ \A b \in 0 .. 3 : b # c => R[b] = S[b]
  <2>1. /\ R[0] = S[0] + (IF n = 1 THEN P(0, 0) ELSE IF n = 3 THEN P(1, 2) ELSE 0)
        /\ R[1] = S[1] + (IF n = 2 THEN P(0, 1) ELSE IF n = 4 THEN P(1, 3) ELSE 0)
    BY <1>2, <1>5
  <2>2. /\ R[2] = S[2] + (IF n = 5 THEN P(2, 0) ELSE IF n = 7 THEN P(3, 2) ELSE 0)
        /\ R[3] = S[3] + (IF n = 6 THEN P(2, 1) ELSE IF n = 8 THEN P(3, 3) ELSE 0)
    BY <1>2, <1>5
  <2>3. S[0] \in Int /\ S[1] \in Int /\ S[2] \in Int /\ S[3] \in Int
    BY <1>2 DEF Int4
  <2> QED BY <1>1, <1>4, <2>1, <2>2, <2>3
<1>7. R = T
  <2>1. T \in [0 .. 3 -> Int]
    <3>1. S \in [0 .. 3 -> Int] /\ R \in [0 .. 3 -> Int]
      BY <1>2 DEF Int4
    <3> QED BY <1>6, <3>1
  <2>2. \A b \in 0 .. 3 : T[b] = R[b]
    <3>1. S \in [0 .. 3 -> Int]
      BY <1>2 DEF Int4
    <3> QED BY <1>6, <3>1
  <2> QED BY <1>2, <2>1, <2>2 DEF Int4
<1> QED BY <1>7 DEF R, S, i, j, c, P

\* No two rows of the table are the same.
LEMMA RowsApart == \A n, k \in 1 .. 9 : Table[n] = Table[k] => n = k
<1>1. /\ Table[1] = <<0, 0>> /\ Table[2] = <<0, 1>> /\ Table[3] = <<1, 2>>
      /\ Table[4] = <<1, 3>> /\ Table[5] = <<2, 0>> /\ Table[6] = <<2, 1>>
      /\ Table[7] = <<3, 2>> /\ Table[8] = <<3, 3>> /\ Table[9] = <<4, 4>>
  BY DEF Table
<1>2. \A n \in 1 .. 9 : n = 1 \/ n = 2 \/ n = 3 \/ n = 4 \/ n = 5 \/ n = 6 \/ n = 7 \/ n = 8 \/ n = 9
  OBVIOUS
<1>3. \A n \in 1 .. 9 : n = Table[n][2] + (IF Table[n][1] < 2 THEN 1 ELSE 5)
  BY <1>1, <1>2
<1> QED BY <1>3

-----------------------------------------------------------------------------
(* What the matrices of the ring are products of, as long as one worker    *)
(* serves.                                                                 *)

\* The result that is being summed up.
Unfinished(n) == InWork /\ At(n) = resultIndex[outPointer]

\* Totals of what the places up to c add, J in all.
Totals(e, c, J) == e \in [0 .. c -> 0 .. J] /\ e[0] = 0 /\ e[c] = J

\* e are the totals FactorsConserved speaks of, when the slots hold m, and the
\* unfinished result is the sum of the products handed out so far.
Weighed(m, e) ==
    /\ Totals(e, count, jobsCreated)
    /\ \A n \in 0 .. count - 1 :
          IF Unfinished(n) THEN e[n + 1] = e[n]
          ELSE e[n] < e[n + 1] /\ m[At(n)] = Power[e[n + 1] - e[n]]
    /\ InWork => \A n \in 1 .. 8 :
          Table[n] = Statuses => m[resultIndex[outPointer]] = PartSum(m[outPointer], m[Second], n - 1)

Sums(m) == \E e : Weighed(m, e)

\* The slots once w has added what it has taken.
Added(w) == [matrix EXCEPT ![job[w].res][cblockindex(job[w].status1, job[w].status2)] = @ + job[w].D]

Adding == {w \in Worker : pc[w] = "add"}

\* Whoever has taken a block has not been killed: its product might be lost.
Alive == \A w \in Worker : job[w].res # -1 => pc[w] # "dead"

\* The matrices are what they should be when a product that a worker is about to
\* add is counted in, and it will add it to a matrix of the ring.
Conserved ==
    /\ \A w \in Adding : job[w].res # -1
    /\ OneServes /\ Alive =>
        /\ \A w \in Adding : \E n \in 0 .. count - 1 : job[w].res = At(n)
        /\ \A w \in Adding : Sums(Added(w))
        /\ Adding = {} => Sums(matrix)

LEMMA ConservedInit == Init => Conserved
<1> SUFFICES ASSUME Init PROVE Conserved
  OBVIOUS
<1>1. Adding = {} /\ count = 0 /\ jobsCreated = 0 /\ ~InWork
  BY QueueAssumption DEF Init, Adding, InWork, Started, Process
<1>2. Weighed(matrix, [n \in 0 .. 0 |-> 0])
  BY <1>1 DEF Weighed, Totals
<1> QED BY <1>1, <1>2 DEF Conserved, Sums

\* The totals rise.
LEMMA Rising ==
  ASSUME NEW c \in Nat, NEW J \in Nat, NEW e \in [0 .. c -> 0 .. J],
         \A n \in 0 .. c - 1 : e[n] <= e[n + 1],
         NEW k \in 0 .. c, NEW l \in 0 .. c, k <= l
  PROVE  e[k] <= e[l]
<1> DEFINE Bad == {n \in Nat : n \in k .. c /\ ~ (e[k] <= e[n])}
<1> SUFFICES ASSUME Bad # {} PROVE FALSE
  <2>1. l \in Nat /\ l \in k .. c
    OBVIOUS
  <2> QED BY <2>1
<1>1. PICK n \in Bad : \A j \in Bad : n <= j
  BY LeastOf
<1>2. n # k /\ n \in k .. c /\ n - 1 \in k .. c /\ ~ (n <= n - 1) /\ n - 1 \in 0 .. c - 1 /\ n - 1 \in Nat
  BY <1>1
<1>3. e[k] <= e[n - 1]
  BY <1>1, <1>2
<1>4. e[n - 1] <= e[n]
  BY <1>2, n - 1 + 1 = n
<1>5. e[k] \in Int /\ e[n - 1] \in Int /\ e[n] \in Int
  BY <1>2
<1> QED BY <1>1, <1>3, <1>4, <1>5

\* Each place but r adds something.
Climbs(e, c, r) == \A n \in 0 .. c - 1 : IF n = r THEN e[n + 1] = e[n] ELSE e[n] < e[n + 1]

\* When the front two leave, their weight goes to their result, at place r.
LEMMA WeightMoves ==
  ASSUME NEW c \in Nat, NEW J \in Nat, NEW e, Totals(e, c, J), NEW r \in 2 .. c - 1, Climbs(e, c, r)
  PROVE  \E f :
           /\ Totals(f, c - 2, J)
           /\ f[r - 1] - f[r - 2] = e[2] /\ f[r - 2] < f[r - 1]
           /\ \A n \in 0 .. c - 3 : n # r - 2 => /\ f[n] < f[n + 1]
                                                 /\ f[n + 1] - f[n] = e[n + 3] - e[n + 2]
<1> USE DEF Totals, Climbs
<1> DEFINE f == [n \in 0 .. c - 2 |-> IF n + 2 <= r THEN e[n + 2] - e[2] ELSE e[n + 2]]
<1>1. /\ \A n \in 0 .. c : e[n] \in 0 .. J
      /\ \A n \in 0 .. c - 2 : n + 2 \in 0 .. c /\ e[2] <= e[n + 2]
  <2>1. \A n \in 0 .. c - 1 : e[n] <= e[n + 1]
    <3> SUFFICES ASSUME NEW n \in 0 .. c - 1 PROVE e[n] <= e[n + 1]
      OBVIOUS
    <3>1. n \in 0 .. c /\ n + 1 \in 0 .. c
      OBVIOUS
    <3>2. e[n] \in 0 .. J /\ e[n + 1] \in 0 .. J
      BY <3>1
    <3>3. e[n + 1] = e[n] \/ e[n] < e[n + 1]
      OBVIOUS
    <3> QED BY <3>2, <3>3
  <2>2. ASSUME NEW n \in 0 .. c - 2
        PROVE  n + 2 \in 0 .. c /\ e[2] <= e[n + 2]
    <3>1. n + 2 \in 0 .. c /\ 2 \in 0 .. c /\ 2 <= n + 2
      OBVIOUS
    <3> QED BY <2>1, <3>1, Rising
  <2> QED BY <2>2
<1>2. f \in [0 .. c - 2 -> 0 .. J]
  <2> SUFFICES ASSUME NEW n \in 0 .. c - 2
               PROVE  (IF n + 2 <= r THEN e[n + 2] - e[2] ELSE e[n + 2]) \in 0 .. J
    OBVIOUS
  <2>1. e[2] \in 0 .. J /\ e[n + 2] \in 0 .. J /\ e[2] <= e[n + 2]
    BY <1>1, 2 \in 0 .. c
  <2> QED BY <2>1
<1>3. \A n \in 0 .. c - 2 : f[n] = IF n + 2 <= r THEN e[n + 2] - e[2] ELSE e[n + 2]
  OBVIOUS
<1> HIDE DEF f
<1>4. f[0] = 0 /\ f[c - 2] = J
  <2>1. 0 \in 0 .. c - 2 /\ c - 2 \in 0 .. c - 2 /\ 0 + 2 <= r /\ ~ (c - 2 + 2 <= r) /\ 2 \in 0 .. c
    OBVIOUS
  <2>2. e[2] \in Int
    BY <1>1, <2>1
  <2> QED BY <1>3, <2>1, <2>2, c - 2 + 2 = c, 0 + 2 = 2
<1>5. f[r - 1] - f[r - 2] = e[2] /\ f[r - 2] < f[r - 1]
  <2>1. /\ r - 1 \in 0 .. c - 2 /\ r - 2 \in 0 .. c - 2 /\ r \in 0 .. c - 1 /\ r \in 0 .. c /\ r + 1 \in 0 .. c
        /\ r - 2 + 2 = r /\ r - 1 + 2 = r + 1 /\ r <= r /\ ~ (r + 1 <= r)
        /\ 0 \in 0 .. c /\ 1 \in 0 .. c /\ 2 \in 0 .. c /\ 0 # r /\ 1 # r /\ 0 \in 0 .. c - 1 /\ 1 \in 0 .. c - 1
    OBVIOUS
  <2>2. f[r - 2] = e[r] - e[2] /\ f[r - 1] = e[r + 1] /\ e[r + 1] = e[r]
    BY <1>3, <2>1
  <2>3. e[0] < e[1] /\ e[1] < e[2]
    BY <2>1, 0 + 1 = 1, 1 + 1 = 2
  <2>4. e[r] \in Int /\ e[2] \in Int /\ e[1] \in Int /\ e[0] \in Int
    BY <1>1, <2>1
  <2> QED BY <2>2, <2>3, <2>4
<1>6. ASSUME NEW n \in 0 .. c - 3, n # r - 2
      PROVE  f[n] < f[n + 1] /\ f[n + 1] - f[n] = e[n + 3] - e[n + 2]
  <2>1. /\ n \in 0 .. c - 2 /\ n + 1 \in 0 .. c - 2 /\ n + 2 \in 0 .. c - 1 /\ n + 2 \in 0 .. c /\ n + 3 \in 0 .. c
        /\ n + 1 + 2 = n + 3 /\ n + 2 + 1 = n + 3 /\ n + 2 # r /\ 2 \in 0 .. c
        /\ (n + 2 <= r <=> n + 3 <= r)
    BY <1>6
  <2>2. /\ f[n] = IF n + 2 <= r THEN e[n + 2] - e[2] ELSE e[n + 2]
        /\ f[n + 1] = IF n + 2 <= r THEN e[n + 3] - e[2] ELSE e[n + 3]
    BY <1>3, <2>1
  <2>3. e[n + 2] < e[n + 3]
    BY <2>1
  <2>4. e[n + 2] \in Int /\ e[n + 3] \in Int /\ e[2] \in Int
    BY <1>1, <2>1
  <2>5. CASE n + 2 <= r
    <3>1. f[n] = e[n + 2] - e[2] /\ f[n + 1] = e[n + 3] - e[2]
      BY <2>2, <2>5
    <3> QED BY <2>3, <2>4, <3>1
  <2>6. CASE ~ (n + 2 <= r)
    <3>1. f[n] = e[n + 2] /\ f[n + 1] = e[n + 3]
      BY <2>2, <2>6
    <3> QED BY <2>3, <2>4, <3>1
  <2> QED BY <2>5, <2>6
<1> QED BY <1>2, <1>4, <1>5, <1>6

\* f goes like e up to place c.
Goes(f, e, c) == \A n \in 0 .. c : f[n] = e[n]

\* One more place at the end: a created matrix, or a result that adds nothing yet.
LEMMA WeightJoins ==
  ASSUME NEW c \in Nat, NEW J \in Nat, NEW e, Totals(e, c, J)
  PROVE  /\ \E f : Totals(f, c + 1, J + 1) /\ Goes(f, e, c)
         /\ \E f : Totals(f, c + 1, J) /\ Goes(f, e, c)
<1> DEFINE Claim(K) == \E f : Totals(f, c + 1, K) /\ Goes(f, e, c)
<1>1. ASSUME NEW K \in {J, J + 1} PROVE Claim(K)
  <2> DEFINE f == [n \in 0 .. c + 1 |-> IF n = c + 1 THEN K ELSE e[n]]
  <2>1. e \in [0 .. c -> 0 .. J] /\ e[0] = 0 /\ e[c] = J
    BY DEF Totals
  <2>2. f \in [0 .. c + 1 -> 0 .. K]
    <3> SUFFICES ASSUME NEW n \in 0 .. c + 1
                 PROVE  (IF n = c + 1 THEN K ELSE e[n]) \in 0 .. K
      OBVIOUS
    <3>1. n # c + 1 => e[n] \in 0 .. J
      BY <2>1
    <3> QED BY <3>1
  <2>3. f[0] = 0 /\ f[c + 1] = K /\ f[c] = J
    BY <2>1
  <2>4. Goes(f, e, c)
    BY DEF Goes
  <2> HIDE DEF f
  <2> QED BY <2>2, <2>3, <2>4 DEF Totals
<1>2. Claim(J) /\ Claim(J + 1)
  <2> HIDE DEF Claim
  <2> QED BY <1>1
<1> QED BY <1>2

\* A created matrix joins the ring; nothing at the front changes.
LEMMA JobJoins ==
  ASSUME QInv, NEW p \in Producer, InsertJob(p)
  PROVE  /\ outPointer \in Slot /\ inPointer \in Slot /\ count \in Nat /\ count < Q_SIZE /\ jobsCreated \in Nat
         /\ count' = count + 1 /\ jobsCreated' = jobsCreated + 1
         /\ inPointer = At(count) /\ matrix' = [matrix EXCEPT ![inPointer] = NewMatrix]
         /\ outPointer' = outPointer /\ Second' = Second
         /\ \A n \in 0 .. Q_SIZE : At(n)' = At(n)
         /\ \A n \in 0 .. count - 1 : At(n) # inPointer
         /\ InWork' <=> InWork
         /\ InWork => Statuses' = Statuses /\ resultIndex'[outPointer] = resultIndex[outPointer]
         /\ \A x \in Process : pc'[x] = pc[x] \/ (pc[x] = "insert" /\ pc'[x] = "loop")
<1>1. /\ pc[p] = "insert" /\ jobsCreated' = jobsCreated + 1 /\ Insert(NewMatrix)
      /\ resultIndex' = [resultIndex EXCEPT ![inPointer] = -1]
      /\ pc' = [pc EXCEPT ![p] = "loop"]
      /\ UNCHANGED <<outPointer, killed, job, main, trace>>
  BY DEF InsertJob, Goto
<1>2. /\ p \in Process /\ p \notin Worker /\ Inside = {p}
      /\ pc \in [Process -> {"loop", "insert", "first", "block", "add", "exit", "dead"}]
      /\ resultIndex \in [Slot -> Slot \cup {-1}] /\ outPointer \in Slot /\ inPointer \in Slot
      /\ count \in Nat /\ count < Q_SIZE /\ Q_SIZE \in Nat /\ Q_SIZE >= 3 /\ jobsCreated \in Nat
  BY <1>1, QueueAssumption DEF QInv, Guarded, Inside, TypeOK, Process, Ready
<1>3. /\ count' = count + 1 /\ inPointer = At(count)
      /\ \A n \in 0 .. Q_SIZE : At(n)' = At(n)
      /\ \A n \in 0 .. count - 1 : At(n) # inPointer /\ status'[At(n)] = status[At(n)]
      /\ status'[At(count)] = 0
  BY <1>1, <1>2, QueueAssumption, Inserted DEF QInv, Int4
<1>4. At(0) = outPointer /\ At(1) = Second /\ Second' = Second
  BY <1>1, <1>2, AtApart DEF Second
<1>5. \A x \in Worker : pc'[x] = pc[x] /\ pc[x] # "block"
  BY <1>1, <1>2 DEF Inside, Process
<1>6. /\ InWork <=> count >= 2 /\ Statuses # <<0, 0>>
      /\ InWork' <=> count' >= 2 /\ Statuses' # <<0, 0>>
  BY <1>5 DEF InWork, Started, Statuses
<1>7. count >= 2 => Statuses' = Statuses
  <2>1. count >= 2 => 0 \in 0 .. count - 1 /\ 1 \in 0 .. count - 1
    BY <1>2
  <2> QED BY <1>1, <1>3, <1>4, <2>1 DEF Statuses
<1>8. count = 1 => Statuses' = <<0, 0>>
  <2>1. count = 1 => status[At(0)] = 0
    BY <1>2 DEF QInv, Front
  <2>2. count = 1 => status'[At(0)] = 0 /\ status'[At(1)] = 0
    BY <1>3, <2>1, 0 \in 0 .. 1 - 1
  <2> QED BY <1>1, <1>4, <2>2 DEF Statuses
<1>9. InWork' <=> InWork
  <2>1. count' >= 2 => count >= 2 \/ count = 1
    BY <1>2, <1>3
  <2>2. count >= 2 => count' >= 2
    BY <1>2, <1>3
  <2> QED BY <1>6, <1>7, <1>8, <2>1, <2>2
<1>10. InWork => resultIndex'[outPointer] = resultIndex[outPointer]
  <2>1. InWork => outPointer # inPointer
    <3>1. InWork => 0 \in 0 .. count - 1
      BY <1>2, <1>6
    <3> QED BY <1>3, <1>4, <3>1
  <2> QED BY <1>1, <1>2, <2>1
<1>11. \A x \in Process : pc'[x] = pc[x] \/ (pc[x] = "insert" /\ pc'[x] = "loop")
  <2>1. \A x \in Process : x # p => pc'[x] = pc[x]
    BY <1>1, <1>2
  <2>2. pc'[p] = "loop"
    BY <1>1, <1>2
  <2>3. pc[p] = "insert"
    BY <1>1
  <2> QED BY <2>1, <2>2, <2>3
<1>12. matrix' = [matrix EXCEPT ![inPointer] = NewMatrix]
  BY <1>1 DEF Insert
<1> QED BY <1>1, <1>2, <1>3, <1>4, <1>6, <1>7, <1>9, <1>10, <1>11, <1>12

\* The result of the front two joins the ring.
LEMMA ResultJoins ==
  ASSUME QInv, NEW w \in Worker, FirstBlock(w)
  PROVE  /\ outPointer \in Slot /\ inPointer \in Slot /\ count \in Nat /\ count >= 2 /\ count < Q_SIZE /\ jobsCreated \in Nat
         /\ count' = count + 1 /\ jobsCreated' = jobsCreated
         /\ inPointer = At(count) /\ matrix' = [matrix EXCEPT ![inPointer] = Zero]
         /\ outPointer' = outPointer /\ Second' = Second
         /\ \A n \in 0 .. Q_SIZE : At(n)' = At(n)
         /\ \A n \in 0 .. count - 1 : At(n) # inPointer
         /\ ~ InWork /\ InWork' /\ Statuses' = <<0, 0>> /\ resultIndex'[outPointer] = At(count)
         /\ \A x \in Process : pc'[x] = pc[x] \/ (pc[x] = "first" /\ pc'[x] = "block")
         /\ job' = job
<1>1. /\ pc[w] = "first" /\ w \in Process /\ Inside = {w}
      /\ pc \in [Process -> {"loop", "insert", "first", "block", "add", "exit", "dead"}]
      /\ resultIndex \in [Slot -> Slot \cup {-1}] /\ outPointer \in Slot /\ inPointer \in Slot
      /\ count \in Nat /\ count >= 2 /\ count < Q_SIZE /\ Q_SIZE \in Nat /\ Q_SIZE >= 3 /\ jobsCreated \in Nat
      /\ Statuses = <<0, 0>>
  BY QueueAssumption DEF FirstBlock, QInv, Guarded, Inside, TypeOK, Process, Ready
<1>2. /\ Insert(Zero) /\ pc' = [pc EXCEPT ![w] = "block"]
      /\ resultIndex' = [resultIndex EXCEPT
             ![inPointer] = -1, ![outPointer] = inPointer, ![Second] = inPointer]
      /\ UNCHANGED <<mutex, jobsCreated, outPointer, killed, job, main, trace>>
  BY <1>1 DEF FirstBlock, Goto
<1>3. /\ count' = count + 1 /\ inPointer = At(count)
      /\ \A n \in 0 .. Q_SIZE : At(n)' = At(n)
      /\ \A n \in 0 .. count - 1 : At(n) # inPointer /\ status'[At(n)] = status[At(n)]
  <2>1. Zero \in Int4
    BY DEF Zero, Int4
  <2> QED BY <1>1, <1>2, <2>1, Inserted DEF QInv
<1>4. At(0) = outPointer /\ At(1) = Second /\ Second \in Slot /\ Second' = Second /\ outPointer # Second
  BY <1>1, <1>2, AtApart, 0 \in 0 .. Q_SIZE - 1, 1 \in 0 .. Q_SIZE - 1, 1 \in 0 .. Q_SIZE DEF Second
<1>5. \A x \in Process : x # w => pc'[x] = pc[x] /\ pc[x] # "block"
  BY <1>1, <1>2 DEF Inside
<1>6. pc'[w] = "block"
  BY <1>1, <1>2
<1>7. ~ InWork /\ InWork'
  BY <1>1, <1>5, <1>6 DEF InWork, Started, Statuses, Process
<1>8. Statuses' = <<0, 0>>
  <2>1. status'[outPointer] = status[outPointer] /\ status'[Second] = status[Second]
    BY <1>1, <1>3, <1>4, 0 \in 0 .. count - 1, 1 \in 0 .. count - 1
  <2> QED BY <1>1, <1>2, <1>4, <2>1 DEF Statuses
<1>9. resultIndex'[outPointer] = At(count)
  BY <1>1, <1>2, <1>3, <1>4
<1>10. matrix' = [matrix EXCEPT ![inPointer] = Zero]
  BY <1>2 DEF Insert
<1>11. \A x \in Process : pc'[x] = pc[x] \/ (pc[x] = "first" /\ pc'[x] = "block")
  <2>1. pc[w] = "first"
    BY <1>1
  <2> QED BY <1>5, <1>6, <2>1
<1>12. jobsCreated' = jobsCreated /\ outPointer' = outPointer /\ job' = job
  BY <1>2
<1> QED BY <1>1, <1>3, <1>4, <1>7, <1>8, <1>9, <1>10, <1>11, <1>12

LEMMA JobSums ==
  ASSUME QInv, NEW p \in Producer, InsertJob(p), NEW m \in [Slot -> Int4], Sums(m),
         NEW m2, m2 = [m EXCEPT ![inPointer] = NewMatrix]
  PROVE  Sums(m2)'
<1>1. /\ outPointer \in Slot /\ inPointer \in Slot /\ count \in Nat /\ count < Q_SIZE /\ jobsCreated \in Nat
      /\ count' = count + 1 /\ jobsCreated' = jobsCreated + 1 /\ inPointer = At(count)
      /\ outPointer' = outPointer /\ Second' = Second
      /\ \A n \in 0 .. Q_SIZE : At(n)' = At(n)
      /\ \A n \in 0 .. count - 1 : At(n) # inPointer
      /\ InWork' <=> InWork
      /\ InWork => Statuses' = Statuses /\ resultIndex'[outPointer] = resultIndex[outPointer]
  BY JobJoins
<1>2. Q_SIZE \in Nat /\ Q_SIZE >= 3 /\ MAXJOBS \in Nat /\ MAXJOBS >= 1
  BY QueueAssumption
<1>3. PICK e : Weighed(m, e)
  BY DEF Sums
<1>4. PICK f :
        /\ Totals(f, count + 1, jobsCreated + 1) /\ f[count] = jobsCreated
        /\ \A n \in 0 .. count - 1 : f[n] = e[n] /\ f[n + 1] = e[n + 1]
  <2>1. Totals(e, count, jobsCreated)
    BY <1>3 DEF Weighed
  <2>2. count \in Nat /\ jobsCreated \in Nat
    BY <1>1
  <2>3. PICK f : Totals(f, count + 1, jobsCreated + 1) /\ Goes(f, e, count)
    BY <2>1, <2>2, WeightJoins
  <2>4. f[count] = jobsCreated
    BY <2>1, <2>2, <2>3 DEF Goes, Totals
  <2>5. \A n \in 0 .. count - 1 : f[n] = e[n] /\ f[n + 1] = e[n + 1]
    BY <2>2, <2>3 DEF Goes
  <2> QED BY <2>3, <2>4, <2>5
<1>5. At(0) = outPointer /\ At(1) = Second /\ \A n \in 0 .. Q_SIZE : At(n) \in Slot
  BY <1>1, AtApart
<1>6. \A n \in 0 .. count - 1 : m2[At(n)] = m[At(n)]
  BY <1>1, <1>2
<1>7. m2[At(count)] = NewMatrix
  BY <1>1
<1>8. InWork => /\ count >= 2 /\ resultIndex[outPointer] # At(count)
                /\ \E k \in 0 .. count - 1 : resultIndex[outPointer] = At(k)
  <2>1. InWork => \E k \in 2 .. count - 1 : resultIndex[outPointer] = At(k)
    BY DEF QInv, Front
  <2> QED BY <1>1, <2>1
<1>9. ASSUME NEW n \in 0 .. count
      PROVE  IF Unfinished(n)' THEN f[n + 1] = f[n]
             ELSE f[n] < f[n + 1] /\ m2[At(n)'] = Power[f[n + 1] - f[n]]
  <2>1. At(n)' = At(n)
    BY <1>1, <1>2
  <2>2. CASE n = count
    <3>1. ~ Unfinished(n)'
      BY <1>1, <1>8, <2>1, <2>2 DEF Unfinished
    <3>2. f[n + 1] - f[n] = 1 /\ f[n] < f[n + 1]
      BY <1>1, <1>4, <2>2 DEF Totals
    <3>3. Power[1] = NewMatrix
      BY <1>2, PowerDef
    <3> QED BY <1>7, <2>1, <2>2, <3>1, <3>2, <3>3
  <2>3. CASE n # count
    <3>1. n \in 0 .. count - 1
      BY <1>1, <2>3
    <3>2. Unfinished(n)' <=> Unfinished(n)
      BY <1>1, <2>1 DEF Unfinished
    <3>3. IF Unfinished(n) THEN e[n + 1] = e[n]
          ELSE e[n] < e[n + 1] /\ m[At(n)] = Power[e[n + 1] - e[n]]
      BY <1>3, <3>1 DEF Weighed
    <3> QED BY <1>4, <1>6, <2>1, <3>1, <3>2, <3>3
  <2> QED BY <2>2, <2>3
<1>10. ASSUME InWork', NEW n \in 1 .. 8, Table[n] = Statuses'
       PROVE  m2[resultIndex'[outPointer']] = PartSum(m2[outPointer'], m2[Second'], n - 1)
  <2>1. m[resultIndex[outPointer]] = PartSum(m[outPointer], m[Second], n - 1)
    BY <1>1, <1>3, <1>10 DEF Weighed
  <2>2. m2[outPointer] = m[outPointer] /\ m2[Second] = m[Second]
    BY <1>1, <1>5, <1>6, <1>8, <1>10, 0 \in 0 .. count - 1, 1 \in 0 .. count - 1
  <2>3. m2[resultIndex[outPointer]] = m[resultIndex[outPointer]]
    BY <1>1, <1>6, <1>8, <1>10
  <2> QED BY <1>1, <1>10, <2>1, <2>2, <2>3
<1>11. 0 .. count' - 1 = 0 .. count
  BY <1>1
<1>12. Weighed(m2, f)'
  BY <1>1, <1>4, <1>9, <1>10, <1>11 DEF Weighed
<1> QED BY <1>12 DEF Sums

LEMMA ResultSums ==
  ASSUME QInv, NEW w \in Worker, FirstBlock(w), NEW m \in [Slot -> Int4], Sums(m),
         NEW m2, m2 = [m EXCEPT ![inPointer] = Zero]
  PROVE  Sums(m2)'
<1>1. /\ outPointer \in Slot /\ inPointer \in Slot /\ count \in Nat /\ count >= 2 /\ count < Q_SIZE /\ jobsCreated \in Nat
      /\ count' = count + 1 /\ jobsCreated' = jobsCreated /\ inPointer = At(count)
      /\ outPointer' = outPointer /\ Second' = Second
      /\ \A n \in 0 .. Q_SIZE : At(n)' = At(n)
      /\ \A n \in 0 .. count - 1 : At(n) # inPointer
      /\ ~ InWork /\ InWork' /\ Statuses' = <<0, 0>> /\ resultIndex'[outPointer] = At(count)
  BY ResultJoins
<1>2. Q_SIZE \in Nat /\ Q_SIZE >= 3
  BY QueueAssumption
<1>3. PICK e : Weighed(m, e)
  BY DEF Sums
<1>4. PICK f :
        /\ Totals(f, count + 1, jobsCreated) /\ f[count] = jobsCreated
        /\ \A n \in 0 .. count - 1 : f[n] = e[n] /\ f[n + 1] = e[n + 1]
  <2>1. Totals(e, count, jobsCreated)
    BY <1>3 DEF Weighed
  <2>2. count \in Nat /\ jobsCreated \in Nat
    BY <1>1
  <2>3. PICK f : Totals(f, count + 1, jobsCreated) /\ Goes(f, e, count)
    BY <2>1, <2>2, WeightJoins
  <2>4. f[count] = jobsCreated
    BY <2>1, <2>2, <2>3 DEF Goes, Totals
  <2>5. \A n \in 0 .. count - 1 : f[n] = e[n] /\ f[n + 1] = e[n + 1]
    BY <2>2, <2>3 DEF Goes
  <2> QED BY <2>3, <2>4, <2>5
<1>5. At(0) = outPointer /\ At(1) = Second /\ \A n \in 0 .. Q_SIZE : At(n) \in Slot
  BY <1>1, AtApart
<1>6. \A n \in 0 .. count - 1 : m2[At(n)] = m[At(n)]
  BY <1>1, <1>2
<1>7. m2[At(count)] = Zero /\ m2 \in [Slot -> Int4]
  <2>1. Zero \in Int4
    BY DEF Zero, Int4
  <2> QED BY <1>1, <2>1
<1>8. ASSUME NEW n \in 0 .. count
      PROVE  IF Unfinished(n)' THEN f[n + 1] = f[n]
             ELSE f[n] < f[n + 1] /\ m2[At(n)'] = Power[f[n + 1] - f[n]]
  <2>1. At(n)' = At(n)
    BY <1>1, <1>2
  <2>2. CASE n = count
    <3>1. Unfinished(n)'
      BY <1>1, <2>1, <2>2 DEF Unfinished
    <3>2. f[n + 1] = f[n]
      BY <1>1, <1>4, <2>2 DEF Totals
    <3> QED BY <3>1, <3>2
  <2>3. CASE n # count
    <3>1. n \in 0 .. count - 1
      BY <1>1, <2>3
    <3>2. ~ Unfinished(n)' /\ ~ Unfinished(n)
      BY <1>1, <2>1, <3>1 DEF Unfinished
    <3>3. e[n] < e[n + 1] /\ m[At(n)] = Power[e[n + 1] - e[n]]
      BY <1>3, <3>1, <3>2 DEF Weighed
    <3> QED BY <1>4, <1>6, <2>1, <3>1, <3>2, <3>3
  <2> QED BY <2>2, <2>3
<1>9. ASSUME NEW n \in 1 .. 8, Table[n] = Statuses'
      PROVE  m2[resultIndex'[outPointer']] = PartSum(m2[outPointer'], m2[Second'], n - 1)
  <2>1. n = 1
    BY <1>1, <1>9, RowByRow, n \in 1 .. 9
  <2>2. m2[outPointer] \in Int4 /\ m2[Second] \in Int4
    BY <1>1, <1>2, <1>5, <1>7, 1 \in 0 .. Q_SIZE
  <2> QED BY <1>1, <1>7, <2>1, <2>2, PartEnds, 1 - 1 = 0
<1>10. 0 .. count' - 1 = 0 .. count
  BY <1>1
<1>11. Weighed(m2, f)'
  BY <1>1, <1>4, <1>8, <1>9, <1>10 DEF Weighed
<1> QED BY <1>11 DEF Sums

\* With a block the statuses move on to the next row, and with the last one the
\* front two matrices are no longer in work.
LEMMA TakenWork ==
  ASSUME QInv, NEW w \in Worker, TakeBlock(w), NEW n \in 1 .. 8, Statuses = Table[n]
  PROVE  /\ n < 8 => /\ UNCHANGED <<outPointer, count, Second>>
                     /\ InWork' /\ Statuses' = Table[n + 1]
         /\ n = 8 => /\ outPointer' = (outPointer + 2) % Q_SIZE /\ count' = count - 2
                     /\ ~ InWork'
<1>1. /\ pc[w] = "block" /\ w \in Process /\ Inside = {w}
      /\ pc \in [Process -> {"loop", "insert", "first", "block", "add", "exit", "dead"}]
      /\ status \in [Slot -> 0 .. 4] /\ outPointer \in Slot
      /\ count \in 0 .. Q_SIZE /\ Q_SIZE \in Nat /\ Q_SIZE >= 3
  BY QueueAssumption DEF TakeBlock, QInv, Guarded, Inside, TypeOK, Process
<1>2. pc' = [pc EXCEPT ![w] = "add"]
  BY DEF TakeBlock, Goto
<1>3. /\ At(0) = outPointer /\ At(1) = Second /\ Second \in Slot /\ outPointer # Second /\ count >= 3
      /\ status' = [status EXCEPT ![outPointer] = Table[n + 1][1], ![Second] = Table[n + 1][2]]
      /\ outPointer' = IF n = 8 THEN (outPointer + 2) % Q_SIZE ELSE outPointer
      /\ count' = IF n = 8 THEN count - 2 ELSE count
  <2>1. PICK k \in 1 .. 8 :
          /\ Statuses = Table[k]
          /\ status' = [status EXCEPT ![outPointer] = Table[k + 1][1], ![Second] = Table[k + 1][2]]
          /\ outPointer' = IF k = 8 THEN (outPointer + 2) % Q_SIZE ELSE outPointer
          /\ count' = IF k = 8 THEN count - 2 ELSE count
    BY BlockTaken
  <2>2. k = n
    BY <2>1, RowsApart, k \in 1 .. 9, n \in 1 .. 9
  <2> QED BY <2>1, <2>2, BlockTaken
<1>4. \A x \in Process : pc'[x] # "block"
  BY <1>1, <1>2 DEF Inside
<1>5. InWork' <=> count' >= 2 /\ Statuses' # <<0, 0>>
  BY <1>4 DEF InWork, Started, Statuses, Process
<1>6. ASSUME n < 8
      PROVE  /\ UNCHANGED <<outPointer, count, Second>>
             /\ InWork' /\ Statuses' = Table[n + 1]
  <2>1. UNCHANGED <<outPointer, count, Second>>
    BY <1>3, <1>6 DEF Second
  <2>2. Table[n + 1] = <<Table[n + 1][1], Table[n + 1][2]>> /\ Table[n + 1] # <<0, 0>>
    BY RowByRow, n + 1 \in 1 .. 9
  <2>3. Statuses' = Table[n + 1]
    BY <1>1, <1>3, <2>1, <2>2 DEF Statuses
  <2>4. count' >= 2
    BY <1>1, <1>3, <2>1
  <2> QED BY <1>5, <2>1, <2>2, <2>3, <2>4
<1>7. ASSUME n = 8
      PROVE  outPointer' = (outPointer + 2) % Q_SIZE /\ count' = count - 2 /\ ~ InWork'
  <2>1. outPointer' = (outPointer + 2) % Q_SIZE /\ count' = count - 2
    BY <1>3, <1>7
  <2>2. outPointer' \in Slot /\ \A k \in 0 .. Q_SIZE - 2 : At(k)' = At(k + 2)
    BY <1>1, <2>1, MovedOn
  <2>3. ASSUME NEW k \in 0 .. count - 3
        PROVE  status'[At(k)'] = 0
    <3>1. k + 2 \in 0 .. count - 1 /\ k \in 0 .. Q_SIZE - 2 /\ ~(k + 2 < 2) /\ k + 2 \in 0 .. Q_SIZE - 1
          /\ 0 \in 0 .. Q_SIZE - 1 /\ 1 \in 0 .. Q_SIZE - 1 /\ k + 2 \in 0 .. Q_SIZE
      BY <1>1
    <3>2. At(k)' = At(k + 2)
      BY <2>2, <3>1
    <3>3. At(k + 2) \in Slot /\ At(k + 2) # At(0) /\ At(k + 2) # At(1)
      BY <1>1, <3>1, AtApart
    <3>4. status[At(k + 2)] = 0
      BY <3>1 DEF QInv, Front
    <3> QED BY <1>1, <1>3, <3>2, <3>3, <3>4
  <2>4. count' >= 2 => Statuses' = <<0, 0>>
    <3>1. At(0)' = outPointer' /\ At(1)' = Second'
      <4>1. \A o \in Slot : o + 0 = o /\ o \in 0 .. 2 * Q_SIZE - 1 /\ o < Q_SIZE
        BY QueueAssumption DEF Slot
      <4>2. \A o \in Slot : (o + 0) % Q_SIZE = o
        BY <4>1, Modulo
      <4> QED BY <2>2, <4>2 DEF At, Second
    <3>2. count' >= 2 => 0 \in 0 .. count - 3 /\ 1 \in 0 .. count - 3
      BY <1>1, <2>1
    <3>3. count' >= 2 => status'[At(0)'] = 0 /\ status'[At(1)'] = 0
      BY <2>3, <3>2
    <3> QED BY <3>1, <3>3 DEF Statuses
  <2> QED BY <1>5, <2>1, <2>4
<1> QED BY <1>6, <1>7

\* Once the product is added, the result at place r has n products.
LEMMA BlockAdded ==
  ASSUME QInv, NEW w \in Worker, TakeBlock(w), NEW n \in 1 .. 8, Statuses = Table[n],
         NEW r \in 2 .. count - 1, resultIndex[outPointer] = At(r),
         matrix[At(r)] = PartSum(matrix[outPointer], matrix[Second], n - 1)
  PROVE  /\ job'[w].res = At(r) /\ \A v \in Worker : v # w => job'[v] = job[v]
         /\ Added(w)' \in [Slot -> Int4]
         /\ \A i \in Slot : i # At(r) => (Added(w)')[i] = matrix[i]
         /\ (Added(w)')[At(r)] = PartSum(matrix[outPointer], matrix[Second], n)
<1> DEFINE a == Table[n][1]
           b == Table[n][2]
           c == cblockindex(a, b)
           A == matrix[outPointer]
           B == matrix[Second]
           D == A[Block(a)] * B[Block(b)]
<1>1. /\ outPointer \in Slot /\ matrix \in [Slot -> Int4] /\ count \in 0 .. Q_SIZE /\ Q_SIZE \in Nat /\ Q_SIZE >= 3
      /\ job \in [Worker -> [status1 : 0 .. 4, status2 : 0 .. 4, res : Slot \cup {-1}, D : Int]]
  BY QueueAssumption DEF QInv, TypeOK
<1>2. Second \in Slot /\ At(r) \in Slot
  <2>1. 1 \in 0 .. Q_SIZE /\ r \in 0 .. Q_SIZE
    BY <1>1
  <2> QED BY <1>1, <2>1, AtApart
<1>3. status[outPointer] = a /\ status[Second] = b
  BY DEF Statuses
<1>4. /\ job' = [job EXCEPT ![w] = [status1 |-> status[outPointer], status2 |-> status[Second],
                                    res |-> resultIndex[outPointer], D |-> BlockProduct]]
      /\ matrix' = matrix /\ BlockProduct = D
  BY <1>3 DEF TakeBlock, BlockProduct
<1>5. /\ job'[w].res = At(r) /\ job'[w].status1 = a /\ job'[w].status2 = b /\ job'[w].D = D
      /\ \A v \in Worker : v # w => job'[v] = job[v]
  <2> HIDE DEF a, b, D
  <2> QED BY <1>1, <1>3, <1>4
<1>6. A \in Int4 /\ B \in Int4
  BY <1>1, <1>2
<1>7. PartSum(A, B, n) = [PartSum(A, B, n - 1) EXCEPT ![c] = @ + D]
  <2> HIDE DEF A, B
  <2>1. \A X, Y \in Int4 :
          PartSum(X, Y, n) = [PartSum(X, Y, n - 1) EXCEPT ![c] = @ + X[Block(a)] * Y[Block(b)]]
    BY PartNext
  <2> QED BY <1>6, <2>1
<1>8. PartSum(A, B, n) \in Int4
  BY <1>6, PartBlocks, n \in 0 .. 8
<1> HIDE DEF a, b, c, A, B, D
<1>9. Added(w)' = [matrix EXCEPT ![At(r)] = PartSum(A, B, n)]
  <2>1. Added(w)' = [matrix EXCEPT ![At(r)][c] = @ + D]
    BY <1>4, <1>5 DEF Added, c
  <2>2. [matrix EXCEPT ![At(r)][c] = @ + D] = [matrix EXCEPT ![At(r)] = [matrix[At(r)] EXCEPT ![c] = @ + D]]
    BY <1>1, <1>2
  <2>3. matrix[At(r)] = PartSum(A, B, n - 1)
    BY DEF A, B
  <2> QED BY <1>7, <2>1, <2>2, <2>3
<1>10. Added(w)' \in [Slot -> Int4] /\ \A i \in Slot : i # At(r) => (Added(w)')[i] = matrix[i]
  BY <1>1, <1>2, <1>8, <1>9
<1>11. (Added(w)')[At(r)] = PartSum(A, B, n)
  BY <1>1, <1>2, <1>9
<1> QED BY <1>5, <1>10, <1>11 DEF A, B

\* The worker that serves takes a block: counted in, its product is where it
\* should be, and with the last block the result is the product of both.
LEMMA TakenSums ==
  ASSUME QInv, NEW w \in Worker, TakeBlock(w), Sums(matrix), NEW m2, m2 = Added(w)'
  PROVE  Sums(m2)' /\ \E k \in 0 .. count' - 1 : job'[w].res = At(k)'
<1>1. /\ outPointer \in Slot /\ matrix \in [Slot -> Int4] /\ count \in Nat /\ count <= Q_SIZE
      /\ Q_SIZE \in Nat /\ Q_SIZE >= 3 /\ jobsCreated \in 0 .. MAXJOBS /\ MAXJOBS \in Nat
  BY QueueAssumption DEF QInv, TypeOK
<1>2. At(0) = outPointer /\ At(1) = Second /\ count >= 3
  BY BlockTaken
<1>3. PICK n \in 1 .. 8 : Statuses = Table[n]
  BY BlockTaken
<1>4. InWork
  BY DEF TakeBlock, InWork
<1>5. PICK r \in 2 .. count - 1 : resultIndex[outPointer] = At(r)
  BY <1>4 DEF QInv, Front
<1>6. PICK e : Weighed(matrix, e)
  BY DEF Sums
<1> DEFINE A == matrix[outPointer]
           B == matrix[Second]
<1>7. matrix[At(r)] = PartSum(A, B, n - 1)
  BY <1>3, <1>4, <1>5, <1>6 DEF Weighed
<1>8. /\ job'[w].res = At(r)
      /\ \A i \in Slot : i # At(r) => m2[i] = matrix[i]
      /\ m2[At(r)] = PartSum(A, B, n)
  BY <1>3, <1>5, <1>7, BlockAdded
<1> HIDE DEF A, B
<1>9. jobsCreated' = jobsCreated /\ resultIndex' = resultIndex
  BY DEF TakeBlock
<1>10. \A k \in 0 .. count - 1 : At(k) \in Slot /\ (At(k) = At(r) => k = r)
  <2>1. \A k \in 0 .. count - 1 : k \in 0 .. Q_SIZE /\ k \in 0 .. Q_SIZE - 1
    BY <1>1
  <2>2. r \in 0 .. Q_SIZE - 1
    BY <1>1
  <2> QED BY <1>1, <2>1, <2>2, AtApart
<1>11. \A k \in 0 .. count - 1 : Unfinished(k) <=> k = r
  BY <1>4, <1>5, <1>10 DEF Unfinished
<1>12. \A k \in 0 .. count - 1 :
          IF k = r THEN e[k + 1] = e[k]
          ELSE e[k] < e[k + 1] /\ matrix[At(k)] = Power[e[k + 1] - e[k]]
  BY <1>6, <1>11 DEF Weighed
<1>13. Totals(e, count, jobsCreated)
  BY <1>6 DEF Weighed
<1>14. \A k \in 0 .. count - 1 : k # r => m2[At(k)] = matrix[At(k)]
  BY <1>8, <1>10
<1>15. CASE n < 8
  <2>1. UNCHANGED <<outPointer, count, Second>> /\ InWork' /\ Statuses' = Table[n + 1]
    BY <1>3, <1>15, TakenWork
  <2>2. \A k : At(k)' = At(k) /\ (Unfinished(k)' <=> Unfinished(k))
    BY <1>4, <1>9, <2>1 DEF At, Unfinished
  <2>3. ASSUME NEW k \in 0 .. count - 1
        PROVE  IF Unfinished(k)' THEN e[k + 1] = e[k]
               ELSE e[k] < e[k + 1] /\ m2[At(k)'] = Power[e[k + 1] - e[k]]
    BY <1>11, <1>12, <1>14, <2>2
  <2>4. ASSUME NEW k \in 1 .. 8, Table[k] = Statuses'
        PROVE  m2[resultIndex'[outPointer']] = PartSum(m2[outPointer'], m2[Second'], k - 1)
    <3>1. k = n + 1
      BY <1>15, <2>1, <2>4, RowsApart, k \in 1 .. 9, n + 1 \in 1 .. 9
    <3>2. m2[outPointer] = A /\ m2[Second] = B
      <4>1. 0 \in 0 .. count - 1 /\ 1 \in 0 .. count - 1 /\ 0 # r /\ 1 # r
        BY <1>1, <1>2
      <4> QED BY <1>2, <1>14, <4>1 DEF A, B
    <3>3. k - 1 = n
      BY <3>1
    <3> QED BY <1>5, <1>8, <1>9, <2>1, <3>2, <3>3
  <2>5. Weighed(m2, e)'
    BY <1>9, <1>13, <2>1, <2>3, <2>4 DEF Weighed
  <2>6. r \in 0 .. count' - 1 /\ job'[w].res = At(r)'
    BY <1>8, <2>1, <2>2
  <2> QED BY <2>5, <2>6 DEF Sums
<1>16. CASE n = 8
  <2>1. outPointer' = (outPointer + 2) % Q_SIZE /\ count' = count - 2 /\ ~ InWork'
    BY <1>3, <1>16, TakenWork
  <2>2. \A k \in 0 .. Q_SIZE - 2 : At(k)' = At(k + 2)
    BY <1>1, <2>1, MovedOn
  <2>3. Climbs(e, count, r)
    BY <1>12 DEF Climbs
  <2>4. PICK f :
          /\ Totals(f, count - 2, jobsCreated)
          /\ f[r - 1] - f[r - 2] = e[2] /\ f[r - 2] < f[r - 1]
          /\ \A k \in 0 .. count - 3 : k # r - 2 => /\ f[k] < f[k + 1]
                                                    /\ f[k + 1] - f[k] = e[k + 3] - e[k + 2]
    <3>1. count \in Nat /\ jobsCreated \in Nat
      BY <1>1
    <3> QED BY <1>13, <2>3, <3>1, WeightMoves
  <2>5. m2[At(r)] = Power[e[2]]
    <3>1. /\ e[0] = 0 /\ e[1] \in 0 .. MAXJOBS /\ e[2] \in 0 .. MAXJOBS /\ e[0] < e[1] /\ e[1] < e[2]
          /\ A = Power[e[1] - e[0]] /\ B = Power[e[2] - e[1]]
      <4>1. 0 \in 0 .. count - 1 /\ 1 \in 0 .. count - 1 /\ 0 # r /\ 1 # r /\ 1 \in 0 .. count /\ 2 \in 0 .. count
        BY <1>1, <1>2
      <4>2. e[0] < e[1] /\ A = Power[e[1] - e[0]] /\ e[1] < e[2] /\ B = Power[e[2] - e[1]]
        BY <1>2, <1>12, <4>1, 0 + 1 = 1, 1 + 1 = 2 DEF A, B
      <4>3. e[0] = 0 /\ e[1] \in 0 .. jobsCreated /\ e[2] \in 0 .. jobsCreated
        BY <1>13, <4>1 DEF Totals
      <4> QED BY <1>1, <4>2, <4>3
    <3> DEFINE x == e[1]
               y == e[2] - e[1]
    <3>2. x \in 1 .. MAXJOBS /\ y \in 1 .. MAXJOBS /\ x + y = e[2] /\ x + y <= MAXJOBS /\ e[1] - e[0] = x
      BY <1>1, <3>1
    <3>3. A = Power[x] /\ B = Power[y]
      BY <3>1, <3>2
    <3> HIDE DEF x, y
    <3>4. MatProd(A, B) = Power[e[2]]
      BY <3>2, <3>3, PowersAdd
    <3>5. A \in Int4 /\ B \in Int4
      BY <3>2, <3>3, PowerType
    <3> QED BY <1>8, <1>16, <3>4, <3>5, PartEnds
  <2>6. ASSUME NEW k \in 0 .. count - 3
        PROVE  f[k] < f[k + 1] /\ m2[At(k)'] = Power[f[k + 1] - f[k]]
    <3>1. At(k)' = At(k + 2) /\ k + 2 \in 0 .. count - 1 /\ k + 2 + 1 = k + 3
      BY <1>1, <2>2
    <3>2. CASE k = r - 2
      <4>1. k + 2 = r /\ k + 1 = r - 1
        BY <3>2
      <4> QED BY <2>4, <2>5, <3>1, <3>2, <4>1
    <3>3. CASE k # r - 2
      <4>1. k + 2 # r
        BY <3>3
      <4>2. m2[At(k + 2)] = matrix[At(k + 2)] /\ matrix[At(k + 2)] = Power[e[k + 3] - e[k + 2]]
        BY <1>12, <1>14, <3>1, <4>1
      <4>3. f[k] < f[k + 1] /\ f[k + 1] - f[k] = e[k + 3] - e[k + 2]
        BY <2>4, <3>3
      <4> QED BY <3>1, <4>2, <4>3
    <3> QED BY <3>2, <3>3
  <2>7. count' - 1 = count - 3
    BY <1>1, <2>1
  <2>8. Weighed(m2, f)'
    BY <1>9, <2>1, <2>4, <2>6, <2>7 DEF Weighed, Unfinished
  <2>9. r - 2 \in 0 .. count' - 1 /\ r - 2 \in 0 .. Q_SIZE - 2 /\ r - 2 + 2 = r
    BY <1>1, <2>7
  <2>10. job'[w].res = At(r - 2)'
    <3>1. At(r - 2)' = At(r - 2 + 2)
      BY <2>2, <2>9
    <3> QED BY <1>8, <2>9, <3>1
  <2> QED BY <2>8, <2>9, <2>10 DEF Sums
<1> QED BY <1>15, <1>16

\* Steps that leave the ring and the statuses alone.
LEMMA SameWeights ==
  ASSUME UNCHANGED <<ring, status, resultIndex, jobsCreated>>, InWork' <=> InWork, NEW m, Sums(m)
  PROVE  Sums(m)'
<1>1. PICK e : Weighed(m, e)
  BY DEF Sums
<1>2. /\ count' = count /\ jobsCreated' = jobsCreated /\ outPointer' = outPointer /\ Second' = Second
      /\ Statuses' = Statuses /\ resultIndex' = resultIndex
      /\ \A n : At(n)' = At(n)
  BY DEF ring, Second, Statuses, At
<1>3. \A n : Unfinished(n)' <=> Unfinished(n)
  BY <1>2 DEF Unfinished
<1>4. Weighed(m, e)'
  BY <1>1, <1>2, <1>3 DEF Weighed
<1> QED BY <1>4 DEF Sums

\* Steps in which nobody takes or adds anything.
LEMMA ConservedSame ==
  ASSUME Conserved, UNCHANGED <<ring, slots, jobsCreated, job>>, InWork' <=> InWork,
         Adding' \subseteq Adding, Alive' => Alive,
         \A w \in Adding : w \in Adding' \/ pc'[w] = "dead"
  PROVE  Conserved'
<1>1. \A w : Added(w)' = Added(w)
  BY DEF Added, slots
<1>2. \A m : Sums(m) => Sums(m)'
  BY SameWeights DEF slots
<1>3. \A w \in Adding' : job'[w].res # -1
  BY DEF Conserved
<1>4. ASSUME OneServes', Alive'
      PROVE  /\ \A w \in Adding' : \E n \in 0 .. count' - 1 : job'[w].res = At(n)'
             /\ \A w \in Adding' : Sums(Added(w))'
             /\ Adding' = {} => Sums(matrix)'
  <2>1. OneServes /\ Alive
    BY <1>4 DEF OneServes
  <2>2. \A w \in Adding : \E n \in 0 .. count - 1 : job[w].res = At(n)
    BY <2>1 DEF Conserved
  <2>3. \A n : At(n)' = At(n) /\ count' = count
    BY DEF At, ring
  <2>4. \A w \in Adding' : \E n \in 0 .. count' - 1 : job'[w].res = At(n)'
    BY <2>2, <2>3
  <2>5. \A w \in Adding' : Sums(Added(w))'
    BY <1>1, <1>2, <2>1 DEF Conserved
  <2>6. Adding' = {} => Adding = {}
    <3>1. \A w \in Adding : job'[w].res # -1 /\ w \in Worker
      BY DEF Conserved, Adding
    <3> QED BY <1>4, <3>1 DEF Alive
  <2>7. Adding' = {} => Sums(matrix)'
    BY <1>2, <2>1, <2>6 DEF Conserved, slots
  <2> QED BY <2>4, <2>5, <2>7
<1> QED BY <1>3, <1>4 DEF Conserved

LEMMA AddedType ==
  ASSUME QInv, NEW w \in Worker
  PROVE  Added(w) \in [Slot -> Int4]
<1> DEFINE r == job[w].res
           c == cblockindex(job[w].status1, job[w].status2)
<1>1. matrix \in [Slot -> Int4] /\ job[w].D \in Int
  BY DEF QInv, TypeOK
<1>2. Added(w) = [matrix EXCEPT ![r] = [matrix[r] EXCEPT ![c] = @ + job[w].D]]
  BY DEF Added
<1> HIDE DEF r, c
<1>3. r \in Slot => [matrix[r] EXCEPT ![c] = @ + job[w].D] \in Int4
  <2>1. ASSUME NEW f \in [0 .. 3 -> Int], NEW i, NEW d \in Int
        PROVE  [f EXCEPT ![i] = @ + d] \in [0 .. 3 -> Int]
    <3>1. CASE i \in 0 .. 3
      BY <3>1
    <3>2. CASE i \notin 0 .. 3
      BY <3>2
    <3> QED BY <3>1, <3>2
  <2>2. r \in Slot => matrix[r] \in [0 .. 3 -> Int]
    BY <1>1 DEF Int4
  <2> QED BY <1>1, <2>1, <2>2 DEF Int4
<1> QED BY <1>1, <1>2, <1>3

\* A product goes to the same slot whether or not another slot is filled first.
LEMMA AddedApart ==
  ASSUME QInv, NEW w \in Worker, NEW i \in Slot, job[w].res # i, NEW x, job' = job,
         matrix' = [matrix EXCEPT ![i] = x]
  PROVE  Added(w)' = [Added(w) EXCEPT ![i] = x]
<1> DEFINE r == job[w].res
           c == cblockindex(job[w].status1, job[w].status2)
           y == [matrix[r] EXCEPT ![c] = @ + job[w].D]
<1>1. matrix \in [Slot -> Int4]
  BY DEF QInv, TypeOK
<1>2. Added(w) = [matrix EXCEPT ![r] = y]
  BY DEF Added
<1>3. Added(w)' = [matrix' EXCEPT ![r] = y]
  <2>1. matrix'[r] = matrix[r]
    BY <1>1
  <2>2. Added(w)' = [matrix' EXCEPT ![r] = [matrix'[r] EXCEPT ![c] = @ + job[w].D]]
    BY DEF Added
  <2> QED BY <2>1, <2>2
<1>4. r # i
  OBVIOUS
<1> HIDE DEF r, y
<1>5. [[matrix EXCEPT ![i] = x] EXCEPT ![r] = y] = [[matrix EXCEPT ![r] = y] EXCEPT ![i] = x]
  BY <1>1, <1>4
<1> QED BY <1>2, <1>3, <1>5

LEMMA InsertJobConserves ==
  ASSUME QInv, Conserved, NEW p \in Producer, InsertJob(p)
  PROVE  Conserved'
<1>1. /\ inPointer \in Slot /\ count \in Nat /\ count < Q_SIZE /\ count' = count + 1
      /\ matrix' = [matrix EXCEPT ![inPointer] = NewMatrix]
      /\ \A n \in 0 .. Q_SIZE : At(n)' = At(n)
      /\ \A n \in 0 .. count - 1 : At(n) # inPointer
      /\ \A x \in Process : pc'[x] = pc[x] \/ (pc[x] = "insert" /\ pc'[x] = "loop")
  BY JobJoins
<1>2. job' = job
  BY DEF InsertJob
<1>3. Adding' = Adding /\ (Alive' => Alive) /\ (OneServes' => OneServes)
  BY <1>1, <1>2 DEF Adding, Alive, OneServes, Process
<1>4. ASSUME OneServes', Alive'
      PROVE  /\ \A w \in Adding : \E n \in 0 .. count' - 1 : job'[w].res = At(n)'
             /\ \A w \in Adding : Sums(Added(w))'
             /\ Adding = {} => Sums(matrix)'
  <2>1. /\ \A w \in Adding : \E n \in 0 .. count - 1 : job[w].res = At(n)
        /\ \A w \in Adding : Sums(Added(w))
        /\ Adding = {} => Sums(matrix)
    BY <1>3, <1>4 DEF Conserved
  <2>2. Q_SIZE \in Nat
    BY QueueAssumption
  <2>3. ASSUME NEW w \in Adding
        PROVE  (\E n \in 0 .. count' - 1 : job'[w].res = At(n)') /\ Sums(Added(w))'
    <3>1. PICK n \in 0 .. count - 1 : job[w].res = At(n)
      BY <2>1
    <3>2. n \in 0 .. count' - 1 /\ At(n)' = At(n) /\ At(n) # inPointer
      BY <1>1, <2>2
    <3>3. w \in Worker
      BY DEF Adding
    <3>4. Added(w)' = [Added(w) EXCEPT ![inPointer] = NewMatrix]
      BY <1>1, <1>2, <3>1, <3>2, <3>3, AddedApart
    <3>5. Sums(Added(w)) /\ Added(w) \in [Slot -> Int4]
      BY <2>1, <3>3, AddedType
    <3>6. \A m2 : m2 = [Added(w) EXCEPT ![inPointer] = NewMatrix] => Sums(m2)'
      BY <3>5, JobSums
    <3>7. \A m2 : m2 = Added(w)' => Sums(m2)'
      BY <3>4, <3>6
    <3> QED BY <1>2, <3>1, <3>2, <3>7
  <2>4. ASSUME Adding = {} PROVE Sums(matrix)'
    <3>1. Sums(matrix) /\ matrix \in [Slot -> Int4]
      BY <2>1, <2>4 DEF QInv, TypeOK
    <3>2. \A m2 : m2 = [matrix EXCEPT ![inPointer] = NewMatrix] => Sums(m2)'
      BY <3>1, JobSums
    <3>3. \A m2 : m2 = matrix' => Sums(m2)'
      BY <1>1, <3>2
    <3> QED BY <3>3
  <2> QED BY <2>3, <2>4
<1> QED BY <1>2, <1>3, <1>4 DEF Conserved

LEMMA FirstBlockConserves ==
  ASSUME QInv, Conserved, NEW v \in Worker, FirstBlock(v)
  PROVE  Conserved'
<1>1. /\ inPointer \in Slot /\ count \in Nat /\ count < Q_SIZE /\ count' = count + 1
      /\ matrix' = [matrix EXCEPT ![inPointer] = Zero]
      /\ \A n \in 0 .. Q_SIZE : At(n)' = At(n)
      /\ \A n \in 0 .. count - 1 : At(n) # inPointer
      /\ \A x \in Process : pc'[x] = pc[x] \/ (pc[x] = "first" /\ pc'[x] = "block")
      /\ job' = job
  BY ResultJoins
<1>2. Adding' = Adding /\ (Alive' => Alive) /\ (OneServes' => OneServes)
  BY <1>1 DEF Adding, Alive, OneServes, Process
<1>3. ASSUME OneServes', Alive'
      PROVE  /\ \A w \in Adding : \E n \in 0 .. count' - 1 : job'[w].res = At(n)'
             /\ \A w \in Adding : Sums(Added(w))'
             /\ Adding = {} => Sums(matrix)'
  <2>1. /\ \A w \in Adding : \E n \in 0 .. count - 1 : job[w].res = At(n)
        /\ \A w \in Adding : Sums(Added(w))
        /\ Adding = {} => Sums(matrix)
    BY <1>2, <1>3 DEF Conserved
  <2>2. Q_SIZE \in Nat
    BY QueueAssumption
  <2>3. ASSUME NEW w \in Adding
        PROVE  (\E n \in 0 .. count' - 1 : job'[w].res = At(n)') /\ Sums(Added(w))'
    <3>1. PICK n \in 0 .. count - 1 : job[w].res = At(n)
      BY <2>1
    <3>2. n \in 0 .. count' - 1 /\ At(n)' = At(n) /\ At(n) # inPointer
      BY <1>1, <2>2
    <3>3. w \in Worker
      BY DEF Adding
    <3>4. Added(w)' = [Added(w) EXCEPT ![inPointer] = Zero]
      BY <1>1, <3>1, <3>2, <3>3, AddedApart
    <3>5. Sums(Added(w)) /\ Added(w) \in [Slot -> Int4]
      BY <2>1, <3>3, AddedType
    <3>6. \A m2 : m2 = [Added(w) EXCEPT ![inPointer] = Zero] => Sums(m2)'
      BY <3>5, ResultSums
    <3>7. \A m2 : m2 = Added(w)' => Sums(m2)'
      BY <3>4, <3>6
    <3> QED BY <1>1, <3>1, <3>2, <3>7
  <2>4. ASSUME Adding = {} PROVE Sums(matrix)'
    <3>1. Sums(matrix) /\ matrix \in [Slot -> Int4]
      BY <2>1, <2>4 DEF QInv, TypeOK
    <3>2. \A m2 : m2 = [matrix EXCEPT ![inPointer] = Zero] => Sums(m2)'
      BY <3>1, ResultSums
    <3>3. \A m2 : m2 = matrix' => Sums(m2)'
      BY <1>1, <3>2
    <3> QED BY <3>3
  <2> QED BY <2>3, <2>4
<1> QED BY <1>1, <1>2, <1>3 DEF Conserved

LEMMA TakeBlockConserves ==
  ASSUME QInv, Conserved, NEW v \in Worker, TakeBlock(v)
  PROVE  Conserved'
<1>1. /\ pc[v] = "block" /\ v \in Process
      /\ pc \in [Process -> {"loop", "insert", "first", "block", "add", "exit", "dead"}]
      /\ job \in [Worker -> [status1 : 0 .. 4, status2 : 0 .. 4, res : Slot \cup {-1}, D : Int]]
      /\ outPointer \in Slot /\ count <= Q_SIZE /\ count \in Nat /\ Q_SIZE \in Nat
  BY QueueAssumption DEF TakeBlock, QInv, TypeOK, Process
<1>2. pc' = [pc EXCEPT ![v] = "add"]
  BY DEF TakeBlock, Goto
<1>3. /\ \A x \in Process : x # v => pc'[x] = pc[x]
      /\ pc'[v] = "add"
  BY <1>1, <1>2
<1>4. Adding' = Adding \cup {v} /\ v \notin Adding
  BY <1>1, <1>3 DEF Adding, Process
<1>5. (\A w \in Worker : w # v => job'[w] = job[w]) /\ job'[v].res # -1
  <2>1. InWork
    BY <1>1 DEF InWork
  <2>2. PICK m \in 2 .. count - 1 : resultIndex[outPointer] = At(m)
    BY <2>1 DEF QInv, Front
  <2>3. At(m) \in Slot
    <3>1. m \in 0 .. Q_SIZE
      BY <1>1
    <3> QED BY <1>1, <3>1, AtApart
  <2>4. job' = [job EXCEPT ![v] = [status1 |-> status[outPointer], status2 |-> status[Second],
                                   res |-> resultIndex[outPointer], D |-> BlockProduct]]
    BY DEF TakeBlock
  <2>5. -1 \notin Slot
    BY <1>1 DEF Slot
  <2> QED BY <1>1, <2>2, <2>3, <2>4, <2>5
<1>6. \A w \in Adding' : job'[w].res # -1
  BY <1>4, <1>5 DEF Conserved, Adding
<1>7. ASSUME OneServes', Alive'
      PROVE  /\ \A w \in Adding' : \E n \in 0 .. count' - 1 : job'[w].res = At(n)'
             /\ \A w \in Adding' : Sums(Added(w))'
             /\ Adding' = {} => Sums(matrix)'
  <2>1. OneServes
    BY <1>5, <1>7 DEF OneServes
  <2>2. Alive
    BY <1>1, <1>3, <1>5, <1>7 DEF Alive, Process
  <2>3. Adding = {}
    <3>1. ASSUME NEW w \in Adding PROVE FALSE
      <4>1. w \in Worker /\ w # v /\ job[w].res # -1
        BY <1>4 DEF Adding, Conserved
      <4>2. job'[w].res # -1 /\ job'[v].res # -1
        BY <1>5, <4>1
      <4> QED BY <1>7, <4>1, <4>2 DEF OneServes
    <3> QED BY <3>1
  <2>4. Sums(matrix)
    BY <2>1, <2>2, <2>3 DEF Conserved
  <2>5. \A m2 : m2 = Added(v)' => Sums(m2)' /\ \E k \in 0 .. count' - 1 : job'[v].res = At(k)'
    BY <2>4, TakenSums
  <2>6. Sums(Added(v))' /\ \E k \in 0 .. count' - 1 : job'[v].res = At(k)'
    BY <2>5
  <2>7. Adding' = {v}
    BY <1>4, <2>3
  <2> QED BY <2>6, <2>7
<1> QED BY <1>6, <1>7 DEF Conserved

LEMMA AddBlockConserves ==
  ASSUME QInv, Conserved, NEW v \in Worker, AddBlock(v)
  PROVE  Conserved'
<1>1. /\ pc[v] = "add" /\ v \in Process
      /\ pc \in [Process -> {"loop", "insert", "first", "block", "add", "exit", "dead"}]
      /\ pc' = [pc EXCEPT ![v] = "loop"] /\ job' = job /\ matrix' = Added(v)
      /\ UNCHANGED <<ring, status, resultIndex, jobsCreated>>
  BY DEF AddBlock, Goto, QInv, TypeOK, Process, Added
<1>2. \A x \in Process : x # v => pc'[x] = pc[x]
  BY <1>1
<1>3. pc'[v] = "loop"
  BY <1>1
<1>4. Adding' = Adding \ {v} /\ v \in Adding
  BY <1>1, <1>2, <1>3 DEF Adding, Process
<1>5. InWork' <=> InWork
  <2>1. Started' <=> Started
    BY <1>1 DEF Started, Second, ring
  <2>2. \A w \in Worker : pc'[w] = "block" <=> pc[w] = "block"
    BY <1>1, <1>2, <1>3 DEF Process
  <2> QED BY <2>1, <2>2 DEF InWork
<1>6. \A w \in Adding' : job'[w].res # -1
  BY <1>1, <1>4 DEF Conserved
<1>7. ASSUME OneServes', Alive'
      PROVE  /\ \A w \in Adding' : \E n \in 0 .. count' - 1 : job'[w].res = At(n)'
             /\ \A w \in Adding' : Sums(Added(w))'
             /\ Adding' = {} => Sums(matrix)'
  <2>1. OneServes
    BY <1>1, <1>7 DEF OneServes
  <2>2. Alive
    BY <1>1, <1>2, <1>7 DEF Alive, Process
  <2>3. Adding' = {}
    <3>1. \A w \in Adding : w \in Worker /\ job[w].res # -1
      BY DEF Adding, Conserved
    <3>2. \A w \in Adding : w = v
      BY <1>4, <2>1, <3>1 DEF OneServes
    <3> QED BY <1>4, <3>2
  <2>4. Sums(Added(v))
    BY <1>4, <2>1, <2>2 DEF Conserved
  <2>5. \A m : Sums(m) => Sums(m)'
    BY <1>1, <1>5, SameWeights
  <2>6. \A m : m = Added(v) => Sums(m)'
    BY <2>4, <2>5
  <2>7. \A m : m = matrix' => Sums(m)'
    BY <1>1, <2>6
  <2> QED BY <2>3, <2>7
<1> QED BY <1>6, <1>7 DEF Conserved

LEMMA ConservedStep == QInv /\ Conserved /\ [Next]_vars => Conserved'
<1> SUFFICES ASSUME QInv, Conserved, [Next]_vars PROVE Conserved'
  OBVIOUS
<1> DEFINE Pcs == {"loop", "insert", "first", "block", "add", "exit", "dead"}
<1>1. pc \in [Process -> Pcs]
  BY DEF QInv, TypeOK
<1>2. ASSUME UNCHANGED <<ring, slots, jobsCreated, job, pc>>
      PROVE  Conserved'
  <2>1. InWork' <=> InWork
    BY <1>2 DEF InWork, Started, Second, ring, slots
  <2>2. Adding' = Adding /\ Alive' = Alive
    BY <1>2 DEF Adding, Alive
  <2> QED BY <1>2, <2>1, <2>2, ConservedSame
<1>3. ASSUME NEW x \in Process, NEW l \in {"exit", "dead", "insert"}, Goto(x, l), pc[x] # "block", x \in Worker => l = "dead",
             UNCHANGED <<ring, slots, jobsCreated, job>>
      PROVE  Conserved'
  <2>1. /\ \A y \in Process : y # x => pc'[y] = pc[y]
        /\ pc'[x] = l
    BY <1>1, <1>3 DEF Goto
  <2>2. Started' <=> Started
    BY <1>3 DEF Started, Second, ring, slots
  <2>3. \A w \in Worker : pc'[w] = "block" <=> pc[w] = "block"
    BY <1>3, <2>1 DEF Process
  <2>4. InWork' <=> InWork
    BY <2>2, <2>3 DEF InWork
  <2>5. Adding' \subseteq Adding /\ \A w \in Adding : w \in Adding' \/ pc'[w] = "dead"
    BY <1>3, <2>1 DEF Adding, Process
  <2>6. Alive' => Alive
    BY <1>3, <2>1 DEF Alive, Process
  <2> QED BY <1>3, <2>4, <2>5, <2>6, ConservedSame
<1>4. ASSUME NEW p \in Producer, EnterProducer(p)
      PROVE  Conserved'
  <2>1. p \in Process /\ p \notin Worker
    BY QueueAssumption DEF Process
  <2>2. pc[p] = "loop" /\ UNCHANGED <<ring, slots, jobsCreated, job>> /\ (Goto(p, "exit") \/ Goto(p, "insert"))
    BY <1>4 DEF EnterProducer
  <2> QED BY <1>3, <2>1, <2>2
<1>5. ASSUME NEW v \in Worker, EnterWorker(v)
      PROVE  Conserved'
  <2>1. /\ pc[v] = "loop" /\ mutex = 1 /\ count >= 2 /\ v \in Process
        /\ UNCHANGED <<ring, slots, jobsCreated, job>>
        /\ \/ Statuses = <<0, 0>> /\ pc' = [pc EXCEPT ![v] = "first"]
           \/ Statuses # <<0, 0>> /\ pc' = [pc EXCEPT ![v] = "block"]
    BY <1>5 DEF EnterWorker, Goto, Statuses, Process
  <2>2. \A x \in Process : x # v => pc'[x] = pc[x]
    BY <1>1, <2>1
  <2>3. pc'[v] \in {"first", "block"} /\ (pc'[v] = "block" <=> Statuses # <<0, 0>>)
    BY <1>1, <2>1
  <2>4. Started' <=> Started
    BY <2>1 DEF Started, Second, ring, slots
  <2>5. InWork' <=> InWork
    <3>1. pc'[v] = "block" => Started
      BY <2>1, <2>3 DEF Started, Statuses
    <3> QED BY <2>1, <2>2, <2>4, <3>1 DEF InWork, Process
  <2>6. Adding' = Adding
    BY <2>1, <2>2, <2>3 DEF Adding, Process
  <2>7. Alive' => Alive
    BY <2>1, <2>2 DEF Alive, Process
  <2> QED BY <2>1, <2>5, <2>6, <2>7, ConservedSame
<1>6. ASSUME NEW x \in Process, Die(x)
      PROVE  Conserved'
  <2>1. x \in killed /\ Goto(x, "dead") /\ UNCHANGED <<ring, slots, jobsCreated, job>>
    BY <1>6 DEF Die
  <2>2. pc[x] # "block"
    BY <2>1 DEF QInv, Guarded, Inside
  <2> QED BY <1>3, <2>1, <2>2
<1>7. CASE \E p \in Producer : ProducerStep(p)
  BY <1>4, <1>6, <1>7, InsertJobConserves DEF ProducerStep, Process
<1>8. CASE \E w \in Worker : WorkerStep(w)
  BY <1>5, <1>6, <1>8, FirstBlockConserves, TakeBlockConserves, AddBlockConserves DEF WorkerStep, Process
<1>9. CASE Stop \/ PrintTrace \/ Terminated \/ UNCHANGED vars
  BY <1>2, <1>9 DEF Stop, PrintTrace, Terminated, vars
<1> QED BY <1>7, <1>8, <1>9 DEF Next

LEMMA ConservedInvariant == Spec => [](QInv /\ Conserved)
  BY ConservedInit, ConservedStep, RingInvariant, PTL DEF Spec

LEMMA Accounted ==
  ASSUME QInv, Conserved
  PROVE  FactorsConserved
<1> SUFFICES ASSUME NothingOutstanding, OneServes PROVE \E e \in [0 .. count -> 0 .. jobsCreated] :
        /\ e[0] = 0 /\ e[count] = jobsCreated
        /\ \A n \in 0 .. count - 1 :
              IF Started /\ At(n) = resultIndex[outPointer] THEN e[n + 1] = e[n]
              ELSE e[n] < e[n + 1] /\ matrix[At(n)] = Power[e[n + 1] - e[n]]
  BY DEF FactorsConserved, At
<1>1. Adding = {} /\ Alive /\ (InWork <=> Started)
  BY DEF NothingOutstanding, Adding, Alive, InWork
<1>2. PICK e : Weighed(matrix, e)
  BY <1>1 DEF Conserved, Sums
<1> QED BY <1>1, <1>2 DEF Weighed, Totals, Unfinished

\* As long as one worker does all the work, whatever the others, the producers and
\* SIGTERM do: the matrices in the ring are products of the created matrices, each
\* of which has gone into exactly one of them (lines 121-156, 171-187, 349-393).
THEOREM EachGoesInOnce == Spec => []FactorsConserved
  BY ConservedInvariant, Accounted, PTL

\* The matrix of which main prints the trace.
LastIsPower ==
    NothingOutstanding /\ OneServes /\ jobsCreated = MAXJOBS /\ count = 1 => matrix[outPointer] = Power[MAXJOBS]

\* In particular the last matrix is the product of all that were created, once the
\* worker has added its last block (lines 422-447).
THEOREM LastMatrixRight == Spec => []LastIsPower
<1>1. ASSUME QInv, FactorsConserved PROVE LastIsPower
  <2> SUFFICES ASSUME NothingOutstanding, OneServes, jobsCreated = MAXJOBS, count = 1
               PROVE  matrix[outPointer] = Power[MAXJOBS]
    BY DEF LastIsPower
  <2>1. PICK e \in [0 .. count -> 0 .. jobsCreated] :
          /\ e[0] = 0 /\ e[count] = jobsCreated
          /\ \A n \in 0 .. count - 1 :
                IF Started /\ (outPointer + n) % Q_SIZE = resultIndex[outPointer] THEN e[n + 1] = e[n]
                ELSE e[n] < e[n + 1] /\ matrix[(outPointer + n) % Q_SIZE] = Power[e[n + 1] - e[n]]
    BY <1>1 DEF FactorsConserved
  <2>2. At(0) = outPointer
    BY <1>1, AtApart DEF QInv, TypeOK
  <2>3. ~ Started
    BY DEF Started
  <2>4. matrix[outPointer] = Power[e[0 + 1] - e[0]]
    BY <2>1, <2>2, <2>3, 0 \in 0 .. 1 - 1 DEF At
  <2>5. e[0 + 1] - e[0] = MAXJOBS
    BY <2>1, QueueAssumption, 0 + 1 = 1
  <2> QED BY <2>4, <2>5
<1> QED BY <1>1, RingInvariant, EachGoesInOnce, PTL
=============================================================================
