# Verification of the CS39002 operating-systems laboratory programs

TLA+ models of the programs of this repository, the TLC runs that check them on small instances, and TLAPS proofs of
the properties of the job tree, the ring of matrices, the shell's prompt and history, its job control, multiwatch and the
memory manager for all parameters. Paths below are relative to the repository (`src/`); "line n" means
line n of the file a section is about. `PROJECT.json` holds the list of runs, the mutant that breaks each checked
property, the lines each definition stands for, the findings and the hazards.

Contents: 1 the system · 2 modules · 3 runs · 4 fairness · 5 what is proved · 6 what is only model-checked ·
7 findings · 8 what is not modelled · 9 plan

## 1. The system

The repository holds five separate assignments. They share no code and no state.

### a1 — shell scripts (`a1-shell-scripting/`)
Seven sequential one-file scripts around awk, sed and curl. They keep nothing, share nothing and run alone.
*Not modelled.*

### a2 — a shell (`a2-custom-shell/Assignment2_35_*.cpp`)
| part | state | operations |
|---|---|---|
| line editor (`readLine`) | the line, `askedHistoryIndex` | typing, Backspace, Tab (`autocomplete`), arrows, Control-R (`searchHistory`, `lcs`), Enter |
| history | the deque in `main`, at most `MAXHISTSIZE` entries; the file `./mybash_history` | `loadHistory`, append in `main`, `saveHistory` |
| parser | none | `trim`, `splitAmpersand`, `splitPipe`, `tokenizeCommand`, both `parseCommand` |
| job control | process groups, the terminal's foreground group and mode, child states, pipes, a pending SIGCHLD | `executeCommand`, `executePipe`, `executeSimpleCommand`, `sigchldHandler`, Ctrl-C, Ctrl-Z |
| multiwatch | a surrogate process, a runner per command, the commands' programs, a pipe per command, the texts printed | `handleMultiwatch`: fork, `poll`, `read`, print; the `mw_mode` of the `execute*` functions; Ctrl-C, Ctrl-Z |

*Interaction.* The line editor hands a line to the parser, whose stages are forked one after the other; the SIGCHLD
handler interrupts the shell between any two steps and reaps children that `waitpid` is waiting for; child and shell
both call `setpgid` and `tcsetpgrp`. A multiwatch is one stage to the shell, and inside it the same functions run once
more in other processes, with another idea of who owns the terminal. `cd` changes where the history will be saved.
*Hard.* The race of handler and `waitpid`; who owns the terminal, after each stage of a watched command too; Ctrl-Z in
the windows between SIGCONT and `tcsetpgrp`; a full pipe whose reader is not started yet; a read that fills its buffer or
holds a zero byte; one signal for several children; a hang-up during a save.
*Correct means.* The terminal comes back to the shell; no foreground process is forgotten or left stopped; keys do
not reach background processes; no zombie stays; the shell gets back to its prompt; what is written to a watched
command's pipe is shown under its name, in order and whole but for what a zero byte cuts off, and the prompt comes back
when nothing is left to write; history entries are
lines that were entered, in order; a line is parsed as its grammar says.

### a3 — parallel matrix multiplication (`a3-parallel-matrix-multiplication/`)
`task2.cpp`: a ring of matrices in shared memory with `inPointer`, `outPointer`, `count`, a status and a
`resultIndex` per slot, and two semaphores, `mutex` and `empty`. Producer processes insert matrices; worker processes
take the eight block products of the two front matrices one by one, in two critical sections each, and add them to a
result slot at the end of the ring; main polls until a single matrix is left, kills everybody and prints its trace.
`task1.c`: one child process per cell of a product, which share only read-only inputs.
*Hard.* `empty` is waited for while `mutex` is held; a pointer is kept across two critical sections; the last block
removes both factors before all products have been added; everybody polls.
*Correct means.* Pointers and semaphores agree; nobody waits for a slot that nobody can free; each block is handed out
once; each created matrix goes into the result exactly once; main finishes.

### a4 — job tree (`a4-threads-and-locks/Assignment_4_35.cpp`)
| part | state | operations |
|---|---|---|
| readers-writers lock | `in_mutex`, `mutex`, `rw_mutex`, `counter` | reader and writer protocols around `count_jobs` |
| job queue | `count_jobs`, per job `status`, `child_jobs`, a mutex | `insert_new_job` |
| producers (threads of process A) | `j`, `newjob`, the jobs added | pick a job, trylock it, insert a child |
| consumers (threads of process B) | `i`, `k`, `all_done` | sweep over the queue, check children, run, complete |
| main | its place | create, fork, join, wait, print the tree, look for missed jobs |

*Interaction.* Everything is in one shared-memory segment. Producers and consumers are readers of `count_jobs`;
producers are writers too, while they hold the mutex of the parent job. Consumers hold a job's mutex while they lock
its children one by one.
*Hard.* `count_jobs` is a stale copy during a sweep; the root's status is read long before the insertion it guards; a
job is counted before its mutex is initialised; a job is unlocked while it runs; nested locks of four kinds; trylock.
*Correct means.* Bottom-up order; one runner per job; a tree, closed once the root has been started; no deadlock;
consumers do not stop while jobs have been missed; the report is complete.
`final_prog.cpp`, `nonrw_prog.cpp` and `prog.cpp` are drafts of this program.

### a5 — memory management unit (`a5-memory-management-unit/mmu.cpp`, `mmu.h`)
State: a free list of holes and a list of segments (doubly linked, by hand), bitmaps of the variables of a segment,
mark and on-stack bits, the collector's stack with a saved frame pointer, one lock. Operations: `create_mem`,
`create_var`, `create_arr`, `assign_var`, `assign_arr` (all of an array, or one element), `getval`, `free_elem`,
`push_rbp`, `gc_pop_frame`; a collector thread that marks and sweeps between any two of them. `demo1.cpp`, `demo2.cpp`, `test1.cpp` are clients.
*Hard.* Pointer surgery with four list ends; three encodings of a token (segment, array, variable); bits flipped
through stack nodes; when the collector may run.
*Correct means.* No word is given out twice; nothing in an open frame is collected, what no frame holds is; every
token in scope can be used, and what was assigned through it is read again; the free list is a sorted list of the holes.

## 2. Modules

    ReadersWriters   <- refined by -  RWLock  - extended by ->  JobSystem  - refines ->  JobTree
                                      RWLockProofs  <- used by -  JobSystemProofs  <- used by -  JobSystemLimits
    MatMulQueue  <- MatMulQueueProofs
    HoleList  - extended by ->  MMU  <- MMUProofs
    ShellJobs   <- ShellJobsProofs
    Multiwatch  <- MultiwatchProofs
    CommandLine - extended by -> CommandGrammar - extended by -> ShellPrompt  <- ShellPromptProofs
    MC*       : values and bounded inputs for TLC

**RWLock** (a4). `rw[t]` is the place of thread t in the protocol that producer and consumer write out in line. Each
action starts with the one lock call that may block; the unlocks behind it belong to the same step. No thread uses
trylock on these three mutexes, so the instant of an unlock cannot be seen. `rw_mutex` is a flag, not an owner: the
last reader unlocks what the first one locked. *ReadersWriters* is what it promises: any number of readers or one
writer.

**JobSystem** (a4). Extends RWLock. Job mutexes are taken with trylock too, so here being held is explicit: an action
takes at most one, and all a thread does while holding it up to its next lock call is one further step (`pc` names the
lock held). Producer: `TimeOver`/`StartRound` (146), `LockRoot`, `CheckRoot` (148-153), `EnterRead`, `PickJob`
(156-168), `TryJob`, `CheckJob`, `EnterWrite`, `InsertNewJob` and `InitMutex` (insert_new_job up to, and from, the
increment of `count_jobs`), `AttachChild` (193-206; in a full queue the message at 193 dereferences NULL, pc
"crashed"). Consumer: `TakeSnapshot`, `ScanJob`, `ExamineJob`, `LockChild`, `ReadChild`, `LeaveJob`, `StartJob`,
`LockToFinish`, `FinishJob`, `EndSweep`. Main: `Fork`, `JoinProducers`, `ExitB`, `Report` with the recursive functions
`printNTree` and `print_job_tree`. Random ids and durations, sleeps and messages are abstracted: a thread may be
delayed anywhere. *JobTree* is what it promises: Add under a waiting job, Start when all children are complete, Finish.
In the refinement a new job belongs to its parent from the moment it is counted (`Kids`).

**MatMulQueue** (a3, task2.cpp). Matrices are 2 x 2, so a block is a number and `BlockProduct` one multiplication; the
statuses, `UpdateStatus`, `Block` and `cblockindex` are the code's. A process that polls and finds nothing to do
changes nothing and is no action. `FirstBlock` is `InsertResultJob` with its `sem_wait(empty)` under `mutex`, its exit
with `mutex` held included (the proofs show that it is never taken). SIGTERM is asynchronous (`Die`): a killed process may go on for a while.

**HoleList**, **MMU** (a5). A list is a function from allocated addresses to nodes, so a pointer to a freed node is a
pointer outside the domain; a loop along a list is a walk with as many steps as there are nodes (`Trail`, `Find`), and
one that has not stopped by then never does; an operation that follows one, or NULL, returns `ok = FALSE` and nothing is claimed of what
comes after (`Running`). Every operation and every round of the collector is one critical section of `book_lock`, hence
one action. The assignments of the list surgery are in the order of the code where the order matters (`LinkBetween`).
The code's arithmetic is kept: the slot test that can only pass for 0 (455), the token offset shifted as a whole (799),
the bitmap of a new segment as malloc left it (516). The client is one that pops the frames it has pushed and uses a
token while the frame that created it is open, as `demo1.cpp` does. Of the memory the model knows which words hold the
value 1 (`ones`), and which fields of which token the client has set to it (`written`). The code treats all values
alike, so it is enough to follow one, written only while no word holds it; when no
token for it is left, `GiveUp` forgets both: the client reads no word it has not assigned since it got it.

**ShellJobs** (a2). A command line is the sequence of its stages; a stage is in the background or not, reads a pipe or
not, fills its own or not, or is a multiwatch, here a stage that only a key ends. `pc` is the shell's place in `executeSimpleCommand`; a child goes through
"forked", "grouped", "ready", "running". The handler, the two keys, SIGTTIN and children ending are actions that may
come between any two steps.

**Multiwatch** (a2). One multiwatch command: the shell forks and waits (`ShellGives`, `ShellWaits`, `ShellRestores`,
with the handler in between), the surrogate parses, forks runners and loops over `Poll`, `ReadPipe` and `NextPipe`, one
action per system call; a runner forks a command's programs one after the other, waits for those it takes to be in
the foreground and then hands the terminal to the shell (`RunnerRestores`, line 823). The pipe is the runner's own
standard output as well (line 944): when a stage has stopped, "Pushed [..] to background" (line 821) goes into it, in two
`write()`s that wait while it is full (`RunnerPushes`). What is written to a pipe is numbered in order, and `written[c]`
keeps each item's kind: a byte of text, a zero byte, or a notice of the runner. So the texts shown can be compared with
what was written; a pipe holds `PipeSize` items and a read takes `MAX_BUFFER_SIZE` of them. Line 988 prints what was
read as a C string (`ReadPipe`): up to its first zero, the rest is lost; or, when the buffer is full and has none, with
the next bytes in memory behind it (`junk[c]`, the numbers of items of `shown[c]` behind which that happened). The pipes between the
stages of one command are those of ShellJobs and are not repeated here.

**CommandLine**, **CommandGrammar** (a2). The parsing functions as operators on sequences of lexemes (a blank, a
separator, a quote, a word), and the reference they are compared with, stated by positions and not by scanning.

**ShellPrompt** (a2). The prompt over several sessions: editing keys, history, files in several directories, saving
entry by entry, hang-ups, and the crash on a stage without a word. `entered` and `since` are ghosts, the lines ever
entered and how many of them came before this session.

## 3. Runs

State counts are of distinct states. A run marked *violation* documents a finding (section 7).

| run | instance | states | shows |
|---|---|---|---|
| `JobSystem_safety` | 2 producers, 2 consumers, 2 jobs growing to 4, at most 2 children | 304,876 | the lock: its first reader never blocks, no overtaking of a waiting writer, refinement of ReadersWriters; the tree: mutexes, bottom-up order, one runner, tree shape, bounded child lists, queue never full, no early stop, complete report, no wait cycle, closed after the root, refinement of JobTree |
| `JobSystem_live` | 2 producers, 1 consumer, 2 jobs growing to 4, at most 3 children | 56,127 | no job mutex is held for ever, a waiting writer gets in, a started job completes, once the root has been started both processes end |
| `MatMul_safety` | 2 producers, 2 workers, ring of 3, 4 matrices | 621,383 | pointers and semaphores agree, no wait for a slot in the critical section, blocks in order, each created matrix goes into exactly one product as long as one worker does the work, main finishes |
| `MatMul_trace` | 1 producer, 2 workers, ring of 4, 3 matrices 2.I | violation | the printed trace may miss products |
| `MMU_gc` | 48 words, one type, arrays of 16, 2 frames, 2 tokens, with and without collector, zeroed or set malloc memory | 217,246 | the collector's stack, scope, no overlap, values kept and assignments accepted, what a round collects |
| `MMU_holes` | 64 words, with collector | violation | the free list is not sorted |
| `MMU_types` | 64 words, two types, with collector | violation | a variable of the second type cannot be assigned |
| `MMU_alias` | 48 words, 3 tokens | violation | two variables have one token |
| `Shell_jobs` | 3 children, 6 kinds of line (single, pipe and `&` in both modes, multiwatch) | 306,452 | terminal, foreground, keys, reaping, back to the prompt |
| `Multiwatch_watch` | lists `[]`, `["a","b"]`, `["a \| b"]`, `["a & b"]`, zero bytes in the last two; pipes of 3 items, reads of 2, 3 items per command and the runner's notices | 166,376 | what is shown is what was written to the command's pipe, in order and once, but for what a zero cuts off; notices only about a stopped stage; prompt only when nothing is left; everything is read in the end |
| `Multiwatch_ctrlc` | as above | violation | Ctrl-C may not end a multiwatch |
| `Shell_prompt` | 2 directories, 4 typed texts, history of 2, 3 lines entered in all sessions | 1,056,761 | history within a session and across files; parsing, watch lists and searching on all short inputs |

*Why these bounds.* They are chosen so that each interesting case happens, and the run that shows it would lose it if
they were smaller.
- JobSystem: two jobs grow to four, so that a chain of three levels, two children under one parent and a full child
  list (`MAX_CHILD_JOBS` 2) all occur; two consumers sweep against each other and against two producers. `MaxAdds`
  (jobs a producer adds in its time) is 1, so `InitJobs` + producers * `MaxAdds` is exactly `Capacity`: the queue has
  just enough room, as line 310 gives it, and the last insertion fills it. Four threads give the lock two readers
  inside, a writer waiting and a reader behind it. Threads of a kind are interchangeable in the safety run
  (`Symmetry`), and not in the live run.
- MatMul: three is the smallest ring the code can work on; the front pair straddles its end, results become factors
  of results, and with four matrices the producers meet the rule that a slot is kept free. Two workers share a pair;
  `FactorsConserved` speaks of the behaviours of the run in which only one of them works (`OneServes`: a worker's
  `res` is -1 before its first block), since with two it is refuted (finding 1). The entries of `Mixed` are such that sums of different sets of block products differ.
- MMU: 48 words hold a variable segment of 32 and one array of 16, or three arrays, and 64 one more; two frames and two
  tokens make a segment be shared between frames, a hole be split, merged at both ends and freed between. `MaxCounter`
  bounds `seg_counter`, which the code never resets; below 80 no array has a variable's number (section 6). The two malloc contents are zeros and all bits set.
- Shell_jobs: three children are two stages and a leftover in the background.
- Multiwatch: one list per way a command can be cut into programs, and the empty one; three items and reads of two make
  a full buffer followed by a short one, a zero with an item behind it in one read, and a pipe that fills while the
  surrogate reads another. A runner's notices come on top (`MaxOut` bounds only what programs write), so that a runner
  waits for a full pipe too.
- Shell_prompt: a history of two is full with the third line. The parser is compared with the grammar on all lines of
  up to four lexemes out of eight, the watch list on all lists of up to three commands, the search on all histories of
  up to two lines over two letters; each such input is an initial state of its own (`input` of MCShellPrompt), so that a
  counterexample shows it.

Deadlock is checked except for MMU (the process exits when memory is full, and the bounds of the client stop it),
ShellJobs (the shell exits) and Multiwatch (one command, which may end).

## 4. Fairness, and why the code justifies it

- *JobSystem*, *MatMulQueue*: strong fairness per thread or process. A thread blocked in `pthread_mutex_lock` or
  `sem_wait` has no other step, and gets the mutex if it is released again and again. That a writer waiting at the lock
  gets in (`WriterGetsIn`) is checked under the fairness of the whole system and not under one of the lock's own. Nothing is assumed about the
  outcome of a trylock, the choice of `rand()` or the clock. Therefore completion of *all* jobs is not claimed for
  two consumers: each may for ever find the mutex the other one has just taken. What is claimed is that a started job
  completes and, with one consumer, that everything ends once the root has been started.
- *ShellJobs*: weak fairness of the shell, of the handler when a signal is pending, and of each child; a program ends
  by itself unless it is blocked on a full pipe or is a multiwatch. Keys are never assumed.
- *Multiwatch*: weak fairness of the shell and of the surrogate, which are scheduled and never block for ever in a
  step that is enabled. Nothing is assumed of the programs, of their runners or of the keys: `AllShown` must hold
  however slow they are.
- *MMU*, *ShellPrompt* and the violation runs have no fairness; only safety is checked there.

## 5. What is proved

Six components have proofs: the job tree with its lock (`RWLockProofs`, `JobSystemProofs`, `JobSystemLimits`)
for any finite sets of threads, any `Capacity`, `InitJobs`, `MAX_CHILD_JOBS` and `MaxAdds`; the
ring of matrices (`MatMulQueueProofs`) for any producers, workers, `Q_SIZE`, `MAXJOBS` and matrix; the shell's job
control (`ShellJobsProofs`) for any number of children and any set of command lines; multiwatch (`MultiwatchProofs`) for
any lists, pipes, buffers and amounts of output; the memory manager (`MMUProofs`) for any memory, types, arrays, frames
and tokens; the shell's prompt (`ShellPromptProofs`) for any directories, texts typed and length of the history. They assume
- `ThreadAssumption`: threads are finite, `NoThread` is none of them;
- `JobAssumption`: producers and consumers are disjoint and are all threads; 1 <= InitJobs <= Capacity;
- `ListAssumption`: the children main hangs under the root fit its list (lines 24, 326, 331);
- `QueueAssumption`: producers and workers are disjoint, the ring has three slots or more, matrices are of integers;
- `ShellAssumption`: the shell is not one of its children, command lines are sequences of stages and not empty;
- `WatchAssumption`: shell and watch are different groups, programs write text and zeros, pipes and buffer hold at least one item;
- `MMUAssumption`: modes, types and left-over bitmaps are what they can be, arrays and memory are not empty;
- `PromptAssumption`: directories are finite, names and texts are sequences of lexemes, the history has room for an entry.

**Lock.** `RWInv` is inductive as it stands (`RWSafety`): types, who holds `in_mutex` and `mutex` read off the places
(`Turnstile`), `counter` is the number of announced readers, `rw_mutex` is taken exactly when somebody is inside,
exclusion. From it follow `FirstReaderProceeds`, `WriterNotOvertaken` (a writer that has arrived holds `in_mutex`, so
no reader is between arriving and entering) and `RWRefinement`. The counter needs three facts about cardinalities of
finite sets, stated once as lemmas.

**Job system.** None of the wanted properties is inductive. `JInv` adds:
- `Places`: the lock protocol is used where `pc` says so; hence each step is a step of the lock (`StepOfLock`) and the
  lock's invariant carries over (`RWInvPreserved`);
- `Unborn`, `Indexed`: registers are defined where they are used;
- `Ordered`: a child is younger than its parent and every index is below `count_jobs`;
- `Hidden`: until its mutex is initialised the newest job is in no register and no list. This is what makes
  `pthread_mutex_init` (121) harmless, and `JobMutexOwned` inductive;
- `Fresh`: slots behind `count_jobs` are zero;
- `Checked`: what a thread has found out about a job it holds is still true. The parent of a producer waits; the
  children a consumer has passed are complete, since complete jobs stay so and the list cannot change while both would
  need the mutex;
- `RootSeen`: a sweep that ended with `all_done` has seen the root started;
- `T!ChildrenFirst`, `T!Rooted`: the abstract tree's invariants, through the refinement mapping.

One lemma per conjunct has one step per action. `JobSafety` combines them; `TypeCorrect`, `MutualExclusion`,
`SingleRunner` and `BottomUp` follow. *Global order from local checks*: code only ever looks at direct children, yet
when the root has been started every other job is complete. `RootRunsLast` proves it: take the least job that is not
complete (the natural numbers are well-founded); by `Rooted` it has an earlier parent, complete or the root, so started,
so by `ChildrenFirst` the job is complete. From it `NoEarlyQuit` (a consumer stops only when all but the root
is complete, though it worked on stale copies) and `TreeClosed` (no job is added any more once the root has been
started: a producer on its way to insert holds a waiting parent, and no job waits any more). `Refinement` shows that
each step is a step of JobTree or a stutter: `InsertNewJob` is Add, `AttachChild` a stutter, `StartJob` Start,
`FinishJob` Finish.

**Limits of the queue** (`JobSystemLimits`). Each needs an invariant beside `JInv`.
- `ListsBounded`: `Roomy` says that a producer between the test of line 174 and the append of line 195 still has room,
  since it holds the parent's mutex and nobody else appends without it.
- `QueueLongEnough`: a counting argument. `AddedExact` says that `count_jobs` is `InitJobs` plus the cardinality of
  `Made`, the set of pairs (producer, n) such that the producer has counted its n-th job; a step adds one pair or none
  (`MadeStep`). A producer that is about to insert has used fewer than `MaxAdds` pairs, so `Made` is a proper subset of
  all pairs, and there is a free slot when the queue has room for all (`RoomLeft`).
- `TreeShaped`: `Unique` says that no job stands twice in the lists, that a job being made stands in none, and that no
  two producers make the same one. Then each job but the root has exactly one hook or maker.

**No deadlock** (`JobSystemLimits`). `Held`, the converse of `JobMutexOwned`, says that whoever owns a job mutex is at
a place where it holds it. Take a set of threads each of which waits for another one of the set. Nobody that has `mutex`
or is inside waits, so nobody waits for these, nor for `in_mutex`, nor for `rw_mutex`; what is left are job mutexes. A
producer that holds one waits only for the queue, so the threads of the set that hold job mutexes are consumers which
wait for a child of the job they hold; among these take the one whose job has the greatest index: who holds the child
has a job with a greater one (`Ordered`), a contradiction.

**The report** (`JobSystemLimits`). `ReportIsComplete` says that process A prints every job exactly once and finds none
missed, if there is a consumer at all. (With none, process B exits at once and A reports every job: the program asks for
the number and takes 0.) `Closing` says what main may rely on at each place: the producers are joined, and the consumers done,
before it prints, and nobody changes the queue afterwards. The rest is about the recursive walk of lines 399-445, whose
recursions are first shown to be well defined (`PrintedUpToDef`, `PrintNTreeDef`, `VisitedUpToDef`).
- `TreesPrinted`, from the youngest job to the root: what `printNTree` prints for a job is the job and jobs younger than
  it, each once, with a job all its children, and with each but the first its parent (`TreeOf`).
- `TreesApart`: the trees of two siblings have no job in common, since the oldest common job would have two parents
  (`Unique`), or a parent younger than itself (`Ordered`). Without this a job could be printed twice.
- `RootTreeIsAll`: the oldest job not in the root's tree would have an older parent (`T!Rooted`), which is in it.

**Ring of matrices** (`MatMulQueueProofs`). `QInv` is `TypeOK` and `RingConsistent` with
- `Guarded`: at most one process is between `sem_wait(mutex)` and its release, and SIGTERM comes when nobody is there,
  one matrix is left and no more will be created, so that nobody ever enters again;
- `Front`: a status differs from 0 only in the front two slots, whose statuses are a row of the table; matrices in work
  (`InWork`) have their result at a place of the ring behind both; a full ring is in work;
- `Ready`: what a process has seen before it waits for a slot is still true when it takes it.

The last clause of `Front` is the reason why no worker finds the ring full at line 142: a full ring has its result in it
already, and the producers leave a slot for it (lines 32-33). Slots are named by their place behind the front (`At`),
different places are different slots (`AtApart`), an insertion leaves all places alone (`Inserted`), and the removal of
two matrices moves each by two (`MovedOn`). From `RingInvariant` follow `RingSafety`, `SlotsReserved`, `FrontOnly`, and
with `RowByRow` (`UpdateStatus` goes through the table) `InOrder`.

What the matrices hold has an invariant of its own beside `QInv`:
- `Conserved`: the matrices are what they should be (`Sums`) when a product that a worker is about to add is counted in
  (`Added`), and it goes to a matrix of the ring. Without that count the invariant breaks between lines 364 and 391, when
  the two factors may have left the ring and their product is not complete.

`Sums` says that running totals exist along the ring, as in `FactorsConserved`, and that the unfinished result is the sum
of the block products handed out so far (`PartSum`). A block handed out is one more product (`TakenSums`), the next row of
the table is the next sum (`PartNext`); the first block makes a result that adds nothing yet; with the last one the front
two leave, and their weight passes to the result's place (`WeightMoves`), which is then the product of both
(`PowersAdd`). That rests on matrix products being associative (`Associates`). The power is a recursive function, unfolded by
its least counterexample (`PowerDef`), and `PowersAdd` goes by the least exponent too. `EachGoesInOnce` follows for
any matrix and any ring, as long as one worker does all the work, whoever the others are; so does `LastMatrixRight`, which
no run checks: the matrix that is left at the end is the `MAXJOBS`-th power of the created one. The premise `OneServes` is
needed, finding 1 shows why: another worker's late sum goes to a slot that is in other use by then.

**Job control** (`ShellJobsProofs`). `IInv` adds to the types:
- `CommandInv`, `StageInv`: pid is the child of the current stage, and its number does not go to another stage while the
  shell awaits it, which the shell does for a stage of the foreground only;
- `GroupInv`: a child leads a group of its own before it gets as far as `tcsetpgrp`;
- `ForegroundInv`: the awaited child is the only one of the foreground that has neither ended nor been pushed. This is
  what `ForegroundSafe` needs, and the reason why no other child can still take the terminal;
- `AwaitedInv`: what `waitpid` has left, whoever reaped the child: when `status` was not written, the child has gone or
  is stopped and gets SIGCONT before the terminal is taken (the race of lines 744 and 812);
- `OwnerInv`: the terminal is away, and cooked, only while a child is awaited or about to be;
- `PushedInv`: a pushed process has started.
From these follow `TerminalSafe`, `ForegroundSafe` and, step by step, `BackgroundSpared`. `ZombiesNeverForgotten` is
what the liveness of reaping rests on: while there is a zombie a SIGCHLD is pending.

**Multiwatch** (`MultiwatchProofs`). `IInv` is the types with
- `ParseInv`: before the list is parsed there are no commands;
- `OutputInv`: the pipe holds the last items written, in order; the text shows the others in order, none twice and no
  zero, and leaves out only what stands behind a zero that was read at most a buffer before it. A write adds the next
  item to the pipe (`PutShows`); a read moves items from the pipe's head to the text's end, up to a zero (`ReadShows`);
- `NoticeInv`, for which `RunnerInv` says that a runner on its way to write about a stage has waited for it, that it has stopped, and
  that those after it have not been started; `ForkInv` that the runners are forked in order;
- `ReadInv`: the answer of poll stays true until the pipe is read, since only the surrogate reads;
- `EndInv`, `PromptInv`: the surrogate ends with everything it has started, and the shell goes on only after it.
`WatchSafe` is all of these together; for the key Ctrl-C it needs that the surrogate is in the group that gets it.

**Prompt and history** (`ShellPromptProofs`). `IInv` is the types, `SessionKept` and `HistoryInOrder` with `SaveInv`: while
the history is saved the file holds what has been written so far. The rest is about the operators.
- `Picked` (the elements of a sequence at some places) is a recursive function. `PickedUpToDef` unfolds it by its least
  counterexample, and `PickedUpToParts` says what it computes: a part of the sequence, in order, no element left out.
- `SqueezedAppend`: one more line adds itself, unless it repeats the last one. `RememberKeeps`, the heart of
  `SessionsRemembered`, puts this beside what `Remember` does: the history stays the end of the session's lines, or the
  session's lines the end of the history, whether or not the oldest entry is dropped (lines 160-165).
- For `OrderKept` the places in `entered` at which the entries of a history were entered are carried along: through a new
  entry (`InOrderRemember`), through a load (`InOrderLoad`, which needs that `trim` changes nothing the second time,
  `TrimTwice`) and through every part of a file that an interrupted save leaves (`InOrderSubSeq`).

**Memory manager** (`MMUProofs`). What the lists do to a segment is separated from the rest: none of their operations
changes a segment's words, type, bitmap or bits, or allocates or frees any but the one it is for (`InsertSegs`, `OtherSegs`,
`FreeSegment`, `SweptKeeps`), even where the pointers are wrong. This first part does not speak of the pointers
themselves, so that its results hold in spite of the findings. A walk along a list is a recursive function. That such a function exists is
shown by its least counterexample, in place of an induction (`IteratesDef`, `SweptDef`), and then unfolded: a walk that
ends meets no node twice (`ChainOnce`), hence what `gc_mark` and `gc_pop_frame` collect with it is what the stack has.
`IInv` adds:
- `FrameInv`: the saved rbps lead from the innermost frame through every other to the sentinel (`SavedFrames`: the
  walk of `gc_mark` meets exactly the frame nodes);
- `StackExact`: needed by itself, since `gc_push` goes by the bit and `gc_pop_frame` flips it through the node;
- `HeldInv`: what an open frame has created is on the stack, in that frame or below.
A segment on the stack is marked in each round and hence not swept, which gives `ScopesSafe`. The division of the memory
needs an invariant of its own beside `IInv`:
- `Divided`: no two segments, no two holes, and no segment and hole share a word; all lie within the memory; and while
  the list of holes is sound (`ok`), each word is in one of them.

It speaks of all hole nodes that exist, found by a search or not, so it says nothing of the pointers, and survives the
segment that line 175 links to itself: that one is lost to the searches, but its words still belong to one node only. Each
operation on the holes is reduced to what it does to the words (`Gains`: a hole appended, grown to the right, to the
left, joined with its neighbours or inserted has exactly the words of the freed segment more; `CarveTakes`: a hole carved has exactly
those of the new segment less), and a round to one such step per turn of its loop (`SweptSteps`). `NoWordTwice` is then
`NoOverlap`, and `NoWordLost` is the converse that no run checks: while the program runs each word is in a segment or in a
hole. Both hold for both modes and in spite of the findings. `ScopesSafe` speaks of the
mode with the collector: without it `free_elem` may free a live segment that has an array's number (see the end of
section 7), so that `ScopeKept` does not hold in general; the run checks it up to `MaxCounter`, before that can happen.

The pointers are spoken of where they are right: while the list has at most one variable segment (`OneSlab`), so that line
47 has nothing to link. `LinkInv` says that the list is then in the order of a rank, which is 0 for the variable segment and
grows with the number of an array: each pointer leads on to a higher rank (`Ascends`), and each segment but the first has the one before
it (`Joined`); `HeadsRight` is what the heads and tails are, including the case of line 110, where `var_head` has
moved on to the arrays. That a walk passes every segment is then no induction: it must end, since it has no room
for as many nodes as turns (`WalkEnds`), and of the segments it does not meet the one of the lowest rank would be behind one that it
does (`WalkPasses`). Hence what a search finds, and what a round meets (`RoundLinks`). Inserting and unlinking
keep the links (`InsertLinks`, `UnlinkLinks`), turn by turn of a round as well (`SweepLinks`). Beside them `MapInv` has
- `SlabInv`: of its record's bitmap only the bits 0 and 1 are ever changed (lines 455, 799), the rest is as malloc left it;
- `NameInv`: each token the client holds is a number of a segment that exists (and is not marked if it is an array's), so that the lookup finds that segment
  (`TokenFound`) and `free_elem` of one token never releases the array of another (`ElemFound`).

`OneSlabCollects` is `RoundCollects` for every such behaviour, and says that with the collector no assignment is refused.
`RoundsCollect` has an assumption on the constants in place of one on the behaviour, `OneKind`: the client uses one type,
and malloc leaves no bitmap that looks full, the instance of `MMU_gc`. `create_var` then finds the variable segment there is. Both assumptions are
needed: each of the two excluded cases leads to the second segment of finding 3. `IntsKept` adds `ValueInv`, that the
memory holds what the client has written: words of different tokens are different (`Distinct`, which cites `Divided`), and
two tokens of one number name the same words (`Twins`, which is what finding 4 leaves). It is about INT because `getval`
reads the elements of any other array as wide as an int (line 685), and about the mode with the collector because
without it `free_elem` may free a live segment, as above.

## 6. What is only model-checked

- Liveness (`WriterGetsIn`, `JobMutexReleased`, `StartedCompletes`, `RootEndsAll`, `Finishes`, `EventuallyReaped`,
  `PromptAgain`, `AllShown`): temporal reasoning from fairness is out of the prover's reach.
- Of MMU: `ScopeKept` and `ValuesKept` without the collector. There they hold because the run is too short to number an
  array like a variable (`MaxCounter`; an array of 16 words can first do so at 512); in longer ones neither need hold, as the end of section 7 says. Nothing is
  claimed of `RoundCollects` where the list has two variable segments: the second cannot be swept (line 47).
- What the parser and the search compute (`ParsesLikeGrammar`, `WatchListRead`, `SearchFinds`): both are folds over the
  typed text, and statements about them are inductions over data; they are compared with their definitions for all short
  inputs. The proofs about ShellPrompt hold whatever the parser returns.

## 7. Findings

1. `MatMul_trace`: the last block removes both factors before all products are added; main may then print the trace of
   an incomplete result, and a late worker adds to a slot that is in other use. The comment at task2.cpp:110 says what
   the trace is.
2. `MMU_holes`: a segment freed between two holes is linked to itself (mmu.cpp:175); the list is not what mmu.h:55
   says.
3. `MMU_types`: the second variable segment is not reachable from the first (mmu.cpp:47), so that the assignment of
   test1.cpp:20 ends the program.
4. `MMU_alias`: the search for a free slot can only find slot 0 taken (mmu.cpp:455), so that the third variable of a type
   gets the token, and the word, of the second. mmu.h:64 says that a token is i + seg_num*32.
5. `Multiwatch_ctrlc`: the runner of a pipeline, or of parts joined by `&`, takes each stage to be in the foreground and
   gives the terminal to the shell's group when it ends (line 823), while the shell waits for the surrogate: Ctrl-C then
   reaches only the shell, which ignores it. Assignment-2.pdf says of multiWatch: "This execution should end after
   receiving crtl+C from the user."

Further behaviour the models contain, which no run refutes a document with:
- a4: a consumer stops, and says that there are no unfinished jobs, while another consumer runs the root (item e of the
  assignment wants consumers to stop after all jobs are executed; B as a whole waits for both). Two consumers may keep
  failing trylocks on each other. A full queue would end the producer's process at the message of line 193.
- a5: `free_elem` sets the bit that means "live", so what was freed by hand survives a round; it returns from an illegal
  request with the lock held; after the last variable segment is freed while arrays exist, the next `create_var`
  follows NULL.
- a2: a second Ctrl-Z between SIGCONT and the terminal's return stops, for good, a process announced as pushed to the
  background; a foreground pipe whose first stage fills the pipe hangs; Ctrl-Z during a multiwatch stops its programs
  for good; `multiwatch []` leaves a second shell at the prompt (handleMultiwatch returns in the surrogate, line 1002); a
  read that fills the buffer is printed without a terminator (981, 988), and one that holds a zero byte only up to it;
  what the runner of a watched command says of a stage that has stopped goes into the command's pipe and is printed as
  that command's output (821, 944), and may make the runner wait there; blanks after a final `&` put the job in the
  foreground (line 624 drops the result of `trim`); a stage without a word ends the shell and loses the session's
  history; the history is saved in whatever directory `cd` led to, after the file has been emptied.

Outside the instances the runs use, and seen while reading: the token of an array is its segment's number, and without
the collector `free_elem` of array 33 looks for a variable segment first and frees number 1 (mmu.cpp:615, 782); the
elements of an array that is not of INT are read as wide as an int (685), so that `getval` may return neighbours.

## 8. What is not modelled, and why

- a1: sequential scripts over external tools. Drafts (`shell.cpp`, `final_prog.cpp`, `nonrw_prog.cpp`, `prog.cpp`):
  earlier versions of what is modelled. Helper programs to run in the shell.
- task1.c: its children are independent.
- a4: a start on a stale segment (`shmget` takes over what a crashed run has left); the 20 seconds a producer runs, which
  `MaxAdds` stands for.
- a5: counters for the log; `gc_compact`, which nothing calls; widths of types within a word. `MMU_gc` uses one type since
  with two the third finding ends every interesting behaviour; the left-over bitmap 0xFFFF, which leads to a second
  segment, is excluded for the same reason. demo2.cpp's measurements.
- a2: failures of system calls other than `pipe` and `exec`, redirection at run time, what is typed at the second shell of
  `multiwatch []` but "exit", a watched `cd` (which only moves the runner) and a watched stage without a word (which
  ends its runner), time stamps and frames of the texts multiwatch prints; multiwatch lines in ShellPrompt
  (they change neither directory nor crash the shell, but are long).

## 9. Plan

Done: models of a2 to a5, with the proofs of section 5. In order of what comes next:
1. Models: a start of a4 on a stale segment; `nonrw_prog.cpp` as a second implementation of JobTree.
