------------------------- MODULE ShellJobsProofs -------------------------
(***************************************************************************)
(* Proofs about the shell's job control, for any bound of the children and *)
(* any command lines: who owns the terminal, that the prompt finds no      *)
(* forgotten foreground child, and whom Ctrl-Z stops.                      *)
(*                                                                         *)
(* None of the three is inductive.  The terminal can only be right if no   *)
(* child but the awaited one may still call tcsetpgrp, which is a fact     *)
(* about the children (ForegroundInv); that one depends in turn on what    *)
(* waitpid has left of the awaited child (AwaitedInv) and on the handler   *)
(* never lending its number to another stage in between (StageInv).        *)
(***************************************************************************)
EXTENDS ShellJobs, SequenceTheorems, TLAPS

\* The steps of executeSimpleCommand after fork, in the order of the code:
\* pid is the child of the current stage.
Awaiting == pc \in {"give", "wait", "resume", "restore"}
Current  == pc \in {"setpgid", "next"} \/ Awaiting

\* A stage is left as long as the shell works on one, and pid is its child.
CommandInv ==
    /\ pc \notin {"prompt", "exited"} => cmd # <<>>
    /\ Current => pid \in Pid

\* The number of the current stage's child is not given to another stage; the
\* shell awaits no child of the background.
StageInv ==
    /\ Current /\ proc[pid] # "free" => stage[pid] = Head(cmd)
    /\ Awaiting => ~ Head(cmd).bg

\* A process leads a group of its own before it gets as far as the terminal.
GroupInv ==
    \A p \in Pid :
        /\ group[p] \in {p, Shell}
        /\ proc[p] \in {"grouped", "ready", "running", "stopped", "zombie"} => group[p] = p

\* The awaited child is the only one of the foreground that has not ended and
\* is not pushed to the background.
ForegroundInv ==
    \A p \in Pid : Alive(p) /\ ~ stage[p].bg /\ p \notin pushed =>
        p = pid /\ pc \in {"setpgid", "give", "wait", "resume"}

\* What waitpid leaves: a child that has gone, whatever status says, or one
\* that is stopped, is no multiwatch, and is pushed before the terminal is taken.
AwaitedInv ==
    /\ pc \in {"setpgid", "give", "wait", "resume"} => pid \notin pushed
    /\ pc = "resume" /\ proc[pid] # "free" => proc[pid] = "stopped" /\ status = "stopped"
    /\ pc = "restore" /\ proc[pid] # "free" => pid \in pushed
    /\ \A p \in Pid : proc[p] = "stopped" => ~ stage[p].mw

\* The terminal is away only while the current stage is awaited or about to be.
OwnerInv ==
    /\ fgGroup # Shell => fgGroup = pid /\ (pc = "setpgid" \/ Awaiting) /\ ~ Head(cmd).bg
    /\ ~ raw => pc = "exited" \/ ((pc = "setpgid" \/ Awaiting) /\ ~ Head(cmd).bg)

\* No process beyond the shell's reach: one that is pushed has started.
PushedInv == \A p \in pushed : proc[p] \in {"running", "stopped", "zombie"}

IInv ==
    /\ TypeOK /\ CommandInv /\ StageInv /\ GroupInv /\ ForegroundInv
    /\ AwaitedInv /\ OwnerInv /\ PushedInv

-----------------------------------------------------------------------------
(* The steps.                                                              *)

LEMMA InitInv == Init => IInv
<1> SUFFICES ASSUME Init PROVE IInv
  OBVIOUS
<1>1. NoStage \in Stage
  BY DEF NoStage, Stage
<1>2. TypeOK
  <2>1. <<>> \in Seq(Stage)
    OBVIOUS
  <2>2. proc \in [Pid -> {"free"}] /\ stage \in [Pid -> Stage] /\ group \in [Pid -> Pid \cup {Shell}]
    BY <1>1 DEF Init
  <2> QED
    BY <2>1, <2>2 DEF Init, TypeOK
<1> QED
  BY <1>2, ShellAssumption DEF Init, IInv, CommandInv, StageInv, GroupInv, ForegroundInv,
     AwaitedInv, OwnerInv, PushedInv, Current, Awaiting, Alive

\* readLine returns only in the prompt; nothing of the foreground is left then.
LEMMA EnterKeeps ==
    ASSUME IInv, NEW c \in Commands, Enter(c)
    PROVE  IInv'
<1>1. c \in Seq(Stage) /\ c # <<>>
  BY ShellAssumption
<1>2. TypeOK'
  BY <1>1 DEF IInv, TypeOK, Enter, terminal, children
<1> QED
  BY <1>1, <1>2 DEF IInv, Enter, terminal, children, CommandInv, StageInv, GroupInv,
     ForegroundInv, AwaitedInv, OwnerInv, PushedInv, Current, Awaiting, Alive

LEMMA ExitKeeps == IInv /\ Exit => IInv'
<1> SUFFICES ASSUME IInv, Exit PROVE IInv'
  OBVIOUS
<1>1. TypeOK'
  BY DEF IInv, TypeOK, Exit, children
<1> QED
  BY <1>1 DEF IInv, Exit, children, CommandInv, StageInv, GroupInv,
     ForegroundInv, AwaitedInv, OwnerInv, PushedInv, Current, Awaiting, Alive

\* A free number is neither pushed nor an end of a pipe, and no other child of
\* the foreground is left when the shell forks.
LEMMA ForkKeeps ==
    ASSUME IInv, NEW p \in Pid, Fork(p)
    PROVE  IInv'
<1>1. /\ cmd \in Seq(Stage) /\ cmd # <<>> /\ Head(cmd) \in Stage
  BY HeadTailProperties DEF IInv, TypeOK, CommandInv, Fork
<1>2. /\ proc' = [proc EXCEPT ![p] = "forked"] /\ stage' = [stage EXCEPT ![p] = Head(cmd)]
      /\ pid' = p /\ pc' = "setpgid" /\ pc = "fork" /\ proc[p] = "free"
      /\ UNCHANGED <<cmd, status, group, pushed, sigchld, fgGroup, raw>>
  BY DEF Fork, terminal
<1>3. TypeOK'
  <2>1. pipes' \subseteq {e \in Pid \X Pid : proc'[e[1]] # "free" /\ proc'[e[2]] # "free"}
    <3>1. pipes \subseteq {e \in Pid \X Pid : proc'[e[1]] # "free" /\ proc'[e[2]] # "free"}
      BY <1>2 DEF IInv, TypeOK
    <3>2. pid \in Pid /\ proc[pid] # "free" =>
              <<pid, p>> \in {e \in Pid \X Pid : proc'[e[1]] # "free" /\ proc'[e[2]] # "free"}
      BY <1>2 DEF IInv, TypeOK
    <3> QED
      BY <3>1, <3>2 DEF Fork, IInv, TypeOK
  <2> QED
    BY <1>1, <1>2, <2>1 DEF IInv, TypeOK
<1>4. p \notin pushed /\ fgGroup = Shell /\ raw
  BY <1>2 DEF IInv, TypeOK, OwnerInv, Awaiting
<1>5. CommandInv' /\ StageInv' /\ GroupInv' /\ OwnerInv' /\ PushedInv'
  BY <1>1, <1>2, <1>4 DEF IInv, TypeOK, CommandInv, StageInv, GroupInv, OwnerInv,
     PushedInv, Current, Awaiting
<1>6. ForegroundInv' /\ AwaitedInv'
  BY <1>2, <1>4 DEF IInv, TypeOK, ForegroundInv, AwaitedInv, Alive
<1> QED
  BY <1>3, <1>5, <1>6 DEF IInv

LEMMA SetGroupKeeps == IInv /\ SetGroup => IInv'
<1> SUFFICES ASSUME IInv, SetGroup PROVE IInv'
  OBVIOUS
<1>1. /\ pc = "setpgid" /\ pid \in Pid /\ cmd # <<>>
      /\ pc' = IF Head(cmd).bg THEN "next" ELSE "give"
      /\ UNCHANGED <<cmd, pid, status, proc, stage, pushed, pipes, sigchld, fgGroup, raw>>
  BY DEF SetGroup, terminal, IInv, CommandInv, Current
<1>2. TypeOK' /\ GroupInv'
  BY <1>1 DEF SetGroup, IInv, TypeOK, GroupInv
<1>3. CommandInv' /\ StageInv' /\ OwnerInv' /\ PushedInv'
  BY <1>1 DEF IInv, CommandInv, StageInv, OwnerInv, PushedInv, Current, Awaiting
<1>4. ForegroundInv' /\ AwaitedInv'
  BY <1>1 DEF IInv, ForegroundInv, AwaitedInv, StageInv, Current, Alive
<1> QED
  BY <1>2, <1>3, <1>4 DEF IInv

LEMMA GiveTerminalKeeps == IInv /\ GiveTerminal => IInv'
<1> SUFFICES ASSUME IInv, GiveTerminal PROVE IInv'
  OBVIOUS
<1>1. /\ pc = "give" /\ pc' = "wait" /\ pid \in Pid
      /\ fgGroup' = IF proc[pid] = "free" THEN fgGroup ELSE pid
      /\ UNCHANGED <<cmd, pid, status, raw, proc, stage, group, pushed, pipes, sigchld>>
  BY DEF GiveTerminal, children, IInv, CommandInv, Current, Awaiting
<1>2. TypeOK'
  BY <1>1 DEF IInv, TypeOK
<1>3. CommandInv' /\ StageInv' /\ OwnerInv' /\ GroupInv' /\ PushedInv'
  BY <1>1 DEF IInv, CommandInv, StageInv, OwnerInv, GroupInv, PushedInv, Current, Awaiting
<1>4. ForegroundInv' /\ AwaitedInv'
  BY <1>1 DEF IInv, ForegroundInv, AwaitedInv, Alive
<1> QED
  BY <1>2, <1>3, <1>4 DEF IInv

-----------------------------------------------------------------------------
(* The handler, waitpid and the rest of the shell's steps.                 *)

\* The processes in P, which have ended, are reaped: what is left keeps its
\* state, group and stage.
LEMMA ReapType ==
    ASSUME TypeOK, NEW P \in SUBSET Pid, Reap(P)
    PROVE  /\ proc' \in [Pid -> {"free", "forked", "grouped", "ready", "running", "stopped", "zombie"}]
           /\ stage' \in [Pid -> Stage]
           /\ group' \in [Pid -> Pid \cup {Shell}]
           /\ pushed' \subseteq {p \in Pid : proc'[p] # "free"}
           /\ pipes' \subseteq {e \in Pid \X Pid : proc'[e[1]] # "free" /\ proc'[e[2]] # "free"}
           /\ \A p \in Pid \ P : proc'[p] = proc[p] /\ stage'[p] = stage[p] /\ group'[p] = group[p]
           /\ \A p \in P : proc'[p] = "free" /\ group'[p] = Shell
           /\ pushed' = pushed \ P
<1>1. NoStage \in Stage
  BY DEF NoStage, Stage
<1>2. proc' = [p \in Pid |-> IF p \in P THEN "free" ELSE proc[p]]
  BY DEF Reap
<1> QED
  BY <1>1, <1>2 DEF Reap, TypeOK

LEMMA ReapKeeps ==
    ASSUME IInv, NEW P \in SUBSET Pid, Reap(P), UNCHANGED <<cmd, pid, pc, fgGroup, raw, status>>,
           sigchld' \in BOOLEAN
    PROVE  IInv'
<1>1. /\ \A p \in Pid \ P : proc'[p] = proc[p] /\ stage'[p] = stage[p] /\ group'[p] = group[p]
      /\ \A p \in P : proc'[p] = "free" /\ group'[p] = Shell
      /\ pushed' = pushed \ P
      /\ pushed' \subseteq Pid
  BY ReapType DEF IInv
<1>2. TypeOK'
  BY ReapType DEF IInv, TypeOK
<1>3. CommandInv' /\ OwnerInv' /\ GroupInv' /\ PushedInv'
  BY <1>1 DEF IInv, CommandInv, OwnerInv, GroupInv, PushedInv, Current, Awaiting
<1>4. StageInv' /\ AwaitedInv'
  BY <1>1 DEF IInv, CommandInv, StageInv, AwaitedInv, Current, Awaiting
<1>5. ForegroundInv'
  BY <1>1 DEF IInv, ForegroundInv, Alive
<1> QED
  BY <1>2, <1>3, <1>4, <1>5 DEF IInv

LEMMA sigchldHandlerKeeps == IInv /\ sigchldHandler => IInv'
<1> SUFFICES ASSUME IInv, sigchldHandler PROVE IInv'
  OBVIOUS
<1>1. Reap(Zombies) /\ sigchld' \in BOOLEAN /\ UNCHANGED <<cmd, pid, pc, fgGroup, raw, status>>
  BY DEF sigchldHandler, shell, terminal
<1>2. Zombies \in SUBSET Pid
  BY DEF Zombies
<1> QED
  BY <1>1, <1>2, ReapKeeps

LEMMA WaitChildKeeps == IInv /\ WaitChild => IInv'
<1> SUFFICES ASSUME IInv, WaitChild PROVE IInv'
  OBVIOUS
<1>1. /\ pc = "wait" /\ pc' = "resume" /\ pid \in Pid /\ status' \in {"exited", "stopped"}
      /\ UNCHANGED <<cmd, pid, sigchld, fgGroup, raw>>
  BY DEF WaitChild, terminal, IInv, CommandInv, Current, Awaiting
<1>2. \A p \in Pid \ {pid} : proc'[p] = proc[p] /\ stage'[p] = stage[p] /\ group'[p] = group[p]
  BY ReapType, <1>1 DEF WaitChild, IInv
<1>3. \/ proc'[pid] = "free" /\ group'[pid] \in {pid, Shell} /\ pushed' = pushed \ {pid}
      \/ /\ proc[pid] = "stopped" /\ status' = "stopped"
         /\ UNCHANGED <<proc, stage, group, pushed>>
  <2>1. pid \notin pushed
    BY <1>1 DEF IInv, AwaitedInv
  <2> QED
    BY ReapType, <1>1, <2>1 DEF WaitChild, IInv, GroupInv
<1>4. TypeOK'
  BY ReapType, <1>1 DEF WaitChild, IInv, TypeOK
<1>5. CommandInv' /\ OwnerInv' /\ GroupInv' /\ PushedInv'
  BY <1>1, <1>2, <1>3, <1>4 DEF IInv, TypeOK, CommandInv, OwnerInv, GroupInv, PushedInv, Current, Awaiting
<1>6. StageInv' /\ AwaitedInv'
  BY <1>1, <1>2, <1>3 DEF IInv, StageInv, AwaitedInv, Current, Awaiting
<1>7. ForegroundInv'
  BY <1>1, <1>2, <1>3 DEF IInv, ForegroundInv, Alive
<1> QED
  BY <1>4, <1>5, <1>6, <1>7 DEF IInv

\* A child waitpid has found stopped is no multiwatch: it runs on, pushed.
LEMMA ResumeKeeps == IInv /\ Resume => IInv'
<1> SUFFICES ASSUME IInv, Resume PROVE IInv'
  OBVIOUS
<1>1. /\ pc = "resume" /\ pc' = "restore" /\ pid \in Pid
      /\ UNCHANGED <<cmd, pid, status, stage, group, pipes, fgGroup, raw>>
  BY DEF Resume, terminal, IInv, CommandInv, Current, Awaiting
<1>2. \/ proc[pid] = "free" /\ UNCHANGED <<proc, pushed, sigchld>>
      \/ /\ proc[pid] = "stopped" /\ ~ Head(cmd).mw
         /\ proc' = [proc EXCEPT ![pid] = "running"]
         /\ pushed' = pushed \cup {pid} /\ sigchld' = TRUE
  <2>1. proc[pid] # "free" => proc[pid] = "stopped" /\ status = "stopped" /\ ~ Head(cmd).mw
    BY <1>1 DEF IInv, AwaitedInv, StageInv, Current, Awaiting
  <2> QED
    BY <1>1, <2>1 DEF Resume
<1>3. TypeOK'
  BY <1>1, <1>2 DEF IInv, TypeOK
<1>4. CommandInv' /\ OwnerInv' /\ GroupInv' /\ PushedInv'
  BY <1>1, <1>2 DEF IInv, TypeOK, CommandInv, OwnerInv, GroupInv, PushedInv, Current, Awaiting
<1>5. StageInv' /\ AwaitedInv' /\ ForegroundInv'
  BY <1>1, <1>2 DEF IInv, TypeOK, StageInv, AwaitedInv, ForegroundInv, Current, Awaiting, Alive
<1> QED
  BY <1>3, <1>4, <1>5 DEF IInv

LEMMA TakeTerminalKeeps == IInv /\ TakeTerminal => IInv'
<1> SUFFICES ASSUME IInv, TakeTerminal PROVE IInv'
  OBVIOUS
<1>1. /\ pc = "restore" /\ pc' = "next" /\ fgGroup' = Shell /\ raw' = TRUE
      /\ UNCHANGED <<cmd, pid, status, proc, stage, group, pushed, pipes, sigchld>>
  BY DEF TakeTerminal, children
<1>2. TypeOK'
  BY <1>1 DEF IInv, TypeOK
<1>3. CommandInv' /\ OwnerInv' /\ GroupInv' /\ PushedInv'
  BY <1>1 DEF IInv, CommandInv, OwnerInv, GroupInv, PushedInv, Current, Awaiting
<1>4. StageInv' /\ AwaitedInv' /\ ForegroundInv'
  BY <1>1 DEF IInv, StageInv, AwaitedInv, ForegroundInv, Current, Awaiting, Alive
<1> QED
  BY <1>2, <1>3, <1>4 DEF IInv

LEMMA NextStageKeeps == IInv /\ NextStage => IInv'
<1> SUFFICES ASSUME IInv, NextStage PROVE IInv'
  OBVIOUS
<1>1. cmd \in Seq(Stage) /\ cmd # <<>> /\ Tail(cmd) \in Seq(Stage)
  BY HeadTailProperties DEF IInv, TypeOK, CommandInv, NextStage
<1>2. /\ pc = "next" /\ cmd' = Tail(cmd) /\ status' = "unset"
      /\ pc' = IF cmd' = <<>> THEN "prompt" ELSE "fork"
      /\ pid' = IF cmd' = <<>> THEN None ELSE pid
      /\ UNCHANGED <<proc, stage, group, pushed, pipes, sigchld, fgGroup, raw>>
  BY DEF NextStage, terminal, children
<1>3. TypeOK'
  BY <1>1, <1>2 DEF IInv, TypeOK
<1>4. fgGroup = Shell /\ raw /\ \A p \in Pid : Alive(p) => stage[p].bg \/ p \in pushed
  BY <1>2 DEF IInv, OwnerInv, ForegroundInv, Awaiting
<1>5. CommandInv' /\ OwnerInv' /\ GroupInv' /\ PushedInv'
  BY <1>2, <1>4 DEF IInv, CommandInv, OwnerInv, GroupInv, PushedInv, Current, Awaiting
<1>6. StageInv' /\ AwaitedInv' /\ ForegroundInv'
  BY <1>2, <1>4 DEF IInv, StageInv, AwaitedInv, ForegroundInv, Current, Awaiting, Alive
<1> QED
  BY <1>3, <1>5, <1>6 DEF IInv

-----------------------------------------------------------------------------
(* The children and the keyboard.                                          *)

LEMMA ChildSetGroupKeeps ==
    ASSUME IInv, NEW p \in Pid, ChildSetGroup(p)
    PROVE  IInv'
<1>1. /\ proc[p] = "forked" /\ proc' = [proc EXCEPT ![p] = "grouped"]
      /\ group' = [group EXCEPT ![p] = p]
      /\ UNCHANGED <<pc, cmd, pid, status, stage, pushed, pipes, sigchld, fgGroup, raw>>
  BY DEF ChildSetGroup, shell, terminal
<1>2. TypeOK'
  BY <1>1 DEF IInv, TypeOK
<1>3. CommandInv' /\ OwnerInv' /\ GroupInv' /\ PushedInv'
  BY <1>1 DEF IInv, TypeOK, CommandInv, OwnerInv, GroupInv, PushedInv, Current, Awaiting
<1>4. StageInv' /\ AwaitedInv' /\ ForegroundInv'
  BY <1>1 DEF IInv, TypeOK, CommandInv, StageInv, AwaitedInv, ForegroundInv, Current, Awaiting, Alive
<1> QED
  BY <1>2, <1>3, <1>4 DEF IInv

\* The child that calls tcsetpgrp is the awaited one, whenever it gets there.
LEMMA ChildTakesTerminalKeeps ==
    ASSUME IInv, NEW p \in Pid, ChildTakesTerminal(p)
    PROVE  IInv'
<1>1. /\ proc[p] = "grouped" /\ proc' = [proc EXCEPT ![p] = "ready"]
      /\ UNCHANGED <<pc, cmd, pid, status, stage, group, pushed, pipes, sigchld>>
  BY DEF ChildTakesTerminal, shell
<1>2. \/ UNCHANGED <<fgGroup, raw>>
      \/ /\ fgGroup' = p /\ raw' \in BOOLEAN
         /\ p = pid /\ pc \in {"setpgid", "give", "wait"} /\ ~ Head(cmd).bg
  <2>1. stage[p].bg \/ (p = pid /\ pc \in {"setpgid", "give", "wait"})
    BY <1>1 DEF IInv, ForegroundInv, PushedInv, AwaitedInv, Alive
  <2>2. p = pid /\ pc \in {"setpgid", "give", "wait"} => stage[p] = Head(cmd)
    BY <1>1 DEF IInv, StageInv, Current, Awaiting
  <2>3. (raw /\ stage[p].mw) \in BOOLEAN
    BY DEF IInv, TypeOK, Stage
  <2> QED
    BY <2>1, <2>2, <2>3 DEF ChildTakesTerminal, terminal, IInv, TypeOK, Stage
<1>3. TypeOK'
  BY <1>1, <1>2 DEF IInv, TypeOK
<1>4. CommandInv' /\ OwnerInv' /\ GroupInv' /\ PushedInv'
  BY <1>1, <1>2 DEF IInv, TypeOK, CommandInv, OwnerInv, GroupInv, PushedInv, Current, Awaiting
<1>5. StageInv' /\ AwaitedInv' /\ ForegroundInv'
  BY <1>1 DEF IInv, TypeOK, CommandInv, StageInv, AwaitedInv, ForegroundInv, Current, Awaiting, Alive
<1> QED
  BY <1>3, <1>4, <1>5 DEF IInv

LEMMA ChildRunsKeeps ==
    ASSUME IInv, NEW p \in Pid, ChildRuns(p)
    PROVE  IInv'
<1>1. /\ proc[p] = "ready" /\ proc' = [proc EXCEPT ![p] = "running"]
      /\ UNCHANGED <<pc, cmd, pid, status, stage, group, pushed, pipes, sigchld, fgGroup, raw>>
  BY DEF ChildRuns, shell, terminal
<1>2. TypeOK'
  BY <1>1 DEF IInv, TypeOK
<1>3. CommandInv' /\ OwnerInv' /\ GroupInv' /\ PushedInv'
  BY <1>1 DEF IInv, TypeOK, CommandInv, OwnerInv, GroupInv, PushedInv, Current, Awaiting
<1>4. StageInv' /\ AwaitedInv' /\ ForegroundInv'
  BY <1>1 DEF IInv, TypeOK, CommandInv, StageInv, AwaitedInv, ForegroundInv, Current, Awaiting, Alive
<1> QED
  BY <1>2, <1>3, <1>4 DEF IInv

\* However the processes in P end or stop, by themselves or by a signal: those
\* that stop are no multiwatches, and nothing but their state changes.
LEMMA HaltKeeps ==
    ASSUME IInv, NEW P \in SUBSET Pid, NEW s \in {"stopped", "zombie"},
           \A p \in P : proc[p] \in {"ready", "running"},
           s = "stopped" => \A p \in P : proc[p] = "running" /\ ~ stage[p].mw,
           proc' = [p \in Pid |-> IF p \in P THEN s ELSE proc[p]],
           sigchld' = TRUE,
           UNCHANGED <<pc, cmd, pid, status, stage, group, pushed, pipes, fgGroup, raw>>
    PROVE  IInv'
<1>1. TypeOK'
  BY DEF IInv, TypeOK
<1>2. CommandInv' /\ OwnerInv' /\ GroupInv' /\ PushedInv'
  BY DEF IInv, TypeOK, CommandInv, OwnerInv, GroupInv, PushedInv, Current, Awaiting
<1>3. StageInv' /\ ForegroundInv'
  BY DEF IInv, CommandInv, StageInv, ForegroundInv, Current, Awaiting, Alive
<1>4. AwaitedInv'
  BY DEF IInv, CommandInv, AwaitedInv, Current, Awaiting
<1> QED
  BY <1>1, <1>2, <1>3, <1>4 DEF IInv

LEMMA EndKeeps ==
    ASSUME IInv, NEW p \in Pid, ChildFails(p) \/ ChildExits(p)
    PROVE  IInv'
<1>1. proc' = [q \in Pid |-> IF q \in {p} THEN "zombie" ELSE proc[q]]
  BY DEF ChildFails, ChildExits, End, IInv, TypeOK
<1>2. /\ proc[p] \in {"ready", "running"} /\ sigchld' = TRUE
      /\ UNCHANGED <<pc, cmd, pid, status, stage, group, pushed, pipes, fgGroup, raw>>
  BY DEF ChildFails, ChildExits, End, shell, terminal
<1> QED
  BY <1>1, <1>2, HaltKeeps

LEMMA ReadsTerminalKeeps ==
    ASSUME IInv, NEW p \in Pid, ReadsTerminal(p)
    PROVE  IInv'
<1>1. proc' = [q \in Pid |-> IF q \in {p} THEN "stopped" ELSE proc[q]]
  BY DEF ReadsTerminal, IInv, TypeOK
<1>2. /\ proc[p] = "running" /\ ~ stage[p].mw /\ sigchld' = TRUE
      /\ UNCHANGED <<pc, cmd, pid, status, stage, group, pushed, pipes, fgGroup, raw>>
  BY DEF ReadsTerminal, shell, terminal
<1> QED
  BY <1>1, <1>2, HaltKeeps

LEMMA CtrlCKeeps == IInv /\ CtrlC => IInv'
<1> SUFFICES ASSUME IInv, CtrlC PROVE IInv'
  OBVIOUS
<1>1. /\ Hit \in SUBSET Pid /\ \A p \in Hit : proc[p] = "running"
      /\ UNCHANGED <<pc, cmd, pid, status, stage, group, pushed, pipes, fgGroup, raw>>
  BY DEF Hit, CtrlC, shell, terminal
<1>2. proc' = [p \in Pid |-> IF p \in Hit THEN "zombie" ELSE proc[p]] /\ sigchld' = TRUE
  BY DEF CtrlC
<1> QED
  BY <1>1, <1>2, HaltKeeps

LEMMA CtrlZKeeps == IInv /\ CtrlZ => IInv'
<1> SUFFICES ASSUME IInv, CtrlZ PROVE IInv'
  OBVIOUS
<1> DEFINE P == {p \in Hit : ~ stage[p].mw}
<1>1. /\ P \in SUBSET Pid /\ \A p \in P : proc[p] = "running" /\ ~ stage[p].mw
      /\ sigchld' = TRUE
      /\ UNCHANGED <<pc, cmd, pid, status, stage, group, pushed, pipes, fgGroup, raw>>
  BY DEF Hit, CtrlZ, shell, terminal
<1>2. proc' = [p \in Pid |-> IF p \in P THEN "stopped" ELSE proc[p]]
  BY DEF CtrlZ
<1> HIDE DEF P
<1> QED
  BY <1>1, <1>2, HaltKeeps

-----------------------------------------------------------------------------
(* The theorems.                                                           *)

\* Every step of the shell, of its handler, of a child and of the keyboard
\* keeps the inductive invariant.
LEMMA StepInv == IInv /\ [Next]_vars => IInv'
<1> SUFFICES ASSUME IInv, [Next]_vars PROVE IInv'
  OBVIOUS
<1>1. ASSUME NEW c \in Commands, Enter(c) PROVE IInv'
  BY <1>1, EnterKeeps
<1>2. CASE Exit
  BY <1>2, ExitKeeps
<1>3. ASSUME ShellStep PROVE IInv'
  BY <1>3, ForkKeeps, SetGroupKeeps, GiveTerminalKeeps, WaitChildKeeps, ResumeKeeps,
     TakeTerminalKeeps, NextStageKeeps DEF ShellStep
<1>4. CASE sigchldHandler
  BY <1>4, sigchldHandlerKeeps
<1>5. ASSUME NEW p \in Pid, ChildStarts(p) \/ ChildFails(p) \/ ChildExits(p) \/ ReadsTerminal(p)
      PROVE  IInv'
  BY <1>5, ChildSetGroupKeeps, ChildTakesTerminalKeeps, ChildRunsKeeps, EndKeeps,
     ReadsTerminalKeeps DEF ChildStarts
<1>6. CASE CtrlC
  BY <1>6, CtrlCKeeps
<1>7. CASE CtrlZ
  BY <1>7, CtrlZKeeps
<1>8. CASE UNCHANGED vars
  BY <1>8 DEF vars, shell, terminal, children, IInv, TypeOK, CommandInv, StageInv, GroupInv,
     ForegroundInv, AwaitedInv, OwnerInv, PushedInv, Current, Awaiting, Alive
<1> QED
  BY <1>1, <1>2, <1>3, <1>4, <1>5, <1>6, <1>7, <1>8 DEF Next

LEMMA Inductive == Spec => []IInv
<1> QED
  BY InitInv, StepInv, PTL DEF Spec

\* Whatever the order in which shell and child call tcsetpgrp and however the
\* child ends or stops, the shell's prompt has the terminal, in raw mode.
THEOREM TerminalSafe == Spec => []TerminalInv
<1>1. IInv => TerminalInv
  BY DEF IInv, OwnerInv, Awaiting, TerminalInv, TerminalExact, TypeOK
<1> QED
  BY <1>1, Inductive, PTL

\* The prompt never comes back while a process of the foreground is running or
\* left stopped, whoever of waitpid and the handler has reaped the others.
THEOREM ForegroundSafe == Spec => []ForegroundFinished
<1>1. IInv => ForegroundFinished
  BY DEF IInv, ForegroundInv, ForegroundFinished
<1> QED
  BY <1>1, Inductive, PTL

\* The group the terminal sends SIGTSTP to is that of the awaited child alone.
THEOREM BackgroundSpared == Spec => KeyboardSparesBackground
<1>1. ASSUME IInv, CtrlZ, NEW p \in Pid, proc'[p] # proc[p]
      PROVE  ~ stage[p].bg /\ (p \in pushed => pc = "restore" /\ p = pid)
  <2>1. p \in Hit
    BY <1>1 DEF CtrlZ, IInv, TypeOK
  <2>2. proc[p] = "running" /\ group[p] = p /\ fgGroup = p
    BY <1>1, <2>1 DEF Hit, IInv, GroupInv
  <2>3. p = pid /\ ~ Head(cmd).bg /\ (pc = "setpgid" \/ Awaiting)
    BY <1>1, <2>2, ShellAssumption DEF IInv, OwnerInv
  <2>4. stage[p] = Head(cmd)
    BY <1>1, <2>2, <2>3 DEF IInv, StageInv, Current
  <2> QED
    BY <1>1, <2>3, <2>4 DEF IInv, AwaitedInv, Awaiting
<1>2. IInv /\ [Next]_vars =>
          [CtrlZ => \A p \in Pid : proc'[p] # proc[p] =>
               ~ stage[p].bg /\ (p \in pushed => pc = "restore" /\ p = pid)]_vars
  BY <1>1
<1> QED
  BY <1>2, Inductive, PTL DEF Spec, KeyboardSparesBackground

\* One SIGCHLD may stand for several children, but a child that has ended is
\* never left without one: the handler that takes it reaps them all.
ZombiesSignalled == Zombies # {} => sigchld

\* What the handler's loop is for, and why every zombie is reaped in the end.
THEOREM ZombiesNeverForgotten == Spec => []ZombiesSignalled
<1>1. Init => ZombiesSignalled
  BY DEF Init, ZombiesSignalled, Zombies
<1>2. ASSUME TypeOK, ZombiesSignalled, [Next]_vars PROVE ZombiesSignalled'
  <2> USE DEF ZombiesSignalled, Zombies
  <2>1. CASE sigchldHandler
    <3>1. \A p \in Pid : proc'[p] # "zombie"
      BY <2>1 DEF sigchldHandler, Reap
    <3> QED
      BY <3>1
  <2>2. CASE ShellStep
    <3>1. WaitChild => ZombiesSignalled'
      BY <1>2 DEF WaitChild, Reap
    <3>2. Resume => ZombiesSignalled'
      BY <1>2 DEF Resume, TypeOK
    <3>3. ASSUME NEW p \in Pid, Fork(p) PROVE ZombiesSignalled'
      BY <1>2, <3>3 DEF Fork, TypeOK
    <3>4. SetGroup \/ GiveTerminal \/ TakeTerminal \/ NextStage => ZombiesSignalled'
      BY <1>2 DEF SetGroup, GiveTerminal, TakeTerminal, NextStage, children
    <3> QED
      BY <2>2, <3>1, <3>2, <3>3, <3>4 DEF ShellStep
  <2>3. ASSUME NEW p \in Pid, ChildStarts(p) PROVE ZombiesSignalled'
    BY <1>2, <2>3 DEF ChildStarts, ChildSetGroup, ChildTakesTerminal, ChildRuns, TypeOK
  <2>4. ASSUME NEW p \in Pid, ChildFails(p) \/ ChildExits(p) \/ ReadsTerminal(p)
        PROVE  ZombiesSignalled'
    BY <2>4 DEF ChildFails, ChildExits, ReadsTerminal, End
  <2>5. CASE CtrlC \/ CtrlZ
    BY <2>5 DEF CtrlC, CtrlZ
  <2>6. ASSUME UNCHANGED <<proc, sigchld>> PROVE ZombiesSignalled'
    BY <1>2, <2>6
  <2> QED
    BY <1>2, <2>1, <2>2, <2>3, <2>4, <2>5, <2>6 DEF Next, Enter, Exit, vars, children
<1>3. Spec => []TypeOK
  BY Inductive, PTL DEF IInv
<1> QED
  BY <1>1, <1>2, <1>3, PTL DEF Spec
=============================================================================
