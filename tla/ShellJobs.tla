----------------------------- MODULE ShellJobs -----------------------------
(***************************************************************************)
(* a2-custom-shell/Assignment2_35_19CS30014_19CS10048.cpp: the shell's     *)
(* processes.  The shell forks the stages of a command line one after the  *)
(* other, waits for each that is not in the background, hands the terminal *)
(* to it and takes it back; its SIGCHLD handler, which may run between any *)
(* two of its steps, reaps whatever child has ended.                       *)
(*                                                                         *)
(* A command line is the sequence of its stages.  executeCommand runs the  *)
(* parts between ampersands, executePipe the stages of a pipe, and both    *)
(* just call executeSimpleCommand for one stage after the other.  A stage  *)
(* is in the background or not (bg), reads the pipe of the stage before it *)
(* or not (reads), writes more into its own than a pipe holds or not       *)
(* (fills), or is a multiwatch (mw).  What the programs print, redirection *)
(* and the builtins that do not fork (cd, history) are left out.           *)
(***************************************************************************)
EXTENDS Naturals, Sequences, FiniteSets

CONSTANTS MaxChildren,  \* bound of the children that exist at a time
          Shell, None,  \* the shell's own process group; no process
          Commands      \* the command lines a user enters

Pid == 1 .. MaxChildren

Stage == [bg : BOOLEAN, mw : BOOLEAN, fills : BOOLEAN, reads : BOOLEAN]

ASSUME ShellAssumption ==
    /\ MaxChildren \in Nat
    /\ Shell \notin Pid /\ None \notin Pid
    /\ Commands \subseteq Seq(Stage) \ {<<>>}

VARIABLES
    pc,       \* the shell's next step
    cmd,      \* what is left of its command line, from the current stage on
    pid,      \* the child it has forked last
    status,   \* what waitpid has stored
    proc,     \* the state of each process
    stage,    \* the stage a process runs
    group,    \* its process group
    pushed,   \* the processes "pushed to background"
    pipes,    \* the pairs of a writer and its reader
    fgGroup,  \* the terminal's foreground process group
    raw,      \* is the terminal in raw mode?
    sigchld   \* is a SIGCHLD pending?

shell == <<pc, cmd, pid, status>>
terminal == <<fgGroup, raw>>
children == <<proc, stage, group, pushed, pipes, sigchld>>
vars == <<shell, terminal, children>>

NoStage == [bg |-> FALSE, mw |-> FALSE, fills |-> FALSE, reads |-> FALSE]

Alive(p) == proc[p] \in {"forked", "grouped", "ready", "running", "stopped"}

Init ==
    /\ pc = "prompt" /\ cmd = <<>> /\ pid = None /\ status = "unset"
    /\ proc = [p \in Pid |-> "free"]
    /\ stage = [p \in Pid |-> NoStage]
    /\ group = [p \in Pid |-> Shell]
    /\ pushed = {} /\ pipes = {} /\ sigchld = FALSE
    /\ fgGroup = Shell /\ raw = TRUE

\* The processes in P are gone for good, and their numbers free again.
Reap(P) ==
    /\ proc' = [p \in Pid |-> IF p \in P THEN "free" ELSE proc[p]]
    /\ stage' = [p \in Pid |-> IF p \in P THEN NoStage ELSE stage[p]]
    /\ group' = [p \in Pid |-> IF p \in P THEN Shell ELSE group[p]]
    /\ pushed' = pushed \ P
    /\ pipes' = {e \in pipes : e[1] \notin P /\ e[2] \notin P}

-----------------------------------------------------------------------------
(* The shell.                                                              *)

\* readLine has returned a command line, and parseCommand has taken it apart.
\* (Bound: there are processes left for its stages.)
Enter(c) ==
    /\ pc = "prompt"
    /\ Len(c) <= Cardinality({p \in Pid : proc[p] = "free"})
    /\ cmd' = c
    /\ pc' = "fork"
    /\ UNCHANGED <<pid, status, terminal, children>>

\* "exit": history is saved and the terminal set back.
Exit ==
    /\ pc = "prompt"
    /\ pc' = "exited" /\ raw' = FALSE
    /\ UNCHANGED <<cmd, pid, status, fgGroup, children>>

\* fork() of the next stage, which gets the lowest number that is free; the
\* child inherits the read end of the pipe.
Fork(p) ==
    /\ pc = "fork" /\ proc[p] = "free"
    /\ \A q \in 1 .. p - 1 : proc[q] # "free"
    /\ proc' = [proc EXCEPT ![p] = "forked"]
    /\ stage' = [stage EXCEPT ![p] = Head(cmd)]
    /\ pipes' = IF Head(cmd).reads /\ pid # None /\ proc[pid] # "free"
                THEN pipes \cup {<<pid, p>>} ELSE pipes
    /\ pid' = p
    /\ pc' = "setpgid"
    /\ UNCHANGED <<cmd, status, group, pushed, sigchld, terminal>>

\* setpgid(pid, pgid); it has no effect on a child that has gone.
SetGroup ==
    /\ pc = "setpgid"
    /\ group' = IF proc[pid] = "free" THEN group ELSE [group EXCEPT ![pid] = pid]
    /\ pc' = IF Head(cmd).bg THEN "next" ELSE "give"
    /\ UNCHANGED <<cmd, pid, status, proc, stage, pushed, pipes, sigchld, terminal>>

\* tcsetpgrp(shell_terminal, pgid); it fails if the group is gone.
GiveTerminal ==
    /\ pc = "give"
    /\ fgGroup' = IF proc[pid] = "free" THEN fgGroup ELSE pid
    /\ pc' = "wait"
    /\ UNCHANGED <<cmd, pid, status, raw, children>>

\* Mutant of WaitChild: waitpid without WUNTRACED.
WaitChildTraced ==
    /\ pc = "wait"
    /\ \/ /\ proc[pid] = "zombie"
          /\ Reap({pid}) /\ status' = "exited"
       \/ /\ proc[pid] = "free"
          /\ status' \in {"exited", "stopped"}
          /\ UNCHANGED <<proc, stage, group, pushed, pipes>>
    /\ pc' = "resume"
    /\ UNCHANGED <<cmd, pid, sigchld, terminal>>

\* waitpid(pid, &status, WUNTRACED).  When the handler has been faster it
\* returns at once and leaves status, which nothing has initialised.
WaitChild ==
    /\ pc = "wait"
    /\ \/ /\ proc[pid] = "zombie"
          /\ Reap({pid}) /\ status' = "exited"
       \/ /\ proc[pid] = "stopped"
          /\ status' = "stopped"
          /\ UNCHANGED <<proc, stage, group, pushed, pipes>>
       \/ /\ proc[pid] = "free"
          /\ status' \in {"exited", "stopped"}
          /\ UNCHANGED <<proc, stage, group, pushed, pipes>>
    /\ pc' = "resume"
    /\ UNCHANGED <<cmd, pid, sigchld, terminal>>

\* Mutant of Resume: the stopped child is announced but gets no SIGCONT.
ResumeAnnounces ==
    /\ pc = "resume"
    /\ pc' = "restore"
    /\ UNCHANGED <<cmd, pid, status, children, terminal>>

\* kill(-pid, SIGCONT), unless the child is a multiwatch.
Resume ==
    /\ pc = "resume"
    /\ IF status = "stopped" /\ ~ Head(cmd).mw /\ proc[pid] = "stopped"
       THEN /\ proc' = [proc EXCEPT ![pid] = "running"]
            /\ pushed' = pushed \cup {pid}
            /\ sigchld' = TRUE
       ELSE UNCHANGED <<proc, pushed, sigchld>>
    /\ pc' = "restore"
    /\ UNCHANGED <<cmd, pid, status, stage, group, pipes, terminal>>

\* Mutant of TakeTerminal: only after a child that has ended.
TakeTerminalIfExited ==
    /\ pc = "restore"
    /\ IF status = "exited" THEN fgGroup' = Shell /\ raw' = TRUE ELSE UNCHANGED terminal
    /\ pc' = "next"
    /\ UNCHANGED <<cmd, pid, status, children>>

\* tcsetpgrp(shell_terminal, shell_pgid) and the shell's own terminal modes.
TakeTerminal ==
    /\ pc = "restore"
    /\ fgGroup' = Shell /\ raw' = TRUE
    /\ pc' = "next"
    /\ UNCHANGED <<cmd, pid, status, children>>

\* The next stage, or the prompt.
NextStage ==
    /\ pc = "next"
    /\ cmd' = Tail(cmd) /\ status' = "unset"
    /\ pc' = IF cmd' = <<>> THEN "prompt" ELSE "fork"
    /\ pid' = IF cmd' = <<>> THEN None ELSE pid
    /\ UNCHANGED <<terminal, children>>

Zombies == {p \in Pid : proc[p] = "zombie"}

\* Mutant of sigchldHandler: one waitpid for one signal.
sigchldHandlerOnce ==
    /\ sigchld /\ pc # "exited"
    /\ IF Zombies = {} THEN UNCHANGED <<proc, stage, group, pushed, pipes>>
       ELSE \E p \in Zombies : Reap({p})
    /\ sigchld' = FALSE
    /\ UNCHANGED <<shell, terminal>>

\* The handler: waitpid(WAIT_ANY, &status, WNOHANG) until nothing is left.
sigchldHandler ==
    /\ sigchld /\ pc # "exited"
    /\ Reap(Zombies)
    /\ sigchld' = FALSE
    /\ UNCHANGED <<shell, terminal>>

ShellStep ==
    \/ \E p \in Pid : Fork(p)
    \/ SetGroup \/ GiveTerminal \/ WaitChild \/ Resume \/ TakeTerminal \/ NextStage

-----------------------------------------------------------------------------
(* A child.  Up to its signal(..., SIG_DFL) calls it ignores the terminal's *)
(* signals, as the shell does.                                             *)

ChildSetGroup(p) ==
    /\ proc[p] = "forked"
    /\ group' = [group EXCEPT ![p] = p]
    /\ proc' = [proc EXCEPT ![p] = "grouped"]
    /\ UNCHANGED <<shell, stage, pushed, pipes, sigchld, terminal>>

\* Mutant of ChildTakesTerminal: background or not.
ChildTakesTerminalAlways(p) ==
    /\ proc[p] = "grouped"
    /\ fgGroup' = p /\ raw' = (raw /\ stage[p].mw)
    /\ proc' = [proc EXCEPT ![p] = "ready"]
    /\ UNCHANGED <<shell, stage, group, pushed, pipes, sigchld>>

\* disableRawMode, which a multiwatch does not call, and tcsetpgrp.
ChildTakesTerminal(p) ==
    /\ proc[p] = "grouped"
    /\ IF stage[p].bg THEN UNCHANGED terminal
       ELSE fgGroup' = p /\ raw' = (raw /\ stage[p].mw)
    /\ proc' = [proc EXCEPT ![p] = "ready"]
    /\ UNCHANGED <<shell, stage, group, pushed, pipes, sigchld>>

\* The signals get their default actions, and execvp succeeds.
ChildRuns(p) ==
    /\ proc[p] = "ready"
    /\ proc' = [proc EXCEPT ![p] = "running"]
    /\ UNCHANGED <<shell, stage, group, pushed, pipes, sigchld, terminal>>

\* Its pipe is full and nobody reads: the next stage has not been started, or
\* has gone, while the shell itself keeps the read end open.
Blocked(p) == stage[p].fills /\ ~ \E q \in Pid : <<p, q>> \in pipes /\ proc[q] = "running"

End(p) ==
    /\ proc' = [proc EXCEPT ![p] = "zombie"]
    /\ sigchld' = TRUE
    /\ UNCHANGED <<shell, stage, group, pushed, pipes, terminal>>

\* execvp fails, or a multiwatch is not well formed.
ChildFails(p) == proc[p] = "ready" /\ End(p)

\* The program ends by itself.  A multiwatch does not: it holds the write ends
\* of its pipes, so that poll never reports that they are closed.
ChildExits(p) == proc[p] = "running" /\ ~ stage[p].mw /\ ~ Blocked(p) /\ End(p)

\* A background process reads the terminal: SIGTTIN.
ReadsTerminal(p) ==
    /\ proc[p] = "running" /\ group[p] # fgGroup /\ ~ stage[p].mw
    /\ proc' = [proc EXCEPT ![p] = "stopped"]
    /\ sigchld' = TRUE
    /\ UNCHANGED <<shell, stage, group, pushed, pipes, terminal>>

Hit == {p \in Pid : proc[p] = "running" /\ group[p] = fgGroup}

\* Ctrl-C: SIGINT to the foreground group.
CtrlC ==
    /\ Hit # {}
    /\ proc' = [p \in Pid |-> IF p \in Hit THEN "zombie" ELSE proc[p]]
    /\ sigchld' = TRUE
    /\ UNCHANGED <<shell, stage, group, pushed, pipes, terminal>>

\* Ctrl-Z: SIGTSTP, which a multiwatch still ignores.
CtrlZ ==
    /\ \E p \in Hit : ~ stage[p].mw
    /\ proc' = [p \in Pid |-> IF p \in Hit /\ ~ stage[p].mw THEN "stopped" ELSE proc[p]]
    /\ sigchld' = TRUE
    /\ UNCHANGED <<shell, stage, group, pushed, pipes, terminal>>

ChildStarts(p) == ChildSetGroup(p) \/ ChildTakesTerminal(p) \/ ChildRuns(p)

Next ==
    \/ \E c \in Commands : Enter(c)
    \/ Exit
    \/ ShellStep
    \/ sigchldHandler
    \/ \E p \in Pid : ChildStarts(p) \/ ChildFails(p) \/ ChildExits(p) \/ ReadsTerminal(p)
    \/ CtrlC \/ CtrlZ

Spec == Init /\ [][Next]_vars

\* The shell and its children are scheduled, a pending signal is delivered,
\* and programs end unless they wait for something.
FairSpec ==
    /\ Spec
    /\ WF_vars(ShellStep) /\ WF_vars(sigchldHandler)
    /\ \A p \in Pid : WF_vars(ChildStarts(p)) /\ WF_vars(ChildExits(p))

-----------------------------------------------------------------------------
(* Properties.                                                             *)

\* The types of the state; a pipe in use has a process at each end.
TypeOK ==
    /\ pc \in {"prompt", "fork", "setpgid", "give", "wait", "resume", "restore", "next", "exited"}
    /\ cmd \in Seq(Stage)
    /\ pid \in Pid \cup {None}
    /\ status \in {"unset", "exited", "stopped"}
    /\ proc \in [Pid -> {"free", "forked", "grouped", "ready", "running", "stopped", "zombie"}]
    /\ stage \in [Pid -> Stage]
    /\ group \in [Pid -> Pid \cup {Shell}]
    /\ pushed \subseteq {p \in Pid : proc[p] # "free"}
    /\ pipes \subseteq {e \in Pid \X Pid : proc[e[1]] # "free" /\ proc[e[2]] # "free"}
    /\ fgGroup \in Pid \cup {Shell}
    /\ raw \in BOOLEAN /\ sigchld \in BOOLEAN

\* The terminal is the shell's whenever it reads a command line, in raw mode,
\* whatever the order in which shell and child call tcsetpgrp and however the
\* child ended or stopped; in between it is at most the awaited child's.
TerminalExact ==
    /\ pc \in {"prompt", "fork"} => fgGroup = Shell /\ raw
    /\ fgGroup # Shell => fgGroup = pid /\ ~ Head(cmd).bg

\* Types and the owner of the terminal together.
TerminalInv == TypeOK /\ TerminalExact

\* The shell reads a command line only when every process it has started in
\* the foreground has ended or runs on in the background: none is left stopped
\* by Ctrl-Z, none is forgotten because the handler reaped another one.
ForegroundFinished ==
    pc = "prompt" => \A p \in Pid : Alive(p) => stage[p].bg \/ p \in pushed

\* Ctrl-Z stops the foreground process only: never one that was started in the
\* background or has been pushed there, even while shell and children are
\* still changing groups.  The exception is a process that is being pushed: it
\* gets SIGCONT first and loses the terminal afterwards, and a second Ctrl-Z
\* between the two stops it for good.
KeyboardSparesBackground ==
    [][CtrlZ => \A p \in Pid : proc'[p] # proc[p] =>
           ~ stage[p].bg /\ (p \in pushed => pc = "restore" /\ p = pid)]_vars

\* No child stays a zombie while the shell lives, though one pending SIGCHLD
\* may stand for several children.
EventuallyReaped ==
    \A p \in Pid : proc[p] = "zombie" ~> proc[p] # "zombie" \/ pc = "exited"

\* Whoever wins the race for a child, waitpid or the handler, the shell gets
\* back to its prompt: unless it waits for a multiwatch or for a stage that
\* fills a pipe whose reader it has not started yet.
PromptAgain ==
    []<>(pc \in {"prompt", "exited"} \/ (pc = "wait" /\ (Head(cmd).mw \/ Head(cmd).fills)))
=============================================================================
