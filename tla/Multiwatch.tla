----------------------------- MODULE Multiwatch -----------------------------
(***************************************************************************)
(* a2-custom-shell/Assignment2_35_19CS30014_19CS10048.cpp: one command     *)
(*                    multiwatch ["cmd1", "cmd2", ...]                     *)
(* handleMultiwatch forks a surrogate in a process group of its own; it    *)
(* forks a runner for each command, and the runner the command's programs, *)
(* all in the same group.  A command's output goes through a pipe to the   *)
(* surrogate, which polls the pipes and prints what it reads under the     *)
(* command's name.                                                         *)
(*                                                                         *)
(* A watched command is the sequence of its programs, which executeCommand *)
(* starts as it does for the shell (ShellJobs): each is in the background, *)
(* so that the runner does not wait for it, or in the foreground, and      *)
(* writes to the command's pipe (out, the kinds of bytes it may write) or  *)
(* to the next program (which ShellJobs follows). handleMultiwatch puts a  *)
(* command in the background, but not the stages of a pipeline nor the     *)
(* parts between ampersands. The command's pipe is the runner's standard   *)
(* output too (line 944): what executeSimpleCommand tells the user of a    *)
(* stage that has stopped (line 821) goes between what the programs write. *)
(***************************************************************************)
EXTENDS Integers, Sequences

CONSTANTS Shell, Watch,         \* the process groups of the shell and of the surrogate
          Watches,              \* the lists of commands a user may watch
          PipeSize,             \* what a pipe holds
          MAX_BUFFER_SIZE,      \* what one read takes
          MaxOut                \* bound on what is written while a command's programs may write

Program == [bg : BOOLEAN, out : SUBSET {"text", "zero"}]

\* What is written: by a program, a byte of text or a zero; by the runner, a
\* line about a stage that has stopped.
Kind == {"text", "zero", "notice"}

ASSUME WatchAssumption ==
    /\ Shell # Watch
    /\ Watches \subseteq Seq(Seq(Program))
    /\ PipeSize \in Nat \ {0} /\ MAX_BUFFER_SIZE \in Nat \ {0} /\ MaxOut \in Nat

VARIABLES
    shell,       \* the shell's next step
    fg,          \* the terminal's foreground process group
    sur,         \* the surrogate's next step
    list,        \* watchedCmds
    j,           \* its loop variable
    revents,     \* the commands whose pipe poll has reported
    runner,      \* for each command, its runner's next step and current program
    prog,        \* for each command, the state of its programs
    written,     \* what has been written to its pipe, each item as its kind
    pipe,        \* the items in its pipe, by their numbers in written
    shown,       \* the numbers of those the surrogate has printed under its name
    junk,        \* the numbers of them after which it has printed junk
    interrupted  \* has Ctrl-C been typed while the shell waited and the commands ran?

user == <<shell, fg>>
watch == <<list, j, revents>>
commands == <<runner, prog, written, pipe, shown, junk>>
vars == <<user, sur, watch, commands, interrupted>>

Cmd == DOMAIN list
Over == sur \in {"zombie", "reaped"}
Executing == sur \in {"fork", "poll", "read"}

\* fork() has returned in both (line 905).
Init ==
    /\ shell = "give" /\ fg = Shell
    /\ sur = "take" /\ list = <<>> /\ j = 1 /\ revents = {}
    /\ runner = <<>> /\ prog = <<>> /\ written = <<>> /\ pipe = <<>> /\ shown = <<>> /\ junk = <<>>
    /\ interrupted = FALSE

-----------------------------------------------------------------------------
(* The shell, after fork().                                                *)

\* setpgid(surrogate, surrogate_grp) and tcsetpgrp(shell_terminal, surrogate_grp);
\* they fail if the surrogate is gone.
ShellGives ==
    /\ shell = "give"
    /\ fg' = IF sur = "reaped" THEN fg ELSE Watch
    /\ shell' = "wait"
    /\ UNCHANGED <<sur, watch, commands, interrupted>>

\* waitpid(surrogate, &status, WUNTRACED); the surrogate ignores SIGTSTP, SIGTTIN
\* and SIGTTOU, so that it never stops, and the handler may have been faster.
ShellWaits ==
    /\ shell = "wait" /\ Over
    /\ sur' = "reaped" /\ shell' = "restore"
    /\ UNCHANGED <<fg, watch, commands, interrupted>>

\* Mutant of ShellRestores: no tcsetpgrp.
ShellRestoresModes ==
    /\ shell = "restore"
    /\ shell' = "prompt"
    /\ UNCHANGED <<fg, sur, watch, commands, interrupted>>

\* tcsetpgrp(shell_terminal, shell_pgid), and back to the prompt.
ShellRestores ==
    /\ shell = "restore"
    /\ fg' = Shell /\ shell' = "prompt"
    /\ UNCHANGED <<sur, watch, commands, interrupted>>

\* sigchldHandler, which may run between any two of the shell's steps.
HandlerReaps ==
    /\ sur = "zombie"
    /\ sur' = "reaped"
    /\ UNCHANGED <<user, watch, commands, interrupted>>

ShellStep == ShellGives \/ ShellWaits \/ ShellRestores

-----------------------------------------------------------------------------
(* The surrogate.                                                          *)

\* setpgid, which the shell calls too, and tcsetpgrp.
SurrogateTakes ==
    /\ sur = "take"
    /\ fg' = Watch /\ sur' = "parse"
    /\ UNCHANGED <<shell, watch, commands, interrupted>>

\* signal(SIGINT, SIG_DFL), parseCommand and the pipes.  A list that is not well
\* formed, or a pipe() that fails, ends the surrogate.
Parse(w) ==
    /\ sur = "parse"
    /\ \/ sur' = "zombie" /\ UNCHANGED <<list, commands>>
       \/ /\ sur' = "fork" /\ list' = w
          /\ runner' = [c \in DOMAIN w |-> [pc |-> "none", at |-> 1]]
          /\ prog' = [c \in DOMAIN w |-> [s \in DOMAIN w[c] |-> "none"]]
          /\ written' = [c \in DOMAIN w |-> <<>>]
          /\ pipe' = [c \in DOMAIN w |-> <<>>]
          /\ shown' = [c \in DOMAIN w |-> <<>>] /\ junk' = [c \in DOMAIN w |-> {}]
    /\ UNCHANGED <<user, j, revents, interrupted>>

\* fork() of the runner of the next command.
ForkRunner ==
    /\ sur = "fork" /\ j \in Cmd
    /\ runner' = [runner EXCEPT ![j].pc = "fork"]
    /\ j' = j + 1
    /\ UNCHANGED <<user, sur, list, revents, prog, written, pipe, shown, junk, interrupted>>

\* The loop over the open pipes.  When nothing is watched there is none:
\* handleMultiwatch returns 0 in the surrogate too, which is then a second shell
\* with a prompt of its own.
StartLoop ==
    /\ sur = "fork" /\ j \notin Cmd
    /\ sur' = IF Cmd = {} THEN "second" ELSE "poll"
    /\ UNCHANGED <<user, watch, commands, interrupted>>

\* "exit" typed at the second shell.  (Its other commands are not followed.)
SecondShellExits ==
    /\ sur = "second"
    /\ sur' = "zombie"
    /\ UNCHANGED <<user, watch, commands, interrupted>>

\* Mutant of Poll: the last pipe is not among those polled.
PollOneShort ==
    /\ sur = "poll"
    /\ revents' = {c \in Cmd : pipe[c] # <<>> /\ c # Len(list)}
    /\ revents' # {}
    /\ sur' = "read" /\ j' = 1
    /\ UNCHANGED <<user, list, commands, interrupted>>

\* poll(pollfdset, nfds, -1): the pipes that hold something.  The surrogate and
\* every runner keep the write ends open, so that it never reports POLLHUP.
Poll ==
    /\ sur = "poll"
    /\ revents' = {c \in Cmd : pipe[c] # <<>>}
    /\ revents' # {}
    /\ sur' = "read" /\ j' = 1
    /\ UNCHANGED <<user, list, commands, interrupted>>

\* What one read takes of a pipe.
Taken(c) == IF Len(pipe[c]) < MAX_BUFFER_SIZE THEN Len(pipe[c]) ELSE MAX_BUFFER_SIZE

\* The first n of the items one read takes stand before the first zero, if any.
UpToZero(c, n) ==
    /\ \A k \in 1 .. n : written[c][pipe[c][k]] # "zero"
    /\ n # Taken(c) => written[c][pipe[c][n + 1]] = "zero"

\* Mutant of ReadPipe: the zero is written over the last byte of a full buffer.
ReadPipeTerminated ==
    /\ sur = "read" /\ j \in revents
    /\ \E n \in 0 .. Taken(j) :
          /\ UpToZero(j, n)
          /\ LET kept == IF n = MAX_BUFFER_SIZE THEN n - 1 ELSE n
             IN shown' = [shown EXCEPT ![j] = @ \o SubSeq(pipe[j], 1, kept)]
    /\ pipe' = [pipe EXCEPT ![j] = SubSeq(@, Taken(j) + 1, Len(@))]
    /\ j' = j + 1
    /\ UNCHANGED <<user, sur, list, revents, runner, prog, written, junk, interrupted>>

\* read() into the zeroed buffer, and the buffer printed as a text under the
\* command's name (line 988): a zero among what was read ends it, and the rest is
\* lost.  A full buffer without one has no end: what follows it in memory may be
\* printed too.
ReadPipe ==
    /\ sur = "read" /\ j \in revents
    /\ \E n \in 0 .. Taken(j) :
          /\ UpToZero(j, n)
          /\ shown' = [shown EXCEPT ![j] = @ \o SubSeq(pipe[j], 1, n)]
          /\ \/ UNCHANGED junk
             \/ n = MAX_BUFFER_SIZE /\ junk' = [junk EXCEPT ![j] = @ \cup {Len(shown'[j])}]
    /\ pipe' = [pipe EXCEPT ![j] = SubSeq(@, Taken(j) + 1, Len(@))]
    /\ j' = j + 1
    /\ UNCHANGED <<user, sur, list, revents, runner, prog, written, interrupted>>

\* revents is 0, or the round is over.
NextPipe ==
    /\ sur = "read" /\ j \notin revents
    /\ IF j \in Cmd THEN j' = j + 1 /\ UNCHANGED sur ELSE j' = j /\ sur' = "poll"
    /\ UNCHANGED <<user, list, revents, commands, interrupted>>

SurrogateStep ==
    \/ SurrogateTakes \/ \E w \in Watches : Parse(w)
    \/ ForkRunner \/ StartLoop \/ Poll \/ ReadPipe \/ NextPipe

-----------------------------------------------------------------------------
(* The runner of command c: executeCommand(watchedCmds[i], 1), exit(1).    *)

Current(c) == runner[c].at

\* write() of one item to the pipe of command c, which waits while it is full.
Put(c, kind) ==
    /\ Len(pipe[c]) < PipeSize
    /\ written' = [written EXCEPT ![c] = Append(@, kind)]
    /\ pipe' = [pipe EXCEPT ![c] = Append(@, Len(written[c]) + 1)]

\* fork() of the next program, in the same group.  For a program in the
\* foreground both sides call tcsetpgrp(shell_terminal, 0), which fails.
RunnerForks(c) ==
    /\ runner[c].pc = "fork"
    /\ IF Current(c) \notin DOMAIN list[c]
       THEN runner' = [runner EXCEPT ![c].pc = "exited"] /\ UNCHANGED prog
       ELSE /\ prog' = [prog EXCEPT ![c][Current(c)] = "new"]
            /\ runner' = IF list[c][Current(c)].bg
                         THEN [runner EXCEPT ![c].at = @ + 1]
                         ELSE [runner EXCEPT ![c].pc = "wait"]
    /\ UNCHANGED <<user, sur, watch, written, pipe, shown, junk, interrupted>>

\* waitpid(pid, &status, WUNTRACED).  The kill(-pid, SIGCONT) for a program that
\* has stopped fails, because no group has the program's number.
RunnerWaits(c) ==
    /\ runner[c].pc = "wait"
    /\ \/ prog[c][Current(c)] = "ended" /\ runner' = [runner EXCEPT ![c].pc = "restore"]
       \/ prog[c][Current(c)] = "stopped" /\ runner' = [runner EXCEPT ![c].pc = "blank"]
    /\ UNCHANGED <<user, sur, watch, prog, written, pipe, shown, junk, interrupted>>

\* cout<<endl<<"Pushed [..] to background : pid[..]"<<endl: each endl flushes, so
\* that an empty line and the text are two write()s.
RunnerPushes(c) ==
    /\ runner[c].pc \in {"blank", "pushed"}
    /\ Put(c, "notice")
    /\ runner' = [runner EXCEPT ![c].pc = IF @ = "blank" THEN "pushed" ELSE "restore"]
    /\ UNCHANGED <<user, sur, watch, prog, shown, junk, interrupted>>

\* tcsetpgrp(shell_terminal, shell_pgid): SIGTTOU is ignored, so that even a
\* group in the background may call it.  The terminal goes to the shell.
RunnerRestores(c) ==
    /\ runner[c].pc = "restore"
    /\ fg' = Shell
    /\ runner' = [runner EXCEPT ![c].pc = "fork", ![c].at = @ + 1]
    /\ UNCHANGED <<shell, sur, watch, prog, written, pipe, shown, junk, interrupted>>

RunnerStep(c) == RunnerForks(c) \/ RunnerWaits(c) \/ RunnerPushes(c) \/ RunnerRestores(c)

-----------------------------------------------------------------------------
(* Program s of command c, and the user.                                   *)

To(c, s, state) ==
    /\ prog' = [prog EXCEPT ![c][s] = state]
    /\ UNCHANGED <<user, sur, watch, runner, written, pipe, shown, junk, interrupted>>

\* The signals get their default actions, and execvp starts the program.
ProgramStarts(c, s) == prog[c][s] = "new" /\ To(c, s, "running")

\* It writes a byte, which may be zero.
ProgramWrites(c, s) ==
    /\ prog[c][s] = "running"
    /\ Len(written[c]) < MaxOut
    /\ \E kind \in list[c][s].out : Put(c, kind)
    /\ UNCHANGED <<user, sur, watch, runner, prog, shown, junk, interrupted>>

\* It ends, or execvp has failed.
ProgramEnds(c, s) == prog[c][s] \in {"new", "running"} /\ To(c, s, "ended")

\* It reads the terminal when that is not its group's: SIGTTIN.
ProgramReads(c, s) == prog[c][s] = "running" /\ fg = Shell /\ To(c, s, "stopped")

\* Ctrl-C ends every process of the group of the surrogate, when the terminal
\* is theirs; the shell ignores it, and so does the surrogate at first.
CtrlC ==
    /\ ~ Over /\ shell # "prompt"
    /\ interrupted' = (interrupted \/ (Executing /\ shell = "wait"))
    /\ IF fg = Watch /\ sur \notin {"take", "parse"}
       THEN /\ sur' = "zombie"
            /\ runner' = [c \in Cmd |-> [runner[c] EXCEPT !.pc = "exited"]]
            /\ prog' = [c \in Cmd |-> [s \in DOMAIN prog[c] |-> "ended"]]
       ELSE UNCHANGED <<sur, runner, prog>>
    /\ UNCHANGED <<user, watch, written, pipe, shown, junk>>

\* Ctrl-Z: the surrogate and the runners ignore it, and nobody continues the
\* programs it stops.
CtrlZ ==
    /\ fg = Watch /\ Executing
    /\ prog' = [c \in Cmd |-> [s \in DOMAIN prog[c] |->
                   IF prog[c][s] = "running" THEN "stopped" ELSE prog[c][s]]]
    /\ UNCHANGED <<user, sur, watch, runner, written, pipe, shown, junk, interrupted>>

ProgramStep(c, s) ==
    ProgramStarts(c, s) \/ ProgramWrites(c, s) \/ ProgramEnds(c, s) \/ ProgramReads(c, s)

Next ==
    \/ ShellStep \/ HandlerReaps
    \/ SurrogateStep \/ SecondShellExits
    \/ \E c \in Cmd : RunnerStep(c) \/ \E s \in DOMAIN list[c] : ProgramStep(c, s)
    \/ CtrlC \/ CtrlZ

Spec == Init /\ [][Next]_vars

\* The shell and the surrogate are scheduled.
FairSpec == Spec /\ WF_vars(ShellStep) /\ WF_vars(SurrogateStep)

-----------------------------------------------------------------------------
(* Properties.                                                             *)

\* Where a runner may be.
Place == {"none", "fork", "wait", "blank", "pushed", "restore", "exited"}

\* The types of the state; a pipe holds no more than it can.
TypeOK ==
    /\ shell \in {"give", "wait", "restore", "prompt"}
    /\ fg \in {Shell, Watch} /\ interrupted \in BOOLEAN
    /\ sur \in {"take", "parse", "fork", "poll", "read", "second", "zombie", "reaped"}
    /\ list \in Watches \cup {<<>>} /\ j \in 1 .. Len(list) + 1 /\ revents \subseteq Cmd
    /\ runner \in [Cmd -> [pc : Place, at : Nat \ {0}]]
    /\ DOMAIN prog = Cmd
    /\ \A c \in Cmd :
          prog[c] \in [DOMAIN list[c] -> {"none", "new", "running", "stopped", "ended"}]
    /\ written \in [Cmd -> Seq(Kind)]
    /\ pipe \in [Cmd -> Seq(Nat \ {0})] /\ \A c \in Cmd : Len(pipe[c]) <= PipeSize
    /\ shown \in [Cmd -> Seq(Nat)]
    /\ junk \in [Cmd -> SUBSET Nat]

\* The numbers of the items that have been printed.
Printed(text) == {text[i] : i \in DOMAIN text}

\* Item n was read behind a zero, or is one, in the same buffer, of which nothing
\* from the zero on was printed.
CutOff(all, text, n) ==
    \E z \in 1 .. n : /\ n < z + MAX_BUFFER_SIZE /\ all[z] = "zero"
                      /\ \A m \in z .. n : m \notin Printed(text)

\* Of the items in all, those in rest are still in the pipe: the last ones, in
\* order.  The text holds the others in order, none twice, no zero, and leaves
\* out those that a zero cuts off.  Junk follows only what may fill a buffer.
Shows(all, rest, text, junks) ==
    LET read == Len(all) - Len(rest)
    IN  /\ \A i \in DOMAIN rest : rest[i] = read + i
        /\ \A i \in DOMAIN text : text[i] \in 1 .. read /\ all[text[i]] # "zero"
        /\ \A i, k \in DOMAIN text : i < k => text[i] < text[k]
        /\ \A n \in 1 .. read : n \in Printed(text) \/ CutOff(all, text, n)
        /\ junks \subseteq MAX_BUFFER_SIZE .. Len(text)

OutputInv == \A c \in Cmd : Shows(written[c], pipe[c], shown[c], junk[c])

\* The runner writes between its programs' texts only about a program it took to
\* be in the foreground and that has stopped.
NoticeInv ==
    \A c \in Cmd : \A n \in DOMAIN written[c] :
        written[c][n] = "notice" =>
            \E s \in DOMAIN list[c] : ~ list[c][s].bg /\ prog[c][s] \in {"stopped", "ended"}

\* Under each command's name the surrogate prints what was written to that
\* command's pipe, in order, nothing twice, and nothing left out but what a zero
\* cuts off (OutputInv), and that is the programs' output and what the runner has
\* to say of a stage that has stopped (NoticeInv), however reads, writes and keys
\* interleave; read() never waits for an empty pipe; and the shell prompts again
\* only when no process of the watch is left to write into its screen, with the
\* terminal back in its hands.
WatchInv ==
    /\ TypeOK
    /\ OutputInv
    /\ NoticeInv
    /\ sur = "read" => \A c \in revents : c >= j => pipe[c] # <<>>
    /\ shell = "prompt" =>
          /\ fg = Shell /\ sur = "reaped"
          /\ \A c \in Cmd : runner[c].pc \in {"none", "exited"}
                /\ \A s \in DOMAIN prog[c] : prog[c][s] \in {"none", "ended"}

\* Whatever is written is read in the end, while the watch lives, and printed
\* unless a zero cuts it off: no pipe is passed over for ever, and a full one is
\* emptied again.
AllShown ==
    \A c \in UNION {DOMAIN w : w \in Watches}, n \in 1 .. MaxOut :
        (c \in Cmd /\ Len(written[c]) >= n)
            ~> (Over \/ (c \in Cmd /\ Len(written[c]) - Len(pipe[c]) >= n
                        /\ (n \in Printed(shown[c]) \/ CutOff(written[c], shown[c], n))))

\* Assignment-2.pdf, multiWatch, says "This execution should end after receiving
\* crtl+C from the user."
CtrlCEnds == interrupted => Over
=============================================================================
