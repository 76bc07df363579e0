---------------------------- MODULE ShellPrompt ----------------------------
(***************************************************************************)
(* The shell of a2 at its prompt, over several sessions: the line editor   *)
(* readLine, main's loop with the bounded history, and the history file,   *)
(* which is "./mybash_history" in whatever directory the shell is in when  *)
(* it starts and when it exits.  What commands do is modelled in           *)
(* ShellJobs; here they matter in that cd changes the directory and a      *)
(* stage without a word ends the shell.  Lines that start a multiwatch     *)
(* change nothing here and are left out.                                   *)
(***************************************************************************)
EXTENDS CommandGrammar, FiniteSetsExt

CONSTANTS
    Lexeme,      \* blanks, separators, quotes and words
    Dirs,        \* names of directories, sequences of lexemes
    Typed,       \* what the user types in one go, sequences of lexemes
    MAXHISTSIZE,
    MaxEntered   \* bound on the number of lines entered in all sessions

ASSUME PromptAssumption ==
    /\ IsFiniteSet(Dirs)
    /\ Dirs \subseteq Seq(Lexeme) /\ Typed \subseteq Seq(Lexeme)
    /\ MAXHISTSIZE \in Nat \ {0}
    /\ MaxEntered \in Nat

VARIABLES
    mode,     \* "off", "prompt", or "save" while saveHistory runs
    cwd,
    files,    \* the lines of each directory's history file
    history,
    line,
    asked,    \* askedHistoryIndex
    saved,    \* how many entries saveHistory has written
    entered,  \* ghost: all lines ever entered
    since     \* ghost: how many of them before this session

file == <<files, saved>>
ghosts == <<entered, since>>
vars == <<mode, cwd, file, history, line, asked, ghosts>>

Init ==
    /\ mode = "off" /\ cwd \in Dirs
    /\ files = [d \in Dirs |-> <<>>]
    /\ history = <<>> /\ line = <<>> /\ asked = 0 /\ saved = 0
    /\ entered = <<>> /\ since = 0

\* The elements of s at the places P, up to the i-th, and all of them.
PickedUpTo(s, P) ==
    LET picked[i \in 0 .. Len(s)] ==
            IF i = 0 THEN <<>>
            ELSE IF i \in P THEN Append(picked[i - 1], s[i]) ELSE picked[i - 1]
    IN  picked
Picked(s, P) == PickedUpTo(s, P)[Len(s)]

\* Blank lines are skipped.
loadHistory(f) ==
    LET trimmed == [i \in DOMAIN f |-> trim(f[i])]
    IN  Picked(trimmed, {i \in DOMAIN f : trimmed[i] # <<>>})

\* A shell is started in some directory.
Start ==
    /\ mode = "off"
    /\ cwd' \in Dirs
    /\ history' = loadHistory(files[cwd'])
    /\ mode' = "prompt" /\ line' = <<>> /\ asked' = Len(history')
    /\ since' = Len(entered) /\ saved' = 0
    /\ UNCHANGED <<files, entered>>

-----------------------------------------------------------------------------
(* readLine.                                                               *)

\* What is typed stands at the end of the line.  (A bound: words are typed into
\* an empty line, blanks anywhere but after a blank.)
Type(s) ==
    /\ mode = "prompt"
    /\ line # <<>> => s = <<Blank>> /\ Last(line) # Blank
    /\ line' = line \o s
    /\ UNCHANGED <<mode, cwd, file, history, asked, ghosts>>

Backspace ==
    /\ mode = "prompt" /\ line # <<>>
    /\ line' = Front(line)
    /\ UNCHANGED <<mode, cwd, file, history, asked, ghosts>>

\* The results of autocomplete: the names of the directory that share the
\* longest start with the last word replace it; if there are several the user
\* chooses one, and a bad choice empties the line.
Shared(s, t) ==
    Max({n \in 0 .. Min({Len(s), Len(t)}) : \A i \in 1 .. n : s[i] = t[i]})
autocomplete(l) ==
    LET before == SelectLastInSeq(l, LAMBDA c : c = Blank)
        word == SubSeq(l, before + 1, Len(l))
        best == Max({Shared(d, word) : d \in Dirs})
        matches == {d \in Dirs : Shared(d, word) = best}
    IN  IF best = 0 THEN {l}
        ELSE {SubSeq(l, 1, before) \o d : d \in matches}
                 \cup (IF Cardinality(matches) > 1 THEN {<<>>} ELSE {})

Tab ==
    /\ mode = "prompt"
    /\ line' \in autocomplete(line)
    /\ UNCHANGED <<mode, cwd, file, history, asked, ghosts>>

UpArrow ==
    /\ mode = "prompt" /\ asked > 0
    /\ asked' = asked - 1
    /\ line' = history[asked' + 1]
    /\ UNCHANGED <<mode, cwd, file, history, ghosts>>

\* Below the newest entry there is nothing, not even the line typed before.
DownArrow ==
    /\ mode = "prompt" /\ asked < Len(history) - 1
    /\ asked' = asked + 1
    /\ line' = history[asked' + 1]
    /\ UNCHANGED <<mode, cwd, file, history, ghosts>>

\* Control-R: the line is given up, matches are shown (see searchHistory), and
\* main reads a new line.
ControlR ==
    /\ mode = "prompt"
    /\ line' = <<>> /\ asked' = Len(history)
    /\ UNCHANGED <<mode, cwd, file, history, ghosts>>

-----------------------------------------------------------------------------
(* main's loop.                                                            *)

\* Mutant of Remember: in a full history the newest entry makes room.
RememberPopsBack(h, l) ==
    IF h # <<>> /\ Last(h) = l THEN h
    ELSE Append(IF Len(h) >= MAXHISTSIZE THEN Front(h) ELSE h, l)

\* Lines 160-165.
Remember(h, l) ==
    IF h # <<>> /\ Last(h) = l THEN h
    ELSE Append(IF Len(h) >= MAXHISTSIZE THEN Tail(h) ELSE h, l)

\* The directory after the stages of a line, which the last cd decides, and
\* whether the shell survives them: strcmp reads tokens[0], which is NULL in a stage without a word.  A
\* stage that was refused has no tokens at all and harms its own process only.
Crashes(stage) == stage.ok /\ stage.args = <<>>
EntersDir(stage, d) ==
    stage.ok /\ Len(stage.args) > 1 /\ stage.args[1] = <<"cd">> /\ stage.args[2] = d
executeCommand(jobs, dir) ==
    LET stages  == FlattenSeq([i \in DOMAIN jobs |-> jobs[i].stages])
        reached == {i \in DOMAIN stages : \A k \in 1 .. i - 1 : ~ Crashes(stages[k])}
        In(d)   == \E i \in reached :
                       /\ EntersDir(stages[i], d)
                       /\ \A k \in reached, other \in Dirs : k > i => ~ EntersDir(stages[k], other)
    IN  [dir |-> IF \E d \in Dirs : In(d) THEN CHOOSE d \in Dirs : In(d) ELSE dir,
         up  |-> \A i \in DOMAIN stages : ~ Crashes(stages[i])]

\* An empty line only starts a new readLine.  "exit" leaves the loop, "history"
\* only prints, and a command that is refused is not run.
Enter ==
    /\ mode = "prompt"
    /\ line # <<>> => Len(entered) < MaxEntered
    /\ LET command == parseCommand(line)
           runs == line \notin {<<>>, <<"exit">>, <<"history">>} /\ command.ok
           after == IF runs THEN executeCommand(command.jobs, cwd) ELSE [dir |-> cwd, up |-> TRUE]
       IN  /\ history' = IF line = <<>> THEN history ELSE Remember(history, line)
           /\ entered' = IF line = <<>> THEN entered ELSE Append(entered, line)
           /\ cwd' = after.dir
           /\ mode' = IF line = <<"exit">> THEN "save" ELSE IF after.up THEN "prompt" ELSE "off"
    /\ files' = IF line = <<"exit">> THEN [files EXCEPT ![cwd] = <<>>] ELSE files
    /\ saved' = 0
    /\ line' = <<>> /\ asked' = Len(history')
    /\ UNCHANGED since

\* Mutant of saveHistory: the file is written from the newest entry to the oldest.
saveHistoryReversed ==
    /\ mode = "save"
    /\ IF saved < Len(history)
       THEN /\ files' = [files EXCEPT ![cwd] = Append(@, history[Len(history) - saved])]
            /\ saved' = saved + 1
            /\ UNCHANGED mode
       ELSE mode' = "off" /\ UNCHANGED file
    /\ UNCHANGED <<cwd, history, line, asked, ghosts>>

\* The file was emptied when it was opened; endl writes entry after entry.
saveHistory ==
    /\ mode = "save"
    /\ IF saved < Len(history)
       THEN /\ files' = [files EXCEPT ![cwd] = Append(@, history[saved + 1])]
            /\ saved' = saved + 1
            /\ UNCHANGED mode
       ELSE mode' = "off" /\ UNCHANGED file
    /\ UNCHANGED <<cwd, history, line, asked, ghosts>>

\* The terminal goes away: SIGHUP is not ignored.
HangUp ==
    /\ mode # "off" /\ mode' = "off"
    /\ UNCHANGED <<cwd, file, history, line, asked, ghosts>>

Next ==
    \/ Start
    \/ \E s \in Typed : Type(s)
    \/ Backspace \/ Tab \/ UpArrow \/ DownArrow \/ ControlR
    \/ Enter \/ saveHistory \/ HangUp

Spec == Init /\ [][Next]_vars

-----------------------------------------------------------------------------
(* The search of Control-R.                                                *)

\* Mutant of lcs: a mismatch does not end a common stretch.
lcsAcrossGaps(X, Y) ==
    LET Step(st, x) ==
            LET row == [j \in 0 .. Len(Y) |-> IF j = 0 THEN 0
                                              ELSE IF x = Y[j] THEN st.row[j - 1] + 1 ELSE st.row[j]]
            IN  [row |-> row, maxlen |-> Max({st.maxlen} \cup Range(row))]
    IN  FoldLeft(Step, [row |-> [j \in 0 .. Len(Y) |-> 0], maxlen |-> 0], X).maxlen

\* Row after row of the table L, of which two are kept.
lcs(X, Y) ==
    LET Step(st, x) ==
            LET row == [j \in 0 .. Len(Y) |-> IF j > 0 /\ x = Y[j] THEN st.row[j - 1] + 1 ELSE 0]
            IN  [row |-> row, maxlen |-> Max({st.maxlen} \cup Range(row))]
    IN  FoldLeft(Step, [row |-> [j \in 0 .. Len(Y) |-> 0], maxlen |-> 0], X).maxlen

\* The entries that are shown for a search term.
searchHistory(term, h) ==
    LET common == [i \in DOMAIN h |-> lcs(term, h[i])]
        best == Max({0} \cup Range(common))
    IN  {h[i] : i \in {j \in DOMAIN h : common[j] = Len(h[j]) \/ (common[j] = best /\ best > 2)}}

-----------------------------------------------------------------------------
Running == mode # "off"

Line == Seq(Lexeme) \ {<<>>}
Histories == {h \in Seq(Line) : Len(h) <= MAXHISTSIZE}

TypeOK ==
    /\ mode \in {"off", "prompt", "save"} /\ cwd \in Dirs
    /\ files \in [Dirs -> Histories] /\ history \in Histories
    /\ line \in Seq(Lexeme)
    /\ asked \in 0 .. Len(history) /\ saved \in 0 .. Len(history)
    /\ entered \in Seq(Line) /\ Len(entered) <= MaxEntered /\ since \in 0 .. Len(entered)

\* s without immediate repetitions.
Squeezed(s) == Picked(s, {i \in DOMAIN s : i = 1 \/ s[i] # s[i - 1]})

\* The history ends with the lines of this session, without immediate
\* repetitions; only a full history has lost the oldest of them (lines 160-165).
SessionKept ==
    Running =>
        LET session == Squeezed(SubSeq(entered, since + 1, Len(entered)))
        IN  \/ IsSuffix(session, history)
            \/ Len(history) = MAXHISTSIZE /\ IsSuffix(history, session)

PromptInv == TypeOK /\ SessionKept

\* Through any number of sessions, directories, crashes and interrupted saves, the
\* history and every file list lines that were entered, each once, in order.
InOrder(h, lines) ==
    \E at \in [DOMAIN h -> DOMAIN lines] :
        /\ \A i, j \in DOMAIN h : i < j => at[i] < at[j]
        /\ \A i \in DOMAIN h : trim(h[i]) = trim(lines[at[i]])
HistoryInOrder ==
    /\ Running => InOrder(history, entered)
    /\ \A d \in Dirs : InOrder(files[d], entered)
=============================================================================
