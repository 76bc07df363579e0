---------------------------- MODULE CommandLine ----------------------------
(***************************************************************************)
(* How the shell of a2 reads a line: splitAmpersand, splitPipe,            *)
(* tokenizeCommand and the two parseCommand functions.  A line is a        *)
(* sequence of lexemes: " ", the separators, the quotes, and words.  A     *)
(* word such as "cd" stands for a stretch of ordinary characters; no       *)
(* branch looks inside one.                                                *)
(***************************************************************************)
EXTENDS Naturals, Sequences, FiniteSets, SequencesExt

Blank == " "
Quotes == {"'", "\""}
IsBlank(s) == \A i \in DOMAIN s : s[i] = Blank
Has(s, c) == \E i \in DOMAIN s : s[i] = c

trim(s) ==
    IF IsBlank(s) THEN <<>>
    ELSE SubSeq(s, SelectInSeq(s, LAMBDA c : c # Blank), SelectLastInSeq(s, LAMBDA c : c # Blank))

-----------------------------------------------------------------------------
(* The cuts.                                                               *)

\* A piece is shut; a blank rest of the line is none.
Shut(st) == [pieces |-> Append(st.pieces, trim(st.cur)), cur |-> <<>>]
Pieces(st) == IF IsBlank(st.cur) THEN st.pieces ELSE Shut(st).pieces
NoPiece == [pieces |-> <<>>, cur |-> <<>>]

\* The trimmed pieces of s, each but the last with its separator.
splitAmpersand(s, del) ==
    LET Step(st, c) == IF c = del THEN Shut([st EXCEPT !.cur = Append(@, c)])
                       ELSE [st EXCEPT !.cur = Append(@, c)]
    IN  Pieces(FoldLeft(Step, NoPiece, s))

\* The stages of a pipe, an empty one included unless it is the last.
splitPipe(s) ==
    LET Step(st, c) == IF c = "|" THEN Shut(st) ELSE [st EXCEPT !.cur = Append(@, c)]
    IN  Pieces(FoldLeft(Step, NoPiece, s))

-----------------------------------------------------------------------------
(* One command.                                                            *)

\* The two pointers of lines 345-370: words end at blanks that are not quoted.
Quote(q, c) ==
    IF c \notin Quotes THEN q ELSE IF q = "" THEN c ELSE IF q = c THEN "" ELSE q
EndWord(st) ==
    IF st.cur = <<>> THEN st ELSE [st EXCEPT !.words = Append(@, st.cur), !.cur = <<>>]
Words(s) ==
    LET Step(st, c) == IF st.quote = "" /\ c = Blank THEN EndWord(st)
                       ELSE [st EXCEPT !.cur = Append(@, c), !.quote = Quote(@, c)]
    IN  EndWord(FoldLeft(Step, [words |-> <<>>, cur |-> <<>>, quote |-> ""], s))

\* The next word is the file name of the redirection that is pending, or one
\* more argument.
Redirect(cmd, w) ==
    CASE cmd.pending = ">" -> [cmd EXCEPT !.out = w, !.pending = ""]
      [] cmd.pending = "<" -> [cmd EXCEPT !.in = w, !.pending = ""]
      [] cmd.pending = "" /\ w \in {<<">">>, <<"<">>} -> [cmd EXCEPT !.pending = w[1]]
      [] OTHER -> [cmd EXCEPT !.args = Append(@, w)]

\* While something is pending, be it the file name of a redirection or the other
\* quote, a command has no tokens at all, not even the final NULL.
NoCommand == [bg |-> FALSE, args |-> <<>>, in |-> <<>>, out |-> <<>>, pending |-> ""]
Checked(cmd) ==
    [bg |-> FALSE, ok |-> cmd.pending = "", in |-> cmd.in, out |-> cmd.out,
     args |-> IF cmd.pending = "" THEN cmd.args ELSE <<>>]
Unquoted(read) ==
    Checked(IF read.quote # "" THEN [NoCommand EXCEPT !.pending = read.quote]
            ELSE FoldLeft(Redirect, NoCommand, read.words))
tokenizeCommand(s) == Unquoted(Words(s))

-----------------------------------------------------------------------------
(* One line.                                                               *)

Background(s) == s # <<>> /\ Last(s) = "&"

\* parseCommand on a piece that is no pipe: an "&" at its very end is taken off.
Stage(s) ==
    IF Background(s) THEN [tokenizeCommand(Front(s)) EXCEPT !.bg = TRUE] ELSE tokenizeCommand(s)

\* parseCommand on the stages of a pipe, or on a single one.
Each(pieces) == [i \in DOMAIN pieces |-> Stage(pieces[i])]
Stages(s) == Each(IF Has(s, "|") THEN splitPipe(s) ELSE <<s>>)

\* A pipe reads what its first stage and writes what its last stage redirects.
Pipe(stages, bg) ==
    [stages |-> [i \in DOMAIN stages |-> [stages[i] EXCEPT !.bg = @ \/ bg]],
     in |-> stages[1].in, out |-> Last(stages).out]

\* Mutant of Pipeline: the stages of a background pipe stay in the foreground.
PipelineForeground(s) == Pipe(Stages(IF Background(s) THEN Front(s) ELSE s), FALSE)

\* parseCommand on a piece without an "&" inside.
Pipeline(s) == Pipe(Stages(IF Background(s) THEN Front(s) ELSE s), Background(s))

\* parseCommand on a line.  What it returns for the parts of a composite or of a
\* pipe is not looked at, so only a single command can be refused.
Composite(pieces) == [ok |-> TRUE, jobs |-> [i \in DOMAIN pieces |-> Pipeline(pieces[i])]]
Single(s, job) == [ok |-> Has(s, "|") \/ job.stages[1].ok, jobs |-> <<job>>]
Parsed(s, pieces) == IF Len(pieces) > 1 THEN Composite(pieces) ELSE Single(s, Pipeline(s))
parseCommand(s) == Parsed(s, splitAmpersand(s, "&"))

-----------------------------------------------------------------------------
(* The list of a multiwatch.                                               *)

\* Mutant of Unquote: the comma is not taken off.
UnquoteComma(s, last) == SubSeq(s, 2, Len(s) - 1)

\* A piece without its quotes and its comma; s.substr with a negative length
\* goes to the end of s.
Unquote(s, last) ==
    IF s = last
    THEN SubSeq(s, 2, IF Len(s) < 2 THEN Len(s) ELSE Len(s) - 1)
    ELSE SubSeq(s, 2, IF Len(s) < 3 THEN Len(s) ELSE Len(s) - 2)

\* A watched command is marked as one for the background, which says nothing
\* to the stages of a pipe or the jobs of a composite.
InBackground(cmd, s) ==
    IF Has(s, "|") \/ Len(cmd.jobs) > 1 THEN cmd ELSE [cmd EXCEPT !.jobs[1].stages[1].bg = TRUE]
Watched(s) == InBackground(parseCommand(s), s)

\* A command that does not parse is skipped with a warning.
WatchAll(pieces) ==
    IF \A i \in DOMAIN pieces : pieces[i][1] = "\"" \/ Last(pieces[i]) = "\""
    THEN [ok |-> TRUE,
          watched |-> SelectSeq([i \in DOMAIN pieces |-> Watched(Unquote(pieces[i], Last(pieces)))],
                                LAMBDA c : c.ok)]
    ELSE [ok |-> FALSE, watched |-> <<>>]

\* The commands of a multiwatch line, or ok = FALSE.
parseWatched(s) ==
    LET At(c) == {i \in DOMAIN s : s[i] = c}
    IN  IF \E i, j \in DOMAIN s : i < j /\ At("[") = {i} /\ At("]") = {j}
        THEN WatchAll(splitAmpersand(SubSeq(s, SelectInSeq(s, LAMBDA c : c = "[") + 1,
                                               SelectInSeq(s, LAMBDA c : c = "]") - 1), ","))
        ELSE [ok |-> FALSE, watched |-> <<>>]
=============================================================================
