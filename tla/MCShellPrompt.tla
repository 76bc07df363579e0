--------------------------- MODULE MCShellPrompt ---------------------------
(* Lines and directories for TLC, and the bounded inputs on which the pure   *)
(* operators are compared with their references.                             *)
EXTENDS ShellPrompt

MCLexeme == {"ls", "cd", "d", "1", "2", " ", "exit"}
MCDirs == {<<"d", "1">>, <<"d", "2">>}
MCTyped == {<<"ls">>, <<"cd", " ", "d">>, <<" ">>, <<"exit">>}

-----------------------------------------------------------------------------
(* Beside the states of the prompt there is a state for each bounded input of *)
(* a pure operator; its properties compare the operator with its reference.   *)

VARIABLE input

SeqsUpTo(S, n) == UNION {[1 .. k -> S] : k \in 0 .. n}

Strings == SeqsUpTo({"a", " ", "&", "|", ">", "<", "'", "\""}, 4)
WatchLists == SeqsUpTo(SeqsUpTo({"a", "|", "'", " "}, 2) \ {<<>>}, 3)
Words2 == SeqsUpTo({"a", "b"}, 4)
Searches == [term : Words2, in : SeqsUpTo(Words2 \ {<<>>}, 2)]

Input(operator, S) == [for : {operator}, it : S]
Inputs == Input("parse", Strings) \cup Input("watch", WatchLists) \cup Input("search", Searches)
NoInput == [for |-> "nothing"]

MCInit ==
    /\ Init
    /\ \/ input = NoInput
       \/ input \in Inputs /\ cwd = CHOOSE d \in Dirs : TRUE
Prompt == input = NoInput /\ Next /\ UNCHANGED input
Compared == input # NoInput /\ UNCHANGED <<vars, input>>
MCSpec == MCInit /\ [][Prompt \/ Compared]_<<vars, input>>

-----------------------------------------------------------------------------
\* The one line that is read differently (parseCommand drops the result of trim
\* at line 624): after an "&" that blanks follow, and no other, the job is run
\* in the foreground with "&" as a word, or only its last stage is not.
BlankAfterAmpersand(l) ==
    Last(l) = " " /\ Last(trim(l)) = "&" /\ Cardinality({i \in DOMAIN l : l[i] = "&"}) = 1

\* parseCommand finds the jobs, stages, words and redirections that the grammar
\* gives every line: no lexeme is lost, no word is split or joined, whatever
\* separators and quotes stand next to each other.
ParsesLikeGrammar ==
    input.for = "parse" =>
        \/ IsBlank(input.it) \/ BlankAfterAmpersand(input.it)
        \/ parseCommand(input.it) = Grammar(input.it)

\* The text of a multiwatch of the commands cs.
Watch(cs) ==
    LET Item(i) == <<"\"">> \o cs[i] \o <<"\"">> \o (IF i < Len(cs) THEN <<",", " ">> ELSE <<>>)
    IN  <<"multiwatch", " ", "[">> \o FlattenSeq([i \in DOMAIN cs |-> Item(i)]) \o <<"]">>

\* A multiwatch watches the commands that were written, in their order; those
\* that do not parse are left out, and nothing else.
WatchListRead ==
    input.for = "watch" =>
        LET cs == input.it
            parsed == [i \in DOMAIN cs |-> InBackground(parseCommand(cs[i]), cs[i])]
        IN  parseWatched(Watch(cs)) =
                [ok |-> TRUE, watched |-> SelectSeq(parsed, LAMBDA c : c.ok)]

\* The longest stretch that two lines have in common, by definition.
Common(X, Y) == Max({Len(s) : s \in SubSeqs(X) \cap SubSeqs(Y)})

\* A search shows the entries that stand in the search term as a whole, and
\* those with the longest stretch in common with it if it is longer than two.
SearchFinds ==
    input.for = "search" =>
        LET term == input.it.term
            shown == Range(input.it.in)
            Longest(e) == \A o \in shown : Common(term, e) >= Common(term, o)
        IN  searchHistory(term, input.it.in) =
                {e \in shown : e \in SubSeqs(term) \/ (Longest(e) /\ Common(term, e) > 2)}
=============================================================================
