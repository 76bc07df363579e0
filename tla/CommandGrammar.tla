--------------------------- MODULE CommandGrammar ---------------------------
(***************************************************************************)
(* What a command line means, stated by positions instead of a scan: the   *)
(* reference that parseCommand is compared with.                           *)
(***************************************************************************)
EXTENDS CommandLine

\* The stretches of s between the separators c, but no blank one at the end.
Stretches(s, cuts) == [k \in 1 .. Len(cuts) - 1 |-> SubSeq(s, cuts[k] + 1, cuts[k + 1] - 1)]
Ascending(S) == SetToSortSeq(S, <)
NoBlankEnd(parts) == IF IsBlank(Last(parts)) THEN Front(parts) ELSE parts
Parts(s, c) ==
    NoBlankEnd(Stretches(s, Ascending({i \in DOMAIN s : s[i] = c} \cup {0, Len(s) + 1})))

\* The quote that is open after each position of s.
Open(s) ==
    LET open[i \in 0 .. Len(s)] ==
            IF i = 0 THEN ""
            ELSE IF s[i] \notin Quotes \/ open[i - 1] \notin {"", s[i]} THEN open[i - 1]
            ELSE IF open[i - 1] = "" THEN s[i] ELSE ""
    IN  open

\* The words of s: its longest stretches without a blank outside quotes.
Solid(s, open) == {i \in DOMAIN s : s[i] # Blank \/ open[i - 1] # ""}
Chunks(s, first, last) == [k \in DOMAIN first |-> SubSeq(s, first[k], last[k])]
WordsAt(s, S) == Chunks(s, Ascending({i \in S : i - 1 \notin S}), Ascending({i \in S : i + 1 \notin S}))
GrammarWords(s) == WordsAt(s, Solid(s, Open(s)))

\* Which words of w redirect: those that look so, unless they are the file name
\* of another.
Redirects(w) ==
    LET redirects[k \in 0 .. Len(w)] ==
            k > 0 /\ w[k] \in {<<">">>, <<"<">>} /\ ~redirects[k - 1]
    IN  redirects

\* The file name of the last redirection c, and the words in the other places.
FileAt(w, at) == IF at = {} THEN <<>> ELSE w[CHOOSE k \in at : \A l \in at : l <= k]
File(w, r, c) == FileAt(w, {k \in 2 .. Len(w) : r[k - 1] /\ w[k - 1] = <<c>>})
WordsIn(w, at) == [n \in DOMAIN at |-> w[at[n]]]
Args(w, r) == WordsIn(w, Ascending({k \in DOMAIN w : ~r[k] /\ ~r[k - 1]}))

Refused(bg) == [bg |-> bg, ok |-> FALSE, in |-> <<>>, out |-> <<>>, args |-> <<>>]
Redirected(w, r, bg) ==
    [bg |-> bg, ok |-> ~r[Len(w)], in |-> File(w, r, "<"), out |-> File(w, r, ">"),
     args |-> IF r[Len(w)] THEN <<>> ELSE Args(w, r)]
StageOf(w, bg) == Redirected(w, Redirects(w), bg)
GrammarStage(s, bg) == IF Open(s)[Len(s)] # "" THEN Refused(bg) ELSE StageOf(GrammarWords(s), bg)

PipeOf(stages) == [stages |-> stages, in |-> stages[1].in, out |-> Last(stages).out]
StagesOf(pieces, bg) == PipeOf([i \in DOMAIN pieces |-> GrammarStage(pieces[i], bg)])
GrammarPipeline(s, bg) == StagesOf(IF Has(s, "|") THEN Parts(s, "|") ELSE <<s>>, bg)

\* Every job that ends with an "&" runs in the background.
Jobs(s, pieces) ==
    [k \in DOMAIN pieces |-> GrammarPipeline(pieces[k], k <= Cardinality({i \in DOMAIN s : s[i] = "&"}))]
Meaning(s, jobs) == [jobs |-> jobs, ok |-> Len(jobs) > 1 \/ Has(s, "|") \/ jobs[1].stages[1].ok]
Grammar(s) == Meaning(s, Jobs(s, Parts(s, "&")))
=============================================================================
