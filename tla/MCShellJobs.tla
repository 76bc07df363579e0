---- MODULE MCShellJobs ----
\* Values for TLC.
EXTENDS ShellJobs
One(b, m, f, r) == [bg |-> b, mw |-> m, fills |-> f, reads |-> r]
CommandLines ==
    {<<One(FALSE, FALSE, FALSE, FALSE)>>,                                    \* a
     <<One(TRUE, FALSE, FALSE, FALSE)>>,                                     \* a &
     <<One(FALSE, FALSE, TRUE, FALSE), One(FALSE, FALSE, FALSE, TRUE)>>,     \* a | b
     <<One(TRUE, FALSE, TRUE, FALSE), One(TRUE, FALSE, FALSE, TRUE)>>,       \* a | b &
     <<One(TRUE, FALSE, FALSE, FALSE), One(FALSE, FALSE, FALSE, FALSE)>>,    \* a & b
     <<One(FALSE, TRUE, FALSE, FALSE)>>}                                     \* multiwatch [...]
====
