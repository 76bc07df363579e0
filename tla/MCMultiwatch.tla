---- MODULE MCMultiwatch ----
\* Values for TLC.
EXTENDS Multiwatch
One(b, o) == [bg |-> b, out |-> o]
Text == {"text"}
Any  == {"text", "zero"}
Lists ==
    {<<>>,                                                 \* multiwatch []
     << <<One(TRUE, Text)>>, <<One(TRUE, Text)>> >>,       \* ["a", "b"]
     << <<One(FALSE, {}), One(FALSE, Any)>> >>,            \* ["a | b"]
     << <<One(TRUE, Any), One(FALSE, Any)>> >>}            \* ["a & b"]
====
