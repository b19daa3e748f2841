------------------------------ MODULE MCCanonical ------------------------------
(* Instance of Canonical for TLC: files of up to three rows over two items    *)
(* and two times; at most one of the rows has a value that is not valid, and  *)
(* of three the last weighs nothing, so that merging can lose all weight.     *)
(* Targets are multiples of six, so that a mean of up to three is exact.      *)
EXTENDS Canonical

Row(times, targets, marks) ==
    {[item |-> i, time |-> t, target |-> y, weight |-> m[1], attribute |-> m[2]] :
        i \in {1, 2}, t \in times, y \in targets, m \in marks}

\* Weight and attribute of a row.
Marks == {<<0, "a">>, <<1, "a">>, <<1, "b">>}

Weighed == {<<0, "a">>, <<1, "a">>}

Valid == Row({1, 2}, {-6, 12, Null}, Marks)
Invalid ==
    Row({1, Null}, {12, NaN}, {<<1, "a">>}) \cup Row({1}, {12}, {<<-1, "a">>, <<Null, "a">>})

SmallTables ==
    {<< >>} \cup {<<a>> : a \in Valid \cup Invalid}
        \cup {<<a, b>> : a \in Valid, b \in Valid \cup Invalid}
        \cup {<<a, b, c>> :
                a \in Row({1}, {-6, 12, Null}, {<<1, "a">>}), b \in Row({1, 2}, {-6, 12, Null}, Weighed),
                c \in Row({1, 2}, {12, Null}, {<<0, "a">>})}

=============================================================================
