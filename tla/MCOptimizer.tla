----------------------------- MODULE MCOptimizer -----------------------------
(* Small instances of Optimizer for TLC.                                     *)
EXTENDS Optimizer

Whole4 == [a \in Axes |-> <<1, 2>>]

\* Boxes that differ from the whole along one axis at most, so that searches
\* along different axes differ.
ThinBoxes ==
    {Whole4, [Whole4 EXCEPT !["horizontal"] = <<1, 1>>], [Whole4 EXCEPT !["horizontal"] = <<2, 2>>],
     [Whole4 EXCEPT !["time"] = <<1, 1>>]}

TestQueries == {Whole4, [Whole4 EXCEPT !["horizontal"] = <<1, 1>>]}

\* The bytes of another type, taken for a box that is far from its own.
TestMisread == [q \in TestQueries |-> [a \in Axes |-> <<5, 6>>]]

On(c, t) == [column |-> c, type |-> t]

\* No index, one of either type on either column, and tables with two.
TestIndexes ==
    {<<>>} \union {<<On(c, t)>> : c \in {0, 1}, t \in IndexTypes}
    \union {<<On(1, "TRTREE"), On(0, "TRTREE")>>, <<On(0, "TSPTREE"), On(1, "TRTREE")>>}
=============================================================================
