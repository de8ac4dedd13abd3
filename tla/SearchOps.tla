------------------------------ MODULE SearchOps ------------------------------
(***************************************************************************)
(* The searches an index is asked for: include/index/index_search_ops.hpp  *)
(* and the generated table of the operators.                               *)
(*                                                                         *)
(* A MEOS search INDEX_LEFT, INDEX_OVERABOVE, INDEX_CONTAINS, ... is the   *)
(* pair of the axis it compares along and of the relation of the box of a  *)
(* row to the query box there.  The names of the functions that back an    *)
(* operator have the entries of that operator and are left out.            *)
(***************************************************************************)
EXTENDS Integers

Axes == {"horizontal", "vertical", "depth", "time"}

\* The operators that order along an axis: strictly before, not after,
\* strictly after and not before the query.
Ordering ==
    [horizontal |-> [before |-> "<<",  notAfter |-> "&<",  after |-> ">>",  notBefore |-> "&>"],
     vertical   |-> [before |-> "<<|", notAfter |-> "&<|", after |-> "|>>", notBefore |-> "|&>"],
     depth      |-> [before |-> "<</", notAfter |-> "&</", after |-> "/>>", notBefore |-> "/&>"],
     time       |-> [before |-> "<<#", notAfter |-> "&<#", after |-> "#>>", notBefore |-> "#&>"]]

Extent == [overlaps |-> "&&", contains |-> "@>", contained |-> "<@", same |-> "~=",
           adjacent |-> "-|-"]

\* The relation of `query <name> column` that the table gives an operator of
\* this relation, which holds of the box of the column; the orderings "not
\* after" and "not before" have none.
Commuted ==
    [before |-> "after", after |-> "before", overlaps |-> "overlaps",
     contains |-> "contained", contained |-> "contains", same |-> "same",
     adjacent |-> "adjacent"]

INDEX_OPERATORS ==
    {[name |-> Extent[r], axis |-> "extent", relation |-> r] : r \in DOMAIN Extent}
    \union UNION {{[name |-> Ordering[a][r], axis |-> a, relation |-> r] :
                       r \in DOMAIN Ordering[a]} : a \in Axes}

IndexSearchAxis(entry) == entry.axis

IndexBboxHasAxis(bbox_type, axis) ==
    \/ axis = "extent"
    \/ bbox_type = "T_STBOX"
    \/ bbox_type = "T_TBOX" /\ axis \in {"horizontal", "time"}
    \/ bbox_type = "T_TSTZSPAN" /\ axis = "time"
    \/ bbox_type = "T_INTSPAN" /\ axis = "horizontal"

Answered(name, bbox_type) ==
    {entry \in INDEX_OPERATORS :
        entry.name = name /\ IndexBboxHasAxis(bbox_type, IndexSearchAxis(entry))}

IndexOperatorNames(bbox_type) ==
    {entry.name : entry \in {e \in INDEX_OPERATORS : IndexBboxHasAxis(bbox_type, IndexSearchAxis(e))}}

\* Mutant: the search ignores which operand is the query.
DirectAlways(name, bbox_type, query_on_left) == Answered(name, bbox_type)

\* The search, as a set of at most one.
IndexSearchOpFromName(name, bbox_type, query_on_left) ==
    IF query_on_left
    THEN {[entry EXCEPT !.relation = Commuted[@]] :
             entry \in {e \in Answered(name, bbox_type) : e.relation \in DOMAIN Commuted}}
    ELSE Answered(name, bbox_type)

-----------------------------------------------------------------------------
(* What MEOS answers for a search, and for an operator.                    *)

\* Intervals <<first, last>>, closed at both ends.
Compare(relation, i, j) ==
    CASE relation = "before"    -> i[2] < j[1]
      [] relation = "notAfter"  -> i[2] <= j[2]
      [] relation = "after"     -> i[1] > j[2]
      [] relation = "notBefore" -> i[1] >= j[1]
      [] relation = "overlaps"  -> i[1] <= j[2] /\ j[1] <= i[2]
      [] relation = "contains"  -> i[1] <= j[1] /\ j[2] <= i[2]
      [] relation = "contained" -> j[1] <= i[1] /\ i[2] <= j[2]
      [] relation = "same"      -> i = j

\* A box is adjacent to one that it only touches: along some axis.
Touches(b, c) == \E a \in DOMAIN b : b[a][2] = c[a][1] \/ c[a][2] = b[a][1]

\* The relation of box b to box c along an axis, or in their whole extent.
Related(axis, relation, b, c) ==
    IF axis # "extent" THEN Compare(relation, b[axis], c[axis])
    ELSE IF relation = "adjacent"
    THEN Touches(b, c) /\ \A a \in DOMAIN b : Compare("overlaps", b[a], c[a])
    ELSE \A a \in DOMAIN b : Compare(relation, b[a], c[a])

\* `b <name> c` of two boxes, as a scan evaluates it.
Holds(name, b, c) ==
    \E entry \in INDEX_OPERATORS : entry.name = name /\ Related(entry.axis, entry.relation, b, c)

\* What an index answers for the box of a row.
Searched(search, box, query) == Related(search.axis, search.relation, box, query)
=============================================================================
