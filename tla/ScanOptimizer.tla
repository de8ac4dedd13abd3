---------------------------- MODULE ScanOptimizer ----------------------------
(***************************************************************************)
(* TRTreeIndexScanOptimizer of rtree_optimize_scan.cpp, and the SP-tree's  *)
(* in sptree_optimize_scan.cpp, which differs in the type of index alone:  *)
(* a pushed-down predicate, or an ascending distance with a limit, is      *)
(* answered by an index.                                                   *)
(***************************************************************************)
EXTENDS LogicalPlan, SequencesExt

CONSTANT Misread \* the box that the bytes of a constant of another type are taken for

-----------------------------------------------------------------------------
(* TryOptimizeLogicalGet.                                                  *)

\* The search an index over column c is asked for: the filter has to be an
\* expression the matcher of the index accepts, which takes an operator by its
\* name, one operand by its type and the other whatever it is, against a constant
\* that has bytes to copy: any BLOB, or a timestamp.
FilterSearch(filter) ==
    IF /\ filter.kind = "expression"
       /\ filter.name \in IndexOperatorNames(BboxType)
       /\ filter.constant \in {"box", "value", "timestamp"}
    THEN IndexSearchOpFromName(filter.name, BboxType, filter.query_on_left)
    ELSE {}

\* An index over boxes takes the bytes for one of its own, whatever they are of.
QueryBox(filter) == IF filter.constant = "box" THEN filter.query ELSE Misread[filter.query]

\* The filters and the indexes that answer them.
FilterMatches(table, get, type) ==
    {m \in (DOMAIN get.filters) \X (DOMAIN table.indexes) :
        /\ table.indexes[m[2]].type = type
        /\ IndexColumnId(table, m[2]) = m[1]
        /\ FilterSearch(get.filters[m[1]]) # {}}

\* Filters come in the order of their columns, indexes in that of creation.
FirstMatch(matches) ==
    CHOOSE m \in matches :
        \A n \in matches : m[1] < n[1] \/ (m[1] = n[1] /\ m[2] <= n[2])

\* Mutant: the other filters stay in the scan that evaluates none.
ResidualLost(get, matched) == {}

\* The filters the index does not answer.
ResidualColumns(get, matched) == DOMAIN get.filters \ {matched}

\* Mutant: the columns read for a filter alone reach the parent.
EmitsAll(get, residual) == <<>>

\* What the filter emits: the columns the get emitted before.
ProjectionMap(get, residual) ==
    IF residual = {} THEN <<>> ELSE [i \in DOMAIN get.projection |-> i]

\* Mutant: the scan forgets the filter it answers.
FilterForgotten(get, matched) == [c \in {} |-> get.filters[c]]

\* The filters that stay with the scan: the one it answers.
KeptFilters(get, matched) == [c \in {matched} |-> get.filters[c]]

\* Mutant: the columns of the filters above are not added.
NotExtended(get, columns) == get.projection

\* The columns of a set, in the order in which their filters come.
Ascending(columns) ==
    CHOOSE s \in [1 .. Cardinality(columns) -> columns] :
        \A i, j \in DOMAIN s : i < j => s[i] < s[j]

\* A column that a filter reads is added to what the get emits.
Extended(get, columns) ==
    IF get.projection = <<>> THEN <<>>
    ELSE LET missing == {c \in columns : PositionOf(get, c) \notin Range(get.projection)}
             sorted  == Ascending(missing)
         IN get.projection \o [i \in DOMAIN sorted |-> PositionOf(get, sorted[i])]

OptimizedGet(table, get, type) ==
    LET m        == FirstMatch(FilterMatches(table, get, type))
        filter   == get.filters[m[1]]
        residual == ResidualColumns(get, m[1])
    IN [get |-> [get EXCEPT
                   !.function = "search",
                   !.filters = KeptFilters(get, m[1]),
                   !.projection = Extended(get, residual),
                   !.bind_data = [column |-> table.indexes[m[2]].column,
                                  search |-> CHOOSE op \in FilterSearch(filter) : TRUE,
                                  query  |-> QueryBox(filter)]],
        residual |-> {[position |-> PositionOf(get, c), filter |-> get.filters[c]] : c \in residual},
        projection_map |-> ProjectionMap(get, residual)]

\* What becomes of a get: itself unless an index of the type answers one of its
\* filters and the others can be read.
TryOptimizeLogicalGet(table, side, type) ==
    IF /\ side.get.function = "seq_scan"
       /\ FilterMatches(table, side.get, type) # {}
       /\ \A c \in DOMAIN side.get.filters : Reads(side.get, c)
    THEN OptimizedGet(table, side.get, type)
    ELSE side

-----------------------------------------------------------------------------
(* TryOptimizeLogicalTopN.                                                 *)

\* An ordering reads a binding of the get, or computes its distance from it;
\* the get is the child of the TopN or one projection below.
OneAscending(top) == Len(top.orders) = 1 /\ ~ top.orders[1].descending /\ top.limit # 0

\* The indexes that measure the distance the TopN orders by.
NearestMatches(table, top, get, type) ==
    {k \in DOMAIN table.indexes :
        /\ table.indexes[k].type = type
        /\ Reads(get, IndexColumnId(table, k))
        /\ ~ top.orders[1].computed
        /\ top.orders[1].position = PositionOf(get, IndexColumnId(table, k))}

\* Mutant: the rows the parent skips are not asked for.
LimitOnly(top) == top.limit

Wanted(top) == top.offset + top.limit

\* Mutant: a get with filters is answered nearest first as well.
AnyGet(get) == get.function = "seq_scan"

PlainGet(get) == get.function = "seq_scan" /\ DOMAIN get.filters = {}

NearestGet(table, top, get, type) ==
    [get EXCEPT
        !.function = "nearest",
        !.bind_data = [column |-> table.indexes[Min(NearestMatches(table, top, get, type))].column,
                       limit  |-> Wanted(top)]]

TryOptimizeLogicalTopN(table, top, get, type) ==
    IF OneAscending(top) /\ PlainGet(get) /\ NearestMatches(table, top, get, type) # {}
    THEN NearestGet(table, top, get, type)
    ELSE get
=============================================================================
