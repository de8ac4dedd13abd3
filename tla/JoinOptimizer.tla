---------------------------- MODULE JoinOptimizer ----------------------------
(***************************************************************************)
(* TRTreeIndexJoinOptimizer of rtree_index_join.cpp, and the SP-tree's in  *)
(* sptree_index_join.cpp: `a.col && b.col` of an inner join answered by an *)
(* index of one side, which the rows of the other side probe.              *)
(*                                                                         *)
(* A join has a type, a condition and, for its condition, the position of  *)
(* the column it reads on each side.                                       *)
(***************************************************************************)
EXTENDS LogicalPlan

\* Only a bare && of two columns qualifies, of two sides that are gets: a
\* filter above a get hides it.  A get that an index scan answers still is one.
GetScan(side) == side.residual = {}

BareOverlap(join) == join.type = "inner" /\ join.condition = "&&"

IsJoinable(join, sides) == BareOverlap(join) /\ GetScan(sides[1]) /\ GetScan(sides[2])

\* The indexes over the column the condition reads, by its storage id.
JoinIndexes(table, get, position, type) ==
    {k \in DOMAIN table.indexes :
        /\ table.indexes[k].type = type
        /\ IndexColumnId(table, k) = Physical(table, get.columns[position])}

\* The side that is indexed stops being a scan, so it may have no filters; its
\* columns are fetched by row id, all of them, so it may not read row ids nor
\* leave a column out.
Fetchable(get) ==
    /\ DOMAIN get.filters = {}
    /\ ~ Reads(get, RowId)
    /\ Len(Emitted(get)) = Len(get.columns)

\* Whether side s can be served by its index.
CanBuild(tables, join, sides, s, type) ==
    /\ Fetchable(sides[s].get)
    /\ JoinIndexes(tables[s], sides[s].get, join.positions[s], type) # {}

\* The index join: the side that is indexed, the column of its index, the
\* column of the probing chunk that holds the query box.
IndexJoin(tables, join, sides, s, type) ==
    LET found == JoinIndexes(tables[s], sides[s].get, join.positions[s], type)
        k     == CHOOSE j \in found : \A i \in found : j <= i
    IN [indexed |-> s, column |-> tables[s].indexes[k].column, probe_column |-> join.positions[3 - s]]

\* TryOptimizeJoin: the side with more estimated rows is tried first.  What
\* becomes of the join, as a set of at most one index join.
TryOptimizeJoin(tables, join, sides, larger, type) ==
    IF ~ IsJoinable(join, sides) THEN {}
    ELSE IF CanBuild(tables, join, sides, larger, type)
    THEN {IndexJoin(tables, join, sides, larger, type)}
    ELSE IF CanBuild(tables, join, sides, 3 - larger, type)
    THEN {IndexJoin(tables, join, sides, 3 - larger, type)}
    ELSE {}

-----------------------------------------------------------------------------
(* What a join answers.                                                    *)

\* The condition of a join with && holds of a row of each side.
Meets(join, gets, rows) ==
    Holds("&&", rows[1][gets[1].columns[join.positions[1]]],
                rows[2][gets[2].columns[join.positions[2]]])

\* The column of the probing side in a place of its chunks.
InChunk(get, i) == get.columns[Emitted(get)[i]]

\* PhysicalRTreeIndexJoin: a row of the probing side meets the rows that the
\* index answers for the value in the probe column of its chunk.
IndexJoinMeets(ij, sides, rows) ==
    LET probe == 3 - ij.indexed IN
    /\ SidePasses(sides[probe], rows[probe])
    /\ ij.probe_column \in DOMAIN Emitted(sides[probe].get)
    /\ Searched([axis |-> "extent", relation |-> "overlaps"],
                rows[ij.indexed][ij.column],
                rows[probe][InChunk(sides[probe].get, ij.probe_column)])
=============================================================================
