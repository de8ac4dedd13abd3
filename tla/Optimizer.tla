------------------------------ MODULE Optimizer ------------------------------
(***************************************************************************)
(* The optimizers of the two types of index over one query, in the order   *)
(* in which the extension registers them: the R-tree's scan optimizer      *)
(* visits the nodes of the plan from its root, its join optimizer finds    *)
(* the gets as the first one left them, and the SP-tree's two follow over  *)
(* what has become of the plan.                                            *)
(***************************************************************************)
EXTENDS ScanOptimizer, JoinOptimizer

CONSTANTS
    Names,    \* the operators of the filters
    Queries,  \* the constant boxes of the filters
    Indexes,  \* the indexes that a table may have, in the order of creation
    Distance, \* the distances of values from the constant of an ordering
    Ranks,    \* how many rows a table has that have a distance
    Limit,    \* bound on LIMIT and on OFFSET
    Shapes    \* what else queries and tables may be, see below

ASSUME QueriesAssumption == Queries # {} /\ Queries \subseteq [Axes -> Int \X Int]
ASSUME IndexesAssumption == Indexes \subseteq Seq([column : Column, type : IndexTypes])
ASSUME NearestAssumption == Distance \subseteq Int /\ Ranks \in Nat /\ Limit \in Nat
ASSUME MisreadAssumption == Misread \in [Queries -> [Axes -> Int \X Int]]
ASSUME ShapesAssumption  ==
    Shapes \subseteq {"computed", "generated", "misread", "pruned probe"}

VARIABLES
    tables, \* the table of each get
    query,  \* the gets as they were, and the TopN or the join over them
    nodes,  \* the nodes a scan optimizer has not visited
    sides,  \* the gets as they are
    joined, \* the index join, if the join has become one
    running \* the optimizer that runs

vars == <<tables, query, nodes, sides, joined, running>>

-----------------------------------------------------------------------------
(* Queries.                                                                *)

Increasing(n) == {s \in UNION {[1 .. k -> 1 .. n] : k \in 1 .. n - 1} :
                     \A i, j \in DOMAIN s : i < j => s[i] < s[j]}

\* A generated column precedes the indexes' columns only where the run says so.
Tables ==
    {[generated |-> g, indexes |-> i] :
        g \in {{}} \union (IF "generated" \in Shapes THEN {{0}} ELSE {}),
        i \in {s \in Indexes :
                 \A j \in DOMAIN s : s[j].column # 0 \/ "generated" \notin Shapes}}

Comparison == [kind |-> "comparison", query |-> CHOOSE b \in Queries : TRUE]

Expressions ==
    [kind : {"expression"}, name : Names, query_on_left : BOOLEAN,
     operand : {"column"} \union (IF "computed" \in Shapes THEN {"computed"} ELSE {}),
     constant : {"none", "box", "other"}
                \union (IF "misread" \in Shapes THEN {"value", "timestamp"} ELSE {}),
     query : Queries]

\* What a table's gets read: one or two of its columns, none of them generated,
\* and the row id.
Reading(table) ==
    LET ids == (Column \ table.generated) \union {RowId}
    IN {<<c>> : c \in ids} \union {s \in ids \X ids : s[1] # s[2]}

\* The projection leaves out columns that only filters read.
Projections(columns, filtered) ==
    {<<>>} \union {p \in Increasing(Len(columns)) :
                     \A i \in DOMAIN columns : columns[i] \notin filtered => i \in Range(p)}

\* The gets with up to n filters, an expression or a comparison per column.
Gets(table, expression, n) ==
    UNION {UNION {
        {[function |-> "seq_scan", columns |-> cols, projection |-> p, filters |-> f,
          bind_data |-> {}] :
             p \in Projections(cols, filtered), f \in [filtered -> {expression, Comparison}]} :
        filtered \in {s \in SUBSET (Range(cols) \ {RowId}) : Cardinality(s) <= n}} :
        cols \in Reading(table)}

Orders(get) ==
    LET keys == [position : DOMAIN get.columns, computed : BOOLEAN, descending : BOOLEAN]
        key  == {k \in keys : get.columns[k.position] # RowId}
    IN {<<k>> : k \in key} \union {<<k, [k EXCEPT !.computed = TRUE]>> : k \in key}

Tops(get) == [orders : Orders(get), limit : 0 .. Limit, offset : 0 .. Limit]

\* The columns that a join's condition may read: the get emits them.
Joinable(get) == {i \in Range(Emitted(get)) : get.columns[i] # RowId}

Joins(gets) ==
    {j \in [type : {"inner", "left"}, condition : {"&&", "&& and more"},
            positions : Joinable(gets[1]) \X Joinable(gets[2])] :
        j.type = "left" => j.condition = "&&"}

\* The one expression of the joins, and of the gets below a TopN.
Overlap == [kind |-> "expression", name |-> "&&", query_on_left |-> FALSE,
            operand |-> "column", constant |-> "box", query |-> CHOOSE b \in Queries : TRUE]

\* Where the probe may be pruned, a position is not a place in its chunks.
Whole(get) == "pruned probe" \in Shapes \/ get.projection = <<>>

-----------------------------------------------------------------------------
(* The plan of a query.                                                    *)

Optimizers ==
    <<[type |-> "TRTREE",  of |-> "scan"], [type |-> "TRTREE",  of |-> "join"],
      [type |-> "TSPTREE", of |-> "scan"], [type |-> "TSPTREE", of |-> "join"]>>

Runs(what) == running \in DOMAIN Optimizers /\ Optimizers[running].of = what
Type       == Optimizers[running].type

\* The TopN, 0, and the gets that a plan is made of, from its root.  The side
\* that an index join reads by its index is none of its children.
Plan(q, joins) ==
    CASE q.kind = "select" -> <<1>>
      [] q.kind = "topn"   -> <<0, 1>>
      [] q.kind = "join"   -> IF joins = {} THEN <<1, 2>>
                              ELSE <<3 - (CHOOSE ij \in joins : TRUE).indexed>>

Init ==
    /\ \/ \E t \in Tables, e \in Expressions : \E g \in Gets(t, e, Columns) :
            /\ tables = <<t>>
            /\ query = [kind |-> "select", gets |-> <<g>>]
       \/ \E t \in Tables : \E g \in Gets(t, Overlap, 1) : \E top \in Tops(g) :
            /\ tables = <<t>>
            /\ query = [kind |-> "topn", gets |-> <<g>>, top |-> top]
       \/ \E t, u \in Tables : \E g \in Gets(t, Overlap, 1), h \in Gets(u, Overlap, 1) :
          \E j \in Joins(<<g, h>>) :
            /\ Whole(g) /\ Whole(h)
            /\ tables = <<t, u>>
            /\ query = [kind |-> "join", gets |-> <<g, h>>, join |-> j]
    /\ nodes = Plan(query, {})
    /\ sides = [s \in DOMAIN query.gets |-> Bare(query.gets[s])]
    /\ joined = {} /\ running = 1

-----------------------------------------------------------------------------
(* Optimize of each optimizer.                                             *)

\* An optimizer that has visited its last node is followed by the next.
Visited(left) ==
    IF left # <<>> THEN nodes' = left /\ UNCHANGED running
    ELSE nodes' = Plan(query, joined') /\ running' = running + 1

VisitTopN ==
    /\ Runs("scan") /\ Head(nodes) = 0
    /\ sides' = [sides EXCEPT ![1].get = TryOptimizeLogicalTopN(tables[1], query.top, @, Type)]
    /\ UNCHANGED <<tables, query, joined>>
    /\ Visited(Tail(nodes))

VisitGet ==
    /\ Runs("scan") /\ Head(nodes) # 0
    /\ LET s == Head(nodes) IN
       sides' = [sides EXCEPT ![s] = TryOptimizeLogicalGet(tables[s], @, Type)]
    /\ UNCHANGED <<tables, query, joined>>
    /\ Visited(Tail(nodes))

\* Either side may be the one with more rows.
VisitJoin ==
    /\ Runs("join") /\ query.kind = "join" /\ joined = {}
    /\ \E larger \in {1, 2} :
           joined' = TryOptimizeJoin(tables, query.join, sides, larger, Type)
    /\ UNCHANGED <<tables, query, sides>>
    /\ Visited(<<>>)

\* There is no join in the plan, or no longer.
NoJoin ==
    /\ Runs("join") /\ (query.kind = "join" => joined # {})
    /\ UNCHANGED <<tables, query, sides, joined>>
    /\ Visited(<<>>)

Done == running > Len(Optimizers) /\ UNCHANGED vars

Next == VisitTopN \/ VisitGet \/ VisitJoin \/ NoJoin \/ Done

Spec == Init /\ [][Next]_vars

-----------------------------------------------------------------------------
(* Properties                                                              *)

\* What the plan is made of; a filter above a get reads what the get emits.
TypeOK ==
    /\ running \in 1 .. Len(Optimizers) + 1
    /\ nodes \in Seq({0, 1, 2}) \ {<<>>}
    /\ DOMAIN sides = DOMAIN query.gets
    /\ Cardinality(joined) <= 1
    /\ \A s \in DOMAIN sides :
         /\ sides[s].get.function \in {"seq_scan", "search", "nearest"}
         /\ Range(sides[s].projection_map) \subseteq DOMAIN Emitted(sides[s].get)
         /\ \A f \in sides[s].residual : f.position \in Range(Emitted(sides[s].get))

\* A get and the filter above it answer the rows the query's get answers, for any
\* filters, indexes and operand orders, over an operand and a constant that are
\* what the index takes them for (TryOptimizeLogicalGet).
RowsOfQuery ==
    \A s \in DOMAIN sides : sides[s].get.function = "search" =>
        \A row \in Row : SidePasses(sides[s], row) <=> Passes(query.gets[s], row)

\* They emit the columns the query's get emits, the ones a filter had to read
\* above it left out again (TryOptimizeLogicalGet).
ColumnsOfQuery ==
    \A s \in DOMAIN sides : SideEmits(sides[s]) = Emitted(query.gets[s])

\* An index join answers the pairs of rows that the nested loop join of the
\* query's own gets does: no filter of either side is lost, whichever optimizer
\* takes it before the join or after it (TryBuild).
PairsOfQuery ==
    \A ij \in joined : \A rows \in Row \X Row :
        IndexJoinMeets(ij, sides, rows) <=>
            /\ Passes(query.gets[1], rows[1]) /\ Passes(query.gets[2], rows[2])
            /\ Meets(query.join, query.gets, rows)

Ranked == 1 .. Ranks

\* The distance at a place of rows in the order of their distances.
DistanceAt(rows, distance, i) ==
    {d \in Distance :
        /\ Cardinality({r \in rows : distance[r] < d}) < i
        /\ i <= Cardinality({r \in rows : distance[r] <= d})}

\* What the index may answer for k rows.
NearestRows(distance, k) ==
    {n \in SUBSET Ranked :
        /\ Cardinality(n) = Min({k, Cardinality(Ranked)})
        /\ \A r \in n, q \in Ranked \ n : distance[r] <= distance[q]}

\* A TopN that is answered nearest first gets the index of the column whose
\* distance it orders by, and over the rows the index proves nearest it answers
\* the distances that it answers over the whole table, for any rows of it that
\* pass the query's filters (TryOptimizeLogicalTopN).
NearestEnough ==
    LET get == sides[1].get
        own == query.gets[1]
    IN query.kind = "topn" /\ get.function = "nearest" =>
        /\ get.bind_data.column = own.columns[query.top.orders[1].position]
        /\ \A distance \in [Ranked -> Distance] :
           \A passing \in IF DOMAIN own.filters = {} THEN {Ranked} ELSE SUBSET Ranked :
           \A n \in NearestRows(distance, get.bind_data.limit) :
           \A i \in query.top.offset + 1 .. query.top.offset + query.top.limit :
               DistanceAt(n, distance, i) = DistanceAt(passing, distance, i)
=============================================================================
