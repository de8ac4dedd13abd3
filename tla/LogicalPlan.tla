----------------------------- MODULE LogicalPlan -----------------------------
(***************************************************************************)
(* The part of the engine's logical plan that the optimizers of the index  *)
(* read and rewrite: gets over a table, with the columns they read and the *)
(* filters pushed into them, and what rows a get answers.                  *)
(*                                                                         *)
(* A column is its logical id, the position of its declaration.  A get     *)
(* reads a sequence of columns; bindings, and the entries of its           *)
(* projection, are positions in that sequence.  An empty projection emits  *)
(* every column read.  A value is its bounding box, here one in space and  *)
(* time; the row id is a column of its own that no index covers.           *)
(***************************************************************************)
EXTENDS SearchOps, Sequences, FiniteSets

CONSTANTS
    Columns,  \* how many columns a table has
    Boxes     \* the boxes that values and queries have

ASSUME ColumnsAssumption == Columns \in Nat \ {0}
ASSUME BoxesAssumption   == Boxes \subseteq [Axes -> Int \X Int]

Column == 0 .. Columns - 1
RowId  == -1
Row    == [Column -> Boxes]

\* The types of index: the R-tree's and the SP-tree's.
IndexTypes == {"TRTREE", "TSPTREE"}

\* A table: its generated columns, which are computed when they are read, and
\* the column and type of each of its indexes in the order of their creation.
Physical(table, c) == Cardinality({d \in 0 .. c - 1 : d \notin table.generated})

\* GetColumnIds of an index is what CREATE INDEX gave it.
IndexColumnId(table, k) == Physical(table, table.indexes[k].column)

BboxType == "T_STBOX"

-----------------------------------------------------------------------------
(* Filters.                                                                *)

\* A value computed from a column, as expandSpace(column, 1).
Derived(box) == [box EXCEPT !["horizontal"] = <<@[1] - 1, @[2] + 1>>]

\* An expression filter is an operator over its column, or a value computed
\* from it, and a constant, or a value computed from the column as well
\* (constant = "none").  A constant is a "box", a "value" that is stored like one,
\* as a temporal value is, a "timestamp" or of some "other" type; its box is query.
\* The other filters, comparisons and null tests, are an arbitrary test.
Operand(filter, box) == IF filter.operand = "computed" THEN Derived(box) ELSE box
Query(filter, box)   == IF filter.constant = "none" THEN Derived(box) ELSE filter.query

Satisfies(filter, box) ==
    IF filter.kind = "comparison" THEN box = filter.query
    ELSE IF filter.query_on_left
    THEN Holds(filter.name, Query(filter, box), Operand(filter, box))
    ELSE Holds(filter.name, Operand(filter, box), Query(filter, box))

-----------------------------------------------------------------------------
(* Gets.                                                                   *)

PositionOf(get, c) == CHOOSE i \in DOMAIN get.columns : get.columns[i] = c
Reads(get, c)      == \E i \in DOMAIN get.columns : get.columns[i] = c

\* The positions a get emits, in the order of the columns of its chunks.
Emitted(get) ==
    IF get.projection = <<>> THEN [i \in DOMAIN get.columns |-> i] ELSE get.projection

\* A sequential scan evaluates its filters; the scan of an index answers the
\* search alone, over the boxes of the column the index was built on.
Passes(get, row) ==
    IF get.function = "seq_scan"
    THEN \A c \in DOMAIN get.filters : Satisfies(get.filters[c], row[c])
    ELSE Searched(get.bind_data.search, row[get.bind_data.column], get.bind_data.query)

\* A get with the filter above it, which evaluates the filters moved into it
\* over the columns the get emits and emits those that projection_map names.
Bare(get) == [get |-> get, residual |-> {}, projection_map |-> <<>>]

SideEmits(side) ==
    IF side.projection_map = <<>> THEN Emitted(side.get)
    ELSE [i \in DOMAIN side.projection_map |-> Emitted(side.get)[side.projection_map[i]]]

SidePasses(side, row) ==
    /\ Passes(side.get, row)
    /\ \A f \in side.residual :
           Satisfies(f.filter, row[side.get.columns[f.position]])
=============================================================================
