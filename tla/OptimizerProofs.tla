--------------------------- MODULE OptimizerProofs ---------------------------
(***************************************************************************)
(* The search an index is asked for answers the predicate, in the operand  *)
(* order it was written in; a get that an index answers keeps the rows and *)
(* the columns of the query, one that answers nearest first the distances, *)
(* and an index join the pairs, for any number of columns, indexes and     *)
(* filters and for any boxes.                                              *)
(***************************************************************************)
EXTENDS Optimizer, FunctionTheorems, FiniteSetTheorems, WellFoundedInduction, TLAPS

-----------------------------------------------------------------------------
(* The search of an operator.                                              *)

Interval == Int \X Int
Box      == [Axes -> Interval]

\* A commuted relation is the converse of the relation.
LEMMA CompareConverse ==
    ASSUME NEW r \in DOMAIN Commuted, r # "adjacent", NEW i \in Interval, NEW j \in Interval
    PROVE  Compare(Commuted[r], i, j) <=> Compare(r, j, i)
<1>1. r \in {"before", "after", "overlaps", "contains", "contained", "same"}
  BY DEF Commuted
<1>2. CASE r = "before"
  BY <1>2 DEF Commuted, Compare, Interval
<1>3. CASE r = "after"
  BY <1>3 DEF Commuted, Compare, Interval
<1>4. CASE r = "overlaps"
  BY <1>4 DEF Commuted, Compare, Interval
<1>5. CASE r = "contains"
  BY <1>5 DEF Commuted, Compare, Interval
<1>6. CASE r = "contained"
  BY <1>6 DEF Commuted, Compare, Interval
<1>7. CASE r = "same"
  BY <1>7 DEF Commuted, Compare, Interval
<1> QED BY <1>1, <1>2, <1>3, <1>4, <1>5, <1>6, <1>7

\* The same of whole boxes, adjacency included.
LEMMA RelatedConverse ==
    ASSUME NEW axis \in Axes \union {"extent"}, NEW r \in DOMAIN Commuted,
           axis # "extent" => r # "adjacent", NEW b \in Box, NEW c \in Box
    PROVE  Related(axis, Commuted[r], b, c) <=> Related(axis, r, c, b)
<1>1. "extent" \notin Axes /\ DOMAIN b = Axes /\ DOMAIN c = Axes
  BY DEF Axes, Box
<1>2. \A a \in Axes : b[a] \in Interval /\ c[a] \in Interval
  BY DEF Box
<1>3. CASE axis # "extent"
  <2>1. Compare(Commuted[r], b[axis], c[axis]) <=> Compare(r, c[axis], b[axis])
    BY <1>2, <1>3, CompareConverse
  <2> QED BY <1>3, <2>1 DEF Related
<1>4. CASE axis = "extent" /\ r = "adjacent"
  <2>1. Commuted[r] = "adjacent" /\ "overlaps" \in DOMAIN Commuted /\ Commuted["overlaps"] = "overlaps"
    BY <1>4 DEF Commuted
  <2>2. \A a \in Axes : Compare("overlaps", b[a], c[a]) <=> Compare("overlaps", c[a], b[a])
    BY <1>2, <2>1, CompareConverse
  <2>3. Touches(b, c) <=> Touches(c, b)
    BY <1>1 DEF Touches
  <2> QED BY <1>1, <1>4, <2>1, <2>2, <2>3 DEF Related
<1>5. CASE axis = "extent" /\ r # "adjacent"
  <2>1. Commuted[r] # "adjacent"
    BY <1>5 DEF Commuted
  <2>2. \A a \in Axes : Compare(Commuted[r], b[a], c[a]) <=> Compare(r, c[a], b[a])
    BY <1>2, <1>5, CompareConverse
  <2> QED BY <1>1, <1>5, <2>1, <2>2 DEF Related
<1> QED BY <1>3, <1>4, <1>5

\* The axis of an entry decides what its name and its relation may be.
LEMMA Entries ==
    ASSUME NEW e \in INDEX_OPERATORS
    PROVE  \/ /\ e.axis = "extent" /\ e.relation \in DOMAIN Extent /\ e.name = Extent[e.relation]
              /\ e = [name |-> e.name, axis |-> e.axis, relation |-> e.relation]
           \/ /\ e.axis \in Axes /\ e.relation \in DOMAIN Ordering[e.axis]
              /\ e.name = Ordering[e.axis][e.relation]
              /\ e = [name |-> e.name, axis |-> e.axis, relation |-> e.relation]
BY DEF INDEX_OPERATORS

\* No operator has two entries.
LEMMA OneEntry ==
    ASSUME NEW e \in INDEX_OPERATORS, NEW f \in INDEX_OPERATORS, e.name = f.name
    PROVE  e.axis = f.axis /\ e.relation = f.relation
<1>1. e.axis = f.axis
  BY Entries DEF Extent, Ordering, Axes
<1>2. e.relation = f.relation
  BY Entries, <1>1 DEF Extent, Ordering, Axes
<1> QED BY <1>1, <1>2

\* What an index answers for the search of an operator is what the operator
\* says of the boxes, on whichever side the query is written
\* (IndexSearchOpFromName and the commuted column of INDEX_OPERATORS).
THEOREM SearchAnswersOperator ==
    ASSUME NEW name, NEW bbox_type, NEW query_on_left \in BOOLEAN,
           NEW search \in IndexSearchOpFromName(name, bbox_type, query_on_left),
           NEW box \in Box, NEW asked \in Box
    PROVE  Searched(search, box, asked) <=>
               IF query_on_left THEN Holds(name, asked, box) ELSE Holds(name, box, asked)
<1>1. \A e \in INDEX_OPERATORS, b, c \in Box : e.name = name =>
          (Holds(name, b, c) <=> Related(e.axis, e.relation, b, c))
  BY OneEntry DEF Holds
<1>2. CASE ~ query_on_left
  <2>1. search \in INDEX_OPERATORS /\ search.name = name
    BY <1>2 DEF IndexSearchOpFromName, Answered
  <2> QED BY <1>1, <1>2, <2>1 DEF Searched
<1>3. CASE query_on_left
  <2>1. PICK e \in INDEX_OPERATORS :
          /\ e.name = name /\ e.relation \in DOMAIN Commuted
          /\ search = [e EXCEPT !.relation = Commuted[@]]
    BY <1>3 DEF IndexSearchOpFromName, Answered
  <2>2. search.axis = e.axis /\ search.relation = Commuted[e.relation]
    BY <2>1, Entries
  <2>3. e.axis \in Axes \union {"extent"} /\ (e.axis # "extent" => e.relation # "adjacent")
    BY Entries DEF Ordering, Axes
  <2>4. Related(e.axis, Commuted[e.relation], box, asked) <=> Related(e.axis, e.relation, asked, box)
    BY <2>1, <2>3, RelatedConverse
  <2> QED BY <1>1, <1>3, <2>1, <2>2, <2>4 DEF Searched
<1> QED BY <1>2, <1>3

-----------------------------------------------------------------------------
(* The first match.                                                        *)

\* A set of numbers has a least one.
LEMMA Least ==
    ASSUME NEW T \in SUBSET Nat, T # {}
    PROVE  \E x \in T : \A y \in T : x <= y
<1>1. PICK x \in T : \A y \in T : <<y, x>> \notin OpToRel(<, Nat)
  BY NatLessThanWellFounded, WFMin
<1>2. \A y \in T : ~ (y < x)
  BY <1>1 DEF OpToRel
<1> QED BY <1>2

\* FirstMatch picks one of the matches.
LEMMA FirstMatchIn ==
    ASSUME NEW M \in SUBSET (Nat \X Nat), M # {}
    PROVE  FirstMatch(M) \in M
<1>1. PICK c \in {m[1] : m \in M} : \A d \in {m[1] : m \in M} : c <= d
  <2>1. {m[1] : m \in M} \in SUBSET Nat /\ {m[1] : m \in M} # {}
    OBVIOUS
  <2> QED BY <2>1, Least
<1>2. PICK k \in {m[2] : m \in {n \in M : n[1] = c}} :
          \A j \in {m[2] : m \in {n \in M : n[1] = c}} : k <= j
  <2>1. /\ {m[2] : m \in {n \in M : n[1] = c}} \in SUBSET Nat
        /\ {m[2] : m \in {n \in M : n[1] = c}} # {}
    BY <1>1
  <2> QED BY <2>1, Least
<1>3. PICK m \in M : m[1] = c /\ m[2] = k
  BY <1>2
<1>4. \A n \in M : m[1] < n[1] \/ (m[1] = n[1] /\ m[2] <= n[2])
  <2>1. SUFFICES ASSUME NEW n \in M PROVE m[1] < n[1] \/ (m[1] = n[1] /\ m[2] <= n[2])
    OBVIOUS
  <2>2. m[1] <= n[1] /\ m[1] \in Nat /\ n[1] \in Nat
    BY <1>1, <1>3
  <2>3. m[1] = n[1] => m[2] <= n[2]
    BY <1>2, <1>3
  <2> QED BY <2>2, <2>3
<1> QED BY <1>4 DEF FirstMatch

\* Without generated columns a column is stored under its own id.
LEMMA PhysicalSame ==
    ASSUME NEW table, table.generated = {}, NEW c \in Column
    PROVE  Physical(table, c) = c
<1>1. c \in Int /\ c >= 0
  BY ColumnsAssumption DEF Column
<1>2. {d \in 0 .. c - 1 : d \notin table.generated} = 0 .. c - 1
  OBVIOUS
<1>3. Cardinality(0 .. c - 1) = c
  BY <1>1, FS_Interval
<1> QED BY <1>2, <1>3 DEF Physical

-----------------------------------------------------------------------------
(* Columns in ascending order.                                             *)

\* The elements of S below x.
Below(S, x) == {y \in S : y < x}

\* The larger of two elements has more below it.
LEMMA BelowGrows ==
    ASSUME NEW S \in SUBSET Int, IsFiniteSet(S), NEW x \in S, NEW y \in S, x < y
    PROVE  /\ Cardinality(Below(S, x)) \in Nat /\ Cardinality(Below(S, y)) \in Nat
           /\ Cardinality(Below(S, x)) < Cardinality(Below(S, y))
<1>1. IsFiniteSet(Below(S, x)) /\ IsFiniteSet(Below(S, y))
  BY FS_Subset DEF Below
<1>2. x \notin Below(S, x) /\ Below(S, x) \union {x} \subseteq Below(S, y)
  <2>1. x \in Int /\ y \in Int /\ \A z \in S : z \in Int
    OBVIOUS
  <2>2. ASSUME NEW z \in Below(S, x) PROVE z \in Below(S, y)
    BY <2>1 DEF Below
  <2>3. x \notin Below(S, x) /\ x \in Below(S, y)
    BY <2>1 DEF Below
  <2> QED BY <2>2, <2>3
<1>3. Cardinality(Below(S, x) \union {x}) = Cardinality(Below(S, x)) + 1
  BY <1>1, <1>2, FS_AddElement
<1>4. Cardinality(Below(S, x) \union {x}) <= Cardinality(Below(S, y))
  BY <1>1, <1>2, FS_Subset
<1>5. Cardinality(Below(S, x)) \in Nat /\ Cardinality(Below(S, y)) \in Nat
  BY <1>1, FS_CardinalityType
<1> QED BY <1>3, <1>4, <1>5

\* A finite set of integers can be listed in ascending order: each element
\* comes behind as many as there are below it.
LEMMA AscendingExists ==
    ASSUME NEW S \in SUBSET Int, IsFiniteSet(S)
    PROVE  \E s \in [1 .. Cardinality(S) -> S] : \A i, j \in DOMAIN s : i < j => s[i] < s[j]
<1> DEFINE n == Cardinality(S)
           rank == [x \in S |-> Cardinality(Below(S, x)) + 1]
<1>1. n \in Nat /\ IsFiniteSet(1 .. n) /\ Cardinality(1 .. n) = n
  BY FS_CardinalityType, FS_Interval
<1>2. rank \in [S -> 1 .. n]
  <2>1. SUFFICES ASSUME NEW x \in S PROVE Cardinality(Below(S, x)) + 1 \in 1 .. n
    OBVIOUS
  <2>2. Below(S, x) \subseteq S \ {x}
    BY DEF Below
  <2>3. IsFiniteSet(S \ {x}) /\ Cardinality(S \ {x}) = n - 1
    BY FS_RemoveElement
  <2>4. IsFiniteSet(Below(S, x)) /\ Cardinality(Below(S, x)) <= n - 1
    BY <2>2, <2>3, FS_Subset
  <2>5. Cardinality(Below(S, x)) \in Nat
    BY <2>4, FS_CardinalityType
  <2> QED BY <1>1, <2>4, <2>5
<1>3. \A x, y \in S : x < y => rank[x] < rank[y]
  BY BelowGrows
<1>4. \A i \in 1 .. n : rank[CHOOSE x \in S : rank[x] = i] = i /\ (CHOOSE x \in S : rank[x] = i) \in S
  <2>1. \A x, y \in S : rank[x] = rank[y] => x = y
    <3>1. SUFFICES ASSUME NEW x \in S, NEW y \in S, rank[x] = rank[y], x # y PROVE FALSE
      OBVIOUS
    <3>2. x < y \/ y < x
      BY <3>1
    <3>3. rank[x] \in Int /\ rank[y] \in Int
      BY <1>2
    <3> HIDE DEF rank
    <3> QED BY <1>3, <3>1, <3>2, <3>3
  <2>2. rank \in Injection(S, 1 .. n)
    BY <1>2, <2>1, Fun_IsInj
  <2>3. rank \in Surjection(S, 1 .. n)
    BY <1>1, <2>2, FS_Injection
  <2> HIDE DEF rank
  <2>4. \A i \in 1 .. n : \E x \in S : rank[x] = i
    BY <2>3, Fun_SurjectionProperties
  <2> QED BY <2>4
<1> DEFINE s == [i \in 1 .. n |-> CHOOSE x \in S : rank[x] = i]
<1>5. s \in [1 .. n -> S] /\ \A i \in 1 .. n : rank[s[i]] = i
  <2> HIDE DEF rank
  <2> QED BY <1>4
<1> HIDE DEF rank, s
<1>6. \A i, j \in DOMAIN s : i < j => s[i] < s[j]
  <2>1. SUFFICES ASSUME NEW i \in 1 .. n, NEW j \in 1 .. n, i < j, ~ (s[i] < s[j]) PROVE FALSE
    BY <1>5
  <2>2. s[i] \in S /\ s[j] \in S /\ rank[s[i]] = i /\ rank[s[j]] = j
    BY <1>5
  <2>3. s[i] \in Int /\ s[j] \in Int
    BY <2>2
  <2>4. s[j] = s[i] \/ s[j] < s[i]
    BY <2>1, <2>3
  <2>5. j < i \/ j = i
    BY <1>3, <2>2, <2>4
  <2> QED BY <1>1, <2>1, <2>5
<1> QED BY <1>5, <1>6

\* Ascending lists each element, in order.
LEMMA AscendingLists ==
    ASSUME NEW S \in SUBSET Int, IsFiniteSet(S)
    PROVE  /\ Cardinality(S) \in Nat
           /\ Ascending(S) \in [1 .. Cardinality(S) -> S]
           /\ Range(Ascending(S)) = S
           /\ \A i, j \in DOMAIN Ascending(S) : i < j => Ascending(S)[i] < Ascending(S)[j]
<1> DEFINE n == Cardinality(S)
           s == Ascending(S)
<1>1. n \in Nat /\ IsFiniteSet(1 .. n) /\ Cardinality(1 .. n) = n
  BY FS_CardinalityType, FS_Interval
<1>2. s \in [1 .. n -> S] /\ \A i, j \in DOMAIN s : i < j => s[i] < s[j]
  BY AscendingExists DEF Ascending
<1> HIDE DEF s
<1>3. \A i, j \in 1 .. n : s[i] = s[j] => i = j
  <2>1. SUFFICES ASSUME NEW i \in 1 .. n, NEW j \in 1 .. n, s[i] = s[j], i # j PROVE FALSE
    OBVIOUS
  <2>2. s[i] \in S /\ s[j] \in S /\ DOMAIN s = 1 .. n
    BY <1>2
  <2>3. \A x \in S : ~ (x < x)
    OBVIOUS
  <2>4. i < j \/ j < i
    BY <1>1, <2>1
  <2> QED BY <1>2, <2>1, <2>2, <2>3, <2>4
<1>4. s \in Injection(1 .. n, S)
  BY <1>2, <1>3, Fun_IsInj
<1>5. s \in Surjection(1 .. n, S)
  BY <1>1, <1>4, FS_Injection
<1>6. Range(s) = S
  BY <1>5, Fun_SurjectionProperties
<1> QED BY <1>1, <1>2, <1>6 DEF s

-----------------------------------------------------------------------------
(* A get that an index answers.                                            *)

\* What the binder makes of the indexes of a table, of a get, and of a filter
\* over the column itself and a box, or what the index takes for no box.
IndexesOK(table) == table.indexes \in Seq([column : Column, type : IndexTypes])

GetOK(get) ==
    /\ DOMAIN get = {"function", "columns", "projection", "filters", "bind_data"}
    /\ get.function = "seq_scan"
    /\ get.columns \in Seq(Column \union {RowId})
    /\ get.projection \in Seq(DOMAIN get.columns)
    /\ DOMAIN get.filters \subseteq Column
    /\ \A c \in DOMAIN get.filters : Reads(get, c)

FilterOK(f) ==
    f.kind = "expression" =>
        /\ f.operand = "column" /\ f.constant \in {"none", "box", "other"}
        /\ f.query \in Box /\ f.query_on_left \in BOOLEAN

FiltersOK(get) == \A c \in DOMAIN get.filters : FilterOK(get.filters[c])

\* The index answers the filter it matched.
LEMMA MatchedFilter ==
    ASSUME NEW f, FilterOK(f), NEW op \in FilterSearch(f), NEW box \in Box
    PROVE  Searched(op, box, QueryBox(f)) <=> Satisfies(f, box)
<1>1. /\ f.kind = "expression" /\ f.constant \in {"box", "value", "timestamp"}
      /\ op \in IndexSearchOpFromName(f.name, BboxType, f.query_on_left)
  BY DEF FilterSearch
<1>2. /\ f.operand = "column" /\ f.constant = "box"
      /\ f.query \in Box /\ f.query_on_left \in BOOLEAN
  BY <1>1 DEF FilterOK
<1>3. Searched(op, box, f.query) <=>
          IF f.query_on_left THEN Holds(f.name, f.query, box) ELSE Holds(f.name, box, f.query)
  BY <1>1, <1>2, SearchAnswersOperator
<1> QED BY <1>1, <1>2, <1>3 DEF QueryBox, Satisfies, Query, Operand

\* The position of a column that is read is one of its places.
LEMMA PositionReads ==
    ASSUME NEW get, NEW c, Reads(get, c)
    PROVE  PositionOf(get, c) \in DOMAIN get.columns /\ get.columns[PositionOf(get, c)] = c
BY DEF Reads, PositionOf

\* The elements of a sequence.
LEMMA Elements ==
    ASSUME NEW S, NEW seq \in Seq(S)
    PROVE  \A k \in DOMAIN seq : seq[k] \in S
OBVIOUS

\* The elements of two sequences, one behind the other.
LEMMA Behind ==
    ASSUME NEW S, NEW s \in Seq(S), NEW t \in Seq(S)
    PROVE  /\ s \o t \in Seq(S) /\ Len(s \o t) = Len(s) + Len(t)
           /\ Len(s) \in Nat /\ Len(t) \in Nat
           /\ DOMAIN s \subseteq DOMAIN (s \o t)
           /\ \A i \in DOMAIN s : (s \o t)[i] = s[i]
           /\ \A i \in DOMAIN t : Len(s) + i \in DOMAIN (s \o t) /\ (s \o t)[Len(s) + i] = t[i]
OBVIOUS

\* The column of an index of a table without generated columns is the column
\* its storage id is compared with.
LEMMA IndexedColumn ==
    ASSUME NEW table, IndexesOK(table), table.generated = {}, NEW k \in DOMAIN table.indexes
    PROVE  table.indexes[k].column \in Column /\ IndexColumnId(table, k) = table.indexes[k].column
<1>1. \A j \in DOMAIN table.indexes : table.indexes[j] \in [column : Column, type : IndexTypes]
  BY Elements DEF IndexesOK
<1>2. table.indexes[k].column \in Column
  BY <1>1
<1> QED BY <1>2, PhysicalSame DEF IndexColumnId

\* The filter above the scan and the search together are the filters of the
\* query (TryOptimizeLogicalGet).
LEMMA OptimizedGetAnswers ==
    ASSUME NEW table, IndexesOK(table), table.generated = {}, NEW get, GetOK(get), FiltersOK(get),
           NEW type, FilterMatches(table, get, type) # {}, NEW row \in Row
    PROVE  SidePasses(OptimizedGet(table, get, type), row) <=> Passes(get, row)
<1> DEFINE m == FirstMatch(FilterMatches(table, get, type))
           f == get.filters[m[1]]
           op == CHOOSE o \in FilterSearch(f) : TRUE
           side == OptimizedGet(table, get, type)
<1>1. m \in FilterMatches(table, get, type)
  <2>1. FilterMatches(table, get, type) \in SUBSET (Nat \X Nat)
    BY ColumnsAssumption DEF FilterMatches, GetOK, IndexesOK, Column
  <2> QED BY <2>1, FirstMatchIn
<1>2. /\ m[1] \in DOMAIN get.filters /\ m[2] \in DOMAIN table.indexes
      /\ IndexColumnId(table, m[2]) = m[1] /\ FilterSearch(f) # {}
  BY <1>1 DEF FilterMatches
<1>3. table.indexes[m[2]].column = m[1]
  BY <1>2, IndexedColumn
<1>4. op \in FilterSearch(f)
  BY <1>2
<1>5. m[1] \in Column /\ row[m[1]] \in Box
  BY <1>2, BoxesAssumption DEF GetOK, Row, Box, Interval
<1>6. Searched(op, row[m[1]], QueryBox(f)) <=> Satisfies(f, row[m[1]])
  BY <1>2, <1>4, <1>5, MatchedFilter DEF FiltersOK
<1>7. /\ side.get.function = "search" /\ side.get.columns = get.columns
      /\ side.get.bind_data = [column |-> table.indexes[m[2]].column, search |-> op, query |-> QueryBox(f)]
      /\ side.residual = {[position |-> PositionOf(get, c), filter |-> get.filters[c]] :
                              c \in DOMAIN get.filters \ {m[1]}}
  BY DEF OptimizedGet, GetOK, ResidualColumns
<1>8. Passes(side.get, row) <=> Satisfies(f, row[m[1]])
  BY <1>3, <1>6, <1>7 DEF Passes
<1>9. (\A g \in side.residual : Satisfies(g.filter, row[side.get.columns[g.position]])) <=>
          \A c \in DOMAIN get.filters \ {m[1]} : Satisfies(get.filters[c], row[c])
  <2>1. \A c \in DOMAIN get.filters : get.columns[PositionOf(get, c)] = c
    BY PositionReads DEF GetOK
  <2>2. ASSUME NEW c \in DOMAIN get.filters \ {m[1]},
               \A g \in side.residual : Satisfies(g.filter, row[side.get.columns[g.position]])
        PROVE  Satisfies(get.filters[c], row[c])
    <3> DEFINE g == [position |-> PositionOf(get, c), filter |-> get.filters[c]]
    <3>1. g \in side.residual /\ g.position = PositionOf(get, c) /\ g.filter = get.filters[c]
      BY <1>7
    <3>2. Satisfies(g.filter, row[side.get.columns[g.position]])
      BY <2>2, <3>1
    <3>3. side.get.columns[g.position] = c
      BY <1>7, <2>1, <3>1
    <3> HIDE DEF g, side
    <3> QED BY <3>1, <3>2, <3>3
  <2>3. ASSUME NEW g \in side.residual,
               \A c \in DOMAIN get.filters \ {m[1]} : Satisfies(get.filters[c], row[c])
        PROVE  Satisfies(g.filter, row[side.get.columns[g.position]])
    <3>1. PICK c \in DOMAIN get.filters \ {m[1]} :
            g.position = PositionOf(get, c) /\ g.filter = get.filters[c]
      BY <1>7
    <3>2. side.get.columns[g.position] = c
      BY <1>7, <2>1, <3>1
    <3>3. Satisfies(get.filters[c], row[c])
      BY <2>3
    <3> HIDE DEF side
    <3> QED BY <3>1, <3>2, <3>3
  <2> HIDE DEF side
  <2> QED BY <2>2, <2>3
<1>10. Passes(get, row) <=> \A c \in DOMAIN get.filters : Satisfies(get.filters[c], row[c])
  BY DEF Passes, GetOK
<1> QED BY <1>2, <1>8, <1>9, <1>10 DEF SidePasses

\* What a get emits is extended behind what it emitted before, by places of
\* the columns that are missing and no others (TryOptimizeLogicalGet).
LEMMA ExtendedKeeps ==
    ASSUME NEW get, GetOK(get), NEW residual \in SUBSET (DOMAIN get.filters), get.projection # <<>>
    PROVE  /\ Extended(get, residual) \in Seq(DOMAIN get.columns)
           /\ Len(get.projection) <= Len(Extended(get, residual))
           /\ \A i \in DOMAIN get.projection : Extended(get, residual)[i] = get.projection[i]
           /\ \A c \in residual : PositionOf(get, c) \in Range(Extended(get, residual))
           /\ residual = {} => Extended(get, residual) = get.projection
<1> DEFINE missing == {c \in residual : PositionOf(get, c) \notin Range(get.projection)}
           sorted  == Ascending(missing)
           added   == [i \in DOMAIN sorted |-> PositionOf(get, sorted[i])]
           n       == Cardinality(missing)
           p       == get.projection
<1>1. Extended(get, residual) = p \o added
  BY DEF Extended
<1>2. missing \in SUBSET Int /\ IsFiniteSet(missing)
  <2>1. missing \subseteq 0 .. Columns - 1
    BY DEF GetOK, Column
  <2>2. IsFiniteSet(0 .. Columns - 1)
    BY ColumnsAssumption, FS_Interval
  <2>3. missing \subseteq Int
    BY <2>1
  <2> HIDE DEF missing
  <2> QED BY <2>1, <2>2, <2>3, FS_Subset
<1>3. /\ n \in Nat /\ sorted \in [1 .. n -> missing] /\ Range(sorted) = missing
  BY <1>2, AscendingLists
<1>4. \A c \in missing : PositionOf(get, c) \in DOMAIN get.columns
  BY PositionReads DEF GetOK
<1> HIDE DEF sorted
<1>5. added \in [1 .. n -> DOMAIN get.columns] /\ added \in Seq(DOMAIN get.columns) /\ Len(added) = n
  <2> HIDE DEF missing, n
  <2>1. added \in [1 .. n -> DOMAIN get.columns]
    BY <1>3, <1>4
  <2> QED BY <1>3, <2>1
<1>6. \A c \in missing : \E i \in 1 .. n : added[i] = PositionOf(get, c)
  <2>1. SUFFICES ASSUME NEW c \in missing PROVE \E i \in 1 .. n : added[i] = PositionOf(get, c)
    OBVIOUS
  <2>2. PICK i \in DOMAIN sorted : sorted[i] = c
    BY <1>3, <2>1 DEF Range
  <2> QED BY <1>3, <2>2
<1>7. missing = {} => added = <<>>
  <2>1. missing = {} => n = 0
    BY FS_EmptySet
  <2> HIDE DEF added, missing, n
  <2> QED BY <1>5, <2>1
<1>8. p \in Seq(DOMAIN get.columns)
  BY DEF GetOK
<1> HIDE DEF added, missing, n
<1>9. /\ p \o added \in Seq(DOMAIN get.columns) /\ Len(p \o added) = Len(p) + n
      /\ \A i \in DOMAIN p : (p \o added)[i] = p[i]
      /\ \A i \in 1 .. n : (p \o added)[Len(p) + i] = added[i] /\ Len(p) + i \in DOMAIN (p \o added)
      /\ DOMAIN p \subseteq DOMAIN (p \o added)
  <2>1. DOMAIN added = 1 .. n
    BY <1>5
  <2>2. DOMAIN p \subseteq DOMAIN (p \o added) /\ p \o added \in Seq(DOMAIN get.columns)
    BY <1>5, <1>8, Behind
  <2>3. \A i \in DOMAIN p : (p \o added)[i] = p[i]
    BY <1>5, <1>8, Behind
  <2>4. Len(p \o added) = Len(p) + Len(added)
    <3>1. p \in Seq(DOMAIN get.columns) /\ added \in Seq(DOMAIN get.columns)
      BY <1>5, <1>8
    <3> HIDE DEF p
    <3> QED BY <3>1, Behind
  <2>5. \A i \in DOMAIN added :
            (p \o added)[Len(p) + i] = added[i] /\ Len(p) + i \in DOMAIN (p \o added)
    BY <1>5, <1>8, Behind
  <2> QED BY <1>5, <2>1, <2>2, <2>3, <2>4, <2>5
<1>10. \A c \in residual : PositionOf(get, c) \in Range(p \o added)
  <2>1. SUFFICES ASSUME NEW c \in residual PROVE PositionOf(get, c) \in Range(p \o added)
    OBVIOUS
  <2>2. CASE c \in missing
    BY <1>6, <1>9, <2>2 DEF Range
  <2>3. CASE c \notin missing
    <3>1. PositionOf(get, c) \in Range(p)
      BY <2>1, <2>3 DEF missing
    <3> QED BY <1>9, <3>1 DEF Range
  <2> QED BY <2>2, <2>3
<1>11. residual = {} => p \o added = p
  <2>1. residual = {} => missing = {}
    BY DEF missing
  <2> QED BY <1>7, <1>8, <2>1
<1> QED BY <1>1, <1>3, <1>8, <1>9, <1>10, <1>11

\* The empty sequence has no places.
LEMMA NoPlaces ==
    /\ DOMAIN <<>> = {} /\ Range(<<>>) = {}
    /\ [i \in DOMAIN <<>> |-> i] = <<>>
    /\ \A S : \A s \in Seq(S) : s # <<>> => DOMAIN s # {}
BY DEF Range

\* A side emits what the get emitted, and its filter and its projection read
\* what its get emits.
EmitsAs(side, get) ==
    /\ side.get.function = "search" /\ side.get.columns = get.columns
    /\ get.projection = <<>> => side.get.projection = <<>>
    /\ DOMAIN side.get.filters # {}
    /\ SideEmits(side) = Emitted(get)
    /\ Range(side.projection_map) \subseteq DOMAIN Emitted(side.get)
    /\ \A f \in side.residual : f.position \in Range(Emitted(side.get))

\* A get that an index answers, with the filter above it, is such a side
\* (TryOptimizeLogicalGet).
LEMMA OptimizedGetEmits ==
    ASSUME NEW table, NEW get, GetOK(get), NEW type
    PROVE  EmitsAs(OptimizedGet(table, get, type), get)
<1> DEFINE m == FirstMatch(FilterMatches(table, get, type))
           R == ResidualColumns(get, m[1])
           p == get.projection
           side == OptimizedGet(table, get, type)
<1>1. /\ side.get.function = "search" /\ side.get.columns = get.columns
      /\ side.get.projection = Extended(get, R) /\ side.get.filters = KeptFilters(get, m[1])
      /\ side.residual = {[position |-> PositionOf(get, c), filter |-> get.filters[c]] : c \in R}
      /\ side.projection_map = ProjectionMap(get, R)
  BY DEF OptimizedGet, GetOK
<1>2. DOMAIN side.get.filters # {}
  BY <1>1 DEF KeptFilters
<1>3. R \in SUBSET (DOMAIN get.filters)
  BY DEF ResidualColumns
<1>4. p \in Seq(DOMAIN get.columns)
  BY DEF GetOK
<1>5. \A c \in R : PositionOf(get, c) \in DOMAIN get.columns
  BY <1>3, PositionReads DEF GetOK
<1>6. \A f \in side.residual : \E c \in R : f.position = PositionOf(get, c)
  BY <1>1
<1> HIDE DEF R, side
<1>7. ASSUME p = <<>> PROVE EmitsAs(side, get)
  <2>1. Extended(get, R) = <<>> /\ ProjectionMap(get, R) = <<>>
    BY <1>7, NoPlaces DEF Extended, ProjectionMap
  <2>2. Emitted(side.get) = Emitted(get) /\ Emitted(get) = [i \in DOMAIN get.columns |-> i]
    BY <1>1, <1>7, <2>1 DEF Emitted
  <2>3. Range(Emitted(get)) = DOMAIN get.columns
    BY <2>2 DEF Range
  <2>4. SideEmits(side) = Emitted(get)
    BY <1>1, <2>1, <2>2 DEF SideEmits
  <2>5. Range(side.projection_map) \subseteq DOMAIN Emitted(side.get)
    BY <1>1, <2>1, NoPlaces
  <2>6. \A f \in side.residual : f.position \in Range(Emitted(side.get))
    BY <1>5, <1>6, <2>2, <2>3
  <2> QED BY <1>1, <1>2, <2>1, <2>4, <2>5, <2>6 DEF EmitsAs
<1>8. ASSUME p # <<>> PROVE EmitsAs(side, get)
  <2> DEFINE e == Extended(get, R)
  <2>1. /\ e \in Seq(DOMAIN get.columns) /\ Len(p) <= Len(e)
        /\ \A i \in DOMAIN p : e[i] = p[i]
        /\ \A c \in R : PositionOf(get, c) \in Range(e)
        /\ R = {} => e = p
    BY <1>3, <1>8, ExtendedKeeps
  <2> HIDE DEF e
  <2>2. e # <<>> /\ DOMAIN p \subseteq DOMAIN e /\ DOMAIN p # {}
    BY <1>4, <1>8, <2>1
  <2>3. Emitted(side.get) = e /\ Emitted(get) = p
    BY <1>1, <1>8, <2>2 DEF Emitted, e
  <2>4. CASE R = {}
    <3>1. side.projection_map = <<>>
      BY <1>1, <2>4 DEF ProjectionMap
    <3>2. SideEmits(side) = Emitted(get)
      BY <2>1, <2>3, <2>4, <3>1 DEF SideEmits
    <3>3. Range(side.projection_map) \subseteq DOMAIN Emitted(side.get)
      BY <3>1, NoPlaces
    <3>4. \A f \in side.residual : f.position \in Range(Emitted(side.get))
      BY <1>6, <2>4
    <3> QED BY <1>1, <1>2, <1>8, <3>2, <3>3, <3>4 DEF EmitsAs
  <2>5. CASE R # {}
    <3>1. side.projection_map = [i \in DOMAIN p |-> i]
      BY <1>1, <2>5 DEF ProjectionMap
    <3>2. side.projection_map # <<>>
      BY <2>2, <3>1, NoPlaces
    <3>3. SideEmits(side) = [i \in DOMAIN p |-> e[i]]
      BY <2>3, <3>1, <3>2 DEF SideEmits
    <3>4. [i \in DOMAIN p |-> e[i]] = p
      BY <1>4, <2>1
    <3>5. Range(side.projection_map) \subseteq DOMAIN Emitted(side.get)
      BY <2>2, <2>3, <3>1 DEF Range
    <3>6. \A f \in side.residual : f.position \in Range(Emitted(side.get))
      BY <1>6, <2>1, <2>3
    <3> QED BY <1>1, <1>2, <1>8, <2>3, <3>3, <3>4, <3>5, <3>6 DEF EmitsAs
  <2> QED BY <2>4, <2>5
<1> HIDE DEF p
<1>9. EmitsAs(side, get)
  BY <1>7, <1>8
<1> QED BY <1>9 DEF side

-----------------------------------------------------------------------------
(* The queries.                                                            *)

QueryOK ==
    \/ query.kind = "select" /\ DOMAIN query.gets = {1}
    \/ query.kind = "topn" /\ DOMAIN query.gets = {1} /\ query.top \in Tops(query.gets[1])
    \/ /\ query.kind = "join" /\ DOMAIN query.gets = {1, 2}
       /\ query.join \in Joins(query.gets)
       /\ \A s \in {1, 2} : Whole(query.gets[s])

InputOK == QueryOK /\ \A s \in DOMAIN query.gets : IndexesOK(tables[s]) /\ GetOK(query.gets[s])

\* The tables and filters that the code answers rightly.
PlainTables  == \A s \in DOMAIN query.gets : tables[s].generated = {}
PlainFilters == \A s \in DOMAIN query.gets : FiltersOK(query.gets[s])

\* The shapes of filters that the code answers rightly.
RightFilters == "computed" \notin Shapes /\ "misread" \notin Shapes

\* The tables of a query have the indexes they may have.
LEMMA TablesOK ==
    ASSUME NEW t \in Tables
    PROVE  IndexesOK(t) /\ ("generated" \notin Shapes => t.generated = {})
<1>1. PICK g \in {{}} \union (IF "generated" \in Shapes THEN {{0}} ELSE {}), i \in Indexes :
        t = [generated |-> g, indexes |-> i]
  BY DEF Tables
<1> QED BY <1>1, IndexesAssumption DEF IndexesOK

\* The gets of a query read the columns that their filters are over, and emit
\* some of what they read.
LEMMA GetsOK ==
    ASSUME NEW t \in Tables, NEW e, NEW n, NEW g \in Gets(t, e, n)
    PROVE  GetOK(g) /\ (FilterOK(e) => FiltersOK(g))
<1> DEFINE Over(cols, filtered) ==
             {[function |-> "seq_scan", columns |-> cols, projection |-> p, filters |-> f,
               bind_data |-> {}] :
                  p \in Projections(cols, filtered), f \in [filtered -> {e, Comparison}]}
           Filtered(cols) == {s \in SUBSET (Range(cols) \ {RowId}) : Cardinality(s) <= n}
<1>1. Gets(t, e, n) =
          UNION {UNION {Over(cols, filtered) : filtered \in Filtered(cols)} : cols \in Reading(t)}
  BY DEF Gets
<1>2. PICK cols \in Reading(t) : \E filtered \in Filtered(cols) : g \in Over(cols, filtered)
  <2> HIDE DEF Over, Filtered
  <2> QED BY <1>1
<1>3. PICK filtered \in Filtered(cols) : g \in Over(cols, filtered)
  BY <1>2
<1>4. PICK p \in Projections(cols, filtered), f \in [filtered -> {e, Comparison}] :
        g = [function |-> "seq_scan", columns |-> cols, projection |-> p, filters |-> f,
             bind_data |-> {}]
  BY <1>3
<1>5. cols \in Seq(Column \union {RowId}) /\ Range(cols) \subseteq Column \union {RowId}
  <2>1. CASE cols \in {<<c>> : c \in (Column \ t.generated) \union {RowId}}
    <3>1. PICK c \in Column \union {RowId} : cols = <<c>>
      BY <2>1
    <3>2. DOMAIN cols = {1} /\ cols[1] = c
      BY <3>1
    <3>3. Range(cols) = {c}
      BY <3>2 DEF Range
    <3> QED BY <3>1, <3>3
  <2>2. CASE cols \in ((Column \ t.generated) \union {RowId})
                        \X ((Column \ t.generated) \union {RowId})
    BY <2>2 DEF Range
  <2> QED BY <1>2, <2>1, <2>2 DEF Reading
<1>6. filtered \subseteq Range(cols) \ {RowId}
  BY <1>3
<1>7. \A c \in filtered : \E i \in DOMAIN cols : cols[i] = c
  BY <1>6 DEF Range
<1>8. FilterOK(Comparison)
  BY DEF FilterOK, Comparison
<1>9. FilterOK(e) => \A c \in filtered : FilterOK(f[c])
  BY <1>4, <1>8
<1>10. p \in Seq(DOMAIN cols)
  <2>1. CASE p = <<>>
    BY <2>1
  <2>2. CASE p \in Increasing(Len(cols))
    <3>1. PICK k \in 1 .. Len(cols) - 1 : p \in [1 .. k -> 1 .. Len(cols)]
      BY <2>2 DEF Increasing
    <3>2. k \in Nat /\ DOMAIN cols = 1 .. Len(cols)
      BY <1>5, <3>1
    <3> QED BY <3>1, <3>2
  <2> QED BY <1>4, <2>1, <2>2 DEF Projections
<1>11. /\ DOMAIN g = {"function", "columns", "projection", "filters", "bind_data"}
       /\ g.function = "seq_scan" /\ g.columns = cols /\ g.projection = p
       /\ g.filters = f /\ DOMAIN f = filtered
  BY <1>4
<1> QED BY <1>5, <1>6, <1>7, <1>9, <1>10, <1>11 DEF GetOK, FiltersOK, Reads

\* The expressions of a query are over columns and constant boxes, unless they
\* may be computed or misread.
LEMMA ExpressionsOK ==
    /\ FilterOK(Overlap)
    /\ RightFilters => \A e \in Expressions : FilterOK(e)
<1>1. (CHOOSE b \in Queries : TRUE) \in Box
  BY QueriesAssumption DEF Box, Interval
<1>2. RightFilters => \A e \in Expressions : FilterOK(e)
  BY QueriesAssumption DEF RightFilters, Expressions, FilterOK, Box, Interval
<1> QED BY <1>1, <1>2 DEF Overlap, FilterOK

-----------------------------------------------------------------------------
(* The invariant of the optimizers.                                        *)

\* A get is the query's own, or answers nearest first below a TopN, or is what
\* a scan optimizer made of the query's own.
Side(s) ==
    \/ sides[s] = Bare(query.gets[s])
    \/ /\ query.kind = "topn" /\ OneAscending(query.top) /\ PlainGet(query.gets[s])
       /\ \E type \in IndexTypes :
            /\ NearestMatches(tables[s], query.top, query.gets[s], type) # {}
            /\ sides[s] = Bare(NearestGet(tables[s], query.top, query.gets[s], type))
    \/ \E type \in IndexTypes :
         /\ FilterMatches(tables[s], query.gets[s], type) # {}
         /\ sides[s] = OptimizedGet(tables[s], query.gets[s], type)

SidesOK == DOMAIN sides = DOMAIN query.gets /\ \A s \in DOMAIN sides : Side(s)

\* Only the plan of a TopN has one among its nodes.
NodesOK ==
    /\ running \in 1 .. Len(Optimizers) + 1
    /\ nodes \in Seq({0, 1, 2}) \ {<<>>}
    /\ query.kind # "topn" => nodes \in Seq({1, 2})

\* An index join reads a side by an index over the column of the join's
\* condition, and that side is still the query's own, without filters.
JoinedBy(s, k) ==
    /\ query.kind = "join" /\ BareOverlap(query.join)
    /\ sides[s] = Bare(query.gets[s]) /\ DOMAIN query.gets[s].filters = {}
    /\ k \in DOMAIN tables[s].indexes
    /\ IndexColumnId(tables[s], k) =
           Physical(tables[s], query.gets[s].columns[query.join.positions[s]])
    /\ joined = {[indexed |-> s, column |-> tables[s].indexes[k].column,
                  probe_column |-> query.join.positions[3 - s]]}

JoinedOK == joined = {} \/ \E s \in {1, 2} : \E k \in DOMAIN tables[s].indexes : JoinedBy(s, k)

IInv == InputOK /\ SidesOK /\ NodesOK /\ JoinedOK

\* The nodes of a plan.
LEMMA PlanNodes ==
    ASSUME NEW q, NEW joins, q.kind \in {"select", "topn", "join"},
           joins = {} \/ \E ij : joins = {ij} /\ ij.indexed \in {1, 2}
    PROVE  /\ Plan(q, joins) \in Seq({0, 1, 2}) \ {<<>>}
           /\ q.kind # "topn" => Plan(q, joins) \in Seq({1, 2})
<1>1. CASE q.kind = "select"
  BY <1>1 DEF Plan
<1>2. CASE q.kind = "topn"
  BY <1>2 DEF Plan
<1>3. CASE q.kind = "join" /\ joins = {}
  BY <1>3 DEF Plan
<1>4. CASE q.kind = "join" /\ joins # {}
  <2>1. PICK ij : joins = {ij} /\ ij.indexed \in {1, 2}
    BY <1>4
  <2>2. (CHOOSE i \in joins : TRUE) = ij
    BY <2>1
  <2>3. Plan(q, joins) = <<3 - ij.indexed>>
    BY <1>4, <2>2 DEF Plan
  <2>4. 3 - ij.indexed \in {1, 2}
    BY <2>1
  <2> QED BY <2>3, <2>4
<1> QED BY <1>1, <1>2, <1>3, <1>4

\* What JoinedOK says of the index joins as a set.
LEMMA JoinedOne == JoinedOK => joined = {} \/ \E ij : joined = {ij} /\ ij.indexed \in {1, 2}
<1>1. ASSUME NEW s \in {1, 2}, NEW k, JoinedBy(s, k)
      PROVE  \E ij : joined = {ij} /\ ij.indexed \in {1, 2}
  <2> DEFINE ij == [indexed |-> s, column |-> tables[s].indexes[k].column,
                    probe_column |-> query.join.positions[3 - s]]
  <2>1. joined = {ij} /\ ij.indexed = s
    BY <1>1 DEF JoinedBy
  <2> HIDE DEF ij
  <2> QED BY <1>1, <2>1
<1> QED BY <1>1 DEF JoinedOK

\* A query starts with its own gets and its own plan.
LEMMA InitInput ==
    ASSUME Init
    PROVE  /\ InputOK
           /\ "generated" \notin Shapes => PlainTables
           /\ RightFilters => PlainFilters
<1>1. FilterOK(Overlap) /\ (RightFilters => \A e \in Expressions : FilterOK(e))
  BY ExpressionsOK
<1> DEFINE Goal == /\ InputOK
                   /\ "generated" \notin Shapes => PlainTables
                   /\ RightFilters => PlainFilters
<1>2. ASSUME NEW t \in Tables, NEW e \in Expressions, NEW g \in Gets(t, e, Columns),
             tables = <<t>>, query = [kind |-> "select", gets |-> <<g>>]
      PROVE  Goal
  <2>1. /\ IndexesOK(t) /\ ("generated" \notin Shapes => t.generated = {})
        /\ GetOK(g) /\ (RightFilters => FiltersOK(g))
    BY <1>1, TablesOK, GetsOK
  <2>2. /\ query.kind = "select" /\ DOMAIN query.gets = {1} /\ query.gets[1] = g
        /\ tables[1] = t
    BY <1>2
  <2> QED BY <2>1, <2>2 DEF InputOK, QueryOK, PlainTables, PlainFilters
<1>3. ASSUME NEW t \in Tables, NEW g \in Gets(t, Overlap, 1), NEW top \in Tops(g),
             tables = <<t>>, query = [kind |-> "topn", gets |-> <<g>>, top |-> top]
      PROVE  Goal
  <2>1. /\ IndexesOK(t) /\ ("generated" \notin Shapes => t.generated = {})
        /\ GetOK(g) /\ FiltersOK(g)
    BY <1>1, TablesOK, GetsOK
  <2>2. /\ query.kind = "topn" /\ DOMAIN query.gets = {1} /\ query.gets[1] = g
        /\ query.top = top /\ tables[1] = t
    BY <1>3
  <2> QED BY <2>1, <2>2 DEF InputOK, QueryOK, PlainTables, PlainFilters
<1>4. ASSUME NEW t \in Tables, NEW u \in Tables, NEW g \in Gets(t, Overlap, 1),
             NEW h \in Gets(u, Overlap, 1), NEW j \in Joins(<<g, h>>), Whole(g), Whole(h),
             tables = <<t, u>>, query = [kind |-> "join", gets |-> <<g, h>>, join |-> j]
      PROVE  Goal
  <2>1. /\ IndexesOK(t) /\ ("generated" \notin Shapes => t.generated = {})
        /\ IndexesOK(u) /\ ("generated" \notin Shapes => u.generated = {})
        /\ GetOK(g) /\ FiltersOK(g) /\ GetOK(h) /\ FiltersOK(h)
    BY <1>1, TablesOK, GetsOK
  <2>2. /\ query.kind = "join" /\ query.gets = <<g, h>> /\ DOMAIN query.gets = {1, 2}
        /\ query.gets[1] = g /\ query.gets[2] = h /\ query.join = j
        /\ tables[1] = t /\ tables[2] = u
    BY <1>4
  <2>3. QueryOK
    BY <1>4, <2>2 DEF QueryOK
  <2> QED BY <2>1, <2>2, <2>3 DEF InputOK, PlainTables, PlainFilters
<1> HIDE DEF Goal
<1>5. Goal
  BY <1>2, <1>3, <1>4 DEF Init
<1> QED BY <1>5 DEF Goal

LEMMA InitHolds == Init => IInv
<1>1. SUFFICES ASSUME Init PROVE IInv
  OBVIOUS
<1>2. InputOK
  BY <1>1, InitInput
<1>3. /\ nodes = Plan(query, {}) /\ joined = {} /\ running = 1
      /\ sides = [s \in DOMAIN query.gets |-> Bare(query.gets[s])]
  BY <1>1 DEF Init
<1>4. SidesOK
  BY <1>3 DEF SidesOK, Side
<1>5. NodesOK
  BY <1>2, <1>3, PlanNodes DEF NodesOK, InputOK, QueryOK, Optimizers
<1> QED BY <1>2, <1>3, <1>4, <1>5 DEF IInv, JoinedOK

-----------------------------------------------------------------------------
(* The steps of the optimizers.                                            *)

\* The type of the optimizer that runs is one of the two.
LEMMA Running ==
    ASSUME NEW what, Runs(what)
    PROVE  Type \in IndexTypes /\ running \in 1 .. Len(Optimizers)
BY DEF Runs, Type, Optimizers, IndexTypes

\* Going on to the next node, or to the next optimizer, leaves nodes of a plan.
LEMMA VisitedKeeps ==
    ASSUME InputOK, JoinedOK', UNCHANGED query, running \in 1 .. Len(Optimizers),
           NEW left \in Seq({0, 1, 2}), query.kind # "topn" => left \in Seq({1, 2}),
           Visited(left)
    PROVE  NodesOK'
<1>1. CASE left # <<>>
  BY <1>1 DEF Visited, NodesOK, Optimizers
<1>2. CASE left = <<>>
  <2>1. nodes' = Plan(query', joined') /\ running' = running + 1
    BY <1>2 DEF Visited
  <2>2. (joined = {} \/ \E ij : joined = {ij} /\ ij.indexed \in {1, 2})'
    BY JoinedOne, PTL
  <2>3. query'.kind \in {"select", "topn", "join"}
    BY DEF InputOK, QueryOK
  <2>4. PICK q : q = query'
    OBVIOUS
  <2>5. PICK joins : joins = joined'
    OBVIOUS
  <2>6. /\ Plan(q, joins) \in Seq({0, 1, 2}) \ {<<>>}
        /\ q.kind # "topn" => Plan(q, joins) \in Seq({1, 2})
    BY <2>2, <2>3, <2>4, <2>5, PlanNodes
  <2> QED BY <2>1, <2>4, <2>5, <2>6 DEF NodesOK, Optimizers
<1> QED BY <1>1, <1>2

LEMMA NoneLeft == <<>> \in Seq({0, 1, 2}) /\ <<>> \in Seq({1, 2})
OBVIOUS

\* The head and the tail of the nodes that are left.
LEMMA HeadAndTail ==
    ASSUME NodesOK
    PROVE  /\ Head(nodes) \in {0, 1, 2} /\ Tail(nodes) \in Seq({0, 1, 2})
           /\ query.kind # "topn" => Head(nodes) \in {1, 2} /\ Tail(nodes) \in Seq({1, 2})
BY DEF NodesOK

\* A get that an index answers is no sequential scan.
LEMMA Searches ==
    ASSUME NEW table, NEW get, GetOK(get), NEW type
    PROVE  OptimizedGet(table, get, type).get.function = "search"
BY DEF OptimizedGet, GetOK

\* Neither is one that answers nearest first.
LEMMA NotScanned ==
    ASSUME SidesOK, NEW s \in DOMAIN sides, GetOK(query.gets[s]), sides[s] # Bare(query.gets[s])
    PROVE  sides[s].get.function # "seq_scan"
<1>1. ASSUME NEW type, sides[s] = Bare(NearestGet(tables[s], query.top, query.gets[s], type))
      PROVE  sides[s].get.function # "seq_scan"
  <2>1. sides[s].get = NearestGet(tables[s], query.top, query.gets[s], type)
    BY <1>1 DEF Bare
  <2> QED BY <2>1 DEF NearestGet, GetOK
<1>2. ASSUME NEW type, sides[s] = OptimizedGet(tables[s], query.gets[s], type)
      PROVE  sides[s].get.function # "seq_scan"
  <2>1. OptimizedGet(tables[s], query.gets[s], type).get.function = "search"
    BY Searches
  <2> QED BY <1>2, <2>1
<1> QED BY <1>1, <1>2 DEF SidesOK, Side

\* A get without filters is left alone (TryOptimizeLogicalGet).
LEMMA NothingToAnswer ==
    ASSUME NEW table, NEW side, DOMAIN side.get.filters = {}, NEW type
    PROVE  TryOptimizeLogicalGet(table, side, type) = side
BY DEF TryOptimizeLogicalGet, FilterMatches

\* A TopN leaves its get or has it answer nearest first
\* (TryOptimizeLogicalTopN).
LEMMA VisitTopNKeeps == IInv /\ VisitTopN => IInv'
<1>1. SUFFICES ASSUME IInv, VisitTopN PROVE IInv'
  OBVIOUS
<1>2. PICK type \in IndexTypes : type = Type /\ running \in 1 .. Len(Optimizers)
  BY <1>1, Running DEF VisitTopN
<1>3. /\ UNCHANGED <<tables, query, joined>> /\ Visited(Tail(nodes)) /\ Head(nodes) = 0
      /\ sides' = [sides EXCEPT ![1].get = TryOptimizeLogicalTopN(tables[1], query.top, @, type)]
  BY <1>1, <1>2 DEF VisitTopN
<1>4. query.kind = "topn" /\ DOMAIN query.gets = {1} /\ DOMAIN sides = {1} /\ Side(1)
  BY <1>1, <1>3, HeadAndTail DEF IInv, InputOK, QueryOK, SidesOK
<1>5. DOMAIN sides' = {1}
  BY <1>3, <1>4
<1> DEFINE get == sides[1].get
           own == query.gets[1]
<1>6. GetOK(own)
  BY <1>1, <1>4 DEF IInv, InputOK
<1>7. sides'[1] = [sides[1] EXCEPT !.get = TryOptimizeLogicalTopN(tables[1], query.top, get, type)]
  BY <1>3, <1>4
<1>8. CASE /\ OneAscending(query.top) /\ PlainGet(get)
           /\ NearestMatches(tables[1], query.top, get, type) # {}
  <2>1. sides[1] = Bare(own)
    BY <1>1, <1>4, <1>6, <1>8, NotScanned DEF IInv, PlainGet
  <2>2. get = own
    BY <2>1 DEF Bare
  <2>3. sides'[1] = Bare(NearestGet(tables[1], query.top, own, type))
    <3>1. TryOptimizeLogicalTopN(tables[1], query.top, get, type)
              = NearestGet(tables[1], query.top, own, type)
      BY <1>8, <2>2 DEF TryOptimizeLogicalTopN
    <3>2. sides'[1] = [Bare(own) EXCEPT !.get = NearestGet(tables[1], query.top, own, type)]
      BY <1>7, <2>1, <3>1
    <3> QED BY <3>2 DEF Bare
  <2> QED
    <3>1. Side(1)'
      BY <1>3, <1>4, <1>8, <2>2, <2>3 DEF Side
    <3>2. SidesOK' /\ InputOK' /\ JoinedOK'
      BY <1>1, <1>3, <1>4, <1>5, <3>1 DEF IInv, SidesOK, InputOK, QueryOK, JoinedOK, JoinedBy
    <3>3. NodesOK'
      BY <1>1, <1>2, <1>3, <1>4, <3>2, HeadAndTail, VisitedKeeps DEF IInv
    <3> QED BY <3>2, <3>3 DEF IInv
<1>9. CASE ~ /\ OneAscending(query.top) /\ PlainGet(get)
             /\ NearestMatches(tables[1], query.top, get, type) # {}
  <2>1. TryOptimizeLogicalTopN(tables[1], query.top, get, type) = get
    BY <1>9 DEF TryOptimizeLogicalTopN
  <2>2. [sides[1] EXCEPT !.get = get] = sides[1]
    BY <1>4 DEF Side, Bare, OptimizedGet
  <2>3. sides'[1] = sides[1]
    BY <1>7, <2>1, <2>2
  <2>4. Side(1)'
    BY <1>3, <1>4, <2>3 DEF Side
  <2>5. SidesOK' /\ InputOK' /\ JoinedOK'
    BY <1>1, <1>3, <1>4, <1>5, <2>4 DEF IInv, SidesOK, InputOK, QueryOK, JoinedOK, JoinedBy
  <2>6. NodesOK'
    BY <1>1, <1>2, <1>3, <1>4, <2>5, HeadAndTail, VisitedKeeps DEF IInv
  <2> QED BY <2>5, <2>6 DEF IInv
<1> QED BY <1>8, <1>9

\* What is rewritten is the query's own get, and never the side that an index
\* join reads: a get that an index answers is nobody's scan any more
\* (TryOptimizeLogicalGet).
LEMMA VisitGetKeeps == IInv /\ VisitGet => IInv'
<1>1. SUFFICES ASSUME IInv, VisitGet PROVE IInv'
  OBVIOUS
<1>2. PICK type \in IndexTypes : type = Type /\ running \in 1 .. Len(Optimizers)
  BY <1>1, Running DEF VisitGet
<1>3. PICK h : h = Head(nodes)
  OBVIOUS
<1>4. /\ UNCHANGED <<tables, query, joined>> /\ Visited(Tail(nodes))
      /\ sides' = [sides EXCEPT ![h] = TryOptimizeLogicalGet(tables[h], @, type)]
  BY <1>1, <1>2, <1>3 DEF VisitGet
<1>5. DOMAIN sides' = DOMAIN sides /\ DOMAIN sides = DOMAIN query.gets
  BY <1>1, <1>4 DEF IInv, SidesOK
<1>6. \A s \in DOMAIN sides :
          sides'[s] = sides[s] \/ sides'[s] = TryOptimizeLogicalGet(tables[s], sides[s], type)
  BY <1>4
<1>7. ASSUME NEW s \in DOMAIN sides PROVE Side(s)'
  <2>1. Side(s) /\ GetOK(query.gets[s])
    BY <1>1, <1>5, <1>7 DEF IInv, SidesOK, InputOK
  <2>2. CASE sides'[s] = sides[s]
    BY <1>4, <2>1, <2>2 DEF Side
  <2>3. CASE /\ sides'[s] = OptimizedGet(tables[s], sides[s].get, type)
             /\ FilterMatches(tables[s], sides[s].get, type) # {}
             /\ sides[s].get.function = "seq_scan"
    <3>1. sides[s] = Bare(query.gets[s])
      BY <1>1, <2>1, <2>3, NotScanned DEF IInv
    <3>2. sides[s].get = query.gets[s]
      BY <3>1 DEF Bare
    <3> QED BY <1>4, <2>3, <3>2 DEF Side
  <2> QED BY <1>6, <2>2, <2>3 DEF TryOptimizeLogicalGet
<1>8. JoinedOK'
  <2>1. CASE joined = {}
    BY <1>4, <2>1 DEF JoinedOK
  <2>2. CASE joined # {}
    <3>1. PICK s \in {1, 2} : \E k \in DOMAIN tables[s].indexes : JoinedBy(s, k)
      BY <1>1, <2>2 DEF IInv, JoinedOK
    <3> PICK k \in DOMAIN tables[s].indexes : JoinedBy(s, k)
      BY <3>1
    <3>2. s \in DOMAIN sides
      BY <1>1, <1>5, <3>1 DEF IInv, InputOK, QueryOK, JoinedBy
    <3>3. DOMAIN sides[s].get.filters = {}
      BY <3>1 DEF JoinedBy, Bare
    <3>4. sides'[s] = sides[s]
      BY <1>6, <3>2, <3>3, NothingToAnswer
    <3>5. JoinedBy(s, k)'
      BY <1>4, <3>1, <3>4 DEF JoinedBy
    <3> QED BY <1>4, <3>1, <3>5 DEF JoinedOK
  <2> QED BY <2>1, <2>2
<1>9. SidesOK' /\ InputOK'
  BY <1>1, <1>4, <1>5, <1>7 DEF IInv, SidesOK, InputOK, QueryOK
<1>10. NodesOK'
  BY <1>1, <1>2, <1>4, <1>8, HeadAndTail, VisitedKeeps DEF IInv
<1> QED BY <1>8, <1>9, <1>10 DEF IInv

\* The side an index join is built on is the query's own get (TryBuild).
LEMMA Built ==
    ASSUME IInv, query.kind = "join", NEW s \in {1, 2}, NEW type,
           IsJoinable(query.join, sides), CanBuild(tables, query.join, sides, s, type),
           joined' = {IndexJoin(tables, query.join, sides, s, type)},
           UNCHANGED <<tables, query, sides>>
    PROVE  JoinedOK'
<1> DEFINE own == query.gets[s]
           position == query.join.positions[s]
           found == JoinIndexes(tables[s], sides[s].get, position, type)
           first == CHOOSE j \in found : \A i \in found : j <= i
<1>1. s \in DOMAIN sides /\ GetOK(own) /\ Side(s) /\ IndexesOK(tables[s])
  BY DEF IInv, SidesOK, InputOK, QueryOK
<1>2. DOMAIN sides[s].get.filters = {} /\ found # {}
  BY DEF CanBuild, Fetchable
<1>3. sides[s] = Bare(own)
  <2>1. ASSUME NEW t, sides[s] = OptimizedGet(tables[s], own, t) PROVE FALSE
    <3>1. DOMAIN OptimizedGet(tables[s], own, t).get.filters # {}
      BY <1>1, OptimizedGetEmits DEF EmitsAs
    <3> QED BY <1>2, <2>1, <3>1
  <2> QED BY <1>1, <2>1 DEF Side
<1>4. sides[s].get = own
  BY <1>3 DEF Bare
<1>5. first \in found
  <2>1. found \in SUBSET Nat
    BY <1>1 DEF JoinIndexes, IndexesOK
  <2> HIDE DEF found
  <2> QED BY <1>2, <2>1, Least
<1>6. PICK k : k = first
  OBVIOUS
<1>7. /\ k \in DOMAIN tables[s].indexes
      /\ IndexColumnId(tables[s], k) = Physical(tables[s], own.columns[position])
  BY <1>4, <1>5, <1>6 DEF JoinIndexes
<1>8. joined' = {[indexed |-> s, column |-> tables[s].indexes[k].column,
                  probe_column |-> query.join.positions[3 - s]]}
  BY <1>6 DEF IndexJoin
<1>9. BareOverlap(query.join) /\ DOMAIN own.filters = {}
  BY <1>2, <1>4 DEF IsJoinable
<1>10. JoinedBy(s, k)'
  BY <1>3, <1>7, <1>8, <1>9 DEF JoinedBy
<1> QED BY <1>7, <1>10 DEF JoinedOK

\* A join becomes an index join at most once (TryOptimizeJoin).
LEMMA VisitJoinKeeps == IInv /\ VisitJoin => IInv'
<1>1. SUFFICES ASSUME IInv, VisitJoin PROVE IInv'
  OBVIOUS
<1>2. PICK type \in IndexTypes : type = Type /\ running \in 1 .. Len(Optimizers)
  BY <1>1, Running DEF VisitJoin
<1>3. /\ query.kind = "join" /\ UNCHANGED <<tables, query, sides>> /\ Visited(<<>>)
  BY <1>1 DEF VisitJoin
<1>4. PICK larger \in {1, 2} :
        joined' = TryOptimizeJoin(tables, query.join, sides, larger, type)
  BY <1>1, <1>2 DEF VisitJoin
<1>5. JoinedOK'
  <2>1. CASE joined' = {}
    BY <2>1 DEF JoinedOK
  <2>2. CASE /\ IsJoinable(query.join, sides)
             /\ CanBuild(tables, query.join, sides, larger, type)
             /\ joined' = {IndexJoin(tables, query.join, sides, larger, type)}
    BY <1>1, <1>3, <2>2, Built
  <2>3. CASE /\ IsJoinable(query.join, sides)
             /\ CanBuild(tables, query.join, sides, 3 - larger, type)
             /\ joined' = {IndexJoin(tables, query.join, sides, 3 - larger, type)}
    <3>1. PICK s \in {1, 2} : s = 3 - larger
      OBVIOUS
    <3> QED BY <1>1, <1>3, <2>3, <3>1, Built
  <2> QED BY <1>4, <2>1, <2>2, <2>3 DEF TryOptimizeJoin
<1>6. SidesOK' /\ InputOK'
  BY <1>1, <1>3 DEF IInv, SidesOK, Side, InputOK, QueryOK
<1>7. NodesOK'
  BY <1>1, <1>2, <1>3, <1>5, NoneLeft, VisitedKeeps DEF IInv
<1> QED BY <1>5, <1>6, <1>7 DEF IInv

\* Every step of the optimizers keeps what is known of the plan.
LEMMA Inductive == IInv /\ [Next]_vars => IInv'
<1>1. SUFFICES ASSUME IInv, [Next]_vars PROVE IInv'
  OBVIOUS
<1>2. CASE VisitTopN
  BY <1>1, <1>2, VisitTopNKeeps
<1>3. CASE VisitGet
  BY <1>1, <1>3, VisitGetKeeps
<1>4. CASE VisitJoin
  BY <1>1, <1>4, VisitJoinKeeps
<1>5. CASE NoJoin
  <2>1. UNCHANGED <<tables, query, sides, joined>> /\ Visited(<<>>) /\ running \in 1 .. Len(Optimizers)
    BY <1>5, Running DEF NoJoin
  <2>2. SidesOK' /\ InputOK' /\ JoinedOK'
    BY <1>1, <2>1 DEF IInv, SidesOK, Side, InputOK, QueryOK, JoinedOK, JoinedBy
  <2>3. NodesOK'
    BY <1>1, <2>1, <2>2, NoneLeft, VisitedKeeps DEF IInv
  <2> QED BY <2>2, <2>3 DEF IInv
<1>6. CASE UNCHANGED vars
  BY <1>1, <1>6 DEF IInv, SidesOK, Side, InputOK, QueryOK, JoinedOK, JoinedBy, NodesOK, vars
<1> QED BY <1>1, <1>2, <1>3, <1>4, <1>5, <1>6 DEF Next, Done

\* The optimizers rewrite neither the query nor the tables.
LEMMA InputStays == [Next]_vars => UNCHANGED <<tables, query>>
BY DEF Next, VisitTopN, VisitGet, VisitJoin, NoJoin, Done, vars

LEMMA Invariant == Spec => []IInv
BY InitHolds, Inductive, PTL DEF Spec

LEMMA PlainTablesStay ==
    ASSUME "generated" \notin Shapes
    PROVE  Spec => []PlainTables
<1>1. Init => PlainTables
  BY InitInput
<1>2. PlainTables /\ [Next]_vars => PlainTables'
  BY InputStays DEF PlainTables
<1> QED BY <1>1, <1>2, PTL DEF Spec

LEMMA PlainFiltersStay ==
    ASSUME RightFilters
    PROVE  Spec => []PlainFilters
<1>1. Init => PlainFilters
  BY InitInput
<1>2. PlainFilters /\ [Next]_vars => PlainFilters'
  BY InputStays DEF PlainFilters
<1> QED BY <1>1, <1>2, PTL DEF Spec

-----------------------------------------------------------------------------
(* What the plan answers.                                                  *)

\* For any query, tables and shapes, the plan stays one the optimizers can
\* visit, there is one index join at most, and what a filter above a get reads
\* the get emits (TryOptimizeLogicalGet).
THEOREM TypeCorrect == Spec => []TypeOK
<1>1. IInv => TypeOK
  <2>1. SUFFICES ASSUME IInv PROVE TypeOK
    OBVIOUS
  <2>2. running \in 1 .. Len(Optimizers) + 1 /\ nodes \in Seq({0, 1, 2}) \ {<<>>}
    BY <2>1 DEF IInv, NodesOK
  <2>3. DOMAIN sides = DOMAIN query.gets
    BY <2>1 DEF IInv, SidesOK
  <2>4. Cardinality(joined) <= 1
    <3>1. joined = {} \/ \E ij : joined = {ij}
      BY <2>1, JoinedOne DEF IInv
    <3>2. Cardinality({}) = 0 /\ \A ij : Cardinality({ij}) = 1
      BY FS_EmptySet, FS_Singleton
    <3> QED BY <3>1, <3>2
  <2>5. ASSUME NEW s \in DOMAIN sides
        PROVE  /\ sides[s].get.function \in {"seq_scan", "search", "nearest"}
               /\ Range(sides[s].projection_map) \subseteq DOMAIN Emitted(sides[s].get)
               /\ \A f \in sides[s].residual : f.position \in Range(Emitted(sides[s].get))
    <3>1. GetOK(query.gets[s]) /\ Side(s)
      BY <2>1, <2>3, <2>5 DEF IInv, InputOK, SidesOK
    <3>2. ASSUME NEW get, sides[s] = Bare(get), get.function \in {"seq_scan", "nearest"}
          PROVE  /\ sides[s].get.function \in {"seq_scan", "search", "nearest"}
                 /\ Range(sides[s].projection_map) \subseteq DOMAIN Emitted(sides[s].get)
                 /\ \A f \in sides[s].residual : f.position \in Range(Emitted(sides[s].get))
      <4>1. /\ sides[s].get = get /\ sides[s].residual = {} /\ sides[s].projection_map = <<>>
        BY <3>2 DEF Bare
      <4> QED BY <3>2, <4>1, NoPlaces
    <3>3. CASE sides[s] = Bare(query.gets[s])
      BY <3>1, <3>2, <3>3 DEF GetOK
    <3>4. ASSUME NEW type,
                 sides[s] = Bare(NearestGet(tables[s], query.top, query.gets[s], type))
          PROVE  /\ sides[s].get.function \in {"seq_scan", "search", "nearest"}
                 /\ Range(sides[s].projection_map) \subseteq DOMAIN Emitted(sides[s].get)
                 /\ \A f \in sides[s].residual : f.position \in Range(Emitted(sides[s].get))
      <4>1. NearestGet(tables[s], query.top, query.gets[s], type).function = "nearest"
        BY <3>1 DEF NearestGet, GetOK
      <4> QED BY <3>2, <3>4, <4>1
    <3>5. ASSUME NEW type, sides[s] = OptimizedGet(tables[s], query.gets[s], type)
          PROVE  /\ sides[s].get.function \in {"seq_scan", "search", "nearest"}
                 /\ Range(sides[s].projection_map) \subseteq DOMAIN Emitted(sides[s].get)
                 /\ \A f \in sides[s].residual : f.position \in Range(Emitted(sides[s].get))
      <4>1. EmitsAs(OptimizedGet(tables[s], query.gets[s], type), query.gets[s])
        BY <3>1, OptimizedGetEmits
      <4>2. EmitsAs(sides[s], query.gets[s])
        BY <3>5, <4>1
      <4> QED BY <4>2 DEF EmitsAs
    <3> QED BY <3>1, <3>3, <3>4, <3>5 DEF Side
  <2> QED BY <2>2, <2>3, <2>4, <2>5 DEF TypeOK
<1> QED BY <1>1, Invariant, PTL

\* For any query, tables and shapes, a get and the filter above it emit the
\* columns the query's get emits, in the same order, whatever columns a filter
\* had to read above it (TryOptimizeLogicalGet, TryOptimizeLogicalTopN).
THEOREM RewriteKeepsColumns == Spec => []ColumnsOfQuery
<1>1. IInv => ColumnsOfQuery
  <2>1. SUFFICES ASSUME IInv, NEW s \in DOMAIN sides
                 PROVE  SideEmits(sides[s]) = Emitted(query.gets[s])
    BY DEF ColumnsOfQuery
  <2>2. GetOK(query.gets[s]) /\ Side(s)
    BY <2>1 DEF IInv, InputOK, SidesOK
  <2>3. CASE sides[s] = Bare(query.gets[s])
    BY <2>3 DEF Bare, SideEmits
  <2>4. ASSUME NEW type,
               sides[s] = Bare(NearestGet(tables[s], query.top, query.gets[s], type))
        PROVE  SideEmits(sides[s]) = Emitted(query.gets[s])
    <3> DEFINE get == NearestGet(tables[s], query.top, query.gets[s], type)
    <3>1. get.columns = query.gets[s].columns /\ get.projection = query.gets[s].projection
      BY <2>2 DEF NearestGet, GetOK
    <3>2. Emitted(get) = Emitted(query.gets[s])
      BY <3>1 DEF Emitted
    <3> HIDE DEF get
    <3>3. sides[s].get = get /\ sides[s].projection_map = <<>>
      BY <2>4 DEF Bare, get
    <3> QED BY <3>2, <3>3 DEF SideEmits
  <2>5. ASSUME NEW type, sides[s] = OptimizedGet(tables[s], query.gets[s], type)
        PROVE  SideEmits(sides[s]) = Emitted(query.gets[s])
    <3>1. EmitsAs(OptimizedGet(tables[s], query.gets[s], type), query.gets[s])
      BY <2>2, OptimizedGetEmits
    <3>2. EmitsAs(sides[s], query.gets[s])
      BY <2>5, <3>1
    <3> QED BY <3>2 DEF EmitsAs
  <2> QED BY <2>2, <2>3, <2>4, <2>5 DEF Side
<1> QED BY <1>1, Invariant, PTL

\* For tables without generated columns, and filters on the columns themselves
\* against a constant that is a box where the index takes it for one, a get that an index of either type answers, with the filter above it, passes
\* exactly the rows of the query's get (TryOptimizeLogicalGet).
THEOREM RewriteKeepsRows ==
    ASSUME "generated" \notin Shapes, "computed" \notin Shapes, "misread" \notin Shapes
    PROVE  Spec => []RowsOfQuery
<1>1. IInv /\ PlainTables /\ PlainFilters => RowsOfQuery
  <2>1. SUFFICES ASSUME IInv, PlainTables, PlainFilters,
                        NEW s \in DOMAIN sides, sides[s].get.function = "search", NEW row \in Row
                 PROVE  SidePasses(sides[s], row) <=> Passes(query.gets[s], row)
    BY DEF RowsOfQuery
  <2>2. /\ GetOK(query.gets[s]) /\ Side(s) /\ IndexesOK(tables[s])
        /\ FiltersOK(query.gets[s]) /\ tables[s].generated = {}
    BY <2>1 DEF IInv, InputOK, SidesOK, PlainTables, PlainFilters
  <2>3. sides[s] # Bare(query.gets[s])
    BY <2>1, <2>2 DEF Bare, GetOK
  <2>4. ASSUME NEW type,
               sides[s] = Bare(NearestGet(tables[s], query.top, query.gets[s], type))
        PROVE  FALSE
    <3>1. sides[s].get = NearestGet(tables[s], query.top, query.gets[s], type)
      BY <2>4 DEF Bare
    <3> QED BY <2>1, <2>2, <3>1 DEF NearestGet, GetOK
  <2>5. PICK type \in IndexTypes :
          /\ FilterMatches(tables[s], query.gets[s], type) # {}
          /\ sides[s] = OptimizedGet(tables[s], query.gets[s], type)
    BY <2>2, <2>3, <2>4 DEF Side
  <2> QED BY <2>1, <2>2, <2>5, OptimizedGetAnswers
<1>2. RightFilters
  BY DEF RightFilters
<1> QED BY <1>1, <1>2, Invariant, PlainTablesStay, PlainFiltersStay, PTL

-----------------------------------------------------------------------------
(* Joins.                                                                  *)

\* The operator && of two boxes is the search of an index join, from
\* whichever side it is asked.
LEMMA OverlapHolds ==
    ASSUME NEW b \in Box, NEW c \in Box
    PROVE  /\ Holds("&&", b, c) <=> Related("extent", "overlaps", b, c)
           /\ Related("extent", "overlaps", b, c) <=> Related("extent", "overlaps", c, b)
<1>1. PICK e \in INDEX_OPERATORS : e.name = "&&" /\ e.axis = "extent" /\ e.relation = "overlaps"
  <2>1. [name |-> Extent["overlaps"], axis |-> "extent", relation |-> "overlaps"] \in INDEX_OPERATORS
    BY DEF INDEX_OPERATORS, Extent
  <2>2. Extent["overlaps"] = "&&"
    BY DEF Extent
  <2> QED BY <2>1, <2>2
<1>2. Holds("&&", b, c) <=> Related("extent", "overlaps", b, c)
  BY <1>1, OneEntry DEF Holds
<1>3. "overlaps" \in DOMAIN Commuted /\ Commuted["overlaps"] = "overlaps"
  BY DEF Commuted
<1> QED BY <1>2, <1>3, RelatedConverse

\* The probing side of an index join passes the rows of the query's get, and
\* emits what it reads when that does (TryOptimizeLogicalGet behind TryBuild).
LEMMA ProbingSide ==
    ASSUME IInv, PlainTables, PlainFilters, query.kind = "join", NEW s \in {1, 2}, NEW row \in Row
    PROVE  /\ SidePasses(sides[s], row) <=> Passes(query.gets[s], row)
           /\ sides[s].get.columns = query.gets[s].columns
           /\ query.gets[s].projection = <<>> => sides[s].get.projection = <<>>
<1>1. /\ s \in DOMAIN sides /\ GetOK(query.gets[s]) /\ Side(s) /\ IndexesOK(tables[s])
      /\ FiltersOK(query.gets[s]) /\ tables[s].generated = {}
  BY DEF IInv, InputOK, QueryOK, SidesOK, PlainTables, PlainFilters
<1>2. CASE sides[s] = Bare(query.gets[s])
  <2>1. sides[s].get = query.gets[s] /\ sides[s].residual = {}
    BY <1>2 DEF Bare
  <2> QED BY <2>1 DEF SidePasses
<1>3. ASSUME NEW type, FilterMatches(tables[s], query.gets[s], type) # {},
             sides[s] = OptimizedGet(tables[s], query.gets[s], type)
      PROVE  /\ SidePasses(sides[s], row) <=> Passes(query.gets[s], row)
             /\ sides[s].get.columns = query.gets[s].columns
             /\ query.gets[s].projection = <<>> => sides[s].get.projection = <<>>
  <2>1. SidePasses(sides[s], row) <=> Passes(query.gets[s], row)
    BY <1>1, <1>3, OptimizedGetAnswers
  <2>2. EmitsAs(OptimizedGet(tables[s], query.gets[s], type), query.gets[s])
    BY <1>1, OptimizedGetEmits
  <2>3. EmitsAs(sides[s], query.gets[s])
    BY <1>3, <2>2
  <2> QED BY <2>1, <2>3 DEF EmitsAs
<1> QED BY <1>1, <1>2, <1>3 DEF Side

\* For tables without generated columns, filters on the columns themselves
\* against boxes and probing sides that are not pruned, an index join answers the pairs of the
\* query's join, whichever side it was built on and whatever the optimizers
\* behind it made of the other (TryOptimizeJoin, TryBuild).
THEOREM JoinKeepsPairs ==
    ASSUME Shapes = {}
    PROVE  Spec => []PairsOfQuery
<1>1. IInv /\ PlainTables /\ PlainFilters => PairsOfQuery
  <2>1. SUFFICES ASSUME IInv, PlainTables, PlainFilters, NEW ij \in joined, NEW rows \in Row \X Row
                 PROVE  IndexJoinMeets(ij, sides, rows) <=>
                            /\ Passes(query.gets[1], rows[1]) /\ Passes(query.gets[2], rows[2])
                            /\ Meets(query.join, query.gets, rows)
    BY DEF PairsOfQuery
  <2>2. PICK s \in {1, 2} : \E k \in DOMAIN tables[s].indexes : JoinedBy(s, k)
    BY <2>1 DEF IInv, JoinedOK
  <2>3. PICK k \in DOMAIN tables[s].indexes : JoinedBy(s, k)
    BY <2>2
  <2>4. /\ query.kind = "join" /\ sides[s] = Bare(query.gets[s]) /\ DOMAIN query.gets[s].filters = {}
        /\ IndexColumnId(tables[s], k) =
               Physical(tables[s], query.gets[s].columns[query.join.positions[s]])
        /\ ij = [indexed |-> s, column |-> tables[s].indexes[k].column,
                 probe_column |-> query.join.positions[3 - s]]
    BY <2>1, <2>3 DEF JoinedBy
  <2>5. PICK p \in {1, 2} : p = 3 - s
    OBVIOUS
  <2> DEFINE place(q) == query.join.positions[q]
             column(q) == query.gets[q].columns[place(q)]
  <2>6. ASSUME NEW q \in {1, 2}
        PROVE  /\ query.gets[q].projection = <<>> /\ GetOK(query.gets[q])
               /\ place(q) \in DOMAIN query.gets[q].columns /\ column(q) \in Column
               /\ rows[q] \in Row /\ rows[q][column(q)] \in Box
    <3>1. /\ GetOK(query.gets[q]) /\ Whole(query.gets[q]) /\ query.join \in Joins(query.gets)
      BY <2>1, <2>4 DEF IInv, InputOK, QueryOK
    <3>2. query.gets[q].projection = <<>>
      BY <3>1 DEF Whole
    <3>3. query.join.positions \in Joinable(query.gets[1]) \X Joinable(query.gets[2])
      BY <3>1 DEF Joins
    <3>4. place(q) \in Joinable(query.gets[q])
      BY <3>3
    <3>5. Range(Emitted(query.gets[q])) = DOMAIN query.gets[q].columns
      BY <3>2 DEF Emitted, Range
    <3>6. place(q) \in DOMAIN query.gets[q].columns /\ column(q) # RowId
      BY <3>4, <3>5 DEF Joinable
    <3>7. column(q) \in Column
      <4>1. query.gets[q].columns \in Seq(Column \union {RowId})
        BY <3>1 DEF GetOK
      <4>2. \A i \in DOMAIN query.gets[q].columns : query.gets[q].columns[i] \in Column \union {RowId}
        BY <4>1, Elements
      <4> QED BY <3>6, <4>2
    <3>8. rows[q] \in Row
      BY <2>1
    <3>9. rows[q][column(q)] \in Box
      BY <3>7, <3>8, BoxesAssumption DEF Row, Box, Interval
    <3> QED BY <3>1, <3>2, <3>6, <3>7, <3>8, <3>9
  <2>7. tables[s].indexes[k].column = column(s)
    <3>1. /\ IndexesOK(tables[s]) /\ tables[s].generated = {}
      BY <2>1, <2>4 DEF IInv, InputOK, QueryOK, PlainTables
    <3>2. IndexColumnId(tables[s], k) = tables[s].indexes[k].column
      BY <3>1, IndexedColumn
    <3>3. Physical(tables[s], column(s)) = column(s)
      BY <2>6, <3>1, PhysicalSame
    <3> QED BY <2>4, <3>2, <3>3
  <2>8. Passes(query.gets[s], rows[s])
    BY <2>4, <2>6 DEF Passes, GetOK
  <2>9. /\ SidePasses(sides[p], rows[p]) <=> Passes(query.gets[p], rows[p])
        /\ sides[p].get.columns = query.gets[p].columns /\ sides[p].get.projection = <<>>
    BY <2>1, <2>4, <2>6, ProbingSide
  <2>10. Emitted(sides[p].get) = [i \in DOMAIN query.gets[p].columns |-> i]
    BY <2>9 DEF Emitted
  <2>11. place(p) \in DOMAIN Emitted(sides[p].get) /\ InChunk(sides[p].get, place(p)) = column(p)
    BY <2>6, <2>9, <2>10 DEF InChunk
  <2>12. ij.indexed = s /\ ij.column = column(s) /\ ij.probe_column = place(p)
    BY <2>4, <2>5, <2>7
  <2> DEFINE overlap(q, r) == Related("extent", "overlaps", rows[q][column(q)], rows[r][column(r)])
  <2>13. IndexJoinMeets(ij, sides, rows) <=>
             Passes(query.gets[p], rows[p]) /\ overlap(s, p)
    <3> HIDE DEF column, place
    <3> QED BY <2>5, <2>9, <2>11, <2>12 DEF IndexJoinMeets, Searched
  <2>14. Meets(query.join, query.gets, rows) <=> overlap(1, 2)
    BY <2>6, OverlapHolds DEF Meets
  <2>15. overlap(1, 2) <=> overlap(2, 1)
    BY <2>6, OverlapHolds
  <2> HIDE DEF overlap
  <2>16. (s = 1 /\ p = 2) \/ (s = 2 /\ p = 1)
    BY <2>5
  <2> QED BY <2>8, <2>13, <2>14, <2>15, <2>16
<1>2. "generated" \notin Shapes /\ RightFilters
  BY DEF RightFilters
<1> QED BY <1>1, <1>2, Invariant, PlainTablesStay, PlainFiltersStay, PTL


-----------------------------------------------------------------------------
(* The nearest rows.                                                       *)

\* A set L that is not within n holds all of n: up to the size of n, as many
\* places are taken by the elements of L among n as among all.
LEMMA SamePlaces ==
    ASSUME NEW R, IsFiniteSet(R), NEW n \in SUBSET R, NEW L \in SUBSET R,
           \A r \in n, q \in L \ n : r \in L,
           NEW i \in Nat, i <= Cardinality(n)
    PROVE  /\ Cardinality(L \intersect n) < i <=> Cardinality(L) < i
           /\ i <= Cardinality(L \intersect n) <=> i <= Cardinality(L)
<1>1. IsFiniteSet(L) /\ IsFiniteSet(n)
  BY FS_Subset
<1>2. CASE L \subseteq n
  <2>1. L \intersect n = L
    BY <1>2
  <2> QED BY <2>1
<1>3. CASE ~ (L \subseteq n)
  <2>1. n \subseteq L /\ L \intersect n = n
    BY <1>3
  <2>2. Cardinality(n) <= Cardinality(L)
    BY <1>1, <2>1, FS_Subset
  <2>3. Cardinality(n) \in Nat /\ Cardinality(L) \in Nat
    BY <1>1, FS_CardinalityType
  <2> QED BY <2>1, <2>2, <2>3
<1> QED BY <1>2, <1>3

\* Of k rows that the index proves nearest, the first k distances are those of
\* the whole table: no row left out has a smaller one.
LEMMA NearestPlaces ==
    ASSUME NEW distance \in [Ranked -> Distance], NEW k \in Nat,
           NEW n \in NearestRows(distance, k), NEW i \in 1 .. k
    PROVE  DistanceAt(n, distance, i) = DistanceAt(Ranked, distance, i)
<1>1. IsFiniteSet(Ranked) /\ Cardinality(Ranked) = Ranks
  BY NearestAssumption, FS_Interval DEF Ranked
<1>2. /\ n \in SUBSET Ranked /\ Cardinality(n) = Min({k, Ranks})
      /\ \A r \in n, q \in Ranked \ n : distance[r] <= distance[q]
  BY <1>1 DEF NearestRows
<1>3. Cardinality(n) = k \/ Cardinality(n) = Ranks
  BY <1>2, NearestAssumption DEF Min
<1>4. CASE Cardinality(n) = Ranks
  <2>1. n = Ranked
    BY <1>1, <1>2, <1>4, FS_Subset
  <2> QED BY <2>1
<1>5. CASE Cardinality(n) = k
  <2>1. SUFFICES ASSUME NEW d \in Distance
                 PROVE  d \in DistanceAt(n, distance, i) <=> d \in DistanceAt(Ranked, distance, i)
    BY DEF DistanceAt
  <2> DEFINE under  == {r \in Ranked : distance[r] < d}
             within == {r \in Ranked : distance[r] <= d}
  <2>2. d \in Int /\ \A r \in Ranked : distance[r] \in Int
    BY NearestAssumption
  <2>3. /\ \A r \in n, q \in under \ n : r \in under
        /\ \A r \in n, q \in within \ n : r \in within
    BY <1>2, <2>2
  <2>4. /\ {r \in n : distance[r] < d} = under \intersect n
        /\ {r \in n : distance[r] <= d} = within \intersect n
    BY <1>2
  <2>5. i \in Nat /\ i <= Cardinality(n)
    BY <1>5
  <2>6. under \in SUBSET Ranked /\ within \in SUBSET Ranked
    OBVIOUS
  <2> HIDE DEF under, within
  <2>7. Cardinality(under \intersect n) < i <=> Cardinality(under) < i
    BY <1>1, <1>2, <2>3, <2>5, <2>6, SamePlaces
  <2>8. i <= Cardinality(within \intersect n) <=> i <= Cardinality(within)
    BY <1>1, <1>2, <2>3, <2>5, <2>6, SamePlaces
  <2> QED BY <2>4, <2>7, <2>8 DEF DistanceAt, under, within
<1> QED BY <1>3, <1>4, <1>5

\* A get that answers nearest first has no filters, reads the index over the
\* column the TopN measures and asks it for every row the TopN may skip or
\* answer (TryOptimizeLogicalTopN).
LEMMA NearestAsks ==
    ASSUME IInv, PlainTables, query.kind = "topn", sides[1].get.function = "nearest"
    PROVE  /\ DOMAIN query.gets[1].filters = {}
           /\ query.top.offset \in Nat /\ query.top.limit \in Nat
           /\ sides[1].get.bind_data.limit = query.top.offset + query.top.limit
           /\ sides[1].get.bind_data.column =
                  query.gets[1].columns[query.top.orders[1].position]
<1> DEFINE own == query.gets[1]
           table == tables[1]
           top == query.top
<1>1. /\ GetOK(own) /\ IndexesOK(table) /\ table.generated = {} /\ top \in Tops(own) /\ Side(1)
  BY DEF IInv, InputOK, QueryOK, SidesOK, PlainTables
<1>2. sides[1] # Bare(own)
  <2>1. Bare(own).get.function = "seq_scan"
    BY <1>1 DEF Bare, GetOK
  <2> QED BY <2>1
<1>3. \A type : sides[1] # OptimizedGet(table, own, type)
  <2>1. \A type : OptimizedGet(table, own, type).get.function = "search"
    BY <1>1, Searches
  <2> QED BY <2>1
<1>4. PICK type \in IndexTypes :
        /\ PlainGet(own) /\ NearestMatches(table, top, own, type) # {}
        /\ sides[1] = Bare(NearestGet(table, top, own, type))
  BY <1>1, <1>2, <1>3 DEF Side
<1> DEFINE matches == NearestMatches(table, top, own, type)
           k == Min(matches)
<1>5. sides[1].get.bind_data = [column |-> table.indexes[k].column, limit |-> Wanted(top)]
  <2>1. sides[1].get = NearestGet(table, top, own, type)
    BY <1>4 DEF Bare
  <2> QED BY <1>1, <2>1 DEF NearestGet, GetOK
<1>6. k \in matches
  <2>1. DOMAIN table.indexes \in SUBSET Nat
    BY <1>1 DEF IndexesOK
  <2>2. matches \in SUBSET Nat
    BY <2>1 DEF NearestMatches
  <2> HIDE DEF matches
  <2>3. \E x \in matches : \A y \in matches : x <= y
    BY <1>4, <2>2, Least DEF matches
  <2> QED BY <2>3 DEF Min
<1>7. /\ k \in DOMAIN table.indexes /\ Reads(own, IndexColumnId(table, k))
      /\ top.orders[1].position = PositionOf(own, IndexColumnId(table, k))
  BY <1>6 DEF NearestMatches
<1> HIDE DEF k, matches
<1>8. own.columns[top.orders[1].position] = IndexColumnId(table, k)
  BY <1>7, PositionReads
<1>9. IndexColumnId(table, k) = table.indexes[k].column
  BY <1>1, <1>7, IndexedColumn
<1>10. top.offset \in Nat /\ top.limit \in Nat
  BY <1>1, NearestAssumption DEF Tops
<1> QED BY <1>4, <1>5, <1>8, <1>9, <1>10 DEF PlainGet, Wanted

\* For tables without generated columns, any number of rows and any distances,
\* a TopN that is answered nearest first orders by the column of the index it
\* reads and answers the distances it answers over the whole table
\* (TryOptimizeLogicalTopN).
THEOREM NearestIsEnough ==
    ASSUME "generated" \notin Shapes
    PROVE  Spec => []NearestEnough
<1>1. IInv /\ PlainTables => NearestEnough
  <2>1. SUFFICES ASSUME IInv, PlainTables, query.kind = "topn", sides[1].get.function = "nearest"
                 PROVE  NearestEnough
    BY DEF NearestEnough
  <2> DEFINE wanted == query.top.offset + query.top.limit
  <2>2. /\ DOMAIN query.gets[1].filters = {}
        /\ query.top.offset \in Nat /\ query.top.limit \in Nat
        /\ sides[1].get.bind_data.limit = wanted
        /\ sides[1].get.bind_data.column =
               query.gets[1].columns[query.top.orders[1].position]
    BY <2>1, NearestAsks
  <2>3. ASSUME NEW distance \in [Ranked -> Distance], NEW n \in NearestRows(distance, wanted),
               NEW i \in query.top.offset + 1 .. wanted
        PROVE  DistanceAt(n, distance, i) = DistanceAt(Ranked, distance, i)
    <3>1. wanted \in Nat /\ i \in 1 .. wanted
      BY <2>2
    <3> HIDE DEF wanted
    <3> QED BY <3>1, NearestPlaces
  <2> QED BY <2>2, <2>3 DEF NearestEnough
<1> QED BY <1>1, Invariant, PlainTablesStay, PTL
=============================================================================
