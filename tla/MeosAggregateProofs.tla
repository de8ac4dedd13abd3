------------------------- MODULE MeosAggregateProofs -------------------------
(***************************************************************************)
(* What the partial states of an aggregate own, and what its answer is     *)
(* over, for any rows, partial states and spans.                           *)
(***************************************************************************)
EXTENDS MeosAggregate, TLAPS

\* Where the partial states are: one is finished when the others were merged.
Stages ==
    /\ \A p \in Partial : status[p] \in {"folding", "finished"} =>
           /\ unread = {}
           /\ \A q \in Partial : q # p => status[q] \in {"merged", "destroyed"}
    /\ \A p \in Partial : status[p] = "finished" => answers # {}
    /\ answers # {} => unread = {} /\ \A p \in Partial : status[p] \notin {"open", "folding"}

\* What the two kinds of aggregates use, and the vectors' owners.
Pointers ==
    /\ span \in [Row -> Spans]
    /\ \A p \in Partial : ~ Gathers => rows[p] = Null
    /\ \A p \in Partial : Gathers /\ status[p] = "open" => state[p] = Null
    /\ \A p \in Partial : rows[p] # Null /\ rows[p] # p => status[rows[p]] # "open"
    /\ \A p \in Partial : status[p] = "open" /\ rows[p] = Null => held[p] = {}
    /\ \A p \in Partial : state[p] # Null => state[p] \notin unread

\* Rows are in one place.
Places ==
    /\ \A v \in Partial : held[v] \subseteq NoneNull /\ held[v] \cap unread = {}
    /\ \A o \in Row : folded[o] \subseteq NoneNull /\ folded[o] \cap unread = {}
    /\ \A p, q \in Partial : p # q /\ rows[p] # Null /\ rows[q] # Null =>
           held[rows[p]] \cap held[rows[q]] = {}

\* A row of the vector that is being folded is past none that was folded.
InOrder ==
    /\ raised = "no" /\ Gathers => \A p \in Partial :
         status[p] \in {"open", "folding"} /\ state[p] = Null => \A o \in Row : folded[o] = {}
    /\ \A p \in Partial : status[p] = "folding" /\ rows[p] # Null =>
           \A q \in Past(p), r \in held[rows[p]] : q # r /\ span[q][1] <= span[r][1]

\* No row is lost while the query runs.
At(r, p) == \/ rows[p] # Null /\ r \in held[rows[p]]
            \/ state[p] # Null /\ r \in folded[state[p]]
Accounted ==
    raised = "no" /\ answers = {} =>
        \A r \in NoneNull : r \in unread \/ \E p \in Partial : At(r, p)

\* What is allocated is pointed to, but for what exceptions lost.
Clean == raised \notin {"read", "combine", "final"} /\ ~ dropped
NothingLost ==
    Clean =>
        /\ \A r \in Row : RowBlock(r) \in heap =>
               \E p \in Partial : rows[p] # Null /\ r \in held[rows[p]]
        /\ \A v \in Partial : VectorBlock(v) \in heap => \E p \in Partial : rows[p] = v
        /\ \A o \in Row : StateBlock(o) \in heap /\ ~ Gathers => \E p \in Partial : state[p] = o

IInv ==
    /\ TypeOK /\ OwnedOnce /\ AnswerWhole /\ RefusedOnlyOverlapping
    /\ Stages /\ Pointers /\ Places /\ InOrder /\ Accounted /\ NothingLost
-----------------------------------------------------------------------------
\* SkipRow: only unread changes.
LEMMA SkipRowKeeps ==
    ASSUME IInv, NEW p \in Partial, NEW r \in Row, SkipRow(p, r)
    PROVE  IInv'
<1>1. TypeOK'
  BY DEF IInv, SkipRow, data, objects, outcome, TypeOK
<1>2. OwnedOnce'
  BY DEF IInv, SkipRow, objects, OwnedOnce
<1>3. AnswerWhole'
  BY DEF IInv, SkipRow, Updating, outcome, AnswerWhole, Stages, Places, Accounted,
     At, Past, NoneNull, Skips
<1>4. RefusedOnlyOverlapping'
  BY DEF IInv, SkipRow, data, outcome, RefusedOnlyOverlapping
<1>5. Stages'
  BY DEF IInv, SkipRow, outcome, Stages
<1>6. Pointers'
  BY DEF IInv, SkipRow, data, objects, Pointers, Gathers
<1>7. Places'
  BY DEF IInv, SkipRow, Updating, objects, Places, NoneNull, Skips
<1>8. InOrder'
  BY DEF IInv, SkipRow, data, objects, outcome, InOrder, Past, Gathers
<1>9. Accounted'
  BY DEF IInv, SkipRow, objects, outcome, Accounted, At, NoneNull, Skips
<1>10. NothingLost'
  BY DEF IInv, SkipRow, data, objects, outcome, NothingLost, Clean, Gathers,
     RowBlock, StateBlock, VectorBlock
<1> QED BY <1>1, <1>2, <1>3, <1>4, <1>5, <1>6, <1>7, <1>8, <1>9, <1>10 DEF IInv

\* GatherRow: the row joins the partial state's own vector.
LEMMA GatherRowKeeps ==
    ASSUME IInv, NEW p \in Partial, NEW r \in Row, GatherRow(p, r)
    PROVE  IInv'
<1>1. TypeOK'
  BY DEF IInv, GatherRow, Updating, data, outcome, TypeOK, Blocks, RowBlock,
     StateBlock, VectorBlock
<1>2. OwnedOnce'
  BY DEF IInv, GatherRow, Updating, OwnedOnce, Stages, Pointers, Places, Statuses,
     Gathers, RowBlock, StateBlock, VectorBlock, NoneNull, Skips
<1>3. AnswerWhole'
  BY DEF IInv, GatherRow, outcome, AnswerWhole, NoneNull, Skips
<1>4. RefusedOnlyOverlapping'
  BY DEF IInv, GatherRow, data, outcome, RefusedOnlyOverlapping
<1>5. Stages'
  BY DEF IInv, GatherRow, outcome, Stages
<1>6. Pointers'
  BY NullAssumption DEF IInv, GatherRow, data, Pointers, TypeOK, Statuses, Gathers
<1>7. Places'
  BY DEF IInv, GatherRow, Updating, TypeOK, OwnedOnce, Places, Pointers, Stages,
     Statuses, NoneNull, Skips
<1>8. InOrder'
  BY DEF IInv, GatherRow, Updating, InOrder, Stages, Pointers, Places, Past,
     Gathers, Spans, NoneNull, Skips
<1>9. Accounted'
  BY NullAssumption DEF IInv, GatherRow, outcome, Accounted, TypeOK, Statuses, At, NoneNull, Skips
<1>10. NothingLost'
  BY NullAssumption DEF IInv, GatherRow, data, outcome, NothingLost, TypeOK,
     Statuses, Clean, Gathers, RowBlock, StateBlock, VectorBlock
<1> QED BY <1>1, <1>2, <1>3, <1>4, <1>5, <1>6, <1>7, <1>8, <1>9, <1>10 DEF IInv

\* FoldRow: the row's block becomes, or joins, the state object.
LEMMA FoldRowKeeps ==
    ASSUME IInv, NEW p \in Partial, NEW r \in Row, FoldRow(p, r)
    PROVE  IInv'
<1>1. TypeOK'
  BY DEF IInv, FoldRow, Updating, Fold, data, outcome, TypeOK, Reasons, Blocks,
     RowBlock, StateBlock, VectorBlock
<1>2. OwnedOnce'
  BY DEF IInv, FoldRow, Updating, Fold, OwnedOnce, Stages, Pointers, Places,
     Statuses, Gathers, RowBlock, StateBlock, VectorBlock, NoneNull, Skips
<1>3. AnswerWhole'
  BY DEF IInv, FoldRow, outcome, AnswerWhole, NoneNull, Skips
<1>4. RefusedOnlyOverlapping'
  BY DEF IInv, FoldRow, data, outcome, RefusedOnlyOverlapping
<1>5. Stages'
  BY DEF IInv, FoldRow, outcome, Stages
<1>6. Pointers'
  BY DEF IInv, FoldRow, Fold, data, Pointers, Gathers
<1>7. Places'
  BY DEF IInv, FoldRow, Updating, Fold, Places, NoneNull, Skips
<1>8. InOrder'
  BY DEF IInv, FoldRow, data, InOrder, Stages, Pointers, Places, Past, Gathers,
     Spans, NoneNull, Skips
<1>9. Accounted'
  <2>1. NoneNull' = NoneNull /\ NoneNull \subseteq Row
    BY DEF FoldRow, NoneNull
  <2> QED BY NullAssumption, <2>1 DEF IInv, FoldRow, Updating, Fold, outcome, Accounted,
             TypeOK, Statuses, At
<1>10. NothingLost'
  BY NullAssumption DEF IInv, FoldRow, Fold, outcome, NothingLost, TypeOK, Statuses,
     Clean, Gathers, RowBlock, StateBlock, VectorBlock
<1> QED BY <1>1, <1>2, <1>3, <1>4, <1>5, <1>6, <1>7, <1>8, <1>9, <1>10 DEF IInv

\* RefuseRow: the row is released and the query has ended.
LEMMA RefuseRowKeeps ==
    ASSUME IInv, NEW p \in Partial, NEW r \in Row, RefuseRow(p, r)
    PROVE  IInv'
<1>1. TypeOK'
  BY DEF IInv, RefuseRow, data, objects, TypeOK, Reasons, Blocks, RowBlock,
     StateBlock, VectorBlock
<1>2. OwnedOnce'
  BY DEF IInv, RefuseRow, objects, OwnedOnce
<1>3. AnswerWhole'
  BY DEF IInv, RefuseRow, AnswerWhole, NoneNull
<1>4. RefusedOnlyOverlapping'
  BY DEF IInv, RefuseRow, RefusedOnlyOverlapping
<1>5. Stages'
  BY DEF IInv, RefuseRow, Stages
<1>6. Pointers'
  BY DEF IInv, RefuseRow, data, objects, Pointers, Gathers
<1>7. Places'
  BY DEF IInv, RefuseRow, objects, Places, NoneNull
<1>8. InOrder'
  BY DEF IInv, RefuseRow, data, objects, InOrder, Past
<1>9. Accounted'
  BY DEF IInv, RefuseRow, Accounted, NoneNull
<1>10. NothingLost'
  BY DEF IInv, RefuseRow, Updating, objects, NothingLost, Clean, RowBlock,
     StateBlock, VectorBlock
<1> QED BY <1>1, <1>2, <1>3, <1>4, <1>5, <1>6, <1>7, <1>8, <1>9, <1>10 DEF IInv

\* ReadRaises: a row block is lost, the query is not Clean.
LEMMA ReadRaisesKeeps ==
    ASSUME IInv, NEW p \in Partial, NEW r \in Row, ReadRaises(p, r)
    PROVE  IInv'
<1>1. TypeOK'
  BY DEF IInv, ReadRaises, data, objects, TypeOK, Reasons, Blocks, RowBlock,
     StateBlock, VectorBlock
<1>2. OwnedOnce'
  BY DEF IInv, ReadRaises, objects, OwnedOnce
<1>3. AnswerWhole'
  BY DEF IInv, ReadRaises, AnswerWhole, NoneNull
<1>4. RefusedOnlyOverlapping'
  BY DEF IInv, ReadRaises, RefusedOnlyOverlapping
<1>5. Stages'
  BY DEF IInv, ReadRaises, Stages
<1>6. Pointers'
  BY DEF IInv, ReadRaises, data, objects, Pointers, Gathers
<1>7. Places'
  BY DEF IInv, ReadRaises, objects, Places, NoneNull
<1>8. InOrder'
  BY DEF IInv, ReadRaises, data, objects, InOrder, Past
<1>9. Accounted'
  BY DEF IInv, ReadRaises, Accounted, NoneNull
<1>10. NothingLost'
  BY DEF IInv, ReadRaises, NothingLost, Clean, RowBlock, StateBlock, VectorBlock
<1> QED BY <1>1, <1>2, <1>3, <1>4, <1>5, <1>6, <1>7, <1>8, <1>9, <1>10 DEF IInv

\* CombineRows: the vectors become one; a vector that is left is freed.
LEMMA CombineRowsKeeps ==
    ASSUME IInv, NEW a \in Partial, NEW b \in Partial, CombineRows(a, b)
    PROVE  IInv'
<1>1. TypeOK'
  <2>1. CASE rows[b] = Null
    BY <2>1 DEF IInv, CombineRows, Combining, data, input, outcome, TypeOK, Stages,
       Pointers, Gathers, Past, Statuses, Reasons, Blocks, RowBlock, StateBlock,
       VectorBlock
  <2>2. CASE rows[b] # Null /\ rows[a] = Null
    BY <2>2 DEF IInv, CombineRows, Combining, RowsMoved, data, input, outcome,
       TypeOK, Stages, Pointers, Gathers, Past, Statuses, Reasons, Blocks, RowBlock,
       StateBlock, VectorBlock
  <2>3. CASE rows[b] # Null /\ rows[a] # Null
    BY <2>3 DEF IInv, CombineRows, Combining, RowsMoved, data, input, outcome,
       TypeOK, Stages, Pointers, Gathers, Past, Statuses, Reasons, Blocks, RowBlock,
       StateBlock, VectorBlock
  <2> QED BY <2>1, <2>2, <2>3
<1>2. OwnedOnce'
  <2>1. CASE rows[b] = Null
    BY <2>1 DEF IInv, CombineRows, OwnedOnce
  <2>2. CASE rows[b] # Null /\ rows[a] = Null
    BY <2>2 DEF IInv, CombineRows, RowsMoved, TypeOK, OwnedOnce, Stages, Pointers,
       Places, Statuses, Gathers, RowBlock, StateBlock, VectorBlock, NoneNull
  <2>3. CASE rows[b] # Null /\ rows[a] # Null
    <3>1. /\ rows' = [rows EXCEPT ![b] = Null]
          /\ held' = [held EXCEPT ![rows[a]] = @ \union held[rows[b]], ![rows[b]] = {}]
          /\ heap' = heap \ {VectorBlock(rows[b])} /\ state' = state /\ a # b
      BY <2>3 DEF CombineRows, Combining, RowsMoved, objects
    <3>2. rows[a] \in Partial /\ rows[b] \in Partial /\ rows[a] # rows[b]
      BY <2>3, <3>1 DEF IInv, TypeOK, OwnedOnce
    <3>typed. held \in [Partial -> SUBSET Row]
      BY DEF IInv, TypeOK
    <3>3. ASSUME NEW q \in Partial, rows'[q] # Null
          PROVE  /\ VectorBlock(rows'[q]) \in heap'
                 /\ \A r \in held'[rows'[q]] : RowBlock(r) \in heap'
      <4>1. rows'[q] = rows[q] /\ rows[q] \in Partial /\ rows[q] # rows[b]
        BY <2>3, <3>1, <3>3 DEF IInv, TypeOK, OwnedOnce
      <4>2. CASE rows[q] = rows[a]
        <5>1. held'[rows[q]] = held[rows[a]] \union held[rows[b]]
          <6>1. held'[rows[a]] = held[rows[a]] \union held[rows[b]]
            BY <3>1, <3>2, <3>typed
          <6> QED BY <4>2, <6>1
        <5>2. \A r \in held[rows[a]] \union held[rows[b]] : RowBlock(r) \in heap
          BY <2>3 DEF IInv, OwnedOnce
        <5>3. VectorBlock(rows[q]) \in heap /\ VectorBlock(rows[q]) # VectorBlock(rows[b])
          BY <3>3, <4>1 DEF IInv, OwnedOnce, VectorBlock
        <5>4. \A r \in Row : RowBlock(r) # VectorBlock(rows[b])
          BY DEF RowBlock, VectorBlock
        <5> QED BY <3>1, <3>2, <3>typed, <4>1, <5>1, <5>2, <5>3, <5>4
      <4>3. CASE rows[q] # rows[a]
        <5>1. held'[rows[q]] = held[rows[q]]
          BY <3>1, <3>2, <3>typed, <4>1, <4>3
        <5> QED BY <3>1, <3>3, <4>1, <5>1 DEF IInv, OwnedOnce, RowBlock, VectorBlock
      <4> QED BY <4>2, <4>3
    <3>4. \A q \in Partial : state'[q] # Null => StateBlock(state'[q]) \in heap'
      BY <3>1 DEF IInv, OwnedOnce, StateBlock, VectorBlock
    <3>5. \A q, s \in Partial : q # s =>
             /\ state'[q] # Null => state'[q] # state'[s]
             /\ rows'[q] # Null => rows'[q] # rows'[s]
      BY NullAssumption, <3>1 DEF IInv, OwnedOnce, TypeOK
    <3> QED BY <3>3, <3>4, <3>5 DEF OwnedOnce
  <2> QED BY <2>1, <2>2, <2>3
<1>3. AnswerWhole'
  BY DEF IInv, CombineRows, input, outcome, AnswerWhole, NoneNull
<1>4. RefusedOnlyOverlapping'
  BY DEF IInv, CombineRows, data, outcome, RefusedOnlyOverlapping
<1>5. Stages'
  BY DEF IInv, CombineRows, input, outcome, Stages
<1>6. Pointers'
  BY DEF IInv, CombineRows, RowsMoved, data, input, Pointers, TypeOK, Gathers
<1>7. Places'
  <2>1. /\ NoneNull' = NoneNull /\ unread' = unread /\ folded' = folded
        /\ held \in [Partial -> SUBSET Row] /\ rows \in [Partial -> Partial \union {Null}]
        /\ a # b
    BY DEF IInv, CombineRows, Combining, input, TypeOK, NoneNull
  <2>2. CASE rows[b] = Null
    <3>1. rows' = rows /\ held' = held
      BY <2>2 DEF CombineRows
    <3> QED BY <2>1, <3>1 DEF IInv, Places
  <2>3. CASE rows[b] # Null /\ rows[a] = Null
    <3>1. rows' = [rows EXCEPT ![a] = rows[b], ![b] = Null] /\ held' = held
      BY <2>3 DEF CombineRows, RowsMoved
    <3> QED BY <2>1, <2>3, <3>1 DEF IInv, Places
  <2>4. CASE rows[b] # Null /\ rows[a] # Null
    <3>1. /\ rows' = [rows EXCEPT ![b] = Null]
          /\ held' = [held EXCEPT ![rows[a]] = @ \union held[rows[b]], ![rows[b]] = {}]
      BY <2>4 DEF CombineRows, RowsMoved
    <3>2. rows[a] \in Partial /\ rows[b] \in Partial /\ rows[a] # rows[b]
      BY <2>1, <2>4 DEF IInv, OwnedOnce
    <3>3. \A v \in Partial : held'[v] = IF v = rows[b] THEN {}
                                       ELSE IF v = rows[a] THEN held[rows[a]] \union held[rows[b]]
                                       ELSE held[v]
      BY <2>1, <3>1, <3>2
    <3>4. \A v \in Partial : held'[v] \subseteq NoneNull /\ held'[v] \cap unread = {}
      BY <3>2, <3>3 DEF IInv, Places
    <3>5. ASSUME NEW q \in Partial, NEW s \in Partial, q # s, rows'[q] # Null, rows'[s] # Null
          PROVE  held'[rows'[q]] \cap held'[rows'[s]] = {}
      <4>1. /\ q # b /\ s # b /\ rows'[q] = rows[q] /\ rows'[s] = rows[s]
            /\ rows[q] # Null /\ rows[s] # Null
        BY <2>1, <3>1, <3>5
      <4>2. /\ rows[q] \in Partial /\ rows[s] \in Partial /\ rows[q] # rows[s]
            /\ rows[q] # rows[b] /\ rows[s] # rows[b]
        BY <2>1, <2>4, <3>5, <4>1 DEF IInv, OwnedOnce
      <4>3. /\ held[rows[q]] \cap held[rows[s]] = {}
            /\ held[rows[q]] \cap held[rows[b]] = {} /\ held[rows[s]] \cap held[rows[b]] = {}
        BY <2>4, <3>5, <4>1 DEF IInv, Places
      <4>4. /\ held'[rows[q]] \subseteq held[rows[q]] \union
                   (IF rows[q] = rows[a] THEN held[rows[b]] ELSE {})
            /\ held'[rows[s]] \subseteq held[rows[s]] \union
                   (IF rows[s] = rows[a] THEN held[rows[b]] ELSE {})
        BY <3>3, <4>2
      <4> QED BY <4>1, <4>2, <4>3, <4>4
    <3> QED BY <2>1, <3>4, <3>5 DEF IInv, Places
  <2> QED BY <2>2, <2>3, <2>4
<1>8. InOrder'
  BY DEF IInv, CombineRows, data, outcome, TypeOK, InOrder, Stages, Pointers,
     Places, Past, Gathers, Spans, NoneNull
<1>9. Accounted'
  <2>1. /\ NoneNull' = NoneNull /\ NoneNull \subseteq Row /\ unread' = unread
        /\ raised' = raised /\ answers' = answers /\ state' = state /\ folded' = folded
        /\ held \in [Partial -> SUBSET Row] /\ rows \in [Partial -> Partial \union {Null}]
        /\ a # b
    BY DEF IInv, CombineRows, Combining, input, outcome, TypeOK, NoneNull
  <2>2. ASSUME NEW q \in Row, NEW s \in Partial, At(q, s) PROVE \E t \in Partial : At(q, t)'
    <3>1. CASE state[s] # Null /\ q \in folded[state[s]]
      BY <2>1, <3>1 DEF At
    <3>2. CASE (rows[s] # Null /\ q \in held[rows[s]]) /\ rows[b] = Null
      <4>1. rows' = rows /\ held' = held
        BY <3>2 DEF CombineRows
      <4> QED BY <3>2, <4>1 DEF At
    <3>3. CASE (rows[s] # Null /\ q \in held[rows[s]]) /\ rows[b] # Null /\ rows[a] = Null
      <4>1. rows' = [rows EXCEPT ![a] = rows[b], ![b] = Null] /\ held' = held
        BY <3>3 DEF CombineRows, RowsMoved
      <4>2. CASE s = b
        BY <2>1, <3>3, <4>1, <4>2 DEF At
      <4>3. CASE s # b
        BY <2>1, <3>3, <4>1, <4>3 DEF At
      <4> QED BY <4>2, <4>3
    <3>4. CASE (rows[s] # Null /\ q \in held[rows[s]]) /\ rows[b] # Null /\ rows[a] # Null
      <4>1. /\ rows' = [rows EXCEPT ![b] = Null]
            /\ held' = [held EXCEPT ![rows[a]] = @ \union held[rows[b]], ![rows[b]] = {}]
        BY <3>4 DEF CombineRows, RowsMoved
      <4>2. rows[a] \in Partial /\ rows[b] \in Partial /\ rows[a] # rows[b]
        BY <2>1, <3>4 DEF IInv, OwnedOnce
      <4>3. held'[rows[a]] = held[rows[a]] \union held[rows[b]] /\ rows'[a] = rows[a]
        BY <2>1, <4>1, <4>2
      <4>4. CASE s \in {a, b}
        BY <3>4, <4>3, <4>4 DEF At
      <4>5. CASE s \notin {a, b}
        <5>1. rows[s] \in Partial /\ rows[s] # rows[a] /\ rows[s] # rows[b]
          BY <2>1, <3>4, <4>5 DEF IInv, OwnedOnce
        <5>2. rows'[s] = rows[s] /\ held'[rows[s]] = held[rows[s]]
          BY <2>1, <4>1, <4>2, <4>5, <5>1
        <5> QED BY <3>4, <5>2 DEF At
      <4> QED BY <4>4, <4>5
    <3> QED BY <2>2, <3>1, <3>2, <3>3, <3>4 DEF At
  <2> QED BY <2>1, <2>2 DEF IInv, Accounted
<1>10. NothingLost'
  <2>1. CASE rows[b] = Null
    BY <2>1 DEF IInv, CombineRows, data, outcome, NothingLost, Clean, Gathers,
       RowBlock, StateBlock, VectorBlock
  <2>2. CASE rows[b] # Null /\ rows[a] = Null
    <3>1. /\ rows' = [rows EXCEPT ![a] = rows[b], ![b] = Null] /\ a # b
          /\ held' = held /\ heap' = heap /\ state' = state /\ ops' = ops
          /\ raised' = raised /\ dropped' = dropped
      BY <2>2 DEF CombineRows, Combining, RowsMoved, data, objects, outcome
    <3>2. \A q \in Partial : rows[q] # Null =>
             \E s \in Partial : rows'[s] = rows[q]
      BY NullAssumption, <2>2, <3>1 DEF IInv, TypeOK
    <3> QED BY NullAssumption, <3>1, <3>2 DEF IInv, NothingLost, Clean, Gathers, TypeOK
  <2>3. CASE rows[b] # Null /\ rows[a] # Null
    <3>1. /\ rows' = [rows EXCEPT ![b] = Null] /\ a # b
          /\ held' = [held EXCEPT ![rows[a]] = @ \union held[rows[b]], ![rows[b]] = {}]
          /\ heap' = heap \ {VectorBlock(rows[b])} /\ state' = state /\ ops' = ops
          /\ raised' = raised /\ dropped' = dropped
      BY <2>3 DEF CombineRows, Combining, RowsMoved, data, objects, outcome
    <3> QED BY <2>3, <3>1 DEF IInv, NothingLost, TypeOK, Clean, Gathers, OwnedOnce, RowBlock,
               StateBlock, VectorBlock
  <2> QED BY <2>1, <2>2, <2>3
<1> QED BY <1>1, <1>2, <1>3, <1>4, <1>5, <1>6, <1>7, <1>8, <1>9, <1>10 DEF IInv

\* CombineStates: of two state objects one is left and the other is freed.
LEMMA CombineStatesKeeps ==
    ASSUME IInv, NEW a \in Partial, NEW b \in Partial, CombineStates(a, b)
    PROVE  IInv'
<1>1. TypeOK'
  <2>1. CASE state[a] = Null \/ state[b] = Null
    <3>1. /\ state' = [state EXCEPT ![a] = IF state[a] = Null THEN state[b] ELSE state[a],
                                   ![b] = Null]
          /\ folded' = folded /\ heap' = heap /\ rows' = rows /\ held' = held
          /\ status' = [status EXCEPT ![b] = "merged"] /\ ~ Gathers
          /\ status[a] = "open" /\ a # b
      BY <2>1 DEF CombineStates, Combining
    <3>2. state' \in [Partial -> Row \union {Null}] /\ status' \in [Partial -> Statuses]
      BY <3>1 DEF IInv, TypeOK, Statuses
    <3>3. ASSUME NEW q \in Partial, status'[q] \in {"merged", "finished", "destroyed"}
          PROVE  state'[q] = Null /\ rows'[q] = Null
      <4>1. rows'[q] = Null
        BY <3>1 DEF IInv, Pointers
      <4>2. CASE q = b
        BY <3>1, <4>1, <4>2 DEF IInv, TypeOK
      <4>3. CASE q # b
        BY <3>1, <3>3, <4>1, <4>3 DEF IInv, TypeOK
      <4> QED BY <4>2, <4>3
    <3>4. /\ ops' = ops /\ span' = span /\ nulls' = nulls /\ unread' = unread
          /\ raised' = raised /\ dropped' = dropped /\ answers' = answers
      BY DEF CombineStates, data, input, outcome
    <3> QED BY <3>1, <3>2, <3>3, <3>4 DEF IInv, TypeOK
  <2>2. CASE state[a] # Null /\ state[b] # Null
    <3>1. PICK r \in {state[a], state[b]} :
            /\ state' = [state EXCEPT ![a] = r, ![b] = Null]
            /\ folded' = [folded EXCEPT ![r] = folded[state[a]] \union folded[state[b]]]
            /\ heap' = heap \ Released(Unanswered(r, state[a], state[b]))
      BY <2>2 DEF CombineStates
    <3>2. /\ ~ Gathers /\ a # b /\ status' = [status EXCEPT ![b] = "merged"]
          /\ ops' = ops /\ span' = span /\ unread' = unread /\ nulls' = nulls
          /\ rows' = rows /\ held' = held
          /\ raised' = raised /\ dropped' = dropped /\ answers' = answers
      BY DEF CombineStates, Combining, data, input, outcome
    <3>3. \A o \in Row : Released(o) = {StateBlock(o)}
      BY <3>2, FamilyAssumption DEF IInv, TypeOK, Gathers, Released, HasFinal, FinalConsumes
    <3>4. state[a] \in Row /\ state[b] \in Row /\ state[a] # state[b]
      BY <2>2, <3>2 DEF IInv, TypeOK, OwnedOnce
    <3>5. PICK u \in Row : /\ u \in {state[a], state[b]} /\ u # r
                           /\ heap' = heap \ {StateBlock(u)}
      BY <3>1, <3>3, <3>4 DEF Unanswered
    <3>6. state' \in [Partial -> Row \union {Null}]
      BY <3>1, <3>2, <3>4 DEF IInv, TypeOK
    <3>7. folded' \in [Row -> SUBSET Row]
      BY <3>1, <3>4 DEF IInv, TypeOK
    <3>8. status' \in [Partial -> Statuses]
      BY <3>2 DEF IInv, TypeOK, Statuses
    <3>9. \A q \in Partial : status'[q] \in {"merged", "finished", "destroyed"} =>
             state'[q] = Null /\ rows'[q] = Null
      BY <3>1, <3>2 DEF IInv, TypeOK, Pointers, Combining, CombineStates
    <3> QED BY <3>2, <3>5, <3>6, <3>7, <3>8, <3>9 DEF IInv, TypeOK
  <2> QED BY <2>1, <2>2
<1>2. OwnedOnce'
  <2>1. CASE state[a] = Null \/ state[b] = Null
    <3>1. /\ state' = [state EXCEPT ![a] = IF state[a] = Null THEN state[b] ELSE state[a], ![b] = Null]
          /\ heap' = heap /\ rows' = rows /\ a # b /\ ~ Gathers
      BY <2>1 DEF CombineStates, Combining
    <3>2. \A q \in Partial : rows'[q] = Null
      BY <3>1 DEF IInv, Pointers
    <3>3. \A q \in Partial : state'[q] # Null =>
             \E s \in Partial : state'[q] = state[s] /\ (q # a => s = q) /\ (q = a => s \in {a, b}) /\ q # b
      BY <3>1 DEF IInv, TypeOK
    <3>4. \A q \in Partial : state'[q] # Null => StateBlock(state'[q]) \in heap'
      <4>1. SUFFICES ASSUME NEW q \in Partial, state'[q] # Null
                     PROVE  StateBlock(state'[q]) \in heap'
        OBVIOUS
      <4>2. PICK s \in Partial : state'[q] = state[s]
        BY <3>3, <4>1
      <4>3. StateBlock(state[s]) \in heap
        BY <4>1, <4>2 DEF IInv, OwnedOnce
      <4> QED BY <3>1, <4>2, <4>3
    <3>5. \A q, s \in Partial : q # s /\ state'[q] # Null => state'[q] # state'[s]
      BY NullAssumption, <2>1, <3>1 DEF IInv, TypeOK, OwnedOnce
    <3> QED BY <3>2, <3>4, <3>5 DEF OwnedOnce
  <2>2. CASE state[a] # Null /\ state[b] # Null
    <3>1. PICK r \in {state[a], state[b]} :
            /\ state' = [state EXCEPT ![a] = r, ![b] = Null]
            /\ folded' = [folded EXCEPT ![r] = folded[state[a]] \union folded[state[b]]]
            /\ heap' = heap \ Released(Unanswered(r, state[a], state[b]))
      BY <2>2 DEF CombineStates
    <3>2. /\ ~ Gathers /\ a # b /\ status' = [status EXCEPT ![b] = "merged"]
          /\ ops' = ops /\ span' = span /\ unread' = unread /\ nulls' = nulls
          /\ rows' = rows /\ held' = held
          /\ raised' = raised /\ dropped' = dropped /\ answers' = answers
      BY DEF CombineStates, Combining, data, input, outcome
    <3>3. \A o \in Row : Released(o) = {StateBlock(o)}
      BY <3>2, FamilyAssumption DEF IInv, TypeOK, Gathers, Released, HasFinal, FinalConsumes
    <3>4. state[a] \in Row /\ state[b] \in Row /\ state[a] # state[b]
      BY <2>2, <3>2 DEF IInv, TypeOK, OwnedOnce
    <3>5. PICK u \in Row : /\ u \in {state[a], state[b]} /\ u # r
                           /\ heap' = heap \ {StateBlock(u)}
      BY <3>1, <3>3, <3>4 DEF Unanswered
    <3>6. \A q \in Partial : state'[q] # Null => state'[q] # u /\ \E s \in Partial : state'[q] = state[s]
      BY <2>2, <3>1, <3>2, <3>4, <3>5 DEF IInv, TypeOK, OwnedOnce
    <3>7. \A o \in Row : o # u /\ (\E s \in Partial : state[s] = o) => \E s \in Partial : state'[s] = o
      BY NullAssumption, <2>2, <3>1, <3>2, <3>4, <3>5 DEF IInv, TypeOK, OwnedOnce
    <3>8. \A q \in Partial : state'[q] # Null => StateBlock(state'[q]) \in heap'
      <4>1. SUFFICES ASSUME NEW q \in Partial, state'[q] # Null
                     PROVE  StateBlock(state'[q]) \in heap'
        OBVIOUS
      <4>2. PICK s \in Partial : state'[q] = state[s] /\ state[s] # u
        BY <3>6, <4>1
      <4>3. StateBlock(state[s]) \in heap
        BY <4>1, <4>2 DEF IInv, OwnedOnce
      <4>4. StateBlock(state[s]) # StateBlock(u)
        BY <4>2 DEF StateBlock
      <4> QED BY <3>5, <4>2, <4>3, <4>4
    <3>9. \A q, s \in Partial : q # s /\ state'[q] # Null => state'[q] # state'[s]
      BY NullAssumption, <2>2, <3>1, <3>2, <3>4 DEF IInv, TypeOK, OwnedOnce
    <3>10. \A q \in Partial : rows'[q] = Null
      BY <3>2 DEF IInv, Pointers
    <3> QED BY <3>8, <3>9, <3>10 DEF OwnedOnce
  <2> QED BY <2>1, <2>2
<1>3. AnswerWhole'
  BY DEF IInv, CombineStates, input, outcome, AnswerWhole, NoneNull
<1>4. RefusedOnlyOverlapping'
  BY DEF IInv, CombineStates, data, input, outcome, RefusedOnlyOverlapping
<1>5. Stages'
  BY DEF IInv, CombineStates, input, outcome, Stages
<1>6. Pointers'
  BY DEF IInv, CombineStates, data, input, outcome, Pointers, TypeOK, Gathers
<1>7. Places'
  BY DEF IInv, CombineStates, input, outcome, Places, TypeOK, NoneNull
<1>8. InOrder'
  BY DEF IInv, CombineStates, data, input, outcome, TypeOK, InOrder, Stages,
     Pointers, Places, Past, Gathers, Spans, NoneNull
<1>9. Accounted'
  <2>1. NoneNull' = NoneNull /\ NoneNull \subseteq Row
    BY DEF CombineStates, input, NoneNull
  <2>2. /\ unread' = unread /\ rows' = rows /\ held' = held /\ a # b
        /\ raised' = raised /\ answers' = answers
        /\ state \in [Partial -> Row \union {Null}] /\ folded \in [Row -> SUBSET Row]
    BY DEF IInv, TypeOK, CombineStates, Combining, input, outcome
  <2>3. ASSUME NEW q \in Row, NEW s \in Partial, At(q, s) PROVE \E t \in Partial : At(q, t)'
    <3>1. CASE state[a] = Null \/ state[b] = Null
      <4>1. /\ state' = [state EXCEPT ![a] = IF state[a] = Null THEN state[b] ELSE state[a],
                                     ![b] = Null]
            /\ folded' = folded
        BY <3>1 DEF CombineStates
      <4>2. CASE s = b /\ state[b] # Null
        BY <2>2, <2>3, <3>1, <4>1, <4>2 DEF At
      <4>3. CASE s # b \/ state[b] = Null
        BY <2>2, <2>3, <3>1, <4>1, <4>3 DEF At
      <4> QED BY <4>2, <4>3
    <3>2. CASE state[a] # Null /\ state[b] # Null
      <4>1. PICK o \in {state[a], state[b]} :
              /\ state' = [state EXCEPT ![a] = o, ![b] = Null]
              /\ folded' = [folded EXCEPT ![o] = folded[state[a]] \union folded[state[b]]]
        BY <3>2 DEF CombineStates
      <4>2. o \in Row /\ o # Null
        BY <2>2, <3>2, <4>1
      <4>3. \A t \in Partial \ {a, b} : state[t] # Null => state[t] # o
        BY <3>2, <4>1 DEF IInv, OwnedOnce
      <4>4. CASE s \in {a, b}
        <5>1. \/ rows[s] # Null /\ q \in held[rows[s]]
              \/ q \in folded[state[a]] \union folded[state[b]]
          BY <2>3, <4>4 DEF At
        <5>2. CASE rows[s] # Null /\ q \in held[rows[s]]
          BY <2>2, <5>2 DEF At
        <5>3. CASE q \in folded[state[a]] \union folded[state[b]]
          <6>1. state'[a] = o /\ folded'[o] = folded[state[a]] \union folded[state[b]]
            BY <2>2, <4>1, <4>2
          <6> QED BY <4>2, <5>3, <6>1 DEF At
        <5> QED BY <5>1, <5>2, <5>3
      <4>5. CASE s \notin {a, b}
        <5>1. state'[s] = state[s] /\ (state[s] # Null => folded'[state[s]] = folded[state[s]])
          BY <2>2, <4>1, <4>2, <4>3, <4>5
        <5> QED BY <2>2, <2>3, <5>1 DEF At
      <4> QED BY <4>4, <4>5
    <3> QED BY <3>1, <3>2
  <2> QED BY <2>1, <2>2, <2>3 DEF IInv, Accounted
<1>10. NothingLost'
  <2>1. CASE state[a] = Null \/ state[b] = Null
    BY <2>1 DEF IInv, CombineStates, Unanswered, input, outcome, NothingLost,
       TypeOK, Clean, Gathers, RowBlock, StateBlock, VectorBlock
  <2>2. CASE state[a] # Null /\ state[b] # Null
    <3>1. PICK r \in {state[a], state[b]} :
            /\ state' = [state EXCEPT ![a] = r, ![b] = Null]
            /\ folded' = [folded EXCEPT ![r] = folded[state[a]] \union folded[state[b]]]
            /\ heap' = heap \ Released(Unanswered(r, state[a], state[b]))
      BY <2>2 DEF CombineStates
    <3>2. /\ ~ Gathers /\ a # b /\ status' = [status EXCEPT ![b] = "merged"]
          /\ ops' = ops /\ span' = span /\ unread' = unread /\ nulls' = nulls
          /\ rows' = rows /\ held' = held
          /\ raised' = raised /\ dropped' = dropped /\ answers' = answers
      BY DEF CombineStates, Combining, data, input, outcome
    <3>3. \A o \in Row : Released(o) = {StateBlock(o)}
      BY <3>2, FamilyAssumption DEF IInv, TypeOK, Gathers, Released, HasFinal, FinalConsumes
    <3>4. state[a] \in Row /\ state[b] \in Row /\ state[a] # state[b]
      BY <2>2, <3>2 DEF IInv, TypeOK, OwnedOnce
    <3>5. PICK u \in Row : /\ u \in {state[a], state[b]} /\ u # r
                           /\ heap' = heap \ {StateBlock(u)}
      BY <3>1, <3>3, <3>4 DEF Unanswered
    <3>6. \A q \in Partial : state'[q] # Null => state'[q] # u /\ \E s \in Partial : state'[q] = state[s]
      BY <2>2, <3>1, <3>2, <3>4, <3>5 DEF IInv, TypeOK, OwnedOnce
    <3>7. \A o \in Row : o # u /\ (\E s \in Partial : state[s] = o) => \E s \in Partial : state'[s] = o
      BY NullAssumption, <2>2, <3>1, <3>2, <3>4, <3>5 DEF IInv, TypeOK, OwnedOnce
    <3>8. ASSUME Clean' PROVE Clean
      BY <3>2, <3>8 DEF Clean
    <3>9. ASSUME Clean', NEW o \in Row, StateBlock(o) \in heap' PROVE \E s \in Partial : state'[s] = o
      <4>1. o # u /\ StateBlock(o) \in heap
        BY <3>5, <3>9
      <4>2. \E s \in Partial : state[s] = o
        BY <3>2, <3>8, <3>9, <4>1 DEF IInv, NothingLost
      <4> QED BY <3>7, <4>1, <4>2
    <3>10. \A w \in Row : RowBlock(w) \in heap' => RowBlock(w) \in heap
      BY <3>5
    <3>11. \A v \in Partial : VectorBlock(v) \in heap' => VectorBlock(v) \in heap
      BY <3>5
    <3> QED BY <3>2, <3>8, <3>9, <3>10, <3>11 DEF IInv, NothingLost
  <2> QED BY <2>1, <2>2
<1> QED BY <1>1, <1>2, <1>3, <1>4, <1>5, <1>6, <1>7, <1>8, <1>9, <1>10 DEF IInv

\* CombineRaises: both pointers are gone, the query is not Clean.
LEMMA CombineRaisesKeeps ==
    ASSUME IInv, NEW a \in Partial, NEW b \in Partial, CombineRaises(a, b)
    PROVE  IInv'
<1>1. TypeOK'
  BY DEF IInv, CombineRaises, data, input, TypeOK, Reasons, Blocks, RowBlock,
     StateBlock, VectorBlock
<1>2. OwnedOnce'
  BY DEF IInv, CombineRaises, OwnedOnce, TypeOK, StateBlock, VectorBlock
<1>3. AnswerWhole'
  BY DEF IInv, CombineRaises, input, AnswerWhole, NoneNull
<1>4. RefusedOnlyOverlapping'
  BY DEF IInv, CombineRaises, RefusedOnlyOverlapping
<1>5. Stages'
  BY DEF IInv, CombineRaises, input, Stages
<1>6. Pointers'
  BY DEF IInv, CombineRaises, data, input, Pointers, TypeOK, Gathers
<1>7. Places'
  BY DEF IInv, CombineRaises, input, Places, NoneNull
<1>8. InOrder'
  BY DEF IInv, CombineRaises, data, InOrder, TypeOK, Past, Gathers
<1>9. Accounted'
  BY DEF IInv, CombineRaises, Accounted, NoneNull
<1>10. NothingLost'
  BY DEF IInv, CombineRaises, NothingLost, Clean, RowBlock, StateBlock, VectorBlock
<1> QED BY <1>1, <1>2, <1>3, <1>4, <1>5, <1>6, <1>7, <1>8, <1>9, <1>10 DEF IInv

\* BeginFinish: no other partial state is open.
LEMMA BeginFinishKeeps ==
    ASSUME IInv, NEW p \in Partial, BeginFinish(p)
    PROVE  IInv'
<1>1. TypeOK'
  BY DEF IInv, BeginFinish, data, input, objects, outcome, TypeOK, Statuses,
     Reasons, Blocks, RowBlock, StateBlock, VectorBlock
<1>2. OwnedOnce'
  BY DEF IInv, BeginFinish, objects, OwnedOnce
<1>3. AnswerWhole'
  BY DEF IInv, BeginFinish, input, outcome, AnswerWhole, NoneNull
<1>4. RefusedOnlyOverlapping'
  BY DEF IInv, BeginFinish, outcome, RefusedOnlyOverlapping
<1>5. Stages'
  BY DEF IInv, BeginFinish, input, outcome, Stages, TypeOK, Statuses
<1>6. Pointers'
  BY DEF IInv, BeginFinish, data, input, objects, Pointers, Gathers
<1>7. Places'
  BY DEF IInv, BeginFinish, input, objects, Places, NoneNull
<1>8. InOrder'
  BY DEF IInv, BeginFinish, data, objects, InOrder, Stages, Pointers, Places, Past,
     Gathers, Spans, NoneNull
<1>9. Accounted'
  BY DEF IInv, BeginFinish, input, objects, outcome, Accounted, At, NoneNull
<1>10. NothingLost'
  BY DEF IInv, BeginFinish, data, objects, outcome, NothingLost, Clean, Gathers,
     RowBlock, StateBlock, VectorBlock
<1> QED BY <1>1, <1>2, <1>3, <1>4, <1>5, <1>6, <1>7, <1>8, <1>9, <1>10 DEF IInv

\* FoldNext: an earliest row goes from the vector to the state object.
LEMMA FoldNextKeeps ==
    ASSUME IInv, NEW p \in Partial, NEW r \in Row, FoldNext(p, r)
    PROVE  IInv'
<1>1. TypeOK'
  BY DEF IInv, FoldNext, Fold, data, input, outcome, TypeOK, Statuses, Reasons,
     Blocks, RowBlock, StateBlock, VectorBlock
<1>2. OwnedOnce'
  BY DEF IInv, FoldNext, Fold, Earliest, outcome, TypeOK, OwnedOnce, Stages,
     Pointers, Places, Statuses, Gathers, RowBlock, StateBlock, VectorBlock, NoneNull
<1>3. AnswerWhole'
  BY DEF IInv, FoldNext, input, outcome, AnswerWhole, NoneNull
<1>4. RefusedOnlyOverlapping'
  BY DEF IInv, FoldNext, data, outcome, RefusedOnlyOverlapping
<1>5. Stages'
  BY DEF IInv, FoldNext, input, outcome, Stages
<1>6. Pointers'
  BY DEF IInv, FoldNext, Folding, data, input, outcome, TypeOK, Pointers, Stages,
     OwnedOnce, Statuses, Gathers
<1>7. Places'
  BY DEF IInv, FoldNext, Fold, Earliest, input, Places, TypeOK, NoneNull
<1>8. InOrder'
  BY NullAssumption DEF IInv, FoldNext, Folding, Fold, Earliest, data, outcome,
     TypeOK, InOrder, Stages, Pointers, Places, Past, Gathers, Spans, NoneNull
<1>9. Accounted'
  <2>1. NoneNull' = NoneNull /\ NoneNull \subseteq Row
    BY DEF FoldNext, input, NoneNull
  <2> QED BY NullAssumption, <2>1 DEF IInv, FoldNext, Fold, input, outcome, Accounted,
             TypeOK, Statuses, At
<1>10. NothingLost'
  BY NullAssumption DEF IInv, FoldNext, Fold, data, outcome, NothingLost, TypeOK,
     Statuses, Clean, Gathers, RowBlock, StateBlock, VectorBlock
<1> QED BY <1>1, <1>2, <1>3, <1>4, <1>5, <1>6, <1>7, <1>8, <1>9, <1>10 DEF IInv

\* FoldRaises: the vector and its rows are freed.
LEMMA FoldRaisesKeeps ==
    ASSUME IInv, NEW p \in Partial, NEW r \in Row, FoldRaises(p, r)
    PROVE  IInv'
<1>1. TypeOK'
  BY DEF IInv, FoldRaises, data, input, TypeOK, Statuses, Reasons, Blocks, RowBlock,
     StateBlock, VectorBlock
<1>2. OwnedOnce'
  BY DEF IInv, FoldRaises, RowsFreed, TypeOK, OwnedOnce, Stages, Pointers, Places,
     Statuses, Gathers, RowBlock, StateBlock, VectorBlock, NoneNull
<1>3. AnswerWhole'
  BY DEF IInv, FoldRaises, input, AnswerWhole, NoneNull
<1>4. RefusedOnlyOverlapping'
  BY DEF IInv, FoldRaises, Folding, Earliest, data, TypeOK, RefusedOnlyOverlapping,
     Pointers, InOrder, Past, Spans
<1>5. Stages'
  BY DEF IInv, FoldRaises, input, Stages
<1>6. Pointers'
  BY DEF IInv, FoldRaises, Folding, data, input, Pointers, Gathers
<1>7. Places'
  BY DEF IInv, FoldRaises, input, Places, NoneNull
<1>8. InOrder'
  BY DEF IInv, FoldRaises, data, InOrder, Past, Gathers
<1>9. Accounted'
  BY DEF IInv, FoldRaises, Accounted, NoneNull
<1>10. NothingLost'
  BY DEF IInv, FoldRaises, Folding, RowsFreed, data, NothingLost, Clean, Gathers,
     RowBlock, StateBlock, VectorBlock
<1> QED BY <1>1, <1>2, <1>3, <1>4, <1>5, <1>6, <1>7, <1>8, <1>9, <1>10 DEF IInv

\* Finish: what is left of the group is the answer.
LEMMA FinishKeeps ==
    ASSUME IInv, NEW p \in Partial, Finish(p)
    PROVE  IInv'
<1>1. TypeOK'
  <2>1. CASE rows[p] = Null /\ state[p] = Null
    BY <2>1 DEF IInv, Finish, data, input, TypeOK, Stages, Pointers, Gathers, Past,
       Statuses, Reasons, Blocks, RowBlock, StateBlock, VectorBlock
  <2>2. CASE rows[p] # Null /\ state[p] = Null
    BY <2>2 DEF IInv, Finish, data, input, TypeOK, Stages, Pointers, Gathers, Past,
       Statuses, Reasons, Blocks, RowBlock, StateBlock, VectorBlock
  <2>3. CASE rows[p] = Null /\ state[p] # Null
    BY <2>3 DEF IInv, Finish, data, input, TypeOK, Stages, Pointers, Gathers, Past,
       Statuses, Reasons, Blocks, RowBlock, StateBlock, VectorBlock
  <2>4. CASE rows[p] # Null /\ state[p] # Null
    BY <2>4 DEF IInv, Finish, data, input, TypeOK, Stages, Pointers, Gathers, Past,
       Statuses, Reasons, Blocks, RowBlock, StateBlock, VectorBlock
  <2> QED BY <2>1, <2>2, <2>3, <2>4
<1>2. OwnedOnce'
  BY DEF IInv, Finish, Released, input, OwnedOnce, TypeOK, RowBlock, StateBlock,
     VectorBlock
<1>3. AnswerWhole'
  BY DEF IInv, Finish, Folding, RowsFolded, data, input, TypeOK, AnswerWhole,
     Stages, Places, Accounted, At, Past, NoneNull
<1>4. RefusedOnlyOverlapping'
  BY DEF IInv, Finish, data, input, RefusedOnlyOverlapping
<1>5. Stages'
  BY DEF IInv, Finish, Folding, input, Stages, TypeOK
<1>6. Pointers'
  BY DEF IInv, Finish, Folding, data, input, Pointers, Gathers
<1>7. Places'
  BY DEF IInv, Finish, input, Places, NoneNull
<1>8. InOrder'
  BY DEF IInv, Finish, data, input, InOrder, TypeOK, Past, Gathers
<1>9. Accounted'
  BY DEF IInv, Finish, input, Accounted, NoneNull
<1>10. NothingLost'
  <2>1. CASE rows[p] = Null /\ state[p] = Null
    BY <2>1 DEF IInv, Finish, data, input, NothingLost, Clean, Gathers, RowBlock,
       StateBlock, VectorBlock
  <2>2. CASE rows[p] # Null /\ state[p] = Null
    BY <2>2 DEF IInv, Finish, RowsFolded, data, input, NothingLost, Clean, Gathers,
       RowBlock, StateBlock, VectorBlock
  <2>3. CASE rows[p] = Null /\ state[p] # Null
    <3>1. PICK o \in Row : o = state[p]
      BY <2>3 DEF IInv, TypeOK
    <3>2. /\ state' = [state EXCEPT ![p] = Null] /\ rows' = [rows EXCEPT ![p] = Null]
          /\ held' = held /\ raised' = raised /\ ops' = ops
      BY <2>3 DEF Finish, data, outcome, objects
    <3>3. ASSUME Clean', ~ Gathers
          PROVE  Clean /\ heap' = heap \ {StateBlock(o)}
      BY <2>3, <3>1, <3>3, FamilyAssumption DEF IInv, TypeOK, Finish, Clean, outcome, Released, HasFinal, FinalConsumes, Gathers, RowsReleased
    <3>4. Clean' => Clean
      BY <3>2 DEF Finish, Clean, outcome
    <3>5. heap' \subseteq heap
      BY <2>3 DEF Finish, RowsReleased
    <3>6. \A q \in Partial : rows[q] # Null => rows'[q] = rows[q]
      BY <2>3, <3>2 DEF IInv, TypeOK
    <3>7. \A q \in Partial : q # p => state'[q] = state[q]
      BY <3>2 DEF IInv, TypeOK
    <3>8. ASSUME Clean', NEW w \in Row, RowBlock(w) \in heap'
          PROVE  \E q \in Partial : rows'[q] # Null /\ w \in held'[rows'[q]]
      BY <3>2, <3>4, <3>5, <3>6, <3>8 DEF IInv, NothingLost
    <3>9. ASSUME Clean', NEW v \in Partial, VectorBlock(v) \in heap'
          PROVE  \E q \in Partial : rows'[q] = v
      BY NullAssumption, <3>4, <3>5, <3>6, <3>9 DEF IInv, NothingLost
    <3>10. ASSUME Clean', ~ Gathers, NEW u \in Row, StateBlock(u) \in heap'
          PROVE  \E q \in Partial : state'[q] = u
      <4>1. u # o /\ StateBlock(u) \in heap
        BY <3>3, <3>10
      <4> QED BY <3>1, <3>4, <3>7, <3>10, <4>1 DEF IInv, NothingLost
    <3> QED BY <3>2, <3>8, <3>9, <3>10 DEF NothingLost, Gathers
  <2>4. CASE rows[p] # Null /\ state[p] # Null
    BY <2>4 DEF IInv, Finish, RowsFolded, data, input, TypeOK, NothingLost, Clean,
       OwnedOnce, Pointers, Stages, Places, Gathers, Reasons, RowBlock, StateBlock,
       VectorBlock, NoneNull
  <2> QED BY <2>1, <2>2, <2>3, <2>4
<1> QED BY <1>1, <1>2, <1>3, <1>4, <1>5, <1>6, <1>7, <1>8, <1>9, <1>10 DEF IInv

\* FinalRaises: the state object is lost, the query is not Clean.
LEMMA FinalRaisesKeeps ==
    ASSUME IInv, NEW p \in Partial, FinalRaises(p)
    PROVE  IInv'
<1>1. TypeOK'
  BY DEF IInv, FinalRaises, data, input, TypeOK, Statuses, Reasons, Blocks,
     RowBlock, StateBlock, VectorBlock
<1>2. OwnedOnce'
  BY DEF IInv, FinalRaises, OwnedOnce, TypeOK, RowBlock, StateBlock, VectorBlock
<1>3. AnswerWhole'
  BY DEF IInv, FinalRaises, input, AnswerWhole, NoneNull
<1>4. RefusedOnlyOverlapping'
  BY DEF IInv, FinalRaises, RefusedOnlyOverlapping
<1>5. Stages'
  BY DEF IInv, FinalRaises, input, Stages
<1>6. Pointers'
  BY DEF IInv, FinalRaises, data, input, Pointers, Gathers
<1>7. Places'
  BY DEF IInv, FinalRaises, input, Places, NoneNull
<1>8. InOrder'
  BY DEF IInv, FinalRaises, data, InOrder, Past, Gathers
<1>9. Accounted'
  BY DEF IInv, FinalRaises, Accounted, NoneNull
<1>10. NothingLost'
  BY DEF IInv, FinalRaises, NothingLost, Clean, Gathers, RowBlock, StateBlock,
     VectorBlock
<1> QED BY <1>1, <1>2, <1>3, <1>4, <1>5, <1>6, <1>7, <1>8, <1>9, <1>10 DEF IInv

\* Interrupt: the query has ended.
LEMMA InterruptKeeps ==
    ASSUME IInv, Interrupt
    PROVE  IInv'
<1>1. TypeOK'
  BY DEF IInv, Interrupt, data, input, objects, TypeOK, Reasons, Blocks, RowBlock,
     StateBlock, VectorBlock
<1>2. OwnedOnce'
  BY DEF IInv, Interrupt, objects, OwnedOnce
<1>3. AnswerWhole'
  BY DEF IInv, Interrupt, input, AnswerWhole, NoneNull
<1>4. RefusedOnlyOverlapping'
  BY DEF IInv, Interrupt, RefusedOnlyOverlapping
<1>5. Stages'
  BY DEF IInv, Interrupt, input, Stages
<1>6. Pointers'
  BY DEF IInv, Interrupt, data, input, objects, Pointers, Gathers
<1>7. Places'
  BY DEF IInv, Interrupt, input, objects, Places, NoneNull
<1>8. InOrder'
  BY DEF IInv, Interrupt, data, objects, InOrder, Past
<1>9. Accounted'
  BY DEF IInv, Interrupt, Accounted, NoneNull
<1>10. NothingLost'
  BY DEF IInv, Interrupt, data, objects, NothingLost, Clean, Gathers, RowBlock,
     StateBlock, VectorBlock
<1> QED BY <1>1, <1>2, <1>3, <1>4, <1>5, <1>6, <1>7, <1>8, <1>9, <1>10 DEF IInv

\* Destroy: what the partial state points to is freed.
LEMMA DestroyKeeps ==
    ASSUME IInv, NEW p \in Partial, Destroy(p)
    PROVE  IInv'
<1>1. TypeOK'
  BY DEF IInv, Destroy, data, input, TypeOK, Statuses, Reasons, Blocks, RowBlock,
     StateBlock, VectorBlock
<1>2. OwnedOnce'
  BY DEF IInv, Destroy, RowsReleased, Released, input, TypeOK, OwnedOnce, Stages,
     Pointers, Places, Statuses, Gathers, RowBlock, StateBlock, VectorBlock, NoneNull
<1>3. AnswerWhole'
  BY DEF IInv, Destroy, input, AnswerWhole, NoneNull
<1>4. RefusedOnlyOverlapping'
  BY DEF IInv, Destroy, data, RefusedOnlyOverlapping
<1>5. Stages'
  BY DEF IInv, Destroy, input, Stages
<1>6. Pointers'
  BY DEF IInv, Destroy, data, input, Pointers, TypeOK, Gathers
<1>7. Places'
  BY DEF IInv, Destroy, input, Places, NoneNull
<1>8. InOrder'
  BY DEF IInv, Destroy, data, InOrder, Past, Gathers
<1>9. Accounted'
  BY DEF IInv, Destroy, input, Accounted, TypeOK, At, NoneNull
<1>10. NothingLost'
  <2>1. CASE rows[p] = Null /\ state[p] = Null
    BY <2>1 DEF IInv, Destroy, data, NothingLost, Clean, Gathers, RowBlock,
       StateBlock, VectorBlock
  <2>2. CASE rows[p] # Null /\ state[p] = Null
    BY <2>2 DEF IInv, Destroy, RowsReleased, data, NothingLost, Clean, Gathers,
       RowBlock, StateBlock, VectorBlock
  <2>3. CASE rows[p] = Null /\ state[p] # Null
    <3>1. PICK o \in Row : o = state[p]
      BY <2>3 DEF IInv, TypeOK
    <3>2. /\ state' = [state EXCEPT ![p] = Null] /\ rows' = [rows EXCEPT ![p] = Null]
          /\ held' = held /\ raised' = raised /\ ops' = ops
      BY <2>3 DEF Destroy, data, outcome, objects
    <3>3. ASSUME Clean', ~ Gathers
          PROVE  Clean /\ heap' = heap \ {StateBlock(o)}
      BY <2>3, <3>1, <3>3, FamilyAssumption DEF IInv, TypeOK, Destroy, Clean, outcome, Released, HasFinal, FinalConsumes, Gathers, RowsReleased
    <3>4. Clean' => Clean
      BY <3>2 DEF Destroy, Clean, outcome
    <3>5. heap' \subseteq heap
      BY <2>3 DEF Destroy, RowsReleased
    <3>6. \A q \in Partial : rows[q] # Null => rows'[q] = rows[q]
      BY <2>3, <3>2 DEF IInv, TypeOK
    <3>7. \A q \in Partial : q # p => state'[q] = state[q]
      BY <3>2 DEF IInv, TypeOK
    <3>8. ASSUME Clean', NEW w \in Row, RowBlock(w) \in heap'
          PROVE  \E q \in Partial : rows'[q] # Null /\ w \in held'[rows'[q]]
      BY <3>2, <3>4, <3>5, <3>6, <3>8 DEF IInv, NothingLost
    <3>9. ASSUME Clean', NEW v \in Partial, VectorBlock(v) \in heap'
          PROVE  \E q \in Partial : rows'[q] = v
      BY NullAssumption, <3>4, <3>5, <3>6, <3>9 DEF IInv, NothingLost
    <3>10. ASSUME Clean', ~ Gathers, NEW u \in Row, StateBlock(u) \in heap'
          PROVE  \E q \in Partial : state'[q] = u
      <4>1. u # o /\ StateBlock(u) \in heap
        BY <3>3, <3>10
      <4> QED BY <3>1, <3>4, <3>7, <3>10, <4>1 DEF IInv, NothingLost
    <3> QED BY <3>2, <3>8, <3>9, <3>10 DEF NothingLost, Gathers
  <2>4. CASE rows[p] # Null /\ state[p] # Null
    BY <2>4 DEF IInv, Destroy, RowsReleased, data, input, TypeOK, NothingLost,
       Clean, OwnedOnce, Pointers, Stages, Places, Gathers, Reasons, RowBlock,
       StateBlock, VectorBlock, NoneNull
  <2> QED BY <2>1, <2>2, <2>3, <2>4
<1> QED BY <1>1, <1>2, <1>3, <1>4, <1>5, <1>6, <1>7, <1>8, <1>9, <1>10 DEF IInv

\* The invariant holds at first.
LEMMA InitHolds == Init => IInv
<1>1. SUFFICES ASSUME Init PROVE IInv
  OBVIOUS
<1>0. span \in [Row -> Spans]
  <2>1. <<1, 1>> \in (1 .. MaxTime) \X (1 .. MaxTime)
    BY TimeAssumption
  <2>2. <<1, 1>> \in Spans
    BY <2>1 DEF Spans
  <2> QED BY <1>1, <2>2 DEF Init
<1>2. TypeOK
  <2>1. Spans \subseteq (1 .. MaxTime) \X (1 .. MaxTime)
    BY DEF Spans
  <2>2. span \in [Row -> (1 .. MaxTime) \X (1 .. MaxTime)]
    BY <1>0, <2>1
  <2> QED BY <1>1, <2>2 DEF Init, TypeOK, Statuses, Reasons
<1>3. OwnedOnce /\ AnswerWhole /\ RefusedOnlyOverlapping
  BY <1>1 DEF Init, OwnedOnce, AnswerWhole, RefusedOnlyOverlapping, NoneNull
<1>4. Stages /\ Pointers
  BY <1>1, <1>0 DEF Init, Stages, Pointers
<1>5. Places /\ InOrder
  BY <1>1 DEF Init, Places, InOrder, NoneNull
<1>6. Accounted /\ NothingLost
  BY <1>1 DEF Init, Accounted, NothingLost, NoneNull
<1> QED BY <1>2, <1>3, <1>4, <1>5, <1>6 DEF IInv

\* A step that changes nothing keeps it.
LEMMA StutteringKeeps == IInv /\ UNCHANGED vars => IInv'
<1>1. SUFFICES ASSUME IInv, UNCHANGED vars PROVE IInv'
  OBVIOUS
<1>2. TypeOK' /\ OwnedOnce' /\ AnswerWhole' /\ RefusedOnlyOverlapping'
  BY <1>1 DEF IInv, TypeOK, OwnedOnce, AnswerWhole, RefusedOnlyOverlapping, NoneNull, vars,
     data, input, objects, outcome
<1>3. Stages' /\ Pointers' /\ Places'
  BY <1>1 DEF IInv, Stages, Pointers, Places, Gathers, NoneNull, vars, data, input, objects,
     outcome
<1>4. InOrder' /\ Accounted' /\ NothingLost'
  BY <1>1 DEF IInv, InOrder, Accounted, At, Past, NothingLost, Clean, Gathers, NoneNull, vars,
     data, input, objects, outcome
<1> QED BY <1>2, <1>3, <1>4 DEF IInv

\* Every step keeps it.
LEMMA Inductive == IInv /\ [Next]_vars => IInv'
<1>1. SUFFICES ASSUME IInv, [Next]_vars PROVE IInv'
  OBVIOUS
<1>2. ASSUME NEW p \in Partial, NEW r \in Row, UpdateStep(p, r) PROVE IInv'
  BY <1>1, <1>2, SkipRowKeeps, GatherRowKeeps, FoldRowKeeps, RefuseRowKeeps, ReadRaisesKeeps
     DEF UpdateStep
<1>3. ASSUME NEW a \in Partial, NEW b \in Partial, CombineStep(a, b) PROVE IInv'
  BY <1>1, <1>3, CombineRowsKeeps, CombineStatesKeeps, CombineRaisesKeeps DEF CombineStep
<1>4. ASSUME NEW p \in Partial, FinishStep(p) PROVE IInv'
  BY <1>1, <1>4, BeginFinishKeeps, FoldNextKeeps, FoldRaisesKeeps, FinishKeeps, FinalRaisesKeeps
     DEF FinishStep
<1>5. ASSUME NEW p \in Partial, Destroy(p) PROVE IInv'
  BY <1>1, <1>5, DestroyKeeps
<1>6. CASE Interrupt
  BY <1>1, <1>6, InterruptKeeps
<1>7. CASE Done \/ UNCHANGED vars
  BY <1>1, <1>7, StutteringKeeps DEF Done
<1> QED BY <1>1, <1>2, <1>3, <1>4, <1>5, <1>6, <1>7 DEF Next

\* So it always holds.
LEMMA Invariant == Spec => []IInv
BY InitHolds, Inductive, PTL DEF Spec

-----------------------------------------------------------------------------
\* The variables have their types, and a partial state that was merged,
\* finished or destroyed points to nothing (Combine, Finish, Destroy).
THEOREM TypeCorrect == Spec => []TypeOK
<1>1. IInv => TypeOK
  BY DEF IInv
<1> QED BY <1>1, Invariant, PTL

\* No memory of MEOS is used after its release or released twice, for any
\* number of rows and partial states (Combine, Fold, Finish, Destroy).
THEOREM ReleasedOnce == Spec => []OwnedOnce
<1>1. IInv => OwnedOnce
  BY DEF IInv
<1> QED BY <1>1, Invariant, PTL

\* An answer is over the rows that have every argument asked for, all of them and
\* no other, however the engine spread the rows and joined the partial states, for
\* any NULL arguments and whichever of them Read asks for (Read, Update .. Finish).
THEOREM AnswerIsWhole == Spec => []AnswerWhole
<1>1. IInv => AnswerWhole
  BY DEF IInv
<1> QED BY <1>1, Invariant, PTL

\* Only rows whose spans meet are refused for their time (FoldGathered).
THEOREM OnlyOverlapsRefused == Spec => []RefusedOnlyOverlapping
<1>1. IInv => RefusedOnlyOverlapping
  BY DEF IInv
<1> QED BY <1>1, Invariant, PTL

\* Destroy leaves nothing allocated but what Read, OPS::Combine and OPS::Final
\* lose when they raise and what the final of an append keeps.
THEOREM EverythingReleased == Spec => []AllReleased
<1>1. IInv => AllReleased
  <2>1. SUFFICES ASSUME IInv, Destroyed, Clean, NEW x \in heap
                 PROVE  Gathers /\ x \in {StateBlock(o) : o \in Row}
    BY DEF AllReleased, Clean
  <2>2. \A p \in Partial : state[p] = Null /\ rows[p] = Null
    BY <2>1 DEF IInv, TypeOK, Destroyed
  <2>3. x \notin {RowBlock(r) : r \in Row} /\ x \notin {VectorBlock(v) : v \in Partial}
    BY NullAssumption, <2>1, <2>2 DEF IInv, NothingLost
  <2>4. ~ Gathers => x \notin {StateBlock(o) : o \in Row}
    BY NullAssumption, <2>1, <2>2 DEF IInv, NothingLost
  <2> QED BY <2>1, <2>3, <2>4 DEF IInv, TypeOK, Blocks
<1> QED BY <1>1, Invariant, PTL
=============================================================================
