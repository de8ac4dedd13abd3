----------------------------- MODULE NearestScan -----------------------------
(***************************************************************************)
(* The nearest-neighbour scan of src/src/index/rtree_index_scan.cpp, which *)
(* answers ORDER BY column |=| box LIMIT k: a cursor of the MEOS tree      *)
(* yields entries by a lower bound on the distance, the scan measures the  *)
(* row itself, keeps the k nearest in a heap, and stops reading once the   *)
(* bound reaches the k-th distance it holds.                               *)
(*                                                                         *)
(* The cursor yields the entries of deleted rows too: NNScanNext does not  *)
(* look at deleted_, and only the fetch of the row tells.  An entry is     *)
(* stale when its row id was deleted and given to another row, whose value *)
(* is what the fetch then returns.                                         *)
(***************************************************************************)
EXTENDS Integers, SequencesExt

CONSTANTS
    Row,         \* row ids, as integers: the heap breaks ties by row id
    Reused,      \* the row ids that may also have a stale entry
    MaxDistance, \* the largest distance: a row with no nearest approach has it
    Limit,       \* offset + limit of the query
    VectorSize,  \* STANDARD_VECTOR_SIZE
    Hidden,      \* a row the transaction does not see
    Null,        \* a row whose indexed column is NULL, or has no box
    Raises       \* a value MEOS refuses to measure: another SRID or number type

ASSUME RowAssumption      == Row \subseteq Int /\ IsFiniteSet(Row) /\ Reused \subseteq Row
ASSUME DistanceAssumption == MaxDistance \in Nat
ASSUME SizeAssumption     == Limit \in Nat /\ VectorSize \in Nat \ {0}
ASSUME MarkersAssumption  == /\ Cardinality({Hidden, Null, Raises}) = 3
                             /\ {Hidden, Null, Raises} \cap Nat = {}

Distance == 0..MaxDistance
Entry    == (Row \X {"current"}) \union (Reused \X {"stale"})
Absent   == -1   \* the bound of an entry that is not in the tree

VARIABLES
    value,            \* what the table holds for each row
    bound,            \* the lower bound the tree computes for each entry
    phase,            \* "open", "gathered", "ended" or "failed"
    cursor,           \* the entries the cursor has still to yield
    best,             \* the entries held by the heap
    nearest,          \* the row ids in the order of the heap
    nearest_position,
    answered          \* the rows handed to the engine, in order

query == <<value, bound>>
vars  == <<query, phase, cursor, best, nearest, nearest_position, answered>>

Value == Distance \union {Hidden, Null, Raises}

\* What RTreeIndex keeps of the table: the entry of a row bounds its value, a
\* NULL has none, and a row out of sight may have one or not.
Indexed(v, b) ==
    \/ v \in Distance /\ b \in 0..v
    \/ v = Null /\ b = Absent
    \/ v = Raises /\ b \in Distance
    \/ v = Hidden /\ b \in Distance \union {Absent}

Init ==
    /\ value \in [Row -> Value]
    /\ bound \in [Entry -> Distance \union {Absent}]
    /\ \A r \in Row : Indexed(value[r], bound[<<r, "current">>])
    /\ phase = "open"
    /\ cursor = {e \in Entry : bound[e] # Absent}
    /\ best = {}
    /\ nearest = << >>
    /\ nearest_position = 0
    /\ answered = << >>

-----------------------------------------------------------------------------
(* GatherNearest.                                                          *)

\* The heap orders pairs by distance, then by row id; it holds the worst on top.
ExactDistance(e) == value[e[1]]
WorseThan(e, f) ==
    \/ ExactDistance(e) > ExactDistance(f)
    \/ ExactDistance(e) = ExactDistance(f) /\ e[1] > f[1]

\* Mutant: a heap of the other order, which pops the best.
TopsLeast(heap) == {e \in heap : \A f \in heap : ~ WorseThan(e, f)}

Tops(heap) == {e \in heap : \A f \in heap : ~ WorseThan(f, e)}

\* Mutant: the loop stops a unit too early.
StopsOneEarly(e) == /\ Cardinality(best) >= Limit
                    /\ \E t \in Tops(best) : bound[e] + 1 >= ExactDistance(t)

\* The heap is full and no entry left can be nearer than its worst.
Stops(e) ==
    /\ Cardinality(best) >= Limit
    /\ \E t \in Tops(best) : bound[e] >= ExactDistance(t)

\* Mutant: the heap grows without a pop.
KeptAll(e, heap) == heap = best \union {e}

\* Emplace, then a pop of the worst when there are more than k.
Kept(e, heap) ==
    IF Cardinality(best \union {e}) > Limit
    THEN \E t \in Tops(best \union {e}) : heap = (best \union {e}) \ {t}
    ELSE heap = best \union {e}

\* rtree_nn_cursor_next yields some entry of the least bound.
Yields(e) == e \in cursor /\ \A f \in cursor : bound[e] <= bound[f]

SkipCandidate(e) ==
    /\ phase = "open" /\ Limit > 0 /\ Yields(e) /\ ~ Stops(e)
    /\ value[e[1]] \in {Hidden, Null}
    /\ cursor' = cursor \ {e}
    /\ UNCHANGED <<query, phase, best, nearest, nearest_position, answered>>

KeepCandidate(e) ==
    /\ phase = "open" /\ Limit > 0 /\ Yields(e) /\ ~ Stops(e)
    /\ value[e[1]] \in Distance
    /\ cursor' = cursor \ {e}
    /\ \E heap \in SUBSET (best \union {e}) : Kept(e, heap) /\ best' = heap
    /\ UNCHANGED <<query, phase, nearest, nearest_position, answered>>

RaiseCandidate(e) ==
    /\ phase = "open" /\ Limit > 0 /\ Yields(e) /\ ~ Stops(e)
    /\ value[e[1]] = Raises
    /\ phase' = "failed"
    /\ UNCHANGED <<query, cursor, best, nearest, nearest_position, answered>>

BestFirst(s) == \A i, j \in DOMAIN s : i < j => ~ WorseThan(s[i], s[j])

FinishGather ==
    /\ phase = "open"
    /\ Limit = 0 \/ cursor = {} \/ \E e \in cursor : Yields(e) /\ Stops(e)
    /\ \E s \in SetToSeqs(best) :
         BestFirst(s) /\ nearest' = [i \in DOMAIN s |-> s[i][1]]
    /\ phase' = "gathered"
    /\ UNCHANGED <<query, cursor, best, nearest_position, answered>>

-----------------------------------------------------------------------------
(* RTreeIndexScanExecute hands the gathered ids out, a vector at a time.   *)

RowCount == Min({VectorSize, Len(nearest) - nearest_position})

NextIds == SubSeq(nearest, nearest_position + 1, nearest_position + RowCount)

Execute ==
    /\ phase = "gathered"
    /\ RowCount > 0
    /\ answered' = answered \o NextIds
    /\ nearest_position' = nearest_position + RowCount
    /\ UNCHANGED <<query, phase, cursor, best, nearest>>

ExecuteEmpty ==
    /\ phase = "gathered"
    /\ RowCount = 0
    /\ phase' = "ended"
    /\ UNCHANGED <<query, cursor, best, nearest, nearest_position, answered>>

Next ==
    \/ \E e \in Entry : SkipCandidate(e) \/ KeepCandidate(e) \/ RaiseCandidate(e)
    \/ FinishGather
    \/ Execute
    \/ ExecuteEmpty

Spec == Init /\ [][Next]_vars

-----------------------------------------------------------------------------
(* What the scan answers.                                                  *)

TypeOK ==
    /\ value \in [Row -> Value]
    /\ bound \in [Entry -> Distance \union {Absent}]
    /\ phase \in {"open", "gathered", "ended", "failed"}
    /\ cursor \subseteq Entry
    /\ best \subseteq Entry /\ Cardinality(best) <= Limit
    /\ nearest \in Seq(Row)
    /\ nearest_position \in 0..Len(nearest)
    /\ answered \in Seq(Row)

Ranked   == {r \in Row : value[r] \in Distance}
Answered == ToSet(answered)

\* The stale entries the tree still holds for the row ids given out again.
Stale == {e \in Entry : e[2] = "stale" /\ bound[e] # Absent}

\* Nothing read and dropped was nearer than what is kept, and nothing unread can
\* be read after a nearer row was dropped: the argument for stopping early
\* (GatherNearest's bound test and its pop).
NothingNearerDropped ==
    phase = "open" =>
        \A r \in Ranked :
            \/ <<r, "current">> \in best \union cursor
            \/ /\ Cardinality(best) = Limit
               /\ \A e \in best : ~ WorseThan(e, <<r, "current">>)

\* A query that ends without an error answers k nearest rows of those it sees, or
\* all of them, nearest first and each once, whatever the boxes promised of them,
\* unless a row id was given out again (082_knn_index_scan.test: the scan must
\* recompute the distance and keep reading while the bound stays below).
NearestUnlessReused ==
    phase = "ended" /\ Stale = {} =>
        /\ Answered \subseteq Ranked
        /\ Len(answered) = Min({Limit, Cardinality(Ranked)})
        /\ \A i, j \in DOMAIN answered : i < j => /\ value[answered[i]] <= value[answered[j]]
                                                  /\ answered[i] # answered[j]
        /\ \A r \in Ranked \ Answered, s \in Answered : value[s] <= value[r]

\* A stale entry costs at most places of the answer: every row answered is seen
\* and measured, and no row nearer than all of those answered is left out.
AnswersAreMeasured ==
    phase = "ended" =>
        /\ Answered \subseteq Ranked
        /\ Limit > 0 /\ Ranked # {} => \E s \in Answered : \A r \in Ranked : value[s] <= value[r]
=============================================================================
