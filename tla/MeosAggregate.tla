---------------------------- MODULE MeosAggregate ----------------------------
(***************************************************************************)
(* One group of an aggregate of MEOS: meos_aggregate.hpp, and the          *)
(* operations that generated_aggregates.cpp gives it per aggregate.        *)
(*                                                                         *)
(* The engine spreads the rows of the group over partial states in no      *)
(* order, joins the partial states in no order and finishes the one that   *)
(* is left; an exception or an interrupt ends the query anywhere, and then *)
(* every partial state is destroyed.  The memory is MEOS's, behind plain   *)
(* pointers, so the module keeps what is allocated in heap.                *)
(*                                                                         *)
(* A state object has the name of the first row folded into it and a       *)
(* vector of gathered rows that of the partial state that made it.         *)
(***************************************************************************)
EXTENDS Naturals

CONSTANTS
    Row,      \* the rows of the group
    Partial,  \* the partial states
    MaxTime,  \* bound on the timestamps
    Families, \* the kinds of operations of the generated aggregates
    Required, \* the arguments that Read asks for
    Nulls,    \* the sets of arguments that are NULL together in a row
    Null      \* a null pointer

ASSUME FamilyAssumption == Families \subseteq {"extent", "tagg", "append"}
ASSUME TimeAssumption   == MaxTime \in Nat \ {0}
ASSUME NullAssumption   == Null \notin Row \union Partial

VARIABLES
    ops,     \* the family of the aggregate
    span,    \* the first and the last timestamp of each row
    nulls,   \* the arguments of each row that are NULL
    unread,  \* the rows the engine has not handed out
    status,  \* where the engine is with each partial state
    state,   \* State.state
    rows,    \* State.rows
    held,    \* the rows in each vector
    folded,  \* the rows folded into each state object
    heap,    \* what is allocated
    raised,  \* why the query ended, or "no"
    dropped, \* a release of Destroy raised
    answers  \* the answers of the group, each as the rows it is over

data    == <<ops, span>>
input   == <<nulls, unread>>
objects == <<state, rows, held, folded>>
outcome == <<raised, dropped, answers>>
vars    == <<data, input, status, objects, heap, outcome>>

RowBlock(r)    == <<"row", r>>
StateBlock(o)  == <<"state", o>>
VectorBlock(v) == <<"vector", v>>

Spans == {d \in (1 .. MaxTime) \X (1 .. MaxTime) : d[1] <= d[2]}

Gathers       == ops = "append"
HasFinal      == ops # "extent"
FinalConsumes == ops = "tagg"

Init ==
    /\ ops \in Families
    /\ span \in [Row -> IF Gathers THEN Spans ELSE {<<1, 1>>}]
    /\ nulls \in [Row -> Nulls]
    /\ unread = Row
    /\ status = [p \in Partial |-> "open"]
    /\ state = [p \in Partial |-> Null]
    /\ rows = [p \in Partial |-> Null]
    /\ held = [p \in Partial |-> {}]
    /\ folded = [o \in Row |-> {}]
    /\ heap = {} /\ raised = "no" /\ dropped = FALSE /\ answers = {}

-----------------------------------------------------------------------------
(* Update, one row at a time.                                              *)

Updating(p, r) == raised = "no" /\ status[p] = "open" /\ r \in unread

\* Read asks for every argument, but the interval of an append, which may be NULL.
Skips(r) == nulls[r] \cap Required # {}

SkipRow(p, r) ==
    /\ Updating(p, r) /\ Skips(r)
    /\ unread' = unread \ {r}
    /\ UNCHANGED <<data, nulls, status, objects, heap, outcome>>

GatherRow(p, r) ==
    /\ Gathers /\ Updating(p, r) /\ ~ Skips(r)
    /\ unread' = unread \ {r}
    /\ LET v == IF rows[p] = Null THEN p ELSE rows[p] IN
       /\ rows' = [rows EXCEPT ![p] = v]
       /\ held' = [held EXCEPT ![v] = @ \union {r}]
       /\ heap' = heap \union {RowBlock(r), VectorBlock(v)}
    /\ UNCHANGED <<data, nulls, status, state, folded, outcome>>

\* Fold: Transition makes a state object of the first row.
Fold(p, r) ==
    LET o == IF state[p] = Null THEN r ELSE state[p] IN
    /\ state' = [state EXCEPT ![p] = o]
    /\ folded' = [folded EXCEPT ![o] = @ \union {r}]
    /\ heap' = (heap \ {RowBlock(r)}) \union {StateBlock(o)}

FoldRow(p, r) ==
    /\ ~ Gathers /\ Updating(p, r) /\ ~ Skips(r)
    /\ unread' = unread \ {r}
    /\ Fold(p, r)
    /\ UNCHANGED <<data, nulls, status, rows, held, outcome>>

\* Transition refuses the row, which is released; the state stays.
RefuseRow(p, r) ==
    /\ ~ Gathers /\ Updating(p, r) /\ ~ Skips(r)
    /\ unread' = unread \ {r} /\ raised' = "value"
    /\ UNCHANGED <<data, nulls, status, objects, heap, dropped, answers>>

\* Read raises on a later argument, when it has decoded the first one.
ReadRaises(p, r) ==
    /\ Updating(p, r) /\ ~ Skips(r)
    /\ unread' = unread \ {r} /\ raised' = "read"
    /\ heap' = heap \union {RowBlock(r)}
    /\ UNCHANGED <<data, nulls, status, objects, dropped, answers>>

-----------------------------------------------------------------------------
(* Combine: the partial state b into a.                                    *)

Combining(a, b) == raised = "no" /\ a # b /\ status[a] = "open" /\ status[b] = "open"

\* Mutant: the source keeps its vector when its rows have moved.
RowsKept(b) == rows[b]

\* b.rows after the rows have moved.
RowsMoved(b) == Null

CombineRows(a, b) ==
    /\ Gathers /\ Combining(a, b)
    /\ status' = [status EXCEPT ![b] = "merged"]
    /\ IF rows[b] = Null THEN UNCHANGED <<rows, held, heap>>
       ELSE IF rows[a] = Null
       THEN /\ rows' = [rows EXCEPT ![a] = rows[b], ![b] = RowsMoved(b)]
            /\ UNCHANGED <<held, heap>>
       ELSE /\ rows' = [rows EXCEPT ![b] = RowsMoved(b)]
            /\ held' = [held EXCEPT ![rows[a]] = @ \union held[rows[b]], ![rows[b]] = {}]
            /\ heap' = heap \ {VectorBlock(rows[b])}
    /\ UNCHANGED <<data, input, state, folded, outcome>>

\* Mutant: a combine that answers its second state is not told apart, so that
\* the state it answered is released.
SecondReleased(r, x, y) == y

\* The state that the combine did not answer.
Unanswered(r, x, y) == IF r = y THEN x ELSE y

\* What Release(state) and Finish free: the state itself when no final keeps
\* it, or the result of the final, in which a consumed state is.  The final of
\* an append keeps the state, and its generated KEEPS is false.
Released(o) == IF HasFinal /\ ~ FinalConsumes THEN {} ELSE {StateBlock(o)}

CombineStates(a, b) ==
    /\ ~ Gathers /\ Combining(a, b)
    /\ status' = [status EXCEPT ![b] = "merged"]
    /\ LET x == state[a]
           y == state[b] IN
       IF x = Null \/ y = Null
       THEN /\ state' = [state EXCEPT ![a] = IF x = Null THEN y ELSE x, ![b] = Null]
            /\ UNCHANGED <<folded, heap>>
       ELSE \E r \in {x} \union (IF FinalConsumes THEN {y} ELSE {}) :
            /\ state' = [state EXCEPT ![a] = r, ![b] = Null]
            /\ folded' = [folded EXCEPT ![r] = folded[x] \union folded[y]]
            /\ heap' = heap \ Released(Unanswered(r, x, y))
    /\ UNCHANGED <<data, input, rows, held, outcome>>

\* OPS::Combine, or the release of the state it did not answer, raises: both
\* pointers are gone by then.
CombineRaises(a, b) ==
    /\ ~ Gathers /\ Combining(a, b)
    /\ state[a] # Null /\ state[b] # Null
    /\ state' = [state EXCEPT ![a] = Null, ![b] = Null]
    /\ raised' = "combine"
    /\ UNCHANGED <<data, input, status, rows, held, folded, heap, dropped, answers>>

-----------------------------------------------------------------------------
(* Finalize.                                                               *)

BeginFinish(p) ==
    /\ raised = "no" /\ unread = {} /\ status[p] = "open"
    /\ \A q \in Partial \ {p} : status[q] # "open"
    /\ status' = [status EXCEPT ![p] = "folding"]
    /\ UNCHANGED <<data, input, objects, heap, outcome>>

Folding(p) == raised = "no" /\ status[p] = "folding"

\* Mutant: the rows are folded in the order they arrived.
Unsorted(v) == held[v]

\* The rows that may come first in the order of their start timestamps.
Earliest(v) == {r \in held[v] : \A q \in held[v] : span[r][1] <= span[q][1]}

Past(p) == IF state[p] = Null THEN {} ELSE folded[state[p]]

\* A row at the end of what is folded is accepted or not, by its value.
FoldNext(p, r) ==
    /\ Folding(p) /\ rows[p] # Null /\ r \in Earliest(rows[p])
    /\ \A q \in Past(p) : span[q][2] <= span[r][1]
    /\ Fold(p, r)
    /\ held' = [held EXCEPT ![rows[p]] = @ \ {r}]
    /\ UNCHANGED <<data, input, status, rows, outcome>>

\* Mutant: the handler releases the row that raised and forgets those after it.
RowsLeft(v, r) == {r}

\* The row that raised, which Fold releases, and the rows after it.
RowsFreed(v, r) == held[v]

\* Transition refuses the row, for its time or for its value.
FoldRaises(p, r) ==
    /\ Folding(p) /\ rows[p] # Null /\ r \in Earliest(rows[p])
    /\ raised' \in {"value"} \union
            (IF \E q \in Past(p) : span[q][2] >= span[r][1] THEN {"order"} ELSE {})
    /\ heap' = (heap \ {RowBlock(q) : q \in RowsFreed(rows[p], r)}) \ {VectorBlock(rows[p])}
    /\ held' = [held EXCEPT ![rows[p]] = {}]
    /\ rows' = [rows EXCEPT ![p] = Null]
    /\ UNCHANGED <<data, input, status, state, folded, dropped, answers>>

\* Mutant: a partial state is finished with the rows that are folded so far.
FinishedAnytime(p) == TRUE

RowsFolded(p) == rows[p] # Null => held[rows[p]] = {}

Finish(p) ==
    /\ Folding(p) /\ RowsFolded(p)
    /\ status' = [status EXCEPT ![p] = "finished"]
    /\ answers' = answers \union {Past(p)}
    /\ rows' = [rows EXCEPT ![p] = Null]
    /\ state' = [state EXCEPT ![p] = Null]
    /\ heap' = (heap \ (IF rows[p] = Null THEN {} ELSE {VectorBlock(rows[p])}))
                     \ (IF state[p] = Null THEN {} ELSE Released(state[p]))
    /\ UNCHANGED <<data, input, held, folded, raised, dropped>>

\* Final raises when the state is out of the partial state and the vector gone.
FinalRaises(p) ==
    /\ Folding(p) /\ RowsFolded(p) /\ HasFinal /\ state[p] # Null
    /\ raised' = "final"
    /\ rows' = [rows EXCEPT ![p] = Null]
    /\ state' = [state EXCEPT ![p] = Null]
    /\ heap' = heap \ (IF rows[p] = Null THEN {} ELSE {VectorBlock(rows[p])})
    /\ UNCHANGED <<data, input, status, held, folded, dropped, answers>>

-----------------------------------------------------------------------------
(* The engine's interrupt, and Destroy.                                    *)

Interrupt ==
    /\ raised = "no"
    /\ raised' = "interrupt"
    /\ UNCHANGED <<data, input, status, objects, heap, dropped, answers>>

\* ReleaseRows: the rows of a vector and the vector.
RowsReleased(p) ==
    IF rows[p] = Null THEN {}
    ELSE {RowBlock(r) : r \in held[rows[p]]} \union {VectorBlock(rows[p])}

Destroy(p) ==
    /\ raised # "no" \/ status[p] \in {"merged", "finished"}
    /\ status[p] # "destroyed"
    /\ status' = [status EXCEPT ![p] = "destroyed"]
    /\ state' = [state EXCEPT ![p] = Null]
    /\ rows' = [rows EXCEPT ![p] = Null]
    /\ held' = IF rows[p] = Null THEN held ELSE [held EXCEPT ![rows[p]] = {}]
    /\ \/ /\ heap' = (heap \ RowsReleased(p))
                           \ (IF state[p] = Null THEN {} ELSE Released(state[p]))
          /\ UNCHANGED dropped
       \/ /\ HasFinal /\ state[p] # Null   \* Release raises: swallowed
          /\ heap' = heap \ RowsReleased(p)
          /\ dropped' = TRUE
    /\ UNCHANGED <<data, input, folded, raised, answers>>

Done == (\A p \in Partial : status[p] = "destroyed") /\ UNCHANGED vars

UpdateStep(p, r) == SkipRow(p, r) \/ GatherRow(p, r) \/ FoldRow(p, r)
                    \/ RefuseRow(p, r) \/ ReadRaises(p, r)
CombineStep(a, b) == CombineRows(a, b) \/ CombineStates(a, b) \/ CombineRaises(a, b)
FinishStep(p) == BeginFinish(p) \/ Finish(p) \/ FinalRaises(p)
                 \/ \E r \in Row : FoldNext(p, r) \/ FoldRaises(p, r)

Next ==
    \/ \E p \in Partial, r \in Row : UpdateStep(p, r)
    \/ \E a, b \in Partial : CombineStep(a, b)
    \/ \E p \in Partial : FinishStep(p) \/ Destroy(p)
    \/ Interrupt
    \/ Done

Spec == Init /\ [][Next]_vars

-----------------------------------------------------------------------------
(* Properties                                                              *)

Statuses == {"open", "merged", "folding", "finished", "destroyed"}
Reasons  == {"no", "value", "order", "read", "combine", "final", "interrupt"}
Blocks   == {RowBlock(r) : r \in Row} \union {StateBlock(o) : o \in Row}
            \union {VectorBlock(v) : v \in Partial}

\* The types of the variables; a partial state that was merged into another,
\* finished or destroyed points to nothing.
TypeOK ==
    /\ ops \in Families /\ span \in [Row -> (1 .. MaxTime) \X (1 .. MaxTime)]
    /\ nulls \in [Row -> Nulls] /\ unread \subseteq Row
    /\ status \in [Partial -> Statuses]
    /\ state \in [Partial -> Row \union {Null}]
    /\ rows \in [Partial -> Partial \union {Null}]
    /\ held \in [Partial -> SUBSET Row]
    /\ folded \in [Row -> SUBSET Row]
    /\ heap \subseteq Blocks
    /\ raised \in Reasons /\ dropped \in BOOLEAN
    /\ answers \subseteq SUBSET Row
    /\ \A p \in Partial : status[p] \in {"merged", "finished", "destroyed"} =>
           state[p] = Null /\ rows[p] = Null

\* What a partial state points to is allocated and is no other partial state's:
\* nothing is used after its release nor released twice, whatever is combined,
\* refused and destroyed in whatever order (Combine, Fold, Finish, Destroy).
OwnedOnce ==
    /\ \A p \in Partial : state[p] # Null => StateBlock(state[p]) \in heap
    /\ \A p \in Partial : rows[p] # Null =>
           /\ VectorBlock(rows[p]) \in heap
           /\ \A r \in held[rows[p]] : RowBlock(r) \in heap
    /\ \A p, q \in Partial : p # q =>
           /\ state[p] # Null => state[p] # state[q]
           /\ rows[p] # Null => rows[p] # rows[q]

NoneNull == {r \in Row : nulls[r] \cap Required = {}}

\* The answer is over the rows of the group that have every argument asked for,
\* all of them and no other, however the rows were spread and the partial states
\* joined (Read, Finish).
AnswerWhole == answers \subseteq {NoneNull}

\* Rows that can be put in an order of time are never refused for their time,
\* in whatever order they arrived and joined (FoldGathered).
RefusedOnlyOverlapping ==
    raised = "order" =>
        \E q, r \in Row : q # r /\ span[q][1] <= span[r][2] /\ span[r][1] <= span[q][2]

Destroyed == \A p \in Partial : status[p] = "destroyed"

\* When Read, OPS::Combine and OPS::Final have not raised, Destroy leaves
\* nothing allocated but the states that the final of an append keeps.
AllReleased ==
    Destroyed /\ raised \notin {"read", "combine", "final"} /\ ~ dropped =>
        heap \subseteq (IF Gathers THEN {StateBlock(o) : o \in Row} ELSE {})
=============================================================================
