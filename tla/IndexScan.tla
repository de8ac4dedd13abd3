------------------------------ MODULE IndexScan ------------------------------
(***************************************************************************)
(* One index scan (src/src/index/rtree_index_scan.cpp) that answers a      *)
(* bounding-box predicate: the search materialises every row id up front,  *)
(* and each call hands the engine the rows of the next vector of ids, as   *)
(* far as the transaction sees them.  Nothing evaluates the predicate on   *)
(* what was fetched.                                                       *)
(*                                                                         *)
(* The index and the table disagree.  An id the index answers is hidden    *)
(* when its row was deleted and not vacuumed yet, or committed after the   *)
(* snapshot.  A row the transaction inserted itself is in its local        *)
(* storage and in no index.  An id that was reused since the tree was      *)
(* built, or that a failed append left behind, is answered from old boxes  *)
(* too, and once per entry (RTreeIndex: reused and orphan).  A search that *)
(* raised answers a part and does not say so.                              *)
(***************************************************************************)
EXTENDS Integers, SequencesExt

CONSTANTS
    Row,        \* row ids
    VectorSize, \* STANDARD_VECTOR_SIZE
    MaxAnswer,  \* bound on the length of the answer
    Local,      \* the rows the transaction may have inserted itself
    Stale,      \* the ids reused or left behind since the tree was built
    Raised      \* whether the search may raise: the values raised takes

ASSUME RowAssumption  == IsFiniteSet(Row) /\ Local \subseteq Row /\ Stale \subseteq Row
ASSUME SizeAssumption == VectorSize \in Nat \ {0} /\ MaxAnswer \in Nat
ASSUME RaisedAssumption == Raised \subseteq BOOLEAN

VARIABLES
    answer,           \* what Search returns: a sequence of ids
    raised,           \* whether Search swallowed an exception
    visible,          \* the rows the transaction sees
    matching,         \* those of them that satisfy the predicate
    phase,            \* "planned", "open" or "ended"
    search_results,
    current_position,
    answered          \* how often the engine was handed each row

query == <<answer, raised, visible, matching>>
vars  == <<query, phase, search_results, current_position, answered>>

\* How often the index answers a row.
Times(r) == Cardinality({i \in DOMAIN answer : answer[i] = r})

\* The answers RTreeIndex allows: only a stale id comes twice or for a row that
\* does not match, and a search that returned misses local rows alone.
Answers ==
    /\ \A r \in Row \ Stale : Times(r) <= 1 /\ (r \in visible \ matching => Times(r) = 0)
    /\ raised \/ \A r \in matching \ Local : Times(r) >= 1

Init ==
    /\ answer \in SeqOf(Row, MaxAnswer)
    /\ raised \in Raised
    /\ visible \in SUBSET Row
    /\ matching \in SUBSET visible
    /\ Answers
    /\ phase = "planned"
    /\ search_results = << >>
    /\ current_position = 0
    /\ answered = [r \in Row |-> 0]

\* RTreeIndexScanInitGlobal searches the index.  The scan of the local storage
\* is initialised there too, and never read.
InitGlobal ==
    /\ phase = "planned"
    /\ search_results' = answer
    /\ phase' = "open"
    /\ UNCHANGED <<query, current_position, answered>>

\* Mutant: Scan stops before the last id.
RowCountLastLost == Min({VectorSize, Max({0, Len(search_results) - 1 - current_position})})

\* Scan: where the ids of the next vector lie among the results.
RowCount == Min({VectorSize, Len(search_results) - current_position})
NextIds  == (current_position + 1)..(current_position + RowCount)

\* DataTable::Fetch returns the rows of those ids that the transaction sees.
Fetched == {i \in NextIds : search_results[i] \in visible}

\* Mutants: Scan resumes one id too far, or behind the rows it got.
NextPositionTooFar == current_position + RowCount + 1
NextPositionByRows == current_position + Cardinality(Fetched)

NextPosition == current_position + RowCount

\* RTreeIndexScanExecute with rows to hand out.
Execute ==
    /\ phase = "open"
    /\ Fetched # {}
    /\ answered' = [r \in Row |->
                      answered[r] + Cardinality({i \in Fetched : search_results[i] = r})]
    /\ current_position' = NextPosition
    /\ UNCHANGED <<query, phase, search_results>>

\* A call that hands out an empty chunk ends the scan for the engine, because
\* the ids ran out or because none of them was visible.
ExecuteEmpty ==
    /\ phase = "open"
    /\ Fetched = {}
    /\ current_position' = NextPosition
    /\ phase' = "ended"
    /\ UNCHANGED <<query, search_results, answered>>

Next == InitGlobal \/ Execute \/ ExecuteEmpty

Spec == Init /\ [][Next]_vars

-----------------------------------------------------------------------------
(* What the scan answers.                                                  *)

TypeOK ==
    /\ answer \in Seq(Row)
    /\ raised \in BOOLEAN
    /\ visible \in SUBSET Row /\ matching \in SUBSET visible
    /\ phase \in {"planned", "open", "ended"}
    /\ search_results \in Seq(Row)
    /\ current_position \in 0..Len(search_results)
    /\ answered \in [Row -> Nat]

\* The ids of the answer whose rows the transaction does not see.
HiddenIds == {i \in DOMAIN answer : answer[i] \notin visible}

\* A whole vector of ids of which the transaction sees none.
BlankVector ==
    \E i \in 0..(Len(search_results) - VectorSize) :
        \A j \in (i + 1)..(i + VectorSize) : search_results[j] \notin visible

\* The scan is a row stream over the answer of the index: however the vectors
\* cut it and whatever the fetch leaves out, each visible row reaches the engine
\* as often as the index answers it, unless a blank vector lies among the ids
\* (the empty chunk Execute then hands out ends the scan).
Stream == INSTANCE RowStream WITH
    Item <- Row,
    wanted <- [r \in Row |-> IF r \in visible THEN Times(r) ELSE 0],
    sent <- answered,
    open <- phase # "ended",
    cut <- BlankVector
ImplementsRowStream == Stream!Spec

\* Against a sequential scan: a row is handed out twice, or though it does not
\* match, only if its id is stale, and at the end a matching row is missing only
\* if the search raised, the row is local, or a vector or more of the ids the
\* index answered was hidden (Search, Scan and Fetch together).
RowsUnlessDisturbed ==
    /\ \A r \in Row \ Stale : answered[r] <= IF r \in matching THEN 1 ELSE 0
    /\ phase = "ended" /\ ~ raised /\ Cardinality(HiddenIds) < VectorSize =>
         \A r \in matching \ Local : answered[r] >= 1

\* 077b_index_scan_projection.test: "The rows are the same ones a sequential
\* scan returns."
RowsOfSequentialScan ==
    phase = "ended" => {r \in Row : answered[r] > 0} = matching
=============================================================================
