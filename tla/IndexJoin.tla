------------------------------ MODULE IndexJoin ------------------------------
(***************************************************************************)
(* The index join of src/src/index/rtree_index_join.cpp: for each row of   *)
(* the probe side the index is searched once, and the rows it answers are  *)
(* fetched and copied beside the probe row, a vector at a time.  A probe   *)
(* row with more matches than fit in the output chunk is resumed by the    *)
(* next call, so what Execute keeps between calls decides whether a pair   *)
(* is lost or repeated.                                                    *)
(*                                                                         *)
(* An answer of the index is any sequence of ids.  It holds hidden ids,    *)
(* of rows deleted and not vacuumed yet or committed after the snapshot,   *)
(* which the fetch leaves out.  After row ids were reused it may hold an   *)
(* id twice, or one from an old box (RTreeIndex: reused and orphan), and   *)
(* after a search that raised it is short of rows.  The join evaluates no  *)
(* predicate on what it fetched.                                           *)
(***************************************************************************)
EXTENDS Integers, SequencesExt

CONSTANTS
    Probe,      \* the rows of the probe side
    Row,        \* the rows of the indexed table that the transaction sees
    Hidden,     \* ids the index may answer though the transaction sees no row
    VectorSize, \* STANDARD_VECTOR_SIZE
    MaxAnswer,  \* bound on the length of an answer of the index
    Unset       \* a slot of the fetched chunk that the fetch did not write

ASSUME RowAssumption     == IsFiniteSet(Row) /\ IsFiniteSet(Hidden) /\ Row \cap Hidden = {}
ASSUME ProbeAssumption   == IsFiniteSet(Probe)
ASSUME SizeAssumption    == VectorSize \in Nat \ {0} /\ MaxAnswer \in Nat
ASSUME MarkersAssumption == Unset \notin Row

VARIABLES
    boxed,        \* the probe rows that are not NULL and have a box
    answers,      \* what the index answers each probe row: a sequence of ids
    remaining,    \* the probe rows the child has still to deliver
    phase,        \* "input", "running", "output" or "ended"
    input,        \* the probe rows of the current input chunk
    probe_row,
    matches,
    match_offset,
    out,          \* how often each pair is in the output chunk
    out_count,    \* the rows of the output chunk
    emitted       \* how often the engine was handed each pair

query == <<boxed, answers>>
state == <<probe_row, matches, match_offset>>
chunk == <<out, out_count>>
vars  == <<query, remaining, phase, input, state, chunk, emitted>>

Pair == Probe \X (Row \union {Unset})
NoPairs == [p \in Pair |-> 0]

Init ==
    /\ boxed \in SUBSET Probe
    /\ answers \in [Probe -> SeqOf(Row \union Hidden, MaxAnswer)]
    /\ \A q \in Probe \ boxed : answers[q] = << >>
    /\ remaining = Probe
    /\ phase = "input"
    /\ input = << >>
    /\ probe_row = 0 /\ matches = << >> /\ match_offset = 0
    /\ out = NoPairs /\ out_count = 0
    /\ emitted = NoPairs

-----------------------------------------------------------------------------
(* The engine.                                                             *)

\* The next chunk of the child, and a call of Execute with it.
NextInput ==
    /\ phase = "input"
    /\ remaining # {}
    /\ \E S \in SUBSET remaining :
         /\ S # {} /\ Cardinality(S) <= VectorSize
         /\ input' \in SetToSeqs(S)
         /\ remaining' = remaining \ S
    /\ phase' = "running"
    /\ UNCHANGED <<query, state, chunk, emitted>>

\* The engine takes the output chunk and calls Execute again with the same input.
TakeOutput ==
    /\ phase = "output"
    /\ emitted' = [p \in Pair |-> emitted[p] + out[p]]
    /\ out' = NoPairs /\ out_count' = 0
    /\ phase' = "running"
    /\ UNCHANGED <<query, remaining, input, state>>

End ==
    /\ phase = "input"
    /\ remaining = {}
    /\ phase' = "ended"
    /\ UNCHANGED <<query, remaining, input, state, chunk, emitted>>

-----------------------------------------------------------------------------
(* Execute.                                                                *)

\* Mutant: whether a row is being resumed is read off the offset alone.
ResumingByOffset == match_offset # 0

Resuming == match_offset # 0 \/ matches # << >>

\* A probe row with no box, or one the index answers nothing for.
SkipProbe ==
    /\ phase = "running" /\ probe_row < Len(input) /\ ~ Resuming
    /\ input[probe_row + 1] \notin boxed \/ answers[input[probe_row + 1]] = << >>
    /\ probe_row' = probe_row + 1
    /\ UNCHANGED <<query, remaining, phase, input, matches, match_offset, chunk, emitted>>

\* One search of the index; whatever it answers are the matches.
SearchIndex ==
    /\ phase = "running" /\ probe_row < Len(input) /\ ~ Resuming
    /\ input[probe_row + 1] \in boxed
    /\ answers[input[probe_row + 1]] # << >>
    /\ matches' = answers[input[probe_row + 1]]
    /\ UNCHANGED <<query, remaining, phase, input, probe_row, match_offset, chunk, emitted>>

\* Mutant: a vector is filled whatever the output chunk already holds.
TakeWholeVector == Min({Len(matches) - match_offset, VectorSize})

Take  == Min({Len(matches) - match_offset, VectorSize - out_count})
Taken == (match_offset + 1)..(match_offset + Take)

\* DataTable::Fetch packs the rows it finds at the front of the fetched chunk,
\* and Execute copies as many slots as it asked for: an unset one for each id
\* without a row.
Fetched(id) == IF id \in Row THEN id ELSE Unset

Batch == [p \in Pair |->
            Cardinality({i \in Taken : <<input[probe_row + 1], Fetched(matches[i])>> = p})]

\* Mutant: the probe row is done one match early.
LastBatchEarly == match_offset + Take + 1 >= Len(matches)

LastBatch == match_offset + Take = Len(matches)

\* The output chunk has room for a match here: it was handed out when it was full,
\* so Execute does not meet its branch for a batch of none.
EmitBatch ==
    /\ phase = "running" /\ probe_row < Len(input) /\ Resuming
    /\ out' = [p \in Pair |-> out[p] + Batch[p]]
    /\ out_count' = out_count + Take
    /\ IF LastBatch
       THEN matches' = << >> /\ match_offset' = 0 /\ probe_row' = probe_row + 1
       ELSE match_offset' = match_offset + Take /\ UNCHANGED <<matches, probe_row>>
    /\ phase' = IF out_count' = VectorSize THEN "output" ELSE "running"
    /\ UNCHANGED <<query, remaining, input, emitted>>

\* Every probe row of the chunk is done: the chunk goes out as far as it is full.
ReturnInput ==
    /\ phase = "running" /\ probe_row = Len(input)
    /\ emitted' = [p \in Pair |-> emitted[p] + out[p]]
    /\ out' = NoPairs /\ out_count' = 0
    /\ probe_row' = 0
    /\ phase' = "input"
    /\ UNCHANGED <<query, remaining, input, matches, match_offset>>

Execute == SkipProbe \/ SearchIndex \/ EmitBatch \/ ReturnInput
Next == NextInput \/ TakeOutput \/ Execute \/ End

\* The engine runs the pipeline of a query until its child is exhausted.
Spec == Init /\ [][Next]_vars /\ WF_vars(Next)

-----------------------------------------------------------------------------
(* What the join answers.                                                  *)

\* An output chunk never holds more than a vector of the engine (Execute).
TypeOK ==
    /\ boxed \in SUBSET Probe
    /\ answers \in [Probe -> Seq(Row \union Hidden)]
    /\ remaining \subseteq Probe
    /\ phase \in {"input", "running", "output", "ended"}
    /\ input \in Seq(Probe)
    /\ probe_row \in 0..Len(input)
    /\ matches \in Seq(Row \union Hidden)
    /\ match_offset \in 0..Len(matches)
    /\ out \in [Pair -> Nat] /\ out_count \in 0..VectorSize
    /\ emitted \in [Pair -> Nat]

Handed(p) == emitted[p] + out[p]

\* The join ends: a call either hands out a row or moves on to another probe row,
\* so the engine does not ask for more output for ever.
JoinEnds == <>(phase = "ended")

\* How often a pair follows from the answers: a row as often as it is answered,
\* and an unwritten slot for each hidden id.
Times(p) == Cardinality({i \in DOMAIN answers[p[1]] : Fetched(answers[p[1]][i]) = p[2]})

\* The join is a row stream over the answers of the index: no pair is lost and
\* none handed out more often than answered, however the matches fall on the
\* chunks and whatever ids the index mixes into them, and each hidden id hands
\* out one unwritten slot (probe_row, matches and match_offset across calls of
\* Execute).
Stream == INSTANCE RowStream WITH
    Item <- Pair,
    wanted <- [p \in Pair |-> Times(p)],
    sent <- [p \in Pair |-> Handed(p)],
    open <- phase # "ended",
    cut <- FALSE
ImplementsRowStream == Stream!Spec
=============================================================================
