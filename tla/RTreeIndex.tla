------------------------------ MODULE RTreeIndex ------------------------------
(***************************************************************************)
(* One TRTreeIndex object (src/src/index/rtree_module.cpp) as the engine   *)
(* drives it: built in bulk by CREATE INDEX, then given appended chunks    *)
(* and deleted row ids, saved with the database, and rebuilt from the      *)
(* saved entries by a restart.                                             *)
(*                                                                         *)
(* The MEOS tree offers no removal and no serialization, so the index      *)
(* keeps two things beside it: deleted_, the row ids every search filters  *)
(* out, and a chain of fixed-size segments holding the (row id, box) pairs *)
(* that were fed to the tree.  The module asks whether the three stay      *)
(* consistent through row id reuse, failed appends and restarts.           *)
(*                                                                         *)
(* entry_count_ is written and never read by the code; it is left out.     *)
(***************************************************************************)
EXTENDS Integers, FiniteSets

LOCAL INSTANCE Functions

CONSTANTS
    Row,          \* row ids the table may use
    Box,          \* bounding boxes, as Construct stores them (SRID cleared)
    Raises,       \* the boxes on which MEOS raises instead of answering
    SegmentSize,  \* entries_per_segment_
    LoadLimit,    \* most entries one rtree_load takes: INT32_MAX in the code
    MaxEntries,   \* bound on the entries ever recorded in one chain
    NoBox,        \* a value the index skips: NULL, or one with no box
    Absent,       \* not a row of the table, or not a row of the chunk
    Tombstone,    \* TOMBSTONE_ROW_ID
    Free          \* a slot of a segment never written

ASSUME RaisesAssumption  == Raises \subseteq Box
ASSUME SizeAssumption    == SegmentSize \in Nat \ {0}
ASSUME LimitAssumption   == LoadLimit \in Nat /\ MaxEntries \in Nat
ASSUME FiniteAssumption  == IsFiniteSet(Row) /\ IsFiniteSet(Box)
ASSUME MarkersAssumption == /\ {NoBox, Absent} \cap Box = {}
                            /\ NoBox # Absent
                            /\ Tombstone \notin Row
                            /\ Free \notin (Row \union {Tombstone}) \X Box

VARIABLES
    phase,       \* "none", "building", "attached", or "unreadable"
    tree,        \* rtree_: how often each entry was fed to the MEOS tree
    gathered,    \* bulk_ids_ and bulk_boxes_, while bulk_construct_ is set
    deleted,     \* deleted_
    chain,       \* the segments from entry_head_, in link order
    tail,        \* position of entry_tail_ in the chain, 0 when it is null
    tail_count,  \* tail_count_
    chunk,       \* the rows Construct has still to read, in any order
    done,        \* the rows of the same chunk it has dealt with
    table,       \* engine: what each row of the table holds
    orphan,      \* history: rows a failed append left in the index
    reused,      \* history: rows deleted and indexed again since the tree was built
    saved        \* the image the database file (or its WAL) holds: none or one

memory == <<tree, gathered, deleted, chain, tail, tail_count>>
call   == <<chunk, done>>
vars   == <<phase, memory, call, table, orphan, reused, saved>>

-----------------------------------------------------------------------------
(* Entries, segments and chains.                                           *)

Entry     == Row \X Box
Recorded  == (Row \union {Tombstone}) \X Box
Value     == Box \union {NoBox, Absent}
Segment   == [count : 1..SegmentSize, slot : [1..SegmentSize -> Recorded \union {Free}]]

NoEntries == [e \in Entry |-> 0]
NoRows    == [r \in Row |-> Absent]

Slots(c, n) == {p \in (1..n) \X (1..SegmentSize) : p[2] <= c[p[1]].count}
EntryAt(c, p) == c[p[1]].slot[p[2]]
Holders(c, n, e) == {p \in Slots(c, n) : EntryAt(c, p) = e}
\* Mutant: the replay counts tombstoned entries against the load limit.
LiveSlotsWithTombstones(c, n) == Slots(c, n)
LiveSlots(c, n) == {p \in Slots(c, n) : EntryAt(c, p)[1] # Tombstone}

Plus(bag, e) == [bag EXCEPT ![e] = @ + 1]

\* Mutants: RecordEntry never leaves the first segment; it leaves one slot unused.
NeedsSegmentAtStartOnly == tail = 0
NeedsSegmentOneEarly == tail = 0 \/ tail_count + 1 >= SegmentSize

\* RecordEntry takes a new segment when there is none or the last one is full.
NeedsSegment == tail = 0 \/ tail_count = SegmentSize

\* The position RecordEntry writes, and the chain and tail once it has written.
SlotPosition == IF NeedsSegment THEN 1 ELSE tail_count + 1
EmptySegment == [count |-> 0, slot |-> [j \in 1..SegmentSize |-> Free]]
Written(seg, e) == [count |-> SlotPosition,
                    slot  |-> [seg.slot EXCEPT ![SlotPosition] = e]]
RecordedTail == IF NeedsSegment THEN tail + 1 ELSE tail
RecordedChain(e) ==
    [s \in 1..RecordedTail |->
        IF s = RecordedTail
        THEN Written(IF NeedsSegment THEN EmptySegment ELSE chain[s], e)
        ELSE chain[s]]

\* Mutant: RecordEntry does not take the id out of deleted_.
UndeletedKept(r) == deleted

\* An id being indexed is live whatever happened to it before.
Undeleted(r) == deleted \ {r}

RecordEntry(r, b) ==
    /\ chain' = RecordedChain(<<r, b>>)
    /\ tail' = RecordedTail
    /\ tail_count' = SlotPosition
    /\ deleted' = Undeleted(r)

\* Mutant: the deleted ids are remembered but their entries not tombstoned.
TombstoneSlotKept(e, R) == e

TombstoneSlot(e, R) == IF e # Free /\ e[1] \in R THEN <<Tombstone, e[2]>> ELSE e

\* Mutant: the pass stops after the first segment.
TombstonedFirst(R) ==
    [s \in 1..tail |->
        IF s > 1 THEN chain[s]
        ELSE [chain[s] EXCEPT !.slot =
                [j \in 1..SegmentSize |-> TombstoneSlot(chain[s].slot[j], R)]]]

\* TombstoneEntries: one pass over the whole chain.

Tombstoned(R) ==
    [s \in 1..tail |->
        [chain[s] EXCEPT !.slot =
            [j \in 1..SegmentSize |->
                IF j <= chain[s].count THEN TombstoneSlot(chain[s].slot[j], R)
                                       ELSE chain[s].slot[j]]]]

\* What rtree_load builds from a chain: every entry not tombstoned.
LoadedTree(c, n) == [e \in Entry |-> Cardinality(Holders(c, n, e))]

\* Mutants: the replay does not restore tail_count_, or restores it one short.
ReplayedTailCountLost(c, n)  == 0
ReplayedTailCountShort(c, n) == IF n = 0 THEN 0 ELSE c[n].count - 1

\* The tail fields are restored with the entries, for the next append.
ReplayedTail(c, n) == n
ReplayedTailCount(c, n) == IF n = 0 THEN 0 ELSE c[n].count

-----------------------------------------------------------------------------
(* The engine's view of the object.                                        *)

Idle == chunk = NoRows /\ done = {}

Fresh(p) ==
    /\ phase' = p
    /\ tree' = NoEntries /\ gathered' = NoEntries
    /\ deleted' = {}
    /\ chain' = << >> /\ tail' = 0 /\ tail_count' = 0
    /\ chunk' = NoRows /\ done' = {}
    /\ table' = NoRows
    /\ orphan' = {} /\ reused' = {}
    /\ saved' = {}

Init ==
    /\ phase = "none"
    /\ tree = NoEntries /\ gathered = NoEntries
    /\ deleted = {}
    /\ chain = << >> /\ tail = 0 /\ tail_count = 0
    /\ chunk = NoRows /\ done = {}
    /\ table = NoRows
    /\ orphan = {} /\ reused = {}
    /\ saved = {}

\* The constructor with no stored image, then BeginBulkConstruct.
Create == phase = "none" /\ Fresh("building")

\* Append and Insert hand a chunk to Construct: rows the table does not hold
\* yet, each with its value.  While the index is building, a chunk of the scan.
BeginAppend(rows) ==
    /\ phase \in {"building", "attached"}
    /\ Idle
    /\ rows # NoRows
    /\ \A r \in Row : rows[r] # Absent => table[r] = Absent
    /\ (IF tail = 0 THEN 0 ELSE (tail - 1) * SegmentSize + tail_count)
         + Cardinality({r \in Row : rows[r] \in Box}) <= MaxEntries
    /\ chunk' = rows
    /\ UNCHANGED <<phase, memory, done, table, orphan, reused, saved>>

\* Construct skips a row that is NULL or has no box.
SkipRow(r) ==
    /\ chunk[r] = NoBox
    /\ chunk' = [chunk EXCEPT ![r] = Absent]
    /\ done' = done \union {r}
    /\ table' = [table EXCEPT ![r] = NoBox]
    /\ UNCHANGED <<phase, memory, orphan, reused, saved>>

\* Construct feeds the box to the tree, or gathers it, and records it.
IndexRow(r) ==
    /\ chunk[r] \in Box \ Raises
    /\ IF phase = "building"
       THEN gathered' = Plus(gathered, <<r, chunk[r]>>) /\ tree' = tree
       ELSE tree' = Plus(tree, <<r, chunk[r]>>) /\ gathered' = gathered
    /\ RecordEntry(r, chunk[r])
    /\ reused' = IF r \in deleted THEN reused \union {r} ELSE reused
    /\ chunk' = [chunk EXCEPT ![r] = Absent]
    /\ done' = done \union {r}
    /\ table' = [table EXCEPT ![r] = chunk[r]]
    /\ UNCHANGED <<phase, orphan, saved>>

\* MEOS raises on the value of a row.  The rows of the chunk before it stay in
\* the tree and the chain; the engine takes the chunk back out of the table.  A
\* CREATE INDEX that raises discards the object.
RaiseRow(r) ==
    /\ chunk[r] \in Raises
    /\ IF phase = "building"
       THEN Fresh("none")
       ELSE /\ chunk' = NoRows
            /\ done' = {}
            /\ table' = [s \in Row |-> IF s \in done THEN Absent ELSE table[s]]
            /\ orphan' = orphan \union {s \in done : table[s] \in Box}
            /\ UNCHANGED <<phase, memory, reused, saved>>

\* Construct returns, and with it Append.
EndAppend ==
    /\ chunk = NoRows
    /\ done # {}
    /\ done' = {}
    /\ UNCHANGED <<phase, memory, chunk, table, orphan, reused, saved>>

\* FinishBulkConstruct loads the gathered entries at once; the engine then adds
\* the index to the table.  Too many entries for one load refuse the index.
BulkTotal == FoldFunction(+, 0, gathered)
FinishBulkConstruct ==
    /\ phase = "building"
    /\ Idle
    /\ IF BulkTotal > LoadLimit
       THEN Fresh("none")
       ELSE /\ tree' = gathered
            /\ gathered' = NoEntries
            /\ phase' = "attached"
            /\ UNCHANGED <<deleted, chain, tail, tail_count, call, table, orphan, reused, saved>>

\* Delete remembers the ids and tombstones their persisted entries.  The engine
\* passes ids of the table, or takes back the rows of an append that failed.
Delete(R) ==
    /\ phase = "attached"
    /\ Idle
    /\ R # {}
    /\ \A r \in R : table[r] # Absent \/ r \in orphan
    /\ deleted' = deleted \union R
    /\ chain' = Tombstoned(R)
    /\ table' = [r \in Row |-> IF r \in R THEN Absent ELSE table[r]]
    /\ orphan' = orphan \ R
    /\ UNCHANGED <<phase, tree, gathered, tail, tail_count, call, reused, saved>>

\* SerializeToDisk and SerializeToWAL both hand over the chain from its head.
Serialize ==
    /\ phase = "attached"
    /\ Idle
    /\ saved' = {[chain |-> chain, tail |-> tail, table |-> table, orphan |-> orphan]}
    /\ UNCHANGED <<phase, memory, call, table, orphan, reused>>

\* A shutdown or a crash, at any point, and the constructor over the stored
\* image.  The table goes back with the index: what the WAL logged after the
\* image reaches the index again as calls of Append and Delete.
Load(image) ==
    LET c == image.chain
        n == image.tail
        fits == Cardinality(LiveSlots(c, n)) <= LoadLimit
    IN  /\ phase' = IF fits THEN "attached" ELSE "unreadable"
        /\ tree' = IF fits THEN LoadedTree(c, n) ELSE NoEntries
        /\ gathered' = NoEntries
        /\ deleted' = {}
        /\ chain' = c
        /\ tail' = ReplayedTail(c, n)
        /\ tail_count' = ReplayedTailCount(c, n)
        /\ chunk' = NoRows /\ done' = {}
        /\ table' = image.table
        /\ orphan' = image.orphan
        /\ reused' = {}
        /\ UNCHANGED saved

Restart ==
    /\ phase # "none"
    /\ IF saved = {} THEN Fresh("none") ELSE \E image \in saved : Load(image)

\* DROP INDEX: ResetStorage frees the tree and clears the rest.
ResetStorage == phase = "attached" /\ Idle /\ Fresh("none")

Next ==
    \/ Create
    \/ \E rows \in [Row -> Value] : BeginAppend(rows)
    \/ \E r \in Row : SkipRow(r) \/ IndexRow(r) \/ RaiseRow(r)
    \/ EndAppend
    \/ FinishBulkConstruct
    \/ \E R \in SUBSET Row : Delete(R)
    \/ Serialize
    \/ Restart
    \/ ResetStorage

Spec == Init /\ [][Next]_vars

-----------------------------------------------------------------------------
(* What the index answers.  A query is the set of boxes it accepts, a hit an *)
(* entry of the tree with the number of the time it was fed: what is in the  *)
(* tree twice is answered twice.                                             *)

\* The answer of rtree_search, without the rows in deleted_.
Found(Q) == UNION {{e} \X (1..tree[e]) : e \in (Row \ deleted) \X Q}

\* Search catches whatever is raised and returns what it copied until then:
\* nothing when rtree_search raised, a part of the answer when the copying did.
\* The caller gets the hits and cannot tell the outcomes apart.
Search(Q) == {[raised |-> FALSE, hits |-> Found(Q)]}
               \union [raised : {TRUE}, hits : SUBSET Found(Q)]

Answered(outcome) == {h[1][1] : h \in outcome.hits}

TypeOK ==
    /\ phase \in {"none", "building", "attached", "unreadable"}
    /\ tree \in [Entry -> Nat]
    /\ gathered \in [Entry -> Nat]
    /\ deleted \subseteq Row
    /\ tail \in Nat
    /\ tail_count \in 0..SegmentSize
    /\ chain \in [1..tail -> Segment]
    /\ chunk \in [Row -> Value]
    /\ done \subseteq Row
    /\ table \in [Row -> Value]
    /\ orphan \subseteq Row
    /\ reused \subseteq Row
    /\ \A image \in saved :
         /\ image.tail \in Nat
         /\ image.chain \in [1..image.tail -> Segment]
         /\ image.table \in [Row -> Value]
         /\ image.orphan \subseteq Row

\* A search that returns misses no row: whatever was deleted, reused, saved and
\* loaded before, a search for the box of a row of the table answers that row,
\* unless MEOS raised and Search swallowed it (deleted_ in RecordEntry and
\* Search, ReplayEntries).
SearchComplete ==
    phase = "attached" =>
        \A r \in Row : table[r] \in Box =>
            \A outcome \in Search({table[r]}) : outcome.raised \/ r \in Answered(outcome)

\* No search, raised or not, answers a row id that is out of the table, except
\* what a failed append left behind (Delete, Search, ReplayEntries).
NoDeletedAnswer ==
    phase = "attached" =>
        \A outcome \in Search(Box) :
            \A r \in Answered(outcome) : table[r] \in Box \/ r \in orphan

\* A row is answered from a box it does not hold, or twice, only if its id was
\* given out again since the tree was built (RecordEntry erasing it from
\* deleted_) or an append of it failed.
ExactUnlessReused ==
    phase = "attached" =>
        \A outcome \in Search(Box) : \A h \in outcome.hits :
            LET r == h[1][1]
            IN  r \notin reused \union orphan => h = <<<<r, table[r]>>, 1>>

\* The persisted chain holds each indexed row of the table exactly once, under
\* its own box, and no other row, so that a reload answers for exactly the table
\* (RecordEntry, TombstoneEntries, ReplayEntries).
ChainExact ==
    \A r \in Row \ orphan :
        LET held == {p \in Slots(chain, tail) : EntryAt(chain, p)[1] = r}
        IN  IF table[r] \in Box
            THEN \E p \in held : held = {p} /\ EntryAt(chain, p)[2] = table[r]
            ELSE held = {}

\* Every segment but the last is full, and the tail fields describe the last one
\* (RecordEntry against what ReplayEntries restores).
ChainShape ==
    /\ \A s \in 1..tail : s < tail => chain[s].count = SegmentSize
    /\ tail_count = IF tail = 0 THEN 0 ELSE chain[tail].count
    /\ \A s \in 1..tail : \A j \in 1..chain[s].count : chain[s].slot[j] # Free

\* While the index object lives, a recorded entry is never overwritten nor its
\* segment lost: its slot keeps it until Delete tombstones it, and a tombstone
\* stays (RecordEntry writing past tail_count_, linking after entry_tail_).
KeepsRecorded ==
    [][phase # "none" /\ phase' # "none" /\ ~ Restart =>
        \A p \in Slots(chain, tail) :
            /\ p \in Slots(chain', tail')
            /\ EntryAt(chain', p) \in {EntryAt(chain, p),
                                       <<Tombstone, EntryAt(chain, p)[2]>>}]_vars

\* The chain implements the durable collection of EntryStore: read through
\* ReplayEntries, every step of the index is one of its steps, and a restart
\* brings back exactly what was saved.
Store == INSTANCE EntryStore WITH
    entries <- LoadedTree(chain, tail),
    image <- {LoadedTree(i.chain, i.tail) : i \in saved}
ImplementsEntryStore == Store!Spec

\* rtree_module.hpp says of deleted_: "the row stays in the tree and every
\* search filters it out".  So a box a row no longer holds is never an answer.
DeletedBoxFiltered ==
    phase = "attached" =>
        \A b \in Box : \A outcome \in Search({b}) :
            \A r \in Answered(outcome) : table[r] = b

\* A saved index fails to load only when the table itself holds more rows than
\* one load takes: what was deleted before the save does not count
\* (ReplayEntries skips the tombstones before it compares with the limit).  Each
\* retry of an append that fails leaves one more entry, so such rows count.
RefusedOnlyOverLimit ==
    phase = "unreadable" /\ orphan = {} =>
        Cardinality({r \in Row : table[r] \in Box}) > LoadLimit
=============================================================================
