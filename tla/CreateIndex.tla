----------------------------- MODULE CreateIndex -----------------------------
(***************************************************************************)
(* CREATE INDEX ... USING TRTREE (rtree_index_create_physical.cpp): worker *)
(* threads sink the rows of the table into collections of their own and    *)
(* combine them; then as many tasks read the combined collection in        *)
(* parallel and hand its chunks to the one index under construction; when  *)
(* the last task finishes, the tree is built, and the index is entered in  *)
(* the catalog and added to the table.                                     *)
(*                                                                         *)
(* Construct appends to three structures, one after the other: the boxes   *)
(* and the row ids gathered for the tree, and the segment chain (see       *)
(* RTreeIndex).  What keeps them aligned is the mutex of the global state. *)
(* A chunk stands for its rows.                                            *)
(***************************************************************************)
EXTENDS Naturals, SequencesExt

CONSTANTS
    Chunk,  \* the chunks of the table scan
    Worker, \* the threads of the scheduler
    None    \* glock is free, or a task holds no chunk

ASSUME ChunkAssumption  == IsFiniteSet(Chunk)
ASSUME WorkerAssumption == IsFiniteSet(Worker) /\ Worker # {} /\ None \notin Worker \union Chunk

VARIABLES
    raises,     \* the chunks with a row that MEOS refuses
    isRoot,     \* storage.IsRoot(): no other transaction altered the table
    nameExists, \* the catalog has an index of this name, and the statement no IF NOT EXISTS
    phase,      \* "sink", "build", "done" or "failed"
    source,     \* the chunks the table scan has still to deliver
    locals,     \* the collection of each worker
    combined,   \* the workers that are done sinking
    collection, \* the chunks of the global collection not yet scanned
    at,         \* where each construct task is
    chunk,      \* the chunk each task holds
    glock,
    bulk_boxes,
    bulk_ids,
    chain,
    published   \* the (box, row id) pairs and the chain of the index of the table

outside == <<raises, isRoot, nameExists>>
sinking == <<source, locals, combined>>
index   == <<bulk_boxes, bulk_ids, chain>>
tasks   == <<at, chunk, glock>>
vars    == <<outside, phase, sinking, collection, tasks, index, published>>

Unpublished == [tree |-> << >>, chain |-> << >>, in |-> FALSE]

Init ==
    /\ raises \in SUBSET Chunk
    /\ isRoot = TRUE
    /\ nameExists \in BOOLEAN
    /\ phase = "sink"
    /\ source = Chunk
    /\ locals = [w \in Worker |-> {}]
    /\ combined = {}
    /\ collection = {}
    /\ at = [w \in Worker |-> "scan"]
    /\ chunk = [w \in Worker |-> None]
    /\ glock = None
    /\ bulk_boxes = << >> /\ bulk_ids = << >> /\ chain = << >>
    /\ published = Unpublished

\* Another transaction alters the table while the index is being built.
AlterTable ==
    /\ phase \in {"sink", "build"} /\ isRoot
    /\ isRoot' = FALSE
    /\ UNCHANGED <<raises, nameExists, phase, sinking, collection, tasks, index, published>>

-----------------------------------------------------------------------------
(* Sink, Combine and Finalize.                                             *)

Sink(w) ==
    /\ phase = "sink" /\ w \notin combined
    /\ \E c \in source :
         /\ source' = source \ {c}
         /\ locals' = [locals EXCEPT ![w] = @ \union {c}]
    /\ UNCHANGED <<outside, phase, combined, collection, tasks, index, published>>

Merged(w) == IF locals[w] = {} THEN collection ELSE collection \union locals[w]

Combine(w) ==
    /\ phase = "sink" /\ source = {} /\ w \notin combined
    /\ combined' = combined \union {w}
    /\ collection' = Merged(w)
    /\ locals' = [locals EXCEPT ![w] = {}]
    /\ UNCHANGED <<outside, phase, source, tasks, index, published>>

Finalize ==
    /\ phase = "sink" /\ combined = Worker
    /\ phase' = "build"
    /\ UNCHANGED <<outside, sinking, collection, tasks, index, published>>

-----------------------------------------------------------------------------
(* The construct tasks: collection->Scan, then Construct under glock.      *)

ScanChunk(w) ==
    /\ phase = "build" /\ at[w] = "scan"
    /\ \E c \in collection :
         /\ collection' = collection \ {c}
         /\ chunk' = [chunk EXCEPT ![w] = c]
    /\ at' = [at EXCEPT ![w] = "lock"]
    /\ UNCHANGED <<outside, phase, sinking, glock, index, published>>

FinishTask(w) ==
    /\ phase = "build" /\ at[w] = "scan" /\ collection = {}
    /\ at' = [at EXCEPT ![w] = "finished"]
    /\ UNCHANGED <<outside, phase, sinking, collection, chunk, glock, index, published>>

\* Mutant: Construct without the mutex.
GrantedAlways(w) == TRUE

Granted(w) == glock = None

Lock(w) ==
    /\ phase = "build" /\ at[w] = "lock" /\ Granted(w)
    /\ glock' = w
    /\ at' = [at EXCEPT ![w] = "box"]
    /\ UNCHANGED <<outside, phase, sinking, collection, chunk, index, published>>

GatherBox(w) ==
    /\ phase = "build" /\ at[w] = "box" /\ chunk[w] \notin raises
    /\ bulk_boxes' = Append(bulk_boxes, chunk[w])
    /\ at' = [at EXCEPT ![w] = "id"]
    /\ UNCHANGED <<outside, phase, sinking, collection, chunk, glock, bulk_ids, chain, published>>

GatherId(w) ==
    /\ phase = "build" /\ at[w] = "id"
    /\ bulk_ids' = Append(bulk_ids, chunk[w])
    /\ at' = [at EXCEPT ![w] = "record"]
    /\ UNCHANGED <<outside, phase, sinking, collection, chunk, glock, bulk_boxes, chain, published>>

\* Mutant: a task that is done with a chunk keeps the mutex.
KeptLock(w) == w

Released(w) == None

\* RecordEntry, and the end of the scope of the lock.
Record(w) ==
    /\ phase = "build" /\ at[w] = "record"
    /\ chain' = Append(chain, chunk[w])
    /\ glock' = Released(w)
    /\ at' = [at EXCEPT ![w] = "scan"]
    /\ UNCHANGED <<outside, phase, sinking, collection, chunk, bulk_boxes, bulk_ids, published>>

\* MEOS raises in Construct: the scope is left, the task does not finish.
Raise(w) ==
    /\ phase = "build" /\ at[w] = "box" /\ chunk[w] \in raises
    /\ glock' = Released(w)
    /\ at' = [at EXCEPT ![w] = "raised"]
    /\ UNCHANGED <<outside, phase, sinking, collection, chunk, index, published>>

\* The executor gives the statement up once no task is running.
Abort ==
    /\ phase = "build"
    /\ \E w \in Worker : at[w] = "raised"
    /\ \A w \in Worker : at[w] \in {"raised", "finished", "scan", "lock"}
    /\ phase' = "failed"
    /\ UNCHANGED <<outside, sinking, collection, tasks, index, published>>

-----------------------------------------------------------------------------
(* FinishEvent, after the last task.                                       *)

\* rtree_load takes the i-th box with the i-th id.
Tree == [i \in DOMAIN bulk_ids |-> <<bulk_boxes[i], bulk_ids[i]>>]

\* Mutant: the event finishes when one task has.
AnyTaskFinished == \E w \in Worker : at[w] = "finished"

TasksFinished == \A w \in Worker : at[w] = "finished"

FinishEvent ==
    /\ phase = "build" /\ TasksFinished
    /\ isRoot /\ ~ nameExists
    /\ published' = [tree |-> Tree, chain |-> chain, in |-> TRUE]
    /\ phase' = "done"
    /\ UNCHANGED <<outside, sinking, collection, tasks, index>>

\* rtree_load may build nothing from the entries, the table was altered, or the
\* name is that of another index.
RefuseEvent ==
    /\ phase = "build" /\ TasksFinished
    /\ bulk_ids # << >> \/ ~ isRoot \/ nameExists
    /\ phase' = "failed"
    /\ UNCHANGED <<outside, sinking, collection, tasks, index, published>>

Task(w) ==
    \/ ScanChunk(w) \/ FinishTask(w) \/ Lock(w)
    \/ GatherBox(w) \/ GatherId(w) \/ Record(w) \/ Raise(w)

Next ==
    \/ AlterTable
    \/ \E w \in Worker : Sink(w) \/ Combine(w) \/ Task(w)
    \/ Finalize \/ Abort \/ FinishEvent \/ RefuseEvent

\* The scheduler runs every task it was given until the task ends, and the
\* executor its pipeline; nothing makes another transaction alter the table.
Fairness ==
    /\ \A w \in Worker : WF_vars(Sink(w) \/ Combine(w)) /\ WF_vars(Task(w))
    /\ WF_vars(Finalize \/ Abort \/ FinishEvent \/ RefuseEvent)

Spec == Init /\ [][Next]_vars /\ Fairness

-----------------------------------------------------------------------------
(* What CREATE INDEX promises.                                             *)

\* The types, and who holds the mutex.
TypeOK ==
    /\ raises \in SUBSET Chunk /\ isRoot \in BOOLEAN /\ nameExists \in BOOLEAN
    /\ phase \in {"sink", "build", "done", "failed"}
    /\ source \in SUBSET Chunk /\ locals \in [Worker -> SUBSET Chunk]
    /\ combined \in SUBSET Worker /\ collection \in SUBSET Chunk
    /\ at \in [Worker -> {"scan", "lock", "box", "id", "record", "finished", "raised"}]
    /\ chunk \in [Worker -> Chunk \union {None}]
    /\ glock \in Worker \union {None}
    /\ \A w \in Worker : w = glock <=> at[w] \in {"box", "id", "record"}
    /\ bulk_boxes \in Seq(Chunk) /\ bulk_ids \in Seq(Chunk) /\ chain \in Seq(Chunk)
    /\ published \in [tree : Seq(Chunk \X Chunk), chain : Seq(Chunk), in : BOOLEAN]

\* While nobody holds the mutex, the boxes, the row ids and the chain name the
\* same rows in the same order, whichever tasks appended them (Construct under
\* glock in TRTreeIndexConstructTask).
AlignedWhenFree == glock = None => bulk_boxes = bulk_ids /\ bulk_ids = chain

\* The index added to the table holds each row that was scanned once, under its
\* own box, in the tree and in the chain alike, and a table never gets an index
\* that lacks the rows a task still held (Combine, Scan and the last FinishTask).
IndexHoldsTable ==
    published.in =>
        /\ ToSet(published.tree) = {<<c, c>> : c \in Chunk} /\ IsInjective(published.tree)
        /\ ToSet(published.chain) = Chunk /\ IsInjective(published.chain)

\* The statement ends, with an index or without, though tasks wait for each other
\* and one of them may raise inside the scope of the lock.
StatementEnds == <>(phase \in {"done", "failed"})
=============================================================================
