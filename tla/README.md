# MobilityDuck: TLA+ models, model checking and proofs

MobilityDuck binds MEOS, a C library for temporal and spatiotemporal values, to
DuckDB. Most of its lines register types and wrap one MEOS function per row.
The program logic of its own, and the part that is hard to test, is the family
of index code under `src/src/index` (an in-memory MEOS tree that has to follow
a transactional table through deletes, restarts and parallel builds, and the
optimizers that put it into a plan), the handling of MEOS state per thread, and
the aggregate template. This project models that part.

MEOS and DuckDB are not in the repository (their submodules are empty). Where a
model needs them it takes what the code under `src/` relies on, and the
definition is marked external in `PROJECT.json`.

## 1. Inventory

Each row gives the state a component keeps, its operations, what it interacts
with, and what makes it correct.

| Component | State | Operations | Interactions | Correct when |
|---|---|---|---|---|
| **TRTREE index object** `rtree_module.cpp` | `rtree_` (MEOS tree, insert only), `deleted_`, segment chain `entry_head_ / entry_tail_ / tail_count_`, `bulk_ids_ / bulk_boxes_` | `Construct`, `Append`, `Insert`, `BeginBulkConstruct`, `FinishBulkConstruct`, `Delete`, `SerializeToDisk/WAL`, `ReplayEntries`, `ResetStorage`, `Search`, cursor | called by the engine under the index lock; searched by scans without one | a search that does not raise finds each row of the table, none finds a deleted one; the chain reloads to the same index |
| **Index scan** `rtree_index_scan.cpp` | ids found, position | `InitGlobal`, `Execute` | `Search` once, then `DataTable::Fetch` per vector | the rows its search answers, as often as it answers them; over an exact answer those of a sequential scan |
| **Nearest-neighbour scan** `rtree_index_scan.cpp` | MEOS cursor, heap of the k best | `GatherNearest`, `Execute` | cursor yields lower bounds, rows fetched and measured one by one | the k nearest rows, in order |
| **Index join** `rtree_index_join.cpp` | `probe_row`, `matches`, `match_offset` kept between calls | `Execute` | called again for the same input while it has output left | the pairs its searches answer, none lost or repeated; over exact answers those of a nested-loop join |
| **CREATE INDEX** `rtree_index_create_physical.cpp` | thread-local and global collections, `glock`, the index under construction | `Sink`, `Combine`, `Finalize`, construct tasks, `FinishEvent` | scheduler, catalog, table | the published index holds each row once |
| **MEOS per thread** `meos_thread.hpp`, `meos_registration.hpp` | `meos_thread_ready`, `MeosThreadTimezone()`, the zone MEOS holds, the zone a cast captured | `EnsureMeosThreadInitialized`, `FollowSessionTimezone`, cast init and trampoline | a worker thread serves many sessions | a call runs in the zone of its session |
| **Aggregates** `meos_aggregate.hpp`, `generated_aggregates.cpp` | a MEOS state or gathered rows per partial state | `Update`, `Combine`, `Finalize`, `Destroy` | partial states of parallel workers, exceptions of MEOS | every state released once, rows folded in time order, the answer over the whole group |
| **Scan optimizer** `rtree_optimize_scan.cpp` | the logical plan | `TryOptimizeLogicalGet`, `TryOptimizeLogicalTopN` | column ids, residual filters, projections | the rewritten plan returns the rows of the old one, in its columns |
| **Join optimizer** `rtree_index_join.cpp`, from line 251 | the logical plan | `TryOptimizeJoin`, `TryBuild` | finds the sides as the scan optimizer left them; binds `IndexJoin` | the pairs of the nested-loop join |
| **Index search operations** `index_search_ops.hpp` | none | operator, type and side to a MEOS search | used by matchers and scans | the search accepts the boxes the operator accepts |
| **TSPTREE family** `sptree_*.cpp` | as TRTREE | as TRTREE, plus the `kind` option | as TRTREE; its optimizers run behind those of TRTREE, over the plan these left | as TRTREE |
| **Extension load** `mobilityduck_extension.cpp` | a `once_flag` for each CSV file and for MEOS, the kept failures, the error handler of MEOS | write the embedded CSV, configure MEOS, load ICU, set the zone of new sessions | loads of other databases of the process, queries that run meanwhile | a load that succeeds finds MEOS configured, errors become exceptions, every load ends |
| Point cloud schemas `pcschema.cpp` | process-wide registry | put, get | queries of all sessions | a schema read is one that was put |
| Scalar functions, types, text I/O (`temporal/`, `geo/`, `pose/`, `npoint/`, `cbuffer/`, `h3/`, `generated/` ...) | none | one MEOS call per row | - | value conversions |
| Value and time conversion `time_util.hpp`, `geo_util.hpp` | none | epoch shifts, infinities | - | round trip |
| Raster, TemporalParquet | none | conversions | - | value conversions |

Hard behaviours, and where they bite (every one is in `PROJECT.json` under
`hazards`, with its line and the properties that catch it):

- *Row id reuse.* DuckDB gives a vacuumed row id out again, and the MEOS tree
  cannot forget the old box: the id is answered for a box its row no longer has, or
  twice, and the operators above hand out what they fetched.
- *A search that fails in silence.* `Search` catches whatever MEOS raises and returns
  the ids it has copied until then.
- *Restart.* The tree is rebuilt from the chain; the next append must go on in
  the segment where the replay stopped.
- *Failure in the middle of a chunk.* MEOS raises on a value and the rows before
  it stay in the index.
- *Visibility.* The index is not transactional: it answers ids that the snapshot
  does not see and lacks the rows in local storage.
- *State across calls.* Scan and join are resumed by the engine with whatever
  they kept.
- *Bytes of another type.* A constant of any type that is kept as a BLOB is taken
  for the box of a search.
- *Early stop.* The nearest-neighbour scan stops by a bound on rows not yet read.
- *Parallel build.* Several tasks construct into one index.
- *Threads against sessions.* MEOS keeps its zone per thread, DuckDB per session.
- *Loads against queries.* A process loads the extension once per database, while
  queries of another one call MEOS, whose files and error handler they share.
- *Order of the rows of a group.* Partial states take rows and each other in any
  order, while an append accepts a row only behind those it has.
- *Exceptions between two owners.* MEOS raises while a state or a row is out of its
  partial state, and `Destroy` comes afterwards.
- *Plan rewrites that meet.* The scan optimizer takes a filter out of sight, adds a
  column to a projection, answers an operator in the other operand order; the join
  optimizer then reads the get it left, and the two optimizers of the other type of
  index read what the first two left.

## 2. Modules

| Module | Models | Size of a state step |
|---|---|---|
| `EntryStore` | abstract: the durable collection of entries the persistence promises | one entry, one delete, save, recover |
| `RTreeIndex` | `TRTreeIndex` in `rtree_module.cpp`; implements `EntryStore` | one row of `Construct`; a whole call elsewhere |
| `RTreeIndexProofs` | theorems about `RTreeIndex` | |
| `RowStream` | abstract: an operator that hands out each item as often as it is wanted | one chunk |
| `IndexScan` | predicate scan; implements `RowStream` | one call of `Execute` |
| `IndexScanProofs` | theorems about `IndexScan` | |
| `NearestScan` | `GatherNearest` and `Execute` for ORDER BY ... LIMIT | one candidate, one vector |
| `NearestScanProofs` | theorems about `NearestScan` | |
| `IndexJoin` | `PhysicalRTreeIndexJoin::Execute`; implements `RowStream` | one loop iteration |
| `IndexJoinProofs` | theorems about `IndexJoin` | |
| `CreateIndex` | the parallel build operator | one append to one structure |
| `CreateIndexProofs` | theorems about `CreateIndex` | |
| `MeosThread` | the zone per thread against the setting per session | one call of MEOS |
| `ExtensionLoad` | LOAD in several databases of a process, composed with `MeosThread` and implementing it | a step of a `call_once`, one call of the engine |
| `MeosThreadProofs` | theorems about `MeosThread` and `ExtensionLoad` | |
| `MeosAggregate` | one group of an aggregate: the template with the generated operations | one row of a loop, one call of MEOS |
| `MeosAggregateProofs` | theorems about `MeosAggregate` | |
| `SearchOps` | operators, box axes, and searches: a pure module | |
| `LogicalPlan` | the engine's gets, filters and tables, as much as the optimizers read | |
| `ScanOptimizer` | `TryOptimizeLogicalGet`, `TryOptimizeLogicalTopN` as functions of a plan | |
| `JoinOptimizer` | `TryOptimizeJoin`, `TryBuild` as functions of a plan, and what an index join answers | |
| `Optimizer` | composes the two, for both types of index, over one query | one node visited |
| `OptimizerProofs` | theorems about `SearchOps` and `Optimizer` | |
| `MC*` | instances for TLC: symmetry and sets of boxes | |

How they compose: `CreateIndex` treats what `Construct` does to the index as
three appends, which `RTreeIndex` details for one task at a time (the mutex
checked in `CreateIndex` is what makes that sequential view right). `IndexScan`,
`IndexJoin` and `NearestScan` start from what `RTreeIndex` leaves of an answer, the
exceptions of its invariants included. `SearchComplete` is a matching row answered,
unless the search raised (`raised` of `IndexScan`). `ExactUnlessReused` is an id answered
once and for its own box, unless it was reused or left behind by a failed append: those
are the `Stale` ids of `IndexScan` and `NearestScan`, which come any number of times and
for any box; and the answers in `IndexJoin` are any sequences of ids at all. Ids the
snapshot does not see come on top. The modules are not conjoined into one state space
because a scan materialises its search in one call. `Optimizer` composes `ScanOptimizer`
and `JoinOptimizer` over `LogicalPlan` and `SearchOps`; what it leaves is a plan
whose operators are the ones above, over exact answers: `Searched` stands for an
`IndexScan`, `NearestRows` for a `NearestScan`, `IndexJoinMeets` for an `IndexJoin`.
`ExtensionLoad` extends `MeosThread` with the loads that run on the same threads.

### RTreeIndex and the code

`tree` is `rtree_` as a bag of (row id, box): MEOS only adds. `gathered` is
`bulk_ids_` with `bulk_boxes_`. `chain`, `tail`, `tail_count` are the linked
segments, `entry_tail_` and `tail_count_`; a slot is a row id (or
`TOMBSTONE_ROW_ID`) and a box. `chunk` and `done` are the program counter of
`Construct`: one action per row, so that a raise can fall between two rows.
`table`, `orphan` and `reused` are not variables of the code: the first is the
engine's table the index should agree with, the others record what happened, so
that a property can say *unless a row id was reused* or *unless an append failed*.

| Action | Code |
|---|---|
| `Create`, `FinishBulkConstruct` | the constructor with `BeginBulkConstruct`, `FinishBulkConstruct` with the INT32_MAX refusal |
| `BeginAppend`, `SkipRow`, `IndexRow`, `RaiseRow`, `EndAppend` | `Append`, `Insert` and the loop of `Construct`, `RecordEntry` included |
| `Delete` | `Delete`, with the single pass of `TombstoneEntries` |
| `Serialize` | `SerializeToDisk`, `SerializeToWAL`, `PrepareSerialize` |
| `Restart` | a crash or shutdown at any point; `InitEntryStorage` and `ReplayEntries`; refused above the load limit |
| `ResetStorage` | DROP INDEX |
| `Search` (no step: a set of outcomes) | `Search`: all of `Found`, what the tree holds of the query under ids not in `deleted_`; or, when MEOS or the copying raised and the `catch (...)` swallowed it, any part of that |

Not in it: `BulkConstruct`, which nothing calls; `entry_count_`, which nothing
reads; the `SerializationException`s for a file of another build.

### IndexScan, NearestScan, IndexJoin and the code

What the index answers and what the transaction sees is fixed when the operator
opens. In `IndexScan` the answer is a sequence of ids in any order, as long as `Answers`
allows it: an id that is not stale comes at most once and, if visible, for a matching row;
a search that did not raise misses only `Local` rows. Hidden ids, stale ids any number of
times and the short answers of a search that raised are all there. `Fetched` is external:
`DataTable::Fetch` returns, packed, the rows of the ids that are visible; here, the
positions of such ids in a vector. `answered` counts how often a row was handed out:
within a vector the rows come in any order. `ExecuteEmpty` is the call that hands out an
empty chunk, which the engine takes for the end. Nothing in the code evaluates the
predicate on a fetched row, so nothing in the model does.

In `NearestScan`, `Yields` is the MEOS cursor (some entry of least lower bound), `Kept`,
`Stops`, `Tops` are the heap of `GatherNearest`.

In `IndexJoin`, `answers` holds any sequence of ids for each probe row, the four disjuncts of
`Execute` are the parts of its loop, and `probe_row`, `matches`, `match_offset` are its
operator state. `out` and `emitted` count pairs as `answered` counts rows; `Fetched` puts
an unset slot for each id without a row, as line 231 copies `take` slots whatever the fetch
wrote. The branch for a batch of none (`take == 0`, lines 207-210) is left out: a full
chunk has been handed out before Execute gets there, which `Room` of the proofs says.

Both implement `RowStream` with the *bag* their answers make: a row reaches the engine
as often as the index answers it, neither better nor worse. What that is worth against
a sequential scan or a nested-loop join is said by `RowsUnlessDisturbed` and, in the proofs,
by `NestedLoopAnswered`.

### CreateIndex and the code

A chunk stands for its rows. `at[w]` is the program counter of the construct
task of a worker: scan the collection, wait for `glock`, append the boxes, the
ids, the chain, release. `raises` are the chunks MEOS refuses. `AlterTable` is
another transaction; `FinishEvent` publishes, `RefuseEvent` is a tree that MEOS does not
build, an altered table or an existing name, `Abort` the executor after an exception.

### MeosThread, ExtensionLoad and the code

`held[t]` is what MEOS holds, `current[t]` is `MeosThreadTimezone()`, `ready[t]`
is `meos_thread_ready`. `Loaded` and `Recorded` keep the order of
`FollowSessionTimezone`: release, load, record. `Unknown` zones are those ICU
accepts and MEOS does not know. A cast carries the zone of `MeosCastInitLocal`, which
each thread of a query calls for its own local state when it gets to it: `captured`
holds the different ones, and a cast runs with any of those of its query. They end with the
query, and an exception of any call ends the query.

| ExtensionLoad | Code |
|---|---|
| `phase[d]`, `loader[d]` | where `LoadInternal` stands for database `d`, and the thread it runs on |
| `once["srid"]`, `once["ways"]`, `once["meos"]` | the three `std::once_flag`; a load inside one has the phase `Inside[f]` |
| `Configure`, `CannotWrite` (`Caught`) | the function of `ConfigureMeosSridCsvOnce`, which is also that of the ways: the path is found or written and given to MEOS, or the exception is kept |
| `LeaveOnce` | behind the `call_once`: the kept exception is rethrown, or the load goes on |
| `InitializeMeos`, `InstallHandler` | the function of `meos_init_flag`, in two steps: between them an error of MEOS would end the process |
| `AutoLoadICU`, `ICUUnavailable`, `SetDefaultZone` | the `try` around ICU and the setting; a session may have loaded ICU and set its own zone before |
| `Register` | the rest of `LoadInternal`, then `LoadSpatial` |

The sessions are those of one database, `Home`; another database matters to them
through the flags, the handler and the threads it takes. Queries wait for the load
of `Home`, settings do not. What MEOS holds on the loading thread is what any thread
is initialised with, so `MeosThread` does not see it (`Threads`).

### MeosAggregate and the code

A partial state is `State {state, rows}`. The memory is MEOS's, behind `void *`, so
`heap` holds what is allocated: the block of a decoded row, of a state object (named
after the first row folded into it), of a vector. `status` is where the engine is
with a partial state: open, merged into another, being finished, finished,
destroyed. `folded` and `answers` are not in the code: they say which rows a state
object, and an answer, is over.

| Action | Code |
|---|---|
| `SkipRow`, `GatherRow`, `FoldRow`, `RefuseRow`, `ReadRaises` | one turn of the loop of `Update`: a row that `Read` refuses, a gathered row, `Fold`, a `Transition` that raises, a `Read` that raises after its first argument |
| `CombineRows`, `CombineStates`, `CombineRaises` | one turn of the loop of `Combine`; which of two states MEOS answers is left open where the header leaves it open |
| `BeginFinish`, `FoldNext`, `FoldRaises`, `Finish`, `FinalRaises` | `Finish`, with the loop of `FoldGathered` row by row. `stable_sort` is the choice of an earliest row: the order among equal timestamps is arbitrary, because that of arrival is |
| `Destroy` | `Destroy`, with the release that raises and is swallowed |
| `Interrupt` | the engine ends the query between two calls |

`Skips` is what the generated `Read`s do: a row is refused when an argument they ask for
is NULL, the first or a later one (`Required`); an optional argument may be NULL. The
header speaks of the first argument only, see the disagreements below.

`ops` is the family of the generated operations: *extent* (`AggOps_2`: no final),
*tagg* (`AggOps_3`: a final that consumes its state, a combine that may answer its
second), *append* (`AggOps_6`: gathers, `KEEPS = false`). Every struct of
`generated_aggregates.cpp` is of one of these kinds as far as the template asks.

### SearchOps, ScanOptimizer, JoinOptimizer, Optimizer and the code

A MEOS search is a pair of an axis and a relation, so that the 21 operators are a
table of five relations of extents and four of each axis; the 91 names of functions
in `INDEX_OPERATORS` repeat the entries of their operators. A value is its box. A get
has its columns in the order it reads them, `projection_ids`, pushed-down filters
by column, and a function with its bind data. The optimizers are functions from a
plan to a plan; a set of at most one element is a result that may be missing. Their
argument `type` is the type of index: `sptree_optimize_scan.cpp` and
`sptree_index_join.cpp` are `rtree_optimize_scan.cpp` and `rtree_index_join.cpp` with
the name of the index changed; no statement differs.

| Definition | Code |
|---|---|
| `FilterSearch`, `FilterMatches`, `FirstMatch` | the loops over filters and indexes, the matcher (one operand by its type, the other whatever it is), the search by name and side, the constants that are refused |
| `QueryBox` | the bytes of the constant that become the box of the search: those of a BLOB as they are, or of a timestamp. `Misread` is the box they make when they are of another type, and arbitrary |
| `ResidualColumns`, `Ascending`, `Extended`, `ProjectionMap`, `KeptFilters` | the filters above the scan, the columns added for them, the columns dropped again, the filter the get keeps |
| `OneAscending`, `PlainGet`, `NearestMatches`, `Wanted` | the conditions of the TopN rewrite, and its limit |
| `GetScan`, `BareOverlap`, `Fetchable`, `JoinIndexes`, `IndexJoin` | the conditions of `TryOptimizeJoin` and `TryBuild`, and the operator they make |
| `Optimizers`, `Plan` | the order in which the extension registers the four optimizers; the nodes each meets from the root, where an index join has its probing side as its one child |
| `VisitTopN`, `VisitGet`, `VisitJoin`, `NoJoin` | `OptimizeRecursive` of the scan and of the join optimizers |

The queries `Init` enumerates are those the engine's binder and its own optimizers
make: every filtered column is read, a projection leaves out only columns that are
filtered, an ordering reads a column of the get or computes its distance from one.
A constant may be a box, of a type that is refused, or none at all, as when both operands
are read from columns. `Shapes` adds four kinds of queries and tables for which the code
answers wrongly, which the passing run therefore leaves out by name: operands computed
from the column, constants that are misread, generated columns and pruned probes. See the
runs below.

## 3. Runs

`tlc -workers 2 -config X.cfg M`. The passing runs:

| Run | Distinct states | Asks |
|---|---|---|
| `rtree_index` | 138,746 | do tree, `deleted_`, chain and table agree through every history of build, append, raise, delete, reuse, save, restart, drop; does the chain implement `EntryStore` |
| `index_scan` | 101,386 | does the scan implement `RowStream` for every answer, ids repeated, stale, hidden or missing; how far are its rows those of a sequential scan |
| `nearest` | 1,371,782 | is the early stop right for every table, every lower bound, and a stale entry |
| `index_join` | 795,076 | does the join implement `RowStream` and end, for any answers of the index |
| `create_index` | 51,558 | is what is published whole, and does the statement end |
| `extension_load` | 495,007 | do scalars and casts run in the zone of their session, whatever loads run; does a loaded database find MEOS configured and its errors thrown; does every load end; is `MeosThread` implemented |
| `meos_aggregate` | 1,262,050 | is everything owned and released once, the answer over the whole group, and time a reason only for rows that overlap, for every split, order and exception |
| `optimizer` | 1,774,368 | after each step of the four optimizers, does the plan answer the rows, the columns and the pairs of the query, and ask the index for enough rows |

The runs that find a disagreement (each a finding of `PROJECT.json`):

| Run | What TLC shows |
|---|---|
| `rtree_reuse` | a row is deleted, its id is indexed again: `RecordEntry` takes the id out of `deleted_` and the old box answers again, until the next reload |
| `index_scan_blank` | a whole vector of ids the snapshot does not see makes an empty chunk, which ends the scan; the rows behind it are lost |
| `plan_computed` | a filter on a value computed from an indexed column (`expandSpace(box, 10) && constant`) is answered by the search `box && constant`: the matcher knows an operand by its type |
| `plan_pruned` | `probe_column` is a position among the columns the probing get reads, and the chunk it is used in has only the projected ones |

The models show more disagreements than these, each by the same means (an invariant
that TLC refutes in a small instance), for which the project keeps no run:

- *Local rows* (`rtree_index_scan.cpp:210`): the scan of the local storage is
  initialised and never read, so a row the transaction inserted itself is not
  answered. In `index_scan_blank` with `Local = {r1}` and `VectorSize = 6`.
- *Reused ids in scans and joins* (`rtree_module.cpp:780-790`): `Search` copies ids as they
  come, so a reused id makes a scan hand out a row that does not match, or a row twice,
  and a join such a pair. In `index_scan_blank` with `Stale = {r2}` and `VectorSize = 6`;
  where the ids come from is the run `rtree_reuse`.
- *A search that raised* (`rtree_module.cpp:792-794`): the exception is swallowed, and the
  statement answers fewer rows without an error. In `index_scan_blank` with
  `Raised = {TRUE}` and `VectorSize = 6`.
- *Misread constants* (`rtree_optimize_scan.cpp:154-163`): the matcher leaves one operand
  open (`rtree_module.cpp:918-920`) and the bytes of any BLOB are copied as the query, so
  that a temporal constant over an indexed temporal column is searched as an stbox that it
  is not. In `optimizer` with `Shapes = {"misread"}`, of `RowsOfQuery`. What MEOS makes of
  such a box, an exception that `Search` swallows included, is outside the model.
- *Rows an aggregate skips* (`meos_aggregate.hpp:58`): the header says that `Read` is false
  for a row whose first argument is NULL, while the generated ones refuse a NULL later argument as well
  (`generated_aggregates.cpp:1709`, `1824`). `meos_aggregate` follows the generated code; over the
  rows whose first argument is not NULL, `AnswerWhole` would be refuted.
- *Rows without a distance* (`rtree_index_scan.cpp:149`): with fewer ranked rows than
  the limit the scan answers fewer rows than a sequential scan, which fills the
  limit with the rows of NULL distance. In `nearest`, of `Len(answered)`.
- *Unfetched matches* (`rtree_index_join.cpp:231`): a match that the transaction does
  not see leaves a slot of the fetched chunk unwritten, which `Execute` copies. In
  `index_join`, as a pair with `Unset`.
- *Aggregates without a zone* (`meos_aggregate.hpp:157`): after a failed switch of
  zone the thread has none, and an aggregate of another session runs there. In
  `extension_load`, of `held[t]` after a `CallAggregate`.
- *The state of an append* (`meos_aggregate.hpp:70-71`): the header says that a state
  which its final keeps is released after it; every generated `KEEPS` is false
  while `temporal_append_finalfn` keeps its argument, as the wrapper of the same
  function in `generated_temporal_udfs_14.cpp` takes it. In `meos_aggregate`: the
  states that `AllReleased` excepts.
- *Generated columns* (`rtree_index_create_physical.cpp:60`): an index records the
  physical id of its column and the optimizers compare it with logical ids. In
  `optimizer` with three columns and `Shapes = {"generated"}`.

Bounds, and why they are enough to meet the interesting cases:

- `rtree_index`: 2 rows, 2 ordinary boxes and one on which MEOS raises,
  segments of 2 slots, at most 3 entries recorded per chain (`MaxEntries`),
  a load limit of 1. Three entries cross a segment boundary and leave the last
  segment partly filled; two rows give reuse by the same id and a raise after an
  indexed row; a limit of 1 is passed by two live rows, and reached but not
  passed when one of them is a tombstone. Theorems cover every other size.
- `index_scan`: 5 row ids, vectors of 2, answers of up to 5 ids in every order, one local
  row, one stale id, searches that raise and that do not: a full vector that is blank, a
  partly blank one, a last vector that is short, an id on both sides of a cut.
- `nearest`: 4 rows, distances 0..2, k = 2, one row id with a second entry, vectors
  of 1: ties, more rows than k, fewer rows than k, the largest distance.
- `index_join`: 2 probe rows, 2 rows and one hidden id, vectors of 2, every answer of up to
  4 ids: matches that fill the output chunk exactly, that overflow it once and twice, ids
  repeated in a chunk and across two, and inputs of one and two rows.
- `create_index`: 3 chunks, 3 workers: a worker without a chunk, one with several,
  and two waiting for the mutex.
- `extension_load`: 2 databases, 2 threads, 2 sessions of one of the databases, 2
  known zones and one unknown: both databases load at once, or one loads while the
  sessions of the other query on the thread that is left. `MaxCasts` is 2: one query
  with two zones captured, or two queries with one each. The theorems cover any
  number of each; the liveness property only this instance.
- `meos_aggregate`: 3 rows, 3 partial states, timestamps 1..3, per row a NULL in the first
  argument, in a later one or in one that is not asked for: a combine of a combine,
  a vector taken over and one added to, rows that touch, overlap, are equal or apart.
- `optimizer`: 2 columns; tables without an index, with one of either type on either
  column, with two of the R-tree and with one of each type; 4 boxes that differ along
  one axis in space or time, 2 constants, 5 operators (one of extents that commutes
  with itself, one that commutes with another, a strict ordering, one without a
  commuted search, one in time), limits and offsets up to 2 over 3 ranked rows (`Ranks`). A
  second filtered column is what residual filters need; a third adds no case, since
  filters are treated one by one. Two sides of a join with two types of index is what
  four optimizers need to meet. The theorems cover every other size.

Deadlock is not checked where the operator stops by design (scan, nearest, join,
CREATE INDEX). It is checked for the index object and the threads, which never
stop, and for the aggregates and the optimizers, whose end is a step `Done`: an
aggregate is stuck nowhere before every partial state is destroyed.

Fairness. `IndexJoin`: weak fairness of the next step, because the engine runs a
pipeline until its child is exhausted. `CreateIndex`: weak fairness of each
worker's sinking, of each worker's construct task and of the executor's own steps;
none for `AlterTable`, which nothing makes happen. `ExtensionLoad`: weak fairness of
the steps of each load, which is one thread that runs to the end of `LoadInternal`;
none for queries, settings, or the decision to load. That a load waiting at a
`call_once` goes on then follows from the one inside it being left. Strong fairness of the mutex is
not assumed: the work is finite, so no task is passed over for ever.
The other modules state safety only.

Every property of a passing run has a mutant in `PROJECT.json`: a definition
replaced by what a plausible bug would make of it (a tail that is not restored, a
heap popped at the wrong end, a mutex not taken), which the run then refutes.

## 4. Proofs

`tlapm` on `RTreeIndexProofs.tla`, `MeosThreadProofs.tla`, `CreateIndexProofs.tla`,
`IndexScanProofs.tla`, `NearestScanProofs.tla`, `IndexJoinProofs.tla`,
`MeosAggregateProofs.tla`, `OptimizerProofs.tla`.

**RTreeIndex**, for every finite set of rows and boxes, every segment size and
limit. `TypeOK` is inductive by itself. The safety invariants are not: `IInv`
adds that

- the tail fields describe the chain that `RecordEntry` will extend
  (`TailDescribed`), without which a write could land in a used slot;
- the chain holds each row of the table once and no other row, orphans excepted
  (`ChainInv`);
- what was fed to the tree, or gathered for it, agrees with `deleted_` and the
  table in the same way, reuse excepted (`FedInv`);
- the rows of the chunk at hand are not in the table yet (`ChunkApart`);
- the saved image satisfies `ChainInv` with its own table (`SavedInv`), so that a
  restart re-establishes everything above.

The lemmas follow the helpers: `RecordSlots` (one new slot, all others kept),
`TombstoneSlots` (no slot lost, only the row ids change), `LoadExact` (a replay
of a good chain is a good tree). From `IInv` follow `SearchIsComplete`,
`SearchFiltersDeleted`, `SearchIsExactUnlessReused`, `ChainStaysShaped`,
`ChainStaysExact`, `RefusalIsForTheTable` (the live entries of a refused image are
of as many rows of the table, `LiveAreHeld`), the action property `RecordedEntriesKept`, and the refinement
`ChainImplementsStore`, in which a whole segment chain with tombstones maps to a bag.
All that is said of a search is said of each of its outcomes: that it is complete, of one
that did not raise; that it holds nothing else, of the part that an outcome holds which did.
`SearchAnswersTheTable` states the search as its callers use it, for every set of boxes a
query accepts: each row of the table with an accepted box, and besides these at most ids
reused since the tree was built and orphans, which is where `Stale` and `raised` of the
operators come from. `ReloadIsExact` is the action property that a
restart forgets the reuse: the tree it builds answers for the table of the save, orphans
alone excepted. The finding of `rtree_reuse` can therefore only happen to an id that
was deleted and indexed again, or left by a failed append, since the object was made.
The assumptions used are those of the module: the markers are distinct from data,
a segment has at least one slot, rows and boxes are finite.

**MeosThread**, for any threads, sessions and zones: `TypeCorrect`, `RecordIsTrue` and
`CallsFollowTheSession`. `IInv` adds that without ICU no session states a zone and no
cast carries one (`ZonesOfICU`), and that without it no thread leaves the default
(`DefaultWithoutICU`).

**ExtensionLoad**, for any number of databases besides: `LoadTypeCorrect`,
`LoadConfigures`, `HandlerStays`, and the refinement `LoadsKeepThreads`, by which the
theorems about `MeosThread` hold while databases load, fail and load again. `LInv`
adds to `IInv` that a load inside a `call_once` is alone there (`OneInside`), that a
flag that is done left its work or its exception behind and no load is past it
otherwise (`DoneFlags`), that no thread is initialised before MEOS has its handler
(`ReadyAfterLoad`), and that the zone of new sessions is only set where ICU is
(`ZoneOfICU`), without which the setting would not be a step of `MeosThread`.

Two more are the safety part of `LoadsEnd`. `NobodyWaitsForNobody`: a load that waits at
a `call_once` waits for one other, which is inside. It needs the converse of `OneInside`,
that a flag is busy only while some load is inside (`HaveRunners`), which an exception
that left the `call_once` would break. `LoadsGetOn`: `Progress`, the place of a load on its
way, where a flag that is done counts as passed, never falls by anyone's step and
grows with each of its own. So a load has at most twelve steps to take and waits only
for one that waits for nobody; that fairness takes those steps is TLC's.

**CreateIndex**, for any set of chunks and any non-empty finite set of workers:
`TypeCorrect`, `ConstructKeepsAligned`, `PublishedHoldsTable`. `IInv` adds where
the holder of the mutex is between its three appends (`Appending`), what each
phase of the operator has behind it (`Phases`: a task that finished saw the
collection empty, and nothing refills it), and that every chunk is in exactly one
place from the table scan to the chain (`NoneLost`, `NoneTwice`). The last two are
why an index is published only with the whole table in it: when all tasks have
finished, no place but the chain is left.

Two more theorems are the safety part of `StatementEnds`. `StatementMovesOn`: of
the steps that are due (a chunk to sink, a worker to combine, each of the appends of
a chunk, the end of a task, of the build and of the statement) none becomes due
again, and every step takes one away. `StatementGoesOn`: while the tasks run, a task
has a step to take or the executor can end the statement, so no task waits for a mutex
that stays taken, also when the holder raised. With finitely many chunks, weak
fairness takes the statement to its end; that last argument is TLC's.

`StatementIsAllOrNothing`: the statement leaves no index if a task raised or
`FinishEvent` refused, whatever was constructed before, and one that published an
index met no chunk that raises. It needs that a chunk whose construction raises never reaches
the chain (`NoneRaised`).

**IndexScan**, for any finite table, answer of the index that `Answers` allows, and size of a
vector: `TypeCorrect` and `ScanStreamsRows`, that the scan implements `RowStream`, a row sent as
often as its id is in the answer. `IInv` adds that the results are the answer (`Searched`), that
a visible row was handed out as often as its id lies before the position (`Handed`, with
`Count`, the times of an id in a prefix of the results), and that the scan ended behind all of
them or on a blank vector. From these, what was handed out of a row stays within what the
index answered and reaches it unless the scan was cut (`Within`).

`ScanIsSequential` says how far the rows are those of a sequential scan: a row too many, or too
often, needs a stale id; a missing one needs a search that raised, a row of the
transaction that is in no index, or at least a vector of ids hidden from the transaction,
which is how far the finding of `index_scan_blank` reaches (a blank vector holds that many,
`BlankIsHidden`).

**IndexJoin**, for any finite probe side, table and hidden ids, any answers of the index and any
size of a vector: `TypeCorrect` and `JoinStreamsPairs`, that the join implements `RowStream`: a
pair as often as the answers hold it, and an unwritten slot for each hidden id. `IInv` adds

- that a probe row comes in one chunk and once (`Delivered`);
- that the matches kept between calls are the answer of the current probe row, and that an
  offset is kept only with them (`Resumable`);
- that of each pair as many were handed out as lie before the `Position` in the answer of its
  probe row (`Accounted`): none of it before the search, up to the offset while the row is
  current, all of it once the row is done.

Each action but `EmitBatch` and `End` leaves what lies before the positions as it was, so it
is a stutter of `RowStream`; `EmitBatch` is the `Send` of what it passes, and between two
chunks, with nothing left to deliver, all is passed (`Within`).

`JoinMovesOn` is the safety part of `JoinEnds`: the probe rows to come, the rows to
search for, the positions of answers to pass and the rows to return never grow, and every step takes
from one of them, ends the join, or is the engine taking a full chunk, which a call
follows. It rests on `Room`: a call starts with room in the chunk and resumes with a
match left, so `HAVE_MORE_OUTPUT` is never answered over and over without a row passed.
`JoinGoesOn` is the rest of it: until the end there is a chunk to give or take, or one
of the branches of `Execute` takes the state it is in. The guards are written out, since
the prover has no `ENABLED`.

`JoinIsNestedLoop` puts the refinement and the chunks together: a join that has ended handed
over all that its searches answered, since between two input chunks no pair waits in the
output chunk (`NothingHeld`); and where an answer holds each of its ids once and no hidden one,
that is each visible row of the answer once and no unwritten slot, as in a nested-loop join.

**MeosAggregate**, for any rows, partial states and spans: `TypeCorrect`,
`ReleasedOnce`, `AnswerIsWhole`, `OnlyOverlapsRefused`, `EverythingReleased`. `IInv` adds

- which partial states are open while one is finished (`Stages`), so that nothing is
  joined into an answer that is out;
- what the two kinds of aggregates use, and that a vector taken over has no other
  partial state left to push into it (`Pointers`);
- that what is gathered or folded was read and has no required argument NULL, and is gathered
  once (`Places`);
- that what is folded starts no later than what is gathered still (`InOrder`), from
  which a refusal for time is an overlap;
- that while the query runs no row is out of sight (`Accounted`), from which the
  answer is whole;
- that, exceptions of `Read`, `Combine` and `Final` apart, what is allocated is
  pointed to (`NothingLost`), from which `Destroy` leaves nothing.

There is one lemma per action. The assumptions are that a family is one of the
three and that the null pointer is no row and no partial state.

**SearchOps**, for any boxes with integer bounds: `SearchAnswersOperator`. The lemmas
are that a commuted relation is the converse of its relation, along an axis and of
whole boxes, and that no operator has two entries in the table.

**Optimizer**, for any number of columns, indexes, filters, operators, boxes, ranked
rows, distances and limits: all five invariants of the run. `IInv` has four parts.

- `InputOK`: what the binder makes of tables and gets (`GetOK`: a get reads the
  columns its filters are over, and emits some of what it reads).
- `SidesOK`: each get is the query's own, or answers nearest first below a TopN, or is
  what one scan optimizer made of the query's own. An optimizer that runs later
  finds no scan to rewrite again (`NotScanned`).
- `NodesOK`: the nodes that are left are nodes of a plan, and only the plan of a TopN
  has one.
- `JoinedOK`: the side that an index join reads by its index is still the query's own
  get, without filters, and the index is over the column of the join's condition.

`TypeCorrect` and `RewriteKeepsColumns` hold for every value of `Shapes`. They rest on
`OptimizedGetEmits`: what a get emits is extended behind what it emitted before
(`ExtendedKeeps`), by a column for each filter that needs one (`AscendingLists`: the
missing columns have an ascending order, which lists each), so the first places,
which the filter above hands on, are what they were.

The other three are stated where the code answers rightly, each with the shapes it
needs excluded and no others. `RewriteKeepsRows` takes the matched filter and the filters above
together: the index holds the column of the filter (`PhysicalSame`, which generated
columns would break), its search accepts what the filter does (`MatchedFilter`, by
`SearchAnswersOperator`, which a computed operand would break, against its own box, which a
constant of another type would not be), and each other filter
reads its own column (`PositionReads`). `JoinKeepsPairs` adds that the probing side
passes its rows whatever an optimizer before or behind the join made of it
(`ProbingSide`), that a place among the columns read is one in the chunk (which a
pruned probe would break), and that `&&` is the search of the join from either
side (`OverlapHolds`). `NearestIsEnough` has two halves: the get asks an index over the
column the TopN orders by for offset and limit together, and has no filters
(`NearestAsks`); and of that many rows that are proved nearest, the distances at each
place are those of the whole table, ties included (`NearestPlaces`).

The assumptions are that boxes, queries and distances have integer values, that indexes are
over columns of the table, and that the number of rows and the bound on limits are natural.

**NearestScan**, for any table, `LIMIT`, vector size, lower bounds and stale
entries: `TypeCorrect`, `NothingNearerIsDropped`, `AnswersMeasured` and
`NearestAnswered`. The assumptions are that row ids are finitely many integers and
that the markers for a row without a distance are three values that are no numbers.
`IInv` adds

- that what the heap holds was measured and is in the tree (`Measured`) and that an
  entry bounds the value of its row (`Indexed`);
- that a row is held, still to be read, or behind all of a full heap
  (`NothingNearerDropped`). The pop keeps this since what it drops is behind what
  stays;
- that once the cursor stops a row not held is behind all that are (`Closed`): the
  entries still to be read come no earlier than the one that stopped it, its bound is
  at least the distance on top of the heap, and a value is at least its bound;
- that the ids are those of the heap, best first (`Ordered`), and what is handed out
  is a prefix of them.

Without stale entries the entries held are one for each row answered
(`HeldAreCurrent`), so the answer is as long as the heap, and the heap as large as
the limit unless every row is held.

Model-checked only: the liveness properties `JoinEnds`, `StatementEnds` and `LoadsEnd`.
The prover does not treat fairness. What it proves towards each is above: no step is taken
back, each one comes nearer to the end, and nobody waits for what does not come.

## 5. Not modelled

- *TSPTREE*, its optimizers apart: `sptree_index_scan.cpp`, `sptree_index_join.cpp` and
  `sptree_index_create_physical.cpp` are the `rtree_*` files with the name changed, so
  `IndexScan`, `NearestScan`, `IndexJoin` and `CreateIndex` hold of them as they are.
  `sptree_module.cpp` differs from `rtree_module.cpp` in two places: the constructor
  parses the `kind` option, and `ReplayEntries` inserts the entries one by one where the
  other loads them at once, so that it has no load that is refused. `RTreeIndex` is the
  model of it for runs without a refusal.
- *Data races inside MEOS*: `Search` and the cursor take no lock while `Append`
  runs. The models take a search as one step.
- *Column ids* in the operators (`IndexScan` and the others): names. The optimizers'
  ids are in `LogicalPlan`.
- *Windows over aggregates*: a segment tree combines one partial state into several,
  and `Combine` empties its source.
- *The content of the embedded CSV files*: they are written in place, in a directory
  that other processes share, behind a check that they are not there, and neither a
  write that fails nor a truncated file is noticed. No property of a whole file would
  hold; `ExtensionLoad` models what the loads make of the path.
- *Point cloud schemas* (`pcschema.cpp`): each row of `pointCloudSchemaRegister` is one
  call of MEOS, where the registry is kept.
- *Functions, types, text input and output*: one MEOS call per row, without state.
  These are more than nine tenths of the implementation: `generated/` alone has some 112,000
  of 132,000, written by `tools/codegen_duck_udfs.py` from a catalog. A model of them
  would be one definition repeated, a decoded argument, a call of MEOS that is not
  in the repository, an encoded result, so the share of lines that `map` covers
  stays small whatever is modelled. Of the generated code the models take what other
  code depends on: the operations of the aggregates and the table of the operators.
- Build files, scripts, benchmarks, examples and vendored data.

## 6. Plan

Done: the index object, its scans and its join, CREATE INDEX, the zone per thread and
the load of the extension, the aggregates, the search operations, and the scan and join optimizers
of both types of index; theorems about all of these.

1. The cursor of `NearestScan` open across appends and deletes of `RTreeIndex`.
2. The replay, entry by entry, of `TSPTREE`.
3. Time conversion.

The number of runs worth keeping apart is small: new modules share a run where they
share a question.
