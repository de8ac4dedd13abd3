-------------------------- MODULE CreateIndexProofs --------------------------
(***************************************************************************)
(* The index that CREATE INDEX publishes holds the table, for any number   *)
(* of chunks and worker threads.                                           *)
(***************************************************************************)
EXTENDS CreateIndex, TLAPS

Holding == {"lock", "box", "id", "record", "raised"}

\* Where the task that holds the mutex is between its three appends.
Appending ==
    \A w \in Worker :
        /\ at[w] = "box" => bulk_boxes = bulk_ids /\ bulk_ids = chain
        /\ at[w] = "id" => bulk_boxes = Append(bulk_ids, chunk[w]) /\ bulk_ids = chain
        /\ at[w] = "record" => bulk_boxes = bulk_ids /\ bulk_ids = Append(chain, chunk[w])

\* The phases: tasks start when every worker has combined, and what is published
\* is there once the operator is done.
Phases ==
    /\ phase = "sink" => \A w \in Worker : at[w] = "scan"
    /\ phase # "sink" => source = {} /\ combined = Worker
    /\ \A w \in combined : source = {} /\ locals[w] = {}
    /\ \A w \in Worker : at[w] = "finished" => collection = {}

\* No chunk is lost between the scan of the table and the chain.
Nowhere(c) ==
    /\ c \notin source
    /\ \A w \in Worker : c \notin locals[w] /\ ~ (at[w] \in Holding /\ chunk[w] = c)
    /\ c \notin collection
    /\ c \notin ToSet(chain)
NoneLost == \A c \in Chunk : ~ Nowhere(c)

\* No chunk is in two places.
NoneTwice ==
    /\ phase = "sink" => chain = << >>
    /\ \A w \in Worker : locals[w] \cap (source \union collection) = {}
    /\ \A w, v \in Worker : w # v => locals[w] \cap locals[v] = {}
    /\ collection \cap (source \union ToSet(chain)) = {}
    /\ \A w \in Worker : at[w] \in Holding =>
         /\ chunk[w] \in Chunk
         /\ chunk[w] \notin collection \union ToSet(chain)
         /\ \A v \in Worker : v # w /\ at[v] \in Holding => chunk[v] # chunk[w]
    /\ IsInjective(chain)

IInv ==
    /\ TypeOK /\ AlignedWhenFree /\ IndexHoldsTable
    /\ Appending /\ Phases /\ NoneLost /\ NoneTwice

-----------------------------------------------------------------------------

\* What Append does to the set of the values of a sequence.
LEMMA AppendValues ==
    ASSUME NEW S, NEW s \in Seq(S), NEW e \in S
    PROVE  /\ Append(s, e) \in Seq(S)
           /\ ToSet(Append(s, e)) = ToSet(s) \union {e}
           /\ IsInjective(s) /\ e \notin ToSet(s) => IsInjective(Append(s, e))
<1> DEFINE t == Append(s, e)
<1>1. /\ t \in Seq(S)
      /\ DOMAIN t = 1..(Len(s) + 1) /\ DOMAIN s = 1..Len(s) /\ Len(s) \in Nat
      /\ \A i \in 1..Len(s) : t[i] = s[i]
      /\ t[Len(s) + 1] = e
  OBVIOUS
<1> HIDE DEF t
<1>2. ToSet(t) = ToSet(s) \union {e}
  <2>1. ASSUME NEW x \in ToSet(t) PROVE x \in ToSet(s) \union {e}
    <3>1. PICK i \in 1..(Len(s) + 1) : x = t[i] BY <1>1 DEF ToSet
    <3>2. i \in 1..Len(s) \/ i = Len(s) + 1 BY <1>1
    <3> QED BY <1>1, <3>1, <3>2 DEF ToSet
  <2>2. ASSUME NEW x \in ToSet(s) PROVE x \in ToSet(t)
    <3>1. PICK i \in 1..Len(s) : x = s[i] BY <1>1 DEF ToSet
    <3>2. i \in 1..(Len(s) + 1) BY <1>1
    <3> QED BY <1>1, <3>1, <3>2 DEF ToSet
  <2>3. e \in ToSet(t)
    <3>1. Len(s) + 1 \in 1..(Len(s) + 1) BY <1>1
    <3> QED BY <1>1, <3>1 DEF ToSet
  <2> QED BY <2>1, <2>2, <2>3
<1>3. ASSUME IsInjective(s), e \notin ToSet(s) PROVE IsInjective(t)
  <2> SUFFICES ASSUME NEW i \in 1..(Len(s) + 1), NEW j \in 1..(Len(s) + 1), t[i] = t[j]
               PROVE i = j
    BY <1>1 DEF IsInjective
  <2>1. \A k \in 1..Len(s) : s[k] # e BY <1>1, <1>3 DEF ToSet
  <2>2. \A k \in 1..(Len(s) + 1) : k \in 1..Len(s) \/ k = Len(s) + 1 BY <1>1
  <2> QED BY <1>1, <1>3, <2>1, <2>2 DEF IsInjective
<1> QED BY <1>1, <1>2, <1>3 DEF t

\* With every task finished, the tree and the chain hold each chunk once.
LEMMA WholeWhenFinished ==
    ASSUME IInv, phase = "build", TasksFinished
    PROVE  /\ Tree \in Seq(Chunk \X Chunk)
           /\ ToSet(Tree) = {<<c, c>> : c \in Chunk} /\ IsInjective(Tree)
           /\ ToSet(chain) = Chunk /\ IsInjective(chain)
<1>1. glock = None
  BY WorkerAssumption DEF IInv, TypeOK, TasksFinished
<1>2. bulk_boxes = chain /\ bulk_ids = chain
  BY <1>1 DEF IInv, AlignedWhenFree
<1>3. source = {} /\ collection = {} /\ \A w \in Worker : locals[w] = {} /\ at[w] \notin Holding
  BY WorkerAssumption DEF IInv, Phases, TasksFinished, Holding
<1>4. \A c \in Chunk : c \in ToSet(chain)
  BY <1>3 DEF IInv, NoneLost, Nowhere
<1>5. chain \in Seq(Chunk) /\ IsInjective(chain)
  BY DEF IInv, TypeOK, NoneTwice
<1>6. DOMAIN chain = 1..Len(chain) /\ Len(chain) \in Nat /\ \A i \in 1..Len(chain) : chain[i] \in Chunk
  BY <1>5
<1>7. ToSet(chain) = Chunk
  BY <1>4, <1>6 DEF ToSet
<1>8. Tree = [i \in 1..Len(chain) |-> <<chain[i], chain[i]>>]
  BY <1>2, <1>6 DEF Tree
<1>9. Tree \in Seq(Chunk \X Chunk)
  BY <1>6, <1>8
<1>10. ToSet(Tree) = {<<c, c>> : c \in Chunk}
  <2>1. ToSet(Tree) = {<<chain[i], chain[i]>> : i \in 1..Len(chain)}
    BY <1>8 DEF ToSet
  <2>2. \A c \in Chunk : \E i \in 1..Len(chain) : chain[i] = c
    BY <1>6, <1>7 DEF ToSet
  <2> QED BY <1>6, <2>1, <2>2
<1>11. IsInjective(Tree)
  BY <1>5, <1>6, <1>8 DEF IsInjective
<1> QED BY <1>5, <1>7, <1>9, <1>10, <1>11

-----------------------------------------------------------------------------
(* The invariant is inductive.                                             *)

\* The table scan and the combination move a chunk from one place to the next.
LEMMA SinkStep == ASSUME IInv, NEW w \in Worker, Sink(w) PROVE IInv'
<1> PICK c \in source : /\ source' = source \ {c}
                        /\ locals' = [locals EXCEPT ![w] = @ \union {c}]
  BY DEF Sink
<1>0. UNCHANGED <<outside, phase, combined, collection, tasks, index, published>>
      /\ phase = "sink" /\ w \notin combined
  BY DEF Sink
<1> USE <1>0 DEF outside, tasks, index, IInv
<1>1. TypeOK' BY DEF TypeOK
<1>2. AlignedWhenFree' /\ IndexHoldsTable' /\ Appending'
  BY DEF AlignedWhenFree, IndexHoldsTable, Appending
<1>3. Phases' BY DEF Phases, TypeOK
<1>4. NoneLost' BY DEF NoneLost, Nowhere, TypeOK
<1>5. NoneTwice' BY DEF NoneTwice, TypeOK
<1> QED BY <1>1, <1>2, <1>3, <1>4, <1>5

LEMMA CombineStep == ASSUME IInv, NEW w \in Worker, Combine(w) PROVE IInv'
<1> USE DEF Combine, Merged, outside, tasks, index, IInv
<1>1. TypeOK' BY DEF TypeOK
<1>2. AlignedWhenFree' /\ IndexHoldsTable' /\ Appending'
  BY DEF AlignedWhenFree, IndexHoldsTable, Appending
<1>3. Phases' BY DEF Phases, TypeOK
<1>4. NoneLost' BY DEF NoneLost, Nowhere, TypeOK
<1>5. NoneTwice'
  <2>1. chain = << >> /\ ToSet(chain) = {}
    BY DEF NoneTwice, ToSet
  <2> QED BY <2>1 DEF NoneTwice, TypeOK, Phases, Holding
<1> QED BY <1>1, <1>2, <1>3, <1>4, <1>5

\* The tasks that do not touch the index.
LEMMA ScanStep ==
    ASSUME IInv, NEW w \in Worker, ScanChunk(w) \/ FinishTask(w) \/ Lock(w)
    PROVE  IInv'
<1> USE DEF IInv, outside, sinking, index
<1>1. CASE ScanChunk(w)
  <2> USE <1>1 DEF ScanChunk
  <2>1. TypeOK' BY DEF TypeOK
  <2>2. AlignedWhenFree' /\ IndexHoldsTable' BY DEF AlignedWhenFree, IndexHoldsTable
  <2>3. Appending' BY DEF Appending, TypeOK
  <2>4. Phases' BY DEF Phases, TypeOK
  <2> PICK c \in collection : /\ collection' = collection \ {c}
                              /\ chunk' = [chunk EXCEPT ![w] = c]
    OBVIOUS
  <2>5. NoneLost'
    <3> SUFFICES ASSUME NEW d \in Chunk, Nowhere(d)' PROVE FALSE
      BY DEF NoneLost
    <3>1. d # c
      <4>1. at'[w] \in Holding /\ chunk'[w] = c BY DEF TypeOK, Holding
      <4> QED BY <4>1 DEF Nowhere
    <3>2. Nowhere(d)
      BY <3>1 DEF Nowhere, TypeOK, Holding
    <3> QED BY <3>2 DEF NoneLost
  <2>6. NoneTwice'
    BY DEF NoneTwice, TypeOK, Holding
  <2> QED BY <2>1, <2>2, <2>3, <2>4, <2>5, <2>6
<1>2. CASE FinishTask(w)
  <2> USE <1>2 DEF FinishTask
  <2>1. TypeOK' BY DEF TypeOK
  <2>2. AlignedWhenFree' /\ IndexHoldsTable' BY DEF AlignedWhenFree, IndexHoldsTable
  <2>3. Appending' BY DEF Appending, TypeOK
  <2>4. Phases' BY DEF Phases, TypeOK
  <2>5. NoneLost' BY DEF NoneLost, Nowhere, TypeOK, Holding
  <2>6. NoneTwice' BY DEF NoneTwice, TypeOK, Holding
  <2> QED BY <2>1, <2>2, <2>3, <2>4, <2>5, <2>6
<1>3. CASE Lock(w)
  <2> USE <1>3 DEF Lock, Granted
  <2>1. TypeOK' BY WorkerAssumption DEF TypeOK
  <2>2. AlignedWhenFree' /\ IndexHoldsTable'
    BY WorkerAssumption DEF AlignedWhenFree, IndexHoldsTable
  <2>3. Appending' BY DEF Appending, TypeOK, AlignedWhenFree
  <2>4. Phases' BY DEF Phases, TypeOK
  <2>5. NoneLost' BY DEF NoneLost, Nowhere, TypeOK, Holding
  <2>6. NoneTwice' BY DEF NoneTwice, TypeOK, Holding
  <2> QED BY <2>1, <2>2, <2>3, <2>4, <2>5, <2>6
<1> QED BY <1>1, <1>2, <1>3

\* Of all tasks only the one that holds the mutex is between two appends.
LEMMA Alone ==
    ASSUME TypeOK, NEW w \in Worker, at[w] \in {"box", "id", "record"}
    PROVE  /\ glock = w
           /\ \A v \in Worker : v # w => at[v] \notin {"box", "id", "record"}
BY DEF TypeOK

\* Construct: the first two appends.
LEMMA GatherStep ==
    ASSUME IInv, NEW w \in Worker, GatherBox(w) \/ GatherId(w)
    PROVE  IInv'
<1> USE DEF IInv, outside, sinking
<1>0. /\ \A v \in Worker : v # w => at[v] \notin {"box", "id", "record"}
      /\ glock = w /\ glock' = glock /\ glock # None /\ chunk[w] \in Chunk
  BY Alone, WorkerAssumption DEF GatherBox, GatherId, NoneTwice, Holding
<1>1. CASE GatherBox(w)
  <2> USE <1>1 DEF GatherBox
  <2>1. bulk_boxes' \in Seq(Chunk) BY <1>0 DEF TypeOK
  <2>2. TypeOK' BY <1>0, <2>1 DEF TypeOK
  <2>3. AlignedWhenFree' /\ IndexHoldsTable' BY <1>0 DEF AlignedWhenFree, IndexHoldsTable
  <2>4. Appending' BY <1>0 DEF Appending, TypeOK
  <2>5. Phases' BY DEF Phases, TypeOK
  <2>6. NoneLost' BY DEF NoneLost, Nowhere, TypeOK, Holding
  <2>7. NoneTwice' BY DEF NoneTwice, TypeOK, Holding
  <2> QED BY <2>2, <2>3, <2>4, <2>5, <2>6, <2>7
<1>2. CASE GatherId(w)
  <2> USE <1>2 DEF GatherId
  <2>1. bulk_ids' \in Seq(Chunk) BY <1>0 DEF TypeOK
  <2>2. TypeOK' BY <1>0, <2>1 DEF TypeOK
  <2>3. AlignedWhenFree' /\ IndexHoldsTable' BY <1>0 DEF AlignedWhenFree, IndexHoldsTable
  <2>4. Appending' BY <1>0 DEF Appending, TypeOK
  <2>5. Phases' BY DEF Phases, TypeOK
  <2>6. NoneLost' BY DEF NoneLost, Nowhere, TypeOK, Holding
  <2>7. NoneTwice' BY DEF NoneTwice, TypeOK, Holding
  <2> QED BY <2>2, <2>3, <2>4, <2>5, <2>6, <2>7
<1> QED BY <1>1, <1>2

\* The third append moves the chunk into the chain and frees the mutex.
LEMMA RecordStep == ASSUME IInv, NEW w \in Worker, Record(w) PROVE IInv'
<1> USE DEF IInv, outside, sinking, Record, Released
<1>0. /\ \A v \in Worker : v # w => at[v] \notin {"box", "id", "record"}
      /\ glock = w /\ glock' = None /\ chunk[w] \in Chunk /\ chunk[w] \notin ToSet(chain)
  BY Alone DEF NoneTwice, Holding
<1>1. /\ chain' \in Seq(Chunk) /\ ToSet(chain') = ToSet(chain) \union {chunk[w]}
      /\ IsInjective(chain')
  BY <1>0, AppendValues DEF NoneTwice, TypeOK
<1>2. TypeOK' BY <1>0, <1>1, WorkerAssumption DEF TypeOK
<1>3. AlignedWhenFree' BY DEF AlignedWhenFree, Appending
<1>4. IndexHoldsTable' BY DEF IndexHoldsTable
<1>5. Appending' BY <1>0 DEF Appending, TypeOK
<1>6. Phases' BY DEF Phases, TypeOK
<1>7. NoneLost' BY <1>1 DEF NoneLost, Nowhere, TypeOK, Holding
<1>8. NoneTwice'
  <2>1. phase = "build" /\ phase' = "build" OBVIOUS
  <2>2. \A v \in Worker : locals'[v] = {} /\ source' = {}
    BY <2>1 DEF Phases
  <2> QED BY <1>0, <1>1, <2>1, <2>2 DEF NoneTwice, TypeOK, Holding
<1> QED BY <1>2, <1>3, <1>4, <1>5, <1>6, <1>7, <1>8

\* A raise frees the mutex before the first append of the chunk.
LEMMA RaiseStep == ASSUME IInv, NEW w \in Worker, Raise(w) PROVE IInv'
<1> USE DEF IInv, outside, sinking, index, Raise, Released
<1>0. \A v \in Worker : v # w => at[v] \notin {"box", "id", "record"}
  BY Alone
<1>1. TypeOK' BY <1>0, WorkerAssumption DEF TypeOK
<1>2. AlignedWhenFree' BY DEF AlignedWhenFree, Appending
<1>3. IndexHoldsTable' BY DEF IndexHoldsTable
<1>4. Appending' BY <1>0 DEF Appending, TypeOK
<1>5. Phases' BY DEF Phases, TypeOK
<1>6. NoneLost' BY DEF NoneLost, Nowhere, TypeOK, Holding
<1>7. NoneTwice' BY DEF NoneTwice, TypeOK, Holding
<1> QED BY <1>1, <1>2, <1>3, <1>4, <1>5, <1>6, <1>7

\* The steps of the statement as a whole, and of another transaction.
LEMMA StatementStep ==
    ASSUME IInv, AlterTable \/ Finalize \/ Abort \/ FinishEvent \/ RefuseEvent
    PROVE  IInv'
<1> USE DEF IInv, outside, sinking, tasks, index
<1>1. Appending' /\ AlignedWhenFree'
  BY DEF AlterTable, Finalize, Abort, FinishEvent, RefuseEvent, Appending, AlignedWhenFree
<1>2. Phases'
  <2>1. CASE Finalize
    <3>1. source = {} BY <2>1, WorkerAssumption DEF Finalize, Phases
    <3> QED BY <2>1, <3>1 DEF Finalize, Phases
  <2>2. CASE AlterTable \/ Abort \/ FinishEvent \/ RefuseEvent
    BY <2>2 DEF AlterTable, Abort, FinishEvent, RefuseEvent, Phases
  <2> QED BY <2>1, <2>2
<1>3. NoneLost'
  BY DEF AlterTable, Finalize, Abort, FinishEvent, RefuseEvent, NoneLost, Nowhere
<1>4. NoneTwice'
  BY DEF AlterTable, Finalize, Abort, FinishEvent, RefuseEvent, NoneTwice
<1>5. TypeOK' /\ IndexHoldsTable'
  <2>1. CASE FinishEvent
    <3>1. /\ published' = [tree |-> Tree, chain |-> chain, in |-> TRUE]
          /\ phase = "build" /\ TasksFinished /\ phase' = "done"
          /\ UNCHANGED <<outside, sinking, collection, tasks, index>>
      BY <2>1 DEF FinishEvent
    <3>2. /\ Tree \in Seq(Chunk \X Chunk)
          /\ ToSet(Tree) = {<<c, c>> : c \in Chunk} /\ IsInjective(Tree)
          /\ ToSet(chain) = Chunk /\ IsInjective(chain)
      BY <3>1, WholeWhenFinished
    <3>3. TypeOK' BY <3>1, <3>2 DEF TypeOK
    <3>4. IndexHoldsTable' BY <3>1, <3>2 DEF IndexHoldsTable
    <3> QED BY <3>3, <3>4
  <2>2. CASE AlterTable \/ Finalize \/ Abort \/ RefuseEvent
    BY <2>2 DEF AlterTable, Finalize, Abort, RefuseEvent, TypeOK, IndexHoldsTable
  <2> QED BY <2>1, <2>2
<1> QED BY <1>1, <1>2, <1>3, <1>4, <1>5

LEMMA InvariantStep == IInv /\ [Next]_vars => IInv'
<1> SUFFICES ASSUME IInv, [Next]_vars PROVE IInv'
  OBVIOUS
<1>1. CASE UNCHANGED vars
  BY <1>1 DEF vars, outside, sinking, tasks, index, IInv, TypeOK, AlignedWhenFree,
              IndexHoldsTable, Appending, Phases, NoneLost, Nowhere, NoneTwice
<1>2. CASE Next
  BY <1>2, SinkStep, CombineStep, ScanStep, GatherStep, RecordStep, RaiseStep, StatementStep
     DEF Next, Task
<1> QED BY <1>1, <1>2

LEMMA InvariantInit == Init => IInv
<1> SUFFICES ASSUME Init PROVE IInv
  OBVIOUS
<1> USE DEF Init
<1>1. TypeOK BY WorkerAssumption DEF TypeOK, Unpublished
<1>2. AlignedWhenFree /\ IndexHoldsTable /\ Appending
  BY DEF AlignedWhenFree, IndexHoldsTable, Unpublished, Appending
<1>3. Phases BY DEF Phases
<1>4. NoneLost BY DEF NoneLost, Nowhere
<1>5. NoneTwice
  <2>1. ToSet(chain) = {} /\ IsInjective(chain) BY DEF ToSet, IsInjective
  <2> QED BY <2>1 DEF NoneTwice, Holding
<1> QED BY <1>1, <1>2, <1>3, <1>4, <1>5 DEF IInv

LEMMA Invariance == Spec => []IInv
BY InvariantInit, InvariantStep, PTL DEF Spec

-----------------------------------------------------------------------------

\* Every variable of the operator keeps its type, and the mutex is held by the
\* one task that is inside Construct.
THEOREM TypeCorrect == Spec => []TypeOK
<1>1. IInv => TypeOK BY DEF IInv
<1>2. QED BY <1>1, Invariance, PTL

\* The gathered boxes, the row ids and the chain name the same rows in the same
\* order whenever the mutex is free (Construct under glock).
THEOREM ConstructKeepsAligned == Spec => []AlignedWhenFree
<1>1. IInv => AlignedWhenFree BY DEF IInv
<1>2. QED BY <1>1, Invariance, PTL

\* What FinishEvent publishes holds each chunk of the table once, in the tree
\* under its own box and in the chain.
THEOREM PublishedHoldsTable == Spec => []IndexHoldsTable
<1>1. IInv => IndexHoldsTable BY DEF IInv
<1>2. QED BY <1>1, Invariance, PTL

-----------------------------------------------------------------------------
(* When the statement leaves an index behind.                              *)

\* The table has the index if the statement succeeded, and it succeeds only when
\* MEOS refused no row, nobody altered the table meanwhile and the name is free.
AllOrNothing ==
    /\ phase = "done" => published.in /\ raises = {} /\ isRoot /\ ~ nameExists
    /\ phase # "done" => published = Unpublished

\* No row that MEOS refuses comes past the box.
NoneRaised ==
    /\ raises \cap ToSet(chain) = {}
    /\ \A w \in Worker : at[w] \in {"id", "record"} => chunk[w] \notin raises

LEMMA NoneRaisedStays ==
    ASSUME IInv, NoneRaised, [Next]_vars
    PROVE  NoneRaised'
<1>1. UNCHANGED raises
  BY DEF Next, Task, AlterTable, Sink, Combine, Finalize, ScanChunk, FinishTask, Lock, GatherBox,
         GatherId, Record, Raise, Abort, FinishEvent, RefuseEvent, vars, outside
<1>2. at \in [Worker -> {"scan", "lock", "box", "id", "record", "finished", "raised"}]
      /\ chunk \in [Worker -> Chunk \union {None}] /\ chain \in Seq(Chunk)
  BY DEF IInv, TypeOK
<1>3. ASSUME UNCHANGED <<at, chunk, chain>> PROVE NoneRaised'
  BY <1>1, <1>3 DEF NoneRaised
<1>4. ASSUME NEW w \in Worker, NEW place, place \notin {"id", "record"},
             at' = [at EXCEPT ![w] = place], UNCHANGED chain,
             \A v \in Worker : v # w => chunk'[v] = chunk[v]
      PROVE  NoneRaised'
  BY <1>1, <1>2, <1>4 DEF NoneRaised
<1>5. ASSUME NEW w \in Worker, ScanChunk(w) \/ FinishTask(w) \/ Lock(w) \/ Raise(w)
      PROVE  NoneRaised'
  <2>1. UNCHANGED chain /\ \A v \in Worker : v # w => chunk'[v] = chunk[v]
    BY <1>2, <1>5 DEF ScanChunk, FinishTask, Lock, Raise, index
  <2>2. PICK place \in {"lock", "finished", "box", "raised"} : at' = [at EXCEPT ![w] = place]
    BY <1>5 DEF ScanChunk, FinishTask, Lock, Raise
  <2> QED BY <1>4, <2>1, <2>2
<1>6. ASSUME NEW w \in Worker, GatherBox(w) \/ GatherId(w) PROVE NoneRaised'
  <2>1. UNCHANGED <<chain, chunk>>
    BY <1>6 DEF GatherBox, GatherId
  <2>2. chunk[w] \notin raises /\ \A v \in Worker : v # w => at'[v] = at[v]
    BY <1>2, <1>6 DEF GatherBox, GatherId, NoneRaised
  <2> QED BY <1>1, <2>1, <2>2 DEF NoneRaised
<1>7. ASSUME NEW w \in Worker, Record(w) PROVE NoneRaised'
  <2>1. /\ at[w] = "record" /\ chain' = Append(chain, chunk[w])
        /\ at' = [at EXCEPT ![w] = "scan"] /\ UNCHANGED chunk
    BY <1>7 DEF Record
  <2>2. chunk[w] \in Chunk /\ chunk[w] \notin raises
    BY <2>1 DEF IInv, NoneTwice, NoneRaised, Holding
  <2>3. ToSet(chain') = ToSet(chain) \union {chunk[w]}
    BY <1>2, <2>1, <2>2, AppendValues
  <2>4. \A v \in Worker : at'[v] \in {"id", "record"} => at[v] \in {"id", "record"}
    BY <1>2, <2>1
  <2> QED BY <1>1, <2>1, <2>2, <2>3, <2>4 DEF NoneRaised
<1>8. CASE UNCHANGED vars
  BY <1>3, <1>8 DEF vars, tasks, index
<1>9. ASSUME NEW w \in Worker, Sink(w) \/ Combine(w) PROVE NoneRaised'
  BY <1>3, <1>9 DEF Sink, Combine, tasks, index
<1>10. CASE AlterTable \/ Finalize \/ Abort \/ FinishEvent \/ RefuseEvent
  BY <1>3, <1>10 DEF AlterTable, Finalize, Abort, FinishEvent, RefuseEvent, tasks, index
<1> QED BY <1>5, <1>6, <1>7, <1>8, <1>9, <1>10 DEF Next, Task

LEMMA AllOrNothingStays ==
    ASSUME IInv, NoneRaised, AllOrNothing, [Next]_vars
    PROVE  AllOrNothing'
<1>1. CASE FinishEvent
  <2>1. phase = "build" /\ TasksFinished
    BY <1>1 DEF FinishEvent
  <2>2. ToSet(chain) = Chunk
    BY <2>1, WholeWhenFinished
  <2>3. raises = {}
    BY <2>2 DEF IInv, TypeOK, NoneRaised
  <2> QED BY <1>1, <2>3 DEF FinishEvent, outside, AllOrNothing
<1>2. CASE AlterTable
  BY <1>2 DEF AlterTable, AllOrNothing
<1>3. CASE Finalize \/ Abort \/ RefuseEvent
  BY <1>3 DEF Finalize, Abort, RefuseEvent, outside, AllOrNothing
<1>4. ASSUME NEW w \in Worker, Sink(w) \/ Combine(w) \/ Task(w) PROVE AllOrNothing'
  BY <1>4 DEF Sink, Combine, Task, ScanChunk, FinishTask, Lock, GatherBox, GatherId, Record, Raise,
              outside, AllOrNothing
<1>5. CASE UNCHANGED vars
  BY <1>5 DEF vars, outside, AllOrNothing
<1> QED BY <1>1, <1>2, <1>3, <1>4, <1>5 DEF Next

\* A statement leaves no index behind if a task raises or FinishEvent refuses it,
\* however many chunks were constructed before; one that succeeds met no row that
\* MEOS refuses, on any task (Construct, FinishEvent).
THEOREM StatementIsAllOrNothing == Spec => []AllOrNothing
<1>1. Init => NoneRaised /\ AllOrNothing
  BY DEF Init, NoneRaised, AllOrNothing, ToSet
<1>2. IInv /\ NoneRaised /\ AllOrNothing /\ [Next]_vars => NoneRaised' /\ AllOrNothing'
  BY NoneRaisedStays, AllOrNothingStays
<1> QED BY <1>1, <1>2, Invariance, PTL DEF Spec

-----------------------------------------------------------------------------
(* The end of the statement: no step is taken twice, and while the tasks   *)
(* run one of them, or the executor, has a step to take.  What remains for *)
(* StatementEnds is that a step which can be taken is taken.               *)

\* The chunk is still to be scanned by a task.
Unscanned(c) ==
    c \in Chunk /\ (c \in source \union collection \/ \E w \in Worker : c \in locals[w])

\* Where a task is that has a step still before it, with its chunk.
Before == [scan   |-> {},
           lock   |-> {"lock"},
           box    |-> {"lock", "box"},
           id     |-> {"lock", "box", "id"},
           record |-> {"lock", "box", "id", "record"}]

\* The steps that may still come: of which kind, and of which chunk or worker.
Due(step, x) ==
    \/ step = "sink" /\ x \in source
    \/ step = "combine" /\ x \in Worker \ combined
    \/ /\ step \in DOMAIN Before
       /\ Unscanned(x) \/ \E w \in Worker : at[w] \in Before[step] /\ chunk[w] = x
    \/ step = "finish" /\ x \in Worker /\ at[x] \notin {"finished", "raised"}
    \/ step = "build" /\ x = None /\ phase = "sink"
    \/ step = "end" /\ x = None /\ phase \in {"sink", "build"}
    \/ step = "alter" /\ x = None /\ isRoot

Step == {"sink", "combine", "finish", "build", "end", "alter"} \union DOMAIN Before
Of   == Chunk \union Worker \union {None}

\* A step that was taken does not come again, whoever takes one, so there are no
\* more steps than kinds of them with chunks and workers.
Onward ==
    /\ \A step \in Step, x \in Of : Due(step, x)' => Due(step, x)
    /\ \E step \in Step, x \in Of : Due(step, x) /\ ~ Due(step, x)'

\* A task that waits for the mutex finds it free or its holder at work; when no
\* task can go on, the executor ends the statement.
GoesOn ==
    phase = "build" =>
        \/ \E w \in Worker : at[w] \in {"scan", "box", "id", "record"}
        \/ \E w \in Worker : at[w] = "lock" /\ Granted(w)
        \/ TasksFinished
        \/ /\ \E w \in Worker : at[w] = "raised"
           /\ \A w \in Worker : at[w] \in {"raised", "finished"}

\* The chunk of a task is in no other place.
LEMMA NoOther ==
    ASSUME IInv, phase = "build", NEW w \in Worker, at[w] \in Holding
    PROVE  /\ chunk[w] \in Chunk /\ ~ Unscanned(chunk[w])
           /\ \A v \in Worker : v # w /\ at[v] \in Holding => chunk[v] # chunk[w]
<1>1. source = {} /\ \A v \in Worker : locals[v] = {}
  BY DEF IInv, Phases
<1> QED BY <1>1 DEF IInv, NoneTwice, Unscanned

\* A task takes a step of its chunk.
LEMMA TaskMovesOn ==
    ASSUME IInv, phase = "build", NEW w \in Worker, at[w] \in Holding,
           NEW step \in DOMAIN Before, at[w] \in Before[step],
           NEW place, place \notin Before[step],
           place \in {"scan", "box", "id", "record", "raised"},
           \A k \in DOMAIN Before : place \in Before[k] => at[w] \in Before[k],
           at' = [at EXCEPT ![w] = place],
           UNCHANGED <<chunk, source, locals, combined, collection, phase, isRoot>>
    PROVE  Onward
<1>1. \A v \in Worker : at'[v] = IF v = w THEN place ELSE at[v]
  BY DEF IInv, TypeOK
<1>2. \A x : Unscanned(x)' <=> Unscanned(x)
  BY DEF Unscanned
<1>3. ASSUME NEW k \in Step, NEW x \in Of, Due(k, x)' PROVE Due(k, x)
  <2>1. CASE k \in DOMAIN Before
    <3>1. ASSUME NEW v \in Worker, at'[v] \in Before[k], chunk'[v] = x
          PROVE  at[v] \in Before[k] /\ chunk[v] = x
      BY <1>1, <2>1, <3>1
    <3> QED BY <1>2, <1>3, <2>1, <3>1 DEF Due, Before
  <2>2. CASE k = "finish"
    BY <1>1, <1>3, <2>2 DEF Due, Holding, Before
  <2>3. CASE k \notin DOMAIN Before /\ k # "finish"
    BY <1>3, <2>3 DEF Due
  <2> QED BY <2>1, <2>2, <2>3
<1>4. /\ chunk[w] \in Chunk /\ ~ Unscanned(chunk[w])
      /\ \A v \in Worker : v # w /\ at[v] \in Holding => chunk[v] # chunk[w]
  BY NoOther
<1>5. Due(step, chunk[w])
  BY DEF Due
<1>6. ~ Due(step, chunk[w])'
  <2>1. \A v \in Worker : at'[v] \in Before[step] => chunk[v] # chunk[w]
    BY <1>1, <1>4 DEF Before, Holding
  <2> QED BY <1>2, <1>4, <2>1 DEF Due, Before
<1> QED BY <1>3, <1>4, <1>5, <1>6 DEF Onward, Step, Of

LEMMA SinkMovesOn == ASSUME IInv, NEW w \in Worker, Sink(w) PROVE Onward
<1>1. /\ UNCHANGED <<phase, isRoot, at, chunk, combined, collection>> /\ phase = "sink"
  BY DEF Sink, outside, tasks
<1>2. PICK c \in source : /\ source' = source \ {c}
                          /\ locals' = [locals EXCEPT ![w] = @ \union {c}]
  BY DEF Sink
<1>3. \A v \in Worker : locals'[v] \subseteq locals[v] \union {c}
  BY <1>2 DEF IInv, TypeOK
<1>4. \A x : Unscanned(x)' => Unscanned(x)
  BY <1>1, <1>2, <1>3 DEF Unscanned
<1>5. \A step \in Step, x \in Of : Due(step, x)' => Due(step, x)
  BY <1>1, <1>2, <1>4 DEF Due
<1>6. c \in Of /\ "sink" \in Step /\ Due("sink", c) /\ ~ Due("sink", c)'
  BY <1>2 DEF Due, Step, Of, Before, IInv, TypeOK
<1> QED BY <1>5, <1>6 DEF Onward

LEMMA CombineMovesOn == ASSUME IInv, NEW w \in Worker, Combine(w) PROVE Onward
<1>1. /\ UNCHANGED <<phase, isRoot, at, chunk, source>>
      /\ w \notin combined /\ combined' = combined \union {w}
      /\ collection' = Merged(w) /\ locals' = [locals EXCEPT ![w] = {}]
  BY DEF Combine, outside, tasks
<1>2. collection' \subseteq collection \union locals[w]
  BY <1>1 DEF Merged
<1>3. \A v \in Worker : locals'[v] \subseteq locals[v]
  BY <1>1 DEF IInv, TypeOK
<1>4. \A x : Unscanned(x)' => Unscanned(x)
  BY <1>1, <1>2, <1>3 DEF Unscanned
<1>5. \A step \in Step, x \in Of : Due(step, x)' => Due(step, x)
  BY <1>1, <1>4 DEF Due
<1>6. w \in Of /\ "combine" \in Step /\ Due("combine", w) /\ ~ Due("combine", w)'
  BY <1>1 DEF Due, Step, Of, Before
<1> QED BY <1>5, <1>6 DEF Onward

\* A task that scans a chunk is the only one that has it.
LEMMA ScanMovesOn == ASSUME IInv, NEW w \in Worker, ScanChunk(w) PROVE Onward
<1>1. /\ UNCHANGED <<phase, isRoot, source, locals, combined>> /\ phase = "build"
      /\ at[w] = "scan" /\ at' = [at EXCEPT ![w] = "lock"]
  BY DEF ScanChunk, outside, sinking
<1>2. PICK c \in collection : collection' = collection \ {c} /\ chunk' = [chunk EXCEPT ![w] = c]
  BY DEF ScanChunk
<1>3. \A v \in Worker : /\ at'[v] = IF v = w THEN "lock" ELSE at[v]
                        /\ chunk'[v] = IF v = w THEN c ELSE chunk[v]
  <2>1. at \in [Worker -> {"scan", "lock", "box", "id", "record", "finished", "raised"}]
        /\ chunk \in [Worker -> Chunk \union {None}]
    BY DEF IInv, TypeOK
  <2>2. \A v \in Worker : at'[v] = IF v = w THEN "lock" ELSE at[v]
    BY <1>1, <2>1
  <2>3. \A v \in Worker : chunk'[v] = IF v = w THEN c ELSE chunk[v]
    BY <1>2, <2>1
  <2> QED BY <2>2, <2>3
<1>4. c \in Chunk /\ Unscanned(c) /\ \A x : Unscanned(x)' => Unscanned(x)
  BY <1>1, <1>2 DEF Unscanned, IInv, TypeOK
<1>5. ASSUME NEW step \in Step, NEW x \in Of, Due(step, x)' PROVE Due(step, x)
  <2>1. CASE step \in DOMAIN Before
    <3>1. CASE Unscanned(x)'
      BY <1>4, <2>1, <3>1 DEF Due
    <3>2. ASSUME NEW v \in Worker, at'[v] \in Before[step], chunk'[v] = x
          PROVE  Due(step, x)
      <4>1. CASE v = w
        BY <1>3, <1>4, <2>1, <3>2, <4>1 DEF Due
      <4>2. CASE v # w
        BY <1>3, <2>1, <3>2, <4>2 DEF Due
      <4> QED BY <4>1, <4>2
    <3> QED BY <1>5, <2>1, <3>1, <3>2 DEF Due, Before
  <2>2. CASE step = "finish"
    BY <1>1, <1>3, <1>5, <2>2 DEF Due, Before
  <2>3. CASE step \notin DOMAIN Before /\ step # "finish"
    BY <1>1, <1>5, <2>3 DEF Due
  <2> QED BY <2>1, <2>2, <2>3
<1>6. ~ Unscanned(c)'
  BY <1>1, <1>2 DEF Unscanned, IInv, Phases
<1>7. c \in Of /\ "scan" \in Step /\ Due("scan", c) /\ ~ Due("scan", c)'
  BY <1>4, <1>6 DEF Due, Step, Of, Before
<1> QED BY <1>5, <1>7 DEF Onward

LEMMA FinishMovesOn == ASSUME IInv, NEW w \in Worker, FinishTask(w) PROVE Onward
<1>1. /\ UNCHANGED <<phase, isRoot, source, locals, combined, collection, chunk>>
      /\ at[w] = "scan" /\ at' = [at EXCEPT ![w] = "finished"]
  BY DEF FinishTask, outside, sinking
<1>2. \A v \in Worker : at'[v] = IF v = w THEN "finished" ELSE at[v]
  BY <1>1 DEF IInv, TypeOK
<1>3. \A x : Unscanned(x)' <=> Unscanned(x)
  BY <1>1 DEF Unscanned
<1>4. \A step \in Step, x \in Of : Due(step, x)' => Due(step, x)
  BY <1>1, <1>2, <1>3 DEF Due, Before
<1>5. w \in Of /\ "finish" \in Step /\ Due("finish", w) /\ ~ Due("finish", w)'
  BY <1>1, <1>2 DEF Due, Step, Of, Before
<1> QED BY <1>4, <1>5 DEF Onward

\* A step of a task with its chunk.
LEMMA ConstructMovesOn ==
    ASSUME IInv, NEW w \in Worker,
           Lock(w) \/ GatherBox(w) \/ GatherId(w) \/ Record(w) \/ Raise(w)
    PROVE  Onward
<1>1. /\ phase = "build"
      /\ UNCHANGED <<chunk, source, locals, combined, collection, phase, isRoot>>
  BY DEF Lock, GatherBox, GatherId, Record, Raise, outside, sinking
<1>2. \/ at[w] = "lock" /\ at' = [at EXCEPT ![w] = "box"]
      \/ at[w] = "box" /\ at' = [at EXCEPT ![w] = "id"]
      \/ at[w] = "id" /\ at' = [at EXCEPT ![w] = "record"]
      \/ at[w] = "record" /\ at' = [at EXCEPT ![w] = "scan"]
      \/ at[w] = "box" /\ at' = [at EXCEPT ![w] = "raised"]
  BY DEF Lock, GatherBox, GatherId, Record, Raise
<1>3. at[w] \in Holding
  BY <1>2 DEF Holding
<1>4. CASE at[w] = "lock" /\ at' = [at EXCEPT ![w] = "box"]
  <2>1. /\ "lock" \in DOMAIN Before /\ at[w] \in Before["lock"] /\ "box" \notin Before["lock"]
        /\ \A k \in DOMAIN Before : "box" \in Before[k] => at[w] \in Before[k]
    BY <1>4 DEF Before
  <2> QED BY <1>1, <1>3, <1>4, <2>1, TaskMovesOn
<1>5. CASE at[w] = "box" /\ at' = [at EXCEPT ![w] = "id"]
  <2>1. /\ "box" \in DOMAIN Before /\ at[w] \in Before["box"] /\ "id" \notin Before["box"]
        /\ \A k \in DOMAIN Before : "id" \in Before[k] => at[w] \in Before[k]
    BY <1>5 DEF Before
  <2> QED BY <1>1, <1>3, <1>5, <2>1, TaskMovesOn
<1>6. CASE at[w] = "id" /\ at' = [at EXCEPT ![w] = "record"]
  <2>1. /\ "id" \in DOMAIN Before /\ at[w] \in Before["id"] /\ "record" \notin Before["id"]
        /\ \A k \in DOMAIN Before : "record" \in Before[k] => at[w] \in Before[k]
    BY <1>6 DEF Before
  <2> QED BY <1>1, <1>3, <1>6, <2>1, TaskMovesOn
<1>7. CASE at[w] = "record" /\ at' = [at EXCEPT ![w] = "scan"]
  <2>1. /\ "record" \in DOMAIN Before /\ at[w] \in Before["record"] /\ "scan" \notin Before["record"]
        /\ \A k \in DOMAIN Before : "scan" \in Before[k] => at[w] \in Before[k]
    BY <1>7 DEF Before
  <2> QED BY <1>1, <1>3, <1>7, <2>1, TaskMovesOn
<1>8. CASE at[w] = "box" /\ at' = [at EXCEPT ![w] = "raised"]
  <2>1. /\ "box" \in DOMAIN Before /\ at[w] \in Before["box"] /\ "raised" \notin Before["box"]
        /\ \A k \in DOMAIN Before : "raised" \in Before[k] => at[w] \in Before[k]
    BY <1>8 DEF Before
  <2> QED BY <1>1, <1>3, <1>8, <2>1, TaskMovesOn
<1> QED BY <1>2, <1>4, <1>5, <1>6, <1>7, <1>8

\* The steps of the statement as a whole, and the one of another transaction.
LEMMA StatementMoves ==
    ASSUME IInv, AlterTable \/ Finalize \/ Abort \/ FinishEvent \/ RefuseEvent
    PROVE  Onward
<1>1. /\ UNCHANGED <<source, locals, combined, collection, at, chunk>>
      /\ \/ isRoot /\ ~ isRoot' /\ UNCHANGED phase
         \/ phase = "sink" /\ phase' = "build" /\ UNCHANGED isRoot
         \/ phase = "build" /\ phase' \in {"done", "failed"} /\ UNCHANGED isRoot
  BY DEF AlterTable, Finalize, Abort, FinishEvent, RefuseEvent, outside, sinking, tasks
<1>2. \A x : Unscanned(x)' <=> Unscanned(x)
  BY <1>1 DEF Unscanned
<1>3. \A step \in Step, x \in Of : Due(step, x)' => Due(step, x)
  BY <1>1, <1>2 DEF Due
<1>4. \E step \in {"build", "end", "alter"} : Due(step, None) /\ ~ Due(step, None)'
  BY <1>1 DEF Due, Before
<1> QED BY <1>3, <1>4 DEF Onward, Step, Of

\* No step of CREATE INDEX is taken twice, for any number of chunks and tasks,
\* whatever is raised and whoever alters the table: the tasks cannot keep each
\* other busy, and on a table of finitely many chunks the statement takes
\* finitely many steps.
THEOREM StatementMovesOn == Spec => [][Onward]_vars
<1>1. IInv /\ [Next]_vars => [Onward]_vars
  BY SinkMovesOn, CombineMovesOn, ScanMovesOn, FinishMovesOn, ConstructMovesOn, StatementMoves
     DEF Next, Task
<1> QED BY <1>1, Invariance, PTL DEF Spec

\* While the tasks run nobody waits for a mutex that is not released: a task or
\* the executor has a step to take, also after a raise inside the scope of the lock.
THEOREM StatementGoesOn == Spec => []GoesOn
<1>1. IInv => GoesOn
  <2>1. SUFFICES ASSUME TypeOK, \A w \in Worker : at[w] \notin {"scan", "box", "id", "record"}
                 PROVE  \/ \E w \in Worker : at[w] = "lock" /\ Granted(w)
                        \/ TasksFinished
                        \/ /\ \E w \in Worker : at[w] = "raised"
                           /\ \A w \in Worker : at[w] \in {"raised", "finished"}
    BY DEF IInv, GoesOn
  <2>2. glock = None
    BY <2>1 DEF TypeOK
  <2>3. \A w \in Worker : at[w] \in {"lock", "finished", "raised"}
    BY <2>1 DEF TypeOK
  <2> QED BY <2>2, <2>3 DEF Granted, TasksFinished
<1> QED BY <1>1, Invariance, PTL
=============================================================================
