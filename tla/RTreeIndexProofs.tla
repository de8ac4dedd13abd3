--------------------------- MODULE RTreeIndexProofs ---------------------------
(* Proofs about RTreeIndex, for every set of rows, boxes and raising boxes,  *)
(* every segment size and every load limit.                                  *)
EXTENDS RTreeIndex, FiniteSetTheorems, TLAPS

-----------------------------------------------------------------------------
(* What recording, tombstoning and loading do to the slots of a chain.       *)

\* The slots of a chain are finitely many, so the number of those holding an
\* entry, which is what a load feeds to the tree, is a natural number.
LEMMA HoldersFinite ==
    ASSUME NEW c, NEW n \in Nat, NEW e
    PROVE  /\ IsFiniteSet(Holders(c, n, e))
           /\ Cardinality(Holders(c, n, e)) \in Nat
           /\ Cardinality(Holders(c, n, e)) > 0 <=> Holders(c, n, e) # {}
<1>1. IsFiniteSet(1..n) /\ IsFiniteSet(1..SegmentSize)
  BY FS_Interval, SizeAssumption
<1>2. IsFiniteSet((1..n) \X (1..SegmentSize))
  BY <1>1, FS_Product
<1>3. Holders(c, n, e) \subseteq (1..n) \X (1..SegmentSize)
  BY DEF Holders, Slots
<1>4. IsFiniteSet(Holders(c, n, e))
  BY <1>2, <1>3, FS_Subset
<1>5. QED BY <1>4, FS_CardinalityType, FS_EmptySet

\* If an entry sits in no two slots, a load feeds it to the tree at most once.
LEMMA HoldersOnce ==
    ASSUME NEW c, NEW n \in Nat, NEW e,
           \A p, q \in Holders(c, n, e) : p = q
    PROVE  Cardinality(Holders(c, n, e)) <= 1
<1>1. CASE Holders(c, n, e) = {}
  BY <1>1, FS_EmptySet
<1>2. CASE Holders(c, n, e) # {}
  <2>1. PICK p \in Holders(c, n, e) : TRUE BY <1>2
  <2>2. Holders(c, n, e) = {p} BY <2>1
  <2>3. Cardinality({p}) = 1 BY FS_Singleton
  <2>4. QED BY <2>2, <2>3
<1>3. QED BY <1>1, <1>2

\* The part of ChainShape that speaks of the chain alone.
WellShaped(c, n) ==
    \A s \in 1..n :
        /\ s < n => c[s].count = SegmentSize
        /\ \A j \in 1..c[s].count : c[s].slot[j] \in Recorded

TailDescribed == tail_count = IF tail = 0 THEN 0 ELSE chain[tail].count

\* RecordEntry keeps the types of the chain fields.
LEMMA RecordType ==
    ASSUME TypeOK, NEW e \in Entry
    PROVE  /\ RecordedTail \in Nat \ {0}
           /\ SlotPosition \in 1..SegmentSize
           /\ RecordedChain(e) \in [1..RecordedTail -> Segment]
<1>1. RecordedTail \in Nat \ {0} /\ SlotPosition \in 1..SegmentSize
  BY SizeAssumption DEF TypeOK, RecordedTail, SlotPosition, NeedsSegment
<1>2. e \in Recorded \union {Free}
  BY DEF Entry, Recorded
<1>3. ASSUME NEW s \in 1..RecordedTail PROVE RecordedChain(e)[s] \in Segment
  <2>1. CASE s # RecordedTail
    <3>1. s \in 1..tail
      BY <2>1, <1>1 DEF TypeOK, RecordedTail, NeedsSegment
    <3>2. QED BY <2>1, <3>1 DEF RecordedChain, TypeOK
  <2>2. CASE s = RecordedTail /\ NeedsSegment
    BY <2>2, <1>1, <1>2 DEF RecordedChain, Written, EmptySegment, Segment
  <2>3. CASE s = RecordedTail /\ ~ NeedsSegment
    <3>1. s = tail /\ tail \in 1..tail
      BY <2>3, <1>1 DEF TypeOK, RecordedTail
    <3>2. chain[s] \in Segment
      BY <3>1 DEF TypeOK
    <3>3. QED BY <2>3, <3>2, <1>1, <1>2 DEF RecordedChain, Written, Segment
  <2>4. QED BY <2>1, <2>2, <2>3
<1>4. QED BY <1>1, <1>3 DEF RecordedChain

\* RecordEntry writes one slot that was not in use, with the entry, and leaves
\* every other slot as it was.
LEMMA RecordSlots ==
    ASSUME TypeOK, TailDescribed, WellShaped(chain, tail), NEW e \in Entry
    PROVE  LET c == RecordedChain(e)
               n == RecordedTail
               p == <<n, SlotPosition>>
           IN  /\ p \notin Slots(chain, tail)
               /\ Slots(c, n) = Slots(chain, tail) \union {p}
               /\ EntryAt(c, p) = e
               /\ \A q \in Slots(chain, tail) : EntryAt(c, q) = EntryAt(chain, q)
               /\ WellShaped(c, n)
               /\ c[n].count = SlotPosition
<1> DEFINE c == RecordedChain(e)
           n == RecordedTail
           p == <<n, SlotPosition>>
<1> USE SizeAssumption
<1>1. /\ n \in Nat \ {0} /\ SlotPosition \in 1..SegmentSize
      /\ c \in [1..n -> Segment]
  BY RecordType
<1> DEFINE base == IF NeedsSegment THEN EmptySegment ELSE chain[tail]
<1>2. /\ c[n].count = SlotPosition
      /\ c[n].slot[SlotPosition] = e
      /\ \A j \in 1..SegmentSize : j # SlotPosition => c[n].slot[j] = base.slot[j]
  <2>1. c[n] = Written(base, e)
    BY <1>1 DEF RecordedChain, RecordedTail
  <2>2. ~ NeedsSegment => tail \in 1..tail
    BY DEF NeedsSegment, TypeOK
  <2>3. base.slot \in [1..SegmentSize -> Recorded \union {Free}]
    BY <2>2 DEF EmptySegment, TypeOK, Segment
  <2>4. /\ c[n].slot = [base.slot EXCEPT ![SlotPosition] = e]
        /\ c[n].count = SlotPosition
    BY <2>1 DEF Written
  <2> HIDE DEF base, c, n
  <2>5. QED BY <2>3, <2>4, <1>1
<1>3. \A s \in 1..n : s # n => s \in 1..tail /\ c[s] = chain[s]
  BY <1>1 DEF RecordedChain, RecordedTail, NeedsSegment, TypeOK
<1>4. CASE NeedsSegment
  <2>1. n = tail + 1 /\ SlotPosition = 1
    BY <1>4 DEF RecordedTail, SlotPosition
  <2>2. \A s \in 1..tail : chain[s].count \in 1..SegmentSize /\ c[s] = chain[s]
    BY <1>3, <2>1 DEF TypeOK, Segment
  <2>3. p \notin Slots(chain, tail)
    BY <2>1 DEF Slots, TypeOK
  <2>4. Slots(c, n) = Slots(chain, tail) \union {p}
    BY <1>1, <1>2, <2>1, <2>2 DEF Slots, TypeOK
  <2>5. \A q \in Slots(chain, tail) : EntryAt(c, q) = EntryAt(chain, q)
    BY <2>2 DEF Slots, EntryAt
  <2>6. \A s \in 1..tail : chain[s].count = SegmentSize
    <3>1. CASE tail = 0 BY <3>1
    <3>2. CASE tail # 0 /\ tail_count = SegmentSize
      <4>1. chain[tail].count = SegmentSize BY <3>2 DEF TailDescribed
      <4>2. \A s \in 1..tail : s < tail => chain[s].count = SegmentSize BY DEF WellShaped
      <4>3. \A s \in 1..tail : s < tail \/ s = tail BY DEF TypeOK
      <4>4. QED BY <4>1, <4>2, <4>3
    <3>3. QED BY <1>4, <3>1, <3>2 DEF NeedsSegment
  <2>7. WellShaped(c, n)
    <3>1. e \in Recorded BY DEF Entry, Recorded
    <3>2. QED BY <1>1, <1>2, <2>1, <2>2, <2>6, <3>1 DEF WellShaped, TypeOK
  <2>8. QED BY <1>2, <2>3, <2>4, <2>5, <2>7 DEF EntryAt
<1>5. CASE ~ NeedsSegment
  <2>1. n = tail /\ tail \in 1..tail /\ SlotPosition = tail_count + 1
    BY <1>5, <1>1 DEF RecordedTail, SlotPosition
  <2>2. chain[tail].count = tail_count
    BY <2>1 DEF TailDescribed
  <2>3. \A j \in 1..tail_count : c[n].slot[j] = chain[tail].slot[j]
    <3>1. \A j \in 1..tail_count : j \in 1..SegmentSize /\ j # SlotPosition
      BY <2>1 DEF TypeOK
    <3>2. base = chain[tail] BY <1>5
    <3> HIDE DEF c, n, p, base
    <3>3. QED BY <1>2, <3>1, <3>2
  <2>4. p \notin Slots(chain, tail)
    BY <2>1, <2>2 DEF Slots, TypeOK
  <2>5. Slots(c, n) = Slots(chain, tail) \union {p}
    <3> HIDE DEF c, n, p, base
    <3>1. \A s \in 1..n : c[s].count = IF s = n THEN tail_count + 1 ELSE chain[s].count
      BY <1>2, <1>3, <2>1
    <3>2. ASSUME NEW q \in (1..n) \X (1..SegmentSize)
          PROVE  q[2] <= c[q[1]].count <=> q[2] <= chain[q[1]].count \/ q = <<n, tail_count + 1>>
      <4>1. q[1] \in 1..n /\ q[2] \in 1..SegmentSize /\ q = <<q[1], q[2]>>
        OBVIOUS
      <4>2. CASE q[1] = n
        BY <4>1, <4>2, <3>1, <2>1, <2>2 DEF TypeOK
      <4>3. CASE q[1] # n
        BY <4>1, <4>3, <3>1
      <4>4. QED BY <4>2, <4>3
    <3>3. p = <<n, tail_count + 1>> /\ p \in (1..n) \X (1..SegmentSize)
      BY <1>1, <2>1 DEF p
    <3>4. QED BY <3>2, <3>3, <2>1 DEF Slots
  <2>6. \A q \in Slots(chain, tail) : EntryAt(c, q) = EntryAt(chain, q)
    <3> HIDE DEF c, n, p, base
    <3>1. SUFFICES ASSUME NEW q \in Slots(chain, tail)
                   PROVE  c[q[1]].slot[q[2]] = chain[q[1]].slot[q[2]]
      BY DEF EntryAt
    <3>2. q[1] \in 1..tail /\ q[2] \in 1..SegmentSize /\ q[2] <= chain[q[1]].count
      BY DEF Slots
    <3>3. CASE q[1] = tail
      <4>1. q[2] \in 1..tail_count BY <3>2, <3>3, <2>2 DEF TypeOK
      <4>2. QED BY <4>1, <3>3, <2>1, <2>3
    <3>4. CASE q[1] # tail BY <3>2, <3>4, <1>3, <2>1
    <3>5. QED BY <3>3, <3>4
  <2>7. WellShaped(c, n)
    <3>1. e \in Recorded BY DEF Entry, Recorded
    <3>2. \A j \in 1..SlotPosition : c[n].slot[j] \in Recorded
      <4>1. \A j \in 1..tail_count : chain[tail].slot[j] \in Recorded
        BY <2>1, <2>2 DEF WellShaped
      <4>2. \A j \in 1..SlotPosition : j = SlotPosition \/ j \in 1..tail_count
        BY <2>1 DEF TypeOK
      <4>3. QED BY <1>2, <2>3, <3>1, <4>1, <4>2
    <3>3. QED BY <1>1, <1>2, <1>3, <2>1, <3>2 DEF WellShaped, TypeOK
  <2>8. QED BY <1>2, <2>4, <2>5, <2>6, <2>7 DEF EntryAt
<1>6. QED BY <1>4, <1>5

\* TombstoneEntries changes the row id of some slots and nothing else.
LEMMA TombstoneSlots ==
    ASSUME TypeOK, WellShaped(chain, tail), NEW R \in SUBSET Row
    PROVE  /\ Tombstoned(R) \in [1..tail -> Segment]
           /\ WellShaped(Tombstoned(R), tail)
           /\ \A s \in 1..tail : Tombstoned(R)[s].count = chain[s].count
           /\ Slots(Tombstoned(R), tail) = Slots(chain, tail)
           /\ \A q \in Slots(chain, tail) :
                 EntryAt(Tombstoned(R), q) =
                   IF EntryAt(chain, q)[1] \in R
                   THEN <<Tombstone, EntryAt(chain, q)[2]>>
                   ELSE EntryAt(chain, q)
<1> DEFINE c == Tombstoned(R)
<1> USE SizeAssumption
<1>1. \A s \in 1..tail :
        /\ c[s].count = chain[s].count
        /\ \A j \in 1..SegmentSize :
             c[s].slot[j] = IF j <= chain[s].count
                            THEN TombstoneSlot(chain[s].slot[j], R)
                            ELSE chain[s].slot[j]
  BY DEF Tombstoned, TypeOK, Segment
<1>2. \A e \in Recorded : TombstoneSlot(e, R) \in Recorded
  BY DEF TombstoneSlot, Recorded
<1>3. Tombstoned(R) \in [1..tail -> Segment]
  <2>1. SUFFICES ASSUME NEW s \in 1..tail PROVE c[s] \in Segment
    BY DEF Tombstoned
  <2>2. chain[s] \in Segment BY DEF TypeOK
  <2>3. \A e \in Recorded \union {Free} : TombstoneSlot(e, R) \in Recorded \union {Free}
    BY <1>2 DEF TombstoneSlot
  <2>4. QED BY <2>2, <2>3 DEF Segment, Tombstoned
<1>4. Slots(c, tail) = Slots(chain, tail)
  BY <1>1 DEF Slots
<1>5. WellShaped(c, tail)
  <2>1. \A s \in 1..tail : chain[s].count \in 1..SegmentSize
    BY DEF TypeOK, Segment
  <2>2. ASSUME NEW s \in 1..tail, NEW j \in 1..chain[s].count
        PROVE  c[s].slot[j] \in Recorded
    <3>1. j \in 1..SegmentSize /\ j <= chain[s].count BY <2>1
    <3>2. c[s].slot[j] = TombstoneSlot(chain[s].slot[j], R) BY <1>1, <3>1
    <3>3. chain[s].slot[j] \in Recorded BY DEF WellShaped
    <3>4. QED BY <1>2, <3>2, <3>3
  <2>3. \A s \in 1..tail : s < tail => c[s].count = SegmentSize
    BY <1>1 DEF WellShaped
  <2>4. QED BY <1>1, <2>2, <2>3 DEF WellShaped
<1>6. \A e \in Recorded : TombstoneSlot(e, R) = IF e[1] \in R THEN <<Tombstone, e[2]>> ELSE e
  BY MarkersAssumption DEF TombstoneSlot, Recorded
<1>7. ASSUME NEW q \in Slots(chain, tail)
      PROVE  EntryAt(c, q) = TombstoneSlot(EntryAt(chain, q), R) /\ EntryAt(chain, q) \in Recorded
  BY <1>1 DEF Slots, EntryAt, WellShaped, TypeOK, Segment
<1>8. QED BY <1>1, <1>3, <1>4, <1>5, <1>6, <1>7

-----------------------------------------------------------------------------
(* The inductive invariant.  Orphans, the rows a failed append left behind,  *)
(* are excepted from what only the rows of the table may have.               *)

\* Each row of the table has a slot with its own box.
Holds(c, n, tab) ==
    \A r \in Row : tab[r] \in Box => \E p \in Slots(c, n) : EntryAt(c, p) = <<r, tab[r]>>

\* A slot not tombstoned belongs to a row of the table, with the row's box.
Only(c, n, tab, orph) ==
    \A p \in Slots(c, n) :
        EntryAt(c, p)[1] \in Row \ orph => tab[EntryAt(c, p)[1]] = EntryAt(c, p)[2]

\* No row has two slots.
Once(c, n, orph) ==
    \A p, q \in Slots(c, n) :
        EntryAt(c, p)[1] \in Row \ orph /\ EntryAt(c, q)[1] = EntryAt(c, p)[1] => p = q

ChainInv(c, n, tab, orph) ==
    WellShaped(c, n) /\ Holds(c, n, tab) /\ Only(c, n, tab, orph) /\ Once(c, n, orph)

\* What the tree was fed, or will be fed when the bulk build finishes.
Fed == IF phase = "building" THEN gathered ELSE tree

\* A row of the table is in the tree and not filtered; a row in the tree and not
\* filtered is a row of the table; and unless its id was reused, it is there once
\* and with the box the table holds.
FedInv(fed, del, tab, orph, re) ==
    /\ \A r \in Row : tab[r] \in Box => r \notin del /\ fed[<<r, tab[r]>>] > 0
    /\ \A r \in Row \ (del \union orph), b \in Box : fed[<<r, b>>] > 0 => tab[r] \in Box
    /\ \A r \in Row \ (del \union orph \union re), b \in Box :
          fed[<<r, b>>] <= 1 /\ (fed[<<r, b>>] > 0 => tab[r] = b)

ChunkApart == \A r \in Row : chunk[r] # Absent => table[r] = Absent

SavedInv == \A i \in saved : ChainInv(i.chain, i.tail, i.table, i.orphan)

IInv ==
    /\ TypeOK
    /\ TailDescribed
    /\ ChainInv(chain, tail, table, orphan)
    /\ phase # "unreadable" => FedInv(Fed, deleted, table, orphan, reused)
    /\ ChunkApart
    /\ SavedInv

LEMMA SlotsRecorded ==
    ASSUME NEW n \in Nat, NEW c \in [1..n -> Segment], WellShaped(c, n),
           NEW p \in Slots(c, n)
    PROVE  /\ EntryAt(c, p) \in Recorded
           /\ EntryAt(c, p) = <<EntryAt(c, p)[1], EntryAt(c, p)[2]>>
           /\ EntryAt(c, p)[1] \in Row \union {Tombstone}
           /\ EntryAt(c, p)[2] \in Box
<1>1. p[1] \in 1..n /\ p[2] \in 1..SegmentSize /\ p[2] <= c[p[1]].count
  BY DEF Slots
<1>2. EntryAt(c, p) \in Recorded
  <2>1. c[p[1]].count \in 1..SegmentSize BY <1>1 DEF Segment
  <2>2. p[2] \in 1..c[p[1]].count BY <1>1, <2>1, SizeAssumption
  <2>3. QED BY <1>1, <2>2 DEF WellShaped, EntryAt
<1>3. QED BY <1>2 DEF Recorded

\* Recording the box of a row that was not in the table keeps the chain exact.
LEMMA RecordKeeps ==
    ASSUME TypeOK, TailDescribed, ChainInv(chain, tail, table, orphan),
           NEW r \in Row, NEW b \in Box, table[r] = Absent
    PROVE  ChainInv(RecordedChain(<<r, b>>), RecordedTail, [table EXCEPT ![r] = b], orphan)
<1> DEFINE c == RecordedChain(<<r, b>>)
           n == RecordedTail
           p == <<n, SlotPosition>>
           old == Slots(chain, tail)
<1>1. <<r, b>> \in Entry BY DEF Entry
<1>2. /\ Slots(c, n) = old \union {p}
      /\ EntryAt(c, p) = <<r, b>>
      /\ \A q \in old : EntryAt(c, q) = EntryAt(chain, q)
      /\ WellShaped(c, n)
  BY <1>1, RecordSlots DEF ChainInv
<1>3. \A q \in old : EntryAt(chain, q)[1] \in Row \union {Tombstone}
                     /\ EntryAt(chain, q)[2] \in Box
  BY SlotsRecorded DEF ChainInv, TypeOK
<1>4. \A q \in old : EntryAt(chain, q)[1] # r \/ r \in orphan
  BY <1>3, MarkersAssumption DEF ChainInv, Only
<1> HIDE DEF c, n, p, old
<1>5. Holds(c, n, [table EXCEPT ![r] = b])
  <2>1. SUFFICES ASSUME NEW s \in Row, [table EXCEPT ![r] = b][s] \in Box
                 PROVE  \E q \in old \union {p} : EntryAt(c, q) = <<s, [table EXCEPT ![r] = b][s]>>
    BY <1>2 DEF Holds
  <2>2. CASE s = r BY <2>2, <1>2 DEF TypeOK
  <2>3. CASE s # r
    <3>1. [table EXCEPT ![r] = b][s] = table[s] BY <2>3 DEF TypeOK
    <3>2. PICK q \in old : EntryAt(chain, q) = <<s, table[s]>>
      BY <2>1, <3>1 DEF ChainInv, Holds, old
    <3>3. QED BY <3>1, <3>2, <1>2
  <2>4. QED BY <2>2, <2>3
<1>6. Only(c, n, [table EXCEPT ![r] = b], orphan)
  <2>1. SUFFICES ASSUME NEW q \in old \union {p}, EntryAt(c, q)[1] \in Row \ orphan
                 PROVE  [table EXCEPT ![r] = b][EntryAt(c, q)[1]] = EntryAt(c, q)[2]
    BY <1>2 DEF Only
  <2>2. CASE q = p BY <2>2, <1>2 DEF TypeOK
  <2>3. CASE q \in old
    <3>1. EntryAt(c, q) = EntryAt(chain, q) /\ EntryAt(chain, q)[1] # r
      BY <2>1, <2>3, <1>2, <1>4
    <3>2. table[EntryAt(chain, q)[1]] = EntryAt(chain, q)[2]
      BY <2>1, <2>3, <3>1 DEF ChainInv, Only, old
    <3>3. QED BY <2>1, <3>1, <3>2 DEF TypeOK
  <2>4. QED BY <2>2, <2>3
<1>7. Once(c, n, orphan)
  <2>1. \A q \in old : EntryAt(c, q)[1] \in Row \ orphan => EntryAt(c, q)[1] # EntryAt(c, p)[1]
    BY <1>2, <1>4
  <2>2. QED BY <2>1, <1>2 DEF Once, ChainInv, old
<1>8. QED BY <1>2, <1>5, <1>6, <1>7 DEF ChainInv, c, n

\* Tombstoning the deleted rows keeps the chain exact for the rows left.
LEMMA TombstoneKeeps ==
    ASSUME TypeOK, ChainInv(chain, tail, table, orphan), NEW R \in SUBSET Row
    PROVE  ChainInv(Tombstoned(R), tail,
                    [r \in Row |-> IF r \in R THEN Absent ELSE table[r]], orphan \ R)
<1> DEFINE c == Tombstoned(R)
           tab == [r \in Row |-> IF r \in R THEN Absent ELSE table[r]]
           old == Slots(chain, tail)
<1>1. /\ WellShaped(c, tail)
      /\ Slots(c, tail) = old
      /\ \A q \in old : EntryAt(c, q) = IF EntryAt(chain, q)[1] \in R
                                         THEN <<Tombstone, EntryAt(chain, q)[2]>>
                                         ELSE EntryAt(chain, q)
  BY TombstoneSlots DEF ChainInv
<1>2. \A r \in Row : tab[r] = IF r \in R THEN Absent ELSE table[r]
  OBVIOUS
<1>3. \A q \in old : EntryAt(c, q)[1] \in Row
                     => /\ EntryAt(c, q) = EntryAt(chain, q)
                        /\ EntryAt(chain, q)[1] \notin R
  BY <1>1, MarkersAssumption
<1> HIDE DEF c, tab
<1>4. Holds(c, tail, tab)
  <2>1. SUFFICES ASSUME NEW r \in Row, tab[r] \in Box
                 PROVE  \E q \in old : EntryAt(c, q) = <<r, tab[r]>>
    BY <1>1 DEF Holds
  <2>2. r \notin R /\ tab[r] = table[r]
    BY <2>1, <1>2, MarkersAssumption
  <2>3. PICK q \in old : EntryAt(chain, q) = <<r, table[r]>>
    BY <2>1, <2>2 DEF ChainInv, Holds
  <2>4. QED BY <2>2, <2>3, <1>1
<1>5. Only(c, tail, tab, orphan \ R)
  BY <1>1, <1>2, <1>3 DEF Only, ChainInv
<1>6. Once(c, tail, orphan \ R)
  BY <1>1, <1>3 DEF Once, ChainInv
<1>7. QED BY <1>1, <1>4, <1>5, <1>6 DEF ChainInv, c, tab

\* Taking the rows of a failed append out of the table keeps the chain exact, its
\* indexed rows counted as orphans.
LEMMA OrphanKeeps ==
    ASSUME TypeOK, ChainInv(chain, tail, table, orphan), NEW D \in SUBSET Row
    PROVE  ChainInv(chain, tail,
                    [s \in Row |-> IF s \in D THEN Absent ELSE table[s]],
                    orphan \union {s \in D : table[s] \in Box})
<1> DEFINE tab == [s \in Row |-> IF s \in D THEN Absent ELSE table[s]]
           orph == orphan \union {s \in D : table[s] \in Box}
<1>1. \A s \in Row : tab[s] = IF s \in D THEN Absent ELSE table[s]
  OBVIOUS
<1>2. \A s \in Row \ orph : s \in Row \ orphan /\ (table[s] \in Box => tab[s] = table[s])
  BY <1>1
<1>3. \A q \in Slots(chain, tail) : EntryAt(chain, q)[2] \in Box
  BY SlotsRecorded DEF ChainInv, TypeOK
<1>4. orphan \subseteq orph OBVIOUS
<1> HIDE DEF tab, orph
<1>5. Holds(chain, tail, tab)
  BY <1>1, MarkersAssumption DEF Holds, ChainInv
<1>6. Only(chain, tail, tab, orph)
  BY <1>2, <1>3 DEF Only, ChainInv
<1>7. Once(chain, tail, orph)
  BY <1>4 DEF Once, ChainInv
<1>8. QED BY <1>5, <1>6, <1>7 DEF ChainInv, tab, orph

\* A load of an exact chain feeds the tree exactly the table.
LEMMA LoadExact ==
    ASSUME NEW n \in Nat, NEW c \in [1..n -> Segment],
           NEW tab \in [Row -> Value], NEW orph \in SUBSET Row,
           ChainInv(c, n, tab, orph)
    PROVE  FedInv(LoadedTree(c, n), {}, tab, orph, {})
<1>1. \A e \in Entry : LoadedTree(c, n)[e] = Cardinality(Holders(c, n, e))
  BY DEF LoadedTree
<1>2. \A e \in Entry : LoadedTree(c, n)[e] > 0 <=> Holders(c, n, e) # {}
  BY <1>1, HoldersFinite
<1>3. \A r \in Row, b \in Box : <<r, b>> \in Entry
  BY DEF Entry
<1>4. ASSUME NEW r \in Row, tab[r] \in Box PROVE LoadedTree(c, n)[<<r, tab[r]>>] > 0
  <2>1. Holders(c, n, <<r, tab[r]>>) # {}
    BY <1>4 DEF ChainInv, Holds, Holders
  <2>2. QED BY <2>1, <1>2, <1>3, <1>4
<1>5. ASSUME NEW r \in Row \ orph, NEW b \in Box, LoadedTree(c, n)[<<r, b>>] > 0
      PROVE  tab[r] = b
  <2>1. PICK p \in Slots(c, n) : EntryAt(c, p) = <<r, b>>
    BY <1>2, <1>3, <1>5 DEF Holders
  <2>2. QED BY <2>1 DEF ChainInv, Only
<1>6. ASSUME NEW r \in Row \ orph, NEW b \in Box
      PROVE  LoadedTree(c, n)[<<r, b>>] <= 1
  <2>1. \A p, q \in Holders(c, n, <<r, b>>) : p = q
    BY DEF Holders, ChainInv, Once
  <2>2. QED BY <2>1, <1>1, <1>3, HoldersOnce
<1>7. QED BY <1>4, <1>5, <1>6 DEF FedInv

-----------------------------------------------------------------------------
(* Type correctness.                                                         *)

LEMMA FreshType == ASSUME NEW p \in {"none", "building"}, Fresh(p) PROVE TypeOK'
BY SizeAssumption DEF Fresh, TypeOK, NoEntries, NoRows, Value, Entry

\* Every variable keeps its type in every step of the index.
LEMMA TypeStep == TypeOK /\ [Next]_vars => TypeOK'
<1> SUFFICES ASSUME TypeOK, [Next]_vars PROVE TypeOK'
  OBVIOUS
<1>1. CASE Create BY <1>1, FreshType DEF Create
<1>2. ASSUME NEW rows \in [Row -> Value], BeginAppend(rows) PROVE TypeOK'
  BY <1>2 DEF BeginAppend, memory, TypeOK
<1>3. ASSUME NEW r \in Row, SkipRow(r) PROVE TypeOK'
  BY <1>3 DEF SkipRow, memory, TypeOK, Value
<1>4. ASSUME NEW r \in Row, IndexRow(r) PROVE TypeOK'
  <2>1. <<r, chunk[r]>> \in Entry BY <1>4 DEF IndexRow, Entry
  <2>2. /\ RecordedTail \in Nat \ {0}
        /\ SlotPosition \in 1..SegmentSize
        /\ RecordedChain(<<r, chunk[r]>>) \in [1..RecordedTail -> Segment]
    BY <2>1, RecordType
  <2>3. chain' \in [1..tail' -> Segment] /\ tail' \in Nat /\ tail_count' \in 0..SegmentSize
    <3>1. chain' = RecordedChain(<<r, chunk[r]>>) /\ tail' = RecordedTail
          /\ tail_count' = SlotPosition
      BY <1>4 DEF IndexRow, RecordEntry
    <3>2. QED BY <2>2, <3>1, SizeAssumption
  <2>4. tree' \in [Entry -> Nat] /\ gathered' \in [Entry -> Nat]
    <3>1. ASSUME NEW bag \in [Entry -> Nat]
          PROVE  Plus(bag, <<r, chunk[r]>>) \in [Entry -> Nat]
      BY <2>1 DEF Plus
    <3>2. tree \in [Entry -> Nat] /\ gathered \in [Entry -> Nat]
      BY DEF TypeOK
    <3>3. QED BY <1>4, <3>1, <3>2 DEF IndexRow
  <2>5. /\ chunk' \in [Row -> Value] /\ table' \in [Row -> Value]
        /\ deleted' \subseteq Row /\ done' \subseteq Row /\ reused' \subseteq Row
    BY <1>4 DEF IndexRow, RecordEntry, Undeleted, TypeOK, Value
  <2>6. UNCHANGED <<phase, orphan, saved>>
    BY <1>4 DEF IndexRow
  <2>7. QED BY <2>3, <2>4, <2>5, <2>6 DEF TypeOK
<1>5. ASSUME NEW r \in Row, RaiseRow(r) PROVE TypeOK'
  <2>1. CASE phase = "building" BY <1>5, <2>1, FreshType DEF RaiseRow
  <2>2. CASE phase # "building"
    BY <1>5, <2>2 DEF RaiseRow, memory, TypeOK, NoRows, Value
  <2>3. QED BY <2>1, <2>2
<1>6. CASE EndAppend BY <1>6 DEF EndAppend, memory, TypeOK
<1>7. CASE FinishBulkConstruct
  <2>1. CASE BulkTotal > LoadLimit BY <1>7, <2>1, FreshType DEF FinishBulkConstruct
  <2>2. CASE ~ (BulkTotal > LoadLimit)
    BY <1>7, <2>2 DEF FinishBulkConstruct, call, TypeOK, NoEntries
  <2>3. QED BY <2>1, <2>2
<1>8. ASSUME NEW R \in SUBSET Row, Delete(R) PROVE TypeOK'
  <2>1. Tombstoned(R) \in [1..tail -> Segment]
    <3>1. \A e \in Recorded \union {Free} : TombstoneSlot(e, R) \in Recorded \union {Free}
      BY DEF TombstoneSlot, Recorded
    <3>2. ASSUME NEW s \in 1..tail PROVE Tombstoned(R)[s] \in Segment
      <4>1. chain[s] \in Segment BY DEF TypeOK
      <4>2. QED BY <3>1, <4>1 DEF Tombstoned, Segment
    <3>3. QED BY <3>2 DEF Tombstoned
  <2>2. QED BY <1>8, <2>1 DEF Delete, call, TypeOK, Value
<1>9. CASE Serialize
  <2>1. \A image \in saved' :
          /\ image.tail \in Nat
          /\ image.chain \in [1..image.tail -> Segment]
          /\ image.table \in [Row -> Value]
          /\ image.orphan \subseteq Row
    BY <1>9 DEF Serialize, TypeOK
  <2>2. UNCHANGED <<phase, memory, call, table, orphan, reused>>
    BY <1>9 DEF Serialize
  <2>3. QED BY <2>1, <2>2 DEF memory, call, TypeOK
<1>10. CASE Restart
  <2>1. CASE saved = {} BY <1>10, <2>1, FreshType DEF Restart
  <2>2. ASSUME NEW image \in saved, Load(image) PROVE TypeOK'
    <3>1. /\ image.tail \in Nat /\ image.chain \in [1..image.tail -> Segment]
          /\ image.table \in [Row -> Value] /\ image.orphan \subseteq Row
      BY DEF TypeOK
    <3>2. LoadedTree(image.chain, image.tail) \in [Entry -> Nat]
      BY <3>1, HoldersFinite DEF LoadedTree
    <3>3. ReplayedTailCount(image.chain, image.tail) \in 0..SegmentSize
      BY <3>1, SizeAssumption DEF ReplayedTailCount, Segment
    <3>4. QED
      BY <2>2, <3>1, <3>2, <3>3
      DEF Load, TypeOK, ReplayedTail, NoRows, Value, NoEntries
  <2>3. QED BY <1>10, <2>1, <2>2 DEF Restart
<1>11. CASE ResetStorage BY <1>11, FreshType DEF ResetStorage
<1>12. CASE UNCHANGED vars BY <1>12 DEF vars, memory, call, TypeOK
<1>13. QED
  BY <1>1, <1>2, <1>3, <1>4, <1>5, <1>6, <1>7, <1>8, <1>9, <1>10, <1>11, <1>12 DEF Next

\* Every variable of the index keeps its type: among others the chain stays a
\* list of segments of the build's size and its tail fields stay in range.
THEOREM TypeCorrect == Spec => []TypeOK
<1>1. Init => TypeOK
  BY SizeAssumption DEF Init, TypeOK, NoEntries, NoRows, Value, Entry
<1>2. QED BY <1>1, TypeStep, PTL DEF Spec

-----------------------------------------------------------------------------
(* The invariant is inductive.                                               *)

\* An index with nothing in it satisfies the invariant.
LEMMA EmptyExact ==
    /\ ChainInv(<< >>, 0, NoRows, {})
    /\ FedInv(NoEntries, {}, NoRows, {}, {})
<1>1. Slots(<< >>, 0) = {} BY DEF Slots
<1>2. ChainInv(<< >>, 0, NoRows, {})
  BY <1>1, MarkersAssumption DEF ChainInv, WellShaped, Holds, Only, Once, NoRows
<1>3. \A r \in Row, b \in Box : NoEntries[<<r, b>>] = 0
  BY DEF NoEntries, Entry
<1>4. FedInv(NoEntries, {}, NoRows, {}, {})
  BY <1>3, MarkersAssumption DEF FedInv, NoRows
<1>5. QED BY <1>2, <1>4

LEMMA FreshInv == ASSUME NEW p \in {"none", "building"}, Fresh(p) PROVE IInv'
<1>1. TypeOK' BY FreshType
<1>2. ChainInv(chain', tail', table', orphan') BY EmptyExact DEF Fresh
<1>3. Fed' = NoEntries BY DEF Fresh, Fed
<1>4. FedInv(Fed', deleted', table', orphan', reused') BY <1>3, EmptyExact DEF Fresh
<1>5. TailDescribed' /\ ChunkApart' /\ SavedInv'
  BY DEF Fresh, TailDescribed, ChunkApart, NoRows, SavedInv
<1>6. QED BY <1>1, <1>2, <1>4, <1>5 DEF IInv

\* Indexing a row.
LEMMA IndexRowInv ==
    ASSUME IInv, TypeOK', NEW r \in Row, IndexRow(r)
    PROVE  IInv'
<1> DEFINE b == chunk[r]
           e == <<r, b>>
<1>1. /\ TypeOK /\ TailDescribed /\ ChainInv(chain, tail, table, orphan)
      /\ b \in Box /\ table[r] = Absent /\ e \in Entry
  BY MarkersAssumption DEF IInv, IndexRow, ChunkApart, Entry
<1>2. /\ table' = [table EXCEPT ![r] = b]
      /\ chain' = RecordedChain(e) /\ tail' = RecordedTail /\ tail_count' = SlotPosition
      /\ deleted' = deleted \ {r} /\ orphan' = orphan /\ saved' = saved /\ phase' = phase
  BY DEF IndexRow, RecordEntry, Undeleted
<1>3. ChainInv(chain', tail', table', orphan')
  BY <1>1, <1>2, RecordKeeps
<1>4. TailDescribed'
  BY <1>1, <1>2, RecordSlots, RecordType DEF TailDescribed, ChainInv
<1>5. ChunkApart'
  BY <1>1, <1>2 DEF IInv, ChunkApart, IndexRow, TypeOK
<1>6. SavedInv'
  BY <1>2 DEF IInv, SavedInv
<1>7. ASSUME phase' # "unreadable"
      PROVE  FedInv(Fed', deleted', table', orphan', reused')
  <2>1. FedInv(Fed, deleted, table, orphan, reused)
    BY <1>2, <1>7 DEF IInv
  <2>2. Fed' = Plus(Fed, e)
    BY <1>2 DEF IndexRow, Fed
  <2>3. Fed \in [Entry -> Nat]
    BY <1>1 DEF TypeOK, Fed
  <2>4. \A s \in Row, x \in Box :
          /\ <<s, x>> \in Entry
          /\ Fed[<<s, x>>] \in Nat
          /\ Fed'[<<s, x>>] = IF s = r /\ x = b THEN Fed[<<s, x>>] + 1 ELSE Fed[<<s, x>>]
    BY <1>1, <2>2, <2>3 DEF Plus, Entry
  <2>5. \A s \in Row : table'[s] = IF s = r THEN b ELSE table[s]
    BY <1>1, <1>2 DEF TypeOK
  <2>6. reused \subseteq reused' /\ (r \in deleted => r \in reused')
    BY DEF IndexRow
  <2>7. r \notin deleted \union orphan => \A x \in Box : Fed[<<r, x>>] = 0
    BY <1>1, <2>1, <2>4, MarkersAssumption DEF FedInv
  <2> HIDE DEF b, e
  <2>8. ASSUME NEW s \in Row, table'[s] \in Box
        PROVE  s \notin deleted' /\ Fed'[<<s, table'[s]>>] > 0
    <3>1. CASE s = r BY <3>1, <2>4, <2>5, <1>1, <1>2
    <3>2. CASE s # r BY <3>2, <2>1, <2>4, <2>5, <2>8, <1>2 DEF FedInv
    <3>3. QED BY <3>1, <3>2
  <2>9. ASSUME NEW s \in Row \ (deleted' \union orphan'), NEW x \in Box, Fed'[<<s, x>>] > 0
        PROVE  table'[s] \in Box
    <3>1. CASE s = r BY <3>1, <2>5, <1>1
    <3>2. CASE s # r BY <3>2, <2>1, <2>4, <2>5, <2>9, <1>2 DEF FedInv
    <3>3. QED BY <3>1, <3>2
  <2>10. ASSUME NEW s \in Row \ (deleted' \union orphan' \union reused'), NEW x \in Box
         PROVE  Fed'[<<s, x>>] <= 1 /\ (Fed'[<<s, x>>] > 0 => table'[s] = x)
    <3>1. CASE s = r
      <4>1. r \notin deleted \union orphan BY <3>1, <2>6, <1>2
      <4>2. QED BY <3>1, <4>1, <2>4, <2>5, <2>7
    <3>2. CASE s # r
      BY <3>2, <2>1, <2>4, <2>5, <2>6, <1>2 DEF FedInv
    <3>3. QED BY <3>1, <3>2
  <2>11. QED BY <2>8, <2>9, <2>10 DEF FedInv
<1>8. QED BY <1>3, <1>4, <1>5, <1>6, <1>7 DEF IInv

\* A raise in the middle of a chunk.
LEMMA RaiseRowInv ==
    ASSUME IInv, TypeOK', NEW r \in Row, RaiseRow(r)
    PROVE  IInv'
<1>1. CASE phase = "building" BY <1>1, FreshInv DEF RaiseRow
<1>2. CASE phase # "building"
  <2>1. /\ table' = [s \in Row |-> IF s \in done THEN Absent ELSE table[s]]
        /\ orphan' = orphan \union {s \in done : table[s] \in Box}
        /\ chunk' = NoRows
        /\ UNCHANGED <<phase, tree, gathered, deleted, chain, tail, tail_count, reused, saved>>
    BY <1>2 DEF RaiseRow, memory
  <2>2. TypeOK /\ ChainInv(chain, tail, table, orphan) /\ done \in SUBSET Row
    BY DEF IInv, TypeOK
  <2>3. ChainInv(chain', tail', table', orphan')
    BY <2>1, <2>2, OrphanKeeps
  <2>4. TailDescribed' /\ SavedInv'
    BY <2>1 DEF IInv, TailDescribed, SavedInv
  <2>5. ChunkApart'
    BY <2>1 DEF ChunkApart, NoRows
  <2>6. ASSUME phase' # "unreadable"
        PROVE  FedInv(Fed', deleted', table', orphan', reused')
    <3>1. FedInv(Fed, deleted, table, orphan, reused) /\ Fed' = Fed
      BY <2>1, <2>6 DEF IInv, Fed
    <3>2. \A s \in Row : table'[s] = IF s \in done THEN Absent ELSE table[s]
      BY <2>1
    <3>3. \A s \in Row \ orphan' : s \notin orphan /\ (table[s] \in Box => table'[s] = table[s])
      BY <2>1, <3>2
    <3>4. QED BY <2>1, <3>1, <3>2, <3>3, MarkersAssumption DEF FedInv
  <2>7. QED BY <2>3, <2>4, <2>5, <2>6 DEF IInv
<1>3. QED BY <1>1, <1>2

\* Deleting rows.
LEMMA DeleteInv ==
    ASSUME IInv, TypeOK', NEW R \in SUBSET Row, Delete(R)
    PROVE  IInv'
<1>1. /\ deleted' = deleted \union R
      /\ chain' = Tombstoned(R)
      /\ table' = [r \in Row |-> IF r \in R THEN Absent ELSE table[r]]
      /\ orphan' = orphan \ R
      /\ chunk = NoRows
      /\ UNCHANGED <<phase, tree, gathered, tail, tail_count, chunk, reused, saved>>
  BY DEF Delete, call, Idle
<1>2. TypeOK /\ ChainInv(chain, tail, table, orphan) BY DEF IInv
<1>3. ChainInv(chain', tail', table', orphan') BY <1>1, <1>2, TombstoneKeeps
<1>4. TailDescribed'
  <2>1. \A s \in 1..tail : chain'[s].count = chain[s].count
    BY <1>1, <1>2, TombstoneSlots DEF ChainInv
  <2>2. tail # 0 => tail \in 1..tail
    BY <1>2 DEF TypeOK
  <2>3. QED BY <1>1, <2>1, <2>2 DEF IInv, TailDescribed
<1>5. ChunkApart' /\ SavedInv'
  BY <1>1 DEF IInv, ChunkApart, SavedInv, NoRows
<1>6. ASSUME phase' # "unreadable"
      PROVE  FedInv(Fed', deleted', table', orphan', reused')
  <2>1. FedInv(Fed, deleted, table, orphan, reused) /\ Fed' = Fed
    BY <1>1, <1>6 DEF IInv, Fed
  <2>2. \A s \in Row : table'[s] = IF s \in R THEN Absent ELSE table[s]
    BY <1>1
  <2>3. \A s \in Row \ deleted' : s \notin R /\ s \notin deleted /\ table'[s] = table[s]
                                  /\ (s \notin orphan' => s \notin orphan)
    BY <1>1, <2>2
  <2>4. \A s \in Row : table'[s] \in Box => table[s] = table'[s] /\ s \notin R
    BY <2>2, MarkersAssumption
  <2>5. QED BY <1>1, <2>1, <2>3, <2>4 DEF FedInv
<1>7. QED BY <1>3, <1>4, <1>5, <1>6 DEF IInv

\* Rebuilding the index from its stored image.
LEMMA RestartInv ==
    ASSUME IInv, TypeOK', Restart
    PROVE  IInv'
<1>1. CASE saved = {} BY <1>1, FreshInv DEF Restart
<1>2. ASSUME NEW image \in saved, Load(image) PROVE IInv'
  <2>1. /\ chain' = image.chain /\ tail' = image.tail
        /\ tail_count' = ReplayedTailCount(image.chain, image.tail)
        /\ deleted' = {} /\ reused' = {} /\ chunk' = NoRows
        /\ table' = image.table /\ orphan' = image.orphan /\ saved' = saved
        /\ phase' \in {"attached", "unreadable"}
        /\ phase' = "attached" => tree' = LoadedTree(image.chain, image.tail)
    BY <1>2 DEF Load, ReplayedTail
  <2>2. ChainInv(image.chain, image.tail, image.table, image.orphan)
    BY DEF IInv, SavedInv
  <2>3. /\ image.tail \in Nat /\ image.chain \in [1..image.tail -> Segment]
        /\ image.table \in [Row -> Value] /\ image.orphan \in SUBSET Row
    BY DEF IInv, TypeOK
  <2>4. ASSUME phase' # "unreadable"
        PROVE  FedInv(Fed', deleted', table', orphan', reused')
    <3>1. Fed' = LoadedTree(image.chain, image.tail)
      BY <2>1, <2>4 DEF Fed
    <3>2. QED BY <2>1, <2>2, <2>3, <3>1, LoadExact
  <2>5. TailDescribed' /\ ChunkApart'
    BY <2>1, <2>2 DEF TailDescribed, ReplayedTailCount, ChunkApart, NoRows
  <2>6. SavedInv'
    BY <2>1 DEF IInv, SavedInv
  <2>7. QED BY <2>1, <2>2, <2>4, <2>5, <2>6 DEF IInv
<1>3. QED BY <1>1, <1>2 DEF Restart

LEMMA InvStep == IInv /\ [Next]_vars => IInv'
<1> SUFFICES ASSUME IInv, [Next]_vars PROVE IInv'
  OBVIOUS
<1>0. TypeOK' BY TypeStep DEF IInv
<1>1. CASE Create BY <1>1, FreshInv DEF Create
<1>2. ASSUME NEW rows \in [Row -> Value], BeginAppend(rows) PROVE IInv'
  BY <1>0, <1>2
  DEF BeginAppend, memory, IInv, TailDescribed, Fed, ChunkApart, SavedInv
<1>3. ASSUME NEW r \in Row, SkipRow(r) PROVE IInv'
  <2>1. /\ table' = [table EXCEPT ![r] = NoBox]
        /\ chunk' = [chunk EXCEPT ![r] = Absent]
        /\ UNCHANGED <<phase, tree, gathered, deleted, chain, tail, tail_count, orphan, reused, saved>>
    BY <1>3 DEF SkipRow, memory
  <2>2. table[r] = Absent
    BY <1>3, MarkersAssumption DEF SkipRow, IInv, ChunkApart
  <2>3. \A s \in Row : /\ table'[s] = IF s = r THEN NoBox ELSE table[s]
                       /\ table'[s] \in Box <=> table[s] \in Box
                       /\ table[s] \in Box => table'[s] = table[s]
    BY <2>1, <2>2, MarkersAssumption DEF IInv, TypeOK
  <2>4. ChainInv(chain', tail', table', orphan')
    <3>1. \A p \in Slots(chain, tail) : EntryAt(chain, p)[2] \in Box
      BY SlotsRecorded DEF IInv, ChainInv, TypeOK
    <3>2. QED BY <2>1, <2>3, <3>1 DEF IInv, ChainInv, Holds, Only
  <2>5. phase' # "unreadable" => FedInv(Fed', deleted', table', orphan', reused')
    BY <2>1, <2>3 DEF IInv, FedInv, Fed
  <2>6. TailDescribed' /\ ChunkApart' /\ SavedInv'
    BY <2>1, <2>3 DEF IInv, TailDescribed, ChunkApart, SavedInv, TypeOK
  <2>7. QED BY <1>0, <2>4, <2>5, <2>6 DEF IInv
<1>4. ASSUME NEW r \in Row, IndexRow(r) PROVE IInv'
  BY <1>0, <1>4, IndexRowInv
<1>5. ASSUME NEW r \in Row, RaiseRow(r) PROVE IInv'
  BY <1>0, <1>5, RaiseRowInv
<1>6. CASE EndAppend
  BY <1>0, <1>6 DEF EndAppend, memory, IInv, TailDescribed, Fed, ChunkApart, SavedInv
<1>7. CASE FinishBulkConstruct
  <2>1. CASE BulkTotal > LoadLimit BY <1>7, <2>1, FreshInv DEF FinishBulkConstruct
  <2>2. CASE ~ (BulkTotal > LoadLimit)
    <3>1. Fed' = Fed
      BY <1>7, <2>2 DEF FinishBulkConstruct, Fed
    <3>2. QED
      BY <1>0, <1>7, <2>2, <3>1
      DEF FinishBulkConstruct, call, IInv, TailDescribed, ChunkApart, SavedInv
  <2>3. QED BY <2>1, <2>2
<1>8. ASSUME NEW R \in SUBSET Row, Delete(R) PROVE IInv'
  BY <1>0, <1>8, DeleteInv
<1>9. CASE Serialize
  <2>1. saved' = {[chain |-> chain, tail |-> tail, table |-> table, orphan |-> orphan]}
    BY <1>9 DEF Serialize
  <2>2. SavedInv'
    BY <2>1 DEF IInv, SavedInv
  <2>3. QED
    BY <1>0, <1>9, <2>2 DEF Serialize, memory, call, IInv, TailDescribed, Fed, ChunkApart
<1>10. CASE Restart BY <1>0, <1>10, RestartInv
<1>11. CASE ResetStorage BY <1>11, FreshInv DEF ResetStorage
<1>12. CASE UNCHANGED vars
  BY <1>0, <1>12 DEF vars, memory, call, IInv, TailDescribed, Fed, ChunkApart, SavedInv
<1>13. QED
  BY <1>1, <1>2, <1>3, <1>4, <1>5, <1>6, <1>7, <1>8, <1>9, <1>10, <1>11, <1>12 DEF Next

LEMMA InvHolds == Spec => []IInv
<1>1. Init => IInv
  <2> SUFFICES ASSUME Init PROVE IInv
    OBVIOUS
  <2>1. TypeOK
    BY SizeAssumption DEF Init, TypeOK, NoEntries, NoRows, Value, Entry
  <2>2. ChainInv(chain, tail, table, orphan) BY EmptyExact DEF Init
  <2>3. FedInv(Fed, deleted, table, orphan, reused) BY EmptyExact DEF Init, Fed
  <2>4. TailDescribed /\ ChunkApart /\ SavedInv
    BY DEF Init, TailDescribed, ChunkApart, NoRows, SavedInv
  <2>5. QED BY <2>1, <2>2, <2>3, <2>4 DEF IInv
<1>2. QED BY <1>1, InvStep, PTL DEF Spec

-----------------------------------------------------------------------------
(* What the runs check on small instances, for every instance.              *)

\* A hit is an entry of the tree whose row is live and whose box is accepted.
LEMMA HitsOf ==
    ASSUME TypeOK, NEW Q \in SUBSET Box, NEW outcome \in Search(Q)
    PROVE  /\ outcome.raised \/ outcome.hits = Found(Q)
           /\ \A h \in outcome.hits :
                 /\ h = <<h[1], h[2]>> /\ h[1] = <<h[1][1], h[1][2]>>
                 /\ h[1][1] \in Row \ deleted /\ h[1][2] \in Q
                 /\ h[2] \in 1 .. tree[h[1]]
                 /\ tree[h[1]] \in Nat
<1>0. \/ outcome = [raised |-> FALSE, hits |-> Found(Q)]
      \/ outcome \in [raised : {TRUE}, hits : SUBSET Found(Q)]
  BY DEF Search
<1>1. (outcome.raised \/ outcome.hits = Found(Q)) /\ outcome.hits \subseteq Found(Q)
  <2>1. CASE outcome = [raised |-> FALSE, hits |-> Found(Q)]
    <3>1. outcome.hits = Found(Q)
      BY <2>1
    <3> QED BY <3>1
  <2>2. CASE outcome \in [raised : {TRUE}, hits : SUBSET Found(Q)]
    <3>1. outcome.raised = TRUE
      BY <2>2
    <3>2. outcome.hits \subseteq Found(Q)
      BY <2>2
    <3> QED BY <3>1, <3>2
  <2> QED BY <1>0, <2>1, <2>2
<1>3. ASSUME NEW h \in Found(Q)
      PROVE  /\ h = <<h[1], h[2]>> /\ h[1] = <<h[1][1], h[1][2]>>
             /\ h[1][1] \in Row \ deleted /\ h[1][2] \in Q
             /\ h[2] \in 1 .. tree[h[1]]
  <2>1. PICK e \in (Row \ deleted) \X Q : h \in {e} \X (1..tree[e])
    BY DEF Found
  <2>2. h = <<h[1], h[2]>> /\ h[1] = e /\ h[2] \in 1 .. tree[e]
    BY <2>1
  <2>3. e = <<e[1], e[2]>> /\ e[1] \in Row \ deleted /\ e[2] \in Q
    BY <2>1
  <2> QED BY <2>2, <2>3
<1>4. ASSUME NEW h \in Found(Q) PROVE tree[h[1]] \in Nat
  BY <1>3 DEF TypeOK, Entry
<1> QED BY <1>1, <1>3, <1>4

\* A row that is live and was fed with an accepted box is among the hits.
LEMMA FedIsFound ==
    ASSUME TypeOK, NEW Q \in SUBSET Box, NEW r \in Row \ deleted, NEW b \in Q,
           tree[<<r, b>>] > 0, NEW outcome \in Search(Q), ~ outcome.raised
    PROVE  r \in Answered(outcome)
<1>1. <<r, b>> \in Entry /\ tree[<<r, b>>] \in Nat
  BY DEF TypeOK, Entry
<1>2. 1 \in 1 .. tree[<<r, b>>]
  BY <1>1
<1>3. <<<<r, b>>, 1>> \in Found(Q)
  BY <1>2 DEF Found
<1>4. <<<<r, b>>, 1>> \in outcome.hits
  BY <1>3, HitsOf
<1> QED BY <1>4 DEF Answered

\* What a search answers, against what a table holds: each row with a box the
\* query accepts, from that box and once, and no other row but those of extra.
\* A search that raised answers a part of it.
Answers(Q, tab, extra) ==
    \A outcome \in Search(Q) :
        /\ outcome.raised \/ {r \in Row : tab[r] \in Q} \subseteq Answered(outcome)
        /\ \A h \in outcome.hits :
              h[1][1] \notin extra => /\ tab[h[1][1]] \in Q
                                     /\ h = <<<<h[1][1], tab[h[1][1]]>>, 1>>

\* What was fed answers for the table, but for the rows reused or left behind.
LEMMA FedAnswers ==
    ASSUME TypeOK, NEW tab, NEW orph, NEW re, FedInv(tree, deleted, tab, orph, re),
           NEW Q \in SUBSET Box
    PROVE  Answers(Q, tab, re \union orph)
<1>1. ASSUME NEW outcome \in Search(Q), ~ outcome.raised, NEW r \in Row, tab[r] \in Q
      PROVE  r \in Answered(outcome)
  <2>1. r \in Row \ deleted /\ tree[<<r, tab[r]>>] > 0
    BY <1>1 DEF FedInv
  <2> QED BY <1>1, <2>1, FedIsFound
<1>2. ASSUME NEW outcome \in Search(Q), NEW h \in outcome.hits, h[1][1] \notin re \union orph
      PROVE  tab[h[1][1]] \in Q /\ h = <<<<h[1][1], tab[h[1][1]]>>, 1>>
  <2>1. /\ h = <<h[1], h[2]>> /\ h[1] = <<h[1][1], h[1][2]>>
        /\ h[1][1] \in Row \ deleted /\ h[1][2] \in Q
        /\ h[2] \in 1 .. tree[h[1]] /\ tree[h[1]] \in Nat
    BY <1>2, HitsOf
  <2>2. h[2] \in Nat /\ 1 <= h[2] /\ h[2] <= tree[h[1]]
    BY <2>1
  <2>3. tree[h[1]] > 0
    BY <2>1, <2>2
  <2>4. tree[<<h[1][1], h[1][2]>>] = tree[h[1]]
    BY <2>1
  <2>5. h[1][1] \in Row \ (deleted \union orph \union re) /\ h[1][2] \in Box
    BY <1>2, <2>1
  <2>6. tree[h[1]] <= 1 /\ tab[h[1][1]] = h[1][2]
    BY <2>3, <2>4, <2>5 DEF FedInv
  <2>7. h[2] = 1
    BY <2>1, <2>2, <2>6
  <2> QED BY <2>1, <2>6, <2>7
<1> QED BY <1>1, <1>2 DEF Answers

\* A search that does not raise misses no row of the table.
THEOREM SearchIsComplete == Spec => []SearchComplete
<1>1. IInv => SearchComplete
  <2>1. SUFFICES ASSUME IInv, phase = "attached", NEW r \in Row, table[r] \in Box,
                        NEW outcome \in Search({table[r]}), ~ outcome.raised
                 PROVE  r \in Answered(outcome)
    BY DEF SearchComplete
  <2>2. r \in Row \ deleted /\ tree[<<r, table[r]>>] > 0
    BY <2>1 DEF IInv, FedInv, Fed
  <2> QED BY <2>1, <2>2, FedIsFound DEF IInv
<1>2. QED BY <1>1, InvHolds, PTL

\* No search answers a row id that is out of the table, orphans excepted.
THEOREM SearchFiltersDeleted == Spec => []NoDeletedAnswer
<1>1. IInv => NoDeletedAnswer
  <2>1. SUFFICES ASSUME IInv, phase = "attached", NEW outcome \in Search(Box),
                        NEW h \in outcome.hits, h[1][1] \notin orphan
                 PROVE  table[h[1][1]] \in Box
    BY DEF NoDeletedAnswer, Answered
  <2>2. /\ h[1] = <<h[1][1], h[1][2]>>
        /\ h[1][1] \in Row \ deleted /\ h[1][2] \in Box
        /\ h[2] \in 1 .. tree[h[1]] /\ tree[h[1]] \in Nat
    BY <2>1, HitsOf DEF IInv
  <2>3. tree[<<h[1][1], h[1][2]>>] > 0
    BY <2>2
  <2> QED BY <2>1, <2>2, <2>3 DEF IInv, FedInv, Fed
<1>2. QED BY <1>1, InvHolds, PTL

\* A wrong or repeated answer needs a reused row id or a failed append.
THEOREM SearchIsExactUnlessReused == Spec => []ExactUnlessReused
<1>1. IInv => ExactUnlessReused
  <2>1. SUFFICES ASSUME IInv, phase = "attached" PROVE ExactUnlessReused
    BY DEF ExactUnlessReused
  <2>2. Answers(Box, table, reused \union orphan)
    BY <2>1, FedAnswers DEF IInv, Fed
  <2> QED BY <2>2 DEF Answers, ExactUnlessReused
<1>2. QED BY <1>1, InvHolds, PTL

\* Whatever the query accepts, a search answers for the table, but for ids given
\* out again since the tree was built and rows a failed append left behind, and
\* for what is missing when MEOS raised.
AnswersTheTable ==
    phase = "attached" =>
        \A Q \in SUBSET Box : Answers(Q, table, reused \union orphan)

LEMMA InvAnswers == IInv => AnswersTheTable
BY FedAnswers DEF IInv, Fed, AnswersTheTable

THEOREM SearchAnswersTheTable == Spec => []AnswersTheTable
BY InvAnswers, InvHolds, PTL

\* A restart forgets the reuse: the tree it builds answers for the table as it was
\* at the save, even of the ids that were given out again before it (ReplayEntries
\* feeds the live entries only).
ReloadAnswers ==
    Restart /\ phase' = "attached" =>
        \E i \in saved : \A Q \in SUBSET Box : Answers(Q, i.table, i.orphan)'
ReloadAnswersTheTable == [][ReloadAnswers]_vars

THEOREM ReloadIsExact == Spec => ReloadAnswersTheTable
<1>1. IInv /\ [Next]_vars => [ReloadAnswers]_vars
  <2> SUFFICES ASSUME IInv, [Next]_vars, Restart, phase' = "attached"
               PROVE  \E i \in saved : \A Q \in SUBSET Box : Answers(Q, i.table, i.orphan)'
    BY DEF ReloadAnswers
  <2>1. PICK i \in saved : Load(i)
    BY DEF Restart, Fresh
  <2>2. table' = i.table /\ orphan' = i.orphan /\ reused' = {}
    BY <2>1 DEF Load
  <2>3. AnswersTheTable'
    <3>1. IInv'
      BY InvStep
    <3> QED BY <3>1, InvAnswers, PTL
  <2>4. ASSUME NEW Q \in SUBSET Box PROVE Answers(Q, i.table, i.orphan)'
    BY <2>2, <2>3 DEF AnswersTheTable, Answers
  <2> QED BY <2>4
<1> QED BY <1>1, InvHolds, PTL DEF Spec, ReloadAnswersTheTable

\* The chain stays a list of full segments with a well described last one.
THEOREM ChainStaysShaped == Spec => []ChainShape
<1>1. IInv => ChainShape
  BY MarkersAssumption DEF IInv, ChainShape, TailDescribed, ChainInv, WellShaped, Recorded
<1>2. QED BY <1>1, InvHolds, PTL

\* The persisted chain holds exactly the table, each row once.
THEOREM ChainStaysExact == Spec => []ChainExact
<1>1. IInv => ChainExact
  <2> SUFFICES ASSUME IInv, NEW r \in Row \ orphan
               PROVE  LET held == {p \in Slots(chain, tail) : EntryAt(chain, p)[1] = r}
                      IN  IF table[r] \in Box
                          THEN \E p \in held : held = {p} /\ EntryAt(chain, p)[2] = table[r]
                          ELSE held = {}
    BY DEF ChainExact
  <2> DEFINE held == {p \in Slots(chain, tail) : EntryAt(chain, p)[1] = r}
  <2>1. \A p \in held : table[r] = EntryAt(chain, p)[2] /\ EntryAt(chain, p)[2] \in Box
    BY SlotsRecorded DEF IInv, ChainInv, Only, TypeOK
  <2>2. \A p, q \in held : p = q
    BY DEF IInv, ChainInv, Once
  <2>3. CASE table[r] \in Box
    <3>1. PICK p \in held : EntryAt(chain, p) = <<r, table[r]>>
      BY <2>3 DEF IInv, ChainInv, Holds
    <3>2. held = {p} BY <2>2, <3>1
    <3>3. QED BY <2>3, <3>1, <3>2
  <2>4. CASE table[r] \notin Box BY <2>1, <2>4
  <2>5. QED BY <2>3, <2>4
<1>2. QED BY <1>1, InvHolds, PTL

\* A recorded entry is never overwritten nor its segment lost while the index
\* lives: its slot keeps it until a delete tombstones it.
THEOREM RecordedEntriesKept == Spec => KeepsRecorded
<1> DEFINE Kept ==
        phase # "none" /\ phase' # "none" /\ ~ Restart =>
            \A p \in Slots(chain, tail) :
                /\ p \in Slots(chain', tail')
                /\ EntryAt(chain', p) \in {EntryAt(chain, p),
                                           <<Tombstone, EntryAt(chain, p)[2]>>}
<1>1. IInv /\ [Next]_vars => Kept
  <2> SUFFICES ASSUME IInv, [Next]_vars PROVE Kept
    OBVIOUS
  <2>1. CASE UNCHANGED <<chain, tail>> BY <2>1 DEF Slots, EntryAt
  <2>2. ASSUME NEW r \in Row, IndexRow(r) PROVE Kept
    <3>1. <<r, chunk[r]>> \in Entry BY <2>2 DEF IndexRow, Entry
    <3>2. chain' = RecordedChain(<<r, chunk[r]>>) /\ tail' = RecordedTail
      BY <2>2 DEF IndexRow, RecordEntry
    <3>3. QED BY <3>1, <3>2, RecordSlots DEF IInv, ChainInv
  <2>3. ASSUME NEW R \in SUBSET Row, Delete(R) PROVE Kept
    <3>1. chain' = Tombstoned(R) /\ tail' = tail BY <2>3 DEF Delete
    <3>2. QED BY <3>1, TombstoneSlots DEF IInv, ChainInv
  <2>4. CASE Create \/ ResetStorage \/ Restart
    BY <2>4 DEF Create, ResetStorage, Fresh
  <2>5. ASSUME NEW r \in Row, RaiseRow(r) PROVE Kept
    BY <2>5, <2>1 DEF RaiseRow, Fresh, memory
  <2>6. CASE FinishBulkConstruct
    BY <2>6, <2>1 DEF FinishBulkConstruct, Fresh
  <2>7. CASE UNCHANGED vars BY <2>7, <2>1 DEF vars, memory
  <2>8. ASSUME NEW rows \in [Row -> Value], BeginAppend(rows) PROVE Kept
    BY <2>8, <2>1 DEF BeginAppend, memory
  <2>9. ASSUME NEW r \in Row, SkipRow(r) PROVE Kept
    BY <2>9, <2>1 DEF SkipRow, memory
  <2>10. CASE EndAppend \/ Serialize
    BY <2>10, <2>1 DEF EndAppend, Serialize, memory
  <2>11. QED
    BY <2>2, <2>3, <2>4, <2>5, <2>6, <2>7, <2>8, <2>9, <2>10 DEF Next
<1>2. QED BY <1>1, InvHolds, PTL DEF Spec, KeepsRecorded

-----------------------------------------------------------------------------
(* The chain implements EntryStore.                                          *)

\* Recording an entry adds it to what a load reads, and changes nothing else.
LEMMA RecordAdds ==
    ASSUME TypeOK, TailDescribed, WellShaped(chain, tail), NEW e \in Entry
    PROVE  LoadedTree(RecordedChain(e), RecordedTail)
             = [LoadedTree(chain, tail) EXCEPT ![e] = @ + 1]
<1> DEFINE c == RecordedChain(e)
           n == RecordedTail
           p == <<n, SlotPosition>>
<1>1. /\ p \notin Slots(chain, tail)
      /\ Slots(c, n) = Slots(chain, tail) \union {p}
      /\ EntryAt(c, p) = e
      /\ \A q \in Slots(chain, tail) : EntryAt(c, q) = EntryAt(chain, q)
  BY RecordSlots
<1> HIDE DEF c, n, p
<1>2. Holders(c, n, e) = Holders(chain, tail, e) \union {p}
  BY <1>1 DEF Holders
<1>3. p \notin Holders(chain, tail, e)
  BY <1>1 DEF Holders
<1>4. IsFiniteSet(Holders(chain, tail, e))
  BY HoldersFinite DEF TypeOK
<1>5. Cardinality(Holders(c, n, e)) = Cardinality(Holders(chain, tail, e)) + 1
  BY <1>2, <1>3, <1>4, FS_AddElement
<1>6. \A x \in Entry : x # e => Holders(c, n, x) = Holders(chain, tail, x)
  BY <1>1 DEF Holders
<1>7. QED BY <1>5, <1>6 DEF LoadedTree, c, n

\* Tombstoning takes the entries of the deleted rows from what a load reads.
LEMMA TombstoneRemoves ==
    ASSUME TypeOK, WellShaped(chain, tail), NEW R \in SUBSET Row
    PROVE  LoadedTree(Tombstoned(R), tail)
             = [e \in Entry |-> IF e[1] \in R THEN 0 ELSE LoadedTree(chain, tail)[e]]
<1> DEFINE c == Tombstoned(R)
<1>1. /\ Slots(c, tail) = Slots(chain, tail)
      /\ \A q \in Slots(chain, tail) :
           EntryAt(c, q) = IF EntryAt(chain, q)[1] \in R
                           THEN <<Tombstone, EntryAt(chain, q)[2]>>
                           ELSE EntryAt(chain, q)
  BY TombstoneSlots
<1> HIDE DEF c
<1>2. ASSUME NEW e \in Entry
      PROVE  Cardinality(Holders(c, tail, e))
               = IF e[1] \in R THEN 0 ELSE Cardinality(Holders(chain, tail, e))
  <2>1. e[1] \in Row BY DEF Entry
  <2>2. CASE e[1] \in R
    <3>1. Holders(c, tail, e) = {}
      BY <1>1, <2>1, <2>2, MarkersAssumption DEF Holders
    <3>2. QED BY <2>2, <3>1, FS_EmptySet
  <2>3. CASE e[1] \notin R
    <3>1. Holders(c, tail, e) = Holders(chain, tail, e)
      BY <1>1, <2>1, <2>3, MarkersAssumption DEF Holders
    <3>2. QED BY <2>3, <3>1
  <2>4. QED BY <2>2, <2>3
<1>3. QED BY <1>2 DEF LoadedTree, c

\* An empty chain loads no entry.
LEMMA EmptyLoads == LoadedTree(<< >>, 0) = [e \in Row \X Box |-> 0]
<1>1. \A e : Holders(<< >>, 0, e) = {} BY DEF Holders, Slots
<1>2. QED BY <1>1, FS_EmptySet DEF LoadedTree, Entry

\* Read through a reload, the segments are the durable collection of EntryStore:
\* recording adds one entry, deleting removes the entries of the rows named, and
\* a restart brings back what was saved.
THEOREM ChainImplementsStore == Spec => ImplementsEntryStore
<1> DEFINE entries == LoadedTree(chain, tail)
           image == {LoadedTree(i.chain, i.tail) : i \in saved}
<1>1. Init => Store!Init
  BY EmptyLoads DEF Init, Store!Init, Store!Empty
<1>2. IInv /\ [Next]_vars => [Store!Next]_<<entries, image>>
  <2> SUFFICES ASSUME IInv, [Next]_vars PROVE [Store!Next]_<<entries, image>>
    OBVIOUS
  <2>1. CASE UNCHANGED <<chain, tail, saved>>
    BY <2>1
  <2>2. ASSUME NEW p \in {"none", "building"}, Fresh(p)
        PROVE  Store!Next
    <3>1. chain' = << >> /\ tail' = 0 /\ saved' = {} BY <2>2 DEF Fresh
    <3>2. entries' = [e \in Row \X Box |-> 0] /\ image' = {}
      BY <3>1, EmptyLoads
    <3>3. QED BY <3>2 DEF Store!Next, Store!Discard, Store!Empty
  <2>3. ASSUME NEW r \in Row, IndexRow(r) PROVE Store!Next
    <3>1. <<r, chunk[r]>> \in Entry BY <2>3 DEF IndexRow, Entry
    <3>2. chain' = RecordedChain(<<r, chunk[r]>>) /\ tail' = RecordedTail /\ saved' = saved
      BY <2>3 DEF IndexRow, RecordEntry
    <3>3. entries' = [entries EXCEPT ![<<r, chunk[r]>>] = @ + 1]
      BY <3>1, <3>2, RecordAdds DEF IInv, ChainInv
    <3>4. Store!Add(<<r, chunk[r]>>)
      BY <3>2, <3>3 DEF Store!Add
    <3>5. QED BY <3>1, <3>4 DEF Store!Next, Entry
  <2>4. ASSUME NEW R \in SUBSET Row, Delete(R) PROVE Store!Next
    <3>1. chain' = Tombstoned(R) /\ tail' = tail /\ saved' = saved BY <2>4 DEF Delete
    <3>2. entries' = [e \in Row \X Box |-> IF e[1] \in R THEN 0 ELSE entries[e]]
      BY <3>1, TombstoneRemoves DEF IInv, ChainInv, Entry
    <3>3. Store!Remove(R) BY <3>1, <3>2 DEF Store!Remove
    <3>4. QED BY <3>3 DEF Store!Next
  <2>5. CASE Serialize
    <3>1. /\ chain' = chain /\ tail' = tail
          /\ saved' = {[chain |-> chain, tail |-> tail, table |-> table, orphan |-> orphan]}
      BY <2>5 DEF Serialize, memory
    <3>2. image' = {entries} /\ entries' = entries BY <3>1
    <3>3. QED BY <3>2 DEF Store!Next, Store!Save
  <2>6. ASSUME NEW i \in saved, Load(i) PROVE Store!Next
    <3>1. chain' = i.chain /\ tail' = i.tail /\ saved' = saved
      BY <2>6 DEF Load, ReplayedTail
    <3>2. entries' \in image /\ image' = image BY <3>1
    <3>3. QED BY <3>2 DEF Store!Next, Store!Recover
  <2>7. CASE Create \/ ResetStorage
    BY <2>2, <2>7 DEF Create, ResetStorage
  <2>8. CASE Restart BY <2>2, <2>6, <2>8 DEF Restart
  <2>9. ASSUME NEW r \in Row, RaiseRow(r) PROVE [Store!Next]_<<entries, image>>
    BY <2>1, <2>2, <2>9 DEF RaiseRow, memory
  <2>10. CASE FinishBulkConstruct
    BY <2>1, <2>2, <2>10 DEF FinishBulkConstruct
  <2>11. ASSUME NEW rows \in [Row -> Value], BeginAppend(rows)
         PROVE  [Store!Next]_<<entries, image>>
    BY <2>1, <2>11 DEF BeginAppend, memory
  <2>12. ASSUME NEW r \in Row, SkipRow(r) PROVE [Store!Next]_<<entries, image>>
    BY <2>1, <2>12 DEF SkipRow, memory
  <2>13. CASE EndAppend BY <2>1, <2>13 DEF EndAppend, memory
  <2>14. CASE UNCHANGED vars BY <2>1, <2>14 DEF vars, memory
  <2>15. QED
    BY <2>3, <2>4, <2>5, <2>7, <2>8, <2>9, <2>10, <2>11, <2>12, <2>13, <2>14 DEF Next
<1>3. QED BY <1>1, <1>2, InvHolds, PTL DEF Spec, ImplementsEntryStore, Store!Spec

-----------------------------------------------------------------------------
(* What refuses to load.                                                    *)

\* A refused image stays as it was read, with more live entries than one load
\* takes.
Refused ==
    phase = "unreadable" =>
        /\ chunk = NoRows /\ done = {}
        /\ ~ (Cardinality(LiveSlots(chain, tail)) <= LoadLimit)

\* Only a restart refuses an image, and only a restart leaves the refusal.
LEMMA RefusedStep == Refused /\ [Next]_vars => Refused'
<1> SUFFICES ASSUME Refused, [Next]_vars PROVE Refused'
  OBVIOUS
<1>1. ASSUME NEW p, p # "unreadable", Fresh(p) PROVE Refused'
  BY <1>1 DEF Refused, Fresh
<1>2. ASSUME NEW r \in Row, phase = "unreadable" PROVE chunk[r] = Absent
  BY <1>2 DEF Refused, NoRows
<1>3. CASE Create
  BY <1>1, <1>3 DEF Create
<1>4. ASSUME NEW rows \in [Row -> Value], BeginAppend(rows) PROVE Refused'
  BY <1>4 DEF BeginAppend, Refused
<1>5. ASSUME NEW r \in Row, SkipRow(r) \/ IndexRow(r) \/ RaiseRow(r) PROVE Refused'
  <2>1. phase # "unreadable"
    BY <1>2, <1>5, RaisesAssumption, MarkersAssumption DEF SkipRow, IndexRow, RaiseRow
  <2>2. CASE phase = "building" /\ RaiseRow(r)
    BY <1>1, <2>2 DEF RaiseRow
  <2>3. CASE ~ (phase = "building" /\ RaiseRow(r))
    BY <1>5, <2>1, <2>3 DEF SkipRow, IndexRow, RaiseRow, memory, Refused
  <2> QED BY <2>2, <2>3
<1>6. CASE EndAppend
  BY <1>6 DEF EndAppend, Refused
<1>7. CASE FinishBulkConstruct
  <2>1. CASE BulkTotal > LoadLimit
    BY <1>1, <1>7, <2>1 DEF FinishBulkConstruct
  <2>2. CASE ~ (BulkTotal > LoadLimit)
    BY <1>7, <2>2 DEF FinishBulkConstruct, Refused
  <2> QED BY <2>1, <2>2
<1>8. ASSUME NEW R \in SUBSET Row, Delete(R) PROVE Refused'
  BY <1>8 DEF Delete, Refused
<1>9. CASE Serialize
  BY <1>9 DEF Serialize, Refused
<1>10. CASE Restart
  <2>1. CASE saved = {}
    BY <1>1, <1>10, <2>1 DEF Restart
  <2>2. CASE saved # {}
    <3>1. PICK image \in saved : Load(image)
      BY <1>10, <2>2 DEF Restart
    <3>2. /\ chain' = image.chain /\ tail' = image.tail
          /\ chunk' = NoRows /\ done' = {}
          /\ phase' = "unreadable" =>
               ~ (Cardinality(LiveSlots(image.chain, image.tail)) <= LoadLimit)
      BY <3>1 DEF Load, ReplayedTail
    <3>3. LiveSlots(chain, tail)' = LiveSlots(image.chain, image.tail)
      BY <3>2 DEF LiveSlots, Slots, EntryAt
    <3> QED BY <3>2, <3>3 DEF Refused
  <2> QED BY <2>1, <2>2
<1>11. CASE ResetStorage
  BY <1>1, <1>11 DEF ResetStorage
<1>12. CASE UNCHANGED vars
  BY <1>12 DEF vars, memory, call, Refused
<1> QED BY <1>3, <1>4, <1>5, <1>6, <1>7, <1>8, <1>9, <1>10, <1>11, <1>12 DEF Next

\* The live entries of a chain are of as many rows, which the table holds, if no
\* append left one behind.
LEMMA LiveAreHeld ==
    ASSUME TypeOK, ChainInv(chain, tail, table, orphan), orphan = {}
    PROVE  /\ Cardinality(LiveSlots(chain, tail)) \in Nat
           /\ Cardinality({r \in Row : table[r] \in Box}) \in Nat
           /\ Cardinality(LiveSlots(chain, tail)) <= Cardinality({r \in Row : table[r] \in Box})
<1> DEFINE live == LiveSlots(chain, tail)
           held == {r \in Row : table[r] \in Box}
           owner == [p \in live |-> EntryAt(chain, p)[1]]
<1>1. ASSUME NEW p \in live
      PROVE  p \in Slots(chain, tail) /\ owner[p] = EntryAt(chain, p)[1] /\ owner[p] \in held
  <2>1. p \in Slots(chain, tail) /\ EntryAt(chain, p)[1] # Tombstone
    BY DEF LiveSlots
  <2>2. EntryAt(chain, p)[1] \in Row /\ EntryAt(chain, p)[2] \in Box
    BY <2>1, SlotsRecorded DEF ChainInv, TypeOK
  <2> QED BY <2>1, <2>2 DEF ChainInv, Only
<1>2. ASSUME NEW p \in live, NEW q \in live, owner[p] = owner[q] PROVE p = q
  BY <1>1, <1>2 DEF ChainInv, Once
<1>3. owner \in Injection(live, held)
  BY <1>1, <1>2 DEF Injection, IsInjective
<1>4. IsFiniteSet(held)
  BY FiniteAssumption, FS_Subset
<1> HIDE DEF live, held, owner
<1>5. IsFiniteSet(live) /\ Cardinality(live) <= Cardinality(held)
  BY <1>3, <1>4, FS_Injection
<1> QED BY <1>4, <1>5, FS_CardinalityType DEF live, held

\* An image is refused only for the rows of the table, whatever was deleted
\* before the save (ReplayEntries).
THEOREM RefusalIsForTheTable == Spec => []RefusedOnlyOverLimit
<1>1. Init => Refused
  BY DEF Init, Refused
<1>2. IInv /\ Refused => RefusedOnlyOverLimit
  <2>1. SUFFICES ASSUME IInv, Refused, phase = "unreadable", orphan = {}
                 PROVE  Cardinality({r \in Row : table[r] \in Box}) > LoadLimit
    BY DEF RefusedOnlyOverLimit
  <2>2. ~ (Cardinality(LiveSlots(chain, tail)) <= LoadLimit)
    BY <2>1 DEF Refused
  <2> QED BY <2>1, <2>2, LiveAreHeld, LimitAssumption DEF IInv
<1> QED BY <1>1, <1>2, InvHolds, RefusedStep, PTL DEF Spec
=============================================================================
