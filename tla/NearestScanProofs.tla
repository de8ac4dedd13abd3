-------------------------- MODULE NearestScanProofs --------------------------
(***************************************************************************)
(* The nearest-neighbour scan stops early without losing a nearer row, for *)
(* any table, any lower bounds and any limit.                              *)
(***************************************************************************)
EXTENDS NearestScan, FiniteSetTheorems, SequenceTheorems, WellFoundedInduction, TLAPS

-----------------------------------------------------------------------------
(* Sets, and the order of the heap.                                        *)

\* A set of numbers has a least one.
LEMMA Least ==
    ASSUME NEW T \in SUBSET Nat, T # {}
    PROVE  \E x \in T : \A y \in T : x <= y
<1>1. PICK x \in T : \A y \in T : <<y, x>> \notin OpToRel(<, Nat)
  BY NatLessThanWellFounded, WFMin
<1>2. \A y \in T : ~ (y < x)
  BY <1>1 DEF OpToRel
<1> QED BY <1>2

\* The entries are finitely many.
LEMMA EntriesFinite == IsFiniteSet(Entry)
<1>1. IsFiniteSet(Row \X {"current"})
  BY RowAssumption, FS_Singleton, FS_Product
<1>2. IsFiniteSet(Reused) /\ IsFiniteSet(Reused \X {"stale"})
  BY RowAssumption, FS_Subset, FS_Singleton, FS_Product
<1> QED BY <1>1, <1>2, FS_Union DEF Entry

\* An entry is one of a row, and each row has its current one.
LEMMA EntryOfRow ==
    /\ \A e \in Entry : e[1] \in Row /\ e[1] \in Int
    /\ \A r \in Row : <<r, "current">> \in Entry
    /\ \A e \in Entry : e[2] = "stale" \/ e = <<e[1], "current">>
<1>1. \A r \in Row : <<r, "current">> \in Entry
  BY DEF Entry
<1>2. ASSUME NEW e \in Entry
      PROVE  e[1] \in Row /\ e[1] \in Int /\ (e[2] = "stale" \/ e = <<e[1], "current">>)
  <2>1. CASE e \in Row \X {"current"}
    <3>1. PICK r \in Row : e = <<r, "current">>
      BY <2>1
    <3> QED BY <3>1, RowAssumption
  <2>2. CASE e \in Reused \X {"stale"}
    <3>1. PICK r \in Reused : e = <<r, "stale">>
      BY <2>2
    <3> QED BY <3>1, RowAssumption
  <2> QED BY <2>1, <2>2 DEF Entry
<1> QED BY <1>1, <1>2

\* A distance is none of the markers.
LEMMA Markers == Distance \subseteq Nat /\ Distance \cap {Hidden, Null, Raises, Absent} = {}
BY DistanceAssumption, MarkersAssumption DEF Distance, Absent

\* What is not worse than what is not worse.
LEMMA WorseTransitive ==
    ASSUME NEW e \in Entry, NEW f \in Entry, NEW g \in Entry,
           ExactDistance(e) \in Nat, ExactDistance(f) \in Nat, ExactDistance(g) \in Nat,
           ~ WorseThan(e, f), ~ WorseThan(f, g)
    PROVE  ~ WorseThan(e, g)
BY EntryOfRow DEF WorseThan

\* A sequence of a set meets each of its elements.
LEMMA SeqMeetsAll ==
    ASSUME NEW S, IsFiniteSet(S), NEW s \in SetToSeqs(S)
    PROVE  /\ s \in Seq(S) /\ Len(s) = Cardinality(S) /\ DOMAIN s = 1 .. Cardinality(S)
           /\ \A i, j \in DOMAIN s : i # j => s[i] # s[j]
           /\ \A e \in S : \E i \in DOMAIN s : s[i] = e
<1> DEFINE n == Cardinality(S)
<1>1. n \in Nat
  BY FS_CardinalityType
<1>2. s \in [1 .. n -> S] /\ \A i, j \in 1 .. n : i # j => s[i] # s[j]
  BY DEF SetToSeqs
<1>3. IsFiniteSet(1 .. n) /\ Cardinality(1 .. n) = n
  BY <1>1, FS_Interval
<1>4. s \in Injection(1 .. n, S)
  BY <1>2 DEF Injection, IsInjective
<1>5. s \in Surjection(1 .. n, S)
  BY <1>3, <1>4, FS_Injection
<1>6. \A e \in S : \E i \in 1 .. n : s[i] = e
  BY <1>5 DEF Surjection
<1>7. s \in Seq(S) /\ Len(s) = n
  BY <1>1, <1>2
<1> QED BY <1>2, <1>6, <1>7

-----------------------------------------------------------------------------
(* The invariant.                                                          *)

\* What the heap and the cursor hold.
Measured ==
    /\ best \subseteq {e \in Entry : bound[e] # Absent /\ value[e[1]] \in Distance}
    /\ Cardinality(best) <= Limit
    /\ cursor \subseteq {e \in Entry : bound[e] # Absent}

\* A row that is not held is behind all that are, and these are as many as asked.
Closed ==
    Limit > 0 =>
        \A r \in Ranked :
            \/ <<r, "current">> \in best
            \/ /\ Cardinality(best) = Limit
               /\ \A e \in best : ExactDistance(e) <= value[r]

\* The ids handed out are those of the heap, best first.
Ordered ==
    \E s \in SetToSeqs(best) : BestFirst(s) /\ nearest = [i \in DOMAIN s |-> s[i][1]]

IInv ==
    /\ TypeOK
    /\ \A r \in Row : Indexed(value[r], bound[<<r, "current">>])
    /\ Measured
    /\ NothingNearerDropped
    /\ phase \in {"open", "failed"} => nearest = <<>>
    /\ phase \in {"gathered", "ended"} => Closed /\ Ordered
    /\ answered = SubSeq(nearest, 1, nearest_position)
    /\ phase = "ended" => nearest_position = Len(nearest)

\* Nothing is held, dropped or handed out at first.
LEMMA InitHolds == Init => IInv
<1>1. SUFFICES ASSUME Init PROVE IInv
  OBVIOUS
<1>2. Cardinality({}) = 0 /\ Limit \in Nat
  BY FS_EmptySet, SizeAssumption
<1>3. TypeOK
  <2>1. <<>> \in Seq(Row) /\ Len(<<>>) = 0
    BY EmptySeq
  <2> QED BY <1>1, <1>2, <2>1 DEF Init, TypeOK
<1>4. Measured
  BY <1>1, <1>2 DEF Init, Measured
<1>5. NothingNearerDropped
  <2>1. ASSUME NEW r \in Ranked PROVE <<r, "current">> \in cursor
    <3>1. r \in Row /\ value[r] \in Distance /\ <<r, "current">> \in Entry
      BY <2>1, EntryOfRow DEF Ranked
    <3>2. bound[<<r, "current">>] \in 0 .. value[r]
      BY <1>1, <3>1, Markers, MarkersAssumption DEF Init, Indexed
    <3>3. bound[<<r, "current">>] # Absent
      BY <3>1, <3>2, Markers DEF Absent
    <3> QED BY <1>1, <3>1, <3>3 DEF Init
  <2> QED BY <2>1 DEF NothingNearerDropped
<1>6. answered = SubSeq(nearest, 1, nearest_position)
  BY <1>1, SubSeqEmpty DEF Init
<1> QED BY <1>1, <1>3, <1>4, <1>5, <1>6 DEF Init, IInv

\* The steps that gather leave the ids handed out alone.
LEMMA GatherKeeps ==
    ASSUME IInv, phase = "open", phase' \in {"open", "failed"},
           UNCHANGED <<query, nearest, nearest_position, answered>>,
           cursor' \subseteq cursor, best' \subseteq Entry, Measured', NothingNearerDropped'
    PROVE  IInv'
<1>1. TypeOK'
  BY DEF IInv, TypeOK, Measured, query
<1>2. \A r \in Row : Indexed(value[r], bound[<<r, "current">>])'
  BY DEF IInv, query, Indexed
<1> QED BY <1>1, <1>2 DEF IInv, query

\* An entry without a distance is nobody's candidate (GatherNearest).
LEMMA SkipKeeps ==
    ASSUME IInv, NEW e \in Entry, SkipCandidate(e)
    PROVE  IInv'
<1>1. Measured'
  BY DEF IInv, SkipCandidate, Measured, query
<1>2. NothingNearerDropped'
  <2>1. value[e[1]] \notin Distance
    BY Markers DEF SkipCandidate
  <2>2. ASSUME NEW r \in Ranked PROVE <<r, "current">> # e
    BY <2>1, <2>2 DEF Ranked
  <2> QED BY <2>2 DEF IInv, NothingNearerDropped, SkipCandidate, query, Ranked, WorseThan, ExactDistance
<1>3. best' \subseteq Entry /\ cursor' \subseteq cursor
  BY DEF IInv, TypeOK, SkipCandidate
<1> QED BY <1>1, <1>2, <1>3, GatherKeeps DEF SkipCandidate

\* A candidate that MEOS refuses to measure ends the scan.
LEMMA RaiseKeeps ==
    ASSUME IInv, NEW e \in Entry, RaiseCandidate(e)
    PROVE  IInv'
<1>1. Measured' /\ NothingNearerDropped'
  BY DEF IInv, RaiseCandidate, Measured, NothingNearerDropped, query
<1>2. best' \subseteq Entry /\ cursor' \subseteq cursor
  BY DEF IInv, TypeOK, RaiseCandidate
<1> QED BY <1>1, <1>2, GatherKeeps DEF RaiseCandidate

\* The entry that the pop drops is behind all that stay, and so is what was
\* dropped before it (GatherNearest).
LEMMA KeepKeeps ==
    ASSUME IInv, NEW e \in Entry, KeepCandidate(e)
    PROVE  IInv'
<1>1. /\ phase = "open" /\ phase' = phase /\ Limit > 0 /\ e \in cursor /\ value[e[1]] \in Distance
      /\ cursor' = cursor \ {e} /\ Kept(e, best')
      /\ UNCHANGED <<query, nearest, nearest_position, answered>>
  BY DEF KeepCandidate, Yields
<1>2. /\ best \subseteq Entry /\ Cardinality(best) <= Limit
      /\ \A f \in best \union {e} : f \in Entry /\ bound[f] # Absent /\ value[f[1]] \in Distance
  BY <1>1 DEF IInv, Measured
<1>3. \A f \in best \union {e} : ExactDistance(f) \in Nat
  BY <1>2, Markers DEF ExactDistance
<1>4. /\ IsFiniteSet(best) /\ IsFiniteSet(best \union {e})
      /\ Cardinality(best) \in Nat /\ Cardinality(best \union {e}) \in Nat
      /\ Cardinality(best \union {e}) = IF e \in best THEN Cardinality(best)
                                                      ELSE Cardinality(best) + 1
  <2>1. IsFiniteSet(best)
    BY <1>2, EntriesFinite, FS_Subset
  <2> QED BY <2>1, FS_AddElement, FS_CardinalityType
<1>5. Limit \in Nat
  BY SizeAssumption
<1>6. CASE Cardinality(best \union {e}) <= Limit
  <2>1. best' = best \union {e}
    BY <1>1, <1>4, <1>5, <1>6 DEF Kept
  <2>2. Measured'
    BY <1>1, <1>2, <1>6, <2>1 DEF IInv, Measured, query
  <2>3. NothingNearerDropped'
    <3>1. ASSUME NEW r \in Ranked, <<r, "current">> \notin best \union cursor
          PROVE  /\ Cardinality(best') = Limit
                 /\ \A f \in best' : ~ WorseThan(f, <<r, "current">>)
      <4>1. /\ Cardinality(best) = Limit
            /\ \A f \in best : ~ WorseThan(f, <<r, "current">>)
        BY <1>1, <3>1 DEF IInv, NothingNearerDropped
      <4>2. e \in best
        BY <1>4, <1>5, <1>6, <4>1
      <4> QED BY <2>1, <4>1, <4>2
    <3> QED BY <1>1, <2>1, <3>1 DEF NothingNearerDropped, query, Ranked, WorseThan, ExactDistance
  <2> QED BY <1>1, <1>2, <2>1, <2>2, <2>3, GatherKeeps
<1>7. CASE Cardinality(best \union {e}) > Limit
  <2>1. PICK t \in Tops(best \union {e}) : best' = (best \union {e}) \ {t}
    BY <1>1, <1>7 DEF Kept
  <2>2. t \in best \union {e} /\ \A f \in best \union {e} : ~ WorseThan(f, t)
    BY DEF Tops
  <2>3. Cardinality(best') = Limit
    <3>1. Cardinality(best \union {e}) = Limit + 1
      BY <1>2, <1>4, <1>5, <1>7
    <3>2. Cardinality((best \union {e}) \ {t}) = Cardinality(best \union {e}) - 1
      BY <1>4, <2>2, FS_RemoveElement
    <3> QED BY <1>5, <2>1, <3>1, <3>2
  <2>4. Measured'
    BY <1>1, <1>2, <1>5, <2>1, <2>3 DEF IInv, Measured, query
  <2>5. ASSUME NEW r \in Ranked, <<r, "current">> \notin best' \union cursor',
               NEW f \in best'
        PROVE  ~ WorseThan(f, <<r, "current">>)
    <3>1. CASE <<r, "current">> = t
      BY <2>1, <2>2, <3>1
    <3>2. CASE <<r, "current">> # t
      <4>1. <<r, "current">> \notin best \union cursor
        BY <1>1, <2>1, <2>5, <3>2
      <4>2. \A g \in best : ~ WorseThan(g, <<r, "current">>)
        BY <1>1, <4>1 DEF IInv, NothingNearerDropped
      <4>3. CASE f \in best
        BY <4>2, <4>3
      <4>4. CASE f \notin best
        <5>1. f = e /\ t \in best
          BY <2>1, <2>2, <4>4
        <5>2. ~ WorseThan(f, t) /\ ~ WorseThan(t, <<r, "current">>)
          BY <2>1, <2>2, <4>2, <5>1
        <5>3. <<r, "current">> \in Entry /\ ExactDistance(<<r, "current">>) \in Nat
          BY EntryOfRow, Markers DEF Ranked, ExactDistance
        <5> QED BY <1>2, <1>3, <2>1, <2>2, <5>2, <5>3, WorseTransitive
      <4> QED BY <4>3, <4>4
    <3> QED BY <3>1, <3>2
  <2>6. NothingNearerDropped'
    <3>1. ASSUME NEW r \in Ranked', ~ (<<r, "current">> \in best' \union cursor'),
                 NEW f \in best'
          PROVE  ~ WorseThan(f, <<r, "current">>)'
      <4>1. r \in Ranked
        BY <1>1 DEF Ranked, query
      <4> QED BY <1>1, <2>5, <3>1, <4>1 DEF WorseThan, ExactDistance, query
    <3> QED BY <2>3, <3>1 DEF NothingNearerDropped
  <2>7. best' \subseteq Entry
    BY <1>2, <2>1
  <2> QED BY <1>1, <2>4, <2>6, <2>7, GatherKeeps
<1> QED BY <1>4, <1>5, <1>6, <1>7

\* When the cursor stops every row not held is behind those that are: a row not
\* read yet by the bound of its entry, which comes no earlier (GatherNearest).
LEMMA FinishKeeps == IInv /\ FinishGather => IInv'
<1>1. SUFFICES ASSUME IInv, FinishGather PROVE IInv'
  OBVIOUS
<1>2. /\ phase = "open" /\ phase' = "gathered"
      /\ Limit = 0 \/ cursor = {} \/ \E e \in cursor : Yields(e) /\ Stops(e)
      /\ UNCHANGED <<query, cursor, best, nearest_position, answered>>
  BY <1>1 DEF FinishGather
<1>3. PICK s \in SetToSeqs(best) : BestFirst(s) /\ nearest' = [i \in DOMAIN s |-> s[i][1]]
  BY <1>1 DEF FinishGather
<1>4. /\ best \subseteq Entry /\ IsFiniteSet(best) /\ Cardinality(best) <= Limit
      /\ \A e \in best : value[e[1]] \in Distance
  BY <1>1, EntriesFinite, FS_Subset DEF IInv, Measured
<1>5. s \in Seq(best) /\ DOMAIN s = 1 .. Cardinality(best) /\ Cardinality(best) \in Nat
  BY <1>4, SeqMeetsAll, FS_CardinalityType
<1>6. nearest' \in Seq(Row)
  <2>1. \A i \in 1 .. Cardinality(best) : s[i] \in best /\ s[i][1] \in Row
    BY <1>4, <1>5, EntryOfRow
  <2>2. nearest' \in [1 .. Cardinality(best) -> Row]
    BY <1>3, <1>5, <2>1
  <2> QED BY <1>5, <2>2, SeqDef
<1>7. nearest = <<>> /\ nearest_position = 0 /\ answered = <<>>
  <2>1. nearest = <<>> /\ Len(nearest) = 0
    BY <1>1, <1>2, EmptySeq DEF IInv
  <2>2. nearest_position = 0
    BY <1>1, <2>1 DEF IInv, TypeOK
  <2> QED BY <1>1, <2>1, <2>2, SubSeqEmpty DEF IInv
<1>8. TypeOK'
  <2>1. Len(nearest') \in Nat
    BY <1>6, LenProperties
  <2> QED BY <1>1, <1>2, <1>6, <1>7, <2>1 DEF IInv, TypeOK, query
<1>9. Closed'
  <2>1. SUFFICES ASSUME Limit > 0, NEW r \in Ranked, <<r, "current">> \notin best
                 PROVE  Cardinality(best) = Limit /\ \A e \in best : ExactDistance(e) <= value[r]
    BY <1>2 DEF Closed, Ranked, ExactDistance, query
  <2>2. /\ r \in Row /\ value[r] \in Nat /\ value[r] \in Distance
        /\ \A e \in best : ExactDistance(e) \in Nat
    BY <1>4, Markers DEF Ranked, ExactDistance
  <2>3. CASE <<r, "current">> \notin cursor
    <3>1. Cardinality(best) = Limit /\ \A e \in best : ~ WorseThan(e, <<r, "current">>)
      BY <1>1, <1>2, <2>1, <2>3 DEF IInv, NothingNearerDropped
    <3>2. ExactDistance(<<r, "current">>) = value[r]
      BY DEF ExactDistance
    <3> QED BY <2>2, <3>1, <3>2 DEF WorseThan
  <2>4. CASE <<r, "current">> \in cursor
    <3>1. PICK e \in cursor : Yields(e) /\ Stops(e)
      BY <1>2, <2>1, <2>4
    <3>2. PICK t \in Tops(best) : bound[e] >= ExactDistance(t)
      BY <3>1 DEF Stops
    <3>3. bound[e] <= bound[<<r, "current">>]
      BY <2>4, <3>1 DEF Yields
    <3>4. bound[<<r, "current">>] \in 0 .. value[r]
      BY <1>1, <2>2, Markers DEF IInv, Indexed
    <3>5. bound[e] \in Int
      <4>1. bound[e] \in Distance
        BY <1>1, <3>1 DEF IInv, TypeOK, Measured
      <4> QED BY <4>1, DistanceAssumption DEF Distance
    <3>6. t \in best /\ \A f \in best : ~ WorseThan(f, t)
      BY <3>2 DEF Tops
    <3>7. \A f \in best : ExactDistance(f) <= ExactDistance(t)
      BY <2>2, <3>6 DEF WorseThan
    <3>8. Cardinality(best) = Limit
      BY <1>4, <1>5, <3>1, SizeAssumption DEF Stops
    <3>9. ExactDistance(t) <= value[r]
      BY <2>2, <3>2, <3>3, <3>4, <3>5, <3>6
    <3> QED BY <2>2, <3>6, <3>7, <3>8, <3>9
  <2> QED BY <2>3, <2>4
<1>10. Ordered'
  BY <1>2, <1>3 DEF Ordered, BestFirst, WorseThan, ExactDistance, query
<1>11. answered' = SubSeq(nearest', 1, nearest_position')
  BY <1>2, <1>7, SubSeqEmpty
<1>12. Measured' /\ NothingNearerDropped'
  BY <1>1, <1>2 DEF IInv, Measured, NothingNearerDropped, query
<1>13. \A r \in Row : Indexed(value[r], bound[<<r, "current">>])'
  BY <1>1, <1>2 DEF IInv, query, Indexed
<1> QED BY <1>2, <1>8, <1>9, <1>10, <1>11, <1>12, <1>13 DEF IInv

\* What a vector takes.
LEMMA RowCountOK ==
    ASSUME TypeOK
    PROVE  /\ RowCount \in 0 .. Len(nearest) - nearest_position
           /\ RowCount = 0 => nearest_position = Len(nearest)
<1> DEFINE left == Len(nearest) - nearest_position
<1>1. Len(nearest) \in Nat /\ nearest_position \in 0 .. Len(nearest) /\ VectorSize \in Nat \ {0}
  BY SizeAssumption, LenProperties DEF TypeOK
<1>2. left \in Nat
  BY <1>1
<1> HIDE DEF left
<1>3. \E x \in {VectorSize, left} : \A y \in {VectorSize, left} : x <= y
  BY <1>1, <1>2
<1>4. /\ Min({VectorSize, left}) \in {VectorSize, left}
      /\ \A y \in {VectorSize, left} : Min({VectorSize, left}) <= y
  BY <1>3 DEF Min
<1>5. RowCount = Min({VectorSize, left})
  BY DEF RowCount, left
<1>6. RowCount \in 0 .. left /\ (RowCount = 0 => left = 0)
  BY <1>1, <1>2, <1>4, <1>5
<1> QED BY <1>1, <1>6 DEF left

\* The vectors cut the ids one behind the other (RTreeIndexScanExecute).
LEMMA ExecuteKeeps == IInv /\ Execute => IInv'
<1>1. SUFFICES ASSUME IInv, Execute PROVE IInv'
  OBVIOUS
<1>2. /\ phase = "gathered" /\ answered' = answered \o NextIds
      /\ nearest_position' = nearest_position + RowCount
      /\ UNCHANGED <<query, phase, cursor, best, nearest>>
  BY <1>1 DEF Execute
<1>3. /\ nearest \in Seq(Row) /\ Len(nearest) \in Nat /\ nearest_position \in 0 .. Len(nearest)
      /\ RowCount \in 0 .. Len(nearest) - nearest_position
  BY <1>1, RowCountOK, LenProperties DEF IInv, TypeOK
<1>4. nearest_position' \in nearest_position .. Len(nearest)
  BY <1>2, <1>3
<1>5. answered' = SubSeq(nearest, 1, nearest_position')
  <2>1. SubSeq(nearest, 1, nearest_position) \o SubSeq(nearest, nearest_position + 1, nearest_position')
          = SubSeq(nearest, 1, nearest_position')
    <3>1. 1 \in 1 .. Len(nearest) + 1 /\ nearest_position \in 1 - 1 .. Len(nearest)
      BY <1>3
    <3> QED BY <1>3, <1>4, <3>1, ConcatAdjacentSubSeq
  <2> QED BY <1>1, <1>2, <2>1 DEF IInv, NextIds
<1>6. answered' \in Seq(Row)
  <2>1. \A i \in 1 .. nearest_position' : nearest[i] \in Row
    BY <1>3, <1>4, ElementOfSeq
  <2>2. nearest_position' \in Int
    BY <1>3, <1>4
  <2> QED BY <1>5, <2>1, <2>2, SubSeqProperties
<1>7. TypeOK'
  BY <1>1, <1>2, <1>3, <1>4, <1>6 DEF IInv, TypeOK, query
<1>8. Measured' /\ NothingNearerDropped' /\ Closed' /\ Ordered'
  BY <1>1, <1>2 DEF IInv, Measured, NothingNearerDropped, Closed, Ordered, Ranked, ExactDistance,
                    BestFirst, WorseThan, query
<1>9. \A r \in Row : Indexed(value[r], bound[<<r, "current">>])'
  BY <1>1, <1>2 DEF IInv, query, Indexed
<1> QED BY <1>1, <1>2, <1>5, <1>7, <1>8, <1>9 DEF IInv

\* A vector without rows moves no id; it ends the scan (RTreeIndexScanExecute).
LEMMA ExecuteEmptyKeeps == IInv /\ ExecuteEmpty => IInv'
<1>1. SUFFICES ASSUME IInv, ExecuteEmpty PROVE IInv'
  OBVIOUS
<1>2. /\ phase = "gathered" /\ RowCount = 0 /\ phase' = "ended"
      /\ UNCHANGED <<query, cursor, best, nearest, nearest_position, answered>>
  BY <1>1 DEF ExecuteEmpty
<1>3. nearest_position = Len(nearest)
  BY <1>1, <1>2, RowCountOK DEF IInv
<1>4. TypeOK'
  BY <1>1, <1>2 DEF IInv, TypeOK, query
<1>5. Measured' /\ NothingNearerDropped' /\ Closed' /\ Ordered'
  BY <1>1, <1>2 DEF IInv, Measured, NothingNearerDropped, Closed, Ordered, Ranked, ExactDistance,
                    BestFirst, WorseThan, query
<1>6. \A r \in Row : Indexed(value[r], bound[<<r, "current">>])'
  BY <1>1, <1>2 DEF IInv, query, Indexed
<1> QED BY <1>1, <1>2, <1>3, <1>4, <1>5, <1>6 DEF IInv

\* Every step of the scan keeps the invariant.
LEMMA Inductive == IInv /\ [Next]_vars => IInv'
<1>1. SUFFICES ASSUME IInv, [Next]_vars PROVE IInv'
  OBVIOUS
<1>2. CASE \E e \in Entry : SkipCandidate(e) \/ KeepCandidate(e) \/ RaiseCandidate(e)
  BY <1>1, <1>2, SkipKeeps, KeepKeeps, RaiseKeeps
<1>3. CASE FinishGather
  BY <1>1, <1>3, FinishKeeps
<1>4. CASE Execute
  BY <1>1, <1>4, ExecuteKeeps
<1>5. CASE ExecuteEmpty
  BY <1>1, <1>5, ExecuteEmptyKeeps
<1>6. CASE UNCHANGED vars
  BY <1>1, <1>6 DEF vars, query, IInv, TypeOK, Measured, NothingNearerDropped, Closed, Ordered,
                    Indexed, Ranked, ExactDistance, BestFirst, WorseThan
<1> QED BY <1>1, <1>2, <1>3, <1>4, <1>5, <1>6 DEF Next

\* The invariant holds of every behaviour.
LEMMA Invariant == Spec => []IInv
BY InitHolds, Inductive, PTL DEF Spec

\* The heap never holds more entries than the limit, and the ids handed out are
\* row ids (GatherNearest).
THEOREM TypeCorrect == Spec => []TypeOK
<1>1. IInv => TypeOK
  BY DEF IInv
<1> QED BY <1>1, Invariant, PTL

\* What GatherNearest dropped is behind all it holds, at every step.
THEOREM NothingNearerIsDropped == Spec => []NothingNearerDropped
<1>1. IInv => NothingNearerDropped
  BY DEF IInv
<1> QED BY <1>1, Invariant, PTL

\* At the end the rows handed out are those of the heap, in its order.
LEMMA AnswerIsHeap ==
    ASSUME IInv, phase = "ended"
    PROVE  /\ answered \in Seq(Row) /\ Len(answered) = Cardinality(best)
           /\ \E s \in SetToSeqs(best) :
                /\ BestFirst(s)
                /\ DOMAIN answered = DOMAIN s /\ \A i \in DOMAIN s : answered[i] = s[i][1]
           /\ Answered = {e[1] : e \in best}
<1>1. /\ answered = SubSeq(nearest, 1, nearest_position) /\ nearest_position = Len(nearest)
      /\ nearest \in Seq(Row)
  BY DEF IInv, TypeOK
<1>2. answered = nearest
  BY <1>1, SubSeqFull
<1>3. PICK s \in SetToSeqs(best) : BestFirst(s) /\ nearest = [i \in DOMAIN s |-> s[i][1]]
  BY DEF IInv, Ordered
<1>4. IsFiniteSet(best)
  BY EntriesFinite, FS_Subset DEF IInv, TypeOK
<1>5. /\ s \in Seq(best) /\ DOMAIN s = 1 .. Cardinality(best) /\ Cardinality(best) \in Nat
      /\ \A e \in best : \E i \in DOMAIN s : s[i] = e
      /\ \A i \in DOMAIN s : s[i] \in best
  BY <1>4, SeqMeetsAll, FS_CardinalityType
<1>6. DOMAIN answered = DOMAIN s /\ \A i \in DOMAIN s : answered[i] = s[i][1]
  BY <1>2, <1>3
<1>7. Len(answered) = Cardinality(best)
  BY <1>1, <1>2, <1>5, <1>6, LenProperties
<1>8. Answered = {e[1] : e \in best}
  BY <1>5, <1>6 DEF Answered, ToSet
<1> QED BY <1>1, <1>2, <1>3, <1>6, <1>7, <1>8

\* What is answered is seen and measured, and a nearest row is among it, whatever
\* stale entries the index holds (GatherNearest).
THEOREM AnswersMeasured == Spec => []AnswersAreMeasured
<1>1. IInv => AnswersAreMeasured
  <2>1. SUFFICES ASSUME IInv, phase = "ended" PROVE AnswersAreMeasured
    BY DEF AnswersAreMeasured
  <2>2. /\ best \subseteq Entry /\ IsFiniteSet(best)
        /\ \A e \in best : e[1] \in Row /\ value[e[1]] \in Distance /\ value[e[1]] \in Nat
    BY <2>1, EntriesFinite, FS_Subset, EntryOfRow, Markers DEF IInv, Measured
  <2>3. Answered = {e[1] : e \in best}
    BY <2>1, AnswerIsHeap
  <2>4. Answered \subseteq Ranked
    BY <2>2, <2>3 DEF Ranked
  <2>5. ASSUME Limit > 0, NEW q \in Ranked
        PROVE  \E s \in Answered : \A r \in Ranked : value[s] <= value[r]
    <3>1. \A r \in Ranked : \/ <<r, "current">> \in best
                            \/ /\ Cardinality(best) = Limit
                               /\ \A e \in best : ExactDistance(e) <= value[r]
      BY <2>1, <2>5 DEF IInv, Closed
    <3>2. best # {}
      <4>1. Cardinality({}) = 0
        BY FS_EmptySet
      <4>2. \/ <<q, "current">> \in best
            \/ Cardinality(best) = Limit
        BY <2>5, <3>1
      <4>3. CASE <<q, "current">> \in best
        BY <4>3
      <4>4. CASE Cardinality(best) = Limit
        BY <2>5, <4>1, <4>4, SizeAssumption
      <4> QED BY <4>2, <4>3, <4>4
    <3>3. PICK d \in {value[e[1]] : e \in best} : \A x \in {value[e[1]] : e \in best} : d <= x
      BY <2>2, <3>2, Least
    <3>4. PICK m \in best : value[m[1]] = d
      BY <3>3
    <3>5. ASSUME NEW r \in Ranked PROVE d <= value[r]
      <4>1. CASE <<r, "current">> \in best
        <5>1. value[<<r, "current">>[1]] \in {value[e[1]] : e \in best}
          BY <4>1
        <5> QED BY <3>3, <5>1
      <4>2. CASE <<r, "current">> \notin best
        BY <3>1, <3>4, <4>2 DEF ExactDistance
      <4> QED BY <4>1, <4>2
    <3>6. m[1] \in Answered
      BY <2>3, <3>4
    <3> QED BY <3>4, <3>5, <3>6
  <2> QED BY <2>1, <2>4, <2>5 DEF AnswersAreMeasured
<1> QED BY <1>1, Invariant, PTL

\* Without stale entries an entry that is held is the current one of a row.
LEMMA HeldAreCurrent ==
    ASSUME IInv, Stale = {}
    PROVE  /\ best \subseteq {<<r, "current">> : r \in Ranked}
           /\ IsFiniteSet(Ranked) /\ IsFiniteSet({<<r, "current">> : r \in Ranked})
           /\ Cardinality({<<r, "current">> : r \in Ranked}) = Cardinality(Ranked)
<1> DEFINE C == {<<r, "current">> : r \in Ranked}
           f == [r \in Ranked |-> <<r, "current">>]
<1>1. ASSUME NEW e \in best PROVE e \in C
  <2>1. e \in Entry /\ bound[e] # Absent /\ value[e[1]] \in Distance
    BY <1>1 DEF IInv, Measured
  <2>2. e = <<e[1], "current">> /\ e[1] \in Row
    BY <2>1, EntryOfRow DEF Stale
  <2>3. e[1] \in Ranked
    BY <2>1, <2>2 DEF Ranked
  <2> QED BY <2>2, <2>3
<1>2. IsFiniteSet(Ranked)
  BY RowAssumption, FS_Subset DEF Ranked
<1>3. f \in Bijection(Ranked, C)
  <2>1. f \in [Ranked -> C] /\ \A a, b \in Ranked : f[a] = f[b] => a = b
    OBVIOUS
  <2>2. \A c \in C : \E r \in Ranked : f[r] = c
    OBVIOUS
  <2> HIDE DEF f, C
  <2> QED BY <2>1, <2>2 DEF Bijection, Injection, Surjection, IsInjective
<1>4. ExistsBijection(Ranked, C)
  BY <1>3 DEF ExistsBijection
<1> QED BY <1>1, <1>2, <1>4, FS_Bijection

\* The answer to ORDER BY ... LIMIT, for every table whose row ids are not given
\* out again: as many rows as asked, or all; nearest first; each once; and none
\* left out that is nearer than one of them (GatherNearest).
THEOREM NearestAnswered == Spec => []NearestUnlessReused
<1>1. IInv => NearestUnlessReused
  <2>1. SUFFICES ASSUME IInv, phase = "ended", Stale = {} PROVE NearestUnlessReused
    BY DEF NearestUnlessReused
  <2> DEFINE C == {<<r, "current">> : r \in Ranked}
  <2>2. /\ best \subseteq C /\ IsFiniteSet(Ranked) /\ IsFiniteSet(C)
        /\ Cardinality(C) = Cardinality(Ranked)
    BY <2>1, HeldAreCurrent
  <2>3. /\ IsFiniteSet(best) /\ Cardinality(best) \in Nat /\ Cardinality(Ranked) \in Nat
        /\ Cardinality(best) <= Cardinality(Ranked)
        /\ Limit \in Nat /\ Cardinality(best) <= Limit
    BY <2>1, <2>2, FS_Subset, FS_CardinalityType, SizeAssumption DEF IInv, Measured
  <2>4. PICK s \in SetToSeqs(best) :
          /\ BestFirst(s)
          /\ DOMAIN answered = DOMAIN s /\ \A i \in DOMAIN s : answered[i] = s[i][1]
    BY <2>1, AnswerIsHeap
  <2>5. /\ \A i \in DOMAIN s : s[i] \in best
        /\ \A i, j \in DOMAIN s : i # j => s[i] # s[j]
        /\ DOMAIN s \subseteq Nat
    BY <2>3, SeqMeetsAll
  <2>6. Len(answered) = Cardinality(best) /\ Answered = {e[1] : e \in best}
    BY <2>1, AnswerIsHeap
  <2>7. \A e \in best : e = <<e[1], "current">> /\ e[1] \in Ranked
    BY <2>2
  <2>8. \A r \in Ranked : value[r] \in Nat
    BY Markers DEF Ranked
  <2>9. Answered \subseteq Ranked
    BY <2>6, <2>7
  <2>10. Limit > 0 =>
            \A r \in Ranked : \/ <<r, "current">> \in best
                              \/ /\ Cardinality(best) = Limit
                                 /\ \A e \in best : ExactDistance(e) <= value[r]
    BY <2>1 DEF IInv, Closed
  <2>11. Len(answered) = Min({Limit, Cardinality(Ranked)})
    <3>1. Cardinality(best) \in {Limit, Cardinality(Ranked)}
      <4>1. CASE Cardinality(best) = Limit
        BY <4>1
      <4>2. CASE Cardinality(best) # Limit
        <5>1. Limit > 0
          BY <2>3, <4>2
        <5>2. C \subseteq best
          BY <2>10, <4>2, <5>1
        <5>3. C = best
          BY <2>2, <5>2
        <5> QED BY <2>2, <5>3
      <4> QED BY <4>1, <4>2
    <3>2. \A y \in {Limit, Cardinality(Ranked)} : Cardinality(best) <= y
      BY <2>3
    <3>3. \A x \in {Limit, Cardinality(Ranked)} :
            (\A y \in {Limit, Cardinality(Ranked)} : x <= y) => x = Cardinality(best)
      BY <2>3, <3>1, <3>2
    <3>4. Min({Limit, Cardinality(Ranked)}) = Cardinality(best)
      BY <3>1, <3>2, <3>3 DEF Min
    <3> QED BY <2>6, <3>4
  <2>12. ASSUME NEW i \in DOMAIN answered, NEW j \in DOMAIN answered, i < j
         PROVE  value[answered[i]] <= value[answered[j]] /\ answered[i] # answered[j]
    <3>1. ~ WorseThan(s[i], s[j]) /\ s[i] \in best /\ s[j] \in best
      BY <2>4, <2>5, <2>12 DEF BestFirst
    <3>2. s[i] # s[j]
      BY <2>4, <2>5, <2>12
    <3>3. answered[i] # answered[j]
      BY <2>4, <2>7, <2>12, <3>1, <3>2
    <3>4. value[s[i][1]] \in Nat /\ value[s[j][1]] \in Nat
      BY <2>7, <2>8, <3>1
    <3> QED BY <2>4, <2>12, <3>1, <3>3, <3>4 DEF WorseThan, ExactDistance
  <2>13. ASSUME NEW r \in Ranked \ Answered, NEW q \in Answered PROVE value[q] <= value[r]
    <3>1. PICK e \in best : q = e[1]
      BY <2>6, <2>13
    <3>2. Limit > 0
      <4>1. Cardinality(best) # 0
        BY <2>3, <3>1, FS_EmptySet
      <4> QED BY <2>3, <4>1
    <3>3. <<r, "current">> \notin best
      BY <2>6, <2>13
    <3> QED BY <2>10, <2>13, <3>1, <3>2, <3>3 DEF ExactDistance
  <2> QED BY <2>9, <2>11, <2>12, <2>13 DEF NearestUnlessReused
<1> QED BY <1>1, Invariant, PTL
=============================================================================
