--------------------------- MODULE IndexScanProofs ---------------------------
(***************************************************************************)
(* What the index scan hands out, for any table, answer of the index and   *)
(* size of a vector, and that it implements RowStream.                     *)
(***************************************************************************)
EXTENDS IndexScan, FiniteSetTheorems, SequenceTheorems, TLAPS

-----------------------------------------------------------------------------
(* The answer and the vectors.                                             *)

\* A vector takes VectorSize ids, or all that are left.
LEMMA RowCountOK ==
    ASSUME TypeOK
    PROVE  /\ Len(search_results) \in Nat /\ current_position \in Nat /\ RowCount \in Nat
           /\ current_position + RowCount <= Len(search_results)
           /\ \/ RowCount = VectorSize
              \/ current_position + RowCount = Len(search_results)
<1> DEFINE left == Len(search_results) - current_position
<1>1. /\ Len(search_results) \in Nat /\ current_position \in 0 .. Len(search_results)
      /\ VectorSize \in Nat \ {0}
  BY SizeAssumption, LenProperties DEF TypeOK
<1>2. left \in Nat
  BY <1>1
<1> HIDE DEF left
<1>3. \E x \in {VectorSize, left} : \A y \in {VectorSize, left} : x <= y
  BY <1>1, <1>2
<1>4. /\ Min({VectorSize, left}) \in {VectorSize, left}
      /\ \A y \in {VectorSize, left} : Min({VectorSize, left}) <= y
  BY <1>3 DEF Min
<1>5. RowCount = Min({VectorSize, left})
  BY DEF RowCount, left
<1>6. RowCount \in 0 .. left /\ (RowCount = VectorSize \/ RowCount = left)
  BY <1>1, <1>2, <1>4, <1>5
<1> QED BY <1>1, <1>6 DEF left

\* The ids of a row up to a position of a sequence, and how many they are.
Slots(s, n, r) == {i \in 1 .. n : s[i] = r}
Count(s, n, r) == Cardinality(Slots(s, n, r))

\* They are finitely many, and more positions hold no fewer of them.
LEMMA CountOK ==
    ASSUME NEW s, NEW m \in Nat, NEW n \in Nat, m <= n, NEW r
    PROVE  /\ IsFiniteSet(Slots(s, n, r))
           /\ Count(s, n, r) \in Nat
           /\ Count(s, m, r) \in Nat
           /\ Count(s, m, r) <= Count(s, n, r)
<1>1. IsFiniteSet(1 .. n)
  BY FS_Interval
<1>2. IsFiniteSet(Slots(s, n, r))
  BY <1>1, FS_Subset DEF Slots
<1>3. Slots(s, m, r) \subseteq Slots(s, n, r)
  BY DEF Slots
<1> QED BY <1>2, <1>3, FS_Subset, FS_CardinalityType DEF Count

\* What lies in a stretch of positions comes on top of what lies before it.
LEMMA CountAdds ==
    ASSUME NEW s, NEW m \in Nat, NEW k \in Nat, NEW r
    PROVE  Count(s, m + k, r)
             = Count(s, m, r) + Cardinality({i \in (m + 1) .. (m + k) : s[i] = r})
<1> DEFINE before == Slots(s, m, r)
           behind == {i \in (m + 1) .. (m + k) : s[i] = r}
<1>1. IsFiniteSet(before) /\ IsFiniteSet(behind)
  <2>1. IsFiniteSet(1 .. m) /\ IsFiniteSet((m + 1) .. (m + k))
    BY FS_Interval
  <2> QED BY <2>1, FS_Subset DEF Slots
<1>2. Slots(s, m + k, r) = before \union behind
  BY DEF Slots
<1>3. before \cap behind = {}
  BY DEF Slots
<1>4. Cardinality(before \cap behind) = 0
  BY <1>3, FS_EmptySet
<1>5. Cardinality(before) \in Nat /\ Cardinality(behind) \in Nat
  BY <1>1, FS_CardinalityType
<1>6. Cardinality(before \union behind)
        = Cardinality(before) + Cardinality(behind) - Cardinality(before \cap behind)
  BY <1>1, FS_Union
<1> QED BY <1>2, <1>4, <1>5, <1>6 DEF Count

-----------------------------------------------------------------------------
(* The invariant.                                                          *)

\* The results are the answer, from the moment of the search.
Searched ==
    IF phase = "planned" THEN search_results = << >> /\ current_position = 0
                         ELSE search_results = answer

\* What was handed out is what was passed and is visible.
Handed ==
    answered = [r \in Row |->
                  IF r \in visible THEN Count(search_results, current_position, r) ELSE 0]

IInv ==
    /\ TypeOK
    /\ Answers
    /\ Searched
    /\ Handed
    /\ phase = "ended" => BlankVector \/ current_position = Len(search_results)

\* The ids answered for a row are those at all positions.
LEMMA TimesIsCount ==
    ASSUME TypeOK, NEW r
    PROVE  Times(r) = Count(answer, Len(answer), r) /\ Times(r) \in Nat
<1>1. DOMAIN answer = 1 .. Len(answer) /\ Len(answer) \in Nat
  BY LenProperties DEF TypeOK
<1>2. Times(r) = Count(answer, Len(answer), r)
  BY <1>1 DEF Times, Count, Slots
<1> QED BY <1>1, <1>2, CountOK

\* Nothing is handed out at first.
LEMMA InitHolds == Init => IInv
<1>1. SUFFICES ASSUME Init PROVE IInv
  OBVIOUS
<1>2. Len(search_results) = 0 /\ search_results \in Seq(Row)
  BY <1>1 DEF Init
<1>3. answer \in Seq(Row)
  <2>1. PICK m \in 0 .. MaxAnswer : answer \in [1 .. m -> Row]
    BY <1>1 DEF Init, SeqOf
  <2> QED BY <2>1, SizeAssumption
<1>4. TypeOK
  BY <1>1, <1>2, <1>3, RaisedAssumption DEF Init, TypeOK
<1>5. ASSUME NEW r PROVE Count(search_results, current_position, r) = 0
  <2>1. Slots(search_results, current_position, r) = {}
    BY <1>1 DEF Init, Slots
  <2> QED BY <2>1, FS_EmptySet DEF Count
<1>6. Handed
  BY <1>1, <1>5 DEF Init, Handed
<1> QED BY <1>1, <1>4, <1>6 DEF Init, IInv, Searched

\* The search makes the answer the results (RTreeIndexScanInitGlobal).
LEMMA InitGlobalKeeps == IInv /\ InitGlobal => IInv'
<1>1. SUFFICES ASSUME IInv, InitGlobal PROVE IInv'
  OBVIOUS
<1>2. /\ search_results' = answer /\ phase = "planned" /\ phase' = "open"
      /\ current_position = 0 /\ current_position' = 0
      /\ UNCHANGED <<query, answered>>
  BY <1>1 DEF InitGlobal, IInv, Searched
<1>3. Len(answer) \in Nat
  BY <1>1, LenProperties DEF IInv, TypeOK
<1>4. TypeOK'
  BY <1>1, <1>2, <1>3 DEF IInv, TypeOK, query
<1>5. ASSUME NEW s, NEW r PROVE Count(s, 0, r) = 0
  <2>1. Slots(s, 0, r) = {}
    BY DEF Slots
  <2> QED BY <2>1, FS_EmptySet DEF Count
<1>6. Handed'
  BY <1>1, <1>2, <1>5 DEF IInv, Handed, query
<1>7. Answers' /\ Searched'
  BY <1>1, <1>2 DEF IInv, Answers, Times, Searched, query
<1> QED BY <1>2, <1>4, <1>6, <1>7 DEF IInv

\* A call adds to each visible row what lies in its vector.
LEMMA VectorCounts ==
    ASSUME IInv, current_position' = NextPosition
    PROVE  /\ current_position' \in 0 .. Len(search_results)
           /\ current_position <= current_position'
           /\ NextIds = current_position + 1 .. current_position + RowCount
           /\ \A r \in visible :
                Count(search_results, current_position', r)
                  = Count(search_results, current_position, r)
                      + Cardinality({i \in NextIds : search_results[i] = r})
<1>1. /\ Len(search_results) \in Nat /\ current_position \in Nat /\ RowCount \in Nat
      /\ current_position + RowCount <= Len(search_results)
  BY RowCountOK DEF IInv
<1>2. /\ current_position' = current_position + RowCount
      /\ NextIds = current_position + 1 .. current_position + RowCount
  BY DEF NextPosition, NextIds
<1>3. ASSUME NEW r \in visible
      PROVE  Count(search_results, current_position', r)
               = Count(search_results, current_position, r)
                   + Cardinality({i \in NextIds : search_results[i] = r})
  <2> DEFINE m == current_position
             k == RowCount
  <2>1. m \in Nat /\ k \in Nat
    BY <1>1
  <2>2. Count(search_results, m + k, r)
          = Count(search_results, m, r)
              + Cardinality({i \in (m + 1) .. (m + k) : search_results[i] = r})
    BY <2>1, CountAdds
  <2> QED BY <1>2, <2>2
<1> QED BY <1>1, <1>2, <1>3

\* What a call hands out of a row is what Fetch returned of its ids.
LEMMA FetchedSlots ==
    ASSUME NEW r
    PROVE  {i \in Fetched : search_results[i] = r}
             = IF r \in visible THEN {i \in NextIds : search_results[i] = r} ELSE {}
BY DEF Fetched

\* A vector with visible rows hands out each as often as it lies in the vector
\* (RTreeIndexScanExecute).
LEMMA ExecuteKeeps == IInv /\ Execute => IInv'
<1>1. SUFFICES ASSUME IInv, Execute PROVE IInv'
  OBVIOUS
<1>2. /\ phase = "open" /\ current_position' = NextPosition
      /\ answered' = [r \in Row |->
                        answered[r] + Cardinality({i \in Fetched : search_results[i] = r})]
      /\ UNCHANGED <<query, phase, search_results>>
  BY <1>1 DEF Execute
<1>3. /\ current_position' \in 0 .. Len(search_results)
      /\ \A r \in visible :
           Count(search_results, current_position', r)
             = Count(search_results, current_position, r)
                 + Cardinality({i \in NextIds : search_results[i] = r})
  BY <1>1, <1>2, VectorCounts
<1>4. ASSUME NEW r \in Row
      PROVE  answered'[r] = IF r \in visible
                            THEN Count(search_results, current_position', r) ELSE 0
  <2>1. /\ answered'[r] = answered[r] + Cardinality({i \in Fetched : search_results[i] = r})
        /\ answered[r] = IF r \in visible
                         THEN Count(search_results, current_position, r) ELSE 0
    BY <1>1, <1>2 DEF IInv, Handed
  <2>2. CASE r \in visible
    BY <1>3, <2>1, <2>2, FetchedSlots
  <2>3. CASE r \notin visible
    <3>1. Cardinality({i \in Fetched : search_results[i] = r}) = 0
      BY <2>3, FetchedSlots, FS_EmptySet
    <3> QED BY <2>1, <2>3, <3>1
  <2> QED BY <2>2, <2>3
<1>5. Handed'
  BY <1>2, <1>4 DEF Handed, query
<1>6. ASSUME NEW r \in Row PROVE Count(search_results, current_position', r) \in Nat
  BY <1>3, CountOK
<1>7. answered' \in [Row -> Nat]
  BY <1>2, <1>4, <1>6
<1>8. TypeOK'
  BY <1>1, <1>2, <1>3, <1>7 DEF IInv, TypeOK, query
<1>9. Answers' /\ Searched'
  BY <1>1, <1>2 DEF IInv, Answers, Times, Searched, query
<1> QED BY <1>2, <1>5, <1>8, <1>9 DEF IInv

\* A vector without visible rows is blank or the last one.
LEMMA ExecuteEmptyKeeps == IInv /\ ExecuteEmpty => IInv'
<1>1. SUFFICES ASSUME IInv, ExecuteEmpty PROVE IInv'
  OBVIOUS
<1>2. /\ phase = "open" /\ phase' = "ended" /\ current_position' = NextPosition
      /\ Fetched = {}
      /\ UNCHANGED <<query, search_results, answered>>
  BY <1>1 DEF ExecuteEmpty
<1>3. /\ current_position' \in 0 .. Len(search_results)
      /\ NextIds = current_position + 1 .. current_position + RowCount
      /\ \A r \in visible :
           Count(search_results, current_position', r)
             = Count(search_results, current_position, r)
                 + Cardinality({i \in NextIds : search_results[i] = r})
  BY <1>1, <1>2, VectorCounts
<1>4. \A i \in NextIds : search_results[i] \notin visible
  BY <1>2 DEF Fetched
<1>5. ASSUME NEW r \in visible
      PROVE  Count(search_results, current_position', r)
               = Count(search_results, current_position, r)
  <2>1. {i \in NextIds : search_results[i] = r} = {}
    BY <1>4, <1>5
  <2>2. Cardinality({i \in NextIds : search_results[i] = r}) = 0
    BY <2>1, FS_EmptySet
  <2>3. Count(search_results, current_position, r) \in Nat
    BY <1>1, CountOK, RowCountOK DEF IInv
  <2> QED BY <1>3, <2>2, <2>3
<1>6. Handed'
  BY <1>1, <1>2, <1>5 DEF IInv, Handed, query
<1>7. TypeOK'
  BY <1>1, <1>2, <1>3 DEF IInv, TypeOK, query
<1>8. Answers' /\ Searched'
  BY <1>1, <1>2 DEF IInv, Answers, Times, Searched, query
<1>9. /\ Len(search_results) \in Nat /\ current_position \in Nat /\ RowCount \in Nat
      /\ current_position + RowCount <= Len(search_results)
      /\ \/ RowCount = VectorSize
         \/ current_position + RowCount = Len(search_results)
  BY <1>1, RowCountOK DEF IInv
<1>10. CASE RowCount = VectorSize
  <2>1. current_position \in 0 .. (Len(search_results) - VectorSize)
    BY <1>9, <1>10
  <2>2. \A j \in (current_position + 1) .. (current_position + VectorSize) :
          search_results[j] \notin visible
    BY <1>3, <1>4, <1>10
  <2>3. BlankVector'
    BY <1>2, <2>1, <2>2 DEF BlankVector, query
  <2> QED BY <1>6, <1>7, <1>8, <2>3 DEF IInv
<1>11. CASE current_position + RowCount = Len(search_results)
  <2>1. current_position' = Len(search_results')
    BY <1>2, <1>11 DEF NextPosition
  <2> QED BY <1>6, <1>7, <1>8, <2>1 DEF IInv
<1> QED BY <1>9, <1>10, <1>11

\* Every step of the scan keeps the invariant.
LEMMA Inductive == IInv /\ [Next]_vars => IInv'
<1>1. ASSUME IInv, UNCHANGED vars PROVE IInv'
  BY <1>1 DEF IInv, TypeOK, Answers, Times, Searched, Handed, BlankVector, vars, query
<1> QED BY <1>1, InitGlobalKeeps, ExecuteKeeps, ExecuteEmptyKeeps DEF Next

\* The invariant holds of every behaviour.
LEMMA Invariant == Spec => []IInv
BY InitHolds, Inductive, PTL DEF Spec

-----------------------------------------------------------------------------
(* What the scan hands out.                                                *)

\* The position of the scan never leaves the results (Scan).
THEOREM TypeCorrect == Spec => []TypeOK
<1>1. IInv => TypeOK
  BY DEF IInv
<1> QED BY <1>1, Invariant, PTL

\* What was handed out of a row never exceeds what the index answered of it, and
\* reaches that unless the scan ended early.
Within ==
    \A r \in Row :
        /\ answered[r] \in Nat
        /\ answered[r] <= IF r \in visible THEN Times(r) ELSE 0
        /\ phase = "ended" /\ ~ BlankVector =>
              answered[r] = IF r \in visible THEN Times(r) ELSE 0

LEMMA HandedWithin == IInv => Within
<1> SUFFICES ASSUME IInv, NEW r \in Row
             PROVE  /\ answered[r] \in Nat
                    /\ answered[r] <= IF r \in visible THEN Times(r) ELSE 0
                    /\ phase = "ended" /\ ~ BlankVector =>
                         answered[r] = IF r \in visible THEN Times(r) ELSE 0
  BY DEF Within
<1>1. answered[r] = IF r \in visible THEN Count(search_results, current_position, r) ELSE 0
  BY DEF IInv, Handed
<1>2. /\ Times(r) = Count(answer, Len(answer), r) /\ Times(r) \in Nat
      /\ Len(answer) \in Nat
  BY TimesIsCount, LenProperties DEF IInv, TypeOK
<1>3. /\ current_position \in Nat
      /\ phase # "planned" => search_results = answer /\ current_position <= Len(answer)
      /\ phase = "planned" => current_position = 0
  BY RowCountOK DEF IInv, Searched, TypeOK
<1>4. CASE phase = "planned"
  <2>1. Slots(search_results, current_position, r) = {}
    BY <1>3, <1>4 DEF Slots
  <2>2. Count(search_results, current_position, r) = 0
    BY <2>1, FS_EmptySet DEF Count
  <2> QED BY <1>1, <1>2, <1>4, <2>2
<1>5. CASE phase # "planned"
  <2>1. /\ Count(answer, current_position, r) \in Nat
        /\ Count(answer, current_position, r) <= Count(answer, Len(answer), r)
    BY <1>2, <1>3, <1>5, CountOK
  <2>2. phase = "ended" /\ ~ BlankVector => current_position = Len(answer)
    BY <1>3, <1>5 DEF IInv
  <2> QED BY <1>1, <1>2, <1>3, <1>5, <2>1, <2>2
<1> QED BY <1>4, <1>5

\* The scan hands out what it passed as RowStream sends it: each visible row as
\* often as the index answers it, and it ends with all of them sent unless a
\* vector was blank.
THEOREM ScanStreamsRows == Spec => ImplementsRowStream
<1> DEFINE wanted == [r \in Row |-> IF r \in visible THEN Times(r) ELSE 0]
<1>1. Init => Stream!Init
  <2>1. SUFFICES ASSUME Init PROVE Stream!Init
    OBVIOUS
  <2>2. \A r \in Row : Times(r) \in Nat
    BY <2>1, InitHolds, TimesIsCount DEF IInv
  <2>3. wanted \in [Row -> Nat]
    BY <2>2
  <2> QED BY <2>1, <2>3 DEF Init, Stream!Init
<1>2. IInv /\ [Next]_vars => [Stream!Next]_<<wanted, answered, phase # "ended">>
  <2>1. SUFFICES ASSUME IInv, [Next]_vars
                 PROVE  Stream!Next \/ UNCHANGED <<wanted, answered, phase # "ended">>
    OBVIOUS
  <2>2. UNCHANGED query => UNCHANGED wanted
    BY DEF query, Times
  <2>3. CASE UNCHANGED vars
    BY <2>2, <2>3 DEF vars
  <2>4. CASE InitGlobal
    BY <2>2, <2>4 DEF InitGlobal
  <2>5. CASE Execute
    <3>1. /\ phase = "open" /\ phase' = "open" /\ UNCHANGED query
          /\ answered' = [r \in Row |->
                        answered[r] + Cardinality({i \in Fetched : search_results[i] = r})]
      BY <2>5 DEF Execute
    <3>2. IInv'
      BY <2>1, <2>5, ExecuteKeeps
    <3>3. answered' \in [Row -> Nat]
      BY <3>2 DEF IInv, TypeOK
    <3>4. ASSUME NEW r \in Row PROVE answered[r] <= answered'[r] /\ answered'[r] <= wanted[r]
      <4>1. answered'[r] <= IF r \in visible' THEN Times(r)' ELSE 0
        <5>1. Within'
          BY <3>2, HandedWithin, PTL
        <5> QED BY <5>1 DEF Within
      <4>2. answered'[r] <= wanted[r]
        BY <3>1, <4>1 DEF query, Times
      <4>3. IsFiniteSet({i \in Fetched : search_results[i] = r})
        <5>1. IsFiniteSet(NextIds)
          BY <2>1, RowCountOK, FS_Interval DEF NextIds, IInv
        <5> QED BY <5>1, FS_Subset DEF Fetched
      <4>4. Cardinality({i \in Fetched : search_results[i] = r}) \in Nat
        BY <4>3, FS_CardinalityType
      <4>5. answered[r] \in Nat
        BY <2>1 DEF IInv, TypeOK
      <4> QED BY <3>1, <4>2, <4>4, <4>5
    <3>5. Stream!Send
      BY <2>2, <3>1, <3>3, <3>4 DEF Stream!Send
    <3> QED BY <3>5 DEF Stream!Next
  <2>6. CASE ExecuteEmpty
    <3>1. phase = "open" /\ phase' = "ended" /\ UNCHANGED <<query, search_results, answered>>
      BY <2>6 DEF ExecuteEmpty
    <3>2. IInv'
      BY <2>1, <2>6, ExecuteEmptyKeeps
    <3>3. BlankVector' <=> BlankVector
      BY <3>1 DEF BlankVector, query
    <3>4. ~ BlankVector => \A r \in Row : answered[r] = wanted[r]
      <4>1. SUFFICES ASSUME ~ BlankVector', NEW r \in Row PROVE answered[r] = wanted[r]
        BY <3>3
      <4>2. answered'[r] = IF r \in visible' THEN Times(r)' ELSE 0
        <5>1. Within'
          BY <3>2, HandedWithin, PTL
        <5> QED BY <3>1, <4>1, <5>1 DEF Within
      <4> QED BY <3>1, <4>2 DEF query, Times
    <3>5. BlankVector \/ answered = wanted
      <4>1. answered \in [Row -> Nat]
        BY <2>1 DEF IInv, TypeOK
      <4> QED BY <3>4, <4>1
    <3>6. Stream!End
      BY <2>2, <3>1, <3>5 DEF Stream!End
    <3> QED BY <3>6 DEF Stream!Next
  <2> QED BY <2>1, <2>3, <2>4, <2>5, <2>6 DEF Next
<1>3. QED
  BY <1>1, <1>2, Invariant, PTL DEF Spec, ImplementsRowStream, Stream!Spec

\* The hidden ids are finitely many.
LEMMA HiddenFinite ==
    ASSUME TypeOK
    PROVE  IsFiniteSet(HiddenIds) /\ Cardinality(HiddenIds) \in Nat
<1>1. DOMAIN answer = 1 .. Len(answer) /\ Len(answer) \in Nat
  BY LenProperties DEF TypeOK
<1>2. IsFiniteSet(1 .. Len(answer))
  BY <1>1, FS_Interval
<1>3. HiddenIds \subseteq 1 .. Len(answer)
  BY <1>1 DEF HiddenIds
<1> QED BY <1>2, <1>3, FS_Subset, FS_CardinalityType

\* A blank vector takes a vector of hidden ids.
LEMMA BlankIsHidden ==
    ASSUME IInv, phase # "planned", BlankVector
    PROVE  Cardinality(HiddenIds) >= VectorSize
<1>1. PICK i \in 0..(Len(search_results) - VectorSize) :
        \A j \in (i + 1)..(i + VectorSize) : search_results[j] \notin visible
  BY DEF BlankVector
<1>2. /\ search_results = answer /\ VectorSize \in Nat
      /\ DOMAIN answer = 1 .. Len(answer) /\ Len(answer) \in Nat
  BY SizeAssumption, LenProperties DEF IInv, Searched, TypeOK
<1> DEFINE blank == (i + 1)..(i + VectorSize)
<1>3. blank \subseteq HiddenIds
  BY <1>1, <1>2 DEF HiddenIds
<1>4. IsFiniteSet(HiddenIds)
  BY HiddenFinite DEF IInv
<1>5. Cardinality(blank) = VectorSize
  BY <1>1, <1>2, FS_Interval
<1>6. Cardinality(blank) <= Cardinality(HiddenIds)
  BY <1>3, <1>4, FS_Subset
<1>7. Cardinality(HiddenIds) \in Nat
  BY <1>4, FS_CardinalityType
<1> QED BY <1>2, <1>5, <1>6, <1>7

\* The rows are the ones a sequential scan returns, as 077b_index_scan_projection.test
\* says, but for stale ids, local rows, a search that raised, and a vector or more
\* of hidden ids (RTreeIndexScanExecute ending on an empty chunk).
THEOREM ScanIsSequential == Spec => []RowsUnlessDisturbed
<1>1. IInv => RowsUnlessDisturbed
  <2>1. SUFFICES ASSUME IInv PROVE RowsUnlessDisturbed
    OBVIOUS
  <2>2. ASSUME NEW r \in Row \ Stale
        PROVE  answered[r] <= IF r \in matching THEN 1 ELSE 0
    <3>1. /\ answered[r] \in Nat
          /\ answered[r] <= IF r \in visible THEN Times(r) ELSE 0
          /\ Times(r) \in Nat
      BY <2>1, HandedWithin, TimesIsCount DEF IInv, Within
    <3>2. Times(r) <= 1 /\ (r \in visible \ matching => Times(r) = 0)
      BY <2>1 DEF IInv, Answers
    <3>3. CASE r \in matching
      BY <3>1, <3>2, <3>3
    <3>4. CASE r \notin matching
      BY <3>1, <3>2, <3>4
    <3> QED BY <3>3, <3>4
  <2>3. ASSUME phase = "ended", ~ raised, Cardinality(HiddenIds) < VectorSize,
               NEW r \in matching \ Local
        PROVE  answered[r] >= 1
    <3>1. ~ BlankVector
      <4>1. Cardinality(HiddenIds) \in Nat /\ VectorSize \in Nat
        BY <2>1, HiddenFinite, SizeAssumption DEF IInv
      <4> QED BY <2>1, <2>3, <4>1, BlankIsHidden
    <3>2. r \in visible /\ r \in Row
      BY <2>1 DEF IInv, TypeOK
    <3>3. Times(r) >= 1
      BY <2>1, <2>3 DEF IInv, Answers
    <3> QED BY <2>1, <2>3, <3>1, <3>2, <3>3, HandedWithin DEF Within
  <2> QED BY <2>2, <2>3 DEF RowsUnlessDisturbed
<1> QED BY <1>1, Invariant, PTL
=============================================================================
