--------------------------- MODULE IndexJoinProofs ---------------------------
(***************************************************************************)
(* What the index join hands out, for any probe side, table, answers of    *)
(* the index and size of a vector, and that it implements RowStream.       *)
(***************************************************************************)
EXTENDS IndexJoin, FiniteSetTheorems, SequenceTheorems, TLAPS

-----------------------------------------------------------------------------
(* The matches of a probe row and the batches they are cut into.           *)

\* A sequence of a set meets each of its elements, and each once.
LEMMA SeqMeetsAll ==
    ASSUME NEW S, IsFiniteSet(S), NEW s \in SetToSeqs(S)
    PROVE  /\ s \in Seq(S)
           /\ \A i, j \in 1 .. Len(s) : i # j => s[i] # s[j]
           /\ \A x \in S : \E i \in 1 .. Len(s) : s[i] = x
<1> DEFINE n == Cardinality(S)
<1>1. n \in Nat
  BY FS_CardinalityType
<1>2. s \in [1 .. n -> S] /\ \A i, j \in 1 .. n : i # j => s[i] # s[j]
  BY DEF SetToSeqs
<1>3. IsFiniteSet(1 .. n) /\ Cardinality(1 .. n) = n
  BY <1>1, FS_Interval
<1>4. s \in Injection(1 .. n, S)
  BY <1>2 DEF Injection, IsInjective
<1>5. s \in Surjection(1 .. n, S)
  BY <1>3, <1>4, FS_Injection
<1>6. \A x \in S : \E i \in 1 .. n : s[i] = x
  BY <1>5 DEF Surjection
<1>7. s \in Seq(S) /\ Len(s) = n
  BY <1>1, <1>2
<1> QED BY <1>2, <1>6, <1>7

\* A batch takes what is left of the matches as far as it fits into the chunk.
LEMMA TakeOK ==
    ASSUME TypeOK
    PROVE  /\ Take \in Nat /\ match_offset \in Nat /\ Len(matches) \in Nat
           /\ match_offset + Take <= Len(matches)
           /\ out_count + Take \in 0 .. VectorSize
           /\ Taken \subseteq 1 .. Len(matches)
           /\ 1 .. (match_offset + Take) = (1 .. match_offset) \union Taken
<1> DEFINE a == Len(matches) - match_offset
           b == VectorSize - out_count
<1>1. /\ Len(matches) \in Nat /\ match_offset \in 0 .. Len(matches)
      /\ VectorSize \in Nat /\ out_count \in 0 .. VectorSize
  BY SizeAssumption, LenProperties DEF TypeOK
<1>2. a \in Nat /\ b \in Nat
  BY <1>1
<1> HIDE DEF a, b
<1>3. \E x \in {a, b} : \A y \in {a, b} : x <= y
  BY <1>2
<1>4. Min({a, b}) \in {a, b} /\ \A y \in {a, b} : Min({a, b}) <= y
  BY <1>3 DEF Min
<1>5. Take = Min({a, b})
  BY DEF Take, a, b
<1>6. Take \in Nat /\ Take <= a /\ Take <= b
  BY <1>2, <1>4, <1>5
<1> QED BY <1>1, <1>6 DEF a, b, Taken

-----------------------------------------------------------------------------
(* The invariant.                                                          *)

Current == input[probe_row + 1]

\* The probe row is in the current chunk and not done.
Pending(q) ==
    phase \in {"running", "output"} /\ \E i \in probe_row + 1 .. Len(input) : input[i] = q

\* How many ids of the answer to a probe row the join has passed.
Position(q) ==
    IF q \notin remaining /\ ~ Pending(q) THEN Len(answers[q])
    ELSE IF matches # <<>> /\ q = Current THEN match_offset ELSE 0

\* How often the first ids of an answer show a row, or an unwritten slot.
Shown(s, n, x) == {i \in 1 .. n : Fetched(s[i]) = x}
Count(s, n, x) == Cardinality(Shown(s, n, x))

\* A chunk holds probe rows once, and none that comes again.
Delivered ==
    /\ \A i, j \in 1 .. Len(input) : i # j => input[i] # input[j]
    /\ \A i \in 1 .. Len(input) : input[i] \notin remaining

\* The matches kept between calls are the answer to the current probe row.
Resumable ==
    /\ matches # <<>> =>
         /\ phase \in {"running", "output"} /\ probe_row < Len(input)
         /\ Current \in boxed
         /\ matches = answers[Current]
    /\ matches = <<>> => match_offset = 0

\* A probe row that is not searched for has no answer.
Unboxed == \A q \in Probe \ boxed : answers[q] = <<>>

\* What is handed out is what the join has passed of the answers.
Accounted ==
    \A q \in Probe, x \in Row \union {Unset} :
        Handed(<<q, x>>) = Count(answers[q], Position(q), x)

IInv ==
    /\ TypeOK
    /\ Delivered
    /\ Resumable
    /\ Unboxed
    /\ Accounted
    /\ phase = "input" => probe_row = 0

\* Of no ids nothing is shown.
LEMMA CountNone ==
    ASSUME NEW s, NEW x
    PROVE  Count(s, 0, x) = 0
<1>1. Shown(s, 0, x) = {}
  BY DEF Shown
<1> QED BY <1>1, FS_EmptySet DEF Count

\* What a stretch of an answer shows comes on top of what the ids before it show.
LEMMA CountAdds ==
    ASSUME NEW s, NEW m \in Nat, NEW k \in Nat, NEW x
    PROVE  /\ Count(s, m, x) \in Nat
           /\ Cardinality({i \in (m + 1) .. (m + k) : Fetched(s[i]) = x}) \in Nat
           /\ Count(s, m + k, x)
                = Count(s, m, x) + Cardinality({i \in (m + 1) .. (m + k) : Fetched(s[i]) = x})
<1> DEFINE before == Shown(s, m, x)
           behind == {i \in (m + 1) .. (m + k) : Fetched(s[i]) = x}
<1>1. IsFiniteSet(before) /\ IsFiniteSet(behind)
  <2>1. IsFiniteSet(1 .. m) /\ IsFiniteSet((m + 1) .. (m + k))
    BY FS_Interval
  <2> QED BY <2>1, FS_Subset DEF Shown
<1>2. Shown(s, m + k, x) = before \union behind
  BY DEF Shown
<1>3. before \cap behind = {}
  BY DEF Shown
<1>4. Cardinality(before \cap behind) = 0
  BY <1>3, FS_EmptySet
<1>5. Cardinality(before) \in Nat /\ Cardinality(behind) \in Nat
  BY <1>1, FS_CardinalityType
<1>6. Cardinality(before \union behind)
        = Cardinality(before) + Cardinality(behind) - Cardinality(before \cap behind)
  BY <1>1, FS_Union
<1>7. /\ Count(s, m, x) = Cardinality(before)
      /\ Count(s, m + k, x) = Cardinality(before \union behind)
  BY <1>2 DEF Count
<1> HIDE DEF before
<1> QED BY <1>4, <1>5, <1>6, <1>7

\* More ids show no less.
LEMMA CountGrows ==
    ASSUME NEW s, NEW m \in Nat, NEW n \in Nat, m <= n, NEW x
    PROVE  Count(s, m, x) <= Count(s, n, x)
<1>1. IsFiniteSet(1 .. n) /\ Shown(s, n, x) \subseteq 1 .. n
  BY FS_Interval DEF Shown
<1>2. IsFiniteSet(Shown(s, n, x))
  BY <1>1, FS_Subset
<1>3. Shown(s, m, x) \subseteq Shown(s, n, x)
  BY DEF Shown
<1>4. Cardinality(Shown(s, m, x)) <= Cardinality(Shown(s, n, x))
  BY <1>2, <1>3, FS_Subset
<1> QED BY <1>4 DEF Count

\* The ids that show an item of an answer are those at all its positions.
LEMMA TimesIsCount ==
    ASSUME TypeOK, NEW q \in Probe, NEW x
    PROVE  Times(<<q, x>>) = Count(answers[q], Len(answers[q]), x) /\ Times(<<q, x>>) \in Nat
<1>1. answers[q] \in Seq(Row \union Hidden)
  BY DEF TypeOK
<1>2. DOMAIN answers[q] = 1 .. Len(answers[q]) /\ Len(answers[q]) \in Nat
  BY <1>1, LenProperties
<1>3. Times(<<q, x>>) = Count(answers[q], Len(answers[q]), x)
  BY <1>2 DEF Times, Count, Shown
<1>4. Count(answers[q], Len(answers[q]), x) \in Nat
  BY <1>2, CountAdds
<1> QED BY <1>3, <1>4

\* Nothing is delivered, matched or handed out at first.
LEMMA InitHolds == Init => IInv
<1>1. SUFFICES ASSUME Init PROVE IInv
  OBVIOUS
<1>2. /\ Len(<<>>) = 0 /\ <<>> \in Seq(Probe) /\ <<>> \in Seq(Row \union Hidden)
      /\ NoPairs \in [Pair -> Nat] /\ VectorSize \in Nat
  BY SizeAssumption DEF NoPairs
<1>3. ASSUME NEW q \in Probe PROVE answers[q] \in Seq(Row \union Hidden)
  <2>1. answers[q] \in SeqOf(Row \union Hidden, MaxAnswer)
    BY <1>1 DEF Init
  <2>2. PICK m \in 0 .. MaxAnswer : answers[q] \in [1 .. m -> Row \union Hidden]
    BY <2>1 DEF SeqOf
  <2> QED BY <2>2, SizeAssumption
<1>4. TypeOK
  BY <1>1, <1>2, <1>3 DEF Init, TypeOK
<1>5. Delivered /\ Resumable /\ Unboxed
  BY <1>1, <1>2 DEF Init, Delivered, Resumable, Unboxed
<1>6. \A q \in Probe : Position(q) = 0
  BY <1>1 DEF Init, Position
<1>7. \A p \in Pair : Handed(p) = 0
  BY <1>1 DEF Init, Handed, NoPairs
<1>8. Accounted
  BY <1>6, <1>7, CountNone DEF Accounted, Pair
<1> QED BY <1>1, <1>4, <1>5, <1>8 DEF Init, IInv

\* A new chunk of the child holds probe rows that were not delivered.
LEMMA NextInputKeeps == IInv /\ NextInput => IInv'
<1>1. SUFFICES ASSUME IInv, NextInput PROVE IInv'
  OBVIOUS
<1>2. PICK S \in SUBSET remaining : input' \in SetToSeqs(S) /\ remaining' = remaining \ S
  BY <1>1 DEF NextInput
<1>3. /\ phase = "input" /\ phase' = "running" /\ probe_row = 0
      /\ UNCHANGED <<boxed, answers, probe_row, matches, match_offset, out, out_count, emitted>>
  BY <1>1 DEF NextInput, query, state, chunk, IInv
<1>4. S \subseteq Probe /\ IsFiniteSet(S)
  BY <1>1, ProbeAssumption, FS_Subset DEF IInv, TypeOK
<1>5. /\ input' \in Seq(S)
      /\ \A i, j \in 1 .. Len(input') : i # j => input'[i] # input'[j]
      /\ \A q \in S : \E i \in 1 .. Len(input') : input'[i] = q
  BY <1>2, <1>4, SeqMeetsAll
<1>6. /\ input' \in Seq(Probe) /\ Len(input') \in Nat
      /\ \A i \in 1 .. Len(input') : input'[i] \in S
  BY <1>4, <1>5, LenProperties
<1>7. TypeOK'
  BY <1>1, <1>2, <1>3, <1>6 DEF IInv, TypeOK
<1>8. Delivered'
  BY <1>2, <1>5, <1>6 DEF Delivered
<1>9. matches = <<>> /\ matches' = <<>>
  BY <1>1, <1>3 DEF IInv, Resumable
<1>10. Resumable'
  BY <1>1, <1>3, <1>9 DEF IInv, Resumable
<1>11. ASSUME NEW q \in Probe PROVE Position(q)' = Position(q)
  <2>1. Pending(q)' <=> q \in S
    BY <1>3, <1>5, <1>6 DEF Pending
  <2>2. ~ Pending(q)
    BY <1>3 DEF Pending
  <2> QED BY <1>2, <1>3, <1>9, <2>1, <2>2 DEF Position
<1>12. Accounted' /\ Unboxed'
  BY <1>1, <1>3, <1>11 DEF IInv, Accounted, Handed, Unboxed, Count, Shown, Fetched
<1> QED BY <1>3, <1>7, <1>8, <1>10, <1>12 DEF IInv

\* A chunk that goes to the engine takes its pairs along.
LEMMA GivesChunk ==
    ASSUME TypeOK, emitted' = [p \in Pair |-> emitted[p] + out[p]], out' = NoPairs
    PROVE  /\ emitted' \in [Pair -> Nat] /\ out' \in [Pair -> Nat]
           /\ \A p \in Pair : Handed(p)' = Handed(p)
BY DEF TypeOK, NoPairs, Handed

\* A full chunk goes out and the call is repeated (PipelineExecutor).
LEMMA TakeOutputKeeps == IInv /\ TakeOutput => IInv'
<1>1. SUFFICES ASSUME IInv, TakeOutput PROVE IInv'
  OBVIOUS
<1>2. /\ phase = "output" /\ phase' = "running" /\ out_count' = 0
      /\ UNCHANGED <<boxed, answers, remaining, input, probe_row, matches, match_offset>>
  BY <1>1 DEF TakeOutput, query, state
<1>3. /\ emitted' \in [Pair -> Nat] /\ out' \in [Pair -> Nat]
      /\ \A p \in Pair : Handed(p)' = Handed(p)
  BY <1>1, GivesChunk DEF TakeOutput, IInv
<1>4. TypeOK'
  BY <1>1, <1>2, <1>3, SizeAssumption DEF IInv, TypeOK
<1>5. Delivered' /\ Resumable'
  BY <1>1, <1>2 DEF IInv, Delivered, Resumable, Current
<1>6. \A q \in Probe : Position(q)' = Position(q)
  BY <1>2 DEF Position, Pending, Current
<1>7. Accounted' /\ Unboxed'
  BY <1>1, <1>2, <1>3, <1>6 DEF IInv, Accounted, Unboxed, Pair, Count, Shown, Fetched
<1> QED BY <1>2, <1>4, <1>5, <1>7 DEF IInv

\* At the end of a chunk no probe row of it is left (Execute).
LEMMA ReturnInputKeeps == IInv /\ ReturnInput => IInv'
<1>1. SUFFICES ASSUME IInv, ReturnInput PROVE IInv'
  OBVIOUS
<1>2. /\ phase = "running" /\ phase' = "input" /\ out_count' = 0
      /\ probe_row = Len(input) /\ probe_row' = 0
      /\ UNCHANGED <<boxed, answers, remaining, input, matches, match_offset>>
  BY <1>1 DEF ReturnInput, query
<1>3. /\ emitted' \in [Pair -> Nat] /\ out' \in [Pair -> Nat]
      /\ \A p \in Pair : Handed(p)' = Handed(p)
  BY <1>1, GivesChunk DEF ReturnInput, IInv
<1>4. Len(input) \in Nat
  BY <1>1, LenProperties DEF IInv, TypeOK
<1>5. TypeOK'
  BY <1>1, <1>2, <1>3, <1>4, SizeAssumption DEF IInv, TypeOK
<1>6. matches = <<>> /\ matches' = <<>>
  BY <1>1, <1>2, <1>4 DEF IInv, Resumable
<1>7. Delivered' /\ Resumable'
  BY <1>1, <1>2, <1>6 DEF IInv, Delivered, Resumable
<1>8. \A q \in Probe : ~ Pending(q) /\ ~ Pending(q)'
  BY <1>2, <1>4 DEF Pending
<1>9. \A q \in Probe : Position(q)' = Position(q)
  BY <1>2, <1>6, <1>8 DEF Position
<1>10. Accounted' /\ Unboxed'
  BY <1>1, <1>2, <1>3, <1>9 DEF IInv, Accounted, Unboxed, Pair, Count, Shown, Fetched
<1> QED BY <1>2, <1>5, <1>7, <1>10 DEF IInv

\* The pipeline ends between two chunks.
LEMMA EndKeeps == IInv /\ End => IInv'
<1>1. SUFFICES ASSUME IInv, End PROVE IInv'
  OBVIOUS
<1>2. /\ phase = "input" /\ phase' = "ended"
      /\ UNCHANGED <<boxed, answers, remaining, input, probe_row, matches, match_offset,
                     out, out_count, emitted>>
  BY <1>1 DEF End, query, state, chunk
<1>3. TypeOK' /\ Delivered'
  BY <1>1, <1>2 DEF IInv, TypeOK, Delivered
<1>4. matches = <<>> /\ matches' = <<>>
  BY <1>1, <1>2 DEF IInv, Resumable
<1>5. Resumable'
  BY <1>1, <1>2, <1>4 DEF IInv, Resumable
<1>6. \A q \in Probe : Position(q)' = Position(q)
  BY <1>2, <1>4 DEF Position, Pending
<1>7. Accounted' /\ Unboxed'
  BY <1>1, <1>2, <1>6 DEF IInv, Accounted, Handed, Unboxed, Count, Shown, Fetched
<1> QED BY <1>2, <1>3, <1>5, <1>7 DEF IInv

\* The current probe row is one of the chunk, and the only one with its number.
LEMMA CurrentOK ==
    ASSUME IInv, phase \in {"running", "output"}, probe_row < Len(input)
    PROVE  /\ Len(input) \in Nat /\ probe_row \in Nat /\ probe_row + 1 \in 1 .. Len(input)
           /\ Current \in Probe /\ Current \notin remaining /\ Pending(Current)
           /\ \A i \in probe_row + 2 .. Len(input) : input[i] # Current
<1>1. Len(input) \in Nat /\ probe_row \in 0 .. Len(input) /\ input \in Seq(Probe)
  BY LenProperties DEF IInv, TypeOK
<1>2. probe_row + 1 \in 1 .. Len(input) /\ probe_row + 1 \in probe_row + 1 .. Len(input)
  BY <1>1
<1>3. Current \in Probe
  BY <1>1, <1>2, ElementOfSeq DEF Current
<1>4. Current \notin remaining
  BY <1>2 DEF Current, IInv, Delivered
<1>5. Pending(Current)
  BY <1>2 DEF Pending, Current
<1>6. ASSUME NEW i \in probe_row + 2 .. Len(input) PROVE input[i] # Current
  <2>1. i \in 1 .. Len(input) /\ i # probe_row + 1
    BY <1>1
  <2> QED BY <1>2, <2>1 DEF Current, IInv, Delivered
<1> QED BY <1>1, <1>2, <1>3, <1>4, <1>5, <1>6

\* When the join moves on, the current probe row is the only one that is done.
LEMMA MovesOn ==
    ASSUME IInv, phase = "running", probe_row < Len(input), probe_row' = probe_row + 1,
           phase' \in {"running", "output"}, UNCHANGED <<remaining, input>>, NEW q \in Probe
    PROVE  /\ q # Current => (Pending(q)' <=> Pending(q))
           /\ q = Current => ~ Pending(q)' /\ q \notin remaining'
<1>1. /\ Len(input) \in Nat /\ probe_row \in Nat /\ probe_row + 1 \in 1 .. Len(input)
      /\ Current \notin remaining
      /\ \A i \in probe_row + 2 .. Len(input) : input[i] # Current
  BY CurrentOK
<1>2. probe_row' + 1 .. Len(input) = probe_row + 2 .. Len(input)
  BY <1>1
<1>3. probe_row + 1 .. Len(input) = {probe_row + 1} \union (probe_row + 2 .. Len(input))
  BY <1>1
<1>4. Pending(q)' <=> \E i \in probe_row + 2 .. Len(input) : input[i] = q
  BY <1>2 DEF Pending
<1>5. Pending(q) <=> Current = q \/ \E i \in probe_row + 2 .. Len(input) : input[i] = q
  BY <1>3 DEF Pending, Current
<1> QED BY <1>1, <1>4, <1>5

\* A probe row that is skipped has no id to pass.
LEMMA SkipProbePasses ==
    ASSUME IInv, SkipProbe, NEW q \in Probe
    PROVE  Position(q)' = Position(q)
<1>1. /\ phase = "running" /\ probe_row < Len(input) /\ probe_row' = probe_row + 1
      /\ Current \notin boxed \/ answers[Current] = <<>>
      /\ matches = <<>> /\ matches' = <<>>
      /\ UNCHANGED <<answers, remaining, phase, input>>
  BY DEF SkipProbe, query, Current, Resuming
<1>2. CASE q = Current
  <2>1. answers[q] = <<>>
    BY <1>1, <1>2 DEF IInv, Unboxed
  <2>2. Len(answers[q]) = 0
    BY <2>1
  <2> QED BY <1>1, <2>2 DEF Position
<1>3. CASE q # Current
  BY <1>1, <1>3, MovesOn DEF Position
<1> QED BY <1>2, <1>3

\* A probe row without a box or without an answer yields no pair (Execute).
LEMMA SkipProbeKeeps == IInv /\ SkipProbe => IInv'
<1>1. SUFFICES ASSUME IInv, SkipProbe PROVE IInv'
  OBVIOUS
<1>2. /\ phase = "running" /\ probe_row < Len(input) /\ ~ Resuming
      /\ Current \notin boxed \/ answers[Current] = <<>>
      /\ probe_row' = probe_row + 1
      /\ UNCHANGED <<boxed, answers, remaining, phase, input, matches, match_offset,
                     out, out_count, emitted>>
  BY <1>1 DEF SkipProbe, query, chunk, Current
<1>3. Len(input) \in Nat /\ probe_row \in Nat /\ probe_row + 1 \in 1 .. Len(input)
  BY <1>1, <1>2, CurrentOK
<1>4. matches = <<>> /\ matches' = <<>> /\ match_offset = 0
  BY <1>2 DEF Resuming
<1>5. TypeOK'
  BY <1>1, <1>2, <1>3 DEF IInv, TypeOK
<1>6. Delivered' /\ Resumable'
  BY <1>1, <1>2, <1>4 DEF IInv, Delivered, Resumable
<1>7. \A q \in Probe : Position(q)' = Position(q)
  BY <1>1, SkipProbePasses
<1>8. Accounted' /\ Unboxed'
  BY <1>1, <1>2, <1>7 DEF IInv, Accounted, Handed, Unboxed, Count, Shown, Fetched
<1> QED BY <1>2, <1>5, <1>6, <1>8 DEF IInv

\* A search makes the answer to the current probe row the matches, and passes no
\* id of it (Execute).
LEMMA SearchIndexKeeps == IInv /\ SearchIndex => IInv'
<1>1. SUFFICES ASSUME IInv, SearchIndex PROVE IInv'
  OBVIOUS
<1>2. /\ phase = "running" /\ probe_row < Len(input) /\ ~ Resuming /\ Current \in boxed
      /\ matches' = answers[Current] /\ matches' # <<>>
      /\ UNCHANGED <<boxed, answers, remaining, phase, input, probe_row, match_offset,
                     out, out_count, emitted>>
  BY <1>1 DEF SearchIndex, query, chunk, Current
<1>3. Current \in Probe /\ Current \notin remaining /\ Pending(Current)
  BY <1>1, <1>2, CurrentOK
<1>4. matches' \in Seq(Row \union Hidden)
  BY <1>1, <1>2, <1>3 DEF IInv, TypeOK
<1>5. Len(matches') \in Nat
  BY <1>4, LenProperties
<1>6. matches = <<>> /\ match_offset = 0 /\ match_offset' = 0
  BY <1>2 DEF Resuming
<1>7. TypeOK'
  BY <1>1, <1>2, <1>4, <1>5, <1>6 DEF IInv, TypeOK
<1>8. Delivered' /\ Resumable'
  BY <1>1, <1>2, <1>6 DEF IInv, Delivered, Resumable, Current
<1>9. \A q \in Probe : Position(q)' = Position(q)
  BY <1>2, <1>6 DEF Position, Pending, Current
<1>10. Accounted' /\ Unboxed'
  BY <1>1, <1>2, <1>9 DEF IInv, Accounted, Handed, Unboxed, Count, Shown, Fetched
<1> QED BY <1>2, <1>7, <1>8, <1>10 DEF IInv

\* A batch holds what its slots show, beside the current row.
LEMMA BatchOK ==
    ASSUME IInv, EmitBatch
    PROVE  /\ Batch \in [Pair -> Nat]
           /\ \A q \in Probe, x \in Row \union {Unset} :
                Batch[<<q, x>>] = IF q = Current
                                  THEN Cardinality({i \in Taken : Fetched(matches[i]) = x})
                                  ELSE 0
<1>1. ASSUME NEW p \in Pair PROVE Batch[p] \in Nat
  <2>1. IsFiniteSet(Taken)
    BY TakeOK, FS_Interval DEF IInv, Taken
  <2>2. IsFiniteSet({i \in Taken : <<input[probe_row + 1], Fetched(matches[i])>> = p})
    BY <2>1, FS_Subset
  <2> QED BY <2>2, FS_CardinalityType DEF Batch
<1>2. ASSUME NEW q \in Probe, NEW x \in Row \union {Unset}
      PROVE  Batch[<<q, x>>] = IF q = Current
                               THEN Cardinality({i \in Taken : Fetched(matches[i]) = x})
                               ELSE 0
  <2> DEFINE slots == {i \in Taken : <<input[probe_row + 1], Fetched(matches[i])>> = <<q, x>>}
  <2>1. Batch[<<q, x>>] = Cardinality(slots)
    BY DEF Batch, Pair
  <2>2. CASE q = Current
    <3>1. slots = {i \in Taken : Fetched(matches[i]) = x}
      BY <2>2 DEF Current
    <3> QED BY <2>1, <2>2, <3>1
  <2>3. CASE q # Current
    <3>1. slots = {}
      BY <2>3 DEF Current
    <3> QED BY <2>1, <2>3, <3>1, FS_EmptySet
  <2> QED BY <2>2, <2>3
<1> QED BY <1>1, <1>2 DEF Batch

\* A batch passes the ids it takes of the current answer, and no other.
LEMMA BatchPasses ==
    ASSUME IInv, EmitBatch, NEW q \in Probe
    PROVE  /\ q # Current => Position(q)' = Position(q)
           /\ q = Current => /\ Position(q) = match_offset
                             /\ Position(q)' = match_offset + Take
                             /\ matches = answers[q]
<1>1. /\ phase = "running" /\ probe_row < Len(input) /\ matches # <<>>
      /\ phase' \in {"running", "output"}
      /\ UNCHANGED <<boxed, answers, remaining, input>>
  BY DEF EmitBatch, query, Resuming, IInv, Resumable
<1>2. /\ Current \in Probe /\ Current \notin remaining /\ Pending(Current)
      /\ matches = answers[Current]
  BY <1>1, CurrentOK DEF IInv, Resumable
<1>3. ASSUME q # Current PROVE Position(q)' = Position(q)
  <2>1. CASE LastBatch
    <3>1. matches' = <<>> /\ probe_row' = probe_row + 1
      BY <2>1 DEF EmitBatch
    <3>2. Pending(q)' <=> Pending(q)
      BY <1>1, <1>3, <3>1, MovesOn
    <3> QED BY <1>1, <1>3, <3>1, <3>2 DEF Position
  <2>2. CASE ~ LastBatch
    <3>1. UNCHANGED <<matches, probe_row>>
      BY <2>2 DEF EmitBatch
    <3> QED BY <1>1, <1>3, <3>1 DEF Position, Pending, Current
  <2> QED BY <2>1, <2>2
<1>4. ASSUME q = Current PROVE Position(q)' = match_offset + Take
  <2>1. CASE LastBatch
    <3>1. matches' = <<>> /\ probe_row' = probe_row + 1 /\ match_offset + Take = Len(matches)
      BY <2>1 DEF EmitBatch, LastBatch
    <3>2. ~ Pending(q)' /\ q \notin remaining'
      BY <1>1, <1>4, <3>1, MovesOn
    <3> QED BY <1>1, <1>2, <1>4, <3>1, <3>2 DEF Position
  <2>2. CASE ~ LastBatch
    <3>1. UNCHANGED <<matches, probe_row>> /\ match_offset' = match_offset + Take
      BY <2>2 DEF EmitBatch
    <3>2. Pending(q)' /\ Current' = Current
      BY <1>1, <1>2, <1>4, <3>1 DEF Pending, Current
    <3> QED BY <1>1, <1>4, <3>1, <3>2 DEF Position
  <2> QED BY <2>1, <2>2
<1>5. q = Current => Position(q) = match_offset
  BY <1>1, <1>2 DEF Position
<1> QED BY <1>2, <1>3, <1>4, <1>5

\* A batch hands out what it passes (Execute).
LEMMA EmitBatchKeeps == IInv /\ EmitBatch => IInv'
<1>1. SUFFICES ASSUME IInv, EmitBatch PROVE IInv'
  OBVIOUS
<1>2. /\ phase = "running" /\ probe_row < Len(input) /\ matches # <<>>
      /\ phase' \in {"running", "output"}
      /\ out' = [p \in Pair |-> out[p] + Batch[p]]
      /\ out_count' = out_count + Take
      /\ UNCHANGED <<boxed, answers, remaining, input, emitted>>
  BY <1>1 DEF EmitBatch, query, Resuming, IInv, Resumable
<1>3. /\ Take \in Nat /\ match_offset \in Nat /\ Len(matches) \in Nat
      /\ match_offset + Take <= Len(matches) /\ out_count + Take \in 0 .. VectorSize
  BY <1>1, TakeOK DEF IInv
<1>4. Len(input) \in Nat /\ probe_row \in Nat /\ probe_row + 1 \in 1 .. Len(input)
  BY <1>1, <1>2, CurrentOK
<1>5. /\ Batch \in [Pair -> Nat]
      /\ \A q \in Probe, x \in Row \union {Unset} :
           Batch[<<q, x>>] = IF q = Current
                             THEN Cardinality({i \in Taken : Fetched(matches[i]) = x})
                             ELSE 0
  BY <1>1, BatchOK
<1>6. /\ out' \in [Pair -> Nat]
      /\ \A p \in Pair : Handed(p)' = Handed(p) + Batch[p] /\ Handed(p) \in Nat
  <2>1. out \in [Pair -> Nat] /\ emitted \in [Pair -> Nat] /\ emitted' = emitted
    BY <1>1, <1>2 DEF IInv, TypeOK
  <2> QED BY <1>2, <1>5, <2>1 DEF Handed
<1>7. \/ /\ matches' = <<>> /\ match_offset' = 0 /\ probe_row' = probe_row + 1
      \/ match_offset' = match_offset + Take /\ UNCHANGED <<matches, probe_row>>
  BY <1>1 DEF EmitBatch
<1>8. TypeOK'
  <2>1. /\ probe_row' \in 0 .. Len(input) /\ matches' \in Seq(Row \union Hidden)
        /\ match_offset' \in 0 .. Len(matches')
    <3>1. CASE matches' = <<>> /\ match_offset' = 0 /\ probe_row' = probe_row + 1
      <4>1. matches' \in Seq(Row \union Hidden) /\ Len(matches') = 0
        BY <3>1
      <4> QED BY <1>4, <3>1, <4>1
    <3>2. CASE match_offset' = match_offset + Take /\ UNCHANGED <<matches, probe_row>>
      BY <1>1, <1>3, <3>2 DEF IInv, TypeOK
    <3> QED BY <1>7, <3>1, <3>2
  <2> QED BY <1>1, <1>2, <1>3, <1>6, <2>1 DEF IInv, TypeOK
<1>9. Delivered' /\ Unboxed'
  BY <1>1, <1>2 DEF IInv, Delivered, Unboxed
<1>10. Resumable'
  BY <1>1, <1>2, <1>7 DEF IInv, Resumable, Current
<1>11. ASSUME NEW q \in Probe, NEW x \in Row \union {Unset}
       PROVE  Handed(<<q, x>>)' = Count(answers[q], Position(q)', x)
  <2>1. Handed(<<q, x>>) = Count(answers[q], Position(q), x)
    BY <1>1 DEF IInv, Accounted
  <2>2. Handed(<<q, x>>)' = Handed(<<q, x>>) + Batch[<<q, x>>] /\ Handed(<<q, x>>) \in Nat
    BY <1>6 DEF Pair
  <2>3. CASE q = Current
    <3>1. /\ Position(q) = match_offset /\ Position(q)' = match_offset + Take
          /\ matches = answers[q]
      BY <1>1, <2>3, BatchPasses
    <3>2. Count(matches, match_offset + Take, x)
            = Count(matches, match_offset, x)
                + Cardinality({i \in (match_offset + 1) .. (match_offset + Take) :
                                 Fetched(matches[i]) = x})
      <4> DEFINE m == match_offset
                 k == Take
      <4>1. m \in Nat /\ k \in Nat
        BY <1>3
      <4> HIDE DEF m, k
      <4>2. Count(matches, m + k, x)
              = Count(matches, m, x)
                  + Cardinality({i \in (m + 1) .. (m + k) : Fetched(matches[i]) = x})
        BY <4>1, CountAdds
      <4> QED BY <4>2 DEF m, k
    <3>3. Batch[<<q, x>>] = Cardinality({i \in (match_offset + 1) .. (match_offset + Take) :
                                           Fetched(matches[i]) = x})
      BY <1>5, <2>3 DEF Taken
    <3> QED BY <2>1, <2>2, <3>1, <3>2, <3>3
  <2>4. CASE q # Current
    <3>1. Batch[<<q, x>>] = 0
      BY <1>5, <2>4
    <3>2. Position(q)' = Position(q)
      BY <1>1, <2>4, BatchPasses
    <3> QED BY <2>1, <2>2, <3>1, <3>2
  <2> QED BY <2>3, <2>4
<1>12. Accounted'
  BY <1>2, <1>11 DEF Accounted, Count, Shown, Fetched
<1> QED BY <1>2, <1>8, <1>9, <1>10, <1>12 DEF IInv

\* Every step of the join keeps the invariant.
LEMMA Inductive == IInv /\ [Next]_vars => IInv'
<1>1. ASSUME IInv, UNCHANGED vars PROVE IInv'
  <2>1. /\ UNCHANGED <<boxed, answers, remaining, phase, input, probe_row, matches, match_offset>>
        /\ UNCHANGED <<out, out_count, emitted>>
    BY <1>1 DEF vars, query, state, chunk
  <2>2. TypeOK' /\ Delivered' /\ Resumable' /\ Unboxed'
    BY <1>1, <2>1 DEF IInv, TypeOK, Delivered, Resumable, Unboxed, Current
  <2>3. \A q \in Probe : Position(q)' = Position(q)
    BY <2>1 DEF Position, Pending, Current
  <2>4. Accounted'
    BY <1>1, <2>1, <2>3 DEF IInv, Accounted, Handed, Count, Shown, Fetched
  <2> QED BY <1>1, <2>1, <2>2, <2>4 DEF IInv
<1> QED BY <1>1, NextInputKeeps, TakeOutputKeeps, ReturnInputKeeps, EndKeeps, SkipProbeKeeps,
           SearchIndexKeeps, EmitBatchKeeps DEF Next, Execute

\* The invariant holds of every behaviour.
LEMMA Invariant == Spec => []IInv
BY InitHolds, Inductive, PTL DEF Spec

-----------------------------------------------------------------------------
(* What the join hands out.                                                *)

\* No chunk holds more rows than a vector, and what Execute keeps between calls
\* stays inside the chunk and the matches it points into.
THEOREM TypeCorrect == Spec => []TypeOK
<1>1. IInv => TypeOK
  BY DEF IInv
<1> QED BY <1>1, Invariant, PTL

\* What was handed out of an item never exceeds what the answers hold of it, and
\* reaches that at the end.
Within ==
    \A q \in Probe, x \in Row \union {Unset} :
        /\ Handed(<<q, x>>) <= Times(<<q, x>>)
        /\ phase = "input" /\ remaining = {} => Handed(<<q, x>>) = Times(<<q, x>>)
        /\ phase = "ended" /\ remaining = {} => Handed(<<q, x>>) = Times(<<q, x>>)

\* The join passes an answer from its front to its end.
LEMMA PositionOK ==
    ASSUME IInv, NEW q \in Probe
    PROVE  Len(answers[q]) \in Nat /\ Position(q) \in 0 .. Len(answers[q])
<1>1. answers[q] \in Seq(Row \union Hidden)
  BY DEF IInv, TypeOK
<1>2. Len(answers[q]) \in Nat
  BY <1>1, LenProperties
<1>3. CASE q \notin remaining /\ ~ Pending(q)
  BY <1>2, <1>3 DEF Position
<1>4. CASE ~ (q \notin remaining /\ ~ Pending(q)) /\ matches # <<>> /\ q = Current
  <2>1. matches = answers[q] /\ match_offset \in 0 .. Len(matches)
    BY <1>4 DEF IInv, Resumable, TypeOK
  <2> QED BY <1>4, <1>2, <2>1 DEF Position
<1>5. CASE ~ (q \notin remaining /\ ~ Pending(q)) /\ ~ (matches # <<>> /\ q = Current)
  BY <1>2, <1>5 DEF Position
<1> QED BY <1>2, <1>3, <1>4, <1>5

LEMMA HandedWithin == IInv => Within
<1> SUFFICES ASSUME IInv, NEW q \in Probe, NEW x \in Row \union {Unset}
             PROVE  /\ Handed(<<q, x>>) <= Times(<<q, x>>)
                    /\ phase \in {"input", "ended"} /\ remaining = {} =>
                         Handed(<<q, x>>) = Times(<<q, x>>)
  BY DEF Within
<1>1. Handed(<<q, x>>) = Count(answers[q], Position(q), x)
  BY DEF IInv, Accounted
<1>2. /\ Times(<<q, x>>) = Count(answers[q], Len(answers[q]), x)
      /\ Times(<<q, x>>) \in Nat
  BY TimesIsCount DEF IInv
<1>3. Len(answers[q]) \in Nat
  <2>1. answers[q] \in Seq(Row \union Hidden)
    BY DEF IInv, TypeOK
  <2> QED BY <2>1, LenProperties
<1>4. Position(q) \in 0 .. Len(answers[q])
  BY PositionOK
<1>5. Count(answers[q], Position(q), x) <= Count(answers[q], Len(answers[q]), x)
  <2> DEFINE s == answers[q]
             m == Position(q)
             n == Len(s)
  <2>1. m \in Nat /\ n \in Nat /\ m <= n
    BY <1>3, <1>4
  <2> HIDE DEF s, m, n
  <2>2. Count(s, m, x) <= Count(s, n, x)
    BY <2>1, CountGrows
  <2> QED BY <2>2 DEF s, m, n
<1>6. phase \in {"input", "ended"} /\ remaining = {} => Position(q) = Len(answers[q])
  BY DEF Position, Pending
<1> QED BY <1>1, <1>2, <1>5, <1>6

\* The join sends what the index answers, each row as often as it is answered and
\* an unwritten slot for each hidden id, and ends with all of it sent (Execute).
THEOREM JoinStreamsPairs == Spec => ImplementsRowStream
<1> DEFINE wanted == [p \in Pair |-> Times(p)]
           sent == [p \in Pair |-> Handed(p)]
           seen == <<wanted, sent, phase # "ended">>
<1>1. Init => Stream!Init
  <2>1. SUFFICES ASSUME Init PROVE Stream!Init
    OBVIOUS
  <2>2. IInv
    BY <2>1, InitHolds
  <2>3. \A p \in Pair : Times(p) \in Nat
    BY <2>2, TimesIsCount DEF IInv, Pair
  <2>4. wanted \in [Pair -> Nat]
    BY <2>3
  <2>5. sent = [p \in Pair |-> 0]
    BY <2>1 DEF Init, Handed, NoPairs
  <2> QED BY <2>1, <2>4, <2>5 DEF Init, Stream!Init
<1>2. IInv /\ [Next]_vars => [Stream!Next]_seen
  <2>1. SUFFICES ASSUME IInv, [Next]_vars PROVE Stream!Next \/ UNCHANGED seen
    OBVIOUS
  <2>2. IInv'
    BY <2>1, Inductive
  <2>3. UNCHANGED query => UNCHANGED wanted
    BY DEF query, Times, Fetched
  <2>4. CASE UNCHANGED vars
    BY <2>3, <2>4 DEF vars, chunk, Handed
  <2>5. CASE NextInput \/ SkipProbe \/ SearchIndex
    BY <2>3, <2>5 DEF NextInput, SkipProbe, SearchIndex, chunk, Handed
  <2>6. CASE TakeOutput \/ ReturnInput
    <3>1. \A p \in Pair : Handed(p)' = Handed(p)
      BY <2>1, <2>6, GivesChunk DEF IInv, TakeOutput, ReturnInput
    <3>2. sent' = sent
      BY <3>1
    <3>3. UNCHANGED wanted /\ phase # "ended" /\ phase' # "ended"
      BY <2>3, <2>6 DEF TakeOutput, ReturnInput
    <3> QED BY <3>2, <3>3
  <2>7. CASE EmitBatch
    <3>1. /\ phase # "ended" /\ phase' # "ended" /\ UNCHANGED query
          /\ out' = [p \in Pair |-> out[p] + Batch[p]] /\ UNCHANGED emitted
      BY <2>7 DEF EmitBatch
    <3>2. Batch \in [Pair -> Nat]
      BY <2>1, <2>7, BatchOK
    <3>3. \A p \in Pair : /\ Handed(p) \in Nat /\ Handed(p)' \in Nat
                          /\ Handed(p) <= Handed(p)'
      <4>1. out \in [Pair -> Nat] /\ emitted \in [Pair -> Nat] /\ emitted' = emitted
        BY <2>1, <3>1 DEF IInv, TypeOK
      <4> QED BY <3>1, <3>2, <4>1 DEF Handed
    <3>4. \A p \in Pair : Handed(p)' <= Times(p)
      <4>1. Within'
        BY <2>2, HandedWithin, PTL
      <4>2. \A p \in Pair : Handed(p)' <= Times(p)'
        BY <4>1 DEF Within, Pair
      <4>3. \A p \in Pair : Times(p)' = Times(p)
        BY <3>1 DEF query, Times, Fetched
      <4> QED BY <4>2, <4>3
    <3>5. sent' \in [Pair -> Nat]
      BY <3>3
    <3>6. \A p \in Pair : sent[p] <= sent'[p] /\ sent'[p] <= wanted[p]
      BY <3>3, <3>4
    <3>7. Stream!Send
      BY <2>3, <3>1, <3>5, <3>6 DEF Stream!Send
    <3> QED BY <3>7 DEF Stream!Next
  <2>8. CASE End
    <3>1. /\ phase = "input" /\ phase' = "ended" /\ remaining = {}
          /\ UNCHANGED query /\ sent' = sent
      BY <2>8 DEF End, chunk, Handed
    <3>2. \A p \in Pair : Handed(p) = Times(p)
      BY <2>1, <3>1, HandedWithin DEF Within, Pair
    <3>3. sent = wanted
      BY <3>2
    <3>4. Stream!End
      BY <2>3, <3>1, <3>3 DEF Stream!End
    <3> QED BY <3>4 DEF Stream!Next
  <2> QED BY <2>1, <2>4, <2>5, <2>6, <2>7, <2>8 DEF Next, Execute
<1> QED BY <1>1, <1>2, Invariant, PTL DEF Spec, ImplementsRowStream, Stream!Spec

-----------------------------------------------------------------------------
(* What the engine has in hand when the join has ended.                    *)

\* The engine, and not the output chunk, has each pair as often as the index
\* answered it.  Where the answer is the rows a nested loop joins with the probe
\* row, each once and no other id, it has those pairs, once, and nothing else.
NestedLoopAnswered ==
    phase = "ended" =>
        \A q \in Probe, x \in Row \union {Unset} :
            /\ emitted[<<q, x>>] = Times(<<q, x>>)
            /\ \A joined \in SUBSET Row :
                 answers[q] \in SetToSeqs(joined) =>
                     emitted[<<q, x>>] = IF x \in joined THEN 1 ELSE 0

\* Between two input chunks no row waits in the output chunk, and the join ends
\* behind the last input chunk.
NothingHeld ==
    /\ phase \in {"input", "ended"} => out = NoPairs
    /\ phase = "ended" => remaining = {}

LEMMA NothingHeldStays == IInv /\ NothingHeld /\ [Next]_vars => NothingHeld'
<1>1. SUFFICES ASSUME NothingHeld, [Next]_vars PROVE NothingHeld'
  OBVIOUS
<1>2. CASE NextInput
  BY <1>2 DEF NextInput, NothingHeld
<1>3. CASE TakeOutput
  BY <1>3 DEF TakeOutput, NothingHeld
<1>4. CASE ReturnInput
  BY <1>4 DEF ReturnInput, NothingHeld
<1>5. CASE End
  BY <1>1, <1>5 DEF End, chunk, NothingHeld
<1>6. CASE SkipProbe \/ SearchIndex
  BY <1>6 DEF SkipProbe, SearchIndex, NothingHeld
<1>7. CASE EmitBatch
  BY <1>7 DEF EmitBatch, NothingHeld
<1>8. CASE UNCHANGED vars
  BY <1>1, <1>8 DEF vars, chunk, NothingHeld
<1> QED BY <1>1, <1>2, <1>3, <1>4, <1>5, <1>6, <1>7, <1>8 DEF Next, Execute

\* An answer that is a sequence of a set of rows shows each of them once.
LEMMA ExactAnswer ==
    ASSUME TypeOK, NEW q \in Probe, NEW joined \in SUBSET Row, answers[q] \in SetToSeqs(joined),
           NEW x \in Row \union {Unset}
    PROVE  Times(<<q, x>>) = IF x \in joined THEN 1 ELSE 0
<1> DEFINE s == answers[q]
           slots == {i \in 1 .. Len(s) : Fetched(s[i]) = x}
<1>1. IsFiniteSet(joined)
  BY RowAssumption, FS_Subset
<1>2. /\ s \in Seq(joined)
      /\ \A i, j \in 1 .. Len(s) : i # j => s[i] # s[j]
      /\ \A y \in joined : \E i \in 1 .. Len(s) : s[i] = y
  BY <1>1, SeqMeetsAll
<1>3. DOMAIN s = 1 .. Len(s) /\ \A i \in 1 .. Len(s) : s[i] \in joined /\ Fetched(s[i]) = s[i]
  BY <1>2, LenProperties, ElementOfSeq DEF Fetched
<1>4. Times(<<q, x>>) = Cardinality(slots)
  BY <1>3 DEF Times
<1>5. CASE x \in joined
  <2>1. PICK i \in 1 .. Len(s) : s[i] = x
    BY <1>2, <1>5
  <2>2. i \in slots
    BY <1>3, <2>1
  <2>3. ASSUME NEW j \in slots PROVE j = i
    <3>1. j \in 1 .. Len(s) /\ s[j] = x
      BY <1>3
    <3> QED BY <1>2, <2>1, <3>1
  <2>4. slots = {i}
    BY <2>2, <2>3
  <2> QED BY <1>4, <1>5, <2>4, FS_Singleton
<1>6. CASE x \notin joined
  <2>1. slots = {}
    BY <1>3, <1>6
  <2> QED BY <1>4, <1>6, <2>1, FS_EmptySet
<1> QED BY <1>5, <1>6

\* A join that has ended handed the engine all the index answered, and where that
\* was exact the pairs of a nested-loop join: none is left in a chunk that did not
\* fill.
THEOREM JoinIsNestedLoop == Spec => []NestedLoopAnswered
<1>1. Init => IInv /\ NothingHeld
  BY InitHolds DEF Init, NothingHeld
<1>2. IInv /\ NothingHeld /\ [Next]_vars => IInv' /\ NothingHeld'
  BY Inductive, NothingHeldStays
<1>3. IInv /\ NothingHeld => NestedLoopAnswered
  <2>1. SUFFICES ASSUME IInv, phase = "ended", out = NoPairs, remaining = {},
                        NEW q \in Probe, NEW x \in Row \union {Unset}
                 PROVE  /\ emitted[<<q, x>>] = Times(<<q, x>>)
                        /\ \A joined \in SUBSET Row :
                             answers[q] \in SetToSeqs(joined) =>
                                 emitted[<<q, x>>] = IF x \in joined THEN 1 ELSE 0
    BY DEF NothingHeld, NestedLoopAnswered
  <2>2. <<q, x>> \in Pair
    BY DEF Pair
  <2>3. Handed(<<q, x>>) = Times(<<q, x>>)
    BY <2>1, HandedWithin DEF Within
  <2>4. Handed(<<q, x>>) = emitted[<<q, x>>]
    BY <2>1, <2>2 DEF Handed, NoPairs, IInv, TypeOK
  <2> QED BY <2>1, <2>3, <2>4, ExactAnswer DEF IInv
<1> QED BY <1>1, <1>2, <1>3, PTL DEF Spec

-----------------------------------------------------------------------------
(* The end of the join: what is done is not done again, so there are       *)
(* finitely many steps.                                                    *)

InInput(q) == phase \in {"running", "output"} /\ \E i \in 1 .. Len(input) : input[i] = q

\* The probe rows that are still to be searched for or skipped, the positions of
\* the answers still to be passed, and the probe rows whose chunk is still to be returned.
ToSearch == {q \in Probe : q \in remaining \/ (Pending(q) /\ ~ (matches # <<>> /\ q = Current))}
ToPass   == {p \in Probe \X Nat : p[2] \in (Position(p[1]) + 1) .. Len(answers[p[1]])}
ToReturn == {q \in Probe : q \in remaining \/ InInput(q)}

\* Nothing comes back, and of something there is less left.  The engine taking a
\* full chunk is the one step that leaves all as it was, and a call follows it.
Onward ==
    /\ remaining' \subseteq remaining /\ ToSearch' \subseteq ToSearch
    /\ ToPass' \subseteq ToPass /\ ToReturn' \subseteq ToReturn
    /\ phase # "ended"
    /\ \/ remaining' # remaining \/ ToSearch' # ToSearch
       \/ ToPass' # ToPass \/ ToReturn' # ToReturn
       \/ phase' = "ended"
       \/ phase = "output" /\ phase' = "running"

\* A call starts with room in the output chunk and a probe row in the input, and
\* what it resumes has matches left.
Room ==
    /\ phase # "output" => out_count < VectorSize
    /\ phase \in {"running", "output"} => Len(input) > 0
    /\ matches # <<>> => match_offset < Len(matches)

\* A sequence of a set that is not empty is not empty.
LEMMA SeqOfSome ==
    ASSUME NEW S, IsFiniteSet(S), S # {}, NEW s \in SetToSeqs(S)
    PROVE  Len(s) \in Nat /\ Len(s) > 0 /\ s # <<>>
<1>1. PICK x \in S : \E i \in 1 .. Len(s) : s[i] = x
  BY SeqMeetsAll
<1>2. s \in Seq(S)
  BY SeqMeetsAll
<1> QED BY <1>1, <1>2, LenProperties

\* A step that passes no id leaves all of them to pass.
LEMMA NonePassed ==
    ASSUME UNCHANGED answers, \A q \in Probe : Position(q)' = Position(q)
    PROVE  ToPass' = ToPass
BY DEF ToPass

LEMMA RoomAtFirst == Init => Room
BY SizeAssumption DEF Init, Room

LEMMA RoomStays == IInv /\ Room /\ [Next]_vars => Room'
<1>1. SUFFICES ASSUME IInv, Room, [Next]_vars PROVE Room'
  OBVIOUS
<1>2. /\ VectorSize \in Nat /\ VectorSize > 0 /\ out_count \in 0 .. VectorSize
      /\ phase = "input" => matches = <<>>
  BY <1>1, SizeAssumption DEF IInv, TypeOK, Resumable
<1>3. CASE NextInput
  <2>1. PICK S \in SUBSET remaining : S # {} /\ input' \in SetToSeqs(S)
    BY <1>3 DEF NextInput
  <2>2. IsFiniteSet(S)
    BY <1>1, ProbeAssumption, FS_Subset DEF IInv, TypeOK
  <2>3. Len(input') > 0
    BY <2>1, <2>2, SeqOfSome
  <2>4. phase = "input" /\ UNCHANGED <<out_count, matches, match_offset>>
    BY <1>3 DEF NextInput, chunk, state
  <2> QED BY <1>1, <2>3, <2>4 DEF Room
<1>4. CASE TakeOutput
  BY <1>1, <1>2, <1>4 DEF TakeOutput, state, Room
<1>5. CASE ReturnInput
  BY <1>1, <1>2, <1>5 DEF ReturnInput, Room
<1>6. CASE End
  BY <1>1, <1>6 DEF End, state, chunk, Room
<1>7. CASE SkipProbe
  BY <1>1, <1>7 DEF SkipProbe, chunk, Room
<1>8. CASE SearchIndex
  <2>1. /\ Current \in Probe /\ match_offset = 0
        /\ matches' = answers[Current] /\ matches' # <<>>
        /\ UNCHANGED <<phase, input, out_count, match_offset>>
    BY <1>1, <1>8, CurrentOK DEF SearchIndex, chunk, Resuming, Current
  <2>2. matches' \in Seq(Row \union Hidden)
    BY <1>1, <2>1 DEF IInv, TypeOK
  <2>3. Len(matches') > 0
    BY <2>1, <2>2, EmptySeq, LenProperties
  <2> QED BY <1>1, <2>1, <2>3 DEF Room
<1>9. CASE EmitBatch
  <2>1. /\ Take \in Nat /\ match_offset \in Nat /\ Len(matches) \in Nat
        /\ match_offset + Take <= Len(matches) /\ out_count + Take \in 0 .. VectorSize
    BY <1>1, TakeOK DEF IInv
  <2>2. /\ phase = "running" /\ out_count' = out_count + Take /\ UNCHANGED input
        /\ phase' = IF out_count' = VectorSize THEN "output" ELSE "running"
    BY <1>9 DEF EmitBatch
  <2>3. matches' # <<>> => match_offset' < Len(matches')
    <3>1. CASE LastBatch
      BY <1>9, <3>1 DEF EmitBatch
    <3>2. CASE ~ LastBatch
      <4>1. match_offset' = match_offset + Take /\ UNCHANGED matches
        BY <1>9, <3>2 DEF EmitBatch
      <4>2. match_offset + Take # Len(matches)
        BY <3>2 DEF LastBatch
      <4> QED BY <2>1, <4>1, <4>2
    <3> QED BY <3>1, <3>2
  <2> QED BY <1>1, <1>2, <2>1, <2>2, <2>3 DEF Room
<1>10. CASE UNCHANGED vars
  BY <1>1, <1>10 DEF vars, state, chunk, Room
<1> QED BY <1>1, <1>3, <1>4, <1>5, <1>6, <1>7, <1>8, <1>9, <1>10 DEF Next, Execute

\* A batch takes one match at least: the first that is left.
LEMMA TakesOne ==
    ASSUME IInv, Room, phase = "running", matches # <<>>
    PROVE  /\ match_offset \in Nat /\ Len(matches) \in Nat /\ Take \in Nat /\ Take > 0
           /\ match_offset + 1 \in 1 .. Len(matches)
           /\ match_offset + 1 \in 1 .. (match_offset + Take)
<1> DEFINE a == Len(matches) - match_offset
           b == VectorSize - out_count
<1>1. /\ Len(matches) \in Nat /\ match_offset \in 0 .. Len(matches)
      /\ VectorSize \in Nat /\ out_count \in 0 .. VectorSize
  BY SizeAssumption, LenProperties DEF IInv, TypeOK
<1>2. a \in Nat /\ b \in Nat /\ a > 0 /\ b > 0
  BY <1>1 DEF Room
<1> HIDE DEF a, b
<1>3. \E x \in {a, b} : \A y \in {a, b} : x <= y
  BY <1>2
<1>4. Min({a, b}) \in {a, b}
  BY <1>3 DEF Min
<1>5. Take = Min({a, b})
  BY DEF Take, a, b
<1>6. Take \in Nat /\ Take > 0
  BY <1>2, <1>4, <1>5
<1>7. match_offset < Len(matches)
  BY DEF Room
<1> QED BY <1>1, <1>6, <1>7

\* A batch passes the first of the matches that are left.
LEMMA EmitBatchOnward == IInv /\ Room /\ EmitBatch => Onward
<1>1. SUFFICES ASSUME IInv, Room, EmitBatch PROVE Onward
  OBVIOUS
<1>2. /\ phase = "running" /\ probe_row < Len(input) /\ matches # <<>>
      /\ phase' \in {"running", "output"} /\ UNCHANGED <<remaining, input>>
  BY <1>1 DEF EmitBatch, Resuming, IInv, Resumable
<1>3. /\ Current \in Probe /\ Current \notin remaining /\ Pending(Current)
  BY <1>1, <1>2, CurrentOK
<1>4. /\ match_offset \in Nat /\ Len(matches) \in Nat /\ Take \in Nat
      /\ match_offset + 1 \in 1 .. Len(matches)
      /\ match_offset + 1 \in 1 .. (match_offset + Take)
  BY <1>1, <1>2, TakesOne
<1>5. PICK c \in Probe : c = Current
  BY <1>3
<1>6. /\ Position(c) = match_offset /\ Position(c)' = match_offset + Take
      /\ answers[c] = matches /\ UNCHANGED answers
      /\ \A q \in Probe : q # c => Position(q)' = Position(q)
  BY <1>1, <1>5, BatchPasses DEF EmitBatch, query
<1>7. ToPass' \subseteq ToPass
  <2>1. \A q \in Probe : Position(q) \in Nat /\ Len(answers[q]) \in Nat
    BY <1>1, PositionOK
  <2>2. \A q \in Probe : Position(q)' \in Nat /\ Position(q) <= Position(q)'
    BY <1>4, <1>6, <2>1
  <2>3. ASSUME NEW q \in Probe, NEW i \in Nat, i \in (Position(q)' + 1) .. Len(answers[q])
        PROVE  i \in (Position(q) + 1) .. Len(answers[q])
    BY <2>1, <2>2, <2>3
  <2> QED BY <1>6, <2>3 DEF ToPass
<1>8. ToPass' # ToPass
  <2>1. <<c, match_offset + 1>> \in ToPass
    BY <1>4, <1>6 DEF ToPass
  <2>2. <<c, match_offset + 1>> \notin ToPass'
    BY <1>4, <1>6 DEF ToPass
  <2> QED BY <2>1, <2>2
<1>9. ToSearch' \subseteq ToSearch
  <2>1. CASE LastBatch
    <3>1. matches' = <<>> /\ probe_row' = probe_row + 1
      BY <1>1, <2>1 DEF EmitBatch
    <3>2. \A q \in Probe : /\ q # Current => (Pending(q)' <=> Pending(q))
                           /\ q = Current => ~ Pending(q)' /\ q \notin remaining'
      BY <1>1, <1>2, <3>1, MovesOn
    <3> QED BY <1>2, <3>1, <3>2 DEF ToSearch
  <2>2. CASE ~ LastBatch
    <3>1. match_offset' = match_offset + Take /\ UNCHANGED <<matches, probe_row>>
      BY <1>1, <2>2 DEF EmitBatch
    <3>2. Current' = Current /\ \A q \in Probe : Pending(q)' <=> Pending(q)
      BY <1>2, <3>1 DEF Pending, Current
    <3> QED BY <1>2, <3>1, <3>2 DEF ToSearch
  <2> QED BY <2>1, <2>2
<1>10. ToReturn' = ToReturn
  BY <1>2 DEF ToReturn, InInput
<1> QED BY <1>2, <1>7, <1>8, <1>9, <1>10 DEF Onward

\* A new chunk takes its probe rows from those that remain, and they are still to
\* be searched for.
LEMMA NextInputOnward == IInv /\ NextInput => Onward
<1>1. SUFFICES ASSUME IInv, NextInput PROVE Onward
  OBVIOUS
<1>2. PICK S \in SUBSET remaining :
        S # {} /\ input' \in SetToSeqs(S) /\ remaining' = remaining \ S
  BY <1>1 DEF NextInput
<1>3. /\ phase = "input" /\ phase' = "running" /\ probe_row = 0 /\ matches = <<>>
      /\ UNCHANGED <<answers, probe_row, matches, match_offset>>
  BY <1>1 DEF NextInput, query, state, IInv, Resumable
<1>4. IsFiniteSet(S)
  BY <1>1, ProbeAssumption, FS_Subset DEF IInv, TypeOK
<1>5. /\ Len(input') \in Nat
      /\ \A i \in 1 .. Len(input') : input'[i] \in S
      /\ \A q \in S : \E i \in 1 .. Len(input') : input'[i] = q
  BY <1>2, <1>4, SeqMeetsAll, LenProperties
<1>6. \A q \in Probe : Pending(q)' \/ InInput(q)' => q \in S
  BY <1>3, <1>5 DEF Pending, InInput
<1>7. \A q \in Probe : ~ Pending(q) /\ ~ InInput(q)
  BY <1>3 DEF Pending, InInput
<1>8. ToSearch' \subseteq ToSearch /\ ToReturn' \subseteq ToReturn
  BY <1>2, <1>6 DEF ToSearch, ToReturn
<1>9. ASSUME NEW q \in Probe PROVE Position(q)' = Position(q)
  <2>1. Pending(q)' <=> q \in S
    BY <1>3, <1>5 DEF Pending
  <2> QED BY <1>2, <1>3, <1>7, <2>1 DEF Position
<1>10. ToPass' = ToPass
  BY <1>3, <1>9, NonePassed
<1> QED BY <1>2, <1>3, <1>8, <1>10 DEF Onward

\* The engine takes a full chunk: nothing is done, and the next call starts.
LEMMA TakeOutputOnward == IInv /\ TakeOutput => Onward
<1>1. SUFFICES ASSUME IInv, TakeOutput PROVE Onward
  OBVIOUS
<1>2. /\ phase = "output" /\ phase' = "running"
      /\ UNCHANGED <<answers, remaining, input, probe_row, matches, match_offset>>
  BY <1>1 DEF TakeOutput, query, state
<1>3. /\ Current' = Current
      /\ \A q \in Probe : (Pending(q)' <=> Pending(q)) /\ (InInput(q)' <=> InInput(q))
  BY <1>2 DEF Current, Pending, InInput
<1>4. \A q \in Probe : Position(q)' = Position(q)
  BY <1>2, <1>3 DEF Position
<1>5. ToSearch' \subseteq ToSearch /\ ToReturn' \subseteq ToReturn
  BY <1>2, <1>3 DEF ToSearch, ToReturn
<1>6. ToPass' = ToPass
  BY <1>2, <1>4, NonePassed
<1> QED BY <1>2, <1>5, <1>6 DEF Onward

\* A chunk that is done is returned, with one probe row at least.
LEMMA ReturnInputOnward == IInv /\ Room /\ ReturnInput => Onward
<1>1. SUFFICES ASSUME IInv, Room, ReturnInput PROVE Onward
  OBVIOUS
<1>2. /\ phase = "running" /\ phase' = "input" /\ probe_row = Len(input) /\ probe_row' = 0
      /\ UNCHANGED <<answers, remaining, input, matches, match_offset>>
  BY <1>1 DEF ReturnInput, query
<1>3. Len(input) \in Nat /\ Len(input) > 0 /\ 1 \in 1 .. Len(input)
  BY <1>1, <1>2, LenProperties DEF IInv, TypeOK, Room
<1>4. matches = <<>> /\ matches' = <<>>
  BY <1>1, <1>2, <1>3 DEF IInv, Resumable
<1>5. \A q \in Probe : ~ Pending(q) /\ ~ Pending(q)' /\ ~ InInput(q)'
  BY <1>2, <1>3 DEF Pending, InInput
<1>6. ToSearch' \subseteq ToSearch /\ ToReturn' \subseteq ToReturn
  BY <1>2, <1>5 DEF ToSearch, ToReturn
<1>7. \A q \in Probe : Position(q)' = Position(q)
  BY <1>2, <1>4, <1>5 DEF Position
<1>8. ToPass' = ToPass
  BY <1>2, <1>7, NonePassed
<1>9. PICK q \in Probe : q = input[1]
  BY <1>1, <1>3, ElementOfSeq DEF IInv, TypeOK
<1>10. InInput(q) /\ q \notin remaining /\ ~ InInput(q)'
  BY <1>1, <1>2, <1>3, <1>5, <1>9 DEF InInput, IInv, Delivered
<1>11. q \in ToReturn /\ q \notin ToReturn'
  BY <1>2, <1>10 DEF ToReturn
<1> QED BY <1>2, <1>6, <1>8, <1>11 DEF Onward

\* The pipeline ends once.
LEMMA EndOnward == IInv /\ End => Onward
<1>1. SUFFICES ASSUME IInv, End PROVE Onward
  OBVIOUS
<1>2. /\ phase = "input" /\ phase' = "ended" /\ matches = <<>>
      /\ UNCHANGED <<answers, remaining, input, probe_row, matches, match_offset>>
  BY <1>1 DEF End, query, state, IInv, Resumable
<1>3. \A q \in Probe : ~ Pending(q) /\ ~ Pending(q)' /\ ~ InInput(q) /\ ~ InInput(q)'
  BY <1>2 DEF Pending, InInput
<1>4. \A q \in Probe : Position(q)' = Position(q)
  BY <1>2, <1>3 DEF Position
<1>5. ToSearch' \subseteq ToSearch /\ ToReturn' \subseteq ToReturn
  BY <1>2, <1>3 DEF ToSearch, ToReturn
<1>6. ToPass' = ToPass
  BY <1>2, <1>4, NonePassed
<1> QED BY <1>2, <1>5, <1>6 DEF Onward

\* A probe row that is skipped needs no search any more.
LEMMA SkipProbeOnward == IInv /\ SkipProbe => Onward
<1>1. SUFFICES ASSUME IInv, SkipProbe PROVE Onward
  OBVIOUS
<1>2. /\ phase = "running" /\ probe_row < Len(input) /\ probe_row' = probe_row + 1
      /\ matches = <<>> /\ matches' = <<>>
      /\ UNCHANGED <<answers, remaining, phase, input, match_offset>>
  BY <1>1 DEF SkipProbe, query, Resuming
<1>3. PICK c \in Probe : c = Current
  BY <1>1, <1>2, CurrentOK
<1>4. c \notin remaining /\ Pending(c)
  BY <1>1, <1>2, <1>3, CurrentOK
<1>5. \A q \in Probe : /\ q # c => (Pending(q)' <=> Pending(q))
                       /\ q = c => ~ Pending(q)' /\ q \notin remaining'
  BY <1>1, <1>2, <1>3, MovesOn
<1>6. ToSearch' \subseteq ToSearch
  BY <1>2, <1>4, <1>5 DEF ToSearch
<1>7. c \in ToSearch /\ c \notin ToSearch'
  BY <1>2, <1>4, <1>5 DEF ToSearch
<1>8. \A q \in Probe : Position(q)' = Position(q)
  BY <1>1, SkipProbePasses
<1>9. ToPass' = ToPass
  BY <1>2, <1>8, NonePassed
<1>10. ToReturn' \subseteq ToReturn
  BY <1>2 DEF ToReturn, InInput
<1> QED BY <1>2, <1>6, <1>7, <1>9, <1>10 DEF Onward

\* A probe row is searched for once: its matches are kept until the last is passed.
LEMMA SearchIndexOnward == IInv /\ SearchIndex => Onward
<1>1. SUFFICES ASSUME IInv, SearchIndex PROVE Onward
  OBVIOUS
<1>2. /\ phase = "running" /\ probe_row < Len(input) /\ matches = <<>> /\ match_offset = 0
      /\ UNCHANGED <<answers, remaining, phase, input, probe_row, match_offset>>
  BY <1>1 DEF SearchIndex, query, Resuming
<1>3. matches' # <<>>
  BY <1>1 DEF SearchIndex
<1>4. PICK c \in Probe : c = Current
  BY <1>1, <1>2, CurrentOK
<1>5. c \notin remaining /\ Pending(c) /\ Current' = c
  BY <1>1, <1>2, <1>4, CurrentOK DEF Current
<1>6. \A q \in Probe : Pending(q)' <=> Pending(q)
  BY <1>2 DEF Pending
<1>7. ToSearch' \subseteq ToSearch
  BY <1>2, <1>6 DEF ToSearch
<1>8. c \in ToSearch /\ c \notin ToSearch'
  BY <1>2, <1>3, <1>5, <1>6 DEF ToSearch
<1>9. \A q \in Probe : Position(q)' = Position(q)
  BY <1>2, <1>5, <1>6 DEF Position
<1>10. ToPass' = ToPass
  BY <1>2, <1>9, NonePassed
<1>11. ToReturn' \subseteq ToReturn
  BY <1>2 DEF ToReturn, InInput
<1> QED BY <1>2, <1>7, <1>8, <1>10, <1>11 DEF Onward

\* Every step of the join brings it closer to its end: no probe row is delivered,
\* searched for or returned twice, no position of an answer is passed twice, and a
\* call follows each full chunk the engine takes.  With finitely many probe rows and
\* answers of finite length the join has finitely many steps (Execute).
THEOREM JoinMovesOn == Spec => [][Onward]_vars
<1>1. Init => IInv /\ Room
  BY InitHolds, RoomAtFirst
<1>2. IInv /\ Room /\ [Next]_vars => IInv' /\ Room'
  BY Inductive, RoomStays
<1>3. IInv /\ Room /\ [Next]_vars => [Onward]_vars
  BY NextInputOnward, TakeOutputOnward, ReturnInputOnward, EndOnward, SkipProbeOnward,
     SearchIndexOnward, EmitBatchOnward DEF Next, Execute
<1> QED BY <1>1, <1>2, <1>3, PTL DEF Spec

\* Until the end the engine has an input or an output chunk to go on with, or the
\* call has a probe row to skip, to search for or to emit matches of.
GoesOn ==
    \/ phase \in {"output", "ended"}
    \/ /\ phase = "input"
       /\ \/ remaining = {}
          \/ \E S \in SUBSET remaining :
               S # {} /\ Cardinality(S) <= VectorSize /\ SetToSeqs(S) # {}
    \/ phase = "running" /\ probe_row = Len(input)
    \/ /\ phase = "running" /\ probe_row < Len(input)
       /\ \/ Resuming
          \/ Current \notin boxed \/ answers[Current] = <<>>
          \/ Current \in boxed /\ answers[Current] # <<>>

\* A finite set is the set of some sequence.
LEMMA SomeSeq ==
    ASSUME NEW S, IsFiniteSet(S)
    PROVE  SetToSeqs(S) # {}
<1> DEFINE n == Cardinality(S)
<1>1. ExistsBijection(1 .. n, S)
  BY FS_CardinalityType
<1>2. PICK f \in Bijection(1 .. n, S) : TRUE
  BY <1>1 DEF ExistsBijection
<1>3. f \in [1 .. n -> S] /\ \A i, j \in 1 .. n : i # j => f[i] # f[j]
  BY <1>2 DEF Bijection, Injection, IsInjective
<1> QED BY <1>3 DEF SetToSeqs

\* The join is stuck nowhere before its end: no call meets a state of probe row,
\* matches and offset that none of its branches takes (Execute).
THEOREM JoinGoesOn == Spec => []GoesOn
<1>1. IInv => GoesOn
  <2>1. SUFFICES ASSUME IInv PROVE GoesOn
    OBVIOUS
  <2>2. /\ phase \in {"input", "running", "output", "ended"}
        /\ Len(input) \in Nat /\ probe_row \in 0 .. Len(input) /\ VectorSize \in Nat \ {0}
    BY <2>1, SizeAssumption, LenProperties DEF IInv, TypeOK
  <2>3. CASE phase = "input" /\ remaining # {}
    <3>1. PICK q \in remaining : TRUE
      BY <2>3
    <3>2. IsFiniteSet({q}) /\ Cardinality({q}) = 1
      BY FS_Singleton
    <3>3. SetToSeqs({q}) # {}
      BY <3>2, SomeSeq
    <3>4. {q} \in SUBSET remaining /\ {q} # {} /\ Cardinality({q}) <= VectorSize
      BY <2>2, <3>2
    <3> QED BY <2>3, <3>3, <3>4 DEF GoesOn
  <2>4. CASE phase = "running" /\ probe_row < Len(input)
    BY <2>4 DEF GoesOn
  <2>5. CASE phase \in {"output", "ended"} \/ (phase = "input" /\ remaining = {})
    BY <2>5 DEF GoesOn
  <2>6. CASE phase = "running" /\ ~ (probe_row < Len(input))
    BY <2>2, <2>6 DEF GoesOn
  <2> QED BY <2>2, <2>3, <2>4, <2>5, <2>6
<1> QED BY <1>1, Invariant, PTL
=============================================================================
