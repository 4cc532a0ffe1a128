-------------------------- MODULE VectorLoops_proof --------------------------
(***************************************************************************)
(* The loops of split and difference compute their closed forms, for every *)
(* vector and every number of parts: the bounds of MCVectorUtils, which    *)
(* are constants here, may have any value.                                 *)
(***************************************************************************)
EXTENDS MCVectorUtils, VectorUtils_proof

\* The locals of split before its i-th iteration: the chunks so far are
\* those of the closed form, and remain counts the elements left over.
chunk(k) == SubSeq(vec, ChunkEnd(Len(vec), n, k - 1) + 1,
                        ChunkEnd(Len(vec), n, k))
SplitSoFar ==
  /\ i \in 0 .. Smaller(n, Len(vec))
  /\ begin = ChunkEnd(Len(vec), n, i) /\ end = begin
  /\ remain = IF i < Len(vec) % n THEN (Len(vec) % n) - i ELSE 0
  /\ result = [k \in 1 .. i |-> chunk(k)]

\* The positions that difference has kept so far.
Kept == {j \in 1 .. d : ~contains(subset, vec[j])}
DifferenceSoFar ==
  /\ b \in Nat /\ d \in 0 .. Len(vec)
  /\ b > 0 => SplitDone /\ minus = Select(vec, Kept)

IInv ==
  /\ vec \in Seq(1 .. MaxElement)
  /\ n \in Nat \ {0}
  /\ SplitSoFar
  /\ DifferenceSoFar
-----------------------------------------------------------------------------
\* Appending its last entry to the rest of a vector makes the vector.
LEMMA AppendLast ==
  ASSUME NEW T, NEW len \in Nat, NEW f \in [1 .. len + 1 -> T]
  PROVE  Append([k \in 1 .. len |-> f[k]], f[len + 1]) = f
<1> DEFINE front == [k \in 1 .. len |-> f[k]]
           app   == Append(front, f[len + 1])
<1>1. front \in [1 .. len -> T] /\ f[len + 1] \in T
  OBVIOUS
<1>2. front \in Seq(T) /\ Len(front) = len
  BY <1>1, FunctionIsVector
<1>3. /\ app \in Seq(T) /\ Len(app) = len + 1
      /\ \A k \in 1 .. len : app[k] = front[k]
      /\ app[len + 1] = f[len + 1]
  BY <1>1, <1>2, AppendProperties
<1> HIDE DEF app
<1>4. app \in [1 .. len + 1 -> T]
  BY <1>3, LenProperties
<1>5. ASSUME NEW k \in 1 .. len + 1 PROVE app[k] = f[k]
  <2>1. k \in 1 .. len \/ k = len + 1
    OBVIOUS
  <2> QED BY <1>3, <2>1
<1>6. app = f
  BY <1>4, <1>5
<1> QED BY <1>6 DEF app

\* No chunk has been made and nothing been kept.
LEMMA InitInv == Init => IInv
<1> SUFFICES ASSUME Init PROVE IInv
  OBVIOUS
<1>1. PICK len \in 0 .. MaxLen : vec \in [1 .. len -> 1 .. MaxElement]
  BY DEF Init
<1>2. vec \in Seq(1 .. MaxElement) /\ Len(vec) \in Nat
  BY <1>1, FunctionIsVector, LenProperties, MCVectorUtilsAssumption
<1>3. n \in Nat \ {0}
  BY MCVectorUtilsAssumption DEF Init
<1>4. SplitSoFar
  <2>1. ChunkEnd(Len(vec), n, 0) = 0
    BY <1>2, <1>3, ChunkEndIncreases
  <2>2. Len(vec) % n \in Nat
    BY <1>2, <1>3, Division
  <2>3. 0 \in 0 .. Smaller(n, Len(vec))
    BY <1>2, <1>3 DEF Smaller
  <2>4. [k \in 1 .. 0 |-> chunk(k)] = <<>>
    OBVIOUS
  <2> QED BY <2>1, <2>2, <2>3, <2>4 DEF Init, SplitSoFar
<1>5. DifferenceSoFar
  BY <1>2 DEF Init, DifferenceSoFar
<1> QED BY <1>2, <1>3, <1>4, <1>5 DEF IInv

\* An iteration of split appends the next chunk of the closed form.
LEMMA SplitStepInv == IInv /\ SplitStep => IInv'
<1> SUFFICES ASSUME IInv, SplitStep PROVE IInv'
  OBVIOUS
<1> DEFINE len == Len(vec)
<1>1. /\ len \in Nat /\ n \in Nat \ {0} /\ i \in Nat
      /\ i \in 0 .. Smaller(n, len) /\ i # Smaller(n, len)
      /\ UNCHANGED <<vec, n, b, d, minus>> /\ i' = i + 1
  BY LenProperties DEF IInv, SplitSoFar, SplitStep, SplitDone
<1>2. i' \in 0 .. Smaller(n, len)
  BY <1>1 DEF Smaller
<1>3. len \div n \in Nat /\ len % n \in Nat
  <2>1. len \div n \in Nat /\ len % n \in 0 .. n - 1
    BY <1>1, Division
  <2> QED BY <1>1, <2>1
<1>4. /\ begin \in Nat /\ end = begin
      /\ remain = IF i < len % n THEN (len % n) - i ELSE 0
      /\ begin = ChunkEnd(len, n, i)
  <2>1. ChunkEnd(len, n, i) \in 0 .. len
    BY <1>1, ChunkEndIncreases
  <2> QED BY <2>1 DEF IInv, SplitSoFar
<1>5. end' = ChunkEnd(len, n, i + 1)
  <2>1. ChunkEnd(len, n, i + 1) =
          begin + (len \div n) + (IF i < len % n THEN 1 ELSE 0)
    BY <1>1, <1>4, ChunkEndStep
  <2>2. end' = end + (IF remain > 0 THEN (len \div n) + 1 ELSE len \div n)
    BY DEF SplitStep, length
  <2>3. remain > 0 <=> i < len % n
    BY <1>1, <1>3, <1>4
  <2> HIDE DEF len
  <2> QED BY <1>3, <1>4, <2>1, <2>2, <2>3
<1>6. remain' = IF i + 1 < len % n THEN (len % n) - (i + 1) ELSE 0
  <2>1. remain' = IF remain > 0 THEN remain - 1 ELSE remain
    BY DEF SplitStep
  <2> QED BY <1>1, <1>3, <1>4, <2>1
<1>7. result' = [k \in 1 .. i + 1 |-> chunk(k)]
  <2> DEFINE f == [k \in 1 .. i + 1 |-> chunk(k)]
             T == {chunk(k) : k \in 1 .. i + 1}
  <2>1. f \in [1 .. i + 1 -> T]
    OBVIOUS
  <2>2. result = [k \in 1 .. i |-> f[k]]
    BY <1>1 DEF IInv, SplitSoFar
  <2>3. f[i + 1] = SubSeq(vec, begin + 1, end')
    <3>1. f[i + 1] = chunk(i + 1) /\ (i + 1) - 1 = i
      BY <1>1
    <3> QED BY <1>4, <1>5, <3>1 DEF chunk
  <2>4. result' = Append(result, f[i + 1])
    BY <2>3 DEF SplitStep
  <2> HIDE DEF f, T
  <2>5. Append([k \in 1 .. i |-> f[k]], f[i + 1]) = f
    BY <1>1, <2>1, AppendLast
  <2>6. result' = f
    BY <2>2, <2>4, <2>5
  <2> QED BY <2>6 DEF f
<1>8. SplitSoFar'
  <2>1. begin' = end'
    BY DEF SplitStep
  <2>2. \A k : chunk(k)' = chunk(k)
    BY <1>1 DEF chunk
  <2> QED BY <1>1, <1>2, <1>5, <1>6, <1>7, <2>1, <2>2 DEF SplitSoFar
<1>9. DifferenceSoFar'
  <2>1. ~(b > 0)
    BY DEF IInv, DifferenceSoFar, SplitStep
  <2> QED BY <1>1, <2>1 DEF IInv, DifferenceSoFar
<1> QED BY <1>1, <1>8, <1>9 DEF IInv

\* difference starts with nothing kept.
LEMMA NextSubsetInv == IInv /\ NextSubset => IInv'
<1> SUFFICES ASSUME IInv, NextSubset PROVE IInv'
  OBVIOUS
<1>1. /\ UNCHANGED <<vec, n, i, begin, end, remain, result>>
      /\ SplitDone /\ b' = b + 1 /\ d' = 0 /\ minus' = <<>>
  BY DEF NextSubset
<1>2. SplitSoFar' /\ SplitDone'
  BY <1>1 DEF IInv, SplitSoFar, SplitDone, chunk
<1>3. Kept' = {}
  BY <1>1 DEF Kept
<1>4. Select(vec, {}) = <<>>
  BY SelectNone DEF IInv
<1>5. DifferenceSoFar'
  <2>1. Len(vec) \in Nat
    BY LenProperties DEF IInv
  <2> QED BY <1>1, <1>2, <1>3, <1>4, <2>1 DEF IInv, DifferenceSoFar
<1> QED BY <1>1, <1>2, <1>5 DEF IInv

\* Without an element to take away, all are kept.
LEMMA ReturnMinuendInv == IInv /\ ReturnMinuend => IInv'
<1> SUFFICES ASSUME IInv, ReturnMinuend PROVE IInv'
  OBVIOUS
<1>1. /\ UNCHANGED <<vec, n, i, begin, end, remain, result, b>>
      /\ b > 0 /\ subset = <<>> /\ d' = Len(vec) /\ minus' = vec
      /\ subset' = subset
  BY DEF ReturnMinuend, subset, Subsets
<1>2. vec \in Seq(1 .. MaxElement) /\ Len(vec) \in Nat
  BY LenProperties DEF IInv
<1>3. SplitSoFar' /\ SplitDone'
  BY <1>1 DEF IInv, SplitSoFar, SplitDone, chunk, DifferenceSoFar
<1>4. Kept' = 1 .. Len(vec)
  BY <1>1 DEF Kept, contains
<1>5. minus' = Select(vec', Kept')
  BY <1>1, <1>2, <1>4, SelectAll
<1>6. DifferenceSoFar'
  <2>1. b' \in Nat /\ Len(vec') = Len(vec)
    BY <1>1 DEF IInv, DifferenceSoFar
  <2>2. d' \in 0 .. Len(vec')
    BY <1>1, <1>2, <2>1
  <2> QED BY <1>3, <1>5, <2>1, <2>2 DEF DifferenceSoFar
<1> QED BY <1>1, <1>3, <1>6 DEF IInv

\* An iteration of difference keeps one element more, or not.
LEMMA DifferenceStepInv == IInv /\ DifferenceStep => IInv'
<1> SUFFICES ASSUME IInv, DifferenceStep PROVE IInv'
  OBVIOUS
<1>1. /\ UNCHANGED <<vec, n, i, begin, end, remain, result, b>>
      /\ b > 0 /\ d' = d + 1 /\ d < Len(vec)
      /\ minus' = IF contains(subset, vec[d + 1])
                  THEN minus ELSE Append(minus, vec[d + 1])
      /\ subset' = subset
  BY DEF DifferenceStep, subset, Subsets
<1>2. /\ vec \in Seq(1 .. MaxElement) /\ Len(vec) \in Nat
      /\ DOMAIN vec = 1 .. Len(vec) /\ d \in 0 .. Len(vec)
      /\ minus = Select(vec, Kept)
  BY <1>1, LenProperties DEF IInv, DifferenceSoFar
<1>3. SplitSoFar' /\ SplitDone'
  BY <1>1 DEF IInv, SplitSoFar, SplitDone, chunk, DifferenceSoFar
<1>4. /\ Kept \in SUBSET DOMAIN vec /\ d + 1 \in DOMAIN vec
      /\ \A j \in Kept : j < d + 1
  BY <1>1, <1>2 DEF Kept
<1>5. Kept' = Kept \cup (IF contains(subset, vec[d + 1]) THEN {} ELSE {d + 1})
  <2>1. 1 .. d + 1 = (1 .. d) \cup {d + 1}
    BY <1>2
  <2> QED BY <1>1, <2>1 DEF Kept
<1>6. minus' = Select(vec, Kept')
  <2>1. CASE contains(subset, vec[d + 1])
    BY <1>1, <1>2, <1>5, <2>1
  <2>2. CASE ~contains(subset, vec[d + 1])
    <3> HIDE DEF Kept
    <3>1. Select(vec, Kept \cup {d + 1}) =
            Append(Select(vec, Kept), vec[d + 1])
      BY <1>2, <1>4, SelectAppends
    <3> QED BY <1>1, <1>2, <1>5, <2>2, <3>1
  <2> QED BY <2>1, <2>2
<1>7. DifferenceSoFar'
  BY <1>1, <1>2, <1>3, <1>6 DEF IInv, DifferenceSoFar
<1> QED BY <1>1, <1>3, <1>7 DEF IInv

\* The loop invariants hold in every state.
THEOREM Invariance == Spec => []IInv
<1>1. IInv /\ UNCHANGED vars => IInv'
  BY DEF IInv, vars, SplitSoFar, DifferenceSoFar, SplitDone, chunk, Kept,
     subset, Subsets
<1> QED
  BY InitInv, SplitStepInv, NextSubsetInv, ReturnMinuendInv,
     DifferenceStepInv, <1>1, PTL
  DEF Spec, Next

\* The loop of split ends with the chunks of the closed form, for vectors of
\* every length and every number of parts, more parts than elements included.
THEOREM SplitComputesItsClosedForm == Spec => []SplitAgrees
<1>1. IInv => SplitAgrees
  BY DEF IInv, SplitSoFar, SplitAgrees, SplitDone, split, chunk
<1> QED BY Invariance, <1>1, PTL

\* The loop of difference ends with the elements of the closed form, in their
\* order and as often as the vector has them.
THEOREM DifferenceComputesItsClosedForm == Spec => []DifferenceAgrees
<1>1. IInv => DifferenceAgrees
  <2> SUFFICES ASSUME IInv, b > 0, d = Len(vec)
               PROVE  minus = difference(vec, subset)
    BY DEF DifferenceAgrees
  <2>1. DOMAIN vec = 1 .. d
    BY LenProperties DEF IInv
  <2> QED BY <2>1 DEF IInv, DifferenceSoFar, Kept, difference
<1> QED BY Invariance, <1>1, PTL
=============================================================================
