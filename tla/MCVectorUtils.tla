---------------------------- MODULE MCVectorUtils ----------------------------
(***************************************************************************)
(* The loops of src/include/VectorUtils.h, statement by statement, run on  *)
(* every vector of at most MaxLen elements of 1 .. MaxElement and every n  *)
(* up to MaxParts, to check the closed forms of VectorUtils against them.  *)
(*                                                                         *)
(* split runs first; then difference takes from the vector each of the     *)
(* chunks that split returned, as the two ddmin loops do, and at last the  *)
(* empty vector, which the loops never hand to it.                         *)
(***************************************************************************)
EXTENDS VectorUtils
LOCAL INSTANCE SequencesExt

CONSTANTS MaxLen, MaxElement, MaxParts

ASSUME MCVectorUtilsAssumption ==
  MaxLen \in Nat /\ MaxElement \in Nat /\ MaxParts \in Nat

VARIABLES vec, n,                          \* the arguments of split
          i, begin, end, remain, result,   \* the locals of split
          b, d, minus                      \* difference(vec, subset): the
                                           \* number of subset, the position
                                           \* of the loop, the result
vars == <<vec, n, i, begin, end, remain, result, b, d, minus>>

length == Len(vec) \div n

Init ==
  /\ \E len \in 0 .. MaxLen : vec \in [1 .. len -> 1 .. MaxElement]
  /\ n \in 1 .. MaxParts
  /\ i = 0 /\ begin = 0 /\ end = 0 /\ remain = Len(vec) % n
  /\ result = <<>>
  /\ b = 0 /\ d = 0 /\ minus = <<>>

SplitDone == i = Smaller(n, Len(vec))

\* Fault: the loop adds the remainder to every chunk.
SplitStepAddsOne ==
  /\ ~SplitDone
  /\ end' = Smaller(end + length + 1, Len(vec))
  /\ remain' = remain
  /\ result' = Append(result, SubSeq(vec, begin + 1, end'))
  /\ begin' = end'
  /\ i' = i + 1
  /\ UNCHANGED <<vec, n, b, d, minus>>

SplitStep ==
  /\ ~SplitDone
  /\ end' = end + (IF remain > 0 THEN length + 1 ELSE length)
  /\ remain' = IF remain > 0 THEN remain - 1 ELSE remain
  /\ result' = Append(result, SubSeq(vec, begin + 1, end'))
  /\ begin' = end'
  /\ i' = i + 1
  /\ UNCHANGED <<vec, n, b, d, minus>>

\* The second argument of difference.
Subsets == Append(result, <<>>)
subset  == Subsets[b]

NextSubset ==
  /\ SplitDone /\ b < Len(Subsets)
  /\ b = 0 \/ d = Len(vec)
  /\ b' = b + 1
  /\ d' = 0 /\ minus' = <<>>
  /\ UNCHANGED <<vec, n, i, begin, end, remain, result>>

\* The early return of the first argument; that of an empty vec comes where
\* the loop would end.
ReturnMinuend ==
  /\ b > 0 /\ d < Len(vec) /\ subset = <<>>
  /\ d' = Len(vec) /\ minus' = vec
  /\ UNCHANGED <<vec, n, i, begin, end, remain, result, b>>

DifferenceStep ==
  /\ b > 0 /\ d < Len(vec) /\ subset # <<>>
  /\ d' = d + 1
  /\ minus' = IF contains(subset, vec[d']) THEN minus
                                           ELSE Append(minus, vec[d'])
  /\ UNCHANGED <<vec, n, i, begin, end, remain, result, b>>

Next == SplitStep \/ NextSubset \/ ReturnMinuend \/ DifferenceStep
Spec == Init /\ [][Next]_vars
-----------------------------------------------------------------------------
\* The closed form of split is what the loop of VectorUtils.h:11-18 computes,
\* for every vector and number of parts, more parts than elements included.
SplitAgrees == SplitDone => result = split(vec, n)

\* split deals every element out once, in order, in chunks that are never
\* empty and differ by at most one in length: test() calls front() on them.
SplitPartitions ==
  SplitDone =>
    LET chunks == split(vec, n) IN
      /\ FlattenSeq(chunks) = vec
      /\ \A k \in DOMAIN chunks : chunks[k] # <<>>
      /\ \A k, l \in DOMAIN chunks : Len(chunks[k]) <= Len(chunks[l]) + 1

\* The closed form of difference is what VectorUtils.h:29-41 computes, with the
\* early returns for an empty operand and without.
DifferenceAgrees ==
  (b > 0 /\ d = Len(vec)) => minus = difference(vec, subset)
=============================================================================
