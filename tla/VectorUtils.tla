----------------------------- MODULE VectorUtils -----------------------------
(***************************************************************************)
(* The vector helpers of src/include/VectorUtils.h that both delta         *)
(* debugging loops are built from.  A std::vector is a sequence.           *)
(*                                                                         *)
(* The C++ loops are given here in closed form, so that the definitions    *)
(* can be reasoned about; MCVectorUtils transcribes the loops and checks   *)
(* that both agree on every small input.                                   *)
(***************************************************************************)
EXTENDS Integers, Sequences, FiniteSets

Smaller(a, b) == IF a <= b THEN a ELSE b
Larger(a, b)  == IF a >= b THEN a ELSE b

\* The elements of a vector, as a set.
Elements(vec) == {vec[i] : i \in DOMAIN vec}

\* The k-th smallest member of a set of natural numbers, and the members of
\* the set in increasing order.
Rank(S, i)   == Cardinality({j \in S : j <= i})
Nth(S, k)    == CHOOSE i \in S : Rank(S, i) = k
Enumerate(S) == [k \in 1 .. Cardinality(S) |-> Nth(S, k)]

\* Where the i-th of the chunks that split cuts a vector of the given size
\* into ends: the first size % n chunks are one element longer.
\* Fault: the elements that remain all go to the last chunk.
ChunkEndLast(size, n, i) ==
  IF i = Smaller(n, size) THEN size ELSE i * (size \div n)
ChunkEnd(size, n, i) == i * (size \div n) + Smaller(i, size % n)

split(vec, n) ==
  [i \in 1 .. Smaller(n, Len(vec)) |->
     SubSeq(vec, ChunkEnd(Len(vec), n, i - 1) + 1, ChunkEnd(Len(vec), n, i))]

contains(vec, d) == \E i \in DOMAIN vec : vec[i] = d

\* The entries of a vector whose positions are in keep, in their order.
Select(vec, keep) == [k \in 1 .. Cardinality(keep) |-> vec[Nth(keep, k)]]

\* a - b: what is left of a without the elements of b.
\* Fault: the elements of both are kept.
intersection(a, b) == Select(a, {i \in DOMAIN a : contains(b, a[i])})
difference(a, b) == Select(a, {i \in DOMAIN a : ~contains(b, a[i])})
=============================================================================
