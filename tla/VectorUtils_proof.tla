-------------------------- MODULE VectorUtils_proof --------------------------
(***************************************************************************)
(* What split, difference and Select return, for every vector; and when    *)
(* the chunks of a list that ddmin has shortened have no gap in them.      *)
(***************************************************************************)
EXTENDS VectorUtils, FiniteSetTheorems, SequenceTheorems,
        WellFoundedInduction, TLAPS

\* A function on 1 .. n is a vector of length n.
LEMMA FunctionIsVector ==
  ASSUME NEW T, NEW len \in Nat, NEW f \in [1 .. len -> T]
  PROVE  f \in Seq(T) /\ Len(f) = len
<1>1. f \in Seq(T)
  BY SeqDef
<1>2. DOMAIN f = 1 .. Len(f) /\ Len(f) \in Nat
  BY <1>1, LenProperties
<1> QED BY <1>1, <1>2

\* What is left of a list without its head.
LEMMA TailShifts ==
  ASSUME NEW S, NEW list \in Seq(S), list # <<>>
  PROVE  /\ 1 \in DOMAIN list /\ Head(list) = list[1]
         /\ \A s \in DOMAIN Tail(list) :
              s + 1 \in DOMAIN list /\ Tail(list)[s] = list[s + 1]
         /\ \A s \in DOMAIN list : s = 1 \/ s - 1 \in DOMAIN Tail(list)
<1>1. /\ Tail(list) \in Seq(S) /\ Len(Tail(list)) = Len(list) - 1
      /\ Head(list) = list[1]
      /\ \A s \in 1 .. Len(Tail(list)) : Tail(list)[s] = list[s + 1]
  BY HeadTailProperties
<1>2. /\ DOMAIN list = 1 .. Len(list) /\ Len(list) \in Nat /\ Len(list) # 0
      /\ DOMAIN Tail(list) = 1 .. Len(Tail(list))
  BY <1>1, EmptySeq, LenProperties
<1> QED BY <1>1, <1>2

\* Multiplication by a natural number is monotone.
LEMMA TimesMonotone ==
  ASSUME NEW i \in Nat, NEW j \in Nat, NEW q \in Nat, i <= j
  PROVE  i * q <= j * q
<1>1. PICK k \in Nat : j = i + k
  <2> WITNESS j - i \in Nat
  <2> QED OBVIOUS
<1>2. j * q = i * q + k * q
  BY <1>1
<1>3. i * q \in Nat /\ k * q \in Nat
  OBVIOUS
<1> QED BY <1>2, <1>3

\* The size of a vector, divided by the number of parts.
LEMMA Division ==
  ASSUME NEW size \in Nat, NEW n \in Nat \ {0}
  PROVE  /\ size \div n \in Nat
         /\ size % n \in 0 .. n - 1
         /\ size = n * (size \div n) + (size % n)
  OBVIOUS

\* ChunkEnd cuts a vector from left to right, in chunks that are not empty,
\* and does not run over its end (VectorUtils.h:11-17).
LEMMA ChunkEndIncreases ==
  ASSUME NEW size \in Nat, NEW n \in Nat \ {0}
  PROVE  /\ ChunkEnd(size, n, 0) = 0
         /\ \A i \in 0 .. Smaller(n, size) :
              ChunkEnd(size, n, i) \in 0 .. size
         /\ \A i, j \in 0 .. Smaller(n, size) :
              i < j => ChunkEnd(size, n, i) < ChunkEnd(size, n, j)
<1> DEFINE q == size \div n
           r == size % n
<1>1. /\ q \in Nat /\ r \in 0 .. n - 1 /\ size = n * q + r
  BY Division
<1>2. \A i : ChunkEnd(size, n, i) = i * q + Smaller(i, r)
  BY DEF ChunkEnd
<1> HIDE DEF q, r
<1>3. ASSUME NEW i \in 0 .. Smaller(n, size)
      PROVE  /\ i \in Nat /\ i <= n /\ i <= size
             /\ i * q \in Nat /\ i * q <= n * q
  <2>1. i \in Nat /\ i <= n /\ i <= size
    BY DEF Smaller
  <2> QED BY <1>1, <2>1, TimesMonotone
<1>4. ChunkEnd(size, n, 0) = 0
  BY <1>1, <1>2 DEF Smaller
<1>5. ASSUME NEW i \in 0 .. Smaller(n, size)
      PROVE  ChunkEnd(size, n, i) \in 0 .. size
  <2>1. n * q \in Nat
    BY <1>1
  <2> QED BY <1>1, <1>2, <1>3, <2>1 DEF Smaller
<1>6. ASSUME NEW i \in 0 .. Smaller(n, size), NEW j \in 0 .. Smaller(n, size),
             i < j
      PROVE  ChunkEnd(size, n, i) < ChunkEnd(size, n, j)
  <2>1. /\ i \in Nat /\ i * q \in Nat
        /\ j \in Nat /\ j * q \in Nat /\ j <= size /\ j * q <= n * q
    BY <1>3
  <2>2. CASE q = 0
    <3>1. size = r /\ i * q = 0 /\ j * q = 0
      BY <1>1, <2>1, <2>2
    <3> QED BY <1>1, <1>2, <1>6, <2>1, <3>1 DEF Smaller
  <2>3. CASE q # 0
    <3>1. (i + 1) * q <= j * q
      BY <1>1, <1>6, <2>1, TimesMonotone
    <3>2. (i + 1) * q = i * q + q
      BY <1>1, <2>1
    <3> QED BY <1>1, <1>2, <1>6, <2>1, <2>3, <3>1, <3>2 DEF Smaller
  <2> QED BY <2>2, <2>3
<1> QED BY <1>4, <1>5, <1>6
-----------------------------------------------------------------------------
ChunkFirst(vec, n, i) == ChunkEnd(Len(vec), n, i - 1) + 1
ChunkLast(vec, n, i)  == ChunkEnd(Len(vec), n, i)

\* split cuts a vector into segments that are not empty, one after the other.
LEMMA SplitChunks ==
  ASSUME NEW S, NEW vec \in Seq(S), NEW n \in Nat \ {0}
  PROVE  /\ split(vec, n) \in Seq(Seq(S))
         /\ \A i \in DOMAIN split(vec, n) :
              /\ ChunkFirst(vec, n, i) \in 1 .. Len(vec)
              /\ ChunkLast(vec, n, i) \in 1 .. Len(vec)
              /\ ChunkFirst(vec, n, i) <= ChunkLast(vec, n, i)
              /\ split(vec, n)[i] = SubSeq(vec, ChunkFirst(vec, n, i),
                                                ChunkLast(vec, n, i))
         /\ \A i, j \in DOMAIN split(vec, n) :
              i < j => ChunkLast(vec, n, i) < ChunkFirst(vec, n, j)
<1> DEFINE parts == Smaller(n, Len(vec))
<1>1. Len(vec) \in Nat /\ parts \in Nat
  BY DEF Smaller
<1>2. /\ \A i \in 0 .. parts : ChunkEnd(Len(vec), n, i) \in 0 .. Len(vec)
      /\ \A i, j \in 0 .. parts :
           i < j => ChunkEnd(Len(vec), n, i) < ChunkEnd(Len(vec), n, j)
  BY <1>1, ChunkEndIncreases
<1>3. /\ DOMAIN split(vec, n) = 1 .. parts
      /\ \A i \in 1 .. parts :
           split(vec, n)[i] = SubSeq(vec, ChunkFirst(vec, n, i),
                                          ChunkLast(vec, n, i))
  BY DEF split, ChunkFirst, ChunkLast
<1> HIDE DEF parts
<1>4. ASSUME NEW i \in 1 .. parts
      PROVE  /\ ChunkFirst(vec, n, i) \in 1 .. Len(vec)
             /\ ChunkLast(vec, n, i) \in 1 .. Len(vec)
             /\ ChunkFirst(vec, n, i) <= ChunkLast(vec, n, i)
  <2>1. i - 1 \in 0 .. parts /\ i \in 0 .. parts /\ i - 1 < i
    BY <1>1
  <2>2. /\ ChunkEnd(Len(vec), n, i - 1) \in 0 .. Len(vec)
        /\ ChunkEnd(Len(vec), n, i) \in 0 .. Len(vec)
        /\ ChunkEnd(Len(vec), n, i - 1) < ChunkEnd(Len(vec), n, i)
    BY <1>2, <2>1
  <2> QED BY <1>1, <2>2 DEF ChunkFirst, ChunkLast
<1>5. ASSUME NEW i \in 1 .. parts, NEW j \in 1 .. parts, i < j
      PROVE  ChunkLast(vec, n, i) < ChunkFirst(vec, n, j)
  <2>1. /\ i \in 0 .. parts /\ j - 1 \in 0 .. parts
        /\ i = j - 1 \/ i < j - 1
    BY <1>1, <1>5
  <2>2. ChunkEnd(Len(vec), n, i) <= ChunkEnd(Len(vec), n, j - 1)
    BY <1>2, <2>1
  <2> QED BY <1>1, <1>2, <2>1, <2>2 DEF ChunkFirst, ChunkLast
<1>6. ASSUME NEW i \in 1 .. parts
      PROVE  split(vec, n)[i] \in Seq(S)
  <2> DEFINE a == ChunkFirst(vec, n, i)
             z == ChunkLast(vec, n, i)
  <2>1. a \in 1 .. Len(vec) /\ z \in 1 .. Len(vec)
    BY <1>4
  <2>2. split(vec, n)[i] = SubSeq(vec, a, z)
    BY <1>3
  <2> HIDE DEF a, z
  <2>3. a \in Int /\ z \in Int /\ \A k \in a .. z : vec[k] \in S
    BY <1>1, <2>1, ElementOfSeq
  <2>4. SubSeq(vec, a, z) \in Seq(S)
    BY <2>3, SubSeqProperties
  <2> QED BY <2>2, <2>4
<1>7. split(vec, n) \in Seq(Seq(S))
  <2>1. split(vec, n) \in [1 .. parts -> Seq(S)]
    BY <1>3, <1>6 DEF split, parts
  <2> QED BY <1>1, <2>1, FunctionIsVector
<1> QED BY <1>3, <1>4, <1>5, <1>7
-----------------------------------------------------------------------------
\* Every non-empty set of natural numbers has a least member.
LEMMA LeastMember ==
  ASSUME NEW T \in SUBSET Nat, T # {}
  PROVE  \E x \in T : \A y \in T : x <= y
<1>1. PICK x \in T : \A y \in T : ~(<<y, x>> \in OpToRel(<, Nat))
  BY NatLessThanWellFounded, WFMin
<1>2. \A y \in T : ~(y < x)
  BY <1>1 DEF OpToRel
<1> QED BY <1>2

\* The rank of the members of a set grows with them.
LEMMA RankIncreases ==
  ASSUME NEW S \in SUBSET Nat, IsFiniteSet(S)
  PROVE  /\ \A i \in S : Rank(S, i) \in 1 .. Cardinality(S)
         /\ \A i, j \in S : i < j => Rank(S, i) < Rank(S, j)
<1> DEFINE upto(i) == {j \in S : j <= i}
<1>1. ASSUME NEW i \in S
      PROVE  /\ upto(i) \in SUBSET S
             /\ IsFiniteSet(upto(i)) /\ Cardinality(upto(i)) \in Nat
             /\ Rank(S, i) = Cardinality(upto(i))
  BY FS_Subset, FS_CardinalityType DEF Rank
<1>2. ASSUME NEW i \in S
      PROVE  Rank(S, i) \in 1 .. Cardinality(S)
  <2>1. upto(i) # {}
    OBVIOUS
  <2>2. Cardinality(upto(i)) # 0 /\ Cardinality(upto(i)) <= Cardinality(S)
    BY <1>1, <2>1, FS_EmptySet, FS_Subset
  <2> QED BY <1>1, <2>2, FS_CardinalityType
<1>3. ASSUME NEW i \in S, NEW j \in S, i < j
      PROVE  Rank(S, i) < Rank(S, j)
  <2>1. upto(i) \in SUBSET upto(j) /\ j \in upto(j) /\ j \notin upto(i)
    <3>1. i \in Nat /\ j \in Nat
      OBVIOUS
    <3>2. \A m \in S : m \in Nat /\ (m <= i => m <= j)
      BY <1>3, <3>1
    <3>3. j \in upto(j) /\ j \notin upto(i)
      BY <1>3, <3>1
    <3>4. \A m \in upto(i) : m \in upto(j)
      BY <3>2
    <3> QED BY <3>3, <3>4
  <2>2. Cardinality(upto(i)) <= Cardinality(upto(j))
        /\ Cardinality(upto(i)) # Cardinality(upto(j))
    BY <1>1, <2>1, FS_Subset
  <2> QED BY <1>1, <2>2
<1> QED BY <1>2, <1>3

\* Nth counts through a set in increasing order and misses no member.
LEMMA NthEnumerates ==
  ASSUME NEW S \in SUBSET Nat, IsFiniteSet(S)
  PROVE  /\ Cardinality(S) \in Nat
         /\ \A k \in 1 .. Cardinality(S) : Nth(S, k) \in S
         /\ \A i \in S : \E k \in 1 .. Cardinality(S) : i = Nth(S, k)
         /\ \A k, l \in 1 .. Cardinality(S) : k < l => Nth(S, k) < Nth(S, l)
         /\ \A i \in S : Rank(S, i) \in 1 .. Cardinality(S)
                        /\ Nth(S, Rank(S, i)) = i
<1> DEFINE card == Cardinality(S)
           rank == [i \in S |-> Rank(S, i)]
<1>1. card \in Nat
  BY FS_CardinalityType
<1>2. /\ \A i \in S : Rank(S, i) \in 1 .. card
      /\ \A i, j \in S : i < j => Rank(S, i) < Rank(S, j)
  BY RankIncreases
<1>3. \A i, j \in S : i = j \/ i < j \/ j < i
  OBVIOUS
<1>4. \A i, j \in S : Rank(S, i) = Rank(S, j) => i = j
  <2> SUFFICES ASSUME NEW i \in S, NEW j \in S, Rank(S, i) = Rank(S, j)
               PROVE  i = j
    OBVIOUS
  <2>1. Rank(S, i) \in Nat /\ Rank(S, j) \in Nat
    BY <1>1, <1>2
  <2> QED BY <1>2, <1>3, <2>1
<1>5. rank \in Injection(S, 1 .. card)
  BY <1>2, <1>4 DEF Injection, IsInjective
<1>6. IsFiniteSet(1 .. card) /\ Cardinality(1 .. card) = card
  BY <1>1, FS_Interval
<1>7. rank \in Surjection(S, 1 .. card)
  BY <1>5, <1>6, FS_Injection
<1>8. \A k \in 1 .. card : \E i \in S : Rank(S, i) = k
  BY <1>7 DEF Surjection
<1>9. \A k \in 1 .. card : Nth(S, k) \in S /\ Rank(S, Nth(S, k)) = k
  BY <1>8 DEF Nth
<1>10. \A i \in S : i = Nth(S, Rank(S, i))
  BY <1>2, <1>4, <1>9
<1>11. ASSUME NEW k \in 1 .. card, NEW l \in 1 .. card, k < l
       PROVE  Nth(S, k) < Nth(S, l)
  <2>1. /\ Nth(S, k) \in S /\ Nth(S, l) \in S
        /\ Rank(S, Nth(S, k)) = k /\ Rank(S, Nth(S, l)) = l
    BY <1>9
  <2> DEFINE x == Nth(S, k)
             y == Nth(S, l)
  <2>2. x \in S /\ y \in S /\ Rank(S, x) < Rank(S, y)
    BY <1>11, <2>1
  <2>3. \A m \in S : Rank(S, m) \in Nat
    BY <1>1, <1>2
  <2>4. x = y \/ x < y \/ y < x
    BY <1>3, <2>2
  <2> HIDE DEF x, y
  <2>5. x < y
    BY <1>2, <2>2, <2>3, <2>4
  <2> QED BY <2>5 DEF x, y
<1> QED BY <1>1, <1>2, <1>9, <1>10, <1>11
-----------------------------------------------------------------------------
\* Select keeps exactly the entries at the given positions, in their order.
LEMMA SelectKeeps ==
  ASSUME NEW T, NEW vec \in Seq(T), NEW keep \in SUBSET DOMAIN vec
  PROVE  /\ Select(vec, keep) \in Seq(T)
         /\ Elements(Select(vec, keep)) = {vec[i] : i \in keep}
         /\ \A k \in DOMAIN Select(vec, keep) :
              /\ Nth(keep, k) \in keep
              /\ Select(vec, keep)[k] = vec[Nth(keep, k)]
         /\ \A k, l \in DOMAIN Select(vec, keep) :
              k < l => Nth(keep, k) < Nth(keep, l)
<1> DEFINE card == Cardinality(keep)
<1>1. Len(vec) \in Nat /\ DOMAIN vec = 1 .. Len(vec)
      /\ \A i \in DOMAIN vec : vec[i] \in T
  BY LenProperties, ElementOfSeq
<1>2. keep \in SUBSET Nat /\ IsFiniteSet(keep)
  <2>1. IsFiniteSet(1 .. Len(vec)) /\ keep \in SUBSET (1 .. Len(vec))
    BY <1>1, FS_Interval
  <2>2. IsFiniteSet(keep)
    BY <2>1, FS_Subset
  <2> QED BY <1>1, <2>1, <2>2
<1>3. /\ card \in Nat
      /\ \A k \in 1 .. card : Nth(keep, k) \in keep
      /\ \A i \in keep : \E k \in 1 .. card : i = Nth(keep, k)
      /\ \A k, l \in 1 .. card : k < l => Nth(keep, k) < Nth(keep, l)
  BY <1>2, NthEnumerates
<1>4. Select(vec, keep) = [k \in 1 .. card |-> vec[Nth(keep, k)]]
  BY DEF Select
<1> HIDE DEF card
<1>5. Select(vec, keep) \in [1 .. card -> T]
  BY <1>1, <1>3, <1>4
<1>6. Elements(Select(vec, keep)) = {vec[i] : i \in keep}
  BY <1>3, <1>4 DEF Elements
<1> QED BY <1>3, <1>4, <1>5, <1>6, FunctionIsVector

\* difference(a, b) has the elements of a that b does not have.
LEMMA DifferenceRemoves ==
  ASSUME NEW T, NEW a \in Seq(T), NEW b
  PROVE  /\ difference(a, b) \in Seq(T)
         /\ Elements(difference(a, b)) = Elements(a) \ Elements(b)
<1> DEFINE keep == {i \in DOMAIN a : ~contains(b, a[i])}
<1>1. /\ Select(a, keep) \in Seq(T)
      /\ Elements(Select(a, keep)) = {a[i] : i \in keep}
  BY SelectKeeps
<1> QED BY <1>1 DEF difference, Elements, contains

Increasing(vec) == \A i, j \in DOMAIN vec : i < j => vec[i] < vec[j]

\* difference keeps an increasing vector increasing.
LEMMA DifferenceIncreasing ==
  ASSUME NEW a \in Seq(Nat), NEW b, Increasing(a)
  PROVE  Increasing(difference(a, b))
<1> DEFINE keep == {i \in DOMAIN a : ~contains(b, a[i])}
<1>1. difference(a, b) = Select(a, keep) /\ keep \in SUBSET DOMAIN a
  BY DEF difference
<1> HIDE DEF keep
<1>2. /\ \A k \in DOMAIN Select(a, keep) :
           /\ Nth(keep, k) \in keep
           /\ Select(a, keep)[k] = a[Nth(keep, k)]
      /\ \A k, l \in DOMAIN Select(a, keep) :
           k < l => Nth(keep, k) < Nth(keep, l)
  BY <1>1, SelectKeeps
<1> QED BY <1>1, <1>2 DEF Increasing

\* Enumerate lists a finite set of numbers in increasing order.
LEMMA EnumerateLists ==
  ASSUME NEW S \in SUBSET Nat, IsFiniteSet(S)
  PROVE  /\ Enumerate(S) \in Seq(S)
         /\ Elements(Enumerate(S)) = S
         /\ Increasing(Enumerate(S))
<1> DEFINE card == Cardinality(S)
<1>1. /\ card \in Nat
      /\ \A k \in 1 .. card : Nth(S, k) \in S
      /\ \A i \in S : \E k \in 1 .. card : i = Nth(S, k)
      /\ \A k, l \in 1 .. card : k < l => Nth(S, k) < Nth(S, l)
  BY NthEnumerates
<1>2. Enumerate(S) = [k \in 1 .. card |-> Nth(S, k)]
  BY DEF Enumerate
<1> HIDE DEF card
<1>3. Enumerate(S) \in [1 .. card -> S]
  BY <1>1, <1>2
<1>4. Elements(Enumerate(S)) = S
  BY <1>1, <1>2 DEF Elements
<1>5. Increasing(Enumerate(S))
  BY <1>1, <1>2 DEF Increasing
<1> QED BY <1>1, <1>3, <1>4, <1>5, FunctionIsVector
\* The chunks of an increasing vector are not empty; an element outside a
\* chunk lies before its first or behind its last element; and two chunks
\* have no element in common.
LEMMA SplitIncreasing ==
  ASSUME NEW S \in SUBSET Nat, NEW vec \in Seq(S), Increasing(vec),
         NEW n \in Nat \ {0}
  PROVE  /\ \A i \in DOMAIN split(vec, n) :
              LET chunk == split(vec, n)[i] IN
                /\ chunk \in Seq(S) /\ chunk # <<>>
                /\ Elements(chunk) \subseteq Elements(vec)
                /\ \A d \in Elements(vec) \ Elements(chunk) :
                     d < chunk[1] \/ chunk[Len(chunk)] < d
         /\ \A i, j \in DOMAIN split(vec, n) :
              i # j => Elements(split(vec, n)[i]) \cap
                       Elements(split(vec, n)[j]) = {}
<1> DEFINE first(i) == ChunkFirst(vec, n, i)
           last(i)  == ChunkLast(vec, n, i)
<1>1. /\ Len(vec) \in Nat /\ DOMAIN vec = 1 .. Len(vec)
      /\ \A k \in 1 .. Len(vec) : vec[k] \in S /\ vec[k] \in Nat
  BY LenProperties, ElementOfSeq
<1>2. /\ split(vec, n) \in Seq(Seq(S))
      /\ \A i \in DOMAIN split(vec, n) :
           /\ first(i) \in 1 .. Len(vec) /\ last(i) \in 1 .. Len(vec)
           /\ first(i) <= last(i)
           /\ split(vec, n)[i] = SubSeq(vec, first(i), last(i))
      /\ \A i, j \in DOMAIN split(vec, n) : i < j => last(i) < first(j)
  BY SplitChunks
<1> HIDE DEF first, last
<1>3. ASSUME NEW i \in DOMAIN split(vec, n)
      PROVE  /\ split(vec, n)[i] \in Seq(S)
             /\ Len(split(vec, n)[i]) = last(i) - first(i) + 1
             /\ \A k \in 1 .. last(i) - first(i) + 1 :
                  split(vec, n)[i][k] = vec[first(i) + k - 1]
  <2>1. first(i) \in Int /\ last(i) \in Int /\ first(i) <= last(i)
        /\ \A k \in first(i) .. last(i) : vec[k] \in S
    BY <1>1, <1>2
  <2> DEFINE a == first(i)
             z == last(i)
  <2>2. a \in Int /\ z \in Int /\ a <= z /\ \A k \in a .. z : vec[k] \in S
    BY <2>1
  <2>3. split(vec, n)[i] = SubSeq(vec, a, z)
    BY <1>2
  <2> HIDE DEF a, z
  <2>4. /\ SubSeq(vec, a, z) \in Seq(S)
        /\ Len(SubSeq(vec, a, z)) = z - a + 1
        /\ \A k \in 1 .. z - a + 1 : SubSeq(vec, a, z)[k] = vec[a + k - 1]
    <3>1. /\ SubSeq(vec, a, z) \in Seq(S)
          /\ Len(SubSeq(vec, a, z)) = IF a <= z THEN z - a + 1 ELSE 0
          /\ \A k \in 1 .. z - a + 1 : SubSeq(vec, a, z)[k] = vec[a + k - 1]
      BY <2>2, SubSeqProperties
    <3> QED BY <2>2, <3>1
  <2> QED BY <2>3, <2>4 DEF a, z
<1>4. ASSUME NEW i \in DOMAIN split(vec, n)
      PROVE  Elements(split(vec, n)[i]) = {vec[k] : k \in first(i) .. last(i)}
  <2> DEFINE len == last(i) - first(i) + 1
             chunk == split(vec, n)[i]
  <2>1. /\ first(i) \in Nat /\ last(i) \in Nat /\ len \in Nat
        /\ DOMAIN chunk = 1 .. len
        /\ \A k \in 1 .. len : chunk[k] = vec[first(i) + k - 1]
    BY <1>2, <1>3, LenProperties
  <2>2. \A k \in 1 .. len : first(i) + k - 1 \in first(i) .. last(i)
    BY <2>1
  <2>3. \A m \in first(i) .. last(i) :
          m - first(i) + 1 \in 1 .. len /\ m = first(i) + (m - first(i) + 1) - 1
    BY <2>1
  <2> HIDE DEF len, chunk
  <2>4. Elements(chunk) \subseteq {vec[k] : k \in first(i) .. last(i)}
    BY <2>1, <2>2 DEF Elements
  <2>5. {vec[k] : k \in first(i) .. last(i)} \subseteq Elements(chunk)
    BY <2>1, <2>3 DEF Elements
  <2> QED BY <2>4, <2>5 DEF chunk
<1>5. ASSUME NEW i \in DOMAIN split(vec, n)
      PROVE  LET chunk == split(vec, n)[i] IN
               /\ chunk # <<>>
               /\ Elements(chunk) \subseteq Elements(vec)
               /\ \A d \in Elements(vec) \ Elements(chunk) :
                    d < chunk[1] \/ chunk[Len(chunk)] < d
  <2> DEFINE chunk == split(vec, n)[i]
  <2>1. /\ first(i) \in 1 .. Len(vec) /\ last(i) \in 1 .. Len(vec)
        /\ first(i) <= last(i)
    BY <1>2
  <2>2. /\ Len(chunk) = last(i) - first(i) + 1 /\ Len(chunk) >= 1
        /\ chunk[1] = vec[first(i)] /\ chunk[Len(chunk)] = vec[last(i)]
    <3> DEFINE a == first(i)
               z == last(i)
    <3>1. a \in Nat /\ z \in Nat /\ a <= z
      BY <1>1, <2>1
    <3>2. /\ Len(chunk) = z - a + 1
          /\ \A k \in 1 .. z - a + 1 : chunk[k] = vec[a + k - 1]
      BY <1>3
    <3> HIDE DEF a, z, chunk
    <3>3. /\ 1 \in 1 .. z - a + 1 /\ z - a + 1 \in 1 .. z - a + 1
          /\ a + 1 - 1 = a /\ a + (z - a + 1) - 1 = z
      BY <3>1
    <3>4. chunk[1] = vec[a] /\ chunk[z - a + 1] = vec[z]
      BY <3>2, <3>3
    <3> QED BY <3>1, <3>2, <3>4 DEF a, z
  <2>3. chunk # <<>>
    BY <2>2
  <2>4. Elements(chunk) = {vec[k] : k \in first(i) .. last(i)}
    BY <1>4
  <2> HIDE DEF chunk
  <2>5. Elements(chunk) \subseteq Elements(vec)
    <3>1. first(i) .. last(i) \subseteq 1 .. Len(vec)
      BY <1>1, <2>1
    <3> QED BY <1>1, <2>4, <3>1 DEF Elements
  <2>6. ASSUME NEW d \in Elements(vec) \ Elements(chunk)
        PROVE  d < chunk[1] \/ chunk[Len(chunk)] < d
    <3>1. PICK k \in 1 .. Len(vec) : d = vec[k]
      BY <1>1 DEF Elements
    <3>2. k < first(i) \/ last(i) < k
      BY <1>1, <2>1, <2>4, <3>1
    <3> QED BY <1>1, <2>1, <2>2, <3>1, <3>2 DEF Increasing
  <2> QED BY <2>3, <2>5, <2>6 DEF chunk
<1>6. ASSUME NEW i \in DOMAIN split(vec, n), NEW j \in DOMAIN split(vec, n),
             i # j
      PROVE  Elements(split(vec, n)[i]) \cap Elements(split(vec, n)[j]) = {}
  <2>1. last(i) < first(j) \/ last(j) < first(i)
    <3>1. i \in Nat /\ j \in Nat
      BY <1>2, LenProperties
    <3> QED BY <1>2, <1>6, <3>1
  <2>2. \A k \in first(i) .. last(i), m \in first(j) .. last(j) :
          k \in 1 .. Len(vec) /\ m \in 1 .. Len(vec) /\ (k < m \/ m < k)
    <3> DEFINE a == first(i)
               b == first(j)
               y == last(i)
               z == last(j)
    <3>1. /\ a \in 1 .. Len(vec) /\ y \in 1 .. Len(vec)
          /\ b \in 1 .. Len(vec) /\ z \in 1 .. Len(vec)
          /\ y < b \/ z < a
      BY <1>2, <2>1
    <3> HIDE DEF a, b, y, z
    <3>2. \A k \in a .. y, m \in b .. z :
            k \in 1 .. Len(vec) /\ m \in 1 .. Len(vec) /\ (k < m \/ m < k)
      BY <1>1, <3>1
    <3> QED BY <3>2 DEF a, b, y, z
  <2>3. \A k \in first(i) .. last(i), m \in first(j) .. last(j) :
          vec[k] # vec[m]
    BY <1>1, <2>2 DEF Increasing
  <2> QED BY <1>4, <2>3
<1> QED BY <1>3, <1>5, <1>6
-----------------------------------------------------------------------------
\* Select never returns more entries than there are positions to keep; when a
\* position is left out the vector gets shorter.
LEMMA SelectShorter ==
  ASSUME NEW T, NEW vec \in Seq(T), NEW keep \in SUBSET DOMAIN vec
  PROVE  /\ Len(Select(vec, keep)) \in Nat
         /\ Len(Select(vec, keep)) <= Len(vec)
         /\ keep # DOMAIN vec => Len(Select(vec, keep)) < Len(vec)
<1>1. /\ Len(vec) \in Nat /\ DOMAIN vec = 1 .. Len(vec)
      /\ IsFiniteSet(1 .. Len(vec)) /\ Cardinality(1 .. Len(vec)) = Len(vec)
  <2>1. Len(vec) \in Nat /\ DOMAIN vec = 1 .. Len(vec)
    BY LenProperties
  <2>2. /\ IsFiniteSet(1 .. Len(vec))
        /\ Cardinality(1 .. Len(vec)) =
             IF 1 > Len(vec) THEN 0 ELSE Len(vec) - 1 + 1
    BY <2>1, FS_Interval
  <2> QED BY <2>1, <2>2
<1>2. /\ Cardinality(keep) \in Nat /\ Cardinality(keep) <= Len(vec)
      /\ Cardinality(keep) = Len(vec) => keep = DOMAIN vec
  BY <1>1, FS_Subset, FS_CardinalityType
<1>3. Len(Select(vec, keep)) = Cardinality(keep)
  <2>1. Select(vec, keep) \in Seq(T)
    BY SelectKeeps
  <2>2. DOMAIN Select(vec, keep) = 1 .. Cardinality(keep)
    BY DEF Select
  <2>3. /\ DOMAIN Select(vec, keep) = 1 .. Len(Select(vec, keep))
        /\ Len(Select(vec, keep)) \in Nat
    BY <2>1, LenProperties
  <2> QED BY <1>2, <2>2, <2>3
<1> QED BY <1>1, <1>2, <1>3

\* The difference is shorter when something is removed.
LEMMA DifferenceShorter ==
  ASSUME NEW T, NEW a \in Seq(T), NEW b, NEW i \in DOMAIN a,
         a[i] \in Elements(b)
  PROVE  /\ Len(difference(a, b)) \in Nat
         /\ Len(difference(a, b)) < Len(a)
<1> DEFINE keep == {k \in DOMAIN a : ~contains(b, a[k])}
<1>1. keep \in SUBSET DOMAIN a /\ i \notin keep
  BY DEF contains, Elements
<1>2. difference(a, b) = Select(a, keep)
  BY DEF difference
<1> HIDE DEF keep
<1> QED BY <1>1, <1>2, SelectShorter

\* split makes as many parts as it is asked for, if there are elements enough.
LEMMA SplitLength ==
  ASSUME NEW S, NEW vec \in Seq(S), NEW n \in Nat \ {0}
  PROVE  /\ Len(split(vec, n)) = Smaller(n, Len(vec))
         /\ Smaller(n, Len(vec)) \in Nat
<1>1. Len(vec) \in Nat /\ split(vec, n) \in Seq(Seq(S))
  BY SplitChunks, LenProperties
<1>2. DOMAIN split(vec, n) = 1 .. Smaller(n, Len(vec))
      /\ Smaller(n, Len(vec)) \in Nat
  BY <1>1 DEF split, Smaller
<1>3. DOMAIN split(vec, n) = 1 .. Len(split(vec, n)) /\ Len(split(vec, n)) \in Nat
  BY <1>1, LenProperties
<1> QED BY <1>2, <1>3

\* With as many parts as elements every part is a single element.
LEMMA SplitSingles ==
  ASSUME NEW S, NEW vec \in Seq(S), Len(vec) # 0
  PROVE  /\ DOMAIN split(vec, Len(vec)) = DOMAIN vec
         /\ \A i \in DOMAIN vec : split(vec, Len(vec))[i] = <<vec[i]>>
<1> DEFINE size == Len(vec)
<1>1. size \in Nat \ {0} /\ DOMAIN vec = 1 .. size
      /\ \A i \in 1 .. size : vec[i] \in S
  BY LenProperties, ElementOfSeq
<1> HIDE DEF size
<1>2. size \div size = 1 /\ size % size = 0
  BY <1>1
<1>3. \A i \in 0 .. size : ChunkEnd(size, size, i) = i
  BY <1>1, <1>2 DEF ChunkEnd, Smaller
<1>4. DOMAIN split(vec, size) = 1 .. size
  BY <1>1 DEF split, Smaller, size
<1>5. ASSUME NEW i \in 1 .. size PROVE split(vec, size)[i] = <<vec[i]>>
  <2>1. split(vec, size)[i] =
          SubSeq(vec, ChunkEnd(size, size, i - 1) + 1, ChunkEnd(size, size, i))
    BY <1>1, <1>4 DEF split, size
  <2>2. ChunkEnd(size, size, i - 1) + 1 = i /\ ChunkEnd(size, size, i) = i
    BY <1>1, <1>3
  <2>3. SubSeq(vec, i, i) = <<vec[i]>>
    <3>1. i \in Int /\ \A k \in i .. i : vec[k] \in S
      BY <1>1
    <3>2. /\ SubSeq(vec, i, i) \in Seq(S)
          /\ Len(SubSeq(vec, i, i)) = IF i <= i THEN i - i + 1 ELSE 0
          /\ \A k \in 1 .. i - i + 1 : SubSeq(vec, i, i)[k] = vec[i + k - 1]
      BY <3>1, SubSeqProperties
    <3>3. Len(SubSeq(vec, i, i)) = 1 /\ SubSeq(vec, i, i)[1] = vec[i]
      BY <3>1, <3>2
    <3>4. /\ <<vec[i]>> \in Seq(S) /\ Len(<<vec[i]>>) = 1
          /\ <<vec[i]>>[1] = vec[i]
      BY <1>1
    <3> DEFINE chunk  == SubSeq(vec, i, i)
               single == <<vec[i]>>
    <3>5. /\ chunk \in Seq(S) /\ single \in Seq(S)
          /\ Len(chunk) = Len(single)
          /\ \A k \in 1 .. Len(chunk) : chunk[k] = single[k]
      BY <3>2, <3>3, <3>4
    <3> HIDE DEF chunk, single
    <3>6. chunk = single
      BY <3>5, SeqEqual
    <3> QED BY <3>6 DEF chunk, single
  <2> QED BY <2>1, <2>2, <2>3
<1> QED BY <1>1, <1>4, <1>5 DEF size
-----------------------------------------------------------------------------
(***************************************************************************)
(* The closed forms, one iteration of the code's loops at a time.          *)
(***************************************************************************)
\* The chunks that get one element more are the first ones.
LEMMA ChunkEndStep ==
  ASSUME NEW size \in Nat, NEW n \in Nat \ {0}, NEW i \in Nat
  PROVE  ChunkEnd(size, n, i + 1) =
           ChunkEnd(size, n, i) + (size \div n)
             + (IF i < size % n THEN 1 ELSE 0)
<1> DEFINE q == size \div n
           r == size % n
<1>1. q \in Nat /\ r \in Nat
  BY Division
<1> HIDE DEF q, r
<1>2. (i + 1) * q = i * q + q /\ i * q \in Nat
  BY <1>1
<1>3. Smaller(i + 1, r) = Smaller(i, r) + (IF i < r THEN 1 ELSE 0)
      /\ Smaller(i, r) \in Nat
  BY <1>1 DEF Smaller
<1>4. /\ ChunkEnd(size, n, i) = i * q + Smaller(i, r)
      /\ ChunkEnd(size, n, i + 1) = (i + 1) * q + Smaller(i + 1, r)
  BY DEF ChunkEnd, q, r
<1>5. ChunkEnd(size, n, i + 1) =
        ChunkEnd(size, n, i) + q + (IF i < r THEN 1 ELSE 0)
  BY <1>1, <1>2, <1>3, <1>4
<1> QED BY <1>5 DEF q, r

\* A number behind all others is enumerated last, and moves none of them.
LEMMA NthOfLast ==
  ASSUME NEW S \in SUBSET Nat, IsFiniteSet(S), NEW m \in Nat,
         \A i \in S : i < m
  PROVE  /\ Cardinality(S \cup {m}) = Cardinality(S) + 1
         /\ Cardinality(S) \in Nat
         /\ \A k \in 1 .. Cardinality(S) : Nth(S \cup {m}, k) = Nth(S, k)
         /\ Nth(S \cup {m}, Cardinality(S) + 1) = m
<1> DEFINE T    == S \cup {m}
           card == Cardinality(S)
<1>1. m \notin S
  OBVIOUS
<1>2. card \in Nat /\ IsFiniteSet(T) /\ Cardinality(T) = card + 1
  BY <1>1, FS_AddElement, FS_CardinalityType
<1>3. \A i \in S : Rank(T, i) = Rank(S, i)
  <2> SUFFICES ASSUME NEW i \in S PROVE Rank(T, i) = Rank(S, i)
    OBVIOUS
  <2>1. i \in Nat /\ ~(m <= i)
    OBVIOUS
  <2>2. {j \in T : j <= i} = {j \in S : j <= i}
    BY <2>1
  <2> QED BY <2>2 DEF Rank
<1>4. Rank(T, m) = card + 1
  <2>1. \A j \in T : j <= m
    OBVIOUS
  <2>2. {j \in T : j <= m} = T
    BY <2>1
  <2> QED BY <1>2, <2>2 DEF Rank
<1>5. T \in SUBSET Nat
  OBVIOUS
<1>6. \A i \in T : Nth(T, Rank(T, i)) = i
  BY <1>2, <1>5, NthEnumerates
<1>7. \A k \in 1 .. card : Nth(T, k) = Nth(S, k)
  <2> SUFFICES ASSUME NEW k \in 1 .. card PROVE Nth(T, k) = Nth(S, k)
    OBVIOUS
  <2>1. PICK i \in S : Rank(S, i) = k
    <3>1. PICK i \in S : i = Nth(S, k)
      BY NthEnumerates
    <3>2. PICK l \in 1 .. card : l = Rank(S, i) /\ Nth(S, l) = i
      BY NthEnumerates
    <3>3. Nth(S, k) = Nth(S, l) /\ k \in Nat /\ l \in Nat
      BY <1>2, <3>1, <3>2
    <3>4. /\ k < l => Nth(S, k) < Nth(S, l)
          /\ l < k => Nth(S, l) < Nth(S, k)
      BY NthEnumerates
    <3>5. Nth(S, k) \in Nat
      BY <3>1
    <3>6. k = l
      BY <3>3, <3>4, <3>5
    <3> QED BY <3>2, <3>6
  <2>2. Nth(S, k) = i
    BY <2>1, NthEnumerates
  <2>3. Nth(T, k) = i
    BY <1>3, <1>6, <2>1
  <2> QED BY <2>2, <2>3
<1> QED BY <1>2, <1>4, <1>6, <1>7

\* Selecting no entry gives the empty vector.
LEMMA SelectNone ==
  ASSUME NEW T, NEW vec \in Seq(T)
  PROVE  Select(vec, {}) = <<>>
<1>1. 1 .. Cardinality({}) = {}
  <2>1. Cardinality({}) = 0
    BY FS_EmptySet
  <2> QED BY <2>1
<1>2. Select(vec, {}) = [k \in 1 .. Cardinality({}) |-> vec[Nth({}, k)]]
  BY DEF Select
<1>3. DOMAIN Select(vec, {}) = {}
  BY <1>1, <1>2
<1>4. Select(vec, {}) \in Seq(T)
  BY SelectKeeps
<1> QED BY <1>3, <1>4, EmptySeq

\* Selecting one more entry behind those that are selected appends it.
LEMMA SelectAppends ==
  ASSUME NEW T, NEW vec \in Seq(T), NEW keep \in SUBSET DOMAIN vec,
         NEW m \in DOMAIN vec, \A i \in keep : i < m
  PROVE  Select(vec, keep \cup {m}) = Append(Select(vec, keep), vec[m])
<1> DEFINE card == Cardinality(keep)
           more == keep \cup {m}
<1>1. Len(vec) \in Nat /\ DOMAIN vec = 1 .. Len(vec)
  BY LenProperties
<1>2. keep \in SUBSET Nat /\ IsFiniteSet(keep) /\ m \in Nat
  <2>1. IsFiniteSet(1 .. Len(vec)) /\ keep \in SUBSET (1 .. Len(vec))
    BY <1>1, FS_Interval
  <2>2. IsFiniteSet(keep)
    BY <2>1, FS_Subset
  <2> QED BY <1>1, <2>1, <2>2
<1>3. /\ Cardinality(more) = card + 1 /\ card \in Nat
      /\ \A k \in 1 .. card : Nth(more, k) = Nth(keep, k)
      /\ Nth(more, card + 1) = m
  BY <1>2, NthOfLast
<1>4. Select(vec, keep) = [k \in 1 .. card |-> vec[Nth(keep, k)]]
  BY DEF Select
<1>5. Select(vec, more) = [k \in 1 .. card + 1 |-> vec[Nth(more, k)]]
  BY <1>3 DEF Select
<1>6. Select(vec, keep) \in Seq(T)
  BY SelectKeeps
<1>7. Len(Select(vec, keep)) = card
  <2>1. DOMAIN Select(vec, keep) = 1 .. card
    BY <1>4
  <2> QED BY <1>3, <1>6, <2>1, LenProperties
<1> DEFINE app == Append(Select(vec, keep), vec[m])
<1>8. /\ app \in [1 .. card + 1 -> T]
      /\ \A k \in 1 .. card : app[k] = Select(vec, keep)[k]
      /\ app[card + 1] = vec[m]
  <2>1. vec[m] \in T
    BY ElementOfSeq, <1>1
  <2>2. /\ app \in Seq(T) /\ Len(app) = card + 1
        /\ \A k \in 1 .. card : app[k] = Select(vec, keep)[k]
        /\ app[card + 1] = vec[m]
    BY <1>6, <1>7, <2>1, AppendProperties
  <2> QED BY <2>2, LenProperties
<1>9. ASSUME NEW k \in 1 .. card + 1
      PROVE  vec[Nth(more, k)] = app[k]
  <2>1. CASE k = card + 1
    BY <1>3, <1>8, <2>1
  <2>2. CASE k # card + 1
    <3>1. k \in 1 .. card
      BY <1>3, <2>2
    <3> QED BY <1>3, <1>4, <1>8, <3>1
  <2> QED BY <2>1, <2>2
<1> HIDE DEF app, more, card
<1>10. app = [k \in 1 .. card + 1 |-> app[k]]
  BY <1>8
<1>11. Select(vec, more) = app
  BY <1>5, <1>9, <1>10
<1> QED BY <1>11 DEF app, more
-----------------------------------------------------------------------------
\* Quotient and remainder are what they are.
LEMMA DivisionUnique ==
  ASSUME NEW n \in Nat \ {0}, NEW q \in Nat, NEW r \in 0 .. n - 1
  PROVE  /\ n * q + r \in Nat
         /\ (n * q + r) \div n = q /\ (n * q + r) % n = r
<1> DEFINE size == n * q + r
           q2   == size \div n
           r2   == size % n
<1>1. n * q \in Nat /\ size \in Nat
  OBVIOUS
<1>2. q2 \in Nat /\ r2 \in 0 .. n - 1 /\ size = n * q2 + r2
  BY <1>1, Division
<1> HIDE DEF q2, r2
<1>3. n * q2 \in Nat
  BY <1>2
<1>4. ~(q2 < q)
  <2> SUFFICES ASSUME q2 < q PROVE FALSE
    OBVIOUS
  <2>1. (q2 + 1) * n <= q * n
    BY <1>2, TimesMonotone
  <2>2. (q2 + 1) * n = n * q2 + n /\ q * n = n * q
    BY <1>2
  <2> QED BY <1>1, <1>2, <1>3, <2>1, <2>2
<1>5. ~(q < q2)
  <2> SUFFICES ASSUME q < q2 PROVE FALSE
    OBVIOUS
  <2>1. (q + 1) * n <= q2 * n
    BY <1>2, TimesMonotone
  <2>2. (q + 1) * n = n * q + n /\ q2 * n = n * q2
    BY <1>2
  <2> QED BY <1>1, <1>2, <1>3, <2>1, <2>2
<1>6. q2 = q
  BY <1>2, <1>4, <1>5
<1> QED BY <1>1, <1>2, <1>6 DEF q2, r2

\* Where the chunks end, for a size that is given by quotient and remainder.
LEMMA ChunkEndIs ==
  ASSUME NEW n \in Nat \ {0}, NEW q \in Nat, NEW r \in 0 .. n - 1
  PROVE  \A i : ChunkEnd(n * q + r, n, i) = i * q + Smaller(i, r)
  BY DivisionUnique DEF ChunkEnd

\* With no fewer parts than elements every position ends a chunk.
LEMMA ChunkEndSingles ==
  ASSUME NEW size \in Nat, NEW n \in Nat \ {0}, size <= n, NEW i \in 0 .. size
  PROVE  ChunkEnd(size, n, i) = i
<1>1. CASE size = n
  <2>1. n * 1 + 0 = size /\ 0 \in 0 .. n - 1
    BY <1>1
  <2>2. ChunkEnd(size, n, i) = i * 1 + Smaller(i, 0)
    BY <2>1, ChunkEndIs
  <2> QED BY <2>2 DEF Smaller
<1>2. CASE size < n
  <2>1. n * 0 + size = size /\ size \in 0 .. n - 1
    BY <1>2
  <2>2. ChunkEnd(size, n, i) = i * 0 + Smaller(i, size)
    BY <2>1, ChunkEndIs
  <2> QED BY <2>2 DEF Smaller
<1> QED BY <1>1, <1>2

\* A range of numbers has so many members.
LEMMA RangeSize ==
  ASSUME NEW a \in Int, NEW b \in Int, a <= b + 1
  PROVE  IsFiniteSet(a .. b) /\ Cardinality(a .. b) = b - a + 1
<1>1. /\ IsFiniteSet(a .. b)
      /\ Cardinality(a .. b) = IF a > b THEN 0 ELSE b - a + 1
  BY FS_Interval
<1> QED BY <1>1

\* Selecting every entry gives the vector.
LEMMA SelectAll ==
  ASSUME NEW T, NEW v \in Seq(T)
  PROVE  Select(v, 1 .. Len(v)) = v
<1> DEFINE all == 1 .. Len(v)
<1>1. Len(v) \in Nat /\ v \in [all -> T]
  BY LenProperties
<1>2. \A m \in Nat : Cardinality(1 .. m) = m
  <2> SUFFICES ASSUME NEW m \in Nat PROVE Cardinality(1 .. m) = m
    OBVIOUS
  <2>1. 1 \in Int /\ m \in Int /\ 1 <= m + 1 /\ m - 1 + 1 = m
    OBVIOUS
  <2>2. Cardinality(1 .. m) = m - 1 + 1
    BY <2>1, RangeSize
  <2> QED BY <2>1, <2>2
<1>3. \A k \in all : Nth(all, k) = k
  <2> SUFFICES ASSUME NEW k \in all PROVE Nth(all, k) = k
    OBVIOUS
  <2>1. \A j \in all : j \in Nat /\ {l \in all : l <= j} = 1 .. j
    BY <1>1
  <2>2. \A j \in all : Rank(all, j) = j
    BY <1>2, <2>1 DEF Rank
  <2> HIDE DEF all
  <2> QED BY <2>2 DEF Nth
<1>4. Cardinality(all) = Len(v)
  BY <1>1, <1>2
<1>5. Select(v, all) = [k \in all |-> v[k]]
  <2>1. Select(v, all) = [k \in 1 .. Cardinality(all) |-> v[Nth(all, k)]]
    BY DEF Select
  <2>2. 1 .. Cardinality(all) = all
    BY <1>4
  <2> HIDE DEF all
  <2> QED BY <1>3, <2>1, <2>2
<1> QED BY <1>1, <1>5

\* Two ranges from 1 are equal only when they end alike.
LEMMA SameRange ==
  ASSUME NEW a \in Nat, NEW b \in Nat, 1 .. a = 1 .. b
  PROVE  a = b
  OBVIOUS

\* A range without a part of it.
LEMMA RestSize ==
  ASSUME NEW len \in Nat, NEW f \in 1 .. len, NEW l \in f .. len
  PROVE  /\ IsFiniteSet((1 .. len) \ (f .. l))
         /\ Cardinality((1 .. len) \ (f .. l)) = len - (l - f + 1)
<1> DEFINE A == 1 .. len
           B == f .. l
<1>1. /\ IsFiniteSet(A) /\ Cardinality(A) = len
      /\ IsFiniteSet(B) /\ Cardinality(B) = l - f + 1
  BY RangeSize
<1>2. A \cap B = B
  OBVIOUS
<1> HIDE DEF A, B
<1>3. /\ IsFiniteSet(A \ B)
      /\ Cardinality(A \ B) = Cardinality(A) - Cardinality(A \cap B)
  BY <1>1, FS_Difference
<1>4. IsFiniteSet(A \ B) /\ Cardinality(A \ B) = len - (l - f + 1)
  BY <1>1, <1>2, <1>3
<1> QED BY <1>4 DEF A, B

\* What is left of a range of numbers when a piece is cut out of it.
LEMMA NthOfRest ==
  ASSUME NEW len \in Nat, NEW f \in 1 .. len, NEW l \in f .. len,
         NEW i \in 1 .. len - (l - f + 1)
  PROVE  Nth((1 .. len) \ (f .. l), i) = IF i < f THEN i ELSE i + (l - f + 1)
<1> DEFINE rest == (1 .. len) \ (f .. l)
           c    == l - f + 1
           at   == IF i < f THEN i ELSE i + c
<1>1. c \in Nat \ {0} /\ c <= len /\ at \in rest /\ i \in Nat \ {0}
  OBVIOUS
<1>2. rest \in SUBSET Nat
  OBVIOUS
<1>3. IsFiniteSet(rest)
  BY RestSize
<1>4. Rank(rest, at) = i
  <2>1. CASE i < f
    <3>1. {j \in rest : j <= at} = 1 .. i
      BY <1>1, <2>1
    <3>2. Cardinality(1 .. i) = i
      BY <1>1, RangeSize
    <3> QED BY <3>1, <3>2 DEF Rank
  <2>2. CASE f <= i
    <3>1. {j \in rest : j <= at} = (1 .. (i + c)) \ (f .. l)
      BY <1>1, <2>2
    <3>2. /\ i + c \in Nat /\ f \in 1 .. (i + c) /\ l \in f .. (i + c)
          /\ (i + c) - (l - f + 1) = i
      BY <1>1, <2>2
    <3>3. Cardinality((1 .. (i + c)) \ (f .. l)) = i
      <4> DEFINE m == i + c
      <4> HIDE DEF m, c
      <4>1. m \in Nat /\ f \in 1 .. m /\ l \in f .. m /\ m - (l - f + 1) = i
        BY <3>2 DEF m
      <4>2. Cardinality((1 .. m) \ (f .. l)) = m - (l - f + 1)
        BY <4>1, RestSize
      <4> QED BY <4>1, <4>2 DEF m
    <3> QED BY <3>1, <3>3 DEF Rank
  <2> QED BY <1>1, <2>1, <2>2
<1> HIDE DEF at, rest
<1>5. Nth(rest, Rank(rest, at)) = at
  BY <1>1, <1>2, <1>3, NthEnumerates
<1> QED BY <1>4, <1>5 DEF at, rest

\* difference cuts a piece of an increasing vector out and closes the gap.
LEMMA DifferenceCuts ==
  ASSUME NEW S \in SUBSET Nat, NEW vec \in Seq(S), Increasing(vec),
         NEW f \in 1 .. Len(vec), NEW l \in f .. Len(vec)
  PROVE  LET rest == difference(vec, SubSeq(vec, f, l))
             c    == l - f + 1
         IN /\ rest \in Seq(S) /\ Increasing(rest)
            /\ Len(rest) = Len(vec) - c
            /\ DOMAIN rest = 1 .. Len(vec) - c
            /\ \A i \in DOMAIN rest :
                 rest[i] = IF i < f THEN vec[i] ELSE vec[i + c]
<1> DEFINE len   == Len(vec)
           piece == SubSeq(vec, f, l)
           c     == l - f + 1
           keep  == {i \in DOMAIN vec : ~contains(piece, vec[i])}
           rest  == difference(vec, piece)
<1>1. /\ len \in Nat /\ DOMAIN vec = 1 .. len
      /\ \A i \in 1 .. len : vec[i] \in S /\ vec[i] \in Nat
  BY LenProperties, ElementOfSeq
<1>2. /\ DOMAIN piece = 1 .. c
      /\ \A i \in 1 .. c : piece[i] = vec[f + i - 1]
  <2>1. f \in Int /\ l \in Int /\ \A i \in f .. l : vec[i] \in S
    BY <1>1
  <2>2. /\ piece \in Seq(S) /\ Len(piece) = c
        /\ \A i \in 1 .. c : piece[i] = vec[f + i - 1]
    BY <1>1, <2>1, SubSeqProperties
  <2> QED BY <2>2, LenProperties
<1>3. keep = (1 .. len) \ (f .. l)
  <2>1. ASSUME NEW i \in f .. l PROVE contains(piece, vec[i])
    <3>1. i - f + 1 \in 1 .. c /\ f + (i - f + 1) - 1 = i
      BY <1>1
    <3> QED BY <1>2, <3>1 DEF contains
  <2>2. ASSUME NEW i \in 1 .. len, contains(piece, vec[i]) PROVE i \in f .. l
    <3>1. PICK k \in 1 .. c : piece[k] = vec[i]
      BY <1>2, <2>2 DEF contains
    <3> DEFINE m == f + k - 1
    <3>2. vec[m] = vec[i] /\ m \in f .. l /\ m \in 1 .. len /\ i \in Nat
      BY <1>1, <1>2, <3>1
    <3> HIDE DEF m
    <3>3. i = m
      <4>1. /\ i < m => vec[i] < vec[m]
            /\ m < i => vec[m] < vec[i]
        BY <1>1, <3>2 DEF Increasing
      <4> QED BY <1>1, <3>2, <4>1
    <3> QED BY <3>2, <3>3
  <2> QED BY <1>1, <2>1, <2>2
<1>4. /\ Cardinality(keep) = len - c
      /\ \A i \in 1 .. len - c : Nth(keep, i) = IF i < f THEN i ELSE i + c
  <2> HIDE DEF keep
  <2> QED BY <1>1, <1>3, RestSize, NthOfRest
<1>5. rest = [k \in 1 .. Cardinality(keep) |-> vec[Nth(keep, k)]]
  BY DEF difference, Select
<1>6. rest \in Seq(S) /\ Increasing(rest)
  <2>1. vec \in Seq(Nat)
    BY SeqMonotonic
  <2> QED BY <2>1, DifferenceRemoves, DifferenceIncreasing
<1> HIDE DEF keep, piece, rest
<1>7. /\ DOMAIN rest = 1 .. len - c
      /\ \A i \in DOMAIN rest : rest[i] = IF i < f THEN vec[i] ELSE vec[i + c]
  BY <1>4, <1>5
<1>8. Len(rest) = len - c
  <2>1. Len(rest) \in Nat /\ DOMAIN rest = 1 .. Len(rest)
    BY <1>6, LenProperties
  <2> DEFINE m == len - c
  <2>2. m \in Nat
    BY <1>1
  <2>3. DOMAIN rest = 1 .. m
    BY <1>7
  <2> HIDE DEF m
  <2>4. Len(rest) = m
    BY <2>1, <2>2, <2>3, SameRange
  <2> QED BY <2>4 DEF m
<1> QED BY <1>6, <1>7, <1>8 DEF piece, rest

-----------------------------------------------------------------------------
(***************************************************************************)
(* A round of ddmin cuts its list at the boundaries of split.  Where the   *)
(* list has lost elements of the base it began with, it has a gap; a chunk *)
(* that lies over a gap is a range of text with removed text inside.  The  *)
(* lists below never have one: those of at most ten elements, and those    *)
(* whose length is a power of two.                                         *)
(***************************************************************************)
Boundaries(len, n) == {ChunkEnd(len, n, k) : k \in 0 .. Smaller(n, len)}

Gaps(base, list) ==
  {i \in DOMAIN list : /\ i + 1 \in DOMAIN list
                       /\ \E x \in base : list[i] < x /\ x < list[i + 1]}

PowerOfTwo(m) ==
  \E S \in SUBSET (1 .. m) :
    /\ m \in S
    /\ \A k \in S : k = 1 \/ \E h \in S : k = h + h

Nesting(len) == len <= 10 \/ PowerOfTwo(len)

\* The lengths and numbers of parts that the rounds on such a list meet.
Shape(len, n, gaps) ==
  \/ len <= 10 /\ n = 2 /\ gaps = {}
  \/ len <= 2 * n
  \/ \E m \in Nat : PowerOfTwo(m) /\ len = n * m
  \/ <<len, n>> \in {<<5, 2>>, <<7, 3>>, <<9, 4>>}
  \/ <<len, n>> \in {<<6, 2>>, <<8, 3>>, <<10, 4>>} /\ 3 \notin gaps

NestsAt(len, n, gaps) ==
  /\ n >= 2 \/ len <= n
  /\ gaps \subseteq Boundaries(len, n) \cap (1 .. len - 1)
  /\ Shape(len, n, gaps)

Nests(base, list, n) == NestsAt(Len(list), n, Gaps(base, list))

\* A power of two is 1 or twice another one.
LEMMA PowerHalves ==
  ASSUME NEW m \in Nat, PowerOfTwo(m)
  PROVE  m = 1 \/ \E h \in Nat \ {0} : PowerOfTwo(h) /\ m = h + h
<1>1. PICK S \in SUBSET (1 .. m) :
        m \in S /\ \A k \in S : k = 1 \/ \E h \in S : k = h + h
  BY DEF PowerOfTwo
<1>2. CASE m # 1
  <2>1. PICK h \in S : m = h + h
    BY <1>1, <1>2
  <2>2. h \in Nat \ {0} /\ h \in 1 .. m
    BY <2>1
  <2> DEFINE T == S \cap (1 .. h)
  <2>3. T \in SUBSET (1 .. h) /\ h \in T
    BY <2>2
  <2>4. ASSUME NEW k \in T PROVE k = 1 \/ \E g \in T : k = g + g
    <3>1. k \in S /\ k \in 1 .. h
      OBVIOUS
    <3>2. CASE k # 1
      <4>1. PICK g \in S : k = g + g
        BY <1>1, <3>1, <3>2
      <4>2. g \in 1 .. h
        BY <2>2, <3>1, <4>1
      <4> QED BY <4>1, <4>2
    <3> QED BY <3>2
  <2>5. PowerOfTwo(h)
    BY <2>3, <2>4 DEF PowerOfTwo
  <2> QED BY <2>1, <2>2, <2>5
<1> QED BY <1>2

\* The boundaries, for a size that is given by quotient and remainder.
LEMMA BoundariesAre ==
  ASSUME NEW n \in Nat \ {0}, NEW q \in Nat \ {0}, NEW r \in 0 .. n - 1
  PROVE  Boundaries(n * q + r, n) = {i * q + Smaller(i, r) : i \in 0 .. n}
<1> DEFINE size == n * q + r
<1>1. size \in Nat /\ n <= size
  <2>1. 1 * n <= q * n
    BY TimesMonotone
  <2>2. q * n = n * q /\ n * q \in Nat
    OBVIOUS
  <2> QED BY <2>1, <2>2
<1>2. Smaller(n, size) = n
  BY <1>1 DEF Smaller
<1>3. \A i : ChunkEnd(size, n, i) = i * q + Smaller(i, r)
  BY ChunkEndIs
<1> HIDE DEF size
<1>4. Boundaries(size, n) = {i * q + Smaller(i, r) : i \in 0 .. n}
  BY <1>2, <1>3 DEF Boundaries
<1> QED BY <1>4 DEF size

\* With no fewer parts than elements there is no chunk to lie over a gap.
LEMMA SinglesNest ==
  ASSUME NEW len \in Nat, NEW n \in Nat \ {0}, len <= n,
         NEW gaps \in SUBSET (1 .. len - 1)
  PROVE  NestsAt(len, n, gaps)
<1>1. Smaller(n, len) = len
  BY DEF Smaller
<1>2. \A i \in 0 .. len : i = ChunkEnd(len, n, i)
  BY ChunkEndSingles
<1>3. gaps \subseteq Boundaries(len, n)
  BY <1>1, <1>2 DEF Boundaries
<1> QED BY <1>3 DEF NestsAt, Shape

\* A list that has lost nothing.
LEMMA NestsBegin ==
  ASSUME NEW len \in Nat, Nesting(len)
  PROVE  NestsAt(len, 2, {})
<1>1. CASE PowerOfTwo(len)
  <2>1. len = 1 \/ \E h \in Nat : PowerOfTwo(h) /\ len = 2 * h
    <3>1. \A h \in Nat : h + h = 2 * h
      OBVIOUS
    <3> QED BY <1>1, <3>1, PowerHalves
  <2> QED BY <2>1 DEF NestsAt, Shape
<1> QED BY <1>1 DEF NestsAt, Shape, Nesting

\* The boundaries of the lists that are not of a regular shape.
LEMMA SmallBoundaries ==
  /\ Boundaries(5, 2) = {0, 3, 5}
  /\ Boundaries(5, 4) = {0, 2, 3, 4, 5}
  /\ Boundaries(6, 2) = {0, 3, 6}
  /\ Boundaries(7, 3) = {0, 3, 5, 7}
  /\ Boundaries(7, 6) = {0, 2, 3, 4, 5, 6, 7}
  /\ Boundaries(8, 3) = {0, 3, 6, 8}
  /\ Boundaries(8, 6) = {0, 2, 4, 5, 6, 7, 8}
  /\ Boundaries(9, 4) = {0, 3, 5, 7, 9}
  /\ Boundaries(9, 8) = {0, 2, 3, 4, 5, 6, 7, 8, 9}
  /\ Boundaries(10, 4) = {0, 3, 6, 8, 10}
  /\ Boundaries(10, 8) = {0, 2, 4, 5, 6, 7, 8, 9, 10}
<1>1. Boundaries(5, 2) = {0, 3, 5}
  <2>1. /\ 2 * 2 + 1 = 5 /\ 1 \in 0 .. 2 - 1
        /\ 2 \in Nat \ {0} /\ 2 \in Nat \ {0}
    OBVIOUS
  <2>2. Boundaries(5, 2) = {i * 2 + Smaller(i, 1) : i \in 0 .. 2}
    BY <2>1, BoundariesAre
  <2> QED BY <2>2 DEF Smaller
<1>2. Boundaries(5, 4) = {0, 2, 3, 4, 5}
  <2>1. /\ 4 * 1 + 1 = 5 /\ 1 \in 0 .. 4 - 1
        /\ 4 \in Nat \ {0} /\ 1 \in Nat \ {0}
    OBVIOUS
  <2>2. Boundaries(5, 4) = {i * 1 + Smaller(i, 1) : i \in 0 .. 4}
    BY <2>1, BoundariesAre
  <2> QED BY <2>2 DEF Smaller
<1>3. Boundaries(6, 2) = {0, 3, 6}
  <2>1. /\ 2 * 3 + 0 = 6 /\ 0 \in 0 .. 2 - 1
        /\ 2 \in Nat \ {0} /\ 3 \in Nat \ {0}
    OBVIOUS
  <2>2. Boundaries(6, 2) = {i * 3 + Smaller(i, 0) : i \in 0 .. 2}
    BY <2>1, BoundariesAre
  <2> QED BY <2>2 DEF Smaller
<1>4. Boundaries(7, 3) = {0, 3, 5, 7}
  <2>1. /\ 3 * 2 + 1 = 7 /\ 1 \in 0 .. 3 - 1
        /\ 3 \in Nat \ {0} /\ 2 \in Nat \ {0}
    OBVIOUS
  <2>2. Boundaries(7, 3) = {i * 2 + Smaller(i, 1) : i \in 0 .. 3}
    BY <2>1, BoundariesAre
  <2> QED BY <2>2 DEF Smaller
<1>5. Boundaries(7, 6) = {0, 2, 3, 4, 5, 6, 7}
  <2>1. /\ 6 * 1 + 1 = 7 /\ 1 \in 0 .. 6 - 1
        /\ 6 \in Nat \ {0} /\ 1 \in Nat \ {0}
    OBVIOUS
  <2>2. Boundaries(7, 6) = {i * 1 + Smaller(i, 1) : i \in 0 .. 6}
    BY <2>1, BoundariesAre
  <2> QED BY <2>2 DEF Smaller
<1>6. Boundaries(8, 3) = {0, 3, 6, 8}
  <2>1. /\ 3 * 2 + 2 = 8 /\ 2 \in 0 .. 3 - 1
        /\ 3 \in Nat \ {0} /\ 2 \in Nat \ {0}
    OBVIOUS
  <2>2. Boundaries(8, 3) = {i * 2 + Smaller(i, 2) : i \in 0 .. 3}
    BY <2>1, BoundariesAre
  <2> QED BY <2>2 DEF Smaller
<1>7. Boundaries(8, 6) = {0, 2, 4, 5, 6, 7, 8}
  <2>1. /\ 6 * 1 + 2 = 8 /\ 2 \in 0 .. 6 - 1
        /\ 6 \in Nat \ {0} /\ 1 \in Nat \ {0}
    OBVIOUS
  <2>2. Boundaries(8, 6) = {i * 1 + Smaller(i, 2) : i \in 0 .. 6}
    BY <2>1, BoundariesAre
  <2> QED BY <2>2 DEF Smaller
<1>8. Boundaries(9, 4) = {0, 3, 5, 7, 9}
  <2>1. /\ 4 * 2 + 1 = 9 /\ 1 \in 0 .. 4 - 1
        /\ 4 \in Nat \ {0} /\ 2 \in Nat \ {0}
    OBVIOUS
  <2>2. Boundaries(9, 4) = {i * 2 + Smaller(i, 1) : i \in 0 .. 4}
    BY <2>1, BoundariesAre
  <2> QED BY <2>2 DEF Smaller
<1>9. Boundaries(9, 8) = {0, 2, 3, 4, 5, 6, 7, 8, 9}
  <2>1. /\ 8 * 1 + 1 = 9 /\ 1 \in 0 .. 8 - 1
        /\ 8 \in Nat \ {0} /\ 1 \in Nat \ {0}
    OBVIOUS
  <2>2. Boundaries(9, 8) = {i * 1 + Smaller(i, 1) : i \in 0 .. 8}
    BY <2>1, BoundariesAre
  <2> QED BY <2>2 DEF Smaller
<1>10. Boundaries(10, 4) = {0, 3, 6, 8, 10}
  <2>1. /\ 4 * 2 + 2 = 10 /\ 2 \in 0 .. 4 - 1
        /\ 4 \in Nat \ {0} /\ 2 \in Nat \ {0}
    OBVIOUS
  <2>2. Boundaries(10, 4) = {i * 2 + Smaller(i, 2) : i \in 0 .. 4}
    BY <2>1, BoundariesAre
  <2> QED BY <2>2 DEF Smaller
<1>11. Boundaries(10, 8) = {0, 2, 4, 5, 6, 7, 8, 9, 10}
  <2>1. /\ 8 * 1 + 2 = 10 /\ 2 \in 0 .. 8 - 1
        /\ 8 \in Nat \ {0} /\ 1 \in Nat \ {0}
    OBVIOUS
  <2>2. Boundaries(10, 8) = {i * 1 + Smaller(i, 2) : i \in 0 .. 8}
    BY <2>1, BoundariesAre
  <2> QED BY <2>2 DEF Smaller
<1> QED BY <1>1, <1>2, <1>3, <1>4, <1>5, <1>6, <1>7, <1>8, <1>9, <1>10, <1>11

\* Twice as many parts: every boundary stays one, and the shape is kept.
LEMMA NestsRefine ==
  ASSUME NEW len \in Nat \ {0}, NEW n \in Nat \ {0}, NEW gaps,
         NestsAt(len, n, gaps), n # len
  PROVE  NestsAt(len, Smaller(n * 2, len), gaps)
<1>1. CASE len <= 2 * n
  <2>1. Smaller(n * 2, len) = len
    BY <1>1 DEF Smaller
  <2> QED BY <2>1, SinglesNest DEF NestsAt
<1>2. CASE ~(len <= 2 * n)
  <2>1. Smaller(n * 2, len) = 2 * n /\ n >= 2 /\ 2 * n \in Nat \ {0}
    BY <1>2 DEF Smaller, NestsAt
  <2>2. CASE \E m \in Nat : PowerOfTwo(m) /\ len = n * m
    <3>1. PICK m \in Nat : PowerOfTwo(m) /\ len = n * m
      BY <2>2
    <3>2. m # 1
      BY <1>2, <3>1
    <3>3. PICK h \in Nat \ {0} : PowerOfTwo(h) /\ m = h + h
      BY <3>1, <3>2, PowerHalves
    <3>4. len = 2 * n * h
      BY <3>1, <3>3
    <3>5. Boundaries(len, n) \subseteq Boundaries(len, 2 * n)
      <4>1. m \in Nat \ {0} /\ n * m + 0 = len /\ 2 * n * h + 0 = len
            /\ 0 \in 0 .. n - 1 /\ 0 \in 0 .. 2 * n - 1
        BY <2>1, <3>1, <3>3, <3>4
      <4>2. Boundaries(len, n) = {i * m + Smaller(i, 0) : i \in 0 .. n}
        BY <4>1, BoundariesAre
      <4>3. Boundaries(len, 2 * n) =
              {i * h + Smaller(i, 0) : i \in 0 .. 2 * n}
        <5> DEFINE p == 2 * n
        <5>1. p \in Nat \ {0} /\ p * h + 0 = len /\ 0 \in 0 .. p - 1
          BY <2>1, <4>1
        <5> HIDE DEF p
        <5>2. Boundaries(p * h + 0, p) = {i * h + Smaller(i, 0) : i \in 0 .. p}
          BY <5>1, BoundariesAre
        <5> QED BY <5>1, <5>2 DEF p
      <4>4. ASSUME NEW i \in 0 .. n
            PROVE  i * m + Smaller(i, 0) \in Boundaries(len, 2 * n)
        <5>1. 2 * i \in 0 .. 2 * n /\ i * m = 2 * i * h
          BY <3>3
        <5>2. Smaller(i, 0) = 0 /\ Smaller(2 * i, 0) = 0
          BY DEF Smaller
        <5> QED BY <4>3, <5>1, <5>2
      <4> QED BY <4>2, <4>4
    <3> QED BY <2>1, <3>3, <3>4, <3>5 DEF NestsAt, Shape
  <2>3. CASE len <= 10 /\ n = 2 /\ gaps = {}
    <3>1. len \in 5 .. 8 \/ len = 9 \/ len = 10
      BY <1>2, <2>3
    <3> QED BY <2>1, <2>3, <3>1 DEF NestsAt, Shape
  <2>4. CASE <<len, n>> \in {<<5, 2>>, <<7, 3>>, <<9, 4>>}
    <3>1. gaps \subseteq Boundaries(len, n) \cap (1 .. len - 1)
      BY DEF NestsAt
    <3>2. gaps \subseteq Boundaries(len, 2 * n)
      BY <2>4, <3>1, SmallBoundaries
    <3> QED BY <2>1, <2>4, <3>1, <3>2 DEF NestsAt, Shape
  <2>5. CASE <<len, n>> \in {<<6, 2>>, <<8, 3>>, <<10, 4>>} /\ 3 \notin gaps
    <3>1. gaps \subseteq Boundaries(len, n) \cap (1 .. len - 1)
      BY DEF NestsAt
    <3>2. gaps \subseteq Boundaries(len, 2 * n)
      BY <2>5, <3>1, SmallBoundaries
    <3> QED BY <2>1, <2>5, <3>1, <3>2 DEF NestsAt, Shape
  <2> QED BY <1>2, <2>2, <2>3, <2>4, <2>5 DEF NestsAt, Shape
<1> QED BY <1>1, <1>2

\* The length of a chunk.
ChunkSize(len, n, k) == ChunkEnd(len, n, k) - ChunkEnd(len, n, k - 1)

\* The first len % n chunks have one element more than the others.
LEMMA ChunkSizeIs ==
  ASSUME NEW len \in Nat, NEW n \in Nat \ {0}, NEW k \in Nat \ {0}
  PROVE  ChunkSize(len, n, k) =
           (len \div n) + (IF k <= len % n THEN 1 ELSE 0)
<1>1. k - 1 \in Nat /\ k - 1 + 1 = k
  OBVIOUS
<1>2. ChunkEnd(len, n, k) =
        ChunkEnd(len, n, k - 1) + (len \div n)
          + (IF k - 1 < len % n THEN 1 ELSE 0)
  BY <1>1, ChunkEndStep
<1>3. len \div n \in Nat /\ len % n \in Nat
  BY Division
<1>4. ChunkEnd(len, n, k - 1) \in Int
  <2>1. (k - 1) * (len \div n) \in Int
    BY <1>1, <1>3
  <2> QED BY <1>1, <1>3, <2>1 DEF ChunkEnd, Smaller
<1> QED BY <1>2, <1>3, <1>4 DEF ChunkSize

\* When a chunk is cut out, one part less cuts the rest where it was cut.
LEMMA ChunksKept ==
  ASSUME NEW n \in Nat \ {0}, n >= 2, NEW len \in Nat, len > n,
         NEW k \in 1 .. n
  PROVE  LET c == ChunkSize(len, n, k) IN
           /\ c \in Nat /\ n - 1 <= len - c
           /\ \A j \in 0 .. n - 1 :
                ChunkEnd(len - c, n - 1, j) =
                  IF j < k THEN ChunkEnd(len, n, j)
                           ELSE ChunkEnd(len, n, j + 1) - c
<1> DEFINE q == len \div n
           r == len % n
           b == IF k <= r THEN 1 ELSE 0
           c == ChunkSize(len, n, k)
           nq == n * q
<1>1. /\ q \in Nat /\ r \in 0 .. n - 1 /\ len = nq + r /\ nq \in Nat
      /\ c = q + b
      /\ \A i : ChunkEnd(len, n, i) = i * q + Smaller(i, r)
  <2>1. q \in Nat /\ r \in 0 .. n - 1 /\ len = n * q + r
    BY Division
  <2>2. c = q + b
    BY ChunkSizeIs
  <2>3. \A i : ChunkEnd(len, n, i) = i * q + Smaller(i, r)
    BY DEF ChunkEnd
  <2> HIDE DEF q, r, c
  <2>4. nq \in Nat
    BY <2>1
  <2> QED BY <2>1, <2>2, <2>3, <2>4
<1>2. q # 0
  <2> SUFFICES ASSUME q = 0 PROVE FALSE
    OBVIOUS
  <2>1. nq = 0
    BY <1>1
  <2> QED BY <1>1, <2>1
<1> HIDE DEF c, q, r
<1>3. /\ (n - 1) * q = nq - q /\ (n - 1) * q \in Nat
      /\ 1 * (n - 1) <= q * (n - 1) /\ q * (n - 1) = (n - 1) * q
  <2>1. 1 * (n - 1) <= q * (n - 1)
    BY <1>1, <1>2, TimesMonotone
  <2> QED BY <1>1, <2>1
<1> DEFINE p == n - 1
           pq == p * q
<1>4. /\ p \in Nat \ {0} /\ n = p + 1 /\ pq = nq - q /\ pq \in Nat
      /\ p <= pq
  BY <1>3
<1>5. len - c = pq + (r - b) /\ r - b \in 0 .. p /\ b \in 0 .. 1
  BY <1>1, <1>4
<1>6. ASSUME NEW j \in 0 .. p
      PROVE  ChunkEnd(len - c, p, j) = j * q + Smaller(j, r - b)
  <2>1. CASE r - b < p
    <3> DEFINE s == r - b
    <3>1. s \in 0 .. p - 1
      BY <1>5, <2>1
    <3> HIDE DEF s, p, b
    <3>2. ChunkEnd(p * q + s, p, j) = j * q + Smaller(j, s)
      BY <1>1, <1>4, <3>1, ChunkEndIs
    <3> QED BY <1>5, <3>2 DEF s
  <2>2. CASE r - b = p
    <3>1. p * (q + 1) + 0 = len - c
      <4>1. p * (q + 1) = p * q + p
        BY <1>1, <1>4
      <4> QED BY <1>4, <1>5, <2>2, <4>1
    <3>2. ChunkEnd(p * (q + 1) + 0, p, j) = j * (q + 1) + Smaller(j, 0)
      <4>1. 0 \in 0 .. p - 1 /\ q + 1 \in Nat
        BY <1>1, <1>4
      <4> HIDE DEF p
      <4> QED BY <1>4, <4>1, ChunkEndIs
    <3>3. j * (q + 1) = j * q + j /\ j * q \in Nat /\ Smaller(j, 0) = 0
          /\ Smaller(j, p) = j
      BY <1>1, <1>4 DEF Smaller
    <3> QED BY <2>2, <3>1, <3>2, <3>3
  <2> QED BY <1>5, <2>1, <2>2
<1>7. ASSUME NEW j \in 0 .. p
      PROVE  ChunkEnd(len - c, p, j) =
               IF j < k THEN ChunkEnd(len, n, j)
                        ELSE ChunkEnd(len, n, j + 1) - c
  <2>1. CASE j < k
    <3>1. Smaller(j, r - b) = Smaller(j, r)
      BY <1>1, <2>1 DEF Smaller
    <3> QED BY <1>1, <1>6, <2>1, <3>1
  <2>2. CASE k <= j
    <3>1. Smaller(j + 1, r) = Smaller(j, r - b) + b
      BY <1>1, <2>2 DEF Smaller
    <3>2. (j + 1) * q = j * q + q /\ j * q \in Nat
      BY <1>1
    <3>3. Smaller(j, r - b) \in Nat
      BY <1>5 DEF Smaller
    <3> QED BY <1>1, <1>5, <1>6, <2>2, <3>1, <3>2, <3>3
  <2> QED BY <1>4, <2>1, <2>2
<1>8. c \in Nat /\ n - 1 <= len - c
  BY <1>1, <1>4, <1>5
<1> QED BY <1>7, <1>8 DEF c

\* A gap of a list that a chunk was cut out of is where the chunk was, or an
\* old one.
CutGaps(gaps, cut, c, rest) ==
  \A i \in rest : \/ i = cut
                  \/ i < cut /\ i \in gaps
                  \/ i > cut /\ i + c \in gaps

\* An accepted chunk: the gap that it leaves lies where the next round cuts.
LEMMA NestsAccept ==
  ASSUME NEW len \in Nat, NEW n \in Nat \ {0}, NEW gaps,
         NestsAt(len, n, gaps), NEW k \in 1 .. Smaller(n, len),
         NEW rest \in SUBSET (1 .. len - ChunkSize(len, n, k) - 1),
         CutGaps(gaps, ChunkEnd(len, n, k - 1), ChunkSize(len, n, k), rest)
  PROVE  NestsAt(len - ChunkSize(len, n, k), Larger(n - 1, 2), rest)
<1> DEFINE c   == ChunkSize(len, n, k)
           cut == ChunkEnd(len, n, k - 1)
           m   == Larger(n - 1, 2)
<1>1. /\ k - 1 \in 0 .. Smaller(n, len) /\ k \in 0 .. Smaller(n, len)
      /\ k - 1 < k /\ k \in 1 .. n /\ k <= len /\ Smaller(n, len) \in Nat
      /\ Smaller(n, len) <= n
  BY DEF Smaller
<1>2. /\ cut \in 0 .. len /\ c \in 1 .. len /\ cut + c <= len
      /\ m \in Nat \ {0} /\ m >= 2
  <2>1. /\ cut \in 0 .. len /\ ChunkEnd(len, n, k) \in 0 .. len
        /\ cut < ChunkEnd(len, n, k)
    BY <1>1, ChunkEndIncreases
  <2>2. c = ChunkEnd(len, n, k) - cut
    BY DEF ChunkSize
  <2> HIDE DEF c, cut
  <2> QED BY <2>1, <2>2 DEF Larger
<1>3. c = (len \div n) + (IF k <= len % n THEN 1 ELSE 0)
  <2>1. k \in Nat \ {0}
    BY <1>1
  <2> QED BY <2>1, ChunkSizeIs
<1>4. gaps \subseteq Boundaries(len, n) \cap (1 .. len - 1)
  BY DEF NestsAt
<1>5. CASE len <= n
  <2>1. len - c \in Nat /\ len - c <= m
    BY <1>2, <1>5 DEF Larger
  <2> QED BY <1>2, <2>1, SinglesNest
<1>6. CASE n = 2 /\ len > 2
  <2>1. rest = {}
    <3> SUFFICES ASSUME NEW i \in rest PROVE FALSE
      OBVIOUS
    <3>1. /\ ChunkEnd(len, 2, 0) = 0 /\ ChunkEnd(len, 2, 2) = len
          /\ ChunkEnd(len, 2, 1) \in 0 .. len
      <4>1. len \div 2 \in Nat /\ len % 2 \in 0 .. 1
            /\ len = 2 * (len \div 2) + (len % 2)
        OBVIOUS
      <4> QED BY <4>1 DEF ChunkEnd, Smaller
    <3>2. Boundaries(len, 2) = {0, ChunkEnd(len, 2, 1), len}
      <4>1. Smaller(2, len) = 2 /\ 0 .. 2 = {0, 1, 2}
        BY <1>6 DEF Smaller
      <4> QED BY <3>1, <4>1 DEF Boundaries
    <3>3. gaps \subseteq {ChunkEnd(len, 2, 1)}
      BY <1>4, <1>6, <3>2
    <3>4. CASE k = 1
      <4>1. cut = 0 /\ c = ChunkEnd(len, 2, 1)
        BY <1>6, <3>1, <3>4 DEF ChunkSize
      <4> HIDE DEF cut, c
      <4>2. i \in Nat /\ i # 0 /\ i + c # c
        BY <1>2
      <4> QED BY <3>3, <4>1, <4>2 DEF CutGaps, cut, c
    <3>5. CASE k = 2
      <4>1. cut = ChunkEnd(len, 2, 1) /\ c = len - cut
        BY <1>6, <3>1, <3>5 DEF ChunkSize
      <4> HIDE DEF cut, c
      <4>2. i \in 1 .. cut - 1
        BY <1>2, <4>1 DEF c
      <4>3. \/ i = cut
            \/ i < cut /\ i \in gaps
            \/ i > cut /\ i + c \in gaps
        BY DEF CutGaps, cut, c
      <4> QED BY <1>2, <3>3, <4>1, <4>2, <4>3
    <3> QED BY <1>1, <1>6, <3>4, <3>5
  <2>2. m = 2 /\ len - c \in Nat /\ len - c < len
    BY <1>2, <1>6 DEF Larger
  <2>3. CASE len <= 10
    BY <1>2, <2>1, <2>2, <2>3 DEF NestsAt, Shape
  <2>4. CASE len > 10
    <3>1. PICK g \in Nat : PowerOfTwo(g) /\ len = 2 * g
      BY <1>6, <2>4 DEF NestsAt, Shape
    <3>2. PICK h \in Nat \ {0} : PowerOfTwo(h) /\ g = h + h
      BY <2>4, <3>1, PowerHalves
    <3>3. len \div 2 = g /\ len % 2 = 0
      BY <3>1
    <3>4. c = g
      BY <1>1, <1>6, <1>3, <3>3
    <3>5. len - c = 2 * h
      BY <3>1, <3>2, <3>4
    <3> QED BY <1>2, <2>1, <2>2, <3>2, <3>5 DEF NestsAt, Shape
  <2> QED BY <2>3, <2>4
<1>7. CASE n >= 3 /\ len > n
  <2>1. /\ n - 1 <= len - c /\ m = n - 1 /\ n - 1 \in Nat \ {0}
        /\ \A j \in 0 .. n - 1 :
             ChunkEnd(len - c, n - 1, j) =
               IF j < k THEN ChunkEnd(len, n, j)
                        ELSE ChunkEnd(len, n, j + 1) - c
    BY <1>1, <1>7, ChunksKept DEF Larger
  <2>2. Smaller(m, len - c) = n - 1 /\ Smaller(n, len) = n
    BY <1>2, <1>7, <2>1 DEF Smaller
  <2>3. ASSUME NEW i \in rest PROVE i \in Boundaries(len - c, m)
    <3>1. \/ i = cut
          \/ i < cut /\ i \in gaps
          \/ i > cut /\ i + c \in gaps
      BY DEF CutGaps
    <3>2. \A j1, j2 \in 0 .. n :
            j1 < j2 => ChunkEnd(len, n, j1) < ChunkEnd(len, n, j2)
      BY <2>2, ChunkEndIncreases
    <3>3. \A j \in 0 .. n : ChunkEnd(len, n, j) \in 0 .. len
      BY <2>2, ChunkEndIncreases
    <3>4. SUFFICES \E j \in 0 .. n - 1 : i = ChunkEnd(len - c, n - 1, j)
      BY <2>1, <2>2 DEF Boundaries
    <3>5. CASE i = cut
      BY <1>1, <2>1, <3>5
    <3>6. CASE i < cut /\ i \in gaps
      <4>1. PICK j \in 0 .. n : i = ChunkEnd(len, n, j)
        BY <1>4, <2>2, <3>6 DEF Boundaries
      <4>2. j < k - 1
        BY <1>1, <1>2, <3>2, <3>3, <3>6, <4>1
      <4>3. j \in 0 .. n - 1 /\ j < k
        BY <1>1, <4>2
      <4> QED BY <2>1, <4>1, <4>3
    <3>7. CASE i > cut /\ i + c \in gaps
      <4>1. PICK j \in 0 .. n : i + c = ChunkEnd(len, n, j)
        BY <1>4, <2>2, <3>7 DEF Boundaries
      <4>2. i \in Nat /\ ChunkEnd(len, n, k) = cut + c
        BY <1>1, <1>2, <3>3 DEF ChunkSize
      <4> HIDE DEF c, cut
      <4>3. ChunkEnd(len, n, k) < ChunkEnd(len, n, j)
        BY <1>2, <3>7, <4>1, <4>2
      <4>4. k < j
        BY <1>1, <3>2, <3>3, <4>1, <4>3
      <4>5. j - 1 \in 0 .. n - 1 /\ ~(j - 1 < k) /\ j - 1 + 1 = j
        BY <1>1, <4>4
      <4>6. ChunkEnd(len - c, n - 1, j - 1) = ChunkEnd(len, n, j) - c
        BY <2>1, <4>5
      <4>7. i = ChunkEnd(len - c, n - 1, j - 1)
        BY <1>2, <4>1, <4>2, <4>6
      <4> QED BY <4>5, <4>7
    <3> QED BY <3>1, <3>5, <3>6, <3>7
  <2>4. Shape(len - c, m, rest)
    <3>1. CASE len <= 2 * n
      <4>1. len = 2 * n => c >= 2
        <5>1. len = 2 * n => len \div n = 2 /\ len % n = 0
          <6> SUFFICES ASSUME len = 2 * n
                       PROVE  len \div n = 2 /\ len % n = 0
            OBVIOUS
          <6>1. n * 2 + 0 = len /\ 0 \in 0 .. n - 1
            OBVIOUS
          <6>2. (n * 2 + 0) \div n = 2 /\ (n * 2 + 0) % n = 0
            BY <6>1, DivisionUnique
          <6> QED BY <6>1, <6>2
        <5> QED BY <1>1, <1>3, <5>1
      <4> QED BY <1>2, <2>1, <3>1, <4>1 DEF Shape
    <3>2. CASE \E g \in Nat : PowerOfTwo(g) /\ len = n * g
      <4>1. PICK g \in Nat : PowerOfTwo(g) /\ len = n * g
        BY <3>2
      <4>2. len \div n = g /\ len % n = 0
        <5>1. n * g + 0 = len /\ 0 \in 0 .. n - 1
          BY <4>1
        <5> QED BY <5>1, DivisionUnique
      <4>3. c = g
        BY <1>1, <1>3, <4>2
      <4>4. len - c = (n - 1) * g
        BY <4>1, <4>3
      <4> QED BY <2>1, <4>1, <4>4 DEF Shape
    <3>3. CASE <<len, n>> \in {<<7, 3>>, <<9, 4>>}
      <4>1. c \in {2, 3}
        BY <1>1, <1>3, <3>3
      <4> QED BY <2>1, <3>3, <4>1 DEF Shape
    <3>4. CASE <<len, n>> \in {<<8, 3>>, <<10, 4>>} /\ 3 \notin gaps
      <4>1. c = IF k <= 2 THEN 3 ELSE 2
        BY <1>1, <1>3, <3>4
      <4>2. k > 2 => cut >= 6
        <5>1. cut = (k - 1) * (len \div n) + Smaller(k - 1, len % n)
          BY DEF ChunkEnd
        <5>2. len \div n = 2 /\ len % n = 2
          BY <3>4
        <5> QED BY <1>1, <5>1, <5>2 DEF Smaller
      <4>3. k > 2 => 3 \notin rest
        <5> HIDE DEF cut
        <5> QED BY <1>2, <3>4, <4>2 DEF CutGaps, cut
      <4> QED BY <2>1, <3>4, <4>1, <4>3 DEF Shape
    <3> QED BY <1>7, <3>1, <3>2, <3>3, <3>4 DEF NestsAt, Shape
  <2>5. rest \subseteq 1 .. len - c - 1
    OBVIOUS
  <2> HIDE DEF c, m
  <2> QED BY <1>2, <2>3, <2>4, <2>5 DEF NestsAt, c, m
<1> QED BY <1>5, <1>6, <1>7 DEF NestsAt

-----------------------------------------------------------------------------
\* A list that is the whole base has no gap.
LEMMA NoGapYet ==
  ASSUME NEW S \in SUBSET Nat, NEW vec \in Seq(S), Increasing(vec)
  PROVE  Gaps(Elements(vec), vec) = {}
<1>1. /\ DOMAIN vec = 1 .. Len(vec) /\ Len(vec) \in Nat
      /\ \A i \in DOMAIN vec : vec[i] \in Nat
  BY LenProperties, ElementOfSeq
<1> SUFFICES ASSUME NEW i \in DOMAIN vec, i + 1 \in DOMAIN vec,
                    NEW j \in DOMAIN vec, vec[i] < vec[j], vec[j] < vec[i + 1]
             PROVE  FALSE
  BY DEF Gaps, Elements
<1>2. i < j
  <2>1. j < i => vec[j] < vec[i]
    BY DEF Increasing
  <2> QED BY <1>1, <2>1
<1>3. j < i + 1
  <2>1. i + 1 < j => vec[i + 1] < vec[j]
    BY DEF Increasing
  <2> QED BY <1>1, <2>1
<1> QED BY <1>1, <1>2, <1>3

\* The chunks of split are pieces of the list: SplitChunks, in the terms of
\* the boundaries.
LEMMA ChunkPiece ==
  ASSUME NEW S, NEW vec \in Seq(S), NEW n \in Nat \ {0},
         NEW k \in DOMAIN split(vec, n)
  PROVE  LET len == Len(vec)
             f   == ChunkEnd(len, n, k - 1) + 1
             l   == ChunkEnd(len, n, k)
         IN /\ len \in Nat /\ k \in 1 .. Smaller(n, len)
            /\ f \in 1 .. len /\ l \in f .. len
            /\ split(vec, n)[k] = SubSeq(vec, f, l)
<1>1. Len(vec) \in Nat /\ k \in 1 .. Smaller(n, Len(vec))
  BY LenProperties DEF split
<1>2. /\ ChunkFirst(vec, n, k) \in 1 .. Len(vec)
      /\ ChunkLast(vec, n, k) \in 1 .. Len(vec)
      /\ ChunkFirst(vec, n, k) <= ChunkLast(vec, n, k)
      /\ split(vec, n)[k] = SubSeq(vec, ChunkFirst(vec, n, k),
                                        ChunkLast(vec, n, k))
  BY SplitChunks
<1> DEFINE f == ChunkFirst(vec, n, k)
           l == ChunkLast(vec, n, k)
<1>3. f = ChunkEnd(Len(vec), n, k - 1) + 1 /\ l = ChunkEnd(Len(vec), n, k)
  BY DEF ChunkFirst, ChunkLast
<1>4. f \in 1 .. Len(vec) /\ l \in 1 .. Len(vec) /\ f <= l
      /\ split(vec, n)[k] = SubSeq(vec, f, l)
  BY <1>2
<1> HIDE DEF f, l
<1>5. l \in f .. Len(vec)
  BY <1>1, <1>4
<1> QED BY <1>1, <1>3, <1>4, <1>5

\* When a chunk is dropped, the chunks of the next round have no gap either.
LEMMA NestsDropped ==
  ASSUME NEW S \in SUBSET Nat, NEW vec \in Seq(S), Increasing(vec),
         NEW base \in SUBSET Nat, NEW n \in Nat \ {0}, Nests(base, vec, n),
         NEW k \in DOMAIN split(vec, n)
  PROVE  Nests(base, difference(vec, split(vec, n)[k]), Larger(n - 1, 2))
<1> DEFINE len  == Len(vec)
           cut  == ChunkEnd(len, n, k - 1)
           l    == ChunkEnd(len, n, k)
           c    == ChunkSize(len, n, k)
           rest == difference(vec, split(vec, n)[k])
           gaps == Gaps(base, vec)
<1>1. /\ len \in Nat /\ k \in 1 .. Smaller(n, len)
      /\ cut + 1 \in 1 .. len /\ l \in cut + 1 .. len
      /\ split(vec, n)[k] = SubSeq(vec, cut + 1, l)
  BY ChunkPiece
<1>2. c = l - cut
  BY DEF ChunkSize
<1>3. DOMAIN vec = 1 .. len /\ \A i \in DOMAIN vec : vec[i] \in Nat
  BY LenProperties, ElementOfSeq
<1>4. cut \in Nat
  <2>1. k - 1 \in 0 .. Smaller(n, len)
    BY <1>1 DEF Smaller
  <2> HIDE DEF len
  <2> QED BY <1>1, <2>1, ChunkEndIncreases
<1> HIDE DEF cut, l, c, len
<1>5. /\ c \in 1 .. len /\ l - (cut + 1) + 1 = c
  BY <1>1, <1>2, <1>4
<1>6. /\ Len(rest) = len - c
      /\ DOMAIN rest = 1 .. len - c
      /\ \A i \in DOMAIN rest :
           rest[i] = IF i < cut + 1 THEN vec[i] ELSE vec[i + c]
  <2>1. cut + 1 \in 1 .. Len(vec) /\ l \in cut + 1 .. Len(vec)
    BY <1>1 DEF len
  <2> DEFINE f == cut + 1
             piece == SubSeq(vec, f, l)
  <2>4. f \in 1 .. Len(vec) /\ l \in f .. Len(vec)
    BY <2>1
  <2> HIDE DEF f
  <2>2. /\ Len(difference(vec, piece)) = Len(vec) - (l - f + 1)
        /\ DOMAIN difference(vec, piece) = 1 .. Len(vec) - (l - f + 1)
        /\ \A i \in DOMAIN difference(vec, piece) :
             difference(vec, piece)[i] =
               IF i < f THEN vec[i] ELSE vec[i + (l - f + 1)]
    BY <2>4, DifferenceCuts
  <2>3. rest = difference(vec, piece) /\ l - f + 1 = c
    BY <1>1, <1>5 DEF f
  <2> HIDE DEF rest, piece
  <2> QED BY <2>2, <2>3 DEF f, len
<1> DEFINE left == Gaps(base, rest)
<1>7. left \subseteq 1 .. len - c - 1
  BY <1>1, <1>5, <1>6 DEF Gaps
<1>8. CutGaps(gaps, cut, c, left)
  <2> SUFFICES ASSUME NEW i \in left, i # cut
               PROVE  \/ i < cut /\ i \in gaps
                      \/ i > cut /\ i + c \in gaps
    BY DEF CutGaps
  <2>1. /\ i \in 1 .. len - c /\ i + 1 \in 1 .. len - c
        /\ i \in 1 .. len /\ i + 1 \in 1 .. len
        /\ i + c \in 1 .. len /\ (i + 1) + c \in 1 .. len
        /\ (i + 1) + c = (i + c) + 1
    <3>1. i \in DOMAIN rest /\ i + 1 \in DOMAIN rest
      BY DEF Gaps
    <3>2. i \in 1 .. len - c /\ i + 1 \in 1 .. len - c
      BY <1>6, <3>1
    <3> HIDE DEF left
    <3> QED BY <1>1, <1>5, <3>2
  <2>2. PICK x \in base : rest[i] < x /\ x < rest[i + 1]
    BY DEF Gaps
  <2>3. CASE i < cut
    <3>1. rest[i] = vec[i] /\ rest[i + 1] = vec[i + 1]
      BY <1>4, <1>6, <2>1, <2>3
    <3> QED BY <1>3, <2>1, <2>2, <2>3, <3>1 DEF Gaps
  <2>4. CASE i > cut
    <3>1. rest[i] = vec[i + c] /\ rest[i + 1] = vec[(i + 1) + c]
      BY <1>4, <1>6, <2>1, <2>4
    <3> QED BY <1>3, <2>1, <2>2, <2>4, <3>1 DEF Gaps
  <2> QED BY <1>4, <2>1, <2>3, <2>4
<1> HIDE DEF rest, gaps, left
<1>9. NestsAt(len - c, Larger(n - 1, 2), left)
  <2>1. NestsAt(len, n, gaps)
    BY DEF Nests, gaps, len
  <2> QED BY <1>1, <1>7, <1>8, <2>1, NestsAccept DEF c, cut
<1> QED BY <1>6, <1>9 DEF Nests, left, rest

\* What lies between the ends of a chunk and was in the base is in the chunk.
LEMMA ChunkWithoutGap ==
  ASSUME NEW S \in SUBSET Nat, NEW vec \in Seq(S), Increasing(vec),
         NEW base \in SUBSET Nat, NEW n \in Nat \ {0}, Nests(base, vec, n),
         NEW k \in DOMAIN split(vec, n), NEW x \in base,
         split(vec, n)[k][1] < x,
         x < split(vec, n)[k][Len(split(vec, n)[k])]
  PROVE  x \in Elements(split(vec, n)[k])
<1> DEFINE len   == Len(vec)
           f     == ChunkEnd(len, n, k - 1) + 1
           l     == ChunkEnd(len, n, k)
           chunk == split(vec, n)[k]
<1>1. /\ len \in Nat /\ k \in 1 .. Smaller(n, len)
      /\ f \in 1 .. len /\ l \in f .. len
      /\ chunk = SubSeq(vec, f, l)
  BY ChunkPiece
<1>2. DOMAIN vec = 1 .. len /\ \A i \in DOMAIN vec : vec[i] \in Nat
  BY LenProperties, ElementOfSeq
<1>3. /\ DOMAIN chunk = 1 .. l - f + 1 /\ Len(chunk) = l - f + 1
      /\ \A i \in 1 .. l - f + 1 : chunk[i] = vec[f + i - 1]
  <2> HIDE DEF f, l, len
  <2>1. f \in Int /\ l \in Int /\ f <= l /\ \A i \in f .. l : vec[i] \in Nat
    <3>1. f \in 1 .. len /\ l \in f .. len /\ len \in Nat
      BY <1>1
    <3>2. f \in Int /\ l \in Int /\ f <= l /\ f .. l \subseteq 1 .. len
      BY <3>1
    <3> QED BY <1>2, <3>2
  <2>2. /\ SubSeq(vec, f, l) \in Seq(Nat)
        /\ Len(SubSeq(vec, f, l)) = IF f <= l THEN l - f + 1 ELSE 0
        /\ \A i \in 1 .. l - f + 1 : SubSeq(vec, f, l)[i] = vec[f + i - 1]
    BY <2>1, SubSeqProperties
  <2> QED BY <1>1, <2>1, <2>2, LenProperties
<1>4. /\ k - 1 \in 0 .. Smaller(n, len) /\ k \in 0 .. Smaller(n, len)
      /\ \A j1, j2 \in 0 .. Smaller(n, len) :
           j1 < j2 => ChunkEnd(len, n, j1) < ChunkEnd(len, n, j2)
      /\ \A j \in 0 .. Smaller(n, len) : ChunkEnd(len, n, j) \in 0 .. len
  <2>1. len \in Nat /\ k \in 1 .. Smaller(n, len)
    BY <1>1
  <2> HIDE DEF len
  <2>2. Smaller(n, len) \in Nat
    BY <2>1 DEF Smaller
  <2>3. /\ \A j1, j2 \in 0 .. Smaller(n, len) :
             j1 < j2 => ChunkEnd(len, n, j1) < ChunkEnd(len, n, j2)
        /\ \A j \in 0 .. Smaller(n, len) : ChunkEnd(len, n, j) \in 0 .. len
    BY <2>1, ChunkEndIncreases
  <2> QED BY <2>1, <2>2, <2>3
<1>5. NestsAt(len, n, Gaps(base, vec))
  BY DEF Nests
<1>6. f = ChunkEnd(len, n, k - 1) + 1 /\ l = ChunkEnd(len, n, k)
  OBVIOUS
<1> HIDE DEF len, f, l, chunk
<1>7. vec[f] < x /\ x < vec[l]
  <2>1. chunk[1] < x /\ x < chunk[Len(chunk)]
    BY DEF chunk
  <2>2. 1 \in 1 .. l - f + 1 /\ l - f + 1 \in 1 .. l - f + 1
        /\ f + 1 - 1 = f /\ f + (l - f + 1) - 1 = l
    BY <1>1
  <2>3. chunk[1] = vec[f] /\ chunk[Len(chunk)] = vec[l]
    BY <1>3, <2>2
  <2> QED BY <2>1, <2>3
<1>8. PICK j \in f .. l : x < vec[j] /\ \A i \in f .. l : x < vec[i] => j <= i
  <2> DEFINE T == {i \in f .. l : x < vec[i]}
  <2>1. T \in SUBSET Nat /\ l \in T
    BY <1>1, <1>7
  <2>2. \E j \in T : \A i \in T : j <= i
    BY <2>1, LeastMember
  <2> QED BY <2>2
<1>9. /\ j - 1 \in f .. l /\ j - 1 \in 1 .. len /\ j \in 1 .. len
      /\ j - 1 + 1 = j /\ ~(x < vec[j - 1]) /\ j - 1 < j /\ j - 1 \in Nat
  <2>1. j # f
    <3>1. f \in DOMAIN vec /\ vec[f] \in Nat /\ x \in Nat
      BY <1>1, <1>2
    <3> QED BY <1>7, <1>8, <3>1
  <2>2. j - 1 \in f .. l /\ ~(j <= j - 1)
    BY <1>1, <2>1
  <2> QED BY <1>1, <1>8, <2>2
<1>10. CASE vec[j - 1] = x
  <2>1. j - f \in 1 .. l - f + 1 /\ f + (j - f) - 1 = j - 1
    BY <1>1, <1>9
  <2>2. chunk[j - f] = x
    BY <1>3, <1>10, <2>1
  <2> QED BY <1>3, <2>1, <2>2 DEF Elements, chunk
<1>11. CASE vec[j - 1] < x
  <2>1. j - 1 \in Gaps(base, vec)
    BY <1>2, <1>8, <1>9, <1>11 DEF Gaps
  <2>2. PICK i \in 0 .. Smaller(n, len) : j - 1 = ChunkEnd(len, n, i)
    BY <1>5, <2>1 DEF NestsAt, Boundaries
  <2>3. ChunkEnd(len, n, k - 1) < j - 1 /\ j - 1 < ChunkEnd(len, n, k)
    <3>1. ChunkEnd(len, n, k - 1) \in Int /\ ChunkEnd(len, n, k) \in Int
      BY <1>4
    <3>2. j \in f .. l /\ j - 1 \in f .. l
      BY <1>9
    <3> QED BY <1>6, <3>1, <3>2
  <2>4. k - 1 < i /\ i < k
    BY <1>1, <1>4, <2>2, <2>3
  <2> QED BY <1>1, <2>4
<1> QED BY <1>2, <1>9, <1>10, <1>11

\* The elements of a chunk lie between its first and its last.
LEMMA ChunkEnds ==
  ASSUME NEW S \in SUBSET Nat, NEW vec \in Seq(S), Increasing(vec),
         NEW n \in Nat \ {0}, NEW k \in DOMAIN split(vec, n)
  PROVE  LET chunk == split(vec, n)[k] IN
           /\ chunk[1] \in Elements(chunk)
           /\ chunk[Len(chunk)] \in Elements(chunk)
           /\ \A x \in Elements(chunk) :
                chunk[1] <= x /\ x <= chunk[Len(chunk)]
<1> DEFINE f     == ChunkEnd(Len(vec), n, k - 1) + 1
           l     == ChunkEnd(Len(vec), n, k)
           chunk == split(vec, n)[k]
<1>1. f \in 1 .. Len(vec) /\ l \in f .. Len(vec) /\ chunk = SubSeq(vec, f, l)
  BY ChunkPiece
<1>2. /\ DOMAIN vec = 1 .. Len(vec) /\ Len(vec) \in Nat
      /\ \A i \in DOMAIN vec : vec[i] \in S /\ vec[i] \in Nat
  BY LenProperties, ElementOfSeq
<1> HIDE DEF f, l
<1>3. /\ f \in Int /\ l \in Int /\ f <= l /\ f .. l \subseteq DOMAIN vec
      /\ 1 \in 1 .. l - f + 1 /\ l - f + 1 \in 1 .. l - f + 1
  <2> DEFINE len == Len(vec)
  <2>1. len \in Nat /\ f \in 1 .. len /\ l \in f .. len
    BY <1>1, <1>2
  <2>2. DOMAIN vec = 1 .. len
    BY <1>2
  <2> HIDE DEF len
  <2> QED BY <2>1, <2>2
<1>4. /\ chunk \in Seq(S) /\ Len(chunk) = l - f + 1
      /\ \A i \in 1 .. l - f + 1 : chunk[i] = vec[f + i - 1]
  <2>1. \A i \in f .. l : vec[i] \in S
    BY <1>2, <1>3
  <2>2. /\ SubSeq(vec, f, l) \in Seq(S)
        /\ Len(SubSeq(vec, f, l)) = l - f + 1
        /\ \A i \in 1 .. l - f + 1 : SubSeq(vec, f, l)[i] = vec[f + i - 1]
    BY <1>3, <2>1, SubSeqProperties
  <2> QED BY <1>1, <2>2
<1>5. DOMAIN chunk = 1 .. l - f + 1
  BY <1>4, LenProperties
<1> DEFINE m == l - f + 1
<1>6. m \in 1 .. m /\ 1 \in 1 .. m /\ m \in Nat
  BY <1>3
<1> HIDE DEF chunk
<1>7. ASSUME NEW i \in 1 .. m, NEW j \in 1 .. m, i <= j
      PROVE  chunk[i] <= chunk[j]
  <2>1. /\ f + i - 1 \in f .. l /\ f + j - 1 \in f .. l
        /\ i = j \/ f + i - 1 < f + j - 1
    BY <1>3, <1>7
  <2>2. chunk[i] = vec[f + i - 1] /\ chunk[j] = vec[f + j - 1]
    BY <1>4
  <2>3. vec[f + i - 1] \in Nat /\ vec[f + j - 1] \in Nat
        /\ f + i - 1 \in DOMAIN vec /\ f + j - 1 \in DOMAIN vec
    BY <1>2, <1>3, <2>1
  <2> QED BY <2>1, <2>2, <2>3 DEF Increasing
<1>8. \A i \in 1 .. m : 1 <= i /\ i <= m
  BY <1>6
<1>9. Len(chunk) = m /\ DOMAIN chunk = 1 .. m
  BY <1>4, <1>5
<1> HIDE DEF m
<1> QED BY <1>6, <1>7, <1>8, <1>9 DEF Elements, chunk
=============================================================================
