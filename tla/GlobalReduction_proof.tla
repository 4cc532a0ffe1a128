------------------------ MODULE GlobalReduction_proof ------------------------
(***************************************************************************)
(* The properties of GlobalReduction.  The first part holds for every      *)
(* program, every layout of its declarations and every behaviour of the    *)
(* oracle: subsets are safe, nothing accepted is lost, Reducer is          *)
(* implemented.  The parts behind it are about what the rounds of ddmin    *)
(* achieve: declarations that stay are intact, at the end none can be      *)
(* removed alone, the oracle is asked at most a quadratic number of times, *)
(* --save_temp leaves a faithful record, and, as long as no chunk has a    *)
(* gap in it, every revert is exact.                                       *)
(***************************************************************************)
EXTENDS GlobalReduction, VectorUtils_proof, SavedCopies_proof

\* The ends of the ranges that the pass edits lie in the file.
LEMMA NodeFacts ==
  /\ NodeId \in SUBSET Nat
  /\ IsFiniteSet(NodeId)
  /\ \A i \in NodeId : Ast[i] \in Node
<1>1. /\ Len(Ast) \in Nat /\ NodeId = 1 .. Len(Ast)
      /\ \A i \in 1 .. Len(Ast) : Ast[i] \in Node
  BY GlobalReductionAssumption, LenProperties, ElementOfSeq DEF NodeId
<1>2. IsFiniteSet(NodeId)
  BY <1>1, FS_Interval
<1> QED BY <1>1, <1>2

\* What the visitors collect in a text, and that they do so in the text that
\* was parsed.
Listed(text) == Enumerate({i \in NodeId : Ast[i].first \in text /\ Collected(i)})

\* The list holds what is collected, in the order of the AST.
LEMMA ListedFacts ==
  ASSUME NEW text
  PROVE  /\ Listed(text) \in Seq(NodeId)
         /\ Increasing(Listed(text))
         /\ Elements(Listed(text)) =
              {i \in NodeId : Ast[i].first \in text /\ Collected(i)}
<1> DEFINE S == {i \in NodeId : Ast[i].first \in text /\ Collected(i)}
<1>1. S \in SUBSET NodeId
  OBVIOUS
<1>2. S \in SUBSET Nat /\ IsFiniteSet(S)
  BY <1>1, NodeFacts, FS_Subset
<1>3. /\ Listed(text) \in Seq(S) /\ Increasing(Listed(text))
      /\ Elements(Listed(text)) = S
  BY <1>2, EnumerateLists DEF Listed
<1>4. Listed(text) \in Seq(NodeId)
  BY <1>1, <1>3, SeqMonotonic
<1> QED BY <1>3, <1>4

\* The pass works on the list of the text that was parsed.
LEMMA DeclsListed ==
  decls = Listed(source) /\ decls' = Listed(source')
<1> DEFINE In(text) == {i \in NodeId : Ast[i].first \in text}
           Of(text) == {i \in NodeId : Ast[i].first \in text /\ Collected(i)}
<1>1. ASSUME NEW text PROVE {i \in In(text) : Collected(i)} = Of(text)
  OBVIOUS
<1>2. /\ Visited = In(source) /\ Visited' = In(source')
      /\ Listed(source) = Enumerate(Of(source))
      /\ Listed(source') = Enumerate(Of(source'))
  BY DEF Visited, Listed
<1>3. /\ decls = Enumerate({i \in In(source) : Collected(i)})
      /\ decls' = Enumerate({i \in In(source') : Collected(i)})
  BY <1>2 DEF decls, Collected
<1> QED BY <1>1, <1>2, <1>3

\* What the visitors collect is a list of nodes in the order of the AST.
LEMMA DeclsFacts ==
  /\ decls \in Seq(NodeId)
  /\ Increasing(decls)
  /\ Elements(decls) = {i \in Visited : Collected(i)}
<1>1. decls = Listed(source)
  BY DeclsListed
<1>2. {i \in NodeId : Ast[i].first \in source /\ Collected(i)} =
        {i \in Visited : Collected(i)}
  BY DEF Visited
<1> QED BY <1>1, <1>2, ListedFacts
-----------------------------------------------------------------------------
(***************************************************************************)
(* The inductive invariant.  SubsetsSafe speaks of the subsets a round has *)
(* still to test; that they are segments of an increasing list is what     *)
(* keeps them apart, and what keeps a hull away from the declarations that *)
(* stay.  NothingAcceptedIsLost needs to know, while the oracle runs, that *)
(* only text of the hull under test is missing, and that the buffer is     *)
(* what was written to the file.  All of it holds whatever text the pass   *)
(* is given: main runs it again on what it has left (ChiselGlobal_proof).  *)
(***************************************************************************)
Buffered == EditBuffer = file

\* The pass only takes from the text that was parsed.
Within == kept \subseteq source /\ file \subseteq source

ListOrdered == Increasing(decls_)

Segment(subset) ==
  \A d \in Elements(decls_) \ Elements(subset) :
    d < subset[1] \/ subset[Len(subset)] < d

Segments == \A s \in DOMAIN subsets : Segment(subsets[s])

UnderTest == /\ pc = "oracle" => subsets # <<>>
             /\ pc \in {"test", "oracle"} => decls_ # <<>>

OnlyHullMissing ==
  kept \subseteq IF pc = "oracle" THEN file \cup Hull(Head(subsets)) ELSE file

IInv ==
  /\ TypeOK /\ Within /\ Buffered /\ UnderTest
  /\ ListOrdered /\ SubsetsSafe /\ Segments
  /\ OnlyHullMissing
-----------------------------------------------------------------------------
\* The pass begins with the buffer empty and nothing removed.
LEMMA InitInv == Init => IInv
<1> SUFFICES ASSUME Init PROVE IInv
  OBVIOUS
<1> USE DEF Init, TransformationInit, PassInit
<1>1. Cells \in Text /\ 0 \in 0 .. MaxCalls
  BY TransformationAssumption DEF Text, Cells
<1>2. TypeOK
  <2>1. <<>> \in Seq(NodeId) /\ <<>> \in Seq(Seq(NodeId))
    BY EmptySeq
  <2> QED BY <1>1, <2>1 DEF TypeOK, TextTypeOK, EditBuffer, Text
<1>3. Within /\ Buffered /\ UnderTest
  BY DEF Within, Buffered, UnderTest, EditBuffer
<1>4. ListOrdered /\ Segments /\ OnlyHullMissing
  BY DEF ListOrdered, Increasing, Segments, OnlyHullMissing
<1>5. SubsetsSafe
  BY DEF SubsetsSafe
<1> QED BY <1>2, <1>3, <1>4, <1>5 DEF IInv
-----------------------------------------------------------------------------
\* Nothing that is computed from the source changes in a step that leaves
\* the source alone.
LEMMA SourceFixed ==
  ASSUME source' = source
  PROVE  /\ decls' = decls
         /\ \A d : refList(d)' = refList(d)
         /\ \A subset : Hull(subset)' = Hull(subset)
  BY DEF decls, Visited, refList, Hull, RemovalEnd, NextSemi

\* The first list of ddmin is what the visitors collected, in order.
LEMMA BeginStep == IInv /\ Begin => IInv'
<1> SUFFICES ASSUME IInv, Begin PROVE IInv'
  OBVIOUS
<1> USE DEF IInv, Begin, Initialize
<1>1. source' = file /\ UNCHANGED <<file, kept, edits>>
  BY DEF shared
<1>2. decls' \in Seq(NodeId) /\ Increasing(decls')
  BY <1>1, DeclsListed, ListedFacts
<1>3. TypeOK'
  <2>1. <<>> \in Seq(Seq(NodeId))
    BY EmptySeq
  <2>2. TextTypeOK'
    BY <1>1 DEF TypeOK, TextTypeOK, EditBuffer, shared
  <2> QED BY <1>2, <2>1, <2>2 DEF TypeOK
<1>4. Within' /\ Buffered' /\ UnderTest'
  BY <1>1 DEF Within, Buffered, UnderTest, EditBuffer, OnlyHullMissing
<1>5. ListOrdered' /\ Segments' /\ SubsetsSafe'
  BY <1>2 DEF ListOrdered, Segments, SubsetsSafe
<1>6. OnlyHullMissing'
  BY DEF OnlyHullMissing, shared
<1> QED BY <1>3, <1>4, <1>5, <1>6

\* refineSubsets hands on whole chunks of the list, each once.
LEMMA RefinedChunks ==
  ASSUME decls_ \in Seq(NodeId), Increasing(decls_), n \in Nat \ {0}
  PROVE  LET refined == refineSubsets(split(decls_, n)) IN
           /\ refined \in Seq(Seq(NodeId))
           /\ \A s \in DOMAIN refined :
                /\ refined[s] # <<>> /\ Segment(refined[s])
                /\ \A d \in Elements(refined[s]) :
                     d \in Elements(decls_) /\ refList(d) = {}
           /\ \A s, t \in DOMAIN refined :
                s # t => Elements(refined[s]) \cap Elements(refined[t]) = {}
<1> DEFINE all     == split(decls_, n)
           keep    == {s \in DOMAIN all :
                         \A i \in DOMAIN all[s] : refList(all[s][i]) = {}}
           refined == refineSubsets(all)
<1>1. all \in Seq(Seq(NodeId))
  BY SplitChunks
<1>2. /\ \A i \in DOMAIN all :
           /\ all[i] \in Seq(NodeId) /\ all[i] # <<>>
           /\ Elements(all[i]) \subseteq Elements(decls_)
           /\ \A d \in Elements(decls_) \ Elements(all[i]) :
                d < all[i][1] \/ all[i][Len(all[i])] < d
      /\ \A i, j \in DOMAIN all :
           i # j => Elements(all[i]) \cap Elements(all[j]) = {}
  BY NodeFacts, SplitIncreasing
<1>3. refined = Select(all, keep)
  BY DEF refineSubsets
<1> HIDE DEF all, refined
<1>4. keep \in SUBSET DOMAIN all
  OBVIOUS
<1> HIDE DEF keep
<1>5. /\ refined \in Seq(Seq(NodeId))
      /\ \A k \in DOMAIN refined :
           Nth(keep, k) \in keep /\ refined[k] = all[Nth(keep, k)]
      /\ \A k, l \in DOMAIN refined : k < l => Nth(keep, k) < Nth(keep, l)
  BY <1>1, <1>3, <1>4, SelectKeeps
<1>6. \A k \in keep : \A d \in Elements(all[k]) : refList(d) = {}
  BY DEF Elements, keep
<1>7. ASSUME NEW s \in DOMAIN refined
      PROVE  /\ refined[s] # <<>> /\ Segment(refined[s])
             /\ \A d \in Elements(refined[s]) :
                  d \in Elements(decls_) /\ refList(d) = {}
  BY <1>2, <1>4, <1>5, <1>6 DEF Segment
<1>8. ASSUME NEW s \in DOMAIN refined, NEW t \in DOMAIN refined, s # t
      PROVE  Elements(refined[s]) \cap Elements(refined[t]) = {}
  <2>1. s \in Nat /\ t \in Nat /\ DOMAIN all \subseteq Nat
    BY <1>1, <1>5, LenProperties
  <2>2. Nth(keep, s) \in Nat /\ Nth(keep, t) \in Nat
    BY <1>4, <1>5, <2>1
  <2>3. s < t \/ t < s
    BY <1>8, <2>1
  <2>4. Nth(keep, s) < Nth(keep, t) \/ Nth(keep, t) < Nth(keep, s)
    BY <1>5, <2>3
  <2>5. Nth(keep, s) # Nth(keep, t)
    BY <2>2, <2>4
  <2> QED BY <1>2, <1>4, <1>5, <2>5
<1> QED BY <1>5, <1>7, <1>8 DEF all, refined

\* The subsets of a round are chunks of the list, without those that have
\* an element that is referred to.
LEMMA StartRoundStep == IInv /\ StartRound => IInv'
<1> SUFFICES ASSUME IInv, StartRound PROVE IInv'
  OBVIOUS
<1> USE DEF IInv, StartRound, textVars, shared
<1>1. /\ subsets' \in Seq(Seq(NodeId))
      /\ \A s \in DOMAIN subsets' :
           /\ subsets'[s] # <<>> /\ Segment(subsets'[s])
           /\ \A d \in Elements(subsets'[s]) :
                d \in Elements(decls_) /\ refList(d) = {}
      /\ \A s, t \in DOMAIN subsets' :
           s # t => Elements(subsets'[s]) \cap Elements(subsets'[t]) = {}
  BY RefinedChunks DEF TypeOK, ListOrdered
<1>2. TypeOK'
  BY <1>1 DEF TypeOK, TextTypeOK, EditBuffer
<1>3. Within' /\ Buffered' /\ UnderTest' /\ ListOrdered'
  BY DEF Within, Buffered, UnderTest, EditBuffer, ListOrdered
<1>4. SubsetsSafe' /\ Segments'
  BY <1>1, SourceFixed DEF SubsetsSafe, Segments, Segment
<1>5. OnlyHullMissing'
  BY DEF OnlyHullMissing
<1> QED BY <1>2, <1>3, <1>4, <1>5
-----------------------------------------------------------------------------
\* A candidate, and what a revert makes of it.
LEMMA EditsAreText ==
  ASSUME NEW buffer \in Text, source \in Text, NEW range
  PROVE  /\ Blank(buffer, range) = buffer \ range
         /\ Blank(buffer, range) \in Text
         /\ Restore(buffer, range) = (buffer \ range) \cup (source \cap range)
         /\ Restore(buffer, range) \in Text
  BY DEF Blank, Restore, ReplaceText, placeholder, getSourceText, Text

\* The counters stop at MaxCalls.
LEMMA CountersFacts ==
  ASSUME NEW counters \in [Counters -> 0 .. MaxCalls]
  PROVE  Increment(counters, "global") \in [Counters -> 0 .. MaxCalls]
<1>1. MaxCalls \in Nat /\ "global" \in Counters
  BY TransformationAssumption DEF Counters
<1>2. \A c \in 0 .. MaxCalls : Smaller(c + 1, MaxCalls) \in 0 .. MaxCalls
  BY <1>1 DEF Smaller
<1> QED BY <1>1, <1>2 DEF Increment, CounterOf

\* A test removes no more than the hull of its subset.
LEMMA TestStep == IInv /\ Test => IInv'
<1> SUFFICES ASSUME IInv, Test PROVE IInv'
  OBVIOUS
<1> USE DEF IInv, Test
<1>1. /\ source' = source /\ decls_' = decls_ /\ subsets' = subsets
      /\ kept' = kept /\ pc' = "oracle" /\ subsets # <<>>
      /\ file \in Text /\ source \in Text
      /\ EditBuffer = file
  BY DEF CallOracle, TypeOK, TextTypeOK, Buffered
<1>2. /\ file' = file \ Hull(Head(subsets)) /\ file' \in Text
      /\ edits' = <<file'>>
  BY <1>1, EditsAreText DEF writeToFile
<1>3. TypeOK'
  <2>1. calls' \in [Counters -> 0 .. MaxCalls]
    BY CountersFacts DEF CallOracle, TypeOK, TextTypeOK
  <2>2. TextTypeOK'
    BY <1>1, <1>2, <2>1 DEF CallOracle, TypeOK, TextTypeOK, EditBuffer
  <2> QED BY <2>2 DEF TypeOK
<1>4. Within' /\ Buffered' /\ UnderTest'
  BY <1>1, <1>2 DEF Within, Buffered, UnderTest, EditBuffer
<1>5. ListOrdered' /\ SubsetsSafe' /\ Segments'
  BY <1>1, SourceFixed DEF ListOrdered, SubsetsSafe, Segments, Segment
<1>6. OnlyHullMissing'
  BY <1>1, <1>2, SourceFixed DEF OnlyHullMissing
<1> QED BY <1>3, <1>4, <1>5, <1>6

\* An accepted text is kept, and the list loses the subset: it stays in order.
LEMMA AcceptStep == IInv /\ Accept => IInv'
<1> SUFFICES ASSUME IInv, Accept PROVE IInv'
  OBVIOUS
<1> USE DEF IInv, Accept
<1>1. /\ source' = source /\ file' = file /\ edits' = edits
      /\ subsets' = <<>> /\ kept' = file /\ pc' = "round"
  BY DEF OracleAccepts
<1>2. decls_' \in Seq(NodeId) /\ Increasing(decls_')
  <2>1. decls_ \in Seq(NodeId) /\ decls_ \in Seq(Nat)
    BY NodeFacts, SeqMonotonic DEF TypeOK
  <2> QED BY <2>1, DifferenceRemoves, DifferenceIncreasing DEF ListOrdered
<1>3. TypeOK'
  <2>1. <<>> \in Seq(Seq(NodeId))
    BY EmptySeq
  <2>2. n' \in Nat \ {0}
    BY DEF TypeOK, Larger
  <2>3. successes' \in [Counters -> 0 .. MaxCalls]
    BY CountersFacts DEF OracleAccepts, TypeOK, TextTypeOK
  <2>4. TextTypeOK'
    BY <1>1, <2>3 DEF OracleAccepts, TypeOK, TextTypeOK, EditBuffer
  <2> QED BY <1>1, <1>2, <2>1, <2>2, <2>4 DEF TypeOK
<1>4. Within' /\ Buffered' /\ UnderTest'
  BY <1>1 DEF Within, Buffered, UnderTest, EditBuffer
<1>5. ListOrdered' /\ SubsetsSafe' /\ Segments'
  BY <1>1, <1>2 DEF ListOrdered, SubsetsSafe, Segments
<1>6. OnlyHullMissing'
  BY <1>1 DEF OnlyHullMissing
<1> QED BY <1>3, <1>4, <1>5, <1>6

\* The revert puts the whole hull back, so nothing that was accepted is
\* missing between two tests.
LEMMA RefuseStep == IInv /\ Refuse => IInv'
<1> SUFFICES ASSUME IInv, Refuse PROVE IInv'
  OBVIOUS
<1> USE DEF IInv, Refuse
<1>1. /\ source' = source /\ decls_' = decls_
      /\ subsets # <<>> /\ subsets' = Tail(subsets)
      /\ kept' = kept /\ pc' = "test" /\ pc = "oracle"
      /\ file \in Text /\ source \in Text /\ kept \in Text
      /\ EditBuffer = file /\ kept \subseteq source /\ file \subseteq source
  BY DEF OracleRefuses, TypeOK, TextTypeOK, Buffered, Within, UnderTest
<1>2. /\ file' = (file \ Hull(Head(subsets)))
                   \cup (source \cap Hull(Head(subsets)))
      /\ file' \in Text /\ edits' = <<file'>>
  BY <1>1, EditsAreText
<1>3. /\ subsets \in Seq(Seq(NodeId)) /\ subsets' \in Seq(Seq(NodeId))
      /\ \A s \in DOMAIN subsets' :
           s + 1 \in DOMAIN subsets /\ subsets'[s] = subsets[s + 1]
  <2>1. subsets \in Seq(Seq(NodeId))
    BY DEF TypeOK
  <2>2. /\ Tail(subsets) \in Seq(Seq(NodeId))
        /\ Len(Tail(subsets)) = Len(subsets) - 1
        /\ \A s \in 1 .. Len(Tail(subsets)) : Tail(subsets)[s] = subsets[s + 1]
    BY <1>1, <2>1, HeadTailProperties
  <2>3. /\ DOMAIN subsets = 1 .. Len(subsets) /\ Len(subsets) \in Nat
        /\ DOMAIN subsets' = 1 .. Len(subsets')
    BY <1>1, <2>1, <2>2, LenProperties
  <2> QED BY <1>1, <2>1, <2>2, <2>3
<1>4. TypeOK'
  <2>1. TextTypeOK'
    BY <1>1, <1>2 DEF OracleRefuses, TypeOK, TextTypeOK, EditBuffer
  <2> QED BY <1>1, <1>3, <2>1 DEF TypeOK
<1>5. Within' /\ Buffered' /\ UnderTest'
  BY <1>1, <1>2 DEF Within, Buffered, UnderTest, EditBuffer
<1>6. ListOrdered' /\ Segments'
  BY <1>1, <1>3 DEF ListOrdered, Segments, Segment
<1>7. SubsetsSafe'
  <2>1. ASSUME NEW s \in DOMAIN subsets', NEW t \in DOMAIN subsets', s # t
        PROVE  s + 1 # t + 1
    BY <1>3, <2>1, LenProperties
  <2> QED BY <1>1, <1>3, <2>1, SourceFixed DEF SubsetsSafe
<1>8. OnlyHullMissing'
  BY <1>1, <1>2 DEF OnlyHullMissing, Text
<1> QED BY <1>4, <1>5, <1>6, <1>7, <1>8

\* A finer partition changes the number of parts and no text.
LEMMA RefineStep == IInv /\ Refine => IInv'
<1> SUFFICES ASSUME IInv, Refine PROVE IInv'
  OBVIOUS
<1> USE DEF IInv, Refine, textVars, shared
<1>1. TypeOK'
  <2>1. Len(decls_) \in Nat \ {0}
    BY EmptySeq DEF TypeOK, UnderTest
  <2>2. n' \in Nat \ {0}
    BY <2>1 DEF TypeOK, Smaller
  <2> QED BY <2>2 DEF TypeOK, TextTypeOK, EditBuffer
<1>2. Within' /\ Buffered' /\ UnderTest' /\ ListOrdered'
  BY DEF Within, Buffered, UnderTest, EditBuffer, ListOrdered
<1>3. SubsetsSafe' /\ Segments'
  BY SourceFixed DEF SubsetsSafe, Segments, Segment
<1>4. OnlyHullMissing'
  BY DEF OnlyHullMissing
<1> QED BY <1>1, <1>2, <1>3, <1>4

\* The end of the pass changes no text.
LEMMA FinishStep == IInv /\ Finish => IInv'
<1> SUFFICES ASSUME IInv, Finish PROVE IInv'
  OBVIOUS
<1> USE DEF IInv, Finish, textVars, shared
<1>1. TypeOK'
  BY DEF TypeOK, TextTypeOK, EditBuffer
<1>2. Within' /\ Buffered' /\ UnderTest' /\ ListOrdered'
  BY DEF Within, Buffered, UnderTest, EditBuffer, ListOrdered
<1>3. SubsetsSafe' /\ Segments'
  BY SourceFixed DEF SubsetsSafe, Segments, Segment
<1>4. OnlyHullMissing'
  BY DEF OnlyHullMissing
<1> QED BY <1>1, <1>2, <1>3, <1>4

\* Nor does a step of anything else.
LEMMA StutterStep == IInv /\ UNCHANGED vars => IInv'
<1> SUFFICES ASSUME IInv, UNCHANGED vars PROVE IInv'
  OBVIOUS
<1> USE DEF IInv, vars, textVars, passVars, shared
<1>1. TypeOK'
  BY DEF TypeOK, TextTypeOK, EditBuffer
<1>2. Within' /\ Buffered' /\ UnderTest' /\ ListOrdered'
  BY DEF Within, Buffered, UnderTest, EditBuffer, ListOrdered
<1>3. SubsetsSafe' /\ Segments'
  BY SourceFixed DEF SubsetsSafe, Segments, Segment
<1>4. OnlyHullMissing'
  BY SourceFixed DEF OnlyHullMissing
<1> QED BY <1>1, <1>2, <1>3, <1>4
-----------------------------------------------------------------------------
\* Every step of the pass keeps the invariant.
LEMMA InvStep == IInv /\ [Next]_vars => IInv'
BY BeginStep, StartRoundStep, TestStep, AcceptStep, RefuseStep, RefineStep,
   FinishStep, StutterStep DEF Next

\* The strengthened invariant holds in every state that the pass reaches, for
\* every program and every behaviour of the oracle: the theorems below are
\* its consequences.
THEOREM Invariance == Spec => []IInv
BY InitInv, InvStep, PTL DEF Spec

\* The variables of the pass have the types of the C++ ones; the number of
\* subsets is never 0, so that split never divides by it.
THEOREM TypeCorrect == Spec => []TypeOK
<1>1. IInv => TypeOK
  BY DEF IInv
<1> QED BY <1>1, Invariance, PTL

\* ddmin never hands test an empty subset, or a declaration that is gone or
\* referred to, or one declaration in two subsets of a round.
THEOREM SubsetsAreSafe == Spec => []SubsetsSafe
<1>1. IInv => SubsetsSafe
  BY DEF IInv
<1> QED BY <1>1, Invariance, PTL

\* Whatever the program looks like and whatever the oracle answers, a revert
\* leaves all text of the last accepted version in the file.
THEOREM NothingAcceptedIsEverLost == Spec => []NothingAcceptedIsLost
<1>1. IInv => NothingAcceptedIsLost
  BY DEF IInv, OnlyHullMissing, NothingAcceptedIsLost, AtRest
<1> QED BY <1>1, Invariance, PTL
-----------------------------------------------------------------------------
\* Every step of the pass is a step that Reducer allows, or none of its
\* variables changes.
LEMMA StepRefines ==
  IInv /\ [Next]_vars => [R!Next]_<<kept, file, pc = "oracle">>
<1> SUFFICES ASSUME IInv, [Next]_vars
             PROVE  R!Next \/ UNCHANGED <<kept, file, pc = "oracle">>
  BY DEF R!Next
<1>1. /\ file \in Text /\ source \in Text /\ kept \in Text
      /\ EditBuffer = file /\ file \subseteq source
  BY DEF IInv, TypeOK, TextTypeOK, Within, Buffered
<1>2. CASE Test
  <2> DEFINE range == Hull(Head(subsets)) \cap Cells
  <2>1. file' = file \ range
    <3>1. file' = file \ Hull(Head(subsets))
      BY <1>1, <1>2, EditsAreText DEF Test, writeToFile
    <3> QED BY <1>1, <3>1 DEF Text
  <2>2. R!Try(range)
    BY <1>2, <2>1 DEF Test, CallOracle, R!Try
  <2> QED BY <2>2 DEF R!Next
<1>3. CASE Accept
  BY <1>3 DEF Accept, OracleAccepts, R!Accept, R!Next
<1>4. CASE Refuse
  <2> DEFINE range == Hull(Head(subsets)) \cap source
  <2>0. range \in SUBSET Cells
    BY <1>1 DEF Text
  <2>1. file' = file \cup range
    <3>1. file' = (file \ Hull(Head(subsets)))
                    \cup (source \cap Hull(Head(subsets)))
      BY <1>1, <1>4, EditsAreText DEF Refuse
    <3> QED BY <1>1, <3>1 DEF Text
  <2>2. kept \subseteq file'
    BY <1>4, RefuseStep DEF IInv, OnlyHullMissing, Refuse, OracleRefuses
  <2>3. R!Revert(range)
    BY <1>4, <2>1, <2>2 DEF Refuse, OracleRefuses, R!Revert
  <2> QED BY <2>0, <2>3 DEF R!Next
<1>5. CASE Begin
  BY <1>5 DEF Begin, Initialize, shared
<1>6. CASE StartRound \/ Refine \/ Finish
  BY <1>6 DEF StartRound, Refine, Finish, textVars, shared
<1>7. CASE UNCHANGED vars
  BY <1>7 DEF vars, textVars, passVars, shared
<1> QED BY <1>2, <1>3, <1>4, <1>5, <1>6, <1>7 DEF Next

\* The global pass implements Reducer: in every layout of the declarations
\* it edits in place, one judged candidate at a time, and loses nothing that
\* was accepted.
THEOREM Refinement == Spec => RefinesReducer
<1>1. Init => R!Init
  BY DEF Init, TransformationInit, PassInit, R!Init
<1> QED BY <1>1, StepRefines, Invariance, PTL DEF Spec, RefinesReducer, R!Spec
-----------------------------------------------------------------------------
(***************************************************************************)
(* RemainingIntact, for the programs whose declarations are Flat.  What is *)
(* parsed may be a text that earlier passes have left.  A declaration in   *)
(* it is whole then, so that it ends where it ends in the program as it    *)
(* was (WholeIn), and the order of the declarations is that of the whole   *)
(* program (InOrder).                                                      *)
(***************************************************************************)
\* Where the scan for a ';' ends in a text, and what test would remove last.
SemiIn(text, after) ==
  LET semis == {c \in Semis \cap text : c > after} IN
    IF semis = {} THEN NumCells ELSE CHOOSE c \in semis : \A s \in semis : c <= s

EndIn(text, d) == IF Ast[d].kind = "function" /\ Ast[d].def
                  THEN Ast[d].last ELSE SemiIn(text, Ast[d].last)

WholeEnd(d) == EndIn(Cells, d)
WholeExtent(d) == Ast[d].first .. WholeEnd(d)

InOrder == \A c, d \in NodeId :
             Collected(c) /\ Collected(d) /\ c < d => WholeEnd(c) < Ast[d].first

WholeIn(text) ==
  \A d \in NodeId :
    Collected(d) /\ Ast[d].first \in text =>
      EndIn(text, d) = WholeEnd(d) /\ WholeExtent(d) \subseteq text

\* The pass scans the text that was parsed.
LEMMA EndsParsed ==
  \A d : RemovalEnd(d) = EndIn(source, d) /\ RemovalEnd(d)' = EndIn(source', d)
  BY DEF RemovalEnd, NextSemi, EndIn, SemiIn

\* The scan for a ';' ends behind its start and within the file.
LEMMA SemiInFile ==
  ASSUME NEW text \in Text, NEW after \in Cells
  PROVE  SemiIn(text, after) \in Cells
<1> DEFINE semis == {c \in Semis \cap text : c > after}
<1>1. CASE semis = {}
  BY <1>1, TransformationAssumption DEF SemiIn, Cells
<1>2. CASE semis # {}
  <2>1. semis \in SUBSET Cells /\ Cells \in SUBSET Nat
    <3>1. semis \subseteq Cells
      BY GlobalReductionAssumption
    <3>2. Cells \subseteq Nat
      BY TransformationAssumption DEF Cells
    <3> QED BY <3>1, <3>2
  <2>2. \E c \in semis : \A s \in semis : c <= s
    BY <1>2, <2>1, LeastMember
  <2>3. SemiIn(text, after) = CHOOSE c \in semis : \A s \in semis : c <= s
    BY <1>2 DEF SemiIn
  <2> HIDE DEF semis
  <2> QED BY <2>1, <2>2, <2>3
<1> QED BY <1>1, <1>2

\* What would be removed of a declaration lies in the file.
LEMMA EndInFile ==
  ASSUME NEW text \in Text, NEW d \in NodeId
  PROVE  Ast[d].first \in Cells /\ Ast[d].last \in Cells /\ EndIn(text, d) \in Cells
<1>1. Ast[d].first \in Cells /\ Ast[d].last \in Cells
  BY NodeFacts DEF Node
<1> QED BY <1>1, SemiInFile DEF EndIn

\* What the test of a declaration removes lies in the file.
LEMMA ExtentInFile ==
  ASSUME source \in Text, NEW d \in NodeId
  PROVE  /\ Ast[d].first \in Cells /\ RemovalEnd(d) \in Cells
         /\ Extent(d) \subseteq Cells
<1>1. Ast[d].first \in Cells /\ RemovalEnd(d) \in Cells
  BY EndInFile, EndsParsed
<1>2. Extent(d) \subseteq Cells
  BY <1>1, TransformationAssumption DEF Extent, Cells
<1> QED BY <1>1, <1>2

AllCollected == Elements(decls_) \subseteq Elements(decls)

Parsed == WholeIn(source) /\ (pc = "start" => WholeIn(file))

Intact ==
  \A d \in Elements(decls_) :
    Extent(d) \subseteq
      IF pc = "oracle" /\ d \in Elements(Head(subsets))
      THEN file \cup Hull(Head(subsets)) ELSE file

FInv == IInv /\ InOrder /\ AllCollected /\ Parsed /\ Intact

\* The declarations of the list are whole in the text that was parsed.
LEMMA ListedWhole ==
  ASSUME Parsed, NEW d \in Elements(decls)
  PROVE  /\ d \in NodeId /\ Collected(d) /\ Ast[d].first \in source
         /\ RemovalEnd(d) = WholeEnd(d)
         /\ Extent(d) = WholeExtent(d) /\ Extent(d) \subseteq source
<1>1. d \in NodeId /\ Collected(d) /\ Ast[d].first \in source
  BY DeclsFacts DEF Visited
<1>2. EndIn(source, d) = WholeEnd(d) /\ WholeExtent(d) \subseteq source
  BY <1>1 DEF Parsed, WholeIn
<1>3. RemovalEnd(d) = WholeEnd(d)
  BY <1>2, EndsParsed
<1> QED BY <1>1, <1>2, <1>3 DEF Extent, WholeExtent

\* The hull of a subset leaves the declarations out that are not in it.
LEMMA HullApart ==
  ASSUME IInv, InOrder, AllCollected, Parsed, subsets # <<>>,
         NEW d \in Elements(decls_) \ Elements(Head(subsets))
  PROVE  Extent(d) \cap Hull(Head(subsets)) = {}
<1> DEFINE subset == Head(subsets)
           a == subset[1]
           z == subset[Len(subset)]
<1>1. subsets \in Seq(Seq(NodeId)) /\ source \in Text
  BY DEF IInv, TypeOK, TextTypeOK
<1>2. 1 \in DOMAIN subsets /\ subset = subsets[1]
  BY <1>1, EmptySeq, LenProperties
<1>3. subset \in Seq(NodeId) /\ subset # <<>> /\ Segment(subset)
      /\ Elements(subset) \subseteq Elements(decls_)
  BY <1>1, <1>2, HeadTailProperties DEF IInv, SubsetsSafe, Segments
<1> HIDE DEF subset
<1>4. a \in Elements(subset) /\ z \in Elements(subset)
  BY <1>3, EmptySeq, LenProperties DEF Elements
<1>5. /\ a \in Elements(decls) /\ z \in Elements(decls) /\ d \in Elements(decls)
  BY <1>3, <1>4 DEF AllCollected
<1>6. d < a \/ z < d
  BY <1>3 DEF Segment, subset
<1>7. \A x \in {a, z, d} :
        /\ x \in NodeId /\ Collected(x) /\ RemovalEnd(x) = WholeEnd(x)
        /\ Ast[x].first \in Cells /\ RemovalEnd(x) \in Cells
  BY <1>1, <1>5, ListedWhole, ExtentInFile
<1>8. RemovalEnd(d) < Ast[a].first \/ RemovalEnd(z) < Ast[d].first
  BY <1>6, <1>7 DEF InOrder
<1>9. Hull(subset) = Ast[a].first .. RemovalEnd(z)
  BY DEF Hull
<1> HIDE DEF a, z
<1> QED BY <1>7, <1>8, <1>9, TransformationAssumption
        DEF Extent, Cells, subset

\* The ends of the declarations depend on the parsed text alone.
LEMMA ExtentFixed ==
  ASSUME source' = source
  PROVE  /\ \A d : RemovalEnd(d)' = RemovalEnd(d)
         /\ \A d : Extent(d)' = Extent(d)
  BY DEF Extent, RemovalEnd, NextSemi

\* Before the pass nothing has been collected and everything is there.
LEMMA FlatInit == Init /\ Flat => FInv
<1> SUFFICES ASSUME Init, Flat PROVE FInv
  OBVIOUS
<1>1. source = Cells /\ file = Cells /\ decls_ = <<>>
  BY DEF Init, PassInit, TransformationInit
<1>2. \A d : RemovalEnd(d) = WholeEnd(d)
  BY <1>1, EndsParsed DEF WholeEnd
<1>3. InOrder
  BY <1>2 DEF Flat, InOrder
<1>4. WholeIn(Cells)
  <2>1. \A d \in NodeId : Extent(d) \subseteq Cells /\ Extent(d) = WholeExtent(d)
    BY <1>1, <1>2, ExtentInFile DEF Text, Extent, WholeExtent
  <2> QED BY <2>1 DEF WholeIn, WholeEnd
<1>5. AllCollected /\ Intact
  BY <1>1 DEF AllCollected, Intact, Elements
<1> QED BY InitInv, <1>1, <1>3, <1>4, <1>5 DEF FInv, Parsed

\* In a Flat program a test of some declarations leaves the others whole.
LEMMA FlatStep == FInv /\ [Next]_vars => FInv'
<1> SUFFICES ASSUME FInv, [Next]_vars PROVE FInv'
  OBVIOUS
<1>1. IInv /\ IInv' /\ InOrder /\ AllCollected /\ Parsed /\ Intact
  BY InvStep DEF FInv
<1>2. InOrder'
  BY <1>1 DEF InOrder, WholeEnd, EndIn, SemiIn, Cells, Collected, NodeId
<1>3. /\ file \in Text /\ file' \in Text /\ source \in Text
      /\ EditBuffer = file /\ decls_ \in Seq(NodeId)
      /\ file \subseteq source
  BY <1>1 DEF IInv, TypeOK, TextTypeOK, Buffered, Within
<1>4. ASSUME source' = source, pc' # "start" \/ UNCHANGED <<pc, file>>
      PROVE  /\ Parsed' /\ decls' = decls
             /\ \A d : Extent(d)' = Extent(d)
             /\ \A subset : Hull(subset)' = Hull(subset)
  BY <1>1, <1>4, ExtentFixed, SourceFixed DEF Parsed
<1>5. CASE Begin
  <2>1. /\ decls_' = decls' /\ pc' = "round" /\ file' = file /\ source' = file
        /\ pc = "start"
    BY <1>5 DEF Begin, Initialize, shared
  <2>2. Parsed'
    BY <1>1, <2>1 DEF Parsed
  <2>3. AllCollected'
    BY <2>1 DEF AllCollected
  <2>4. Intact'
    <3>1. WholeIn(source') /\ decls' = Listed(source')
      BY <1>1, <2>1, DeclsListed DEF Parsed
    <3>2. ASSUME NEW d \in Elements(decls')
          PROVE  Ast[d].first .. EndIn(source', d) \subseteq source'
      BY <3>1, <3>2, ListedFacts DEF WholeIn, WholeExtent
    <3>3. \A d \in Elements(decls') : Extent(d)' \subseteq source'
      BY <3>2, EndsParsed DEF Extent
    <3> QED BY <2>1, <3>3 DEF Intact
  <2> QED BY <1>1, <1>2, <2>2, <2>3, <2>4 DEF FInv
<1>6. CASE Test
  <2>1. /\ decls_' = decls_ /\ subsets' = subsets /\ pc = "test"
        /\ pc' = "oracle" /\ subsets # <<>> /\ source' = source
        /\ file' = file \ Hull(Head(subsets))
    BY <1>3, <1>6, EditsAreText DEF Test, writeToFile
  <2>2. ASSUME NEW d \in Elements(decls_)
        PROVE  Extent(d) \subseteq IF d \in Elements(Head(subsets))
                                   THEN file' \cup Hull(Head(subsets))
                                   ELSE file'
    <3>1. Extent(d) \subseteq file
      BY <1>1, <2>1 DEF Intact
    <3>2. CASE d \in Elements(Head(subsets))
      BY <2>1, <3>1, <3>2
    <3>3. CASE d \notin Elements(Head(subsets))
      BY <1>1, <2>1, <3>1, <3>3, HullApart
    <3> QED BY <3>2, <3>3
  <2>3. Intact'
    BY <1>4, <2>1, <2>2 DEF Intact
  <2> QED BY <1>1, <1>2, <1>4, <2>1, <2>3 DEF FInv, AllCollected
<1>7. CASE Accept
  <2>1. /\ file' = file /\ pc = "oracle" /\ pc' = "round" /\ source' = source
        /\ decls_' = difference(decls_, Head(subsets))
    BY <1>7 DEF Accept
  <2>2. Elements(decls_') = Elements(decls_) \ Elements(Head(subsets))
    BY <1>3, <2>1, DifferenceRemoves
  <2> QED BY <1>1, <1>2, <1>4, <2>1, <2>2 DEF FInv, AllCollected, Intact
<1>8. CASE Refuse
  <2>1. /\ decls_' = decls_ /\ pc = "oracle" /\ pc' = "test"
        /\ source' = source
        /\ file' = (file \ Hull(Head(subsets)))
                     \cup (source \cap Hull(Head(subsets)))
    BY <1>3, <1>8, EditsAreText DEF Refuse
  <2>2. (file \cup Hull(Head(subsets))) \cap source \subseteq file'
    BY <2>1
  <2>3. ASSUME NEW d \in Elements(decls_)
        PROVE  Extent(d) \subseteq file'
    <3>1. Extent(d) \subseteq source
      BY <1>1, ListedWhole DEF AllCollected
    <3>2. Extent(d) \subseteq file \cup Hull(Head(subsets))
      BY <1>1 DEF Intact
    <3> QED BY <2>2, <3>1, <3>2
  <2> QED BY <1>1, <1>2, <1>4, <2>1, <2>3 DEF FInv, AllCollected, Intact
<1>9. CASE StartRound \/ Refine \/ Finish
  <2>1. /\ file' = file /\ decls_' = decls_ /\ source' = source
        /\ pc # "oracle" /\ pc' # "oracle" /\ pc' # "start"
    BY <1>9 DEF StartRound, Refine, Finish, textVars, shared
  <2> QED BY <1>1, <1>2, <1>4, <2>1 DEF FInv, AllCollected, Intact
<1>10. CASE UNCHANGED vars
  <2>1. UNCHANGED <<source, file, decls_, pc, subsets>>
    BY <1>10 DEF vars, textVars, passVars, shared
  <2> QED BY <1>1, <1>2, <1>4, <2>1 DEF FInv, AllCollected, Intact
<1> QED BY <1>5, <1>6, <1>7, <1>8, <1>9, <1>10 DEF Next

\* In a program whose declarations lie one behind the other, no test damages
\* a declaration that it does not remove: the hull of a subset reaches over
\* removed declarations and over main, never over one that stays.
THEOREM RemainingStaysIntact == Flat /\ Spec => []RemainingIntact
<1>1. FInv => RemainingIntact
  BY DEF FInv, Intact, RemainingIntact, AtRest
<1> QED BY FlatInit, FlatStep, <1>1, PTL DEF Spec
-----------------------------------------------------------------------------
(***************************************************************************)
(* OneMinimal: the last round tries every declaration alone.               *)
(***************************************************************************)
\* With as many subsets as declarations, each declaration that nothing refers
\* to is a subset of its own, and there are no others.
LEMMA RefinedSingles ==
  ASSUME decls_ \in Seq(NodeId), Len(decls_) # 0
  PROVE  LET refined == refineSubsets(split(decls_, Len(decls_))) IN
           /\ \A s \in DOMAIN refined :
                \E d \in Elements(decls_) : refined[s] = <<d>>
           /\ \A d \in Elements(decls_) :
                refList(d) = {} => \E s \in DOMAIN refined : refined[s] = <<d>>
<1> DEFINE all     == split(decls_, Len(decls_))
           keep    == {s \in DOMAIN all :
                         \A i \in DOMAIN all[s] : refList(all[s][i]) = {}}
           refined == refineSubsets(all)
<1>1. all \in Seq(Seq(NodeId))
  <2>1. Len(decls_) \in Nat \ {0}
    BY LenProperties
  <2> QED BY <2>1, SplitChunks
<1>2. /\ DOMAIN all = DOMAIN decls_
      /\ \A i \in DOMAIN decls_ : all[i] = <<decls_[i]>>
  BY SplitSingles
<1>3. refined = Select(all, keep) /\ keep \in SUBSET DOMAIN all
  BY DEF refineSubsets
<1> HIDE DEF all, refined
<1>4. \A i \in DOMAIN all : refList(decls_[i]) = {} => i \in keep
  <2> SUFFICES ASSUME NEW i \in DOMAIN all, refList(decls_[i]) = {},
                      NEW k \in DOMAIN all[i]
               PROVE  refList(all[i][k]) = {}
    OBVIOUS
  <2>1. all[i] = <<decls_[i]>>
    BY <1>2
  <2>2. k = 1
    BY <2>1
  <2> QED BY <2>1, <2>2
<1> HIDE DEF keep
<1>5. /\ Elements(refined) = {all[i] : i \in keep}
  BY <1>1, <1>3, SelectKeeps
<1>6. ASSUME NEW s \in DOMAIN refined
      PROVE  \E d \in Elements(decls_) : refined[s] = <<d>>
  <2>1. PICK i \in keep : refined[s] = all[i]
    BY <1>5 DEF Elements
  <2> QED BY <1>2, <1>3, <2>1 DEF Elements
<1>7. ASSUME NEW d \in Elements(decls_), refList(d) = {}
      PROVE  \E s \in DOMAIN refined : refined[s] = <<d>>
  <2>1. PICK i \in DOMAIN decls_ : d = decls_[i]
    BY DEF Elements
  <2>2. i \in keep /\ all[i] = <<d>>
    BY <1>2, <1>4, <1>7, <2>1
  <2>3. <<d>> \in Elements(refined)
    BY <1>5, <2>2
  <2> QED BY <2>3 DEF Elements
<1> QED BY <1>6, <1>7 DEF all, refined

LastRound == pc \in {"test", "oracle"} /\ n = Len(decls_)

\* The file that the refused candidates of a last round were made of.
Judged == IF pc = "oracle" THEN file \cup Hull(Head(subsets)) ELSE file

\* In the last round each declaration that nothing refers to has still to be
\* tried, or has been refused; what the oracle judges has lost all of the
\* hull that is tried.
Minimal ==
  /\ LastRound =>
       /\ \A s \in DOMAIN subsets :
            \E d \in Elements(decls_) : subsets[s] = <<d>>
       /\ \A d \in Elements(decls_) :
            refList(d) = {} =>
              \/ \E s \in DOMAIN subsets : subsets[s] = <<d>>
              \/ Judged \ Hull(<<d>>) \in failed
  /\ pc = "oracle" => file \cap Hull(Head(subsets)) = {}
  /\ OneMinimal

MInv == FInv /\ Minimal

\* A declaration alone is removed with its extent, and no more.
LEMMA SingleHull ==
  ASSUME NEW d
  PROVE  Hull(<<d>>) = Extent(d)
  BY DEF Hull, Extent

\* No step but the first parses the file.
LEMMA OnlyBeginParses ==
  [Next]_vars => Begin \/ source' = source
BY DEF Next, StartRound, Test, Accept, Refuse, Refine, Finish, vars, textVars

\* A declaration that was tested alone and refused stays refused until a
\* success starts the rounds again, and the last round tests each alone.
LEMMA MinimalStep == MInv /\ [Next]_vars => MInv'
<1> SUFFICES ASSUME MInv, [Next]_vars PROVE Minimal'
  BY FlatStep DEF MInv
<1>1. /\ IInv /\ Intact /\ AllCollected /\ Parsed /\ Minimal
      /\ source \in Text /\ file \in Text /\ EditBuffer = file
      /\ decls_ \in Seq(NodeId) /\ subsets \in Seq(Seq(NodeId))
  BY DEF MInv, FInv, IInv, TypeOK, TextTypeOK, Buffered
<1>2. ~Begin => /\ \A d : refList(d)' = refList(d)
                /\ \A subset : Hull(subset)' = Hull(subset)
  BY OnlyBeginParses, SourceFixed
<1>3. CASE Begin \/ Refine \/ Accept
  <2>1. pc' = "round"
    BY <1>3 DEF Begin, Refine, Accept
  <2> QED BY <2>1 DEF Minimal, LastRound, OneMinimal
<1>4. CASE StartRound
  <2>1. /\ pc' = "test" /\ decls_' = decls_ /\ n' = n /\ decls_ # <<>>
        /\ subsets' = refineSubsets(split(decls_, n))
    BY <1>4 DEF StartRound
  <2>2. Len(decls_) # 0
    BY <1>1, <2>1, EmptySeq
  <2>3. n = Len(decls_) =>
          /\ \A s \in DOMAIN subsets' :
               \E d \in Elements(decls_) : subsets'[s] = <<d>>
          /\ \A d \in Elements(decls_) :
               refList(d) = {} => \E s \in DOMAIN subsets' : subsets'[s] = <<d>>
    BY <1>1, <2>1, <2>2, RefinedSingles
  <2>4. \A d : refList(d)' = refList(d)
    BY <1>2, <2>1 DEF Begin
  <2> QED BY <2>1, <2>3, <2>4 DEF Minimal, LastRound, OneMinimal
<1>5. CASE Test
  <2>1. /\ decls_' = decls_ /\ subsets' = subsets /\ n' = n /\ pc = "test"
        /\ pc' = "oracle" /\ subsets # <<>> /\ failed' = failed
        /\ file' = file \ Hull(Head(subsets))
    BY <1>1, <1>5, EditsAreText DEF Test, writeToFile, CallOracle
  <2>2. /\ \A d : refList(d)' = refList(d)
        /\ \A subset : Hull(subset)' = Hull(subset)
        /\ Hull(Head(subsets))' = Hull(Head(subsets))
    BY <1>2, <2>1 DEF Begin
  <2>3. n = Len(decls_) => file \cup Hull(Head(subsets)) = file
    <3> SUFFICES ASSUME n = Len(decls_)
                 PROVE  Hull(Head(subsets)) \subseteq file
      OBVIOUS
    <3>1. 1 \in DOMAIN subsets /\ Head(subsets) = subsets[1]
      BY <1>1, <2>1, EmptySeq, LenProperties, HeadTailProperties
    <3>2. PICK d \in Elements(decls_) : Head(subsets) = <<d>>
      BY <1>1, <2>1, <3>1 DEF Minimal, LastRound
    <3>3. Extent(d) \subseteq file
      BY <1>1, <2>1 DEF Intact
    <3> QED BY <3>2, <3>3, SingleHull
  <2>4. n = Len(decls_) => Judged' = Judged
    BY <2>1, <2>2, <2>3 DEF Judged
  <2> QED BY <1>1, <2>1, <2>2, <2>4 DEF Minimal, LastRound, OneMinimal
<1>6. CASE Refuse
  <2> DEFINE H == Hull(Head(subsets))
  <2>1. /\ decls_' = decls_ /\ subsets' = Tail(subsets) /\ n' = n
        /\ pc = "oracle" /\ pc' = "test" /\ failed' = failed \cup {file}
        /\ file' = (file \ H) \cup (source \cap H)
        /\ subsets # <<>>
    BY <1>1, <1>6, EditsAreText DEF Refuse, OracleRefuses, IInv, UnderTest
  <2>2. SUFFICES ASSUME n = Len(decls_)
                 PROVE  /\ \A s \in DOMAIN subsets' :
                             \E d \in Elements(decls_) : subsets'[s] = <<d>>
                        /\ \A d \in Elements(decls_) :
                             refList(d) = {} =>
                               \/ \E s \in DOMAIN subsets' : subsets'[s] = <<d>>
                               \/ file' \ Hull(<<d>>) \in failed'
    <3>1. /\ \A d : refList(d)' = refList(d)
          /\ \A subset : Hull(subset)' = Hull(subset)
      BY <1>2, <2>1 DEF Begin
    <3> QED BY <2>1, <3>1 DEF Minimal, LastRound, OneMinimal, Judged
  <2>3. /\ \A s \in DOMAIN subsets :
             \E d \in Elements(decls_) : subsets[s] = <<d>>
        /\ \A d \in Elements(decls_) :
             refList(d) = {} =>
               \/ \E s \in DOMAIN subsets : subsets[s] = <<d>>
               \/ (file \cup H) \ Hull(<<d>>) \in failed
        /\ file \cap H = {}
    BY <1>1, <2>1, <2>2 DEF Minimal, LastRound, Judged
  <2>4. /\ Len(subsets) \in Nat /\ DOMAIN subsets = 1 .. Len(subsets)
        /\ Head(subsets) = subsets[1] /\ 1 \in DOMAIN subsets
        /\ DOMAIN subsets' = 1 .. Len(subsets) - 1
        /\ \A s \in DOMAIN subsets' :
             s + 1 \in DOMAIN subsets /\ subsets'[s] = subsets[s + 1]
    <3>1. Len(subsets) \in Nat /\ DOMAIN subsets = 1 .. Len(subsets)
          /\ Len(subsets) # 0
      BY <1>1, <2>1, EmptySeq, LenProperties
    <3>2. /\ Head(subsets) = subsets[1]
          /\ Tail(subsets) \in Seq(Seq(NodeId))
          /\ Len(Tail(subsets)) = Len(subsets) - 1
          /\ \A s \in 1 .. Len(Tail(subsets)) : Tail(subsets)[s] = subsets[s + 1]
      BY <1>1, <2>1, HeadTailProperties
    <3> QED BY <2>1, <3>1, <3>2, LenProperties
  <2>5. PICK e \in Elements(decls_) : Head(subsets) = <<e>>
    BY <2>3, <2>4
  <2>6. H = Hull(<<e>>) /\ H \subseteq source
    <3>1. e \in Elements(decls)
      BY <1>1 DEF AllCollected
    <3> QED BY <1>1, <2>5, <3>1, ListedWhole, SingleHull
  <2> HIDE DEF H
  <2>7. file' = file \cup H /\ file' \ H = file
    BY <1>1, <2>1, <2>3, <2>6
  <2>8. ASSUME NEW d \in Elements(decls_), refList(d) = {}
        PROVE  \/ \E s \in DOMAIN subsets' : subsets'[s] = <<d>>
               \/ file' \ Hull(<<d>>) \in failed'
    <3>1. CASE \E s \in DOMAIN subsets : subsets[s] = <<d>>
      <4>1. PICK s \in DOMAIN subsets : subsets[s] = <<d>>
        BY <3>1
      <4>2. CASE s = 1
        <5>1. Hull(<<d>>) = H
          BY <2>4, <2>5, <2>6, <4>1, <4>2
        <5> QED BY <2>1, <2>7, <5>1
      <4>3. CASE s # 1
        <5>1. s - 1 \in DOMAIN subsets' /\ s - 1 + 1 = s
          BY <2>4, <4>3
        <5> QED BY <2>4, <4>1, <5>1
      <4> QED BY <4>2, <4>3
    <3>2. CASE (file \cup H) \ Hull(<<d>>) \in failed
      BY <2>1, <2>7, <3>2
    <3> QED BY <2>3, <2>8, <3>1, <3>2
  <2> QED BY <2>3, <2>4, <2>8
<1>7. CASE Finish
  <2>1. /\ UNCHANGED <<file, decls_, failed>> /\ pc' = "done" /\ pc # "oracle"
        /\ \/ decls_ = <<>>
           \/ pc = "test" /\ subsets = <<>> /\ n = Len(decls_)
    BY <1>7 DEF Finish, textVars, shared
  <2>2. ASSUME NEW d \in Elements(decls_), refList(d) = {}
        PROVE  file \ Hull(<<d>>) \in failed
    <3>1. decls_ # <<>>
      BY DEF Elements
    <3> QED BY <1>1, <2>1, <2>2, <3>1 DEF Minimal, LastRound, Judged
  <2>3. /\ \A d : refList(d)' = refList(d)
        /\ \A subset : Hull(subset)' = Hull(subset)
    BY <1>2, <1>7 DEF Begin, Finish
  <2> QED BY <2>1, <2>2, <2>3 DEF Minimal, LastRound, OneMinimal
<1>8. CASE UNCHANGED vars
  <2>1. UNCHANGED <<source, file, failed, decls_, n, subsets, pc>>
    BY <1>8 DEF vars, textVars, passVars, shared
  <2>2. /\ \A d : refList(d)' = refList(d)
        /\ \A subset : Hull(subset)' = Hull(subset)
        /\ Judged' = Judged
    BY <2>1, SourceFixed DEF Judged
  <2> QED BY <1>1, <2>1, <2>2 DEF Minimal, LastRound, OneMinimal
<1> QED BY <1>3, <1>4, <1>5, <1>6, <1>7, <1>8 DEF Next

\* When the declarations lie one behind the other, the pass leaves none that
\* nothing refers to and that could go alone: however the oracle answers, and
\* whatever the hulls of the larger subsets took away and put back, it has
\* refused the final file without each of them.
THEOREM NoSingleDeclarationIsLeft == Flat /\ Spec => []OneMinimal
<1>1. Init /\ Flat => MInv
  <2> SUFFICES ASSUME Init, Flat PROVE Minimal
    BY FlatInit DEF MInv
  <2> QED BY DEF Init, PassInit, Minimal, LastRound, OneMinimal
<1>2. MInv => OneMinimal
  BY DEF MInv, Minimal
<1> QED BY MinimalStep, <1>1, <1>2, PTL DEF Spec
-----------------------------------------------------------------------------
(***************************************************************************)
(* CallsBounded: every round has a budget of calls.                        *)
(***************************************************************************)
\* What may still be asked when a round on len declarations, in the given
\* number of parts, is about to start; and what is left of that when it ends.
Rest(len, parts) ==
  len * len + len + (IF parts < len THEN 2 * len - parts
                     ELSE IF parts = len THEN 0 ELSE len)
RestAfter(len, parts) == Rest(len, parts) - Smaller(parts, len)

\* The budget of a list and a number of parts is a natural number, and a
\* round takes its own calls from it.
LEMMA RestFacts ==
  ASSUME NEW len \in Nat, NEW parts \in Nat \ {0}
  PROVE  /\ len * len \in Nat
         /\ Rest(len, parts) \in Nat /\ RestAfter(len, parts) \in Nat
         /\ Smaller(parts, len) \in Nat
         /\ RestAfter(len, parts) + Smaller(parts, len) = Rest(len, parts)
         /\ Rest(len, 2) <= len * len + 3 * len
<1>1. len * len \in Nat
  OBVIOUS
<1> DEFINE sq == len * len
<1>2. sq \in Nat
  BY <1>1
<1>3. /\ Rest(len, parts) = sq + len + (IF parts < len THEN 2 * len - parts
                                       ELSE IF parts = len THEN 0 ELSE len)
      /\ Rest(len, 2) = sq + len + (IF 2 < len THEN 2 * len - 2
                                   ELSE IF 2 = len THEN 0 ELSE len)
  BY DEF Rest
<1> HIDE DEF sq
<1>4. /\ Rest(len, parts) \in Nat /\ Smaller(parts, len) \in Nat
      /\ Smaller(parts, len) <= Rest(len, parts)
  BY <1>2, <1>3 DEF Smaller
<1>5. Rest(len, 2) <= sq + 3 * len
  BY <1>2, <1>3
<1> QED BY <1>1, <1>4, <1>5 DEF RestAfter, sq

\* A finer round costs no more than what is left.
LEMMA RestRefine ==
  ASSUME NEW len \in Nat, NEW parts \in Nat \ {0}, parts # len
  PROVE  Rest(len, Smaller(parts * 2, len)) <= RestAfter(len, parts)
<1> DEFINE sq == len * len
<1>1. sq \in Nat
  OBVIOUS
<1>2. \A k : Rest(len, k) = sq + len + (IF k < len THEN 2 * len - k
                                       ELSE IF k = len THEN 0 ELSE len)
  BY DEF Rest
<1> HIDE DEF sq
<1> QED BY <1>1, <1>2 DEF RestAfter, Smaller

\* Nor does a round on a shorter list.
LEMMA RestAccept ==
  ASSUME NEW len \in Nat, NEW parts \in Nat \ {0}, NEW shorter \in Nat,
         shorter < len
  PROVE  Rest(shorter, Larger(parts - 1, 2)) <= RestAfter(len, parts)
<1> DEFINE sq == len * len
           sq1 == shorter * shorter
<1>1. /\ sq \in Nat /\ sq1 \in Nat /\ sq1 + 2 * shorter + 1 <= sq
  <2>1. (shorter + 1) * (shorter + 1) <= len * (shorter + 1)
    BY TimesMonotone
  <2>2. (shorter + 1) * len <= len * len
    BY TimesMonotone
  <2>3. (shorter + 1) * (shorter + 1) = shorter * shorter + 2 * shorter + 1
    OBVIOUS
  <2>4. len * (shorter + 1) = (shorter + 1) * len
    OBVIOUS
  <2>5. /\ (shorter + 1) * len \in Nat /\ len * len \in Nat
        /\ shorter * shorter \in Nat
    OBVIOUS
  <2> QED BY <2>1, <2>2, <2>3, <2>4, <2>5
<1>2. /\ Rest(len, parts) = sq + len + (IF parts < len THEN 2 * len - parts
                                       ELSE IF parts = len THEN 0 ELSE len)
      /\ \A k : Rest(shorter, k) = sq1 + shorter +
                                     (IF k < shorter THEN 2 * shorter - k
                                      ELSE IF k = shorter THEN 0 ELSE shorter)
  BY DEF Rest
<1> HIDE DEF sq, sq1
<1> QED BY <1>1, <1>2 DEF RestAfter, Smaller, Larger

Budget == Len(decls) * Len(decls) + 3 * Len(decls)

\* The calls so far, those of this round, and the budget of the next rounds.
Counted ==
  LET asked == calls["global"] IN
    /\ pc = "start" => asked = 0
    /\ pc = "round" => asked + Rest(Len(decls_), n) <= Budget
    /\ pc = "test" =>
         asked + Len(subsets) + RestAfter(Len(decls_), n) <= Budget
    /\ pc = "oracle" =>
         asked + (Len(subsets) - 1) + RestAfter(Len(decls_), n) <= Budget
    /\ pc = "done" => asked <= Budget

\* A run of the pass alone parses the program as it was.
ParsedOnce == source = Cells /\ (pc = "start" => file = Cells)

CInv == IInv /\ ParsedOnce /\ Counted

\* The tests of a round are no more than its parts.
LEMMA RefinedLength ==
  ASSUME decls_ \in Seq(NodeId), n \in Nat \ {0}
  PROVE  Len(refineSubsets(split(decls_, n))) <= Smaller(n, Len(decls_))
<1> DEFINE all  == split(decls_, n)
           keep == {s \in DOMAIN all :
                      \A i \in DOMAIN all[s] : refList(all[s][i]) = {}}
<1>1. all \in Seq(Seq(NodeId)) /\ Len(all) = Smaller(n, Len(decls_))
  BY SplitChunks, SplitLength
<1>2. refineSubsets(all) = Select(all, keep) /\ keep \in SUBSET DOMAIN all
  BY DEF refineSubsets
<1> HIDE DEF all, keep
<1>3. Len(Select(all, keep)) <= Len(all)
  BY <1>1, <1>2, SelectShorter
<1> QED BY <1>1, <1>2, <1>3 DEF all

\* Every call is paid for: a success shortens the list and a round without
\* one raises the number of parts.
LEMMA CountedStep == CInv /\ [Next]_vars => CInv'
<1> SUFFICES ASSUME CInv, [Next]_vars PROVE ParsedOnce' /\ Counted'
  BY InvStep DEF CInv
<1>1. IInv /\ IInv' /\ ParsedOnce /\ Counted
  BY InvStep DEF CInv
<1>a. source' = source /\ ParsedOnce'
  BY <1>1 DEF ParsedOnce, Next, Begin, Initialize, StartRound, Test, Accept,
              Refuse, Refine, Finish, vars, textVars, passVars, shared, Cells
<1> SUFFICES Counted'
  BY <1>a
<1>2. /\ decls_ \in Seq(NodeId) /\ subsets \in Seq(Seq(NodeId))
      /\ n \in Nat \ {0} /\ Len(decls_) \in Nat /\ Len(subsets) \in Nat
      /\ decls_' \in Seq(NodeId) /\ subsets' \in Seq(Seq(NodeId))
      /\ n' \in Nat \ {0} /\ Len(decls_') \in Nat /\ Len(subsets') \in Nat
      /\ calls["global"] \in Nat /\ MaxCalls \in Nat
  <2>1. /\ calls \in [Counters -> 0 .. MaxCalls] /\ MaxCalls \in Nat
        /\ "global" \in Counters
    BY <1>1, TransformationAssumption DEF IInv, TypeOK, TextTypeOK, Counters
  <2> QED BY <1>1, <2>1, LenProperties DEF IInv, TypeOK
<1>3. Budget' = Budget /\ Budget \in Nat
  <2>2. Len(decls) \in Nat
    BY DeclsFacts, LenProperties
  <2>3. Len(decls) * Len(decls) \in Nat
    BY <2>2
  <2>4. Budget \in Nat
    BY <2>2, <2>3 DEF Budget
  <2> QED BY <1>a, <2>4, SourceFixed DEF Budget
<1>4. CASE Begin
  <2>1. /\ pc = "start" /\ pc' = "round" /\ calls' = calls /\ n' = 2
        /\ decls_' = decls
    BY <1>a, <1>4, SourceFixed DEF Begin, Initialize, shared
  <2>2. Rest(Len(decls_)', 2) <= Budget
    BY <1>2, <2>1, RestFacts DEF Budget
  <2>3. Rest(Len(decls_)', 2) \in Nat
    BY <1>2, RestFacts
  <2> QED BY <1>1, <1>3, <2>1, <2>2, <2>3 DEF Counted
<1>5. CASE StartRound
  <2>1. /\ pc = "round" /\ pc' = "test" /\ calls' = calls /\ n' = n
        /\ decls_' = decls_ /\ Len(subsets') <= Smaller(n, Len(decls_))
    BY <1>2, <1>5, RefinedLength DEF StartRound, textVars, shared
  <2>2. /\ Rest(Len(decls_), n) \in Nat /\ RestAfter(Len(decls_), n) \in Nat
        /\ Smaller(n, Len(decls_)) \in Nat
        /\ RestAfter(Len(decls_), n) + Smaller(n, Len(decls_)) =
             Rest(Len(decls_), n)
    BY <1>2, RestFacts
  <2>3. calls["global"] + Rest(Len(decls_), n) <= Budget
    BY <1>1, <2>1 DEF Counted
  <2>4. calls["global"] + Len(subsets') + RestAfter(Len(decls_), n) <= Budget
    BY <1>2, <1>3, <2>1, <2>2, <2>3
  <2> QED BY <1>3, <2>1, <2>4 DEF Counted
<1>6. CASE Test
  <2>1. /\ pc = "test" /\ pc' = "oracle" /\ n' = n /\ decls_' = decls_
        /\ subsets' = subsets /\ calls' = Increment(calls, "global")
    BY <1>6 DEF Test, CallOracle
  <2>2. calls'["global"] \in Nat /\ calls'["global"] <= calls["global"] + 1
    <3>1. "global" \in Counters /\ calls \in [Counters -> 0 .. MaxCalls]
      BY <1>1 DEF IInv, TypeOK, TextTypeOK, Counters
    <3>2. calls'["global"] = Smaller(calls["global"] + 1, MaxCalls)
      BY <2>1, <3>1 DEF Increment, CounterOf
    <3> QED BY <1>2, <3>2 DEF Smaller
  <2>3. RestAfter(Len(decls_), n) \in Nat
    BY <1>2, RestFacts
  <2>4. calls["global"] + Len(subsets) + RestAfter(Len(decls_), n) <= Budget
    BY <1>1, <2>1 DEF Counted
  <2>5. calls'["global"] + (Len(subsets) - 1) + RestAfter(Len(decls_), n)
          <= Budget
    BY <1>2, <1>3, <2>2, <2>3, <2>4
  <2> QED BY <1>3, <2>1, <2>5 DEF Counted
<1>7. CASE Accept
  <2>1. /\ pc = "oracle" /\ pc' = "round" /\ n' = Larger(n - 1, 2)
        /\ decls_' = difference(decls_, Head(subsets)) /\ calls' = calls
    BY <1>7 DEF Accept, OracleAccepts
  <2>2. Len(subsets) # 0
    BY <1>1, <1>2, <2>1, EmptySeq DEF IInv, UnderTest
  <2>3. Len(decls_') < Len(decls_)
    <3> DEFINE subset == Head(subsets)
    <3>1. 1 \in DOMAIN subsets /\ subset = subsets[1] /\ subset \in Seq(NodeId)
      BY <1>2, <2>2, LenProperties, EmptySeq, HeadTailProperties
    <3>2. subset # <<>> /\ Elements(subset) \subseteq Elements(decls_)
      BY <1>1, <3>1 DEF IInv, SubsetsSafe
    <3> HIDE DEF subset
    <3>3. subset[1] \in Elements(subset)
      BY <3>1, <3>2, EmptySeq, LenProperties DEF Elements
    <3>4. PICK i \in DOMAIN decls_ : decls_[i] = subset[1]
      BY <3>2, <3>3 DEF Elements
    <3>5. Len(difference(decls_, subset)) < Len(decls_)
      BY <1>2, <3>3, <3>4, DifferenceShorter
    <3> QED BY <2>1, <3>5 DEF subset
  <2>4. Rest(Len(decls_'), n') <= RestAfter(Len(decls_), n)
    BY <1>2, <2>1, <2>3, RestAccept
  <2>5. /\ RestAfter(Len(decls_), n) \in Nat /\ Rest(Len(decls_'), n') \in Nat
    BY <1>2, RestFacts
  <2>6. calls["global"] + (Len(subsets) - 1) + RestAfter(Len(decls_), n)
          <= Budget
    BY <1>1, <2>1 DEF Counted
  <2>7. calls["global"] + Rest(Len(decls_'), n') <= Budget
    BY <1>2, <1>3, <2>2, <2>4, <2>5, <2>6
  <2> QED BY <1>3, <2>1, <2>7 DEF Counted
<1>8. CASE Refuse
  <2>1. /\ pc = "oracle" /\ pc' = "test" /\ n' = n /\ decls_' = decls_
        /\ calls' = calls /\ subsets' = Tail(subsets) /\ subsets # <<>>
    BY <1>1, <1>8 DEF Refuse, OracleRefuses, IInv, UnderTest
  <2>2. Len(subsets') = Len(subsets) - 1
    BY <1>2, <2>1, HeadTailProperties
  <2>3. calls["global"] + (Len(subsets) - 1) + RestAfter(Len(decls_), n)
          <= Budget
    BY <1>1, <2>1 DEF Counted
  <2> QED BY <1>3, <2>1, <2>2, <2>3 DEF Counted
<1>9. CASE Refine
  <2>1. /\ pc = "test" /\ pc' = "round" /\ decls_' = decls_ /\ calls' = calls
        /\ n # Len(decls_) /\ n' = Smaller(n * 2, Len(decls_))
    BY <1>9 DEF Refine, textVars, shared
  <2>2. Rest(Len(decls_), n') <= RestAfter(Len(decls_), n)
    BY <1>2, <2>1, RestRefine
  <2>3. /\ RestAfter(Len(decls_), n) \in Nat /\ Rest(Len(decls_), n') \in Nat
    BY <1>2, RestFacts
  <2>4. calls["global"] + Len(subsets) + RestAfter(Len(decls_), n) <= Budget
    BY <1>1, <2>1 DEF Counted
  <2>5. calls["global"] + Rest(Len(decls_), n') <= Budget
    BY <1>2, <1>3, <2>2, <2>3, <2>4
  <2> QED BY <1>3, <2>1, <2>5 DEF Counted
<1>10. CASE Finish
  <2>1. pc \in {"round", "test"} /\ pc' = "done" /\ calls' = calls
    BY <1>10 DEF Finish, textVars, shared
  <2>2. RestAfter(Len(decls_), n) \in Nat /\ Rest(Len(decls_), n) \in Nat
    BY <1>2, RestFacts
  <2>3. calls["global"] <= Budget
    BY <1>1, <1>2, <1>3, <2>1, <2>2 DEF Counted
  <2> QED BY <1>3, <2>1, <2>3 DEF Counted
<1>11. CASE UNCHANGED vars
  BY <1>1, <1>3, <1>11 DEF Counted, vars, textVars, passVars, shared
<1> QED
  BY <1>a, <1>4, <1>5, <1>6, <1>7, <1>8, <1>9, <1>10, <1>11 DEF Next

\* However the oracle answers, the pass asks it at most as often as a
\* quadratic function of the number of declarations: an accepted subset pays
\* for the finer rounds that it makes the pass repeat.
THEOREM CallsAreBounded == Spec => []CallsBounded
<1>1. Init => CInv
  <2> SUFFICES ASSUME Init PROVE ParsedOnce /\ Counted
    BY InitInv DEF CInv
  <2> QED
    BY DEF Init, PassInit, TransformationInit, ParsedOnce, Counted, Counters
<1>2. CInv => CallsBounded
  <2> SUFFICES ASSUME CInv, pc # "start" PROVE calls["global"] <= Budget
    BY DEF CallsBounded, Budget
  <2>1. /\ Len(decls_) \in Nat /\ Len(subsets) \in Nat /\ n \in Nat \ {0}
        /\ calls["global"] \in Nat
    <3>1. /\ calls \in [Counters -> 0 .. MaxCalls] /\ MaxCalls \in Nat
          /\ "global" \in Counters
      BY TransformationAssumption DEF CInv, IInv, TypeOK, TextTypeOK, Counters
    <3> QED BY <3>1, LenProperties DEF CInv, IInv, TypeOK
  <2>2. RestAfter(Len(decls_), n) \in Nat /\ Rest(Len(decls_), n) \in Nat
    BY <2>1, RestFacts
  <2>3. Budget \in Nat
    <3>1. Len(decls) \in Nat
      BY DeclsFacts, LenProperties
    <3>2. Len(decls) * Len(decls) \in Nat
      BY <3>1
    <3> QED BY <3>1, <3>2 DEF Budget
  <2>4. pc \in {"round", "test", "oracle", "done"}
    BY DEF CInv, IInv, TypeOK
  <2>5. pc = "oracle" => Len(subsets) # 0
    BY EmptySeq DEF CInv, IInv, UnderTest, TypeOK
  <2> QED BY <2>1, <2>2, <2>3, <2>4, <2>5 DEF CInv, Counted
<1> QED BY CountedStep, <1>1, <1>2, PTL DEF Spec
-----------------------------------------------------------------------------
(***************************************************************************)
(* SavedCopiesFaithful and CopiesNeverOverwritten: a copy is numbered by   *)
(* the calls so far, so that its number is new as long as the counter      *)
(* still counts; the copy is made of the buffer, which is what the oracle  *)
(* has judged.                                                             *)
(***************************************************************************)
\* The bound of the model on the counters is out of reach of the pass.
Roomy == MaxCalls >= Len(Ast) * Len(Ast) + 3 * Len(Ast)

Limit == IF pc = "oracle" THEN calls["global"] ELSE calls["global"] + 1

Recorded ==
  /\ calls["local"] = 0
  /\ Copies(saved, Limit, passed, failed, kept)
  /\ ~SaveTemp => saved = <<>>

KInv == CInv /\ Roomy /\ Recorded

\* There are no more declarations than nodes, so the budget has room.
LEMMA BudgetHasRoom ==
  ASSUME Roomy
  PROVE  Budget \in Nat /\ Budget <= MaxCalls
<1> DEFINE S    == {i \in Visited : Collected(i)}
           size == Len(decls)
           all  == Len(Ast)
<1>1. all \in Nat /\ NodeId = 1 .. all
  BY GlobalReductionAssumption, LenProperties DEF NodeId
<1>2. IsFiniteSet(NodeId) /\ Cardinality(NodeId) = all
  <2>1. Cardinality(1 .. all) = IF 1 > all THEN 0 ELSE all - 1 + 1
    BY <1>1, FS_Interval
  <2> QED BY <1>1, <2>1, FS_Interval
<1>3. S \in SUBSET NodeId
  BY DEF Visited
<1>4. Cardinality(S) \in Nat /\ Cardinality(S) <= all
  BY <1>2, <1>3, FS_Subset, FS_CardinalityType
<1>5. size = Cardinality(S)
  <2>1. decls = [k \in 1 .. Cardinality(S) |-> Nth(S, k)]
    BY DEF decls, Enumerate
  <2>2. decls \in Seq(NodeId)
    BY DeclsFacts
  <2>3. size \in Nat /\ DOMAIN decls = 1 .. size
    BY <2>2, LenProperties
  <2>4. DOMAIN decls = 1 .. Cardinality(S)
    BY <2>1
  <2> QED BY <1>4, <2>3, <2>4
<1> HIDE DEF S, size, all
<1>6. size \in Nat /\ size <= all
  BY <1>4, <1>5
<1>7. size * size <= all * size /\ size * all <= all * all
  BY <1>1, <1>6, TimesMonotone
<1>8. /\ size * size \in Nat /\ all * all \in Nat
      /\ size * all = all * size
  BY <1>1, <1>6
<1>9. size * size <= all * all
  <2> DEFINE a == size * size
             b == all * size
             c == all * all
  <2>1. b \in Nat
    BY <1>1, <1>6
  <2> HIDE DEF a, b, c
  <2>2. a <= b /\ b <= c
    BY <1>7, <1>8 DEF a, b, c
  <2>3. a \in Nat /\ c \in Nat
    BY <1>8 DEF a, c
  <2>4. a <= c
    BY <2>1, <2>2, <2>3
  <2> QED BY <2>4 DEF a, c
<1>10. size * size + 3 * size \in Nat
  BY <1>6, <1>8
<1>11. size * size + 3 * size <= all * all + 3 * all
  <2> DEFINE a == size * size
             c == all * all
  <2> HIDE DEF a, c
  <2>1. a \in Nat /\ c \in Nat /\ a <= c
    BY <1>8, <1>9 DEF a, c
  <2>2. a + 3 * size <= c + 3 * all
    BY <1>1, <1>6, <2>1
  <2> QED BY <2>2 DEF a, c
<1> QED
  BY <1>1, <1>8, <1>10, <1>11, TransformationAssumption
  DEF Budget, Roomy, size, all

\* A question has a number that no earlier one has.
LEMMA QuestionIsNew ==
  ASSUME KInv, Test
  PROVE  calls' = [calls EXCEPT !["global"] = @ + 1]
<1>1. /\ calls \in [Counters -> 0 .. MaxCalls] /\ MaxCalls \in Nat
      /\ "global" \in Counters
      /\ calls["global"] \in Nat
      /\ decls_ \in Seq(NodeId) /\ Len(decls_) \in Nat
      /\ subsets \in Seq(Seq(NodeId)) /\ Len(subsets) \in Nat
      /\ n \in Nat \ {0}
  <2>1. /\ calls \in [Counters -> 0 .. MaxCalls] /\ MaxCalls \in Nat
        /\ "global" \in Counters
    BY TransformationAssumption
    DEF KInv, CInv, IInv, TypeOK, TextTypeOK, Counters
  <2> QED BY <2>1, LenProperties DEF KInv, CInv, IInv, TypeOK
<1>2. Len(subsets) # 0
  BY <1>1, EmptySeq DEF Test
<1>3. RestAfter(Len(decls_), n) \in Nat
  BY <1>1, RestFacts
<1>4. calls["global"] + Len(subsets) + RestAfter(Len(decls_), n) <= Budget
  BY DEF KInv, CInv, Counted, Test
<1>5. calls["global"] + 1 <= MaxCalls
  BY <1>1, <1>2, <1>3, <1>4, BudgetHasRoom DEF KInv
<1>6. Smaller(calls["global"] + 1, MaxCalls) = calls["global"] + 1
  BY <1>5 DEF Smaller
<1>7. calls' = Increment(calls, "global")
  BY DEF Test, CallOracle
<1> QED BY <1>6, <1>7 DEF Increment, CounterOf

\* The copy that an answer leaves is of the text that the oracle has judged.
LEMMA AnswerSaved ==
  ASSUME KInv, pc = "oracle", NEW verdict, SaveTempFile("global", verdict)
  PROVE  /\ calls["global"] \in Nat /\ Limit = calls["global"]
         /\ ~SaveTemp => saved' = <<>>
         /\ SaveTemp =>
              saved' = With(saved, <<calls["global"], "global", verdict>>, file)
<1>1. calls["global"] \in Nat /\ calls["local"] = 0
  <2>1. /\ calls \in [Counters -> 0 .. MaxCalls] /\ MaxCalls \in Nat
        /\ "global" \in Counters
    BY TransformationAssumption
    DEF KInv, CInv, IInv, TypeOK, TextTypeOK, Counters
  <2> QED BY <2>1 DEF KInv, Recorded
<1>2. EditBuffer = file
  BY DEF KInv, CInv, IInv, Buffered
<1>3. TotalCalls = calls["global"]
  BY <1>1 DEF TotalCalls
<1> QED
  BY <1>1, <1>2, <1>3
  DEF SaveTempFile, SaveCopy, With, TempName, Limit, KInv, Recorded

\* A copy takes a number that no copy has and the label that the oracle has
\* just given its text.
LEMMA RecordedStep == KInv /\ [Next]_vars => KInv'
<1> SUFFICES ASSUME KInv, [Next]_vars PROVE Recorded'
  BY CountedStep DEF KInv, Roomy
<1>1. /\ Recorded /\ Limit \in Nat
      /\ calls \in [Counters -> 0 .. MaxCalls] /\ MaxCalls \in Nat
      /\ calls["global"] \in Nat
  <2>1. /\ calls \in [Counters -> 0 .. MaxCalls] /\ MaxCalls \in Nat
        /\ "global" \in Counters
    BY TransformationAssumption
    DEF KInv, CInv, IInv, TypeOK, TextTypeOK, Counters
  <2> QED BY <2>1 DEF KInv, Limit
<1>2. CASE Test
  <2>1. /\ pc = "test" /\ pc' = "oracle"
        /\ UNCHANGED <<saved, passed, failed, kept>>
    BY <1>2 DEF Test, CallOracle
  <2>2. calls' = [calls EXCEPT !["global"] = @ + 1]
    BY <1>2, QuestionIsNew
  <2>3. calls'["global"] = calls["global"] + 1 /\ calls'["local"] = calls["local"]
    BY <1>1, <2>2 DEF Counters
  <2>4. Limit' = Limit
    BY <2>1, <2>3 DEF Limit
  <2> QED BY <1>1, <2>1, <2>3, <2>4 DEF Recorded
<1>3. CASE Accept
  <2>1. /\ pc = "oracle" /\ pc' = "round" /\ SaveTempFile("global", "success")
        /\ passed' = passed \cup {file} /\ kept' = file
        /\ UNCHANGED <<calls, failed>>
    BY <1>3 DEF Accept, OracleAccepts
  <2>2. /\ Limit = calls["global"] /\ Limit' = Limit + 1
        /\ ~SaveTemp => saved' = <<>>
        /\ SaveTemp =>
             saved' = With(saved, <<Limit, "global", "success">>, file)
    BY <2>1, AnswerSaved DEF Limit
  <2>3. CASE SaveTemp
    <3>1. Copies(With(saved, <<Limit, "global", "success">>, file), Limit + 1,
                 passed \cup {file}, failed, file)
      BY <1>1, SaveSuccess DEF Recorded
    <3> QED BY <1>1, <2>1, <2>2, <2>3, <3>1 DEF Recorded
  <2>4. CASE ~SaveTemp
    BY <1>1, <2>1, <2>2, <2>4, NoCopies DEF Recorded
  <2> QED BY <2>3, <2>4
<1>4. CASE Refuse
  <2>1. /\ pc = "oracle" /\ pc' = "test" /\ SaveTempFile("global", "fail")
        /\ failed' = failed \cup {file}
        /\ UNCHANGED <<calls, passed, kept>>
    BY <1>4 DEF Refuse, OracleRefuses
  <2>2. /\ Limit = calls["global"] /\ Limit' = Limit + 1
        /\ ~SaveTemp => saved' = <<>>
        /\ SaveTemp =>
             saved' = With(saved, <<Limit, "global", "fail">>, file)
    BY <2>1, AnswerSaved DEF Limit
  <2>3. CASE SaveTemp
    <3>1. Copies(With(saved, <<Limit, "global", "fail">>, file), Limit + 1,
                 passed, failed \cup {file}, kept)
      BY <1>1, SaveFail DEF Recorded
    <3> QED BY <1>1, <2>1, <2>2, <2>3, <3>1 DEF Recorded
  <2>4. CASE ~SaveTemp
    BY <1>1, <2>1, <2>2, <2>4, NoCopies DEF Recorded
  <2> QED BY <2>3, <2>4
<1>5. CASE Begin \/ StartRound \/ Refine \/ Finish \/ UNCHANGED vars
  <2>1. /\ UNCHANGED <<saved, passed, failed, kept, calls>>
        /\ (pc = "oracle") <=> (pc' = "oracle")
    BY <1>5 DEF Begin, Initialize, StartRound, Refine, Finish, vars, passVars,
                textVars, shared
  <2> QED BY <1>1, <2>1 DEF Recorded, Limit
<1> QED BY <1>2, <1>3, <1>4, <1>5 DEF Next

\* The invariant holds in all states of the pass.
LEMMA RecordedAlways == Roomy /\ Spec => []KInv
<1>1. Roomy /\ Init => KInv
  <2> SUFFICES ASSUME Roomy, Init PROVE ParsedOnce /\ Counted /\ Recorded
    BY InitInv DEF CInv, KInv
  <2>1. ParsedOnce /\ Counted
    BY DEF Init, PassInit, TransformationInit, ParsedOnce, Counted, Counters
  <2>2. Copies(saved, Limit, passed, failed, kept)
    BY NoCopies DEF Init, TransformationInit
  <2> QED BY <2>1, <2>2 DEF Recorded, Init, TransformationInit, Counters
<1> QED BY RecordedStep, <1>1, PTL DEF Spec

\* With --save_temp there is one copy for every call of the oracle that has
\* been answered, labelled with its verdict on that very text, and the last
\* success is the version that the oracle accepted last.
THEOREM CopiesAreFaithful == Roomy /\ Spec => []SavedCopiesFaithful
<1>1. KInv => SavedCopiesFaithful
  <2> SUFFICES ASSUME KInv PROVE SavedCopiesFaithful
    OBVIOUS
  <2>1. /\ Numbered(saved, Limit) /\ Labelled(saved, passed, failed)
        /\ LastIsBest(saved, kept)
    BY DEF KInv, Recorded, Copies
  <2>2. Cardinality(DOMAIN saved) =
          Cardinality({name[1] : name \in DOMAIN saved})
    BY <2>1, AsManyAsNumbers
  <2> QED
    BY <2>1, <2>2 DEF SavedCopiesFaithful, Labelled, LastIsBest, Succeeded
<1> QED BY RecordedAlways, <1>1, PTL

\* A copy that the pass has saved is never written again.
THEOREM CopiesStay == Roomy /\ Spec => CopiesNeverOverwritten
<1> DEFINE Stay == \A name \in DOMAIN saved :
                     name \in DOMAIN saved' /\ saved'[name] = saved[name]
<1>1. KInv /\ [Next]_vars => [Stay]_saved
  <2> SUFFICES ASSUME KInv, [Next]_vars, saved' # saved PROVE Stay
    OBVIOUS
  <2>1. PICK verdict : pc = "oracle" /\ SaveTempFile("global", verdict)
    BY DEF Next, Begin, Initialize, StartRound, Test, CallOracle, Accept,
           OracleAccepts, Refuse, OracleRefuses, Refine, Finish, vars,
           passVars, textVars, shared
  <2>2. /\ calls["global"] \in Nat /\ Limit = calls["global"]
        /\ ~SaveTemp => saved' = <<>>
        /\ SaveTemp =>
             saved' = With(saved, <<calls["global"], "global", verdict>>, file)
    BY <2>1, AnswerSaved
  <2>3. Numbered(saved, calls["global"]) /\ (~SaveTemp => saved = <<>>)
    BY <2>2 DEF KInv, Recorded, Copies
  <2>4. SaveTemp
    BY <2>2, <2>3
  <2> DEFINE number == calls["global"]
             name   == <<number, "global", verdict>>
             new    == With(saved, name, file)
  <2>5. number \in Nat /\ Numbered(saved, number)
    BY <2>2, <2>3
  <2> HIDE DEF number
  <2>6. /\ DOMAIN new = DOMAIN saved \cup {name}
        /\ \A other \in DOMAIN saved : new[other] = saved[other]
    BY <2>5, WithFacts
  <2>7. saved' = new
    BY <2>2, <2>4 DEF number
  <2> HIDE DEF new
  <2> QED BY <2>6, <2>7
<1> QED BY RecordedAlways, <1>1, PTL DEF Spec, CopiesNeverOverwritten
-----------------------------------------------------------------------------
(***************************************************************************)
(* RevertRestores and RemovedStaysRemoved.  A revert brings removed text   *)
(* back when the hull under test reaches over a declaration that is gone.  *)
(* It never does in a Flat program whose list of declarations is one that  *)
(* ddmin cuts without a gap (Nesting): at most ten, or a power of two.     *)
(***************************************************************************)
\* Every subset is a chunk, and no chunk of the round has a gap.
Chunked ==
  pc # "start" =>
    /\ Nests(Elements(decls), decls_, n)
    /\ \A s \in DOMAIN subsets :
         \E k \in DOMAIN split(decls_, n) : subsets[s] = split(decls_, n)[k]

\* Between two declarations that are left, with no removed one in between,
\* the accepted text has all that was parsed.
Solid ==
  pc # "start" =>
    \A d, e \in Elements(decls_) :
      (\A x \in Elements(decls) : d < x /\ x < e => x \in Elements(decls_)) =>
        source \cap (Ast[d].first .. RemovalEnd(e)) \subseteq kept

Exact == IF pc = "oracle"
         THEN /\ source \cap Hull(Head(subsets)) \subseteq kept
              /\ file = kept \ Hull(Head(subsets))
         ELSE file = kept

\* The list with which ddmin will begin can be cut without a gap.
Nested == pc = "start" => Nesting(Len(Listed(file)))

EInv == FInv /\ Nested /\ Chunked /\ Solid /\ Exact

\* The list that ddmin works on is an increasing list of nodes.
LEMMA ListFacts ==
  ASSUME IInv
  PROVE  /\ decls_ \in Seq(NodeId) /\ Increasing(decls_) /\ n \in Nat \ {0}
         /\ NodeId \in SUBSET Nat
         /\ Elements(decls_) \subseteq NodeId
         /\ Elements(decls) \in SUBSET Nat /\ Elements(decls) \subseteq NodeId
         /\ \A d \in Elements(decls) : Collected(d)
         /\ Len(decls_) \in Nat
<1>1. decls_ \in Seq(NodeId) /\ Increasing(decls_) /\ n \in Nat \ {0}
  BY DEF IInv, TypeOK, ListOrdered
<1>2. NodeId \in SUBSET Nat
  BY NodeFacts
<1>3. Elements(decls) = {i \in Visited : Collected(i)}
  BY DeclsFacts
<1>4. Elements(decls_) \subseteq NodeId /\ Len(decls_) \in Nat
  BY <1>1, ElementOfSeq, LenProperties DEF Elements
<1> QED BY <1>1, <1>2, <1>3, <1>4 DEF Visited

\* The subset under test is a chunk of the list.
LEMMA HeadIsChunk ==
  ASSUME IInv, Chunked, pc # "start", subsets # <<>>
  PROVE  \E k \in DOMAIN split(decls_, n) :
           Head(subsets) = split(decls_, n)[k]
<1>1. subsets \in Seq(Seq(NodeId))
  BY DEF IInv, TypeOK
<1>2. 1 \in DOMAIN subsets /\ Head(subsets) = subsets[1]
  BY <1>1, EmptySeq, LenProperties, HeadTailProperties
<1> QED BY <1>2 DEF Chunked

\* What was parsed of the hull of a chunk without a gap is text that the
\* oracle has accepted.
LEMMA HullIsKept ==
  ASSUME IInv, Chunked, Solid, pc # "start", subsets # <<>>
  PROVE  source \cap Hull(Head(subsets)) \subseteq kept
<1> DEFINE chunk == Head(subsets)
           a == chunk[1]
           z == chunk[Len(chunk)]
<1>1. PICK k \in DOMAIN split(decls_, n) : chunk = split(decls_, n)[k]
  BY HeadIsChunk
<1>2. Nests(Elements(decls), decls_, n)
  BY DEF Chunked
<1>3. Elements(chunk) \subseteq Elements(decls_)
  BY <1>1, ListFacts, SplitIncreasing
<1>4. a \in Elements(chunk) /\ z \in Elements(chunk)
  BY <1>1, ListFacts, ChunkEnds
<1>5. \A x \in Elements(decls) : a < x /\ x < z => x \in Elements(chunk)
  BY <1>1, <1>2, ListFacts, ChunkWithoutGap
<1> HIDE DEF a, z, chunk
<1>6. source \cap (Ast[a].first .. RemovalEnd(z)) \subseteq kept
  BY <1>3, <1>4, <1>5 DEF Solid
<1> QED BY <1>6 DEF Hull, a, z, chunk

\* An accepted hull takes nothing from between the declarations that stay.
LEMMA SolidStays ==
  ASSUME FInv, Chunked, Solid, pc # "start", subsets # <<>>,
         NEW d \in Elements(decls_) \ Elements(Head(subsets)),
         NEW e \in Elements(decls_) \ Elements(Head(subsets)),
         \A x \in Elements(decls) :
           d < x /\ x < e => x \in Elements(decls_) \ Elements(Head(subsets))
  PROVE  source \cap (Ast[d].first .. RemovalEnd(e))
           \subseteq kept \ Hull(Head(subsets))
<1> DEFINE chunk == Head(subsets)
           a == chunk[1]
           z == chunk[Len(chunk)]
<1>1. IInv /\ InOrder /\ AllCollected /\ Parsed /\ source \in Text
  BY DEF FInv, IInv, TypeOK, TextTypeOK
<1>2. PICK k \in DOMAIN split(decls_, n) : chunk = split(decls_, n)[k]
  BY <1>1, HeadIsChunk
<1>3. /\ Elements(chunk) \subseteq Elements(decls_)
      /\ \A x \in Elements(decls_) \ Elements(chunk) : x < a \/ z < x
  BY <1>1, <1>2, ListFacts, SplitIncreasing
<1>4. a \in Elements(chunk) /\ z \in Elements(chunk)
  BY <1>1, <1>2, ListFacts, ChunkEnds
<1>5. source \cap (Ast[d].first .. RemovalEnd(e)) \subseteq kept
  BY DEF Solid
<1>6. Hull(chunk) = Ast[a].first .. RemovalEnd(z)
  BY DEF Hull
<1> HIDE DEF a, z, chunk
<1>7. \A x \in {a, z, d, e} : x \in Elements(decls)
  BY <1>1, <1>3, <1>4 DEF AllCollected
<1>8. \A x \in {a, z, d, e} :
        /\ x \in NodeId /\ Collected(x) /\ RemovalEnd(x) = WholeEnd(x)
        /\ x \in Nat /\ Ast[x].first \in Nat /\ RemovalEnd(x) \in Nat
  BY <1>1, <1>7, NodeFacts, ListedWhole, ExtentInFile,
     TransformationAssumption DEF Cells
<1>9. \A x \in {a, z} : ~(d < x /\ x < e) /\ x # d /\ x # e
  BY <1>4, <1>7 DEF chunk
<1>10. d < a \/ z < d
  BY <1>3 DEF chunk
<1>11. \/ RemovalEnd(e) < Ast[d].first
       \/ RemovalEnd(e) < Ast[a].first
       \/ RemovalEnd(z) < Ast[d].first
  BY <1>1, <1>8, <1>9, <1>10 DEF InOrder
<1>a. (Ast[d].first .. RemovalEnd(e)) \cap Hull(chunk) = {}
  BY <1>6, <1>8, <1>11
<1> QED BY <1>5, <1>a DEF chunk

\* The subsets of a round are chunks of its list.
LEMMA RefinedAreChunks ==
  ASSUME decls_ \in Seq(NodeId), n \in Nat \ {0},
         NEW s \in DOMAIN refineSubsets(split(decls_, n))
  PROVE  \E k \in DOMAIN split(decls_, n) :
           refineSubsets(split(decls_, n))[s] = split(decls_, n)[k]
<1> DEFINE all  == split(decls_, n)
           keep == {k \in DOMAIN all :
                      \A i \in DOMAIN all[k] : refList(all[k][i]) = {}}
<1>1. all \in Seq(Seq(NodeId))
  BY SplitChunks
<1>2. refineSubsets(all) = Select(all, keep) /\ keep \in SUBSET DOMAIN all
  BY DEF refineSubsets
<1> HIDE DEF all, keep
<1>3. \A i \in DOMAIN Select(all, keep) :
        Nth(keep, i) \in keep /\ Select(all, keep)[i] = all[Nth(keep, i)]
  BY <1>1, <1>2, SelectKeeps
<1> QED BY <1>2, <1>3 DEF all

\* Nothing has been removed before the pass.
LEMMA ExactInit == Init /\ Flat /\ Nesting(Len(decls)) => EInv
<1> SUFFICES ASSUME Init, Flat, Nesting(Len(decls)) PROVE EInv
  OBVIOUS
<1>1. FInv
  BY FlatInit
<1>2. pc = "start" /\ file = kept /\ file = source
  BY DEF Init, PassInit, TransformationInit
<1>3. Nested
  BY <1>2, DeclsListed DEF Nested
<1> QED BY <1>1, <1>2, <1>3 DEF EInv, Chunked, Solid, Exact

\* Every hull that is tested is text that was accepted, so that a revert
\* puts back what the test took, and nothing else.
LEMMA ExactStep == EInv /\ [Next]_vars => EInv'
<1> SUFFICES ASSUME EInv, [Next]_vars PROVE EInv'
  OBVIOUS
<1>1. /\ FInv /\ FInv' /\ IInv /\ IInv' /\ AllCollected
      /\ Nested /\ Chunked /\ Solid /\ Exact
      /\ source \in Text /\ file \in Text /\ kept \in Text
      /\ EditBuffer = file /\ file \subseteq source /\ kept \subseteq source
  BY FlatStep
     DEF EInv, FInv, IInv, TypeOK, TextTypeOK, Buffered, Within
<1>2. ASSUME source' = source
      PROVE  /\ decls' = decls
             /\ \A subset : Hull(subset)' = Hull(subset)
             /\ \A d : RemovalEnd(d)' = RemovalEnd(d)
  BY <1>2, SourceFixed, ExtentFixed
<1>3. SUFFICES Nested' /\ Chunked' /\ Solid' /\ Exact'
  BY <1>1 DEF EInv
<1>4. CASE Begin
  <2>1. /\ decls_' = decls' /\ n' = 2 /\ subsets' = <<>> /\ pc' = "round"
        /\ file' = file /\ kept' = kept /\ pc = "start" /\ source' = file
    BY <1>4 DEF Begin, Initialize, shared
  <2>2. decls' = Listed(file)
    BY <2>1, DeclsListed
  <2>3. Nests(Elements(decls'), decls', 2)
    <3>1. /\ decls' \in Seq(NodeId) /\ Increasing(decls')
          /\ NodeId \in SUBSET Nat
      BY <2>2, ListedFacts, NodeFacts
    <3>2. Gaps(Elements(decls'), decls') = {} /\ Len(decls') \in Nat
      BY <3>1, NoGapYet, LenProperties
    <3>3. Nesting(Len(decls'))
      BY <1>1, <2>1, <2>2 DEF Nested
    <3> QED BY <3>2, <3>3, NestsBegin DEF Nests
  <2>4. Chunked' /\ Nested'
    BY <2>1, <2>3 DEF Chunked, Nested
  <2>5. source' = kept'
    BY <1>1, <2>1 DEF Exact
  <2>6. Solid' /\ Exact'
    BY <2>1, <2>5 DEF Solid, Exact
  <2> QED BY <2>4, <2>6
<1>5. CASE StartRound
  <2>1. /\ decls_' = decls_ /\ n' = n /\ pc = "round" /\ pc' = "test"
        /\ file' = file /\ kept' = kept /\ source' = source
        /\ subsets' = refineSubsets(split(decls_, n))
    BY <1>5 DEF StartRound, textVars, shared
  <2>2. Chunked'
    BY <1>1, <1>2, <2>1, ListFacts, RefinedAreChunks DEF Chunked
  <2> QED BY <1>1, <1>2, <2>1, <2>2 DEF Nested, Solid, Exact
<1>6. CASE Test
  <2>1. /\ decls_' = decls_ /\ n' = n /\ subsets' = subsets
        /\ pc = "test" /\ pc' = "oracle" /\ subsets # <<>> /\ kept' = kept
        /\ source' = source /\ file' = file \ Hull(Head(subsets))
    BY <1>1, <1>6, EditsAreText DEF Test, writeToFile, CallOracle
  <2>2. source \cap Hull(Head(subsets)) \subseteq kept /\ file = kept
    BY <1>1, <2>1, HullIsKept DEF Exact
  <2> QED BY <1>1, <1>2, <2>1, <2>2 DEF Nested, Chunked, Solid, Exact
<1>7. CASE Accept
  <2> DEFINE chunk == Head(subsets)
  <2>1. /\ decls_' = difference(decls_, chunk) /\ n' = Larger(n - 1, 2)
        /\ subsets' = <<>> /\ pc = "oracle" /\ pc' = "round"
        /\ file' = file /\ kept' = file /\ source' = source /\ subsets # <<>>
    BY <1>1, <1>7 DEF Accept, OracleAccepts, IInv, UnderTest
  <2>2. Elements(decls_') = Elements(decls_) \ Elements(chunk)
    BY <1>1, <2>1, ListFacts, DifferenceRemoves
  <2>3. Chunked'
    <3>1. PICK k \in DOMAIN split(decls_, n) : chunk = split(decls_, n)[k]
      BY <1>1, <2>1, HeadIsChunk
    <3>2. Nests(Elements(decls), difference(decls_, split(decls_, n)[k]),
                Larger(n - 1, 2))
      BY <1>1, <2>1, ListFacts, NestsDropped DEF Chunked
    <3> QED BY <1>2, <2>1, <3>1, <3>2 DEF Chunked
  <2>4. file = kept \ Hull(chunk)
    BY <1>1, <2>1 DEF Exact
  <2>5. Solid'
    <3> HIDE DEF chunk
    <3> SUFFICES ASSUME NEW d \in Elements(decls_) \ Elements(chunk),
                        NEW e \in Elements(decls_) \ Elements(chunk),
                        \A x \in Elements(decls) : d < x /\ x < e =>
                          x \in Elements(decls_) \ Elements(chunk)
                 PROVE  source \cap (Ast[d].first .. RemovalEnd(e))
                          \subseteq kept \ Hull(chunk)
      BY <1>2, <2>1, <2>2, <2>4 DEF Solid
    <3> QED BY <1>1, <2>1, <2>4, SolidStays DEF chunk
  <2>6. Nested' /\ Exact'
    BY <2>1 DEF Nested, Exact
  <2> QED BY <2>3, <2>5, <2>6
<1>8. CASE Refuse
  <2>1. /\ decls_' = decls_ /\ n' = n /\ pc = "oracle" /\ pc' = "test"
        /\ kept' = kept /\ source' = source
        /\ subsets # <<>> /\ subsets' = Tail(subsets)
        /\ file' = (file \ Hull(Head(subsets)))
                     \cup (source \cap Hull(Head(subsets)))
    BY <1>1, <1>8, EditsAreText DEF Refuse, OracleRefuses, IInv, UnderTest
  <2>2. file' = kept
    BY <1>1, <2>1 DEF Exact
  <2>3. \A s \in DOMAIN subsets' :
          s + 1 \in DOMAIN subsets /\ subsets'[s] = subsets[s + 1]
    <3>1. subsets \in Seq(Seq(NodeId))
      BY <1>1 DEF IInv, TypeOK
    <3>2. /\ Tail(subsets) \in Seq(Seq(NodeId))
          /\ Len(Tail(subsets)) = Len(subsets) - 1
          /\ \A s \in 1 .. Len(Tail(subsets)) : Tail(subsets)[s] = subsets[s + 1]
      BY <2>1, <3>1, HeadTailProperties
    <3>3. /\ DOMAIN subsets = 1 .. Len(subsets) /\ Len(subsets) \in Nat
          /\ DOMAIN subsets' = 1 .. Len(subsets')
      BY <2>1, <3>1, <3>2, LenProperties
    <3> QED BY <2>1, <3>2, <3>3
  <2>4. Chunked'
    BY <1>1, <1>2, <2>1, <2>3 DEF Chunked
  <2> QED BY <1>1, <1>2, <2>1, <2>2, <2>4 DEF Nested, Solid, Exact
<1>9. CASE Refine
  <2>1. /\ decls_' = decls_ /\ n' = Smaller(n * 2, Len(decls_))
        /\ n # Len(decls_) /\ pc = "test" /\ pc' = "round"
        /\ subsets = <<>> /\ subsets' = subsets
        /\ file' = file /\ kept' = kept /\ source' = source /\ decls_ # <<>>
    BY <1>1, <1>9 DEF Refine, textVars, shared, IInv, UnderTest
  <2>2. Len(decls_) \in Nat \ {0}
    BY <1>1, <2>1, ListFacts, EmptySeq
  <2>3. Chunked'
    BY <1>1, <1>2, <2>1, <2>2, ListFacts, NestsRefine DEF Chunked, Nests
  <2> QED BY <1>1, <1>2, <2>1, <2>3 DEF Nested, Solid, Exact
<1>10. CASE Finish
  <2>1. /\ UNCHANGED <<source, file, kept, decls_, n, subsets>>
        /\ pc # "oracle" /\ pc' = "done" /\ pc # "start"
    BY <1>10 DEF Finish, textVars, shared
  <2> QED BY <1>1, <1>2, <2>1 DEF Nested, Chunked, Solid, Exact
<1>11. CASE UNCHANGED vars
  <2>1. UNCHANGED <<source, file, kept, decls_, n, subsets, pc>>
    BY <1>11 DEF vars, textVars, passVars, shared
  <2> QED BY <1>1, <1>2, <2>1 DEF Nested, Chunked, Solid, Exact
<1> QED BY <1>1, <1>4, <1>5, <1>6, <1>7, <1>8, <1>9, <1>10, <1>11 DEF Next

\* The invariant holds in all states of the pass.
LEMMA ExactAlways == Flat /\ Nesting(Len(decls)) /\ Spec => []EInv
<1> QED BY ExactInit, ExactStep, PTL DEF Spec

\* A failed test leaves no trace: when the declarations lie one behind the
\* other, and there are at most ten of them or a power of two, the file is
\* between two tests the text that the oracle accepted last, however it
\* answers.  With eleven declarations this is wrong (see the run global_gap).
THEOREM RevertsAreExact ==
  Flat /\ Nesting(Len(decls)) /\ Spec => []RevertRestores
<1>1. EInv => RevertRestores
  BY DEF EInv, Exact, RevertRestores, AtRest
<1> QED BY ExactAlways, <1>1, PTL

\* A source range does not end before it begins.
Forward == \A d \in NodeId : Ast[d].first <= Ast[d].last

Gone == pc # "start" =>
          \A d \in Elements(decls) \ Elements(decls_) :
            Extent(d) \cap kept = {}

GInv == EInv /\ Forward /\ Gone

\* What is removed of a declaration ends behind its beginning.
LEMMA EndForward ==
  ASSUME Forward, NEW text \in Text, NEW d \in NodeId
  PROVE  /\ Ast[d].first \in Nat /\ EndIn(text, d) \in Nat
         /\ Ast[d].first <= EndIn(text, d)
<1>1. /\ Ast[d].first \in Cells /\ Ast[d].last \in Cells
      /\ Ast[d].first <= Ast[d].last
  BY NodeFacts DEF Node, Forward
<1>2. Cells \subseteq Nat /\ \A c \in Cells : c <= NumCells
  BY TransformationAssumption DEF Cells
<1>3. SemiIn(text, Ast[d].last) >= Ast[d].last
  <2> DEFINE semis == {c \in Semis \cap text : c > Ast[d].last}
  <2>1. CASE semis = {}
    BY <1>1, <1>2, <2>1 DEF SemiIn
  <2>2. CASE semis # {}
    <3>1. semis \in SUBSET Nat
      BY <1>2, GlobalReductionAssumption
    <3>2. \E c \in semis : \A s \in semis : c <= s
      BY <2>2, <3>1, LeastMember
    <3>3. SemiIn(text, Ast[d].last) = CHOOSE c \in semis : \A s \in semis : c <= s
      BY <2>2 DEF SemiIn
    <3> HIDE DEF semis
    <3>4. SemiIn(text, Ast[d].last) \in semis
      BY <3>2, <3>3
    <3>5. /\ SemiIn(text, Ast[d].last) > Ast[d].last
          /\ SemiIn(text, Ast[d].last) \in Nat /\ Ast[d].last \in Nat
      BY <1>1, <1>2, <3>1, <3>4 DEF semis
    <3> QED BY <3>5
  <2> QED BY <2>1, <2>2
<1>4. EndIn(text, d) \in Nat /\ SemiIn(text, Ast[d].last) \in Nat
      /\ Ast[d].first \in Nat /\ Ast[d].last \in Nat
  BY <1>1, <1>2, EndInFile, SemiInFile
<1>5. EndIn(text, d) = Ast[d].last \/ EndIn(text, d) = SemiIn(text, Ast[d].last)
  BY DEF EndIn
<1> QED BY <1>1, <1>3, <1>4, <1>5

\* The hull of a subset covers all of its declarations.
LEMMA HullCovers ==
  ASSUME GInv, pc # "start", subsets # <<>>, NEW d \in Elements(Head(subsets))
  PROVE  Extent(d) \subseteq Hull(Head(subsets))
<1> DEFINE chunk == Head(subsets)
           a == chunk[1]
           z == chunk[Len(chunk)]
<1>1. /\ IInv /\ InOrder /\ AllCollected /\ Parsed /\ Chunked /\ Forward
      /\ source \in Text
  BY DEF GInv, EInv, FInv, IInv, TypeOK, TextTypeOK
<1>2. PICK k \in DOMAIN split(decls_, n) : chunk = split(decls_, n)[k]
  BY <1>1, HeadIsChunk
<1>3. Elements(chunk) \subseteq Elements(decls_)
  BY <1>1, <1>2, ListFacts, SplitIncreasing
<1>4. a \in Elements(chunk) /\ z \in Elements(chunk) /\ a <= d /\ d <= z
  BY <1>1, <1>2, ListFacts, ChunkEnds
<1>5. Hull(chunk) = Ast[a].first .. RemovalEnd(z)
  BY DEF Hull
<1> HIDE DEF a, z
<1>6. \A x \in {a, d, z} :
        /\ x \in NodeId /\ Collected(x) /\ x \in Nat
        /\ RemovalEnd(x) = WholeEnd(x)
        /\ Ast[x].first \in Nat /\ RemovalEnd(x) \in Nat
        /\ Ast[x].first <= RemovalEnd(x)
  <2>1. \A x \in {a, d, z} : x \in Elements(decls)
    BY <1>1, <1>3, <1>4 DEF AllCollected
  <2>2. \A x \in {a, d, z} :
          x \in NodeId /\ Collected(x) /\ RemovalEnd(x) = WholeEnd(x)
    BY <1>1, <2>1, ListedWhole
  <2>3. \A x \in {a, d, z} :
          /\ Ast[x].first \in Nat /\ RemovalEnd(x) \in Nat
          /\ Ast[x].first <= RemovalEnd(x)
    BY <1>1, <2>2, EndForward, EndsParsed
  <2> QED BY <2>2, <2>3, NodeFacts
<1>7. Ast[a].first <= Ast[d].first
  <2>1. a < d => RemovalEnd(a) < Ast[d].first
    BY <1>1, <1>6 DEF InOrder
  <2> QED BY <1>4, <1>6, <2>1
<1>8. RemovalEnd(d) <= RemovalEnd(z)
  <2>1. d < z => RemovalEnd(d) < Ast[z].first
    BY <1>1, <1>6 DEF InOrder
  <2> QED BY <1>4, <1>6, <2>1
<1> HIDE DEF chunk
<1>9. Ast[d].first .. RemovalEnd(d) \subseteq Ast[a].first .. RemovalEnd(z)
  BY <1>6, <1>7, <1>8
<1> QED BY <1>5, <1>9 DEF Extent, chunk

\* What an accepted hull took is never put back.
LEMMA GoneStep == GInv /\ [Next]_vars => GInv'
<1> SUFFICES ASSUME GInv, [Next]_vars PROVE Gone'
  BY ExactStep DEF GInv, Forward
<1>1. IInv /\ EInv /\ Gone /\ Exact
  BY DEF GInv, EInv, FInv
<1>2. source' = source => decls' = decls /\ \A d : Extent(d)' = Extent(d)
  BY SourceFixed, ExtentFixed
<1>3. CASE Begin
  BY <1>3 DEF Begin, Gone
<1>4. CASE Accept
  <2>1. /\ decls_' = difference(decls_, Head(subsets))
        /\ pc = "oracle" /\ kept' = file /\ subsets # <<>>
        /\ source' = source
    BY <1>1, <1>4 DEF Accept, OracleAccepts, IInv, UnderTest
  <2>2. Elements(decls_') = Elements(decls_) \ Elements(Head(subsets))
    BY <1>1, <2>1, ListFacts, DifferenceRemoves
  <2>3. kept' = kept \ Hull(Head(subsets))
    BY <1>1, <2>1 DEF Exact
  <2>4. \A d \in Elements(Head(subsets)) :
          Extent(d) \subseteq Hull(Head(subsets))
    BY <2>1, HullCovers
  <2> QED BY <1>1, <1>2, <2>1, <2>2, <2>3, <2>4 DEF Gone
<1>5. CASE \/ StartRound \/ Test \/ Refuse \/ Refine \/ Finish
           \/ UNCHANGED vars
  <2>1. /\ decls_' = decls_ /\ kept' = kept /\ source' = source
        /\ (pc # "start" \/ UNCHANGED pc)
    BY <1>5 DEF StartRound, Test, CallOracle, Refuse, OracleRefuses, Refine,
                Finish, vars, passVars, textVars, shared
  <2> QED BY <1>1, <1>2, <2>1 DEF Gone
<1> QED BY <1>3, <1>4, <1>5 DEF Next

\* A declaration that ddmin has dropped from its list is gone from the file
\* between two tests, all of it: no later revert brings a part of it back.
THEOREM RemovedStay ==
  Flat /\ Forward /\ Nesting(Len(decls)) /\ Spec => []RemovedStaysRemoved
<1>1. Init /\ Flat /\ Forward /\ Nesting(Len(decls)) => GInv
  <2> SUFFICES ASSUME Init, Flat, Forward, Nesting(Len(decls)) PROVE Gone
    BY ExactInit DEF GInv
  <2> QED BY DEF Init, PassInit, Gone
<1>2. GInv => RemovedStaysRemoved
  BY DEF GInv, EInv, Exact, Gone, RemovedStaysRemoved, AtRest
<1> QED BY GoneStep, <1>1, <1>2, PTL DEF Spec
=============================================================================
