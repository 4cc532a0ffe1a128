-------------------------- MODULE ChiselGlobal_proof --------------------------
(***************************************************************************)
(* The main loop with the global pass alone: what each turn achieves, it   *)
(* achieves on a text that earlier turns have left, and so the whole loop  *)
(* ends where one turn on the original program would not.                  *)
(*                                                                         *)
(* The proofs of the pass are about GlobalReduction, and the main loop has *)
(* an instance of it; that the two are the same comes first.               *)
(***************************************************************************)
EXTENDS ChiselGlobal, GlobalReduction_proof

\* The vectors of the pass in the main loop are those of the pass.
LEMMA SameVectors ==
  /\ \A S : C!Global!Cardinality(S) = Cardinality(S)
  /\ \A S : C!Global!Enumerate(S) = Enumerate(S)
  /\ \A vec, parts : C!Global!split(vec, parts) = split(vec, parts)
  /\ \A vec, keep : C!Global!Select(vec, keep) = Select(vec, keep)
  /\ \A a, b : C!Global!difference(a, b) = difference(a, b)
<1>1. \A S : C!Global!Cardinality(S) = Cardinality(S)
  BY DEF C!Global!Cardinality, Cardinality
<1>2. \A S, k : C!Global!Nth(S, k) = Nth(S, k)
  BY <1>1 DEF C!Global!Nth, C!Global!Rank, Nth, Rank
<1>3. \A S : C!Global!Enumerate(S) = Enumerate(S)
  BY <1>1, <1>2 DEF C!Global!Enumerate, Enumerate
<1>4. \A vec, keep : C!Global!Select(vec, keep) = Select(vec, keep)
  BY <1>1, <1>2 DEF C!Global!Select, Select
<1>5. \A vec, parts : C!Global!split(vec, parts) = split(vec, parts)
  BY DEF C!Global!split, split, C!Global!Smaller, Smaller, C!Global!ChunkEnd,
         ChunkEnd
<1>6. \A a, b : C!Global!difference(a, b) = difference(a, b)
  BY <1>4 DEF C!Global!difference, difference, C!Global!contains, contains
<1> QED BY <1>1, <1>3, <1>4, <1>5, <1>6

\* So is what it collects and what it takes from a text.
LEMMA SameText ==
  /\ C!Global!NodeId = NodeId /\ C!Global!Cells = Cells
  /\ \A d : C!Global!Collected(d) = Collected(d)
  /\ C!Global!decls = decls /\ C!Global!decls' = decls'
  /\ \A d : C!Global!refList(d) = refList(d)
  /\ \A subset : C!Global!Hull(subset) = Hull(subset)
  /\ \A all : C!Global!refineSubsets(all) = refineSubsets(all)
<1>1. C!Global!NodeId = NodeId /\ C!Global!Cells = Cells
  BY DEF C!Global!NodeId, NodeId, C!Global!Cells, Cells
<1>2. /\ C!Global!Visited = Visited /\ C!Global!Visited' = Visited'
  BY <1>1 DEF C!Global!Visited, Visited
<1>3. \A d : C!Global!Collected(d) = Collected(d)
  BY DEF C!Global!Collected, Collected
<1>4. C!Global!decls = decls
  BY <1>2, <1>3, SameVectors DEF C!Global!decls, decls
<1>5. C!Global!decls' = decls'
  BY <1>2, <1>3, SameVectors DEF C!Global!decls, decls
<1>6. \A d : C!Global!refList(d) = refList(d)
  BY <1>2 DEF C!Global!refList, refList, C!Global!CountsReferences,
              CountsReferences
<1>7. \A subset : C!Global!Hull(subset) = Hull(subset)
  BY DEF C!Global!Hull, Hull, C!Global!RemovalEnd, RemovalEnd,
         C!Global!NextSemi, NextSemi
<1>8. \A all : C!Global!refineSubsets(all) = refineSubsets(all)
  BY <1>6, SameVectors DEF C!Global!refineSubsets, refineSubsets
<1> QED BY <1>1, <1>3, <1>4, <1>5, <1>6, <1>7, <1>8

\* A step that the global pass makes in the main loop is one of its own.
LEMMA SameSteps ==
  /\ C!Global!Next => Next
  /\ C!Global!Init => Init
<1>1. C!Global!Begin => Begin
  BY SameText DEF C!Global!Begin, Begin, C!Global!Initialize, Initialize,
     C!Global!shared, shared
<1>2. C!Global!StartRound => StartRound
  BY SameText, SameVectors DEF C!Global!StartRound, StartRound,
     C!Global!textVars, textVars, C!Global!shared, shared
<1>3. C!Global!EditBuffer = EditBuffer
  BY DEF C!Global!EditBuffer, EditBuffer
<1>4. C!Global!Test => Test
  BY <1>3, SameText DEF C!Global!Test, Test, C!Global!writeToFile, writeToFile,
     C!Global!Blank, Blank, C!Global!ReplaceText, ReplaceText,
     C!Global!placeholder, placeholder, C!Global!CallOracle, CallOracle,
     C!Global!Increment, Increment, C!Global!CounterOf, CounterOf,
     C!Global!Smaller, Smaller
<1>5. \A msg : C!Global!OracleAccepts(msg) => OracleAccepts(msg)
  BY <1>3 DEF C!Global!OracleAccepts, OracleAccepts, C!Global!Increment,
     Increment, C!Global!CounterOf, CounterOf, C!Global!Smaller, Smaller,
     C!Global!SaveTempFile, SaveTempFile, C!Global!SaveCopy, SaveCopy,
     C!Global!TempName, TempName, C!Global!TotalCalls, TotalCalls
<1>6. C!Global!Accept => Accept
  BY <1>5, SameVectors DEF C!Global!Accept, Accept, C!Global!Larger, Larger
<1>7. \A msg : C!Global!OracleRefuses(msg) => OracleRefuses(msg)
  BY <1>3 DEF C!Global!OracleRefuses, OracleRefuses,
     C!Global!SaveTempFile, SaveTempFile, C!Global!SaveCopy, SaveCopy,
     C!Global!TempName, TempName, C!Global!TotalCalls, TotalCalls
<1>8. C!Global!Refuse => Refuse
  BY <1>3, <1>7, SameText DEF C!Global!Refuse, Refuse, C!Global!Restore,
     Restore, C!Global!ReplaceText, ReplaceText, C!Global!getSourceText,
     getSourceText
<1>9. C!Global!Refine => Refine
  BY DEF C!Global!Refine, Refine, C!Global!Smaller, Smaller,
     C!Global!textVars, textVars, C!Global!shared, shared
<1>10. C!Global!Finish => Finish
  BY DEF C!Global!Finish, Finish, C!Global!textVars, textVars,
     C!Global!shared, shared
<1>11. C!Global!Init => Init
  BY SameText DEF C!Global!Init, Init, C!Global!TransformationInit,
     TransformationInit, C!Global!PassInit, PassInit, C!Global!Counters, Counters
<1> QED
  BY <1>1, <1>2, <1>4, <1>6, <1>8, <1>9, <1>10, <1>11
  DEF C!Global!Next, Next
-----------------------------------------------------------------------------
(***************************************************************************)
(* What the pass leaves, when it is done, it can be given again: the       *)
(* declarations of the file are those of its list, and they are whole.     *)
(***************************************************************************)
\* Every list of declarations that main can come to is one that ddmin cuts
\* without a gap.
Few == Cardinality({d \in NodeId : Collected(d)}) <= 10

\* There are no more declarations in a text than in the program.
LEMMA FewNest ==
  ASSUME Few, NEW text
  PROVE  Nesting(Len(Listed(text)))
<1> DEFINE S   == {d \in NodeId : Ast[d].first \in text /\ Collected(d)}
           all == {d \in NodeId : Collected(d)}
<1>1. S \in SUBSET all /\ all \in SUBSET NodeId
  OBVIOUS
<1>2. IsFiniteSet(all)
  BY <1>1, NodeFacts, FS_Subset
<1>3. /\ Cardinality(S) \in Nat /\ Cardinality(all) \in Nat
      /\ Cardinality(S) <= Cardinality(all)
  BY <1>1, <1>2, FS_Subset, FS_CardinalityType
<1>4. Len(Listed(text)) = Cardinality(S)
  <2>1. Listed(text) = [k \in 1 .. Cardinality(S) |-> Nth(S, k)]
    BY DEF Listed, Enumerate
  <2>2. Listed(text) \in Seq(NodeId)
    BY ListedFacts
  <2>3. Len(Listed(text)) \in Nat /\ DOMAIN Listed(text) = 1 .. Len(Listed(text))
    BY <2>2, LenProperties
  <2>4. DOMAIN Listed(text) = 1 .. Cardinality(S)
    BY <2>1
  <2> HIDE DEF S
  <2> QED BY <1>3, <2>3, <2>4
<1> HIDE DEF S, all
<1>5. Cardinality(all) <= 10
  BY DEF Few, all
<1> QED BY <1>3, <1>4, <1>5 DEF Nesting

\* A declaration that is whole in a text ends there where it ends in the
\* program.
LEMMA EndStays ==
  ASSUME Forward, NEW text \in Text, NEW d \in NodeId,
         WholeExtent(d) \subseteq text
  PROVE  EndIn(text, d) = WholeEnd(d)
<1>1. CASE Ast[d].kind = "function" /\ Ast[d].def
  BY <1>1 DEF EndIn, WholeEnd
<1>2. CASE ~(Ast[d].kind = "function" /\ Ast[d].def)
  <2> DEFINE after   == Ast[d].last
             here    == {c \in Semis \cap text : c > after}
             program == {c \in Semis \cap Cells : c > after}
  <2>1. Cells \in Text /\ Cells \in SUBSET Nat /\ text \subseteq Cells
    BY TransformationAssumption DEF Text, Cells
  <2>2. /\ Ast[d].first \in Nat /\ WholeEnd(d) \in Nat
        /\ Ast[d].first <= WholeEnd(d)
    BY <2>1, EndForward DEF WholeEnd
  <2>3. WholeEnd(d) \in text
    BY <2>2 DEF WholeExtent
  <2>4. WholeEnd(d) = SemiIn(Cells, after) /\ EndIn(text, d) = SemiIn(text, after)
    BY <1>2 DEF WholeEnd, EndIn
  <2>5. here \subseteq program
    BY <2>1
  <2>6. CASE program = {}
    BY <2>4, <2>5, <2>6 DEF SemiIn
  <2>7. CASE program # {}
    <3>1. program \in SUBSET Nat
      BY <2>1
    <3>2. \E c \in program : \A s \in program : c <= s
      BY <2>7, <3>1, LeastMember
    <3>3. SemiIn(Cells, after) =
            CHOOSE c \in program : \A s \in program : c <= s
      BY <2>7 DEF SemiIn
    <3>4. /\ SemiIn(Cells, after) \in program
          /\ \A s \in program : SemiIn(Cells, after) <= s
      <4> HIDE DEF program
      <4> QED BY <3>2, <3>3
    <3>5. SemiIn(Cells, after) \in here
      BY <2>3, <2>4, <3>4
    <3>6. /\ SemiIn(text, after) =
               CHOOSE c \in here : \A s \in here : c <= s
          /\ here \in SUBSET Nat
      BY <2>5, <3>1, <3>5 DEF SemiIn
    <3>7. \E c \in here : \A s \in here : c <= s
      BY <3>5, <3>6, LeastMember
    <3>8. /\ SemiIn(text, after) \in here
          /\ \A s \in here : SemiIn(text, after) <= s
      <4> HIDE DEF here
      <4> QED BY <3>6, <3>7
    <3>9. SemiIn(text, after) \in program
      BY <2>5, <3>8
    <3> DEFINE h == SemiIn(text, after)
               p == SemiIn(Cells, after)
    <3>10. h <= p /\ p <= h
      BY <3>4, <3>5, <3>8, <3>9
    <3>11. h \in Nat /\ p \in Nat
      BY <3>1, <3>4, <3>9
    <3> HIDE DEF h, p
    <3>12. h = p
      BY <3>10, <3>11
    <3> QED BY <2>4, <3>12 DEF h, p
  <2> QED BY <2>6, <2>7
<1> QED BY <1>1, <1>2

\* Between two tests a declaration whose beginning is in the file is still in
\* the list, and whole.
LEMMA VisibleIsWhole ==
  ASSUME GInv, AtRest, pc # "start",
         NEW d \in NodeId, Collected(d), Ast[d].first \in file
  PROVE  d \in Elements(decls_) /\ WholeExtent(d) \subseteq file
<1>1. /\ FInv /\ Gone /\ Exact /\ Forward /\ AllCollected /\ Parsed /\ Intact
      /\ file \subseteq source /\ source \in Text
  BY DEF GInv, EInv, FInv, IInv, Within, TypeOK, TextTypeOK
<1>2. d \in Elements(decls) /\ file = kept
  BY <1>1, DeclsFacts DEF Visited, Exact, AtRest
<1>3. Ast[d].first \in Extent(d)
  <2>1. /\ Ast[d].first \in Nat /\ RemovalEnd(d) \in Nat
        /\ Ast[d].first <= RemovalEnd(d)
    BY <1>1, EndForward, EndsParsed
  <2> QED BY <2>1 DEF Extent
<1>4. d \in Elements(decls_)
  BY <1>1, <1>2, <1>3 DEF Gone
<1>5. Extent(d) \subseteq file
  BY <1>1, <1>4 DEF Intact, AtRest
<1> QED BY <1>1, <1>2, <1>4, <1>5, ListedWhole

\* The pass object is left as it is when the pass returns: what holds of every
\* program and every layout holds for the next turn.
LEMMA PassKept ==
  ASSUME IInv, pc = "done", pc' = "start",
         UNCHANGED <<textVars, decls_, n, subsets>>
  PROVE  IInv'
<1>1. UNCHANGED <<source, edits, file, calls, successes, saved, passed, failed,
                  kept, decls_, n, subsets>>
  BY DEF textVars, shared
<1>2. TypeOK'
  BY <1>1 DEF IInv, TypeOK, TextTypeOK, EditBuffer
<1>3. Within' /\ Buffered' /\ UnderTest' /\ ListOrdered'
  BY <1>1 DEF IInv, Within, Buffered, UnderTest, EditBuffer, ListOrdered
<1>4. SubsetsSafe' /\ Segments'
  BY <1>1, SourceFixed DEF IInv, SubsetsSafe, Segments, Segment
<1>5. OnlyHullMissing'
  BY <1>1 DEF IInv, OnlyHullMissing
<1> QED BY <1>2, <1>3, <1>4, <1>5 DEF IInv

\* The pass can begin on what it has left.
LEMMA PassReturns ==
  ASSUME GInv, Minimal, Few, pc = "done", pc' = "start",
         UNCHANGED <<textVars, decls_, n, subsets>>
  PROVE  GInv' /\ Minimal'
<1>1. /\ FInv /\ IInv /\ InOrder /\ AllCollected /\ Parsed /\ Intact
      /\ Exact /\ Forward /\ file \in Text
  BY DEF GInv, EInv, FInv, IInv, TypeOK, TextTypeOK
<1>2. /\ UNCHANGED <<source, edits, file, calls, successes, saved, passed>>
      /\ UNCHANGED <<failed, kept, decls_, n, subsets>>
  BY DEF textVars, shared
<1>3. /\ \A d : refList(d)' = refList(d) /\ decls' = decls
      /\ \A subset : Hull(subset)' = Hull(subset)
      /\ \A d : Extent(d)' = Extent(d)
  BY <1>2, SourceFixed, ExtentFixed
<1>4. IInv'
  BY <1>1, PassKept
<1>5. WholeIn(file)
  <2>1. ASSUME NEW d \in NodeId, Collected(d), Ast[d].first \in file
        PROVE  EndIn(file, d) = WholeEnd(d) /\ WholeExtent(d) \subseteq file
    <3>1. WholeExtent(d) \subseteq file
      BY <2>1, VisibleIsWhole DEF AtRest
    <3> QED BY <1>1, <3>1, EndStays
  <2> QED BY <2>1 DEF WholeIn
<1>6. Parsed'
  BY <1>1, <1>2, <1>5 DEF Parsed
<1>7. InOrder'
  BY <1>1 DEF InOrder, WholeEnd, EndIn, SemiIn, Cells, Collected, NodeId
<1>8. FInv'
  BY <1>1, <1>2, <1>3, <1>4, <1>6, <1>7 DEF FInv, AllCollected, Intact
<1>9. Nested' /\ Exact' /\ Chunked' /\ Solid' /\ Gone'
  BY <1>1, <1>2, FewNest DEF Nested, Exact, Chunked, Solid, Gone
<1>10. Minimal'
  BY DEF Minimal, LastRound, OneMinimal
<1> QED BY <1>1, <1>8, <1>9, <1>10 DEF GInv, EInv, Forward
-----------------------------------------------------------------------------
(***************************************************************************)
(* The inductive invariant of the main loop.  Until the process dies, what *)
(* the pass relies on holds from turn to turn (Alive).  In an iteration    *)
(* wc0 counts the text that the pass parses, and what the pass has refused *)
(* at its end is still refused when the loop ends (Settled).               *)
(***************************************************************************)
\* The local pass gets no turn.
OneTurn ==
  /\ mainPc \in {"static", "loop", "turn", "initialize", "transform",
                 "finalize", "exit", "killed"}
  /\ localPc = "start"
  /\ CurrentTransformationImpl # "local-reduction"
  /\ ClangInstance # "local-reduction"
  /\ \/ turns = <<>>
     \/ turns = <<"global-reduction">> /\ ~SkipGlobal
  /\ mainPc \in {"initialize", "transform"} => turns # <<>>
  /\ pc # "start" => mainPc \in {"transform", "killed"}

Alive == GInv /\ Minimal

\* The global pass of this iteration has parsed the file.
HasParsed == pc # "start" \/ (turns = <<>> /\ ~SkipGlobal)
Words ==
  mainPc \in {"turn", "initialize", "transform"} =>
    wc0 = Cardinality(IF HasParsed THEN source ELSE file)

Settled ==
  ~SkipGlobal =>
    /\ mainPc \in {"finalize", "exit"} => file = source
    /\ mainPc \in {"finalize", "exit"} \/ (mainPc = "turn" /\ turns = <<>>) =>
         \A d \in NodeId :
           /\ Collected(d) /\ Ast[d].first \in file
           /\ refList(d) = {}
           => file \ Hull(<<d>>) \in failed

LInv ==
  /\ Few
  /\ OneTurn
  /\ mainPc # "killed" => Alive /\ Words /\ Settled

\* Whatever a step does, the local pass still has no turn to come.
LEMMA OneTurnStep == OneTurn /\ [C!Next]_C!vars => OneTurn'
<1> SUFFICES ASSUME OneTurn, [C!Next]_C!vars PROVE OneTurn'
  OBVIOUS
<1> USE DEF OneTurn
<1>1. CASE C!Fault
  BY <1>1 DEF C!Fault, C!Kill, C!TornWrite, C!KilledSaving, C!Die,
     C!globalVars, C!localVars, C!managerVars
<1>2. CASE UNCHANGED C!vars
  BY <1>2 DEF C!vars, C!globalVars, C!localVars, C!managerVars, C!mainVars
<1>3. CASE \/ \E name \in C!Manager!Passes : C!Register(name)
           \/ C!Main
  <2>1. /\ mainPc = "static" /\ mainPc' \in {"static", "loop"}
        /\ UNCHANGED <<turns, pc, localPc>>
        /\ UNCHANGED <<CurrentTransformationImpl, ClangInstance>>
    BY <1>3 DEF C!Register, C!Main, C!mainVars, C!globalVars, C!localVars,
       C!Manager!registerTransformation, C!Manager!GetInstance
  <2> QED BY <2>1
<1>4. CASE C!BeginIteration
  BY <1>4 DEF C!BeginIteration, C!Turns, C!globalVars, C!localVars,
     C!managerVars
<1>5. CASE C!SetTransformation
  <2>1. /\ mainPc = "turn" /\ mainPc' = "initialize" /\ turns # <<>>
        /\ CurrentTransformationImpl' \in
             {Head(turns), CurrentTransformationImpl}
        /\ UNCHANGED <<turns, pc, localPc, ClangInstance>>
    BY <1>5 DEF C!SetTransformation, C!Manager!setTransformation,
       C!globalVars, C!localVars
  <2>2. Head(turns) = "global-reduction"
    BY <2>1
  <2> QED BY <2>1, <2>2
<1>6. CASE C!InitializeCompilerInstance
  BY <1>6 DEF C!InitializeCompilerInstance, C!globalVars, C!localVars,
     C!Manager!initializeCompilerInstance
<1>7. CASE C!GlobalPass
  BY <1>7 DEF C!GlobalPass, C!DoTransformation, C!mainVars, C!localVars,
     C!managerVars, C!Manager!ParseAST
<1>8. CASE C!PassDone
  <2>1. /\ pc' = "start" /\ localPc' = localPc /\ mainPc' = "turn"
        /\ turns' = <<>>
        /\ UNCHANGED <<CurrentTransformationImpl, ClangInstance>>
    BY <1>8 DEF C!PassDone, C!managerVars
  <2> QED BY <2>1
<1>9. CASE C!EndIteration
  BY <1>9 DEF C!EndIteration, C!globalVars, C!localVars, C!managerVars
<1>10. CASE C!Finalize
  BY <1>10 DEF C!Finalize, C!Manager!Finalize, C!globalVars, C!localVars
<1>11. ~C!LocalPass
  BY DEF C!LocalPass
<1> QED
  BY <1>1, <1>2, <1>3, <1>4, <1>5, <1>6, <1>7, <1>8, <1>9, <1>10, <1>11
  DEF C!Next, C!Step

\* Between two tests and during them, the file is a part of what was parsed.
LEMMA FileShrinks ==
  ASSUME Alive
  PROVE  /\ file \subseteq source /\ IsFiniteSet(source)
         /\ Cardinality(file) \in Nat /\ Cardinality(source) \in Nat
         /\ Cardinality(file) <= Cardinality(source)
<1>1. file \subseteq source /\ source \in Text
  BY DEF Alive, GInv, EInv, FInv, IInv, Within, TypeOK, TextTypeOK
<1>2. IsFiniteSet(Cells)
  BY FS_Interval, TransformationAssumption DEF Cells
<1>3. IsFiniteSet(source)
  BY <1>1, <1>2, FS_Subset DEF Text
<1> QED BY <1>1, <1>3, FS_Subset, FS_CardinalityType

\* When the pass is done, the oracle has refused the file without each of the
\* declarations in it that nothing refers to.
LEMMA DoneSettles ==
  ASSUME Alive, pc = "done", NEW d \in NodeId,
         Collected(d), Ast[d].first \in file, refList(d) = {}
  PROVE  file \ Hull(<<d>>) \in failed
<1>1. d \in Elements(decls_)
  BY VisibleIsWhole DEF Alive, AtRest
<1> QED BY <1>1 DEF Alive, Minimal, OneMinimal

LEMMA LoopInit == Few /\ Forward /\ Flat /\ C!Init => LInv
<1> SUFFICES ASSUME Few, Forward, Flat, C!Init PROVE LInv
  OBVIOUS
<1>1. Init
  BY SameSteps DEF C!Init
<1>2. /\ mainPc = "static" /\ turns = <<>> /\ localPc = "start"
      /\ CurrentTransformationImpl = "none" /\ ClangInstance = "none"
      /\ pc = "start"
  BY <1>1 DEF C!Init, C!Local!PassInit, C!Manager!Init, Init, PassInit
<1>3. EInv
  <2>1. FInv /\ file = source /\ file = kept
    BY <1>1, FlatInit DEF Init, TransformationInit
  <2> QED BY <1>2, <2>1, FewNest DEF EInv, Nested, Chunked, Solid, Exact
<1>4. Alive
  BY <1>2, <1>3 DEF Alive, GInv, Gone, Minimal, LastRound, OneMinimal
<1> QED BY <1>2, <1>4 DEF LInv, OneTurn, Words, Settled

\* Main itself and the faults leave the pass alone.
LEMMA AliveStays ==
  ASSUME Alive, [Next]_vars
  PROVE  Alive'
BY GoneStep, MinimalStep DEF Alive, MInv, GInv, EInv

\* The pass runs for as long as main is in its turn, and only the file it
\* parses first is what wc0 has counted.
LEMMA GlobalPassStep == LInv /\ C!GlobalPass => LInv'
<1> SUFFICES ASSUME LInv, C!GlobalPass PROVE LInv'
  OBVIOUS
<1>1. /\ Next /\ mainPc = "transform"
      /\ UNCHANGED <<mainPc, turns, wc0, localPc>>
      /\ UNCHANGED <<CurrentTransformationImpl, ClangInstance>>
  BY SameSteps DEF C!GlobalPass, C!DoTransformation, C!mainVars, C!localVars,
     C!managerVars, C!Manager!ParseAST
<1>2. OneTurn /\ Alive /\ Words /\ ~SkipGlobal
  BY <1>1 DEF LInv, OneTurn
<1>3. Alive'
  BY <1>1, <1>2, AliveStays
<1>4. pc' # "start"
  BY <1>1 DEF Next, Begin, StartRound, Test, Accept, Refuse, Refine, Finish
<1>5. source' = IF pc = "start" THEN file ELSE source
  BY <1>1 DEF Next, Begin, Initialize, StartRound, Test, Accept, Refuse, Refine,
     Finish, textVars
<1>6. OneTurn'
  BY <1>2, OneTurnStep DEF C!Next, C!Step
<1>7. Words'
  BY <1>1, <1>2, <1>4, <1>5 DEF Words, HasParsed, OneTurn
<1>8. Settled'
  BY <1>1, <1>2 DEF Settled, OneTurn
<1> QED BY <1>1, <1>3, <1>6, <1>7, <1>8 DEF LInv, Few, Collected, NodeId

\* The pass returns with the file that it has refused to make smaller.
LEMMA PassDoneStep == LInv /\ C!PassDone => LInv'
<1> SUFFICES ASSUME LInv, C!PassDone PROVE LInv'
  OBVIOUS
<1>1. OneTurn /\ Alive /\ Words /\ Few /\ turns = <<"global-reduction">>
      /\ ~SkipGlobal
  BY DEF LInv, OneTurn, C!PassDone
<1>2. /\ pc = "done" /\ pc' = "start" /\ localPc' = localPc
      /\ mainPc' = "turn" /\ turns' = <<>> /\ wc0' = wc0
      /\ mainPc = "transform"
      /\ UNCHANGED <<textVars, decls_, n, subsets>>
      /\ UNCHANGED <<CurrentTransformationImpl, ClangInstance>>
  BY <1>1 DEF C!PassDone, OneTurn, C!shared, C!managerVars, textVars, shared
<1>3. Alive'
  BY <1>1, <1>2, PassReturns DEF Alive
<1>4. /\ UNCHANGED <<source, file, failed>>
      /\ \A d : refList(d)' = refList(d)
      /\ \A subset : Hull(subset)' = Hull(subset)
  BY <1>2, SourceFixed DEF textVars, shared
<1>5. OneTurn'
  BY <1>1, OneTurnStep DEF C!Next, C!Step
<1>6. Words'
  BY <1>1, <1>2, <1>4 DEF Words, HasParsed
<1>7. Settled'
  <2> SUFFICES ASSUME NEW d \in NodeId, Collected(d), Ast[d].first \in file,
                      refList(d) = {}
               PROVE  file \ Hull(<<d>>) \in failed
    BY <1>2, <1>4 DEF Settled, NodeId, Collected
  <2> QED BY <1>1, <1>2, DoneSettles
<1> QED BY <1>3, <1>5, <1>6, <1>7 DEF LInv, Few, Collected, NodeId

\* The steps of main, and a death: the pass does not move.
LEMMA MainKeepsPass ==
  ASSUME LInv, UNCHANGED C!shared, UNCHANGED C!globalVars,
         OneTurn', mainPc # "killed", Words', Settled'
  PROVE  LInv'
<1>1. UNCHANGED vars
  BY DEF C!shared, C!globalVars, vars, textVars, passVars, shared
<1>2. Alive'
  BY <1>1, AliveStays DEF LInv
<1> QED BY <1>2 DEF LInv, Few, Collected, NodeId

\* The steps of main choose the turns, and count the words of the file that
\* the pass is about to parse.
LEMMA MainStep ==
  ASSUME LInv,
         \/ \E name \in C!Manager!Passes : C!Register(name)
         \/ C!Main \/ C!BeginIteration \/ C!SetTransformation
         \/ C!InitializeCompilerInstance \/ C!EndIteration \/ C!Finalize
  PROVE  LInv'
<1>1. /\ UNCHANGED C!shared /\ UNCHANGED C!globalVars /\ UNCHANGED C!localVars
  BY DEF C!Register, C!Main, C!BeginIteration, C!SetTransformation,
     C!InitializeCompilerInstance, C!EndIteration, C!Finalize
<1>2. /\ UNCHANGED <<source, file, failed, pc, localPc>>
      /\ \A d : refList(d)' = refList(d)
      /\ \A subset : Hull(subset)' = Hull(subset)
  BY <1>1, SourceFixed DEF C!shared, C!globalVars, C!localVars
<1>3. mainPc # "killed" /\ mainPc # "transform"
  BY DEF C!Register, C!Main, C!BeginIteration, C!SetTransformation,
     C!InitializeCompilerInstance, C!EndIteration, C!Finalize
<1>4. /\ OneTurn /\ Words /\ Settled /\ pc = "start"
      /\ OneTurn'
  BY <1>3, OneTurnStep DEF LInv, OneTurn, C!Next, C!Step
<1>5. \A text : C!getWordCount(text) = Cardinality(text)
  BY DEF C!getWordCount, C!Cardinality, Cardinality
<1>6. CASE \/ \E name \in C!Manager!Passes : C!Register(name)
           \/ C!Main
  <2>1. /\ mainPc = "static" /\ mainPc' \in {"static", "loop"}
        /\ UNCHANGED <<turns, wc0, CurrentTransformationImpl, ClangInstance>>
    BY <1>6 DEF C!Register, C!Main, C!mainVars,
       C!Manager!registerTransformation, C!Manager!GetInstance
  <2>2. Words' /\ Settled'
    BY <1>2, <1>4, <2>1 DEF OneTurn, Words, Settled
  <2> QED BY <1>1, <1>3, <1>4, <2>2, MainKeepsPass
<1>7. CASE C!BeginIteration
  <2>1. /\ mainPc = "loop" /\ mainPc' = "turn" /\ wc0' = Cardinality(file)
        /\ turns' = IF SkipGlobal THEN <<>> ELSE <<"global-reduction">>
        /\ UNCHANGED <<CurrentTransformationImpl, ClangInstance>>
    BY <1>4, <1>5, <1>7 DEF C!BeginIteration, C!Turns, C!managerVars
  <2>2. Words' /\ Settled'
    BY <1>2, <1>4, <2>1 DEF OneTurn, Words, HasParsed, Settled
  <2> QED BY <1>1, <1>3, <1>4, <2>2, MainKeepsPass
<1>8. CASE C!SetTransformation
  <2>1. /\ mainPc = "turn" /\ mainPc' = "initialize" /\ turns # <<>>
        /\ CurrentTransformationImpl' \in
             {Head(turns), CurrentTransformationImpl}
        /\ UNCHANGED <<turns, wc0, ClangInstance>>
    BY <1>8 DEF C!SetTransformation, C!Manager!setTransformation
  <2>2. Head(turns) = "global-reduction"
    BY <1>4, <2>1 DEF OneTurn
  <2>3. Words' /\ Settled'
    BY <1>2, <1>4, <2>1, <2>2 DEF OneTurn, Words, HasParsed, Settled
  <2> QED BY <1>1, <1>3, <1>4, <2>3, MainKeepsPass
<1>9. CASE C!InitializeCompilerInstance
  <2>1. /\ mainPc = "initialize" /\ mainPc' = "transform"
        /\ ClangInstance' = CurrentTransformationImpl
        /\ UNCHANGED <<turns, wc0, CurrentTransformationImpl>>
    BY <1>9 DEF C!InitializeCompilerInstance,
       C!Manager!initializeCompilerInstance
  <2>2. Words' /\ Settled'
    BY <1>2, <1>4, <2>1 DEF OneTurn, Words, HasParsed, Settled
  <2> QED BY <1>1, <1>3, <1>4, <2>2, MainKeepsPass
<1>10. CASE C!EndIteration
  <2>1. /\ mainPc = "turn" /\ turns = <<>>
        /\ mainPc' = IF Cardinality(file) = wc0 THEN "finalize" ELSE "loop"
        /\ UNCHANGED <<turns, wc0, CurrentTransformationImpl, ClangInstance>>
    BY <1>5, <1>10 DEF C!EndIteration, C!managerVars
  <2>2. ~SkipGlobal /\ Cardinality(file) = wc0 => file = source
    <3> SUFFICES ASSUME ~SkipGlobal, Cardinality(file) = wc0
                 PROVE  file = source
      OBVIOUS
    <3>1. Cardinality(file) = Cardinality(source)
      BY <1>4, <2>1 DEF Words, HasParsed
    <3>2. file \subseteq source /\ IsFiniteSet(source)
      BY <1>3, FileShrinks DEF LInv
    <3> QED BY <3>1, <3>2, FS_Subset
  <2>3. Words' /\ Settled'
    BY <1>2, <1>4, <2>1, <2>2 DEF OneTurn, Words, HasParsed, Settled
  <2> QED BY <1>1, <1>3, <1>4, <2>3, MainKeepsPass
<1>11. CASE C!Finalize
  <2>1. /\ mainPc = "finalize" /\ mainPc' = "exit"
        /\ ClangInstance' = "none"
        /\ UNCHANGED <<turns, wc0, CurrentTransformationImpl>>
    BY <1>11 DEF C!Finalize, C!Manager!Finalize
  <2>2. Words' /\ Settled'
    BY <1>2, <1>4, <2>1 DEF OneTurn, Words, HasParsed, Settled
  <2> QED BY <1>1, <1>3, <1>4, <2>2, MainKeepsPass
<1> QED BY <1>6, <1>7, <1>8, <1>9, <1>10, <1>11

\* Every step of the program keeps the invariant; a fault ends it.
LEMMA LoopStep == LInv /\ [C!Next]_C!vars => LInv'
<1> SUFFICES ASSUME LInv, [C!Next]_C!vars PROVE LInv'
  OBVIOUS
<1>1. OneTurn /\ OneTurn'
  BY OneTurnStep DEF LInv
<1>2. CASE C!Fault
  <2>1. mainPc' = "killed"
    BY <1>2 DEF C!Fault, C!Kill, C!TornWrite, C!KilledSaving, C!Die
  <2> QED BY <1>1, <2>1 DEF LInv, Few, Collected, NodeId
<1>3. CASE UNCHANGED C!vars
  <2>1. /\ UNCHANGED vars
        /\ UNCHANGED <<mainPc, turns, wc0>>
    BY <1>3 DEF C!vars, C!shared, C!globalVars, C!mainVars, vars, textVars,
       passVars, shared
  <2>2. /\ UNCHANGED <<source, file, failed, pc>>
        /\ \A d : refList(d)' = refList(d)
        /\ \A subset : Hull(subset)' = Hull(subset)
    BY <2>1, SourceFixed DEF vars, textVars, passVars, shared
  <2>3. mainPc # "killed" => Alive' /\ Words' /\ Settled'
    BY <2>1, <2>2, AliveStays DEF LInv, Words, HasParsed, Settled
  <2> QED BY <1>1, <2>1, <2>3 DEF LInv, Few, Collected, NodeId
<1>4. ~C!LocalPass
  BY <1>1 DEF C!LocalPass, OneTurn
<1> QED
  BY <1>2, <1>3, <1>4, MainStep, GlobalPassStep, PassDoneStep
  DEF C!Next, C!Step

\* The invariant holds until the end of the run, whatever goes wrong.
LEMMA LoopAlways == Few /\ Forward /\ Flat /\ LoopSpec => []LInv
BY LoopInit, LoopStep, PTL DEF C!Spec, LoopSpec

\* Chisel leaves the text that the oracle accepted last in the input file,
\* however often the pass was run on what it had left.
THEOREM LoopEndsAccepted == Few /\ Forward /\ Flat /\ LoopSpec => []EndsAccepted
<1>1. LInv => EndsAccepted
  <2> SUFFICES ASSUME LInv, mainPc = "exit" PROVE file = kept
    BY DEF EndsAccepted
  <2> QED BY DEF LInv, OneTurn, Alive, GInv, EInv, Exact
<1> QED BY LoopAlways, <1>1, PTL

\* No iteration of the main loop leaves more words than it found.
THEOREM IterationsNeverGrow ==
  Few /\ Forward /\ Flat /\ LoopSpec => []IterationsShrink
<1>1. LInv => IterationsShrink
  <2> SUFFICES ASSUME LInv, mainPc = "turn", turns = <<>>
               PROVE  Cardinality(file) <= wc0
    BY DEF IterationsShrink, C!getWordCount, C!Cardinality, Cardinality
  <2>1. wc0 = Cardinality(IF HasParsed THEN source ELSE file)
    BY DEF LInv, Words
  <2>2. /\ Cardinality(file) \in Nat
        /\ Cardinality(file) <= Cardinality(source)
    BY FileShrinks DEF LInv
  <2> QED BY <2>1, <2>2
<1> QED BY LoopAlways, <1>1, PTL

\* When the loop ends, the oracle has refused the file without each of the
\* declarations in it that nothing in the file refers to: the last iteration
\* has removed nothing, so that it has counted the references of this file.
THEOREM LoopLeavesNothingUnreferenced ==
  ~SkipGlobal /\ Few /\ Forward /\ Flat /\ LoopSpec
    => []NothingUnreferencedIsLeft
<1> SUFFICES ASSUME ~SkipGlobal
             PROVE  Few /\ Forward /\ Flat /\ LoopSpec
                      => []NothingUnreferencedIsLeft
  OBVIOUS
<1>1. LInv => NothingUnreferencedIsLeft
  <2> SUFFICES ASSUME LInv, mainPc = "exit",
                      NEW d \in NodeId, Collected(d), Ast[d].first \in file,
                      {r \in refList(d) : Ast[r].first \in file} = {}
               PROVE  file \ Hull(<<d>>) \in failed
    BY SameText DEF NothingUnreferencedIsLeft
  <2>1. file = source
    BY DEF LInv, Settled
  <2>2. refList(d) = {}
    BY <2>1 DEF refList, Visited
  <2> QED BY <2>2 DEF LInv, Settled
<1> QED BY LoopAlways, <1>1, PTL
-----------------------------------------------------------------------------
(***************************************************************************)
(* What needs no hypothesis about the program: the invariant of the pass   *)
(* holds until the process dies.  A death between the write of a candidate *)
(* and the answer may tear the file, and then the pass is not at rest.     *)
(***************************************************************************)
KeptInv ==
  /\ OneTurn
  /\ mainPc # "killed" => IInv
  /\ SubsetsSafe /\ NothingAcceptedIsLost

LEMMA InvPromises ==
  /\ IInv => SubsetsSafe /\ NothingAcceptedIsLost
  /\ IInv' => SubsetsSafe' /\ NothingAcceptedIsLost'
BY DEF IInv, OnlyHullMissing, NothingAcceptedIsLost, AtRest

\* The loop begins before any pass has parsed.
LEMMA KeptInit == C!Init => KeptInv
<1> SUFFICES ASSUME C!Init PROVE KeptInv
  OBVIOUS
<1>1. IInv
  BY SameSteps, InitInv DEF C!Init
<1>2. OneTurn
  BY SameSteps DEF C!Init, C!Local!PassInit, C!Manager!Init, Init, PassInit,
     OneTurn
<1> QED BY <1>1, <1>2, InvPromises DEF KeptInv

\* Steps of the pass keep its invariant, the others do not touch it, and what
\* a death leaves is judged by where the pass was.
LEMMA KeptStep == KeptInv /\ [C!Next]_C!vars => KeptInv'
<1> SUFFICES ASSUME KeptInv, [C!Next]_C!vars PROVE KeptInv'
  OBVIOUS
<1>1. OneTurn /\ OneTurn' /\ (mainPc # "killed" => IInv)
  BY OneTurnStep DEF KeptInv
<1>2. CASE C!Fault
  <2>1. /\ mainPc' = "killed"
        /\ UNCHANGED <<source, pc, decls_, subsets>>
        /\ UNCHANGED <<file, kept>> \/ pc = "oracle"
    BY <1>1, <1>2 DEF C!Fault, C!Kill, C!TornWrite, C!KilledSaving, C!Die,
       C!Judging, C!globalVars, C!shared, OneTurn
  <2>2. SubsetsSafe'
    BY <2>1, SourceFixed DEF KeptInv, SubsetsSafe
  <2>3. NothingAcceptedIsLost'
    BY <2>1 DEF KeptInv, NothingAcceptedIsLost, AtRest
  <2> QED BY <1>1, <2>1, <2>2, <2>3 DEF KeptInv
<1>3. CASE UNCHANGED C!vars
  <2>1. UNCHANGED vars /\ mainPc' = mainPc
    BY <1>3 DEF C!vars, C!shared, C!globalVars, C!mainVars, vars, textVars,
       passVars, shared
  <2>2. /\ UNCHANGED <<source, pc, decls_, subsets, file, kept>>
    BY <2>1 DEF vars, textVars, passVars, shared
  <2>3. SubsetsSafe' /\ NothingAcceptedIsLost'
    BY <2>2, SourceFixed DEF KeptInv, SubsetsSafe, NothingAcceptedIsLost, AtRest
  <2> QED BY <1>1, <2>1, <2>3, StutterStep DEF KeptInv
<1>4. CASE C!Step
  <2>1. mainPc # "killed"
    BY <1>4 DEF C!Step, C!Register, C!Main, C!BeginIteration,
       C!SetTransformation, C!InitializeCompilerInstance, C!GlobalPass,
       C!LocalPass, C!DoTransformation, C!PassDone, C!EndIteration, C!Finalize
  <2>2. ASSUME C!GlobalPass PROVE IInv'
    BY <1>1, <2>1, <2>2, SameSteps, InvStep DEF C!GlobalPass
  <2>3. ASSUME C!PassDone PROVE IInv'
    <3>1. /\ pc = "done" /\ pc' = "start"
          /\ UNCHANGED <<textVars, decls_, n, subsets>>
      BY <1>1, <2>3 DEF C!PassDone, OneTurn, C!shared, textVars, shared
    <3> QED BY <1>1, <2>1, <3>1, PassKept
  <2>4. ASSUME ~C!GlobalPass, ~C!PassDone PROVE IInv'
    <3>1. ~C!LocalPass
      BY <1>1 DEF C!LocalPass, OneTurn
    <3>2. UNCHANGED vars
      BY <1>4, <2>4, <3>1 DEF C!Step, C!Register, C!Main, C!BeginIteration,
         C!SetTransformation, C!InitializeCompilerInstance, C!EndIteration,
         C!Finalize, C!shared, C!globalVars, vars, textVars, passVars, shared
    <3> QED BY <1>1, <2>1, <3>2, StutterStep
  <2>5. IInv'
    BY <2>2, <2>3, <2>4
  <2>6. SubsetsSafe' /\ NothingAcceptedIsLost'
    BY <2>5, InvPromises
  <2> QED BY <1>1, <2>5, <2>6 DEF KeptInv
<1> QED BY <1>2, <1>3, <1>4 DEF C!Next

\* However often the pass is run, and wherever the process dies between two
\* tests, all text of the last accepted version is in the file.
THEOREM LoopLosesNothing == LoopSpec => []NothingAcceptedIsLost
<1>1. KeptInv => NothingAcceptedIsLost
  BY DEF KeptInv
<1> QED BY KeptInit, KeptStep, <1>1, PTL DEF C!Spec, LoopSpec

\* However often the pass is run, ddmin never hands test an empty subset, or
\* a declaration that is gone or that the text of this turn refers to.
THEOREM LoopSubsetsAreSafe == LoopSpec => []SubsetsSafe
<1>1. KeptInv => SubsetsSafe
  BY DEF KeptInv
<1> QED BY KeptInit, KeptStep, <1>1, PTL DEF C!Spec, LoopSpec
=============================================================================
