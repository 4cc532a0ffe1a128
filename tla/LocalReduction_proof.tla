------------------------- MODULE LocalReduction_proof -------------------------
(***************************************************************************)
(* The properties of LocalReduction that hold for every program and every  *)
(* behaviour of the oracle.                                                *)
(***************************************************************************)
EXTENDS LocalReduction, VectorUtils_proof

\* Statements and their ends lie in the program and in the file.
LEMMA StmtFacts ==
  /\ StmtId \in SUBSET Nat /\ 0 \notin StmtId
  /\ IsFiniteSet(StmtId)
  /\ Cells \in SUBSET Nat
  /\ \A s \in StmtId : /\ Stmts[s].parent \in Nat
                       /\ Kind(s) \in Kinds
                       /\ First(s) \in Cells /\ Last(s) \in Cells
                       /\ Stmts[s].elseLoc \in Nat
<1>1. /\ Len(Stmts) \in Nat /\ StmtId = 1 .. Len(Stmts)
      /\ \A s \in 1 .. Len(Stmts) : Stmts[s] \in Stmt
  BY LocalReductionAssumption, LenProperties, ElementOfSeq DEF StmtId
<1>2. IsFiniteSet(StmtId)
  BY <1>1, FS_Interval
<1>3. Cells \in SUBSET Nat
  BY TransformationAssumption DEF Cells
<1>4. \A s \in StmtId : /\ Stmts[s].parent \in Nat
                        /\ Kind(s) \in Kinds
                        /\ First(s) \in Cells /\ Last(s) \in Cells
                        /\ Stmts[s].elseLoc \in Nat
  BY <1>1 DEF Stmt, Kind, First, Last
<1> QED BY <1>1, <1>2, <1>3, <1>4

\* A part lies in its statement.
LEMMA PartFacts ==
  ASSUME NEW s \in StmtId, NEW c \in Parts(s)
  PROVE  /\ c \in StmtId /\ s < c
         /\ First(s) <= First(c) /\ First(c) <= Last(c) /\ Last(c) <= Last(s)
<1>1. c \in StmtId /\ Stmts[c].parent = s
  BY DEF Parts
<1>2. s < c /\ First(c) <= Last(c) /\ Extent(c) \subseteq Extent(s)
  BY <1>1, LocalReductionAssumption DEF Nested
<1>3. /\ First(c) \in Nat /\ Last(c) \in Nat
      /\ First(s) \in Nat /\ Last(s) \in Nat
  BY <1>1, StmtFacts
<1>4. First(c) \in Extent(s) /\ Last(c) \in Extent(s)
  BY <1>2, <1>3 DEF Extent
<1> QED BY <1>1, <1>2, <1>3, <1>4 DEF Extent

\* Statements side by side lie one behind the other.
LEMMA SiblingsApart ==
  ASSUME NEW p, NEW c \in Parts(p), NEW d \in Parts(p), c < d
  PROVE  Last(c) < First(d)
  BY LocalReductionAssumption DEF Nested, Parts

\* In the first parse of the file every statement is in the AST, below the one
\* it is a part of.
LEMMA ChildrenAreParts ==
  ASSUME Parsed = Cells, NEW s \in StmtId
  PROVE  /\ Children(s) = Enumerate(Parts(s))
         /\ Children(s) \in Seq(Parts(s))
         /\ Elements(Children(s)) = Parts(s)
         /\ Increasing(Children(s))
<1> DEFINE parents == [c \in StmtId |-> Stmts[c].parent]
           Around(f) == [c \in StmtId |->
                           IF Stmts[c].parent = 0 \/ InAst(Stmts[c].parent)
                           THEN Stmts[c].parent ELSE f[Stmts[c].parent]]
<1>1. \A c \in StmtId : InAst(c)
  BY StmtFacts DEF InAst
<1>2. \A c \in StmtId :
        Stmts[c].parent = 0 \/ InAst(Stmts[c].parent)
  <2> SUFFICES ASSUME NEW c \in StmtId, Stmts[c].parent # 0
               PROVE  Stmts[c].parent \in StmtId
    BY <1>1
  <2>1. Stmts[c].parent \in Nat /\ Stmts[c].parent < c
    BY StmtFacts, LocalReductionAssumption DEF Nested
  <2>2. StmtId = 1 .. Len(Stmts) /\ Len(Stmts) \in Nat
    BY LocalReductionAssumption, LenProperties DEF StmtId
  <2> QED BY <2>1, <2>2
<1>3. \A f : Around(f) = parents
  BY <1>2
<1>4. Enclosing = CHOOSE f : f = Around(f)
  BY DEF Enclosing
<1> HIDE DEF Around
<1>5. Enclosing = parents
  BY <1>3, <1>4
<1>6. Below(s) = Parts(s)
  BY <1>1, <1>5 DEF Below, Parts
<1>7. Parts(s) \in SUBSET Nat /\ IsFiniteSet(Parts(s))
  BY StmtFacts, FS_Subset DEF Parts
<1> QED BY <1>6, <1>7, EnumerateLists DEF Children

\* The branches that reduceIf, reduceWhile and reduceLabel push are parts.
LEMMA BranchFacts ==
  ASSUME Parsed = Cells, NEW s \in StmtId, Parts(s) # {}
  PROVE  Then(s) \in Parts(s) /\ Else(s) \in Parts(s)
<1>1. /\ Children(s) \in Seq(Parts(s))
      /\ Elements(Children(s)) = Parts(s)
  BY ChildrenAreParts
<1>2. /\ Len(Children(s)) \in Nat /\ DOMAIN Children(s) = 1 .. Len(Children(s))
      /\ \A i \in DOMAIN Children(s) : Children(s)[i] \in Parts(s)
  BY <1>1, LenProperties, ElementOfSeq
<1>3. Len(Children(s)) >= 1
  BY <1>1, <1>2 DEF Elements
<1> QED BY <1>2, <1>3 DEF Then, Else

TwoBranches(s) == Kind(s) = "if" /\ HasElse(s)

\* The keyword else lies between the two branches of an if.
LEMMA IfElseFacts ==
  ASSUME Parsed = Cells, NEW s \in StmtId, TwoBranches(s)
  PROVE  /\ Then(s) \in Parts(s) /\ Else(s) \in Parts(s)
         /\ Last(Then(s)) < Stmts[s].elseLoc
         /\ Stmts[s].elseLoc < First(Else(s))
<1>1. PICK c \in StmtId, d \in StmtId :
        Parts(s) = {c, d} /\ Last(c) < Stmts[s].elseLoc
                          /\ Stmts[s].elseLoc < First(d)
  BY LocalReductionAssumption DEF Complete, TwoBranches
<1>2. c < d
  <2>1. /\ c \in Parts(s) /\ d \in Parts(s) /\ c \in Nat /\ d \in Nat
        /\ First(c) \in Nat /\ Last(c) \in Nat /\ First(d) \in Nat
        /\ Last(d) \in Nat /\ Stmts[s].elseLoc \in Nat
    BY <1>1, StmtFacts
  <2>2. First(c) <= Last(c) /\ First(d) <= Last(d)
    BY <2>1, PartFacts
  <2>3. ~(d < c)
    <3> SUFFICES ASSUME d < c PROVE FALSE
      OBVIOUS
    <3>1. Last(d) < First(c)
      BY <2>1, SiblingsApart
    <3> QED BY <1>1, <2>1, <2>2, <3>1
  <2>4. c # d
    BY <1>1, <2>1, <2>2
  <2> QED BY <2>1, <2>3, <2>4
<1>3. /\ Children(s) \in Seq(Parts(s))
      /\ Elements(Children(s)) = {c, d}
      /\ Increasing(Children(s))
  BY <1>1, ChildrenAreParts
<1>4. /\ Len(Children(s)) \in Nat /\ DOMAIN Children(s) = 1 .. Len(Children(s))
      /\ \A i \in DOMAIN Children(s) : Children(s)[i] \in {c, d}
  BY <1>1, <1>3, LenProperties, ElementOfSeq
<1>5. c \in Nat /\ d \in Nat
  BY StmtFacts
<1>6. Then(s) = c
  <2>1. PICK i \in DOMAIN Children(s) : Children(s)[i] = c
    BY <1>3 DEF Elements
  <2>2. 1 \in DOMAIN Children(s) /\ (1 = i \/ 1 < i)
    BY <1>4, <2>1
  <2>3. 1 < i => Children(s)[1] < c
    BY <1>3, <2>1, <2>2 DEF Increasing
  <2> QED BY <1>2, <1>4, <1>5, <2>1, <2>2, <2>3 DEF Then
<1>7. Else(s) = d
  <2> DEFINE len == Len(Children(s))
  <2>1. PICK i \in DOMAIN Children(s) : Children(s)[i] = d
    BY <1>3 DEF Elements
  <2>2. len \in DOMAIN Children(s) /\ (i = len \/ i < len)
    BY <1>4, <2>1
  <2>3. i < len => d < Children(s)[len]
    BY <1>3, <2>1, <2>2 DEF Increasing
  <2> QED BY <1>2, <1>4, <1>5, <2>1, <2>2, <2>3 DEF Else
<1> QED BY <1>1, <1>6, <1>7
-----------------------------------------------------------------------------
(***************************************************************************)
(* The inductive invariant.  The statements that the pass works on are     *)
(* those of the text that was parsed, and the source stays that text       *)
(* (Fresh, InBody); the kind of the current statement fits the question    *)
(* (Working), so that the branches it asks for exist; the buffer is what   *)
(* was written to the file; and while the oracle runs, only text that the  *)
(* revert would put back may be missing.                                   *)
(***************************************************************************)
Fresh ==
  /\ source = Cells
  /\ pc = "start" => file = Cells /\ edits = <<>> /\ functionBodies = <<>>
  /\ \A i \in DOMAIN functionBodies : functionBodies[i].text = Cells

Buffered == EditBuffer = file

InBody == pc \notin {"start", "body", "done"} => body # 0

\* What the current statement is when the oracle is asked about it.
Asked(what) ==
  \/ what \in {"else", "then"} /\ TwoBranches(cur)
  \/ what = "cond" /\ Kind(cur) = "if"
  \/ what = "while" /\ Kind(cur) = "while"
  \/ what = "chunk" /\ Kind(cur) = "compound" /\ subsets # <<>> /\ stmts_ # <<>>

Working ==
  /\ pc \in {"hdd", "then", "round", "test", "oracle"} => cur # 0
  /\ pc = "then" => TwoBranches(cur)
  /\ pc \in {"round", "test"} => Kind(cur) = "compound"
  /\ pc = "test" => stmts_ # <<>>
  /\ pc = "oracle" => Asked(trial)

OnlyRemovedMissing ==
  kept \subseteq IF pc = "oracle" THEN file \cup Removed(trial) ELSE file

IInv ==
  /\ TypeOK /\ Fresh /\ Buffered /\ InBody /\ Working
  /\ OnlyRemovedMissing

\* The pass begins with the buffer empty and nothing removed.
LEMMA InitInv == Init => IInv
<1> SUFFICES ASSUME Init PROVE IInv
  OBVIOUS
<1> USE DEF Init, TransformationInit, PassInit
<1>1. Cells \in Text /\ 0 \in 0 .. MaxCalls
  BY TransformationAssumption DEF Text, Cells
<1>2. TypeOK
  <2>1. /\ <<>> \in Seq(StmtId) /\ <<>> \in Seq(Seq(StmtId))
        /\ <<>> \in Seq([stmt : StmtId, text : Text])
        /\ Len(<<>>) = 0
    BY EmptySeq
  <2> QED BY <1>1, <2>1 DEF TypeOK, TextTypeOK, EditBuffer, Text
<1>3. Fresh /\ Buffered /\ InBody /\ Working /\ OnlyRemovedMissing
  BY DEF Fresh, Buffered, InBody, Working, OnlyRemovedMissing, EditBuffer
<1> QED BY <1>2, <1>3 DEF IInv
-----------------------------------------------------------------------------
\* The syntax tree is that of the text that was parsed.
LEMMA SameParse ==
  ASSUME Parsed' = Parsed, source' = source
  PROVE  /\ \A s : Children(s)' = Children(s) /\ Then(s)' = Then(s)
                                             /\ Else(s)' = Else(s)
         /\ \A s : HeadPart(s)' = HeadPart(s)
         /\ \A s : TestEnd(s)' = TestEnd(s)
         /\ \A subset : Hull(subset)' = Hull(subset)
<1>1. \A s : Children(s)' = Children(s)
  BY DEF Children, Below, Enclosing, InAst
<1>2. \A s : Then(s)' = Then(s) /\ Else(s)' = Else(s)
  BY <1>1 DEF Then, Else
<1>3. \A s : HeadPart(s)' = HeadPart(s)
  BY <1>2 DEF HeadPart
<1>4. \A s : TestEnd(s)' = TestEnd(s)
  <2>1. \A after : NextSemi(after)' = NextSemi(after)
    BY DEF NextSemi
  <2> QED BY <1>2, <2>1, Zenon DEF TestEnd
<1>5. \A subset : Hull(subset)' = Hull(subset)
  BY <1>4 DEF Hull
<1> QED BY <1>1, <1>2, <1>3, <1>4, <1>5

\* The syntax trees change only when another body is taken, and then only in
\* what was parsed.
LEMMA ParseFixed ==
  ASSUME functionBodies' = functionBodies, body' = body, source' = source
  PROVE  /\ Parsed' = Parsed
         /\ \A s : Children(s)' = Children(s) /\ Then(s)' = Then(s)
                                             /\ Else(s)' = Else(s)
         /\ \A s : HeadPart(s)' = HeadPart(s)
         /\ \A s : TestEnd(s)' = TestEnd(s)
         /\ \A subset : Hull(subset)' = Hull(subset)
<1>1. Parsed' = Parsed
  BY DEF Parsed
<1> QED BY <1>1, SameParse

\* In the body of a function everything refers to the text that was parsed.
LEMMA InParsedBody ==
  ASSUME IInv, pc \notin {"start", "body", "done"}
  PROVE  Parsed = Cells
<1>1. /\ functionBodies \in Seq([stmt : StmtId, text : Text])
      /\ body \in 0 .. Len(functionBodies) /\ body # 0
  BY DEF IInv, TypeOK, InBody
<1>2. body \in DOMAIN functionBodies
  BY <1>1, LenProperties
<1> QED BY <1>2 DEF IInv, Fresh, Parsed

\* A step that touches no text, when the oracle does not run.
LEMMA QuietStep ==
  ASSUME IInv, UNCHANGED textVars, UNCHANGED functionBodies,
         pc \notin {"start", "oracle"}, pc' \notin {"start", "oracle"}
  PROVE  TextTypeOK' /\ Fresh' /\ Buffered' /\ OnlyRemovedMissing'
<1> USE DEF IInv, textVars, shared
<1>1. TextTypeOK'
  BY DEF TypeOK, TextTypeOK, EditBuffer
<1>2. Fresh' /\ Buffered'
  BY DEF Fresh, Buffered, EditBuffer
<1>3. OnlyRemovedMissing'
  BY DEF OnlyRemovedMissing
<1> QED BY <1>1, <1>2, <1>3
-----------------------------------------------------------------------------
\* The visitor finds bodies of functions, in the text that was parsed.
LEMMA CollectedFacts ==
  ASSUME NEW text \in Text
  PROVE  /\ CollectedBodies(text) \in Seq([stmt : StmtId, text : {text}])
         /\ \A i \in DOMAIN CollectedBodies(text) :
              Stmts[CollectedBodies(text)[i].stmt].parent = 0
<1> DEFINE S == {s \in StmtId : Stmts[s].parent = 0 /\ First(s) \in text}
           roots == Enumerate(S)
<1>1. S \in SUBSET Nat /\ IsFiniteSet(S) /\ S \subseteq StmtId
  BY StmtFacts, FS_Subset
<1>2. roots \in Seq(S)
  BY <1>1, EnumerateLists
<1>3. /\ Len(roots) \in Nat /\ DOMAIN roots = 1 .. Len(roots)
      /\ \A i \in DOMAIN roots : roots[i] \in S
  BY <1>2, LenProperties, ElementOfSeq
<1>4. CollectedBodies(text) =
        [i \in 1 .. Len(roots) |-> [stmt |-> roots[i], text |-> text]]
  BY <1>3 DEF CollectedBodies
<1>5. \A i \in DOMAIN roots : roots[i] \in StmtId /\ Stmts[roots[i]].parent = 0
  BY <1>1, <1>3
<1> HIDE DEF S, roots
<1>6. CollectedBodies(text) \in [1 .. Len(roots) -> [stmt : StmtId, text : {text}]]
  BY <1>3, <1>4, <1>5
<1>7. CollectedBodies(text) \in Seq([stmt : StmtId, text : {text}])
  BY <1>3, <1>6, FunctionIsVector
<1> QED BY <1>3, <1>4, <1>5, <1>7

\* Bodies that are collected from one parse all belong to its text.
LEMMA OneParse ==
  ASSUME NEW bodies \in Seq([stmt : StmtId, text : {Cells}])
  PROVE  /\ bodies \in Seq([stmt : StmtId, text : Text])
         /\ \A i \in DOMAIN bodies : bodies[i].text = Cells
<1> DEFINE A == [stmt : StmtId, text : {Cells}]
           B == [stmt : StmtId, text : Text]
<1>1. A \subseteq B /\ \A a \in A : a.text = Cells
  BY DEF Text
<1> HIDE DEF A, B
<1>2. bodies \in Seq(A) /\ bodies \in Seq(B)
  BY <1>1, SeqMonotonic DEF A
<1>3. \A i \in DOMAIN bodies : bodies[i] \in A
  BY <1>2, LenProperties, ElementOfSeq
<1> QED BY <1>1, <1>2, <1>3 DEF B

\* The statements of the bodies are those of the text that is parsed.
LEMMA BeginStep == IInv /\ Begin => IInv'
<1> SUFFICES ASSUME IInv, Begin PROVE IInv'
  OBVIOUS
<1> USE DEF IInv, Begin, Initialize
<1>1. /\ source' = source /\ source' = Cells /\ source' \in Text
      /\ functionBodies = <<>> /\ UNCHANGED <<edits, shared>>
  BY DEF Fresh, shared, TypeOK, TextTypeOK
<1>2. functionBodies' = CollectedBodies(Cells)
  <2>1. CollectedBodies(Cells) \in Seq([stmt : StmtId, text : {Cells}])
    BY <1>1, CollectedFacts
  <2> QED BY <1>1, <2>1, ConcatEmptySeq
<1>3. /\ functionBodies' \in Seq([stmt : StmtId, text : Text])
      /\ \A i \in DOMAIN functionBodies' : functionBodies'[i].text = Cells
  BY <1>1, <1>2, CollectedFacts, OneParse
<1>4. TypeOK'
  <2>2. body' \in 0 .. Len(functionBodies')
    BY <1>3, LenProperties
  <2>3. TextTypeOK'
    BY <1>1 DEF TypeOK, TextTypeOK, EditBuffer, shared
  <2> QED BY <1>3, <2>2, <2>3 DEF TypeOK
<1>5. Fresh' /\ Buffered' /\ InBody' /\ Working'
  BY <1>1, <1>3 DEF Fresh, Buffered, InBody, Working, EditBuffer, shared
<1>6. OnlyRemovedMissing'
  BY DEF OnlyRemovedMissing, shared
<1> QED BY <1>4, <1>5, <1>6
-----------------------------------------------------------------------------
\* The branches exist when they are pushed.
LEMMA PushedAreParts ==
  ASSUME IInv, pc \notin {"start", "body", "done"}, cur # 0
  PROVE  /\ Parsed = Cells
         /\ cur \in StmtId
         /\ Parts(cur) \subseteq StmtId
         /\ Children(cur) \in Seq(Parts(cur)) /\ Children(cur) \in Seq(StmtId)
         /\ \/ Kind(cur) \in {"label", "while"}
            \/ Kind(cur) = "if"
            => Then(cur) \in Parts(cur)
         /\ TwoBranches(cur) => Else(cur) \in Parts(cur)
<1>1. Parsed = Cells /\ cur \in StmtId
  BY InParsedBody DEF IInv, TypeOK
<1>2. Parts(cur) \subseteq StmtId
  BY DEF Parts
<1>3. Children(cur) \in Seq(Parts(cur)) /\ Children(cur) \in Seq(StmtId)
  BY <1>1, <1>2, ChildrenAreParts, SeqMonotonic
<1>4. \/ Kind(cur) \in {"label", "while"}
      \/ Kind(cur) = "if"
      => Parts(cur) # {}
  BY <1>1, LocalReductionAssumption DEF Complete
<1> QED BY <1>1, <1>2, <1>3, <1>4, BranchFacts DEF TwoBranches

\* The loop over the bodies, and the exits of the loop over q and of ddmin.
LEMMA WalkStep ==
  IInv /\ (NextBody \/ Finish \/ BodyDone \/ Pop \/ HddIgnores \/ DdminDone)
    => IInv'
<1> SUFFICES ASSUME IInv,
                    NextBody \/ Finish \/ BodyDone \/ Pop \/ HddIgnores
                             \/ DdminDone
             PROVE  IInv'
  OBVIOUS
<1>1. /\ UNCHANGED textVars /\ UNCHANGED <<functionBodies, stmts_, n, subsets>>
      /\ trial' = trial
      /\ pc \notin {"start", "oracle"}
      /\ pc' \in {"body", "queue", "hdd", "done"}
  BY DEF NextBody, Finish, BodyDone, Pop, HddIgnores, DdminDone
<1>2. TextTypeOK' /\ Fresh' /\ Buffered' /\ OnlyRemovedMissing'
  BY <1>1, QuietStep
<1>3. /\ functionBodies \in Seq([stmt : StmtId, text : Text])
      /\ body \in 0 .. Len(functionBodies) /\ Len(functionBodies) \in Nat
      /\ q \in Seq(StmtId) /\ cur \in StmtId \cup {0}
  BY LenProperties DEF IInv, TypeOK
<1>4. CASE NextBody
  <2>1. body' \in 1 .. Len(functionBodies)
    BY <1>3, <1>4 DEF NextBody
  <2>2. functionBodies[body'] \in [stmt : StmtId, text : Text]
    BY <1>3, <2>1, ElementOfSeq
  <2>3. q' \in Seq(StmtId)
    BY <1>3, <1>4, <2>2, AppendProperties DEF NextBody
  <2> QED BY <1>1, <1>2, <1>4, <2>1, <2>3
          DEF IInv, TypeOK, InBody, Working, NextBody
<1>5. CASE Pop
  <2>1. q' \in Seq(StmtId) /\ cur' \in StmtId
    BY <1>3, <1>5, HeadTailProperties DEF Pop
  <2> QED BY <1>1, <1>2, <1>5, <2>1, StmtFacts
          DEF IInv, TypeOK, InBody, Working, Pop
<1>6. CASE Finish \/ BodyDone \/ HddIgnores \/ DdminDone
  BY <1>1, <1>2, <1>6
     DEF IInv, TypeOK, InBody, Working, Finish, BodyDone, HddIgnores, DdminDone
<1> QED BY <1>4, <1>5, <1>6

\* What a label is put in front of is a statement.
LEMMA LabelStep == IInv /\ reduceLabel => IInv'
<1> SUFFICES ASSUME IInv, reduceLabel PROVE IInv'
  OBVIOUS
<1> USE DEF reduceLabel
<1>1. TextTypeOK' /\ Fresh' /\ Buffered' /\ OnlyRemovedMissing'
  BY QuietStep
<1>2. q' \in Seq(StmtId)
  <2>1. Then(cur) \in StmtId /\ q \in Seq(StmtId)
    BY PushedAreParts DEF IInv, TypeOK, Working
  <2> QED BY <2>1, AppendProperties
<1> QED BY <1>1, <1>2 DEF IInv, TypeOK, InBody, Working

\* So are the elements of a block, which ddmin starts on.
LEMMA CompoundStep == IInv /\ reduceCompound => IInv'
<1> SUFFICES ASSUME IInv, reduceCompound PROVE IInv'
  OBVIOUS
<1> USE DEF reduceCompound
<1>1. TextTypeOK' /\ Fresh' /\ Buffered' /\ OnlyRemovedMissing'
  BY QuietStep
<1>2. stmts_' \in Seq(StmtId) /\ q' \in Seq(StmtId)
  <2>1. Children(cur) \in Seq(StmtId) /\ q \in Seq(StmtId)
    BY PushedAreParts DEF IInv, TypeOK, Working
  <2> QED BY <2>1, ConcatProperties
<1>3. subsets' \in Seq(Seq(StmtId))
  BY EmptySeq
<1> QED BY <1>1, <1>2, <1>3 DEF IInv, TypeOK, InBody, Working

\* The steps of ddmin between two questions.
LEMMA RoundStep == IInv /\ (StartRound \/ TestFails \/ Refine) => IInv'
<1> SUFFICES ASSUME IInv, StartRound \/ TestFails \/ Refine PROVE IInv'
  OBVIOUS
<1>1. /\ UNCHANGED textVars /\ UNCHANGED <<functionBodies, stmts_, body>>
      /\ UNCHANGED <<q, cur, trial>>
      /\ pc \in {"round", "test"} /\ pc' \in {"round", "test"}
  BY DEF StartRound, TestFails, Refine
<1>2. TextTypeOK' /\ Fresh' /\ Buffered' /\ OnlyRemovedMissing'
  BY <1>1, QuietStep
<1>3. stmts_ \in Seq(StmtId) /\ n \in Nat \ {0} /\ subsets \in Seq(Seq(StmtId))
  BY DEF IInv, TypeOK
<1>4. subsets' \in Seq(Seq(StmtId)) /\ n' \in Nat \ {0}
  <2>1. CASE StartRound
    BY <1>3, <2>1, SplitChunks DEF StartRound
  <2>2. CASE TestFails
    BY <1>3, <2>2, HeadTailProperties DEF TestFails
  <2>3. CASE Refine
    <3>1. Len(stmts_) \in Nat \ {0}
      BY <1>3, <2>3, EmptySeq DEF IInv, Working, Refine
    <3> QED BY <1>3, <2>3, <3>1 DEF Refine, Smaller
  <2> QED BY <2>1, <2>2, <2>3
<1>5. Working'
  BY <1>1 DEF IInv, Working, StartRound, TestFails, Refine
<1> QED BY <1>1, <1>2, <1>4, <1>5 DEF IInv, TypeOK, InBody
-----------------------------------------------------------------------------
\* What is taken out of the file to try something.
LEMMA RemovedParts ==
  /\ Removed("else") = HeadPart(cur) \cup ElsePart(cur)
  /\ Removed("then") = ThenPart(cur)
  /\ Removed("cond") = HeadPart(cur) /\ Removed("while") = HeadPart(cur)
  /\ Removed("chunk") = Hull(Head(subsets))
  /\ \A what \in {"else", "then", "cond", "while"} :
       Reverted(what) = Extent(cur)
  /\ Reverted("chunk") = Hull(Head(subsets))
  BY DEF Removed, Reverted

Questions == {"else", "then", "cond", "while", "chunk"}

\* A revert covers all that was removed.
LEMMA RevertCovers ==
  ASSUME IInv, pc \notin {"start", "body", "done"}, cur # 0,
         NEW what \in Questions, Asked(what)
  PROVE  Removed(what) \subseteq Reverted(what)
<1>1. /\ Parsed = Cells /\ cur \in StmtId
      /\ First(cur) \in Nat /\ Last(cur) \in Nat /\ Stmts[cur].elseLoc \in Nat
  BY PushedAreParts, StmtFacts
<1>2. what \notin {"chunk"} => HeadPart(cur) \subseteq Extent(cur)
  <2> SUFFICES ASSUME what # "chunk" PROVE HeadPart(cur) \subseteq Extent(cur)
    OBVIOUS
  <2>1. Then(cur) \in Parts(cur)
    BY PushedAreParts DEF Asked, TwoBranches
  <2>2. First(Then(cur)) \in Nat /\ First(Then(cur)) <= Last(cur)
    <3>1. /\ Then(cur) \in StmtId /\ First(Then(cur)) <= Last(Then(cur))
          /\ Last(Then(cur)) <= Last(cur)
      BY <1>1, <2>1, PartFacts
    <3>2. First(Then(cur)) \in Nat /\ Last(Then(cur)) \in Nat
      BY <3>1, StmtFacts
    <3> QED BY <1>1, <3>1, <3>2
  <2> QED BY <1>1, <2>2 DEF HeadPart, Extent
<1>3. TwoBranches(cur) => /\ ElsePart(cur) \subseteq Extent(cur)
                          /\ ThenPart(cur) \subseteq Extent(cur)
  <2> SUFFICES ASSUME TwoBranches(cur)
               PROVE  /\ First(cur) <= Stmts[cur].elseLoc
                      /\ Stmts[cur].elseLoc <= Last(cur)
    BY <1>1 DEF ElsePart, ThenPart, Extent
  <2>1. /\ Then(cur) \in Parts(cur) /\ Else(cur) \in Parts(cur)
        /\ Last(Then(cur)) < Stmts[cur].elseLoc
        /\ Stmts[cur].elseLoc < First(Else(cur))
    BY <1>1, IfElseFacts
  <2>2. /\ First(cur) <= First(Then(cur)) /\ First(Then(cur)) <= Last(Then(cur))
        /\ First(Else(cur)) <= Last(Else(cur)) /\ Last(Else(cur)) <= Last(cur)
    BY <1>1, <2>1, PartFacts
  <2>3. /\ First(Then(cur)) \in Nat /\ Last(Then(cur)) \in Nat
        /\ First(Else(cur)) \in Nat /\ Last(Else(cur)) \in Nat
    BY <2>1, StmtFacts DEF Parts
  <2> QED BY <1>1, <2>1, <2>2, <2>3
<1> QED BY <1>2, <1>3, RemovedParts DEF Asked, Questions

\* A candidate, and what a revert makes of it.
LEMMA EditsAreText ==
  ASSUME NEW buffer \in Text, source \in Text, NEW range
  PROVE  /\ Blank(buffer, range) = buffer \ range
         /\ Blank(buffer, range) \in Text
         /\ Restore(buffer, range) = (buffer \ range) \cup (source \cap range)
         /\ Restore(buffer, range) \in Text
  BY DEF Blank, Restore, ReplaceText, placeholder, getSourceText, Text

\* The counters stop at MaxCalls.
LEMMA CountersFacts ==
  ASSUME NEW counters \in [Counters -> 0 .. MaxCalls],
         NEW what \in Questions
  PROVE  Increment(counters, Msg(what)) \in [Counters -> 0 .. MaxCalls]
<1>1. MaxCalls \in Nat /\ CounterOf(Msg(what)) \in Counters
  BY TransformationAssumption DEF Counters, CounterOf
<1>2. \A c \in 0 .. MaxCalls : Smaller(c + 1, MaxCalls) \in 0 .. MaxCalls
  BY <1>1 DEF Smaller
<1> QED BY <1>1, <1>2 DEF Increment

\* Between the question and the answer the removed text is missing from the
\* file, and nothing else.
LEMMA AskStep ==
  ASSUME IInv, pc \notin {"start", "body", "oracle", "done"}, cur # 0,
         NEW what \in Questions, Asked(what), Ask(what)
  PROVE  IInv'
<1> USE DEF IInv, Ask
<1>1. /\ source' = source /\ UNCHANGED <<functionBodies, body, q, cur>>
      /\ UNCHANGED <<stmts_, n, subsets>>
      /\ trial' = what /\ pc' = "oracle" /\ kept' = kept
      /\ file \in Text /\ source \in Text /\ EditBuffer = file
  BY DEF CallOracle, TypeOK, TextTypeOK, Buffered
<1>2. /\ file' = file \ Removed(what) /\ file' \in Text /\ edits' = <<file'>>
  BY <1>1, EditsAreText DEF writeToFile
<1>3. TypeOK'
  <2>1. calls' \in [Counters -> 0 .. MaxCalls]
    BY CountersFacts DEF CallOracle, TypeOK, TextTypeOK
  <2>2. TextTypeOK'
    BY <1>1, <1>2, <2>1 DEF CallOracle, TypeOK, TextTypeOK, EditBuffer
  <2> QED BY <1>1, <2>2 DEF TypeOK, Questions
<1>4. Fresh' /\ Buffered' /\ InBody' /\ Working'
  BY <1>1, <1>2
     DEF Fresh, Buffered, InBody, Working, Asked, TwoBranches, EditBuffer
<1>5. OnlyRemovedMissing'
  <2>1. Removed(what)' = Removed(what)
    <3>1. HeadPart(cur)' = HeadPart(cur) /\ Hull(Head(subsets))' = Hull(Head(subsets))
      BY <1>1, ParseFixed DEF HeadPart
    <3>2. ElsePart(cur)' = ElsePart(cur) /\ ThenPart(cur)' = ThenPart(cur)
      BY <1>1 DEF ElsePart, ThenPart
    <3> QED BY <3>1, <3>2, Zenon DEF Removed
  <2>2. kept \subseteq file
    BY DEF OnlyRemovedMissing
  <2> QED BY <1>1, <1>2, <2>1, <2>2 DEF OnlyRemovedMissing
<1> QED BY <1>3, <1>4, <1>5

\* A test removes no more than its question is about.
LEMMA QuestionStep ==
  IInv /\ (reduceWhile \/ reduceIf \/ reduceIfThen \/ Test) => IInv'
<1> SUFFICES ASSUME IInv, reduceWhile \/ reduceIf \/ reduceIfThen \/ Test
             PROVE  IInv'
  OBVIOUS
<1>1. PICK what \in Questions :
        /\ Ask(what) /\ Asked(what) /\ cur # 0
        /\ pc \in {"hdd", "then", "test"}
  <2>1. CASE reduceWhile
    BY <2>1 DEF reduceWhile, Asked, Questions, IInv, Working
  <2>2. CASE reduceIf
    <3>1. Kind(cur) = "if" /\ pc = "hdd" /\ cur # 0
      BY <2>2 DEF reduceIf, Ignored, IInv, Working
    <3>2. CASE HasElse(cur)
      BY <2>2, <3>1, <3>2 DEF reduceIf, Asked, TwoBranches, Questions
    <3>3. CASE ~HasElse(cur)
      BY <2>2, <3>1, <3>3 DEF reduceIf, Asked, Questions
    <3> QED BY <3>2, <3>3
  <2>3. CASE reduceIfThen
    BY <2>3 DEF reduceIfThen, Asked, Questions, IInv, Working
  <2>4. CASE Test
    BY <2>4 DEF Test, Asked, Questions, IInv, Working
  <2> QED BY <2>1, <2>2, <2>3, <2>4
<1> QED BY <1>1, AskStep
-----------------------------------------------------------------------------
\* What reduceIf and reduceWhile push.
LEMMA PushedFacts ==
  ASSUME IInv, pc = "oracle", trial # "chunk"
  PROVE  /\ trial \in Questions
         /\ PushIfAccepted(trial) \in Seq(StmtId)
         /\ PushIfRefused(trial) \in Seq(StmtId)
         /\ Then(cur) \in Parts(cur)
         /\ TwoBranches(cur) => Else(cur) \in Parts(cur)
<1>1. Asked(trial) /\ trial \in Questions /\ cur # 0
  BY DEF IInv, Working, Asked, Questions
<1>2. trial = "then" => TwoBranches(cur)
  BY <1>1 DEF Asked
<1>3. Then(cur) \in Parts(cur) /\ (TwoBranches(cur) => Else(cur) \in Parts(cur))
  BY <1>1, PushedAreParts DEF Asked, TwoBranches
<1>4. Then(cur) \in StmtId /\ (trial = "then" => Else(cur) \in StmtId)
  BY <1>2, <1>3 DEF Parts
<1>5. PushIfAccepted(trial) \in Seq(StmtId) /\ PushIfRefused(trial) \in Seq(StmtId)
  BY <1>4 DEF PushIfAccepted, PushIfRefused
<1> QED BY <1>1, <1>3, <1>5

\* An accepted text is kept, and the branches pushed are statements.
LEMMA AcceptStep == IInv /\ Accept => IInv'
<1> SUFFICES ASSUME IInv, Accept PROVE IInv'
  OBVIOUS
<1> USE DEF IInv, Accept
<1>1. /\ source' = source /\ file' = file /\ edits' = edits
      /\ kept' = file /\ pc' = "queue" /\ trial \in Questions
  BY PushedFacts DEF OracleAccepts
<1>2. q' \in Seq(StmtId)
  <2>1. PushIfAccepted(trial) \in Seq(StmtId) /\ q \in Seq(StmtId)
    BY PushedFacts DEF TypeOK
  <2> QED BY <2>1, ConcatProperties
<1>3. TypeOK'
  <2>1. successes' \in [Counters -> 0 .. MaxCalls]
    BY <1>1, CountersFacts DEF OracleAccepts, TypeOK, TextTypeOK
  <2>2. TextTypeOK'
    BY <1>1, <2>1 DEF OracleAccepts, TypeOK, TextTypeOK, EditBuffer
  <2> QED BY <1>1, <1>2, <2>2 DEF TypeOK
<1>4. Fresh' /\ Buffered' /\ InBody' /\ Working'
  BY <1>1 DEF Fresh, Buffered, InBody, Working, EditBuffer
<1>5. OnlyRemovedMissing'
  BY <1>1 DEF OnlyRemovedMissing
<1> QED BY <1>3, <1>4, <1>5

\* An accepted subset leaves the list of ddmin.
LEMMA AcceptChunkStep == IInv /\ AcceptChunk => IInv'
<1> SUFFICES ASSUME IInv, AcceptChunk PROVE IInv'
  OBVIOUS
<1> USE DEF IInv, AcceptChunk
<1>1. /\ source' = source /\ file' = file /\ edits' = edits
      /\ kept' = file /\ pc' = "round" /\ trial \in Questions
  BY DEF OracleAccepts, Questions
<1>2. /\ stmts_' \in Seq(StmtId) /\ n' \in Nat \ {0}
      /\ subsets' \in Seq(Seq(StmtId))
  BY DifferenceRemoves, EmptySeq DEF TypeOK, Larger
<1>3. TypeOK'
  <2>1. successes' \in [Counters -> 0 .. MaxCalls]
    BY <1>1, CountersFacts DEF OracleAccepts, TypeOK, TextTypeOK
  <2>2. TextTypeOK'
    BY <1>1, <2>1 DEF OracleAccepts, TypeOK, TextTypeOK, EditBuffer
  <2> QED BY <1>1, <1>2, <2>2 DEF TypeOK
<1>4. Fresh' /\ Buffered' /\ InBody' /\ Working'
  BY <1>1 DEF Fresh, Buffered, InBody, Working, Asked, EditBuffer
<1>5. OnlyRemovedMissing'
  BY <1>1 DEF OnlyRemovedMissing
<1> QED BY <1>3, <1>4, <1>5

\* The oracle refuses: what was removed is in the file again.
LEMMA RevertRefills ==
  ASSUME IInv, pc = "oracle", Revert, OracleRefuses(Msg(trial))
  PROVE  /\ file' = file \cup (Reverted(trial) \cap Cells)
         /\ file' \in Text /\ edits' = <<file'>> /\ source' = source
         /\ kept' = kept /\ kept' \subseteq file'
<1>1. /\ source = Cells /\ source' = source /\ kept' = kept
      /\ file \in Text /\ source \in Text /\ kept \in Text
      /\ EditBuffer = file
  BY DEF IInv, Fresh, Buffered, TypeOK, TextTypeOK, Revert, OracleRefuses
<1>2. /\ file' = (file \ Reverted(trial)) \cup (source \cap Reverted(trial))
      /\ file' \in Text /\ edits' = <<file'>>
  BY <1>1, EditsAreText DEF Revert
<1>3. file' = file \cup (Reverted(trial) \cap Cells)
  BY <1>1, <1>2 DEF Text
<1>4. kept \subseteq file \cup Removed(trial)
  BY DEF IInv, OnlyRemovedMissing
<1>5. Removed(trial) \subseteq Reverted(trial)
  <2>1. trial \in Questions /\ Asked(trial) /\ cur # 0
    BY DEF IInv, Working, Asked, Questions
  <2> QED BY <2>1, RevertCovers
<1> QED BY <1>1, <1>2, <1>3, <1>4, <1>5 DEF Text

\* The revert puts all back that the test removed, so nothing that was
\* accepted is missing between two tests.
LEMMA RefuseStep == IInv /\ (Refuse \/ RefuseChunk) => IInv'
<1> SUFFICES ASSUME IInv, Refuse \/ RefuseChunk PROVE IInv'
  OBVIOUS
<1>1. /\ pc = "oracle" /\ Revert /\ OracleRefuses(Msg(trial))
      /\ UNCHANGED <<functionBodies, body, cur, trial, stmts_, n>>
      /\ pc' \in {"then", "queue", "test"}
  BY DEF Refuse, RefuseChunk
<1>2. /\ file' \in Text /\ edits' = <<file'>> /\ source' = source
      /\ kept' = kept /\ kept' \subseteq file'
  BY <1>1, RevertRefills
<1>3. q' \in Seq(StmtId)
  <2>1. q \in Seq(StmtId)
    BY DEF IInv, TypeOK
  <2>2. CASE Refuse
    <3>1. PushIfRefused(trial) \in Seq(StmtId)
      BY <2>2, PushedFacts DEF Refuse
    <3> QED BY <2>1, <2>2, <3>1, ConcatProperties DEF Refuse
  <2>3. CASE RefuseChunk
    BY <2>1, <2>3 DEF RefuseChunk
  <2> QED BY <2>2, <2>3
<1>4. subsets' \in Seq(Seq(StmtId))
  <2>1. subsets \in Seq(Seq(StmtId))
    BY DEF IInv, TypeOK
  <2>2. CASE RefuseChunk
    BY <2>1, <2>2, HeadTailProperties DEF RefuseChunk, IInv, Working, Asked
  <2> QED BY <2>1, <2>2 DEF Refuse
<1>5. TypeOK'
  <2>1. TextTypeOK'
    BY <1>1, <1>2 DEF OracleRefuses, IInv, TypeOK, TextTypeOK, EditBuffer
  <2> QED BY <1>1, <1>3, <1>4, <2>1 DEF IInv, TypeOK
<1>6. Fresh' /\ Buffered' /\ InBody'
  BY <1>1, <1>2 DEF IInv, Fresh, Buffered, InBody, EditBuffer
<1>7. Working'
  BY <1>1 DEF IInv, Working, Asked, TwoBranches, Refuse, RefuseChunk
<1>8. OnlyRemovedMissing'
  BY <1>1, <1>2 DEF OnlyRemovedMissing
<1> QED BY <1>5, <1>6, <1>7, <1>8 DEF IInv

\* A step of anything else changes no text.
LEMMA StutterStep == IInv /\ UNCHANGED vars => IInv'
<1> SUFFICES ASSUME IInv, UNCHANGED vars PROVE IInv'
  OBVIOUS
<1> USE DEF IInv, vars, textVars, passVars, shared
<1>1. TypeOK'
  BY DEF TypeOK, TextTypeOK, EditBuffer
<1>2. Fresh' /\ Buffered' /\ InBody' /\ Working'
  BY DEF Fresh, Buffered, InBody, Working, Asked, TwoBranches, EditBuffer
<1>3. OnlyRemovedMissing'
  <2>1. HeadPart(cur)' = HeadPart(cur) /\ Hull(Head(subsets))' = Hull(Head(subsets))
    BY ParseFixed DEF HeadPart
  <2>2. ElsePart(cur)' = ElsePart(cur) /\ ThenPart(cur)' = ThenPart(cur)
    BY DEF ElsePart, ThenPart
  <2>3. Removed(trial)' = Removed(trial)
    BY <2>1, <2>2, Zenon DEF Removed
  <2> QED BY <2>3 DEF OnlyRemovedMissing
<1> QED BY <1>1, <1>2, <1>3

\* Every step preserves the strengthened invariant.
LEMMA NextStep == IInv /\ [Next]_vars => IInv'
  BY BeginStep, WalkStep, LabelStep, CompoundStep, RoundStep, QuestionStep,
     AcceptStep, AcceptChunkStep, RefuseStep, StutterStep
     DEF Next, hdd, ddmin, verdict
-----------------------------------------------------------------------------
\* The invariant holds in every state that the pass reaches.
THEOREM Invariance == Spec => []IInv
  BY InitInv, NextStep, PTL DEF Spec

\* The variables of the pass have the types of the C++ ones: a branch that is
\* pushed exists, and the number of subsets is never 0.
THEOREM TypeCorrect == Spec => []TypeOK
<1>1. IInv => TypeOK
  BY DEF IInv
<1> QED BY <1>1, Invariance, PTL

\* Whatever the program looks like and whatever the oracle answers, a revert
\* leaves all text of the last accepted version in the file.
THEOREM NothingAcceptedIsEverLost == Spec => []NothingAcceptedIsLost
<1>1. IInv => NothingAcceptedIsLost
  BY DEF IInv, OnlyRemovedMissing, NothingAcceptedIsLost, AtRest
<1> QED BY <1>1, Invariance, PTL
-----------------------------------------------------------------------------
\* Every step of the pass is a step that Reducer allows, or none of its
\* variables changes.
LEMMA StepRefines ==
  IInv /\ [Next]_vars => [R!Next]_<<kept, file, pc = "oracle">>
<1> SUFFICES ASSUME IInv, [Next]_vars
             PROVE  R!Next \/ UNCHANGED <<kept, file, pc = "oracle">>
  BY DEF R!Next
<1>1. /\ file \in Text /\ source \in Text /\ source = Cells
      /\ EditBuffer = file
  BY DEF IInv, TypeOK, TextTypeOK, Fresh, Buffered
<1>2. CASE reduceWhile \/ reduceIf \/ reduceIfThen \/ Test
  <2>1. PICK what : Ask(what) /\ pc # "oracle"
    BY <1>2 DEF reduceWhile, reduceIf, reduceIfThen, Test
  <2> DEFINE range == Removed(what) \cap Cells
  <2>2. file' = file \ range
    <3>1. file' = file \ Removed(what)
      BY <1>1, <2>1, EditsAreText DEF Ask, writeToFile
    <3> QED BY <1>1, <3>1 DEF Text
  <2>3. kept' = kept /\ pc' = "oracle"
    BY <2>1 DEF Ask, CallOracle
  <2> HIDE DEF range
  <2>4. R!Try(range)
    BY <2>1, <2>2, <2>3 DEF R!Try
  <2> QED BY <2>4 DEF R!Next, range
<1>3. CASE Accept \/ AcceptChunk
  BY <1>3 DEF Accept, AcceptChunk, OracleAccepts, R!Accept, R!Next
<1>4. CASE Refuse \/ RefuseChunk
  <2> DEFINE range == Reverted(trial) \cap Cells
  <2>1. /\ pc = "oracle" /\ Revert /\ OracleRefuses(Msg(trial))
        /\ pc' # "oracle"
    BY <1>4 DEF Refuse, RefuseChunk
  <2>2. file' = file \cup range /\ kept' = kept /\ kept' \subseteq file'
    BY <2>1, RevertRefills
  <2> HIDE DEF range
  <2>3. R!Revert(range)
    BY <2>1, <2>2 DEF R!Revert
  <2> QED BY <2>3 DEF R!Next, range
<1>5. CASE Begin
  BY <1>5 DEF Begin, Initialize, shared
<1>6. CASE \/ NextBody \/ Finish \/ BodyDone \/ Pop \/ HddIgnores \/ reduceLabel
           \/ reduceCompound \/ StartRound \/ TestFails \/ Refine \/ DdminDone
  BY <1>6 DEF NextBody, Finish, BodyDone, Pop, HddIgnores, reduceLabel,
              reduceCompound, StartRound, TestFails, Refine, DdminDone,
              textVars, shared
<1>7. CASE UNCHANGED vars
  BY <1>7 DEF vars, textVars, passVars, shared
<1> QED BY <1>2, <1>3, <1>4, <1>5, <1>6, <1>7 DEF Next, hdd, ddmin, verdict

\* The local pass implements Reducer: it edits in place, one judged candidate
\* at a time, and no revert loses anything that was accepted.
THEOREM Refinement == Spec => RefinesReducer
<1>1. Init => R!Init
  BY DEF Init, TransformationInit, PassInit, R!Init
<1> QED BY <1>1, StepRefines, Invariance, PTL DEF Spec, RefinesReducer, R!Spec
=============================================================================
