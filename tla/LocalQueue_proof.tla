--------------------------- MODULE LocalQueue_proof ---------------------------
(***************************************************************************)
(* What waits in the queue of LocalReduction: no statement twice, and in   *)
(* blocks whose statements end before the next one begins, none that is    *)
(* half reduced.  Both rest on the order of the walk: of two statements    *)
(* that are waiting, or waiting and under work, neither contains the other *)
(* (QueueApart), except that ddmin works on a block whose statements are   *)
(* in the queue already.  From that follows, with an oracle that gives one *)
(* text always the same answer and blocks that ddmin cuts without a gap,   *)
(* that every revert is exact and that no statement of a block that ddmin  *)
(* has left can go alone.                                                  *)
(***************************************************************************)
EXTENDS LocalReduction_proof

Disjoint(s, t) == Extent(s) \cap Extent(t) = {}

\* A statement is not disjoint from itself, and its parts are within it.
LEMMA DisjointFacts ==
  ASSUME NEW s \in StmtId, NEW t \in StmtId
  PROVE  /\ ~Disjoint(s, s)
         /\ Disjoint(s, t) => Disjoint(t, s)
         /\ Disjoint(s, t) => \A c \in Parts(t) : Disjoint(s, c)
<1>1. First(s) \in Nat /\ Last(s) \in Nat /\ First(s) <= Last(s)
  BY StmtFacts, LocalReductionAssumption DEF Nested
<1>2. First(s) \in Extent(s)
  BY <1>1 DEF Extent
<1>3. \A c \in Parts(t) : Extent(c) \subseteq Extent(t)
  BY LocalReductionAssumption DEF Nested
<1> QED BY <1>2, <1>3 DEF Disjoint

\* Two parts of one statement are disjoint.
LEMMA PartsDisjoint ==
  ASSUME NEW s \in StmtId, NEW c \in Parts(s), NEW d \in Parts(s), c # d
  PROVE  Disjoint(c, d)
<1>1. /\ c \in Nat /\ d \in Nat
      /\ First(c) \in Nat /\ Last(c) \in Nat /\ First(d) \in Nat /\ Last(d) \in Nat
  BY StmtFacts DEF Parts
<1>2. CASE c < d
  BY <1>1, <1>2, SiblingsApart DEF Disjoint, Extent
<1>3. CASE d < c
  BY <1>1, <1>3, SiblingsApart DEF Disjoint, Extent
<1> QED BY <1>1, <1>2, <1>3

Apart(list) == \A i, j \in DOMAIN list : i # j => Disjoint(list[i], list[j])

\* Statements can be pushed when they are disjoint from all that waits.
LEMMA PushApart ==
  ASSUME NEW list \in Seq(StmtId), Apart(list),
         NEW more \in Seq(StmtId), Apart(more),
         \A i \in DOMAIN list, j \in DOMAIN more : Disjoint(list[i], more[j])
  PROVE  /\ Apart(list \o more)
         /\ \A i \in DOMAIN (list \o more) :
              \/ \E k \in DOMAIN list : (list \o more)[i] = list[k]
              \/ \E k \in DOMAIN more : (list \o more)[i] = more[k]
<1> DEFINE all == list \o more
<1>1. /\ Len(list) \in Nat /\ DOMAIN list = 1 .. Len(list)
      /\ Len(more) \in Nat /\ DOMAIN more = 1 .. Len(more)
      /\ \A i \in DOMAIN list : list[i] \in StmtId
      /\ \A i \in DOMAIN more : more[i] \in StmtId
  BY LenProperties, ElementOfSeq
<1>2. /\ DOMAIN all = 1 .. Len(list) + Len(more)
      /\ \A i \in 1 .. Len(list) + Len(more) :
           all[i] = IF i <= Len(list) THEN list[i] ELSE more[i - Len(list)]
  BY <1>1, ConcatProperties, LenProperties
<1> HIDE DEF all
<1>3. \A i \in DOMAIN all :
        \/ i \in DOMAIN list /\ all[i] = list[i]
        \/ i - Len(list) \in DOMAIN more /\ all[i] = more[i - Len(list)]
  BY <1>1, <1>2
<1>4. ASSUME NEW i \in DOMAIN all, NEW j \in DOMAIN all, i # j
      PROVE  Disjoint(all[i], all[j])
  <2>1. i \in Nat /\ j \in Nat /\ i - Len(list) # j - Len(list)
    BY <1>1, <1>2, <1>4
  <2>2. CASE i \in DOMAIN list /\ all[i] = list[i]
    <3>1. CASE j \in DOMAIN list /\ all[j] = list[j]
      BY <1>4, <2>2, <3>1 DEF Apart
    <3>2. CASE j - Len(list) \in DOMAIN more /\ all[j] = more[j - Len(list)]
      BY <2>2, <3>2
    <3> QED BY <1>3, <3>1, <3>2
  <2>3. CASE i - Len(list) \in DOMAIN more /\ all[i] = more[i - Len(list)]
    <3>1. CASE j \in DOMAIN list /\ all[j] = list[j]
      BY <1>1, <2>3, <3>1, DisjointFacts
    <3>2. CASE j - Len(list) \in DOMAIN more /\ all[j] = more[j - Len(list)]
      BY <2>1, <2>3, <3>2 DEF Apart
    <3> QED BY <1>3, <3>1, <3>2
  <2> QED BY <1>3, <2>2, <2>3
<1> QED BY <1>3, <1>4 DEF Apart, all
-----------------------------------------------------------------------------
InBlock == pc \in {"round", "test"} \/ (pc = "oracle" /\ trial = "chunk")

QueueApart ==
  /\ pc \in {"start", "body", "done"} => q = <<>>
  /\ Apart(q)
  /\ pc \in {"hdd", "then", "round", "test", "oracle"} =>
       \A i \in DOMAIN q :
         Disjoint(q[i], cur) \/ (InBlock /\ q[i] \in Parts(cur))

\* What ddmin works on are statements of the block.
BlockLists ==
  InBlock => /\ stmts_ \in Seq(Parts(cur))
             /\ subsets \in Seq(Seq(Parts(cur)) \ {<<>>})

QInv == IInv /\ QueueApart /\ BlockLists

\* An empty queue.
LEMMA QueueInit == Init => QInv
<1> SUFFICES ASSUME Init PROVE QueueApart /\ BlockLists
  BY InitInv DEF QInv
<1> QED BY DEF Init, PassInit, QueueApart, BlockLists, Apart, InBlock
\* The chunks of a block are not empty and hold statements of the block.
LEMMA ChunksOfBlock ==
  ASSUME NEW S, NEW vec \in Seq(S), NEW parts \in Nat \ {0}
  PROVE  split(vec, parts) \in Seq(Seq(S) \ {<<>>})
<1> DEFINE chunks == split(vec, parts)
           a(i) == ChunkFirst(vec, parts, i)
           z(i) == ChunkLast(vec, parts, i)
<1>1. /\ chunks \in Seq(Seq(S))
      /\ \A i \in DOMAIN chunks :
           /\ a(i) \in 1 .. Len(vec) /\ z(i) \in 1 .. Len(vec) /\ a(i) <= z(i)
           /\ chunks[i] = SubSeq(vec, a(i), z(i))
  BY SplitChunks
<1>2. /\ Len(chunks) \in Nat /\ DOMAIN chunks = 1 .. Len(chunks)
      /\ \A i \in DOMAIN chunks : chunks[i] \in Seq(S)
      /\ Len(vec) \in Nat /\ \A k \in 1 .. Len(vec) : vec[k] \in S
  BY <1>1, LenProperties, ElementOfSeq
<1> HIDE DEF chunks, a, z
<1>3. ASSUME NEW i \in DOMAIN chunks PROVE chunks[i] # <<>>
  <2> DEFINE x == a(i)
             y == z(i)
  <2>1. /\ x \in Int /\ y \in Int /\ x <= y /\ \A k \in x .. y : vec[k] \in S
        /\ chunks[i] = SubSeq(vec, x, y)
    BY <1>1, <1>2
  <2> HIDE DEF x, y
  <2>2. Len(SubSeq(vec, x, y)) = y - x + 1
    BY <2>1, SubSeqProperties
  <2>3. Len(chunks[i]) >= 1
    BY <2>1, <2>2
  <2> QED BY <2>3
<1>4. chunks \in [1 .. Len(chunks) -> Seq(S) \ {<<>>}]
  <2>1. chunks = [i \in DOMAIN chunks |-> chunks[i]]
    BY DEF chunks, split
  <2> QED BY <1>2, <1>3, <2>1
<1> QED BY <1>2, <1>4, FunctionIsVector DEF chunks

\* The parts of the current statement may be pushed while nothing of it waits.
LEMMA PushParts ==
  ASSUME QInv, pc \in {"hdd", "then", "oracle"}, ~InBlock,
         NEW more \in Seq(Parts(cur)), Apart(more)
  PROVE  /\ Apart(q \o more)
         /\ \A i \in DOMAIN (q \o more) :
              Disjoint((q \o more)[i], cur) \/ (q \o more)[i] \in Parts(cur)
<1>1. cur \in StmtId /\ q \in Seq(StmtId) /\ Apart(q)
  BY DEF QInv, IInv, TypeOK, Working, QueueApart
<1>2. \A i \in DOMAIN q : q[i] \in StmtId /\ Disjoint(q[i], cur)
  BY <1>1, ElementOfSeq, LenProperties DEF QInv, QueueApart
<1>3. more \in Seq(StmtId) /\ \A j \in DOMAIN more : more[j] \in Parts(cur)
  <2>1. Parts(cur) \subseteq StmtId
    BY DEF Parts
  <2> QED BY <2>1, SeqMonotonic, ElementOfSeq, LenProperties
<1>4. \A i \in DOMAIN q, j \in DOMAIN more : Disjoint(q[i], more[j])
  BY <1>1, <1>2, <1>3, DisjointFacts
<1> HIDE DEF QInv
<1> QED BY <1>1, <1>2, <1>3, <1>4, PushApart

\* Steps that leave the queue and the current statement alone.
LEMMA QueueRests ==
  ASSUME QInv, UNCHANGED <<q, cur>>, pc' # "start",
         \/ pc' = "queue"
         \/ pc' \in {"body", "done"} /\ q = <<>>
         \/ InBlock /\ InBlock'
         \/ pc \in {"hdd", "then", "oracle"} /\ ~InBlock
             /\ pc' \in {"then", "oracle"}
  PROVE  QueueApart'
  BY DEF QInv, QueueApart, Apart, InBlock

\* What hdd pushes are parts of the statement it took from the queue, or
\* the elements of a block that it works on: none of them is waiting yet.
LEMMA QueueStep == QInv /\ [Next]_vars => QInv'
<1> SUFFICES ASSUME QInv, [Next]_vars
             PROVE  QueueApart' /\ BlockLists'
  BY NextStep DEF QInv
<1>1. /\ IInv /\ QueueApart /\ BlockLists
      /\ q \in Seq(StmtId) /\ cur \in StmtId \cup {0} /\ n \in Nat \ {0}
      /\ DOMAIN q = 1 .. Len(q) /\ Len(q) \in Nat
      /\ \A i \in DOMAIN q : q[i] \in StmtId
  BY LenProperties, ElementOfSeq DEF QInv, IInv, TypeOK
<1>2. CASE Begin
  BY <1>1, <1>2 DEF Begin, QueueApart, Apart, BlockLists, InBlock
<1>3. CASE NextBody
  <2>1. q = <<>>
    BY <1>1, <1>3 DEF NextBody, QueueApart
  <2>2. /\ Len(q') = 1
        /\ DOMAIN q' = 1 .. 1 /\ pc' = "queue"
    <3>1. functionBodies[body'].stmt \in StmtId
      <4>1. /\ functionBodies \in Seq([stmt : StmtId, text : Text])
            /\ body' \in 1 .. Len(functionBodies)
        BY <1>3, LenProperties DEF QInv, IInv, TypeOK, NextBody
      <4>2. functionBodies[body'] \in [stmt : StmtId, text : Text]
        BY <4>1, ElementOfSeq
      <4> QED BY <4>2
    <3> DEFINE root == functionBodies[body'].stmt
    <3>2. q' = Append(q, root) /\ root \in StmtId /\ pc' = "queue"
      BY <1>3, <3>1 DEF NextBody
    <3> HIDE DEF root
    <3>3. Len(q) = 0
      BY <2>1
    <3> QED BY <1>1, <3>2, <3>3, AppendProperties, LenProperties
  <2>3. \A i, j \in DOMAIN q' : i = j
    BY <2>2
  <2> QED BY <2>2, <2>3 DEF QueueApart, Apart, BlockLists, InBlock
<1>4. CASE Finish \/ BodyDone
  BY <1>1, <1>4 DEF Finish, BodyDone, QueueApart, Apart, BlockLists, InBlock
<1>5. CASE Pop
  <2>1. /\ q # <<>> /\ cur' = Head(q) /\ q' = Tail(q) /\ pc' = "hdd"
    BY <1>5 DEF Pop
  <2>2. /\ Head(q) = q[1] /\ 1 \in DOMAIN q
        /\ \A i \in DOMAIN Tail(q) : i + 1 \in DOMAIN q /\ Tail(q)[i] = q[i + 1]
                                    /\ i + 1 # 1 /\ i \in Nat
    <3>1. /\ Head(q) = q[1] /\ Tail(q) \in Seq(StmtId)
          /\ Len(Tail(q)) = Len(q) - 1
          /\ \A i \in 1 .. Len(Tail(q)) : Tail(q)[i] = q[i + 1]
      BY <1>1, <2>1, HeadTailProperties
    <3>2. Len(q) # 0
      BY <1>1, <2>1, EmptySeq
    <3> QED BY <1>1, <3>1, <3>2, LenProperties
  <2>3. \A i, j \in DOMAIN q' : i # j => Disjoint(q'[i], q'[j])
    <3>1. \A i, j \in DOMAIN q' : i # j => i + 1 # j + 1
      BY <2>1, <2>2
    <3> QED BY <1>1, <2>1, <2>2, <3>1 DEF QueueApart, Apart
  <2>4. \A i \in DOMAIN q' : Disjoint(q'[i], cur')
    BY <1>1, <2>1, <2>2 DEF QueueApart, Apart
  <2> QED BY <2>1, <2>3, <2>4 DEF QueueApart, Apart, BlockLists, InBlock
<1>6. CASE HddIgnores \/ DdminDone
  BY <1>1, <1>6, QueueRests
     DEF HddIgnores, DdminDone, BlockLists, InBlock
<1>7. CASE reduceLabel
  <2>1. /\ pc = "hdd" /\ pc' = "queue" /\ cur' = cur /\ ~InBlock
        /\ q' = Append(q, Then(cur)) /\ Then(cur) \in Parts(cur)
    BY <1>1, <1>7, PushedAreParts DEF reduceLabel, InBlock, IInv, Working
  <2>2. q' = q \o <<Then(cur)>> /\ <<Then(cur)>> \in Seq(Parts(cur))
    <3>1. Then(cur) \in StmtId
      BY <2>1 DEF Parts
    <3> QED BY <1>1, <2>1, <3>1, AppendIsConcat
  <2>3. Apart(<<Then(cur)>>)
    BY DEF Apart
  <2>4. Apart(q')
    BY <2>1, <2>2, <2>3, PushParts
  <2> QED BY <2>1, <2>4 DEF QueueApart, Apart, BlockLists, InBlock
<1>8. CASE reduceCompound
  <2>1. /\ pc = "hdd" /\ pc' = "round" /\ cur' = cur /\ ~InBlock
        /\ q' = q \o Children(cur) /\ stmts_' = Children(cur) /\ subsets' = <<>>
        /\ cur \in StmtId /\ Parsed = Cells
    BY <1>1, <1>8, PushedAreParts DEF reduceCompound, InBlock, IInv, Working
  <2>2. /\ Children(cur) \in Seq(Parts(cur))
        /\ Increasing(Children(cur))
    BY <2>1, ChildrenAreParts
  <2>3. Apart(Children(cur))
    <3>1. \A i \in DOMAIN Children(cur) :
            i \in Nat /\ Children(cur)[i] \in Parts(cur) /\ Children(cur)[i] \in Nat
      <4>1. Parts(cur) \in SUBSET Nat
        BY StmtFacts DEF Parts
      <4> QED BY <2>2, <4>1, ElementOfSeq, LenProperties
    <3>2. \A i, j \in DOMAIN Children(cur) :
            i # j => Children(cur)[i] # Children(cur)[j]
      <4>1. \A i, j \in DOMAIN Children(cur) : i # j => i < j \/ j < i
        BY <3>1
      <4> QED BY <2>2, <3>1, <4>1 DEF Increasing
    <3> QED BY <2>1, <3>1, <3>2, PartsDisjoint DEF Apart
  <2>4. /\ Apart(q')
        /\ \A i \in DOMAIN q' : Disjoint(q'[i], cur) \/ q'[i] \in Parts(cur)
    BY <2>1, <2>2, <2>3, PushParts
  <2>5. BlockLists'
    BY <2>1, <2>2, EmptySeq DEF BlockLists, Parts
  <2> QED BY <2>1, <2>4, <2>5 DEF QueueApart, Apart, InBlock, Parts
<1>9. CASE reduceWhile \/ reduceIf \/ reduceIfThen
  <2>1. /\ UNCHANGED <<q, cur>> /\ pc \in {"hdd", "then"} /\ pc' = "oracle"
        /\ trial' # "chunk"
    BY <1>9 DEF reduceWhile, reduceIf, reduceIfThen, Ask
  <2> QED BY <2>1, QueueRests DEF BlockLists, InBlock
<1>10. CASE Test \/ RefuseChunk \/ StartRound \/ TestFails \/ Refine \/ AcceptChunk
  <2>1. InBlock /\ InBlock' /\ UNCHANGED <<q, cur>> /\ pc' # "start"
    BY <1>10 DEF Test, RefuseChunk, StartRound, TestFails, Refine, AcceptChunk,
                 Ask, InBlock
  <2>2. /\ stmts_ \in Seq(Parts(cur))
        /\ subsets \in Seq(Seq(Parts(cur)) \ {<<>>})
        /\ Parts(cur)' = Parts(cur)
    BY <1>1, <2>1 DEF BlockLists, Parts
  <2>3. stmts_' \in Seq(Parts(cur))
    BY <1>10, <2>2, DifferenceRemoves
       DEF Test, RefuseChunk, StartRound, TestFails, Refine, AcceptChunk, Ask
  <2>4. subsets' \in Seq(Seq(Parts(cur)) \ {<<>>})
    <3>1. CASE Test \/ Refine
      BY <2>2, <3>1 DEF Test, Refine, Ask
    <3>2. CASE RefuseChunk \/ TestFails
      <4> DEFINE S == Seq(Parts(cur)) \ {<<>>}
      <4>1. subsets \in Seq(S) /\ subsets # <<>> /\ subsets' = Tail(subsets)
        BY <1>1, <2>2, <3>2 DEF RefuseChunk, TestFails, IInv, Working, Asked
      <4> HIDE DEF S
      <4>2. subsets' \in Seq(S)
        BY <4>1, HeadTailProperties
      <4> QED BY <4>2 DEF S
    <3>3. CASE AcceptChunk
      BY <3>3, EmptySeq DEF AcceptChunk
    <3>4. CASE StartRound
      BY <1>1, <2>2, <3>4, ChunksOfBlock DEF StartRound
    <3> QED BY <1>10, <3>1, <3>2, <3>3, <3>4
  <2> QED BY <2>1, <2>2, <2>3, <2>4, QueueRests DEF BlockLists
<1>11. CASE Accept
  <2> DEFINE more == PushIfAccepted(trial)
  <2>1. /\ pc = "oracle" /\ ~InBlock /\ pc' = "queue" /\ q' = q \o more
    BY <1>11 DEF Accept, InBlock
  <2>2. more \in Seq(Parts(cur)) /\ Apart(more)
    <3>1. /\ Then(cur) \in Parts(cur)
          /\ trial = "then" => Else(cur) \in Parts(cur)
      BY <1>1, <1>11, PushedFacts DEF Accept, IInv, Working, Asked
    <3> QED BY <3>1 DEF PushIfAccepted, Apart
  <2> HIDE DEF more
  <2>3. Apart(q')
    BY <2>1, <2>2, PushParts
  <2> QED BY <2>1, <2>3 DEF QueueApart, Apart, BlockLists, InBlock
<1>12. CASE Refuse /\ trial = "else"
  BY <1>12, QueueRests DEF Refuse, BlockLists, InBlock
<1>13. CASE Refuse /\ trial # "else"
  <2> DEFINE more == PushIfRefused(trial)
  <2>1. /\ pc = "oracle" /\ ~InBlock /\ pc' = "queue" /\ q' = q \o more
    BY <1>13 DEF Refuse, InBlock
  <2>2. more \in Seq(Parts(cur)) /\ Apart(more)
    <3>1. /\ Then(cur) \in Parts(cur)
          /\ trial = "then" => Else(cur) \in Parts(cur) /\ TwoBranches(cur)
      BY <1>1, <1>13, PushedFacts DEF Refuse, IInv, Working, Asked
    <3>2. trial = "then" => Disjoint(Then(cur), Else(cur))
                            /\ Disjoint(Else(cur), Then(cur))
      <4> SUFFICES ASSUME trial = "then" PROVE Then(cur) # Else(cur)
        <5>1. cur \in StmtId
          BY <1>1, <1>13 DEF Refuse, IInv, Working
        <5> QED BY <3>1, <5>1, PartsDisjoint
      <4>1. /\ cur \in StmtId
            /\ Last(Then(cur)) < Stmts[cur].elseLoc
            /\ Stmts[cur].elseLoc < First(Else(cur))
        BY <1>1, <1>13, <3>1, PushedAreParts, IfElseFacts
           DEF Refuse, IInv, Working
      <4>2. Then(cur) \in StmtId /\ First(Then(cur)) <= Last(Then(cur))
        BY <3>1, <4>1, PartFacts
      <4>3. /\ First(Then(cur)) \in Nat /\ Last(Then(cur)) \in Nat
            /\ Stmts[cur].elseLoc \in Nat
        BY <4>1, <4>2, StmtFacts
      <4> QED BY <4>1, <4>2, <4>3
    <3>3. CASE trial = "then"
      <4>1. more = <<Then(cur), Else(cur)>>
        BY <3>3 DEF PushIfRefused
      <4>2. DOMAIN more = 1 .. 2 /\ more[1] = Then(cur) /\ more[2] = Else(cur)
        BY <4>1
      <4> HIDE DEF more
      <4>3. \A i \in DOMAIN more : i = 1 \/ i = 2
        BY <4>2
      <4>4. Apart(more)
        BY <3>2, <3>3, <4>2, <4>3 DEF Apart
      <4> QED BY <3>1, <3>3, <4>1, <4>4
    <3>4. CASE trial # "then"
      BY <3>1, <3>4 DEF PushIfRefused, Apart
    <3> QED BY <3>3, <3>4
  <2> HIDE DEF more
  <2>3. Apart(q')
    BY <2>1, <2>2, PushParts
  <2> QED BY <2>1, <2>3 DEF QueueApart, Apart, BlockLists, InBlock
<1>14. CASE UNCHANGED vars
  BY <1>1, <1>14
     DEF vars, passVars, QueueApart, Apart, BlockLists, InBlock, Parts
<1> QED BY <1>2, <1>3, <1>4, <1>5, <1>6, <1>7, <1>8, <1>9, <1>10, <1>11, <1>12,
           <1>13, <1>14 DEF Next, hdd, ddmin, verdict
-----------------------------------------------------------------------------
\* The statements that wait are different from one another, and from the one
\* hdd works on: however the oracle answers, no branch is pushed twice and no
\* statement is visited twice (LocalReduction.cc:262-279).
THEOREM NoStatementWaitsTwice == Spec => []QueuedOnce
<1>1. QInv => QueuedOnce
  <2> SUFFICES ASSUME QInv PROVE QueuedOnce
    OBVIOUS
  <2>1. /\ q \in Seq(StmtId) /\ cur \in StmtId \cup {0} /\ 0 \notin StmtId
        /\ \A i \in DOMAIN q : q[i] \in StmtId
    BY StmtFacts, LenProperties, ElementOfSeq DEF QInv, IInv, TypeOK
  <2>2. \A i, j \in DOMAIN q : q[i] = q[j] => i = j
    BY <2>1, DisjointFacts DEF QInv, QueueApart, Apart
  <2>3. ASSUME pc \in {"hdd", "then", "round", "test", "oracle"},
               NEW i \in DOMAIN q, q[i] = cur
        PROVE  FALSE
    <3>1. Disjoint(cur, cur) \/ cur \in Parts(cur)
      BY <2>3 DEF QInv, QueueApart
    <3>2. cur \in StmtId
      BY <2>1, <2>3
    <3>3. cur \in Parts(cur) => cur < cur /\ cur \in Nat
      BY <3>2, PartFacts, StmtFacts
    <3> QED BY <3>1, <3>2, <3>3, DisjointFacts
  <2> QED BY <2>2, <2>3 DEF QueuedOnce
<1> QED BY QueueInit, QueueStep, <1>1, PTL DEF Spec
-----------------------------------------------------------------------------
(***************************************************************************)
(* QueuedAreWholeOrGone, for the programs that are Separate.               *)
(***************************************************************************)
\* The cases of TestEnd.
LEMMA TestEndCases ==
  ASSUME NEW s
  PROVE  /\ Kind(s) \in {"compound", "if", "while"} => TestEnd(s) = Last(s)
         /\ Kind(s) = "label" /\ Kind(Then(s)) = "compound"
              => TestEnd(s) = Last(Then(s))
         /\ Kind(s) = "label" /\ Kind(Then(s)) # "compound"
              => TestEnd(s) = NextSemi(Last(Then(s)))
         /\ Kind(s) \notin {"compound", "if", "while", "label"}
              => TestEnd(s) = NextSemi(Last(s))
<1>1. "label" \notin {"compound", "if", "while"}
  OBVIOUS
<1> QED BY <1>1, Zenon DEF TestEnd

\* The scan for a ';' stops at the first one, or before.
LEMMA NextSemiStops ==
  ASSUME source = Cells, NEW after \in Nat, NEW semi \in Semis, after < semi
  PROVE  /\ NextSemi(after) \in Nat
         /\ after < NextSemi(after) /\ NextSemi(after) <= semi
<1> DEFINE semis == {c \in Semis \cap source : c > after}
<1>1. semis \in SUBSET Nat /\ semi \in semis
  <2>1. Semis \subseteq Cells
    BY LocalReductionAssumption
  <2> QED BY <2>1, StmtFacts
<1>2. \E c \in semis : \A s \in semis : c <= s
  BY <1>1, LeastMember
<1>3. NextSemi(after) = CHOOSE c \in semis : \A s \in semis : c <= s
  BY <1>1 DEF NextSemi
<1>4. \A c \in semis : c > after
  OBVIOUS
<1> HIDE DEF semis
<1> QED BY <1>1, <1>2, <1>3, <1>4

\* In a block of a Separate program, what test removes for a statement ends
\* behind it, within the block and in front of the statements that follow.
LEMMA TestEndInBlock ==
  ASSUME Separate, source = Cells, Parsed = Cells,
         NEW p \in StmtId, Kind(p) = "compound",
         NEW s \in Parts(p), Kind(s) # "other"
  PROVE  /\ TestEnd(s) \in Nat
         /\ Last(s) <= TestEnd(s) /\ TestEnd(s) <= Last(p)
         /\ \A d \in Parts(p) : s < d => TestEnd(s) < First(d)
<1>1. /\ s \in StmtId /\ Last(s) <= Last(p)
      /\ First(s) \in Nat /\ Last(s) \in Nat /\ Last(p) \in Nat
      /\ \A d \in Parts(p) : s < d => Last(s) < First(d)
      /\ \A d \in Parts(p) : First(d) \in Nat
  BY PartFacts, SiblingsApart, StmtFacts DEF Parts
<1>2. ASSUME TestEnd(s) = NextSemi(Last(s)),
             \/ Kind(s) \in Simple
             \/ Kind(s) = "label" /\ \A c \in Parts(s) : Kind(c) # "compound"
      PROVE  /\ TestEnd(s) \in Nat
             /\ Last(s) <= TestEnd(s) /\ TestEnd(s) <= Last(p)
             /\ \A d \in Parts(p) : s < d => TestEnd(s) < First(d)
  <2>1. PICK semi \in Semis :
          /\ Last(s) < semi /\ semi <= Last(p)
          /\ \A d \in Parts(p) : s < d => semi < First(d)
    BY <1>1, <1>2 DEF Separate
  <2>2. semi \in Nat
    <3>1. Semis \subseteq Cells
      BY LocalReductionAssumption
    <3> QED BY <3>1, StmtFacts
  <2> QED BY <1>1, <1>2, <2>1, <2>2, NextSemiStops
<1>3. CASE Kind(s) \in {"compound", "if", "while"}
  BY <1>1, <1>3, TestEndCases
<1>4. CASE Kind(s) = "label"
  <2>1. PICK c \in StmtId : Parts(s) = {c} /\ Last(c) = Last(s)
    BY <1>1, <1>4, LocalReductionAssumption DEF Complete
  <2>2. Then(s) = c
    BY <1>1, <2>1, BranchFacts
  <2>3. CASE Kind(c) = "compound"
    BY <1>1, <1>4, <2>1, <2>2, <2>3, TestEndCases
  <2>4. CASE Kind(c) # "compound"
    BY <1>2, <1>4, <2>1, <2>2, <2>4, TestEndCases
  <2> QED BY <2>3, <2>4
<1>5. CASE Kind(s) \in Simple
  <2>1. TestEnd(s) = NextSemi(Last(s))
    BY <1>5, TestEndCases DEF Simple
  <2> QED BY <1>2, <1>5, <2>1
<1> QED BY <1>1, <1>3, <1>4, <1>5, StmtFacts DEF Kinds

\* Blanking or restoring a range does not divide a statement that is spared.
Spared(s, range) == Extent(s) \subseteq range \/ Extent(s) \cap range = {}

\* The hull of some statements of a block lies in the block, and divides none
\* of its statements.
LEMMA HullSpares ==
  ASSUME Separate, source = Cells, Parsed = Cells,
         NEW p \in StmtId, Kind(p) = "compound",
         NEW subset \in Seq(Parts(p)), subset # <<>>, Testable(subset)
  PROVE  /\ Hull(subset) \subseteq Extent(p)
         /\ \A c \in Parts(p) : Spared(c, Hull(subset))
<1> DEFINE a == subset[1]
           z == subset[Len(subset)]
<1>1. a \in Parts(p) /\ z \in Parts(p)
  BY EmptySeq, ElementOfSeq, LenProperties
<1>2. Kind(z) # "other"
  BY DEF Testable
<1>3. Hull(subset) = First(a) .. TestEnd(z)
  BY DEF Hull
<1> HIDE DEF a, z
<1>4. /\ TestEnd(z) \in Nat
      /\ Last(z) <= TestEnd(z) /\ TestEnd(z) <= Last(p)
      /\ \A d \in Parts(p) : z < d => TestEnd(z) < First(d)
  BY <1>1, <1>2, TestEndInBlock
<1>5. \A c \in Parts(p) :
        /\ c \in Nat /\ First(c) \in Nat /\ Last(c) \in Nat
        /\ First(p) <= First(c) /\ First(c) <= Last(c)
        /\ \A d \in Parts(p) : c < d => Last(c) < First(d)
  BY PartFacts, SiblingsApart, StmtFacts DEF Parts
<1>6. First(p) \in Nat /\ Last(p) \in Nat
  BY StmtFacts
<1>7. Hull(subset) \subseteq Extent(p)
  BY <1>1, <1>3, <1>4, <1>5, <1>6 DEF Extent
<1>8. ASSUME NEW c \in Parts(p) PROVE Spared(c, Hull(subset))
  <2>1. CASE c < a
    <3>1. Last(c) < First(a)
      BY <1>1, <1>5, <2>1
    <3> QED BY <1>1, <1>3, <1>4, <1>5, <3>1 DEF Spared, Extent
  <2>2. CASE z < c
    <3>1. TestEnd(z) < First(c)
      BY <1>4, <2>2
    <3> QED BY <1>1, <1>3, <1>4, <1>5, <3>1 DEF Spared, Extent
  <2>3. CASE ~(c < a) /\ ~(z < c)
    <3>1. (c = a \/ a < c) /\ (c = z \/ c < z)
      BY <1>1, <1>5, <2>3
    <3>2. First(a) <= First(c)
      <4>1. a < c => Last(a) < First(c)
        BY <1>1, <1>5
      <4> QED BY <1>1, <1>5, <3>1, <4>1
    <3>3. Last(c) <= TestEnd(z)
      <4>1. c < z => Last(c) < First(z)
        BY <1>1, <1>5
      <4> QED BY <1>1, <1>4, <1>5, <3>1, <4>1
    <3> QED BY <1>1, <1>3, <1>4, <1>5, <3>2, <3>3 DEF Spared, Extent
  <2> QED BY <2>1, <2>2, <2>3
<1> QED BY <1>7, <1>8
-----------------------------------------------------------------------------
\* The bodies whose turn has still to come.
Later == {functionBodies[i].stmt :
            i \in {j \in DOMAIN functionBodies : body < j}}

AtWork == pc \in {"hdd", "then", "round", "test", "oracle"}

BodiesApart ==
  /\ \A i, j \in DOMAIN functionBodies :
       i # j => Disjoint(functionBodies[i].stmt, functionBodies[j].stmt)
  /\ \A s \in Later :
       /\ \A k \in DOMAIN q : Disjoint(s, q[k])
       /\ AtWork => Disjoint(s, cur)

BInv == QInv /\ BodiesApart

\* The bodies to reduce are statements.
LEMMA BodiesAreStmts ==
  ASSUME NEW bodies \in Seq([stmt : StmtId, text : Text])
  PROVE  /\ Len(bodies) \in Nat /\ DOMAIN bodies = 1 .. Len(bodies)
         /\ DOMAIN bodies \in SUBSET Nat
         /\ \A i \in DOMAIN bodies : bodies[i].stmt \in StmtId
<1> DEFINE B == [stmt : StmtId, text : Text]
<1>1. Len(bodies) \in Nat /\ DOMAIN bodies = 1 .. Len(bodies)
  BY LenProperties
<1>2. \A i \in DOMAIN bodies : bodies[i] \in B
  BY <1>1, ElementOfSeq
<1> QED BY <1>1, <1>2

\* So are those whose turn is still to come.
LEMMA LaterFacts ==
  ASSUME IInv
  PROVE  /\ body \in Nat /\ DOMAIN functionBodies \in SUBSET Nat
         /\ DOMAIN functionBodies = 1 .. Len(functionBodies)
         /\ \A i \in DOMAIN functionBodies : functionBodies[i].stmt \in StmtId
         /\ Later \subseteq StmtId
<1>1. /\ functionBodies \in Seq([stmt : StmtId, text : Text])
      /\ body \in 0 .. Len(functionBodies)
  BY DEF IInv, TypeOK
<1>2. /\ Len(functionBodies) \in Nat
      /\ DOMAIN functionBodies = 1 .. Len(functionBodies)
      /\ DOMAIN functionBodies \in SUBSET Nat
      /\ \A i \in DOMAIN functionBodies : functionBodies[i].stmt \in StmtId
  BY <1>1, BodiesAreStmts
<1>3. body \in Nat
  BY <1>1, <1>2
<1>4. Later \subseteq StmtId
  BY <1>2 DEF Later
<1> QED BY <1>2, <1>3, <1>4

\* What a step adds to the queue are parts of the current statement.
LEMMA QueueGrows ==
  ASSUME QInv, [Next]_vars, ~Begin, ~NextBody
  PROVE  \A k \in DOMAIN q' :
           \/ \E j \in DOMAIN q : q'[k] = q[j]
           \/ pc \in {"hdd", "oracle"} /\ q'[k] \in Parts(cur)
<1>1. /\ IInv /\ QueueApart /\ BlockLists
      /\ q \in Seq(StmtId) /\ Apart(q)
      /\ DOMAIN q = 1 .. Len(q) /\ Len(q) \in Nat
  BY LenProperties DEF QInv, IInv, TypeOK, QueueApart
<1>2. CASE q' = q
  BY <1>2
<1>3. CASE Pop
  <2>1. /\ Len(Tail(q)) = Len(q) - 1 /\ Tail(q) \in Seq(StmtId)
        /\ \A i \in 1 .. Len(Tail(q)) : Tail(q)[i] = q[i + 1]
    BY <1>1, <1>3, HeadTailProperties DEF Pop
  <2>2. \A k \in DOMAIN Tail(q) : k + 1 \in DOMAIN q /\ Tail(q)[k] = q[k + 1]
    BY <1>1, <2>1, LenProperties
  <2> QED BY <1>3, <2>2 DEF Pop
<1>4. ASSUME NEW more \in Seq(Parts(cur)), q' = q \o more, cur \in StmtId,
             pc \in {"hdd", "oracle"}
      PROVE  \A k \in DOMAIN q' :
               \/ \E j \in DOMAIN q : q'[k] = q[j]
               \/ q'[k] \in Parts(cur)
  <2>1. /\ Len(more) \in Nat /\ DOMAIN more = 1 .. Len(more)
        /\ \A i \in DOMAIN more : more[i] \in Parts(cur)
    BY <1>4, LenProperties, ElementOfSeq
  <2>2. more \in Seq(StmtId)
    <3>1. Parts(cur) \subseteq StmtId
      BY DEF Parts
    <3> QED BY <1>4, <3>1, SeqMonotonic
  <2>3. /\ DOMAIN q' = 1 .. Len(q) + Len(more)
        /\ \A i \in 1 .. Len(q) + Len(more) :
             q'[i] = IF i <= Len(q) THEN q[i] ELSE more[i - Len(q)]
    BY <1>1, <1>4, <2>2, ConcatProperties, LenProperties
  <2> QED BY <1>1, <2>1, <2>3
<1>5. CASE reduceLabel
  <2>1. /\ pc = "hdd" /\ cur \in StmtId /\ Then(cur) \in Parts(cur)
        /\ q' = Append(q, Then(cur))
    BY <1>1, <1>5, PushedAreParts DEF reduceLabel, IInv, Working
  <2>2. q' = q \o <<Then(cur)>> /\ <<Then(cur)>> \in Seq(Parts(cur))
    <3>1. Then(cur) \in StmtId
      BY <2>1 DEF Parts
    <3> QED BY <1>1, <2>1, <3>1, AppendIsConcat
  <2> QED BY <1>4, <2>1, <2>2
<1>6. CASE reduceCompound
  BY <1>1, <1>4, <1>6, PushedAreParts DEF reduceCompound, IInv, Working
<1>7. CASE Accept
  <2>1. /\ Then(cur) \in Parts(cur) /\ cur \in StmtId
        /\ trial = "then" => Else(cur) \in Parts(cur)
    BY <1>1, <1>7, PushedFacts, PushedAreParts DEF Accept, IInv, Working, Asked
  <2> QED BY <1>4, <1>7, <2>1 DEF Accept, PushIfAccepted
<1>8. CASE Refuse /\ trial # "else"
  <2>1. /\ Then(cur) \in Parts(cur) /\ cur \in StmtId
        /\ trial = "then" => Else(cur) \in Parts(cur)
    BY <1>1, <1>8, PushedFacts, PushedAreParts DEF Refuse, IInv, Working, Asked
  <2> QED BY <1>4, <1>8, <2>1 DEF Refuse, PushIfRefused
<1>9. CASE Refuse /\ trial = "else"
  BY <1>2, <1>9 DEF Refuse
<1>10. CASE \/ Finish \/ BodyDone \/ HddIgnores \/ reduceWhile \/ reduceIf
            \/ reduceIfThen \/ ddmin \/ AcceptChunk \/ RefuseChunk
            \/ UNCHANGED vars
  BY <1>2, <1>10
     DEF Finish, BodyDone, HddIgnores, reduceWhile, reduceIf, reduceIfThen, Ask,
         ddmin, StartRound, Test, TestFails, Refine, DdminDone, AcceptChunk,
         RefuseChunk, vars, passVars
<1> QED BY <1>3, <1>5, <1>6, <1>7, <1>8, <1>9, <1>10 DEF Next, hdd, verdict

\* The bodies of two functions have no text in common, so the work on one
\* leaves the others whole.
LEMMA BodiesStep == BInv /\ [Next]_vars => BInv'
<1> SUFFICES ASSUME BInv, [Next]_vars PROVE BodiesApart'
  BY QueueStep DEF BInv
<1>1. /\ QInv /\ QInv' /\ IInv /\ IInv' /\ BodiesApart /\ cur \in StmtId \cup {0}
      /\ q \in Seq(StmtId)
  BY QueueStep DEF BInv, QInv, IInv, TypeOK
<1>2. CASE Begin
  <2>1. /\ functionBodies' = CollectedBodies(Cells) /\ q' = <<>>
        /\ pc' = "body"
    <3>1. /\ functionBodies = <<>> /\ source' = Cells /\ q = <<>>
      BY <1>1, <1>2 DEF Begin, Initialize, IInv, Fresh, QInv, QueueApart
    <3>2. CollectedBodies(Cells) \in Seq([stmt : StmtId, text : {Cells}])
      BY CollectedFacts DEF Text
    <3> QED BY <1>2, <3>1, <3>2, ConcatEmptySeq DEF Begin
  <2>2. ASSUME NEW i \in DOMAIN functionBodies', NEW j \in DOMAIN functionBodies',
               i < j
        PROVE  Disjoint(functionBodies'[i].stmt, functionBodies'[j].stmt)
    <3> DEFINE S == {s \in StmtId : Stmts[s].parent = 0 /\ First(s) \in Cells}
               roots == Enumerate(S)
    <3>1. S \in SUBSET Nat /\ IsFiniteSet(S)
      BY StmtFacts, FS_Subset
    <3>2. roots \in Seq(S) /\ Increasing(roots)
      BY <3>1, EnumerateLists
    <3>3. functionBodies' = [k \in DOMAIN roots |-> [stmt |-> roots[k], text |-> Cells]]
      BY <2>1 DEF CollectedBodies
    <3>4. \A k \in DOMAIN roots : roots[k] \in S
      BY <3>2, LenProperties, ElementOfSeq
    <3> HIDE DEF roots
    <3>5. /\ i \in DOMAIN roots /\ j \in DOMAIN roots
          /\ functionBodies'[i].stmt = roots[i]
          /\ functionBodies'[j].stmt = roots[j]
          /\ roots[i] < roots[j]
          /\ roots[i] \in StmtId /\ roots[j] \in StmtId
          /\ Stmts[roots[i]].parent = Stmts[roots[j]].parent
      BY <2>2, <3>2, <3>3, <3>4 DEF Increasing
    <3>6. Last(roots[i]) < First(roots[j])
      BY <3>5, LocalReductionAssumption DEF Nested
    <3> HIDE DEF S
    <3>7. /\ First(roots[i]) \in Nat /\ Last(roots[i]) \in Nat
          /\ First(roots[j]) \in Nat /\ Last(roots[j]) \in Nat
      BY <3>5, StmtFacts
    <3> QED BY <3>5, <3>6, <3>7 DEF Disjoint, Extent
  <2>3. /\ DOMAIN functionBodies' \in SUBSET Nat
        /\ \A i \in DOMAIN functionBodies' : functionBodies'[i].stmt \in StmtId
    <3>1. functionBodies' \in Seq([stmt : StmtId, text : Text])
      BY <1>1 DEF IInv, TypeOK
    <3> QED BY <3>1, BodiesAreStmts
  <2>4. \A i, j \in DOMAIN functionBodies' :
          i # j => Disjoint(functionBodies'[i].stmt, functionBodies'[j].stmt)
    <3>1. \A i, j \in DOMAIN functionBodies' : i # j => i < j \/ j < i
      BY <2>3
    <3> QED BY <2>2, <2>3, <3>1, DisjointFacts
  <2> QED BY <2>1, <2>4 DEF BodiesApart, AtWork
<1>3. CASE NextBody
  <2>1. /\ functionBodies' = functionBodies /\ body' = body + 1
        /\ q = <<>> /\ q' = Append(q, functionBodies[body'].stmt)
        /\ pc' = "queue" /\ body' \in DOMAIN functionBodies
        /\ functionBodies[body'].stmt \in StmtId
        /\ body \in Nat /\ DOMAIN functionBodies \subseteq Nat
    <3>1. body' \in 1 .. Len(functionBodies) /\ functionBodies' = functionBodies
      BY <1>1, <1>3, InParsedBody DEF NextBody, IInv, TypeOK, InBody
    <3> QED BY <1>1, <1>3, <3>1, LaterFacts, LenProperties
            DEF NextBody, QInv, QueueApart, IInv, TypeOK
  <2>2. \A k \in DOMAIN q' : q'[k] = functionBodies[body'].stmt
    <3> DEFINE root == functionBodies[body'].stmt
    <3>1. q' = Append(<<>>, root) /\ root \in StmtId
      BY <2>1
    <3> HIDE DEF root
    <3>2. \A k \in DOMAIN Append(<<>>, root) : Append(<<>>, root)[k] = root
      BY <3>1, AppendProperties
    <3> QED BY <3>1, <3>2 DEF root
  <2>3. \A s \in Later' :
          \E i \in DOMAIN functionBodies : s = functionBodies[i].stmt /\ i # body'
    BY <2>1 DEF Later
  <2> QED BY <1>1, <2>1, <2>2, <2>3 DEF BodiesApart, AtWork
<1>4. CASE ~Begin /\ ~NextBody
  <2>1. functionBodies' = functionBodies /\ body' = body /\ Later' = Later
    <3>1. functionBodies' = functionBodies /\ body' = body
      BY <1>4
         DEF Next, Finish, BodyDone, Pop, hdd, HddIgnores, reduceLabel,
             reduceWhile, reduceIf, reduceIfThen, reduceCompound, Ask, ddmin,
             StartRound, Test, TestFails, Refine, DdminDone, verdict, Accept,
             AcceptChunk, Refuse, RefuseChunk, vars, passVars
    <3> QED BY <3>1 DEF Later
  <2>2. ASSUME NEW s \in Later, NEW k \in DOMAIN q'
        PROVE  Disjoint(s, q'[k])
    <3>1. s \in StmtId /\ \A j \in DOMAIN q : Disjoint(s, q[j])
      BY <1>1, LaterFacts DEF BodiesApart
    <3>2. CASE \E j \in DOMAIN q : q'[k] = q[j]
      BY <3>1, <3>2
    <3>3. CASE pc \in {"hdd", "oracle"} /\ q'[k] \in Parts(cur)
      <4>1. cur \in StmtId /\ Disjoint(s, cur)
        BY <1>1, <3>3 DEF BodiesApart, AtWork, IInv, Working
      <4> QED BY <3>1, <3>3, <4>1, DisjointFacts
    <3> QED BY <1>1, <1>4, <3>2, <3>3, QueueGrows
  <2>3. ASSUME NEW s \in Later, AtWork'
        PROVE  Disjoint(s, cur')
    <3>1. CASE Pop
      <4>1. cur' = q[1] /\ 1 \in DOMAIN q
        <5>1. q # <<>> /\ cur' = Head(q)
          BY <3>1 DEF Pop
        <5> QED BY <1>1, <5>1, EmptySeq, HeadTailProperties, LenProperties
      <4> QED BY <1>1, <4>1 DEF BodiesApart
    <3>2. CASE ~Pop
      <4>1. cur' = cur /\ AtWork
        BY <1>4, <2>3, <3>2
           DEF Next, Finish, BodyDone, hdd, HddIgnores, reduceLabel,
               reduceWhile, reduceIf, reduceIfThen, reduceCompound, Ask, ddmin,
               StartRound, Test, TestFails, Refine, DdminDone, verdict, Accept,
               AcceptChunk, Refuse, RefuseChunk, vars, passVars, AtWork
      <4> QED BY <1>1, <4>1 DEF BodiesApart
    <3> QED BY <3>1, <3>2
  <2> QED BY <1>1, <2>1, <2>2, <2>3 DEF BodiesApart
<1> QED BY <1>2, <1>3, <1>4
-----------------------------------------------------------------------------
WholeOrGone(s, text) == Extent(s) \subseteq text \/ Extent(s) \cap text = {}

\* Everything that waits is whole or gone; so are the current statement
\* until the oracle is asked about it, and while it is, the branches that may
\* be pushed then.
Whole ==
  /\ \A s \in Later : WholeOrGone(s, file)
  /\ \A i \in DOMAIN q : WholeOrGone(q[i], file)
  /\ pc \in {"hdd", "then"} => WholeOrGone(cur, file)
  /\ pc = "oracle" =>
       /\ trial \in {"else", "cond", "while"} => WholeOrGone(Then(cur), file)
       /\ trial = "then" => WholeOrGone(Else(cur), file)
       /\ trial = "chunk" => Testable(Head(subsets))

WInv == BInv /\ Separate /\ Whole

\* What is whole or gone stays so when a range that does not divide it is
\* blanked or restored.
LEMMA EditKeeps ==
  ASSUME NEW s \in StmtId, WholeOrGone(s, file), NEW range, Spared(s, range),
         file' = file \ range \/ file' = file \cup (range \cap Cells)
  PROVE  WholeOrGone(s, file')
<1>1. Extent(s) \subseteq Cells
  BY StmtFacts, TransformationAssumption DEF Extent, Cells
<1>2. CASE file' = file \ range
  BY <1>2 DEF WholeOrGone, Spared
<1>3. CASE file' = file \cup (range \cap Cells)
  BY <1>1, <1>3 DEF WholeOrGone, Spared
<1> QED BY <1>2, <1>3

\* The parts of what is whole or gone are.
LEMMA PartsWhole ==
  ASSUME NEW s \in StmtId, WholeOrGone(s, file), NEW c \in Parts(s)
  PROVE  WholeOrGone(c, file)
<1>1. Extent(c) \subseteq Extent(s)
  BY LocalReductionAssumption DEF Nested, Parts
<1> QED BY <1>1 DEF WholeOrGone

\* What is removed while the oracle is asked about the current statement is
\* within it, and divides nothing that waits.
LEMMA WaitingSpared ==
  ASSUME BInv, AtWork, NEW range, range \subseteq Extent(cur),
         InBlock => \A c \in Parts(cur) : Spared(c, range)
  PROVE  /\ \A s \in Later : Spared(s, range)
         /\ \A i \in DOMAIN q : Spared(q[i], range)
<1>1. \A s : Disjoint(s, cur) => Spared(s, range)
  BY DEF Disjoint, Spared
<1>2. \A s \in Later : Disjoint(s, cur)
  BY DEF BInv, BodiesApart
<1>3. \A i \in DOMAIN q : Disjoint(q[i], cur) \/ (InBlock /\ q[i] \in Parts(cur))
  BY DEF BInv, QInv, QueueApart, AtWork
<1> QED BY <1>1, <1>2, <1>3

\* Then what waits is whole or gone afterwards.
LEMMA WaitingWhole ==
  ASSUME BInv, Whole, AtWork, NEW range, range \subseteq Extent(cur),
         InBlock => \A c \in Parts(cur) : Spared(c, range),
         file' = file \ range \/ file' = file \cup (range \cap Cells)
  PROVE  /\ \A s \in Later : WholeOrGone(s, file')
         /\ \A i \in DOMAIN q : WholeOrGone(q[i], file')
<1>1. /\ \A s \in Later : s \in StmtId /\ WholeOrGone(s, file) /\ Spared(s, range)
      /\ \A i \in DOMAIN q :
           q[i] \in StmtId /\ WholeOrGone(q[i], file) /\ Spared(q[i], range)
  <2>1. q \in Seq(StmtId) /\ IInv
    BY DEF BInv, QInv, IInv, TypeOK
  <2>2. \A i \in DOMAIN q : q[i] \in StmtId
    BY <2>1, LenProperties, ElementOfSeq
  <2> QED BY <2>1, <2>2, LaterFacts, WaitingSpared DEF Whole
<1>2. \A s \in StmtId :
        WholeOrGone(s, file) /\ Spared(s, range) =>
          WholeOrGone(s, file')
  BY EditKeeps
<1> QED BY <1>1, <1>2

\* The questions about an if or a while: the branch that is pushed when the
\* answer is yes is spared.
LEMMA HeadSpares ==
  ASSUME IInv, pc \in {"hdd", "then"}, cur # 0,
         NEW what \in {"else", "then", "cond", "while"}, Asked(what)
  PROVE  /\ Removed(what) \subseteq Extent(cur)
         /\ Then(cur) \in Parts(cur)
         /\ what # "then" => Spared(Then(cur), Removed(what))
         /\ what = "then" => /\ Else(cur) \in Parts(cur)
                             /\ Spared(Else(cur), Removed(what))
<1>1. /\ Parsed = Cells /\ cur \in StmtId
      /\ Then(cur) \in Parts(cur)
      /\ TwoBranches(cur) => Else(cur) \in Parts(cur)
  BY PushedAreParts DEF Asked, TwoBranches
<1>2. Removed(what) \subseteq Extent(cur)
  BY RevertCovers, RemovedParts DEF Questions
<1>3. /\ First(Then(cur)) \in Nat /\ Last(Then(cur)) \in Nat
      /\ First(cur) \in Nat /\ Last(cur) \in Nat
      /\ Stmts[cur].elseLoc \in Nat
      /\ First(Then(cur)) <= Last(Then(cur))
  BY <1>1, PartFacts, StmtFacts
<1>4. TwoBranches(cur) => /\ Last(Then(cur)) < Stmts[cur].elseLoc
                          /\ Stmts[cur].elseLoc < First(Else(cur))
                          /\ First(Else(cur)) \in Nat
  BY <1>1, IfElseFacts, StmtFacts DEF Parts
<1>5. Extent(Then(cur)) \cap HeadPart(cur) = {}
  BY <1>3 DEF Extent, HeadPart
<1>6. TwoBranches(cur) => /\ Extent(Then(cur)) \cap ElsePart(cur) = {}
                          /\ Extent(Else(cur)) \cap ThenPart(cur) = {}
  <2>1. TwoBranches(cur) => Extent(Then(cur)) \cap ElsePart(cur) = {}
    BY <1>3, <1>4 DEF Extent, ElsePart
  <2>2. TwoBranches(cur) => Extent(Else(cur)) \cap ThenPart(cur) = {}
    <3>1. TwoBranches(cur) => Last(Else(cur)) \in Nat
      BY <1>1, StmtFacts DEF Parts
    <3> QED BY <1>3, <1>4, <3>1 DEF Extent, ThenPart
  <2> QED BY <2>1, <2>2
<1>7. what # "then" => Spared(Then(cur), Removed(what))
  BY <1>5, <1>6, RemovedParts DEF Spared, Asked
<1>8. what = "then" => /\ Else(cur) \in Parts(cur)
                       /\ Spared(Else(cur), Removed(what))
  BY <1>1, <1>6, RemovedParts DEF Spared, Asked
<1> QED BY <1>1, <1>2, <1>7, <1>8

\* A question about a branch, a condition or a loop.
LEMMA HeadQuestion ==
  ASSUME IInv, reduceWhile \/ reduceIf \/ reduceIfThen
  PROVE  \E what \in {"else", "then", "cond", "while"} :
           /\ Ask(what) /\ Asked(what) /\ cur # 0
           /\ pc \in {"hdd", "then"}
<1>1. CASE reduceWhile
  BY <1>1 DEF reduceWhile, Asked, IInv, Working
<1>2. CASE reduceIf
  <2>1. Kind(cur) = "if" /\ pc = "hdd" /\ cur # 0
    BY <1>2 DEF reduceIf, Ignored, IInv, Working
  <2>2. CASE HasElse(cur)
    BY <1>2, <2>1, <2>2 DEF reduceIf, Asked, TwoBranches
  <2>3. CASE ~HasElse(cur)
    BY <1>2, <2>1, <2>3 DEF reduceIf, Asked
  <2> QED BY <2>2, <2>3
<1>3. CASE reduceIfThen
  BY <1>3 DEF reduceIfThen, Asked, IInv, Working
<1> QED BY <1>1, <1>2, <1>3

\* The test of a branch, a condition or a loop removes nothing of what waits.
LEMMA AskWhole ==
  ASSUME WInv, [Next]_vars, reduceWhile \/ reduceIf \/ reduceIfThen
  PROVE  Whole'
<1>1. PICK what \in {"else", "then", "cond", "while"} :
        /\ Ask(what) /\ Asked(what) /\ cur # 0
        /\ pc \in {"hdd", "then"}
  BY HeadQuestion DEF WInv, BInv, QInv
<1>2. /\ BInv /\ Whole /\ IInv /\ cur \in StmtId /\ WholeOrGone(cur, file)
  BY <1>1 DEF WInv, BInv, QInv, IInv, TypeOK, Whole
<1>3. /\ UNCHANGED <<source, functionBodies, body, q, cur, subsets>>
      /\ trial' = what /\ pc' = "oracle"
      /\ file' = file \ Removed(what)
  BY <1>1, <1>2, EditsAreText
     DEF Ask, writeToFile, IInv, TypeOK, TextTypeOK, Buffered
<1>4. /\ Removed(what) \subseteq Extent(cur)
      /\ Then(cur) \in Parts(cur)
      /\ what # "then" => Spared(Then(cur), Removed(what))
      /\ what = "then" => /\ Else(cur) \in Parts(cur)
                          /\ Spared(Else(cur), Removed(what))
  BY <1>1, <1>2, HeadSpares
<1>5. /\ Later' = Later /\ Then(cur)' = Then(cur) /\ Else(cur)' = Else(cur)
  <2>1. \A s : Then(s)' = Then(s) /\ Else(s)' = Else(s)
    BY <1>3, ParseFixed
  <2> QED BY <1>3, <2>1 DEF Later, Then, Else
<1>6. /\ \A s \in Later : WholeOrGone(s, file')
      /\ \A i \in DOMAIN q : WholeOrGone(q[i], file')
  <2>1. AtWork /\ ~InBlock
    BY <1>1 DEF AtWork, InBlock
  <2> QED BY <1>2, <1>3, <1>4, <2>1, WaitingWhole
<1>7. what # "then" => WholeOrGone(Then(cur), file')
  <2>1. Then(cur) \in StmtId /\ WholeOrGone(Then(cur), file)
    BY <1>2, <1>4, PartsWhole DEF Parts
  <2> QED BY <1>3, <1>4, <2>1, EditKeeps
<1>8. what = "then" => WholeOrGone(Else(cur), file')
  <2>1. what = "then" => Else(cur) \in StmtId /\ WholeOrGone(Else(cur), file)
    BY <1>2, <1>4, PartsWhole DEF Parts
  <2> QED BY <1>3, <1>4, <2>1, EditKeeps
<1> QED BY <1>3, <1>5, <1>6, <1>7, <1>8 DEF Whole

\* ddmin takes statements of a block out of it, or puts them back.
LEMMA ChunkSpares ==
  ASSUME BInv, Separate, InBlock, pc # "round", subsets # <<>>,
         Testable(Head(subsets))
  PROVE  /\ Hull(Head(subsets)) \subseteq Extent(cur)
         /\ \A c \in Parts(cur) : Spared(c, Hull(Head(subsets)))
<1>1. /\ IInv /\ source = Cells /\ cur \in StmtId /\ Parsed = Cells
      /\ Kind(cur) = "compound"
  BY PushedAreParts DEF BInv, QInv, IInv, Fresh, Working, InBlock, Asked
<1> DEFINE S == Seq(Parts(cur)) \ {<<>>}
<1>2. subsets \in Seq(S)
  BY DEF BInv, QInv, BlockLists
<1> HIDE DEF S
<1>3. Head(subsets) \in S
  BY <1>2, HeadTailProperties
<1> QED BY <1>1, <1>3, HullSpares DEF S

\* The test of a subset of a block removes the statements in it whole and
\* nothing of the others, and its revert gives them back whole.
LEMMA ChunkWhole ==
  ASSUME WInv, [Next]_vars, Test \/ RefuseChunk
  PROVE  Whole'
<1> DEFINE range == Hull(Head(subsets))
<1>1. /\ BInv /\ Whole /\ IInv /\ AtWork /\ InBlock /\ subsets # <<>>
      /\ Testable(Head(subsets)) /\ pc # "round"
      /\ UNCHANGED <<source, functionBodies, body, q, cur>>
  BY DEF WInv, BInv, QInv, IInv, Whole, AtWork, InBlock, Test, Ask, RefuseChunk,
         Revert, Working, Asked
<1>2. file' = file \ range \/ file' = file \cup (range \cap Cells)
  <2>1. CASE Test
    BY <1>1, <2>1, EditsAreText, RemovedParts
       DEF Test, Ask, writeToFile, IInv, TypeOK, TextTypeOK, Buffered
  <2>2. CASE RefuseChunk
    BY <1>1, <2>2, RevertRefills, RemovedParts DEF RefuseChunk
  <2> QED BY <2>1, <2>2
<1>3. range \subseteq Extent(cur) /\ \A c \in Parts(cur) : Spared(c, range)
  BY <1>1, ChunkSpares DEF WInv
<1> HIDE DEF range
<1>4. /\ \A s \in Later : WholeOrGone(s, file')
      /\ \A i \in DOMAIN q : WholeOrGone(q[i], file')
  BY <1>1, <1>2, <1>3, WaitingWhole
<1>5. Later' = Later
  BY <1>1 DEF Later
<1>6. pc' \notin {"hdd", "then"}
      /\ (pc' = "oracle" => trial' = "chunk" /\ Testable(Head(subsets))')
  <2>1. CASE Test
    <3>1. \A subset : Testable(subset)' = Testable(subset)
      BY DEF Testable
    <3> QED BY <2>1, <3>1 DEF Test, Ask
  <2>2. CASE RefuseChunk
    BY <2>2 DEF RefuseChunk
  <2> QED BY <2>1, <2>2
<1> QED BY <1>1, <1>4, <1>5, <1>6 DEF Whole

\* The oracle's answer about an if or a while.
LEMMA AnswerWhole ==
  ASSUME WInv, [Next]_vars, Accept \/ Refuse
  PROVE  Whole'
<1>1. /\ BInv /\ Whole /\ IInv /\ cur \in StmtId /\ q \in Seq(StmtId)
      /\ pc = "oracle" /\ trial # "chunk" /\ AtWork /\ ~InBlock
      /\ Asked(trial) /\ trial \in {"else", "then", "cond", "while"}
      /\ UNCHANGED <<source, functionBodies, body, cur, trial, subsets>>
  BY DEF WInv, BInv, QInv, IInv, TypeOK, Working, Asked, AtWork, InBlock, Accept,
         Refuse, Revert
<1>2. Later' = Later
  BY <1>1 DEF Later
<1>3. /\ Then(cur) \in Parts(cur) /\ (trial = "then" => Else(cur) \in Parts(cur))
  BY <1>1, PushedFacts DEF Asked
<1>4. CASE Accept
  <2>1. file' = file /\ pc' = "queue" /\ q' = q \o PushIfAccepted(trial)
    BY <1>4 DEF Accept
  <2> DEFINE branch == IF trial = "then" THEN Else(cur) ELSE Then(cur)
  <2>2. /\ branch \in StmtId /\ WholeOrGone(branch, file)
        /\ q' = Append(q, branch)
    <3>1. branch \in StmtId /\ WholeOrGone(branch, file)
      BY <1>1, <1>3 DEF Parts, Whole
    <3>2. q' = q \o <<branch>>
      BY <2>1 DEF PushIfAccepted
    <3> QED BY <1>1, <3>1, <3>2, AppendIsConcat
  <2> HIDE DEF branch
  <2>3. \A i \in DOMAIN q' : q'[i] = branch \/ \E j \in DOMAIN q : q'[i] = q[j]
    BY <1>1, <2>2, AppendProperties, LenProperties
  <2> QED BY <1>1, <1>2, <2>1, <2>2, <2>3 DEF Whole
<1>5. CASE Refuse
  <2>1. file' = file \cup (Extent(cur) \cap Cells) /\ pc' \in {"then", "queue"}
    BY <1>1, <1>5, RevertRefills, RemovedParts DEF Refuse
  <2>2. /\ \A s \in Later : WholeOrGone(s, file')
        /\ \A i \in DOMAIN q : WholeOrGone(q[i], file')
    BY <1>1, <2>1, WaitingWhole
  <2>3. Extent(cur) \subseteq file'
    <3>1. Extent(cur) \subseteq Cells
      BY <1>1, StmtFacts, TransformationAssumption DEF Extent, Cells
    <3> QED BY <2>1, <3>1
  <2>4. \A c \in Parts(cur) : WholeOrGone(c, file')
    <3>1. \A c \in Parts(cur) : Extent(c) \subseteq Extent(cur)
      BY <1>1, LocalReductionAssumption DEF Nested
    <3> QED BY <2>3, <3>1 DEF WholeOrGone
  <2>5. \A i \in DOMAIN q' : WholeOrGone(q'[i], file')
    <3>1. \A k \in DOMAIN q' :
            (\E j \in DOMAIN q : q'[k] = q[j]) \/ q'[k] \in Parts(cur)
      BY <1>1, <1>5, QueueGrows DEF BInv, Refuse, Begin, NextBody
    <3> QED BY <2>2, <2>4, <3>1
  <2> QED BY <1>1, <1>2, <2>1, <2>2, <2>3, <2>5 DEF Whole, WholeOrGone
<1> QED BY <1>4, <1>5

\* Every step leaves what waits whole or gone.
LEMMA WholeStep == WInv /\ [Next]_vars => WInv'
<1> SUFFICES ASSUME WInv, [Next]_vars PROVE Whole'
  BY BodiesStep DEF WInv, Separate
<1>1. /\ BInv /\ QInv /\ IInv /\ Whole /\ q \in Seq(StmtId)
      /\ cur \in StmtId \cup {0}
  BY DEF WInv, BInv, QInv, IInv, TypeOK
<1>2. CASE Begin
  <2>1. file' = Cells /\ q' = <<>> /\ pc' = "body"
    BY <1>1, <1>2 DEF Begin, Initialize, shared, IInv, Fresh, QInv, QueueApart
  <2>2. \A s \in Later' : s \in StmtId
    <3>1. functionBodies' \in Seq([stmt : StmtId, text : Text])
      BY <1>1, <1>2, BeginStep DEF IInv, TypeOK
    <3> QED BY <3>1, BodiesAreStmts DEF Later
  <2>3. \A s \in Later' : WholeOrGone(s, file')
    <3>1. \A s \in StmtId : Extent(s) \subseteq Cells
      BY StmtFacts, TransformationAssumption DEF Extent, Cells
    <3> QED BY <2>1, <2>2, <3>1 DEF WholeOrGone
  <2> QED BY <2>1, <2>3 DEF Whole
<1>3. CASE NextBody
  <2>1. /\ functionBodies' = functionBodies /\ body' = body + 1 /\ file' = file
        /\ q = <<>> /\ q' = Append(q, functionBodies[body'].stmt)
        /\ pc' = "queue" /\ body' \in DOMAIN functionBodies
        /\ body < body' /\ body \in Nat
        /\ DOMAIN functionBodies \in SUBSET Nat
        /\ functionBodies[body'].stmt \in StmtId
    <3>1. /\ body \in Nat /\ DOMAIN functionBodies \in SUBSET Nat
          /\ DOMAIN functionBodies = 1 .. Len(functionBodies)
          /\ Len(functionBodies) \in Nat
          /\ \A i \in DOMAIN functionBodies : functionBodies[i].stmt \in StmtId
      BY <1>1, LaterFacts, LenProperties DEF IInv, TypeOK
    <3> QED BY <1>1, <1>3, <3>1
            DEF NextBody, QInv, QueueApart, textVars, shared
  <2> DEFINE root == functionBodies[body'].stmt
  <2>2. root \in Later /\ Later' \subseteq Later
    BY <2>1 DEF Later
  <2>3. \A k \in DOMAIN q' : q'[k] = root
    <3>1. q' = Append(<<>>, root) /\ root \in StmtId
      BY <2>1
    <3> HIDE DEF root
    <3>2. \A k \in DOMAIN Append(<<>>, root) : Append(<<>>, root)[k] = root
      BY <3>1, AppendProperties
    <3> QED BY <3>1, <3>2
  <2> HIDE DEF root
  <2> QED BY <1>1, <2>1, <2>2, <2>3 DEF Whole
<1>4. CASE Pop
  <2>1. /\ UNCHANGED <<file, functionBodies, body>> /\ pc' = "hdd"
        /\ cur' = q[1] /\ 1 \in DOMAIN q
    <3>1. q # <<>> /\ cur' = Head(q)
      BY <1>4 DEF Pop
    <3> QED BY <1>1, <1>4, <3>1, EmptySeq, HeadTailProperties, LenProperties
            DEF Pop, textVars, shared
  <2>2. \A k \in DOMAIN q' : \E j \in DOMAIN q : q'[k] = q[j]
    BY <1>1, <1>4, QueueGrows DEF Begin, NextBody, Pop
  <2>3. Later' = Later
    BY <2>1 DEF Later
  <2> QED BY <1>1, <2>1, <2>2, <2>3 DEF Whole
<1>5. CASE reduceLabel \/ reduceCompound
  <2>1. /\ UNCHANGED <<file, functionBodies, body>> /\ pc = "hdd"
        /\ pc' \in {"queue", "round"} /\ cur \in StmtId
    BY <1>1, <1>5
       DEF reduceLabel, reduceCompound, textVars, shared, IInv, Working
  <2>2. \A k \in DOMAIN q' :
          (\E j \in DOMAIN q : q'[k] = q[j]) \/ q'[k] \in Parts(cur)
    BY <1>1, <2>1, QueueGrows DEF Begin, NextBody
  <2>3. \A c \in Parts(cur) : WholeOrGone(c, file)
    BY <1>1, <2>1, PartsWhole DEF Whole
  <2>4. Later' = Later
    BY <2>1 DEF Later
  <2> QED BY <1>1, <2>1, <2>2, <2>3, <2>4 DEF Whole
<1>6. CASE reduceWhile \/ reduceIf \/ reduceIfThen
  BY <1>6, AskWhole
<1>7. CASE Test \/ RefuseChunk
  BY <1>7, ChunkWhole
<1>8. CASE Accept \/ Refuse
  BY <1>8, AnswerWhole
<1>9. CASE \/ Finish \/ BodyDone \/ HddIgnores \/ StartRound \/ TestFails
           \/ Refine \/ DdminDone \/ AcceptChunk
  <2>1. /\ UNCHANGED <<file, functionBodies, body, q>>
        /\ pc' \in {"done", "body", "queue", "test", "round"}
    BY <1>9 DEF Finish, BodyDone, HddIgnores, StartRound, TestFails, Refine,
                DdminDone, AcceptChunk, textVars, shared
  <2>2. Later' = Later
    BY <2>1 DEF Later
  <2> QED BY <1>1, <2>1, <2>2 DEF Whole
<1>10. CASE UNCHANGED vars
  <2>1. /\ UNCHANGED <<file, source, functionBodies, body, q, cur>>
        /\ UNCHANGED <<pc, trial, subsets>>
    BY <1>10 DEF vars, textVars, passVars, shared
  <2>2. Later' = Later
    BY <2>1 DEF Later
  <2>3. /\ \A s : Then(s)' = Then(s) /\ Else(s)' = Else(s)
        /\ \A subset : Testable(subset)' = Testable(subset)
    BY <2>1, ParseFixed DEF Testable
  <2>4. Then(cur)' = Then(cur) /\ Else(cur)' = Else(cur)
    BY <2>1, <2>3 DEF Then, Else
  <2> QED BY <1>1, <2>1, <2>2, <2>3, <2>4 DEF Whole
<1> QED BY <1>2, <1>3, <1>4, <1>5, <1>6, <1>7, <1>8, <1>9, <1>10
        DEF Next, hdd, ddmin, verdict

\* Nothing waits before the pass.
LEMMA WholeInit == Init /\ Separate => WInv
<1> SUFFICES ASSUME Init, Separate PROVE BodiesApart /\ Whole
  BY QueueInit DEF WInv, BInv
<1> QED BY DEF Init, PassInit, BodiesApart, Whole, Later, AtWork

\* When every statement of a block is separate from the next, what waits in
\* the queue has never been half removed or half restored: a question is
\* about the current statement or about whole statements of a block, and all
\* that waits lies outside of it or is part of that block.
THEOREM WaitingAreWholeOrGone == Separate /\ Spec => []QueuedAreWholeOrGone
<1>1. WInv => QueuedAreWholeOrGone
  BY DEF WInv, Whole, WholeOrGone, QueuedAreWholeOrGone
<1> QED BY WholeInit, WholeStep, <1>1, PTL DEF Spec
-----------------------------------------------------------------------------
(***************************************************************************)
(* RevertRestores and BlockOneMinimal.  A revert brings removed text back  *)
(* when it covers more than was in the accepted text.  It never does when  *)
(* three things come together.  The statements of a block are Separate, so *)
(* that what hdd takes from the queue is whole or gone.  The oracle is     *)
(* Deterministic, so that it cannot refuse to remove what is gone: that    *)
(* candidate is the text it has accepted.  And ddmin cuts the list of      *)
(* every block without a gap (SmallBlocks), so that the hull of a chunk    *)
(* holds nothing that was removed.                                         *)
(***************************************************************************)
SmallBlocks ==
  \A p \in StmtId : Kind(p) = "compound" => Nesting(Cardinality(Parts(p)))

\* Every subset is a chunk, and no chunk of the round has a gap.
BlockChunked ==
  InBlock =>
    /\ Increasing(stmts_)
    /\ Nests(Parts(cur), stmts_, n)
    /\ \A s \in DOMAIN subsets :
         \E k \in DOMAIN split(stmts_, n) : subsets[s] = split(stmts_, n)[k]

\* The block is gone; or, between two statements that are left, with no
\* removed one in between, the accepted text has everything.
BlockSolid ==
  InBlock =>
    \/ Extent(cur) \cap kept = {}
    \/ \A d, e \in Elements(stmts_) :
         /\ Kind(e) # "other"
         /\ \A x \in Parts(cur) : d < x /\ x < e => x \in Elements(stmts_)
         => First(d) .. TestEnd(e) \subseteq kept

Exact ==
  IF pc = "oracle"
  THEN /\ file = kept \ Removed(trial)
       /\ \/ Reverted(trial) \subseteq kept
          \/ Reverted(trial) \cap kept = {}
  ELSE file = kept

EInv == /\ WInv /\ Deterministic /\ SmallBlocks
        /\ BlockChunked /\ BlockSolid /\ Exact /\ kept \in passed

\* What ddmin works on in a block.
LEMMA BlockFacts ==
  ASSUME QInv, InBlock
  PROVE  /\ cur \in StmtId /\ Kind(cur) = "compound" /\ Parsed = Cells
         /\ source = Cells
         /\ Parts(cur) \in SUBSET Nat /\ Parts(cur) \subseteq StmtId
         /\ stmts_ \in Seq(Parts(cur)) /\ Elements(stmts_) \subseteq Parts(cur)
         /\ subsets \in Seq(Seq(Parts(cur)) \ {<<>>})
         /\ n \in Nat \ {0}
<1>1. /\ cur \in StmtId /\ Kind(cur) = "compound" /\ Parsed = Cells
      /\ source = Cells /\ n \in Nat \ {0}
  BY PushedAreParts DEF QInv, IInv, TypeOK, Fresh, Working, InBlock, Asked
<1>2. stmts_ \in Seq(Parts(cur)) /\ subsets \in Seq(Seq(Parts(cur)) \ {<<>>})
  BY DEF QInv, BlockLists
<1>3. Elements(stmts_) \subseteq Parts(cur)
  BY <1>2, ElementOfSeq, LenProperties DEF Elements
<1>4. Parts(cur) \in SUBSET Nat /\ Parts(cur) \subseteq StmtId
  BY StmtFacts DEF Parts
<1> QED BY <1>1, <1>2, <1>3, <1>4

\* The subset under test is a chunk of the list.
LEMMA HeadIsChunk ==
  ASSUME QInv, InBlock, BlockChunked, subsets # <<>>
  PROVE  \E k \in DOMAIN split(stmts_, n) :
           Head(subsets) = split(stmts_, n)[k]
<1> DEFINE S == Seq(Parts(cur)) \ {<<>>}
<1>1. subsets \in Seq(S)
  BY BlockFacts
<1> HIDE DEF S
<1>2. 1 \in DOMAIN subsets /\ Head(subsets) = subsets[1]
  BY <1>1, EmptySeq, LenProperties, HeadTailProperties
<1> QED BY <1>2 DEF BlockChunked

\* The hull of a chunk is accepted text, or all of it is gone.
LEMMA HullWholeOrGone ==
  ASSUME WInv, InBlock, pc # "round", BlockChunked, BlockSolid,
         subsets # <<>>, Testable(Head(subsets))
  PROVE  \/ Hull(Head(subsets)) \subseteq kept
         \/ Hull(Head(subsets)) \cap kept = {}
<1> DEFINE chunk == Head(subsets)
           a == chunk[1]
           z == chunk[Len(chunk)]
<1>1. /\ QInv /\ BInv /\ Separate
      /\ stmts_ \in Seq(Parts(cur)) /\ Parts(cur) \in SUBSET Nat
      /\ n \in Nat \ {0} /\ Increasing(stmts_) /\ Nests(Parts(cur), stmts_, n)
  BY BlockFacts DEF WInv, BInv, BlockChunked
<1>2. Hull(chunk) \subseteq Extent(cur)
  BY <1>1, ChunkSpares
<1>3. PICK k \in DOMAIN split(stmts_, n) : chunk = split(stmts_, n)[k]
  BY <1>1, HeadIsChunk
<1>4. Elements(chunk) \subseteq Elements(stmts_)
  BY <1>1, <1>3, SplitIncreasing
<1>5. a \in Elements(chunk) /\ z \in Elements(chunk)
  BY <1>1, <1>3, ChunkEnds
<1>6. \A x \in Parts(cur) : a < x /\ x < z => x \in Elements(chunk)
  BY <1>1, <1>3, ChunkWithoutGap
<1>7. Kind(z) # "other" /\ Hull(chunk) = First(a) .. TestEnd(z)
  BY DEF Testable, Hull
<1> HIDE DEF a, z, chunk
<1>8. CASE Extent(cur) \cap kept = {}
  BY <1>2, <1>8 DEF chunk
<1>9. CASE ~(Extent(cur) \cap kept = {})
  <2>1. First(a) .. TestEnd(z) \subseteq kept
    BY <1>4, <1>5, <1>6, <1>7, <1>9 DEF BlockSolid
  <2> QED BY <1>7, <2>1 DEF chunk
<1> QED BY <1>8, <1>9

\* An accepted hull takes nothing from between the statements that stay.
LEMMA BlockSolidStays ==
  ASSUME WInv, InBlock, BlockChunked, subsets # <<>>, Testable(Head(subsets)),
         NEW d \in Elements(stmts_) \ Elements(Head(subsets)),
         NEW e \in Elements(stmts_) \ Elements(Head(subsets)),
         Kind(e) # "other",
         \A x \in Parts(cur) :
           d < x /\ x < e => x \in Elements(stmts_) \ Elements(Head(subsets)),
         First(d) .. TestEnd(e) \subseteq kept
  PROVE  First(d) .. TestEnd(e) \subseteq kept \ Hull(Head(subsets))
<1> DEFINE chunk == Head(subsets)
           a == chunk[1]
           z == chunk[Len(chunk)]
<1>1. /\ QInv /\ Separate
      /\ stmts_ \in Seq(Parts(cur)) /\ Parts(cur) \in SUBSET Nat
      /\ Elements(stmts_) \subseteq Parts(cur) /\ Parts(cur) \subseteq StmtId
      /\ n \in Nat \ {0} /\ Increasing(stmts_)
      /\ cur \in StmtId /\ Kind(cur) = "compound"
      /\ source = Cells /\ Parsed = Cells
  BY BlockFacts DEF WInv, BInv, BlockChunked
<1>2. PICK k \in DOMAIN split(stmts_, n) : chunk = split(stmts_, n)[k]
  BY <1>1, HeadIsChunk
<1>3. /\ Elements(chunk) \subseteq Elements(stmts_)
      /\ \A x \in Elements(stmts_) \ Elements(chunk) : x < a \/ z < x
  BY <1>1, <1>2, SplitIncreasing
<1>4. a \in Elements(chunk) /\ z \in Elements(chunk)
  BY <1>1, <1>2, ChunkEnds
<1>5. Kind(z) # "other" /\ Hull(chunk) = First(a) .. TestEnd(z)
  BY DEF Testable, Hull
<1> HIDE DEF a, z, chunk
<1>6. /\ a \in Parts(cur) /\ z \in Parts(cur)
      /\ d \in Parts(cur) /\ e \in Parts(cur)
  BY <1>1, <1>3, <1>4
<1>7. /\ a \in Nat /\ z \in Nat /\ d \in Nat /\ e \in Nat
      /\ First(a) \in Nat /\ First(d) \in Nat
      /\ TestEnd(z) \in Nat /\ TestEnd(e) \in Nat
      /\ z < d => TestEnd(z) < First(d)
      /\ e < a => TestEnd(e) < First(a)
  BY <1>1, <1>5, <1>6, StmtFacts, TestEndInBlock
<1>8. d < a \/ z < d
  BY <1>3 DEF chunk
<1>9. ~(d < a /\ a < e) /\ a # e
  BY <1>4, <1>6 DEF chunk
<1>10. (First(d) .. TestEnd(e)) \cap Hull(chunk) = {}
  <2>1. CASE z < d
    BY <1>5, <1>7, <2>1
  <2>2. CASE d < a
    <3>1. e < a
      BY <1>7, <1>9, <2>2
    <3> QED BY <1>5, <1>7, <3>1
  <2> QED BY <1>8, <2>1, <2>2
<1> QED BY <1>10 DEF chunk
-----------------------------------------------------------------------------
\* What is removed and restored depends on the parse, the current statement
\* and the subset under test.
LEMMA EditsFixed ==
  ASSUME UNCHANGED <<functionBodies, body, source>>
  PROVE  /\ \A s : TestEnd(s)' = TestEnd(s)
         /\ \A subset : Hull(subset)' = Hull(subset)
         /\ \A subset : Testable(subset)' = Testable(subset)
         /\ (cur' = cur /\ subsets' = subsets) =>
              \A what : /\ Removed(what)' = Removed(what)
                        /\ Reverted(what)' = Reverted(what)
<1>1. /\ \A s : HeadPart(s)' = HeadPart(s)
      /\ \A s : TestEnd(s)' = TestEnd(s)
      /\ \A subset : Hull(subset)' = Hull(subset)
  BY ParseFixed
<1>2. \A subset : Testable(subset)' = Testable(subset)
  BY DEF Testable
<1>3. ASSUME cur' = cur, subsets' = subsets, NEW what
      PROVE  Removed(what)' = Removed(what) /\ Reverted(what)' = Reverted(what)
  <2>1. HeadPart(cur)' = HeadPart(cur) /\ Hull(Head(subsets))' = Hull(Head(subsets))
    BY <1>1, <1>3
  <2>2. /\ ElsePart(cur)' = ElsePart(cur) /\ ThenPart(cur)' = ThenPart(cur)
        /\ Extent(cur)' = Extent(cur)
    BY <1>3 DEF ElsePart, ThenPart, Extent
  <2>3. Removed(what)' = Removed(what)
    BY <2>1, <2>2, Zenon DEF Removed
  <2>4. Reverted(what)' = Reverted(what)
    BY <2>1, <2>2, Zenon DEF Reverted
  <2> QED BY <2>3, <2>4
<1> QED BY <1>1, <1>2, <1>3

\* ddmin begins with all statements of the block.
LEMMA BlockBegins ==
  ASSUME EInv, reduceCompound
  PROVE  BlockChunked' /\ BlockSolid'
<1>1. /\ QInv /\ Separate /\ Whole /\ file = kept
      /\ cur \in StmtId /\ Kind(cur) = "compound" /\ Parsed = Cells
      /\ source = Cells
  BY PushedAreParts
     DEF EInv, WInv, BInv, QInv, IInv, Fresh, Working, Exact, reduceCompound
<1>2. /\ stmts_' = Children(cur) /\ n' = 2 /\ subsets' = <<>> /\ cur' = cur
      /\ kept' = kept /\ UNCHANGED <<functionBodies, body, source>>
  BY DEF reduceCompound, textVars, shared
<1>3. /\ Children(cur) = Enumerate(Parts(cur))
      /\ Children(cur) \in Seq(Parts(cur))
      /\ Elements(Children(cur)) = Parts(cur)
      /\ Increasing(Children(cur))
  BY <1>1, ChildrenAreParts
<1>4. Parts(cur) \in SUBSET Nat /\ IsFiniteSet(Parts(cur)) /\ Parts(cur)' = Parts(cur)
  BY <1>2, StmtFacts, FS_Subset DEF Parts
<1>5. Nests(Parts(cur), Children(cur), 2)
  <2>1. Len(Children(cur)) \in Nat /\ Nesting(Len(Children(cur)))
    <3>1. Cardinality(Parts(cur)) \in Nat
      BY <1>4, FS_CardinalityType
    <3>2. Len(Children(cur)) = Cardinality(Parts(cur))
      BY <1>3, <3>1, LenProperties, SameRange DEF Enumerate
    <3> QED BY <1>1, <3>1, <3>2 DEF EInv, SmallBlocks
  <2>2. Gaps(Parts(cur), Children(cur)) = {}
    BY <1>3, <1>4, NoGapYet
  <2> QED BY <2>1, <2>2, NestsBegin DEF Nests
<1>6. BlockChunked'
  BY <1>2, <1>3, <1>4, <1>5 DEF BlockChunked
<1>7. WholeOrGone(cur, kept)
  BY <1>1 DEF Whole, reduceCompound
<1>8. ASSUME NEW d \in Parts(cur), NEW e \in Parts(cur), Kind(e) # "other",
             Extent(cur) \subseteq kept
      PROVE  First(d) .. TestEnd(e) \subseteq kept
  <2>1. TestEnd(e) \in Nat /\ TestEnd(e) <= Last(cur)
    BY <1>1, <1>8, TestEndInBlock
  <2>2. /\ First(cur) <= First(d) /\ First(cur) \in Nat /\ First(d) \in Nat
        /\ Last(cur) \in Nat
    BY <1>1, <1>8, PartFacts, StmtFacts
  <2> QED BY <1>8, <2>1, <2>2 DEF Extent
<1>9. /\ \A s : TestEnd(s)' = TestEnd(s)
      /\ Extent(cur)' = Extent(cur)
  BY <1>2, EditsFixed DEF Extent
<1>10. BlockSolid'
  BY <1>2, <1>3, <1>4, <1>7, <1>8, <1>9 DEF BlockSolid, WholeOrGone
<1> QED BY <1>6, <1>10

\* The steps of ddmin between two questions.
LEMMA BlockGoesOn ==
  ASSUME EInv, StartRound \/ TestFails \/ Refine
  PROVE  BlockChunked' /\ BlockSolid'
<1>1. /\ QInv /\ InBlock /\ BlockChunked /\ BlockSolid
      /\ UNCHANGED <<functionBodies, body, source, cur, stmts_, kept>>
  BY DEF EInv, WInv, BInv, InBlock, StartRound, TestFails, Refine, textVars,
         shared
<1>2. /\ stmts_ \in Seq(Parts(cur)) /\ Parts(cur) \in SUBSET Nat
      /\ subsets \in Seq(Seq(Parts(cur)) \ {<<>>})
      /\ n \in Nat \ {0} /\ Increasing(stmts_) /\ Nests(Parts(cur), stmts_, n)
      /\ Parts(cur)' = Parts(cur)
  BY <1>1, BlockFacts DEF BlockChunked, Parts
<1>3. \A s : TestEnd(s)' = TestEnd(s) /\ Extent(s)' = Extent(s)
  BY <1>1, EditsFixed DEF Extent
<1>4. BlockSolid'
  BY <1>1, <1>2, <1>3 DEF BlockSolid
<1> SUFFICES BlockChunked'
  BY <1>4
<1>5. CASE StartRound
  BY <1>1, <1>2, <1>5 DEF BlockChunked, StartRound
<1>6. CASE TestFails
  <2>1. \A s \in DOMAIN subsets' :
          s + 1 \in DOMAIN subsets /\ subsets'[s] = subsets[s + 1]
    BY <1>2, <1>6, TailShifts DEF TestFails
  <2> QED BY <1>1, <1>2, <1>6, <2>1 DEF BlockChunked, TestFails
<1>7. CASE Refine
  <2>1. Len(stmts_) \in Nat \ {0}
    BY <1>2, <1>7, EmptySeq, LenProperties
       DEF EInv, WInv, BInv, QInv, IInv, Working, Refine
  <2>2. Nests(Parts(cur), stmts_, Smaller(n * 2, Len(stmts_)))
    BY <1>2, <1>7, <2>1, NestsRefine DEF Nests, Refine
  <2> QED BY <1>1, <1>2, <1>7, <2>2 DEF BlockChunked, Refine
<1> QED BY <1>5, <1>6, <1>7
-----------------------------------------------------------------------------
\* A question is about accepted text, or about text that is gone.
LEMMA QuestionExact ==
  ASSUME EInv, reduceWhile \/ reduceIf \/ reduceIfThen \/ Test
  PROVE  BlockChunked' /\ BlockSolid' /\ Exact' /\ (kept \in passed)'
<1>1. /\ WInv /\ QInv /\ IInv /\ Whole /\ source = Cells /\ source \in Text
      /\ file \in Text /\ EditBuffer = file
  BY DEF EInv, WInv, BInv, QInv, IInv, TypeOK, TextTypeOK, Fresh, Buffered
<1>2. PICK what \in Questions :
        /\ Ask(what) /\ Asked(what) /\ cur # 0 /\ pc \in {"hdd", "then", "test"}
        /\ what = "chunk" <=> InBlock
        /\ InBlock => Testable(Head(subsets)) /\ subsets # <<>>
  <2>1. CASE Test
    BY <1>1, <2>1 DEF Test, InBlock, Asked, Questions, IInv, Working
  <2>2. CASE reduceWhile \/ reduceIf \/ reduceIfThen
    <3>1. PICK what \in {"else", "then", "cond", "while"} :
            /\ Ask(what) /\ Asked(what) /\ cur # 0 /\ pc \in {"hdd", "then"}
      BY <1>1, <2>2, HeadQuestion
    <3> QED BY <3>1 DEF InBlock, Questions
  <2> QED BY <2>1, <2>2
<1>3. /\ UNCHANGED <<source, functionBodies, body, cur, stmts_, n, subsets>>
      /\ trial' = what /\ pc' = "oracle" /\ kept' = kept /\ passed' = passed
      /\ file = kept /\ file' = kept \ Removed(what) /\ kept \in passed
  <2>1. pc # "oracle"
    BY <1>2
  <2> QED BY <1>1, <1>2, <2>1, EditsAreText
          DEF Ask, writeToFile, CallOracle, EInv, Exact
<1>4. /\ Removed(what)' = Removed(what) /\ Reverted(what)' = Reverted(what)
      /\ \A s : TestEnd(s)' = TestEnd(s) /\ Extent(s)' = Extent(s)
                /\ Parts(s)' = Parts(s)
  BY <1>3, EditsFixed DEF Extent, Parts
<1>5. \/ Reverted(what) \subseteq kept
      \/ Reverted(what) \cap kept = {}
  <2>1. CASE what = "chunk"
    <3>1. Reverted(what) = Hull(Head(subsets))
      BY <2>1, RemovedParts
    <3>2. pc # "round"
      BY <1>2
    <3> QED BY <1>1, <1>2, <2>1, <3>1, <3>2, HullWholeOrGone DEF EInv
  <2>2. CASE what # "chunk"
    <3>1. Reverted(what) = Extent(cur) /\ pc \in {"hdd", "then"}
      BY <1>2, <2>2, RemovedParts DEF Questions, InBlock
    <3>2. WholeOrGone(cur, file)
      BY <1>1, <3>1 DEF Whole
    <3> QED BY <1>3, <3>1, <3>2 DEF WholeOrGone
  <2> QED BY <2>1, <2>2
<1>6. Exact'
  BY <1>3, <1>4, <1>5 DEF Exact
<1>7. InBlock' => InBlock
  BY <1>2, <1>3 DEF InBlock
<1>8. BlockChunked' /\ BlockSolid'
  BY <1>3, <1>4, <1>7 DEF EInv, BlockChunked, BlockSolid
<1> QED BY <1>3, <1>6, <1>8

\* What the oracle refuses had text that it has accepted, and the revert
\* puts that back and no more.
LEMMA RefusalExact ==
  ASSUME EInv, Refuse \/ RefuseChunk
  PROVE  BlockChunked' /\ BlockSolid' /\ Exact' /\ (kept \in passed)'
<1>1. /\ WInv /\ QInv /\ IInv /\ Exact /\ Deterministic /\ kept \in passed
      /\ kept \in Text
  BY DEF EInv, WInv, BInv, QInv, IInv, TypeOK, TextTypeOK
<1>2. /\ pc = "oracle" /\ Revert /\ OracleRefuses(Msg(trial))
      /\ UNCHANGED <<functionBodies, body, cur, stmts_, n>>
      /\ pc' \in {"then", "queue", "test"}
  BY DEF Refuse, RefuseChunk
<1>3. /\ file' = file \cup (Reverted(trial) \cap Cells)
      /\ source' = source /\ kept' = kept /\ passed' = passed
      /\ file \notin passed
  BY <1>1, <1>2, RevertRefills DEF OracleRefuses
<1>4. Removed(trial) \subseteq Reverted(trial)
  <2>1. trial \in Questions /\ Asked(trial) /\ cur # 0
    BY <1>1, <1>2 DEF IInv, Working, Asked, Questions
  <2> QED BY <1>1, <1>2, <2>1, RevertCovers
<1>5. file = kept \ Removed(trial)
  BY <1>1, <1>2 DEF Exact
<1>6. Reverted(trial) \subseteq kept
  <2>1. Reverted(trial) \cap kept = {} => file = kept
    BY <1>4, <1>5
  <2> QED BY <1>1, <1>2, <1>3, <2>1 DEF Exact
<1>7. file' = kept
  BY <1>1, <1>3, <1>4, <1>5, <1>6 DEF Text
<1>8. Exact'
  BY <1>2, <1>3, <1>7 DEF Exact
<1>9. InBlock' => /\ RefuseChunk /\ InBlock /\ subsets' = Tail(subsets)
                  /\ subsets # <<>>
  BY <1>1, <1>2 DEF InBlock, Refuse, RefuseChunk, IInv, Working, Asked
<1>10. \A s : TestEnd(s)' = TestEnd(s) /\ Extent(s)' = Extent(s)
              /\ Parts(s)' = Parts(s)
  BY <1>2, <1>3, EditsFixed DEF Extent, Parts
<1>11. BlockSolid'
  BY <1>2, <1>3, <1>9, <1>10 DEF EInv, BlockSolid
<1>12. BlockChunked'
  <2> SUFFICES ASSUME InBlock' PROVE BlockChunked'
    BY DEF BlockChunked
  <2>1. subsets \in Seq(Seq(Parts(cur)) \ {<<>>})
    BY <1>1, <1>9, BlockFacts
  <2>2. \A s \in DOMAIN subsets' :
          s + 1 \in DOMAIN subsets /\ subsets'[s] = subsets[s + 1]
    BY <1>9, <2>1, TailShifts
  <2> QED BY <1>2, <1>9, <1>10, <2>2 DEF EInv, BlockChunked
<1> QED BY <1>1, <1>3, <1>8, <1>11, <1>12

\* An accepted subset leaves the list without a gap, and the rest as it was.
LEMMA AcceptedBlock ==
  ASSUME EInv, AcceptChunk
  PROVE  BlockChunked' /\ BlockSolid'
<1> DEFINE chunk == Head(subsets)
<1>1. /\ WInv /\ QInv /\ Whole /\ InBlock /\ BlockChunked /\ BlockSolid /\ Exact
      /\ pc = "oracle" /\ trial = "chunk" /\ subsets # <<>>
      /\ Testable(chunk)
  BY DEF EInv, WInv, BInv, QInv, IInv, Whole, InBlock, Working, Asked,
         AcceptChunk
<1>2. /\ stmts_' = difference(stmts_, chunk) /\ n' = Larger(n - 1, 2)
      /\ subsets' = <<>> /\ pc' = "round" /\ kept' = file
      /\ UNCHANGED <<functionBodies, body, cur, source>>
  BY DEF AcceptChunk, OracleAccepts
<1>3. /\ stmts_ \in Seq(Parts(cur)) /\ Parts(cur) \in SUBSET Nat
      /\ n \in Nat \ {0} /\ Increasing(stmts_) /\ Nests(Parts(cur), stmts_, n)
  BY <1>1, BlockFacts DEF BlockChunked
<1>4. kept' = kept \ Hull(chunk)
  BY <1>1, <1>2, RemovedParts DEF Exact
<1>5. Elements(stmts_') = Elements(stmts_) \ Elements(chunk)
  BY <1>2, <1>3, DifferenceRemoves
<1>6. Increasing(stmts_')
  <2>1. stmts_ \in Seq(Nat)
    BY <1>3, SeqMonotonic
  <2> QED BY <1>2, <1>3, <2>1, DifferenceIncreasing
<1>7. /\ \A s : TestEnd(s)' = TestEnd(s) /\ Extent(s)' = Extent(s)
      /\ Parts(cur)' = Parts(cur)
  BY <1>2, EditsFixed DEF Extent, Parts
<1>8. BlockChunked'
  <2>1. PICK k \in DOMAIN split(stmts_, n) : chunk = split(stmts_, n)[k]
    BY <1>1, HeadIsChunk
  <2>2. Nests(Parts(cur), difference(stmts_, split(stmts_, n)[k]),
              Larger(n - 1, 2))
    BY <1>3, NestsDropped
  <2> QED BY <1>2, <1>6, <1>7, <2>1, <2>2 DEF BlockChunked
<1> HIDE DEF chunk
<1>9. BlockSolid'
  <2>1. CASE Extent(cur) \cap kept = {}
    BY <1>2, <1>4, <1>7, <2>1 DEF BlockSolid
  <2>2. CASE ~(Extent(cur) \cap kept = {})
    <3> SUFFICES ASSUME NEW d \in Elements(stmts_) \ Elements(chunk),
                        NEW e \in Elements(stmts_) \ Elements(chunk),
                        Kind(e) # "other",
                        \A x \in Parts(cur) : d < x /\ x < e =>
                          x \in Elements(stmts_) \ Elements(chunk)
                 PROVE  First(d) .. TestEnd(e) \subseteq kept \ Hull(chunk)
      BY <1>2, <1>4, <1>5, <1>7 DEF BlockSolid
    <3>1. First(d) .. TestEnd(e) \subseteq kept
      BY <1>1, <2>2 DEF BlockSolid
    <3> QED BY <1>1, <3>1, BlockSolidStays DEF chunk
  <2> QED BY <2>1, <2>2
<1> QED BY <1>8, <1>9

\* Nothing has been removed before the pass.
LEMMA ExactInit ==
  Init /\ Separate /\ Deterministic /\ SmallBlocks => EInv
<1> SUFFICES ASSUME Init, Separate, Deterministic, SmallBlocks PROVE EInv
  OBVIOUS
<1>1. WInv
  BY WholeInit
<1>2. pc = "start" /\ file = kept /\ kept \in passed
  BY DEF Init, PassInit, TransformationInit
<1> QED BY <1>1, <1>2 DEF EInv, BlockChunked, BlockSolid, Exact, InBlock

\* Every step keeps the file the accepted text, less what is being judged.
LEMMA ExactStep == EInv /\ [Next]_vars => EInv'
<1> SUFFICES ASSUME EInv, [Next]_vars PROVE EInv'
  OBVIOUS
<1>1. /\ WInv' /\ SmallBlocks' /\ Deterministic' /\ IInv
      /\ Exact /\ kept \in passed /\ BlockChunked /\ BlockSolid
  <2>1. WInv /\ WInv' /\ IInv
    BY WholeStep DEF EInv, WInv, BInv, QInv
  <2>2. SmallBlocks' = SmallBlocks
    BY DEF SmallBlocks, Parts
  <2> QED BY <2>1, <2>2 DEF EInv
<1> SUFFICES BlockChunked' /\ BlockSolid' /\ Exact' /\ (kept \in passed)'
  BY <1>1 DEF EInv
<1>2. CASE reduceWhile \/ reduceIf \/ reduceIfThen \/ Test
  BY <1>2, QuestionExact
<1>3. CASE Refuse \/ RefuseChunk
  BY <1>3, RefusalExact
<1>4. CASE Accept \/ AcceptChunk
  <2>1. /\ file' = file /\ kept' = file /\ passed' = passed \cup {file}
        /\ pc' # "oracle" /\ (Accept => ~InBlock')
    BY <1>4 DEF Accept, AcceptChunk, OracleAccepts, InBlock
  <2>2. BlockChunked' /\ BlockSolid'
    <3>1. CASE Accept
      BY <2>1, <3>1 DEF BlockChunked, BlockSolid
    <3>2. CASE AcceptChunk
      BY <3>2, AcceptedBlock
    <3> QED BY <1>4, <3>1, <3>2
  <2> QED BY <2>1, <2>2 DEF Exact
<1>5. CASE StartRound \/ TestFails \/ Refine \/ reduceCompound
  <2>1. UNCHANGED <<file, kept, passed>> /\ pc # "oracle" /\ pc' # "oracle"
    BY <1>5 DEF StartRound, TestFails, Refine, reduceCompound, textVars, shared
  <2>2. BlockChunked' /\ BlockSolid'
    BY <1>5, BlockBegins, BlockGoesOn
  <2> QED BY <1>1, <2>1, <2>2 DEF Exact
<1>6. CASE \/ Begin \/ NextBody \/ Finish \/ BodyDone \/ Pop \/ HddIgnores
           \/ reduceLabel \/ DdminDone
  <2>1. /\ UNCHANGED <<file, kept, passed>> /\ pc # "oracle" /\ pc' # "oracle"
        /\ pc' \notin {"round", "test"}
    BY <1>6 DEF Begin, Initialize, NextBody, Finish, BodyDone, Pop, HddIgnores,
                reduceLabel, DdminDone, textVars, shared
  <2> QED BY <1>1, <2>1 DEF Exact, BlockChunked, BlockSolid, InBlock
<1>7. CASE UNCHANGED vars
  <2>1. /\ UNCHANGED <<source, file, kept, passed, functionBodies, body, cur>>
        /\ UNCHANGED <<stmts_, n, subsets, pc, trial>>
    BY <1>7 DEF vars, textVars, passVars, shared
  <2>2. /\ \A s : TestEnd(s)' = TestEnd(s) /\ Extent(s)' = Extent(s)
                  /\ Parts(s)' = Parts(s)
        /\ \A what : Removed(what)' = Removed(what)
                     /\ Reverted(what)' = Reverted(what)
    BY <2>1, EditsFixed DEF Extent, Parts
  <2>3. Exact'
    BY <1>1, <2>1, <2>2 DEF Exact
  <2>4. BlockChunked' /\ BlockSolid'
    BY <1>1, <2>1, <2>2 DEF BlockChunked, BlockSolid, InBlock
  <2> QED BY <1>1, <2>1, <2>3, <2>4
<1> QED BY <1>2, <1>3, <1>4, <1>5, <1>6, <1>7
        DEF Next, hdd, ddmin, verdict

\* The invariant holds in all states of the pass.
LEMMA ExactAlways ==
  Separate /\ Deterministic /\ SmallBlocks /\ Spec => []EInv
<1> QED BY ExactInit, ExactStep, PTL DEF Spec

\* With a deterministic oracle a failed test leaves no trace: between two
\* questions the file is the text that was accepted last, in every program
\* whose statements are separate and whose blocks are small.  An oracle that
\* changes its mind breaks this (see the run local_revive).
THEOREM RevertsAreExact ==
  Separate /\ Deterministic /\ SmallBlocks /\ Spec => []RevertRestores
<1>1. EInv => RevertRestores
  BY DEF EInv, Exact, RevertRestores, AtRest
<1> QED BY ExactAlways, <1>1, PTL
-----------------------------------------------------------------------------
\* In the last round of a block, what has still to be tested and what the
\* oracle has refused; and what that leaves when ddmin is done.
LastInBlock == InBlock /\ pc # "round" /\ n = Len(stmts_)

Refused(s) == kept \ Hull(<<s>>) \in failed

BlockMinimal ==
  /\ LastInBlock =>
       \A s \in Elements(stmts_) :
         Testable(<<s>>) =>
           Refused(s) \/ \E k \in DOMAIN subsets : subsets[k] = <<s>>
  /\ pc \in {"queue", "body"} /\ cur # 0 /\ Kind(cur) = "compound" =>
       \A s \in Elements(stmts_) : Testable(<<s>>) => Refused(s)

\* hdd has not begun before there is a body.
Begun == /\ pc = "start" => cur = 0
         /\ cur # 0 => body # 0

MInv == EInv /\ BlockMinimal /\ Begun

\* A body that is taken belongs to the text that was parsed.
LEMMA BegunParsed == IInv /\ Begun /\ cur # 0 => Parsed = Cells
<1> SUFFICES ASSUME IInv, Begun, cur # 0 PROVE Parsed = Cells
  OBVIOUS
<1>1. /\ functionBodies \in Seq([stmt : StmtId, text : Text])
      /\ body \in 0 .. Len(functionBodies) /\ body # 0
  BY DEF IInv, TypeOK, Begun
<1>2. body \in DOMAIN functionBodies
  BY <1>1, LenProperties
<1> QED BY <1>2 DEF IInv, Fresh, Parsed

\* The last round tests every statement alone.
LEMMA LastRoundStarts ==
  ASSUME EInv, StartRound, n = Len(stmts_)
  PROVE  \A s \in Elements(stmts_) : \E k \in DOMAIN subsets' : subsets'[k] = <<s>>
<1>1. stmts_ \in Seq(Parts(cur)) /\ stmts_ # <<>>
  BY BlockFacts DEF EInv, WInv, BInv, InBlock, StartRound
<1>2. Len(stmts_) # 0
  BY <1>1, EmptySeq
<1>3. subsets' = split(stmts_, Len(stmts_))
  BY DEF StartRound
<1> QED BY <1>1, <1>2, <1>3, SplitSingles DEF Elements

\* A statement that was tested alone and refused stays refused until a
\* success starts the rounds of its block again.
LEMMA MinimalStep == MInv /\ [Next]_vars => MInv'
<1> SUFFICES ASSUME MInv, [Next]_vars PROVE BlockMinimal' /\ Begun'
  BY ExactStep DEF MInv
<1>1. /\ EInv /\ QInv /\ IInv /\ IInv' /\ Exact /\ BlockMinimal /\ Begun
      /\ body \in Nat
  BY ExactStep, LaterFacts DEF MInv, EInv, WInv, BInv, QInv
<1>2. CASE Begin
  BY <1>1, <1>2
     DEF Begin, BlockMinimal, LastInBlock, InBlock, Begun
<1>3. CASE NextBody
  <2>1. /\ UNCHANGED <<source, kept, failed, cur, stmts_>> /\ pc' = "queue"
        /\ pc = "body" /\ body' = body + 1
    BY <1>3 DEF NextBody, textVars, shared
  <2>2. Begun'
    BY <1>1, <2>1 DEF Begun
  <2>3. cur # 0 => \A s : Refused(s)' = Refused(s)
    <3>1. cur # 0 => Parsed' = Parsed
      <4>1. (IInv /\ Begun /\ cur # 0 => Parsed = Cells)'
        BY BegunParsed, PTL
      <4> QED BY <1>1, <2>1, <2>2, <4>1, BegunParsed
    <3>2. cur # 0 => \A subset : Hull(subset)' = Hull(subset)
      BY <2>1, <3>1, SameParse
    <3> QED BY <2>1, <3>2 DEF Refused
  <2>4. \A subset : Testable(subset)' = Testable(subset)
    BY DEF Testable
  <2>5. BlockMinimal'
    BY <1>1, <2>1, <2>3, <2>4 DEF BlockMinimal, LastInBlock, InBlock
  <2> QED BY <2>2, <2>5
<1>4. CASE ~Begin /\ ~NextBody
  <2>1. UNCHANGED <<functionBodies, body, source>>
    BY <1>4 DEF Next, Finish, BodyDone, Pop, hdd, HddIgnores, reduceLabel,
             reduceWhile, reduceIf, reduceIfThen, reduceCompound, Ask, ddmin,
             StartRound, Test, TestFails, Refine, DdminDone, verdict, Accept,
             AcceptChunk, Refuse, RefuseChunk, Revert, OracleAccepts, vars,
             passVars, textVars
  <2>2. /\ \A subset : Hull(subset)' = Hull(subset)
        /\ \A subset : Testable(subset)' = Testable(subset)
    BY <2>1, EditsFixed
  <2>3. kept' = kept /\ failed \subseteq failed' => \A s : Refused(s) => Refused(s)'
    BY <2>2 DEF Refused
  <2>4. CASE Finish \/ BodyDone \/ DdminDone
    <3>1. /\ UNCHANGED <<kept, failed, cur, stmts_, body>>
          /\ pc' \in {"done", "body", "queue"} /\ pc # "start"
      BY <2>4 DEF Finish, BodyDone, DdminDone, textVars, shared
    <3>2. \A s \in Elements(stmts_) :
            pc' # "done" /\ cur # 0 /\ Kind(cur) = "compound"
              /\ Testable(<<s>>) => Refused(s)
      <4>1. CASE BodyDone
        BY <1>1, <4>1 DEF BodyDone, BlockMinimal
      <4>2. CASE DdminDone /\ pc = "test"
        <5>1. LastInBlock /\ subsets = <<>>
          BY <4>2 DEF DdminDone, LastInBlock, InBlock
        <5> QED BY <1>1, <5>1 DEF BlockMinimal
      <4>3. CASE DdminDone /\ pc # "test"
        BY <4>3 DEF DdminDone, Elements
      <4> QED BY <2>4, <4>1, <4>2, <4>3 DEF Finish
    <3>3. BlockMinimal'
      BY <2>2, <2>3, <3>1, <3>2 DEF BlockMinimal, LastInBlock, InBlock
    <3> QED BY <1>1, <3>1, <3>3 DEF Begun
  <2>5. CASE Pop
    <3>1. pc' = "hdd" /\ pc = "queue"
      BY <2>5 DEF Pop
    <3>2. body # 0 /\ body' = body
      BY <1>1, <2>1, <3>1 DEF IInv, InBody
    <3> QED BY <3>1, <3>2 DEF BlockMinimal, LastInBlock, InBlock, Begun
  <2>6. CASE \/ HddIgnores \/ reduceLabel \/ reduceWhile \/ reduceIf
             \/ reduceIfThen \/ Accept \/ Refuse
    <3>1. /\ cur' = cur /\ pc # "start" /\ pc' # "start" /\ ~InBlock'
          /\ Kind(cur) # "compound" \/ pc' \notin {"queue", "body"}
      BY <1>1, <2>6 DEF HddIgnores, Ignored, Simple, reduceLabel, reduceWhile,
         reduceIf, reduceIfThen, Ask, Accept, Refuse, InBlock, IInv, Working,
         Asked, TwoBranches
    <3> QED BY <1>1, <2>1, <3>1 DEF BlockMinimal, LastInBlock, Begun
  <2>7. CASE reduceCompound \/ Refine \/ AcceptChunk
    <3>1. cur' = cur /\ pc # "start" /\ pc' = "round"
      BY <2>7 DEF reduceCompound, Refine, AcceptChunk
    <3> QED BY <1>1, <2>1, <3>1 DEF BlockMinimal, LastInBlock, Begun
  <2>8. CASE StartRound \/ Test \/ TestFails \/ RefuseChunk
    <3>1. /\ UNCHANGED <<cur, stmts_, n, kept>> /\ failed \subseteq failed'
          /\ InBlock /\ InBlock' /\ pc' \in {"test", "oracle"} /\ pc # "start"
      BY <2>8 DEF StartRound, Test, Ask, CallOracle, TestFails, RefuseChunk,
         OracleRefuses, InBlock, textVars, shared
    <3>2. ASSUME n = Len(stmts_), NEW s \in Elements(stmts_), Testable(<<s>>)
          PROVE  \/ Refused(s)'
                 \/ \E k \in DOMAIN subsets' : subsets'[k] = <<s>>
      <4>1. CASE StartRound
        BY <1>1, <3>2, <4>1, LastRoundStarts
      <4>2. CASE Test
        BY <1>1, <2>3, <3>1, <3>2, <4>2
           DEF Test, Ask, BlockMinimal, LastInBlock
      <4>3. CASE TestFails \/ RefuseChunk
        <5>1. /\ subsets' = Tail(subsets) /\ subsets # <<>> /\ pc # "round"
              /\ subsets \in Seq(Seq(Parts(cur)) \ {<<>>})
          BY <1>1, <3>1, <4>3, BlockFacts
             DEF TestFails, RefuseChunk, IInv, Working, Asked
        <5>2. /\ 1 \in DOMAIN subsets /\ Head(subsets) = subsets[1]
              /\ \A k \in DOMAIN subsets' :
                   k + 1 \in DOMAIN subsets /\ subsets'[k] = subsets[k + 1]
              /\ \A k \in DOMAIN subsets : k = 1 \/ k - 1 \in DOMAIN subsets'
              /\ DOMAIN subsets \subseteq Nat
          BY <5>1, TailShifts, LenProperties
        <5>3. CASE Refused(s)
          BY <2>3, <3>1, <5>3
        <5>4. CASE ~Refused(s)
          <6>1. PICK k \in DOMAIN subsets : subsets[k] = <<s>>
            BY <1>1, <3>1, <3>2, <5>1, <5>4 DEF BlockMinimal, LastInBlock
          <6>2. CASE k = 1
            <7>1. RefuseChunk /\ Head(subsets) = <<s>>
              BY <3>2, <4>3, <5>2, <6>1, <6>2 DEF TestFails
            <7>2. file = kept \ Hull(<<s>>) /\ failed' = failed \cup {file}
              BY <1>1, <7>1, RemovedParts DEF RefuseChunk, OracleRefuses, Exact
            <7> QED BY <2>2, <3>1, <7>2 DEF Refused
          <6>3. CASE k # 1
            <7>1. k - 1 \in DOMAIN subsets' /\ k - 1 + 1 = k
              BY <5>2, <6>3
            <7> QED BY <5>2, <6>1, <7>1
          <6> QED BY <6>2, <6>3
        <5> QED BY <5>3, <5>4
      <4> QED BY <2>8, <4>1, <4>2, <4>3
    <3>3. BlockMinimal'
      BY <2>2, <3>1, <3>2 DEF BlockMinimal, LastInBlock
    <3> QED BY <1>1, <2>1, <3>1, <3>3 DEF Begun, InBlock
  <2>9. CASE UNCHANGED vars
    <3>1. UNCHANGED <<pc, body, cur, trial, stmts_, n, subsets, kept, failed>>
      BY <2>9 DEF vars, passVars, textVars, shared
    <3>2. \A s : Refused(s)' = Refused(s)
      BY <2>2, <3>1 DEF Refused
    <3> QED BY <1>1, <2>2, <3>1, <3>2
            DEF BlockMinimal, LastInBlock, InBlock, Begun
  <2> QED BY <1>4, <2>4, <2>5, <2>6, <2>7, <2>8, <2>9
          DEF Next, hdd, ddmin, verdict
<1> QED BY <1>2, <1>3, <1>4

\* When ddmin leaves a block, no statement can be taken out of it alone: in
\* every program whose statements are separate and whose blocks are small, a
\* deterministic oracle has refused the file without it, also when the block
\* is what was left of a branch whose if is gone.
THEOREM BlocksAreOneMinimal ==
  Separate /\ Deterministic /\ SmallBlocks /\ Spec => []BlockOneMinimal
<1>1. Init /\ Separate /\ Deterministic /\ SmallBlocks => MInv
  <2> SUFFICES ASSUME Init, Separate, Deterministic, SmallBlocks
               PROVE  BlockMinimal /\ Begun
    BY ExactInit DEF MInv
  <2> QED BY DEF Init, PassInit, BlockMinimal, Begun, LastInBlock, InBlock
<1>2. MInv => BlockOneMinimal
  BY DEF MInv, EInv, Exact, BlockMinimal, BlockOneMinimal, Refused
<1> QED BY MinimalStep, <1>1, <1>2, PTL DEF Spec
=============================================================================
