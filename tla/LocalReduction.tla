--------------------------- MODULE LocalReduction ---------------------------
(***************************************************************************)
(* The local pass (src/src/core/LocalReduction.cc): it walks through the   *)
(* body of every function, breadth first, and takes statements, branches   *)
(* and loop heads out of it as the oracle allows.                          *)
(*                                                                         *)
(* The program is the sequence Stmts of its statements in the order in     *)
(* which they begin.  Only if and while, compound and label statements     *)
(* have statements below them; the branches of an if and the body of a     *)
(* while are compound statements.  The blank characters between pieces of  *)
(* text are not cells.                                                     *)
(***************************************************************************)
EXTENDS Transformation

CONSTANTS
  Stmts,      \* the statements of the program, as they begin in the text
  Semis       \* the cells that hold a ';'

\* The statements whose end test finds at the next ';'.
Simple == {"binary", "return", "goto", "break", "continue", "decl", "call",
           "unary"}
\* "other": for, do, switch, and whatever else test and hdd do not handle.
Kinds == {"compound", "if", "while", "label", "other"} \cup Simple
StmtId == DOMAIN Stmts
\* parent: the statement it is a part of, 0 for the body of a function;
\* elseLoc: getElseLoc(), 0 without an else.  The parser gives every statement
\* valid locations, so no guard against invalid ones is ever taken.
Stmt == [kind : Kinds, first : Cells, last : Cells, parent : Nat,
         elseLoc : Nat]

Kind(s)  == Stmts[s].kind
First(s) == Stmts[s].first
Last(s)  == Stmts[s].last
Extent(s)  == First(s) .. Last(s)
HasElse(s) == Stmts[s].elseLoc # 0
Parts(s)   == {c \in StmtId : Stmts[c].parent = s}

\* Statements contain their parts, and statements side by side do not overlap.
Nested ==
  /\ \A s \in StmtId : Stmts[s].parent < s /\ First(s) <= Last(s)
  /\ \A s \in StmtId : \A c \in Parts(s) : Extent(c) \subseteq Extent(s)
  /\ \A c, d \in StmtId :
       Stmts[c].parent = Stmts[d].parent /\ c < d => Last(c) < First(d)

\* A while has a body, and a label one statement, with which it ends; an if
\* has a then branch, and the else branch is behind the keyword.
Complete ==
  \A s \in StmtId :
    /\ Kind(s) = "while" => Parts(s) # {}
    /\ Kind(s) = "label" =>
         \E c \in StmtId : Parts(s) = {c} /\ Last(c) = Last(s)
    /\ Kind(s) = "if" =>
         IF HasElse(s)
         THEN \E c, d \in StmtId : /\ Parts(s) = {c, d}
                                 /\ Last(c) < Stmts[s].elseLoc
                                 /\ Stmts[s].elseLoc < First(d)
         ELSE Parts(s) # {}

ASSUME LocalReductionAssumption ==
  /\ Stmts \in Seq(Stmt)
  /\ Semis \subseteq Cells
  /\ Nested /\ Complete

VARIABLES
  functionBodies,   \* the bodies to reduce, each with the text of the parse
                    \* that its statements belong to; never cleared
  pc,               \* "start" before the pass, "done" after it; "body" at
                    \* the loop over the bodies, "queue" at the loop over q;
                    \* "then" half way through reduceIf; "round" and "test"
                    \* in ddmin; "oracle" while the oracle runs
  body,             \* the position in functionBodies
  q,                \* the statements waiting for hdd
  cur,              \* the statement hdd works on
  trial,            \* what the oracle is asked about
  stmts_, n,        \* ddmin: the statements to reduce, the number of parts
  subsets           \* ddmin: the subsets this round has still to test
passVars == <<functionBodies, pc, body, q, cur, trial, stmts_, n, subsets>>
vars == <<textVars, passVars>>
-----------------------------------------------------------------------------
\* The parse whose AST the current body belongs to.
Parsed == functionBodies[body].text

\* A statement is in the AST when it begins in text that was there.  When
\* the head of an if or while was gone, what was left of it has become a
\* part of the statement around it.
InAst(s) == First(s) \in Parsed
Enclosing ==
  LET around[s \in StmtId] ==
        LET p == Stmts[s].parent IN IF p = 0 \/ InAst(p) THEN p ELSE around[p]
  IN around
Below(s) == {c \in StmtId : InAst(c) /\ Enclosing[c] = s}

\* getBodyStatements and getImmediateChildren.
Children(s) == Enumerate(Below(s))
Then(s)     == Children(s)[1]
Else(s)     == Children(s)[Len(Children(s))]

NextSemi(after) ==
  LET semis == {c \in Semis \cap source : c > after} IN
    IF semis = {} THEN NumCells ELSE CHOOSE c \in semis : \A s \in semis : c <= s

\* The last cell that test removes when a subset ends in s.
TestEnd(s) ==
  CASE Kind(s) \in {"compound", "if", "while"} -> Last(s)
    [] Kind(s) = "label" ->
         IF Kind(Then(s)) = "compound" THEN Last(Then(s))
                                       ELSE NextSemi(Last(Then(s)))
    [] OTHER -> NextSemi(Last(s))
Hull(subset) == First(subset[1]) .. TestEnd(subset[Len(subset)])

\* test returns without asking the oracle about a subset that ends in a kind
\* of statement it does not know.
Testable(subset) == Kind(subset[Len(subset)]) # "other"

\* What reduceIf and reduceWhile take out: the head, up to the first branch;
\* the else branch with its keyword; all up to and with the else.
HeadPart(s) == First(s) .. (First(Then(s)) - 1)
ElsePart(s) == Stmts[s].elseLoc .. Last(s)
ThenPart(s) == First(s) .. Stmts[s].elseLoc

\* What is blanked to try something, and what is restored if it fails.
Removed(what) ==
  CASE what = "else"              -> HeadPart(cur) \cup ElsePart(cur)
    [] what = "then"              -> ThenPart(cur)
    [] what \in {"cond", "while"} -> HeadPart(cur)
    [] what = "chunk"             -> Hull(Head(subsets))
\* Fault: only the head of an if is restored, whatever was removed of it.
RevertedHead(what) == IF what = "chunk" THEN Hull(Head(subsets))
                                        ELSE HeadPart(cur)
Reverted(what) == IF what = "chunk" THEN Hull(Head(subsets)) ELSE Extent(cur)

Msg(what) == CASE what \in {"else", "then", "cond"} -> "if"
               [] what = "while"                    -> "loop"
               [] what = "chunk"                    -> "local"

\* What reduceIf and reduceWhile push when the oracle has answered.
\* Faults: the if is pushed instead of the branch that is left of it; the
\* then branch is pushed for the else branch.
PushStatement(what) == <<cur>>
PushThenTwice(what) ==
  IF what = "then" THEN <<Then(cur), Then(cur)>> ELSE <<Then(cur)>>
PushIfAccepted(what) ==
  IF what = "then" THEN <<Else(cur)>> ELSE <<Then(cur)>>
PushIfRefused(what) ==
  IF what = "then" THEN <<Then(cur), Else(cur)>> ELSE <<Then(cur)>>

\* Text is blanked, the file is written and the oracle is started.
Ask(what) ==
  /\ trial' = what
  /\ writeToFile(Blank(EditBuffer, Removed(what)))
  /\ CallOracle(Msg(what))
  /\ pc' = "oracle"
  /\ UNCHANGED <<source, functionBodies, body, q, cur, stmts_, n, subsets>>
-----------------------------------------------------------------------------
PassInit ==
  /\ functionBodies = <<>>
  /\ pc = "start" /\ body = 0
  /\ q = <<>> /\ cur = 0 /\ trial = "none"
  /\ stmts_ = <<>> /\ n = 2 /\ subsets = <<>>

Init == TransformationInit /\ PassInit

\* The function bodies that the visitor finds in the text.
CollectedBodies(text) ==
  LET roots == Enumerate({s \in StmtId : Stmts[s].parent = 0
                                         /\ First(s) \in text})
  IN [i \in DOMAIN roots |-> [stmt |-> roots[i], text |-> text]]

\* Initialize, HandleTopLevelDecl: the bodies are added to those that are
\* there already.
Begin ==
  /\ pc = "start"
  /\ Initialize
  /\ functionBodies' = functionBodies \o CollectedBodies(source')
  /\ body' = 0
  /\ pc' = "body"
  /\ UNCHANGED <<q, cur, trial, stmts_, n, subsets>>

\* localReduction: the next body is pushed.
NextBody ==
  /\ pc = "body" /\ body < Len(functionBodies)
  /\ body' = body + 1
  /\ q' = Append(q, functionBodies[body'].stmt)
  /\ pc' = "queue"
  /\ UNCHANGED <<textVars, functionBodies, cur, trial, stmts_, n, subsets>>

Finish ==
  /\ pc = "body" /\ body = Len(functionBodies)
  /\ pc' = "done"
  /\ UNCHANGED <<textVars, functionBodies, body, q, cur, trial, stmts_, n,
                 subsets>>

BodyDone ==
  /\ pc = "queue" /\ q = <<>>
  /\ pc' = "body"
  /\ UNCHANGED <<textVars, functionBodies, body, q, cur, trial, stmts_, n,
                 subsets>>

Pop ==
  /\ pc = "queue" /\ q # <<>>
  /\ cur' = Head(q)
  /\ q' = Tail(q)
  /\ pc' = "hdd"
  /\ UNCHANGED <<textVars, functionBodies, body, trial, stmts_, n, subsets>>

\* hdd does nothing for a simple statement, for the kinds it does not know, and
\* for a label in front of anything but a block.
Ignored(s) ==
  \/ Kind(s) \in Simple \cup {"other"}
  \/ Kind(s) = "label" /\ Kind(Then(s)) # "compound"

HddIgnores ==
  /\ pc = "hdd" /\ Ignored(cur)
  /\ pc' = "queue"
  /\ UNCHANGED <<textVars, functionBodies, body, q, cur, trial, stmts_, n,
                 subsets>>

reduceLabel ==
  /\ pc = "hdd" /\ Kind(cur) = "label" /\ ~Ignored(cur)
  /\ q' = Append(q, Then(cur))
  /\ pc' = "queue"
  /\ UNCHANGED <<textVars, functionBodies, body, cur, trial, stmts_, n,
                 subsets>>

reduceWhile == pc = "hdd" /\ Kind(cur) = "while" /\ Ask("while")

\* With an else branch that branch goes first; without, the condition.
reduceIf ==
  /\ pc = "hdd" /\ Kind(cur) = "if"
  /\ Ask(IF HasElse(cur) THEN "else" ELSE "cond")

reduceIfThen == pc = "then" /\ Ask("then")

\* reduceCompound: all statements are pushed, then ddmin runs on them.
reduceCompound ==
  /\ pc = "hdd" /\ Kind(cur) = "compound"
  /\ q' = q \o Children(cur)
  /\ stmts_' = Children(cur)
  /\ n' = 2
  /\ subsets' = <<>>
  /\ pc' = "round"
  /\ UNCHANGED <<textVars, functionBodies, body, cur, trial>>

\* The head of ddmin's loop.
StartRound ==
  /\ pc = "round" /\ stmts_ # <<>>
  /\ subsets' = split(stmts_, n)
  /\ pc' = "test"
  /\ UNCHANGED <<textVars, functionBodies, body, q, cur, trial, stmts_, n>>

Test ==
  /\ pc = "test" /\ subsets # <<>> /\ Testable(Head(subsets))
  /\ Ask("chunk")

TestFails ==
  /\ pc = "test" /\ subsets # <<>> /\ ~Testable(Head(subsets))
  /\ subsets' = Tail(subsets)
  /\ UNCHANGED <<textVars, functionBodies, pc, body, q, cur, trial, stmts_,
                 n>>

\* Fault: n stays, and the same subsets are tried again.
RefineKeepsN ==
  /\ pc = "test" /\ subsets = <<>> /\ n # Len(stmts_)
  /\ pc' = "round"
  /\ UNCHANGED <<textVars, functionBodies, body, q, cur, trial, stmts_, n,
                 subsets>>

Refine ==
  /\ pc = "test" /\ subsets = <<>> /\ n # Len(stmts_)
  /\ n' = Smaller(n * 2, Len(stmts_))
  /\ pc' = "round"
  /\ UNCHANGED <<textVars, functionBodies, body, q, cur, trial, stmts_,
                 subsets>>

\* Fault: the loop ends with the first round in which nothing was removed.
DdminDoneEarly ==
  /\ \/ pc = "round" /\ stmts_ = <<>>
     \/ pc = "test" /\ subsets = <<>>
  /\ pc' = "queue"
  /\ UNCHANGED <<textVars, functionBodies, body, q, cur, trial, stmts_, n,
                 subsets>>

\* The two exits of ddmin's loop; reduceCompound and hdd return.
DdminDone ==
  /\ \/ pc = "round" /\ stmts_ = <<>>
     \/ pc = "test" /\ subsets = <<>> /\ n = Len(stmts_)
  /\ pc' = "queue"
  /\ UNCHANGED <<textVars, functionBodies, body, q, cur, trial, stmts_, n,
                 subsets>>

\* The oracle accepts a smaller if or while: what is left of it is next.
Accept ==
  /\ pc = "oracle" /\ trial # "chunk"
  /\ OracleAccepts(Msg(trial))
  /\ q' = q \o PushIfAccepted(trial)
  /\ pc' = "queue"
  /\ UNCHANGED <<source, edits, file, functionBodies, body, cur, trial,
                 stmts_, n, subsets>>

\* Faults: n is decreased without bound; the complement is not kept.
AcceptChunkUnboundedN ==
  /\ pc = "oracle" /\ trial = "chunk"
  /\ OracleAccepts(Msg(trial))
  /\ stmts_' = difference(stmts_, Head(subsets))
  /\ n' = n - 1
  /\ subsets' = <<>>
  /\ pc' = "round"
  /\ UNCHANGED <<source, edits, file, functionBodies, body, q, cur, trial>>
AcceptChunkKeepsList ==
  /\ pc = "oracle" /\ trial = "chunk"
  /\ OracleAccepts(Msg(trial))
  /\ n' = Larger(n - 1, 2)
  /\ subsets' = <<>>
  /\ pc' = "round"
  /\ UNCHANGED <<source, edits, file, functionBodies, body, q, cur, trial,
                 stmts_>>

\* The oracle accepts the block without a subset of its statements.
AcceptChunk ==
  /\ pc = "oracle" /\ trial = "chunk"
  /\ OracleAccepts(Msg(trial))
  /\ stmts_' = difference(stmts_, Head(subsets))
  /\ n' = Larger(n - 1, 2)
  /\ subsets' = <<>>
  /\ pc' = "round"
  /\ UNCHANGED <<source, edits, file, functionBodies, body, q, cur, trial>>

Revert ==
  /\ edits' = <<Restore(EditBuffer, Reverted(trial))>>
  /\ file' = edits'[1]
  /\ UNCHANGED source

\* The if or while is restored.  The then branch has still to be tried when
\* it was the else branch that could not be removed.
Refuse ==
  /\ pc = "oracle" /\ trial # "chunk"
  /\ OracleRefuses(Msg(trial))
  /\ Revert
  /\ IF trial = "else"
     THEN pc' = "then" /\ q' = q
     ELSE pc' = "queue" /\ q' = q \o PushIfRefused(trial)
  /\ UNCHANGED <<functionBodies, body, cur, trial, stmts_, n, subsets>>

RefuseChunk ==
  /\ pc = "oracle" /\ trial = "chunk"
  /\ OracleRefuses(Msg(trial))
  /\ Revert
  /\ subsets' = Tail(subsets)
  /\ pc' = "test"
  /\ UNCHANGED <<functionBodies, body, q, cur, trial, stmts_, n>>

hdd == HddIgnores \/ reduceLabel \/ reduceWhile \/ reduceIf \/ reduceCompound
ddmin == StartRound \/ Test \/ TestFails \/ Refine \/ DdminDone
verdict == Accept \/ AcceptChunk \/ Refuse \/ RefuseChunk

Next == \/ Begin \/ NextBody \/ Finish \/ BodyDone \/ Pop
        \/ hdd \/ reduceIfThen \/ ddmin \/ verdict

Spec == Init /\ [][Next]_vars
\* One thread runs the pass, and system() returns once the oracle has ended.
FairSpec == Spec /\ WF_vars(Next)
-----------------------------------------------------------------------------
TypeOK ==
  /\ TextTypeOK
  /\ functionBodies \in Seq([stmt : StmtId, text : Text])
  /\ pc \in {"start", "body", "queue", "hdd", "then", "round", "test",
             "oracle", "done"}
  /\ body \in 0 .. Len(functionBodies)
  /\ q \in Seq(StmtId)
  /\ cur \in StmtId \cup {0}
  /\ trial \in {"none", "else", "then", "cond", "while", "chunk"}
  /\ stmts_ \in Seq(StmtId)
  /\ n \in Nat \ {0}
  /\ subsets \in Seq(Seq(StmtId))

AtRest == pc # "oracle"

\* Whatever the layout, a revert leaves all text of the last accepted version
\* in the file.
NothingAcceptedIsLost == AtRest => kept \subseteq file

\* Between two questions the file is the last text the oracle accepted.
RevertRestores == AtRest => file = kept

\* In every block, each statement whose end test looks for has its ';' behind
\* it, in front of the next statement.  A declaration ends with its own ';',
\* so that test looks for one too many: it has to be followed by a lone ';'.
Separate ==
  \A p \in StmtId, s \in StmtId :
    /\ Kind(p) = "compound" /\ s \in Parts(p)
    /\ \/ Kind(s) \in Simple
       \/ Kind(s) = "label" /\ \A c \in Parts(s) : Kind(c) # "compound"
    => \E semi \in Semis :
         /\ Last(s) < semi /\ semi <= Last(p)
         /\ \A d \in Parts(p) : s < d => semi < First(d)

\* What waits in the queue is whole or gone, never half reduced: the walk is
\* breadth first, so that an if or while is tried, and restored with all that
\* is below it, before anything below it is (LocalReduction.cc:219, 246, 272).
QueuedAreWholeOrGone ==
  AtRest => \A i \in DOMAIN q :
              \/ Extent(q[i]) \subseteq file
              \/ Extent(q[i]) \cap file = {}

\* No statement waits twice, or waits while hdd works on it.
QueuedOnce ==
  /\ \A i, j \in DOMAIN q : q[i] = q[j] => i = j
  /\ pc \in {"hdd", "then", "round", "test", "oracle"}
       => \A i \in DOMAIN q : q[i] # cur

\* When ddmin leaves a block, no single statement can be taken out of it: the
\* oracle has refused the file without it.
BlockOneMinimal ==
  (pc = "queue" /\ cur # 0 /\ Kind(cur) = "compound") =>
    \A s \in Elements(stmts_) :
      Testable(<<s>>) => file \ Hull(<<s>>) \in failed

\* The pass ends: nothing is pushed twice, and ddmin ends on each block.
Terminates == <>(pc = "done")

\* The pass keeps the promise of Reducer.
R == INSTANCE Reducer WITH best <- kept, trial <- file,
                           judging <- (pc = "oracle")
RefinesReducer == R!Spec
=============================================================================
