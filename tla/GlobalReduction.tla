--------------------------- MODULE GlobalReduction ---------------------------
(***************************************************************************)
(* The global pass (src/src/core/GlobalReduction.cc): it collects the      *)
(* declarations of the file and removes as many as the oracle lets it,     *)
(* by delta debugging on the list of declarations.                         *)
(*                                                                         *)
(* The program is the sequence Ast of the nodes the collection visitor     *)
(* can meet, in the order of its traversal.  A node is part of the AST     *)
(* when the cell it begins in is visible in the parsed text.               *)
(***************************************************************************)
EXTENDS Transformation

CONSTANTS
  Ast,     \* the nodes of the program, in the order of the traversal
  Semis    \* the cells that hold a ';'

Kinds == {"function", "var", "record", "typedef", "enum", "ref"}
NodeId == DOMAIN Ast
\* main: FD->isMain(); def: FD->isThisDeclarationADefinition(); global:
\* VD->hasGlobalStorage(); to: the node that a DeclRefExpr refers to, 0 when
\* it refers to no function or variable; first, last: getSourceRange().
Node == [kind : Kinds, main : BOOLEAN, def : BOOLEAN, global : BOOLEAN,
         to : Nat, first : Cells, last : Cells]

ASSUME GlobalReductionAssumption ==
  /\ Ast \in Seq(Node)
  /\ Semis \subseteq Cells

VARIABLES
  pc,        \* "start" before the pass and "done" after it; in ddmin, before
             \* a "round" and before a "test" of it; "oracle" while it runs
  decls_,    \* ddmin: the declarations still to be reduced
  n,         \* ddmin: the number of subsets to split them into
  subsets    \* ddmin: the refined subsets this round has still to test
passVars == <<pc, decls_, n, subsets>>
vars == <<textVars, passVars>>
-----------------------------------------------------------------------------
\* The nodes of the AST that was parsed from the source.
Visited == {i \in NodeId : Ast[i].first \in source}

\* The Visit functions that append their node to decls.
Collected(i) ==
  \/ Ast[i].kind = "function" /\ ~Ast[i].main
  \/ Ast[i].kind = "var" /\ Ast[i].global
  \/ Ast[i].kind \in {"record", "typedef", "enum"}

decls == Enumerate({i \in Visited : Collected(i)})

\* VisitDeclRefExpr: what refList holds for a declaration.
CountsReferences(d) == \/ Ast[d].kind = "function" /\ Ast[d].def
                       \/ Ast[d].kind = "var"
refList(d) ==
  {r \in Visited : Ast[r].kind = "ref" /\ Ast[r].to = d /\ CountsReferences(d)}

\* getEndLocationUntil(range, ';'), scanning the source from the end of the
\* range; without a ';' there the scan stops at the end of the file.
NextSemi(after) ==
  LET semis == {c \in Semis \cap source : c > after} IN
    IF semis = {} THEN NumCells ELSE CHOOSE c \in semis : \A s \in semis : c <= s

\* The last cell that test removes for a declaration.
RemovalEnd(d) == IF Ast[d].kind = "function" /\ Ast[d].def
                 THEN Ast[d].last ELSE NextSemi(Ast[d].last)

\* test blanks everything between the first declaration and the last.
Hull(subset) ==
  Ast[subset[1]].first .. RemovalEnd(subset[Len(subset)])

\* Fault: a subset passes as soon as one of its declarations is unreferenced.
refineSubsetsAny(all) ==
  Select(all, {s \in DOMAIN all :
                 \E i \in DOMAIN all[s] : refList(all[s][i]) = {}})
refineSubsets(all) ==
  Select(all, {s \in DOMAIN all :
                 \A i \in DOMAIN all[s] : refList(all[s][i]) = {}})
-----------------------------------------------------------------------------
PassInit ==
  /\ pc = "start"
  /\ decls_ = <<>> /\ n = 2 /\ subsets = <<>>

Init == TransformationInit /\ PassInit

\* Initialize, HandleTopLevelDecl and HandleTranslationUnit: decls is filled
\* and moved into ddmin.
Begin ==
  /\ pc = "start"
  /\ Initialize
  /\ decls_' = decls'
  /\ n' = 2
  /\ subsets' = <<>>
  /\ pc' = "round"

\* The head of ddmin's loop.
StartRound ==
  /\ pc = "round" /\ decls_ # <<>>
  /\ subsets' = refineSubsets(split(decls_, n))
  /\ pc' = "test"
  /\ UNCHANGED <<textVars, decls_, n>>

\* test: the candidate is written over the input file.
Test ==
  /\ pc = "test" /\ subsets # <<>>
  /\ writeToFile(Blank(EditBuffer, Hull(Head(subsets))))
  /\ CallOracle("global")
  /\ pc' = "oracle"
  /\ UNCHANGED <<source, decls_, n, subsets>>

\* The complement becomes the list, and a round starts on it.
Accept ==
  /\ pc = "oracle"
  /\ OracleAccepts("global")
  /\ decls_' = difference(decls_, Head(subsets))
  /\ n' = Larger(n - 1, 2)
  /\ subsets' = <<>>
  /\ pc' = "round"
  /\ UNCHANGED <<source, edits, file>>

\* Fault: the revert is not written over the input file.
RefuseNotWritten ==
  /\ pc = "oracle"
  /\ OracleRefuses("global")
  /\ edits' = <<Restore(EditBuffer, Hull(Head(subsets)))>>
  /\ subsets' = Tail(subsets)
  /\ pc' = "test"
  /\ UNCHANGED <<source, file, decls_, n>>

\* test reverts its edit, and the next subset is tried.
Refuse ==
  /\ pc = "oracle"
  /\ OracleRefuses("global")
  /\ edits' = <<Restore(EditBuffer, Hull(Head(subsets)))>>
  /\ file' = edits'[1]
  /\ subsets' = Tail(subsets)
  /\ pc' = "test"
  /\ UNCHANGED <<source, decls_, n>>

\* Fault: n is clamped below the number of declarations.
RefineClampsBelow ==
  /\ pc = "test" /\ subsets = <<>> /\ n # Len(decls_)
  /\ n' = Smaller(n * 2, Len(decls_) - 1)
  /\ pc' = "round"
  /\ UNCHANGED <<textVars, decls_, subsets>>

\* Fault: n stays, and the same subsets are tried again.
RefineKeepsN ==
  /\ pc = "test" /\ subsets = <<>> /\ n # Len(decls_)
  /\ pc' = "round"
  /\ UNCHANGED <<textVars, decls_, n, subsets>>

\* No subset could be removed: smaller ones are tried, if there are any.
Refine ==
  /\ pc = "test" /\ subsets = <<>> /\ n # Len(decls_)
  /\ n' = Smaller(n * 2, Len(decls_))
  /\ pc' = "round"
  /\ UNCHANGED <<textVars, decls_, subsets>>

\* Fault: the loop ends with the first round in which nothing was removed.
FinishEarly ==
  /\ \/ pc = "round" /\ decls_ = <<>>
     \/ pc = "test" /\ subsets = <<>>
  /\ pc' = "done"
  /\ UNCHANGED <<textVars, decls_, n, subsets>>

\* The two exits of the loop.
Finish ==
  /\ \/ pc = "round" /\ decls_ = <<>>
     \/ pc = "test" /\ subsets = <<>> /\ n = Len(decls_)
  /\ pc' = "done"
  /\ UNCHANGED <<textVars, decls_, n, subsets>>

Next == Begin \/ StartRound \/ Test \/ Accept \/ Refuse \/ Refine \/ Finish

Spec == Init /\ [][Next]_vars
\* One thread runs the pass, and system() returns once the oracle has ended.
FairSpec == Spec /\ WF_vars(Next)
-----------------------------------------------------------------------------
TypeOK ==
  /\ TextTypeOK
  /\ pc \in {"start", "round", "test", "oracle", "done"}
  /\ decls_ \in Seq(NodeId)
  /\ n \in Nat \ {0}
  /\ subsets \in Seq(Seq(NodeId))

\* Every subset that test is given has a front() and a back(), holds only
\* declarations that are still in the list and that nothing refers to, and
\* no two subsets of a round share one (GlobalReduction.cc:140, 191-206).
SubsetsSafe ==
  /\ \A s \in DOMAIN subsets :
       /\ subsets[s] # <<>>
       /\ \A d \in Elements(subsets[s]) :
            d \in Elements(decls_) /\ refList(d) = {}
  /\ \A s, t \in DOMAIN subsets :
       s # t => Elements(subsets[s]) \cap Elements(subsets[t]) = {}

AtRest == pc # "oracle"

\* However the declarations are laid out, the revert of a failed test never
\* takes away text that the last accepted version of the file had.
NothingAcceptedIsLost == AtRest => kept \subseteq file

\* Between two tests the file is the last text the oracle accepted: what a
\* failed test did is undone, and no more than that is undone.
RevertRestores == AtRest => file = kept

\* The text that test removes for a declaration alone.
Extent(d) == Ast[d].first .. RemovalEnd(d)

\* The declarations that the visitors collect lie one behind the other.
Flat == \A c, d \in NodeId :
          Collected(c) /\ Collected(d) /\ c < d => RemovalEnd(c) < Ast[d].first

\* If the declarations lie one behind the other, one that is still in ddmin's
\* list is still whole in the file, whatever has been blanked around it.
RemainingIntact ==
  AtRest => \A d \in Elements(decls_) : Extent(d) \subseteq file

\* A declaration that ddmin has dropped from its list is gone from the file.
RemovedStaysRemoved ==
  (AtRest /\ pc # "start") =>
    \A d \in Elements(decls) \ Elements(decls_) :
      Extent(d) \cap file = {}

\* When the pass ends no unreferenced declaration can be removed alone from
\* what is left: the oracle has refused the file without it.
OneMinimal ==
  pc = "done" =>
    \A d \in Elements(decls_) :
      refList(d) = {} => file \ Hull(<<d>>) \in failed

\* The oracle is not run on a text that it has judged before in this pass:
\* results are cached unless --no_cache is given (Options.cc:27).
NeverAskedTwice ==
  [][pc # "oracle" /\ pc' = "oracle" => file' \notin passed \cup failed]_vars

\* The number of oracle calls is at most quadratic in that of declarations.
CallsBounded ==
  LET size == Len(decls) IN
    pc # "start" => calls["global"] <= size * size + 3 * size

\* The pass ends: in every round declarations are dropped or n grows.
Terminates == <>(pc = "done")

\* The pass keeps the promise of Reducer.
R == INSTANCE Reducer WITH best <- kept, trial <- file,
                           judging <- (pc = "oracle")
RefinesReducer == R!Spec
=============================================================================
