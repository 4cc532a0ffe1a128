----------------------------- MODULE ChiselGlobal -----------------------------
(***************************************************************************)
(* The main loop with --skip_local: the global pass alone is run, on what  *)
(* it has left itself, until it leaves the number of words as it was.      *)
(* main is that of Chisel, and the pass that of GlobalReduction, under its *)
(* own names.  What is promised here is not true when the local pass takes *)
(* turns as well, because each pass edits the text of its own first parse. *)
(***************************************************************************)
EXTENDS GlobalReduction

CONSTANTS
  Stmts,        \* the program, as the local pass would see it
  SkipGlobal    \* Option::skipGlobal

VARIABLES
  localEdits, localPc, functionBodies, body, q, cur, trial, stmts_, localN,
  localSubsets,            \* the local pass, which never runs
  TransformationsMapPtr, TransformationsMap, SrcFileName,
  CurrentTransformationImpl, ClangInstance, deleted, TheRewriter,
  mainPc,                  \* pc of Chisel: the position in main
  turns, wc0

C == INSTANCE Chisel
       WITH SkipLocal <- TRUE, globalEdits <- edits, globalPc <- pc,
            globalN <- n, globalSubsets <- subsets, pc <- mainPc

LoopSpec == C!Spec
-----------------------------------------------------------------------------
\* Chisel leaves the last text that the oracle accepted in the input file,
\* although each turn reverts to the text that it has parsed itself
\* (chisel.cc:43-60, GlobalReduction.cc:154).
EndsAccepted == mainPc = "exit" => file = kept

\* An iteration never leaves more words than it found.
IterationsShrink ==
  mainPc = "turn" /\ turns = <<>> => C!getWordCount(file) <= wc0

\* When the loop ends, no declaration of the file to which nothing in the file
\* refers can be removed alone.  One pass does not achieve that: it counts the
\* references before it removes some of them (chisel.cc:43-60).
NothingUnreferencedIsLeft ==
  mainPc = "exit" =>
    \A d \in NodeId :
      LET refs == {r \in refList(d) : Ast[r].first \in file} IN
        /\ Collected(d) /\ Ast[d].first \in file
        /\ refs = {}
        => file \ Hull(<<d>>) \in failed
=============================================================================
