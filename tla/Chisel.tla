------------------------------- MODULE Chisel -------------------------------
(***************************************************************************)
(* The main loop (src/src/chisel.cc): the global pass and the local pass   *)
(* take turns on one input file until a whole iteration leaves the number  *)
(* of its words as it was.                                                 *)
(*                                                                         *)
(* There is one object of each pass for the whole run.  Every turn parses  *)
(* the file again, but the rewriter of a pass keeps the buffer that its    *)
(* first edit made, and the local pass keeps the function bodies of the    *)
(* earlier turns.  The file, the counters and the oracle are shared, and   *)
(* TransformationManager owns the pass objects.                            *)
(***************************************************************************)
EXTENDS Integers, Sequences, FiniteSets

CONSTANTS
  NumCells, Interesting, Deterministic, SaveTemp, MaxCalls, \* Transformation
  Ast, Semis,              \* the program, as the global pass sees it
  Stmts,                   \* and as the local pass sees it
  SkipGlobal, SkipLocal    \* Option::skipGlobal, Option::skipLocal

ASSUME ChiselAssumption ==
  /\ MaxCalls \in Nat
  /\ SaveTemp \in BOOLEAN /\ SkipGlobal \in BOOLEAN /\ SkipLocal \in BOOLEAN

VARIABLES
  source, file, calls, successes, saved, passed, failed, kept,
  globalEdits, globalPc, decls_, globalN, globalSubsets,
  localEdits, localPc, functionBodies, body, q, cur, trial, stmts_, localN,
  localSubsets,
  TransformationsMapPtr, TransformationsMap, SrcFileName,
  CurrentTransformationImpl, ClangInstance, deleted, TheRewriter,
  pc,                      \* the position in main; "static" before it,
                           \* "killed" when the process died in between
  turns,                   \* the passes that have still to take their turn
  wc0                      \* the number of words before the iteration
shared == <<source, file, calls, successes, saved, passed, failed, kept>>
globalVars == <<globalEdits, globalPc, decls_, globalN, globalSubsets>>
localVars == <<localEdits, localPc, functionBodies, body, q, cur, trial,
               stmts_, localN, localSubsets>>
managerVars == <<TransformationsMapPtr, TransformationsMap, SrcFileName,
                 CurrentTransformationImpl, ClangInstance, deleted,
                 TheRewriter>>
mainVars == <<pc, turns, wc0>>
vars == <<shared, globalVars, localVars, managerVars, mainVars>>

Global == INSTANCE GlobalReduction
            WITH edits <- globalEdits, pc <- globalPc, n <- globalN,
                 subsets <- globalSubsets
Local == INSTANCE LocalReduction
           WITH edits <- localEdits, pc <- localPc, n <- localN,
                subsets <- localSubsets
Manager == INSTANCE TransformationManager
-----------------------------------------------------------------------------
\* Stats::getWordCount: the words that are left are the cells that are.
getWordCount(text) == Cardinality(text)

\* The turns of an iteration, in their order.
Turns == (IF SkipGlobal THEN <<>> ELSE <<"global-reduction">>)
         \o (IF SkipLocal THEN <<>> ELSE <<"local-reduction">>)

Init ==
  /\ Global!Init
  /\ localEdits = <<>> /\ Local!PassInit
  /\ Manager!Init
  /\ pc = "static" /\ turns = <<>> /\ wc0 = 0

\* Before main, in the order in which the linker put the two objects.
Register(name) ==
  /\ pc = "static"
  /\ Manager!registerTransformation(name)
  /\ UNCHANGED <<shared, globalVars, localVars, mainVars>>

\* main up to its loop.  Here and below the options are those of a run that
\* reduces: --stat prints a number and exits before any of this.
Main ==
  /\ pc = "static" /\ TransformationsMapPtr = Manager!Passes
  /\ Manager!GetInstance
  /\ pc' = "loop"
  /\ UNCHANGED <<shared, globalVars, localVars, turns, wc0>>

BeginIteration ==
  /\ pc = "loop"
  /\ wc0' = getWordCount(file)
  /\ turns' = Turns
  /\ pc' = "turn"
  /\ UNCHANGED <<shared, globalVars, localVars, managerVars>>

SetTransformation ==
  /\ pc = "turn" /\ turns # <<>>
  /\ Manager!setTransformation(Head(turns))
  /\ pc' = "initialize"
  /\ UNCHANGED <<shared, globalVars, localVars, turns, wc0>>

\* The file is read and parsed by the first step of the pass.
InitializeCompilerInstance ==
  /\ pc = "initialize"
  /\ Manager!initializeCompilerInstance
  /\ pc' = "transform"
  /\ UNCHANGED <<shared, globalVars, localVars, turns, wc0>>

\* doTransformation.
DoTransformation(passPc) ==
  /\ pc = "transform"
  /\ IF passPc = "start" THEN Manager!ParseAST ELSE UNCHANGED managerVars
  /\ UNCHANGED mainVars
GlobalPass ==
  /\ ClangInstance = "global-reduction"
  /\ DoTransformation(globalPc)
  /\ Global!Next
  /\ UNCHANGED localVars
LocalPass ==
  /\ ClangInstance = "local-reduction"
  /\ DoTransformation(localPc)
  /\ Local!Next
  /\ UNCHANGED globalVars

\* doTransformation returns.  The pass object is left as it is: its buffer and
\* lists stay for the next parse.
PassDone ==
  /\ pc = "transform"
  /\ IF ClangInstance = "global-reduction"
     THEN /\ globalPc = "done" /\ globalPc' = "start"
          /\ UNCHANGED localPc
     ELSE /\ localPc = "done" /\ localPc' = "start"
          /\ UNCHANGED globalPc
  /\ turns' = Tail(turns)
  /\ pc' = "turn"
  /\ UNCHANGED <<shared, managerVars, globalEdits, decls_, globalN,
                 globalSubsets, localEdits, functionBodies, body, q, cur,
                 trial, stmts_, localN, localSubsets, wc0>>

\* Fault: the loop runs only once.
EndIterationOnce ==
  /\ pc = "turn" /\ turns = <<>>
  /\ pc' = "finalize"
  /\ UNCHANGED <<shared, globalVars, localVars, managerVars, turns, wc0>>

EndIteration ==
  /\ pc = "turn" /\ turns = <<>>
  /\ pc' = IF getWordCount(file) = wc0 THEN "finalize" ELSE "loop"
  /\ UNCHANGED <<shared, globalVars, localVars, managerVars, turns, wc0>>

Finalize ==
  /\ pc = "finalize"
  /\ Manager!Finalize
  /\ pc' = "exit"
  /\ UNCHANGED <<shared, globalVars, localVars, turns, wc0>>

Step == \/ \E name \in Manager!Passes : Register(name)
        \/ Main \/ BeginIteration \/ SetTransformation
        \/ InitializeCompilerInstance \/ GlobalPass \/ LocalPass \/ PassDone
        \/ EndIteration \/ Finalize
-----------------------------------------------------------------------------
(***************************************************************************)
(* Faults.  Chisel writes over its input file and has nothing to restart   *)
(* from but what is on the disk.                                           *)
(***************************************************************************)
Running == pc \notin {"static", "exit", "killed"}
Judging == globalPc = "oracle" \/ localPc = "oracle"

Die == /\ pc' = "killed"
       /\ UNCHANGED <<globalVars, localVars, managerVars, turns, wc0>>

\* The process dies between two steps.
Kill == Running /\ Die /\ UNCHANGED shared

\* The file has been truncated and not written again: by the write of a
\* candidate, or by the write that puts it back.  A write that fails is the
\* same, for the stream then ends the process (its error is never cleared).
\* The counters may already count the question that was not asked; nothing
\* reads them after that.
TornWrite ==
  /\ Running /\ Judging
  /\ Die
  /\ file' = {}
  /\ UNCHANGED <<source, calls, successes, saved, passed, failed, kept>>

\* The oracle has accepted, and the process dies before its answer is
\* recorded or while the copy is written, which may fail as well, when
\* outputDir has no directory for it.
KilledSaving ==
  /\ Running /\ Judging /\ file \in Interesting
  /\ Deterministic => file \notin failed
  /\ Die
  /\ kept' = file
  /\ UNCHANGED <<source, file, calls, successes, saved, passed, failed>>

Fault == Kill \/ TornWrite \/ KilledSaving

Next == Step \/ Fault

Spec == Init /\ [][Next]_vars
\* One thread runs all of it, and system() returns once the oracle has ended.
\* Nothing has to go wrong.
FairSpec == Spec /\ WF_vars(Step)
-----------------------------------------------------------------------------
TypeOK ==
  /\ Global!TypeOK
  /\ Local!TypeOK
  /\ Manager!TypeOK
  /\ pc \in {"static", "loop", "turn", "initialize", "transform", "finalize",
             "exit", "killed"}
  /\ turns \in Seq(Manager!Passes)
  /\ wc0 \in 0 .. NumCells

\* The main loop ends, although an iteration may well leave a larger file than
\* the one before it and the same questions are asked in every iteration.
Terminates == <>(pc \in {"exit", "killed"})

\* Whatever the passes do to the file in later iterations, every copy that
\* --save_temp leaves has the verdict on that very text in its name, no number
\* is used twice in the whole run, and the last copy named "success" is the
\* last text that the oracle accepted (Transformation.cc:1023-1040).
SavedCopiesFaithful == pc # "killed" => Global!SavedCopiesFaithful

\* With --save_temp a run that dies at any point loses nothing that the oracle
\* has accepted: that text is in a copy named "success" or still in the input
\* file.  Before the first success only the original would do, and Chisel
\* keeps no copy of it (Transformation.cc:1002-1041, GlobalReduction.cc:158).
KillRecoverable ==
  pc = "killed" /\ kept # Global!Cells =>
    \/ file = kept
    \/ \E name \in DOMAIN saved : name[3] = "success" /\ saved[name] = kept

\* The pass that works is alive, and the helper edits the buffer of that pass
\* and of no other; when the program has ended, each pass has been deleted
\* once (TransformationManager.cc:48-116, RewriteUtils.cc:26-48).
PassesOwned ==
  /\ pc = "transform" =>
       LET passPc == IF ClangInstance = "global-reduction" THEN globalPc
                                                           ELSE localPc
       IN passPc # "start" => Manager!Usable(CurrentTransformationImpl)
  /\ pc = "exit" => Manager!DeletedOnce

\* A while that cannot lose its head is reverted: the file is again the last
\* text that the oracle accepted (LocalReduction.cc:271, "// revert").
WhileReverted ==
  [][localPc = "oracle" /\ trial = "while" /\ localPc' # localPc
       => file' = kept']_vars
=============================================================================
