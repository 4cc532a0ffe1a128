------------------------ MODULE TransformationManager ------------------------
(***************************************************************************)
(* Who owns the two pass objects (src/src/core/TransformationManager.cc).  *)
(*                                                                         *)
(* The static RegisterTransformation objects make one object of each pass  *)
(* before main runs.  Every turn of the main loop hands the object of that *)
(* turn to a new CompilerInstance, as its only owner; the CompilerInstance *)
(* of the turn before is overwritten and never deleted.  Only because of   *)
(* that leak is a pass still alive when its next turn comes.               *)
(*                                                                         *)
(* main sets no counter and no query flag and never calls verify, so these *)
(* parts of doTransformation return the same for every program.            *)
(***************************************************************************)
EXTENDS Naturals

VARIABLES
  TransformationsMapPtr,      \* the passes registered before main
  TransformationsMap,         \* the copy in Instance; {} without an Instance
  SrcFileName,                \* whether the name of the input file was given
  CurrentTransformationImpl,  \* the pass set last, or "none"
  ClangInstance,              \* the pass that ClangInstance owns: "none"
                              \* before the first turn and after Finalize
  deleted,                    \* how often each pass was deleted
  TheRewriter                 \* the pass whose rewriter RewriteUtils uses,
                              \* "none" without an instance of RewriteUtils
vars == <<TransformationsMapPtr, TransformationsMap, SrcFileName,
          CurrentTransformationImpl, ClangInstance, deleted, TheRewriter>>

Passes == {"global-reduction", "local-reduction"}

Init ==
  /\ TransformationsMapPtr = {}
  /\ TransformationsMap = {}
  /\ SrcFileName = FALSE
  /\ CurrentTransformationImpl = "none"
  /\ ClangInstance = "none"
  /\ deleted = [p \in Passes |-> 0]
  /\ TheRewriter = "none"

\* registerTransformation, from the constructor of a static object: the map is
\* made for the first of them, and no name is registered twice.
registerTransformation(name) ==
  /\ name \notin TransformationsMapPtr
  /\ TransformationsMapPtr' = TransformationsMapPtr \cup {name}
  /\ UNCHANGED <<TransformationsMap, SrcFileName, CurrentTransformationImpl,
                 ClangInstance, deleted, TheRewriter>>

\* GetInstance for the first time, and setSrcFileName, which takes one file
\* only.
GetInstance ==
  /\ TransformationsMap' = TransformationsMapPtr
  /\ ~SrcFileName /\ SrcFileName' = TRUE
  /\ UNCHANGED <<TransformationsMapPtr, CurrentTransformationImpl,
                 ClangInstance, deleted, TheRewriter>>

\* setTransformation of a name that is not in the map changes nothing; main
\* does not look at the result.
setTransformation(name) ==
  /\ CurrentTransformationImpl' =
       IF name \in TransformationsMap THEN name ELSE CurrentTransformationImpl
  /\ UNCHANGED <<TransformationsMapPtr, TransformationsMap, SrcFileName,
                 ClangInstance, deleted, TheRewriter>>

\* What ~Transformation does: RewriteUtils::Finalize.
Delete(times) ==
  /\ deleted' = [p \in Passes |-> deleted[p] + times[p]]
  /\ TheRewriter' = IF \E p \in Passes : times[p] > 0 THEN "none"
                                                      ELSE TheRewriter
Owned(p) == IF ClangInstance = p THEN 1 ELSE 0

\* Fault: the CompilerInstance of the last turn is deleted, not leaked.
initializeDeletesOld ==
  /\ CurrentTransformationImpl \in Passes
  /\ Delete([p \in Passes |-> Owned(p)])
  /\ ClangInstance' = CurrentTransformationImpl
  /\ UNCHANGED <<TransformationsMapPtr, TransformationsMap, SrcFileName,
                 CurrentTransformationImpl>>
\* initializeCompilerInstance: the new CompilerInstance owns the current pass.
initializeCompilerInstance ==
  /\ CurrentTransformationImpl \in Passes
  /\ ClangInstance' = CurrentTransformationImpl
  /\ UNCHANGED <<TransformationsMapPtr, TransformationsMap, SrcFileName,
                 CurrentTransformationImpl, deleted, TheRewriter>>

\* doTransformation up to ParseAST, which calls Initialize of its consumer:
\* RewriteUtils::GetInstance turns the one helper to the pass of this turn.
ParseAST ==
  /\ TheRewriter' = ClangInstance
  /\ UNCHANGED <<TransformationsMapPtr, TransformationsMap, SrcFileName,
                 CurrentTransformationImpl, ClangInstance, deleted>>

\* Finalize: all passes but the current one are deleted, and then the last
\* CompilerInstance, which deletes the pass it owns.
Finalize ==
  /\ Delete([p \in Passes |->
               Owned(p) + IF /\ p \in TransformationsMap
                             /\ p # CurrentTransformationImpl THEN 1 ELSE 0])
  /\ TransformationsMap' = {}
  /\ ClangInstance' = "none"
  /\ UNCHANGED <<TransformationsMapPtr, SrcFileName,
                 CurrentTransformationImpl>>
-----------------------------------------------------------------------------
TypeOK ==
  /\ TransformationsMapPtr \subseteq Passes
  /\ TransformationsMap \subseteq Passes
  /\ SrcFileName \in BOOLEAN
  /\ CurrentTransformationImpl \in Passes \cup {"none"}
  /\ ClangInstance \in Passes \cup {"none"}
  /\ deleted \in [Passes -> 0 .. 2]
  /\ TheRewriter \in Passes \cup {"none"}

\* A pass that works has not been deleted, and RewriteUtils and the
\* CompilerInstance are its own (TransformationManager.cc:64, 87-89).
Usable(p) == deleted[p] = 0 /\ TheRewriter = p /\ ClangInstance = p

\* Finalize deletes each registered pass, and none of them twice, although one
\* of them belongs to the CompilerInstance (TransformationManager.cc:104-112).
DeletedOnce == \A p \in TransformationsMapPtr : deleted[p] = 1
=============================================================================
