------------------------------- MODULE Reducer -------------------------------
(***************************************************************************)
(* What a pass of Chisel promises, whatever list it reduces and however it *)
(* chooses what to try: it edits the file in place, the oracle judges each *)
(* candidate while it is the content of the file, and when a candidate is  *)
(* refused the pass puts back at least what it had taken out.              *)
(*                                                                         *)
(* The promise is one-sided on purpose: a revert never loses text of the   *)
(* last accepted version, but it may bring back text that an earlier       *)
(* accepted candidate had removed (see RevertRestores in GlobalReduction). *)
(***************************************************************************)
EXTENDS Naturals

CONSTANT Cells      \* the cells of the input file

VARIABLES
  best,             \* the text that the oracle accepted last
  trial,            \* the text that is in the file
  judging           \* the oracle is running

Init ==
  /\ best = Cells
  /\ trial = Cells
  /\ judging = FALSE

\* Some text is blanked out of the file and the oracle is started.
Try(range) ==
  /\ ~judging
  /\ trial' = trial \ range
  /\ judging' = TRUE
  /\ UNCHANGED best

Accept ==
  /\ judging
  /\ best' = trial
  /\ judging' = FALSE
  /\ UNCHANGED trial

Revert(range) ==
  /\ judging
  /\ trial' = trial \cup range
  /\ best \subseteq trial'
  /\ judging' = FALSE
  /\ UNCHANGED best

Next == \E range \in SUBSET Cells : Try(range) \/ Accept \/ Revert(range)

Spec == Init /\ [][Next]_<<best, trial, judging>>
=============================================================================
