--------------------------- MODULE Transformation ---------------------------
(***************************************************************************)
(* What the two passes share (src/src/core/Transformation.cc): the text of *)
(* the input file, the rewriter that edits it, and the oracle.             *)
(*                                                                         *)
(* The input file is a row of NumCells cells, one for every piece of text  *)
(* that the passes treat as a unit.  Blanking never moves text: the        *)
(* placeholder of a piece of text has its length and its line breaks.  So  *)
(* a text is the set of the cells that are still visible, and a source     *)
(* range is an interval of cells.                                          *)
(***************************************************************************)
EXTENDS VectorUtils

CONSTANTS
  NumCells,       \* the length of the input file
  Interesting,    \* the texts that the oracle may accept
  Deterministic,  \* whether the oracle answers twice the same on one text
  SaveTemp,       \* Option::saveTemp
  MaxCalls        \* the counters stop here

Cells == 1 .. NumCells
Text  == SUBSET Cells

ASSUME TransformationAssumption ==
  /\ NumCells \in Nat \ {0}
  /\ Interesting \subseteq Text
  /\ Deterministic \in BOOLEAN
  /\ SaveTemp \in BOOLEAN
  /\ MaxCalls \in Nat

VARIABLES
  source,       \* the text the source manager read when it parsed the file
  edits,        \* TheRewriter.RewriteBuffers: <<>> until the first edit of
                \* the main file, then the buffer that was made for it
  file,         \* what is in Option::inputFile
  calls,        \* Report::globalCallsCounter, Report::localCallsCounter
  successes,    \* Report::successful...CallsCounter
  saved,        \* the files that --save_temp leaves in Option::outputDir
  passed,       \* history: the texts that the oracle has accepted,
  failed,       \*          those it has refused,
  kept          \*          and the text it accepted last
shared == <<file, calls, successes, saved, passed, failed, kept>>
textVars == <<source, edits, shared>>
-----------------------------------------------------------------------------
\* The rewriter's buffer of the main file: made from the source manager's
\* text when it is first asked for, and never made again.
EditBuffer == IF edits = <<>> THEN source ELSE edits[1]

\* The source manager keeps the text it parsed, whatever is written to the
\* file afterwards.
getSourceText(range) == source \cap range

placeholder(text) == {}

\* TheRewriter.ReplaceText of a buffer, for text as long as the range.
ReplaceText(buffer, range, text) == (buffer \ range) \cup text

Blank(buffer, range) ==
  ReplaceText(buffer, range, placeholder(getSourceText(range)))
\* Faults: the text to restore is read from the buffer that was just blanked;
\* everything is restored, and not only the range.
RestoreFromBuffer(buffer, range) == ReplaceText(buffer, range, buffer \cap range)
RestoreWholeFile(buffer, range)  == ReplaceText(buffer, Cells, source)
Restore(buffer, range) ==
  ReplaceText(buffer, range, getSourceText(range))

\* Writing the edited buffer over the input file.
writeToFile(buffer) == edits' = <<buffer>> /\ file' = buffer

Counters == {"global", "local"}
CounterOf(msg) == IF msg = "global" THEN "global" ELSE "local"
Increment(counters, msg) ==
  [counters EXCEPT ![CounterOf(msg)] = Smaller(@ + 1, MaxCalls)]
TotalCalls == calls["global"] + calls["local"]
\* Fault: the copies are numbered by the calls that succeeded.
TempNameBySuccesses(msg, verdict) ==
  <<successes["global"] + successes["local"], msg, verdict>>
TempName(msg, verdict) == <<TotalCalls, msg, verdict>>
\* A file of that name is written over, if there is one.
SaveCopy(name, text) ==
  [other \in DOMAIN saved \cup {name} |->
     IF other = name THEN text ELSE saved[other]]
\* Fault: the text that was parsed is saved, without the edits.
SaveTempFileUnedited(msg, verdict) ==
  saved' = IF SaveTemp THEN SaveCopy(TempName(msg, verdict), source)
                       ELSE saved
SaveTempFile(msg, verdict) ==
  saved' = IF SaveTemp THEN SaveCopy(TempName(msg, verdict), EditBuffer)
                       ELSE saved

\* callOracle up to the call of system(): the oracle now runs on the file.
CallOracle(msg) ==
  /\ calls' = Increment(calls, msg)
  /\ UNCHANGED <<successes, saved, passed, failed, kept>>

\* The oracle exits with status 0.
OracleAccepts(msg) ==
  /\ file \in Interesting
  /\ Deterministic => file \notin failed
  /\ successes' = Increment(successes, msg)
  /\ SaveTempFile(msg, "success")
  /\ passed' = passed \cup {file}
  /\ kept' = file
  /\ UNCHANGED <<calls, failed>>

\* The oracle exits with any other status.
OracleRefuses(msg) ==
  /\ Deterministic => file \notin passed
  /\ SaveTempFile(msg, "fail")
  /\ failed' = failed \cup {file}
  /\ UNCHANGED <<calls, successes, passed, kept>>

\* Chisel starts on a file that the oracle accepts: it is not tested.
TransformationInit ==
  /\ source = Cells
  /\ edits = <<>>
  /\ file = Cells
  /\ calls = [c \in Counters |-> 0]
  /\ successes = [c \in Counters |-> 0]
  /\ saved = <<>>
  /\ passed = {Cells}
  /\ failed = {}
  /\ kept = Cells

\* initializeCompilerInstance and Transformation::Initialize: the file is
\* read and parsed again; the rewriter is given the new source manager, and
\* keeps the buffer it has.  Fault: the file is parsed only once.
InitializeParsedOnce ==
  /\ source' = IF edits = <<>> THEN file ELSE source
  /\ UNCHANGED <<edits, shared>>
Initialize ==
  /\ source' = file
  /\ UNCHANGED <<edits, shared>>

TextTypeOK ==
  /\ source \in Text
  /\ edits = <<>> \/ edits = <<EditBuffer>>
  /\ EditBuffer \in Text
  /\ file \in Text
  /\ calls \in [Counters -> 0 .. MaxCalls]
  /\ successes \in [Counters -> 0 .. MaxCalls]
  /\ passed \subseteq Text
  /\ failed \subseteq Text
  /\ kept \in Text

\* --save_temp leaves one copy for every call of the oracle, labelled with
\* its verdict on that very text, and of the copies labelled "success" the
\* one with the highest number is the last version the oracle accepted:
\* what a user would go back to (Transformation.cc:1023-1040).
SavedCopiesFaithful ==
  LET accepted == {name \in DOMAIN saved : name[3] = "success"} IN
    /\ Cardinality(DOMAIN saved) = Cardinality({name[1] : name \in DOMAIN saved})
    /\ \A name \in DOMAIN saved :
         saved[name] \in IF name \in accepted THEN passed ELSE failed
    /\ \A name \in accepted :
         (\A other \in accepted : other[1] <= name[1]) => saved[name] = kept

\* A copy that has been saved is never written again.
CopiesNeverOverwritten ==
  [][\A name \in DOMAIN saved :
       name \in DOMAIN saved' /\ saved'[name] = saved[name]]_saved
=============================================================================
