----------------------------- MODULE Chisel_proof -----------------------------
(***************************************************************************)
(* The whole program: what --save_temp saves survives the process, and the *)
(* pass objects are owned by the right one and deleted once.               *)
(*                                                                         *)
(* The passes work on one file, one record of the oracle's answers and one *)
(* helper, so every proof here is by the steps that touch those.           *)
(***************************************************************************)
EXTENDS Chisel, SavedCopies_proof, SequenceTheorems

(***************************************************************************)
(* The inductive invariant.  Only the pass that the CompilerInstance owns  *)
(* is under way, so only its buffer can be what the oracle judges.         *)
(***************************************************************************)
Positions == {"static", "loop", "turn", "initialize", "transform", "finalize",
              "exit", "killed"}

OneAtATime ==
  /\ pc \in Positions
  /\ globalPc # "start" =>
       pc \in {"transform", "killed"} /\ ClangInstance = "global-reduction"
  /\ localPc # "start" =>
       pc \in {"transform", "killed"} /\ ClangInstance = "local-reduction"

\* What the oracle judges is the buffer of the pass that asks.
BufferJudged ==
  pc # "killed" =>
    /\ globalPc = "oracle" => globalEdits = <<file>>
    /\ localPc = "oracle" => localEdits = <<file>>

\* main creates the manager, gives each turn to a pass that is registered,
\* and hands the pass to a CompilerInstance before it runs.
Impl == CurrentTransformationImpl
ManagerSound ==
  /\ Manager!TypeOK
  /\ turns \in Seq(Manager!Passes)
  /\ pc \in {"initialize", "transform"} => turns # <<>>
  /\ pc \notin {"exit", "killed"} => deleted = [p \in Manager!Passes |-> 0]
  /\ pc = "static" => Impl = "none" /\ ClangInstance = "none"
  /\ pc \notin {"static", "killed"} =>
       TransformationsMapPtr = Manager!Passes
  /\ pc \notin {"static", "exit", "killed"} =>
       TransformationsMap = Manager!Passes
  /\ pc \in {"loop", "turn", "finalize"} => ClangInstance = Impl
  /\ pc = "initialize" => Impl \in Manager!Passes
  /\ pc = "transform" => Impl \in Manager!Passes /\ ClangInstance = Impl
  /\ pc = "transform" /\ (globalPc # "start" \/ localPc # "start") =>
       TheRewriter = ClangInstance
  /\ pc = "exit" => deleted = [p \in Manager!Passes |-> 1]

Success(copies, text) ==
  \E name \in DOMAIN copies : name[3] = "success" /\ copies[name] = text

\* What the oracle accepted last is in a copy, if it is not the original.
Secured ==
  /\ SaveTemp /\ pc # "killed" =>
       kept = Global!Cells \/ Success(saved, kept)
  /\ SaveTemp => KillRecoverable

\* The copies, as long as the counters have not reached their bound.
Below == calls["global"] < MaxCalls /\ calls["local"] < MaxCalls
Limit == IF Judging THEN Global!TotalCalls ELSE Global!TotalCalls + 1
Recorded ==
  /\ calls \in [Global!Counters -> 0 .. MaxCalls]
  /\ ~SaveTemp => saved = <<>>
  /\ pc # "killed" /\ Below => Copies(saved, Limit, passed, failed, kept)

IInv == OneAtATime /\ BufferJudged /\ ManagerSound /\ Secured /\ Recorded
-----------------------------------------------------------------------------
(***************************************************************************)
(* What a step of a pass does to the shared state: it asks the oracle, it  *)
(* hears its answer, or it does neither.                                   *)
(***************************************************************************)
Asks(msg) ==
  /\ calls' = [calls EXCEPT ![Global!CounterOf(msg)] =
                 Global!Smaller(@ + 1, MaxCalls)]
  /\ UNCHANGED <<saved, passed, failed, kept>>

Saves(name, text) == saved' = IF SaveTemp THEN With(saved, name, text) ELSE saved

Succeeds(msg, buffer) ==
  /\ Saves(<<Global!TotalCalls, msg, "success">>, buffer)
  /\ passed' = passed \cup {file} /\ kept' = file
  /\ UNCHANGED <<calls, failed>>

Fails(msg, buffer) ==
  /\ Saves(<<Global!TotalCalls, msg, "fail">>, buffer)
  /\ failed' = failed \cup {file}
  /\ UNCHANGED <<calls, passed, kept>>

Quiet == UNCHANGED <<calls, saved, passed, failed, kept>>

\* The steps of the global pass.
LEMMA GlobalSteps ==
  ASSUME Global!Next
  PROVE  /\ globalPc' # "start"
         /\ \/ /\ globalPc # "oracle" /\ globalPc' = "oracle"
               /\ globalEdits' = <<file'>>
               /\ \E msg : Asks(msg)
            \/ /\ globalPc = "oracle" /\ globalPc' # "oracle"
               /\ \E msg : \/ Succeeds(msg, Global!EditBuffer)
                           \/ Fails(msg, Global!EditBuffer)
            \/ /\ globalPc # "oracle" /\ globalPc' # "oracle"
               /\ Quiet
<1>1. CASE Global!Begin \/ Global!StartRound \/ Global!Refine \/ Global!Finish
  BY <1>1 DEF Global!Begin, Global!Initialize, Global!StartRound,
     Global!Refine, Global!Finish, Global!textVars, Global!shared, Quiet
<1>2. CASE Global!Test
  BY <1>2 DEF Global!Test, Global!writeToFile, Global!CallOracle,
     Global!Increment, Asks
<1>3. CASE Global!Accept
  BY <1>3 DEF Global!Accept, Global!OracleAccepts, Global!SaveTempFile,
     Global!SaveCopy, Global!TempName, Succeeds, Saves, With
<1>4. CASE Global!Refuse
  BY <1>4 DEF Global!Refuse, Global!OracleRefuses, Global!SaveTempFile,
     Global!SaveCopy, Global!TempName, Fails, Saves, With
<1> QED BY <1>1, <1>2, <1>3, <1>4 DEF Global!Next

\* The steps of the local pass.
LEMMA LocalSteps ==
  ASSUME Local!Next
  PROVE  /\ localPc' # "start"
         /\ \/ /\ localPc # "oracle" /\ localPc' = "oracle"
               /\ localEdits' = <<file'>>
               /\ \E msg : Asks(msg)
            \/ /\ localPc = "oracle" /\ localPc' # "oracle"
               /\ \E msg : \/ Succeeds(msg, Local!EditBuffer)
                           \/ Fails(msg, Local!EditBuffer)
            \/ /\ localPc # "oracle" /\ localPc' # "oracle"
               /\ Quiet
<1>1. CASE Local!Begin \/ Local!NextBody \/ Local!Finish \/ Local!BodyDone
           \/ Local!Pop
  BY <1>1 DEF Local!Begin, Local!Initialize, Local!NextBody, Local!Finish,
     Local!BodyDone, Local!Pop, Local!textVars, Local!shared, Quiet
<1>2. CASE Local!HddIgnores \/ Local!reduceLabel \/ Local!reduceCompound
           \/ Local!StartRound \/ Local!TestFails \/ Local!Refine
           \/ Local!DdminDone
  BY <1>2 DEF Local!HddIgnores, Local!reduceLabel, Local!reduceCompound,
     Local!StartRound, Local!TestFails, Local!Refine, Local!DdminDone,
     Local!textVars, Local!shared, Quiet
<1>3. ASSUME NEW what, localPc # "oracle", Local!Ask(what)
      PROVE  /\ localPc' = "oracle" /\ localEdits' = <<file'>>
             /\ \E msg : Asks(msg)
  BY <1>3 DEF Local!Ask, Local!writeToFile, Local!CallOracle,
     Local!Increment, Local!CounterOf, Local!Smaller, Global!CounterOf,
     Global!Smaller, Asks
<1>4. CASE Local!reduceWhile \/ Local!reduceIf \/ Local!reduceIfThen
           \/ Local!Test
  BY <1>3, <1>4 DEF Local!reduceWhile, Local!reduceIf, Local!reduceIfThen,
     Local!Test
<1>5. CASE Local!Accept \/ Local!AcceptChunk
  BY <1>5 DEF Local!Accept, Local!AcceptChunk, Local!OracleAccepts,
     Local!SaveTempFile, Local!SaveCopy, Local!TempName, Local!TotalCalls,
     Global!TotalCalls, Succeeds, Saves, With
<1>6. CASE Local!Refuse \/ Local!RefuseChunk
  BY <1>6 DEF Local!Refuse, Local!RefuseChunk, Local!OracleRefuses,
     Local!SaveTempFile, Local!SaveCopy, Local!TempName, Local!TotalCalls,
     Global!TotalCalls, Fails, Saves, With
<1> QED
  BY <1>1, <1>2, <1>4, <1>5, <1>6
  DEF Local!Next, Local!hdd, Local!ddmin, Local!verdict
-----------------------------------------------------------------------------
MainStep ==
  \/ \E name \in Manager!Passes : Register(name)
  \/ Main \/ BeginIteration \/ SetTransformation
  \/ InitializeCompilerInstance \/ EndIteration \/ Finalize

\* A step of main itself leaves the shared state and the passes alone, and
\* none of them is under way.
LEMMA MainSteps ==
  ASSUME OneAtATime, MainStep
  PROVE  /\ UNCHANGED shared /\ UNCHANGED globalVars /\ UNCHANGED localVars
         /\ globalPc = "start" /\ localPc = "start"
         /\ pc \in Positions \ {"transform", "killed"}
         /\ pc' \in Positions \ {"killed"}
<1>1. CASE \E name \in Manager!Passes : Register(name)
  BY <1>1 DEF Register, mainVars, OneAtATime, Positions
<1>2. CASE Main
  BY <1>2 DEF Main, OneAtATime, Positions
<1>3. CASE BeginIteration
  BY <1>3 DEF BeginIteration, OneAtATime, Positions
<1>4. CASE SetTransformation
  BY <1>4 DEF SetTransformation, OneAtATime, Positions
<1>5. CASE InitializeCompilerInstance
  BY <1>5 DEF InitializeCompilerInstance, OneAtATime, Positions
<1>6. CASE EndIteration
  BY <1>6 DEF EndIteration, OneAtATime, Positions
<1>7. CASE Finalize
  BY <1>7 DEF Finalize, OneAtATime, Positions
<1> QED BY <1>1, <1>2, <1>3, <1>4, <1>5, <1>6, <1>7 DEF MainStep

\* A pass that returns leaves the shared state alone, and none is under way.
LEMMA DoneSteps ==
  ASSUME OneAtATime, PassDone
  PROVE  /\ UNCHANGED shared /\ UNCHANGED managerVars
         /\ globalPc \in {"start", "done"} /\ localPc \in {"start", "done"}
         /\ globalPc' = "start" /\ localPc' = "start"
         /\ pc = "transform" /\ pc' = "turn"
<1>1. CASE ClangInstance = "global-reduction"
  BY <1>1 DEF PassDone, OneAtATime, managerVars, shared
<1>2. CASE ClangInstance # "global-reduction"
  BY <1>2 DEF PassDone, OneAtATime, managerVars, shared
<1> QED BY <1>1, <1>2

\* A fault stops everything but the file and the last verdict.
LEMMA FaultSteps ==
  ASSUME Fault
  PROVE  /\ pc' = "killed" /\ pc \notin {"static", "exit", "killed"}
         /\ UNCHANGED globalVars /\ UNCHANGED localVars
         /\ UNCHANGED managerVars /\ turns' = turns
         /\ UNCHANGED <<calls, saved, passed, failed>>
         /\ \/ UNCHANGED <<file, kept>>
            \/ kept' = kept /\ file' = {}
            \/ kept' = file /\ file' = file
BY DEF Fault, Kill, TornWrite, KilledSaving, Die, Running, shared

\* What can happen in one step.
LEMMA StepCases ==
  ASSUME [Next]_vars
  PROVE  MainStep \/ GlobalPass \/ LocalPass \/ PassDone \/ Fault
         \/ UNCHANGED vars
BY DEF Next, Step, MainStep
-----------------------------------------------------------------------------
\* A pass starts when the other has returned.
LEMMA OneAtATimeStep == OneAtATime /\ [Next]_vars => OneAtATime'
<1> SUFFICES ASSUME OneAtATime, [Next]_vars PROVE OneAtATime'
  OBVIOUS
<1>1. CASE MainStep
  BY <1>1, MainSteps DEF OneAtATime, globalVars, localVars
<1>2. CASE GlobalPass
  BY <1>2 DEF GlobalPass, DoTransformation, OneAtATime, mainVars, localVars,
     managerVars, Manager!ParseAST
<1>3. CASE LocalPass
  BY <1>3 DEF LocalPass, DoTransformation, OneAtATime, mainVars, globalVars,
     managerVars, Manager!ParseAST
<1>4. CASE PassDone
  BY <1>4, DoneSteps DEF OneAtATime, Positions
<1>5. CASE Fault
  BY <1>5, FaultSteps
  DEF OneAtATime, Positions, globalVars, localVars, managerVars
<1>6. CASE UNCHANGED vars
  BY <1>6 DEF vars, globalVars, localVars, managerVars, mainVars, OneAtATime
<1> QED BY <1>1, <1>2, <1>3, <1>4, <1>5, <1>6, StepCases

\* In a step of one pass the other is not under way.
LEMMA PassAlone ==
  ASSUME OneAtATime
  PROVE  /\ GlobalPass => /\ Global!Next /\ localPc = "start"
                          /\ UNCHANGED localVars /\ UNCHANGED mainVars
                          /\ pc = "transform"
         /\ LocalPass  => /\ Local!Next /\ globalPc = "start"
                          /\ UNCHANGED globalVars /\ UNCHANGED mainVars
                          /\ pc = "transform"
<1>1. "global-reduction" # "local-reduction"
  OBVIOUS
<1> QED BY <1>1 DEF OneAtATime, GlobalPass, LocalPass, DoTransformation

\* The candidate is written from the buffer, and the file and the buffer
\* change together while the oracle runs.
LEMMA BufferJudgedStep ==
  OneAtATime /\ BufferJudged /\ [Next]_vars => BufferJudged'
<1> SUFFICES ASSUME OneAtATime, BufferJudged, [Next]_vars
             PROVE  BufferJudged'
  OBVIOUS
<1>1. CASE MainStep
  BY <1>1, MainSteps DEF BufferJudged, globalVars, localVars
<1>2. CASE GlobalPass
  BY <1>2, PassAlone, GlobalSteps DEF BufferJudged, localVars
<1>3. CASE LocalPass
  BY <1>3, PassAlone, LocalSteps DEF BufferJudged, globalVars
<1>4. CASE PassDone
  BY <1>4, DoneSteps DEF BufferJudged
<1>5. CASE Fault
  BY <1>5, FaultSteps DEF BufferJudged
<1>6. CASE UNCHANGED vars
  BY <1>6 DEF BufferJudged, vars, shared, globalVars, localVars, mainVars
<1> QED BY <1>1, <1>2, <1>3, <1>4, <1>5, <1>6, StepCases
-----------------------------------------------------------------------------
\* Whichever pass takes a step, the oracle is asked for the file, it answers
\* for the file and a copy of the file is made, or nothing is recorded.
LEMMA PassSteps ==
  ASSUME OneAtATime, BufferJudged, GlobalPass \/ LocalPass
  PROVE  /\ pc = "transform" /\ pc' = "transform"
         /\ \/ ~Judging /\ Judging' /\ \E msg : Asks(msg)
            \/ /\ Judging /\ ~Judging'
               /\ \E msg : Succeeds(msg, file) \/ Fails(msg, file)
            \/ ~Judging /\ ~Judging' /\ Quiet
<1>1. CASE GlobalPass
  <2>1. /\ Global!Next /\ localPc = "start" /\ localPc' = "start"
        /\ pc = "transform" /\ pc' = "transform"
    BY <1>1, PassAlone DEF localVars, mainVars
  <2>2. globalPc = "oracle" => Global!EditBuffer = file
    BY <2>1 DEF BufferJudged, Global!EditBuffer
  <2> QED BY <2>1, <2>2, GlobalSteps DEF Judging
<1>2. CASE LocalPass
  <2>1. /\ Local!Next /\ globalPc = "start" /\ globalPc' = "start"
        /\ pc = "transform" /\ pc' = "transform"
    BY <1>2, PassAlone DEF globalVars, mainVars
  <2>2. localPc = "oracle" => Local!EditBuffer = file
    BY <2>1 DEF BufferJudged, Local!EditBuffer
  <2> QED BY <2>1, <2>2, LocalSteps DEF Judging
<1> QED BY <1>1, <1>2

\* All other steps but faults record nothing.
LEMMA OtherSteps ==
  ASSUME OneAtATime, MainStep \/ PassDone \/ UNCHANGED vars
  PROVE  /\ UNCHANGED shared /\ Judging' = Judging
         /\ pc' = "killed" => pc = "killed"
<1>1. CASE MainStep
  BY <1>1, MainSteps DEF Judging, globalVars, localVars
<1>2. CASE PassDone
  BY <1>2, DoneSteps DEF Judging
<1>3. CASE UNCHANGED vars
  BY <1>3 DEF vars, shared, globalVars, localVars, mainVars, Judging
<1> QED BY <1>1, <1>2, <1>3

\* A copy named "success" is not written over by one named "fail", and what
\* the oracle accepts is copied.
LEMMA SuccessKept ==
  ASSUME NEW copies, NEW text, Success(copies, text), NEW number, NEW msg,
         NEW other
  PROVE  Success(With(copies, <<number, msg, "fail">>, other), text)
<1> DEFINE name == <<number, msg, "fail">>
           new  == With(copies, name, other)
<1>1. PICK old \in DOMAIN copies : old[3] = "success" /\ copies[old] = text
  BY DEF Success
<1>2. old # name
  BY <1>1
<1>3. old \in DOMAIN new /\ new[old] = text
  BY <1>1, <1>2 DEF With
<1> QED BY <1>1, <1>3 DEF Success

\* The copy of a text that was accepted is a success with that text.
LEMMA SuccessMade ==
  ASSUME NEW copies, NEW text, NEW number, NEW msg
  PROVE  Success(With(copies, <<number, msg, "success">>, text), text)
<1> DEFINE name == <<number, msg, "success">>
           new  == With(copies, name, text)
<1>1. name \in DOMAIN new /\ new[name] = text /\ name[3] = "success"
  BY DEF With
<1> QED BY <1>1 DEF Success

\* The copies, the file and the verdicts, step by step.
LEMMA SecuredStep ==
  OneAtATime /\ BufferJudged /\ Secured /\ [Next]_vars => Secured'
<1> SUFFICES ASSUME OneAtATime, BufferJudged, Secured, [Next]_vars, SaveTemp
             PROVE  Secured'
  BY DEF Secured
<1>1. Global!Cells' = Global!Cells
  BY DEF Global!Cells
<1>2. CASE MainStep \/ PassDone \/ UNCHANGED vars
  <2>1. UNCHANGED shared /\ (pc' = "killed" => pc = "killed")
    BY <1>2, OtherSteps
  <2>2. pc = "killed" => pc' = "killed"
    BY <1>2, MainSteps, DoneSteps DEF vars, mainVars
  <2> QED BY <1>1, <2>1, <2>2 DEF Secured, Success, KillRecoverable, shared
<1>3. CASE GlobalPass \/ LocalPass
  <2>1. pc = "transform" /\ pc' = "transform"
    BY <1>3, PassSteps
  <2>2. kept = Global!Cells \/ Success(saved, kept)
    BY <2>1 DEF Secured
  <2>3. CASE (\E msg : Asks(msg)) \/ Quiet
    BY <1>1, <2>1, <2>2, <2>3
    DEF Asks, Quiet, Secured, KillRecoverable, Success
  <2>4. CASE \E msg : Succeeds(msg, file)
    <3>1. PICK msg : Succeeds(msg, file)
      BY <2>4
    <3>2. /\ kept' = file
          /\ saved' = With(saved, <<Global!TotalCalls, msg, "success">>, file)
      BY <3>1 DEF Succeeds, Saves
    <3>3. Success(saved', kept')
      BY <3>2, SuccessMade
    <3> QED BY <2>1, <3>3 DEF Secured, KillRecoverable, Success
  <2>5. CASE \E msg : Fails(msg, file)
    <3>1. PICK msg : Fails(msg, file)
      BY <2>5
    <3>2. /\ kept' = kept
          /\ saved' = With(saved, <<Global!TotalCalls, msg, "fail">>, file)
      BY <3>1 DEF Fails, Saves
    <3>3. kept' = Global!Cells \/ Success(saved', kept')
      BY <2>2, <3>2, SuccessKept
    <3> QED BY <1>1, <2>1, <3>3 DEF Secured, KillRecoverable, Success
  <2> QED BY <1>3, <2>3, <2>4, <2>5, PassSteps
<1>4. CASE Fault
  <2>1. /\ pc # "killed" /\ pc' = "killed" /\ saved' = saved
        /\ kept' = kept \/ kept' = file'
    BY <1>4, FaultSteps
  <2> QED BY <1>1, <2>1 DEF Secured, KillRecoverable, Success
<1> QED BY <1>2, <1>3, <1>4, StepCases

-----------------------------------------------------------------------------
\* While the counters count, a question has a number of its own.
LEMMA AskingCounts ==
  ASSUME calls \in [Global!Counters -> 0 .. MaxCalls], NEW msg, Asks(msg)
  PROVE  /\ calls' \in [Global!Counters -> 0 .. MaxCalls]
         /\ Below' => Below /\ Global!TotalCalls' = Global!TotalCalls + 1
<1> DEFINE which == Global!CounterOf(msg)
           more  == Global!Smaller(calls[which] + 1, MaxCalls)
<1>1. /\ MaxCalls \in Nat
      /\ Global!Counters = {"global", "local"}
      /\ which \in {"global", "local"}
  BY ChiselAssumption DEF Global!Counters, Global!CounterOf
<1>2. calls' = [calls EXCEPT ![which] = more]
  BY DEF Asks
<1>3. /\ calls[which] \in 0 .. MaxCalls
      /\ more \in 0 .. MaxCalls
      /\ more < MaxCalls => more = calls[which] + 1
  BY <1>1 DEF Global!Smaller
<1> HIDE DEF which, more
<1>4. calls' \in [Global!Counters -> 0 .. MaxCalls]
  BY <1>1, <1>2, <1>3
<1>5. CASE which = "global"
  <2>1. calls'["global"] = more /\ calls'["local"] = calls["local"]
    BY <1>1, <1>2, <1>5
  <2>2. calls["global"] \in Nat /\ calls["local"] \in Nat
    BY <1>1
  <2> QED BY <1>1, <1>3, <1>4, <1>5, <2>1, <2>2 DEF Below, Global!TotalCalls
<1>6. CASE which = "local"
  <2>1. calls'["local"] = more /\ calls'["global"] = calls["global"]
    BY <1>1, <1>2, <1>6
  <2>2. calls["global"] \in Nat /\ calls["local"] \in Nat
    BY <1>1
  <2> QED BY <1>1, <1>3, <1>4, <1>6, <2>1, <2>2 DEF Below, Global!TotalCalls
<1> QED BY <1>1, <1>5, <1>6

\* Numbers, labels and the last success, step by step.
LEMMA RecordedStep ==
  OneAtATime /\ BufferJudged /\ Recorded /\ [Next]_vars => Recorded'
<1> SUFFICES ASSUME OneAtATime, BufferJudged, Recorded, [Next]_vars
             PROVE  Recorded'
  OBVIOUS
<1> DEFINE total == Global!TotalCalls
<1>1. total \in Nat
  <2>1. Global!Counters = {"global", "local"} /\ MaxCalls \in Nat
    BY ChiselAssumption DEF Global!Counters
  <2>2. calls["global"] \in Nat /\ calls["local"] \in Nat
    BY <2>1 DEF Recorded
  <2> QED BY <2>2 DEF Global!TotalCalls
<1>2. Global!Counters' = Global!Counters
  BY DEF Global!Counters
<1>3. CASE MainStep \/ PassDone \/ UNCHANGED vars
  <2>1. /\ UNCHANGED shared /\ Judging' = Judging
        /\ (pc' = "killed" => pc = "killed")
    BY <1>3, OtherSteps
  <2>2. pc = "killed" => pc' = "killed"
    BY <1>3, MainSteps, DoneSteps DEF vars, mainVars
  <2>3. total' = total
    BY <2>1 DEF shared, Global!TotalCalls
  <2> QED BY <1>2, <2>1, <2>2, <2>3 DEF Recorded, Limit, Below, shared
<1>4. CASE GlobalPass \/ LocalPass
  <2>1. pc = "transform" /\ pc' = "transform"
    BY <1>4, PassSteps
  <2>2. Below => Copies(saved, Limit, passed, failed, kept)
    BY <2>1 DEF Recorded
  <2>3. CASE ~Judging /\ Judging' /\ \E msg : Asks(msg)
    <3>1. PICK msg : Asks(msg)
      BY <2>3
    <3>2. /\ calls' \in [Global!Counters -> 0 .. MaxCalls]
          /\ Below' => Below /\ total' = total + 1
      BY <3>1, AskingCounts DEF Recorded
    <3>3. Below' => Limit' = Limit
      BY <2>3, <3>2 DEF Limit
    <3> QED BY <1>2, <2>1, <2>2, <3>1, <3>2, <3>3 DEF Recorded, Asks
  <2>4. CASE ~Judging /\ ~Judging' /\ Quiet
    <3>1. total' = total /\ Below' = Below
      BY <2>4 DEF Quiet, Global!TotalCalls, Below
    <3> QED BY <1>2, <2>1, <2>2, <2>4, <3>1 DEF Recorded, Limit, Quiet
  <2>5. ASSUME Judging, ~Judging', NEW msg,
               Succeeds(msg, file) \/ Fails(msg, file)
        PROVE  Recorded'
    <3>1. /\ calls' = calls /\ total' = total /\ Below' = Below
          /\ Limit = total /\ Limit' = total + 1
      BY <2>5 DEF Succeeds, Fails, Global!TotalCalls, Below, Limit
    <3>2. CASE SaveTemp /\ Succeeds(msg, file)
      <4>1. /\ saved' = With(saved, <<total, msg, "success">>, file)
            /\ passed' = passed \cup {file} /\ failed' = failed /\ kept' = file
        BY <3>2 DEF Succeeds, Saves
      <4>2. Below => Copies(saved', total + 1, passed', failed', kept')
        <5>1. SUFFICES ASSUME Below
                       PROVE  Copies(saved', total + 1, passed', failed', kept')
          OBVIOUS
        <5>2. Copies(saved, total, passed, failed, kept)
          BY <2>2, <3>1, <5>1
        <5> HIDE DEF total
        <5>3. Copies(With(saved, <<total, msg, "success">>, file), total + 1,
                     passed \cup {file}, failed, file)
          BY <1>1, <5>2, SaveSuccess
        <5> QED BY <4>1, <5>3
      <4> QED BY <1>2, <3>1, <3>2, <4>2 DEF Recorded
    <3>3. CASE SaveTemp /\ Fails(msg, file)
      <4>1. /\ saved' = With(saved, <<total, msg, "fail">>, file)
            /\ failed' = failed \cup {file} /\ passed' = passed /\ kept' = kept
        BY <3>3 DEF Fails, Saves
      <4>2. Below => Copies(saved', total + 1, passed', failed', kept')
        <5>1. SUFFICES ASSUME Below
                       PROVE  Copies(saved', total + 1, passed', failed', kept')
          OBVIOUS
        <5>2. Copies(saved, total, passed, failed, kept)
          BY <2>2, <3>1, <5>1
        <5> HIDE DEF total
        <5>3. Copies(With(saved, <<total, msg, "fail">>, file), total + 1,
                     passed, failed \cup {file}, kept)
          BY <1>1, <5>2, SaveFail
        <5> QED BY <4>1, <5>3
      <4> QED BY <1>2, <3>1, <3>3, <4>2 DEF Recorded
    <3>4. CASE ~SaveTemp
      <4>1. saved' = <<>>
        BY <2>5, <3>4 DEF Recorded, Succeeds, Fails, Saves
      <4>2. Copies(saved', Limit', passed', failed', kept')
        BY <4>1, NoCopies
      <4> QED BY <1>2, <3>1, <4>1, <4>2 DEF Recorded
    <3> QED BY <2>5, <3>2, <3>3, <3>4
  <2> QED BY <1>4, <2>3, <2>4, <2>5, PassSteps
<1>5. CASE Fault
  BY <1>2, <1>5, FaultSteps DEF Recorded
<1> QED BY <1>3, <1>4, <1>5, StepCases
-----------------------------------------------------------------------------
\* Who owns the passes, and who has deleted them, step by step.
LEMMA ManagerStep == OneAtATime /\ ManagerSound /\ [Next]_vars => ManagerSound'
<1> SUFFICES ASSUME OneAtATime, ManagerSound, [Next]_vars
             PROVE  ManagerSound'
  OBVIOUS
<1> USE DEF Impl
<1>1. /\ Manager!Passes = {"global-reduction", "local-reduction"}
      /\ Manager!Passes' = Manager!Passes
  BY DEF Manager!Passes
<1>2. ASSUME NEW name \in Manager!Passes, Register(name)
      PROVE  ManagerSound'
  BY <1>1, <1>2
  DEF Register, Manager!registerTransformation, ManagerSound, Manager!TypeOK,
      localVars, globalVars, mainVars
<1>3. CASE Main
  BY <1>1, <1>3
  DEF Main, Manager!GetInstance, ManagerSound, Manager!TypeOK, localVars,
      globalVars
<1>4. CASE BeginIteration
  <2>1. /\ <<>> \in Seq(Manager!Passes)
        /\ <<"global-reduction">> \in Seq(Manager!Passes)
        /\ <<"local-reduction">> \in Seq(Manager!Passes)
    BY <1>1, EmptySeq
  <2>2. Turns \in Seq(Manager!Passes)
    BY <2>1, ConcatProperties DEF Turns
  <2> QED BY <1>1, <1>4, <2>2
      DEF BeginIteration, ManagerSound, Manager!TypeOK, managerVars
<1>5. CASE SetTransformation
  <2>1. Head(turns) \in Manager!Passes
    BY <1>5 DEF SetTransformation, ManagerSound
  <2> QED BY <1>1, <1>5, <2>1
      DEF SetTransformation, Manager!setTransformation, ManagerSound,
          Manager!TypeOK
<1>6. CASE InitializeCompilerInstance
  <2>1. globalPc = "start" /\ localPc = "start"
    BY <1>6, MainSteps DEF MainStep
  <2> QED BY <1>1, <1>6, <2>1
      DEF InitializeCompilerInstance, Manager!initializeCompilerInstance,
          ManagerSound, Manager!TypeOK, globalVars, localVars
<1>7. CASE GlobalPass \/ LocalPass
  <2>1. /\ pc = "transform" /\ pc' = pc /\ turns' = turns
        /\ \/ globalPc = "start" /\ localPc = "start" /\ Manager!ParseAST
           \/ /\ globalPc # "start" \/ localPc # "start"
              /\ UNCHANGED managerVars
    BY <1>7, PassAlone DEF GlobalPass, LocalPass, DoTransformation, mainVars
  <2>2. CASE Manager!ParseAST
    BY <1>1, <2>1, <2>2 DEF Manager!ParseAST, ManagerSound, Manager!TypeOK
  <2>3. CASE UNCHANGED managerVars /\ (globalPc # "start" \/ localPc # "start")
    BY <1>1, <2>1, <2>3 DEF managerVars, ManagerSound, Manager!TypeOK
  <2> QED BY <2>1, <2>2, <2>3
<1>8. CASE PassDone
  <2>1. pc = "transform" /\ pc' = "turn" /\ UNCHANGED managerVars
    BY <1>8, DoneSteps
  <2>2. turns' = Tail(turns) /\ turns \in Seq(Manager!Passes) /\ turns # <<>>
    BY <1>8, <2>1 DEF PassDone, ManagerSound
  <2>3. turns' \in Seq(Manager!Passes)
    BY <2>2, HeadTailProperties
  <2> QED BY <1>1, <2>1, <2>3 DEF managerVars, ManagerSound, Manager!TypeOK
<1>9. CASE EndIteration
  BY <1>1, <1>9 DEF EndIteration, managerVars, ManagerSound, Manager!TypeOK
<1>10. CASE Finalize
  <2>1. /\ pc = "finalize" /\ pc' = "exit" /\ turns' = turns
        /\ Manager!Finalize
        /\ TransformationsMap = Manager!Passes /\ ClangInstance = Impl
        /\ Impl \in Manager!Passes \cup {"none"}
        /\ deleted = [p \in Manager!Passes |-> 0]
    BY <1>10 DEF Finalize, ManagerSound, Manager!TypeOK
  <2>2. \A p \in Manager!Passes :
          Manager!Owned(p) + (IF p \in TransformationsMap /\ p # Impl THEN 1 ELSE 0)
            = 1
    BY <2>1 DEF Manager!Owned
  <2>3. deleted' = [p \in Manager!Passes |-> 1]
    BY <1>1, <2>1, <2>2 DEF Manager!Finalize, Manager!Delete
  <2>4. /\ TransformationsMap' = {} /\ ClangInstance' = "none"
        /\ UNCHANGED <<TransformationsMapPtr, SrcFileName,
                       CurrentTransformationImpl>>
        /\ TheRewriter' \in Manager!Passes \cup {"none"}
    BY <2>1 DEF Manager!Finalize, Manager!Delete, ManagerSound, Manager!TypeOK
  <2> QED BY <1>1, <2>1, <2>3, <2>4 DEF ManagerSound, Manager!TypeOK
<1>11. CASE Fault
  <2>1. /\ pc \notin {"static", "exit", "killed"} /\ pc' = "killed"
        /\ UNCHANGED managerVars /\ turns' = turns
    BY <1>11, FaultSteps
  <2> QED BY <1>1, <2>1 DEF managerVars, ManagerSound, Manager!TypeOK
<1>12. CASE UNCHANGED vars
  BY <1>1, <1>12
  DEF vars, managerVars, mainVars, globalVars, localVars, ManagerSound,
      Manager!TypeOK
<1> QED
  BY <1>2, <1>3, <1>4, <1>5, <1>6, <1>7, <1>8, <1>9, <1>10, <1>11, <1>12,
     StepCases DEF MainStep

-----------------------------------------------------------------------------
\* All parts of the invariant hold in the initial state.
LEMMA InitInv == Init => IInv
<1> SUFFICES ASSUME Init PROVE IInv
  OBVIOUS
<1>1. /\ pc = "static" /\ turns = <<>> /\ globalPc = "start" /\ localPc = "start"
      /\ saved = <<>> /\ kept = Global!Cells
      /\ calls = [c \in Global!Counters |-> 0]
  BY DEF Init, Global!Init, Global!PassInit, Global!TransformationInit,
     Local!PassInit
<1>2. OneAtATime /\ BufferJudged
  BY <1>1 DEF OneAtATime, Positions, BufferJudged
<1>3. ManagerSound
  <2>1. turns \in Seq(Manager!Passes)
    BY <1>1, EmptySeq
  <2>2. /\ TransformationsMapPtr = {} /\ TransformationsMap = {}
        /\ SrcFileName = FALSE /\ Impl = "none" /\ ClangInstance = "none"
        /\ deleted = [p \in Manager!Passes |-> 0] /\ TheRewriter = "none"
    BY DEF Init, Manager!Init, Impl
  <2>3. Manager!TypeOK
    <3>1. deleted \in [Manager!Passes -> 0 .. 2]
      BY <2>2
    <3>2. {} \subseteq Manager!Passes
      OBVIOUS
    <3> QED BY <2>2, <3>1, <3>2 DEF Manager!TypeOK, Impl
  <2> QED BY <1>1, <2>1, <2>2, <2>3 DEF ManagerSound
<1>4. Secured
  BY <1>1 DEF Secured, KillRecoverable
<1>5. Recorded
  <2>1. calls \in [Global!Counters -> 0 .. MaxCalls]
    BY <1>1, ChiselAssumption
  <2> QED BY <1>1, <2>1, NoCopies DEF Recorded
<1> QED BY <1>2, <1>3, <1>4, <1>5 DEF IInv

\* The invariant holds in every state of the program.
THEOREM Invariance == Spec => []IInv
<1>1. IInv /\ [Next]_vars => IInv'
  BY OneAtATimeStep, BufferJudgedStep, ManagerStep, SecuredStep, RecordedStep
  DEF IInv
<1> QED BY InitInv, <1>1, PTL DEF Spec

\* With --save_temp a run that dies at any point, even while it writes a
\* candidate or a copy, leaves the text that the oracle accepted last in the
\* input file or in a copy named "success", unless that text is the original.
THEOREM KillsAreRecoverable == SaveTemp /\ Spec => []KillRecoverable
<1>1. SaveTemp /\ IInv => KillRecoverable
  BY DEF IInv, Secured
<1>2. SaveTemp /\ [Next]_vars => SaveTemp'
  OBVIOUS
<1> QED BY Invariance, <1>1, <1>2, PTL DEF Spec

\* As long as the counters count, the copies are a faithful record of the
\* whole run, of all turns of both passes.
THEOREM CopiesAreFaithful == Spec => [](Below => SavedCopiesFaithful)
<1>1. IInv => (Below => SavedCopiesFaithful)
  <2> SUFFICES ASSUME IInv, Below, pc # "killed"
               PROVE  Global!SavedCopiesFaithful
    BY DEF SavedCopiesFaithful
  <2>1. /\ Numbered(saved, Limit) /\ Labelled(saved, passed, failed)
        /\ LastIsBest(saved, kept)
    BY DEF IInv, Recorded, Copies
  <2>2. Cardinality(DOMAIN saved) =
          Cardinality({name[1] : name \in DOMAIN saved})
    BY <2>1, AsManyAsNumbers
  <2>3. \A S : Global!Cardinality(S) = Cardinality(S)
    BY DEF Global!Cardinality, Cardinality
  <2> QED
    BY <2>1, <2>2, <2>3
    DEF Global!SavedCopiesFaithful, Labelled, LastIsBest, Succeeded
<1> QED BY Invariance, <1>1, PTL

\* The pass that works has not been deleted and the helper edits its buffer;
\* when the program has ended, each pass has been deleted once, whichever was
\* the last to have a turn, and also when no pass had one.
THEOREM PassesAreOwned == Spec => []PassesOwned
<1>1. IInv => PassesOwned
  <2> SUFFICES ASSUME IInv PROVE PassesOwned
    OBVIOUS
  <2>1. ASSUME pc = "transform", globalPc # "start" \/ localPc # "start"
        PROVE  Manager!Usable(CurrentTransformationImpl)
    BY <2>1 DEF IInv, ManagerSound, Manager!Usable, Impl
  <2>2. pc = "exit" => Manager!DeletedOnce
    BY DEF IInv, ManagerSound, Manager!DeletedOnce, Manager!TypeOK
  <2> QED BY <2>1, <2>2 DEF PassesOwned
<1> QED BY Invariance, <1>1, PTL

=============================================================================
