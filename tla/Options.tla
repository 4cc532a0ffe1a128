------------------------------- MODULE Options -------------------------------
(***************************************************************************)
(* The command line (src/src/utils/Options.cc).  A word of it is an option *)
(* with its argument, "" if it has none, or an operand; getopt_long hands  *)
(* out the options one by one, wherever they stand, and leaves the         *)
(* operands behind.                                                        *)
(***************************************************************************)
EXTENDS Sequences, Integers

CONSTANTS
  Files           \* the files that access() finds

VARIABLES
  CharIsSigned,   \* whether the build has a signed char, as on x86
  argv,           \* the words that getopt_long has still to look at
  operands,       \* the operands it has passed
  option,         \* the static members of Option
  outcome         \* "scanning"; then "reduce" or "stat" when handleOptions
                  \* returns to main, or why it exited
optionVars == <<CharIsSigned, argv, operands, option, outcome>>

Defaults ==
  [inputFile |-> "", outputFile |-> "", oracleFile |-> "",
   outputDir |-> "chisel-out", saveTemp |-> FALSE, decisionTree |-> TRUE,
   delayLearning |-> TRUE, skipGlobal |-> FALSE, skipLocal |-> FALSE,
   noCache |-> TRUE, globalDep |-> TRUE, localDep |-> TRUE,
   skipDCE |-> FALSE, profile |-> TRUE, verbose |-> FALSE, stat |-> FALSE]

\* The options without an argument: the member each sets, and to what.
Flags ==
  [s |-> <<"saveTemp", TRUE>>,       D |-> <<"decisionTree", FALSE>>,
   d |-> <<"delayLearning", FALSE>>, g |-> <<"skipGlobal", TRUE>>,
   l |-> <<"skipLocal", TRUE>>,      c |-> <<"noCache", TRUE>>,
   L |-> <<"localDep", FALSE>>,      G |-> <<"globalDep", FALSE>>,
   C |-> <<"skipDCE", TRUE>>,        p |-> <<"profile", FALSE>>,
   v |-> <<"verbose", TRUE>>,        S |-> <<"stat", TRUE>>]
Arguments == [o |-> "outputFile", t |-> "outputDir"]

\* Fault: the case of "g" has no break.
SetFallsThrough(opt, c) ==
  [opt EXCEPT ![Flags[c][1]] = Flags[c][2],
              !.skipLocal = @ \/ c \in {"g", "l"}]
Set(opt, c) == [opt EXCEPT ![Flags[c][1]] = Flags[c][2]]

\* The -1 of getopt_long, in the char that handleOptions keeps it in.
EndOfOptions == IF CharIsSigned THEN -1 ELSE 255
-----------------------------------------------------------------------------
Operand(word) == [opt |-> "", arg |-> word]

OptionsInit(lines) ==
  /\ CharIsSigned \in BOOLEAN
  /\ argv \in lines
  /\ operands = <<>>
  /\ option = Defaults
  /\ outcome = "scanning"

NextWord(word) == outcome = "scanning" /\ argv # <<>> /\ word = Head(argv)

SetFlag(word) ==
  /\ NextWord(word) /\ word.opt \in DOMAIN Flags
  /\ option' = Set(option, word.opt)
  /\ argv' = Tail(argv)
  /\ UNCHANGED <<operands, outcome>>

SetArgument(word) ==
  /\ NextWord(word) /\ word.opt \in DOMAIN Arguments
  /\ option' = [option EXCEPT ![Arguments[word.opt]] = word.arg]
  /\ argv' = Tail(argv)
  /\ UNCHANGED <<operands, outcome>>

PassOperand(word) ==
  /\ NextWord(word) /\ word.opt = ""
  /\ operands' = Append(operands, word.arg)
  /\ argv' = Tail(argv)
  /\ UNCHANGED <<option, outcome>>

\* "h" shows the usage; every other option is invalid.
ExitEarly(word) ==
  /\ NextWord(word)
  /\ word.opt \notin DOMAIN Flags \cup DOMAIN Arguments \cup {""}
  /\ outcome' = IF word.opt = "h" THEN "usage" ELSE "invalid"
  /\ UNCHANGED <<argv, operands, option>>

\* Where char is unsigned, the end of the options is an invalid option.
EndIsInvalid ==
  /\ outcome = "scanning" /\ argv = <<>> /\ EndOfOptions # -1
  /\ outcome' = "invalid"
  /\ UNCHANGED <<argv, operands, option>>

Missing(count) ==
  /\ Len(operands) < count
  /\ outcome' = "too few operands"
  /\ UNCHANGED option

\* With --stat the first operand is the input, and no oracle is needed.
Stat ==
  /\ option.stat
  /\ \/ Missing(1)
     \/ /\ Len(operands) >= 1
        /\ option' = [option EXCEPT !.inputFile = operands[1]]
        /\ outcome' = IF operands[1] \in Files THEN "stat" ELSE "no input"

Reduce ==
  /\ ~option.stat
  /\ \/ Missing(2)
     \/ /\ Len(operands) >= 2
        /\ option' = [option EXCEPT
             !.oracleFile = operands[1], !.inputFile = operands[2],
             !.outputFile = IF @ = "" THEN operands[2] \o ".chisel.c" ELSE @]
        /\ outcome' = IF operands[1] \notin Files THEN "no oracle"
                      ELSE IF operands[2] \notin Files THEN "no input"
                      ELSE "reduce"

Operands ==
  /\ outcome = "scanning" /\ argv = <<>> /\ EndOfOptions = -1
  /\ Stat \/ Reduce
  /\ UNCHANGED <<argv, operands>>

handleOptions ==
  /\ UNCHANGED CharIsSigned
  /\ \/ \E word \in {argv[i] : i \in DOMAIN argv} :
          SetFlag(word) \/ SetArgument(word) \/ PassOperand(word)
          \/ ExitEarly(word)
     \/ EndIsInvalid
     \/ Operands
=============================================================================
