# A TLA+ verification of chisel

Chisel takes a C file and an *oracle* (a script) and removes code from the
file for as long as the oracle still exits with status 0. It edits the input
file in place: a candidate is written over the file, the oracle runs on it,
and a candidate that is refused is undone by editing it back. The whole value
of the program is in getting those edits and reverts right on all paths
through two delta debugging loops, for oracles that answer anything. That is
what this directory models, checks with TLC and proves with TLAPS.

## Inventory

| Component | State | Operations | Interacts with |
|---|---|---|---|
| main loop (`src/chisel.cc`) | word counts | run both passes until the count is stable | TransformationManager, Stats |
| TransformationManager | registered passes, current pass, compiler instance | set a pass, make a compiler instance, parse with the pass as consumer, finalize | both passes (one object each, for the whole run) |
| Transformation (`src/core/Transformation.cc`) | rewriter with its edit buffer, source manager | getSourceText, writeToFile, callOracle | the input file, the oracle (`system()`), counters, saved copies |
| GlobalReduction | decls, refList, whereUsed; ddmin's list, n, subsets | collect declarations, ddmin, test, revert | Transformation, VectorUtils, RewriteUtils |
| LocalReduction | functionBodies, the queue q; ddmin's list, n, subsets | collect bodies, hdd, reduceIf, reduceWhile, reduceCompound, reduceLabel, ddmin, test, revert | Transformation, VectorUtils, RewriteUtils |
| VectorUtils | none | split, contains, difference | both ddmin loops |
| RewriteUtils | a singleton over one rewriter | find the next `;` (called by the passes); removals, insertions and replacements in the text (inherited from C-Reduce and called by nothing yet) | both test functions |
| StringUtils | none | placeholder (the rest is called by nothing) | both passes |
| the questions about the AST in Transformation | none | which initializer, function or type an expression or a name means (inherited, called by nothing yet) | the AST |
| Options, Report, Counting, Stats, Profiling | flags, counters, timers | read the command line, count, print | main, callOracle |
| CommonStatementVisitor | current statement, whether it needs braces | walk a function body (included by the passes, used by neither) | the AST |

The program has one thread. What is hard in it is not interleaving but long
sequences: a queue and a list that are filled before text disappears, edits of
ranges that contain one another, reverts that restore *source* text into an
*edited* buffer, an oracle that is asked hundreds of times and, under a timeout
as in `examples/test-c.sh:6`, need not give the same answer twice. The hazards
are listed, each at its line, in `PROJECT.json`. Two more things are hard: the
process may die with a candidate on the disk, and the two pass objects, which
live for the whole run, are handed to an owner that deletes them anew in every
turn.

What makes each component correct:

* VectorUtils: the chunks of `split` partition the list in order, none is
  empty; `difference` keeps the order.
* Transformation: a saved copy has the verdict of its own text; the newest
  success is the last accepted version; no copy is overwritten.
* GlobalReduction: subsets are safe to test; a revert restores what the test
  removed; what is in ddmin's list is whole; the result is 1-minimal among the
  unreferenced declarations; the number of calls is quadratic; it ends.
* LocalReduction: the same for statements, and in addition that what waits in
  the queue is whole or gone when its turn comes, and waits only once.
* both: the promise of `Reducer`.
* main loop: it ends; the file it leaves is the last accepted text; nothing
  unreferenced is left that could go; a run that dies leaves the last accepted
  text somewhere on the disk.
* TransformationManager: no pass works after it was deleted, or with the
  rewriter of the other; each is deleted once.
* RewriteUtils: an edit leaves the tokens that it should, whatever was edited
  before it, and no others; blank and revert give the text back.
* Options: the settings do not depend on the order of the words.
* AstQueries, StatementVisitor: the answer is the one the language gives.

## Modules

| Module | Models |
|---|---|
| `VectorUtils` | `include/VectorUtils.h` in closed form |
| `MCVectorUtils` | the loops of `include/VectorUtils.h`, statement by statement, compared with the closed forms |
| `Transformation` | the text of the file, the edit buffer, `writeToFile`, `callOracle`, the counters and the saved copies |
| `GlobalReduction` | the global pass (EXTENDS `Transformation`) |
| `LocalReduction` | the local pass (EXTENDS `Transformation`) |
| `Reducer` | the abstract promise of a pass; both passes implement it |
| `TransformationManager` | the registration, owners and deletion of the two pass objects, and whose rewriter `RewriteUtils` uses |
| `Chisel` | `main`: an instance of each pass on one file, iterated until the number of words is stable, with `TransformationManager` (INSTANCE `Manager`), and the faults |
| `ChiselGlobal` | `main` with `--skip_local`: `Chisel` (INSTANCE `C`) around the variables of `GlobalReduction`, and what only holds then |
| `RewriteBuffer` | the part of clang's Rewriter, RewriteBuffer and Lexer that the code relies on (external) |
| `RewriteUtils` | the scans and edits of `src/utils/RewriteUtils.cc`, on pieces of text (EXTENDS `RewriteBuffer`) |
| `StringUtils` | `src/utils/StringUtils.cc` |
| `Options` | `handleOptions`: the command line word by word |
| `AstQueries` | what `Transformation` answers about initializers, function names and dependent types |
| `StatementVisitor` | `include/CommonStatementVisitor.h` |
| `MCRewriteUtils` | small texts, each an AST node and an edit for every function, and the blank and revert of `test` on pieces |
| `MCUtilities` | everything from `RewriteBuffer` on, one kind of input at a time |
| `MCGlobalReduction`, `MCLocalReduction`, `MCChisel`, `MCChiselGlobal` | small programs for TLC |

The theorems are in modules of their own:

| Module | Proves of | That |
|---|---|---|
| `VectorUtils_proof` | `VectorUtils` | `split` makes contiguous, nonempty, disjoint chunks; `difference` and `Select` keep the order; no round cuts a chunk with a gap in it from a list of at most ten elements, or a power of two |
| `VectorLoops_proof` | `MCVectorUtils` | the loops compute the closed forms |
| `GlobalReduction_proof` | `GlobalReduction` | types, safe subsets, nothing accepted is lost, refinement of `Reducer`, whole declarations; 1-minimality, the quadratic number of calls, the saved copies, exact reverts, removed declarations stay removed |
| `ChiselGlobal_proof` | `ChiselGlobal` | over any number of iterations: no accepted text is lost and ddmin's subsets are safe; the file ends as the last accepted text, no iteration grows it, and at the end nothing unreferenced can be removed alone |
| `LocalReduction_proof` | `LocalReduction` | types, nothing accepted is lost, refinement of `Reducer` |
| `LocalQueue_proof` | `LocalReduction` | nothing waits twice in the queue, or half reduced; exact reverts, blocks are left 1-minimal |
| `SavedCopies_proof` | the copies as a function from names to texts | what one more copy preserves |
| `Chisel_proof` | `Chisel` and `TransformationManager` | a killed run is recoverable, the copies of a whole run, who owns the passes |

Definitions named after a function of the source model it; `PROJECT.json`
gives the lines of each. Operators introduced as a *fault* are not part of the
model: each is a plausible mistake in the definition below it, and TLC finds
the property it is paired with violated when it takes that definition's place.

### Text

The file is a row of `NumCells` cells, one for every piece of text the passes
treat as a unit (a declaration, the head of an `if`, a brace, a `;`). Blanking
replaces characters by blanks one for one (`StringUtils::placeholder`), so
nothing moves: a text is the set of cells still visible, a source range an
interval, `ReplaceText` set difference and union. The fact the bugs come from is
kept: `getSourceText` reads `source`, the text as it was parsed, while
`ReplaceText` edits `EditBuffer`, the text as it is now.

Two levels of text meet here. The cells are what `RewriteBuffer` makes of a text
when no token begins at the end of a removed range: then the buffer of the
rewriter, deltas and all, shows exactly the visible pieces, which
`BufferIsVisible` checks after any tests and reverts on a text of nine pieces.
When a token does begin there (`x();y();`), the rewriter erases it with the
range, because `ReplaceText` measures in tokens and `getSourceText` in
characters, and no revert brings it back; the same property says that this one
token is all that is lost. The programs of the passes have white space there.
The scans of the passes for a `;` begin behind a range whose size is taken in
the edited buffer and added to a location of the parsed text; its second part,
`RangesMeasured`, says that this is where the range ends, but for ranges from in
front of the erased token. So the models of the passes may scan in the parsed
text.

### Oracle

`OracleAccepts` and `OracleRefuses` are the two outcomes of `callOracle`. Which
one happens is a free choice of every step, restricted by two constants:
`Interesting`, the texts that may be accepted at all (every text, but for one
run), and `Deterministic`, which makes the oracle answer one text always the
same way by remembering, in the history variables `passed` and `failed`, what
it has said. So one run covers all oracles, compilable programs being a special
case. `kept` is the history variable for the text that was accepted last.

### Programs

`Ast` and `Stmts` hold a program as clang would report it: kinds, ranges, and
who refers to whom. A node is in the AST if the cell it begins in is visible in
the parsed text. `Semis` are the cells where the search for `;` stops.
The branches of an `if` and the body of a `while` are blocks or `if`s; other
branches would need the rewriter in detail (`RewriteBuffer`), because their
ranges end without white space.

`LocalReductionAssumption` says what clang guarantees of a tree of statements:
parts lie inside the statement they belong to, statements side by side do not
overlap (`Nested`); a `while` has a body, a label has one statement and ends
with it, an `if` has a `then` branch, and its `else` branch is behind the
keyword (`Complete`). Without it `reduceIf` could push a branch that does not
exist. `Separate` is no assumption but a hypothesis of one theorem, since C
programs may break it: no statement of a block ends later, its `;` included,
than the next one begins. It is true of `IfStmts` (TLC evaluates `IfIsSeparate`)
and false of `LoopStmts`, because a declaration's range ends in its own `;`, and
`test` then looks for one more.

`pc` is the position in the loops of the pass; every state change
between two questions to the oracle is an action of its own or part of the
handler that makes it (the revert is part of `Refuse`, as in `test`).

### The main loop

`Chisel` instantiates both passes. They share the file, the parsed text, the
counters and the oracle; each has its own `edits`, because each pass object has
its own rewriter and lives for the whole run. `initializeCompilerInstance` makes
a new source manager for each turn, but `Rewriter::setSourceMgr` leaves the
buffers as they are, and an earlier compiler instance is never freed, so the
statements of earlier parses stay valid in `functionBodies`. `getWordCount` is
the number of visible cells: every cell counts as one word. `SkipGlobal` and
`SkipLocal` are the options of these names. `ChiselGlobal` is the same program
with `SkipLocal`, in which `EndsAccepted`, `IterationsShrink` and
`NothingUnreferencedIsLeft` hold; with both passes they do not (see *Runs*). It
uses the names of the global pass, so that the theorems about that pass apply.

The passes are registered before `main`, in either order. `pc` is the position
in `main`; a turn is `SetTransformation`, `InitializeCompilerInstance`, the
steps of the pass, `PassDone`. Each of them takes the action of
`TransformationManager` that it calls along.

### Faults

A run may die at any step (`Kill`); while a file is written, so that it is
truncated (`TornWrite`: candidate and revert; a write that fails is the same,
because `raw_fd_ostream` ends the process when it is destroyed with an error);
and between the verdict of the oracle and the copy of the text it accepted
(`KilledSaving`). Chisel does not restart by itself and reads nothing back, so
what a fault leaves is judged by what is on the disk: `KillRecoverable`. Before
the first success nothing is promised, and nothing holds: the original is
overwritten by the first candidate and no copy of it is made.

### Texts and questions

`RewriteBuffer` keeps the mechanism that makes edits hard: locations belong to
the text as it was parsed, the buffer to the text as it is, and deltas lead from
one to the other; an insertion at a location counts or does not, depending on who
asks. A piece of text is a token, a comment or one blank; a name is one piece.
An edit of `RewriteUtils` is an operator from a rewriter to a rewriter, and
`MCRewriteUtils!Edit` applies one to an item of each group of a text, in every
order. What the buffer should then hold is not computed by edits: it is the
text put together again from the items that are left.

`AstQueries` and `StatementVisitor` change nothing, so they are operators, which
`MCUtilities` asks about programs made from small parts and compares with an
independent definition: reachability for the lookup of a function, navigation from
the inside for initializers, substitution for dependent types, a static
description of owners for the walk of a body. `Options` is a transition system;
`CharIsSigned` is a choice of the build.

## Runs

All runs allow deadlock because a pass, and `main`, ends, and so does each small
input of `utilities`. `MaxCalls` = 100 only
caps the counters. In the passing runs of the global pass it is never reached: at most
6 declarations are collected, and `CallsAreBounded` proves at most 54 calls. In
`chisel_both` the unique numbers of `SavedCopiesFaithful` show the same.

| Run | Shows |
|---|---|
| `vector_utils` | closed forms = loops; partition; `n` above, at and below the size; the early returns of `difference` for an empty operand |
| `global_flat` | 5 collected declarations, 4 of them unreferenced, with main between two of them; every oracle, those that change their mind included. Subsets are safe, reverts are exact, removed declarations stay removed, what remains is whole, the result is 1-minimal, calls are quadratic, the pass ends |
| `global_nested` | 6 declarations, a static variable inside a function, a record inside main, a variable declared with its record; oracles that may change their mind; `--save_temp`. No accepted text is lost, copies are faithful and never overwritten, the pass refines `Reducer` |
| `global_gap` (violation) | the revert brings back code that had been removed |
| `global_cache` (violation) | there is no cache |
| `local_if` | a block with an else-if chain; all consistent oracles. Reverts are exact, queued statements are whole or gone and queued once, blocks are left 1-minimal, the pass ends and refines `Reducer` |
| `local_loop` | labels, `while`, an unknown kind, `goto`, a declaration, two functions; oracles that may change their mind. No accepted text is lost, the pass ends |
| `local_revive` (violation) | a removed `if` comes back when the oracle changes its mind |
| `chisel_both` | both passes on a program with a global variable, a function, an `if` and two calls; every consistent oracle that wants a compilable program. The loop ends, the saved copies are faithful in every state of the whole run, a kill at any of its steps loses no accepted text, no pass works after it was deleted and each is deleted once |
| `chisel_global` | `--skip_local`: five declarations of which some become unreferenced only after others are gone; oracles that may change their mind. The last accepted text is left, no iteration grows the file, nothing unreferenced is left that could go alone |
| `chisel_revert` (violation) | `--skip_global`, a consistent oracle: a call that the first walk of an iteration removed from a loop comes back when the second walk reverts the loop |
| `utilities` | 11 texts with up to 5 groups, edited in every order; blank and revert on a text of 9 pieces; command lines of two options and up to two operands; 8 scopes for lookups; accesses through arrays, structs and unions; dependent names through one base; bodies with two statements inside each other. The size of a range, measured in the edited buffer, leads to the place it leads to in the source, except around an erased token |

The bounds: ddmin's behaviour depends on the number of list entries against
`n`, so lists of 1 to 6 entries reach every relation of the two: `n` below,
at and above the size, one round with and one without a success, chunks of
different length. Every kind of statement that the pass tells apart is in a
local program, as are both outcomes of each question it asks. `global_gap`
needs eleven entries because only then can chunks of four straddle a gap of
three.

What the two passes do *not* guarantee, found while choosing the properties:

* `RevertRestores` fails in the global pass as soon as declarations nest or a
  gap lies inside a chunk (`global_gap`), and `RemovedStaysRemoved` and
  `OneMinimal` fail with it on `NestedAst`. Only the one-sided promise
  `NothingAcceptedIsLost` holds for every layout, and it is proved.
* In the local pass a declaration takes the next statement with it (its range
  already ends in the `;` that `test` then looks for), so that a two-statement
  block can lose both, or get the second back when the first cannot go.
* Wherever a revert is not exact, the file may end as a text that was never
  accepted: the last accepted text plus what a revert brought back. That takes
  a layout as above, an oracle that is not consistent, or a second iteration.
* From the second iteration of `main` on, the two passes undo one another's work,
  because each edits the text of its own first parse. With `BothAst` and
  a consistent oracle, `EndsAccepted`, `IterationsShrink` and even
  `NothingAcceptedIsLost` are false: Chisel can end on a file that the oracle
  never saw. Three properties survive, and `chisel_both` checks them: the loop
  ends, a `--save_temp` copy always holds the last accepted text, and that holds
  when the run is killed.

What the utilities do *not* guarantee, so that the properties and inputs of
`utilities` leave it out:

* RewriteUtils measures a range in the edited buffer and adds the size to a
  location of the parsed text: a second removal in one group of declarators or
  parameters may go wrong. Scans stop at the symbol in a comment or a string,
  `isTheFirstDecl` and the comma scans in the middle of a record body;
  `addStringAfterStmt` puts its text in front of the `;` of an expression
  statement; `getDeclGroupStrAndRemove` erases a token that touches the `;`.
* A `using namespace` that nominates a namespace of the same context ends the
  lookup of a function (`LookupFinds` names the case); the shadow of a function
  made by `using` is passed over, that of a template is not.
* `arr->f` on an array that decayed to a pointer reads the wrong initializer;
  an index too large for `unsigned` is truncated in one query and fails an
  assertion in another.
* A base that takes the template parameters in another order is given the
  arguments in the wrong one, and an own typedef that depends on no parameter is
  passed over for that of a base (`TypesResolved` names both).
* A statement expression leaves `CurrentStmt` pointing into it, so that what
  follows it belongs to the wrong statement. Bodies have none.
* Where `char` is unsigned no command line is accepted.

### Fairness

`FairSpec` of the passes is weak fairness of `Next`, that of `Chisel` weak
fairness of `Step`, which leaves the faults out: one thread runs the program and,
short of being killed, takes its next step; nothing has to go wrong; `system()`
returns because an oracle ends (those of `examples/` by their timeout). Nothing is
assumed of the answers.

## Proofs

Every theorem holds for every program, every behaviour of the oracle and every
value of the constants. Assumed are the types of the constants and, in the local
pass, `Nested` and `Complete`; where a theorem needs more, it says so as a
hypothesis:

| Hypothesis | Of | Means |
|---|---|---|
| `Flat` | `RemainingStaysIntact`, `NoSingleDeclarationIsLeft`, `RevertsAreExact` and `RemovedStay` of the global pass, and the last three theorems of the loop | the declarations lie one behind the other, as in a file without nested ones. True of `FlatAst` and `ChainAst` |
| `Nesting(Len(decls))` | `RevertsAreExact` and `RemovedStay` of the global pass | the pass collects at most ten declarations, or a power of two. With eleven the theorem is wrong: that is `global_gap` |
| `Forward` | `RemovedStay` and the last three theorems of the loop | no source range ends before it begins |
| `Few` | `LoopEndsAccepted`, `IterationsNeverGrow` and `LoopLeavesNothingUnreferenced`, the last three theorems of the loop | the program has at most ten declarations that the pass collects, so that `Nesting` holds of every list a later iteration begins with; a power of two would not stay one |
| `~SkipGlobal` | `LoopLeavesNothingUnreferenced` | the global pass is run |
| `Separate` | `WaitingAreWholeOrGone`, `RevertsAreExact` and `BlocksAreOneMinimal` of the local pass | see *Programs*. True of `IfStmts` |
| `SmallBlocks` | `RevertsAreExact` and `BlocksAreOneMinimal` of the local pass | every block has at most ten statements, or a power of two |
| `Deterministic` | the same two | the oracle gives one text always the same answer. Without it they are wrong: that is `local_revive` |
| `Roomy` | `CopiesAreFaithful` and `CopiesStay` of the global pass | `MaxCalls` is at least the quadratic bound, so that the cap, which the program does not have, is never reached. True of `global_nested` |
| `Below` | `CopiesAreFaithful` of `Chisel` | the same for the whole program, whose number of iterations has no bound: as long as the cap has not been reached |
| `SaveTemp` | `KillsAreRecoverable` | `--save_temp` was given; without it a kill loses the last accepted text |

No property below is inductive alone; each module names the conjuncts that make
it so, and TLC checked every such invariant before it was proved.

**Lists.** `Enumerate` and `Select` are defined through the rank of a position
in a set of positions; `RankIncreases` and `NthEnumerates` make that usable,
`SelectKeeps` and `DifferenceRemoves` follow, and `ChunkEndIncreases` (the only
nonlinear arithmetic) gives `SplitChunks` and `SplitIncreasing`: the chunks of
an increasing list are nonempty, disjoint and contiguous. The loops of
`VectorUtils.h` compute the same: after i iterations `split` has made the first
i chunks, `begin` is the end of the last, and `remain` is what is left of
`size % n` (`SplitSoFar`); after d elements `difference` has kept those of the
first d that the chunk does not contain (`DifferenceSoFar`), and the early
return for an empty chunk keeps all of them (`SelectAll`). The bounds of
`MCVectorUtils` are constants, so `SplitComputesItsClosedForm` and
`DifferenceComputesItsClosedForm` speak of vectors of every length.

**The global pass.** `IInv`: the pass only takes from what was parsed (`Within`);
the buffer is the file (`Buffered`); a subset is under test when the oracle runs
(`UnderTest`); ddmin's list is increasing (`ListOrdered`), since `split` and
`difference` keep order; each subset is a contiguous piece of it (`Segments`);
and during a test only the text of the hull may be missing (`OnlyHullMissing`).
`NothingAcceptedIsLost` is the last one between tests, and `Refinement` follows.
`RemainingIntact` needs `Segments`: a declaration in the list and not in the
subset is in front of the hull or behind it, hence untouched by it. None of this
asks that the pass parses the whole program: what it parses may be what earlier
turns have left, as long as the declarations in it are whole (`WholeIn`).

`OneMinimal` is about the last round: its subsets are single declarations
(`RefinedSingles`), and of each that nothing refers to, either it is still to be
tried or the file without it is among the refused texts (`Minimal`). A single
declaration is removed with its extent and no more (`SingleHull`), and by
`RemainingIntact` it was whole, so the revert gives back the text that the test
began with, and the refusals of a round are all about the same text. A success
ends the round. So the theorem needs no consistent oracle.

`CallsBounded` counts with a budget: `Rest(len, parts)` is what may still be
asked when a round on `len` declarations in `parts` parts begins. A success pays
for the rounds that it makes the pass repeat with the square of the length
(`RestAccept`), a round without one with the greater number of parts
(`RestRefine`). The counter is capped by
`MaxCalls`, but that is any number, so the bound is on the calls.

`RevertRestores` asks when the hull of a subset holds nothing that was removed.
An accepted test leaves a *gap* in the list, and the hull of a later chunk that
spans it brings the gap back. So the question is one about `split` alone: can a
round cut a chunk with a gap inside? Gaps lie where chunks ended; when `n`
doubles, the ends of the old chunks should be among those of the new ones, and
are, if the remainder allows it. `Nests` says that of a list, its gaps and `n`;
it is kept by a refinement (`NestsRefine`), by an accepted test (`NestsAccept`)
and by the restart after it, and with it no chunk has a gap (`ChunkWithoutGap`).
`Nesting` names the lengths for which it holds from the beginning on: powers of
two, which divide evenly, and all up to ten, of which the few that do not divide
evenly are computed (`SmallBoundaries`). With `Nests` and `Flat` the inductive
invariant is `EInv`: each subset is a chunk of the round (`Chunked`), between
two declarations with no gap in between the accepted text has everything
(`Solid`), and what the oracle judges is `kept` without a hull that was whole
(`Exact`). For `RemovedStaysRemoved`, `GInv` adds that no cell of a removed
declaration is left (`Gone`), which an exact revert cannot change.

`SavedCopiesFaithful` needs that bound, since the name of a copy is the counter:
copies bear different numbers below `Limit`, the next one to give
(`Numbered`), the verdict on their own text (`Labelled`), and the newest success
is `kept` (`LastIsBest`). `SavedCopies_proof` says what a copy more does to that.

**The local pass.** `IInv` is again `Fresh` and `Buffered`, and: the current
statement fits the question that is asked about it (`Working`), so that the
branches exist which it pushes; and while the oracle runs only text that its
revert puts back is missing (`OnlyRemovedMissing`). For types it matters that
the AST of the first parse, the only one this pass has alone, is complete
(`ChildrenAreParts`).

`QueuedOnce` and `QueuedAreWholeOrGone` rest on the order of the walk. Of two
statements that are waiting, or waiting and under work, neither contains the
other (`QueueApart`), except that `reduceCompound` pushes the elements of a block
before ddmin works on them; the bodies of two functions are apart as well
(`BodiesApart`). Hence a question about the current statement removes nothing
that waits, apart from statements of the block in question, which a subset
removes whole and a revert restores whole (`Whole`). The last step is where
`Separate` comes in: the `;` that `test` looks for behind a statement must not be
that of the next one.

The exact revert of the local pass has the argument of the global one for every
block (`BlockChunked`, `BlockSolid`), but a block may be gone when its turn
comes, because its statements were pushed before their parent was reduced. That
is why `EInv` needs a deterministic oracle: what is asked about a statement that
is gone is the text the oracle accepted last (`kept` is among the `passed`), so
it cannot be refused, and no revert follows (`RefusalExact`). `BlockOneMinimal`
is again about the last round: of each statement that can be tested alone, the
test is still to come or the text without it has been refused (`BlockMinimal`).

**The main loop.** The two passes share the file and the counters, and each
keeps its buffer over all turns. `IInv` of `Chisel`: only the pass that the
compiler instance owns is under way (`OneAtATime`), so what the oracle judges is
the buffer of that pass (`BufferJudged`) and the copy that is made then is of the
text that was judged; what was accepted last is in a copy, if it is not the
original (`Secured`), and stays there, as a copy is written over only by a
success with the newer text; `main` registers both passes, runs
only what is registered, and the owner of a pass is the compiler instance
or the manager and never both (`ManagerSound`); the copies are as in the
global pass (`Recorded`). No property of either pass is used: what is proved here
holds although from the second iteration on the passes undo one another's work.

With `--skip_local` more is true, and `ChiselGlobal_proof` takes it from the
global pass: a step of the pass in `Chisel` is one of its own (`SameSteps`), so
its invariants hold within a turn. That of every program, `IInv`, holds for the
next turn as well (`PassKept`): no hypothesis is needed for `LoopLosesNothing`
and `LoopSubsetsAreSafe`, which hold in the state a death leaves, too (`KeptInv`).
The other theorems of the loop need what the pass promises under hypotheses, and
that it may begin again on the text it has left (`PassReturns`): a declaration
that begins in the file has not been dropped from the list (`Gone`), hence is
whole (`Intact`), and ends where it did in the program (`EndStays`). So the file
stays exactly the last accepted text, part of what the iteration parsed and what
`wc0` has counted (`Words`). If the number of words has not changed, the file is
the one that was parsed, so that the references counted then are those of the
final file, and what the pass refused at its end settles the matter (`Settled`).
`LInv` joins these; TLC checked it and `KeptInv` on `chisel_global`.

**Only model-checked**, and why:

* Liveness (`Terminates` of all three): the prover has no fairness.
* `SplitPartitions`: that the chunks put together again are the list is an
  induction over a concatenation. What the passes need of it is proved
  (`SplitChunks`).
* `TypeOK` of `Chisel`: from the second iteration the local pass works on
  statements of several parses, whose trees have lost nodes, so that
  `Complete` no longer gives the branches.
* What the utilities compute: recursive data, written with RECURSIVE operators
  or over enumerated inputs.

## Not modelled

* Profiling (clock readings for the report), Report::print and all other
  printing; `--verbose`; creating the output directory. `--stat` appears in
  `Options` only: it prints the number of words (`Options.cc:39` calls them
  statements) and exits.
* `TransformationManager::verify`, the counters, the query flag and the listings:
  `main` sets and calls none of them. `decisionTree`, `delayLearning`, `noCache`,
  `localDep`, `globalDep`, `skipDCE` and `outputFile` are set by `Options` and
  read by nothing.
* A second run on the same directory: its counters start again, and it writes
  over the saved copies of the first.
* Of RewriteUtils, macros (`getExpansionEndLoc`; inputs are preprocessed) and the
  functions that only return the end of a group; of StringUtils, `splitBy` and
  `contains`; of Transformation, `TransNameQuery` and the small queries (array
  dimensions, base types, parameter packs, written initializers). None of them is
  called.
* Of `getopt_long`, `POSIXLY_CORRECT`, abbreviations and missing arguments.
* `examples/mkdir-5.2.1.c.orig.c` and the other samples are input of Chisel.
* The parser itself, which appears as `Ast` and `Stmts`. It gives all it has
  parsed valid locations, so that the guards against invalid ones
  (`LocalReduction.cc:109` and `194-200`) are never taken; and what it does when the input file cannot be opened any more
  (`TransformationManager.cc:89`), which `main` does not look at, is not in this code.

## Plan

What is left:

1. `TypeOK` of `Chisel` as a theorem, from an invariant for the trees of later
   parses: a branch that is still in the AST when its `if` is.
2. Branches and loop bodies that are not blocks, with the erased token of
   `BufferIsVisible` as part of the text of `LocalReduction`.
