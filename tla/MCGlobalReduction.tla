-------------------------- MODULE MCGlobalReduction --------------------------
(***************************************************************************)
(* Small programs for GlobalReduction.                                     *)
(***************************************************************************)
EXTENDS GlobalReduction

Plain == [kind |-> "ref", main |-> FALSE, def |-> FALSE, global |-> FALSE,
          to |-> 0, first |-> 1, last |-> 1]
At(node, first, last) == [node EXCEPT !.first = first, !.last = last]

Prototype(first, last) == At([Plain EXCEPT !.kind = "function"], first, last)
Function(first, last)  ==
  At([Plain EXCEPT !.kind = "function", !.def = TRUE], first, last)
Main(first, last)      ==
  At([Plain EXCEPT !.kind = "function", !.def = TRUE, !.main = TRUE],
     first, last)
Global(first, last)    ==
  At([Plain EXCEPT !.kind = "var", !.global = TRUE], first, last)
Local(first, last)     == At([Plain EXCEPT !.kind = "var"], first, last)
Record(first, last)    == At([Plain EXCEPT !.kind = "record"], first, last)
Typedef(first, last)   == At([Plain EXCEPT !.kind = "typedef"], first, last)
Enum(first, last)      == At([Plain EXCEPT !.kind = "enum"], first, last)
Ref(to, cell)          == [At(Plain, cell, cell) EXCEPT !.to = to]

AnyText == SUBSET (1 .. NumCells)
-----------------------------------------------------------------------------
\* Declarations one after the other: a prototype, a variable that main uses,
\* a function that calls through the prototype, a record, main, an enum.
FlatAst ==
  << Prototype(1, 1), Global(3, 3), Function(5, 5), Ref(1, 5), Record(6, 6),
     Main(8, 8), Local(8, 8), Ref(2, 8), Ref(7, 8), Enum(9, 9) >>
FlatSemis == {2, 4, 7, 10}
FlatCells == 10

\* A typedef, a function with a static variable of its own, main with a
\* record of its own, and a variable declared together with its record.
NestedAst ==
  << Typedef(1, 1), Function(3, 6), Global(4, 4),
     Main(7, 10), Record(8, 8), Record(11, 11), Global(11, 12) >>
NestedSemis == {2, 5, 9, 13}
NestedCells == 13

\* Eleven functions and main: the smallest list on which a chunk of ddmin
\* can lie around declarations that are already gone.  The oracle accepts
\* the file without the functions 4, 5 and 6, and nothing else.
GapAst == [i \in 1 .. 12 |-> IF i = 12 THEN Main(i, i) ELSE Function(i, i)]
GapCells == 12
GapInteresting == {1 .. 12, (1 .. 12) \ (4 .. 6)}
=============================================================================
