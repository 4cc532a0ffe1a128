------------------------------ MODULE MCChisel ------------------------------
(***************************************************************************)
(* Small programs for Chisel.                                          *)
(***************************************************************************)
EXTENDS Chisel

Plain == [kind |-> "ref", main |-> FALSE, def |-> FALSE, global |-> FALSE,
          to |-> 0, first |-> 1, last |-> 1]
Ref(to, cell) == [Plain EXCEPT !.to = to, !.first = cell, !.last = cell]
Var(cell) ==
  [Plain EXCEPT !.kind = "var", !.global = TRUE, !.first = cell, !.last = cell]
Function(main, first, last) ==
  [Plain EXCEPT !.kind = "function", !.def = TRUE, !.main = main,
                !.first = first, !.last = last]
Statement(kind, first, last, parent) ==
  [kind |-> kind, first |-> first, last |-> last,
   parent |-> parent, elseLoc |-> 0]

AllOrNone(t, part) == part \subseteq t \/ part \cap t = {}
-----------------------------------------------------------------------------
\* int g; void f() { g++; } int main() { if (g) { f(); } y(); return 0; }
BothAst ==
  << Var(1), Function(FALSE, 3, 7), Ref(1, 5),
     Function(TRUE, 8, 19), Ref(1, 10), Ref(2, 12) >>
BothStmts ==
  << Statement("compound", 4, 7, 0), Statement("unary", 5, 5, 1),
     Statement("compound", 9, 19, 0),
       Statement("if", 10, 14, 3), Statement("compound", 11, 14, 4),
         Statement("call", 12, 12, 5),
       Statement("call", 15, 15, 3), Statement("return", 17, 17, 3) >>
BothSemis == {2, 6, 13, 16, 18}

\* The oracle wants a program that compiles and returns from main.
BothInteresting ==
  {t \in SUBSET (1 .. 19) :
     /\ {8, 9, 17, 18, 19} \subseteq t
     /\ 5 \in t \/ 10 \in t => 1 \in t
     /\ 12 \in t => 3 \in t
     /\ \A part \in {{1, 2}, {3, 4, 7}, {5, 6}, {11, 14}, {12, 13}, {15, 16}} :
          AllOrNone(t, part)}
-----------------------------------------------------------------------------
\* int main() { while (c) { x(); } } void f() { y(); }
WhileAst == <<>>
WhileStmts ==
  << Statement("compound", 2, 8, 0),
       Statement("while", 3, 7, 1), Statement("compound", 4, 7, 2),
         Statement("call", 5, 5, 3),
     Statement("compound", 10, 13, 0), Statement("call", 11, 11, 5) >>
WhileSemis == {6, 12}

\* The oracle wants the loop, and a program that compiles.
WhileInteresting ==
  {t \in SUBSET (1 .. 13) :
     /\ {1, 2, 3, 4, 7, 8, 9, 10, 13} \subseteq t
     /\ \A part \in {{5, 6}, {11, 12}} : AllOrNone(t, part)}
=============================================================================
