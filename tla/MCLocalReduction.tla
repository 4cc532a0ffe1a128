-------------------------- MODULE MCLocalReduction --------------------------
(***************************************************************************)
(* Small programs for LocalReduction.                                      *)
(***************************************************************************)
EXTENDS LocalReduction

Statement(kind, first, last, parent) ==
  [kind |-> kind, first |-> first, last |-> last,
   parent |-> parent, elseLoc |-> 0]
IfElse(first, elseLoc, last, parent) ==
  [Statement("if", first, last, parent) EXCEPT !.elseLoc = elseLoc]

AnyText == SUBSET (1 .. NumCells)
-----------------------------------------------------------------------------
\* { x = 1; if (c) { f(); } else if (d) { i++; } return; }
IfStmts ==
  << Statement("compound", 1, 17, 0),
     Statement("binary", 2, 2, 1),
     IfElse(4, 9, 14, 1),
       Statement("compound", 5, 8, 3), Statement("call", 6, 6, 4),
       Statement("if", 10, 14, 3),
         Statement("compound", 11, 14, 6), Statement("unary", 12, 12, 7),
     Statement("return", 15, 15, 1) >>
IfSemis == {3, 7, 13, 16}
IfCells == 17
ASSUME IfIsSeparate == Stmts = IfStmts => Separate

\* { l: { while (c) { break; } } for (;;) } and { int x; m: j++; goto m; }
LoopStmts ==
  << Statement("compound", 1, 11, 0),
     Statement("label", 2, 9, 1), Statement("compound", 3, 9, 2),
       Statement("while", 4, 8, 3), Statement("compound", 5, 8, 4),
         Statement("break", 6, 6, 5),
     Statement("other", 10, 10, 1),
     Statement("compound", 12, 20, 0),
     Statement("decl", 13, 14, 8),
     Statement("label", 15, 16, 8), Statement("unary", 16, 16, 10),
     Statement("goto", 18, 18, 8) >>
LoopSemis == {7, 14, 17, 19}
LoopCells == 20
=============================================================================
