---------------------------- MODULE MCChiselGlobal ----------------------------
(***************************************************************************)
(* A small program for ChiselGlobal, in which removing declarations makes  *)
(* others unreferenced.                                                    *)
(***************************************************************************)
EXTENDS ChiselGlobal, MCGlobalReduction

\* int g; int h; void e() { g++; } void f() { e(); } int k;
\* int main() { k++; }
ChainAst ==
  << Global(1, 1), Global(3, 3), Function(5, 7), Ref(1, 6),
     Function(8, 10), Ref(3, 9), Global(11, 11),
     Main(13, 15), Ref(7, 14) >>
ChainStmts == <<>>
ChainSemis == {2, 4, 12}

AllOrNone(t, part) == part \subseteq t \/ part \cap t = {}

\* The oracle wants a program that compiles.
ChainInteresting ==
  {t \in SUBSET (1 .. 15) :
     /\ {11, 12, 13, 14, 15} \subseteq t
     /\ 6 \in t => 1 \in t
     /\ 9 \in t => 5 \in t
     /\ \A part \in {{1, 2}, {3, 4}, {5, 6, 7}, {8, 9, 10}} :
          AllOrNone(t, part)}
=============================================================================
