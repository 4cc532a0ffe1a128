-------------------------- MODULE StatementVisitor --------------------------
(***************************************************************************)
(* CommonStatementVisitor (src/include/CommonStatementVisitor.h): a walk   *)
(* of a function body that knows, at every expression, the statement the   *)
(* expression belongs to and whether braces have to be put around that     *)
(* statement when another one is added in front of it.                     *)
(*                                                                         *)
(* A statement or an expression is a node [kind, id, exprs, bodies]: what  *)
(* is evaluated in it, and the statements it controls.  seen is what a     *)
(* subclass sees: each expression with CurrentStmt and NeedParen.          *)
(***************************************************************************)
EXTENDS Sequences, SequencesExt

AstNode(kind, id, exprs, bodies) ==
  [kind |-> kind, id |-> id, exprs |-> exprs, bodies |-> bodies]

Start == [CurrentStmt |-> <<>>, NeedParen |-> FALSE, seen |-> <<>>, go |-> TRUE]

\* The kinds whose Visit function walks them itself and then returns false.
Controls == {"If", "For", "While", "Do", "Case", "Default", "Try"}

RECURSIVE TraverseStmt(_, _), visitNonCompoundStmt(_, _)

\* The callers below do not look at what TraverseStmt returns.
Traverse(s, v) == [TraverseStmt(s, v) EXCEPT !.go = TRUE]

VisitCompoundStmt(s, v) ==
  LET Next(w, sub) == Traverse(sub, [w EXCEPT !.CurrentStmt = sub.id])
  IN [FoldLeft(Next, v, s.bodies) EXCEPT !.go = FALSE]

\* Fault: the branch is not made the current statement.
visitNonCompoundStmtKeeps(s, v) ==
  [Traverse(s, [v EXCEPT !.NeedParen = s.kind # "Compound"])
     EXCEPT !.NeedParen = FALSE]
visitNonCompoundStmt(s, v) ==
  IF s.kind = "Compound" THEN [VisitCompoundStmt(s, v) EXCEPT !.go = TRUE]
  ELSE [Traverse(s, [v EXCEPT !.CurrentStmt = s.id, !.NeedParen = TRUE])
          EXCEPT !.NeedParen = FALSE]

\* VisitIfStmt, VisitForStmt, VisitWhileStmt, VisitDoStmt, VisitCXXTryStmt and,
\* with no expressions to walk, VisitCaseStmt and VisitDefaultStmt.
VisitControl(s, v) ==
  LET Expr(w, e)   == Traverse(e, w)
      Branch(w, b) == visitNonCompoundStmt(b, w)
  IN [FoldLeft(Branch, FoldLeft(Expr, v, s.exprs), s.bodies) EXCEPT !.go = FALSE]

VisitExpr(e, v) ==
  [v EXCEPT !.seen = Append(@, [expr |-> e.id, stmt |-> v.CurrentStmt,
                                paren |-> v.NeedParen])]

\* RecursiveASTVisitor: a Visit that returns false ends the walk.
TraverseStmt(s, v) ==
  LET Child(w, c) == IF w.go THEN TraverseStmt(c, w) ELSE w
  IN CASE s.kind = "Compound"      -> VisitCompoundStmt(s, v)
       [] s.kind \in Controls      -> VisitControl(s, v)
       [] s.kind = "Expr"          -> FoldLeft(Child, VisitExpr(s, v),
                                               s.exprs \o s.bodies)
       [] OTHER                    -> FoldLeft(Child, v, s.exprs \o s.bodies)
=============================================================================
