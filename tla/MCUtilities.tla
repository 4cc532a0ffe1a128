---------------------------- MODULE MCUtilities ----------------------------
(***************************************************************************)
(* The utilities on small inputs, one kind at a time: the edits of         *)
(* RewriteUtils, command lines for Options, questions for AstQueries and   *)
(* bodies for StatementVisitor.                                            *)
(***************************************************************************)
EXTENDS MCRewriteUtils, Options, AstQueries, StatementVisitor

VARIABLES
  mode,       \* what is tried: "text", "options", "lookup", "type",
              \* "initializer" or "body"
  subject     \* the command line, or what was asked about last; a set of one
askVars == <<scopes, subject>>
vars == <<mode, textVars, optionVars, askVars>>

RECURSIVE Accesses(_), Navigate(_, _), Meaning(_, _, _), Bodies(_, _),
          Owners(_, _)
-----------------------------------------------------------------------------
(***************************************************************************)
(* Command lines.                                                          *)
(***************************************************************************)
Word(opt, arg) == [opt |-> opt, arg |-> arg]
SomeWords == { Word("g", ""), Word("S", ""), Word("D", ""), Word("o", "out.c"),
               Word("h", ""), Word("?", "") }
SomeOperands == { <<>>, <<"oracle">>, <<"in.c">>, <<"oracle", "in.c">>,
                  <<"in.c", "gone.c">> }

\* Two options, with the operands in front of, between or behind them.
Lines ==
  { LET rest == [i \in DOMAIN ops |-> Operand(ops[i])]
    IN SubSeq(<<x, y>>, 1, k) \o rest \o SubSeq(<<x, y>>, k + 1, 2) :
      x, y \in SomeWords, ops \in SomeOperands, k \in 0 .. 2 }
ExistingFiles == {"oracle", "in.c"}

Given(line, opt) == \E i \in DOMAIN line : line[i].opt = opt
OperandsOf(line) ==
  [i \in DOMAIN SelectSeq(line, LAMBDA w : w.opt = "") |->
     SelectSeq(line, LAMBDA w : w.opt = "")[i].arg]

\* What main is told depends on which options are given and on the order of
\* the operands, never on the order of the options or on what stands between
\* them: a setting has its default unless its own option is there, --stat
\* wants one operand and no oracle, and nothing is reduced on a line with an
\* option that is not known.  Where char is unsigned no line at all gets
\* through (Options.cc:81-190).
OptionsIndependentOfOrder ==
  mode = "options" /\ outcome # "scanning" => \A Line \in subject :
    LET ops   == OperandsOf(Line)
        early == Given(Line, "h") \/ Given(Line, "?")
        input == IF Given(Line, "S") THEN 1 ELSE 2
    IN /\ outcome \in {"reduce", "stat"} =>
            /\ CharIsSigned /\ ~early
            /\ option.skipGlobal = Given(Line, "g")
            /\ option.decisionTree = ~Given(Line, "D")
            /\ ~option.skipLocal
            /\ option.inputFile = ops[input]
            /\ option.oracleFile = IF input = 1 THEN "" ELSE ops[1]
            /\ {option.inputFile, option.oracleFile} \subseteq Files \cup {""}
            /\ (outcome = "stat") = Given(Line, "S")
            /\ Given(Line, "o") => option.outputFile = "out.c"
       /\ CharIsSigned /\ ~early /\ Len(ops) >= input
          /\ (\A i \in 1 .. input : ops[i] \in Files) =>
            outcome \in {"reduce", "stat"}
-----------------------------------------------------------------------------
(***************************************************************************)
(* Contexts for lookupFunctionDecl: the unit U, the namespaces N and M,    *)
(* the record R with its bases, and extern "C" around some of it.          *)
(***************************************************************************)
Type(layers, class, decl) ==
  [layers |-> layers, leaf |-> [class |-> class, decl |-> decl]]
Scope(kind, parent, entries, inner) ==
  [kind |-> kind, parent |-> parent, entries |-> entries, inner |-> inner,
   bases |-> <<>>, using |-> <<>>, typedefs |-> <<>>, specializes |-> NULL,
   defined |-> kind = "Record"]
Entry(kind, ctx) ==
  [kind |-> kind, decl |-> ctx,
   specs |-> << [kind |-> "Identifier"], [kind |-> "Namespace", ctx |-> "M"] >>]

Declares(ctx) == {<<>>, << Entry("Function", ctx) >>}
REntries ==
  {<<>>, << Entry("ShadowOfFunction", "B"), Entry("FunctionTemplate", "R") >>,
   << Entry("UnresolvedUsingValue", "M") >>}
Template(kind, aliased) ==
  [layers |-> <<>>, leaf |-> [class |-> "TemplateSpecialization",
                              template |-> kind, aliased |-> aliased]]
RBases ==
  {<<>>, << Template("parameter", <<>>),
            Template("alias", Type(<<"Paren">>, "Record", "B")) >>,
   << Type(<<>>, "TemplateTypeParm", "T"), Type(<<"Elaborated">>, "Record", "B") >>,
   << Type(<<>>, "Record", "Undefined"), Type(<<"Typedef">>, "Record", "B1") >>}

LookupScopes ==
  { LET Child(ctx, p) == IF p THEN <<ctx>> ELSE <<>> IN
    [U |-> [Scope("Unit", NULL, u, <<"N", "B", "E">> \o Child("M", m = "U"))
              EXCEPT !.using = uses],
     N |-> [Scope("Namespace", "U", n, Child("M", m = "N") \o Child("R", r = "N"))
              EXCEPT !.using = <<"M">>],
     M |-> Scope("Namespace", m, mm, <<>>),
     R |-> [Scope("Record", r, own, <<>>) EXCEPT !.bases = bases],
     B |-> Scope("Record", "U", b, <<>>),
     B1 |-> [Scope("Record", "U", <<>>, <<>>) EXCEPT !.specializes = "B"],
     Undefined |-> [Scope("Record", "U", <<>>, <<>>) EXCEPT !.defined = FALSE],
     E |-> Scope("LinkageSpec", "U", <<>>, Child("R", r = "E"))] :
      u \in Declares("U"), n \in Declares("N"), mm \in Declares("M"),
      b \in Declares("B"), m \in {"U", "N"}, r \in {"N", "E"},
      uses \in {<<>>, <<"M">>, <<"M", "N">>}, own \in REntries, bases \in RBases }

Contexts == DOMAIN scopes
Linked == {c \in Contexts : scopes[c].kind = "LinkageSpec"}
FunctionsOf(c) ==
  {e \in ToSet(scopes[c].entries) : e.kind \in {"Function", "FunctionTemplate"}}
Sees(c) ==
  ({scopes[c].parent} \cup ToSet(scopes[c].using)
   \cup {b \in ToSet(Resolved(c)) \ {NULL} : scopes[b].defined}
   \cup {"M" : e \in {e \in ToSet(scopes[c].entries) :
                        e.kind = "UnresolvedUsingValue"}}) \ ({NULL} \cup Linked)
Closure(c, Edges(_)) ==
  LET Within[k \in 0 .. Cardinality(Contexts)] ==
        IF k = 0 THEN {c} ELSE Within[k - 1] \cup UNION {Edges(d) : d \in Within[k - 1]}
  IN Within[Cardinality(Contexts)]

\* A search from any context ends, and what it finds is a function of a
\* context that is visible from there, the own one first.  It misses one only
\* when a visible context nominates a namespace of its own: that ends the
\* search although visited contexts are never entered twice.  The search
\* downwards finds exactly what is declared below, linkage specifications
\* excepted (Transformation.cc:412-555).
LookupFinds ==
  mode = "lookup" =>
    \A c \in subject \ Linked :
      LET fd      == lookupFunctionDecl(c, {}).fd
          seen    == Closure(c, Sees)
          Inside(d) == ToSet(scopes[d].inner) \ Linked
          Nominates(d) == \E nd \in ToSet(scopes[d].using) : scopes[nd].parent = d
      IN /\ fd # NULL => fd \in seen /\ FunctionsOf(fd) # {}
         /\ FunctionsOf(c) # {} => fd = c
         /\ fd = NULL => \/ \A d \in seen : FunctionsOf(d) = {}
                         \/ \E d \in seen : Nominates(d)
         /\ lookupFunctionDeclInGlobal(c) = NULL
              <=> \A d \in Closure(c, Inside) : FunctionsOf(d) = {}
-----------------------------------------------------------------------------
(***************************************************************************)
(* struct { int a[2]; struct { int b; union { int c; } d; } s[2]; int *p;  *)
(* static ...; } v = { ... };                                              *)
(***************************************************************************)
Leaf(n) == [union |-> FALSE, inits |-> <<>>, value |-> n]
List(inits) == [union |-> FALSE, inits |-> inits, value |-> 0]
UnionOf(init) == [union |-> TRUE, inits |-> <<init>>, value |-> 0]
InitLists ==
  LET s(n) == List(<< Leaf(n), UnionOf(Leaf(n + 1)) >>)
      a    == List(<< Leaf(1), Leaf(2) >>)
  IN { List(<< a, List(<< s(3), s(5) >>), Leaf(7) >>),
       List(<< List(<< Leaf(1) >>), List(<< s(3), List(<< Leaf(5) >>) >>) >>),
       Leaf(8) }

Scalar == [kind |-> "scalar", parts |-> <<>>]
Of(kind, parts) == [kind |-> kind, parts |-> parts]
Struct ==
  Of("struct",
     << Of("array", <<Scalar>>),
        Of("array", << Of("struct", << Scalar, Of("struct", <<Scalar>>) >>) >>),
        Of("array", <<Scalar>>), Of("array", <<Scalar>>) >>)
Member(i)    == [node |-> "member", idx |-> i, field |-> i # 3, cxx |-> FALSE]
Subscript(n) == [node |-> "subscript", idx |-> n]

\* The accesses that a type allows, the innermost first.
Accesses(type) ==
  {<<>>} \cup
  UNION { {<<step>> \o rest : rest \in Accesses(part)} :
            <<step, part>> \in
              CASE type.kind = "struct" ->
                     {<<Member(i - 1), type.parts[i]>> : i \in DOMAIN type.parts}
                [] type.kind = "array" ->
                     {<<Subscript(n), type.parts[1]>> : n \in {-1, 0, 1, 5}}
                [] OTHER -> {} }

\* (int)v.s[1].b and v.s[1].b, of a variable, a pointer or a call.
Paren == << [node |-> "paren"] >>
Expressions ==
  { LET open == IF parens THEN Paren ELSE <<>> IN
    FlattenSeq([i \in DOMAIN path |-> <<path[Len(path) + 1 - i]>> \o open])
    \o <<base>> :
      path \in Accesses(Struct) \ {<<>>}, parens \in BOOLEAN,
      base \in {[node |-> "var", pointer |-> pointer, init |-> init] :
                  pointer \in BOOLEAN, init \in InitLists}
               \cup {[node |-> "call"]} }

Path(e) == Reverse(SelectSeq(e, LAMBDA x : x.node \in {"member", "subscript"}))
ReadAt(step) ==
  IF step.node = "subscript" /\ step.idx = -1 THEN 0 ELSE step.idx % UnsignedSize
Navigate(init, path) ==
  IF path = <<>> THEN init
  ELSE IF ReadAt(Head(path)) >= Len(init.inits) THEN NoInit
  ELSE Navigate(init.inits[ReadAt(Head(path)) + 1], Tail(path))

\* The initializer that is found for an access is the one that the accesses
\* reach from the inside outwards, or none when the list is too short, the
\* variable a pointer or a part of the path not a field; an index that is no
\* constant reads the first element, one too large for an unsigned int is
\* truncated; parentheses and casts make no difference (Transformation.cc:
\* 121-274, 324-374).
ElementInitializers ==
  mode = "initializer" =>
    \A e \in subject :
      LET kinds  == {s.node : s \in ToSet(Path(e))}
          fields == \A s \in ToSet(Path(e)) : s.node = "member" => s.field
          small  == \A s \in ToSet(Path(e)) : s.idx < UnsignedSize
          direct == Last(e).node = "var" /\ ~Last(e).pointer /\ fields
          value  == IF direct THEN Navigate(Last(e).init, Path(e)) ELSE NoInit
          whole  == getBaseExprAndIdxs(e)
          chain  == getArrayBaseExprAndIdxs(e)
      IN /\ Head(e).node = "member" => getMemberExprElem(e) = value
         /\ Head(e).node = "subscript" =>
              /\ getArraySubscriptElem(e) = IF "member" \in kinds THEN NoInit
                                            ELSE value
              /\ chain.base = ignoreSubscriptExprParenCasts(e)
              /\ Len(chain.idxs) = Len(getBaseExprAndIdxExprs(e))
         /\ fields /\ small => getInitExprFromBase(whole.base, whole.idxs) = value
-----------------------------------------------------------------------------
(***************************************************************************)
(* template <class A, class B> struct D : P<...> { typedef ... type; };    *)
(* template <class A, class B> struct P { typedef ... type; };             *)
(* and a name typename D<...>::type.                                       *)
(***************************************************************************)
Parameter(i) == [layers |-> <<>>, leaf |-> [class |-> "TemplateTypeParm", idx |-> i]]
MemberOf(i) ==
  [layers |-> <<>>, leaf |-> [class |-> "DependentName", id |-> "m",
                              qualifier |-> Parameter(i)]]
Specialization(layers, decl, args) ==
  [layers |-> layers, leaf |-> [class |-> "TemplateSpecialization",
                                template |-> "class", decl |-> decl, args |-> args]]
Typedefs ==
  { <<>> } \cup
  { << [name |-> name, type |-> type] >> :
      name \in {"type", "other"},
      type \in {Parameter(1), Parameter(2), MemberOf(2), Type(<<>>, "Builtin", "long")} }
PBases ==
  { <<>>, << Parameter(1), Specialization(<<>>, "P", <<1, 2>>) >>,
    << Specialization(<<"Typedef">>, "P", <<2, 1>>) >> }

TypeScopes ==
  { [D |-> [Scope("Record", NULL, <<>>, <<>>) EXCEPT !.typedefs = own, !.bases = bases],
     P |-> [Scope("Record", NULL, <<>>, <<>>) EXCEPT !.typedefs = inherited]] :
      own \in Typedefs, inherited \in Typedefs, bases \in PBases }

Names ==
  { [layers |-> layers,
     leaf |-> [class |-> "DependentName", id |-> "type",
               qualifier |-> Specialization(<<"Elaborated">>, "D", args)]] :
      layers \in {<<>>, <<"Typedef">>, <<"Pointer">>},
      args \in {<<"int", "char">>, <<"S", "value">>, <<"S">>} }

\* What the name means: the typedef of the record, whatever it stands for, or
\* that of its base with the arguments that the base is given.
Meaning(name, record, args) ==
  LET own == SelectSeq(scopes[record].typedefs, LAMBDA t : t.name = name)
      given == SelectSeq(scopes[record].bases,
                         LAMBDA b : b.leaf.class = "TemplateSpecialization")
      Arg(i) == IF i \in DOMAIN args THEN args[i] ELSE "default"
  IN IF own # <<>>
     THEN LET leaf == own[1].type.leaf IN
            CASE leaf.class = "TemplateTypeParm" -> << Arg(leaf.idx) >>
              [] leaf.class = "DependentName" -> << Arg(leaf.qualifier.leaf.idx), leaf.id >>
              [] OTHER -> << leaf.decl >>
     ELSE IF given = <<>> THEN <<>>
     ELSE Meaning(name, given[1].leaf.decl,
                  [i \in 1 .. 2 |-> Arg(given[1].leaf.args[i])])

\* A type that is written out for a dependent name is the one it means, with
\* typename in front exactly when it is again a member, in two cases out of
\* three: a base that takes the parameters in another order is given them in
\* the wrong one, and an own typedef that does not depend on the arguments
\* is passed over for that of a base (Transformation.cc:599-761, 799-968).
TypesResolved ==
  mode = "type" =>
    \A type \in subject :
      LET found == getTypeString(type)
          args  == type.leaf.qualifier.leaf.args
          means == Meaning("type", "D", args)
          swaps == \E b \in ToSet(scopes["D"].bases) :
                     b.leaf.class = "TemplateSpecialization" /\ b.leaf.args # <<1, 2>>
          passed == means \in {<<"long">>, <<"value">>, <<"default">>,
                               <<"value", "m">>, <<"default", "m">>}
                    /\ scopes["D"].typedefs # <<>>
      IN /\ type.layers = <<"Pointer">> => ~found.ok
         /\ found.ok /\ ~swaps /\ ~passed =>
              found.str = means /\ found.typename = (Len(means) = 2)
         /\ ~found.ok /\ ~swaps /\ type.layers # <<"Pointer">> =>
              means = <<>> \/ Head(means) \in {"long", "value", "default"}
-----------------------------------------------------------------------------
(***************************************************************************)
(* Function bodies, down to two statements inside each other.  A node is   *)
(* known by its path in the body.                                          *)
(***************************************************************************)
Expr(id) == AstNode("Expr", id, << AstNode("Expr", Append(id, 1), <<>>, <<>>) >>, <<>>)
Bodies(depth, id) ==
  { AstNode("Return", id, << Expr(Append(id, 0)) >>, <<>>) } \cup
  IF depth = 0 THEN {}
  ELSE LET First  == Bodies(depth - 1, Append(id, 1))
           Second == Bodies(depth - 1, Append(id, 2))
           e      == << Expr(Append(id, 0)) >>
       IN {AstNode("If", id, e, <<a>>) : a \in First}
          \cup {AstNode(kind[1], id, kind[2], <<a, b>>) :
                  kind \in {<<"If", e>>, <<"Compound", <<>>>>}, a \in First, b \in Second}
          \cup {AstNode("Do", id, e \o << Expr(Append(id, 3)) >>, <<a>>) : a \in First}
          \cup {AstNode(kind, id, <<>>, <<a>>) : kind \in {"Case", "Label"}, a \in First}

\* Each expression of a node with the statement it belongs to: the innermost
\* one that stands in a block or is a branch.  bare: it stands in no block.
Owners(s, owner) ==
  LET Within(sub) ==
        Owners(sub, CASE s.kind = "Compound" -> [id |-> sub.id, bare |-> FALSE]
                      [] s.kind \in Controls -> [id |-> sub.id, bare |-> TRUE]
                      [] OTHER -> owner)
      Flat(seqs) == FlattenSeq(seqs)
  IN (IF s.kind = "Expr" THEN << [expr |-> s.id, owner |-> owner] >> ELSE <<>>)
     \o Flat([i \in DOMAIN s.exprs |-> Owners(s.exprs[i], owner)])
     \o Flat([i \in DOMAIN s.bodies |-> Within(s.bodies[i])])

\* Every expression of a body is seen, once and in its order, with the full
\* statement it belongs to, although a Visit function that returns false ends
\* the walk it was called in; and braces are asked for wherever a statement
\* added in front would otherwise fall out of the branch
\* (CommonStatementVisitor.h:42-164).
StatementsKnown ==
  mode = "body" =>
    \A body \in subject :
      LET seen   == TraverseStmt(body, Start).seen
          owners == Owners(body, [id |-> body.id, bare |-> FALSE])
      IN /\ [i \in DOMAIN seen |-> <<seen[i].expr, seen[i].stmt>>] =
              [i \in DOMAIN owners |-> <<owners[i].expr, owners[i].owner.id>>]
         /\ \A i \in DOMAIN owners : owners[i].owner.bare => seen[i].paren
-----------------------------------------------------------------------------
NoText    == program = <<>> /\ text = <<>> /\ rewriter = Fresh(<<>>)
             /\ edited = <<>> /\ moved = <<>> /\ trial = <<>> /\ visible = {}
             /\ touched = 0
NoOptions == OptionsInit({<<>>})
NoScopes  == scopes = <<>>
NoSubject == subject = {}

Init ==
  \/ /\ mode = "text" /\ NoOptions /\ NoScopes /\ NoSubject
     /\ EditInit(Removals \cup Insertions \cup {Touching})
  \/ /\ mode = "options" /\ NoText /\ NoScopes
     /\ OptionsInit(Lines) /\ subject = {argv}
  \/ /\ mode \in {"initializer", "body"}
     /\ NoText /\ NoOptions /\ NoScopes /\ NoSubject
  \/ /\ mode \in {"lookup", "type"} /\ NoText /\ NoOptions /\ NoSubject
     /\ scopes \in IF mode = "lookup" THEN LookupScopes ELSE TypeScopes

Subjects ==
  CASE mode = "lookup"      -> Contexts
    [] mode = "type"        -> Names
    [] mode = "initializer" -> Expressions
    [] mode = "body"        -> {AstNode("Compound", <<>>, <<>>, <<b>>) :
                                  b \in Bodies(2, <<1>>)}
Ask ==
  /\ mode \in {"lookup", "type", "initializer", "body"} /\ subject = {}
  /\ \E s \in Subjects : subject' = {s}
  /\ UNCHANGED <<mode, scopes, textVars, optionVars>>

EditText ==
  /\ mode = "text" /\ program # Touching /\ EditNext
  /\ UNCHANGED <<mode, optionVars, askVars>>
TestText ==
  /\ mode = "text" /\ program = Touching /\ TestNext
  /\ UNCHANGED <<mode, optionVars, askVars>>
HandleOptions ==
  /\ mode = "options" /\ handleOptions
  /\ UNCHANGED <<mode, textVars, askVars>>

Next == EditText \/ TestText \/ HandleOptions \/ Ask
Spec == Init /\ [][Next]_vars
=============================================================================
