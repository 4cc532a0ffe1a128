----------------------------- MODULE AstQueries -----------------------------
(***************************************************************************)
(* The questions about the AST that Transformation answers for its         *)
(* subclasses (src/src/core/Transformation.cc), inherited from C-Reduce:   *)
(* which function a name means, which initializer an access reads, which   *)
(* type a dependent name stands for.  They change nothing; each is an      *)
(* operator on the node it is asked about.                                 *)
(***************************************************************************)
EXTENDS Integers, Sequences, SequencesExt

CONSTANTS
  UnsignedSize    \* the number of values of an unsigned int

VARIABLES
  scopes          \* the declaration contexts of the program, by name

ASSUME UnsignedSizeAssumption == UnsignedSize \in Nat \ {0}

NULL == "NULL"
Drop(seq) == SubSeq(seq, 2, Len(seq))
-----------------------------------------------------------------------------
(***************************************************************************)
(* Initializers.  An initializer is [union, inits]: a list, or a leaf if   *)
(* inits is <<>>.  An expression is a sequence, the outermost node first:  *)
(* "member" (a field of index idx, or no field at all), "subscript" (its   *)
(* index, -1 when it is no constant), "paren" (a parenthesis or a cast),   *)
(* and last the "var" with its initializer or another expression.          *)
(***************************************************************************)
NoInit == [union |-> FALSE, inits |-> <<>>, value |-> -1]

RECURSIVE IgnoreParenCasts(_), ArrayBase(_, _), MemberBase(_, _),
          Base(_, _), InitByIndex(_, _)

IgnoreParenCasts(e) ==
  IF Head(e).node = "paren" THEN IgnoreParenCasts(Drop(e)) ELSE e

ignoreSubscriptExprParenCasts(e) ==
  LET inner == IgnoreParenCasts(e)
      keep  == SelectInSeq(inner, LAMBDA x : x.node \notin {"subscript", "paren"})
  IN SubSeq(inner, keep, Len(inner))

\* An index that is not a constant counts as 0, a large one is truncated.
IndexValue(node) ==
  IF node.node = "member" \/ node.idx # -1 THEN node.idx % UnsignedSize ELSE 0

Bare(e, idxs) == [base |-> e, idxs |-> idxs]
ArrayBase(e, idxs) ==
  IF Head(e).node = "subscript"
  THEN ArrayBase(IgnoreParenCasts(Drop(e)), Append(idxs, IndexValue(Head(e))))
  ELSE Bare(e, idxs)
getArrayBaseExprAndIdxs(e) == ArrayBase(e, <<>>)

MemberBase(e, idxs) ==
  IF Head(e).node # "member" THEN Bare(e, idxs)
  ELSE IF ~Head(e).field THEN Bare(<<>>, idxs)
  ELSE LET rest == ArrayBase(IgnoreParenCasts(Drop(e)), Append(idxs, IndexValue(Head(e))))
       IN MemberBase(rest.base, rest.idxs)
getMemberExprBaseExprAndIdxs(e) == MemberBase(e, <<>>)

\* Members and subscripts in any order, to which the two above come down.
Base(e, idxs) ==
  LET inner == IgnoreParenCasts(e) IN
    IF Head(inner).node \in {"member", "subscript"}
    THEN Base(Drop(inner), Append(idxs, IndexValue(Head(inner))))
    ELSE Bare(inner, idxs)
getBaseExprAndIdxs(e) == Base(e, <<>>)

getBaseExprAndIdxExprs(e) ==
  LET last == SelectInSeq(e, LAMBDA x : x.node \notin {"subscript", "paren"})
  IN SelectSeq(SubSeq(e, 1, last - 1), LAMBDA x : x.node = "subscript")

\* The last index was the first to be written.
InitByIndex(idxs, ile) ==
  LET idx == IF ile.union THEN 0 ELSE Last(idxs) IN
    IF idx >= Len(ile.inits) THEN NoInit
    ELSE LET init == ile.inits[idx + 1] IN
           IF Len(idxs) = 1 THEN init
           ELSE IF init.inits = <<>> THEN NoInit
           ELSE InitByIndex(Front(idxs), init)
\* Fault: the indices are walked from the outermost access inwards.
InitByIndexForward(idxs, ile) == InitByIndex(Reverse(idxs), ile)
getInitExprByIndex(idxs, ile) == InitByIndex(idxs, ile)

getInitExprFromBase(base, idxs) ==
  LET var == Head(base) IN
    IF var.node # "var" \/ var.pointer \/ var.init.inits = <<>> THEN NoInit
    ELSE getInitExprByIndex(idxs, var.init)

getArraySubscriptElem(e) ==
  getInitExprFromBase(getArrayBaseExprAndIdxs(e).base,
                      getArrayBaseExprAndIdxs(e).idxs)
isCXXMemberExpr(member) == ~member.field \/ member.cxx
getMemberExprElem(e) ==
  LET found == getMemberExprBaseExprAndIdxs(e) IN
    IF isCXXMemberExpr(Head(e)) \/ found.base = <<>> THEN NoInit
    ELSE getInitExprFromBase(found.base, found.idxs)
-----------------------------------------------------------------------------
(***************************************************************************)
(* Types and the records they lead to.  A type is [layers, leaf]: the      *)
(* classes of type that are wrapped around it, the outermost first.        *)
(***************************************************************************)
Sugar  == {"SubstTemplateTypeParm", "Elaborated", "Typedef", "Paren",
           "Decltype", "Auto", "TypeOf", "TypeOfExpr"}
Arrays == {"ConstantArray", "DependentSizedArray", "IncompleteArray",
           "VariableArray"}
Peeled == Sugar \cup Arrays \cup {"MemberPointer", "Pointer"}

IsSugared(type, class) == ToSet(type.layers) \subseteq Sugar /\ type.leaf.class = class

RECURSIVE getBaseDeclFromType(_)

\* A template of a parameter has no record; an alias leads to another type.
getBaseDeclFromTemplateSpecializationType(leaf) ==
  CASE leaf.template = "parameter" -> NULL
    [] leaf.template = "alias"     -> getBaseDeclFromType(leaf.aliased)
    [] OTHER                       -> leaf.decl

\* The classes without a record give NULL, and so does a type that could not
\* be deduced; a specialization is replaced by its template.  (A reference,
\* which is nobody's base, would fail the assertion.)
getBaseDeclFromType(type) ==
  IF ~(ToSet(type.layers) \subseteq Peeled) THEN NULL
  ELSE CASE type.leaf.class = "TemplateSpecialization" ->
              getBaseDeclFromTemplateSpecializationType(type.leaf)
         [] type.leaf.class = "Record" ->
              IF scopes[type.leaf.decl].specializes # NULL
              THEN scopes[type.leaf.decl].specializes ELSE type.leaf.decl
         [] OTHER -> NULL

\* The definitions of the bases that can be resolved, in their order.
Resolved(record) ==
  [i \in DOMAIN scopes[record].bases |->
     getBaseDeclFromType(scopes[record].bases[i])]
IsDefinition(base) == base # NULL /\ scopes[base].defined
\* Fault: the first base that cannot be resolved ends the loop.
BaseDefinitionsUpTo(record) ==
  LET bad == SelectInSeq(Resolved(record), LAMBDA base : ~IsDefinition(base))
  IN IF bad = 0 THEN Resolved(record) ELSE SubSeq(Resolved(record), 1, bad - 1)
BaseDefinitions(record) == SelectSeq(Resolved(record), IsDefinition)
-----------------------------------------------------------------------------
(***************************************************************************)
(* The function that a name means in a context.  The name is the same for  *)
(* the whole search, so a scope lists only its entries for that name: a    *)
(* function, a template, a shadow of either (by using), or an unresolved   *)
(* using with its specifier.  The shadow of a function is passed over.     *)
(***************************************************************************)
Found(fd, visited) == [fd |-> fd, visited |-> visited]
FirstOf(seq, visited, Find(_, _)) ==
  FoldLeft(LAMBDA r, x : IF r.fd # NULL THEN r ELSE Find(x, r.visited),
           Found(NULL, visited), seq)

ContextOf(spec) ==
  CASE spec.kind \in {"Namespace", "NamespaceAlias"} -> spec.ctx
    [] spec.kind = "TypeSpec" /\ IsSugared(spec.type, "Record") ->
         spec.type.leaf.decl
    [] /\ spec.kind = "TypeSpec"
       /\ IsSugared(spec.type, "TemplateSpecialization")
       /\ "Typedef" \in ToSet(spec.type.layers) ->
         getBaseDeclFromTemplateSpecializationType(spec.type.leaf)
    [] OTHER -> NULL

\* The innermost part of a qualified name that has a context.
getDeclContextFromSpecifier(specs) ==
  LET first == SelectInSeq(specs, LAMBDA spec : ContextOf(spec) # NULL)
  IN IF first = 0 THEN NULL ELSE ContextOf(specs[first])

RECURSIVE lookupFunctionDecl(_, _), lookupFunctionDeclInGlobal(_)

IsFunction(entry) == entry.kind \in {"Function", "FunctionTemplate",
                                "ShadowOfTemplate"}

lookupFunctionDeclFromCtx(ctx, visited) ==
  LET Entry(entry, seen) ==
        LET named == IF entry.kind = "UnresolvedUsingValue"
                     THEN getDeclContextFromSpecifier(entry.specs) ELSE NULL
        IN IF IsFunction(entry) THEN Found(entry.decl, seen)
           ELSE IF named = NULL THEN Found(NULL, seen)
           ELSE lookupFunctionDecl(named, seen)
  IN FirstOf(scopes[ctx].entries, visited, Entry)

lookupFunctionDeclFromBases(record, visited) ==
  FirstOf(BaseDefinitions(record), visited, lookupFunctionDecl)

\* A namespace in ctx that ctx itself nominates ends the whole search.
lookupFunctionDecl(ctx, visited) ==
  IF scopes[ctx].kind = "LinkageSpec" \/ ctx \in visited
  THEN Found(NULL, visited)
  ELSE LET using    == scopes[ctx].using
           own      == SelectInSeq(using, LAMBDA nd : scopes[nd].parent = ctx)
           up       == IF own = 0 THEN using \o <<scopes[ctx].parent>>
                       ELSE SubSeq(using, 1, own - 1)
           Next(c, seen) == IF c = NULL THEN Found(NULL, seen)
                            ELSE lookupFunctionDecl(c, seen)
           here     == lookupFunctionDeclFromCtx(ctx, visited \cup {ctx})
           bases    == IF here.fd # NULL \/ scopes[ctx].kind # "Record" THEN here
                       ELSE lookupFunctionDeclFromBases(ctx, here.visited)
       IN IF bases.fd # NULL THEN bases ELSE FirstOf(up, bases.visited, Next)

\* A search downwards, for a name at the top level: the own entries, then the
\* contexts inside, class templates included and linkage specifications not.
lookupFunctionDeclInGlobal(ctx) ==
  LET own  == SelectInSeq(scopes[ctx].entries, IsFunction)
      subs == [i \in DOMAIN scopes[ctx].inner |->
                 LET sub == scopes[ctx].inner[i] IN
                   IF scopes[sub].kind = "LinkageSpec" THEN NULL
                   ELSE lookupFunctionDeclInGlobal(sub)]
      hit  == SelectInSeq(subs, LAMBDA fd : fd # NULL)
  IN IF own # 0 THEN scopes[ctx].entries[own].decl
     ELSE IF hit # 0 THEN subs[hit] ELSE NULL
-----------------------------------------------------------------------------
(***************************************************************************)
(* The type that a name stands for, as [ok, str, typename]: str is the     *)
(* type to write, as <<type>> or, behind a typename, <<type, member>>.     *)
(***************************************************************************)
Unknown == [ok |-> FALSE, str |-> <<>>, typename |-> FALSE]
Known(str) == [ok |-> TRUE, str |-> str, typename |-> Len(str) > 1]

IsTypeArg(args, idx) == idx <= Len(args) /\ args[idx] # "value"

\* A member of a parameter becomes the member of the argument.  (A parameter
\* without an argument would fail the assertion here; below it is a default.)
replaceDependentNameString(leaf, args) ==
  IF IsSugared(leaf.qualifier, "TemplateTypeParm")
     /\ IsTypeArg(args, leaf.qualifier.leaf.idx)
  THEN Known(<<args[leaf.qualifier.leaf.idx], leaf.id>>) ELSE Unknown
\* Fault: the parameter is counted from 0 and the arguments from 1.
getTemplateTypeParmStringOffByOne(leaf, args) ==
  IF IsTypeArg(args, leaf.idx + 1) THEN Known(<<args[leaf.idx + 1]>>) ELSE Unknown
getTemplateTypeParmString(leaf, args) ==
  IF IsTypeArg(args, leaf.idx) THEN Known(<<args[leaf.idx]>>) ELSE Unknown

TypedefIn(type, args) ==
  CASE type.layers = <<>> /\ type.leaf.class = "DependentName" ->
         replaceDependentNameString(type.leaf, args)
    [] IsSugared(type, "TemplateTypeParm") ->
         getTemplateTypeParmString(type.leaf, args)
    [] OTHER -> Unknown

RECURSIVE getTypedefString(_, _, _)
\* The first typedef of that name that depends on a parameter, or that of a
\* base, which is given the same arguments.
getTypedefString(name, record, args) ==
  LET own   == SelectSeq(scopes[record].typedefs, LAMBDA t : t.name = name)
      here  == [i \in DOMAIN own |-> TypedefIn(own[i].type, args)]
      bases == [i \in DOMAIN BaseDefinitions(record) |->
                  getTypedefString(name, BaseDefinitions(record)[i], args)]
      hit   == SelectInSeq(here \o bases, LAMBDA r : r.ok)
  IN IF hit = 0 THEN Unknown ELSE (here \o bases)[hit]

getDependentNameTypeString(leaf) ==
  LET record == getBaseDeclFromType(leaf.qualifier)
      args   == IF IsSugared(leaf.qualifier, "TemplateSpecialization")
                THEN leaf.qualifier.leaf.args ELSE <<>>
  IN IF ~IsDefinition(record) THEN Unknown
     ELSE getTypedefString(leaf.id, record, args)

getTypeString(type) ==
  IF ~(ToSet(type.layers) \subseteq
         {"SubstTemplateTypeParm", "Elaborated", "Typedef"}) THEN Unknown
  ELSE CASE type.leaf.class = "DependentName" ->
              getDependentNameTypeString(type.leaf)
         [] type.leaf.class \in {"Record", "Builtin"} ->
              Known(<<type.leaf.decl>>)
         [] OTHER -> Unknown
=============================================================================
