--------------------------- MODULE MCRewriteUtils ---------------------------
(***************************************************************************)
(* Small texts for RewriteUtils.  A text is put together from groups: an   *)
(* opening, items with a separator, and a closing.  One item of each group *)
(* is edited, in any order of the groups, and what the buffer then holds   *)
(* is compared, token by token, with the text put together from the items  *)
(* as they should be.                                                      *)
(***************************************************************************)
EXTENDS RewriteUtils, StringUtils, FiniteSets, TLC

VARIABLES
  program,    \* the groups that text is made of
  edited,     \* the item that was edited in each group, 0 for none
  moved,      \* the text that the edit of each group returned
  trial,      \* the range that was blanked last, while the oracle runs
  visible,    \* the pieces that are visible, as Transformation has them
  touched     \* where a token began at the end of a range, 0 for nowhere
editVars == <<program, edited, moved>>
testVars == <<trial, visible, touched>>
textVars == <<text, rewriter, editVars, testVars>>

\* name and last: where in the item its name stands, and the last token that
\* the AST says it has.
ItemAt(str, name, last) == [str |-> str, name |-> name, last |-> last]
Item(str) == ItemAt(str, 1, Len(str))
Group(kind, open, items, sep, close, empty) ==
  [kind |-> kind, open |-> open, items |-> items, sep |-> sep,
   close |-> close, empty |-> empty]

Join(strs, sep) ==
  FlattenSeq([i \in DOMAIN strs |-> IF i = 1 THEN strs[i] ELSE sep \o strs[i]])
Strs(group) == [i \in DOMAIN group.items |-> group.items[i].str]
Pieces(group) ==
  group.open \o Join(Strs(group), group.sep) \o group.close \o <<"\n">>
TextOf(groups) == FlattenSeq([g \in DOMAIN groups |-> Pieces(groups[g])])

Comma == <<",", " ">>
-----------------------------------------------------------------------------
\* int *a=g(x,y), b[3], c;   T d, *e;   unsigned int k;
Vars ==
  Group("var", <<"int", " ">>,
        << ItemAt(<<"*", "a", "=", "g", "(", "x", ",", "y", ")">>, 2, 9),
           Item(<<"b", "[", "3", "]">>), Item(<<"c">>) >>, Comma, <<";">>, <<>>)
NamedVars ==
  Group("named", <<"T", " ">>, << Item(<<"d">>), ItemAt(<<"*", "e">>, 2, 2) >>,
        Comma, <<";">>, <<>>)
OneVar ==
  Group("var", <<"unsigned", " ", "int", " ">>, << Item(<<"k">>) >>, <<>>,
        <<";">>, <<>>)
GroupOfVars == [Vars EXCEPT !.kind = "varOfGroup"]
OneOfGroup  == [OneVar EXCEPT !.kind = "varOfGroup"]
StmtOfVars  == [Vars EXCEPT !.kind = "varOfStmt"]

\* void p(int x, char y, int);   void q(int z);
Params ==
  Group("param", <<"void", " ", "p", "(">>,
        << Item(<<"int", " ", "x">>), Item(<<"char", " ", "y">>),
           Item(<<"int">>) >>, Comma, <<")", ";">>, <<>>)
OneParam ==
  Group("param", <<"void", " ", "q", "(">>, << Item(<<"int", " ", "z">>) >>,
        <<>>, <<")", ";">>, <<"void", "q", "(", "void", ")", ";">>)

\* r(g(1,2), z);   r(z);
Args ==
  Group("arg", <<"r", "(">>,
        << Item(<<"g", "(", "1", ",", "2", ")">>), Item(<<"z">>) >>, Comma,
        <<")", ";">>, <<>>)
OneArg == Group("arg", <<"r", "(">>, << Item(<<"z">>) >>, <<>>, <<")", ";">>,
                <<"r", "(", ")", ";">>)

\* S() : f(1), h(2) {}   S() : f(1) {}
Inits ==
  Group("init", <<"S", "(", ")", " ", ":", " ">>,
        << Item(<<"f", "(", "1", ")">>), Item(<<"h", "(", "2", ")">>) >>, Comma,
        <<" ", "{", "}">>, <<>>)
OneInit == [Inits EXCEPT !.items = << Item(<<"f", "(", "1", ")">>) >>,
                         !.empty = <<"S", "(", ")", "{", "}">>]

\* struct S { int f; int h };
Fields ==
  Group("field", <<"struct", " ", "S", " ", "{", " ">>,
        << ItemAt(<<"int", " ", "f", ";">>, 3, 3), Item(<<"int", " ", "h">>) >>,
        <<" ">>, <<" ", "}", ";">>, <<>>)
\* if(z) {r();}   b[i][2]=0;   *p=0;   int v=3;
If == Group("if", <<>>, << Item(<<"if", "(", "z", ")">>) >>, <<>>,
            <<" ", "{", "r", "(", ")", ";", "}">>,
            <<"{", "r", "(", ")", ";", "}">>)
Subscripts ==
  Group("subscript", <<"b">>, << Item(<<"[", "i", "]">>), Item(<<"[", "2", "]">>) >>,
        <<>>, <<"=", "0", ";">>, <<>>)
Star == Group("star", <<>>, << Item(<<"*">>) >>, <<>>, <<"p", "=", "0", ";">>,
              <<"p", "=", "0", ";">>)
VarInit == Group("varInit", <<"int", " ", "v">>, << Item(<<"=", "3">>) >>, <<>>,
                 <<";">>, <<"int", "v", ";">>)
\* class C; class C {};   int w(){}   int w();   int m, n;
Classes ==
  Group("classes", <<>>,
        << Item(<<"class", " ", "C", ";", "\n",
                  "class", " ", "C", "{", "}", ";">>) >>, <<>>, <<>>, <<>>)
Def == Group("def", <<>>, << Item(<<"int", " ", "w", "(", ")", "{", "}">>) >>,
             <<>>, <<>>, <<>>)
Decl == Group("decl", <<>>, << ItemAt(<<"int", " ", "w", "(", ")", ";">>, 3, 5) >>,
              <<>>, <<>>, <<>>)
DeclGroup ==
  Group("group", <<>>, << ItemAt(<<"int", " ", "m", ",", " ", "n", ";">>, 3, 6) >>,
        <<>>, <<>>, <<>>)
Untyped ==
  Group("untyped", <<>>, << ItemAt(<<"int", " ", "*", "m", ";">>, 4, 4) >>, <<>>,
        <<>>, <<>>)

\* Statements and declarations that are edited, not removed.
Statement(kind) ==
  Group(kind, <<" ">>, << ItemAt(<<"f", "(", "z", ")", ";">>, 3, 4) >>, <<>>,
        <<>>, <<>>)
Block(kind) ==
  Group(kind, <<>>, << Item(<<"{", "f", "(", ")", ";", "}">>) >>, <<>>, <<>>,
        <<>>)
Union == Group("union", <<>>, << Item(<<"typedef", " ", "union", " ", "U">>) >>,
               <<>>, <<";">>, <<>>)
Dtor  == Group("dtor", <<>>, << Item(<<"~", " ", "S">>) >>, <<>>,
               <<"(", ")", ";">>, <<>>)

\* N::x   M::y   &x   int *x;
Prefix(kind, strs) ==
  Group(kind, <<>>, << Item(strs) >>, <<>>, <<"x", ";">>, <<"x", ";">>)
StarOf == [Prefix("starBefore", <<"*">>) EXCEPT !.open = <<"int", " ">>,
                                                 !.empty = <<"int", "x", ";">>]
\* What is replaced as a whole: a name, a type, an expression, a body.
Whole(kind, strs) ==
  Group(kind, <<" ">>, << Item(strs) >>, <<>>, <<";">>, <<>>)
Method == Group("method", <<>>, << ItemAt(<<"N", "::", "m">>, 3, 2) >>, <<>>,
                <<"(", ")", ";">>, <<>>)
DtorCall == Whole("dtorCall", <<"p", ".", "~", "S", "(", ")">>)

Removals ==
  { << Vars, Params, Args, If >>, << NamedVars, OneVar, OneParam, OneArg, Star >>,
    << GroupOfVars, OneOfGroup, Fields, Subscripts >>,
    << StmtOfVars, Inits, OneInit, VarInit >>,
    << Classes, Def, Decl, DeclGroup, Untyped >>,
    << Prefix("specifier", <<"N", "::">>), Prefix("qualifier", <<"M", "::">>),
       Prefix("addr", <<"&">>), StarOf >> }
Insertions ==
  { << Statement("assign"), Block("before"), Union, Block("local") >>,
    << Statement("after"), Statement("replace"), Dtor, Statement("bare") >>,
    << Whole("insertAddr", <<"z">>), Whole("notInclude", <<"x", "+", "y">>),
       Block("afterStmt"), Statement("beforeFunc"), Statement("beforeTemplate") >>,
    << Whole("name", <<"a">>), Whole("typeName", <<"C", " ", "v">>),
       Whole("value", <<"int", " ", "b">>), Block("body") >>,
    << Whole("record", <<"C">>), Whole("newSpecifier", <<"N", "::">>), Method,
       DtorCall >> }
-----------------------------------------------------------------------------
(***************************************************************************)
(* The node of the AST that an item stands for, and the edit of it.        *)
(***************************************************************************)
Offset(g) == Len(TextOf(SubSeq(program, 1, g - 1)))
Begin(g, k) ==
  Offset(g) + Len(program[g].open) + 1
  + Len(Join(SubSeq(Strs(program[g]), 1, k - 1), program[g].sep))
  + (IF k = 1 THEN 0 ELSE Len(program[g].sep))

Node(g, k) ==
  LET item == program[g].items[k]
      at   == Begin(g, k)
      one  == [begin |-> at + 1, end |-> at + 1]
  IN [begin |-> at, end |-> at + item.last - 1, name |-> at + item.name - 1,
      then |-> at + item.last + 1, brace |-> 0, default |-> FALSE,
      comma |-> FALSE, template |-> 0, body |-> [begin |-> at, end |-> at],
      first |-> one, initEnd |-> at + item.last - 1]

\* A declarator: it begins where the type does.
VarNode(g, k) ==
  LET named == program[g].kind = "named"
      type  == Offset(g) + 1
  IN [begin |-> type, end |-> Node(g, k).end, name |-> Node(g, k).name,
      typeBegin |-> type, typeEnd |-> type, named |-> named, integer |-> named,
      var |-> TRUE]
Nodes(g)    == [k \in DOMAIN program[g].items |-> Node(g, k)]
VarNodes(g) == [k \in DOMAIN program[g].items |-> VarNode(g, k)]
StmtRange(g) ==
  [begin |-> Offset(g) + 1, end |-> Offset(g) + Len(Pieces(program[g])) - 1]
Index(g, k)  == [begin |-> Begin(g, k) + 1, end |-> Begin(g, k) + 1]

New == <<"t">>
Kept(rw) == Moved(<<>>, rw)
EditOf(rw, g, k) ==
  LET kind  == program[g].kind
      node  == Node(g, k)
      count == Len(program[g].items)
      call  == [begin |-> node.begin, end |-> node.end, comma |-> FALSE]
      second == [node EXCEPT !.begin = @ + 5, !.brace = node.end - 1]
  IN CASE kind \in {"var", "named"} -> Kept(removeVarDecl(rw, VarNode(g, k)))
       [] kind = "varOfGroup" ->
            Kept(removeVarDeclOfGroup(rw, VarNode(g, k), VarNodes(g)))
       [] kind = "varOfStmt" ->
            Kept(removeVarFromDeclStmt(rw, StmtRange(g), VarNode(g, k),
                                       VarNodes(g), k - 1, k = 1))
       [] kind = "param" ->
            Kept(removeParamFromFuncDecl(rw, node, count, k - 1))
       [] kind = "arg" ->
            Kept(removeArgFromExpr(rw, [args |-> Nodes(g)], k - 1))
       [] kind = "init" ->
            Kept(removeCXXCtorInitializer(rw, node, k - 1, count))
       [] kind = "field" -> Kept(removeFieldDecl(rw, node))
       [] kind = "if" -> Kept(removeIfAndCond(rw, node))
       [] kind = "subscript" -> Kept(removeArraySubscriptExpr(rw, Index(g, k)))
       [] kind = "star" -> Kept(removeAStarAfter(rw, node))
       [] kind = "varInit" ->
            Kept(removeVarInitExpr(rw, [node EXCEPT !.name = @ - 1]))
       [] kind = "classes" ->
            Kept(removeClassDecls(rw, << [node EXCEPT !.end = node.begin + 2],
                                         second >>))
       [] kind = "def" -> getFunctionDefStrAndRemove(rw, node)
       [] kind = "decl" -> getFunctionDeclStrAndRemove(rw, node)
       [] kind = "group" -> getEntireDeclGroupStrAndRemove(rw, <<node, node>>)
       [] kind = "untyped" -> getDeclStmtStrAndRemove(rw, << VarNode(g, k) >>)
       [] kind = "assign" -> Kept(addNewAssignStmtBefore(rw, node, New, call, TRUE))
       [] kind = "bare" -> Kept(addNewAssignStmtBefore(rw, node, New, call, FALSE))
       [] kind = "before" -> Kept(addStringBeforeStmt(rw, node, New, TRUE))
       [] kind = "local" -> Kept(addLocalVarToFunc(rw, node, New))
       [] kind = "after" -> Kept(addStringAfterDecl(rw, node, New))
       [] kind = "replace" ->
            Kept(addStringBeforeStmtAndReplaceExpr(
                   rw, node, New, [begin |-> node.name, end |-> node.name],
                   New, TRUE))
       [] kind = "union" -> Kept(replaceUnionWithStruct(rw, node))
       [] kind = "dtor" -> Kept(replaceCXXDestructorDeclName(rw, node, New))
       [] kind = "specifier" ->
            Moved(getSpecifierAsString(node), removeSpecifier(rw, node))
       [] kind = "qualifier" ->
            Moved(getQualifierAsString(rw, node), removeSpecifier(rw, node))
       [] kind = "addr" ->
            Moved(getStmtString(rw, node), removeAnAddrOfAfter(rw, node))
       [] kind = "starBefore" ->
            Kept(removeAStarBefore(rw, [node EXCEPT !.name = @ + 1]))
       [] kind = "insertAddr" -> Kept(insertAnAddrOfBefore(rw, node))
       [] kind = "notInclude" ->
            Kept(replaceExprNotInclude(insertAStarBefore(rw, node), node, New))
       [] kind = "afterStmt" -> Kept(addStringAfterStmt(rw, node, New))
       [] kind = "beforeFunc" -> Kept(insertStringBeforeFunc(rw, node, New))
       [] kind = "beforeTemplate" ->
            Kept(insertStringBeforeTemplateDecl(rw, node, New))
       [] kind = "name" -> Kept(replaceNamedDeclName(rw, node, New))
       [] kind = "typeName" ->
            Kept(replaceVarTypeName(rw, [typeBegin |-> node.begin], New))
       [] kind = "value" -> Kept(replaceValueDecl(rw, node, New))
       [] kind = "body" ->
            Kept(replaceFunctionDefWithStr(rw, [body |-> node], New))
       [] kind = "record" ->
            Kept(replaceRecordType(rw, [named |-> TRUE, begin |-> node.begin], New))
       [] kind = "newSpecifier" -> Kept(replaceSpecifier(rw, node, New))
       [] kind = "method" ->
            Kept(replaceCXXMethodNameAfterQualifier(rw, node, New))
       [] kind = "dtorCall" ->
            Kept(replaceCXXDtorCallExpr(
                   rw, [begin |-> node.begin, end |-> node.end,
                        destructor |-> TRUE], New))

\* The tokens that an edited item should have: none, or what the edit adds.
After(kind, str) ==
  LET tokens == Tokens(str) IN
    CASE kind = "assign" ->
           <<"{", "t", "=">> \o SubSeq(tokens, 1, 4) \o <<";">> \o tokens
           \o <<"}">>
      [] kind = "bare" ->
           <<"t", "=">> \o SubSeq(tokens, 1, 4) \o <<";">> \o tokens
      [] kind = "before"  -> <<"{", "t">> \o tokens \o <<"}">>
      [] kind = "local"   -> <<"{", "t">> \o Tail(tokens)
      [] kind \in {"after", "afterStmt"} -> tokens \o New
      [] kind \in {"beforeFunc", "beforeTemplate"} -> New \o tokens
      [] kind = "replace" ->
           <<"{", "t">> \o replaceFirst(tokens, <<"z">>, New) \o <<"}">>
      [] kind = "union"   -> replaceFirst(tokens, <<"union">>, <<"struct">>)
      [] kind \in {"dtor", "dtorCall"} -> replaceLast(tokens, <<"S">>, New)
      [] kind = "insertAddr" -> <<"&">> \o tokens
      [] kind = "notInclude" -> <<"*">> \o New
      [] kind \in {"name", "value", "body", "record"} -> New
      [] kind = "typeName" -> replaceFirst(tokens, <<"C">>, New)
      [] kind = "newSpecifier" -> replaceFirst(tokens, <<"N">>, New)
      [] kind = "method"  -> replaceLast(tokens, <<"m">>, New)
      [] OTHER            -> <<>>
Expected(g, k) ==
  LET group == program[g]
      items == IF After(group.kind, <<"f", "(", "z", ")", ";">>) = <<>>
               THEN RemoveAt(Strs(group), k)
               ELSE [Strs(group) EXCEPT ![k] = After(group.kind, @)]
  IN IF items = <<>> THEN group.empty
     ELSE Tokens(group.open \o Join(items, group.sep) \o group.close)
-----------------------------------------------------------------------------
EditInit(programs) ==
  /\ program \in programs
  /\ text = TextOf(program)
  /\ rewriter = Fresh(text)
  /\ edited = [g \in DOMAIN program |-> 0]
  /\ moved = [g \in DOMAIN program |-> <<>>]
  /\ trial = <<>> /\ visible = DOMAIN text /\ touched = 0

Edit(g) ==
  \E k \in DOMAIN program[g].items :
    /\ edited[g] = 0
    /\ edited' = [edited EXCEPT ![g] = k]
    /\ rewriter' = EditOf(rewriter, g, k).rw
    /\ moved' = [moved EXCEPT ![g] = EditOf(rewriter, g, k).str]
    /\ UNCHANGED <<text, program, testVars>>

EditNext == \E g \in DOMAIN program : Edit(g)

AllExpected ==
  FlattenSeq([g \in DOMAIN program |->
                IF edited[g] = 0 THEN Tokens(Pieces(program[g]))
                                 ELSE Expected(g, edited[g])])

\* Whichever parameters, arguments, declarators, fields and other items are
\* removed, in whatever order of the groups, the tokens that are left are
\* those of the text written without them: no comma, star or bracket is left
\* behind or taken along; and a text that is returned to be moved elsewhere
\* is what was taken, without its type where that stays behind
\* (RewriteUtils.cc:168-355, 487-537, 962-1080, 1187-1612).
RemovalsLeaveTheRest ==
  program \in Removals =>
    /\ Tokens(rewriter.buf) = AllExpected
    /\ \A g \in DOMAIN program :
         LET item == Tokens(Strs(program[g])[1]) IN
           moved[g] # <<>> =>
             Tokens(moved[g]) =
               CASE program[g].kind \in {"def", "qualifier", "addr"} -> item
                 [] program[g].kind = "untyped" -> Tail(Front(item))
                 [] OTHER                       -> Front(item)

\* Every insertion stands where it belongs and leaves the tokens around it
\* alone, although the edits before it have moved the text
\* (RewriteUtils.cc:700-960).
InsertionsWrap ==
  program \in Insertions => Tokens(rewriter.buf) = AllExpected
-----------------------------------------------------------------------------
(***************************************************************************)
(* What test does to the buffer, for any ranges and any answers: the text  *)
(* to restore is a range of characters, the text it replaces a range of    *)
(* tokens.                                                                 *)
(***************************************************************************)
Touching == << Group("text", <<"f", "(", ")", ";", " ", "g", ";", "h", ";">>,
                     <<>>, <<>>, <<>>, <<>>) >>

BlankRange(rw, begin, end) ==
  ReplaceRange(rw, begin, end, placeholder(CharRange(begin, end)))
\* Fault: the text is put back before the placeholder, which stays.
RevertByInsertion(rw, begin, end) ==
  InsertText(rw, begin, CharRange(begin, end), TRUE)
RevertRange(rw, begin, end) ==
  ReplaceRange(rw, begin, end, CharRange(begin, end))

Try(begin, end) ==
  /\ trial = <<>> /\ touched = 0 /\ begin < end
  /\ trial' = <<begin, end>>
  /\ rewriter' = BlankRange(rewriter, begin, end)
  /\ visible' = visible \ (begin .. end - 1)
  /\ touched' = IF TokenAt(end) THEN end ELSE 0
  /\ UNCHANGED <<text, editVars>>
Accepted ==
  /\ trial # <<>> /\ trial' = <<>>
  /\ UNCHANGED <<text, rewriter, visible, touched, editVars>>
Refused ==
  /\ trial # <<>> /\ trial' = <<>>
  /\ rewriter' = RevertRange(rewriter, trial[1], trial[2])
  /\ visible' = visible \cup (trial[1] .. trial[2] - 1)
  /\ UNCHANGED <<text, touched, editVars>>

\* One touched token is enough to see what becomes of it.
TestNext == \/ \E begin, end \in DOMAIN text : Try(begin, end)
            \/ Accepted \/ Refused

\* The buffer shows the visible pieces, but for the token it has erased.
VisibleShown ==
  LET shown == [i \in DOMAIN text |->
                  IF i \in visible THEN text[i] ELSE placeholder(text)[i]]
  IN rewriter.buf = IF touched = 0 THEN shown ELSE RemoveAt(shown, touched)

\* The size of a range in the edited buffer leads from its begin in the source
\* to its end there, or, around the erased token, one piece short of it.
RangesMeasured ==
  \A begin, end \in DOMAIN text :
    LET measured == getEndLocationFromBegin(rewriter,
                                            [begin |-> begin, end |-> end])
        parsed   == end + MeasureTokenLength(end)
    IN begin <= end =>
         \/ measured = parsed
         \/ touched > begin /\ measured = parsed - 1

\* The buffer of the rewriter is the set of visible pieces that Transformation
\* has for it, after any tests and reverts, as long as no token begins at the
\* end of a range.  One that does is erased, and the revert does not bring it
\* back, but nothing else is lost (LocalReduction.cc:112-122,
\* Transformation.cc:995-1000).  And because a placeholder is as long as what it
\* stands for, the scans of the passes, which find the end of a range by its
\* size in that buffer (RewriteUtils.cc:68-87), begin where they should, save
\* for ranges from in front of the erased token.
BufferIsVisible == program = Touching => VisibleShown /\ RangesMeasured
=============================================================================
