---------------------------- MODULE RewriteUtils ----------------------------
(***************************************************************************)
(* The edits of RewriteUtils (src/src/utils/RewriteUtils.cc), which comes  *)
(* from C-Reduce.  The passes call only the scans at the top; the edits    *)
(* are there for passes to come.                                           *)
(*                                                                         *)
(* rw is the rewriter an edit is made in, and what it returns.  A range or *)
(* a node of the AST is a record with the locations of the first and the   *)
(* last token it has, begin and end; name is the location of the declared  *)
(* name.  A scan that starts at the end of the file reads past it; every   *)
(* text here ends with a line break that no range includes, so none does.  *)
(***************************************************************************)
EXTENDS RewriteBuffer

FirstAt(from, Is(_)) == SelectInSubSeq(text, from, Len(text), Is)
LastUpTo(to, Is(_))  == SelectLastInSubSeq(text, 1, to, Is)
Exists(n, default)   == IF n = 0 THEN default ELSE n

\* A location in the source, by the size of the range in the buffer.
getEndLocationFromBegin(rw, range) ==
  IF range.begin = 0 \/ range.end = 0 THEN 0
  ELSE range.begin + getRangeSize(rw, range.begin, range.end)

\* The scans stop at the symbol, wherever it stands, or before the end.
getOffsetUntil(loc, symbol) ==
  Exists(FirstAt(loc, LAMBDA c : c = symbol), Len(text)) - loc
getSkippingOffset(loc, symbol) ==
  Exists(FirstAt(loc, LAMBDA c : c # symbol), Len(text)) - loc
getLocationUntil(loc, symbol) == loc + getOffsetUntil(loc, symbol)
getLocationAfter(loc, symbol) == getLocationUntil(loc, symbol) + 1
getLocationAfterSkiping(loc, symbol) == loc + getSkippingOffset(loc, symbol)
getEndLocationUntil(rw, range, symbol) ==
  LET EndLoc == getEndLocationFromBegin(rw, range) IN
    IF EndLoc = 0 THEN 0 ELSE getLocationUntil(EndLoc, symbol)
getEndLocationAfter(rw, range, symbol) ==
  LET EndLoc == getEndLocationFromBegin(rw, range) IN
    IF EndLoc = 0 THEN 0 ELSE getLocationAfter(EndLoc, symbol)
getLocationFromLeftUntil(loc, c) == LastUpTo(loc, LAMBDA d : d = c)

getStringBetweenLocs(from, to)           == CharRange(from, to)
getStringBetweenLocsAfterStart(from, to) == CharRange(from + 1, to)
StringOf(rw, range) ==
  CharRange(range.begin,
            range.begin + getRangeSize(rw, range.begin, range.end))
-----------------------------------------------------------------------------
(***************************************************************************)
(* Parameters and arguments.                                               *)
(***************************************************************************)

\* An argument or parameter with the comma before it, if it is the last one.
RemoveWithCommaBefore(rw, start, size) ==
  LET comma == getLocationFromLeftUntil(start, ",") IN
    RemoveText(rw, comma, size + (start - comma))

\* Where a parameter starts and how long it is; of old style parameters only
\* one end may be known.
ParamStart(PV) == IF PV.begin = 0 THEN PV.end ELSE PV.begin
ParamSize(rw, PV, only) ==
  IF PV.begin = 0 THEN 1
  ELSE IF PV.end = 0 THEN getOffsetUntil(PV.begin, IF only THEN ")" ELSE ",")
  ELSE getRangeSize(rw, PV.begin, PV.end)

\* Fault: the last parameter takes no comma along.
removeParamKeepsComma(rw, PV, NumParams, ParamPos) ==
  RemoveText(rw, ParamStart(PV), ParamSize(rw, PV, NumParams = 1))
\* The only parameter becomes "void"; the last goes with the comma before it,
\* and any other with all up to the comma behind it.
removeParamFromFuncDecl(rw, PV, NumParams, ParamPos) ==
  LET start == ParamStart(PV)
      size  == ParamSize(rw, PV, NumParams = 1)
      sep   == FirstAt(start + size, LAMBDA c : c \in {",", ";"})
  IN IF start = 0 THEN rw
     ELSE IF NumParams = 1 THEN ReplaceText(rw, start, size, <<"void">>)
     ELSE IF ParamPos = NumParams - 1 THEN RemoveWithCommaBefore(rw, start, size)
     ELSE RemoveText(rw, start, sep - start + 1)

\* The arguments of a call or of a constructor; a default argument is not in
\* the text.
getNumArgsWrapper(E)        == Len(E.args)
getArgWrapper(E, ParamPos)  == E.args[ParamPos + 1]
removeArgFromExpr(rw, E, ParamPos) ==
  LET NumArgs == getNumArgsWrapper(E)
      Arg     == getArgWrapper(E, ParamPos)
      IsLast  == ParamPos = NumArgs - 1 \/ getArgWrapper(E, ParamPos + 1).default
      Next    == getArgWrapper(E, ParamPos + 1)
  IN IF ParamPos >= NumArgs THEN rw
     ELSE IF Arg.default THEN rw
     ELSE IF ParamPos = 0 /\ IsLast THEN RemoveRange(rw, Arg.begin, Arg.end)
     ELSE IF IsLast
       THEN RemoveWithCommaBefore(rw, Arg.begin,
                                  getRangeSize(rw, Arg.begin, Arg.end))
     ELSE RemoveRange(rw, Arg.begin, getLocationFromLeftUntil(Next.begin, ","))

\* removeCXXCtorInitializer: the first of several goes up to the comma behind
\* it, any other with the comma, or the colon, before it.
removeTextFromLeftAt(rw, range, c, EndLoc) ==
  RemoveRange(rw, getLocationFromLeftUntil(range.begin, c), EndLoc)
removeTextUntil(rw, range, c) ==
  RemoveRange(rw, range.begin,
              IF text[range.end] = c THEN range.end
                                     ELSE getEndLocationUntil(rw, range, c))
removeCXXCtorInitializer(rw, Init, Index, NumInits) ==
  IF Index > 0 THEN removeTextFromLeftAt(rw, Init, ",", Init.end)
  ELSE IF NumInits = 1 THEN removeTextFromLeftAt(rw, Init, ":", Init.end)
  ELSE removeTextUntil(rw, Init, ",")
-----------------------------------------------------------------------------
(***************************************************************************)
(* Declarations.  typeBegin and typeEnd are the innermost TypeLoc; named   *)
(* says that the base type has an identifier, integer that it is one.      *)
(***************************************************************************)
TypeWords == {"char", "int", "short", "long"}

\* skipRangeByType: every word of an integer type is skipped, found anywhere
\* ahead; then blanks are.
skipPossibleTypeRange(VD, EndLoc) ==
  LET between   == {i \in EndLoc .. VD.name - 1 : text[i] \in TypeWords}
      afterWord == IF between = {} THEN EndLoc
                   ELSE 1 + (CHOOSE i \in between : \A j \in between : j <= i)
  IN IF ~VD.integer THEN EndLoc
     ELSE Exists(FirstAt(afterWord, LAMBDA c : c \notin Blanks), VD.name)

getVarDeclTypeLocBegin(VD) == VD.typeBegin
\* Of a builtin type only the beginning is known: from the name, blanks, stars
\* and parentheses are skipped to the left.
getVarDeclTypeLocEnd(rw, VD) ==
  IF VD.named
  THEN skipPossibleTypeRange(VD,
         getEndLocationFromBegin(rw, [begin |-> VD.typeBegin,
                                      end   |-> VD.typeEnd]))
  ELSE LastUpTo(VD.name - 1, LAMBDA c : c \notin Blanks \cup {"*", "("}) + 1

removeDecl(rw, D) == RemoveRange(rw, D.begin, getEndLocationUntil(rw, D, ";"))

\* The first of several declarators: the type is kept.
RemoveFirstVar(rw, VD) ==
  RemoveRange(rw, getVarDeclTypeLocEnd(rw, VD), getEndLocationUntil(rw, VD, ","))

\* A comma in the text from the type to the name says that another declarator
\* stands before it.
isTheFirstDecl(VD) ==
  LET comma == FirstAt(VD.begin, LAMBDA c : c = ",") IN
    comma = 0 \/ comma >= VD.name
isSingleDecl(rw, VD) ==
  /\ isTheFirstDecl(VD)
  /\ text[FirstAt(getEndLocationFromBegin(rw, VD),
                  LAMBDA c : c \notin Blanks)] = ";"

\* removeVarDecl(VD): without the group, the text says what VD is in it.
removeVarDecl(rw, VD) ==
  IF isSingleDecl(rw, VD) THEN removeDecl(rw, VD)
  ELSE IF isTheFirstDecl(VD) THEN RemoveFirstVar(rw, VD)
  ELSE RemoveRange(rw, getLocationFromLeftUntil(VD.name, ","), VD.end)

\* removeVarDecl(VD, DGR): a group is the sequence of its declarations, the
\* record that it defines or implicitly declares first.
removeVarDeclOfGroup(rw, VD, DGR) ==
  LET first   == IF DGR[1].var THEN 1 ELSE 2
      at      == CHOOSE i \in DOMAIN DGR : DGR[i] = VD
      endSemi == getEndLocationUntil(rw, VD, ";")
  IN IF Len(DGR) = 1
     THEN RemoveRange(rw, VD.begin, IF endSemi = 0
                                    THEN getLocationUntil(VD.begin, ";")
                                    ELSE endSemi)
     ELSE IF first = 2 /\ ~DGR[1].defined /\ Len(DGR) = 2
     THEN RemoveRange(rw, VD.begin, endSemi)
     ELSE IF at = first
     THEN IF first = 2
          THEN RemoveRange(rw, VD.name, getEndLocationUntil(rw, VD, ","))
          ELSE RemoveFirstVar(rw, VD)
     ELSE RemoveRange(rw, getEndLocationUntil(rw, DGR[at - 1], ","), VD.end)

\* removeVarFromDeclStmt: likewise in a DeclStmt, whose range is stmt; prev is
\* the position of PrevDecl in the group, 0 without one.  A record before VD
\* makes VD the first.
removeVarFromDeclStmt(rw, stmt, VD, DGR, prev, IsFirstDecl) ==
  LET afterRecord == prev # 0 /\ ~DGR[prev].var
      goesToo     == ~DGR[prev].defined \/ DGR[prev].unnamed
  IN
    IF Len(DGR) = 1 \/ (afterRecord /\ Len(DGR) = 2 /\ goesToo)
    THEN RemoveRange(rw, stmt.begin, stmt.end)
    ELSE IF IsFirstDecl \/ afterRecord THEN RemoveFirstVar(rw, VD)
    ELSE RemoveRange(rw, getEndLocationUntil(rw, DGR[prev], ","), VD.end)

\* A field whose ";" is missing ends before the "}".
removeFieldDecl(rw, FD) ==
  LET semi  == getEndLocationUntil(rw, FD, ";")
      curly == getEndLocationUntil(rw, FD, "}")
      end   == IF semi > curly THEN curly - 1 ELSE semi
  IN RemoveRange(rw, FD.begin, Exists(end, FD.begin))

\* removeClassDecls and removeClassTemplateDecls: every declaration of the
\* class goes; a definition is one with braces.
removeClassDecls(rw, redecls) ==
  LET LocEnd(edited, D) ==
        IF D.brace = 0 THEN getEndLocationUntil(edited, D, ";")
                       ELSE getLocationUntil(D.brace, ";")
      RemoveOne(edited, D) == RemoveRange(edited, D.begin, LocEnd(edited, D))
  IN FoldLeft(RemoveOne, rw, redecls)

removeVarInitExpr(rw, VD) ==
  RemoveRange(rw, getLocationUntil(VD.name, "="), VD.initEnd)

\* The texts of declarations that are moved elsewhere: what is returned and
\* what is left of the file.
Moved(str, rw) == [str |-> str, rw |-> rw]
getEntireDeclGroupStrAndRemove(rw, DGR) ==
  LET start == DGR[1].begin
      semi  == getEndLocationUntil(rw, Last(DGR), ";")
      end   == IF semi # 0 THEN semi
               ELSE Exists(FirstAt(start, LAMBDA c : c \in {"\n", ";"}),
                           Len(text) + 1)
  IN Moved(getStringBetweenLocs(start, end), RemoveRange(rw, start, end))

\* Without the type, which stays where the text goes; the last location is
\* behind the ";", so that a token there goes too.
getDeclGroupStrAndRemove(rw, DGR) ==
  LET semi == getEndLocationUntil(rw, Last(DGR), ";") IN
    Moved(getStringBetweenLocs(getVarDeclTypeLocEnd(rw, DGR[1]), semi),
          RemoveRange(rw, DGR[1].begin, getLocationAfterSkiping(semi, ";")))
getDeclStmtStrAndRemove(rw, DS) == getDeclGroupStrAndRemove(rw, DS)

getFunctionDefStrAndRemove(rw, FD) ==
  Moved(StringOf(rw, FD), RemoveRange(rw, FD.begin, FD.end))
getFunctionDeclStrAndRemove(rw, FD) ==
  LET end == getEndLocationUntil(rw, FD, ";") IN
    Moved(getStringBetweenLocs(FD.begin, end), RemoveRange(rw, FD.begin, end))
-----------------------------------------------------------------------------
(***************************************************************************)
(* Expressions and statements.                                             *)
(***************************************************************************)
\* The operands of a comma operator keep together.
getExprString(rw, E) ==
  IF E.begin = 0 THEN <<"<invalid-expr>">>
  ELSE IF E.comma THEN <<"(">> \o StringOf(rw, E) \o <<")">>
  ELSE StringOf(rw, E)
getStmtString(rw, S) == StringOf(rw, S)

replaceExpr(rw, E, ES) == ReplaceRange(rw, E.begin, E.end, ES)

\* What was inserted in front of the expression is kept.
replaceExprNotInclude(rw, E, ES) ==
  InsertText(RemoveText(rw, E.begin, RangeSize(rw, E.begin, E.end, FALSE)),
             E.begin, ES, TRUE)

removeIfAndCond(rw, IS) ==
  RemoveText(rw, IS.begin, RangeSize(rw, IS.begin, IS.then - 1, FALSE))

\* From the "[" before the index to the "]" behind it.
removeArraySubscriptExpr(rw, E) ==
  RemoveRange(rw, getLocationFromLeftUntil(E.begin, "["),
              getLocationUntil(E.end + 1, "]"))

removeAStarBefore(rw, D) ==
  RemoveText(rw, getLocationFromLeftUntil(D.name, "*"), 1)
removeASymbolAfter(rw, E, symbol) ==
  RemoveText(rw, getLocationUntil(E.begin, symbol), 1)
removeAStarAfter(rw, E)    == removeASymbolAfter(rw, E, "*")
removeAnAddrOfAfter(rw, E) == removeASymbolAfter(rw, E, "&")
insertAnAddrOfBefore(rw, E) == InsertTextBefore(rw, E.begin, <<"&">>)
insertAStarBefore(rw, E)    == InsertTextBefore(rw, E.begin, <<"*">>)

\* The blanks at the start of the line that a statement begins in.
getStmtIndentString(S) ==
  LET line == LastUpTo(S.begin - 1, LAMBDA c : c = "\n") + 1 IN
    CharRange(line, FirstAt(line, LAMBDA c : c \notin Blanks))
DefaultIndentStr == <<" ">>
NewLine(indent)  == <<"\n">> \o indent

addLocalVarToFunc(rw, FD, VarStr) ==
  LET indent == IF FD.first.begin = 0 THEN DefaultIndentStr
                                      ELSE getStmtIndentString(FD.first)
  IN InsertTextAfterToken(rw, FD.body.begin, NewLine(indent) \o VarStr)

\* The closing brace of a block around a statement.
addOpenParenBeforeStmt(rw, S, indent) ==
  InsertTextAfterToken(rw, getEndLocationFromBegin(rw, S),
                       NewLine(indent) \o <<"}">>)

\* Fault: the block is not closed.
addNewAssignNotClosed(rw, S, VarName, RHS, NeedParen) ==
  LET opening == IF NeedParen THEN <<"{", "\n">> ELSE <<>> IN
    InsertText(rw, S.begin,
               opening \o VarName \o <<"=">> \o getExprString(rw, RHS)
               \o <<";", "\n">>, FALSE)
addNewAssignStmtBefore(rw, S, VarName, RHS, NeedParen) ==
  LET indent  == getStmtIndentString(S)
      inner   == indent \o <<" ", " ">>
      closed  == IF NeedParen THEN addOpenParenBeforeStmt(rw, S, indent) ELSE rw
      assign  == VarName \o <<" ", "=", " ">> \o getExprString(closed, RHS)
                 \o <<";">>
      new     == IF NeedParen
                 THEN <<"{", "\n">> \o inner \o assign \o NewLine(inner)
                 ELSE assign \o NewLine(indent)
  IN InsertText(closed, S.begin, new, FALSE)

indentAfterNewLine(str, indent) ==
  FlattenSeq([i \in DOMAIN str |->
                IF str[i] = "\n" THEN NewLine(indent) ELSE <<str[i]>>])
  \o NewLine(indent)
addStringBeforeStmtInternal(rw, S, str, indent, NeedParen) ==
  LET opening == IF NeedParen THEN <<"{", "\n">> ELSE <<>> IN
    InsertText(rw, S.begin,
               indentAfterNewLine(opening \o str \o <<"\n">>, indent), FALSE)
addStringBeforeStmt(rw, S, str, NeedParen) ==
  LET indent == getStmtIndentString(S)
      closed == IF NeedParen THEN addOpenParenBeforeStmt(rw, S, indent) ELSE rw
  IN addStringBeforeStmtInternal(closed, S, str, indent, NeedParen)

\* From the end to the beginning: the locations of later edits stay good.
addStringBeforeStmtAndReplaceExpr(rw, S, str, E, ES, NeedParen) ==
  LET indent == getStmtIndentString(S)
      closed == IF NeedParen THEN addOpenParenBeforeStmt(rw, S, indent) ELSE rw
  IN addStringBeforeStmtInternal(replaceExpr(closed, E, ES), S, str, indent,
                                 NeedParen)

addStringAfterStmt(rw, S, str) ==
  InsertText(rw, getEndLocationFromBegin(rw, S),
             NewLine(getStmtIndentString(S)) \o str, TRUE)
\* addStringAfterVarDecl and addStringAfterFuncDecl.
addStringAfterDecl(rw, D, str) ==
  InsertText(rw, getEndLocationAfter(rw, D, ";"), <<"\n">> \o str, TRUE)

\* A template is inserted before as a whole.
insertStringBeforeFunc(rw, FD, str) ==
  InsertTextBefore(rw, IF FD.template = 0 THEN FD.begin ELSE FD.template, str)
insertStringBeforeTemplateDecl(rw, D, str) == InsertTextBefore(rw, D.begin, str)
-----------------------------------------------------------------------------
(***************************************************************************)
(* Names.  A name is one piece; a specifier is a name and its "::".        *)
(***************************************************************************)
\* replaceNamedDeclName, replaceVarDeclName, replaceRecordDeclName and, for a
\* function, replaceFunctionDeclName, which drops the template arguments that
\* the name of a constructor comes with.
replaceNamedDeclName(rw, ND, name) == ReplaceText(rw, ND.name, 1, name)
\* "~", blanks and the name.
replaceCXXDestructorDeclName(rw, D, name) ==
  LET class == FirstAt(D.name + 1, LAMBDA c : c \notin Blanks) IN
    ReplaceText(rw, D.name, class - D.name + 1, <<"~">> \o name)
replaceVarTypeName(rw, VD, name) ==
  ReplaceText(rw, getVarDeclTypeLocBegin(VD), 1, name)
replaceValueDecl(rw, VD, str) ==
  ReplaceText(rw, VD.begin, getRangeSize(rw, VD.begin, VD.end), str)
replaceFunctionDefWithStr(rw, FD, str) ==
  ReplaceRange(rw, FD.body.begin, FD.body.end, str)
replaceRecordType(rw, RTLoc, name) ==
  IF ~RTLoc.named \/ RTLoc.begin = 0 THEN rw
                                     ELSE ReplaceText(rw, RTLoc.begin, 1, name)

\* The first "union" of a declaration, if it has one.
replaceUnionWithStruct(rw, ND) ==
  LET union == SelectInSeq(StringOf(rw, ND), LAMBDA c : c = "union") IN
    IF union = 0 THEN rw
    ELSE ReplaceText(rw, ND.begin + union - 1, 1, <<"struct">>)

\* A call of a destructor by its name, which is not the first token.
replaceCXXDtorCallExpr(rw, CE, name) ==
  LET dtor == SelectInSeq(StringOf(rw, CE), LAMBDA c : c = "~") IN
    IF ~CE.destructor \/ dtor = 1 THEN rw
    ELSE ReplaceText(rw, CE.begin + dtor - 1, 2, <<"~">> \o name)

removeSpecifier(rw, Loc) == RemoveRange(rw, Loc.begin, Loc.end)
replaceSpecifier(rw, Loc, name) ==
  ReplaceRange(rw, Loc.begin, Loc.end, name \o <<"::">>)
getQualifierAsString(rw, Loc) == StringOf(rw, Loc)
getSpecifierAsString(Loc) ==
  CharRange(Loc.begin,
            FirstAt(Loc.begin, LAMBDA c : c \in Blanks \cup {"::"}))
replaceCXXMethodNameAfterQualifier(rw, Qual, name) ==
  ReplaceText(rw, FirstAt(Qual.end, LAMBDA c : c \notin Blanks \cup {"::"}), 1,
              name)
=============================================================================
