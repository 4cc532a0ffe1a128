---------------------------- MODULE StringUtils ----------------------------
(***************************************************************************)
(* String functions of src/src/utils/StringUtils.cc, on sequences of       *)
(* characters or of tokens.  The passes call placeholder only.  The other  *)
(* two leave what they return in their argument s as well.                 *)
(***************************************************************************)
EXTENDS Integers, Sequences

Occurrences(s, what) ==
  {i \in 1 .. Len(s) - Len(what) + 1 :
     SubSeq(s, i, i + Len(what) - 1) = what}

ReplaceOne(s, at, toReplace, replaceWith) ==
  SubSeq(s, 1, at - 1) \o replaceWith \o SubSeq(s, at + Len(toReplace), Len(s))
replaceFirst(s, toReplace, replaceWith) ==
  LET found == Occurrences(s, toReplace) IN
    IF found = {} THEN s
    ELSE ReplaceOne(s, CHOOSE i \in found : \A j \in found : i <= j,
                    toReplace, replaceWith)
replaceLast(s, toReplace, replaceWith) ==
  LET found == Occurrences(s, toReplace) IN
    IF found = {} THEN s
    ELSE ReplaceOne(s, CHOOSE i \in found : \A j \in found : j <= i,
                    toReplace, replaceWith)

\* Blanks instead of the text, as long, with its line breaks.
placeholder(str) == [i \in DOMAIN str |-> IF str[i] = "\n" THEN "\n" ELSE " "]
=============================================================================
