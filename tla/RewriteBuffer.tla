---------------------------- MODULE RewriteBuffer ----------------------------
(***************************************************************************)
(* The rewriter that RewriteUtils and the passes edit the text with: the   *)
(* Rewriter, RewriteBuffer and Lexer of the clang library, as far as the   *)
(* code here depends on them.                                              *)
(*                                                                         *)
(* A text is a sequence of pieces: a token, a comment or a blank character *)
(* each.  A location is a position in the text as it was parsed, 0 when it *)
(* is not valid; edits are given at such locations, and the buffer finds   *)
(* its own place for them by the deltas of the earlier edits.  There are   *)
(* no macros: the input is preprocessed, as RewriteUtils needs it to be    *)
(* for what it does on the pieces.                                         *)
(***************************************************************************)
EXTENDS Integers, Sequences, SequencesExt

VARIABLES
  text,       \* the file as it was parsed
  rewriter    \* [buf: the edited text, deltas: what each edit moved]

Blanks == {" ", "\n"}
Fresh(t) == [buf |-> t, deltas |-> <<>>]

\* Lexer::MeasureTokenLength: no token begins at a blank or at the end.
TokenAt(loc) == loc \in DOMAIN text /\ text[loc] \notin Blanks
MeasureTokenLength(loc) == IF TokenAt(loc) THEN 1 ELSE 0

\* getMappedOffset: the place in the buffer of a location, with the texts
\* inserted there (1) or without them (0).
getMappedOffset(rw, loc, inserts) ==
  LET Moved(sum, d) == IF d.at < 2 * loc + inserts THEN sum + d.size ELSE sum
  IN FoldLeft(Moved, loc, rw.deltas)

\* getRangeSize of a token range; atBegin: IncludeInsertsAtBeginOfRange.
RangeSize(rw, begin, end, atBegin) ==
  getMappedOffset(rw, end, 1) + MeasureTokenLength(end)
  - getMappedOffset(rw, begin, IF atBegin THEN 0 ELSE 1)
getRangeSize(rw, begin, end) == RangeSize(rw, begin, end, TRUE)

Splice(buf, at, size, new) ==
  SubSeq(buf, 1, at - 1) \o new \o SubSeq(buf, at + size, Len(buf))

\* RewriteBuffer::ReplaceText, RemoveText and InsertText.
ReplaceText(rw, loc, size, new) ==
  [buf    |-> Splice(rw.buf, getMappedOffset(rw, loc, 1), size, new),
   deltas |-> IF Len(new) = size THEN rw.deltas
              ELSE Append(rw.deltas, [at |-> 2 * loc + 1,
                                      size |-> Len(new) - size])]
RemoveText(rw, loc, size) == ReplaceText(rw, loc, size, <<>>)
InsertText(rw, loc, new, after) ==
  [buf    |-> Splice(rw.buf,
                     getMappedOffset(rw, loc, IF after THEN 1 ELSE 0), 0, new),
   deltas |-> Append(rw.deltas, [at |-> 2 * loc, size |-> Len(new)])]

\* The overloads of Rewriter for a range of tokens, and the insertions.
ReplaceRange(rw, begin, end, new) ==
  ReplaceText(rw, begin, getRangeSize(rw, begin, end), new)
RemoveRange(rw, begin, end) == ReplaceRange(rw, begin, end, <<>>)
InsertTextBefore(rw, loc, new) == InsertText(rw, loc, new, FALSE)
InsertTextAfterToken(rw, loc, new) ==
  InsertText(rw, loc + RangeSize(rw, loc, loc, FALSE), new, FALSE)

\* Lexer::getSourceText of a range of characters: the end is not part of it.
CharRange(begin, end) == SubSeq(text, begin, end - 1)

Tokens(t) == SelectSeq(t, LAMBDA piece : piece \notin Blanks)
=============================================================================
