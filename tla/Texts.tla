------------------------------- MODULE Texts -------------------------------
(***************************************************************************)
(* Texts as the language server and the editor see them: line endings      *)
(* (crates/line_ending), positions of lines and columns and the offsets    *)
(* they stand for (aether_lsp_utils/src/proto), and the edits a diff gives *)
(* rise to (diff.rs, text_edit.rs).                                        *)
(*                                                                         *)
(* A character is "a", which is one unit in every encoding, "e", which is  *)
(* two bytes but one unit of UTF-16, or half of a line break.  An offset   *)
(* of a text is a number of bytes in the server, and here the number of    *)
(* characters before it wherever the text is that the offset was taken in. *)
(***************************************************************************)
EXTENDS Integers, FiniteSets, SequencesExt

LF == "LF"
CR == "CR"
WideChar == "e"

Char == {"a", WideChar, LF, CR}

-----------------------------------------------------------------------------
(* Line endings *)

CarriageAt(text, i) == text[i] = CR /\ i < Len(text) /\ text[i + 1] = LF

Infer(text) == IF \E i \in DOMAIN text : CarriageAt(text, i) THEN "Crlf" ELSE "Lf"

Normalize(text) ==
  FlattenSeq([i \in DOMAIN text |-> IF CarriageAt(text, i) THEN <<>> ELSE <<text[i]>>])

\* insert.replace('\n', "\r\n")
Carriaged(text) ==
  FlattenSeq([i \in DOMAIN text |-> IF text[i] = LF THEN <<CR, LF>> ELSE <<text[i]>>])

WithEndings(text, endings) == IF endings = "Crlf" THEN Carriaged(text) ELSE text

-----------------------------------------------------------------------------
(* Positions.  A text of n line breaks has lines 0 .. n. *)

LineAt(text, offset) == Cardinality({i \in 1 .. offset : text[i] = LF})

LineStart(text, line) ==
  CHOOSE n \in 0 .. Len(text) : LineAt(text, n) = line /\ (n = 0 \/ text[n] = LF)

\* The characters i of the text with from < i <= to, in the units of an encoding.
WideIn(text, from, to) == Cardinality({i \in from + 1 .. to : text[i] = WideChar})

Units(text, from, to, encoding) ==
  to - from + IF encoding = "Utf8" THEN WideIn(text, from, to) ELSE 0

Bytes(text, to) == Units(text, 0, to, "Utf8")

PositionAt(text, offset, encoding) ==
  LET line == LineAt(text, offset)
  IN  [line |-> line, col |-> Units(text, LineStart(text, line), offset, encoding)]

NoOffset == -1

\* The column in bytes of a position in UTF-16: each wide character before it adds one.
ByteColumn(text, pos, encoding) ==
  LET start == LineStart(text, pos.line)
      end   == IF start + pos.col < Len(text) THEN start + pos.col ELSE Len(text)
  IN  pos.col + IF encoding = "Utf8" THEN 0 ELSE WideIn(text, start, end)

\* The offset in bytes of a position, by the line index of a text.
OffsetIn(index, pos, encoding) ==
  IF pos.line > LineAt(index, Len(index)) THEN NoOffset
  ELSE Bytes(index, LineStart(index, pos.line)) + ByteColumn(index, pos, encoding)

\* The characters before an offset in bytes, if it is between two characters.
CharsBefore(text, offset) ==
  IF \E n \in 0 .. Len(text) : Bytes(text, n) = offset
  THEN CHOOSE n \in 0 .. Len(text) : Bytes(text, n) = offset
  ELSE NoOffset

Replaced(text, from, to, insert) ==
  SubSeq(text, 1, from) \o insert \o SubSeq(text, to + 1, Len(text))

-----------------------------------------------------------------------------
(* Edits *)

\* A diff keeps some of the characters, in their order: keep[i] is where the i-th one is on
\* the right.  It need not keep as many as it could, nor those that both texts start or end
\* with: the library slides its edits over equal characters.
Diffs(left, right) ==
  {keep \in UNION {[kept -> DOMAIN right] : kept \in SUBSET DOMAIN left} :
     /\ \A i \in DOMAIN keep : right[keep[i]] = left[i]
     /\ \A i, j \in DOMAIN keep : i < j => keep[i] < keep[j]}

\* Where the characters that are kept are on the right, with a start and an end.
Anchors(left, right, keep) ==
  [i \in DOMAIN keep \cup {0, Len(left) + 1} |->
     IF i = 0 THEN 0 ELSE IF i > Len(left) THEN Len(right) + 1 ELSE keep[i]]

NextAnchor(on, i) == CHOOSE j \in DOMAIN on : j > i /\ \A k \in DOMAIN on : k > i => j <= k

\* Between two neighbours that are kept, all of the left goes for all of the right.
Gap(right, on, i) ==
  LET next == NextAnchor(on, i)
  IN  [from |-> i, to |-> next - 1, insert |-> SubSeq(right, on[i] + 1, on[next] - 1)]

Push(gaps, gap) ==
  IF gap.from < gap.to \/ gap.insert # <<>> THEN Append(gaps, gap) ELSE gaps

Indels(left, right, keep) ==
  LET on == Anchors(left, right, keep)
  IN  FoldLeft(LAMBDA gaps, i : IF i \in DOMAIN on THEN Push(gaps, Gap(right, on, i)) ELSE gaps,
               <<>>, [n \in 1 .. Len(left) + 1 |-> n - 1])

TextEdits(text, indels, encoding, endings) ==
  [i \in DOMAIN indels |->
     [range |-> <<PositionAt(text, indels[i].from, encoding),
                  PositionAt(text, indels[i].to, encoding)>>,
      text  |-> WithEndings(indels[i].insert, endings)]]

-----------------------------------------------------------------------------
(* apply_text_changes: a change without a range replaces the whole text *)

WholeText == <<>>
NoLine == 1000   \* u32::MAX: above every line

\* Mutant: a change that ends in the line of the last one does not rebuild the index.
LineIndexKept(state, change) ==
  IF change.range[2].line > state.last THEN state.contents ELSE state.index

\* The line index is rebuilt if the change ends at or after the start of the last one.
LineIndex(state, change) ==
  IF change.range[2].line >= state.last THEN state.contents ELSE state.index

\* Mutant: inserted text keeps its carriage returns.
ApplyRangeRaw(state, change, encoding) ==
  LET index == LineIndex(state, change)
      from  == CharsBefore(state.contents, OffsetIn(index, change.range[1], encoding))
      to    == CharsBefore(state.contents, OffsetIn(index, change.range[2], encoding))
  IN  IF from = NoOffset \/ to = NoOffset \/ to < from \/ state.panicked
      THEN [state EXCEPT !.panicked = TRUE]
      ELSE [state EXCEPT !.index = index, !.last = change.range[1].line,
                         !.contents = Replaced(@, from, to, change.text)]

ApplyRange(state, change, encoding) ==
  LET index == LineIndex(state, change)
      from  == CharsBefore(state.contents, OffsetIn(index, change.range[1], encoding))
      to    == CharsBefore(state.contents, OffsetIn(index, change.range[2], encoding))
  IN  IF from = NoOffset \/ to = NoOffset \/ to < from \/ state.panicked
      THEN [state EXCEPT !.panicked = TRUE]
      ELSE [state EXCEPT !.index = index, !.last = change.range[1].line,
                         !.contents = Replaced(@, from, to, Normalize(change.text))]

ApplyTextChanges(contents, index, changes, encoding) ==
  LET whole == {i \in DOMAIN changes : changes[i].range = WholeText}
      base  == IF whole = {} THEN 0 ELSE CHOOSE i \in whole : \A j \in whole : j <= i
      state == [contents |-> contents, index |-> index, last |-> NoLine, panicked |-> FALSE]
      start == IF base = 0 THEN state
               ELSE [state EXCEPT !.contents = Normalize(changes[base].text), !.last = 0]
  IN  FoldLeft(LAMBDA old, change : ApplyRange(old, change, encoding), start,
               SubSeq(changes, base + 1, Len(changes)))

=============================================================================
