------------------------------ MODULE RDocument ------------------------------
(***************************************************************************)
(* Documents and their printer: the part of biome_formatter that           *)
(* crates/air_r_formatter builds on.  A document is a sequence of          *)
(* elements; the printer decides which of its groups fit on a line and     *)
(* turns it into the items of a text: tokens, comments, spaces, line       *)
(* breaks and, at the start of a line, its indentation.  This module has   *)
(* no state.                                                               *)
(***************************************************************************)
EXTENDS Integers, Sequences, FiniteSets

-----------------------------------------------------------------------------
(* Elements *)

Text(item)            == <<[tag |-> "text", item |-> item]>>
Space                 == <<[tag |-> "space"]>>
SoftLine              == <<[tag |-> "line", mode |-> "soft"]>>
SoftLineOrSpace       == <<[tag |-> "line", mode |-> "soft_or_space"]>>
HardLine              == <<[tag |-> "line", mode |-> "hard"]>>
EmptyLine             == <<[tag |-> "line", mode |-> "empty"]>>
ExpandParent          == <<[tag |-> "expand"]>>
Indent(content)       == <<[tag |-> "indent", content |-> content]>>
Group(content, expand) == <<[tag |-> "group", content |-> content, expand |-> expand]>>
IfGroupBreaks(content) == <<[tag |-> "if_breaks", content |-> content]>>
LineSuffix(content)   == <<[tag |-> "suffix", content |-> content]>>
BestFitting(variants) == <<[tag |-> "best_fitting", variants |-> variants]>>

\* Text of the source, with the line breaks in it.
Verbatim(items) == <<[tag |-> "verbatim", items |-> items]>>

LineBreak == [kind |-> "NEWLINE"]
Blank     == [kind |-> "SPACE"]

BlockIndent(content) == Indent(HardLine \o content) \o HardLine
SoftBlockIndent(content) ==
  IF content = <<>> THEN <<>> ELSE Indent(SoftLine \o content) \o SoftLine
SoftSpaceOrBlockIndent(content) ==
  IF content = <<>> THEN <<>> ELSE Indent(SoftLineOrSpace \o content) \o SoftLineOrSpace

RECURSIVE Joined(_, _)
Joined(documents, separator) ==
  CASE documents = <<>>     -> <<>>
    [] Len(documents) = 1   -> documents[1]
    [] OTHER -> documents[1] \o separator \o Joined(Tail(documents), separator)

-----------------------------------------------------------------------------
(* Forced line breaks *)

HasLineBreak(items) == \E i \in DOMAIN items : items[i].kind = "NEWLINE"

\* propagate_expand: does the content force the groups around it to expand?
RECURSIVE Expands(_)
Expands(document) ==
  \E i \in DOMAIN document :
    LET e == document[i] IN
    CASE e.tag = "line"     -> e.mode \in {"hard", "empty"}
      [] e.tag = "expand"   -> TRUE
      [] e.tag = "verbatim" -> HasLineBreak(e.items)
      [] e.tag = "group"    -> e.expand \/ Expands(e.content)
      [] e.tag \in {"indent", "if_breaks", "suffix"} -> Expands(e.content)
      [] OTHER              -> FALSE

\* will_break: does the document itself break, whatever the width?
RECURSIVE WillBreak(_)
WillBreak(document) ==
  \E i \in DOMAIN document :
    LET e == document[i] IN
    CASE e.tag = "line"     -> e.mode \in {"hard", "empty"}
      [] e.tag = "expand"   -> TRUE
      [] e.tag = "verbatim" -> HasLineBreak(e.items)
      [] e.tag = "group"    -> e.expand \/ WillBreak(e.content)
      [] e.tag \in {"indent", "if_breaks"} -> WillBreak(e.content)
      [] e.tag = "best_fitting" -> WillBreak(e.variants[1])
      [] OTHER              -> FALSE

\* RemoveSoftLinesBuffer
RECURSIVE WithoutSoftLines(_)
WithoutSoftLines(document) ==
  IF document = <<>> THEN <<>>
  ELSE LET e    == document[1]
           rest == WithoutSoftLines(Tail(document))
       IN  CASE e.tag = "line" /\ e.mode = "soft"          -> rest
             [] e.tag = "line" /\ e.mode = "soft_or_space" -> Space \o rest
             [] e.tag = "if_breaks"                        -> rest
             [] e.tag \in {"indent", "group", "suffix"} ->
                  <<[e EXCEPT !.content = WithoutSoftLines(@)]>> \o rest
             [] OTHER -> <<e>> \o rest

-----------------------------------------------------------------------------
(* The printer.  Its queue holds elements with the mode, flat or expanded, *)
(* and the indentation they are printed with.                              *)

Queued(document, flat, indent) ==
  [i \in DOMAIN document |-> [e |-> document[i], flat |-> flat, indent |-> indent]]

GroupIsFlat(e, flat) == flat /\ ~e.expand /\ ~Expands(e.content)

\* Does what is queued fit on the line, up to the first line break?
RECURSIVE Fits(_, _, _, _)
Fits(queue, width, column, space) ==
  IF column > width THEN FALSE
  ELSE IF queue = <<>> THEN TRUE
  ELSE
    LET top  == queue[1]
        e    == top.e
        rest == Tail(queue)
        skip == Fits(rest, width, column, space)
        go(content, flat) == Fits(Queued(content, flat, 0) \o rest, width, column, space)
        gap  == IF space /\ column > 0 THEN 1 ELSE 0
    IN
    CASE e.tag = "text"  -> Fits(rest, width, column + gap + 1, FALSE)
      [] e.tag = "space" -> Fits(rest, width, column, TRUE)
      [] e.tag = "line"  ->
           IF ~top.flat \/ e.mode \in {"hard", "empty"} THEN TRUE
           ELSE Fits(rest, width, column, space \/ e.mode = "soft_or_space")
      [] e.tag = "verbatim" ->
           LET breaks == {i \in DOMAIN e.items : e.items[i].kind = "NEWLINE"}
               first  == IF breaks = {} THEN Len(e.items)
                         ELSE (CHOOSE i \in breaks : \A j \in breaks : i <= j) - 1
           IN  IF breaks = {} THEN Fits(rest, width, column + gap + first, FALSE)
               ELSE column + gap + first <= width
      [] e.tag = "indent"    -> go(e.content, top.flat)
      [] e.tag = "group"     -> go(e.content, GroupIsFlat(e, top.flat))
      [] e.tag = "if_breaks" -> IF top.flat THEN skip ELSE go(e.content, FALSE)
      [] e.tag = "best_fitting" ->
           go(e.variants[IF top.flat THEN 1 ELSE Len(e.variants)], top.flat)
      [] OTHER -> skip

\* What the printer knows: the items printed, the column, the indentation and the
\* space that are due before the next text, the comments that wait for the end of
\* the line, and whether a group that fits was measured on this line.
Fresh == [items |-> <<>>, column |-> 0, indent |-> 0, space |-> FALSE,
           suffixes |-> <<>>, measured |-> FALSE, empty |-> FALSE]

INDENT_WIDTH == 2

\* A text after the indentation or the space that is due.
WithText(p, item) ==
  LET indented == p.column = 0 /\ p.indent > 0
      spaced   == p.column > 0 /\ p.space
      before   == CASE indented -> <<[kind |-> "INDENT", by |-> p.indent]>>
                    [] spaced   -> <<Blank>>
                    [] OTHER    -> <<>>
      width    == CASE indented -> INDENT_WIDTH * p.indent [] spaced -> 1 [] OTHER -> 0
  IN  [p EXCEPT !.items = @ \o before \o <<item>>, !.column = @ + width + 1,
                !.indent = 0, !.space = FALSE, !.empty = FALSE]

WithLineBreak(p) ==
  [p EXCEPT !.items = Append(@, LineBreak), !.column = 0, !.measured = FALSE]

\* No line break where the line is empty, and never two empty lines.
WithLine(p, mode, indent) ==
  LET ended == IF p.column > 0 THEN WithLineBreak(p) ELSE p
      empty == IF mode = "empty" /\ ~p.empty
               THEN [WithLineBreak(ended) EXCEPT !.empty = TRUE] ELSE ended
  IN  [empty EXCEPT !.indent = indent, !.space = FALSE]

RECURSIVE WithVerbatim(_, _)
WithVerbatim(p, items) ==
  IF items = <<>> THEN p
  ELSE WithVerbatim(IF items[1].kind = "NEWLINE" THEN WithLineBreak(p) ELSE WithText(p, items[1]),
                    Tail(items))

RECURSIVE Printing(_, _, _)
Printing(queue, width, p) ==
  IF queue = <<>> THEN
    IF p.suffixes = <<>> THEN p.items ELSE Printing(p.suffixes, width, [p EXCEPT !.suffixes = <<>>])
  ELSE
    LET top  == queue[1]
        e    == top.e
        rest == Tail(queue)
        now(q)           == Printing(rest, width, q)
        go(content, flat, indent, q) == Printing(Queued(content, flat, indent) \o rest, width, q)
        measured         == [p EXCEPT !.measured = TRUE]
        fits(content)    == Fits(Queued(content, TRUE, top.indent) \o rest, width,
                                 IF p.column = 0 THEN INDENT_WIDTH * p.indent ELSE p.column,
                                 p.space)
    IN
    CASE e.tag = "text"     -> now(WithText(p, e.item))
      [] e.tag = "verbatim" -> now(WithVerbatim(p, e.items))
      [] e.tag = "space"    -> now([p EXCEPT !.space = @ \/ p.column > 0])
      [] e.tag = "line" /\ top.flat /\ e.mode \in {"soft", "soft_or_space"} ->
           now([p EXCEPT !.space = @ \/ (e.mode = "soft_or_space" /\ p.column > 0)])
      [] e.tag = "line" /\ p.suffixes # <<>> /\ ~(top.flat /\ e.mode \in {"soft", "soft_or_space"}) ->
           Printing(p.suffixes \o queue, width, [p EXCEPT !.suffixes = <<>>])
      [] e.tag = "line" /\ p.suffixes = <<>> /\ ~(top.flat /\ e.mode \in {"soft", "soft_or_space"}) ->
           now(WithLine(p, e.mode, top.indent))
      [] e.tag = "indent"    -> go(e.content, top.flat, top.indent + 1, p)
      [] e.tag = "if_breaks" -> IF top.flat THEN now(p) ELSE go(e.content, FALSE, top.indent, p)
      [] e.tag = "suffix"    ->
           now([p EXCEPT !.suffixes = @ \o Queued(e.content, top.flat, top.indent)])
      [] e.tag = "group" ->
           CASE e.expand \/ Expands(e.content) -> go(e.content, FALSE, top.indent, p)
             [] top.flat /\ p.measured         -> go(e.content, TRUE, top.indent, p)
             [] OTHER -> go(e.content, fits(e.content), top.indent, measured)
      [] e.tag = "best_fitting" ->
           LET count   == Len(e.variants)
               fitting == {k \in 1 .. count - 1 : fits(e.variants[k])}
               best    == CHOOSE k \in fitting : \A j \in fitting : k <= j
           IN  CASE top.flat /\ p.measured -> go(e.variants[1], TRUE, top.indent, p)
                 [] ~(top.flat /\ p.measured) /\ fitting # {} ->
                      go(e.variants[best], TRUE, top.indent, measured)
                 [] OTHER -> go(e.variants[count], FALSE, top.indent, measured)
      [] OTHER -> now(p)

Printed(document, width) == Printing(Queued(document, FALSE, 0), width, Fresh)

=============================================================================
