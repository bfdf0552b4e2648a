----------------------------- MODULE RSourceTree -----------------------------
(***************************************************************************)
(* The text the formatter is given, read: a tree and the trivia between    *)
(* its tokens, and the questions the formatter asks of them.               *)
(*                                                                         *)
(* The elements of the tree, nodes and tokens, are numbered in the order   *)
(* in which a walk enters them, 1 being the root; 0 is no element.  Tokens *)
(* are numbered from left to right as well, and gaps[i] is the trivia      *)
(* between token i - 1 and token i.                                        *)
(***************************************************************************)
EXTENDS RNodes, Integers, FiniteSets, Sequences, SequencesExt

VARIABLES
  tree,   \* the elements: kind, parent, parts and, as numbers of tokens, first and last
  gaps    \* before each token: the comment that ends the line of the previous
          \* token, the line breaks that follow, the comments on lines of their own and
          \* after each of these the line breaks

-----------------------------------------------------------------------------
(* A tree is written down as nested parts and laid out as elements. *)

Token(kind)       == [kind |-> kind, token |-> TRUE, parts |-> <<>>]
Node(kind, parts) == [kind |-> kind, token |-> FALSE, parts |-> parts]
Absent            == Token("ABSENT")

TokensOf(elements) == Cardinality({n \in DOMAIN elements : elements[n].token})

RECURSIVE LaidOut(_, _, _)
LaidOut(part, parent, before) ==
  LET n     == Len(before) + 1
      count == TokensOf(before)
      own   == [kind |-> part.kind, token |-> part.token, parent |-> parent, parts |-> <<>>,
                first |-> count + 1, last |-> IF part.token THEN count + 1 ELSE count]
      with(laid, child) ==
        IF child = Absent THEN [laid EXCEPT ![n].parts = Append(@, 0)]
        ELSE LET all == LaidOut(child, n, laid)
             IN  [all EXCEPT ![n].parts = Append(@, Len(laid) + 1), ![n].last = TokensOf(all)]
  IN  FoldLeft(with, Append(before, own), part.parts)

Elements(text) == LaidOut(text, 0, <<>>)

-----------------------------------------------------------------------------
(* Navigation *)

Lists == {"R_EXPRESSION_LIST", "R_ARGUMENT_LIST", "R_PARAMETER_LIST"}

Kind(n)    == IF n = 0 THEN "NONE" ELSE tree[n].kind
Nodes      == {n \in DOMAIN tree : ~tree[n].token /\ Kind(n) \notin Lists}
TokenAt(i) == CHOOSE n \in DOMAIN tree : tree[n].token /\ tree[n].first = i
IsEmpty(n) == tree[n].first > tree[n].last

\* The part that the accessor of this name hands out.
Part(n, name) == tree[n].parts[Accessors[Kind(n)][name].slot]

RECURSIVE Ancestors(_)
Ancestors(n) == IF n = 0 THEN {} ELSE {n} \cup Ancestors(tree[n].parent)

\* The elements of a separated list, each with the separator that follows it.
Separated(list) ==
  LET parts == tree[list].parts
  IN  [i \in 1 .. (Len(parts) + 1) \div 2 |->
         [node |-> parts[2 * i - 1],
          separator |-> IF 2 * i > Len(parts) THEN 0 ELSE parts[2 * i]]]

IsHole(n) == Kind(n) = "R_ARGUMENT" /\ Part(n, "name_clause") = 0 /\ Part(n, "value") = 0

-----------------------------------------------------------------------------
(* Trivia.  A comment that ends a line is trivia of the token before it, a *)
(* line break and a comment on a line of its own of the token after it.    *)

LinesBeforeToken(i) == gaps[i].lines
LinesBefore(n)      == IF IsEmpty(n) THEN 0 ELSE LinesBeforeToken(tree[n].first)

HasLeadingComments(i)  == gaps[i].own # <<>>
HasTrailingComments(i) == i < Len(gaps) /\ gaps[i + 1].eol # <<>>
HasLeadingNewline(n)   == LinesBefore(n) > 0 \/ HasLeadingComments(tree[n].first)
HasCommentsDirect(n)   == HasLeadingComments(tree[n].first) \/ HasTrailingComments(tree[n].last)

=============================================================================
