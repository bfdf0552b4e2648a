------------------------------- MODULE RTree -------------------------------
(***************************************************************************)
(* The syntax tree the parser's events become: what the factory makes of   *)
(* each node, and what the readers of the tree, the formatter above all,   *)
(* find in it.  The parser is written by hand; the factory and the typed   *)
(* nodes are generated from a grammar file the parser never sees, so that  *)
(* nothing but this agreement lets a text without errors be formatted.     *)
(***************************************************************************)
EXTENDS RParserTree, RFactory

\* The kinds of value parse_value tells apart and RSyntax does not, each with its
\* token.
ValuesAlike ==
  [R_DOUBLE_VALUE    |-> [R_DOUBLE_VALUE    |-> "R_DOUBLE_LITERAL",
                          R_INTEGER_VALUE   |-> "R_INTEGER_LITERAL",
                          R_COMPLEX_VALUE   |-> "R_COMPLEX_LITERAL"],
   R_TRUE_EXPRESSION |-> [R_TRUE_EXPRESSION |-> "TRUE_KW",  R_FALSE_EXPRESSION |-> "FALSE_KW",
                          R_INF_EXPRESSION  |-> "INF_KW",   R_NAN_EXPRESSION   |-> "NAN_KW",
                          R_NA_EXPRESSION   |-> "NA_KW"],
   R_NEXT_EXPRESSION |-> [R_NEXT_EXPRESSION |-> "NEXT_KW",  R_BREAK_EXPRESSION |-> "BREAK_KW"]]

NodesAlike(kind) == IF kind \in DOMAIN ValuesAlike THEN DOMAIN ValuesAlike[kind] ELSE {kind}

\* The kind token i has in a node: bump_remap makes keywords of names and names of
\* keywords, and the close of `[[' is one token.
TokenIn(n, i) ==
  CASE n.kind = "R_ELSE_CLAUSE" /\ text[i].kind = "IDENT_else" -> "ELSE_KW"
    [] n.kind = "R_FOR_STATEMENT" /\ text[i].kind = "IDENT_in" -> "IN_KW"
    [] n.kind = "R_IDENTIFIER"                                 -> "IDENT"
    [] n.kind = "R_SUBSET2_ARGUMENTS" /\ i = n.last            -> "R_BRACK2"
    [] OTHER                                                   -> text[i].kind

\* Nodes that span the same tokens are nested by their rank.
RankOfKind(kind) ==
  CASE kind = "R_ROOT"                        -> 3
    [] kind \in DOMAIN ListItems              -> 2
    [] kind \in {"R_ARGUMENT", "R_PARAMETER"} -> 1
    [] OTHER                                  -> 0

Inside(m, n) ==
  /\ n.first <= m.first /\ m.last <= n.last
  /\ n.first = m.first /\ m.last = n.last => RankOfKind(m.kind) < RankOfKind(n.kind)

Outermost(some) == CHOOSE n \in some : \A m \in some : m = n \/ Inside(m, n)

\* The children of a node in their order; the tree sink adds the EOF to the root.
Children(n) ==
  LET inside     == {m \in nodes : Inside(m, n)}
      outer(some) == IF some = {} THEN <<>> ELSE <<NodesAlike(Outermost(some).kind)>>
      glued(i)   == n.kind = "R_SUBSET2_ARGUMENTS" /\ i = n.last - 1
      token(i)   == IF i > n.last \/ glued(i) THEN <<>> ELSE <<{TokenIn(n, i)}>>
      from[i \in n.first .. n.last + 2] ==
        LET starting == {m \in inside : m.first = i}
            full     == {m \in starting : m.last >= i}
            empty    == {m \in starting \ full : \A k \in inside : ~Inside(m, k)}
        IN  IF i > n.last + 1 THEN <<>>
            ELSE IF full # {} THEN outer(full) \o from[Outermost(full).last + 1]
            ELSE outer(empty) \o token(i) \o from[i + 1]
  IN  from[n.first] \o IF n.kind = "R_ROOT" THEN <<{"EOF"}>> ELSE <<>>

\* What is made of a value of any of the kinds that are alike.
ValueFits(kind) ==
  \A alike \in NodesAlike(kind) :
    LET children == <<{ValuesAlike[kind][alike]}>> IN
    /\ Fits(alike, children)
    /\ \A part \in DOMAIN Accessors[alike] : Finds(Accessors[alike][part], children)

\* The selector of `$', `@', `::' and `:::' may be missing, although the grammar
\* file has it as a required part.
MayBeMissing(kind, part) ==
  kind \in {"R_EXTRACT_EXPRESSION", "R_NAMESPACE_EXPRESSION"} /\ part = "right"

\* In a text without errors the factory accepts every node as the kind the parser
\* gave it, and every reader of a node finds in it all that it requires, and all of
\* its children.
NodesFitTheirSlots ==
  Done /\ diagnostics = <<>> =>
    \A n \in nodes :
      LET children == Children(n) IN
      IF n.kind \in DOMAIN ValuesAlike THEN ValueFits(n.kind)
      ELSE /\ Fits(n.kind, children)
           /\ n.kind \notin DOMAIN ListItems =>
                LET parts     == SlotsFilled(Slots[n.kind], children).parts
                    accessors == Accessors[n.kind]
                    found     == {p \in DOMAIN accessors : Finds(accessors[p], parts)}
                IN  /\ Cardinality(found) = Len(children)
                    /\ \A p \in DOMAIN accessors \ found :
                         accessors[p].required => MayBeMissing(n.kind, p)

=============================================================================
