------------------------------ MODULE RComments ------------------------------
(***************************************************************************)
(* Where the formatter attaches the comments:                              *)
(* crates/air_r_formatter/src/comments.rs.  The walk over the tree and the *)
(* placement of a comment that no handler claims are biome_formatter's;    *)
(* the handlers are air's.                                                 *)
(***************************************************************************)
EXTENDS RSourceTree

VARIABLE placed  \* the comments placed so far, in the order of the text

-----------------------------------------------------------------------------
(* The comments of the text, and what surrounds them *)

\* The comments before token i, each with the line breaks around it.
CommentsBefore(i) ==
  LET gap == gaps[i]
      comment(c, position, before, after) ==
        [name |-> c.name, directive |-> c.directive, gap |-> i, position |-> position,
         lines_before |-> before, lines_after |-> after]
  IN  [k \in DOMAIN gap.eol |-> comment(gap.eol[k], "EndOfLine", 0, gap.lines)] \o
      [k \in DOMAIN gap.own |->
             comment(gap.own[k], "OwnLine", IF k = 1 THEN gap.lines ELSE gap.own[k - 1].after,
                     gap.own[k].after)]

CommentsInText == FlattenSeq([i \in DOMAIN gaps |-> CommentsBefore(i)])

\* The node entered next: the outermost one that starts at the token, or the next one
\* after it, unless a node is left before.
FollowingNode(i) ==
  LET starting == {n \in Nodes \ {1} : tree[n].first = i /\ ~IsEmpty(n)}
      later    == {n \in Nodes : tree[n].first > i}
      first(set) == CHOOSE n \in set : \A m \in set : n <= m
      left     == {n \in Nodes : tree[n].first <= i /\ i <= tree[n].last
                                   /\ tree[n].last < tree[first(later)].first}
  IN  CASE starting # {} -> first(starting)
        [] starting = {} /\ later # {} /\ left = {} -> first(later)
        [] OTHER -> 0

\* The node left last since the last token that is the first of a node.  A hole has
\* no token: it is left where it stands, after what ends there.
PrecedingNode(i) ==
  LET starts == {j \in 1 .. i - 1 : \E n \in Nodes \ {1} : tree[n].first = j /\ ~IsEmpty(n)}
      opened == IF starts = {} THEN 0 ELSE CHOOSE j \in starts : \A k \in starts : k <= j
      left   == {n \in Nodes : tree[n].last \in opened .. i - 1}
      latest == {n \in left : \A m \in left : tree[m].last <= tree[n].last}
      holes  == {n \in latest : IsEmpty(n)}
  IN  CASE left = {}  -> 0
        [] holes # {} -> CHOOSE n \in holes : TRUE
        [] OTHER      -> CHOOSE n \in latest : \A m \in latest : n <= m

\* The innermost node the comment is inside of.
EnclosingNode(i) ==
  LET open == {n \in Nodes : tree[n].first < i /\ i <= tree[n].last} \cup {1}
  IN  CHOOSE n \in open : \A m \in open : m <= n

Decorated(c) ==
  c @@ [enclosing |-> EnclosingNode(c.gap), preceding |-> PrecedingNode(c.gap),
        following |-> FollowingNode(c.gap), following_token |-> Kind(TokenAt(c.gap))]

-----------------------------------------------------------------------------
(* Placements *)

Leading(n)  == [how |-> "leading",  node |-> n]
Trailing(n) == [how |-> "trailing", node |-> n]
Dangling(n) == [how |-> "dangling", node |-> n]
Default     == [how |-> "default",  node |-> 0]

\* What becomes of a comment that no handler claims.
DefaultPlacement(c) ==
  LET ends == c.position = "EndOfLine"
  IN  CASE c.preceding # 0 /\ (ends \/ c.following = 0) -> Trailing(c.preceding)
        [] c.following # 0 /\ (~ends \/ c.preceding = 0) -> Leading(c.following)
        [] OTHER -> Dangling(c.enclosing)

-----------------------------------------------------------------------------
(* The handlers *)

\* place_leading_or_dangling_body_comment
PlaceOnBody(body) ==
  IF Kind(body) # "R_BRACED_EXPRESSIONS" THEN Leading(body)
  ELSE LET expressions == tree[Part(body, "expressions")].parts
       IN  IF expressions = <<>> THEN Dangling(body) ELSE Leading(expressions[1])

\* place_leading_or_dangling_alternative_comment
PlaceOnAlternative(alternative) ==
  PlaceOnBody(IF Kind(alternative) = "R_IF_STATEMENT" THEN Part(alternative, "consequence")
              ELSE alternative)

IsBefore(c, part) == c.following = Part(c.enclosing, part)
IsAfter(c, part)  == c.preceding = Part(c.enclosing, part) /\ c.preceding # 0

HandleFor(c) ==
  CASE Kind(c.enclosing) # "R_FOR_STATEMENT" -> Default
    [] IsBefore(c, "body") /\ c.following_token # "R_PAREN" ->
         PlaceOnBody(Part(c.enclosing, "body"))
    [] OTHER -> Leading(c.enclosing)

HandleWhile(c) ==
  CASE Kind(c.enclosing) # "R_WHILE_STATEMENT" -> Default
    [] IsBefore(c, "body") /\ c.following_token # "R_PAREN" ->
         PlaceOnBody(Part(c.enclosing, "body"))
    [] OTHER -> Leading(c.enclosing)

HandleRepeat(c) ==
  IF Kind(c.enclosing) = "R_REPEAT_STATEMENT" THEN PlaceOnBody(Part(c.enclosing, "body"))
  ELSE Default

HandleFunction(c) ==
  CASE Kind(c.enclosing) # "R_FUNCTION_DEFINITION" -> Default
    [] IsBefore(c, "parameters") -> Leading(c.enclosing)
    [] IsBefore(c, "body")       -> PlaceOnBody(Part(c.enclosing, "body"))
    [] OTHER                     -> Default

\* Before `else': a comment that ends the line goes with what precedes, one on its
\* own line with what follows, so that `} else' stays on one line.
HandleBeforeElse(c) ==
  IF c.following = 0 \/ ~IsBefore(c, "else_clause") THEN Default
  ELSE IF c.position = "EndOfLine" THEN PlaceOnBody(Part(c.enclosing, "consequence"))
       ELSE PlaceOnAlternative(Part(c.following, "alternative"))

HandleIf(c) ==
  CASE Kind(c.enclosing) # "R_IF_STATEMENT" -> Default
    [] IsAfter(c, "condition") /\ c.following_token = "R_PAREN" -> Trailing(c.preceding)
    [] IsBefore(c, "consequence") -> PlaceOnBody(Part(c.enclosing, "consequence"))
    [] OTHER -> HandleBeforeElse(c)

HandleElse(c) ==
  IF Kind(c.enclosing) = "R_ELSE_CLAUSE" /\ IsBefore(c, "alternative")
  THEN PlaceOnAlternative(c.following) ELSE Default

HandleParenthesized(c) ==
  CASE Kind(c.enclosing) # "R_PARENTHESIZED_EXPRESSION" -> Default
    [] IsBefore(c, "body") -> Leading(c.following)
    [] IsAfter(c, "body")  -> Trailing(c.preceding)
    [] OTHER               -> Default

HandleArgumentNameClause(c) ==
  IF Kind(c.enclosing) = "R_ARGUMENT_NAME_CLAUSE" /\ IsAfter(c, "name")
  THEN Leading(c.preceding) ELSE Default

HandleArgument(c) ==
  IF Kind(c.enclosing) = "R_ARGUMENT" /\ IsAfter(c, "name_clause")
  THEN Leading(c.preceding) ELSE Default

\* prev_sibling
PreviousArgument(n) ==
  LET siblings == {m \in Nodes : tree[m].parent = tree[n].parent /\ m < n}
  IN  IF siblings = {} THEN 0 ELSE CHOOSE m \in siblings : \A k \in siblings : k <= m

IsFilled(n) == n # 0 /\ Kind(n) = "R_ARGUMENT" /\ ~IsHole(n)

\* A hole has no token a comment could be attached to: it precedes every comment
\* near it, and passes the comment on to its neighbour on the comment's side.
HandleHole(c) ==
  LET inside    == c.following_token \in {"COMMA", "R_PAREN", "R_BRACK", "R_BRACK2"}
      neighbour == IF inside THEN PreviousArgument(c.preceding) ELSE c.following
  IN  CASE ~IsHole(c.preceding)           -> Default
        [] inside /\ IsFilled(neighbour)  -> Trailing(neighbour)
        [] ~inside /\ IsFilled(neighbour) -> Leading(neighbour)
        [] OTHER                          -> Leading(c.preceding)

\* place_comment: the first handler that claims the comment places it.
Placement(c) ==
  LET or_else(found, next) == IF found = Default THEN next ELSE found
  IN  FoldLeft(or_else, Default,
        <<HandleFor(c), HandleFunction(c), HandleWhile(c), HandleRepeat(c), HandleIf(c),
          HandleElse(c), HandleParenthesized(c), HandleArgumentNameClause(c),
          HandleArgument(c), HandleHole(c), DefaultPlacement(c)>>)

PlaceComment ==
  /\ Len(placed) < Len(CommentsInText)
  /\ LET c == CommentsInText[Len(placed) + 1]
     IN  placed' = Append(placed, c @@ Placement(Decorated(c)))

-----------------------------------------------------------------------------
(* What the rest of the formatter reads *)

PlacedOn(n, how) == SelectSeq(placed, LAMBDA c : c.node = n /\ c.how = how)

HasComments(n) == \E k \in DOMAIN placed : placed[k].node = n

-----------------------------------------------------------------------------
(* Directives: comments_ext.rs, crates/comments *)

\* Mutant: a statement cannot have a directive.
CanHaveDirectiveUnlessStatement(n) ==
  /\ tree[n].parent # 0
  /\ Kind(tree[n].parent) \in {"R_ARGUMENT_LIST", "R_BINARY_EXPRESSION"}

\* can_have_directive
CanHaveDirective(n) ==
  /\ tree[n].parent # 0
  /\ Kind(tree[n].parent) \in {"R_EXPRESSION_LIST", "R_ARGUMENT_LIST", "R_BINARY_EXPRESSION"}

\* directives: of the leading comments only
Directives(n) == {c.directive : c \in ToSet(PlacedOn(n, "leading"))}

HasSkipDirective(n) == CanHaveDirective(n) /\ "Skip" \in Directives(n)

=============================================================================
