------------------------------- MODULE RRules -------------------------------
(***************************************************************************)
(* The rules of crates/air_r_formatter: the document of each kind of node. *)
(* Formatted(n, how) is the document of element n; `how' is what the rule  *)
(* of the parent passes down: "LeftAligned" to a chain of operators,       *)
(* "Force" to an if statement whose bodies must have braces,               *)
(* "GroupedLast" to a function that is the last argument of a call.        *)
(***************************************************************************)
EXTENDS RComments, RDocument

VARIABLE options  \* width, persistent line breaks, assignment style, calls to skip

RECURSIVE Formatted(_, _)
Format(n) == Formatted(n, "plain")

\* A token of the text, possibly written as another kind, and a brace of our own.
TokenAs(n, kind)  == Text([kind |-> kind, node |-> n, inserted |-> FALSE])
TokenDocument(n)  == TokenAs(n, Kind(n))
Brace(kind, body) == Text([kind |-> kind, node |-> body, inserted |-> TRUE])

Nothing == <<>>
Fields(n, names) == FlattenSeq([k \in DOMAIN names |-> Format(Part(n, names[k]))])
AllParts(n)      == FlattenSeq([k \in DOMAIN tree[n].parts |-> Format(tree[n].parts[k])])

-----------------------------------------------------------------------------
(* Comments *)

CommentItem(c) == [kind |-> "COMMENT", name |-> c.name, directive |-> c.directive]

LeadingDocument(comments) ==
  FlattenSeq([k \in DOMAIN comments |->
    Text(CommentItem(comments[k])) \o IF comments[k].lines_after > 1 THEN EmptyLine ELSE HardLine])

\* Trailing comments wait for the end of the line.  From the first that stood on a
\* line of its own, each gets a line of its own.
TrailingDocument(comments) ==
  LET own_line(k) == \E j \in 1 .. k : comments[j].lines_before > 0
      line(k)     == IF comments[k].lines_before > 1 THEN EmptyLine ELSE HardLine
  IN  FlattenSeq([k \in DOMAIN comments |->
        LineSuffix((IF own_line(k) THEN line(k) ELSE Space) \o Text(CommentItem(comments[k])))
          \o ExpandParent])

DanglingDocument(n) ==
  LET comments == PlacedOn(n, "dangling")
  IN  IF comments = <<>> THEN Nothing
      ELSE Joined([k \in DOMAIN comments |-> Text(CommentItem(comments[k]))], HardLine)
             \o ExpandParent

HasDangling(n) == PlacedOn(n, "dangling") # <<>>

-----------------------------------------------------------------------------
(* Text that is kept as it is *)

RawGap(i) ==
  [k \in DOMAIN gaps[i].eol |-> CommentItem(gaps[i].eol[k])] \o
  [k \in 1 .. gaps[i].lines |-> LineBreak] \o
  FlattenSeq([k \in DOMAIN gaps[i].own |->
    <<CommentItem(gaps[i].own[k])>> \o [l \in 1 .. gaps[i].own[k].after |-> LineBreak]])

RawToken(i) == [kind |-> Kind(TokenAt(i)), node |-> TokenAt(i), inserted |-> FALSE]

Raw(first, last) ==
  FlattenSeq([k \in 1 .. last - first + 1 |->
    (IF k = 1 THEN <<>> ELSE RawGap(first + k - 1)) \o <<RawToken(first + k - 1)>>])

\* in_skip_setting: the function called is named in the setting.  Whether it is, is
\* the same for all names.
InSkipSetting(n) ==
  /\ options.skip
  /\ LET function == Part(n, "function")
     IN  \/ Kind(function) = "R_IDENTIFIER"
         \/ /\ Kind(function) = "R_NAMESPACE_EXPRESSION"
            /\ Kind(Part(function, "right")) = "R_IDENTIFIER"

\* The root's is_suppressed: only a leading comment of the first expression counts,
\* and "Generated by" only as the first of them.
SkipsFile ==
  LET expressions == tree[Part(1, "expressions")].parts
      comments    == PlacedOn(expressions[1], "leading")
  IN  /\ expressions # <<>>
      /\ \E k \in DOMAIN comments :
           \/ comments[k].directive = "SkipFile"
           \/ k = 1 /\ comments[k].directive = "GeneratedBy"

IsSuppressed(n) ==
  \/ n = 1 /\ SkipsFile
  \/ HasSkipDirective(n)
  \/ Kind(n) = "R_CALL" /\ InSkipSetting(n)

\* Of the node's own comments those outside its text are printed.  A comment that
\* was placed on a part of the node is taken to be in the text, wherever it is.
Suppressed(n) ==
  IF n = 1 THEN Verbatim(RawGap(1) \o Raw(1, tree[1].last - 1) \o RawGap(tree[1].last))
  ELSE LET before == SelectSeq(PlacedOn(n, "leading"), LAMBDA c : c.gap <= tree[n].first)
           after  == SelectSeq(PlacedOn(n, "trailing"), LAMBDA c : c.gap > tree[n].last)
       IN  LeadingDocument(before) \o Verbatim(Raw(tree[n].first, tree[n].last))
             \o TrailingDocument(after)

-----------------------------------------------------------------------------
(* Lists and braces *)

\* The statements of the text may be two empty lines apart, those in braces one.
ExpressionList(n) ==
  LET statements == tree[n].parts
      root       == tree[n].parent = 1
      between(k) ==
        LET lines == LinesBefore(statements[k])
        IN  CASE k = 1              -> Nothing
              [] k > 1 /\ lines < 2 -> HardLine
              [] k > 1 /\ lines > 2 /\ root -> EmptyLine \o Verbatim(<<LineBreak>>)
              [] OTHER              -> EmptyLine
  IN  FlattenSeq([k \in DOMAIN statements |-> between(k) \o Format(statements[k])])

ElementDocument(e) == Format(e.node) \o Format(e.separator)

ParameterList(n) ==
  LET elements   == Separated(n)
      between(k) == CASE k = 1 -> Nothing
                      [] k > 1 /\ LinesBefore(elements[k].node) > 1 -> EmptyLine
                      [] OTHER -> SoftLineOrSpace
  IN  FlattenSeq([k \in DOMAIN elements |-> between(k) \o ElementDocument(elements[k])])

Statements(n) == tree[Part(n, "expressions")].parts

\* as_curly_curly
IsCurlyCurly(n) ==
  /\ Len(Statements(n)) = 1
  /\ LET inner == Statements(n)[1]
     IN  /\ Kind(inner) = "R_BRACED_EXPRESSIONS"
         /\ Len(Statements(inner)) = 1
         /\ Kind(Statements(inner)[1]) = "R_IDENTIFIER"
  /\ \E m \in Ancestors(n) : Kind(m) = "R_ARGUMENT"

CurlyCurly(n) ==
  LET inner == Statements(n)[1]
  IN  Group(LeadingDocument(PlacedOn(inner, "leading"))
              \o Fields(n, <<"l_curly_token">>) \o Fields(inner, <<"l_curly_token">>)
              \o SoftSpaceOrBlockIndent(Fields(inner, <<"expressions">>))
              \o Fields(inner, <<"r_curly_token">>) \o Fields(n, <<"r_curly_token">>)
              \o TrailingDocument(PlacedOn(inner, "trailing")), FALSE)

BracedExpressions(n) ==
  LET within(content) == Fields(n, <<"l_curly_token">>) \o content
                           \o Fields(n, <<"r_curly_token">>)
  IN  CASE Statements(n) = <<>> /\ ~HasDangling(n) -> within(Nothing)
        [] Statements(n) = <<>> /\ HasDangling(n)  -> within(BlockIndent(DanglingDocument(n)))
        [] Statements(n) # <<>> /\ IsCurlyCurly(n) -> CurlyCurly(n)
        [] OTHER -> within(BlockIndent(Fields(n, <<"expressions">>)))

\* braced_expressions_is_groupable
BracesAreGroupable(n) ==
  IF Statements(n) = <<>> THEN HasDangling(n) ELSE ~IsCurlyCurly(n)

\* Mutant: a body gets no braces of its own.
UnbracedBody(body) == IF Kind(body) = "R_BRACED_EXPRESSIONS" THEN Format(body)
                      ELSE BlockIndent(Format(body))

\* FormatLoopBody, and the other bodies when braces are forced
BracedBody(body) ==
  IF Kind(body) = "R_BRACED_EXPRESSIONS" THEN Format(body)
  ELSE Brace("L_CURLY", body) \o BlockIndent(Format(body)) \o Brace("R_CURLY", body)

\* Mutant: the body gets no braces where it breaks.
BodyIndentedIfBroken(body) == SoftBlockIndent(Format(body))

\* A body that gets braces if what is around it breaks.
BodyBracedIfBroken(body) ==
  IfGroupBreaks(Brace("L_CURLY", body)) \o SoftBlockIndent(Format(body))
    \o IfGroupBreaks(Brace("R_CURLY", body))

-----------------------------------------------------------------------------
(* Statements *)

\* position: is the value of the node used?
IsValue(n) ==
  LET list == tree[n].parent
  IN  Kind(list) = "R_EXPRESSION_LIST" => tree[list].parent # 1 /\ Last(tree[list].parts) = n

\* compute_braced_expressions: is the if statement too complex for one line?
BracesForced(n) ==
  LET consequence == Part(n, "consequence")
      else_clause == Part(n, "else_clause")
      simple(body) == /\ ~HasLeadingNewline(body)
                      /\ Kind(body) \notin {"R_BRACED_EXPRESSIONS", "R_IF_STATEMENT"}
  IN  \/ ~IsValue(n) \/ ~simple(consequence)
      \/ /\ else_clause # 0
         /\ HasLeadingNewline(else_clause) \/ ~simple(Part(else_clause, "alternative"))

IfBody(body, forced) ==
  IF forced \/ Kind(body) = "R_BRACED_EXPRESSIONS" THEN BracedBody(body)
  ELSE BodyBracedIfBroken(body)

IfStatement(n, how) ==
  LET forced == how = "Force" \/ BracesForced(n)
      else_clause == Part(n, "else_clause")
  IN  Group(Fields(n, <<"if_token">>) \o Space \o Fields(n, <<"l_paren_token">>)
              \o Group(SoftBlockIndent(Fields(n, <<"condition">>)), FALSE)
              \o Fields(n, <<"r_paren_token">>) \o Space
              \o IfBody(Part(n, "consequence"), forced)
              \o (IF else_clause = 0 THEN Nothing
                  ELSE Space \o Formatted(else_clause, IF forced THEN "Force" ELSE "plain")),
            FALSE)

ElseClause(n, how) ==
  LET alternative == Part(n, "alternative")
  IN  Fields(n, <<"else_token">>) \o Space
        \o (IF Kind(alternative) = "R_IF_STATEMENT" THEN Formatted(alternative, how)
            ELSE IfBody(alternative, how = "Force"))

ForStatement(n) ==
  Group(Fields(n, <<"for_token">>) \o Space \o Fields(n, <<"l_paren_token", "variable">>) \o Space
          \o Fields(n, <<"in_token">>) \o Space \o Fields(n, <<"sequence", "r_paren_token">>)
          \o Space \o BracedBody(Part(n, "body")), FALSE)

WhileStatement(n) ==
  Group(Fields(n, <<"while_token">>) \o Space \o Fields(n, <<"l_paren_token">>)
          \o Group(SoftBlockIndent(Fields(n, <<"condition">>)), FALSE)
          \o Fields(n, <<"r_paren_token">>) \o Space \o BracedBody(Part(n, "body")), FALSE)

RepeatStatement(n) ==
  Group(Fields(n, <<"repeat_token">>) \o Space \o BracedBody(Part(n, "body")), FALSE)

-----------------------------------------------------------------------------
(* Functions *)

Parameters(n) ==
  LET items == Part(n, "items")
      broken == /\ options.persistent
                /\ HasLeadingNewline(tree[items].parts[1])
  IN  IF tree[items].parts = <<>>
      THEN Fields(n, <<"l_paren_token">>)
             \o (IF HasDangling(n) THEN Group(SoftBlockIndent(DanglingDocument(n)), FALSE)
                 ELSE Nothing)
             \o Fields(n, <<"r_paren_token">>)
      ELSE Group(Fields(n, <<"l_paren_token">>) \o SoftBlockIndent(Format(items))
                   \o Fields(n, <<"r_paren_token">>), broken)

Parameter(n) ==
  Fields(n, <<"name">>) \o
  IF Part(n, "default") = 0 THEN Nothing ELSE Space \o Fields(n, <<"default">>)

ParameterDefault(n) == Fields(n, <<"eq_token">>) \o Space \o Fields(n, <<"value">>)

FunctionBody(body) ==
  IF Kind(body) = "R_BRACED_EXPRESSIONS" \/ HasLeadingNewline(body) THEN BracedBody(body)
  ELSE BodyBracedIfBroken(body)

\* As the last argument of a call, the parameters stay on one line or, where they
\* would break anyway, the layout is given up: PoorLayout.
FunctionDefinition(n, how) ==
  LET parameters == Fields(n, <<"parameters">>)
  IN  Group(Fields(n, <<"name">>)
              \o (IF how = "GroupedLast" THEN WithoutSoftLines(parameters) ELSE parameters)
              \o Space \o FunctionBody(Part(n, "body")), FALSE)

IsPoorLayout(n) == WillBreak(WithoutSoftLines(Fields(n, <<"parameters">>)))

-----------------------------------------------------------------------------
(* Calls: call_arguments.rs.  Table calls and calls of test_that are left  *)
(* out.                                                                    *)

ArgumentFields(n) ==
  Fields(n, <<"name_clause">>)
    \o (IF Part(n, "name_clause") = 0 THEN Nothing ELSE Space)
    \o Fields(n, <<"value">>)

ArgumentNameClause(n) == Fields(n, <<"name">>) \o Space \o Fields(n, <<"eq_token">>)

Opener(n) == Format(tree[n].parts[1])
Closer(n) == Format(tree[n].parts[3])

\* The holes that hug the opener: how many of the elements.
LeadingHoles(elements) ==
  LET ends == {k \in DOMAIN elements :
                 ~IsHole(elements[k].node) \/ HasComments(elements[k].node)}
                \cup {Len(elements) + 1}
  IN  (CHOOSE k \in ends : \A j \in ends : k <= j) - 1

\* The line breaks before an element: a leading hole is seen through its comma.
HoleLines(e)     == IF e.separator = 0 THEN 0 ELSE LinesBeforeToken(tree[e.separator].first)
ArgumentLines(e) == LinesBefore(e.node)

\* is_hugging_call: the only argument is a call itself
IsHuggingCall(n, arguments) ==
  /\ Len(arguments) = 1
  /\ LET argument == arguments[1].node
         value    == Part(argument, "value")
     IN  /\ Part(argument, "name_clause") = 0
         /\ Kind(value) \in {"R_CALL", "R_SUBSET", "R_SUBSET2"}
         /\ ~HasCommentsDirect(value)
         /\ ~HasLeadingComments(tree[n].last)

\* FormatAllArgsBrokenOut
AllArguments(n, holes, arguments, expand) ==
  LET between(k) == CASE k = 1 -> Nothing
                      [] k > 1 /\ ArgumentLines(arguments[k]) > 1 -> EmptyLine
                      [] OTHER -> SoftLineOrSpace
      list == FlattenSeq([k \in DOMAIN arguments |->
                            between(k) \o ElementDocument(arguments[k])])
  IN  Group(Opener(n)
              \o FlattenSeq([k \in DOMAIN holes |-> ElementDocument(holes[k])])
              \o (IF holes # <<>> /\ arguments # <<>> THEN Space ELSE Nothing)
              \o (IF ~expand /\ IsHuggingCall(n, arguments) THEN list ELSE SoftBlockIndent(list))
              \o Closer(n), expand)

\* should_group_last_argument
GroupsLastArgument(elements) ==
  LET last  == elements[Len(elements)].node
      value == Part(last, "value")
  IN  /\ ~HasComments(last)
      /\ Part(last, "name_clause") = 0 \/ ~HasComments(Part(last, "name_clause"))
      /\ \/ Kind(value) = "R_BRACED_EXPRESSIONS" /\ BracesAreGroupable(value)
         \/ /\ Kind(value) = "R_FUNCTION_DEFINITION"
            /\ LET body == Part(value, "body")
               IN  Kind(body) = "R_BRACED_EXPRESSIONS" => BracesAreGroupable(body)

\* FormatGroupedLastArgument: a function that is not the only argument is formatted
\* anew.  The argument has no comments here.
RestyledFunction(e) ==
  LET argument == e.node
      value    == Part(argument, "value")
  IN  Fields(argument, <<"name_clause">>)
        \o (IF Part(argument, "name_clause") = 0 THEN Nothing ELSE Space)
        \o Formatted(value, "GroupedLast") \o Format(e.separator)

\* The layouts to choose from: all flat, the last argument expanded, or all expanded.
\* What breaks by itself is never flat.
GroupedVariants(start, last, close, expanded, breaks) ==
  LET middle == start \o Group(last, TRUE) \o close
  IN  IF breaks THEN ExpandParent \o BestFitting(<<middle, expanded>>)
      ELSE BestFitting(<<start \o last \o close, middle, expanded>>)

\* write_grouped_arguments
GroupedArguments(n, holes, arguments) ==
  LET count    == Len(arguments)
      last     == arguments[count]
      value    == Part(last.node, "value")
      restyled == Kind(value) = "R_FUNCTION_DEFINITION" /\ count > 1
      others   == \E k \in 1 .. count - 1 : WillBreak(ElementDocument(arguments[k]))
      start    == Opener(n)
                    \o FlattenSeq([k \in DOMAIN holes |-> ElementDocument(holes[k])])
                    \o (IF holes # <<>> THEN Space ELSE Nothing)
                    \o FlattenSeq([k \in 1 .. count - 1 |->
                                     ElementDocument(arguments[k]) \o SoftLineOrSpace])
      grouped  == IF restyled THEN RestyledFunction(last) ELSE ElementDocument(last)
      expanded == AllArguments(n, holes, arguments, TRUE)
  IN  IF others \/ (restyled /\ IsPoorLayout(value)) THEN expanded
      ELSE GroupedVariants(start, grouped, Closer(n), expanded, WillBreak(ElementDocument(last)))

\* has_persistent_line_break: in front of a leading hole or of the first argument
ArgumentsBreak(holes, arguments) ==
  /\ options.persistent
  /\ \/ \E k \in DOMAIN holes : HoleLines(holes[k]) > 0
     \/ arguments # <<>> /\ ArgumentLines(arguments[1]) > 0

\* RCallLikeArguments: a call, a subset with one bracket or with two
CallLikeArguments(n) ==
  LET elements  == Separated(Part(n, "items"))
      count     == LeadingHoles(elements)
      holes     == SubSeq(elements, 1, count)
      arguments == SubSeq(elements, count + 1, Len(elements))
      expand    == \/ \E k \in DOMAIN holes : HoleLines(holes[k]) > 1
                   \/ \E k \in DOMAIN arguments : ArgumentLines(arguments[k]) > 1
                   \/ ArgumentsBreak(holes, arguments)
  IN  CASE elements = <<>> ->
             Opener(n)
               \o (IF HasDangling(n) THEN Group(SoftBlockIndent(DanglingDocument(n)), FALSE)
                   ELSE Nothing)
               \o Closer(n)
        [] elements # <<>> /\ ~expand /\ GroupsLastArgument(elements) ->
             GroupedArguments(n, holes, arguments)
        [] OTHER -> AllArguments(n, holes, arguments, expand)

-----------------------------------------------------------------------------
(* Operators: binary_expression.rs, unary_expression.rs *)

Sticky     == {"WAT", "EXPONENTIATE", "COLON"}
Assignment == {"TILDE", "EQUAL", "ASSIGN", "ASSIGN_RIGHT"}
Chainable  == {"SPECIAL", "OR", "AND", "PLUS", "MULTIPLY"}
Breakable  == {"EQUAL", "ASSIGN", "TILDE"}

Operator(n)    == Kind(Part(n, "operator"))
IsChainable(n) == Kind(n) = "R_BINARY_EXPRESSION" /\ Operator(n) \in Chainable

\* can_normalize_to_equal: may `<-' be written `=' here?
RECURSIVE CanNormalizeToEqual(_)
CanNormalizeToEqual(n) ==
  LET parent == tree[n].parent
      is(part) == Part(parent, part) = n
  IN  CASE Kind(parent) \in {"R_EXPRESSION_LIST", "R_PARENTHESIZED_EXPRESSION"} -> TRUE
        [] Kind(parent) = "R_UNARY_EXPRESSION" -> Operator(parent) = "WAT"
        [] Kind(parent) = "R_BINARY_EXPRESSION" ->
             Operator(parent) \in {"ASSIGN", "EQUAL", "WAT"} /\ CanNormalizeToEqual(parent)
        [] Kind(parent) = "R_IF_STATEMENT" -> is("consequence")
        [] Kind(parent) = "R_ELSE_CLAUSE"  -> is("alternative")
        [] Kind(parent) \in {"R_FUNCTION_DEFINITION", "R_FOR_STATEMENT", "R_WHILE_STATEMENT",
                             "R_REPEAT_STATEMENT"} -> is("body")
        [] OTHER -> FALSE

AssignmentOperator(n) ==
  LET operator == Part(n, "operator")
  IN  CASE Kind(operator) = "EQUAL" /\ options.style = "arrow" -> TokenAs(operator, "ASSIGN")
        [] Kind(operator) = "ASSIGN" /\ options.style = "equal" /\ CanNormalizeToEqual(n) ->
             TokenAs(operator, "EQUAL")
        [] OTHER -> Format(operator)

AssignmentBreaks(n) ==
  options.persistent /\ Operator(n) \in Breakable /\ HasLeadingNewline(Part(n, "right"))

BinaryAssignment(n) ==
  LET right == Part(n, "right")
  IN  Group(Fields(n, <<"left">>) \o Space \o AssignmentOperator(n)
              \o (IF ~AssignmentBreaks(n) THEN Space \o Format(right)
                  ELSE Indent(HardLine \o
                              Formatted(right, IF Kind(right) = "R_BINARY_EXPRESSION"
                                               THEN "LeftAligned" ELSE "plain"))),
            FALSE)

\* The nodes of a chain `a + b + c', the first first.
RECURSIVE Chain(_)
Chain(n) == (IF IsChainable(Part(n, "left")) THEN Chain(Part(n, "left")) ELSE <<>>) \o <<n>>

\* A line break after the first operator expands the whole chain.
ChainBreaks(nodes) == options.persistent /\ HasLeadingNewline(Part(nodes[1], "right"))

\* Mutant: the comments of a node inside the chain are forgotten.
ChainWithoutComments(n, how) ==
  LET nodes == Chain(n)
      piece(m) == Space \o Fields(m, <<"operator">>)
                    \o (IF LinesBefore(Part(m, "right")) > 1 THEN EmptyLine ELSE SoftLineOrSpace)
                    \o Fields(m, <<"right">>)
      tail == FlattenSeq([k \in DOMAIN nodes |-> piece(nodes[k])])
  IN  Group(Fields(nodes[1], <<"left">>) \o (IF how = "LeftAligned" THEN tail ELSE Indent(tail)),
            ChainBreaks(nodes))

BinaryChain(n, how) ==
  LET nodes == Chain(n)
      piece(m) == Space \o Fields(m, <<"operator">>)
                    \o (IF LinesBefore(Part(m, "right")) > 1 THEN EmptyLine ELSE SoftLineOrSpace)
                    \o Fields(m, <<"right">>)
                    \o (IF m = n THEN Nothing ELSE TrailingDocument(PlacedOn(m, "trailing")))
      tail == FlattenSeq([k \in DOMAIN nodes |-> piece(nodes[k])])
  IN  Group(Fields(nodes[1], <<"left">>) \o (IF how = "LeftAligned" THEN tail ELSE Indent(tail)),
            ChainBreaks(nodes))

BinaryPlain(n) ==
  Group(Fields(n, <<"left">>) \o Space \o Fields(n, <<"operator">>)
          \o Indent(SoftLineOrSpace \o Fields(n, <<"right">>)), FALSE)

BinaryExpression(n, how) ==
  CASE Operator(n) \in Sticky     -> Group(AllParts(n), FALSE)
    [] Operator(n) \in Assignment -> BinaryAssignment(n)
    [] Operator(n) \in Chainable  -> BinaryChain(n, how)
    [] OTHER -> BinaryPlain(n)

\* is_terminal: nodes that are a token
IsTerminal(n) == \A k \in DOMAIN tree[n].parts : tree[tree[n].parts[k]].token

UnaryExpression(n) ==
  LET argument == Part(n, "argument")
  IN  Fields(n, <<"operator">>)
        \o (IF Operator(n) = "TILDE" /\ ~IsTerminal(argument) THEN Space ELSE Nothing)
        \o (IF HasComments(argument) /\ ~HasSkipDirective(argument)
            THEN SoftBlockIndent(Format(argument)) ELSE Format(argument))

ParenthesizedExpression(n) ==
  LET body == Part(n, "body")
  IN  Fields(n, <<"l_paren_token">>)
        \o (IF HasCommentsDirect(body) THEN BlockIndent(Format(body)) ELSE Format(body))
        \o Fields(n, <<"r_paren_token">>)

-----------------------------------------------------------------------------
(* The rule of a node *)

\* Statements and the end of the text; the end itself is no text.
Root(n) == Fields(n, <<"bom_token", "expressions">>) \o HardLine

FieldsDocument(n, how) ==
  CASE Kind(n) = "R_ROOT"                     -> Root(n)
    [] Kind(n) = "R_EXPRESSION_LIST"          -> ExpressionList(n)
    [] Kind(n) = "R_PARAMETER_LIST"           -> ParameterList(n)
    [] Kind(n) = "R_BRACED_EXPRESSIONS"       -> BracedExpressions(n)
    [] Kind(n) = "R_IF_STATEMENT"             -> IfStatement(n, how)
    [] Kind(n) = "R_ELSE_CLAUSE"              -> ElseClause(n, how)
    [] Kind(n) = "R_FOR_STATEMENT"            -> ForStatement(n)
    [] Kind(n) = "R_WHILE_STATEMENT"          -> WhileStatement(n)
    [] Kind(n) = "R_REPEAT_STATEMENT"         -> RepeatStatement(n)
    [] Kind(n) = "R_FUNCTION_DEFINITION"      -> FunctionDefinition(n, how)
    [] Kind(n) = "R_PARAMETERS"               -> Parameters(n)
    [] Kind(n) = "R_PARAMETER"                -> Parameter(n)
    [] Kind(n) = "R_PARAMETER_DEFAULT"        -> ParameterDefault(n)
    [] Kind(n) = "R_ARGUMENT"                 -> ArgumentFields(n)
    [] Kind(n) = "R_ARGUMENT_NAME_CLAUSE"     -> ArgumentNameClause(n)
    [] Kind(n) \in {"R_CALL_ARGUMENTS", "R_SUBSET_ARGUMENTS", "R_SUBSET2_ARGUMENTS"} ->
         CallLikeArguments(n)
    [] Kind(n) = "R_BINARY_EXPRESSION"        -> BinaryExpression(n, how)
    [] Kind(n) = "R_UNARY_EXPRESSION"         -> UnaryExpression(n)
    [] Kind(n) = "R_PARENTHESIZED_EXPRESSION" -> ParenthesizedExpression(n)
    [] Kind(n) \in {"R_EXTRACT_EXPRESSION", "R_NAMESPACE_EXPRESSION"} -> Group(AllParts(n), FALSE)
    [] OTHER                                  -> AllParts(n)

\* Nodes that print their dangling comments themselves.
PrintsDangling(n) ==
  Kind(n) \in {"R_BRACED_EXPRESSIONS", "R_PARAMETERS", "R_CALL_ARGUMENTS", "R_SUBSET_ARGUMENTS",
               "R_SUBSET2_ARGUMENTS"}

\* FormatNodeRule::fmt
Formatted(n, how) ==
  CASE n = 0 -> Nothing
    [] n # 0 /\ tree[n].token -> TokenDocument(n)
    [] n # 0 /\ ~tree[n].token /\ Kind(n) \in Lists -> FieldsDocument(n, how)
    [] n # 0 /\ ~tree[n].token /\ Kind(n) \notin Lists /\ IsSuppressed(n) -> Suppressed(n)
    [] OTHER ->
         LeadingDocument(PlacedOn(n, "leading")) \o FieldsDocument(n, how)
           \o (IF HasDangling(n) /\ ~PrintsDangling(n)
               THEN Group(SoftBlockIndent(DanglingDocument(n)), FALSE) ELSE Nothing)
           \o TrailingDocument(PlacedOn(n, "trailing"))

=============================================================================
