------------------------------- MODULE RNodes -------------------------------
(***************************************************************************)
(* The typed view of the tree: the parts of a node of each kind, as the    *)
(* accessors of crates/air_r_syntax/src/generated/nodes.rs hand them out.  *)
(* An accessor reads one slot by its number, takes what it finds there     *)
(* only if it is of the accessor's type, and says whether the part may be  *)
(* missing.  This module has no state.                                     *)
(*                                                                         *)
(* Tokens have the kinds of RSyntax: one kind stands for all that the      *)
(* grammar treats alike.                                                   *)
(***************************************************************************)
EXTENDS RSyntax

\* support::required_node, required_token and list: to miss a list is a panic, to
\* miss the others an error for the reader.
Required(slot, kinds) == [slot |-> slot + 1, kinds |-> kinds, required |-> TRUE]

\* support::node and support::token
Optional(slot, kinds) == [slot |-> slot + 1, kinds |-> kinds, required |-> FALSE]

-----------------------------------------------------------------------------
(* Unions of kinds: what can_cast accepts *)

AnyRValue ==
  {"R_BOGUS_VALUE", "R_COMPLEX_VALUE", "R_DOUBLE_VALUE", "R_INTEGER_VALUE", "R_STRING_VALUE"}

\* Mutant: a new kind of expression is not added to the union.
AnyRExpressionIncomplete ==
  AnyRValue \cup
  {"R_BINARY_EXPRESSION", "R_BOGUS_EXPRESSION", "R_BRACED_EXPRESSIONS", "R_BREAK_EXPRESSION",
   "R_CALL", "R_DOT_DOT_I", "R_DOTS", "R_EXTRACT_EXPRESSION", "R_FALSE_EXPRESSION",
   "R_FOR_STATEMENT", "R_FUNCTION_DEFINITION", "R_IDENTIFIER", "R_IF_STATEMENT",
   "R_NA_EXPRESSION", "R_NAMESPACE_EXPRESSION", "R_NAN_EXPRESSION", "R_NEXT_EXPRESSION",
   "R_NULL_EXPRESSION", "R_PARENTHESIZED_EXPRESSION", "R_REPEAT_STATEMENT", "R_SUBSET",
   "R_SUBSET2", "R_TRUE_EXPRESSION", "R_UNARY_EXPRESSION", "R_WHILE_STATEMENT"}

AnyRExpression ==
  AnyRValue \cup
  {"R_BINARY_EXPRESSION", "R_BOGUS_EXPRESSION", "R_BRACED_EXPRESSIONS", "R_BREAK_EXPRESSION",
   "R_CALL", "R_DOT_DOT_I", "R_DOTS", "R_EXTRACT_EXPRESSION", "R_FALSE_EXPRESSION",
   "R_FOR_STATEMENT", "R_FUNCTION_DEFINITION", "R_IDENTIFIER", "R_IF_STATEMENT",
   "R_INF_EXPRESSION", "R_NA_EXPRESSION", "R_NAMESPACE_EXPRESSION", "R_NAN_EXPRESSION",
   "R_NEXT_EXPRESSION", "R_NULL_EXPRESSION", "R_PARENTHESIZED_EXPRESSION",
   "R_REPEAT_STATEMENT", "R_SUBSET", "R_SUBSET2", "R_TRUE_EXPRESSION",
   "R_UNARY_EXPRESSION", "R_WHILE_STATEMENT"}

AnyRArgumentName ==
  {"R_DOT_DOT_I", "R_DOTS", "R_IDENTIFIER", "R_NULL_EXPRESSION", "R_STRING_VALUE"}

AnyRParameterName == {"R_DOT_DOT_I", "R_DOTS", "R_IDENTIFIER"}

AnyRSelector == {"R_DOT_DOT_I", "R_DOTS", "R_IDENTIFIER", "R_STRING_VALUE"}

-----------------------------------------------------------------------------
(* The parts of each kind of node *)

RArgument ==
  [name_clause |-> Optional(0, {"R_ARGUMENT_NAME_CLAUSE"}), value |-> Optional(1, AnyRExpression)]

RArgumentNameClause ==
  [name |-> Required(0, AnyRArgumentName), eq_token |-> Required(1, {"EQUAL"})]

RBinaryExpression ==
  [left     |-> Required(0, AnyRExpression),
   operator |-> Required(1, BinaryOperators),
   right    |-> Required(2, AnyRExpression)]

RBracedExpressions ==
  [l_curly_token |-> Required(0, {"L_CURLY"}),
   expressions   |-> Required(1, {"R_EXPRESSION_LIST"}),
   r_curly_token |-> Required(2, {"R_CURLY"})]

RBreakExpression == [break_token |-> Required(0, {"BREAK_KW"})]

RCall ==
  [function  |-> Required(0, AnyRExpression),
   arguments |-> Required(1, {"R_CALL_ARGUMENTS"})]

RCallArguments ==
  [l_paren_token |-> Required(0, {"L_PAREN"}),
   items         |-> Required(1, {"R_ARGUMENT_LIST"}),
   r_paren_token |-> Required(2, {"R_PAREN"})]

RComplexValue == [value_token |-> Required(0, {"R_COMPLEX_LITERAL"})]
RDotDotI      == [value_token |-> Required(0, {"DOTDOTI"})]
RDots         == [value_token |-> Required(0, {"DOTS"})]
RDoubleValue  == [value_token |-> Required(0, {"R_DOUBLE_LITERAL"})]

RElseClause ==
  [else_token |-> Required(0, {"ELSE_KW"}), alternative |-> Required(1, AnyRExpression)]

RExtractExpression ==
  [left     |-> Required(0, AnyRExpression),
   operator |-> Required(1, Extractors),
   right    |-> Required(2, AnyRSelector)]

RFalseExpression == [false_token |-> Required(0, {"FALSE_KW"})]

RForStatement ==
  [for_token     |-> Required(0, {"FOR_KW"}),
   l_paren_token |-> Required(1, {"L_PAREN"}),
   variable      |-> Required(2, {"R_IDENTIFIER"}),
   in_token      |-> Required(3, {"IN_KW"}),
   sequence      |-> Required(4, AnyRExpression),
   r_paren_token |-> Required(5, {"R_PAREN"}),
   body          |-> Required(6, AnyRExpression)]

RFunctionDefinition ==
  [name       |-> Required(0, {"FUNCTION_KW", "BACKSLASH"}),
   parameters |-> Required(1, {"R_PARAMETERS"}),
   body       |-> Required(2, AnyRExpression)]

RIdentifier == [name_token |-> Required(0, {"IDENT"})]

RIfStatement ==
  [if_token      |-> Required(0, {"IF_KW"}),
   l_paren_token |-> Required(1, {"L_PAREN"}),
   condition     |-> Required(2, AnyRExpression),
   r_paren_token |-> Required(3, {"R_PAREN"}),
   consequence   |-> Required(4, AnyRExpression),
   else_clause   |-> Optional(5, {"R_ELSE_CLAUSE"})]

RInfExpression == [inf_token   |-> Required(0, {"INF_KW"})]
RIntegerValue  == [value_token |-> Required(0, {"R_INTEGER_LITERAL"})]
RNaExpression  == [value       |-> Required(0, {"NA_KW"})]

RNamespaceExpression ==
  [left     |-> Required(0, AnyRSelector),
   operator |-> Required(1, Namespacers),
   right    |-> Required(2, AnyRSelector)]

RNanExpression  == [nan_token  |-> Required(0, {"NAN_KW"})]
RNextExpression == [next_token |-> Required(0, {"NEXT_KW"})]
RNullExpression == [null_token |-> Required(0, {"NULL_KW"})]

RParameter ==
  [name |-> Required(0, AnyRParameterName), default |-> Optional(1, {"R_PARAMETER_DEFAULT"})]

RParameterDefault ==
  [eq_token |-> Required(0, {"EQUAL"}), value |-> Required(1, AnyRExpression)]

RParameters ==
  [l_paren_token |-> Required(0, {"L_PAREN"}),
   items         |-> Required(1, {"R_PARAMETER_LIST"}),
   r_paren_token |-> Required(2, {"R_PAREN"})]

RParenthesizedExpression ==
  [l_paren_token |-> Required(0, {"L_PAREN"}),
   body          |-> Required(1, AnyRExpression),
   r_paren_token |-> Required(2, {"R_PAREN"})]

RRepeatStatement ==
  [repeat_token |-> Required(0, {"REPEAT_KW"}), body |-> Required(1, AnyRExpression)]

RRoot ==
  [bom_token   |-> Optional(0, {"UNICODE_BOM"}),
   expressions |-> Required(1, {"R_EXPRESSION_LIST"}),
   eof_token   |-> Required(2, {"EOF"})]

RStringValue ==
  [open_token    |-> Required(0, {"STRING_OPEN"}),
   content_token |-> Optional(1, {"STRING_CONTENT"}),
   close_token   |-> Required(2, {"STRING_CLOSE"})]

RSubset ==
  [function  |-> Required(0, AnyRExpression),
   arguments |-> Required(1, {"R_SUBSET_ARGUMENTS"})]

RSubset2 ==
  [function  |-> Required(0, AnyRExpression),
   arguments |-> Required(1, {"R_SUBSET2_ARGUMENTS"})]

RSubset2Arguments ==
  [l_brack2_token |-> Required(0, {"L_BRACK2"}),
   items          |-> Required(1, {"R_ARGUMENT_LIST"}),
   r_brack2_token |-> Required(2, {"R_BRACK2"})]

RSubsetArguments ==
  [l_brack_token |-> Required(0, {"L_BRACK"}),
   items         |-> Required(1, {"R_ARGUMENT_LIST"}),
   r_brack_token |-> Required(2, {"R_BRACK"})]

RTrueExpression == [true_token |-> Required(0, {"TRUE_KW"})]

RUnaryExpression ==
  [operator |-> Required(0, UnaryOperators), argument |-> Required(1, AnyRExpression)]

RWhileStatement ==
  [while_token   |-> Required(0, {"WHILE_KW"}),
   l_paren_token |-> Required(1, {"L_PAREN"}),
   condition     |-> Required(2, AnyRExpression),
   r_paren_token |-> Required(3, {"R_PAREN"}),
   body          |-> Required(4, AnyRExpression)]

Accessors ==
  [R_ARGUMENT |-> RArgument, R_ARGUMENT_NAME_CLAUSE |-> RArgumentNameClause,
   R_BINARY_EXPRESSION |-> RBinaryExpression,
   R_BRACED_EXPRESSIONS |-> RBracedExpressions,
   R_BREAK_EXPRESSION |-> RBreakExpression, R_CALL |-> RCall,
   R_CALL_ARGUMENTS |-> RCallArguments, R_COMPLEX_VALUE |-> RComplexValue,
   R_DOT_DOT_I |-> RDotDotI, R_DOTS |-> RDots, R_DOUBLE_VALUE |-> RDoubleValue,
   R_ELSE_CLAUSE |-> RElseClause, R_EXTRACT_EXPRESSION |-> RExtractExpression,
   R_FALSE_EXPRESSION |-> RFalseExpression, R_FOR_STATEMENT |-> RForStatement,
   R_FUNCTION_DEFINITION |-> RFunctionDefinition, R_IDENTIFIER |-> RIdentifier,
   R_IF_STATEMENT |-> RIfStatement, R_INF_EXPRESSION |-> RInfExpression,
   R_INTEGER_VALUE |-> RIntegerValue, R_NA_EXPRESSION |-> RNaExpression,
   R_NAMESPACE_EXPRESSION |-> RNamespaceExpression,
   R_NAN_EXPRESSION |-> RNanExpression, R_NEXT_EXPRESSION |-> RNextExpression,
   R_NULL_EXPRESSION |-> RNullExpression, R_PARAMETER |-> RParameter,
   R_PARAMETER_DEFAULT |-> RParameterDefault, R_PARAMETERS |-> RParameters,
   R_PARENTHESIZED_EXPRESSION |-> RParenthesizedExpression,
   R_REPEAT_STATEMENT |-> RRepeatStatement, R_ROOT |-> RRoot,
   R_STRING_VALUE |-> RStringValue, R_SUBSET |-> RSubset, R_SUBSET2 |-> RSubset2,
   R_SUBSET2_ARGUMENTS |-> RSubset2Arguments,
   R_SUBSET_ARGUMENTS |-> RSubsetArguments, R_TRUE_EXPRESSION |-> RTrueExpression,
   R_UNARY_EXPRESSION |-> RUnaryExpression, R_WHILE_STATEMENT |-> RWhileStatement]

=============================================================================
