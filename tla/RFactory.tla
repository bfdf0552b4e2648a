------------------------------ MODULE RFactory ------------------------------
(***************************************************************************)
(* How the tree is made from the events of the parser: make_syntax of      *)
(* crates/air_r_factory/src/generated/syntax_factory.rs puts the children  *)
(* of a node, in their order, into the slots of its kind, and turns a node *)
(* with a child that no slot takes into a bogus one.  This module has no   *)
(* state.                                                                  *)
(***************************************************************************)
EXTENDS RNodes, SequencesExt

-----------------------------------------------------------------------------
(* The slots of each kind, each given by the kinds it takes *)

RArgumentSlots           == <<{"R_ARGUMENT_NAME_CLAUSE"}, AnyRExpression>>
RArgumentNameClauseSlots == <<AnyRArgumentName, {"EQUAL"}>>
RBinaryExpressionSlots   == <<AnyRExpression, BinaryOperators, AnyRExpression>>
RBracedExpressionsSlots  == <<{"L_CURLY"}, {"R_EXPRESSION_LIST"}, {"R_CURLY"}>>
RBreakExpressionSlots    == <<{"BREAK_KW"}>>
RCallSlots               == <<AnyRExpression, {"R_CALL_ARGUMENTS"}>>
RCallArgumentsSlots      == <<{"L_PAREN"}, {"R_ARGUMENT_LIST"}, {"R_PAREN"}>>
RComplexValueSlots       == <<{"R_COMPLEX_LITERAL"}>>
RDotDotISlots            == <<{"DOTDOTI"}>>
RDotsSlots               == <<{"DOTS"}>>
RDoubleValueSlots        == <<{"R_DOUBLE_LITERAL"}>>
RElseClauseSlots         == <<{"ELSE_KW"}, AnyRExpression>>
RExtractExpressionSlots  == <<AnyRExpression, Extractors, AnyRSelector>>
RFalseExpressionSlots    == <<{"FALSE_KW"}>>
RForStatementSlots ==
  <<{"FOR_KW"}, {"L_PAREN"}, {"R_IDENTIFIER"}, {"IN_KW"}, AnyRExpression, {"R_PAREN"},
    AnyRExpression>>
RFunctionDefinitionSlots == <<{"FUNCTION_KW", "BACKSLASH"}, {"R_PARAMETERS"}, AnyRExpression>>
RIdentifierSlots         == <<{"IDENT"}>>

\* Mutant: the grammar file does not let an `if' have an else clause.
RIfStatementSlotsAlone ==
  <<{"IF_KW"}, {"L_PAREN"}, AnyRExpression, {"R_PAREN"}, AnyRExpression, {}>>

RIfStatementSlots ==
  <<{"IF_KW"}, {"L_PAREN"}, AnyRExpression, {"R_PAREN"}, AnyRExpression, {"R_ELSE_CLAUSE"}>>
RInfExpressionSlots       == <<{"INF_KW"}>>
RIntegerValueSlots        == <<{"R_INTEGER_LITERAL"}>>
RNaExpressionSlots        == <<{"NA_KW"}>>
RNamespaceExpressionSlots == <<AnyRSelector, Namespacers, AnyRSelector>>
RNanExpressionSlots       == <<{"NAN_KW"}>>
RNextExpressionSlots      == <<{"NEXT_KW"}>>
RNullExpressionSlots      == <<{"NULL_KW"}>>

\* Mutant: the grammar file does not let a parameter have a default.
RParameterSlotsPlain      == <<AnyRParameterName, {}>>

RParameterSlots           == <<AnyRParameterName, {"R_PARAMETER_DEFAULT"}>>
RParameterDefaultSlots    == <<{"EQUAL"}, AnyRExpression>>
RParametersSlots          == <<{"L_PAREN"}, {"R_PARAMETER_LIST"}, {"R_PAREN"}>>
RParenthesizedExpressionSlots == <<{"L_PAREN"}, AnyRExpression, {"R_PAREN"}>>
RRepeatStatementSlots     == <<{"REPEAT_KW"}, AnyRExpression>>
RRootSlots                == <<{"UNICODE_BOM"}, {"R_EXPRESSION_LIST"}, {"EOF"}>>
RStringValueSlots         == <<{"STRING_OPEN"}, {"STRING_CONTENT"}, {"STRING_CLOSE"}>>
RSubsetSlots              == <<AnyRExpression, {"R_SUBSET_ARGUMENTS"}>>
RSubset2Slots             == <<AnyRExpression, {"R_SUBSET2_ARGUMENTS"}>>
RSubset2ArgumentsSlots    == <<{"L_BRACK2"}, {"R_ARGUMENT_LIST"}, {"R_BRACK2"}>>
RSubsetArgumentsSlots     == <<{"L_BRACK"}, {"R_ARGUMENT_LIST"}, {"R_BRACK"}>>
RTrueExpressionSlots      == <<{"TRUE_KW"}>>
RUnaryExpressionSlots     == <<UnaryOperators, AnyRExpression>>
RWhileStatementSlots ==
  <<{"WHILE_KW"}, {"L_PAREN"}, AnyRExpression, {"R_PAREN"}, AnyRExpression>>

Slots ==
  [R_ARGUMENT |-> RArgumentSlots,
   R_ARGUMENT_NAME_CLAUSE |-> RArgumentNameClauseSlots,
   R_BINARY_EXPRESSION |-> RBinaryExpressionSlots,
   R_BRACED_EXPRESSIONS |-> RBracedExpressionsSlots,
   R_BREAK_EXPRESSION |-> RBreakExpressionSlots, R_CALL |-> RCallSlots,
   R_CALL_ARGUMENTS |-> RCallArgumentsSlots, R_COMPLEX_VALUE |-> RComplexValueSlots,
   R_DOT_DOT_I |-> RDotDotISlots, R_DOTS |-> RDotsSlots,
   R_DOUBLE_VALUE |-> RDoubleValueSlots, R_ELSE_CLAUSE |-> RElseClauseSlots,
   R_EXTRACT_EXPRESSION |-> RExtractExpressionSlots,
   R_FALSE_EXPRESSION |-> RFalseExpressionSlots,
   R_FOR_STATEMENT |-> RForStatementSlots,
   R_FUNCTION_DEFINITION |-> RFunctionDefinitionSlots,
   R_IDENTIFIER |-> RIdentifierSlots, R_IF_STATEMENT |-> RIfStatementSlots,
   R_INF_EXPRESSION |-> RInfExpressionSlots, R_INTEGER_VALUE |-> RIntegerValueSlots,
   R_NA_EXPRESSION |-> RNaExpressionSlots,
   R_NAMESPACE_EXPRESSION |-> RNamespaceExpressionSlots,
   R_NAN_EXPRESSION |-> RNanExpressionSlots,
   R_NEXT_EXPRESSION |-> RNextExpressionSlots,
   R_NULL_EXPRESSION |-> RNullExpressionSlots, R_PARAMETER |-> RParameterSlots,
   R_PARAMETER_DEFAULT |-> RParameterDefaultSlots, R_PARAMETERS |-> RParametersSlots,
   R_PARENTHESIZED_EXPRESSION |-> RParenthesizedExpressionSlots,
   R_REPEAT_STATEMENT |-> RRepeatStatementSlots, R_ROOT |-> RRootSlots,
   R_STRING_VALUE |-> RStringValueSlots, R_SUBSET |-> RSubsetSlots,
   R_SUBSET2 |-> RSubset2Slots, R_SUBSET2_ARGUMENTS |-> RSubset2ArgumentsSlots,
   R_SUBSET_ARGUMENTS |-> RSubsetArgumentsSlots,
   R_TRUE_EXPRESSION |-> RTrueExpressionSlots,
   R_UNARY_EXPRESSION |-> RUnaryExpressionSlots,
   R_WHILE_STATEMENT |-> RWhileStatementSlots]

-----------------------------------------------------------------------------
(* Lists *)

\* A list with a separator takes elements and separators in turn, and does not end
\* with a separator; a list without one takes elements.
RArgumentListItems   == [element |-> {"R_ARGUMENT"}, separator |-> {"COMMA"}]
RExpressionListItems == [element |-> AnyRExpression, separator |-> {}]
RParameterListItems  == [element |-> {"R_PARAMETER"}, separator |-> {"COMMA"}]

ListItems == [R_ARGUMENT_LIST   |-> RArgumentListItems,
              R_EXPRESSION_LIST |-> RExpressionListItems,
              R_PARAMETER_LIST  |-> RParameterListItems]

-----------------------------------------------------------------------------
(* make_syntax.  A child is the set of the kinds it may be of: more than one *)
(* where a kind of RSyntax stands for several.                               *)

Missing == {}

\* The children are offered to the slots in order: a slot takes the next child if
\* it can, and stays empty otherwise.
SlotsFilled(slots, children) ==
  FoldLeft(LAMBDA made, slot :
             IF made.rest # <<>> /\ Head(made.rest) \subseteq slot
             THEN [parts |-> Append(made.parts, Head(made.rest)), rest |-> Tail(made.rest)]
             ELSE [made EXCEPT !.parts = Append(@, Missing)],
           [parts |-> <<>>, rest |-> children], slots)

ListFits(items, children) ==
  IF items.separator = {} THEN \A i \in DOMAIN children : children[i] \subseteq items.element
  ELSE /\ children = <<>> \/ Len(children) % 2 = 1
       /\ \A i \in DOMAIN children :
            children[i] \subseteq IF i % 2 = 1 THEN items.element ELSE items.separator

\* Does a node keep its kind, or is it turned into a bogus one?
Fits(kind, children) ==
  IF kind \in DOMAIN ListItems THEN ListFits(ListItems[kind], children)
  ELSE SlotsFilled(Slots[kind], children).rest = <<>>

\* Does the accessor find its part among the parts of the node?  One that is of
\* another type than the accessor's is not found.
Finds(accessor, parts) == /\ parts[accessor.slot] # Missing
                          /\ parts[accessor.slot] \subseteq accessor.kinds

=============================================================================
