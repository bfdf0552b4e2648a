------------------------------ MODULE RParser ------------------------------
(***************************************************************************)
(* The hand-written Pratt parser of crates/air_r_parser: parser.rs and     *)
(* grammar/*.rs over the token source of RTokenSource.                     *)
(*                                                                         *)
(* The grammar is a set of recursive functions; here the call stack is the *)
(* variable `stack'.  A frame is a function that waits for one it called:  *)
(* `fn' says where in which function, the other fields hold its locals.    *)
(* `pc' is what runs on top of the stack.  A function that returns         *)
(* Some(node) sets pc to Return and `value' to the node; one that returns  *)
(* None (or false) sets pc to Fail.                                        *)
(*                                                                         *)
(* A marker is the index of the token it was opened at.  Completing it     *)
(* adds a node, its kind and the tokens it spans, to `nodes', which is the *)
(* tree the events describe; abandoning it leaves no trace.                *)
(***************************************************************************)
EXTENDS RTokenSource, FiniteSets

VARIABLES
  pc,            \* what the function on top of the stack does next
  stack,         \* the functions waiting for a callee, outermost first
  value,         \* the node last returned
  significance,  \* newline significance of the root and of each open bracket
  diagnostics,   \* tokens at which the grammar recorded an error
  nodes          \* the completed nodes

parserVars == <<pc, stack, value, significance, diagnostics, nodes>>
vars == <<sourceVars, parserVars>>

-----------------------------------------------------------------------------
(* Frames and nodes *)

\* Functions that wait between push_significance and pop_significance.
Bracketing == {"Parenthesized", "Condition", "ForHeader", "Parameters", "Arguments", "Braces"}

\* Functions that end with a body or an operand, and the node they complete
\* once it is parsed.
LastPartNode == [FunctionDefinition |-> "R_FUNCTION_DEFINITION",
                 For                |-> "R_FOR_STATEMENT",
                 While              |-> "R_WHILE_STATEMENT",
                 Repeat             |-> "R_REPEAT_STATEMENT",
                 Unary              |-> "R_UNARY_EXPRESSION",
                 Binary             |-> "R_BINARY_EXPRESSION",
                 Extract            |-> "R_EXTRACT_EXPRESSION",
                 Namespace          |-> "R_NAMESPACE_EXPRESSION"]

Functions ==
  Bracketing \cup DOMAIN LastPartNode
    \cup {"Root", "ExpressionList", "Statement", "Expression", "String", "Call",
          "If", "Else", "Parameter", "Default", "Argument", "ArgumentName"}

Closers == {"EOF", "R_CURLY", "R_PAREN", "R_BRACK", "R_BRACK2"}

\* from: the marker.  bp: min_bp of Expression.  close: the delimiter that
\* ends a list.  previous: what the loop of a list, or of a recovery, remembers.
Frame == [fn       : Functions,
          from     : Nat,
          bp       : 0 .. MaxPower,
          close    : Closers,
          previous : {"Open", "Comma", "Argument", "Progress"}]

Call(fn, from) ==
  [fn |-> fn, from |-> from, bp |-> 0, close |-> "EOF", previous |-> "Open"]

List(fn, from, close) == [Call(fn, from) EXCEPT !.close = close]
Expression(bp)        == [Call("Expression", 0) EXCEPT !.bp = bp]

NodeKinds ==
  {LastPartNode[fn] : fn \in DOMAIN LastPartNode} \cup {ValueNode(k) : k \in ValueStart}
    \cup {"R_ROOT", "R_EXPRESSION_LIST", "R_BOGUS_EXPRESSION", "R_STRING_VALUE",
          "R_PARENTHESIZED_EXPRESSION", "R_BRACED_EXPRESSIONS", "R_IF_STATEMENT",
          "R_ELSE_CLAUSE", "R_PARAMETERS", "R_PARAMETER_LIST", "R_PARAMETER",
          "R_PARAMETER_DEFAULT", "R_CALL", "R_SUBSET", "R_SUBSET2", "R_CALL_ARGUMENTS",
          "R_SUBSET_ARGUMENTS", "R_SUBSET2_ARGUMENTS", "R_ARGUMENT_LIST", "R_ARGUMENT",
          "R_ARGUMENT_NAME_CLAUSE"}

\* The tokens a node spans; last = first - 1 when it is empty.
Node == [kind : NodeKinds, first : Nat, last : Nat]

NodeOver(kind, first, last) == [kind |-> kind, first |-> first, last |-> last]

\* A marker completed before, or right after, the current token is bumped.
NodeBefore(kind, first) == NodeOver(kind, first, at - 1)
NodeWith(kind, first)   == NodeOver(kind, first, CurrentEnd)

Top   == stack[Len(stack)]
Under == stack[Len(stack) - 1]
Below == SubSeq(stack, 1, Len(stack) - 1)

WithTop(frame) == Append(Below, frame)

-----------------------------------------------------------------------------
(* parser.rs, and the parts the grammar functions share *)

NewlinesSignificant == significance[Len(significance)]
InsideBrackets      == Len(significance) > 1

\* Complete the nodes `completed', with or without bumping the current token.
Consume(completed) ==
  /\ Bump
  /\ nodes' = nodes \cup completed
  /\ UNCHANGED diagnostics

Complete(completed) ==
  /\ nodes' = nodes \cup completed
  /\ UNCHANGED <<sourceVars, diagnostics>>

\* The grammar goes on at step `next' with the stack `frames'.  Enter and Leave
\* also push_significance and pop_significance.
Goto(next, frames) == pc' = next /\ stack' = frames /\ UNCHANGED value

Continue(next, frames) == Goto(next, frames) /\ UNCHANGED significance

Enter(significant, next, frames) ==
  Goto(next, frames) /\ significance' = Append(significance, significant)

PopSignificance == significance' = SubSeq(significance, 1, Len(significance) - 1)

Leave(next, frames) == Goto(next, frames) /\ PopSignificance

\* Some(node) is returned to the function on top of `frames'.
Yield(node, frames) == pc' = "Return" /\ stack' = frames /\ value' = node

Return(node, frames) == Yield(node, frames) /\ UNCHANGED significance

Returned(fn) == pc = "Return" /\ Top.fn = fn

\* expected, and the failing branch of biome's expect: record an error at the
\* current token and return None.  biome drops an error that starts where the
\* last recorded one does.
Fail ==
  /\ diagnostics' = IF diagnostics # <<>> /\ diagnostics[Len(diagnostics)] = at
                    THEN diagnostics ELSE Append(diagnostics, at)
  /\ Continue("Fail", stack)

Expected == Fail /\ UNCHANGED <<sourceVars, nodes>>

\* Mutant: a bracket that is left by an error does not pop what it pushed.
PropagateUnpopped ==
  /\ pc = "Fail"
  /\ Top.fn # "Statement"
  /\ Continue("Fail", Below)
  /\ UNCHANGED <<sourceVars, diagnostics, nodes>>

\* The function on top of the stack receives None: it pops what it pushed,
\* abandons its markers and returns None itself.
Propagate ==
  /\ pc = "Fail"
  /\ Top.fn # "Statement"
  /\ IF Top.fn \in Bracketing THEN Leave("Fail", Below) ELSE Continue("Fail", Below)
  /\ UNCHANGED <<sourceVars, diagnostics, nodes>>

-----------------------------------------------------------------------------
(* mod.rs: the root, statement lists and error recovery *)

ParseRoot ==
  /\ pc = "Root"
  /\ \/ /\ current = "UNICODE_BOM"
        /\ Consume({})
        /\ Continue("List", Append(stack, List("ExpressionList", CurrentEnd + 1, "EOF")))
     \/ /\ current # "UNICODE_BOM"
        /\ Complete({})
        /\ Continue("List", Append(stack, List("ExpressionList", at, "EOF")))

RootParsed ==
  /\ Returned("Root")
  /\ Complete({NodeBefore("R_ROOT", Top.from)})
  /\ Continue("Done", stack)

ParseStatement ==
  /\ pc = "List"
  /\ current \notin {Top.close, "EOF"}
  /\ BlessSemicolons
  /\ Continue("Prefix", stack \o <<Call("Statement", at), Expression(0)>>)
  /\ UNCHANGED <<diagnostics, nodes>>

StatementParsed ==
  /\ Returned("Statement")
  /\ Complete({})
  /\ Continue("List", Below)

\* Mutant: only what precedes a statement is blessed, not what precedes the end.
EndListUnblessed ==
  LET list == NodeBefore("R_EXPRESSION_LIST", Top.from) IN
  /\ pc = "List"
  /\ current \in {Top.close, "EOF"}
  /\ Complete({list})
  /\ Return(list, Below)

EndList ==
  LET list == NodeBefore("R_EXPRESSION_LIST", Top.from) IN
  /\ pc = "List"
  /\ current \in {Top.close, "EOF"}
  /\ BlessSemicolons
  /\ nodes' = nodes \cup {list}
  /\ Return(list, Below)
  /\ UNCHANGED diagnostics

\* Mutant: a statement is taken to have made progress.
MadeAnyProgress(frame) == TRUE

\* Did the failed statement consume anything before erroring?
MadeProgress(frame) == at # frame.from

RecoverStatement ==
  /\ pc = "Fail"
  /\ Top.fn = "Statement"
  /\ Continue("Recover",
       IF MadeProgress(Top) THEN WithTop([Top EXCEPT !.previous = "Progress"]) ELSE stack)
  /\ Complete({})

\* Mutant: recovery goes on to the end of the list.
AtListEnd == current \in {Under.close, "EOF"}

AtStatementBoundary ==
  \/ current \in {Under.close, "EOF"}
  \/ Top.previous = "Progress" /\ HasPrecedingSeparator

SkipToken ==
  /\ pc = "Recover"
  /\ ~AtStatementBoundary
  /\ Consume({})
  /\ Continue("Recover", WithTop([Top EXCEPT !.previous = "Progress"]))

\* Mutant: the bogus node starts where the recovery does.
RecoveredLate ==
  /\ pc = "Recover"
  /\ AtStatementBoundary
  /\ Complete({NodeBefore("R_BOGUS_EXPRESSION", at)})
  /\ Continue("List", Below)

Recovered ==
  /\ pc = "Recover"
  /\ AtStatementBoundary
  /\ Complete({NodeBefore("R_BOGUS_EXPRESSION", Top.from)})
  /\ Continue("List", Below)

-----------------------------------------------------------------------------
(* expressions.rs: the Pratt core.  The frame Expression waits for the left *)
(* operand at step Prefix, and then for each longer one.                    *)

ParseUnary ==
  /\ pc = "Prefix"
  /\ current \in UnaryOperators
  /\ Consume({})
  /\ Continue("Prefix", stack \o <<Call("Unary", at), Expression(UnaryPower[current])>>)

\* The token that starts the construct is bumped, then its parts are parsed.
ParseConstruct ==
  /\ pc = "Prefix"
  /\ \/ /\ current \in {"FUNCTION_KW", "BACKSLASH"}
        /\ Continue("Parameters", Append(stack, Call("FunctionDefinition", at)))
     \/ /\ current = "IF_KW"
        /\ Continue("Condition", Append(stack, Call("If", at)))
     \/ /\ current = "WHILE_KW"
        /\ Continue("Condition", Append(stack, Call("While", at)))
     \/ /\ current = "FOR_KW"
        /\ Continue("ForHeader", Append(stack, Call("For", at)))
     \/ /\ current = "REPEAT_KW"
        /\ Continue("Prefix",
             stack \o <<Call("Repeat", at), Expression(FUNCTION_BODY_BP)>>)
  /\ Consume({})

\* A name, a string or a constant; returns to the stack `frames'.
ParseValue(frames) ==
  \/ /\ current = "STRING_OPEN"
     /\ Consume({})
     /\ Continue("String", Append(frames, Call("String", at)))
  \/ LET node == NodeWith(ValueNode(current), at) IN
     /\ current \in ValueStart \ {"STRING_OPEN"}
     /\ Consume({node})
     /\ Return(node, frames)

ParsePrefixValue ==
  /\ pc = "Prefix"
  /\ ParseValue(stack)

ExpressionStart ==
  ValueStart \cup UnaryOperators \cup ConstructKeywords \cup {"L_PAREN", "L_CURLY", "BACKSLASH"}

\* Mutant: None without a diagnostic.
ParseNoPrefixSilently ==
  /\ pc = "Prefix"
  /\ current \notin ExpressionStart
  /\ Complete({})
  /\ Continue("Fail", stack)

ParseNoPrefix ==
  /\ pc = "Prefix"
  /\ current \notin ExpressionStart
  /\ Expected

\* Mutant: a semicolon does not end the expression.
ContinuesPastSemicolon(min_bp) ==
  /\ current \in InfixOperators
  /\ LeftPower(current) >= min_bp
  /\ ~(NewlinesSignificant /\ GapNewlines)

\* Does the current token continue the expression that waits on top?
Continues(min_bp) ==
  /\ current \in InfixOperators
  /\ LeftPower(current) >= min_bp
  /\ ~(NewlinesSignificant /\ HasPrecedingSeparator)

EndExpression ==
  /\ Returned("Expression")
  /\ ~Continues(Top.bp)
  /\ Complete({})
  /\ Return(value, Below)

ParseBinary ==
  /\ Returned("Expression")
  /\ Continues(Top.bp)
  /\ current \in BinaryOperators
  /\ Consume({})
  /\ Continue("Prefix",
       stack \o <<Call("Binary", value.first), Expression(BinaryPower[current][2])>>)

ParseExtract ==
  /\ Returned("Expression")
  /\ Continues(Top.bp)
  /\ current \in Extractors
  /\ Consume({})
  /\ Continue("Selector", Append(stack, Call("Extract", value.first)))

ParseNamespace ==
  /\ Returned("Expression")
  /\ Continues(Top.bp)
  /\ current \in Namespacers
  /\ value.kind \in SelectorNodes
  /\ Consume({})
  /\ Continue("Selector", Append(stack, Call("Namespace", value.first)))

ParseNamespaceOfOther ==
  /\ Returned("Expression")
  /\ Continues(Top.bp)
  /\ current \in Namespacers
  /\ value.kind \notin SelectorNodes
  /\ Expected

\* Mutant: a selector is taken across a semicolon.
HasSelectorPastSemicolon ==
  /\ current \in SelectorStart
  /\ Top.fn = "Namespace" => ~(NewlinesSignificant /\ HasPrecedingSeparator)

\* The selector on the right of `$', `@', `::' and `:::' is optional.
HasSelector ==
  /\ current \in SelectorStart
  /\ ~gapSemicolons
  /\ Top.fn = "Namespace" => ~(NewlinesSignificant /\ HasPrecedingSeparator)

ParseSelector ==
  /\ pc = "Selector"
  /\ HasSelector
  /\ ParseValue(stack)

ParseNoSelector ==
  LET node == NodeBefore(LastPartNode[Top.fn], Top.from) IN
  /\ pc = "Selector"
  /\ ~HasSelector
  /\ Complete({node})
  /\ Return(node, Below)

\* The operand, body or selector that ends a construct has been parsed.
LastPartParsed ==
  LET node == NodeBefore(LastPartNode[Top.fn], Top.from) IN
  /\ pc = "Return"
  /\ Top.fn \in DOMAIN LastPartNode
  /\ Complete({node})
  /\ Return(node, Below)

-----------------------------------------------------------------------------
(* atoms.rs: strings *)

ParseStringContent ==
  /\ pc = "String"
  /\ current = "STRING_CONTENT"
  /\ Consume({})
  /\ Continue("StringEnd", stack)

ParseStringClose ==
  LET node == NodeWith("R_STRING_VALUE", Top.from) IN
  /\ pc \in {"String", "StringEnd"}
  /\ current = "STRING_CLOSE"
  /\ Consume({node})
  /\ Return(node, Below)

ParseStringUnterminated ==
  /\ pc \in {"String", "StringEnd"}
  /\ current # "STRING_CLOSE"
  /\ current = "STRING_CONTENT" => pc = "StringEnd"
  /\ Expected

-----------------------------------------------------------------------------
(* control.rs: (), {}, if, for, while *)

ParseParenthesized ==
  /\ pc = "Prefix"
  /\ current = "L_PAREN"
  /\ Consume({})
  /\ Enter(FALSE, "Prefix", stack \o <<Call("Parenthesized", at), Expression(0)>>)

ParenthesizedParsed ==
  LET node == NodeWith("R_PARENTHESIZED_EXPRESSION", Top.from) IN
  /\ Returned("Parenthesized")
  /\ current = "R_PAREN"
  /\ Consume({node})
  /\ PopSignificance
  /\ Yield(node, Below)

ParseBraces ==
  /\ pc = "Prefix"
  /\ current = "L_CURLY"
  /\ Consume({})
  /\ Enter(TRUE, "List", stack \o <<Call("Braces", at),
                                 List("ExpressionList", CurrentEnd + 1, "R_CURLY")>>)

BracesParsed ==
  LET node == NodeWith("R_BRACED_EXPRESSIONS", Top.from) IN
  /\ Returned("Braces")
  /\ current = "R_CURLY"
  /\ Consume({node})
  /\ PopSignificance
  /\ Yield(node, Below)

\* The close delimiter that p.expect wants is not there.
ExpectCloseFails ==
  /\ pc = "Return"
  /\ \/ Top.fn \in {"Parenthesized", "Condition", "ForHeader"} /\ current # "R_PAREN"
     \/ Top.fn = "Braces" /\ current # "R_CURLY"
  /\ Expected

\* The `(' of a condition, of the header of a `for' and of parameters.
ParseCondition ==
  /\ pc = "Condition"
  /\ current = "L_PAREN"
  /\ Consume({})
  /\ Enter(FALSE, "Prefix", stack \o <<Call("Condition", at), Expression(0)>>)

ExpectOpenFails ==
  /\ pc \in {"Condition", "ForHeader", "Parameters"}
  /\ current # "L_PAREN"
  /\ Expected

\* The body of the construct whose parenthesized part ends here.
BodyPower(fn) == IF fn = "If" THEN IF_BODY_BP ELSE FUNCTION_BODY_BP

\* The `)' of the condition, or of the header: on to the body.
HeaderParsed ==
  /\ Returned("Condition") \/ Returned("ForHeader")
  /\ current = "R_PAREN"
  /\ Consume({})
  /\ Leave("Prefix", WithTop(Expression(BodyPower(Under.fn))))

\* Mutant: inside brackets a semicolon does not matter either.
ElseAllowedPastSemicolon ==
  /\ current = "IDENT_else"
  /\ ~HasPrecedingSeparator \/ InsideBrackets

\* Mutant: an `if' that is the body of another leaves the `else' to it.
ElseAllowedOutermost ==
  /\ current = "IDENT_else"
  /\ ~gapSemicolons
  /\ ~HasPrecedingSeparator \/ InsideBrackets
  /\ Len(stack) > 2 => stack[Len(stack) - 2].fn # "If"

\* `else' is an identifier unless it is found right after a consequence, on
\* the same line or inside brackets.
ElseAllowed ==
  /\ current = "IDENT_else"
  /\ ~gapSemicolons
  /\ ~HasPrecedingSeparator \/ InsideBrackets

\* Mutant: an `else' takes everything behind it.
ParseElseLoosely ==
  /\ Returned("If")
  /\ ElseAllowed
  /\ Consume({})
  /\ Continue("Prefix", stack \o <<Call("Else", at), Expression(0)>>)

ParseElse ==
  /\ Returned("If")
  /\ ElseAllowed
  /\ Consume({})
  /\ Continue("Prefix", stack \o <<Call("Else", at), Expression(IF_BODY_BP)>>)

IfParsed ==
  LET node == NodeBefore("R_IF_STATEMENT", Top.from) IN
  /\ Returned("If")
  /\ ~ElseAllowed
  /\ Complete({node})
  /\ Return(node, Below)

IfElseParsed ==
  LET node == NodeBefore("R_IF_STATEMENT", Under.from) IN
  /\ Returned("Else")
  /\ Complete({NodeBefore("R_ELSE_CLAUSE", Top.from), node})
  /\ Return(node, SubSeq(stack, 1, Len(stack) - 2))

ParseForHeader ==
  /\ pc = "ForHeader"
  /\ current = "L_PAREN"
  /\ Consume({})
  /\ Enter(FALSE, "ForVariable", Append(stack, Call("ForHeader", at)))

\* parse_identifier_lax: a keyword is demoted to a name.
LaxIdentifiers == Identifiers \cup Keywords

ParseForVariable ==
  /\ pc = "ForVariable"
  /\ current \in LaxIdentifiers
  /\ Consume({NodeWith("R_IDENTIFIER", at)})
  /\ Continue("ForIn", stack)

ParseForIn ==
  /\ pc = "ForIn"
  /\ current = "IDENT_in"
  /\ Consume({})
  /\ Continue("Prefix", Append(stack, Expression(0)))

\* Mutant: None without a diagnostic.
ForHeaderFailsSilently ==
  /\ \/ pc = "ForVariable" /\ current \notin LaxIdentifiers
     \/ pc = "ForIn" /\ current # "IDENT_in"
  /\ Complete({})
  /\ Continue("Fail", stack)

ForHeaderFails ==
  /\ \/ pc = "ForVariable" /\ current \notin LaxIdentifiers
     \/ pc = "ForIn" /\ current # "IDENT_in"
  /\ Expected

-----------------------------------------------------------------------------
(* functions.rs: parameters.  At step ParameterList the loop is at its head, *)
(* at ParameterName a name has been parsed, at ParameterEnd a parameter.     *)

ParseParameters ==
  /\ pc = "Parameters"
  /\ current = "L_PAREN"
  /\ Consume({})
  /\ Enter(FALSE, "ParameterList", Append(stack, Call("Parameters", at)))

ParameterNames == LaxIdentifiers \cup Dots

ParseParameterName ==
  LET kind == IF current \in Dots THEN ValueNode(current) ELSE "R_IDENTIFIER" IN
  /\ pc = "ParameterList"
  /\ current \in ParameterNames
  /\ Consume({NodeWith(kind, at)})
  /\ Continue("ParameterName", Append(stack, Call("Parameter", at)))

\* `function(x, )' and `function(1)'
ParameterFails ==
  /\ pc = "ParameterList"
  /\ current \notin ParameterNames
  /\ current = "R_PAREN" => Top.previous = "Comma"
  /\ Expected

ParseParameterDefault ==
  /\ pc = "ParameterName"
  /\ current = "EQUAL"
  /\ Consume({})
  /\ Continue("Prefix", stack \o <<Call("Default", at), Expression(0)>>)

ParseParameterNoDefault ==
  /\ pc = "ParameterName"
  /\ current # "EQUAL"
  /\ Complete({NodeBefore("R_PARAMETER", Top.from)})
  /\ Continue("ParameterEnd", Below)

\* Mutant: the parameter is not left together with its default.
ParameterDefaultParsedTwice ==
  /\ Returned("Default")
  /\ Complete({NodeBefore("R_PARAMETER_DEFAULT", Top.from),
               NodeBefore("R_PARAMETER", Under.from)})
  /\ Continue("ParameterEnd", Below)

ParameterDefaultParsed ==
  /\ Returned("Default")
  /\ Complete({NodeBefore("R_PARAMETER_DEFAULT", Top.from),
               NodeBefore("R_PARAMETER", Under.from)})
  /\ Continue("ParameterEnd", SubSeq(stack, 1, Len(stack) - 2))

ParseParameterComma ==
  /\ pc = "ParameterEnd"
  /\ current = "COMMA"
  /\ Consume({})
  /\ Continue("ParameterList", WithTop([Top EXCEPT !.previous = "Comma"]))

ParametersEnd ==
  \/ pc = "ParameterList" /\ current = "R_PAREN" /\ Top.previous = "Open"
  \/ pc = "ParameterEnd" /\ current # "COMMA"

ParametersParsed ==
  /\ ParametersEnd
  /\ current = "R_PAREN"
  /\ Consume({NodeBefore("R_PARAMETER_LIST", Top.from + 1),
              NodeWith("R_PARAMETERS", Top.from)})
  /\ Leave("Prefix", WithTop(Expression(FUNCTION_BODY_BP)))

\* The parameter list is complete, but `)' is not there.
ParametersUnclosed ==
  /\ ParametersEnd
  /\ current # "R_PAREN"
  /\ nodes' = nodes \cup {NodeBefore("R_PARAMETER_LIST", Top.from + 1)}
  /\ Fail
  /\ UNCHANGED sourceVars

-----------------------------------------------------------------------------
(* calls.rs: calls, subsets and their arguments *)

CloserOf == [L_PAREN |-> "R_PAREN", L_BRACK |-> "R_BRACK", L_BRACK2 |-> "R_BRACK2"]

CallNode      == [R_PAREN |-> "R_CALL", R_BRACK |-> "R_SUBSET", R_BRACK2 |-> "R_SUBSET2"]
ArgumentsNode == [R_PAREN  |-> "R_CALL_ARGUMENTS", R_BRACK |-> "R_SUBSET_ARGUMENTS",
                  R_BRACK2 |-> "R_SUBSET2_ARGUMENTS"]

ParseCallLike ==
  /\ Returned("Expression")
  /\ Continues(Top.bp)
  /\ current \in CallOpeners
  /\ Consume({})
  /\ Enter(FALSE, "Arguments", stack \o <<Call("Call", value.first),
                                      List("Arguments", at, CloserOf[current])>>)

\* For `[[' a single `]' starts the close.
AtClose(close) == current = IF close = "R_BRACK2" THEN "R_BRACK" ELSE close

AtArgumentsEnd(close) == AtClose(close) \/ current = "EOF"

EmptyArgument == NodeOver("R_ARGUMENT", at, at - 1)

\* Mutant: no hole after a trailing comma.
ArgumentListParsedNoHole ==
  /\ pc = "Arguments"
  /\ AtArgumentsEnd(Top.close)
  /\ Complete({NodeBefore("R_ARGUMENT_LIST", Top.from + 1)})
  /\ Continue("CallClose", stack)

ArgumentListParsed ==
  /\ pc = "Arguments"
  /\ AtArgumentsEnd(Top.close)
  /\ Complete({NodeBefore("R_ARGUMENT_LIST", Top.from + 1)}
                \cup IF Top.previous = "Comma" THEN {EmptyArgument} ELSE {})
  /\ Continue("CallClose", stack)

ParseArgumentComma ==
  /\ pc = "Arguments"
  /\ ~AtArgumentsEnd(Top.close)
  /\ current = "COMMA"
  /\ Consume(IF Top.previous # "Argument" THEN {EmptyArgument} ELSE {})
  /\ Continue("Arguments", WithTop([Top EXCEPT !.previous = "Comma"]))

ArgumentsNotSeparated ==
  /\ pc = "Arguments"
  /\ ~AtArgumentsEnd(Top.close)
  /\ current # "COMMA"
  /\ Top.previous = "Argument"
  /\ Expected

ParseArgument ==
  LET frames == Append(stack, Call("Argument", at)) IN
  /\ pc = "Arguments"
  /\ ~AtArgumentsEnd(Top.close)
  /\ current # "COMMA"
  /\ Top.previous # "Argument"
  /\ \/ /\ current \in ArgumentNameStart
        /\ ParseValue(Append(frames, Call("ArgumentName", at)))
     \/ /\ current \notin ArgumentNameStart
        /\ Complete({})
        /\ Continue("Prefix", Append(frames, Expression(0)))

\* A following `=' turns the would-be name into a name clause ...
ParseArgumentEqual ==
  /\ Returned("ArgumentName")
  /\ current = "EQUAL"
  /\ Consume({NodeWith("R_ARGUMENT_NAME_CLAUSE", value.first)})
  /\ Continue("ArgumentValue", Below)

\* ... otherwise it is the left operand of the value.
ParseArgumentRest ==
  /\ Returned("ArgumentName")
  /\ current # "EQUAL"
  /\ Complete({})
  /\ Return(value, WithTop(Expression(0)))

\* The value is optional: `f(a = )'.
HasNoValue == current = "COMMA" \/ AtArgumentsEnd(Under.close)

ParseArgumentValue ==
  /\ pc = "ArgumentValue"
  /\ ~HasNoValue
  /\ Complete({})
  /\ Continue("Prefix", Append(stack, Expression(0)))

ArgumentParsed ==
  /\ \/ pc = "ArgumentValue" /\ HasNoValue
     \/ Returned("Argument")
  /\ Complete({NodeBefore("R_ARGUMENT", Top.from)})
  /\ Continue("Arguments",
       Append(SubSeq(stack, 1, Len(stack) - 2), [Under EXCEPT !.previous = "Argument"]))

\* expect_close: two adjacent `]' are glued before `]]' is bumped.
GlueClose ==
  /\ pc = "CallClose"
  /\ Top.close = "R_BRACK2"
  /\ current # "R_BRACK2"
  /\ TryGlueRightBracket2(TRUE)
  /\ Continue("CallClose", stack)
  /\ UNCHANGED <<diagnostics, nodes>>

CannotGlue ==
  /\ pc = "CallClose"
  /\ Top.close = "R_BRACK2"
  /\ current # "R_BRACK2"
  /\ TryGlueRightBracket2(FALSE)
  /\ Fail
  /\ UNCHANGED nodes

CallUnclosed ==
  /\ pc = "CallClose"
  /\ Top.close # "R_BRACK2"
  /\ current # Top.close
  /\ Expected

CallParsed ==
  LET node == NodeWith(CallNode[Top.close], Under.from) IN
  /\ pc = "CallClose"
  /\ current = Top.close
  /\ Consume({NodeWith(ArgumentsNode[Top.close], Top.from), node})
  /\ PopSignificance
  /\ Yield(node, SubSeq(stack, 1, Len(stack) - 2))

-----------------------------------------------------------------------------
(* The parser as a whole *)

ParserInit ==
  /\ SourceInit
  /\ pc = "Root"
  /\ stack = <<Call("Root", 1)>>
  /\ value = NodeOver("R_ROOT", 0, 0)
  /\ significance = <<TRUE>>
  /\ diagnostics = <<>>
  /\ nodes = {}

GrammarMod == \/ ParseRoot \/ RootParsed \/ ParseStatement \/ StatementParsed \/ EndList
              \/ RecoverStatement \/ SkipToken \/ Recovered

GrammarExpressions ==
  \/ ParseUnary \/ ParseConstruct \/ ParsePrefixValue \/ ParseNoPrefix \/ EndExpression
  \/ ParseBinary \/ ParseExtract \/ ParseNamespace \/ ParseNamespaceOfOther
  \/ ParseSelector \/ ParseNoSelector \/ LastPartParsed
  \/ ParseStringContent \/ ParseStringClose \/ ParseStringUnterminated

GrammarControl ==
  \/ ParseParenthesized \/ ParenthesizedParsed \/ ParseBraces \/ BracesParsed
  \/ ExpectCloseFails \/ ParseCondition \/ ExpectOpenFails \/ HeaderParsed
  \/ ParseElse \/ IfParsed \/ IfElseParsed
  \/ ParseForHeader \/ ParseForVariable \/ ParseForIn \/ ForHeaderFails

GrammarFunctions ==
  \/ ParseParameters \/ ParseParameterName \/ ParameterFails
  \/ ParseParameterDefault \/ ParseParameterNoDefault \/ ParameterDefaultParsed
  \/ ParseParameterComma \/ ParametersParsed \/ ParametersUnclosed

GrammarCalls ==
  \/ ParseCallLike \/ ArgumentListParsed \/ ParseArgumentComma \/ ArgumentsNotSeparated
  \/ ParseArgument \/ ParseArgumentEqual \/ ParseArgumentRest \/ ParseArgumentValue
  \/ ArgumentParsed \/ GlueClose \/ CannotGlue \/ CallUnclosed \/ CallParsed

\* The parse is over; nothing more happens.
Finished == pc = "Done" /\ UNCHANGED vars

ParserNext == \/ Propagate \/ GrammarMod \/ GrammarExpressions \/ GrammarControl
              \/ GrammarFunctions \/ GrammarCalls \/ Finished

ParserSpec == ParserInit /\ [][ParserNext]_vars /\ WF_vars(ParserNext)

-----------------------------------------------------------------------------
(* Properties of the machine *)

\* The functions that call a function.
Operands == DOMAIN LastPartNode \ {"Extract", "Namespace"}

Callers ==
  [fn \in Functions |->
     CASE fn = "ExpressionList" -> {"Root", "Braces"}
       [] fn = "Statement"      -> {"ExpressionList"}
       [] fn = "Expression"     -> Operands \cup {"Statement", "Parenthesized", "Condition",
                                     "ForHeader", "If", "Else", "Default", "Argument"}
       [] fn = "String"         -> {"Expression", "Extract", "Namespace", "ArgumentName"}
       [] fn = "Condition"      -> {"If", "While"}
       [] fn = "ForHeader"      -> {"For"}
       [] fn = "Parameters"     -> {"FunctionDefinition"}
       [] fn = "Parameter"      -> {"Parameters"}
       [] fn = "Default"        -> {"Parameter"}
       [] fn = "Else"           -> {"If"}
       [] fn = "Arguments"      -> {"Call"}
       [] fn = "Argument"       -> {"Arguments"}
       [] fn = "ArgumentName"   -> {"Argument"}
       [] fn = "Root"           -> {}
       [] OTHER                 -> {"Expression"}]

\* What may be on top of the stack at each step.
Steps == [Root          |-> {"Root"},
          Done          |-> {"Root"},
          List          |-> {"ExpressionList"},
          Recover       |-> {"Statement"},
          Prefix        |-> {"Expression"},
          Selector      |-> {"Extract", "Namespace"},
          String        |-> {"String"},
          StringEnd     |-> {"String"},
          Condition     |-> {"If", "While"},
          ForHeader     |-> {"For"},
          ForVariable   |-> {"ForHeader"},
          ForIn         |-> {"ForHeader"},
          Parameters    |-> {"FunctionDefinition"},
          ParameterList |-> {"Parameters"},
          ParameterName |-> {"Parameter"},
          ParameterEnd  |-> {"Parameters"},
          Arguments     |-> {"Arguments"},
          ArgumentValue |-> {"Argument"},
          CallClose     |-> {"Arguments"},
          Return        |-> Callers["Expression"] \cup Callers["String"] \cup {"Root", "Braces"},
          Fail          |-> Functions \ {"Root", "ExpressionList"}]

\* Every frame waits for a function that it calls: what is returned, and what
\* fails, reaches the caller that expects it.
CallsFit ==
  /\ Len(stack) > 0
  /\ stack[1].fn = "Root"
  /\ \A i \in 2 .. Len(stack) : stack[i - 1].fn \in Callers[stack[i].fn]
  /\ Top.fn \in Steps[pc]

TypeOK ==
  /\ SourceTypeOK
  /\ pc \in DOMAIN Steps
  /\ stack \in Seq(Frame)
  /\ value \in Node
  /\ significance \in Seq(BOOLEAN)
  /\ diagnostics \in Seq(Nat)
  /\ nodes \subseteq Node
  /\ CallsFit

\* The brackets whose functions are running, among the first i frames.
OpenBracketFrames(i) == {j \in 1 .. i : stack[j].fn \in Bracketing}

Depth(i) == 1 + Cardinality(OpenBracketFrames(i))

\* The significance stack is at all times that of the brackets whose functions
\* are still running: whichever way they are left, by success, by a missing
\* close delimiter or by an error deep inside them, each pops what it pushed,
\* so that an error never changes how the rest of the file is split into
\* statements.
SignificanceMatchesStack ==
  /\ Len(significance) = Depth(Len(stack))
  /\ significance[1]
  /\ \A i \in OpenBracketFrames(Len(stack)) :
       significance[Depth(i)] <=> stack[i].fn = "Braces"

\* A function returns None only with an error on record at the current token,
\* and nothing is consumed between the error and the recovery.
FailureIsRecorded ==
  pc = "Fail" => diagnostics # <<>> /\ diagnostics[Len(diagnostics)] = at

=============================================================================
