------------------------- MODULE RParserCommas_proofs -------------------------
(***************************************************************************)
(* Proof that commas separate the arguments of a text without errors, for  *)
(* every alphabet and every length of the text: which steps have to do     *)
(* with neither arguments nor commas, how deep in brackets the arguments   *)
(* are, and that each list is counted as it is parsed.                     *)
(***************************************************************************)
EXTENDS RParserTree_proofs

-----------------------------------------------------------------------------
(* Steps that have to do with neither arguments nor commas *)

ArgumentFns == {"Arguments", "Argument"}

ArgumentKinds == {"R_ARGUMENT", "R_ARGUMENT_LIST"}

\* The functions of t that parse arguments are those of the stack, and stand
\* on the same functions.
Kept(t) ==
  /\ t \in Seq(Frame)
  /\ \A i \in 1 .. Len(t) :
       t[i].fn \in ArgumentFns => i <= Len(stack) /\ \A k \in 1 .. i : t[k] = stack[k]

\* A quiet step adds no argument, no list of them and no function that parses
\* them, and consumes no comma.
QuietStep ==
  /\ Kept(stack')
  /\ NodesOf(ArgumentKinds)' = NodesOf(ArgumentKinds)
  /\ \/ Bump /\ current # "COMMA"
     \/ at' = at
  /\ {pc, pc'} \cap {"Arguments", "CallClose"} = {}
  /\ pc' = "ArgumentValue" => at < at'

OtherFns == Functions \ ArgumentFns

LEMMA OtherFnsAre ==
  OtherFns = {"Parenthesized", "Condition", "ForHeader", "Parameters", "Braces",
              "FunctionDefinition", "For", "While", "Repeat", "Unary", "Binary", "Extract",
              "Namespace", "Root", "ExpressionList", "Statement", "Expression", "String",
              "Call", "If", "Else", "Parameter", "Default", "ArgumentName"}
BY FunctionsAre DEF OtherFns, ArgumentFns

QuietFrames == {f \in Frame : f.fn \in OtherFns}

LEMMA QuietFramesAre ==
  /\ \A fn \in OtherFns, from \in Nat : Call(fn, from) \in QuietFrames
  /\ \A fn \in OtherFns, from \in Nat, close \in Closers : List(fn, from, close) \in QuietFrames
  /\ \A bp \in 0 .. MaxPower : Expression(bp) \in QuietFrames
<1>1. OtherFns \subseteq Functions
  BY DEF OtherFns
<1>2. \A fn \in OtherFns, from \in Nat : Call(fn, from) \in QuietFrames
  BY <1>1, FrameTypes DEF QuietFrames
<1>3. \A fn \in OtherFns, from \in Nat, close \in Closers : List(fn, from, close) \in QuietFrames
  BY <1>1, FrameTypes DEF QuietFrames
<1>4. "Expression" \in OtherFns
  BY OtherFnsAre
<1> QED BY <1>2, <1>3, <1>4, FrameTypes DEF QuietFrames

LEMMA KeptPush ==
  ASSUME NEW s, Kept(s), NEW f \in QuietFrames
  PROVE  Kept(Append(s, f))
<1>1. s \in Seq(Frame) /\ Len(s) \in Nat /\ f \in Frame /\ f.fn \notin ArgumentFns
  BY DEF Kept, QuietFrames, OtherFns
<1>2. /\ Append(s, f) \in Seq(Frame) /\ Len(Append(s, f)) = Len(s) + 1
      /\ Append(s, f)[Len(s) + 1] = f
      /\ \A i \in 1 .. Len(s) : Append(s, f)[i] = s[i]
  BY <1>1, AppendProperties
<1> DEFINE t == Append(s, f)
<1> HIDE DEF t
<1>3. ASSUME NEW i \in 1 .. Len(t), t[i].fn \in ArgumentFns
      PROVE  i <= Len(stack) /\ \A k \in 1 .. i : t[k] = stack[k]
  <2>1. i \in 1 .. Len(s)
    BY <1>1, <1>2, <1>3 DEF t
  <2>2. \A k \in 1 .. i : k \in 1 .. Len(s) /\ t[k] = s[k]
    BY <1>1, <1>2, <2>1 DEF t
  <2>3. t[i] = s[i]
    BY <2>1, <2>2
  <2> QED BY <1>3, <2>1, <2>2, <2>3 DEF Kept
<1>4. Kept(t)
  BY <1>2, <1>3 DEF Kept, t
<1> QED BY <1>4 DEF t

LEMMA KeptPushTwo ==
  ASSUME NEW s, Kept(s), NEW f \in QuietFrames, NEW g \in QuietFrames
  PROVE  Kept(s \o <<f, g>>)
<1>1. Kept(Append(Append(s, f), g))
  BY KeptPush
<1>2. s \o <<f, g>> = Append(Append(s, f), g)
  BY DEF Kept
<1> QED BY <1>1, <1>2

LEMMA KeptPop ==
  ASSUME NEW s, Kept(s), Len(s) > 0
  PROVE  Kept(Popped(s)) /\ Len(Popped(s)) = Len(s) - 1
<1>1. /\ Popped(s) \in Seq(Frame) /\ Len(Popped(s)) = Len(s) - 1 /\ Len(s) - 1 \in Nat
      /\ \A i \in 1 .. Len(s) - 1 : Popped(s)[i] = s[i]
  BY PoppedProperties DEF Kept
<1> DEFINE t == Popped(s)
<1> HIDE DEF t
<1>2. ASSUME NEW i \in 1 .. Len(t), t[i].fn \in ArgumentFns
      PROVE  i <= Len(stack) /\ \A k \in 1 .. i : t[k] = stack[k]
  <2>1. i \in 1 .. Len(s) /\ \A k \in 1 .. i : t[k] = s[k]
    BY <1>1 DEF t
  <2>2. t[i] = s[i]
    BY <2>1
  <2> QED BY <1>2, <2>1, <2>2 DEF Kept
<1>3. Kept(t)
  BY <1>1, <1>2 DEF Kept, t
<1> QED BY <1>1, <1>3 DEF t

\* The stacks that a step may leave.
LEMMA KeptStacks ==
  ASSUME ParserInv
  PROVE  /\ Kept(stack) /\ Kept(Below)
         /\ \A f \in QuietFrames : Kept(Append(stack, f)) /\ Kept(WithTop(f))
         /\ \A f, g \in QuietFrames : Kept(stack \o <<f, g>>)
         /\ Top.fn # "Root" => Kept(SubSeq(stack, 1, Len(stack) - 2))
<1>1. /\ Below = Popped(stack) /\ Chain(stack) /\ Len(stack) > 0 /\ stack \in Seq(Frame)
      /\ Top = stack[Len(stack)]
  BY InvFacts DEF Top
<1>2. Kept(stack)
  BY <1>1 DEF Kept
<1>3. Kept(Below) /\ Len(Below) = Len(stack) - 1
  BY <1>1, <1>2, KeptPop
<1>4. \A f \in QuietFrames : Kept(Append(stack, f)) /\ Kept(WithTop(f))
  BY <1>2, <1>3, KeptPush DEF WithTop
<1>5. \A f, g \in QuietFrames : Kept(stack \o <<f, g>>)
  BY <1>2, KeptPushTwo
<1>6. ASSUME Top.fn # "Root" PROVE Kept(SubSeq(stack, 1, Len(stack) - 2))
  <2>1. Len(stack) > 1
    BY <1>1, <1>6, ChainPop
  <2>2. Kept(Popped(Below))
    BY <1>1, <1>3, <2>1, KeptPop
  <2>3. SubSeq(stack, 1, Len(stack) - 2) = Popped(Below)
    BY <1>1, <2>1, TwoPopped
  <2> QED BY <2>2, <2>3, Zenon
<1> QED BY <1>2, <1>3, <1>4, <1>5, <1>6

LEMMA QuietKinds ==
  /\ \A fn \in DOMAIN LastPartNode : LastPartNode[fn] \notin ArgumentKinds
  /\ \A kind \in ValueStart : ValueNode(kind) \notin ArgumentKinds
  /\ \A close \in DOMAIN CallNode : /\ CallNode[close] \notin ArgumentKinds
                                    /\ ArgumentsNode[close] \notin ArgumentKinds
  /\ "COMMA" \notin UnaryOperators \cup BinaryOperators \cup Extractors \cup Namespacers
                      \cup CallOpeners \cup ValueStart \cup Keywords
  BY DEF LastPartNode, ValueStart, ValueNode, CallNode, ArgumentsNode, UnaryOperators,
         UnaryPower, BinaryOperators, BinaryPower, Extractors, Namespacers, CallOpeners,
         Keywords, ValueKeywords, ConstructKeywords, Identifiers, Dots, ArgumentKinds

LEMMA QuietConsume ==
  ASSUME ParserInv, NEW completed, Consume(completed),
         \A n \in completed : n.kind \notin ArgumentKinds,
         current # "COMMA", Kept(stack'),
         pc \notin {"Arguments", "CallClose"}, pc' \notin {"Arguments", "CallClose"}
  PROVE  QuietStep
<1>1. nodes' = nodes \cup completed /\ at < at'
  BY Consumed
<1>2. NodesOf(ArgumentKinds)' = NodesOf(ArgumentKinds)
  BY <1>1 DEF NodesOf
<1>3. Bump
  BY DEF Consume
<1> QED BY <1>1, <1>2, <1>3 DEF QuietStep

LEMMA QuietComplete ==
  ASSUME ParserInv, NEW completed, Complete(completed),
         \A n \in completed : n.kind \notin ArgumentKinds, Kept(stack'),
         pc \notin {"Arguments", "CallClose"},
         pc' \notin {"Arguments", "CallClose", "ArgumentValue"}
  PROVE  QuietStep
<1>1. nodes' = nodes \cup completed /\ at' = at
  BY Completed
<1>2. NodesOf(ArgumentKinds)' = NodesOf(ArgumentKinds)
  BY <1>1 DEF NodesOf
<1> QED BY <1>1, <1>2 DEF QuietStep

LEMMA QuietValue ==
  ASSUME ParserInv, NEW frames, Kept(frames), ParseValue(frames),
         pc \notin {"Arguments", "CallClose"}
  PROVE  QuietStep
<1> USE DEF Continue, Goto, Return, Yield
<1>0. at \in Nat
  BY InvFacts
<1>1. CASE current = "STRING_OPEN"
  <2>1. Consume({}) /\ stack' = Append(frames, Call("String", at)) /\ pc' = "String"
    BY <1>1 DEF ParseValue
  <2>2. Call("String", at) \in QuietFrames
    BY <1>0, QuietFramesAre, OtherFnsAre
  <2>3. Kept(stack')
    BY <2>1, <2>2, KeptPush
  <2> QED BY <1>1, <2>1, <2>3, QuietConsume
<1>2. CASE current # "STRING_OPEN"
  <2>1. /\ Consume({NodeWith(ValueNode(current), at)}) /\ stack' = frames /\ pc' = "Return"
        /\ current \in ValueStart
    BY <1>2 DEF ParseValue
  <2>2. current # "COMMA" /\ ValueNode(current) \notin ArgumentKinds
    BY <2>1, QuietKinds
  <2>3. NodeWith(ValueNode(current), at).kind \notin ArgumentKinds
    BY <2>2 DEF NodeWith, NodeOver
  <2> QED BY <2>1, <2>2, <2>3, QuietConsume
<1> QED BY <1>1, <1>2

LEMMA ModQuiet ==
  ASSUME ParserInv, ParseRoot \/ RootParsed \/ ParseStatement \/ StatementParsed \/ EndList
  PROVE  QuietStep
<1> USE DEF Continue, Goto, Return, Yield
<1>0. at \in Nat /\ CurrentEnd + 1 \in Nat /\ stack \in Seq(Frame)
  BY InvFacts
<1>1. /\ Kept(stack) /\ Kept(Below)
      /\ \A f \in QuietFrames : Kept(Append(stack, f)) /\ Kept(WithTop(f))
      /\ \A f, g \in QuietFrames : Kept(stack \o <<f, g>>)
  BY KeptStacks
<1>2. CASE ParseRoot
  <2>1. "ExpressionList" \in OtherFns /\ "EOF" \in Closers
    BY OtherFnsAre DEF Closers
  <2>2. /\ List("ExpressionList", CurrentEnd + 1, "EOF") \in QuietFrames
        /\ List("ExpressionList", at, "EOF") \in QuietFrames
    BY <1>0, <2>1, QuietFramesAre
  <2>3. Kept(stack') /\ pc = "Root" /\ pc' = "List"
    BY <1>1, <1>2, <2>2 DEF ParseRoot
  <2>4. CASE current = "UNICODE_BOM"
    <3>1. Consume({})
      BY <1>2, <2>4 DEF ParseRoot
    <3> QED BY <2>3, <2>4, <3>1, QuietConsume
  <2>5. CASE current # "UNICODE_BOM"
    <3>1. Complete({})
      BY <1>2, <2>5 DEF ParseRoot
    <3> QED BY <2>3, <3>1, QuietComplete
  <2> QED BY <2>4, <2>5
<1>3. CASE RootParsed
  <2>1. /\ Complete({NodeBefore("R_ROOT", Top.from)}) /\ pc = "Return" /\ pc' = "Done"
        /\ stack' = stack
    BY <1>3 DEF RootParsed, Returned
  <2>2. NodeBefore("R_ROOT", Top.from).kind \notin ArgumentKinds
    BY DEF NodeBefore, NodeOver, ArgumentKinds
  <2> QED BY <1>1, <2>1, <2>2, QuietComplete
<1>4. CASE ParseStatement
  <2>1. /\ stack' = stack \o <<Call("Statement", at), Expression(0)>>
        /\ pc = "List" /\ pc' = "Prefix" /\ nodes' = nodes /\ at' = at
    BY <1>4 DEF ParseStatement, BlessSemicolons
  <2>2. "Statement" \in OtherFns
    BY OtherFnsAre
  <2>3. Call("Statement", at) \in QuietFrames /\ Expression(0) \in QuietFrames
    BY <1>0, <2>2, QuietFramesAre, PowerTypes
  <2> HIDE DEF Continue, Goto, Return, Yield
  <2>4. Kept(stack')
    BY <1>1, <2>1, <2>3
  <2>5. NodesOf(ArgumentKinds)' = NodesOf(ArgumentKinds)
    BY <2>1 DEF NodesOf
  <2> QED BY <2>1, <2>4, <2>5 DEF QuietStep
<1>5. CASE StatementParsed
  <2>1. Complete({}) /\ stack' = Below /\ pc = "Return" /\ pc' = "List"
    BY <1>5 DEF StatementParsed, Returned
  <2> QED BY <1>1, <2>1, QuietComplete
<1>6. CASE EndList
  <2>1. /\ nodes' = nodes \cup {NodeBefore("R_EXPRESSION_LIST", Top.from)} /\ at' = at
        /\ stack' = Below /\ pc = "List" /\ pc' = "Return"
    BY <1>6 DEF EndList, BlessSemicolons
  <2>2. NodeBefore("R_EXPRESSION_LIST", Top.from).kind \notin ArgumentKinds
    BY DEF NodeBefore, NodeOver, ArgumentKinds
  <2>3. NodesOf(ArgumentKinds)' = NodesOf(ArgumentKinds)
    BY <2>1, <2>2 DEF NodesOf
  <2> QED BY <1>1, <2>1, <2>3 DEF QuietStep
<1> QED BY <1>2, <1>3, <1>4, <1>5, <1>6

LEMMA ExpressionsQuiet ==
  ASSUME ParserInv,
         \/ ParseUnary \/ ParseConstruct \/ ParsePrefixValue \/ EndExpression \/ ParseBinary
         \/ ParseExtract \/ ParseNamespace \/ ParseSelector \/ ParseNoSelector
         \/ LastPartParsed \/ ParseStringContent \/ ParseStringClose
  PROVE  QuietStep
<1> USE DEF Continue, Goto, Return, Yield
<1>0. at \in Nat /\ value.first \in Nat
  BY InvFacts
<1>1. /\ Kept(stack) /\ Kept(Below)
      /\ \A f \in QuietFrames : Kept(Append(stack, f)) /\ Kept(WithTop(f))
      /\ \A f, g \in QuietFrames : Kept(stack \o <<f, g>>)
  BY KeptStacks
<1>2. /\ \A fn \in OtherFns : Call(fn, at) \in QuietFrames /\ Call(fn, value.first) \in QuietFrames
      /\ \A bp \in 0 .. MaxPower : Expression(bp) \in QuietFrames
  BY <1>0, QuietFramesAre
<1>3. CASE ParseUnary
  <2>1. /\ Consume({}) /\ pc = "Prefix" /\ pc' = "Prefix" /\ current \in UnaryOperators
        /\ stack' = stack \o <<Call("Unary", at), Expression(UnaryPower[current])>>
    BY <1>3 DEF ParseUnary
  <2>2. Call("Unary", at) \in QuietFrames /\ Expression(UnaryPower[current]) \in QuietFrames
    BY <1>2, <2>1, OtherFnsAre, PowerTypes
  <2>3. Kept(stack') /\ current # "COMMA"
    BY <1>1, <2>1, <2>2, QuietKinds
  <2> QED BY <2>1, <2>3, QuietConsume
<1>4. CASE ParseConstruct
  <2>1. /\ Consume({}) /\ pc = "Prefix" /\ pc' \notin {"Arguments", "CallClose"}
        /\ current # "COMMA"
    BY <1>4 DEF ParseConstruct
  <2>2. CASE current = "REPEAT_KW"
    <3>1. stack' = stack \o <<Call("Repeat", at), Expression(FUNCTION_BODY_BP)>>
      BY <1>4, <2>2 DEF ParseConstruct
    <3>2. Call("Repeat", at) \in QuietFrames /\ Expression(FUNCTION_BODY_BP) \in QuietFrames
      BY <1>2, OtherFnsAre, PowerTypes
    <3>3. Kept(stack')
      BY <1>1, <3>1, <3>2
    <3> QED BY <2>1, <3>3, QuietConsume
  <2>3. CASE current # "REPEAT_KW"
    <3>1. PICK fn \in {"FunctionDefinition", "If", "While", "For"} :
            stack' = Append(stack, Call(fn, at))
      BY <1>4, <2>3 DEF ParseConstruct
    <3>2. Call(fn, at) \in QuietFrames
      BY <1>2, OtherFnsAre
    <3> QED BY <1>1, <2>1, <3>1, <3>2, QuietConsume
  <2> QED BY <2>2, <2>3
<1>5. CASE ParsePrefixValue \/ ParseSelector
  <2>1. ParseValue(stack) /\ pc \notin {"Arguments", "CallClose"}
    BY <1>5 DEF ParsePrefixValue, ParseSelector
  <2> QED BY <1>1, <2>1, QuietValue
<1>6. CASE EndExpression
  <2>1. Complete({}) /\ stack' = Below /\ pc = "Return" /\ pc' = "Return"
    BY <1>6 DEF EndExpression, Returned
  <2> QED BY <1>1, <2>1, QuietComplete
<1>7. CASE ParseBinary
  <2>1. /\ Consume({}) /\ pc = "Return" /\ pc' = "Prefix" /\ current \in BinaryOperators
        /\ stack' = stack \o <<Call("Binary", value.first), Expression(BinaryPower[current][2])>>
    BY <1>7 DEF ParseBinary, Returned
  <2>2. /\ Call("Binary", value.first) \in QuietFrames
        /\ Expression(BinaryPower[current][2]) \in QuietFrames
    BY <1>2, <2>1, OtherFnsAre, PowerTypes
  <2>3. Kept(stack') /\ current # "COMMA"
    BY <1>1, <2>1, <2>2, QuietKinds
  <2> QED BY <2>1, <2>3, QuietConsume
<1>8. CASE ParseExtract \/ ParseNamespace
  <2>1. PICK fn \in {"Extract", "Namespace"} : stack' = Append(stack, Call(fn, value.first))
    BY <1>8 DEF ParseExtract, ParseNamespace
  <2>2. Consume({}) /\ pc = "Return" /\ pc' = "Selector" /\ current # "COMMA"
    BY <1>8, QuietKinds DEF ParseExtract, ParseNamespace, Returned
  <2>3. Call(fn, value.first) \in QuietFrames
    BY <1>2, OtherFnsAre
  <2> QED BY <1>1, <2>1, <2>2, <2>3, QuietConsume
<1>9. CASE ParseNoSelector \/ LastPartParsed
  <2>1. /\ Complete({NodeBefore(LastPartNode[Top.fn], Top.from)}) /\ stack' = Below
        /\ pc \in {"Selector", "Return"} /\ pc' = "Return"
    BY <1>9 DEF ParseNoSelector, LastPartParsed
  <2>2. Top.fn \in DOMAIN LastPartNode
    BY <1>9, TopAt, LastPartFunctions DEF ParseNoSelector, LastPartParsed
  <2>3. NodeBefore(LastPartNode[Top.fn], Top.from).kind \notin ArgumentKinds
    BY <2>2, QuietKinds DEF NodeBefore, NodeOver
  <2> QED BY <1>1, <2>1, <2>3, QuietComplete
<1>10. CASE ParseStringContent
  <2>1. /\ Consume({}) /\ stack' = stack /\ pc = "String" /\ pc' = "StringEnd"
        /\ current # "COMMA"
    BY <1>10 DEF ParseStringContent
  <2> QED BY <1>1, <2>1, QuietConsume
<1>11. CASE ParseStringClose
  <2>1. /\ Consume({NodeWith("R_STRING_VALUE", Top.from)}) /\ stack' = Below
        /\ pc \in {"String", "StringEnd"} /\ pc' = "Return" /\ current # "COMMA"
    BY <1>11 DEF ParseStringClose
  <2>2. NodeWith("R_STRING_VALUE", Top.from).kind \notin ArgumentKinds
    BY DEF NodeWith, NodeOver, ArgumentKinds
  <2> QED BY <1>1, <2>1, <2>2, QuietConsume
<1> QED BY <1>3, <1>4, <1>5, <1>6, <1>7, <1>8, <1>9, <1>10, <1>11

LEMMA ControlQuiet ==
  ASSUME ParserInv,
         \/ ParseParenthesized \/ ParenthesizedParsed \/ ParseBraces \/ BracesParsed
         \/ ParseCondition \/ HeaderParsed \/ ParseElse \/ IfParsed \/ IfElseParsed
         \/ ParseForHeader \/ ParseForVariable \/ ParseForIn
  PROVE  QuietStep
<1> USE DEF Continue, Goto, Enter, Leave, Return, Yield
<1>0. at \in Nat /\ CurrentEnd + 1 \in Nat
  BY InvFacts
<1>1. /\ Kept(stack) /\ Kept(Below)
      /\ \A f \in QuietFrames : Kept(Append(stack, f)) /\ Kept(WithTop(f))
      /\ \A f, g \in QuietFrames : Kept(stack \o <<f, g>>)
  BY KeptStacks
<1>2. /\ \A fn \in OtherFns : Call(fn, at) \in QuietFrames
      /\ \A bp \in 0 .. MaxPower : Expression(bp) \in QuietFrames
  BY <1>0, QuietFramesAre
<1>3. CASE ParseParenthesized \/ ParseCondition
  <2>1. PICK fn \in {"Parenthesized", "Condition"} :
          stack' = stack \o <<Call(fn, at), Expression(0)>>
    BY <1>3 DEF ParseParenthesized, ParseCondition
  <2>2. Consume({}) /\ pc \notin {"Arguments", "CallClose"} /\ pc' = "Prefix" /\ current # "COMMA"
    BY <1>3 DEF ParseParenthesized, ParseCondition
  <2>3. Call(fn, at) \in QuietFrames /\ Expression(0) \in QuietFrames
    BY <1>2, OtherFnsAre, PowerTypes
  <2>4. Kept(stack')
    BY <1>1, <2>1, <2>3
  <2> QED BY <2>2, <2>4, QuietConsume
<1>4. CASE ParenthesizedParsed \/ BracesParsed
  <2>1. PICK kind \in {"R_PARENTHESIZED_EXPRESSION", "R_BRACED_EXPRESSIONS"} :
          Consume({NodeWith(kind, Top.from)})
    BY <1>4 DEF ParenthesizedParsed, BracesParsed
  <2>2. /\ stack' = Below /\ pc = "Return" /\ pc' = "Return" /\ current # "COMMA"
    BY <1>4 DEF ParenthesizedParsed, BracesParsed, Returned
  <2>3. NodeWith(kind, Top.from).kind \notin ArgumentKinds
    BY DEF NodeWith, NodeOver, ArgumentKinds
  <2> QED BY <1>1, <2>1, <2>2, <2>3, QuietConsume
<1>5. CASE ParseBraces
  <2>1. /\ Consume({}) /\ pc = "Prefix" /\ pc' = "List" /\ current # "COMMA"
        /\ stack' = stack \o <<Call("Braces", at),
                               List("ExpressionList", CurrentEnd + 1, "R_CURLY")>>
    BY <1>5 DEF ParseBraces
  <2>2. "R_CURLY" \in Closers /\ {"Braces", "ExpressionList"} \subseteq OtherFns
    BY OtherFnsAre DEF Closers
  <2>3. /\ Call("Braces", at) \in QuietFrames
        /\ List("ExpressionList", CurrentEnd + 1, "R_CURLY") \in QuietFrames
    BY <1>0, <2>2, QuietFramesAre
  <2>4. Kept(stack')
    BY <1>1, <2>1, <2>3
  <2> QED BY <2>1, <2>4, QuietConsume
<1>6. CASE HeaderParsed
  <2>1. /\ Consume({}) /\ pc = "Return" /\ pc' = "Prefix" /\ current # "COMMA"
        /\ stack' = WithTop(Expression(BodyPower(Under.fn)))
    BY <1>6 DEF HeaderParsed, Returned
  <2>2. Expression(BodyPower(Under.fn)) \in QuietFrames
    BY <1>2, PowerTypes DEF BodyPower
  <2> QED BY <1>1, <2>1, <2>2, QuietConsume
<1>7. CASE ParseElse
  <2>1. /\ Consume({}) /\ pc = "Return" /\ pc' = "Prefix" /\ current # "COMMA"
        /\ stack' = stack \o <<Call("Else", at), Expression(IF_BODY_BP)>>
    BY <1>7 DEF ParseElse, Returned, ElseAllowed
  <2>2. Call("Else", at) \in QuietFrames /\ Expression(IF_BODY_BP) \in QuietFrames
    BY <1>2, OtherFnsAre, PowerTypes
  <2>3. Kept(stack')
    BY <1>1, <2>1, <2>2
  <2> QED BY <2>1, <2>3, QuietConsume
<1>8. CASE IfParsed
  <2>1. /\ Complete({NodeBefore("R_IF_STATEMENT", Top.from)}) /\ stack' = Below
        /\ pc = "Return" /\ pc' = "Return"
    BY <1>8 DEF IfParsed, Returned
  <2>2. NodeBefore("R_IF_STATEMENT", Top.from).kind \notin ArgumentKinds
    BY DEF NodeBefore, NodeOver, ArgumentKinds
  <2> QED BY <1>1, <2>1, <2>2, QuietComplete
<1>9. CASE IfElseParsed
  <2> DEFINE completed == {NodeBefore("R_ELSE_CLAUSE", Top.from),
                           NodeBefore("R_IF_STATEMENT", Under.from)}
  <2>1. /\ Complete(completed)
        /\ stack' = SubSeq(stack, 1, Len(stack) - 2)
        /\ pc = "Return" /\ pc' = "Return" /\ Top.fn = "Else"
    BY <1>9 DEF IfElseParsed, Returned
  <2>2. \A n \in completed : n.kind \notin ArgumentKinds
    BY DEF NodeBefore, NodeOver, ArgumentKinds
  <2> HIDE DEF completed
  <2>4. Kept(stack')
    BY <2>1, KeptStacks
  <2> QED BY <2>1, <2>2, <2>4, QuietComplete
<1>10. CASE ParseForHeader
  <2>1. /\ Consume({}) /\ pc = "ForHeader" /\ pc' = "ForVariable" /\ current # "COMMA"
        /\ stack' = Append(stack, Call("ForHeader", at))
    BY <1>10 DEF ParseForHeader
  <2>2. Call("ForHeader", at) \in QuietFrames
    BY <1>2, OtherFnsAre
  <2> QED BY <1>1, <2>1, <2>2, QuietConsume
<1>11. CASE ParseForVariable
  <2>1. /\ Consume({NodeWith("R_IDENTIFIER", at)}) /\ pc = "ForVariable" /\ pc' = "ForIn"
        /\ current \in LaxIdentifiers /\ stack' = stack
    BY <1>11 DEF ParseForVariable
  <2>2. current # "COMMA" /\ NodeWith("R_IDENTIFIER", at).kind \notin ArgumentKinds
    BY <2>1, QuietKinds DEF LaxIdentifiers, ValueStart, NodeWith, NodeOver, ArgumentKinds
  <2> QED BY <1>1, <2>1, <2>2, QuietConsume
<1>12. CASE ParseForIn
  <2>1. /\ Consume({}) /\ pc = "ForIn" /\ pc' = "Prefix" /\ current # "COMMA"
        /\ stack' = Append(stack, Expression(0))
    BY <1>12 DEF ParseForIn
  <2>2. Expression(0) \in QuietFrames
    BY <1>2, PowerTypes
  <2> QED BY <1>1, <2>1, <2>2, QuietConsume
<1> QED BY <1>3, <1>4, <1>5, <1>6, <1>7, <1>8, <1>9, <1>10, <1>11, <1>12

LEMMA FunctionsQuiet ==
  ASSUME ParserInv,
         \/ ParseParameters \/ ParseParameterName \/ ParseParameterDefault
         \/ ParseParameterNoDefault \/ ParameterDefaultParsed \/ ParametersParsed
  PROVE  QuietStep
<1> USE DEF Continue, Goto, Enter, Leave, Return, Yield
<1>0. at \in Nat
  BY InvFacts
<1>1. /\ Kept(stack) /\ Kept(Below)
      /\ \A f \in QuietFrames : Kept(Append(stack, f)) /\ Kept(WithTop(f))
      /\ \A f, g \in QuietFrames : Kept(stack \o <<f, g>>)
  BY KeptStacks
<1>2. /\ \A fn \in OtherFns : Call(fn, at) \in QuietFrames
      /\ \A bp \in 0 .. MaxPower : Expression(bp) \in QuietFrames
  BY <1>0, QuietFramesAre
<1>3. CASE ParseParameters
  <2>1. /\ Consume({}) /\ pc = "Parameters" /\ pc' = "ParameterList" /\ current # "COMMA"
        /\ stack' = Append(stack, Call("Parameters", at))
    BY <1>3 DEF ParseParameters
  <2>2. Call("Parameters", at) \in QuietFrames
    BY <1>2, OtherFnsAre
  <2> QED BY <1>1, <2>1, <2>2, QuietConsume
<1>4. CASE ParseParameterName
  <2> DEFINE kind == IF current \in Dots THEN ValueNode(current) ELSE "R_IDENTIFIER"
  <2>1. /\ Consume({NodeWith(kind, at)}) /\ pc = "ParameterList" /\ pc' = "ParameterName"
        /\ current \in ParameterNames /\ stack' = Append(stack, Call("Parameter", at))
    BY <1>4 DEF ParseParameterName
  <2>2. current # "COMMA" /\ kind \notin ArgumentKinds
    BY <2>1, QuietKinds DEF ParameterNames, LaxIdentifiers, ValueStart, ArgumentKinds
  <2>3. NodeWith(kind, at).kind \notin ArgumentKinds
    BY <2>2 DEF NodeWith, NodeOver
  <2>4. Call("Parameter", at) \in QuietFrames
    BY <1>2, OtherFnsAre
  <2> HIDE DEF kind
  <2> QED BY <1>1, <2>1, <2>2, <2>3, <2>4, QuietConsume
<1>5. CASE ParseParameterDefault
  <2>1. /\ Consume({}) /\ pc = "ParameterName" /\ pc' = "Prefix" /\ current # "COMMA"
        /\ stack' = stack \o <<Call("Default", at), Expression(0)>>
    BY <1>5 DEF ParseParameterDefault
  <2>2. Call("Default", at) \in QuietFrames /\ Expression(0) \in QuietFrames
    BY <1>2, OtherFnsAre, PowerTypes
  <2>3. Kept(stack')
    BY <1>1, <2>1, <2>2
  <2> QED BY <2>1, <2>3, QuietConsume
<1>6. CASE ParseParameterNoDefault
  <2>1. /\ Complete({NodeBefore("R_PARAMETER", Top.from)}) /\ stack' = Below
        /\ pc = "ParameterName" /\ pc' = "ParameterEnd"
    BY <1>6 DEF ParseParameterNoDefault
  <2>2. NodeBefore("R_PARAMETER", Top.from).kind \notin ArgumentKinds
    BY DEF NodeBefore, NodeOver, ArgumentKinds
  <2> QED BY <1>1, <2>1, <2>2, QuietComplete
<1>7. CASE ParameterDefaultParsed
  <2> DEFINE completed == {NodeBefore("R_PARAMETER_DEFAULT", Top.from),
                           NodeBefore("R_PARAMETER", Under.from)}
  <2>1. /\ Complete(completed)
        /\ stack' = SubSeq(stack, 1, Len(stack) - 2)
        /\ pc = "Return" /\ pc' = "ParameterEnd" /\ Top.fn = "Default"
    BY <1>7 DEF ParameterDefaultParsed, Returned
  <2>2. \A n \in completed : n.kind \notin ArgumentKinds
    BY DEF NodeBefore, NodeOver, ArgumentKinds
  <2> HIDE DEF completed
  <2>3. Kept(stack')
    BY <2>1, KeptStacks
  <2> QED BY <2>1, <2>2, <2>3, QuietComplete
<1>8. CASE ParametersParsed
  <2> DEFINE completed == {NodeBefore("R_PARAMETER_LIST", Top.from + 1),
                           NodeWith("R_PARAMETERS", Top.from)}
  <2>1. /\ Consume(completed)
        /\ pc \in {"ParameterList", "ParameterEnd"} /\ pc' = "Prefix" /\ current # "COMMA"
        /\ stack' = WithTop(Expression(FUNCTION_BODY_BP))
    BY <1>8 DEF ParametersParsed, ParametersEnd
  <2>2. \A n \in completed : n.kind \notin ArgumentKinds
    BY DEF NodeBefore, NodeWith, NodeOver, ArgumentKinds
  <2>3. Expression(FUNCTION_BODY_BP) \in QuietFrames
    BY <1>2, PowerTypes
  <2> HIDE DEF completed
  <2> QED BY <1>1, <2>1, <2>2, <2>3, QuietConsume
<1> QED BY <1>3, <1>4, <1>5, <1>6, <1>7, <1>8

LEMMA CallsQuiet ==
  ASSUME ParserInv, ParseArgumentEqual \/ ParseArgumentRest \/ ParseArgumentValue
  PROVE  QuietStep
<1> USE DEF Continue, Goto, Return, Yield
<1>1. /\ Kept(Below)
      /\ \A f \in QuietFrames : Kept(Append(stack, f)) /\ Kept(WithTop(f))
  BY KeptStacks
<1>2. Expression(0) \in QuietFrames
  BY QuietFramesAre, PowerTypes
<1>3. CASE ParseArgumentEqual
  <2>1. /\ Consume({NodeWith("R_ARGUMENT_NAME_CLAUSE", value.first)}) /\ stack' = Below
        /\ pc = "Return" /\ pc' = "ArgumentValue" /\ current # "COMMA"
    BY <1>3 DEF ParseArgumentEqual, Returned
  <2>2. NodeWith("R_ARGUMENT_NAME_CLAUSE", value.first).kind \notin ArgumentKinds
    BY DEF NodeWith, NodeOver, ArgumentKinds
  <2> QED BY <1>1, <2>1, <2>2, QuietConsume
<1>4. CASE ParseArgumentRest
  <2>1. /\ Complete({}) /\ stack' = WithTop(Expression(0)) /\ pc = "Return" /\ pc' = "Return"
    BY <1>4 DEF ParseArgumentRest, Returned
  <2> QED BY <1>1, <1>2, <2>1, QuietComplete
<1>5. CASE ParseArgumentValue
  <2>1. /\ Complete({}) /\ stack' = Append(stack, Expression(0)) /\ pc = "ArgumentValue"
        /\ pc' = "Prefix"
    BY <1>5 DEF ParseArgumentValue
  <2> QED BY <1>1, <1>2, <2>1, QuietComplete
<1> QED BY <1>3, <1>4, <1>5

\* The steps that have to do with arguments or with commas.
ArgumentStep ==
  \/ ParseCallLike \/ ParseArgument \/ ArgumentParsed \/ ParseArgumentComma
  \/ ArgumentListParsed \/ GlueClose \/ CallParsed \/ ParseParameterComma

LEMMA QuietSteps ==
  ASSUME ErrorInv, diagnostics = <<>>, diagnostics' = <<>>, [ParserNext]_vars
  PROVE  QuietStep \/ ArgumentStep \/ UNCHANGED vars
<1>1. ParserInv /\ diagnostics \in Seq(Nat) /\ at \in Nat
  BY ErrorFacts
<1>2. pc \notin {"Fail", "Recover"}
  BY <1>1 DEF ErrorInv, ParserInv, FailureIsRecorded, RecoveryInv
<1>3. ~Fail
  BY <1>1, FailKeepsError
<1>4. ~Expected
  BY <1>3 DEF Expected
<1>5. ~Propagate
  BY <1>2 DEF Propagate
<1>6. CASE GrammarMod
  <2>1. ~RecoverStatement /\ ~SkipToken /\ ~Recovered
    BY <1>2 DEF RecoverStatement, SkipToken, Recovered
  <2> QED BY <1>1, <1>6, <2>1, ModQuiet DEF GrammarMod
<1>7. CASE GrammarExpressions
  <2>1. ~ParseNoPrefix /\ ~ParseNamespaceOfOther /\ ~ParseStringUnterminated
    BY <1>4 DEF ParseNoPrefix, ParseNamespaceOfOther, ParseStringUnterminated
  <2> QED BY <1>1, <1>7, <2>1, ExpressionsQuiet DEF GrammarExpressions
<1>8. CASE GrammarControl
  <2>1. ~ExpectCloseFails /\ ~ExpectOpenFails /\ ~ForHeaderFails
    BY <1>4 DEF ExpectCloseFails, ExpectOpenFails, ForHeaderFails
  <2> QED BY <1>1, <1>8, <2>1, ControlQuiet DEF GrammarControl
<1>9. CASE GrammarFunctions
  <2>1. ~ParameterFails /\ ~ParametersUnclosed
    BY <1>3, <1>4 DEF ParameterFails, ParametersUnclosed
  <2> QED BY <1>1, <1>9, <2>1, FunctionsQuiet DEF GrammarFunctions, ArgumentStep
<1>10. CASE GrammarCalls
  <2>1. ~ArgumentsNotSeparated /\ ~CannotGlue /\ ~CallUnclosed
    BY <1>3, <1>4 DEF ArgumentsNotSeparated, CannotGlue, CallUnclosed
  <2> QED BY <1>1, <1>10, <2>1, CallsQuiet DEF GrammarCalls, ArgumentStep
<1> QED BY <1>5, <1>6, <1>7, <1>8, <1>9, <1>10 DEF ParserNext, Finished

-----------------------------------------------------------------------------
(* How deep in brackets the functions on the stack are *)

\* What is to be closed by the first functions is a matter of these alone.
LEMMA SumsAgree ==
  ASSUME NEW s, NEW t, NEW n \in Nat, Len(s) \in Nat, Len(t) \in Nat, n <= Len(s), n <= Len(t),
         \A k \in 1 .. n : Owed(s[k]) = Owed(t[k]), NEW f, Sums(f, s), NEW g, Sums(g, t)
  PROVE  \A i \in 0 .. n : f[i] = g[i]
<1> DEFINE P == {i \in Nat : i <= n => f[i] = g[i]}
<1>1. 0 \in P
  BY DEF Sums
<1>2. ASSUME NEW i \in Nat, i \in P PROVE i + 1 \in P
  <2>1. SUFFICES ASSUME i + 1 <= n PROVE f[i + 1] = g[i + 1]
    OBVIOUS
  <2> DEFINE j == i + 1
  <2>2. f[i] = g[i] /\ j \in 1 .. Len(s) /\ j \in 1 .. Len(t) /\ j \in 1 .. n /\ j - 1 = i
    BY <1>2, <2>1
  <2> HIDE DEF P, j
  <2>3. f[j] = f[j - 1] \o Owed(s[j]) /\ g[j] = g[j - 1] \o Owed(t[j]) /\ Owed(s[j]) = Owed(t[j])
    BY <2>2 DEF Sums
  <2> QED BY <2>2, <2>3 DEF j
<1> HIDE DEF P
<1>3. Nat \subseteq P
  BY <1>1, <1>2, NatInductionSet
<1> QED BY <1>3 DEF P

\* Who opened a bracket has more to close than what is beneath.
LEMMA SumsGrow ==
  ASSUME NEW s \in Seq(Frame), NEW f, Sums(f, s)
  PROVE  /\ \A k \in 0 .. Len(s) : Len(f[k]) \in Nat
         /\ \A k \in 0 .. Len(s) : \A i \in 0 .. k : Len(f[i]) <= Len(f[k])
         /\ \A k \in 1 .. Len(s) : s[k].fn \in Bracketing =>
              \A i \in 0 .. k - 1 : Len(f[i]) < Len(f[k])
         /\ \A k \in 1 .. Len(s) : s[k].fn \notin Bracketing => f[k] = f[k - 1]
<1> DEFINE P == {k \in Nat : k <= Len(s) =>
                   f[k] \in Seq(Closers) /\ \A i \in 0 .. k : Len(f[i]) <= Len(f[k])}
<1>0. Len(s) \in Nat
  OBVIOUS
<1>1. 0 \in P
  <2>1. PICK a : a = f[0]
    OBVIOUS
  <2>2. a = <<>> /\ a \in Seq(Closers) /\ Len(a) = 0
    BY <2>1 DEF Sums
  <2>3. \A i \in 0 .. 0 : f[i] = a
    BY <2>1
  <2>4. f[0] \in Seq(Closers) /\ \A i \in 0 .. 0 : Len(f[i]) <= Len(f[0])
    BY <2>1, <2>2, <2>3
  <2> QED BY <2>4
<1> HIDE DEF P
<1>2. ASSUME NEW k \in 1 .. Len(s), f[k - 1] \in Seq(Closers)
      PROVE  /\ f[k] \in Seq(Closers) /\ Len(f[k - 1]) \in Nat /\ Len(f[k]) \in Nat
             /\ Len(f[k - 1]) <= Len(f[k])
             /\ s[k].fn \in Bracketing => Len(f[k - 1]) < Len(f[k])
             /\ s[k].fn \notin Bracketing => f[k] = f[k - 1]
  <2>1. f[k] = f[k - 1] \o Owed(s[k])
    BY <1>2 DEF Sums
  <2>0. s[k] \in Frame
    BY <1>2
  <2>2. PICK a, b : a = f[k - 1] /\ b = Owed(s[k])
    OBVIOUS
  <2>3. a \in Seq(Closers) /\ b \in Seq(Closers) /\ (b = <<>> <=> s[k].fn \notin Bracketing)
    BY <1>2, <2>0, <2>2, OwedTyped
  <2>4. /\ a \o b \in Seq(Closers) /\ Len(a \o b) = Len(a) + Len(b)
        /\ Len(a) \in Nat /\ Len(b) \in Nat /\ (b # <<>> => Len(b) > 0)
        /\ (b = <<>> => a \o b = a)
    BY <2>3
  <2>5. PICK c, d : c = f[k] /\ d = a \o b
    OBVIOUS
  <2>6. c = d
    BY <2>1, <2>2, <2>5
  <2>7. /\ c \in Seq(Closers) /\ Len(a) \in Nat /\ Len(c) \in Nat /\ Len(a) <= Len(c)
        /\ b # <<>> => Len(a) < Len(c)
        /\ b = <<>> => c = a
    BY <2>4, <2>5, <2>6
  <2> QED BY <2>2, <2>3, <2>5, <2>7
<1>3. ASSUME NEW i \in Nat, i \in P PROVE i + 1 \in P
  <2>1. SUFFICES ASSUME i + 1 <= Len(s)
                 PROVE  f[i + 1] \in Seq(Closers) /\ \A j \in 0 .. i + 1 : Len(f[j]) <= Len(f[i + 1])
    BY DEF P
  <2>2. /\ i + 1 \in 1 .. Len(s) /\ i + 1 - 1 = i /\ f[i] \in Seq(Closers)
        /\ \A j \in 0 .. i : Len(f[j]) <= Len(f[i])
    BY <1>0, <1>3, <2>1 DEF P
  <2>3. PICK k : k = i + 1
    OBVIOUS
  <2>4. k \in 1 .. Len(s) /\ k - 1 = i
    BY <2>2, <2>3
  <2>5. /\ f[k] \in Seq(Closers) /\ Len(f[k]) \in Nat /\ Len(f[i]) \in Nat
        /\ Len(f[i]) <= Len(f[k])
    BY <1>2, <2>2, <2>4
  <2>6. ASSUME NEW j \in 0 .. k PROVE Len(f[j]) <= Len(f[k])
    <3>1. CASE j = k
      BY <2>5, <3>1
    <3>2. CASE j # k
      <4>1. j \in 0 .. i
        BY <2>3, <3>2
      <4>2. f[j] \in Seq(Closers)
        <5>1. j + 1 \in 1 .. Len(s) /\ j + 1 - 1 = j
          BY <1>0, <2>1, <4>1
        <5>2. \A l \in 1 .. Len(s) : f[l - 1] \in Seq(Closers)
          BY DEF Sums
        <5>3. PICK l : l = j + 1
          OBVIOUS
        <5> QED BY <5>1, <5>2, <5>3
      <4>3. Len(f[j]) \in Nat /\ Len(f[j]) <= Len(f[i])
        BY <2>2, <4>1, <4>2
      <4> QED BY <2>5, <4>3
    <3> QED BY <3>1, <3>2
  <2> QED BY <2>3, <2>5, <2>6
<1>4. Nat \subseteq P
  BY <1>1, <1>3, NatInductionSet
<1>5. \A k \in 0 .. Len(s) :
        f[k] \in Seq(Closers) /\ Len(f[k]) \in Nat /\ \A i \in 0 .. k : Len(f[i]) <= Len(f[k])
  <2>1. ASSUME NEW k \in 0 .. Len(s)
        PROVE  f[k] \in Seq(Closers) /\ Len(f[k]) \in Nat /\ \A i \in 0 .. k : Len(f[i]) <= Len(f[k])
    <3>1. k \in P /\ k <= Len(s)
      BY <1>0, <1>4
    <3>2. f[k] \in Seq(Closers) /\ \A i \in 0 .. k : Len(f[i]) <= Len(f[k])
      BY <3>1 DEF P
    <3> QED BY <3>2
  <2> QED BY <2>1
<1>6. ASSUME NEW k \in 1 .. Len(s)
      PROVE  /\ s[k].fn \in Bracketing => \A i \in 0 .. k - 1 : Len(f[i]) < Len(f[k])
             /\ s[k].fn \notin Bracketing => f[k] = f[k - 1]
  <2>1. PICK l : l = k - 1
    OBVIOUS
  <2>2. l \in 0 .. Len(s)
    BY <1>0, <2>1
  <2>3. f[l] \in Seq(Closers) /\ Len(f[l]) \in Nat /\ \A i \in 0 .. l : Len(f[i]) <= Len(f[l])
    BY <1>5, <2>2
  <2>4. /\ Len(f[k]) \in Nat
        /\ s[k].fn \in Bracketing => Len(f[l]) < Len(f[k])
        /\ s[k].fn \notin Bracketing => f[k] = f[l]
    BY <1>2, <2>1, <2>3
  <2>5. ASSUME NEW i \in 0 .. l, s[k].fn \in Bracketing PROVE Len(f[i]) < Len(f[k])
    <3>1. i \in 0 .. Len(s)
      BY <1>0, <2>2
    <3>2. Len(f[i]) \in Nat /\ Len(f[i]) <= Len(f[l])
      BY <1>5, <2>3, <3>1
    <3> QED BY <2>3, <2>4, <2>5, <3>2
  <2> QED BY <2>1, <2>4, <2>5
<1> QED BY <1>5, <1>6

-----------------------------------------------------------------------------
(* Arguments and the commas that separate them *)

OpenAfter(i) == Len(OpenBrackets[i])

\* The arguments, and the commas, of a list that the token at x opens.
HeldBy(x) ==
  {n \in NodesOf({"R_ARGUMENT"}) : x < n.first /\ OpenAfter(n.first - 1) = OpenAfter(x)}

CommasAfter(x) ==
  {i \in x + 1 .. at - 1 : text[i].kind = "COMMA" /\ OpenAfter(i) = OpenAfter(x)}

\* How deep in brackets a function parses arguments, or an argument.
Height(f) == IF f.fn = "Arguments" THEN OpenAfter(f.from) ELSE OpenAfter(f.from - 1)

\* There is an argument before each comma, and one behind the last comma as soon
\* as it is parsed.
AreCounted(f) ==
  /\ IsFiniteSet(CommasAfter(f.from)) /\ IsFiniteSet(HeldBy(f.from))
  /\ Cardinality(HeldBy(f.from)) =
       Cardinality(CommasAfter(f.from)) + IF f.previous = "Argument" THEN 1 ELSE 0

ArgumentFrame(i) ==
  /\ stack[i].from >= 1
  /\ \A sum : Sums(sum, stack) => Height(stack[i]) = Len(sum[i])
  /\ stack[i].fn = "Arguments" =>
       /\ stack[i].previous # "Progress"
       /\ stack[i].previous # "Open" => stack[i].from + 1 < at
       /\ i < Len(stack) => stack[i].previous # "Argument"
       /\ i < Len(stack) \/ pc # "CallClose" => AreCounted(stack[i])
  /\ stack[i].fn = "Argument" =>
       \A n \in NodesOf({"R_ARGUMENT"}) :
         n.first >= stack[i].from => OpenAfter(n.first - 1) > Height(stack[i])

ArgumentFrames == \A i \in 1 .. Len(stack) : stack[i].fn \in ArgumentFns => ArgumentFrame(i)

ListCounted(list) ==
  /\ 1 <= list.first
  /\ Cardinality(ArgumentsOf(list)) =
       IF list.last < list.first THEN 0 ELSE Cardinality(CommasOf(list)) + 1

CommasInv ==
  /\ ArgumentFrames
  /\ \A list \in NodesOf({"R_ARGUMENT_LIST"}) : ListCounted(list)
  /\ pc # "CallClose" => /\ \A n \in NodesOf({"R_ARGUMENT"}) : n.first < at
                         /\ \A list \in NodesOf({"R_ARGUMENT_LIST"}) : list.last < at - 1
  /\ pc = "Arguments" /\ Top.previous = "Open" => at = Top.from + 1
  /\ pc = "ArgumentValue" => Top.from < at

LEMMA DepthTyped == \A i \in Nat : OpenBrackets[i] \in Seq(Closers) /\ OpenAfter(i) \in Nat
  BY OpenBracketsAre DEF OpenBracketsRead, Reads, OpenAfter

\* A function with other locals.
Alike(f, g) == f.fn = g.fn /\ f.from = g.from /\ f.close = g.close

LEMMA AlikeOwes ==
  ASSUME NEW f, NEW g, Alike(f, g)
  PROVE  Owed(f) = Owed(g) /\ Height(f) = Height(g)
BY DEF Alike, Owed, Height

\* The function on top of the stack is as deep as the text is.
LEMMA TopDepths ==
  ASSUME ErrorInv, BracketsInv, diagnostics = <<>>, ArgumentFrames
  PROVE  /\ Top.fn \in ArgumentFns => Height(Top) = OpenAfter(at - 1)
         /\ Top.fn = "Argument" =>
              /\ Len(stack) > 1 /\ Under.fn = "Arguments" /\ Height(Under) = OpenAfter(at - 1)
              /\ \A i \in 1 .. Len(stack) - 2 :
                   stack[i].fn \in ArgumentFns => Height(stack[i]) < OpenAfter(at - 1)
         /\ Top.fn \in Bracketing =>
              \A i \in 1 .. Len(stack) - 1 :
                stack[i].fn \in ArgumentFns => Height(stack[i]) < OpenAfter(at - 1)
<1>1. ParserInv /\ stack \in Seq(Frame) /\ Len(stack) \in Nat /\ Len(stack) > 0
      /\ Top = stack[Len(stack)]
  BY ErrorFacts
<1>2. PICK sum : Sums(sum, stack) /\ sum[Len(stack)] = OpenBrackets[at - 1]
  BY DEF BracketsInv, Owes
<1>3. \A i \in 1 .. Len(stack) : stack[i].fn \in ArgumentFns => Height(stack[i]) = Len(sum[i])
  BY <1>2 DEF ArgumentFrames, ArgumentFrame
<1>4. /\ \A k \in 0 .. Len(stack) : Len(sum[k]) \in Nat
      /\ \A k \in 1 .. Len(stack) : stack[k].fn \in Bracketing =>
           \A i \in 0 .. k - 1 : Len(sum[i]) < Len(sum[k])
      /\ \A k \in 1 .. Len(stack) : stack[k].fn \notin Bracketing => sum[k] = sum[k - 1]
  BY <1>1, <1>2, SumsGrow
<1>5. Len(sum[Len(stack)]) = OpenAfter(at - 1)
  BY <1>2 DEF OpenAfter
<1>6. ASSUME Top.fn = "Argument"
      PROVE  /\ Len(stack) > 1 /\ Under.fn = "Arguments" /\ Height(Under) = OpenAfter(at - 1)
             /\ \A i \in 1 .. Len(stack) - 2 :
                  stack[i].fn \in ArgumentFns => Height(stack[i]) < OpenAfter(at - 1)
  <2>1. PICK l : l = Len(stack) - 1
    OBVIOUS
  <2>2. l \in 1 .. Len(stack) /\ Under = stack[l] /\ stack[l].fn = "Arguments"
    <3>1. Len(stack) > 1 /\ Under.fn \in Callers[Top.fn]
      BY <1>1, <1>6, InvFacts, ChainPop, UnderFacts
    <3>2. Callers["Argument"] = {"Arguments"}
      BY FunctionsAre DEF Callers
    <3> QED BY <1>1, <1>6, <2>1, <3>1, <3>2 DEF Under
  <2>3. sum[Len(stack)] = sum[l]
    BY <1>1, <1>4, <1>6, <2>1 DEF Bracketing
  <2>4. Height(stack[l]) = OpenAfter(at - 1) /\ Len(sum[l]) = OpenAfter(at - 1)
    BY <1>3, <1>5, <2>2, <2>3 DEF ArgumentFns
  <2>5. ASSUME NEW i \in 1 .. l - 1, stack[i].fn \in ArgumentFns
        PROVE  Height(stack[i]) < OpenAfter(at - 1)
    <3>1. i \in 1 .. Len(stack) /\ i \in 0 .. l - 1
      BY <1>1, <2>1
    <3>2. Len(sum[i]) < Len(sum[l])
      BY <1>4, <2>2, <3>1 DEF Bracketing
    <3> QED BY <1>3, <2>4, <2>5, <3>1, <3>2
  <2>6. 1 .. Len(stack) - 2 = 1 .. l - 1 /\ Len(stack) > 1
    BY <1>1, <2>1, <2>2
  <2> QED BY <2>2, <2>4, <2>5, <2>6
<1>7. ASSUME Top.fn \in Bracketing, NEW i \in 1 .. Len(stack) - 1, stack[i].fn \in ArgumentFns
      PROVE  Height(stack[i]) < OpenAfter(at - 1)
  <2>1. i \in 1 .. Len(stack) /\ i \in 0 .. Len(stack) - 1
    BY <1>1
  <2>2. Len(sum[i]) < Len(sum[Len(stack)])
    BY <1>1, <1>4, <1>7, <2>1
  <2> QED BY <1>3, <1>5, <1>7, <2>1, <2>2
<1>8. Top.fn \in ArgumentFns => Height(Top) = OpenAfter(at - 1)
  BY <1>1, <1>3, <1>5
<1> QED BY <1>6, <1>7, <1>8

LEMMA KindsOfArguments ==
  ASSUME NodesOf(ArgumentKinds)' = NodesOf(ArgumentKinds)
  PROVE  /\ NodesOf({"R_ARGUMENT"})' = NodesOf({"R_ARGUMENT"})
         /\ NodesOf({"R_ARGUMENT_LIST"})' = NodesOf({"R_ARGUMENT_LIST"})
BY DEF NodesOf, ArgumentKinds

\* What is known of the nodes and frames that are there already.
LEMMA NodesPlaced ==
  ASSUME ErrorInv, SpanInv, NEW kinds, NEW n \in NodesOf(kinds)
  PROVE  n.first \in Nat /\ n.last \in Nat /\ n.first <= n.last + 1 /\ n.last < at /\ n.first <= at
<1>1. n \in nodes /\ nodes \subseteq Node /\ at \in Nat
  BY ErrorFacts DEF NodesOf, ErrorInv, ParserInv, TypeOK
<1>2. n.first \in Nat /\ n.last \in Nat
  BY <1>1 DEF Node
<1> QED BY <1>1, <1>2 DEF SpanInv, NodesEnd

LEMMA FramesPlaced ==
  ASSUME ErrorInv, SpanInv, NEW i \in 1 .. Len(stack), stack[i].fn \in ArgumentFns
  PROVE  /\ stack[i] \in Frame /\ stack[i].from \in Nat /\ stack[i].from <= at
         /\ stack[i].fn = "Arguments" => stack[i].from < at
<1>1. ParserInv /\ stack[i] \in Frame
  BY ErrorFacts
<1>2. Marked(stack[i]) /\ (stack[i].fn = "Arguments" => stack[i].fn \notin Loose)
  BY DEF Marked, ArgumentFns, Loose
<1> QED BY <1>1, <1>2, FromBehind

\* Which arguments and commas a step adds to those of a list that is not closed.
LEMMA HeldNext ==
  ASSUME ErrorInv, SpanInv, TextStep, NEW x \in Nat, x < at,
         NEW new, NodesOf({"R_ARGUMENT"})' = NodesOf({"R_ARGUMENT"}) \cup new
  PROVE  /\ OpenAfter(x)' = OpenAfter(x)
         /\ HeldBy(x)' =
              HeldBy(x) \cup {n \in new : x < n.first /\ OpenAfter(n.first - 1)' = OpenAfter(x)}
<1>1. at \in Nat
  BY ErrorFacts
<1>2. \A i \in 0 .. at : OpenAfter(i)' = OpenAfter(i)
  BY SameBehind DEF OpenAfter
<1>3. OpenAfter(x)' = OpenAfter(x)
  BY <1>1, <1>2
<1>4. \A n \in NodesOf({"R_ARGUMENT"}) :
        x < n.first => OpenAfter(n.first - 1)' = OpenAfter(n.first - 1)
  <2>1. \A n \in NodesOf({"R_ARGUMENT"}) : n.first \in Nat /\ n.first <= at
    BY NodesPlaced
  <2>2. \A n \in NodesOf({"R_ARGUMENT"}) : x < n.first => n.first - 1 \in 0 .. at
    BY <1>1, <2>1
  <2> QED BY <1>2, <2>2
<1> QED BY <1>3, <1>4 DEF HeldBy

LEMMA CommasNext ==
  ASSUME ErrorInv, TextStep, Bump \/ at' = at, NEW x \in Nat, x < at
  PROVE  /\ Bump /\ current = "COMMA" /\ Len(OpenBrackets'[at]) = OpenAfter(x) =>
              CommasAfter(x)' = CommasAfter(x) \cup {at}
         /\ ~(Bump /\ current = "COMMA" /\ Len(OpenBrackets'[at]) = OpenAfter(x)) =>
              CommasAfter(x)' = CommasAfter(x)
<1>1. at \in Nat /\ at' \in Nat /\ at <= at' /\ ParserInv
  BY ErrorFacts DEF TextStep
<1>2. \A i \in 0 .. at : OpenAfter(i)' = OpenAfter(i)
  BY SameBehind DEF OpenAfter
<1>3. OpenAfter(x)' = OpenAfter(x)
  BY <1>1, <1>2
<1>4. at' = at => at .. at' - 1 = {}
  BY <1>1
<1>5. ASSUME NEW i \in at .. at' - 1, text'[i].kind = "COMMA"
      PROVE  Bump /\ current = "COMMA" /\ i = at
  <2>1. Bump
    <3>1. at' # at
      BY <1>4
    <3> QED BY <3>1
  <2>2. current = "COMMA"
    BY <1>5, <2>1 DEF TextStep
  <2>3. at' = at + 1
    BY <1>1, <2>1, <2>2, BumpEnd
  <2>4. i = at
    BY <1>1, <2>3
  <2> QED BY <2>1, <2>2, <2>4
<1>6. \A i \in x + 1 .. at - 1 : text'[i] = text[i] /\ OpenAfter(i)' = OpenAfter(i)
  BY <1>1, <1>2 DEF TextStep
<1>7. x + 1 .. at' - 1 = (x + 1 .. at - 1) \cup (at .. at' - 1)
  BY <1>1
<1>8. CommasAfter(x)' =
        CommasAfter(x)
          \cup {i \in at .. at' - 1 : text'[i].kind = "COMMA" /\ OpenAfter(i)' = OpenAfter(x)}
  BY <1>3, <1>6, <1>7 DEF CommasAfter
<1>9. ASSUME Bump, current = "COMMA"
      PROVE  at \in at .. at' - 1 /\ text'[at].kind = "COMMA"
  <2>1. at < at' /\ \A i \in at .. at' - 1 : text'[i].kind = "COMMA"
    BY <1>9 DEF TextStep
  <2>2. at \in at .. at' - 1
    BY <1>1, <2>1
  <2> QED BY <2>1, <2>2
<1>10. \A i \in at .. at' - 1 : i = at => OpenAfter(i)' = Len(OpenBrackets'[at])
  BY DEF OpenAfter
<1>11. CASE Bump /\ current = "COMMA" /\ Len(OpenBrackets'[at]) = OpenAfter(x)
  <2>1. {i \in at .. at' - 1 : text'[i].kind = "COMMA" /\ OpenAfter(i)' = OpenAfter(x)} = {at}
    BY <1>5, <1>9, <1>10, <1>11
  <2> QED BY <1>8, <1>11, <2>1
<1>12. CASE ~(Bump /\ current = "COMMA" /\ Len(OpenBrackets'[at]) = OpenAfter(x))
  <2>1. {i \in at .. at' - 1 : text'[i].kind = "COMMA" /\ OpenAfter(i)' = OpenAfter(x)} = {}
    BY <1>5, <1>10, <1>12
  <2> QED BY <1>8, <1>12, <2>1
<1> QED BY <1>11, <1>12

\* A function that a step leaves as it is, with deeper arguments and commas at
\* most, parses arguments as before.
Undisturbed(i, new) ==
  /\ \A n \in new : OpenAfter(n.first - 1)' > Height(stack[i])
  /\ Bump /\ current = "COMMA" => Len(OpenBrackets'[at]) > Height(stack[i])

LEMMA HeightKept ==
  ASSUME ErrorInv, SpanInv, TextStep, ArgumentFrames,
         NEW i \in 1 .. Len(stack), stack[i].fn \in ArgumentFns, i \in 1 .. Len(stack'),
         Alike(stack'[i], stack[i])
  PROVE  Height(stack[i])' = Height(stack[i]) /\ Height(stack[i]) \in Nat
<1>1. stack[i].from \in Nat /\ stack[i].from <= at /\ stack[i].from >= 1 /\ at \in Nat
  BY FramesPlaced, ErrorFacts DEF ArgumentFrames, ArgumentFrame
<1>2. \A k \in 0 .. at : OpenAfter(k)' = OpenAfter(k) /\ OpenAfter(k) \in Nat
  BY <1>1, SameBehind, DepthTyped DEF OpenAfter
<1>3. stack[i].from \in 0 .. at /\ stack[i].from - 1 \in 0 .. at
  BY <1>1
<1>4. stack'[i].from = stack[i].from /\ stack'[i].fn = stack[i].fn
  BY DEF Alike
<1> QED BY <1>2, <1>3, <1>4 DEF Height

LEMMA DepthKept ==
  ASSUME ErrorInv, BracketsInv, diagnostics = <<>>, SpanInv, TextStep, ArgumentFrames,
         stack' \in Seq(Frame),
         NEW i \in 1 .. Len(stack'), i <= Len(stack), stack[i].fn \in ArgumentFns,
         \A k \in 1 .. i : Alike(stack'[k], stack[k]), NEW sum, Sums(sum, stack')
  PROVE  Height(stack[i])' = Len(sum[i])
<1>1. PICK was : Sums(was, stack)
  BY DEF BracketsInv, Owes
<1>2. stack \in Seq(Frame) /\ Len(stack) \in Nat /\ Len(stack') \in Nat /\ i \in 1 .. Len(stack)
  BY ErrorFacts
<1>3. \A k \in 1 .. i : Owed(stack[k]) = Owed(stack'[k])
  BY AlikeOwes
<1>4. i \in Nat /\ i <= Len(stack') /\ i <= Len(stack)
  BY <1>2
<1>5. \A k \in 0 .. i : was[k] = sum[k]
  BY <1>1, <1>2, <1>3, <1>4, SumsAgree
<1>6. was[i] = sum[i]
  BY <1>4, <1>5
<1>7. Height(stack[i]) = Len(was[i])
  BY <1>1, <1>2 DEF ArgumentFrames, ArgumentFrame
<1>8. Alike(stack'[i], stack[i])
  BY <1>2
<1> QED BY <1>2, <1>6, <1>7, <1>8, HeightKept

LEMMA FrameKept ==
  ASSUME ErrorInv, BracketsInv, diagnostics = <<>>, SpanInv, TextStep, Bump \/ at' = at,
         ArgumentFrames, stack' \in Seq(Frame),
         NEW i \in 1 .. Len(stack'), i <= Len(stack), stack[i].fn \in ArgumentFns,
         stack'[i] = stack[i], \A k \in 1 .. i : Alike(stack'[k], stack[k]),
         NEW new, NodesOf({"R_ARGUMENT"})' = NodesOf({"R_ARGUMENT"}) \cup new,
         i < Len(stack') /\ stack[i].fn = "Arguments" =>
           i < Len(stack) \/ stack[i].previous # "Argument",
         \/ stack[i].fn = "Arguments" /\ i = Len(stack') /\ pc' = "CallClose"
         \/ Undisturbed(i, new) /\ (stack[i].fn = "Arguments" => i < Len(stack) \/ pc # "CallClose")
  PROVE  ArgumentFrame(i)'
<1>1. /\ at \in Nat /\ at' \in Nat /\ at <= at' /\ i \in 1 .. Len(stack)
      /\ ParserInv /\ Len(stack) \in Nat /\ Len(stack') \in Nat
  BY ErrorFacts DEF TextStep
<1>2. ArgumentFrame(i)
  BY <1>1 DEF ArgumentFrames
<1>3. stack[i].from \in Nat /\ stack[i].from <= at /\ stack[i].from >= 1
      /\ (stack[i].fn = "Arguments" => stack[i].from < at)
  BY <1>1, <1>2, FramesPlaced DEF ArgumentFrame
<1>4. Alike(stack'[i], stack[i])
  BY <1>1
<1>5. Height(stack[i])' = Height(stack[i]) /\ Height(stack[i]) \in Nat
  BY <1>1, <1>4, HeightKept
<1>6. \A sum : Sums(sum, stack') => Height(stack[i])' = Len(sum[i])
  BY DepthKept
<1>7. PICK x : x = stack[i].from
  OBVIOUS
<1>8. ASSUME stack[i].fn = "Arguments", Undisturbed(i, new), i < Len(stack) \/ pc # "CallClose"
      PROVE  AreCounted(stack[i])'
  <2>1. x \in Nat /\ x < at /\ Height(stack[i]) = OpenAfter(x) /\ OpenAfter(x) \in Nat
    BY <1>3, <1>5, <1>7, <1>8 DEF Height
  <2>2. \A n \in new : OpenAfter(n.first - 1)' # OpenAfter(x)
    BY <1>8, <2>1 DEF Undisturbed
  <2>3. Bump /\ current = "COMMA" => Len(OpenBrackets'[at]) # OpenAfter(x)
    BY <1>8, <2>1 DEF Undisturbed
  <2>4. HeldBy(x)' = HeldBy(x) /\ CommasAfter(x)' = CommasAfter(x)
    <3>1. /\ HeldBy(x)' = HeldBy(x) \cup {n \in new : /\ x < n.first
                                                    /\ OpenAfter(n.first - 1)' = OpenAfter(x)}
          /\ CommasAfter(x)' = CommasAfter(x)
      BY <2>1, <2>3, HeldNext, CommasNext
    <3> QED BY <2>2, <3>1
  <2>5. AreCounted(stack[i])
    BY <1>2, <1>8 DEF ArgumentFrame
  <2>6. stack'[i].from = x /\ stack'[i].previous = stack[i].previous
    BY <1>7
  <2>7. /\ IsFiniteSet(CommasAfter(x)) /\ IsFiniteSet(HeldBy(x))
        /\ Cardinality(HeldBy(x)) =
             Cardinality(CommasAfter(x)) + IF stack[i].previous = "Argument" THEN 1 ELSE 0
    BY <1>7, <2>5 DEF AreCounted
  <2>8. CommasAfter(stack[i].from)' = CommasAfter(x)' /\ HeldBy(stack[i].from)' = HeldBy(x)'
    BY <2>6
  <2> QED BY <2>4, <2>6, <2>7, <2>8 DEF AreCounted
<1>9. ASSUME stack[i].fn = "Argument", Undisturbed(i, new), NEW n \in NodesOf({"R_ARGUMENT"})',
             n.first >= x
      PROVE  OpenAfter(n.first - 1)' > Height(stack[i])
  <2>1. CASE n \in new
    BY <1>9, <2>1 DEF Undisturbed
  <2>2. CASE n \in NodesOf({"R_ARGUMENT"})
    <3>1. OpenAfter(n.first - 1) > Height(stack[i])
      BY <1>2, <1>7, <1>9, <2>2 DEF ArgumentFrame
    <3>2. n.first - 1 \in 0 .. at
      <4>1. n.first \in Nat /\ n.first <= at
        BY <2>2, NodesPlaced
      <4> QED BY <1>1, <1>3, <1>7, <1>9, <4>1
    <3>3. OpenAfter(n.first - 1)' = OpenAfter(n.first - 1)
      BY <3>2, SameBehind DEF OpenAfter
    <3> QED BY <3>1, <3>3
  <2> QED BY <1>9, <2>1, <2>2
<1>10. stack'[i].fn = stack[i].fn /\ stack'[i].from = x /\ stack'[i].previous = stack[i].previous
  BY <1>7
<1>11. CASE stack[i].fn = "Arguments"
  <2>1. /\ stack[i].previous # "Progress"
        /\ stack[i].previous # "Open" => x + 1 < at
        /\ i < Len(stack) => stack[i].previous # "Argument"
    BY <1>2, <1>7, <1>11 DEF ArgumentFrame
  <2>2. /\ stack[i].previous # "Open" => x + 1 < at'
        /\ i < Len(stack') => stack[i].previous # "Argument"
    BY <1>1, <1>3, <1>7, <1>11, <2>1
  <2>3. i < Len(stack') \/ pc' # "CallClose" => AreCounted(stack[i])'
    BY <1>8, <1>11
  <2> QED BY <1>3, <1>6, <1>7, <1>10, <1>11, <2>1, <2>2, <2>3 DEF ArgumentFrame
<1>12. CASE stack[i].fn = "Argument"
  <2>1. \A n \in NodesOf({"R_ARGUMENT"})' :
          n.first >= x => OpenAfter(n.first - 1)' > Height(stack[i])'
    BY <1>5, <1>9, <1>12
  <2> QED BY <1>3, <1>6, <1>7, <1>10, <1>12, <2>1 DEF ArgumentFrame
<1> QED BY <1>11, <1>12 DEF ArgumentFns

\* A list that is complete is not concerned by what comes after it.
LEMMA ListKept ==
  ASSUME ErrorInv, SpanInv, TextStep, NEW list \in NodesOf({"R_ARGUMENT_LIST"}),
         ListCounted(list),
         NEW new, NodesOf({"R_ARGUMENT"})' = NodesOf({"R_ARGUMENT"}) \cup new,
         \A n \in new : ~(n.last <= list.last)
  PROVE  ListCounted(list)'
<1>1. at \in Nat /\ list.first \in Nat /\ list.last \in Nat /\ list.last < at /\ list.first <= at
      /\ 1 <= list.first
  BY ErrorFacts, NodesPlaced DEF ListCounted
<1>2. \A i \in 0 .. at : OpenAfter(i)' = OpenAfter(i)
  BY SameBehind DEF OpenAfter
<1>3. list.first - 1 \in 0 .. at /\ \A i \in list.first .. list.last : i \in 0 .. at /\ i \in 1 .. at
  BY <1>1
<1>4. OpenAfter(list.first - 1)' = OpenAfter(list.first - 1)
      /\ \A i \in list.first .. list.last :
           OpenAfter(i)' = OpenAfter(i) /\ text'[i] = text[i]
  BY <1>2, <1>3 DEF TextStep
<1>5. CommasOf(list)' = CommasOf(list)
  BY <1>4 DEF CommasOf, OpenAfter
<1>6. \A n \in NodesOf({"R_ARGUMENT"}) :
        list.first <= n.first => OpenAfter(n.first - 1)' = OpenAfter(n.first - 1)
  <2>1. \A n \in NodesOf({"R_ARGUMENT"}) : n.first \in Nat /\ n.first <= at
    BY NodesPlaced
  <2>2. \A n \in NodesOf({"R_ARGUMENT"}) : list.first <= n.first => n.first - 1 \in 0 .. at
    BY <1>1, <2>1
  <2> QED BY <1>2, <2>2
<1>7. ArgumentsOf(list)' = ArgumentsOf(list)
  BY <1>4, <1>6 DEF ArgumentsOf, OpenAfter
<1> QED BY <1>5, <1>7 DEF ListCounted

LEMMA CommaDepth ==
  ASSUME ErrorInv, TextStep, Bump, current = "COMMA"
  PROVE  at' = at + 1 /\ OpenBrackets'[at] = OpenBrackets[at - 1]
<1>1. at' = at + 1 /\ at \in Nat /\ at >= 1
  BY BumpEnd, ErrorFacts
<1>2. PICK rest : rest = OpenBrackets[at - 1]
  OBVIOUS
<1>3. rest \in Seq(Closers)
  BY <1>1, <1>2, DepthTyped
<1>4. Closed(current) = <<>> /\ Opened(current) = <<>>
  BY DEF Closed, Opened, CloseDelimiters
<1>5. rest = rest \o <<>>
  BY <1>3
<1>6. OpenBrackets[at - 1] = rest \o Closed(current)
  BY <1>2, <1>4, <1>5
<1>7. OpenBrackets'[at' - 1] = rest \o Opened(current)
  BY <1>3, <1>6, BumpReads
<1>8. at' - 1 = at
  BY <1>1
<1>9. OpenBrackets'[at] = rest
  BY <1>4, <1>5, <1>7, <1>8
<1> QED BY <1>1, <1>2, <1>9

LEMMA ArgumentsOnTop ==
  ASSUME ErrorInv, diagnostics = <<>>
  PROVE  /\ Top.fn = "Arguments" => pc \in {"Arguments", "CallClose"}
         /\ pc \in {"Arguments", "CallClose"} => Top.fn = "Arguments"
         /\ pc = "ArgumentValue" => Top.fn = "Argument"
<1>1. ParserInv /\ pc \in DOMAIN Steps /\ pc # "Fail"
  BY DEF ErrorInv, ParserInv, Good, FailureIsRecorded
<1>2. Top.fn = "Arguments" => pc \in {"Arguments", "CallClose"}
  BY <1>1, TopAt, StepsAre
<1> QED BY <1>1, <1>2, TopAt

\* Steps that add no argument, and consume no comma but those of parameters.
LEMMA CommasKept ==
  ASSUME ErrorInv, BracketsInv, diagnostics = <<>>, SpanInv, TextStep, Bump \/ at' = at,
         CommasInv, ErrorInv', diagnostics' = <<>>,
         Kept(stack'), NodesOf(ArgumentKinds)' = NodesOf(ArgumentKinds),
         Bump /\ current = "COMMA" => Top.fn = "Parameters",
         pc' # "Arguments", pc' = "ArgumentValue" => at < at',
         pc # "CallClose" \/ pc' = "CallClose" \/ at < at',
         Top.fn = "Arguments" =>
           Len(stack') < Len(stack) \/ (stack' = stack /\ pc' = "CallClose")
  PROVE  CommasInv'
<1>1. /\ at \in Nat /\ at' \in Nat /\ at <= at' /\ ParserInv
      /\ stack \in Seq(Frame) /\ Len(stack) \in Nat /\ Len(stack) > 0 /\ Top = stack[Len(stack)]
      /\ stack' \in Seq(Frame) /\ Len(stack') \in Nat
  BY ErrorFacts DEF TextStep, Kept
<1>2. /\ NodesOf({"R_ARGUMENT"})' = NodesOf({"R_ARGUMENT"}) \cup {}
      /\ NodesOf({"R_ARGUMENT_LIST"})' = NodesOf({"R_ARGUMENT_LIST"})
  BY KindsOfArguments
<1>3. ArgumentFrames
  BY DEF CommasInv
<1>4. ASSUME NEW i \in 1 .. Len(stack'), stack'[i].fn \in ArgumentFns
      PROVE  ArgumentFrame(i)'
  <2>1. i <= Len(stack) /\ \A k \in 1 .. i : stack'[k] = stack[k]
    BY <1>4 DEF Kept
  <2>2. stack'[i] = stack[i] /\ stack[i].fn \in ArgumentFns /\ i \in 1 .. Len(stack)
    BY <1>1, <1>4, <2>1
  <2>3. \A k \in 1 .. i : Alike(stack'[k], stack[k])
    BY <2>1 DEF Alike
  <2>4. ASSUME Bump, current = "COMMA"
        PROVE  Len(OpenBrackets'[at]) > Height(stack[i])
    <3>1. Top.fn = "Parameters"
      BY <2>4
    <3>2. Top.fn \in Bracketing /\ i # Len(stack)
      BY <1>1, <2>2, <3>1 DEF Bracketing, ArgumentFns
    <3>3. i \in 1 .. Len(stack) - 1
      BY <1>1, <2>2, <3>2
    <3>4. Height(stack[i]) < OpenAfter(at - 1)
      BY <1>3, <2>2, <3>2, <3>3, TopDepths
    <3> QED BY <2>4, <3>4, CommaDepth DEF OpenAfter
  <2>5. Undisturbed(i, {})
    BY <2>4 DEF Undisturbed
  <2>6. stack[i].fn = "Arguments" =>
          i < Len(stack) \/ (stack' = stack /\ pc' = "CallClose" /\ i = Len(stack'))
    <3>1. SUFFICES ASSUME stack[i].fn = "Arguments", ~(i < Len(stack))
                   PROVE  stack' = stack /\ pc' = "CallClose" /\ i = Len(stack')
      OBVIOUS
    <3>2. i = Len(stack) /\ Len(stack') >= i
      BY <1>1, <2>2, <3>1
    <3>3. Top.fn = "Arguments"
      BY <1>1, <3>1, <3>2
    <3>4. ~(Len(stack') < Len(stack))
      BY <1>1, <3>2
    <3> QED BY <3>2, <3>3, <3>4
  <2>7. i < Len(stack') /\ stack[i].fn = "Arguments" =>
          i < Len(stack) \/ stack[i].previous # "Argument"
    BY <1>1, <2>6
  <2>8. \/ stack[i].fn = "Arguments" /\ i = Len(stack') /\ pc' = "CallClose"
        \/ Undisturbed(i, {}) /\ (stack[i].fn = "Arguments" => i < Len(stack) \/ pc # "CallClose")
    BY <2>5, <2>6
  <2>9. /\ stack' \in Seq(Frame) /\ i <= Len(stack) /\ stack[i].fn \in ArgumentFns
        /\ stack'[i] = stack[i]
        /\ NodesOf({"R_ARGUMENT"})' = NodesOf({"R_ARGUMENT"}) \cup {}
    BY <1>1, <1>2, <2>1, <2>2
  <2> QED BY <1>3, <2>3, <2>7, <2>8, <2>9, FrameKept
<1>5. ASSUME NEW list \in NodesOf({"R_ARGUMENT_LIST"})'
      PROVE  ListCounted(list)'
  <2>1. list \in NodesOf({"R_ARGUMENT_LIST"}) /\ ListCounted(list)
    BY <1>2, <1>5 DEF CommasInv
  <2>2. NodesOf({"R_ARGUMENT"})' = NodesOf({"R_ARGUMENT"}) \cup {}
        /\ \A n \in {} : ~(n.last <= list.last)
    BY <1>2
  <2> QED BY <2>1, <2>2, ListKept
<1>6. ASSUME pc' # "CallClose"
      PROVE  /\ \A n \in NodesOf({"R_ARGUMENT"})' : n.first < at'
             /\ \A list \in NodesOf({"R_ARGUMENT_LIST"})' : list.last < at' - 1
  <2>1. CASE pc # "CallClose"
    <3>1. /\ \A n \in NodesOf({"R_ARGUMENT"}) : n.first < at /\ n.first \in Nat
          /\ \A list \in NodesOf({"R_ARGUMENT_LIST"}) : list.last < at - 1 /\ list.last \in Nat
      BY <2>1, NodesPlaced DEF CommasInv
    <3> QED BY <1>1, <1>2, <3>1
  <2>2. CASE pc = "CallClose"
    <3>1. /\ \A n \in NodesOf({"R_ARGUMENT"}) : n.first <= at /\ n.first \in Nat
          /\ \A list \in NodesOf({"R_ARGUMENT_LIST"}) : list.last < at /\ list.last \in Nat
      BY NodesPlaced
    <3>2. at < at'
      BY <1>6, <2>2
    <3> QED BY <1>1, <1>2, <3>1, <3>2
  <2> QED BY <2>1, <2>2
<1>7. ASSUME pc' = "ArgumentValue" PROVE Top'.from < at'
  <2>1. Top'.fn = "Argument"
    <3>1. LastFn(stack') \in Steps["ArgumentValue"]
      BY <1>7 DEF ErrorInv, ParserInv, Good
    <3> QED BY <3>1 DEF LastFn, Steps, Top
  <2>2. PICK i : i = Len(stack')
    OBVIOUS
  <2>3. Top' = stack'[i] /\ i \in 1 .. Len(stack') /\ stack'[i].fn \in ArgumentFns
    <3>1. Len(stack') > 0
      BY DEF ErrorInv, ParserInv, Good, Running, Chain
    <3> QED BY <1>1, <2>1, <2>2, <3>1 DEF Top, ArgumentFns
  <2>4. i \in 1 .. Len(stack) /\ stack'[i] = stack[i]
    BY <1>1, <2>3 DEF Kept
  <2>5. stack[i].from \in Nat /\ stack[i].from <= at
    BY <2>3, <2>4, FramesPlaced
  <2> QED BY <1>1, <1>7, <2>3, <2>4, <2>5
<1> QED BY <1>4, <1>5, <1>6, <1>7 DEF CommasInv, ArgumentFrames

LEMMA QuietCommas ==
  ASSUME ErrorInv, BracketsInv, diagnostics = <<>>, SpanInv, TextStep,
         CommasInv, ErrorInv', diagnostics' = <<>>,
         QuietStep \/ GlueClose \/ CallParsed \/ ParseParameterComma
  PROVE  CommasInv'
<1>1. /\ ParserInv /\ stack \in Seq(Frame) /\ Len(stack) \in Nat /\ at \in Nat
      /\ Kept(stack) /\ Kept(Below) /\ Top = stack[Len(stack)] /\ Len(stack) > 0
      /\ (Top.fn # "Root" => Kept(SubSeq(stack, 1, Len(stack) - 2)))
  BY ErrorFacts, KeptStacks
<1>2. CASE QuietStep
  <2>1. Top.fn # "Arguments"
    BY <1>2, ArgumentsOnTop DEF QuietStep
  <2>2. /\ Bump \/ at' = at
        /\ Kept(stack') /\ NodesOf(ArgumentKinds)' = NodesOf(ArgumentKinds)
        /\ pc # "CallClose" /\ pc' # "Arguments" /\ (pc' = "ArgumentValue" => at < at')
    BY <1>2 DEF QuietStep
  <2>3. Bump /\ current = "COMMA" => Top.fn = "Parameters"
    <3>1. CASE at' = at
      BY <3>1 DEF TextStep
    <3>2. CASE current # "COMMA"
      BY <3>2
    <3> QED BY <1>2, <3>1, <3>2 DEF QuietStep
  <2> QED BY <2>1, <2>2, <2>3, CommasKept
<1>3. CASE GlueClose
  <2>1. /\ pc = "CallClose" /\ pc' = "CallClose" /\ stack' = stack /\ nodes' = nodes
        /\ at' = at
    BY <1>3 DEF GlueClose, Continue, Goto, TryGlueRightBracket2
  <2>2. ~Bump
    BY <2>1 DEF TextStep
  <2>3. NodesOf(ArgumentKinds)' = NodesOf(ArgumentKinds)
    BY <2>1 DEF NodesOf
  <2> QED BY <1>1, <2>1, <2>2, <2>3, CommasKept
<1>4. CASE CallParsed
  <2> DEFINE completed == {NodeWith(ArgumentsNode[Top.close], Top.from),
                           NodeWith(CallNode[Top.close], Under.from)}
  <2>1. /\ Consume(completed) /\ pc = "CallClose" /\ pc' = "Return" /\ current = Top.close
        /\ stack' = SubSeq(stack, 1, Len(stack) - 2)
    BY <1>4 DEF CallParsed, Yield
  <2>2. Top.fn = "Arguments" /\ current # "COMMA"
    <3>1. Top.fn = "Arguments" /\ Top \in Frame
      BY <1>1, <2>1, TopAt, InvFacts
    <3>2. Top.close \in Closers
      BY <3>1 DEF Frame
    <3> QED BY <2>1, <3>1, <3>2 DEF Closers
  <2>3. \A n \in completed : n.kind \notin ArgumentKinds
    <3>1. Top.close \in DOMAIN CallNode
      <4>1. Chain(stack) /\ Len(stack) \in 1 .. Len(stack)
        BY <1>1, InvFacts
      <4> QED BY <1>1, <2>2, <4>1 DEF Chain
    <3> QED BY <3>1, QuietKinds DEF NodeWith, NodeOver
  <2> HIDE DEF completed
  <2>4. nodes' = nodes \cup completed /\ at < at' /\ Bump
    BY <1>1, <2>1, Consumed DEF Consume
  <2>5. NodesOf(ArgumentKinds)' = NodesOf(ArgumentKinds)
    BY <2>3, <2>4 DEF NodesOf
  <2>6. Kept(stack') /\ Len(stack') < Len(stack)
    <3>1. Top.fn # "Root"
      BY <2>2
    <3>2. Len(BelowTwo) = Len(stack) - 2
      BY <1>1, <3>1, StacksLeft
    <3> QED BY <1>1, <2>1, <3>1, <3>2 DEF BelowTwo
  <2>7. Top.fn # "Parameters" /\ pc' # "Arguments" /\ pc' # "ArgumentValue"
    BY <2>1, <2>2
  <2>8. /\ Bump \/ at' = at
        /\ Bump /\ current = "COMMA" => Top.fn = "Parameters"
        /\ Kept(stack')
    BY <2>2, <2>4, <2>6
  <2>9. /\ pc # "CallClose" \/ pc' = "CallClose" \/ at < at'
        /\ Len(stack') < Len(stack)
    BY <2>4, <2>6
  <2> QED BY <2>5, <2>7, <2>8, <2>9, CommasKept
<1>5. CASE ParseParameterComma
  <2> DEFINE f == [Top EXCEPT !.previous = "Comma"]
  <2>1. /\ Consume({}) /\ pc = "ParameterEnd" /\ pc' = "ParameterList"
        /\ stack' = WithTop(f)
    BY <1>5 DEF ParseParameterComma, Continue, Goto
  <2>2. nodes' = nodes \cup {} /\ at < at' /\ Bump
    BY <1>1, <2>1, Consumed DEF Consume
  <2>3. nodes' = nodes
    BY <2>2
  <2>4. NodesOf(ArgumentKinds)' = NodesOf(ArgumentKinds)
    BY <2>3 DEF NodesOf
  <2>5. Top.fn = "Parameters"
    BY <1>1, <2>1, TopAt
  <2>6. f \in QuietFrames
    <3>1. Top \in Frame
      BY <1>1, InvFacts
    <3>2. f \in Frame /\ f.fn = Top.fn
      BY <3>1 DEF Frame
    <3>3. f.fn \in OtherFns
      BY <2>5, <3>2, OtherFnsAre
    <3> HIDE DEF f
    <3> QED BY <3>2, <3>3 DEF QuietFrames
  <2>7. Kept(stack')
    BY <1>1, <2>1, <2>6, KeptStacks
  <2> QED BY <2>1, <2>2, <2>4, <2>5, <2>7, CommasKept
<1> QED BY <1>2, <1>3, <1>4, <1>5

\* A call opens its list of arguments.
LEMMA CallLikeCommas ==
  ASSUME ErrorInv, BracketsInv, diagnostics = <<>>, SpanInv, TextStep,
         CommasInv, BracketsInv', diagnostics' = <<>>, ParseCallLike
  PROVE  CommasInv'
<1> DEFINE f == Call("Call", value.first)
           g == List("Arguments", at, CloserOf[current])
<1>1. /\ at \in Nat /\ at >= 1 /\ at' \in Nat /\ at <= at' /\ ParserInv /\ value.first \in Nat
      /\ stack \in Seq(Frame) /\ Len(stack) \in Nat /\ Len(stack) > 0 /\ Top = stack[Len(stack)]
  BY ErrorFacts, InvFacts DEF TextStep
<1>2. /\ Consume({}) /\ pc = "Return" /\ pc' = "Arguments" /\ Top.fn = "Expression"
      /\ current \in CallOpeners /\ stack' = stack \o <<f, g>>
  BY DEF ParseCallLike, Enter, Goto, Returned
<1>3. CloserOf[current] \in Closers
  BY <1>2 DEF CallOpeners, CloserOf, Closers
<1>4. f \in Frame /\ g \in Frame /\ f.fn = "Call"
      /\ g.fn = "Arguments" /\ g.from = at /\ g.previous = "Open"
  BY <1>1, <1>3, FrameTypes, FunctionsAre DEF List, Call
<1> HIDE DEF f, g
<1>5. /\ stack' \in Seq(Frame) /\ Len(stack') = Len(stack) + 2
      /\ stack'[Len(stack) + 1] = f /\ stack'[Len(stack) + 2] = g
      /\ \A k \in 1 .. Len(stack) : stack'[k] = stack[k]
  BY <1>1, <1>2, <1>4
<1>6. /\ nodes' = nodes \cup {} /\ Bump /\ current # "COMMA" /\ at' = at + 1
  BY <1>1, <1>2, Consumed, BumpEnd DEF Consume, CallOpeners
<1>7. nodes' = nodes
  BY <1>6
<1>8. /\ NodesOf({"R_ARGUMENT"})' = NodesOf({"R_ARGUMENT"}) \cup {}
      /\ NodesOf({"R_ARGUMENT"})' = NodesOf({"R_ARGUMENT"})
      /\ NodesOf({"R_ARGUMENT_LIST"})' = NodesOf({"R_ARGUMENT_LIST"})
  BY <1>7 DEF NodesOf
<1>9. ArgumentFrames
  BY DEF CommasInv
<1>10. PICK m : m = Len(stack) + 2
  OBVIOUS
<1>11. m \in 1 .. Len(stack') /\ m = Len(stack') /\ stack'[m] = g
  BY <1>1, <1>5, <1>10
<1>12. ASSUME NEW sum, Sums(sum, stack')
       PROVE  Height(stack[m])' = Len(sum[m])
  <2>1. PICK now : Sums(now, stack') /\ now[Len(stack')] = OpenBrackets'[at' - 1]
    BY DEF BracketsInv, Owes
  <2>2. Len(stack') \in Nat /\ \A k \in 1 .. Len(stack') : Owed(stack'[k]) = Owed(stack'[k])
    BY <1>1, <1>5
  <2>3. \A i \in 0 .. Len(stack') : sum[i] = now[i]
    BY <1>12, <2>1, <2>2, SumsAgree
  <2>4. sum[m] = OpenBrackets'[at' - 1] /\ at' - 1 = at
    BY <1>1, <1>6, <1>11, <2>1, <2>3
  <2>5. Height(stack[m])' = Len(OpenBrackets'[at])
    BY <1>4, <1>11 DEF Height, OpenAfter
  <2> QED BY <2>4, <2>5
<1>13. ArgumentFrame(m)'
  <2>1. HeldBy(stack[m].from)' = {}
    <3>1. \A n \in NodesOf({"R_ARGUMENT"}) : ~(at < n.first)
      BY <1>1, NodesPlaced
    <3> QED BY <1>4, <1>8, <1>11, <3>1 DEF HeldBy
  <2>2. CommasAfter(stack[m].from)' = {}
    <3>1. at + 1 .. at' - 1 = {}
      BY <1>1, <1>6
    <3> QED BY <1>4, <1>11, <3>1 DEF CommasAfter
  <2>3. IsFiniteSet({}) /\ Cardinality({}) = 0
    BY FS_EmptySet
  <2>4. AreCounted(stack[m])'
    <3>1. 0 + (IF stack'[m].previous = "Argument" THEN 1 ELSE 0) = 0
      BY <1>4, <1>11
    <3> QED BY <2>1, <2>2, <2>3, <3>1 DEF AreCounted
  <2> QED BY <1>1, <1>4, <1>11, <1>12, <2>4 DEF ArgumentFrame
<1>14. ASSUME NEW i \in 1 .. Len(stack'), stack'[i].fn \in ArgumentFns
       PROVE  ArgumentFrame(i)'
  <2>1. CASE i = m
    BY <1>13, <2>1
  <2>2. CASE i # m
    <3>1. i # Len(stack) + 1
      BY <1>4, <1>5, <1>14 DEF ArgumentFns
    <3>2. i <= Len(stack) /\ i \in 1 .. Len(stack)
      BY <1>1, <1>5, <1>10, <2>2, <3>1
    <3>3. stack'[i] = stack[i] /\ i # Len(stack)
      BY <1>1, <1>2, <1>5, <1>14, <3>2 DEF ArgumentFns
    <3>4. i < Len(stack) /\ i <= Len(stack) /\ stack[i].fn \in ArgumentFns /\ stack' \in Seq(Frame)
      BY <1>1, <1>5, <1>14, <3>2, <3>3
    <3>5. \A k \in 1 .. i : Alike(stack'[k], stack[k])
      BY <1>1, <1>5, <3>2 DEF Alike
    <3>6. Undisturbed(i, {}) /\ (Bump \/ at' = at)
      BY <1>6 DEF Undisturbed
    <3> QED BY <1>8, <1>9, <3>3, <3>4, <3>5, <3>6, FrameKept
  <2> QED BY <2>1, <2>2
<1>15. ASSUME NEW list \in NodesOf({"R_ARGUMENT_LIST"})'
       PROVE  ListCounted(list)' /\ list.last < at' - 1
  <2>1. list \in NodesOf({"R_ARGUMENT_LIST"}) /\ ListCounted(list)
    BY <1>8, <1>15 DEF CommasInv
  <2>2. \A n \in {} : ~(n.last <= list.last)
    OBVIOUS
  <2>3. list.last < at /\ list.last \in Nat
    BY <2>1, NodesPlaced
  <2>4. ListCounted(list)'
    BY <1>8, <2>1, <2>2, ListKept
  <2> QED BY <1>1, <1>6, <2>3, <2>4
<1>16. \A n \in NodesOf({"R_ARGUMENT"})' : n.first < at'
  <2>1. \A n \in NodesOf({"R_ARGUMENT"}) : n.first \in Nat /\ n.first <= at
    BY NodesPlaced
  <2> QED BY <1>1, <1>6, <1>8, <2>1
<1>17. at' = Top'.from + 1
  BY <1>4, <1>6, <1>11 DEF Top
<1> QED BY <1>2, <1>14, <1>15, <1>16, <1>17 DEF CommasInv, ArgumentFrames

\* How an argument begins: a function that parses it is called, and others above.
ArgumentBegins ==
  /\ NodesOf(ArgumentKinds)' = NodesOf(ArgumentKinds)
  /\ \/ Bump /\ current # "COMMA"
     \/ at' = at
  /\ pc' \notin {"Arguments", "CallClose", "ArgumentValue"}
  /\ stack' \in Seq(Frame) /\ Len(stack') > Len(stack)
  /\ \A k \in 1 .. Len(stack) : stack'[k] = stack[k]
  /\ stack'[Len(stack) + 1] = Call("Argument", at)
  /\ \A k \in Len(stack) + 2 .. Len(stack') : stack'[k].fn \notin ArgumentFns

LEMMA ArgumentStart ==
  ASSUME ErrorInv, ParseArgument
  PROVE  /\ ArgumentBegins
         /\ pc = "Arguments" /\ Top.fn = "Arguments" /\ Top.previous # "Argument"
<1> DEFINE f == Call("Argument", at)
           g == Call("ArgumentName", at)
           s == Call("String", at)
<1>1. /\ at \in Nat /\ ParserInv /\ stack \in Seq(Frame) /\ Len(stack) \in Nat
  BY ErrorFacts
<1>2. /\ f \in Frame /\ f.fn = "Argument" /\ g \in Frame /\ g.fn \notin ArgumentFns
      /\ s \in Frame /\ s.fn \notin ArgumentFns
      /\ Expression(0) \in Frame /\ Expression(0).fn \notin ArgumentFns
  BY <1>1, FrameTypes, FunctionsAre, PowerTypes DEF ArgumentFns
<1>3. pc = "Arguments" /\ Top.fn = "Arguments" /\ Top.previous # "Argument"
      /\ current # "COMMA"
  BY <1>1, TopAt DEF ParseArgument
<1>4. /\ Consume({}) => Bump /\ nodes' = nodes \cup {}
      /\ Complete({}) => at' = at /\ nodes' = nodes \cup {}
  BY <1>1, Consumed, Completed DEF Consume
<1>5. nodes' = nodes \cup {} => NodesOf(ArgumentKinds)' = NodesOf(ArgumentKinds)
  BY DEF NodesOf
<1>6. ASSUME NEW h \in Frame, h.fn \notin ArgumentFns
      PROVE  LET t == Append(Append(stack, f), h) IN
             /\ t \in Seq(Frame) /\ Len(t) = Len(stack) + 2
             /\ \A k \in 1 .. Len(stack) : t[k] = stack[k]
             /\ t[Len(stack) + 1] = f /\ t[Len(stack) + 2] = h
  <2> HIDE DEF f
  <2> QED BY <1>1, <1>2, <1>6
<1>7. CASE stack' = Append(Append(stack, f), Expression(0)) /\ Complete({}) /\ pc' = "Prefix"
  <2>1. NodesOf(ArgumentKinds)' = NodesOf(ArgumentKinds) /\ at' = at
    BY <1>4, <1>5, <1>7
  <2>2. /\ stack' \in Seq(Frame) /\ Len(stack') = Len(stack) + 2
        /\ \A k \in 1 .. Len(stack) : stack'[k] = stack[k]
        /\ stack'[Len(stack) + 1] = f /\ stack'[Len(stack) + 2] = Expression(0)
    BY <1>2, <1>6, <1>7
  <2>3. \A k \in Len(stack) + 2 .. Len(stack') : stack'[k].fn \notin ArgumentFns
    <3>1. \A k \in Len(stack) + 2 .. Len(stack') : k = Len(stack) + 2
      BY <1>1, <2>2
    <3> QED BY <1>2, <2>2, <3>1
  <2>4. Len(stack') > Len(stack)
    BY <1>1, <2>2
  <2> QED BY <1>3, <1>7, <2>1, <2>2, <2>3, <2>4 DEF ArgumentBegins
<1>8. CASE /\ stack' = Append(Append(Append(stack, f), g), s)
           /\ Consume({}) /\ pc' = "String"
  <2>1. NodesOf(ArgumentKinds)' = NodesOf(ArgumentKinds) /\ Bump
    BY <1>4, <1>5, <1>8
  <2> DEFINE t == Append(Append(stack, f), g)
  <2>2. /\ t \in Seq(Frame) /\ Len(t) = Len(stack) + 2
        /\ \A k \in 1 .. Len(stack) : t[k] = stack[k]
        /\ t[Len(stack) + 1] = f /\ t[Len(stack) + 2] = g
    BY <1>2, <1>6
  <2>3. stack' = Append(t, s)
    BY <1>8
  <2> HIDE DEF t, f, g, s
  <2>4. /\ stack' \in Seq(Frame) /\ Len(stack') = Len(stack) + 3
        /\ stack'[Len(stack) + 3] = s
        /\ \A k \in 1 .. Len(stack) + 2 : stack'[k] = t[k]
    BY <1>1, <1>2, <2>2, <2>3, AppendProperties
  <2>5. \A k \in 1 .. Len(stack) : stack'[k] = stack[k]
    BY <1>1, <2>2, <2>4
  <2>6. stack'[Len(stack) + 1] = f /\ stack'[Len(stack) + 2] = g
    BY <1>1, <2>2, <2>4
  <2>7. \A k \in Len(stack) + 2 .. Len(stack') : stack'[k].fn \notin ArgumentFns
    <3>1. \A k \in Len(stack) + 2 .. Len(stack') : k = Len(stack) + 2 \/ k = Len(stack) + 3
      BY <1>1, <2>4
    <3> QED BY <1>2, <2>4, <2>6, <3>1
  <2>8. Len(stack') > Len(stack)
    BY <1>1, <2>4
  <2> QED BY <1>3, <1>8, <2>1, <2>4, <2>5, <2>6, <2>7, <2>8 DEF ArgumentBegins, f
<1>9. CASE /\ stack' = Append(Append(stack, f), g) /\ pc' = "Return"
           /\ Consume({NodeWith(ValueNode(current), at)}) /\ current \in ValueStart
  <2>1. NodesOf(ArgumentKinds)' = NodesOf(ArgumentKinds) /\ Bump
    <3>1. nodes' = nodes \cup {NodeWith(ValueNode(current), at)} /\ Bump
      BY <1>9 DEF Consume
    <3>2. NodeWith(ValueNode(current), at).kind \notin ArgumentKinds
      BY <1>9, QuietKinds DEF NodeWith, NodeOver
    <3> QED BY <3>1, <3>2 DEF NodesOf
  <2>2. /\ stack' \in Seq(Frame) /\ Len(stack') = Len(stack) + 2
        /\ \A k \in 1 .. Len(stack) : stack'[k] = stack[k]
        /\ stack'[Len(stack) + 1] = f /\ stack'[Len(stack) + 2] = g
    BY <1>2, <1>6, <1>9
  <2>3. \A k \in Len(stack) + 2 .. Len(stack') : stack'[k].fn \notin ArgumentFns
    <3>1. \A k \in Len(stack) + 2 .. Len(stack') : k = Len(stack) + 2
      BY <1>1, <2>2
    <3> QED BY <1>2, <2>2, <3>1
  <2>4. Len(stack') > Len(stack)
    BY <1>1, <2>2
  <2> QED BY <1>3, <1>9, <2>1, <2>2, <2>3, <2>4 DEF ArgumentBegins
<1>10. QED
  <2>1. \/ /\ stack' = Append(Append(stack, f), Expression(0)) /\ Complete({}) /\ pc' = "Prefix"
        \/ ParseValue(Append(Append(stack, f), g))
    BY DEF ParseArgument, Continue, Goto
  <2>2. ASSUME NEW t, ParseValue(t)
        PROVE  \/ stack' = Append(t, s) /\ Consume({}) /\ pc' = "String"
               \/ /\ stack' = t /\ pc' = "Return" /\ current \in ValueStart
                  /\ Consume({NodeWith(ValueNode(current), at)})
    BY <2>2 DEF ParseValue, Continue, Goto, Return, Yield
  <2> HIDE DEF f, g, s
  <2> QED BY <1>3, <1>7, <1>8, <1>9, <2>1, <2>2

LEMMA ArgumentCommas ==
  ASSUME ErrorInv, BracketsInv, diagnostics = <<>>, SpanInv, TextStep, CommasInv, ParseArgument
  PROVE  CommasInv'
<1>1. /\ at \in Nat /\ at >= 1 /\ at' \in Nat /\ at <= at' /\ ParserInv
      /\ stack \in Seq(Frame) /\ Len(stack) \in Nat /\ Len(stack) > 0 /\ Top = stack[Len(stack)]
  BY ErrorFacts DEF TextStep
<1>2. /\ ArgumentBegins
      /\ pc = "Arguments" /\ Top.fn = "Arguments" /\ Top.previous # "Argument"
  BY ArgumentStart
<1>3. /\ stack' \in Seq(Frame) /\ Len(stack') \in Nat /\ Len(stack') > Len(stack)
      /\ \A k \in 1 .. Len(stack) : stack'[k] = stack[k]
      /\ pc' \notin {"Arguments", "CallClose", "ArgumentValue"}
      /\ Bump \/ at' = at
  BY <1>2 DEF ArgumentBegins
<1>4. /\ NodesOf({"R_ARGUMENT"})' = NodesOf({"R_ARGUMENT"})
      /\ NodesOf({"R_ARGUMENT_LIST"})' = NodesOf({"R_ARGUMENT_LIST"})
      /\ NodesOf({"R_ARGUMENT"})' = NodesOf({"R_ARGUMENT"}) \cup {}
  BY <1>2, KindsOfArguments DEF ArgumentBegins
<1>5. /\ ArgumentFrames
      /\ \A n \in NodesOf({"R_ARGUMENT"}) : n.first < at
      /\ \A list \in NodesOf({"R_ARGUMENT_LIST"}) : list.last < at - 1
  BY <1>2 DEF CommasInv
<1>6. PICK m : m = Len(stack) + 1
  OBVIOUS
<1>7. m \in 1 .. Len(stack') /\ m - 1 = Len(stack) /\ stack'[m] = Call("Argument", at)
  BY <1>1, <1>2, <1>3, <1>6 DEF ArgumentBegins
<1>8. stack'[m].fn = "Argument" /\ stack'[m].from = at
  BY <1>7 DEF Call
<1>9. Height(stack[m])' = OpenAfter(at - 1)
  <2>1. Height(stack[m])' = Len(OpenBrackets'[at - 1])
    BY <1>8 DEF Height, OpenAfter
  <2>2. at - 1 \in 0 .. at
    BY <1>1
  <2>3. OpenBrackets'[at - 1] = OpenBrackets[at - 1]
    BY <2>2, SameBehind
  <2> QED BY <2>1, <2>3 DEF OpenAfter
<1>10. ASSUME NEW sum, Sums(sum, stack')
       PROVE  Height(stack[m])' = Len(sum[m])
  <2>1. PICK was : Sums(was, stack) /\ was[Len(stack)] = OpenBrackets[at - 1]
    BY DEF BracketsInv, Owes
  <2>2. \A k \in 1 .. Len(stack) : Owed(stack[k]) = Owed(stack'[k])
    BY <1>3
  <2>3. PICK l : l = Len(stack)
    OBVIOUS
  <2>4. l \in Nat /\ l <= Len(stack) /\ l <= Len(stack') /\ l \in 0 .. l
        /\ \A k \in 1 .. l : Owed(stack[k]) = Owed(stack'[k])
    BY <1>1, <1>3, <2>2, <2>3
  <2>5. \A i \in 0 .. l : was[i] = sum[i]
    BY <1>1, <1>3, <1>10, <2>1, <2>4, SumsAgree
  <2>6. sum[m - 1] = OpenBrackets[at - 1]
    BY <1>7, <2>1, <2>3, <2>4, <2>5
  <2>7. sum[m] = sum[m - 1]
    <3>1. stack'[m].fn \notin Bracketing
      BY <1>8 DEF Bracketing
    <3>2. \A k \in 1 .. Len(stack') : stack'[k].fn \notin Bracketing => sum[k] = sum[k - 1]
      BY <1>3, <1>10, SumsGrow
    <3> QED BY <1>7, <3>1, <3>2
  <2> QED BY <1>9, <2>6, <2>7 DEF OpenAfter
<1>11. ArgumentFrame(m)'
  <2>1. \A n \in NodesOf({"R_ARGUMENT"})' : ~(n.first >= at)
    <3>1. \A n \in NodesOf({"R_ARGUMENT"}) : n.first \in Nat /\ n.first < at
      BY <1>5, NodesPlaced
    <3> QED BY <1>1, <1>4, <3>1
  <2> QED BY <1>1, <1>8, <1>10, <2>1 DEF ArgumentFrame
<1>12. ASSUME NEW i \in 1 .. Len(stack'), stack'[i].fn \in ArgumentFns
       PROVE  ArgumentFrame(i)'
  <2>1. CASE i = m
    BY <1>11, <2>1
  <2>2. CASE i # m
    <3>1. i <= Len(stack) /\ i \in 1 .. Len(stack)
      <4>1. ~(i \in Len(stack) + 2 .. Len(stack'))
        BY <1>2, <1>12 DEF ArgumentBegins
      <4> QED BY <1>1, <1>3, <1>6, <2>2, <4>1
    <3>2. stack'[i] = stack[i] /\ stack[i].fn \in ArgumentFns /\ stack' \in Seq(Frame)
      BY <1>3, <1>12, <3>1
    <3>3. \A k \in 1 .. i : Alike(stack'[k], stack[k])
      BY <1>1, <1>3, <3>1 DEF Alike
    <3>4. Undisturbed(i, {}) /\ pc # "CallClose"
      <4>1. ~(Bump /\ current = "COMMA")
        <5>1. CASE at' = at
          BY <5>1 DEF TextStep
        <5>2. CASE current # "COMMA"
          BY <5>2
        <5> QED BY <1>2, <5>1, <5>2 DEF ArgumentBegins
      <4> QED BY <1>2, <4>1 DEF Undisturbed
    <3>5. i < Len(stack) \/ stack[i].previous # "Argument"
      BY <1>1, <1>2, <3>1
    <3> QED BY <1>3, <1>4, <1>5, <3>1, <3>2, <3>3, <3>4, <3>5, FrameKept
  <2> QED BY <2>1, <2>2
<1>13. ASSUME NEW list \in NodesOf({"R_ARGUMENT_LIST"})'
       PROVE  ListCounted(list)' /\ list.last < at' - 1
  <2>1. list \in NodesOf({"R_ARGUMENT_LIST"}) /\ ListCounted(list)
    BY <1>4, <1>13 DEF CommasInv
  <2>2. \A n \in {} : ~(n.last <= list.last)
    OBVIOUS
  <2>3. list.last < at - 1 /\ list.last \in Nat
    BY <1>5, <2>1, NodesPlaced
  <2>4. ListCounted(list)'
    BY <1>4, <2>1, <2>2, ListKept
  <2> QED BY <1>1, <2>3, <2>4
<1>14. \A n \in NodesOf({"R_ARGUMENT"})' : n.first < at'
  <2>1. \A n \in NodesOf({"R_ARGUMENT"}) : n.first \in Nat /\ n.first < at
    BY <1>5, NodesPlaced
  <2> QED BY <1>1, <1>4, <2>1
<1> QED BY <1>3, <1>12, <1>13, <1>14 DEF CommasInv, ArgumentFrames

LEMMA LowerKept ==
  ASSUME ErrorInv, BracketsInv, diagnostics = <<>>, SpanInv, TextStep, Bump \/ at' = at,
         ArgumentFrames, stack' \in Seq(Frame),
         NEW i \in 1 .. Len(stack'), i < Len(stack), \A k \in 1 .. i : stack'[k] = stack[k],
         stack'[i].fn \in ArgumentFns,
         NEW new, NodesOf({"R_ARGUMENT"})' = NodesOf({"R_ARGUMENT"}) \cup new,
         Undisturbed(i, new)
  PROVE  ArgumentFrame(i)'
<1>1. Len(stack) \in Nat /\ Len(stack') \in Nat
  BY ErrorFacts
<1>2. /\ i <= Len(stack) /\ stack'[i] = stack[i] /\ stack[i].fn \in ArgumentFns
      /\ \A k \in 1 .. i : Alike(stack'[k], stack[k])
  BY <1>1 DEF Alike
<1> QED BY <1>2, FrameKept

\* An argument or a hole that is added behind all lists that are closed.
LEMMA ListsKept ==
  ASSUME ErrorInv, SpanInv, TextStep, CommasInv, pc # "CallClose",
         NEW new, NodesOf({"R_ARGUMENT"})' = NodesOf({"R_ARGUMENT"}) \cup new,
         \A n \in new : n.last = at - 1,
         NEW list \in NodesOf({"R_ARGUMENT_LIST"})
  PROVE  ListCounted(list)' /\ list.last < at' - 1
<1>1. at \in Nat /\ at' \in Nat /\ at <= at' /\ list.last \in Nat
  BY ErrorFacts, NodesPlaced DEF TextStep
<1>2. ListCounted(list) /\ list.last < at - 1
  BY DEF CommasInv
<1>3. \A n \in new : ~(n.last <= list.last)
  BY <1>1, <1>2
<1>4. ListCounted(list)'
  BY <1>2, <1>3, ListKept
<1> QED BY <1>1, <1>2, <1>4

\* An argument is complete.
LEMMA ParsedCommas ==
  ASSUME ErrorInv, BracketsInv, diagnostics = <<>>, SpanInv, TextStep, CommasInv, ArgumentParsed
  PROVE  CommasInv'
<1>0. PICK e, f : /\ e = NodeBefore("R_ARGUMENT", Top.from)
                  /\ f = [Under EXCEPT !.previous = "Argument"]
  OBVIOUS
<1>1. /\ at \in Nat /\ at >= 1 /\ ParserInv /\ nodes \subseteq Node
      /\ stack \in Seq(Frame) /\ Len(stack) \in Nat /\ Len(stack) > 0 /\ Top = stack[Len(stack)]
  BY ErrorFacts DEF ParserInv
<1>2. /\ pc = "ArgumentValue" \/ (pc = "Return" /\ Top.fn = "Argument")
      /\ Complete({e}) /\ pc' = "Arguments" /\ stack' = Append(BelowTwo, f)
  BY <1>0 DEF ArgumentParsed, Continue, Goto, Returned, BelowTwo
<1>3. Top.fn = "Argument" /\ pc # "CallClose"
  BY <1>1, <1>2, TopAt
<1>4. PICK m : m = Len(stack) - 1
  OBVIOUS
<1>5. /\ Under \in Frame /\ Under.fn = "Arguments" /\ Under = stack[m]
      /\ m \in 1 .. Len(stack) /\ m < Len(stack) /\ m \in Nat
  BY <1>1, <1>3, <1>4, UnderFacts, CallersAre, StacksLeft DEF Under
<1>6. /\ f \in Frame /\ f.fn = "Arguments" /\ f.from = Under.from /\ f.close = Under.close
      /\ f.previous = "Argument"
  BY <1>0, <1>5 DEF Frame
<1>7. /\ stack' \in Seq(Frame) /\ Len(stack') = m /\ stack'[m] = f
      /\ \A k \in 1 .. m - 1 : stack'[k] = stack[k]
  <2>1. Top.fn # "Root" /\ m - 1 = Len(stack) - 2
    BY <1>1, <1>3, <1>4
  <2>2. /\ Append(BelowTwo, f) \in Seq(Frame) /\ Len(Append(BelowTwo, f)) = Len(stack) - 1
        /\ Append(BelowTwo, f)[Len(stack) - 1] = f
        /\ \A k \in 1 .. Len(stack) - 2 : Append(BelowTwo, f)[k] = stack[k]
    BY <1>1, <1>6, <2>1, StacksLeft
  <2> QED BY <1>2, <1>4, <2>1, <2>2
<1>8. nodes' = nodes \cup {e} /\ at' = at
  BY <1>1, <1>2, Completed
<1>9. e.kind = "R_ARGUMENT" /\ e.first = Top.from /\ e.last = at - 1
  BY <1>0 DEF NodeBefore, NodeOver
<1>10. /\ NodesOf({"R_ARGUMENT"})' = NodesOf({"R_ARGUMENT"}) \cup {e}
       /\ NodesOf({"R_ARGUMENT_LIST"})' = NodesOf({"R_ARGUMENT_LIST"})
  BY <1>8, <1>9 DEF NodesOf
<1>11. ArgumentFrames
  BY DEF CommasInv
<1>12. PICK x : x = Under.from
  OBVIOUS
<1>13. x \in Nat /\ x < Top.from /\ Top.from < at /\ Top.from \in Nat /\ Top.from >= 1
  <2>1. Top.from \in Nat /\ Top.from >= 1
    BY <1>1, <1>3, <1>11, InvFacts DEF ArgumentFrames, ArgumentFrame, ArgumentFns
  <2>2. x \in Nat
    BY <1>5, <1>12 DEF Frame
  <2>3. Marked(Under) /\ Marked(Top) /\ Edge(Under) = x + 1 /\ Edge(Top) = Top.from
    BY <1>3, <1>5, <1>12 DEF Marked, Edge, Loose
  <2>4. x + 1 <= Top.from
    <3>1. AboveIn(stack, pc, value, at, m, x + 1)
      BY <1>5, <2>3 DEF SpanInv, FramesOrdered
    <3>2. Len(stack) \in m + 1 .. Len(stack)
      BY <1>1, <1>4
    <3> QED BY <1>1, <2>3, <3>1, <3>2 DEF AboveIn
  <2>5. Top.from < at
    <3>1. CASE pc = "ArgumentValue"
      BY <3>1 DEF CommasInv
    <3>2. CASE pc = "Return"
      <4>1. AboveIn(stack, pc, value, at, Len(stack), Top.from)
        BY <1>1, <2>3 DEF SpanInv, FramesOrdered
      <4>2. Top.from <= value.first
        BY <3>2, <4>1 DEF AboveIn
      <4>3. value.first < at /\ value.first \in Nat
        BY <1>1, <1>3, <3>2, InvFacts DEF SpanInv, ValueEnds
      <4> QED BY <1>1, <2>1, <4>2, <4>3
    <3> QED BY <1>2, <3>1, <3>2
  <2> QED BY <2>1, <2>2, <2>4, <2>5
<1>14. /\ OpenAfter(x) = OpenAfter(at - 1) /\ OpenAfter(Top.from - 1) = OpenAfter(at - 1)
       /\ OpenAfter(e.first - 1)' = OpenAfter(at - 1) /\ OpenAfter(at - 1) \in Nat
  <2>1. Height(Top) = OpenAfter(at - 1) /\ Height(Under) = OpenAfter(at - 1)
    BY <1>3, <1>11, TopDepths DEF ArgumentFns
  <2>2. PICK y : y = Top.from - 1
    OBVIOUS
  <2>3. y \in 0 .. at /\ at - 1 \in Nat /\ e.first - 1 = y
    BY <1>1, <1>9, <1>13, <2>2
  <2>4. OpenAfter(y)' = OpenAfter(y)
    BY <2>3, SameBehind DEF OpenAfter
  <2>5. OpenAfter(y) = OpenAfter(at - 1)
    BY <1>3, <2>1, <2>2 DEF Height
  <2>6. OpenAfter(e.first - 1)' = OpenAfter(y)'
    BY <2>3
  <2> QED BY <1>5, <1>12, <2>1, <2>2, <2>3, <2>4, <2>5, <2>6, DepthTyped DEF Height
<1>15. ASSUME NEW i \in 1 .. m - 1, stack[i].fn \in ArgumentFns
       PROVE  ArgumentFrame(i)'
  <2>1. /\ i \in 1 .. Len(stack') /\ i < Len(stack) /\ i \in 1 .. Len(stack) - 2
        /\ \A k \in 1 .. i : stack'[k] = stack[k]
        /\ stack'[i].fn \in ArgumentFns
    BY <1>1, <1>4, <1>7, <1>15
  <2>2. Height(stack[i]) < OpenAfter(at - 1)
    BY <1>3, <1>11, <1>15, <2>1, TopDepths
  <2>3. ~Bump
    BY <1>8 DEF TextStep
  <2>4. Undisturbed(i, {e})
    <3>1. Height(stack[i]) \in Nat
      <4>1. i \in 1 .. Len(stack) /\ Alike(stack'[i], stack[i])
        BY <1>1, <2>1 DEF Alike
      <4> QED BY <1>11, <1>15, <2>1, <4>1, HeightKept
    <3>2. OpenAfter(e.first - 1)' > Height(stack[i])
      BY <1>14, <2>2, <3>1
    <3> QED BY <2>3, <3>2 DEF Undisturbed
  <2> QED BY <1>7, <1>8, <1>10, <1>11, <2>1, <2>4, LowerKept
<1>16. HeldBy(x)' = HeldBy(x) \cup {e} /\ CommasAfter(x)' = CommasAfter(x) /\ e \notin HeldBy(x)
  <2>1. x < at
    BY <1>1, <1>13
  <2>2. {n \in {e} : x < n.first /\ OpenAfter(n.first - 1)' = OpenAfter(x)} = {e}
    BY <1>9, <1>13, <1>14
  <2>3. HeldBy(x)' = HeldBy(x) \cup {e}
    BY <1>10, <1>13, <2>1, <2>2, HeldNext
  <2>4. CommasAfter(x)' = CommasAfter(x)
    <3>1. ~Bump
      BY <1>8 DEF TextStep
    <3> QED BY <1>8, <1>13, <2>1, <3>1, CommasNext
  <2>5. e \notin HeldBy(x)
    <3>1. ArgumentFrame(Len(stack))
      BY <1>1, <1>3, <1>11 DEF ArgumentFrames, ArgumentFns
    <3>2. \A n \in NodesOf({"R_ARGUMENT"}) :
            n.first >= Top.from => OpenAfter(n.first - 1) > OpenAfter(Top.from - 1)
      BY <1>1, <1>3, <3>1 DEF ArgumentFrame, Height
    <3>3. e \in HeldBy(x) => OpenAfter(e.first - 1) > OpenAfter(Top.from - 1)
      BY <1>9, <1>13, <3>2 DEF HeldBy
    <3> QED BY <1>9, <1>14, <3>3
  <2> QED BY <2>3, <2>4, <2>5
<1>17. ArgumentFrame(m) /\ stack[m].from = x
  BY <1>5, <1>11, <1>12 DEF ArgumentFrames, ArgumentFns
<1>18. ArgumentFrame(m)'
  <2>1. stack'[m].from = x /\ stack'[m].fn = "Arguments" /\ stack'[m].previous = "Argument"
    BY <1>6, <1>7, <1>12
  <2>2. \A sum : Sums(sum, stack') => Height(stack[m])' = Len(sum[m])
    <3>1. ASSUME NEW k \in 1 .. m PROVE Alike(stack'[k], stack[k])
      <4>1. CASE k = m
        BY <1>5, <1>6, <1>7, <4>1 DEF Alike
      <4>2. CASE k # m
        <5>1. k \in 1 .. m - 1
          BY <1>5, <4>2
        <5> QED BY <1>7, <5>1 DEF Alike
      <4> QED BY <4>1, <4>2
    <3>2. m \in 1 .. Len(stack') /\ m <= Len(stack) /\ stack[m].fn \in ArgumentFns
      BY <1>1, <1>4, <1>5, <1>7 DEF ArgumentFns
    <3> QED BY <1>7, <1>11, <3>1, <3>2, DepthKept
  <2>3. AreCounted(stack[m])'
    <3>1. /\ IsFiniteSet(CommasAfter(x)) /\ IsFiniteSet(HeldBy(x))
          /\ Cardinality(HeldBy(x)) = Cardinality(CommasAfter(x)) + 0
      <4>1. AreCounted(stack[m]) /\ stack[m].previous # "Argument"
        BY <1>5, <1>17 DEF ArgumentFrame
      <4> QED BY <1>17, <4>1 DEF AreCounted
    <3>2. /\ IsFiniteSet(HeldBy(x) \cup {e})
          /\ Cardinality(HeldBy(x) \cup {e}) = Cardinality(HeldBy(x)) + 1
      BY <1>16, <3>1, FS_AddElement
    <3>3. Cardinality(CommasAfter(x)) \in Nat
      BY <3>1, FS_CardinalityType
    <3>4. CommasAfter(stack[m].from)' = CommasAfter(x)' /\ HeldBy(stack[m].from)' = HeldBy(x)'
      BY <2>1
    <3>5. (IF stack'[m].previous = "Argument" THEN 1 ELSE 0) = 1
      BY <2>1
    <3>6. /\ CommasAfter(stack[m].from)' = CommasAfter(x)
          /\ HeldBy(stack[m].from)' = HeldBy(x) \cup {e}
      BY <1>16, <3>4
    <3>7. /\ IsFiniteSet(CommasAfter(stack[m].from)')
          /\ IsFiniteSet(HeldBy(stack[m].from)')
          /\ Cardinality(HeldBy(stack[m].from)') = Cardinality(CommasAfter(stack[m].from)') + 1
      BY <3>1, <3>2, <3>3, <3>6
    <3> QED BY <3>5, <3>7 DEF AreCounted
  <2>4. x >= 1 /\ x + 1 < at'
    BY <1>1, <1>8, <1>13, <1>17 DEF ArgumentFrame
  <2> QED BY <1>7, <2>1, <2>2, <2>3, <2>4 DEF ArgumentFrame
<1>19. ASSUME NEW i \in 1 .. Len(stack'), stack'[i].fn \in ArgumentFns
       PROVE  ArgumentFrame(i)'
  <2>1. CASE i = m
    BY <1>18, <2>1
  <2>2. CASE i # m
    <3>1. i \in 1 .. m - 1
      BY <1>5, <1>7, <2>2
    <3> QED BY <1>7, <1>15, <1>19, <3>1
  <2> QED BY <2>1, <2>2
<1>20. ASSUME NEW list \in NodesOf({"R_ARGUMENT_LIST"})'
       PROVE  ListCounted(list)' /\ list.last < at' - 1
  <2>1. list \in NodesOf({"R_ARGUMENT_LIST"})
    BY <1>10, <1>20
  <2>2. PICK new : new = {e}
    OBVIOUS
  <2>3. /\ pc # "CallClose"
        /\ NodesOf({"R_ARGUMENT"})' = NodesOf({"R_ARGUMENT"}) \cup new
        /\ \A n \in new : n.last = at - 1
    BY <1>3, <1>9, <1>10, <2>2
  <2> QED BY <2>1, <2>3, ListsKept
<1>21. \A n \in NodesOf({"R_ARGUMENT"})' : n.first < at'
  BY <1>3, <1>8, <1>9, <1>10, <1>13 DEF CommasInv
<1>22. Top'.previous # "Open"
  BY <1>6, <1>7 DEF Top
<1> QED BY <1>2, <1>19, <1>20, <1>21, <1>22 DEF CommasInv, ArgumentFrames

\* A comma, with a hole before it if no argument is written there.
LEMMA SeparatedCommas ==
  ASSUME ErrorInv, BracketsInv, diagnostics = <<>>, SpanInv, TextStep, CommasInv,
         ParseArgumentComma
  PROVE  CommasInv'
<1>0. PICK e, f, new : /\ e = EmptyArgument
                       /\ f = [Top EXCEPT !.previous = "Comma"]
                       /\ new = IF Top.previous # "Argument" THEN {e} ELSE {}
  OBVIOUS
<1>1. /\ at \in Nat /\ at >= 1 /\ ParserInv /\ nodes \subseteq Node
      /\ stack \in Seq(Frame) /\ Len(stack) \in Nat /\ Len(stack) > 0 /\ Top = stack[Len(stack)]
  BY ErrorFacts DEF ParserInv
<1>2. /\ pc = "Arguments" /\ current = "COMMA"
      /\ Consume(new) /\ pc' = "Arguments" /\ stack' = WithTop(f)
  BY <1>0 DEF ParseArgumentComma, Continue, Goto
<1>3. Top.fn = "Arguments" /\ pc # "CallClose" /\ Top \in Frame
  BY <1>1, <1>2, TopAt, InvFacts
<1>4. PICK m : m = Len(stack)
  OBVIOUS
<1>5. m \in 1 .. Len(stack) /\ m \in Nat /\ Top = stack[m]
  BY <1>1, <1>4
<1>6. /\ f \in Frame /\ f.fn = "Arguments" /\ f.from = Top.from /\ f.close = Top.close
      /\ f.previous = "Comma"
  BY <1>0, <1>3 DEF Frame
<1>7. /\ stack' \in Seq(Frame) /\ Len(stack') = m /\ stack'[m] = f
      /\ \A k \in 1 .. m - 1 : stack'[k] = stack[k]
  BY <1>1, <1>2, <1>4, <1>6, StacksLeft DEF WithTop
<1>8. nodes' = nodes \cup new /\ Bump
  BY <1>1, <1>2, Consumed DEF Consume
<1>9. at' = at + 1 /\ OpenBrackets'[at] = OpenBrackets[at - 1]
  BY <1>2, <1>8, CommaDepth
<1>10. e.kind = "R_ARGUMENT" /\ e.first = at /\ e.last = at - 1
  BY <1>0 DEF EmptyArgument, NodeOver
<1>11. \A n \in new : n = e
  BY <1>0
<1>12. /\ NodesOf({"R_ARGUMENT"})' = NodesOf({"R_ARGUMENT"}) \cup new
       /\ NodesOf({"R_ARGUMENT_LIST"})' = NodesOf({"R_ARGUMENT_LIST"})
  BY <1>8, <1>10, <1>11 DEF NodesOf
<1>13. /\ ArgumentFrames
       /\ \A n \in NodesOf({"R_ARGUMENT"}) : n.first < at
  BY <1>3 DEF CommasInv
<1>14. PICK x : x = Top.from
  OBVIOUS
<1>15. ArgumentFrame(m) /\ stack[m].from = x /\ x \in Nat /\ x < at /\ x >= 1
  <2>1. ArgumentFrame(m)
    BY <1>3, <1>5, <1>13 DEF ArgumentFrames, ArgumentFns
  <2>2. stack[m].from \in Nat /\ stack[m].from < at
    BY <1>3, <1>5, FramesPlaced DEF ArgumentFns
  <2> QED BY <1>5, <1>14, <2>1, <2>2 DEF ArgumentFrame
<1>16. /\ OpenAfter(x) = OpenAfter(at - 1) /\ Len(OpenBrackets'[at]) = OpenAfter(x)
       /\ OpenAfter(at - 1) \in Nat
  <2>1. Height(Top) = OpenAfter(at - 1) /\ Height(Top) = OpenAfter(x)
    BY <1>3, <1>13, <1>14, TopDepths DEF ArgumentFns, Height
  <2>2. at - 1 \in Nat
    BY <1>1
  <2> QED BY <1>9, <2>1, <2>2, DepthTyped DEF OpenAfter
<1>17. PICK l : l = at - 1
  OBVIOUS
<1>18. OpenAfter(e.first - 1)' = OpenAfter(x) /\ OpenAfter(x)' = OpenAfter(x)
  <2>1. l \in 0 .. at /\ x \in 0 .. at /\ e.first - 1 = l
    BY <1>1, <1>10, <1>15, <1>17
  <2>2. OpenAfter(l)' = OpenAfter(l) /\ OpenAfter(x)' = OpenAfter(x)
    BY <2>1, SameBehind DEF OpenAfter
  <2>3. OpenAfter(e.first - 1)' = OpenAfter(l)'
    BY <2>1
  <2> QED BY <1>16, <1>17, <2>2, <2>3
<1>19. ASSUME NEW i \in 1 .. m - 1, stack[i].fn \in ArgumentFns
       PROVE  ArgumentFrame(i)'
  <2>1. /\ i \in 1 .. Len(stack') /\ i < Len(stack) /\ i \in 1 .. Len(stack) - 1
        /\ \A k \in 1 .. i : stack'[k] = stack[k]
        /\ stack'[i].fn \in ArgumentFns
    BY <1>1, <1>4, <1>7, <1>19
  <2>2. Height(stack[i]) < OpenAfter(x)
    BY <1>3, <1>13, <1>16, <1>19, <2>1, TopDepths DEF Bracketing
  <2>3. Height(stack[i]) \in Nat
    <3>1. i \in 1 .. Len(stack) /\ Alike(stack'[i], stack[i])
      BY <1>1, <2>1 DEF Alike
    <3> QED BY <1>13, <1>19, <2>1, <3>1, HeightKept
  <2>4. OpenAfter(x) > Height(stack[i])
    BY <1>16, <2>2, <2>3
  <2>5. Undisturbed(i, new)
    BY <1>11, <1>16, <1>18, <2>4 DEF Undisturbed
  <2> QED BY <1>7, <1>8, <1>12, <1>13, <2>1, <2>5, LowerKept
<1>20. /\ HeldBy(x)' = HeldBy(x) \cup new /\ \A n \in new : n \notin HeldBy(x)
       /\ CommasAfter(x)' = CommasAfter(x) \cup {at} /\ at \notin CommasAfter(x)
  <2>1. {n \in new : x < n.first /\ OpenAfter(n.first - 1)' = OpenAfter(x)} = new
    BY <1>10, <1>11, <1>15, <1>18
  <2>2. HeldBy(x)' = HeldBy(x) \cup new
    BY <1>12, <1>15, <2>1, HeldNext
  <2>3. CommasAfter(x)' = CommasAfter(x) \cup {at}
    BY <1>2, <1>8, <1>15, <1>16, CommasNext
  <2>4. ~(at < at) /\ at \notin x + 1 .. at - 1
    BY <1>1, <1>15
  <2>5. \A n \in new : n \notin HeldBy(x)
    BY <1>10, <1>11, <1>13, <2>4 DEF HeldBy
  <2>6. at \notin CommasAfter(x)
    BY <2>4 DEF CommasAfter
  <2> QED BY <2>2, <2>3, <2>5, <2>6
<1>21. ArgumentFrame(m)'
  <2>1. stack'[m].from = x /\ stack'[m].fn = "Arguments" /\ stack'[m].previous = "Comma"
    BY <1>6, <1>7, <1>14
  <2>2. \A sum : Sums(sum, stack') => Height(stack[m])' = Len(sum[m])
    <3>1. ASSUME NEW k \in 1 .. m PROVE Alike(stack'[k], stack[k])
      <4>1. CASE k = m
        BY <1>3, <1>5, <1>6, <1>7, <4>1 DEF Alike
      <4>2. CASE k # m
        <5>1. k \in 1 .. m - 1
          BY <1>5, <4>2
        <5> QED BY <1>7, <5>1 DEF Alike
      <4> QED BY <4>1, <4>2
    <3>2. m \in 1 .. Len(stack') /\ m <= Len(stack) /\ stack[m].fn \in ArgumentFns
      BY <1>1, <1>3, <1>4, <1>5, <1>7 DEF ArgumentFns
    <3> QED BY <1>7, <1>13, <3>1, <3>2, DepthKept
  <2>3. AreCounted(stack[m])'
    <3>1. /\ IsFiniteSet(CommasAfter(x)) /\ IsFiniteSet(HeldBy(x))
          /\ Cardinality(HeldBy(x)) =
               Cardinality(CommasAfter(x)) + IF Top.previous = "Argument" THEN 1 ELSE 0
      <4>1. AreCounted(stack[m])
        BY <1>3, <1>5, <1>15 DEF ArgumentFrame
      <4> QED BY <1>5, <1>15, <4>1 DEF AreCounted
    <3>2. /\ IsFiniteSet(CommasAfter(x) \cup {at})
          /\ Cardinality(CommasAfter(x) \cup {at}) = Cardinality(CommasAfter(x)) + 1
      BY <1>20, <3>1, FS_AddElement
    <3>3. Cardinality(CommasAfter(x)) \in Nat
      BY <3>1, FS_CardinalityType
    <3>4. /\ IsFiniteSet(HeldBy(x) \cup new)
          /\ Cardinality(HeldBy(x) \cup new) = Cardinality(CommasAfter(x)) + 1
      <4>1. CASE Top.previous = "Argument"
        <5>1. HeldBy(x) \cup new = HeldBy(x)
          BY <1>0, <4>1
        <5> QED BY <3>1, <4>1, <5>1
      <4>2. CASE Top.previous # "Argument"
        <5>1. new = {e} /\ e \notin HeldBy(x)
          BY <1>0, <1>20, <4>2
        <5>2. /\ IsFiniteSet(HeldBy(x) \cup {e})
              /\ Cardinality(HeldBy(x) \cup {e}) = Cardinality(HeldBy(x)) + 1
          BY <3>1, <5>1, FS_AddElement
        <5>3. Cardinality(HeldBy(x)) = Cardinality(CommasAfter(x))
          BY <3>1, <3>3, <4>2
        <5> QED BY <5>1, <5>2, <5>3
      <4> QED BY <4>1, <4>2
    <3>5. CommasAfter(stack[m].from)' = CommasAfter(x)' /\ HeldBy(stack[m].from)' = HeldBy(x)'
      BY <2>1
    <3>6. /\ CommasAfter(stack[m].from)' = CommasAfter(x) \cup {at}
          /\ HeldBy(stack[m].from)' = HeldBy(x) \cup new
      BY <1>20, <3>5
    <3>7. (IF stack'[m].previous = "Argument" THEN 1 ELSE 0) = 0
      BY <2>1
    <3>8. /\ IsFiniteSet(CommasAfter(stack[m].from)')
          /\ IsFiniteSet(HeldBy(stack[m].from)')
          /\ Cardinality(HeldBy(stack[m].from)') = Cardinality(CommasAfter(stack[m].from)') + 0
      BY <3>2, <3>3, <3>4, <3>6
    <3> QED BY <3>7, <3>8 DEF AreCounted
  <2>4. x >= 1 /\ x + 1 < at' /\ m = Len(stack')
    BY <1>1, <1>7, <1>9, <1>15
  <2> QED BY <2>1, <2>2, <2>3, <2>4 DEF ArgumentFrame
<1>22. ASSUME NEW i \in 1 .. Len(stack'), stack'[i].fn \in ArgumentFns
       PROVE  ArgumentFrame(i)'
  <2>1. CASE i = m
    BY <1>21, <2>1
  <2>2. CASE i # m
    <3>1. i \in 1 .. m - 1
      BY <1>5, <1>7, <2>2
    <3> QED BY <1>7, <1>19, <1>22, <3>1
  <2> QED BY <2>1, <2>2
<1>23. ASSUME NEW list \in NodesOf({"R_ARGUMENT_LIST"})'
       PROVE  ListCounted(list)' /\ list.last < at' - 1
  <2>1. list \in NodesOf({"R_ARGUMENT_LIST"})
    BY <1>12, <1>23
  <2>2. /\ pc # "CallClose"
        /\ NodesOf({"R_ARGUMENT"})' = NodesOf({"R_ARGUMENT"}) \cup new
        /\ \A n \in new : n.last = at - 1
    BY <1>3, <1>10, <1>11, <1>12
  <2> QED BY <2>1, <2>2, ListsKept
<1>24. \A n \in NodesOf({"R_ARGUMENT"})' : n.first < at'
  <2>1. \A n \in NodesOf({"R_ARGUMENT"}) : n.first \in Nat /\ n.first < at
    BY <1>13, NodesPlaced
  <2>2. \A n \in new : n.first = at
    BY <1>10, <1>11
  <2> QED BY <1>1, <1>9, <1>12, <2>1, <2>2
<1>25. Top'.previous # "Open"
  BY <1>6, <1>7 DEF Top
<1> QED BY <1>2, <1>22, <1>23, <1>24, <1>25 DEF CommasInv, ArgumentFrames

\* A list that is complete holds what its function has counted, and the hole
\* behind a last comma.
LEMMA ListIsCounted ==
  ASSUME ErrorInv, SpanInv, TextStep, CommasInv, pc = "Arguments", Top.fn = "Arguments", at' = at,
         NEW e, e.first = at, e.last = at - 1,
         NEW new, new = IF Top.previous = "Comma" THEN {e} ELSE {},
         NodesOf({"R_ARGUMENT"})' = NodesOf({"R_ARGUMENT"}) \cup new,
         \A n \in new : OpenAfter(n.first - 1)' = OpenAfter(Top.from),
         NEW list, list.first = Top.from + 1, list.last = at - 1
  PROVE  ListCounted(list)'
<1>1. /\ at \in Nat /\ at >= 1 /\ ParserInv
      /\ stack \in Seq(Frame) /\ Len(stack) \in Nat /\ Len(stack) > 0 /\ Top = stack[Len(stack)]
  BY ErrorFacts
<1>2. PICK x, m : x = Top.from /\ m = Len(stack)
  OBVIOUS
<1>3. m \in 1 .. Len(stack) /\ Top = stack[m] /\ stack[m].fn = "Arguments"
  BY <1>1, <1>2
<1>4. x \in Nat /\ x < at /\ stack[m] \in Frame
  BY <1>2, <1>3, FramesPlaced DEF ArgumentFns
<1>5. ArgumentFrame(m)
  BY <1>3 DEF CommasInv, ArgumentFrames, ArgumentFns
<1>6. /\ x >= 1 /\ Top.previous \in {"Open", "Comma", "Argument"}
      /\ Top.previous # "Open" => x + 1 < at
      /\ AreCounted(stack[m])
  BY <1>2, <1>3, <1>4, <1>5 DEF ArgumentFrame, Frame
<1>7. /\ IsFiniteSet(CommasAfter(x)) /\ IsFiniteSet(HeldBy(x))
      /\ Cardinality(HeldBy(x)) =
           Cardinality(CommasAfter(x)) + IF Top.previous = "Argument" THEN 1 ELSE 0
  BY <1>2, <1>3, <1>6 DEF AreCounted
<1>8. Cardinality(CommasAfter(x)) \in Nat
  BY <1>7, FS_CardinalityType
<1>9. \A n \in NodesOf({"R_ARGUMENT"}) : n.first \in Nat /\ n.first < at /\ n.last \in Nat /\ n.last < at
  BY NodesPlaced DEF CommasInv
<1>10. \A n \in new : n = e
  OBVIOUS
<1>11. CommasAfter(x)' = CommasAfter(x)
  <2>1. ~Bump
    BY DEF TextStep
  <2> QED BY <1>4, <2>1, CommasNext
<1>12. HeldBy(x)' = HeldBy(x) \cup new
  <2>1. \A n \in new : x < n.first
    BY <1>4, <1>10
  <2>2. {n \in new : x < n.first /\ OpenAfter(n.first - 1)' = OpenAfter(x)} = new
    BY <1>2, <2>1
  <2> QED BY <1>4, <2>2, HeldNext
<1>13. /\ list.first = x + 1 /\ list.last = at - 1 /\ list.last = at' - 1
       /\ list.first - 1 = x
  BY <1>2, <1>4
<1>14. CommasOf(list)' = CommasAfter(x)
  <2>1. CommasOf(list)' = CommasAfter(x)'
    BY <1>13 DEF CommasOf, CommasAfter, OpenAfter
  <2> QED BY <1>11, <2>1
<1>15. ArgumentsOf(list)' = HeldBy(x) \cup new
  <2>1. \A n \in NodesOf({"R_ARGUMENT"})' : (list.first <= n.first /\ n.last <= list.last) <=> x < n.first
    <3>1. \A n \in NodesOf({"R_ARGUMENT"}) : (x + 1 <= n.first /\ n.last <= at - 1) <=> x < n.first
      BY <1>1, <1>4, <1>9
    <3>2. \A n \in new : (x + 1 <= n.first /\ n.last <= at - 1) <=> x < n.first
      BY <1>1, <1>4, <1>10
    <3> QED BY <1>13, <3>1, <3>2
  <2>2. ArgumentsOf(list)' = HeldBy(x)'
    BY <1>13, <2>1 DEF ArgumentsOf, HeldBy, OpenAfter
  <2> QED BY <1>12, <2>2
<1>16. CASE Top.previous = "Open"
  <2>1. at = x + 1 /\ new = {}
    BY <1>2, <1>16 DEF CommasInv
  <2>2. HeldBy(x) = {}
    <3>1. \A n \in NodesOf({"R_ARGUMENT"}) : ~(x < n.first)
      BY <1>4, <1>9, <2>1
    <3> QED BY <3>1 DEF HeldBy
  <2>3. ArgumentsOf(list)' = {} /\ list.last < list.first /\ 1 <= list.first
    BY <1>4, <1>13, <1>15, <2>1, <2>2
  <2>4. Cardinality(ArgumentsOf(list)') = 0
    BY <2>3, FS_EmptySet
  <2> QED BY <2>3, <2>4 DEF ListCounted
<1>17. CASE Top.previous # "Open"
  <2>1. ~(list.last < list.first) /\ 1 <= list.first
    BY <1>1, <1>4, <1>6, <1>13, <1>17
  <2>2. Cardinality(HeldBy(x) \cup new) = Cardinality(CommasAfter(x)) + 1
    <3>1. CASE Top.previous = "Argument"
      <4>1. HeldBy(x) \cup new = HeldBy(x)
        BY <3>1
      <4> QED BY <1>7, <3>1, <4>1
    <3>2. CASE Top.previous = "Comma"
      <4>1. ~(e.first < at)
        BY <1>1
      <4>2. new = {e} /\ e \notin HeldBy(x)
        BY <1>9, <3>2, <4>1 DEF HeldBy
      <4>3. Cardinality(HeldBy(x) \cup {e}) = Cardinality(HeldBy(x)) + 1
        BY <1>7, <4>2, FS_AddElement
      <4>4. Cardinality(HeldBy(x)) = Cardinality(CommasAfter(x))
        BY <1>7, <1>8, <3>2
      <4> QED BY <4>2, <4>3, <4>4
    <3> QED BY <1>6, <1>17, <3>1, <3>2
  <2>3. Cardinality(ArgumentsOf(list)') = Cardinality(CommasOf(list)') + 1
    BY <1>14, <1>15, <2>2
  <2> QED BY <2>1, <2>3 DEF ListCounted
<1> QED BY <1>6, <1>16, <1>17

LEMMA ListCommas ==
  ASSUME ErrorInv, BracketsInv, diagnostics = <<>>, SpanInv, TextStep, CommasInv,
         ArgumentListParsed
  PROVE  CommasInv'
<1>0. PICK e, list, new : /\ e = EmptyArgument
                          /\ list = NodeBefore("R_ARGUMENT_LIST", Top.from + 1)
                          /\ new = IF Top.previous = "Comma" THEN {e} ELSE {}
  OBVIOUS
<1>1. PICK completed : completed = {list} \cup new
  OBVIOUS
<1>2. /\ at \in Nat /\ at >= 1 /\ ParserInv
      /\ stack \in Seq(Frame) /\ Len(stack) \in Nat /\ Len(stack) > 0 /\ Top = stack[Len(stack)]
  BY ErrorFacts
<1>3. pc = "Arguments" /\ Complete(completed) /\ pc' = "CallClose" /\ stack' = stack
  BY <1>0, <1>1 DEF ArgumentListParsed, Continue, Goto
<1>4. Top.fn = "Arguments" /\ pc # "CallClose"
  BY <1>2, <1>3, TopAt
<1>5. nodes' = nodes \cup completed /\ at' = at
  BY <1>2, <1>3, Completed
<1>6. /\ e.kind = "R_ARGUMENT" /\ e.first = at /\ e.last = at - 1
      /\ list.kind = "R_ARGUMENT_LIST" /\ list.first = Top.from + 1 /\ list.last = at - 1
  BY <1>0 DEF EmptyArgument, NodeBefore, NodeOver
<1>7. \A n \in new : n = e
  BY <1>0
<1>8. /\ NodesOf({"R_ARGUMENT"})' = NodesOf({"R_ARGUMENT"}) \cup new
      /\ NodesOf({"R_ARGUMENT_LIST"})' = NodesOf({"R_ARGUMENT_LIST"}) \cup {list}
  BY <1>1, <1>5, <1>6, <1>7 DEF NodesOf
<1>9. ArgumentFrames
  BY DEF CommasInv
<1>10. PICK m, x, l : m = Len(stack) /\ x = Top.from /\ l = at - 1
  OBVIOUS
<1>11. /\ m \in 1 .. Len(stack) /\ Top = stack[m] /\ l \in Nat /\ l \in 0 .. at
       /\ stack[m].fn = "Arguments" /\ stack[m].fn \in ArgumentFns
  BY <1>2, <1>4, <1>10 DEF ArgumentFns
<1>12. OpenAfter(x) = OpenAfter(l) /\ OpenAfter(l)' = OpenAfter(l) /\ OpenAfter(l) \in Nat
  <2>1. Height(Top) = OpenAfter(at - 1) /\ Height(Top) = OpenAfter(x)
    BY <1>4, <1>9, <1>10, TopDepths DEF ArgumentFns, Height
  <2>2. OpenAfter(l)' = OpenAfter(l)
    BY <1>11, SameBehind DEF OpenAfter
  <2> QED BY <1>10, <1>11, <2>1, <2>2, DepthTyped
<1>13. \A n \in new : OpenAfter(n.first - 1)' = OpenAfter(x)
  <2>1. e.first - 1 = l
    BY <1>6, <1>10
  <2>2. OpenAfter(e.first - 1)' = OpenAfter(l)'
    BY <2>1
  <2> QED BY <1>7, <1>12, <2>2
<1>14. ASSUME NEW i \in 1 .. Len(stack'), stack'[i].fn \in ArgumentFns
       PROVE  ArgumentFrame(i)'
  <2>1. /\ i \in 1 .. Len(stack) /\ stack'[i] = stack[i] /\ stack[i].fn \in ArgumentFns
        /\ \A k \in 1 .. i : stack'[k] = stack[k]
        /\ \A k \in 1 .. i : Alike(stack'[k], stack[k])
        /\ stack' \in Seq(Frame)
    BY <1>2, <1>3, <1>14 DEF Alike
  <2>2. Height(stack[i]) \in Nat
    BY <1>9, <1>14, <2>1, HeightKept
  <2>3. CASE i = m
    <3>1. stack[i].fn = "Arguments" /\ i = Len(stack') /\ i <= Len(stack) /\ ~(i < Len(stack'))
      BY <1>2, <1>3, <1>10, <1>11, <2>3
    <3> QED BY <1>3, <1>5, <1>8, <1>9, <1>14, <2>1, <3>1, FrameKept
  <2>4. CASE i # m
    <3>1. i < Len(stack) /\ i \in 1 .. Len(stack) - 1
      BY <1>2, <1>10, <2>1, <2>4
    <3>2. Height(stack[i]) < OpenAfter(x)
      BY <1>4, <1>9, <1>10, <1>12, <2>1, <3>1, TopDepths DEF Bracketing
    <3>3. OpenAfter(x) > Height(stack[i])
      BY <1>12, <2>2, <3>2
    <3>4. Undisturbed(i, new)
      <4>1. ~Bump
        BY <1>5 DEF TextStep
      <4> QED BY <1>13, <3>3, <4>1 DEF Undisturbed
    <3> QED BY <1>5, <1>8, <1>9, <1>14, <2>1, <3>1, <3>4, LowerKept
  <2> QED BY <2>3, <2>4
<1>15. ASSUME NEW other \in NodesOf({"R_ARGUMENT_LIST"})'
       PROVE  ListCounted(other)'
  <2>1. CASE other \in NodesOf({"R_ARGUMENT_LIST"})
    <3>1. /\ NodesOf({"R_ARGUMENT"})' = NodesOf({"R_ARGUMENT"}) \cup new
          /\ \A n \in new : n.last = at - 1
      BY <1>6, <1>7, <1>8
    <3> QED BY <1>4, <2>1, <3>1, ListsKept
  <2>2. CASE other = list
    <3>1. ListCounted(list)'
      <4>1. \A n \in new : OpenAfter(n.first - 1)' = OpenAfter(Top.from)
        BY <1>10, <1>13
      <4>2. new = IF Top.previous = "Comma" THEN {e} ELSE {}
        BY <1>0
      <4>3. NodesOf({"R_ARGUMENT"})' = NodesOf({"R_ARGUMENT"}) \cup new
        BY <1>8
      <4> QED BY <1>3, <1>4, <1>5, <1>6, <4>1, <4>2, <4>3, ListIsCounted
    <3> QED BY <2>2, <3>1
  <2> QED BY <1>8, <1>15, <2>1, <2>2
<1> QED BY <1>3, <1>14, <1>15 DEF CommasInv, ArgumentFrames

LEMMA CommasInit == ParserInit => CommasInv
<1> SUFFICES ASSUME ParserInit PROVE CommasInv
  OBVIOUS
<1>1. stack = <<Call("Root", 1)>> /\ nodes = {} /\ pc \notin {"Arguments", "ArgumentValue"}
  BY DEF ParserInit
<1>2. ArgumentFrames
  <2>1. \A i \in 1 .. Len(stack) : stack[i].fn \notin ArgumentFns
    BY <1>1 DEF Call, ArgumentFns
  <2> QED BY <2>1 DEF ArgumentFrames
<1>3. NodesOf({"R_ARGUMENT"}) = {} /\ NodesOf({"R_ARGUMENT_LIST"}) = {}
  BY <1>1 DEF NodesOf
<1> QED BY <1>1, <1>2, <1>3 DEF CommasInv

LEMMA CommasStay ==
  ASSUME ErrorInv, BracketsInv, diagnostics = <<>>, SpanInv, TextStep, CommasInv, UNCHANGED vars
  PROVE  CommasInv'
<1>1. pc' = pc /\ at' = at /\ stack' = stack /\ nodes' = nodes
  BY DEF vars, sourceVars, parserVars
<1>2. /\ ParserInv /\ stack \in Seq(Frame) /\ Len(stack) \in Nat /\ Len(stack) > 0
      /\ Top = stack[Len(stack)]
  BY ErrorFacts
<1>3. /\ NodesOf({"R_ARGUMENT"})' = NodesOf({"R_ARGUMENT"}) \cup {}
      /\ NodesOf({"R_ARGUMENT"})' = NodesOf({"R_ARGUMENT"})
      /\ NodesOf({"R_ARGUMENT_LIST"})' = NodesOf({"R_ARGUMENT_LIST"})
  BY <1>1 DEF NodesOf
<1>4. ArgumentFrames
  BY DEF CommasInv
<1>5. ASSUME NEW i \in 1 .. Len(stack'), stack'[i].fn \in ArgumentFns
      PROVE  ArgumentFrame(i)'
  <2>1. /\ i <= Len(stack) /\ stack'[i] = stack[i] /\ stack[i].fn \in ArgumentFns
        /\ \A k \in 1 .. i : Alike(stack'[k], stack[k])
        /\ stack' \in Seq(Frame)
    BY <1>1, <1>2, <1>5 DEF Alike
  <2>2. Undisturbed(i, {})
    <3>1. ~Bump
      BY <1>1 DEF TextStep
    <3> QED BY <3>1 DEF Undisturbed
  <2>3. /\ i < Len(stack') /\ stack[i].fn = "Arguments" =>
             i < Len(stack) \/ stack[i].previous # "Argument"
        /\ \/ stack[i].fn = "Arguments" /\ i = Len(stack') /\ pc' = "CallClose"
           \/ Undisturbed(i, {}) /\ (stack[i].fn = "Arguments" => i < Len(stack) \/ pc # "CallClose")
    BY <1>1, <1>2, <2>1, <2>2
  <2> QED BY <1>1, <1>3, <1>4, <2>1, <2>3, FrameKept
<1>6. ASSUME NEW list \in NodesOf({"R_ARGUMENT_LIST"})'
      PROVE  ListCounted(list)'
  <2>1. list \in NodesOf({"R_ARGUMENT_LIST"}) /\ ListCounted(list)
    BY <1>3, <1>6 DEF CommasInv
  <2>2. \A n \in {} : ~(n.last <= list.last)
    OBVIOUS
  <2> QED BY <1>3, <2>1, <2>2, ListKept
<1>7. Top' = Top
  BY <1>1 DEF Top
<1> QED BY <1>1, <1>3, <1>5, <1>6, <1>7 DEF CommasInv, ArgumentFrames

LEMMA CommasInvNext ==
  ASSUME ErrorInv, BracketsInv, diagnostics = <<>>, SpanInv, TextStep, CommasInv,
         ErrorInv', BracketsInv', diagnostics' = <<>>, [ParserNext]_vars
  PROVE  CommasInv'
<1>1. QuietStep \/ ArgumentStep \/ UNCHANGED vars
  BY QuietSteps
<1>2. CASE QuietStep \/ GlueClose \/ CallParsed \/ ParseParameterComma
  BY <1>2, QuietCommas
<1>3. CASE ParseCallLike
  BY <1>3, CallLikeCommas
<1>4. CASE ParseArgument
  BY <1>4, ArgumentCommas
<1>5. CASE ArgumentParsed
  BY <1>5, ParsedCommas
<1>6. CASE ParseArgumentComma
  BY <1>6, SeparatedCommas
<1>7. CASE ArgumentListParsed
  BY <1>7, ListCommas
<1>8. CASE UNCHANGED vars
  BY <1>8, CommasStay
<1> QED BY <1>1, <1>2, <1>3, <1>4, <1>5, <1>6, <1>7, <1>8 DEF ArgumentStep

CommaInv == OperandInv /\ (diagnostics = <<>> => CommasInv)

LEMMA CommaInitInv == ParserInit => CommaInv
BY OperandInitInv, CommasInit DEF CommaInv

LEMMA CommaNextInv == CommaInv /\ [ParserNext]_vars => CommaInv'
<1> SUFFICES ASSUME CommaInv, [ParserNext]_vars PROVE CommaInv'
  OBVIOUS
<1>1. OperandInv /\ OperandInv' /\ BalanceInv /\ BalanceInv' /\ ErrorInv /\ ErrorInv'
  BY OperandNextInv DEF CommaInv, OperandInv, BalanceInv
<1>2. TextStep
  BY <1>1, ErrorFacts, StepIsSourceStep, SourceText DEF ErrorInv
<1>3. ASSUME diagnostics' = <<>> PROVE CommasInv'
  <2>1. diagnostics = <<>>
    BY <1>1, <1>3, CleanBefore
  <2>2. SpanInv /\ CommasInv /\ BracketsInv /\ BracketsInv'
    BY <1>1, <2>1 DEF CommaInv, OperandInv, BalanceInv
  <2> QED BY <1>1, <1>2, <1>3, <2>1, <2>2, CommasInvNext
<1> QED BY <1>1, <1>3 DEF CommaInv

\* While no error is recorded, each list of arguments that is being parsed has as
\* many arguments as commas, one more behind an argument, and each that is closed
\* has one more argument than commas, or none of either.
THEOREM CommaInvariant == ParserSpec => []CommaInv
<1> QED BY CommaInitInv, CommaNextInv, PTL DEF ParserSpec

\* In a text without errors every comma of a call or a subset separates two
\* arguments, a hole where nothing is written, so that no position is lost.
THEOREM CommasSeparate == ParserSpec => []CommasSeparateArguments
<1>1. CommaInv => CommasSeparateArguments
  BY DEF CommaInv, CommasInv, ListCounted, CommasSeparateArguments
<1> QED BY <1>1, CommaInvariant, PTL

=============================================================================
