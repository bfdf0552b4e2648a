-------------------------- MODULE RParserTree_proofs --------------------------
(***************************************************************************)
(* Proofs about the finished tree of a text without errors, for every      *)
(* alphabet and every length of the text: where its nodes begin and end,   *)
(* where a node has its operator, which separators end expressions, which  *)
(* keep an operator from its selector, and that precedence decides every   *)
(* conflict over an operand.                                               *)
(***************************************************************************)
EXTENDS RParser_proofs

-----------------------------------------------------------------------------
(* The other steps: statements, operators and the nodes that end with a part *)

LEMMA StatementSpans ==
  ASSUME ParserInv, SpanInv
  PROVE  /\ ParseStatement => Spanned(Len(stack), {}) /\ at' = at
         /\ StatementParsed => Spanned(Len(stack) - 1, {}) /\ at' = at
         /\ EndExpression => Spanned(Len(stack) - 1, {}) /\ at' = at
<1> USE DEF Continue, Goto, Return, Yield
<1>1. /\ Len(stack) \in Nat /\ Len(stack) > 0 /\ Top = stack[Len(stack)] /\ Top \in Frame
      /\ at \in Nat /\ at - 1 \in Nat
  BY InvFacts DEF Top
<1>2. ASSUME ParseStatement PROVE Spanned(Len(stack), {}) /\ at' = at
  <2>1. /\ stack' = stack \o <<Call("Statement", at), Expression(0)>> /\ pc' = "Prefix"
        /\ nodes' = nodes \cup {} /\ at' = at
    BY <1>2 DEF ParseStatement, BlessSemicolons
  <2>2. PICK f \in Frame : f = Call("Statement", at) /\ f.from = at /\ f.fn = "Statement"
    <3>1. Call("Statement", at) \in Frame /\ Call("Statement", at).fn = "Statement"
      BY <1>1, FrameTypes, FunctionsAre
    <3> QED BY <3>1 DEF Call
  <2>3. PICK e \in Frame : e = Expression(0) /\ ~Marked(e)
    <3>1. Expression(0) \in Frame /\ Expression(0).fn = "Expression"
      BY PowerTypes, FrameTypes
    <3> QED BY <3>1 DEF Marked
  <2>4. Begins(f, {})
    <3>1. Edge(f) = at
      BY <2>2 DEF Edge, Loose
    <3> QED BY <1>1, <2>1, <2>2, <3>1 DEF Begins
  <2>5. stack' = stack \o <<f, e>> /\ Fresh({}) /\ at' \in Nat /\ at <= at' /\ pc' # "Return"
    BY <1>1, <2>1, <2>2, <2>3 DEF Fresh
  <2> QED BY <2>1, <2>3, <2>4, <2>5, SpanPushTwo
<1>3. PICK b \in 0 .. Len(stack) : b = Len(stack) - 1
  <2>1. Len(stack) - 1 \in 0 .. Len(stack)
    BY <1>1
  <2> QED BY <2>1
<1>4. ASSUME StatementParsed PROVE Spanned(Len(stack) - 1, {}) /\ at' = at
  <2>1. Complete({}) /\ stack' = Below /\ pc' = "List"
    BY <1>4 DEF StatementParsed
  <2>2. nodes' = nodes \cup {} /\ at' \in Nat /\ at <= at' /\ at' = at
    BY <2>1, Completed
  <2>3. stack' \in Seq(Frame) /\ Len(stack') = b /\ \A i \in 1 .. b : stack'[i] = stack[i]
    BY <1>3, <2>1, StacksLeft
  <2>4. Spanned(b, {})
    BY <2>1, <2>2, <2>3, SpanLeave
  <2> QED BY <1>3, <2>2, <2>4
<1>5. ASSUME EndExpression PROVE Spanned(Len(stack) - 1, {}) /\ at' = at
  <2>1. /\ Complete({}) /\ stack' = Below /\ pc' = "Return" /\ pc = "Return" /\ value' = value
        /\ Top.fn = "Expression"
    BY <1>5 DEF EndExpression, Returned
  <2>2. nodes' = nodes \cup {} /\ at' \in Nat /\ at <= at' /\ at' = at
    BY <2>1, Completed
  <2>3. stack' \in Seq(Frame) /\ Len(stack') = b /\ \A i \in 1 .. b : stack'[i] = stack[i]
    BY <1>3, <2>1, StacksLeft
  <2>4. /\ value' \in nodes' /\ value'.last = at' - 1 /\ Cut(b, value'.first)
        /\ value'.first < at'
    <3>1. Cut(b, value.first)
      BY <2>1, CutFacts
    <3> QED BY <2>1, <2>2, <3>1 DEF SpanInv, ValueEnds
  <2>5. Spanned(b, {})
    BY <2>2, <2>3, <2>4, SpanLeave
  <2> QED BY <1>3, <2>2, <2>5
<1> QED BY <1>2, <1>4, <1>5

\* A node of what the function on top has parsed is returned.
LEMMA NodeLeaves ==
  ASSUME ParserInv, SpanInv, Marked(Top), Top.fn # "Root", NEW kind \in NodeKinds,
         nodes' = nodes \cup {NodeBefore(kind, Top.from)}, at' = at,
         stack' = Below, pc' = "Return", value' = NodeBefore(kind, Top.from),
         Top.fn \notin Loose \/ Under.fn \in {"Root", "Braces"}
  PROVE  /\ NodeBefore(kind, Top.from) \in Node
         /\ Spanned(Len(stack) - 1, {NodeBefore(kind, Top.from)})
<1>1. /\ Len(stack) \in Nat /\ Len(stack) > 0 /\ Top = stack[Len(stack)] /\ Top \in Frame
      /\ at \in Nat /\ at - 1 \in Nat
  BY InvFacts DEF Top
<1>2. at' \in Nat /\ at <= at'
  BY <1>1
<1>3. PICK n \in Node :
        /\ n = NodeBefore(kind, Top.from) /\ Cut(Len(stack) - 1, n.first) /\ n.first = Top.from
        /\ n.first <= n.last + 1 /\ n.last \in {at - 1, at' - 1} /\ n.last = at - 1
  BY <1>1, <1>2, TopNode DEF NodeBefore
<1>4. PICK b \in 1 .. Len(stack) - 1 : b = Len(stack) - 1
  BY StacksLeft
<1>5. /\ stack' \in Seq(Frame) /\ Len(stack') = b /\ \A i \in 1 .. b : stack'[i] = stack[i]
      /\ Under = stack[b]
  BY <1>4, StacksLeft
<1>6. Top' = Under
  BY <1>1, <1>4, <1>5 DEF Top
<1>7. Top.fn \notin Loose => Top.from < at
  <2>1. PICK i \in 1 .. Len(stack) : i = Len(stack)
    BY <1>1
  <2> QED BY <1>1, <2>1, FromBehind
<1>8. /\ value' \in nodes' /\ value'.last = at' - 1 /\ Cut(b, value'.first)
      /\ Top'.fn \notin {"Root", "Braces"} => value'.first < at'
      /\ \A m \in {n} : value'.first <= m.first
  <2>1. value' = n /\ n.first <= n.first
    BY <1>3 DEF Node
  <2> QED BY <1>3, <1>4, <1>6, <1>7, <2>1
<1>9. \A m \in {n} :
        /\ Cut(b, m.first) /\ m.first <= m.last + 1 /\ m.last \in {at - 1, at' - 1}
  BY <1>3, <1>4
<1>10. nodes' = nodes \cup {n} /\ {n} \subseteq Node /\ b \in 0 .. Len(stack)
  BY <1>1, <1>3, <1>4
<1>11. Spanned(b, {n})
  BY <1>2, <1>5, <1>8, <1>9, <1>10, SpanLeave
<1> QED BY <1>3, <1>4, <1>11

\* Two nodes are returned together, the one around the other.
LEMMA TwoNodesLeave ==
  ASSUME ParserInv, SpanInv, Marked(Top), Marked(Under), Top.fn # "Root", Under.fn # "Root",
         Top.fn \notin Loose, Under.fn \notin Loose,
         NEW inner \in NodeKinds, NEW outer \in NodeKinds,
         at' \in Nat, at <= at', NEW last \in Nat, last = at' - 1,
         nodes' = nodes \cup {NodeOver(inner, Top.from, last), NodeOver(outer, Under.from, last)},
         stack' = BelowTwo, pc' = "Return", value' = NodeOver(outer, Under.from, last)
  PROVE  /\ NodeOver(inner, Top.from, last) \in Node /\ NodeOver(outer, Under.from, last) \in Node
         /\ Len(stack) - 2 \in 1 .. Len(stack) - 2
         /\ Spanned(Len(stack) - 2,
                    {NodeOver(inner, Top.from, last), NodeOver(outer, Under.from, last)})
<1>1. /\ Len(stack) \in Nat /\ Len(stack) > 0 /\ Top = stack[Len(stack)] /\ Top \in Frame
      /\ at \in Nat /\ at - 1 \in Nat
  BY InvFacts DEF Top
<1>2. Len(stack) - 1 \in 1 .. Len(stack) - 1 /\ Under = stack[Len(stack) - 1]
  BY StacksLeft
<1>3. PICK i \in 1 .. Len(stack) : i = Len(stack)
  BY <1>1
<1>4. PICK j \in 1 .. Len(stack) : j = Len(stack) - 1
  BY <1>1, <1>2
<1>5. j > 1
  <2>1. j # 1
    BY <1>2, <1>4, InvFacts DEF Chain
  <2> QED BY <1>4, <2>1
<1>6. PICK b \in 1 .. Len(stack) : b = Len(stack) - 2 /\ b = j - 1
  <2>1. j - 1 \in 1 .. Len(stack) /\ j - 1 = Len(stack) - 2
    BY <1>1, <1>4, <1>5
  <2> QED BY <2>1
<1>7. /\ stack[i] = Top /\ stack[j] = Under /\ b \in 0 .. i - 1 /\ b \in 0 .. j - 1
      /\ last \in {at - 1, at' - 1} /\ i \in j + 1 .. Len(stack)
  BY <1>1, <1>2, <1>3, <1>4, <1>6
<1>8. PICK m \in Node :
        /\ m = NodeOver(inner, Top.from, last) /\ Cut(b, m.first) /\ m.first = Top.from
        /\ m.first <= m.last + 1 /\ m.last \in {at - 1, at' - 1} /\ m.last = last
  BY <1>7, NodeFrom
<1>9. PICK n \in Node :
        /\ n = NodeOver(outer, Under.from, last) /\ Cut(b, n.first) /\ n.first = Under.from
        /\ n.first <= n.last + 1 /\ n.last \in {at - 1, at' - 1} /\ n.last = last
  BY <1>7, NodeFrom
<1>10. Under.from < at /\ Edge(Under) <= Top.from /\ Edge(Under) = Under.from + 1
  <2>1. stack[j].from < at
    BY <1>7, FromBehind
  <2>2. AboveIn(stack, pc, value, at, j, Edge(stack[j]))
    BY <1>7 DEF SpanInv, FramesOrdered
  <2>3. Edge(stack[j]) <= stack[i].from
    BY <1>7, <2>2 DEF AboveIn
  <2> QED BY <1>7, <2>1, <2>3 DEF Edge
<1>11. n.first <= m.first /\ n.first <= n.first /\ n.first < at'
  <2>1. n.first \in Nat /\ m.first \in Nat /\ Under.from = n.first /\ Top.from = m.first
    BY <1>8, <1>9 DEF Node
  <2> QED BY <1>1, <1>10, <2>1
<1>12. /\ stack' \in Seq(Frame) /\ Len(stack') = b /\ \A k \in 1 .. b : stack'[k] = stack[k]
  BY <1>6, StacksLeft
<1>13. /\ value' \in nodes' /\ value'.last = at' - 1 /\ Cut(b, value'.first)
       /\ Top'.fn \notin {"Root", "Braces"} => value'.first < at'
       /\ \A x \in {m, n} : value'.first <= x.first
  BY <1>8, <1>9, <1>11
<1>14. \A x \in {m, n} :
         /\ Cut(b, x.first) /\ x.first <= x.last + 1 /\ x.last \in {at - 1, at' - 1}
  BY <1>8, <1>9
<1>15. nodes' = nodes \cup {m, n} /\ {m, n} \subseteq Node /\ b \in 0 .. Len(stack)
  BY <1>8, <1>9
<1>16. Spanned(b, {m, n})
  BY <1>12, <1>13, <1>14, <1>15, SpanLeave
<1>17. Len(stack) - 2 \in 1 .. Len(stack) - 2
  BY <1>1, <1>6
<1> QED BY <1>6, <1>8, <1>9, <1>16, <1>17

-----------------------------------------------------------------------------
(* Newlines are significant just where the brackets of the text say so *)

InnerOf(open) == IF open = <<>> THEN "EOF" ELSE open[Len(open)]

LEMMA OwedLast ==
  ASSUME NEW f \in Frame, f.fn \in Bracketing,
         f.fn = "Arguments" => f.close \in DOMAIN CallNode
  PROVE  /\ Len(Owed(f)) \in Nat \ {0}
         /\ Owed(f)[Len(Owed(f))] \in {"R_CURLY", "EOF"} <=> f.fn = "Braces"
<1>1. CASE f.fn = "Braces"
  <2>1. Owed(f) = <<"R_CURLY">>
    BY <1>1 DEF Owed
  <2> QED BY <1>1, <2>1
<1>2. CASE f.fn \in {"Parenthesized", "Condition", "ForHeader", "Parameters"}
  <2>1. Owed(f) = <<"R_PAREN">>
    BY <1>2 DEF Owed
  <2> QED BY <1>2, <2>1
<1>3. CASE f.fn = "Arguments" /\ f.close = "R_BRACK2"
  <2>1. Owed(f) = <<"R_BRACK", "R_BRACK">>
    BY <1>3 DEF Owed
  <2> QED BY <1>3, <2>1
<1>4. CASE f.fn = "Arguments" /\ f.close # "R_BRACK2"
  <2>1. Owed(f) = <<f.close>>
    BY <1>4 DEF Owed
  <2>2. f.close \in {"R_PAREN", "R_BRACK"}
    BY <1>4 DEF CallNode
  <2> QED BY <1>4, <2>1, <2>2
<1> QED BY <1>1, <1>2, <1>3, <1>4 DEF Bracketing

LEMMA InnerAppend ==
  ASSUME NEW s \in Seq(Closers), NEW t \in Seq(Closers), Len(t) \in Nat \ {0}
  PROVE  InnerOf(s \o t) = t[Len(t)]
<1>1. PICK u : u = s \o t
  OBVIOUS
<1>2. /\ Len(u) = Len(s) + Len(t) /\ Len(s) \in Nat /\ Len(t) \in Nat /\ Len(t) > 0
      /\ u[Len(s) + Len(t)] = t[Len(t)]
  BY <1>1
<1>3. u # <<>>
  BY <1>2
<1> QED BY <1>1, <1>2, <1>3 DEF InnerOf

LEMMA SignificanceIsOwed ==
  ASSUME NEW s \in Seq(Frame), NEW sig, Running(s, sig), NEW open, Owes(s, open)
  PROVE  sig[Len(sig)] <=> InnerOf(open) \in {"R_CURLY", "EOF"}
<1>1. PICK sum : Sums(sum, s) /\ sum[Len(s)] = open
  BY DEF Owes
<1> DEFINE n == Len(s)
           P == {i \in Nat : i <= n => (sig[1 + Cardinality(OpenIn(s, i))]
                                          <=> InnerOf(sum[i]) \in {"R_CURLY", "EOF"})}
<1>2. n \in Nat /\ Belongs(sig, s) /\ Chain(s)
  BY DEF Running
<1>3. 0 \in P
  <2>1. sum[0] = <<>> /\ OpenIn(s, 0) = {}
    BY <1>1 DEF Sums, OpenIn
  <2>2. 1 + Cardinality(OpenIn(s, 0)) = 1
    <3>1. Cardinality(OpenIn(s, 0)) = 0
      BY <2>1, FS_EmptySet
    <3> QED BY <3>1
  <2>3. sig[1]
    BY <1>2, Zenon DEF Belongs
  <2>4. InnerOf(sum[0]) = "EOF"
    BY <2>1 DEF InnerOf
  <2> QED BY <2>2, <2>3, <2>4
<1>4. ASSUME NEW i \in Nat, i \in P PROVE i + 1 \in P
  <2>1. SUFFICES ASSUME i + 1 <= n
                 PROVE  sig[1 + Cardinality(OpenIn(s, i + 1))]
                          <=> InnerOf(sum[i + 1]) \in {"R_CURLY", "EOF"}
    OBVIOUS
  <2>2. PICK j \in 1 .. n : j = i + 1 /\ j - 1 = i
    BY <1>2, <2>1
  <2>3. sum[i] \in Seq(Closers) /\ sum[j] = sum[i] \o Owed(s[j])
    <3>1. \A k \in 1 .. n : sum[k - 1] \in Seq(Closers) /\ sum[k] = sum[k - 1] \o Owed(s[k])
      BY <1>1 DEF Sums
    <3> HIDE DEF n
    <3> QED BY <2>2, <3>1, Zenon
  <2>4. PICK f \in Frame : f = s[j]
    BY <2>2
  <2>5. Owed(f) \in Seq(Closers) /\ (Owed(f) = <<>> <=> f.fn \notin Bracketing)
    BY OwedTyped
  <2>6. sig[1 + Cardinality(OpenIn(s, i))] <=> InnerOf(sum[i]) \in {"R_CURLY", "EOF"}
    BY <1>4, <2>1
  <2>7. CASE f.fn \in Bracketing
    <3>1. j \in OpenIn(s, n)
      BY <2>4, <2>7 DEF OpenIn
    <3>2. sig[1 + Cardinality(OpenIn(s, j))] <=> f.fn = "Braces"
      BY <1>2, <2>4, <3>1 DEF Belongs
    <3>3. f.fn = "Arguments" => f.close \in DOMAIN CallNode
      BY <1>2, <2>4 DEF Chain
    <3>4. Len(Owed(f)) \in Nat \ {0} /\
          (Owed(f)[Len(Owed(f))] \in {"R_CURLY", "EOF"} <=> f.fn = "Braces")
      BY <2>7, <3>3, OwedLast
    <3>5. InnerOf(sum[j]) = Owed(f)[Len(Owed(f))]
      BY <2>3, <2>4, <2>5, <3>4, InnerAppend
    <3> QED BY <2>2, <3>2, <3>4, <3>5
  <2>8. CASE f.fn \notin Bracketing
    <3>1. sum[j] = sum[i]
      <4>1. Owed(f) = <<>>
        BY <2>5, <2>8
      <4>2. PICK x \in Seq(Closers) : x = sum[i]
        BY <2>3
      <4>3. x \o <<>> = x
        OBVIOUS
      <4> QED BY <2>3, <2>4, <4>1, <4>2, <4>3, Zenon
    <3>2. OpenIn(s, j) = OpenIn(s, i)
      <4>1. 1 .. j = (1 .. i) \cup {j}
        BY <2>2
      <4> QED BY <2>4, <2>8, <4>1 DEF OpenIn
    <3> QED BY <2>2, <2>6, <3>1, <3>2
  <2> QED BY <2>7, <2>8
<1>5. n \in P
  <2> HIDE DEF P
  <2>1. Nat \subseteq P
    BY <1>3, <1>4, NatInductionSet
  <2> QED BY <1>2, <2>1
<1>6. Len(sig) = 1 + Cardinality(OpenIn(s, n)) /\ sum[n] = open
  BY <1>1, <1>2 DEF Belongs
<1> QED BY <1>2, <1>5, <1>6

\* What the parser takes for significant is what the brackets of the text say.
LEMMA TopSignificance ==
  ASSUME BalanceInv, diagnostics = <<>>
  PROVE  NewlinesSignificant <=> SeparatorsCount(at)
<1>1. ParserInv /\ Owes(stack, OpenBrackets[at - 1]) /\ stack \in Seq(Frame)
  BY ErrorFacts DEF BalanceInv, BracketsInv
<1>2. Running(stack, significance)
  BY <1>1, InvFacts
<1>3. significance[Len(significance)] <=> InnerOf(OpenBrackets[at - 1]) \in {"R_CURLY", "EOF"}
  BY <1>1, <1>2, SignificanceIsOwed
<1> QED BY <1>3 DEF NewlinesSignificant, SeparatorsCount, Innermost, InnerOf

\* What precedes a token that no statement began with is what the text says.
LEMMA TopSeparator ==
  ASSUME BalanceInv, at \notin blessed
  PROVE  /\ gapSemicolons <=> HasSemicolon(text[at].gap)
         /\ HasPrecedingSeparator <=> HasSeparator(at)
<1>1. SourceInv /\ at \in Nat \ {0}
  BY ErrorFacts DEF BalanceInv
<1>2. gapSemicolons <=> HasSemicolon(text[at].gap)
  BY <1>1 DEF SourceInv, PendingIsCurrent
<1> QED BY <1>2 DEF HasPrecedingSeparator, GapNewlines, HasSeparator

-----------------------------------------------------------------------------
(* Steps that take an operator, and steps that complete what it is part of *)

\* The tokens after which a function of an operator waits.
OperatorsOf(fn) ==
  CASE fn = "Binary"    -> BinaryOperators
    [] fn = "Extract"   -> Extractors
    [] fn = "Namespace" -> Namespacers
    [] fn = "Call"      -> CallOpeners

Selecting == {"Extract", "Namespace"}

\* The current token is taken as the operator behind the value.
OperatorStep ==
  /\ Spanned(Len(stack), {}) /\ Bump /\ at < at' /\ diagnostics' = diagnostics
  /\ pc = "Return" /\ Top.fn = "Expression" /\ Continues(Top.bp)
  /\ Len(stack) < Len(stack')
  /\ LET f == stack'[Len(stack) + 1] IN
     /\ f.fn \in Infixes /\ f.from = value.first /\ current \in OperatorsOf(f.fn)
     /\ f.fn \in Selecting => pc' = "Selector" /\ Len(stack') = Len(stack) + 1
     /\ f.fn \notin Selecting =>
          LET g == stack'[Len(stack) + 2] IN
          /\ Len(stack') = Len(stack) + 2
          /\ f.fn = "Binary" => /\ pc' = "Prefix" /\ g.fn = "Expression"
                                /\ g.bp = BinaryPower[current][2]
          /\ f.fn = "Call" => pc' = "Arguments" /\ g.fn = "Arguments" /\ g.from = at

LEMMA OperatorSteps ==
  ASSUME ParserInv, SpanInv,
         ParseBinary \/ ParseExtract \/ ParseNamespace \/ ParseCallLike
  PROVE  OperatorStep
<1> USE DEF Continue, Goto, Enter
<1>1. /\ stack \in Seq(Frame) /\ Len(stack) \in Nat /\ Chain(stack) /\ at \in Nat
      /\ value.first \in Nat
  BY InvFacts
<1>2. /\ pc = "Return" /\ Top.fn = "Expression" /\ Continues(Top.bp) /\ Consume({})
  BY DEF ParseBinary, ParseExtract, ParseNamespace, ParseCallLike, Returned
<1>3. /\ nodes' = nodes \cup {} /\ diagnostics' = diagnostics /\ Bump /\ Fresh({})
      /\ at' \in Nat /\ at < at' /\ at <= at'
  BY <1>2, Consumed, Moved DEF Consume
<1>4. value.first < at /\ value.first + 1 <= at
  <2>1. value.first < at
    BY <1>2 DEF SpanInv, ValueEnds
  <2> QED BY <1>1, <2>1
<1>5. ASSUME NEW fn \in Infixes
      PROVE  /\ Call(fn, value.first) \in Frame /\ Call(fn, value.first).fn = fn
             /\ Call(fn, value.first).from = value.first
             /\ Marked(Call(fn, value.first)) /\ Begins(Call(fn, value.first), {})
             /\ Edge(Call(fn, value.first)) <= at
  <2>1. fn \in Functions /\ fn \notin Loose \cup Lists \cup {"Expression"}
    BY FunctionsAre DEF Infixes, Loose, Lists
  <2>2. PICK f \in Frame : f = Call(fn, value.first) /\ f.fn = fn /\ f.from = value.first
    <3>1. Call(fn, value.first) \in Frame
      BY <1>1, <2>1, FrameTypes
    <3> QED BY <3>1 DEF Call
  <2>3. Edge(f) = value.first + 1
    BY <2>1, <2>2 DEF Edge
  <2>4. Edge(f) <= at /\ Edge(f) <= at'
    BY <1>1, <1>3, <1>4, <2>3
  <2>5. Begins(f, {}) /\ Marked(f)
    BY <1>2, <2>1, <2>2, <2>4 DEF Begins, Marked
  <2> QED BY <2>2, <2>4, <2>5
<1>6. CASE ParseExtract \/ ParseNamespace
  <2>1. PICK fn \in Selecting :
          /\ stack' = Append(stack, Call(fn, value.first)) /\ pc' = "Selector"
          /\ current \in OperatorsOf(fn)
    BY <1>6 DEF ParseExtract, ParseNamespace, OperatorsOf, Selecting
  <2>2. fn \in Infixes
    BY DEF Infixes, Selecting
  <2>3. PICK f \in Frame : /\ f = Call(fn, value.first) /\ f.fn = fn /\ f.from = value.first
                           /\ Begins(f, {})
    BY <1>5, <2>2
  <2>4. stack' = Append(stack, f) /\ pc' # "Return"
    BY <2>1, <2>3
  <2>5. Spanned(Len(stack), {})
    BY <1>3, <2>3, <2>4, SpanPush
  <2>6. Len(stack') = Len(stack) + 1 /\ stack'[Len(stack) + 1] = f /\ Len(stack) < Len(stack')
    BY <1>1, <2>4, AppendProperties
  <2> QED BY <1>2, <1>3, <2>1, <2>2, <2>3, <2>5, <2>6 DEF OperatorStep
<1>7. CASE ParseBinary \/ ParseCallLike
  <2>1. PICK fn \in {"Binary", "Call"}, g \in Frame :
          /\ stack' = stack \o <<Call(fn, value.first), g>>
          /\ current \in OperatorsOf(fn) /\ (Marked(g) => Begins(g, {}) /\ at <= g.from)
          /\ fn = "Binary" => /\ pc' = "Prefix" /\ g.fn = "Expression"
                              /\ g.bp = BinaryPower[current][2]
          /\ fn = "Call" => pc' = "Arguments" /\ g.fn = "Arguments" /\ g.from = at
    <3>1. CASE ParseBinary
      <4>1. PICK bp \in 0 .. MaxPower : bp = BinaryPower[current][2]
        BY <3>1, PowerTypes DEF ParseBinary, BinaryOperators
      <4>2. PICK g \in Frame : g = Expression(bp) /\ g.fn = "Expression" /\ g.bp = bp
        BY FrameTypes DEF Expression, Call
      <4>3. ~Marked(g)
        BY <4>2 DEF Marked
      <4>4. /\ stack' = stack \o <<Call("Binary", value.first), g>> /\ pc' = "Prefix"
            /\ current \in OperatorsOf("Binary")
        BY <3>1, <4>1, <4>2 DEF ParseBinary, OperatorsOf
      <4> QED BY <4>1, <4>2, <4>3, <4>4
    <3>2. CASE ParseCallLike
      <4>1. PICK close \in Closers : close = CloserOf[current] /\ current \in CallOpeners
        BY <3>2 DEF ParseCallLike, CallOpeners, CloserOf, Closers
      <4>2. PICK g \in Frame : g = List("Arguments", at, close) /\ g.fn = "Arguments" /\ g.from = at
        <5>1. List("Arguments", at, close) \in Frame
          BY <1>1, FrameTypes, FunctionsAre
        <5> QED BY <5>1 DEF List, Call
      <4>3. Begins(g, {}) /\ at <= g.from
        BY <1>1, <1>3, <4>2, BeginsHere
      <4>4. /\ stack' = stack \o <<Call("Call", value.first), g>> /\ pc' = "Arguments"
            /\ current \in OperatorsOf("Call")
        BY <3>2, <4>1, <4>2 DEF ParseCallLike, OperatorsOf
      <4> QED BY <4>2, <4>3, <4>4
    <3> QED BY <1>7, <3>1, <3>2
  <2>2. fn \in Infixes
    BY DEF Infixes
  <2>3. PICK f \in Frame : /\ f = Call(fn, value.first) /\ f.fn = fn /\ f.from = value.first
                           /\ Begins(f, {}) /\ Edge(f) <= at
    BY <1>5, <2>2
  <2>4. stack' = stack \o <<f, g>> /\ pc' # "Return"
    BY <2>1, <2>3
  <2>5. Marked(g) => Begins(g, {}) /\ Edge(f) <= g.from
    <3>1. Edge(f) \in Nat /\ g.from \in Nat
      BY EdgeTypes
    <3> QED BY <1>1, <2>1, <2>3, <3>1
  <2>6. Spanned(Len(stack), {})
    BY <1>3, <2>3, <2>4, <2>5, SpanPushTwo
  <2>7. Len(stack') = Len(stack) + 2 /\ stack'[Len(stack) + 1] = f /\ stack'[Len(stack) + 2] = g
        /\ Len(stack) < Len(stack')
    <3>1. stack' = Append(Append(stack, f), g)
      BY <1>1, <2>4, TwoPushed
    <3>2. /\ Append(stack, f) \in Seq(Frame) /\ Len(Append(stack, f)) = Len(stack) + 1
          /\ Append(stack, f)[Len(stack) + 1] = f
      BY <1>1, AppendProperties
    <3>3. /\ Len(stack') = Len(stack) + 2 /\ stack'[Len(stack) + 2] = g
          /\ stack'[Len(stack) + 1] = f
      BY <1>1, <3>1, <3>2, AppendProperties
    <3> QED BY <1>1, <3>3
  <2>8. f.fn \notin Selecting
    BY <2>1, <2>3 DEF Selecting
  <2> QED BY <1>2, <1>3, <2>1, <2>2, <2>3, <2>6, <2>7, <2>8 DEF OperatorStep
<1> QED BY <1>6, <1>7

\* The node of the function on top of the stack is returned.
NodeStep(n) ==
  /\ n \in Node /\ n.first = Top.from /\ n.last = at - 1
  /\ Spanned(Len(stack) - 1, {n})
  /\ stack' = Below /\ pc' = "Return" /\ value' = n
  /\ at' = at /\ text' = text

\* The nodes of the two functions on top of the stack, and the outer is returned.
NodesStep(m, n) ==
  /\ m \in Node /\ m.first = Top.from /\ m.last = at' - 1
  /\ n \in Node /\ n.first = Under.from /\ n.last = at' - 1
  /\ Len(stack) - 2 \in 1 .. Len(stack) - 2
  /\ Spanned(Len(stack) - 2, {m, n})
  /\ stack' = BelowTwo /\ pc' = "Return" /\ value' = n

LEMMA NodeReturned ==
  ASSUME ParserInv, SpanInv, Marked(Top), Top.fn # "Root", NEW kind \in NodeKinds,
         nodes' = nodes \cup {NodeBefore(kind, Top.from)}, at' = at, text' = text,
         stack' = Below, pc' = "Return", value' = NodeBefore(kind, Top.from),
         Top.fn \notin Loose \/ Under.fn \in {"Root", "Braces"}
  PROVE  \E n : NodeStep(n) /\ n.kind = kind
<1>1. /\ NodeBefore(kind, Top.from) \in Node
      /\ Spanned(Len(stack) - 1, {NodeBefore(kind, Top.from)})
  BY NodeLeaves
<1>2. PICK n \in Node : n = NodeBefore(kind, Top.from)
  BY <1>1
<1>3. n.kind = kind /\ n.first = Top.from /\ n.last = at - 1
  BY <1>2 DEF NodeBefore, NodeOver
<1>4. NodeStep(n)
  BY <1>1, <1>2, <1>3 DEF NodeStep
<1> QED BY <1>3, <1>4

LEMMA NodeSteps ==
  ASSUME ParserInv, SpanInv
  PROVE  /\ EndList =>
              /\ \E n : NodeStep(n) /\ n.kind = "R_EXPRESSION_LIST"
              /\ pc = "List" /\ Top.fn = "ExpressionList" /\ current' = current
              /\ current \in {Top.close, "EOF"} /\ diagnostics' = diagnostics
         /\ LastPartParsed =>
              /\ \E n : NodeStep(n) /\ n.kind = LastPartNode[Top.fn]
              /\ pc = "Return" /\ Top.fn \in DOMAIN LastPartNode
              /\ UNCHANGED <<sourceVars, significance, diagnostics>>
         /\ ParseNoSelector =>
              /\ \E n : NodeStep(n) /\ n.kind = LastPartNode[Top.fn]
              /\ pc = "Selector" /\ Top.fn \in Selecting /\ ~HasSelector
              /\ UNCHANGED <<sourceVars, significance, diagnostics>>
         /\ IfParsed =>
              /\ \E n : NodeStep(n) /\ n.kind = "R_IF_STATEMENT"
              /\ pc = "Return" /\ Top.fn = "If"
              /\ UNCHANGED <<sourceVars, significance, diagnostics>>
<1> USE DEF Return, Yield
<1>1. /\ {"R_EXPRESSION_LIST", "R_IF_STATEMENT"} \subseteq NodeKinds
      /\ \A fn \in DOMAIN LastPartNode : LastPartNode[fn] \in NodeKinds
  BY KindFacts
<1>2. DOMAIN LastPartNode \cap (Loose \cup {"Root", "Expression"}) = {} /\ Selecting \subseteq DOMAIN LastPartNode
  BY LastPartFunctions DEF Loose, Selecting
<1>3. ASSUME NEW completed, Complete(completed)
      PROVE  /\ nodes' = nodes \cup completed /\ at' = at /\ text' = text
             /\ UNCHANGED <<sourceVars, diagnostics>>
  BY <1>3 DEF Complete, sourceVars
<1>4. ASSUME EndList
      PROVE  /\ \E n : NodeStep(n) /\ n.kind = "R_EXPRESSION_LIST"
             /\ pc = "List" /\ Top.fn = "ExpressionList" /\ current' = current
             /\ current \in {Top.close, "EOF"} /\ diagnostics' = diagnostics
  <2>1. /\ pc = "List" /\ nodes' = nodes \cup {NodeBefore("R_EXPRESSION_LIST", Top.from)}
        /\ at' = at /\ text' = text /\ stack' = Below /\ pc' = "Return" /\ current' = current
        /\ value' = NodeBefore("R_EXPRESSION_LIST", Top.from) /\ diagnostics' = diagnostics
        /\ current \in {Top.close, "EOF"}
    BY <1>4 DEF EndList, BlessSemicolons
  <2>2. Top.fn = "ExpressionList"
    BY <2>1, TopAt
  <2>3. Under.fn \in {"Root", "Braces"} /\ Marked(Top) /\ Top.fn # "Root"
    BY <2>2, UnderFacts, CallersAre DEF Marked
  <2>4. \E n : NodeStep(n) /\ n.kind = "R_EXPRESSION_LIST"
    BY <1>1, <2>1, <2>3, NodeReturned
  <2> QED BY <2>1, <2>2, <2>4
<1>5. ASSUME LastPartParsed
      PROVE  /\ \E n : NodeStep(n) /\ n.kind = LastPartNode[Top.fn]
             /\ pc = "Return" /\ Top.fn \in DOMAIN LastPartNode
             /\ UNCHANGED <<sourceVars, significance, diagnostics>>
  <2>1. /\ Complete({NodeBefore(LastPartNode[Top.fn], Top.from)}) /\ pc = "Return"
        /\ stack' = Below /\ pc' = "Return" /\ value' = NodeBefore(LastPartNode[Top.fn], Top.from)
        /\ Top.fn \in DOMAIN LastPartNode /\ significance' = significance
    BY <1>5 DEF LastPartParsed
  <2>2. PICK kind \in NodeKinds : kind = LastPartNode[Top.fn]
    BY <1>1, <2>1
  <2>3. Top.fn \notin Loose /\ Top.fn # "Root" /\ Marked(Top)
    BY <1>2, <2>1 DEF Marked
  <2>4. /\ nodes' = nodes \cup {NodeBefore(kind, Top.from)} /\ at' = at /\ text' = text
        /\ UNCHANGED <<sourceVars, diagnostics>> /\ value' = NodeBefore(kind, Top.from)
    BY <1>3, <2>1, <2>2
  <2>5. \E n : NodeStep(n) /\ n.kind = kind
    BY <2>1, <2>3, <2>4, NodeReturned
  <2> QED BY <2>1, <2>2, <2>4, <2>5
<1>6. ASSUME ParseNoSelector
      PROVE  /\ \E n : NodeStep(n) /\ n.kind = LastPartNode[Top.fn]
             /\ pc = "Selector" /\ Top.fn \in Selecting /\ ~HasSelector
             /\ UNCHANGED <<sourceVars, significance, diagnostics>>
  <2>1. /\ Complete({NodeBefore(LastPartNode[Top.fn], Top.from)}) /\ pc = "Selector"
        /\ stack' = Below /\ pc' = "Return" /\ value' = NodeBefore(LastPartNode[Top.fn], Top.from)
        /\ ~HasSelector /\ significance' = significance
    BY <1>6 DEF ParseNoSelector
  <2>2. Top.fn \in Selecting
    BY <2>1, TopAt DEF Selecting
  <2>3. PICK kind \in NodeKinds : kind = LastPartNode[Top.fn]
    BY <1>1, <1>2, <2>2
  <2>4. Top.fn \notin Loose /\ Top.fn # "Root" /\ Marked(Top)
    BY <1>2, <2>2 DEF Marked
  <2>5. /\ nodes' = nodes \cup {NodeBefore(kind, Top.from)} /\ at' = at /\ text' = text
        /\ UNCHANGED <<sourceVars, diagnostics>> /\ value' = NodeBefore(kind, Top.from)
    BY <1>3, <2>1, <2>3
  <2>6. \E n : NodeStep(n) /\ n.kind = kind
    BY <2>1, <2>4, <2>5, NodeReturned
  <2> QED BY <2>1, <2>2, <2>3, <2>5, <2>6
<1>7. ASSUME IfParsed
      PROVE  /\ \E n : NodeStep(n) /\ n.kind = "R_IF_STATEMENT"
             /\ pc = "Return" /\ Top.fn = "If"
             /\ UNCHANGED <<sourceVars, significance, diagnostics>>
  <2>1. /\ Complete({NodeBefore("R_IF_STATEMENT", Top.from)}) /\ pc = "Return" /\ Top.fn = "If"
        /\ stack' = Below /\ pc' = "Return" /\ value' = NodeBefore("R_IF_STATEMENT", Top.from)
        /\ significance' = significance
    BY <1>7 DEF IfParsed, Returned
  <2>2. Top.fn \notin Loose /\ Top.fn # "Root" /\ Marked(Top)
    BY <2>1 DEF Marked, Loose
  <2>3. /\ nodes' = nodes \cup {NodeBefore("R_IF_STATEMENT", Top.from)} /\ at' = at
        /\ text' = text /\ UNCHANGED <<sourceVars, diagnostics>>
    BY <1>3, <2>1
  <2>4. \E n : NodeStep(n) /\ n.kind = "R_IF_STATEMENT"
    BY <1>1, <2>1, <2>2, <2>3, NodeReturned
  <2> QED BY <2>1, <2>3, <2>4
<1> QED BY <1>4, <1>5, <1>6, <1>7

LEMMA TwoNodesSteps ==
  ASSUME ParserInv, SpanInv
  PROVE  /\ IfElseParsed =>
              /\ \E m, n : /\ NodesStep(m, n)
                           /\ m.kind = "R_ELSE_CLAUSE" /\ n.kind = "R_IF_STATEMENT"
              /\ pc = "Return" /\ Top.fn = "Else" /\ Under.fn = "If" /\ at' = at
              /\ UNCHANGED <<sourceVars, significance, diagnostics>>
         /\ CallParsed =>
              /\ \E m, n : /\ NodesStep(m, n) /\ m.kind \notin SpecialKinds
                           /\ n.kind \in {"R_CALL", "R_SUBSET", "R_SUBSET2"}
              /\ pc = "CallClose" /\ Top.fn = "Arguments" /\ Under.fn = "Call"
              /\ Bump /\ at < at' /\ UNCHANGED diagnostics
<1> USE DEF Return, Yield
<1>1. ASSUME NEW inner \in NodeKinds, NEW outer \in NodeKinds, NEW last \in Nat, last = at' - 1,
             Marked(Top), Marked(Under), Top.fn # "Root", Under.fn # "Root",
             Top.fn \notin Loose, Under.fn \notin Loose, at' \in Nat, at <= at',
             nodes' = nodes \cup {NodeOver(inner, Top.from, last),
                                  NodeOver(outer, Under.from, last)},
             stack' = BelowTwo, pc' = "Return", value' = NodeOver(outer, Under.from, last)
      PROVE  \E m, n : NodesStep(m, n) /\ m.kind = inner /\ n.kind = outer
  <2>1. /\ NodeOver(inner, Top.from, last) \in Node /\ NodeOver(outer, Under.from, last) \in Node
        /\ Len(stack) - 2 \in 1 .. Len(stack) - 2
        /\ Spanned(Len(stack) - 2,
                   {NodeOver(inner, Top.from, last), NodeOver(outer, Under.from, last)})
    BY <1>1, TwoNodesLeave
  <2>2. PICK m \in Node : m = NodeOver(inner, Top.from, last)
    BY <2>1
  <2>3. PICK n \in Node : n = NodeOver(outer, Under.from, last)
    BY <2>1
  <2>4. /\ m.kind = inner /\ m.first = Top.from /\ m.last = at' - 1
        /\ n.kind = outer /\ n.first = Under.from /\ n.last = at' - 1
    BY <1>1, <2>2, <2>3 DEF NodeOver
  <2>5. NodesStep(m, n)
    BY <1>1, <2>1, <2>2, <2>3, <2>4 DEF NodesStep
  <2> QED BY <2>4, <2>5
<1>2. ASSUME IfElseParsed
      PROVE  /\ \E m, n : /\ NodesStep(m, n)
                          /\ m.kind = "R_ELSE_CLAUSE" /\ n.kind = "R_IF_STATEMENT"
             /\ pc = "Return" /\ Top.fn = "Else" /\ Under.fn = "If" /\ at' = at
             /\ UNCHANGED <<sourceVars, significance, diagnostics>>
  <2>1. /\ Complete({NodeBefore("R_ELSE_CLAUSE", Top.from), NodeBefore("R_IF_STATEMENT", Under.from)})
        /\ pc = "Return" /\ Top.fn = "Else" /\ stack' = BelowTwo /\ pc' = "Return"
        /\ value' = NodeBefore("R_IF_STATEMENT", Under.from) /\ significance' = significance
    BY <1>2 DEF IfElseParsed, Returned, BelowTwo
  <2>2. Under.fn = "If" /\ Top.fn # "Root" /\ Under.fn # "Root" /\ Marked(Top) /\ Marked(Under)
        /\ Top.fn \notin Loose /\ Under.fn \notin Loose
    BY <2>1, UnderFacts, CallersAre DEF Marked, Loose
  <2>3. /\ nodes' = nodes \cup {NodeBefore("R_ELSE_CLAUSE", Top.from),
                                NodeBefore("R_IF_STATEMENT", Under.from)}
        /\ at' = at /\ at' \in Nat /\ at <= at' /\ UNCHANGED <<sourceVars, diagnostics>>
    BY <2>1, Completed DEF Complete
  <2>4. PICK last \in Nat : last = at - 1 /\ last = at' - 1
    <3>1. at - 1 \in Nat
      BY InvFacts
    <3> QED BY <2>3, <3>1
  <2>5. /\ nodes' = nodes \cup {NodeOver("R_ELSE_CLAUSE", Top.from, last),
                                NodeOver("R_IF_STATEMENT", Under.from, last)}
        /\ value' = NodeOver("R_IF_STATEMENT", Under.from, last)
    BY <2>1, <2>3, <2>4 DEF NodeBefore
  <2>6. "R_ELSE_CLAUSE" \in NodeKinds /\ "R_IF_STATEMENT" \in NodeKinds
    BY KindFacts
  <2>7. \E m, n : /\ NodesStep(m, n)
                  /\ m.kind = "R_ELSE_CLAUSE" /\ n.kind = "R_IF_STATEMENT"
    BY <1>1, <2>1, <2>2, <2>3, <2>4, <2>5, <2>6
  <2> QED BY <2>1, <2>2, <2>3, <2>7
<1>3. ASSUME CallParsed
      PROVE  /\ \E m, n : /\ NodesStep(m, n) /\ m.kind \notin SpecialKinds
                          /\ n.kind \in {"R_CALL", "R_SUBSET", "R_SUBSET2"}
             /\ pc = "CallClose" /\ Top.fn = "Arguments" /\ Under.fn = "Call"
             /\ Bump /\ at < at' /\ UNCHANGED diagnostics
  <2>1. /\ Consume({NodeWith(ArgumentsNode[Top.close], Top.from),
                    NodeWith(CallNode[Top.close], Under.from)})
        /\ pc = "CallClose" /\ stack' = BelowTwo /\ pc' = "Return"
        /\ value' = NodeWith(CallNode[Top.close], Under.from)
    BY <1>3 DEF CallParsed, BelowTwo
  <2>2. Top.fn = "Arguments"
    BY <2>1, TopAt
  <2>3. Under.fn = "Call" /\ Top.fn # "Root" /\ Under.fn # "Root" /\ Marked(Top) /\ Marked(Under)
        /\ Top.fn \notin Loose /\ Under.fn \notin Loose
    BY <2>2, UnderFacts, CallersAre DEF Marked, Loose
  <2>4. Top.close \in {"R_PAREN", "R_BRACK", "R_BRACK2"}
    <3>1. Top \in Frame /\ Len(stack) \in Nat /\ Len(stack) > 0 /\ Top = stack[Len(stack)]
      BY InvFacts DEF Top
    <3>2. Len(stack) \in 1 .. Len(stack)
      BY <3>1
    <3>3. Chain(stack)
      BY InvFacts
    <3>4. Top.close \in DOMAIN CallNode
      BY <2>2, <3>1, <3>2, <3>3 DEF Chain
    <3> QED BY <3>4 DEF CallNode
  <2>5. PICK inner \in NodeKinds : inner = ArgumentsNode[Top.close] /\ inner \notin SpecialKinds
    <3>1. ArgumentsNode[Top.close] \in {"R_CALL_ARGUMENTS", "R_SUBSET_ARGUMENTS",
                                        "R_SUBSET2_ARGUMENTS"}
      BY <2>4 DEF ArgumentsNode
    <3>2. ArgumentsNode[Top.close] \notin SpecialKinds
      BY <3>1, SpecialKindsAre DEF InfixKinds
    <3>3. ArgumentsNode[Top.close] \in NodeKinds
      BY <3>1, KindFacts
    <3> QED BY <3>2, <3>3
  <2>6. PICK outer \in NodeKinds : /\ outer = CallNode[Top.close]
                                   /\ outer \in {"R_CALL", "R_SUBSET", "R_SUBSET2"}
    BY <2>4, KindFacts DEF CallNode
  <2>7. /\ nodes' = nodes \cup {NodeWith(ArgumentsNode[Top.close], Top.from),
                                NodeWith(CallNode[Top.close], Under.from)}
        /\ at' \in Nat /\ at < at' /\ at <= at' /\ CurrentEnd = at' - 1 /\ CurrentEnd \in Nat
        /\ diagnostics' = diagnostics
    BY <2>1, Consumed
  <2>8. PICK last \in Nat : last = CurrentEnd /\ last = at' - 1
    BY <2>7
  <2>9. /\ nodes' = nodes \cup {NodeOver(inner, Top.from, last), NodeOver(outer, Under.from, last)}
        /\ value' = NodeOver(outer, Under.from, last)
    BY <2>1, <2>5, <2>6, <2>7, <2>8 DEF NodeWith
  <2>10. \E m, n : NodesStep(m, n) /\ m.kind = inner /\ n.kind = outer
    <3>1. stack' = BelowTwo /\ pc' = "Return" /\ at' \in Nat /\ at <= at' /\ last = at' - 1
      BY <2>1, <2>7, <2>8
    <3> QED BY <1>1, <2>3, <2>9, <3>1
  <2>11. Bump
    BY <2>1 DEF Consume
  <2> QED BY <2>1, <2>2, <2>3, <2>5, <2>6, <2>7, <2>10, <2>11
<1> QED BY <1>2, <1>3

\* The selector behind an operator is read, or begun when it is a string.
SelectorStep(completed) ==
  /\ Spanned(Len(stack), completed)
  /\ \A n \in completed : n.kind \notin SpecialKinds /\ n.first = at
  /\ pc = "Selector" /\ Top.fn \in Selecting /\ HasSelector
  /\ Bump /\ at < at' /\ diagnostics' = diagnostics
  /\ pc' \in {"String", "Return"} /\ Len(stack) <= Len(stack')
  /\ \A i \in Len(stack) + 1 .. Len(stack') : stack'[i].fn = "String"
  /\ pc' = "Return" => Len(stack') = Len(stack) /\ value' \in completed

LEMMA SelectorSteps ==
  ASSUME ParserInv, SpanInv, ParseSelector
  PROVE  \E completed : SelectorStep(completed)
<1> USE DEF Continue, Goto, Return, Yield
<1>1. /\ Len(stack) \in Nat /\ stack \in Seq(Frame) /\ Len(stack) > 0 /\ at \in Nat
  BY InvFacts
<1>2. /\ pc = "Selector" /\ HasSelector /\ ParseValue(stack) /\ Top.fn \in Selecting
  BY TopAt DEF ParseSelector, Selecting
<1>3. CASE current = "STRING_OPEN"
  <2>1. Consume({}) /\ stack' = Append(stack, Call("String", at)) /\ pc' = "String"
    BY <1>2, <1>3 DEF ParseValue
  <2>2. "String" \in PlainFunctions \ Prefixed
    BY FunctionsAre DEF PlainFunctions, Infixes, Prefixed
  <2>3. PICK f \in Frame : f = Call("String", at) /\ f.fn = "String" /\ f.from = at
    BY <2>2, PlainCall
  <2>4. nodes' = nodes \cup {} /\ Fresh({}) /\ at' \in Nat /\ at <= at'
    BY <2>1, Moved
  <2>5. Begins(f, {})
    BY <2>3, <2>4, BeginsHere DEF Loose, Lists
  <2>6. stack' = Append(stack, f) /\ pc' # "Return"
    BY <2>1, <2>3
  <2>7. Spanned(Len(stack), {})
    BY <2>4, <2>5, <2>6, SpanPush
  <2>8. Len(stack') = Len(stack) + 1 /\ stack'[Len(stack) + 1] = f
    BY <1>1, <2>6, AppendProperties
  <2>9. /\ Len(stack) <= Len(stack')
        /\ \A i \in Len(stack) + 1 .. Len(stack') : stack'[i].fn = "String"
    <3>1. \A i \in Len(stack) + 1 .. Len(stack') : i = Len(stack) + 1
      BY <1>1, <2>8
    <3> QED BY <1>1, <2>3, <2>8, <3>1
  <2>10. Bump /\ at < at' /\ diagnostics' = diagnostics
    BY <2>1, Consumed DEF Consume
  <2>11. SelectorStep({})
    BY <1>2, <2>1, <2>7, <2>9, <2>10 DEF SelectorStep
  <2> QED BY <2>11
<1>4. CASE current # "STRING_OPEN"
  <2>1. /\ Consume({NodeWith(ValueNode(current), at)}) /\ stack' = stack /\ pc' = "Return"
        /\ current \in ValueStart /\ value' = NodeWith(ValueNode(current), at)
    BY <1>2, <1>4 DEF ParseValue
  <2>2. PICK kind \in NodeKinds : kind = ValueNode(current) /\ kind \notin SpecialKinds
    BY <2>1, KindFacts, ValuesArePlain
  <2>3. PICK n : n = NodeWith(kind, at)
    OBVIOUS
  <2>4. /\ nodes' = nodes \cup {n} /\ Fresh({n}) /\ at' \in Nat /\ at < at' /\ at <= at'
        /\ \A m \in {n} : m.kind \notin SpecialKinds
    BY <2>1, <2>2, <2>3, TokenConsumed
  <2>5. value' \in {n}
    BY <2>1, <2>2, <2>3
  <2>6. Spanned(Len(stack), {n})
    BY <2>1, <2>4, <2>5, SpanStay
  <2>7. Bump /\ diagnostics' = diagnostics
    BY <2>1 DEF Consume
  <2>8. \A m \in {n} : m.first = at
    BY <2>4 DEF Fresh
  <2>9. Len(stack') = Len(stack) /\ Len(stack) <= Len(stack') /\ Len(stack) + 1 .. Len(stack') = {}
    BY <1>1, <2>1
  <2>10. SelectorStep({n})
    BY <1>2, <2>1, <2>4, <2>5, <2>6, <2>7, <2>8, <2>9 DEF SelectorStep
  <2> QED BY <2>10
<1> QED BY <1>3, <1>4

-----------------------------------------------------------------------------
(* As long as there is no error *)

TakesOperator == ParseBinary \/ ParseExtract \/ ParseNamespace \/ ParseCallLike

SpecialStep ==
  \/ ParseStatement \/ StatementParsed \/ EndList \/ EndExpression \/ TakesOperator
  \/ ParseSelector \/ ParseNoSelector \/ LastPartParsed \/ IfParsed \/ IfElseParsed \/ CallParsed

\* A step on which no error is recorded.
LEMMA CleanSteps ==
  ASSUME ErrorInv, SpanInv, diagnostics = <<>>, diagnostics' = <<>>, [ParserNext]_vars
  PROVE  (\E b, completed : PlainStep(b, completed)) \/ SpecialStep \/ UNCHANGED vars
<1>1. ParserInv /\ CurrentIsLexed /\ diagnostics \in Seq(Nat) /\ at \in Nat
  BY ErrorFacts DEF ErrorInv
<1>2. pc \notin {"Fail", "Recover"}
  BY <1>1 DEF ErrorInv, ParserInv, FailureIsRecorded, RecoveryInv
<1>3. ~Fail
  BY <1>1, FailKeepsError
<1>4. ~Expected
  BY <1>3 DEF Expected
<1>5. ~Propagate
  BY <1>2 DEF Propagate
<1>6. CASE GrammarMod
  <2>1. ~RecoverStatement /\ ~SkipToken /\ ~Recovered
    BY <1>2 DEF RecoverStatement, SkipToken, Recovered
  <2>2. ParseRoot \/ RootParsed => \E b, completed : PlainStep(b, completed)
    BY <1>1, ModPlain
  <2> QED BY <1>6, <2>1, <2>2 DEF GrammarMod, SpecialStep
<1>7. CASE GrammarExpressions
  <2>1. ~ParseNoPrefix /\ ~ParseNamespaceOfOther /\ ~ParseStringUnterminated
    BY <1>4 DEF ParseNoPrefix, ParseNamespaceOfOther, ParseStringUnterminated
  <2>2. ParseUnary \/ ParseConstruct \/ ParsePrefixValue \/ ParseStringContent \/ ParseStringClose
          => \E b, completed : PlainStep(b, completed)
    BY <1>1, ExpressionsPlain
  <2> QED BY <1>7, <2>1, <2>2 DEF GrammarExpressions, SpecialStep, TakesOperator
<1>8. CASE GrammarControl
  <2>1. ~ExpectCloseFails /\ ~ExpectOpenFails /\ ~ForHeaderFails
    BY <1>4 DEF ExpectCloseFails, ExpectOpenFails, ForHeaderFails
  <2>2. ASSUME \/ ParseParenthesized \/ ParenthesizedParsed \/ ParseBraces \/ BracesParsed
               \/ ParseCondition \/ HeaderParsed \/ ParseElse
               \/ ParseForHeader \/ ParseForVariable \/ ParseForIn
        PROVE  \E b, completed : PlainStep(b, completed)
    BY <1>1, <2>2, ControlPlain
  <2> QED BY <1>8, <2>1, <2>2 DEF GrammarControl, SpecialStep
<1>9. CASE GrammarFunctions
  <2>1. ~ParameterFails /\ ~ParametersUnclosed
    BY <1>3, <1>4 DEF ParameterFails, ParametersUnclosed
  <2>2. ASSUME \/ ParseParameters \/ ParseParameterName \/ ParseParameterDefault
               \/ ParseParameterNoDefault \/ ParameterDefaultParsed
               \/ ParseParameterComma \/ ParametersParsed
        PROVE  \E b, completed : PlainStep(b, completed)
    BY <1>1, <2>2, FunctionsPlain
  <2> QED BY <1>9, <2>1, <2>2 DEF GrammarFunctions
<1>10. CASE GrammarCalls
  <2>1. ~ArgumentsNotSeparated /\ ~CannotGlue /\ ~CallUnclosed
    BY <1>3, <1>4 DEF ArgumentsNotSeparated, CannotGlue, CallUnclosed
  <2>2. ParseArgument => \E b, completed : PlainStep(b, completed)
    BY <1>1, ArgumentPlain
  <2>3. ASSUME \/ ArgumentListParsed \/ ParseArgumentComma \/ ParseArgumentEqual
               \/ ParseArgumentRest \/ ParseArgumentValue \/ ArgumentParsed \/ GlueClose
        PROVE  \E b, completed : PlainStep(b, completed)
    BY <1>1, <2>3, CallsPlain
  <2> QED BY <1>10, <2>1, <2>2, <2>3 DEF GrammarCalls, SpecialStep, TakesOperator
<1> QED BY <1>5, <1>6, <1>7, <1>8, <1>9, <1>10 DEF ParserNext, Finished

\* Every such step leaves a part of the stack alone.
LEMMA SpecialSpans ==
  ASSUME ParserInv, SpanInv, SpecialStep
  PROVE  \E b, completed : Spanned(b, completed)
<1>1. ParseStatement \/ StatementParsed \/ EndExpression => \E b, completed : Spanned(b, completed)
  BY StatementSpans
<1>2. EndList \/ LastPartParsed \/ ParseNoSelector \/ IfParsed => \E b, completed : Spanned(b, completed)
  BY NodeSteps DEF NodeStep
<1>3. IfElseParsed \/ CallParsed => \E b, completed : Spanned(b, completed)
  BY TwoNodesSteps DEF NodesStep
<1>4. TakesOperator => \E b, completed : Spanned(b, completed)
  BY OperatorSteps DEF OperatorStep, TakesOperator
<1>5. ParseSelector => \E b, completed : Spanned(b, completed)
  BY SelectorSteps DEF SelectorStep
<1> QED BY <1>1, <1>2, <1>3, <1>4, <1>5 DEF SpecialStep

LEMMA SpanNext ==
  ASSUME ErrorInv, SpanInv, diagnostics = <<>>, diagnostics' = <<>>, [ParserNext]_vars
  PROVE  SpanInv'
<1>1. ParserInv
  BY DEF ErrorInv
<1>2. CASE \E b, completed : PlainStep(b, completed)
  <2>1. PICK b, completed : Spanned(b, completed)
    BY <1>2 DEF PlainStep
  <2> QED BY <1>1, <2>1, SpanKept
<1>3. CASE SpecialStep
  <2>1. PICK b, completed : Spanned(b, completed)
    BY <1>1, <1>3, SpecialSpans
  <2> QED BY <1>1, <2>1, SpanKept
<1>4. CASE UNCHANGED vars
  <2>1. /\ pc' = pc /\ stack' = stack /\ value' = value /\ nodes' = nodes /\ at' = at
    BY <1>4 DEF vars, sourceVars, parserVars
  <2> QED BY <2>1 DEF SpanInv, NodesEnd, FramesOrdered, FramesApart, ValueEnds, Top
<1> QED BY <1>2, <1>3, <1>4, CleanSteps

LEMMA SpanInit == ParserInit => SpanInv
<1> SUFFICES ASSUME ParserInit PROVE SpanInv
  OBVIOUS
<1>1. /\ pc = "Root" /\ nodes = {} /\ at = 1 /\ stack = <<Call("Root", 1)>>
  BY DEF ParserInit, SourceInit
<1>2. NodesEnd /\ FramesApart /\ ValueEnds
  BY <1>1 DEF NodesEnd, FramesApart, ValueEnds, ApartFrame, ApartIn
<1>3. FramesOrdered
  <2>1. Len(stack) = 1 /\ stack[1].fn = "Root" /\ stack[1].from = 1
    BY <1>1 DEF Call
  <2>2. Edge(stack[1]) = 1
    BY <2>1 DEF Edge, Loose
  <2> QED BY <1>1, <2>1, <2>2 DEF FramesOrdered, AboveIn
<1> QED BY <1>2, <1>3 DEF SpanInv

-----------------------------------------------------------------------------
(* The gap before a token that may continue an operand *)

\* No statement was begun between an operand and the current token, unless this
\* ends a list.
NotBlessed == Quiet /\ current \notin Closers => at \notin blessed

LEMMA AwaitingSteps ==
  ASSUME ErrorInv, [ParserNext]_vars
  PROVE  AwaitingStep \/ UNCHANGED vars
<1>1. IfStep => AwaitingStep
  <2>1. BeginsIf \/ ParseElse => Bump
    BY DEF BeginsIf, ParseConstruct, ParseElse, Consume
  <2>2. IfParsed \/ IfElseParsed => pc = "Return" /\ UNCHANGED <<sourceVars, significance>>
    BY DEF IfParsed, IfElseParsed, Returned, Complete, Return
  <2> QED BY <2>1, <2>2, Zenon DEF IfStep, AwaitingStep, Quiet
<1>2. SteadyStep => AwaitingStep
  BY DEF SteadyStep
<1> QED BY <1>1, <1>2, StepIsSteady

LEMMA NotBlessedNext ==
  ASSUME ErrorInv, TextStep, NotBlessed, [ParserNext]_vars
  PROVE  NotBlessed'
<1>1. CASE Quiet' /\ Bump
  BY <1>1 DEF TextStep, NotBlessed
<1>2. CASE Quiet /\ UNCHANGED <<sourceVars, significance>>
  BY <1>2 DEF NotBlessed, sourceVars
<1>3. CASE UNCHANGED vars
  BY <1>3 DEF NotBlessed, vars, sourceVars, parserVars, Quiet
<1>4. ~Quiet' \/ current' \in Closers => NotBlessed'
  BY DEF NotBlessed
<1> QED BY <1>1, <1>2, <1>3, <1>4, AwaitingSteps DEF AwaitingStep

-----------------------------------------------------------------------------
(* Operators: where the operands of functions and nodes end *)

\* The left operand of node n ends right before token k, its operator.
SplitAt(n, k) ==
  /\ n.first < k /\ k <= n.last
  /\ \E m \in nodes : m.first = n.first /\ m.last = k - 1
  /\ \A m \in nodes : m.first = n.first /\ m.last < n.last => m.last < k

\* The operand that function f was called with ends right before token k.
Operand(f, k) ==
  /\ f.from < k /\ k < at
  /\ \E m \in nodes : m.first = f.from /\ m.last = k - 1
  /\ \A m \in nodes : m.first = f.from => m.last < k

\* Token k may continue an expression.
Ruled(k) ==
  /\ text[k].kind \in InfixOperators
  /\ HasSeparator(k) => ~SeparatorsCount(k)

\* What is before a selector at token k keeps it from the operator.
Refused(fn, k) ==
  \/ HasSemicolon(text[k].gap)
  \/ fn = "Namespace" /\ HasNewline(text[k].gap) /\ SeparatorsCount(k)

\* Frame j waits behind its operator, token k.
InfixFrame(j, k) ==
  /\ Operand(stack[j], k) /\ Ruled(k) /\ AboveIn(stack, pc, value, at, j, k)
  /\ text[k].kind \in OperatorsOf(stack[j].fn)
  /\ stack[j].fn \in Selecting =>
       IF pc = "Selector" /\ j = Len(stack) THEN at = k + 1
       ELSE k + 1 < at /\ ~Refused(stack[j].fn, k + 1)

KindsOf(fn) ==
  CASE fn = "Binary"    -> {"R_BINARY_EXPRESSION"}
    [] fn = "Extract"   -> {"R_EXTRACT_EXPRESSION"}
    [] fn = "Namespace" -> {"R_NAMESPACE_EXPRESSION"}
    [] fn = "Call"      -> {"R_CALL", "R_SUBSET", "R_SUBSET2"}

\* Node n is of function fn, and token k is its operator.
InfixNode(n, fn, k) ==
  /\ n.kind \in KindsOf(fn) /\ SplitAt(n, k) /\ Ruled(k)
  /\ text[k].kind \in OperatorsOf(fn)
  /\ fn \in Selecting /\ text[k + 1].kind \in SelectorStart =>
       (n.last = k <=> Refused(fn, k + 1))

InfixFrames == \A j \in 1 .. Len(stack) : stack[j].fn \in Infixes => \E k \in Nat : InfixFrame(j, k)

InfixNodes ==
  \A n \in nodes : n.kind \in InfixKinds => \E fn \in Infixes, k \in Nat : InfixNode(n, fn, k)

LEMMA RuledKept ==
  ASSUME ErrorInv, TextStep, NEW k \in 1 .. at
  PROVE  /\ text'[k] = text[k]
         /\ Ruled(k)' <=> Ruled(k)
         /\ \A fn : Refused(fn, k)' <=> Refused(fn, k)
<1>1. at \in Nat /\ k - 1 \in 0 .. at
  BY ErrorFacts
<1>2. OpenBrackets'[k - 1] = OpenBrackets[k - 1]
  BY <1>1, SameBehind
<1>3. text'[k] = text[k]
  BY DEF TextStep
<1>4. SeparatorsCount(k)' <=> SeparatorsCount(k)
  BY <1>2 DEF SeparatorsCount, Innermost
<1>5. HasSeparator(k)' <=> HasSeparator(k)
  BY <1>3 DEF HasSeparator
<1> QED BY <1>3, <1>4, <1>5 DEF Ruled, Refused

\* The operator of a finished node stays.
LEMMA SplitKept ==
  ASSUME ParserInv, SpanInv, NEW b, NEW completed, Spanned(b, completed),
         NEW n \in nodes, NEW k \in Nat
  PROVE  SplitAt(n, k)' <=> SplitAt(n, k)
<1>1. /\ nodes' = nodes \cup completed /\ completed \subseteq Node /\ nodes \subseteq Node
      /\ at \in Nat /\ at' \in Nat /\ at <= at'
      /\ \A m \in completed : m.last \in {at - 1, at' - 1}
  BY InvFacts DEF Spanned, ParserInv
<1>2. n.last \in Nat /\ n.last < at /\ n.first \in Nat
  BY <1>1 DEF SpanInv, NodesEnd, Node
<1>3. \A m \in completed : m.last \in Nat /\ n.last <= m.last
  <2>1. \A m \in completed : m.last \in Nat
    BY <1>1 DEF Node
  <2> QED BY <1>1, <1>2, <2>1
<1>4. ASSUME k <= n.last
      PROVE  \A m \in completed : m.last # k - 1
  BY <1>2, <1>3, <1>4
<1>5. \A m \in completed : ~(m.last < n.last)
  BY <1>2, <1>3
<1> QED BY <1>1, <1>4, <1>5 DEF SplitAt

\* The operand of a frame that stays is the same.
LEMMA OperandKept ==
  ASSUME ParserInv, SpanInv, NEW b, NEW completed, Spanned(b, completed),
         NEW j \in 1 .. b, NEW k \in Nat, NEW f \in Frame,
         AboveIn(stack, pc, value, at, j, k), Operand(f, k)
  PROVE  Operand(f, k)' /\ AboveIn(stack', pc', value', at', j, k)
<1>1. /\ nodes' = nodes \cup completed /\ completed \subseteq Node
      /\ at \in Nat /\ at' \in Nat /\ at <= at' /\ f.from \in Nat
  BY InvFacts DEF Spanned, Frame
<1>2. j \in 0 .. b /\ b \in Nat
  <2>1. b \in Nat
    BY InvFacts DEF Spanned
  <2> QED BY <2>1
<1>3. /\ AboveIn(stack', pc', value', at', j, k)
      /\ \A m \in completed : k <= m.first
  BY <1>2, StaysAbove
<1>4. \A m \in completed : m.first # f.from
  <2>1. f.from < k /\ \A m \in completed : m.first \in Nat
    BY <1>1 DEF Operand, Node
  <2> QED BY <1>1, <1>3, <2>1
<1>5. k < at'
  <2>1. k < at
    BY DEF Operand
  <2> QED BY <1>1, <2>1
<1> QED BY <1>1, <1>3, <1>4, <1>5 DEF Operand

LEMMA InfixFrameKept ==
  ASSUME ErrorInv, SpanInv, TextStep, NEW b, NEW completed, Spanned(b, completed),
         NEW j \in 1 .. b, NEW k \in Nat, InfixFrame(j, k),
         ~(pc = "Selector" /\ j = Len(stack)), ~(pc' = "Selector" /\ j = Len(stack'))
  PROVE  InfixFrame(j, k)'
<1>1. ParserInv /\ at \in Nat /\ at' \in Nat /\ at <= at' /\ stack \in Seq(Frame)
      /\ b \in 0 .. Len(stack) /\ Len(stack) \in Nat
  BY ErrorFacts DEF TextStep, Spanned
<1>2. PICK f \in Frame : f = stack[j] /\ f = stack'[j]
  <2>1. j \in 1 .. Len(stack)
    BY <1>1
  <2> QED BY <1>1, <2>1 DEF Spanned
<1>3. /\ Operand(f, k) /\ Ruled(k) /\ AboveIn(stack, pc, value, at, j, k)
      /\ text[k].kind \in OperatorsOf(f.fn)
      /\ f.fn \in Selecting => k + 1 < at /\ ~Refused(f.fn, k + 1)
  BY <1>2 DEF InfixFrame
<1>4. Operand(f, k)' /\ AboveIn(stack', pc', value', at', j, k)
  BY <1>1, <1>3, OperandKept
<1>5. k \in 1 .. at
  <2>1. f.from < k /\ k < at /\ f.from \in Nat
    BY <1>3 DEF Operand, Frame
  <2> QED BY <1>1, <2>1
<1>6. Ruled(k)' /\ text'[k].kind \in OperatorsOf(f.fn)
  BY <1>3, <1>5, RuledKept
<1>7. ASSUME f.fn \in Selecting PROVE k + 1 < at' /\ ~Refused(f.fn, k + 1)'
  <2>1. k + 1 < at /\ ~Refused(f.fn, k + 1)
    BY <1>3, <1>7
  <2>2. k + 1 \in 1 .. at /\ k + 1 < at'
    BY <1>1, <2>1
  <2> QED BY <2>1, <2>2, RuledKept
<1> QED BY <1>2, <1>4, <1>6, <1>7 DEF InfixFrame

LEMMA InfixNodeKept ==
  ASSUME ErrorInv, SpanInv, TextStep, NEW b, NEW completed, Spanned(b, completed),
         NEW n \in nodes, NEW fn \in Infixes, NEW k \in Nat, InfixNode(n, fn, k)
  PROVE  InfixNode(n, fn, k)'
<1>1. ParserInv /\ at \in Nat /\ n \in Node /\ n.last < at
  BY ErrorFacts DEF ParserInv, SpanInv, NodesEnd
<1>2. k \in 1 .. at /\ k + 1 \in 1 .. at
  <2>1. n.first < k /\ k <= n.last /\ n.first \in Nat /\ n.last \in Nat
    BY <1>1 DEF InfixNode, SplitAt, Node
  <2> QED BY <1>1, <2>1
<1>3. SplitAt(n, k)'
  BY <1>1, SplitKept DEF InfixNode
<1>4. /\ text'[k] = text[k] /\ (Ruled(k)' <=> Ruled(k))
      /\ text'[k + 1] = text[k + 1] /\ (Refused(fn, k + 1)' <=> Refused(fn, k + 1))
  BY <1>2, RuledKept
<1> QED BY <1>3, <1>4 DEF InfixNode

\* What a function has parsed becomes a node, with the same operator.
LEMMA OperandDone ==
  ASSUME ParserInv, SpanInv, NEW b, NEW completed, Spanned(b, completed),
         NEW f \in Frame, NEW k \in Nat, Operand(f, k),
         NEW n \in completed, n.first = f.from, n.last = at' - 1,
         \A m \in completed : m = n \/ k <= m.first
  PROVE  SplitAt(n, k)'
<1>1. /\ nodes' = nodes \cup completed /\ completed \subseteq Node
      /\ at \in Nat /\ at' \in Nat /\ at <= at' /\ f.from \in Nat
  BY InvFacts DEF Spanned, Frame
<1>2. f.from < k /\ k < at
  BY DEF Operand
<1>3. k <= n.last
  <2>1. PICK end \in Nat : end = at'
    BY <1>1
  <2>2. n.last = end - 1 /\ at <= end /\ at \in Nat /\ k < at
    BY <1>1, <1>2, <2>1
  <2>3. k <= end - 1
    BY <2>2
  <2> QED BY <2>2, <2>3
<1>4. ASSUME NEW m \in nodes', m.first = n.first, m.last < n.last PROVE m.last < k
  <2>1. CASE m \in nodes
    BY <1>4, <2>1 DEF Operand
  <2>2. CASE m \in completed
    <3>1. m # n /\ m.first \in Nat
      <4>1. m.first \in Nat /\ m.last \in Nat
        BY <1>1, <2>2 DEF Node
      <4> QED BY <1>4, <4>1
    <3>2. k <= m.first
      BY <2>2, <3>1
    <3> QED BY <1>1, <1>2, <1>4, <3>1, <3>2
  <2> QED BY <1>1, <1>4, <2>1, <2>2
<1>5. \E m \in nodes' : m.first = n.first /\ m.last = k - 1
  BY <1>1 DEF Operand
<1>6. n.first < k
  BY <1>2
<1> QED BY <1>3, <1>4, <1>5, <1>6 DEF SplitAt

OperandsInv == InfixFrames /\ InfixNodes

\* What is before a token that may continue an operand is what the text says.
LEMMA CurrentGap ==
  ASSUME BalanceInv, NotBlessed, diagnostics = <<>>, Quiet, current \notin Closers
  PROVE  /\ text[at].kind = current
         /\ gapSemicolons <=> HasSemicolon(text[at].gap)
         /\ HasPrecedingSeparator <=> HasSeparator(at)
         /\ NewlinesSignificant <=> SeparatorsCount(at)
<1>1. at \notin blessed
  BY DEF NotBlessed
<1>2. CurrentIsLexed /\ current # "R_BRACK2"
  BY DEF BalanceInv, ErrorInv, Closers
<1> QED BY <1>1, <1>2, TopSeparator, TopSignificance DEF CurrentIsLexed

\* Frames that stay, and nodes, keep their operators.
LEMMA OperandsKept ==
  ASSUME ErrorInv, SpanInv, TextStep, OperandsInv,
         NEW b, NEW completed, Spanned(b, completed), NEW c \in 0 .. b,
         pc = "Selector" => c < Len(stack), pc' = "Selector" => c < Len(stack'),
         \A i \in c + 1 .. Len(stack') :
           stack'[i].fn \in Infixes => \E k \in Nat : InfixFrame(i, k)',
         \A n \in completed : n.kind \in InfixKinds =>
           \E fn \in Infixes, k \in Nat : InfixNode(n, fn, k)'
  PROVE  OperandsInv'
<1>1. /\ b \in 0 .. Len(stack) /\ Len(stack) \in Nat /\ b <= Len(stack') /\ b \in Nat
      /\ \A i \in 1 .. b : stack'[i] = stack[i]
      /\ nodes' = nodes \cup completed /\ stack' \in Seq(Frame)
  BY ErrorFacts DEF Spanned
<1>2. ASSUME NEW i \in 1 .. Len(stack'), stack'[i].fn \in Infixes
      PROVE  \E k \in Nat : InfixFrame(i, k)'
  <2>1. CASE i \in c + 1 .. Len(stack')
    BY <1>2, <2>1
  <2>2. CASE i \in 1 .. c
    <3>1. i \in 1 .. b /\ i \in 1 .. Len(stack)
      BY <1>1, <2>2
    <3>2. PICK k \in Nat : InfixFrame(i, k)
      BY <1>1, <1>2, <3>1 DEF OperandsInv, InfixFrames
    <3>3. ~(pc = "Selector" /\ i = Len(stack)) /\ ~(pc' = "Selector" /\ i = Len(stack'))
      BY <1>1, <2>2
    <3>4. InfixFrame(i, k)'
      BY <3>1, <3>2, <3>3, InfixFrameKept
    <3> QED BY <3>4
  <2> QED BY <1>1, <1>2, <2>1, <2>2
<1>3. ASSUME NEW n \in nodes', n.kind \in InfixKinds
      PROVE  \E fn \in Infixes, k \in Nat : InfixNode(n, fn, k)'
  <2>1. CASE n \in completed
    BY <1>3, <2>1
  <2>2. CASE n \in nodes
    <3>1. PICK fn \in Infixes, k \in Nat : InfixNode(n, fn, k)
      BY <1>3, <2>2 DEF OperandsInv, InfixNodes
    <3>2. InfixNode(n, fn, k)'
      BY <2>2, <3>1, InfixNodeKept
    <3> QED BY <3>2
  <2> QED BY <1>1, <1>3, <2>1, <2>2
<1>4. InfixFrames' /\ InfixNodes'
  BY <1>2, <1>3 DEF InfixFrames, InfixNodes
<1> QED BY <1>4 DEF OperandsInv

LEMMA PlainOperands ==
  ASSUME ErrorInv, SpanInv, TextStep, OperandsInv, NEW b, NEW completed, PlainStep(b, completed)
  PROVE  OperandsInv'
<1>1. Spanned(b, completed) /\ pc # "Selector" /\ pc' # "Selector"
  BY DEF PlainStep
<1>4. b \in 0 .. b
  BY <1>1 DEF Spanned
<1>2. \A i \in b + 1 .. Len(stack') : stack'[i].fn \notin Infixes
  BY DEF PlainStep, PlainFrame
<1>3. \A n \in completed : n.kind \notin InfixKinds
  BY DEF PlainStep, SpecialKinds
<1> QED BY <1>1, <1>2, <1>3, <1>4, OperandsKept

\* Statements and the ends of expressions, lists and conditionals.
LEMMA OtherOperands ==
  ASSUME ErrorInv, SpanInv, TextStep, OperandsInv,
         \/ ParseStatement \/ StatementParsed \/ EndExpression \/ EndList \/ IfParsed
         \/ IfElseParsed
  PROVE  OperandsInv'
<1>1. ParserInv /\ stack \in Seq(Frame) /\ Len(stack) \in Nat /\ Chain(stack)
  BY InvFacts DEF ErrorInv
<1>2. PICK b, completed :
        /\ Spanned(b, completed) /\ pc # "Selector" /\ pc' # "Selector"
        /\ \A n \in completed : n.kind \notin InfixKinds
        /\ \A i \in b + 1 .. Len(stack') : stack'[i].fn \notin Infixes
  <2>1. CASE ParseStatement
    <3>1. Spanned(Len(stack), {})
      BY <1>1, <2>1, StatementSpans
    <3>2. /\ stack' = stack \o <<Call("Statement", at), Expression(0)>>
          /\ pc = "List" /\ pc' = "Prefix"
      BY <2>1 DEF ParseStatement, Continue, Goto
    <3>3. PICK f \in Frame, g \in Frame : f = Call("Statement", at) /\ g = Expression(0)
                                          /\ f.fn = "Statement" /\ g.fn = "Expression"
      <4>1. Call("Statement", at) \in Frame /\ Expression(0) \in Frame
        BY <1>1, InvFacts, FrameTypes, FunctionsAre, PowerTypes
      <4> QED BY <4>1 DEF Expression, Call
    <3>4. /\ Len(stack') = Len(stack) + 2 /\ stack'[Len(stack) + 1] = f
          /\ stack'[Len(stack) + 2] = g
      BY <1>1, <3>2, <3>3
    <3>5. \A i \in Len(stack) + 1 .. Len(stack') : i = Len(stack) + 1 \/ i = Len(stack) + 2
      BY <1>1, <3>4
    <3>6. \A i \in Len(stack) + 1 .. Len(stack') : stack'[i].fn \notin Infixes
      BY <3>3, <3>4, <3>5 DEF Infixes
    <3> QED BY <3>1, <3>2, <3>6
  <2>2. CASE StatementParsed \/ EndExpression
    <3>1. Spanned(Len(stack) - 1, {})
      BY <1>1, <2>2, StatementSpans
    <3>2. stack' = Below /\ pc = "Return" /\ pc' # "Selector"
      BY <2>2 DEF StatementParsed, EndExpression, Continue, Goto, Return, Yield, Returned
    <3>3. Len(stack') = Len(stack) - 1
      BY <1>1, <3>2, StacksLeft
    <3>4. Len(stack) - 1 + 1 .. Len(stack') = {}
      BY <1>1, <3>3
    <3> QED BY <3>1, <3>2, <3>4
  <2>3. CASE EndList \/ IfParsed
    <3>1. /\ \E n : NodeStep(n) /\ n.kind \in {"R_EXPRESSION_LIST", "R_IF_STATEMENT"}
          /\ pc \in {"List", "Return"}
      BY <1>1, <2>3, NodeSteps
    <3>2. PICK n : NodeStep(n) /\ n.kind \in {"R_EXPRESSION_LIST", "R_IF_STATEMENT"}
      BY <3>1
    <3>3. Spanned(Len(stack) - 1, {n}) /\ stack' = Below /\ pc' = "Return"
      BY <3>2 DEF NodeStep
    <3>4. Len(stack') = Len(stack) - 1
      BY <1>1, <3>3, StacksLeft
    <3>5. Len(stack) - 1 + 1 .. Len(stack') = {}
      BY <1>1, <3>4
    <3>6. \A m \in {n} : m.kind \notin InfixKinds
      BY <3>2 DEF InfixKinds
    <3> QED BY <3>1, <3>3, <3>5, <3>6
  <2>4. CASE IfElseParsed
    <3>1. /\ \E m, n : /\ NodesStep(m, n)
                       /\ m.kind = "R_ELSE_CLAUSE" /\ n.kind = "R_IF_STATEMENT"
          /\ pc = "Return" /\ Top.fn = "Else"
      BY <1>1, <2>4, TwoNodesSteps
    <3>2. PICK m, n : /\ NodesStep(m, n)
                      /\ m.kind = "R_ELSE_CLAUSE" /\ n.kind = "R_IF_STATEMENT"
      BY <3>1
    <3>3. Spanned(Len(stack) - 2, {m, n}) /\ stack' = BelowTwo /\ pc' = "Return"
      BY <3>2 DEF NodesStep
    <3>4. Len(stack') = Len(stack) - 2
      BY <1>1, <3>1, <3>3, StacksLeft
    <3>5. Len(stack) - 2 + 1 .. Len(stack') = {}
      BY <1>1, <3>4
    <3>6. \A x \in {m, n} : x.kind \notin InfixKinds
      BY <3>2 DEF InfixKinds
    <3> QED BY <3>1, <3>3, <3>5, <3>6
  <2> QED BY <2>1, <2>2, <2>3, <2>4
<1>3. b \in 0 .. b
  BY <1>2 DEF Spanned
<1> QED BY <1>2, <1>3, OperandsKept

\* An operator is taken: the function that waits behind it has its operand.
LEMMA OperatorOperands ==
  ASSUME BalanceInv, NotBlessed, diagnostics = <<>>, SpanInv, TextStep, OperandsInv, OperatorStep
  PROVE  OperandsInv'
<1>1. /\ ErrorInv /\ ParserInv /\ Len(stack) \in Nat /\ at \in Nat /\ at >= 1
      /\ Spanned(Len(stack), {}) /\ Bump /\ at < at'
      /\ pc = "Return" /\ Top.fn = "Expression" /\ Continues(Top.bp)
  BY ErrorFacts DEF BalanceInv, OperatorStep
<1>2. PICK f : f = stack'[Len(stack) + 1]
  OBVIOUS
<1>3. /\ Len(stack) < Len(stack') /\ f.fn \in Infixes /\ f.from = value.first
      /\ current \in OperatorsOf(f.fn)
      /\ f.fn \in Selecting => pc' = "Selector" /\ Len(stack') = Len(stack) + 1
  BY <1>2 DEF OperatorStep
<1>4. /\ current \in InfixOperators /\ ~(NewlinesSignificant /\ HasPrecedingSeparator)
      /\ current \notin Closers
  <2>1. current \in InfixOperators /\ ~(NewlinesSignificant /\ HasPrecedingSeparator)
    BY <1>1 DEF Continues
  <2>2. InfixOperators \cap Closers = {}
    BY DEF InfixOperators, BinaryOperators, BinaryPower, CallOpeners, Extractors, Namespacers, Closers
  <2> QED BY <2>1, <2>2
<1>5. /\ text[at].kind = current
      /\ HasPrecedingSeparator <=> HasSeparator(at)
      /\ NewlinesSignificant <=> SeparatorsCount(at)
  <2>1. Quiet
    BY <1>1 DEF Quiet
  <2> QED BY <1>4, <2>1, CurrentGap
<1>6. PICK k \in 1 .. at, l \in Nat : k = at /\ l = Len(stack) + 1
  BY <1>1
<1>7. k \in Nat /\ k = at /\ l = Len(stack) + 1
  BY <1>1, <1>6
<1>8. Ruled(k)' /\ text'[k].kind = current
  <2>1. Ruled(k)
    BY <1>4, <1>5, <1>7 DEF Ruled
  <2>2. /\ text'[k] = text[k]
        /\ Ruled(k)' <=> Ruled(k)
    BY <1>1, RuledKept
  <2> QED BY <1>5, <1>7, <2>1, <2>2
<1>9. Operand(f, k)'
  <2>1. value \in nodes /\ value.last = k - 1 /\ value.first < k
    BY <1>1, <1>7 DEF SpanInv, ValueEnds
  <2>2. nodes' = nodes /\ \A m \in nodes : m.last < k
    BY <1>1, <1>7 DEF Spanned, SpanInv, NodesEnd
  <2> QED BY <1>1, <1>3, <1>7, <2>1, <2>2 DEF Operand
<1>10. AboveIn(stack', pc', value', at', l, k)
  <2>1. f.fn \notin Selecting => Len(stack') = Len(stack) + 2
    BY <1>2 DEF OperatorStep
  <2>2. ASSUME NEW j \in l + 1 .. Len(stack'), Marked(stack'[j])
        PROVE  k <= stack'[j].from
    <3>1. j = Len(stack) + 2 /\ f.fn \notin Selecting
      BY <1>1, <1>3, <1>7, <2>1
    <3>2. stack'[j].fn = "Expression" \/ stack'[j].from = at
      BY <1>2, <1>3, <3>1 DEF OperatorStep, Infixes, Selecting
    <3> QED BY <1>1, <1>7, <2>2, <3>2 DEF Marked
  <2>3. pc' # "Return"
    BY <1>2, <1>3 DEF OperatorStep, Infixes, Selecting
  <2>4. k <= at'
    BY <1>1, <1>7 DEF Spanned
  <2> QED BY <2>2, <2>3, <2>4 DEF AboveIn
<1>11. f.fn \in Selecting => pc' = "Selector" /\ l = Len(stack') /\ at' = k + 1
  <2>1. at' = at + 1
    BY <1>1, <1>4, BumpEnd DEF Closers
  <2> QED BY <1>3, <1>7, <2>1
<1>12. InfixFrame(l, k)'
  BY <1>2, <1>7, <1>3, <1>8, <1>9, <1>10, <1>11 DEF InfixFrame
<1>13. ASSUME NEW i \in Len(stack) + 1 .. Len(stack'), stack'[i].fn \in Infixes
       PROVE  \E x \in Nat : InfixFrame(i, x)'
  <2>1. CASE i = l
    BY <1>12, <2>1
  <2>2. CASE i # l
    <3>1. f.fn \notin Selecting /\ i = Len(stack) + 2
      BY <1>1, <1>2, <1>3, <1>7, <2>2 DEF OperatorStep
    <3>2. stack'[i].fn \in {"Expression", "Arguments"}
      BY <1>2, <1>3, <3>1 DEF OperatorStep, Infixes, Selecting
    <3> QED BY <1>13, <3>2 DEF Infixes
  <2> QED BY <2>1, <2>2
<1>14. Len(stack) \in 0 .. Len(stack) /\ Len(stack) < Len(stack') /\ pc # "Selector"
  BY <1>1, <1>3
<1> QED BY <1>1, <1>13, <1>14, OperandsKept

\* The selector is read: nothing kept it from the operator.
LEMMA SelectorOperands ==
  ASSUME BalanceInv, NotBlessed, diagnostics = <<>>, SpanInv, TextStep, OperandsInv,
         NEW completed, SelectorStep(completed)
  PROVE  OperandsInv'
<1>1. /\ ErrorInv /\ ParserInv /\ Len(stack) \in Nat \ {0} /\ at \in Nat /\ at >= 1
      /\ Top = stack[Len(stack)] /\ Top \in Frame
      /\ Spanned(Len(stack), completed) /\ at < at' /\ at' \in Nat
      /\ pc = "Selector" /\ Top.fn \in Selecting /\ HasSelector /\ pc' # "Selector"
      /\ \A n \in completed : n.kind \notin SpecialKinds
      /\ \A i \in Len(stack) + 1 .. Len(stack') : stack'[i].fn = "String"
  BY ErrorFacts DEF BalanceInv, SelectorStep, TextStep
<1>2. PICK j \in 1 .. Len(stack), f \in Frame : j = Len(stack) /\ f = Top
  BY <1>1
<1>3. Top.fn \in Infixes
  BY <1>1 DEF Selecting, Infixes
<1>4. PICK k \in Nat : InfixFrame(j, k)
  BY <1>1, <1>2, <1>3 DEF OperandsInv, InfixFrames
<1>5. /\ Operand(f, k) /\ Ruled(k) /\ AboveIn(stack, pc, value, at, j, k)
      /\ text[k].kind \in OperatorsOf(f.fn) /\ at = k + 1
  BY <1>1, <1>2, <1>4 DEF InfixFrame
<1>6. /\ gapSemicolons <=> HasSemicolon(text[at].gap)
      /\ HasPrecedingSeparator <=> HasSeparator(at)
      /\ NewlinesSignificant <=> SeparatorsCount(at)
  <2>1. Quiet
    BY <1>1 DEF Quiet
  <2>2. current \notin Closers
    BY <1>1 DEF HasSelector, SelectorStart, Closers, Identifiers, Dots
  <2> QED BY <2>1, <2>2, CurrentGap
<1>7. ~Refused(f.fn, k + 1)
  <2>1. ~HasSemicolon(text[at].gap)
    BY <1>1, <1>6 DEF HasSelector
  <2>2. ~(Top.fn = "Namespace" /\ HasNewline(text[at].gap) /\ SeparatorsCount(at))
    BY <1>1, <1>6 DEF HasSelector, HasSeparator
  <2> QED BY <1>2, <1>5, <2>1, <2>2 DEF Refused
<1>8. Operand(f, k)' /\ AboveIn(stack', pc', value', at', j, k)
  BY <1>1, <1>2, <1>5, OperandKept
<1>9. Ruled(k)' /\ text'[k].kind = text[k].kind /\ ~Refused(f.fn, k + 1)'
  <2>1. k \in 1 .. at /\ k + 1 \in 1 .. at
    <3>1. f.from < k /\ f.from \in Nat
      BY <1>1, <1>5 DEF Operand, Frame
    <3> QED BY <1>1, <1>5, <3>1
  <2> QED BY <1>1, <1>5, <1>7, <2>1, RuledKept
<1>10. stack'[j] = f /\ k + 1 < at'
  BY <1>1, <1>2, <1>5 DEF Spanned
<1>11. InfixFrame(j, k)'
  BY <1>1, <1>2, <1>5, <1>8, <1>9, <1>10 DEF InfixFrame
<1>12. PICK c \in 0 .. Len(stack) : c = Len(stack) - 1
  <2>1. Len(stack) - 1 \in 0 .. Len(stack)
    BY <1>1
  <2> QED BY <2>1
<1>13. ASSUME NEW i \in c + 1 .. Len(stack'), stack'[i].fn \in Infixes
       PROVE  \E x \in Nat : InfixFrame(i, x)'
  <2>1. CASE i = j
    BY <1>11, <2>1
  <2>2. CASE i # j
    <3>1. Len(stack') \in Nat
      BY <1>1 DEF Spanned
    <3>2. i \in Len(stack) + 1 .. Len(stack')
      BY <1>1, <1>2, <1>12, <2>2, <3>1
    <3> QED BY <1>1, <1>13, <3>2 DEF Infixes
  <2> QED BY <2>1, <2>2
<1>14. c < Len(stack) /\ \A n \in completed : n.kind \notin InfixKinds
  BY <1>1, <1>12 DEF SpecialKinds
<1> QED BY <1>1, <1>12, <1>13, <1>14, OperandsKept

\* The node of a function that has waited behind an operator.
LEMMA InfixNodeDone ==
  ASSUME ErrorInv, SpanInv, TextStep, NEW b, NEW completed, Spanned(b, completed),
         NEW j \in 1 .. Len(stack), NEW f \in Frame, f = stack[j], f.fn \in Infixes,
         NEW k \in Nat, InfixFrame(j, k),
         NEW n \in completed, n.first = f.from, n.last = at' - 1, n.kind \in KindsOf(f.fn),
         \A m \in completed : m = n \/ k <= m.first,
         f.fn \in Selecting => \/ k + 1 < at /\ ~Refused(f.fn, k + 1)
                               \/ /\ k + 1 = at /\ at' = at
                                  /\ text[at].kind \in SelectorStart => Refused(f.fn, k + 1)
  PROVE  InfixNode(n, f.fn, k)'
<1>1. ParserInv /\ at \in Nat /\ at' \in Nat /\ at <= at'
  BY ErrorFacts DEF TextStep
<1>2. Operand(f, k) /\ Ruled(k) /\ text[k].kind \in OperatorsOf(f.fn)
  BY DEF InfixFrame
<1>3. SplitAt(n, k)'
  BY <1>1, <1>2, OperandDone
<1>4. k \in 1 .. at /\ k + 1 \in 1 .. at
  <2>1. f.from < k /\ k < at /\ f.from \in Nat
    BY <1>2 DEF Operand, Frame
  <2> QED BY <1>1, <2>1
<1>5. /\ text'[k] = text[k] /\ (Ruled(k)' <=> Ruled(k))
      /\ text'[k + 1] = text[k + 1] /\ (Refused(f.fn, k + 1)' <=> Refused(f.fn, k + 1))
  BY <1>4, RuledKept
<1>6. ASSUME f.fn \in Selecting, text'[k + 1].kind \in SelectorStart
      PROVE  n.last = k <=> Refused(f.fn, k + 1)'
  <2>1. CASE k + 1 < at /\ ~Refused(f.fn, k + 1)
    <3>1. ~Refused(f.fn, k + 1)'
      BY <1>5, <2>1
    <3>2. n.last # k
      <4>1. PICK end \in Nat : end = at'
        BY <1>1
      <4>2. n.last = end - 1 /\ k + 1 < at /\ at <= end
        BY <1>1, <2>1, <4>1
      <4>3. end - 1 # k
        BY <1>1, <4>2
      <4> QED BY <4>2, <4>3
    <3> QED BY <3>1, <3>2
  <2>2. CASE /\ k + 1 = at /\ at' = at
             /\ text[at].kind \in SelectorStart => Refused(f.fn, k + 1)
    <3>1. Refused(f.fn, k + 1)'
      BY <1>5, <1>6, <2>2
    <3>2. n.last = k
      BY <1>1, <2>2
    <3> QED BY <3>1, <3>2
  <2> QED BY <1>6, <2>1, <2>2
<1> QED BY <1>2, <1>3, <1>5, <1>6 DEF InfixNode

\* What ends with an operand, or with no selector, becomes a node.
LEMMA NodeOperands ==
  ASSUME BalanceInv, NotBlessed, diagnostics = <<>>, SpanInv, TextStep, OperandsInv,
         LastPartParsed \/ ParseNoSelector
  PROVE  OperandsInv'
<1>1. /\ ErrorInv /\ ParserInv /\ Len(stack) \in Nat \ {0} /\ at \in Nat /\ at >= 1
      /\ Top = stack[Len(stack)] /\ Top \in Frame /\ stack \in Seq(Frame)
  BY ErrorFacts DEF BalanceInv
<1>2. /\ \E n : NodeStep(n) /\ n.kind = LastPartNode[Top.fn]
      /\ pc \in {"Return", "Selector"} /\ Top.fn \in DOMAIN LastPartNode
      /\ pc = "Selector" => ~HasSelector /\ Top.fn \in Selecting
  <2>1. Selecting \subseteq DOMAIN LastPartNode
    BY LastPartFunctions DEF Selecting
  <2> QED BY <1>1, <2>1, NodeSteps
<1>3. PICK n : NodeStep(n) /\ n.kind = LastPartNode[Top.fn]
  BY <1>2
<1>4. /\ n.first = Top.from /\ n.last = at - 1 /\ at' = at /\ pc' = "Return" /\ stack' = Below
      /\ Spanned(Len(stack) - 1, {n})
  BY <1>3 DEF NodeStep
<1>5. PICK j \in 1 .. Len(stack), f \in Frame : j = Len(stack) /\ f = Top
  BY <1>1
<1>6. Len(stack') = Len(stack) - 1
  BY <1>1, <1>4, StacksLeft
<1>7. ASSUME n.kind \in InfixKinds
      PROVE  \E fn \in Infixes, k \in Nat : InfixNode(n, fn, k)'
  <2>1. f.fn \in {"Binary", "Extract", "Namespace"} /\ n.kind \in KindsOf(f.fn)
    BY <1>2, <1>3, <1>5, <1>7, LastPartFunctions DEF LastPartNode, InfixKinds, KindsOf
  <2>2. f.fn \in Infixes /\ (f.fn \notin Selecting => pc = "Return")
    BY <1>2, <1>5, <2>1 DEF Infixes, Selecting
  <2>3. PICK k \in Nat : InfixFrame(j, k)
    BY <1>1, <1>5, <2>2 DEF OperandsInv, InfixFrames
  <2>4. ASSUME f.fn \in Selecting
        PROVE  \/ k + 1 < at /\ ~Refused(f.fn, k + 1)
               \/ /\ k + 1 = at /\ at' = at
                  /\ text[at].kind \in SelectorStart => Refused(f.fn, k + 1)
    <3>1. IF pc = "Selector" THEN at = k + 1 ELSE k + 1 < at /\ ~Refused(f.fn, k + 1)
      BY <1>1, <1>5, <2>3, <2>4 DEF InfixFrame
    <3>2. CASE pc = "Selector" /\ text[at].kind \in SelectorStart
      <4>1. CurrentIsLexed
        BY <1>1 DEF ErrorInv
      <4>2. current \in SelectorStart
        BY <3>2, <4>1 DEF CurrentIsLexed, SelectorStart, Identifiers, Dots
      <4>3. /\ gapSemicolons <=> HasSemicolon(text[at].gap)
            /\ HasPrecedingSeparator <=> HasSeparator(at)
            /\ NewlinesSignificant <=> SeparatorsCount(at)
        <5>1. Quiet
          BY <3>2 DEF Quiet
        <5>2. current \notin Closers
          BY <4>2 DEF SelectorStart, Closers, Identifiers, Dots
        <5> QED BY <5>1, <5>2, CurrentGap
      <4>4. gapSemicolons \/ (f.fn = "Namespace" /\ NewlinesSignificant /\ HasPrecedingSeparator)
        BY <1>2, <1>5, <3>2, <4>2 DEF HasSelector
      <4>5. Refused(f.fn, at)
        BY <4>3, <4>4 DEF Refused, HasSeparator
      <4> QED BY <1>4, <3>1, <3>2, <4>5
    <3> QED BY <1>4, <3>1, <3>2
  <2>5. InfixNode(n, f.fn, k)'
    <3>1. \A m \in {n} : m = n \/ k <= m.first
      OBVIOUS
    <3>2. n \in {n} /\ n.first = f.from /\ n.last = at' - 1
      BY <1>4, <1>5
    <3>3. f = stack[j]
      BY <1>1, <1>5
    <3> QED BY <1>1, <1>4, <2>1, <2>2, <2>3, <2>4, <3>1, <3>2, <3>3, InfixNodeDone
  <2> QED BY <2>2, <2>5
<1>8. PICK c \in 0 .. Len(stack) : c = Len(stack) - 1
  <2>1. Len(stack) - 1 \in 0 .. Len(stack)
    BY <1>1
  <2> QED BY <2>1
<1>9. /\ Spanned(c, {n}) /\ c \in 0 .. c /\ c < Len(stack) /\ pc' # "Selector"
      /\ c + 1 .. Len(stack') = {}
  BY <1>1, <1>4, <1>6, <1>8
<1>10. \A m \in {n} : m.kind \in InfixKinds => \E fn \in Infixes, k \in Nat : InfixNode(m, fn, k)'
  <2>1. ASSUME NEW m, m = n, m.kind \in InfixKinds
        PROVE  \E fn \in Infixes, k \in Nat : InfixNode(m, fn, k)'
    <3>1. n.kind \in InfixKinds
      BY <2>1
    <3>2. PICK fn \in Infixes, k \in Nat : InfixNode(n, fn, k)'
      BY <1>7, <3>1
    <3>3. InfixNode(m, fn, k)'
      BY <2>1, <3>2
    <3> QED BY <3>3
  <2> QED BY <2>1
<1> QED BY <1>1, <1>9, <1>10, OperandsKept

\* A call, or a subset, ends.
LEMMA CallOperands ==
  ASSUME ErrorInv, SpanInv, TextStep, OperandsInv, CallParsed
  PROVE  OperandsInv'
<1>1. /\ ParserInv /\ Len(stack) \in Nat \ {0} /\ stack \in Seq(Frame)
      /\ Top = stack[Len(stack)]
  BY ErrorFacts
<1>2. /\ \E m, n : /\ NodesStep(m, n) /\ m.kind \notin SpecialKinds
                   /\ n.kind \in {"R_CALL", "R_SUBSET", "R_SUBSET2"}
      /\ pc = "CallClose" /\ Top.fn = "Arguments" /\ Under.fn = "Call"
  BY <1>1, TwoNodesSteps
<1>3. PICK m, n : /\ NodesStep(m, n) /\ m.kind \notin SpecialKinds
                  /\ n.kind \in {"R_CALL", "R_SUBSET", "R_SUBSET2"}
  BY <1>2
<1>4. /\ m.first = Top.from /\ n.first = Under.from /\ n.last = at' - 1
      /\ Len(stack) - 2 \in 1 .. Len(stack) - 2
      /\ Spanned(Len(stack) - 2, {m, n}) /\ stack' = BelowTwo /\ pc' = "Return"
  BY <1>3 DEF NodesStep
<1>5. Len(stack') = Len(stack) - 2 /\ Under = stack[Len(stack) - 1] /\ Under \in Frame
  BY <1>1, <1>2, <1>4, StacksLeft
<1>6. PICK j \in 1 .. Len(stack), f \in Frame : j = Len(stack) - 1 /\ f = Under
  BY <1>1, <1>4, <1>5
<1>7. f.fn = "Call" /\ f.fn \in Infixes /\ f.fn \notin Selecting /\ f = stack[j]
  BY <1>2, <1>5, <1>6 DEF Infixes, Selecting
<1>8. PICK k \in Nat : InfixFrame(j, k)
  BY <1>7 DEF OperandsInv, InfixFrames
<1>9. k <= m.first
  <2>1. AboveIn(stack, pc, value, at, j, k)
    BY <1>8 DEF InfixFrame
  <2>2. Len(stack) \in j + 1 .. Len(stack) /\ Marked(Top)
    BY <1>1, <1>2, <1>6 DEF Marked
  <2> QED BY <1>1, <1>4, <2>1, <2>2 DEF AboveIn
<1>10. InfixNode(n, f.fn, k)'
  <2>1. \A x \in {m, n} : x = n \/ k <= x.first
    BY <1>9
  <2>2. n \in {m, n} /\ n.first = f.from /\ n.last = at' - 1 /\ n.kind \in KindsOf(f.fn)
    BY <1>3, <1>4, <1>6, <1>7 DEF KindsOf
  <2> QED BY <1>4, <1>7, <1>8, <2>1, <2>2, InfixNodeDone
<1>11. PICK c \in 0 .. Len(stack) : c = Len(stack) - 2
  BY <1>1, <1>4
<1>12. /\ Spanned(c, {m, n}) /\ c \in 0 .. c /\ pc # "Selector" /\ pc' # "Selector"
       /\ c + 1 .. Len(stack') = {}
  BY <1>1, <1>2, <1>4, <1>5, <1>11
<1>13. \A x \in {m, n} : x.kind \in InfixKinds => \E fn \in Infixes, y \in Nat : InfixNode(x, fn, y)'
  <2>1. ASSUME NEW x, x = n PROVE \E fn \in Infixes, y \in Nat : InfixNode(x, fn, y)'
    <3>1. InfixNode(x, f.fn, k)'
      BY <1>10, <2>1
    <3> QED BY <1>7, <3>1
  <2>2. m.kind \notin InfixKinds
    BY <1>3 DEF SpecialKinds
  <2> QED BY <2>1, <2>2
<1> QED BY <1>12, <1>13, OperandsKept

LEMMA OperandsNext ==
  ASSUME BalanceInv, NotBlessed, diagnostics = <<>>, diagnostics' = <<>>, SpanInv, TextStep,
         OperandsInv, [ParserNext]_vars
  PROVE  OperandsInv'
<1>1. ErrorInv /\ ParserInv
  BY DEF BalanceInv, ErrorInv
<1>2. CASE \E b, completed : PlainStep(b, completed)
  <2>1. PICK b, completed : PlainStep(b, completed)
    BY <1>2
  <2> QED BY <1>1, <2>1, PlainOperands
<1>3. CASE SpecialStep
  <2>1. CASE TakesOperator
    <3>1. OperatorStep
      BY <1>1, <2>1, OperatorSteps DEF TakesOperator
    <3> QED BY <3>1, OperatorOperands
  <2>2. CASE ParseSelector
    <3>1. PICK completed : SelectorStep(completed)
      BY <1>1, <2>2, SelectorSteps
    <3> QED BY <3>1, SelectorOperands
  <2>3. CASE LastPartParsed \/ ParseNoSelector
    BY <2>3, NodeOperands
  <2>4. CASE CallParsed
    BY <1>1, <2>4, CallOperands
  <2>5. CASE \/ ParseStatement \/ StatementParsed \/ EndExpression \/ EndList \/ IfParsed
             \/ IfElseParsed
    BY <1>1, <2>5, OtherOperands
  <2> QED BY <1>3, <2>1, <2>2, <2>3, <2>4, <2>5 DEF SpecialStep
<1>4. CASE UNCHANGED vars
  <2>1. /\ pc' = pc /\ stack' = stack /\ value' = value /\ nodes' = nodes /\ at' = at
        /\ text' = text
    BY <1>4 DEF vars, sourceVars, parserVars
  <2>2. OpenBrackets' = OpenBrackets
    BY <2>1 DEF OpenBrackets
  <2>3. /\ \A j, k : InfixFrame(j, k)' <=> InfixFrame(j, k)
        /\ \A n, fn, k : InfixNode(n, fn, k)' <=> InfixNode(n, fn, k)
    BY <2>1, <2>2 DEF InfixFrame, InfixNode, Operand, Ruled, SplitAt, Refused, HasSeparator,
                      SeparatorsCount, Innermost
  <2> QED BY <2>1, <2>3 DEF OperandsInv, InfixFrames, InfixNodes
<1> QED BY <1>1, <1>2, <1>3, <1>4, CleanSteps

OperandInv == BalanceInv /\ NotBlessed /\ (diagnostics = <<>> => SpanInv /\ OperandsInv)

\* An error that is recorded stays.
LEMMA CleanBefore ==
  ASSUME ErrorInv, [ParserNext]_vars, diagnostics' = <<>>
  PROVE  diagnostics = <<>>
<1>1. SteadyStep => BalancedStep
  BY DEF SteadyStep
<1>2. IfStep => BalancedStep
  BY IfStepBalanced DEF ErrorInv
<1>3. UNCHANGED vars => diagnostics' = diagnostics
  BY DEF vars, parserVars
<1> QED BY <1>1, <1>2, <1>3, StepIsSteady DEF BalancedStep

LEMMA OperandInitInv == ParserInit => OperandInv
<1> SUFFICES ASSUME ParserInit PROVE OperandInv
  OBVIOUS
<1>1. /\ stack = <<Call("Root", 1)>> /\ nodes = {} /\ blessed = {}
  BY DEF ParserInit, SourceInit
<1>2. NotBlessed
  BY <1>1 DEF NotBlessed
<1>3. InfixFrames /\ InfixNodes
  BY <1>1 DEF InfixFrames, InfixNodes, Infixes, Call
<1> QED BY <1>2, <1>3, SpanInit, BalanceInitInv DEF OperandInv, OperandsInv

LEMMA OperandNextInv == OperandInv /\ [ParserNext]_vars => OperandInv'
<1> SUFFICES ASSUME OperandInv, [ParserNext]_vars PROVE OperandInv'
  OBVIOUS
<1>1. BalanceInv /\ ErrorInv /\ BalanceInv' /\ NotBlessed
  BY BalanceNextInv DEF OperandInv, BalanceInv
<1>2. TextStep
  BY <1>1, ErrorFacts, StepIsSourceStep, SourceText DEF ErrorInv
<1>3. NotBlessed'
  BY <1>1, <1>2, NotBlessedNext
<1>4. ASSUME diagnostics' = <<>> PROVE SpanInv' /\ OperandsInv'
  <2>1. diagnostics = <<>>
    BY <1>1, <1>4, CleanBefore
  <2>2. SpanInv /\ OperandsInv
    BY <2>1 DEF OperandInv
  <2>3. SpanInv'
    BY <1>1, <1>4, <2>1, <2>2, SpanNext
  <2>4. OperandsInv'
    BY <1>1, <1>2, <1>4, <2>1, <2>2, OperandsNext
  <2> QED BY <2>3, <2>4
<1> QED BY <1>1, <1>3, <1>4 DEF OperandInv

THEOREM OperandInvariant == ParserSpec => []OperandInv
<1> QED BY OperandInitInv, OperandNextInv, PTL DEF ParserSpec

\* Where a node splits is where the tree has its operator.
LEMMA SplitIsOperator ==
  ASSUME nodes \subseteq Node, NEW n \in nodes, NEW k \in Nat, SplitAt(n, k)
  PROVE  OperatorAt(n) = k
<1> DEFINE begins == {m \in nodes : m.first = n.first /\ m.last < n.last}
           Longest(m) == \A j \in begins : j.last <= m.last
           split == CHOOSE m \in begins : Longest(m)
<1>1. n.last \in Nat /\ n.first \in Nat /\ \A m \in nodes : m.last \in Nat
  BY DEF Node
<1>2. PICK m \in nodes : m.first = n.first /\ m.last = k - 1
  BY DEF SplitAt
<1>3. m \in begins
  BY <1>1, <1>2 DEF SplitAt
<1>4. \A j \in begins : j.last < k /\ j.last <= m.last
  <2>1. \A j \in begins : j.last < k
    BY DEF SplitAt
  <2> QED BY <1>1, <1>2, <2>1
<1>5. split \in begins /\ Longest(split)
  <2>1. Longest(m)
    BY <1>4
  <2> HIDE DEF begins, Longest
  <2> QED BY <1>3, <2>1
<1>6. split.last = k - 1
  <2>1. split.last < k /\ m.last <= split.last
    BY <1>3, <1>4, <1>5
  <2>2. split.last \in Nat
    BY <1>1, <1>5
  <2> HIDE DEF split
  <2> QED BY <1>2, <2>1, <2>2
<1>7. OperatorAt(n) = split.last + 1
  BY DEF OperatorAt
<1> HIDE DEF split
<1> QED BY <1>6, <1>7

\* For every text that the parser accepts without an error, an operator that
\* takes a selector takes the one behind it exactly if no semicolon is between
\* them and, for `::' and `:::', no line break that is significant there.
THEOREM SelectorsAreTaken == ParserSpec => []SelectorsEndAtSeparators
<1>1. OperandInv => SelectorsEndAtSeparators
  <2> SUFFICES ASSUME OperandInv, diagnostics = <<>>,
                      NEW n \in NodesOf({"R_EXTRACT_EXPRESSION", "R_NAMESPACE_EXPRESSION"}),
                      text[OperatorAt(n) + 1].kind \in SelectorStart
               PROVE  (n.last = OperatorAt(n)) <=>
                        (\/ HasSemicolon(text[OperatorAt(n) + 1].gap)
                         \/ /\ n.kind = "R_NAMESPACE_EXPRESSION"
                            /\ HasNewline(text[OperatorAt(n) + 1].gap)
                            /\ SeparatorsCount(OperatorAt(n) + 1))
    BY DEF SelectorsEndAtSeparators, HasSemicolon, HasNewline, SeparatorsCount
  <2>1. /\ n \in nodes /\ nodes \subseteq Node /\ n.kind \in InfixKinds
        /\ n.kind \in {"R_EXTRACT_EXPRESSION", "R_NAMESPACE_EXPRESSION"}
    BY DEF NodesOf, OperandInv, BalanceInv, ErrorInv, ParserInv, InfixKinds
  <2>2. PICK fn \in Infixes, k \in Nat : InfixNode(n, fn, k)
    BY <2>1 DEF OperandInv, OperandsInv, InfixNodes
  <2>3. fn \in Selecting /\ (fn = "Namespace" <=> n.kind = "R_NAMESPACE_EXPRESSION")
    BY <2>1, <2>2 DEF InfixNode, KindsOf, Infixes, Selecting
  <2>4. OperatorAt(n) = k
    BY <2>1, <2>2, SplitIsOperator DEF InfixNode
  <2> QED BY <2>2, <2>3, <2>4 DEF InfixNode, Refused
<1> QED BY <1>1, OperandInvariant, PTL

-----------------------------------------------------------------------------
(* Where the expressions on the stack start *)

\* The expression on top of the first b frames starts where it did.
StartsKept(b) ==
  b > 0 /\ stack[b].fn = "Expression" =>
    Start(stack', pc', value', at', b) = Start(stack, pc, value, at, b)

LEMMA NodeStepStarts ==
  ASSUME ParserInv, NEW n, NodeStep(n), Top.fn # "Root"
  PROVE  /\ StartsKept(Len(stack) - 1) /\ Len(stack') = Len(stack) - 1
         /\ Len(stack) - 1 \in 1 .. Len(stack) /\ stack'[Len(stack) - 1] = Under
         /\ Top' = Under /\ Under.fn \in Callers[Top.fn]
<1>1. Len(stack) \in Nat /\ Len(stack) > 1 /\ Top = stack[Len(stack)] /\ Under.fn \in Callers[Top.fn]
  BY InvFacts, UnderFacts DEF Top
<1>2. /\ stack' = Below /\ pc' = "Return" /\ value'.first = stack[Len(stack)].from
  BY <1>1 DEF NodeStep
<1>3. PICK b \in 1 .. Len(stack) : b = Len(stack) - 1
  <2>1. Len(stack) - 1 \in 1 .. Len(stack)
    BY <1>1
  <2> QED BY <2>1
<1>4. Len(stack') = b /\ \A i \in 1 .. b : stack'[i] = stack[i]
  BY <1>1, <1>2, <1>3, StacksLeft
<1>5. Start(stack', pc', value', at', b) = Start(stack, pc, value, at, b)
  BY <1>1, <1>2, <1>3, <1>4 DEF Start
<1>6. Top' = stack'[b] /\ stack'[b] = Under
  BY <1>1, <1>3, <1>4 DEF Top, Under
<1> QED BY <1>1, <1>3, <1>4, <1>5, <1>6 DEF StartsKept

LEMMA NodesStepStarts ==
  ASSUME ParserInv, NEW m, NEW n, NodesStep(m, n), Top.fn # "Root", Under.fn # "Root"
  PROVE  /\ StartsKept(Len(stack) - 2) /\ Len(stack') = Len(stack) - 2
         /\ Len(stack) - 2 \in 1 .. Len(stack) /\ Top' = stack[Len(stack) - 2]
         /\ stack'[Len(stack) - 2] = stack[Len(stack) - 2]
         /\ stack[Len(stack) - 2].fn \in Callers[Under.fn]
<1>1. /\ Len(stack) \in Nat /\ Len(stack) - 2 \in 1 .. Len(stack) - 2 /\ Chain(stack)
      /\ Under = stack[Len(stack) - 1]
  BY InvFacts DEF NodesStep, Under
<1>2. stack' = BelowTwo /\ pc' = "Return" /\ value'.first = stack[Len(stack) - 1].from
  BY <1>1 DEF NodesStep
<1>3. PICK b \in 1 .. Len(stack) : b = Len(stack) - 2
  BY <1>1
<1>4. Len(stack') = b /\ \A i \in 1 .. b : stack'[i] = stack[i]
  BY <1>1, <1>2, <1>3, StacksLeft
<1>5. Start(stack', pc', value', at', b) = Start(stack, pc, value, at, b)
  <2>1. b + 1 = Len(stack) - 1 /\ b < Len(stack)
    BY <1>1, <1>3
  <2> QED BY <1>1, <1>2, <1>3, <1>4, <2>1 DEF Start
<1>6. Top' = stack'[b] /\ stack'[b] = stack[b]
  BY <1>3, <1>4 DEF Top
<1>7. stack[b].fn \in Callers[Under.fn]
  <2>1. PICK i \in 2 .. Len(stack) : i = Len(stack) - 1 /\ i - 1 = b
    BY <1>1, <1>3
  <2> QED BY <1>1, <2>1 DEF Chain
<1> QED BY <1>3, <1>4, <1>5, <1>6, <1>7 DEF StartsKept

LEMMA OperatorStarts ==
  ASSUME ParserInv, OperatorStep
  PROVE  /\ StartsKept(Len(stack)) /\ Len(stack) > 0 /\ stack[Len(stack)].fn = "Expression"
         /\ \A i \in Len(stack) + 1 .. Len(stack') :
              stack'[i].fn \in Infixes \cup {"Expression", "Arguments"}
         /\ pc' # "Return"
<1>1. /\ Len(stack) \in Nat /\ Len(stack) > 0 /\ Len(stack) < Len(stack') /\ pc = "Return"
      /\ stack[Len(stack)].fn = "Expression"
  BY InvFacts DEF OperatorStep, Top
<1>2. PICK f : f = stack'[Len(stack) + 1]
  OBVIOUS
<1>3. f.from = value.first /\ f.fn \in Infixes
  BY <1>2 DEF OperatorStep
<1>4. Start(stack', pc', value', at', Len(stack)) = Start(stack, pc, value, at, Len(stack))
  BY <1>1, <1>2, <1>3 DEF Start
<1>5. ASSUME NEW i \in Len(stack) + 1 .. Len(stack')
      PROVE  stack'[i].fn \in Infixes \cup {"Expression", "Arguments"}
  <2>1. CASE i = Len(stack) + 1
    BY <1>2, <1>3, <2>1
  <2>2. CASE i # Len(stack) + 1
    <3>1. f.fn \notin Selecting /\ i = Len(stack) + 2
      BY <1>1, <1>2, <2>2 DEF OperatorStep
    <3> QED BY <1>2, <1>3, <3>1 DEF OperatorStep, Infixes, Selecting
  <2> QED BY <2>1, <2>2
<1>6. pc' # "Return"
  BY <1>2, <1>3 DEF OperatorStep, Infixes, Selecting
<1> QED BY <1>1, <1>4, <1>5, <1>6 DEF StartsKept

-----------------------------------------------------------------------------
(* Statements: what separates those of a list *)

\* A separator that ends the expression before token i.
Ends(i) == HasSeparator(i) /\ SeparatorsCount(i)

\* Something smaller than the list of the tokens a .. z joins token i to the one
\* before it.
Joined(a, z, i) ==
  \E n \in nodes : n.kind # "R_EXPRESSION_LIST" /\ a <= n.first /\ n.first < i
                   /\ i <= n.last /\ n.last <= z

EndsIfInfix(i) == text[i].kind \in InfixOperators => Ends(i)

\* No operator among the tokens a .. z starts a statement without a separator.
Separated(a, z) ==
  \A i \in a + 1 .. z : text[i].kind \in InfixOperators => Ends(i) \/ Joined(a, z, i)

\* The same of a list that has been parsed up to token x.
SeparatedTo(a, x) == Separated(a, x - 1) /\ (a < x => EndsIfInfix(x))

ListFrames ==
  \A j \in 1 .. Len(stack), a \in Nat, x \in Nat :
    stack[j].fn = "ExpressionList" /\ stack[j].from = a
      /\ Start(stack, pc, value, at, j) = x => SeparatedTo(a, x)

\* A statement is the expression that starts where it does.
StatementFrames ==
  \A j \in 1 .. Len(stack) : stack[j].fn = "Statement" =>
    IF j = Len(stack)
    THEN value.first = stack[j].from /\ \A x \in Nat : x = at => EndsIfInfix(x)
    ELSE stack[j + 1].bp = 0 /\ Start(stack, pc, value, at, j + 1) = stack[j].from

ListNodes == \A n \in nodes : n.kind = "R_EXPRESSION_LIST" => Separated(n.first, n.last)

ValueIsNoList ==
  pc = "Return" /\ Top.fn \notin {"Root", "Braces"} => value.kind # "R_EXPRESSION_LIST"

SeparatorsInv == ListFrames /\ StatementFrames /\ ListNodes /\ ValueIsNoList

LEMMA EndsKept ==
  ASSUME ErrorInv, TextStep, NEW i \in 1 .. at
  PROVE  /\ text'[i] = text[i] /\ (Ends(i)' <=> Ends(i))
         /\ EndsIfInfix(i)' <=> EndsIfInfix(i)
<1>1. at \in Nat /\ i - 1 \in 0 .. at
  BY ErrorFacts
<1>2. OpenBrackets'[i - 1] = OpenBrackets[i - 1]
  BY <1>1, SameBehind
<1>3. text'[i] = text[i]
  BY DEF TextStep
<1>4. SeparatorsCount(i)' <=> SeparatorsCount(i)
  BY <1>2 DEF SeparatorsCount, Innermost
<1>5. HasSeparator(i)' <=> HasSeparator(i)
  BY <1>3 DEF HasSeparator
<1> QED BY <1>3, <1>4, <1>5 DEF Ends, EndsIfInfix

LEMMA SeparatedKept ==
  ASSUME ErrorInv, TextStep, nodes \subseteq nodes', NEW a \in Nat, NEW x \in Int, x <= at
  PROVE  /\ Separated(a, x) => Separated(a, x)'
         /\ SeparatedTo(a, x) => SeparatedTo(a, x)'
<1>1. at \in Nat
  BY ErrorFacts
<1>2. ASSUME NEW z \in Int, z <= at, Separated(a, z) PROVE Separated(a, z)'
  <2>1. ASSUME NEW i \in a + 1 .. z, text'[i].kind \in InfixOperators
        PROVE  Ends(i)' \/ Joined(a, z, i)'
    <3>1. i \in 1 .. at
      BY <1>1, <1>2
    <3>2. Ends(i) \/ Joined(a, z, i)
      BY <1>2, <2>1, <3>1, EndsKept DEF Separated
    <3>3. Joined(a, z, i) => Joined(a, z, i)'
      BY DEF Joined
    <3> QED BY <3>1, <3>2, <3>3, EndsKept
  <2> QED BY <2>1 DEF Separated
<1>3. ASSUME a < x, EndsIfInfix(x) PROVE EndsIfInfix(x)'
  <2>1. x \in 1 .. at
    BY <1>1, <1>3
  <2> QED BY <1>3, <2>1, EndsKept
<1>4. x - 1 \in Int /\ x - 1 <= at
  BY <1>1
<1> QED BY <1>2, <1>3, <1>4 DEF SeparatedTo

LEMMA StartKept ==
  ASSUME ParserInv, NEW b, NEW completed, Spanned(b, completed), StartsKept(b),
         NEW j \in 1 .. b, j < b \/ stack[b].fn = "Expression"
  PROVE  Start(stack', pc', value', at', j) = Start(stack, pc, value, at, j)
<1>1. /\ b \in 0 .. Len(stack) /\ Len(stack) \in Nat /\ b \in Nat /\ b <= Len(stack')
      /\ \A i \in 1 .. b : stack'[i] = stack[i] /\ stack' \in Seq(Frame)
  BY InvFacts DEF Spanned
<1>2. CASE j = b
  BY <1>1, <1>2 DEF StartsKept
<1>3. CASE j < b
  <2>1. j + 1 \in 1 .. b /\ j < Len(stack) /\ j < Len(stack')
    BY <1>1, <1>3
  <2> QED BY <1>1, <2>1 DEF Start
<1> QED BY <1>1, <1>2, <1>3

\* Lists and statements below the frames that change keep what is known of them.
LEMMA SeparatorsKept ==
  ASSUME ErrorInv, SpanInv, TextStep, SeparatorsInv,
         NEW b, NEW completed, Spanned(b, completed), StartsKept(b),
         \A j \in 1 .. Len(stack'), a \in Nat, x \in Nat :
           j >= b /\ stack'[j].fn = "ExpressionList" /\ stack'[j].from = a
             /\ Start(stack', pc', value', at', j) = x => SeparatedTo(a, x)',
         \A j \in 1 .. Len(stack') : j >= b /\ stack'[j].fn = "Statement" =>
           IF j = Len(stack')
           THEN /\ value'.first = stack'[j].from
                /\ \A x \in Nat : x = at' => EndsIfInfix(x)'
           ELSE stack'[j + 1].bp = 0 /\ Start(stack', pc', value', at', j + 1) = stack'[j].from,
         \A n \in completed : n.kind = "R_EXPRESSION_LIST" => Separated(n.first, n.last)',
         pc' = "Return" /\ Top'.fn \notin {"Root", "Braces"} => value'.kind # "R_EXPRESSION_LIST"
  PROVE  SeparatorsInv'
<1>1. /\ ParserInv /\ Chain(stack) /\ stack \in Seq(Frame) /\ Len(stack) \in Nat
      /\ b \in 0 .. Len(stack) /\ b \in Nat /\ b <= Len(stack') /\ at \in Nat
      /\ \A i \in 1 .. b : stack'[i] = stack[i]
      /\ stack' \in Seq(Frame) /\ nodes' = nodes \cup completed /\ nodes \subseteq nodes'
  BY ErrorFacts, InvFacts DEF Spanned
<1>2. ListFrames /\ StatementFrames /\ ListNodes
  BY DEF SeparatorsInv
<1>3. ASSUME NEW j \in 1 .. Len(stack'), j < b
      PROVE  /\ j \in 1 .. Len(stack) /\ j \in 1 .. b /\ j < Len(stack) /\ j + 1 \in 1 .. b
             /\ j < Len(stack') /\ stack'[j] = stack[j] /\ stack'[j + 1] = stack[j + 1]
             /\ stack[j].fn \in Callers[stack[j + 1].fn]
             /\ Start(stack', pc', value', at', j) = Start(stack, pc, value, at, j)
  <2>1. /\ j \in 1 .. Len(stack) /\ j \in 1 .. b /\ j < Len(stack) /\ j + 1 \in 1 .. b
        /\ j < Len(stack') /\ j + 1 \in 2 .. Len(stack) /\ (j + 1) - 1 = j
    BY <1>1, <1>3
  <2>2. stack[j].fn \in Callers[stack[j + 1].fn]
    BY <1>1, <2>1 DEF Chain
  <2>3. Start(stack', pc', value', at', j) = Start(stack, pc, value, at, j)
    BY <1>1, <1>3, <2>1, StartKept
  <2> QED BY <1>1, <2>1, <2>2, <2>3
<1>4. ASSUME NEW j \in 1 .. Len(stack'), NEW a \in Nat, NEW x \in Nat, j < b,
             stack'[j].fn = "ExpressionList", stack'[j].from = a,
             Start(stack', pc', value', at', j) = x
      PROVE  SeparatedTo(a, x)'
  <2>1. SeparatedTo(a, x)
    BY <1>2, <1>3, <1>4 DEF ListFrames
  <2>2. PICK i \in 1 .. Len(stack), f \in Frame : i = j + 1 /\ f = stack[i]
    <3>1. j + 1 \in 1 .. Len(stack)
      BY <1>1, <1>3, <1>4
    <3> QED BY <1>1, <3>1
  <2>3. f.fn # "Expression"
    <3>1. "ExpressionList" \in Callers[f.fn]
      BY <1>3, <1>4, <2>2
    <3> QED BY <3>1, CallersOfExpression
  <2>4. x <= at
    <3>1. Start(stack, pc, value, at, j) = f.from
      BY <1>3, <1>4, <2>2 DEF Start
    <3>2. f.from <= at
      BY <1>1, <2>2, <2>3, FromBehind DEF Marked
    <3> QED BY <1>3, <1>4, <3>1, <3>2
  <2> QED BY <1>1, <2>1, <2>4, SeparatedKept
<1>5. ASSUME NEW j \in 1 .. Len(stack'), j < b, stack'[j].fn = "Statement"
      PROVE  /\ j # Len(stack') /\ stack'[j + 1].bp = 0
             /\ Start(stack', pc', value', at', j + 1) = stack'[j].from
  <2>1. stack[j + 1].bp = 0 /\ Start(stack, pc, value, at, j + 1) = stack[j].from
    BY <1>1, <1>2, <1>3, <1>5 DEF StatementFrames
  <2>2. PICK i \in 1 .. b, f \in Frame : i = j + 1 /\ f = stack[i]
    <3>1. j + 1 \in 1 .. b /\ j + 1 \in 1 .. Len(stack)
      BY <1>1, <1>3, <1>5
    <3> QED BY <1>1, <3>1
  <2>3. f.fn = "Expression"
    <3>1. "Statement" \in Callers[f.fn] /\ f.fn \in Functions
      BY <1>3, <1>5, <2>2 DEF Frame
    <3> QED BY <3>1, FunctionsAre, CallersAre, CallersOfExpression DEF Callers
  <2>4. Start(stack', pc', value', at', i) = Start(stack, pc, value, at, i)
    <3>1. i < b \/ stack[b].fn = "Expression"
      BY <1>1, <2>2, <2>3
    <3> QED BY <1>1, <3>1, StartKept
  <2> QED BY <1>3, <1>5, <2>1, <2>2, <2>4
<1>6. \A j \in 1 .. Len(stack') : j < b \/ j >= b
  BY <1>1
<1>7. ListFrames' /\ StatementFrames'
  BY <1>4, <1>5, <1>6 DEF ListFrames, StatementFrames
<1>8. ListNodes'
  <2>1. ASSUME NEW n \in nodes, n.kind = "R_EXPRESSION_LIST" PROVE Separated(n.first, n.last)'
    <3>1. n \in Node /\ n.last < at
      BY <1>1 DEF ParserInv, SpanInv, NodesEnd
    <3>2. n.first \in Nat /\ n.last \in Int /\ n.last <= at
      BY <1>1, <3>1 DEF Node
    <3>3. Separated(n.first, n.last)
      BY <1>2, <2>1 DEF ListNodes
    <3> QED BY <1>1, <3>2, <3>3, SeparatedKept
  <2> QED BY <1>1, <2>1 DEF ListNodes
<1>9. ValueIsNoList'
  BY DEF ValueIsNoList
<1> QED BY <1>7, <1>8, <1>9 DEF SeparatorsInv

\* Steps at which no list or statement is, or was, on top of what they leave alone.
LEMMA OrdinaryLists ==
  ASSUME ErrorInv, SpanInv, TextStep, SeparatorsInv,
         NEW b, NEW completed, Spanned(b, completed), StartsKept(b),
         \A j \in 1 .. Len(stack') : j >= b =>
           /\ stack'[j].fn # "Statement"
           /\ stack'[j].fn = "ExpressionList" =>
                stack'[j].from = at' /\ j = Len(stack') /\ pc' # "Return",
         \A n \in completed : n.kind # "R_EXPRESSION_LIST",
         pc' = "Return" /\ Top'.fn \notin {"Root", "Braces"} => value'.kind # "R_EXPRESSION_LIST"
  PROVE  SeparatorsInv'
<1>1. ASSUME NEW j \in 1 .. Len(stack'), NEW a \in Nat, NEW x \in Nat, j >= b,
             stack'[j].fn = "ExpressionList", stack'[j].from = a,
             Start(stack', pc', value', at', j) = x
      PROVE  SeparatedTo(a, x)'
  <2>1. a = x
    BY <1>1 DEF Start
  <2>2. a + 1 .. x - 1 = {}
    BY <2>1
  <2> QED BY <2>1, <2>2 DEF SeparatedTo, Separated
<1> QED BY <1>1, SeparatorsKept

LEMMA SpannedFacts ==
  ASSUME ParserInv, NEW b, NEW completed, Spanned(b, completed)
  PROVE  /\ b \in 0 .. Len(stack) /\ b \in Nat /\ Len(stack) \in Nat /\ Len(stack') \in Nat
         /\ b <= Len(stack') /\ \A i \in 1 .. b : stack'[i] = stack[i]
         /\ stack \in Seq(Frame) /\ stack' \in Seq(Frame) /\ Len(stack) > 0
         /\ nodes' = nodes \cup completed /\ completed \subseteq Node /\ nodes \subseteq Node
         /\ at \in Nat /\ at' \in Nat /\ at <= at' /\ at >= 1
BY InvFacts DEF Spanned, ParserInv

\* Without an error, a plain step leaves no statement on top.
LEMMA PlainStacks ==
  ASSUME ErrorInv, ErrorInv', diagnostics' = <<>>, NEW b, NEW completed, PlainStep(b, completed),
         NEW j \in 1 .. Len(stack'), j >= b
  PROVE  /\ stack'[j].fn # "Statement"
         /\ stack'[j].fn = "ExpressionList" =>
              stack'[j].from = at' /\ j = Len(stack') /\ pc' # "Return"
<1>1. /\ b \in 0 .. Len(stack) /\ b \in Nat /\ Len(stack) \in Nat
      /\ b <= Len(stack') /\ \A i \in 1 .. b : stack'[i] = stack[i]
      /\ Len(stack') \in Nat
  <2>1. Spanned(b, completed)
    BY DEF PlainStep
  <2> QED BY <2>1, SpannedFacts DEF ErrorInv
<1>2. /\ b > 0 => stack[b].fn # "ExpressionList"
      /\ \A i \in b + 1 .. Len(stack') :
           PlainFrame(stack'[i], stack'[i - 1], i = Len(stack'), pc', at, at', text)
  BY DEF PlainStep
<1>3. Chain(stack') /\ pc' \in DOMAIN Steps /\ LastFn(stack') \in Steps[pc'] /\ pc' # "Recover"
  BY DEF ErrorInv, ParserInv, Good, Running, RecoveryInv
<1>4. CASE j > b
  <2>1. j \in b + 1 .. Len(stack')
    BY <1>1, <1>4
  <2>2. PlainFrame(stack'[j], stack'[j - 1], j = Len(stack'), pc', at, at', text)
    BY <1>2, <2>1
  <2> QED BY <2>2 DEF PlainFrame
<1>5. CASE j = b
  <2>1. stack'[j].fn # "ExpressionList"
    BY <1>1, <1>2, <1>5
  <2>2. CASE stack'[j].fn = "Statement" /\ j = Len(stack')
    <3>1. pc' \in {"Return", "Recover", "Fail"}
      BY <1>3, <2>2 DEF LastFn, Steps
    <3>2. pc' # "Return" /\ pc' # "Fail"
      BY <2>2 DEF PlainStep, Top
    <3> QED BY <1>3, <3>1, <3>2
  <2>3. CASE stack'[j].fn = "Statement" /\ j < Len(stack')
    <3>1. j + 1 \in b + 1 .. Len(stack') /\ j + 1 \in 2 .. Len(stack') /\ (j + 1) - 1 = j
      BY <1>1, <1>5, <2>3
    <3>2. PlainFrame(stack'[j + 1], stack'[j], j + 1 = Len(stack'), pc', at, at', text)
      BY <1>2, <3>1
    <3>3. PICK f \in Frame : f = stack'[j + 1]
      BY <1>3, <3>1 DEF Chain
    <3>4. "Statement" \in Callers[f.fn] /\ f.fn \in Functions
      BY <1>3, <2>3, <3>1, <3>3 DEF Chain, Frame
    <3>5. f.fn = "Expression"
      BY <3>4, FunctionsAre, CallersAre, CallersOfExpression DEF Callers
    <3> QED BY <2>3, <3>2, <3>3, <3>5 DEF PlainFrame
  <2> QED BY <1>1, <2>1, <2>2, <2>3
<1> QED BY <1>1, <1>4, <1>5

LEMMA PlainSeparators ==
  ASSUME ErrorInv, ErrorInv', diagnostics' = <<>>, SpanInv, TextStep, SeparatorsInv,
         NEW b, NEW completed, PlainStep(b, completed)
  PROVE  SeparatorsInv'
<1>1. Spanned(b, completed) /\ StartsKept(b)
  BY DEF PlainStep, StartsKept
<1>2. \A n \in completed : n.kind # "R_EXPRESSION_LIST"
  BY DEF PlainStep, SpecialKinds
<1>3. pc' = "Return" => value'.kind # "R_EXPRESSION_LIST"
  <2>1. pc' = "Return" => PlainValue(completed)
    BY DEF PlainStep
  <2> QED BY <1>2, <2>1 DEF PlainValue, SeparatorsInv, ValueIsNoList
<1>4. \A j \in 1 .. Len(stack') : j >= b =>
        /\ stack'[j].fn # "Statement"
        /\ stack'[j].fn = "ExpressionList" =>
             stack'[j].from = at' /\ j = Len(stack') /\ pc' # "Return"
  BY PlainStacks
<1> QED BY <1>1, <1>2, <1>3, <1>4, OrdinaryLists

\* Steps that take an operator or a selector, or complete what it is part of.
LEMMA InfixSeparators ==
  ASSUME ErrorInv, SpanInv, TextStep, SeparatorsInv,
         TakesOperator \/ ParseSelector \/ LastPartParsed \/ ParseNoSelector \/ IfParsed
           \/ IfElseParsed \/ CallParsed
  PROVE  SeparatorsInv'
<1>1. ParserInv /\ Len(stack) \in Nat /\ Len(stack) > 0 /\ Top = stack[Len(stack)]
  BY ErrorFacts
<1>2. PICK b, completed :
        /\ Spanned(b, completed) /\ StartsKept(b)
        /\ \A j \in 1 .. Len(stack') : j >= b =>
             stack'[j].fn \notin {"Statement", "ExpressionList"}
        /\ \A n \in completed : n.kind # "R_EXPRESSION_LIST"
        /\ pc' = "Return" => value' \in completed
  <2>1. CASE TakesOperator
    <3>1. OperatorStep
      BY <1>1, <2>1, OperatorSteps DEF TakesOperator
    <3>2. /\ Spanned(Len(stack), {}) /\ StartsKept(Len(stack)) /\ pc' # "Return"
          /\ stack[Len(stack)].fn = "Expression"
          /\ \A i \in Len(stack) + 1 .. Len(stack') :
               stack'[i].fn \in Infixes \cup {"Expression", "Arguments"}
      BY <1>1, <3>1, OperatorStarts DEF OperatorStep
    <3>3. ASSUME NEW j \in 1 .. Len(stack'), j >= Len(stack)
          PROVE  stack'[j].fn \notin {"Statement", "ExpressionList"}
      <4>1. stack'[Len(stack)] = stack[Len(stack)] /\ Len(stack') \in Nat
        BY <1>1, <3>2, SpannedFacts
      <4>2. j = Len(stack) \/ j \in Len(stack) + 1 .. Len(stack')
        BY <1>1, <3>3, <4>1
      <4> QED BY <3>2, <4>1, <4>2 DEF Infixes
    <3> QED BY <3>2, <3>3
  <2>2. CASE ParseSelector
    <3>1. PICK completed : SelectorStep(completed)
      BY <1>1, <2>2, SelectorSteps
    <3>2. /\ Spanned(Len(stack), completed) /\ Top.fn \in Selecting
          /\ \A i \in Len(stack) + 1 .. Len(stack') : stack'[i].fn = "String"
          /\ \A n \in completed : n.kind # "R_EXPRESSION_LIST"
          /\ pc' = "Return" => value' \in completed
      BY <3>1 DEF SelectorStep, SpecialKinds
    <3>3. ASSUME NEW j \in 1 .. Len(stack'), j >= Len(stack)
          PROVE  stack'[j].fn \notin {"Statement", "ExpressionList"}
      <4>1. stack'[Len(stack)] = stack[Len(stack)] /\ Len(stack') \in Nat
        BY <1>1, <3>2, SpannedFacts
      <4>2. j = Len(stack) \/ j \in Len(stack) + 1 .. Len(stack')
        BY <1>1, <3>3, <4>1
      <4> QED BY <1>1, <3>2, <4>1, <4>2 DEF Selecting
    <3>4. StartsKept(Len(stack))
      BY <1>1, <3>2 DEF StartsKept, Selecting
    <3> QED BY <3>2, <3>3, <3>4
  <2>3. CASE LastPartParsed \/ ParseNoSelector \/ IfParsed
    <3>1. PICK n : /\ NodeStep(n) /\ Top.fn \in DOMAIN LastPartNode \cup {"If"}
                   /\ n.kind # "R_EXPRESSION_LIST"
      <4>1. \A fn \in DOMAIN LastPartNode : LastPartNode[fn] # "R_EXPRESSION_LIST"
        BY DEF LastPartNode
      <4>2. Selecting \subseteq DOMAIN LastPartNode
        BY LastPartFunctions DEF Selecting
      <4> QED BY <1>1, <2>3, <4>1, <4>2, NodeSteps
    <3>2. Top.fn # "Root" /\ Callers[Top.fn] = {"Expression"}
      BY <3>1, LastPartFunctions, CallersAre
    <3>3. /\ StartsKept(Len(stack) - 1) /\ Len(stack') = Len(stack) - 1
          /\ stack'[Len(stack) - 1] = Under /\ Under.fn = "Expression"
      BY <1>1, <3>1, <3>2, NodeStepStarts
    <3>4. \A j \in 1 .. Len(stack') : j >= Len(stack) - 1 => j = Len(stack) - 1
      BY <1>1, <3>3
    <3>5. Spanned(Len(stack) - 1, {n}) /\ value' = n
      BY <3>1 DEF NodeStep
    <3> QED BY <3>1, <3>3, <3>4, <3>5
  <2>4. CASE IfElseParsed \/ CallParsed
    <3>1. PICK m, n : /\ NodesStep(m, n) /\ Top.fn # "Root" /\ Under.fn \in {"If", "Call"}
                      /\ m.kind # "R_EXPRESSION_LIST" /\ n.kind # "R_EXPRESSION_LIST"
      BY <1>1, <2>4, TwoNodesSteps DEF SpecialKinds
    <3>2. Callers[Under.fn] = {"Expression"} /\ Under.fn # "Root"
      BY <3>1, CallersAre
    <3>3. /\ StartsKept(Len(stack) - 2) /\ Len(stack') = Len(stack) - 2
          /\ stack'[Len(stack) - 2] = stack[Len(stack) - 2]
          /\ stack[Len(stack) - 2].fn = "Expression"
      BY <1>1, <3>1, <3>2, NodesStepStarts
    <3>4. \A j \in 1 .. Len(stack') : j >= Len(stack) - 2 => j = Len(stack) - 2
      BY <1>1, <3>3
    <3>5. Spanned(Len(stack) - 2, {m, n}) /\ value' = n
      BY <3>1 DEF NodesStep
    <3> QED BY <3>1, <3>3, <3>4, <3>5
  <2> QED BY <2>1, <2>2, <2>3, <2>4
<1>3. \A j \in 1 .. Len(stack') : j >= b =>
        /\ stack'[j].fn # "Statement"
        /\ stack'[j].fn = "ExpressionList" =>
             stack'[j].from = at' /\ j = Len(stack') /\ pc' # "Return"
  BY <1>2
<1>4. pc' = "Return" /\ Top'.fn \notin {"Root", "Braces"} => value'.kind # "R_EXPRESSION_LIST"
  BY <1>2
<1> QED BY <1>2, <1>3, <1>4, OrdinaryLists

\* A statement begins where the list has been parsed up to.
LEMMA ParseStatementSeparators ==
  ASSUME ErrorInv, SpanInv, TextStep, SeparatorsInv, ParseStatement
  PROVE  SeparatorsInv'
<1>1. /\ ParserInv /\ Len(stack) \in Nat /\ Len(stack) > 0 /\ Top = stack[Len(stack)]
      /\ stack \in Seq(Frame) /\ at \in Nat
  BY ErrorFacts
<1>2. /\ stack' = stack \o <<Call("Statement", at), Expression(0)>>
      /\ pc = "List" /\ pc' = "Prefix" /\ at' = at /\ Spanned(Len(stack), {})
      /\ Top.fn = "ExpressionList"
  BY <1>1, StatementSpans, TopAt DEF ParseStatement, Continue, Goto
<1>3. PICK f \in Frame, g \in Frame : /\ f = Call("Statement", at) /\ g = Expression(0)
                                      /\ f.fn = "Statement" /\ f.from = at
                                      /\ g.fn = "Expression" /\ g.bp = 0
  <2>1. Call("Statement", at) \in Frame /\ Expression(0) \in Frame
    BY <1>1, FrameTypes, FunctionsAre, PowerTypes
  <2> QED BY <2>1 DEF Expression, Call
<1>4. /\ Len(stack') = Len(stack) + 2 /\ stack'[Len(stack) + 1] = f
      /\ stack'[Len(stack) + 2] = g /\ \A i \in 1 .. Len(stack) : stack'[i] = stack[i]
  BY <1>1, <1>2, <1>3
<1>5. PICK b \in 1 .. Len(stack) : b = Len(stack)
  BY <1>1
<1>6. \A j \in 1 .. Len(stack') : j >= b => j = b \/ j = b + 1 \/ j = b + 2
  BY <1>1, <1>4, <1>5
<1>7. ASSUME NEW j \in 1 .. Len(stack'), NEW a \in Nat, NEW x \in Nat, j >= b,
             stack'[j].fn = "ExpressionList", stack'[j].from = a,
             Start(stack', pc', value', at', j) = x
      PROVE  SeparatedTo(a, x)'
  <2>1. j = b
    BY <1>3, <1>4, <1>5, <1>6, <1>7
  <2>2. x = at
    BY <1>1, <1>3, <1>4, <1>5, <1>7, <2>1 DEF Start
  <2>3. Start(stack, pc, value, at, j) = x /\ stack[j].from = a /\ stack[j].fn = "ExpressionList"
    BY <1>1, <1>2, <1>4, <1>5, <1>7, <2>1, <2>2 DEF Start
  <2>4. SeparatedTo(a, x)
    BY <1>5, <2>1, <2>3 DEF SeparatorsInv, ListFrames
  <2>5. nodes \subseteq nodes' /\ x <= at /\ x \in Int
    BY <1>1, <1>2, <2>2 DEF Spanned
  <2> QED BY <2>4, <2>5, SeparatedKept
<1>8. ASSUME NEW j \in 1 .. Len(stack'), j >= b, stack'[j].fn = "Statement"
      PROVE  /\ j # Len(stack') /\ stack'[j + 1].bp = 0
             /\ Start(stack', pc', value', at', j + 1) = stack'[j].from
  <2>1. j = b + 1 /\ j + 1 = Len(stack')
    BY <1>1, <1>2, <1>3, <1>4, <1>5, <1>6, <1>8
  <2> QED BY <1>1, <1>2, <1>3, <1>4, <1>5, <2>1 DEF Start
<1>9. StartsKept(b)
  BY <1>1, <1>2, <1>5 DEF StartsKept
<1>10. Spanned(b, {}) /\ pc' # "Return"
  BY <1>2, <1>5
<1> QED BY <1>7, <1>8, <1>9, <1>10, SeparatorsKept

\* What the tokens from a to z joins is joined by a longer list as well.
LEMMA JoinedLonger ==
  ASSUME nodes \subseteq Node, NEW a \in Nat, NEW y \in Int, NEW z \in Int, y <= z,
         NEW i, Joined(a, y, i)
  PROVE  Joined(a, z, i)
<1>1. PICK n \in nodes : n.kind # "R_EXPRESSION_LIST" /\ a <= n.first /\ n.first < i
                         /\ i <= n.last /\ n.last <= y
  BY DEF Joined
<1>2. n.last \in Nat
  BY DEF Node
<1>3. n.last <= z
  BY <1>1, <1>2
<1> QED BY <1>1, <1>3 DEF Joined

\* A statement ends: its tokens are joined by what it is.
LEMMA StatementParsedSeparators ==
  ASSUME ErrorInv, SpanInv, TextStep, SeparatorsInv, StatementParsed
  PROVE  SeparatorsInv'
<1>1. /\ ParserInv /\ Len(stack) \in Nat /\ Len(stack) > 0 /\ Top = stack[Len(stack)]
      /\ stack \in Seq(Frame) /\ at \in Nat /\ Top \in Frame /\ nodes \subseteq Node
  BY ErrorFacts DEF ParserInv
<1>2. /\ stack' = Below /\ pc = "Return" /\ pc' = "List" /\ Top.fn = "Statement"
      /\ Spanned(Len(stack) - 1, {}) /\ at' = at
  BY <1>1, StatementSpans DEF StatementParsed, Continue, Goto, Returned
<1>3. Under.fn = "ExpressionList" /\ Len(stack) > 1
  BY <1>1, <1>2, UnderFacts, CallersAre
<1>4. PICK b \in 1 .. Len(stack) : b = Len(stack) - 1
  <2>1. Len(stack) - 1 \in 1 .. Len(stack)
    BY <1>1, <1>3
  <2> QED BY <2>1
<1>5. Len(stack') = b /\ stack'[b] = stack[b] /\ stack[b].fn = "ExpressionList" /\ b < Len(stack)
  <2>1. /\ Len(Below) = Len(stack) - 1
        /\ \A i \in 1 .. Len(stack) - 1 : Below[i] = stack[i]
    BY <1>1, StacksLeft
  <2>2. b \in 1 .. Len(stack) - 1 /\ b < Len(stack)
    BY <1>1, <1>4
  <2>3. stack[b] = Under
    BY <1>4 DEF Under
  <2> QED BY <1>2, <1>3, <1>4, <2>1, <2>2, <2>3
<1>6. PICK s \in Nat, x \in Nat : s = Top.from /\ x = at
  BY <1>1 DEF Frame
<1>7. value.first = s /\ EndsIfInfix(x)
  BY <1>1, <1>2, <1>6 DEF SeparatorsInv, StatementFrames
<1>8. /\ value \in nodes /\ value.last = x - 1 /\ s < x
      /\ value.kind # "R_EXPRESSION_LIST"
  BY <1>1, <1>2, <1>6, <1>7 DEF SeparatorsInv, ValueIsNoList, SpanInv, ValueEnds
<1>9. ASSUME NEW a \in Nat, stack[b].from = a PROVE SeparatedTo(a, x)
  <2>1. Start(stack, pc, value, at, b) = s /\ b \in 1 .. Len(stack)
    BY <1>1, <1>4, <1>5, <1>6 DEF Start
  <2>2. SeparatedTo(a, s)
    BY <1>5, <1>9, <2>1 DEF SeparatorsInv, ListFrames
  <2>3. a <= s
    <3>1. PICK f \in Frame, g \in Frame : f = stack[b] /\ g = Top
      BY <1>1
    <3>2. Marked(f) /\ Marked(g) /\ Edge(f) = a
      BY <1>2, <1>5, <1>9, <3>1 DEF Marked, Edge, Loose
    <3>3. AboveIn(stack, pc, value, at, b, Edge(f))
      BY <3>1, <3>2 DEF SpanInv, FramesOrdered
    <3>4. Len(stack) \in b + 1 .. Len(stack)
      BY <1>1, <1>4, <1>5
    <3> QED BY <1>1, <1>6, <3>1, <3>2, <3>3, <3>4 DEF AboveIn
  <2>4. ASSUME NEW i \in a + 1 .. x - 1, text[i].kind \in InfixOperators
        PROVE  Ends(i) \/ Joined(a, x - 1, i)
    <3>1. CASE i <= s - 1
      <4>1. i \in a + 1 .. s - 1
        BY <2>4, <3>1
      <4>2. Ends(i) \/ Joined(a, s - 1, i)
        BY <2>2, <2>4, <4>1 DEF SeparatedTo, Separated
      <4>3. s - 1 \in Int /\ x - 1 \in Int /\ s - 1 <= x - 1
        BY <1>8
      <4> QED BY <1>1, <4>2, <4>3, JoinedLonger
    <3>2. CASE i = s
      BY <2>2, <2>4, <3>2 DEF SeparatedTo, EndsIfInfix
    <3>3. CASE i > s
      <4>1. a <= value.first /\ value.first < i /\ i <= value.last /\ value.last <= x - 1
        BY <1>7, <1>8, <2>3, <2>4, <3>3
      <4> QED BY <1>8, <4>1 DEF Joined
    <3> QED BY <2>3, <2>4, <3>1, <3>2, <3>3
  <2> QED BY <1>7, <2>4 DEF SeparatedTo, Separated
<1>10. ASSUME NEW j \in 1 .. Len(stack'), NEW a \in Nat, NEW y \in Nat, j >= b,
              stack'[j].fn = "ExpressionList", stack'[j].from = a,
              Start(stack', pc', value', at', j) = y
       PROVE  SeparatedTo(a, y)'
  <2>1. j = b
    BY <1>4, <1>5, <1>10
  <2>2. y = x
    BY <1>2, <1>5, <1>6, <1>10, <2>1 DEF Start
  <2>3. SeparatedTo(a, x)
    BY <1>5, <1>9, <1>10, <2>1
  <2>4. nodes \subseteq nodes' /\ x <= at /\ x \in Int
    BY <1>1, <1>2, <1>6 DEF Spanned
  <2>5. SeparatedTo(a, x)'
    BY <2>3, <2>4, SeparatedKept
  <2> QED BY <2>2, <2>5
<1>11. \A j \in 1 .. Len(stack') : j >= b => stack'[j].fn # "Statement"
  BY <1>4, <1>5
<1>12. StartsKept(b) /\ Spanned(b, {}) /\ pc' # "Return"
  BY <1>2, <1>4, <1>5 DEF StartsKept
<1> QED BY <1>10, <1>11, <1>12, SeparatorsKept

LEMMA LeftPowers == \A k \in InfixOperators : LeftPower(k) \in Nat
BY DEF InfixOperators, LeftPower, BinaryOperators, BinaryPower, CallOpeners, Extractors,
       Namespacers, CALL_LBP, EXTRACT_LBP, NAMESPACE_LBP

\* An expression ends: if an operator is next, it is behind a separator.
LEMMA EndExpressionSeparators ==
  ASSUME BalanceInv, NotBlessed, diagnostics = <<>>, SpanInv, TextStep, SeparatorsInv,
         EndExpression
  PROVE  SeparatorsInv'
<1>1. /\ ErrorInv /\ ParserInv /\ Len(stack) \in Nat /\ Len(stack) > 0 /\ Top = stack[Len(stack)]
      /\ stack \in Seq(Frame) /\ at \in Nat /\ at >= 1 /\ Chain(stack)
  BY ErrorFacts, InvFacts DEF BalanceInv
<1>2. /\ stack' = Below /\ pc = "Return" /\ pc' = "Return" /\ Top.fn = "Expression"
      /\ Spanned(Len(stack) - 1, {}) /\ at' = at /\ value' = value /\ ~Continues(Top.bp)
  BY <1>1, StatementSpans DEF EndExpression, Return, Yield, Returned
<1>3. Under.fn \in Callers["Expression"] /\ Len(stack) > 1
  BY <1>1, <1>2, UnderFacts
<1>4. PICK b \in 1 .. Len(stack) : b = Len(stack) - 1
  <2>1. Len(stack) - 1 \in 1 .. Len(stack)
    BY <1>1, <1>3
  <2> QED BY <2>1
<1>5. /\ Len(stack') = b /\ stack'[b] = stack[b] /\ stack[b] = Under /\ b < Len(stack)
      /\ b + 1 = Len(stack)
  <2>1. /\ Len(Below) = Len(stack) - 1
        /\ \A i \in 1 .. Len(stack) - 1 : Below[i] = stack[i]
    BY <1>1, StacksLeft
  <2>2. b \in 1 .. Len(stack) - 1 /\ b < Len(stack) /\ b + 1 = Len(stack)
    BY <1>1, <1>4
  <2>3. stack[b] = Under
    BY <1>4 DEF Under
  <2> QED BY <1>2, <2>1, <2>2, <2>3
<1>6. stack[b].fn \notin {"Expression", "ExpressionList"}
  BY <1>3, <1>5, CallersOfExpression
<1>7. ASSUME stack[b].fn = "Statement"
      PROVE  value.first = stack[b].from /\ Top.bp = 0
  BY <1>1, <1>2, <1>4, <1>5, <1>7 DEF SeparatorsInv, StatementFrames, Start
<1>8. ASSUME Top.bp = 0, NEW x \in Nat, x = at PROVE EndsIfInfix(x)'
  <2>1. SUFFICES ASSUME text[at].kind \in InfixOperators PROVE Ends(at)
    <3>1. x \in 1 .. at
      BY <1>1, <1>8
    <3>2. EndsIfInfix(x)' <=> EndsIfInfix(x)
      BY <1>1, <3>1, EndsKept
    <3> QED BY <1>8, <3>2 DEF EndsIfInfix
  <2>2. current = text[at].kind /\ current \notin Closers
    <3>1. CurrentIsLexed
      BY <1>1 DEF ErrorInv
    <3>2. InfixOperators \cap Closers = {} /\ "R_BRACK" \in Closers
      BY DEF InfixOperators, BinaryOperators, BinaryPower, CallOpeners, Extractors, Namespacers,
             Closers
    <3> QED BY <2>1, <3>1, <3>2 DEF CurrentIsLexed
  <2>3. /\ HasPrecedingSeparator <=> HasSeparator(at)
        /\ NewlinesSignificant <=> SeparatorsCount(at)
    BY <1>2, <2>2, CurrentGap DEF Quiet
  <2>4. LeftPower(current) >= 0
    BY <2>1, <2>2, LeftPowers
  <2> QED BY <1>2, <1>8, <2>1, <2>2, <2>3, <2>4 DEF Continues, Ends
<1>9. \A j \in 1 .. Len(stack') : j >= b => j = b /\ j = Len(stack')
  BY <1>4, <1>5
<1>10. StartsKept(b) /\ Spanned(b, {})
  BY <1>2, <1>4, <1>6 DEF StartsKept
<1>11. value'.kind # "R_EXPRESSION_LIST"
  BY <1>2 DEF SeparatorsInv, ValueIsNoList
<1>12. \A j \in 1 .. Len(stack') : j >= b => stack'[j].fn # "ExpressionList"
  BY <1>5, <1>6, <1>9
<1>13. ASSUME NEW j \in 1 .. Len(stack'), j >= b, stack'[j].fn = "Statement"
       PROVE  /\ j = Len(stack') /\ value'.first = stack'[j].from
              /\ \A x \in Nat : x = at' => EndsIfInfix(x)'
  <2>1. j = b /\ j = Len(stack') /\ stack[b].fn = "Statement"
    BY <1>5, <1>9, <1>13
  <2>2. value'.first = stack'[j].from
    BY <1>2, <1>5, <1>7, <2>1
  <2> QED BY <1>2, <1>7, <1>8, <2>1, <2>2
<1> QED BY <1>1, <1>10, <1>11, <1>12, <1>13, SeparatorsKept

\* A list ends: what it spans is what has been parsed.
LEMMA EndListSeparators ==
  ASSUME ErrorInv, SpanInv, TextStep, SeparatorsInv, EndList
  PROVE  SeparatorsInv'
<1>1. /\ ParserInv /\ Len(stack) \in Nat /\ Len(stack) > 0 /\ Top = stack[Len(stack)]
      /\ stack \in Seq(Frame) /\ at \in Nat /\ at >= 1 /\ Top \in Frame /\ nodes \subseteq Node
  BY ErrorFacts DEF ParserInv
<1>2. PICK n : NodeStep(n)
  BY <1>1, NodeSteps
<1>3. pc = "List" /\ Top.fn = "ExpressionList"
  BY <1>1, NodeSteps
<1>4. /\ StartsKept(Len(stack) - 1) /\ Len(stack') = Len(stack) - 1
      /\ Len(stack) - 1 \in 1 .. Len(stack) /\ stack'[Len(stack) - 1] = Under
      /\ Top' = Under /\ Under.fn \in {"Root", "Braces"}
  BY <1>1, <1>2, <1>3, NodeStepStarts, CallersAre
<1>5. PICK b \in 1 .. Len(stack) : b = Len(stack) - 1
  BY <1>4
<1>6. /\ n.first = Top.from /\ n.last = at - 1 /\ Spanned(b, {n}) /\ n \in Node
  BY <1>2, <1>5 DEF NodeStep
<1>7. PICK a \in Nat, x \in Nat : a = Top.from /\ x = at
  BY <1>1 DEF Frame
<1>8. SeparatedTo(a, x)
  <2>1. Start(stack, pc, value, at, Len(stack)) = x /\ Len(stack) \in 1 .. Len(stack)
    BY <1>1, <1>3, <1>7 DEF Start
  <2> QED BY <1>1, <1>3, <1>7, <2>1 DEF SeparatorsInv, ListFrames
<1>9. Separated(a, x - 1)'
  <2>1. Separated(a, x - 1) /\ x - 1 \in Int /\ x - 1 <= at /\ nodes \subseteq nodes'
    BY <1>1, <1>6, <1>7, <1>8 DEF SeparatedTo, Spanned
  <2> QED BY <1>1, <2>1, SeparatedKept
<1>10. \A m \in {n} : m.kind = "R_EXPRESSION_LIST" => Separated(m.first, m.last)'
  <2>1. n.first = a /\ n.last = x - 1
    BY <1>6, <1>7
  <2>2. Separated(n.first, n.last)'
    BY <1>9, <2>1
  <2> QED BY <2>2
<1>11. \A j \in 1 .. Len(stack') : j >= b => j = b /\ stack'[j].fn \in {"Root", "Braces"}
  BY <1>1, <1>4, <1>5
<1>12. StartsKept(b)
  BY <1>4, <1>5
<1>13. \A j \in 1 .. Len(stack') : j >= b => stack'[j].fn \notin {"ExpressionList", "Statement"}
  BY <1>11
<1>14. Top'.fn \in {"Root", "Braces"}
  BY <1>4
<1> QED BY <1>6, <1>10, <1>12, <1>13, <1>14, SeparatorsKept

LEMMA SeparatorsInit == ParserInit => SeparatorsInv
<1> SUFFICES ASSUME ParserInit PROVE SeparatorsInv
  OBVIOUS
<1>1. pc = "Root" /\ nodes = {} /\ stack = <<Call("Root", 1)>>
  BY DEF ParserInit, SourceInit
<1>2. \A j \in 1 .. Len(stack) : stack[j].fn = "Root"
  BY <1>1 DEF Call
<1> QED BY <1>1, <1>2 DEF SeparatorsInv, ListFrames, StatementFrames, ListNodes, ValueIsNoList

LEMMA SeparatorsNext ==
  ASSUME BalanceInv, ErrorInv', NotBlessed, diagnostics = <<>>, diagnostics' = <<>>, SpanInv,
         TextStep, SeparatorsInv, [ParserNext]_vars
  PROVE  SeparatorsInv'
<1>1. ErrorInv
  BY DEF BalanceInv
<1>2. CASE \E b, completed : PlainStep(b, completed)
  <2>1. PICK b, completed : PlainStep(b, completed)
    BY <1>2
  <2> QED BY <1>1, <2>1, PlainSeparators
<1>3. CASE SpecialStep
  <2>1. CASE ParseStatement
    BY <1>1, <2>1, ParseStatementSeparators
  <2>2. CASE StatementParsed
    BY <1>1, <2>2, StatementParsedSeparators
  <2>3. CASE EndExpression
    BY <2>3, EndExpressionSeparators
  <2>4. CASE EndList
    BY <1>1, <2>4, EndListSeparators
  <2>5. CASE \/ TakesOperator \/ ParseSelector \/ LastPartParsed \/ ParseNoSelector
             \/ IfParsed \/ IfElseParsed \/ CallParsed
    BY <1>1, <2>5, InfixSeparators
  <2> QED BY <1>3, <2>1, <2>2, <2>3, <2>4, <2>5 DEF SpecialStep
<1>4. CASE UNCHANGED vars
  <2>1. /\ pc' = pc /\ stack' = stack /\ value' = value /\ nodes' = nodes /\ at' = at
        /\ text' = text
    BY <1>4 DEF vars, sourceVars, parserVars
  <2>2. OpenBrackets' = OpenBrackets
    BY <2>1 DEF OpenBrackets
  <2>3. /\ \A a, x : SeparatedTo(a, x)' <=> SeparatedTo(a, x)
        /\ \A a, x : Separated(a, x)' <=> Separated(a, x)
        /\ \A x : EndsIfInfix(x)' <=> EndsIfInfix(x)
    BY <2>1, <2>2 DEF SeparatedTo, Separated, Joined, EndsIfInfix, Ends, HasSeparator,
                      SeparatorsCount, Innermost
  <2> QED BY <2>1, <2>3 DEF SeparatorsInv, ListFrames, StatementFrames, ListNodes, ValueIsNoList, Top
<1> QED BY <1>1, <1>2, <1>3, <1>4, CleanSteps

SeparatorInv == OperandInv /\ (diagnostics = <<>> => SeparatorsInv)

LEMMA SeparatorInitInv == ParserInit => SeparatorInv
BY OperandInitInv, SeparatorsInit DEF SeparatorInv

LEMMA SeparatorNextInv == SeparatorInv /\ [ParserNext]_vars => SeparatorInv'
<1> SUFFICES ASSUME SeparatorInv, [ParserNext]_vars PROVE SeparatorInv'
  OBVIOUS
<1>1. OperandInv /\ OperandInv' /\ BalanceInv /\ ErrorInv /\ NotBlessed /\ ErrorInv'
  BY OperandNextInv DEF SeparatorInv, OperandInv, BalanceInv
<1>2. TextStep
  BY <1>1, ErrorFacts, StepIsSourceStep, SourceText DEF ErrorInv
<1>3. ASSUME diagnostics' = <<>> PROVE SeparatorsInv'
  <2>1. diagnostics = <<>>
    BY <1>1, <1>3, CleanBefore
  <2>2. SpanInv /\ SeparatorsInv
    BY <1>1, <2>1 DEF SeparatorInv, OperandInv
  <2> QED BY <1>1, <1>2, <1>3, <2>1, <2>2, SeparatorsNext
<1> QED BY <1>1, <1>3 DEF SeparatorInv

\* While no error is recorded, no operator among the tokens of a statement list
\* follows a statement without a separator that the brackets before it let count.
THEOREM SeparatorInvariant == ParserSpec => []SeparatorInv
<1> QED BY SeparatorInitInv, SeparatorNextInv, PTL DEF ParserSpec

\* For every text that the parser accepts without an error, a line break or a
\* semicolon before an operator ends the expression exactly where the brackets
\* of the text let it.
THEOREM OperatorsMinded == ParserSpec => []SeparatorsEndExpressions
<1>1. SeparatorInv => SeparatorsEndExpressions
  <2> SUFFICES ASSUME SeparatorInv, diagnostics = <<>>, NEW i \in Tokens \ {1},
                      text[i].kind \in InfixOperators
               PROVE  /\ IsApplied(i) /\ HasSeparator(i) => ~SeparatorsCount(i)
                      /\ JoinKinds(i) = {"R_EXPRESSION_LIST"} =>
                           HasSeparator(i) /\ SeparatorsCount(i)
    BY DEF SeparatorsEndExpressions
  <2>1. /\ nodes \subseteq Node /\ at \in Nat /\ i \in Nat /\ ParserInv
        /\ InfixNodes /\ ListNodes
    <3>1. ErrorInv
      BY DEF SeparatorInv, OperandInv, BalanceInv
    <3> QED BY <3>1, ErrorFacts DEF SeparatorInv, SeparatorsInv, OperandInv, OperandsInv, ParserInv,
                                    Tokens
  <2>2. \A n \in nodes : n.first \in Nat /\ n.last \in Nat
    BY <2>1 DEF Node
  <2>3. \A n \in Joining(i) :
          /\ n \in nodes /\ n.first < i /\ i <= n.last
          /\ \A m \in nodes : m.first < i /\ i <= m.last =>
               n.last - n.first <= m.last - m.first
    BY DEF Joining
  <2>4. ASSUME IsApplied(i) PROVE HasSeparator(i) => ~SeparatorsCount(i)
    <3>1. PICK n \in Joining(i), operand \in nodes :
            operand.first = n.first /\ operand.last = i - 1 /\ n.kind \in InfixKinds
      BY <2>4 DEF IsApplied, InfixKinds
    <3>2. PICK fn \in Infixes, k \in Nat : InfixNode(n, fn, k)
      BY <2>1, <2>3, <3>1 DEF InfixNodes
    <3>3. /\ n.first < k /\ k <= n.last
          /\ \A m \in nodes : m.first = n.first /\ m.last < n.last => m.last < k
      BY <3>2 DEF InfixNode, SplitAt
    <3>4. PICK m \in nodes : m.first = n.first /\ m.last = k - 1
      BY <3>2 DEF InfixNode, SplitAt
    <3>5. i <= k
      <4>1. operand.last < n.last
        BY <2>1, <2>2, <2>3, <3>1
      <4>2. operand.last < k
        BY <3>1, <3>3, <4>1
      <4> QED BY <2>1, <3>1, <4>2
    <3>6. ~(i < k)
      <4>1. SUFFICES ASSUME i < k PROVE FALSE
        OBVIOUS
      <4>2. m.first < i /\ i <= m.last
        BY <2>1, <2>3, <3>4, <4>1
      <4>3. n.last - n.first <= m.last - m.first
        BY <2>3, <4>2
      <4>4. n.first \in Nat /\ n.last \in Nat
        BY <2>2, <2>3
      <4> QED BY <3>3, <3>4, <4>3, <4>4
    <3>7. i = k
      BY <2>1, <3>5, <3>6
    <3> QED BY <3>2, <3>7 DEF InfixNode, Ruled
  <2>5. ASSUME JoinKinds(i) = {"R_EXPRESSION_LIST"} PROVE Ends(i)
    <3>1. PICK n \in Joining(i) : n.kind = "R_EXPRESSION_LIST"
      BY <2>5 DEF JoinKinds
    <3>2. n.first \in Nat /\ n.last \in Nat /\ i \in n.first + 1 .. n.last
      BY <2>1, <2>2, <2>3
    <3>3. Ends(i) \/ Joined(n.first, n.last, i)
      BY <2>1, <2>3, <3>1, <3>2 DEF ListNodes, Separated
    <3>4. ASSUME Joined(n.first, n.last, i) PROVE FALSE
      <4>1. PICK m \in nodes : m.kind # "R_EXPRESSION_LIST" /\ n.first <= m.first /\ m.first < i
                               /\ i <= m.last /\ m.last <= n.last
        BY <3>4 DEF Joined
      <4>2. m.first \in Nat /\ m.last \in Nat
        BY <2>2
      <4>3. \A l \in nodes : l.first < i /\ i <= l.last => m.last - m.first <= l.last - l.first
        <5>1. m.last - m.first <= n.last - n.first
          BY <3>2, <4>1, <4>2
        <5> QED BY <2>2, <2>3, <3>2, <4>2, <5>1
      <4>4. m \in Joining(i)
        BY <4>1, <4>3 DEF Joining
      <4>5. m.kind \in JoinKinds(i)
        BY <4>4 DEF JoinKinds
      <4> QED BY <2>5, <4>1, <4>5
    <3> QED BY <3>3, <3>4
  <2> QED BY <2>4, <2>5 DEF Ends
<1> QED BY <1>1, SeparatorInvariant, PTL

-----------------------------------------------------------------------------
(* Precedence: which operators are left to what is around a last part *)

\* Token p stands for how tightly the last part of node n, or of function f, is
\* bound.
HeadOf(n, p)      == IF n.kind = "R_BINARY_EXPRESSION" THEN SplitAt(n, p) ELSE p = n.first
HeadOfFrame(f, p) == IF f.fn = "Binary" THEN Operand(f, p) ELSE p = f.from

\* Token k is bound more loosely than each last part that ends right before it.
Loosest(k) ==
  \A n \in nodes, p \in Nat :
    n.kind \in LastParts /\ n.last = k - 1 /\ HeadOf(n, p) =>
      LeftPower(text[k].kind) < Power(n.kind, text[p].kind)

\* The operator of n may be part of an operand that is bound with power w.
Binds(n, w) == \A q \in Nat : SplitAt(n, q) => LeftPower(text[q].kind) >= w

\* What functions wait behind, and what nodes have as their operators.
OperatorFrames ==
  \A j \in 2 .. Len(stack), k \in Nat :
    stack[j].fn \in Infixes /\ Operand(stack[j], k) =>
      Loosest(k) /\ LeftPower(text[k].kind) >= stack[j - 1].bp

OperatorNodes ==
  \A n \in nodes, k \in Nat : n.kind \in InfixKinds /\ SplitAt(n, k) => Loosest(k)

\* The last part of a function is parsed with the power its token has.
PartFrames ==
  \A j \in 1 .. Len(stack) - 1, p \in Nat :
    stack[j].fn \in Bodied /\ stack[j + 1].fn = "Expression" /\ HeadOfFrame(stack[j], p) =>
      stack[j + 1].bp = Power(stack[j].fn, text[p].kind)

\* A last part that has been parsed could not be longer.
PartParsed ==
  pc = "Return" /\ Top.fn \in Bodied =>
    \A p \in Nat : HeadOfFrame(Top, p) =>
      /\ ~Continues(Power(Top.fn, text[p].kind))
      /\ \A n \in nodes : n.kind \in InfixKinds /\ n.first = value.first =>
           Binds(n, Power(Top.fn, text[p].kind))

\* What an expression has taken binds as tightly as it was asked to.
Expressions ==
  \A j \in 1 .. Len(stack), n \in nodes :
    /\ stack[j].fn = "Expression" /\ n.kind \in InfixKinds
    /\ n.first = Start(stack, pc, value, at, j)
    => Binds(n, stack[j].bp)

\* The last part of m is e.
EndsWith(m, e) ==
  /\ e.last = m.last /\ m.first < e.first
  /\ \A x \in nodes : x.last = m.last /\ m.first < x.first => e.first <= x.first

PartNodes ==
  \A m \in nodes, p \in Nat :
    m.kind \in LastParts /\ HeadOf(m, p) =>
      \E e \in nodes :
        /\ EndsWith(m, e)
        /\ \A n \in nodes : n.kind \in InfixKinds /\ n.first = e.first /\ n.last <= m.last =>
             Binds(n, Power(m.kind, text[p].kind))

\* The last parts that end where the value does could not be longer.
RightEdge ==
  pc = "Return" /\ Top.fn \notin {"Root", "Braces"} =>
    \A n \in nodes, p \in Nat :
      n.kind \in LastParts /\ n.last = at - 1 /\ HeadOf(n, p) =>
        ~Continues(Power(n.kind, text[p].kind))

\* Nothing ends with an operator whose selector is awaited.
SelectorAwaited == pc = "Selector" => \A n \in nodes : n.last < at - 1

\* Functions and nodes with a last part begin with one of their tokens.
HeadsKnown ==
  /\ \A j \in 1 .. Len(stack) : stack[j].fn \in Prefixed =>
       /\ stack[j].from \in 1 .. at /\ stack[j].from < at
       /\ text[stack[j].from].kind \in Openers(stack[j].fn)
  /\ \A n \in nodes : n.kind \in LastParts \ {"R_BINARY_EXPRESSION"} =>
       n.first \in 1 .. at /\ text[n.first].kind \in Openers(n.kind)

\* No operand begins with an `else'.
ElseStarts ==
  \A j \in 1 .. Len(stack), n \in nodes :
    stack[j].fn = "Else" /\ n.kind \in InfixKinds => n.first # stack[j].from

LEMMA SplitUnique ==
  ASSUME NEW tree, tree \subseteq Node, NEW n \in Node, NEW k \in Nat, NEW q \in Nat,
         k <= n.last, \E m \in tree : m.first = n.first /\ m.last = k - 1,
         \A m \in tree : m.first = n.first /\ m.last < n.last => m.last < k,
         q <= n.last, \E m \in tree : m.first = n.first /\ m.last = q - 1,
         \A m \in tree : m.first = n.first /\ m.last < n.last => m.last < q
  PROVE  k = q
<1>1. n.last \in Nat /\ \A m \in tree : m.last \in Nat
  BY DEF Node
<1>2. PICK m \in tree : m.first = n.first /\ m.last = k - 1
  OBVIOUS
<1>3. PICK e \in tree : e.first = n.first /\ e.last = q - 1
  OBVIOUS
<1>4. m.last < q /\ e.last < k
  BY <1>1, <1>2, <1>3
<1> QED BY <1>2, <1>3, <1>4

LEMMA OperandUnique ==
  ASSUME NEW tree, tree \subseteq Node, NEW from, NEW k \in Nat, NEW q \in Nat,
         \E m \in tree : m.first = from /\ m.last = k - 1,
         \A m \in tree : m.first = from => m.last < k,
         \E m \in tree : m.first = from /\ m.last = q - 1,
         \A m \in tree : m.first = from => m.last < q
  PROVE  k = q
<1>2. PICK m \in tree : m.first = from /\ m.last = k - 1
  OBVIOUS
<1>3. PICK e \in tree : e.first = from /\ e.last = q - 1
  OBVIOUS
<1>4. m.last < q /\ e.last < k
  BY <1>2, <1>3
<1> QED BY <1>2, <1>3, <1>4

\* A token that is behind stays what it is.
LEMMA Behind ==
  ASSUME TextStep, NEW p \in 1 .. at
  PROVE  text'[p] = text[p]
  BY DEF TextStep

LEMMA SplitBehind ==
  ASSUME ParserInv, SpanInv, NEW n \in nodes, NEW k \in Nat, SplitAt(n, k)
  PROVE  k \in 1 .. at /\ k < at /\ n.first < n.last + 1 /\ n \in Node
<1>1. /\ n \in Node /\ at \in Nat /\ n.first \in Nat /\ n.last \in Nat /\ n.last < at
      /\ n.first < k /\ k <= n.last
  BY InvFacts DEF ParserInv, SpanInv, NodesEnd, Node, SplitAt
<1> QED BY <1>1

\* The token that stands for a node that stays.
LEMMA HeadKept ==
  ASSUME ErrorInv, SpanInv, TextStep, HeadsKnown, NEW b, NEW completed, Spanned(b, completed),
         NEW n \in nodes, n.kind \in LastParts, NEW p \in Nat
  PROVE  /\ HeadOf(n, p)' <=> HeadOf(n, p)
         /\ HeadOf(n, p) => p \in 1 .. at /\ text'[p] = text[p]
<1>1. ParserInv
  BY DEF ErrorInv
<1>2. SplitAt(n, p)' <=> SplitAt(n, p)
  BY <1>1, SplitKept
<1>3. ASSUME HeadOf(n, p) PROVE p \in 1 .. at
  <2>1. CASE n.kind = "R_BINARY_EXPRESSION"
    BY <1>1, <1>3, <2>1, SplitBehind DEF HeadOf
  <2>2. CASE n.kind # "R_BINARY_EXPRESSION"
    BY <1>3, <2>2 DEF HeadOf, HeadsKnown
  <2> QED BY <2>1, <2>2
<1>4. HeadOf(n, p) => text'[p] = text[p]
  BY <1>3, Behind
<1> QED BY <1>2, <1>3, <1>4 DEF HeadOf

LEMMA BindsKept ==
  ASSUME ErrorInv, SpanInv, TextStep, NEW b, NEW completed, Spanned(b, completed),
         NEW n \in nodes, NEW w, Binds(n, w)
  PROVE  Binds(n, w)'
<1>1. ParserInv
  BY DEF ErrorInv
<1>2. ASSUME NEW q \in Nat, SplitAt(n, q)' PROVE LeftPower(text'[q].kind) >= w
  <2>1. SplitAt(n, q)
    BY <1>1, <1>2, SplitKept
  <2>2. q \in 1 .. at
    BY <1>1, <2>1, SplitBehind
  <2>3. text'[q] = text[q]
    BY <2>2, Behind
  <2> QED BY <2>1, <2>3 DEF Binds
<1> QED BY <1>2 DEF Binds

LEMMA LoosestKept ==
  ASSUME ErrorInv, SpanInv, TextStep, HeadsKnown, NEW b, NEW completed, Spanned(b, completed),
         NEW k \in 1 .. at, k < at, Loosest(k)
  PROVE  Loosest(k)'
<1>1. ParserInv /\ text'[k] = text[k]
  BY Behind DEF ErrorInv
<1>2. /\ nodes' = nodes \cup completed /\ at \in Nat /\ at' \in Nat /\ at <= at'
      /\ \A m \in completed : m.last \in {at - 1, at' - 1}
  BY <1>1, InvFacts DEF Spanned
<1>3. ASSUME NEW n \in nodes', NEW p \in Nat, n.kind \in LastParts, n.last = k - 1,
             HeadOf(n, p)'
      PROVE  LeftPower(text'[k].kind) < Power(n.kind, text'[p].kind)
  <2>1. n \in nodes
    <3>1. PICK end \in Nat : end = at' /\ at <= end
      BY <1>2
    <3>2. k \in Nat /\ k < at /\ at \in Nat
      BY <1>2
    <3>3. \A x, y, z \in Nat : x < y /\ y <= z => x - 1 # y - 1 /\ x - 1 # z - 1
      OBVIOUS
    <3>4. k - 1 # at - 1 /\ k - 1 # end - 1
      BY <3>1, <3>2, <3>3, Zenon
    <3> QED BY <1>2, <1>3, <3>1, <3>4
  <2>2. HeadOf(n, p) /\ text'[p] = text[p]
    BY <1>3, <2>1, HeadKept
  <2> QED BY <1>1, <1>3, <2>1, <2>2 DEF Loosest
<1> QED BY <1>3 DEF Loosest

\* The operator behind which a frame that stays waits is the same.
LEMMA OperandBefore ==
  ASSUME ErrorInv, SpanInv, OperandsInv, TextStep, NEW b, NEW completed, Spanned(b, completed),
         NEW j \in 1 .. b, NEW f \in Frame, f = stack[j], f.fn \in Infixes, NEW k \in Nat
  PROVE  /\ Operand(f, k)' => Operand(f, k)
         /\ Operand(f, k) => k \in 1 .. at /\ k < at /\ text'[k] = text[k]
<1>1. ParserInv /\ b \in 0 .. Len(stack) /\ Len(stack) \in Nat /\ at \in Nat
      /\ nodes' \subseteq Node /\ j \in 1 .. Len(stack)
  <2>1. ParserInv /\ b \in 0 .. Len(stack) /\ Len(stack) \in Nat /\ at \in Nat
        /\ nodes \subseteq Node /\ nodes' = nodes \cup completed /\ completed \subseteq Node
    BY ErrorFacts DEF Spanned, ParserInv
  <2> QED BY <2>1
<1>2. PICK q \in Nat : InfixFrame(j, q)
  BY <1>1 DEF OperandsInv, InfixFrames
<1>3. Operand(f, q) /\ AboveIn(stack, pc, value, at, j, q)
  BY <1>2 DEF InfixFrame
<1>4. Operand(f, q)'
  BY <1>1, <1>3, OperandKept
<1>5. ASSUME Operand(f, k)' PROVE Operand(f, k)
  <2>1. k = q
    BY <1>1, <1>4, <1>5, OperandUnique DEF Operand
  <2> QED BY <1>3, <2>1
<1>6. ASSUME Operand(f, k) PROVE k \in 1 .. at /\ k < at
  <2>1. f.from < k /\ k < at /\ f.from \in Nat
    BY <1>6 DEF Operand, Frame
  <2> QED BY <1>1, <2>1
<1>7. Operand(f, k) => text'[k] = text[k]
  BY <1>6, Behind
<1> QED BY <1>5, <1>6, <1>7

\* The token that stands for a function that stays.
LEMMA FrameHeadKept ==
  ASSUME ErrorInv, SpanInv, OperandsInv, TextStep, HeadsKnown,
         NEW b, NEW completed, Spanned(b, completed),
         NEW j \in 1 .. b, NEW f \in Frame, f = stack[j], f.fn \in Bodied, NEW p \in Nat
  PROVE  /\ HeadOfFrame(f, p)' => HeadOfFrame(f, p)
         /\ HeadOfFrame(f, p) => p \in 1 .. at /\ text'[p] = text[p]
<1>1. CASE f.fn = "Binary"
  <2>1. f.fn \in Infixes
    BY <1>1 DEF Infixes
  <2> QED BY <1>1, <2>1, OperandBefore DEF HeadOfFrame
<1>2. CASE f.fn # "Binary"
  <2>1. f.fn \in Prefixed
    BY <1>2, BodiedAre DEF Prefixed
  <2>2. b \in 0 .. Len(stack) /\ Len(stack) \in Nat
    BY ErrorFacts DEF Spanned
  <2>3. f.from \in 1 .. at
    BY <2>1, <2>2 DEF HeadsKnown
  <2>4. text'[f.from] = text[f.from]
    BY <2>3, Behind
  <2> QED BY <1>2, <2>3, <2>4 DEF HeadOfFrame
<1> QED BY <1>1, <1>2

\* What a function has parsed becomes a node: its operator was already there.
LEMMA SplitDone ==
  ASSUME ErrorInv, SpanInv, OperandsInv, TextStep, NEW b, NEW completed, Spanned(b, completed),
         NEW j \in 1 .. Len(stack), NEW f \in Frame, f = stack[j], f.fn \in Infixes,
         NEW n \in completed, n.first = f.from, n.last = at' - 1,
         \A m \in completed : m = n \/ (j < Len(stack) /\ Marked(Top) /\ m.first = Top.from),
         NEW q \in Nat, SplitAt(n, q)'
  PROVE  Operand(f, q) /\ q \in 1 .. at /\ q < at /\ text'[q] = text[q]
<1>1. ParserInv /\ Len(stack) \in Nat /\ at \in Nat /\ nodes' \subseteq Node /\ n \in Node
      /\ Top = stack[Len(stack)]
  <2>1. ParserInv /\ Len(stack) \in Nat /\ at \in Nat /\ Top = stack[Len(stack)]
        /\ nodes \subseteq Node /\ nodes' = nodes \cup completed /\ completed \subseteq Node
    BY ErrorFacts DEF Spanned, ParserInv
  <2> QED BY <2>1
<1>2. PICK k \in Nat : InfixFrame(j, k)
  BY DEF OperandsInv, InfixFrames
<1>3. Operand(f, k) /\ AboveIn(stack, pc, value, at, j, k)
  BY <1>2 DEF InfixFrame
<1>4. \A m \in completed : m = n \/ k <= m.first
  <2>1. ASSUME j < Len(stack), Marked(Top) PROVE k <= Top.from
    <3>1. Len(stack) \in j + 1 .. Len(stack)
      BY <1>1, <2>1
    <3> QED BY <1>1, <1>3, <2>1, <3>1 DEF AboveIn
  <2> QED BY <2>1
<1>5. SplitAt(n, k)'
  BY <1>1, <1>3, <1>4, OperandDone
<1>6. q = k
  BY <1>1, <1>5, SplitUnique DEF SplitAt
<1>7. k \in 1 .. at /\ k < at
  <2>1. f.from < k /\ k < at /\ f.from \in Nat
    BY <1>3 DEF Operand, Frame
  <2> QED BY <1>1, <2>1
<1>8. text'[k] = text[k]
  BY <1>7, Behind
<1> QED BY <1>3, <1>6, <1>7, <1>8

\* The token that stands for the function stands for its node.
LEMMA HeadDone ==
  ASSUME ErrorInv, SpanInv, OperandsInv, TextStep, HeadsKnown,
         NEW b, NEW completed, Spanned(b, completed),
         NEW j \in 1 .. Len(stack), NEW f \in Frame, f = stack[j], f.fn \in Bodied,
         NEW n \in completed, n.first = f.from, n.last = at' - 1,
         n.kind = "R_BINARY_EXPRESSION" <=> f.fn = "Binary",
         f.fn = "Binary" => \A m \in completed : m = n,
         NEW p \in Nat, HeadOf(n, p)'
  PROVE  HeadOfFrame(f, p) /\ text'[p] = text[p]
<1>1. CASE f.fn = "Binary"
  <2>1. f.fn \in Infixes /\ SplitAt(n, p)'
    BY <1>1 DEF Infixes, HeadOf
  <2>2. Operand(f, p) /\ text'[p] = text[p]
    BY <1>1, <2>1, SplitDone
  <2> QED BY <1>1, <2>2 DEF HeadOfFrame
<1>2. CASE f.fn # "Binary"
  <2>1. f.fn \in Prefixed
    BY <1>2, BodiedAre DEF Prefixed
  <2>2. f.from \in 1 .. at
    BY <2>1 DEF HeadsKnown
  <2>3. text'[f.from] = text[f.from]
    BY <2>2, Behind
  <2>4. p = n.first
    BY <1>2 DEF HeadOf
  <2> QED BY <1>2, <2>3, <2>4 DEF HeadOfFrame
<1> QED BY <1>1, <1>2

-----------------------------------------------------------------------------
(* What a step leaves alone keeps its precedence *)

LEMMA OperatorFramesKept ==
  ASSUME ErrorInv, SpanInv, OperandsInv, TextStep, HeadsKnown, OperatorFrames,
         NEW b, NEW completed, Spanned(b, completed),
         \A i \in b + 1 .. Len(stack'), k \in Nat :
           stack'[i].fn \in Infixes /\ i > 1 /\ Operand(stack[i], k)' =>
             Loosest(k)' /\ LeftPower(text'[k].kind) >= stack'[i - 1].bp
  PROVE  OperatorFrames'
<1>1. /\ ParserInv
      /\ b \in 0 .. Len(stack) /\ b \in Nat /\ Len(stack) \in Nat /\ Len(stack') \in Nat
      /\ b <= Len(stack') /\ \A i \in 1 .. b : stack'[i] = stack[i]
      /\ stack \in Seq(Frame)
  BY SpannedFacts DEF ErrorInv
<1>2. ASSUME NEW i \in 2 .. Len(stack'), NEW k \in Nat, stack'[i].fn \in Infixes,
             Operand(stack[i], k)'
      PROVE  Loosest(k)' /\ LeftPower(text'[k].kind) >= stack'[i - 1].bp
  <2>1. CASE i \in b + 1 .. Len(stack')
    <3>1. i > 1
      OBVIOUS
    <3> QED BY <1>2, <2>1, <3>1
  <2>2. CASE i \in 1 .. b
    <3>1. /\ i \in 1 .. Len(stack) /\ i \in 2 .. Len(stack) /\ i - 1 \in 1 .. b
      BY <1>1, <2>2
    <3>2. PICK f \in Frame : f = stack[i] /\ f = stack'[i] /\ stack'[i - 1] = stack[i - 1]
      BY <1>1, <2>2, <3>1
    <3>3. Operand(f, k)' /\ f.fn \in Infixes
      BY <1>2, <3>2 DEF Operand
    <3>4. Operand(f, k) /\ k \in 1 .. at /\ k < at /\ text'[k] = text[k]
      BY <2>2, <3>2, <3>3, OperandBefore
    <3>5. Loosest(k) /\ LeftPower(text[k].kind) >= stack[i - 1].bp
      BY <3>1, <3>2, <3>3, <3>4 DEF OperatorFrames
    <3>6. Loosest(k)'
      BY <3>4, <3>5, LoosestKept
    <3> QED BY <3>2, <3>4, <3>5, <3>6
  <2> QED BY <1>1, <2>1, <2>2
<1> QED BY <1>2 DEF OperatorFrames

LEMMA OperatorNodesKept ==
  ASSUME ErrorInv, SpanInv, TextStep, HeadsKnown, OperatorNodes,
         NEW b, NEW completed, Spanned(b, completed),
         \A n \in completed, k \in Nat : n.kind \in InfixKinds /\ SplitAt(n, k)' => Loosest(k)'
  PROVE  OperatorNodes'
<1>1. ParserInv /\ nodes' = nodes \cup completed
  BY DEF ErrorInv, Spanned
<1>2. ASSUME NEW n \in nodes', NEW k \in Nat, n.kind \in InfixKinds, SplitAt(n, k)'
      PROVE  Loosest(k)'
  <2>1. CASE n \in completed
    BY <1>2, <2>1
  <2>2. CASE n \in nodes
    <3>1. SplitAt(n, k)
      BY <1>1, <1>2, <2>2, SplitKept
    <3>2. k \in 1 .. at /\ k < at
      BY <1>1, <2>2, <3>1, SplitBehind
    <3>3. Loosest(k)
      BY <1>2, <2>2, <3>1 DEF OperatorNodes
    <3> QED BY <3>2, <3>3, LoosestKept
  <2> QED BY <1>1, <2>1, <2>2
<1> QED BY <1>2 DEF OperatorNodes

LEMMA PartFramesKept ==
  ASSUME ErrorInv, SpanInv, OperandsInv, TextStep, HeadsKnown, PartFrames,
         NEW b, NEW completed, Spanned(b, completed),
         \A i \in 1 .. Len(stack') - 1, p \in Nat :
           i >= b /\ stack'[i].fn \in Bodied /\ stack'[i + 1].fn = "Expression"
             /\ HeadOfFrame(stack[i], p)' =>
             stack'[i + 1].bp = Power(stack'[i].fn, text'[p].kind)
  PROVE  PartFrames'
<1>1. /\ b \in 0 .. Len(stack) /\ b \in Nat /\ Len(stack) \in Nat /\ Len(stack') \in Nat
      /\ b <= Len(stack') /\ \A i \in 1 .. b : stack'[i] = stack[i]
      /\ stack \in Seq(Frame)
  BY SpannedFacts DEF ErrorInv
<1>2. ASSUME NEW i \in 1 .. Len(stack') - 1, NEW p \in Nat, stack'[i].fn \in Bodied,
             stack'[i + 1].fn = "Expression", HeadOfFrame(stack[i], p)'
      PROVE  stack'[i + 1].bp = Power(stack'[i].fn, text'[p].kind)
  <2>1. CASE i >= b
    BY <1>2, <2>1
  <2>2. CASE i < b
    <3>1. /\ i \in 1 .. b /\ i \in 1 .. Len(stack) - 1 /\ i + 1 \in 1 .. b
          /\ i \in 1 .. Len(stack)
      BY <1>1, <2>2
    <3>2. PICK f \in Frame : f = stack[i] /\ f = stack'[i] /\ stack'[i + 1] = stack[i + 1]
      BY <1>1, <3>1
    <3>3. HeadOfFrame(f, p)' /\ f.fn \in Bodied
      BY <1>2, <3>2 DEF HeadOfFrame, Operand
    <3>4. HeadOfFrame(f, p) /\ text'[p] = text[p]
      BY <3>1, <3>2, <3>3, FrameHeadKept
    <3>5. stack[i + 1].bp = Power(f.fn, text[p].kind)
      BY <1>2, <3>1, <3>2, <3>3, <3>4 DEF PartFrames
    <3> QED BY <3>2, <3>4, <3>5
  <2> QED BY <1>1, <2>1, <2>2
<1> QED BY <1>2 DEF PartFrames

LEMMA ExpressionsKept ==
  ASSUME ErrorInv, SpanInv, TextStep, Expressions,
         NEW b, NEW completed, Spanned(b, completed), StartsKept(b),
         \A i \in 1 .. Len(stack'), n \in nodes' :
           /\ i > b \/ n \in completed
           /\ stack'[i].fn = "Expression" /\ n.kind \in InfixKinds
           /\ n.first = Start(stack', pc', value', at', i)
           => Binds(n, stack[i].bp)'
  PROVE  Expressions'
<1>1. /\ ParserInv
      /\ b \in 0 .. Len(stack) /\ b \in Nat /\ Len(stack) \in Nat /\ Len(stack') \in Nat
      /\ b <= Len(stack') /\ \A i \in 1 .. b : stack'[i] = stack[i]
      /\ nodes' = nodes \cup completed
  BY SpannedFacts DEF ErrorInv
<1>2. ASSUME NEW i \in 1 .. Len(stack'), NEW n \in nodes', stack'[i].fn = "Expression",
             n.kind \in InfixKinds, n.first = Start(stack', pc', value', at', i)
      PROVE  Binds(n, stack[i].bp)'
  <2>1. CASE i > b \/ n \in completed
    BY <1>2, <2>1
  <2>2. CASE i <= b /\ n \in nodes
    <3>1. i \in 1 .. b /\ i \in 1 .. Len(stack)
      BY <1>1, <2>2
    <3>2. stack'[i] = stack[i] /\ (i < b \/ stack[b].fn = "Expression")
      BY <1>1, <1>2, <3>1
    <3>3. Start(stack', pc', value', at', i) = Start(stack, pc, value, at, i)
      BY <1>1, <3>1, <3>2, StartKept
    <3>4. PICK w : w = stack[i].bp /\ w = stack'[i].bp
      BY <3>2
    <3>5. Binds(n, w)
      BY <1>2, <2>2, <3>1, <3>2, <3>3, <3>4 DEF Expressions
    <3>6. Binds(n, w)'
      BY <2>2, <3>5, BindsKept
    <3> QED BY <3>4, <3>6 DEF Binds
  <2> QED BY <1>1, <2>1, <2>2
<1> QED BY <1>2 DEF Expressions

LEMMA PartNodesKept ==
  ASSUME ErrorInv, SpanInv, TextStep, HeadsKnown, PartNodes,
         NEW b, NEW completed, Spanned(b, completed),
         \A n \in completed : n.kind \in InfixKinds => n.first <= n.last,
         \A m \in completed, p \in Nat :
           m.kind \in LastParts /\ HeadOf(m, p)' =>
             \E e \in nodes' :
               /\ EndsWith(m, e)'
               /\ \A n \in nodes' :
                    n.kind \in InfixKinds /\ n.first = e.first /\ n.last <= m.last =>
                      Binds(n, Power(m.kind, text[p].kind))'
  PROVE  PartNodes'
<1>1. /\ nodes' = nodes \cup completed /\ completed \subseteq Node /\ nodes \subseteq Node
      /\ \A x \in completed : ApartIn(nodes, x.first)
      /\ \A x \in nodes : x.first <= x.last + 1
  BY DEF Spanned, Cut, ErrorInv, ParserInv, SpanInv, NodesEnd
<1>2. ASSUME NEW m \in nodes', NEW p \in Nat, m.kind \in LastParts, HeadOf(m, p)'
      PROVE  \E e \in nodes' :
               /\ EndsWith(m, e)'
               /\ \A n \in nodes' :
                    n.kind \in InfixKinds /\ n.first = e.first /\ n.last <= m.last =>
                      Binds(n, Power(m.kind, text[p].kind))'
  <2>1. CASE m \in completed
    BY <1>2, <2>1
  <2>2. CASE m \in nodes
    <3>1. HeadOf(m, p) /\ text'[p] = text[p]
      BY <1>2, <2>2, HeadKept
    <3>2. PICK w : w = Power(m.kind, text[p].kind) /\ w = Power(m.kind, text'[p].kind)
      BY <3>1
    <3>3. PICK e \in nodes :
            /\ EndsWith(m, e)
            /\ \A n \in nodes : n.kind \in InfixKinds /\ n.first = e.first /\ n.last <= m.last =>
                 Binds(n, w)
      BY <1>2, <2>2, <3>1, <3>2 DEF PartNodes
    <3>4. /\ m \in Node /\ e \in Node /\ e.last = m.last /\ m.first < e.first
          /\ e.first <= e.last + 1
      BY <1>1, <2>2, <3>3 DEF EndsWith
    <3>5. /\ m.first \in Nat /\ m.last \in Nat /\ e.first \in Nat /\ e.last \in Nat
      BY <3>4 DEF Node
    <3>6. ASSUME NEW x \in completed, x.first <= m.last PROVE x.first <= m.first
      BY <1>1, <2>2, <3>6 DEF ApartIn
    <3>7. ASSUME NEW x \in nodes', x.last = m.last, m.first < x.first
          PROVE  e.first <= x.first
      <4>1. CASE x \in nodes
        BY <3>3, <3>7, <4>1 DEF EndsWith
      <4>2. CASE x \in completed
        <5>1. x.first \in Nat
          BY <1>1, <4>2 DEF Node
        <5>2. ~(x.first <= m.last)
          BY <3>5, <3>6, <3>7, <4>2, <5>1
        <5> QED BY <3>4, <3>5, <5>1, <5>2
      <4> QED BY <1>1, <4>1, <4>2
    <3>8. ASSUME NEW n \in nodes', n.kind \in InfixKinds, n.first = e.first, n.last <= m.last
          PROVE  Binds(n, w)'
      <4>1. CASE n \in nodes
        <5>1. Binds(n, w)
          BY <3>3, <3>8, <4>1
        <5> QED BY <4>1, <5>1, BindsKept
      <4>2. CASE n \in completed
        <5>1. n.first \in Nat /\ n.last \in Nat /\ n.first <= n.last
          BY <1>1, <3>8, <4>2 DEF Node
        <5>2. n.first <= m.first
          BY <3>5, <3>6, <3>8, <4>2, <5>1
        <5> QED BY <3>4, <3>5, <3>8, <5>1, <5>2
      <4> QED BY <1>1, <4>1, <4>2
    <3>9. EndsWith(m, e)' /\ e \in nodes'
      BY <1>1, <3>4, <3>7 DEF EndsWith
    <3>10. \A n \in nodes' :
             n.kind \in InfixKinds /\ n.first = e.first /\ n.last <= m.last =>
               Binds(n, Power(m.kind, text[p].kind))'
      BY <3>2, <3>8 DEF Binds
    <3> QED BY <3>9, <3>10
  <2> QED BY <1>1, <2>1, <2>2
<1> QED BY <1>2 DEF PartNodes

LEMMA HeadsKnownKept ==
  ASSUME ErrorInv, TextStep, HeadsKnown, NEW b, NEW completed, Spanned(b, completed),
         \A i \in b + 1 .. Len(stack') : stack'[i].fn \in Prefixed =>
           /\ stack'[i].from \in 1 .. at' /\ stack'[i].from < at'
           /\ text'[stack'[i].from].kind \in Openers(stack'[i].fn),
         \A n \in completed : n.kind \in LastParts \ {"R_BINARY_EXPRESSION"} =>
           n.first \in 1 .. at' /\ text'[n.first].kind \in Openers(n.kind)
  PROVE  HeadsKnown'
<1>1. /\ b \in 0 .. Len(stack) /\ b \in Nat /\ Len(stack) \in Nat /\ Len(stack') \in Nat
      /\ b <= Len(stack') /\ \A i \in 1 .. b : stack'[i] = stack[i]
      /\ nodes' = nodes \cup completed /\ at \in Nat /\ at' \in Nat /\ at <= at'
  BY SpannedFacts DEF ErrorInv
<1>2. 1 .. at \subseteq 1 .. at' /\ \A x \in 1 .. at : x < at => x < at'
  BY <1>1
<1>3. ASSUME NEW i \in 1 .. Len(stack'), stack'[i].fn \in Prefixed
      PROVE  /\ stack'[i].from \in 1 .. at' /\ stack'[i].from < at'
             /\ text'[stack'[i].from].kind \in Openers(stack'[i].fn)
  <2>1. CASE i \in b + 1 .. Len(stack')
    BY <1>3, <2>1
  <2>2. CASE i \in 1 .. b
    <3>1. i \in 1 .. Len(stack) /\ stack'[i] = stack[i]
      BY <1>1, <2>2
    <3>2. /\ stack[i].from \in 1 .. at /\ stack[i].from < at
          /\ text[stack[i].from].kind \in Openers(stack[i].fn)
      BY <1>3, <3>1 DEF HeadsKnown
    <3>3. text'[stack[i].from] = text[stack[i].from]
      BY <3>2, Behind
    <3> QED BY <1>2, <3>1, <3>2, <3>3
  <2> QED BY <1>1, <2>1, <2>2
<1>4. ASSUME NEW n \in nodes', n.kind \in LastParts \ {"R_BINARY_EXPRESSION"}
      PROVE  n.first \in 1 .. at' /\ text'[n.first].kind \in Openers(n.kind)
  <2>1. CASE n \in completed
    BY <1>4, <2>1
  <2>2. CASE n \in nodes
    <3>1. n.first \in 1 .. at /\ text[n.first].kind \in Openers(n.kind)
      BY <1>4, <2>2 DEF HeadsKnown
    <3>2. text'[n.first] = text[n.first]
      BY <3>1, Behind
    <3> QED BY <1>2, <3>1, <3>2
  <2> QED BY <1>1, <2>1, <2>2
<1> QED BY <1>3, <1>4 DEF HeadsKnown

LEMMA ElseStartsKept ==
  ASSUME ParserInv, SpanInv, ElseStarts, NEW b, NEW completed, Spanned(b, completed),
         \A i \in b + 1 .. Len(stack'), n \in nodes' :
           stack'[i].fn = "Else" /\ n.kind \in InfixKinds => n.first # stack'[i].from
  PROVE  ElseStarts'
<1>1. /\ b \in 0 .. Len(stack) /\ b \in Nat /\ Len(stack) \in Nat /\ Len(stack') \in Nat
      /\ b <= Len(stack') /\ \A i \in 1 .. b : stack'[i] = stack[i]
      /\ nodes' = nodes \cup completed /\ completed \subseteq Node /\ stack \in Seq(Frame)
  BY SpannedFacts
<1>2. ASSUME NEW i \in 1 .. Len(stack'), NEW n \in nodes', stack'[i].fn = "Else",
             n.kind \in InfixKinds
      PROVE  n.first # stack'[i].from
  <2>1. CASE i \in b + 1 .. Len(stack')
    BY <1>2, <2>1
  <2>2. CASE i \in 1 .. b
    <3>1. i \in 1 .. Len(stack) /\ stack'[i] = stack[i] /\ i \in 0 .. b
      BY <1>1, <2>2
    <3>2. CASE n \in nodes
      BY <1>2, <3>1, <3>2 DEF ElseStarts
    <3>3. CASE n \in completed
      <4>1. PICK f \in Frame : f = stack[i] /\ Marked(f) /\ f.fn \notin Loose
        BY <1>1, <1>2, <3>1 DEF Marked, Loose
      <4>2. PICK K \in Nat : K = f.from + 1 /\ K = Edge(f) /\ f.from \in Nat
        BY <4>1 DEF Edge, Frame
      <4>3. AboveIn(stack, pc, value, at, i, K)
        BY <3>1, <4>1, <4>2 DEF SpanInv, FramesOrdered
      <4>4. K <= n.first
        BY <3>1, <3>3, <4>3, StaysAbove
      <4>5. n.first \in Nat
        BY <1>1, <3>3 DEF Node
      <4> QED BY <3>1, <4>1, <4>2, <4>4, <4>5
    <3> QED BY <1>1, <3>2, <3>3
  <2> QED BY <1>1, <2>1, <2>2
<1> QED BY <1>2 DEF ElseStarts

PrecedenceInv ==
  /\ OperatorFrames
  /\ OperatorNodes
  /\ PartFrames
  /\ PartParsed
  /\ Expressions
  /\ PartNodes
  /\ RightEdge
  /\ SelectorAwaited
  /\ HeadsKnown
  /\ ElseStarts

\* Every operator binds as tightly as an operand of power 0 asks.
LEMMA InfixBinds ==
  ASSUME nodes \subseteq Node, InfixNodes, NEW n \in nodes, n.kind \in InfixKinds
  PROVE  Binds(n, 0) /\ n.first <= n.last /\ n.first \in Nat /\ n.last \in Nat
<1>1. PICK fn \in Infixes, k \in Nat : InfixNode(n, fn, k)
  BY DEF InfixNodes
<1>2. SplitAt(n, k) /\ text[k].kind \in InfixOperators
  BY <1>1 DEF InfixNode, Ruled
<1>3. n \in Node /\ n.first \in Nat /\ n.last \in Nat
  BY DEF Node
<1>4. ASSUME NEW q \in Nat, SplitAt(n, q) PROVE q = k
  BY <1>2, <1>3, <1>4, SplitUnique DEF SplitAt
<1>5. LeftPower(text[k].kind) \in Nat
  BY <1>2, LeftPowers
<1>6. \A x \in Nat : x >= 0
  OBVIOUS
<1>7. Binds(n, 0)
  BY <1>4, <1>5, <1>6 DEF Binds
<1> QED BY <1>2, <1>3, <1>7 DEF SplitAt

\* The kinds of the nodes a plain step completes.
LEMMA PlainKindsAre ==
  ASSUME NEW b, NEW completed, PlainStep(b, completed), NEW n \in nodes', Spanned(b, completed),
         n.kind \in InfixKinds \cup LastParts
  PROVE  n \in nodes /\ n \notin completed
BY DEF PlainStep, SpecialKinds, Spanned

\* What is ahead is the same.
LEMMA ContinuesSame ==
  ASSUME UNCHANGED <<sourceVars, significance>>, NEW w
  PROVE  Continues(w)' <=> Continues(w)
BY DEF sourceVars, Continues, NewlinesSignificant, HasPrecedingSeparator, GapNewlines

LEMMA PlainPrecedence ==
  ASSUME ErrorInv, SpanInv, OperandsInv, TextStep, PrecedenceInv,
         NEW b, NEW completed, PlainStep(b, completed)
  PROVE  PrecedenceInv'
<1>1. Spanned(b, completed) /\ StartsKept(b)
  BY DEF PlainStep, StartsKept
<1>2. /\ b \in 0 .. Len(stack) /\ b \in Nat /\ Len(stack) \in Nat /\ Len(stack') \in Nat
      /\ b <= Len(stack') /\ \A i \in 1 .. b : stack'[i] = stack[i]
      /\ stack' \in Seq(Frame) /\ nodes' = nodes \cup completed /\ nodes \subseteq Node
      /\ at \in Nat /\ at' \in Nat /\ at <= at' /\ at >= 1 /\ ParserInv
      /\ OperatorFrames /\ OperatorNodes /\ PartFrames /\ PartParsed /\ Expressions
      /\ PartNodes /\ RightEdge /\ SelectorAwaited /\ HeadsKnown /\ ElseStarts /\ InfixNodes
  BY <1>1, SpannedFacts DEF PrecedenceInv, ErrorInv, OperandsInv
<1>3. \A i \in b + 1 .. Len(stack') :
        PlainFrame(stack'[i], stack'[i - 1], i = Len(stack'), pc', at, at', text)
  BY DEF PlainStep
<1>4. \A n \in nodes' : n.kind \in InfixKinds \cup LastParts => n \in nodes /\ n \notin completed
  BY <1>1, PlainKindsAre
<1>5. \A n \in completed : n.kind \notin InfixKinds \cup LastParts
  BY <1>2, <1>4
<1>6. \A n \in nodes : n.kind \in InfixKinds => n.first < at /\ n.first \in Nat
  <2>1. ASSUME NEW n \in nodes, n.kind \in InfixKinds PROVE n.first < at /\ n.first \in Nat
    <3>1. n.first <= n.last /\ n.first \in Nat /\ n.last \in Nat
      BY <1>2, <2>1, InfixBinds
    <3>2. n.last < at
      BY DEF SpanInv, NodesEnd
    <3> QED BY <1>2, <3>1, <3>2
  <2> QED BY <2>1
<1>7. OperatorFrames'
  <2>1. \A i \in b + 1 .. Len(stack') : stack'[i].fn \notin Infixes
    BY <1>3 DEF PlainFrame
  <2> QED BY <1>1, <1>2, <2>1, OperatorFramesKept
<1>8. OperatorNodes'
  BY <1>1, <1>2, <1>5, OperatorNodesKept
<1>9. \A i \in b + 1 .. Len(stack') : stack'[i].fn \in Prefixed =>
        /\ stack'[i].from = at /\ at \in 1 .. at' /\ at < at' /\ text'[at] = text[at]
        /\ text[at].kind \in Openers(stack'[i].fn)
  <2>1. ASSUME NEW i \in b + 1 .. Len(stack'), stack'[i].fn \in Prefixed
        PROVE  /\ stack'[i].from = at /\ at \in 1 .. at' /\ at < at' /\ text'[at] = text[at]
               /\ text[at].kind \in Openers(stack'[i].fn)
    <3>1. PlainFrame(stack'[i], stack'[i - 1], i = Len(stack'), pc', at, at', text)
      BY <1>3
    <3>2. stack'[i].from = at /\ text[at].kind \in Openers(stack'[i].fn)
      BY <2>1, <3>1 DEF PlainFrame
    <3>3. Marked(stack'[i]) /\ stack'[i].fn \notin Loose
      BY <2>1 DEF Prefixed, Marked, Loose
    <3>4. Edge(stack'[i]) = at + 1 /\ Edge(stack'[i]) <= at'
      BY <1>1, <3>2, <3>3 DEF Edge, Spanned
    <3>5. at \in 1 .. at
      BY <1>2
    <3>6. text'[at] = text[at]
      BY <3>5, Behind
    <3>7. at \in 1 .. at' /\ at < at'
      BY <1>2, <3>4
    <3> QED BY <3>2, <3>6, <3>7
  <2> QED BY <2>1
<1>10. PartFrames'
  <2>1. ASSUME NEW i \in 1 .. Len(stack') - 1, NEW p \in Nat, i >= b, stack'[i].fn \in Bodied,
               stack'[i + 1].fn = "Expression", HeadOfFrame(stack[i], p)'
        PROVE  stack'[i + 1].bp = Power(stack'[i].fn, text'[p].kind)
    <3>1. i + 1 \in b + 1 .. Len(stack') /\ (i + 1) - 1 = i
      BY <1>2, <2>1
    <3>2. PlainFrame(stack'[i + 1], stack'[i], i + 1 = Len(stack'), pc', at, at', text)
      BY <1>3, <3>1
    <3>3. /\ stack'[i].fn # "Binary"
          /\ stack'[i + 1].bp = Power(stack'[i].fn, text[stack'[i].from].kind)
      BY <2>1, <3>2 DEF PlainFrame
    <3>4. p = stack'[i].from
      BY <2>1, <3>3 DEF HeadOfFrame
    <3>5. stack'[i].fn \in Prefixed
      BY <2>1, <3>3, BodiedAre DEF Prefixed
    <3>6. text'[p] = text[p]
      <4>1. CASE i = b
        <5>1. i \in 1 .. Len(stack) /\ stack'[i] = stack[i]
          BY <1>2, <2>1, <4>1
        <5>2. p \in 1 .. at
          BY <1>2, <3>4, <3>5, <5>1 DEF HeadsKnown
        <5> QED BY <5>2, Behind
      <4>2. CASE i > b
        <5>1. i \in b + 1 .. Len(stack')
          BY <1>2, <2>1, <4>2
        <5> QED BY <1>9, <3>4, <3>5, <5>1
      <4> QED BY <1>2, <2>1, <4>1, <4>2
    <3> QED BY <3>3, <3>4, <3>6
  <2> QED BY <1>1, <1>2, <2>1, PartFramesKept
<1>11. PartParsed'
  BY DEF PlainStep, PartParsed
<1>12. Expressions'
  <2>1. ASSUME NEW i \in 1 .. Len(stack'), NEW n \in nodes', i > b \/ n \in completed,
               stack'[i].fn = "Expression", n.kind \in InfixKinds,
               n.first = Start(stack', pc', value', at', i)
        PROVE  Binds(n, stack[i].bp)'
    <3>1. n \in nodes /\ i \in b + 1 .. Len(stack')
      BY <1>2, <1>4, <2>1
    <3>2. PlainFrame(stack'[i], stack'[i - 1], i = Len(stack'), pc', at, at', text)
      BY <1>3, <3>1
    <3>3. i = Len(stack') /\ (pc' = "Prefix" \/ stack'[i].bp = 0)
      BY <2>1, <3>2 DEF PlainFrame
    <3>4. pc' # "Prefix"
      <4>1. SUFFICES ASSUME pc' = "Prefix" PROVE FALSE
        OBVIOUS
      <4>2. n.first = at'
        BY <2>1, <3>3, <4>1 DEF Start
      <4> QED BY <1>2, <1>6, <2>1, <3>1, <4>2
    <3>5. Binds(n, 0)'
      <4>1. Binds(n, 0)
        BY <1>2, <2>1, <3>1, InfixBinds
      <4> QED BY <1>1, <3>1, <4>1, BindsKept
    <3> QED BY <3>3, <3>4, <3>5
  <2> QED BY <1>1, <1>2, <2>1, ExpressionsKept
<1>13. PartNodes'
  BY <1>1, <1>2, <1>5, PartNodesKept
<1>14. RightEdge'
  <2>1. ASSUME pc' = "Return", NEW n \in nodes', NEW p \in Nat, n.kind \in LastParts,
               n.last = at' - 1, HeadOf(n, p)'
        PROVE  ~Continues(Power(n.kind, text[p].kind))'
    <3>1. n \in nodes
      BY <1>4, <2>1
    <3>2. n.last < at /\ n.last \in Nat
      BY <1>2, <3>1 DEF SpanInv, NodesEnd, Node
    <3>3. PlainValue(completed)
      BY <2>1 DEF PlainStep
    <3>4. ~(at < at')
      <4>1. PICK end \in Nat : end = at'
        BY <1>2
      <4>2. n.last = end - 1
        BY <2>1, <4>1
      <4>3. \A x, y, z \in Nat : x < y /\ x = z - 1 => ~(y < z)
        OBVIOUS
      <4> QED BY <1>2, <3>2, <4>1, <4>2, <4>3
    <3>5. /\ pc = "Return" /\ Top.fn \notin {"Root", "Braces"}
          /\ UNCHANGED <<sourceVars, significance>>
      BY <3>3, <3>4 DEF PlainValue
    <3>6. HeadOf(n, p)
      BY <1>1, <1>2, <2>1, <3>1, HeadKept
    <3>7. at' = at /\ text' = text
      BY <3>5 DEF sourceVars
    <3>8. ~Continues(Power(n.kind, text[p].kind))
      BY <1>2, <2>1, <3>1, <3>5, <3>6, <3>7 DEF RightEdge
    <3>9. PICK w : w = Power(n.kind, text[p].kind) /\ w = Power(n.kind, text'[p].kind)
      BY <3>7
    <3>10. ~Continues(w)'
      BY <3>5, <3>8, <3>9, ContinuesSame
    <3> QED BY <3>9, <3>10 DEF Continues
  <2> QED BY <2>1 DEF RightEdge
<1>15. SelectorAwaited'
  BY DEF PlainStep, SelectorAwaited
<1>16. HeadsKnown'
  <2>1. \A i \in b + 1 .. Len(stack') : stack'[i].fn \in Prefixed =>
          /\ stack'[i].from \in 1 .. at' /\ stack'[i].from < at'
          /\ text'[stack'[i].from].kind \in Openers(stack'[i].fn)
    BY <1>9
  <2> QED BY <1>1, <1>2, <1>5, <2>1, HeadsKnownKept
<1>17. ElseStarts'
  <2>1. ASSUME NEW i \in b + 1 .. Len(stack'), NEW n \in nodes', stack'[i].fn = "Else",
               n.kind \in InfixKinds
        PROVE  n.first # stack'[i].from
    <3>1. stack'[i].from = at
      BY <1>9, <2>1 DEF Prefixed
    <3> QED BY <1>2, <1>4, <1>6, <2>1, <3>1
  <2> QED BY <1>1, <1>2, <2>1, ElseStartsKept
<1> QED BY <1>7, <1>8, <1>10, <1>11, <1>12, <1>13, <1>14, <1>15, <1>16, <1>17 DEF PrecedenceInv

\* What the token that stands for a node's last part is.
LEMMA HeadKind ==
  ASSUME nodes \subseteq Node, InfixNodes, HeadsKnown, NEW n \in nodes, n.kind \in LastParts,
         NEW p \in Nat, HeadOf(n, p)
  PROVE  /\ IF n.kind = "R_BINARY_EXPRESSION" THEN text[p].kind \in BinaryOperators
            ELSE p = n.first /\ text[p].kind \in Openers(n.kind)
         /\ Power(n.kind, text[p].kind) \in Nat
<1>1. \A w \in 0 .. MaxPower : w \in Nat
  OBVIOUS
<1>2. CASE n.kind = "R_BINARY_EXPRESSION"
  <2>1. PICK fn \in Infixes, k \in Nat : InfixNode(n, fn, k)
    BY <1>2 DEF InfixNodes, InfixKinds
  <2>2. fn = "Binary" /\ SplitAt(n, k) /\ text[k].kind \in BinaryOperators
    BY <1>2, <2>1 DEF InfixNode, Infixes, KindsOf, OperatorsOf
  <2>3. SplitAt(n, p)
    BY <1>2 DEF HeadOf
  <2>4. p = k
    BY <2>2, <2>3, SplitUnique DEF SplitAt
  <2> QED BY <1>1, <1>2, <2>2, <2>4, PowerTypes DEF Power
<1>3. CASE n.kind # "R_BINARY_EXPRESSION"
  <2>1. p = n.first /\ text[p].kind \in Openers(n.kind)
    BY <1>3 DEF HeadOf, HeadsKnown
  <2>2. CASE n.kind = "R_UNARY_EXPRESSION"
    <3>1. text[p].kind \in UnaryOperators
      BY <2>1, <2>2 DEF Openers
    <3>2. Power(n.kind, text[p].kind) = UnaryPower[text[p].kind]
      BY <2>2 DEF Power
    <3> QED BY <1>1, <1>3, <2>1, <3>1, <3>2, PowerTypes
  <2>3. CASE n.kind # "R_UNARY_EXPRESSION"
    <3>1. n.kind \notin {"Unary", "Binary"}
      BY LastPartFunctions DEF LastParts, LastPartNode
    <3>2. Power(n.kind, text[p].kind) \in {IF_BODY_BP, FUNCTION_BODY_BP}
      BY <1>3, <2>3, <3>1 DEF Power
    <3> QED BY <1>1, <1>3, <2>1, <3>2, PowerTypes
  <2> QED BY <2>2, <2>3
<1> QED BY <1>2, <1>3

\* An operator that is taken is bound more loosely than what ends before it.
LEMMA TakenLoosest ==
  ASSUME ErrorInv, SpanInv, OperandsInv, TextStep, RightEdge, HeadsKnown,
         Spanned(Len(stack), {}),
         pc = "Return", Top.fn \notin {"Root", "Braces"}, NEW w, Continues(w),
         NEW k \in 1 .. at, k = at, text[k].kind = current
  PROVE  Loosest(k)' /\ text'[k] = text[k]
<1>1. /\ nodes' = nodes /\ nodes \subseteq Node /\ InfixNodes
  <2>1. ParserInv
    BY DEF ErrorInv
  <2>2. nodes' = nodes \cup {} /\ nodes \subseteq Node
    BY <2>1, SpannedFacts
  <2> QED BY <2>2 DEF OperandsInv
<1>2. text'[k] = text[k]
  BY Behind
<1>3. LeftPower(current) \in Nat
  BY LeftPowers DEF Continues
<1>4. ASSUME NEW n \in nodes', NEW p \in Nat, n.kind \in LastParts, n.last = k - 1, HeadOf(n, p)'
      PROVE  LeftPower(text'[k].kind) < Power(n.kind, text'[p].kind)
  <2>1. n \in nodes /\ HeadOf(n, p) /\ text'[p] = text[p]
    BY <1>1, <1>4, HeadKept
  <2>2. PICK v : v = Power(n.kind, text[p].kind)
    OBVIOUS
  <2>3. v \in Nat
    BY <1>1, <1>4, <2>1, <2>2, HeadKind
  <2>4. ~Continues(v)
    BY <1>4, <2>1, <2>2 DEF RightEdge
  <2>5. ~(LeftPower(current) >= v)
    BY <2>4 DEF Continues
  <2>6. LeftPower(current) < v
    BY <1>3, <2>3, <2>5
  <2> QED BY <1>2, <2>1, <2>2, <2>6
<1> QED BY <1>2, <1>4 DEF Loosest

LEMMA OperatorPrecedence ==
  ASSUME BalanceInv, NotBlessed, diagnostics = <<>>, SpanInv, TextStep, OperandsInv,
         PrecedenceInv, OperatorStep
  PROVE  PrecedenceInv'
<1>1. /\ ErrorInv /\ ParserInv /\ Len(stack) \in Nat /\ at \in Nat /\ at >= 1 /\ at' \in Nat
      /\ Spanned(Len(stack), {}) /\ at < at' /\ Top = stack[Len(stack)] /\ Len(stack) > 0
      /\ pc = "Return" /\ Top.fn = "Expression" /\ Continues(Top.bp)
      /\ nodes' = nodes /\ nodes \subseteq Node /\ Len(stack') \in Nat
      /\ \A i \in 1 .. Len(stack) : stack'[i] = stack[i]
  <2>1. /\ ErrorInv /\ ParserInv /\ Len(stack) \in Nat /\ at \in Nat /\ at >= 1
        /\ Top = stack[Len(stack)] /\ Len(stack) > 0
    BY ErrorFacts DEF BalanceInv
  <2>2. /\ Spanned(Len(stack), {}) /\ at < at'
        /\ pc = "Return" /\ Top.fn = "Expression" /\ Continues(Top.bp)
    BY DEF OperatorStep
  <2>3. /\ nodes' = nodes \cup {} /\ nodes \subseteq Node /\ Len(stack') \in Nat
        /\ at' \in Nat /\ \A i \in 1 .. Len(stack) : stack'[i] = stack[i]
    BY <2>1, <2>2, SpannedFacts
  <2> QED BY <2>1, <2>2, <2>3
<1>2. /\ OperatorFrames /\ OperatorNodes /\ PartFrames /\ PartParsed /\ Expressions
      /\ PartNodes /\ RightEdge /\ SelectorAwaited /\ HeadsKnown /\ ElseStarts /\ InfixNodes
  BY DEF PrecedenceInv, OperandsInv
<1>3. PICK f : f = stack'[Len(stack) + 1]
  OBVIOUS
<1>4. /\ Len(stack) < Len(stack') /\ f.fn \in Infixes /\ f.from = value.first
      /\ StartsKept(Len(stack)) /\ pc' # "Return"
      /\ \A i \in Len(stack) + 1 .. Len(stack') :
           stack'[i].fn \in Infixes \cup {"Expression", "Arguments"}
  BY <1>1, <1>3, OperatorStarts DEF OperatorStep
<1>5. /\ f.fn \in Selecting => pc' = "Selector" /\ Len(stack') = Len(stack) + 1
      /\ f.fn \notin Selecting => Len(stack') = Len(stack) + 2
      /\ f.fn = "Binary" => /\ stack'[Len(stack) + 2].fn = "Expression" /\ pc' = "Prefix"
                            /\ stack'[Len(stack) + 2].bp = BinaryPower[current][2]
      /\ f.fn = "Call" => stack'[Len(stack) + 2].fn = "Arguments"
  BY <1>3 DEF OperatorStep, Selecting
<1>6. \A i \in Len(stack) + 1 .. Len(stack') :
        i = Len(stack) + 1 \/ (i = Len(stack) + 2 /\ f.fn \in {"Binary", "Call"})
  <2>1. f.fn \notin Selecting => f.fn \in {"Binary", "Call"}
    BY <1>4 DEF Selecting, Infixes
  <2> QED BY <1>1, <1>5, <2>1
<1>7. PICK k \in 1 .. at : k = at
  BY <1>1
<1>8. text[k].kind = current
  <2>1. CurrentIsLexed /\ current # "R_BRACK"
    BY <1>1 DEF ErrorInv, Continues, InfixOperators, BinaryOperators, BinaryPower, CallOpeners,
                Extractors, Namespacers
  <2>2. current \notin Closers
    BY <1>1 DEF Continues, InfixOperators, BinaryOperators, BinaryPower, CallOpeners,
                Extractors, Namespacers, Closers
  <2>3. Quiet
    BY <1>1 DEF Quiet
  <2> QED BY <1>7, <2>2, <2>3, CurrentGap
<1>9. Loosest(k)' /\ text'[k].kind = current
  BY <1>1, <1>2, <1>7, <1>8, TakenLoosest
<1>10. \A x \in Nat : Operand(f, x)' => x = k
  <2>1. value \in nodes /\ value.last = k - 1
    BY <1>1, <1>7 DEF SpanInv, ValueEnds
  <2>2. \A m \in nodes : m.last < k
    BY <1>7 DEF SpanInv, NodesEnd
  <2>3. k \in Nat
    BY <1>1, <1>7
  <2> QED BY <1>1, <1>4, <2>1, <2>2, <2>3, OperandUnique DEF Operand
<1>11. OperatorFrames'
  <2>1. ASSUME NEW i \in Len(stack) + 1 .. Len(stack'), NEW x \in Nat, stack'[i].fn \in Infixes,
               i > 1, Operand(stack[i], x)'
        PROVE  Loosest(x)' /\ LeftPower(text'[x].kind) >= stack'[i - 1].bp
    <3>1. i = Len(stack) + 1
      BY <1>5, <1>6, <2>1 DEF Infixes
    <3>2. Operand(f, x)'
      BY <1>3, <2>1, <3>1 DEF Operand
    <3>3. x = k
      BY <1>10, <3>2
    <3>4. stack'[i - 1] = Top
      BY <1>1, <3>1
    <3>5. LeftPower(current) >= Top.bp
      BY <1>1 DEF Continues
    <3> QED BY <1>9, <3>3, <3>4, <3>5
  <2> QED BY <1>1, <1>2, <2>1, OperatorFramesKept
<1>12. OperatorNodes'
  BY <1>1, <1>2, OperatorNodesKept
<1>13. PartFrames'
  <2>1. ASSUME NEW i \in 1 .. Len(stack') - 1, NEW p \in Nat, i >= Len(stack),
               stack'[i].fn \in Bodied, stack'[i + 1].fn = "Expression", HeadOfFrame(stack[i], p)'
        PROVE  stack'[i + 1].bp = Power(stack'[i].fn, text'[p].kind)
    <3>1. i = Len(stack) \/ i = Len(stack) + 1
      BY <1>1, <1>5, <2>1
    <3>2. i # Len(stack)
      BY <1>1, <2>1, BodiedAre
    <3>3. stack'[i] = f /\ f.fn = "Binary"
      BY <1>3, <1>4, <2>1, <3>1, <3>2, BodiedAre DEF Infixes
    <3>4. Operand(f, p)'
      BY <2>1, <3>3 DEF HeadOfFrame, Operand
    <3>5. p = k
      BY <1>10, <3>4
    <3>6. i + 1 = Len(stack) + 2
      BY <1>1, <3>1, <3>2
    <3> QED BY <1>5, <1>9, <3>3, <3>5, <3>6 DEF Power
  <2> QED BY <1>1, <1>2, <2>1, PartFramesKept
<1>14. PartParsed' /\ RightEdge'
  BY <1>4 DEF PartParsed, RightEdge
<1>15. Expressions'
  <2>1. ASSUME NEW i \in 1 .. Len(stack'), NEW n \in nodes', i > Len(stack) \/ n \in {},
               stack'[i].fn = "Expression", n.kind \in InfixKinds,
               n.first = Start(stack', pc', value', at', i)
        PROVE  FALSE
    <3>1. i \in Len(stack) + 1 .. Len(stack')
      BY <1>1, <2>1
    <3>2. i # Len(stack) + 1
      BY <1>3, <1>4, <2>1 DEF Infixes
    <3>3. i = Len(stack) + 2 /\ f.fn = "Binary"
      BY <1>5, <1>6, <2>1, <3>1, <3>2
    <3>4. n.first = at'
      <4>1. i = Len(stack') /\ pc' = "Prefix"
        BY <1>5, <3>3 DEF Selecting
      <4> QED BY <2>1, <4>1 DEF Start
    <3>5. n \in nodes /\ n.first <= n.last /\ n.first \in Nat /\ n.last \in Nat
      BY <1>1, <1>2, <2>1, InfixBinds
    <3>6. n.last < at
      BY <3>5 DEF SpanInv, NodesEnd
    <3> QED BY <1>1, <3>4, <3>5, <3>6
  <2> QED BY <1>1, <1>2, <1>4, <2>1, ExpressionsKept
<1>16. PartNodes'
  BY <1>1, <1>2, PartNodesKept
<1>17. SelectorAwaited'
  <2>1. ASSUME NEW n \in nodes PROVE n.last < at' - 1
    <3>1. n.last < at /\ n.last \in Nat
      BY <1>1 DEF SpanInv, NodesEnd, Node
    <3>2. \A x, y, z \in Nat : x < y /\ y < z => x < z - 1
      OBVIOUS
    <3> QED BY <1>1, <3>1, <3>2
  <2> QED BY <1>1, <2>1 DEF SelectorAwaited
<1>18. \A i \in Len(stack) + 1 .. Len(stack') : stack'[i].fn \notin Prefixed
  BY <1>4 DEF Infixes, Prefixed
<1>19. HeadsKnown'
  BY <1>1, <1>2, <1>18, HeadsKnownKept
<1>20. ElseStarts'
  <2>1. \A i \in Len(stack) + 1 .. Len(stack') : stack'[i].fn # "Else"
    BY <1>18 DEF Prefixed
  <2> QED BY <1>1, <1>2, <2>1, ElseStartsKept
<1> QED BY <1>11, <1>12, <1>13, <1>14, <1>15, <1>16, <1>17, <1>19, <1>20 DEF PrecedenceInv

\* The selector behind an operator has no operator of its own.
LEMMA SelectorPrecedence ==
  ASSUME ErrorInv, SpanInv, OperandsInv, TextStep, PrecedenceInv,
         NEW completed, SelectorStep(completed)
  PROVE  PrecedenceInv'
<1>1. /\ ParserInv /\ Len(stack) \in Nat /\ Len(stack) > 0 /\ Top = stack[Len(stack)]
      /\ Top \in Frame
  BY ErrorFacts
<1>2. /\ Spanned(Len(stack), completed) /\ at < at' /\ Top.fn \in Selecting
      /\ \A n \in completed : n.kind \notin InfixKinds \cup LastParts
      /\ pc' \in {"String", "Return"}
      /\ \A i \in Len(stack) + 1 .. Len(stack') : stack'[i].fn = "String"
      /\ pc' = "Return" => Len(stack') = Len(stack)
  BY DEF SelectorStep, SpecialKinds
<1>3. /\ nodes' = nodes \cup completed /\ nodes \subseteq Node /\ Len(stack') \in Nat
      /\ at \in Nat /\ at' \in Nat /\ \A i \in 1 .. Len(stack) : stack'[i] = stack[i]
  BY <1>1, <1>2, SpannedFacts
<1>4. StartsKept(Len(stack))
  BY <1>1, <1>2 DEF StartsKept, Selecting
<1>5. /\ OperatorFrames /\ OperatorNodes /\ PartFrames /\ PartParsed /\ Expressions
      /\ PartNodes /\ RightEdge /\ SelectorAwaited /\ HeadsKnown /\ ElseStarts
  BY DEF PrecedenceInv
<1>6. OperatorFrames'
  <2>1. \A i \in Len(stack) + 1 .. Len(stack') : stack'[i].fn \notin Infixes
    BY <1>2 DEF Infixes
  <2> QED BY <1>2, <1>5, <2>1, OperatorFramesKept
<1>7. OperatorNodes'
  BY <1>2, <1>5, OperatorNodesKept
<1>8. PartFrames'
  <2>1. \A i \in 1 .. Len(stack') - 1 : i >= Len(stack) => stack'[i + 1].fn # "Expression"
    <3>1. ASSUME NEW i \in 1 .. Len(stack') - 1, i >= Len(stack)
          PROVE  stack'[i + 1].fn # "Expression"
      <4>1. i + 1 \in Len(stack) + 1 .. Len(stack')
        BY <1>1, <1>3, <3>1
      <4> QED BY <1>2, <4>1
    <3> QED BY <3>1
  <2> QED BY <1>2, <1>5, <2>1, PartFramesKept
<1>9. PartParsed'
  <2>1. pc' = "Return" => Top' = Top
    BY <1>1, <1>2, <1>3 DEF Top
  <2>2. Top.fn \notin Bodied
    BY <1>2, BodiedAre DEF Selecting
  <2> QED BY <2>1, <2>2 DEF PartParsed
<1>10. Expressions'
  <2>1. ASSUME NEW i \in 1 .. Len(stack'), NEW n \in nodes', i > Len(stack) \/ n \in completed,
               stack'[i].fn = "Expression", n.kind \in InfixKinds
        PROVE  FALSE
    <3>1. i \in Len(stack) + 1 .. Len(stack')
      BY <1>1, <1>2, <1>3, <2>1
    <3> QED BY <1>2, <2>1, <3>1
  <2> QED BY <1>2, <1>4, <1>5, <2>1, ExpressionsKept
<1>11. PartNodes'
  BY <1>2, <1>5, PartNodesKept
<1>12. RightEdge'
  <2>1. ASSUME NEW n \in nodes', n.kind \in LastParts, n.last = at' - 1 PROVE FALSE
    <3>1. n \in nodes
      BY <1>2, <1>3, <2>1
    <3>2. n.last < at /\ n.last \in Nat
      BY <1>3, <3>1 DEF SpanInv, NodesEnd, Node
    <3>3. \A x, y, z \in Nat : x < y /\ y < z => x # z - 1
      OBVIOUS
    <3> QED BY <1>2, <1>3, <2>1, <3>2, <3>3
  <2> QED BY <2>1 DEF RightEdge
<1>13. SelectorAwaited'
  BY <1>2 DEF SelectorAwaited
<1>14. \A i \in Len(stack) + 1 .. Len(stack') : stack'[i].fn \notin Prefixed \cup {"Else"}
  BY <1>2 DEF Prefixed
<1>15. HeadsKnown'
  BY <1>2, <1>5, <1>14, HeadsKnownKept
<1>16. ElseStarts'
  BY <1>1, <1>2, <1>5, <1>14, ElseStartsKept
<1> QED BY <1>6, <1>7, <1>8, <1>9, <1>10, <1>11, <1>12, <1>13, <1>15, <1>16 DEF PrecedenceInv

\* What a node has in common with the function that completes it.
LEMMA KindOfFunction ==
  ASSUME NEW fn \in DOMAIN LastPartNode \cup {"If"}, NEW kind,
         kind = IF fn = "If" THEN "R_IF_STATEMENT" ELSE LastPartNode[fn]
  PROVE  /\ fn \notin Loose /\ fn \notin {"Root", "Expression", "Call", "Else"}
         /\ kind \in InfixKinds => fn \in Infixes
         /\ kind \in LastParts <=> fn \in Bodied
         /\ kind = "R_BINARY_EXPRESSION" <=> fn = "Binary"
         /\ kind \in LastParts /\ kind # "R_BINARY_EXPRESSION" =>
              fn \in Prefixed /\ Openers(kind) = Openers(fn)
         /\ kind \in LastParts => \A t : Power(kind, t) = Power(fn, t)
<1>1. fn \in {"FunctionDefinition", "For", "While", "Repeat", "Unary", "Binary",
              "Extract", "Namespace", "If"}
  BY LastPartFunctions
<1>2. kind = CASE fn = "FunctionDefinition" -> "R_FUNCTION_DEFINITION"
               [] fn = "For"                -> "R_FOR_STATEMENT"
               [] fn = "While"              -> "R_WHILE_STATEMENT"
               [] fn = "Repeat"             -> "R_REPEAT_STATEMENT"
               [] fn = "Unary"              -> "R_UNARY_EXPRESSION"
               [] fn = "Binary"             -> "R_BINARY_EXPRESSION"
               [] fn = "Extract"            -> "R_EXTRACT_EXPRESSION"
               [] fn = "Namespace"          -> "R_NAMESPACE_EXPRESSION"
               [] fn = "If"                 -> "R_IF_STATEMENT"
  BY <1>1 DEF LastPartNode
<1>3. LastParts = {"R_FUNCTION_DEFINITION", "R_FOR_STATEMENT", "R_WHILE_STATEMENT",
                   "R_REPEAT_STATEMENT", "R_UNARY_EXPRESSION", "R_BINARY_EXPRESSION",
                   "R_IF_STATEMENT", "R_ELSE_CLAUSE"}
  BY LastPartFunctions DEF LastParts, LastPartNode
<1>4. /\ fn \notin Loose /\ fn \notin {"Root", "Expression", "Call", "Else"}
      /\ kind \in InfixKinds => fn \in Infixes
  BY <1>1, <1>2 DEF Loose, InfixKinds, Infixes
<1>5. /\ kind \in LastParts <=> fn \in Bodied
      /\ kind = "R_BINARY_EXPRESSION" <=> fn = "Binary"
  BY <1>1, <1>2, <1>3, BodiedAre
<1>6. /\ kind \in LastParts /\ kind # "R_BINARY_EXPRESSION" =>
           fn \in Prefixed /\ Openers(kind) = Openers(fn)
      /\ kind \in LastParts => \A t : Power(kind, t) = Power(fn, t)
  <2>1. CASE fn \in {"Extract", "Namespace"}
    BY <1>2, <1>3, <2>1
  <2>2. CASE fn \in {"FunctionDefinition", "For"}
    BY <1>2, <2>2 DEF Prefixed, Openers, Power
  <2>3. CASE fn \in {"While", "Repeat"}
    BY <1>2, <2>3 DEF Prefixed, Openers, Power
  <2>4. CASE fn \in {"Unary", "Binary"}
    BY <1>2, <2>4 DEF Prefixed, Openers, Power
  <2>5. CASE fn = "If"
    BY <1>2, <2>5 DEF Prefixed, Openers, Power
  <2> QED BY <1>1, <2>1, <2>2, <2>3, <2>4, <2>5
<1> QED BY <1>4, <1>5, <1>6

\* What an expression that is not the innermost of its kind starts with.
LEMMA ExpressionBefore ==
  ASSUME ParserInv, SpanInv, NEW l \in 1 .. Len(stack), Marked(stack[l]),
         NEW j \in 1 .. Len(stack), stack[j].fn = "Expression", j + 1 < l
  PROVE  stack[j + 1].from < stack[l].from
<1>1. /\ Len(stack) \in Nat /\ Chain(stack) /\ stack \in Seq(Frame)
  BY InvFacts
<1>2. PICK i \in 2 .. Len(stack) : i = j + 1 /\ i - 1 = j /\ i < l /\ i + 1 \in 2 .. Len(stack)
  BY <1>1
<1>3. PICK f \in Frame, g \in Frame : f = stack[i] /\ g = stack[i + 1]
  BY <1>1, <1>2
<1>4. f.fn \in Functions /\ g.fn \in Functions /\ f.from \in Nat
  BY DEF Frame
<1>5. "Expression" \in Callers[f.fn] /\ f.fn \in Callers[g.fn]
  <2>1. (i + 1) - 1 = i
    BY <1>2
  <2>2. stack[i - 1].fn \in Callers[stack[i].fn] /\ stack[(i + 1) - 1].fn \in Callers[stack[i + 1].fn]
    BY <1>1, <1>2 DEF Chain
  <2> QED BY <1>2, <1>3, <2>1, <2>2
<1>6. f.fn \notin Loose /\ f.fn # "Expression"
  <2>1. \A fn \in Functions : "String" \notin Callers[fn]
    BY FunctionsAre, CallersAre, CallersOfExpression DEF Callers
  <2>2. f.fn # "String"
    BY <1>4, <1>5, <2>1
  <2>3. \A fn \in {"Root", "ExpressionList", "Statement", "Argument", "ArgumentName",
                   "Parameter", "Expression"} : "Expression" \notin Callers[fn]
    BY FunctionsAre, CallersAre, CallersOfExpression DEF Callers
  <2> QED BY <1>5, <2>2, <2>3 DEF Loose
<1>7. Marked(stack[i]) /\ Edge(stack[i]) = f.from + 1
  BY <1>3, <1>6 DEF Marked, Edge
<1>8. i \in 1 .. Len(stack) /\ l \in i + 1 .. Len(stack)
  BY <1>1, <1>2
<1>9. f.from + 1 <= stack[l].from
  <2>1. AboveIn(stack, pc, value, at, i, f.from + 1)
    BY <1>7, <1>8 DEF SpanInv, FramesOrdered
  <2> QED BY <1>8, <2>1 DEF AboveIn
<1>10. stack[l].from \in Nat
  BY FromBehind
<1> QED BY <1>2, <1>3, <1>4, <1>9, <1>10

\* A node that begins where the function on top does, and ends with the value,
\* has the value for its last part.
LEMMA EndsWithValue ==
  ASSUME ParserInv, SpanInv, pc = "Return", Top.fn \in Bodied,
         NEW tree, nodes \subseteq tree, tree \subseteq Node,
         NEW m \in Node, m.first = Top.from, m.last = at - 1,
         \A x \in tree : x \in nodes \/ x.first <= m.first
  PROVE  /\ value \in tree /\ value.last = m.last /\ m.first < value.first
         /\ \A x \in tree : x.last = m.last /\ m.first < x.first => value.first <= x.first
         /\ \A x \in tree : x.first = value.first => x \in nodes
         /\ m.first \in 1 .. at \/ m.first = 0
         /\ m.first <= m.last
<1>1. /\ Len(stack) \in Nat /\ Len(stack) > 0 /\ Top = stack[Len(stack)] /\ at \in Nat
      /\ at >= 1 /\ nodes \subseteq Node
  BY InvFacts DEF ParserInv, Top
<1>2. Top.fn \notin Loose /\ Marked(Top) /\ Top.fn \notin {"Root", "Braces"}
  BY BodiedAre DEF Loose, Marked
<1>3. /\ value \in nodes /\ value.last = at - 1 /\ ApartIn(nodes, value.first)
      /\ value.first < at
  BY <1>2 DEF SpanInv, ValueEnds
<1>4. m.first \in Nat /\ m.last \in Nat /\ value.first \in Nat
  BY <1>1, <1>3 DEF Node
<1>5. m.first < value.first
  <2>1. Len(stack) \in 1 .. Len(stack) /\ Edge(stack[Len(stack)]) = m.first + 1
    BY <1>1, <1>2 DEF Edge
  <2>2. AboveIn(stack, pc, value, at, Len(stack), m.first + 1)
    BY <1>1, <1>2, <2>1 DEF SpanInv, FramesOrdered
  <2> QED BY <1>4, <2>2 DEF AboveIn
<1>6. value.first <= m.last
  BY <1>1, <1>3, <1>4
<1>7. ASSUME NEW x \in tree, x.last = m.last, m.first < x.first
      PROVE  value.first <= x.first
  <2>1. x.first \in Nat
    BY DEF Node
  <2>2. x \in nodes
    BY <1>4, <1>7, <2>1
  <2> QED BY <1>3, <1>6, <1>7, <2>2 DEF ApartIn
<1>8. \A x \in tree : x.first = value.first => x \in nodes
  BY <1>4, <1>5
<1>9. m.first \in 0 .. at
  BY <1>1, <1>3, <1>4, <1>5
<1>10. m.first <= m.last
  BY <1>4, <1>5, <1>6
<1> QED BY <1>1, <1>3, <1>5, <1>7, <1>8, <1>9, <1>10

\* The function on top ends with what has been parsed, and becomes a node.
LEMMA NodePrecedence ==
  ASSUME ErrorInv, SpanInv, OperandsInv, TextStep, PrecedenceInv,
         Top.fn \in DOMAIN LastPartNode \cup {"If"},
         pc = IF Top.fn \in Bodied THEN "Return" ELSE pc, pc \in {"Return", "Selector"},
         UNCHANGED <<sourceVars, significance>>,
         NEW n, NodeStep(n),
         n.kind = IF Top.fn = "If" THEN "R_IF_STATEMENT" ELSE LastPartNode[Top.fn]
  PROVE  PrecedenceInv'
<1>1. /\ ParserInv /\ Len(stack) \in Nat /\ Len(stack) > 0 /\ Top = stack[Len(stack)]
      /\ Top \in Frame /\ at \in Nat /\ at >= 1 /\ nodes \subseteq Node
  BY ErrorFacts DEF ParserInv
<1>2. /\ Top.fn \notin Loose /\ Top.fn \notin {"Root", "Expression", "Call", "Else"}
      /\ n.kind \in InfixKinds => Top.fn \in Infixes
      /\ n.kind \in LastParts <=> Top.fn \in Bodied
      /\ n.kind = "R_BINARY_EXPRESSION" <=> Top.fn = "Binary"
      /\ n.kind \in LastParts /\ n.kind # "R_BINARY_EXPRESSION" =>
           Top.fn \in Prefixed /\ Openers(n.kind) = Openers(Top.fn)
      /\ n.kind \in LastParts => \A t : Power(n.kind, t) = Power(Top.fn, t)
  BY KindOfFunction
<1>3. /\ StartsKept(Len(stack) - 1) /\ Len(stack') = Len(stack) - 1
      /\ Len(stack) - 1 \in 1 .. Len(stack) /\ stack'[Len(stack) - 1] = Under
      /\ Top' = Under /\ Under.fn \in Callers[Top.fn]
  BY <1>1, <1>2, NodeStepStarts
<1>4. Under.fn = "Expression"
  BY <1>2, <1>3, LastPartFunctions, CallersAre
<1>5. PICK b \in 1 .. Len(stack), l \in 2 .. Len(stack) :
        b = Len(stack) - 1 /\ l = Len(stack) /\ l - 1 = b
  BY <1>1, <1>3
<1>6. PICK f \in Frame, u \in Frame : f = stack[l] /\ f = Top /\ u = stack[b] /\ u = Under
  <2>1. Under = stack[b]
    BY <1>5 DEF Under
  <2>2. Under \in Frame
    BY <1>1, <1>2, UnderFacts
  <2> QED BY <1>1, <1>5, <2>1, <2>2
<1>7. /\ n \in Node /\ n.first = f.from /\ n.last = at - 1 /\ Spanned(b, {n})
      /\ pc' = "Return" /\ value' = n /\ at' = at /\ text' = text
  BY <1>5, <1>6 DEF NodeStep
<1>8. /\ nodes' = nodes \cup {n} /\ Len(stack') = b /\ stack'[b] = u /\ Top' = u
      /\ \A i \in 1 .. b : stack'[i] = stack[i]
  BY <1>1, <1>3, <1>5, <1>6, <1>7, SpannedFacts
<1>9. /\ OperatorFrames /\ OperatorNodes /\ PartFrames /\ PartParsed /\ Expressions
      /\ PartNodes /\ RightEdge /\ SelectorAwaited /\ HeadsKnown /\ ElseStarts
  BY DEF PrecedenceInv
<1>10. n.first \in Nat /\ n.first < at /\ n.first <= n.last /\ n.last \in Nat
  <2>1. n.first \in Nat /\ n.first < at
    BY <1>1, <1>2, <1>5, <1>6, <1>7, FromBehind DEF Marked
  <2> QED BY <1>1, <1>7, <2>1 DEF Node
<1>11. ASSUME NEW q \in Nat, SplitAt(n, q)', n.kind \in InfixKinds
       PROVE  /\ Operand(f, q) /\ q \in 1 .. at /\ q < at /\ text'[q] = text[q]
              /\ Loosest(q) /\ LeftPower(text[q].kind) >= u.bp
  <2>1. Operand(f, q) /\ q \in 1 .. at /\ q < at /\ text'[q] = text[q]
    <3>1. f.fn \in Infixes /\ n.last = at' - 1 /\ l \in 1 .. Len(stack)
      BY <1>2, <1>5, <1>6, <1>7, <1>11
    <3>2. PICK completed : completed = {n}
      OBVIOUS
    <3>3. /\ n \in completed /\ Spanned(b, completed)
          /\ \A m \in completed : m = n \/ (l < Len(stack) /\ Marked(Top) /\ m.first = Top.from)
      BY <1>7, <3>2
    <3>4. f = stack[l] /\ n.first = f.from /\ SplitAt(n, q)'
      BY <1>6, <1>7, <1>11
    <3> QED BY <3>1, <3>3, <3>4, SplitDone
  <2>2. Loosest(q) /\ LeftPower(text[q].kind) >= u.bp
    BY <1>2, <1>5, <1>6, <1>9, <1>11, <2>1 DEF OperatorFrames
  <2> QED BY <2>1, <2>2
<1>12. ASSUME NEW p \in Nat, HeadOf(n, p)', n.kind \in LastParts
       PROVE  /\ text'[p] = text[p] /\ pc = "Return" /\ Top.fn \in Bodied
              /\ ~Continues(Power(n.kind, text[p].kind))
              /\ \A x \in nodes : x.kind \in InfixKinds /\ x.first = value.first =>
                   Binds(x, Power(n.kind, text[p].kind))
  <2>1. f.fn \in Bodied /\ pc = "Return"
    BY <1>2, <1>6, <1>12
  <2>2. HeadOfFrame(f, p) /\ text'[p] = text[p]
    <3>1. n.last = at' - 1 /\ l \in 1 .. Len(stack)
      BY <1>5, <1>7
    <3>2. n.kind = "R_BINARY_EXPRESSION" <=> f.fn = "Binary"
      BY <1>2, <1>6
    <3>3. f.fn = "Binary" => \A m \in {n} : m = n
      OBVIOUS
    <3> QED BY <1>6, <1>7, <1>9, <1>12, <2>1, <3>1, <3>2, <3>3, HeadDone
  <2>3. HeadOfFrame(Top, p)
    BY <1>6, <2>2 DEF HeadOfFrame
  <2>4. Power(n.kind, text[p].kind) = Power(Top.fn, text[p].kind)
    BY <1>2, <1>12
  <2> QED BY <1>6, <1>9, <2>1, <2>2, <2>3, <2>4 DEF PartParsed
<1>13. OperatorFrames'
  <2>1. b + 1 .. Len(stack') = {}
    BY <1>8
  <2> QED BY <1>7, <1>9, <2>1, OperatorFramesKept
<1>14. OperatorNodes'
  <2>1. ASSUME NEW m \in {n}, NEW k \in Nat, m.kind \in InfixKinds, SplitAt(m, k)'
        PROVE  Loosest(k)'
    <3>1. SplitAt(n, k)' /\ n.kind \in InfixKinds
      BY <2>1 DEF SplitAt
    <3>2. k \in 1 .. at /\ k < at /\ Loosest(k)
      BY <1>11, <3>1
    <3> QED BY <1>7, <1>9, <3>2, LoosestKept
  <2> QED BY <1>7, <1>9, <2>1, OperatorNodesKept
<1>15. PartFrames'
  <2>1. \A i \in 1 .. Len(stack') - 1 : ~(i >= b)
    BY <1>8
  <2> QED BY <1>7, <1>9, <2>1, PartFramesKept
<1>16. PartParsed'
  BY <1>4, <1>6, <1>8, BodiedAre DEF PartParsed
<1>17. Expressions'
  <2>1. ASSUME NEW i \in 1 .. Len(stack'), NEW m \in nodes', i > b \/ m \in {n},
               stack'[i].fn = "Expression", m.kind \in InfixKinds,
               m.first = Start(stack', pc', value', at', i)
        PROVE  Binds(m, stack[i].bp)'
    <3>1. m = n /\ i \in 1 .. b /\ i \in 1 .. Len(stack) /\ stack'[i] = stack[i]
      BY <1>1, <1>5, <1>8, <2>1
    <3>2. i = b
      <4>1. SUFFICES ASSUME i < b PROVE FALSE
        BY <3>1
      <4>2. Start(stack', pc', value', at', i) = stack[i + 1].from
        <5>1. i + 1 \in 1 .. b /\ i < Len(stack')
          BY <1>8, <3>1, <4>1
        <5> QED BY <1>8, <5>1 DEF Start
      <4>3. stack[i + 1].from < f.from
        <5>1. i + 1 < l /\ l \in 1 .. Len(stack) /\ Marked(stack[l])
          BY <1>2, <1>5, <1>6, <3>1, <4>1 DEF Marked
        <5> QED BY <1>1, <1>6, <2>1, <3>1, <5>1, ExpressionBefore
      <4> QED BY <1>7, <1>10, <2>1, <3>1, <4>2, <4>3
    <3>3. stack'[i].bp = u.bp
      BY <1>8, <3>2
    <3>4. ASSUME NEW q \in Nat, SplitAt(m, q)'
          PROVE  LeftPower(text'[q].kind) >= u.bp
      <4>1. SplitAt(n, q)' /\ n.kind \in InfixKinds
        BY <2>1, <3>1, <3>4 DEF SplitAt
      <4> QED BY <1>11, <4>1
    <3> QED BY <3>3, <3>4 DEF Binds
  <2>2. StartsKept(b)
    BY <1>3, <1>5
  <2> QED BY <1>7, <1>9, <2>1, <2>2, ExpressionsKept
<1>18. PartNodes'
  <2>1. ASSUME NEW m \in {n}, NEW p \in Nat, m.kind \in LastParts, HeadOf(m, p)'
        PROVE  \E e \in nodes' :
                 /\ EndsWith(m, e)'
                 /\ \A x \in nodes' :
                      x.kind \in InfixKinds /\ x.first = e.first /\ x.last <= m.last =>
                        Binds(x, Power(m.kind, text[p].kind))'
    <3>1. m = n /\ HeadOf(n, p)'
      BY <2>1 DEF HeadOf, SplitAt
    <3>2. PICK w : w = Power(n.kind, text[p].kind)
      OBVIOUS
    <3>3. /\ text'[p] = text[p] /\ pc = "Return" /\ Top.fn \in Bodied
          /\ \A x \in nodes : x.kind \in InfixKinds /\ x.first = value.first => Binds(x, w)
      BY <1>12, <2>1, <3>1, <3>2
    <3>4. /\ value \in nodes' /\ value.last = n.last /\ n.first < value.first
          /\ \A x \in nodes' : x.last = n.last /\ n.first < x.first => value.first <= x.first
          /\ \A x \in nodes' : x.first = value.first => x \in nodes
      <4>1. n.first = Top.from /\ n.last = at - 1 /\ nodes' \subseteq Node /\ nodes \subseteq nodes'
        BY <1>1, <1>6, <1>7, <1>8
      <4>2. \A x \in nodes' : x \in nodes \/ x.first <= n.first
        BY <1>8, <1>10
      <4> QED BY <1>1, <1>7, <3>3, <4>1, <4>2, EndsWithValue
    <3>5. PICK e : e = value
      OBVIOUS
    <3>6. EndsWith(m, e)' /\ e \in nodes'
      BY <3>1, <3>4, <3>5 DEF EndsWith
    <3>7. ASSUME NEW x \in nodes', x.kind \in InfixKinds, x.first = e.first
          PROVE  Binds(x, Power(m.kind, text[p].kind))'
      <4>1. x \in nodes /\ Binds(x, w)
        BY <3>3, <3>4, <3>5, <3>7
      <4>2. Binds(x, w)'
        BY <1>7, <4>1, BindsKept
      <4>3. w = Power(m.kind, text'[p].kind)
        BY <3>1, <3>2, <3>3
      <4> QED BY <4>2, <4>3 DEF Binds
    <3> QED BY <3>6, <3>7
  <2>2. \A m \in {n} : m.kind \in InfixKinds => m.first <= m.last
    BY <1>10
  <2> QED BY <1>7, <1>9, <2>1, <2>2, PartNodesKept
<1>19. RightEdge'
  <2>1. ASSUME NEW m \in nodes', NEW p \in Nat, m.kind \in LastParts, m.last = at' - 1,
               HeadOf(m, p)'
        PROVE  ~Continues(Power(m.kind, text[p].kind))'
    <3>1. PICK w : w = Power(m.kind, text[p].kind) /\ w = Power(m.kind, text'[p].kind)
      BY <1>7
    <3>2. ~Continues(w)
      <4>1. CASE m = n
        <5>1. HeadOf(n, p)' /\ n.kind \in LastParts
          BY <2>1, <4>1 DEF HeadOf, SplitAt
        <5> QED BY <1>12, <3>1, <4>1, <5>1
      <4>2. CASE m \in nodes
        <5>1. HeadOf(m, p)
          BY <1>7, <1>9, <2>1, <4>2, HeadKept
        <5>2. m.last = at - 1
          BY <1>7, <2>1
        <5>3. pc # "Selector"
          <6>1. SUFFICES ASSUME pc = "Selector" PROVE FALSE
            OBVIOUS
          <6>2. m.last < at - 1
            BY <1>9, <4>2, <6>1 DEF SelectorAwaited
          <6> QED BY <1>1, <5>2, <6>2
        <5>4. Top.fn \notin {"Root", "Braces"}
          BY <1>2, LastPartFunctions
        <5> QED BY <1>9, <2>1, <3>1, <4>2, <5>1, <5>2, <5>3, <5>4 DEF RightEdge
      <4> QED BY <1>8, <4>1, <4>2
    <3>3. ~Continues(w)'
      BY <3>2, ContinuesSame
    <3> QED BY <3>1, <3>3 DEF Continues
  <2> QED BY <2>1 DEF RightEdge
<1>20. SelectorAwaited'
  BY <1>7 DEF SelectorAwaited
<1>21. HeadsKnown'
  <2>1. b + 1 .. Len(stack') = {}
    BY <1>8
  <2>2. ASSUME NEW m \in {n}, m.kind \in LastParts \ {"R_BINARY_EXPRESSION"}
        PROVE  m.first \in 1 .. at' /\ text'[m.first].kind \in Openers(m.kind)
    <3>1. f.fn \in Prefixed /\ Openers(m.kind) = Openers(f.fn) /\ m.first = f.from
      BY <1>2, <1>6, <1>7, <2>2
    <3>2. f.from \in 1 .. at /\ text[f.from].kind \in Openers(f.fn)
      <4>1. l \in 1 .. Len(stack) /\ stack[l].fn \in Prefixed /\ f = stack[l]
        BY <1>1, <1>5, <1>6, <3>1
      <4> QED BY <1>9, <4>1 DEF HeadsKnown
    <3> QED BY <1>7, <3>1, <3>2
  <2> QED BY <1>7, <1>9, <2>1, <2>2, HeadsKnownKept
<1>22. ElseStarts'
  <2>1. b + 1 .. Len(stack') = {}
    BY <1>8
  <2> QED BY <1>1, <1>7, <1>9, <2>1, ElseStartsKept
<1> QED BY <1>13, <1>14, <1>15, <1>16, <1>17, <1>18, <1>19, <1>20, <1>21, <1>22 DEF PrecedenceInv

\* An `if' with an `else' ends: the clause is its last part, and the value that
\* of the clause.
LEMMA IfElsePrecedence ==
  ASSUME ErrorInv, SpanInv, OperandsInv, TextStep, PrecedenceInv, IfElseParsed
  PROVE  PrecedenceInv'
<1>1. /\ ParserInv /\ Len(stack) \in Nat /\ Len(stack) > 0 /\ Top = stack[Len(stack)]
      /\ Top \in Frame /\ at \in Nat /\ at >= 1 /\ nodes \subseteq Node
  BY ErrorFacts DEF ParserInv
<1>2. /\ \E m, n : NodesStep(m, n) /\ m.kind = "R_ELSE_CLAUSE" /\ n.kind = "R_IF_STATEMENT"
      /\ pc = "Return" /\ Top.fn = "Else" /\ Under.fn = "If" /\ at' = at
      /\ UNCHANGED <<sourceVars, significance, diagnostics>>
  BY <1>1, TwoNodesSteps
<1>3. PICK m, n : NodesStep(m, n) /\ m.kind = "R_ELSE_CLAUSE" /\ n.kind = "R_IF_STATEMENT"
  BY <1>2
<1>4. /\ StartsKept(Len(stack) - 2) /\ Len(stack') = Len(stack) - 2
      /\ Len(stack) - 2 \in 1 .. Len(stack) /\ Top' = stack[Len(stack) - 2]
      /\ Top'.fn = "Expression"
  BY <1>1, <1>2, <1>3, NodesStepStarts, CallersAre
<1>5. PICK b \in 1 .. Len(stack), j \in 1 .. Len(stack), l \in 1 .. Len(stack) :
        b = Len(stack) - 2 /\ j = Len(stack) - 1 /\ l = Len(stack) /\ j < l /\ l \in j + 1 .. l
  BY <1>1, <1>4
<1>6. PICK f \in Frame, g \in Frame : f = stack[l] /\ f = Top /\ g = stack[j] /\ g = Under
  <2>1. Under = stack[j]
    BY <1>5 DEF Under
  <2>2. Under \in Frame
    BY <1>1, <1>2, UnderFacts
  <2> QED BY <1>1, <1>5, <2>1, <2>2
<1>7. PICK completed : completed = {m, n}
  OBVIOUS
<1>8. /\ m \in Node /\ m.first = f.from /\ m.last = at - 1
      /\ n \in Node /\ n.first = g.from /\ n.last = at - 1
      /\ Spanned(b, completed) /\ pc' = "Return" /\ at' = at /\ text' = text
  BY <1>2, <1>3, <1>5, <1>6, <1>7 DEF NodesStep, sourceVars
<1>9. /\ nodes' = nodes \cup {m, n} /\ Len(stack') = b /\ b + 1 .. Len(stack') = {}
      /\ \A i \in 1 .. Len(stack') - 1 : ~(i >= b)
  <2>1. Len(stack') = b
    BY <1>4, <1>5
  <2> QED BY <1>1, <1>7, <1>8, <2>1, SpannedFacts
<1>10. /\ OperatorFrames /\ OperatorNodes /\ PartFrames /\ PartParsed /\ Expressions
       /\ PartNodes /\ RightEdge /\ SelectorAwaited /\ HeadsKnown /\ ElseStarts
  BY DEF PrecedenceInv
<1>11. \A x \in completed : x.kind \notin InfixKinds
  BY <1>3, <1>7 DEF InfixKinds
<1>12. /\ m.first \in Nat /\ n.first \in Nat /\ m.first < at /\ n.first < m.first
       /\ m.first <= at - 1
  <2>1. m.first \in Nat /\ n.first \in Nat
    BY <1>8 DEF Node
  <2>2. m.first < at
    BY <1>1, <1>2, <1>5, <1>6, <1>8, FromBehind DEF Marked, Loose
  <2>3. Marked(g) /\ Marked(f) /\ Edge(g) = n.first + 1
    BY <1>2, <1>6, <1>8 DEF Marked, Edge, Loose
  <2>4. AboveIn(stack, pc, value, at, j, n.first + 1)
    BY <1>5, <1>6, <2>3 DEF SpanInv, FramesOrdered
  <2>5. l \in j + 1 .. Len(stack)
    BY <1>5
  <2>6. n.first + 1 <= m.first
    BY <1>6, <1>8, <2>3, <2>4, <2>5 DEF AboveIn
  <2> QED BY <1>1, <2>1, <2>2, <2>6
<1>13. \A t : /\ Power(m.kind, t) = IF_BODY_BP /\ Power(n.kind, t) = IF_BODY_BP
              /\ Power(Top.fn, t) = IF_BODY_BP
  BY <1>2, <1>3 DEF Power
<1>14. /\ ~Continues(IF_BODY_BP)
       /\ \A x \in nodes : x.kind \in InfixKinds /\ x.first = value.first => Binds(x, IF_BODY_BP)
  <2>1. PICK p \in Nat : p = m.first /\ HeadOfFrame(Top, p)
    BY <1>2, <1>6, <1>8, <1>12 DEF HeadOfFrame
  <2> QED BY <1>2, <1>10, <1>13, <2>1, BodiedAre DEF PartParsed
<1>15. /\ value \in nodes' /\ value.last = m.last /\ m.first < value.first
       /\ \A x \in nodes' : x.last = m.last /\ m.first < x.first => value.first <= x.first
       /\ \A x \in nodes' : x.first = value.first => x \in nodes
  <2>1. m.first = Top.from /\ nodes' \subseteq Node /\ nodes \subseteq nodes'
    BY <1>1, <1>6, <1>8, <1>9
  <2>2. \A x \in nodes' : x \in nodes \/ x.first <= m.first
    BY <1>9, <1>12
  <2>3. Top.fn \in Bodied
    BY <1>2, BodiedAre
  <2> QED BY <1>1, <1>2, <1>8, <2>1, <2>2, <2>3, EndsWithValue
<1>16. OperatorFrames' /\ OperatorNodes'
  BY <1>8, <1>9, <1>10, <1>11, OperatorFramesKept, OperatorNodesKept
<1>17. PartFrames'
  BY <1>8, <1>9, <1>10, PartFramesKept
<1>18. PartParsed'
  BY <1>4, BodiedAre DEF PartParsed
<1>19. Expressions'
  <2>1. StartsKept(b)
    BY <1>4, <1>5
  <2>2. \A i \in 1 .. Len(stack') : ~(i > b)
    BY <1>9
  <2> QED BY <1>8, <1>10, <1>11, <2>1, <2>2, ExpressionsKept
<1>20. PartNodes'
  <2>1. ASSUME NEW x \in completed, NEW p \in Nat, x.kind \in LastParts, HeadOf(x, p)'
        PROVE  \E e \in nodes' :
                 /\ EndsWith(x, e)'
                 /\ \A y \in nodes' :
                      y.kind \in InfixKinds /\ y.first = e.first /\ y.last <= x.last =>
                        Binds(y, Power(x.kind, text[p].kind))'
    <3>1. CASE x = m
      <4>1. PICK e : e = value
        OBVIOUS
      <4>2. EndsWith(x, e)' /\ e \in nodes'
        BY <1>15, <3>1, <4>1 DEF EndsWith
      <4>3. ASSUME NEW y \in nodes', y.kind \in InfixKinds, y.first = e.first
            PROVE  Binds(y, Power(x.kind, text[p].kind))'
        <5>1. y \in nodes /\ Binds(y, IF_BODY_BP)
          BY <1>14, <1>15, <4>1, <4>3
        <5>2. Binds(y, IF_BODY_BP)'
          BY <1>8, <5>1, BindsKept
        <5>3. Power(x.kind, text'[p].kind) = IF_BODY_BP
          BY <1>13, <3>1
        <5> QED BY <5>2, <5>3 DEF Binds
      <4> QED BY <4>2, <4>3
    <3>2. CASE x = n
      <4>1. ASSUME NEW y \in nodes', y.last = n.last, n.first < y.first
            PROVE  m.first <= y.first
        <5>1. CASE y \in nodes
          <6>1. ApartIn(nodes, f.from)
            BY <1>2, <1>5, <1>6 DEF SpanInv, FramesApart, ApartFrame, Marked
          <6>2. y.last >= m.first
            BY <1>1, <1>8, <1>12, <4>1
          <6> QED BY <1>8, <5>1, <6>1, <6>2 DEF ApartIn
        <5>2. CASE y = n
          BY <1>12, <4>1, <5>2
        <5>3. CASE y = m
          BY <1>12, <5>3
        <5> QED BY <1>9, <5>1, <5>2, <5>3
      <4>2. EndsWith(x, m)' /\ m \in nodes'
        BY <1>8, <1>9, <1>12, <3>2, <4>1 DEF EndsWith
      <4>3. ASSUME NEW y \in nodes', y.kind \in InfixKinds, y.first = m.first PROVE FALSE
        <5>1. y \in nodes
          BY <1>7, <1>9, <1>11, <4>3
        <5>2. stack[l].fn = "Else"
          BY <1>2, <1>6
        <5> QED BY <1>5, <1>6, <1>8, <1>10, <4>3, <5>1, <5>2 DEF ElseStarts
      <4> QED BY <4>2, <4>3
    <3> QED BY <1>7, <2>1, <3>1, <3>2
  <2> QED BY <1>8, <1>10, <1>11, <2>1, PartNodesKept
<1>21. RightEdge'
  <2>1. ASSUME NEW x \in nodes', NEW p \in Nat, x.kind \in LastParts, x.last = at' - 1,
               HeadOf(x, p)'
        PROVE  ~Continues(Power(x.kind, text[p].kind))'
    <3>1. PICK w : w = Power(x.kind, text[p].kind) /\ w = Power(x.kind, text'[p].kind)
      BY <1>8
    <3>2. ~Continues(w)
      <4>1. CASE x \in {m, n}
        BY <1>13, <1>14, <3>1, <4>1
      <4>2. CASE x \in nodes
        <5>1. HeadOf(x, p)
          BY <1>8, <1>10, <2>1, <4>2, HeadKept
        <5>2. x.last = at - 1 /\ Top.fn \notin {"Root", "Braces"}
          BY <1>2, <2>1
        <5> QED BY <1>2, <1>10, <2>1, <3>1, <4>2, <5>1, <5>2 DEF RightEdge
      <4> QED BY <1>9, <4>1, <4>2
    <3>3. ~Continues(w)'
      BY <1>2, <3>2, ContinuesSame
    <3> QED BY <3>1, <3>3 DEF Continues
  <2> QED BY <2>1 DEF RightEdge
<1>22. SelectorAwaited'
  BY <1>8 DEF SelectorAwaited
<1>23. HeadsKnown'
  <2>1. ASSUME NEW x \in completed
        PROVE  x.first \in 1 .. at' /\ text'[x.first].kind \in Openers(x.kind)
    <3>1. \A i \in {j, l} : /\ stack[i].fn \in {"If", "Else"} => stack[i].from \in 1 .. at
                            /\ stack[i].fn \in {"If", "Else"} =>
                                 text[stack[i].from].kind \in Openers(stack[i].fn)
      BY <1>5, <1>10 DEF HeadsKnown, Prefixed
    <3>2. Openers(m.kind) = Openers("Else") /\ Openers(n.kind) = Openers("If")
      BY <1>3 DEF Openers
    <3> QED BY <1>2, <1>6, <1>7, <1>8, <3>1, <3>2
  <2> QED BY <1>8, <1>9, <1>10, <2>1, HeadsKnownKept
<1>24. ElseStarts'
  BY <1>1, <1>8, <1>9, <1>10, ElseStartsKept
<1> QED BY <1>16, <1>17, <1>18, <1>19, <1>20, <1>21, <1>22, <1>23, <1>24 DEF PrecedenceInv

\* A call, or a subset, ends: its operator was taken before.
LEMMA CallPrecedence ==
  ASSUME ErrorInv, SpanInv, OperandsInv, TextStep, PrecedenceInv, CallParsed
  PROVE  PrecedenceInv'
<1>1. /\ ParserInv /\ Len(stack) \in Nat /\ Len(stack) > 0 /\ Top = stack[Len(stack)]
      /\ Top \in Frame /\ at \in Nat /\ at >= 1 /\ nodes \subseteq Node
  BY ErrorFacts DEF ParserInv
<1>2. /\ \E m, n : /\ NodesStep(m, n) /\ m.kind \notin SpecialKinds
                   /\ n.kind \in {"R_CALL", "R_SUBSET", "R_SUBSET2"}
      /\ pc = "CallClose" /\ Top.fn = "Arguments" /\ Under.fn = "Call" /\ at < at'
  BY <1>1, TwoNodesSteps
<1>3. PICK m, n : /\ NodesStep(m, n) /\ m.kind \notin SpecialKinds
                  /\ n.kind \in {"R_CALL", "R_SUBSET", "R_SUBSET2"}
  BY <1>2
<1>4. /\ StartsKept(Len(stack) - 2) /\ Len(stack') = Len(stack) - 2
      /\ Len(stack) - 2 \in 1 .. Len(stack) /\ Top' = stack[Len(stack) - 2]
      /\ Top'.fn = "Expression"
  BY <1>1, <1>2, <1>3, NodesStepStarts, CallersAre
<1>5. PICK b \in 1 .. Len(stack), l \in 2 .. Len(stack) :
        b = Len(stack) - 2 /\ l = Len(stack) - 1 /\ l - 1 = b /\ l < Len(stack)
          /\ l \in 1 .. Len(stack)
  BY <1>1, <1>4
<1>6. PICK f \in Frame : f = stack[l] /\ f = Under
  <2>1. Under = stack[l]
    BY <1>5 DEF Under
  <2>2. Under \in Frame
    BY <1>1, <1>2, UnderFacts
  <2> QED BY <2>1, <2>2
<1>7. PICK completed : completed = {m, n}
  OBVIOUS
<1>8. /\ m.first = Top.from /\ n \in Node /\ n.first = f.from /\ n.last = at' - 1
      /\ Spanned(b, completed) /\ pc' = "Return" /\ n \in completed
  BY <1>3, <1>5, <1>6, <1>7 DEF NodesStep
<1>9. /\ nodes' = nodes \cup {m, n} /\ Len(stack') = b /\ b + 1 .. Len(stack') = {}
      /\ \A i \in 1 .. Len(stack') - 1 : ~(i >= b)
      /\ at' \in Nat /\ \A i \in 1 .. b : stack'[i] = stack[i]
  <2>1. Len(stack') = b
    BY <1>4, <1>5
  <2> QED BY <1>1, <1>7, <1>8, <2>1, SpannedFacts
<1>10. /\ OperatorFrames /\ OperatorNodes /\ PartFrames /\ PartParsed /\ Expressions
       /\ PartNodes /\ RightEdge /\ SelectorAwaited /\ HeadsKnown /\ ElseStarts
  BY DEF PrecedenceInv
<1>11. /\ \A x \in completed : x.kind \in InfixKinds => x = n
       /\ \A x \in completed : x.kind \notin LastParts
  <2>1. n.kind \notin LastParts
    BY <1>3, LastPartFunctions DEF LastParts, LastPartNode
  <2> QED BY <1>3, <1>7, <2>1 DEF SpecialKinds
<1>12. n.first \in Nat /\ n.last \in Nat /\ n.first <= n.last
  <2>1. f.from < at
    BY <1>1, <1>2, <1>5, <1>6, FromBehind DEF Marked, Loose
  <2>2. n.first \in Nat /\ n.last \in Nat
    BY <1>8 DEF Node
  <2>3. \A x, y, z \in Nat : x < y /\ y < z => x <= z - 1
    OBVIOUS
  <2> QED BY <1>1, <1>2, <1>8, <1>9, <2>1, <2>2, <2>3
<1>13. ASSUME NEW q \in Nat, SplitAt(n, q)'
       PROVE  /\ q \in 1 .. at /\ q < at /\ text'[q] = text[q]
              /\ Loosest(q) /\ LeftPower(text[q].kind) >= stack[b].bp
  <2>1. f.fn \in Infixes /\ Marked(Top)
    BY <1>2, <1>6 DEF Infixes, Marked
  <2>2. \A x \in completed : x = n \/ (l < Len(stack) /\ Marked(Top) /\ x.first = Top.from)
    BY <1>5, <1>7, <1>8, <2>1
  <2>3. Operand(f, q) /\ q \in 1 .. at /\ q < at /\ text'[q] = text[q]
    BY <1>5, <1>6, <1>8, <1>13, <2>1, <2>2, SplitDone
  <2> QED BY <1>5, <1>6, <1>10, <2>1, <2>3 DEF OperatorFrames
<1>14. OperatorFrames'
  BY <1>8, <1>9, <1>10, OperatorFramesKept
<1>15. OperatorNodes'
  <2>1. ASSUME NEW x \in completed, NEW k \in Nat, x.kind \in InfixKinds, SplitAt(x, k)'
        PROVE  Loosest(k)'
    <3>1. SplitAt(n, k)'
      BY <1>11, <2>1 DEF SplitAt
    <3>2. k \in 1 .. at /\ k < at /\ Loosest(k)
      BY <1>13, <3>1
    <3> QED BY <1>8, <1>10, <3>2, LoosestKept
  <2> QED BY <1>8, <1>10, <2>1, OperatorNodesKept
<1>16. PartFrames'
  BY <1>8, <1>9, <1>10, PartFramesKept
<1>17. PartParsed'
  BY <1>4, BodiedAre DEF PartParsed
<1>18. Expressions'
  <2>1. ASSUME NEW i \in 1 .. Len(stack'), NEW x \in nodes', i > b \/ x \in completed,
               stack'[i].fn = "Expression", x.kind \in InfixKinds,
               x.first = Start(stack', pc', value', at', i)
        PROVE  Binds(x, stack[i].bp)'
    <3>1. x = n /\ i \in 1 .. b /\ i \in 1 .. Len(stack) /\ stack'[i] = stack[i]
      BY <1>1, <1>5, <1>9, <1>11, <2>1
    <3>2. i = b
      <4>1. SUFFICES ASSUME i < b PROVE FALSE
        BY <3>1
      <4>2. Start(stack', pc', value', at', i) = stack[i + 1].from
        <5>1. i + 1 \in 1 .. b /\ i < Len(stack')
          BY <1>9, <3>1, <4>1
        <5> QED BY <1>9, <5>1 DEF Start
      <4>3. stack[i + 1].from < f.from
        <5>1. i + 1 < l /\ Marked(stack[l])
          BY <1>2, <1>5, <1>6, <3>1, <4>1 DEF Marked
        <5> QED BY <1>1, <1>5, <1>6, <2>1, <3>1, <5>1, ExpressionBefore
      <4> QED BY <1>8, <1>12, <2>1, <3>1, <4>2, <4>3
    <3>3. stack'[i].bp = stack[b].bp
      BY <3>1, <3>2
    <3>4. ASSUME NEW q \in Nat, SplitAt(x, q)'
          PROVE  LeftPower(text'[q].kind) >= stack[b].bp
      <4>1. SplitAt(n, q)'
        BY <3>1, <3>4 DEF SplitAt
      <4> QED BY <1>13, <4>1
    <3> QED BY <3>3, <3>4 DEF Binds
  <2>2. StartsKept(b)
    BY <1>4, <1>5
  <2> QED BY <1>8, <1>10, <2>1, <2>2, ExpressionsKept
<1>19. PartNodes'
  <2>1. \A x \in completed : x.kind \in InfixKinds => x.first <= x.last
    BY <1>11, <1>12
  <2> QED BY <1>8, <1>10, <1>11, <2>1, PartNodesKept
<1>20. RightEdge'
  <2>1. ASSUME NEW x \in nodes', x.kind \in LastParts, x.last = at' - 1 PROVE FALSE
    <3>1. x \in nodes
      BY <1>7, <1>9, <1>11, <2>1
    <3>2. x.last < at /\ x.last \in Nat
      BY <1>1, <3>1 DEF SpanInv, NodesEnd, Node
    <3>3. \A u, v, z \in Nat : u < v /\ v < z => u # z - 1
      OBVIOUS
    <3> QED BY <1>1, <1>2, <1>9, <2>1, <3>2, <3>3
  <2> QED BY <2>1 DEF RightEdge
<1>21. SelectorAwaited'
  BY <1>8 DEF SelectorAwaited
<1>22. HeadsKnown'
  BY <1>8, <1>9, <1>10, <1>11, HeadsKnownKept
<1>23. ElseStarts'
  BY <1>1, <1>8, <1>9, <1>10, ElseStartsKept
<1> QED BY <1>14, <1>15, <1>16, <1>17, <1>18, <1>19, <1>20, <1>21, <1>22, <1>23 DEF PrecedenceInv

\* Steps that take no operator and complete no node with one or with a last part.
LEMMA QuietPrecedence ==
  ASSUME ErrorInv, SpanInv, OperandsInv, TextStep, PrecedenceInv,
         NEW b, NEW completed, Spanned(b, completed), StartsKept(b),
         \A n \in completed : n.kind \notin InfixKinds \cup LastParts,
         \A i \in b + 1 .. Len(stack') :
           /\ stack'[i].fn \notin Infixes \cup Prefixed
           /\ stack'[i].fn = "Expression" => i = Len(stack') /\ pc' = "Prefix",
         \A i \in 1 .. Len(stack') - 1 :
           i >= b => ~(stack'[i].fn \in Bodied /\ stack'[i + 1].fn = "Expression"),
         PartParsed', RightEdge', pc' # "Selector"
  PROVE  PrecedenceInv'
<1>1. /\ b \in 0 .. Len(stack) /\ b \in Nat /\ Len(stack') \in Nat
      /\ nodes' = nodes \cup completed /\ nodes \subseteq Node
      /\ at \in Nat /\ at' \in Nat /\ at <= at' /\ ParserInv
  <2>1. ParserInv
    BY DEF ErrorInv
  <2> QED BY <2>1, SpannedFacts
<1>2. /\ OperatorFrames /\ OperatorNodes /\ PartFrames /\ Expressions
      /\ PartNodes /\ HeadsKnown /\ ElseStarts /\ InfixNodes
  BY DEF PrecedenceInv, OperandsInv
<1>3. OperatorFrames' /\ OperatorNodes'
  BY <1>2, OperatorFramesKept, OperatorNodesKept
<1>4. PartFrames'
  BY <1>2, PartFramesKept
<1>5. Expressions'
  <2>1. ASSUME NEW i \in 1 .. Len(stack'), NEW n \in nodes', i > b \/ n \in completed,
               stack'[i].fn = "Expression", n.kind \in InfixKinds,
               n.first = Start(stack', pc', value', at', i)
        PROVE  FALSE
    <3>1. n \in nodes /\ i \in b + 1 .. Len(stack')
      BY <1>1, <2>1
    <3>2. n.first = at'
      BY <2>1, <3>1 DEF Start
    <3>3. n.first <= n.last /\ n.first \in Nat /\ n.last \in Nat /\ n.last < at
      BY <1>1, <1>2, <2>1, <3>1, InfixBinds DEF SpanInv, NodesEnd
    <3> QED BY <1>1, <3>2, <3>3
  <2> QED BY <1>2, <2>1, ExpressionsKept
<1>6. PartNodes'
  BY <1>2, PartNodesKept
<1>7. HeadsKnown'
  BY <1>2, HeadsKnownKept
<1>8. ElseStarts'
  <2>1. \A i \in b + 1 .. Len(stack') : stack'[i].fn # "Else"
    BY DEF Prefixed
  <2> QED BY <1>1, <1>2, <2>1, ElseStartsKept
<1>9. SelectorAwaited'
  BY DEF SelectorAwaited
<1> QED BY <1>3, <1>4, <1>5, <1>6, <1>7, <1>8, <1>9 DEF PrecedenceInv

LEMMA ParseStatementPrecedence ==
  ASSUME ErrorInv, SpanInv, OperandsInv, TextStep, PrecedenceInv, ParseStatement
  PROVE  PrecedenceInv'
<1>1. /\ ParserInv /\ Len(stack) \in Nat /\ Len(stack) > 0 /\ Top = stack[Len(stack)]
      /\ stack \in Seq(Frame) /\ at \in Nat
  BY ErrorFacts
<1>2. /\ stack' = stack \o <<Call("Statement", at), Expression(0)>> /\ pc' = "Prefix"
      /\ Spanned(Len(stack), {}) /\ Top.fn = "ExpressionList"
  BY <1>1, TopAt, StatementSpans DEF ParseStatement, Continue, Goto
<1>3. /\ Len(stack') = Len(stack) + 2 /\ stack'[Len(stack) + 1] = Call("Statement", at)
      /\ stack'[Len(stack) + 2] = Expression(0) /\ stack'[Len(stack)] = Top
  BY <1>1, <1>2
<1>4. /\ stack'[Len(stack) + 1].fn = "Statement" /\ stack'[Len(stack) + 2].fn = "Expression"
  BY <1>3 DEF Call, Expression
<1>5. \A i \in Len(stack) + 1 .. Len(stack') :
        /\ stack'[i].fn \notin Infixes \cup Prefixed
        /\ stack'[i].fn = "Expression" => i = Len(stack') /\ pc' = "Prefix"
  BY <1>1, <1>2, <1>3, <1>4 DEF Infixes, Prefixed
<1>6. \A i \in 1 .. Len(stack') - 1 :
        i >= Len(stack) => ~(stack'[i].fn \in Bodied /\ stack'[i + 1].fn = "Expression")
  <2>1. \A i \in 1 .. Len(stack') - 1 : i >= Len(stack) => i = Len(stack) \/ i = Len(stack) + 1
    BY <1>1, <1>3
  <2> QED BY <1>2, <1>3, <1>4, <2>1, BodiedAre
<1>7. StartsKept(Len(stack)) /\ PartParsed' /\ RightEdge'
  BY <1>1, <1>2 DEF StartsKept, PartParsed, RightEdge
<1>8. PICK b, completed : b = Len(stack) /\ completed = {}
  OBVIOUS
<1>9. /\ Spanned(b, completed) /\ StartsKept(b) /\ pc' # "Selector"
      /\ \A n \in completed : n.kind \notin InfixKinds \cup LastParts
  BY <1>2, <1>7, <1>8
<1> QED BY <1>5, <1>6, <1>7, <1>8, <1>9, QuietPrecedence

\* Nothing is left open by what ends.
LEMMA LeavingPrecedence ==
  ASSUME ErrorInv, SpanInv, OperandsInv, TextStep, PrecedenceInv,
         NEW completed, Spanned(Len(stack) - 1, completed), StartsKept(Len(stack) - 1),
         \A n \in completed : n.kind \notin InfixKinds \cup LastParts,
         Len(stack') = Len(stack) - 1, PartParsed', RightEdge', pc' # "Selector"
  PROVE  PrecedenceInv'
<1>1. Len(stack) \in Nat
  BY ErrorFacts
<1>2. /\ (Len(stack) - 1) + 1 .. Len(stack') = {}
      /\ \A i \in 1 .. Len(stack') - 1 : ~(i >= Len(stack) - 1)
  BY <1>1
<1> QED BY <1>2, QuietPrecedence

LEMMA StatementParsedPrecedence ==
  ASSUME ErrorInv, SpanInv, OperandsInv, TextStep, PrecedenceInv, StatementParsed
  PROVE  PrecedenceInv'
<1>1. /\ ParserInv /\ Len(stack) \in Nat /\ Len(stack) > 0 /\ Top = stack[Len(stack)]
      /\ stack \in Seq(Frame)
  BY ErrorFacts
<1>2. /\ stack' = Below /\ pc' = "List" /\ Spanned(Len(stack) - 1, {}) /\ Top.fn = "Statement"
  BY <1>1, StatementSpans DEF StatementParsed, Continue, Goto, Returned
<1>3. Under.fn = "ExpressionList" /\ Len(stack) > 1 /\ Under = stack[Len(stack) - 1]
  BY <1>1, <1>2, UnderFacts, CallersAre DEF Under
<1>4. Len(stack') = Len(stack) - 1
  BY <1>1, <1>2, StacksLeft
<1>5. StartsKept(Len(stack) - 1) /\ PartParsed' /\ RightEdge'
  BY <1>2, <1>3 DEF StartsKept, PartParsed, RightEdge
<1> QED BY <1>2, <1>4, <1>5, LeavingPrecedence

LEMMA EndListPrecedence ==
  ASSUME ErrorInv, SpanInv, OperandsInv, TextStep, PrecedenceInv, EndList
  PROVE  PrecedenceInv'
<1>1. ParserInv /\ Len(stack) \in Nat
  BY ErrorFacts
<1>2. PICK n : NodeStep(n) /\ n.kind = "R_EXPRESSION_LIST"
  BY <1>1, NodeSteps
<1>3. Top.fn = "ExpressionList"
  BY <1>1, NodeSteps
<1>4. /\ StartsKept(Len(stack) - 1) /\ Len(stack') = Len(stack) - 1
      /\ Top' = Under /\ Under.fn \in {"Root", "Braces"}
  BY <1>1, <1>2, <1>3, NodeStepStarts, CallersAre
<1>5. Spanned(Len(stack) - 1, {n}) /\ pc' = "Return"
  BY <1>2 DEF NodeStep
<1>6. PartParsed' /\ RightEdge'
  BY <1>4, BodiedAre DEF PartParsed, RightEdge
<1>7. n.kind \notin InfixKinds \cup LastParts
  BY <1>2, LastPartFunctions DEF InfixKinds, LastParts, LastPartNode
<1>8. \A m \in {n} : m.kind \notin InfixKinds \cup LastParts
  BY <1>7
<1> QED BY <1>4, <1>5, <1>6, <1>8, LeavingPrecedence

\* An expression ends: it is all that the function that called it asked for.
LEMMA EndExpressionPrecedence ==
  ASSUME ErrorInv, SpanInv, OperandsInv, TextStep, PrecedenceInv, EndExpression
  PROVE  PrecedenceInv'
<1>1. /\ ParserInv /\ Len(stack) \in Nat /\ Len(stack) > 0 /\ Top = stack[Len(stack)]
      /\ stack \in Seq(Frame)
  BY ErrorFacts
<1>2. /\ stack' = Below /\ pc = "Return" /\ pc' = "Return" /\ Top.fn = "Expression"
      /\ Spanned(Len(stack) - 1, {}) /\ value' = value /\ ~Continues(Top.bp)
      /\ UNCHANGED <<sourceVars, significance>> /\ nodes' = nodes \cup {}
  BY <1>1, StatementSpans DEF EndExpression, Return, Yield, Returned, Complete
<1>3. /\ Under.fn \in Callers["Expression"] /\ Len(stack) > 1 /\ Under = stack[Len(stack) - 1]
      /\ Under \in Frame
  BY <1>1, <1>2, UnderFacts DEF Under
<1>4. PICK b \in 1 .. Len(stack), u \in Frame :
        b = Len(stack) - 1 /\ u = stack[b] /\ u = Under /\ b \in 1 .. Len(stack) - 1
          /\ b + 1 = Len(stack)
  <2>1. Len(stack) - 1 \in 1 .. Len(stack) /\ Len(stack) - 1 \in 1 .. Len(stack) - 1
    BY <1>1, <1>3
  <2> QED BY <1>1, <1>3, <2>1
<1>5. Len(stack') = b /\ stack'[b] = u /\ Top' = u
  <2>1. /\ Len(Below) = Len(stack) - 1
        /\ \A i \in 1 .. Len(stack) - 1 : Below[i] = stack[i]
    BY <1>1, StacksLeft
  <2>2. Len(stack') = b /\ stack'[b] = u
    BY <1>2, <1>4, <2>1
  <2> QED BY <2>2 DEF Top
<1>6. u.fn # "Expression"
  BY <1>3, <1>4, CallersOfExpression
<1>7. StartsKept(b)
  BY <1>4, <1>6 DEF StartsKept
<1>8. /\ PartFrames /\ Expressions /\ RightEdge /\ HeadsKnown
  BY DEF PrecedenceInv
<1>9. Spanned(b, {})
  BY <1>2, <1>4
<1>10. at' = at /\ text' = text
  BY <1>2 DEF sourceVars
<1>11. PartParsed'
  <2>1. ASSUME u.fn \in Bodied, NEW p \in Nat, HeadOfFrame(u, p)'
        PROVE  /\ ~Continues(Power(u.fn, text[p].kind))'
               /\ \A n \in nodes' : n.kind \in InfixKinds /\ n.first = value'.first =>
                    Binds(n, Power(u.fn, text[p].kind))'
    <3>1. HeadOfFrame(u, p)
      <4>1. b \in 1 .. b
        BY <1>4
      <4> QED BY <1>4, <1>8, <1>9, <2>1, <4>1, FrameHeadKept
    <3>2. PICK w : w = Power(u.fn, text[p].kind) /\ w = Power(u.fn, text'[p].kind)
      BY <1>10
    <3>3. Top.bp = w
      BY <1>1, <1>2, <1>4, <1>8, <2>1, <3>1, <3>2 DEF PartFrames
    <3>4. ~Continues(w)'
      BY <1>2, <3>3, ContinuesSame
    <3>5. ASSUME NEW n \in nodes', n.kind \in InfixKinds, n.first = value'.first
          PROVE  Binds(n, w)'
      <4>1. Start(stack, pc, value, at, Len(stack)) = n.first /\ Len(stack) \in 1 .. Len(stack)
        BY <1>1, <1>2, <3>5 DEF Start
      <4>2. n \in nodes /\ Binds(n, w)
        BY <1>1, <1>2, <1>8, <3>3, <3>5, <4>1 DEF Expressions
      <4> QED BY <1>9, <4>2, BindsKept
    <3> QED BY <3>2, <3>4, <3>5 DEF Continues, Binds
  <2>2. \A p \in Nat : HeadOfFrame(Top, p)' <=> HeadOfFrame(u, p)'
    BY <1>5 DEF HeadOfFrame, Operand
  <2> QED BY <1>5, <2>1, <2>2 DEF PartParsed
<1>12. RightEdge'
  <2>1. ASSUME NEW n \in nodes', NEW p \in Nat, n.kind \in LastParts, n.last = at' - 1,
               HeadOf(n, p)'
        PROVE  ~Continues(Power(n.kind, text[p].kind))'
    <3>1. n \in nodes /\ HeadOf(n, p)
      <4>1. n \in nodes
        BY <1>2
      <4> QED BY <1>8, <1>9, <2>1, <4>1, HeadKept
    <3>2. PICK w : w = Power(n.kind, text[p].kind) /\ w = Power(n.kind, text'[p].kind)
      BY <1>10
    <3>3. ~Continues(w)
      BY <1>2, <1>8, <1>10, <2>1, <3>1, <3>2 DEF RightEdge
    <3>4. ~Continues(w)'
      BY <1>2, <3>3, ContinuesSame
    <3> QED BY <3>2, <3>4 DEF Continues
  <2> QED BY <2>1 DEF RightEdge
<1>13. Spanned(Len(stack) - 1, {}) /\ StartsKept(Len(stack) - 1) /\ Len(stack') = Len(stack) - 1
  BY <1>2, <1>4, <1>5, <1>7
<1> QED BY <1>2, <1>11, <1>12, <1>13, LeavingPrecedence

LEMMA PrecedenceInit == ParserInit => PrecedenceInv
<1> SUFFICES ASSUME ParserInit PROVE PrecedenceInv
  OBVIOUS
<1>1. pc = "Root" /\ nodes = {} /\ stack = <<Call("Root", 1)>>
  BY DEF ParserInit, SourceInit
<1>2. /\ Len(stack) = 1 /\ \A j \in 1 .. Len(stack) : stack[j].fn = "Root"
      /\ 2 .. Len(stack) = {} /\ 1 .. Len(stack) - 1 = {}
  BY <1>1 DEF Call
<1>3. OperatorFrames /\ OperatorNodes /\ PartFrames /\ PartParsed /\ Expressions
  BY <1>1, <1>2 DEF OperatorFrames, OperatorNodes, PartFrames, PartParsed, Expressions
<1>4. PartNodes /\ RightEdge /\ SelectorAwaited /\ HeadsKnown /\ ElseStarts
  BY <1>1, <1>2 DEF PartNodes, RightEdge, SelectorAwaited, HeadsKnown, ElseStarts, Prefixed
<1> QED BY <1>3, <1>4 DEF PrecedenceInv

LEMMA PrecedenceStays ==
  ASSUME PrecedenceInv, UNCHANGED vars
  PROVE  PrecedenceInv'
<1>1. /\ pc' = pc /\ stack' = stack /\ value' = value /\ nodes' = nodes /\ at' = at
      /\ text' = text /\ UNCHANGED <<sourceVars, significance>>
  BY DEF vars, sourceVars, parserVars
<1>2. /\ \A n, k : SplitAt(n, k)' <=> SplitAt(n, k)
      /\ \A f, k : Operand(f, k)' <=> Operand(f, k)
  BY <1>1 DEF SplitAt, Operand
<1>3. /\ \A n, p : HeadOf(n, p)' <=> HeadOf(n, p)
      /\ \A f, p : HeadOfFrame(f, p)' <=> HeadOfFrame(f, p)
      /\ \A n, w : Binds(n, w)' <=> Binds(n, w)
      /\ \A n, m : EndsWith(n, m)' <=> EndsWith(n, m)
      /\ \A w : Continues(w)' <=> Continues(w)
  BY <1>1, <1>2, ContinuesSame DEF HeadOf, HeadOfFrame, Binds, EndsWith
<1>4. \A k : Loosest(k)' <=> Loosest(k)
  BY <1>1, <1>3 DEF Loosest
<1>5. OperatorFrames' /\ OperatorNodes'
  <2>1. OperatorFrames /\ OperatorNodes
    BY DEF PrecedenceInv
  <2> QED BY <1>1, <1>2, <1>4, <2>1 DEF OperatorFrames, OperatorNodes
<1>6. PartFrames' /\ PartParsed'
  <2>1. PartFrames /\ PartParsed
    BY DEF PrecedenceInv
  <2> QED BY <1>1, <1>3, <2>1 DEF PartFrames, PartParsed, Top
<1>7. Expressions' /\ PartNodes'
  <2>1. Expressions /\ PartNodes
    BY DEF PrecedenceInv
  <2> QED BY <1>1, <1>3, <2>1 DEF Expressions, PartNodes
<1>8. RightEdge' /\ SelectorAwaited' /\ HeadsKnown' /\ ElseStarts'
  <2>1. RightEdge /\ SelectorAwaited /\ HeadsKnown /\ ElseStarts
    BY DEF PrecedenceInv
  <2> QED BY <1>1, <1>3, <2>1 DEF RightEdge, SelectorAwaited, HeadsKnown, ElseStarts, Top
<1> QED BY <1>5, <1>6, <1>7, <1>8 DEF PrecedenceInv

LEMMA PrecedenceNext ==
  ASSUME BalanceInv, NotBlessed, diagnostics = <<>>, diagnostics' = <<>>, SpanInv, TextStep,
         OperandsInv, PrecedenceInv, [ParserNext]_vars
  PROVE  PrecedenceInv'
<1>1. ErrorInv /\ ParserInv
  BY DEF BalanceInv, ErrorInv
<1>2. CASE \E b, completed : PlainStep(b, completed)
  <2>1. PICK b, completed : PlainStep(b, completed)
    BY <1>2
  <2> QED BY <1>1, <2>1, PlainPrecedence
<1>3. CASE SpecialStep
  <2>1. CASE ParseStatement
    BY <1>1, <2>1, ParseStatementPrecedence
  <2>2. CASE StatementParsed
    BY <1>1, <2>2, StatementParsedPrecedence
  <2>3. CASE EndExpression
    BY <1>1, <2>3, EndExpressionPrecedence
  <2>4. CASE EndList
    BY <1>1, <2>4, EndListPrecedence
  <2>5. CASE TakesOperator
    <3>1. OperatorStep
      BY <1>1, <2>5, OperatorSteps DEF TakesOperator
    <3> QED BY <3>1, OperatorPrecedence
  <2>6. CASE ParseSelector
    <3>1. PICK completed : SelectorStep(completed)
      BY <1>1, <2>6, SelectorSteps
    <3> QED BY <1>1, <3>1, SelectorPrecedence
  <2>7. CASE LastPartParsed \/ ParseNoSelector \/ IfParsed
    <3>1. /\ Top.fn \in DOMAIN LastPartNode \cup {"If"} /\ pc \in {"Return", "Selector"}
          /\ UNCHANGED <<sourceVars, significance>>
          /\ Top.fn \in Bodied => pc = "Return"
          /\ \E n : /\ NodeStep(n)
                    /\ n.kind = IF Top.fn = "If" THEN "R_IF_STATEMENT" ELSE LastPartNode[Top.fn]
      <4>1. "If" \notin DOMAIN LastPartNode /\ Selecting \subseteq DOMAIN LastPartNode
        BY LastPartFunctions DEF Selecting
      <4>2. Selecting \cap Bodied = {} /\ "If" \notin Selecting
        BY BodiedAre DEF Selecting
      <4>3. CASE LastPartParsed
        BY <1>1, <4>1, <4>3, NodeSteps
      <4>4. CASE ParseNoSelector
        BY <1>1, <4>1, <4>2, <4>4, NodeSteps
      <4>5. CASE IfParsed
        BY <1>1, <4>5, NodeSteps
      <4> QED BY <2>7, <4>3, <4>4, <4>5
    <3>2. pc = IF Top.fn \in Bodied THEN "Return" ELSE pc
      BY <3>1
    <3> QED BY <1>1, <3>1, <3>2, NodePrecedence
  <2>8. CASE IfElseParsed
    BY <1>1, <2>8, IfElsePrecedence
  <2>9. CASE CallParsed
    BY <1>1, <2>9, CallPrecedence
  <2> QED BY <1>3, <2>1, <2>2, <2>3, <2>4, <2>5, <2>6, <2>7, <2>8, <2>9 DEF SpecialStep
<1>4. CASE UNCHANGED vars
  BY <1>4, PrecedenceStays
<1> QED BY <1>1, <1>2, <1>3, <1>4, CleanSteps

BindingInv == OperandInv /\ (diagnostics = <<>> => PrecedenceInv)

LEMMA BindingInitInv == ParserInit => BindingInv
BY OperandInitInv, PrecedenceInit DEF BindingInv

LEMMA BindingNextInv == BindingInv /\ [ParserNext]_vars => BindingInv'
<1> SUFFICES ASSUME BindingInv, [ParserNext]_vars PROVE BindingInv'
  OBVIOUS
<1>1. OperandInv /\ OperandInv' /\ BalanceInv /\ ErrorInv /\ NotBlessed
  BY OperandNextInv DEF BindingInv, OperandInv, BalanceInv
<1>2. TextStep
  BY <1>1, ErrorFacts, StepIsSourceStep, SourceText DEF ErrorInv
<1>3. ASSUME diagnostics' = <<>> PROVE PrecedenceInv'
  <2>1. diagnostics = <<>>
    BY <1>1, <1>3, CleanBefore
  <2>2. SpanInv /\ OperandsInv /\ PrecedenceInv
    BY <1>1, <2>1 DEF BindingInv, OperandInv
  <2> QED BY <1>1, <1>2, <1>3, <2>1, <2>2, PrecedenceNext
<1> QED BY <1>1, <1>3 DEF BindingInv

\* While no error is recorded, each operator that was taken is bound more loosely
\* than all that ends right before it, and each that a last part has taken at
\* least as tightly as the part was asked to be.
THEOREM BindingInvariant == ParserSpec => []BindingInv
<1> QED BY BindingInitInv, BindingNextInv, PTL DEF ParserSpec

-----------------------------------------------------------------------------
(* Binding powers and ranks *)

\* An operator of rank r and left power w.
OperatorRanked(r, w) ==
  <<r, w>> \in {<<1, 2>>, <<4, 9>>, <<5, 11>>, <<6, 12>>, <<7, 14>>, <<8, 16>>, <<9, 18>>,
                <<11, 22>>, <<12, 24>>, <<13, 26>>, <<14, 28>>, <<15, 30>>, <<17, 35>>,
                <<18, 36>>, <<19, 38>>, <<20, 40>>}

\* A construct of rank r whose last part is bound with power w.
PartRanked(r, w) ==
  <<r, w>> \in {<<1, 3>>, <<2, 4>>, <<3, 6>>, <<4, 8>>, <<5, 10>>, <<6, 13>>, <<7, 15>>,
                <<8, 17>>, <<9, 19>>, <<10, 21>>, <<11, 23>>, <<12, 25>>, <<13, 27>>,
                <<14, 29>>, <<15, 31>>, <<16, 33>>, <<17, 34>>}

LEMMA OperatorsRanked ==
  ASSUME NEW k \in InfixOperators
  PROVE  OperatorRanked(Rank[k], LeftPower(k))
<1>1. k \in {"WAT", "ASSIGN", "EQUAL", "ASSIGN_RIGHT", "TILDE", "OR", "AND", "LESS_THAN", "PLUS",
             "MULTIPLY", "SPECIAL", "COLON", "EXPONENTIATE", "L_PAREN", "L_BRACK", "L_BRACK2",
             "DOLLAR", "AT", "COLON2", "COLON3"}
  BY DEF InfixOperators, BinaryOperators, BinaryPower, CallOpeners, Extractors, Namespacers
<1>2. CASE k \in {"WAT", "ASSIGN", "EQUAL", "ASSIGN_RIGHT", "TILDE", "OR", "AND"}
  BY <1>2 DEF OperatorRanked, Rank, LeftPower, BinaryPower, CallOpeners, Extractors, Namespacers
<1>3. CASE k \in {"LESS_THAN", "PLUS", "MULTIPLY", "SPECIAL", "COLON", "EXPONENTIATE"}
  BY <1>3 DEF OperatorRanked, Rank, LeftPower, BinaryPower, CallOpeners, Extractors, Namespacers
<1>4. CASE k \in {"L_PAREN", "L_BRACK", "L_BRACK2", "DOLLAR", "AT", "COLON2", "COLON3"}
  BY <1>4 DEF OperatorRanked, Rank, LeftPower, CallOpeners, Extractors, Namespacers, CALL_LBP,
              EXTRACT_LBP, NAMESPACE_LBP
<1> QED BY <1>1, <1>2, <1>3, <1>4

LEMMA PartsRanked ==
  ASSUME NEW kind \in LastParts, NEW t,
         IF kind = "R_BINARY_EXPRESSION" THEN t \in BinaryOperators ELSE t \in Openers(kind)
  PROVE  PartRanked(IF kind = "R_BINARY_EXPRESSION" THEN Rank[t] ELSE PrefixRank[t],
                    Power(kind, t))
<1>1. LastParts = {"R_FUNCTION_DEFINITION", "R_FOR_STATEMENT", "R_WHILE_STATEMENT",
                   "R_REPEAT_STATEMENT", "R_UNARY_EXPRESSION", "R_BINARY_EXPRESSION",
                   "R_IF_STATEMENT", "R_ELSE_CLAUSE"}
  BY LastPartFunctions DEF LastParts, LastPartNode
<1>2. CASE kind = "R_BINARY_EXPRESSION"
  <2>1. t \in {"WAT", "ASSIGN", "EQUAL", "ASSIGN_RIGHT", "TILDE", "OR", "AND", "LESS_THAN",
               "PLUS", "MULTIPLY", "SPECIAL", "COLON", "EXPONENTIATE"}
    BY <1>2 DEF BinaryOperators, BinaryPower
  <2>2. PartRanked(Rank[t], BinaryPower[t][2])
    <3>1. CASE t \in {"WAT", "ASSIGN", "EQUAL", "ASSIGN_RIGHT", "TILDE", "OR", "AND"}
      BY <3>1 DEF PartRanked, Rank, BinaryPower
    <3>2. CASE t \in {"LESS_THAN", "PLUS", "MULTIPLY", "SPECIAL", "COLON", "EXPONENTIATE"}
      BY <3>2 DEF PartRanked, Rank, BinaryPower
    <3> QED BY <2>1, <3>1, <3>2
  <2>3. Power(kind, t) = BinaryPower[t][2]
    BY <1>2 DEF Power
  <2> QED BY <1>2, <2>2, <2>3
<1>3. CASE kind = "R_UNARY_EXPRESSION"
  <2>1. t \in {"WAT", "TILDE", "BANG", "PLUS"}
    BY <1>3 DEF Openers, UnaryOperators, UnaryPower
  <2>2. PartRanked(PrefixRank[t], UnaryPower[t])
    BY <2>1 DEF PartRanked, PrefixRank, UnaryPower
  <2>3. Power(kind, t) = UnaryPower[t]
    BY <1>3 DEF Power
  <2> QED BY <1>3, <2>2, <2>3
<1>4. CASE kind \in {"R_FUNCTION_DEFINITION", "R_FOR_STATEMENT", "R_WHILE_STATEMENT",
                     "R_REPEAT_STATEMENT"}
  <2>1. t \in {"FUNCTION_KW", "BACKSLASH", "FOR_KW", "WHILE_KW", "REPEAT_KW"}
    BY <1>4 DEF Openers
  <2>2. PrefixRank[t] = 2
    BY <2>1 DEF PrefixRank
  <2>3. Power(kind, t) = 4
    BY <1>4 DEF Power, FUNCTION_BODY_BP
  <2> QED BY <1>4, <2>2, <2>3 DEF PartRanked
<1>5. CASE kind \in {"R_IF_STATEMENT", "R_ELSE_CLAUSE"}
  <2>1. t \in {"IF_KW", "IDENT_else"}
    BY <1>5 DEF Openers
  <2>2. PrefixRank[t] = 3
    BY <2>1 DEF PrefixRank
  <2>3. Power(kind, t) = 6
    BY <1>5 DEF Power, IF_BODY_BP
  <2> QED BY <1>5, <2>2, <2>3 DEF PartRanked
<1> QED BY <1>1, <1>2, <1>3, <1>4, <1>5

\* The powers resolve every conflict as ranks and associativity do.
LEMMA PowersFollowRanks ==
  ASSUME NEW r \in Nat, NEW l \in Nat, OperatorRanked(r, l),
         NEW q \in Nat, NEW w \in Nat, PartRanked(q, w)
  PROVE  Takes(r, q) <=> l >= w
BY DEF OperatorRanked, PartRanked, Takes, RightAssociative

\* The last part of a node begins where one begins that it ends with.
LEMMA LastPartBegins ==
  ASSUME nodes \subseteq Node, NEW m \in nodes, NEW e \in nodes, EndsWith(m, e)
  PROVE  LastPart(m).first = e.first
<1> DEFINE ends == {x \in nodes : x.last = m.last /\ x.first > m.first}
           Longest(x) == \A j \in ends : j.first >= x.first
           part == CHOOSE x \in ends : Longest(x)
<1>1. \A x \in nodes : x.first \in Nat
  BY DEF Node
<1>2. e \in ends /\ Longest(e)
  BY <1>1 DEF EndsWith
<1>3. part \in ends /\ Longest(part)
  <2> HIDE DEF ends, Longest
  <2> QED BY <1>2
<1>4. part.first = e.first
  BY <1>1, <1>2, <1>3
<1> QED BY <1>4 DEF LastPart

\* For every text that the parser accepts without an error, each conflict over an
\* operand is resolved by rank, and by associativity at equal rank.
THEOREM PrecedenceIsRespected == ParserSpec => []PrecedenceRespected
<1>1. BindingInv => PrecedenceRespected
  <2> SUFFICES ASSUME BindingInv, diagnostics = <<>>, NEW n \in Infix, NEW m \in NodesOf(LastParts)
               PROVE  /\ m.first >= n.first /\ m.last = OperatorAt(n) - 1 =>
                           ~Takes(RankOf(n), RankOf(m))
                      /\ n # m /\ n.last <= m.last /\ n.first > m.first
                           /\ n.first = LastPart(m).first => Takes(RankOf(n), RankOf(m))
    BY DEF PrecedenceRespected
  <2>1. /\ nodes \subseteq Node /\ InfixNodes /\ OperatorNodes /\ PartNodes /\ HeadsKnown
    <3>1. ErrorInv
      BY DEF BindingInv, OperandInv, BalanceInv
    <3> QED BY <3>1, ErrorFacts DEF BindingInv, OperandInv, OperandsInv, PrecedenceInv, ParserInv
  <2>2. n \in nodes /\ n.kind \in InfixKinds /\ m \in nodes /\ m.kind \in LastParts
    BY DEF Infix, NodesOf, InfixKinds
  <2>3. PICK fn \in Infixes, k \in Nat : InfixNode(n, fn, k)
    BY <2>1, <2>2 DEF InfixNodes
  <2>4. SplitAt(n, k) /\ text[k].kind \in InfixOperators /\ OperatorAt(n) = k
    BY <2>1, <2>2, <2>3, SplitIsOperator DEF InfixNode, Ruled
  <2>5. PICK p \in Nat : HeadOf(m, p)
    <3>1. CASE m.kind = "R_BINARY_EXPRESSION"
      <4>1. PICK gn \in Infixes, p \in Nat : InfixNode(m, gn, p)
        BY <2>1, <2>2, <3>1 DEF InfixNodes, InfixKinds
      <4> QED BY <3>1, <4>1 DEF InfixNode, HeadOf
    <3>2. CASE m.kind # "R_BINARY_EXPRESSION"
      <4>1. m.first \in Nat
        BY <2>1, <2>2 DEF Node
      <4> QED BY <3>2, <4>1 DEF HeadOf
    <3> QED BY <3>1, <3>2
  <2>6. PICK t : t = text[p].kind
    OBVIOUS
  <2>7. /\ IF m.kind = "R_BINARY_EXPRESSION" THEN t \in BinaryOperators
           ELSE p = m.first /\ t \in Openers(m.kind)
        /\ Power(m.kind, t) \in Nat
    BY <2>1, <2>2, <2>5, <2>6, HeadKind
  <2>8. RankOf(n) = Rank[text[k].kind]
    BY <2>4 DEF RankOf
  <2>9. RankOf(m) = IF m.kind = "R_BINARY_EXPRESSION" THEN Rank[t] ELSE PrefixRank[t]
    <3>1. CASE m.kind = "R_BINARY_EXPRESSION"
      <4>1. m \in Infix /\ SplitAt(m, p)
        BY <2>2, <2>5, <3>1 DEF Infix, NodesOf, HeadOf
      <4>2. OperatorAt(m) = p
        BY <2>1, <2>2, <4>1, SplitIsOperator
      <4> QED BY <2>6, <3>1, <4>1, <4>2 DEF RankOf
    <3>2. CASE m.kind # "R_BINARY_EXPRESSION"
      <4>1. m \notin Infix
        BY <2>2, <3>2, LastPartFunctions DEF Infix, NodesOf, LastParts, LastPartNode
      <4> QED BY <2>6, <2>7, <3>2, <4>1 DEF RankOf
    <3> QED BY <3>1, <3>2
  <2>10. PICK l, w : l = LeftPower(text[k].kind) /\ w = Power(m.kind, t)
    OBVIOUS
  <2>11. Takes(RankOf(n), RankOf(m)) <=> l >= w
    <3>1. OperatorRanked(RankOf(n), l)
      BY <2>4, <2>8, <2>10, OperatorsRanked
    <3>2. PartRanked(RankOf(m), w)
      BY <2>2, <2>7, <2>9, <2>10, PartsRanked
    <3>3. RankOf(n) \in Nat /\ l \in Nat /\ RankOf(m) \in Nat /\ w \in Nat
      <4>1. RankOf(n) \in Nat /\ l \in Nat
        BY <3>1 DEF OperatorRanked
      <4>2. RankOf(m) \in Nat /\ w \in Nat
        BY <3>2 DEF PartRanked
      <4> QED BY <4>1, <4>2
    <3> QED BY <3>1, <3>2, <3>3, PowersFollowRanks
  <2>12. l \in Nat /\ w \in Nat
    BY <2>4, <2>7, <2>10, LeftPowers
  <2>13. ASSUME m.last = k - 1 PROVE l < w
    <3>1. Loosest(k)
      BY <2>1, <2>2, <2>4 DEF OperatorNodes
    <3> QED BY <2>2, <2>5, <2>6, <2>10, <2>13, <3>1 DEF Loosest
  <2>14. ASSUME n.last <= m.last, n.first = LastPart(m).first PROVE l >= w
    <3>1. PICK e \in nodes :
            /\ EndsWith(m, e)
            /\ \A x \in nodes : x.kind \in InfixKinds /\ x.first = e.first /\ x.last <= m.last =>
                 Binds(x, w)
      BY <2>1, <2>2, <2>5, <2>6, <2>10 DEF PartNodes
    <3>2. n.first = e.first
      BY <2>1, <2>2, <2>14, <3>1, LastPartBegins
    <3>3. Binds(n, w)
      BY <2>2, <2>14, <3>1, <3>2
    <3> QED BY <2>4, <2>10, <3>3 DEF Binds
  <2> QED BY <2>4, <2>11, <2>12, <2>13, <2>14
<1> QED BY <1>1, BindingInvariant, PTL

=============================================================================
