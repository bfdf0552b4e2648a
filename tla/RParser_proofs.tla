--------------------------- MODULE RParser_proofs ---------------------------
(***************************************************************************)
(* Proofs about RParser and RParserTree, for every alphabet and every      *)
(* length of the text: types, significance, stray semicolons and failures, *)
(* and that the parser implements the token source; then, that errors and  *)
(* unreadable tokens end up in bogus nodes, that recovery gives up no more *)
(* than the statement in error, that the brackets of a text without errors *)
(* balance, and that an `else' goes to the nearest `if'; last, where nodes *)
(* and the functions on the stack begin and end, for the plain steps.      *)
(***************************************************************************)
EXTENDS RParserTree, Lemmas

-----------------------------------------------------------------------------
(* The token source *)

\* How the current token and the lookahead cover the text: `]' is the only
\* token looked past, and a glued `]]' is two tokens, the second one tight.
Extent ==
  /\ \A i \in 1 .. Len(text) : text[i].kind # "R_BRACK2"
  /\ lookahead => current = "R_BRACK"
  /\ IF current = "R_BRACK2"
     THEN Len(text) = at + 1 /\ text[at + 1].gap = "Tight"
     ELSE Len(text) = IF lookahead THEN at + 1 ELSE at

\* What is remembered of the gap before the current token.
PendingIsCurrent ==
  /\ pending = IF HasSemicolon(text[at].gap) /\ at \notin blessed THEN at ELSE 0
  /\ (gapSemicolons <=> pending # 0)

SourceInv == SourceTypeOK /\ Extent /\ PendingIsCurrent /\ StrayIsFirstMisplaced

-----------------------------------------------------------------------------

\* The kinds the lexer and the token source name are token kinds.
LEMMA LexedKinds ==
  {"EOF", "R_BRACK2", "STRING_CONTENT", "STRING_CLOSE", "R_BOGUS"} \subseteq TokenKinds
  BY DEF TokenKinds, StringKinds, Punctuation

\* next_token returns a token of the text, never the glued `]]'.
LEMMA NextTokensType ==
  ASSUME NEW m \in Modes, NEW n \in Nat, NEW t \in NextTokens(m, n)
  PROVE  t \in Token /\ t.kind # "R_BRACK2"
<1>1. CASE m = "Normal"
  <2>1. CASE t \in Alphabet
    BY <2>1, AlphabetAssumption DEF LexedToken
  <2>2. CASE t \in [kind : {"EOF"}, gap : {"Blank", "LineSemi"}]
    BY <2>2, LexedKinds DEF Token, AllGaps
  <2> QED BY <1>1, <2>1, <2>2 DEF NextTokens
<1>2. CASE m = "InString"
  <2>1. t \in [kind : {"STRING_CONTENT", "STRING_CLOSE", "R_BOGUS", "EOF"}, gap : {"Tight"}]
    BY <1>2 DEF NextTokens
  <2> QED BY <2>1, LexedKinds DEF Token, AllGaps
<1>3. CASE m = "StringEnd"
  <2>1. t \in [kind : {"STRING_CLOSE"}, gap : {"Tight"}]
    BY <1>3 DEF NextTokens
  <2> QED BY <2>1, LexedKinds DEF Token, AllGaps
<1>4. CASE m = "Exhausted"
  <2>1. t \in [kind : {"EOF"}, gap : {"Tight"}]
    BY <1>4 DEF NextTokens
  <2> QED BY <2>1, LexedKinds DEF Token, AllGaps
<1> QED BY <1>1, <1>2, <1>3, <1>4 DEF Modes

\* The modes of the lexer are closed under lexing.
LEMMA ModeAfterType ==
  ASSUME NEW m \in Modes, NEW kind
  PROVE  ModeAfter(m, kind) \in Modes
  BY DEF ModeAfter, Modes

\* Lexing keeps the tokens lexed so far and ends the text with the new one.
LEMMA LexAppends ==
  ASSUME SourceTypeOK, Extent, NEW token \in Upcoming, Lex(token)
  PROVE  /\ token \in Token /\ token.kind # "R_BRACK2"
         /\ text' \in Seq(Token) /\ mode' \in Modes
         /\ Len(text') = IF lookahead THEN Len(text) ELSE Len(text) + 1
         /\ text'[Len(text')] = token
         /\ \A i \in 1 .. Len(text) : text'[i] = text[i]
<1> USE DEF SourceTypeOK
<1>1. Len(text) \in Nat \ {0}
  OBVIOUS
<1>2. CASE lookahead
  <2>1. token = text[Len(text)] /\ text' = text /\ mode' = mode
    BY <1>2 DEF Upcoming, Lex
  <2> QED BY <1>1, <1>2, <2>1 DEF Extent
<1>3. CASE ~lookahead
  <2>1. token \in Token /\ token.kind # "R_BRACK2"
    BY <1>1, <1>3, NextTokensType DEF Upcoming
  <2>2. text' = Append(text, token) /\ mode' = ModeAfter(mode, token.kind)
    BY <1>3 DEF Lex
  <2>3. mode' \in Modes
    BY <2>2, ModeAfterType
  <2> QED BY <1>1, <1>3, <2>1, <2>2, <2>3
<1> QED BY <1>2, <1>3

-----------------------------------------------------------------------------

\* Before the first token is consumed, nothing is stray.
LEMMA InitInv == SourceInit => SourceInv
<1> SUFFICES ASSUME SourceInit PROVE SourceInv
  OBVIOUS
<1>1. PICK token \in NextTokens("Normal", 0) :
        /\ text = <<token>>
        /\ mode = ModeAfter("Normal", token.kind)
        /\ current = token.kind
        /\ gapSemicolons = HasSemicolon(token.gap)
        /\ pending = IF HasSemicolon(token.gap) THEN 1 ELSE 0
  BY DEF SourceInit
<1>2. lookahead = FALSE /\ at = 1 /\ stray = 0 /\ blessed = {}
  BY DEF SourceInit
<1>3. token \in Token /\ token.kind # "R_BRACK2" /\ mode \in Modes
  <2>1. "Normal" \in Modes
    BY DEF Modes
  <2> QED BY <1>1, <2>1, NextTokensType, ModeAfterType
<1>4. text \in Seq(Token) /\ Len(text) = 1 /\ text[1] = token
  BY <1>1, <1>3
<1>5. SourceTypeOK
  <2>1. gapSemicolons \in BOOLEAN
    BY <1>1 DEF HasSemicolon
  <2>2. pending \in 0 .. at
    BY <1>1, <1>2
  <2>3. current \in TokenKinds
    BY <1>1, <1>3 DEF Token
  <2>4. lookahead \in BOOLEAN
    BY <1>2
  <2>5. at \in 1 .. Len(text) /\ stray \in 0 .. at /\ blessed \subseteq 1 .. at
    BY <1>2, <1>4
  <2> QED BY <1>3, <1>4, <2>1, <2>2, <2>3, <2>4, <2>5 DEF SourceTypeOK
<1>6. Extent
  BY <1>1, <1>2, <1>3, <1>4 DEF Extent
<1>7. PendingIsCurrent
  <2>1. gapSemicolons <=> HasSemicolon(token.gap)
    BY <1>1
  <2> QED BY <1>1, <1>2, <1>4, <2>1 DEF PendingIsCurrent
<1>8. StrayIsFirstMisplaced
  BY <1>2 DEF StrayIsFirstMisplaced, Misplaced
<1> QED BY <1>5, <1>6, <1>7, <1>8 DEF SourceInv

-----------------------------------------------------------------------------

\* Blessing the gap before the current token forgets its semicolon and touches
\* nothing that lies behind.
LEMMA BlessInv == SourceInv /\ BlessSemicolons => SourceInv'
<1> SUFFICES ASSUME SourceInv, BlessSemicolons PROVE SourceInv'
  OBVIOUS
<1> USE DEF SourceInv
<1>1. /\ pending' = 0 /\ blessed' = blessed \cup {at} /\ stray' = stray /\ at' = at
      /\ text' = text /\ mode' = mode /\ current' = current
  BY DEF BlessSemicolons
<1>2. lookahead' = lookahead /\ gapSemicolons' = FALSE
  BY DEF BlessSemicolons
<1>3. SourceTypeOK'
  <2>1. gapSemicolons' \in BOOLEAN /\ lookahead' \in BOOLEAN
    BY <1>2 DEF SourceTypeOK
  <2>2. /\ at' \in 1 .. Len(text') /\ stray' \in 0 .. at' /\ pending' \in 0 .. at'
        /\ blessed' \subseteq 1 .. at'
    BY <1>1 DEF SourceTypeOK
  <2> QED BY <1>1, <2>1, <2>2 DEF SourceTypeOK
<1>4. Extent'
  BY <1>1, <1>2 DEF Extent
<1>5. PendingIsCurrent'
  BY <1>1, <1>2 DEF PendingIsCurrent
<1>6. StrayIsFirstMisplaced'
  <2>1. Misplaced' = Misplaced
    BY <1>1 DEF Misplaced, SourceTypeOK
  <2> QED BY <1>1, <2>1 DEF StrayIsFirstMisplaced
<1> QED BY <1>3, <1>4, <1>5, <1>6

\* Gluing `]' `]', or looking ahead and not gluing, moves past no gap.
LEMMA GlueInv == ASSUME NEW glued \in BOOLEAN
                 PROVE  SourceInv /\ TryGlueRightBracket2(glued) => SourceInv'
<1> SUFFICES ASSUME SourceInv, TryGlueRightBracket2(glued) PROVE SourceInv'
  OBVIOUS
<1> USE DEF SourceInv
<1>1. UNCHANGED <<at, gapSemicolons, pending, stray, blessed>>
  BY DEF TryGlueRightBracket2
<1>2. CASE current # "R_BRACK"
  <2>1. UNCHANGED <<text, mode, lookahead, current>>
    BY <1>2 DEF TryGlueRightBracket2
  <2> QED BY <1>1, <2>1 DEF SourceTypeOK, Extent, PendingIsCurrent,
                            StrayIsFirstMisplaced, Misplaced
<1>3. CASE current = "R_BRACK"
  <2>1. PICK next \in Upcoming :
          /\ glued = (next.kind = "R_BRACK" /\ next.gap = "Tight")
          /\ Lex(next)
          /\ lookahead' = ~glued
          /\ current' = IF glued THEN "R_BRACK2" ELSE current
    BY <1>3 DEF TryGlueRightBracket2
  <2>2. /\ text' \in Seq(Token) /\ mode' \in Modes
        /\ Len(text') = IF lookahead THEN Len(text) ELSE Len(text) + 1
        /\ text'[Len(text')] = next
        /\ \A i \in 1 .. Len(text) : text'[i] = text[i]
        /\ next.kind # "R_BRACK2"
    BY <2>1, LexAppends
  <2>3. Len(text') = at + 1 /\ \A i \in 1 .. at : text'[i] = text[i]
    BY <1>3, <2>2 DEF Extent, SourceTypeOK
  <2>4. SourceTypeOK'
    <3>1. lookahead' \in BOOLEAN /\ gapSemicolons' \in BOOLEAN
      BY <1>1, <2>1 DEF SourceTypeOK
    <3>2. current' \in TokenKinds
      BY <2>1, LexedKinds DEF SourceTypeOK
    <3>3. at' \in 1 .. Len(text')
      BY <1>1, <2>2, <2>3 DEF SourceTypeOK
    <3> QED BY <1>1, <2>2, <3>1, <3>2, <3>3 DEF SourceTypeOK
  <2>5. Extent'
    <3>1. CASE glued
      <4>1. current' = "R_BRACK2" /\ ~lookahead' /\ next.gap = "Tight"
        BY <2>1, <3>1
      <4> QED BY <1>1, <2>2, <2>3, <4>1 DEF Extent
    <3>2. CASE ~glued
      <4>1. current' = "R_BRACK" /\ lookahead'
        BY <1>3, <2>1, <3>2
      <4> QED BY <1>1, <2>2, <2>3, <4>1 DEF Extent
    <3> QED BY <3>1, <3>2
  <2>6. PendingIsCurrent'
    BY <1>1, <2>3 DEF PendingIsCurrent, SourceTypeOK
  <2>7. StrayIsFirstMisplaced'
    <3>1. Misplaced' = Misplaced
      BY <1>1, <2>3 DEF Misplaced, SourceTypeOK
    <3> QED BY <1>1, <3>1 DEF StrayIsFirstMisplaced
  <2> QED BY <2>4, <2>5, <2>6, <2>7
<1> QED BY <1>2, <1>3

\* Advancing leaves the gap before the current token behind: its pending
\* semicolon, if there is one, becomes misplaced.
LEMMA AdvanceInv == SourceInv /\ Advance => SourceInv'
<1> SUFFICES ASSUME SourceInv, Advance PROVE SourceInv'
  OBVIOUS
<1> USE DEF SourceInv
<1>1. PICK token \in Upcoming :
        /\ Lex(token)
        /\ lookahead' = FALSE
        /\ current' = token.kind
        /\ at' = CurrentEnd + 1
        /\ stray' = Finalized
        /\ gapSemicolons' = HasSemicolon(token.gap)
        /\ pending' = IF HasSemicolon(token.gap) THEN CurrentEnd + 1 ELSE 0
        /\ UNCHANGED blessed
  BY DEF Advance
<1>2. /\ token \in Token /\ token.kind # "R_BRACK2"
      /\ text' \in Seq(Token) /\ mode' \in Modes
      /\ Len(text') = IF lookahead THEN Len(text) ELSE Len(text) + 1
      /\ text'[Len(text')] = token
      /\ \A i \in 1 .. Len(text) : text'[i] = text[i]
  BY <1>1, LexAppends
<1>3. at \in Nat /\ at >= 1 /\ Len(text) \in Nat
  BY DEF SourceTypeOK
<1>4. Len(text') = at' /\ at' > at
  BY <1>1, <1>2, <1>3 DEF CurrentEnd, Extent
<1>5. \A i \in 1 .. at : text'[i] = text[i]
  BY <1>2 DEF SourceTypeOK
<1>6. \A i \in at + 1 .. at' - 1 : ~HasSemicolon(text'[i].gap)
  <2>1. CASE current = "R_BRACK2"
    <3>1. at' = at + 2 /\ text'[at + 1].gap = "Tight"
      BY <1>1, <1>2, <1>3, <2>1 DEF CurrentEnd, Extent
    <3> QED BY <1>3, <3>1 DEF HasSemicolon
  <2>2. CASE current # "R_BRACK2"
    <3>1. at' = at + 1
      BY <1>1, <1>3, <2>2 DEF CurrentEnd, Extent
    <3> QED BY <1>3, <3>1
  <2> QED BY <2>1, <2>2
<1>7. SourceTypeOK'
  <2>1. gapSemicolons' \in BOOLEAN
    BY <1>1 DEF HasSemicolon
  <2>2. lookahead' \in BOOLEAN
    BY <1>1
  <2>3. current' \in TokenKinds
    BY <1>1, <1>2 DEF Token
  <2>4. at' \in 1 .. Len(text') /\ pending' \in 0 .. at'
    BY <1>1, <1>3, <1>4
  <2>5. stray' \in 0 .. at' /\ blessed' \subseteq 1 .. at'
    BY <1>1, <1>3, <1>4 DEF Finalized, SourceTypeOK
  <2> QED BY <1>2, <2>1, <2>2, <2>3, <2>4, <2>5 DEF SourceTypeOK
<1>8. Extent'
  <2>1. \A i \in 1 .. Len(text') : text'[i].kind # "R_BRACK2"
    BY <1>2, <1>3 DEF Extent
  <2>2. ~lookahead' /\ current' # "R_BRACK2"
    BY <1>1, <1>2
  <2> QED BY <1>4, <2>1, <2>2 DEF Extent
<1>9. PendingIsCurrent'
  <2>1. gapSemicolons' <=> HasSemicolon(token.gap)
    BY <1>1
  <2>2. text'[at'] = token /\ at' \notin blessed'
    BY <1>1, <1>2, <1>3, <1>4 DEF SourceTypeOK
  <2> QED BY <1>1, <1>3, <1>4, <2>1, <2>2 DEF PendingIsCurrent
<1>10. StrayIsFirstMisplaced'
  <2>1. Misplaced' = Misplaced \cup (IF pending # 0 THEN {at} ELSE {})
    <3>1. \A i \in 1 .. at' - 1 :
            i \in Misplaced' <=> i \in Misplaced \/ (pending # 0 /\ i = at)
      <4> SUFFICES ASSUME NEW i \in 1 .. at' - 1
                   PROVE  i \in Misplaced' <=> i \in Misplaced \/ (pending # 0 /\ i = at)
        OBVIOUS
      <4>1. CASE i < at
        BY <1>1, <1>3, <1>4, <1>5, <4>1 DEF Misplaced
      <4>2. CASE i = at
        BY <1>1, <1>3, <1>4, <1>5, <4>2 DEF Misplaced, PendingIsCurrent
      <4>3. CASE i > at
        BY <1>3, <1>4, <1>6, <4>3 DEF Misplaced
      <4> QED BY <1>3, <4>1, <4>2, <4>3
    <3> QED BY <1>3, <1>4, <3>1 DEF Misplaced, SourceTypeOK
  <2>2. pending # 0 => pending = at
    BY DEF PendingIsCurrent
  <2>3. \A i \in Misplaced : i \in Nat /\ i >= 1 /\ i < at
    BY <1>3 DEF Misplaced
  <2>4. stray' = IF stray = 0 THEN pending ELSE stray
    BY <1>1 DEF Finalized
  <2>5. CASE Misplaced = {}
    BY <1>3, <2>1, <2>2, <2>4, <2>5 DEF StrayIsFirstMisplaced
  <2>6. CASE Misplaced # {}
    <3>1. stray \in Misplaced /\ \A i \in Misplaced : stray <= i
      BY <2>6 DEF StrayIsFirstMisplaced
    <3>2. stray' = stray
      BY <2>3, <2>4, <3>1
    <3> QED BY <1>3, <2>1, <2>3, <3>1, <3>2 DEF StrayIsFirstMisplaced
  <2> QED BY <2>5, <2>6
<1> QED BY <1>7, <1>8, <1>9, <1>10

\* Every step of the source keeps the invariant.
LEMMA NextInv == SourceInv /\ [SourceNext]_sourceVars => SourceInv'
<1> SUFFICES ASSUME SourceInv, [SourceNext]_sourceVars PROVE SourceInv'
  OBVIOUS
<1>1. CASE Bump
  BY <1>1, AdvanceInv DEF Bump
<1>2. CASE BlessSemicolons
  BY <1>2, BlessInv
<1>3. ASSUME NEW glued \in BOOLEAN, TryGlueRightBracket2(glued) PROVE SourceInv'
  BY <1>3, GlueInv
<1>4. CASE UNCHANGED sourceVars
  BY <1>4 DEF sourceVars, SourceInv, SourceTypeOK, Extent, PendingIsCurrent,
              StrayIsFirstMisplaced, Misplaced
<1> QED BY <1>1, <1>2, <1>3, <1>4 DEF SourceNext

-----------------------------------------------------------------------------

\* The strengthened invariant holds in every reachable state.
THEOREM SourceInvariant == SourceSpec => []SourceInv
<1> QED BY InitInv, NextInv, PTL DEF SourceSpec

\* Every variable of the token source keeps its type: the current token, the
\* pending and the stray semicolon are always tokens already lexed.
THEOREM SourceTypeCorrect == SourceSpec => []SourceTypeOK
<1>1. SourceInv => SourceTypeOK
  BY DEF SourceInv
<1> QED BY <1>1, SourceInvariant, PTL

\* For every text, and whatever the grammar blesses, bumps and glues, the stray
\* semicolon that parse_root reports is the first one in the text that was left
\* behind without being blessed, and there is none only if all were blessed.
THEOREM StraySemicolonIsFirst == SourceSpec => []StrayIsFirstMisplaced
<1>1. SourceInv => StrayIsFirstMisplaced
  BY DEF SourceInv
<1> QED BY <1>1, SourceInvariant, PTL

-----------------------------------------------------------------------------
(* Every step of the parser makes at most one call to the token source *)

LEMMA ModIsSourceStep == GrammarMod => [SourceNext]_sourceVars
  BY Zenon DEF GrammarMod, ParseRoot, RootParsed, ParseStatement, StatementParsed, EndList,
         RecoverStatement, SkipToken, Recovered, Consume, Complete, SourceNext

LEMMA ExpressionsIsSourceStep == GrammarExpressions => [SourceNext]_sourceVars
  BY DEF GrammarExpressions, ParseUnary, ParseConstruct, ParsePrefixValue, ParseValue,
         ParseNoPrefix, EndExpression, ParseBinary, ParseExtract, ParseNamespace,
         ParseNamespaceOfOther, ParseSelector, ParseNoSelector, LastPartParsed,
         ParseStringContent, ParseStringClose, ParseStringUnterminated,
         Consume, Complete, Expected, SourceNext

LEMMA ControlIsSourceStep == GrammarControl => [SourceNext]_sourceVars
  BY DEF GrammarControl, ParseParenthesized, ParenthesizedParsed, ParseBraces, BracesParsed,
         ExpectCloseFails, ParseCondition, ExpectOpenFails, HeaderParsed, ParseElse,
         IfParsed, IfElseParsed, ParseForHeader, ParseForVariable, ParseForIn,
         ForHeaderFails, Consume, Complete, Expected, SourceNext

LEMMA FunctionsIsSourceStep == GrammarFunctions => [SourceNext]_sourceVars
  BY DEF GrammarFunctions, ParseParameters, ParseParameterName, ParameterFails,
         ParseParameterDefault, ParseParameterNoDefault, ParameterDefaultParsed,
         ParseParameterComma, ParametersParsed, ParametersUnclosed,
         Consume, Complete, Expected, SourceNext

LEMMA CallsIsSourceStep == GrammarCalls => [SourceNext]_sourceVars
  BY DEF GrammarCalls, ParseCallLike, ArgumentListParsed, ParseArgumentComma,
         ArgumentsNotSeparated, ParseArgument, ParseValue, ParseArgumentEqual,
         ParseArgumentRest, ParseArgumentValue, ArgumentParsed, GlueClose, CannotGlue,
         CallUnclosed, CallParsed, Consume, Complete, Expected, SourceNext

LEMMA StepIsSourceStep == [ParserNext]_vars => [SourceNext]_sourceVars
  BY ModIsSourceStep, ExpressionsIsSourceStep, ControlIsSourceStep, FunctionsIsSourceStep,
     CallsIsSourceStep DEF ParserNext, Propagate, Finished, vars

\* The parser implements the token source's specification: whatever the text,
\* it bumps, blesses and glues only as the token source allows, one call a step.
THEOREM ParserImplementsSource == ParserSpec => SourceSpec
<1>1. ParserInit => SourceInit
  BY DEF ParserInit
<1> QED BY <1>1, StepIsSourceStep, PTL DEF ParserSpec, SourceSpec

-----------------------------------------------------------------------------
(* Stacks *)

Popped(s) == SubSeq(s, 1, Len(s) - 1)

LEMMA PoppedProperties ==
  ASSUME NEW S, NEW s \in Seq(S), Len(s) > 0
  PROVE  /\ Popped(s) \in Seq(S)
         /\ Len(Popped(s)) = Len(s) - 1 /\ Len(s) - 1 \in Nat
         /\ \A i \in 1 .. Len(s) - 1 : Popped(s)[i] = s[i]
<1> DEFINE n == Len(s) - 1
<1>1. Len(s) \in Nat /\ n \in Nat /\ n \in Int /\ 1 \in Int
  OBVIOUS
<1>2. \A i \in 1 .. n : s[i] \in S
  BY <1>1, ElementOfSeq
<1> HIDE DEF n
<1>3. /\ SubSeq(s, 1, n) \in Seq(S)
      /\ Len(SubSeq(s, 1, n)) = IF 1 <= n THEN n - 1 + 1 ELSE 0
      /\ \A i \in 1 .. n - 1 + 1 : SubSeq(s, 1, n)[i] = s[1 + i - 1]
  BY <1>1, <1>2, SubSeqProperties
<1>4. Popped(s) = SubSeq(s, 1, n)
  BY DEF Popped, n
<1>5. Len(Popped(s)) = n /\ \A i \in 1 .. n : Popped(s)[i] = s[i]
  BY <1>1, <1>3, <1>4
<1> QED BY <1>1, <1>3, <1>4, <1>5 DEF n

\* A call stack: each function was called by one that calls it, and only the
\* three closers of calls and subsets close arguments.
Chain(s) ==
  /\ s \in Seq(Frame)
  /\ Len(s) > 0
  /\ s[1].fn = "Root"
  /\ \A i \in 2 .. Len(s) : s[i - 1].fn \in Callers[s[i].fn]
  /\ \A i \in 1 .. Len(s) : s[i].fn = "Arguments" => s[i].close \in DOMAIN CallNode

OpenIn(s, i) == {j \in 1 .. i : s[j].fn \in Bracketing}

\* The significance that belongs to a call stack.
Belongs(sig, s) ==
  /\ sig \in Seq(BOOLEAN)
  /\ Len(sig) = 1 + Cardinality(OpenIn(s, Len(s)))
  /\ sig[1]
  /\ \A i \in OpenIn(s, Len(s)) :
       sig[1 + Cardinality(OpenIn(s, i))] <=> s[i].fn = "Braces"

LEMMA OpenCount ==
  ASSUME NEW s, NEW k \in Nat, NEW i \in 0 .. k
  PROVE  /\ IsFiniteSet(OpenIn(s, i))
         /\ Cardinality(OpenIn(s, i)) \in Nat
         /\ Cardinality(OpenIn(s, i)) <= Cardinality(OpenIn(s, k))
<1>1. IsFiniteSet(1 .. k)
  BY FS_Interval
<1>2. OpenIn(s, k) \in SUBSET (1 .. k) /\ OpenIn(s, i) \in SUBSET OpenIn(s, k)
  BY DEF OpenIn
<1>3. IsFiniteSet(OpenIn(s, k))
  BY <1>1, <1>2, FS_Subset
<1> QED BY <1>2, <1>3, FS_Subset, FS_CardinalityType

LEMMA OpenAppend ==
  ASSUME NEW s \in Seq(Frame), NEW f \in Frame
  PROVE  /\ \A i \in 0 .. Len(s) : OpenIn(Append(s, f), i) = OpenIn(s, i)
         /\ OpenIn(Append(s, f), Len(s) + 1) =
              OpenIn(s, Len(s)) \cup (IF f.fn \in Bracketing THEN {Len(s) + 1} ELSE {})
  BY DEF OpenIn

LEMMA OpenPopped ==
  ASSUME NEW s \in Seq(Frame), Len(s) > 0
  PROVE  /\ \A i \in 0 .. Len(s) - 1 : OpenIn(Popped(s), i) = OpenIn(s, i)
         /\ OpenIn(s, Len(s)) =
              OpenIn(s, Len(s) - 1) \cup (IF s[Len(s)].fn \in Bracketing THEN {Len(s)} ELSE {})
  BY DEF OpenIn, Popped

\* Calling a function, and returning from one, keep a stack a call stack.
LEMMA ChainPush ==
  ASSUME NEW s, Chain(s), NEW f \in Frame, s[Len(s)].fn \in Callers[f.fn],
         f.fn = "Arguments" => f.close \in DOMAIN CallNode
  PROVE  /\ Chain(Append(s, f))
         /\ Len(Append(s, f)) = Len(s) + 1
         /\ Append(s, f)[Len(s) + 1] = f
         /\ Append(s, f)[Len(s)] = s[Len(s)]
         /\ Popped(Append(s, f)) = s
  BY DEF Chain, Popped

LEMMA ChainPop ==
  ASSUME NEW s, Chain(s), s[Len(s)].fn # "Root"
  PROVE  /\ Chain(Popped(s))
         /\ Len(s) > 1
         /\ Len(Popped(s)) = Len(s) - 1
         /\ s[Len(s) - 1].fn \in Callers[s[Len(s)].fn]
         /\ Popped(s)[Len(s) - 1] = s[Len(s) - 1]
<1>1. Len(s) > 1 /\ s \in Seq(Frame)
  BY DEF Chain
<1>2. /\ Popped(s) \in Seq(Frame)
      /\ Len(Popped(s)) = Len(s) - 1
      /\ \A i \in 1 .. Len(s) - 1 : Popped(s)[i] = s[i]
  BY <1>1, PoppedProperties
<1> DEFINE n == Len(s) - 1  t == Popped(s)
<1>3. n \in Nat /\ n > 0 /\ Len(t) = n /\ t \in Seq(Frame) /\ \A i \in 1 .. n : t[i] = s[i]
  BY <1>1, <1>2
<1> HIDE DEF t
<1>4. Chain(t)
  <2>1. t[1].fn = "Root"
    BY <1>3 DEF Chain
  <2>2. \A i \in 2 .. n : t[i - 1].fn \in Callers[t[i].fn]
    BY <1>3 DEF Chain
  <2>3. \A i \in 1 .. n : t[i].fn = "Arguments" => t[i].close \in DOMAIN CallNode
    BY <1>3 DEF Chain
  <2> QED BY <1>3, <2>1, <2>2, <2>3 DEF Chain
<1>5. s[n].fn \in Callers[s[n + 1].fn]
  BY <1>1, <1>3 DEF Chain
<1> QED BY <1>1, <1>3, <1>4, <1>5 DEF t

\* A function that opens no bracket leaves the significance alone, one that
\* does pushes and pops it.
LEMMA BelongsPush ==
  ASSUME NEW s \in Seq(Frame), NEW sig, Belongs(sig, s), NEW f \in Frame,
         f.fn \notin Bracketing
  PROVE  Belongs(sig, Append(s, f))
<1>1. /\ \A i \in 0 .. Len(s) : OpenIn(Append(s, f), i) = OpenIn(s, i)
      /\ OpenIn(Append(s, f), Len(s) + 1) = OpenIn(s, Len(s))
  BY OpenAppend
<1>2. Len(Append(s, f)) = Len(s) + 1 /\ \A i \in 1 .. Len(s) : Append(s, f)[i] = s[i]
  OBVIOUS
<1>3. \A i \in OpenIn(s, Len(s)) : i \in 1 .. Len(s)
  BY DEF OpenIn
<1> QED BY <1>1, <1>2, <1>3 DEF Belongs

LEMMA BelongsPushBracket ==
  ASSUME NEW s \in Seq(Frame), NEW sig, Belongs(sig, s), NEW f \in Frame,
         f.fn \in Bracketing, NEW b \in BOOLEAN, b <=> f.fn = "Braces"
  PROVE  Belongs(Append(sig, b), Append(s, f))
<1> DEFINE n == Len(s)  t == Append(s, f)  C(i) == Cardinality(OpenIn(s, i))
<1>1. n \in Nat /\ Len(t) = n + 1 /\ t[n + 1] = f /\ \A i \in 1 .. n : t[i] = s[i]
  OBVIOUS
<1>2. /\ \A i \in 0 .. n : OpenIn(t, i) = OpenIn(s, i)
      /\ OpenIn(t, n + 1) = OpenIn(s, n) \cup {n + 1}
  BY OpenAppend
<1>3. \A i \in 0 .. n : C(i) \in Nat /\ C(i) <= C(n) /\ IsFiniteSet(OpenIn(s, i))
  BY <1>1, OpenCount
<1>4. n + 1 \notin OpenIn(s, n)
  BY <1>1 DEF OpenIn
<1>5. Cardinality(OpenIn(t, n + 1)) = C(n) + 1
  <2>1. n \in 0 .. n /\ IsFiniteSet(OpenIn(s, n))
    BY <1>1, <1>3
  <2>2. Cardinality(OpenIn(s, n) \cup {n + 1}) = Cardinality(OpenIn(s, n)) + 1
    BY <1>4, <2>1, FS_AddElement
  <2> QED BY <1>2, <2>2
<1>6. sig \in Seq(BOOLEAN) /\ Len(sig) = 1 + C(n)
  BY DEF Belongs
<1>7. /\ Append(sig, b) \in Seq(BOOLEAN) /\ Len(Append(sig, b)) = C(n) + 2
      /\ Append(sig, b)[C(n) + 2] = b
      /\ \A i \in 1 .. 1 + C(n) : Append(sig, b)[i] = sig[i]
  BY <1>1, <1>3, <1>6, AppendProperties
<1>8. Append(sig, b)[1]
  BY <1>1, <1>3, <1>7 DEF Belongs
<1>9. ASSUME NEW i \in OpenIn(t, n + 1)
      PROVE  Append(sig, b)[1 + Cardinality(OpenIn(t, i))] <=> t[i].fn = "Braces"
  <2>1. CASE i = n + 1
    <3>1. Append(sig, b)[1 + Cardinality(OpenIn(t, i))] = b
      BY <1>3, <1>1, <1>5, <1>7, <2>1
    <3> QED BY <1>1, <2>1, <3>1
  <2>2. CASE i # n + 1
    <3>1. i \in OpenIn(s, n) /\ i \in 1 .. n
      BY <1>2, <2>2 DEF OpenIn
    <3>2. Append(sig, b)[1 + Cardinality(OpenIn(t, i))] = sig[1 + C(i)]
      BY <1>1, <1>2, <1>3, <1>7, <3>1
    <3> QED BY <1>1, <3>1, <3>2 DEF Belongs
  <2> QED BY <2>1, <2>2
<1>10. Len(Append(sig, b)) = 1 + Cardinality(OpenIn(t, n + 1))
  BY <1>1, <1>3, <1>5, <1>7
<1> HIDE DEF n, t
<1>11. Belongs(Append(sig, b), t)
  BY <1>1, <1>7, <1>8, <1>9, <1>10 DEF Belongs
<1> QED BY <1>11 DEF t

LEMMA BelongsPop ==
  ASSUME NEW s \in Seq(Frame), Len(s) > 0, NEW sig, Belongs(sig, s),
         s[Len(s)].fn \notin Bracketing
  PROVE  Belongs(sig, Popped(s))
<1>1. /\ \A i \in 0 .. Len(s) - 1 : OpenIn(Popped(s), i) = OpenIn(s, i)
      /\ OpenIn(s, Len(s)) = OpenIn(s, Len(s) - 1)
  BY OpenPopped
<1>2. /\ Len(Popped(s)) = Len(s) - 1 /\ Len(s) - 1 \in Nat
      /\ \A i \in 1 .. Len(s) - 1 : Popped(s)[i] = s[i]
  BY PoppedProperties
<1>3. \A i \in OpenIn(s, Len(s) - 1) : i \in 1 .. Len(s) - 1
  BY DEF OpenIn
<1> QED BY <1>1, <1>2, <1>3 DEF Belongs

LEMMA BelongsPopBracket ==
  ASSUME NEW s \in Seq(Frame), Len(s) > 0, NEW sig, Belongs(sig, s),
         s[Len(s)].fn \in Bracketing
  PROVE  Belongs(Popped(sig), Popped(s))
<1> DEFINE n == Len(s) - 1  t == Popped(s)  C(i) == Cardinality(OpenIn(s, i))
<1>1. n \in Nat /\ Len(s) = n + 1 /\ Len(t) = n /\ \A i \in 1 .. n : t[i] = s[i]
  BY PoppedProperties
<1>2. /\ \A i \in 0 .. n : OpenIn(t, i) = OpenIn(s, i)
      /\ OpenIn(s, n + 1) = OpenIn(s, n) \cup {n + 1}
  BY <1>1, OpenPopped
<1>3. \A i \in 0 .. n : C(i) \in Nat /\ C(i) <= C(n) /\ IsFiniteSet(OpenIn(s, i))
  BY <1>1, OpenCount
<1>4. n + 1 \notin OpenIn(s, n)
  BY <1>1 DEF OpenIn
<1>5. C(n + 1) = C(n) + 1
  <2>1. IsFiniteSet(OpenIn(s, n))
    BY <1>1, <1>3
  <2> QED BY <1>2, <1>4, <2>1, FS_AddElement
<1>6. sig \in Seq(BOOLEAN) /\ Len(sig) = 2 + C(n)
  BY <1>1, <1>3, <1>5 DEF Belongs
<1>7. /\ Popped(sig) \in Seq(BOOLEAN) /\ Len(Popped(sig)) = 1 + C(n)
      /\ \A i \in 1 .. 1 + C(n) : Popped(sig)[i] = sig[i]
  <2>1. Len(sig) > 0 /\ Len(sig) - 1 = 1 + C(n) /\ C(n) \in Nat
    BY <1>1, <1>3, <1>6
  <2> HIDE DEF C
  <2> QED BY <1>6, <2>1, PoppedProperties
<1>8. Popped(sig)[1]
  BY <1>1, <1>3, <1>7 DEF Belongs
<1>9. ASSUME NEW i \in OpenIn(t, n)
      PROVE  Popped(sig)[1 + Cardinality(OpenIn(t, i))] <=> t[i].fn = "Braces"
  <2>1. i \in 1 .. n /\ i \in OpenIn(s, n + 1)
    BY <1>1, <1>2 DEF OpenIn
  <2>2. Popped(sig)[1 + Cardinality(OpenIn(t, i))] = sig[1 + C(i)]
    BY <1>1, <1>2, <1>3, <1>7, <2>1
  <2> QED BY <1>1, <2>1, <2>2 DEF Belongs
<1>10. Cardinality(OpenIn(t, Len(t))) = C(n)
  BY <1>1, <1>2
<1> HIDE DEF n, t
<1>11. Belongs(Popped(sig), t)
  BY <1>1, <1>7, <1>8, <1>9, <1>10 DEF Belongs
<1> QED BY <1>11 DEF t

-----------------------------------------------------------------------------
(* The call graph, and what is on top of the stack at each step *)

LEMMA LastPartFunctions ==
  DOMAIN LastPartNode = {"FunctionDefinition", "For", "While", "Repeat", "Unary", "Binary",
                         "Extract", "Namespace"}
  BY DEF LastPartNode

LEMMA FunctionsAre ==
  Functions = {"Parenthesized", "Condition", "ForHeader", "Parameters", "Arguments", "Braces",
               "FunctionDefinition", "For", "While", "Repeat", "Unary", "Binary", "Extract",
               "Namespace", "Root", "ExpressionList", "Statement", "Expression", "String",
               "Call", "If", "Else", "Parameter", "Default", "Argument", "ArgumentName"}
  BY LastPartFunctions DEF Functions, Bracketing

LEMMA CallersOfExpression ==
  Callers["Expression"] = {"FunctionDefinition", "For", "While", "Repeat", "Unary", "Binary",
                           "Statement", "Parenthesized", "Condition", "ForHeader", "If",
                           "Else", "Default", "Argument"}
  BY FunctionsAre, LastPartFunctions DEF Callers, Operands

LEMMA CallersAre ==
  /\ Callers["ExpressionList"] = {"Root", "Braces"}
  /\ Callers["Statement"] = {"ExpressionList"}
  /\ Callers["String"] = {"Expression", "Extract", "Namespace", "ArgumentName"}
  /\ Callers["Condition"] = {"If", "While"}
  /\ Callers["ForHeader"] = {"For"}
  /\ Callers["Parameters"] = {"FunctionDefinition"}
  /\ Callers["Parameter"] = {"Parameters"}
  /\ Callers["Default"] = {"Parameter"}
  /\ Callers["Else"] = {"If"}
  /\ Callers["Arguments"] = {"Call"}
  /\ Callers["Argument"] = {"Arguments"}
  /\ Callers["ArgumentName"] = {"Argument"}
  /\ \A fn \in {"Parenthesized", "Braces", "FunctionDefinition", "For", "While", "Repeat",
                "Unary", "Binary", "Extract", "Namespace", "Call", "If"} :
       Callers[fn] = {"Expression"}
  BY FunctionsAre DEF Callers

LEMMA StepsAre ==
  /\ DOMAIN Steps = {"Root", "Done", "List", "Recover", "Prefix", "Selector", "String",
                     "StringEnd", "Condition", "ForHeader", "ForVariable", "ForIn",
                     "Parameters", "ParameterList", "ParameterName", "ParameterEnd",
                     "Arguments", "ArgumentValue", "CallClose", "Return", "Fail"}
  /\ Steps["Return"] = {"FunctionDefinition", "For", "While", "Repeat", "Unary", "Binary",
                        "Statement", "Parenthesized", "Condition", "ForHeader", "If", "Else",
                        "Default", "Argument", "Expression", "Extract", "Namespace",
                        "ArgumentName", "Root", "Braces"}
  /\ Steps["Fail"] = Functions \ {"Root", "ExpressionList"}
  BY CallersOfExpression, CallersAre DEF Steps

-----------------------------------------------------------------------------
(* Calls and returns, for the stack together with its significance *)

LastFn(s) == s[Len(s)].fn

Running(s, sig) == Chain(s) /\ Belongs(sig, s)

Good(s, sig, step) ==
  /\ Running(s, sig)
  /\ step \in DOMAIN Steps
  /\ LastFn(s) \in Steps[step]

LEMMA FrameTypes ==
  /\ \A fn \in Functions, from \in Nat : Call(fn, from) \in Frame /\ Call(fn, from).fn = fn
  /\ \A fn \in Functions, from \in Nat, close \in Closers :
       /\ List(fn, from, close) \in Frame
       /\ List(fn, from, close).fn = fn
       /\ List(fn, from, close).close = close
  /\ \A bp \in 0 .. MaxPower : Expression(bp) \in Frame /\ Expression(bp).fn = "Expression"
<1>1. "Expression" \in Functions /\ "EOF" \in Closers /\ 0 \in 0 .. MaxPower
  BY FunctionsAre DEF Closers, MaxPower
<1> QED BY <1>1 DEF Call, List, Expression, Frame

LEMMA RunPush ==
  ASSUME NEW s, NEW sig, Running(s, sig), NEW f \in Frame, f.fn \notin Bracketing,
         LastFn(s) \in Callers[f.fn]
  PROVE  Running(Append(s, f), sig) /\ LastFn(Append(s, f)) = f.fn
<1>1. f.fn # "Arguments"
  BY DEF Bracketing
<1>2. Chain(Append(s, f)) /\ LastFn(Append(s, f)) = f.fn
  BY <1>1, ChainPush DEF Running, LastFn
<1> QED BY <1>2, BelongsPush DEF Running, Chain

LEMMA RunPushBracket ==
  ASSUME NEW s, NEW sig, Running(s, sig), NEW f \in Frame, f.fn \in Bracketing,
         LastFn(s) \in Callers[f.fn], NEW b \in BOOLEAN, b <=> f.fn = "Braces",
         f.fn = "Arguments" => f.close \in DOMAIN CallNode
  PROVE  Running(Append(s, f), Append(sig, b)) /\ LastFn(Append(s, f)) = f.fn
<1>1. Chain(Append(s, f)) /\ LastFn(Append(s, f)) = f.fn
  BY ChainPush DEF Running, LastFn
<1> QED BY <1>1, BelongsPushBracket DEF Running, Chain

LEMMA RunPop ==
  ASSUME NEW s, NEW sig, Running(s, sig), LastFn(s) # "Root", LastFn(s) \notin Bracketing
  PROVE  Running(Popped(s), sig) /\ LastFn(Popped(s)) \in Callers[LastFn(s)]
<1>1. Chain(Popped(s)) /\ LastFn(Popped(s)) \in Callers[LastFn(s)]
  BY ChainPop DEF Running, LastFn
<1> QED BY <1>1, BelongsPop DEF Running, Chain, LastFn

LEMMA RunPopBracket ==
  ASSUME NEW s, NEW sig, Running(s, sig), LastFn(s) \in Bracketing
  PROVE  Running(Popped(s), Popped(sig)) /\ LastFn(Popped(s)) \in Callers[LastFn(s)]
<1>1. LastFn(s) # "Root"
  BY DEF Bracketing
<1>2. Chain(Popped(s)) /\ LastFn(Popped(s)) \in Callers[LastFn(s)]
  BY <1>1, ChainPop DEF Running, LastFn
<1> QED BY <1>2, BelongsPopBracket DEF Running, Chain, LastFn

LEMMA TwoPushed ==
  ASSUME NEW s, Chain(s), NEW f, NEW g
  PROVE  s \o <<f, g>> = Append(Append(s, f), g)
  BY DEF Chain

LEMMA TwoPopped ==
  ASSUME NEW s, Chain(s), Len(s) > 1
  PROVE  SubSeq(s, 1, Len(s) - 2) = Popped(Popped(s))
<1>1. s \in Seq(Frame)
  BY DEF Chain
<1> QED BY <1>1, PoppedProperties DEF Popped

\* A function that goes on with other locals.
LEMMA RunReplace ==
  ASSUME NEW s, NEW sig, Running(s, sig), NEW f \in Frame,
         f.fn = LastFn(s), f.close = s[Len(s)].close, LastFn(s) # "Root"
  PROVE  Running(Append(Popped(s), f), sig) /\ LastFn(Append(Popped(s), f)) = f.fn
<1> DEFINE t == Append(Popped(s), f)
<1>1. s \in Seq(Frame) /\ Len(s) \in Nat /\ Len(s) > 1
  BY ChainPop DEF Running, Chain, LastFn
<1>2. Chain(Popped(s)) /\ Len(Popped(s)) = Len(s) - 1
  BY ChainPop DEF Running, LastFn
<1>3. /\ t \in Seq(Frame) /\ Len(t) = Len(s) /\ t[Len(s)] = f
      /\ \A i \in 1 .. Len(s) - 1 : t[i] = s[i]
  <2>1. Popped(s) \in Seq(Frame) /\ \A i \in 1 .. Len(s) - 1 : Popped(s)[i] = s[i]
    BY <1>1, PoppedProperties
  <2> QED BY <1>1, <1>2, <2>1
<1>4. \A i \in 1 .. Len(s) : t[i].fn = s[i].fn /\ t[i].close = s[i].close
  BY <1>1, <1>3 DEF LastFn
<1> HIDE DEF t
<1>5. Chain(t)
  <2>1. t[1].fn = "Root"
    BY <1>1, <1>4 DEF Running, Chain
  <2>2. ASSUME NEW i \in 2 .. Len(s) PROVE t[i - 1].fn \in Callers[t[i].fn]
    <3>1. s[i - 1].fn \in Callers[s[i].fn]
      BY DEF Running, Chain
    <3>2. t[i - 1].fn = s[i - 1].fn /\ t[i].fn = s[i].fn
      <4>1. i \in 1 .. Len(s) /\ i - 1 \in 1 .. Len(s)
        BY <1>1
      <4> QED BY <1>4, <4>1
    <3> QED BY <3>1, <3>2
  <2>3. \A i \in 1 .. Len(s) : t[i].fn = "Arguments" => t[i].close \in DOMAIN CallNode
    BY <1>4 DEF Running, Chain
  <2>4. t \in Seq(Frame) /\ Len(t) > 0 /\ Len(t) = Len(s)
    BY <1>1, <1>3
  <2> QED BY <2>1, <2>2, <2>3, <2>4 DEF Chain
<1>6. \A i \in 0 .. Len(s) : OpenIn(t, i) = OpenIn(s, i)
  BY <1>1, <1>4 DEF OpenIn
<1>7. Belongs(sig, t)
  <2>1. \A i \in OpenIn(s, Len(s)) : i \in 1 .. Len(s)
    BY DEF OpenIn
  <2>2. Len(sig) = 1 + Cardinality(OpenIn(t, Len(t))) /\ OpenIn(t, Len(t)) = OpenIn(s, Len(s))
    BY <1>1, <1>3, <1>6 DEF Running, Belongs
  <2>3. ASSUME NEW i \in OpenIn(s, Len(s))
        PROVE  sig[1 + Cardinality(OpenIn(t, i))] <=> t[i].fn = "Braces"
    <3>1. OpenIn(t, i) = OpenIn(s, i) /\ t[i].fn = s[i].fn
      BY <1>1, <1>4, <1>6, <2>1
    <3> QED BY <3>1 DEF Running, Belongs
  <2> QED BY <2>2, <2>3 DEF Running, Belongs
<1> QED BY <1>3, <1>5, <1>7 DEF Running, t, LastFn

\* A construct calls parse_expression for its operand, inside a bracket or not.
LEMMA RunOperand ==
  ASSUME NEW s, NEW sig, Running(s, sig), NEW fn \in Functions \ Bracketing,
         fn \in Callers["Expression"], LastFn(s) \in Callers[fn],
         NEW from \in Nat, NEW bp \in 0 .. MaxPower
  PROVE  Good(s \o <<Call(fn, from), Expression(bp)>>, sig, "Prefix")
<1> DEFINE f == Call(fn, from)  g == Expression(bp)
<1>1. f \in Frame /\ f.fn = fn /\ g \in Frame /\ g.fn = "Expression"
  BY FrameTypes
<1> HIDE DEF f, g
<1>2. Running(Append(s, f), sig) /\ LastFn(Append(s, f)) = fn
  BY <1>1, RunPush
<1>3. /\ Running(Append(Append(s, f), g), sig)
      /\ LastFn(Append(Append(s, f), g)) = "Expression"
  BY <1>1, <1>2, RunPush DEF Bracketing
<1>4. Good(Append(Append(s, f), g), sig, "Prefix")
  BY <1>3, StepsAre DEF Good, Steps
<1>5. s \o <<f, g>> = Append(Append(s, f), g)
  BY TwoPushed DEF Running
<1> QED BY <1>4, <1>5 DEF f, g

\* A bracket in which newlines do not matter is opened.
LEMMA RunOpen ==
  ASSUME NEW s, NEW sig, Running(s, sig),
         NEW fn \in {"Parenthesized", "Condition", "ForHeader", "Parameters"},
         LastFn(s) \in Callers[fn], NEW from \in Nat
  PROVE  /\ Running(Append(s, Call(fn, from)), Append(sig, FALSE))
         /\ LastFn(Append(s, Call(fn, from))) = fn
<1> DEFINE f == Call(fn, from)
<1>1. fn \in Functions /\ fn \in Bracketing /\ fn # "Braces" /\ fn # "Arguments"
  BY FunctionsAre DEF Bracketing
<1>2. f \in Frame /\ f.fn = fn
  BY <1>1, FrameTypes
<1> HIDE DEF f
<1>3. Running(Append(s, f), Append(sig, FALSE)) /\ LastFn(Append(s, f)) = fn
  BY <1>1, <1>2, RunPushBracket
<1> QED BY <1>3 DEF f

LEMMA RunOperandInBracket ==
  ASSUME NEW s, NEW sig, Running(s, sig), NEW fn \in {"Parenthesized", "Condition"},
         LastFn(s) \in Callers[fn], NEW from \in Nat
  PROVE  Good(s \o <<Call(fn, from), Expression(0)>>, Append(sig, FALSE), "Prefix")
<1> DEFINE f == Call(fn, from)  g == Expression(0)
<1>1. 0 \in 0 .. MaxPower
  BY DEF MaxPower
<1>2. g \in Frame /\ g.fn = "Expression"
  BY <1>1, FrameTypes
<1>3. Running(Append(s, f), Append(sig, FALSE)) /\ LastFn(Append(s, f)) = fn
  <2>1. fn \in {"Parenthesized", "Condition", "ForHeader", "Parameters"}
    OBVIOUS
  <2> QED BY <2>1, RunOpen
<1> HIDE DEF f, g
<1>4. /\ Running(Append(Append(s, f), g), Append(sig, FALSE))
      /\ LastFn(Append(Append(s, f), g)) = "Expression"
  BY <1>2, <1>3, RunPush, CallersOfExpression DEF Bracketing
<1>5. Good(Append(Append(s, f), g), Append(sig, FALSE), "Prefix")
  BY <1>4, StepsAre DEF Good, Steps
<1>6. s \o <<f, g>> = Append(Append(s, f), g)
  BY TwoPushed DEF Running
<1> QED BY <1>5, <1>6 DEF f, g

\* A bare call of parse_expression.
LEMMA RunExpression ==
  ASSUME NEW s, NEW sig, Running(s, sig), LastFn(s) \in Callers["Expression"],
         NEW bp \in 0 .. MaxPower
  PROVE  Good(Append(s, Expression(bp)), sig, "Prefix")
<1>1. Expression(bp) \in Frame /\ Expression(bp).fn = "Expression"
  BY FrameTypes
<1>2. /\ Running(Append(s, Expression(bp)), sig)
      /\ LastFn(Append(s, Expression(bp))) = "Expression"
  BY <1>1, RunPush DEF Bracketing
<1> QED BY <1>2, StepsAre DEF Good, Steps

\* Some(node) is returned to a function that waits for it.
LEMMA RunReturn ==
  ASSUME NEW s, NEW sig, Running(s, sig), LastFn(s) # "Root", LastFn(s) \notin Bracketing,
         Callers[LastFn(s)] \subseteq Steps["Return"]
  PROVE  Good(Popped(s), sig, "Return")
  BY RunPop, StepsAre DEF Good

-----------------------------------------------------------------------------
(* The invariant *)

ParserInv ==
  /\ SourceInv
  /\ Good(stack, significance, pc)
  /\ value \in Node
  /\ diagnostics \in Seq(Nat)
  /\ nodes \subseteq Node
  /\ FailureIsRecorded

\* What the invariant says of the state a step starts from.
LEMMA InvFacts ==
  ASSUME ParserInv
  PROVE  /\ at \in Nat \ {0} /\ at - 1 \in Nat /\ CurrentEnd \in Nat
         /\ current \in TokenKinds
         /\ stack \in Seq(Frame) /\ Len(stack) \in Nat \ {0} /\ Chain(stack)
         /\ Running(stack, significance)
         /\ Top \in Frame /\ Top.fn \in Steps[pc] /\ Top.fn = LastFn(stack)
         /\ Top.from \in Nat /\ Top.fn \in Functions
         /\ Below = Popped(stack)
         /\ value.first \in Nat
<1>1. SourceTypeOK /\ Extent
  BY DEF ParserInv, SourceInv
<1>2. at \in Nat \ {0} /\ Len(text) \in Nat /\ at <= Len(text) /\ current \in TokenKinds
  BY <1>1 DEF SourceTypeOK
<1>3. CurrentEnd \in Nat
  BY <1>1, <1>2 DEF CurrentEnd
<1>4. /\ stack \in Seq(Frame) /\ Len(stack) \in Nat \ {0} /\ Chain(stack)
      /\ Running(stack, significance) /\ LastFn(stack) \in Steps[pc]
  BY DEF ParserInv, Good, Running, Chain
<1>5. Top \in Frame
  BY <1>4 DEF Top
<1>6. value \in Node
  BY DEF ParserInv
<1> QED BY <1>2, <1>3, <1>4, <1>5, <1>6 DEF Top, LastFn, Below, Popped, Frame, Node

\* What a step starts with on top of the stack.
LEMMA TopAt ==
  ASSUME ParserInv
  PROVE  /\ pc \in {"Root", "Done"} => Top.fn = "Root"
         /\ pc = "List" => Top.fn = "ExpressionList"
         /\ pc = "Recover" => Top.fn = "Statement"
         /\ pc = "Prefix" => Top.fn = "Expression"
         /\ pc = "Selector" => Top.fn \in {"Extract", "Namespace"}
         /\ pc \in {"String", "StringEnd"} => Top.fn = "String"
         /\ pc = "Condition" => Top.fn \in {"If", "While"}
         /\ pc = "ForHeader" => Top.fn = "For"
         /\ pc \in {"ForVariable", "ForIn"} => Top.fn = "ForHeader"
         /\ pc = "Parameters" => Top.fn = "FunctionDefinition"
         /\ pc \in {"ParameterList", "ParameterEnd"} => Top.fn = "Parameters"
         /\ pc = "ParameterName" => Top.fn = "Parameter"
         /\ pc \in {"Arguments", "CallClose"} => Top.fn = "Arguments"
         /\ pc = "ArgumentValue" => Top.fn = "Argument"
         /\ pc = "Return" => Top.fn \in Steps["Return"]
         /\ pc = "Fail" => Top.fn \in Functions \ {"Root", "ExpressionList"}
<1>1. Top.fn \in Steps[pc]
  BY InvFacts
<1> QED BY <1>1 DEF Steps

-----------------------------------------------------------------------------
(* The stack, action by action *)

GoodNext == Good(stack', significance', pc')

\* None is returned: the function that receives it gets back its caller's
\* significance.
LEMMA PropagateGood == ParserInv /\ Propagate => GoodNext
<1> SUFFICES ASSUME ParserInv, Propagate PROVE GoodNext
  OBVIOUS
<1>1. /\ Top.fn = LastFn(stack) /\ Below = Popped(stack) /\ Running(stack, significance)
      /\ Top.fn \in Functions \ {"Root", "ExpressionList", "Statement"}
  BY InvFacts, TopAt DEF Propagate
<1>2. stack' = Below /\ pc' = "Fail"
  BY DEF Propagate, Leave, Continue, Goto
<1>3. Running(stack', significance') /\ LastFn(stack') \in Callers[Top.fn]
  <2>1. CASE Top.fn \in Bracketing
    <3>1. significance' = Popped(significance)
      BY <2>1 DEF Propagate, Leave, PopSignificance, Popped
    <3> QED BY <1>1, <1>2, <2>1, <3>1, RunPopBracket
  <2>2. CASE Top.fn \notin Bracketing
    <3>1. significance' = significance
      BY <2>2 DEF Propagate, Continue
    <3> QED BY <1>1, <1>2, <2>2, <3>1, RunPop
  <2> QED BY <2>1, <2>2
<1>4. LastFn(stack') \in Functions \ {"Root", "ExpressionList"}
  BY <1>1, <1>3, FunctionsAre, CallersAre, CallersOfExpression
<1> QED BY <1>2, <1>3, <1>4, StepsAre DEF GoodNext, Good

\* Steps that leave the stack alone.
LEMMA FailGood == ParserInv /\ Fail /\ Top.fn \notin {"Root", "ExpressionList"} => GoodNext
<1> SUFFICES ASSUME ParserInv, Fail, Top.fn \notin {"Root", "ExpressionList"} PROVE GoodNext
  OBVIOUS
<1>1. stack' = stack /\ significance' = significance /\ pc' = "Fail"
  BY DEF Fail, Continue, Goto
<1> QED BY <1>1, InvFacts, StepsAre DEF GoodNext, Good

LEMMA ModGood == ParserInv /\ GrammarMod => GoodNext
<1> SUFFICES ASSUME ParserInv, GrammarMod PROVE GoodNext
  OBVIOUS
<1> USE DEF GoodNext, Good, Continue, Goto
<1>0. /\ at \in Nat /\ CurrentEnd + 1 \in Nat /\ Running(stack, significance)
      /\ Top.fn = LastFn(stack) /\ Below = Popped(stack) /\ Chain(stack) /\ Top \in Frame
  BY InvFacts
<1>1. CASE ParseRoot
  <2>1. PICK from \in Nat :
          /\ stack' = Append(stack, List("ExpressionList", from, "EOF"))
          /\ significance' = significance /\ pc' = "List"
    BY <1>0, <1>1 DEF ParseRoot
  <2>2. LastFn(stack) = "Root"
    BY <1>0, <1>1, TopAt DEF ParseRoot
  <2>3. /\ List("ExpressionList", from, "EOF") \in Frame
        /\ List("ExpressionList", from, "EOF").fn = "ExpressionList"
    BY FrameTypes, FunctionsAre DEF Closers
  <2>4. Running(stack', significance') /\ LastFn(stack') = "ExpressionList"
    BY <1>0, <2>1, <2>2, <2>3, RunPush, CallersAre DEF Bracketing
  <2> QED BY <2>1, <2>4, StepsAre DEF Steps
<1>2. CASE RootParsed
  <2>1. stack' = stack /\ significance' = significance /\ pc' = "Done"
    BY <1>2 DEF RootParsed
  <2>2. LastFn(stack) = "Root"
    BY <1>0, <1>2 DEF RootParsed, Returned
  <2> QED BY <1>0, <2>1, <2>2, StepsAre DEF Steps
<1>3. CASE ParseStatement
  <2>1. /\ stack' = stack \o <<Call("Statement", at), Expression(0)>>
        /\ significance' = significance /\ pc' = "Prefix"
    BY <1>3 DEF ParseStatement
  <2>2. LastFn(stack) = "ExpressionList"
    BY <1>0, <1>3, TopAt DEF ParseStatement
  <2>3. "Statement" \in Functions \ Bracketing /\ 0 \in 0 .. MaxPower
    BY FunctionsAre DEF Bracketing, MaxPower
  <2> QED BY <1>0, <2>1, <2>2, <2>3, RunOperand, CallersAre, CallersOfExpression
<1>4. CASE StatementParsed
  <2>1. stack' = Popped(stack) /\ significance' = significance /\ pc' = "List"
    BY <1>0, <1>4 DEF StatementParsed
  <2>2. LastFn(stack) = "Statement"
    BY <1>0, <1>4 DEF StatementParsed, Returned
  <2>3. Running(stack', significance') /\ LastFn(stack') = "ExpressionList"
    BY <1>0, <2>1, <2>2, RunPop, CallersAre DEF Bracketing
  <2> QED BY <2>1, <2>3, StepsAre DEF Steps
<1>5. CASE EndList
  <2>1. stack' = Popped(stack) /\ significance' = significance /\ pc' = "Return"
    BY <1>0, <1>5 DEF EndList, Return, Yield
  <2>2. LastFn(stack) = "ExpressionList"
    BY <1>0, <1>5, TopAt DEF EndList
  <2>3. Running(stack', significance') /\ LastFn(stack') \in {"Root", "Braces"}
    BY <1>0, <2>1, <2>2, RunPop, CallersAre DEF Bracketing
  <2> QED BY <2>1, <2>3, StepsAre
<1>6. CASE RecoverStatement \/ SkipToken
  <2>1. /\ \/ stack' = stack
           \/ stack' = Append(Popped(stack), [Top EXCEPT !.previous = "Progress"])
        /\ significance' = significance /\ pc' = "Recover"
    BY <1>0, <1>6 DEF RecoverStatement, SkipToken, WithTop
  <2>2. LastFn(stack) = "Statement"
    BY <1>0, <1>6, TopAt DEF RecoverStatement, SkipToken
  <2>3. Running(stack', significance') /\ LastFn(stack') = "Statement"
    <3> DEFINE f == [Top EXCEPT !.previous = "Progress"]
    <3>1. f \in Frame /\ f.fn = Top.fn /\ f.close = Top.close
      BY <1>0 DEF Frame
    <3>2. Running(Append(Popped(stack), f), significance) /\ LastFn(Append(Popped(stack), f)) = f.fn
      BY <1>0, <2>2, <3>1, RunReplace DEF Top
    <3> QED BY <1>0, <2>1, <2>2, <3>1, <3>2
  <2> QED BY <2>1, <2>3, StepsAre DEF Steps
<1>7. CASE Recovered
  <2>1. stack' = Popped(stack) /\ significance' = significance /\ pc' = "List"
    BY <1>0, <1>7 DEF Recovered
  <2>2. LastFn(stack) = "Statement"
    BY <1>0, <1>7, TopAt DEF Recovered
  <2>3. Running(stack', significance') /\ LastFn(stack') = "ExpressionList"
    BY <1>0, <2>1, <2>2, RunPop, CallersAre DEF Bracketing
  <2> QED BY <2>1, <2>3, StepsAre DEF Steps
<1> QED BY <1>1, <1>2, <1>3, <1>4, <1>5, <1>6, <1>7 DEF GrammarMod

\* Every binding power is one.
LEMMA PowerTypes ==
  /\ \A k \in UnaryOperators : UnaryPower[k] \in 0 .. MaxPower
  /\ \A k \in BinaryOperators : BinaryPower[k][2] \in 0 .. MaxPower
  /\ {0, FUNCTION_BODY_BP, IF_BODY_BP} \subseteq 0 .. MaxPower
  BY DEF UnaryOperators, UnaryPower, BinaryOperators, BinaryPower, MaxPower,
         FUNCTION_BODY_BP, IF_BODY_BP

\* parse_value returns a node, or calls parse_string.
LEMMA ValueGood ==
  ASSUME NEW s, Running(s, significance), LastFn(s) \in Callers["String"], at \in Nat,
         ParseValue(s)
  PROVE  GoodNext
<1> USE DEF GoodNext, Good, Continue, Goto
<1>1. CASE current = "STRING_OPEN"
  <2>1. /\ stack' = Append(s, Call("String", at))
        /\ significance' = significance /\ pc' = "String"
    BY <1>1 DEF ParseValue
  <2>2. Call("String", at) \in Frame /\ Call("String", at).fn = "String"
    BY FrameTypes, FunctionsAre
  <2>3. Running(stack', significance') /\ LastFn(stack') = "String"
    BY <2>1, <2>2, RunPush DEF Bracketing
  <2> QED BY <2>1, <2>3, StepsAre DEF Steps
<1>2. CASE current # "STRING_OPEN"
  <2>1. stack' = s /\ significance' = significance /\ pc' = "Return"
    BY <1>2 DEF ParseValue, Return, Yield
  <2> QED BY <2>1, CallersAre, StepsAre
<1> QED BY <1>1, <1>2

LEMMA ExpressionsGood == ParserInv /\ GrammarExpressions => GoodNext
<1> SUFFICES ASSUME ParserInv, GrammarExpressions PROVE GoodNext
  OBVIOUS
<1> USE DEF GoodNext, Continue, Goto
<1>0. /\ at \in Nat /\ Running(stack, significance) /\ value.first \in Nat
      /\ Top.fn = LastFn(stack) /\ Below = Popped(stack) /\ Top \in Frame
  BY InvFacts
<1>1. /\ "Expression" \in Functions
      /\ {"Unary", "FunctionDefinition", "If", "While", "For", "Repeat", "Binary", "Extract",
          "Namespace"} \subseteq Functions \ Bracketing
      /\ \A fn \in {"Unary", "FunctionDefinition", "If", "While", "For", "Repeat", "Binary",
                    "Extract", "Namespace"} : Callers[fn] = {"Expression"}
  BY FunctionsAre, CallersAre DEF Bracketing
<1>2. CASE ParseUnary
  <2>1. /\ stack' = stack \o <<Call("Unary", at), Expression(UnaryPower[current])>>
        /\ significance' = significance /\ pc' = "Prefix" /\ LastFn(stack) = "Expression"
    BY <1>0, <1>2, TopAt DEF ParseUnary
  <2>2. UnaryPower[current] \in 0 .. MaxPower
    BY <1>2, PowerTypes DEF ParseUnary
  <2> QED BY <1>0, <1>1, <2>1, <2>2, RunOperand, CallersOfExpression
<1>3. CASE ParseConstruct
  <2>1. LastFn(stack) = "Expression" /\ significance' = significance
    BY <1>0, <1>3, TopAt DEF ParseConstruct
  <2>2. CASE current = "REPEAT_KW"
    <3>1. /\ stack' = stack \o <<Call("Repeat", at), Expression(FUNCTION_BODY_BP)>>
          /\ pc' = "Prefix"
      BY <1>3, <2>2 DEF ParseConstruct
    <3> QED BY <1>0, <1>1, <2>1, <3>1, RunOperand, CallersOfExpression, PowerTypes
  <2>3. CASE current # "REPEAT_KW"
    <3>1. PICK fn \in {"FunctionDefinition", "If", "While", "For"} :
            stack' = Append(stack, Call(fn, at)) /\ fn \in Steps[pc'] /\ pc' \in DOMAIN Steps
      BY <1>3, <2>3, StepsAre DEF ParseConstruct, Steps
    <3>2. Call(fn, at) \in Frame /\ Call(fn, at).fn = fn
      BY <1>0, <1>1, FrameTypes
    <3>3. Running(stack', significance') /\ LastFn(stack') = fn
      BY <1>0, <1>1, <2>1, <3>1, <3>2, RunPush
    <3> QED BY <3>1, <3>3 DEF Good
  <2> QED BY <2>2, <2>3
<1>4. CASE ParsePrefixValue
  <2>1. LastFn(stack) \in Callers["String"] /\ ParseValue(stack)
    BY <1>0, <1>4, TopAt, CallersAre DEF ParsePrefixValue
  <2> QED BY <1>0, <2>1, ValueGood
<1>5. CASE ParseNoPrefix
  BY <1>5, TopAt, FailGood DEF ParseNoPrefix, Expected
<1>6. CASE EndExpression
  <2>1. /\ stack' = Popped(stack) /\ significance' = significance /\ pc' = "Return"
        /\ LastFn(stack) = "Expression"
    BY <1>0, <1>6 DEF EndExpression, Return, Yield, Returned
  <2>2. Callers["Expression"] \subseteq Steps["Return"]
    BY CallersOfExpression, StepsAre
  <2> QED BY <1>0, <2>1, <2>2, RunReturn DEF Bracketing
<1>7. CASE ParseBinary
  <2>1. /\ stack' = stack \o <<Call("Binary", value.first), Expression(BinaryPower[current][2])>>
        /\ significance' = significance /\ pc' = "Prefix" /\ LastFn(stack) = "Expression"
    BY <1>0, <1>7 DEF ParseBinary, Returned
  <2>2. BinaryPower[current][2] \in 0 .. MaxPower
    BY <1>7, PowerTypes DEF ParseBinary
  <2> QED BY <1>0, <1>1, <2>1, <2>2, RunOperand, CallersOfExpression
<1>8. CASE ParseExtract \/ ParseNamespace
  <2>1. PICK fn \in {"Extract", "Namespace"} : stack' = Append(stack, Call(fn, value.first))
    BY <1>8 DEF ParseExtract, ParseNamespace
  <2>2. significance' = significance /\ pc' = "Selector" /\ LastFn(stack) = "Expression"
    BY <1>0, <1>8 DEF ParseExtract, ParseNamespace, Returned
  <2>3. Call(fn, value.first) \in Frame /\ Call(fn, value.first).fn = fn
    BY <1>0, <1>1, FrameTypes
  <2>4. Running(stack', significance') /\ LastFn(stack') = fn
    BY <1>0, <1>1, <2>1, <2>2, <2>3, RunPush
  <2> QED BY <2>2, <2>4, StepsAre DEF Good, Steps
<1>9. CASE ParseNamespaceOfOther
  BY <1>9, FailGood DEF ParseNamespaceOfOther, Expected, Returned
<1>10. CASE ParseSelector
  <2>1. LastFn(stack) \in Callers["String"] /\ ParseValue(stack)
    BY <1>0, <1>10, TopAt, CallersAre DEF ParseSelector
  <2> QED BY <1>0, <2>1, ValueGood
<1>11. CASE ParseNoSelector \/ LastPartParsed
  <2>1. stack' = Popped(stack) /\ significance' = significance /\ pc' = "Return"
    BY <1>0, <1>11 DEF ParseNoSelector, LastPartParsed, Return, Yield
  <2>2. LastFn(stack) \in DOMAIN LastPartNode
    BY <1>0, <1>11, TopAt, LastPartFunctions DEF ParseNoSelector, LastPartParsed
  <2>3. /\ Callers[LastFn(stack)] \subseteq Steps["Return"]
        /\ LastFn(stack) # "Root" /\ LastFn(stack) \notin Bracketing
    BY <2>2, LastPartFunctions, CallersAre, StepsAre DEF Bracketing
  <2> QED BY <1>0, <2>1, <2>3, RunReturn
<1>12. CASE ParseStringContent
  <2>1. /\ stack' = stack /\ significance' = significance /\ pc' = "StringEnd"
        /\ LastFn(stack) = "String"
    BY <1>0, <1>12, TopAt DEF ParseStringContent
  <2> QED BY <1>0, <2>1, StepsAre DEF Good, Steps
<1>13. CASE ParseStringClose
  <2>1. /\ stack' = Popped(stack) /\ significance' = significance /\ pc' = "Return"
        /\ LastFn(stack) = "String"
    BY <1>0, <1>13, TopAt DEF ParseStringClose, Return, Yield
  <2>2. Callers["String"] \subseteq Steps["Return"]
    BY CallersAre, StepsAre
  <2> QED BY <1>0, <2>1, <2>2, RunReturn DEF Bracketing
<1>14. CASE ParseStringUnterminated
  BY <1>14, TopAt, FailGood DEF ParseStringUnterminated, Expected
<1> QED BY <1>2, <1>3, <1>4, <1>5, <1>6, <1>7, <1>8, <1>9, <1>10, <1>11, <1>12, <1>13, <1>14
        DEF GrammarExpressions

\* Some(node) is returned by a function that closes its bracket.
LEMMA RunReturnBracket ==
  ASSUME NEW s, NEW sig, Running(s, sig), LastFn(s) \in Bracketing,
         Callers[LastFn(s)] \subseteq Steps["Return"]
  PROVE  Good(Popped(s), Popped(sig), "Return")
  BY RunPopBracket, StepsAre DEF Good

\* The bracket of a construct is closed, and its body is parsed next.
LEMMA RunBody ==
  ASSUME NEW s, NEW sig, Running(s, sig), LastFn(s) \in {"Condition", "ForHeader", "Parameters"},
         NEW bp \in 0 .. MaxPower
  PROVE  Good(Append(Popped(s), Expression(bp)), Popped(sig), "Prefix")
<1>1. Running(Popped(s), Popped(sig)) /\ LastFn(Popped(s)) \in Callers[LastFn(s)]
  BY RunPopBracket DEF Bracketing
<1>2. LastFn(Popped(s)) \in Callers["Expression"]
  BY <1>1, CallersAre, CallersOfExpression
<1> QED BY <1>1, <1>2, RunExpression

LEMMA ControlGood == ParserInv /\ GrammarControl => GoodNext
<1> SUFFICES ASSUME ParserInv, GrammarControl PROVE GoodNext
  OBVIOUS
<1> USE DEF GoodNext, Continue, Goto, Enter, Leave, Yield, Return
<1>0. /\ at \in Nat /\ CurrentEnd + 1 \in Nat /\ Running(stack, significance)
      /\ Top.fn = LastFn(stack) /\ Below = Popped(stack) /\ Chain(stack)
      /\ PopSignificance => significance' = Popped(significance)
  BY InvFacts DEF PopSignificance, Popped
<1>1. /\ {"Parenthesized", "Condition", "ForHeader", "Braces"} \subseteq Bracketing
      /\ {"If", "Else", "Expression"} \subseteq Functions \ Bracketing
      /\ 0 \in 0 .. MaxPower
  BY FunctionsAre DEF Bracketing, MaxPower
<1>2. CASE ParseParenthesized
  <2>1. /\ stack' = stack \o <<Call("Parenthesized", at), Expression(0)>>
        /\ significance' = Append(significance, FALSE) /\ pc' = "Prefix"
        /\ LastFn(stack) = "Expression"
    BY <1>0, <1>2, TopAt DEF ParseParenthesized
  <2>2. LastFn(stack) \in Callers["Parenthesized"]
    BY <2>1, CallersAre
  <2> QED BY <1>0, <2>1, <2>2, RunOperandInBracket
<1>3. CASE ParenthesizedParsed
  <2>1. /\ stack' = Popped(stack) /\ significance' = Popped(significance) /\ pc' = "Return"
        /\ LastFn(stack) = "Parenthesized"
    BY <1>0, <1>3 DEF ParenthesizedParsed, Returned
  <2>2. Callers["Parenthesized"] \subseteq Steps["Return"]
    BY CallersAre, StepsAre
  <2> QED BY <1>0, <1>1, <2>1, <2>2, RunReturnBracket
<1>4. CASE ParseBraces
  <2> DEFINE f == Call("Braces", at)  g == List("ExpressionList", CurrentEnd + 1, "R_CURLY")
  <2>1. /\ stack' = stack \o <<f, g>>
        /\ significance' = Append(significance, TRUE) /\ pc' = "List"
        /\ LastFn(stack) = "Expression"
    BY <1>0, <1>4, TopAt DEF ParseBraces
  <2>2. f \in Frame /\ f.fn = "Braces" /\ g \in Frame /\ g.fn = "ExpressionList"
    <3>1. "R_CURLY" \in Closers /\ {"Braces", "ExpressionList"} \subseteq Functions
      BY FunctionsAre DEF Closers
    <3> QED BY <1>0, <3>1, FrameTypes
  <2> HIDE DEF f, g
  <2>3. LastFn(stack) \in Callers["Braces"]
    BY <2>1, CallersAre
  <2>4. Running(Append(stack, f), Append(significance, TRUE)) /\ LastFn(Append(stack, f)) = "Braces"
    BY <1>0, <1>1, <2>2, <2>3, RunPushBracket
  <2>5. /\ Running(Append(Append(stack, f), g), Append(significance, TRUE))
        /\ LastFn(Append(Append(stack, f), g)) = "ExpressionList"
    <3>1. "ExpressionList" \notin Bracketing /\ "Braces" \in Callers["ExpressionList"]
      BY CallersAre DEF Bracketing
    <3> QED BY <2>2, <2>4, <3>1, RunPush
  <2>6. stack \o <<f, g>> = Append(Append(stack, f), g)
    BY <1>0, TwoPushed
  <2> QED BY <2>1, <2>5, <2>6, StepsAre DEF Good, Steps
<1>5. CASE BracesParsed
  <2>1. /\ stack' = Popped(stack) /\ significance' = Popped(significance) /\ pc' = "Return"
        /\ LastFn(stack) = "Braces"
    BY <1>0, <1>5 DEF BracesParsed, Returned
  <2>2. Callers["Braces"] \subseteq Steps["Return"]
    BY CallersAre, StepsAre
  <2> QED BY <1>0, <1>1, <2>1, <2>2, RunReturnBracket
<1>6. CASE ExpectCloseFails \/ ExpectOpenFails \/ ForHeaderFails
  <2>1. Fail /\ Top.fn \notin {"Root", "ExpressionList"}
    BY <1>6, TopAt DEF ExpectCloseFails, ExpectOpenFails, ForHeaderFails, Expected
  <2> QED BY <2>1, FailGood
<1>7. CASE ParseCondition
  <2>1. /\ stack' = stack \o <<Call("Condition", at), Expression(0)>>
        /\ significance' = Append(significance, FALSE) /\ pc' = "Prefix"
        /\ LastFn(stack) \in {"If", "While"}
    BY <1>0, <1>7, TopAt DEF ParseCondition
  <2>2. LastFn(stack) \in Callers["Condition"]
    BY <2>1, CallersAre
  <2> QED BY <1>0, <2>1, <2>2, RunOperandInBracket
<1>8. CASE HeaderParsed
  <2>1. /\ stack' = Append(Popped(stack), Expression(BodyPower(Under.fn)))
        /\ significance' = Popped(significance) /\ pc' = "Prefix"
        /\ LastFn(stack) \in {"Condition", "ForHeader"}
    BY <1>0, <1>8 DEF HeaderParsed, Returned, WithTop
  <2>2. BodyPower(Under.fn) \in 0 .. MaxPower
    BY PowerTypes DEF BodyPower
  <2> QED BY <1>0, <2>1, <2>2, RunBody
<1>9. CASE ParseElse
  <2>1. /\ stack' = stack \o <<Call("Else", at), Expression(IF_BODY_BP)>>
        /\ significance' = significance /\ pc' = "Prefix" /\ LastFn(stack) = "If"
    BY <1>0, <1>9 DEF ParseElse, Returned
  <2>2. LastFn(stack) \in Callers["Else"] /\ "Else" \in Callers["Expression"]
    BY <2>1, CallersAre, CallersOfExpression
  <2> QED BY <1>0, <1>1, <2>1, <2>2, RunOperand, PowerTypes
<1>10. CASE IfParsed
  <2>1. /\ stack' = Popped(stack) /\ significance' = significance /\ pc' = "Return"
        /\ LastFn(stack) = "If"
    BY <1>0, <1>10 DEF IfParsed, Returned
  <2>2. Callers["If"] \subseteq Steps["Return"]
    BY CallersAre, StepsAre
  <2> QED BY <1>0, <1>1, <2>1, <2>2, RunReturn
<1>11. CASE IfElseParsed
  <2>1. /\ stack' = SubSeq(stack, 1, Len(stack) - 2) /\ significance' = significance
        /\ pc' = "Return" /\ LastFn(stack) = "Else"
    BY <1>0, <1>11 DEF IfElseParsed, Returned
  <2>2. /\ Running(Popped(stack), significance) /\ LastFn(Popped(stack)) = "If"
        /\ stack' = Popped(Popped(stack))
    <3>1. Running(Popped(stack), significance) /\ LastFn(Popped(stack)) = "If"
      BY <1>0, <1>1, <2>1, RunPop, CallersAre
    <3>2. Len(stack) > 1
      BY <1>0, <2>1, ChainPop DEF LastFn
    <3> QED BY <2>1, <1>0, <3>1, <3>2, TwoPopped
  <2>3. Callers["If"] \subseteq Steps["Return"]
    BY CallersAre, StepsAre
  <2> QED BY <1>1, <2>1, <2>2, <2>3, RunReturn
<1>12. CASE ParseForHeader
  <2>1. /\ stack' = Append(stack, Call("ForHeader", at))
        /\ significance' = Append(significance, FALSE) /\ pc' = "ForVariable"
        /\ LastFn(stack) = "For"
    BY <1>0, <1>12, TopAt DEF ParseForHeader
  <2>2. LastFn(stack) \in Callers["ForHeader"]
    BY <2>1, CallersAre
  <2>3. Running(stack', significance') /\ LastFn(stack') = "ForHeader"
    BY <1>0, <2>1, <2>2, RunOpen
  <2> QED BY <2>1, <2>3, StepsAre DEF Good, Steps
<1>13. CASE ParseForVariable
  <2>1. /\ stack' = stack /\ significance' = significance /\ pc' = "ForIn"
        /\ LastFn(stack) = "ForHeader"
    BY <1>0, <1>13, TopAt DEF ParseForVariable
  <2> QED BY <1>0, <2>1, StepsAre DEF Good, Steps
<1>14. CASE ParseForIn
  <2>1. /\ stack' = Append(stack, Expression(0)) /\ significance' = significance
        /\ pc' = "Prefix" /\ LastFn(stack) = "ForHeader"
    BY <1>0, <1>14, TopAt DEF ParseForIn
  <2> QED BY <1>0, <1>1, <2>1, RunExpression, CallersOfExpression
<1> QED BY <1>2, <1>3, <1>4, <1>5, <1>6, <1>7, <1>8, <1>9, <1>10, <1>11, <1>12, <1>13, <1>14
        DEF GrammarControl

LEMMA FunctionsGood == ParserInv /\ GrammarFunctions => GoodNext
<1> SUFFICES ASSUME ParserInv, GrammarFunctions PROVE GoodNext
  OBVIOUS
<1> USE DEF GoodNext, Continue, Goto, Enter, Leave
<1>0. /\ at \in Nat /\ Running(stack, significance) /\ Chain(stack) /\ Top \in Frame
      /\ Top.fn = LastFn(stack) /\ Below = Popped(stack)
      /\ PopSignificance => significance' = Popped(significance)
  BY InvFacts DEF PopSignificance, Popped
<1>1. {"Parameter", "Default"} \subseteq Functions \ Bracketing /\ 0 \in 0 .. MaxPower
  BY FunctionsAre DEF Bracketing, MaxPower
<1>2. CASE ParseParameters
  <2>1. /\ stack' = Append(stack, Call("Parameters", at))
        /\ significance' = Append(significance, FALSE) /\ pc' = "ParameterList"
        /\ LastFn(stack) = "FunctionDefinition"
    BY <1>0, <1>2, TopAt DEF ParseParameters
  <2>2. LastFn(stack) \in Callers["Parameters"]
    BY <2>1, CallersAre
  <2>3. Running(stack', significance') /\ LastFn(stack') = "Parameters"
    BY <1>0, <2>1, <2>2, RunOpen
  <2> QED BY <2>1, <2>3, StepsAre DEF Good, Steps
<1>3. CASE ParseParameterName
  <2>1. /\ stack' = Append(stack, Call("Parameter", at)) /\ significance' = significance
        /\ pc' = "ParameterName" /\ LastFn(stack) = "Parameters"
    BY <1>0, <1>3, TopAt DEF ParseParameterName
  <2>2. Call("Parameter", at) \in Frame /\ Call("Parameter", at).fn = "Parameter"
    BY <1>0, <1>1, FrameTypes
  <2>3. Running(stack', significance') /\ LastFn(stack') = "Parameter"
    BY <1>0, <1>1, <2>1, <2>2, RunPush, CallersAre
  <2> QED BY <2>1, <2>3, StepsAre DEF Good, Steps
<1>4. CASE ParameterFails \/ ParametersUnclosed
  <2>1. Fail /\ Top.fn \notin {"Root", "ExpressionList"}
    BY <1>4, TopAt DEF ParameterFails, ParametersUnclosed, ParametersEnd, Expected
  <2> QED BY <2>1, FailGood
<1>5. CASE ParseParameterDefault
  <2>1. /\ stack' = stack \o <<Call("Default", at), Expression(0)>>
        /\ significance' = significance /\ pc' = "Prefix" /\ LastFn(stack) = "Parameter"
    BY <1>0, <1>5, TopAt DEF ParseParameterDefault
  <2>2. LastFn(stack) \in Callers["Default"] /\ "Default" \in Callers["Expression"]
    BY <2>1, CallersAre, CallersOfExpression
  <2> QED BY <1>0, <1>1, <2>1, <2>2, RunOperand
<1>6. CASE ParseParameterNoDefault
  <2>1. /\ stack' = Popped(stack) /\ significance' = significance /\ pc' = "ParameterEnd"
        /\ LastFn(stack) = "Parameter"
    BY <1>0, <1>6, TopAt DEF ParseParameterNoDefault
  <2>2. Running(stack', significance') /\ LastFn(stack') = "Parameters"
    BY <1>0, <1>1, <2>1, RunPop, CallersAre
  <2> QED BY <2>1, <2>2, StepsAre DEF Good, Steps
<1>7. CASE ParameterDefaultParsed
  <2>1. /\ stack' = SubSeq(stack, 1, Len(stack) - 2) /\ significance' = significance
        /\ pc' = "ParameterEnd" /\ LastFn(stack) = "Default"
    BY <1>0, <1>7 DEF ParameterDefaultParsed, Returned
  <2>2. /\ Running(Popped(stack), significance) /\ LastFn(Popped(stack)) = "Parameter"
        /\ stack' = Popped(Popped(stack))
    BY <1>0, <1>1, <2>1, RunPop, ChainPop, TwoPopped, CallersAre DEF LastFn
  <2>3. Running(stack', significance') /\ LastFn(stack') = "Parameters"
    <3>1. LastFn(stack') \in Callers["Parameter"] /\ Running(stack', significance)
      BY <1>1, <2>2, RunPop
    <3> QED BY <2>1, <3>1, CallersAre
  <2> QED BY <2>1, <2>3, StepsAre DEF Good, Steps
<1>8. CASE ParseParameterComma
  <2> DEFINE f == [Top EXCEPT !.previous = "Comma"]
  <2>1. /\ stack' = Append(Popped(stack), f) /\ significance' = significance
        /\ pc' = "ParameterList" /\ LastFn(stack) = "Parameters"
    BY <1>0, <1>8, TopAt DEF ParseParameterComma, WithTop
  <2>2. f \in Frame /\ f.fn = Top.fn /\ f.close = Top.close
    BY <1>0 DEF Frame
  <2>3. Running(Append(Popped(stack), f), significance) /\ LastFn(Append(Popped(stack), f)) = f.fn
    BY <1>0, <2>1, <2>2, RunReplace DEF Top
  <2> QED BY <1>0, <2>1, <2>2, <2>3, StepsAre DEF Good, Steps
<1>9. CASE ParametersParsed
  <2>1. /\ stack' = Append(Popped(stack), Expression(FUNCTION_BODY_BP))
        /\ significance' = Popped(significance) /\ pc' = "Prefix"
        /\ LastFn(stack) = "Parameters"
    BY <1>0, <1>9, TopAt DEF ParametersParsed, ParametersEnd, WithTop
  <2> QED BY <1>0, <2>1, RunBody, PowerTypes
<1> QED BY <1>2, <1>3, <1>4, <1>5, <1>6, <1>7, <1>8, <1>9 DEF GrammarFunctions

LEMMA CallsGood == ParserInv /\ GrammarCalls => GoodNext
<1> SUFFICES ASSUME ParserInv, GrammarCalls PROVE GoodNext
  OBVIOUS
<1> USE DEF GoodNext, Continue, Goto, Enter, Yield, Return
<1>0. /\ at \in Nat /\ value.first \in Nat /\ Running(stack, significance) /\ Chain(stack)
      /\ Top \in Frame /\ Top.fn = LastFn(stack) /\ Below = Popped(stack)
      /\ PopSignificance => significance' = Popped(significance)
  BY InvFacts DEF PopSignificance, Popped
<1>1. /\ {"Call", "Argument", "ArgumentName", "Expression"} \subseteq Functions \ Bracketing
      /\ "Arguments" \in Functions /\ "Arguments" \in Bracketing /\ 0 \in 0 .. MaxPower
  BY FunctionsAre DEF Bracketing, MaxPower
<1>2. CASE ParseCallLike
  <2> DEFINE f == Call("Call", value.first)  g == List("Arguments", at, CloserOf[current])
  <2>1. /\ stack' = stack \o <<f, g>>
        /\ significance' = Append(significance, FALSE) /\ pc' = "Arguments"
        /\ LastFn(stack) = "Expression" /\ current \in CallOpeners
    BY <1>0, <1>2 DEF ParseCallLike, Returned
  <2>2. CloserOf[current] \in DOMAIN CallNode /\ CloserOf[current] \in Closers
    BY <2>1 DEF CallOpeners, CloserOf, CallNode, Closers
  <2>3. f \in Frame /\ f.fn = "Call"
    BY <1>0, <1>1, FrameTypes
  <2>4. g \in Frame /\ g.fn = "Arguments" /\ g.close = CloserOf[current]
    BY <1>0, <1>1, <2>2, FrameTypes
  <2> HIDE DEF f, g
  <2>5. Running(Append(stack, f), significance) /\ LastFn(Append(stack, f)) = "Call"
    <3>1. LastFn(stack) \in Callers[f.fn] /\ f.fn \notin Bracketing /\ f.fn # "Arguments"
      BY <1>1, <2>1, <2>3, CallersAre
    <3> QED BY <1>0, <2>3, <3>1, RunPush
  <2>6. LastFn(Append(stack, f)) \in Callers[g.fn]
    BY <2>4, <2>5, CallersAre
  <2>7. /\ Running(Append(Append(stack, f), g), Append(significance, FALSE))
        /\ LastFn(Append(Append(stack, f), g)) = "Arguments"
    BY <1>1, <2>2, <2>4, <2>5, <2>6, RunPushBracket
  <2>8. stack \o <<f, g>> = Append(Append(stack, f), g)
    BY <1>0, TwoPushed
  <2> QED BY <2>1, <2>7, <2>8, StepsAre DEF Good, Steps
<1>3. CASE ArgumentListParsed
  <2>1. /\ stack' = stack /\ significance' = significance /\ pc' = "CallClose"
        /\ LastFn(stack) = "Arguments"
    BY <1>0, <1>3, TopAt DEF ArgumentListParsed
  <2> QED BY <1>0, <2>1, StepsAre DEF Good, Steps
<1>4. CASE ParseArgumentComma
  <2> DEFINE f == [Top EXCEPT !.previous = "Comma"]
  <2>1. /\ stack' = Append(Popped(stack), f) /\ significance' = significance
        /\ pc' = "Arguments" /\ LastFn(stack) = "Arguments"
    BY <1>0, <1>4, TopAt DEF ParseArgumentComma, WithTop
  <2>2. f \in Frame /\ f.fn = Top.fn /\ f.close = Top.close
    BY <1>0 DEF Frame
  <2>3. Running(Append(Popped(stack), f), significance) /\ LastFn(Append(Popped(stack), f)) = f.fn
    BY <1>0, <2>1, <2>2, RunReplace DEF Top
  <2> QED BY <1>0, <2>1, <2>2, <2>3, StepsAre DEF Good, Steps
<1>5. CASE ArgumentsNotSeparated \/ CannotGlue \/ CallUnclosed
  <2>1. Fail /\ Top.fn \notin {"Root", "ExpressionList"}
    BY <1>5, TopAt DEF ArgumentsNotSeparated, CannotGlue, CallUnclosed, Expected
  <2> QED BY <2>1, FailGood
<1>6. CASE ParseArgument
  <2> DEFINE f == Call("Argument", at)  g == Call("ArgumentName", at)
  <2>1. LastFn(stack) = "Arguments"
    BY <1>0, <1>6, TopAt DEF ParseArgument
  <2>2. f \in Frame /\ f.fn = "Argument" /\ g \in Frame /\ g.fn = "ArgumentName"
    BY <1>0, <1>1, FrameTypes
  <2>3. \/ ParseValue(Append(Append(stack, f), g))
        \/ /\ stack' = Append(Append(stack, f), Expression(0))
           /\ significance' = significance /\ pc' = "Prefix"
    BY <1>6 DEF ParseArgument
  <2> HIDE DEF f, g
  <2>4. Running(Append(stack, f), significance) /\ LastFn(Append(stack, f)) = "Argument"
    BY <1>0, <1>1, <2>1, <2>2, RunPush, CallersAre
  <2>5. CASE ParseValue(Append(Append(stack, f), g))
    <3>1. /\ Running(Append(Append(stack, f), g), significance)
          /\ LastFn(Append(Append(stack, f), g)) = "ArgumentName"
      BY <1>1, <2>2, <2>4, RunPush, CallersAre
    <3>2. "ArgumentName" \in Callers["String"]
      BY CallersAre
    <3> QED BY <1>0, <2>5, <3>1, <3>2, ValueGood
  <2>6. CASE /\ stack' = Append(Append(stack, f), Expression(0))
             /\ significance' = significance /\ pc' = "Prefix"
    BY <1>1, <2>4, <2>6, RunExpression, CallersOfExpression
  <2> QED BY <2>3, <2>5, <2>6
<1>7. CASE ParseArgumentEqual \/ ParseArgumentRest
  <2>1. LastFn(stack) = "ArgumentName" /\ significance' = significance
    BY <1>0, <1>7 DEF ParseArgumentEqual, ParseArgumentRest, Returned
  <2>2. Running(Popped(stack), significance) /\ LastFn(Popped(stack)) = "Argument"
    BY <1>0, <1>1, <2>1, RunPop, CallersAre
  <2>3. CASE ParseArgumentEqual
    <3>1. stack' = Popped(stack) /\ pc' = "ArgumentValue"
      BY <1>0, <2>3 DEF ParseArgumentEqual
    <3> QED BY <2>1, <2>2, <3>1, StepsAre DEF Good, Steps
  <2>4. CASE ParseArgumentRest
    <3>1. stack' = Append(Popped(stack), Expression(0)) /\ pc' = "Return"
      BY <1>0, <2>4 DEF ParseArgumentRest, WithTop
    <3>2. Expression(0) \in Frame /\ Expression(0).fn = "Expression"
      BY <1>1, FrameTypes
    <3>3. Running(stack', significance') /\ LastFn(stack') = "Expression"
      BY <1>1, <2>1, <2>2, <3>1, <3>2, RunPush, CallersOfExpression
    <3> QED BY <3>1, <3>3, StepsAre DEF Good
  <2> QED BY <1>7, <2>3, <2>4
<1>8. CASE ParseArgumentValue
  <2>1. /\ stack' = Append(stack, Expression(0)) /\ significance' = significance
        /\ pc' = "Prefix" /\ LastFn(stack) = "Argument"
    BY <1>0, <1>8, TopAt DEF ParseArgumentValue
  <2> QED BY <1>0, <1>1, <2>1, RunExpression, CallersOfExpression
<1>9. CASE ArgumentParsed
  <2> DEFINE f == [Under EXCEPT !.previous = "Argument"]
  <2>1. /\ stack' = Append(SubSeq(stack, 1, Len(stack) - 2), f)
        /\ significance' = significance /\ pc' = "Arguments" /\ LastFn(stack) = "Argument"
    BY <1>0, <1>9, TopAt DEF ArgumentParsed, Returned
  <2>2. Running(Popped(stack), significance) /\ LastFn(Popped(stack)) = "Arguments"
    BY <1>0, <1>1, <2>1, RunPop, CallersAre
  <2>3. /\ SubSeq(stack, 1, Len(stack) - 2) = Popped(Popped(stack))
        /\ Under = Popped(stack)[Len(Popped(stack))]
    BY <1>0, <2>1, ChainPop, TwoPopped DEF LastFn, Under
  <2>4. Under \in Frame /\ Under.fn = "Arguments"
    BY <2>2, <2>3 DEF Running, Chain, LastFn
  <2>5. f \in Frame /\ f.fn = Under.fn /\ f.close = Under.close
    BY <2>4 DEF Frame
  <2> HIDE DEF f
  <2>6. /\ Running(Append(Popped(Popped(stack)), f), significance)
        /\ LastFn(Append(Popped(Popped(stack)), f)) = "Arguments"
    BY <2>2, <2>3, <2>4, <2>5, RunReplace
  <2> QED BY <2>1, <2>3, <2>6, StepsAre DEF Good, Steps, f
<1>10. CASE GlueClose
  <2>1. /\ stack' = stack /\ significance' = significance /\ pc' = "CallClose"
        /\ LastFn(stack) = "Arguments"
    BY <1>0, <1>10, TopAt DEF GlueClose
  <2> QED BY <1>0, <2>1, StepsAre DEF Good, Steps
<1>11. CASE CallParsed
  <2>1. /\ stack' = SubSeq(stack, 1, Len(stack) - 2) /\ significance' = Popped(significance)
        /\ pc' = "Return" /\ LastFn(stack) = "Arguments"
    BY <1>0, <1>11, TopAt DEF CallParsed
  <2>2. /\ Running(Popped(stack), significance') /\ LastFn(Popped(stack)) = "Call"
    BY <1>0, <1>1, <2>1, RunPopBracket, CallersAre
  <2>3. stack' = Popped(Popped(stack))
    BY <1>0, <2>1, ChainPop, TwoPopped DEF LastFn
  <2>4. Callers["Call"] \subseteq Steps["Return"]
    BY CallersAre, StepsAre
  <2> QED BY <1>1, <2>1, <2>2, <2>3, <2>4, RunReturn
<1> QED BY <1>2, <1>3, <1>4, <1>5, <1>6, <1>7, <1>8, <1>9, <1>10, <1>11 DEF GrammarCalls

-----------------------------------------------------------------------------
(* The nodes, the value and the diagnostics, action by action *)

DataNext ==
  /\ value' \in Node
  /\ diagnostics' \in Seq(Nat)
  /\ nodes' \subseteq Node
  /\ FailureIsRecorded'

LEMMA KindFacts ==
  /\ {"R_IDENTIFIER", "R_ROOT", "R_EXPRESSION_LIST", "R_BOGUS_EXPRESSION", "R_STRING_VALUE",
      "R_PARENTHESIZED_EXPRESSION", "R_BRACED_EXPRESSIONS", "R_IF_STATEMENT",
      "R_ELSE_CLAUSE", "R_PARAMETERS", "R_PARAMETER_LIST", "R_PARAMETER",
      "R_PARAMETER_DEFAULT", "R_CALL", "R_SUBSET", "R_SUBSET2", "R_CALL_ARGUMENTS",
      "R_SUBSET_ARGUMENTS", "R_SUBSET2_ARGUMENTS", "R_ARGUMENT_LIST", "R_ARGUMENT",
      "R_ARGUMENT_NAME_CLAUSE"} \subseteq NodeKinds
  /\ \A k \in ValueStart : ValueNode(k) \in NodeKinds
  /\ \A fn \in DOMAIN LastPartNode : LastPartNode[fn] \in NodeKinds
<1>1. "IDENT" \in ValueStart /\ ValueNode("IDENT") = "R_IDENTIFIER"
  BY DEF ValueStart, Identifiers, ValueNode
<1> QED BY <1>1 DEF NodeKinds

LEMMA NodeTypes ==
  ASSUME ParserInv, NEW kind \in NodeKinds, NEW first \in Nat
  PROVE  NodeBefore(kind, first) \in Node /\ NodeWith(kind, first) \in Node
  BY InvFacts DEF NodeBefore, NodeWith, NodeOver, Node

\* A step that completes nodes and does not fail.
LEMMA CompleteData ==
  ASSUME ParserInv, NEW completed \in SUBSET Node, nodes' = nodes \cup completed,
         diagnostics' = diagnostics, value' \in Node, pc' # "Fail"
  PROVE  DataNext
  BY DEF DataNext, ParserInv, FailureIsRecorded

LEMMA NothingData ==
  ASSUME ParserInv, nodes' = nodes, diagnostics' = diagnostics, value' = value, pc' # "Fail"
  PROVE  DataNext
  BY DEF DataNext, ParserInv, FailureIsRecorded

\* A step that fails puts an error at the current token on record.
LEMMA FailData ==
  ASSUME ParserInv, Fail, at' = at, nodes' \subseteq Node
  PROVE  DataNext
<1>1. diagnostics \in Seq(Nat) /\ value \in Node /\ at \in Nat
  BY InvFacts DEF ParserInv
<1>2. diagnostics' \in Seq(Nat) /\ diagnostics' # <<>> /\ diagnostics'[Len(diagnostics')] = at
  <2>1. \/ diagnostics' = diagnostics /\ diagnostics # <<>> /\ diagnostics[Len(diagnostics)] = at
        \/ diagnostics' = Append(diagnostics, at)
    BY DEF Fail
  <2>2. CASE diagnostics' = Append(diagnostics, at)
    BY <1>1, <2>2, AppendProperties
  <2> QED BY <1>1, <2>1, <2>2
<1>3. value' = value
  BY DEF Fail, Continue, Goto
<1> QED BY <1>1, <1>2, <1>3 DEF DataNext, FailureIsRecorded

LEMMA ExpectedData == ParserInv /\ Expected => DataNext
<1> SUFFICES ASSUME ParserInv, Expected PROVE DataNext
  OBVIOUS
<1>1. Fail /\ at' = at /\ nodes' \subseteq Node
  BY DEF Expected, sourceVars, ParserInv
<1> QED BY <1>1, FailData

LEMMA PropagateData == ParserInv /\ Propagate => DataNext
<1> SUFFICES ASSUME ParserInv, Propagate PROVE DataNext
  OBVIOUS
<1>1. at' = at /\ UNCHANGED <<diagnostics, nodes, value>> /\ pc = "Fail"
  BY DEF Propagate, Leave, Continue, Goto, sourceVars
<1> QED BY <1>1 DEF ParserInv, DataNext, FailureIsRecorded

LEMMA ValueData ==
  ASSUME ParserInv, NEW frames, ParseValue(frames)
  PROVE  DataNext
<1>1. value \in Node /\ at \in Nat
  BY InvFacts DEF ParserInv
<1>2. CASE current = "STRING_OPEN"
  <2>1. /\ nodes' = nodes /\ diagnostics' = diagnostics /\ value' = value
        /\ pc' = "String"
    BY <1>2 DEF ParseValue, Consume, Continue, Goto
  <2> QED BY <2>1, NothingData
<1>3. CASE current # "STRING_OPEN"
  <2> DEFINE node == NodeWith(ValueNode(current), at)
  <2>1. /\ nodes' = nodes \cup {node} /\ diagnostics' = diagnostics /\ value' = node
        /\ pc' = "Return" /\ current \in ValueStart
    BY <1>3 DEF ParseValue, Consume, Return, Yield
  <2>2. node \in Node
    BY <1>1, <2>1, KindFacts, NodeTypes
  <2> HIDE DEF node
  <2> QED BY <2>1, <2>2, CompleteData
<1> QED BY <1>2, <1>3

\* The function below the top is one, unless the top is the root.
LEMMA UnderFrom == ParserInv /\ Top.fn # "Root" => Under.from \in Nat
<1> SUFFICES ASSUME ParserInv, Top.fn # "Root" PROVE Under.from \in Nat
  OBVIOUS
<1>1. Chain(stack) /\ stack \in Seq(Frame) /\ stack[Len(stack)].fn # "Root"
  BY InvFacts DEF Top
<1>2. Len(stack) > 1
  BY <1>1, ChainPop
<1>3. Under \in Frame
  BY <1>1, <1>2 DEF Under
<1> QED BY <1>3 DEF Frame

LEMMA ModData == ParserInv /\ GrammarMod => DataNext
<1> SUFFICES ASSUME ParserInv, GrammarMod PROVE DataNext
  OBVIOUS
<1> USE DEF Consume, Complete, Continue, Goto, Return, Yield
<1>0. value \in Node /\ at \in Nat /\ Top.from \in Nat
  BY InvFacts DEF ParserInv
<1>1. CASE ParseRoot \/ ParseStatement \/ StatementParsed \/ RecoverStatement \/ SkipToken
  <2>1. nodes' = nodes /\ diagnostics' = diagnostics /\ value' = value /\ pc' # "Fail"
    BY <1>1 DEF ParseRoot, ParseStatement, StatementParsed, RecoverStatement, SkipToken
  <2> QED BY <2>1, NothingData
<1>2. CASE RootParsed \/ Recovered
  <2>1. PICK kind \in {"R_ROOT", "R_BOGUS_EXPRESSION"} :
          nodes' = nodes \cup {NodeBefore(kind, Top.from)}
    BY <1>2 DEF RootParsed, Recovered
  <2>2. diagnostics' = diagnostics /\ value' = value /\ pc' # "Fail"
    BY <1>2 DEF RootParsed, Recovered
  <2>3. NodeBefore(kind, Top.from) \in Node
    BY <1>0, KindFacts, NodeTypes
  <2> QED BY <1>0, <2>1, <2>2, <2>3, CompleteData
<1>3. CASE EndList
  <2> DEFINE list == NodeBefore("R_EXPRESSION_LIST", Top.from)
  <2>1. nodes' = nodes \cup {list} /\ diagnostics' = diagnostics /\ value' = list /\ pc' # "Fail"
    BY <1>3 DEF EndList
  <2>2. list \in Node
    BY <1>0, KindFacts, NodeTypes
  <2> HIDE DEF list
  <2> QED BY <2>1, <2>2, CompleteData
<1> QED BY <1>1, <1>2, <1>3 DEF GrammarMod

LEMMA ExpressionsData == ParserInv /\ GrammarExpressions => DataNext
<1> SUFFICES ASSUME ParserInv, GrammarExpressions PROVE DataNext
  OBVIOUS
<1> USE DEF Consume, Complete, Continue, Goto, Return, Yield
<1>0. value \in Node /\ at \in Nat /\ Top.from \in Nat
  BY InvFacts DEF ParserInv
<1>1. CASE \/ ParseUnary \/ ParseConstruct \/ EndExpression \/ ParseBinary \/ ParseExtract
           \/ ParseNamespace \/ ParseStringContent
  <2>1. nodes' = nodes /\ diagnostics' = diagnostics /\ value' = value /\ pc' # "Fail"
    BY <1>1 DEF ParseUnary, ParseConstruct, EndExpression, ParseBinary, ParseExtract,
                ParseNamespace, ParseStringContent
  <2> QED BY <2>1, NothingData
<1>2. CASE ParsePrefixValue \/ ParseSelector
  BY <1>2, ValueData DEF ParsePrefixValue, ParseSelector
<1>3. CASE ParseNoPrefix \/ ParseNamespaceOfOther \/ ParseStringUnterminated
  BY <1>3, ExpectedData DEF ParseNoPrefix, ParseNamespaceOfOther, ParseStringUnterminated
<1>4. CASE ParseNoSelector \/ LastPartParsed
  <2> DEFINE node == NodeBefore(LastPartNode[Top.fn], Top.from)
  <2>1. nodes' = nodes \cup {node} /\ diagnostics' = diagnostics /\ value' = node /\ pc' # "Fail"
    BY <1>4 DEF ParseNoSelector, LastPartParsed
  <2>2. Top.fn \in DOMAIN LastPartNode
    BY <1>4, TopAt, LastPartFunctions DEF ParseNoSelector, LastPartParsed
  <2>3. node \in Node
    BY <1>0, <2>2, KindFacts, NodeTypes
  <2> HIDE DEF node
  <2> QED BY <2>1, <2>3, CompleteData
<1>5. CASE ParseStringClose
  <2> DEFINE node == NodeWith("R_STRING_VALUE", Top.from)
  <2>1. nodes' = nodes \cup {node} /\ diagnostics' = diagnostics /\ value' = node /\ pc' # "Fail"
    BY <1>5 DEF ParseStringClose
  <2>2. node \in Node
    BY <1>0, KindFacts, NodeTypes
  <2> HIDE DEF node
  <2> QED BY <2>1, <2>2, CompleteData
<1> QED BY <1>1, <1>2, <1>3, <1>4, <1>5 DEF GrammarExpressions

LEMMA ControlData == ParserInv /\ GrammarControl => DataNext
<1> SUFFICES ASSUME ParserInv, GrammarControl PROVE DataNext
  OBVIOUS
<1> USE DEF Consume, Complete, Continue, Goto, Enter, Leave, Return, Yield
<1>0. value \in Node /\ at \in Nat /\ Top.from \in Nat
  BY InvFacts DEF ParserInv
<1>1. CASE \/ ParseParenthesized \/ ParseBraces \/ ParseCondition \/ HeaderParsed
           \/ ParseElse \/ ParseForHeader \/ ParseForIn
  <2>1. nodes' = nodes /\ diagnostics' = diagnostics /\ value' = value /\ pc' # "Fail"
    BY <1>1 DEF ParseParenthesized, ParseBraces, ParseCondition, HeaderParsed, ParseElse,
                ParseForHeader, ParseForIn
  <2> QED BY <2>1, NothingData
<1>2. CASE ParenthesizedParsed \/ BracesParsed
  <2>1. PICK kind \in {"R_PARENTHESIZED_EXPRESSION", "R_BRACED_EXPRESSIONS"} :
          /\ nodes' = nodes \cup {NodeWith(kind, Top.from)}
          /\ value' = NodeWith(kind, Top.from)
    BY <1>2 DEF ParenthesizedParsed, BracesParsed
  <2>2. diagnostics' = diagnostics /\ pc' # "Fail"
    BY <1>2 DEF ParenthesizedParsed, BracesParsed
  <2>3. NodeWith(kind, Top.from) \in Node
    BY <1>0, KindFacts, NodeTypes
  <2> QED BY <2>1, <2>2, <2>3, CompleteData
<1>3. CASE ExpectCloseFails \/ ExpectOpenFails \/ ForHeaderFails
  BY <1>3, ExpectedData DEF ExpectCloseFails, ExpectOpenFails, ForHeaderFails
<1>4. CASE IfParsed
  <2> DEFINE node == NodeBefore("R_IF_STATEMENT", Top.from)
  <2>1. nodes' = nodes \cup {node} /\ diagnostics' = diagnostics /\ value' = node /\ pc' # "Fail"
    BY <1>4 DEF IfParsed
  <2>2. node \in Node
    BY <1>0, KindFacts, NodeTypes
  <2> HIDE DEF node
  <2> QED BY <2>1, <2>2, CompleteData
<1>5. CASE IfElseParsed
  <2> DEFINE clause == NodeBefore("R_ELSE_CLAUSE", Top.from)
             node == NodeBefore("R_IF_STATEMENT", Under.from)
  <2>1. /\ nodes' = nodes \cup {clause, node} /\ diagnostics' = diagnostics /\ value' = node
        /\ pc' # "Fail"
    BY <1>5 DEF IfElseParsed
  <2>2. Under.from \in Nat
    BY <1>5, UnderFrom DEF IfElseParsed, Returned
  <2>3. clause \in Node /\ node \in Node
    BY <1>0, <2>2, KindFacts, NodeTypes
  <2> HIDE DEF clause, node
  <2> QED BY <2>1, <2>3, CompleteData
<1>6. CASE ParseForVariable
  <2>1. /\ nodes' = nodes \cup {NodeWith("R_IDENTIFIER", at)} /\ diagnostics' = diagnostics
        /\ value' = value /\ pc' # "Fail"
    BY <1>6 DEF ParseForVariable
  <2>2. NodeWith("R_IDENTIFIER", at) \in Node
    BY <1>0, KindFacts, NodeTypes
  <2> QED BY <1>0, <2>1, <2>2, CompleteData
<1> QED BY <1>1, <1>2, <1>3, <1>4, <1>5, <1>6 DEF GrammarControl

LEMMA FunctionsData == ParserInv /\ GrammarFunctions => DataNext
<1> SUFFICES ASSUME ParserInv, GrammarFunctions PROVE DataNext
  OBVIOUS
<1> USE DEF Consume, Complete, Continue, Goto, Enter, Leave
<1>0. value \in Node /\ at \in Nat /\ Top.from \in Nat
  BY InvFacts DEF ParserInv
<1>1. CASE ParseParameters \/ ParseParameterDefault \/ ParseParameterComma
  <2>1. nodes' = nodes /\ diagnostics' = diagnostics /\ value' = value /\ pc' # "Fail"
    BY <1>1 DEF ParseParameters, ParseParameterDefault, ParseParameterComma
  <2> QED BY <2>1, NothingData
<1>2. CASE ParseParameterName
  <2> DEFINE kind == IF current \in Dots THEN ValueNode(current) ELSE "R_IDENTIFIER"
  <2>1. /\ nodes' = nodes \cup {NodeWith(kind, at)} /\ diagnostics' = diagnostics
        /\ value' = value /\ pc' # "Fail"
    BY <1>2 DEF ParseParameterName
  <2>2. kind \in NodeKinds
    <3>1. Dots \subseteq ValueStart
      BY DEF Dots, ValueStart
    <3> QED BY <3>1, KindFacts
  <2>3. NodeWith(kind, at) \in Node
    BY <1>0, <2>2, NodeTypes
  <2> HIDE DEF kind
  <2> QED BY <1>0, <2>1, <2>3, CompleteData
<1>3. CASE ParameterFails
  BY <1>3, ExpectedData DEF ParameterFails
<1>4. CASE ParseParameterNoDefault
  <2>1. /\ nodes' = nodes \cup {NodeBefore("R_PARAMETER", Top.from)}
        /\ diagnostics' = diagnostics /\ value' = value /\ pc' # "Fail"
    BY <1>4 DEF ParseParameterNoDefault
  <2>2. NodeBefore("R_PARAMETER", Top.from) \in Node
    BY <1>0, KindFacts, NodeTypes
  <2> QED BY <1>0, <2>1, <2>2, CompleteData
<1>5. CASE ParameterDefaultParsed
  <2> DEFINE default == NodeBefore("R_PARAMETER_DEFAULT", Top.from)
             node == NodeBefore("R_PARAMETER", Under.from)
  <2>1. /\ nodes' = nodes \cup {default, node} /\ diagnostics' = diagnostics
        /\ value' = value /\ pc' # "Fail"
    BY <1>5 DEF ParameterDefaultParsed
  <2>2. Under.from \in Nat
    BY <1>5, UnderFrom DEF ParameterDefaultParsed, Returned
  <2>3. default \in Node /\ node \in Node
    BY <1>0, <2>2, KindFacts, NodeTypes
  <2> HIDE DEF default, node
  <2> QED BY <1>0, <2>1, <2>3, CompleteData
<1>6. CASE ParametersParsed
  <2> DEFINE list == NodeBefore("R_PARAMETER_LIST", Top.from + 1)
             node == NodeWith("R_PARAMETERS", Top.from)
  <2>1. /\ nodes' = nodes \cup {list, node} /\ diagnostics' = diagnostics
        /\ value' = value /\ pc' # "Fail"
    BY <1>6 DEF ParametersParsed
  <2>2. list \in Node /\ node \in Node
    BY <1>0, KindFacts, NodeTypes
  <2> HIDE DEF list, node
  <2> QED BY <1>0, <2>1, <2>2, CompleteData
<1>7. CASE ParametersUnclosed
  <2>1. /\ nodes' = nodes \cup {NodeBefore("R_PARAMETER_LIST", Top.from + 1)}
        /\ Fail /\ at' = at
    BY <1>7 DEF ParametersUnclosed, sourceVars
  <2>2. NodeBefore("R_PARAMETER_LIST", Top.from + 1) \in Node
    BY <1>0, KindFacts, NodeTypes
  <2> QED BY <2>1, <2>2, FailData DEF ParserInv
<1> QED BY <1>1, <1>2, <1>3, <1>4, <1>5, <1>6, <1>7 DEF GrammarFunctions

LEMMA CallsData == ParserInv /\ GrammarCalls => DataNext
<1> SUFFICES ASSUME ParserInv, GrammarCalls PROVE DataNext
  OBVIOUS
<1> USE DEF Consume, Complete, Continue, Goto, Enter, Return, Yield
<1>0. value \in Node /\ at \in Nat /\ Top.from \in Nat /\ value.first \in Nat
  BY InvFacts DEF ParserInv
<1>1. CASE ParseCallLike \/ ParseArgumentValue \/ GlueClose \/ ParseArgumentRest
  <2>1. nodes' = nodes /\ diagnostics' = diagnostics /\ value' = value /\ pc' # "Fail"
    BY <1>1 DEF ParseCallLike, ParseArgumentValue, GlueClose, ParseArgumentRest
  <2> QED BY <2>1, NothingData
<1>2. EmptyArgument \in Node
  BY InvFacts, KindFacts DEF EmptyArgument, NodeOver, Node
<1>3. CASE ArgumentListParsed
  <2> DEFINE list == NodeBefore("R_ARGUMENT_LIST", Top.from + 1)
             hole == IF Top.previous = "Comma" THEN {EmptyArgument} ELSE {}
  <2>1. /\ nodes' = nodes \cup ({list} \cup hole) /\ diagnostics' = diagnostics
        /\ value' = value /\ pc' # "Fail"
    BY <1>3 DEF ArgumentListParsed
  <2>2. list \in Node /\ hole \subseteq Node
    BY <1>0, <1>2, KindFacts, NodeTypes
  <2> HIDE DEF list, hole
  <2> QED BY <1>0, <2>1, <2>2, CompleteData
<1>4. CASE ParseArgumentComma
  <2> DEFINE hole == IF Top.previous # "Argument" THEN {EmptyArgument} ELSE {}
  <2>1. /\ nodes' = nodes \cup hole /\ diagnostics' = diagnostics /\ value' = value
        /\ pc' # "Fail"
    BY <1>4 DEF ParseArgumentComma
  <2>2. hole \subseteq Node
    BY <1>2
  <2> HIDE DEF hole
  <2> QED BY <1>0, <2>1, <2>2, CompleteData
<1>5. CASE ArgumentsNotSeparated \/ CallUnclosed
  BY <1>5, ExpectedData DEF ArgumentsNotSeparated, CallUnclosed
<1>6. CASE CannotGlue
  <2>1. Fail /\ at' = at /\ nodes' \subseteq Node
    BY <1>6 DEF CannotGlue, TryGlueRightBracket2, ParserInv
  <2> QED BY <2>1, FailData
<1>7. CASE ParseArgument
  <2>1. CASE current \in ArgumentNameStart
    BY <1>7, <2>1, ValueData DEF ParseArgument
  <2>2. CASE current \notin ArgumentNameStart
    <3>1. nodes' = nodes /\ diagnostics' = diagnostics /\ value' = value /\ pc' # "Fail"
      BY <1>7, <2>2 DEF ParseArgument
    <3> QED BY <3>1, NothingData
  <2> QED BY <2>1, <2>2
<1>8. CASE ParseArgumentEqual
  <2> DEFINE node == NodeWith("R_ARGUMENT_NAME_CLAUSE", value.first)
  <2>1. nodes' = nodes \cup {node} /\ diagnostics' = diagnostics /\ value' = value /\ pc' # "Fail"
    BY <1>8 DEF ParseArgumentEqual
  <2>2. node \in Node
    BY <1>0, KindFacts, NodeTypes
  <2> HIDE DEF node
  <2> QED BY <1>0, <2>1, <2>2, CompleteData
<1>9. CASE ArgumentParsed
  <2> DEFINE node == NodeBefore("R_ARGUMENT", Top.from)
  <2>1. nodes' = nodes \cup {node} /\ diagnostics' = diagnostics /\ value' = value /\ pc' # "Fail"
    BY <1>9 DEF ArgumentParsed
  <2>2. node \in Node
    BY <1>0, KindFacts, NodeTypes
  <2> HIDE DEF node
  <2> QED BY <1>0, <2>1, <2>2, CompleteData
<1>10. CASE CallParsed
  <2> DEFINE arguments == NodeWith(ArgumentsNode[Top.close], Top.from)
             node == NodeWith(CallNode[Top.close], Under.from)
  <2>1. /\ nodes' = nodes \cup {arguments, node} /\ diagnostics' = diagnostics
        /\ value' = node /\ pc' # "Fail" /\ Top.fn = "Arguments"
    BY <1>10, TopAt DEF CallParsed
  <2>2. Under.from \in Nat
    BY <2>1, UnderFrom
  <2>3. Top.close \in {"R_PAREN", "R_BRACK", "R_BRACK2"}
    BY <2>1, InvFacts DEF Chain, Top, CallNode
  <2>4. CallNode[Top.close] \in NodeKinds /\ ArgumentsNode[Top.close] \in NodeKinds
    BY <2>3, KindFacts DEF CallNode, ArgumentsNode
  <2>5. arguments \in Node /\ node \in Node
    BY <1>0, <2>2, <2>4, NodeTypes
  <2> HIDE DEF arguments, node
  <2> QED BY <2>1, <2>5, CompleteData
<1> QED BY <1>1, <1>3, <1>4, <1>5, <1>6, <1>7, <1>8, <1>9, <1>10 DEF GrammarCalls

-----------------------------------------------------------------------------
(* The theorems *)

LEMMA ParserInitInv == ParserInit => ParserInv
<1> SUFFICES ASSUME ParserInit PROVE ParserInv
  OBVIOUS
<1>1. SourceInv
  BY InitInv DEF ParserInit
<1>2. Call("Root", 1) \in Frame /\ Call("Root", 1).fn = "Root"
  BY FrameTypes, FunctionsAre
<1>3. /\ stack = <<Call("Root", 1)>> /\ significance = <<TRUE>> /\ pc = "Root"
      /\ diagnostics = <<>> /\ nodes = {}
  BY DEF ParserInit
<1>4. Chain(stack) /\ LastFn(stack) = "Root"
  BY <1>2, <1>3 DEF Chain, LastFn
<1>5. Belongs(significance, stack)
  <2>1. OpenIn(stack, Len(stack)) = {}
    BY <1>2, <1>3 DEF OpenIn, Bracketing
  <2>2. significance \in Seq(BOOLEAN) /\ Len(significance) = 1 /\ significance[1]
    BY <1>3
  <2> QED BY <2>1, <2>2, FS_EmptySet DEF Belongs
<1>6. Good(stack, significance, pc)
  BY <1>3, <1>4, <1>5, StepsAre DEF Good, Running, Steps
<1>7. value \in Node
  BY KindFacts DEF ParserInit, NodeOver, Node
<1> QED BY <1>1, <1>3, <1>6, <1>7 DEF ParserInv, FailureIsRecorded

LEMMA ParserNextInv == ParserInv /\ [ParserNext]_vars => ParserInv'
<1> SUFFICES ASSUME ParserInv, [ParserNext]_vars PROVE ParserInv'
  OBVIOUS
<1>1. SourceInv'
  BY StepIsSourceStep, NextInv DEF ParserInv
<1>2. CASE UNCHANGED vars
  BY <1>1, <1>2 DEF vars, parserVars, sourceVars, ParserInv, Good, FailureIsRecorded
<1>3. CASE ParserNext
  <2>1. CASE Finished
    BY <1>2, <2>1 DEF Finished
  <2>2. CASE ~Finished
    <3>1. GoodNext
      BY <1>3, <2>2, PropagateGood, ModGood, ExpressionsGood, ControlGood, FunctionsGood,
         CallsGood DEF ParserNext
    <3>2. DataNext
      BY <1>3, <2>2, PropagateData, ModData, ExpressionsData, ControlData, FunctionsData,
         CallsData DEF ParserNext
    <3> QED BY <1>1, <3>1, <3>2 DEF ParserInv, GoodNext, DataNext
  <2> QED BY <2>1, <2>2
<1> QED BY <1>2, <1>3

\* The inductive invariant: the call stack is a path of the call graph from the
\* root, its top fits the step, and the newline significance, the diagnostics and
\* the last failure are those of the functions on it.
THEOREM ParserInvariant == ParserSpec => []ParserInv
<1> QED BY ParserInitInv, ParserNextInv, PTL DEF ParserSpec

\* The parser keeps its types, and its call stack is one of the program: each
\* function waits for one that it calls, and what is returned, or fails, always
\* reaches a function that expects it.
THEOREM ParserTypeCorrect == ParserSpec => []TypeOK
<1>1. ParserInv => TypeOK
  <2> SUFFICES ASSUME ParserInv PROVE TypeOK
    OBVIOUS
  <2>1. SourceTypeOK /\ pc \in DOMAIN Steps /\ value \in Node /\ diagnostics \in Seq(Nat)
        /\ nodes \subseteq Node /\ significance \in Seq(BOOLEAN)
    BY DEF ParserInv, SourceInv, Good, Running, Belongs
  <2>2. stack \in Seq(Frame) /\ CallsFit
    BY InvFacts DEF Chain, CallsFit
  <2> QED BY <2>1, <2>2 DEF TypeOK
<1> QED BY <1>1, ParserInvariant, PTL

\* Whichever way brackets are left, by success, by a missing close delimiter or
\* by an error deep inside them, the significance of newlines is that of the
\* brackets still open, for every text and every depth of nesting.
THEOREM SignificanceIsOfOpenBrackets == ParserSpec => []SignificanceMatchesStack
<1>1. ParserInv => SignificanceMatchesStack
  BY DEF ParserInv, Good, Running, Belongs, OpenIn, SignificanceMatchesStack, Depth,
         OpenBracketFrames
<1> QED BY <1>1, ParserInvariant, PTL

\* No function of the grammar fails silently: while None is handed up the
\* stack, the last error on record is at the current token.
THEOREM FailuresAreRecorded == ParserSpec => []FailureIsRecorded
<1>1. ParserInv => FailureIsRecorded
  BY DEF ParserInv
<1> QED BY <1>1, ParserInvariant, PTL

\* Whatever the grammar does, the stray semicolon it reports is the first that
\* no statement list accepted: the parser inherits it from the token source.
THEOREM ParserStrayIsFirst == ParserSpec => []StrayIsFirstMisplaced
  BY ParserImplementsSource, StraySemicolonIsFirst

-----------------------------------------------------------------------------

(* The text under the parser *)

\* What is current is the token at `at', or the two that were glued.
CurrentIsLexed ==
  IF current = "R_BRACK2" THEN text[at].kind = "R_BRACK" /\ text[at + 1].kind = "R_BRACK"
  ELSE text[at].kind = current

\* What one step does to the text: what is behind the current token, and the
\* token itself, stay; bumping goes past the current token alone.
TextStep ==
  /\ at' \in Nat /\ at <= at'
  /\ \A i \in 1 .. at : text'[i] = text[i]
  /\ Bump => /\ at < at' /\ at' \notin blessed'
             /\ \A i \in at .. at' - 1 : text'[i].kind = IF current = "R_BRACK2" THEN "R_BRACK"
                                                         ELSE current
             /\ \A i \in at + 1 .. at' - 1 : text'[i].gap = "Tight"

LEMMA BumpText == SourceInv /\ CurrentIsLexed /\ Bump => TextStep /\ CurrentIsLexed'
<1> SUFFICES ASSUME SourceInv, CurrentIsLexed, Bump PROVE TextStep /\ CurrentIsLexed'
  OBVIOUS
<1>1. PICK token \in Upcoming :
        /\ Lex(token)
        /\ current' = token.kind
        /\ at' = CurrentEnd + 1
        /\ blessed' = blessed
  BY DEF Bump, Advance
<1>2. SourceTypeOK /\ Extent
  BY DEF SourceInv
<1>3. /\ token.kind # "R_BRACK2"
      /\ Len(text') = IF lookahead THEN Len(text) ELSE Len(text) + 1
      /\ text'[Len(text')] = token
      /\ \A i \in 1 .. Len(text) : text'[i] = text[i]
  BY <1>1, <1>2, LexAppends
<1>4. at \in Nat /\ at >= 1 /\ Len(text) \in Nat /\ at <= Len(text) /\ blessed \subseteq 1 .. at
  BY <1>2 DEF SourceTypeOK
<1>5. Len(text') = at' /\ at' = IF current = "R_BRACK2" THEN at + 2 ELSE at + 1
  BY <1>1, <1>2, <1>3, <1>4 DEF CurrentEnd, Extent
<1>6. \A i \in 1 .. at' - 1 : text'[i] = text[i]
  BY <1>2, <1>3, <1>4, <1>5 DEF Extent
<1>7. at' \notin blessed'
  BY <1>1, <1>4, <1>5
<1>8. current = "R_BRACK2" => text[at + 1].gap = "Tight"
  BY <1>2 DEF Extent
<1>9. \A i \in at .. at' - 1 :
        /\ text'[i].kind = IF current = "R_BRACK2" THEN "R_BRACK" ELSE current
        /\ i > at => text'[i].gap = "Tight"
  <2> SUFFICES ASSUME NEW i \in at .. at' - 1
               PROVE  /\ text'[i].kind = IF current = "R_BRACK2" THEN "R_BRACK" ELSE current
                      /\ i > at => text'[i].gap = "Tight"
    OBVIOUS
  <2>1. text'[i] = text[i] /\ (i = at \/ (i = at + 1 /\ current = "R_BRACK2"))
    BY <1>4, <1>5, <1>6
  <2> QED BY <1>4, <1>8, <2>1 DEF CurrentIsLexed
<1>10. CurrentIsLexed'
  BY <1>1, <1>3, <1>5 DEF CurrentIsLexed
<1> QED BY <1>4, <1>5, <1>6, <1>7, <1>9, <1>10 DEF TextStep

LEMMA SourceText ==
  SourceInv /\ CurrentIsLexed /\ [SourceNext]_sourceVars => TextStep /\ CurrentIsLexed'
<1> SUFFICES ASSUME SourceInv, CurrentIsLexed, [SourceNext]_sourceVars
             PROVE  TextStep /\ CurrentIsLexed'
  OBVIOUS
<1>1. CASE Bump
  BY <1>1, BumpText
<1>2. ASSUME ~Bump PROVE TextStep /\ CurrentIsLexed'
  <2>1. SourceTypeOK /\ Extent
    BY DEF SourceInv
  <2>2. at \in Nat /\ at >= 1 /\ Len(text) \in Nat /\ at <= Len(text)
    BY <2>1 DEF SourceTypeOK
  <2>3. CASE BlessSemicolons
    <3>1. text' = text /\ at' = at /\ current' = current
      BY <2>3 DEF BlessSemicolons
    <3> QED BY <1>2, <2>2, <3>1 DEF TextStep, CurrentIsLexed
  <2>4. CASE UNCHANGED sourceVars
    <3>1. text' = text /\ at' = at /\ current' = current
      BY <2>4 DEF sourceVars
    <3> QED BY <1>2, <2>2, <3>1 DEF TextStep, CurrentIsLexed
  <2>5. ASSUME NEW glued \in BOOLEAN, TryGlueRightBracket2(glued)
        PROVE  TextStep /\ CurrentIsLexed'
    <3>1. at' = at
      BY <2>5 DEF TryGlueRightBracket2
    <3>2. CASE current # "R_BRACK"
      <4>1. text' = text /\ current' = current
        BY <2>5, <3>2 DEF TryGlueRightBracket2
      <4> QED BY <1>2, <2>2, <3>1, <4>1 DEF TextStep, CurrentIsLexed
    <3>3. CASE current = "R_BRACK"
      <4>1. PICK next \in Upcoming :
              /\ glued = (next.kind = "R_BRACK" /\ next.gap = "Tight")
              /\ Lex(next)
              /\ current' = IF glued THEN "R_BRACK2" ELSE current
        BY <2>5, <3>3 DEF TryGlueRightBracket2
      <4>2. /\ Len(text') = IF lookahead THEN Len(text) ELSE Len(text) + 1
            /\ text'[Len(text')] = next
            /\ \A i \in 1 .. Len(text) : text'[i] = text[i]
        BY <2>1, <4>1, LexAppends
      <4>3. Len(text') = at + 1 /\ \A i \in 1 .. at : text'[i] = text[i]
        BY <2>1, <2>2, <3>3, <4>2 DEF Extent
      <4>4. text[at].kind = "R_BRACK"
        BY <3>3 DEF CurrentIsLexed
      <4>5. CurrentIsLexed'
        <5>1. CASE glued
          <6>1. next.kind = "R_BRACK" /\ current' = "R_BRACK2"
            BY <4>1, <5>1
          <6>2. text'[at + 1].kind = "R_BRACK" /\ text'[at].kind = "R_BRACK"
            BY <2>2, <4>2, <4>3, <4>4, <6>1
          <6> QED BY <3>1, <6>1, <6>2 DEF CurrentIsLexed
        <5>2. CASE ~glued
          BY <2>2, <3>1, <3>3, <4>1, <4>3, <4>4, <5>2 DEF CurrentIsLexed
        <5> QED BY <5>1, <5>2
      <4> QED BY <1>2, <2>2, <3>1, <4>3, <4>5 DEF TextStep
    <3> QED BY <3>2, <3>3
  <2> QED BY <1>2, <2>3, <2>4, <2>5 DEF SourceNext
<1> QED BY <1>1, <1>2

-----------------------------------------------------------------------------
(* Ordinary steps: all but those of error recovery *)

\* No statement that is being parsed starts behind the current token.
StatementsAhead(s) == \A i \in 1 .. Len(s) : s[i].fn = "Statement" => s[i].from <= at

Stacked(s) == s \in Seq(Frame) /\ StatementsAhead(s)

OtherFrames == {f \in Frame : f.fn # "Statement"}

\* An ordinary step completes no bogus node, consumes no token that the lexer
\* could not read, and fails only with an error on record.
OrdinaryStep ==
  /\ Stacked(stack')
  /\ Bogus' = Bogus
  /\ pc \notin {"Fail", "Recover"}
  /\ \/ Bump /\ current # "R_BOGUS"
     \/ at' = at
  /\ \/ Fail
     \/ diagnostics' = diagnostics /\ pc' \notin {"Fail", "Recover"}

LEMMA OtherFramesAre ==
  /\ \A fn \in Functions \ {"Statement"}, from \in Nat : Call(fn, from) \in OtherFrames
  /\ \A fn \in Functions \ {"Statement"}, from \in Nat, close \in Closers :
       List(fn, from, close) \in OtherFrames
  /\ \A bp \in 0 .. MaxPower : Expression(bp) \in OtherFrames
  /\ \A f \in Frame, p \in {"Open", "Comma", "Argument", "Progress"} :
       f.fn # "Statement" => [f EXCEPT !.previous = p] \in OtherFrames
<1>1. \A f \in Frame, p \in {"Open", "Comma", "Argument", "Progress"} :
        f.fn # "Statement" => [f EXCEPT !.previous = p] \in OtherFrames
  BY DEF OtherFrames, Frame
<1> QED BY <1>1, FrameTypes DEF OtherFrames

LEMMA StackedAppend ==
  ASSUME NEW s, Stacked(s), NEW f \in Frame, f.fn = "Statement" => f.from <= at
  PROVE  Stacked(Append(s, f)) /\ Append(s, f)[Len(Append(s, f))] = f
<1>1. s \in Seq(Frame) /\ Len(s) \in Nat
  BY DEF Stacked
<1>2. /\ Append(s, f) \in Seq(Frame) /\ Len(Append(s, f)) = Len(s) + 1
      /\ Append(s, f)[Len(s) + 1] = f
      /\ \A i \in 1 .. Len(s) : Append(s, f)[i] = s[i]
  BY <1>1, AppendProperties
<1> QED BY <1>1, <1>2 DEF Stacked, StatementsAhead

LEMMA StackedPush ==
  ASSUME NEW s, Stacked(s), NEW f \in OtherFrames
  PROVE  Stacked(Append(s, f))
  BY StackedAppend DEF OtherFrames

LEMMA StackedPushTwo ==
  ASSUME NEW s, Stacked(s), NEW f \in OtherFrames, NEW g \in OtherFrames
  PROVE  Stacked(s \o <<f, g>>)
<1>1. Stacked(Append(Append(s, f), g))
  BY StackedPush
<1>2. s \o <<f, g>> = Append(Append(s, f), g)
  BY DEF Stacked
<1> QED BY <1>1, <1>2

LEMMA StackedPop ==
  ASSUME NEW s, Stacked(s), Len(s) > 0
  PROVE  Stacked(Popped(s)) /\ Len(Popped(s)) = Len(s) - 1
<1>1. /\ Popped(s) \in Seq(Frame) /\ Len(Popped(s)) = Len(s) - 1 /\ Len(s) - 1 \in Nat
      /\ \A i \in 1 .. Len(s) - 1 : Popped(s)[i] = s[i]
  BY PoppedProperties DEF Stacked
<1> QED BY <1>1 DEF Stacked, StatementsAhead

\* The stacks that a step may leave.
LEMMA StackedBelow ==
  ASSUME ParserInv, Stacked(stack)
  PROVE  /\ Stacked(Below)
         /\ \A f \in OtherFrames : Stacked(WithTop(f))
         /\ Top.fn # "Root" => /\ Stacked(SubSeq(stack, 1, Len(stack) - 2))
                               /\ Under \in Frame /\ Under.fn \in Callers[Top.fn]
<1>1. /\ Below = Popped(stack) /\ Chain(stack) /\ Len(stack) > 0 /\ stack \in Seq(Frame)
      /\ Top = stack[Len(stack)]
  BY InvFacts DEF Top
<1>2. Stacked(Below) /\ Len(Below) = Len(stack) - 1
  BY <1>1, StackedPop
<1>3. \A f \in OtherFrames : Stacked(WithTop(f))
  BY <1>2, StackedPush DEF WithTop
<1>4. ASSUME Top.fn # "Root"
      PROVE  /\ Stacked(SubSeq(stack, 1, Len(stack) - 2))
             /\ Under \in Frame /\ Under.fn \in Callers[Top.fn]
  <2>1. Len(stack) > 1 /\ stack[Len(stack) - 1].fn \in Callers[stack[Len(stack)].fn]
    BY <1>1, <1>4, ChainPop
  <2>2. Stacked(Popped(Below))
    BY <1>1, <1>2, <2>1, StackedPop
  <2>3. SubSeq(stack, 1, Len(stack) - 2) = Popped(Below)
    BY <1>1, <2>1, TwoPopped
  <2>4. Under \in Frame
    <3>1. Len(stack) - 1 \in 1 .. Len(stack)
      BY <1>1, <2>1
    <3> QED BY <1>1, <3>1 DEF Under
  <2>5. Stacked(SubSeq(stack, 1, Len(stack) - 2))
    BY <2>2, <2>3, Zenon
  <2> QED BY <1>1, <2>1, <2>4, <2>5 DEF Under
<1> QED BY <1>2, <1>3, <1>4

LEMMA BogusKinds ==
  /\ \A fn \in DOMAIN LastPartNode : LastPartNode[fn] # "R_BOGUS_EXPRESSION"
  /\ \A kind \in ValueStart : ValueNode(kind) # "R_BOGUS_EXPRESSION"
  /\ \A close \in DOMAIN CallNode : /\ CallNode[close] # "R_BOGUS_EXPRESSION"
                                    /\ ArgumentsNode[close] # "R_BOGUS_EXPRESSION"
  /\ "R_BOGUS" \notin UnaryOperators \cup BinaryOperators \cup Extractors \cup Namespacers
                        \cup CallOpeners \cup ValueStart \cup Keywords
  BY DEF LastPartNode, ValueStart, ValueNode, CallNode, ArgumentsNode, UnaryOperators,
         UnaryPower, BinaryOperators, BinaryPower, Extractors, Namespacers, CallOpeners,
         Keywords, ValueKeywords, ConstructKeywords, Identifiers, Dots

\* Nodes of other kinds leave the bogus ones alone.
LEMMA BogusKept ==
  ASSUME NEW completed, nodes' = nodes \cup completed,
         \A n \in completed : n.kind # "R_BOGUS_EXPRESSION"
  PROVE  Bogus' = Bogus
  BY DEF Bogus, NodesOf

LEMMA OrdinaryConsume ==
  ASSUME NEW completed, Consume(completed),
         \A n \in completed : n.kind # "R_BOGUS_EXPRESSION",
         current # "R_BOGUS", pc \notin {"Fail", "Recover"},
         Stacked(stack'), pc' \notin {"Fail", "Recover"}
  PROVE  OrdinaryStep
  BY BogusKept DEF Consume, OrdinaryStep

LEMMA OrdinaryComplete ==
  ASSUME NEW completed, Complete(completed),
         \A n \in completed : n.kind # "R_BOGUS_EXPRESSION",
         pc \notin {"Fail", "Recover"}, Stacked(stack'), pc' \notin {"Fail", "Recover"}
  PROVE  OrdinaryStep
  BY BogusKept DEF Complete, OrdinaryStep, sourceVars

LEMMA OrdinaryExpected ==
  ASSUME Expected, pc \notin {"Fail", "Recover"}, Stacked(stack)
  PROVE  OrdinaryStep
<1>1. Fail /\ stack' = stack /\ nodes' = nodes /\ at' = at
  BY DEF Expected, Fail, Continue, Goto, sourceVars
<1> QED BY <1>1 DEF OrdinaryStep, Bogus, NodesOf

LEMMA OrdinaryValue ==
  ASSUME ParserInv, NEW frames, Stacked(frames), ParseValue(frames),
         pc \notin {"Fail", "Recover"}
  PROVE  OrdinaryStep
<1> USE DEF Continue, Goto, Return, Yield
<1>0. at \in Nat
  BY InvFacts
<1>1. CASE current = "STRING_OPEN"
  <2>1. Consume({}) /\ stack' = Append(frames, Call("String", at)) /\ pc' = "String"
    BY <1>1 DEF ParseValue
  <2>2. Call("String", at) \in OtherFrames
    BY <1>0, OtherFramesAre, FunctionsAre
  <2>3. Stacked(stack')
    BY <2>1, <2>2, StackedPush
  <2> QED BY <1>1, <2>1, <2>3, OrdinaryConsume
<1>2. CASE current # "STRING_OPEN"
  <2>1. /\ Consume({NodeWith(ValueNode(current), at)}) /\ stack' = frames /\ pc' = "Return"
        /\ current \in ValueStart
    BY <1>2 DEF ParseValue
  <2>2. current # "R_BOGUS" /\ ValueNode(current) # "R_BOGUS_EXPRESSION"
    BY <2>1, BogusKinds
  <2>3. NodeWith(ValueNode(current), at).kind # "R_BOGUS_EXPRESSION"
    BY <2>2 DEF NodeWith, NodeOver
  <2> QED BY <2>1, <2>2, <2>3, OrdinaryConsume
<1> QED BY <1>1, <1>2

LEMMA ModOrdinary ==
  ASSUME ParserInv, Stacked(stack),
         ParseRoot \/ RootParsed \/ ParseStatement \/ StatementParsed \/ EndList
  PROVE  OrdinaryStep
<1> USE DEF Continue, Goto, Return, Yield
<1>0. at \in Nat /\ CurrentEnd + 1 \in Nat /\ stack \in Seq(Frame)
  BY InvFacts
<1>1. CASE ParseRoot
  <2>1. List("ExpressionList", CurrentEnd + 1, "EOF") \in OtherFrames
    BY <1>0, OtherFramesAre, FunctionsAre DEF Closers
  <2>2. List("ExpressionList", at, "EOF") \in OtherFrames
    BY <1>0, OtherFramesAre, FunctionsAre DEF Closers
  <2>3. Stacked(stack')
    BY <1>1, <2>1, <2>2, StackedPush DEF ParseRoot
  <2>4. CASE current = "UNICODE_BOM"
    <3>1. Consume({}) /\ pc = "Root" /\ pc' = "List"
      BY <1>1, <2>4 DEF ParseRoot
    <3> QED BY <2>3, <2>4, <3>1, OrdinaryConsume
  <2>5. CASE current # "UNICODE_BOM"
    <3>1. Complete({}) /\ pc = "Root" /\ pc' = "List"
      BY <1>1, <2>5 DEF ParseRoot
    <3> QED BY <2>3, <3>1, OrdinaryComplete
  <2> QED BY <2>4, <2>5
<1>2. CASE RootParsed
  <2>1. Complete({NodeBefore("R_ROOT", Top.from)}) /\ pc = "Return" /\ pc' = "Done"
    BY <1>2 DEF RootParsed, Returned
  <2>2. NodeBefore("R_ROOT", Top.from).kind = "R_ROOT" /\ stack' = stack
    BY <1>2 DEF RootParsed, NodeBefore, NodeOver
  <2> QED BY <2>1, <2>2, OrdinaryComplete
<1>3. CASE ParseStatement
  <2> DEFINE f == Call("Statement", at)
  <2>1. stack' = stack \o <<f, Expression(0)>> /\ pc = "List" /\ pc' = "Prefix"
    BY <1>3 DEF ParseStatement
  <2>2. Expression(0) \in OtherFrames
    BY OtherFramesAre, PowerTypes
  <2>3. f \in Frame /\ f.from = at
    BY <1>0, FrameTypes, FunctionsAre DEF Call
  <2>4. stack' = Append(Append(stack, f), Expression(0))
    BY <1>0, <2>1, InvFacts, TwoPushed
  <2>5. Stacked(Append(stack, f))
    <3> HIDE DEF f
    <3> QED BY <1>0, <2>3, StackedAppend
  <2>6. Stacked(stack')
    BY <2>2, <2>4, <2>5, StackedPush
  <2>7. nodes' = nodes /\ diagnostics' = diagnostics /\ at' = at
    BY <1>3 DEF ParseStatement, BlessSemicolons
  <2> QED BY <2>1, <2>6, <2>7 DEF OrdinaryStep, Bogus, NodesOf
<1>4. CASE StatementParsed
  <2>1. Complete({}) /\ stack' = Below /\ pc = "Return" /\ pc' = "List"
    BY <1>4 DEF StatementParsed, Returned
  <2> QED BY <2>1, StackedBelow, OrdinaryComplete
<1>5. CASE EndList
  <2> DEFINE list == NodeBefore("R_EXPRESSION_LIST", Top.from)
  <2>1. /\ nodes' = nodes \cup {list} /\ diagnostics' = diagnostics /\ at' = at
        /\ stack' = Below /\ pc = "List" /\ pc' = "Return"
    BY <1>5 DEF EndList, BlessSemicolons
  <2>2. list.kind = "R_EXPRESSION_LIST"
    BY DEF NodeBefore, NodeOver
  <2> HIDE DEF list
  <2>3. Bogus' = Bogus
    BY <2>1, <2>2 DEF Bogus, NodesOf
  <2> QED BY <2>1, <2>3, StackedBelow DEF OrdinaryStep
<1> QED BY <1>1, <1>2, <1>3, <1>4, <1>5

LEMMA ExpressionsOrdinary ==
  ASSUME ParserInv, Stacked(stack), GrammarExpressions
  PROVE  OrdinaryStep
<1> USE DEF Continue, Goto, Return, Yield
<1>0. at \in Nat /\ value.first \in Nat /\ Top.fn \in Functions
  BY InvFacts
<1>1. /\ {"Unary", "FunctionDefinition", "If", "While", "For", "Repeat", "Binary", "Extract",
          "Namespace"} \subseteq Functions \ {"Statement"}
      /\ "String" \in Functions \ {"Statement"}
  BY FunctionsAre
<1>2. CASE ParseUnary
  <2>1. /\ Consume({}) /\ pc = "Prefix" /\ pc' = "Prefix" /\ current \in UnaryOperators
        /\ stack' = stack \o <<Call("Unary", at), Expression(UnaryPower[current])>>
    BY <1>2 DEF ParseUnary
  <2>2. Call("Unary", at) \in OtherFrames /\ Expression(UnaryPower[current]) \in OtherFrames
    BY <1>0, <1>1, <2>1, OtherFramesAre, PowerTypes
  <2>3. Stacked(stack') /\ current # "R_BOGUS"
    BY <2>1, <2>2, StackedPushTwo, BogusKinds
  <2> QED BY <2>1, <2>3, OrdinaryConsume
<1>3. CASE ParseConstruct
  <2>1. /\ Consume({}) /\ pc = "Prefix" /\ pc' \notin {"Fail", "Recover"}
        /\ current # "R_BOGUS"
    BY <1>3 DEF ParseConstruct
  <2>2. CASE current = "REPEAT_KW"
    <3>1. stack' = stack \o <<Call("Repeat", at), Expression(FUNCTION_BODY_BP)>>
      BY <1>3, <2>2 DEF ParseConstruct
    <3>2. Call("Repeat", at) \in OtherFrames /\ Expression(FUNCTION_BODY_BP) \in OtherFrames
      BY <1>0, <1>1, OtherFramesAre, PowerTypes
    <3> QED BY <2>1, <3>1, <3>2, StackedPushTwo, OrdinaryConsume
  <2>3. CASE current # "REPEAT_KW"
    <3>1. PICK fn \in {"FunctionDefinition", "If", "While", "For"} :
            stack' = Append(stack, Call(fn, at))
      BY <1>3, <2>3 DEF ParseConstruct
    <3>2. Call(fn, at) \in OtherFrames
      BY <1>0, <1>1, OtherFramesAre
    <3> QED BY <2>1, <3>1, <3>2, StackedPush, OrdinaryConsume
  <2> QED BY <2>2, <2>3
<1>4. CASE ParsePrefixValue
  BY <1>4, OrdinaryValue DEF ParsePrefixValue
<1>5. CASE ParseNoPrefix
  BY <1>5, OrdinaryExpected DEF ParseNoPrefix
<1>6. CASE EndExpression
  <2>1. Complete({}) /\ stack' = Below /\ pc = "Return" /\ pc' = "Return"
    BY <1>6 DEF EndExpression, Returned
  <2> QED BY <2>1, StackedBelow, OrdinaryComplete
<1>7. CASE ParseBinary
  <2>1. /\ Consume({}) /\ pc = "Return" /\ pc' = "Prefix" /\ current \in BinaryOperators
        /\ stack' = stack \o <<Call("Binary", value.first), Expression(BinaryPower[current][2])>>
    BY <1>7 DEF ParseBinary, Returned
  <2>2. /\ Call("Binary", value.first) \in OtherFrames
        /\ Expression(BinaryPower[current][2]) \in OtherFrames
    BY <1>0, <1>1, <2>1, OtherFramesAre, PowerTypes
  <2>3. Stacked(stack') /\ current # "R_BOGUS"
    BY <2>1, <2>2, StackedPushTwo, BogusKinds
  <2> QED BY <2>1, <2>3, OrdinaryConsume
<1>8. CASE ParseExtract \/ ParseNamespace
  <2>1. PICK fn \in {"Extract", "Namespace"} : stack' = Append(stack, Call(fn, value.first))
    BY <1>8 DEF ParseExtract, ParseNamespace
  <2>2. Consume({}) /\ pc = "Return" /\ pc' = "Selector" /\ current # "R_BOGUS"
    BY <1>8, BogusKinds DEF ParseExtract, ParseNamespace, Returned
  <2>3. Call(fn, value.first) \in OtherFrames
    BY <1>0, <1>1, OtherFramesAre
  <2> QED BY <2>1, <2>2, <2>3, StackedPush, OrdinaryConsume
<1>9. CASE ParseNamespaceOfOther
  BY <1>9, OrdinaryExpected DEF ParseNamespaceOfOther, Returned
<1>10. CASE ParseSelector
  BY <1>10, OrdinaryValue DEF ParseSelector
<1>11. CASE ParseNoSelector \/ LastPartParsed
  <2>1. /\ Complete({NodeBefore(LastPartNode[Top.fn], Top.from)}) /\ stack' = Below
        /\ pc \in {"Selector", "Return"} /\ pc' = "Return"
    BY <1>11 DEF ParseNoSelector, LastPartParsed
  <2>2. Top.fn \in DOMAIN LastPartNode
    BY <1>11, TopAt, LastPartFunctions DEF ParseNoSelector, LastPartParsed
  <2>3. NodeBefore(LastPartNode[Top.fn], Top.from).kind # "R_BOGUS_EXPRESSION"
    BY <2>2, BogusKinds DEF NodeBefore, NodeOver
  <2> QED BY <2>1, <2>3, StackedBelow, OrdinaryComplete
<1>12. CASE ParseStringContent
  <2>1. /\ Consume({}) /\ stack' = stack /\ pc = "String" /\ pc' = "StringEnd"
        /\ current = "STRING_CONTENT"
    BY <1>12 DEF ParseStringContent
  <2> QED BY <2>1, OrdinaryConsume
<1>13. CASE ParseStringClose
  <2>1. /\ Consume({NodeWith("R_STRING_VALUE", Top.from)}) /\ stack' = Below
        /\ pc \in {"String", "StringEnd"} /\ pc' = "Return" /\ current = "STRING_CLOSE"
    BY <1>13 DEF ParseStringClose
  <2>2. NodeWith("R_STRING_VALUE", Top.from).kind # "R_BOGUS_EXPRESSION"
    BY DEF NodeWith, NodeOver
  <2> QED BY <2>1, <2>2, StackedBelow, OrdinaryConsume
<1>14. CASE ParseStringUnterminated
  BY <1>14, OrdinaryExpected DEF ParseStringUnterminated
<1> QED BY <1>2, <1>3, <1>4, <1>5, <1>6, <1>7, <1>8, <1>9, <1>10, <1>11, <1>12, <1>13, <1>14
        DEF GrammarExpressions

LEMMA ControlOrdinary ==
  ASSUME ParserInv, Stacked(stack), GrammarControl
  PROVE  OrdinaryStep
<1> USE DEF Continue, Goto, Enter, Leave, Return, Yield
<1>0. at \in Nat /\ CurrentEnd + 1 \in Nat /\ Top.fn \in Functions
  BY InvFacts
<1>1. /\ {"Parenthesized", "Braces", "ExpressionList", "Condition", "Else",
          "ForHeader"} \subseteq Functions \ {"Statement"}
      /\ {"EOF", "R_CURLY"} \subseteq Closers
  BY FunctionsAre DEF Closers
<1>2. CASE ParseParenthesized \/ ParseCondition
  <2>1. PICK fn \in {"Parenthesized", "Condition"} :
          stack' = stack \o <<Call(fn, at), Expression(0)>>
    BY <1>2 DEF ParseParenthesized, ParseCondition
  <2>2. /\ Consume({}) /\ pc \notin {"Fail", "Recover"} /\ pc' = "Prefix"
        /\ current # "R_BOGUS"
    BY <1>2 DEF ParseParenthesized, ParseCondition
  <2>3. Call(fn, at) \in OtherFrames /\ Expression(0) \in OtherFrames
    BY <1>0, <1>1, OtherFramesAre, PowerTypes
  <2>4. Stacked(stack')
    BY <2>1, <2>3, StackedPushTwo
  <2> QED BY <2>2, <2>4, OrdinaryConsume
<1>3. CASE ParenthesizedParsed \/ BracesParsed
  <2>1. PICK kind \in {"R_PARENTHESIZED_EXPRESSION", "R_BRACED_EXPRESSIONS"} :
          Consume({NodeWith(kind, Top.from)})
    BY <1>3 DEF ParenthesizedParsed, BracesParsed
  <2>2. /\ stack' = Below /\ pc = "Return" /\ pc' = "Return" /\ current # "R_BOGUS"
    BY <1>3 DEF ParenthesizedParsed, BracesParsed, Returned
  <2>3. NodeWith(kind, Top.from).kind # "R_BOGUS_EXPRESSION"
    BY DEF NodeWith, NodeOver
  <2> QED BY <2>1, <2>2, <2>3, StackedBelow, OrdinaryConsume
<1>4. CASE ParseBraces
  <2>1. /\ Consume({}) /\ pc = "Prefix" /\ pc' = "List" /\ current # "R_BOGUS"
        /\ stack' = stack \o <<Call("Braces", at),
                               List("ExpressionList", CurrentEnd + 1, "R_CURLY")>>
    BY <1>4 DEF ParseBraces
  <2>2. /\ Call("Braces", at) \in OtherFrames
        /\ List("ExpressionList", CurrentEnd + 1, "R_CURLY") \in OtherFrames
    BY <1>0, <1>1, OtherFramesAre
  <2>3. Stacked(stack')
    BY <2>1, <2>2, StackedPushTwo
  <2> QED BY <2>1, <2>3, OrdinaryConsume
<1>5. CASE ExpectCloseFails \/ ExpectOpenFails \/ ForHeaderFails
  BY <1>5, OrdinaryExpected DEF ExpectCloseFails, ExpectOpenFails, ForHeaderFails
<1>6. CASE HeaderParsed
  <2>1. /\ Consume({}) /\ pc = "Return" /\ pc' = "Prefix" /\ current # "R_BOGUS"
        /\ stack' = WithTop(Expression(BodyPower(Under.fn)))
    BY <1>6 DEF HeaderParsed, Returned
  <2>2. Expression(BodyPower(Under.fn)) \in OtherFrames
    BY OtherFramesAre, PowerTypes DEF BodyPower
  <2> QED BY <2>1, <2>2, StackedBelow, OrdinaryConsume
<1>7. CASE ParseElse
  <2>1. /\ Consume({}) /\ pc = "Return" /\ pc' = "Prefix" /\ current # "R_BOGUS"
        /\ stack' = stack \o <<Call("Else", at), Expression(IF_BODY_BP)>>
    BY <1>7 DEF ParseElse, Returned, ElseAllowed
  <2>2. Call("Else", at) \in OtherFrames /\ Expression(IF_BODY_BP) \in OtherFrames
    BY <1>0, <1>1, OtherFramesAre, PowerTypes
  <2>3. Stacked(stack')
    BY <2>1, <2>2, StackedPushTwo
  <2> QED BY <2>1, <2>3, OrdinaryConsume
<1>8. CASE IfParsed
  <2>1. /\ Complete({NodeBefore("R_IF_STATEMENT", Top.from)}) /\ stack' = Below
        /\ pc = "Return" /\ pc' = "Return"
    BY <1>8 DEF IfParsed, Returned
  <2>2. NodeBefore("R_IF_STATEMENT", Top.from).kind # "R_BOGUS_EXPRESSION"
    BY DEF NodeBefore, NodeOver
  <2> QED BY <2>1, <2>2, StackedBelow, OrdinaryComplete
<1>9. CASE IfElseParsed
  <2>1. /\ Complete({NodeBefore("R_ELSE_CLAUSE", Top.from),
                     NodeBefore("R_IF_STATEMENT", Under.from)})
        /\ stack' = SubSeq(stack, 1, Len(stack) - 2)
        /\ pc = "Return" /\ pc' = "Return" /\ Top.fn = "Else"
    BY <1>9 DEF IfElseParsed, Returned
  <2>2. /\ NodeBefore("R_IF_STATEMENT", Under.from).kind # "R_BOGUS_EXPRESSION"
        /\ NodeBefore("R_ELSE_CLAUSE", Top.from).kind # "R_BOGUS_EXPRESSION"
    BY DEF NodeBefore, NodeOver
  <2>3. Stacked(stack')
    BY <2>1, StackedBelow
  <2> QED BY <2>1, <2>2, <2>3, OrdinaryComplete
<1>10. CASE ParseForHeader
  <2>1. /\ Consume({}) /\ pc = "ForHeader" /\ pc' = "ForVariable" /\ current # "R_BOGUS"
        /\ stack' = Append(stack, Call("ForHeader", at))
    BY <1>10 DEF ParseForHeader
  <2>2. Call("ForHeader", at) \in OtherFrames
    BY <1>0, <1>1, OtherFramesAre
  <2> QED BY <2>1, <2>2, StackedPush, OrdinaryConsume
<1>11. CASE ParseForVariable
  <2>1. /\ Consume({NodeWith("R_IDENTIFIER", at)}) /\ pc = "ForVariable" /\ pc' = "ForIn"
        /\ current \in LaxIdentifiers /\ stack' = stack
    BY <1>11 DEF ParseForVariable
  <2>2. current # "R_BOGUS" /\ NodeWith("R_IDENTIFIER", at).kind # "R_BOGUS_EXPRESSION"
    BY <2>1, BogusKinds DEF LaxIdentifiers, ValueStart, NodeWith, NodeOver
  <2> QED BY <2>1, <2>2, OrdinaryConsume
<1>12. CASE ParseForIn
  <2>1. /\ Consume({}) /\ pc = "ForIn" /\ pc' = "Prefix" /\ current # "R_BOGUS"
        /\ stack' = Append(stack, Expression(0))
    BY <1>12 DEF ParseForIn
  <2>2. Expression(0) \in OtherFrames
    BY OtherFramesAre, PowerTypes
  <2> QED BY <2>1, <2>2, StackedPush, OrdinaryConsume
<1> QED BY <1>2, <1>3, <1>4, <1>5, <1>6, <1>7, <1>8, <1>9, <1>10, <1>11, <1>12
        DEF GrammarControl

LEMMA FunctionsOrdinary ==
  ASSUME ParserInv, Stacked(stack), GrammarFunctions
  PROVE  OrdinaryStep
<1> USE DEF Continue, Goto, Enter, Leave, Return, Yield
<1>0. at \in Nat /\ Top.fn \in Functions /\ Top \in Frame
  BY InvFacts
<1>1. {"Parameters", "Parameter", "Default"} \subseteq Functions \ {"Statement"}
  BY FunctionsAre
<1>2. CASE ParseParameters
  <2>1. /\ Consume({}) /\ pc = "Parameters" /\ pc' = "ParameterList" /\ current # "R_BOGUS"
        /\ stack' = Append(stack, Call("Parameters", at))
    BY <1>2 DEF ParseParameters
  <2>2. Call("Parameters", at) \in OtherFrames
    BY <1>0, <1>1, OtherFramesAre
  <2> QED BY <2>1, <2>2, StackedPush, OrdinaryConsume
<1>3. CASE ParseParameterName
  <2> DEFINE kind == IF current \in Dots THEN ValueNode(current) ELSE "R_IDENTIFIER"
  <2>1. /\ Consume({NodeWith(kind, at)}) /\ pc = "ParameterList" /\ pc' = "ParameterName"
        /\ current \in ParameterNames /\ stack' = Append(stack, Call("Parameter", at))
    BY <1>3 DEF ParseParameterName
  <2>2. current # "R_BOGUS" /\ kind # "R_BOGUS_EXPRESSION"
    BY <2>1, BogusKinds DEF ParameterNames, LaxIdentifiers, ValueStart
  <2>3. NodeWith(kind, at).kind # "R_BOGUS_EXPRESSION"
    BY <2>2 DEF NodeWith, NodeOver
  <2>4. Call("Parameter", at) \in OtherFrames
    BY <1>0, <1>1, OtherFramesAre
  <2>5. Stacked(stack')
    BY <2>1, <2>4, StackedPush
  <2> HIDE DEF kind
  <2> QED BY <2>1, <2>2, <2>3, <2>5, OrdinaryConsume
<1>4. CASE ParameterFails
  BY <1>4, OrdinaryExpected DEF ParameterFails
<1>5. CASE ParseParameterDefault
  <2>1. /\ Consume({}) /\ pc = "ParameterName" /\ pc' = "Prefix" /\ current # "R_BOGUS"
        /\ stack' = stack \o <<Call("Default", at), Expression(0)>>
    BY <1>5 DEF ParseParameterDefault
  <2>2. Call("Default", at) \in OtherFrames /\ Expression(0) \in OtherFrames
    BY <1>0, <1>1, OtherFramesAre, PowerTypes
  <2>3. Stacked(stack')
    BY <2>1, <2>2, StackedPushTwo
  <2> QED BY <2>1, <2>3, OrdinaryConsume
<1>6. CASE ParseParameterNoDefault
  <2>1. /\ Complete({NodeBefore("R_PARAMETER", Top.from)}) /\ stack' = Below
        /\ pc = "ParameterName" /\ pc' = "ParameterEnd"
    BY <1>6 DEF ParseParameterNoDefault
  <2>2. NodeBefore("R_PARAMETER", Top.from).kind # "R_BOGUS_EXPRESSION"
    BY DEF NodeBefore, NodeOver
  <2> QED BY <2>1, <2>2, StackedBelow, OrdinaryComplete
<1>7. CASE ParameterDefaultParsed
  <2>1. /\ Complete({NodeBefore("R_PARAMETER_DEFAULT", Top.from),
                     NodeBefore("R_PARAMETER", Under.from)})
        /\ stack' = SubSeq(stack, 1, Len(stack) - 2)
        /\ pc = "Return" /\ pc' = "ParameterEnd" /\ Top.fn = "Default"
    BY <1>7 DEF ParameterDefaultParsed, Returned
  <2>2. /\ NodeBefore("R_PARAMETER_DEFAULT", Top.from).kind # "R_BOGUS_EXPRESSION"
        /\ NodeBefore("R_PARAMETER", Under.from).kind # "R_BOGUS_EXPRESSION"
    BY DEF NodeBefore, NodeOver
  <2>3. Stacked(stack')
    BY <2>1, StackedBelow
  <2> QED BY <2>1, <2>2, <2>3, OrdinaryComplete
<1>8. CASE ParseParameterComma
  <2>1. /\ Consume({}) /\ pc = "ParameterEnd" /\ pc' = "ParameterList" /\ current # "R_BOGUS"
        /\ stack' = WithTop([Top EXCEPT !.previous = "Comma"])
    BY <1>8 DEF ParseParameterComma
  <2>2. [Top EXCEPT !.previous = "Comma"] \in OtherFrames
    BY <1>0, <2>1, TopAt, OtherFramesAre
  <2> QED BY <2>1, <2>2, StackedBelow, OrdinaryConsume
<1>9. CASE ParametersParsed
  <2>1. /\ Consume({NodeBefore("R_PARAMETER_LIST", Top.from + 1),
                    NodeWith("R_PARAMETERS", Top.from)})
        /\ pc \in {"ParameterList", "ParameterEnd"} /\ pc' = "Prefix" /\ current # "R_BOGUS"
        /\ stack' = WithTop(Expression(FUNCTION_BODY_BP))
    BY <1>9 DEF ParametersParsed, ParametersEnd
  <2>2. /\ NodeBefore("R_PARAMETER_LIST", Top.from + 1).kind # "R_BOGUS_EXPRESSION"
        /\ NodeWith("R_PARAMETERS", Top.from).kind # "R_BOGUS_EXPRESSION"
    BY DEF NodeBefore, NodeWith, NodeOver
  <2>3. Expression(FUNCTION_BODY_BP) \in OtherFrames
    BY OtherFramesAre, PowerTypes
  <2> QED BY <2>1, <2>2, <2>3, StackedBelow, OrdinaryConsume
<1>10. CASE ParametersUnclosed
  <2>1. /\ nodes' = nodes \cup {NodeBefore("R_PARAMETER_LIST", Top.from + 1)}
        /\ Fail /\ at' = at /\ stack' = stack /\ pc \in {"ParameterList", "ParameterEnd"}
    BY <1>10 DEF ParametersUnclosed, ParametersEnd, Fail, sourceVars
  <2>2. NodeBefore("R_PARAMETER_LIST", Top.from + 1).kind # "R_BOGUS_EXPRESSION"
    BY DEF NodeBefore, NodeOver
  <2> QED BY <2>1, <2>2 DEF OrdinaryStep, Bogus, NodesOf
<1> QED BY <1>2, <1>3, <1>4, <1>5, <1>6, <1>7, <1>8, <1>9, <1>10 DEF GrammarFunctions

LEMMA CallsOrdinary ==
  ASSUME ParserInv, Stacked(stack), GrammarCalls
  PROVE  OrdinaryStep
<1> USE DEF Continue, Goto, Enter, Leave, Return, Yield
<1>0. /\ at \in Nat /\ value.first \in Nat /\ Top.fn \in Functions /\ Top \in Frame
      /\ Top = stack[Len(stack)] /\ Len(stack) \in Nat /\ Len(stack) > 0 /\ Chain(stack)
  BY InvFacts DEF Top
<1>1. {"Call", "Arguments", "Argument", "ArgumentName"} \subseteq Functions \ {"Statement"}
  BY FunctionsAre
<1>2. CASE ParseCallLike
  <2>1. /\ Consume({}) /\ pc = "Return" /\ pc' = "Arguments" /\ current \in CallOpeners
        /\ stack' = stack \o <<Call("Call", value.first),
                               List("Arguments", at, CloserOf[current])>>
    BY <1>2 DEF ParseCallLike, Returned
  <2>2. CloserOf[current] \in Closers /\ current # "R_BOGUS"
    BY <2>1 DEF CloserOf, CallOpeners, Closers
  <2>3. /\ Call("Call", value.first) \in OtherFrames
        /\ List("Arguments", at, CloserOf[current]) \in OtherFrames
    BY <1>0, <1>1, <2>2, OtherFramesAre
  <2>4. Stacked(stack')
    BY <2>1, <2>3, StackedPushTwo
  <2> QED BY <2>1, <2>2, <2>4, OrdinaryConsume
<1>3. CASE ArgumentListParsed
  <2>1. PICK completed \in {{NodeBefore("R_ARGUMENT_LIST", Top.from + 1)},
                            {NodeBefore("R_ARGUMENT_LIST", Top.from + 1), EmptyArgument}} :
          Complete(completed)
    <3>1. {NodeBefore("R_ARGUMENT_LIST", Top.from + 1)} \cup {EmptyArgument}
            = {NodeBefore("R_ARGUMENT_LIST", Top.from + 1), EmptyArgument}
      OBVIOUS
    <3>2. {NodeBefore("R_ARGUMENT_LIST", Top.from + 1)} \cup {}
            = {NodeBefore("R_ARGUMENT_LIST", Top.from + 1)}
      OBVIOUS
    <3>3. CASE Top.previous = "Comma"
      BY <1>3, <3>1, <3>3 DEF ArgumentListParsed
    <3>4. CASE Top.previous # "Comma"
      BY <1>3, <3>2, <3>4 DEF ArgumentListParsed
    <3> QED BY <3>3, <3>4
  <2>2. stack' = stack /\ pc = "Arguments" /\ pc' = "CallClose"
    BY <1>3 DEF ArgumentListParsed
  <2>3. \A n \in completed : n.kind # "R_BOGUS_EXPRESSION"
    BY DEF NodeBefore, EmptyArgument, NodeOver
  <2> QED BY <2>1, <2>2, <2>3, OrdinaryComplete
<1>4. CASE ParseArgumentComma
  <2>1. PICK completed \in {{EmptyArgument}, {}} : Consume(completed)
    BY <1>4 DEF ParseArgumentComma
  <2>2. /\ stack' = WithTop([Top EXCEPT !.previous = "Comma"]) /\ current # "R_BOGUS"
        /\ pc = "Arguments" /\ pc' = "Arguments"
    BY <1>4 DEF ParseArgumentComma
  <2>3. [Top EXCEPT !.previous = "Comma"] \in OtherFrames
    BY <1>0, <2>2, TopAt, OtherFramesAre
  <2>4. \A n \in completed : n.kind # "R_BOGUS_EXPRESSION"
    BY DEF EmptyArgument, NodeOver
  <2>5. Stacked(stack')
    BY <2>2, <2>3, StackedBelow
  <2> QED BY <2>1, <2>2, <2>4, <2>5, OrdinaryConsume
<1>5. CASE ArgumentsNotSeparated \/ CallUnclosed
  BY <1>5, OrdinaryExpected DEF ArgumentsNotSeparated, CallUnclosed
<1>6. CASE ParseArgument
  <2> DEFINE frames == Append(stack, Call("Argument", at))
  <2>1. Call("Argument", at) \in OtherFrames /\ Call("ArgumentName", at) \in OtherFrames
        /\ Expression(0) \in OtherFrames
    BY <1>0, <1>1, OtherFramesAre, PowerTypes
  <2>2. Stacked(frames)
    BY <2>1, StackedPush
  <2> HIDE DEF frames
  <2>3. Stacked(Append(frames, Call("ArgumentName", at))) /\ Stacked(Append(frames, Expression(0)))
    BY <2>1, <2>2, StackedPush
  <2>4. pc = "Arguments"
    BY <1>6 DEF ParseArgument
  <2>5. CASE current \in ArgumentNameStart
    <3>1. ParseValue(Append(frames, Call("ArgumentName", at)))
      BY <1>6, <2>5 DEF ParseArgument, frames
    <3> QED BY <2>3, <2>4, <3>1, OrdinaryValue
  <2>6. CASE current \notin ArgumentNameStart
    <3>1. Complete({}) /\ stack' = Append(frames, Expression(0)) /\ pc' = "Prefix"
      BY <1>6, <2>6 DEF ParseArgument, frames
    <3> QED BY <2>3, <2>4, <3>1, OrdinaryComplete
  <2> QED BY <2>5, <2>6
<1>7. CASE ParseArgumentEqual
  <2>1. /\ Consume({NodeWith("R_ARGUMENT_NAME_CLAUSE", value.first)}) /\ stack' = Below
        /\ pc = "Return" /\ pc' = "ArgumentValue" /\ current # "R_BOGUS"
    BY <1>7 DEF ParseArgumentEqual, Returned
  <2>2. NodeWith("R_ARGUMENT_NAME_CLAUSE", value.first).kind # "R_BOGUS_EXPRESSION"
    BY DEF NodeWith, NodeOver
  <2> QED BY <2>1, <2>2, StackedBelow, OrdinaryConsume
<1>8. CASE ParseArgumentRest
  <2>1. /\ Complete({}) /\ stack' = WithTop(Expression(0)) /\ pc = "Return" /\ pc' = "Return"
    BY <1>8 DEF ParseArgumentRest, Returned
  <2>2. Expression(0) \in OtherFrames
    BY OtherFramesAre, PowerTypes
  <2> QED BY <2>1, <2>2, StackedBelow, OrdinaryComplete
<1>9. CASE ParseArgumentValue
  <2>1. /\ Complete({}) /\ stack' = Append(stack, Expression(0)) /\ pc = "ArgumentValue"
        /\ pc' = "Prefix"
    BY <1>9 DEF ParseArgumentValue
  <2>2. Expression(0) \in OtherFrames
    BY OtherFramesAre, PowerTypes
  <2> QED BY <2>1, <2>2, StackedPush, OrdinaryComplete
<1>10. CASE ArgumentParsed
  <2>1. /\ Complete({NodeBefore("R_ARGUMENT", Top.from)}) /\ Top.fn = "Argument"
        /\ stack' = Append(SubSeq(stack, 1, Len(stack) - 2),
                           [Under EXCEPT !.previous = "Argument"])
        /\ pc \in {"ArgumentValue", "Return"} /\ pc' = "Arguments"
    BY <1>10, TopAt DEF ArgumentParsed, Returned
  <2>2. Stacked(SubSeq(stack, 1, Len(stack) - 2)) /\ Under \in Frame /\ Under.fn = "Arguments"
    BY <2>1, StackedBelow, CallersAre
  <2>3. [Under EXCEPT !.previous = "Argument"] \in OtherFrames
    BY <2>2, OtherFramesAre
  <2>4. NodeBefore("R_ARGUMENT", Top.from).kind # "R_BOGUS_EXPRESSION"
    BY DEF NodeBefore, NodeOver
  <2>5. Stacked(stack')
    BY <2>1, <2>2, <2>3, StackedPush
  <2> QED BY <2>1, <2>4, <2>5, OrdinaryComplete
<1>11. CASE GlueClose
  <2>1. /\ at' = at /\ nodes' = nodes /\ diagnostics' = diagnostics
        /\ stack' = stack /\ pc = "CallClose" /\ pc' = "CallClose"
    BY <1>11 DEF GlueClose, TryGlueRightBracket2
  <2> QED BY <2>1 DEF OrdinaryStep, Bogus, NodesOf
<1>12. CASE CannotGlue
  <2>1. Fail /\ at' = at /\ nodes' = nodes /\ stack' = stack /\ pc = "CallClose"
    BY <1>12 DEF CannotGlue, TryGlueRightBracket2, Fail
  <2> QED BY <2>1 DEF OrdinaryStep, Bogus, NodesOf
<1>13. CASE CallParsed
  <2>1. /\ Consume({NodeWith(ArgumentsNode[Top.close], Top.from),
                    NodeWith(CallNode[Top.close], Under.from)})
        /\ stack' = SubSeq(stack, 1, Len(stack) - 2)
        /\ pc = "CallClose" /\ pc' = "Return" /\ current = Top.close
    BY <1>13 DEF CallParsed
  <2>2. Top.fn = "Arguments" /\ Top.close \in DOMAIN CallNode
    BY <1>0, <2>1, TopAt DEF Chain
  <2>3. current # "R_BOGUS"
    BY <2>1, <2>2 DEF CallNode
  <2>4. /\ NodeWith(ArgumentsNode[Top.close], Top.from).kind # "R_BOGUS_EXPRESSION"
        /\ NodeWith(CallNode[Top.close], Under.from).kind # "R_BOGUS_EXPRESSION"
    BY <2>2, BogusKinds DEF NodeWith, NodeOver
  <2>5. Stacked(stack')
    BY <2>1, <2>2, StackedBelow
  <2> QED BY <2>1, <2>3, <2>4, <2>5, OrdinaryConsume
<1> QED BY <1>2, <1>3, <1>4, <1>5, <1>6, <1>7, <1>8, <1>9, <1>10, <1>11, <1>12, <1>13
        DEF GrammarCalls

-----------------------------------------------------------------------------
(* Errors, recovery and bogus nodes *)

LastError == diagnostics[Len(diagnostics)]

Covers(n, d) == n.first <= d /\ d <= n.last + 1

\* While recovery skips tokens: it began at or before the error, it is past it
\* only as far as no separator was met, and nothing was blessed since.
RecoveryInv ==
  pc = "Recover" =>
    /\ diagnostics # <<>>
    /\ Top.from <= LastError /\ LastError <= at
    /\ Top.previous # "Progress" => at = Top.from
    /\ LastError < at => at \notin blessed
    /\ \A i \in Top.from + 1 .. at - 1 : HasSeparator(i) => i <= LastError

\* Every error is covered by a bogus node, or is the one being recovered from.
DiagnosticsInv ==
  \A k \in DOMAIN diagnostics :
    \/ pc \in {"Fail", "Recover"} /\ k = Len(diagnostics)
    \/ \E n \in Bogus : Covers(n, diagnostics[k])

BogusInv ==
  \A n \in Bogus :
    /\ n.last < at
    /\ \E k \in DOMAIN diagnostics : Covers(n, diagnostics[k])
    /\ \A i \in n.first + 1 .. n.last :
         HasSeparator(i) => \E k \in DOMAIN diagnostics :
                              Covers(n, diagnostics[k]) /\ i <= diagnostics[k]

\* The tokens that the lexer could not read are in a bogus node, or will be.
UnreadInv ==
  \A i \in 1 .. at - 1 :
    text[i].kind = "R_BOGUS" =>
      \/ \E n \in Bogus : n.first <= i /\ i <= n.last
      \/ pc = "Recover" /\ Top.from <= i

ErrorInv ==
  /\ ParserInv
  /\ CurrentIsLexed
  /\ StatementsAhead(stack)
  /\ RecoveryInv
  /\ DiagnosticsInv
  /\ BogusInv
  /\ UnreadInv

LEMMA ErrorFacts ==
  ASSUME ErrorInv
  PROVE  /\ ParserInv /\ SourceInv /\ Stacked(stack) /\ stack \in Seq(Frame)
         /\ diagnostics \in Seq(Nat) /\ Len(diagnostics) \in Nat
         /\ DOMAIN diagnostics = 1 .. Len(diagnostics)
         /\ at \in Nat /\ at >= 1
         /\ Top \in Frame /\ Top.from \in Nat /\ Top = stack[Len(stack)]
         /\ Len(stack) \in Nat /\ Len(stack) > 0
         /\ Top.fn = "Statement" => Top.from <= at
<1>1. ParserInv /\ SourceInv /\ diagnostics \in Seq(Nat)
  BY DEF ErrorInv, ParserInv
<1>2. /\ at \in Nat /\ at >= 1 /\ stack \in Seq(Frame) /\ Top \in Frame /\ Top.from \in Nat
      /\ Top = stack[Len(stack)] /\ Len(stack) \in Nat /\ Len(stack) > 0
  BY <1>1, InvFacts DEF Top
<1>3. StatementsAhead(stack)
  BY DEF ErrorInv
<1>4. Top.fn = "Statement" => Top.from <= at
  BY <1>2, <1>3 DEF StatementsAhead
<1> QED BY <1>1, <1>2, <1>3, <1>4 DEF Stacked

\* A step that neither adds a bogus node nor forgets an error keeps what is
\* known of the bogus nodes.
LEMMA BogusInvKept ==
  ASSUME ErrorInv, TextStep, Bogus' = Bogus, diagnostics' \in Seq(Nat),
         \A k \in DOMAIN diagnostics : k \in DOMAIN diagnostics' /\ diagnostics'[k] = diagnostics[k]
  PROVE  BogusInv'
<1>1. at \in Nat /\ at >= 1 /\ at' \in Nat /\ at <= at' /\ \A i \in 1 .. at : text'[i] = text[i]
  BY ErrorFacts DEF TextStep
<1>2. SUFFICES ASSUME NEW n \in Bogus
               PROVE  /\ n.last < at'
                      /\ \E k \in DOMAIN diagnostics' : Covers(n, diagnostics'[k])
                      /\ \A i \in n.first + 1 .. n.last :
                           HasSeparator(i)' => \E k \in DOMAIN diagnostics' :
                                Covers(n, diagnostics'[k]) /\ i <= diagnostics'[k]
  BY DEF BogusInv
<1>3. n.first \in Nat /\ n.last \in Nat
  BY <1>2, ErrorFacts DEF ParserInv, Bogus, NodesOf, Node
<1>4. /\ n.last < at
      /\ \E k \in DOMAIN diagnostics : Covers(n, diagnostics[k])
      /\ \A i \in n.first + 1 .. n.last :
           HasSeparator(i) => \E k \in DOMAIN diagnostics :
                                Covers(n, diagnostics[k]) /\ i <= diagnostics[k]
  BY <1>2 DEF ErrorInv, BogusInv
<1>5. \E k \in DOMAIN diagnostics' : Covers(n, diagnostics'[k])
  BY <1>4
<1>6. ASSUME NEW i \in n.first + 1 .. n.last, HasSeparator(i)'
      PROVE  \E k \in DOMAIN diagnostics' : Covers(n, diagnostics'[k]) /\ i <= diagnostics'[k]
  <2>1. text'[i] = text[i]
    BY <1>1, <1>3, <1>4
  <2>2. HasSeparator(i)
    BY <1>6, <2>1 DEF HasSeparator
  <2> QED BY <1>4, <2>2
<1> QED BY <1>1, <1>3, <1>4, <1>5, <1>6

LEMMA OrdinaryErrors ==
  ASSUME ErrorInv, OrdinaryStep, TextStep, CurrentIsLexed', ParserInv'
  PROVE  ErrorInv'
<1>1. /\ at \in Nat /\ at >= 1 /\ at' \in Nat /\ at <= at'
      /\ \A i \in 1 .. at : text'[i] = text[i]
      /\ diagnostics \in Seq(Nat) /\ Len(diagnostics) \in Nat
      /\ DOMAIN diagnostics = 1 .. Len(diagnostics)
  BY ErrorFacts DEF TextStep
<1>2. /\ Bogus' = Bogus /\ pc \notin {"Fail", "Recover"} /\ pc' # "Recover"
      /\ Stacked(stack')
  BY DEF OrdinaryStep, Fail, Continue, Goto
<1>3. \/ diagnostics' = diagnostics
      \/ pc' = "Fail" /\ diagnostics' = Append(diagnostics, at)
  BY DEF OrdinaryStep, Fail, Continue, Goto
<1>4. /\ diagnostics' \in Seq(Nat)
      /\ \A k \in DOMAIN diagnostics :
           k \in DOMAIN diagnostics' /\ diagnostics'[k] = diagnostics[k]
      /\ \A k \in DOMAIN diagnostics' :
           \/ k \in DOMAIN diagnostics
           \/ pc' = "Fail" /\ k = Len(diagnostics')
  <2>1. CASE diagnostics' = diagnostics
    BY <1>1, <2>1
  <2>2. CASE pc' = "Fail" /\ diagnostics' = Append(diagnostics, at)
    <3>1. /\ diagnostics' \in Seq(Nat) /\ Len(diagnostics') = Len(diagnostics) + 1
          /\ \A k \in 1 .. Len(diagnostics) : diagnostics'[k] = diagnostics[k]
      BY <1>1, <2>2, AppendProperties
    <3>2. DOMAIN diagnostics' = 1 .. Len(diagnostics) + 1
      BY <3>1
    <3> QED BY <1>1, <2>2, <3>1, <3>2
  <2> QED BY <1>3, <2>1, <2>2
<1>5. StatementsAhead(stack)'
  <2>1. stack' \in Seq(Frame) /\ StatementsAhead(stack')
    BY <1>2 DEF Stacked
  <2>2. ASSUME NEW i \in 1 .. Len(stack') PROVE stack'[i].from \in Nat
    <3>1. stack'[i] \in Frame
      BY <2>1
    <3> QED BY <3>1 DEF Frame
  <2> QED BY <1>1, <2>1, <2>2 DEF StatementsAhead
<1>6. DiagnosticsInv'
  <2>1. SUFFICES ASSUME NEW k \in DOMAIN diagnostics'
                 PROVE  \/ pc' \in {"Fail", "Recover"} /\ k = Len(diagnostics')
                        \/ \E n \in Bogus : Covers(n, diagnostics'[k])
    BY <1>2 DEF DiagnosticsInv
  <2>2. CASE k \in DOMAIN diagnostics
    BY <1>2, <1>4, <2>2 DEF ErrorInv, DiagnosticsInv
  <2> QED BY <1>4, <2>1, <2>2
<1>7. BogusInv'
  BY <1>2, <1>4, BogusInvKept
<1>8. UnreadInv'
  <2>1. SUFFICES ASSUME NEW i \in 1 .. at' - 1, text'[i].kind = "R_BOGUS"
                 PROVE  \E n \in Bogus : n.first <= i /\ i <= n.last
    BY <1>2 DEF UnreadInv
  <2>2. CASE i < at
    <3>1. i \in 1 .. at - 1 /\ text[i].kind = "R_BOGUS"
      BY <1>1, <2>1, <2>2
    <3> QED BY <1>2, <3>1 DEF ErrorInv, UnreadInv
  <2>3. CASE i >= at
    <3>1. at' # at /\ i \in at .. at' - 1
      BY <1>1, <2>3
    <3>2. Bump /\ current # "R_BOGUS"
      BY <3>1, Zenon DEF OrdinaryStep
    <3>3. text'[i].kind # "R_BOGUS"
      BY <3>1, <3>2 DEF TextStep
    <3> QED BY <2>1, <3>3
  <2> QED BY <1>1, <2>2, <2>3
<1>9. RecoveryInv'
  BY <1>2 DEF RecoveryInv
<1> QED BY <1>5, <1>6, <1>7, <1>8, <1>9 DEF ErrorInv

\* None on its way to the statement that failed.
LEMMA PropagateErrors ==
  ASSUME ErrorInv, Propagate, TextStep, CurrentIsLexed', ParserInv'
  PROVE  ErrorInv'
<1>1. /\ UNCHANGED <<text, at, blessed, diagnostics, nodes>>
      /\ stack' = Below /\ pc = "Fail" /\ pc' = "Fail"
  BY DEF Propagate, Leave, Continue, Goto, sourceVars
<1>2. Bogus' = Bogus
  BY <1>1 DEF Bogus, NodesOf
<1>3. StatementsAhead(stack)'
  <2>1. StatementsAhead(Below)
    BY ErrorFacts, StackedBelow DEF Stacked
  <2> QED BY <1>1, <2>1 DEF StatementsAhead
<1>4. RecoveryInv'
  BY <1>1 DEF RecoveryInv
<1>5. DiagnosticsInv'
  BY <1>1, <1>2 DEF ErrorInv, DiagnosticsInv
<1>6. BogusInv'
  <2>1. diagnostics' \in Seq(Nat)
    BY <1>1, ErrorFacts
  <2> QED BY <1>1, <1>2, <2>1, BogusInvKept
<1>7. UnreadInv'
  BY <1>1, <1>2 DEF ErrorInv, UnreadInv
<1> QED BY <1>3, <1>4, <1>5, <1>6, <1>7 DEF ErrorInv

\* The frame of the statement that is being recovered.
LEMMA Recovering ==
  ASSUME ErrorInv, Top.fn = "Statement"
  PROVE  \A s \in {stack, WithTop([Top EXCEPT !.previous = "Progress"])} :
           /\ Stacked(s)
           /\ s[Len(s)].from = Top.from
           /\ s[Len(s)].previous \in {Top.previous, "Progress"}
<1> DEFINE f == [Top EXCEPT !.previous = "Progress"]
<1>1. /\ Stacked(stack) /\ Top \in Frame /\ Top = stack[Len(stack)] /\ ParserInv
      /\ Top.from <= at
  BY ErrorFacts
<1>2. f \in Frame /\ f.fn = Top.fn /\ f.from = Top.from /\ f.previous = "Progress"
  BY <1>1 DEF Frame
<1>3. Stacked(Below)
  BY <1>1, StackedBelow
<1> HIDE DEF f
<1>4. Stacked(Append(Below, f)) /\ Append(Below, f)[Len(Append(Below, f))] = f
  BY <1>1, <1>2, <1>3, StackedAppend
<1>5. WithTop(f) = Append(Below, f)
  BY DEF WithTop
<1>6. Stacked(WithTop(f)) /\ WithTop(f)[Len(WithTop(f))] = f
  BY <1>4, <1>5, Zenon
<1> QED BY <1>1, <1>2, <1>6 DEF f

LEMMA RecoverErrors ==
  ASSUME ErrorInv, RecoverStatement, TextStep, CurrentIsLexed', ParserInv'
  PROVE  ErrorInv'
<1>1. /\ UNCHANGED <<text, at, blessed, diagnostics, nodes>>
      /\ pc = "Fail" /\ Top.fn = "Statement" /\ pc' = "Recover"
      /\ stack' = IF at # Top.from THEN WithTop([Top EXCEPT !.previous = "Progress"])
                                   ELSE stack
  BY DEF RecoverStatement, Complete, Continue, Goto, sourceVars, MadeProgress
<1>2. /\ diagnostics # <<>> /\ LastError = at /\ Top.from <= at /\ at \in Nat
      /\ Top.from \in Nat
  BY <1>1, ErrorFacts DEF ParserInv, FailureIsRecorded, LastError
<1>3. Bogus' = Bogus /\ LastError' = LastError
  BY <1>1 DEF Bogus, NodesOf, LastError
<1>4. /\ Stacked(stack') /\ Top'.from = Top.from
      /\ at # Top.from => Top'.previous = "Progress"
  <2>1. Stacked(stack') /\ stack'[Len(stack')].from = Top.from
    BY <1>1, Recovering
  <2>2. ASSUME at # Top.from PROVE stack'[Len(stack')].previous = "Progress"
    <3>1. stack' = Append(Below, [Top EXCEPT !.previous = "Progress"])
      BY <1>1, <2>2 DEF WithTop
    <3>2. Below \in Seq(Frame) /\ Top \in Frame
      BY ErrorFacts, StackedBelow DEF Stacked
    <3>3. /\ [Top EXCEPT !.previous = "Progress"] \in Frame
          /\ [Top EXCEPT !.previous = "Progress"].previous = "Progress"
      BY <3>2 DEF Frame
    <3> QED BY <3>1, <3>2, <3>3, AppendProperties
  <2> QED BY <2>1, <2>2 DEF Top
<1>5. StatementsAhead(stack)'
  <2>1. StatementsAhead(stack')
    BY <1>4 DEF Stacked
  <2> QED BY <1>1, <2>1 DEF StatementsAhead
<1>6. RecoveryInv'
  <2>1. at' = at /\ diagnostics' # <<>> /\ LastError' = at /\ text' = text
    BY <1>1, <1>2, <1>3
  <2>2. Top'.previous # "Progress" => at' = Top'.from
    BY <1>1, <1>4
  <2>3. \A i \in Top'.from + 1 .. at' - 1 : i <= LastError'
    BY <1>2, <1>4, <2>1
  <2> QED BY <1>2, <1>4, <2>1, <2>2, <2>3 DEF RecoveryInv
<1>7. DiagnosticsInv'
  BY <1>1, <1>3 DEF ErrorInv, DiagnosticsInv
<1>8. BogusInv'
  <2>1. diagnostics' \in Seq(Nat)
    BY <1>1, ErrorFacts
  <2> QED BY <1>1, <1>3, <2>1, BogusInvKept
<1>9. UnreadInv'
  BY <1>1, <1>3 DEF ErrorInv, UnreadInv
<1> QED BY <1>5, <1>6, <1>7, <1>8, <1>9 DEF ErrorInv

\* A token is skipped only if it is not a boundary, and it stays in reach of
\* the bogus node.
LEMMA SkipErrors ==
  ASSUME ErrorInv, SkipToken, TextStep, CurrentIsLexed', ParserInv'
  PROVE  ErrorInv'
<1>1. /\ Bump /\ UNCHANGED <<diagnostics, nodes>>
      /\ pc = "Recover" /\ pc' = "Recover" /\ ~AtStatementBoundary
      /\ stack' = WithTop([Top EXCEPT !.previous = "Progress"])
  BY DEF SkipToken, Consume, Continue, Goto
<1>2. Top.fn = "Statement"
  BY <1>1, ErrorFacts, TopAt
<1>3. /\ at \in Nat /\ at >= 1 /\ Top.from \in Nat /\ Top.from <= at
      /\ diagnostics \in Seq(Nat) /\ Len(diagnostics) \in Nat
  BY <1>2, ErrorFacts
<1>4. /\ diagnostics # <<>> /\ Top.from <= LastError /\ LastError <= at
      /\ Top.previous # "Progress" => at = Top.from
      /\ LastError < at => at \notin blessed
      /\ \A i \in Top.from + 1 .. at - 1 : HasSeparator(i) => i <= LastError
  BY <1>1 DEF ErrorInv, RecoveryInv
<1>5. /\ at' \in Nat /\ at < at' /\ at' \notin blessed'
      /\ \A i \in 1 .. at : text'[i] = text[i]
      /\ \A i \in at + 1 .. at' - 1 : text'[i].gap = "Tight"
  BY <1>1 DEF TextStep
<1>6. Bogus' = Bogus /\ LastError' = LastError /\ LastError \in Nat
  <2>1. LastError \in Nat
    BY <1>3, <1>4 DEF LastError
  <2> QED BY <1>1, <2>1 DEF Bogus, NodesOf, LastError
<1>7. Stacked(stack') /\ Top'.from = Top.from /\ Top'.previous = "Progress"
  <2>1. Stacked(stack') /\ stack'[Len(stack')].from = Top.from
    BY <1>1, <1>2, Recovering
  <2>2. stack' = Append(Below, [Top EXCEPT !.previous = "Progress"])
    BY <1>1 DEF WithTop
  <2>3. Below \in Seq(Frame) /\ Top \in Frame
    BY ErrorFacts, StackedBelow DEF Stacked
  <2>4. /\ [Top EXCEPT !.previous = "Progress"] \in Frame
        /\ [Top EXCEPT !.previous = "Progress"].previous = "Progress"
    BY <2>3 DEF Frame
  <2>5. stack'[Len(stack')].previous = "Progress"
    BY <2>2, <2>3, <2>4, AppendProperties
  <2> QED BY <2>1, <2>5 DEF Top
<1>8. StatementsAhead(stack)'
  <2>1. stack' \in Seq(Frame) /\ StatementsAhead(stack')
    BY <1>7 DEF Stacked
  <2>2. ASSUME NEW i \in 1 .. Len(stack') PROVE stack'[i].from \in Nat
    <3>1. stack'[i] \in Frame
      BY <2>1
    <3> QED BY <3>1 DEF Frame
  <2> QED BY <1>3, <1>5, <2>1, <2>2 DEF StatementsAhead
<1>9. ASSUME NEW i \in Nat, Top.from + 1 <= i, i <= at' - 1, HasSeparator(i)'
      PROVE  i <= LastError
  <2>1. CASE i < at
    <3>1. i \in Top.from + 1 .. at - 1 /\ text'[i] = text[i]
      BY <1>3, <1>5, <1>9, <2>1
    <3>2. HasSeparator(i)
      BY <1>9, <3>1 DEF HasSeparator
    <3> QED BY <1>4, <3>1, <3>2
  <2>2. CASE i = at
    <3>1. Top.previous = "Progress"
      BY <1>3, <1>4, <1>9, <2>2
    <3>2. ~HasNewline(text[at].gap) /\ ~gapSemicolons
      BY <1>1, <3>1 DEF AtStatementBoundary, HasPrecedingSeparator, GapNewlines
    <3>3. HasSemicolon(text[at].gap)
      <4>1. text'[i] = text[at]
        BY <1>3, <1>5, <2>2
      <4> QED BY <1>9, <3>2, <4>1 DEF HasSeparator
    <3>4. ~HasSemicolon(text[at].gap) \/ at \in blessed
      <4>1. PendingIsCurrent
        BY ErrorFacts DEF SourceInv
      <4>2. pending = 0
        BY <3>2, <4>1 DEF PendingIsCurrent
      <4> QED BY <1>3, <4>1, <4>2 DEF PendingIsCurrent
    <3>5. ~(LastError < at)
      BY <1>4, <3>3, <3>4
    <3> QED BY <1>3, <1>6, <2>2, <3>5
  <2>3. CASE i > at
    <3>1. PICK end \in Nat : end = at'
      BY <1>5
    <3>2. at \in Nat /\ i \in Nat /\ i <= end - 1
      BY <1>3, <1>9, <3>1
    <3>3. i \in at + 1 .. end - 1
      BY <2>3, <3>2
    <3>4. text'[i].gap = "Tight"
      BY <1>5, <3>1, <3>3
    <3> QED BY <1>9, <3>4 DEF HasSeparator, HasNewline, HasSemicolon
  <2> QED BY <1>3, <1>5, <1>9, <2>1, <2>2, <2>3
<1>10. RecoveryInv'
  <2>1. diagnostics' # <<>> /\ Top'.from <= LastError' /\ LastError' <= at'
    BY <1>1, <1>3, <1>4, <1>5, <1>6, <1>7
  <2>2. ASSUME NEW i \in Top'.from + 1 .. at' - 1, HasSeparator(i)'
        PROVE  i <= LastError'
    <3>1. i \in Nat /\ Top.from + 1 <= i /\ i <= at' - 1
      BY <1>3, <1>5, <1>7
    <3> QED BY <1>6, <1>9, <2>2, <3>1
  <2> QED BY <1>5, <1>7, <2>1, <2>2 DEF RecoveryInv
<1>11. DiagnosticsInv'
  BY <1>1, <1>6 DEF ErrorInv, DiagnosticsInv
<1>12. BogusInv'
  BY <1>1, <1>3, <1>6, BogusInvKept
<1>13. UnreadInv'
  <2>1. SUFFICES ASSUME NEW i \in 1 .. at' - 1, text'[i].kind = "R_BOGUS"
                 PROVE  \/ \E n \in Bogus : n.first <= i /\ i <= n.last
                        \/ Top.from <= i
    BY <1>1, <1>6, <1>7 DEF UnreadInv
  <2>2. CASE i < at
    <3>1. i \in 1 .. at - 1 /\ text[i].kind = "R_BOGUS"
      BY <1>3, <1>5, <2>1, <2>2
    <3> QED BY <3>1 DEF ErrorInv, UnreadInv
  <2> QED BY <1>3, <1>5, <2>2
<1> QED BY <1>8, <1>10, <1>11, <1>12, <1>13 DEF ErrorInv

\* The bogus node takes in the error and all that recovery skipped.
LEMMA RecoveredErrors ==
  ASSUME ErrorInv, Recovered, TextStep, CurrentIsLexed', ParserInv'
  PROVE  ErrorInv'
<1> DEFINE bogus == NodeBefore("R_BOGUS_EXPRESSION", Top.from)
<1>1. /\ UNCHANGED <<text, at, blessed, diagnostics>> /\ nodes' = nodes \cup {bogus}
      /\ pc = "Recover" /\ pc' = "List" /\ stack' = Below
  BY DEF Recovered, Complete, Continue, Goto, sourceVars
<1>2. /\ at \in Nat /\ at >= 1 /\ Top.from \in Nat
      /\ diagnostics \in Seq(Nat) /\ Len(diagnostics) \in Nat
      /\ DOMAIN diagnostics = 1 .. Len(diagnostics)
  BY ErrorFacts
<1>3. /\ diagnostics # <<>> /\ Top.from <= LastError /\ LastError <= at
      /\ \A i \in Top.from + 1 .. at - 1 : HasSeparator(i) => i <= LastError
  BY <1>1 DEF ErrorInv, RecoveryInv
<1>4. /\ bogus.kind = "R_BOGUS_EXPRESSION" /\ bogus.first = Top.from /\ bogus.last = at - 1
      /\ bogus.last + 1 = at
  BY <1>2 DEF NodeBefore, NodeOver
<1> HIDE DEF bogus
<1>5. Bogus' = Bogus \cup {bogus}
  BY <1>1, <1>4 DEF Bogus, NodesOf
<1>6. Len(diagnostics) \in DOMAIN diagnostics /\ LastError \in Nat
  BY <1>2, <1>3 DEF LastError
<1>7. Covers(bogus, LastError)
  BY <1>3, <1>4 DEF Covers
<1>8. StatementsAhead(stack)'
  <2>1. StatementsAhead(Below)
    BY ErrorFacts, StackedBelow DEF Stacked
  <2> QED BY <1>1, <2>1 DEF StatementsAhead
<1>9. DiagnosticsInv'
  <2>1. SUFFICES ASSUME NEW k \in DOMAIN diagnostics
                 PROVE  \E n \in Bogus \cup {bogus} : Covers(n, diagnostics[k])
    BY <1>1, <1>5 DEF DiagnosticsInv
  <2>2. CASE k = Len(diagnostics)
    BY <1>7, <2>2 DEF LastError
  <2>3. CASE k # Len(diagnostics)
    BY <2>3 DEF ErrorInv, DiagnosticsInv
  <2> QED BY <2>2, <2>3
<1>10. BogusInv'
  <2>1. SUFFICES ASSUME NEW n \in Bogus \cup {bogus}
                 PROVE  /\ n.last < at
                        /\ \E k \in DOMAIN diagnostics : Covers(n, diagnostics[k])
                        /\ \A i \in n.first + 1 .. n.last :
                             HasSeparator(i) => \E k \in DOMAIN diagnostics :
                                  Covers(n, diagnostics[k]) /\ i <= diagnostics[k]
    BY <1>1, <1>5 DEF BogusInv, HasSeparator
  <2>2. CASE n \in Bogus
    BY <2>2 DEF ErrorInv, BogusInv
  <2>3. CASE n = bogus
    <3>1. n.last < at /\ Covers(n, diagnostics[Len(diagnostics)])
      BY <1>2, <1>4, <1>7, <2>3 DEF LastError
    <3>2. \A i \in n.first + 1 .. n.last : HasSeparator(i) => i <= diagnostics[Len(diagnostics)]
      BY <1>3, <1>4, <2>3 DEF LastError
    <3> QED BY <1>6, <3>1, <3>2
  <2> QED BY <2>1, <2>2, <2>3
<1>11. UnreadInv'
  <2>1. SUFFICES ASSUME NEW i \in 1 .. at - 1, text[i].kind = "R_BOGUS"
                 PROVE  \E n \in Bogus \cup {bogus} : n.first <= i /\ i <= n.last
    BY <1>1, <1>5 DEF UnreadInv
  <2>2. \/ \E n \in Bogus : n.first <= i /\ i <= n.last
        \/ Top.from <= i
    BY <2>1 DEF ErrorInv, UnreadInv
  <2> QED BY <1>2, <1>4, <2>2
<1>12. RecoveryInv'
  BY <1>1 DEF RecoveryInv
<1> QED BY <1>8, <1>9, <1>10, <1>11, <1>12 DEF ErrorInv

LEMMA ErrorInitInv == ParserInit => ErrorInv
<1> SUFFICES ASSUME ParserInit PROVE ErrorInv
  OBVIOUS
<1>1. /\ pc = "Root" /\ stack = <<Call("Root", 1)>> /\ diagnostics = <<>> /\ nodes = {}
      /\ SourceInit /\ at = 1
  BY DEF ParserInit, SourceInit
<1>2. PICK token \in NextTokens("Normal", 0) : text = <<token>> /\ current = token.kind
  BY <1>1 DEF SourceInit
<1>3. token.kind # "R_BRACK2"
  BY NextTokensType DEF Modes
<1>4. CurrentIsLexed
  BY <1>1, <1>2, <1>3 DEF CurrentIsLexed
<1>5. StatementsAhead(stack)
  BY <1>1 DEF StatementsAhead, Call
<1>6. Bogus = {}
  BY <1>1 DEF Bogus, NodesOf
<1>7. RecoveryInv /\ DiagnosticsInv /\ BogusInv /\ UnreadInv
  BY <1>1, <1>6 DEF RecoveryInv, DiagnosticsInv, BogusInv, UnreadInv
<1> QED BY <1>4, <1>5, <1>7, ParserInitInv DEF ErrorInv

LEMMA ErrorNextInv == ErrorInv /\ [ParserNext]_vars => ErrorInv'
<1> SUFFICES ASSUME ErrorInv, [ParserNext]_vars PROVE ErrorInv'
  OBVIOUS
<1>1. ParserInv /\ ParserInv' /\ Stacked(stack)
  BY ErrorFacts, ParserNextInv
<1>2. TextStep /\ CurrentIsLexed'
  BY ErrorFacts, StepIsSourceStep, SourceText DEF ErrorInv
<1>3. CASE OrdinaryStep
  BY <1>1, <1>2, <1>3, OrdinaryErrors
<1>4. CASE Propagate
  BY <1>1, <1>2, <1>4, PropagateErrors
<1>5. CASE GrammarMod
  <2>1. ParseRoot \/ RootParsed \/ ParseStatement \/ StatementParsed \/ EndList => ErrorInv'
    BY <1>1, <1>3, ModOrdinary
  <2>2. RecoverStatement => ErrorInv'
    BY <1>1, <1>2, RecoverErrors
  <2>3. SkipToken => ErrorInv'
    BY <1>1, <1>2, SkipErrors
  <2>4. Recovered => ErrorInv'
    BY <1>1, <1>2, RecoveredErrors
  <2> QED BY <1>5, <2>1, <2>2, <2>3, <2>4 DEF GrammarMod
<1>6. CASE GrammarExpressions \/ GrammarControl \/ GrammarFunctions \/ GrammarCalls
  BY <1>1, <1>3, <1>6, ExpressionsOrdinary, ControlOrdinary, FunctionsOrdinary, CallsOrdinary
<1>7. CASE UNCHANGED vars
  <2>1. /\ UNCHANGED <<text, current, at, blessed, pc, stack, diagnostics, nodes>>
    BY <1>7 DEF vars, sourceVars, parserVars
  <2> QED BY <1>1, <2>1 DEF ErrorInv, CurrentIsLexed, StatementsAhead, RecoveryInv,
                        DiagnosticsInv, BogusInv, UnreadInv, Top, LastError, HasSeparator,
                        Bogus, NodesOf
<1> QED BY <1>4, <1>5, <1>6, <1>7 DEF ParserNext, Finished

THEOREM ErrorInvariant == ParserSpec => []ErrorInv
<1> QED BY ErrorInitInv, ErrorNextInv, PTL DEF ParserSpec

\* For every text, every error that the parser reports lies in, or right behind,
\* a bogus node, every bogus node has one, and no node that looks sound holds a
\* token that the lexer could not read.
THEOREM ErrorsEndInBogusNodes == ParserSpec => []ErrorsAreContained
<1>1. ErrorInv => ErrorsAreContained
  <2> SUFFICES ASSUME ErrorInv, Done PROVE ErrorsAreContained
    BY DEF ErrorsAreContained
  <2>1. pc = "Done"
    BY DEF Done
  <2>2. ASSUME NEW d \in DOMAIN diagnostics
        PROVE  \E n \in Bogus : diagnostics[d] \in DiagnosticsOf(n)
    BY <2>1 DEF ErrorInv, DiagnosticsInv, Covers, DiagnosticsOf
  <2>3. ASSUME NEW n \in Bogus PROVE DiagnosticsOf(n) # {}
    BY DEF ErrorInv, BogusInv, Covers, DiagnosticsOf
  <2>4. ASSUME NEW i \in Tokens, text[i].kind = "R_BOGUS"
        PROVE  \E n \in Bogus : n.first <= i /\ i <= n.last
    BY <2>1, <2>4 DEF ErrorInv, UnreadInv, Tokens
  <2> QED BY <2>2, <2>3, <2>4 DEF ErrorsAreContained
<1> QED BY <1>1, ErrorInvariant, PTL

\* For every text, recovery gives up no more than the statement in error: no
\* bogus node reaches past a separator that follows its last error.
THEOREM RecoveryStopsAtSeparators == ParserSpec => []RecoveryIsLocal
<1>1. ErrorInv => RecoveryIsLocal
  <2> SUFFICES ASSUME ErrorInv, NEW n \in Bogus, NEW i \in n.first + 1 .. n.last,
                      HasSeparator(i)
               PROVE  \E d \in DiagnosticsOf(n) : i <= d
    BY DEF RecoveryIsLocal
  <2>1. PICK k \in DOMAIN diagnostics : Covers(n, diagnostics[k]) /\ i <= diagnostics[k]
    BY DEF ErrorInv, BogusInv
  <2>2. diagnostics[k] \in DiagnosticsOf(n)
    BY <2>1 DEF Covers, DiagnosticsOf
  <2> QED BY <2>1, <2>2
<1> QED BY <1>1, ErrorInvariant, PTL

-----------------------------------------------------------------------------
(* The brackets open after a text *)

CloseDelimiters == {"R_CURLY", "R_PAREN", "R_BRACK"}

\* What a token opens.
Opened(kind) ==
  CASE kind = "L_CURLY"  -> <<"R_CURLY">>
    [] kind = "L_PAREN"  -> <<"R_PAREN">>
    [] kind = "L_BRACK"  -> <<"R_BRACK">>
    [] kind = "L_BRACK2" -> <<"R_BRACK", "R_BRACK">>
    [] OTHER             -> <<>>

\* The brackets open after one more token.
Read(kind, open) ==
  IF kind \in CloseDelimiters THEN SubSeq(open, 1, Len(open) - 1) ELSE open \o Opened(kind)

Reads(f, t) ==
  /\ f[0] = <<>>
  /\ \A i \in Nat : f[i] \in Seq(Closers) /\ f[i + 1] = Read(t[i + 1].kind, f[i])

OpenBracketsRead == Reads(OpenBrackets, text)

LEMMA OpenedTyped ==
  \A kind : Opened(kind) \in Seq(Closers)
<1>1. /\ <<"R_CURLY">> \in Seq(Closers) /\ <<"R_PAREN">> \in Seq(Closers)
      /\ <<"R_BRACK">> \in Seq(Closers) /\ <<"R_BRACK", "R_BRACK">> \in Seq(Closers)
      /\ <<>> \in Seq(Closers)
  BY DEF Closers
<1> QED BY <1>1 DEF Opened

LEMMA ReadTyped ==
  ASSUME NEW open \in Seq(Closers), NEW kind
  PROVE  Read(kind, open) \in Seq(Closers)
<1>1. open \o Opened(kind) \in Seq(Closers)
  BY OpenedTyped
<1>2. SubSeq(open, 1, Len(open) - 1) \in Seq(Closers)
  <2>1. CASE Len(open) > 0
    BY <2>1, PoppedProperties DEF Popped
  <2>2. CASE Len(open) = 0
    <3>1. open = <<>>
      BY <2>2
    <3> QED BY <3>1
  <2> QED BY <2>1, <2>2
<1> QED BY <1>1, <1>2 DEF Read

\* A function of the numbers is defined by recursion: for each n there is one up
\* to n, all of these agree, and together they are the function.
LEMMA RecursionExists ==
  ASSUME NEW t
  PROVE  \E f : f = [i \in Nat |-> IF i = 0 THEN <<>> ELSE Read(t[i].kind, f[i - 1])]
<1> DEFINE UpTo(h, n) == h = [i \in 0 .. n |-> IF i = 0 THEN <<>> ELSE Read(t[i].kind, h[i - 1])]
           P == {n \in Nat : \E h : UpTo(h, n)}
           Q(h, n, g, m) == {i \in Nat : i <= n /\ i <= m => h[i] = g[i]}
<1>1. ASSUME NEW n \in Nat, NEW h, UpTo(h, n)
      PROVE  /\ h[0] = <<>>
             /\ \A i \in 1 .. n : h[i] = Read(t[i].kind, h[i - 1])
  <2>1. 0 \in 0 .. n /\ \A i \in 1 .. n : i \in 0 .. n /\ i # 0
    OBVIOUS
  <2>2. \A i \in 0 .. n : h[i] = IF i = 0 THEN <<>> ELSE Read(t[i].kind, h[i - 1])
    BY <1>1, Zenon
  <2> QED BY <2>1, <2>2, Zenon
<1> HIDE DEF UpTo
<1>2. ASSUME NEW n \in Nat, NEW h, UpTo(h, n), NEW m \in Nat, NEW g, UpTo(g, m)
      PROVE  \A i \in Nat : i <= n /\ i <= m => h[i] = g[i]
  <2>1. 0 \in Q(h, n, g, m)
    BY <1>1, <1>2
  <2>2. ASSUME NEW i \in Nat, i \in Q(h, n, g, m) PROVE i + 1 \in Q(h, n, g, m)
    <3>1. SUFFICES ASSUME i + 1 <= n, i + 1 <= m PROVE h[i + 1] = g[i + 1]
      OBVIOUS
    <3>2. h[i] = g[i] /\ i + 1 \in 1 .. n /\ i + 1 \in 1 .. m /\ i + 1 - 1 = i
      BY <2>2, <3>1
    <3> QED BY <1>1, <1>2, <3>2
  <2> HIDE DEF Q
  <2>3. Nat \subseteq Q(h, n, g, m)
    BY <2>1, <2>2, NatInductionSet
  <2> QED BY <2>3 DEF Q
<1>3. 0 \in P
  <2>1. UpTo([i \in 0 .. 0 |-> <<>>], 0)
    BY DEF UpTo
  <2> QED BY <2>1
<1>4. ASSUME NEW n \in Nat, n \in P PROVE n + 1 \in P
  <2>1. PICK h : UpTo(h, n)
    BY <1>4
  <2> DEFINE g == [i \in 0 .. n + 1 |-> IF i <= n THEN h[i] ELSE Read(t[i].kind, h[i - 1])]
  <2>2. \A i \in 0 .. n : g[i] = h[i]
    OBVIOUS
  <2>3. ASSUME NEW i \in 0 .. n + 1
        PROVE  g[i] = IF i = 0 THEN <<>> ELSE Read(t[i].kind, g[i - 1])
    <3>1. CASE i = 0
      BY <1>1, <2>1, <2>2, <3>1
    <3>2. CASE i \in 1 .. n
      <4>1. i - 1 \in 0 .. n /\ i \in 0 .. n
        BY <3>2
      <4> HIDE DEF g
      <4> QED BY <1>1, <2>1, <2>2, <3>2, <4>1
    <3>3. CASE i = n + 1
      <4>1. g[i] = Read(t[i].kind, h[i - 1]) /\ i - 1 \in 0 .. n /\ i # 0
        BY <3>3
      <4> HIDE DEF g
      <4> QED BY <2>2, <4>1
    <3> QED BY <3>1, <3>2, <3>3
  <2>4. g = [i \in 0 .. n + 1 |-> g[i]]
    OBVIOUS
  <2>5. UpTo(g, n + 1)
    <3> HIDE DEF g
    <3>1. [i \in 0 .. n + 1 |-> g[i]]
            = [i \in 0 .. n + 1 |-> IF i = 0 THEN <<>> ELSE Read(t[i].kind, g[i - 1])]
      BY <2>3
    <3> QED BY <2>4, <3>1 DEF UpTo
  <2> QED BY <2>5
<1>5. \A n \in Nat : \E h : UpTo(h, n)
  <2> HIDE DEF P
  <2>1. Nat \subseteq P
    BY <1>3, <1>4, NatInductionSet
  <2> QED BY <2>1 DEF P
<1> DEFINE pick == [n \in Nat |-> CHOOSE h : UpTo(h, n)]
           f == [n \in Nat |-> pick[n][n]]
<1>6. \A n \in Nat : UpTo(pick[n], n)
  BY <1>5
<1> HIDE DEF pick
<1>7. ASSUME NEW i \in Nat PROVE f[i] = IF i = 0 THEN <<>> ELSE Read(t[i].kind, f[i - 1])
  <2>1. CASE i = 0
    BY <1>1, <1>6, <2>1
  <2>2. CASE i # 0
    <3>1. i - 1 \in Nat /\ i - 1 <= i - 1 /\ i - 1 <= i /\ i \in 1 .. i
      BY <2>2
    <3>2. pick[i][i] = Read(t[i].kind, pick[i][i - 1])
      BY <1>1, <1>6, <3>1
    <3>3. pick[i][i - 1] = pick[i - 1][i - 1]
      BY <1>2, <1>6, <3>1
    <3>4. f[i] = pick[i][i] /\ f[i - 1] = pick[i - 1][i - 1]
      BY <3>1
    <3> QED BY <2>2, <3>2, <3>3, <3>4
  <2> QED BY <2>1, <2>2
<1>8. f = [i \in Nat |-> f[i]]
  OBVIOUS
<1> HIDE DEF f
<1>9. f = [i \in Nat |-> IF i = 0 THEN <<>> ELSE Read(t[i].kind, f[i - 1])]
  BY <1>7, <1>8
<1> QED BY <1>9

\* One step of the definition of OpenBrackets.
StepOf(i, open) ==
  CASE text[i].kind = "L_CURLY"  -> Append(open, "R_CURLY")
    [] text[i].kind = "L_PAREN"  -> Append(open, "R_PAREN")
    [] text[i].kind = "L_BRACK"  -> Append(open, "R_BRACK")
    [] text[i].kind = "L_BRACK2" -> open \o <<"R_BRACK", "R_BRACK">>
    [] text[i].kind \in {"R_CURLY", "R_PAREN", "R_BRACK"} -> SubSeq(open, 1, Len(open) - 1)
    [] OTHER                     -> open

LEMMA StepReads ==
  ASSUME NEW i, NEW open \in Seq(Closers)
  PROVE  StepOf(i, open) = Read(text[i].kind, open)
<1> DEFINE kind == text[i].kind
<1>1. /\ Append(open, "R_CURLY") = open \o <<"R_CURLY">>
      /\ Append(open, "R_PAREN") = open \o <<"R_PAREN">>
      /\ Append(open, "R_BRACK") = open \o <<"R_BRACK">>
      /\ open = open \o <<>>
  OBVIOUS
<1>2. StepOf(i, open) =
        CASE kind = "L_CURLY"  -> Append(open, "R_CURLY")
          [] kind = "L_PAREN"  -> Append(open, "R_PAREN")
          [] kind = "L_BRACK"  -> Append(open, "R_BRACK")
          [] kind = "L_BRACK2" -> open \o <<"R_BRACK", "R_BRACK">>
          [] kind \in {"R_CURLY", "R_PAREN", "R_BRACK"} -> SubSeq(open, 1, Len(open) - 1)
          [] OTHER             -> open
  BY DEF StepOf
<1> HIDE DEF kind
<1>3. CASE kind \in CloseDelimiters
  <2>1. StepOf(i, open) = SubSeq(open, 1, Len(open) - 1)
    BY <1>2, <1>3 DEF CloseDelimiters
  <2> QED BY <1>3, <2>1 DEF Read, kind
<1>4. CASE kind \in {"L_CURLY", "L_PAREN", "L_BRACK", "L_BRACK2"}
  <2>1. Read(kind, open) = open \o Opened(kind)
    BY <1>4 DEF Read, CloseDelimiters
  <2>2. CASE kind = "L_CURLY"
    BY <1>1, <1>2, <2>1, <2>2 DEF Opened, kind
  <2>3. CASE kind = "L_PAREN"
    BY <1>1, <1>2, <2>1, <2>3 DEF Opened, kind
  <2>4. CASE kind = "L_BRACK"
    BY <1>1, <1>2, <2>1, <2>4 DEF Opened, kind
  <2>5. CASE kind = "L_BRACK2"
    BY <1>1, <1>2, <2>1, <2>5 DEF Opened, kind
  <2> QED BY <1>4, <2>2, <2>3, <2>4, <2>5
<1>5. CASE kind \notin CloseDelimiters \cup {"L_CURLY", "L_PAREN", "L_BRACK", "L_BRACK2"}
  <2>1. StepOf(i, open) = open
    BY <1>2, <1>5 DEF CloseDelimiters
  <2>2. Read(kind, open) = open \o Opened(kind) /\ Opened(kind) = <<>>
    BY <1>5 DEF Read, Opened, CloseDelimiters
  <2> QED BY <1>1, <2>1, <2>2 DEF kind
<1> QED BY <1>3, <1>4, <1>5

LEMMA OpenBracketsAre == OpenBracketsRead
<1> DEFINE Defines(f) == f = [i \in Nat |-> IF i = 0 THEN <<>> ELSE StepOf(i, f[i - 1])]
<1>1. \E f : Defines(f)
  <2>1. PICK f : f = [i \in Nat |-> IF i = 0 THEN <<>> ELSE Read(text[i].kind, f[i - 1])]
    BY RecursionExists
  <2>2. \A i \in Nat : f[i] = IF i = 0 THEN <<>> ELSE Read(text[i].kind, f[i - 1])
    BY <2>1, Zenon
  <2> DEFINE P == {i \in Nat : f[i] \in Seq(Closers)}
  <2>3. 0 \in P
    <3>1. f[0] = <<>> /\ <<>> \in Seq(Closers)
      BY <2>2
    <3> QED BY <3>1
  <2>4. ASSUME NEW n \in Nat, n \in P PROVE n + 1 \in P
    <3>1. f[n + 1] = Read(text[n + 1].kind, f[n]) /\ f[n] \in Seq(Closers)
      BY <2>2, <2>4
    <3> QED BY <3>1, ReadTyped
  <2>5. \A i \in Nat : f[i] \in Seq(Closers)
    <3> HIDE DEF P
    <3>1. Nat \subseteq P
      BY <2>3, <2>4, NatInductionSet
    <3> QED BY <3>1 DEF P
  <2>6. ASSUME NEW i \in Nat
        PROVE  (IF i = 0 THEN <<>> ELSE Read(text[i].kind, f[i - 1]))
                 = IF i = 0 THEN <<>> ELSE StepOf(i, f[i - 1])
    <3>1. CASE i = 0
      BY <3>1
    <3>2. CASE i # 0
      <4>1. f[i - 1] \in Seq(Closers)
        BY <2>5, <3>2
      <4> QED BY <3>2, <4>1, StepReads
    <3> QED BY <3>1, <3>2
  <2>7. [i \in Nat |-> IF i = 0 THEN <<>> ELSE Read(text[i].kind, f[i - 1])]
          = [i \in Nat |-> IF i = 0 THEN <<>> ELSE StepOf(i, f[i - 1])]
    BY <2>6
  <2>8. Defines(f)
    BY <2>1, <2>7, Zenon
  <2> QED BY <2>8
<1>2. OpenBrackets = CHOOSE f : Defines(f)
  BY DEF OpenBrackets, StepOf
<1>3. Defines(OpenBrackets)
  BY <1>1, <1>2, Zenon
<1>4. \A i \in Nat : OpenBrackets[i] = IF i = 0 THEN <<>> ELSE StepOf(i, OpenBrackets[i - 1])
  BY <1>3, Zenon
<1> DEFINE P == {i \in Nat : OpenBrackets[i] \in Seq(Closers)}
<1>5. OpenBrackets[0] = <<>>
  BY <1>4
<1>6. 0 \in P
  <2>1. <<>> \in Seq(Closers)
    OBVIOUS
  <2> QED BY <1>5, <2>1
<1>7. ASSUME NEW n \in Nat, OpenBrackets[n] \in Seq(Closers)
      PROVE  OpenBrackets[n + 1] = Read(text[n + 1].kind, OpenBrackets[n])
  <2>1. OpenBrackets[n + 1] = StepOf(n + 1, OpenBrackets[n])
    <3>1. PICK j \in Nat : j = n + 1
      OBVIOUS
    <3>2. j # 0 /\ j - 1 = n
      BY <3>1
    <3>3. OpenBrackets[j] = IF j = 0 THEN <<>> ELSE StepOf(j, OpenBrackets[j - 1])
      BY <1>4, <3>1, Zenon
    <3>4. OpenBrackets[j] = StepOf(j, OpenBrackets[n])
      BY <3>2, <3>3, Zenon
    <3> QED BY <3>1, <3>4, Zenon
  <2> QED BY <1>7, <2>1, StepReads
<1>8. ASSUME NEW n \in Nat, n \in P PROVE n + 1 \in P
  <2>1. OpenBrackets[n] \in Seq(Closers)
    BY <1>8
  <2>2. OpenBrackets[n + 1] \in Seq(Closers)
    BY <1>7, <2>1, ReadTyped
  <2> QED BY <2>2
<1>9. \A i \in Nat : OpenBrackets[i] \in Seq(Closers)
  <2> HIDE DEF P
  <2>1. Nat \subseteq P
    BY <1>6, <1>8, NatInductionSet
  <2> QED BY <2>1 DEF P
<1> QED BY <1>5, <1>7, <1>9 DEF OpenBracketsRead, Reads

\* What is open after n tokens is a matter of these alone.
LEMMA SameTokens ==
  ASSUME NEW f, NEW t, Reads(f, t), NEW g, NEW u, Reads(g, u), NEW n \in Nat,
         \A i \in 1 .. n : t[i].kind = u[i].kind
  PROVE  \A i \in 0 .. n : f[i] = g[i]
<1> DEFINE P == {i \in Nat : i <= n => f[i] = g[i]}
<1>1. 0 \in P
  BY DEF Reads
<1>2. ASSUME NEW i \in Nat, i \in P PROVE i + 1 \in P
  <2>1. SUFFICES ASSUME i + 1 <= n PROVE f[i + 1] = g[i + 1]
    OBVIOUS
  <2>2. f[i] = g[i] /\ i + 1 \in 1 .. n
    BY <1>2, <2>1
  <2> QED BY <2>2 DEF Reads
<1> HIDE DEF P
<1>3. Nat \subseteq P
  BY <1>1, <1>2, NatInductionSet
<1> QED BY <1>3 DEF P

-----------------------------------------------------------------------------
(* The brackets that the functions on the stack are to close *)

\* What a function that waits is to close when it goes on.
Owed(f) ==
  CASE f.fn = "Braces" -> <<"R_CURLY">>
    [] f.fn \in {"Parenthesized", "Condition", "ForHeader", "Parameters"} -> <<"R_PAREN">>
    [] f.fn = "Arguments" /\ f.close = "R_BRACK2" -> <<"R_BRACK", "R_BRACK">>
    [] f.fn = "Arguments" /\ f.close # "R_BRACK2" -> <<f.close>>
    [] OTHER -> <<>>

Sums(sum, s) ==
  /\ sum[0] = <<>>
  /\ \A i \in 1 .. Len(s) : sum[i - 1] \in Seq(Closers) /\ sum[i] = sum[i - 1] \o Owed(s[i])

\* The functions of a stack are together to close the brackets `open'.
Owes(s, open) == open \in Seq(Closers) /\ \E sum : Sums(sum, s) /\ sum[Len(s)] = open

LEMMA OwedTyped ==
  ASSUME NEW f \in Frame
  PROVE  /\ Owed(f) \in Seq(Closers)
         /\ Owed(f) = <<>> <=> f.fn \notin Bracketing
<1>1. /\ <<"R_CURLY">> \in Seq(Closers) /\ <<"R_PAREN">> \in Seq(Closers)
      /\ <<"R_BRACK", "R_BRACK">> \in Seq(Closers) /\ <<>> \in Seq(Closers)
  BY DEF Closers
<1>2. <<f.close>> \in Seq(Closers)
  <2>1. f.close \in Closers
    BY DEF Frame
  <2> QED BY <2>1
<1>3. /\ <<"R_CURLY">> # <<>> /\ <<"R_PAREN">> # <<>> /\ <<"R_BRACK", "R_BRACK">> # <<>>
      /\ <<f.close>> # <<>>
  OBVIOUS
<1>4. CASE f.fn = "Braces"
  <2>1. Owed(f) = <<"R_CURLY">>
    BY <1>4 DEF Owed
  <2> QED BY <1>1, <1>3, <1>4, <2>1 DEF Bracketing
<1>5. CASE f.fn \in {"Parenthesized", "Condition", "ForHeader", "Parameters"}
  <2>1. Owed(f) = <<"R_PAREN">>
    BY <1>5 DEF Owed
  <2> QED BY <1>1, <1>3, <1>5, <2>1 DEF Bracketing
<1>6. CASE f.fn = "Arguments"
  <2>1. Owed(f) \in {<<"R_BRACK", "R_BRACK">>, <<f.close>>}
    BY <1>6 DEF Owed
  <2> QED BY <1>1, <1>2, <1>3, <1>6, <2>1 DEF Bracketing
<1>7. CASE f.fn \notin Bracketing
  <2>1. Owed(f) = <<>>
    BY <1>7 DEF Owed, Bracketing
  <2> QED BY <1>1, <1>7, <2>1
<1> QED BY <1>4, <1>5, <1>6, <1>7 DEF Bracketing

LEMMA OwesPush ==
  ASSUME NEW s \in Seq(Frame), NEW open, Owes(s, open), NEW f \in Frame
  PROVE  Owes(Append(s, f), open \o Owed(f))
<1>1. PICK sum : Sums(sum, s) /\ sum[Len(s)] = open
  BY DEF Owes
<1> DEFINE n == Len(s)
           t == Append(s, f)
           more == [i \in 0 .. n + 1 |-> IF i = n + 1 THEN open \o Owed(f) ELSE sum[i]]
<1>2. n \in Nat /\ Len(t) = n + 1 /\ t[n + 1] = f /\ \A i \in 1 .. n : t[i] = s[i]
  OBVIOUS
<1>3. open \in Seq(Closers) /\ Owed(f) \in Seq(Closers)
  BY OwedTyped DEF Owes
<1>4. open \o Owed(f) \in Seq(Closers)
  BY <1>3
<1>5. \A i \in 0 .. n : more[i] = sum[i]
  BY <1>2
<1>6. more[n + 1] = open \o Owed(f)
  BY <1>2
<1> HIDE DEF t, more
<1>7. ASSUME NEW i \in 1 .. n + 1
      PROVE  more[i - 1] \in Seq(Closers) /\ more[i] = more[i - 1] \o Owed(t[i])
  <2>1. CASE i = n + 1
    <3>1. more[i - 1] = open
      BY <1>1, <1>2, <1>5, <2>1
    <3> QED BY <1>2, <1>3, <1>6, <2>1, <3>1
  <2>2. CASE i # n + 1
    <3>1. i \in 1 .. n /\ i - 1 \in 0 .. n /\ i \in 0 .. n
      BY <1>2, <2>2
    <3>2. sum[i - 1] \in Seq(Closers) /\ sum[i] = sum[i - 1] \o Owed(s[i])
      BY <1>1, <3>1 DEF Sums
    <3> QED BY <1>2, <1>5, <3>1, <3>2
  <2> QED BY <2>1, <2>2
<1>8. more[0] = <<>>
  <2>1. 0 \in 0 .. n
    BY <1>2
  <2> QED BY <1>1, <1>5, <2>1 DEF Sums
<1>9. Sums(more, t)
  BY <1>2, <1>7, <1>8 DEF Sums
<1> HIDE DEF n
<1>10. Owes(t, open \o Owed(f))
  BY <1>2, <1>4, <1>6, <1>9 DEF Owes
<1> QED BY <1>10 DEF t

LEMMA OwesPop ==
  ASSUME NEW s \in Seq(Frame), Len(s) > 0, NEW open, Owes(s, open)
  PROVE  \E rest \in Seq(Closers) : Owes(Popped(s), rest) /\ open = rest \o Owed(s[Len(s)])
<1>1. PICK sum : Sums(sum, s) /\ sum[Len(s)] = open
  BY DEF Owes
<1> DEFINE n == Len(s)  t == Popped(s)
<1>2. n \in Nat /\ n - 1 \in Nat /\ n \in 1 .. n /\ Len(t) = n - 1 /\ \A i \in 1 .. n - 1 : t[i] = s[i]
  BY PoppedProperties
<1> HIDE DEF t
<1>3. \A i \in 1 .. n - 1 : sum[i - 1] \in Seq(Closers) /\ sum[i] = sum[i - 1] \o Owed(t[i])
  <2> SUFFICES ASSUME NEW i \in 1 .. n - 1
               PROVE  sum[i - 1] \in Seq(Closers) /\ sum[i] = sum[i - 1] \o Owed(t[i])
    OBVIOUS
  <2>1. i \in 1 .. n
    BY <1>2
  <2> QED BY <1>1, <1>2, <2>1 DEF Sums
<1>4. Sums(sum, t)
  BY <1>1, <1>2, <1>3 DEF Sums
<1>5. sum[n - 1] \in Seq(Closers) /\ open = sum[n - 1] \o Owed(s[n])
  BY <1>1, <1>2 DEF Sums
<1>6. Owes(t, sum[n - 1])
  BY <1>2, <1>4, <1>5 DEF Owes
<1> QED BY <1>5, <1>6 DEF t

\* Nothing is to be closed just if no function that opened a bracket waits.
LEMMA OwesNothing ==
  ASSUME NEW s \in Seq(Frame), NEW open, Owes(s, open)
  PROVE  open = <<>> <=> OpenIn(s, Len(s)) = {}
<1>1. PICK sum : Sums(sum, s) /\ sum[Len(s)] = open
  BY DEF Owes
<1> DEFINE n == Len(s)
           P == {i \in Nat : i <= n => (sum[i] = <<>> <=> OpenIn(s, i) = {})}
<1>2. n \in Nat
  OBVIOUS
<1>3. 0 \in P
  <2>1. sum[0] = <<>> /\ OpenIn(s, 0) = {}
    BY <1>1 DEF Sums, OpenIn
  <2> QED BY <2>1
<1>4. ASSUME NEW i \in Nat, i \in P PROVE i + 1 \in P
  <2>1. SUFFICES ASSUME i + 1 <= n PROVE sum[i + 1] = <<>> <=> OpenIn(s, i + 1) = {}
    OBVIOUS
  <2>2. i + 1 \in 1 .. n /\ i + 1 - 1 = i
    BY <1>2, <2>1
  <2>3. sum[i] \in Seq(Closers) /\ sum[i + 1] = sum[i] \o Owed(s[i + 1])
    <3>1. \A k \in 1 .. n : sum[k - 1] \in Seq(Closers) /\ sum[k] = sum[k - 1] \o Owed(s[k])
      BY <1>1 DEF Sums
    <3> DEFINE j == i + 1
    <3>2. j \in 1 .. n /\ j - 1 = i
      BY <2>2
    <3> HIDE DEF n, j
    <3>3. sum[j - 1] \in Seq(Closers) /\ sum[j] = sum[j - 1] \o Owed(s[j])
      BY <3>1, <3>2
    <3> QED BY <3>2, <3>3, Zenon DEF j
  <2>4. s[i + 1] \in Frame
    BY <2>2
  <2>5. Owed(s[i + 1]) \in Seq(Closers) /\ (Owed(s[i + 1]) = <<>> <=> s[i + 1].fn \notin Bracketing)
    BY <2>4, OwedTyped
  <2>6. sum[i + 1] = <<>> <=> sum[i] = <<>> /\ Owed(s[i + 1]) = <<>>
    BY <2>3, <2>5
  <2>7. OpenIn(s, i + 1) = {} <=> OpenIn(s, i) = {} /\ s[i + 1].fn \notin Bracketing
    <3>1. 1 .. i + 1 = (1 .. i) \cup {i + 1}
      OBVIOUS
    <3> QED BY <3>1 DEF OpenIn
  <2>8. sum[i] = <<>> <=> OpenIn(s, i) = {}
    BY <1>4, <2>1
  <2> QED BY <2>5, <2>6, <2>7, <2>8
<1>5. n \in P
  <2> HIDE DEF P
  <2>1. Nat \subseteq P
    BY <1>3, <1>4, NatInductionSet
  <2> QED BY <1>2, <2>1
<1> QED BY <1>1, <1>2, <1>5

-----------------------------------------------------------------------------
(* How a step changes the stack *)

\* The stack t has no `if' and no `else' that is not in the stack, at the same
\* place and above the same function.
Inherits(t) ==
  /\ t \in Seq(Frame)
  /\ \A i \in 1 .. Len(t) :
       t[i].fn \in {"If", "Else"} =>
         /\ i <= Len(stack) /\ t[i] = stack[i]
         /\ i > 1 => t[i - 1] = stack[i - 1]

\* The functions of t are to close what those of the stack are, but for the
\* brackets `closed', which were the innermost, and with `opened' besides.
Pays(t, closed, opened) ==
  \A open : Owes(stack, open) =>
    \E rest \in Seq(Closers) : open = rest \o closed /\ Owes(t, rest \o opened)

\* Functions other than `if' and `else' that open no bracket.
CalmFrames == {f \in Frame : f.fn \notin Bracketing \cup {"If", "Else"}}

LEMMA CalmFramesAre ==
  /\ \A fn \in Functions \ (Bracketing \cup {"If", "Else"}), from \in Nat :
       Call(fn, from) \in CalmFrames
  /\ \A fn \in Functions \ (Bracketing \cup {"If", "Else"}), from \in Nat, close \in Closers :
       List(fn, from, close) \in CalmFrames
  /\ \A bp \in 0 .. MaxPower : Expression(bp) \in CalmFrames
  /\ \A f \in CalmFrames : f \in Frame /\ f.fn \notin {"If", "Else"} /\ Owed(f) = <<>>
<1>1. "Expression" \notin Bracketing \cup {"If", "Else"}
  BY DEF Bracketing
<1>2. \A f \in CalmFrames : f \in Frame /\ f.fn \notin {"If", "Else"} /\ Owed(f) = <<>>
  BY OwedTyped DEF CalmFrames
<1> QED BY <1>1, <1>2, FrameTypes DEF CalmFrames

LEMMA InheritsStack ==
  ASSUME stack \in Seq(Frame)
  PROVE  Inherits(stack) /\ Pays(stack, <<>>, <<>>)
<1>1. ASSUME NEW open, Owes(stack, open)
      PROVE  \E rest \in Seq(Closers) : open = rest \o <<>> /\ Owes(stack, rest \o <<>>)
  <2>1. open \in Seq(Closers)
    BY <1>1 DEF Owes
  <2>2. open = open \o <<>>
    BY <2>1
  <2> QED BY <1>1, <2>1, <2>2
<1> QED BY <1>1 DEF Inherits, Pays

LEMMA InheritsPush ==
  ASSUME NEW t, Inherits(t), NEW f \in Frame, f.fn \notin {"If", "Else"}
  PROVE  Inherits(Append(t, f))
<1>1. t \in Seq(Frame) /\ Len(t) \in Nat
  BY DEF Inherits
<1> DEFINE u == Append(t, f)
<1>2. /\ u \in Seq(Frame) /\ Len(u) = Len(t) + 1 /\ u[Len(t) + 1] = f
      /\ \A i \in 1 .. Len(t) : u[i] = t[i]
  BY <1>1, AppendProperties
<1> HIDE DEF u
<1>3. ASSUME NEW i \in 1 .. Len(u), u[i].fn \in {"If", "Else"}
      PROVE  /\ i <= Len(stack) /\ u[i] = stack[i]
             /\ i > 1 => u[i - 1] = stack[i - 1]
  <2>1. i \in 1 .. Len(t)
    BY <1>1, <1>2, <1>3
  <2>2. u[i] = t[i] /\ (i > 1 => u[i - 1] = t[i - 1])
    BY <1>1, <1>2, <2>1
  <2> QED BY <1>3, <2>1, <2>2 DEF Inherits
<1>4. Inherits(u)
  BY <1>2, <1>3 DEF Inherits
<1> QED BY <1>4 DEF u

LEMMA InheritsPop ==
  ASSUME NEW t, Inherits(t), Len(t) > 0
  PROVE  Inherits(Popped(t)) /\ Len(Popped(t)) = Len(t) - 1
<1>1. t \in Seq(Frame) /\ Len(t) \in Nat
  BY DEF Inherits
<1> DEFINE u == Popped(t)
<1>2. /\ u \in Seq(Frame) /\ Len(u) = Len(t) - 1 /\ \A i \in 1 .. Len(t) - 1 : u[i] = t[i]
  BY <1>1, PoppedProperties
<1> HIDE DEF u
<1>3. ASSUME NEW i \in 1 .. Len(u), u[i].fn \in {"If", "Else"}
      PROVE  /\ i <= Len(stack) /\ u[i] = stack[i]
             /\ i > 1 => u[i - 1] = stack[i - 1]
  <2>1. i \in 1 .. Len(t)
    BY <1>1, <1>2
  <2>2. u[i] = t[i] /\ (i > 1 => u[i - 1] = t[i - 1])
    BY <1>1, <1>2, <2>1
  <2> QED BY <1>3, <2>1, <2>2 DEF Inherits
<1>4. Inherits(u) /\ Len(u) = Len(t) - 1
  BY <1>2, <1>3 DEF Inherits
<1> QED BY <1>4 DEF u

LEMMA PaysPush ==
  ASSUME NEW t \in Seq(Frame), NEW f \in Frame, NEW closed, Pays(t, closed, <<>>)
  PROVE  Pays(Append(t, f), closed, Owed(f))
<1> SUFFICES ASSUME NEW open, Owes(stack, open)
             PROVE  \E rest \in Seq(Closers) :
                      open = rest \o closed /\ Owes(Append(t, f), rest \o Owed(f))
  BY DEF Pays
<1>1. PICK rest \in Seq(Closers) : open = rest \o closed /\ Owes(t, rest \o <<>>)
  BY DEF Pays
<1>2. rest \o <<>> = rest
  OBVIOUS
<1>3. Owes(Append(t, f), rest \o Owed(f))
  BY <1>1, <1>2, OwesPush
<1> QED BY <1>1, <1>3

LEMMA PaysPushCalm ==
  ASSUME NEW t \in Seq(Frame), NEW f \in CalmFrames, NEW closed,
         NEW opened \in Seq(Closers), Pays(t, closed, opened)
  PROVE  Pays(Append(t, f), closed, opened)
<1> SUFFICES ASSUME NEW open, Owes(stack, open)
             PROVE  \E rest \in Seq(Closers) :
                      open = rest \o closed /\ Owes(Append(t, f), rest \o opened)
  BY DEF Pays
<1>1. PICK rest \in Seq(Closers) : open = rest \o closed /\ Owes(t, rest \o opened)
  BY DEF Pays
<1>2. f \in Frame /\ Owed(f) = <<>>
  BY CalmFramesAre
<1>3. (rest \o opened) \o <<>> = rest \o opened
  OBVIOUS
<1>4. Owes(Append(t, f), rest \o opened)
  BY <1>1, <1>2, <1>3, OwesPush
<1> QED BY <1>1, <1>4

LEMMA PaysPop ==
  ASSUME NEW t \in Seq(Frame), Len(t) > 0, Pays(t, <<>>, <<>>)
  PROVE  Pays(Popped(t), Owed(t[Len(t)]), <<>>)
<1> SUFFICES ASSUME NEW open, Owes(stack, open)
             PROVE  \E rest \in Seq(Closers) :
                      open = rest \o Owed(t[Len(t)]) /\ Owes(Popped(t), rest \o <<>>)
  BY DEF Pays
<1>1. PICK whole \in Seq(Closers) : open = whole \o <<>> /\ Owes(t, whole \o <<>>)
  BY DEF Pays
<1>2. Owes(t, open)
  BY <1>1
<1>3. PICK rest \in Seq(Closers) : Owes(Popped(t), rest) /\ open = rest \o Owed(t[Len(t)])
  BY <1>2, OwesPop
<1>4. rest \o <<>> = rest
  OBVIOUS
<1> QED BY <1>3, <1>4

\* A function that opened no bracket leaves.
LEMMA PaysPopCalm ==
  ASSUME NEW t \in Seq(Frame), Len(t) > 0, NEW closed, Pays(t, closed, <<>>),
         t[Len(t)].fn \notin Bracketing
  PROVE  Pays(Popped(t), closed, <<>>)
<1> SUFFICES ASSUME NEW open, Owes(stack, open)
             PROVE  \E rest \in Seq(Closers) :
                      open = rest \o closed /\ Owes(Popped(t), rest \o <<>>)
  BY DEF Pays
<1>1. PICK rest \in Seq(Closers) : open = rest \o closed /\ Owes(t, rest \o <<>>)
  BY DEF Pays
<1>2. rest \o <<>> = rest
  OBVIOUS
<1>3. PICK less \in Seq(Closers) : Owes(Popped(t), less) /\ rest = less \o Owed(t[Len(t)])
  BY <1>1, <1>2, OwesPop
<1>4. Owed(t[Len(t)]) = <<>>
  <2>1. t[Len(t)] \in Frame
    OBVIOUS
  <2> QED BY <2>1, OwedTyped
<1>5. less = rest
  BY <1>3, <1>4
<1> QED BY <1>1, <1>2, <1>3, <1>5

\* What is closed and opened again was kept.
LEMMA PaysBack ==
  ASSUME NEW t, NEW kept \in Seq(Closers), Pays(t, kept, kept)
  PROVE  Pays(t, <<>>, <<>>)
<1> SUFFICES ASSUME NEW open, Owes(stack, open)
             PROVE  \E rest \in Seq(Closers) : open = rest \o <<>> /\ Owes(t, rest \o <<>>)
  BY DEF Pays
<1>1. Owes(t, open) /\ open \in Seq(Closers)
  BY DEF Pays, Owes
<1>2. open \o <<>> = open
  BY <1>1
<1> QED BY <1>1, <1>2

-----------------------------------------------------------------------------
(* The stacks that the steps leave *)

Keeps(t) == Inherits(t) /\ Pays(t, <<>>, <<>>)

LEMMA KeepsPush ==
  ASSUME NEW t, Keeps(t), NEW f \in CalmFrames
  PROVE  Keeps(Append(t, f))
<1>1. t \in Seq(Frame) /\ <<>> \in Seq(Closers)
  BY DEF Keeps, Inherits
<1>2. f \in Frame /\ f.fn \notin {"If", "Else"}
  BY CalmFramesAre
<1> QED BY <1>1, <1>2, InheritsPush, PaysPushCalm DEF Keeps

LEMMA KeepsPushTwo ==
  ASSUME NEW t, Keeps(t), NEW f \in CalmFrames, NEW g \in CalmFrames
  PROVE  Keeps(t \o <<f, g>>)
<1>1. Keeps(Append(Append(t, f), g))
  BY KeepsPush
<1>2. t \in Seq(Frame)
  BY DEF Keeps, Inherits
<1>3. t \o <<f, g>> = Append(Append(t, f), g)
  BY <1>2
<1> QED BY <1>1, <1>3

LEMMA StackFacts ==
  ASSUME ParserInv
  PROVE  /\ Keeps(stack) /\ stack \in Seq(Frame) /\ Len(stack) \in Nat /\ Len(stack) > 0
         /\ Top = stack[Len(stack)] /\ Top \in Frame /\ Below = Popped(stack)
         /\ Inherits(Below) /\ Below \in Seq(Frame) /\ Len(Below) = Len(stack) - 1
         /\ Pays(Below, Owed(Top), <<>>)
<1>1. /\ stack \in Seq(Frame) /\ Len(stack) \in Nat /\ Len(stack) > 0 /\ Top \in Frame
      /\ Below = Popped(stack) /\ Top = stack[Len(stack)]
  BY InvFacts DEF Top
<1>2. Keeps(stack)
  BY <1>1, InheritsStack DEF Keeps
<1>3. Inherits(Below) /\ Len(Below) = Len(stack) - 1
  BY <1>1, <1>2, InheritsPop DEF Keeps
<1>4. Pays(Below, Owed(Top), <<>>)
  BY <1>1, <1>2, PaysPop DEF Keeps
<1> QED BY <1>1, <1>2, <1>3, <1>4 DEF Inherits

LEMMA KeepsBelow ==
  ASSUME ParserInv, Top.fn \notin Bracketing
  PROVE  Keeps(Below)
<1>1. Owed(Top) = <<>>
  BY StackFacts, OwedTyped
<1> QED BY <1>1, StackFacts DEF Keeps

\* A function goes on with other locals, or with another function for itself.
LEMMA KeepsWithTop ==
  ASSUME ParserInv, NEW f \in Frame, f.fn \notin {"If", "Else"}, Owed(f) = Owed(Top)
  PROVE  Keeps(WithTop(f))
<1>1. Pays(Append(Below, f), Owed(Top), Owed(f)) /\ Inherits(Append(Below, f))
  BY StackFacts, PaysPush, InheritsPush
<1>2. Owed(Top) \in Seq(Closers)
  BY StackFacts, OwedTyped
<1>3. Pays(Append(Below, f), <<>>, <<>>)
  BY <1>1, <1>2, PaysBack
<1> QED BY <1>1, <1>3 DEF Keeps, WithTop

BelowTwo == SubSeq(stack, 1, Len(stack) - 2)

LEMMA UnderFacts ==
  ASSUME ParserInv, Top.fn # "Root"
  PROVE  /\ Under \in Frame /\ Under.fn \in Callers[Top.fn]
         /\ Len(stack) > 1 /\ Under = Below[Len(Below)] /\ Len(Below) > 0
         /\ BelowTwo = Popped(Below) /\ Inherits(BelowTwo) /\ BelowTwo \in Seq(Frame)
<1>1. Len(stack) > 1 /\ Chain(stack)
  BY InvFacts, ChainPop, StackFacts
<1>2. /\ stack[Len(stack) - 1].fn \in Callers[stack[Len(stack)].fn]
      /\ Popped(stack)[Len(stack) - 1] = stack[Len(stack) - 1]
  BY <1>1, InvFacts, ChainPop, StackFacts
<1>3. BelowTwo = Popped(Below)
  BY <1>1, StackFacts, TwoPopped DEF BelowTwo
<1>4. Len(Below) = Len(stack) - 1 /\ Len(Below) > 0
  BY <1>1, StackFacts
<1>5. Under = Below[Len(Below)]
  BY <1>2, <1>4, StackFacts DEF Under
<1>6. Under \in Frame
  BY <1>4, <1>5, StackFacts
<1>7. Inherits(BelowTwo)
  BY <1>3, <1>4, StackFacts, InheritsPop
<1> QED BY <1>1, <1>2, <1>3, <1>4, <1>5, <1>6, <1>7, StackFacts DEF Under, Inherits

LEMMA KeepsBelowTwo ==
  ASSUME ParserInv, Top.fn \notin Bracketing \cup {"Root"}, Under.fn \notin Bracketing
  PROVE  Keeps(BelowTwo)
<1>1. Pays(Below, <<>>, <<>>)
  BY KeepsBelow DEF Keeps
<1>2. Pays(Popped(Below), <<>>, <<>>)
  BY <1>1, StackFacts, UnderFacts, PaysPopCalm
<1> QED BY <1>2, UnderFacts DEF Keeps

\* A bracket is opened ...
Opening(t, f) == Inherits(t) /\ Pays(t, <<>>, Owed(f))

LEMMA OpeningPush ==
  ASSUME NEW t, Keeps(t), NEW f \in Frame, f.fn \notin {"If", "Else"}
  PROVE  Opening(Append(t, f), f)
<1>1. t \in Seq(Frame)
  BY DEF Keeps, Inherits
<1> QED BY <1>1, PaysPush, InheritsPush DEF Keeps, Opening

LEMMA OpeningPushTwo ==
  ASSUME NEW t, Keeps(t), NEW f \in Frame, f.fn \notin {"If", "Else"}, NEW g \in CalmFrames
  PROVE  Opening(t \o <<f, g>>, f)
<1>1. t \in Seq(Frame) /\ Append(t, f) \in Seq(Frame)
  BY DEF Keeps, Inherits
<1>2. Opening(Append(t, f), f)
  BY OpeningPush
<1>3. Owed(f) \in Seq(Closers)
  BY OwedTyped
<1>4. g \in Frame /\ g.fn \notin {"If", "Else"}
  BY CalmFramesAre
<1>5. Opening(Append(Append(t, f), g), f)
  BY <1>1, <1>2, <1>3, <1>4, PaysPushCalm, InheritsPush DEF Opening
<1>6. t \o <<f, g>> = Append(Append(t, f), g)
  BY <1>1
<1> QED BY <1>5, <1>6

\* ... and closed.
Closing(t) == Inherits(t) /\ Pays(t, Owed(Top), <<>>)

LEMMA ClosingStacks ==
  ASSUME ParserInv, Top.fn # "Root"
  PROVE  /\ Closing(Below)
         /\ \A f \in CalmFrames : Closing(WithTop(f))
         /\ Under.fn \notin Bracketing => Closing(BelowTwo)
<1>1. Closing(Below)
  BY StackFacts DEF Closing
<1>2. ASSUME NEW f \in CalmFrames PROVE Closing(WithTop(f))
  <2>1. f \in Frame /\ f.fn \notin {"If", "Else"} /\ <<>> \in Seq(Closers)
    BY CalmFramesAre
  <2>2. Inherits(Append(Below, f)) /\ Pays(Append(Below, f), Owed(Top), <<>>)
    BY <2>1, StackFacts, InheritsPush, PaysPushCalm
  <2> QED BY <2>2 DEF Closing, WithTop
<1>3. ASSUME Under.fn \notin Bracketing PROVE Closing(BelowTwo)
  <2>1. Pays(Popped(Below), Owed(Top), <<>>)
    BY <1>3, StackFacts, UnderFacts, PaysPopCalm
  <2> QED BY <2>1, UnderFacts DEF Closing
<1> QED BY <1>1, <1>2, <1>3

-----------------------------------------------------------------------------
(* Steady steps: all but those that begin or end an `if' or `else' *)

\* What the current token closes.
Closed(kind) ==
  CASE kind = "R_CURLY"  -> <<"R_CURLY">>
    [] kind = "R_PAREN"  -> <<"R_PAREN">>
    [] kind = "R_BRACK"  -> <<"R_BRACK">>
    [] kind = "R_BRACK2" -> <<"R_BRACK", "R_BRACK">>
    [] OTHER             -> <<>>

\* Unless an error is on record, a step that consumes a bracket opens or closes
\* it on the stack, and no other step does.
BalancedStep ==
  \/ diagnostics' # <<>>
  \/ diagnostics' = diagnostics /\ at' = at /\ Pays(stack', <<>>, <<>>)
  \/ diagnostics' = diagnostics /\ Bump /\ Pays(stack', Closed(current), Opened(current))

\* Steps at which an operand that ends before the current token can be returned.
Quiet == pc \notin {"Fail", "Recover", "List", "Prefix"}

\* Between two tokens, what is known of the current one does not change, unless
\* it is a delimiter that ends a list.
AwaitingStep ==
  Quiet' =>
    \/ Bump
    \/ current' \in Closers
    \/ Quiet /\ UNCHANGED <<sourceVars, significance>>

\* A new node of two brackets ends with a `]' right behind another.
SteadyNode(n) ==
  /\ n.kind \notin {"R_IF_STATEMENT", "R_ELSE_CLAUSE"}
  /\ n.kind = "R_SUBSET2" => n.last \in 1 .. at' - 1 /\ text'[n.last].gap = "Tight"

SteadyNodes == nodes \subseteq nodes' /\ \A n \in nodes' \ nodes : SteadyNode(n)

SteadyStep == BalancedStep /\ AwaitingStep /\ SteadyNodes /\ Inherits(stack')

PlainKind(kind) == kind \notin {"R_IF_STATEMENT", "R_ELSE_CLAUSE", "R_SUBSET2"}

Brackets == {"L_CURLY", "L_PAREN", "L_BRACK", "L_BRACK2", "R_CURLY", "R_PAREN", "R_BRACK",
             "R_BRACK2"}

LEMMA PlainKinds ==
  /\ \A fn \in DOMAIN LastPartNode : PlainKind(LastPartNode[fn])
  /\ \A kind \in ValueStart : PlainKind(ValueNode(kind))
  /\ \A close \in DOMAIN CallNode : PlainKind(ArgumentsNode[close])
  /\ (UnaryOperators \cup BinaryOperators \cup Extractors \cup Namespacers
        \cup ValueStart \cup Keywords) \cap Brackets = {}
<1>1. \A fn \in DOMAIN LastPartNode : PlainKind(LastPartNode[fn])
  BY DEF LastPartNode, PlainKind
<1>2. \A kind \in ValueStart : PlainKind(ValueNode(kind))
  BY DEF ValueStart, ValueNode, PlainKind, ValueKeywords, Identifiers, Dots
<1>3. \A close \in DOMAIN CallNode : PlainKind(ArgumentsNode[close])
  BY DEF CallNode, ArgumentsNode, PlainKind
<1>4. (UnaryOperators \cup BinaryOperators \cup Extractors \cup Namespacers
        \cup ValueStart \cup Keywords) \cap Brackets = {}
  BY DEF UnaryOperators, UnaryPower, BinaryOperators, BinaryPower, Extractors, Namespacers,
         ValueStart, Keywords, ValueKeywords, ConstructKeywords, Identifiers, Dots, Brackets
<1> QED BY <1>1, <1>2, <1>3, <1>4

LEMMA NoBracket ==
  ASSUME NEW kind, kind \notin Brackets
  PROVE  Opened(kind) = <<>> /\ Closed(kind) = <<>>
  BY DEF Brackets, Opened, Closed

LEMMA PlainNodes ==
  ASSUME NEW completed, nodes' = nodes \cup completed, \A n \in completed : PlainKind(n.kind)
  PROVE  SteadyNodes
  BY DEF SteadyNodes, SteadyNode, PlainKind

LEMMA SteadyConsume ==
  ASSUME NEW completed, Consume(completed), \A n \in completed : PlainKind(n.kind),
         current \notin Brackets, Keeps(stack')
  PROVE  SteadyStep
<1>1. Bump /\ nodes' = nodes \cup completed /\ diagnostics' = diagnostics
  BY DEF Consume
<1>2. SteadyNodes
  BY <1>1, PlainNodes
<1>3. BalancedStep
  BY <1>1, NoBracket DEF BalancedStep, Keeps
<1>4. AwaitingStep
  BY <1>1, Zenon DEF AwaitingStep
<1> QED BY <1>2, <1>3, <1>4 DEF SteadyStep, Keeps

LEMMA SteadyOpen ==
  ASSUME NEW completed, Consume(completed), \A n \in completed : PlainKind(n.kind),
         NEW f, Opening(stack', f), Opened(current) = Owed(f), Closed(current) = <<>>
  PROVE  SteadyStep
<1>1. Bump /\ nodes' = nodes \cup completed /\ diagnostics' = diagnostics
  BY DEF Consume
<1>2. SteadyNodes
  BY <1>1, PlainNodes
<1>3. BalancedStep
  BY <1>1 DEF BalancedStep, Opening
<1>4. AwaitingStep
  BY <1>1, Zenon DEF AwaitingStep
<1> QED BY <1>2, <1>3, <1>4 DEF SteadyStep, Opening

LEMMA SteadyClose ==
  ASSUME NEW completed, Consume(completed), \A n \in completed : PlainKind(n.kind),
         Closing(stack'), Closed(current) = Owed(Top), Opened(current) = <<>>
  PROVE  SteadyStep
<1>1. Bump /\ nodes' = nodes \cup completed /\ diagnostics' = diagnostics
  BY DEF Consume
<1>2. SteadyNodes
  BY <1>1, PlainNodes
<1>3. BalancedStep
  BY <1>1 DEF BalancedStep, Closing
<1>4. AwaitingStep
  BY <1>1, Zenon DEF AwaitingStep
<1> QED BY <1>2, <1>3, <1>4 DEF SteadyStep, Closing

LEMMA SteadyComplete ==
  ASSUME NEW completed, Complete(completed), \A n \in completed : PlainKind(n.kind),
         Keeps(stack'), Quiet' => Quiet, significance' = significance
  PROVE  SteadyStep
<1>1. nodes' = nodes \cup completed /\ diagnostics' = diagnostics /\ UNCHANGED sourceVars
  BY DEF Complete
<1>2. SteadyNodes
  BY <1>1, PlainNodes
<1>3. BalancedStep
  BY <1>1 DEF BalancedStep, Keeps, sourceVars
<1>4. AwaitingStep
  BY <1>1 DEF AwaitingStep
<1> QED BY <1>2, <1>3, <1>4 DEF SteadyStep, Keeps

LEMMA FailKeepsError ==
  ASSUME Fail, diagnostics \in Seq(Nat), at \in Nat
  PROVE  diagnostics' # <<>> /\ stack' = stack /\ pc' = "Fail"
<1>1. stack' = stack /\ pc' = "Fail"
  BY DEF Fail, Continue, Goto
<1>2. CASE diagnostics # <<>> /\ diagnostics[Len(diagnostics)] = at
  BY <1>1, <1>2 DEF Fail
<1>3. CASE ~(diagnostics # <<>> /\ diagnostics[Len(diagnostics)] = at)
  <2>1. diagnostics' = Append(diagnostics, at)
    BY <1>3 DEF Fail
  <2> QED BY <1>1, <2>1
<1> QED BY <1>2, <1>3

LEMMA SteadyExpected ==
  ASSUME ParserInv, Expected
  PROVE  SteadyStep
<1>1. diagnostics \in Seq(Nat) /\ at \in Nat /\ Inherits(stack)
  BY InvFacts, StackFacts DEF ParserInv, Keeps
<1>2. diagnostics' # <<>> /\ stack' = stack /\ pc' = "Fail"
  BY <1>1, FailKeepsError DEF Expected
<1>3. nodes' = nodes
  BY DEF Expected
<1> QED BY <1>1, <1>2, <1>3 DEF SteadyStep, BalancedStep, AwaitingStep, SteadyNodes, Quiet

\* Steps of which the error on record says enough.
LEMMA SteadyRecovery ==
  ASSUME diagnostics' # <<>>, Inherits(stack'), ~Quiet', SteadyNodes
  PROVE  SteadyStep
  BY DEF SteadyStep, BalancedStep, AwaitingStep

LEMMA SteadyValue ==
  ASSUME ParserInv, NEW frames, Keeps(frames), ParseValue(frames)
  PROVE  SteadyStep
<1> USE DEF Continue, Goto, Return, Yield
<1>0. at \in Nat
  BY InvFacts
<1>1. CASE current = "STRING_OPEN"
  <2>1. Consume({}) /\ stack' = Append(frames, Call("String", at))
    BY <1>1 DEF ParseValue
  <2>2. Call("String", at) \in CalmFrames
    BY <1>0, CalmFramesAre, FunctionsAre DEF Bracketing
  <2>3. Keeps(stack')
    BY <2>1, <2>2, KeepsPush
  <2>4. current \notin Brackets
    BY <1>1 DEF Brackets
  <2> QED BY <2>1, <2>3, <2>4, SteadyConsume
<1>2. CASE current # "STRING_OPEN"
  <2>1. /\ Consume({NodeWith(ValueNode(current), at)}) /\ stack' = frames
        /\ current \in ValueStart
    BY <1>2 DEF ParseValue
  <2>2. current \notin Brackets /\ PlainKind(ValueNode(current))
    BY <2>1, PlainKinds
  <2>3. PlainKind(NodeWith(ValueNode(current), at).kind)
    BY <2>2 DEF NodeWith, NodeOver
  <2> QED BY <2>1, <2>2, <2>3, SteadyConsume
<1> QED BY <1>1, <1>2

LEMMA PropagateSteady ==
  ASSUME ErrorInv, Propagate
  PROVE  SteadyStep
<1>1. stack' = Below /\ pc' = "Fail" /\ nodes' = nodes /\ diagnostics' = diagnostics
      /\ pc = "Fail"
  BY DEF Propagate, Leave, Continue, Goto
<1>2. ParserInv
  BY DEF ErrorInv
<1>3. diagnostics # <<>> /\ Inherits(stack')
  BY <1>1, <1>2, StackFacts DEF ParserInv, FailureIsRecorded
<1> QED BY <1>1, <1>3, SteadyRecovery DEF Quiet, SteadyNodes

LEMMA ModSteady ==
  ASSUME ErrorInv, GrammarMod
  PROVE  SteadyStep
<1> USE DEF Continue, Goto, Return, Yield
<1>0. ParserInv /\ at \in Nat /\ CurrentEnd + 1 \in Nat /\ Top \in Frame
  BY InvFacts DEF ErrorInv
<1>1. {"ExpressionList", "Statement"} \subseteq Functions \ (Bracketing \cup {"If", "Else"})
  BY FunctionsAre DEF Bracketing
<1>2. CASE ParseRoot
  <2>1. \A from \in Nat : List("ExpressionList", from, "EOF") \in CalmFrames
    BY <1>1, CalmFramesAre DEF Closers
  <2>2. PICK from \in Nat : stack' = Append(stack, List("ExpressionList", from, "EOF"))
    BY <1>0, <1>2 DEF ParseRoot
  <2>3. Keeps(stack')
    BY <1>0, <2>1, <2>2, StackFacts, KeepsPush
  <2>4. CASE current = "UNICODE_BOM"
    <3>1. Consume({}) /\ current \notin Brackets
      BY <1>2, <2>4 DEF ParseRoot, Brackets
    <3> QED BY <2>3, <3>1, SteadyConsume
  <2>5. CASE current # "UNICODE_BOM"
    <3>1. Complete({}) /\ significance' = significance /\ pc' = "List"
      BY <1>2, <2>5 DEF ParseRoot
    <3> QED BY <2>3, <3>1, SteadyComplete DEF Quiet
  <2> QED BY <2>4, <2>5
<1>3. CASE RootParsed
  <2>1. /\ Complete({NodeBefore("R_ROOT", Top.from)}) /\ pc = "Return" /\ pc' = "Done"
        /\ stack' = stack /\ significance' = significance
    BY <1>3 DEF RootParsed, Returned
  <2>2. PlainKind(NodeBefore("R_ROOT", Top.from).kind)
    BY DEF NodeBefore, NodeOver, PlainKind
  <2>3. Keeps(stack') /\ Quiet
    BY <1>0, <2>1, StackFacts DEF Quiet
  <2> QED BY <2>1, <2>2, <2>3, SteadyComplete
<1>4. CASE ParseStatement
  <2>1. /\ stack' = stack \o <<Call("Statement", at), Expression(0)>> /\ pc' = "Prefix"
        /\ nodes' = nodes /\ diagnostics' = diagnostics /\ at' = at
    BY <1>4 DEF ParseStatement, BlessSemicolons
  <2>2. Call("Statement", at) \in CalmFrames /\ Expression(0) \in CalmFrames
    BY <1>0, <1>1, CalmFramesAre, PowerTypes
  <2>3. Keeps(stack')
    BY <1>0, <2>1, <2>2, StackFacts, KeepsPushTwo
  <2> QED BY <2>1, <2>3 DEF SteadyStep, BalancedStep, AwaitingStep, SteadyNodes, Quiet, Keeps
<1>5. CASE StatementParsed
  <2>1. /\ Complete({}) /\ stack' = Below /\ pc' = "List" /\ significance' = significance
        /\ Top.fn = "Statement"
    BY <1>5 DEF StatementParsed, Returned
  <2>2. Keeps(stack')
    BY <1>0, <2>1, KeepsBelow DEF Bracketing
  <2> QED BY <2>1, <2>2, SteadyComplete DEF Quiet
<1>6. CASE EndList
  <2> DEFINE list == NodeBefore("R_EXPRESSION_LIST", Top.from)
  <2>1. /\ nodes' = nodes \cup {list} /\ diagnostics' = diagnostics /\ at' = at
        /\ stack' = Below /\ pc = "List" /\ current' = current
        /\ current \in {Top.close, "EOF"}
    BY <1>6 DEF EndList, BlessSemicolons
  <2>2. PlainKind(list.kind)
    BY DEF NodeBefore, NodeOver, PlainKind
  <2> HIDE DEF list
  <2>3. SteadyNodes
    BY <2>1, <2>2 DEF SteadyNodes, SteadyNode, PlainKind
  <2>4. Top.fn = "ExpressionList"
    BY <1>0, <2>1, TopAt
  <2>5. Keeps(stack')
    BY <1>0, <2>1, <2>4, KeepsBelow DEF Bracketing
  <2>6. current' \in Closers
    BY <1>0, <2>1 DEF Frame, Closers
  <2> QED BY <2>1, <2>3, <2>5, <2>6 DEF SteadyStep, BalancedStep, AwaitingStep, Keeps
<1>7. CASE RecoverStatement \/ SkipToken \/ Recovered
  <2>1. pc \in {"Fail", "Recover"}
    BY <1>7 DEF RecoverStatement, SkipToken, Recovered
  <2>2. diagnostics # <<>>
    BY <1>0, <2>1 DEF ErrorInv, ParserInv, FailureIsRecorded, RecoveryInv
  <2>3. pc' \in {"Recover", "List"} /\ diagnostics' = diagnostics
    BY <1>7 DEF RecoverStatement, SkipToken, Recovered, Complete, Consume
  <2>4. SteadyNodes
    <3>1. PICK completed \in {{}, {NodeBefore("R_BOGUS_EXPRESSION", Top.from)}} :
            nodes' = nodes \cup completed
      BY <1>7 DEF RecoverStatement, SkipToken, Recovered, Complete, Consume
    <3>2. \A n \in completed : PlainKind(n.kind)
      BY DEF NodeBefore, NodeOver, PlainKind
    <3> QED BY <3>1, <3>2, PlainNodes
  <2>5. Inherits(stack')
    <3>1. Top.fn = "Statement"
      BY <1>0, <1>7, TopAt DEF RecoverStatement, SkipToken, Recovered
    <3>2. [Top EXCEPT !.previous = "Progress"] \in Frame
          /\ [Top EXCEPT !.previous = "Progress"].fn = "Statement"
      BY <1>0, <3>1 DEF Frame
    <3>3. /\ Inherits(stack) /\ Inherits(Below)
          /\ Inherits(WithTop([Top EXCEPT !.previous = "Progress"]))
      BY <1>0, <3>2, StackFacts, InheritsPush DEF Keeps, WithTop
    <3> QED BY <1>7, <3>3 DEF RecoverStatement, SkipToken, Recovered
  <2> QED BY <2>2, <2>3, <2>4, <2>5, SteadyRecovery DEF Quiet
<1> QED BY <1>2, <1>3, <1>4, <1>5, <1>6, <1>7 DEF GrammarMod

\* The steps that begin and end an `if', with its `else'.
BeginsIf == ParseConstruct /\ current = "IF_KW"

IfStep == BeginsIf \/ ParseElse \/ IfParsed \/ IfElseParsed

LEMMA ExpressionsSteady ==
  ASSUME ParserInv, GrammarExpressions, ~BeginsIf
  PROVE  SteadyStep
<1> USE DEF Continue, Goto, Return, Yield
<1>0. at \in Nat /\ value.first \in Nat /\ Top.fn \in Functions /\ Keeps(stack)
  BY InvFacts, StackFacts
<1>1. /\ {"Unary", "FunctionDefinition", "While", "For", "Repeat", "Binary", "Extract",
          "Namespace"} \subseteq Functions \ (Bracketing \cup {"If", "Else"})
  BY FunctionsAre DEF Bracketing
<1>2. CASE ParseUnary
  <2>1. /\ Consume({}) /\ current \in UnaryOperators
        /\ stack' = stack \o <<Call("Unary", at), Expression(UnaryPower[current])>>
    BY <1>2 DEF ParseUnary
  <2>2. Call("Unary", at) \in CalmFrames /\ Expression(UnaryPower[current]) \in CalmFrames
    BY <1>0, <1>1, <2>1, CalmFramesAre, PowerTypes
  <2>3. Keeps(stack') /\ current \notin Brackets
    BY <1>0, <2>1, <2>2, KeepsPushTwo, PlainKinds
  <2> QED BY <2>1, <2>3, SteadyConsume
<1>3. CASE ParseConstruct
  <2>1. /\ Consume({}) /\ current \in {"FUNCTION_KW", "BACKSLASH", "WHILE_KW", "FOR_KW",
                                        "REPEAT_KW"}
    BY <1>3 DEF ParseConstruct, BeginsIf
  <2>2. current \notin Brackets
    BY <2>1 DEF Brackets
  <2>3. CASE current = "REPEAT_KW"
    <3>1. stack' = stack \o <<Call("Repeat", at), Expression(FUNCTION_BODY_BP)>>
      BY <1>3, <2>3 DEF ParseConstruct
    <3>2. Call("Repeat", at) \in CalmFrames /\ Expression(FUNCTION_BODY_BP) \in CalmFrames
      BY <1>0, <1>1, CalmFramesAre, PowerTypes
    <3>3. Keeps(stack')
      BY <1>0, <3>1, <3>2, KeepsPushTwo
    <3> QED BY <2>1, <2>2, <3>3, SteadyConsume
  <2>4. CASE current # "REPEAT_KW"
    <3>1. PICK fn \in {"FunctionDefinition", "While", "For"} :
            stack' = Append(stack, Call(fn, at))
      BY <1>3, <2>1, <2>4 DEF ParseConstruct
    <3>2. Call(fn, at) \in CalmFrames
      BY <1>0, <1>1, CalmFramesAre
    <3>3. Keeps(stack')
      BY <1>0, <3>1, <3>2, KeepsPush
    <3> QED BY <2>1, <2>2, <3>3, SteadyConsume
  <2> QED BY <2>3, <2>4
<1>4. CASE ParsePrefixValue
  BY <1>0, <1>4, SteadyValue DEF ParsePrefixValue
<1>5. CASE ParseNoPrefix \/ ParseNamespaceOfOther \/ ParseStringUnterminated
  BY <1>5, SteadyExpected DEF ParseNoPrefix, ParseNamespaceOfOther, ParseStringUnterminated
<1>6. CASE EndExpression
  <2>1. /\ Complete({}) /\ stack' = Below /\ pc = "Return" /\ significance' = significance
        /\ Top.fn = "Expression"
    BY <1>6 DEF EndExpression, Returned
  <2>2. Keeps(stack') /\ Quiet
    BY <2>1, KeepsBelow DEF Bracketing, Quiet
  <2> QED BY <2>1, <2>2, SteadyComplete
<1>7. CASE ParseBinary
  <2>1. /\ Consume({}) /\ current \in BinaryOperators
        /\ stack' = stack \o <<Call("Binary", value.first), Expression(BinaryPower[current][2])>>
    BY <1>7 DEF ParseBinary, Returned
  <2>2. /\ Call("Binary", value.first) \in CalmFrames
        /\ Expression(BinaryPower[current][2]) \in CalmFrames
    BY <1>0, <1>1, <2>1, CalmFramesAre, PowerTypes
  <2>3. Keeps(stack') /\ current \notin Brackets
    BY <1>0, <2>1, <2>2, KeepsPushTwo, PlainKinds
  <2> QED BY <2>1, <2>3, SteadyConsume
<1>8. CASE ParseExtract \/ ParseNamespace
  <2>1. PICK fn \in {"Extract", "Namespace"} : stack' = Append(stack, Call(fn, value.first))
    BY <1>8 DEF ParseExtract, ParseNamespace
  <2>2. Consume({}) /\ current \notin Brackets
    BY <1>8, PlainKinds DEF ParseExtract, ParseNamespace, Returned
  <2>3. Call(fn, value.first) \in CalmFrames
    BY <1>0, <1>1, CalmFramesAre
  <2>4. Keeps(stack')
    BY <1>0, <2>1, <2>3, KeepsPush
  <2> QED BY <2>2, <2>4, SteadyConsume
<1>9. CASE ParseSelector
  BY <1>0, <1>9, SteadyValue DEF ParseSelector
<1>10. CASE ParseNoSelector \/ LastPartParsed
  <2>1. /\ Complete({NodeBefore(LastPartNode[Top.fn], Top.from)}) /\ stack' = Below
        /\ pc \in {"Selector", "Return"} /\ significance' = significance
    BY <1>10 DEF ParseNoSelector, LastPartParsed
  <2>2. Top.fn \in DOMAIN LastPartNode
    BY <1>10, TopAt, LastPartFunctions DEF ParseNoSelector, LastPartParsed
  <2>3. PlainKind(LastPartNode[Top.fn])
    BY <2>2, PlainKinds
  <2>4. PlainKind(NodeBefore(LastPartNode[Top.fn], Top.from).kind)
    BY <2>3 DEF NodeBefore, NodeOver
  <2>5. Keeps(stack') /\ Quiet
    BY <2>1, <2>2, KeepsBelow, LastPartFunctions DEF Bracketing, Quiet
  <2> QED BY <2>1, <2>4, <2>5, SteadyComplete
<1>11. CASE ParseStringContent
  <2>1. Consume({}) /\ stack' = stack /\ current = "STRING_CONTENT"
    BY <1>11 DEF ParseStringContent
  <2>2. Keeps(stack') /\ current \notin Brackets
    BY <1>0, <2>1 DEF Brackets
  <2> QED BY <2>1, <2>2, SteadyConsume
<1>12. CASE ParseStringClose
  <2>1. /\ Consume({NodeWith("R_STRING_VALUE", Top.from)}) /\ stack' = Below
        /\ pc \in {"String", "StringEnd"} /\ current = "STRING_CLOSE"
    BY <1>12 DEF ParseStringClose
  <2>2. PlainKind(NodeWith("R_STRING_VALUE", Top.from).kind)
    BY DEF NodeWith, NodeOver, PlainKind
  <2>3. Top.fn = "String"
    BY <2>1, TopAt
  <2>4. Keeps(stack') /\ current \notin Brackets
    BY <2>1, <2>3, KeepsBelow DEF Bracketing, Brackets
  <2> QED BY <2>1, <2>2, <2>4, SteadyConsume
<1> QED BY <1>2, <1>3, <1>4, <1>5, <1>6, <1>7, <1>8, <1>9, <1>10, <1>11, <1>12
        DEF GrammarExpressions

LEMMA OwedBy ==
  ASSUME NEW f
  PROVE  /\ f.fn = "Braces" => Owed(f) = <<"R_CURLY">>
         /\ f.fn \in {"Parenthesized", "Condition", "ForHeader", "Parameters"} =>
              Owed(f) = <<"R_PAREN">>
         /\ f.fn = "Arguments" => Owed(f) = Closed(f.close) \/ f.close \notin DOMAIN CallNode
  BY DEF Owed, Closed, CallNode

LEMMA OpensAndCloses ==
  /\ Opened("L_CURLY") = <<"R_CURLY">> /\ Closed("L_CURLY") = <<>>
  /\ Opened("L_PAREN") = <<"R_PAREN">> /\ Closed("L_PAREN") = <<>>
  /\ Opened("L_BRACK") = <<"R_BRACK">> /\ Closed("L_BRACK") = <<>>
  /\ Opened("L_BRACK2") = <<"R_BRACK", "R_BRACK">> /\ Closed("L_BRACK2") = <<>>
  /\ \A kind \in {"R_CURLY", "R_PAREN", "R_BRACK"} :
       Opened(kind) = <<>> /\ Closed(kind) = <<kind>>
  /\ Opened("R_BRACK2") = <<>> /\ Closed("R_BRACK2") = <<"R_BRACK", "R_BRACK">>
  BY DEF Opened, Closed

LEMMA BracketFrames ==
  ASSUME NEW from \in Nat
  PROVE  /\ \A fn \in {"Parenthesized", "Condition", "ForHeader", "Parameters"} :
              /\ Call(fn, from) \in Frame /\ Call(fn, from).fn = fn
              /\ Owed(Call(fn, from)) = <<"R_PAREN">>
         /\ Call("Braces", from) \in Frame /\ Call("Braces", from).fn = "Braces"
         /\ Owed(Call("Braces", from)) = <<"R_CURLY">>
         /\ \A close \in DOMAIN CallNode :
              /\ List("Arguments", from, close) \in Frame
              /\ List("Arguments", from, close).fn = "Arguments"
              /\ Owed(List("Arguments", from, close)) = Closed(close)
<1>1. {"Parenthesized", "Condition", "ForHeader", "Parameters", "Braces", "Arguments"}
        \subseteq Functions /\ DOMAIN CallNode \subseteq Closers
  BY FunctionsAre DEF CallNode, Closers
<1>2. \A fn \in {"Parenthesized", "Condition", "ForHeader", "Parameters", "Braces"} :
        Call(fn, from) \in Frame /\ Call(fn, from).fn = fn
  BY <1>1, FrameTypes
<1>3. \A close \in DOMAIN CallNode :
        /\ List("Arguments", from, close) \in Frame
        /\ List("Arguments", from, close).fn = "Arguments"
        /\ List("Arguments", from, close).close = close
  BY <1>1, FrameTypes
<1> QED BY <1>2, <1>3, OwedBy

LEMMA SteadyFail ==
  ASSUME ParserInv, Fail, SteadyNodes
  PROVE  SteadyStep
<1>1. diagnostics \in Seq(Nat) /\ at \in Nat /\ Inherits(stack)
  BY InvFacts, StackFacts DEF ParserInv, Keeps
<1>2. diagnostics' # <<>> /\ stack' = stack /\ pc' = "Fail"
  BY <1>1, FailKeepsError
<1> QED BY <1>1, <1>2 DEF SteadyStep, BalancedStep, AwaitingStep, Quiet

\* When two `]' that were glued are consumed, nothing is between them.
LEMMA GluedAt ==
  ASSUME ParserInv, Bump, current = "R_BRACK2"
  PROVE  CurrentEnd \in 1 .. at' - 1 /\ text'[CurrentEnd].gap = "Tight"
<1>1. SourceTypeOK /\ Extent
  BY DEF ParserInv, SourceInv
<1>2. PICK token \in Upcoming : Lex(token) /\ at' = CurrentEnd + 1
  BY DEF Bump, Advance
<1>3. at \in Nat /\ at >= 1 /\ Len(text) \in Nat
  BY <1>1 DEF SourceTypeOK
<1>4. ~lookahead /\ Len(text) = at + 1 /\ text[at + 1].gap = "Tight"
  BY <1>1 DEF Extent
<1>5. CurrentEnd = at + 1 /\ at' = at + 2
  BY <1>2, <1>3, <1>4 DEF CurrentEnd
<1>6. \A i \in 1 .. Len(text) : text'[i] = text[i]
  BY <1>1, <1>2, LexAppends
<1>7. text'[at + 1] = text[at + 1]
  BY <1>3, <1>4, <1>6
<1> QED BY <1>3, <1>4, <1>5, <1>7

LEMMA ControlSteady ==
  ASSUME ParserInv, GrammarControl, ~(ParseElse \/ IfParsed \/ IfElseParsed)
  PROVE  SteadyStep
<1> USE DEF Continue, Goto, Enter, Leave, Return, Yield
<1>0. at \in Nat /\ CurrentEnd + 1 \in Nat /\ Top.fn \in Functions /\ Keeps(stack)
  BY InvFacts, StackFacts
<1>1. /\ "ExpressionList" \in Functions \ (Bracketing \cup {"If", "Else"})
      /\ {"EOF", "R_CURLY"} \subseteq Closers
  BY FunctionsAre DEF Closers, Bracketing
<1>2. CASE ParseParenthesized \/ ParseCondition \/ ParseForHeader
  <2>1. PICK fn \in {"Parenthesized", "Condition", "ForHeader"} :
          \/ stack' = stack \o <<Call(fn, at), Expression(0)>>
          \/ stack' = Append(stack, Call(fn, at))
    BY <1>2 DEF ParseParenthesized, ParseCondition, ParseForHeader
  <2>2. Consume({}) /\ current = "L_PAREN"
    BY <1>2 DEF ParseParenthesized, ParseCondition, ParseForHeader
  <2>3. /\ Call(fn, at) \in Frame /\ Call(fn, at).fn \notin {"If", "Else"}
        /\ Owed(Call(fn, at)) = <<"R_PAREN">>
    BY <1>0, BracketFrames
  <2>4. Expression(0) \in CalmFrames
    BY CalmFramesAre, PowerTypes
  <2>5. Opening(stack', Call(fn, at))
    BY <1>0, <2>1, <2>3, <2>4, OpeningPush, OpeningPushTwo
  <2>6. Opened(current) = Owed(Call(fn, at)) /\ Closed(current) = <<>>
    BY <2>2, <2>3, OpensAndCloses
  <2> QED BY <2>2, <2>3, <2>5, <2>6, SteadyOpen
<1>3. CASE ParenthesizedParsed \/ BracesParsed
  <2>1. PICK kind \in {"R_PARENTHESIZED_EXPRESSION", "R_BRACED_EXPRESSIONS"} :
          Consume({NodeWith(kind, Top.from)})
    BY <1>3 DEF ParenthesizedParsed, BracesParsed
  <2>2. /\ stack' = Below
        /\ \/ Top.fn = "Parenthesized" /\ current = "R_PAREN"
           \/ Top.fn = "Braces" /\ current = "R_CURLY"
    BY <1>3 DEF ParenthesizedParsed, BracesParsed, Returned
  <2>3. PlainKind(NodeWith(kind, Top.from).kind)
    BY DEF NodeWith, NodeOver, PlainKind
  <2>4. Closed(current) = Owed(Top) /\ Opened(current) = <<>>
    BY <2>2, OwedBy, OpensAndCloses
  <2>5. Closing(stack')
    BY <2>2, ClosingStacks
  <2> QED BY <2>1, <2>3, <2>4, <2>5, SteadyClose
<1>4. CASE ParseBraces
  <2>1. /\ Consume({}) /\ current = "L_CURLY"
        /\ stack' = stack \o <<Call("Braces", at),
                               List("ExpressionList", CurrentEnd + 1, "R_CURLY")>>
    BY <1>4 DEF ParseBraces
  <2>2. /\ Call("Braces", at) \in Frame /\ Call("Braces", at).fn \notin {"If", "Else"}
        /\ Owed(Call("Braces", at)) = <<"R_CURLY">>
    BY <1>0, BracketFrames
  <2>3. List("ExpressionList", CurrentEnd + 1, "R_CURLY") \in CalmFrames
    BY <1>0, <1>1, CalmFramesAre
  <2>4. Opening(stack', Call("Braces", at))
    BY <1>0, <2>1, <2>2, <2>3, OpeningPushTwo
  <2>5. Opened(current) = Owed(Call("Braces", at)) /\ Closed(current) = <<>>
    BY <2>1, <2>2, OpensAndCloses
  <2> QED BY <2>1, <2>2, <2>4, <2>5, SteadyOpen
<1>5. CASE ExpectCloseFails \/ ExpectOpenFails \/ ForHeaderFails
  BY <1>5, SteadyExpected DEF ExpectCloseFails, ExpectOpenFails, ForHeaderFails
<1>6. CASE HeaderParsed
  <2>1. /\ Consume({}) /\ current = "R_PAREN" /\ Top.fn \in {"Condition", "ForHeader"}
        /\ stack' = WithTop(Expression(BodyPower(Under.fn)))
    BY <1>6 DEF HeaderParsed, Returned
  <2>2. Expression(BodyPower(Under.fn)) \in CalmFrames
    BY CalmFramesAre, PowerTypes DEF BodyPower
  <2>3. Closing(stack')
    BY <2>1, <2>2, ClosingStacks
  <2>4. Closed(current) = Owed(Top) /\ Opened(current) = <<>>
    BY <2>1, OwedBy, OpensAndCloses
  <2> QED BY <2>1, <2>3, <2>4, SteadyClose
<1>7. CASE ParseForVariable
  <2>1. /\ Consume({NodeWith("R_IDENTIFIER", at)})
        /\ current \in LaxIdentifiers /\ stack' = stack
    BY <1>7 DEF ParseForVariable
  <2>2. current \notin Brackets
    BY <2>1, PlainKinds DEF LaxIdentifiers, ValueStart
  <2>3. PlainKind(NodeWith("R_IDENTIFIER", at).kind)
    BY DEF NodeWith, NodeOver, PlainKind
  <2>4. Keeps(stack')
    BY <1>0, <2>1
  <2> QED BY <2>1, <2>2, <2>3, <2>4, SteadyConsume
<1>8. CASE ParseForIn
  <2>1. Consume({}) /\ current = "IDENT_in" /\ stack' = Append(stack, Expression(0))
    BY <1>8 DEF ParseForIn
  <2>2. Expression(0) \in CalmFrames
    BY CalmFramesAre, PowerTypes
  <2>3. Keeps(stack') /\ current \notin Brackets
    BY <1>0, <2>1, <2>2, KeepsPush DEF Brackets
  <2> QED BY <2>1, <2>3, SteadyConsume
<1> QED BY <1>2, <1>3, <1>4, <1>5, <1>6, <1>7, <1>8 DEF GrammarControl

LEMMA FunctionsSteady ==
  ASSUME ParserInv, GrammarFunctions
  PROVE  SteadyStep
<1> USE DEF Continue, Goto, Enter, Leave, Return, Yield
<1>0. at \in Nat /\ Top.fn \in Functions /\ Top \in Frame /\ Keeps(stack)
  BY InvFacts, StackFacts
<1>1. {"Parameter", "Default"} \subseteq Functions \ (Bracketing \cup {"If", "Else"})
  BY FunctionsAre DEF Bracketing
<1>2. CASE ParseParameters
  <2>1. /\ Consume({}) /\ current = "L_PAREN"
        /\ stack' = Append(stack, Call("Parameters", at))
    BY <1>2 DEF ParseParameters
  <2>2. /\ Call("Parameters", at) \in Frame /\ Call("Parameters", at).fn \notin {"If", "Else"}
        /\ Owed(Call("Parameters", at)) = <<"R_PAREN">>
    BY <1>0, BracketFrames
  <2>3. Opening(stack', Call("Parameters", at))
    BY <1>0, <2>1, <2>2, OpeningPush
  <2>4. Opened(current) = Owed(Call("Parameters", at)) /\ Closed(current) = <<>>
    BY <2>1, <2>2, OpensAndCloses
  <2> QED BY <2>1, <2>2, <2>3, <2>4, SteadyOpen
<1>3. CASE ParseParameterName
  <2> DEFINE kind == IF current \in Dots THEN ValueNode(current) ELSE "R_IDENTIFIER"
  <2>1. /\ Consume({NodeWith(kind, at)})
        /\ current \in ParameterNames /\ stack' = Append(stack, Call("Parameter", at))
    BY <1>3 DEF ParseParameterName
  <2>2. current \notin Brackets /\ PlainKind(kind)
    BY <2>1, PlainKinds DEF ParameterNames, LaxIdentifiers, ValueStart, PlainKind
  <2>3. PlainKind(NodeWith(kind, at).kind)
    BY <2>2 DEF NodeWith, NodeOver
  <2>4. Call("Parameter", at) \in CalmFrames
    BY <1>0, <1>1, CalmFramesAre
  <2>5. Keeps(stack')
    BY <1>0, <2>1, <2>4, KeepsPush
  <2> HIDE DEF kind
  <2> QED BY <2>1, <2>2, <2>3, <2>5, SteadyConsume
<1>4. CASE ParameterFails
  BY <1>4, SteadyExpected DEF ParameterFails
<1>5. CASE ParseParameterDefault
  <2>1. /\ Consume({}) /\ current = "EQUAL"
        /\ stack' = stack \o <<Call("Default", at), Expression(0)>>
    BY <1>5 DEF ParseParameterDefault
  <2>2. Call("Default", at) \in CalmFrames /\ Expression(0) \in CalmFrames
    BY <1>0, <1>1, CalmFramesAre, PowerTypes
  <2>3. Keeps(stack') /\ current \notin Brackets
    BY <1>0, <2>1, <2>2, KeepsPushTwo DEF Brackets
  <2> QED BY <2>1, <2>3, SteadyConsume
<1>6. CASE ParseParameterNoDefault
  <2>1. /\ Complete({NodeBefore("R_PARAMETER", Top.from)}) /\ stack' = Below
        /\ pc = "ParameterName" /\ significance' = significance
    BY <1>6 DEF ParseParameterNoDefault
  <2>2. PlainKind(NodeBefore("R_PARAMETER", Top.from).kind)
    BY DEF NodeBefore, NodeOver, PlainKind
  <2>3. Top.fn = "Parameter"
    BY <2>1, TopAt
  <2>4. Keeps(stack') /\ Quiet
    BY <2>1, <2>3, KeepsBelow DEF Bracketing, Quiet
  <2> QED BY <2>1, <2>2, <2>4, SteadyComplete
<1>7. CASE ParameterDefaultParsed
  <2>1. /\ Complete({NodeBefore("R_PARAMETER_DEFAULT", Top.from),
                     NodeBefore("R_PARAMETER", Under.from)})
        /\ stack' = BelowTwo /\ significance' = significance
        /\ pc = "Return" /\ Top.fn = "Default"
    BY <1>7 DEF ParameterDefaultParsed, Returned, BelowTwo
  <2>2. /\ PlainKind(NodeBefore("R_PARAMETER_DEFAULT", Top.from).kind)
        /\ PlainKind(NodeBefore("R_PARAMETER", Under.from).kind)
    BY DEF NodeBefore, NodeOver, PlainKind
  <2>3. Under.fn = "Parameter"
    BY <2>1, UnderFacts, CallersAre
  <2>4. Keeps(stack') /\ Quiet
    BY <2>1, <2>3, KeepsBelowTwo DEF Bracketing, Quiet
  <2> QED BY <2>1, <2>2, <2>4, SteadyComplete
<1>8. CASE ParseParameterComma
  <2> DEFINE f == [Top EXCEPT !.previous = "Comma"]
  <2>1. /\ Consume({}) /\ pc = "ParameterEnd" /\ current = "COMMA" /\ stack' = WithTop(f)
    BY <1>8 DEF ParseParameterComma
  <2>2. Top.fn = "Parameters"
    BY <2>1, TopAt
  <2>3. f \in Frame /\ f.fn = "Parameters"
    BY <1>0, <2>2 DEF Frame
  <2> HIDE DEF f
  <2>4. Owed(f) = Owed(Top)
    BY <2>2, <2>3, OwedBy
  <2>5. Keeps(stack') /\ current \notin Brackets
    BY <2>1, <2>3, <2>4, KeepsWithTop DEF Brackets
  <2> QED BY <2>1, <2>5, SteadyConsume
<1>9. CASE ParametersParsed
  <2>1. /\ Consume({NodeBefore("R_PARAMETER_LIST", Top.from + 1),
                    NodeWith("R_PARAMETERS", Top.from)})
        /\ pc \in {"ParameterList", "ParameterEnd"} /\ current = "R_PAREN"
        /\ stack' = WithTop(Expression(FUNCTION_BODY_BP))
    BY <1>9 DEF ParametersParsed, ParametersEnd
  <2>2. /\ PlainKind(NodeBefore("R_PARAMETER_LIST", Top.from + 1).kind)
        /\ PlainKind(NodeWith("R_PARAMETERS", Top.from).kind)
    BY DEF NodeBefore, NodeWith, NodeOver, PlainKind
  <2>3. Expression(FUNCTION_BODY_BP) \in CalmFrames
    BY CalmFramesAre, PowerTypes
  <2>4. Top.fn = "Parameters"
    BY <2>1, TopAt
  <2>5. Closing(stack')
    BY <2>1, <2>3, <2>4, ClosingStacks
  <2>6. Closed(current) = Owed(Top) /\ Opened(current) = <<>>
    BY <2>1, <2>4, OwedBy, OpensAndCloses
  <2> QED BY <2>1, <2>2, <2>5, <2>6, SteadyClose
<1>10. CASE ParametersUnclosed
  <2>1. /\ nodes' = nodes \cup {NodeBefore("R_PARAMETER_LIST", Top.from + 1)} /\ Fail
    BY <1>10 DEF ParametersUnclosed
  <2>2. PlainKind(NodeBefore("R_PARAMETER_LIST", Top.from + 1).kind)
    BY DEF NodeBefore, NodeOver, PlainKind
  <2>3. SteadyNodes
    BY <2>1, <2>2 DEF SteadyNodes, SteadyNode, PlainKind
  <2> QED BY <2>1, <2>3, SteadyFail
<1> QED BY <1>2, <1>3, <1>4, <1>5, <1>6, <1>7, <1>8, <1>9, <1>10 DEF GrammarFunctions

LEMMA CallsSteady ==
  ASSUME ParserInv, GrammarCalls
  PROVE  SteadyStep
<1> USE DEF Continue, Goto, Enter, Leave, Return, Yield
<1>0. /\ at \in Nat /\ value.first \in Nat /\ Top.fn \in Functions /\ Top \in Frame
      /\ Top = stack[Len(stack)] /\ Len(stack) \in Nat /\ Len(stack) > 0 /\ Chain(stack)
      /\ Keeps(stack)
  BY InvFacts, StackFacts DEF Top
<1>1. {"Call", "Argument", "ArgumentName"}
        \subseteq Functions \ (Bracketing \cup {"If", "Else"})
  BY FunctionsAre DEF Bracketing
<1>2. CASE ParseCallLike
  <2> DEFINE f == List("Arguments", at, CloserOf[current])
  <2>1. /\ Consume({}) /\ current \in {"L_PAREN", "L_BRACK", "L_BRACK2"}
        /\ stack' = stack \o <<Call("Call", value.first), f>>
    BY <1>2 DEF ParseCallLike, Returned, CallOpeners
  <2>2. /\ CloserOf[current] \in DOMAIN CallNode
        /\ Closed(CloserOf[current]) = Opened(current) /\ Closed(current) = <<>>
    <3>1. /\ CloserOf["L_PAREN"] = "R_PAREN" /\ CloserOf["L_BRACK"] = "R_BRACK"
          /\ CloserOf["L_BRACK2"] = "R_BRACK2"
          /\ DOMAIN CallNode = {"R_PAREN", "R_BRACK", "R_BRACK2"}
      BY DEF CloserOf, CallNode
    <3>2. CASE current = "L_PAREN"
      BY <3>1, <3>2, OpensAndCloses
    <3>3. CASE current = "L_BRACK"
      BY <3>1, <3>3, OpensAndCloses
    <3>4. CASE current = "L_BRACK2"
      BY <3>1, <3>4, OpensAndCloses
    <3> QED BY <2>1, <3>2, <3>3, <3>4
  <2>3. /\ Call("Call", value.first) \in CalmFrames
        /\ f \in Frame /\ f.fn = "Arguments" /\ Owed(f) = Closed(CloserOf[current])
    BY <1>0, <1>1, <2>2, CalmFramesAre, BracketFrames
  <2> HIDE DEF f
  <2>4. stack' = Append(Append(stack, Call("Call", value.first)), f)
    BY <1>0, <2>1, InvFacts, TwoPushed
  <2>5. Opening(stack', f)
    BY <1>0, <2>3, <2>4, KeepsPush, OpeningPush
  <2> QED BY <2>1, <2>2, <2>3, <2>5, SteadyOpen
<1>3. CASE ArgumentListParsed
  <2>1. PICK completed \in {{NodeBefore("R_ARGUMENT_LIST", Top.from + 1)},
                            {NodeBefore("R_ARGUMENT_LIST", Top.from + 1), EmptyArgument}} :
          Complete(completed)
    <3>1. {NodeBefore("R_ARGUMENT_LIST", Top.from + 1)} \cup {EmptyArgument}
            = {NodeBefore("R_ARGUMENT_LIST", Top.from + 1), EmptyArgument}
      OBVIOUS
    <3>2. {NodeBefore("R_ARGUMENT_LIST", Top.from + 1)} \cup {}
            = {NodeBefore("R_ARGUMENT_LIST", Top.from + 1)}
      OBVIOUS
    <3>3. CASE Top.previous = "Comma"
      BY <1>3, <3>1, <3>3 DEF ArgumentListParsed
    <3>4. CASE Top.previous # "Comma"
      BY <1>3, <3>2, <3>4 DEF ArgumentListParsed
    <3> QED BY <3>3, <3>4
  <2>2. stack' = stack /\ pc = "Arguments" /\ significance' = significance
    BY <1>3 DEF ArgumentListParsed
  <2>3. \A n \in completed : PlainKind(n.kind)
    BY DEF NodeBefore, EmptyArgument, NodeOver, PlainKind
  <2>4. Keeps(stack') /\ Quiet
    BY <1>0, <2>2 DEF Quiet
  <2> QED BY <2>1, <2>2, <2>3, <2>4, SteadyComplete
<1>4. CASE ParseArgumentComma
  <2> DEFINE f == [Top EXCEPT !.previous = "Comma"]
  <2>1. PICK completed \in {{EmptyArgument}, {}} : Consume(completed)
    BY <1>4 DEF ParseArgumentComma
  <2>2. stack' = WithTop(f) /\ current = "COMMA" /\ pc = "Arguments"
    BY <1>4 DEF ParseArgumentComma
  <2>3. f \in Frame /\ f.fn = "Arguments" /\ Top.fn = "Arguments" /\ f.close = Top.close
    BY <1>0, <2>2, TopAt DEF Frame
  <2> HIDE DEF f
  <2>4. Owed(f) = Owed(Top)
    BY <2>3 DEF Owed
  <2>5. \A n \in completed : PlainKind(n.kind)
    BY DEF EmptyArgument, NodeOver, PlainKind
  <2>6. Keeps(stack') /\ current \notin Brackets
    BY <2>2, <2>3, <2>4, KeepsWithTop DEF Brackets
  <2> QED BY <2>1, <2>5, <2>6, SteadyConsume
<1>5. CASE ArgumentsNotSeparated \/ CallUnclosed
  BY <1>5, SteadyExpected DEF ArgumentsNotSeparated, CallUnclosed
<1>6. CASE ParseArgument
  <2> DEFINE frames == Append(stack, Call("Argument", at))
  <2>1. Call("Argument", at) \in CalmFrames /\ Call("ArgumentName", at) \in CalmFrames
        /\ Expression(0) \in CalmFrames
    BY <1>0, <1>1, CalmFramesAre, PowerTypes
  <2>2. Keeps(frames)
    BY <1>0, <2>1, KeepsPush
  <2> HIDE DEF frames
  <2>3. Keeps(Append(frames, Call("ArgumentName", at))) /\ Keeps(Append(frames, Expression(0)))
    BY <2>1, <2>2, KeepsPush
  <2>4. CASE current \in ArgumentNameStart
    <3>1. ParseValue(Append(frames, Call("ArgumentName", at)))
      BY <1>6, <2>4 DEF ParseArgument, frames
    <3> QED BY <2>3, <3>1, SteadyValue
  <2>5. CASE current \notin ArgumentNameStart
    <3>1. /\ Complete({}) /\ stack' = Append(frames, Expression(0)) /\ pc = "Arguments"
          /\ significance' = significance
      BY <1>6, <2>5 DEF ParseArgument, frames
    <3>2. Quiet
      BY <3>1 DEF Quiet
    <3> QED BY <2>3, <3>1, <3>2, SteadyComplete
  <2> QED BY <2>4, <2>5
<1>7. CASE ParseArgumentEqual
  <2>1. /\ Consume({NodeWith("R_ARGUMENT_NAME_CLAUSE", value.first)}) /\ stack' = Below
        /\ Top.fn = "ArgumentName" /\ current = "EQUAL"
    BY <1>7 DEF ParseArgumentEqual, Returned
  <2>2. PlainKind(NodeWith("R_ARGUMENT_NAME_CLAUSE", value.first).kind)
    BY DEF NodeWith, NodeOver, PlainKind
  <2>3. Keeps(stack') /\ current \notin Brackets
    BY <2>1, KeepsBelow DEF Bracketing, Brackets
  <2> QED BY <2>1, <2>2, <2>3, SteadyConsume
<1>8. CASE ParseArgumentRest
  <2>1. /\ Complete({}) /\ stack' = WithTop(Expression(0)) /\ pc = "Return"
        /\ Top.fn = "ArgumentName" /\ significance' = significance
    BY <1>8 DEF ParseArgumentRest, Returned
  <2>2. Expression(0) \in CalmFrames
    BY CalmFramesAre, PowerTypes
  <2>3. Keeps(Below)
    BY <2>1, KeepsBelow DEF Bracketing
  <2>4. Keeps(stack') /\ Quiet
    BY <2>1, <2>2, <2>3, KeepsPush DEF WithTop, Quiet
  <2> QED BY <2>1, <2>4, SteadyComplete
<1>9. CASE ParseArgumentValue
  <2>1. /\ Complete({}) /\ stack' = Append(stack, Expression(0)) /\ pc = "ArgumentValue"
        /\ significance' = significance
    BY <1>9 DEF ParseArgumentValue
  <2>2. Expression(0) \in CalmFrames
    BY CalmFramesAre, PowerTypes
  <2>3. Keeps(stack') /\ Quiet
    BY <1>0, <2>1, <2>2, KeepsPush DEF Quiet
  <2> QED BY <2>1, <2>3, SteadyComplete
<1>10. CASE ArgumentParsed
  <2> DEFINE f == [Under EXCEPT !.previous = "Argument"]
  <2>1. /\ Complete({NodeBefore("R_ARGUMENT", Top.from)}) /\ Top.fn = "Argument"
        /\ stack' = Append(BelowTwo, f) /\ significance' = significance
        /\ pc \in {"ArgumentValue", "Return"}
    BY <1>10, TopAt DEF ArgumentParsed, Returned, BelowTwo
  <2>2. Under \in Frame /\ Under.fn = "Arguments"
    BY <2>1, UnderFacts, CallersAre
  <2>3. f \in Frame /\ f.fn = "Arguments" /\ f.close = Under.close
    BY <2>2 DEF Frame
  <2> HIDE DEF f
  <2>4. Owed(f) = Owed(Under)
    BY <2>2, <2>3 DEF Owed
  <2>5. PlainKind(NodeBefore("R_ARGUMENT", Top.from).kind)
    BY DEF NodeBefore, NodeOver, PlainKind
  <2>6. Keeps(stack')
    <3>1. Keeps(Below) /\ Owed(Under) \in Seq(Closers)
      BY <2>1, <2>2, KeepsBelow, OwedTyped DEF Bracketing
    <3>2. Pays(BelowTwo, Owed(Under), <<>>)
      BY <2>1, <3>1, StackFacts, UnderFacts, PaysPop DEF Keeps
    <3>3. /\ Pays(Append(BelowTwo, f), Owed(Under), Owed(Under))
          /\ Inherits(Append(BelowTwo, f))
      BY <2>1, <2>3, <2>4, <3>2, UnderFacts, PaysPush, InheritsPush
    <3> QED BY <2>1, <3>1, <3>3, PaysBack DEF Keeps
  <2>7. Quiet
    BY <2>1 DEF Quiet
  <2> QED BY <2>1, <2>5, <2>6, <2>7, SteadyComplete
<1>11. CASE GlueClose
  <2>1. /\ at' = at /\ nodes' = nodes /\ diagnostics' = diagnostics /\ stack' = stack
    BY <1>11 DEF GlueClose, TryGlueRightBracket2
  <2>2. current' \in Closers
    BY <1>11 DEF GlueClose, TryGlueRightBracket2, Closers
  <2> QED BY <1>0, <2>1, <2>2 DEF SteadyStep, BalancedStep, AwaitingStep, SteadyNodes, Keeps
<1>12. CASE CannotGlue
  <2>1. Fail /\ nodes' = nodes
    BY <1>12 DEF CannotGlue
  <2>2. SteadyNodes
    BY <2>1 DEF SteadyNodes
  <2> QED BY <2>1, <2>2, SteadyFail
<1>13. CASE CallParsed
  <2> DEFINE arguments == NodeWith(ArgumentsNode[Top.close], Top.from)
             call == NodeWith(CallNode[Top.close], Under.from)
  <2>1. /\ Consume({arguments, call})
        /\ stack' = BelowTwo /\ pc = "CallClose" /\ current = Top.close
    BY <1>13 DEF CallParsed, BelowTwo
  <2>2. Top.fn = "Arguments" /\ Top.close \in DOMAIN CallNode
    BY <1>0, <2>1, TopAt DEF Chain
  <2>3. Under.fn = "Call"
    BY <2>2, UnderFacts, CallersAre
  <2>4. Closing(stack')
    BY <2>1, <2>2, <2>3, ClosingStacks DEF Bracketing
  <2>5. Closed(current) = Owed(Top) /\ Opened(current) = <<>>
    BY <2>1, <2>2, OwedBy, OpensAndCloses DEF CallNode
  <2>6. Bump /\ nodes' = nodes \cup {arguments, call} /\ diagnostics' = diagnostics
    BY <2>1 DEF Consume
  <2>7. PlainKind(arguments.kind)
    BY <2>2, PlainKinds DEF NodeWith, NodeOver
  <2>8. SteadyNode(call)
    <3>1. call.kind = CallNode[Top.close] /\ call.last = CurrentEnd
      BY DEF NodeWith, NodeOver
    <3>2. CASE Top.close = "R_BRACK2"
      <4>1. CurrentEnd \in 1 .. at' - 1 /\ text'[CurrentEnd].gap = "Tight"
        BY <2>1, <2>6, <3>2, GluedAt
      <4>2. call.kind = "R_SUBSET2"
        BY <3>1, <3>2 DEF CallNode
      <4> QED BY <3>1, <4>1, <4>2 DEF SteadyNode
    <3>3. CASE Top.close # "R_BRACK2"
      <4>1. call.kind \in {"R_CALL", "R_SUBSET"}
        BY <2>2, <3>1, <3>3 DEF CallNode
      <4> QED BY <4>1 DEF SteadyNode
    <3> QED BY <3>2, <3>3
  <2> HIDE DEF arguments, call
  <2>9. SteadyNodes
    BY <2>6, <2>7, <2>8 DEF SteadyNodes, SteadyNode, PlainKind
  <2>10. BalancedStep
    BY <2>4, <2>5, <2>6 DEF BalancedStep, Closing
  <2>11. AwaitingStep
    BY <2>6, Zenon DEF AwaitingStep
  <2> QED BY <2>4, <2>9, <2>10, <2>11 DEF SteadyStep, Closing
<1> QED BY <1>2, <1>3, <1>4, <1>5, <1>6, <1>7, <1>8, <1>9, <1>10, <1>11, <1>12, <1>13
        DEF GrammarCalls

-----------------------------------------------------------------------------
(* The brackets of a text without errors *)

\* A close delimiter closes the innermost bracket open before it.
Closes(open, kind) == kind \in CloseDelimiters => open # <<>> /\ open[Len(open)] = kind

\* As long as there is no error, what the functions on the stack are to close
\* are the brackets open before the current token.
BracketsInv ==
  diagnostics = <<>> =>
    /\ Owes(stack, OpenBrackets[at - 1])
    /\ \A i \in 1 .. at - 1 : Closes(OpenBrackets[i - 1], text[i].kind)

Subset2Inv ==
  \A n \in NodesOf({"R_SUBSET2"}) : n.last \in 1 .. at - 1 /\ text[n.last].gap = "Tight"

BalanceInv == ErrorInv /\ BracketsInv /\ Subset2Inv

LEMMA OpenBracketsAreNext == OpenBracketsRead'
BY OpenBracketsAre, PTL

LEMMA ReadClose ==
  ASSUME NEW rest \in Seq(Closers), NEW kind \in CloseDelimiters
  PROVE  Read(kind, rest \o <<kind>>) = rest /\ Closes(rest \o <<kind>>, kind)
<1> DEFINE open == rest \o <<kind>>
<1>1. kind \in Closers /\ <<kind>> \in Seq(Closers)
  <2>1. kind \in Closers
    BY DEF CloseDelimiters, Closers
  <2> QED BY <2>1
<1>2. /\ open \in Seq(Closers) /\ Len(open) = Len(rest) + 1 /\ open[Len(open)] = kind
      /\ Len(rest) \in Nat
  BY <1>1
<1>3. SubSeq(open, 1, Len(open) - 1) = rest
  BY <1>1
<1>4. Read(kind, open) = SubSeq(open, 1, Len(open) - 1)
  BY DEF Read
<1>5. Closes(open, kind)
  <2>1. open # <<>>
    BY <1>2
  <2> QED BY <1>2, <2>1 DEF Closes
<1> QED BY <1>3, <1>4, <1>5

LEMMA BumpEnd ==
  ASSUME ParserInv, Bump
  PROVE  at' = IF current = "R_BRACK2" THEN at + 2 ELSE at + 1
<1>1. SourceTypeOK /\ Extent
  BY DEF ParserInv, SourceInv
<1>2. at' = CurrentEnd + 1
  BY DEF Bump, Advance
<1>3. at \in Nat /\ Len(text) \in Nat
  BY <1>1 DEF SourceTypeOK
<1> QED BY <1>1, <1>2, <1>3 DEF Extent, CurrentEnd

LEMMA ReadOne ==
  ASSUME NEW f, NEW t, Reads(f, t), NEW i \in Nat, NEW rest \in Seq(Closers),
         t[i + 1].kind # "R_BRACK2", f[i] = rest \o Closed(t[i + 1].kind)
  PROVE  /\ f[i + 1] = rest \o Opened(t[i + 1].kind)
         /\ Closes(f[i], t[i + 1].kind)
<1> DEFINE kind == t[i + 1].kind
<1>1. f[i + 1] = Read(kind, f[i])
  BY DEF Reads
<1>2. f[i] = rest \o Closed(kind) /\ kind # "R_BRACK2"
  OBVIOUS
<1> HIDE DEF kind
<1>3. rest \o <<>> = rest
  OBVIOUS
<1>4. CASE kind \in CloseDelimiters
  <2>1. Closed(kind) = <<kind>> /\ Opened(kind) = <<>>
    BY <1>4, OpensAndCloses DEF CloseDelimiters
  <2>2. Read(kind, f[i]) = rest /\ Closes(f[i], kind)
    BY <1>2, <1>4, <2>1, ReadClose
  <2> QED BY <1>1, <1>3, <2>1, <2>2 DEF kind
<1>5. CASE kind \notin CloseDelimiters
  <2>1. Closed(kind) = <<>>
    BY <1>2, <1>5 DEF Closed, CloseDelimiters
  <2>2. f[i] = rest
    BY <1>2, <1>3, <2>1
  <2>3. Read(kind, rest) = rest \o Opened(kind)
    BY <1>5 DEF Read
  <2> QED BY <1>1, <1>5, <2>2, <2>3 DEF kind, Closes
<1> QED BY <1>4, <1>5

LEMMA ReadTwo ==
  ASSUME NEW f, NEW t, Reads(f, t), NEW i \in Nat, NEW rest \in Seq(Closers),
         t[i + 1].kind = "R_BRACK", t[i + 2].kind = "R_BRACK",
         f[i] = rest \o <<"R_BRACK", "R_BRACK">>
  PROVE  /\ f[i + 2] = rest
         /\ Closes(f[i], t[i + 1].kind) /\ Closes(f[i + 1], t[i + 2].kind)
<1> DEFINE one == rest \o <<"R_BRACK">>  two == one \o <<"R_BRACK">>
<1>1. <<"R_BRACK">> \in Seq(Closers) /\ "R_BRACK" \in CloseDelimiters
  BY DEF Closers, CloseDelimiters
<1>2. one \in Seq(Closers) /\ f[i] = two
  BY <1>1
<1>3. Read("R_BRACK", one) = rest /\ Closes(one, "R_BRACK")
  BY <1>1, ReadClose
<1> HIDE DEF one
<1>4. Read("R_BRACK", two) = one /\ Closes(two, "R_BRACK")
  BY <1>1, <1>2, ReadClose
<1> HIDE DEF two
<1>5. f[i + 1] = Read(t[i + 1].kind, f[i])
  BY DEF Reads
<1>6. f[i + 2] = Read(t[i + 2].kind, f[i + 1])
  <2>1. i + 1 \in Nat /\ i + 1 + 1 = i + 2
    OBVIOUS
  <2> QED BY <2>1 DEF Reads
<1>7. f[i + 1] = one
  BY <1>2, <1>4, <1>5
<1> QED BY <1>2, <1>3, <1>4, <1>6, <1>7

\* What was open before the current token, and before those behind it, still is.
LEMMA SameBehind ==
  ASSUME ErrorInv, TextStep
  PROVE  \A i \in 0 .. at : OpenBrackets'[i] = OpenBrackets[i]
<1>1. PICK f, t : f = OpenBrackets' /\ t = text'
  OBVIOUS
<1>2. Reads(f, t)
  BY <1>1, OpenBracketsAreNext DEF OpenBracketsRead
<1>3. at \in Nat
  BY ErrorFacts
<1>4. \A i \in 1 .. at : text[i].kind = t[i].kind
  BY <1>1 DEF TextStep
<1>5. \A i \in 0 .. at : OpenBrackets[i] = f[i]
  BY <1>2, <1>3, <1>4, OpenBracketsAre, SameTokens DEF OpenBracketsRead
<1> QED BY <1>1, <1>5

\* What is current is consumed: the tokens it is made of are read.
LEMMA BumpReads ==
  ASSUME ErrorInv, TextStep, Bump, NEW rest \in Seq(Closers),
         OpenBrackets[at - 1] = rest \o Closed(current)
  PROVE  /\ OpenBrackets'[at' - 1] = rest \o Opened(current)
         /\ \A i \in 1 .. at' - 1 :
              i >= at => Closes(OpenBrackets'[i - 1], text'[i].kind)
<1>1. PICK k \in Nat : at = k + 1
  <2>1. at \in Nat /\ at >= 1
    BY ErrorFacts
  <2>2. at - 1 \in Nat /\ at = at - 1 + 1
    BY <2>1
  <2> QED BY <2>2
<1>2. PICK f, t : f = OpenBrackets' /\ t = text'
  OBVIOUS
<1>3. Reads(f, t)
  BY <1>2, OpenBracketsAreNext DEF OpenBracketsRead
<1>4. f[k] = rest \o Closed(current)
  <2>1. at - 1 = k /\ k \in 0 .. at
    BY <1>1
  <2>2. f[k] = OpenBrackets[k]
    BY <1>2, <2>1, SameBehind
  <2> QED BY <2>1, <2>2
<1>5. CASE current = "R_BRACK2"
  <2>1. at' = k + 3
    BY <1>1, <1>5, BumpEnd DEF ErrorInv
  <2>2. t[k + 1].kind = "R_BRACK" /\ t[k + 2].kind = "R_BRACK"
    <3>1. k + 1 \in at .. at' - 1 /\ k + 2 \in at .. at' - 1
      BY <1>1, <2>1
    <3> QED BY <1>2, <1>5, <3>1 DEF TextStep
  <2>3. f[k] = rest \o <<"R_BRACK", "R_BRACK">> /\ rest \o Opened(current) = rest
    <3>1. Opened(current) = <<>> /\ Closed(current) = <<"R_BRACK", "R_BRACK">>
      BY <1>5, OpensAndCloses
    <3>2. rest \o <<>> = rest
      OBVIOUS
    <3> QED BY <1>4, <3>1, <3>2
  <2>4. /\ f[k + 2] = rest
        /\ Closes(f[k], t[k + 1].kind) /\ Closes(f[k + 1], t[k + 2].kind)
    BY <1>3, <2>2, <2>3, ReadTwo
  <2>5. ASSUME NEW i \in 1 .. at' - 1, i >= at PROVE Closes(f[i - 1], t[i].kind)
    <3>1. i = k + 1 \/ i = k + 2
      BY <1>1, <2>1, <2>5
    <3>2. CASE i = k + 1
      <4>1. i - 1 = k
        BY <3>2
      <4> QED BY <2>4, <3>2, <4>1
    <3>3. CASE i = k + 2
      <4>1. i - 1 = k + 1
        BY <3>3
      <4> QED BY <2>4, <3>3, <4>1
    <3> QED BY <3>1, <3>2, <3>3
  <2>6. at' - 1 = k + 2
    BY <2>1
  <2> QED BY <1>2, <2>3, <2>4, <2>5, <2>6
<1>6. CASE current # "R_BRACK2"
  <2>1. at' = k + 2
    BY <1>1, <1>6, BumpEnd DEF ErrorInv
  <2>2. t[k + 1].kind = current
    <3>1. k + 1 \in at .. at' - 1
      BY <1>1, <2>1
    <3> QED BY <1>2, <1>6, <3>1 DEF TextStep
  <2>3. f[k + 1] = rest \o Opened(current) /\ Closes(f[k], t[k + 1].kind)
    BY <1>3, <1>4, <1>6, <2>2, ReadOne
  <2>4. ASSUME NEW i \in 1 .. at' - 1, i >= at PROVE Closes(f[i - 1], t[i].kind)
    <3>1. i = k + 1 /\ i - 1 = k
      BY <1>1, <2>1, <2>4
    <3> QED BY <2>3, <3>1
  <2>5. at' - 1 = k + 1
    BY <2>1
  <2> QED BY <1>2, <2>3, <2>4, <2>5
<1> QED BY <1>5, <1>6

LEMMA BalanceInitInv == ParserInit => BalanceInv
<1> SUFFICES ASSUME ParserInit PROVE BalanceInv
  OBVIOUS
<1>1. stack = <<Call("Root", 1)>> /\ nodes = {} /\ at = 1
  BY DEF ParserInit, SourceInit
<1>2. OpenBrackets[at - 1] = <<>>
  BY <1>1, OpenBracketsAre DEF OpenBracketsRead, Reads
<1>3. Owes(stack, <<>>)
  <2> DEFINE root == Call("Root", 1)
  <2>1. root \in Frame /\ root.fn = "Root" /\ <<>> \in Seq(Frame) /\ <<>> \in Seq(Closers)
    BY FrameTypes, FunctionsAre
  <2>2. Owed(root) = <<>>
    <3>1. "Root" \notin Bracketing
      BY DEF Bracketing
    <3> QED BY <2>1, <3>1, OwedTyped
  <2> HIDE DEF root
  <2>3. Owes(<<>>, <<>>)
    <3> DEFINE sum == [i \in {0} |-> <<>>]
    <3>1. sum[0] = <<>> /\ Len(<<>>) = 0
      OBVIOUS
    <3> HIDE DEF sum
    <3>2. Sums(sum, <<>>)
      BY <3>1 DEF Sums
    <3> QED BY <2>1, <3>1, <3>2 DEF Owes
  <2>4. Owes(Append(<<>>, root), <<>> \o Owed(root))
    BY <2>1, <2>3, OwesPush
  <2>5. Append(<<>>, root) = <<root>> /\ <<>> \o <<>> = <<>>
    OBVIOUS
  <2> QED BY <1>1, <2>2, <2>4, <2>5 DEF root
<1>4. BracketsInv
  BY <1>1, <1>2, <1>3 DEF BracketsInv
<1>5. Subset2Inv
  BY <1>1 DEF Subset2Inv, NodesOf
<1> QED BY <1>4, <1>5, ErrorInitInv DEF BalanceInv

\* What is behind the current token does not change.
LEMMA ClosesKept ==
  ASSUME ErrorInv, TextStep, NEW i \in 1 .. at - 1, Closes(OpenBrackets[i - 1], text[i].kind)
  PROVE  Closes(OpenBrackets'[i - 1], text'[i].kind)
<1>1. at \in Nat /\ i - 1 \in 0 .. at /\ i \in 1 .. at
  BY ErrorFacts
<1>2. OpenBrackets'[i - 1] = OpenBrackets[i - 1]
  BY <1>1, SameBehind
<1>3. text'[i] = text[i]
  BY <1>1 DEF TextStep
<1> QED BY <1>2, <1>3

LEMMA BracketsNext ==
  ASSUME ErrorInv, BracketsInv, TextStep, BalancedStep
  PROVE  BracketsInv'
<1> SUFFICES ASSUME diagnostics' = <<>>
             PROVE  /\ Owes(stack', OpenBrackets'[at' - 1])
                    /\ \A i \in 1 .. at' - 1 : Closes(OpenBrackets'[i - 1], text'[i].kind)
  BY DEF BracketsInv
<1>1. PICK end \in Nat : end = at'
  BY DEF TextStep
<1>2. at \in Nat /\ at >= 1
  BY ErrorFacts
<1>3. CASE diagnostics' = diagnostics /\ at' = at /\ Pays(stack', <<>>, <<>>)
  <2>1. /\ Owes(stack, OpenBrackets[at - 1])
        /\ \A i \in 1 .. at - 1 : Closes(OpenBrackets[i - 1], text[i].kind)
    BY <1>3 DEF BracketsInv
  <2>2. PICK rest \in Seq(Closers) :
          OpenBrackets[at - 1] = rest \o <<>> /\ Owes(stack', rest \o <<>>)
    BY <1>3, <2>1 DEF Pays
  <2>3. Owes(stack', OpenBrackets[at - 1])
    BY <2>2
  <2>4. OpenBrackets'[at - 1] = OpenBrackets[at - 1]
    <3>1. at - 1 \in 0 .. at
      BY <1>2
    <3> QED BY <3>1, SameBehind
  <2>5. \A i \in 1 .. at - 1 : Closes(OpenBrackets'[i - 1], text'[i].kind)
    BY <2>1, ClosesKept
  <2> QED BY <1>3, <2>3, <2>4, <2>5
<1>4. CASE diagnostics' = diagnostics /\ Bump /\ Pays(stack', Closed(current), Opened(current))
  <2>1. /\ Owes(stack, OpenBrackets[at - 1])
        /\ \A i \in 1 .. at - 1 : Closes(OpenBrackets[i - 1], text[i].kind)
    BY <1>4 DEF BracketsInv
  <2>2. PICK rest \in Seq(Closers) :
          /\ OpenBrackets[at - 1] = rest \o Closed(current)
          /\ Owes(stack', rest \o Opened(current))
    BY <1>4, <2>1 DEF Pays
  <2>3. Bump
    BY <1>4, Zenon
  <2>4. /\ OpenBrackets'[at' - 1] = rest \o Opened(current)
        /\ \A i \in 1 .. at' - 1 : i >= at => Closes(OpenBrackets'[i - 1], text'[i].kind)
    BY <2>2, <2>3, BumpReads
  <2>5. ASSUME NEW i \in 1 .. at' - 1 PROVE Closes(OpenBrackets'[i - 1], text'[i].kind)
    <3>1. CASE i >= at
      BY <2>4, <3>1
    <3>2. CASE ~(i >= at)
      <4>1. i \in 1 .. at - 1
        BY <1>1, <1>2, <2>5, <3>2
      <4> QED BY <2>1, <4>1, ClosesKept
    <3> QED BY <3>1, <3>2
  <2> QED BY <2>2, <2>4, <2>5
<1> QED BY <1>3, <1>4 DEF BalancedStep

LEMMA Subset2Next ==
  ASSUME ErrorInv, Subset2Inv, TextStep,
         \A n \in nodes' \ nodes : n.kind = "R_SUBSET2" =>
           n.last \in 1 .. at' - 1 /\ text'[n.last].gap = "Tight"
  PROVE  Subset2Inv'
<1> SUFFICES ASSUME NEW n \in nodes', n.kind = "R_SUBSET2"
             PROVE  n.last \in 1 .. at' - 1 /\ text'[n.last].gap = "Tight"
  BY DEF Subset2Inv, NodesOf
<1>1. CASE n \notin nodes
  BY <1>1
<1>2. CASE n \in nodes
  <2>1. n.last \in 1 .. at - 1 /\ text[n.last].gap = "Tight"
    BY <1>2 DEF Subset2Inv, NodesOf
  <2>2. PICK end \in Nat : end = at' /\ at <= end
    BY DEF TextStep
  <2>3. at \in Nat
    BY ErrorFacts
  <2>4. n.last \in 1 .. at /\ n.last \in 1 .. end - 1
    BY <2>1, <2>2, <2>3
  <2>5. text'[n.last] = text[n.last]
    BY <2>4 DEF TextStep
  <2> QED BY <2>1, <2>2, <2>4, <2>5
<1> QED BY <1>1, <1>2

LEMMA IfStepBalanced ==
  ASSUME ParserInv, IfStep
  PROVE  /\ BalancedStep
         /\ \A n \in nodes' \ nodes : n.kind # "R_SUBSET2"
<1> USE DEF Continue, Goto, Return, Yield
<1>0. at \in Nat /\ stack \in Seq(Frame) /\ Keeps(stack) /\ {"If", "Else"} \subseteq Functions
  BY InvFacts, StackFacts, FunctionsAre
<1>1. \A fn \in {"If", "Else"} : Call(fn, at) \in Frame /\ Owed(Call(fn, at)) = <<>>
  <2> SUFFICES ASSUME NEW fn \in {"If", "Else"}
               PROVE  Call(fn, at) \in Frame /\ Owed(Call(fn, at)) = <<>>
    OBVIOUS
  <2>1. Call(fn, at) \in Frame /\ Call(fn, at).fn = fn /\ fn \notin Bracketing
    BY <1>0, FrameTypes DEF Bracketing
  <2> QED BY <2>1, OwedTyped
<1>2. ASSUME NEW fn \in {"If", "Else"}
      PROVE  /\ Append(stack, Call(fn, at)) \in Seq(Frame)
             /\ Pays(Append(stack, Call(fn, at)), <<>>, <<>>)
  <2>1. Call(fn, at) \in Frame /\ Owed(Call(fn, at)) = <<>>
    BY <1>1
  <2>2. Pays(Append(stack, Call(fn, at)), <<>>, Owed(Call(fn, at)))
    BY <1>0, <2>1, PaysPush DEF Keeps
  <2> QED BY <1>0, <2>1, <2>2
<1>3. CASE BeginsIf
  <2>1. Consume({}) /\ current = "IF_KW" /\ stack' = Append(stack, Call("If", at))
    BY <1>3 DEF BeginsIf, ParseConstruct
  <2>2. Bump /\ diagnostics' = diagnostics /\ nodes' = nodes
    BY <2>1 DEF Consume
  <2>3. Pays(stack', Closed(current), Opened(current))
    BY <1>2, <2>1, NoBracket DEF Brackets
  <2> QED BY <2>2, <2>3 DEF BalancedStep
<1>4. CASE ParseElse
  <2>1. /\ Consume({}) /\ current = "IDENT_else"
        /\ stack' = stack \o <<Call("Else", at), Expression(IF_BODY_BP)>>
    BY <1>4 DEF ParseElse, ElseAllowed
  <2>2. Bump /\ diagnostics' = diagnostics /\ nodes' = nodes
    BY <2>1 DEF Consume
  <2>3. stack' = Append(Append(stack, Call("Else", at)), Expression(IF_BODY_BP))
    BY <1>0, <2>1, TwoPushed
  <2>4. Expression(IF_BODY_BP) \in CalmFrames /\ Expression(IF_BODY_BP) \in Frame
    BY CalmFramesAre, PowerTypes
  <2>5. <<>> \in Seq(Closers)
    OBVIOUS
  <2>6. Pays(stack', <<>>, <<>>)
    BY <1>2, <2>3, <2>4, <2>5, PaysPushCalm
  <2>7. Pays(stack', Closed(current), Opened(current))
    BY <2>1, <2>6, NoBracket DEF Brackets
  <2> QED BY <2>2, <2>7 DEF BalancedStep
<1>5. CASE IfParsed
  <2>1. Complete({NodeBefore("R_IF_STATEMENT", Top.from)}) /\ stack' = Below /\ Top.fn = "If"
    BY <1>5 DEF IfParsed, Returned
  <2>2. Keeps(stack')
    BY <2>1, KeepsBelow DEF Bracketing
  <2> QED BY <2>1, <2>2 DEF BalancedStep, Complete, sourceVars, Keeps, NodeBefore, NodeOver
<1>6. CASE IfElseParsed
  <2>1. /\ Complete({NodeBefore("R_ELSE_CLAUSE", Top.from),
                     NodeBefore("R_IF_STATEMENT", Under.from)})
        /\ stack' = BelowTwo /\ Top.fn = "Else"
    BY <1>6 DEF IfElseParsed, Returned, BelowTwo
  <2>2. Under.fn = "If"
    BY <2>1, UnderFacts, CallersAre
  <2>3. Keeps(stack')
    BY <2>1, <2>2, KeepsBelowTwo DEF Bracketing
  <2> QED BY <2>1, <2>3 DEF BalancedStep, Complete, sourceVars, Keeps, NodeBefore, NodeOver
<1> QED BY <1>3, <1>4, <1>5, <1>6 DEF IfStep

LEMMA StepIsSteady ==
  ASSUME ErrorInv, ParserNext
  PROVE  SteadyStep \/ IfStep \/ UNCHANGED vars
<1>1. ParserInv
  BY DEF ErrorInv
<1>2. Propagate \/ GrammarMod => SteadyStep
  BY PropagateSteady, ModSteady
<1>3. GrammarExpressions => SteadyStep \/ IfStep
  BY <1>1, ExpressionsSteady DEF IfStep
<1>4. GrammarControl => SteadyStep \/ IfStep
  BY <1>1, ControlSteady DEF IfStep
<1>5. GrammarFunctions \/ GrammarCalls => SteadyStep
  BY <1>1, FunctionsSteady, CallsSteady
<1> QED BY <1>2, <1>3, <1>4, <1>5 DEF ParserNext, Finished

LEMMA BalanceNextInv == BalanceInv /\ [ParserNext]_vars => BalanceInv'
<1> SUFFICES ASSUME BalanceInv, [ParserNext]_vars PROVE BalanceInv'
  OBVIOUS
<1>1. ErrorInv /\ ErrorInv' /\ BracketsInv /\ Subset2Inv
  BY ErrorNextInv DEF BalanceInv
<1>2. TextStep
  BY <1>1, ErrorFacts, StepIsSourceStep, SourceText DEF ErrorInv
<1>3. CASE SteadyStep
  <2>1. BracketsInv'
    BY <1>1, <1>2, <1>3, BracketsNext DEF SteadyStep
  <2>2. \A n \in nodes' \ nodes : n.kind = "R_SUBSET2" =>
          n.last \in 1 .. at' - 1 /\ text'[n.last].gap = "Tight"
    BY <1>3 DEF SteadyStep, SteadyNodes, SteadyNode
  <2>3. Subset2Inv'
    BY <1>1, <1>2, <2>2, Subset2Next
  <2> QED BY <1>1, <2>1, <2>3 DEF BalanceInv
<1>4. CASE IfStep
  <2>1. BalancedStep /\ \A n \in nodes' \ nodes : n.kind # "R_SUBSET2"
    BY <1>1, <1>4, IfStepBalanced DEF ErrorInv
  <2>2. BracketsInv'
    BY <1>1, <1>2, <2>1, BracketsNext
  <2>3. Subset2Inv'
    BY <1>1, <1>2, <2>1, Subset2Next
  <2> QED BY <1>1, <2>2, <2>3 DEF BalanceInv
<1>5. CASE UNCHANGED vars
  <2>1. UNCHANGED <<text, at, stack, diagnostics, nodes>>
    BY <1>5 DEF vars, sourceVars, parserVars
  <2>2. diagnostics' # <<>> \/ (diagnostics' = diagnostics /\ at' = at /\ Pays(stack', <<>>, <<>>))
    BY <1>1, <2>1, StackFacts DEF ErrorInv, Keeps
  <2>3. BalancedStep
    BY <2>2 DEF BalancedStep
  <2>4. BracketsInv'
    BY <1>1, <1>2, <2>3, BracketsNext
  <2>5. Subset2Inv'
    BY <1>1, <1>2, <2>1, Subset2Next
  <2> QED BY <1>1, <2>4, <2>5 DEF BalanceInv
<1> QED BY <1>1, <1>3, <1>4, <1>5, StepIsSteady

THEOREM BalanceInvariant == ParserSpec => []BalanceInv
<1> QED BY BalanceInitInv, BalanceNextInv, PTL DEF ParserSpec

LEMMA StackAtEnd ==
  ASSUME ParserInv, pc = "Done"
  PROVE  OpenIn(stack, Len(stack)) = {}
<1>1. Top.fn = "Root" /\ Top = stack[Len(stack)] /\ Chain(stack) /\ Len(stack) \in Nat \ {0}
  BY TopAt, InvFacts DEF Top
<1>2. Callers["Root"] = {}
  BY FunctionsAre DEF Callers
<1>3. Len(stack) = 1
  <2>1. SUFFICES ASSUME Len(stack) # 1 PROVE FALSE
    OBVIOUS
  <2>2. Len(stack) \in 2 .. Len(stack)
    <3>1. PICK n \in Nat \ {0} : n = Len(stack)
      BY <1>1
    <3>2. n \in 2 .. n
      BY <2>1, <3>1
    <3> QED BY <3>1, <3>2
  <2>3. stack[Len(stack) - 1].fn \in Callers[stack[Len(stack)].fn]
    BY <1>1, <2>2 DEF Chain
  <2> QED BY <1>1, <1>2, <2>3
<1> QED BY <1>1, <1>3 DEF OpenIn, Bracketing

\* For every text that the parser accepts without an error, each close delimiter
\* closes the innermost bracket open at it, no bracket is left open, and the two
\* `]' that close a `[[' are next to each other.
THEOREM BracketsAreBalanced == ParserSpec => []BracketsBalance
<1>1. BalanceInv => BracketsBalance
  <2> SUFFICES ASSUME BalanceInv, Done, diagnostics = <<>> PROVE BracketsBalance
    BY DEF BracketsBalance
  <2>1. /\ ParserInv /\ Owes(stack, OpenBrackets[at - 1]) /\ stack \in Seq(Frame)
        /\ \A i \in 1 .. at - 1 : Closes(OpenBrackets[i - 1], text[i].kind)
    BY ErrorFacts DEF BalanceInv, BracketsInv
  <2>2. OpenBrackets[at - 1] = <<>>
    BY <2>1, StackAtEnd, OwesNothing DEF Done
  <2>3. ASSUME NEW i \in Tokens, text[i].kind \in {"R_CURLY", "R_PAREN", "R_BRACK"}
        PROVE  Innermost(i) = text[i].kind
    BY <2>1, <2>3 DEF Tokens, Closes, CloseDelimiters, Innermost
  <2>4. \A n \in NodesOf({"R_SUBSET2"}) : text[n.last].gap = "Tight"
    BY DEF BalanceInv, Subset2Inv
  <2> QED BY <2>2, <2>3, <2>4 DEF BracketsBalance
<1> QED BY <1>1, BalanceInvariant, PTL

-----------------------------------------------------------------------------
(* `if' and `else' *)

Ifs == NodesOf({"R_IF_STATEMENT"})

\* An `else' at token i belongs to an `if' that ends before it.
MayTake(i) == /\ ~HasSemicolon(text[i].gap)
              /\ HasNewline(text[i].gap) => OpenBrackets[i - 1] # <<>>

\* Token k is behind, and it was rightly taken for the `else' of an `if' that
\* was waiting for it: those that end before it have theirs.
TakesElse(k) ==
  /\ k \in 1 .. at - 1
  /\ diagnostics = <<>> => MayTake(k)
  /\ \A n \in Ifs : n.last = k - 1 => HasElse(n)

ElsesTaken == \A e \in NodesOf({"R_ELSE_CLAUSE"}) : TakesElse(e.first)

\* The functions that wait for a condition, or for a body, have consumed their
\* keyword.
IfFrames ==
  \A i \in 1 .. Len(stack) :
    /\ stack[i].fn = "If" => stack[i].from < at
    /\ stack[i].fn = "Else" =>
         i > 1 /\ stack[i - 1].from < stack[i].from /\ TakesElse(stack[i].from)

\* What an `if' without an `else' left behind was not for it to take.
IfNodes ==
  \A n \in Ifs :
    /\ n.last < at
    /\ diagnostics = <<>> /\ text[n.last + 1].kind = "IDENT_else" /\ ~HasElse(n) =>
         ~MayTake(n.last + 1)

\* When an `if' has been parsed, the `else' behind it, which it refused, is not
\* for an `if' around it either.
NoElseHere == Quiet => \A n \in Ifs : n.last = at - 1 => HasElse(n) \/ ~ElseAllowed

\* No statement was begun between an operand and an `else'.
ElseNotBlessed == Quiet /\ current = "IDENT_else" => at \notin blessed

ElseInv == BalanceInv /\ ElsesTaken /\ IfFrames /\ IfNodes /\ NoElseHere /\ ElseNotBlessed

LEMMA ElseInitInv == ParserInit => ElseInv
<1> SUFFICES ASSUME ParserInit PROVE ElseInv
  OBVIOUS
<1>1. /\ stack = <<Call("Root", 1)>> /\ nodes = {} /\ blessed = {}
  BY DEF ParserInit, SourceInit
<1>2. ElsesTaken /\ IfNodes /\ NoElseHere
  BY <1>1 DEF ElsesTaken, IfNodes, NoElseHere, Ifs, NodesOf
<1>3. IfFrames
  BY <1>1 DEF IfFrames, Call
<1>4. ElseNotBlessed
  BY <1>1 DEF ElseNotBlessed
<1> QED BY <1>2, <1>3, <1>4, BalanceInitInv DEF ElseInv

\* Brackets are open on the stack just if they are open in the text.
LEMMA InsideIsOpen ==
  ASSUME BalanceInv, diagnostics = <<>>
  PROVE  InsideBrackets <=> OpenBrackets[at - 1] # <<>>
<1> DEFINE open == OpenIn(stack, Len(stack))
<1>1. /\ ParserInv /\ Owes(stack, OpenBrackets[at - 1]) /\ stack \in Seq(Frame)
      /\ Len(stack) \in Nat
  BY ErrorFacts DEF BalanceInv, BracketsInv
<1>2. OpenBrackets[at - 1] = <<>> <=> open = {}
  BY <1>1, OwesNothing
<1>3. Len(significance) = 1 + Cardinality(open)
  BY <1>1, InvFacts DEF Running, Belongs
<1>4. IsFiniteSet(open) /\ Cardinality(open) \in Nat
  <2>1. Len(stack) \in 0 .. Len(stack)
    BY <1>1
  <2> QED BY <1>1, <2>1, OpenCount
<1> HIDE DEF open
<1>5. Cardinality(open) = 0 <=> open = {}
  BY <1>4, FS_EmptySet
<1> QED BY <1>2, <1>3, <1>4, <1>5 DEF InsideBrackets

\* Whether an `else' is taken is what the text says.
LEMMA ElseIsAllowed ==
  ASSUME BalanceInv, ElseNotBlessed, Quiet, diagnostics = <<>>, current = "IDENT_else"
  PROVE  ElseAllowed <=> MayTake(at)
<1>1. SourceInv
  BY ErrorFacts DEF BalanceInv
<1>2. at \in Nat \ {0} /\ at \notin blessed
  BY ErrorFacts DEF BalanceInv, ElseNotBlessed
<1>3. gapSemicolons <=> HasSemicolon(text[at].gap)
  BY <1>1, <1>2 DEF SourceInv, PendingIsCurrent
<1>4. InsideBrackets <=> OpenBrackets[at - 1] # <<>>
  BY InsideIsOpen
<1> HIDE DEF InsideBrackets
<1> QED BY <1>3, <1>4, Zenon DEF ElseAllowed, MayTake, HasPrecedingSeparator, GapNewlines

LEMMA ElseIsCurrent ==
  ASSUME CurrentIsLexed
  PROVE  text[at].kind = "IDENT_else" => current = "IDENT_else"
  BY DEF CurrentIsLexed

\* What is said of a token behind, or of the current one, stays true.
LEMMA MayTakeKept ==
  ASSUME ErrorInv, TextStep, NEW i \in 1 .. at
  PROVE  MayTake(i)' <=> MayTake(i)
<1>1. at \in Nat /\ i - 1 \in 0 .. at
  BY ErrorFacts
<1>2. OpenBrackets'[i - 1] = OpenBrackets[i - 1]
  BY <1>1, SameBehind
<1>3. text'[i] = text[i]
  BY DEF TextStep
<1> QED BY <1>2, <1>3 DEF MayTake

LEMMA HasElseKept ==
  ASSUME nodes \subseteq nodes', NEW n, HasElse(n)
  PROVE  HasElse(n)'
  BY DEF HasElse, NodesOf

\* Steps lose no node and no error, and an `if' is completed before a token.
ElseStep ==
  /\ nodes \subseteq nodes'
  /\ \A n \in nodes' \ nodes : n.kind = "R_IF_STATEMENT" => n.last = at - 1 /\ at' = at
  /\ diagnostics' = <<>> => diagnostics = <<>>

LEMMA TakesElseKept ==
  ASSUME ErrorInv, IfNodes, TextStep, ElseStep, NEW k, TakesElse(k)
  PROVE  TakesElse(k)'
<1>1. PICK end \in Nat : end = at'
  BY DEF TextStep
<1>2. at \in Nat /\ k \in 1 .. at - 1 /\ at <= end
  BY <1>1, ErrorFacts DEF TakesElse, TextStep
<1>3. k \in 1 .. end - 1 /\ k \in 1 .. at /\ k - 1 # at - 1
  BY <1>2
<1>4. diagnostics' = <<>> => MayTake(k)'
  BY <1>3, MayTakeKept DEF TakesElse, ElseStep
<1>5. ASSUME NEW n \in Ifs', n.last = k - 1 PROVE HasElse(n)'
  <2>1. n \in nodes' /\ n.kind = "R_IF_STATEMENT"
    BY DEF Ifs, NodesOf
  <2>2. n \in nodes
    BY <1>3, <1>5, <2>1 DEF ElseStep
  <2>3. HasElse(n)
    BY <1>5, <2>1, <2>2 DEF TakesElse, Ifs, NodesOf
  <2> QED BY <2>3, HasElseKept DEF ElseStep
<1> QED BY <1>1, <1>3, <1>4, <1>5 DEF TakesElse

LEMMA IfNodesNext ==
  ASSUME ErrorInv, IfNodes, TextStep, ElseStep,
         \A n \in nodes' \ nodes : n.kind = "R_IF_STATEMENT" =>
           (diagnostics' = <<>> /\ text[at].kind = "IDENT_else"
              => HasElse(n)' \/ ~MayTake(at))
  PROVE  IfNodes'
<1> SUFFICES ASSUME NEW n \in nodes', n.kind = "R_IF_STATEMENT"
             PROVE  /\ n.last < at'
                    /\ diagnostics' = <<>> /\ text'[n.last + 1].kind = "IDENT_else"
                         /\ ~HasElse(n)' => ~MayTake(n.last + 1)'
  BY DEF IfNodes, Ifs, NodesOf
<1>1. PICK end \in Nat : end = at' /\ at <= end
  BY DEF TextStep
<1>2. at \in Nat /\ at >= 1 /\ nodes \subseteq Node
  BY ErrorFacts DEF ParserInv
<1>3. CASE n \in nodes
  <2>1. n.last \in Nat /\ n.last < at
    BY <1>2, <1>3 DEF IfNodes, Ifs, NodesOf, Node
  <2>2. PICK j \in 1 .. at : j = n.last + 1
    BY <1>2, <2>1
  <2>3. text'[j] = text[j]
    BY DEF TextStep
  <2>4. MayTake(j)' <=> MayTake(j)
    BY MayTakeKept
  <2>5. diagnostics = <<>> /\ text[j].kind = "IDENT_else" /\ ~HasElse(n) => ~MayTake(j)
    BY <1>3, <2>2 DEF IfNodes, Ifs, NodesOf
  <2>6. diagnostics' = <<>> => diagnostics = <<>>
    BY DEF ElseStep
  <2>7. ~HasElse(n)' => ~HasElse(n)
    BY HasElseKept DEF ElseStep
  <2>8. diagnostics' = <<>> /\ text'[j].kind = "IDENT_else" /\ ~HasElse(n)' => ~MayTake(j)'
    BY <2>3, <2>4, <2>5, <2>6, <2>7
  <2>9. n.last < at'
    BY <1>1, <1>2, <2>1
  <2> QED BY <2>2, <2>8, <2>9
<1>4. CASE n \notin nodes
  <2>1. n.last = at - 1 /\ at' = at
    BY <1>4 DEF ElseStep
  <2>2. n.last + 1 = at /\ n.last < at' /\ at \in 1 .. at
    BY <1>2, <2>1
  <2>3. diagnostics' = <<>> /\ text[at].kind = "IDENT_else" => HasElse(n)' \/ ~MayTake(at)
    BY <1>4
  <2>4. PICK j \in 1 .. at : j = at
    BY <2>2
  <2>5. text'[j] = text[j]
    BY DEF TextStep
  <2>6. MayTake(j)' <=> MayTake(j)
    BY MayTakeKept
  <2>7. diagnostics' = <<>> /\ text[j].kind = "IDENT_else" => HasElse(n)' \/ ~MayTake(j)
    BY <2>3, <2>4
  <2>8. diagnostics' = <<>> /\ text'[j].kind = "IDENT_else" /\ ~HasElse(n)' => ~MayTake(j)'
    BY <2>5, <2>6, <2>7
  <2>9. n.last + 1 = j
    BY <2>2, <2>4
  <2> QED BY <2>2, <2>8, <2>9
<1> QED BY <1>3, <1>4

\* What IfFrames says after a step that leaves the stack t.
FramesNext(t) ==
  \A i \in 1 .. Len(t) :
    /\ t[i].fn = "If" => t[i].from < at'
    /\ t[i].fn = "Else" => i > 1 /\ t[i - 1].from < t[i].from /\ TakesElse(t[i].from)'

LEMMA FramesKept ==
  ASSUME ErrorInv, IfNodes, IfFrames, TextStep, ElseStep, NEW t, Inherits(t)
  PROVE  FramesNext(t)
<1> SUFFICES ASSUME NEW i \in 1 .. Len(t)
             PROVE  /\ t[i].fn = "If" => t[i].from < at'
                    /\ t[i].fn = "Else" =>
                         i > 1 /\ t[i - 1].from < t[i].from /\ TakesElse(t[i].from)'
  BY DEF FramesNext
<1>1. PICK end \in Nat : end = at' /\ at <= end
  BY DEF TextStep
<1>2. at \in Nat /\ stack \in Seq(Frame) /\ Len(stack) \in Nat /\ t \in Seq(Frame)
      /\ Len(t) \in Nat
  BY ErrorFacts DEF Inherits
<1>3. SUFFICES ASSUME t[i].fn \in {"If", "Else"}
               PROVE  /\ t[i].fn = "If" => t[i].from < at'
                      /\ t[i].fn = "Else" =>
                           i > 1 /\ t[i - 1].from < t[i].from /\ TakesElse(t[i].from)'
  BY Zenon
<1>4. i \in 1 .. Len(stack) /\ t[i] = stack[i] /\ (i > 1 => t[i - 1] = stack[i - 1])
  BY <1>2, <1>3 DEF Inherits
<1>5. stack[i].from \in Nat
  <2>1. stack[i] \in Frame
    BY <1>2, <1>4
  <2> QED BY <2>1 DEF Frame
<1>6. ASSUME t[i].fn = "If" PROVE t[i].from < at'
  <2>1. stack[i].from < at
    BY <1>4, <1>6 DEF IfFrames
  <2> QED BY <1>1, <1>2, <1>4, <1>5, <2>1
<1>7. ASSUME t[i].fn = "Else"
      PROVE  i > 1 /\ t[i - 1].from < t[i].from /\ TakesElse(t[i].from)'
  <2>1. i > 1 /\ stack[i - 1].from < stack[i].from /\ TakesElse(stack[i].from)
    BY <1>4, <1>7 DEF IfFrames
  <2>2. PICK k : k = stack[i].from
    OBVIOUS
  <2>3. TakesElse(k)'
    BY <2>1, <2>2, TakesElseKept
  <2> QED BY <1>4, <2>1, <2>2, <2>3
<1> QED BY <1>6, <1>7

LEMMA FramesPush ==
  ASSUME NEW t \in Seq(Frame), FramesNext(t), NEW f,
         f.fn = "If" => f.from < at',
         f.fn = "Else" => Len(t) > 0 /\ t[Len(t)].from < f.from /\ TakesElse(f.from)'
  PROVE  FramesNext(Append(t, f))
<1> DEFINE u == Append(t, f)  n == Len(t)
<1>1. n \in Nat /\ Len(u) = n + 1 /\ u[n + 1] = f /\ \A i \in 1 .. n : u[i] = t[i]
  OBVIOUS
<1> SUFFICES ASSUME NEW i \in 1 .. Len(u)
             PROVE  /\ u[i].fn = "If" => u[i].from < at'
                    /\ u[i].fn = "Else" =>
                         i > 1 /\ u[i - 1].from < u[i].from /\ TakesElse(u[i].from)'
  BY DEF FramesNext
<1> HIDE DEF u
<1>2. CASE i \in 1 .. n
  <2>1. u[i] = t[i] /\ (i > 1 => u[i - 1] = t[i - 1])
    BY <1>1, <1>2
  <2>2. /\ t[i].fn = "If" => t[i].from < at'
        /\ t[i].fn = "Else" => i > 1 /\ t[i - 1].from < t[i].from /\ TakesElse(t[i].from)'
    BY <1>2 DEF FramesNext
  <2> QED BY <2>1, <2>2
<1>3. CASE i = n + 1
  <2>1. u[i] = f /\ i - 1 = n /\ (n > 0 => i > 1 /\ u[n] = t[n])
    BY <1>1, <1>3
  <2> QED BY <2>1
<1> QED BY <1>1, <1>2, <1>3

\* Between an operand and the token behind it nothing happens to an `else'.
LEMMA AwaitingNext ==
  ASSUME ErrorInv, IfNodes, NoElseHere, ElseNotBlessed, TextStep, AwaitingStep,
         nodes \subseteq nodes',
         \A n \in nodes' \ nodes : n.kind = "R_IF_STATEMENT" => HasElse(n)' \/ ~ElseAllowed'
  PROVE  NoElseHere' /\ ElseNotBlessed'
<1>1. PICK end \in Nat : end = at' /\ at <= end /\ (Bump => at < end)
  BY DEF TextStep
<1>2. at \in Nat /\ nodes \subseteq Node
  BY ErrorFacts DEF ParserInv
<1>3. ASSUME Quiet', current' = "IDENT_else" PROVE at' \notin blessed'
  <2>0. current' \notin Closers
    BY <1>3 DEF Closers
  <2>1. CASE Bump
    BY <2>1 DEF TextStep
  <2>2. CASE Quiet /\ UNCHANGED <<sourceVars, significance>>
    <3>1. at' = at /\ current' = current /\ blessed' = blessed
      BY <2>2 DEF sourceVars
    <3> QED BY <1>3, <2>2, <3>1 DEF ElseNotBlessed
  <2> QED BY <1>3, <2>0, <2>1, <2>2 DEF AwaitingStep
<1>4. ASSUME Quiet', NEW n \in nodes', n.kind = "R_IF_STATEMENT", n.last = at' - 1
      PROVE  HasElse(n)' \/ ~ElseAllowed'
  <2>1. SUFFICES ASSUME n \in nodes PROVE HasElse(n)' \/ ~ElseAllowed'
    BY <1>4
  <2>2. n.last \in Nat /\ n.last < at
    BY <1>2, <1>4, <2>1 DEF IfNodes, Ifs, NodesOf, Node
  <2>3. CASE Bump
    <3>1. at < end /\ n.last = end - 1
      BY <1>1, <1>4, <2>3
    <3> QED BY <1>2, <2>2, <3>1
  <2>4. CASE current' \in Closers
    BY <2>4 DEF ElseAllowed, Closers
  <2>5. CASE Quiet /\ UNCHANGED <<sourceVars, significance>>
    <3>1. at' = at
      BY <2>5 DEF sourceVars
    <3>2. HasElse(n) \/ ~ElseAllowed
      BY <1>4, <2>1, <2>5, <3>1 DEF NoElseHere, Ifs, NodesOf
    <3>3. ElseAllowed' <=> ElseAllowed
      <4>1. /\ text' = text /\ at' = at /\ current' = current
            /\ gapSemicolons' = gapSemicolons /\ significance' = significance
        BY <2>5 DEF sourceVars
      <4> QED BY <4>1 DEF ElseAllowed, HasPrecedingSeparator, GapNewlines, InsideBrackets
    <3> QED BY <3>2, <3>3, HasElseKept
  <2> QED BY <1>4, <2>3, <2>4, <2>5 DEF AwaitingStep
<1> QED BY <1>3, <1>4 DEF NoElseHere, ElseNotBlessed, Ifs, NodesOf

LEMMA ElseSteady ==
  ASSUME ElseInv, TextStep, SteadyStep
  PROVE  ElsesTaken' /\ IfFrames' /\ IfNodes' /\ NoElseHere' /\ ElseNotBlessed'
<1>1. /\ ErrorInv /\ ElsesTaken /\ IfFrames /\ IfNodes /\ NoElseHere /\ ElseNotBlessed
  BY DEF ElseInv, BalanceInv
<1>2. /\ nodes \subseteq nodes' /\ AwaitingStep /\ Inherits(stack')
      /\ \A n \in nodes' \ nodes : n.kind \notin {"R_IF_STATEMENT", "R_ELSE_CLAUSE"}
  BY DEF SteadyStep, SteadyNodes, SteadyNode
<1>3. diagnostics' = <<>> => diagnostics = <<>>
  BY DEF SteadyStep, BalancedStep
<1>4. ElseStep
  BY <1>2, <1>3 DEF ElseStep
<1>5. ElsesTaken'
  <2> SUFFICES ASSUME NEW e \in nodes', e.kind = "R_ELSE_CLAUSE" PROVE TakesElse(e.first)'
    BY DEF ElsesTaken, NodesOf
  <2>1. TakesElse(e.first)
    BY <1>1, <1>2 DEF ElsesTaken, NodesOf
  <2> QED BY <1>1, <1>4, <2>1, TakesElseKept
<1>6. IfFrames'
  <2>1. PICK t : t = stack'
    OBVIOUS
  <2>2. FramesNext(t)
    BY <1>1, <1>2, <1>4, <2>1, FramesKept
  <2> QED BY <2>1, <2>2 DEF FramesNext, IfFrames
<1>7. IfNodes'
  BY <1>1, <1>2, <1>4, IfNodesNext
<1>8. NoElseHere' /\ ElseNotBlessed'
  BY <1>1, <1>2, AwaitingNext
<1> QED BY <1>5, <1>6, <1>7, <1>8

\* A keyword is consumed, and the functions it begins are put on the stack.
LEMMA ElseConsumed ==
  ASSUME ElseInv, TextStep, Consume({}), NEW t, stack' = t, FramesNext(t)
  PROVE  ElsesTaken' /\ IfFrames' /\ IfNodes' /\ NoElseHere' /\ ElseNotBlessed'
<1>1. /\ ErrorInv /\ ElsesTaken /\ IfNodes /\ NoElseHere /\ ElseNotBlessed
  BY DEF ElseInv, BalanceInv
<1>2. nodes' = nodes /\ diagnostics' = diagnostics /\ Bump
  BY DEF Consume
<1>3. ElseStep
  BY <1>2 DEF ElseStep
<1>4. ElsesTaken'
  <2> SUFFICES ASSUME NEW e \in nodes', e.kind = "R_ELSE_CLAUSE" PROVE TakesElse(e.first)'
    BY DEF ElsesTaken, NodesOf
  <2>1. TakesElse(e.first)
    BY <1>1, <1>2 DEF ElsesTaken, NodesOf
  <2> QED BY <1>1, <1>3, <2>1, TakesElseKept
<1>5. IfFrames'
  BY DEF FramesNext, IfFrames
<1>6. IfNodes'
  BY <1>1, <1>2, <1>3, IfNodesNext
<1>7. AwaitingStep
  BY <1>2, Zenon DEF AwaitingStep
<1>8. NoElseHere' /\ ElseNotBlessed'
  BY <1>1, <1>2, <1>7, AwaitingNext
<1> QED BY <1>4, <1>5, <1>6, <1>8

LEMMA ElseAtIf ==
  ASSUME ElseInv, TextStep, BeginsIf
  PROVE  ElsesTaken' /\ IfFrames' /\ IfNodes' /\ NoElseHere' /\ ElseNotBlessed'
<1>1. Consume({}) /\ stack' = Append(stack, Call("If", at))
  BY DEF BeginsIf, ParseConstruct, Continue, Goto
<1>2. /\ ErrorInv /\ IfFrames /\ IfNodes /\ stack \in Seq(Frame) /\ ParserInv
  BY ErrorFacts DEF ElseInv, BalanceInv
<1>3. ElseStep
  BY <1>1 DEF Consume, ElseStep
<1>4. PICK s, f : s = stack /\ f = Call("If", at)
  OBVIOUS
<1>5. FramesNext(s) /\ s \in Seq(Frame)
  BY <1>2, <1>3, <1>4, StackFacts, FramesKept DEF Keeps
<1>6. f.fn = "If" /\ f.from = at
  BY <1>4 DEF Call
<1>7. f.from < at'
  BY <1>1, <1>6 DEF Consume, TextStep
<1>8. FramesNext(Append(s, f))
  BY <1>5, <1>6, <1>7, FramesPush
<1> QED BY <1>1, <1>4, <1>8, ElseConsumed

LEMMA ElseAtElse ==
  ASSUME ElseInv, TextStep, ParseElse
  PROVE  ElsesTaken' /\ IfFrames' /\ IfNodes' /\ NoElseHere' /\ ElseNotBlessed'
<1>0. PICK s, k, f, g :
        s = stack /\ k = at /\ f = Call("Else", k) /\ g = Expression(IF_BODY_BP)
  OBVIOUS
<1>1. /\ Consume({}) /\ stack' = s \o <<f, g>> /\ ElseAllowed /\ current = "IDENT_else"
      /\ pc = "Return" /\ Top.fn = "If"
  BY <1>0 DEF ParseElse, ElseAllowed, Returned, Continue, Goto
<1>2. /\ ErrorInv /\ IfFrames /\ IfNodes /\ NoElseHere /\ ElseNotBlessed /\ BalanceInv
      /\ stack \in Seq(Frame) /\ ParserInv /\ Top = stack[Len(stack)] /\ Len(stack) \in Nat
      /\ Len(stack) > 0 /\ at \in Nat /\ at >= 1
  BY ErrorFacts DEF ElseInv, BalanceInv
<1>3. ElseStep /\ Bump /\ diagnostics' = diagnostics /\ nodes' = nodes
  BY <1>1 DEF Consume, ElseStep
<1>4. FramesNext(s) /\ s \in Seq(Frame) /\ Len(s) > 0
  BY <1>0, <1>2, <1>3, StackFacts, FramesKept DEF Keeps
<1>5. f.fn = "Else" /\ f.from = k /\ g.fn = "Expression" /\ f \in Frame
  <2>1. "Else" \in Functions /\ k \in Nat
    BY <1>0, <1>2, FunctionsAre
  <2>2. f \in Frame
    BY <1>0, <2>1, FrameTypes
  <2> QED BY <1>0, <2>2 DEF Call, Expression
<1>6. Quiet
  BY <1>1 DEF Quiet
<1>7. TakesElse(k)'
  <2>1. PICK end \in Nat : end = at'
    BY DEF TextStep
  <2>2. at < end
    BY <1>3, <2>1 DEF TextStep
  <2>3. k \in 1 .. at /\ k = at
    BY <1>0, <1>2
  <2>4. k \in 1 .. end - 1
    BY <1>2, <2>2, <2>3
  <2>5. diagnostics' = <<>> => MayTake(k)'
    <3>1. diagnostics = <<>> => MayTake(k)
      BY <1>1, <1>2, <1>6, <2>3, ElseIsAllowed
    <3>2. MayTake(k)' <=> MayTake(k)
      BY <1>2, <2>3, MayTakeKept
    <3> QED BY <1>3, <3>1, <3>2
  <2>6. ASSUME NEW n \in Ifs', n.last = k - 1 PROVE HasElse(n)'
    <3>1. n \in Ifs
      BY <1>3 DEF Ifs, NodesOf
    <3>2. HasElse(n)
      BY <1>1, <1>2, <1>6, <2>3, <2>6, <3>1 DEF NoElseHere
    <3> QED BY <1>3, <3>2, HasElseKept
  <2> QED BY <2>1, <2>4, <2>5, <2>6 DEF TakesElse
<1>8. s[Len(s)].from < k
  <2>1. Len(stack) \in 1 .. Len(stack)
    BY <1>2
  <2> QED BY <1>0, <1>1, <1>2, <2>1 DEF IfFrames
<1>9. stack' = Append(Append(s, f), g)
  BY <1>0, <1>1, <1>2, InvFacts, TwoPushed
<1>10. TakesElse(f.from)'
  BY <1>5, <1>7
<1>11. FramesNext(Append(s, f))
  BY <1>4, <1>5, <1>8, <1>10, FramesPush
<1>12. FramesNext(Append(Append(s, f), g))
  <2>1. Append(s, f) \in Seq(Frame) /\ g.fn \notin {"If", "Else"}
    BY <1>4, <1>5
  <2> QED BY <1>11, <2>1, FramesPush
<1> QED BY <1>1, <1>9, <1>12, ElseConsumed

\* An `if' is completed, with the nodes `completed', before the current token.
LEMMA ElseCompleted ==
  ASSUME ElseInv, TextStep, NEW completed, Complete(completed), Inherits(stack'),
         pc = "Return", significance' = significance,
         \A n \in completed : n.last = at - 1,
         \A n \in completed : n.kind = "R_ELSE_CLAUSE" => TakesElse(n.first),
         \A n \in completed : n.kind = "R_IF_STATEMENT" => HasElse(n)' \/ ~ElseAllowed
  PROVE  ElsesTaken' /\ IfFrames' /\ IfNodes' /\ NoElseHere' /\ ElseNotBlessed'
<1>1. /\ ErrorInv /\ ElsesTaken /\ IfFrames /\ IfNodes /\ NoElseHere /\ ElseNotBlessed
      /\ BalanceInv
  BY DEF ElseInv, BalanceInv
<1>2. /\ nodes' = nodes \cup completed /\ UNCHANGED sourceVars /\ diagnostics' = diagnostics
      /\ at' = at
  BY DEF Complete, sourceVars
<1>3. Quiet
  BY DEF Quiet
<1>4. ElseStep
  BY <1>2 DEF ElseStep
<1>5. ElsesTaken'
  <2> SUFFICES ASSUME NEW e \in nodes', e.kind = "R_ELSE_CLAUSE" PROVE TakesElse(e.first)'
    BY DEF ElsesTaken, NodesOf
  <2>1. TakesElse(e.first)
    BY <1>1, <1>2 DEF ElsesTaken, NodesOf
  <2> QED BY <1>1, <1>4, <2>1, TakesElseKept
<1>6. IfFrames'
  <2>1. PICK t : t = stack'
    OBVIOUS
  <2>2. FramesNext(t)
    BY <1>1, <1>4, <2>1, FramesKept
  <2> QED BY <2>1, <2>2 DEF FramesNext, IfFrames
<1>7. IfNodes'
  <2>1. ASSUME NEW n \in nodes' \ nodes, n.kind = "R_IF_STATEMENT",
               diagnostics' = <<>>, text[at].kind = "IDENT_else"
        PROVE  HasElse(n)' \/ ~MayTake(at)
    <3>1. HasElse(n)' \/ ~ElseAllowed
      BY <1>2, <2>1
    <3>2. current = "IDENT_else"
      BY <1>1, <2>1, ElseIsCurrent DEF ErrorInv
    <3>3. ElseAllowed <=> MayTake(at)
      BY <1>1, <1>2, <1>3, <2>1, <3>2, ElseIsAllowed
    <3> QED BY <3>1, <3>3
  <2> QED BY <1>1, <1>4, <2>1, IfNodesNext
<1>8. AwaitingStep
  BY <1>2, <1>3 DEF AwaitingStep
<1>9. ElseAllowed' <=> ElseAllowed
  <2>1. /\ text' = text /\ at' = at /\ current' = current
        /\ gapSemicolons' = gapSemicolons /\ significance' = significance
    BY <1>2 DEF sourceVars
  <2> QED BY <2>1 DEF ElseAllowed, HasPrecedingSeparator, GapNewlines, InsideBrackets
<1>10. ASSUME NEW n \in nodes' \ nodes, n.kind = "R_IF_STATEMENT"
       PROVE  HasElse(n)' \/ ~ElseAllowed'
  BY <1>2, <1>9, <1>10
<1>11. nodes \subseteq nodes'
  BY <1>2
<1>12. NoElseHere' /\ ElseNotBlessed'
  BY <1>1, <1>8, <1>10, <1>11, AwaitingNext
<1> QED BY <1>5, <1>6, <1>7, <1>12

LEMMA ElseAtEnd ==
  ASSUME ElseInv, TextStep, IfParsed \/ IfElseParsed
  PROVE  ElsesTaken' /\ IfFrames' /\ IfNodes' /\ NoElseHere' /\ ElseNotBlessed'
<1> USE DEF Return, Yield
<1>1. ParserInv /\ IfFrames /\ Len(stack) \in Nat /\ Top = stack[Len(stack)]
  BY ErrorFacts DEF ElseInv, BalanceInv
<1>2. CASE IfParsed
  <2> DEFINE node == NodeBefore("R_IF_STATEMENT", Top.from)
  <2>1. /\ Complete({node}) /\ stack' = Below /\ significance' = significance
        /\ pc = "Return" /\ ~ElseAllowed
    BY <1>2 DEF IfParsed, Returned
  <2>2. node.kind = "R_IF_STATEMENT" /\ node.last = at - 1
    BY DEF NodeBefore, NodeOver
  <2>3. Inherits(stack')
    BY <1>1, <2>1, StackFacts
  <2> HIDE DEF node
  <2>4. PICK completed : completed = {node}
    OBVIOUS
  <2>5. Complete(completed)
    BY <2>1, <2>4
  <2>6. /\ \A n \in completed : n.last = at - 1
        /\ \A n \in completed : n.kind = "R_ELSE_CLAUSE" => TakesElse(n.first)
        /\ \A n \in completed : n.kind = "R_IF_STATEMENT" => HasElse(n)' \/ ~ElseAllowed
    BY <2>1, <2>2, <2>4
  <2> QED BY <2>1, <2>3, <2>5, <2>6, ElseCompleted
<1>3. CASE IfElseParsed
  <2>1. PICK clause, node : /\ clause = NodeBefore("R_ELSE_CLAUSE", Top.from)
                            /\ node = NodeBefore("R_IF_STATEMENT", Under.from)
    OBVIOUS
  <2>2. /\ Complete({clause, node}) /\ stack' = BelowTwo /\ significance' = significance
        /\ pc = "Return" /\ Top.fn = "Else"
    BY <1>3, <2>1 DEF IfElseParsed, Returned, BelowTwo
  <2>3. /\ node.kind = "R_IF_STATEMENT" /\ node.last = at - 1 /\ node.first = Under.from
        /\ clause.kind = "R_ELSE_CLAUSE" /\ clause.last = at - 1 /\ clause.first = Top.from
    BY <2>1 DEF NodeBefore, NodeOver
  <2>4. Inherits(stack')
    BY <1>1, <2>2, UnderFacts
  <2>5. TakesElse(Top.from) /\ Under.from < Top.from
    <3>1. Len(stack) \in 1 .. Len(stack)
      BY <1>1, StackFacts
    <3>2. stack[Len(stack) - 1].from < stack[Len(stack)].from /\ TakesElse(stack[Len(stack)].from)
      BY <1>1, <2>2, <3>1 DEF IfFrames
    <3> QED BY <1>1, <3>2 DEF Under
  <2>6. node.first < clause.first /\ clause.last = node.last /\ TakesElse(clause.first)
    BY <2>3, <2>5
  <2>7. PICK completed : completed = {clause, node}
    OBVIOUS
  <2>8. Complete(completed) /\ nodes' = nodes \cup completed
    BY <2>2, <2>7 DEF Complete
  <2>9. HasElse(node)'
    <3>1. clause \in nodes'
      BY <2>7, <2>8
    <3> QED BY <2>3, <2>6, <3>1 DEF HasElse, NodesOf
  <2>10. ASSUME NEW n \in completed
         PROVE  /\ n.last = at - 1
                /\ n.kind = "R_ELSE_CLAUSE" => TakesElse(n.first)
                /\ n.kind = "R_IF_STATEMENT" => HasElse(n)' \/ ~ElseAllowed
    <3>1. CASE n = clause
      BY <2>3, <2>6, <3>1
    <3>2. CASE n = node
      BY <2>3, <2>9, <3>2
    <3> QED BY <2>7, <3>1, <3>2
  <2> QED BY <2>2, <2>4, <2>8, <2>10, ElseCompleted
<1> QED BY <1>2, <1>3

LEMMA ElseNextInv == ElseInv /\ [ParserNext]_vars => ElseInv'
<1> SUFFICES ASSUME ElseInv, [ParserNext]_vars PROVE ElseInv'
  OBVIOUS
<1>1. BalanceInv /\ ErrorInv /\ BalanceInv'
  BY BalanceNextInv DEF ElseInv, BalanceInv
<1>2. TextStep
  BY <1>1, ErrorFacts, StepIsSourceStep, SourceText DEF ErrorInv
<1>3. CASE SteadyStep
  BY <1>1, <1>2, <1>3, ElseSteady DEF ElseInv
<1>4. CASE IfStep
  BY <1>1, <1>2, <1>4, ElseAtIf, ElseAtElse, ElseAtEnd DEF ElseInv, IfStep
<1>5. CASE UNCHANGED vars
  <2>1. SteadyStep
    <3>1. /\ nodes' = nodes /\ stack' = stack /\ diagnostics' = diagnostics /\ at' = at
          /\ pc' = pc /\ UNCHANGED <<sourceVars, significance>>
      BY <1>5 DEF vars, parserVars, sourceVars
    <3>2. Keeps(stack)
      BY <1>1, StackFacts DEF ErrorInv
    <3> QED BY <3>1, <3>2 DEF SteadyStep, BalancedStep, AwaitingStep, SteadyNodes, Keeps, Quiet
  <2> QED BY <1>1, <1>2, <2>1, ElseSteady DEF ElseInv
<1> QED BY <1>1, <1>3, <1>4, <1>5, StepIsSteady

THEOREM ElseInvariant == ParserSpec => []ElseInv
<1> QED BY ElseInitInv, ElseNextInv, PTL DEF ParserSpec

\* For every text, an `else' belongs to the nearest `if' that can take it: no
\* `if' without an `else' ends right before one.
THEOREM ElseIsOfNearestIf == ParserSpec => []ElseBelongsToNearestIf
<1>1. ElseInv => ElseBelongsToNearestIf
  BY DEF ElseInv, ElsesTaken, TakesElse, ElseBelongsToNearestIf, Ifs
<1> QED BY <1>1, ElseInvariant, PTL

\* For every text that the parser accepts without an error, an `if' takes the
\* `else' behind it exactly if no semicolon and, outside brackets, no line break
\* is between them.
THEOREM ElseTakenAcrossNoSeparator == ParserSpec => []ElseNeedsNoSeparator
<1>1. ElseInv => ElseNeedsNoSeparator
  <2> SUFFICES ASSUME ElseInv, diagnostics = <<>>
               PROVE  /\ \A e \in NodesOf({"R_ELSE_CLAUSE"}) : MayTake(e.first)
                      /\ \A n \in NodesOf({"R_IF_STATEMENT"}) :
                           text[n.last + 1].kind = "IDENT_else" /\ ~HasElse(n) =>
                             ~MayTake(n.last + 1)
    BY Zenon DEF ElseNeedsNoSeparator, MayTake
  <2> QED BY DEF ElseInv, ElsesTaken, TakesElse, IfNodes, Ifs
<1> QED BY <1>1, ElseInvariant, PTL

-----------------------------------------------------------------------------
(* Spans: where nodes, the frames on the stack and the returned value begin *)

\* Functions of which a part may begin where they do.
Loose == {"Root", "ExpressionList", "Statement", "Argument", "ArgumentName", "Parameter",
          "String"}

\* Where the parts of a function can begin at the earliest.
Edge(f) == IF f.fn \in Loose THEN f.from ELSE f.from + 1

Marked(f) == f.fn # "Expression"

\* The functions above frame i, and what is yet to come, begin at K or later.
AboveIn(frames, step, val, a, i, K) ==
  /\ K <= a
  /\ \A j \in i + 1 .. Len(frames) : Marked(frames[j]) => K <= frames[j].from
  /\ step = "Return" => K <= val.first

\* No node spans both sides of x.
ApartIn(tree, x) == \A n \in tree : n.last >= x => n.first >= x

Lists == {"Arguments", "Parameters"}

ApartFrame(tree, f) ==
  /\ ApartIn(tree, f.from)
  /\ f.fn \in Lists => ApartIn(tree, f.from + 1)

NodesEnd == \A n \in nodes : n.first <= n.last + 1 /\ n.last < at

FramesOrdered ==
  \A i \in 1 .. Len(stack) : Marked(stack[i]) => AboveIn(stack, pc, value, at, i, Edge(stack[i]))

FramesApart == \A i \in 1 .. Len(stack) : Marked(stack[i]) => ApartFrame(nodes, stack[i])

ValueEnds ==
  pc = "Return" =>
    /\ value \in nodes /\ value.last = at - 1
    /\ Top.fn \notin {"Root", "Braces"} => value.first < at
    /\ ApartIn(nodes, value.first)

SpanInv == NodesEnd /\ FramesOrdered /\ FramesApart /\ ValueEnds

\* A position that is apart from all nodes, and not before what begins above the
\* first b frames.
Cut(b, x) ==
  /\ x \in Nat
  /\ ApartIn(nodes, x)
  /\ \A K \in Nat : AboveIn(stack, pc, value, at, b, K) => K <= x

\* A step that leaves the first b frames alone and completes some nodes: what is
\* new begins at cuts and is ordered as the functions are nested.
Spanned(b, completed) ==
  /\ b \in 0 .. Len(stack) /\ stack' \in Seq(Frame) /\ b <= Len(stack')
  /\ \A i \in 1 .. b : stack'[i] = stack[i]
  /\ nodes' = nodes \cup completed /\ completed \subseteq Node
  /\ at' \in Nat /\ at <= at'
  /\ \A n \in completed :
       /\ Cut(b, n.first) /\ n.first <= n.last + 1 /\ n.last \in {at - 1, at' - 1}
  /\ \A i \in b + 1 .. Len(stack') :
       Marked(stack'[i]) =>
         /\ Cut(b, stack'[i].from) /\ ApartFrame(nodes', stack'[i])
         /\ Edge(stack'[i]) <= at'
         /\ \A j \in i + 1 .. Len(stack') :
              Marked(stack'[j]) => Edge(stack'[i]) <= stack'[j].from
         /\ pc' = "Return" => Edge(stack'[i]) <= value'.first
  /\ pc' = "Return" =>
       /\ value' \in nodes' /\ value'.last = at' - 1 /\ Cut(b, value'.first)
       /\ Top'.fn \notin {"Root", "Braces"} => value'.first < at'
       /\ ApartIn(nodes', value'.first)

LEMMA EdgeTypes ==
  ASSUME NEW f \in Frame
  PROVE  /\ f.from \in Nat /\ Edge(f) \in Nat /\ f.from <= Edge(f) /\ Edge(f) <= f.from + 1
         /\ f.fn \in Lists => Edge(f) = f.from + 1
<1>1. f.from \in Nat
  BY DEF Frame
<1> QED BY <1>1 DEF Edge, Loose, Lists

LEMMA ApartAhead ==
  ASSUME ParserInv, NodesEnd, NEW x \in Nat, x >= at
  PROVE  ApartIn(nodes, x)
<1>1. at \in Nat /\ nodes \subseteq Node
  BY InvFacts DEF ParserInv
<1>2. \A n \in nodes : n.last \in Nat /\ n.last < at
  BY <1>1 DEF Node, NodesEnd
<1> QED BY <1>1, <1>2 DEF ApartIn

LEMMA ApartAdd ==
  ASSUME NEW x, ApartIn(nodes, x), NEW completed, nodes' = nodes \cup completed,
         \A n \in completed : n.last >= x => n.first >= x
  PROVE  ApartIn(nodes', x)
  BY DEF ApartIn

LEMMA CutFacts ==
  ASSUME ParserInv, SpanInv, NEW b \in 0 .. Len(stack)
  PROVE  /\ \A x \in Nat : x >= at => Cut(b, x)
         /\ pc = "Return" => Cut(b, value.first)
         /\ \A i \in b + 1 .. Len(stack) :
              Marked(stack[i]) =>
                /\ Cut(b, stack[i].from)
                /\ stack[i].fn \in Lists => Cut(b, stack[i].from + 1)
<1>1. /\ at \in Nat /\ value.first \in Nat /\ stack \in Seq(Frame) /\ Len(stack) \in Nat
      /\ NodesEnd /\ FramesApart /\ ValueEnds
  BY InvFacts DEF SpanInv
<1>2. ASSUME NEW x \in Nat, x >= at PROVE Cut(b, x)
  <2>1. ApartIn(nodes, x)
    BY <1>1, <1>2, ApartAhead
  <2> QED BY <1>1, <1>2, <2>1 DEF Cut, AboveIn
<1>3. pc = "Return" => Cut(b, value.first)
  BY <1>1 DEF Cut, AboveIn, ValueEnds
<1>4. ASSUME NEW i \in b + 1 .. Len(stack), Marked(stack[i])
      PROVE  /\ Cut(b, stack[i].from)
             /\ stack[i].fn \in Lists => Cut(b, stack[i].from + 1)
  <2>1. i \in 1 .. Len(stack) /\ stack[i] \in Frame
    BY <1>1
  <2>2. stack[i].from \in Nat
    BY <2>1 DEF Frame
  <2>3. ApartFrame(nodes, stack[i])
    BY <1>1, <1>4, <2>1 DEF FramesApart
  <2>4. \A K \in Nat : AboveIn(stack, pc, value, at, b, K) => K <= stack[i].from
    BY <1>4 DEF AboveIn
  <2>5. \A K \in Nat : AboveIn(stack, pc, value, at, b, K) => K <= stack[i].from + 1
    BY <2>2, <2>4
  <2> QED BY <2>2, <2>3, <2>4, <2>5 DEF Cut, ApartFrame
<1> QED BY <1>2, <1>3, <1>4

\* What is above a frame that stays is still above it, and so are the new nodes.
LEMMA StaysAbove ==
  ASSUME ParserInv, NEW b, NEW completed, Spanned(b, completed),
         NEW i \in 0 .. b, NEW K \in Nat, AboveIn(stack, pc, value, at, i, K)
  PROVE  /\ AboveIn(stack', pc', value', at', i, K)
         /\ \A n \in completed : K <= n.first
<1>1. /\ at \in Nat /\ at' \in Nat /\ at <= at' /\ Len(stack) \in Nat /\ Len(stack') \in Nat
      /\ b \in 0 .. Len(stack) /\ b <= Len(stack')
  BY InvFacts DEF Spanned
<1>2. AboveIn(stack, pc, value, at, b, K)
  BY <1>1 DEF AboveIn
<1>3. \A x : Cut(b, x) => K <= x
  BY <1>2 DEF Cut
<1>4. \A n \in completed : K <= n.first
  BY <1>3 DEF Spanned
<1>5. pc' = "Return" => K <= value'.first
  BY <1>3 DEF Spanned
<1>6. ASSUME NEW j \in i + 1 .. Len(stack'), Marked(stack'[j])
      PROVE  K <= stack'[j].from
  <2>1. CASE j \in b + 1 .. Len(stack')
    <3>1. Cut(b, stack'[j].from)
      BY <1>6, <2>1 DEF Spanned
    <3> QED BY <1>3, <3>1
  <2>2. CASE j \in 1 .. b
    <3>1. stack'[j] = stack[j] /\ j \in i + 1 .. Len(stack)
      BY <1>1, <1>6, <2>2 DEF Spanned
    <3> QED BY <1>6, <3>1 DEF AboveIn
  <2> QED BY <1>1, <1>6, <2>1, <2>2
<1>7. K <= at'
  BY <1>1, <1>2 DEF AboveIn
<1> QED BY <1>4, <1>5, <1>6, <1>7 DEF AboveIn

LEMMA SpanKept ==
  ASSUME ParserInv, SpanInv, NEW b, NEW completed, Spanned(b, completed)
  PROVE  SpanInv'
<1>1. /\ at \in Nat /\ at' \in Nat /\ at <= at' /\ Len(stack) \in Nat /\ Len(stack') \in Nat
      /\ b \in 0 .. Len(stack) /\ b <= Len(stack') /\ stack \in Seq(Frame)
      /\ nodes \subseteq Node /\ nodes' = nodes \cup completed /\ completed \subseteq Node
  BY InvFacts DEF Spanned, ParserInv
<1>2. NodesEnd'
  <2>1. ASSUME NEW n \in nodes PROVE n.first <= n.last + 1 /\ n.last < at'
    <3>1. n.last \in Nat /\ n.first <= n.last + 1 /\ n.last < at
      BY <1>1 DEF Node, SpanInv, NodesEnd
    <3> QED BY <1>1, <3>1
  <2>2. ASSUME NEW n \in completed PROVE n.first <= n.last + 1 /\ n.last < at'
    <3>1. n.first <= n.last + 1 /\ n.last \in {at - 1, at' - 1}
      BY <2>2 DEF Spanned
    <3> QED BY <1>1, <3>1
  <2> QED BY <1>1, <2>1, <2>2 DEF NodesEnd
<1>3. ASSUME NEW i \in 1 .. b, Marked(stack'[i])
      PROVE  /\ AboveIn(stack', pc', value', at', i, Edge(stack'[i]))
             /\ ApartFrame(nodes', stack'[i])
  <2>1. PICK f \in Frame : f = stack[i] /\ f = stack'[i] /\ i \in 1 .. Len(stack)
    BY <1>1, <1>3 DEF Spanned
  <2>2. /\ f.from \in Nat /\ Edge(f) \in Nat /\ f.from <= Edge(f)
        /\ f.fn \in Lists => Edge(f) = f.from + 1
    BY EdgeTypes
  <2>3. AboveIn(stack, pc, value, at, i, Edge(f)) /\ ApartFrame(nodes, f)
    BY <1>3, <2>1 DEF SpanInv, FramesOrdered, FramesApart
  <2>4. AboveIn(stack', pc', value', at', i, Edge(f)) /\ \A n \in completed : Edge(f) <= n.first
    BY <1>1, <1>3, <2>2, <2>3, StaysAbove
  <2>5. \A n \in completed : n.first >= f.from /\ (f.fn \in Lists => n.first >= f.from + 1)
    <3>1. \A n \in completed : n.first \in Nat
      BY <1>1 DEF Node
    <3> QED BY <2>2, <2>4, <3>1
  <2>6. ApartFrame(nodes', f)
    BY <1>1, <2>3, <2>5, ApartAdd DEF ApartFrame
  <2> QED BY <2>1, <2>4, <2>6
<1>4. ASSUME NEW i \in b + 1 .. Len(stack'), Marked(stack'[i])
      PROVE  /\ AboveIn(stack', pc', value', at', i, Edge(stack'[i]))
             /\ ApartFrame(nodes', stack'[i])
  BY <1>4 DEF Spanned, AboveIn
<1>5. \A i \in 1 .. Len(stack') : i \in 1 .. b \/ i \in b + 1 .. Len(stack')
  BY <1>1
<1>6. FramesOrdered' /\ FramesApart'
  BY <1>3, <1>4, <1>5 DEF FramesOrdered, FramesApart
<1>7. ValueEnds'
  BY DEF Spanned, ValueEnds
<1> QED BY <1>2, <1>6, <1>7 DEF SpanInv

-----------------------------------------------------------------------------
(* Steps that enter functions, leave them, or go on with other locals *)

LEMMA Consumed ==
  ASSUME ParserInv, NEW completed, Consume(completed)
  PROVE  /\ nodes' = nodes \cup completed /\ diagnostics' = diagnostics
         /\ at' \in Nat /\ at < at' /\ at' = CurrentEnd + 1 /\ CurrentEnd = at' - 1
         /\ at <= at' /\ CurrentEnd \in Nat /\ at \in Nat
<1>1. Bump /\ nodes' = nodes \cup completed /\ diagnostics' = diagnostics
  BY DEF Consume
<1>2. at \in Nat /\ CurrentEnd \in Nat
  BY InvFacts
<1>3. at' = CurrentEnd + 1
  BY <1>1 DEF Bump, Advance
<1> QED BY <1>1, <1>2, <1>3, BumpEnd

LEMMA Completed ==
  ASSUME ParserInv, NEW completed, Complete(completed)
  PROVE  /\ nodes' = nodes \cup completed /\ diagnostics' = diagnostics
         /\ at' = at /\ at' \in Nat /\ at <= at'
         /\ text' = text /\ current' = current /\ UNCHANGED sourceVars
  BY InvFacts DEF Complete, sourceVars

\* New nodes that are the tokens consumed.
Fresh(completed) ==
  completed \subseteq Node /\ \A n \in completed : n.first = at /\ n.last = at' - 1 /\ at < at'

\* A function that starts at the current token, or with the value.
Begins(f, completed) ==
  /\ \/ f.from \in {at, at'}
     \/ pc = "Return" /\ f.from = value.first /\ f.fn \notin Lists
  /\ f.fn \in Lists => completed = {}
  /\ Edge(f) <= at'

LEMMA FreshApart ==
  ASSUME ParserInv, SpanInv, NEW completed, nodes' = nodes \cup completed, Fresh(completed),
         at' \in Nat, at <= at'
  PROVE  /\ ApartIn(nodes', at) /\ ApartIn(nodes', at')
         /\ completed = {} => ApartIn(nodes', at + 1) /\ ApartIn(nodes', at' + 1)
         /\ pc = "Return" => ApartIn(nodes', value.first)
<1>1. /\ at \in Nat /\ value.first \in Nat /\ value \in Node /\ NodesEnd
      /\ completed \subseteq Node /\ \A n \in completed : n.first \in Nat /\ n.last \in Nat
  BY InvFacts DEF SpanInv, ParserInv, Fresh, Node
<1>2. /\ ApartIn(nodes, at) /\ ApartIn(nodes, at')
      /\ ApartIn(nodes, at + 1) /\ ApartIn(nodes, at' + 1)
  BY <1>1, ApartAhead
<1>3. \A n \in completed : n.first = at /\ n.last = at' - 1
  BY DEF Fresh
<1>4. ApartIn(nodes', at) /\ ApartIn(nodes', at')
  BY <1>1, <1>2, <1>3, ApartAdd
<1>5. completed = {} => ApartIn(nodes', at + 1) /\ ApartIn(nodes', at' + 1)
  BY <1>2
<1>6. pc = "Return" => ApartIn(nodes', value.first)
  <2>1. SUFFICES ASSUME pc = "Return" PROVE ApartIn(nodes', value.first)
    OBVIOUS
  <2>2. /\ ApartIn(nodes, value.first) /\ value.first <= at
    <3>1. ApartIn(nodes, value.first) /\ value \in nodes /\ value.last = at - 1
      BY <2>1 DEF SpanInv, ValueEnds
    <3>2. value.first <= value.last + 1
      BY <1>1, <3>1 DEF NodesEnd
    <3> QED BY <1>1, <3>1, <3>2
  <2>3. \A n \in completed : n.first >= value.first
    BY <1>1, <1>3, <2>2
  <2> QED BY <2>2, <2>3, ApartAdd
<1> QED BY <1>4, <1>5, <1>6

\* A function calls others, or goes on itself.
LEMMA SpanGrow ==
  ASSUME ParserInv, SpanInv, NEW completed, nodes' = nodes \cup completed, Fresh(completed),
         at' \in Nat, at <= at',
         stack' \in Seq(Frame), Len(stack) <= Len(stack'),
         \A i \in 1 .. Len(stack) : stack'[i] = stack[i],
         \A i \in Len(stack) + 1 .. Len(stack') :
           Marked(stack'[i]) =>
             /\ Begins(stack'[i], completed)
             /\ \A j \in i + 1 .. Len(stack') :
                  Marked(stack'[j]) => Edge(stack'[i]) <= stack'[j].from
             /\ pc' = "Return" => Edge(stack'[i]) <= at,
         pc' = "Return" => value' \in completed
  PROVE  Spanned(Len(stack), completed)
<1>1. /\ at \in Nat /\ value.first \in Nat /\ Len(stack) \in Nat /\ Len(stack) \in 0 .. Len(stack)
  BY InvFacts
<1>2. /\ \A x \in Nat : x >= at => Cut(Len(stack), x)
      /\ pc = "Return" => Cut(Len(stack), value.first)
  BY <1>1, CutFacts
<1>3. \A n \in completed : /\ n.first = at /\ n.last = at' - 1 /\ at < at'
                           /\ Cut(Len(stack), n.first)
  BY <1>1, <1>2 DEF Fresh
<1>4. /\ ApartIn(nodes', at) /\ ApartIn(nodes', at')
      /\ completed = {} => ApartIn(nodes', at + 1) /\ ApartIn(nodes', at' + 1)
      /\ pc = "Return" => ApartIn(nodes', value.first)
  BY FreshApart
<1>5. ASSUME NEW f, Begins(f, completed)
      PROVE  Cut(Len(stack), f.from) /\ ApartFrame(nodes', f)
  <2>1. \/ f.from \in {at, at'}
        \/ pc = "Return" /\ f.from = value.first /\ f.fn \notin Lists
    BY <1>5 DEF Begins
  <2>2. f.fn \in Lists => completed = {}
    BY <1>5 DEF Begins
  <2>3. CASE f.from \in {at, at'}
    BY <1>1, <1>2, <1>4, <2>2, <2>3 DEF ApartFrame
  <2>4. CASE pc = "Return" /\ f.from = value.first /\ f.fn \notin Lists
    BY <1>2, <1>4, <2>4 DEF ApartFrame
  <2> QED BY <2>1, <2>3, <2>4
<1>6. pc' = "Return" => /\ value' \in nodes' /\ value'.last = at' - 1 /\ value'.first = at
                        /\ at < at'
  BY <1>3
<1>7. \A i \in Len(stack) + 1 .. Len(stack') :
        Marked(stack'[i]) => Begins(stack'[i], completed) /\ Edge(stack'[i]) <= at'
  BY DEF Begins
<1>8. completed \subseteq Node
  BY DEF Fresh
<1>9. \A n \in completed : n.first <= n.last + 1 /\ n.last \in {at - 1, at' - 1}
  BY <1>1, <1>3
<1>10. pc' = "Return" => Cut(Len(stack), value'.first) /\ ApartIn(nodes', value'.first)
  BY <1>1, <1>2, <1>4, <1>6
<1> QED BY <1>1, <1>3, <1>5, <1>6, <1>7, <1>8, <1>9, <1>10 DEF Spanned

LEMMA SpanStay ==
  ASSUME ParserInv, SpanInv, NEW completed, nodes' = nodes \cup completed, Fresh(completed),
         at' \in Nat, at <= at', stack' = stack,
         pc' = "Return" => value' \in completed
  PROVE  Spanned(Len(stack), completed)
<1>1. Len(stack) \in Nat /\ stack \in Seq(Frame)
  BY InvFacts
<1>2. Len(stack') = Len(stack) /\ stack' \in Seq(Frame)
  BY <1>1
<1>3. \A i \in Len(stack) + 1 .. Len(stack') : FALSE
  BY <1>1, <1>2
<1> QED BY <1>1, <1>2, <1>3, SpanGrow

LEMMA SpanPush ==
  ASSUME ParserInv, SpanInv, NEW completed, nodes' = nodes \cup completed, Fresh(completed),
         at' \in Nat, at <= at',
         NEW f \in Frame, stack' = Append(stack, f), Marked(f) => Begins(f, completed),
         pc' # "Return"
  PROVE  Spanned(Len(stack), completed)
<1>1. Len(stack) \in Nat /\ stack \in Seq(Frame)
  BY InvFacts
<1>2. /\ stack' \in Seq(Frame) /\ Len(stack') = Len(stack) + 1 /\ stack'[Len(stack) + 1] = f
      /\ \A i \in 1 .. Len(stack) : stack'[i] = stack[i]
  BY <1>1, AppendProperties
<1>3. \A i \in Len(stack) + 1 .. Len(stack') : i = Len(stack) + 1 /\ i + 1 .. Len(stack') = {}
  BY <1>1, <1>2
<1> QED BY <1>1, <1>2, <1>3, SpanGrow

LEMMA SpanPushTwo ==
  ASSUME ParserInv, SpanInv, NEW completed, nodes' = nodes \cup completed, Fresh(completed),
         at' \in Nat, at <= at',
         NEW f \in Frame, NEW g \in Frame, stack' = stack \o <<f, g>>,
         Marked(f) => Begins(f, completed), Marked(g) => Begins(g, completed),
         Marked(f) /\ Marked(g) => Edge(f) <= g.from,
         pc' = "Return" => /\ value' \in completed
                           /\ Marked(f) => Edge(f) <= at
                           /\ Marked(g) => Edge(g) <= at
  PROVE  Spanned(Len(stack), completed)
<1>1. Len(stack) \in Nat /\ stack \in Seq(Frame) /\ Chain(stack)
  BY InvFacts
<1>2. /\ stack' \in Seq(Frame) /\ Len(stack') = Len(stack) + 2
      /\ stack'[Len(stack) + 1] = f /\ stack'[Len(stack) + 2] = g
      /\ \A i \in 1 .. Len(stack) : stack'[i] = stack[i]
  <2>1. stack' = Append(Append(stack, f), g)
    BY <1>1, TwoPushed
  <2>2. /\ Append(stack, f) \in Seq(Frame) /\ Len(Append(stack, f)) = Len(stack) + 1
        /\ Append(stack, f)[Len(stack) + 1] = f
        /\ \A i \in 1 .. Len(stack) : Append(stack, f)[i] = stack[i]
    BY <1>1, AppendProperties
  <2> QED BY <1>1, <2>1, <2>2, AppendProperties
<1>3. \A i \in Len(stack) + 1 .. Len(stack') :
        \/ i = Len(stack) + 1 /\ \A j \in i + 1 .. Len(stack') : j = Len(stack) + 2
        \/ i = Len(stack) + 2 /\ i + 1 .. Len(stack') = {}
  BY <1>1, <1>2
<1>4. ASSUME NEW i \in Len(stack) + 1 .. Len(stack'), Marked(stack'[i])
      PROVE  /\ Begins(stack'[i], completed)
             /\ \A j \in i + 1 .. Len(stack') :
                  Marked(stack'[j]) => Edge(stack'[i]) <= stack'[j].from
             /\ pc' = "Return" => Edge(stack'[i]) <= at
  <2>1. CASE i = Len(stack) + 1 /\ \A j \in i + 1 .. Len(stack') : j = Len(stack) + 2
    <3>1. stack'[i] = f /\ \A j \in i + 1 .. Len(stack') : stack'[j] = g
      BY <1>2, <2>1
    <3> QED BY <1>4, <3>1
  <2>2. CASE i = Len(stack) + 2 /\ i + 1 .. Len(stack') = {}
    <3>1. stack'[i] = g
      BY <1>2, <2>2
    <3> QED BY <1>4, <2>2, <3>1
  <2> QED BY <1>3, <2>1, <2>2
<1>5. Len(stack) <= Len(stack') /\ (pc' = "Return" => value' \in completed)
  BY <1>1, <1>2
<1>6. /\ stack' \in Seq(Frame) /\ \A i \in 1 .. Len(stack) : stack'[i] = stack[i]
  BY <1>2
<1>7. \A i \in Len(stack) + 1 .. Len(stack') :
        Marked(stack'[i]) =>
          /\ Begins(stack'[i], completed)
          /\ \A j \in i + 1 .. Len(stack') :
               Marked(stack'[j]) => Edge(stack'[i]) <= stack'[j].from
          /\ pc' = "Return" => Edge(stack'[i]) <= at
  BY <1>4, Zenon
<1> QED BY <1>5, <1>6, <1>7, SpanGrow

\* Functions return, or fail.
LEMMA SpanLeave ==
  ASSUME ParserInv, SpanInv, NEW completed, nodes' = nodes \cup completed,
         completed \subseteq Node, at' \in Nat, at <= at',
         NEW b \in 0 .. Len(stack), stack' \in Seq(Frame), Len(stack') = b,
         \A i \in 1 .. b : stack'[i] = stack[i],
         \A n \in completed :
           /\ Cut(b, n.first) /\ n.first <= n.last + 1 /\ n.last \in {at - 1, at' - 1},
         pc' = "Return" =>
           /\ value' \in nodes' /\ value'.last = at' - 1 /\ Cut(b, value'.first)
           /\ Top'.fn \notin {"Root", "Braces"} => value'.first < at'
           /\ \A n \in completed : value'.first <= n.first
  PROVE  Spanned(b, completed)
<1>1. Len(stack) \in Nat /\ b \in Nat
  BY InvFacts
<1>2. \A i \in b + 1 .. Len(stack') : FALSE
  BY <1>1
<1>3. pc' = "Return" => ApartIn(nodes', value'.first)
  <2>1. SUFFICES ASSUME pc' = "Return" PROVE ApartIn(nodes', value'.first)
    OBVIOUS
  <2>2. PICK x : x = value'.first
    OBVIOUS
  <2>3. ApartIn(nodes, x) /\ x \in Nat /\ \A n \in completed : n.first >= x
    <3>1. Cut(b, x) /\ \A n \in completed : x <= n.first
      BY <2>1, <2>2
    <3>2. \A n \in completed : n.first \in Nat
      BY DEF Node
    <3> QED BY <3>1, <3>2 DEF Cut
  <2> QED BY <2>2, <2>3, ApartAdd
<1> QED BY <1>1, <1>2, <1>3 DEF Spanned

\* A function goes on with other locals, or as another expression.
LEMMA SpanReplace ==
  ASSUME ParserInv, SpanInv, NEW completed, nodes' = nodes \cup completed,
         completed \subseteq Node, at' \in Nat, at <= at',
         NEW b \in 0 .. Len(stack) - 1, NEW f \in Frame,
         stack' \in Seq(Frame), Len(stack') = b + 1, stack'[b + 1] = f,
         \A i \in 1 .. b : stack'[i] = stack[i],
         Marked(f) => /\ f.fn = stack[b + 1].fn /\ f.from = stack[b + 1].from /\ Edge(f) <= at'
                      /\ \A n \in completed : Edge(f) <= n.first
                      /\ pc' # "Return",
         \A n \in completed :
           /\ Cut(b, n.first) /\ n.first <= n.last + 1 /\ n.last \in {at - 1, at' - 1},
         pc' = "Return" => pc = "Return" /\ value' = value /\ completed = {} /\ at' = at
                           /\ Top'.fn = "Expression" /\ Top.fn \notin {"Root", "Braces"}
  PROVE  Spanned(b, completed)
<1>1. Len(stack) \in Nat /\ b \in Nat /\ b \in 0 .. Len(stack) /\ b + 1 \in b + 1 .. Len(stack)
      /\ stack \in Seq(Frame) /\ at \in Nat /\ value \in Node
  BY InvFacts DEF ParserInv
<1>2. \A i \in b + 1 .. Len(stack') : i = b + 1 /\ i + 1 .. Len(stack') = {}
  BY <1>1
<1>3. Marked(f) => Cut(b, f.from) /\ ApartFrame(nodes', f)
  <2>1. SUFFICES ASSUME Marked(f) PROVE Cut(b, f.from) /\ ApartFrame(nodes', f)
    OBVIOUS
  <2>2. Cut(b, f.from) /\ (f.fn \in Lists => Cut(b, f.from + 1))
    BY <1>1, <2>1, CutFacts DEF Marked
  <2>3. /\ f.from \in Nat /\ Edge(f) \in Nat /\ f.from <= Edge(f)
        /\ f.fn \in Lists => Edge(f) = f.from + 1
    BY EdgeTypes
  <2>4. \A n \in completed : n.first \in Nat
    BY DEF Node
  <2>5. /\ \A n \in completed : n.first >= f.from
        /\ f.fn \in Lists => \A n \in completed : n.first >= f.from + 1
    BY <2>1, <2>3, <2>4
  <2>6. ApartIn(nodes, f.from) /\ (f.fn \in Lists => ApartIn(nodes, f.from + 1))
    BY <2>2 DEF Cut
  <2> QED BY <2>2, <2>5, <2>6, ApartAdd DEF ApartFrame
<1>4. pc' = "Return" =>
        /\ value' \in nodes' /\ value'.last = at' - 1 /\ Cut(b, value'.first)
        /\ Top'.fn \notin {"Root", "Braces"} => value'.first < at'
        /\ ApartIn(nodes', value'.first)
  <2>1. SUFFICES ASSUME pc' = "Return"
                 PROVE  /\ value \in nodes /\ value.last = at - 1 /\ Cut(b, value.first)
                        /\ value.first < at /\ ApartIn(nodes, value.first)
    OBVIOUS
  <2>2. Cut(b, value.first)
    BY <1>1, <2>1, CutFacts
  <2> QED BY <2>1, <2>2 DEF SpanInv, ValueEnds
<1> QED BY <1>1, <1>2, <1>3, <1>4 DEF Spanned

\* The stacks that a step may leave.
LEMMA StacksLeft ==
  ASSUME ParserInv
  PROVE  /\ Len(stack) - 1 \in 0 .. Len(stack) - 1 /\ Len(stack) - 1 \in Nat
         /\ Below \in Seq(Frame) /\ Len(Below) = Len(stack) - 1
         /\ \A i \in 1 .. Len(stack) - 1 : Below[i] = stack[i]
         /\ \A f \in Frame :
              /\ WithTop(f) \in Seq(Frame) /\ Len(WithTop(f)) = Len(stack)
              /\ WithTop(f)[Len(stack)] = f
              /\ \A i \in 1 .. Len(stack) - 1 : WithTop(f)[i] = stack[i]
         /\ Top.fn # "Root" =>
              /\ Len(stack) - 2 \in 0 .. Len(stack) - 1
              /\ Len(stack) - 1 \in 1 .. Len(stack) - 1
              /\ BelowTwo \in Seq(Frame) /\ Len(BelowTwo) = Len(stack) - 2
              /\ \A i \in 1 .. Len(stack) - 2 : BelowTwo[i] = stack[i]
              /\ Under = stack[Len(stack) - 1] /\ Under \in Frame
              /\ \A f \in Frame :
                   /\ Append(BelowTwo, f) \in Seq(Frame)
                   /\ Len(Append(BelowTwo, f)) = Len(stack) - 1
                   /\ Append(BelowTwo, f)[Len(stack) - 1] = f
                   /\ \A i \in 1 .. Len(stack) - 2 : Append(BelowTwo, f)[i] = stack[i]
<1>1. /\ stack \in Seq(Frame) /\ Len(stack) \in Nat \ {0} /\ Below = Popped(stack)
      /\ Len(stack) > 0
  BY InvFacts
<1>2. /\ Below \in Seq(Frame) /\ Len(Below) = Len(stack) - 1 /\ Len(stack) - 1 \in Nat
      /\ \A i \in 1 .. Len(stack) - 1 : Below[i] = stack[i]
  BY <1>1, PoppedProperties
<1>3. ASSUME NEW f \in Frame
      PROVE  /\ WithTop(f) \in Seq(Frame) /\ Len(WithTop(f)) = Len(stack)
             /\ WithTop(f)[Len(stack)] = f
             /\ \A i \in 1 .. Len(stack) - 1 : WithTop(f)[i] = stack[i]
  <2>1. /\ Append(Below, f) \in Seq(Frame) /\ Len(Append(Below, f)) = Len(Below) + 1
        /\ Append(Below, f)[Len(Below) + 1] = f
        /\ \A i \in 1 .. Len(Below) : Append(Below, f)[i] = Below[i]
    BY <1>2, AppendProperties
  <2> QED BY <1>1, <1>2, <2>1 DEF WithTop
<1>4. ASSUME Top.fn # "Root"
      PROVE  /\ Len(stack) > 1 /\ Under = stack[Len(stack) - 1] /\ Under \in Frame
             /\ BelowTwo \in Seq(Frame) /\ Len(BelowTwo) = Len(stack) - 2
             /\ \A i \in 1 .. Len(stack) - 2 : BelowTwo[i] = stack[i]
  <2>1. Len(stack) > 1 /\ Under \in Frame /\ BelowTwo = Popped(Below) /\ Len(Below) > 0
    BY <1>4, UnderFacts
  <2>2. /\ BelowTwo \in Seq(Frame) /\ Len(BelowTwo) = Len(Below) - 1
        /\ \A i \in 1 .. Len(Below) - 1 : BelowTwo[i] = Below[i]
    BY <1>2, <2>1, PoppedProperties
  <2> QED BY <1>1, <1>2, <2>1, <2>2 DEF Under
<1>5. ASSUME Top.fn # "Root", NEW f \in Frame
      PROVE  /\ Append(BelowTwo, f) \in Seq(Frame)
             /\ Len(Append(BelowTwo, f)) = Len(stack) - 1
             /\ Append(BelowTwo, f)[Len(stack) - 1] = f
             /\ \A i \in 1 .. Len(stack) - 2 : Append(BelowTwo, f)[i] = stack[i]
  <2>1. /\ Append(BelowTwo, f) \in Seq(Frame) /\ Len(Append(BelowTwo, f)) = Len(BelowTwo) + 1
        /\ Append(BelowTwo, f)[Len(BelowTwo) + 1] = f
        /\ \A i \in 1 .. Len(BelowTwo) : Append(BelowTwo, f)[i] = BelowTwo[i]
    BY <1>4, <1>5, AppendProperties
  <2> QED BY <1>1, <1>4, <1>5, <2>1
<1>6. Len(stack) - 1 \in 0 .. Len(stack) - 1
  BY <1>1
<1>7. Top.fn # "Root" =>
        Len(stack) - 2 \in 0 .. Len(stack) - 1 /\ Len(stack) - 1 \in 1 .. Len(stack) - 1
  BY <1>1, <1>4
<1> QED BY <1>2, <1>3, <1>4, <1>5, <1>6, <1>7, Zenon

\* A function has not begun behind the current token.
LEMMA FromBehind ==
  ASSUME ParserInv, SpanInv, NEW i \in 1 .. Len(stack), Marked(stack[i])
  PROVE  /\ stack[i].from \in Nat /\ stack[i].from <= at
         /\ Edge(stack[i]) \in Nat /\ Edge(stack[i]) <= at
         /\ stack[i].fn \notin Loose => stack[i].from < at
<1>1. stack[i] \in Frame /\ at \in Nat
  BY InvFacts
<1>2. PICK f \in Frame : f = stack[i]
  BY <1>1
<1>3. f.from \in Nat /\ Edge(f) \in Nat /\ f.from <= Edge(f)
  BY EdgeTypes
<1>4. Edge(f) <= at
  BY <1>2 DEF SpanInv, FramesOrdered, AboveIn
<1> QED BY <1>1, <1>2, <1>3, <1>4 DEF Edge

\* A node of what a function has parsed.
LEMMA NodeFrom ==
  ASSUME ParserInv, SpanInv, at' \in Nat, at <= at',
         NEW i \in 1 .. Len(stack), Marked(stack[i]), NEW b \in 0 .. i - 1,
         NEW kind \in NodeKinds, NEW last \in {at - 1, at' - 1}, last \in Nat
  PROVE  LET n == NodeOver(kind, stack[i].from, last) IN
         /\ n \in Node /\ Cut(b, n.first) /\ n.first <= n.last + 1
         /\ n.last \in {at - 1, at' - 1} /\ n.first = stack[i].from /\ n.last = last
         /\ n.kind = kind
<1>1. stack[i].from \in Nat /\ stack[i].from <= at
  BY FromBehind
<1>2. at \in Nat /\ Len(stack) \in Nat
  BY InvFacts
<1>3. b \in 0 .. Len(stack) /\ i \in b + 1 .. Len(stack)
  BY <1>2
<1>4. Cut(b, stack[i].from)
  BY <1>3, CutFacts
<1>5. stack[i].from <= last + 1
  <2>1. PICK x \in Nat, now \in Nat, next \in Nat :
          x = stack[i].from /\ now = at /\ next = at'
    BY <1>1, <1>2
  <2>2. x <= now /\ now <= next /\ last \in {now - 1, next - 1}
    BY <1>1, <2>1
  <2>3. x <= last + 1
    BY <2>2
  <2> QED BY <2>1, <2>3
<1>6. PICK n : n = NodeOver(kind, stack[i].from, last)
  OBVIOUS
<1>7. /\ n.kind = kind /\ n.first = stack[i].from /\ n.last = last
      /\ n \in Node
  BY <1>1, <1>6 DEF NodeOver, Node
<1> QED BY <1>4, <1>5, <1>6, <1>7

\* The list between the delimiters of a function.
LEMMA ListFrom ==
  ASSUME ParserInv, SpanInv, at' \in Nat, at <= at', Top.fn \in Lists,
         NEW b \in 0 .. Len(stack) - 1, NEW kind \in NodeKinds
  PROVE  LET n == NodeBefore(kind, Top.from + 1) IN
         /\ n \in Node /\ Cut(b, n.first) /\ n.first <= n.last + 1
         /\ n.last \in {at - 1, at' - 1} /\ n.first = Top.from + 1 /\ n.kind = kind
<1>1. /\ at \in Nat /\ Len(stack) \in Nat /\ at - 1 \in Nat /\ Len(stack) > 0
      /\ Top = stack[Len(stack)]
  BY InvFacts DEF Top
<1>2. Marked(Top) /\ Top.fn \notin Loose
  BY DEF Marked, Lists, Loose
<1>3. PICK i \in 1 .. Len(stack) : i = Len(stack)
  BY <1>1
<1>4. stack[i].from \in Nat /\ stack[i].from < at
  BY <1>1, <1>2, <1>3, FromBehind
<1>5. b \in 0 .. Len(stack) /\ i \in b + 1 .. Len(stack)
  BY <1>1, <1>3
<1>6. Cut(b, stack[i].from + 1)
  BY <1>1, <1>2, <1>3, <1>5, CutFacts
<1> QED BY <1>1, <1>3, <1>4, <1>6 DEF NodeBefore, NodeOver, Node

-----------------------------------------------------------------------------
(* Plain steps: those that neither enter nor leave an operator, a body or a *)
(* statement                                                               *)

Infixes == {"Binary", "Extract", "Namespace", "Call"}

InfixKinds == {"R_BINARY_EXPRESSION", "R_CALL", "R_SUBSET", "R_SUBSET2",
               "R_EXTRACT_EXPRESSION", "R_NAMESPACE_EXPRESSION"}

\* Functions that end with a part another operator could take.
Bodied == Operands \cup {"If", "Else"}

SpecialKinds == InfixKinds \cup LastParts \cup {"R_EXPRESSION_LIST"}

\* How tightly the last part of a function, or of a node, is bound by the
\* token that stands for it.
Power(fn, kind) ==
  CASE fn \in {"Unary", "R_UNARY_EXPRESSION"}                       -> UnaryPower[kind]
    [] fn \in {"Binary", "R_BINARY_EXPRESSION"}                     -> BinaryPower[kind][2]
    [] fn \in {"If", "Else", "R_IF_STATEMENT", "R_ELSE_CLAUSE"}     -> IF_BODY_BP
    [] OTHER                                                        -> FUNCTION_BODY_BP

\* Where the expression of frame j starts.
Start(frames, step, val, a, j) ==
  IF j < Len(frames) THEN frames[j + 1].from ELSE IF step = "Return" THEN val.first ELSE a

\* Functions that begin with the token that stands for how tightly their last
\* part is bound, and those tokens, for the functions and for their nodes.
Prefixed == {"Unary", "FunctionDefinition", "For", "While", "Repeat", "If", "Else"}

Openers(fn) ==
  CASE fn \in {"Unary", "R_UNARY_EXPRESSION"}                 -> UnaryOperators
    [] fn \in {"FunctionDefinition", "R_FUNCTION_DEFINITION"} -> {"FUNCTION_KW", "BACKSLASH"}
    [] fn \in {"For", "R_FOR_STATEMENT"}                      -> {"FOR_KW"}
    [] fn \in {"While", "R_WHILE_STATEMENT"}                  -> {"WHILE_KW"}
    [] fn \in {"Repeat", "R_REPEAT_STATEMENT"}                -> {"REPEAT_KW"}
    [] fn \in {"If", "R_IF_STATEMENT"}                        -> {"IF_KW"}
    [] OTHER                                                  -> {"IDENT_else"}

PlainFrame(f, below, last, step, a, next, tokens) ==
  /\ f.fn \notin Infixes \cup {"Statement"}
  /\ f.fn = "ExpressionList" => last /\ step = "List" /\ f.from = next
  /\ f.fn \in Prefixed => f.from = a /\ tokens[a].kind \in Openers(f.fn)
  /\ f.fn = "Expression" =>
       /\ last /\ below.fn # "Statement"
       /\ step = "Prefix" \/ f.bp = 0
       /\ below.fn \in Bodied =>
            below.fn # "Binary" /\ step = "Prefix"
              /\ f.bp = Power(below.fn, tokens[below.from].kind)

\* What is returned is a token, or what has just been returned.
PlainValue(completed) ==
  \/ at < at' /\ value' \in completed
  \/ /\ pc = "Return" /\ Top.fn \notin {"Root", "Braces"} /\ value' = value
     /\ completed = {} /\ UNCHANGED <<sourceVars, significance>>

PlainStep(b, completed) ==
  /\ Spanned(b, completed)
  /\ b > 0 => stack[b].fn # "ExpressionList"
  /\ pc # "Selector" /\ pc' \notin {"Selector", "Fail"}
  /\ \A n \in completed : n.kind \notin SpecialKinds
  /\ b > 0 /\ stack[b].fn = "Expression" =>
       Start(stack', pc', value', at', b) = Start(stack, pc, value, at, b)
  /\ \A i \in b + 1 .. Len(stack') :
       PlainFrame(stack'[i], stack'[i - 1], i = Len(stack'), pc', at, at', text)
  /\ pc' = "Return" =>
       Top'.fn \notin Bodied \cup {"Statement", "Root", "Braces"} /\ PlainValue(completed)

LEMMA PlainStay ==
  ASSUME ParserInv, SpanInv, NEW completed, nodes' = nodes \cup completed, Fresh(completed),
         at' \in Nat, at <= at', stack' = stack,
         \A n \in completed : n.kind \notin SpecialKinds,
         pc # "Selector", pc' \notin {"Selector", "Fail"}, Top.fn # "ExpressionList",
         Top.fn = "Expression" => pc = "Prefix" /\ pc' = "Return",
         pc' = "Return" => Top.fn = "Expression" /\ at < at' /\ value' \in completed
  PROVE  \E b : PlainStep(b, completed)
<1>1. /\ Len(stack) \in Nat /\ Len(stack) > 0 /\ Top = stack[Len(stack)]
      /\ Top' = stack'[Len(stack')]
  BY InvFacts DEF Top
<1>2. Spanned(Len(stack), completed)
  BY SpanStay
<1>3. \A i \in Len(stack) + 1 .. Len(stack') : FALSE
  BY <1>1
<1>4. Top.fn = "Expression" =>
        Start(stack', pc', value', at', Len(stack)) = Start(stack, pc, value, at, Len(stack))
  BY <1>1 DEF Start, Fresh
<1>5. pc' = "Return" =>
        Top'.fn \notin Bodied \cup {"Statement", "Root", "Braces"} /\ PlainValue(completed)
  <2>1. "Expression" \notin Bodied
    BY LastPartFunctions DEF Bodied, Operands
  <2> QED BY <1>1, <2>1 DEF PlainValue
<1> QED BY <1>1, <1>2, <1>3, <1>4, <1>5 DEF PlainStep

LEMMA PlainPush ==
  ASSUME ParserInv, SpanInv, NEW completed, nodes' = nodes \cup completed, Fresh(completed),
         at' \in Nat, at <= at',
         NEW f \in Frame, stack' = Append(stack, f), Marked(f) => Begins(f, completed),
         \A n \in completed : n.kind \notin SpecialKinds,
         pc # "Selector", pc' \notin {"Selector", "Fail", "Return"}, Top.fn # "ExpressionList",
         Top.fn = "Expression" => pc = "Prefix" /\ f.from = at,
         PlainFrame(f, Top, TRUE, pc', at, at', text)
  PROVE  \E b : PlainStep(b, completed)
<1>1. Len(stack) \in Nat /\ Len(stack) > 0 /\ stack \in Seq(Frame) /\ Top = stack[Len(stack)]
  BY InvFacts DEF Top
<1>2. Spanned(Len(stack), completed)
  BY SpanPush
<1>3. /\ Len(stack') = Len(stack) + 1 /\ stack'[Len(stack) + 1] = f
      /\ \A i \in 1 .. Len(stack) : stack'[i] = stack[i]
  BY <1>1, AppendProperties
<1>4. \A i \in Len(stack) + 1 .. Len(stack') :
        i = Len(stack) + 1 /\ i - 1 = Len(stack) /\ i = Len(stack')
  BY <1>1, <1>3
<1>5. stack'[Len(stack)] = Top
  BY <1>1, <1>3
<1>6. \A i \in Len(stack) + 1 .. Len(stack') :
        PlainFrame(stack'[i], stack'[i - 1], i = Len(stack'), pc', at, at', text)
  BY <1>3, <1>4, <1>5
<1>7. Top.fn = "Expression" =>
        Start(stack', pc', value', at', Len(stack)) = Start(stack, pc, value, at, Len(stack))
  BY <1>1, <1>3 DEF Start
<1> QED BY <1>1, <1>2, <1>6, <1>7 DEF PlainStep

LEMMA PlainPushTwo ==
  ASSUME ParserInv, SpanInv, NEW completed, nodes' = nodes \cup completed, Fresh(completed),
         at' \in Nat, at <= at',
         NEW f \in Frame, NEW g \in Frame, stack' = stack \o <<f, g>>,
         Marked(f), Begins(f, completed), Marked(g) => Begins(g, completed),
         Marked(g) => Edge(f) <= g.from,
         \A n \in completed : n.kind \notin SpecialKinds,
         pc # "Selector", pc' \notin {"Selector", "Fail", "Return"}, Top.fn # "ExpressionList",
         Top.fn = "Expression" => pc = "Prefix" /\ f.from = at,
         PlainFrame(f, Top, FALSE, pc', at, at', text), PlainFrame(g, f, TRUE, pc', at, at', text)
  PROVE  \E b : PlainStep(b, completed)
<1>1. /\ Len(stack) \in Nat /\ Len(stack) > 0 /\ stack \in Seq(Frame) /\ Chain(stack)
      /\ Top = stack[Len(stack)]
  BY InvFacts DEF Top
<1>2. Spanned(Len(stack), completed)
  BY SpanPushTwo
<1>3. /\ Len(stack') = Len(stack) + 2
      /\ stack'[Len(stack) + 1] = f /\ stack'[Len(stack) + 2] = g
      /\ \A i \in 1 .. Len(stack) : stack'[i] = stack[i]
  <2>1. stack' = Append(Append(stack, f), g)
    BY <1>1, TwoPushed
  <2>2. /\ Append(stack, f) \in Seq(Frame) /\ Len(Append(stack, f)) = Len(stack) + 1
        /\ Append(stack, f)[Len(stack) + 1] = f
        /\ \A i \in 1 .. Len(stack) : Append(stack, f)[i] = stack[i]
    BY <1>1, AppendProperties
  <2> QED BY <1>1, <2>1, <2>2, AppendProperties
<1>4. ASSUME NEW i \in Len(stack) + 1 .. Len(stack')
      PROVE  PlainFrame(stack'[i], stack'[i - 1], i = Len(stack'), pc', at, at', text)
  <2>1. CASE i = Len(stack) + 1
    <3>1. i - 1 = Len(stack) /\ i # Len(stack')
      BY <1>1, <1>3, <2>1
    <3>2. stack'[i] = f /\ stack'[i - 1] = Top /\ (i = Len(stack')) = FALSE
      BY <1>1, <1>3, <2>1, <3>1
    <3> QED BY <3>2
  <2>2. CASE i = Len(stack) + 2
    <3>1. i - 1 = Len(stack) + 1 /\ i = Len(stack')
      BY <1>1, <1>3, <2>2
    <3>2. stack'[i] = g /\ stack'[i - 1] = f /\ (i = Len(stack')) = TRUE
      BY <1>1, <1>3, <2>2, <3>1
    <3> QED BY <3>2
  <2> QED BY <1>1, <1>3, <2>1, <2>2
<1>5. Top.fn = "Expression" =>
        Start(stack', pc', value', at', Len(stack)) = Start(stack, pc, value, at, Len(stack))
  BY <1>1, <1>3 DEF Start
<1> QED BY <1>1, <1>2, <1>4, <1>5 DEF PlainStep

LEMMA PlainLeave ==
  ASSUME ParserInv, SpanInv, NEW completed, nodes' = nodes \cup completed,
         completed \subseteq Node, at' \in Nat, at <= at',
         NEW b \in 1 .. Len(stack) - 1, stack' \in Seq(Frame), Len(stack') = b,
         \A i \in 1 .. b : stack'[i] = stack[i],
         \A n \in completed :
           /\ Cut(b, n.first) /\ n.first <= n.last + 1 /\ n.last \in {at - 1, at' - 1}
           /\ n.kind \notin SpecialKinds,
         pc # "Selector", pc' \notin {"Selector", "Fail"}, stack[b].fn # "ExpressionList",
         stack[b].fn = "Expression" => pc' = "Return" /\ value'.first = stack[b + 1].from,
         pc' = "Return" =>
           /\ value' \in completed /\ value'.last = at' - 1 /\ at < at' /\ value'.first < at'
           /\ \A n \in completed : value'.first <= n.first
           /\ stack[b].fn \notin Bodied \cup {"Statement", "Root", "Braces"}
  PROVE  \E c : PlainStep(c, completed)
<1>1. Len(stack) \in Nat /\ b \in 0 .. Len(stack) /\ b \in Nat /\ b > 0 /\ b < Len(stack)
  BY InvFacts
<1>2. Top' = stack[b]
  BY <1>1 DEF Top
<1>3. /\ \A n \in completed :
           /\ Cut(b, n.first) /\ n.first <= n.last + 1 /\ n.last \in {at - 1, at' - 1}
      /\ pc' = "Return" =>
           /\ value' \in nodes' /\ value'.last = at' - 1 /\ Cut(b, value'.first)
           /\ Top'.fn \notin {"Root", "Braces"} => value'.first < at'
           /\ \A n \in completed : value'.first <= n.first
  OBVIOUS
<1>4. Spanned(b, completed)
  BY <1>1, <1>3, SpanLeave
<1>5. \A i \in b + 1 .. Len(stack') : FALSE
  BY <1>1
<1>6. stack[b].fn = "Expression" =>
        Start(stack', pc', value', at', b) = Start(stack, pc, value, at, b)
  BY <1>1 DEF Start
<1>7. PlainStep(b, completed)
  BY <1>1, <1>2, <1>4, <1>5, <1>6 DEF PlainStep, PlainValue
<1> QED BY <1>7

LEMMA PlainReplace ==
  ASSUME ParserInv, SpanInv, NEW completed, nodes' = nodes \cup completed,
         completed \subseteq Node, at' \in Nat, at <= at',
         NEW b \in 0 .. Len(stack) - 1, NEW f \in Frame,
         stack' \in Seq(Frame), Len(stack') = b + 1, stack'[b + 1] = f,
         \A i \in 1 .. b : stack'[i] = stack[i],
         Marked(f) => /\ f.fn = stack[b + 1].fn /\ f.from = stack[b + 1].from
                      /\ \A n \in completed : Edge(f) <= n.first
                      /\ pc' # "Return",
         \A n \in completed :
           /\ Cut(b, n.first) /\ n.first <= n.last + 1 /\ n.last \in {at - 1, at' - 1}
           /\ n.kind \notin SpecialKinds,
         pc # "Selector", pc' \notin {"Selector", "Fail"},
         b > 0 => /\ stack[b].fn \notin {"Expression", "ExpressionList"}
                  /\ PlainFrame(f, stack[b], TRUE, pc', at, at', text),
         b = 0 => f.fn = "Root",
         pc' = "Return" => /\ pc = "Return" /\ value' = value /\ completed = {}
                           /\ UNCHANGED <<sourceVars, significance>>
                           /\ f.fn = "Expression" /\ Top.fn \notin {"Root", "Braces"}
  PROVE  \E c : PlainStep(c, completed)
<1>1. /\ Len(stack) \in Nat /\ b \in Nat /\ b \in 0 .. Len(stack) - 1
      /\ b + 1 \in 1 .. Len(stack) /\ at \in Nat
  BY InvFacts
<1>2. Top' = f
  BY <1>1 DEF Top
<1>3. Marked(f) => Edge(f) <= at'
  <2>1. SUFFICES ASSUME Marked(f) PROVE Edge(f) <= at'
    OBVIOUS
  <2>2. Marked(stack[b + 1]) /\ Edge(f) = Edge(stack[b + 1])
    BY <2>1 DEF Marked, Edge
  <2>3. Edge(stack[b + 1]) \in Nat /\ Edge(stack[b + 1]) <= at
    BY <1>1, <2>2, FromBehind
  <2> QED BY <1>1, <2>2, <2>3
<1>4. Spanned(b, completed)
  <2>1. pc' = "Return" => at' = at
    BY DEF sourceVars
  <2>2. \A n \in completed :
          /\ Cut(b, n.first) /\ n.first <= n.last + 1 /\ n.last \in {at - 1, at' - 1}
    OBVIOUS
  <2> QED BY <1>1, <1>2, <1>3, <2>1, <2>2, SpanReplace
<1>5. \A i \in b + 1 .. Len(stack') :
        i = b + 1 /\ i - 1 = b /\ (i = Len(stack')) = TRUE /\ (b > 0 => stack'[i - 1] = stack[b])
  BY <1>1
<1>6. \A i \in b + 1 .. Len(stack') :
        PlainFrame(stack'[i], stack'[i - 1], i = Len(stack'), pc', at, at', text)
  <2>1. CASE b > 0
    BY <1>5, <2>1
  <2>2. CASE b = 0
    <3>1. \A below, last : PlainFrame(f, below, last, pc', at, at', text)
      BY <2>2 DEF PlainFrame, Infixes, Prefixed
    <3> QED BY <1>5, <3>1
  <2> QED BY <1>1, <2>1, <2>2
<1>7. pc' = "Return" =>
        Top'.fn \notin Bodied \cup {"Statement", "Root", "Braces"} /\ PlainValue(completed)
  <2>1. "Expression" \notin Bodied
    BY LastPartFunctions DEF Bodied, Operands
  <2> QED BY <1>2, <2>1 DEF PlainValue
<1>8. PlainStep(b, completed)
  BY <1>1, <1>4, <1>6, <1>7 DEF PlainStep
<1> QED BY <1>8

LEMMA BodiedAre ==
  Bodied = {"FunctionDefinition", "For", "While", "Repeat", "Unary", "Binary", "If", "Else"}
  BY LastPartFunctions DEF Bodied, Operands

LEMMA SpecialKindsAre ==
  SpecialKinds = InfixKinds \cup
                 {"R_FUNCTION_DEFINITION", "R_FOR_STATEMENT", "R_WHILE_STATEMENT",
                  "R_REPEAT_STATEMENT", "R_UNARY_EXPRESSION", "R_BINARY_EXPRESSION",
                  "R_IF_STATEMENT", "R_ELSE_CLAUSE", "R_EXPRESSION_LIST"}
<1>1. LastParts = {"R_FUNCTION_DEFINITION", "R_FOR_STATEMENT", "R_WHILE_STATEMENT",
                   "R_REPEAT_STATEMENT", "R_UNARY_EXPRESSION", "R_BINARY_EXPRESSION",
                   "R_IF_STATEMENT", "R_ELSE_CLAUSE"}
  BY DEF LastParts, LastPartNode
<1> QED BY <1>1 DEF SpecialKinds

LEMMA ValuesArePlain ==
  \A kind \in ValueStart : ValueNode(kind) \notin SpecialKinds
  BY SpecialKindsAre DEF ValueStart, ValueNode, InfixKinds, ValueKeywords, Identifiers, Dots

\* Functions whose frames and nodes are not of operators.
PlainFunctions == Functions \ (Infixes \cup {"Statement", "ExpressionList", "Expression"})

LEMMA PlainCall ==
  ASSUME ParserInv, NEW fn \in PlainFunctions, fn \in Prefixed => text[at].kind \in Openers(fn)
  PROVE  /\ Call(fn, at) \in Frame /\ Call(fn, at).fn = fn /\ Call(fn, at).from = at
         /\ Marked(Call(fn, at))
         /\ \A below, last, step, next :
              PlainFrame(Call(fn, at), below, last, step, at, next, text)
<1>1. at \in Nat /\ fn \in Functions
  BY InvFacts DEF PlainFunctions
<1>2. PICK f \in Frame : f = Call(fn, at) /\ f.fn = fn /\ f.from = at
  BY <1>1, FrameTypes DEF Call
<1>3. fn \notin Infixes \cup {"Statement", "ExpressionList", "Expression"}
  BY DEF PlainFunctions
<1>4. Marked(f)
  BY <1>2, <1>3 DEF Marked
<1>5. \A below, last, step, next : PlainFrame(f, below, last, step, at, next, text)
  BY <1>2, <1>3 DEF PlainFrame
<1> QED BY <1>2, <1>4, <1>5

LEMMA BeginsHere ==
  ASSUME ParserInv, NEW f \in Frame, f.from = at, NEW completed, at' \in Nat, at <= at',
         at < at' \/ f.fn \in Loose, f.fn \in Lists => completed = {}
  PROVE  Begins(f, completed) /\ Edge(f) <= at'
<1>1. at \in Nat
  BY InvFacts
<1>2. Edge(f) <= at'
  BY <1>1 DEF Edge
<1> QED BY <1>2 DEF Begins

LEMMA PlainExpression ==
  ASSUME NEW bp \in 0 .. MaxPower, NEW below, NEW tokens, below.fn # "Statement",
         below.fn \in Bodied =>
           below.fn # "Binary" /\ bp = Power(below.fn, tokens[below.from].kind)
  PROVE  /\ Expression(bp) \in Frame /\ ~Marked(Expression(bp))
         /\ Expression(bp).fn = "Expression"
         /\ \A a, next : PlainFrame(Expression(bp), below, TRUE, "Prefix", a, next, tokens)
<1>1. PICK f \in Frame : f = Expression(bp) /\ f.fn = "Expression" /\ f.bp = bp
  BY FrameTypes DEF Expression, Call
<1>2. ~Marked(f)
  BY <1>1 DEF Marked
<1>3. \A a, next : PlainFrame(f, below, TRUE, "Prefix", a, next, tokens)
  BY <1>1 DEF PlainFrame, Infixes, Prefixed
<1> QED BY <1>1, <1>2, <1>3

LEMMA Moved ==
  ASSUME ParserInv, Consume({}) \/ Complete({})
  PROVE  /\ nodes' = nodes \cup {} /\ Fresh({})
         /\ at' \in Nat /\ at <= at' /\ at \in Nat
<1>1. at \in Nat /\ Fresh({})
  BY InvFacts DEF Fresh
<1>2. CASE Consume({})
  <2>1. nodes' = nodes \cup {} /\ at' \in Nat /\ at < at'
    BY <1>2, Consumed
  <2> QED BY <1>1, <2>1
<1>3. CASE Complete({})
  BY <1>1, <1>3, Completed
<1> QED BY <1>2, <1>3

LEMMA EnterOne ==
  ASSUME ParserInv, SpanInv, Consume({}), NEW fn \in PlainFunctions,
         fn \in Prefixed => text[at].kind \in Openers(fn),
         stack' = Append(stack, Call(fn, at)),
         pc # "Selector", pc' \notin {"Selector", "Fail", "Return"}, Top.fn # "ExpressionList",
         Top.fn = "Expression" => pc = "Prefix"
  PROVE  \E b, completed : PlainStep(b, completed)
<1>1. nodes' = nodes \cup {} /\ at' \in Nat /\ at < at' /\ at \in Nat
  BY Consumed, InvFacts
<1>2. PICK f \in Frame :
        /\ stack' = Append(stack, f) /\ f.from = at /\ Marked(f)
        /\ PlainFrame(f, Top, TRUE, pc', at, at', text)
  BY PlainCall
<1>3. Begins(f, {})
  BY <1>1, <1>2, BeginsHere
<1>4. Fresh({}) /\ at <= at'
  BY <1>1 DEF Fresh
<1>5. \E b : PlainStep(b, {})
  BY <1>1, <1>2, <1>3, <1>4, PlainPush
<1> QED BY <1>5

LEMMA EnterTwo ==
  ASSUME ParserInv, SpanInv, Consume({}), NEW fn \in PlainFunctions, NEW bp \in 0 .. MaxPower,
         fn \in Prefixed => text[at].kind \in Openers(fn),
         stack' = stack \o <<Call(fn, at), Expression(bp)>>,
         pc # "Selector", pc' = "Prefix", Top.fn # "ExpressionList",
         Top.fn = "Expression" => pc = "Prefix",
         fn \in Bodied => bp = Power(fn, text[at].kind)
  PROVE  \E b, completed : PlainStep(b, completed)
<1>1. nodes' = nodes \cup {} /\ at' \in Nat /\ at < at' /\ at \in Nat
  BY Consumed, InvFacts
<1>2. PICK f \in Frame :
        /\ f = Call(fn, at) /\ f.from = at /\ f.fn = fn /\ Marked(f)
        /\ PlainFrame(f, Top, FALSE, pc', at, at', text)
  BY PlainCall
<1>3. fn \notin Infixes \cup {"Statement"}
  BY DEF PlainFunctions
<1>4. PICK g \in Frame :
        /\ g = Expression(bp) /\ ~Marked(g)
        /\ PlainFrame(g, f, TRUE, "Prefix", at, at', text)
  BY <1>2, <1>3, PlainExpression DEF Infixes
<1>5. Begins(f, {})
  BY <1>1, <1>2, BeginsHere
<1>6. Fresh({}) /\ at <= at' /\ stack' = stack \o <<f, g>>
  BY <1>1, <1>2, <1>4 DEF Fresh
<1>7. PlainFrame(g, f, TRUE, pc', at, at', text) /\ pc' \notin {"Selector", "Fail", "Return"}
  BY <1>4
<1>8. \E b : PlainStep(b, {})
  BY <1>1, <1>2, <1>4, <1>5, <1>6, <1>7, PlainPushTwo
<1> QED BY <1>8

\* An operand follows.
LEMMA EnterOperand ==
  ASSUME ParserInv, SpanInv, Consume({}) \/ Complete({}), stack' = Append(stack, Expression(0)),
         pc # "Selector", pc' = "Prefix",
         Top.fn \notin {"ExpressionList", "Expression", "Statement"} \cup Bodied
  PROVE  \E b, completed : PlainStep(b, completed)
<1>1. nodes' = nodes \cup {} /\ at' \in Nat /\ at <= at' /\ Fresh({})
  BY Moved
<1>2. 0 \in 0 .. MaxPower
  BY PowerTypes
<1>3. PICK g \in Frame :
        /\ g = Expression(0) /\ ~Marked(g)
        /\ PlainFrame(g, Top, TRUE, "Prefix", at, at', text)
  BY <1>2, PlainExpression
<1>4. stack' = Append(stack, g)
  BY <1>3
<1>5. PlainFrame(g, Top, TRUE, pc', at, at', text)
  BY <1>3
<1>6. \E b : PlainStep(b, {})
  BY <1>1, <1>3, <1>4, <1>5, PlainPush
<1> QED BY <1>6

\* A token is consumed, and may be a node of its own.
LEMMA TokenConsumed ==
  ASSUME ParserInv, NEW kind \in NodeKinds, kind \notin SpecialKinds,
         Consume({NodeWith(kind, at)})
  PROVE  /\ nodes' = nodes \cup {NodeWith(kind, at)} /\ Fresh({NodeWith(kind, at)})
         /\ at' \in Nat /\ at < at' /\ at <= at'
         /\ \A n \in {NodeWith(kind, at)} : n.kind \notin SpecialKinds
<1>1. /\ nodes' = nodes \cup {NodeWith(kind, at)} /\ at' \in Nat /\ at < at' /\ at \in Nat
      /\ CurrentEnd = at' - 1
  BY Consumed, InvFacts
<1>2. PICK n \in Node : /\ n = NodeWith(kind, at) /\ n.first = at /\ n.last = at' - 1
                        /\ n.kind = kind
  BY <1>1, NodeTypes DEF NodeWith, NodeOver
<1> QED BY <1>1, <1>2 DEF Fresh

\* The function on top of the stack goes on.
LEMMA PlainTop ==
  ASSUME ParserInv, SpanInv, NEW completed, nodes' = nodes \cup completed,
         completed \subseteq Node, at' \in Nat, at <= at', NEW f \in Frame,
         stack' = WithTop(f) \/ (stack' = stack /\ f = Top),
         Marked(f) => /\ f.fn = Top.fn /\ f.from = Top.from
                      /\ \A n \in completed : Edge(f) <= n.first
                      /\ pc' # "Return",
         \A n \in completed :
           /\ Cut(Len(stack) - 1, n.first) /\ n.first <= n.last + 1
           /\ n.last \in {at - 1, at' - 1} /\ n.kind \notin SpecialKinds,
         pc # "Selector", pc' \notin {"Selector", "Fail"},
         Top.fn # "Root" => /\ Under.fn \notin {"Expression", "ExpressionList"}
                            /\ PlainFrame(f, Under, TRUE, pc', at, at', text),
         Top.fn = "Root" => f.fn = "Root",
         pc' = "Return" => /\ pc = "Return" /\ value' = value /\ completed = {}
                           /\ UNCHANGED <<sourceVars, significance>>
                           /\ f.fn = "Expression" /\ Top.fn \notin {"Root", "Braces"}
  PROVE  \E c : PlainStep(c, completed)
<1>1. /\ Len(stack) \in Nat /\ Len(stack) > 0 /\ stack \in Seq(Frame) /\ Top = stack[Len(stack)]
  BY InvFacts DEF Top
<1>2. PICK b \in Nat : b = Len(stack) - 1
  BY <1>1
<1>3. b \in 0 .. Len(stack) - 1 /\ b + 1 = Len(stack)
  BY <1>1, <1>2
<1>4. /\ stack' \in Seq(Frame) /\ Len(stack') = b + 1 /\ stack'[b + 1] = f
      /\ \A i \in 1 .. b : stack'[i] = stack[i]
  <2>1. CASE stack' = WithTop(f)
    BY <1>2, <1>3, <2>1, StacksLeft
  <2>2. CASE stack' = stack /\ f = Top
    BY <1>1, <1>3, <2>2
  <2> QED BY <2>1, <2>2
<1>5. CASE Top.fn # "Root"
  <2>1. b > 0 /\ Under = stack[b]
    BY <1>1, <1>2, <1>5, StacksLeft
  <2>2. b > 0 => /\ stack[b].fn \notin {"Expression", "ExpressionList"}
                 /\ PlainFrame(f, stack[b], TRUE, pc', at, at', text)
    BY <1>5, <2>1
  <2>3. stack[b + 1] = Top /\ b = Len(stack) - 1 /\ b # 0
    BY <1>1, <1>2, <1>3, <2>1
  <2> QED BY <1>3, <1>4, <2>2, <2>3, PlainReplace
<1>6. CASE Top.fn = "Root"
  <2>1. b = 0
    <3>1. Chain(stack) /\ Callers["Root"] = {}
      BY InvFacts, FunctionsAre DEF Callers
    <3>2. SUFFICES ASSUME b # 0 PROVE FALSE
      OBVIOUS
    <3>3. Len(stack) \in 2 .. Len(stack)
      BY <1>1, <1>2, <3>2
    <3>4. stack[Len(stack) - 1].fn \in Callers[stack[Len(stack)].fn]
      BY <3>1, <3>3 DEF Chain
    <3> QED BY <1>1, <1>6, <3>1, <3>4
  <2>2. ~(b > 0)
    BY <2>1
  <2>3. stack[b + 1] = Top /\ b = Len(stack) - 1
    BY <1>1, <1>2, <1>3
  <2> QED BY <1>3, <1>4, <1>6, <2>2, <2>3, PlainReplace
<1> QED BY <1>5, <1>6

\* The node of what the function on top has parsed.
LEMMA TopNode ==
  ASSUME ParserInv, SpanInv, at' \in Nat, at <= at', Marked(Top), NEW kind \in NodeKinds,
         NEW last \in {at - 1, at' - 1}, last \in Nat
  PROVE  LET n == NodeOver(kind, Top.from, last) IN
         /\ n \in Node /\ Cut(Len(stack) - 1, n.first) /\ n.first <= n.last + 1
         /\ n.last \in {at - 1, at' - 1} /\ n.first = Top.from /\ n.last = last
         /\ n.kind = kind
<1>1. /\ Len(stack) \in Nat /\ Len(stack) > 0 /\ Top = stack[Len(stack)]
  BY InvFacts DEF Top
<1>2. PICK i \in 1 .. Len(stack) : i = Len(stack)
  BY <1>1
<1>3. i - 1 \in 0 .. i - 1 /\ Marked(stack[i])
  BY <1>1, <1>2
<1>4. LET n == NodeOver(kind, stack[i].from, last) IN
         /\ n \in Node /\ Cut(i - 1, n.first) /\ n.first <= n.last + 1
         /\ n.last \in {at - 1, at' - 1} /\ n.first = stack[i].from /\ n.last = last
         /\ n.kind = kind
  BY <1>3, NodeFrom
<1> QED BY <1>1, <1>2, <1>4

LEMMA ModPlain ==
  ASSUME ParserInv, SpanInv, ParseRoot \/ RootParsed
  PROVE  \E b, completed : PlainStep(b, completed)
<1> USE DEF Continue, Goto
<1>0. at \in Nat /\ CurrentEnd + 1 \in Nat /\ Top.fn = "Root" /\ Top.from \in Nat
  <2>1. pc \in {"Root", "Return"} /\ (pc = "Return" => Top.fn = "Root")
    BY DEF ParseRoot, RootParsed, Returned
  <2> QED BY <2>1, InvFacts, TopAt
<1>1. CASE ParseRoot
  <2>1. PICK from \in Nat :
          /\ stack' = Append(stack, List("ExpressionList", from, "EOF")) /\ from = at'
          /\ Consume({}) \/ Complete({})
    <3>1. CASE current = "UNICODE_BOM"
      <4>1. /\ stack' = Append(stack, List("ExpressionList", CurrentEnd + 1, "EOF"))
            /\ Consume({})
        BY <1>1, <3>1 DEF ParseRoot
      <4>2. at' = CurrentEnd + 1
        BY <4>1, Consumed
      <4> QED BY <1>0, <4>1, <4>2
    <3>2. CASE current # "UNICODE_BOM"
      <4>1. stack' = Append(stack, List("ExpressionList", at, "EOF")) /\ Complete({})
        BY <1>1, <3>2 DEF ParseRoot
      <4>2. at' = at
        BY <4>1, Completed
      <4> QED BY <1>0, <4>1, <4>2
    <3> QED BY <3>1, <3>2
  <2>2. pc = "Root" /\ pc' = "List"
    BY <1>1 DEF ParseRoot
  <2>3. nodes' = nodes \cup {} /\ at' \in Nat /\ at <= at' /\ Fresh({})
    BY <2>1, Moved
  <2>4. PICK f \in Frame : /\ f = List("ExpressionList", from, "EOF")
                           /\ f.fn = "ExpressionList" /\ f.from = from
    <3>1. "ExpressionList" \in Functions /\ "EOF" \in Closers
      BY FunctionsAre DEF Closers
    <3>2. List("ExpressionList", from, "EOF") \in Frame
      BY <3>1, FrameTypes
    <3> QED BY <3>2 DEF List, Call
  <2>5. Begins(f, {})
    BY <2>1, <2>3, <2>4 DEF Begins, Edge, Loose, Lists
  <2>6. PlainFrame(f, Top, TRUE, pc', at, at', text)
    BY <2>1, <2>2, <2>4 DEF PlainFrame, Infixes, Prefixed
  <2>7. stack' = Append(stack, f)
    BY <2>1, <2>4
  <2>8. \E b : PlainStep(b, {})
    BY <1>0, <2>2, <2>3, <2>4, <2>5, <2>6, <2>7, PlainPush
  <2> QED BY <2>8
<1>2. CASE RootParsed
  <2>1. /\ Complete({NodeBefore("R_ROOT", Top.from)}) /\ pc = "Return" /\ pc' = "Done"
        /\ stack' = stack
    BY <1>2 DEF RootParsed, Returned
  <2>2. /\ nodes' = nodes \cup {NodeBefore("R_ROOT", Top.from)}
        /\ at' \in Nat /\ at <= at' /\ at' = at
    BY <2>1, Completed
  <2>3. Top \in Frame /\ Marked(Top)
    BY <1>0, InvFacts DEF Marked
  <2>4. PICK n \in Node :
          /\ n = NodeBefore("R_ROOT", Top.from) /\ Cut(Len(stack) - 1, n.first)
          /\ n.kind = "R_ROOT" /\ n.first = Top.from
          /\ n.first <= n.last + 1 /\ n.last \in {at - 1, at' - 1}
    <3>1. at - 1 \in Nat /\ "R_ROOT" \in NodeKinds
      BY InvFacts, KindFacts
    <3> QED BY <2>2, <2>3, <3>1, TopNode DEF NodeBefore
  <2>5. n.kind \notin SpecialKinds
    BY <2>4, SpecialKindsAre DEF InfixKinds
  <2>6. Edge(Top) <= n.first
    BY <1>0, <2>4 DEF Edge, Loose
  <2>7. \E c : PlainStep(c, {n})
    BY <1>0, <2>1, <2>2, <2>3, <2>4, <2>5, <2>6, PlainTop
  <2> QED BY <2>7
<1> QED BY <1>1, <1>2

\* A construct ends with the token it consumes and is returned.
LEMMA PlainReturn ==
  ASSUME ParserInv, SpanInv, NEW kind \in NodeKinds, kind \notin SpecialKinds,
         Consume({NodeWith(kind, Top.from)}), stack' = Below,
         pc # "Selector", pc' = "Return", value' = NodeWith(kind, Top.from),
         Top.fn \notin {"Root", "Expression"},
         Under.fn \notin Bodied \cup {"Statement", "Root", "Braces", "ExpressionList"}
  PROVE  \E b, completed : PlainStep(b, completed)
<1>1. /\ nodes' = nodes \cup {NodeWith(kind, Top.from)} /\ at' \in Nat /\ at < at' /\ at \in Nat
      /\ CurrentEnd = at' - 1 /\ CurrentEnd \in Nat
  BY Consumed, InvFacts
<1>2. at <= at' /\ Marked(Top) /\ at' - 1 \in Nat /\ at' - 1 \in {at - 1, at' - 1}
  <2>1. at <= at' /\ at' - 1 \in Nat
    <3>1. at' \in Nat /\ at < at' /\ at \in Nat
      BY <1>1
    <3>2. \A a, z \in Nat : a < z => a <= z /\ z - 1 \in Nat
      OBVIOUS
    <3> QED BY <3>1, <3>2, Zenon
  <2>2. Marked(Top)
    BY DEF Marked
  <2> QED BY <2>1, <2>2
<1>3. PICK n \in Node :
        /\ n = NodeWith(kind, Top.from) /\ Cut(Len(stack) - 1, n.first)
        /\ n.kind = kind /\ n.first = Top.from /\ n.last = at' - 1
        /\ n.first <= n.last + 1 /\ n.last \in {at - 1, at' - 1}
  BY <1>1, <1>2, TopNode DEF NodeWith
<1>4. /\ Len(stack) \in Nat /\ Len(stack) > 0 /\ Top = stack[Len(stack)]
      /\ Len(stack) - 1 \in 1 .. Len(stack) - 1 /\ Under = stack[Len(stack) - 1]
      /\ Below \in Seq(Frame) /\ Len(Below) = Len(stack) - 1
      /\ \A i \in 1 .. Len(stack) - 1 : Below[i] = stack[i]
  BY StacksLeft, InvFacts DEF Top
<1>5. PICK b \in 1 .. Len(stack) - 1 : b = Len(stack) - 1
  BY <1>4
<1>6. Top.from <= at
  <2>1. PICK i \in 1 .. Len(stack) : i = Len(stack)
    BY <1>4
  <2> QED BY <1>2, <1>4, <2>1, FromBehind
<1>7. b + 1 = Len(stack) /\ stack[b + 1] = Top /\ stack[b] = Under
  BY <1>4, <1>5
<1>8. n.first < at'
  <2>1. Top.from = n.first /\ n.first \in Nat
    BY <1>3 DEF Node
  <2> QED BY <1>1, <1>6, <2>1
<1>9. n.first <= n.first
  BY <1>1, <1>3 DEF Node
<1>10. \E c : PlainStep(c, {n})
  BY <1>1, <1>2, <1>3, <1>4, <1>5, <1>7, <1>8, <1>9, PlainLeave
<1> QED BY <1>10

LEMMA ExpressionsPlain ==
  ASSUME ParserInv, SpanInv, CurrentIsLexed,
         \/ ParseUnary \/ ParseConstruct \/ ParsePrefixValue
         \/ ParseStringContent \/ ParseStringClose
  PROVE  \E b, completed : PlainStep(b, completed)
<1> USE DEF Continue, Goto, Return, Yield
<1>1. /\ {"Unary", "FunctionDefinition", "If", "While", "For", "Repeat",
          "String"} \subseteq PlainFunctions
      /\ {"Unary", "Repeat"} \subseteq Bodied /\ "String" \notin Prefixed
      /\ Openers("Unary") = UnaryOperators
      /\ Openers("FunctionDefinition") = {"FUNCTION_KW", "BACKSLASH"}
      /\ Openers("If") = {"IF_KW"} /\ Openers("While") = {"WHILE_KW"}
      /\ Openers("For") = {"FOR_KW"} /\ Openers("Repeat") = {"REPEAT_KW"}
  BY FunctionsAre, BodiedAre DEF PlainFunctions, Infixes, Prefixed, Openers
<1>2. CASE ParseUnary
  <2>1. /\ Consume({}) /\ pc = "Prefix" /\ pc' = "Prefix" /\ current \in UnaryOperators
        /\ stack' = stack \o <<Call("Unary", at), Expression(UnaryPower[current])>>
    BY <1>2 DEF ParseUnary
  <2>2. text[at].kind = current
    BY <2>1 DEF CurrentIsLexed, UnaryOperators, UnaryPower
  <2>3. UnaryPower[current] \in 0 .. MaxPower /\ UnaryPower[current] = Power("Unary", text[at].kind)
    BY <2>1, <2>2, PowerTypes DEF Power
  <2>4. Top.fn = "Expression"
    BY <2>1, TopAt
  <2> QED BY <1>1, <2>1, <2>2, <2>3, <2>4, EnterTwo
<1>3. CASE ParseConstruct
  <2>1. /\ Consume({}) /\ pc = "Prefix" /\ Top.fn = "Expression"
        /\ pc' \notin {"Selector", "Fail", "Return"}
    BY <1>3, TopAt DEF ParseConstruct
  <2>2. CASE current = "REPEAT_KW"
    <3>1. /\ stack' = stack \o <<Call("Repeat", at), Expression(FUNCTION_BODY_BP)>>
          /\ pc' = "Prefix"
      BY <1>3, <2>2 DEF ParseConstruct
    <3>2. FUNCTION_BODY_BP \in 0 .. MaxPower /\ FUNCTION_BODY_BP = Power("Repeat", text[at].kind)
      BY PowerTypes DEF Power
    <3>3. text[at].kind = "REPEAT_KW"
      BY <2>2 DEF CurrentIsLexed
    <3> QED BY <1>1, <2>1, <3>1, <3>2, <3>3, EnterTwo
  <2>3. CASE current # "REPEAT_KW"
    <3>1. PICK fn \in {"FunctionDefinition", "If", "While", "For"} :
            stack' = Append(stack, Call(fn, at)) /\ current \in Openers(fn)
      BY <1>1, <1>3, <2>3 DEF ParseConstruct
    <3>2. fn \in PlainFunctions
      BY <1>1
    <3>3. text[at].kind = current
      <4>1. current \in {"FUNCTION_KW", "BACKSLASH", "IF_KW", "WHILE_KW", "FOR_KW"}
        BY <1>3, <2>3 DEF ParseConstruct
      <4> QED BY <4>1 DEF CurrentIsLexed
    <3> QED BY <2>1, <3>1, <3>2, <3>3, EnterOne
  <2> QED BY <2>2, <2>3
<1>4. CASE ParsePrefixValue
  <2>1. pc = "Prefix" /\ Top.fn = "Expression" /\ ParseValue(stack)
    BY <1>4, TopAt DEF ParsePrefixValue
  <2>2. CASE current = "STRING_OPEN"
    <3>1. Consume({}) /\ stack' = Append(stack, Call("String", at)) /\ pc' = "String"
      BY <2>1, <2>2 DEF ParseValue
    <3> QED BY <1>1, <2>1, <3>1, EnterOne
  <2>3. CASE current # "STRING_OPEN"
    <3>1. /\ Consume({NodeWith(ValueNode(current), at)}) /\ stack' = stack /\ pc' = "Return"
          /\ current \in ValueStart /\ value' = NodeWith(ValueNode(current), at)
      BY <2>1, <2>3 DEF ParseValue
    <3>2. PICK kind \in NodeKinds : kind = ValueNode(current) /\ kind \notin SpecialKinds
      BY <3>1, KindFacts, ValuesArePlain
    <3>3. PICK n : n = NodeWith(kind, at)
      OBVIOUS
    <3>4. /\ nodes' = nodes \cup {n} /\ Fresh({n}) /\ at' \in Nat /\ at < at' /\ at <= at'
          /\ \A m \in {n} : m.kind \notin SpecialKinds
      BY <3>1, <3>2, <3>3, TokenConsumed
    <3>5. \E b : PlainStep(b, {n})
      BY <2>1, <3>1, <3>2, <3>3, <3>4, PlainStay
    <3> QED BY <3>5
  <2> QED BY <2>2, <2>3
<1>5. CASE ParseStringContent
  <2>1. Consume({}) /\ stack' = stack /\ pc = "String" /\ pc' = "StringEnd" /\ Top.fn = "String"
    BY <1>5, TopAt DEF ParseStringContent
  <2>2. nodes' = nodes \cup {} /\ Fresh({}) /\ at' \in Nat /\ at <= at'
    BY <2>1, Moved
  <2>3. \E b : PlainStep(b, {})
    BY <2>1, <2>2, PlainStay
  <2> QED BY <2>3
<1>6. CASE ParseStringClose
  <2>1. /\ Consume({NodeWith("R_STRING_VALUE", Top.from)}) /\ stack' = Below
        /\ pc \in {"String", "StringEnd"} /\ pc' = "Return"
        /\ value' = NodeWith("R_STRING_VALUE", Top.from)
    BY <1>6 DEF ParseStringClose
  <2>2. Top.fn = "String" /\ Under.fn \in {"Expression", "Extract", "Namespace", "ArgumentName"}
    BY <2>1, TopAt, UnderFacts, CallersAre
  <2>3. "R_STRING_VALUE" \in NodeKinds \ SpecialKinds
    BY KindFacts, SpecialKindsAre DEF InfixKinds
  <2>4. Under.fn \notin Bodied \cup {"Statement", "Root", "Braces", "ExpressionList"}
    BY <2>2, BodiedAre
  <2> QED BY <2>1, <2>2, <2>3, <2>4, PlainReturn
<1> QED BY <1>2, <1>3, <1>4, <1>5, <1>6

LEMMA ControlPlain ==
  ASSUME ParserInv, SpanInv, CurrentIsLexed,
         \/ ParseParenthesized \/ ParenthesizedParsed \/ ParseBraces \/ BracesParsed
         \/ ParseCondition \/ HeaderParsed \/ ParseElse
         \/ ParseForHeader \/ ParseForVariable \/ ParseForIn
  PROVE  \E b, completed : PlainStep(b, completed)
<1> USE DEF Continue, Goto, Enter, Leave, Return, Yield
<1>1. /\ {"Parenthesized", "Condition", "Braces", "Else", "ForHeader"} \subseteq PlainFunctions
      /\ {"Parenthesized", "Condition", "Braces", "ForHeader"} \cap (Bodied \cup Prefixed) = {}
      /\ Openers("Else") = {"IDENT_else"}
  BY FunctionsAre, BodiedAre DEF PlainFunctions, Infixes, Prefixed, Openers
<1>2. CASE ParseParenthesized \/ ParseCondition
  <2>1. PICK fn \in {"Parenthesized", "Condition"} :
          stack' = stack \o <<Call(fn, at), Expression(0)>>
    BY <1>2 DEF ParseParenthesized, ParseCondition
  <2>2. Consume({}) /\ pc \in {"Prefix", "Condition"} /\ pc' = "Prefix"
    BY <1>2 DEF ParseParenthesized, ParseCondition
  <2>3. Top.fn # "ExpressionList" /\ (Top.fn = "Expression" => pc = "Prefix")
    BY <2>2, TopAt
  <2>4. fn \in PlainFunctions /\ fn \notin Bodied \cup Prefixed /\ 0 \in 0 .. MaxPower
    BY <1>1, PowerTypes
  <2> QED BY <2>1, <2>2, <2>3, <2>4, EnterTwo
<1>3. CASE ParenthesizedParsed \/ BracesParsed
  <2>1. PICK kind \in {"R_PARENTHESIZED_EXPRESSION", "R_BRACED_EXPRESSIONS"} :
          Consume({NodeWith(kind, Top.from)}) /\ value' = NodeWith(kind, Top.from)
    BY <1>3 DEF ParenthesizedParsed, BracesParsed
  <2>2. /\ stack' = Below /\ pc = "Return" /\ pc' = "Return"
        /\ Top.fn \in {"Parenthesized", "Braces"}
    BY <1>3 DEF ParenthesizedParsed, BracesParsed, Returned
  <2>3. kind \in NodeKinds /\ kind \notin SpecialKinds
    BY KindFacts, SpecialKindsAre DEF InfixKinds
  <2>4. Under.fn = "Expression"
    BY <2>2, UnderFacts, CallersAre
  <2>5. Under.fn \notin Bodied \cup {"Statement", "Root", "Braces", "ExpressionList"}
    BY <2>4, BodiedAre
  <2> QED BY <2>1, <2>2, <2>3, <2>5, PlainReturn
<1>4. CASE ParseBraces
  <2>1. /\ Consume({}) /\ pc = "Prefix" /\ pc' = "List" /\ Top.fn = "Expression"
        /\ stack' = stack \o <<Call("Braces", at),
                               List("ExpressionList", CurrentEnd + 1, "R_CURLY")>>
    BY <1>4, TopAt DEF ParseBraces
  <2>2. /\ nodes' = nodes \cup {} /\ at' \in Nat /\ at < at' /\ at' = CurrentEnd + 1
        /\ at <= at' /\ Fresh({}) /\ at \in Nat
    BY <2>1, Consumed, Moved
  <2>3. PICK f \in Frame :
          /\ f = Call("Braces", at) /\ f.from = at /\ f.fn = "Braces" /\ Marked(f)
          /\ PlainFrame(f, Top, FALSE, pc', at, at', text)
    BY <1>1, PlainCall
  <2>4. PICK g \in Frame :
          /\ g = List("ExpressionList", CurrentEnd + 1, "R_CURLY") /\ g.from = at'
          /\ g.fn = "ExpressionList"
    <3>1. "ExpressionList" \in Functions /\ "R_CURLY" \in Closers /\ CurrentEnd + 1 \in Nat
      BY FunctionsAre, <2>2 DEF Closers
    <3>2. List("ExpressionList", CurrentEnd + 1, "R_CURLY") \in Frame
      BY <3>1, FrameTypes
    <3> QED BY <2>2, <3>2 DEF List, Call
  <2>5. PlainFrame(g, f, TRUE, pc', at, at', text)
    BY <2>1, <2>4 DEF PlainFrame, Infixes, Prefixed
  <2>6. Begins(f, {})
    BY <2>2, <2>3, BeginsHere
  <2>7. Begins(g, {}) /\ Edge(f) <= g.from
    BY <2>2, <2>3, <2>4 DEF Begins, Edge, Loose, Lists
  <2>8. stack' = stack \o <<f, g>>
    BY <2>1, <2>3, <2>4
  <2>9. \E b : PlainStep(b, {})
    BY <2>1, <2>2, <2>3, <2>5, <2>6, <2>7, <2>8, PlainPushTwo
  <2> QED BY <2>9
<1>5. CASE HeaderParsed
  <2>1. /\ Consume({}) /\ pc = "Return" /\ pc' = "Prefix"
        /\ Top.fn \in {"Condition", "ForHeader"}
        /\ stack' = WithTop(Expression(BodyPower(Under.fn)))
    BY <1>5 DEF HeaderParsed, Returned
  <2>2. Under.fn \in {"If", "While", "For"}
    BY <2>1, UnderFacts, CallersAre
  <2>3. PICK bp \in 0 .. MaxPower :
          bp = BodyPower(Under.fn) /\ bp = Power(Under.fn, text[Under.from].kind)
    BY <2>2, PowerTypes DEF BodyPower, Power
  <2>4. PICK f \in Frame :
          /\ f = Expression(bp) /\ ~Marked(f) /\ f.fn = "Expression"
          /\ PlainFrame(f, Under, TRUE, "Prefix", at, at', text)
    BY <2>2, <2>3, PlainExpression
  <2>5. nodes' = nodes \cup {} /\ at' \in Nat /\ at <= at' /\ Fresh({})
    BY <2>1, Moved
  <2>6. /\ stack' = WithTop(f) /\ PlainFrame(f, Under, TRUE, pc', at, at', text)
        /\ Under.fn \notin {"Expression", "ExpressionList"}
    BY <2>1, <2>2, <2>3, <2>4
  <2>7. \E c : PlainStep(c, {})
    BY <2>1, <2>4, <2>5, <2>6, PlainTop
  <2> QED BY <2>7
<1>6. CASE ParseElse
  <2>1. /\ Consume({}) /\ pc = "Return" /\ pc' = "Prefix" /\ Top.fn = "If"
        /\ stack' = stack \o <<Call("Else", at), Expression(IF_BODY_BP)>>
    BY <1>6 DEF ParseElse, Returned
  <2>2. IF_BODY_BP \in 0 .. MaxPower /\ IF_BODY_BP = Power("Else", text[at].kind)
    BY PowerTypes DEF Power
  <2>3. text[at].kind = "IDENT_else"
    BY <1>6 DEF ParseElse, ElseAllowed, CurrentIsLexed
  <2> QED BY <1>1, <2>1, <2>2, <2>3, EnterTwo
<1>7. CASE ParseForHeader
  <2>1. /\ Consume({}) /\ pc = "ForHeader" /\ pc' = "ForVariable" /\ Top.fn = "For"
        /\ stack' = Append(stack, Call("ForHeader", at))
    BY <1>7, TopAt DEF ParseForHeader
  <2> QED BY <1>1, <2>1, EnterOne
<1>8. CASE ParseForVariable
  <2>1. /\ Consume({NodeWith("R_IDENTIFIER", at)}) /\ pc = "ForVariable" /\ pc' = "ForIn"
        /\ stack' = stack /\ Top.fn = "ForHeader"
    BY <1>8, TopAt DEF ParseForVariable
  <2>2. "R_IDENTIFIER" \in NodeKinds /\ "R_IDENTIFIER" \notin SpecialKinds
    BY KindFacts, SpecialKindsAre DEF InfixKinds
  <2>3. PICK n : n = NodeWith("R_IDENTIFIER", at)
    OBVIOUS
  <2>4. /\ nodes' = nodes \cup {n} /\ Fresh({n}) /\ at' \in Nat /\ at <= at'
        /\ \A m \in {n} : m.kind \notin SpecialKinds
    BY <2>1, <2>2, <2>3, TokenConsumed
  <2>5. \E b : PlainStep(b, {n})
    BY <2>1, <2>4, PlainStay
  <2> QED BY <2>5
<1>9. CASE ParseForIn
  <2>1. /\ Consume({}) /\ pc = "ForIn" /\ pc' = "Prefix" /\ Top.fn = "ForHeader"
        /\ stack' = Append(stack, Expression(0))
    BY <1>9, TopAt DEF ParseForIn
  <2> QED BY <1>1, <2>1, EnterOperand
<1> QED BY <1>2, <1>3, <1>4, <1>5, <1>6, <1>7, <1>8, <1>9

LEMMA FunctionsPlain ==
  ASSUME ParserInv, SpanInv,
         \/ ParseParameters \/ ParseParameterName \/ ParseParameterDefault
         \/ ParseParameterNoDefault \/ ParameterDefaultParsed
         \/ ParseParameterComma \/ ParametersParsed
  PROVE  \E b, completed : PlainStep(b, completed)
<1> USE DEF Continue, Goto, Enter, Leave
<1>1. /\ {"Parameters", "Parameter", "Default"} \subseteq PlainFunctions
      /\ {"Parameters", "Default"} \cap Bodied = {}
      /\ {"Parameters", "Parameter", "Default"} \cap Prefixed = {}
  BY FunctionsAre, BodiedAre DEF PlainFunctions, Infixes, Prefixed
<1>2. /\ Len(stack) \in Nat /\ Len(stack) > 0 /\ Top = stack[Len(stack)] /\ Top \in Frame
      /\ at \in Nat /\ at - 1 \in Nat
  BY InvFacts DEF Top
<1>3. CASE ParseParameters
  <2>1. /\ Consume({}) /\ pc = "Parameters" /\ pc' = "ParameterList"
        /\ Top.fn = "FunctionDefinition" /\ stack' = Append(stack, Call("Parameters", at))
    BY <1>3, TopAt DEF ParseParameters
  <2> QED BY <1>1, <2>1, EnterOne
<1>4. CASE ParseParameterName
  <2>1. PICK kind \in NodeKinds \ SpecialKinds :
          /\ Consume({NodeWith(kind, at)}) /\ pc = "ParameterList" /\ pc' = "ParameterName"
          /\ stack' = Append(stack, Call("Parameter", at)) /\ Top.fn = "Parameters"
    <3>1. Dots \subseteq ValueStart
      BY DEF Dots, ValueStart
    <3>2. "R_IDENTIFIER" \in NodeKinds \ SpecialKinds
      BY KindFacts, SpecialKindsAre DEF InfixKinds
    <3>3. \A kind \in ValueStart : ValueNode(kind) \in NodeKinds \ SpecialKinds
      BY KindFacts, ValuesArePlain
    <3> QED BY <1>4, <3>1, <3>2, <3>3, TopAt DEF ParseParameterName
  <2>2. PICK n : n = NodeWith(kind, at)
    OBVIOUS
  <2>3. /\ nodes' = nodes \cup {n} /\ Fresh({n}) /\ at' \in Nat /\ at <= at' /\ at < at'
        /\ \A m \in {n} : m.kind \notin SpecialKinds
    BY <2>1, <2>2, TokenConsumed
  <2>4. PICK f \in Frame :
          /\ f = Call("Parameter", at) /\ f.from = at /\ f.fn = "Parameter"
          /\ PlainFrame(f, Top, TRUE, pc', at, at', text)
    BY <1>1, PlainCall
  <2>5. Begins(f, {n})
    BY <1>2, <2>3, <2>4, BeginsHere DEF Lists
  <2>6. stack' = Append(stack, f)
    BY <2>1, <2>4
  <2>7. \E b : PlainStep(b, {n})
    BY <2>1, <2>3, <2>4, <2>5, <2>6, PlainPush
  <2> QED BY <2>7
<1>5. CASE ParseParameterDefault
  <2>1. /\ Consume({}) /\ pc = "ParameterName" /\ pc' = "Prefix" /\ Top.fn = "Parameter"
        /\ stack' = stack \o <<Call("Default", at), Expression(0)>>
    BY <1>5, TopAt DEF ParseParameterDefault
  <2>2. 0 \in 0 .. MaxPower
    BY PowerTypes
  <2> QED BY <1>1, <2>1, <2>2, EnterTwo
<1>6. CASE ParseParameterNoDefault
  <2>1. /\ Complete({NodeBefore("R_PARAMETER", Top.from)}) /\ pc = "ParameterName"
        /\ pc' = "ParameterEnd" /\ stack' = Below /\ Top.fn = "Parameter"
    BY <1>6, TopAt DEF ParseParameterNoDefault
  <2>2. /\ nodes' = nodes \cup {NodeBefore("R_PARAMETER", Top.from)}
        /\ at' \in Nat /\ at <= at' /\ at' = at
    BY <2>1, Completed
  <2>3. PICK n \in Node :
          /\ n = NodeBefore("R_PARAMETER", Top.from) /\ Cut(Len(stack) - 1, n.first)
          /\ n.kind = "R_PARAMETER"
          /\ n.first <= n.last + 1 /\ n.last \in {at - 1, at' - 1}
    <3>1. "R_PARAMETER" \in NodeKinds /\ Marked(Top)
      BY <2>1, KindFacts DEF Marked
    <3> QED BY <1>2, <2>2, <3>1, TopNode DEF NodeBefore
  <2>4. n.kind \notin SpecialKinds
    BY <2>3, SpecialKindsAre DEF InfixKinds
  <2>5. Under.fn = "Parameters"
    BY <2>1, UnderFacts, CallersAre
  <2>6. PICK b \in 1 .. Len(stack) - 1 : b = Len(stack) - 1
    BY <2>1, StacksLeft
  <2>7. /\ stack' \in Seq(Frame) /\ Len(stack') = b /\ \A i \in 1 .. b : stack'[i] = stack[i]
        /\ stack[b].fn = "Parameters"
    BY <2>1, <2>5, <2>6, StacksLeft
  <2>8. \E c : PlainStep(c, {n})
    BY <2>1, <2>2, <2>3, <2>4, <2>6, <2>7, PlainLeave
  <2> QED BY <2>8
<1>7. CASE ParameterDefaultParsed
  <2>1. /\ Complete({NodeBefore("R_PARAMETER_DEFAULT", Top.from),
                     NodeBefore("R_PARAMETER", Under.from)})
        /\ pc = "Return" /\ pc' = "ParameterEnd" /\ stack' = BelowTwo /\ Top.fn = "Default"
    BY <1>7 DEF ParameterDefaultParsed, Returned, BelowTwo
  <2>2. /\ nodes' = nodes \cup {NodeBefore("R_PARAMETER_DEFAULT", Top.from),
                                NodeBefore("R_PARAMETER", Under.from)}
        /\ at' \in Nat /\ at <= at' /\ at' = at
    BY <2>1, Completed
  <2>3. Under.fn = "Parameter" /\ Len(stack) > 1 /\ Under = stack[Len(stack) - 1]
    BY <2>1, UnderFacts, CallersAre, StacksLeft
  <2>4. PICK i \in 1 .. Len(stack) : i = Len(stack)
    BY <1>2
  <2>5. PICK j \in 1 .. Len(stack) : j = Len(stack) - 1
    BY <1>2, <2>3
  <2>6. j > 1
    <3>1. j # 1
      BY <2>3, <2>5, InvFacts DEF Chain
    <3> QED BY <2>5, <3>1
  <2>7. PICK b \in 1 .. Len(stack) - 1 : b = Len(stack) - 2 /\ b = j - 1
    BY <1>2, <2>5, <2>6
  <2>8. stack[b].fn = "Parameters"
    <3>1. Chain(stack) /\ j \in 2 .. Len(stack)
      BY <2>7, InvFacts
    <3>2. stack[j - 1].fn \in Callers[stack[j].fn]
      BY <3>1 DEF Chain
    <3> QED BY <2>3, <2>5, <2>7, <3>2, CallersAre
  <2>9. /\ stack' \in Seq(Frame) /\ Len(stack') = b /\ \A k \in 1 .. b : stack'[k] = stack[k]
    BY <2>1, <2>7, StacksLeft
  <2>10. {"R_PARAMETER_DEFAULT", "R_PARAMETER"} \subseteq NodeKinds \ SpecialKinds
    BY KindFacts, SpecialKindsAre DEF InfixKinds
  <2>11. Marked(stack[i]) /\ Marked(stack[j]) /\ b \in 0 .. i - 1 /\ b \in 0 .. j - 1
    BY <1>2, <2>1, <2>3, <2>4, <2>5, <2>7 DEF Marked
  <2>12. PICK m \in Node :
          /\ m = NodeBefore("R_PARAMETER_DEFAULT", Top.from) /\ Cut(b, m.first)
          /\ m.kind = "R_PARAMETER_DEFAULT"
          /\ m.first <= m.last + 1 /\ m.last \in {at - 1, at' - 1}
    BY <1>2, <2>2, <2>4, <2>10, <2>11, NodeFrom DEF NodeBefore
  <2>13. PICK n \in Node :
          /\ n = NodeBefore("R_PARAMETER", Under.from) /\ Cut(b, n.first)
          /\ n.kind = "R_PARAMETER"
          /\ n.first <= n.last + 1 /\ n.last \in {at - 1, at' - 1}
    BY <1>2, <2>2, <2>3, <2>5, <2>10, <2>11, NodeFrom DEF NodeBefore
  <2>14. nodes' = nodes \cup {m, n} /\ {m, n} \subseteq Node
    BY <2>2, <2>12, <2>13
  <2>15. \A x \in {m, n} :
          /\ Cut(b, x.first) /\ x.first <= x.last + 1 /\ x.last \in {at - 1, at' - 1}
          /\ x.kind \notin SpecialKinds
    BY <2>10, <2>12, <2>13
  <2>16. \E c : PlainStep(c, {m, n})
    BY <2>1, <2>2, <2>7, <2>8, <2>9, <2>14, <2>15, PlainLeave
  <2> QED BY <2>16
<1>8. CASE ParseParameterComma
  <2>1. /\ Consume({}) /\ pc = "ParameterEnd" /\ pc' = "ParameterList" /\ Top.fn = "Parameters"
        /\ stack' = WithTop([Top EXCEPT !.previous = "Comma"])
    BY <1>8, TopAt DEF ParseParameterComma
  <2>2. PICK f \in Frame : /\ f = [Top EXCEPT !.previous = "Comma"] /\ f.fn = "Parameters"
                           /\ f.from = Top.from
    BY <1>2, <2>1 DEF Frame
  <2>3. PlainFrame(f, Under, TRUE, pc', at, at', text)
    BY <2>2 DEF PlainFrame, Infixes, Prefixed
  <2>4. Under.fn \notin {"Expression", "ExpressionList"}
    BY <2>1, UnderFacts, CallersAre
  <2>5. nodes' = nodes \cup {} /\ at' \in Nat /\ at <= at' /\ Fresh({})
    BY <2>1, Moved
  <2>6. \E c : PlainStep(c, {})
    BY <2>1, <2>2, <2>3, <2>4, <2>5, PlainTop
  <2> QED BY <2>6
<1>9. CASE ParametersParsed
  <2>1. /\ Consume({NodeBefore("R_PARAMETER_LIST", Top.from + 1),
                    NodeWith("R_PARAMETERS", Top.from)})
        /\ pc \in {"ParameterList", "ParameterEnd"} /\ pc' = "Prefix" /\ Top.fn = "Parameters"
        /\ stack' = WithTop(Expression(FUNCTION_BODY_BP))
    BY <1>9, TopAt DEF ParametersParsed, ParametersEnd
  <2>2. /\ nodes' = nodes \cup {NodeBefore("R_PARAMETER_LIST", Top.from + 1),
                                NodeWith("R_PARAMETERS", Top.from)}
        /\ at' \in Nat /\ at < at' /\ CurrentEnd = at' - 1
    BY <2>1, Consumed
  <2>3. at <= at' /\ CurrentEnd \in Nat
    BY <2>1, Consumed
  <2>4. {"R_PARAMETER_LIST", "R_PARAMETERS"} \subseteq NodeKinds \ SpecialKinds
    BY KindFacts, SpecialKindsAre DEF InfixKinds
  <2>5. PICK m \in Node :
          /\ m = NodeBefore("R_PARAMETER_LIST", Top.from + 1) /\ Cut(Len(stack) - 1, m.first)
          /\ m.kind = "R_PARAMETER_LIST"
          /\ m.first <= m.last + 1 /\ m.last \in {at - 1, at' - 1}
    <3>1. Len(stack) - 1 \in 0 .. Len(stack) - 1 /\ Top.fn \in Lists
      BY <1>2, <2>1 DEF Lists
    <3> QED BY <2>2, <2>3, <2>4, <3>1, ListFrom
  <2>6. PICK n \in Node :
          /\ n = NodeWith("R_PARAMETERS", Top.from) /\ Cut(Len(stack) - 1, n.first)
          /\ n.kind = "R_PARAMETERS"
          /\ n.first <= n.last + 1 /\ n.last \in {at - 1, at' - 1}
    <3>1. Marked(Top) /\ CurrentEnd \in {at - 1, at' - 1}
      BY <2>1, <2>2 DEF Marked
    <3> QED BY <2>2, <2>3, <2>4, <3>1, TopNode DEF NodeWith
  <2>7. Under.fn = "FunctionDefinition"
    BY <2>1, UnderFacts, CallersAre
  <2>8. PICK bp \in 0 .. MaxPower :
          bp = FUNCTION_BODY_BP /\ bp = Power(Under.fn, text[Under.from].kind)
    BY <2>7, PowerTypes DEF Power
  <2>9. PICK f \in Frame :
          /\ f = Expression(bp) /\ ~Marked(f) /\ f.fn = "Expression"
          /\ PlainFrame(f, Under, TRUE, "Prefix", at, at', text)
    BY <2>7, <2>8, PlainExpression
  <2>10. /\ nodes' = nodes \cup {m, n} /\ {m, n} \subseteq Node /\ stack' = WithTop(f)
         /\ PlainFrame(f, Under, TRUE, pc', at, at', text)
    BY <2>1, <2>2, <2>5, <2>6, <2>8, <2>9
  <2>11. \A x \in {m, n} :
           /\ Cut(Len(stack) - 1, x.first) /\ x.first <= x.last + 1
           /\ x.last \in {at - 1, at' - 1} /\ x.kind \notin SpecialKinds
    BY <2>4, <2>5, <2>6
  <2>12. \E c : PlainStep(c, {m, n})
    BY <2>1, <2>2, <2>3, <2>7, <2>9, <2>10, <2>11, PlainTop
  <2> QED BY <2>12
<1> QED BY <1>3, <1>4, <1>5, <1>6, <1>7, <1>8, <1>9

\* Functions that begin at the current token.
LEMMA PlainGrow ==
  ASSUME ParserInv, SpanInv, NEW completed, nodes' = nodes \cup completed, Fresh(completed),
         at' \in Nat, at <= at',
         stack' \in Seq(Frame), Len(stack) < Len(stack'),
         \A i \in 1 .. Len(stack) : stack'[i] = stack[i],
         \A i \in Len(stack) + 1 .. Len(stack') :
           \/ stack'[i].fn \in {"Argument", "ArgumentName", "String"} /\ stack'[i].from = at
           \/ /\ stack'[i] = Expression(0) /\ i = Len(stack') /\ i > Len(stack) + 1
              /\ stack'[i - 1].fn = "Argument",
         \A n \in completed : n.kind \notin SpecialKinds,
         pc # "Selector", pc' \notin {"Selector", "Fail"},
         Top.fn \notin {"Expression", "ExpressionList"},
         pc' = "Return" => value' \in completed /\ Top'.fn = "ArgumentName"
  PROVE  \E b : PlainStep(b, completed)
<1>1. /\ Len(stack) \in Nat /\ Len(stack) > 0 /\ Top = stack[Len(stack)] /\ at \in Nat
      /\ stack \in Seq(Frame) /\ Len(stack') \in Nat
  BY InvFacts DEF Top
<1>2. ASSUME NEW i \in Len(stack) + 1 .. Len(stack')
      PROVE  /\ Marked(stack'[i]) => stack'[i].from = at /\ Edge(stack'[i]) = at
                                     /\ Begins(stack'[i], completed)
             /\ PlainFrame(stack'[i], stack'[i - 1], i = Len(stack'), pc', at, at', text)
  <2>1. PICK f : f = stack'[i]
    OBVIOUS
  <2>2. CASE f.fn \in {"Argument", "ArgumentName", "String"} /\ f.from = at
    <3>1. Edge(f) = at /\ f.fn \notin Lists
      BY <2>2 DEF Edge, Loose, Lists
    <3>2. Begins(f, completed)
      BY <2>2, <3>1 DEF Begins
    <3>3. \A below, last, step, next, tokens :
            PlainFrame(f, below, last, step, at, next, tokens)
      BY <2>2 DEF PlainFrame, Infixes, Prefixed
    <3> QED BY <2>1, <2>2, <3>1, <3>2, <3>3
  <2>3. CASE f = Expression(0) /\ i = Len(stack') /\ stack'[i - 1].fn = "Argument"
    <3>1. f.fn = "Expression" /\ f.bp = 0
      <4>1. Expression(0).fn = "Expression" /\ Expression(0).bp = 0
        BY PowerTypes, FrameTypes DEF Expression, Call
      <4> QED BY <2>3, <4>1, Zenon
    <3>2. "Argument" \notin Bodied
      BY BodiedAre
    <3>3. \A below, step, next, tokens :
            below.fn = "Argument" => PlainFrame(f, below, TRUE, step, at, next, tokens)
      BY <3>1, <3>2 DEF PlainFrame, Infixes, Prefixed
    <3>4. ~Marked(f)
      BY <3>1 DEF Marked
    <3>5. PICK below : below = stack'[i - 1] /\ below.fn = "Argument"
      BY <2>3
    <3>6. PlainFrame(f, below, TRUE, pc', at, at', text)
      BY <3>3, <3>5, Zenon
    <3>7. (i = Len(stack')) = TRUE
      BY <2>3
    <3> QED BY <2>1, <3>4, <3>5, <3>6, <3>7, Zenon
  <2> QED BY <1>2, <2>1, <2>2, <2>3
<1>3. ASSUME NEW i \in Len(stack) + 1 .. Len(stack'), Marked(stack'[i])
      PROVE  /\ Begins(stack'[i], completed)
             /\ \A j \in i + 1 .. Len(stack') :
                  Marked(stack'[j]) => Edge(stack'[i]) <= stack'[j].from
             /\ pc' = "Return" => Edge(stack'[i]) <= at
  <2>1. Edge(stack'[i]) = at /\ Begins(stack'[i], completed)
    BY <1>2, <1>3
  <2>2. \A j \in i + 1 .. Len(stack') : j \in Len(stack) + 1 .. Len(stack')
    BY <1>1
  <2>3. \A j \in i + 1 .. Len(stack') : Marked(stack'[j]) => stack'[j].from = at
    BY <1>2, <2>2
  <2> QED BY <1>1, <2>1, <2>3
<1>4. Spanned(Len(stack), completed)
  <2>1. Len(stack) <= Len(stack') /\ (pc' = "Return" => value' \in completed)
    BY <1>1
  <2>2. \A i \in Len(stack) + 1 .. Len(stack') :
           Marked(stack'[i]) =>
             /\ Begins(stack'[i], completed)
             /\ \A j \in i + 1 .. Len(stack') :
                  Marked(stack'[j]) => Edge(stack'[i]) <= stack'[j].from
             /\ pc' = "Return" => Edge(stack'[i]) <= at
    BY <1>3, Zenon
  <2> QED BY <2>1, <2>2, SpanGrow
<1>5. pc' = "Return" =>
        Top'.fn \notin Bodied \cup {"Statement", "Root", "Braces"} /\ PlainValue(completed)
  <2>1. "ArgumentName" \notin Bodied
    BY BodiedAre
  <2>2. pc' = "Return" => at < at' /\ value' \in completed
    BY DEF Fresh
  <2> QED BY <2>1, <2>2 DEF PlainValue
<1>6. \A i \in Len(stack) + 1 .. Len(stack') :
        PlainFrame(stack'[i], stack'[i - 1], i = Len(stack'), pc', at, at', text)
  BY <1>2
<1> QED BY <1>1, <1>4, <1>5, <1>6 DEF PlainStep

LEMMA ArgumentPlain ==
  ASSUME ParserInv, SpanInv, ParseArgument
  PROVE  \E b, completed : PlainStep(b, completed)
<1> USE DEF Continue, Goto, Return, Yield
<1>1. /\ stack \in Seq(Frame) /\ Len(stack) \in Nat /\ at \in Nat
      /\ pc = "Arguments" /\ Top.fn = "Arguments"
  BY InvFacts, TopAt DEF ParseArgument
<1>0. {"Argument", "ArgumentName", "String"} \subseteq PlainFunctions \ Prefixed
  BY FunctionsAre DEF PlainFunctions, Infixes, Prefixed
<1>2. PICK f \in Frame : f = Call("Argument", at) /\ f.fn = "Argument" /\ f.from = at
  BY <1>0, PlainCall
<1>3. PICK g \in Frame : g = Call("ArgumentName", at) /\ g.fn = "ArgumentName" /\ g.from = at
  BY <1>0, PlainCall
<1>4. PICK h \in Frame : h = Call("String", at) /\ h.fn = "String" /\ h.from = at
  BY <1>0, PlainCall
<1>5. PICK e \in Frame : e = Expression(0)
  BY PowerTypes, FrameTypes
<1>6. PICK s \in Seq(Frame) :
        /\ s = Append(stack, f) /\ Len(s) = Len(stack) + 1 /\ s[Len(stack) + 1] = f
        /\ \A i \in 1 .. Len(stack) : s[i] = stack[i]
  <2>1. /\ Append(stack, f) \in Seq(Frame) /\ Len(Append(stack, f)) = Len(stack) + 1
        /\ Append(stack, f)[Len(stack) + 1] = f
        /\ \A i \in 1 .. Len(stack) : Append(stack, f)[i] = stack[i]
    BY <1>1, AppendProperties
  <2> QED BY <2>1
<1>7. ASSUME NEW x \in Frame
      PROVE  /\ Append(s, x) \in Seq(Frame) /\ Len(Append(s, x)) = Len(stack) + 2
             /\ Append(s, x)[Len(stack) + 1] = f /\ Append(s, x)[Len(stack) + 2] = x
             /\ \A i \in 1 .. Len(stack) : Append(s, x)[i] = stack[i]
  <2>1. /\ Append(s, x) \in Seq(Frame) /\ Len(Append(s, x)) = Len(s) + 1
        /\ Append(s, x)[Len(s) + 1] = x
        /\ \A i \in 1 .. Len(s) : Append(s, x)[i] = s[i]
    BY <1>6, AppendProperties
  <2> QED BY <1>1, <1>6, <2>1
<1>8. CASE current \notin ArgumentNameStart
  <2>1. Complete({}) /\ pc' = "Prefix" /\ stack' = Append(s, e)
    BY <1>2, <1>5, <1>6, <1>8 DEF ParseArgument
  <2>2. nodes' = nodes \cup {} /\ Fresh({}) /\ at' \in Nat /\ at <= at'
    BY <2>1, Moved
  <2>3. /\ stack' \in Seq(Frame) /\ Len(stack') = Len(stack) + 2
        /\ stack'[Len(stack) + 1] = f /\ stack'[Len(stack) + 2] = e
        /\ \A i \in 1 .. Len(stack) : stack'[i] = stack[i]
    BY <1>7, <2>1
  <2>4. ASSUME NEW i \in Len(stack) + 1 .. Len(stack')
        PROVE  \/ stack'[i].fn \in {"Argument", "ArgumentName", "String"} /\ stack'[i].from = at
               \/ /\ stack'[i] = Expression(0) /\ i = Len(stack') /\ i > Len(stack) + 1
                  /\ stack'[i - 1].fn = "Argument"
    <3>1. i = Len(stack) + 1 \/ (i = Len(stack) + 2 /\ i - 1 = Len(stack) + 1)
      BY <1>1, <2>3
    <3> QED BY <1>1, <1>2, <1>5, <2>3, <3>1
  <2>5. Len(stack) < Len(stack')
    BY <1>1, <2>3
  <2>6. \E b : PlainStep(b, {})
    BY <1>1, <2>1, <2>2, <2>3, <2>4, <2>5, PlainGrow
  <2> QED BY <2>6
<1>9. CASE current \in ArgumentNameStart
  <2>1. ParseValue(Append(s, g))
    BY <1>2, <1>3, <1>6, <1>9 DEF ParseArgument
  <2>2. PICK t \in Seq(Frame) :
          /\ t = Append(s, g) /\ Len(t) = Len(stack) + 2
          /\ t[Len(stack) + 1] = f /\ t[Len(stack) + 2] = g
          /\ \A i \in 1 .. Len(stack) : t[i] = stack[i]
    BY <1>7
  <2>3. CASE current = "STRING_OPEN"
    <3>1. Consume({}) /\ pc' = "String" /\ stack' = Append(t, h)
      BY <1>4, <2>1, <2>2, <2>3 DEF ParseValue
    <3>2. nodes' = nodes \cup {} /\ Fresh({}) /\ at' \in Nat /\ at <= at'
      BY <3>1, Moved
    <3>3. PICK u \in Seq(Frame) :
            /\ u = Append(t, h) /\ Len(u) = Len(t) + 1 /\ u[Len(t) + 1] = h
            /\ \A i \in 1 .. Len(t) : u[i] = t[i]
      <4>1. /\ Append(t, h) \in Seq(Frame) /\ Len(Append(t, h)) = Len(t) + 1
            /\ Append(t, h)[Len(t) + 1] = h
            /\ \A i \in 1 .. Len(t) : Append(t, h)[i] = t[i]
        BY AppendProperties
      <4> QED BY <4>1
    <3>9. /\ Len(u) = Len(stack) + 3
          /\ u[Len(stack) + 1] = f /\ u[Len(stack) + 2] = g /\ u[Len(stack) + 3] = h
          /\ \A i \in 1 .. Len(stack) : u[i] = stack[i]
      BY <1>1, <2>2, <3>3
    <3>4. /\ stack' \in Seq(Frame) /\ Len(stack') = Len(stack) + 3
          /\ stack'[Len(stack) + 1] = f /\ stack'[Len(stack) + 2] = g
          /\ stack'[Len(stack) + 3] = h
          /\ \A i \in 1 .. Len(stack) : stack'[i] = stack[i]
      BY <3>1, <3>3, <3>9
    <3>5. \A i \in Len(stack) + 1 .. Len(stack') :
            i = Len(stack) + 1 \/ i = Len(stack) + 2 \/ i = Len(stack) + 3
      <4>1. Len(stack) \in Nat /\ Len(stack') = Len(stack) + 3
        BY <1>1, <3>4
      <4> QED BY <4>1
    <3>6. ASSUME NEW i \in Len(stack) + 1 .. Len(stack')
          PROVE  stack'[i].fn \in {"Argument", "ArgumentName", "String"} /\ stack'[i].from = at
      BY <1>2, <1>3, <1>4, <3>4, <3>5
    <3>7. Len(stack) < Len(stack')
      BY <1>1, <3>4
    <3>8. \E b : PlainStep(b, {})
      BY <1>1, <3>1, <3>2, <3>4, <3>6, <3>7, PlainGrow
    <3> QED BY <3>8
  <2>4. CASE current # "STRING_OPEN"
    <3>1. /\ Consume({NodeWith(ValueNode(current), at)}) /\ stack' = t /\ pc' = "Return"
          /\ current \in ValueStart /\ value' = NodeWith(ValueNode(current), at)
      BY <2>1, <2>2, <2>4 DEF ParseValue
    <3>2. PICK kind \in NodeKinds : kind = ValueNode(current) /\ kind \notin SpecialKinds
      BY <3>1, KindFacts, ValuesArePlain
    <3>3. PICK n : n = NodeWith(kind, at)
      OBVIOUS
    <3>4. /\ nodes' = nodes \cup {n} /\ Fresh({n}) /\ at' \in Nat /\ at <= at'
          /\ \A m \in {n} : m.kind \notin SpecialKinds
      BY <3>1, <3>2, <3>3, TokenConsumed
    <3>5. \A i \in Len(stack) + 1 .. Len(stack') : i = Len(stack) + 1 \/ i = Len(stack) + 2
      BY <1>1, <2>2, <3>1
    <3>6. ASSUME NEW i \in Len(stack) + 1 .. Len(stack')
          PROVE  stack'[i].fn \in {"Argument", "ArgumentName", "String"} /\ stack'[i].from = at
      BY <1>2, <1>3, <2>2, <3>1, <3>5
    <3>7. Len(stack) < Len(stack') /\ Top'.fn = "ArgumentName"
      BY <1>1, <1>3, <2>2, <3>1 DEF Top
    <3>8. \E b : PlainStep(b, {n})
      BY <1>1, <2>2, <3>1, <3>2, <3>3, <3>4, <3>6, <3>7, PlainGrow
    <3> QED BY <3>8
  <2> QED BY <2>3, <2>4
<1> QED BY <1>8, <1>9

\* A hole among the arguments.
LEMMA HoleFacts ==
  ASSUME ParserInv, SpanInv, Top.fn = "Arguments"
  PROVE  /\ EmptyArgument \in Node /\ Cut(Len(stack) - 1, EmptyArgument.first)
         /\ EmptyArgument.first = EmptyArgument.last + 1 /\ EmptyArgument.last = at - 1
         /\ Edge(Top) <= EmptyArgument.first /\ EmptyArgument.kind = "R_ARGUMENT"
         /\ EmptyArgument.first = at
<1>1. /\ at \in Nat /\ at - 1 \in Nat /\ Len(stack) \in Nat /\ Len(stack) > 0
      /\ Top = stack[Len(stack)]
  BY InvFacts DEF Top
<1>2. PICK i \in 1 .. Len(stack) : i = Len(stack)
  BY <1>1
<1>3. Marked(stack[i])
  BY <1>1, <1>2 DEF Marked
<1>4. Edge(stack[i]) <= at
  BY <1>3, FromBehind
<1>5. Len(stack) - 1 \in 0 .. Len(stack)
  BY <1>1
<1>6. Cut(Len(stack) - 1, at)
  BY <1>1, <1>5, CutFacts
<1>7. "R_ARGUMENT" \in NodeKinds
  BY KindFacts
<1>8. PICK n \in Node : /\ n = NodeOver("R_ARGUMENT", at, at - 1) /\ n.first = at
                        /\ n.last = at - 1 /\ n.kind = "R_ARGUMENT"
  <2>1. NodeOver("R_ARGUMENT", at, at - 1) \in Node
    BY <1>1, <1>7 DEF NodeOver, Node
  <2> QED BY <2>1 DEF NodeOver
<1>9. EmptyArgument = n
  BY <1>8 DEF EmptyArgument
<1>10. n.first = n.last + 1
  BY <1>1, <1>8
<1>11. Edge(Top) <= n.first
  BY <1>1, <1>2, <1>4, <1>8
<1> QED BY <1>6, <1>8, <1>9, <1>10, <1>11

LEMMA CallsPlain ==
  ASSUME ParserInv, SpanInv,
         \/ ArgumentListParsed \/ ParseArgumentComma \/ ParseArgumentEqual
         \/ ParseArgumentRest \/ ParseArgumentValue \/ ArgumentParsed \/ GlueClose
  PROVE  \E b, completed : PlainStep(b, completed)
<1> USE DEF Continue, Goto, Return, Yield
<1>1. "R_ARGUMENT" \in NodeKinds \ SpecialKinds /\ "R_ARGUMENT_LIST" \in NodeKinds \ SpecialKinds
      /\ "R_ARGUMENT_NAME_CLAUSE" \in NodeKinds \ SpecialKinds
  BY KindFacts, SpecialKindsAre DEF InfixKinds
<1>2. /\ Len(stack) \in Nat /\ Len(stack) > 0 /\ Top = stack[Len(stack)] /\ Top \in Frame
      /\ at \in Nat /\ at - 1 \in Nat
  BY InvFacts DEF Top
<1>3. CASE ArgumentListParsed
  <2>1. PICK holes \in SUBSET {EmptyArgument} :
          /\ Complete({NodeBefore("R_ARGUMENT_LIST", Top.from + 1)} \cup holes)
          /\ pc = "Arguments" /\ pc' = "CallClose" /\ stack' = stack /\ Top.fn = "Arguments"
    <3>1. PICK holes : /\ holes = IF Top.previous = "Comma" THEN {EmptyArgument} ELSE {}
                       /\ Complete({NodeBefore("R_ARGUMENT_LIST", Top.from + 1)} \cup holes)
      BY <1>3 DEF ArgumentListParsed
    <3>2. holes \in SUBSET {EmptyArgument}
      BY <3>1
    <3>3. pc = "Arguments" /\ pc' = "CallClose" /\ stack' = stack
      BY <1>3 DEF ArgumentListParsed
    <3> QED BY <3>1, <3>2, <3>3, TopAt
  <2>2. PICK completed : completed = {NodeBefore("R_ARGUMENT_LIST", Top.from + 1)} \cup holes
    OBVIOUS
  <2>3. nodes' = nodes \cup completed /\ at' \in Nat /\ at <= at' /\ at' = at
    BY <2>1, <2>2, Completed
  <2>4. PICK m \in Node :
          /\ m = NodeBefore("R_ARGUMENT_LIST", Top.from + 1) /\ Cut(Len(stack) - 1, m.first)
          /\ m.kind = "R_ARGUMENT_LIST" /\ m.first = Top.from + 1
          /\ m.first <= m.last + 1 /\ m.last \in {at - 1, at' - 1}
    <3>1. Len(stack) - 1 \in 0 .. Len(stack) - 1 /\ Top.fn \in Lists
      BY <1>2, <2>1 DEF Lists
    <3> QED BY <1>1, <2>3, <3>1, ListFrom
  <2>5. PICK h \in Node :
          /\ h = EmptyArgument /\ Cut(Len(stack) - 1, h.first) /\ h.first = h.last + 1
          /\ h.last = at - 1 /\ Edge(Top) <= h.first /\ h.kind = "R_ARGUMENT"
    BY <2>1, HoleFacts
  <2>6. h.first <= h.last + 1
    <3>1. h.first \in Nat /\ h.last \in Nat
      BY DEF Node
    <3> QED BY <2>5, <3>1
  <2>7. Edge(Top) = Top.from + 1 /\ Edge(Top) <= m.first
    <3>1. Top.from \in Nat /\ Edge(Top) = Top.from + 1
      BY <1>2, <2>1, EdgeTypes DEF Lists
    <3> QED BY <2>4, <3>1
  <2>8. completed \subseteq {m, h}
    BY <2>2, <2>4, <2>5
  <2>9. /\ completed \subseteq Node
        /\ \A x \in completed :
             /\ Cut(Len(stack) - 1, x.first) /\ x.first <= x.last + 1
             /\ x.last \in {at - 1, at' - 1} /\ x.kind \notin SpecialKinds
        /\ \A x \in completed : Edge(Top) <= x.first
    BY <1>1, <2>4, <2>5, <2>6, <2>7, <2>8
  <2>10. /\ Under.fn \notin {"Expression", "ExpressionList"}
         /\ PlainFrame(Top, Under, TRUE, pc', at, at', text)
    BY <2>1, UnderFacts, CallersAre DEF PlainFrame, Infixes, Prefixed
  <2>11. PICK f \in Frame : f = Top
    BY <1>2
  <2>12. \E c : PlainStep(c, completed)
    BY <2>1, <2>3, <2>9, <2>10, <2>11, PlainTop
  <2> QED BY <2>12
<1>4. CASE ParseArgumentComma
  <2>1. PICK completed \in SUBSET {EmptyArgument} :
          /\ Consume(completed) /\ pc = "Arguments" /\ pc' = "Arguments"
          /\ stack' = WithTop([Top EXCEPT !.previous = "Comma"]) /\ Top.fn = "Arguments"
    BY <1>4, TopAt DEF ParseArgumentComma
  <2>2. nodes' = nodes \cup completed /\ at' \in Nat /\ at <= at'
    BY <2>1, Consumed
  <2>3. PICK f \in Frame : /\ f = [Top EXCEPT !.previous = "Comma"] /\ f.fn = "Arguments"
                           /\ f.from = Top.from
    BY <1>2, <2>1 DEF Frame
  <2>4. PICK h \in Node :
          /\ h = EmptyArgument /\ Cut(Len(stack) - 1, h.first) /\ h.first = h.last + 1
          /\ h.last = at - 1 /\ Edge(Top) <= h.first /\ h.kind = "R_ARGUMENT"
    BY <2>1, HoleFacts
  <2>5. h.first <= h.last + 1
    <3>1. h.first \in Nat /\ h.last \in Nat
      BY DEF Node
    <3> QED BY <2>4, <3>1
  <2>6. Edge(f) = Edge(Top)
    BY <2>1, <2>3 DEF Edge
  <2>7. /\ completed \subseteq Node
        /\ \A x \in completed :
             /\ Cut(Len(stack) - 1, x.first) /\ x.first <= x.last + 1
             /\ x.last \in {at - 1, at' - 1} /\ x.kind \notin SpecialKinds
        /\ \A x \in completed : Edge(f) <= x.first
    BY <1>1, <2>4, <2>5, <2>6
  <2>8. /\ Under.fn \notin {"Expression", "ExpressionList"}
        /\ PlainFrame(f, Under, TRUE, pc', at, at', text)
    BY <2>1, <2>3, UnderFacts, CallersAre DEF PlainFrame, Infixes, Prefixed
  <2>9. stack' = WithTop(f)
    BY <2>1, <2>3
  <2>10. \E c : PlainStep(c, completed)
    BY <2>1, <2>2, <2>3, <2>7, <2>8, <2>9, PlainTop
  <2> QED BY <2>10
<1>5. CASE ParseArgumentEqual
  <2>1. /\ Consume({NodeWith("R_ARGUMENT_NAME_CLAUSE", value.first)})
        /\ pc = "Return" /\ pc' = "ArgumentValue" /\ stack' = Below /\ Top.fn = "ArgumentName"
    BY <1>5 DEF ParseArgumentEqual, Returned
  <2>2. /\ nodes' = nodes \cup {NodeWith("R_ARGUMENT_NAME_CLAUSE", value.first)}
        /\ at' \in Nat /\ at <= at' /\ at < at' /\ CurrentEnd = at' - 1 /\ CurrentEnd \in Nat
    BY <2>1, Consumed
  <2>3. Under.fn = "Argument"
    BY <2>1, UnderFacts, CallersAre
  <2>4. PICK b \in 1 .. Len(stack) - 1 : b = Len(stack) - 1
    BY <2>1, StacksLeft
  <2>5. /\ stack' \in Seq(Frame) /\ Len(stack') = b /\ \A i \in 1 .. b : stack'[i] = stack[i]
        /\ stack[b].fn = "Argument"
    BY <2>1, <2>3, <2>4, StacksLeft
  <2>6. value.first \in Nat /\ value.first < at /\ Cut(b, value.first)
    <3>1. b \in 0 .. Len(stack)
      BY <1>2, <2>4
    <3>2. value.first < at
      BY <2>1 DEF SpanInv, ValueEnds
    <3> QED BY <2>1, <3>1, <3>2, CutFacts, InvFacts
  <2>7. PICK n \in Node :
          /\ n = NodeWith("R_ARGUMENT_NAME_CLAUSE", value.first) /\ n.first = value.first
          /\ n.last = CurrentEnd /\ n.kind = "R_ARGUMENT_NAME_CLAUSE"
    BY <1>1, <2>2, <2>6, NodeTypes DEF NodeWith, NodeOver
  <2>8. n.first <= n.last + 1 /\ n.last \in {at - 1, at' - 1}
    BY <1>2, <2>2, <2>6, <2>7
  <2>9. n.kind \notin SpecialKinds /\ Cut(b, n.first) /\ nodes' = nodes \cup {n}
    BY <1>1, <2>2, <2>6, <2>7
  <2>10. \E c : PlainStep(c, {n})
    BY <2>1, <2>2, <2>4, <2>5, <2>8, <2>9, PlainLeave
  <2> QED BY <2>10
<1>6. CASE ParseArgumentRest
  <2>1. /\ Complete({}) /\ pc = "Return" /\ pc' = "Return" /\ value' = value
        /\ stack' = WithTop(Expression(0)) /\ Top.fn = "ArgumentName"
        /\ UNCHANGED <<sourceVars, significance>>
    BY <1>6 DEF ParseArgumentRest, Returned, Complete
  <2>2. nodes' = nodes \cup {} /\ at' \in Nat /\ at <= at'
    BY <2>1, Moved
  <2>3. Under.fn = "Argument" /\ Under.fn \notin Bodied
    BY <2>1, UnderFacts, CallersAre, BodiedAre
  <2>4. PICK f \in Frame : f = Expression(0) /\ f.fn = "Expression" /\ f.bp = 0 /\ ~Marked(f)
    BY PowerTypes, FrameTypes DEF Expression, Call, Marked
  <2>5. PlainFrame(f, Under, TRUE, pc', at, at', text)
    BY <2>3, <2>4 DEF PlainFrame, Infixes, Prefixed
  <2>6. stack' = WithTop(f) /\ Under.fn \notin {"Expression", "ExpressionList"}
    BY <2>1, <2>3, <2>4
  <2>7. \E c : PlainStep(c, {})
    BY <2>1, <2>2, <2>4, <2>5, <2>6, PlainTop
  <2> QED BY <2>7
<1>7. CASE ParseArgumentValue
  <2>1. /\ Complete({}) /\ pc = "ArgumentValue" /\ pc' = "Prefix" /\ Top.fn = "Argument"
        /\ stack' = Append(stack, Expression(0))
    BY <1>7, TopAt DEF ParseArgumentValue
  <2>2. Top.fn \notin {"ExpressionList", "Expression", "Statement"} \cup Bodied
    BY <2>1, BodiedAre
  <2> QED BY <2>1, <2>2, EnterOperand
<1>8. CASE ArgumentParsed
  <2>1. /\ Complete({NodeBefore("R_ARGUMENT", Top.from)}) /\ Top.fn = "Argument"
        /\ pc \in {"ArgumentValue", "Return"} /\ pc' = "Arguments"
        /\ stack' = Append(BelowTwo, [Under EXCEPT !.previous = "Argument"])
    BY <1>8, TopAt DEF ArgumentParsed, Returned, BelowTwo
  <2>2. /\ nodes' = nodes \cup {NodeBefore("R_ARGUMENT", Top.from)}
        /\ at' \in Nat /\ at <= at' /\ at' = at
    BY <2>1, Completed
  <2>3. Under.fn = "Arguments" /\ Len(stack) > 1 /\ Under = stack[Len(stack) - 1] /\ Under \in Frame
    BY <2>1, UnderFacts, CallersAre, StacksLeft
  <2>4. PICK i \in 1 .. Len(stack) : i = Len(stack)
    BY <1>2
  <2>5. PICK j \in 1 .. Len(stack) : j = Len(stack) - 1
    BY <1>2, <2>3
  <2>6. j > 1
    <3>1. j # 1
      BY <2>3, <2>5, InvFacts DEF Chain
    <3> QED BY <2>5, <3>1
  <2>7. PICK b \in 0 .. Len(stack) - 1 : b = Len(stack) - 2 /\ b = j - 1 /\ b > 0 /\ b + 1 = j
    BY <1>2, <2>5, <2>6
  <2>8. stack[b].fn = "Call"
    <3>1. Chain(stack) /\ j \in 2 .. Len(stack)
      BY <2>6, InvFacts
    <3>2. stack[j - 1].fn \in Callers[stack[j].fn]
      BY <3>1 DEF Chain
    <3> QED BY <2>3, <2>5, <2>7, <3>2, CallersAre
  <2>9. PICK f \in Frame : /\ f = [Under EXCEPT !.previous = "Argument"] /\ f.fn = "Arguments"
                           /\ f.from = Under.from
    <3>1. PICK u \in Frame : u = Under /\ u.fn = "Arguments"
      BY <2>3
    <3>2. [u EXCEPT !.previous = "Argument"] \in Frame
      BY DEF Frame
    <3>3. /\ [u EXCEPT !.previous = "Argument"].fn = "Arguments"
          /\ [u EXCEPT !.previous = "Argument"].from = u.from
      BY <3>1 DEF Frame
    <3> QED BY <3>1, <3>2, <3>3
  <2>10. stack' = Append(BelowTwo, f)
    BY <2>1, <2>9
  <2>11. /\ stack' \in Seq(Frame) /\ Len(stack') = Len(stack) - 1 /\ stack'[Len(stack) - 1] = f
         /\ \A k \in 1 .. Len(stack) - 2 : stack'[k] = stack[k]
    BY <2>1, <2>10, StacksLeft
  <2>12. /\ stack' \in Seq(Frame) /\ Len(stack') = b + 1 /\ stack'[b + 1] = f
         /\ \A k \in 1 .. b : stack'[k] = stack[k]
    BY <1>2, <2>5, <2>7, <2>11
  <2>13. Marked(stack[i]) /\ Marked(stack[j]) /\ b \in 0 .. i - 1
    BY <1>2, <2>1, <2>3, <2>4, <2>5, <2>7 DEF Marked
  <2>14. PICK n \in Node :
          /\ n = NodeBefore("R_ARGUMENT", Top.from) /\ Cut(b, n.first)
          /\ n.kind = "R_ARGUMENT" /\ n.first = stack[i].from
          /\ n.first <= n.last + 1 /\ n.last \in {at - 1, at' - 1}
    BY <1>1, <1>2, <2>2, <2>4, <2>13, NodeFrom DEF NodeBefore
  <2>15. Edge(f) <= n.first
    <3>1. AboveIn(stack, pc, value, at, j, Edge(stack[j]))
      BY <2>13 DEF SpanInv, FramesOrdered
    <3>2. i \in j + 1 .. Len(stack)
      BY <1>2, <2>4, <2>5
    <3>3. Edge(stack[j]) <= stack[i].from
      BY <2>13, <3>1, <3>2 DEF AboveIn
    <3>4. Edge(f) = Edge(stack[j])
      BY <2>3, <2>5, <2>9 DEF Edge
    <3> QED BY <2>14, <3>3, <3>4
  <2>16. f.fn = stack[b + 1].fn /\ f.from = stack[b + 1].from
    BY <2>3, <2>5, <2>7, <2>9
  <2>17. PlainFrame(f, stack[b], TRUE, pc', at, at', text)
    BY <2>9 DEF PlainFrame, Infixes, Prefixed
  <2>18. nodes' = nodes \cup {n} /\ n.kind \notin SpecialKinds
    BY <1>1, <2>2, <2>14
  <2>20. /\ Marked(f) => /\ f.fn = stack[b + 1].fn /\ f.from = stack[b + 1].from
                          /\ \A x \in {n} : Edge(f) <= x.first
                          /\ pc' # "Return"
         /\ \A x \in {n} :
              /\ Cut(b, x.first) /\ x.first <= x.last + 1 /\ x.last \in {at - 1, at' - 1}
              /\ x.kind \notin SpecialKinds
    BY <2>1, <2>14, <2>15, <2>16, <2>18
  <2>21. /\ b > 0 => /\ stack[b].fn \notin {"Expression", "ExpressionList"}
                     /\ PlainFrame(f, stack[b], TRUE, pc', at, at', text)
         /\ b = 0 => f.fn = "Root"
    <3>1. b # 0 /\ stack[b].fn \notin {"Expression", "ExpressionList"}
      BY <2>7, <2>8
    <3> QED BY <2>17, <3>1, Zenon
  <2>22. pc # "Selector" /\ pc' \notin {"Selector", "Fail"} /\ pc' # "Return"
    BY <2>1
  <2>19. \E c : PlainStep(c, {n})
    BY <2>2, <2>12, <2>18, <2>20, <2>21, <2>22, PlainReplace
  <2> QED BY <2>19
<1>9. CASE GlueClose
  <2>1. /\ nodes' = nodes /\ stack' = stack /\ pc = "CallClose" /\ pc' = "CallClose"
        /\ Top.fn = "Arguments" /\ at' = at
    BY <1>9, TopAt DEF GlueClose, TryGlueRightBracket2
  <2>2. nodes' = nodes \cup {} /\ Fresh({}) /\ at' \in Nat /\ at <= at'
    BY <1>2, <2>1 DEF Fresh
  <2>3. \E b : PlainStep(b, {})
    BY <2>1, <2>2, PlainStay
  <2> QED BY <2>3
<1> QED BY <1>3, <1>4, <1>5, <1>6, <1>7, <1>8, <1>9

=============================================================================
