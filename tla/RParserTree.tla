---------------------------- MODULE RParserTree ----------------------------
(***************************************************************************)
(* What the parser promises about the tree and the errors it hands over,   *)
(* stated on the finished tree and the text alone: how the parser got      *)
(* there (its stack, its significance) does not appear.                    *)
(***************************************************************************)
EXTENDS RParser

Done == pc = "Done"

\* The tokens of the text, the EOF token not included.
Tokens == 1 .. at - 1

HasSeparator(i) == HasNewline(text[i].gap) \/ HasSemicolon(text[i].gap)

NodesOf(kinds) == {n \in nodes : n.kind \in kinds}

\* The smallest nodes that span both token i - 1 and token i: more than one
\* when nodes share their tokens.
Joining(i) ==
  LET around == {n \in nodes : n.first < i /\ i <= n.last}
  IN {n \in around : \A m \in around : n.last - n.first <= m.last - m.first}

JoinKinds(i) == {n.kind : n \in Joining(i)}

\* The operator of an infix node follows its largest proper beginning.
OperatorAt(n) ==
  LET begins == {m \in nodes : m.first = n.first /\ m.last < n.last}
  IN (CHOOSE m \in begins : \A k \in begins : k.last <= m.last).last + 1

StatementLists == {"R_ROOT", "R_EXPRESSION_LIST", "R_BRACED_EXPRESSIONS"}

-----------------------------------------------------------------------------
(* Semicolons *)

\* Does a statement list, and nothing smaller, join the tokens around the gap?
\* Only an argument, alone in its list, may have the tokens of its braces.
BetweenStatements(i) ==
  \/ i = 1
  \/ text[i - 1].kind = "L_CURLY"
  \/ /\ JoinKinds(i) \cap StatementLists # {}
     /\ JoinKinds(i) \subseteq StatementLists \cup {"R_ARGUMENT", "R_ARGUMENT_LIST"}

SemicolonsInExpressions ==
  {i \in Tokens : HasSemicolon(text[i].gap) /\ ~BetweenStatements(i)}

\* The semicolon reported as stray is the first that the tree puts inside an
\* expression, and there is a report only if there is one: what statement lists
\* bless while parsing and recovering agrees with the tree that results.
StrayIsInsideExpression ==
  Done => IF SemicolonsInExpressions = {} THEN stray = 0
          ELSE /\ stray \in SemicolonsInExpressions
               /\ \A i \in SemicolonsInExpressions : stray <= i

-----------------------------------------------------------------------------
(* Separators and operators *)

\* The tokens that close the brackets open after i tokens, outermost first; a
\* `[[' is closed by two of them.
OpenBrackets[i \in Nat] ==
  IF i = 0 THEN <<>>
  ELSE LET open == OpenBrackets[i - 1] IN
       CASE text[i].kind = "L_CURLY"  -> Append(open, "R_CURLY")
         [] text[i].kind = "L_PAREN"  -> Append(open, "R_PAREN")
         [] text[i].kind = "L_BRACK"  -> Append(open, "R_BRACK")
         [] text[i].kind = "L_BRACK2" -> open \o <<"R_BRACK", "R_BRACK">>
         [] text[i].kind \in {"R_CURLY", "R_PAREN", "R_BRACK"} ->
              SubSeq(open, 1, Len(open) - 1)
         [] OTHER                     -> open

Innermost(i) ==
  LET open == OpenBrackets[i - 1] IN IF open = <<>> THEN "EOF" ELSE open[Len(open)]

SeparatorsCount(i) == Innermost(i) \in {"R_CURLY", "EOF"}

\* In a text without errors each close delimiter closes the innermost bracket
\* open at it, and no bracket is left open.  For `[[' this is the work of the
\* token source, which reads `]' `]' as one delimiter only where one is wanted,
\* and only if nothing is between them.
BracketsBalance ==
  Done /\ diagnostics = <<>> =>
    /\ \A n \in NodesOf({"R_SUBSET2"}) : text[n.last].gap = "Tight"
    /\ \A i \in Tokens : text[i].kind \in {"R_CURLY", "R_PAREN", "R_BRACK"} =>
                           Innermost(i) = text[i].kind
    /\ OpenBrackets[at - 1] = <<>>

\* Token i is applied to an operand that ends right before it.
IsApplied(i) ==
  \E n \in Joining(i) : \E operand \in nodes :
     /\ operand.first = n.first
     /\ operand.last = i - 1
     /\ n.kind \in {"R_BINARY_EXPRESSION", "R_CALL", "R_SUBSET", "R_SUBSET2",
                    "R_EXTRACT_EXPRESSION", "R_NAMESPACE_EXPRESSION"}

\* In a text without errors a line break or semicolon before an operator ends
\* the expression exactly where the brackets of the text say that newlines are
\* significant: an operator after one is never applied to what precedes it,
\* and an operator that starts a statement has one before it.
SeparatorsEndExpressions ==
  Done /\ diagnostics = <<>> =>
    \A i \in Tokens \ {1} :
      text[i].kind \in InfixOperators =>
        /\ IsApplied(i) /\ HasSeparator(i) => ~SeparatorsCount(i)
        /\ JoinKinds(i) = {"R_EXPRESSION_LIST"} => HasSeparator(i) /\ SeparatorsCount(i)

\* `$' and `@' take the selector behind them across any number of line breaks,
\* `::' only where newlines are not significant; none takes it across a
\* semicolon, and each takes it wherever it may.
SelectorsEndAtSeparators ==
  Done /\ diagnostics = <<>> =>
    \A n \in NodesOf({"R_EXTRACT_EXPRESSION", "R_NAMESPACE_EXPRESSION"}) :
      LET operator == OperatorAt(n) IN
      text[operator + 1].kind \in SelectorStart =>
        (n.last = operator) =
          (\/ HasSemicolon(text[operator + 1].gap)
           \/ /\ n.kind = "R_NAMESPACE_EXPRESSION"
              /\ HasNewline(text[operator + 1].gap)
              /\ SeparatorsCount(operator + 1))

\* token_source.rs:40 says that an extract selector survives exactly one line
\* break: behind more of them it is not taken.
SelectorsSurviveOneLineBreak ==
  Done /\ diagnostics = <<>> =>
    \A n \in NodesOf({"R_EXTRACT_EXPRESSION"}) :
      text[OperatorAt(n) + 1].gap = "Lines" => n.last = OperatorAt(n)

HasElse(n) == \E own \in NodesOf({"R_ELSE_CLAUSE"}) : n.first < own.first /\ own.last = n.last

\* An `else' belongs to the nearest `if' that can take it: no `if' without an
\* `else' ends right before one.
ElseBelongsToNearestIf ==
  Done =>
    \A e \in NodesOf({"R_ELSE_CLAUSE"}), n \in NodesOf({"R_IF_STATEMENT"}) :
      n.last = e.first - 1 => HasElse(n)

\* In a text without errors an `else' is taken by the `if' before it across a
\* line break only inside brackets, and never across a semicolon; and it is
\* left as a name, the start of the next statement, only if there is one of
\* the two.
ElseNeedsNoSeparator ==
  LET mayTake(i) == /\ ~HasSemicolon(text[i].gap)
                    /\ HasNewline(text[i].gap) => OpenBrackets[i - 1] # <<>>
  IN Done /\ diagnostics = <<>> =>
       /\ \A e \in NodesOf({"R_ELSE_CLAUSE"}) : mayTake(e.first)
       /\ \A n \in NodesOf({"R_IF_STATEMENT"}) :
            LET next == n.last + 1 IN
            text[next].kind = "IDENT_else" /\ ~HasElse(n) => ~mayTake(next)

-----------------------------------------------------------------------------
(* Arguments *)

\* The commas that separate the arguments of a list.
CommasOf(list) ==
  {i \in list.first .. list.last :
     text[i].kind = "COMMA" /\ Len(OpenBrackets[i]) = Len(OpenBrackets[list.first - 1])}

\* The arguments of a list: those that no other list inside it holds.
ArgumentsOf(list) ==
  {n \in NodesOf({"R_ARGUMENT"}) :
     /\ list.first <= n.first /\ n.last <= list.last
     /\ Len(OpenBrackets[n.first - 1]) = Len(OpenBrackets[list.first - 1])}

\* Every comma separates two arguments, a hole where nothing is written, so
\* that positions are kept: `x[, 1]', `f(, )', `f(a, )'; an empty list has no
\* argument at all.
CommasSeparateArguments ==
  Done /\ diagnostics = <<>> =>
    \A list \in NodesOf({"R_ARGUMENT_LIST"}) :
      Cardinality(ArgumentsOf(list)) =
        IF list.last < list.first THEN 0 ELSE Cardinality(CommasOf(list)) + 1

-----------------------------------------------------------------------------
(* Precedence *)

\* The precedence table of the grammar this parser replaces: the rank of each
\* construct, and the ranks at which the right one of two equals wins.
Rank == [WAT |-> 1, ASSIGN |-> 4, EQUAL |-> 5, ASSIGN_RIGHT |-> 6, TILDE |-> 7,
         OR |-> 8, AND |-> 9, LESS_THAN |-> 11, PLUS |-> 12, MULTIPLY |-> 13,
         SPECIAL |-> 14, COLON |-> 15, EXPONENTIATE |-> 17, DOLLAR |-> 18,
         AT |-> 18, COLON2 |-> 19, COLON3 |-> 19, L_PAREN |-> 20, L_BRACK |-> 20,
         L_BRACK2 |-> 20]

PrefixRank == [WAT |-> 1, TILDE |-> 7, BANG |-> 10, PLUS |-> 16, FUNCTION_KW |-> 2,
               BACKSLASH |-> 2, FOR_KW |-> 2, WHILE_KW |-> 2, REPEAT_KW |-> 2,
               IF_KW |-> 3, IDENT_else |-> 3]

RightAssociative == {4, 5, 17}

Infix  == NodesOf({"R_BINARY_EXPRESSION", "R_CALL", "R_SUBSET", "R_SUBSET2",
                   "R_EXTRACT_EXPRESSION", "R_NAMESPACE_EXPRESSION"})

\* Nodes that end with an operand another operator could take.  `$', `@', `::'
\* and `:::' are followed by a name, never by an operand.
LastParts == {LastPartNode[fn] : fn \in DOMAIN LastPartNode \ {"Extract", "Namespace"}}
               \cup {"R_IF_STATEMENT", "R_ELSE_CLAUSE"}

\* The last part of a node is its largest proper end.
LastPart(n) ==
  LET ends == {m \in nodes : m.last = n.last /\ m.first > n.first}
  IN CHOOSE m \in ends : \A k \in ends : k.first >= m.first

RankOf(n) == IF n \in Infix THEN Rank[text[OperatorAt(n)].kind]
             ELSE PrefixRank[text[n.first].kind]

\* Does the operator of rank r take what is between it and an earlier one of
\* rank q?
Takes(r, q) == r > q \/ (r = q /\ r \in RightAssociative)

\* In a text without errors the tree is the one in which every conflict over an
\* operand, between a construct that could end with it and an infix operator
\* behind it, is resolved by rank, and by associativity at equal rank.
PrecedenceRespected ==
  Done /\ diagnostics = <<>> =>
    \A n \in Infix, m \in NodesOf(LastParts) :
      \* m ended before the operator of n, and is part of its operand ...
      /\ m.first >= n.first /\ m.last = OperatorAt(n) - 1 => ~Takes(RankOf(n), RankOf(m))
      \* ... or n begins the last part of m
      /\ n # m /\ n.last <= m.last /\ n.first > m.first /\ n.first = LastPart(m).first
           => Takes(RankOf(n), RankOf(m))

-----------------------------------------------------------------------------
(* Errors *)

Bogus == NodesOf({"R_BOGUS_EXPRESSION"})

DiagnosticsOf(n) ==
  {diagnostics[d] : d \in {d \in DOMAIN diagnostics :
                              n.first <= diagnostics[d] /\ diagnostics[d] <= n.last + 1}}

\* Every recorded error lies in, or right behind, a bogus node; every bogus
\* node has an error; a token the lexer could not make sense of never ends up
\* in a node that looks sound.
ErrorsAreContained ==
  Done =>
    /\ \A d \in DOMAIN diagnostics : \E n \in Bogus : diagnostics[d] \in DiagnosticsOf(n)
    /\ \A n \in Bogus : DiagnosticsOf(n) # {}
    /\ \A i \in Tokens : text[i].kind = "R_BOGUS" =>
                           \E n \in Bogus : n.first <= i /\ i <= n.last

\* Recovery gives up no more than the statement in error: past the last error
\* of a bogus node there is no separator left inside it.
RecoveryIsLocal ==
  Done =>
    \A n \in Bogus : \A i \in n.first + 1 .. n.last :
      HasSeparator(i) => \E d \in DiagnosticsOf(n) : i <= d

\* Whatever the text, the parser gets through it: every call returns, and
\* recovery gets past the token that made a statement fail.
ParseTerminates == <>Done

=============================================================================
