------------------------------ MODULE RSyntax ------------------------------
(***************************************************************************)
(* The token kinds of R, as crates/air_r_parser tells them apart, and the  *)
(* binding powers of its Pratt parser.  This module has no state.          *)
(*                                                                         *)
(* A kind is the name of a variant of RSyntaxKind.  Kinds that every       *)
(* function of the grammar treats alike are represented by one of them:    *)
(* LESS_THAN stands for the six comparisons, PLUS for `+` and `-`, IDENT   *)
(* for every name, R_DOUBLE_LITERAL for the numbers, TRUE_KW for the       *)
(* constants that are keywords, and so on.  The contextual keywords are    *)
(* lexed as IDENT and told apart by their text, hence IDENT_else and       *)
(* IDENT_in.                                                               *)
(***************************************************************************)
EXTENDS Naturals

-----------------------------------------------------------------------------
(* Binding powers: expressions.rs *)

CALL_LBP         == 40
NAMESPACE_LBP    == 38
EXTRACT_LBP      == 36
FUNCTION_BODY_BP == 4
IF_BODY_BP       == 6

\* Mutant: `^' is left associative.
BinaryPowerLeft ==
  [WAT          |-> <<2, 3>>,    ASSIGN       |-> <<9, 8>>,
   EQUAL        |-> <<11, 10>>,  ASSIGN_RIGHT |-> <<12, 13>>,
   TILDE        |-> <<14, 15>>,  OR           |-> <<16, 17>>,
   AND          |-> <<18, 19>>,  LESS_THAN    |-> <<22, 23>>,
   PLUS         |-> <<24, 25>>,  MULTIPLY     |-> <<26, 27>>,
   SPECIAL      |-> <<28, 29>>,  COLON        |-> <<30, 31>>,
   EXPONENTIATE |-> <<34, 35>>]

\* (left, right) powers of the infix operators.
BinaryPower ==
  [WAT          |-> <<2, 3>>,    ASSIGN       |-> <<9, 8>>,
   EQUAL        |-> <<11, 10>>,  ASSIGN_RIGHT |-> <<12, 13>>,
   TILDE        |-> <<14, 15>>,  OR           |-> <<16, 17>>,
   AND          |-> <<18, 19>>,  LESS_THAN    |-> <<22, 23>>,
   PLUS         |-> <<24, 25>>,  MULTIPLY     |-> <<26, 27>>,
   SPECIAL      |-> <<28, 29>>,  COLON        |-> <<30, 31>>,
   EXPONENTIATE |-> <<35, 34>>]

\* Power with which a prefix operator binds its operand.
UnaryPower == [WAT |-> 3, TILDE |-> 15, BANG |-> 21, PLUS |-> 33]

BinaryOperators == DOMAIN BinaryPower
UnaryOperators  == DOMAIN UnaryPower
CallOpeners     == {"L_PAREN", "L_BRACK", "L_BRACK2"}
Extractors      == {"DOLLAR", "AT"}
Namespacers     == {"COLON2", "COLON3"}

\* The tokens that can continue an expression, and how tightly.
InfixOperators ==
  BinaryOperators \cup CallOpeners \cup Extractors \cup Namespacers

LeftPower(kind) ==
  CASE kind \in CallOpeners -> CALL_LBP
    [] kind \in Extractors  -> EXTRACT_LBP
    [] kind \in Namespacers -> NAMESPACE_LBP
    [] OTHER                -> BinaryPower[kind][1]

MaxPower == 40

-----------------------------------------------------------------------------
(* Token classes: atoms.rs, calls.rs *)

Identifiers == {"IDENT", "IDENT_else", "IDENT_in"}

\* Keywords that stand for a value, and those that start a construct.
ValueKeywords     == {"TRUE_KW", "NULL_KW", "NEXT_KW"}
ConstructKeywords == {"FUNCTION_KW", "IF_KW", "FOR_KW", "WHILE_KW", "REPEAT_KW"}
Keywords          == ValueKeywords \cup ConstructKeywords

Dots == {"DOTS", "DOTDOTI"}

\* at_value_start, at_selector_start, at_argument_name_start
ValueStart        == Identifiers \cup Dots \cup ValueKeywords
                       \cup {"R_DOUBLE_LITERAL", "STRING_OPEN"}
SelectorStart     == Identifiers \cup Dots \cup {"STRING_OPEN"}
ArgumentNameStart == Identifiers \cup Dots \cup {"STRING_OPEN", "NULL_KW"}

\* The node a one-token value becomes (parse_value).
ValueNode(kind) ==
  CASE kind \in Identifiers        -> "R_IDENTIFIER"
    [] kind = "DOTS"               -> "R_DOTS"
    [] kind = "DOTDOTI"            -> "R_DOT_DOT_I"
    [] kind = "R_DOUBLE_LITERAL"   -> "R_DOUBLE_VALUE"
    [] kind = "TRUE_KW"            -> "R_TRUE_EXPRESSION"
    [] kind = "NULL_KW"            -> "R_NULL_EXPRESSION"
    [] OTHER                       -> "R_NEXT_EXPRESSION"

\* is_selector_kind: the nodes that may stand on the left of `::`.
SelectorNodes == {"R_IDENTIFIER", "R_STRING_VALUE", "R_DOTS", "R_DOT_DOT_I"}

\* Every kind the lexer or the token source hands to the grammar.  R_BOGUS is
\* a token the lexer could not make sense of.
StringKinds == {"STRING_OPEN", "STRING_CONTENT", "STRING_CLOSE"}
Punctuation == {"L_PAREN", "R_PAREN", "L_CURLY", "R_CURLY", "L_BRACK",
                "L_BRACK2", "R_BRACK", "R_BRACK2", "COMMA"}
TokenKinds  == ValueStart \cup Keywords \cup StringKinds \cup Punctuation
                 \cup BinaryOperators \cup UnaryOperators \cup Extractors
                 \cup Namespacers
                 \cup {"BACKSLASH", "R_BOGUS", "UNICODE_BOM", "EOF"}

-----------------------------------------------------------------------------
(* The gap before a token: the trivia between it and the previous token.   *)
(* What matters about it: is it empty, does it hold a line break (`\n` or   *)
(* `\r\n`), or several of them, does it hold a semicolon.  Blank stands    *)
(* for whitespace, comments and lone `\r`; it also stands for the empty    *)
(* gap where the grammar does not look at adjacency.                       *)

AllGaps == {"Tight", "Blank", "Line", "Lines", "Semi", "LineSemi"}

HasNewline(gap)   == gap \in {"Line", "Lines", "LineSemi"}
HasSemicolon(gap) == gap \in {"Semi", "LineSemi"}

=============================================================================
