----------------------------- MODULE MCRParser -----------------------------
(***************************************************************************)
(* Instances of the parser for TLC.  Each alphabet holds the tokens that   *)
(* one question is about; a text is any sequence of at most MaxTokens of   *)
(* them.                                                                   *)
(***************************************************************************)
EXTENDS RTree

Plain(kinds)  == [kind : kinds, gap : {"Blank"}]
Broken(kinds) == [kind : kinds, gap : {"Blank", "Line"}]
Split(kinds)  == [kind : kinds, gap : {"Blank", "Line", "Semi"}]

StatementAlphabet ==
  Split({"IDENT", "PLUS", "L_PAREN", "R_PAREN", "L_CURLY", "R_CURLY"})

BraceAlphabet ==
  Plain({"IDENT", "L_PAREN", "R_PAREN", "L_CURLY"}) \cup Split({"R_CURLY"})

IfAlphabet ==
  Plain({"IF_KW", "L_PAREN", "R_PAREN", "IDENT", "IDENT_else", "ASSIGN", "WAT", "REPEAT_KW"})

ElseLinesAlphabet ==
  Plain({"IF_KW", "L_PAREN", "R_PAREN", "IDENT", "L_CURLY", "R_CURLY"})
    \cup Split({"IDENT_else"})

CallAlphabet ==
  Plain({"IDENT", "L_PAREN", "R_PAREN", "L_BRACK2", "L_BRACK", "R_BRACK", "COMMA", "EQUAL"})
    \cup [kind : {"R_BRACK"}, gap : {"Tight"}]

FunctionAlphabet ==
  Plain({"FUNCTION_KW", "IDENT", "DOTS", "EQUAL", "COMMA", "L_PAREN", "R_PAREN", "L_CURLY"})

LoopAlphabet ==
  Plain({"FOR_KW", "WHILE_KW", "IDENT", "IDENT_in", "L_PAREN", "R_PAREN", "L_CURLY"})

SelectorAlphabet ==
  Split({"IDENT", "DOLLAR", "STRING_OPEN"}) \cup Broken({"COLON2"})
    \cup [kind : {"IDENT"}, gap : {"Lines"}]
    \cup Plain({"L_PAREN", "R_PAREN", "R_BOGUS"})
    \cup [kind : {"UNICODE_BOM"}, gap : {"Tight"}]

BracketAlphabet ==
  Plain({"IDENT", "L_BRACK2", "L_PAREN"}) \cup Split({"R_BRACK"})
    \cup [kind : {"R_BRACK"}, gap : {"Tight"}]

TerminationAlphabet ==
  Plain({"IDENT", "PLUS", "L_BRACK2", "L_PAREN", "FUNCTION_KW", "STRING_OPEN"})
    \cup Broken({"R_PAREN", "R_CURLY"})
    \cup [kind : {"R_BRACK"}, gap : {"Tight"}]

\* Selectors behind any gap: a line break, several, semicolons.
LineBreakAlphabet == Plain({"DOLLAR"}) \cup [kind : {"IDENT"}, gap : AllGaps \ {"Tight"}]

ValueAlphabet ==
  Plain({"IDENT", "TRUE_KW", "R_DOUBLE_LITERAL", "NEXT_KW", "NULL_KW", "DOTDOTI",
         "STRING_OPEN", "DOLLAR", "COLON2", "BANG", "COLON"})
    \cup [kind : {"UNICODE_BOM"}, gap : {"Tight"}]

OperatorAlphabet ==
  Plain({"IDENT", "WAT", "ASSIGN", "EQUAL", "TILDE", "BANG", "PLUS",
         "EXPONENTIATE"})

NameAlphabet ==
  Plain({"IDENT", "DOLLAR", "COLON2", "L_PAREN", "R_PAREN", "PLUS", "BANG"})

\* The alphabets of one run: each text is over one of them, see the bounds below.
BrokenAlphabet ==
  StatementAlphabet \cup SelectorAlphabet \cup BracketAlphabet \cup BraceAlphabet
InfixAlphabet ==
  OperatorAlphabet \cup NameAlphabet \cup IfAlphabet \cup ElseLinesAlphabet
ListAlphabet ==
  CallAlphabet \cup ValueAlphabet \cup FunctionAlphabet \cup LoopAlphabet
    \cup TerminationAlphabet

\* Bound: the text has at most n tokens, all of one alphabet; the end of the text
\* and the inside of a string are not counted.
Uncounted == [kind : {"EOF"}, gap : {"Blank", "LineSemi", "Tight"}]
               \cup [kind : {"STRING_CONTENT", "STRING_CLOSE", "R_BOGUS"}, gap : {"Tight"}]

TextOver(alphabet, n) ==
  \A i \in DOMAIN text : text[i] \in Uncounted \/ (i <= n /\ text[i] \in alphabet)

\* Bound: the text is a single statement.
OneStatement == pc = "List" /\ Len(stack) = 2 => at = 1 \/ current = "EOF"
OneSoundStatement == OneStatement /\ diagnostics = <<>>

\* Bound: texts in which an error, or a second one, was found are not read on.
NoErrors       == diagnostics = <<>>
AtMostOneError == Len(diagnostics) <= 1

\* Bound: the condition of an `if' is a name.
PlainCondition ==
  \A i \in 1 .. Len(text) : text[i].kind = "IF_KW" =>
    \A j \in i + 1 .. Len(text) :
      j <= i + 3 => text[j].kind = <<"L_PAREN", "IDENT", "R_PAREN">>[j - i]

\* Bound: a statement after the first of its list starts with `if' or `else',
\* and `else' is a name only there.
OnlyElseStarts ==
  pc = "Prefix" => IF Under.fn = "Statement"
                   THEN at > 1 => current \in {"IDENT_else", "IF_KW"}
                   ELSE current # "IDENT_else"

\* Bound: no calls.
NoCalls == \A i \in 1 .. Len(stack) : stack[i].fn # "Call"

SoundPlainIfs == PlainCondition /\ NoErrors /\ OnlyElseStarts /\ NoCalls

\* Bound: the first token is an `if', and there are few operators.
FewOperators ==
  Cardinality({i \in 1 .. Len(text) :
                 text[i].kind \in BinaryOperators \cup {"REPEAT_KW", "L_PAREN"}}) <= 5
IfFirst == text[1].kind = "IF_KW"

\* Bound: the first token is an `if' or a bracket.
OpenerFirst == text[1].kind \in {"IF_KW", "L_PAREN", "L_CURLY"}

OneSoundPlainIf == OneSoundStatement /\ SoundPlainIfs /\ FewOperators /\ IfFirst

\* Bound: the text begins with the plain header of a `for', or with a function
\* whose first parameter has a default.
BeginsWith(kinds) ==
  \A i \in DOMAIN text : i <= Len(kinds) => text[i].kind = kinds[i]
PlainFor     == BeginsWith(<<"FOR_KW", "L_PAREN", "IDENT", "IDENT_in", "IDENT", "R_PAREN">>)
PlainDefault == BeginsWith(<<"FUNCTION_KW", "L_PAREN", "IDENT", "EQUAL">>)

-----------------------------------------------------------------------------
(* The texts of each run *)

BrokenTexts ==
  \/ TextOver(StatementAlphabet, 4)
  \/ TextOver(SelectorAlphabet, 4)
  \/ TextOver(BracketAlphabet, 4)
  \/ TextOver(BraceAlphabet, 6) /\ OneSoundStatement

LineBreakTexts == TextOver(LineBreakAlphabet, 3)

InfixTexts ==
  \/ TextOver(OperatorAlphabet, 7) /\ OneSoundStatement
  \/ TextOver(NameAlphabet, 6) /\ OneSoundStatement
  \/ TextOver(IfAlphabet, 14) /\ OneSoundPlainIf
  \/ TextOver(ElseLinesAlphabet, 9) /\ SoundPlainIfs /\ OpenerFirst

ListTexts ==
  \/ TextOver(CallAlphabet, 8) /\ OneSoundStatement
  \/ TextOver(ValueAlphabet, 3) /\ OneSoundStatement
  \/ TextOver(TerminationAlphabet, 4)
  \/ (TextOver(FunctionAlphabet, 5) \/ TextOver(LoopAlphabet, 5)) /\ AtMostOneError
  \/ TextOver(LoopAlphabet, 7) /\ PlainFor
  \/ TextOver(FunctionAlphabet, 7) /\ PlainDefault /\ AtMostOneError

=============================================================================
