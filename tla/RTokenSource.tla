---------------------------- MODULE RTokenSource ----------------------------
(***************************************************************************)
(* The token source of crates/air_r_parser (token_source.rs), driving the  *)
(* lexer (lexer/mod.rs).                                                   *)
(*                                                                         *)
(* The text to parse is chosen lazily: `text' holds the tokens the lexer   *)
(* has produced so far, each with the gap before it, and a token is chosen *)
(* when the lexer is first asked for it.  A semicolon is not a token: it   *)
(* is part of a gap, remembered as pending until the grammar blesses the   *)
(* gap as a statement boundary or moves past it.                           *)
(***************************************************************************)
EXTENDS RSyntax, Sequences

CONSTANTS
  Alphabet,   \* the tokens a text is made of
  MaxTokens   \* bound: number of tokens of a text, without the EOF token and
              \* the interior and close of a string

\* A token and the gap before it.
Token == [kind : TokenKinds, gap : AllGaps]

\* What the lexer produces in its normal mode.  Whether a gap is empty is told
\* apart for `]' only; a BOM is a token at offset 0 and nowhere else.
LexedToken(t) ==
  /\ t.kind \notin {"EOF", "R_BRACK2", "STRING_CONTENT", "STRING_CLOSE"}
  /\ t.gap = "Tight" => t.kind \in {"R_BRACK", "UNICODE_BOM"}
  /\ t.kind = "UNICODE_BOM" => t.gap = "Tight"

ASSUME AlphabetAssumption == Alphabet \subseteq Token /\ \A t \in Alphabet : LexedToken(t)
ASSUME MaxTokensAssumption == MaxTokens \in Nat \ {0}

VARIABLES
  text,           \* the tokens lexed so far
  mode,           \* the lexer's mode
  lookahead,      \* is the last token of text a lookahead, not yet current?
  current,        \* kind of the current token
  at,             \* index in text of the current token
  gapSemicolons,  \* unblessed semicolons in the gap before current?
  pending,        \* token whose gap holds the pending semicolon, 0 if none
  stray,          \* token whose gap holds the first stray semicolon, 0 if none
  blessed         \* (history) the tokens whose gap was blessed

sourceVars == <<text, mode, lookahead, current, at, gapSemicolons, pending,
                stray, blessed>>

\* Exhausted: an unterminated string has run to the end of the text.
Modes == {"Normal", "InString", "StringEnd", "Exhausted"}

SourceTypeOK ==
  /\ text \in Seq(Token)
  /\ mode \in Modes
  /\ lookahead \in BOOLEAN
  /\ current \in TokenKinds
  /\ at \in 1 .. Len(text)
  /\ gapSemicolons \in BOOLEAN
  /\ pending \in 0 .. at
  /\ stray \in 0 .. at
  /\ blessed \subseteq 1 .. at

-----------------------------------------------------------------------------
(* The lexer *)

\* What next_token may return in mode m after n tokens, EOF for None.  The
\* interior of a string holds no trivia.  A string that is open at the end of
\* the text is a lexing error only if something follows its open delimiter.
NextTokens(m, n) ==
  CASE m = "Normal"    -> [kind : {"EOF"}, gap : {"Blank", "LineSemi"}]
                            \cup {t \in Alphabet : /\ n < MaxTokens
                                                   /\ t.kind = "UNICODE_BOM" => n = 0}
    [] m = "InString"  -> [kind : {"STRING_CONTENT", "STRING_CLOSE", "R_BOGUS", "EOF"},
                           gap : {"Tight"}]
    [] m = "StringEnd" -> [kind : {"STRING_CLOSE"}, gap : {"Tight"}]
    [] m = "Exhausted" -> [kind : {"EOF"}, gap : {"Tight"}]

ModeAfter(m, kind) ==
  CASE kind = "STRING_OPEN"                 -> "InString"
    [] kind = "STRING_CONTENT"              -> "StringEnd"
    [] kind = "STRING_CLOSE"                -> "Normal"
    [] kind = "R_BOGUS" /\ m = "InString"   -> "Exhausted"
    [] OTHER                                -> m

\* next_lexer_token and peek_lexer_token: the lookahead, or a token lexed now.
Upcoming == IF lookahead THEN {text[Len(text)]} ELSE NextTokens(mode, Len(text))

Lex(token) ==
  IF lookahead THEN UNCHANGED <<text, mode>>
  ELSE /\ text' = Append(text, token)
       /\ mode' = ModeAfter(mode, token.kind)

-----------------------------------------------------------------------------
(* The token source *)

\* Mutant: the lookahead counts as consumed.
CurrentEndAfterLookahead == Len(text)

\* Index of the last token consumed once the current one is.
CurrentEnd == IF lookahead THEN Len(text) - 1 ELSE Len(text)

GapNewlines           == HasNewline(text[at].gap)
HasPrecedingSeparator == GapNewlines \/ gapSemicolons

\* Mutant: a later stray semicolon replaces the first.
FinalizedLast == IF pending # 0 THEN pending ELSE stray

\* finalize_pending_semicolon
Finalized == IF stray = 0 THEN pending ELSE stray

Advance ==
  \E token \in Upcoming :
    /\ Lex(token)
    /\ lookahead' = FALSE
    /\ current' = token.kind
    /\ at' = CurrentEnd + 1
    /\ stray' = Finalized
    /\ gapSemicolons' = HasSemicolon(token.gap)
    /\ pending' = IF HasSemicolon(token.gap) THEN CurrentEnd + 1 ELSE 0
    /\ UNCHANGED blessed

Bump == current # "EOF" /\ Advance

BlessSemicolons ==
  /\ gapSemicolons' = FALSE
  /\ pending' = 0
  /\ blessed' = blessed \cup {at}
  /\ UNCHANGED <<text, mode, lookahead, current, at, stray>>

\* Mutant: two `]' are glued whatever is between them.
TryGlueAnyRightBracket2(glued) ==
  /\ \/ /\ current # "R_BRACK"
        /\ ~glued
        /\ UNCHANGED <<text, mode, lookahead, current>>
     \/ /\ current = "R_BRACK"
        /\ \E next \in Upcoming :
             /\ glued = (next.kind = "R_BRACK")
             /\ Lex(next)
             /\ lookahead' = ~glued
             /\ current' = IF glued THEN "R_BRACK2" ELSE current
  /\ UNCHANGED <<at, gapSemicolons, pending, stray, blessed>>

\* try_glue_right_bracket2, which returns whether it glued.
TryGlueRightBracket2(glued) ==
  /\ \/ /\ current # "R_BRACK"
        /\ ~glued
        /\ UNCHANGED <<text, mode, lookahead, current>>
     \/ /\ current = "R_BRACK"
        /\ \E next \in Upcoming :
             /\ glued = (next.kind = "R_BRACK" /\ next.gap = "Tight")
             /\ Lex(next)
             /\ lookahead' = ~glued
             /\ current' = IF glued THEN "R_BRACK2" ELSE current
  /\ UNCHANGED <<at, gapSemicolons, pending, stray, blessed>>

SourceInit ==
  /\ \E token \in NextTokens("Normal", 0) :
       /\ text = <<token>>
       /\ mode = ModeAfter("Normal", token.kind)
       /\ current = token.kind
       /\ gapSemicolons = HasSemicolon(token.gap)
       /\ pending = IF HasSemicolon(token.gap) THEN 1 ELSE 0
  /\ lookahead = FALSE
  /\ at = 1
  /\ stray = 0
  /\ blessed = {}

SourceNext ==
  \/ Bump
  \/ BlessSemicolons
  \/ \E glued \in BOOLEAN : TryGlueRightBracket2(glued)

SourceSpec == SourceInit /\ [][SourceNext]_sourceVars

-----------------------------------------------------------------------------
(* Properties *)

\* The tokens before the current one whose gap holds a semicolon that no
\* statement list accepted.
Misplaced == {i \in 1 .. at - 1 : HasSemicolon(text[i].gap) /\ i \notin blessed}

\* Whatever the grammar does, the stray semicolon is the first one that was
\* left behind without being blessed: leaving a gap never forgets its pending
\* semicolon, a later stray one never replaces the first, gluing `]' `]' or
\* looking ahead does not lose one, and a blessed one is never reported.
StrayIsFirstMisplaced ==
  IF Misplaced = {} THEN stray = 0
  ELSE stray \in Misplaced /\ \A i \in Misplaced : stray <= i

=============================================================================
