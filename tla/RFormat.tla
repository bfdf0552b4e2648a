------------------------------- MODULE RFormat -------------------------------
(***************************************************************************)
(* A run of the formatter over a text, and a second run over what it       *)
(* printed: format_node of crates/air_r_formatter/src/lib.rs, and the      *)
(* check of crates/air_r_formatter/tests that formatting is idempotent.    *)
(* Comments are placed one at a time, in the order of the text; then the   *)
(* document is built and printed; then what was printed is read again.     *)
(***************************************************************************)
EXTENDS RRules

VARIABLES
  printed,  \* what this run printed: the items of a text, none before it is printed
  earlier   \* the run before, none in the first: its text and what it printed

formatVars == <<tree, gaps, placed, options, printed, earlier>>

-----------------------------------------------------------------------------
(* Reading a text: the tokens and what is between them *)

NoGap == [eol |-> <<>>, lines |-> 0, own |-> <<>>]
Nowhere == [tokens |-> <<>>, gaps |-> <<>>, gap |-> NoGap, swallowed |-> FALSE]

\* A comment behind a comment is part of it, and so would be a token, which is lost:
\* swallowed.
Reading(read, item) ==
  LET gap     == read.gap
      comment == [name |-> item.name, directive |-> item.directive]
      ends    == gap.lines = 0 /\ gap.own = <<>> /\ read.tokens # <<>>
      eol     == gap.eol # <<>> /\ gap.lines = 0
      own     == gap.own # <<>> /\ Last(gap.own).after = 0
  IN  CASE item.kind \in {"SPACE", "INDENT"} -> read
        [] item.kind = "NEWLINE" /\ gap.own = <<>> -> [read EXCEPT !.gap.lines = @ + 1]
        [] item.kind = "NEWLINE" /\ gap.own # <<>> ->
             [read EXCEPT !.gap.own[Len(gap.own)].after = @ + 1]
        [] item.kind = "COMMENT" /\ eol -> [read EXCEPT !.gap.eol[1].name = @ \o item.name]
        [] item.kind = "COMMENT" /\ own ->
             [read EXCEPT !.gap.own[Len(gap.own)].name = @ \o item.name]
        [] item.kind = "COMMENT" /\ ends /\ ~eol -> [read EXCEPT !.gap.eol = <<comment>>]
        [] item.kind = "COMMENT" /\ ~ends /\ ~own ->
             [read EXCEPT !.gap.own = Append(@, comment @@ [after |-> 0])]
        [] OTHER -> [tokens |-> Append(read.tokens, item), gaps |-> Append(read.gaps, gap),
                     gap |-> NoGap, swallowed |-> read.swallowed \/ eol \/ own]

Read(items) == FoldLeft(Reading, Nowhere, items)

\* The tree of what was printed: operators may have changed, bodies have got braces.
RECURSIVE Rewritten(_, _)
Rewritten(n, tokens) ==
  LET braced == \E i \in DOMAIN tokens : tokens[i].inserted /\ tokens[i].node = n
      kept   == {i \in DOMAIN tokens : ~tokens[i].inserted /\ tokens[i].node = n}
      kind   == IF kept = {} THEN Kind(n) ELSE tokens[CHOOSE i \in kept : TRUE].kind
      parts  == [k \in DOMAIN tree[n].parts |->
                   IF tree[n].parts[k] = 0 THEN Absent ELSE Rewritten(tree[n].parts[k], tokens)]
      own    == IF tree[n].token THEN Token(kind) ELSE Node(kind, parts)
  IN  IF braced
      THEN Node("R_BRACED_EXPRESSIONS",
                <<Token("L_CURLY"), Node("R_EXPRESSION_LIST", <<own>>), Token("R_CURLY")>>)
      ELSE own

KindsOfTokens(elements) ==
  LET count == TokensOf(elements)
      at(i) == CHOOSE n \in DOMAIN elements : elements[n].token /\ elements[n].first = i
  IN  [i \in 1 .. count |-> elements[at(i)].kind]

-----------------------------------------------------------------------------
(* Where a text may have a line break: the rules of the R parser *)

Openers == {"L_CURLY", "L_PAREN", "L_BRACK", "L_BRACK2"}
Closers == {"R_CURLY", "R_PAREN", "R_BRACK", "R_BRACK2"}

\* The innermost delimiter that is open before token i.
Delimiter(kinds, i) ==
  LET open(stack, kind) == CASE kind \in Openers -> Append(stack, kind)
                             [] kind \in Closers -> Front(stack)
                             [] OTHER            -> stack
  IN  FoldLeft(open, <<"NONE">>, SubSeq(kinds, 1, i - 1))

\* Does the token go on with an expression that could as well end before it?
GoesOn(elements, i, delimiter) ==
  \E n \in DOMAIN elements :
    /\ elements[n].first = i /\ i > 1
    /\ LET parent == elements[n].parent
       IN  /\ parent # 0
           /\ elements[parent].kind \in {"R_BINARY_EXPRESSION", "R_CALL", "R_SUBSET", "R_SUBSET2",
                                         "R_EXTRACT_EXPRESSION", "R_NAMESPACE_EXPRESSION"}
                => elements[parent].parts[2] = n
           /\ \/ elements[parent].kind \in {"R_BINARY_EXPRESSION", "R_CALL", "R_SUBSET",
                                            "R_SUBSET2", "R_EXTRACT_EXPRESSION",
                                            "R_NAMESPACE_EXPRESSION"}
              \/ elements[n].kind = "R_ELSE_CLAUSE" /\ delimiter = "NONE"

MayBreakBefore(elements, i) ==
  LET delimiter == Last(Delimiter(KindsOfTokens(elements), i))
  IN  delimiter \in {"NONE", "L_CURLY"} => ~GoesOn(elements, i, delimiter)

StartsStatement(elements, i) ==
  \E n \in DOMAIN elements :
    /\ elements[n].kind = "R_EXPRESSION_LIST"
    /\ \E k \in 2 .. Len(elements[n].parts) : elements[elements[n].parts[k]].first = i

\* `=' binds loosest of the operators but `?', and in an argument it follows a name.
EqualsBind(elements) ==
  \A n \in DOMAIN elements :
    LET operator(m) == elements[elements[m].parts[IF elements[m].kind = "R_UNARY_EXPRESSION"
                                                  THEN 1 ELSE 2]].kind
        parent      == elements[n].parent
    IN  elements[n].kind = "R_BINARY_EXPRESSION" /\ operator(n) = "EQUAL" =>
          /\ elements[parent].kind \notin {"R_ARGUMENT", "R_PARAMETER_DEFAULT"}
          /\ elements[parent].kind \in {"R_BINARY_EXPRESSION", "R_UNARY_EXPRESSION"} =>
               \/ operator(parent) = "WAT"
               \/ operator(parent) = "EQUAL" /\ elements[parent].parts[3] = n

HasBreak(gap) == gap.lines > 0 \/ gap.own # <<>>

\* The elements with this trivia are a text that reads as these elements.
IsText(elements, trivia) ==
  EqualsBind(elements) /\ \A i \in DOMAIN trivia :
    /\ HasBreak(trivia[i]) => MayBreakBefore(elements, i)
    /\ StartsStatement(elements, i) => HasBreak(trivia[i])
    /\ trivia[i].eol # <<>> => trivia[i].lines > 0

\* The text that was printed reads as the tree that was formatted.
ReadsBack ==
  LET read  == Read(printed)
      again == Elements(Rewritten(1, read.tokens))
  IN  /\ ~read.swallowed
      /\ Append([i \in DOMAIN read.tokens |-> read.tokens[i].kind], "EOF") = KindsOfTokens(again)
      /\ IsText(again, Append(read.gaps, read.gap))

-----------------------------------------------------------------------------
(* The run *)

NothingDone == placed = <<>> /\ printed = <<>> /\ earlier = <<>>

Place ==
  /\ printed = <<>>
  /\ PlaceComment
  /\ UNCHANGED <<tree, gaps, options, printed, earlier>>

\* format_node
FormatNode ==
  /\ printed = <<>>
  /\ Len(placed) = Len(CommentsInText)
  /\ printed' = Printed(Format(1), options.width)
  /\ UNCHANGED <<tree, gaps, placed, options, earlier>>

\* CheckReformat: what was printed is parsed and formatted in turn.
Reread ==
  /\ printed # <<>> /\ earlier = <<>> /\ ReadsBack
  /\ LET read == Read(printed)
     IN  /\ tree' = Elements(Rewritten(1, read.tokens))
         /\ gaps' = Append(read.gaps, read.gap)
  /\ earlier' = <<[tree |-> tree, gaps |-> gaps, printed |-> printed]>>
  /\ placed' = <<>> /\ printed' = <<>>
  /\ UNCHANGED options

FormatNext == Place \/ FormatNode \/ Reread

-----------------------------------------------------------------------------
(* Properties *)

Names(comments) == FlattenSeq([k \in DOMAIN comments |-> comments[k].name])
CommentsPrinted == SelectSeq(printed, LAMBDA item : item.kind = "COMMENT")

\* No comment of the text is lost and none is printed twice, whatever handler placed it
\* and whatever rule printed the node it was placed on.
CommentsAreKept ==
  printed # <<>> =>
    /\ Len(Names(CommentsPrinted)) = Len(Names(CommentsInText))
    /\ ToSet(Names(CommentsPrinted)) = ToSet(Names(CommentsInText))

\* What is printed is the same program: no token ends up behind a comment, no line break
\* ends an expression early, and the braces added are around the body they were added for.
PrintedTextIsTheProgram == printed # <<>> => ReadsBack

\* What is seen of a text: two comments on one line are one.
Seen(items) ==
  FlattenSeq([k \in DOMAIN items |->
    CASE items[k].kind = "COMMENT" -> items[k].name
      [] items[k].kind = "SPACE" /\ items[k + 1].kind = "COMMENT" -> <<>>
      [] items[k].kind = "INDENT"  -> <<"INDENT", items[k].by>>
      [] OTHER                     -> <<items[k].kind>>])

\* Where a comment may be carried over a token when it is printed: in a named argument's
\* name or a parameter, before the opener of a call or a function or the closer of a
\* parenthesis, between the parts of `a$b', before an assignment and at an operator
\* without spaces, between the braces of `{{ }}'.
IsCarried(elements, i) ==
  \E n \in DOMAIN elements :
    LET kind  == elements[n].kind
        parts == elements[n].parts
        open  == {m \in ToSet(parts) \ {0} : elements[m].first = elements[n].first + 1}
    IN  /\ elements[n].first < i /\ i <= elements[n].last
        /\ \/ kind \in {"R_ARGUMENT_NAME_CLAUSE", "R_PARAMETER", "R_EXTRACT_EXPRESSION",
                        "R_NAMESPACE_EXPRESSION"}
           \/ kind \in {"R_CALL", "R_SUBSET", "R_SUBSET2", "R_FUNCTION_DEFINITION"}
                /\ elements[parts[2]].first = i
           \/ kind = "R_BINARY_EXPRESSION"
                /\ \/ elements[parts[2]].kind \in Sticky
                   \/ elements[parts[2]].kind \in Assignment /\ elements[parts[2]].first = i
           \/ kind = "R_PARENTHESIZED_EXPRESSION" /\ i = elements[n].last
           \/ kind = "R_BRACED_EXPRESSIONS"
                /\ \E m \in open : \E k \in ToSet(elements[m].parts) :
                     elements[k].kind = "R_BRACED_EXPRESSIONS"

IsCalm(run) ==
  \A i \in DOMAIN run.gaps :
    LET comments == run.gaps[i].eol \o run.gaps[i].own
    IN  comments # <<>> => /\ ~IsCarried(run.tree, i)
                           /\ \A k \in DOMAIN comments : comments[k].directive # "Skip"

\* Formatting what was formatted changes nothing: comments stay where the first run put
\* them, and groups that were broken, or not, are so again.  Claimed of texts in which
\* no comment is carried or keeps a statement as it is, and where line breaks persist.
FormattingTwiceIsOnce ==
  printed # <<>> /\ earlier # <<>> /\ options.persistent /\ IsCalm(earlier[1])
    => Seen(printed) = Seen(earlier[1].printed)

\* A statement under a skip comment is printed as it stood, line breaks and comments
\* included, whatever is around it; but the inner braces of `{{ }}' cannot be skipped.
SkippedTextIsKept ==
  printed # <<>> =>
    \A n \in Nodes :
      LET list == tree[n].parent
          kept == Raw(tree[n].first, tree[n].last)
      IN  /\ Kind(list) = "R_EXPRESSION_LIST"
          /\ \E c \in ToSet(gaps[tree[n].first].own) : c.directive = "Skip"
          /\ tree[list].parent # 1 => ~IsCurlyCurly(tree[list].parent)
          => \E at \in 1 .. Len(printed) + 1 - Len(kept) :
               SubSeq(printed, at, at + Len(kept) - 1) = kept

=============================================================================
