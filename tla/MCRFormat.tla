------------------------------ MODULE MCRFormat ------------------------------
(***************************************************************************)
(* Instances of RFormat: texts of one construct in another, with a line    *)
(* break or a few comments anywhere the grammar allows them.               *)
(***************************************************************************)
EXTENDS RFormat

-----------------------------------------------------------------------------
(* Texts *)

Id         == Node("R_IDENTIFIER", <<Token("IDENT")>>)
List(list) == Node("R_EXPRESSION_LIST", list)
Text_(list) == Node("R_ROOT", <<Absent, List(list), Token("EOF")>>)
Braces(list) == Node("R_BRACED_EXPRESSIONS", <<Token("L_CURLY"), List(list), Token("R_CURLY")>>)
Paren(body)  == Node("R_PARENTHESIZED_EXPRESSION", <<Token("L_PAREN"), body, Token("R_PAREN")>>)
Binary(left, operator, right) == Node("R_BINARY_EXPRESSION", <<left, Token(operator), right>>)
Unary(operator, argument) == Node("R_UNARY_EXPRESSION", <<Token(operator), argument>>)
Extract  == Node("R_EXTRACT_EXPRESSION", <<Id, Token("DOLLAR"), Id>>)
Arg(value) == Node("R_ARGUMENT", <<Absent, value>>)
Named(value) ==
  Node("R_ARGUMENT", <<Node("R_ARGUMENT_NAME_CLAUSE", <<Id, Token("EQUAL")>>), value>>)
Hole == Node("R_ARGUMENT", <<Absent, Absent>>)

Listed(elements) ==
  [k \in 1 .. 2 * Len(elements) - 1 |->
     IF k % 2 = 1 THEN elements[(k + 1) \div 2] ELSE Token("COMMA")]

Call(arguments) ==
  Node("R_CALL",
    <<Id, Node("R_CALL_ARGUMENTS",
            <<Token("L_PAREN"),
              Node("R_ARGUMENT_LIST", IF arguments = <<>> THEN <<>> ELSE Listed(arguments)),
              Token("R_PAREN")>>)>>)
Subset(arguments) ==
  Node("R_SUBSET",
    <<Id, Node("R_SUBSET_ARGUMENTS",
            <<Token("L_BRACK"), Node("R_ARGUMENT_LIST", Listed(arguments)), Token("R_BRACK")>>)>>)

If(consequence) ==
  Node("R_IF_STATEMENT",
    <<Token("IF_KW"), Token("L_PAREN"), Id, Token("R_PAREN"), consequence, Absent>>)
IfElse(consequence, alternative) ==
  Node("R_IF_STATEMENT",
    <<Token("IF_KW"), Token("L_PAREN"), Id, Token("R_PAREN"), consequence,
      Node("R_ELSE_CLAUSE", <<Token("ELSE_KW"), alternative>>)>>)
For(body) ==
  Node("R_FOR_STATEMENT",
    <<Token("FOR_KW"), Token("L_PAREN"), Id, Token("IN_KW"), Id, Token("R_PAREN"), body>>)
While(body) ==
  Node("R_WHILE_STATEMENT", <<Token("WHILE_KW"), Token("L_PAREN"), Id, Token("R_PAREN"), body>>)
Repeat(body) == Node("R_REPEAT_STATEMENT", <<Token("REPEAT_KW"), body>>)
Param == Node("R_PARAMETER", <<Id, Absent>>)
ParamWith(value) ==
  Node("R_PARAMETER", <<Id, Node("R_PARAMETER_DEFAULT", <<Token("EQUAL"), value>>)>>)
Function(parameters, body) ==
  Node("R_FUNCTION_DEFINITION",
    <<Token("FUNCTION_KW"),
      Node("R_PARAMETERS",
        <<Token("L_PAREN"),
          Node("R_PARAMETER_LIST", IF parameters = <<>> THEN <<>> ELSE Listed(parameters)),
          Token("R_PAREN")>>),
      body>>)

Statements_ ==
  { <<Id, Id>>,
    <<Braces(<<>>)>>, <<Braces(<<Id, Id>>)>>,
    <<Paren(Binary(Id, "PLUS", Id))>>,
    <<IfElse(Id, Id)>>, <<IfElse(Braces(<<Id>>), Braces(<<>>)), Id>>,
    <<IfElse(Id, IfElse(Id, Id))>>,
    <<Braces(<<If(Id), IfElse(Id, Id)>>)>>,
    <<Binary(Id, "ASSIGN", IfElse(Id, Id))>>,
    <<For(Id)>>, <<For(Braces(<<Id>>))>>, <<While(If(Id))>>, <<Repeat(Braces(<<>>))>>,
    <<Binary(Id, "ASSIGN", Binary(Binary(Id, "SPECIAL", Call(<<>>)), "SPECIAL", Call(<<Arg(Id)>>)))>>,
    <<Binary(Binary(Id, "PLUS", Id), "LESS_THAN", Binary(Id, "COLON", Id))>>,
    <<Binary(Id, "ASSIGN", Function(<<Param, ParamWith(Id)>>, Id))>>,
    <<Function(<<>>, Braces(<<>>))>>,
    <<Unary("TILDE", Binary(Id, "PLUS", Id))>>, <<Unary("BANG", Id)>>,
    <<Call(<<Arg(Id), Arg(Function(<<Param>>, Id))>>)>>,
    <<Call(<<Arg(Function(<<Param>>, Braces(<<Id>>)))>>)>>,
    <<Call(<<Named(Braces(<<Id>>))>>)>>,
    <<Call(<<Arg(Braces(<<Braces(<<Id>>)>>)), Named(Absent)>>)>>,
    <<Call(<<Hole, Arg(Id), Hole>>)>>, <<Subset(<<Hole, Hole, Arg(Id)>>)>>,
    <<Call(<<Arg(Call(<<Arg(Id)>>))>>)>>, <<Subset(<<Arg(Extract)>>)>>,
    <<Binary(Id, "ASSIGN", Binary(Id, "ASSIGN", Id))>>,
    <<Call(<<Arg(Binary(Id, "ASSIGN", Binary(Id, "ASSIGN", Id)))>>)>>,
    <<Call(<<Arg(If(Id)), Arg(Binary(Id, "PLUS", Braces(<<Id>>)))>>)>>,
    <<Function(<<Param>>, IfElse(Id, Id))>>,
    <<IfElse(Braces(<<Id>>), IfElse(Braces(<<>>), Id))>>,
    <<Call(<<Hole, Arg(Function(<<Param>>, Braces(<<>>)))>>)>>,
    <<Binary(Id, "TILDE", Binary(Id, "AND", Paren(Id)))>> }

Trees == {Elements(Text_(list)) : list \in Statements_}

-----------------------------------------------------------------------------
(* Trivia *)

Plain(elements) ==
  LET count == TokensOf(elements)
  IN  [i \in 1 .. count |->
         [NoGap EXCEPT !.lines = IF i = count \/ StartsStatement(elements, i) THEN 1 ELSE 0]]

Larger(a, b) == IF a > b THEN a ELSE b

WithBreak(trivia, i, lines) == [trivia EXCEPT ![i].lines = Larger(@, lines)]

WithComment(trivia, i, position, name, directive) ==
  LET comment == [name |-> <<name>>, directive |-> directive]
      broken  == [trivia EXCEPT ![i].lines = IF i = 1 THEN 0 ELSE Larger(@, 1)]
  IN  IF position = "EndOfLine"
      THEN [broken EXCEPT ![i].eol = <<comment>>]
      ELSE [broken EXCEPT ![i].own = Append(@, comment @@ [after |-> 1])]

Positions(i) == IF i = 1 THEN {"OwnLine"} ELSE {"EndOfLine", "OwnLine"}
Lines(i)     == IF i = 1 THEN {0} ELSE {1, 3}

Places(elements) == {i \in 1 .. TokensOf(elements) : MayBreakBefore(elements, i)}

DefaultOptions == [width |-> 40, persistent |-> TRUE, style |-> "arrow", skip |-> FALSE]
Narrow         == [DefaultOptions EXCEPT !.width = 5]

\* Text without comments, with a break or three somewhere.
InitBreaks ==
  /\ tree \in Trees
  /\ \/ /\ \E i \in Places(tree) : \E lines \in Lines(i) : gaps = WithBreak(Plain(tree), i, lines)
        /\ options \in [width : {5, 40}, persistent : BOOLEAN, style : {"arrow"}, skip : {FALSE}]
     \/ /\ gaps = Plain(tree)
        /\ options \in [width : {5, 40}, persistent : {TRUE}, style : {"equal"}, skip : BOOLEAN]

InitOneComment ==
  /\ tree \in Trees
  /\ \E i \in Places(tree) : \E position \in Positions(i) :
       \/ /\ \E lines \in Lines(i) :
               gaps = WithComment(WithBreak(Plain(tree), i, lines), i, position, 1, "none")
          /\ options = DefaultOptions
       \/ /\ gaps = WithComment(Plain(tree), i, position, 1, "none")
          /\ options = Narrow
       \/ /\ \E directive \in IF i = 1 THEN {"Skip", "SkipFile", "GeneratedBy"} ELSE {"Skip"} :
               gaps = WithComment(Plain(tree), i, position, 1, directive)
          /\ options = DefaultOptions

\* Bound: two comments are at most one token apart.
InitTwoComments ==
  /\ tree \in Trees
  /\ \E i, j \in Places(tree) : \E p \in Positions(i), q \in Positions(j) :
       /\ i <= j /\ j <= i + 1
       /\ i = j => q = "OwnLine"
       /\ gaps = WithComment(WithComment(Plain(tree), i, p, 1, "none"), j, q, 2, "none")
  /\ options = DefaultOptions

Init == NothingDone /\ (InitBreaks \/ InitOneComment \/ InitTwoComments)

Spec == Init /\ [][FormatNext]_formatVars
=============================================================================
