--------------------------- MODULE MCDocumentSync ---------------------------
(***************************************************************************)
(* Instances of the document for TLC: texts of at most two line breaks,     *)
(* with a wide character before and after them.                            *)
(***************************************************************************)
EXTENDS DocumentSync

SomeTexts == {<<>>, <<"a", WideChar, "a">>, <<WideChar, LF, "a">>, <<LF, WideChar, LF>>}

SomeInserts == {<<>>, <<LF, WideChar>>}

SomeFormatted == {<<WideChar, LF>>, <<"a", LF, LF>>}

NotebookOrFile == {TRUE, FALSE}
OnlyFile == {FALSE}

=============================================================================
