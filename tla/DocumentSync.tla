---------------------------- MODULE DocumentSync ----------------------------
(***************************************************************************)
(* One document between an editor and the language server: the editor      *)
(* opens it, changes it in batches, asks for it to be formatted and applies *)
(* the answer; the server keeps a copy with its own line endings           *)
(* (lsp/documents.rs), and formats that (lsp/handlers_format.rs).          *)
(*                                                                         *)
(* The text of the editor holds its line breaks as single characters; it   *)
(* writes them as its kind of line ending when it sends text.  What the    *)
(* formatter makes of a text is a choice.                                  *)
(***************************************************************************)
EXTENDS Texts

CONSTANTS
  Closed, NoReply,
  OpenTexts,      \* the texts a document is opened with
  Inserts,        \* what the user types or pastes
  Formatted,      \* what formatting may give, with line breaks of one character
  Setting,        \* the setting `line-ending': "Auto", "Lf" or "Crlf"
  Notebooks,      \* whether the document may be, or may not be, a cell of a notebook
  MaxLength,      \* bound: the length of the editor's text
  MaxBatch,       \* bound: the changes in a message
  MaxEdits,       \* bound: what the user does before the last change of the text
  MaxChanges      \* bound: what the user does

ASSUME SettingAssumption == Setting \in {"Auto", "Lf", "Crlf"}

ASSUME TextsAssumption ==
  \A text \in OpenTexts \cup Inserts \cup Formatted :
    text \in Seq(Char) /\ \A i \in DOMAIN text : text[i] # CR

LineEndings == {"Lf", "Crlf"}
Position    == [line : Nat, col : Nat]
Change      == [range : {WholeText} \cup Position \X Position, text : Seq(Char)]
Document    == [contents : Seq(Char), index : Seq(Char), endings : LineEndings, version : Nat]
Editor      == [text : Seq(Char), endings : LineEndings, version : Nat, batch : Seq(Change)]

ASSUME ClosedAssumption == Closed \notin Document \cup Editor

VARIABLES
  encoding,   \* of positions: agreed on when the server is initialised
  notebook,   \* whether the document is a cell of a notebook
  editor,     \* the editor's text, line ending, version, and changes not yet sent
  document,   \* the server's Document, or Closed
  queue,      \* the messages on their way to the server
  reply,      \* the answer on its way to the editor, or NoReply
  asked,      \* the version the editor wants formatted, or NoVersion
  panicked,   \* the server's main loop has panicked
  changes

documentVars == <<encoding, notebook, editor, document, queue, reply, asked, panicked, changes>>

NoVersion == 0

-----------------------------------------------------------------------------
(* The server *)

NewDocument(text, version) ==
  LET contents == IF Infer(text) = "Lf" THEN text ELSE Normalize(text)
  IN  [contents |-> contents, index |-> contents, endings |-> Infer(text),
       version |-> version]

DidOpen(m) == document' = NewDocument(m.text, m.version) /\ UNCHANGED <<reply, panicked>>

OnDidChange(m) ==
  IF m.version < document.version
  THEN panicked' = TRUE /\ UNCHANGED document
  ELSE LET new == ApplyTextChanges(document.contents, document.index, m.changes, encoding)
       IN  /\ panicked' = new.panicked
           /\ document' = [document EXCEPT !.contents = new.contents, !.index = new.contents,
                                           !.version = m.version]

\* A document that is not open is an error, which is logged.
DidChange(m) ==
  /\ IF document = Closed THEN UNCHANGED <<document, panicked>> ELSE OnDidChange(m)
  /\ UNCHANGED reply

DidClose == document' = Closed /\ UNCHANGED <<reply, panicked>>

\* LineEnding::finalize; the contents have no carriage returns left.
FormatEndings == IF Setting = "Auto" THEN Infer(document.contents) ELSE Setting

Answer(edits, text) == [edits |-> edits, text |-> text]
NoEdits == Answer(<<>>, Closed)

\* In a cell of a notebook the last line break goes.
NotebookText(text) ==
  IF notebook /\ text # <<>> /\ Last(text) = LF THEN Front(text) ELSE text

\* Mutant: the positions are those of UTF-8, whatever was agreed on.
ReplaceAllInBytes(text, keep) ==
  TextEdits(document.index, Indels(document.contents, text, keep), "Utf8", document.endings)

ReplaceAllEdit(text, keep) ==
  TextEdits(document.index, Indels(document.contents, text, keep), encoding,
            document.endings)

\* The document is excluded, has parse errors or is formatted already; otherwise
\* the difference to the formatted text is the answer.
DocumentFormatting ==
  /\ \/ reply' = NoEdits
     \/ /\ document # Closed
        /\ \E formatted \in Formatted :
             LET source == WithEndings(formatted, FormatEndings)
                 text   == NotebookText(source)
             IN  /\ source # document.contents
                 /\ \E keep \in Diffs(document.contents, text) :
                      reply' = Answer(ReplaceAllEdit(text, keep), text)
  /\ UNCHANGED <<document, panicked>>

\* The statements that a selection touches are replaced, anywhere in their lines, from the
\* first character that is no blank to the last one.
DocumentRangeFormatting ==
  /\ document # Closed
  /\ \E from, to \in 0 .. Len(document.contents), formatted \in Formatted :
       LET lines == Front(WithEndings(formatted, FormatEndings))
       IN  /\ from < to /\ document.contents[from + 1] # LF /\ document.contents[to] # LF
           /\ reply' = Answer(TextEdits(document.index,
                                        <<[from |-> from, to |-> to, insert |-> lines]>>,
                                        encoding, document.endings),
                              Replaced(document.contents, from, to, lines))
  /\ UNCHANGED <<document, panicked>>

Handle ==
  /\ queue # <<>> /\ ~panicked
  /\ LET m == Head(queue)
     IN  \/ m.method = "didOpen"   /\ DidOpen(m)
         \/ m.method = "didChange" /\ DidChange(m)
         \/ m.method = "didClose"  /\ DidClose
         \/ m.method = "formatting" /\ (DocumentFormatting \/ DocumentRangeFormatting)
  /\ queue' = Tail(queue)
  /\ UNCHANGED <<encoding, notebook, editor, asked, changes>>

-----------------------------------------------------------------------------
(* The editor *)

Dropped == -1    \* the answer is not wanted any more

Send(m) == queue' = Append(queue, m)

Open ==
  /\ editor = Closed /\ queue = <<>>
  /\ \E text \in OpenTexts, endings \in {"Lf", "Crlf"} :
       /\ editor' = [text |-> text, endings |-> endings, version |-> 1, batch |-> <<>>]
       /\ Send([method |-> "didOpen", text |-> WithEndings(text, endings), version |-> 1])
  /\ UNCHANGED <<encoding, notebook, document, reply, asked, panicked, changes>>

Close ==
  /\ editor # Closed /\ editor.batch = <<>>
  /\ editor' = Closed
  /\ asked' = IF asked = NoVersion THEN NoVersion ELSE Dropped
  /\ Send([method |-> "didClose"])
  /\ changes < MaxEdits /\ changes' = changes + 1
  /\ UNCHANGED <<encoding, notebook, document, reply, panicked>>

\* Positions are those of the text as the earlier changes of the batch left it.
Changed(from, to, insert, endings) ==
  /\ Len(Replaced(editor.text, from, to, insert)) <= MaxLength
  /\ editor' = [editor EXCEPT
       !.text = Replaced(@, from, to, insert),
       !.endings = endings,
       !.batch = Append(@, [range |-> <<PositionAt(editor.text, from, encoding),
                                        PositionAt(editor.text, to, encoding)>>,
                            text  |-> WithEndings(insert, endings)])]

Type ==
  /\ \E from, to \in 0 .. Len(editor.text), insert \in Inserts :
       from <= to /\ (from < to \/ insert # <<>>) /\ Changed(from, to, insert, editor.endings)

\* The editor gives its text another kind of line ending.
ChangeEndings ==
  \E endings \in {"Lf", "Crlf"} \ {editor.endings} :
    Changed(0, Len(editor.text), editor.text, endings)

\* A message with the whole text, without a range.
ReplaceText ==
  \E text \in OpenTexts :
    editor' = [editor EXCEPT
      !.text = text,
      !.batch = Append(@, [range |-> WholeText, text |-> WithEndings(text, editor.endings)])]

Edit ==
  /\ editor # Closed /\ Len(editor.batch) < MaxBatch /\ Len(queue) <= 1
  /\ changes < MaxEdits /\ changes' = changes + 1
  /\ Type \/ ChangeEndings \/ ReplaceText
  /\ UNCHANGED <<encoding, notebook, document, queue, reply, asked, panicked>>

SendBatch ==
  /\ editor # Closed /\ editor.batch # <<>>
  /\ editor' = [editor EXCEPT !.batch = <<>>, !.version = @ + 1]
  /\ Send([method |-> "didChange", changes |-> editor.batch, version |-> editor.version + 1])
  /\ UNCHANGED <<encoding, notebook, document, reply, asked, panicked, changes>>

Ask ==
  /\ editor # Closed /\ editor.batch = <<>> /\ asked = NoVersion
  /\ Len(queue) <= 1
  /\ asked' = editor.version
  /\ Send([method |-> "formatting"])
  /\ changes < MaxChanges /\ changes' = changes + 1
  /\ UNCHANGED <<encoding, notebook, editor, document, reply, panicked>>

\* An editor takes any of the three for the end of a line.
EditorText(text) ==
  LET normal == Normalize(text)
  IN  [i \in DOMAIN normal |-> IF normal[i] = CR THEN LF ELSE normal[i]]

\* A column past the end of its line is the end of the line.
OffsetOf(text, pos) ==
  LET upTo == {n \in 0 .. Len(text) : LET p == PositionAt(text, n, encoding)
                                      IN  p.line = pos.line /\ p.col <= pos.col}
  IN  CHOOSE n \in upTo : \A k \in upTo : k <= n

\* The edits refer to the text they were asked for: the last one is made first.
Edited(text, edits) ==
  FoldRight(LAMBDA edit, new : Replaced(new, OffsetOf(text, edit.range[1]),
                                        OffsetOf(text, edit.range[2]), EditorText(edit.text)),
            edits, text)

\* Edits for a text that has changed meanwhile are dropped.
Wanted == editor # Closed /\ editor.version = asked /\ editor.batch = <<>>

Receive ==
  /\ reply # NoReply
  /\ IF Wanted /\ reply.edits # <<>>
     THEN /\ editor' = [editor EXCEPT !.text = Edited(@, reply.edits), !.version = @ + 1]
          /\ Send([method |-> "didChange", version |-> editor.version + 1, changes |->
                     Reverse([i \in DOMAIN reply.edits |->
                       [range |-> reply.edits[i].range,
                        text  |-> WithEndings(EditorText(reply.edits[i].text),
                                              editor.endings)]])])
     ELSE UNCHANGED <<editor, queue>>
  /\ reply' = NoReply /\ asked' = NoVersion
  /\ UNCHANGED <<encoding, notebook, document, panicked, changes>>

-----------------------------------------------------------------------------
\* The server takes UTF-8 if the client offers it.
SyncInit ==
  /\ encoding \in {"Utf8", "Utf16"}
  /\ notebook \in Notebooks
  /\ editor = Closed /\ document = Closed
  /\ queue = <<>> /\ reply = NoReply /\ asked = NoVersion
  /\ panicked = FALSE /\ changes = 0

SyncNext == Handle \/ Open \/ Close \/ Edit \/ SendBatch \/ Ask \/ Receive

SyncSpec == SyncInit /\ [][SyncNext]_documentVars

-----------------------------------------------------------------------------
(* Properties *)

\* Every change can be applied, in the order of its batch: the main loop never panics
\* on a position it cannot convert or on a version that is out of order.
ServerSurvives == ~panicked

\* When nothing is under way the server has the editor's text, whatever the batches of
\* changes, the line endings, the encoding, and the edits it was asked to make itself; and
\* the line index it converts the next positions with is always that of its own text.
ServerFollowsEditor ==
  /\ queue = <<>> /\ editor # Closed => editor.batch # <<>> \/ document.contents = editor.text
  /\ document # Closed => document.index = document.contents

\* The edits of an answer, converted with the server's index and made to the editor's
\* text, give the text that was formatted.
EditsGiveFormattedText ==
  reply # NoReply /\ Wanted /\ reply.edits # <<>> =>
    Edited(editor.text, reply.edits) = EditorText(reply.text)

\* docs/configuration.qmd:140: "crlf": line endings will be converted to \r\n.  The
\* lines of a document are those of the formatted text, in the editor's line endings.
CrlfConvertsLineEndings == Setting = "Crlf" => EditsGiveFormattedText

=============================================================================
