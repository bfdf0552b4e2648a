# A formal model of air (Pratt parser fork)

This directory holds TLA+ models of `air`, an R formatter and language server,
in the fork that replaces the tree-sitter parser by a hand-written Pratt parser
(`crates/air_r_parser`). The modules are translated from the Rust and TypeScript
sources; `PROJECT.json` maps every definition to the lines it stands for.

Contents: [components](#the-system), [modules](#modules-and-the-code),
[runs](#runs), [bounds](#bounds), [fairness](#fairness), [proofs](#proofs),
[findings](#findings), [only model-checked](#only-model-checked),
[not modelled](#not-modelled).

## The system

Source text goes in, a formatted text or a list of text edits comes out. The
parser builds a tree with bogus nodes where the text is not R; the formatter
gives every comment to a node, makes a document of the tree and prints it; the
command line runs this over files, the language server over open documents.
Settings come from `air.toml` files found in and above the formatted files, and
from the editor.

| Component | State it keeps | Operations | Hard behaviour | Correct when |
|---|---|---|---|---|
| **Lexer** `air_r_parser/src/lexer` | position, mode, first error | `next_token` | a mode outlives the token that set it; unterminated strings | at most one error, the first |
| **Token source** `token_source.rs` | current token and the gap before it, one lookahead, pending and stray semicolons | `bump`, `bless_semicolons`, `try_glue_right_bracket2` | state belongs to the gap *before* current; lookahead only for `]]` | the stray semicolon reported is the first no statement list accepted |
| **Grammar** `parser.rs`, `grammar/` | the call stack, newline significance per bracket, events, diagnostics | one function per construct, `recover_statement` | every function can return `None`; recovery; newlines that matter only in some brackets | precedence, separators, `else` and arguments as R defines them; errors recorded and contained; always progress |
| **Generated syntax** `air_r_syntax`, `air_r_factory` | none | `make_syntax`, accessors | three descriptions of the same nodes | what the parser builds, the factory and the accessors accept |
| **Formatter** `air_r_formatter`, `comments` | the comments of each node; none between calls | `place_comment`, one rule per node | layout chosen from the source's breaks and comments; its output is the next input | no comment lost or doubled, same program, stable, skipped text kept |
| **Text and protocol utilities** `aether_lsp_utils`, `line_ending` | none | positions to offsets, changes, diffs to edits | a line index older than the text | the server's text equals the client's after every batch |
| **Settings and discovery** `workspace` | sorted list of (directory, settings) | `add`, `remove`, `resolve`, `discover_settings`, parallel walk | closest ancestor by sort order; threads merging results | a file gets the settings of its closest ancestor, each is found once |
| **Language server** `lsp` | documents, workspaces and settings, channels | handlers of the main loop, one event at a time | handlers that wait for the client; shutdown with events queued | each request answered; documents in sync; clients told of changed settings |
| **Command line** `air` | results per file | `format`, `--check`, standard input | some files fail | exit status reflects every file |
| **VS Code extension** `editors/code` | client, state, map of file settings | start, stop, restart in a queue; settings notification | awaits inside each; map replaced as a whole | state, client and subscribers agree; each editor has its file's settings |
| Zed extension, code generators, test crates | | | | not modelled |

Interactions:

- Grammar, token source and lexer are plain calls in one thread: `RParser`
  extends `RTokenSource`.
- Parser to factory and typed nodes: `RTree` composes the parser's result with
  `RFactory` (who takes children) and `RNodes` (who reads them). The formatter
  model reads its trees through the same `RNodes`.
- Formatter to parser: what was printed is read again (`RFormat!Reread`), as the
  repository's `check_reformat` does.
- Client to server: messages are put on one channel, the main loop takes them off
  one at a time. Server to client: `workspace/configuration` requests awaited
  inside handlers (`Session`), `air/syncFileSettings` notifications
  (`LspSettings`), edits (`DocumentSync`).
- Server and command line to workspace: one settings resolver, `Paths`, used by
  `PathResolver`, `LspSettings`, `Discovery`.

## Modules and the code

| Module | Models | State |
|---|---|---|
| `RSyntax` | binding powers, token classes | none |
| `RTokenSource` | `token_source.rs`, the modes of `lexer/mod.rs` | `text, mode, lookahead, current, at, gapSemicolons, pending, stray, blessed` |
| `RParser` | `parser.rs`, `grammar/*.rs` over the token source | `pc, stack, value, significance, diagnostics, nodes` |
| `RParserTree` | what the finished tree promises | as `RParser` |
| `RNodes`, `RFactory` | `nodes.rs`, `syntax_factory.rs`: the slots of each kind, as read and as filled | none |
| `RTree` | the parser's nodes with their children, against both | as `RParser` |
| `RSourceTree` | a tree and its trivia, and the questions asked of them | `tree, gaps` |
| `RComments` | `comments.rs`, `comments_ext.rs` | `placed` |
| `RDocument` | what is used of `biome_formatter`: documents and their printer | none |
| `RRules` | the rules of `air_r_formatter/src/r`, with `joiner_ext.rs`, `loop_body.rs` | `options` |
| `RFormat` | a run of the formatter and one over its output | `printed, earlier` |
| `Paths` | sorted lists of items, prefixes of paths (`resolve.rs`) | none |
| `DirectoryMap` | what a resolver promises: a map, the closest directory wins | `map, request, result` |
| `PathResolver` | `resolve.rs` | `items, request, result` |
| `FilePatterns` | `file_patterns.rs`, the exclusion rules of walk, stdin and server | none |
| `Discovery` | `discovery.rs`: settings above the supplied paths, the threads of the walk | `tomls, resolver, work, visitors, files, ...` |
| `FormatCommand` | `commands/format*`: write and check, paths and stdin, exit status | `disk, pending, errors, changed, output, status` |
| `LspSettings` | `workspaces.rs`, the state handlers, `sync_file_settings.rs`, the client's `sync-file-settings.ts` | the `air.toml` files, both message queues, server and client settings |
| `Texts` | `line_ending`, `from_proto.rs`, `to_proto.rs`, `diff.rs` on texts of four kinds of character | none |
| `DocumentSync` | `documents.rs`, `did_open/change/close`, `handlers_format.rs` | editor, queue, document, reply |
| `Session` | `lsp.ts` start, stop, restart; `tower_lsp.rs` queue; `main_loop.rs` | see the module |
| `*_proofs` | the theorems | |
| `MC*` | instances and bounds of the runs | |

**Parser texts.** A text is the sequence of its tokens, each a kind and the gap
before it. It is chosen as it is read: `NextTokens` is the set of tokens the
lexer may return in its mode. Since no code looks further ahead than one token,
this gives the same behaviours as choosing the whole text first. Kinds that
every function treats alike are represented by one. `at` and `CurrentEnd` are
token indices.

**Grammar.** The native call stack is the variable `stack`. A frame is a function
waiting for one it called, with its locals. `pc` says what the function on top
does next; `Return` with `value` is `Some(node)`, `Fail` is `None`. An action
runs from one such point to the next and makes at most one call to the token
source. `Propagate` is the `?` operator together with the clean-up each function
does before it returns `None`. `nodes` is the set of completed nodes with the
tokens they span. biome's parser drops an error that starts where the last one
did, and so does `Fail`. `blessed` is a history variable.

**Slots.** `RFactory` gives each kind of node the kinds its slots admit, in order,
from `make_syntax`; `RNodes` gives each accessor the slot and kinds it reads, from
`nodes.rs`. `NodesFitTheirSlots` says that for a text without errors each node of
the parser keeps its kind in the factory and every accessor finds what it requires.
`MayBeMissing` is one exception met on the way: the parser accepts `x$` without a
selector, though `right` is required; the formatter then keeps the text verbatim.
Kinds that the three treat alike (values, operators of one level)
are checked as a class (`ValuesAlike`, `TokenIn`).

**Formatter.** The tree is numbered in the order of a walk; `gaps[i]` is the trivia
before token `i`. Comments are placed one per step, in the order of the text, by the
first of the ten handlers that claims them. The walk that decides what precedes,
follows and encloses a comment, and the placement of what no handler claims, are
biome's and external, as is the printer. A document is built with the same words as
in the source (`Group`, `BestFitting`, `LineSuffix`, ...). A token has width 1, the
indentation 2. Names of called functions are abstract: with `options.skip` every
plain name is in the `skip` setting. `ReadsBack` reads the printed items as a text:
no token may be behind a comment, line breaks only where the grammar lets them be,
braces that were added are a node, `=` only where it binds. Two comments printed on
one line are read as one (the repository's snapshot `braced_expressions.R.snap:375`
shows this), so `FormattingTwiceIsOnce` compares what is seen.

**Settings.** `Reload`, `OpenedAll`, `SettingsForUrl` and so on are functions on the
resolver's list, `DidOpen`, `DidChangeWatchedFiles`, ... the handlers, each a step. The
client's messages wait in `toServer`, the server's notifications in `toClient`.

**Documents.** Characters are narrow, wide or line breaks; positions count UTF-8 or
UTF-16 units. The library's diff (`dissimilar`, external) keeps any of the characters of the
old text, in their order and equal to those of the new one; nothing is assumed about how many
or which it keeps, since its clean-ups merge edits and move them over equal characters. The
statements of a range are any stretch of the text that neither begins nor ends with a break,
mid-line too. What the formatter returns is chosen from a set. The editor applies edits to its own
text, with its own line endings.

**Session.** Promises that are awaited are phases. VS Code's client and tower-lsp are
external: messages stay in order, a crashed process is started anew while the client
runs, a handler's answer reaches the client through the same stream.
`Capacity` is the number of requests tower-lsp holds before it stops reading; answers
to the server's own requests are read from the same stream, so that a client with more
than that many requests waiting while the loop waits for the client would block both.
The runs stay below it: editors send a handful of requests at a time.

## Runs

Every run but the three marked *violation* passes.

| Run | Question | Properties |
|---|---|---|
| `broken_texts` | what separators, selectors and brackets do to texts, sound or not | `SourceTypeOK`, `StrayIsFirstMisplaced`, `StrayIsInsideExpression`, `SeparatorsEndExpressions`, `SelectorsEndAtSeparators`, `ErrorsAreContained`, `RecoveryIsLocal` |
| `operators` | precedence, associativity, dangling `else`, `else` behind separators, slots | `PrecedenceRespected`, `ElseBelongsToNearestIf`, `ElseNeedsNoSeparator`, `NodesFitTheirSlots` |
| `lists` | holes, names, nested `[` and `[[`, headers broken off anywhere, termination, slots | `TypeOK`, `SignificanceMatchesStack`, `FailureIsRecorded`, `CommasSeparateArguments`, `BracketsBalance`, `NodesFitTheirSlots`, `ParseTerminates` |
| `comments` | does the formatter keep comments, program and its own output | `CommentsAreKept`, `PrintedTextIsTheProgram`, `FormattingTwiceIsOnce`, `SkippedTextIsKept` |
| `path_resolver` | is the sorted list a map with the closest directory | `ResolverTypeOK`, `ItemsSorted`, `ResolverIsMap` (refinement) |
| `format_command` | do walk, supplied path, stdin and server agree; does the status tell the truth | `FilesAreThoseReached`, `WalkAgreesWithSupplied`, `StdinAgreesWithSupplied`, `StatusTellsTheDisk` |
| `settings` | do workspaces follow their files and clients the server | `WorkspacesFollowTheirToml`, `ClientFollowsServer` |
| `documents` | does the server follow the editor, do its edits come out right | `ServerSurvives`, `ServerFollowsEditor`, `EditsGiveFormattedText` |
| `session` | life cycle, crashes, shutdown, waiting handlers | `SessionTypeOK`, `StateAgreesWithClient`, `NoOrphans`, `AnsweredBeforeShutdown`, `RequestsAreAnswered`, `OperationsEnd` |
| `selectors` | *violation*: does a selector survive one line break only | `SelectorsSurviveOneLineBreak` |
| `settings_of_editor` | *violation*: is the active editor up to date | `ActiveEditorIsUpToDate` |
| `crlf_documents` | *violation*: does `crlf` convert line endings in the editor | `CrlfConvertsLineEndings` |

How the properties are independent of the code they judge:

- The properties of `RParserTree` are stated on the finished tree and the text, without
  the parser's stack: `PrecedenceRespected` uses ranks of the tree-sitter grammar this
  parser replaced, not the binding powers; separators are judged by matching the
  brackets of the text; semicolons by the nodes around them, not by what was blessed.
- `CommentsAreKept` and `PrintedTextIsTheProgram` look at the printed items only.
- `FormattingTwiceIsOnce` is claimed where it is meant to hold, and this is narrower
  than "always": line breaks persist (with `persistent-line-breaks = "ignore"` an empty
  line before the first argument of a call expands it, and the second run flattens it
  again), no comment has a skip directive, and no comment stands where printing carries
  it over a token (`IsCarried` lists those places: named arguments, parameters, before
  an opener, inside `a$b`, before an assignment, at an operator without spaces, before
  the closer of a parenthesis, between the braces of `{{ }}`). In those places the model
  shows texts that change a second time.
- `SkippedTextIsKept` leaves out the inner braces of `{{ }}`, which are printed by the
  outer ones.
- `FilesAreThoseReached` counts, for each file, the supplied paths that lead to it
  (`WaysTo`), without threads. `WalkAgreesWithSupplied` leaves out whitelisting patterns:
  a walk that does not enter an excluded directory never sees a file a pattern inside
  would let in again, as with `.gitignore`.
- `SelectorsEndAtSeparators` judges `$` and `@` by the code, which lets any number of line
  breaks through, and one comment of the repository says otherwise (Findings, 1).
- `ClientFollowsServer` is a narrow promise. It is about the files the client knows of, it
  allows settings where the server has its fallback, and it holds until folders change
  (`moved`): the server tells of changed folders only with the next notification. It would
  notice a reload of several folders that forgets to tell of those that succeeded, not a
  client that was never told of a file.
- In `ServerSurvives` it is positions that could not be converted. The check of versions
  (`documents.rs:109`) never fires: an editor's versions grow and messages stay in order.

## Bounds

- `MaxTokens` and the texts of each run are in `MCRParser`: `TextOver(alphabet, n)` bounds
  the tokens of a text without EOF and the inside of strings. Errors and recoveries need
  two to four tokens (`( ; x )`, `[[ x ] ]`, `x $ ; y`); operators need seven for two
  conflicts with a prefix in front; a dangling `else` inside another `if` needs fourteen;
  nested subsets need eight; `selectors` needs three.
- `OneStatement`, `OneSoundStatement`: only the first statement is read, and, if sound,
  only up to the first error. `AtMostOneError`: after a second error the parse is not
  followed. `PlainCondition`, `NoCalls`, `OnlyElseStarts`, `IfFirst`, `OpenerFirst`,
  `FewOperators`: for the texts about `else`, the condition is a name, there are no calls,
  a later statement starts with `if` or `else`, the text starts with `if` or a bracket and
  has few operators. `PlainFor`, `PlainDefault`: the longer header texts begin with a plain
  `for` header or with a function whose first parameter has a default.
- `comments`: 34 texts, each construct in another (`Statements_`), at line widths 5 and 40
  (some groups break, or none does); an empty line or a break at any place, one comment of
  each kind at any place, or two comments at most one token apart (handlers look no further
  than the neighbours of a comment).
- `path_resolver`: five directories, among them parents, children and a sibling that sorts
  between a directory and its children; two values.
- `settings`: a folder in a folder, a file in each and an untitled document, four changes
  by the user, two messages waiting. `documents`: texts of at most five characters, two
  changes in a batch, two edits between a request and its answer, three changes in all.
  Every diff of the two texts is tried.
- `session`: two requests, two operations besides the first start, one configuration pull
  after initialisation, one crash. Every phase meets every other within these.
- `format_command`: five folders, one inside a folder that is excluded by default; the
  project and one of its folders may hold an `air.toml` of several shapes; five files, one
  or two supplied paths, two threads; `SYMMETRY` exchanges the threads (no
  property or fairness names one), and in `settings` the contents of `air.toml`.

Deadlock checking is off where the system may stop: the user of `settings`, `documents` and
`session` need do nothing more, and a formatted text of `comments` is the end. The parser's
runs, `path_resolver` and `format_command` check it: a finished parse or command stutters
(`Finished`), and a deadlock would be a point where no branch of the code applies.

## Fairness

- `ParserSpec` assumes `WF_vars(ParserNext)`: the parser is one thread that nothing blocks.
- `SessionSpec` assumes weak fairness of each step of the extension's promises, the client's
  and the server's tasks: they are scheduled by the event loop of node and by tokio. It
  assumes none of the user, of opening documents or of crashes.
- All other specifications assume none, and only safety is claimed of them.


## Proofs

TLC checks small instances; the theorems below hold for every value of the constants.

**`RParser_proofs`** (every text, every depth). First, of the token source, whatever the
order of the grammar's calls: `SourceInv` adds to the types that what is pending is the
unblessed semicolon of the gap before the current token (`PendingIsCurrent`), and how the
current token and the lookahead cover what was read of the text (`Extent`). Without `PendingIsCurrent` the stray
semicolon could be of another gap than the one a statement list was asked about. One
lemma per action; `LexAppends` says what a call of the lexer does. Results:
`SourceTypeCorrect`, `StraySemicolonIsFirst`.

Then, of the grammar: each step of it is at most one call of the token source
(`ParserImplementsSource`), so the stray semicolon's theorem is inherited (`ParserStrayIsFirst`). `ParserInv` says that the stack is a path of the call
graph (`Chain`: each frame is above one of its `Callers`, at one of its `Steps`), and
that the significance of newlines has one entry for each function on the stack that
opened a bracket (`Belongs`, counted by `OpenIn`). It is needed because `Return` and
`Fail` meet whatever frame is beneath: only the path says which. `RunPush`, `RunPop`,
`RunReturn`, `RunOperand` are the lemmas on calls. Results: `ParserTypeCorrect`,
`SignificanceIsOfOpenBrackets`, `FailuresAreRecorded`.

What the finished *tree says of errors* is proved from
an invariant of the running parser, `ErrorInv`. *Each error is covered* by a bogus node
already made, or is the last one and still on its way (`DiagnosticsInv`: `pc` is `Fail` or
`Recover`); *each bogus node covers an error*, and its separators come no later than one
(`BogusInv`); *each token the lexer could not read* is in a bogus node or behind the place
where the recovery under way began (`UnreadInv`); and *recovery itself* has passed its error
only as far as no separator was met (`RecoveryInv`). The last needs two facts of the machine:
the frame of a statement never begins behind the current token (`StatementsAhead`), and a
token keeps its kind and gap once it is behind (`TextStep`). Most steps touch none of this
(`OrdinaryStep`, shown action by action); `Recover`, `Skip` and `Recovered` are the ones
that do. Results: `ErrorsEndInBogusNodes`, `RecoveryStopsAtSeparators`.

That *brackets balance* relates the stack to the text: as long as there is no error, what the
functions on the stack are to close (`Owes`, frame by frame) is `OpenBrackets` of the tokens
consumed (`BracketsInv`). `OpenBrackets` is a recursive function, of which `RecursionExists`
and `OpenBracketsAre` show, by induction on numbers, that it exists and reads one token at a
time; `SameTokens` that tokens still to be lexed do not change it. `Pays` says what a call or
a return does to what is owed. Every step but the four that begin and end an `if` is a
`SteadyStep` (`StepIsSteady`, action by action). The same steps give *the `else`*: `ElseInv`
says that each `else` taken, waiting or complete, was refused by no `if` that ended before it
(`TakesElse`), that an `if` which refused one was right to (`IfNodes`), and that between an
operand and the token behind it nothing, a blessed semicolon in particular, changes the
answer (`NoElseHere`, `ElseNotBlessed`). That an `if` decides by its significance stack what
the property says of the brackets of the text is `InsideIsOpen`, from the balance. Results:
`BracketsAreBalanced`, `ElseIsOfNearestIf`, `ElseTakenAcrossNoSeparator`.

**`RParserTree_proofs`** (every text without errors). The properties of `RParserTree` find
the operator of a node, or the last part of one, by comparing where nodes begin and end, so
the invariants say that of the running parser. `SpanInv`: no node reaches over the place
where a function on the stack, its list or the returned value begins (`FramesApart`,
`ValueEnds`), functions begin in the order in which they are nested (`FramesOrdered`) and
nodes end before the current token (`NodesEnd`). A step that leaves the first frames alone
and adds nodes that begin at such places (`Cut`) keeps it (`Spanned`, `SpanKept`). Steps that
have to do with no operator, body or statement are `PlainStep`s (shown in `RParser_proofs`); the
others are named each.
- `OperandsInv`: an operator whose function waits on the stack follows its operand, and this
  is where the finished node has it. What the parser holds for the gap before a token that
  may continue an operand is what the text says (`CurrentGap`); it needs that no statement
  list has blessed that gap (`NotBlessed`). Result: `SelectorsAreTaken`.
- `SeparatorsInv`: what begins a statement of a list, and what is an operator of a node, has
  respectively has not a separator before it that counts. Result: `OperatorsMinded`.
- `PrecedenceInv`: *the left side of a conflict*: an operator taken binds as tightly as the
  expression it is in was called with (`OperatorFrames`, `Expressions`), and nothing that
  ends right before it, prefixes and bodies however deeply nested, could have had it
  (`OperatorNodes`, `RightEdge`, which says it of the value just returned). *The right side*:
  a last part was called with the power of its token (`PartFrames`), ended where the next
  token could not go on (`PartParsed`), and the finished node remembers both (`PartNodes`).
  `HeadsKnown`, `SelectorAwaited` and `ElseStarts` are what these need of the tokens nodes
  begin with. The property compares ranks and associativities, the parser powers: that
  the two tables resolve every conflict alike is `PowersFollowRanks`. Result:
  `PrecedenceIsRespected`.

**`RParserCommas_proofs`** (every text without errors) proves `CommasSeparateArguments`, which
*counts*: the arguments of a list are those that begin as deep in brackets as the list does,
and so are its commas. `CommasInv` says of each `Arguments` on the stack, not only of the one
on top, that behind its open delimiter there are as many arguments as commas, one more if an
argument was read last (`AreCounted`, `ArgumentFrame`), and of each finished list what the
property says (`ListCounted`). Other lists may open and close before the function goes on, so
it must be shown that all of theirs is deeper: what a function has still to close, summed up
along the stack (`SumsGrow`, from the balance of brackets), is how deep it is (`Height`), and a
function above that opens a bracket is deeper. An `Argument` under way holds nothing as deep as
itself, which is why one that ends is one more. Most steps have to do with neither
(`QuietStep`, action by action). Results: `CommaInvariant`, `CommasSeparate`.

`PrecedenceInv` was checked by TLC on the texts of `operators` before it was proved, and
`CommasInv` on texts with nested calls and subsets. The proofs changed two properties of
`RParserTree`. `BetweenStatements` overlooked that an argument alone in its list spans the
same tokens as the braces it consists of. `PrecedenceRespected` asked only of nodes that
end with the operand whether they bind more tightly; it now asks every node with a last
part.

**`Settings_proofs`**, first of `PathResolver` (any directories and values, any number).
`ResolverInv` is the type and the sortedness of the items. `ParentsFirst`: of two directories that contain a
path, the order of paths puts the outer first, so that the last match in a sorted list is
the closest directory. `InsertAtIs`, `RemoveAtIs`, `AddedIs`, `RemovedIs`, `UpdatedIs`,
`LastMatchIs` say what the operations return. Results: `ResolverTypeCorrect`,
`ItemsStaySorted`, and `ResolverImplementsMap`: the list implements `DirectoryMap`. The
variable `request` makes the map's operations distinct, so that an `add` cannot pass for
a `remove`.

**`Session_proofs`** (any requests, operations, pulls and crashes, any capacity).
`SessionInv` has the types; which state and process there are at each await of an
operation (`PhaseInv`), without which nothing says that the `Connect` of a start finds no
process; and `QueueInv`: no request is behind a shutdown, in the stream, in the queue or
across both, and a shutdown is on its way, or the main loop has ended, only while the client
is stopping, when it sends no requests. `Appended` and `Taken` say what a message changes.
It is an argument about the order of one stream: it needs no fairness and no bound.
Results: `SessionTypeCorrect`, `StateFollowsClient`, `NoServerIsOrphaned`,
`RequestsBeforeShutdown`.

**`Lemmas`** holds what several of these need, of natural numbers, finite sets, sequences,
paths and the sorted list of a resolver. Nothing can be instantiated with an operator, so
induction takes the form of a set of numbers, or of subsets of a finite set, that is closed
under a step (`NatInductionSet`, `SubsetInduction`); `IterationExists` and `IterationTyped`
give from it that the iterations by which the community modules define their folds exist,
and what they return if each step keeps it.

**`Settings_proofs`**, then of `LspSettings` (any folders and contents of
`air.toml`, any documents and number of messages). `WorkspacesInv` says of each workspace the server has that it follows
its `air.toml`, unless a message is on its way that will close it or read the file again
(`ItemFollows`), and that its folder is one of the client's or is about to be closed
(`ItemIsKept`), as is each folder that a message is about to open (`AdditionIsKept`);
without the last two, a folder closed and changed again could come back with the settings
it once had. A batch of folders is a fold over a set and is reasoned about as a set.
Results: `SettingsTypeCorrect`, `WorkspacesFollow`, `ClientFollows`.

**`FormatCommand_proofs`** (any tree, settings, patterns, command line, any number of
threads). `SearchInv` is the invariant of the search. *The account of the walk*
(`Counted`): of the ways from a supplied path to a file, each is either awaited by an entry
of the work that is above the file, or held by exactly one visitor, or handed over; visits
move a way from the first to the second, `drop` from the second to the third, whatever the
order. The entries of one root are never above each other (`Apart`), else a way would be
counted twice. *The settings* (`Fits`): what the resolver gives for a path holds from the
directory of its `air.toml` down to the path, since `discover_settings` stops early only
where it has been before (`Complete`, kept by each step of its fold). From both follow that
what a walk finds would be accepted by itself (`FoundIsFormattable`) and the other way
round (`FormattableIsReached`). `CommandInv`: every path found is at all times still to be
formatted, in error, formatted, or, in a check, among the changed (`Accounted`). Results:
`SearchInvariant`, `FilesReached`, `WalkAgrees`, `StdinAgrees`, `StatusIsTrue`. The proof
showed that a walk and a supplied path disagree in one case more than had been thought:
where a directory switches `default-exclude` off and an `air.toml` below switches it on
again, the walk has entered by then what the lower file excludes; hence `DefaultsAgree`.

**`DocumentSync_proofs`** (any texts of the four characters, any encoding and line endings,
any number and size of batches, any diff, any range of statements). `SyncInv` has four parts. *Types*
(`TypeCorrect`): the editor's text has no carriage return, the server's index is that of its
text. *Following*: there is a text for each message on its way, from the server's document
to what the editor has sent, such that each message says how to go from one to the next
(`Linked`), and the changes not yet sent lead on to the editor's text; a batch
says so by a chain of texts of its own (`Takes`). *Asking*: there is one request at a time,
and nothing behind one whose answer is still wanted, so that the answer is for the text the
editor has. *Answering*: the edits of such an answer are edits of that text, at positions of
it, that lead to the formatted one (`Gives`). Beneath them are the lemmas of `Texts`:
- a position, in either encoding, is converted back to the offset it was made of
  (`CharsBeforeIs`, `OffsetInIs`), by any index that is right as far as that place
  (`FoundWithIndex`); and the index `apply_text_changes` keeps while it walks a batch is right
  up to the last line changed (`Serves`, `IndexReaches`), which is what spares it a new
  index for each change and what nothing else in the code says;
- `Normalize` undoes `Carriaged` (`NormalizeCarriaged`);
- changes before the last one of the whole text may be dropped (`BatchIs`);
- the gaps of a diff are in order, and made from the last to the first they go from the left
  text to the right one through texts that have the start of the one and the end of the other
  (`Mixes`, `GapMixes`, `IndelsAre`), while what is before a gap is still untouched, so that
  its positions are still those it was made with (`EditedIs`).

Results: `SyncTypeCorrect`, `Survives`, `Follows`, and `EditsFormat`, whose hypothesis
`Setting # "Crlf"` is the one under which it is true: `crlf_documents` refutes the other case.
`TextsAssumption` says that the editor and the formatter hold their line breaks as single
characters: VS Code splits a text at every kind of line break when it opens it, and to the
formatter's printer a line break is one element, written in the line ending it is given.
`ClosedAssumption` says that `Closed` is no document.

Assumed are only the named `ASSUME`s of the modules, which TLC evaluates in the runs.

## Findings

Three runs refute what the repository says of itself:

1. `selectors`: `token_source.rs:40` says that an extract selector (`x$` newline `y`)
   "survives exactly one line break" and that the number of line breaks matters for it.
   `parse_extract` asks for semicolons only, and its own comment (`expressions.rs:212`)
   says that newlines never block a selector; no code compares the number with one.
2. `settings_of_editor`: the comment at `sync-file-settings.ts:50` promises that the
   active editor always has up-to-date settings. The server sends the settings of the
   opened file alone, the extension replaces its whole map by them, and the editor of the
   document opened before has none left.
3. `crlf_documents`: with `line-ending = "crlf"` the server's document holds `\n` and the
   formatter returns `\r\n`; the edits insert lone carriage returns, which the editor
   takes for line breaks of their own. On files the command line does convert.

Observed while modelling, without a run:

- A folder opened while its `air.toml` is broken is never added (`workspaces.rs:86`), so
  after the file is repaired the client's settings still apply to it, though
  `lsp/src/settings.rs:13` says they are fallbacks.
- A folder without an `air.toml` of its own, opened inside another, has the settings of the
  outer one's file. A change of that file reloads the folders it is inside of
  (`workspaces.rs:178`), not the inner one, which keeps the old settings.
- With `persistent-line-breaks = false`, an argument list whose last function has an empty
  line in its parameters is first expanded, then flat (`call_arguments.rs:553`).
- `call_arguments.rs:1131` says that a name inside its clause carries no comment;
  `comments.rs:737` puts one there: `x(x #c` newline `= {x})` changes at the second
  format. A skip comment before a body that gets braces behaves likewise. `IsCarried` and
  `Skip` leave these texts out of `FormattingTwiceIsOnce`.
- `x$` without a selector parses, though the slot is required (`MayBeMissing`).

## Only model-checked

- Liveness (`ParseTerminates`, `RequestsAreAnswered`, `OperationsEnd`): fairness is out
  of the prover's reach.
- `StrayIsInsideExpression`: it is about texts with errors too. The spans of nodes
  (`SpanInv`) are proved for the steps of texts without one; for those with errors, where a
  bogus node takes in whatever recovery passes, the steps that fail and recover were not
  proved.
- `NodesFitTheirSlots` compares the nodes with tables of the factory and of the generated
  accessors, and reads the children of a node from a flat set with recursive operators.
- The formatter: documents are recursive, its modules declare RECURSIVE operators.
- `CrlfConvertsLineEndings`, since it is false (`crlf_documents`).

## Not modelled

- *Lexing of characters*: tokens and gaps are chosen, among them the ones the lexer's
  errors yield. Trivia pieces (`TriviaState`), raw strings as a mode of their own and the
  contents of strings are left out.
- *Wording and ranges of diagnostics*; biome's event sink; the depth of the native stack,
  a resource of the platform.
- *In the formatter*: table calls and `test_that` calls, string contents, bogus nodes
  (the formatter refuses a text with errors). `biome_formatter` is external.
- *In the settings*: TOML syntax and the values of settings; a file is valid, empty or broken.
- *In the extension*: a start or stop of VS Code's client that rejects while its server
  process lives. The extension then drops the client (`lsp.ts:238`, which calls it hard to
  do better), and `NoOrphans` does not speak of such a process: in the model a start that
  fails has no process left, and a stop fails only when the process is gone.
- *In the server*: `view_file` and other requests that read only, logging, the statements a
  selected range picks.
- *Libraries*: tower-lsp, VS Code, the `ignore` crate's walk order and patterns
  beyond inclusion, exclusion and directories.
- *The Zed extension* (it downloads and starts a binary), *the code generators* (their
  output is modelled as `RNodes` and `RFactory`) and *the test crates*.
- *Generated kinds* that every function treats alike are represented by classes.
