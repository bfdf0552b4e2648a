---------------------------- MODULE FilePatterns ----------------------------
(***************************************************************************)
(* Which files are formatted: the exclude and include patterns of the      *)
(* settings (workspace/file_patterns.rs, toml_options.rs) and the three    *)
(* places that ask them: the walk over the supplied paths (discovery.rs),  *)
(* standard input (format/stdin.rs) and the language server                *)
(* (lsp/file_patterns.rs).  This module has no state.                      *)
(*                                                                         *)
(* A glob names a file or a directory.  Globs with more than one component *)
(* or with wildcards are left out: a component stands for the names that   *)
(* the same globs match.                                                   *)
(***************************************************************************)
EXTENDS Paths

CONSTANTS
  DefaultExcluded,   \* the globs of default_exclude
  DefaultIncluded    \* the globs of default_include

\* A line of an exclude list: `name', `name/' (directory), `/name' (anchored)
\* and `!name' (whitelist).
Glob == [name : Nat, directory : BOOLEAN, anchored : BOOLEAN, whitelist : BOOLEAN]

FilePatterns(root, globs) == [root |-> root, globs |-> globs]

\* The path below the root of the patterns.
Stripped(patterns, path) ==
  IF StartsWith(path, patterns.root)
  THEN SubSeq(path, Len(patterns.root) + 1, Len(path)) ELSE path

GlobMatches(glob, path, isDirectory) ==
  /\ path # <<>>
  /\ IF glob.anchored THEN path = <<glob.name>> ELSE Last(path) = glob.name
  /\ glob.directory => isDirectory

\* The globs that match a stripped path: the last one decides.
Deciding(patterns, path, isDirectory) ==
  SelectLastInSeq(patterns.globs, LAMBDA glob : GlobMatches(glob, path, isDirectory))

Ignores(patterns, path, isDirectory) ==
  LET k == Deciding(patterns, path, isDirectory)
  IN  k # 0 /\ ~patterns.globs[k].whitelist

\* FilePatterns::matched: a whitelisted path is one that is not matched.
Matched(patterns, path, isDirectory) ==
  Ignores(patterns, Stripped(patterns, path), isDirectory)

\* FilePatterns::matched_path_or_any_parents: the path or the closest of its
\* parents below the root that any glob matches decides.
MatchedOrParents(patterns, path, isDirectory) ==
  LET rest == Stripped(patterns, path)
      Up(n) == SubSeq(rest, 1, n)
      IsDir(n) == n < Len(rest) \/ isDirectory
      hits == {n \in 1 .. Len(rest) : Deciding(patterns, Up(n), IsDir(n)) # 0}
  IN  hits # {} /\ Ignores(patterns, Up(Max(hits)), IsDir(Max(hits)))

\* DefaultFilePatterns: there is no root, and all the parents are looked at.
DefaultMatchedOrParents(globs, path, isDirectory) ==
  \E n \in 1 .. Len(path) :
    Ignores(FilePatterns(<<>>, globs), SubSeq(path, 1, n), n < Len(path) \/ isDirectory)

-----------------------------------------------------------------------------
(* Settings *)

DefaultSettings ==
  [exclude |-> FilePatterns(<<>>, <<>>), defaultExclude |-> TRUE, style |-> 0]

\* TomlOptions::into_settings, as far as files and one option of style go.
IntoSettings(toml, root) ==
  [exclude |-> FilePatterns(root, toml.exclude),
   defaultExclude |-> toml.defaultExclude,
   style |-> toml.style]

\* any_exclude_matched_path
AnyExcludeMatchedPath(path, isDirectory, settings) ==
  \/ Matched(settings.exclude, path, isDirectory)
  \/ /\ settings.defaultExclude
     /\ Matched(FilePatterns(<<>>, DefaultExcluded), path, isDirectory)

\* any_exclude_matched_path_or_any_parents
AnyExcludeMatchedPathOrAnyParents(path, isDirectory, settings) ==
  \/ MatchedOrParents(settings.exclude, path, isDirectory)
  \/ /\ settings.defaultExclude
     /\ DefaultMatchedOrParents(DefaultExcluded, path, isDirectory)

\* any_include_matched_path
AnyIncludeMatchedPath(path) == Matched(FilePatterns(<<>>, DefaultIncluded), path, FALSE)

\* Mutant: only the path itself can be excluded.
StdinIgnoresParents(path, settings, force) ==
  \/ force
  \/ /\ ~AnyExcludeMatchedPath(path, FALSE, settings)
     /\ AnyIncludeMatchedPath(path)

\* is_stdin_formattable
IsStdinFormattable(path, settings, force) ==
  \/ force
  \/ /\ ~AnyExcludeMatchedPathOrAnyParents(path, FALSE, settings)
     /\ AnyIncludeMatchedPath(path)

\* is_document_excluded: a document of the R language needs no R extension.
IsDocumentExcluded(path, settings, isR) ==
  \/ AnyExcludeMatchedPathOrAnyParents(path, FALSE, settings)
  \/ ~AnyIncludeMatchedPath(path) /\ ~isR

=============================================================================
