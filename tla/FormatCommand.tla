--------------------------- MODULE FormatCommand ---------------------------
(***************************************************************************)
(* `air format' (air/src/commands/format.rs): the files found below the    *)
(* supplied paths are formatted one after the other, on the disk (write)   *)
(* or only to see whether they would change (check); or one text is        *)
(* formatted from standard input to standard output.                       *)
(***************************************************************************)
EXTENDS Discovery

CONSTANTS
  Commands,      \* the command lines: paths, stdin (a path or none), check, force
  None,          \* no standard input
  Tomls,         \* the air.toml files on the disk, directory by directory
  Disks          \* the contents of the files

VARIABLES
  command,
  disk,          \* the contents of the files
  pending,       \* the bag of what is left to format
  errors,        \* the bag of the errors of files
  changed,       \* the bag of the files that check would reformat
  output,        \* what was written to standard output
  status         \* the exit status

fileVars == <<disk, pending, errors, changed, output, status>>
commandVars == <<walkVars, command, fileVars>>

Files == Tree \ Folders

ASSUME DisksAssumption == \A contents \in Disks : DOMAIN contents = Files
ASSUME CommandsAssumption ==
  \A c \in Commands : c.paths \in Seq(Path) /\ (c.stdin # None => c.stdin \in Path)
ASSUME TomlsAssumption ==
  \A t \in Tomls : \A d \in DOMAIN t : t[d] \in {Absent, Broken} \/ t[d].exclude \in Seq(Glob)

\* A content is the style in which it is formatted (0: the default), or:
Raw == 10         \* in no style
Locked == 11      \* in no style, and the file cannot be written
Invalid == 12     \* no R code
Unreadable == 13  \* the file cannot be read

-----------------------------------------------------------------------------

\* check_argument_consistency
Inconsistent == command.stdin # None /\ command.paths # <<>>

End(exit) == phase' = "done" /\ status' = exit

\* The command ends before a file was looked at: its arguments are inconsistent,
\* or an air.toml cannot be parsed.
Refuse ==
  /\ phase = "start"
  /\ \/ Inconsistent
     \/ ~SettingsDiscoverable(IF command.stdin # None THEN <<command.stdin>> ELSE supplied)
  /\ End("Error")
  /\ UNCHANGED <<tomls, supplied, force, resolver, work, visitors, files, command,
                 disk, pending, errors, changed, output>>

\* paths::format up to the walk.
FormatPaths ==
  /\ phase = "start"
  /\ command.stdin = None
  /\ SettingsDiscoverable(supplied)
  /\ resolver' = LoadedResolver(supplied)
  /\ StartWalk
  /\ UNCHANGED <<tomls, supplied, force, command, fileVars>>

\* The visitors are dropped: discover_r_file_paths returns.
WalkEnds ==
  /\ phase = "walk"
  /\ work = {} /\ DOMAIN visitors = {}
  /\ phase' = "format"
  /\ pending' = files
  /\ UNCHANGED <<tomls, supplied, force, resolver, work, visitors, files, command,
                 disk, errors, changed, output, status>>

StyleOf(path) == SettingsOf(resolver, path).style

\* format_path fails: the file was not found, cannot be read or holds no R code.
FormatFails(result) == ~result.failed => disk[result.path] \in {Unreadable, Invalid}

\* FormattedSource::Changed
Changes(path) == disk[path] # StyleOf(path)

\* One of the files that are left to format.
TakeFile(result) ==
  /\ phase = "format"
  /\ BagIn(result, pending)
  /\ pending' = pending (-) SetToBag({result})
  /\ UNCHANGED <<walkVars, command, output, status>>

\* A file that fails is recorded, and the others are still formatted.
FailFile(result) ==
  /\ TakeFile(result)
  /\ FormatFails(result)
  /\ errors' = errors (+) SetToBag({result.path})
  /\ UNCHANGED <<disk, changed>>

\* format_paths_write and write_path: what has not changed is not written, and
\* a write may fail.
WriteFile(result) ==
  /\ ~command.check
  /\ TakeFile(result)
  /\ ~FormatFails(result)
  /\ LET path == result.path
         fails == Changes(path) /\ disk[path] = Locked
     IN  /\ disk' = IF Changes(path) /\ ~fails THEN [disk EXCEPT ![path] = StyleOf(path)] ELSE disk
         /\ errors' = IF fails THEN errors (+) SetToBag({path}) ELSE errors
  /\ UNCHANGED changed

\* format_paths_check and check_path
CheckFile(result) ==
  /\ command.check
  /\ TakeFile(result)
  /\ ~FormatFails(result)
  /\ changed' = IF Changes(result.path) THEN changed (+) SetToBag({result.path}) ELSE changed
  /\ UNCHANGED <<disk, errors>>

\* Mutant: files that would be reformatted are reported whatever went wrong.
ChangesComeFirst ==
  IF command.check /\ changed # EmptyBag THEN "Failure"
  ELSE IF errors # EmptyBag THEN "Error"
  ELSE "Success"

\* The exit status of paths::format: errors come before changes.
PathsStatus ==
  IF errors # EmptyBag THEN "Error"
  ELSE IF command.check /\ changed # EmptyBag THEN "Failure"
  ELSE "Success"

EndPaths ==
  /\ phase = "format"
  /\ pending = EmptyBag
  /\ End(PathsStatus)
  /\ UNCHANGED <<tomls, supplied, force, resolver, work, visitors, files, command,
                 disk, pending, errors, changed, output>>

\* What is piped in: the text of the file, as an editor has it.
StdinText == IF command.stdin \in Files THEN disk[command.stdin] ELSE Raw

\* stdin::format, format_stdin_write and format_stdin_check
FormatStdin ==
  LET items == LoadedResolver(<<command.stdin>>)
      settings == SettingsOf(items, command.stdin)
      formats == IsStdinFormattable(command.stdin, settings, command.force)
      fails == \/ StdinText = Unreadable /\ (formats \/ ~command.check)
               \/ StdinText = Invalid /\ formats
  IN  /\ phase = "start"
      /\ command.stdin # None /\ ~Inconsistent
      /\ SettingsDiscoverable(<<command.stdin>>)
      /\ resolver' = items
      /\ End(IF fails THEN "Error"
             ELSE IF command.check /\ formats /\ StdinText # settings.style THEN "Failure"
             ELSE "Success")
      /\ output' = IF fails \/ command.check THEN output
                   ELSE <<IF formats THEN settings.style ELSE StdinText>>
      /\ UNCHANGED <<tomls, supplied, force, work, visitors, files, command,
                     disk, pending, errors, changed>>

-----------------------------------------------------------------------------

Init ==
  /\ command \in Commands
  /\ supplied = command.paths
  /\ force = command.force
  /\ tomls \in Tomls
  /\ disk \in Disks
  /\ resolver = << >>
  /\ phase = "start"
  /\ work = {} /\ visitors = << >> /\ files = EmptyBag
  /\ pending = EmptyBag /\ errors = EmptyBag /\ changed = EmptyBag
  /\ output = << >>
  /\ status = "None"

\* The command has ended.
Finished == phase = "done" /\ UNCHANGED commandVars

Walk ==
  /\ phase = "walk"
  /\ \E t \in Threads : \/ \E e \in work : Visit(t, e)
                        \/ DropVisitor(t)
  /\ UNCHANGED <<command, fileVars>>

Next ==
  \/ Refuse
  \/ FormatPaths
  \/ Walk
  \/ WalkEnds
  \/ \E r \in BagToSet(pending) : FailFile(r) \/ WriteFile(r) \/ CheckFile(r)
  \/ EndPaths
  \/ FormatStdin
  \/ Finished

Spec == Init /\ [][Next]_commandVars

-----------------------------------------------------------------------------
(* Properties *)

\* The walk is over, and formatting has begun.
Searched == phase = "format"

\* The way down from a path to a file.
Down(root, file) == {SubSeq(file, 1, n) : n \in Len(root) + 1 .. Len(file)}

\* The supplied paths that lead to the file: the path is not excluded with its
\* parents, and nothing on the way down from it is excluded or hidden.
Ways(file) ==
  {i \in DOMAIN supplied :
    LET root == supplied[i]
        down == Down(root, file)
    IN  /\ root \in Tree /\ StartsWith(file, root)
        /\ down \cap Hidden = {}
        /\ \/ force
           \/ /\ ~AnyExcludeMatchedPathOrAnyParents(root, IsDirectory(root), SettingsOf(resolver, root))
              /\ \A p \in down : ~AnyExcludeMatchedPath(p, IsDirectory(p), SettingsOf(resolver, p))
              /\ AnyIncludeMatchedPath(file)}

TimesFound(result) == IF BagIn(result, files) THEN files[result] ELSE 0

\* However the threads share the walk, and in whatever order they hand over what
\* they collected, every file is found once for each supplied path that leads to
\* it, and every path that is not there is reported once (discovery.rs, visit and
\* drop).
FilesAreThoseReached ==
  Searched =>
    /\ \A f \in Files : TimesFound(Found(f)) = Cardinality(Ways(f))
    /\ \A i \in DOMAIN supplied : supplied[i] \notin Tree =>
         TimesFound(Missing(supplied[i]))
           = Cardinality({j \in DOMAIN supplied : supplied[j] = supplied[i]})

\* From the supplied paths down to the file, all settings make the same use of
\* the default patterns.  Where they do not, a walk may get into a directory that
\* the settings of a file below it exclude by default: the walk does not look at
\* the parents of the file again.
DefaultsAgree(file) ==
  \A i \in DOMAIN supplied : \A p \in Down(supplied[i], file) \cup {supplied[i]} :
    StartsWith(file, p) =>
      SettingsOf(resolver, p).defaultExclude = SettingsOf(resolver, file).defaultExclude

\* A file found by a walk is one that would also be accepted if it were supplied
\* itself, and the other way round: not visiting the children of an excluded
\* directory comes to the same as looking at a path's parents (discovery.rs,
\* visit).  Hidden and ignored files are only found when supplied, a whitelisting
\* pattern reaches a file only from below, and the patterns of one air.toml say
\* nothing of a file below another one.
WalkAgreesWithSupplied ==
  Searched /\ (\A d \in DOMAIN tomls : tomls[d] \in {Absent, Broken}
                  \/ \A i \in DOMAIN tomls[d].exclude : ~tomls[d].exclude[i].whitelist) =>
    \A f \in Files, i \in DOMAIN supplied :
      LET down == Down(supplied[i], f)
      IN  /\ StartsWith(f, supplied[i]) /\ down \cap Hidden = {}
          /\ \A p \in down \cup {supplied[i]} : SettingsOf(resolver, p) = SettingsOf(resolver, f)
          /\ DefaultsAgree(f)
          => (BagIn(Found(f), files)
               <=> IsStdinFormattable(f, SettingsOf(resolver, f), force))

\* What is piped to `air format --stdin-file-path f' is treated as `air format f'
\* treats the file, whatever other paths are supplied along with it: it is
\* formatted in the same style, none that is accepted is left out, and none is
\* found that is refused, as long as the defaults agree (stdin.rs,
\* is_stdin_formattable); and the language server excludes the same documents
\* (lsp/file_patterns.rs).
StdinAgreesWithSupplied ==
  /\ Searched =>
       \A f \in Files \cap Range(supplied) :
         LET settings == SettingsOf(LoadedResolver(<<f>>), f)
             accepted == IsStdinFormattable(f, settings, force)
         IN  /\ accepted => BagIn(Found(f), files)
             /\ BagIn(Found(f), files) /\ DefaultsAgree(f) => accepted
             /\ ~force => (accepted <=> ~IsDocumentExcluded(f, settings, FALSE))
             /\ settings.style = StyleOf(f)
  /\ output # << >> /\ command.stdin \in Files =>
       output[1] \in {StdinText, StyleOf(command.stdin)}

\* One file that fails hides neither the others nor itself: after a write every
\* file that was found is in the style of its settings or in error, and the exit
\* status says Success only when all are, after a check as after a write
\* (format/paths.rs).
StatusTellsTheDisk ==
  phase = "done" /\ command.stdin = None =>
    LET found == {r.path : r \in BagToSet(files)}
        good == {f \in found \cap Files : disk[f] = StyleOf(f)}
    IN  /\ ~command.check => found \subseteq good \cup BagToSet(errors)
        /\ status = "Success" => found \subseteq good
        /\ status = "Failure" => command.check /\ found \subseteq good \cup BagToSet(changed)

=============================================================================
