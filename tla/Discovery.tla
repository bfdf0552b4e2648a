----------------------------- MODULE Discovery -----------------------------
(***************************************************************************)
(* workspace/discovery.rs: the settings of a set of supplied paths, and    *)
(* the R files below them, collected by the threads of a parallel walk.    *)
(*                                                                         *)
(* Each thread has a visitor that keeps what it finds to itself, and hands *)
(* it over when it is dropped.  Which thread visits what, and when, is up  *)
(* to the walker of the `ignore' crate, which is external.  What is found  *)
(* is a bag: the code gives it no order.                                   *)
(***************************************************************************)
EXTENDS FilePatterns

CONSTANTS
  Tree,          \* the paths that exist
  Folders,       \* those of them that are directories
  Hidden,        \* those that are hidden or that git ignores
  Threads,       \* the threads of the walk
  Absent,        \* there is no air.toml
  Broken         \* the air.toml cannot be parsed

\* What exists is in a directory.
ASSUME TreeAssumption ==
  /\ Tree \subseteq Path /\ Folders \subseteq Tree /\ Hidden \subseteq Tree
  /\ \A p \in Tree : p # <<>> => Parent(p) \in Folders

VARIABLES
  tomls,         \* the air.toml of each directory
  supplied,      \* the paths the user supplied
  force,         \* whether patterns are not looked at
  resolver,      \* the resolver of the settings
  phase,         \* how far the command has come
  work,          \* the entries that the walker has still to hand to a thread
  visitors,      \* the bag each visitor has collected; a dropped visitor is absent
  files          \* FilesState.files: the paths found, and the errors

walkVars == <<tomls, supplied, force, resolver, phase, work, visitors, files>>

-----------------------------------------------------------------------------
(* discover_settings *)

TomlIn(folder) == IF folder \in DOMAIN tomls THEN tomls[folder] ELSE Absent

\* The path and its ancestors.
Ancestors(path) == {SubSeq(path, 1, n) : n \in 0 .. Len(path)}

Deepest(paths) == CHOOSE p \in paths : \A q \in paths : Len(q) <= Len(p)

\* One path: its ancestors are walked until one was seen or has an air.toml.
FromOne(acc, path) ==
  LET stops == {a \in Ancestors(path) : a \in acc.seen \/ TomlIn(a) # Absent}
      stop == IF stops = {} THEN <<>> ELSE Deepest(stops)
      walked == {a \in Ancestors(path) : Len(a) >= Len(stop)}
      isNew == stop \notin acc.seen /\ TomlIn(stop) # Absent
  IN  [seen |-> acc.seen \cup walked,
       found |-> IF isNew THEN acc.found \cup {stop} ELSE acc.found]

\* The directories of the air.toml files that discover_settings finds.
DiscoveredFolders(paths) == FoldLeft(FromOne, [seen |-> {}, found |-> {}], paths).found

\* Every air.toml that was found can be parsed: else the whole discovery fails.
SettingsDiscoverable(paths) == \A d \in DiscoveredFolders(paths) : TomlIn(d) # Broken

\* The resolver into which the callers load what was discovered.
LoadedResolver(paths) ==
  FoldSet(LAMBDA d, items : Added(items, d, IntoSettings(TomlIn(d), d)),
          <<>>, DiscoveredFolders(paths))

\* resolve_or_fallback
SettingsOf(items, path) == Resolved(items, path, DefaultSettings)

-----------------------------------------------------------------------------
(* discover_r_file_paths *)

Entry(path, root) == [path |-> path, root |-> root]
Found(path) == [path |-> path, failed |-> FALSE]
Missing(path) == [path |-> path, failed |-> TRUE]

IsDirectory(path) == path \in Folders

IsDirectlySupplied(entry) == entry.path = supplied[entry.root]

\* The entries of a directory that the walker goes on to.
Children(entry) ==
  {Entry(p, entry.root) : p \in {q \in Tree \ Hidden : q # <<>> /\ Parent(q) = entry.path}}

\* WalkState::Skip: a supplied path is excluded with its parents, any other
\* path by itself.
Skips(entry) ==
  LET settings == SettingsOf(resolver, entry.path)
  IN  /\ ~force
      /\ IF IsDirectlySupplied(entry)
         THEN AnyExcludeMatchedPathOrAnyParents(entry.path, IsDirectory(entry.path), settings)
         ELSE AnyExcludeMatchedPath(entry.path, IsDirectory(entry.path), settings)

\* The file that a visit accepts.
Accepts(entry) == ~IsDirectory(entry.path) /\ (force \/ AnyIncludeMatchedPath(entry.path))

\* Mutant: the children of an excluded directory are visited.
VisitSkipped(thread, entry) ==
  /\ entry \in work
  /\ thread \in DOMAIN visitors
  /\ work' = (work \ {entry}) \cup IF IsDirectory(entry.path) THEN Children(entry) ELSE {}
  /\ visitors' = [visitors EXCEPT ![thread] =
                    IF ~Skips(entry) /\ Accepts(entry) THEN @ (+) SetToBag({Found(entry.path)}) ELSE @]
  /\ UNCHANGED <<tomls, supplied, force, resolver, phase, files>>

\* visit, and visit_format
Visit(thread, entry) ==
  /\ entry \in work
  /\ thread \in DOMAIN visitors
  /\ work' = (work \ {entry}) \cup
               IF ~Skips(entry) /\ IsDirectory(entry.path) THEN Children(entry) ELSE {}
  /\ visitors' = [visitors EXCEPT ![thread] =
                    IF ~Skips(entry) /\ Accepts(entry) THEN @ (+) SetToBag({Found(entry.path)}) ELSE @]
  /\ UNCHANGED <<tomls, supplied, force, resolver, phase, files>>

\* Mutant: what a visitor hands over replaces what others did.
DropReplaces(thread) ==
  /\ work = {}
  /\ thread \in DOMAIN visitors
  /\ files' = visitors[thread]
  /\ visitors' = Restrict(visitors, DOMAIN visitors \ {thread})
  /\ UNCHANGED <<tomls, supplied, force, resolver, phase, work>>

\* drop: under the lock, the visitor's files join those of the others.
DropVisitor(thread) ==
  /\ work = {}
  /\ thread \in DOMAIN visitors
  /\ files' = files (+) visitors[thread]
  /\ visitors' = Restrict(visitors, DOMAIN visitors \ {thread})
  /\ UNCHANGED <<tomls, supplied, force, resolver, phase, work>>

\* A walk starts: the walker looks at the supplied paths itself, with a visitor
\* of its own for those it cannot find, and drops that before the threads start.
StartWalk ==
  LET roots == {i \in DOMAIN supplied : supplied[i] \in Tree}
      lost == DOMAIN supplied \ roots
  IN  /\ phase' = "walk"
      /\ work' = {Entry(supplied[i], i) : i \in roots}
      /\ visitors' = IF roots = {} THEN << >> ELSE [t \in Threads |-> EmptyBag]
      /\ files' = [r \in {Missing(supplied[i]) : i \in lost} |->
                     Cardinality({i \in lost : supplied[i] = r.path})]

=============================================================================
