---------------------------- MODULE PathResolver ----------------------------
(***************************************************************************)
(* workspace/resolve.rs: a resolver from a path to the value of the        *)
(* closest directory that was added.  The resolver keeps its items in a    *)
(* sorted list and answers from the end of it.                             *)
(***************************************************************************)
EXTENDS Paths

CONSTANTS Directories, Lookups, Values, NoValue

ASSUME PathsAssumption == Directories \subseteq Path /\ Lookups \subseteq Path
ASSUME ValuesAssumption == NoValue \notin Values

VARIABLES
  items,    \* the sorted items
  request,  \* the last operation
  result    \* what it returned

resolverVars == <<items, request, result>>

ResolverTypeOK ==
  /\ items \in Seq([path : Directories, value : Values])
  /\ result \in Values \cup {NoValue}

\* Mutant: the item is given back, not its value.
ValueOfItem(path) ==
  IF path \in Keys(items) THEN items[IndexOf(items, path)] ELSE NoValue

\* The value an operation on an item of the list gives back.
ValueOf(path) ==
  IF path \in Keys(items) THEN items[IndexOf(items, path)].value ELSE NoValue

AddItem(path, value) ==
  /\ request' = <<"Add", path>>
  /\ items' = Added(items, path, value)
  /\ result' = ValueOf(path)

RemoveItem(path) ==
  /\ request' = <<"Remove", path>>
  /\ items' = Removed(items, path)
  /\ result' = ValueOf(path)

ClearItems ==
  /\ request' = <<"Clear">>
  /\ items' = << >>
  /\ UNCHANGED result

\* A caller of matches_mut that gives every match a new value.
UpdateMatches(path, value) ==
  /\ request' = <<"Update", path>>
  /\ items' = [i \in DOMAIN items |->
                 IF i \in Matches(items, path) THEN Item(items[i].path, value) ELSE items[i]]
  /\ UNCHANGED result

Resolve(path) ==
  /\ request' = <<"Resolve", path>>
  /\ result' = Resolved(items, path, NoValue)
  /\ UNCHANGED items

ResolverInit == items = << >> /\ request = << >> /\ result = NoValue

ResolverNext ==
  \/ \E d \in Directories, v \in Values : AddItem(d, v)
  \/ \E d \in Directories : RemoveItem(d)
  \/ ClearItems
  \/ \E p \in Lookups, v \in Values : UpdateMatches(p, v)
  \/ \E p \in Lookups : Resolve(p)

ResolverSpec == ResolverInit /\ [][ResolverNext]_resolverVars

-----------------------------------------------------------------------------
(* Properties *)

\* The binary searches of add and remove, and the answer from the end of the
\* list, are right only while the list is sorted, each path in it once.
ItemsSorted == Sorted(items)

\* The list as a map.
ItemsMap == [d \in Keys(items) |-> items[IndexOf(items, d)].value]

Map == INSTANCE DirectoryMap WITH map <- ItemsMap

\* The resolver is a map from directories to values: whatever is added, removed
\* and replaced, in any order, a path resolves to the value of the closest
\* directory that holds it.
ResolverIsMap == Map!MapSpec

=============================================================================
