---------------------------- MODULE DirectoryMap ----------------------------
(***************************************************************************)
(* What a PathResolver promises: a map from directories to values, and for *)
(* a path the value of the closest directory that holds it.  There is no   *)
(* list here and no order.                                                 *)
(***************************************************************************)
EXTENDS Paths

CONSTANTS
  Directories,   \* the directories that may be added
  Lookups,       \* the paths that may be looked up
  Values,        \* the values of directories
  NoValue        \* what an operation that finds nothing returns

VARIABLES
  map,           \* the value of each directory that was added
  request,       \* the last operation
  result         \* what it returned

mapVars == <<map, request, result>>

Holding(path) == {d \in DOMAIN map : StartsWith(path, d)}

Closest(path) == CHOOSE d \in Holding(path) : \A e \in Holding(path) : Len(e) <= Len(d)

ValueAt(d) == IF d \in DOMAIN map THEN map[d] ELSE NoValue

MapAdd(d, v) ==
  /\ request' = <<"Add", d>>
  /\ result' = ValueAt(d)
  /\ map' = [e \in DOMAIN map \cup {d} |-> IF e = d THEN v ELSE map[e]]

MapRemove(d) ==
  /\ request' = <<"Remove", d>>
  /\ result' = ValueAt(d)
  /\ map' = Restrict(map, DOMAIN map \ {d})

MapClear == request' = <<"Clear">> /\ map' = << >> /\ UNCHANGED result

\* The value of each directory that holds the path is replaced.
MapUpdate(path, v) ==
  /\ request' = <<"Update", path>>
  /\ map' = [d \in DOMAIN map |-> IF d \in Holding(path) THEN v ELSE map[d]]
  /\ UNCHANGED result

MapResolve(path) ==
  /\ request' = <<"Resolve", path>>
  /\ result' = IF Holding(path) = {} THEN NoValue ELSE map[Closest(path)]
  /\ UNCHANGED map

MapInit == map = << >> /\ request = << >> /\ result = NoValue

MapNext ==
  \/ \E d \in Directories, v \in Values : MapAdd(d, v)
  \/ \E d \in Directories : MapRemove(d)
  \/ MapClear
  \/ \E p \in Lookups, v \in Values : MapUpdate(p, v)
  \/ \E p \in Lookups : MapResolve(p)

MapSpec == MapInit /\ [][MapNext]_mapVars

=============================================================================
