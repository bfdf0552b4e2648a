--------------------------- MODULE Settings_proofs ---------------------------
(***************************************************************************)
(* Theorems of PathResolver and LspSettings.  The list of a resolver stays *)
(* sorted, and it is a map from directories to values that answers with    *)
(* the closest one.  In the server, which has a resolver for its workspace *)
(* folders and one in each, the open workspaces follow the air.toml of     *)
(* their folders, and what the client was told agrees with the server.     *)
(***************************************************************************)
EXTENDS PathResolver, LspSettings, Lemmas

-----------------------------------------------------------------------------
(* PathResolver.  Sorting is needed for the list to be a map, and the type of *)
(* the items for their order; the two are proved together.                    *)

ResolverInv == ResolverTypeOK /\ ItemsSorted

LEMMA ValueOfIs ==
  ASSUME ResolverInv, NEW d \in Directories
  PROVE  /\ ValueOf(d) \in Values \cup {NoValue}
         /\ ValueOf(d) = IF d \in DOMAIN ItemsMap THEN ItemsMap[d] ELSE NoValue
<1>1. items \in Seq(PathItems(Directories, Values)) /\ Sorted(items)
  BY DEF ResolverInv, ResolverTypeOK, ItemsSorted, PathItems
<1>2. CASE d \in Keys(items)
  <2>1. PICK i \in 1 .. Len(items) : items[i].path = d
    BY <1>1, <1>2 DEF Keys
  <2>2. IndexOf(items, d) = i
    BY <1>1, <2>1, IndexOfIs, PathsAssumption
  <2>3. ValueOf(d) = items[i].value /\ items[i].value \in Values
    BY <1>1, <1>2, <2>2, ListTyped, PathsAssumption DEF ValueOf
  <2>4. QED
    BY <1>2, <2>2, <2>3 DEF ItemsMap
<1>3. CASE d \notin Keys(items)
  BY <1>3 DEF ValueOf, ItemsMap
<1>4. QED
  BY <1>2, <1>3

LEMMA ResolvedIs ==
  ASSUME ResolverInv, NEW path \in Lookups
  PROVE  /\ Resolved(items, path, NoValue) \in Values \cup {NoValue}
         /\ Resolved(items, path, NoValue) =
              IF Map!Holding(path) = {} THEN NoValue ELSE ItemsMap[Map!Closest(path)]
<1>1. items \in Seq(PathItems(Directories, Values)) /\ Sorted(items)
  BY DEF ResolverInv, ResolverTypeOK, ItemsSorted, PathItems
<1>2. Map!Holding(path) = {d \in Keys(items) : StartsWith(path, d)}
  BY DEF Map!Holding, Map!StartsWith, StartsWith, ItemsMap
<1>3. CASE Matches(items, path) = {}
  <2>1. Map!Holding(path) = {}
    BY <1>2, <1>3 DEF Keys, Matches
  <2>2. QED
    BY <1>3, <2>1 DEF Resolved
<1>4. CASE Matches(items, path) # {}
  <2> DEFINE m == LastMatch(items, path)
  <2>1. /\ m \in DOMAIN items
        /\ StartsWith(path, items[m].path)
        /\ \A d \in Keys(items) : StartsWith(path, d) =>
             /\ Len(d) <= Len(items[m].path)
             /\ Len(d) = Len(items[m].path) => d = items[m].path
    BY <1>1, <1>4, LastMatchIs, PathsAssumption
  <2>2. Resolved(items, path, NoValue) = items[m].value
    BY <1>4 DEF Resolved
  <2> HIDE DEF m
  <2>3. /\ items[m].path \in Keys(items)
        /\ IndexOf(items, items[m].path) = m
        /\ items[m].value \in Values
    BY <1>1, <2>1, IndexOfIs, PathsAssumption, ListTyped, PathsAssumption
  <2>4. ItemsMap[items[m].path] = items[m].value
    BY <2>3 DEF ItemsMap
  <2>5. /\ items[m].path \in Map!Holding(path)
        /\ \A e \in Map!Holding(path) : Len(e) <= Len(items[m].path)
    BY <1>2, <2>1, <2>3
  <2>6. /\ Map!Closest(path) \in Map!Holding(path)
        /\ \A e \in Map!Holding(path) : Len(e) <= Len(Map!Closest(path))
    BY <2>5 DEF Map!Closest
  <2>7. \A d \in Keys(items) : Len(d) \in Nat
    BY <1>1, ListTyped, PathsAssumption DEF Keys, Path
  <2>8. Map!Closest(path) = items[m].path
    BY <1>2, <2>1, <2>3, <2>5, <2>6, <2>7
  <2>9. QED
    BY <2>2, <2>3, <2>4, <2>5, <2>8
<1>5. QED
  BY <1>3, <1>4

LEMMA ResolverStep ==
  ASSUME ResolverInv, ResolverNext
  PROVE  ResolverInv' /\ Map!MapNext
<1>1. items \in Seq(PathItems(Directories, Values)) /\ Sorted(items) /\ result \in Values \cup {NoValue}
  BY DEF ResolverInv, ResolverTypeOK, ItemsSorted, PathItems
<1>2. SUFFICES /\ items' \in Seq(PathItems(Directories, Values)) /\ Sorted(items')
               /\ result' \in Values \cup {NoValue}
               /\ Map!MapNext
  BY DEF ResolverInv, ResolverTypeOK, ItemsSorted, PathItems
<1>v. \A v \in Values : \A d \in Directories : Item(d, v) \in PathItems(Directories, Values)
  BY ItemOfPathItems
<1>m. ItemsMap = MapOf(items) /\ ItemsMap' = MapOf(items')
  BY DEF ItemsMap, MapOf
<1>3. CASE \E d \in Directories, v \in Values : AddItem(d, v)
  <2>1. PICK d \in Directories, v \in Values : AddItem(d, v)
    BY <1>3
  <2>2. items' = Added(items, d, v) /\ request' = <<"Add", d>> /\ result' = ValueOf(d)
    BY <2>1 DEF AddItem
  <2>3. items' \in Seq(PathItems(Directories, Values)) /\ Sorted(items')
    BY <2>2, <1>1, <1>v, AddedIs, PathsAssumption
  <2>4. Map!MapAdd(d, v)
    <3>1. result' = Map!ValueAt(d)
      BY <2>2, ValueOfIs DEF Map!ValueAt
    <3>2. ItemsMap' = [e \in DOMAIN ItemsMap \cup {d} |-> IF e = d THEN v ELSE ItemsMap[e]]
      <4>1. MapOf(Added(items, d, v)) = MapWith(MapOf(items), d, v)
        BY <1>1, <1>v, MapOfAdded, PathsAssumption
      <4>2. ItemsMap' = MapWith(ItemsMap, d, v)
        BY <2>2, <4>1, <1>m
      <4>3. QED
        BY <4>2 DEF MapWith
    <3>3. QED
      BY <2>2, <3>1, <3>2 DEF Map!MapAdd
  <2>5. QED
    BY <2>2, <2>3, <2>4, ValueOfIs DEF Map!MapNext
<1>4. CASE \E d \in Directories : RemoveItem(d)
  <2>1. PICK d \in Directories : RemoveItem(d)
    BY <1>4
  <2>2. items' = Removed(items, d) /\ request' = <<"Remove", d>> /\ result' = ValueOf(d)
    BY <2>1 DEF RemoveItem
  <2>3. items' \in Seq(PathItems(Directories, Values)) /\ Sorted(items')
    BY <2>2, <1>1, RemovedIs, PathsAssumption
  <2>4. Map!MapRemove(d)
    <3>1. result' = Map!ValueAt(d)
      BY <2>2, ValueOfIs DEF Map!ValueAt
    <3>2. ItemsMap' = Restrict(ItemsMap, DOMAIN ItemsMap \ {d})
      BY <2>2, <1>1, <1>m, MapOfRemoved, PathsAssumption
    <3>3. Restrict(ItemsMap, DOMAIN ItemsMap \ {d}) = Map!Restrict(ItemsMap, DOMAIN ItemsMap \ {d})
      BY DEF Restrict, Map!Restrict
    <3>4. QED
      BY <2>2, <3>1, <3>2, <3>3 DEF Map!MapRemove
  <2>5. QED
    BY <2>2, <2>3, <2>4, ValueOfIs DEF Map!MapNext
<1>5. CASE ClearItems
  <2>1. items' = << >> /\ request' = <<"Clear">> /\ result' = result
    BY <1>5 DEF ClearItems
  <2>2. Sorted(items') /\ Keys(items') = {}
    BY <2>1 DEF Sorted, Keys
  <2>3. ItemsMap' = << >>
    BY <2>1, <2>2, <1>m DEF MapOf
  <2>4. QED
    BY <1>1, <2>1, <2>2, <2>3 DEF Map!MapNext, Map!MapClear
<1>6. CASE \E p \in Lookups, v \in Values : UpdateMatches(p, v)
  <2>1. PICK p \in Lookups, v \in Values : UpdateMatches(p, v)
    BY <1>6
  <2>2. items' = Updated(items, p, v) /\ request' = <<"Update", p>> /\ result' = result
    BY <2>1 DEF UpdateMatches, Updated
  <2>3. /\ items' \in Seq(PathItems(Directories, Values)) /\ Sorted(items')
        /\ ItemsMap' = [d \in DOMAIN ItemsMap |-> IF StartsWith(p, d) THEN v ELSE ItemsMap[d]]
    <3>1. /\ Updated(items, p, v) \in Seq(PathItems(Directories, Values))
          /\ Sorted(Updated(items, p, v))
          /\ MapOf(Updated(items, p, v)) = MapUpdatedTo(MapOf(items), p, v)
      <4>1. p \in Path /\ \A d \in Directories : Item(d, v) \in PathItems(Directories, Values)
        BY <1>v, PathsAssumption
      <4>2. QED
        BY <1>1, <4>1, UpdatedIs, PathsAssumption
    <3>2. QED
      BY <2>2, <3>1, <1>m DEF MapUpdatedTo
  <2>4. Map!MapUpdate(p, v)
    <3>1. \A d \in DOMAIN ItemsMap : d \in Map!Holding(p) <=> StartsWith(p, d)
      BY DEF Map!Holding, Map!StartsWith, StartsWith
    <3>2. [d \in DOMAIN ItemsMap |-> IF d \in Map!Holding(p) THEN v ELSE ItemsMap[d]]
            = [d \in DOMAIN ItemsMap |-> IF StartsWith(p, d) THEN v ELSE ItemsMap[d]]
      BY <3>1
    <3>3. QED
      BY <2>2, <2>3, <3>2 DEF Map!MapUpdate
  <2>5. QED
    BY <1>1, <2>2, <2>3, <2>4 DEF Map!MapNext
<1>7. CASE \E p \in Lookups : Resolve(p)
  <2>1. PICK p \in Lookups : Resolve(p)
    BY <1>7
  <2>2. /\ items' = items /\ request' = <<"Resolve", p>>
        /\ result' = Resolved(items, p, NoValue)
    BY <2>1 DEF Resolve
  <2>3. Map!MapResolve(p)
    BY <2>2, <1>m, ResolvedIs DEF Map!MapResolve
  <2>4. QED
    BY <1>1, <2>2, <2>3, ResolvedIs DEF Map!MapNext
<1>8. QED
  BY <1>3, <1>4, <1>5, <1>6, <1>7 DEF ResolverNext

LEMMA ResolverInvInitially ==
  ASSUME ResolverInit
  PROVE  ResolverInv /\ Map!MapInit
<1>1. items = << >> /\ request = << >> /\ result = NoValue
  BY DEF ResolverInit
<1>2. ItemsMap = << >>
  BY <1>1 DEF ItemsMap, Keys
<1>3. QED
  BY <1>1, <1>2 DEF ResolverInv, ResolverTypeOK, ItemsSorted, Sorted, Map!MapInit

LEMMA ResolverInvStutters ==
  ASSUME ResolverInv, UNCHANGED resolverVars
  PROVE  ResolverInv' /\ UNCHANGED <<ItemsMap, request, result>>
  BY DEF resolverVars, ResolverInv, ResolverTypeOK, ItemsSorted, ItemsMap

LEMMA ResolverInvHolds == ResolverSpec => []ResolverInv
<1>1. ResolverInit => ResolverInv
  BY ResolverInvInitially
<1>2. ResolverInv /\ [ResolverNext]_resolverVars => ResolverInv'
  BY ResolverStep, ResolverInvStutters
<1>3. QED
  BY <1>1, <1>2, PTL DEF ResolverSpec

\* The items are those that were added: directories, and the values given to them.
THEOREM ResolverTypeCorrect == ResolverSpec => []ResolverTypeOK
<1>1. ResolverInv => ResolverTypeOK
  BY DEF ResolverInv
<1>2. QED
  BY <1>1, ResolverInvHolds, PTL

\* For any directories, values and lookups the list of items stays sorted, each
\* directory in it once, whatever is added, removed and replaced.
THEOREM ItemsStaySorted == ResolverSpec => []ItemsSorted
<1>1. ResolverInv => ItemsSorted
  BY DEF ResolverInv
<1>2. QED
  BY <1>1, ResolverInvHolds, PTL

\* For any directories, values and lookups the resolver implements a map that
\* answers with the value of the closest directory.
THEOREM ResolverImplementsMap == ResolverSpec => ResolverIsMap
<1>1. ResolverInit => Map!MapInit
  BY ResolverInvInitially
<1>2. ResolverInv /\ [ResolverNext]_resolverVars => [Map!MapNext]_<<ItemsMap, request, result>>
  BY ResolverStep, ResolverInvStutters
<1>3. QED
  BY <1>1, <1>2, ResolverInvHolds, PTL
     DEF ResolverSpec, ResolverIsMap, Map!MapSpec, Map!mapVars

-----------------------------------------------------------------------------
(* LspSettings.  A resolver is empty or has the settings of one directory.   *)

Settings == Contents \cup {Fallback}

Resolvers == {<<>>} \cup {<<Item(d, c)>> : d \in Folders, c \in Contents}

FileSets == UNION {[files -> Settings] : files \in SUBSET Documents}

Messages ==
  [kind : {"open", "close"}, file : Documents]
    \cup [kind : {"configuration"}]
    \cup [kind : {"folders"}, added : SUBSET Folders, removed : SUBSET Folders]
    \cup [kind : {"watched"}, directories : SUBSET Folders]

Workspaces == {list \in Seq(PathItems(Folders, Resolvers)) : Sorted(list)}

SettingsTypeOK ==
  /\ toml \in [Folders -> Contents \cup {Absent, Broken}]
  /\ clientFolders \in SUBSET Folders /\ clientSync \in BOOLEAN
  /\ editors \in FileSets /\ active \in SUBSET Documents /\ fileSettings \in FileSets
  /\ toServer \in Seq(Messages) /\ toClient \in Seq(FileSets)
  /\ documents \in SUBSET Documents
  /\ workspaces \in Workspaces
  /\ syncOn \in BOOLEAN /\ moved \in BOOLEAN
  /\ changes \in Nat

-----------------------------------------------------------------------------
(* What is discovered in a folder *)

\* A list of one item is what adding to an empty one gives.
LEMMA AddedToEmpty ==
  ASSUME NEW d \in Folders, NEW v
  PROVE  Added(<<>>, d, v) = <<Item(d, v)>>
<1> DEFINE V == {v}
<1>1. <<>> \in Seq(PathItems(Folders, V)) /\ Sorted(<<>>) /\ Keys(<<>>) = {}
  BY DEF Sorted, Keys
<1>2. InsertionPoint(<<>>, d) = 1
  <2>1. InsertionPoint(<<>>, d) \in 1 .. Len(<<>>) + 1
    BY <1>1, InsertionPointIs, FoldersAssumption
  <2>2. QED
    BY <2>1
<1>3. Added(<<>>, d, v) = InsertAt(<<>>, 1, Item(d, v))
  BY <1>1, <1>2 DEF Added
<1>4. Item(d, v) \in PathItems(Folders, V)
  BY ItemOfPathItems
<1>5. ASSUME NEW S, NEW list \in Seq(S), NEW e \in S, Len(list) = 0
      PROVE  InsertAt(list, 1, e) = <<e>>
  <2>1. 1 \in 1 .. Len(list) + 1
    BY <1>5
  <2>2. /\ InsertAt(list, 1, e) \in Seq(S)
        /\ Len(InsertAt(list, 1, e)) = 1
        /\ InsertAt(list, 1, e)[1] = e
    <3>1. /\ InsertAt(list, 1, e) \in Seq(S)
          /\ Len(InsertAt(list, 1, e)) = Len(list) + 1
          /\ \A i \in 1 .. Len(list) + 1 :
               InsertAt(list, 1, e)[i] = IF i < 1 THEN list[i]
                                         ELSE IF i = 1 THEN e ELSE list[i - 1]
      BY <2>1, InsertAtIs
    <3>2. QED
      BY <2>1, <3>1, <1>5
  <2>3. QED
    BY <2>2
<1>6. QED
  BY <1>1, <1>3, <1>4, <1>5

\* The nearest air.toml is the longest of the directories that hold one.
LEMMA NearestTomlIs ==
  ASSUME NEW path \in Path, Tomls(path) # {}
  PROVE  /\ NearestToml(path) \in Tomls(path)
         /\ \A e \in Tomls(path) : Len(e) <= Len(NearestToml(path))
<1>1. \A d \in Tomls(path) : d \in Path /\ Len(d) + 1 \in 1 .. Len(path) + 1
  BY FoldersAssumption DEF Tomls, StartsWith, Path
<1> DEFINE Lengths == {Len(d) + 1 : d \in Tomls(path)}
<1>2. Lengths \in SUBSET (1 .. Len(path) + 1) /\ Lengths # {} /\ Len(path) + 1 \in Nat
  BY <1>1 DEF Path
<1>3. PICK m \in Lengths : \A n \in Lengths : n <= m
  <2> HIDE DEF Lengths
  <2>1. QED
    BY <1>2, GreatestIndex
<1>4. PICK d \in Tomls(path) : m = Len(d) + 1
  OBVIOUS
<1>5. ASSUME NEW e \in Tomls(path)
      PROVE  Len(e) <= Len(d)
  <2>1. Len(e) + 1 <= Len(d) + 1
    BY <1>3, <1>4
  <2>2. QED
    BY <2>1, <1>1 DEF Path
<1>6. QED
  BY <1>5 DEF NearestToml

\* A resolver of a folder that agrees with the air.toml of the folder.
Follows(folder, entries) ==
  CASE toml[folder] \in Contents -> entries = <<Item(folder, toml[folder])>>
    [] toml[folder] = Broken     -> entries = <<>>
    [] toml[folder] = Absent     -> folder \notin Keys(entries)

LEMMA DiscoveredIs ==
  ASSUME toml \in [Folders -> Contents \cup {Absent, Broken}], NEW d \in Folders
  PROVE  /\ Discoverable(d) => Discovered(d) \in Resolvers
         /\ Follows(d, IF Discoverable(d) THEN Discovered(d) ELSE <<>>)
         /\ Tomls(d) = {} => Discovered(d) = <<>>
<1>t. /\ d \in Path /\ Len(d) \in Nat
      /\ Tomls(d) \subseteq Folders
  BY FoldersAssumption DEF Tomls, Path
<1>1. CASE Tomls(d) = {}
  <2>1. Discovered(d) = <<>> /\ Discoverable(d)
    BY <1>1 DEF Discovered, Discoverable
  <2>2. toml[d] = Absent
    BY <1>1, <1>t DEF Tomls, StartsWith
  <2>3. toml[d] \notin Contents /\ toml[d] # Broken
    BY <2>2, ContentsAssumption
  <2>4. d \notin Keys(<<>>)
    BY DEF Keys
  <2>5. QED
    BY <2>1, <2>2, <2>3, <2>4 DEF Follows, Resolvers
<1>2. CASE Tomls(d) # {}
  <2> DEFINE n == NearestToml(d)
  <2>1. n \in Tomls(d) /\ \A e \in Tomls(d) : Len(e) <= Len(n)
    BY <1>2, <1>t, NearestTomlIs
  <2>2. Discoverable(d) <=> toml[n] # Broken
    BY <1>2 DEF Discoverable
  <2>3. Discovered(d) = <<Item(n, toml[n])>>
    BY <1>2, <1>t, <2>1, AddedToEmpty DEF Discovered
  <2> HIDE DEF n
  <2>4. n \in Folders /\ n \in Path /\ StartsWith(d, n) /\ toml[n] # Absent
    BY <2>1, FoldersAssumption DEF Tomls
  <2>5. ASSUME Discoverable(d)
        PROVE  Discovered(d) \in Resolvers
    <3>1. toml[n] \in Contents
      BY <1>t, <2>2, <2>4, <2>5
    <3>2. QED
      BY <2>3, <2>4, <3>1 DEF Resolvers
  <2>6. CASE toml[d] = Absent
    <3>1. n # d /\ Item(n, toml[n]).path = n
      BY <2>4, <2>6, ItemIs
    <3>2. d \notin Keys(<<Item(n, toml[n])>>) /\ d \notin Keys(<<>>)
      BY <3>1 DEF Keys
    <3>3. toml[d] \notin Contents /\ toml[d] # Broken
      BY <2>6, ContentsAssumption
    <3>4. QED
      BY <1>2, <2>3, <2>5, <2>6, <3>2, <3>3 DEF Follows
  <2>7. CASE toml[d] # Absent
    <3>1. d \in Tomls(d)
      BY <2>7, <1>t DEF Tomls, StartsWith
    <3>2. Len(n) = Len(d)
      BY <2>1, <2>4, <3>1, <1>t DEF StartsWith, Path
    <3>3. n = d
      <4>1. \A i \in 1 .. Len(d) : d[i] = n[i]
        BY <2>4, <3>2 DEF StartsWith
      <4>2. n \in Seq(Nat) /\ d \in Seq(Nat)
        BY <2>4, <1>t DEF Path
      <4>3. QED
        BY <3>2, <4>1, <4>2, SeqEqual
    <3>4. toml[d] = Broken \/ (toml[d] \in Contents /\ toml[d] # Broken)
      BY <1>t, <2>7, ContentsAssumption
    <3>5. QED
      BY <1>2, <2>2, <2>3, <2>5, <2>7, <3>3, <3>4, ContentsAssumption DEF Follows
  <2>8. QED
    BY <2>6, <2>7
<1>3. QED
  BY <1>1, <1>2

-----------------------------------------------------------------------------
(* Folders that are opened and closed.  The folds go through finite sets of  *)
(* folders in an order nobody fixes.                                         *)

\* What opening these folders gives: an item is an old one or a discovered one.
OpenedLists(list, folders) ==
  {new \in Workspaces :
     \A x \in Range(new) :
       \/ x \in Range(list)
       \/ \E d \in folders : Discoverable(d) /\ x = Item(d, Discovered(d))}

LEMMA OpenedIs ==
  ASSUME toml \in [Folders -> Contents \cup {Absent, Broken}],
         NEW list, NEW folders \in SUBSET Folders,
         NEW new \in OpenedLists(list, folders), NEW d \in folders
  PROVE  Opened(new, d) \in OpenedLists(list, folders)
<1>1. CASE ~Discoverable(d)
  BY <1>1 DEF Opened
<1>2. CASE Discoverable(d)
  <2>1. Item(d, Discovered(d)) \in PathItems(Folders, Resolvers)
    BY <1>2, DiscoveredIs, ItemOfPathItems
  <2>2. new \in Seq(PathItems(Folders, Resolvers)) /\ Sorted(new)
    BY DEF OpenedLists, Workspaces
  <2>3. /\ Added(new, d, Discovered(d)) \in Seq(PathItems(Folders, Resolvers))
        /\ Sorted(Added(new, d, Discovered(d)))
        /\ \A x : x \in Range(Added(new, d, Discovered(d))) <=>
                  \/ x \in Range(new) /\ x.path # d
                  \/ x = Item(d, Discovered(d))
    BY <2>1, <2>2, AddedIs, FoldersAssumption
  <2>4. QED
    BY <1>2, <2>3 DEF Opened, OpenedLists, Workspaces
<1>3. QED
  BY <1>1, <1>2

LEMMA OpenedAllIs ==
  ASSUME toml \in [Folders -> Contents \cup {Absent, Broken}],
         NEW list \in Workspaces, NEW folders \in SUBSET Folders
  PROVE  OpenedAll(list, folders) \in OpenedLists(list, folders)
<1> DEFINE L == OpenedLists(list, folders)
           c == [s \in SUBSET folders |-> CHOOSE x \in s : TRUE]
           g == [p \in folders \X L |-> Opened(p[2], p[1])]
           R == [s \in SUBSET folders |-> L]
           Fold(iter) == iter = [s \in SUBSET folders |->
                           IF s = {} THEN list
                           ELSE Opened(iter[s \ {CHOOSE x \in s : TRUE}], CHOOSE x \in s : TRUE)]
           it == CHOOSE iter : Fold(iter)
<1>1. IsFiniteSet(folders) /\ list \in L
  BY FoldersAssumption, FS_Subset DEF OpenedLists
<1>2. \A new \in L, d \in folders : Opened(new, d) \in L
  BY OpenedIs
<1>c. \A s \in SUBSET folders : s # {} => c[s] \in s /\ c[s] = CHOOSE x \in s : TRUE
  OBVIOUS
<1>3. \E iter : Fold(iter)
  <2>1. \A s \in SUBSET folders : R[s] = L
    OBVIOUS
  <2>2. \A d \in folders, new \in L : g[<<d, new>>] = Opened(new, d)
    OBVIOUS
  <2> HIDE DEF L, c, g, R
  <2>3. PICK iter : /\ Iterates(iter, folders, list, c, g)
                    /\ \A s \in SUBSET folders : iter[s] \in R[s]
    <3>1. \A s \in SUBSET folders : s # {} =>
             \A v \in R[s \ {c[s]}] : g[<<c[s], v>>] \in R[s]
      BY <1>2, <1>c, <2>1, <2>2
    <3>2. list \in R[{}] /\ \A s \in SUBSET folders : s # {} => c[s] \in s
      BY <1>1, <1>c, <2>1
    <3>3. QED
      BY <1>1, <3>1, <3>2, IterationTyped
  <2>4. ASSUME NEW s \in SUBSET folders, s # {}
        PROVE  g[<<c[s], iter[s \ {c[s]}]>>] =
                 Opened(iter[s \ {CHOOSE x \in s : TRUE}], CHOOSE x \in s : TRUE)
    <3>1. c[s] \in folders /\ iter[s \ {c[s]}] \in L
      BY <2>1, <2>3, <2>4, <1>c
    <3>2. QED
      BY <2>2, <2>4, <3>1, <1>c
  <2>5. Fold(iter)
    BY <2>3, <2>4, Zenon DEF Iterates
  <2>6. QED
    BY <2>5
<1>4. OpenedAll(list, folders) = it[folders]
  BY DEF OpenedAll, FoldSet, MapThenFoldSet
<1>5. Fold(it)
  BY <1>3
<1> DEFINE P == {s \in SUBSET folders : it[s] \in L}
<1>6. SUBSET folders \subseteq P
  <2>1. {} \in P
    BY <1>1, <1>5
  <2>2. ASSUME NEW s \in SUBSET folders, s # {}, s \ {CHOOSE x \in s : TRUE} \in P
        PROVE  s \in P
    <3>1. it[s] = Opened(it[s \ {CHOOSE x \in s : TRUE}], CHOOSE x \in s : TRUE)
      BY <1>5, <2>2
    <3>2. QED
      BY <1>2, <2>2, <3>1
  <2>3. \A s \in SUBSET folders : s # {} => \E x \in s : s \ {x} \in P => s \in P
    BY <2>2
  <2> HIDE DEF P
  <2>4. QED
    BY <1>1, <2>1, <2>3, SubsetInduction
<1>7. QED
  BY <1>4, <1>6

\* What closing these folders gives: an item is an old one of another folder.
ClosedLists(list, folders) ==
  {new \in Workspaces : \A x \in Range(new) : x \in Range(list) /\ x.path \notin folders}

LEMMA ClosedIs ==
  ASSUME NEW list, NEW folders \in SUBSET Folders, NEW d \in folders,
         NEW new \in ClosedLists(list, folders \ {d})
  PROVE  Removed(new, d) \in ClosedLists(list, folders)
<1>1. new \in Seq(PathItems(Folders, Resolvers)) /\ Sorted(new)
  BY DEF ClosedLists, Workspaces
<1>2. /\ Removed(new, d) \in Seq(PathItems(Folders, Resolvers))
      /\ Sorted(Removed(new, d))
      /\ \A x : x \in Range(Removed(new, d)) <=> x \in Range(new) /\ x.path # d
  BY <1>1, RemovedIs, FoldersAssumption
<1>3. QED
  BY <1>2 DEF ClosedLists, Workspaces

LEMMA ClosedAllIs ==
  ASSUME NEW list \in Workspaces, NEW folders \in SUBSET Folders
  PROVE  ClosedAll(list, folders) \in ClosedLists(list, folders)
<1> DEFINE c == [s \in SUBSET folders |-> CHOOSE x \in s : TRUE]
           g == [p \in folders \X Workspaces |-> Removed(p[2], p[1])]
           R == [s \in SUBSET folders |-> ClosedLists(list, s)]
           Fold(iter) == iter = [s \in SUBSET folders |->
                           IF s = {} THEN list
                           ELSE Removed(iter[s \ {CHOOSE x \in s : TRUE}], CHOOSE x \in s : TRUE)]
           it == CHOOSE iter : Fold(iter)
<1>1. IsFiniteSet(folders) /\ list \in ClosedLists(list, {})
  BY FoldersAssumption, FS_Subset DEF ClosedLists
<1>2. ASSUME NEW s \in SUBSET folders, NEW d \in s, NEW new \in ClosedLists(list, s \ {d})
      PROVE  Removed(new, d) \in ClosedLists(list, s)
  BY ClosedIs
<1>w. \A s : ClosedLists(list, s) \subseteq Workspaces
  BY DEF ClosedLists
<1>c. \A s \in SUBSET folders : s # {} => c[s] \in s /\ c[s] = CHOOSE x \in s : TRUE
  OBVIOUS
<1>3. \E iter : Fold(iter)
  <2>1. \A s \in SUBSET folders : R[s] = ClosedLists(list, s)
    OBVIOUS
  <2>2. \A d \in folders, new \in Workspaces : g[<<d, new>>] = Removed(new, d)
    OBVIOUS
  <2> HIDE DEF c, g, R
  <2>3. PICK iter : /\ Iterates(iter, folders, list, c, g)
                    /\ \A s \in SUBSET folders : iter[s] \in R[s]
    <3>1. ASSUME NEW s \in SUBSET folders, s # {}, NEW v \in R[s \ {c[s]}]
          PROVE  g[<<c[s], v>>] \in R[s]
      <4>1. c[s] \in s /\ v \in ClosedLists(list, s \ {c[s]})
        BY <3>1, <1>c, <2>1
      <4>2. g[<<c[s], v>>] = Removed(v, c[s])
        BY <4>1, <1>w, <2>2
      <4>3. QED
        BY <4>1, <4>2, <1>2, <2>1
    <3>2. list \in R[{}] /\ \A s \in SUBSET folders : s # {} => c[s] \in s
      BY <1>1, <1>c, <2>1
    <3>3. QED
      BY <1>1, <3>1, <3>2, IterationTyped
  <2>4. ASSUME NEW s \in SUBSET folders, s # {}
        PROVE  g[<<c[s], iter[s \ {c[s]}]>>] =
                 Removed(iter[s \ {CHOOSE x \in s : TRUE}], CHOOSE x \in s : TRUE)
    <3>1. c[s] \in folders /\ iter[s \ {c[s]}] \in Workspaces
      BY <2>1, <2>3, <2>4, <1>c, <1>w
    <3>2. QED
      BY <2>2, <2>4, <3>1, <1>c
  <2>5. Fold(iter)
    BY <2>3, <2>4, Zenon DEF Iterates
  <2>6. QED
    BY <2>5
<1>4. ClosedAll(list, folders) = it[folders]
  BY DEF ClosedAll, FoldSet, MapThenFoldSet
<1>5. Fold(it)
  BY <1>3
<1> DEFINE P == {s \in SUBSET folders : it[s] \in ClosedLists(list, s)}
<1>6. SUBSET folders \subseteq P
  <2>1. {} \in P
    BY <1>1, <1>5
  <2>2. ASSUME NEW s \in SUBSET folders, s # {}, s \ {CHOOSE x \in s : TRUE} \in P
        PROVE  s \in P
    <3>1. it[s] = Removed(it[s \ {CHOOSE x \in s : TRUE}], CHOOSE x \in s : TRUE)
      BY <1>5, <2>2
    <3>2. (CHOOSE x \in s : TRUE) \in s
      BY <2>2
    <3>3. it[s \ {CHOOSE x \in s : TRUE}] \in ClosedLists(list, s \ {CHOOSE x \in s : TRUE})
      BY <2>2
    <3>4. it[s] \in ClosedLists(list, s)
      BY <1>2, <3>1, <3>2, <3>3
    <3>5. QED
      BY <3>4
  <2>3. \A s \in SUBSET folders : s # {} => \E x \in s : s \ {x} \in P => s \in P
    BY <2>2
  <2> HIDE DEF P
  <2>4. QED
    BY <1>1, <2>1, <2>3, SubsetInduction
<1>7. QED
  BY <1>4, <1>6

\* A workspace that is reloaded follows its air.toml, and the workspaces of the
\* changed directories are among those.
LEMMA ReloadIs ==
  ASSUME SettingsTypeOK, NEW directories \in SUBSET Folders
  PROVE  /\ Reload(directories) \in Workspaces
         /\ DOMAIN Reload(directories) = DOMAIN workspaces
         /\ \A i \in DOMAIN workspaces :
              /\ Reload(directories)[i].path = workspaces[i].path
              /\ i \notin Reloaded(directories) => Reload(directories)[i] = workspaces[i]
              /\ i \in Reloaded(directories) =>
                   /\ Follows(workspaces[i].path, Reload(directories)[i].value)
                   /\ ~ReloadChanged(directories) => Reload(directories)[i].value = <<>>
              /\ workspaces[i].path \in directories => i \in Reloaded(directories)
<1> DEFINE new == Reload(directories)
<1>t. /\ workspaces \in Seq(PathItems(Folders, Resolvers)) /\ Sorted(workspaces)
      /\ Len(workspaces) \in Nat /\ DOMAIN workspaces = 1 .. Len(workspaces)
  BY DEF SettingsTypeOK, Workspaces
<1>1. ASSUME NEW i \in 1 .. Len(workspaces)
      PROVE  /\ new[i] \in PathItems(Folders, Resolvers)
             /\ new[i].path = workspaces[i].path
             /\ i \notin Reloaded(directories) => new[i] = workspaces[i]
             /\ i \in Reloaded(directories) =>
                  /\ Follows(workspaces[i].path, new[i].value)
                  /\ ~ReloadChanged(directories) => new[i].value = <<>>
  <2> DEFINE d == workspaces[i].path
             v == IF Discoverable(d) THEN Discovered(d) ELSE <<>>
  <2>1. workspaces[i] \in PathItems(Folders, Resolvers) /\ d \in Folders
    BY <1>t, ListTyped, FoldersAssumption
  <2>2. new[i] = IF i \notin Reloaded(directories) THEN workspaces[i] ELSE Item(d, v)
    BY <1>t DEF Reload
  <2>3. v \in Resolvers /\ Follows(d, v) /\ (Tomls(d) = {} => Discovered(d) = <<>>)
    BY <2>1, DiscoveredIs DEF Resolvers, SettingsTypeOK
  <2>4. i \in Reloaded(directories) /\ ~ReloadChanged(directories)
          => ~Discoverable(d) \/ Tomls(d) = {}
    BY DEF ReloadChanged
  <2>5. /\ Item(d, v) \in PathItems(Folders, Resolvers)
        /\ Item(d, v).path = d /\ Item(d, v).value = v
    BY <2>1, <2>3, ItemIs, ItemOfPathItems
  <2>6. i \in Reloaded(directories) /\ ~ReloadChanged(directories) => v = <<>>
    BY <2>3, <2>4
  <2> HIDE DEF v, new
  <2>7. QED
    BY <2>1, <2>2, <2>3, <2>5, <2>6
<1>2. DOMAIN new = 1 .. Len(workspaces)
  BY <1>t DEF Reload
<1>3. new \in Seq(PathItems(Folders, Resolvers)) /\ Len(new) = Len(workspaces)
  <2>1. new = [i \in 1 .. Len(workspaces) |-> new[i]]
    BY <1>t DEF Reload
  <2>2. \A i \in 1 .. Len(workspaces) : new[i] \in PathItems(Folders, Resolvers)
    BY <1>1
  <2> HIDE DEF new
  <2>3. QED
    BY <2>1, <2>2, <1>t
<1>4. ASSUME NEW i \in DOMAIN workspaces, workspaces[i].path \in directories
      PROVE  i \in Reloaded(directories)
  <2> DEFINE d == workspaces[i].path
  <2>1. d \in Seq(Nat)
    BY <1>t, ListTyped, FoldersAssumption DEF Path
  <2>2. StartsWith(Append(d, 0), d)
    BY <2>1 DEF StartsWith
  <2>3. QED
    BY <1>4, <2>2 DEF Reloaded, Matches
<1> HIDE DEF new
<1>5. Sorted(new)
  BY <1>1, <1>2, <1>t DEF Sorted
<1>6. QED
  BY <1>1, <1>2, <1>3, <1>4, <1>5, <1>t DEF new, Workspaces

-----------------------------------------------------------------------------
(* The settings of a document *)

Greatest(indices) == CHOOSE i \in indices : \A j \in indices : j <= i

LEMMA ResolvedTyped ==
  ASSUME NEW V, NEW list \in Seq(PathItems(Folders, V)), Sorted(list),
         NEW path \in Path, NEW fallback
  PROVE  Resolved(list, path, fallback) \in V \cup {fallback}
<1>1. CASE Matches(list, path) = {}
  BY <1>1 DEF Resolved
<1>2. CASE Matches(list, path) # {}
  <2>1. LastMatch(list, path) \in DOMAIN list
    BY <1>2, LastMatchIs, FoldersAssumption
  <2>2. list[LastMatch(list, path)].value \in V
    BY <2>1, ListTyped, FoldersAssumption
  <2>3. QED
    BY <1>2, <2>2 DEF Resolved
<1>3. QED
  BY <1>1, <1>2

LEMMA SettingsForPathTyped ==
  ASSUME NEW list \in Workspaces, NEW path \in Path
  PROVE  SettingsForPath(list, path) \in Settings
<1> DEFINE entries == Resolved(list, path, <<>>)
<1>1. entries \in Resolvers
  <2>1. entries \in Resolvers \cup {<<>>}
    BY ResolvedTyped DEF Workspaces
  <2>2. QED
    BY <2>1 DEF Resolvers
<1> HIDE DEF entries
<1>2. entries \in Seq(PathItems(Folders, Contents)) /\ Sorted(entries)
  <2>1. CASE entries = <<>>
    BY <2>1 DEF Sorted
  <2>2. ASSUME NEW d \in Folders, NEW c \in Contents, entries = <<Item(d, c)>>
        PROVE  entries \in Seq(PathItems(Folders, Contents)) /\ Sorted(entries)
    <3>1. Item(d, c) \in PathItems(Folders, Contents)
      BY ItemOfPathItems
    <3>2. QED
      BY <2>2, <3>1 DEF Sorted
  <2>3. QED
    BY <1>1, <2>1, <2>2 DEF Resolvers
<1>3. Resolved(entries, path, Fallback) \in Contents \cup {Fallback}
  BY <1>2, ResolvedTyped
<1>4. QED
  BY <1>3 DEF entries, SettingsForPath, Settings

LEMMA SettingsForUrlTyped ==
  ASSUME NEW list \in Workspaces, NEW file \in Documents
  PROVE  SettingsForUrl(list, file) \in Settings
<1>1. CASE file # Untitled
  <2>1. file \in Path
    BY <1>1, FoldersAssumption DEF Documents
  <2>2. QED
    BY <1>1, <2>1, SettingsForPathTyped DEF SettingsForUrl
<1>2. CASE file = Untitled /\ Len(list) = 1
  <2>1. list[1].path \in Path
    BY <1>2, ListTyped, FoldersAssumption DEF Workspaces
  <2>2. Append(list[1].path, 0) \in Path
    BY <2>1 DEF Path
  <2>3. QED
    BY <1>2, <2>2, SettingsForPathTyped DEF SettingsForUrl
<1>3. CASE file = Untitled /\ Len(list) # 1
  BY <1>3 DEF SettingsForUrl, Settings
<1>4. QED
  BY <1>1, <1>2, <1>3

LEMMA FileSettingsIs ==
  ASSUME NEW list \in Workspaces, NEW files \in SUBSET Documents
  PROVE  /\ FileSettings(list, files) \in FileSets
         /\ \A f \in DOMAIN FileSettings(list, files) :
              SettingsForUrl(list, f) = FileSettings(list, files)[f]
<1> DEFINE known == {f \in files : SettingsForUrl(list, f) # Fallback}
<1>1. FileSettings(list, files) = [f \in known |-> SettingsForUrl(list, f)]
  BY DEF FileSettings
<1>2. known \in SUBSET Documents /\ \A f \in known : SettingsForUrl(list, f) \in Settings
  BY SettingsForUrlTyped
<1> HIDE DEF known
<1>3. QED
  BY <1>1, <1>2 DEF FileSets

\* A reload in which nothing was discovered takes settings away and gives none.
LEMMA ReloadKeeps ==
  ASSUME SettingsTypeOK, NEW directories \in SUBSET Folders, ~ReloadChanged(directories),
         NEW file \in Documents
  PROVE  SettingsForUrl(Reload(directories), file)
           \in {SettingsForUrl(workspaces, file), Fallback}
<1> DEFINE new == Reload(directories)
<1>t. /\ workspaces \in Seq(PathItems(Folders, Resolvers)) /\ Sorted(workspaces)
      /\ new \in Seq(PathItems(Folders, Resolvers)) /\ Sorted(new)
      /\ DOMAIN new = DOMAIN workspaces
      /\ \A i \in DOMAIN workspaces :
           /\ new[i].path = workspaces[i].path
           /\ new[i].value \in {workspaces[i].value, <<>>}
  BY ReloadIs DEF SettingsTypeOK, Workspaces
<1> HIDE DEF new
<1>1. ASSUME NEW path \in Path
      PROVE  SettingsForPath(new, path) \in {SettingsForPath(workspaces, path), Fallback}
  <2>1. Matches(new, path) = Matches(workspaces, path)
    BY <1>t DEF Matches
  <2>2. CASE Matches(workspaces, path) = {}
    BY <2>1, <2>2 DEF SettingsForPath, Resolved
  <2>3. CASE Matches(workspaces, path) # {}
    <3> DEFINE m == LastMatch(workspaces, path)
    <3>1. m \in DOMAIN workspaces
      BY <2>3, <1>t, LastMatchIs, FoldersAssumption
    <3>2. LastMatch(new, path) = m
      <4>1. /\ LastMatch(new, path) = Greatest(Matches(new, path))
            /\ m = Greatest(Matches(workspaces, path))
        BY DEF LastMatch, Greatest
      <4>2. QED
        BY <4>1, <2>1
    <3> HIDE DEF m
    <3>3. /\ Resolved(new, path, <<>>) = new[m].value
          /\ Resolved(workspaces, path, <<>>) = workspaces[m].value
      BY <2>1, <2>3, <3>2 DEF Resolved, m
    <3>4. Resolved(<<>>, path, Fallback) = Fallback
      BY DEF Resolved, Matches
    <3>5. QED
      BY <1>t, <3>1, <3>3, <3>4 DEF SettingsForPath
  <2>4. QED
    BY <2>2, <2>3
<1>2. CASE file # Untitled
  <2>1. file \in Path
    BY <1>2, FoldersAssumption DEF Documents
  <2>2. QED
    BY <1>1, <1>2, <2>1 DEF SettingsForUrl, new
<1>3. CASE file = Untitled
  <2>1. Len(new) = Len(workspaces)
    BY <1>t
  <2>2. CASE Len(workspaces) = 1
    <3>1. 1 \in DOMAIN workspaces /\ new[1].path = workspaces[1].path
      BY <1>t, <2>2
    <3>2. Append(workspaces[1].path, 0) \in Path
      BY <3>1, <1>t, ListTyped, FoldersAssumption DEF Path
    <3>3. QED
      BY <1>1, <1>3, <2>1, <2>2, <3>1, <3>2 DEF SettingsForUrl, new
  <2>3. CASE Len(workspaces) # 1
    BY <1>3, <2>1, <2>3 DEF SettingsForUrl, new
  <2>4. QED
    BY <2>2, <2>3
<1>4. QED
  BY <1>2, <1>3

-----------------------------------------------------------------------------
(* The type invariant *)

LEMMA SendTyped ==
  ASSUME SettingsTypeOK, NEW message \in Messages, Send(message)
  PROVE  toServer' \in Seq(Messages)
  BY AppendIs DEF Send, SettingsTypeOK

\* The message that is received, and the queue behind it.
LEMMA ReceiveTyped ==
  ASSUME SettingsTypeOK, NEW kind, Receive(kind)
  PROVE  /\ toServer' \in Seq(Messages)
         /\ Message \in Messages /\ Message.kind = kind
  BY TailIs DEF Receive, Message, SettingsTypeOK

LEMMA SyncedTyped ==
  ASSUME SettingsTypeOK, NEW fileSets \in Seq(SUBSET Documents)
  PROVE  Synced(fileSets) \in Seq(FileSets)
<1>1. [i \in DOMAIN fileSets |-> FileSettings(workspaces, fileSets[i])] \in Seq(FileSets)
  <2>1. \A i \in 1 .. Len(fileSets) : FileSettings(workspaces, fileSets[i]) \in FileSets
    BY FileSettingsIs DEF SettingsTypeOK
  <2>2. QED
    BY <2>1
<1>2. QED
  BY <1>1 DEF Synced, SettingsTypeOK

LEMMA AppliedTyped ==
  ASSUME SettingsTypeOK, NEW settings \in FileSets, NEW f \in Documents
  PROVE  Applied(settings, f) \in FileSets
<1>1. PICK known \in SUBSET Documents : settings \in [known -> Settings]
  BY DEF FileSets
<1>2. PICK files \in SUBSET Documents : editors \in [files -> Settings]
  BY DEF SettingsTypeOK, FileSets
<1>3. Applied(settings, f) \in [files -> Settings]
  BY <1>1, <1>2 DEF Applied
<1>4. QED
  BY <1>3 DEF FileSets

LEMMA UserTyped ==
  ASSUME SettingsTypeOK, UserNext
  PROVE  SettingsTypeOK'
<1> USE DEF SettingsTypeOK
<1>u. ASSUME UserDoes
      PROVE  /\ toClient' \in Seq(FileSets) /\ documents' \in SUBSET Documents
             /\ workspaces' \in Workspaces /\ syncOn' \in BOOLEAN /\ moved' \in BOOLEAN
             /\ changes' \in Nat
  BY <1>u DEF UserDoes, serverVars
<1>1. CASE \E f \in Documents : OpenEditor(f)
  <2>1. PICK f \in Documents : OpenEditor(f)
    BY <1>1
  <2>2. PICK files \in SUBSET Documents : editors \in [files -> Settings]
    BY DEF FileSets
  <2>3. PICK known \in SUBSET Documents : fileSettings \in [known -> Settings]
    BY DEF FileSets
  <2>4. editors' \in [files \cup {f} -> Settings]
    BY <2>1, <2>2, <2>3 DEF OpenEditor, Settings
  <2>5. editors' \in FileSets
    <3>1. files \cup {f} \in SUBSET Documents
      OBVIOUS
    <3>2. QED
      BY <2>4, <3>1 DEF FileSets
  <2>6. [kind |-> "open", file |-> f] \in Messages
    BY DEF Messages
  <2>7. toServer' \in Seq(Messages)
    BY <2>1, <2>6, SendTyped DEF OpenEditor
  <2>8. QED
    BY <1>u, <2>1, <2>5, <2>7 DEF OpenEditor, Asks
<1>2. CASE \E f \in Documents : CloseEditor(f)
  <2>1. PICK f \in Documents : CloseEditor(f)
    BY <1>2
  <2>2. PICK files \in SUBSET Documents : editors \in [files -> Settings]
    BY DEF FileSets
  <2>3. editors' \in [files \ {f} -> Settings]
    BY <2>1, <2>2 DEF CloseEditor, Restrict
  <2>4. editors' \in FileSets
    BY <2>3 DEF FileSets
  <2>5. [kind |-> "close", file |-> f] \in Messages
    BY DEF Messages
  <2>6. toServer' \in Seq(Messages)
    BY <2>1, <2>5, SendTyped DEF CloseEditor
  <2>7. QED
    BY <1>u, <2>1, <2>4, <2>6 DEF CloseEditor, Asks
<1>3. CASE \E f \in Documents : ActivateEditor(f)
  <2>1. PICK f \in Documents : ActivateEditor(f)
    BY <1>3
  <2>2. editors' \in FileSets
    BY <2>1, AppliedTyped DEF ActivateEditor
  <2>3. QED
    BY <1>u, <2>1, <2>2 DEF ActivateEditor
<1>4. CASE \E d \in Folders, c \in Contents \cup {Absent, Broken} : EditToml(d, c)
  <2>1. PICK d \in Folders, c \in Contents \cup {Absent, Broken} : EditToml(d, c)
    BY <1>4
  <2>2. CASE UNCHANGED toServer
    BY <1>u, <2>1, <2>2 DEF EditToml, Asks, clientVars
  <2>3. CASE Send([kind |-> "watched", directories |-> {d}])
    <3>1. [kind |-> "watched", directories |-> {d}] \in Messages
      BY DEF Messages
    <3>2. toServer' \in Seq(Messages)
      BY <2>3, <3>1, SendTyped
    <3>3. QED
      BY <1>u, <2>1, <3>2 DEF EditToml, Asks, clientVars
  <2>4. CASE /\ toServer # <<>> /\ Last(toServer).kind = "watched"
             /\ toServer' = [toServer EXCEPT ![Len(toServer)].directories = @ \cup {d}]
    <3>1. Len(toServer) \in 1 .. Len(toServer) /\ Last(toServer) = toServer[Len(toServer)]
      BY <2>4 DEF Last
    <3>2. [toServer[Len(toServer)] EXCEPT !.directories = @ \cup {d}] \in Messages
      BY <2>4, <3>1 DEF Messages
    <3>3. toServer' \in Seq(Messages)
      BY <2>4, <3>1, <3>2
    <3>4. QED
      BY <1>u, <2>1, <3>3 DEF EditToml, Asks, clientVars
  <2>5. QED
    BY <2>1, <2>2, <2>3, <2>4 DEF EditToml
<1>5. CASE \E folders \in SUBSET Folders : ChangeFolders(folders)
  <2>1. PICK folders \in SUBSET Folders : ChangeFolders(folders)
    BY <1>5
  <2>2. [kind |-> "folders", added |-> folders \ clientFolders,
         removed |-> clientFolders \ folders] \in Messages
    BY DEF Messages
  <2>3. toServer' \in Seq(Messages)
    BY <2>1, <2>2, SendTyped DEF ChangeFolders
  <2>4. QED
    BY <1>u, <2>1, <2>3 DEF ChangeFolders, Asks
<1>6. CASE ToggleSync
  <2>1. [kind |-> "configuration"] \in Messages
    BY DEF Messages
  <2>2. toServer' \in Seq(Messages)
    BY <1>6, <2>1, SendTyped DEF ToggleSync
  <2>3. QED
    BY <1>u, <1>6, <2>2 DEF ToggleSync, Asks
<1>7. QED
  BY <1>1, <1>2, <1>3, <1>4, <1>5, <1>6 DEF UserNext

\* What a handler may or may not send.
LEMMA SentTyped ==
  ASSUME NEW files \in SUBSET Documents, NEW condition \in BOOLEAN
  PROVE  (IF condition THEN <<files>> ELSE <<>>) \in Seq(SUBSET Documents)
<1>1. <<files>> \in Seq(SUBSET Documents)
  OBVIOUS
<1>2. <<>> \in Seq(SUBSET Documents)
  OBVIOUS
<1>3. QED
  BY <1>1, <1>2

LEMMA HandlerTyped ==
  ASSUME SettingsTypeOK, HandlerNext
  PROVE  SettingsTypeOK'
<1> USE DEF SettingsTypeOK
<1>r. ASSUME NEW kind, Receive(kind)
      PROVE  /\ toServer' \in Seq(Messages) /\ Message \in Messages /\ Message.kind = kind
             /\ UNCHANGED <<toml, clientFolders, clientSync, editors, active, fileSettings, changes>>
  BY <1>r, ReceiveTyped DEF Receive, clientVars
<1>c. ASSUME NEW files \in SUBSET Documents
      PROVE  ConfigSyncs(files) \in Seq(SUBSET Documents)
  BY <1>c, SentTyped DEF ConfigSyncs
<1>1. CASE DidOpen
  <2>1. Message.file \in Documents
    BY <1>1, <1>r DEF DidOpen, Messages
  <2>2. documents' \in SUBSET Documents /\ {Message.file} \in SUBSET Documents
    BY <1>1, <2>1 DEF DidOpen
  <2>3. ConfigSyncs(documents') \o (IF clientSync THEN <<{Message.file}>> ELSE <<>>)
          \in Seq(SUBSET Documents)
    <3>1. ConfigSyncs(documents') \in Seq(SUBSET Documents)
      BY <1>c, <2>2
    <3>2. (IF clientSync THEN <<{Message.file}>> ELSE <<>>) \in Seq(SUBSET Documents)
      BY <2>2, SentTyped
    <3>3. QED
      BY <3>1, <3>2
  <2>4. toClient' \in Seq(FileSets)
    BY <1>1, <2>3, SyncedTyped DEF DidOpen
  <2>5. QED
    BY <1>1, <1>r, <2>2, <2>4 DEF DidOpen
<1>2. CASE DidClose
  BY <1>2, <1>r DEF DidClose
<1>3. CASE DidChangeConfiguration
  <2>1. toClient' \in Seq(FileSets)
    BY <1>3, <1>c, SyncedTyped DEF DidChangeConfiguration
  <2>2. QED
    BY <1>3, <1>r, <2>1 DEF DidChangeConfiguration
<1>4. CASE DidChangeWorkspaceFolders
  <2>1. Message.added \in SUBSET Folders /\ Message.removed \in SUBSET Folders
    BY <1>4, <1>r DEF DidChangeWorkspaceFolders, Messages
  <2>2. OpenedAll(workspaces, Message.added) \in Workspaces
    BY <2>1, OpenedAllIs DEF OpenedLists
  <2>3. ClosedAll(OpenedAll(workspaces, Message.added), Message.removed) \in Workspaces
    BY <2>1, <2>2, ClosedAllIs DEF ClosedLists
  <2>4. QED
    BY <1>4, <1>r, <2>3 DEF DidChangeWorkspaceFolders
<1>5. CASE DidChangeWatchedFiles
  <2>1. Message.directories \in SUBSET Folders
    BY <1>5, <1>r DEF DidChangeWatchedFiles, Messages
  <2>2. workspaces' \in Workspaces
    BY <1>5, <2>1, ReloadIs DEF DidChangeWatchedFiles
  <2>3. FileSettings(workspaces', documents) \in FileSets
    BY <2>2, FileSettingsIs
  <2>4. toClient' \in Seq(FileSets) /\ moved' \in BOOLEAN
    <3>1. CASE ReloadChanged(Message.directories) /\ syncOn
      <4>1. Append(toClient, FileSettings(workspaces', documents)) \in Seq(FileSets)
        BY <2>3, AppendIs
      <4>2. QED
        BY <1>5, <3>1, <4>1 DEF DidChangeWatchedFiles
    <3>2. CASE ~(ReloadChanged(Message.directories) /\ syncOn)
      BY <1>5, <3>2 DEF DidChangeWatchedFiles
    <3>3. QED
      BY <3>1, <3>2
  <2>5. QED
    BY <1>5, <1>r, <2>2, <2>4 DEF DidChangeWatchedFiles
<1>6. QED
  BY <1>1, <1>2, <1>3, <1>4, <1>5 DEF HandlerNext

LEMMA NotificationTyped ==
  ASSUME SettingsTypeOK, SettingsNotification
  PROVE  SettingsTypeOK'
<1> USE DEF SettingsTypeOK
<1>1. toClient' \in Seq(FileSets) /\ Head(toClient) \in FileSets
  BY TailIs DEF SettingsNotification
<1>2. editors' \in FileSets
  <2>1. CASE active = {}
    BY <2>1 DEF SettingsNotification
  <2>2. CASE active # {}
    <3>1. (CHOOSE f \in active : TRUE) \in Documents
      BY <2>2
    <3>2. QED
      BY <1>1, <2>2, <3>1, AppliedTyped DEF SettingsNotification
  <2>3. QED
    BY <2>1, <2>2
<1>3. QED
  BY <1>1, <1>2 DEF SettingsNotification, serverVars

LEMMA InitTyped ==
  ASSUME SettingsInit
  PROVE  SettingsTypeOK
<1>1. <<>> \in Workspaces /\ <<>> \in FileSets
  <2>1. <<>> \in Workspaces
    BY DEF Workspaces, Sorted
  <2>2. <<>> \in [{} -> Settings]
    OBVIOUS
  <2>3. QED
    BY <2>1, <2>2 DEF FileSets
<1>2. workspaces \in Workspaces
  BY <1>1, OpenedAllIs DEF SettingsInit, OpenedLists
<1>3. toServer \in Seq(Messages)
  BY DEF SettingsInit
<1>4. toClient \in Seq(FileSets)
  BY DEF SettingsInit
<1>5. QED
  BY <1>1, <1>2, <1>3, <1>4 DEF SettingsInit, SettingsTypeOK


LEMMA StepTyped ==
  ASSUME SettingsTypeOK, [SettingsNext]_settingsVars
  PROVE  SettingsTypeOK'
<1>1. CASE UNCHANGED settingsVars
  BY <1>1 DEF SettingsTypeOK, settingsVars, clientVars, serverVars
<1>2. QED
  BY <1>1, UserTyped, HandlerTyped, NotificationTyped DEF SettingsNext

\* Whatever the user does, and in whatever order the server and the client take
\* their messages, the resolver is a sorted list of folders, each with the
\* settings of one directory at most, and every notification names open or
\* once open documents with settings the server can have.
THEOREM SettingsTypeCorrect == SettingsSpec => []SettingsTypeOK
<1>1. SettingsInit => SettingsTypeOK
  BY InitTyped
<1>2. SettingsTypeOK /\ [SettingsNext]_settingsVars => SettingsTypeOK'
  BY StepTyped
<1>3. QED
  BY <1>1, <1>2, PTL DEF SettingsSpec

-----------------------------------------------------------------------------
(* The workspaces follow their air.toml.  One that does not has a message     *)
(* under way that will close it or read its file again; and a folder that the *)
(* server has, or is told to open, is one of the client's, or is to be closed. *)

Adds(message, folder) == message.kind = "folders" /\ folder \in message.added
Removes(message, folder) == message.kind = "folders" /\ folder \in message.removed
Refreshes(message, folder) == message.kind = "watched" /\ folder \in message.directories

RemovalPending(queue, folder) == \E k \in DOMAIN queue : Removes(queue[k], folder)
ChangePending(queue, folder) ==
  \E k \in DOMAIN queue : Removes(queue[k], folder) \/ Refreshes(queue[k], folder)

ItemFollows(x) == Follows(x.path, x.value) \/ ChangePending(toServer, x.path)
ItemIsKept(x) == x.path \in clientFolders \/ RemovalPending(toServer, x.path)
AdditionIsKept(k, folder) ==
  Adds(toServer[k], folder) =>
    \/ folder \in clientFolders
    \/ \E l \in DOMAIN toServer : k < l /\ Removes(toServer[l], folder)

WorkspacesInv ==
  /\ \A x \in Range(workspaces) : ItemFollows(x) /\ ItemIsKept(x)
  /\ \A k \in DOMAIN toServer, folder \in Folders : AdditionIsKept(k, folder)

LEMMA PendingAppended ==
  ASSUME NEW queue \in Seq(Messages), NEW message \in Messages, NEW folder
  PROVE  /\ RemovalPending(Append(queue, message), folder) <=>
              RemovalPending(queue, folder) \/ Removes(message, folder)
         /\ ChangePending(Append(queue, message), folder) <=>
              \/ ChangePending(queue, folder)
              \/ Removes(message, folder) \/ Refreshes(message, folder)
<1> DEFINE new == Append(queue, message)
<1>1. /\ DOMAIN new = DOMAIN queue \cup {Len(queue) + 1}
      /\ \A k \in DOMAIN queue : new[k] = queue[k]
      /\ new[Len(queue) + 1] = message
  BY AppendIs
<1> HIDE DEF new
<1>2. QED
  BY <1>1 DEF new, RemovalPending, ChangePending

LEMMA PendingTail ==
  ASSUME NEW queue \in Seq(Messages), queue # <<>>, NEW folder
  PROVE  /\ RemovalPending(queue, folder) <=>
              RemovalPending(Tail(queue), folder) \/ Removes(Head(queue), folder)
         /\ ChangePending(queue, folder) <=>
              \/ ChangePending(Tail(queue), folder)
              \/ Removes(Head(queue), folder) \/ Refreshes(Head(queue), folder)
<1> DEFINE new == Tail(queue)
<1>1. /\ Len(queue) \in Nat \ {0} /\ DOMAIN queue = 1 .. Len(queue)
      /\ DOMAIN new = 1 .. Len(queue) - 1
      /\ \A k \in 1 .. Len(queue) - 1 : new[k] = queue[k + 1]
      /\ Head(queue) = queue[1]
  BY TailIs
<1> HIDE DEF new
<1>2. \A k \in DOMAIN queue : k = 1 \/ (k - 1 \in DOMAIN new /\ new[k - 1] = queue[k])
  BY <1>1
<1>3. \A k \in DOMAIN new : k + 1 \in DOMAIN queue /\ new[k] = queue[k + 1]
  BY <1>1
<1>4. 1 \in DOMAIN queue
  BY <1>1
<1>5. RemovalPending(queue, folder) <=>
        RemovalPending(new, folder) \/ Removes(queue[1], folder)
  BY <1>2, <1>3, <1>4 DEF RemovalPending
<1>6. ChangePending(queue, folder) <=>
        \/ ChangePending(new, folder)
        \/ Removes(queue[1], folder) \/ Refreshes(queue[1], folder)
  BY <1>2, <1>3, <1>4 DEF ChangePending
<1>7. QED
  BY <1>1, <1>5, <1>6 DEF new

\* A message is sent that says nothing of folders.
LEMMA WorkspacesInvSend ==
  ASSUME SettingsTypeOK, WorkspacesInv, UNCHANGED <<toml, clientFolders, workspaces>>,
         NEW message \in Messages, message.kind # "folders", Send(message)
  PROVE  WorkspacesInv'
<1>1. /\ toServer \in Seq(Messages) /\ toServer' = Append(toServer, message)
      /\ DOMAIN toServer' = DOMAIN toServer \cup {Len(toServer) + 1}
      /\ \A k \in DOMAIN toServer : toServer'[k] = toServer[k]
      /\ toServer'[Len(toServer) + 1] = message
  BY AppendIs DEF SettingsTypeOK, Send
<1>2. \A x \in Range(workspaces) : ItemFollows(x)' /\ ItemIsKept(x)'
  BY <1>1, PendingAppended DEF WorkspacesInv, ItemFollows, ItemIsKept, Follows
<1>3. ASSUME NEW k \in DOMAIN toServer', NEW folder \in Folders
      PROVE  AdditionIsKept(k, folder)'
  BY <1>1 DEF WorkspacesInv, AdditionIsKept, Adds, Removes
<1>4. QED
  BY <1>2, <1>3 DEF WorkspacesInv

\* What the messages behind the first say of a folder that is added.
LEMMA AdditionsReceived ==
  ASSUME SettingsTypeOK, WorkspacesInv, NEW kind, Receive(kind)
  PROVE  /\ \A k \in DOMAIN toServer', folder \in Folders : AdditionIsKept(k, folder)'
         /\ \A folder \in Folders : Adds(Message, folder) =>
              folder \in clientFolders \/ RemovalPending(toServer', folder)
<1>1. /\ toServer \in Seq(Messages) /\ toServer # <<>> /\ toServer' = Tail(toServer)
      /\ UNCHANGED clientFolders
  BY DEF SettingsTypeOK, Receive, clientVars
<1>2. /\ Len(toServer) \in Nat \ {0} /\ DOMAIN toServer = 1 .. Len(toServer)
      /\ DOMAIN toServer' = 1 .. Len(toServer) - 1
      /\ \A k \in 1 .. Len(toServer) - 1 : toServer'[k] = toServer[k + 1]
      /\ Message = toServer[1]
  BY <1>1, TailIs DEF Message
<1>3. \A k \in DOMAIN toServer' : k + 1 \in DOMAIN toServer /\ toServer'[k] = toServer[k + 1]
  BY <1>2
<1>4. \A k, l \in DOMAIN toServer :
        k < l => l - 1 \in DOMAIN toServer' /\ k - 1 < l - 1 /\ toServer'[l - 1] = toServer[l]
  BY <1>2
<1>5. ASSUME NEW k \in DOMAIN toServer', NEW folder \in Folders, Adds(toServer'[k], folder),
             folder \notin clientFolders
      PROVE  \E l \in DOMAIN toServer' : k < l /\ Removes(toServer'[l], folder)
  <2>1. PICK l \in DOMAIN toServer : k + 1 < l /\ Removes(toServer[l], folder)
    BY <1>3, <1>5 DEF WorkspacesInv, AdditionIsKept
  <2>2. l - 1 \in DOMAIN toServer' /\ k < l - 1 /\ toServer'[l - 1] = toServer[l]
    BY <1>2, <2>1
  <2>3. QED
    BY <2>1, <2>2
<1>6. ASSUME NEW folder \in Folders, Adds(Message, folder), folder \notin clientFolders
      PROVE  RemovalPending(toServer', folder)
  <2>1. 1 \in DOMAIN toServer
    BY <1>2
  <2>2. PICK l \in DOMAIN toServer : 1 < l /\ Removes(toServer[l], folder)
    BY <1>2, <1>6, <2>1 DEF WorkspacesInv, AdditionIsKept
  <2>3. QED
    BY <1>4, <2>1, <2>2 DEF RemovalPending
<1>7. QED
  BY <1>1, <1>5, <1>6 DEF AdditionIsKept

\* An air.toml is edited: if the server is not told, none of the client's folders
\* is affected.
LEMMA WorkspacesInvEdit ==
  ASSUME SettingsTypeOK, WorkspacesInv,
         NEW d \in Folders, NEW c \in Contents \cup {Absent, Broken}, EditToml(d, c)
  PROVE  WorkspacesInv'
<1>1. /\ toServer \in Seq(Messages) /\ toml' = [toml EXCEPT ![d] = c]
      /\ UNCHANGED <<clientFolders, workspaces>>
      /\ toml \in [Folders -> Contents \cup {Absent, Broken}]
  BY DEF SettingsTypeOK, EditToml, Asks, UserDoes, clientVars, serverVars
<1>2. \A x \in Range(workspaces) : x.path \in Folders
  BY ListTyped, FoldersAssumption DEF SettingsTypeOK, Workspaces, Range
<1>3. \A x \in Range(workspaces) : x.path # d /\ Follows(x.path, x.value) => Follows(x.path, x.value)'
  BY <1>1, <1>2 DEF Follows
<1>4. /\ \A w \in Folders : RemovalPending(toServer, w) => RemovalPending(toServer', w)
      /\ \A w \in Folders : ChangePending(toServer, w) => ChangePending(toServer', w)
      /\ d \in clientFolders => ChangePending(toServer', d)
      /\ \A k \in DOMAIN toServer', folder \in Folders : AdditionIsKept(k, folder)'
  <2>1. CASE UNCHANGED toServer /\ d \notin clientFolders
    BY <1>1, <2>1 DEF WorkspacesInv, AdditionIsKept
  <2>2. CASE Send([kind |-> "watched", directories |-> {d}])
    <3> DEFINE m == [kind |-> "watched", directories |-> {d}]
    <3>1. m \in Messages /\ m.kind = "watched" /\ Refreshes(m, d)
      BY DEF Messages, Refreshes
    <3> HIDE DEF m
    <3>2. /\ toServer' = Append(toServer, m)
          /\ DOMAIN toServer' = DOMAIN toServer \cup {Len(toServer) + 1}
          /\ \A k \in DOMAIN toServer : toServer'[k] = toServer[k]
          /\ toServer'[Len(toServer) + 1] = m
      BY <1>1, <2>2, <3>1, AppendIs DEF Send, m
    <3>3. ASSUME NEW k \in DOMAIN toServer', NEW folder \in Folders
          PROVE  AdditionIsKept(k, folder)'
      BY <1>1, <3>1, <3>2 DEF WorkspacesInv, AdditionIsKept, Adds, Removes
    <3>4. QED
      BY <1>1, <3>1, <3>2, <3>3, PendingAppended
  <2>3. CASE /\ toServer # <<>> /\ Last(toServer).kind = "watched"
             /\ toServer' = [toServer EXCEPT ![Len(toServer)].directories = @ \cup {d}]
    <3> DEFINE n == Len(toServer)
    <3>1. n \in DOMAIN toServer /\ toServer[n].kind = "watched" /\ toServer[n] \in Messages
      BY <1>1, <2>3 DEF Last
    <3>2. /\ DOMAIN toServer' = DOMAIN toServer
          /\ \A k \in DOMAIN toServer : k # n => toServer'[k] = toServer[k]
          /\ toServer'[n].kind = "watched"
          /\ toServer'[n].directories = toServer[n].directories \cup {d}
      BY <1>1, <2>3, <3>1 DEF Messages
    <3> HIDE DEF n
    <3>3. \A k \in DOMAIN toServer, w \in Folders :
            /\ Removes(toServer'[k], w) <=> Removes(toServer[k], w)
            /\ Adds(toServer'[k], w) <=> Adds(toServer[k], w)
            /\ Refreshes(toServer[k], w) => Refreshes(toServer'[k], w)
      BY <3>1, <3>2 DEF Removes, Adds, Refreshes
    <3>4. Refreshes(toServer'[n], d)
      BY <3>2 DEF Refreshes
    <3>5. ChangePending(toServer', d)
      BY <3>1, <3>2, <3>4 DEF ChangePending
    <3>6. \A w \in Folders : /\ RemovalPending(toServer, w) => RemovalPending(toServer', w)
                             /\ ChangePending(toServer, w) => ChangePending(toServer', w)
      BY <3>2, <3>3 DEF RemovalPending, ChangePending
    <3>7. ASSUME NEW k \in DOMAIN toServer', NEW folder \in Folders
          PROVE  AdditionIsKept(k, folder)'
      BY <1>1, <3>2, <3>3 DEF WorkspacesInv, AdditionIsKept
    <3>8. QED
      BY <3>5, <3>6, <3>7
  <2>4. (\A folder \in clientFolders : ~StartsWith(d, folder)) => d \notin clientFolders
    BY FoldersAssumption DEF StartsWith, Path
  <2>5. QED
    BY <2>1, <2>2, <2>3, <2>4 DEF EditToml
<1>5. ASSUME NEW x \in Range(workspaces)
      PROVE  ItemFollows(x)' /\ ItemIsKept(x)'
  <2>1. ItemFollows(x) /\ ItemIsKept(x) /\ x.path \in Folders
    BY <1>2 DEF WorkspacesInv
  <2>2. ItemIsKept(x)'
    BY <1>1, <1>4, <2>1 DEF ItemIsKept
  <2>3. CASE x.path # d
    BY <1>3, <1>4, <2>1, <2>2, <2>3 DEF ItemFollows
  <2>4. CASE x.path = d
    <3>1. RemovalPending(toServer, d) => ChangePending(toServer, d)
      BY DEF RemovalPending, ChangePending
    <3>2. ChangePending(toServer', d)
      BY <1>4, <2>1, <2>4, <3>1 DEF ItemIsKept
    <3>3. QED
      BY <2>2, <2>4, <3>2 DEF ItemFollows
  <2>5. QED
    BY <2>2, <2>3, <2>4
<1>6. QED
  BY <1>1, <1>4, <1>5 DEF WorkspacesInv

LEMMA WorkspacesInvFolders ==
  ASSUME SettingsTypeOK, WorkspacesInv, NEW folders \in SUBSET Folders, ChangeFolders(folders)
  PROVE  WorkspacesInv'
<1> DEFINE m == [kind |-> "folders", added |-> folders \ clientFolders,
                 removed |-> clientFolders \ folders]
<1>1. /\ m \in Messages
      /\ \A w : Removes(m, w) <=> w \in clientFolders \ folders
      /\ \A w : Adds(m, w) <=> w \in folders \ clientFolders
  BY DEF SettingsTypeOK, Messages, Removes, Adds
<1>2. /\ toServer \in Seq(Messages) /\ toServer' = Append(toServer, m)
      /\ clientFolders' = folders /\ UNCHANGED <<toml, workspaces>>
  BY DEF SettingsTypeOK, ChangeFolders, Send, Asks, UserDoes, serverVars
<1> HIDE DEF m
<1>3. /\ DOMAIN toServer' = DOMAIN toServer \cup {Len(toServer) + 1}
      /\ \A k \in DOMAIN toServer : toServer'[k] = toServer[k] /\ k < Len(toServer) + 1
      /\ toServer'[Len(toServer) + 1] = m
  BY <1>1, <1>2, AppendIs
<1>4. \A x \in Range(workspaces) : ItemFollows(x)' /\ ItemIsKept(x)'
  BY <1>1, <1>2, PendingAppended DEF WorkspacesInv, ItemFollows, ItemIsKept, Follows
<1>5. ASSUME NEW k \in DOMAIN toServer', NEW folder \in Folders
      PROVE  AdditionIsKept(k, folder)'
  <2>1. CASE k = Len(toServer) + 1
    BY <1>1, <1>2, <1>3, <2>1 DEF AdditionIsKept
  <2>2. CASE k \in DOMAIN toServer
    <3>1. AdditionIsKept(k, folder)
      BY <2>2 DEF WorkspacesInv
    <3>2. folder \in clientFolders => folder \in folders \/ Removes(m, folder)
      BY <1>1
    <3>3. QED
      BY <1>2, <1>3, <2>2, <3>1, <3>2 DEF AdditionIsKept
  <2>3. QED
    BY <1>3, <2>1, <2>2
<1>6. QED
  BY <1>2, <1>4, <1>5 DEF WorkspacesInv

\* A message is taken that changes no workspace.
LEMMA WorkspacesInvReceive ==
  ASSUME SettingsTypeOK, WorkspacesInv, NEW kind \in {"open", "close", "configuration"},
         Receive(kind), UNCHANGED workspaces
  PROVE  WorkspacesInv'
<1>1. /\ toServer \in Seq(Messages) /\ toServer # <<>> /\ toServer' = Tail(toServer)
      /\ Head(toServer).kind = kind /\ UNCHANGED <<toml, clientFolders>>
  BY DEF SettingsTypeOK, Receive, Message, clientVars
<1>2. \A w : ~Removes(Head(toServer), w) /\ ~Refreshes(Head(toServer), w)
  BY <1>1 DEF Removes, Refreshes
<1>3. \A x \in Range(workspaces) : ItemFollows(x)' /\ ItemIsKept(x)'
  BY <1>1, <1>2, PendingTail DEF WorkspacesInv, ItemFollows, ItemIsKept, Follows
<1>4. QED
  BY <1>3, AdditionsReceived DEF WorkspacesInv

LEMMA WorkspacesInvFoldersReceived ==
  ASSUME SettingsTypeOK, WorkspacesInv, DidChangeWorkspaceFolders
  PROVE  WorkspacesInv'
<1> DEFINE opened == OpenedAll(workspaces, Message.added)
<1>1. /\ toServer \in Seq(Messages) /\ toServer # <<>> /\ toServer' = Tail(toServer)
      /\ Message = Head(toServer) /\ Message.kind = "folders"
      /\ UNCHANGED <<toml, clientFolders>> /\ Receive("folders")
      /\ workspaces' = ClosedAll(opened, Message.removed)
  BY DEF SettingsTypeOK, DidChangeWorkspaceFolders, Receive, Message, clientVars
<1>2. Message.added \in SUBSET Folders /\ Message.removed \in SUBSET Folders
  BY <1>1, ReceiveTyped DEF Messages
<1>3. opened \in OpenedLists(workspaces, Message.added) /\ opened \in Workspaces
  BY <1>2, OpenedAllIs DEF OpenedLists, SettingsTypeOK
<1>4. workspaces' \in ClosedLists(opened, Message.removed)
  BY <1>1, <1>2, <1>3, ClosedAllIs
<1> HIDE DEF opened
<1>5. ASSUME NEW x \in Range(workspaces')
      PROVE  ItemFollows(x)' /\ ItemIsKept(x)'
  <2>1. x \in Range(opened) /\ x.path \notin Message.removed
    BY <1>4 DEF ClosedLists
  <2>2. CASE x \in Range(workspaces)
    <3>1. ItemFollows(x) /\ ItemIsKept(x)
      BY <2>2 DEF WorkspacesInv
    <3>2. ~Removes(Head(toServer), x.path) /\ ~Refreshes(Head(toServer), x.path)
      BY <1>1, <2>1 DEF Removes, Refreshes
    <3>3. QED
      BY <1>1, <3>1, <3>2, PendingTail DEF ItemFollows, ItemIsKept, Follows
  <2>3. ASSUME NEW d \in Message.added, Discoverable(d), x = Item(d, Discovered(d))
        PROVE  ItemFollows(x)' /\ ItemIsKept(x)'
    <3>1. d \in Folders /\ x.path = d /\ x.value = Discovered(d)
      BY <1>2, <2>3, ItemIs
    <3>2. Follows(d, Discovered(d))
      BY <2>3, <3>1, DiscoveredIs DEF SettingsTypeOK
    <3>3. Adds(Message, d)
      BY <1>1, <2>3 DEF Adds
    <3>4. d \in clientFolders \/ RemovalPending(toServer', d)
      BY <1>1, <3>1, <3>3, AdditionsReceived
    <3>5. QED
      BY <1>1, <3>1, <3>2, <3>4 DEF ItemFollows, ItemIsKept, Follows
  <2>4. QED
    BY <1>3, <2>1, <2>2, <2>3 DEF OpenedLists
<1>6. QED
  BY <1>1, <1>5, AdditionsReceived DEF WorkspacesInv

LEMMA WorkspacesInvWatched ==
  ASSUME SettingsTypeOK, WorkspacesInv, DidChangeWatchedFiles
  PROVE  WorkspacesInv'
<1>1. /\ toServer \in Seq(Messages) /\ toServer # <<>> /\ toServer' = Tail(toServer)
      /\ Message = Head(toServer) /\ Message.kind = "watched"
      /\ UNCHANGED <<toml, clientFolders>> /\ Receive("watched")
      /\ workspaces' = Reload(Message.directories)
  BY DEF SettingsTypeOK, DidChangeWatchedFiles, Receive, Message, clientVars
<1>2. Message.directories \in SUBSET Folders
  BY <1>1, ReceiveTyped DEF Messages
<1>3. /\ DOMAIN workspaces' = DOMAIN workspaces
      /\ \A i \in DOMAIN workspaces :
           /\ workspaces'[i].path = workspaces[i].path
           /\ i \notin Reloaded(Message.directories) => workspaces'[i] = workspaces[i]
           /\ i \in Reloaded(Message.directories) =>
                Follows(workspaces[i].path, workspaces'[i].value)
           /\ workspaces[i].path \in Message.directories => i \in Reloaded(Message.directories)
  BY <1>1, <1>2, ReloadIs
<1>4. ASSUME NEW i \in DOMAIN workspaces'
      PROVE  ItemFollows(workspaces[i])' /\ ItemIsKept(workspaces[i])'
  <2>1. ItemFollows(workspaces[i]) /\ ItemIsKept(workspaces[i])
    BY <1>3 DEF WorkspacesInv, Range
  <2> DEFINE w == workspaces[i].path
  <2>2. ~Removes(Head(toServer), w)
    BY <1>1 DEF Removes
  <2>3. ItemIsKept(workspaces[i])'
    BY <1>1, <1>3, <2>1, <2>2, PendingTail DEF ItemIsKept
  <2>4. CASE i \in Reloaded(Message.directories)
    <3>1. Follows(workspaces[i].path, workspaces[i].value)'
      <4>1. Follows(w, workspaces'[i].value) /\ workspaces'[i].path = w
        BY <1>3, <2>4
      <4>2. QED
        BY <1>1, <4>1 DEF Follows
    <3>2. QED
      BY <1>3, <2>3, <3>1 DEF ItemFollows
  <2>5. CASE i \notin Reloaded(Message.directories)
    <3>1. ~Refreshes(Head(toServer), w)
      BY <1>1, <1>3, <2>5 DEF Refreshes
    <3>2. Follows(w, workspaces[i].value) \/ ChangePending(toServer', w)
      BY <1>1, <2>1, <2>2, <3>1, PendingTail DEF ItemFollows
    <3>3. QED
      BY <1>1, <1>3, <2>3, <2>5, <3>2 DEF ItemFollows, Follows
  <2>6. QED
    BY <2>4, <2>5
<1>5. QED
  BY <1>1, <1>4, AdditionsReceived DEF WorkspacesInv, Range

LEMMA WorkspacesInvStep ==
  ASSUME SettingsTypeOK, WorkspacesInv, [SettingsNext]_settingsVars
  PROVE  WorkspacesInv'
<1>1. CASE UNCHANGED <<toml, clientFolders, workspaces, toServer>>
  BY <1>1 DEF WorkspacesInv, ItemFollows, ItemIsKept, AdditionIsKept, Follows
<1>2. ASSUME NEW f \in Documents, OpenEditor(f) \/ CloseEditor(f) \/ ActivateEditor(f)
      PROVE  WorkspacesInv'
  <2>1. UNCHANGED <<toml, clientFolders, workspaces>>
    BY <1>2 DEF OpenEditor, CloseEditor, ActivateEditor, Asks, UserDoes, serverVars
  <2>2. \A kind \in {"open", "close"} :
          [kind |-> kind, file |-> f] \in Messages /\ [kind |-> kind, file |-> f].kind # "folders"
    BY DEF Messages
  <2>3. CASE ActivateEditor(f)
    BY <1>1, <2>1, <2>3 DEF ActivateEditor
  <2>4. CASE OpenEditor(f)
    <3>1. Send([kind |-> "open", file |-> f])
      BY <2>4 DEF OpenEditor
    <3>2. QED
      BY <2>1, <2>2, <3>1, WorkspacesInvSend
  <2>5. CASE CloseEditor(f)
    <3>1. Send([kind |-> "close", file |-> f])
      BY <2>5 DEF CloseEditor
    <3>2. QED
      BY <2>1, <2>2, <3>1, WorkspacesInvSend
  <2>6. QED
    BY <1>2, <2>3, <2>4, <2>5
<1>3. CASE ToggleSync
  <2>1. UNCHANGED <<toml, clientFolders, workspaces>> /\ Send([kind |-> "configuration"])
    BY <1>3 DEF ToggleSync, Asks, UserDoes, serverVars
  <2>2. [kind |-> "configuration"] \in Messages /\ [kind |-> "configuration"].kind # "folders"
    BY DEF Messages
  <2>3. QED
    BY <2>1, <2>2, WorkspacesInvSend
<1>4. CASE UserNext
  BY <1>2, <1>3, <1>4, WorkspacesInvEdit, WorkspacesInvFolders DEF UserNext
<1>5. CASE DidOpen
  BY <1>5, WorkspacesInvReceive DEF DidOpen
<1>6. CASE DidClose
  BY <1>6, WorkspacesInvReceive DEF DidClose
<1>7. CASE DidChangeConfiguration
  BY <1>7, WorkspacesInvReceive DEF DidChangeConfiguration
<1>8. CASE HandlerNext
  BY <1>5, <1>6, <1>7, <1>8, WorkspacesInvFoldersReceived, WorkspacesInvWatched DEF HandlerNext
<1>9. CASE SettingsNotification \/ UNCHANGED settingsVars
  BY <1>1, <1>9 DEF SettingsNotification, settingsVars, clientVars, serverVars
<1>10. QED
  BY <1>4, <1>8, <1>9 DEF SettingsNext

LEMMA WorkspacesInvInit ==
  ASSUME SettingsInit
  PROVE  WorkspacesInv
<1>1. /\ <<>> \in Workspaces /\ Range(<<>>) = {}
      /\ toml \in [Folders -> Contents \cup {Absent, Broken}]
      /\ clientFolders \in SUBSET Folders /\ DOMAIN toServer = {}
      /\ workspaces = OpenedAll(<<>>, clientFolders)
  BY DEF Workspaces, Sorted, SettingsInit, Range
<1>2. workspaces \in OpenedLists(<<>>, clientFolders)
  BY <1>1, OpenedAllIs
<1>3. ASSUME NEW x \in Range(workspaces)
      PROVE  ItemFollows(x) /\ ItemIsKept(x)
  <2>1. PICK d \in clientFolders : Discoverable(d) /\ x = Item(d, Discovered(d))
    BY <1>1, <1>2 DEF OpenedLists
  <2>2. x.path = d /\ x.value = Discovered(d)
    BY <2>1, ItemIs
  <2>3. Follows(d, Discovered(d))
    BY <1>1, <2>1, DiscoveredIs
  <2>4. QED
    BY <2>2, <2>3 DEF ItemFollows, ItemIsKept
<1>4. QED
  BY <1>1, <1>3 DEF WorkspacesInv

LEMMA WorkspacesInvFollow ==
  ASSUME SettingsTypeOK, WorkspacesInv
  PROVE  WorkspacesFollowTheirToml
<1>1. ASSUME toServer = <<>>, NEW i \in DOMAIN workspaces
      PROVE  Follows(workspaces[i].path, workspaces[i].value)
  <2>1. ItemFollows(workspaces[i])
    BY DEF WorkspacesInv, Range
  <2>2. ~ChangePending(toServer, workspaces[i].path)
    BY <1>1 DEF ChangePending
  <2>3. QED
    BY <2>1, <2>2 DEF ItemFollows
<1>2. QED
  BY <1>1 DEF WorkspacesFollowTheirToml, Follows

\* Once the server has handled every message, each open workspace agrees with the
\* air.toml of its folder, for any folders inside of each other, any files and any
\* order of edits, folder changes and merged notifications.
THEOREM WorkspacesFollow == SettingsSpec => []WorkspacesFollowTheirToml
<1>1. SettingsInit => SettingsTypeOK /\ WorkspacesInv
  BY InitTyped, WorkspacesInvInit
<1>2. SettingsTypeOK /\ WorkspacesInv /\ [SettingsNext]_settingsVars
        => SettingsTypeOK' /\ WorkspacesInv'
  BY StepTyped, WorkspacesInvStep
<1>3. SettingsTypeOK /\ WorkspacesInv => WorkspacesFollowTheirToml
  BY WorkspacesInvFollow
<1>4. QED
  BY <1>1, <1>2, <1>3, PTL DEF SettingsSpec

-----------------------------------------------------------------------------
(* What the client knows *)

Latest == IF toClient = <<>> THEN fileSettings ELSE Last(toClient)

Agrees(list, known) ==
  \A f \in DOMAIN known : SettingsForUrl(list, f) \in {known[f], Fallback}

LEMMA SentAgrees ==
  ASSUME NEW list \in Workspaces, NEW files \in SUBSET Documents
  PROVE  Agrees(list, FileSettings(list, files))
  BY FileSettingsIs DEF Agrees

\* The last notification has the last files.
LEMMA SyncedIs ==
  ASSUME SettingsTypeOK, NEW fileSets \in Seq(SUBSET Documents), fileSets # <<>>
  PROVE  /\ Synced(fileSets) # <<>>
         /\ Last(Synced(fileSets)) = FileSettings(workspaces, fileSets[Len(fileSets)])
<1> DEFINE sent == [i \in DOMAIN fileSets |-> FileSettings(workspaces, fileSets[i])]
<1>1. sent \in Seq(FileSets) /\ Len(sent) = Len(fileSets)
  <2>1. \A i \in 1 .. Len(fileSets) : FileSettings(workspaces, fileSets[i]) \in FileSets
    BY FileSettingsIs DEF SettingsTypeOK
  <2>2. QED
    BY <2>1
<1>2. Len(fileSets) \in 1 .. Len(fileSets)
  BY EmptySeq
<1>3. sent[Len(fileSets)] = FileSettings(workspaces, fileSets[Len(fileSets)])
  BY <1>2
<1> HIDE DEF sent
<1>4. toClient \in Seq(FileSets) /\ Synced(fileSets) = toClient \o sent
  BY DEF SettingsTypeOK, Synced, sent
<1>5. /\ Len(toClient \o sent) = Len(toClient) + Len(fileSets)
      /\ (toClient \o sent)[Len(toClient) + Len(fileSets)] = sent[Len(fileSets)]
  <2>1. sent \in Seq(FileSets) /\ Len(fileSets) \in 1 .. Len(sent)
    BY <1>1, <1>2
  <2>2. /\ Len(toClient \o sent) = Len(toClient) + Len(sent)
        /\ (toClient \o sent)[Len(toClient) + Len(fileSets)] = sent[Len(fileSets)]
    BY <1>4, <2>1, ConcatIs
  <2>3. QED
    BY <1>1, <2>2
<1>6. toClient \o sent # <<>>
  BY <1>1, <1>2, <1>4, <1>5, EmptySeq
<1>7. QED
  BY <1>3, <1>4, <1>5, <1>6 DEF Last

LEMMA ClientFollowsStep ==
  ASSUME SettingsTypeOK, ClientFollowsServer, [SettingsNext]_settingsVars
  PROVE  ClientFollowsServer'
<1>i. syncOn /\ ~moved => Agrees(workspaces, Latest)
  BY DEF ClientFollowsServer, Agrees, Latest
<1>s. SUFFICES syncOn' /\ ~moved' => Agrees(workspaces, Latest)'
  BY DEF ClientFollowsServer, Agrees, Latest
<1>t. /\ workspaces \in Workspaces /\ Latest \in FileSets /\ DOMAIN Latest \subseteq Documents
      /\ documents \in SUBSET Documents
  <2>1. toClient # <<>> => Last(toClient) \in FileSets
    BY EmptySeq DEF SettingsTypeOK, Last
  <2>2. Latest \in FileSets
    BY <2>1 DEF Latest, SettingsTypeOK
  <2>3. QED
    BY <2>2 DEF FileSets, SettingsTypeOK
<1>1. CASE UNCHANGED <<fileSettings, toClient, workspaces, syncOn, moved>>
  BY <1>i, <1>1 DEF Agrees, Latest
<1>2. CASE UserNext
  BY <1>1, <1>2 DEF UserNext, OpenEditor, CloseEditor, ActivateEditor, EditToml, ChangeFolders,
     ToggleSync, Asks, UserDoes, serverVars, clientVars
<1>3. CASE SettingsNotification
  <2>1. Latest' = Latest
    <3>1. toClient \in Seq(FileSets) /\ toClient # <<>>
      BY <1>3 DEF SettingsTypeOK, SettingsNotification
    <3>2. QED
      BY <1>3, <3>1, TailIs DEF Latest, SettingsNotification
  <2>2. QED
    BY <1>i, <1>3, <2>1 DEF Agrees, SettingsNotification, serverVars
<1>4. CASE DidOpen
  <2>1. CASE ~clientSync
    BY <1>4, <2>1 DEF DidOpen
  <2>2. CASE clientSync
    <3> DEFINE sets == ConfigSyncs(documents') \o <<{Message.file}>>
    <3>1. {Message.file} \in SUBSET Documents /\ documents' \in SUBSET Documents
      <4>1. Message \in Messages /\ Message.kind = "open"
        BY <1>4, ReceiveTyped DEF DidOpen
      <4>2. QED
        BY <1>4, <1>t, <4>1 DEF Messages, DidOpen
    <3>2. ConfigSyncs(documents') \in Seq(SUBSET Documents) /\ <<{Message.file}>> \in Seq(SUBSET Documents)
      BY <3>1, SentTyped DEF ConfigSyncs
    <3>3. /\ sets \in Seq(SUBSET Documents)
          /\ Len(sets) = Len(ConfigSyncs(documents')) + 1
          /\ sets[Len(sets)] = {Message.file}
      BY <3>2
    <3>4. sets # <<>>
      BY <3>2, <3>3, EmptySeq
    <3>5. toClient' = Synced(sets) /\ workspaces' = workspaces
      BY <1>4, <2>2 DEF DidOpen
    <3> HIDE DEF sets
    <3>6. Latest' = FileSettings(workspaces, {Message.file})
      BY <3>3, <3>4, <3>5, SyncedIs DEF Latest
    <3>7. Agrees(workspaces, FileSettings(workspaces, {Message.file}))
      BY <1>t, <3>1, SentAgrees
    <3>8. QED
      BY <3>5, <3>6, <3>7 DEF Agrees
  <2>3. QED
    BY <2>1, <2>2
<1>5. CASE DidClose
  BY <1>1, <1>5 DEF DidClose, Receive, clientVars
<1>6. CASE DidChangeConfiguration
  <2>1. toClient' = Synced(ConfigSyncs(documents)) /\ syncOn' = clientSync /\ workspaces' = workspaces
    BY <1>6 DEF DidChangeConfiguration
  <2>2. CASE ~syncOn /\ clientSync
    <3>1. ConfigSyncs(documents) = <<documents>> /\ <<documents>> \in Seq(SUBSET Documents)
      BY <1>t, <2>2 DEF ConfigSyncs
    <3>2. Latest' = FileSettings(workspaces, documents)
      BY <2>1, <3>1, SyncedIs DEF Latest
    <3>3. Agrees(workspaces, FileSettings(workspaces, documents))
      BY <1>t, SentAgrees
    <3>4. QED
      BY <2>1, <3>2, <3>3 DEF Agrees
  <2>3. CASE syncOn \/ ~clientSync
    <3>1. ConfigSyncs(documents) = <<>>
      BY <2>3 DEF ConfigSyncs
    <3>2. toClient' = toClient
      <4>1. [i \in DOMAIN <<>> |-> FileSettings(workspaces, <<>>[i])] = <<>>
        OBVIOUS
      <4>2. toClient \o <<>> = toClient
        BY DEF SettingsTypeOK
      <4>3. QED
        BY <2>1, <3>1, <4>1, <4>2 DEF Synced
    <3>3. moved' = moved /\ fileSettings' = fileSettings
      BY <1>6, <3>1 DEF DidChangeConfiguration, SettingsTypeOK, Receive, clientVars
    <3>4. QED
      BY <1>i, <2>1, <2>3, <3>2, <3>3 DEF Agrees, Latest
  <2>4. QED
    BY <2>2, <2>3 DEF SettingsTypeOK
<1>7. CASE DidChangeWorkspaceFolders
  BY <1>7 DEF DidChangeWorkspaceFolders
<1>8. CASE DidChangeWatchedFiles
  <2>1. Message.directories \in SUBSET Folders
    BY <1>8, ReceiveTyped DEF DidChangeWatchedFiles, Messages
  <2>2. /\ workspaces' = Reload(Message.directories) /\ workspaces' \in Workspaces
        /\ UNCHANGED <<documents, syncOn, fileSettings>>
    BY <1>8, <2>1, ReloadIs DEF DidChangeWatchedFiles, Receive, clientVars
  <2>3. CASE ReloadChanged(Message.directories) /\ syncOn
    <3>1. toClient' = Append(toClient, FileSettings(workspaces', documents))
      BY <1>8, <2>3 DEF DidChangeWatchedFiles
    <3>2. FileSettings(workspaces', documents) \in FileSets /\ toClient \in Seq(FileSets)
      BY <1>t, <2>2, FileSettingsIs DEF SettingsTypeOK
    <3>3. Last(toClient') = FileSettings(workspaces', documents) /\ toClient' # <<>>
      BY <3>1, <3>2, AppendIs, EmptySeq
    <3>4. Agrees(workspaces', FileSettings(workspaces', documents))
      BY <1>t, <2>2, SentAgrees
    <3>5. QED
      BY <3>3, <3>4 DEF Agrees, Latest
  <2>4. CASE ~syncOn
    BY <2>2, <2>4
  <2>5. CASE ~ReloadChanged(Message.directories) /\ syncOn
    <3>1. UNCHANGED <<toClient, moved>> /\ Latest' = Latest
      BY <1>8, <2>2, <2>5 DEF DidChangeWatchedFiles, Latest
    <3>2. \A f \in DOMAIN Latest :
            SettingsForUrl(workspaces', f) \in {SettingsForUrl(workspaces, f), Fallback}
      BY <1>t, <2>1, <2>2, <2>5, ReloadKeeps
    <3>3. QED
      BY <1>i, <2>2, <2>5, <3>1, <3>2 DEF Agrees
  <2>6. QED
    BY <2>3, <2>4, <2>5 DEF SettingsTypeOK
<1>9. CASE UNCHANGED settingsVars
  BY <1>1, <1>9 DEF settingsVars, clientVars, serverVars
<1>10. QED
  BY <1>2, <1>3, <1>4, <1>5, <1>6, <1>7, <1>8, <1>9 DEF SettingsNext, HandlerNext

\* While settings are synchronised and no folder has changed since, what the
\* client was last told, or is about to be told, agrees with the server wherever
\* the server has settings: a reload that is not announced only takes settings away.
THEOREM ClientFollows == SettingsSpec => []ClientFollowsServer
<1>1. SettingsInit => SettingsTypeOK /\ ClientFollowsServer
  BY InitTyped DEF SettingsInit, ClientFollowsServer
<1>2. SettingsTypeOK /\ ClientFollowsServer /\ [SettingsNext]_settingsVars
        => SettingsTypeOK' /\ ClientFollowsServer'
  BY StepTyped, ClientFollowsStep
<1>3. QED
  BY <1>1, <1>2, PTL DEF SettingsSpec

=============================================================================
