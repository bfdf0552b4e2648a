------------------------------- MODULE Paths -------------------------------
(***************************************************************************)
(* Paths and the sorted list a PathResolver keeps (workspace/resolve.rs).  *)
(* This module has no state.                                               *)
(*                                                                         *)
(* A path is the sequence of its components, a component a number: paths   *)
(* are compared component by component, as std::path does, never as text,  *)
(* so that `a/b' is no prefix of `a/b.R'.                                  *)
(***************************************************************************)
EXTENDS Naturals, SequencesExt

Path == Seq(Nat)

\* Path::starts_with
StartsWith(path, start) ==
  /\ Len(start) <= Len(path)
  /\ \A i \in 1 .. Len(start) : path[i] = start[i]

\* The order of PathBuf: the first component that differs decides, and a path
\* comes before those it starts.
Before(p, q) ==
  \E k \in 1 .. Len(q) :
    /\ k <= Len(p) + 1
    /\ \A i \in 1 .. k - 1 : p[i] = q[i]
    /\ k <= Len(p) => p[k] < q[k]

\* Path::parent
Parent(path) == SubSeq(path, 1, Len(path) - 1)

-----------------------------------------------------------------------------
(* PathItems *)

Item(path, value) == [path |-> path, value |-> value]

Keys(items) == {items[i].path : i \in DOMAIN items}

Sorted(items) == \A i, j \in DOMAIN items : i < j => Before(items[i].path, items[j].path)

IndexOf(items, path) == CHOOSE i \in DOMAIN items : items[i].path = path

\* Where a binary search that finds no item says to insert one.
InsertionPoint(items, path) ==
  CHOOSE k \in 1 .. Len(items) + 1 :
    /\ \A i \in 1 .. k - 1 : Before(items[i].path, path)
    /\ \A i \in k .. Len(items) : Before(path, items[i].path)

\* Mutant: the new item goes to the end.
AddedLast(items, path, value) ==
  IF path \in Keys(items)
  THEN [items EXCEPT ![IndexOf(items, path)] = Item(path, value)]
  ELSE Append(items, Item(path, value))

\* add
Added(items, path, value) ==
  IF path \in Keys(items)
  THEN [items EXCEPT ![IndexOf(items, path)] = Item(path, value)]
  ELSE InsertAt(items, InsertionPoint(items, path), Item(path, value))

\* remove
Removed(items, path) ==
  IF path \in Keys(items) THEN RemoveAt(items, IndexOf(items, path)) ELSE items

\* matches, and matches_mut
Matches(items, path) == {i \in DOMAIN items : StartsWith(path, items[i].path)}

\* Mutant: the first match answers.
FirstMatch(items, path) ==
  CHOOSE i \in Matches(items, path) : \A j \in Matches(items, path) : i <= j

\* The last match from which resolve takes the value.
LastMatch(items, path) ==
  CHOOSE i \in Matches(items, path) : \A j \in Matches(items, path) : j <= i

\* resolve_or_fallback
Resolved(items, path, fallback) ==
  IF Matches(items, path) = {} THEN fallback ELSE items[LastMatch(items, path)].value

=============================================================================
