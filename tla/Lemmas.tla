------------------------------- MODULE Lemmas -------------------------------
(***************************************************************************)
(* What the proofs keep needing: least and greatest numbers, induction and  *)
(* the functions that a fold is defined by, and the order of Paths and its  *)
(* lists of items, for every set D of directories and V of values.          *)
(***************************************************************************)
EXTENDS Paths, FiniteSetTheorems, SequenceTheorems, WellFoundedInduction, TLAPS

-----------------------------------------------------------------------------
(* Least and greatest numbers, from the well-founded order of finite sets: the *)
(* least t has the least initial segment 0 .. t.                               *)

LEMMA LeastNatural ==
  ASSUME NEW T \in SUBSET Nat, T # {}
  PROVE  \E m \in T : \A n \in T : m <= n
<1> DEFINE Segments == {0 .. t : t \in T}
<1>1. Segments \subseteq FiniteSubsetsOf(Nat)
  <2>1. \A t \in T : 0 .. t \in SUBSET Nat /\ IsFiniteSet(0 .. t)
    BY FS_Interval
  <2>2. QED
    BY <2>1 DEF FiniteSubsetsOf
<1>2. Segments # {}
  OBVIOUS
<1>3. PICK s \in Segments : \A r \in Segments : ~ <<r, s>> \in StrictSubsetOrdering(Nat)
  <2> HIDE DEF Segments
  <2>1. QED
    BY <1>1, <1>2, FS_StrictSubsetOrderingWellFounded, WFMin
<1>4. PICK m \in T : s = 0 .. m
  OBVIOUS
<1>5. ASSUME NEW n \in T, n < m
      PROVE  FALSE
  <2>1. 0 .. n \in Segments
    OBVIOUS
  <2>2. 0 .. n \in SUBSET Nat /\ 0 .. m \in SUBSET Nat
    OBVIOUS
  <2>3. 0 .. n \subseteq 0 .. m /\ m \in 0 .. m /\ m \notin 0 .. n
    BY <1>5
  <2>4. <<0 .. n, s>> \in StrictSubsetOrdering(Nat)
    BY <2>2, <2>3, <1>4 DEF StrictSubsetOrdering
  <2>5. QED
    BY <1>3, <2>1, <2>4
<1>6. QED
  BY <1>5

LEMMA GreatestIndex ==
  ASSUME NEW b \in Nat, NEW T \in SUBSET (1 .. b), T # {}
  PROVE  \E m \in T : \A n \in T : n <= m
<1> DEFINE Mirror == {b - t : t \in T}
<1>1. Mirror \in SUBSET Nat /\ Mirror # {}
  <2>1. \A t \in T : b - t \in Nat
    OBVIOUS
  <2>2. QED
    BY <2>1
<1>2. PICK r \in Mirror : \A q \in Mirror : r <= q
  <2> HIDE DEF Mirror
  <2>1. QED
    BY <1>1, LeastNatural
<1>3. PICK m \in T : r = b - m
  OBVIOUS
<1>4. \A n \in T : b - m <= b - n
  BY <1>2, <1>3
<1>5. QED
  BY <1>4

-----------------------------------------------------------------------------
(* Induction.  A set of numbers with 0 and every successor is Nat, for the    *)
(* least number outside it would have a predecessor.                          *)

LEMMA NatInductionSet ==
  ASSUME NEW P, 0 \in P, \A n \in Nat : n \in P => n + 1 \in P
  PROVE  Nat \subseteq P
<1>1. SUFFICES ASSUME Nat \ P # {}
               PROVE  FALSE
  OBVIOUS
<1>2. PICK m \in Nat \ P : \A n \in Nat \ P : m <= n
  <2>1. Nat \ P \in SUBSET Nat
    OBVIOUS
  <2>2. QED
    BY <1>1, <2>1, LeastNatural
<1>3. m # 0 /\ m - 1 \in Nat
  BY <1>2
<1>4. m - 1 \notin P
  BY <1>2, <1>3
<1>5. QED
  BY <1>2, <1>3, <1>4

\* Induction on the subsets of a finite set: it is enough to go down by the
\* element that a fold takes.
LEMMA SubsetInduction ==
  ASSUME NEW S, IsFiniteSet(S), NEW P, {} \in P,
         \A s \in SUBSET S : s # {} => \E x \in s : s \ {x} \in P => s \in P
  PROVE  SUBSET S \subseteq P
<1> DEFINE Sized(n) == {s \in SUBSET S : Cardinality(s) = n}
           Q == {n \in Nat : Sized(n) \subseteq P}
<1>1. 0 \in Q
  <2>1. \A s \in Sized(0) : s = {}
    BY FS_Subset, FS_EmptySet
  <2>2. QED
    BY <2>1
<1>2. ASSUME NEW n \in Nat, n \in Q
      PROVE  n + 1 \in Q
  <2>1. ASSUME NEW s \in SUBSET S, Cardinality(s) = n + 1
        PROVE  s \in P
    <3>1. IsFiniteSet(s) /\ s # {}
      BY <2>1, FS_Subset, FS_EmptySet
    <3>2. PICK x \in s : s \ {x} \in P => s \in P
      BY <3>1
    <3>3. Cardinality(s \ {x}) = n /\ s \ {x} \in SUBSET S
      <4>1. Cardinality(s \ {x}) = Cardinality(s) - 1
        BY <3>1, FS_RemoveElement
      <4>2. QED
        BY <2>1, <4>1
    <3>4. s \ {x} \in P
      BY <1>2, <3>3
    <3>5. QED
      BY <3>2, <3>4
  <2>2. QED
    BY <2>1
<1>3. Nat \subseteq Q
  <2> HIDE DEF Q
  <2>1. QED
    BY <1>1, <1>2, NatInductionSet
<1>4. ASSUME NEW s \in SUBSET S
      PROVE  s \in P
  <2>1. Cardinality(s) \in Nat
    BY FS_Subset, FS_CardinalityType
  <2>2. QED
    BY <1>3, <2>1
<1>5. QED
  BY <1>4

(* A function that is defined by taking one element after the other away from *)
(* a finite set: g combines an element with what the rest gives, c chooses the *)
(* element, and R says what a set may give.                                    *)

Iterates(iter, S, base, c, g) ==
  iter = [s \in SUBSET S |-> IF s = {} THEN base ELSE g[<<c[s], iter[s \ {c[s]}]>>]]

LEMMA IterationExists ==
  ASSUME NEW S, IsFiniteSet(S), NEW base, NEW c, NEW g,
         \A s \in SUBSET S : s # {} => c[s] \in s
  PROVE  \E iter : Iterates(iter, S, base, c, g)
<1> DEFINE UpTo(n) == {s \in SUBSET S : Cardinality(s) <= n}
           Good(h, n) == h = [s \in UpTo(n) |->
                                IF s = {} THEN base ELSE g[<<c[s], h[s \ {c[s]}]>>]]
           Q == {n \in Nat : \E h : Good(h, n)}
<1>f. \A s \in SUBSET S : IsFiniteSet(s) /\ Cardinality(s) \in Nat
  BY FS_Subset, FS_CardinalityType
<1>t. \A s \in SUBSET S : s # {} => Cardinality(s \ {c[s]}) = Cardinality(s) - 1
  BY <1>f, FS_RemoveElement
<1>1. 0 \in Q
  <2> DEFINE h == [s \in UpTo(0) |-> base]
  <2>1. ASSUME NEW s \in UpTo(0)
        PROVE  s = {}
    <3>1. IsFiniteSet(s) /\ Cardinality(s) = 0
      <4>1. s \in SUBSET S /\ Cardinality(s) <= 0
        OBVIOUS
      <4>2. QED
        BY <4>1, <1>f
    <3>2. QED
      BY <3>1, FS_EmptySet
  <2>2. Good(h, 0)
    BY <2>1
  <2>3. QED
    BY <2>2
<1>2. ASSUME NEW n \in Nat, n \in Q
      PROVE  n + 1 \in Q
  <2>1. PICK h : Good(h, n)
    BY <1>2
  <2> DEFINE k == [s \in UpTo(n + 1) |-> IF s = {} THEN base ELSE g[<<c[s], h[s \ {c[s]}]>>]]
  <2>2. ASSUME NEW s \in UpTo(n + 1), s # {}
        PROVE  k[s \ {c[s]}] = h[s \ {c[s]}]
    <3>1. s \ {c[s]} \in UpTo(n) /\ s \ {c[s]} \in UpTo(n + 1)
      <4>1. s \in SUBSET S /\ s \ {c[s]} \in SUBSET S /\ Cardinality(s) <= n + 1
        OBVIOUS
      <4>2. Cardinality(s) \in Nat /\ Cardinality(s \ {c[s]}) = Cardinality(s) - 1
        BY <2>2, <4>1, <1>f, <1>t
      <4>3. QED
        BY <4>1, <4>2
    <3>2. QED
      BY <3>1, <2>1
  <2>3. Good(k, n + 1)
    BY <2>2
  <2> HIDE DEF k, Good
  <2>4. QED
    BY <2>3
<1>3. Cardinality(S) \in Q
  <2>1. Nat \subseteq Q
    <3> HIDE DEF Q
    <3>1. QED
      BY <1>1, <1>2, NatInductionSet
  <2>2. QED
    BY <2>1, <1>f
<1>4. PICK h : Good(h, Cardinality(S))
  BY <1>3
<1>5. UpTo(Cardinality(S)) = SUBSET S
  BY <1>f, FS_Subset
<1>6. QED
  BY <1>4, <1>5 DEF Iterates
\* If g takes what the rest may give to what the set may give, the function has
\* only values that its sets may give.
LEMMA IterationTyped ==
  ASSUME NEW S, IsFiniteSet(S), NEW base, NEW c, NEW g, NEW R,
         \A s \in SUBSET S : s # {} => c[s] \in s,
         base \in R[{}],
         \A s \in SUBSET S : s # {} =>
            \A v \in R[s \ {c[s]}] : g[<<c[s], v>>] \in R[s]
  PROVE  \E iter : /\ Iterates(iter, S, base, c, g)
                   /\ \A s \in SUBSET S : iter[s] \in R[s]
<1>1. PICK iter : Iterates(iter, S, base, c, g)
  BY IterationExists
<1> DEFINE P == {s \in SUBSET S : iter[s] \in R[s]}
<1>2. \A s \in SUBSET S :
        iter[s] = IF s = {} THEN base ELSE g[<<c[s], iter[s \ {c[s]}]>>]
  BY <1>1, Zenon DEF Iterates
<1>3. {} \in P
  BY <1>2
<1>4. ASSUME NEW s \in SUBSET S, s # {}, s \ {c[s]} \in P
      PROVE  s \in P
  <2>1. iter[s] = g[<<c[s], iter[s \ {c[s]}]>>]
    BY <1>2, <1>4
  <2>2. iter[s \ {c[s]}] \in R[s \ {c[s]}]
    BY <1>4
  <2>3. QED
    BY <1>4, <2>1, <2>2
<1>5. SUBSET S \subseteq P
  <2>1. \A s \in SUBSET S : s # {} => \E x \in s : s \ {x} \in P => s \in P
    BY <1>4
  <2> HIDE DEF P
  <2>2. QED
    BY <1>3, <2>1, SubsetInduction
<1>6. QED
  BY <1>1, <1>5

-----------------------------------------------------------------------------
(* Queues *)

LEMMA AppendIs ==
  ASSUME NEW S, NEW q \in Seq(S), NEW e \in S
  PROVE  /\ Append(q, e) \in Seq(S)
         /\ Len(Append(q, e)) = Len(q) + 1
         /\ \A i \in 1 .. Len(q) : Append(q, e)[i] = q[i]
         /\ Append(q, e)[Len(q) + 1] = e
         /\ Last(Append(q, e)) = e
  BY DEF Last

LEMMA ConcatIs ==
  ASSUME NEW S, NEW q \in Seq(S), NEW r \in Seq(S)
  PROVE  /\ q \o r \in Seq(S)
         /\ Len(q \o r) = Len(q) + Len(r)
         /\ \A i \in 1 .. Len(q) : (q \o r)[i] = q[i]
         /\ \A i \in 1 .. Len(r) : (q \o r)[Len(q) + i] = r[i]
  OBVIOUS

LEMMA TailIs ==
  ASSUME NEW S, NEW q \in Seq(S), q # <<>>
  PROVE  /\ Tail(q) \in Seq(S) /\ Head(q) = q[1] /\ Head(q) \in S
         /\ Len(Tail(q)) = Len(q) - 1 /\ Len(q) \in Nat \ {0}
         /\ \A i \in 1 .. Len(q) - 1 : Tail(q)[i] = q[i + 1]
         /\ Len(q) = 1 <=> Tail(q) = <<>>
         /\ Len(q) = 1 => Last(q) = Head(q)
         /\ Len(q) # 1 => Last(Tail(q)) = Last(q)
<1>1. /\ Tail(q) \in Seq(S) /\ Head(q) = q[1] /\ Head(q) \in S
      /\ Len(Tail(q)) = Len(q) - 1 /\ Len(q) \in Nat \ {0}
      /\ \A i \in 1 .. Len(q) - 1 : Tail(q)[i] = q[i + 1]
  OBVIOUS
<1>2. Len(q) = 1 <=> Tail(q) = <<>>
  <2>1. Tail(q) = <<>> <=> Len(Tail(q)) = 0
    BY <1>1, EmptySeq
  <2>2. QED
    BY <1>1, <2>1
<1>3. CASE Len(q) # 1
  <2>1. Len(q) - 1 \in 1 .. Len(q) - 1
    BY <1>1, <1>3
  <2>2. QED
    BY <1>1, <1>2, <1>3, <2>1 DEF Last
<1>4. CASE Len(q) = 1
  BY <1>1, <1>2, <1>4 DEF Last
<1>5. QED
  BY <1>3, <1>4, <1>1, <1>2

-----------------------------------------------------------------------------
(* The order of paths *)

LEMMA BeforeIrreflexive ==
  ASSUME NEW p \in Path
  PROVE  ~Before(p, p)
  BY DEF Before, Path

LEMMA BeforeTransitive ==
  ASSUME NEW p \in Path, NEW q \in Path, NEW r \in Path, Before(p, q), Before(q, r)
  PROVE  Before(p, r)
<1>1. PICK k \in 1 .. Len(q) : /\ k <= Len(p) + 1
                               /\ \A i \in 1 .. k - 1 : p[i] = q[i]
                               /\ k <= Len(p) => p[k] < q[k]
  BY DEF Before
<1>2. PICK l \in 1 .. Len(r) : /\ l <= Len(q) + 1
                               /\ \A i \in 1 .. l - 1 : q[i] = r[i]
                               /\ l <= Len(q) => q[l] < r[l]
  BY DEF Before
<1>t. /\ Len(p) \in Nat /\ Len(q) \in Nat /\ Len(r) \in Nat
      /\ \A i \in 1 .. Len(p) : p[i] \in Nat
      /\ \A i \in 1 .. Len(q) : q[i] \in Nat
      /\ \A i \in 1 .. Len(r) : r[i] \in Nat
  BY DEF Path
<1>3. CASE l <= k
  <2>1. l <= Len(p) + 1 /\ \A i \in 1 .. l - 1 : p[i] = r[i]
    BY <1>1, <1>2, <1>3, <1>t
  <2>2. l <= Len(p) => p[l] < r[l]
    BY <1>1, <1>2, <1>3, <1>t
  <2>3. QED
    BY <2>1, <2>2 DEF Before
<1>4. CASE k < l
  <2>1. k \in 1 .. Len(r)
    BY <1>1, <1>2, <1>4, <1>t
  <2>2. \A i \in 1 .. k - 1 : p[i] = r[i]
    BY <1>1, <1>2, <1>4, <1>t
  <2>3. k <= Len(p) => p[k] < r[k]
    BY <1>1, <1>2, <1>4, <1>t
  <2>4. QED
    BY <1>1, <2>1, <2>2, <2>3 DEF Before
<1>5. QED
  BY <1>3, <1>4, <1>t

\* Of two paths that differ one comes first: the least index at which they do
\* not agree decides.
LEMMA BeforeTotal ==
  ASSUME NEW p \in Path, NEW q \in Path, p # q
  PROVE  Before(p, q) \/ Before(q, p)
<1> DEFINE Differ == {i \in Nat \ {0} : \/ i > Len(p) /\ i <= Len(q)
                                        \/ i > Len(q) /\ i <= Len(p)
                                        \/ i <= Len(p) /\ i <= Len(q) /\ p[i] # q[i]}
<1>t. /\ Len(p) \in Nat /\ Len(q) \in Nat
      /\ \A i \in 1 .. Len(p) : p[i] \in Nat
      /\ \A i \in 1 .. Len(q) : q[i] \in Nat
  BY DEF Path
<1>1. Differ # {}
  <2>1. CASE Len(p) # Len(q)
    <3>1. CASE Len(p) < Len(q)
      <4>1. Len(q) \in Differ
        BY <3>1, <1>t
      <4>2. QED
        BY <4>1
    <3>2. CASE Len(q) < Len(p)
      <4>1. Len(p) \in Differ
        BY <3>2, <1>t
      <4>2. QED
        BY <4>1
    <3>3. QED
      BY <2>1, <3>1, <3>2, <1>t
  <2>2. CASE Len(p) = Len(q)
    <3>1. PICK i \in 1 .. Len(p) : p[i] # q[i]
      BY <2>2 DEF Path
    <3>2. i \in Differ
      BY <3>1, <2>2, <1>t
    <3>3. QED
      BY <3>2
  <2>3. QED
    BY <2>1, <2>2
<1>2. PICK k \in Differ : \A i \in Differ : k <= i
  <2>1. Differ \in SUBSET Nat
    OBVIOUS
  <2> HIDE DEF Differ
  <2>2. QED
    BY <1>1, <2>1, LeastNatural
<1>3. \A i \in 1 .. k - 1 : i \notin Differ
  <2>1. Differ \in SUBSET Nat
    OBVIOUS
  <2> HIDE DEF Differ
  <2>2. QED
    BY <1>2, <2>1
<1>4. /\ k \in Nat \ {0} /\ k <= Len(p) + 1 /\ k <= Len(q) + 1
      /\ \A i \in 1 .. k - 1 : i <= Len(p) /\ i <= Len(q) /\ p[i] = q[i]
  <2>1. k \in Nat \ {0}
    OBVIOUS
  <2>2. \A i \in 1 .. k - 1 : (i <= Len(p) <=> i <= Len(q)) /\ (i <= Len(p) => p[i] = q[i])
    BY <1>3, <1>t, <2>1
  <2>3. k <= Len(p) \/ k <= Len(q)
    OBVIOUS
  <2>4. QED
    BY <2>1, <2>2, <2>3, <1>t
<1>5. CASE k <= Len(q) /\ (k <= Len(p) => p[k] < q[k])
  BY <1>4, <1>5, <1>t DEF Before
<1>6. CASE k <= Len(p) /\ (k <= Len(q) => q[k] < p[k])
  BY <1>4, <1>6, <1>t DEF Before
<1>7. QED
  BY <1>4, <1>5, <1>6, <1>t

\* A directory comes before those inside it.
LEMMA ParentsFirst ==
  ASSUME NEW D, D \subseteq Path, NEW V,
         NEW path \in Path, NEW d \in Path, NEW e \in Path,
         StartsWith(path, d), StartsWith(path, e), Len(d) < Len(e)
  PROVE  Before(d, e)
<1>1. Len(d) \in Nat /\ Len(e) \in Nat
  BY DEF Path
<1>2. \A i \in 1 .. Len(d) : d[i] = e[i]
  BY <1>1 DEF StartsWith
<1>3. Len(d) + 1 \in 1 .. Len(e)
  BY <1>1
<1>4. QED
  BY <1>1, <1>2, <1>3 DEF Before

-----------------------------------------------------------------------------
(* Lists of items *)

PathItems(D, V) == [path : D, value : V]

LEMMA ItemIs ==
  ASSUME NEW d, NEW v
  PROVE  Item(d, v).path = d /\ Item(d, v).value = v
  BY DEF Item

LEMMA ItemOfPathItems ==
  ASSUME NEW D, NEW V, NEW d \in D, NEW v \in V
  PROVE  Item(d, v) \in PathItems(D, V)
  BY DEF Item, PathItems

LEMMA ListTyped ==
  ASSUME NEW D, D \subseteq Path, NEW V,
         NEW list \in Seq(PathItems(D, V)), NEW i \in 1 .. Len(list)
  PROVE  /\ list[i] \in PathItems(D, V)
         /\ list[i].path \in D /\ list[i].path \in Path
         /\ list[i].value \in V
<1>1. list[i] \in PathItems(D, V)
  OBVIOUS
<1>2. list[i].path \in D /\ list[i].value \in V
  BY <1>1 DEF PathItems
<1>3. QED
  BY <1>1, <1>2

\* In a sorted list a path is the path of one item.
LEMMA SortedUnique ==
  ASSUME NEW D, D \subseteq Path, NEW V,
         NEW list \in Seq(PathItems(D, V)), Sorted(list),
         NEW i \in DOMAIN list, NEW j \in DOMAIN list, list[i].path = list[j].path
  PROVE  i = j
<1>1. list[i].path \in Path /\ list[j].path \in Path
  BY ListTyped
<1>2. i \in Nat /\ j \in Nat
  OBVIOUS
<1>3. ~ i < j /\ ~ j < i
  BY <1>1, BeforeIrreflexive DEF Sorted
<1>4. QED
  BY <1>2, <1>3

\* IndexOf finds the item.
LEMMA IndexOfIs ==
  ASSUME NEW D, D \subseteq Path, NEW V,
         NEW list \in Seq(PathItems(D, V)), Sorted(list), NEW i \in DOMAIN list
  PROVE  /\ list[i].path \in Keys(list)
         /\ IndexOf(list, list[i].path) = i
<1>1. list[i].path \in Keys(list)
  BY DEF Keys
<1>2. /\ IndexOf(list, list[i].path) \in DOMAIN list
      /\ list[IndexOf(list, list[i].path)].path = list[i].path
  BY DEF IndexOf
<1>3. QED
  BY <1>1, <1>2, SortedUnique

\* There is a place for a new path, and all items before it come before the
\* path, all items behind it after.
LEMMA InsertionPointIs ==
  ASSUME NEW D, D \subseteq Path, NEW V,
         NEW list \in Seq(PathItems(D, V)), Sorted(list), NEW d \in D, d \notin Keys(list)
  PROVE  /\ InsertionPoint(list, d) \in 1 .. Len(list) + 1
         /\ \A i \in 1 .. InsertionPoint(list, d) - 1 : Before(list[i].path, d)
         /\ \A i \in InsertionPoint(list, d) .. Len(list) : Before(d, list[i].path)
<1> DEFINE Points == {k \in 1 .. Len(list) + 1 : \A i \in k .. Len(list) : Before(d, list[i].path)}
<1>t. /\ Len(list) \in Nat /\ d \in Path
      /\ \A i \in 1 .. Len(list) : list[i].path \in Path /\ list[i].path # d
  BY ListTyped DEF Keys
<1>1. Points \in SUBSET Nat /\ Len(list) + 1 \in Points
  BY <1>t
<1>2. PICK m \in Points : \A n \in Points : m <= n
  <2> HIDE DEF Points
  <2>1. QED
    BY <1>1, LeastNatural
<1>3. \A i \in 1 .. m - 1 : Before(list[i].path, d)
  <2>1. CASE m = 1
    BY <2>1
  <2>2. CASE m # 1
    <3>1. m - 1 \in 1 .. Len(list) /\ m - 1 \notin Points
      <4>1. m \in 1 .. Len(list) + 1 /\ m - 1 \in 1 .. Len(list)
        BY <1>2, <1>t, <2>2
      <4>2. Points \subseteq Nat /\ m \in Nat
        BY <1>t, <4>1
      <4> HIDE DEF Points
      <4>3. QED
        BY <1>2, <4>1, <4>2
    <3>2. ~ Before(d, list[m - 1].path)
      BY <3>1, <1>2, <1>t
    <3>3. Before(list[m - 1].path, d)
      BY <3>1, <3>2, <1>t, BeforeTotal
    <3>4. ASSUME NEW i \in 1 .. m - 1, i # m - 1
          PROVE  Before(list[i].path, d)
      <4>1. Before(list[i].path, list[m - 1].path)
        BY <3>1, <3>4, <1>t DEF Sorted
      <4>2. QED
        BY <4>1, <3>1, <3>3, <1>t, BeforeTransitive
    <3>5. QED
      BY <3>3, <3>4
  <2>3. QED
    BY <2>1, <2>2
<1>4. \E k \in 1 .. Len(list) + 1 :
        /\ \A i \in 1 .. k - 1 : Before(list[i].path, d)
        /\ \A i \in k .. Len(list) : Before(d, list[i].path)
  BY <1>2, <1>3
<1>5. QED
  BY <1>4 DEF InsertionPoint

LEMMA InsertAtIs ==
  ASSUME NEW S, NEW list \in Seq(S), NEW k \in 1 .. Len(list) + 1, NEW e \in S
  PROVE  /\ InsertAt(list, k, e) \in Seq(S)
         /\ Len(InsertAt(list, k, e)) = Len(list) + 1
         /\ \A i \in 1 .. Len(list) + 1 :
              InsertAt(list, k, e)[i] = IF i < k THEN list[i]
                                        ELSE IF i = k THEN e ELSE list[i - 1]
<1> DEFINE front == SubSeq(list, 1, k - 1)
           mid   == front \o <<e>>
           back  == SubSeq(list, k, Len(list))
<1>1. /\ front \in Seq(S) /\ Len(front) = k - 1
      /\ \A i \in 1 .. k - 1 : front[i] = list[i]
  OBVIOUS
<1>2. /\ back \in Seq(S) /\ Len(back) = Len(list) - k + 1
      /\ \A i \in 1 .. Len(list) - k + 1 : back[i] = list[k + i - 1]
  OBVIOUS
<1>3. InsertAt(list, k, e) = mid \o back
  BY DEF InsertAt
<1> HIDE DEF front, back
<1>4. /\ mid \in Seq(S) /\ Len(mid) = k
      /\ \A i \in 1 .. k - 1 : mid[i] = front[i]
      /\ mid[k] = e
  BY <1>1
<1> HIDE DEF mid
<1>5. /\ mid \o back \in Seq(S)
      /\ Len(mid \o back) = Len(mid) + Len(back)
      /\ \A i \in 1 .. Len(mid) + Len(back) :
           (mid \o back)[i] = IF i <= Len(mid) THEN mid[i] ELSE back[i - Len(mid)]
  <2>1. mid \in Seq(S) /\ back \in Seq(S)
    BY <1>2, <1>4
  <2>2. QED
    BY <2>1, ConcatProperties
<1>6. Len(mid) = k /\ Len(mid) + Len(back) = Len(list) + 1
  BY <1>2, <1>4
<1>7. ASSUME NEW i \in 1 .. Len(list) + 1
      PROVE  (mid \o back)[i] = IF i < k THEN list[i] ELSE IF i = k THEN e ELSE list[i - 1]
  <2>1. CASE i < k
    BY <2>1, <1>1, <1>4, <1>5, <1>6
  <2>2. CASE i = k
    BY <2>2, <1>4, <1>5, <1>6
  <2>3. CASE i > k
    <3>1. (mid \o back)[i] = back[i - k]
      BY <2>3, <1>5, <1>6
    <3>2. back[i - k] = list[i - 1]
      BY <2>3, <1>2
    <3>3. QED
      BY <2>3, <3>1, <3>2
  <2>4. i < k \/ i = k \/ i > k
    OBVIOUS
  <2>5. QED
    BY <2>1, <2>2, <2>3, <2>4, Zenon
<1>8. QED
  BY <1>3, <1>5, <1>6, <1>7

LEMMA RemoveAtIs ==
  ASSUME NEW S, NEW list \in Seq(S), NEW k \in 1 .. Len(list)
  PROVE  /\ RemoveAt(list, k) \in Seq(S)
         /\ Len(RemoveAt(list, k)) = Len(list) - 1
         /\ \A i \in 1 .. Len(list) - 1 :
              RemoveAt(list, k)[i] = IF i < k THEN list[i] ELSE list[i + 1]
<1> DEFINE front == SubSeq(list, 1, k - 1)
           back  == SubSeq(list, k + 1, Len(list))
<1>1. /\ front \in Seq(S) /\ Len(front) = k - 1
      /\ \A i \in 1 .. k - 1 : front[i] = list[i]
  OBVIOUS
<1>2. /\ back \in Seq(S) /\ Len(back) = Len(list) - k
      /\ \A i \in 1 .. Len(list) - k : back[i] = list[k + i]
  OBVIOUS
<1>3. RemoveAt(list, k) = front \o back
  BY DEF RemoveAt
<1> HIDE DEF front, back
<1>4. /\ front \o back \in Seq(S) /\ Len(front \o back) = Len(list) - 1
      /\ \A i \in 1 .. Len(list) - 1 :
           (front \o back)[i] = IF i <= k - 1 THEN front[i] ELSE back[i - (k - 1)]
  <2>1. /\ front \o back \in Seq(S)
        /\ Len(front \o back) = Len(front) + Len(back)
        /\ \A i \in 1 .. Len(front) + Len(back) :
             (front \o back)[i] = IF i <= Len(front) THEN front[i] ELSE back[i - Len(front)]
    <3>1. front \in Seq(S) /\ back \in Seq(S)
      BY <1>1, <1>2
    <3>2. QED
      BY <3>1, ConcatProperties
  <2>2. Len(front) = k - 1 /\ Len(front) + Len(back) = Len(list) - 1
    BY <1>1, <1>2
  <2>3. QED
    BY <2>1, <2>2
<1>5. ASSUME NEW i \in 1 .. Len(list) - 1
      PROVE  (front \o back)[i] = IF i < k THEN list[i] ELSE list[i + 1]
  <2>1. CASE i < k
    BY <2>1, <1>1, <1>4
  <2>2. CASE ~ i < k
    <3>1. i - (k - 1) \in 1 .. Len(list) - k /\ k + (i - (k - 1)) = i + 1
      BY <2>2
    <3>2. back[i - (k - 1)] = list[i + 1]
      BY <3>1, <1>2
    <3>3. (front \o back)[i] = back[i - (k - 1)]
      BY <2>2, <1>4
    <3>4. QED
      BY <2>2, <3>2, <3>3
  <2>3. QED
    BY <2>1, <2>2
<1>6. QED
  BY <1>3, <1>4, <1>5

\* What adding does to the list: it stays sorted, and the item replaces the one
\* of its path.
LEMMA AddedIs ==
  ASSUME NEW D, D \subseteq Path, NEW V,
         NEW list \in Seq(PathItems(D, V)), Sorted(list),
         NEW d \in D, NEW v, Item(d, v) \in PathItems(D, V)
  PROVE  /\ Added(list, d, v) \in Seq(PathItems(D, V))
         /\ Sorted(Added(list, d, v))
         /\ \A x : x \in Range(Added(list, d, v)) <=>
                   \/ x \in Range(list) /\ x.path # d
                   \/ x = Item(d, v)
<1> DEFINE new == Added(list, d, v)
<1>t. Len(list) \in Nat /\ DOMAIN list = 1 .. Len(list) /\ Item(d, v) \in PathItems(D, V)
  OBVIOUS
<1>1. CASE d \in Keys(list)
  <2>1. PICK k \in 1 .. Len(list) : list[k].path = d
    BY <1>1, <1>t DEF Keys
  <2>2. IndexOf(list, d) = k
    <3>1. k \in DOMAIN list
      BY <1>t
    <3>2. IndexOf(list, list[k].path) = k
      BY <3>1, IndexOfIs
    <3>3. QED
      BY <2>1, <3>2, Zenon
  <2>3. new = [list EXCEPT ![k] = Item(d, v)]
    BY <1>1, <2>2 DEF Added
  <2>4. new \in Seq(PathItems(D, V)) /\ Len(new) = Len(list)
    BY <2>3, <1>t
  <2>5. \A i \in 1 .. Len(list) : new[i] = IF i = k THEN Item(d, v) ELSE list[i]
    BY <2>3, <1>t
  <2>6. \A i \in 1 .. Len(list) : new[i].path = list[i].path
    BY <2>1, <2>5, ItemIs
  <2>7. Sorted(new)
    BY <2>4, <2>6, <1>t DEF Sorted
  <2>8. \A i \in 1 .. Len(list) : i # k => list[i].path # d
    BY <2>1, <1>t, SortedUnique
  <2>9. Range(new) = {x \in Range(list) : x.path # d} \cup {Item(d, v)}
    <3>1. ASSUME NEW x \in Range(new)
          PROVE  x \in {y \in Range(list) : y.path # d} \cup {Item(d, v)}
      BY <3>1, <2>4, <2>5, <2>8, <1>t DEF Range
    <3>2. ASSUME NEW x \in Range(list), x.path # d
          PROVE  x \in Range(new)
      BY <3>2, <2>1, <2>4, <2>5, <1>t DEF Range
    <3>3. Item(d, v) \in Range(new)
      BY <2>4, <2>5, <1>t DEF Range
    <3>4. QED
      BY <3>1, <3>2, <3>3
  <2>10. QED
    BY <2>4, <2>7, <2>9
<1>2. CASE d \notin Keys(list)
  <2> DEFINE k == InsertionPoint(list, d)
  <2>1. /\ k \in 1 .. Len(list) + 1
        /\ \A i \in 1 .. k - 1 : Before(list[i].path, d)
        /\ \A i \in k .. Len(list) : Before(d, list[i].path)
    BY <1>2, InsertionPointIs
  <2>2. new = InsertAt(list, k, Item(d, v))
    BY <1>2 DEF Added
  <2> HIDE DEF k
  <2>3. /\ new \in Seq(PathItems(D, V))
        /\ Len(new) = Len(list) + 1
        /\ \A i \in 1 .. Len(list) + 1 :
             new[i] = IF i < k THEN list[i] ELSE IF i = k THEN Item(d, v) ELSE list[i - 1]
    <3> HIDE DEF new
    <3>1. /\ InsertAt(list, k, Item(d, v)) \in Seq(PathItems(D, V))
          /\ Len(InsertAt(list, k, Item(d, v))) = Len(list) + 1
          /\ \A i \in 1 .. Len(list) + 1 :
               InsertAt(list, k, Item(d, v))[i] =
                 IF i < k THEN list[i] ELSE IF i = k THEN Item(d, v) ELSE list[i - 1]
      <4>1. k \in 1 .. Len(list) + 1 /\ Item(d, v) \in PathItems(D, V)
        BY <2>1, <1>t
      <4> HIDE DEF PathItems
      <4>2. QED
        BY <4>1, InsertAtIs
    <3>2. QED
      BY <2>2, <3>1
  <2> HIDE DEF new
  <2>4. Sorted(new)
    <3>1. SUFFICES ASSUME NEW i \in 1 .. Len(list) + 1, NEW j \in 1 .. Len(list) + 1, i < j
                   PROVE  Before(new[i].path, new[j].path)
      BY <2>3 DEF Sorted
    <3>2. CASE j < k
      BY <3>1, <3>2, <2>1, <2>3, <1>t DEF Sorted
    <3>3. CASE j = k
      BY <3>1, <3>3, <2>1, <2>3, <1>t, ItemIs
    <3>4. CASE i < k /\ k < j
      <4>1. new[i] = list[i] /\ new[j] = list[j - 1] /\ i \in 1 .. Len(list) /\ j - 1 \in 1 .. Len(list)
        BY <3>1, <3>4, <2>1, <2>3, <1>t
      <4>2. Before(list[i].path, d) /\ Before(d, list[j - 1].path)
        BY <3>1, <3>4, <2>1, <1>t
      <4>3. list[i].path \in Path /\ list[j - 1].path \in Path /\ d \in Path
        BY <4>1, ListTyped
      <4>4. QED
        BY <4>1, <4>2, <4>3, BeforeTransitive
    <3>5. CASE i = k
      BY <3>1, <3>5, <2>1, <2>3, <1>t, ItemIs
    <3>6. CASE k < i
      <4>1. /\ new[i] = list[i - 1] /\ new[j] = list[j - 1]
            /\ i - 1 \in 1 .. Len(list) /\ j - 1 \in 1 .. Len(list) /\ i - 1 < j - 1
        BY <3>1, <3>6, <2>1, <2>3, <1>t
      <4>2. QED
        BY <4>1, <1>t DEF Sorted
    <3>7. QED
      BY <3>1, <3>2, <3>3, <3>4, <3>5, <3>6, <2>1, <1>t
  <2>5. Range(new) = {x \in Range(list) : x.path # d} \cup {Item(d, v)}
    <3>1. ASSUME NEW x \in Range(new)
          PROVE  x \in {y \in Range(list) : y.path # d} \cup {Item(d, v)}
      <4>1. PICK i \in 1 .. Len(list) + 1 : x = new[i]
        BY <3>1, <2>3 DEF Range
      <4>2. x = Item(d, v) \/ \E j \in 1 .. Len(list) : x = list[j]
        BY <4>1, <2>1, <2>3, <1>t
      <4>3. QED
        BY <4>2, <1>2, <1>t DEF Range, Keys
    <3>2. ASSUME NEW x \in Range(list)
          PROVE  x \in Range(new)
      <4>1. PICK j \in 1 .. Len(list) : x = list[j]
        BY <3>2, <1>t DEF Range
      <4>2. CASE j < k
        <5>1. j \in 1 .. Len(new) /\ new[j] = x
          BY <4>1, <4>2, <2>3, <1>t
        <5>2. QED
          BY <5>1, <2>3 DEF Range
      <4>3. CASE ~ j < k
        <5>1. j + 1 \in 1 .. Len(new) /\ new[j + 1] = x
          BY <4>1, <4>3, <2>1, <2>3, <1>t
        <5>2. QED
          BY <5>1, <2>3 DEF Range
      <4>4. QED
        BY <4>2, <4>3
    <3>3. Item(d, v) \in Range(new)
      BY <2>1, <2>3, <1>t DEF Range
    <3>4. QED
      BY <3>1, <3>2, <3>3
  <2>6. QED
    BY <2>3, <2>4, <2>5 DEF new
<1>3. QED
  BY <1>1, <1>2

LEMMA RemovedIs ==
  ASSUME NEW D, D \subseteq Path, NEW V,
         NEW list \in Seq(PathItems(D, V)), Sorted(list), NEW d \in D
  PROVE  /\ Removed(list, d) \in Seq(PathItems(D, V))
         /\ Sorted(Removed(list, d))
         /\ \A x : x \in Range(Removed(list, d)) <=> x \in Range(list) /\ x.path # d
<1> DEFINE new == Removed(list, d)
<1>t. Len(list) \in Nat /\ DOMAIN list = 1 .. Len(list)
  OBVIOUS
<1>1. CASE d \in Keys(list)
  <2>1. PICK k \in 1 .. Len(list) : list[k].path = d
    BY <1>1, <1>t DEF Keys
  <2>2. IndexOf(list, d) = k
    <3>1. k \in DOMAIN list
      BY <1>t
    <3>2. IndexOf(list, list[k].path) = k
      BY <3>1, IndexOfIs
    <3>3. QED
      BY <2>1, <3>2, Zenon
  <2>3. new = RemoveAt(list, k)
    BY <1>1, <2>2 DEF Removed
  <2>4. /\ new \in Seq(PathItems(D, V))
        /\ Len(new) = Len(list) - 1
        /\ \A i \in 1 .. Len(list) - 1 : new[i] = IF i < k THEN list[i] ELSE list[i + 1]
    BY <2>1, <2>3, <1>t, RemoveAtIs
  <2> HIDE DEF new
  <2>5. Sorted(new)
    <3>1. SUFFICES ASSUME NEW i \in 1 .. Len(list) - 1, NEW j \in 1 .. Len(list) - 1, i < j
                   PROVE  Before(new[i].path, new[j].path)
      BY <2>4, <1>t DEF Sorted
    <3>2. PICK f \in 1 .. Len(list) : new[i] = list[f] /\ f = IF i < k THEN i ELSE i + 1
      BY <3>1, <2>1, <2>4, <1>t
    <3>3. PICK g \in 1 .. Len(list) : new[j] = list[g] /\ g = IF j < k THEN j ELSE j + 1
      BY <3>1, <2>1, <2>4, <1>t
    <3>4. f < g
      BY <3>1, <3>2, <3>3, <2>1, <1>t
    <3>5. Before(list[f].path, list[g].path)
      BY <3>4, <1>t DEF Sorted
    <3>6. QED
      BY <3>2, <3>3, <3>5
  <2>6. \A i \in 1 .. Len(list) : i # k => list[i].path # d
    BY <2>1, <1>t, SortedUnique
  <2>7. Range(new) = {x \in Range(list) : x.path # d}
    <3>1. ASSUME NEW x \in Range(new)
          PROVE  x \in Range(list) /\ x.path # d
      <4>1. PICK i \in 1 .. Len(list) - 1 : x = new[i]
        BY <3>1, <2>4, <1>t DEF Range
      <4>2. \E j \in 1 .. Len(list) : j # k /\ x = list[j]
        BY <4>1, <2>1, <2>4, <1>t
      <4>3. QED
        BY <4>2, <2>6, <1>t DEF Range
    <3>2. ASSUME NEW x \in Range(list), x.path # d
          PROVE  x \in Range(new)
      <4>1. PICK j \in 1 .. Len(list) : x = list[j]
        BY <3>2, <1>t DEF Range
      <4>2. CASE j < k
        <5>1. j \in 1 .. Len(new) /\ new[j] = x
          BY <4>1, <4>2, <2>1, <2>4, <1>t
        <5>2. QED
          BY <5>1, <2>4 DEF Range
      <4>3. CASE k < j
        <5>1. j - 1 \in 1 .. Len(new) /\ new[j - 1] = x
          BY <4>1, <4>3, <2>1, <2>4, <1>t
        <5>2. QED
          BY <5>1, <2>4 DEF Range
      <4>4. QED
        BY <4>1, <4>2, <4>3, <3>2, <2>1
    <3>3. QED
      BY <3>1, <3>2
  <2>8. QED
    BY <2>4, <2>5, <2>7 DEF new
<1>2. CASE d \notin Keys(list)
  BY <1>2, <1>t DEF Removed, Keys, Range
<1>3. QED
  BY <1>1, <1>2

-----------------------------------------------------------------------------
(* The list as a map *)

MapOf(list) == [d \in Keys(list) |-> list[IndexOf(list, d)].value]

LEMMA MapOfIs ==
  ASSUME NEW D, D \subseteq Path, NEW V,
         NEW list \in Seq(PathItems(D, V)), Sorted(list)
  PROVE  /\ DOMAIN MapOf(list) = Keys(list)
         /\ \A x \in Range(list) : x.path \in Keys(list) /\ MapOf(list)[x.path] = x.value
         /\ \A d \in Keys(list) : \E x \in Range(list) : x.path = d
<1>1. DOMAIN MapOf(list) = Keys(list)
  BY DEF MapOf
<1>2. ASSUME NEW x \in Range(list)
      PROVE  x.path \in Keys(list) /\ MapOf(list)[x.path] = x.value
  <2>1. PICK i \in DOMAIN list : x = list[i]
    BY DEF Range
  <2>2. x.path \in Keys(list) /\ IndexOf(list, x.path) = i
    <3>1. list[i].path \in Keys(list) /\ IndexOf(list, list[i].path) = i
      BY <2>1, IndexOfIs
    <3>2. QED
      BY <2>1, <3>1, Zenon
  <2>3. QED
    BY <2>1, <2>2 DEF MapOf
<1>3. \A d \in Keys(list) : \E x \in Range(list) : x.path = d
  BY DEF Keys, Range
<1>4. QED
  BY <1>1, <1>2, <1>3

MapWith(map, d, v) == [e \in DOMAIN map \cup {d} |-> IF e = d THEN v ELSE map[e]]

LEMMA MapOfAdded ==
  ASSUME NEW D, D \subseteq Path, NEW V,
         NEW list \in Seq(PathItems(D, V)), Sorted(list),
         NEW d \in D, NEW v, Item(d, v) \in PathItems(D, V)
  PROVE  MapOf(Added(list, d, v)) = MapWith(MapOf(list), d, v)
<1> DEFINE new == Added(list, d, v)
           map == MapWith(MapOf(list), d, v)
<1>1. /\ new \in Seq(PathItems(D, V)) /\ Sorted(new)
      /\ \A x : x \in Range(new) <=>
                \/ x \in Range(list) /\ x.path # d
                \/ x = Item(d, v)
  BY AddedIs
<1> HIDE DEF new
<1>2. /\ DOMAIN MapOf(new) = Keys(new)
      /\ \A x \in Range(new) : x.path \in Keys(new) /\ MapOf(new)[x.path] = x.value
      /\ \A e \in Keys(new) : \E x \in Range(new) : x.path = e
  BY <1>1, MapOfIs
<1>3. /\ DOMAIN MapOf(list) = Keys(list)
      /\ \A x \in Range(list) : x.path \in Keys(list) /\ MapOf(list)[x.path] = x.value
      /\ \A e \in Keys(list) : \E x \in Range(list) : x.path = e
  BY MapOfIs
<1>4. Item(d, v).path = d /\ Item(d, v).value = v
  BY ItemIs
<1>5. Keys(new) = Keys(list) \cup {d}
  BY <1>1, <1>2, <1>3, <1>4
<1>6. ASSUME NEW e \in Keys(new)
      PROVE  MapOf(new)[e] = IF e = d THEN v ELSE MapOf(list)[e]
  <2>1. PICK x \in Range(new) : x.path = e
    BY <1>2
  <2>2. MapOf(new)[e] = x.value
    BY <1>2, <2>1
  <2>3. CASE x = Item(d, v)
    BY <2>1, <2>2, <2>3, <1>4
  <2>4. CASE x \in Range(list) /\ x.path # d
    BY <2>1, <2>2, <2>4, <1>3
  <2>5. QED
    BY <2>3, <2>4, <1>1
<1>7. MapOf(new) = [e \in Keys(new) |-> MapOf(new)[e]]
  BY DEF MapOf
<1>8. MapOf(new) = map
  BY <1>3, <1>5, <1>6, <1>7 DEF MapWith
<1>9. QED
  BY <1>8 DEF new

LEMMA MapOfRemoved ==
  ASSUME NEW D, D \subseteq Path, NEW V,
         NEW list \in Seq(PathItems(D, V)), Sorted(list), NEW d \in D
  PROVE  MapOf(Removed(list, d)) = Restrict(MapOf(list), DOMAIN MapOf(list) \ {d})
<1> DEFINE new == Removed(list, d)
<1>1. /\ new \in Seq(PathItems(D, V)) /\ Sorted(new)
      /\ \A x : x \in Range(new) <=> x \in Range(list) /\ x.path # d
  BY RemovedIs
<1> HIDE DEF new
<1>2. /\ DOMAIN MapOf(new) = Keys(new)
      /\ \A x \in Range(new) : x.path \in Keys(new) /\ MapOf(new)[x.path] = x.value
      /\ \A e \in Keys(new) : \E x \in Range(new) : x.path = e
  BY <1>1, MapOfIs
<1>3. /\ DOMAIN MapOf(list) = Keys(list)
      /\ \A x \in Range(list) : x.path \in Keys(list) /\ MapOf(list)[x.path] = x.value
      /\ \A e \in Keys(list) : \E x \in Range(list) : x.path = e
  BY MapOfIs
<1>4. Keys(new) = Keys(list) \ {d}
  BY <1>1, <1>2, <1>3
<1>5. \A e \in Keys(new) : MapOf(new)[e] = MapOf(list)[e]
  BY <1>1, <1>2, <1>3
<1>6. MapOf(new) = [e \in Keys(new) |-> MapOf(new)[e]]
  BY DEF MapOf
<1>7. MapOf(new) = Restrict(MapOf(list), DOMAIN MapOf(list) \ {d})
  BY <1>3, <1>4, <1>5, <1>6 DEF Restrict
<1>8. QED
  BY <1>7 DEF new

\* New values for some of the items.
Updated(list, path, v) ==
  [i \in DOMAIN list |-> IF i \in Matches(list, path) THEN Item(list[i].path, v) ELSE list[i]]

MapUpdatedTo(map, path, v) ==
  [d \in DOMAIN map |-> IF StartsWith(path, d) THEN v ELSE map[d]]

LEMMA UpdatedIs ==
  ASSUME NEW D, D \subseteq Path, NEW V,
         NEW list \in Seq(PathItems(D, V)), Sorted(list), NEW path \in Path,
         NEW v, \A d \in D : Item(d, v) \in PathItems(D, V)
  PROVE  /\ Updated(list, path, v) \in Seq(PathItems(D, V))
         /\ Sorted(Updated(list, path, v))
         /\ MapOf(Updated(list, path, v)) = MapUpdatedTo(MapOf(list), path, v)
<1> DEFINE new == Updated(list, path, v)
<1>t. Len(list) \in Nat /\ DOMAIN list = 1 .. Len(list)
  OBVIOUS
<1>1. ASSUME NEW i \in 1 .. Len(list)
      PROVE  /\ new[i] \in PathItems(D, V)
             /\ new[i].path = list[i].path
             /\ new[i].value = IF StartsWith(path, list[i].path) THEN v ELSE list[i].value
  <2>1. new[i] = IF StartsWith(path, list[i].path) THEN Item(list[i].path, v) ELSE list[i]
    BY <1>t DEF Updated, Matches
  <2>2. list[i] \in PathItems(D, V) /\ list[i].path \in D
    BY ListTyped
  <2>3. QED
    BY <2>1, <2>2, ItemIs
<1>2. DOMAIN new = 1 .. Len(list)
  BY <1>t DEF Updated
<1>3. new \in Seq(PathItems(D, V)) /\ Len(new) = Len(list)
  <2>1. new = [i \in 1 .. Len(list) |-> new[i]]
    BY <1>t DEF Updated
  <2>2. \A i \in 1 .. Len(list) : new[i] \in PathItems(D, V)
    BY <1>1
  <2> HIDE DEF new
  <2>3. QED
    BY <2>1, <2>2, <1>t
<1> HIDE DEF new
<1>4. Sorted(new)
  BY <1>1, <1>2, <1>t DEF Sorted
<1>5. Keys(new) = Keys(list)
  BY <1>1, <1>2, <1>t DEF Keys
<1>6. ASSUME NEW d \in Keys(list)
      PROVE  MapOf(new)[d] = IF StartsWith(path, d) THEN v ELSE MapOf(list)[d]
  <2>1. PICK i \in 1 .. Len(list) : list[i].path = d
    BY <1>t DEF Keys
  <2>2. IndexOf(list, d) = i
    <3>1. i \in DOMAIN list
      BY <1>t
    <3>2. IndexOf(list, list[i].path) = i
      BY <3>1, IndexOfIs
    <3>3. QED
      BY <2>1, <3>2, Zenon
  <2>3. IndexOf(new, d) = i
    <3>1. i \in DOMAIN new
      BY <1>3, <1>1, <1>t
    <3>2. IndexOf(new, new[i].path) = i
      BY <3>1, <1>3, <1>4, IndexOfIs
    <3>3. new[i].path = d
      BY <2>1, <1>1, <1>2
    <3>4. QED
      BY <3>2, <3>3, Zenon
  <2>4. MapOf(new)[d] = new[i].value /\ MapOf(list)[d] = list[i].value
    BY <2>2, <2>3, <1>5 DEF MapOf
  <2>5. QED
    BY <2>1, <2>4, <1>1
<1>7. /\ MapOf(new) = [d \in Keys(list) |-> MapOf(new)[d]]
      /\ DOMAIN MapOf(list) = Keys(list)
  BY <1>5 DEF MapOf
<1>8. MapOf(new) = MapUpdatedTo(MapOf(list), path, v)
  BY <1>6, <1>7 DEF MapUpdatedTo
<1>9. QED
  BY <1>3, <1>4, <1>8 DEF new

\* The last match is the longest.
LEMMA LastMatchIs ==
  ASSUME NEW D, D \subseteq Path, NEW V,
         NEW list \in Seq(PathItems(D, V)), Sorted(list), NEW path \in Path,
         Matches(list, path) # {}
  PROVE  /\ LastMatch(list, path) \in DOMAIN list
         /\ StartsWith(path, list[LastMatch(list, path)].path)
         /\ \A d \in Keys(list) : StartsWith(path, d) =>
              /\ Len(d) <= Len(list[LastMatch(list, path)].path)
              /\ Len(d) = Len(list[LastMatch(list, path)].path)
                   => d = list[LastMatch(list, path)].path
<1> DEFINE m == LastMatch(list, path)
<1>t. Len(list) \in Nat /\ DOMAIN list = 1 .. Len(list) /\ path \in Path
  OBVIOUS
<1>1. m \in Matches(list, path) /\ \A j \in Matches(list, path) : j <= m
  <2>1. Matches(list, path) \in SUBSET (1 .. Len(list))
    BY <1>t DEF Matches
  <2>2. \E i \in Matches(list, path) : \A j \in Matches(list, path) : j <= i
    BY <2>1, <1>t, GreatestIndex
  <2>3. QED
    BY <2>2 DEF LastMatch
<1> HIDE DEF m
<1>2. m \in DOMAIN list /\ StartsWith(path, list[m].path) /\ list[m].path \in Path
  BY <1>1, <1>t, ListTyped DEF Matches
<1>3. ASSUME NEW d \in Keys(list), StartsWith(path, d)
      PROVE  /\ Len(d) <= Len(list[m].path)
             /\ Len(d) = Len(list[m].path) => d = list[m].path
  <2>1. PICK j \in 1 .. Len(list) : list[j].path = d
    BY <1>t DEF Keys
  <2>2. d \in Path /\ j \in Matches(list, path)
    BY <2>1, <1>3, <1>t, ListTyped DEF Matches
  <2>3. Len(d) <= Len(list[m].path)
    <3>1. SUFFICES ASSUME Len(list[m].path) < Len(d)
                   PROVE  FALSE
      BY <1>2, <2>2 DEF Path
    <3>2. Before(list[m].path, d)
      BY <3>1, <1>2, <1>3, <1>t, <2>2, ParentsFirst
    <3>3. j < m \/ j = m
      BY <1>1, <1>2, <1>t, <2>2
    <3>4. j # m
      BY <2>1, <2>2, <3>2, BeforeIrreflexive
    <3>5. Before(d, list[m].path)
      BY <2>1, <3>3, <3>4, <1>2, <1>t DEF Sorted
    <3>6. QED
      BY <3>2, <3>5, <1>2, <2>2, BeforeTransitive, BeforeIrreflexive
  <2>4. ASSUME Len(d) = Len(list[m].path)
        PROVE  d = list[m].path
    <3>1. \A i \in 1 .. Len(d) : d[i] = list[m].path[i]
      BY <2>4, <1>2, <1>3 DEF StartsWith
    <3>2. d \in Seq(Nat) /\ list[m].path \in Seq(Nat)
      BY <2>2, <1>2 DEF Path
    <3>3. QED
      BY <3>1, <3>2, <2>4, SeqEqual
  <2>5. QED
    BY <2>3, <2>4
<1>4. QED
  BY <1>2, <1>3 DEF m

-----------------------------------------------------------------------------
(* A path and what it starts with *)

\* The first components of a path
Up(path, n) == SubSeq(path, 1, n)

LEMMA PrefixIs ==
  ASSUME NEW path \in Path, NEW n \in 0 .. Len(path)
  PROVE  /\ Up(path, n) \in Path /\ Len(Up(path, n)) = n
         /\ StartsWith(path, Up(path, n))
         /\ \A i \in 1 .. n : Up(path, n)[i] = path[i]
         /\ n = Len(path) => Up(path, n) = path
<1>1. /\ Up(path, n) \in Path /\ Len(Up(path, n)) = n
      /\ \A i \in 1 .. n : Up(path, n)[i] = path[i]
  BY DEF Path, Up
<1>2. StartsWith(path, Up(path, n))
  BY <1>1 DEF StartsWith
<1>3. n = Len(path) => Up(path, n) = path
  BY <1>1, SeqEqual DEF Path
<1>4. QED
  BY <1>1, <1>2, <1>3

LEMMA PrefixUnique ==
  ASSUME NEW path \in Path, NEW p \in Path, StartsWith(path, p)
  PROVE  Len(p) \in 0 .. Len(path) /\ p = Up(path, Len(p))
<1>1. Len(p) \in 0 .. Len(path)
  BY DEF StartsWith, Path
<1>2. /\ Up(path, Len(p)) \in Path /\ Len(Up(path, Len(p))) = Len(p)
      /\ \A i \in 1 .. Len(p) : Up(path, Len(p))[i] = path[i]
  BY <1>1, PrefixIs
<1>3. QED
  BY <1>1, <1>2, SeqEqual DEF StartsWith, Path

\* Of two prefixes of a path the longer one starts with the other.
LEMMA PrefixOfPrefix ==
  ASSUME NEW path \in Path, NEW n \in 0 .. Len(path), NEW p \in Path
  PROVE  StartsWith(Up(path, n), p) <=> StartsWith(path, p) /\ Len(p) <= n
<1>1. /\ Up(path, n) \in Path /\ Len(Up(path, n)) = n
      /\ \A i \in 1 .. n : Up(path, n)[i] = path[i]
  BY PrefixIs
<1>2. n \in Nat /\ Len(p) \in Nat /\ Len(path) \in Nat /\ n <= Len(path)
  BY DEF Path
<1>3. QED
  BY <1>1, <1>2 DEF StartsWith

LEMMA PrefixShorter ==
  ASSUME NEW path \in Path, NEW n \in 0 .. Len(path), NEW m \in 0 .. n
  PROVE  Up(Up(path, n), m) = Up(path, m)
<1>1. /\ Up(path, n) \in Path /\ Len(Up(path, n)) = n
      /\ \A i \in 1 .. n : Up(path, n)[i] = path[i]
  BY PrefixIs
<1>2. /\ Up(path, m) \in Path /\ Len(Up(path, m)) = m
      /\ \A i \in 1 .. m : Up(path, m)[i] = path[i]
  BY PrefixIs DEF Path
<1>3. /\ Up(Up(path, n), m) \in Path
      /\ Len(Up(Up(path, n), m)) = m
      /\ \A i \in 1 .. m : Up(Up(path, n), m)[i] = Up(path, n)[i]
  BY <1>1, PrefixIs
<1>4. \A i \in 1 .. m : i \in 1 .. n
  OBVIOUS
<1>5. QED
  BY <1>1, <1>2, <1>3, <1>4, SeqEqual DEF Path

LEMMA StartsTransitive ==
  ASSUME NEW p \in Path, NEW q \in Path, NEW r \in Path, StartsWith(p, q), StartsWith(q, r)
  PROVE  StartsWith(p, r)
<1>1. Len(p) \in Nat /\ Len(q) \in Nat /\ Len(r) \in Nat
  BY DEF Path
<1>2. Len(q) <= Len(p) /\ \A i \in 1 .. Len(q) : p[i] = q[i]
  BY DEF StartsWith
<1>3. Len(r) <= Len(q) /\ \A i \in 1 .. Len(r) : q[i] = r[i]
  BY DEF StartsWith
<1>4. Len(r) <= Len(p)
  BY <1>1, <1>2, <1>3
<1>5. ASSUME NEW i \in 1 .. Len(r) PROVE p[i] = r[i]
  <2>1. i \in 1 .. Len(q)
    BY <1>1, <1>3
  <2>2. QED
    BY <2>1, <1>2, <1>3
<1>6. QED
  BY <1>4, <1>5 DEF StartsWith

=============================================================================
