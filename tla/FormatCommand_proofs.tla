------------------------ MODULE FormatCommand_proofs ------------------------
(***************************************************************************)
(* Theorems of FormatCommand, for any files, settings, patterns, command   *)
(* line and number of threads: what the walk finds, that it agrees with    *)
(* what is said of a path by itself, and that the exit status and the      *)
(* errors account for every file.                                          *)
(***************************************************************************)
EXTENDS Lemmas, FormatCommand

-----------------------------------------------------------------------------
(* What is above a path *)

\* What is above something that exists is a directory.
LEMMA AboveAreFolders ==
  ASSUME NEW path \in Tree, NEW n \in 0 .. Len(path) - 1
  PROVE  Up(path, n) \in Folders
<1>t. path \in Path /\ Len(path) \in Nat
  BY TreeAssumption DEF Path
<1> DEFINE P == {k \in Nat : k < Len(path) => Up(path, Len(path) - 1 - k) \in Folders}
<1>1. ASSUME NEW m \in 1 .. Len(path), Up(path, m) \in Tree
      PROVE  Up(path, m - 1) \in Folders
  <2>1. Up(path, m) # <<>> /\ Len(Up(path, m)) = m
    <3>1. m \in 0 .. Len(path) /\ m # 0
      BY <1>t
    <3>2. Up(path, m) \in Path /\ Len(Up(path, m)) = m
      BY <1>t, <3>1, PrefixIs
    <3>3. QED
      BY <3>1, <3>2, EmptySeq DEF Path
  <2>2. Up(Up(path, m), m - 1) = Up(path, m - 1)
    BY <1>t, PrefixShorter
  <2>3. Parent(Up(path, m)) \in Folders
    BY <1>1, <2>1, TreeAssumption
  <2>4. QED
    BY <2>1, <2>2, <2>3 DEF Parent, Up
<1>2. 0 \in P
  <2>1. CASE Len(path) = 0
    BY <2>1
  <2>2. CASE Len(path) > 0
    <3>1. Len(path) \in 1 .. Len(path) /\ Up(path, Len(path)) \in Tree
      <4>1. Len(path) \in 1 .. Len(path) /\ Len(path) \in 0 .. Len(path)
        BY <1>t, <2>2
      <4>2. Up(path, Len(path)) = path
        BY <1>t, <4>1, PrefixIs
      <4>3. QED
        BY <4>1, <4>2
    <3>2. Up(path, Len(path) - 1) \in Folders
      BY <1>1, <3>1
    <3>3. QED
      BY <1>t, <3>2
  <2>3. QED
    BY <1>t, <2>1, <2>2
<1>3. ASSUME NEW k \in Nat, k \in P
      PROVE  k + 1 \in P
  <2>1. CASE k + 1 < Len(path)
    <3>1. Len(path) - 1 - k \in 1 .. Len(path) /\ Up(path, Len(path) - 1 - k) \in Tree
      BY <1>t, <1>3, <2>1, TreeAssumption
    <3>2. Up(path, (Len(path) - 1 - k) - 1) \in Folders
      BY <1>1, <3>1
    <3>3. (Len(path) - 1 - k) - 1 = Len(path) - 1 - (k + 1)
      BY <1>t
    <3>4. QED
      BY <3>2, <3>3
  <2>2. QED
    BY <1>t, <2>1
<1>4. Nat \subseteq P
  <2> HIDE DEF P
  <2>1. QED
    BY <1>2, <1>3, NatInductionSet
<1>5. Len(path) - 1 - n \in Nat /\ Len(path) - 1 - n < Len(path) /\ Len(path) - 1 - (Len(path) - 1 - n) = n
  BY <1>t
<1>6. QED
  BY <1>4, <1>5

\* The way down to a file, and what on it is a directory.
LEMMA DownIs ==
  ASSUME NEW file \in Path, NEW root \in Path, StartsWith(file, root)
  PROVE  /\ Len(root) \in 0 .. Len(file) /\ root = Up(file, Len(root))
         /\ \A n \in Len(root) + 1 .. Len(file) : Up(file, n) \in Down(root, file)
         /\ \A p \in Down(root, file) : p \in Path /\ Len(p) \in Len(root) + 1 .. Len(file)
                                        /\ p = Up(file, Len(p)) /\ StartsWith(file, p)
<1>1. Len(root) \in 0 .. Len(file) /\ root = Up(file, Len(root))
  BY PrefixUnique
<1>2. \A n \in Len(root) + 1 .. Len(file) : n \in 0 .. Len(file)
  BY <1>1 DEF Path
<1>3. \A n \in Len(root) + 1 .. Len(file) :
        /\ Up(file, n) \in Path /\ Len(Up(file, n)) = n
        /\ StartsWith(file, Up(file, n))
  BY <1>2, PrefixIs
<1>4. \A p : p \in Down(root, file) <=> \E n \in Len(root) + 1 .. Len(file) : p = Up(file, n)
  BY DEF Down, Up
<1>5. QED
  BY <1>1, <1>3, <1>4

LEMMA DirectoriesOnTheWay ==
  ASSUME NEW file \in Files, NEW n \in 0 .. Len(file)
  PROVE  /\ file \in Path /\ Up(file, n) \in Tree
         /\ IsDirectory(Up(file, n)) <=> n < Len(file)
<1>1. file \in Path /\ Len(file) \in Nat /\ file \in Tree /\ file \notin Folders
  BY TreeAssumption DEF Files, Path
<1>2. CASE n = Len(file)
  <2>1. Up(file, n) = file
    BY <1>1, <1>2, PrefixIs
  <2>2. ~IsDirectory(Up(file, n)) /\ Up(file, n) \in Tree /\ ~ n < Len(file)
    BY <1>1, <1>2, <2>1 DEF IsDirectory
  <2>3. QED
    BY <1>1, <2>2
<1>3. CASE n < Len(file)
  <2>1. n \in 0 .. Len(file) - 1
    BY <1>1, <1>3
  <2>2. QED
    BY <1>1, <1>3, <2>1, AboveAreFolders, TreeAssumption DEF IsDirectory
<1>4. QED
  BY <1>1, <1>2, <1>3

-----------------------------------------------------------------------------
(* Patterns *)

LEMMA MaxIs ==
  ASSUME NEW b \in Nat, NEW T, T \subseteq 1 .. b, T # {}
  PROVE  Max(T) \in T /\ Max(T) \in 1 .. b /\ \A n \in T : n <= Max(T)
<1>1. PICK m \in T : \A n \in T : n <= m
  <2>1. T \in SUBSET (1 .. b)
    OBVIOUS
  <2>2. QED
    BY <2>1, GreatestIndex
<1>2. m \in T /\ \A n \in T : m >= n
  BY <1>1
<1>3. Max(T) \in T /\ \A n \in T : Max(T) >= n
  BY <1>2 DEF Max
<1>4. QED
  BY <1>3

LEMMA DecidingIs ==
  ASSUME NEW patterns, patterns.globs \in Seq(Glob), NEW path, NEW b
  PROVE  Deciding(patterns, path, b) = 0 \/ Deciding(patterns, path, b) \in DOMAIN patterns.globs
<1> DEFINE globs == patterns.globs
           I == {i \in 1 .. Len(globs) : GlobMatches(globs[i], path, b)}
<1>1. Deciding(patterns, path, b) = IF I # {} THEN Max(I) ELSE 0
  BY DEF Deciding, SelectLastInSeq
<1>2. Len(globs) \in Nat /\ I \subseteq 1 .. Len(globs) /\ DOMAIN globs = 1 .. Len(globs)
  OBVIOUS
<1> HIDE DEF I
<1>3. I # {} => Max(I) \in 1 .. Len(globs)
  BY <1>2, MaxIs
<1>4. QED
  BY <1>1, <1>2, <1>3

LEMMA PieceIs ==
  ASSUME NEW path \in Path, NEW m \in 0 .. Len(path), NEW n \in m .. Len(path)
  PROVE  /\ SubSeq(path, m + 1, n) \in Path /\ Len(SubSeq(path, m + 1, n)) = n - m
         /\ \A i \in 1 .. n - m : SubSeq(path, m + 1, n)[i] = path[m + i]
<1>1. m + 1 \in Int /\ n \in Int /\ Len(path) \in Nat
  BY DEF Path
<1>2. \A i \in m + 1 .. n : i \in 1 .. Len(path)
  BY <1>1
<1>3. /\ SubSeq(path, m + 1, n) \in Seq(Nat)
      /\ Len(SubSeq(path, m + 1, n)) = IF m + 1 <= n THEN n - (m + 1) + 1 ELSE 0
      /\ \A i \in 1 .. n - (m + 1) + 1 : SubSeq(path, m + 1, n)[i] = path[(m + 1) + i - 1]
  <2>1. \A i \in m + 1 .. n : path[i] \in Nat
    BY <1>2 DEF Path
  <2>2. path \in Seq(Nat)
    BY DEF Path
  <2>3. QED
    BY <1>1, <1>2, <2>1, <2>2, SubSeqProperties
<1>4. \A i \in 1 .. n - m : i \in 1 .. n - (m + 1) + 1 /\ (m + 1) + i - 1 = m + i
  BY <1>1
<1>5. QED
  BY <1>1, <1>3, <1>4 DEF Path

\* What the patterns say of a prefix is what they say of its rest below the root.
LEMMA StrippedIs ==
  ASSUME NEW patterns, patterns.root \in Path, NEW path \in Path, StartsWith(path, patterns.root)
  PROVE  /\ Stripped(patterns, path) \in Path
         /\ Len(Stripped(patterns, path)) = Len(path) - Len(patterns.root)
         /\ Len(patterns.root) \in 0 .. Len(path)
         /\ \A n \in 0 .. Len(path) - Len(patterns.root) :
              SubSeq(Stripped(patterns, path), 1, n)
                = Stripped(patterns, Up(path, Len(patterns.root) + n))
<1> DEFINE r == Len(patterns.root)
           rest == Stripped(patterns, path)
<1>1. r \in 0 .. Len(path) /\ Len(path) \in Nat
  BY PrefixUnique DEF Path
<1>2. rest = SubSeq(path, r + 1, Len(path))
  BY DEF Stripped
<1>3. /\ rest \in Path /\ Len(rest) = Len(path) - r
      /\ \A i \in 1 .. Len(path) - r : rest[i] = path[r + i]
  <2>1. Len(path) \in r .. Len(path)
    BY <1>1
  <2> HIDE DEF r, rest
  <2>2. /\ SubSeq(path, r + 1, Len(path)) \in Path
        /\ Len(SubSeq(path, r + 1, Len(path))) = Len(path) - r
        /\ \A i \in 1 .. Len(path) - r : SubSeq(path, r + 1, Len(path))[i] = path[r + i]
    BY <1>1, <2>1, PieceIs
  <2>3. QED
    BY <1>2, <2>2
<1>4. ASSUME NEW n \in 0 .. Len(path) - r
      PROVE  SubSeq(rest, 1, n) = Stripped(patterns, Up(path, r + n))
  <2> DEFINE p == Up(path, r + n)
  <2>1. r + n \in 0 .. Len(path)
    BY <1>1
  <2>2. /\ p \in Path /\ Len(p) = r + n
        /\ \A i \in 1 .. r + n : p[i] = path[i]
    BY <2>1, PrefixIs
  <2>3. StartsWith(p, patterns.root)
    BY <1>1, <2>1, PrefixOfPrefix
  <2> HIDE DEF p
  <2>4. Stripped(patterns, p) = SubSeq(p, r + 1, r + n)
    BY <2>2, <2>3 DEF Stripped
  <2> HIDE DEF r, rest
  <2>5. /\ SubSeq(p, r + 1, r + n) \in Path /\ Len(SubSeq(p, r + 1, r + n)) = n
        /\ \A i \in 1 .. n : SubSeq(p, r + 1, r + n)[i] = path[r + i]
    <3>1. r \in 0 .. Len(p) /\ r + n \in r .. Len(p) /\ (r + n) - r = n
      BY <1>1, <2>2
    <3>2. /\ SubSeq(p, r + 1, r + n) \in Path /\ Len(SubSeq(p, r + 1, r + n)) = (r + n) - r
          /\ \A i \in 1 .. (r + n) - r : SubSeq(p, r + 1, r + n)[i] = p[r + i]
      BY <2>2, <3>1, PieceIs
    <3>3. \A i \in 1 .. n : r + i \in 1 .. r + n
      BY <1>1
    <3>4. QED
      BY <2>2, <3>1, <3>2, <3>3
  <2>6. /\ Up(rest, n) \in Path /\ Len(Up(rest, n)) = n
        /\ \A i \in 1 .. n : Up(rest, n)[i] = rest[i]
    BY <1>1, <1>3, PrefixIs
  <2>7. Up(rest, n) = SubSeq(p, r + 1, r + n)
    <3>1. \A i \in 1 .. n : i \in 1 .. Len(path) - r
      BY <1>1
    <3> DEFINE u == Up(rest, n)
               v == SubSeq(p, r + 1, r + n)
    <3>2. u \in Path /\ v \in Path /\ Len(u) = Len(v) /\ \A i \in 1 .. Len(u) : u[i] = v[i]
      BY <1>3, <2>5, <2>6, <3>1
    <3> HIDE DEF u, v
    <3>3. u = v
      BY <3>2, SeqEqual DEF Path
    <3>4. QED
      BY <3>3 DEF u, v
  <2>8. Up(rest, n) = SubSeq(rest, 1, n)
    BY DEF Up
  <2>9. QED
    BY <2>4, <2>7, <2>8 DEF p
<1>5. QED
  BY <1>1, <1>3, <1>4

LEMMA MatchedOrParentsIs ==
  ASSUME NEW patterns, patterns.root \in Path, NEW path \in Path, StartsWith(path, patterns.root),
         NEW b \in BOOLEAN
  PROVE  MatchedOrParents(patterns, path, b) <=>
           \E n \in Len(patterns.root) + 1 .. Len(path) :
             /\ Matched(patterns, Up(path, n), n < Len(path) \/ b)
             /\ \A k \in n + 1 .. Len(path) :
                  Deciding(patterns, Stripped(patterns, Up(path, k)), k < Len(path) \/ b) = 0
<1> DEFINE r == Len(patterns.root)
           rest == Stripped(patterns, path)
           Says(n) == Deciding(patterns, Stripped(patterns, Up(path, n)), n < Len(path) \/ b)
           Denies(n) == Ignores(patterns, Stripped(patterns, Up(path, n)), n < Len(path) \/ b)
           hits == {n \in 1 .. Len(rest) :
                      Deciding(patterns, SubSeq(rest, 1, n), n < Len(rest) \/ b) # 0}
<1>1. /\ r \in Nat /\ Len(path) \in Nat /\ Len(rest) = Len(path) - r /\ r <= Len(path)
      /\ \A n \in 1 .. Len(path) - r : SubSeq(rest, 1, n) = Stripped(patterns, Up(path, r + n))
  <2>1. /\ Len(rest) = Len(path) - r /\ r \in 0 .. Len(path)
        /\ \A n \in 0 .. Len(path) - r :
              SubSeq(rest, 1, n) = Stripped(patterns, Up(path, r + n))
    BY StrippedIs
  <2>2. Len(path) \in Nat
    BY DEF Path
  <2> HIDE DEF r, rest
  <2>3. \A n \in 1 .. Len(path) - r : n \in 0 .. Len(path) - r
    BY <2>1, <2>2
  <2>4. \A n \in 1 .. Len(path) - r : SubSeq(rest, 1, n) = Stripped(patterns, Up(path, r + n))
    BY <2>1, <2>3, Zenon
  <2>5. /\ r \in Nat /\ Len(path) \in Nat /\ Len(rest) = Len(path) - r /\ r <= Len(path)
    BY <2>1, <2>2
  <2>6. QED
    BY <2>4, <2>5, Zenon
<1>2. \A n \in 1 .. Len(rest) :
        /\ Deciding(patterns, SubSeq(rest, 1, n), n < Len(rest) \/ b) = Says(r + n)
        /\ Ignores(patterns, SubSeq(rest, 1, n), n < Len(rest) \/ b) = Denies(r + n)
  <2>1. \A n \in 1 .. Len(rest) : n < Len(rest) <=> r + n < Len(path)
    BY <1>1
  <2> HIDE DEF rest, r
  <2>2. TAKE n \in 1 .. Len(rest)
  <2>3. (n < Len(rest) \/ b) = (r + n < Len(path) \/ b)
    BY <2>1
  <2>4. QED
    BY <1>1, <2>3
<1>3. \A n : Denies(n) => Says(n) # 0
  BY DEF Ignores
<1>4. \A n : Denies(n) <=> Matched(patterns, Up(path, n), n < Len(path) \/ b)
  BY DEF Matched
<1>5. MatchedOrParents(patterns, path, b) <=>
        hits # {} /\ Ignores(patterns, SubSeq(rest, 1, Max(hits)), Max(hits) < Len(rest) \/ b)
  BY DEF MatchedOrParents
<1>6. hits # {} => /\ Max(hits) \in hits /\ Max(hits) \in 1 .. Len(rest)
                   /\ \A n \in hits : n <= Max(hits)
  <2>1. Len(rest) \in Nat /\ hits \subseteq 1 .. Len(rest)
    BY <1>1
  <2> DEFINE top == Len(rest)
  <2>2. top \in Nat /\ hits \subseteq 1 .. top
    BY <2>1
  <2> HIDE DEF hits, rest, top
  <2>3. hits # {} => Max(hits) \in hits /\ Max(hits) \in 1 .. top /\ \A n \in hits : n <= Max(hits)
    BY <2>2, MaxIs
  <2>4. QED
    BY <2>3 DEF top
<1>7. \A n : n \in hits <=> n \in 1 .. Len(path) - r /\ Says(r + n) # 0
  BY <1>1, <1>2
<1>8. hits # {} => (Ignores(patterns, SubSeq(rest, 1, Max(hits)), Max(hits) < Len(rest) \/ b)
                      <=> Denies(r + Max(hits)))
  BY <1>2, <1>6
<1> HIDE DEF hits, rest, Says, Denies
<1>9. ASSUME MatchedOrParents(patterns, path, b)
      PROVE  \E n \in r + 1 .. Len(path) : Denies(n) /\ \A k \in n + 1 .. Len(path) : Says(k) = 0
  <2> DEFINE m == Max(hits)
  <2>1. m \in hits /\ (\A n \in hits : n <= m) /\ Denies(r + m)
    BY <1>5, <1>6, <1>8, <1>9
  <2> HIDE DEF m
  <2>2. r + m \in r + 1 .. Len(path) /\ m \in Nat
    BY <1>1, <1>7, <2>1
  <2>3. ASSUME NEW k \in r + m + 1 .. Len(path)
        PROVE  Says(k) = 0
    <3>1. k - r \in 1 .. Len(path) - r /\ ~ k - r <= m /\ r + (k - r) = k
      BY <1>1, <2>2
    <3>2. QED
      BY <1>7, <2>1, <3>1
  <2>4. QED
    BY <2>1, <2>2, <2>3
<1>10. ASSUME NEW n \in r + 1 .. Len(path), Denies(n), \A k \in n + 1 .. Len(path) : Says(k) = 0
       PROVE  MatchedOrParents(patterns, path, b)
  <2> DEFINE m == Max(hits)
  <2>1. n - r \in 1 .. Len(path) - r /\ r + (n - r) = n /\ n \in Nat
    BY <1>1
  <2>2. n - r \in hits
    BY <1>3, <1>7, <1>10, <2>1
  <2>3. m \in 1 .. Len(path) - r /\ n - r <= m /\ Says(r + m) # 0
    BY <1>6, <1>7, <2>2
  <2>4. r + m \notin n + 1 .. Len(path)
    BY <1>10, <2>3
  <2> HIDE DEF m, r
  <2>5. r + m = n
    BY <1>1, <2>1, <2>3, <2>4
  <2>6. QED
    BY <1>5, <1>8, <1>10, <2>2, <2>5 DEF m, r
<1>11. MatchedOrParents(patterns, path, b) <=>
         \E n \in r + 1 .. Len(path) : Denies(n) /\ \A k \in n + 1 .. Len(path) : Says(k) = 0
  BY <1>9, <1>10
<1>12. QED
  BY <1>4, <1>11 DEF Says

LEMMA DefaultIs ==
  ASSUME NEW globs, NEW path \in Path, NEW b \in BOOLEAN
  PROVE  DefaultMatchedOrParents(globs, path, b) <=>
           \E n \in 1 .. Len(path) :
             Matched(FilePatterns(<<>>, globs), Up(path, n), n < Len(path) \/ b)
<1>1. ASSUME NEW n \in 1 .. Len(path)
      PROVE  Stripped(FilePatterns(<<>>, globs), Up(path, n)) = Up(path, n)
  <2>1. n \in 0 .. Len(path)
    BY DEF Path
  <2>2. Up(path, n) \in Path /\ Len(Up(path, n)) = n
    BY <2>1, PrefixIs
  <2>3. n \in 0 .. Len(Up(path, n)) /\ Len(<<>>) = 0 /\ FilePatterns(<<>>, globs).root = <<>>
    BY <2>2, EmptySeq DEF FilePatterns
  <2>4. Up(Up(path, n), n) = Up(path, n)
    BY <2>2, <2>3, PrefixIs
  <2>5. Up(Up(path, n), n) = SubSeq(Up(path, n), 1, n)
    BY DEF Up
  <2>6. SubSeq(Up(path, n), Len(<<>>) + 1, Len(Up(path, n))) = SubSeq(Up(path, n), 1, n)
    BY <2>2, <2>3
  <2>7. StartsWith(Up(path, n), <<>>)
    BY <2>2, <2>3 DEF StartsWith
  <2> DEFINE p == Up(path, n)
  <2>8. p = SubSeq(p, Len(<<>>) + 1, Len(p))
    BY <2>4, <2>5, <2>6
  <2> HIDE DEF p
  <2>9. Stripped(FilePatterns(<<>>, globs), p) = p
    BY <2>3, <2>8 DEF Stripped
  <2>10. QED
    BY <2>9 DEF p
<1>2. QED
  BY <1>1 DEF DefaultMatchedOrParents, Matched, Up

-----------------------------------------------------------------------------
(* Which air.toml files are found *)

\* The directories on the way up from a path that have an air.toml
TomlsAbove(path) == {a \in Ancestors(path) : TomlIn(a) # Absent}

\* The settings of a path, if all the air.toml files above it are known
TomlSettings(path) ==
  IF TomlsAbove(path) = {} THEN DefaultSettings
  ELSE IntoSettings(TomlIn(Deepest(TomlsAbove(path))), Deepest(TomlsAbove(path)))

LEMMA AncestorsAre ==
  ASSUME NEW path \in Path
  PROVE  \A a : a \in Ancestors(path) <=> a \in Path /\ StartsWith(path, a)
<1>1. \A a : a \in Ancestors(path) <=> \E n \in 0 .. Len(path) : a = Up(path, n)
  BY DEF Ancestors, Up
<1>2. \A n \in 0 .. Len(path) : Up(path, n) \in Path /\ StartsWith(path, Up(path, n))
  BY PrefixIs
<1>3. ASSUME NEW a \in Path, StartsWith(path, a)
      PROVE  \E n \in 0 .. Len(path) : a = Up(path, n)
  BY <1>3, PrefixUnique
<1>4. QED
  BY <1>1, <1>2, <1>3

LEMMA StartsWithItself ==
  ASSUME NEW path \in Path
  PROVE  StartsWith(path, path) /\ path \in Ancestors(path)
<1>1. StartsWith(path, path)
  BY DEF StartsWith, Path
<1>2. QED
  BY <1>1, AncestorsAre

LEMMA DeepestIs ==
  ASSUME NEW path \in Path, NEW S, S \subseteq Ancestors(path), S # {}
  PROVE  /\ Deepest(S) \in S /\ Deepest(S) \in Path /\ StartsWith(path, Deepest(S))
         /\ \A q \in S : Len(q) <= Len(Deepest(S))
         /\ \A q \in S : Len(q) = Len(Deepest(S)) => q = Deepest(S)
<1>1. \A q \in S : q \in Path /\ StartsWith(path, q) /\ Len(q) \in 0 .. Len(path) /\ q = Up(path, Len(q))
  BY AncestorsAre, PrefixUnique
<1> DEFINE T == {Len(q) + 1 : q \in S}
<1>2. T \subseteq 1 .. Len(path) + 1 /\ T # {} /\ Len(path) + 1 \in Nat
  BY <1>1 DEF Path
<1>3. PICK m \in T : \A n \in T : n <= m
  <2> DEFINE top == Len(path) + 1
  <2>1. top \in Nat /\ T \in SUBSET (1 .. top) /\ T # {}
    BY <1>2
  <2> HIDE DEF T, top
  <2>2. QED
    BY <2>1, GreatestIndex
<1>4. PICK p \in S : m = Len(p) + 1
  OBVIOUS
<1>5. \A q \in S : Len(q) <= Len(p)
  <2>1. TAKE q \in S
  <2>2. Len(q) + 1 \in T
    OBVIOUS
  <2>3. Len(q) + 1 <= Len(p) + 1
    BY <1>3, <1>4, <2>2
  <2>4. Len(q) \in Nat /\ Len(p) \in Nat
    BY <1>1 DEF Path
  <2>5. QED
    BY <2>3, <2>4
<1>6. Deepest(S) \in S /\ \A q \in S : Len(q) <= Len(Deepest(S))
  BY <1>5 DEF Deepest
<1>7. \A q \in S : Len(q) = Len(Deepest(S)) => q = Deepest(S)
  <2>1. Deepest(S) = Up(path, Len(Deepest(S)))
    BY <1>1, <1>6
  <2>2. QED
    BY <1>1, <2>1
<1>8. QED
  BY <1>1, <1>6, <1>7

\* Of two ancestors of a path one is an ancestor of the other.
LEMMA AncestorsInOrder ==
  ASSUME NEW path \in Path, NEW p \in Path, NEW q \in Path, StartsWith(path, p),
         StartsWith(path, q), Len(p) <= Len(q)
  PROVE  StartsWith(q, p)
<1>1. Len(q) \in 0 .. Len(path) /\ q = Up(path, Len(q))
  BY PrefixUnique
<1>2. StartsWith(Up(path, Len(q)), p)
  BY <1>1, PrefixOfPrefix
<1>3. QED
  BY <1>1, <1>2

\* The deepest air.toml above a path is also the deepest above what is between.
LEMMA DeepestBetween ==
  ASSUME NEW path \in Path, NEW p \in Path, StartsWith(path, p), TomlsAbove(path) # {},
         Len(Deepest(TomlsAbove(path))) <= Len(p)
  PROVE  TomlsAbove(p) # {} /\ Deepest(TomlsAbove(p)) = Deepest(TomlsAbove(path))
<1> DEFINE d == Deepest(TomlsAbove(path))
<1>1. /\ d \in TomlsAbove(path) /\ d \in Path /\ StartsWith(path, d)
      /\ \A q \in TomlsAbove(path) : Len(q) <= Len(d)
      /\ \A q \in TomlsAbove(path) : Len(q) = Len(d) => q = d
  <2>1. TomlsAbove(path) \subseteq Ancestors(path)
    BY DEF TomlsAbove
  <2>2. QED
    BY <2>1, DeepestIs
<1> HIDE DEF d
<1>2. StartsWith(p, d)
  BY <1>1, AncestorsInOrder DEF d
<1>3. d \in TomlsAbove(p)
  BY <1>1, <1>2, AncestorsAre DEF TomlsAbove
<1>4. TomlsAbove(p) \subseteq TomlsAbove(path)
  <2>1. \A a \in Ancestors(p) : a \in Ancestors(path)
    BY AncestorsAre, StartsTransitive
  <2>2. QED
    BY <2>1 DEF TomlsAbove
<1> DEFINE e == Deepest(TomlsAbove(p))
<1>5. e \in TomlsAbove(p) /\ e \in Path /\ \A q \in TomlsAbove(p) : Len(q) <= Len(e)
  <2>1. TomlsAbove(p) \subseteq Ancestors(p) /\ TomlsAbove(p) # {}
    BY <1>3 DEF TomlsAbove
  <2>2. QED
    BY <2>1, DeepestIs
<1> HIDE DEF e
<1>6. Len(d) <= Len(e) /\ Len(e) <= Len(d) /\ Len(d) \in Nat /\ Len(e) \in Nat
  BY <1>1, <1>3, <1>4, <1>5 DEF Path
<1>7. Len(e) = Len(d)
  BY <1>6
<1>8. QED
  BY <1>1, <1>3, <1>4, <1>5, <1>7 DEF d, e

\* How far discover_settings has come: of each path seen the closest air.toml was found.
Complete(acc) ==
  /\ IsFiniteSet(acc.found)
  /\ \A d \in acc.found : TomlIn(d) # Absent
  /\ \A a \in acc.seen : TomlsAbove(a) # {} => Deepest(TomlsAbove(a)) \in acc.found

Searches == [seen : SUBSET Path, found : SUBSET Path]

LEMMA FromOneIs ==
  ASSUME NEW acc \in Searches, Complete(acc), NEW path \in Path
  PROVE  /\ FromOne(acc, path) \in Searches /\ Complete(FromOne(acc, path))
         /\ path \in FromOne(acc, path).seen /\ acc.seen \subseteq FromOne(acc, path).seen
<1> DEFINE stops == {a \in Ancestors(path) : a \in acc.seen \/ TomlIn(a) # Absent}
           stop == IF stops = {} THEN <<>> ELSE Deepest(stops)
           walked == {a \in Ancestors(path) : Len(a) >= Len(stop)}
           isNew == stop \notin acc.seen /\ TomlIn(stop) # Absent
           new == FromOne(acc, path)
<1>1. /\ new.seen = acc.seen \cup walked
      /\ new.found = IF isNew THEN acc.found \cup {stop} ELSE acc.found
      /\ new = [seen |-> new.seen, found |-> new.found]
  BY DEF FromOne
<1>2. stops # {} => /\ stop \in stops /\ stop \in Path /\ StartsWith(path, stop)
                    /\ \A q \in stops : Len(q) <= Len(stop)
                    /\ \A q \in stops : Len(q) = Len(stop) => q = stop
  <2>1. stops \subseteq Ancestors(path)
    OBVIOUS
  <2> HIDE DEF stops
  <2>2. QED
    BY <2>1, DeepestIs
<1>3. stop \in Path /\ StartsWith(path, stop)
  <2>1. <<>> \in Path /\ Len(<<>>) = 0
    BY EmptySeq DEF Path
  <2>2. StartsWith(path, <<>>)
    BY <2>1 DEF StartsWith, Path
  <2>3. QED
    BY <1>2, <2>1, <2>2
<1>4. \A a \in walked : a \in Path /\ StartsWith(path, a) /\ Len(stop) <= Len(a)
  BY <1>3, AncestorsAre DEF Path
<1>5. path \in walked
  <2>1. Len(stop) <= Len(path) /\ Len(stop) \in Nat /\ Len(path) \in Nat
    BY <1>3 DEF StartsWith, Path
  <2>2. path \in Ancestors(path) /\ Len(path) >= Len(stop)
    BY <2>1, StartsWithItself
  <2>3. QED
    BY <2>2
<1>6. new.seen \in SUBSET Path /\ new.found \in SUBSET Path /\ IsFiniteSet(new.found)
  <2>1. IsFiniteSet(acc.found \cup {stop})
    <3>1. IsFiniteSet(acc.found)
      BY DEF Complete
    <3> HIDE DEF stop
    <3>2. QED
      BY <3>1, FS_AddElement
  <2>2. acc.seen \in SUBSET Path /\ acc.found \in SUBSET Path
    BY DEF Searches
  <2>3. QED
    BY <1>1, <1>3, <1>4, <2>1, <2>2 DEF Complete
<1>7. \A d \in new.found : TomlIn(d) # Absent
  BY <1>1 DEF Complete
<1>8. ASSUME NEW a \in walked, TomlsAbove(a) # {}
      PROVE  Deepest(TomlsAbove(a)) \in new.found
  <2> DEFINE d == Deepest(TomlsAbove(a))
  <2>1. /\ d \in TomlsAbove(a) /\ d \in Path /\ StartsWith(a, d)
        /\ \A q \in TomlsAbove(a) : Len(q) <= Len(d)
    <3>1. TomlsAbove(a) \subseteq Ancestors(a) /\ a \in Path
      BY <1>4 DEF TomlsAbove
    <3>2. QED
      BY <1>8, <3>1, DeepestIs
  <2>2. StartsWith(path, d) /\ TomlIn(d) # Absent
    BY <1>4, <2>1, StartsTransitive DEF TomlsAbove
  <2>3. d \in stops
    BY <2>1, <2>2, AncestorsAre
  <2>4. CASE stop \in acc.seen
    <3>1. StartsWith(a, stop) /\ Len(d) <= Len(stop)
      BY <1>2, <1>3, <1>4, <2>3, AncestorsInOrder
    <3>2. TomlsAbove(stop) # {} /\ Deepest(TomlsAbove(stop)) = d
      BY <1>3, <1>4, <1>8, <3>1, DeepestBetween
    <3>3. QED
      BY <1>1, <2>4, <3>2 DEF Complete
  <2>5. CASE stop \notin acc.seen
    <3>1. stop \in stops /\ TomlIn(stop) # Absent
      BY <1>2, <2>3, <2>5
    <3>2. StartsWith(a, stop)
      BY <1>3, <1>4, AncestorsInOrder
    <3>3. stop \in TomlsAbove(a)
      BY <1>3, <1>4, <3>1, <3>2, AncestorsAre DEF TomlsAbove
    <3>4. Len(stop) <= Len(d) /\ Len(d) <= Len(stop) /\ Len(d) \in Nat /\ Len(stop) \in Nat
      <4>1. Len(stop) <= Len(d)
        BY <2>1, <3>3
      <4>2. Len(d) <= Len(stop)
        BY <1>2, <2>3
      <4>3. QED
        BY <1>3, <2>1, <4>1, <4>2 DEF Path
    <3>5. d = stop
      <4>1. Len(d) = Len(stop)
        BY <3>4
      <4>2. QED
        BY <1>2, <2>3, <4>1
    <3>6. QED
      BY <1>1, <2>5, <3>1, <3>5
  <2>6. QED
    BY <2>4, <2>5
<1>9. \A a \in new.seen : TomlsAbove(a) # {} => Deepest(TomlsAbove(a)) \in new.found
  BY <1>1, <1>8 DEF Complete
<1> HIDE DEF stops, stop, walked, isNew, new
<1>10. new \in Searches
  BY <1>1, <1>6, Zenon DEF Searches
<1>11. Complete(new) /\ path \in new.seen /\ acc.seen \subseteq new.seen
  BY <1>1, <1>5, <1>6, <1>7, <1>9 DEF Complete
<1>12. QED
  BY <1>10, <1>11 DEF new

-----------------------------------------------------------------------------
\* The searches that have been at these paths
SearchesOf(paths, S) == {acc \in Searches : Complete(acc) /\ \A i \in S : paths[i] \in acc.seen}

LEMMA DiscoveredIs ==
  ASSUME NEW paths \in Seq(Path)
  PROVE  /\ DiscoveredFolders(paths) \subseteq Path /\ IsFiniteSet(DiscoveredFolders(paths))
         /\ \A d \in DiscoveredFolders(paths) : TomlIn(d) # Absent
         /\ \A i \in DOMAIN paths : TomlsAbove(paths[i]) # {} =>
              Deepest(TomlsAbove(paths[i])) \in DiscoveredFolders(paths)
<1> DEFINE I == DOMAIN paths
           none == [seen |-> {}, found |-> {}]
           c == [s \in SUBSET I |-> Max(s)]
           g == [p \in I \X Searches |-> FromOne(p[2], paths[p[1]])]
           R == [s \in SUBSET I |-> SearchesOf(paths, s)]
           Fold(iter) == iter = [s \in SUBSET I |->
                           IF s = {} THEN none
                           ELSE FromOne(iter[s \ {Max(s)}], paths[Max(s)])]
           it == CHOOSE iter : Fold(iter)
<1>1. IsFiniteSet(I) /\ none \in SearchesOf(paths, {})
  <2>1. IsFiniteSet(I)
    BY FS_Interval
  <2>2. none \in Searches /\ Complete(none)
    BY FS_EmptySet DEF Searches, Complete
  <2>3. QED
    BY <2>1, <2>2 DEF SearchesOf
<1>2. ASSUME NEW s \in SUBSET I, NEW i \in s, NEW acc \in SearchesOf(paths, s \ {i})
      PROVE  FromOne(acc, paths[i]) \in SearchesOf(paths, s)
  <2>1. acc \in Searches /\ Complete(acc) /\ paths[i] \in Path
    BY DEF SearchesOf
  <2>2. /\ FromOne(acc, paths[i]) \in Searches /\ Complete(FromOne(acc, paths[i]))
        /\ paths[i] \in FromOne(acc, paths[i]).seen /\ acc.seen \subseteq FromOne(acc, paths[i]).seen
    BY <2>1, FromOneIs
  <2>3. QED
    BY <2>2 DEF SearchesOf
<1>c. \A s \in SUBSET I : s # {} => c[s] \in s /\ c[s] = Max(s)
  <2>1. ASSUME NEW s \in SUBSET I, s # {}
        PROVE  Max(s) \in s
    <3>1. Len(paths) \in Nat /\ s \subseteq 1 .. Len(paths)
      OBVIOUS
    <3>2. QED
      BY <2>1, <3>1, MaxIs
  <2>2. QED
    BY <2>1
<1>3. \E iter : Fold(iter)
  <2>1. \A s \in SUBSET I : R[s] = SearchesOf(paths, s)
    OBVIOUS
  <2>2. \A i \in I, acc \in Searches : g[<<i, acc>>] = FromOne(acc, paths[i])
    OBVIOUS
  <2> HIDE DEF I, none, c, g, R
  <2>3. PICK iter : /\ Iterates(iter, I, none, c, g)
                    /\ \A s \in SUBSET I : iter[s] \in R[s]
    <3>1. \A s \in SUBSET I : s # {} => \A v \in R[s \ {c[s]}] : g[<<c[s], v>>] \in R[s]
      <4>1. ASSUME NEW s \in SUBSET I, s # {}, NEW v \in R[s \ {c[s]}]
            PROVE  g[<<c[s], v>>] \in R[s]
        <5>1. c[s] \in s /\ c[s] \in I /\ v \in SearchesOf(paths, s \ {c[s]}) /\ v \in Searches
          BY <4>1, <1>c, <2>1 DEF SearchesOf
        <5>2. g[<<c[s], v>>] = FromOne(v, paths[c[s]])
          BY <5>1, <2>2
        <5>3. QED
          BY <5>1, <5>2, <1>2, <2>1
      <4>2. QED
        BY <4>1
    <3>2. none \in R[{}] /\ \A s \in SUBSET I : s # {} => c[s] \in s
      BY <1>1, <1>c, <2>1
    <3>3. QED
      BY <1>1, <3>1, <3>2, IterationTyped
  <2>4. ASSUME NEW s \in SUBSET I, s # {}
        PROVE  g[<<c[s], iter[s \ {c[s]}]>>] = FromOne(iter[s \ {Max(s)}], paths[Max(s)])
    <3>1. c[s] \in I /\ iter[s \ {c[s]}] \in Searches /\ c[s] = Max(s)
      BY <2>1, <2>3, <2>4, <1>c DEF SearchesOf
    <3>2. QED
      BY <2>2, <3>1
  <2>5. Fold(iter)
    BY <2>3, <2>4, Zenon DEF Iterates
  <2>6. QED
    BY <2>5
<1>4. DiscoveredFolders(paths) = it[I].found
  BY DEF DiscoveredFolders, FoldLeft, MapThenFoldSet
<1>5. Fold(it)
  BY <1>3
<1> DEFINE P == {s \in SUBSET I : it[s] \in SearchesOf(paths, s)}
<1>6. SUBSET I \subseteq P
  <2>1. {} \in P
    BY <1>1, <1>5
  <2>2. ASSUME NEW s \in SUBSET I, s # {}
        PROVE  \E x \in s : s \ {x} \in P => s \in P
    <3>1. it[s] = FromOne(it[s \ {Max(s)}], paths[Max(s)])
      BY <1>5, <2>2
    <3>2. Max(s) \in s
      BY <1>c, <2>2
    <3>3. s \ {Max(s)} \in P => s \in P
      BY <1>2, <2>2, <3>1, <3>2
    <3>4. QED
      BY <3>2, <3>3
  <2>3. \A s \in SUBSET I : s # {} => \E x \in s : s \ {x} \in P => s \in P
    BY <2>2
  <2> HIDE DEF P, I
  <2>4. QED
    BY <1>1, <2>1, <2>3, SubsetInduction
<1>7. it[I] \in Searches /\ Complete(it[I]) /\ \A i \in I : paths[i] \in it[I].seen
  BY <1>6 DEF SearchesOf
<1> HIDE DEF it
<1>8. QED
  BY <1>4, <1>7 DEF Searches, Complete

-----------------------------------------------------------------------------
(* The resolver into which they are loaded *)

ItemOf(d) == Item(d, IntoSettings(TomlIn(d), d))
SettingsIn(folders) == {IntoSettings(TomlIn(d), d) : d \in folders}

\* The lists that hold the settings of these directories
Loaded(all, folders) ==
  {list \in Seq(PathItems(all, SettingsIn(all))) :
     Sorted(list) /\ \A x : x \in Range(list) <=> \E d \in folders : x = ItemOf(d)}

LEMMA LoadedIs ==
  ASSUME NEW folders, folders \subseteq Path, IsFiniteSet(folders)
  PROVE  FoldSet(LAMBDA d, items : Added(items, d, IntoSettings(TomlIn(d), d)), <<>>, folders)
           \in Loaded(folders, folders)
<1> DEFINE Items == Seq(PathItems(folders, SettingsIn(folders)))
           c == [s \in SUBSET folders |-> CHOOSE x \in s : TRUE]
           g == [p \in folders \X Items |-> Added(p[2], p[1], IntoSettings(TomlIn(p[1]), p[1]))]
           R == [s \in SUBSET folders |-> Loaded(folders, s)]
           Fold(iter) == iter = [s \in SUBSET folders |->
                           IF s = {} THEN <<>>
                           ELSE Added(iter[s \ {CHOOSE x \in s : TRUE}], CHOOSE x \in s : TRUE,
                                      IntoSettings(TomlIn(CHOOSE x \in s : TRUE), CHOOSE x \in s : TRUE))]
           it == CHOOSE iter : Fold(iter)
<1>1. <<>> \in Loaded(folders, {})
  <2>1. <<>> \in Items
    OBVIOUS
  <2>2. Sorted(<<>>) /\ \A x : x \notin Range(<<>>)
    BY DEF Sorted, Range
  <2>3. QED
    BY <2>1, <2>2 DEF Loaded
<1>2. ASSUME NEW s \in SUBSET folders, NEW d \in s, NEW list \in Loaded(folders, s \ {d})
      PROVE  Added(list, d, IntoSettings(TomlIn(d), d)) \in Loaded(folders, s)
  <2> DEFINE v == IntoSettings(TomlIn(d), d)
             V == SettingsIn(folders)
             new == Added(list, d, v)
  <2>1. list \in Seq(PathItems(folders, V)) /\ Sorted(list) /\ d \in folders
    BY DEF Loaded
  <2>2. Item(d, v) \in PathItems(folders, V)
    BY DEF Item, PathItems, SettingsIn
  <2>3. \A x : x \in Range(list) <=> \E e \in s \ {d} : x = ItemOf(e)
    BY DEF Loaded
  <2> HIDE DEF v, V
  <2>4. /\ new \in Seq(PathItems(folders, V)) /\ Sorted(new)
        /\ \A x : x \in Range(new) <=> \/ x \in Range(list) /\ x.path # d
                                       \/ x = Item(d, v)
    BY <2>1, <2>2, AddedIs
  <2>5. \A e : ItemOf(e).path = e
    BY DEF ItemOf, Item
  <2>6. Item(d, v) = ItemOf(d)
    BY DEF v, ItemOf
  <2> HIDE DEF new
  <2>7. \A x : x \in Range(new) <=> \E e \in s : x = ItemOf(e)
    BY <2>3, <2>4, <2>5, <2>6
  <2>8. QED
    BY <2>4, <2>7 DEF Loaded, new, v, V
<1>c. \A s \in SUBSET folders : s # {} => c[s] \in s /\ c[s] = CHOOSE x \in s : TRUE
  OBVIOUS
<1>3. \E iter : Fold(iter)
  <2>1. \A s \in SUBSET folders : R[s] = Loaded(folders, s)
    OBVIOUS
  <2>2. \A d \in folders, list \in Items : g[<<d, list>>] = Added(list, d, IntoSettings(TomlIn(d), d))
    OBVIOUS
  <2>l. \A s, list : list \in Loaded(folders, s) => list \in Items
    BY DEF Loaded
  <2> HIDE DEF Items, c, g, R
  <2>3. PICK iter : /\ Iterates(iter, folders, <<>>, c, g)
                    /\ \A s \in SUBSET folders : iter[s] \in R[s]
    <3>1. \A s \in SUBSET folders : s # {} => \A v \in R[s \ {c[s]}] : g[<<c[s], v>>] \in R[s]
      <4>1. ASSUME NEW s \in SUBSET folders, s # {}, NEW v \in R[s \ {c[s]}]
            PROVE  g[<<c[s], v>>] \in R[s]
        <5>1. c[s] \in s /\ c[s] \in folders /\ v \in Loaded(folders, s \ {c[s]}) /\ v \in Items
          BY <4>1, <1>c, <2>1, <2>l
        <5>2. g[<<c[s], v>>] = Added(v, c[s], IntoSettings(TomlIn(c[s]), c[s]))
          BY <5>1, <2>2
        <5>3. QED
          BY <5>1, <5>2, <1>2, <2>1
      <4>2. QED
        BY <4>1
    <3>2. <<>> \in R[{}] /\ \A s \in SUBSET folders : s # {} => c[s] \in s
      BY <1>1, <1>c, <2>1
    <3>3. QED
      BY <3>1, <3>2, IterationTyped
  <2>4. ASSUME NEW s \in SUBSET folders, s # {}
        PROVE  g[<<c[s], iter[s \ {c[s]}]>>] =
                 Added(iter[s \ {CHOOSE x \in s : TRUE}], CHOOSE x \in s : TRUE,
                       IntoSettings(TomlIn(CHOOSE x \in s : TRUE), CHOOSE x \in s : TRUE))
    <3>1. c[s] \in folders /\ iter[s \ {c[s]}] \in Items
      BY <2>1, <2>3, <2>4, <1>c, <2>l
    <3>2. QED
      BY <2>2, <2>4, <3>1, <1>c
  <2>5. Fold(iter)
    BY <2>3, <2>4, Zenon DEF Iterates
  <2>6. QED
    BY <2>5
<1>4. FoldSet(LAMBDA d, items : Added(items, d, IntoSettings(TomlIn(d), d)), <<>>, folders) = it[folders]
  BY DEF FoldSet, MapThenFoldSet
<1>5. Fold(it)
  BY <1>3
<1> DEFINE P == {s \in SUBSET folders : it[s] \in Loaded(folders, s)}
<1>6. SUBSET folders \subseteq P
  <2>1. {} \in P
    BY <1>1, <1>5
  <2>2. ASSUME NEW s \in SUBSET folders, s # {}, s \ {CHOOSE x \in s : TRUE} \in P
        PROVE  s \in P
    <3>1. it[s] = Added(it[s \ {CHOOSE x \in s : TRUE}], CHOOSE x \in s : TRUE,
                        IntoSettings(TomlIn(CHOOSE x \in s : TRUE), CHOOSE x \in s : TRUE))
      BY <1>5, <2>2
    <3>2. (CHOOSE x \in s : TRUE) \in s
      BY <2>2
    <3> DEFINE d == CHOOSE x \in s : TRUE
    <3>3. it[s \ {d}] \in Loaded(folders, s \ {d})
      BY <2>2
    <3> HIDE DEF d, it
    <3>4. Added(it[s \ {d}], d, IntoSettings(TomlIn(d), d)) \in Loaded(folders, s)
      BY <1>2, <3>2, <3>3 DEF d
    <3>5. QED
      BY <3>1, <3>4 DEF d
  <2>3. \A s \in SUBSET folders : s # {} => \E x \in s : s \ {x} \in P => s \in P
    BY <2>2
  <2> HIDE DEF P
  <2>4. QED
    BY <2>1, <2>3, SubsetInduction
<1>7. QED
  BY <1>4, <1>6

-----------------------------------------------------------------------------
(* The settings of a path *)

\* No pattern of an air.toml whitelists anything.
NoWhitelists ==
  \A d \in DOMAIN tomls : tomls[d] \in {Absent, Broken}
    \/ \A i \in DOMAIN tomls[d].exclude : ~tomls[d].exclude[i].whitelist

\* The settings of a path are those of a directory it is in, and of all that lies
\* between the two.
Fits(list) ==
  \A path \in Path :
    LET settings == SettingsOf(list, path)
    IN  /\ settings.exclude.root \in Path /\ StartsWith(path, settings.exclude.root)
        /\ settings.exclude.globs \in Seq(Glob)
        /\ NoWhitelists =>
             \A i \in DOMAIN settings.exclude.globs : ~settings.exclude.globs[i].whitelist
        /\ \A n \in Len(settings.exclude.root) .. Len(path) : SettingsOf(list, Up(path, n)) = settings

Closest(folders, path, d) ==
  /\ d \in folders /\ StartsWith(path, d)
  /\ \A e \in folders : StartsWith(path, e) =>
       Len(e) <= Len(d) /\ (Len(e) = Len(d) => e = d)

LEMMA SettingsAreOfClosest ==
  ASSUME NEW folders, folders \subseteq Path, NEW list \in Loaded(folders, folders), NEW path \in Path
  PROVE  \/ /\ \A d \in folders : ~StartsWith(path, d)
            /\ SettingsOf(list, path) = DefaultSettings
         \/ \E d \in folders : /\ Closest(folders, path, d)
                               /\ SettingsOf(list, path) = IntoSettings(TomlIn(d), d)
<1> DEFINE V == SettingsIn(folders)
<1>1. /\ list \in Seq(PathItems(folders, V)) /\ Sorted(list)
      /\ \A x : x \in Range(list) <=> \E d \in folders : x = ItemOf(d)
  BY DEF Loaded
<1>2. \A d : ItemOf(d).path = d /\ ItemOf(d).value = IntoSettings(TomlIn(d), d)
  BY DEF ItemOf, Item
<1>3. \A d : d \in folders <=> d \in Keys(list)
  <2>1. \A d : d \in Keys(list) <=> \E x \in Range(list) : x.path = d
    BY DEF Keys, Range
  <2> HIDE DEF V
  <2>2. QED
    BY <1>1, <1>2, <2>1
<1> HIDE DEF V
<1>4. CASE Matches(list, path) = {}
  <2>1. SettingsOf(list, path) = DefaultSettings
    BY <1>4 DEF SettingsOf, Resolved
  <2>2. \A i \in DOMAIN list : ~StartsWith(path, list[i].path)
    BY <1>4 DEF Matches
  <2>3. \A d \in Keys(list) : ~StartsWith(path, d)
    BY <2>2 DEF Keys
  <2>4. QED
    BY <1>3, <2>1, <2>3
<1>5. CASE Matches(list, path) # {}
  <2> DEFINE m == LastMatch(list, path)
  <2>1. /\ m \in DOMAIN list /\ StartsWith(path, list[m].path)
        /\ \A e \in Keys(list) : StartsWith(path, e) =>
             /\ Len(e) <= Len(list[m].path)
             /\ Len(e) = Len(list[m].path) => e = list[m].path
    BY <1>1, <1>5, LastMatchIs
  <2>2. SettingsOf(list, path) = list[m].value
    BY <1>5 DEF SettingsOf, Resolved
  <2> HIDE DEF m
  <2>3. list[m] \in Range(list)
    BY <2>1 DEF Range
  <2>4. PICK d \in folders : list[m] = ItemOf(d)
    BY <1>1, <2>3
  <2>5. list[m].path = d /\ list[m].value = IntoSettings(TomlIn(d), d)
    BY <1>2, <2>4
  <2>6. QED
    BY <1>3, <2>1, <2>2, <2>5 DEF Closest
<1>6. QED
  BY <1>4, <1>5

LEMMA SettingsOfPrefix ==
  ASSUME NEW folders, folders \subseteq Path, NEW list \in Loaded(folders, folders), NEW path \in Path,
         NEW d \in folders, Closest(folders, path, d), NEW n \in Len(d) .. Len(path)
  PROVE  SettingsOf(list, Up(path, n)) = IntoSettings(TomlIn(d), d)
<1>1. /\ n \in 0 .. Len(path) /\ d \in Path /\ StartsWith(path, d) /\ Len(d) <= n
  BY DEF Closest, Path
<1>2. Up(path, n) \in Path /\ StartsWith(path, Up(path, n)) /\ StartsWith(Up(path, n), d)
  BY <1>1, PrefixIs, PrefixOfPrefix
<1>3. \A e \in folders : StartsWith(Up(path, n), e) => StartsWith(path, e)
  BY <1>2, StartsTransitive
<1>4. PICK e \in folders : /\ Closest(folders, Up(path, n), e)
                           /\ SettingsOf(list, Up(path, n)) = IntoSettings(TomlIn(e), e)
  BY <1>2, SettingsAreOfClosest
<1>5. Len(e) <= Len(d) /\ Len(d) <= Len(e) /\ Len(e) \in Nat /\ Len(d) \in Nat
  BY <1>1, <1>2, <1>3, <1>4 DEF Closest, Path
<1>6. Len(e) = Len(d)
  BY <1>5
<1>7. e = d
  BY <1>1, <1>3, <1>4, <1>6 DEF Closest
<1>8. QED
  BY <1>4, <1>7

LEMMA SettingsOfNone ==
  ASSUME NEW folders, folders \subseteq Path, NEW list \in Loaded(folders, folders), NEW path \in Path,
         \A d \in folders : ~StartsWith(path, d), NEW n \in 0 .. Len(path)
  PROVE  SettingsOf(list, Up(path, n)) = DefaultSettings
<1>1. Up(path, n) \in Path /\ StartsWith(path, Up(path, n))
  BY PrefixIs
<1>2. \A e \in folders : ~StartsWith(Up(path, n), e)
  BY <1>1, StartsTransitive
<1>3. QED
  BY <1>1, <1>2, SettingsAreOfClosest DEF Closest

LEMMA LoadedFits ==
  ASSUME tomls \in Tomls, NEW folders, folders \subseteq Path, NEW list \in Loaded(folders, folders),
         \A d \in folders : TomlIn(d) \notin {Absent, Broken}
  PROVE  Fits(list)
<1>1. SUFFICES ASSUME NEW path \in Path
               PROVE  LET settings == SettingsOf(list, path)
                      IN  /\ settings.exclude.root \in Path /\ StartsWith(path, settings.exclude.root)
                          /\ settings.exclude.globs \in Seq(Glob)
                          /\ NoWhitelists =>
                               \A i \in DOMAIN settings.exclude.globs : ~settings.exclude.globs[i].whitelist
                          /\ \A n \in Len(settings.exclude.root) .. Len(path) :
                               SettingsOf(list, Up(path, n)) = settings
  BY DEF Fits
<1> DEFINE settings == SettingsOf(list, path)
<1>2. CASE \A d \in folders : ~StartsWith(path, d)
  <2>1. settings = DefaultSettings
    BY <1>2, SettingsAreOfClosest DEF Closest
  <2>2. DefaultSettings.exclude.root = <<>> /\ DefaultSettings.exclude.globs = <<>>
    BY DEF DefaultSettings, FilePatterns
  <2>3. <<>> \in Path /\ <<>> \in Seq(Glob) /\ Len(<<>>) = 0 /\ DOMAIN <<>> = {}
    BY EmptySeq DEF Path
  <2>4. StartsWith(path, <<>>)
    BY <2>3 DEF StartsWith, Path
  <2>5. \A n \in 0 .. Len(path) : SettingsOf(list, Up(path, n)) = settings
    BY <1>2, <2>1, SettingsOfNone
  <2>6. QED
    BY <2>1, <2>2, <2>3, <2>4, <2>5
<1>3. CASE \E d \in folders : StartsWith(path, d)
  <2>1. PICK d \in folders : Closest(folders, path, d) /\ settings = IntoSettings(TomlIn(d), d)
    BY <1>3, SettingsAreOfClosest
  <2>2. settings.exclude.root = d /\ settings.exclude.globs = TomlIn(d).exclude
    BY <2>1 DEF IntoSettings, FilePatterns
  <2>3. d \in DOMAIN tomls /\ TomlIn(d) = tomls[d] /\ tomls[d] \notin {Absent, Broken}
    BY DEF TomlIn
  <2>4. tomls[d].exclude \in Seq(Glob)
    BY <2>3, TomlsAssumption
  <2>5. NoWhitelists => \A i \in DOMAIN tomls[d].exclude : ~tomls[d].exclude[i].whitelist
    BY <2>3 DEF NoWhitelists
  <2>6. \A n \in Len(d) .. Len(path) : SettingsOf(list, Up(path, n)) = settings
    BY <2>1, SettingsOfPrefix
  <2>7. d \in Path /\ StartsWith(path, d)
    BY <2>1 DEF Closest
  <2>8. QED
    BY <2>2, <2>3, <2>4, <2>5, <2>6, <2>7
<1>4. QED
  BY <1>2, <1>3

LEMMA LoadedResolverHolds ==
  ASSUME NEW paths \in Seq(Path)
  PROVE  LoadedResolver(paths) \in Loaded(DiscoveredFolders(paths), DiscoveredFolders(paths))
<1> DEFINE folders == DiscoveredFolders(paths)
           list == LoadedResolver(paths)
<1>1. folders \subseteq Path /\ IsFiniteSet(folders)
  BY DiscoveredIs
<1>2. list = FoldSet(LAMBDA d, items : Added(items, d, IntoSettings(TomlIn(d), d)), <<>>, folders)
  BY DEF LoadedResolver
<1> HIDE DEF folders, list
<1>3. list \in Loaded(folders, folders)
  BY <1>1, <1>2, LoadedIs
<1>4. QED
  BY <1>3 DEF folders, list

LEMMA LoadedResolverFits ==
  ASSUME tomls \in Tomls, NEW paths \in Seq(Path), SettingsDiscoverable(paths)
  PROVE  Fits(LoadedResolver(paths))
<1>1. DiscoveredFolders(paths) \subseteq Path /\ \A d \in DiscoveredFolders(paths) : TomlIn(d) \notin {Absent, Broken}
  BY DiscoveredIs DEF SettingsDiscoverable
<1>2. QED
  BY <1>1, LoadedResolverHolds, LoadedFits

\* What is loaded for some paths gives each of them the settings of the closest
\* air.toml above it, whatever the others are.
LEMMA LoadedResolverIs ==
  ASSUME NEW paths \in Seq(Path), NEW i \in DOMAIN paths
  PROVE  SettingsOf(LoadedResolver(paths), paths[i]) = TomlSettings(paths[i])
<1> DEFINE folders == DiscoveredFolders(paths)
           list == LoadedResolver(paths)
           path == paths[i]
           d == Deepest(TomlsAbove(path))
<1>1. /\ folders \subseteq Path
      /\ \A e \in folders : TomlIn(e) # Absent
      /\ TomlsAbove(path) # {} => d \in folders
  BY DiscoveredIs
<1>2. list \in Loaded(folders, folders)
  BY LoadedResolverHolds
<1>3. path \in Path
  OBVIOUS
<1> HIDE DEF folders, list, path
<1>4. CASE TomlsAbove(path) = {}
  <2>1. \A e \in folders : ~StartsWith(path, e)
    BY <1>1, <1>3, <1>4, AncestorsAre DEF TomlsAbove
  <2>2. SettingsOf(list, path) = DefaultSettings
    BY <1>1, <1>2, <1>3, <2>1, SettingsAreOfClosest DEF Closest
  <2>3. QED
    BY <1>4, <2>2 DEF TomlSettings, list, path
<1>5. CASE TomlsAbove(path) # {}
  <2>1. d \in folders
    BY <1>1, <1>5
  <2>2. /\ d \in Path /\ StartsWith(path, d)
        /\ \A q \in TomlsAbove(path) : Len(q) <= Len(d)
    <3>1. TomlsAbove(path) \subseteq Ancestors(path)
      BY DEF TomlsAbove
    <3>2. QED
      BY <1>3, <1>5, <3>1, DeepestIs
  <2> HIDE DEF d
  <2>3. PICK e \in folders : /\ Closest(folders, path, e)
                             /\ SettingsOf(list, path) = IntoSettings(TomlIn(e), e)
    BY <1>1, <1>2, <1>3, <2>1, <2>2, SettingsAreOfClosest
  <2>4. e \in TomlsAbove(path)
    BY <1>1, <1>3, <2>3, AncestorsAre DEF TomlsAbove, Closest
  <2>5. Len(e) <= Len(d) /\ Len(d) <= Len(e) /\ Len(e) \in Nat /\ Len(d) \in Nat
    BY <1>1, <2>1, <2>2, <2>3, <2>4 DEF Closest, Path
  <2>6. Len(d) = Len(e)
    BY <2>5
  <2>7. e = d
    BY <2>1, <2>2, <2>3, <2>6 DEF Closest
  <2>8. QED
    BY <1>5, <2>3, <2>7 DEF TomlSettings, d, path, list
<1>6. QED
  BY <1>4, <1>5

-----------------------------------------------------------------------------
(* What is excluded, on the way down to a file *)

Denied(settings, file, n) == Matched(settings.exclude, Up(file, n), n < Len(file))
Says(settings, file, n) ==
  Deciding(settings.exclude, Stripped(settings.exclude, Up(file, n)), n < Len(file))
DefaultDenied(file, n) == Matched(FilePatterns(<<>>, DefaultExcluded), Up(file, n), n < Len(file))

LEMMA ExcludedIs ==
  ASSUME NEW file \in Files, NEW n \in 0 .. Len(file), NEW settings
  PROVE  AnyExcludeMatchedPath(Up(file, n), IsDirectory(Up(file, n)), settings) <=>
           \/ Denied(settings, file, n)
           \/ settings.defaultExclude /\ DefaultDenied(file, n)
<1>1. IsDirectory(Up(file, n)) = (n < Len(file))
  BY DirectoriesOnTheWay DEF IsDirectory
<1>2. QED
  BY <1>1 DEF AnyExcludeMatchedPath, Denied, DefaultDenied

LEMMA ExcludedWithParentsIs ==
  ASSUME NEW file \in Files, NEW m \in 0 .. Len(file), NEW settings,
         settings.exclude.root \in Path, StartsWith(Up(file, m), settings.exclude.root)
  PROVE  AnyExcludeMatchedPathOrAnyParents(Up(file, m), IsDirectory(Up(file, m)), settings) <=>
           \/ \E n \in Len(settings.exclude.root) + 1 .. m :
                Denied(settings, file, n) /\ \A k \in n + 1 .. m : Says(settings, file, k) = 0
           \/ settings.defaultExclude /\ \E n \in 1 .. m : DefaultDenied(file, n)
<1> DEFINE patterns == settings.exclude
           r == Len(patterns.root)
           path == Up(file, m)
           b == IsDirectory(path)
<1>1. /\ file \in Path /\ path \in Path /\ Len(path) = m /\ Len(file) \in Nat
      /\ b = (m < Len(file)) /\ b \in BOOLEAN /\ r \in Nat
  <2>1. file \in Path
    BY DirectoriesOnTheWay
  <2>2. path \in Path /\ Len(path) = m
    BY <2>1, PrefixIs
  <2>3. b = (m < Len(file))
    BY DirectoriesOnTheWay DEF IsDirectory
  <2>4. b \in BOOLEAN
    BY DEF IsDirectory
  <2>5. Len(file) \in Nat /\ r \in Nat
    BY <2>1 DEF Path
  <2> HIDE DEF b, path, r
  <2>6. QED
    BY <2>1, <2>2, <2>3, <2>4, <2>5
<1>2. \A n \in 1 .. m : Up(path, n) = Up(file, n) /\ (n < m \/ b) = (n < Len(file))
  <2>1. TAKE n \in 1 .. m
  <2>2. n \in 0 .. m
    OBVIOUS
  <2>3. Up(path, n) = Up(file, n)
    BY <1>1, <2>2, PrefixShorter
  <2> HIDE DEF b
  <2>4. (n < m \/ m < Len(file)) = (n < Len(file))
    BY <1>1
  <2>5. (n < m \/ b) = (n < Len(file))
    BY <1>1, <2>4, Zenon
  <2>6. QED
    BY <2>3, <2>5, Zenon
<1> HIDE DEF b, path
<1>3. DefaultMatchedOrParents(DefaultExcluded, path, b) <=> \E n \in 1 .. m : DefaultDenied(file, n)
  <2>1. DefaultMatchedOrParents(DefaultExcluded, path, b) <=>
          \E n \in 1 .. Len(path) :
            Matched(FilePatterns(<<>>, DefaultExcluded), Up(path, n), n < Len(path) \/ b)
    BY <1>1, DefaultIs
  <2>2. \A n \in 1 .. m :
          Matched(FilePatterns(<<>>, DefaultExcluded), Up(path, n), n < Len(path) \/ b)
            <=> DefaultDenied(file, n)
    BY <1>1, <1>2 DEF DefaultDenied
  <2>3. QED
    BY <1>1, <2>1, <2>2
<1>4. MatchedOrParents(patterns, path, b) <=>
        \E n \in r + 1 .. m : Denied(settings, file, n) /\ \A k \in n + 1 .. m : Says(settings, file, k) = 0
  <2> HIDE DEF patterns
  <2>1. MatchedOrParents(patterns, path, b) <=>
           \E n \in Len(patterns.root) + 1 .. Len(path) :
             /\ Matched(patterns, Up(path, n), n < Len(path) \/ b)
             /\ \A k \in n + 1 .. Len(path) :
                  Deciding(patterns, Stripped(patterns, Up(path, k)), k < Len(path) \/ b) = 0
    <3>1. patterns.root \in Path /\ StartsWith(path, patterns.root)
      BY DEF patterns, path
    <3>2. QED
      BY <1>1, <3>1, MatchedOrParentsIs
  <2>2. \A n \in 1 .. m :
          /\ Matched(patterns, Up(path, n), n < m \/ b) <=> Denied(settings, file, n)
          /\ Deciding(patterns, Stripped(patterns, Up(path, n)), n < m \/ b) = Says(settings, file, n)
    BY <1>2 DEF Denied, Says, patterns
  <2>3. \A n \in r + 1 .. m : n \in 1 .. m /\ \A k \in n + 1 .. m : k \in 1 .. m
    BY <1>1
  <2>4. QED
    BY <1>1, <2>1, <2>2, <2>3
<1>5. QED
  BY <1>3, <1>4 DEF AnyExcludeMatchedPathOrAnyParents, b, path

\* Without a whitelist any parent that is denied is enough.
LEMMA SimplyDenied ==
  ASSUME NEW file, NEW settings, settings.exclude.globs \in Seq(Glob), NEW r \in Nat, NEW m \in Nat,
         \A i \in DOMAIN settings.exclude.globs : ~settings.exclude.globs[i].whitelist
  PROVE  (\E n \in r + 1 .. m :
            Denied(settings, file, n) /\ \A k \in n + 1 .. m : Says(settings, file, k) = 0)
           <=> \E n \in r + 1 .. m : Denied(settings, file, n)
<1>1. ASSUME NEW k, Says(settings, file, k) # 0
      PROVE  Denied(settings, file, k)
  <2> DEFINE p == Stripped(settings.exclude, Up(file, k))
             b == k < Len(file)
             says == Deciding(settings.exclude, p, b)
             patterns == settings.exclude
  <2>1. says # 0
    BY <1>1 DEF Says
  <2>2. says \in DOMAIN settings.exclude.globs
    <3>1. patterns.globs \in Seq(Glob)
      OBVIOUS
    <3> HIDE DEF p, b, patterns
    <3>2. Deciding(patterns, p, b) = 0 \/ Deciding(patterns, p, b) \in DOMAIN patterns.globs
      BY <3>1, DecidingIs
    <3>3. QED
      BY <2>1, <3>2 DEF patterns
  <2>3. Ignores(settings.exclude, p, b)
    BY <2>1, <2>2 DEF Ignores
  <2>4. QED
    BY <2>3 DEF Denied, Matched
<1>2. ASSUME NEW n \in r + 1 .. m, Denied(settings, file, n)
      PROVE  \E l \in r + 1 .. m :
               Denied(settings, file, l) /\ \A k \in l + 1 .. m : Says(settings, file, k) = 0
  <2> DEFINE T == {l \in r + 1 .. m : Denied(settings, file, l)}
  <2>1. T \subseteq 1 .. m /\ T # {}
    BY <1>2
  <2>2. Max(T) \in T /\ \A l \in T : l <= Max(T)
    <3> HIDE DEF T
    <3>1. QED
      BY <2>1, MaxIs
  <2>3. ASSUME NEW k \in Max(T) + 1 .. m
        PROVE  Says(settings, file, k) = 0
    <3>1. Max(T) \in r + 1 .. m
      BY <2>2
    <3>2. k \in r + 1 .. m /\ ~ k <= Max(T)
      BY <3>1
    <3>3. k \notin T
      BY <2>2, <3>2
    <3>4. QED
      BY <1>1, <3>2, <3>3
  <2>4. QED
    BY <2>2, <2>3
<1>3. QED
  BY <1>2

-----------------------------------------------------------------------------
(* The ways to a file *)

LEMMA WaysAre ==
  ASSUME supplied \in Seq(Path), NEW file \in Files
  PROVE  /\ Ways(file) \subseteq DOMAIN supplied
         /\ \A i \in DOMAIN supplied : i \in Ways(file) <=>
              LET root == supplied[i]
                  below == Len(root) + 1 .. Len(file)
              IN  /\ root \in Tree /\ StartsWith(file, root)
                  /\ \A n \in below : Up(file, n) \notin Hidden
                  /\ \/ force
                     \/ /\ ~AnyExcludeMatchedPathOrAnyParents(root, IsDirectory(root), SettingsOf(resolver, root))
                        /\ \A n \in below : ~AnyExcludeMatchedPath(Up(file, n), IsDirectory(Up(file, n)),
                                                                   SettingsOf(resolver, Up(file, n)))
                        /\ AnyIncludeMatchedPath(file)
<1>1. \A root, p : p \in Down(root, file) <=> \E n \in Len(root) + 1 .. Len(file) : p = Up(file, n)
  BY DEF Down, Up
<1>2. QED
  BY <1>1 DEF Ways

\* What a walk finds would be accepted if it were supplied itself.
LEMMA FoundIsFormattable ==
  ASSUME Fits(resolver), supplied \in Seq(Path), NEW file \in Files, DefaultsAgree(file), Ways(file) # {}
  PROVE  IsStdinFormattable(file, SettingsOf(resolver, file), force)
<1>1. PICK i \in DOMAIN supplied : i \in Ways(file)
  BY WaysAre
<1> DEFINE root == supplied[i]
           m == Len(root)
           top == Len(file)
           settings == SettingsOf(resolver, file)
           r == Len(settings.exclude.root)
<1>2. CASE force
  BY <1>2 DEF IsStdinFormattable
<1>3. CASE ~force
  <2>1. /\ root \in Tree /\ StartsWith(file, root)
        /\ ~AnyExcludeMatchedPathOrAnyParents(root, IsDirectory(root), SettingsOf(resolver, root))
        /\ \A n \in m + 1 .. top : ~AnyExcludeMatchedPath(Up(file, n), IsDirectory(Up(file, n)),
                                                          SettingsOf(resolver, Up(file, n)))
        /\ AnyIncludeMatchedPath(file)
    BY <1>1, <1>3, WaysAre
  <2>2. file \in Path /\ root \in Path /\ top \in Nat
    BY TreeAssumption DEF Files, Path
  <2>3. m \in 0 .. top /\ root = Up(file, m)
    BY <2>1, <2>2, PrefixUnique
  <2>4. Up(file, top) = file /\ top \in 0 .. top
    BY <2>2, PrefixIs
  <2>5. /\ settings.exclude.root \in Path /\ StartsWith(file, settings.exclude.root)
        /\ \A n \in r .. top : SettingsOf(resolver, Up(file, n)) = settings
        /\ r \in 0 .. top
    <3>1. settings.exclude.root \in Path /\ StartsWith(file, settings.exclude.root)
      BY <2>2 DEF Fits
    <3>2. QED
      BY <2>2, <3>1, PrefixUnique DEF Fits
  <2>6. \A n \in m .. top : SettingsOf(resolver, Up(file, n)).defaultExclude = settings.defaultExclude
    <3>1. ASSUME NEW n \in m .. top
          PROVE  Up(file, n) \in Down(root, file) \cup {root} /\ StartsWith(file, Up(file, n))
      <4>1. CASE n = m
        BY <2>1, <2>3, <4>1
      <4>2. CASE n # m
        <5>1. n \in m + 1 .. top /\ n \in 0 .. top
          BY <2>3, <4>2
        <5>2. QED
          BY <2>1, <2>2, <5>1, DownIs, PrefixIs
      <4>3. QED
        BY <4>1, <4>2
    <3>2. QED
      BY <3>1 DEF DefaultsAgree
  <2> DEFINE above == SettingsOf(resolver, root)
             a == Len(above.exclude.root)
  <2>7. above.exclude.root \in Path /\ StartsWith(root, above.exclude.root)
    BY <2>2 DEF Fits
  <2>8. /\ ~ \E n \in a + 1 .. m :
                Denied(above, file, n) /\ \A k \in n + 1 .. m : Says(above, file, k) = 0
        /\ ~ (above.defaultExclude /\ \E n \in 1 .. m : DefaultDenied(file, n))
    <3>1. StartsWith(Up(file, m), above.exclude.root)
      BY <2>3, <2>7
    <3>2. ~AnyExcludeMatchedPathOrAnyParents(Up(file, m), IsDirectory(Up(file, m)), above)
      BY <2>1, <2>3
    <3> HIDE DEF above, root, m
    <3>3. QED
      BY <2>3, <2>7, <3>1, <3>2, ExcludedWithParentsIs
  <2>9. \A n \in m + 1 .. top :
          /\ ~Denied(SettingsOf(resolver, Up(file, n)), file, n)
          /\ ~ (SettingsOf(resolver, Up(file, n)).defaultExclude /\ DefaultDenied(file, n))
    <3>1. \A n \in m + 1 .. top : n \in 0 .. Len(file)
      BY <2>3
    <3>2. QED
      BY <2>1, <3>1, ExcludedIs
  <2>10. ~ (settings.defaultExclude /\ \E n \in 1 .. top : DefaultDenied(file, n))
    <3>1. SUFFICES ASSUME settings.defaultExclude, NEW n \in 1 .. top, DefaultDenied(file, n)
                   PROVE  FALSE
      OBVIOUS
    <3>2. above.defaultExclude = settings.defaultExclude
      BY <2>3, <2>6
    <3>3. CASE n <= m
      BY <2>8, <3>1, <3>2, <3>3
    <3>4. CASE n > m
      <4>1. n \in m + 1 .. top /\ n \in m .. top
        BY <2>3, <3>4
      <4>2. QED
        BY <2>6, <2>9, <3>1, <4>1
    <3>5. QED
      BY <2>3, <3>3, <3>4
  <2>11. ~ \E n \in r + 1 .. top :
             Denied(settings, file, n) /\ \A k \in n + 1 .. top : Says(settings, file, k) = 0
    <3>1. SUFFICES ASSUME NEW n \in r + 1 .. top, Denied(settings, file, n),
                          \A k \in n + 1 .. top : Says(settings, file, k) = 0
                   PROVE  FALSE
      OBVIOUS
    <3>2. CASE n <= m
      <4>1. above = settings
        BY <2>3, <2>5, <3>2
      <4>2. n \in a + 1 .. m
        BY <2>3, <2>5, <3>2, <4>1
      <4>3. \A k \in n + 1 .. m : k \in n + 1 .. top
        BY <2>3, <2>5
      <4>4. QED
        BY <2>8, <3>1, <4>1, <4>2, <4>3
    <3>3. CASE n > m
      <4>1. n \in m + 1 .. top /\ n \in r .. top
        BY <2>3, <2>5, <3>3
      <4>2. SettingsOf(resolver, Up(file, n)) = settings
        BY <2>5, <4>1
      <4>3. QED
        BY <2>9, <3>1, <4>1, <4>2
    <3>4. QED
      BY <2>3, <2>5, <3>2, <3>3
  <2>12. ~AnyExcludeMatchedPathOrAnyParents(file, FALSE, settings)
    <3>1. IsDirectory(file) = FALSE
      BY DEF Files, IsDirectory
    <3>2. StartsWith(Up(file, top), settings.exclude.root)
      BY <2>4, <2>5
    <3>3. AnyExcludeMatchedPathOrAnyParents(Up(file, top), IsDirectory(Up(file, top)), settings) <=>
           \/ \E n \in Len(settings.exclude.root) + 1 .. top :
                Denied(settings, file, n) /\ \A k \in n + 1 .. top : Says(settings, file, k) = 0
           \/ settings.defaultExclude /\ \E n \in 1 .. top : DefaultDenied(file, n)
      <4> HIDE DEF settings
      <4>1. QED
        BY <2>4, <2>5, <3>2, ExcludedWithParentsIs
    <3>4. ~AnyExcludeMatchedPathOrAnyParents(Up(file, top), IsDirectory(Up(file, top)), settings)
      BY <2>10, <2>11, <3>3
    <3>5. QED
      BY <2>4, <3>1, <3>4
  <2>13. QED
    BY <2>1, <2>12 DEF IsStdinFormattable
<1>4. QED
  BY <1>2, <1>3
\* What would be accepted if it were supplied itself is reached by a walk, if nothing
\* on the way is hidden or has other settings.
LEMMA FormattableIsReached ==
  ASSUME Fits(resolver), supplied \in Seq(Path), NoWhitelists, NEW file \in Files, file \in Tree,
         NEW i \in DOMAIN supplied, supplied[i] \in Tree, StartsWith(file, supplied[i]),
         Down(supplied[i], file) \cap Hidden = {},
         \A p \in Down(supplied[i], file) \cup {supplied[i]} :
           SettingsOf(resolver, p) = SettingsOf(resolver, file),
         IsStdinFormattable(file, SettingsOf(resolver, file), force)
  PROVE  i \in Ways(file)
<1> DEFINE root == supplied[i]
           m == Len(root)
           top == Len(file)
           settings == SettingsOf(resolver, file)
           r == Len(settings.exclude.root)
<1>1. file \in Path /\ root \in Path /\ top \in Nat
  BY TreeAssumption DEF Files, Path
<1>2. m \in 0 .. top /\ root = Up(file, m) /\ \A n \in m + 1 .. top : Up(file, n) \in Down(root, file)
  BY <1>1, DownIs
<1>3. Up(file, top) = file /\ top \in 0 .. top
  BY <1>1, PrefixIs
<1>4. \A n \in m + 1 .. top : Up(file, n) \notin Hidden
  BY <1>2
<1>5. CASE force
  <2> HIDE DEF root, top
  <2>1. QED
    BY <1>4, <1>5, WaysAre DEF root, top
<1>6. CASE ~force
  <2>1. ~AnyExcludeMatchedPathOrAnyParents(file, FALSE, settings) /\ AnyIncludeMatchedPath(file)
    BY <1>6 DEF IsStdinFormattable
  <2>2. /\ settings.exclude.root \in Path /\ StartsWith(file, settings.exclude.root)
        /\ StartsWith(root, settings.exclude.root)
        /\ settings.exclude.globs \in Seq(Glob)
        /\ \A k \in DOMAIN settings.exclude.globs : ~settings.exclude.globs[k].whitelist
    <3>1. SettingsOf(resolver, root) = settings
      OBVIOUS
    <3>2. /\ settings.exclude.root \in Path /\ StartsWith(file, settings.exclude.root)
          /\ settings.exclude.globs \in Seq(Glob)
          /\ \A k \in DOMAIN settings.exclude.globs : ~settings.exclude.globs[k].whitelist
      BY <1>1 DEF Fits
    <3>3. StartsWith(root, SettingsOf(resolver, root).exclude.root)
      BY <1>1 DEF Fits
    <3>4. QED
      BY <3>1, <3>2, <3>3
  <2>r. r \in Nat /\ r <= m
    BY <2>2 DEF StartsWith, Path
  <2>3. IsDirectory(file) = FALSE
    BY DEF Files, IsDirectory
  <2>4. ASSUME NEW l \in 0 .. top, StartsWith(Up(file, l), settings.exclude.root)
        PROVE  AnyExcludeMatchedPathOrAnyParents(Up(file, l), IsDirectory(Up(file, l)), settings) <=>
                 \/ \E n \in r + 1 .. l : Denied(settings, file, n)
                 \/ settings.defaultExclude /\ \E n \in 1 .. l : DefaultDenied(file, n)
    <3> HIDE DEF settings
    <3>1. AnyExcludeMatchedPathOrAnyParents(Up(file, l), IsDirectory(Up(file, l)), settings) <=>
            \/ \E n \in r + 1 .. l :
                 Denied(settings, file, n) /\ \A k \in n + 1 .. l : Says(settings, file, k) = 0
            \/ settings.defaultExclude /\ \E n \in 1 .. l : DefaultDenied(file, n)
      BY <2>2, <2>4, ExcludedWithParentsIs
    <3>2. l \in Nat
      OBVIOUS
    <3>3. (\E n \in r + 1 .. l :
             Denied(settings, file, n) /\ \A k \in n + 1 .. l : Says(settings, file, k) = 0)
            <=> \E n \in r + 1 .. l : Denied(settings, file, n)
      BY <2>2, <2>r, <3>2, SimplyDenied
    <3>4. QED
      BY <3>1, <3>3
  <2>5. /\ \A n \in r + 1 .. top : ~Denied(settings, file, n)
        /\ settings.defaultExclude => \A n \in 1 .. top : ~DefaultDenied(file, n)
    <3>1. ~AnyExcludeMatchedPathOrAnyParents(Up(file, top), IsDirectory(Up(file, top)), settings)
      BY <1>3, <2>1, <2>3
    <3>2. StartsWith(Up(file, top), settings.exclude.root)
      BY <1>3, <2>2
    <3> HIDE DEF settings, r
    <3>3. QED
      BY <1>3, <2>4, <3>1, <3>2
  <2>6. ~AnyExcludeMatchedPathOrAnyParents(root, IsDirectory(root), SettingsOf(resolver, root))
    <3>1. SettingsOf(resolver, root) = settings
      OBVIOUS
    <3>2. StartsWith(Up(file, m), settings.exclude.root)
      BY <1>2, <2>2
    <3>3. \A n \in r + 1 .. m : n \in r + 1 .. top
      BY <1>2, <2>r
    <3>4. \A n \in 1 .. m : n \in 1 .. top
      BY <1>2
    <3> HIDE DEF settings, r, root, m
    <3>5. ~AnyExcludeMatchedPathOrAnyParents(Up(file, m), IsDirectory(Up(file, m)), settings)
      BY <1>2, <2>4, <2>5, <3>2, <3>3, <3>4
    <3>6. QED
      BY <1>2, <3>1, <3>5
  <2>7. ASSUME NEW n \in m + 1 .. top
        PROVE  ~AnyExcludeMatchedPath(Up(file, n), IsDirectory(Up(file, n)), SettingsOf(resolver, Up(file, n)))
    <3>1. SettingsOf(resolver, Up(file, n)) = settings
      BY <1>2
    <3>2. n \in 0 .. top /\ n \in 1 .. top /\ n \in r + 1 .. top
      BY <1>2, <2>r
    <3> HIDE DEF settings, r
    <3>3. ~AnyExcludeMatchedPath(Up(file, n), IsDirectory(Up(file, n)), settings)
      BY <2>5, <3>2, ExcludedIs
    <3>4. QED
      BY <3>1, <3>3
  <2>8. QED
    BY <1>4, <2>1, <2>6, <2>7, WaysAre
<1>7. QED
  BY <1>5, <1>6

\* A file that is supplied is found if it is accepted.
LEMMA AcceptedIsReached ==
  ASSUME supplied \in Seq(Path), NEW i \in DOMAIN supplied, supplied[i] \in Files,
         IsStdinFormattable(supplied[i], SettingsOf(resolver, supplied[i]), force)
  PROVE  i \in Ways(supplied[i])
<1> DEFINE file == supplied[i]
<1>1. file \in Tree /\ file \in Path /\ IsDirectory(file) = FALSE
  BY DEF Files, IsDirectory
<1>2. StartsWith(file, file)
  BY <1>1, StartsWithItself
<1>3. Len(file) + 1 .. Len(file) = {}
  <2>1. Len(file) \in Nat
    BY <1>1 DEF Path
  <2> HIDE DEF file
  <2>2. QED
    BY <2>1
<1>4. force \/ (~AnyExcludeMatchedPathOrAnyParents(file, FALSE, SettingsOf(resolver, file))
                /\ AnyIncludeMatchedPath(file))
  BY DEF IsStdinFormattable
<1>5. QED
  BY <1>1, <1>2, <1>3, <1>4, WaysAre

-----------------------------------------------------------------------------
(* Bags, by how often something is in them *)

Times(bag, e) == IF BagIn(e, bag) THEN bag[e] ELSE 0

LEMMA TimesInEmpty == \A e : Times(EmptyBag, e) = 0
  BY DEF Times, EmptyBag, SetToBag, BagIn, BagToSet

LEMMA TimesIs ==
  ASSUME NEW bag, IsABag(bag), NEW e
  PROVE  Times(bag, e) \in Nat /\ (BagIn(e, bag) <=> Times(bag, e) # 0)
  BY DEF Times, IsABag, BagIn, BagToSet

LEMMA BagSumIs ==
  ASSUME NEW B, NEW C, IsABag(B), IsABag(C)
  PROVE  /\ IsABag(B (+) C) /\ DOMAIN (B (+) C) = DOMAIN B \cup DOMAIN C
         /\ \A e : Times(B (+) C, e) = Times(B, e) + Times(C, e)
<1>1. /\ DOMAIN (B (+) C) = DOMAIN B \cup DOMAIN C
      /\ \A e \in DOMAIN B \cup DOMAIN C : (B (+) C)[e] = Times(B, e) + Times(C, e)
  BY DEF (+), Times, BagIn, BagToSet
<1>2. \A e : Times(B, e) \in Nat /\ Times(C, e) \in Nat
  BY TimesIs
<1>3. \A e : /\ e \in DOMAIN B => Times(B, e) > 0
             /\ e \in DOMAIN C => Times(C, e) > 0
             /\ e \notin DOMAIN B => Times(B, e) = 0
             /\ e \notin DOMAIN C => Times(C, e) = 0
  BY DEF Times, IsABag, BagIn, BagToSet
<1>4. IsABag(B (+) C)
  <2>1. \A e \in DOMAIN B \cup DOMAIN C : (B (+) C)[e] \in {n \in Nat : n > 0}
    BY <1>1, <1>2, <1>3
  <2>2. B (+) C = [e \in DOMAIN B \cup DOMAIN C |-> (B (+) C)[e]]
    BY DEF (+)
  <2>3. QED
    BY <1>1, <2>1, <2>2 DEF IsABag
<1>5. ASSUME NEW e
      PROVE  Times(B (+) C, e) = Times(B, e) + Times(C, e)
  <2>1. CASE e \in DOMAIN B \cup DOMAIN C
    BY <1>1, <2>1 DEF Times, BagIn, BagToSet
  <2>2. CASE e \notin DOMAIN B \cup DOMAIN C
    BY <1>1, <1>3, <2>2 DEF Times, BagIn, BagToSet
  <2>3. QED
    BY <2>1, <2>2
<1>6. QED
  BY <1>1, <1>4, <1>5

LEMMA OneMoreIs ==
  ASSUME NEW B, IsABag(B), NEW x
  PROVE  /\ IsABag(B (+) SetToBag({x})) /\ DOMAIN (B (+) SetToBag({x})) = DOMAIN B \cup {x}
         /\ Times(B (+) SetToBag({x}), x) = Times(B, x) + 1
         /\ \A e : e # x => Times(B (+) SetToBag({x}), e) = Times(B, e)
<1>1. IsABag(SetToBag({x})) /\ DOMAIN SetToBag({x}) = {x}
  BY DEF SetToBag, IsABag
<1>2. Times(SetToBag({x}), x) = 1 /\ \A e : e # x => Times(SetToBag({x}), e) = 0
  BY DEF SetToBag, Times, BagIn, BagToSet
<1>3. \A e : Times(B, e) \in Nat
  BY TimesIs
<1>4. /\ IsABag(B (+) SetToBag({x})) /\ DOMAIN (B (+) SetToBag({x})) = DOMAIN B \cup {x}
      /\ \A e : Times(B (+) SetToBag({x}), e) = Times(B, e) + Times(SetToBag({x}), e)
  BY <1>1, BagSumIs
<1>5. \A e : Times(B, e) + 0 = Times(B, e)
  BY <1>3
<1>6. QED
  BY <1>2, <1>4, <1>5

-----------------------------------------------------------------------------
(* The account of a walk: of the ways W to a file those are awaited on which there *)
(* is still an entry of the work w, and each other is held by one visitor, or was  *)
(* handed over, by none.                                                           *)

AwaitedIn(W, w, file) == {i \in W : \E e \in w : e.root = i /\ StartsWith(file, e.path)}

Holders(vs) == {{}} \cup {{t} : t \in DOMAIN vs}

HeldBy(holder, h) == {i \in DOMAIN holder : holder[i] = h}

Counted(W, w, vs, fs, file) ==
  \E holder \in [W \ AwaitedIn(W, w, file) -> Holders(vs)] :
    /\ Times(fs, Found(file)) = Cardinality(HeldBy(holder, {}))
    /\ \A t \in DOMAIN vs : Times(vs[t], Found(file)) = Cardinality(HeldBy(holder, {t}))

LEMMA HeldIsFinite ==
  ASSUME NEW W, IsFiniteSet(W), NEW A, NEW H, NEW holder \in [W \ A -> H], NEW h
  PROVE  /\ HeldBy(holder, h) = {i \in W \ A : holder[i] = h}
         /\ IsFiniteSet(HeldBy(holder, h)) /\ Cardinality(HeldBy(holder, h)) \in Nat
<1>1. HeldBy(holder, h) = {i \in W \ A : holder[i] = h}
  BY DEF HeldBy
<1>2. {i \in W \ A : holder[i] = h} \subseteq W
  OBVIOUS
<1>3. IsFiniteSet(HeldBy(holder, h))
  BY <1>1, <1>2, FS_Subset
<1>4. QED
  BY <1>1, <1>3, FS_CardinalityType

\* A visitor accepts the file on one more way.
LEMMA CountAccepted ==
  ASSUME NEW W, IsFiniteSet(W), NEW w, NEW u, NEW vs, NEW fs, NEW file, NEW i, NEW t \in DOMAIN vs,
         Counted(W, w, vs, fs, file), i \in AwaitedIn(W, w, file),
         AwaitedIn(W, u, file) = AwaitedIn(W, w, file) \ {i}, IsABag(vs[t])
  PROVE  Counted(W, u, [vs EXCEPT ![t] = @ (+) SetToBag({Found(file)})], fs, file)
<1> DEFINE A == AwaitedIn(W, w, file)
           B == AwaitedIn(W, u, file)
           new == [vs EXCEPT ![t] = @ (+) SetToBag({Found(file)})]
           f == Found(file)
<1>1. i \in W /\ i \in A /\ B = A \ {i} /\ W \ B = (W \ A) \cup {i} /\ i \notin W \ A
  BY DEF AwaitedIn
<1> HIDE DEF A, B
<1>2. PICK holder \in [W \ A -> Holders(vs)] :
        /\ Times(fs, f) = Cardinality(HeldBy(holder, {}))
        /\ \A v \in DOMAIN vs : Times(vs[v], f) = Cardinality(HeldBy(holder, {v}))
  BY DEF Counted, A
<1> DEFINE next == [j \in W \ B |-> IF j = i THEN {t} ELSE holder[j]]
<1>3. next \in [W \ B -> Holders(new)]
  BY <1>1 DEF Holders
<1>4. DOMAIN new = DOMAIN vs /\ new[t] = vs[t] (+) SetToBag({f})
      /\ \A v \in DOMAIN vs : v # t => new[v] = vs[v]
  OBVIOUS
<1> HIDE DEF new, f
<1>5. \A h : h # {t} => HeldBy(next, h) = HeldBy(holder, h)
  BY <1>1, <1>2 DEF HeldBy
<1>6. HeldBy(next, {t}) = HeldBy(holder, {t}) \cup {i} /\ i \notin HeldBy(holder, {t})
  BY <1>1, <1>2 DEF HeldBy
<1> HIDE DEF next
<1>7. Cardinality(HeldBy(next, {t})) = Cardinality(HeldBy(holder, {t})) + 1
  BY <1>2, <1>6, HeldIsFinite, FS_AddElement
<1>8. Times(fs, f) = Cardinality(HeldBy(next, {}))
  BY <1>2, <1>5
<1>9. ASSUME NEW v \in DOMAIN new
      PROVE  Times(new[v], f) = Cardinality(HeldBy(next, {v}))
  <2>1. CASE v = t
    <3>1. Times(vs[t] (+) SetToBag({f}), f) = Times(vs[t], f) + 1
      BY OneMoreIs
    <3>2. QED
      BY <1>2, <1>4, <1>7, <2>1, <3>1
  <2>2. CASE v # t
    BY <1>2, <1>4, <1>5, <2>2
  <2>3. QED
    BY <2>1, <2>2
<1>10. Counted(W, u, new, fs, file)
  BY <1>3, <1>8, <1>9 DEF Counted, B, f
<1>11. QED
  BY <1>10 DEF new, f

\* A visitor hands over what it holds.
LEMMA CountDropped ==
  ASSUME NEW W, IsFiniteSet(W), NEW w, NEW vs, NEW fs, NEW file, NEW t \in DOMAIN vs,
         Counted(W, w, vs, fs, file), IsABag(vs[t]), IsABag(fs)
  PROVE  Counted(W, w, Restrict(vs, DOMAIN vs \ {t}), fs (+) vs[t], file)
<1> DEFINE A == AwaitedIn(W, w, file)
           new == Restrict(vs, DOMAIN vs \ {t})
           f == Found(file)
<1>1. PICK holder \in [W \ A -> Holders(vs)] :
        /\ Times(fs, f) = Cardinality(HeldBy(holder, {}))
        /\ \A v \in DOMAIN vs : Times(vs[v], f) = Cardinality(HeldBy(holder, {v}))
  BY DEF Counted
<1> DEFINE next == [j \in W \ A |-> IF holder[j] = {t} THEN {} ELSE holder[j]]
<1>2. DOMAIN new = DOMAIN vs \ {t} /\ \A v \in DOMAIN vs \ {t} : new[v] = vs[v]
  BY DEF Restrict
<1> HIDE DEF A, new, f
<1>3. next \in [W \ A -> Holders(new)]
  BY <1>1, <1>2 DEF Holders
<1>4. HeldBy(next, {}) = HeldBy(holder, {}) \cup HeldBy(holder, {t})
  BY <1>1 DEF HeldBy
<1>5. HeldBy(holder, {}) \cap HeldBy(holder, {t}) = {}
  BY DEF HeldBy
<1>6. \A v \in DOMAIN new : HeldBy(next, {v}) = HeldBy(holder, {v})
  BY <1>1, <1>2 DEF HeldBy
<1> HIDE DEF next
<1>7. Cardinality(HeldBy(next, {})) = Cardinality(HeldBy(holder, {})) + Cardinality(HeldBy(holder, {t}))
  <2> DEFINE P == HeldBy(holder, {})
             Q == HeldBy(holder, {t})
  <2>1. IsFiniteSet(P) /\ IsFiniteSet(Q) /\ Cardinality(P) \in Nat /\ Cardinality(Q) \in Nat
    BY <1>1, HeldIsFinite
  <2> HIDE DEF P, Q
  <2>2. Cardinality(P \cup Q) = Cardinality(P) + Cardinality(Q) - Cardinality(P \cap Q)
    BY <2>1, FS_Union
  <2>3. P \cap Q = {} /\ Cardinality({}) = 0
    BY <1>5, FS_EmptySet DEF P, Q
  <2>4. Cardinality(P \cap Q) = 0
    BY <2>3, Zenon
  <2>5. Cardinality(P \cup Q) = Cardinality(P) + Cardinality(Q)
    BY <2>1, <2>2, <2>4
  <2>6. QED
    BY <1>4, <2>5 DEF P, Q
<1>8. Times(fs (+) vs[t], f) = Cardinality(HeldBy(next, {}))
  <2>1. Times(fs (+) vs[t], f) = Times(fs, f) + Times(vs[t], f)
    BY BagSumIs
  <2>2. QED
    BY <1>1, <1>7, <2>1
<1>9. \A v \in DOMAIN new : Times(new[v], f) = Cardinality(HeldBy(next, {v}))
  BY <1>1, <1>2, <1>6
<1>10. Counted(W, w, new, fs (+) vs[t], file)
  BY <1>3, <1>8, <1>9 DEF Counted, A, f
<1>11. QED
  BY <1>10 DEF new

\* While all ways are awaited nobody holds anything.
LEMMA CountStarted ==
  ASSUME NEW W, NEW w, NEW vs, NEW fs, NEW file, AwaitedIn(W, w, file) = W,
         Times(fs, Found(file)) = 0, \A t \in DOMAIN vs : Times(vs[t], Found(file)) = 0
  PROVE  Counted(W, w, vs, fs, file)
<1> DEFINE holder == [i \in {} |-> {}]
<1>1. W \ AwaitedIn(W, w, file) = {} /\ holder \in [{} -> Holders(vs)]
  OBVIOUS
<1>2. \A h : HeldBy(holder, h) = {}
  BY DEF HeldBy
<1>3. Cardinality({}) = 0
  BY FS_EmptySet
<1> HIDE DEF holder
<1>4. /\ Times(fs, Found(file)) = Cardinality(HeldBy(holder, {}))
      /\ \A t \in DOMAIN vs : Times(vs[t], Found(file)) = Cardinality(HeldBy(holder, {t}))
  BY <1>2, <1>3
<1>5. QED
  BY <1>1, <1>4 DEF Counted

\* When there is no work and no visitor left, all was handed over.
LEMMA CountEnded ==
  ASSUME NEW W, NEW vs, NEW fs, NEW file, DOMAIN vs = {}, Counted(W, {}, vs, fs, file)
  PROVE  Times(fs, Found(file)) = Cardinality(W)
<1>1. AwaitedIn(W, {}, file) = {} /\ Holders(vs) = {{}}
  BY DEF AwaitedIn, Holders
<1>2. PICK holder \in [W -> {{}}] : Times(fs, Found(file)) = Cardinality(HeldBy(holder, {}))
  <2>1. W \ {} = W
    OBVIOUS
  <2>2. QED
    BY <1>1, <2>1 DEF Counted
<1>3. HeldBy(holder, {}) = W
  BY <1>2 DEF HeldBy
<1>4. QED
  BY <1>2, <1>3

-----------------------------------------------------------------------------
(* The entries of a walk *)

LEMMA EntryIs ==
  ASSUME NEW p, NEW i
  PROVE  Entry(p, i).path = p /\ Entry(p, i).root = i
  BY DEF Entry

\* The ways to a file, by the entries that a walk takes on them
LEMMA WayIs ==
  ASSUME supplied \in Seq(Path), NEW file \in Files, NEW i \in DOMAIN supplied
  PROVE  i \in Ways(file) <=>
           /\ supplied[i] \in Tree /\ StartsWith(file, supplied[i])
           /\ \A n \in Len(supplied[i]) + 1 .. Len(file) : Up(file, n) \notin Hidden
           /\ \A n \in Len(supplied[i]) .. Len(file) : ~Skips(Entry(Up(file, n), i))
           /\ force \/ AnyIncludeMatchedPath(file)
<1> DEFINE root == supplied[i]
           below == Len(root) + 1 .. Len(file)
<1>1. i \in Ways(file) <=>
        /\ root \in Tree /\ StartsWith(file, root)
        /\ \A n \in below : Up(file, n) \notin Hidden
        /\ \/ force
           \/ /\ ~AnyExcludeMatchedPathOrAnyParents(root, IsDirectory(root), SettingsOf(resolver, root))
              /\ \A n \in below : ~AnyExcludeMatchedPath(Up(file, n), IsDirectory(Up(file, n)),
                                                         SettingsOf(resolver, Up(file, n)))
              /\ AnyIncludeMatchedPath(file)
  BY WaysAre
<1>2. file \in Path /\ root \in Path /\ Len(file) \in Nat /\ Len(root) \in Nat
  BY TreeAssumption DEF Files, Path
<1>3. ASSUME StartsWith(file, root)
      PROVE  (\A n \in Len(root) .. Len(file) : ~Skips(Entry(Up(file, n), i))) <=>
               \/ force
               \/ /\ ~AnyExcludeMatchedPathOrAnyParents(root, IsDirectory(root), SettingsOf(resolver, root))
                  /\ \A n \in below : ~AnyExcludeMatchedPath(Up(file, n), IsDirectory(Up(file, n)),
                                                             SettingsOf(resolver, Up(file, n)))
  <2>1. Len(root) \in 0 .. Len(file) /\ root = Up(file, Len(root))
    BY <1>2, <1>3, PrefixUnique
  <2>2. Skips(Entry(root, i)) <=>
          ~force /\ AnyExcludeMatchedPathOrAnyParents(root, IsDirectory(root), SettingsOf(resolver, root))
    BY DEF Skips, Entry, IsDirectlySupplied
  <2>3. ASSUME NEW n \in below
        PROVE  Skips(Entry(Up(file, n), i)) <=>
                 ~force /\ AnyExcludeMatchedPath(Up(file, n), IsDirectory(Up(file, n)),
                                                 SettingsOf(resolver, Up(file, n)))
    <3>1. n \in 0 .. Len(file) /\ n # Len(root)
      BY <1>2, <2>1
    <3>2. Up(file, n) # root
      BY <1>2, <3>1, PrefixIs
    <3>3. QED
      BY <3>2 DEF Skips, Entry, IsDirectlySupplied
  <2>4. \A n \in Len(root) .. Len(file) : n = Len(root) \/ n \in below
    BY <1>2
  <2>5. Len(root) \in Len(root) .. Len(file) /\ \A n \in below : n \in Len(root) .. Len(file)
    BY <1>2, <2>1
  <2> HIDE DEF root, below
  <2>6. QED
    BY <2>1, <2>2, <2>3, <2>4, <2>5
<1>4. QED
  BY <1>1, <1>3

\* An entry that was reached: nothing above it, from the supplied path on, was
\* skipped, and nothing from there down to it is hidden.
Reached(e) ==
  /\ e = Entry(e.path, e.root)
  /\ e.root \in DOMAIN supplied /\ supplied[e.root] \in Tree
  /\ e.path \in Tree /\ StartsWith(e.path, supplied[e.root])
  /\ \A n \in Len(supplied[e.root]) + 1 .. Len(e.path) : Up(e.path, n) \notin Hidden
  /\ \A n \in Len(supplied[e.root]) .. Len(e.path) - 1 : ~Skips(Entry(Up(e.path, n), e.root))

Apart(w) == \A d, e \in w : d.root = e.root /\ StartsWith(d.path, e.path) => d = e

WorkInv == (\A e \in work : Reached(e)) /\ Apart(work)

LEMMA ChildIs ==
  ASSUME supplied \in Seq(Path), NEW e, Reached(e), NEW c \in Children(e)
  PROVE  /\ c = Entry(c.path, e.root) /\ c.root = e.root
         /\ c.path \in Tree \ Hidden /\ c.path \in Path /\ e.path \in Path
         /\ Len(c.path) = Len(e.path) + 1 /\ Len(e.path) \in Nat
         /\ StartsWith(c.path, e.path)
         /\ \A n \in 0 .. Len(e.path) : Up(c.path, n) = Up(e.path, n)
<1>1. PICK q \in Tree \ Hidden : q # <<>> /\ Parent(q) = e.path /\ c = Entry(q, e.root)
  BY DEF Children
<1>2. c.path = q /\ c.root = e.root
  BY <1>1 DEF Entry
<1>3. q \in Path /\ e.path \in Path /\ Len(q) \in Nat \ {0}
  <2>1. q \in Path /\ e.path \in Path
    BY <1>1, TreeAssumption DEF Reached
  <2>2. QED
    BY <1>1, <2>1, EmptySeq DEF Path
<1>4. Len(q) - 1 \in 0 .. Len(q) /\ Up(q, Len(q) - 1) = e.path
  BY <1>1, <1>3 DEF Parent, Up
<1>5. Len(e.path) = Len(q) - 1 /\ StartsWith(q, e.path)
  BY <1>3, <1>4, PrefixIs
<1>6. \A n \in 0 .. Len(q) - 1 : Up(q, n) = Up(e.path, n)
  BY <1>3, <1>4, PrefixShorter
<1>7. QED
  BY <1>1, <1>2, <1>3, <1>5, <1>6

LEMMA ChildReached ==
  ASSUME supplied \in Seq(Path), NEW e, Reached(e), ~Skips(e), NEW c \in Children(e)
  PROVE  Reached(c)
<1> DEFINE root == supplied[e.root]
           p == e.path
           q == c.path
<1>1. /\ c = Entry(q, e.root) /\ c.root = e.root
      /\ q \in Tree \ Hidden /\ q \in Path /\ p \in Path
      /\ Len(q) = Len(p) + 1 /\ Len(p) \in Nat
      /\ StartsWith(q, p)
      /\ \A n \in 0 .. Len(p) : Up(q, n) = Up(p, n)
  BY ChildIs
<1>2. root \in Path /\ StartsWith(p, root) /\ Len(root) \in 0 .. Len(p)
  <2>1. root \in Path /\ StartsWith(p, root)
    BY DEF Reached
  <2>2. QED
    BY <1>1, <2>1, PrefixUnique
<1>3. StartsWith(q, root)
  BY <1>1, <1>2, StartsTransitive
<1>4. Up(q, Len(q)) = q /\ Up(p, Len(p)) = p
  BY <1>1, PrefixIs
<1>5. ASSUME NEW n \in Len(root) + 1 .. Len(q)
      PROVE  Up(q, n) \notin Hidden
  <2>1. CASE n = Len(q)
    BY <1>1, <1>4, <2>1
  <2>2. CASE n # Len(q)
    <3>1. n \in Len(root) + 1 .. Len(p) /\ n \in 0 .. Len(p)
      BY <1>1, <1>2, <2>2
    <3>2. QED
      BY <1>1, <3>1 DEF Reached
  <2>3. QED
    BY <2>1, <2>2
<1>6. ASSUME NEW n \in Len(root) .. Len(q) - 1
      PROVE  ~Skips(Entry(Up(q, n), e.root))
  <2>1. n \in 0 .. Len(p) /\ Up(q, n) = Up(p, n)
    BY <1>1, <1>2
  <2>2. CASE n = Len(p)
    <3>1. Entry(Up(q, n), e.root) = e
      BY <1>4, <2>1, <2>2 DEF Reached
    <3>2. QED
      BY <3>1
  <2>3. CASE n # Len(p)
    <3>1. n \in Len(root) .. Len(p) - 1
      BY <1>1, <1>2, <2>1, <2>3
    <3>2. QED
      BY <2>1, <3>1 DEF Reached
  <2>4. QED
    BY <2>2, <2>3
<1>7. e.root \in DOMAIN supplied /\ root \in Tree
  BY DEF Reached
<1>8. QED
  BY <1>1, <1>3, <1>5, <1>6, <1>7 DEF Reached

\* The work after a visit
WorkAfter(e) == (work \ {e}) \cup IF ~Skips(e) /\ IsDirectory(e.path) THEN Children(e) ELSE {}

LEMMA WorkAfterIs ==
  ASSUME supplied \in Seq(Path), WorkInv, NEW e \in work
  PROVE  (\A d \in WorkAfter(e) : Reached(d)) /\ Apart(WorkAfter(e))
<1>1. ASSUME NEW d \in WorkAfter(e)
      PROVE  Reached(d)
  <2>1. CASE d \in work
    BY <2>1 DEF WorkInv
  <2>2. CASE d \in Children(e) /\ ~Skips(e)
    BY <2>2, ChildReached DEF WorkInv
  <2>3. QED
    BY <2>1, <2>2 DEF WorkAfter
<1>2. ASSUME NEW c \in WorkAfter(e), NEW d \in WorkAfter(e), c.root = d.root, StartsWith(c.path, d.path)
      PROVE  c = d
  <2>p. c.path \in Path /\ d.path \in Path /\ e.path \in Path /\ Reached(e)
    BY <1>1, TreeAssumption DEF WorkInv, Reached
  <2>1. CASE c \in work \ {e} /\ d \in work \ {e}
    BY <1>2, <2>1 DEF WorkInv, Apart
  <2>2. CASE c \in Children(e) /\ d \in Children(e)
    <3>1. /\ Len(c.path) = Len(d.path) /\ c = Entry(c.path, e.root) /\ d = Entry(d.path, e.root)
          /\ Len(c.path) \in Nat
      BY <2>2, <2>p, ChildIs
    <3>2. d.path = Up(c.path, Len(d.path)) /\ Up(c.path, Len(c.path)) = c.path
      <4>1. Len(c.path) \in 0 .. Len(c.path)
        BY <3>1
      <4>2. QED
        BY <1>2, <2>p, <4>1, PrefixUnique, PrefixIs
    <3>3. QED
      BY <3>1, <3>2
  <2>3. CASE c \in Children(e) /\ d \in work \ {e}
    <3>1. c.root = e.root /\ StartsWith(c.path, e.path) /\ Len(c.path) = Len(e.path) + 1 /\ Len(e.path) \in Nat
      BY <2>3, <2>p, ChildIs
    <3>2. CASE Len(d.path) <= Len(e.path)
      <4>1. StartsWith(e.path, d.path)
        BY <1>2, <2>p, <3>1, <3>2, AncestorsInOrder
      <4>2. QED
        BY <1>2, <2>3, <3>1, <4>1 DEF WorkInv, Apart
    <3>3. CASE Len(d.path) > Len(e.path)
      <4>1. StartsWith(d.path, e.path)
        <5>1. Len(e.path) <= Len(d.path)
          BY <2>p, <3>3 DEF Path
        <5>2. QED
          BY <1>2, <2>p, <3>1, <5>1, AncestorsInOrder
      <4>2. QED
        BY <1>2, <2>3, <3>1, <4>1 DEF WorkInv, Apart
    <3>4. QED
      BY <2>p, <3>2, <3>3 DEF Path
  <2>4. CASE c \in work \ {e} /\ d \in Children(e)
    <3>1. d.root = e.root /\ StartsWith(d.path, e.path)
      BY <2>4, <2>p, ChildIs
    <3>2. StartsWith(c.path, e.path)
      BY <1>2, <2>p, <3>1, StartsTransitive
    <3>3. QED
      BY <1>2, <2>4, <3>1, <3>2 DEF WorkInv, Apart
  <2>5. QED
    BY <2>1, <2>2, <2>3, <2>4 DEF WorkAfter
<1>3. QED
  BY <1>1, <1>2 DEF Apart

-----------------------------------------------------------------------------
(* A visit, and what it does to the account of a file *)

VisitorsAfter(vs, t, e) ==
  [vs EXCEPT ![t] = IF ~Skips(e) /\ Accepts(e) THEN @ (+) SetToBag({Found(e.path)}) ELSE @]

LEMMA CountSame ==
  ASSUME NEW W, NEW w, NEW u, NEW vs, NEW us, NEW fs, NEW file, Counted(W, w, vs, fs, file),
         AwaitedIn(W, u, file) = AwaitedIn(W, w, file), DOMAIN us = DOMAIN vs,
         \A t \in DOMAIN vs : Times(us[t], Found(file)) = Times(vs[t], Found(file))
  PROVE  Counted(W, u, us, fs, file)
<1>1. Holders(us) = Holders(vs)
  BY DEF Holders
<1>2. QED
  BY <1>1 DEF Counted

LEMMA FilesAre ==
  ASSUME NEW file \in Files
  PROVE  file \in Path /\ file \in Tree /\ Len(file) \in Nat /\ ~IsDirectory(file)
  BY TreeAssumption DEF Files, Path, IsDirectory

LEMMA OnTheWay ==
  ASSUME supplied \in Seq(Path), NEW file \in Files, NEW e, Reached(e), e.root \in Ways(file),
         StartsWith(file, e.path)
  PROVE  /\ ~Skips(e) /\ e.path \in Path /\ Len(e.path) \in Nat
         /\ Len(e.path) \in 0 .. Len(file) /\ e.path = Up(file, Len(e.path))
         /\ \A n \in Len(e.path) + 1 .. Len(file) : Up(file, n) \notin Hidden
         /\ force \/ AnyIncludeMatchedPath(file)
<1> DEFINE root == supplied[e.root]
           m == Len(e.path)
<1>1. e.root \in DOMAIN supplied /\ e.path \in Path /\ root \in Path /\ file \in Path
  BY FilesAre, TreeAssumption DEF Reached
<1>2. /\ \A n \in Len(root) + 1 .. Len(file) : Up(file, n) \notin Hidden
      /\ \A n \in Len(root) .. Len(file) : ~Skips(Entry(Up(file, n), e.root))
      /\ force \/ AnyIncludeMatchedPath(file)
  BY <1>1, WayIs
<1>3. m \in 0 .. Len(file) /\ e.path = Up(file, m) /\ m \in Nat
  BY <1>1, PrefixUnique DEF Path
<1>4. Len(root) \in 0 .. m
  <2>1. StartsWith(e.path, root)
    BY DEF Reached
  <2>2. QED
    BY <1>1, <2>1, PrefixUnique
<1>5. ~Skips(e)
  <2>1. m \in Len(root) .. Len(file)
    BY <1>3, <1>4
  <2>2. e = Entry(Up(file, m), e.root)
    BY <1>3 DEF Reached
  <2>3. QED
    BY <1>2, <2>1, <2>2
<1>6. \A n \in m + 1 .. Len(file) : n \in Len(root) + 1 .. Len(file)
  BY <1>3, <1>4
<1>7. QED
  BY <1>1, <1>2, <1>3, <1>5, <1>6

\* If the entry is the file itself, it is on a way just if it is accepted.
LEMMA FileIsReached ==
  ASSUME supplied \in Seq(Path), NEW e, Reached(e), e.path \in Files
  PROVE  e.root \in Ways(e.path) <=> ~Skips(e) /\ Accepts(e)
<1> DEFINE file == e.path
           root == supplied[e.root]
<1>1. /\ file \in Files /\ file \in Path /\ file \in Tree /\ Len(file) \in Nat /\ ~IsDirectory(file)
      /\ e.root \in DOMAIN supplied /\ root \in Path
  BY FilesAre DEF Reached
<1>2. StartsWith(file, file) /\ StartsWith(file, root) /\ Len(root) \in 0 .. Len(file)
  <2>1. StartsWith(file, file) /\ StartsWith(file, root)
    BY <1>1, StartsWithItself DEF Reached
  <2>2. QED
    BY <1>1, <2>1, PrefixUnique
<1>3. Accepts(e) <=> force \/ AnyIncludeMatchedPath(file)
  BY <1>1 DEF Accepts
<1>4. ASSUME ~Skips(e), Accepts(e)
      PROVE  e.root \in Ways(file)
  <2>1. ASSUME NEW n \in Len(root) .. Len(file)
        PROVE  ~Skips(Entry(Up(file, n), e.root))
    <3>1. CASE n = Len(file)
      <4>1. Up(file, Len(file)) = file
        BY <1>1, PrefixIs
      <4>2. Entry(Up(file, n), e.root) = e
        BY <3>1, <4>1 DEF Reached
      <4>3. QED
        BY <1>4, <4>2
    <3>2. CASE n # Len(file)
      <4>1. n \in Len(root) .. Len(file) - 1
        BY <1>1, <1>2, <3>2
      <4>2. QED
        BY <4>1 DEF Reached
    <3>3. QED
      BY <3>1, <3>2
  <2>2. root \in Tree /\ \A n \in Len(root) + 1 .. Len(file) : Up(file, n) \notin Hidden
    BY DEF Reached
  <2> HIDE DEF file, root
  <2>3. QED
    BY <1>1, <1>2, <1>3, <1>4, <2>1, <2>2, WayIs DEF root
<1>5. ASSUME e.root \in Ways(file)
      PROVE  ~Skips(e) /\ Accepts(e)
  BY <1>1, <1>2, <1>3, <1>5, OnTheWay
<1>6. QED
  BY <1>4, <1>5

LEMMA AwaitedOn ==
  ASSUME supplied \in Seq(Path), WorkInv, NEW e \in work, NEW file \in Files, e.path # file
  PROVE  AwaitedIn(Ways(file), WorkAfter(e), file) = AwaitedIn(Ways(file), work, file)
<1>e. Reached(e) /\ e.path \in Path /\ file \in Path /\ Len(file) \in Nat
  BY FilesAre, TreeAssumption DEF WorkInv, Reached
<1>1. ASSUME NEW i \in AwaitedIn(Ways(file), work, file)
      PROVE  i \in AwaitedIn(Ways(file), WorkAfter(e), file)
  <2>1. PICK d \in work : i \in Ways(file) /\ d.root = i /\ StartsWith(file, d.path)
    BY DEF AwaitedIn
  <2>2. CASE d # e
    BY <2>1, <2>2 DEF AwaitedIn, WorkAfter
  <2>3. CASE d = e
    <3> DEFINE m == Len(e.path)
               q == Up(file, m + 1)
    <3>1. /\ ~Skips(e) /\ m \in 0 .. Len(file) /\ e.path = Up(file, m)
          /\ \A n \in m + 1 .. Len(file) : Up(file, n) \notin Hidden
      BY <1>e, <2>1, <2>3, OnTheWay
    <3>2. m # Len(file)
      BY <1>e, <3>1, PrefixIs
    <3>3. m + 1 \in m + 1 .. Len(file) /\ m + 1 \in 0 .. Len(file) /\ m \in 0 .. m + 1 /\ m < Len(file)
      BY <1>e, <3>1, <3>2
    <3>4. IsDirectory(e.path)
      BY <3>1, <3>3, DirectoriesOnTheWay
    <3>5. q \in Path /\ Len(q) = m + 1 /\ q \in Tree /\ q \notin Hidden /\ StartsWith(file, q)
      BY <1>e, <3>1, <3>3, PrefixIs, DirectoriesOnTheWay
    <3>6. Up(q, m) = Up(file, m)
      BY <1>e, <3>3, PrefixShorter
    <3>7. Parent(q) = e.path
      <4>1. Parent(q) = SubSeq(q, 1, m)
        BY <3>3, <3>5 DEF Parent
      <4>2. QED
        BY <3>1, <3>6, <4>1 DEF Up
    <3>8. q # <<>>
      <4>1. Len(q) # 0
        BY <3>3, <3>5
      <4>2. QED
        BY <4>1, EmptySeq
    <3> HIDE DEF q, m
    <3>9. Entry(q, e.root) \in Children(e)
      BY <3>5, <3>7, <3>8 DEF Children
    <3>10. Entry(q, e.root) \in WorkAfter(e)
      BY <3>1, <3>4, <3>9 DEF WorkAfter
    <3>11. QED
      BY <2>1, <2>3, <3>5, <3>10, EntryIs DEF AwaitedIn
  <2>4. QED
    BY <2>2, <2>3
<1>2. ASSUME NEW i \in AwaitedIn(Ways(file), WorkAfter(e), file)
      PROVE  i \in AwaitedIn(Ways(file), work, file)
  <2>1. PICK d \in WorkAfter(e) : i \in Ways(file) /\ d.root = i /\ StartsWith(file, d.path)
    BY DEF AwaitedIn
  <2>2. CASE d \in work
    BY <2>1, <2>2 DEF AwaitedIn
  <2>3. CASE d \in Children(e)
    <3>1. d.root = e.root /\ StartsWith(d.path, e.path) /\ d.path \in Path
      BY <1>e, <2>3, ChildIs
    <3>2. StartsWith(file, e.path)
      BY <1>e, <2>1, <3>1, StartsTransitive
    <3>3. QED
      BY <2>1, <3>1, <3>2 DEF AwaitedIn
  <2>4. QED
    BY <2>2, <2>3 DEF WorkAfter
<1>3. QED
  BY <1>1, <1>2

LEMMA AwaitedNoMore ==
  ASSUME supplied \in Seq(Path), WorkInv, NEW e \in work, e.path \in Files
  PROVE  /\ AwaitedIn(Ways(e.path), WorkAfter(e), e.path) = AwaitedIn(Ways(e.path), work, e.path) \ {e.root}
         /\ e.root \in Ways(e.path) => e.root \in AwaitedIn(Ways(e.path), work, e.path)
<1>1. WorkAfter(e) = work \ {e}
  BY FilesAre DEF WorkAfter
<1>2. StartsWith(e.path, e.path)
  BY FilesAre, StartsWithItself
<1>3. \A d \in work : d.root = e.root /\ StartsWith(e.path, d.path) => d = e
  BY DEF WorkInv, Apart
<1>4. QED
  BY <1>1, <1>2, <1>3 DEF AwaitedIn

LEMMA VisitCounts ==
  ASSUME supplied \in Seq(Path), WorkInv, NEW e \in work, NEW vs, NEW fs, NEW t \in DOMAIN vs,
         NEW file \in Files, Counted(Ways(file), work, vs, fs, file), IsABag(vs[t])
  PROVE  Counted(Ways(file), WorkAfter(e), VisitorsAfter(vs, t, e), fs, file)
<1> DEFINE W == Ways(file)
           us == VisitorsAfter(vs, t, e)
<1>f. IsFiniteSet(W)
  <2>1. IsFiniteSet(DOMAIN supplied)
    BY FS_Interval
  <2>2. QED
    BY <2>1, WaysAre, FS_Subset
<1>1. /\ DOMAIN us = DOMAIN vs
      /\ us[t] = IF ~Skips(e) /\ Accepts(e) THEN vs[t] (+) SetToBag({Found(e.path)}) ELSE vs[t]
      /\ \A u \in DOMAIN vs : u # t => us[u] = vs[u]
  BY DEF VisitorsAfter
<1>2. CASE e.path # file
  <2>1. AwaitedIn(W, WorkAfter(e), file) = AwaitedIn(W, work, file)
    BY <1>2, AwaitedOn
  <2>2. Found(e.path) # Found(file)
    BY <1>2 DEF Found
  <2> HIDE DEF us, W
  <2> DEFINE B == vs[t]
             x == Found(e.path)
             f == Found(file)
  <2>3. \A u \in DOMAIN vs : Times(us[u], f) = Times(vs[u], f)
    <3>1. IsABag(B) /\ f # x
      BY <2>2
    <3>2. us[t] = B (+) SetToBag({x}) \/ us[t] = B
      BY <1>1
    <3> HIDE DEF B, x, f
    <3>3. \A g : g # x => Times(B (+) SetToBag({x}), g) = Times(B, g)
      BY <3>1, OneMoreIs
    <3>4. Times(us[t], f) = Times(B, f)
      BY <3>1, <3>2, <3>3
    <3>5. ASSUME NEW u \in DOMAIN vs
          PROVE  Times(us[u], f) = Times(vs[u], f)
      <4>1. CASE u = t
        BY <3>4, <4>1 DEF B
      <4>2. CASE u # t
        BY <1>1, <4>2
      <4>3. QED
        BY <4>1, <4>2
    <3>6. QED
      BY <3>5
  <2>4. Counted(W, work, vs, fs, file)
    BY DEF W
  <2>5. Counted(W, WorkAfter(e), us, fs, file)
    BY <1>1, <2>1, <2>3, <2>4, CountSame
  <2>6. QED
    BY <2>5 DEF W, us
<1>3. CASE e.path = file
  <2>1. e.root \in W <=> ~Skips(e) /\ Accepts(e)
    BY <1>3, FileIsReached DEF WorkInv
  <2>2. /\ AwaitedIn(W, WorkAfter(e), file) = AwaitedIn(W, work, file) \ {e.root}
        /\ e.root \in W => e.root \in AwaitedIn(W, work, file)
    BY <1>3, AwaitedNoMore
  <2>3. CASE ~Skips(e) /\ Accepts(e)
    <3>1. us = [vs EXCEPT ![t] = @ (+) SetToBag({Found(file)})]
      BY <1>3, <2>3 DEF VisitorsAfter
    <3> DEFINE i == e.root
               u == WorkAfter(e)
               w == work
    <3>2. i \in AwaitedIn(W, w, file) /\ AwaitedIn(W, u, file) = AwaitedIn(W, w, file) \ {i}
      BY <2>1, <2>2, <2>3
    <3>3. Counted(W, w, vs, fs, file)
      OBVIOUS
    <3> HIDE DEF i, u, w, W, us
    <3>4. Counted(W, u, [vs EXCEPT ![t] = @ (+) SetToBag({Found(file)})], fs, file)
      BY <1>f, <3>2, <3>3, CountAccepted
    <3>5. Counted(W, u, us, fs, file)
      BY <3>1, <3>4
    <3>6. QED
      BY <3>5 DEF W, u, us
  <2>4. CASE ~(~Skips(e) /\ Accepts(e))
    <3>1. AwaitedIn(W, WorkAfter(e), file) = AwaitedIn(W, work, file)
      BY <2>1, <2>2, <2>4 DEF AwaitedIn
    <3> HIDE DEF us, W
    <3>2. \A u \in DOMAIN vs : Times(us[u], Found(file)) = Times(vs[u], Found(file))
      BY <1>1, <2>4
    <3>3. Counted(W, work, vs, fs, file)
      BY DEF W
    <3>4. Counted(W, WorkAfter(e), us, fs, file)
      BY <1>1, <3>1, <3>2, <3>3, CountSame
    <3>5. QED
      BY <3>4 DEF W, us
  <2>5. QED
    BY <2>3, <2>4
<1>4. QED
  BY <1>2, <1>3

-----------------------------------------------------------------------------
(* The inductive invariant of the search *)

BagsInv ==
  /\ IsABag(files) /\ IsABag(pending)
  /\ \A t \in DOMAIN visitors : IsABag(visitors[t])

MissingCounted ==
  \A i \in DOMAIN supplied : supplied[i] \notin Tree =>
    Times(files, Missing(supplied[i])) = Cardinality({j \in DOMAIN supplied : supplied[j] = supplied[i]})

\* While the walk goes on.
CountInv ==
  phase = "walk" =>
    /\ WorkInv /\ MissingCounted
    /\ \A t \in DOMAIN visitors : \A r \in DOMAIN visitors[t] : ~r.failed
    /\ \A f \in Files : Counted(Ways(f), work, visitors, files, f)

\* Once it is over.
EndInv ==
  phase = "format" =>
    MissingCounted /\ \A f \in Files : Times(files, Found(f)) = Cardinality(Ways(f))

\* A supplied path has the settings of the deepest air.toml above it.
SettingsInv ==
  phase \in {"walk", "format"} =>
    /\ Fits(resolver)
    /\ \A i \in DOMAIN supplied : SettingsOf(resolver, supplied[i]) = TomlSettings(supplied[i])

StdinInv ==
  output # << >> =>
    /\ phase = "done"
    /\ command.stdin \in Files => output[1] \in {StdinText, StyleOf(command.stdin)}

SearchInv ==
  /\ tomls \in Tomls /\ command \in Commands /\ supplied \in Seq(Path)
  /\ phase \in {"start", "walk", "format", "done"}
  /\ BagsInv /\ CountInv /\ EndInv /\ SettingsInv /\ StdinInv

-----------------------------------------------------------------------------
(* The steps of the search *)

LEMMA EmptyIsABag == IsABag(EmptyBag) /\ DOMAIN EmptyBag = {}
  BY DEF IsABag, EmptyBag, SetToBag

LEMMA WaysStay ==
  ASSUME UNCHANGED <<supplied, force, resolver>>
  PROVE  /\ \A f : Ways(f)' = Ways(f)
         /\ \A e : Reached(e)' <=> Reached(e)
<1>1. \A f : Ways(f)' = Ways(f)
  BY DEF Ways, SettingsOf
<1>2. \A e : Skips(e)' <=> Skips(e)
  BY DEF Skips, SettingsOf, IsDirectlySupplied
<1>3. \A e : Reached(e)' <=> Reached(e)
  BY <1>2 DEF Reached
<1>4. QED
  BY <1>1, <1>3

LEMMA SettingsStay ==
  ASSUME SettingsInv, UNCHANGED <<tomls, supplied, resolver>>, phase' \in {"walk", "format"} => phase \in {"walk", "format"}
  PROVE  SettingsInv'
<1>1. \A list, p : SettingsOf(list, p)' = SettingsOf(list, p)
  BY DEF SettingsOf
<1>2. \A p : TomlSettings(p)' = TomlSettings(p)
  BY DEF TomlSettings, TomlsAbove, TomlIn
<1>3. NoWhitelists' <=> NoWhitelists
  BY DEF NoWhitelists
<1>4. Fits(resolver)' <=> Fits(resolver)
  BY <1>3 DEF Fits, SettingsOf
<1>5. QED
  BY <1>2, <1>4 DEF SettingsInv, SettingsOf

\* What a walk starts with is what was not there.
LEMMA LostAre ==
  ASSUME supplied \in Seq(Path), StartWalk, supplied' = supplied
  PROVE  IsABag(files') /\ MissingCounted' /\ \A f : Times(files', Found(f)) = 0
<1> DEFINE lost == {i \in DOMAIN supplied : supplied[i] \notin Tree}
           M == {Missing(supplied[i]) : i \in lost}
           held(r) == {i \in lost : supplied[i] = r.path}
<1>1. files' = [r \in M |-> Cardinality(held(r))]
  <2>1. lost = DOMAIN supplied \ {i \in DOMAIN supplied : supplied[i] \in Tree}
    OBVIOUS
  <2>2. QED
    BY <2>1 DEF StartWalk
<1>2. IsFiniteSet(lost)
  <2>1. IsFiniteSet(DOMAIN supplied)
    BY FS_Interval
  <2>2. QED
    BY <2>1, FS_Subset
<1>3. ASSUME NEW r \in M
      PROVE  Cardinality(held(r)) \in Nat /\ Cardinality(held(r)) > 0
  <2>1. held(r) \subseteq lost
    OBVIOUS
  <2>2. held(r) # {}
    BY DEF Missing
  <2>3. IsFiniteSet(held(r))
    BY <1>2, <2>1, FS_Subset
  <2> HIDE DEF held
  <2>4. Cardinality(held(r)) \in Nat /\ Cardinality(held(r)) # 0
    BY <2>2, <2>3, FS_CardinalityType, FS_EmptySet
  <2>5. QED
    BY <2>4
<1>4. IsABag(files')
  <2> HIDE DEF M, held
  <2>1. files' \in [M -> {n \in Nat : n > 0}]
    BY <1>1, <1>3
  <2>2. QED
    BY <2>1 DEF IsABag
<1>5. MissingCounted'
  <2>1. SUFFICES ASSUME NEW i \in DOMAIN supplied, supplied[i] \notin Tree
                 PROVE  Times(files', Missing(supplied[i]))
                          = Cardinality({j \in DOMAIN supplied : supplied[j] = supplied[i]})
    BY DEF MissingCounted
  <2>2. Missing(supplied[i]) \in M
    BY <2>1
  <2>3. held(Missing(supplied[i])) = {j \in DOMAIN supplied : supplied[j] = supplied[i]}
    BY <2>1 DEF Missing
  <2> HIDE DEF M, held
  <2>4. Times(files', Missing(supplied[i])) = Cardinality(held(Missing(supplied[i])))
    BY <1>1, <2>2 DEF Times, BagIn, BagToSet
  <2>5. QED
    BY <2>3, <2>4
<1>6. ASSUME NEW f
      PROVE  Times(files', Found(f)) = 0
  <2>1. Found(f) \notin M
    BY DEF Found, Missing
  <2> HIDE DEF M, held
  <2>2. QED
    BY <1>1, <2>1 DEF Times, BagIn, BagToSet
<1>7. QED
  BY <1>4, <1>5, <1>6

LEMMA SearchStarts == ASSUME SearchInv, FormatPaths PROVE SearchInv'
<1>1. /\ phase = "start" /\ phase' = "walk" /\ supplied' = supplied /\ tomls' = tomls /\ force' = force
      /\ command' = command /\ pending' = pending /\ output' = output /\ StartWalk
      /\ resolver' = LoadedResolver(supplied) /\ SettingsDiscoverable(supplied)
      /\ supplied \in Seq(Path) /\ tomls \in Tomls
  BY DEF FormatPaths, StartWalk, fileVars, SearchInv
<1>2. IsABag(files') /\ MissingCounted' /\ \A f : Times(files', Found(f)) = 0
  BY <1>1, LostAre
<1>3. \A t \in DOMAIN visitors' : visitors'[t] = EmptyBag
  BY <1>1 DEF StartWalk
<1>4. BagsInv'
  BY <1>1, <1>2, <1>3, EmptyIsABag DEF BagsInv, SearchInv
<1>5. WorkInv'
  <2>2. work' = {Entry(supplied[i], i) : i \in {j \in DOMAIN supplied : supplied[j] \in Tree}}
    BY <1>1 DEF StartWalk
  <2>3. ASSUME NEW e \in work'
        PROVE  Reached(e)'
    <3>0. PICK i \in DOMAIN supplied : supplied[i] \in Tree /\ e = Entry(supplied[i], i)
      BY <2>2
    <3> DEFINE root == supplied[i]
    <3>1. root \in Path /\ Len(root) \in Nat
      BY <1>1 DEF Path
    <3>2. StartsWith(root, root)
      BY <3>1, StartsWithItself
    <3>3. e.path = root /\ e.root = i /\ e = Entry(e.path, e.root)
      BY <3>0, EntryIs
    <3>4. Len(root) + 1 .. Len(root) = {} /\ Len(root) .. Len(root) - 1 = {}
      <4> HIDE DEF root
      <4>1. QED
        BY <3>1
    <3>5. QED
      BY <1>1, <3>0, <3>2, <3>3, <3>4 DEF Reached
  <2>4. Apart(work')
    BY <2>2, EntryIs DEF Apart
  <2>5. QED
    BY <2>3, <2>4 DEF WorkInv
<1>6. ASSUME NEW f \in Files
      PROVE  Counted(Ways(f), work, visitors, files, f)'
  <2> DEFINE W == Ways(f)'
             w == work'
  <2>1. AwaitedIn(W, w, f) \subseteq W
    BY DEF AwaitedIn
  <2>2. ASSUME NEW i \in W
        PROVE  i \in AwaitedIn(W, w, f)
    <3>1. i \in DOMAIN supplied /\ supplied[i] \in Tree /\ StartsWith(f, supplied[i])
      BY <1>1 DEF Ways
    <3>2. Entry(supplied[i], i) \in w
      BY <1>1, <3>1 DEF StartWalk
    <3> HIDE DEF W, w
    <3>3. QED
      BY <3>1, <3>2, EntryIs DEF AwaitedIn
  <2>3. \A t \in DOMAIN visitors' : Times(visitors'[t], Found(f)) = 0
    BY <1>3, TimesInEmpty
  <2>4. Times(files', Found(f)) = 0
    BY <1>2
  <2> HIDE DEF W, w
  <2>5. AwaitedIn(W, w, f) = W
    BY <2>1, <2>2
  <2>6. Counted(W, w, visitors', files', f)
    BY <2>3, <2>4, <2>5, CountStarted
  <2>7. QED
    BY <2>6 DEF W, w
<1>7. CountInv'
  BY <1>2, <1>3, <1>5, <1>6, EmptyIsABag DEF CountInv
<1>8. SettingsInv'
  <2>1. Fits(LoadedResolver(supplied))
    BY <1>1, LoadedResolverFits
  <2>2. \A i \in DOMAIN supplied : SettingsOf(LoadedResolver(supplied), supplied[i]) = TomlSettings(supplied[i])
    BY <1>1, LoadedResolverIs
  <2>3. Fits(resolver)'
    BY <1>1, <2>1 DEF Fits, NoWhitelists
  <2>4. \A i : TomlSettings(i)' = TomlSettings(i)
    BY <1>1 DEF TomlSettings, TomlsAbove, TomlIn
  <2>5. QED
    BY <1>1, <2>2, <2>3, <2>4 DEF SettingsInv
<1>9. QED
  BY <1>1, <1>4, <1>7, <1>8 DEF SearchInv, EndInv, StdinInv

LEMMA SearchVisits ==
  ASSUME SearchInv, NEW t \in Threads, NEW e \in work, Visit(t, e), phase = "walk",
         UNCHANGED <<command, fileVars>>
  PROVE  SearchInv'
<1>1. /\ t \in DOMAIN visitors /\ work' = WorkAfter(e) /\ visitors' = VisitorsAfter(visitors, t, e)
      /\ UNCHANGED <<tomls, supplied, force, resolver, phase, files, command, pending, output>>
  BY DEF Visit, WorkAfter, VisitorsAfter, fileVars
<1>2. /\ supplied \in Seq(Path) /\ WorkInv /\ MissingCounted
      /\ \A u \in DOMAIN visitors : IsABag(visitors[u]) /\ \A r \in DOMAIN visitors[u] : ~r.failed
      /\ \A f \in Files : Counted(Ways(f), work, visitors, files, f)
  BY DEF SearchInv, CountInv, BagsInv
<1>3. /\ \A f : Ways(f)' = Ways(f)
      /\ \A d : Reached(d)' <=> Reached(d)
  BY <1>1, WaysStay
<1>4. WorkInv'
  <2>1. (\A d \in WorkAfter(e) : Reached(d)) /\ Apart(WorkAfter(e))
    BY <1>2, WorkAfterIs
  <2>2. QED
    BY <1>1, <1>3, <2>1 DEF WorkInv
<1>5. ASSUME NEW u \in DOMAIN visitors'
      PROVE  IsABag(visitors'[u]) /\ \A r \in DOMAIN visitors'[u] : ~r.failed
  <2> DEFINE B == visitors[t]
             x == Found(e.path)
  <2>1. IsABag(B) /\ ~x.failed
    BY <1>1, <1>2 DEF Found
  <2>2. /\ u \in DOMAIN visitors
        /\ \/ visitors'[u] = visitors[u]
           \/ u = t /\ visitors'[u] = B (+) SetToBag({x})
    BY <1>1 DEF VisitorsAfter
  <2>3. \A r \in DOMAIN B : ~r.failed
    BY <1>1, <1>2
  <2> HIDE DEF B, x
  <2>4. IsABag(B (+) SetToBag({x})) /\ DOMAIN (B (+) SetToBag({x})) = DOMAIN B \cup {x}
    BY <2>1, OneMoreIs
  <2>5. QED
    BY <1>2, <2>1, <2>2, <2>3, <2>4
<1>6. ASSUME NEW f \in Files
      PROVE  Counted(Ways(f), work, visitors, files, f)'
  <2>1. Counted(Ways(f), WorkAfter(e), VisitorsAfter(visitors, t, e), files, f)
    BY <1>1, <1>2, VisitCounts
  <2>2. Ways(f)' = Ways(f) /\ files' = files
    BY <1>1, <1>3
  <2>3. QED
    BY <1>1, <2>1, <2>2
<1>7. MissingCounted'
  BY <1>1, <1>2 DEF MissingCounted
<1>8. CountInv' /\ BagsInv'
  BY <1>1, <1>4, <1>5, <1>6, <1>7 DEF CountInv, BagsInv, SearchInv
<1>9. SettingsInv'
  BY <1>1, SettingsStay DEF SearchInv
<1>10. QED
  BY <1>1, <1>8, <1>9 DEF SearchInv, EndInv, StdinInv

LEMMA SearchDrops ==
  ASSUME SearchInv, NEW t \in Threads, DropVisitor(t), phase = "walk", UNCHANGED <<command, fileVars>>
  PROVE  SearchInv'
<1>1. /\ t \in DOMAIN visitors /\ work' = work
      /\ files' = files (+) visitors[t]
      /\ visitors' = Restrict(visitors, DOMAIN visitors \ {t})
      /\ UNCHANGED <<tomls, supplied, force, resolver, phase, command, pending, output>>
  BY DEF DropVisitor, fileVars
<1>2. /\ supplied \in Seq(Path) /\ WorkInv /\ MissingCounted /\ IsABag(files)
      /\ \A u \in DOMAIN visitors : IsABag(visitors[u]) /\ \A r \in DOMAIN visitors[u] : ~r.failed
      /\ \A f \in Files : Counted(Ways(f), work, visitors, files, f)
  BY DEF SearchInv, CountInv, BagsInv
<1>3. /\ \A f : Ways(f)' = Ways(f)
      /\ \A d : Reached(d)' <=> Reached(d)
  BY <1>1, WaysStay
<1>4. WorkInv'
  BY <1>1, <1>2, <1>3 DEF WorkInv
<1> DEFINE B == visitors[t]
<1>5. IsABag(B) /\ \A r \in DOMAIN B : ~r.failed
  BY <1>1, <1>2
<1>6. IsABag(files (+) B) /\ \A r : Times(files (+) B, r) = Times(files, r) + Times(B, r)
  <2> HIDE DEF B
  <2>1. QED
    BY <1>2, <1>5, BagSumIs
<1>7. \A u \in DOMAIN visitors' : u \in DOMAIN visitors /\ visitors'[u] = visitors[u]
  BY <1>1 DEF Restrict
<1>8. MissingCounted'
  <2>1. SUFFICES ASSUME NEW i \in DOMAIN supplied, supplied[i] \notin Tree
                 PROVE  Times(files', Missing(supplied[i]))
                          = Cardinality({j \in DOMAIN supplied : supplied[j] = supplied[i]})
    BY <1>1 DEF MissingCounted
  <2> DEFINE x == Missing(supplied[i])
  <2>2. Times(files, x) = Cardinality({j \in DOMAIN supplied : supplied[j] = supplied[i]})
    BY <1>2, <2>1 DEF MissingCounted
  <2>3. x.failed
    BY DEF Missing
  <2> HIDE DEF x, B
  <2>4. Times(B, x) = 0
    BY <1>5, <2>3 DEF Times, BagIn, BagToSet
  <2>5. Times(files, x) \in Nat
    BY <1>2, TimesIs
  <2>6. Times(files', x) = Times(files, x)
    BY <1>1, <1>6, <2>4, <2>5 DEF B
  <2>7. QED
    BY <2>2, <2>6 DEF x
<1>9. ASSUME NEW f \in Files
      PROVE  Counted(Ways(f), work, visitors, files, f)'
  <2> DEFINE W == Ways(f)
  <2>1. IsFiniteSet(W)
    <3>1. IsFiniteSet(DOMAIN supplied)
      BY <1>2, FS_Interval
    <3>2. QED
      BY <1>2, <3>1, WaysAre, FS_Subset
  <2>2. Counted(W, work, visitors, files, f)
    BY <1>2
  <2> HIDE DEF W
  <2>3. Counted(W, work, Restrict(visitors, DOMAIN visitors \ {t}), files (+) visitors[t], f)
    BY <1>1, <1>2, <1>5, <2>1, <2>2, CountDropped
  <2>4. W = Ways(f)'
    BY <1>3 DEF W
  <2>5. QED
    BY <1>1, <2>3, <2>4
<1>10. CountInv' /\ BagsInv'
  BY <1>1, <1>2, <1>4, <1>6, <1>7, <1>8, <1>9 DEF CountInv, BagsInv, SearchInv
<1>11. SettingsInv'
  BY <1>1, SettingsStay DEF SearchInv
<1>12. QED
  BY <1>1, <1>10, <1>11 DEF SearchInv, EndInv, StdinInv

LEMMA SearchEnds == ASSUME SearchInv, WalkEnds PROVE SearchInv'
<1>1. /\ phase = "walk" /\ work = {} /\ DOMAIN visitors = {} /\ phase' = "format" /\ pending' = files
      /\ UNCHANGED <<tomls, supplied, force, resolver, work, visitors, files, command, output>>
  BY DEF WalkEnds
<1>2. \A f : Ways(f)' = Ways(f)
  BY <1>1, WaysStay
<1>3. \A f \in Files : Times(files, Found(f)) = Cardinality(Ways(f))
  BY <1>1, CountEnded DEF SearchInv, CountInv
<1>4. MissingCounted'
  BY <1>1 DEF SearchInv, CountInv, MissingCounted
<1>5. EndInv'
  BY <1>1, <1>2, <1>3, <1>4 DEF EndInv
<1>6. SettingsInv'
  BY <1>1, SettingsStay DEF SearchInv
<1>7. QED
  BY <1>1, <1>5, <1>6 DEF SearchInv, CountInv, BagsInv, StdinInv

LEMMA OneLessIs ==
  ASSUME NEW B, IsABag(B), NEW x \in DOMAIN B
  PROVE  /\ IsABag(B (-) SetToBag({x}))
         /\ DOMAIN (B (-) SetToBag({x})) \subseteq DOMAIN B
         /\ DOMAIN B \ {x} \subseteq DOMAIN (B (-) SetToBag({x}))
<1> DEFINE S == SetToBag({x})
           D == B (-) S
           left == [e \in DOMAIN B |-> IF e = x THEN B[e] - 1 ELSE B[e]]
           rest == {e \in DOMAIN B : left[e] > 0}
<1>1. S = [e \in {x} |-> 1]
  BY DEF SetToBag
<1>2. D = [e \in rest |-> left[e]]
  BY <1>1, SMTT(30) DEF (-)
<1>3. \A e \in DOMAIN B : B[e] \in Nat /\ B[e] > 0
  BY DEF IsABag
<1>4. rest \subseteq DOMAIN B /\ DOMAIN B \ {x} \subseteq rest
  BY <1>3
<1>5. \A e \in rest : left[e] \in {n \in Nat : n > 0}
  BY <1>3
<1> HIDE DEF rest, left, S
<1>6. D \in [rest -> {n \in Nat : n > 0}]
  BY <1>2, <1>5
<1>7. QED
  BY <1>2, <1>4, <1>6 DEF IsABag, S

LEMMA SearchTakes ==
  ASSUME SearchInv, NEW r \in BagToSet(pending), FailFile(r) \/ WriteFile(r) \/ CheckFile(r)
  PROVE  SearchInv'
<1>1. /\ phase = "format" /\ pending' = pending (-) SetToBag({r}) /\ r \in DOMAIN pending
      /\ UNCHANGED <<tomls, supplied, force, resolver, phase, work, visitors, files, command, output>>
  BY DEF FailFile, WriteFile, CheckFile, TakeFile, walkVars, BagToSet
<1>2. IsABag(pending')
  BY <1>1, OneLessIs DEF SearchInv, BagsInv
<1>3. \A f : Ways(f)' = Ways(f)
  BY <1>1, WaysStay
<1>4. EndInv'
  BY <1>1, <1>3 DEF SearchInv, EndInv, MissingCounted
<1>5. SettingsInv'
  BY <1>1, SettingsStay DEF SearchInv
<1>6. QED
  BY <1>1, <1>2, <1>4, <1>5 DEF SearchInv, CountInv, BagsInv, StdinInv

LEMMA SearchIsOver == ASSUME SearchInv, Refuse \/ EndPaths \/ FormatStdin PROVE SearchInv'
<1>1. /\ phase' = "done" /\ phase # "done"
      /\ UNCHANGED <<tomls, supplied, force, work, visitors, files, command, disk, pending>>
  BY DEF Refuse, EndPaths, FormatStdin, End
<1>2. BagsInv' /\ CountInv' /\ EndInv' /\ SettingsInv'
  BY <1>1 DEF SearchInv, BagsInv, CountInv, EndInv, SettingsInv
<1>3. output = << >>
  BY <1>1 DEF SearchInv, StdinInv
<1>4. CASE output' = output
  BY <1>1, <1>2, <1>3, <1>4 DEF SearchInv, StdinInv
<1>5. CASE output' # output
  <2>1. FormatStdin
    BY <1>5 DEF Refuse, EndPaths
  <2>2. StyleOf(command.stdin)' = SettingsOf(LoadedResolver(<<command.stdin>>), command.stdin).style
    BY <2>1 DEF FormatStdin, StyleOf, SettingsOf
  <2>3. StdinText' = StdinText
    BY <1>1 DEF StdinText
  <2>4. output'[1] \in {StdinText, StyleOf(command.stdin)'}
    BY <1>5, <2>1, <2>2 DEF FormatStdin
  <2>5. StdinInv'
    BY <1>1, <2>3, <2>4 DEF StdinInv
  <2>6. QED
    BY <1>1, <1>2, <2>5 DEF SearchInv
<1>6. QED
  BY <1>4, <1>5

LEMMA SearchStutters == ASSUME SearchInv, UNCHANGED commandVars PROVE SearchInv'
<1>1. /\ UNCHANGED <<tomls, supplied, force, resolver, phase, work, visitors, files>>
      /\ UNCHANGED <<command, disk, pending, output>>
  BY DEF commandVars, walkVars, fileVars
<1>2. /\ \A f : Ways(f)' = Ways(f)
      /\ \A d : Reached(d)' <=> Reached(d)
  BY <1>1, WaysStay
<1>3. MissingCounted' <=> MissingCounted
  BY <1>1 DEF MissingCounted
<1>4. CountInv' /\ EndInv'
  BY <1>1, <1>2, <1>3 DEF SearchInv, CountInv, EndInv, WorkInv
<1>5. SettingsInv'
  BY <1>1, SettingsStay DEF SearchInv
<1>6. StdinInv' /\ BagsInv'
  BY <1>1 DEF SearchInv, BagsInv, StdinInv, StdinText, StyleOf, SettingsOf
<1>7. QED
  BY <1>1, <1>4, <1>5, <1>6 DEF SearchInv

LEMMA SearchInvStep == ASSUME SearchInv, [Next]_commandVars PROVE SearchInv'
<1>1. CASE Walk
  BY <1>1, SearchVisits, SearchDrops DEF Walk
<1>2. CASE Next /\ ~Walk
  BY <1>2, SearchStarts, SearchEnds, SearchTakes, SearchIsOver, SearchStutters DEF Next, Finished
<1>3. QED
  BY <1>1, <1>2, SearchStutters

LEMMA SearchInvInitially == ASSUME Init PROVE SearchInv
<1>1. command \in Commands /\ supplied \in Seq(Path) /\ tomls \in Tomls
  BY CommandsAssumption DEF Init
<1>2. DOMAIN visitors = {}
  BY DEF Init
<1>3. QED
  BY <1>1, <1>2, EmptyIsABag DEF Init, SearchInv, BagsInv, CountInv, EndInv, SettingsInv, StdinInv

-----------------------------------------------------------------------------
(* What the search finds *)

\* Nothing that a visitor holds is lost or counted twice, and the settings that are looked
\* up are those of the deepest air.toml above a path (discovery.rs).
THEOREM SearchInvariant == Spec => []SearchInv
  BY SearchInvInitially, SearchInvStep, PTL DEF Spec

LEMMA FoundIs ==
  ASSUME SearchInv, Searched, NEW f \in Files
  PROVE  BagIn(Found(f), files) <=> Ways(f) # {}
<1>1. /\ IsABag(files) /\ supplied \in Seq(Path)
      /\ Times(files, Found(f)) = Cardinality(Ways(f))
  BY DEF SearchInv, BagsInv, EndInv, Searched
<1>2. IsFiniteSet(Ways(f))
  <2>1. IsFiniteSet(DOMAIN supplied)
    BY <1>1, FS_Interval
  <2>2. QED
    BY <1>1, <2>1, WaysAre, FS_Subset
<1>3. Cardinality(Ways(f)) = 0 <=> Ways(f) = {}
  BY <1>2, FS_EmptySet
<1>4. BagIn(Found(f), files) <=> Times(files, Found(f)) # 0
  BY <1>1, TimesIs
<1>5. QED
  BY <1>1, <1>3, <1>4

LEMMA InvCountsFiles == ASSUME SearchInv PROVE FilesAreThoseReached
<1>1. \A r : TimesFound(r) = Times(files, r)
  BY DEF TimesFound, Times
<1>2. QED
  BY <1>1 DEF FilesAreThoseReached, Searched, SearchInv, EndInv, MissingCounted

\* However the threads share the walk and hand over what they collected, each file is
\* found once for each supplied path that leads to it, and each path that is not there
\* is reported once (discovery.rs, visit and drop).
THEOREM FilesReached == Spec => []FilesAreThoseReached
  BY SearchInvariant, InvCountsFiles, PTL

LEMMA InvWalkAgrees == ASSUME SearchInv PROVE WalkAgreesWithSupplied
<1>1. SUFFICES ASSUME Searched, NoWhitelists, NEW f \in Files, NEW i \in DOMAIN supplied,
                      StartsWith(f, supplied[i]), Down(supplied[i], f) \cap Hidden = {},
                      \A p \in Down(supplied[i], f) \cup {supplied[i]} :
                        SettingsOf(resolver, p) = SettingsOf(resolver, f),
                      DefaultsAgree(f)
               PROVE  BagIn(Found(f), files) <=> IsStdinFormattable(f, SettingsOf(resolver, f), force)
  BY DEF WalkAgreesWithSupplied, NoWhitelists
<1>2. Fits(resolver) /\ supplied \in Seq(Path)
  BY <1>1 DEF SearchInv, SettingsInv, Searched
<1>3. f \in Tree /\ supplied[i] \in Tree
  <2>1. supplied[i] \in Path /\ f \in Path /\ f \in Tree
    BY <1>2, FilesAre
  <2>2. Len(supplied[i]) \in 0 .. Len(f) /\ supplied[i] = Up(f, Len(supplied[i])) /\ Len(f) \in Nat
    BY <1>1, <2>1, PrefixUnique DEF Path
  <2>3. QED
    BY <2>1, <2>2, DirectoriesOnTheWay, PrefixIs
<1>4. BagIn(Found(f), files) <=> Ways(f) # {}
  BY <1>1, FoundIs
<1>5. ASSUME Ways(f) # {}
      PROVE  IsStdinFormattable(f, SettingsOf(resolver, f), force)
  BY <1>1, <1>2, <1>5, FoundIsFormattable
<1>6. ASSUME IsStdinFormattable(f, SettingsOf(resolver, f), force)
      PROVE  i \in Ways(f)
  BY <1>1, <1>2, <1>3, <1>6, FormattableIsReached
<1>7. QED
  BY <1>4, <1>5, <1>6

\* Where no pattern whitelists and the settings do not change on the way down, a walk finds
\* just those files that would be accepted if they were supplied themselves: not visiting
\* the children of what is excluded comes to the same as looking at a path's parents
\* (discovery.rs, visit).
THEOREM WalkAgrees == Spec => []WalkAgreesWithSupplied
  BY SearchInvariant, InvWalkAgrees, PTL

LEMMA InvStdinAgrees == ASSUME SearchInv PROVE StdinAgreesWithSupplied
<1>1. ASSUME Searched, NEW f \in Files \cap Range(supplied)
      PROVE  LET settings == SettingsOf(LoadedResolver(<<f>>), f)
                 accepted == IsStdinFormattable(f, settings, force)
             IN  /\ accepted => BagIn(Found(f), files)
                 /\ BagIn(Found(f), files) /\ DefaultsAgree(f) => accepted
                 /\ ~force => (accepted <=> ~IsDocumentExcluded(f, settings, FALSE))
                 /\ settings.style = StyleOf(f)
  <2> DEFINE settings == SettingsOf(LoadedResolver(<<f>>), f)
  <2>1. Fits(resolver) /\ supplied \in Seq(Path) /\ f \in Path
    BY <1>1, FilesAre DEF SearchInv, SettingsInv, Searched
  <2>2. PICK i \in DOMAIN supplied : supplied[i] = f
    BY <1>1 DEF Range
  <2>3. settings = TomlSettings(f)
    <3>1. <<f>> \in Seq(Path) /\ 1 \in DOMAIN <<f>> /\ <<f>>[1] = f
      BY <2>1
    <3>2. SettingsOf(LoadedResolver(<<f>>), <<f>>[1]) = TomlSettings(<<f>>[1])
      BY <3>1, LoadedResolverIs
    <3>3. QED
      BY <3>1, <3>2
  <2>4. SettingsOf(resolver, f) = TomlSettings(f)
    BY <1>1, <2>2 DEF SearchInv, SettingsInv, Searched
  <2>5. settings = SettingsOf(resolver, f)
    BY <2>3, <2>4
  <2>6. BagIn(Found(f), files) <=> Ways(f) # {}
    BY <1>1, FoundIs
  <2>7. IsStdinFormattable(f, SettingsOf(resolver, f), force) => i \in Ways(f)
    BY <1>1, <2>1, <2>2, AcceptedIsReached
  <2>8. Ways(f) # {} /\ DefaultsAgree(f) => IsStdinFormattable(f, SettingsOf(resolver, f), force)
    BY <1>1, <2>1, FoundIsFormattable
  <2> HIDE DEF settings
  <2>9. ~force => (IsStdinFormattable(f, settings, force) <=> ~IsDocumentExcluded(f, settings, FALSE))
    BY DEF IsStdinFormattable, IsDocumentExcluded
  <2>10. settings.style = StyleOf(f)
    BY <2>5 DEF StyleOf
  <2>11. QED
    BY <2>5, <2>6, <2>7, <2>8, <2>9, <2>10 DEF settings
<1>2. output # << >> /\ command.stdin \in Files => output[1] \in {StdinText, StyleOf(command.stdin)}
  BY DEF SearchInv, StdinInv
<1>3. QED
  BY <1>1, <1>2 DEF StdinAgreesWithSupplied

\* What is piped in under the name of a file is treated as the file is when it is supplied:
\* in the same style, none that is accepted is left out and none is found that is refused,
\* as long as the defaults agree (stdin.rs, is_stdin_formattable).
THEOREM StdinAgrees == Spec => []StdinAgreesWithSupplied
  BY SearchInvariant, InvStdinAgrees, PTL

-----------------------------------------------------------------------------
(* The inductive invariant of the files *)

\* What was collected is a file, or a supplied path that could not be found.
Sound(bag) == \A r \in DOMAIN bag : ~r.failed => r.path \in Files

WalkInv ==
  /\ \A e \in work : e.path \in Tree
  /\ \A t \in DOMAIN visitors : Sound(visitors[t])
  /\ Sound(files)

Formatted(path) == path \in Files /\ disk[path] = StyleOf(path)

\* A path that was found is still to be formatted, or it is accounted for.
Accounted(r) ==
  \/ r \in DOMAIN pending
  \/ r.path \in DOMAIN errors
  \/ Formatted(r.path)
  \/ command.check /\ r.path \in DOMAIN changed

FormatInv ==
  phase \in {"format", "done"} /\ command.stdin = None => \A r \in DOMAIN files : Accounted(r)

StatusInv ==
  phase = "done" /\ command.stdin = None =>
    \/ DOMAIN files = {} /\ status = "Error"
    \/ DOMAIN pending = {} /\ status = PathsStatus

CommandInv ==
  /\ phase \in {"start", "walk", "format", "done"}
  /\ phase = "start" => DOMAIN files = {}
  /\ DOMAIN disk = Files
  /\ DOMAIN pending \subseteq DOMAIN files
  /\ WalkInv /\ FormatInv /\ StatusInv

-----------------------------------------------------------------------------
(* The walk collects files *)

LEMMA BagAddHas ==
  ASSUME NEW B, NEW x
  PROVE  /\ DOMAIN (B (+) SetToBag({x})) = DOMAIN B \cup {x}
         /\ DOMAIN B \subseteq DOMAIN (B (+) SetToBag({x})) /\ x \in DOMAIN (B (+) SetToBag({x}))
  BY DEF (+), SetToBag

LEMMA BagUnionHas ==
  ASSUME NEW B, NEW C
  PROVE  /\ DOMAIN (B (+) C) = DOMAIN B \cup DOMAIN C
         /\ DOMAIN B \subseteq DOMAIN (B (+) C)
  BY DEF (+)

\* However the walk goes on, it goes on to paths that exist, and collects files.
LEMMA WalkCollectsFiles ==
  ASSUME CommandInv, Walk
  PROVE  WalkInv'
<1>1. PICK t \in Threads : (\E e \in work : Visit(t, e)) \/ DropVisitor(t)
  BY DEF Walk
<1>2. CASE \E e \in work : Visit(t, e)
  <2>1. PICK e \in work : Visit(t, e)
    BY <1>2
  <2>2. \A c \in Children(e) : c.path \in Tree
    BY DEF Children, Entry
  <2>3. \A c \in work' : c.path \in Tree
    BY <2>1, <2>2 DEF Visit, CommandInv, WalkInv
  <2>4. Accepts(e) => Sound(visitors[t] (+) SetToBag({Found(e.path)}))
    <3>1. SUFFICES ASSUME Accepts(e), NEW r \in DOMAIN visitors[t] \cup {Found(e.path)}, ~r.failed
                   PROVE  r.path \in Files
      BY BagAddHas DEF Sound
    <3>2. CASE r \in DOMAIN visitors[t]
      BY <2>1, <3>1, <3>2 DEF Visit, CommandInv, WalkInv, Sound
    <3>3. CASE r = Found(e.path)
      BY <3>1, <3>3 DEF CommandInv, WalkInv, Accepts, IsDirectory, Files, Found
    <3>4. QED
      BY <3>1, <3>2, <3>3
  <2>5. \A u \in DOMAIN visitors' : Sound(visitors'[u])
    BY <2>1, <2>4 DEF Visit, CommandInv, WalkInv
  <2>6. QED
    BY <2>1, <2>3, <2>5 DEF Visit, CommandInv, WalkInv, Sound
<1>3. CASE DropVisitor(t)
  <2>1. DOMAIN files' = DOMAIN files \cup DOMAIN visitors[t]
    BY <1>3, BagUnionHas DEF DropVisitor
  <2>2. Sound(files')
    BY <1>3, <2>1 DEF DropVisitor, CommandInv, WalkInv, Sound
  <2>3. \A u \in DOMAIN visitors' : Sound(visitors'[u])
    BY <1>3 DEF DropVisitor, CommandInv, WalkInv, Restrict
  <2>4. QED
    BY <1>3, <2>2, <2>3 DEF DropVisitor, CommandInv, WalkInv
<1>4. QED
  BY <1>1, <1>2, <1>3

LEMMA WalkStep == ASSUME CommandInv, Walk PROVE CommandInv'
<1>1. phase = "walk" /\ phase' = "walk" /\ disk' = disk /\ pending' = pending
  BY DEF Walk, Visit, DropVisitor, fileVars
<1>2. DOMAIN files \subseteq DOMAIN files'
  <2>1. files' = files \/ \E t \in Threads : files' = files (+) visitors[t]
    BY DEF Walk, Visit, DropVisitor
  <2>2. QED
    BY <2>1, BagUnionHas
<1>3. QED
  BY <1>1, <1>2, WalkCollectsFiles DEF CommandInv, FormatInv, StatusInv

LEMMA StartStep == ASSUME CommandInv, FormatPaths PROVE CommandInv'
<1>1. phase = "start" /\ phase' = "walk" /\ disk' = disk /\ pending' = pending
  BY DEF FormatPaths, StartWalk, fileVars
<1>2. \A e \in work' : e.path \in Tree
  BY DEF FormatPaths, StartWalk, Entry
<1>3. \A t \in DOMAIN visitors' : Sound(visitors'[t])
  BY EmptyIsABag DEF FormatPaths, StartWalk, Sound
<1>4. Sound(files')
  BY DEF FormatPaths, StartWalk, Sound, Missing
<1>5. DOMAIN pending' \subseteq DOMAIN files'
  BY <1>1 DEF CommandInv
<1>6. QED
  BY <1>1, <1>2, <1>3, <1>4, <1>5 DEF CommandInv, WalkInv, FormatInv, StatusInv

-----------------------------------------------------------------------------
(* The files *)

\* The file that was taken is accounted for, and the others are as before.
LEMMA FileStep ==
  ASSUME SearchInv, CommandInv, NEW r \in BagToSet(pending), FailFile(r) \/ WriteFile(r) \/ CheckFile(r)
  PROVE  CommandInv'
<1>1. /\ phase = "format" /\ pending' = pending (-) SetToBag({r})
      /\ UNCHANGED <<tomls, supplied, force, resolver, phase, work, visitors, files, command,
                     output, status>>
  BY DEF FailFile, WriteFile, CheckFile, TakeFile, walkVars
<1>2. r \in DOMAIN files /\ Sound(files)
  BY DEF CommandInv, WalkInv, BagToSet
<1>p. DOMAIN pending' \subseteq DOMAIN pending /\ DOMAIN pending \ {r} \subseteq DOMAIN pending'
  <2>1. IsABag(pending) /\ r \in DOMAIN pending
    BY DEF SearchInv, BagsInv, BagToSet
  <2>2. /\ DOMAIN (pending (-) SetToBag({r})) \subseteq DOMAIN pending
        /\ DOMAIN pending \ {r} \subseteq DOMAIN (pending (-) SetToBag({r}))
    BY <2>1, OneLessIs
  <2>3. QED
    BY <1>1, <2>2
<1>3. DOMAIN disk' = Files
  BY DEF FailFile, WriteFile, CheckFile, CommandInv
<1>4. DOMAIN errors \subseteq DOMAIN errors' /\ DOMAIN changed \subseteq DOMAIN changed'
  <2>1. /\ errors' = errors \/ errors' = errors (+) SetToBag({r.path})
        /\ changed' = changed \/ changed' = changed (+) SetToBag({r.path})
    BY DEF FailFile, WriteFile, CheckFile
  <2>2. /\ DOMAIN errors \subseteq DOMAIN (errors (+) SetToBag({r.path}))
        /\ DOMAIN changed \subseteq DOMAIN (changed (+) SetToBag({r.path}))
    BY BagAddHas
  <2>3. QED
    BY <2>1, <2>2
<1>5. \A path : StyleOf(path)' = StyleOf(path)
  BY <1>1 DEF StyleOf, SettingsOf
<1>6. \A path : Formatted(path) => Formatted(path)'
  <2>1. CASE disk' = disk
    BY <1>5, <2>1 DEF Formatted
  <2>2. CASE disk' = [disk EXCEPT ![r.path] = StyleOf(r.path)]
    BY <1>5, <2>2 DEF Formatted, CommandInv
  <2>3. QED
    BY <2>1, <2>2 DEF FailFile, WriteFile, CheckFile
<1>7. \/ r.path \in DOMAIN errors'
      \/ Formatted(r.path)'
      \/ command.check /\ r.path \in DOMAIN changed'
  <2>0. r.path \in DOMAIN (errors (+) SetToBag({r.path})) /\ r.path \in DOMAIN (changed (+) SetToBag({r.path}))
    BY BagAddHas
  <2>1. CASE FailFile(r)
    BY <2>0, <2>1 DEF FailFile
  <2>2. CASE ~FormatFails(r)
    <3>1. r.path \in Files
      BY <1>2, <2>2 DEF FormatFails, Sound
    <3>2. CASE WriteFile(r)
      <4>1. CASE ~Changes(r.path)
        BY <1>5, <3>1, <3>2, <4>1 DEF WriteFile, Changes, Formatted
      <4>2. CASE Changes(r.path) /\ disk[r.path] = Locked
        BY <2>0, <3>2, <4>2 DEF WriteFile
      <4>3. CASE Changes(r.path) /\ disk[r.path] # Locked
        BY <1>5, <3>1, <3>2, <4>3 DEF WriteFile, Formatted, CommandInv
      <4>4. QED
        BY <4>1, <4>2, <4>3
    <3>3. CASE CheckFile(r)
      <4>1. CASE Changes(r.path)
        BY <1>1, <2>0, <3>3, <4>1 DEF CheckFile
      <4>2. CASE ~Changes(r.path)
        BY <1>5, <3>1, <3>3, <4>2 DEF CheckFile, Changes, Formatted
      <4>3. QED
        BY <4>1, <4>2
    <3>4. QED
      BY <2>2, <3>2, <3>3 DEF FailFile
  <2>3. QED
    BY <2>1, <2>2 DEF WriteFile, CheckFile
<1>8. FormatInv'
  <2>1. SUFFICES ASSUME command.stdin = None, NEW q \in DOMAIN files
                 PROVE  Accounted(q)'
    BY <1>1 DEF FormatInv
  <2>2. Accounted(q)
    BY <1>1, <2>1 DEF CommandInv, FormatInv
  <2>3. CASE q = r
    BY <1>1, <1>7, <2>3 DEF Accounted
  <2>4. CASE q # r
    BY <1>1, <1>4, <1>6, <1>p, <2>2, <2>4 DEF Accounted
  <2>5. QED
    BY <2>3, <2>4
<1>9. DOMAIN pending' \subseteq DOMAIN files'
  BY <1>1, <1>p DEF CommandInv
<1>10. QED
  BY <1>1, <1>3, <1>8, <1>9 DEF CommandInv, WalkInv, StatusInv, Sound

-----------------------------------------------------------------------------
(* The other steps *)

LEMMA EndStep == ASSUME CommandInv, Refuse \/ EndPaths \/ FormatStdin PROVE CommandInv'
<1>1. /\ phase' = "done"
      /\ UNCHANGED <<work, visitors, files, command, disk, pending, errors, changed>>
  BY DEF Refuse, EndPaths, FormatStdin, End
<1>2. WalkInv'
  BY <1>1 DEF CommandInv, WalkInv, Sound
<1>3. CASE Refuse
  BY <1>1, <1>2, <1>3 DEF Refuse, End, CommandInv, FormatInv, StatusInv
<1>4. CASE EndPaths
  <2>1. UNCHANGED resolver /\ phase = "format" /\ DOMAIN pending = {} /\ status' = PathsStatus
    BY <1>4, EmptyIsABag DEF EndPaths, End
  <2>2. PathsStatus' = PathsStatus
    BY <1>1 DEF PathsStatus
  <2>3. \A r : Accounted(r)' <=> Accounted(r)
    BY <1>1, <2>1 DEF Accounted, Formatted, StyleOf, SettingsOf
  <2>4. QED
    BY <1>1, <1>2, <2>1, <2>2, <2>3 DEF CommandInv, FormatInv, StatusInv
<1>5. CASE FormatStdin
  BY <1>1, <1>2, <1>5 DEF FormatStdin, CommandInv, FormatInv, StatusInv
<1>6. QED
  BY <1>3, <1>4, <1>5

LEMMA WalkEndsStep == ASSUME CommandInv, WalkEnds PROVE CommandInv'
<1>1. WalkInv'
  BY DEF WalkEnds, CommandInv, WalkInv, Sound
<1>2. QED
  BY <1>1 DEF WalkEnds, CommandInv, FormatInv, StatusInv, Accounted

LEMMA StutterStep == ASSUME CommandInv, UNCHANGED commandVars PROVE CommandInv'
  BY DEF commandVars, walkVars, fileVars, CommandInv, WalkInv, FormatInv, StatusInv, Sound,
         Accounted, Formatted, StyleOf, SettingsOf, PathsStatus

LEMMA CommandInvStep == ASSUME SearchInv, CommandInv, [Next]_commandVars PROVE CommandInv'
  BY WalkStep, StartStep, FileStep, EndStep, WalkEndsStep, StutterStep DEF Next, Finished

LEMMA CommandInvInitially == ASSUME Init PROVE CommandInv
  BY EmptyIsABag, DisksAssumption
  DEF Init, CommandInv, WalkInv, FormatInv, StatusInv, Sound

\* Of what the walk found nothing is forgotten.
LEMMA InvTellsTheDisk == ASSUME CommandInv PROVE StatusTellsTheDisk
<1> DEFINE found == {r.path : r \in BagToSet(files)}
           good == {f \in found \cap Files : disk[f] = StyleOf(f)}
<1>1. SUFFICES ASSUME phase = "done", command.stdin = None
               PROVE  /\ ~command.check => found \subseteq good \cup BagToSet(errors)
                      /\ status = "Success" => found \subseteq good
                      /\ status = "Failure" => command.check /\ found \subseteq good \cup BagToSet(changed)
  BY DEF StatusTellsTheDisk
<1>2. CASE DOMAIN files = {} /\ status = "Error"
  BY <1>2 DEF BagToSet
<1>3. CASE DOMAIN pending = {} /\ status = PathsStatus
  <2>1. \A path \in found :
          \/ path \in DOMAIN errors \/ path \in good
          \/ command.check /\ path \in DOMAIN changed
    <3>1. SUFFICES ASSUME NEW r \in DOMAIN files
                   PROVE  \/ r.path \in DOMAIN errors \/ r.path \in good
                          \/ command.check /\ r.path \in DOMAIN changed
      BY DEF BagToSet
    <3>2. Accounted(r)
      BY <1>1 DEF CommandInv, FormatInv
    <3>3. Formatted(r.path) => r.path \in good
      BY DEF Formatted, BagToSet
    <3>4. QED
      BY <1>3, <3>2, <3>3 DEF Accounted
  <2>2. status \in {"Success", "Failure"} => DOMAIN errors = {}
    BY <1>3, EmptyIsABag DEF PathsStatus
  <2>3. status = "Success" => ~command.check \/ DOMAIN changed = {}
    BY <1>3, EmptyIsABag DEF PathsStatus
  <2>4. status = "Failure" => command.check
    BY <1>3 DEF PathsStatus
  <2>5. QED
    BY <2>1, <2>2, <2>3, <2>4 DEF BagToSet
<1>4. QED
  BY <1>1, <1>2, <1>3 DEF CommandInv, StatusInv

\* Whatever goes wrong with some of the files (format/paths.rs): after a write each that
\* was found is formatted or in error, and the exit status says Success only if all are
\* formatted.
THEOREM StatusIsTrue == Spec => []StatusTellsTheDisk
  BY SearchInvariant, CommandInvInitially, CommandInvStep, InvTellsTheDisk, PTL DEF Spec

=============================================================================
