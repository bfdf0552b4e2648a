------------------------ MODULE DocumentSync_proofs ------------------------
(***************************************************************************)
(* Proofs about DocumentSync, for every document, every number of changes  *)
(* and messages, every encoding and every line ending: the server          *)
(* survives what the editor sends, follows the editor's text, and answers  *)
(* with edits that give the formatted text.                                *)
(*                                                                         *)
(* A position is converted back to the place it was made of; what is       *)
(* written with line endings is read back without; the line index is right *)
(* up to the last line that was changed; the gaps of a diff, made one      *)
(* after the other from the last, go from the left text to the right one   *)
(* through texts that are mixed of the two.  The invariant is that the     *)
(* messages on their way lead from the server's document to the editor's.  *)
(***************************************************************************)
EXTENDS DocumentSync, Lemmas

-----------------------------------------------------------------------------
(* Characters, lines and columns *)

\* The characters of a document, and the encodings of columns.
Text == Seq(Char)

Encodings == {"Utf8", "Utf16"}

\* The characters c of the text after the first m, up to the n-th.
Count(t, c, m, n) == Cardinality({i \in m + 1 .. n : t[i] = c})

\* The number of characters c between two places.
LEMMA CountTyped ==
  ASSUME NEW t, NEW c, NEW m \in Nat, NEW n \in Nat
  PROVE  /\ IsFiniteSet({i \in m + 1 .. n : t[i] = c})
         /\ Count(t, c, m, n) \in Nat
         /\ m <= n => Count(t, c, m, n) <= n - m
         /\ n <= m => Count(t, c, m, n) = 0
<1>1. /\ IsFiniteSet(m + 1 .. n)
      /\ Cardinality(m + 1 .. n) = IF m + 1 > n THEN 0 ELSE n - (m + 1) + 1
  BY FS_Interval
<1>2. {i \in m + 1 .. n : t[i] = c} \in SUBSET (m + 1 .. n)
  OBVIOUS
<1>3. /\ IsFiniteSet({i \in m + 1 .. n : t[i] = c})
      /\ Cardinality({i \in m + 1 .. n : t[i] = c}) <= Cardinality(m + 1 .. n)
  BY <1>1, <1>2, FS_Subset
<1>4. Count(t, c, m, n) \in Nat
  BY <1>3, FS_CardinalityType DEF Count
<1> QED BY <1>1, <1>3, <1>4 DEF Count

\* Counting over two stretches is counting over both.
LEMMA CountSplit ==
  ASSUME NEW t, NEW c, NEW k \in Nat, NEW m \in Nat, NEW n \in Nat, k <= m, m <= n
  PROVE  Count(t, c, k, n) = Count(t, c, k, m) + Count(t, c, m, n)
<1> DEFINE A == {i \in k + 1 .. m : t[i] = c}
           B == {i \in m + 1 .. n : t[i] = c}
<1>1. IsFiniteSet(A) /\ IsFiniteSet(B)
  BY CountTyped
<1>2. {i \in k + 1 .. n : t[i] = c} = A \cup B /\ A \cap B = {}
  OBVIOUS
<1>3. Cardinality(A) \in Nat /\ Cardinality(B) \in Nat
  BY <1>1, FS_CardinalityType
<1>4. Cardinality(A \cup B) = Cardinality(A) + Cardinality(B) - Cardinality(A \cap B)
  BY <1>1, FS_Union
<1>5. Cardinality(A \cap B) = 0
  BY <1>2, FS_EmptySet
<1> QED BY <1>2, <1>3, <1>4, <1>5 DEF Count

\* A character counts once where it is,
LEMMA CountOne ==
  ASSUME NEW t, NEW c, NEW n \in Nat \ {0}, t[n] = c
  PROVE  Count(t, c, n - 1, n) = 1
<1>1. {i \in n - 1 + 1 .. n : t[i] = c} = {n}
  OBVIOUS
<1> QED BY <1>1, FS_Singleton DEF Count

\* not at all where it is not,
LEMMA CountNone ==
  ASSUME NEW t, NEW c, NEW m \in Nat, NEW n \in Nat, \A i \in m + 1 .. n : t[i] # c
  PROVE  Count(t, c, m, n) = 0
<1>1. {i \in m + 1 .. n : t[i] = c} = {}
  OBVIOUS
<1> QED BY <1>1, FS_EmptySet DEF Count

\* and as often in a text that is the same there.
LEMMA CountSame ==
  ASSUME NEW s, NEW t, NEW c, NEW m \in Nat, NEW n \in Nat, \A i \in m + 1 .. n : s[i] = t[i]
  PROVE  Count(s, c, m, n) = Count(t, c, m, n)
<1>1. {i \in m + 1 .. n : s[i] = c} = {i \in m + 1 .. n : t[i] = c}
  OBVIOUS
<1> QED BY <1>1 DEF Count

-----------------------------------------------------------------------------

\* The line of a place is the number of line breaks before it.
LEMMA LineAtIs ==
  ASSUME NEW t, NEW n \in Nat
  PROVE  LineAt(t, n) = Count(t, LF, 0, n) /\ LineAt(t, n) \in Nat
<1>1. LineAt(t, n) = Count(t, LF, 0, n)
  BY DEF LineAt, Count
<1> QED BY <1>1, CountTyped

\* A later place is on the same line or a later one,
LEMMA LinesAscend ==
  ASSUME NEW t, NEW m \in Nat, NEW n \in Nat, m <= n
  PROVE  LineAt(t, m) <= LineAt(t, n)
<1>1. Count(t, LF, 0, n) = Count(t, LF, 0, m) + Count(t, LF, m, n)
  BY CountSplit
<1>2. Count(t, LF, 0, m) \in Nat /\ Count(t, LF, m, n) \in Nat
  BY CountTyped
<1> QED BY <1>1, <1>2, LineAtIs

\* and behind a line break on a later one.
LEMMA LineBreakCounts ==
  ASSUME NEW t, NEW m \in Nat, NEW n \in Nat, m < n, t[n] = LF
  PROVE  LineAt(t, m) < LineAt(t, n)
<1>1. n - 1 \in Nat /\ n \in Nat \ {0} /\ m <= n - 1
  OBVIOUS
<1>2. LineAt(t, m) <= LineAt(t, n - 1)
  BY <1>1, LinesAscend
<1>3. Count(t, LF, 0, n) = Count(t, LF, 0, n - 1) + Count(t, LF, n - 1, n)
  BY <1>1, CountSplit
<1>4. Count(t, LF, n - 1, n) = 1
  BY <1>1, CountOne
<1>5. LineAt(t, m) \in Nat /\ LineAt(t, n - 1) \in Nat /\ LineAt(t, n - 1) = Count(t, LF, 0, n - 1)
      /\ LineAt(t, n) = Count(t, LF, 0, n)
  BY <1>1, LineAtIs
<1> QED BY <1>2, <1>3, <1>4, <1>5

\* Where a line starts.
Starts(t, n) == n = 0 \/ t[n] = LF

\* A line starts at one place only.
LEMMA StartsUnique ==
  ASSUME NEW t, NEW m \in Nat, NEW n \in Nat, Starts(t, m), Starts(t, n),
         LineAt(t, m) = LineAt(t, n)
  PROVE  m = n
<1>1. LineAt(t, m) \in Nat
  BY LineAtIs
<1>2. CASE m < n
  BY <1>1, <1>2, LineBreakCounts DEF Starts
<1>3. CASE n < m
  BY <1>1, <1>3, LineBreakCounts DEF Starts
<1> QED BY <1>2, <1>3

\* The start of the line of a place.
LEMMA LineStartIs ==
  ASSUME NEW t \in Text, NEW k \in 0 .. Len(t)
  PROVE  /\ LineStart(t, LineAt(t, k)) \in 0 .. k
         /\ LineAt(t, LineStart(t, LineAt(t, k))) = LineAt(t, k)
         /\ Starts(t, LineStart(t, LineAt(t, k)))
<1>1. Len(t) \in Nat /\ k \in Nat
  BY DEF Text
<1> DEFINE line == LineAt(t, k)
           Breaks == {i \in 1 .. k : t[i] = LF}
           Good(n) == LineAt(t, n) = line /\ (n = 0 \/ t[n] = LF)
<1>2. \E n \in 0 .. Len(t) : Good(n)
  <2>1. CASE Breaks = {}
    <3>1. \A i \in 0 + 1 .. k : t[i] # LF
      BY <2>1
    <3>2. LineAt(t, k) = 0 /\ LineAt(t, 0) = 0
      BY <1>1, <3>1, CountNone, LineAtIs, CountTyped
    <3> QED BY <1>1, <3>2
  <2>2. CASE Breaks # {}
    <3>1. Breaks \in SUBSET (1 .. k)
      OBVIOUS
    <3> HIDE DEF Breaks
    <3>2. PICK n \in Breaks : \A m \in Breaks : m <= n
      BY <1>1, <2>2, <3>1, GreatestIndex
    <3>3. n \in 1 .. k /\ t[n] = LF /\ \A i \in n + 1 .. k : t[i] # LF
      BY <1>1, <3>2 DEF Breaks
    <3>4. n \in Nat /\ n <= k
      BY <1>1, <3>3
    <3>5. Count(t, LF, n, k) = 0
      BY <1>1, <3>3, <3>4, CountNone
    <3>6. Count(t, LF, 0, k) = Count(t, LF, 0, n) + Count(t, LF, n, k)
      BY <1>1, <3>4, CountSplit
    <3>7. LineAt(t, n) = line
      BY <1>1, <3>4, <3>5, <3>6, LineAtIs
    <3> QED BY <1>1, <3>3, <3>7
  <2> QED BY <2>1, <2>2
<1>3. LineStart(t, line) \in 0 .. Len(t) /\ Good(LineStart(t, line))
  <2>1. LineStart(t, line) = CHOOSE n \in 0 .. Len(t) : Good(n)
    BY DEF LineStart
  <2> HIDE DEF Good
  <2> QED BY <1>2, <2>1
<1>4. ASSUME LineStart(t, line) > k
      PROVE  FALSE
  <2>1. t[LineStart(t, line)] = LF /\ LineStart(t, line) \in Nat
    BY <1>1, <1>3, <1>4
  <2>2. LineAt(t, k) < LineAt(t, LineStart(t, line))
    BY <1>1, <1>4, <2>1, LineBreakCounts
  <2>3. LineAt(t, k) \in Nat
    BY <1>1, LineAtIs
  <2> QED BY <1>3, <2>2, <2>3
<1> QED BY <1>1, <1>3, <1>4 DEF Starts

\* Columns count a wide character twice in UTF-8.
LEMMA UnitsIs ==
  ASSUME NEW t, NEW m \in Nat, NEW n \in Nat, NEW enc
  PROVE  /\ WideIn(t, m, n) = Count(t, WideChar, m, n) /\ WideIn(t, m, n) \in Nat
         /\ Units(t, m, n, enc) = n - m + IF enc = "Utf8" THEN Count(t, WideChar, m, n) ELSE 0
<1>1. WideIn(t, m, n) = Count(t, WideChar, m, n)
  BY DEF WideIn, Count
<1> QED BY <1>1, CountTyped DEF Units

\* So do offsets,
LEMMA BytesIs ==
  ASSUME NEW t, NEW n \in Nat
  PROVE  Bytes(t, n) = n + Count(t, WideChar, 0, n) /\ Bytes(t, n) \in Nat
<1>1. Units(t, 0, n, "Utf8") = n - 0 + Count(t, WideChar, 0, n)
  BY UnitsIs
<1>2. PICK c \in Nat : c = Count(t, WideChar, 0, n)
  BY CountTyped
<1>3. Bytes(t, n) = n + c
  BY <1>1, <1>2 DEF Bytes
<1> QED BY <1>2, <1>3

\* and no two places have the same.
LEMMA BytesAscend ==
  ASSUME NEW t, NEW m \in Nat, NEW n \in Nat, m < n
  PROVE  Bytes(t, m) < Bytes(t, n)
<1>1. Count(t, WideChar, 0, n) = Count(t, WideChar, 0, m) + Count(t, WideChar, m, n)
  BY CountSplit
<1>2. /\ Count(t, WideChar, 0, m) \in Nat /\ Count(t, WideChar, m, n) \in Nat
      /\ Bytes(t, m) = m + Count(t, WideChar, 0, m) /\ Bytes(t, n) = n + Count(t, WideChar, 0, n)
  BY CountTyped, BytesIs
<1> QED BY <1>1, <1>2

\* An offset in bytes is that of one place in the text.
LEMMA CharsBeforeIs ==
  ASSUME NEW t \in Text, NEW k \in 0 .. Len(t)
  PROVE  CharsBefore(t, Bytes(t, k)) = k
<1> DEFINE offset == Bytes(t, k)
           Places == {n \in 0 .. Len(t) : Bytes(t, n) = offset}
<1>1. Len(t) \in Nat /\ k \in Nat
  BY DEF Text
<1>2. \A n \in 0 .. Len(t) : Bytes(t, n) = offset => n = k
  <2> SUFFICES ASSUME NEW n \in 0 .. Len(t), Bytes(t, n) = offset, n # k
               PROVE  FALSE
    OBVIOUS
  <2>1. n \in Nat /\ (n < k \/ k < n) /\ Bytes(t, n) \in Nat
    BY <1>1, BytesIs
  <2> QED BY <1>1, <2>1, BytesAscend
<1>3. CharsBefore(t, offset) = IF \E n \in 0 .. Len(t) : Bytes(t, n) = offset
                               THEN CHOOSE n \in 0 .. Len(t) : Bytes(t, n) = offset
                               ELSE NoOffset
  BY DEF CharsBefore
<1>4. \E n \in 0 .. Len(t) : Bytes(t, n) = offset
  OBVIOUS
<1> HIDE DEF offset
<1> QED BY <1>2, <1>3, <1>4 DEF offset

\* Two texts are the same up to the n-th character.
Same(s, t, n) == n <= Len(s) /\ n <= Len(t) /\ \A i \in 1 .. n : s[i] = t[i]

\* Lines, offsets and columns depend only on what is before them,
LEMMA PlacesSame ==
  ASSUME NEW s \in Text, NEW t \in Text, NEW n \in Nat, Same(s, t, n), NEW k \in 0 .. n
  PROVE  /\ LineAt(s, k) = LineAt(t, k) /\ Bytes(s, k) = Bytes(t, k)
         /\ \A m \in 0 .. k : WideIn(s, m, k) = WideIn(t, m, k)
<1>1. k \in Nat /\ \A i \in 0 + 1 .. k : s[i] = t[i]
  BY DEF Same
<1>2. LineAt(s, k) = LineAt(t, k)
  BY <1>1, LineAtIs, CountSame
<1>3. Bytes(s, k) = Bytes(t, k)
  BY <1>1, BytesIs, CountSame
<1>4. ASSUME NEW m \in 0 .. k
      PROVE  WideIn(s, m, k) = WideIn(t, m, k)
  <2>1. m \in Nat /\ \A i \in m + 1 .. k : s[i] = t[i]
    BY <1>1
  <2>2. Count(s, WideChar, m, k) = Count(t, WideChar, m, k)
    BY <1>1, <2>1, CountSame
  <2>3. WideIn(s, m, k) = Count(s, WideChar, m, k) /\ WideIn(t, m, k) = Count(t, WideChar, m, k)
    BY <1>1, <2>1, UnitsIs
  <2> QED BY <2>2, <2>3
<1> QED BY <1>2, <1>3, <1>4

\* and so do positions.
LEMMA PositionsSame ==
  ASSUME NEW s \in Text, NEW t \in Text, NEW n \in Nat, Same(s, t, n), NEW k \in 0 .. n, NEW enc
  PROVE  PositionAt(s, k, enc) = PositionAt(t, k, enc)
<1>1. /\ Len(s) \in Nat /\ Len(t) \in Nat /\ k \in Nat
      /\ k \in 0 .. Len(s) /\ k \in 0 .. Len(t)
  BY DEF Same, Text
<1>2. LineAt(s, k) = LineAt(t, k)
  BY PlacesSame
<1>3. PICK a : a = LineStart(s, LineAt(s, k))
  OBVIOUS
<1>4. PICK b : b = LineStart(t, LineAt(t, k))
  OBVIOUS
<1>5. a \in 0 .. k /\ LineAt(s, a) = LineAt(s, k) /\ Starts(s, a)
  BY <1>1, <1>3, LineStartIs
<1>6. b \in 0 .. k /\ LineAt(t, b) = LineAt(t, k) /\ Starts(t, b)
  BY <1>1, <1>4, LineStartIs
<1>7. LineAt(t, a) = LineAt(t, b) /\ Starts(t, a)
  <2>1. a \in 0 .. n
    BY <1>5
  <2>2. LineAt(s, a) = LineAt(t, a)
    BY <2>1, PlacesSame
  <2>3. Starts(t, a)
    BY <1>5 DEF Starts, Same
  <2> QED BY <1>2, <1>5, <1>6, <2>2, <2>3
<1>8. a = b
  BY <1>5, <1>6, <1>7, StartsUnique
<1>9. WideIn(s, a, k) = WideIn(t, a, k)
  BY <1>5, PlacesSame
<1>10. LineStart(t, LineAt(s, k)) = a /\ LineStart(s, LineAt(s, k)) = a
  BY <1>2, <1>3, <1>4, <1>8
<1> QED BY <1>2, <1>9, <1>10 DEF PositionAt, Units

\* What a position says.
LEMMA PositionIs ==
  ASSUME NEW t \in Text, NEW k \in 0 .. Len(t), NEW enc
  PROVE  /\ PositionAt(t, k, enc).line = LineAt(t, k)
         /\ PositionAt(t, k, enc).col = Units(t, LineStart(t, LineAt(t, k)), k, enc)
  BY DEF PositionAt

\* A position is converted to the offset it was made of.
LEMMA OffsetInIs ==
  ASSUME NEW t \in Text, NEW k \in 0 .. Len(t), NEW enc \in Encodings
  PROVE  OffsetIn(t, PositionAt(t, k, enc), enc) = Bytes(t, k)
<1>1. Len(t) \in Nat /\ k \in Nat
  BY DEF Text
<1>2. PICK a : a = LineStart(t, LineAt(t, k))
  OBVIOUS
<1>3. a \in 0 .. k /\ a \in Nat /\ a <= k
  BY <1>1, <1>2, LineStartIs
<1>4. PICK pos : pos = PositionAt(t, k, enc)
  OBVIOUS
<1>5. pos.line = LineAt(t, k) /\ pos.col = Units(t, a, k, enc) /\ LineStart(t, pos.line) = a
  BY <1>2, <1>4 DEF PositionAt
<1>6. LineAt(t, k) <= LineAt(t, Len(t)) /\ LineAt(t, k) \in Nat /\ LineAt(t, Len(t)) \in Nat
  BY <1>1, LinesAscend, LineAtIs
<1>7. PICK c, w, z : /\ c = Count(t, WideChar, a, k) /\ w = Count(t, WideChar, 0, a)
                     /\ z = Count(t, WideChar, 0, k)
  OBVIOUS
<1>8. c \in Nat /\ w \in Nat /\ z \in Nat /\ z = w + c
  <2>1. Count(t, WideChar, 0, k) = Count(t, WideChar, 0, a) + Count(t, WideChar, a, k)
    BY <1>1, <1>3, CountSplit
  <2>2. /\ Count(t, WideChar, 0, k) \in Nat /\ Count(t, WideChar, 0, a) \in Nat
        /\ Count(t, WideChar, a, k) \in Nat
    BY <1>1, <1>3, CountTyped
  <2> QED BY <1>7, <2>1, <2>2
<1>9. Bytes(t, a) = a + w /\ Bytes(t, k) = k + z
  BY <1>1, <1>3, <1>7, BytesIs
<1>10. ByteColumn(t, pos, enc) = k - a + c
  <2>1. CASE enc = "Utf8"
    <3>1. pos.col = k - a + c
      BY <1>1, <1>3, <1>5, <1>7, <2>1, UnitsIs
    <3> QED BY <1>8, <1>3, <1>1, <2>1, <3>1 DEF ByteColumn
  <2>2. CASE enc = "Utf16"
    <3>1. pos.col = k - a
      BY <1>1, <1>3, <1>5, <2>2, UnitsIs
    <3>2. a + pos.col = k
      BY <1>1, <1>3, <3>1
    <3>3. (IF a + pos.col < Len(t) THEN a + pos.col ELSE Len(t)) = k
      BY <1>1, <3>2
    <3>4. ByteColumn(t, pos, enc) = pos.col + WideIn(t, a, k)
      BY <1>5, <2>2, <3>3 DEF ByteColumn
    <3>5. WideIn(t, a, k) = c
      BY <1>1, <1>3, <1>7, UnitsIs
    <3> QED BY <3>1, <3>4, <3>5
  <2> QED BY <2>1, <2>2 DEF Encodings
<1>11. OffsetIn(t, pos, enc) = Bytes(t, a) + ByteColumn(t, pos, enc)
  BY <1>5, <1>6 DEF OffsetIn
<1>12. OffsetIn(t, pos, enc) = Bytes(t, k)
  BY <1>1, <1>3, <1>8, <1>9, <1>10, <1>11
<1> QED BY <1>4, <1>12

-----------------------------------------------------------------------------
(* Sequences that are put together *)

\* A function that is defined by recursion up to n, with g for its step.
Recurs(f, n, base, g) == f[0] = base /\ \A i \in 1 .. n : f[i] = g[<<i, f[i - 1]>>]

\* Such a function exists, and its values are where each step keeps them.
LEMMA RecursionTyped ==
  ASSUME NEW n \in Nat, NEW base, NEW g, NEW R, base \in R[0],
         \A i \in 1 .. n : \A v \in R[i - 1] : g[<<i, v>>] \in R[i]
  PROVE  \E f : Recurs(f, n, base, g) /\ \A i \in 0 .. n : f[i] \in R[i]
<1> DEFINE Good(f, m) == f = [i \in 0 .. m |-> IF i = 0 THEN base ELSE g[<<i, f[i - 1]>>]]
           P == {m \in Nat : \E f : Good(f, m)}
<1>1. 0 \in P
  <2>1. PICK f : f = [i \in 0 .. 0 |-> base]
    OBVIOUS
  <2>2. Good(f, 0)
    BY <2>1
  <2> QED BY <2>2
<1>2. ASSUME NEW m \in Nat, m \in P
      PROVE  m + 1 \in P
  <2>1. PICK f : Good(f, m)
    BY <1>2
  <2>2. PICK h : h = [i \in 0 .. m + 1 |-> IF i = 0 THEN base ELSE g[<<i, f[i - 1]>>]]
    OBVIOUS
  <2>3. ASSUME NEW i \in 0 .. m + 1, i # 0
        PROVE  h[i - 1] = f[i - 1]
    <3>1. i - 1 \in 0 .. m /\ i - 1 \in 0 .. m + 1
      BY <2>3
    <3> QED BY <2>1, <2>2, <3>1
  <2>4. Good(h, m + 1)
    BY <2>2, <2>3
  <2> QED BY <2>4
<1>3. n \in P
  <2>1. Nat \subseteq P
    <3> HIDE DEF P
    <3> QED BY <1>1, <1>2, NatInductionSet
  <2> QED BY <2>1
<1>4. PICK f : Good(f, n)
  BY <1>3
<1>5. /\ f[0] = base
      /\ \A i \in 1 .. n : f[i] = g[<<i, f[i - 1]>>]
  <2>1. \A i \in 0 .. n : f[i] = IF i = 0 THEN base ELSE g[<<i, f[i - 1]>>]
    BY <1>4, Zenon
  <2>2. f[0] = base
    <3>1. 0 \in 0 .. n
      OBVIOUS
    <3> QED BY <2>1, <3>1, Zenon
  <2>3. \A i \in 1 .. n : i \in 0 .. n /\ i # 0
    OBVIOUS
  <2>4. \A i \in 1 .. n : f[i] = g[<<i, f[i - 1]>>]
    BY <2>1, <2>3, Zenon
  <2> QED BY <2>2, <2>4
<1> DEFINE Q == {i \in Nat : i <= n => f[i] \in R[i]}
<1>6. Nat \subseteq Q
  <2>1. 0 \in Q
    BY <1>5
  <2>2. ASSUME NEW i \in Nat, i \in Q
        PROVE  i + 1 \in Q
    <3>1. CASE i + 1 <= n
      <4>1. i + 1 \in 1 .. n /\ i + 1 - 1 = i /\ f[i] \in R[i]
        BY <2>2, <3>1
      <4>2. PICK j : j = i + 1
        OBVIOUS
      <4>3. j \in 1 .. n /\ j - 1 = i
        BY <4>1, <4>2
      <4>4. f[j] = g[<<j, f[i]>>]
        BY <1>5, <4>3
      <4>5. g[<<j, f[i]>>] \in R[j]
        BY <4>1, <4>3
      <4> QED BY <4>2, <4>4, <4>5
    <3>2. CASE ~ i + 1 <= n
      BY <3>2
    <3> QED BY <3>1, <3>2
  <2> HIDE DEF Q
  <2> QED BY <2>1, <2>2, NatInductionSet
<1>7. \A i \in 0 .. n : f[i] \in R[i]
  BY <1>6
<1> QED BY <1>5, <1>7 DEF Recurs

\* The pieces of a flattened sequence, put together one after the other.
Flattens(f, n, pieces, S) ==
  /\ f[0] = <<>>
  /\ \A i \in 1 .. n : f[i] = f[i - 1] \o pieces[i]
  /\ \A i \in 0 .. n : f[i] \in Seq(S)

\* A flattened sequence is the last of its pieces put together.
LEMMA FlattenIs ==
  ASSUME NEW S, NEW n \in Nat, NEW pieces, pieces \in [1 .. n -> Seq(S)]
  PROVE  \E f : Flattens(f, n, pieces, S) /\ FlattenSeq(pieces) = f[n]
<1>1. pieces \in Seq(Seq(S)) /\ Len(pieces) = n
  OBVIOUS
<1>2. CASE n = 0
  <2>1. PICK f : f = [i \in 0 .. 0 |-> <<>>]
    OBVIOUS
  <2>2. pieces = <<>>
    BY <1>1, <1>2
  <2>3. <<>> \in Seq(S)
    OBVIOUS
  <2>4. f[0] = <<>> /\ \A i \in 0 .. n : f[i] \in Seq(S)
    BY <1>2, <2>1, <2>3
  <2>5. Flattens(f, n, pieces, S)
    BY <1>2, <2>4 DEF Flattens
  <2>6. FlattenSeq(pieces) = f[n]
    BY <1>1, <1>2, <2>2, <2>4 DEF FlattenSeq
  <2> QED BY <2>5, <2>6
<1>3. CASE n # 0
  <2> DEFINE flatten(h) == h = [i \in 1 .. n |-> IF i = 1 THEN pieces[i] ELSE h[i - 1] \o pieces[i]]
             c == [x \in (1 .. n) \X Seq(S) |-> x[2] \o pieces[x[1]]]
             R == [i \in 0 .. n |-> Seq(S)]
  <2>1. <<>> \in R[0]
    <3>1. <<>> \in Seq(S)
      OBVIOUS
    <3> QED BY <3>1
  <2>2. \A i \in 1 .. n : \A v \in Seq(S) : c[<<i, v>>] = v \o pieces[i] /\ v \o pieces[i] \in Seq(S)
    <3> SUFFICES ASSUME NEW i \in 1 .. n, NEW v \in Seq(S)
                 PROVE  c[<<i, v>>] = v \o pieces[i] /\ v \o pieces[i] \in Seq(S)
      OBVIOUS
    <3>1. pieces[i] \in Seq(S)
      OBVIOUS
    <3>2. v \o pieces[i] \in Seq(S)
      BY <3>1
    <3>3. <<i, v>> \in (1 .. n) \X Seq(S) /\ <<i, v>>[1] = i /\ <<i, v>>[2] = v
      OBVIOUS
    <3> QED BY <3>2, <3>3, Zenon
  <2>3. \A i \in 0 .. n : R[i] = Seq(S)
    OBVIOUS
  <2> HIDE DEF c, R
  <2>4. PICK f : Recurs(f, n, <<>>, c) /\ \A i \in 0 .. n : f[i] \in R[i]
    <3>1. \A i \in 1 .. n : \A v \in R[i - 1] : c[<<i, v>>] \in R[i]
      <4>1. ASSUME NEW i \in 1 .. n, NEW v \in R[i - 1]
            PROVE  c[<<i, v>>] \in R[i]
        <5>1. i - 1 \in 0 .. n /\ i \in 0 .. n
          OBVIOUS
        <5>2. v \in Seq(S) /\ R[i] = Seq(S)
          BY <5>1, <2>3
        <5> QED BY <5>2, <2>2
      <4> QED BY <4>1
    <3> QED BY <2>1, <3>1, RecursionTyped
  <2>5. ASSUME NEW i \in 1 .. n
        PROVE  f[i] = f[i - 1] \o pieces[i]
    <3>1. i - 1 \in 0 .. n
      OBVIOUS
    <3>2. f[i - 1] \in Seq(S)
      BY <2>3, <2>4, <3>1
    <3>3. f[i] = c[<<i, f[i - 1]>>]
      BY <2>4 DEF Recurs
    <3> QED BY <2>2, <3>2, <3>3
  <2>6. \A i \in 0 .. n : f[i] \in Seq(S)
    BY <2>3, <2>4
  <2>7. Flattens(f, n, pieces, S)
    BY <2>4, <2>5, <2>6 DEF Flattens, Recurs
  <2>8. f[1] = pieces[1]
    <3>1. 1 \in 1 .. n /\ 1 - 1 = 0 /\ pieces[1] \in Seq(S)
      BY <1>3
    <3>2. f[1] = <<>> \o pieces[1]
      BY <2>4, <2>5, <3>1 DEF Recurs
    <3> QED BY <3>1, <3>2
  <2>9. PICK h : h = [i \in 1 .. n |-> f[i]]
    OBVIOUS
  <2>10. flatten(h)
    <3>1. ASSUME NEW i \in 1 .. n
          PROVE  h[i] = IF i = 1 THEN pieces[i] ELSE h[i - 1] \o pieces[i]
      <4>1. CASE i = 1
        BY <2>8, <2>9, <4>1
      <4>2. CASE i # 1
        <5>1. i - 1 \in 1 .. n
          BY <4>2
        <5>2. h[i - 1] = f[i - 1] /\ h[i] = f[i] /\ f[i] = f[i - 1] \o pieces[i]
          BY <2>5, <2>9, <5>1
        <5> QED BY <4>2, <5>2
      <4> QED BY <4>1, <4>2
    <3> QED BY <2>9, <3>1
  <2>11. FlattenSeq(pieces) = (CHOOSE k : flatten(k))[n]
    BY <1>1, <1>3 DEF FlattenSeq
  <2>12. PICK k : k = CHOOSE l : flatten(l)
    OBVIOUS
  <2>13. flatten(k)
    <3> HIDE DEF flatten
    <3> QED BY <2>10, <2>12
  <2> DEFINE Q == {i \in Nat : i + 1 <= n => k[i + 1] = f[i + 1]}
  <2>14. Nat \subseteq Q
    <3>1. 0 \in Q
      BY <1>3, <2>8, <2>13
    <3>2. ASSUME NEW i \in Nat, i \in Q
          PROVE  i + 1 \in Q
      <4>1. CASE i + 2 <= n
        <5>1. PICK j : j = i + 2
          OBVIOUS
        <5>2. j \in 1 .. n /\ j # 1 /\ j - 1 = i + 1
          BY <4>1, <5>1
        <5>3. k[j] = k[j - 1] \o pieces[j]
          BY <2>13, <5>2
        <5>4. f[j] = f[j - 1] \o pieces[j]
          BY <2>5, <5>2
        <5>5. k[i + 1] = f[i + 1]
          BY <3>2, <4>1
        <5>6. k[j] = f[j]
          BY <5>2, <5>3, <5>4, <5>5
        <5>7. j = i + 1 + 1
          BY <5>1
        <5> QED BY <5>6, <5>7
      <4>2. CASE ~ i + 2 <= n
        BY <4>2
      <4> QED BY <4>1, <4>2
    <3> HIDE DEF Q
    <3> QED BY <3>1, <3>2, NatInductionSet
  <2>15. k[n] = f[n]
    <3>1. PICK j \in Nat : j = n - 1
      BY <1>3
    <3>2. j + 1 = n /\ j + 1 <= n
      BY <3>1
    <3> QED BY <2>14, <3>1, <3>2
  <2> QED BY <2>7, <2>11, <2>12, <2>15
<1> QED BY <1>2, <1>3

-----------------------------------------------------------------------------
(* Line endings *)

\* The texts of an editor, whose line breaks are single characters.
Plain(t) == \A i \in DOMAIN t : t[i] # CR
EditorTexts == {t \in Text : Plain(t)}

\* What normalizing makes of each character.
Kept(t) == [i \in DOMAIN t |-> IF CarriageAt(t, i) THEN <<>> ELSE <<t[i]>>]

\* To normalize is to put together what is kept,
LEMMA NormalizedAs ==
  ASSUME NEW t \in Text
  PROVE  \E f : /\ Flattens(f, Len(t), Kept(t), Char)
                /\ Normalize(t) = f[Len(t)]
<1>1. Len(t) \in Nat /\ DOMAIN t = 1 .. Len(t) /\ \A i \in 1 .. Len(t) : t[i] \in Char
  BY DEF Text
<1>2. ASSUME NEW i \in 1 .. Len(t)
      PROVE  Kept(t)[i] \in Seq(Char)
  <2>1. <<>> \in Seq(Char) /\ <<t[i]>> \in Seq(Char)
    BY <1>1
  <2> QED BY <1>1, <2>1 DEF Kept
<1>3. Kept(t) \in [1 .. Len(t) -> Seq(Char)]
  BY <1>1, <1>2 DEF Kept
<1>4. \E f : Flattens(f, Len(t), Kept(t), Char) /\ FlattenSeq(Kept(t)) = f[Len(t)]
  BY <1>1, <1>3, FlattenIs
<1>5. Normalize(t) = FlattenSeq(Kept(t))
  BY DEF Normalize, Kept
<1> QED BY <1>4, <1>5

\* which is a text.
LEMMA NormalizeTyped ==
  ASSUME NEW t \in Text
  PROVE  Normalize(t) \in Text
<1>1. PICK f : Flattens(f, Len(t), Kept(t), Char) /\ Normalize(t) = f[Len(t)]
  BY NormalizedAs
<1>2. Len(t) \in 0 .. Len(t)
  BY DEF Text
<1> QED BY <1>1, <1>2 DEF Flattens, Text

\* A text without a line break of two characters is not changed.
LEMMA NothingToNormalize ==
  ASSUME NEW t \in Text, \A i \in DOMAIN t : ~CarriageAt(t, i)
  PROVE  Normalize(t) = t
<1>1. PICK f : Flattens(f, Len(t), Kept(t), Char) /\ Normalize(t) = f[Len(t)]
  BY NormalizedAs
<1>2. Len(t) \in Nat /\ DOMAIN t = 1 .. Len(t) /\ \A i \in 1 .. Len(t) : t[i] \in Char
  BY DEF Text
<1>3. \A i \in 1 .. Len(t) : Kept(t)[i] = <<t[i]>>
  BY <1>2 DEF Kept
<1> DEFINE Q == {n \in Nat : n <= Len(t) => /\ f[n] \in Seq(Char) /\ Len(f[n]) = n
                                            /\ \A i \in 1 .. n : f[n][i] = t[i]}
<1>4. 0 \in Q
  <2>1. f[0] = <<>>
    BY <1>1 DEF Flattens
  <2>2. <<>> \in Seq(Char) /\ Len(<<>>) = 0
    OBVIOUS
  <2>3. f[0] \in Seq(Char) /\ Len(f[0]) = 0 /\ \A i \in 1 .. 0 : f[0][i] = t[i]
    BY <2>1, <2>2
  <2> QED BY <2>3
<1>5. ASSUME NEW n \in Nat, n \in Q
      PROVE  n + 1 \in Q
  <2>1. SUFFICES ASSUME n + 1 <= Len(t)
                 PROVE  n + 1 \in Q
    OBVIOUS
  <2>2. /\ f[n] \in Seq(Char) /\ Len(f[n]) = n
        /\ \A i \in 1 .. n : f[n][i] = t[i]
    BY <1>2, <1>5, <2>1
  <2>3. PICK j \in Nat : j = n + 1
    OBVIOUS
  <2>4. j \in 1 .. Len(t) /\ j - 1 = n /\ j \in 0 .. Len(t)
    BY <1>2, <2>1, <2>3
  <2>5. f[j] = f[n] \o <<t[j]>> /\ f[j] \in Seq(Char)
    BY <1>1, <1>3, <2>4 DEF Flattens
  <2>6. <<t[j]>> \in Seq(Char) /\ Len(<<t[j]>>) = 1
    BY <1>2, <2>4
  <2>7. Len(f[j]) = j /\ \A i \in 1 .. j : f[j][i] = t[i]
    BY <2>2, <2>3, <2>5, <2>6
  <2>8. j \in Q
    BY <2>5, <2>7
  <2> QED BY <2>3, <2>8
<1>6. Nat \subseteq Q
  <2> HIDE DEF Q
  <2> QED BY <1>4, <1>5, NatInductionSet
<1>7. f[Len(t)] \in Seq(Char) /\ Len(f[Len(t)]) = Len(t) /\ \A i \in 1 .. Len(t) : f[Len(t)][i] = t[i]
  BY <1>2, <1>6
<1>8. f[Len(t)] = t
  BY <1>7, SeqEqual DEF Text
<1> QED BY <1>1, <1>8

\* Line breaks written as two characters are read back as one.
Written(t) == [i \in DOMAIN t |-> IF t[i] = LF THEN <<CR, LF>> ELSE <<t[i]>>]

\* The text with two characters for each line break.
LEMMA CarriagedAs ==
  ASSUME NEW t \in Text
  PROVE  /\ Carriaged(t) \in Text
         /\ \E f : /\ Flattens(f, Len(t), Written(t), Char)
                   /\ Carriaged(t) = f[Len(t)]
<1>1. Len(t) \in Nat /\ DOMAIN t = 1 .. Len(t) /\ \A i \in 1 .. Len(t) : t[i] \in Char
  BY DEF Text
<1>2. ASSUME NEW i \in 1 .. Len(t)
      PROVE  Written(t)[i] \in Seq(Char)
  <2>1. CR \in Char /\ LF \in Char
    BY DEF Char
  <2>2. <<CR, LF>> \in Seq(Char) /\ <<t[i]>> \in Seq(Char)
    BY <1>1, <2>1
  <2> QED BY <1>1, <2>2 DEF Written
<1>3. Written(t) \in [1 .. Len(t) -> Seq(Char)]
  BY <1>1, <1>2 DEF Written
<1>4. \E f : Flattens(f, Len(t), Written(t), Char) /\ FlattenSeq(Written(t)) = f[Len(t)]
  BY <1>1, <1>3, FlattenIs
<1>5. Carriaged(t) = FlattenSeq(Written(t))
  BY DEF Carriaged, Written
<1>6. Len(t) \in 0 .. Len(t)
  BY <1>1
<1> QED BY <1>4, <1>5, <1>6 DEF Text, Flattens

\* The text q begins with the text p.
Begins(q, p) == Len(p) <= Len(q) /\ \A i \in 1 .. Len(p) : q[i] = p[i]

\* Putting pieces together only adds at the end.
LEMMA FlattenGrows ==
  ASSUME NEW S, NEW n \in Nat, NEW f, NEW pieces, Flattens(f, n, pieces, S),
         \A i \in 1 .. n : pieces[i] \in Seq(S), NEW m \in 0 .. n
  PROVE  Begins(f[n], f[m])
<1>1. /\ \A i \in 1 .. n : f[i] = f[i - 1] \o pieces[i]
      /\ \A i \in 0 .. n : f[i] \in Seq(S)
  BY DEF Flattens
<1> DEFINE Q == {k \in Nat : m + k <= n => Begins(f[m + k], f[m])}
<1>2. 0 \in Q
  <2>1. m + 0 = m /\ Len(f[m]) \in Nat
    BY <1>1
  <2> QED BY <2>1 DEF Begins
<1>3. ASSUME NEW k \in Nat, k \in Q
      PROVE  k + 1 \in Q
  <2>1. SUFFICES ASSUME m + (k + 1) <= n
                 PROVE  k + 1 \in Q
    OBVIOUS
  <2>2. PICK a \in Nat, b \in Nat : a = m + k /\ b = m + (k + 1)
    OBVIOUS
  <2>3. a \in 0 .. n /\ b \in 1 .. n /\ b \in 0 .. n /\ b - 1 = a /\ a <= n
    BY <2>1, <2>2
  <2>4. Begins(f[a], f[m])
    BY <1>3, <2>2, <2>3
  <2>5. f[b] = f[a] \o pieces[b] /\ f[a] \in Seq(S) /\ pieces[b] \in Seq(S) /\ f[m] \in Seq(S)
    BY <1>1, <2>3
  <2>6. PICK p, q, r : p = f[m] /\ q = f[a] /\ r = pieces[b]
    OBVIOUS
  <2>7. p \in Seq(S) /\ q \in Seq(S) /\ r \in Seq(S) /\ Begins(q, p)
    BY <2>4, <2>5, <2>6
  <2>8. Begins(q \o r, p)
    BY <2>7 DEF Begins
  <2>9. Begins(f[b], f[m])
    BY <2>5, <2>6, <2>8
  <2> QED BY <2>2, <2>9
<1>4. Nat \subseteq Q
  <2> HIDE DEF Q
  <2> QED BY <1>2, <1>3, NatInductionSet
<1>5. PICK k \in Nat : m + k = n
  <2>1. n - m \in Nat /\ m + (n - m) = n
    OBVIOUS
  <2> QED BY <2>1
<1>6. k \in Q
  BY <1>4
<1>7. Begins(f[m + k], f[m])
  BY <1>5, <1>6
<1> QED BY <1>5, <1>7

\* Normalizing undoes writing line breaks as two characters:
\* the i-th character that is written comes back as the i-th.
LEMMA NormalizeCarriaged ==
  ASSUME NEW t \in EditorTexts
  PROVE  Normalize(Carriaged(t)) = t
<1>1. /\ Len(t) \in Nat /\ DOMAIN t = 1 .. Len(t) /\ t \in Text
      /\ \A i \in 1 .. Len(t) : t[i] \in Char /\ t[i] # CR
  BY DEF EditorTexts, Text, Plain
<1>2. PICK c : c = Carriaged(t)
  OBVIOUS
<1>3. PICK w : Flattens(w, Len(t), Written(t), Char) /\ c = w[Len(t)]
  BY <1>2, <1>1, CarriagedAs
<1>4. c \in Text
  BY <1>2, <1>1, CarriagedAs
<1>5. PICK f : Flattens(f, Len(c), Kept(c), Char) /\ Normalize(c) = f[Len(c)]
  BY <1>4, NormalizedAs
<1>6. /\ Len(c) \in Nat /\ DOMAIN c = 1 .. Len(c)
      /\ \A i \in 1 .. Len(c) : Kept(c)[i] = IF CarriageAt(c, i) THEN <<>> ELSE <<c[i]>>
      /\ \A i \in 0 .. Len(c) : f[i] \in Seq(Char)
      /\ f[0] = <<>>
      /\ \A i \in 1 .. Len(c) : f[i] = f[i - 1] \o Kept(c)[i]
  <2>1. Len(c) \in Nat /\ DOMAIN c = 1 .. Len(c)
    BY <1>4 DEF Text
  <2>2. \A i \in 1 .. Len(c) : Kept(c)[i] = IF CarriageAt(c, i) THEN <<>> ELSE <<c[i]>>
    BY <2>1, Zenon DEF Kept
  <2>3. /\ \A i \in 0 .. Len(c) : f[i] \in Seq(Char)
        /\ f[0] = <<>>
        /\ \A i \in 1 .. Len(c) : f[i] = f[i - 1] \o Kept(c)[i]
    BY <1>5, Zenon DEF Flattens
  <2> QED BY <2>1, <2>2, <2>3, Zenon
<1>7. /\ \A i \in 0 .. Len(t) : w[i] \in Seq(Char)
      /\ w[0] = <<>>
      /\ \A i \in 1 .. Len(t) : w[i] = w[i - 1] \o Written(t)[i]
      /\ \A i \in 1 .. Len(t) : Written(t)[i] = IF t[i] = LF THEN <<CR, LF>> ELSE <<t[i]>>
  BY <1>1, <1>3 DEF Written, Flattens
<1>8. \A n \in 0 .. Len(t) : Len(w[n]) <= Len(c) /\ \A i \in 1 .. Len(w[n]) : c[i] = w[n][i]
  <2>1. \A i \in 1 .. Len(t) : Written(t)[i] \in Seq(Char)
    <3>1. CR \in Char /\ LF \in Char
      BY DEF Char
    <3>2. <<CR, LF>> \in Seq(Char) /\ \A i \in 1 .. Len(t) : <<t[i]>> \in Seq(Char)
      BY <1>1, <3>1
    <3> QED BY <1>7, <3>2
  <2>2. \A n \in 0 .. Len(t) : Begins(w[Len(t)], w[n])
    BY <1>1, <1>3, <2>1, FlattenGrows
  <2> QED BY <1>3, <2>2 DEF Begins
<1> DEFINE Read(n) == /\ Len(f[Len(w[n])]) = n
                      /\ \A i \in 1 .. n : f[Len(w[n])][i] = t[i]
           Q == {n \in Nat : n <= Len(t) => Read(n)}
<1>9. 0 \in Q
  <2>1. Len(w[0]) = 0 /\ f[0] = <<>> /\ Len(<<>>) = 0
    BY <1>6, <1>7
  <2>2. Len(f[Len(w[0])]) = 0
    BY <2>1
  <2>3. Read(0)
    BY <2>2
  <2> QED BY <2>3
<1>10. ASSUME NEW n \in Nat, n \in Q
      PROVE  n + 1 \in Q
  <2>1. SUFFICES ASSUME n + 1 <= Len(t)
                 PROVE  n + 1 \in Q
    OBVIOUS
  <2>2. PICK j \in Nat : j = n + 1
    OBVIOUS
  <2>3. j \in 1 .. Len(t) /\ j - 1 = n /\ j \in 0 .. Len(t) /\ n \in 0 .. Len(t)
    BY <1>1, <2>1, <2>2
  <2>4. Read(n)
    BY <1>10, <1>1, <2>1
  <2>5. PICK m : m = Len(w[n])
    OBVIOUS
  <2>6. PICK v : v = f[m]
    OBVIOUS
  <2>7. m \in Nat /\ m <= Len(c) /\ w[n] \in Seq(Char) /\ v \in Seq(Char)
    BY <1>6, <1>7, <1>8, <2>3, <2>5, <2>6
  <2>8. Len(v) = n /\ \A i \in 1 .. n : v[i] = t[i]
    BY <2>4, <2>5, <2>6
  <2>9. Len(w[j]) <= Len(c) /\ \A i \in 1 .. Len(w[j]) : c[i] = w[j][i]
    BY <1>8, <2>3
  <2>10. t[j] \in Char /\ t[j] # CR
    BY <1>1, <2>3
  <2>11. f[Len(w[j])] = v \o <<t[j]>>
    <3>1. CASE t[j] = LF
      <4>1. w[j] = w[n] \o <<CR, LF>>
        BY <1>7, <2>3, <3>1
      <4>2. CR \in Char /\ LF \in Char
        BY DEF Char
      <4>3. <<CR, LF>> \in Seq(Char) /\ Len(<<CR, LF>>) = 2 /\ <<CR, LF>>[1] = CR /\ <<CR, LF>>[2] = LF
        BY <4>2
      <4>4. Len(w[j]) = m + 2 /\ w[j][m + 1] = CR /\ w[j][m + 2] = LF
        BY <2>5, <2>7, <4>1, <4>3
      <4>5. PICK a \in Nat, b \in Nat : a = m + 1 /\ b = m + 2
        BY <2>7
      <4>6. /\ a \in 1 .. Len(c) /\ b \in 1 .. Len(c) /\ a < Len(c) /\ a + 1 = b /\ a - 1 = m /\ b - 1 = a
            /\ Len(w[j]) = b /\ c[a] = CR /\ c[b] = LF
        BY <2>9, <4>4, <4>5, <2>7, <1>6
      <4>7. CarriageAt(c, a)
        BY <4>6 DEF CarriageAt
      <4>8. ~CarriageAt(c, b)
        BY <4>6 DEF CarriageAt, CR, LF
      <4>9. f[a] = v \o <<>>
        BY <1>6, <2>6, <4>6, <4>7
      <4>10. f[a] = v
        BY <2>7, <4>9
      <4>11. f[b] = v \o <<c[b]>>
        BY <1>6, <4>6, <4>8, <4>10
      <4> QED BY <3>1, <4>6, <4>11
    <3>2. CASE t[j] # LF
      <4>1. w[j] = w[n] \o <<t[j]>>
        BY <1>7, <2>3, <3>2
      <4>2. <<t[j]>> \in Seq(Char) /\ Len(<<t[j]>>) = 1 /\ <<t[j]>>[1] = t[j]
        BY <2>10
      <4>3. Len(w[j]) = m + 1 /\ w[j][m + 1] = t[j]
        BY <2>5, <2>7, <4>1, <4>2
      <4>4. PICK a \in Nat : a = m + 1
        BY <2>7
      <4>5. a \in 1 .. Len(c) /\ a - 1 = m /\ Len(w[j]) = a /\ c[a] = t[j]
        BY <2>9, <4>3, <4>4, <2>7, <1>6
      <4>6. ~CarriageAt(c, a)
        BY <4>5, <2>10 DEF CarriageAt
      <4>7. f[a] = v \o <<c[a]>>
        BY <1>6, <2>6, <4>5, <4>6
      <4> QED BY <4>5, <4>7
    <3> QED BY <3>1, <3>2
  <2>12. <<t[j]>> \in Seq(Char) /\ Len(<<t[j]>>) = 1 /\ <<t[j]>>[1] = t[j]
    BY <2>10
  <2>13. Len(v \o <<t[j]>>) = j /\ \A i \in 1 .. j : (v \o <<t[j]>>)[i] = t[i]
    BY <2>2, <2>7, <2>8, <2>12
  <2>14. Read(j)
    BY <2>11, <2>13
  <2> HIDE DEF Read
  <2> QED BY <2>2, <2>14
<1>11. Nat \subseteq Q
  <2> HIDE DEF Q
  <2> QED BY <1>9, <1>10, NatInductionSet
<1>12. Read(Len(t))
  BY <1>1, <1>11
<1>13. Len(c) \in 0 .. Len(c) /\ f[Len(c)] \in Seq(Char)
  BY <1>6
<1>14. f[Len(c)] = t
  BY <1>3, <1>12, <1>13, <1>1, SeqEqual DEF Text
<1> QED BY <1>2, <1>5, <1>14

\* Whatever line endings a text is written in, it is read back.
LEMMA WrittenIs ==
  ASSUME NEW t \in EditorTexts, NEW endings
  PROVE  /\ WithEndings(t, endings) \in Text
         /\ Normalize(WithEndings(t, endings)) = t
<1>1. t \in Text /\ \A i \in DOMAIN t : ~CarriageAt(t, i)
  BY DEF EditorTexts, Plain, CarriageAt
<1>2. CASE endings = "Crlf"
  BY <1>1, <1>2, CarriagedAs, NormalizeCarriaged DEF WithEndings
<1>3. CASE endings # "Crlf"
  BY <1>1, <1>3, NothingToNormalize DEF WithEndings
<1> QED BY <1>2, <1>3

\* The editor keeps no carriage return.
LEMMA EditorTextIs ==
  ASSUME NEW t \in Text
  PROVE  EditorText(t) \in EditorTexts
<1>1. PICK n : n = Normalize(t)
  OBVIOUS
<1>2. n \in Seq(Char) /\ Len(n) \in Nat /\ DOMAIN n = 1 .. Len(n)
  BY <1>1, NormalizeTyped DEF Text
<1>3. PICK e : e = [i \in 1 .. Len(n) |-> IF n[i] = CR THEN LF ELSE n[i]]
  OBVIOUS
<1>4. ASSUME NEW i \in 1 .. Len(n)
      PROVE  e[i] \in Char /\ e[i] # CR
  <2>1. n[i] \in Char /\ LF \in Char /\ LF # CR
    BY <1>2 DEF Char, LF, CR
  <2> QED BY <1>3, <2>1
<1>5. e \in Seq(Char) /\ DOMAIN e = 1 .. Len(n)
  BY <1>2, <1>3, <1>4
<1>6. EditorText(t) = e
  BY <1>1, <1>2, <1>3 DEF EditorText
<1> QED BY <1>4, <1>5, <1>6 DEF EditorTexts, Text, Plain

\* The characters of three texts put together.
LEMMA ThreeParts ==
  ASSUME NEW S, NEW a, NEW b, NEW c, a \in Seq(S), b \in Seq(S), c \in Seq(S)
  PROVE  /\ a \o b \o c \in Seq(S)
         /\ Len(a \o b \o c) = Len(a) + Len(b) + Len(c)
         /\ \A i \in 1 .. Len(a) : (a \o b \o c)[i] = a[i]
         /\ \A i \in 1 .. Len(b) : (a \o b \o c)[Len(a) + i] = b[i]
         /\ \A i \in 1 .. Len(c) : (a \o b \o c)[Len(a) + Len(b) + i] = c[i]
<1>1. PICK d : d = a \o b
  OBVIOUS
<1>2. /\ d \in Seq(S) /\ Len(d) = Len(a) + Len(b)
      /\ \A i \in 1 .. Len(a) : d[i] = a[i]
      /\ \A i \in 1 .. Len(b) : d[Len(a) + i] = b[i]
  BY <1>1, ConcatIs
<1>3. /\ d \o c \in Seq(S) /\ Len(d \o c) = Len(d) + Len(c)
      /\ \A i \in 1 .. Len(d) : (d \o c)[i] = d[i]
      /\ \A i \in 1 .. Len(c) : (d \o c)[Len(d) + i] = c[i]
  <2>1. d \in Seq(S)
    BY <1>2
  <2> QED BY <2>1, ConcatIs
<1>4. Len(a) \in Nat /\ Len(b) \in Nat /\ Len(c) \in Nat
  OBVIOUS
<1>5. /\ \A i \in 1 .. Len(a) : (d \o c)[i] = a[i]
      /\ \A i \in 1 .. Len(b) : (d \o c)[Len(a) + i] = b[i]
  BY <1>2, <1>3, <1>4
<1> QED BY <1>1, <1>2, <1>3, <1>4, <1>5

\* What becomes of a text when the characters from + 1 .. to are replaced.
Splices(r, t, from, to, insert) ==
  /\ Len(r) = from + Len(insert) + (Len(t) - to)
  /\ \A i \in 1 .. from : r[i] = t[i]
  /\ \A i \in 1 .. Len(insert) : r[from + i] = insert[i]
  /\ \A i \in 1 .. Len(t) - to : r[from + Len(insert) + i] = t[to + i]

\* Replacing a stretch does that,
LEMMA ReplacedIs ==
  ASSUME NEW S, NEW t \in Seq(S), NEW insert \in Seq(S),
         NEW from \in 0 .. Len(t), NEW to \in from .. Len(t)
  PROVE  /\ Replaced(t, from, to, insert) \in Seq(S)
         /\ Splices(Replaced(t, from, to, insert), t, from, to, insert)
<1>1. /\ Len(t) \in Nat /\ Len(insert) \in Nat /\ from \in Nat /\ to \in Nat
      /\ from <= to /\ to <= Len(t) /\ \A i \in 1 .. Len(t) : t[i] \in S
  OBVIOUS
<1>2. PICK a : a = SubSeq(t, 1, from)
  OBVIOUS
<1>3. PICK b : b = SubSeq(t, to + 1, Len(t))
  OBVIOUS
<1>4. a \in Seq(S) /\ Len(a) = from /\ \A i \in 1 .. from : a[i] = t[i]
  <2>1. \A i \in 1 .. from : t[i] \in S
    BY <1>1
  <2>2. /\ SubSeq(t, 1, from) \in Seq(S)
        /\ Len(SubSeq(t, 1, from)) = IF 1 <= from THEN from - 1 + 1 ELSE 0
        /\ \A i \in 1 .. from - 1 + 1 : SubSeq(t, 1, from)[i] = t[1 + i - 1]
    BY <1>1, <2>1, SubSeqProperties
  <2> QED BY <1>1, <1>2, <2>2
<1>5. b \in Seq(S) /\ Len(b) = Len(t) - to /\ \A i \in 1 .. Len(t) - to : b[i] = t[to + i]
  <2>1. \A i \in to + 1 .. Len(t) : t[i] \in S
    BY <1>1
  <2>2. /\ SubSeq(t, to + 1, Len(t)) \in Seq(S)
        /\ Len(SubSeq(t, to + 1, Len(t))) = IF to + 1 <= Len(t) THEN Len(t) - (to + 1) + 1 ELSE 0
        /\ \A i \in 1 .. Len(t) - (to + 1) + 1 : SubSeq(t, to + 1, Len(t))[i] = t[to + 1 + i - 1]
    BY <1>1, <2>1, SubSeqProperties
  <2>3. \A i \in 1 .. Len(t) - to : b[i] = t[to + i]
    <3>1. ASSUME NEW i \in 1 .. Len(t) - to
          PROVE  b[i] = t[to + i]
      <4>1. i \in 1 .. Len(t) - (to + 1) + 1 /\ to + 1 + i - 1 = to + i
        BY <1>1
      <4> QED BY <1>3, <2>2, <4>1
    <3> QED BY <3>1
  <2> QED BY <1>1, <1>3, <2>2, <2>3
<1>6. /\ a \o insert \o b \in Seq(S)
      /\ Len(a \o insert \o b) = Len(a) + Len(insert) + Len(b)
      /\ \A i \in 1 .. Len(a) : (a \o insert \o b)[i] = a[i]
      /\ \A i \in 1 .. Len(insert) : (a \o insert \o b)[Len(a) + i] = insert[i]
      /\ \A i \in 1 .. Len(b) : (a \o insert \o b)[Len(a) + Len(insert) + i] = b[i]
  <2>1. a \in Seq(S) /\ insert \in Seq(S) /\ b \in Seq(S)
    BY <1>4, <1>5
  <2> QED BY <2>1, ThreeParts
<1>7. Replaced(t, from, to, insert) = a \o insert \o b
  BY <1>2, <1>3 DEF Replaced
<1>8. PICK r : r = a \o insert \o b
  OBVIOUS
<1>9. Splices(r, t, from, to, insert)
  <2>1. Len(r) = from + Len(insert) + (Len(t) - to)
    BY <1>4, <1>5, <1>6, <1>8
  <2>2. \A i \in 1 .. from : r[i] = t[i]
    BY <1>4, <1>6, <1>8
  <2>3. \A i \in 1 .. Len(insert) : r[from + i] = insert[i]
    BY <1>4, <1>6, <1>8
  <2>4. \A i \in 1 .. Len(t) - to : r[from + Len(insert) + i] = t[to + i]
    BY <1>4, <1>5, <1>6, <1>8
  <2> QED BY <2>1, <2>2, <2>3, <2>4 DEF Splices
<1> QED BY <1>6, <1>7, <1>8, <1>9

\* and what is before the stretch stays the same.
LEMMA ReplacedText ==
  ASSUME NEW t \in EditorTexts, NEW insert \in EditorTexts,
         NEW from \in 0 .. Len(t), NEW to \in from .. Len(t)
  PROVE  /\ Replaced(t, from, to, insert) \in EditorTexts
         /\ Same(Replaced(t, from, to, insert), t, from)
<1>1. PICK r : r = Replaced(t, from, to, insert)
  OBVIOUS
<1>2. PICK m, n, k : m = Len(t) /\ n = Len(insert) /\ k = Len(t) - to
  OBVIOUS
<1>3. /\ t \in Seq(Char) /\ insert \in Seq(Char)
      /\ m \in Nat /\ n \in Nat /\ k \in Nat /\ from \in Nat /\ to \in Nat
      /\ from <= m /\ from <= to /\ to <= m /\ k = m - to
  BY <1>2 DEF EditorTexts, Text
<1>4. /\ r \in Seq(Char) /\ Len(r) = from + n + k
      /\ \A i \in 1 .. from : r[i] = t[i]
      /\ \A i \in 1 .. n : r[from + i] = insert[i]
      /\ \A i \in 1 .. k : r[from + n + i] = t[to + i]
  <2>1. /\ Replaced(t, from, to, insert) \in Seq(Char)
        /\ Splices(Replaced(t, from, to, insert), t, from, to, insert)
    BY <1>3, ReplacedIs
  <2> QED BY <1>1, <1>2, <2>1 DEF Splices
<1>5. (\A i \in 1 .. m : t[i] # CR) /\ (\A i \in 1 .. n : insert[i] # CR)
  BY <1>2, <1>3 DEF EditorTexts, Plain
<1>6. ASSUME NEW i \in 1 .. from + n + k
      PROVE  r[i] # CR
  <2>1. CASE i <= from
    BY <1>3, <1>4, <1>5, <2>1
  <2>2. CASE i > from /\ i <= from + n
    <3>1. PICK j \in 1 .. n : from + j = i
      <4>1. i - from \in 1 .. n /\ from + (i - from) = i
        BY <1>3, <2>2
      <4> QED BY <4>1
    <3> QED BY <1>4, <1>5, <3>1
  <2>3. CASE i > from + n
    <3>1. PICK j \in 1 .. k : from + n + j = i
      <4>1. i - (from + n) \in 1 .. k /\ from + n + (i - (from + n)) = i
        BY <1>3, <2>3
      <4> QED BY <4>1
    <3>2. to + j \in 1 .. m
      BY <1>3
    <3> QED BY <1>4, <1>5, <3>1, <3>2
  <2> QED BY <1>3, <2>1, <2>2, <2>3
<1>7. r \in EditorTexts
  <2>1. DOMAIN r = 1 .. from + n + k
    BY <1>4
  <2> QED BY <1>4, <1>6, <2>1 DEF EditorTexts, Text, Plain
<1>8. Same(r, t, from)
  BY <1>2, <1>3, <1>4 DEF Same
<1> QED BY <1>1, <1>7, <1>8

\* An opened document has the text of the editor, and an index of it.
LEMMA NewDocumentIs ==
  ASSUME NEW t \in EditorTexts, NEW endings, NEW version
  PROVE  /\ NewDocument(WithEndings(t, endings), version).contents = t
         /\ NewDocument(WithEndings(t, endings), version).index = t
         /\ NewDocument(WithEndings(t, endings), version).version = version
<1>1. PICK w : w = WithEndings(t, endings)
  OBVIOUS
<1>2. w \in Text /\ Normalize(w) = t
  BY <1>1, WrittenIs
<1>3. (IF Infer(w) = "Lf" THEN w ELSE Normalize(w)) = t
  <2>1. CASE Infer(w) = "Lf"
    <3>1. \A i \in DOMAIN w : ~CarriageAt(w, i)
      BY <2>1 DEF Infer
    <3> QED BY <1>2, <2>1, <3>1, NothingToNormalize
  <2>2. CASE Infer(w) # "Lf"
    BY <1>2, <2>2
  <2> QED BY <2>1, <2>2
<1>4. NewDocument(w, version) = [contents |-> t, index |-> t, endings |-> Infer(w), version |-> version]
  BY <1>3, Zenon DEF NewDocument
<1> QED BY <1>1, <1>4

-----------------------------------------------------------------------------
(* The changes of a batch *)

\* A change as the editor means it: it leads from one text to another.
Leads(before, change, after, enc) ==
  /\ change.text \in Text /\ Normalize(change.text) \in EditorTexts
  /\ \/ change.range = WholeText /\ after = Normalize(change.text)
     \/ \E from \in 0 .. Len(before) : \E to \in from .. Len(before) :
          /\ change.range = <<PositionAt(before, from, enc), PositionAt(before, to, enc)>>
          /\ after = Replaced(before, from, to, Normalize(change.text))

\* A line index that serves for the lines before the last one that was changed.
Serves(index, t, last) ==
  \/ index = t
  \/ \E n \in Nat : Same(index, t, n) /\ last <= LineAt(t, n)

\* What the server may have when its text is t.
Synced(t) ==
  {s \in [contents : {t}, index : EditorTexts, last : Nat, panicked : {FALSE}] :
     Serves(s.index, t, s.last)}

\* A position is found with the index of another text, if the texts are the same
\* as far as the position.
LEMMA FoundWithIndex ==
  ASSUME NEW index \in Text, NEW t \in Text, NEW n \in Nat, Same(index, t, n),
         NEW k \in 0 .. n, NEW enc \in Encodings
  PROVE  CharsBefore(t, OffsetIn(index, PositionAt(t, k, enc), enc)) = k
<1>1. Len(t) \in Nat /\ Len(index) \in Nat /\ k \in 0 .. Len(t) /\ k \in 0 .. Len(index)
  BY DEF Same, Text
<1>2. PositionAt(t, k, enc) = PositionAt(index, k, enc)
  BY PositionsSame
<1>3. OffsetIn(index, PositionAt(index, k, enc), enc) = Bytes(index, k)
  BY <1>1, OffsetInIs
<1>4. Bytes(index, k) = Bytes(t, k)
  BY PlacesSame
<1>5. CharsBefore(t, Bytes(t, k)) = k
  BY <1>1, CharsBeforeIs
<1> QED BY <1>2, <1>3, <1>4, <1>5

\* A text is the same as itself.
LEMMA SameTexts ==
  ASSUME NEW t \in Text
  PROVE  Len(t) \in Nat /\ Same(t, t, Len(t))
  BY DEF Same, Text

\* The index that a change is converted with is right up to where the change ends.
LEMMA IndexReaches ==
  ASSUME NEW t \in EditorTexts, NEW s \in Synced(t), NEW to \in 0 .. Len(t), NEW change, NEW enc,
         change.range[2] = PositionAt(t, to, enc)
  PROVE  /\ LineIndex(s, change) \in EditorTexts
         /\ \E n \in Nat : Same(LineIndex(s, change), t, n) /\ to <= n
<1>1. t \in Text /\ Len(t) \in Nat /\ to \in Nat /\ to <= Len(t)
  BY DEF EditorTexts, Text
<1>2. /\ s.contents = t /\ s.index \in EditorTexts /\ s.last \in Nat /\ Serves(s.index, t, s.last)
  BY DEF Synced
<1>3. change.range[2].line = LineAt(t, to) /\ LineAt(t, to) \in Nat
  BY <1>1, PositionIs, LineAtIs
<1>4. \E n \in Nat : Same(t, t, n) /\ to <= n
  BY <1>1, SameTexts
<1>5. CASE LineAt(t, to) >= s.last
  <2>1. LineIndex(s, change) = t
    BY <1>5, <1>2, <1>3 DEF LineIndex
  <2> QED BY <2>1, <1>4
<1>6. CASE ~ LineAt(t, to) >= s.last
  <2>1. LineIndex(s, change) = s.index
    BY <1>6, <1>3 DEF LineIndex
  <2>2. CASE s.index = t
    BY <2>1, <2>2, <1>4
  <2>3. CASE \E n \in Nat : Same(s.index, t, n) /\ s.last <= LineAt(t, n)
    <3>1. PICK n \in Nat : Same(s.index, t, n) /\ s.last <= LineAt(t, n)
      BY <2>3
    <3>2. LineAt(t, n) \in Nat
      BY LineAtIs
    <3>3. to <= n
      <4>1. CASE n <= to
        <5>1. LineAt(t, n) <= LineAt(t, to)
          BY <1>1, <4>1, LinesAscend
        <5> QED BY <1>6, <1>2, <1>3, <3>1, <3>2, <5>1
      <4> QED BY <4>1, <1>1
    <3> QED BY <1>2, <2>1, <3>1, <3>3
  <2> QED BY <1>2, <2>2, <2>3 DEF Serves
<1> QED BY <1>5, <1>6

\* The server makes a change to its text as the editor made it to its own.
LEMMA ApplyRangeIs ==
  ASSUME NEW t \in EditorTexts, NEW s \in Synced(t), NEW enc \in Encodings,
         NEW change, Normalize(change.text) \in EditorTexts,
         NEW from \in 0 .. Len(t), NEW to \in from .. Len(t),
         change.range = <<PositionAt(t, from, enc), PositionAt(t, to, enc)>>
  PROVE  ApplyRange(s, change, enc) \in
           Synced(Replaced(t, from, to, Normalize(change.text)))
<1>1. /\ t \in Text /\ Len(t) \in Nat /\ from \in Nat /\ to \in Nat /\ from <= to /\ to <= Len(t)
      /\ to \in 0 .. Len(t)
  BY DEF EditorTexts, Text
<1>2. /\ s \in [contents : {t}, index : EditorTexts, last : Nat, panicked : {FALSE}]
      /\ s.contents = t /\ s.panicked = FALSE
  BY DEF Synced
<1>3. change.range[1] = PositionAt(t, from, enc) /\ change.range[2] = PositionAt(t, to, enc)
  OBVIOUS
<1>4. PICK index : index = LineIndex(s, change)
  OBVIOUS
<1>5. /\ LineIndex(s, change) \in EditorTexts
      /\ \E n \in Nat : Same(LineIndex(s, change), t, n) /\ to <= n
  BY <1>1, <1>3, IndexReaches
<1>6. PICK n \in Nat : Same(index, t, n) /\ to <= n
  BY <1>4, <1>5
<1>7. index \in EditorTexts /\ index \in Text
  BY <1>4, <1>5 DEF EditorTexts
<1>8. from \in 0 .. n /\ to \in 0 .. n
  BY <1>1, <1>6
<1>9. /\ CharsBefore(t, OffsetIn(index, change.range[1], enc)) = from
      /\ CharsBefore(t, OffsetIn(index, change.range[2], enc)) = to
  BY <1>1, <1>3, <1>6, <1>7, <1>8, FoundWithIndex
<1>10. PICK new : new = Replaced(t, from, to, Normalize(change.text))
  OBVIOUS
<1>11. new \in EditorTexts /\ Same(new, t, from)
  BY <1>10, ReplacedText
<1>12. ApplyRange(s, change, enc) = [s EXCEPT !.index = index, !.last = change.range[1].line,
                                             !.contents = new]
  <2>1. ~(from = NoOffset \/ to = NoOffset \/ to < from \/ s.panicked)
    BY <1>1, <1>2 DEF NoOffset
  <2> QED BY <1>4, <1>2, <1>9, <1>10, <2>1 DEF ApplyRange
<1>13. change.range[1].line = LineAt(t, from) /\ LineAt(t, from) \in Nat
  BY <1>1, <1>3, PositionIs, LineAtIs
<1>14. Serves(index, new, LineAt(t, from))
  <2>1. Same(index, new, from)
    BY <1>1, <1>6, <1>11 DEF Same
  <2>2. LineAt(new, from) = LineAt(t, from)
    <3>1. new \in Text /\ from \in 0 .. from
      BY <1>1, <1>11 DEF EditorTexts
    <3> QED BY <1>1, <1>11, <3>1, PlacesSame
  <2> QED BY <1>1, <1>13, <2>1, <2>2 DEF Serves
<1>15. ApplyRange(s, change, enc) \in Synced(new)
  <2>1. PICK r : r = ApplyRange(s, change, enc)
    OBVIOUS
  <2>2. /\ r = [s EXCEPT !.index = index, !.last = change.range[1].line, !.contents = new]
        /\ r.index = index /\ r.last = LineAt(t, from)
        /\ r \in [contents : {new}, index : EditorTexts, last : Nat, panicked : {FALSE}]
    BY <1>2, <1>7, <1>12, <1>13, <2>1
  <2> QED BY <1>14, <2>1, <2>2 DEF Synced
<1> QED BY <1>10, <1>15

\* The state a batch of changes is folded over.
States == [contents : Text, index : Text, last : Nat, panicked : BOOLEAN]

\* A conversion of an offset fails, or is a place in the text.
LEMMA CharsBeforeTyped ==
  ASSUME NEW t \in Text, NEW offset
  PROVE  CharsBefore(t, offset) = NoOffset \/ CharsBefore(t, offset) \in 0 .. Len(t)
<1> DEFINE Found(n) == Bytes(t, n) = offset
<1>1. CharsBefore(t, offset) = IF \E n \in 0 .. Len(t) : Found(n)
                               THEN CHOOSE n \in 0 .. Len(t) : Found(n) ELSE NoOffset
  BY DEF CharsBefore
<1> HIDE DEF Found
<1> QED BY <1>1

\* Whatever the change, a state becomes a state.
LEMMA ApplyRangeTyped ==
  ASSUME NEW s \in States, NEW change, NEW enc,
         change.text \in Text, change.range[1].line \in Nat
  PROVE  ApplyRange(s, change, enc) \in States
<1>1. PICK index : index = LineIndex(s, change)
  OBVIOUS
<1>2. index \in Text
  BY <1>1 DEF LineIndex, States
<1>3. PICK from : from = CharsBefore(s.contents, OffsetIn(index, change.range[1], enc))
  OBVIOUS
<1>4. PICK to : to = CharsBefore(s.contents, OffsetIn(index, change.range[2], enc))
  OBVIOUS
<1>5. CASE from = NoOffset \/ to = NoOffset \/ to < from \/ s.panicked
  <2>1. ApplyRange(s, change, enc) = [s EXCEPT !.panicked = TRUE]
    BY <1>1, <1>3, <1>4, <1>5 DEF ApplyRange
  <2> QED BY <2>1 DEF States
<1>6. CASE ~(from = NoOffset \/ to = NoOffset \/ to < from \/ s.panicked)
  <2>1. s.contents \in Text
    BY DEF States
  <2>2. from \in 0 .. Len(s.contents) /\ to \in from .. Len(s.contents) /\ Len(s.contents) \in Nat
    <3>1. from \in 0 .. Len(s.contents) /\ to \in 0 .. Len(s.contents)
      BY <1>3, <1>4, <1>6, <2>1, CharsBeforeTyped
    <3>2. Len(s.contents) \in Nat
      BY <2>1 DEF Text
    <3> QED BY <1>6, <3>1, <3>2
  <2>3. PICK insert : insert = Normalize(change.text)
    OBVIOUS
  <2>4. insert \in Text
    BY <2>3, NormalizeTyped
  <2>5. Replaced(s.contents, from, to, insert) \in Text
    BY <2>1, <2>2, <2>4, ReplacedIs DEF Text
  <2>6. ApplyRange(s, change, enc) =
          [s EXCEPT !.index = index, !.last = change.range[1].line,
                    !.contents = Replaced(s.contents, from, to, insert)]
    BY <1>1, <1>3, <1>4, <1>6, <2>3 DEF ApplyRange
  <2> QED BY <1>2, <2>5, <2>6 DEF States
<1> QED BY <1>5, <1>6

\* What the server may have is a state.
LEMMA SyncedTyped ==
  ASSUME NEW t \in EditorTexts
  PROVE  Synced(t) \subseteq States
  BY DEF Synced, States, EditorTexts

\* The range of a change that leads from a text is one of positions.
LEMMA LeadsLines ==
  ASSUME NEW t \in EditorTexts, NEW change, NEW after, NEW enc, Leads(t, change, after, enc),
         change.range # WholeText
  PROVE  change.range[1].line \in Nat
<1>1. PICK from \in 0 .. Len(t) : \E to \in from .. Len(t) :
        change.range = <<PositionAt(t, from, enc), PositionAt(t, to, enc)>>
  BY DEF Leads
<1>2. change.range[1] = PositionAt(t, from, enc)
  BY <1>1
<1>3. t \in Text
  BY DEF EditorTexts
<1>4. change.range[1].line = LineAt(t, from) /\ from \in Nat
  BY <1>2, <1>3, PositionIs
<1> QED BY <1>4, LineAtIs

\* A change of the editor is made by the server as it was made by the editor.
LEMMA LeadsOn ==
  ASSUME NEW t \in EditorTexts, NEW change, NEW after \in EditorTexts, NEW enc \in Encodings,
         Leads(t, change, after, enc), change.range # WholeText, NEW s \in Synced(t)
  PROVE  ApplyRange(s, change, enc) \in Synced(after)
<1>1. PICK from \in 0 .. Len(t) : \E to \in from .. Len(t) :
        /\ change.range = <<PositionAt(t, from, enc), PositionAt(t, to, enc)>>
        /\ after = Replaced(t, from, to, Normalize(change.text))
  BY DEF Leads
<1>2. PICK to \in from .. Len(t) :
        /\ change.range = <<PositionAt(t, from, enc), PositionAt(t, to, enc)>>
        /\ after = Replaced(t, from, to, Normalize(change.text))
  BY <1>1
<1>3. Normalize(change.text) \in EditorTexts
  BY DEF Leads
<1>4. ApplyRange(s, change, enc) \in Synced(Replaced(t, from, to, Normalize(change.text)))
  BY <1>2, <1>3, ApplyRangeIs
<1> QED BY <1>2, <1>4

\* The greatest number of an interval that starts at 1.
LEMMA MaxOf ==
  ASSUME NEW b \in Nat, NEW T \in SUBSET (1 .. b), T # {}
  PROVE  Max(T) \in T /\ \A n \in T : n <= Max(T)
<1>1. PICK m \in T : \A n \in T : n <= m
  BY GreatestIndex
<1>2. \A n \in T : m >= n
  <2>1. \A n \in T : n \in Nat
    OBVIOUS
  <2> QED BY <1>1, <2>1
<1>3. Max(T) \in T /\ \A n \in T : Max(T) >= n
  BY <1>2 DEF Max
<1>4. \A n \in T : n \in Nat
  OBVIOUS
<1> QED BY <1>3, <1>4

\* The changes of a batch, made one after the other,
MakeChanges(state, batch, enc) ==
  FoldLeft(LAMBDA old, change : ApplyRange(old, change, enc), state, batch)

\* lead to what the editor has after the last of them.
LEMMA MakeChangesIs ==
  ASSUME NEW batch, NEW m \in Nat, DOMAIN batch = 1 .. m, NEW enc \in Encodings,
         NEW texts, \A i \in 0 .. m : texts[i] \in EditorTexts,
         \A i \in 1 .. m : /\ Leads(texts[i - 1], batch[i], texts[i], enc)
                           /\ batch[i].range # WholeText,
         NEW state \in Synced(texts[0])
  PROVE  MakeChanges(state, batch, enc) \in Synced(texts[m])
<1> DEFINE I == 1 .. m
           c == [s \in SUBSET I |-> Max(s)]
           g == [x \in I \X States |-> ApplyRange(x[2], batch[x[1]], enc)]
           R == [s \in SUBSET I |->
                   {v \in States : \A j \in 0 .. m : s = 1 .. j => v \in Synced(texts[j])}]
           Fold(iter) == iter = [s \in SUBSET I |->
                                   IF s = {} THEN state
                                   ELSE ApplyRange(iter[s \ {Max(s)}], batch[Max(s)], enc)]
<1>1. IsFiniteSet(I)
  BY FS_Interval
<1>2. \A s \in SUBSET I : s # {} => c[s] \in s /\ c[s] = Max(s)
  <2>1. ASSUME NEW s \in SUBSET I, s # {}
        PROVE  Max(s) \in s
    BY <2>1, MaxOf
  <2> QED BY <2>1
<1>3. \A s \in SUBSET I : \A v : v \in R[s] <=>
         v \in States /\ \A j \in 0 .. m : s = 1 .. j => v \in Synced(texts[j])
  OBVIOUS
<1>4. ASSUME NEW i \in I, NEW v \in States
      PROVE  /\ g[<<i, v>>] = ApplyRange(v, batch[i], enc)
             /\ ApplyRange(v, batch[i], enc) \in States
  <2>1. <<i, v>> \in I \X States /\ <<i, v>>[1] = i /\ <<i, v>>[2] = v
    OBVIOUS
  <2>2. g[<<i, v>>] = ApplyRange(v, batch[i], enc)
    BY <2>1, Zenon
  <2>3. texts[i - 1] \in EditorTexts
    <3>1. i - 1 \in 0 .. m
      OBVIOUS
    <3> QED BY <3>1
  <2>4. batch[i].range[1].line \in Nat
    BY <2>3, LeadsLines
  <2>5. batch[i].text \in Text
    BY DEF Leads
  <2> QED BY <2>2, <2>4, <2>5, ApplyRangeTyped
<1>5. state \in R[{}]
  <2>1. texts[0] \in EditorTexts
    OBVIOUS
  <2>2. state \in States
    BY <2>1, SyncedTyped
  <2>3. ASSUME NEW j \in 0 .. m, {} = 1 .. j
        PROVE  state \in Synced(texts[j])
    <3>1. j = 0
      <4>1. CASE j >= 1
        <5>1. 1 \in 1 .. j
          BY <4>1
        <5> QED BY <2>3, <5>1
      <4> QED BY <4>1
    <3> QED BY <3>1
  <2>4. {} \in SUBSET I
    OBVIOUS
  <2> HIDE DEF R
  <2> QED BY <1>3, <2>2, <2>3, <2>4
<1>6. ASSUME NEW s \in SUBSET I, s # {}, NEW v \in R[s \ {Max(s)}]
      PROVE  ApplyRange(v, batch[Max(s)], enc) \in R[s]
  <2>1. Max(s) \in s /\ Max(s) \in I /\ \A n \in s : n <= Max(s)
    BY <1>6, MaxOf
  <2>2. s \ {Max(s)} \in SUBSET I
    OBVIOUS
  <2>3. /\ v \in States
        /\ \A j \in 0 .. m : s \ {Max(s)} = 1 .. j => v \in Synced(texts[j])
    <3> HIDE DEF R
    <3> QED BY <1>3, <2>2
  <2>4. ApplyRange(v, batch[Max(s)], enc) \in States
    BY <1>4, <2>1, <2>3
  <2>5. ASSUME NEW j \in 0 .. m, s = 1 .. j
        PROVE  ApplyRange(v, batch[Max(s)], enc) \in Synced(texts[j])
    <3>1. j \in 1 .. m /\ j - 1 \in 0 .. m
      BY <1>6, <2>5
    <3>2. Max(s) = j
      <4>1. j \in s
        BY <2>5, <3>1
      <4> QED BY <2>1, <2>5, <4>1
    <3>3. s \ {j} = 1 .. (j - 1)
      BY <2>5, <3>1
    <3>4. v \in Synced(texts[j - 1])
      BY <2>3, <3>1, <3>2, <3>3
    <3>5. texts[j - 1] \in EditorTexts /\ texts[j] \in EditorTexts
      BY <3>1
    <3>6. Leads(texts[j - 1], batch[j], texts[j], enc) /\ batch[j].range # WholeText
      BY <3>1
    <3> QED BY <3>2, <3>4, <3>5, <3>6, LeadsOn
  <2> HIDE DEF R
  <2> QED BY <1>3, <2>4, <2>5
<1>7. \E iter : Fold(iter)
  <2> HIDE DEF I, c, g, R
  <2>1. PICK iter : /\ Iterates(iter, I, state, c, g)
                    /\ \A s \in SUBSET I : iter[s] \in R[s]
    <3>1. \A s \in SUBSET I : s # {} => \A v \in R[s \ {c[s]}] : g[<<c[s], v>>] \in R[s]
      <4>1. ASSUME NEW s \in SUBSET I, s # {}, NEW v \in R[s \ {c[s]}]
            PROVE  g[<<c[s], v>>] \in R[s]
        <5>1. c[s] \in s /\ c[s] \in I /\ c[s] = Max(s) /\ s \ {c[s]} \in SUBSET I
          BY <4>1, <1>2
        <5>2. v \in States
          BY <1>3, <5>1
        <5>3. g[<<c[s], v>>] = ApplyRange(v, batch[c[s]], enc)
          BY <5>1, <5>2, <1>4
        <5> QED BY <4>1, <5>1, <5>3, <1>6
      <4> QED BY <4>1
    <3>2. \A s \in SUBSET I : s # {} => c[s] \in s
      BY <1>2
    <3> QED BY <1>1, <1>5, <3>1, <3>2, IterationTyped
  <2>2. ASSUME NEW s \in SUBSET I, s # {}
        PROVE  g[<<c[s], iter[s \ {c[s]}]>>] = ApplyRange(iter[s \ {Max(s)}], batch[Max(s)], enc)
    <3>1. c[s] \in I /\ c[s] = Max(s) /\ s \ {c[s]} \in SUBSET I
      BY <2>2, <1>2
    <3>2. iter[s \ {c[s]}] \in States
      BY <1>3, <2>1, <3>1
    <3> QED BY <1>4, <3>1, <3>2
  <2>3. Fold(iter)
    BY <2>1, <2>2, Zenon DEF Iterates
  <2> QED BY <2>3
<1>8. PICK it : it = CHOOSE iter : Fold(iter)
  OBVIOUS
<1>9. MakeChanges(state, batch, enc) = it[I]
  BY <1>8 DEF MakeChanges, FoldLeft, MapThenFoldSet
<1>10. Fold(it)
  <2> HIDE DEF Fold
  <2> QED BY <1>7, <1>8
<1> DEFINE P == {s \in SUBSET I : it[s] \in R[s]}
<1>11. SUBSET I \subseteq P
  <2>1. {} \in P
    BY <1>5, <1>10
  <2>2. ASSUME NEW s \in SUBSET I, s # {}
        PROVE  \E x \in s : s \ {x} \in P => s \in P
    <3>1. Max(s) \in s
      BY <2>2, <1>2
    <3>2. it[s] = ApplyRange(it[s \ {Max(s)}], batch[Max(s)], enc)
      BY <1>10, <2>2
    <3>3. s \ {Max(s)} \in P => s \in P
      <4> HIDE DEF R
      <4> QED BY <1>6, <2>2, <3>2
    <3> QED BY <3>1, <3>3
  <2> HIDE DEF P
  <2> QED BY <1>1, <2>1, <2>2, SubsetInduction
<1>12. it[I] \in R[I]
  <2>1. I \in P
    BY <1>11
  <2> QED BY <2>1
<1>13. m \in 0 .. m /\ I = 1 .. m /\ I \in SUBSET I
  OBVIOUS
<1>14. it[I] \in Synced(texts[m])
  <2> HIDE DEF R, I
  <2> QED BY <1>3, <1>12, <1>13
<1> QED BY <1>9, <1>14

\* A range is not that of a change of the whole text.
LEMMA PositionsAreRanges ==
  ASSUME NEW p, NEW q
  PROVE  <<p, q>> # WholeText
<1>1. DOMAIN <<p, q>> = 1 .. 2 /\ DOMAIN <<>> = 1 .. 0
  OBVIOUS
<1>2. 1 \in 1 .. 2 /\ 1 \notin 1 .. 0
  OBVIOUS
<1> QED BY <1>1, <1>2, Zenon DEF WholeText

\* A batch takes the server from the text the editor had to the one it has, with the
\* changes up to the last one of the whole text left out.
LEMMA BatchIs ==
  ASSUME NEW S, NEW batch \in Seq(S), NEW enc \in Encodings, NEW texts,
         \A i \in 0 .. Len(batch) : texts[i] \in EditorTexts,
         \A i \in 1 .. Len(batch) : Leads(texts[i - 1], batch[i], texts[i], enc)
  PROVE  ApplyTextChanges(texts[0], texts[0], batch, enc) \in Synced(texts[Len(batch)])
<1>1. Len(batch) \in Nat /\ DOMAIN batch = 1 .. Len(batch)
  OBVIOUS
<1>2. PICK n \in Nat : n = Len(batch)
  BY <1>1
<1>3. PICK whole : whole = {i \in DOMAIN batch : batch[i].range = WholeText}
  OBVIOUS
<1> DEFINE Base(w) == IF w = {} THEN 0 ELSE CHOOSE i \in w : \A j \in w : j <= i
<1>4. PICK base : base = Base(whole)
  <2> HIDE DEF Base
  <2> QED OBVIOUS
<1>5. base = IF whole = {} THEN 0 ELSE CHOOSE i \in whole : \A j \in whole : j <= i
  BY <1>4, Zenon
<1>6. /\ base \in 0 .. n
      /\ \A i \in base + 1 .. n : batch[i].range # WholeText
      /\ base # 0 => batch[base].range = WholeText
  <2>1. whole \in SUBSET (1 .. n)
    BY <1>1, <1>2, <1>3
  <2>2. CASE whole = {}
    BY <1>1, <1>2, <1>3, <1>5, <2>2
  <2>3. CASE whole # {}
    <3>1. \E i \in whole : \A j \in whole : j <= i
      BY <2>1, <2>3, GreatestIndex
    <3>2. base \in whole /\ \A j \in whole : j <= base
      BY <1>5, <2>3, <3>1
    <3>3. base \in 1 .. n /\ base \in Nat
      BY <2>1, <3>2
    <3>4. \A i \in base + 1 .. n : batch[i].range # WholeText
      <4> SUFFICES ASSUME NEW i \in base + 1 .. n, batch[i].range = WholeText
                   PROVE  FALSE
        OBVIOUS
      <4>1. i \in whole
        BY <1>1, <1>2, <1>3, <3>3
      <4> QED BY <3>2, <3>3, <4>1
    <3> QED BY <1>3, <3>2, <3>3, <3>4
  <2> QED BY <2>2, <2>3
<1>7. PICK state : state = [contents |-> texts[0], index |-> texts[0], last |-> NoLine,
                            panicked |-> FALSE]
  OBVIOUS
<1>8. PICK start : start = IF base = 0 THEN state
                           ELSE [state EXCEPT !.contents = Normalize(batch[base].text),
                                              !.last = 0]
  OBVIOUS
<1>9. ApplyTextChanges(texts[0], texts[0], batch, enc) =
        MakeChanges(start, SubSeq(batch, base + 1, Len(batch)), enc)
  <2> DEFINE first(b, w) == IF b = 0 THEN w ELSE [w EXCEPT !.contents = Normalize(batch[b].text), !.last = 0]
             all == {i \in DOMAIN batch : batch[i].range = WholeText}
             before == [contents |-> texts[0], index |-> texts[0], last |-> NoLine, panicked |-> FALSE]
  <2>1. ApplyTextChanges(texts[0], texts[0], batch, enc) =
          MakeChanges(first(Base(all), before), SubSeq(batch, Base(all) + 1, Len(batch)), enc)
    BY Zenon DEF ApplyTextChanges, MakeChanges
  <2>2. whole = all /\ state = before /\ start = first(base, state)
    BY <1>3, <1>7, <1>8
  <2>3. base = Base(all)
    BY <1>4, <2>2
  <2> HIDE DEF Base, all, before, first
  <2> QED BY <2>1, <2>2, <2>3
<1>10. texts[0] \in EditorTexts /\ texts[base] \in EditorTexts
  BY <1>2, <1>6
<1>11. start \in Synced(texts[base])
  <2>1. CASE base = 0
    <3>1. Serves(start.index, texts[0], start.last)
      BY <1>7, <1>8, <2>1 DEF Serves
    <3>2. start \in [contents : {texts[0]}, index : EditorTexts, last : Nat, panicked : {FALSE}]
      BY <1>7, <1>8, <1>10, <2>1 DEF NoLine
    <3> QED BY <2>1, <3>1, <3>2 DEF Synced
  <2>2. CASE base # 0
    <3>1. base \in 1 .. Len(batch) /\ batch[base].range = WholeText
      BY <1>2, <1>6, <2>2
    <3>2. Leads(texts[base - 1], batch[base], texts[base], enc)
      BY <3>1
    <3>3. texts[base] = Normalize(batch[base].text)
      BY <3>1, <3>2, PositionsAreRanges DEF Leads
    <3>4. start = [contents |-> texts[base], index |-> texts[0], last |-> 0, panicked |-> FALSE]
      BY <1>7, <1>8, <2>2, <3>3
    <3>5. texts[0] \in Text /\ texts[base] \in Text
      BY <1>10 DEF EditorTexts
    <3>6. Same(texts[0], texts[base], 0) /\ 0 <= LineAt(texts[base], 0)
      <4>1. LineAt(texts[base], 0) \in Nat
        BY LineAtIs
      <4> QED BY <3>5, <4>1 DEF Same, Text
    <3>7. Serves(start.index, texts[base], start.last)
      BY <3>4, <3>6 DEF Serves
    <3>8. start \in [contents : {texts[base]}, index : EditorTexts, last : Nat, panicked : {FALSE}]
      BY <1>10, <3>4
    <3> QED BY <3>7, <3>8 DEF Synced
  <2> QED BY <2>1, <2>2
<1>12. PICK m \in Nat : m = n - base
  BY <1>6
<1>13. PICK rest : rest = SubSeq(batch, base + 1, Len(batch))
  OBVIOUS
<1>14. DOMAIN rest = 1 .. m /\ \A i \in 1 .. m : rest[i] = batch[base + i]
  <2>1. \A i \in base + 1 .. Len(batch) : batch[i] \in S
    BY <1>2, <1>6
  <2>2. base + 1 \in Int /\ Len(batch) \in Int
    BY <1>1, <1>6
  <2>3. /\ SubSeq(batch, base + 1, Len(batch)) \in Seq(S)
        /\ Len(SubSeq(batch, base + 1, Len(batch))) =
             IF base + 1 <= Len(batch) THEN Len(batch) - (base + 1) + 1 ELSE 0
        /\ \A i \in 1 .. Len(batch) - (base + 1) + 1 :
             SubSeq(batch, base + 1, Len(batch))[i] = batch[base + 1 + i - 1]
    BY <2>1, <2>2, SubSeqProperties
  <2>4. rest \in Seq(S) /\ Len(rest) = m
    BY <1>2, <1>6, <1>12, <1>13, <2>3
  <2>5. ASSUME NEW i \in 1 .. m
        PROVE  rest[i] = batch[base + i]
    <3>1. i \in 1 .. Len(batch) - (base + 1) + 1 /\ base + 1 + i - 1 = base + i
      BY <1>2, <1>6, <1>12
    <3> QED BY <1>13, <2>3, <3>1
  <2> QED BY <2>4, <2>5
<1>15. PICK later : later = [i \in 0 .. m |-> texts[base + i]]
  OBVIOUS
<1>16. \A i \in 0 .. m : later[i] = texts[base + i] /\ later[i] \in EditorTexts
  <2>1. \A i \in 0 .. m : base + i \in 0 .. Len(batch)
    BY <1>2, <1>6, <1>12
  <2> QED BY <1>15, <2>1
<1>17. ASSUME NEW i \in 1 .. m
       PROVE  Leads(later[i - 1], rest[i], later[i], enc) /\ rest[i].range # WholeText
  <2>1. PICK j \in Nat : j = base + i
    BY <1>6
  <2>2. /\ j \in 1 .. Len(batch) /\ j \in base + 1 .. n /\ j - 1 = base + (i - 1)
        /\ i - 1 \in 0 .. m /\ i \in 0 .. m
    BY <1>2, <1>6, <1>12, <2>1
  <2>3. Leads(texts[j - 1], batch[j], texts[j], enc) /\ batch[j].range # WholeText
    BY <1>6, <2>2
  <2>4. rest[i] = batch[j] /\ later[i] = texts[j] /\ later[i - 1] = texts[j - 1]
    BY <1>14, <1>16, <2>1, <2>2
  <2> QED BY <2>3, <2>4
<1>18. base + 0 = base /\ base + m = n
  BY <1>6, <1>12
<1>19. later[0] = texts[base] /\ later[m] = texts[n]
  <2>1. 0 \in 0 .. m /\ m \in 0 .. m
    BY <1>12
  <2>2. later[0] = texts[base + 0] /\ later[m] = texts[base + m]
    BY <1>16, <2>1
  <2> QED BY <1>18, <2>2
<1>20. start \in Synced(later[0])
  BY <1>11, <1>19
<1>21. \A i \in 0 .. m : later[i] \in EditorTexts
  BY <1>16
<1>22. MakeChanges(start, rest, enc) \in Synced(later[m])
  BY <1>14, <1>17, <1>20, <1>21, MakeChangesIs
<1> QED BY <1>2, <1>9, <1>13, <1>19, <1>22

\* The editor finds a position of its text where the position was made.
LEMMA OffsetOfIs ==
  ASSUME NEW t \in Text, NEW k \in 0 .. Len(t), encoding \in Encodings
  PROVE  OffsetOf(t, PositionAt(t, k, encoding)) = k
<1>1. Len(t) \in Nat /\ k \in Nat
  BY DEF Text
<1>2. PICK enc \in Encodings : enc = encoding
  OBVIOUS
<1>3. PICK pos : pos = PositionAt(t, k, enc)
  OBVIOUS
<1>4. PICK upTo : upTo = {n \in 0 .. Len(t) : LET p == PositionAt(t, n, enc)
                                              IN  p.line = pos.line /\ p.col <= pos.col}
  OBVIOUS
<1>5. PICK a : a = LineStart(t, LineAt(t, k))
  OBVIOUS
<1>6. a \in 0 .. k /\ a \in Nat
  BY <1>1, <1>5, LineStartIs
<1>7. pos.line = LineAt(t, k) /\ pos.col = Units(t, a, k, enc)
  BY <1>3, <1>5, PositionIs
<1>8. PICK c \in Nat : c = Count(t, WideChar, a, k)
  BY <1>1, <1>6, CountTyped
<1>9. Units(t, a, k, enc) = k - a + IF enc = "Utf8" THEN c ELSE 0
  BY <1>1, <1>6, <1>8, UnitsIs
<1>10. k \in upTo
  <2>1. pos.col <= pos.col
    BY <1>1, <1>6, <1>7, <1>8, <1>9
  <2> QED BY <1>3, <1>4, <2>1
<1>11. ASSUME NEW n \in upTo, n > k
      PROVE  FALSE
  <2>1. n \in 0 .. Len(t) /\ n \in Nat
    BY <1>1, <1>4
  <2>2. PositionAt(t, n, enc).line = pos.line /\ PositionAt(t, n, enc).col <= pos.col
    BY <1>4
  <2>3. LineAt(t, n) = LineAt(t, k)
    BY <1>7, <2>1, <2>2, PositionIs
  <2>4. PositionAt(t, n, enc).col = Units(t, a, n, enc)
    BY <1>5, <2>1, <2>3, PositionIs
  <2>5. PICK d \in Nat : d = Count(t, WideChar, k, n)
    BY <1>1, <2>1, CountTyped
  <2>6. Count(t, WideChar, a, n) = c + d
    <3>1. a <= k /\ k <= n
      BY <1>1, <1>6, <1>11, <2>1
    <3>2. Count(t, WideChar, a, n) = Count(t, WideChar, a, k) + Count(t, WideChar, k, n)
      BY <1>1, <1>6, <2>1, <3>1, CountSplit
    <3> QED BY <1>8, <2>5, <3>2
  <2>7. Units(t, a, n, enc) = n - a + IF enc = "Utf8" THEN c + d ELSE 0
    BY <1>6, <2>1, <2>6, UnitsIs
  <2>8. Units(t, a, n, enc) <= Units(t, a, k, enc)
    BY <1>7, <2>2, <2>4
  <2> QED BY <1>1, <1>6, <1>11, <1>8, <1>9, <2>1, <2>5, <2>7, <2>8
<1>12. \A n \in upTo : n <= k
  <2>1. \A n \in upTo : n \in Nat
    BY <1>1, <1>4
  <2> QED BY <1>1, <1>11, <2>1
<1>13. OffsetOf(t, pos) = CHOOSE n \in upTo : \A m \in upTo : m <= n
  BY <1>2, <1>4, Zenon DEF OffsetOf
<1>14. \A n \in upTo : (\A m \in upTo : m <= n) => n = k
  <2> SUFFICES ASSUME NEW n \in upTo, \A m \in upTo : m <= n
               PROVE  n = k
    OBVIOUS
  <2>1. k <= n /\ n <= k /\ n \in Nat
    BY <1>1, <1>4, <1>10, <1>12
  <2> QED BY <1>1, <2>1
<1>15. (CHOOSE n \in upTo : \A m \in upTo : m <= n) = k
  BY <1>10, <1>12, <1>14
<1> QED BY <1>2, <1>3, <1>13, <1>15

-----------------------------------------------------------------------------
(* The edits that are made in the editor *)

\* The least number of an interval that starts at 1.
LEMMA MinOf ==
  ASSUME NEW b \in Nat, NEW T \in SUBSET (1 .. b), T # {}
  PROVE  Min(T) \in T /\ \A n \in T : Min(T) <= n
<1>1. PICK m \in T : \A n \in T : m <= n
  <2>1. T \in SUBSET Nat
    OBVIOUS
  <2> QED BY <2>1, LeastNatural
<1> QED BY <1>1 DEF Min

\* Edits that were made for a text, from the first to the last.
EditsFor(t, edits, from, to, enc) ==
  /\ edits \in Seq(Change)
  /\ \A i \in 1 .. Len(edits) :
       /\ from[i] \in 0 .. Len(t) /\ to[i] \in from[i] .. Len(t)
       /\ edits[i].range = <<PositionAt(t, from[i], enc), PositionAt(t, to[i], enc)>>
  /\ \A i, j \in 1 .. Len(edits) : i < j => to[i] <= from[j]

\* The text after the edits from the i-th to the last.
Stages(stage, t, edits, from, to) ==
  /\ stage[Len(edits) + 1] = t
  /\ \A i \in 1 .. Len(edits) + 1 : stage[i] \in EditorTexts
  /\ \A i \in 1 .. Len(edits) :
       /\ Same(stage[i + 1], t, to[i])
       /\ stage[i] = Replaced(stage[i + 1], from[i], to[i], EditorText(edits[i].text))

\* The editor makes the edits from the last to the first: each finds the place it was
\* made for, since what is before it has not been changed yet.
LEMMA EditedIs ==
  ASSUME NEW t \in EditorTexts, NEW edits, NEW from, NEW to, encoding \in Encodings,
         EditsFor(t, edits, from, to, encoding)
  PROVE  \E stage : Stages(stage, t, edits, from, to) /\ Edited(t, edits) = stage[1]
<1>1. /\ t \in Text /\ Len(t) \in Nat /\ Len(edits) \in Nat /\ DOMAIN edits = 1 .. Len(edits)
      /\ \A i \in 1 .. Len(edits) : edits[i].text \in Text
  <2>1. edits \in Seq(Change) /\ t \in Text /\ Len(t) \in Nat
    BY DEF EditorTexts, Text, EditsFor
  <2>2. Len(edits) \in Nat /\ DOMAIN edits = 1 .. Len(edits)
    BY <2>1
  <2>3. ASSUME NEW i \in 1 .. Len(edits)
        PROVE  edits[i].text \in Text
    <3>1. edits[i] \in Change
      BY <2>1
    <3> QED BY <3>1 DEF Change, Text
  <2> QED BY <2>1, <2>2, <2>3
<1>2. PICK m \in Nat : m = Len(edits)
  BY <1>1
<1>3. /\ \A i \in 1 .. m : from[i] \in 0 .. Len(t) /\ to[i] \in from[i] .. Len(t)
      /\ \A i, j \in 1 .. m : i < j => to[i] <= from[j]
  BY <1>2 DEF EditsFor
<1>4. \A i \in 1 .. m : /\ to[i] \in 0 .. Len(t)
                        /\ edits[i].range[1] = PositionAt(t, from[i], encoding)
                        /\ edits[i].range[2] = PositionAt(t, to[i], encoding)
  <2> SUFFICES ASSUME NEW i \in 1 .. m
               PROVE  /\ to[i] \in 0 .. Len(t)
                      /\ edits[i].range[1] = PositionAt(t, from[i], encoding)
                      /\ edits[i].range[2] = PositionAt(t, to[i], encoding)
    OBVIOUS
  <2>1. edits[i].range = <<PositionAt(t, from[i], encoding), PositionAt(t, to[i], encoding)>>
    BY <1>2 DEF EditsFor
  <2> QED BY <1>1, <1>3, <2>1
<1>5. \A i \in 1 .. m : /\ OffsetOf(t, edits[i].range[1]) = from[i]
                        /\ OffsetOf(t, edits[i].range[2]) = to[i]
  <2> SUFFICES ASSUME NEW i \in 1 .. m
               PROVE  /\ OffsetOf(t, edits[i].range[1]) = from[i]
                      /\ OffsetOf(t, edits[i].range[2]) = to[i]
    OBVIOUS
  <2>1. from[i] \in 0 .. Len(t) /\ to[i] \in 0 .. Len(t)
    BY <1>3, <1>4
  <2>2. /\ edits[i].range[1] = PositionAt(t, from[i], encoding)
        /\ edits[i].range[2] = PositionAt(t, to[i], encoding)
    BY <1>4
  <2>3. OffsetOf(t, PositionAt(t, from[i], encoding)) = from[i]
    BY <1>1, <2>1, OffsetOfIs
  <2>4. OffsetOf(t, PositionAt(t, to[i], encoding)) = to[i]
    BY <1>1, <2>1, OffsetOfIs
  <2> QED BY <2>2, <2>3, <2>4
<1> DEFINE I == 1 .. m
           Make(i, v) == Replaced(v, OffsetOf(t, edits[i].range[1]), OffsetOf(t, edits[i].range[2]),
                                  EditorText(edits[i].text))
           c == [s \in SUBSET I |-> Min(s)]
           g == [x \in I \X EditorTexts |-> Make(x[1], x[2])]
           R == [s \in SUBSET I |->
                   {v \in EditorTexts : \A k \in 0 .. Len(t) :
                                          (\A j \in s : k <= from[j]) => Same(v, t, k)}]
           Fold(iter) == iter = [s \in SUBSET I |->
                                   IF s = {} THEN t ELSE Make(Min(s), iter[s \ {Min(s)}])]
<1>6. IsFiniteSet(I)
  BY FS_Interval
<1>7. \A s \in SUBSET I : s # {} => c[s] \in s /\ c[s] = Min(s)
  <2>1. ASSUME NEW s \in SUBSET I, s # {}
        PROVE  Min(s) \in s
    BY <2>1, MinOf
  <2> QED BY <2>1
<1>8. \A s \in SUBSET I : \A v : v \in R[s] <=>
         /\ v \in EditorTexts
         /\ \A k \in 0 .. Len(t) : (\A j \in s : k <= from[j]) => Same(v, t, k)
  OBVIOUS
<1>9. \A i \in I, v \in EditorTexts : g[<<i, v>>] = Make(i, v)
  <2> SUFFICES ASSUME NEW i \in I, NEW v \in EditorTexts
               PROVE  g[<<i, v>>] = Make(i, v)
    OBVIOUS
  <2>1. <<i, v>> \in I \X EditorTexts /\ <<i, v>>[1] = i /\ <<i, v>>[2] = v
    OBVIOUS
  <2> QED BY <2>1, Zenon
<1>10. t \in R[{}]
  <2>1. ASSUME NEW k \in 0 .. Len(t)
        PROVE  Same(t, t, k)
    BY <1>1 DEF Same
  <2>2. {} \in SUBSET I
    OBVIOUS
  <2> HIDE DEF R
  <2> QED BY <1>8, <2>1, <2>2
<1>11. ASSUME NEW s \in SUBSET I, s # {}, NEW v \in R[s \ {Min(s)}]
      PROVE  Make(Min(s), v) \in R[s] /\ Same(v, t, to[Min(s)]) /\ v \in EditorTexts
  <2>1. PICK i : i = Min(s)
    OBVIOUS
  <2>2. i \in s /\ i \in I /\ \A n \in s : i <= n
    BY <1>11, <2>1, MinOf
  <2>3. s \ {i} \in SUBSET I
    OBVIOUS
  <2>4. /\ v \in EditorTexts
        /\ \A k \in 0 .. Len(t) : (\A j \in s \ {i} : k <= from[j]) => Same(v, t, k)
    <3> HIDE DEF R
    <3> QED BY <1>8, <2>1, <2>3
  <2>5. from[i] \in 0 .. Len(t) /\ to[i] \in from[i] .. Len(t) /\ to[i] \in 0 .. Len(t)
    BY <1>3, <1>4, <2>2
  <2>6. \A j \in s \ {i} : to[i] <= from[j]
    <3> SUFFICES ASSUME NEW j \in s \ {i}
                 PROVE  to[i] <= from[j]
      OBVIOUS
    <3>1. i < j /\ j \in 1 .. m
      BY <2>2
    <3> QED BY <1>3, <2>2, <3>1
  <2>7. Same(v, t, to[i])
    BY <2>4, <2>5, <2>6
  <2>8. v \in Text /\ Len(v) \in Nat /\ to[i] <= Len(v)
    BY <2>4, <2>7 DEF EditorTexts, Text, Same
  <2>9. from[i] \in 0 .. Len(v) /\ to[i] \in from[i] .. Len(v)
    BY <1>1, <2>5, <2>8
  <2>10. EditorText(edits[i].text) \in EditorTexts
    BY <1>1, <1>2, <2>2, EditorTextIs
  <2>11. Make(i, v) = Replaced(v, from[i], to[i], EditorText(edits[i].text))
    BY <1>5, <2>2
  <2>12. Make(i, v) \in EditorTexts /\ Same(Make(i, v), v, from[i])
    <3>1. /\ Replaced(v, from[i], to[i], EditorText(edits[i].text)) \in EditorTexts
          /\ Same(Replaced(v, from[i], to[i], EditorText(edits[i].text)), v, from[i])
      BY <2>4, <2>9, <2>10, ReplacedText
    <3> QED BY <2>11, <3>1
  <2>13. ASSUME NEW k \in 0 .. Len(t), \A j \in s : k <= from[j]
         PROVE  Same(Make(i, v), t, k)
    <3>1. k <= from[i] /\ k <= to[i]
      BY <1>1, <2>2, <2>5, <2>13
    <3> HIDE DEF Make
    <3> QED BY <1>1, <2>5, <2>7, <2>12, <3>1 DEF Same
  <2>14. Make(i, v) \in R[s]
    <3> HIDE DEF R, Make
    <3> QED BY <1>8, <2>12, <2>13
  <2> QED BY <2>1, <2>4, <2>7, <2>14
<1>12. \E iter : Fold(iter)
  <2> HIDE DEF I, c, g, R, Make
  <2>1. PICK iter : /\ Iterates(iter, I, t, c, g)
                    /\ \A s \in SUBSET I : iter[s] \in R[s]
    <3>1. \A s \in SUBSET I : s # {} => \A v \in R[s \ {c[s]}] : g[<<c[s], v>>] \in R[s]
      <4>1. ASSUME NEW s \in SUBSET I, s # {}, NEW v \in R[s \ {c[s]}]
            PROVE  g[<<c[s], v>>] \in R[s]
        <5>1. c[s] \in s /\ c[s] \in I /\ c[s] = Min(s)
          BY <4>1, <1>7
        <5>2. Make(Min(s), v) \in R[s] /\ v \in EditorTexts
          BY <4>1, <5>1, <1>11
        <5> QED BY <5>1, <5>2, <1>9
      <4> QED BY <4>1
    <3>2. \A s \in SUBSET I : s # {} => c[s] \in s
      BY <1>7
    <3> QED BY <1>6, <1>10, <3>1, <3>2, IterationTyped
  <2>2. ASSUME NEW s \in SUBSET I, s # {}
        PROVE  g[<<c[s], iter[s \ {c[s]}]>>] = Make(Min(s), iter[s \ {Min(s)}])
    <3>1. c[s] \in I /\ c[s] = Min(s) /\ s \ {c[s]} \in SUBSET I
      BY <2>2, <1>7
    <3>2. iter[s \ {c[s]}] \in EditorTexts
      BY <1>8, <2>1, <3>1
    <3> QED BY <1>9, <3>1, <3>2
  <2>3. Fold(iter)
    BY <2>1, <2>2, Zenon DEF Iterates
  <2> QED BY <2>3
<1>13. PICK it : it = CHOOSE iter : Fold(iter)
  OBVIOUS
<1>14. Edited(t, edits) = it[I]
  BY <1>1, <1>2, <1>13 DEF Edited, FoldRight, MapThenFoldSet
<1>15. Fold(it)
  <2> HIDE DEF Fold
  <2> QED BY <1>12, <1>13
<1> DEFINE P == {s \in SUBSET I : it[s] \in R[s]}
<1>16. SUBSET I \subseteq P
  <2>1. {} \in P
    BY <1>10, <1>15
  <2>2. ASSUME NEW s \in SUBSET I, s # {}
        PROVE  \E x \in s : s \ {x} \in P => s \in P
    <3>1. Min(s) \in s
      BY <2>2, <1>7
    <3>2. it[s] = Make(Min(s), it[s \ {Min(s)}])
      BY <1>15, <2>2
    <3>3. s \ {Min(s)} \in P => s \in P
      <4> HIDE DEF R, Make
      <4> QED BY <1>11, <2>2, <3>2
    <3> QED BY <3>1, <3>3
  <2> HIDE DEF P, I
  <2> QED BY <1>6, <2>1, <2>2, SubsetInduction
<1>17. \A s \in SUBSET I : it[s] \in R[s] /\ it[s] \in EditorTexts
  <2> SUFFICES ASSUME NEW s \in SUBSET I
               PROVE  it[s] \in R[s] /\ it[s] \in EditorTexts
    OBVIOUS
  <2>1. s \in P
    BY <1>16
  <2>2. it[s] \in R[s]
    BY <2>1
  <2> HIDE DEF R
  <2> QED BY <1>8, <2>2
<1>18. PICK stage : stage = [i \in 1 .. m + 1 |-> it[i .. m]]
  OBVIOUS
<1>19. stage[m + 1] = t
  <2>1. (m + 1) .. m = {} /\ m + 1 \in 1 .. m + 1
    OBVIOUS
  <2>2. it[{}] = t
    BY <1>15
  <2> QED BY <1>18, <2>1, <2>2
<1>20. \A i \in 1 .. m + 1 : stage[i] \in EditorTexts
  <2> SUFFICES ASSUME NEW i \in 1 .. m + 1
               PROVE  stage[i] \in EditorTexts
    OBVIOUS
  <2>1. i .. m \in SUBSET I
    OBVIOUS
  <2> HIDE DEF I
  <2> QED BY <1>17, <1>18, <2>1
<1>21. ASSUME NEW i \in 1 .. m
       PROVE  /\ Same(stage[i + 1], t, to[i])
              /\ stage[i] = Replaced(stage[i + 1], from[i], to[i], EditorText(edits[i].text))
  <2>1. PICK s \in SUBSET I : s = i .. m
    OBVIOUS
  <2>2. i \in s /\ s # {}
    <3>1. i \in i .. m
      OBVIOUS
    <3> QED BY <2>1, <3>1
  <2>3. Min(s) = i
    <3>1. Min(s) \in s /\ \A n \in s : Min(s) <= n
      BY <2>2, MinOf
    <3> QED BY <2>1, <2>2, <3>1
  <2>4. s \ {i} = (i + 1) .. m
    BY <2>1
  <2>5. s \ {Min(s)} = (i + 1) .. m /\ s \ {Min(s)} \in SUBSET I
    BY <2>3, <2>4
  <2>6. stage[i] = it[s] /\ stage[i + 1] = it[s \ {Min(s)}]
    <3>1. PICK k : k = i + 1
      OBVIOUS
    <3>2. i \in 1 .. m + 1 /\ k \in 1 .. m + 1
      BY <3>1
    <3>3. stage[i] = it[i .. m] /\ stage[k] = it[k .. m]
      BY <1>18, <3>2
    <3>4. s \ {Min(s)} = k .. m
      BY <2>5, <3>1
    <3> HIDE DEF I, Make
    <3> QED BY <2>1, <3>1, <3>3, <3>4, Zenon
  <2>7. it[s] = Make(i, it[s \ {Min(s)}])
    BY <1>15, <2>2, <2>3
  <2>8. it[s \ {Min(s)}] \in R[s \ {Min(s)}]
    <3> HIDE DEF R, I
    <3> QED BY <1>17, <2>5
  <2>9. Same(it[s \ {Min(s)}], t, to[Min(s)])
    <3> HIDE DEF R, I, Make
    <3> QED BY <1>11, <2>2, <2>8
  <2>10. Make(i, stage[i + 1]) = Replaced(stage[i + 1], from[i], to[i], EditorText(edits[i].text))
    BY <1>5
  <2> HIDE DEF Make, R, I
  <2> QED BY <2>3, <2>6, <2>7, <2>9, <2>10
<1>22. Stages(stage, t, edits, from, to)
  BY <1>2, <1>19, <1>20, <1>21 DEF Stages
<1>23. it[I] = stage[1]
  BY <1>18
<1> QED BY <1>14, <1>22, <1>23

\* Positions have their type.
LEMMA PositionTyped ==
  ASSUME NEW t \in Text, NEW k \in 0 .. Len(t), NEW enc
  PROVE  PositionAt(t, k, enc) \in Position
<1>1. Len(t) \in Nat /\ k \in Nat
  BY DEF Text
<1>2. PICK a : a = LineStart(t, LineAt(t, k))
  OBVIOUS
<1>3. a \in 0 .. k /\ a \in Nat /\ LineAt(t, k) \in Nat
  BY <1>1, <1>2, LineStartIs, LineAtIs
<1>4. Units(t, a, k, enc) \in Nat
  <2>1. Count(t, WideChar, a, k) \in Nat
    BY <1>1, <1>3, CountTyped
  <2>2. Units(t, a, k, enc) = k - a + IF enc = "Utf8" THEN Count(t, WideChar, a, k) ELSE 0
    BY <1>1, <1>3, UnitsIs
  <2> QED BY <1>1, <1>3, <2>1, <2>2
<1>5. PositionAt(t, k, enc) = [line |-> LineAt(t, k), col |-> Units(t, a, k, enc)]
  BY <1>2 DEF PositionAt
<1> QED BY <1>3, <1>4, <1>5 DEF Position

\* A batch of changes takes one text to another.
Takes(batch, before, after, enc) ==
  /\ batch \in Seq(Change)
  /\ \E texts : /\ \A i \in 0 .. Len(batch) : texts[i] \in EditorTexts
                /\ \A i \in 1 .. Len(batch) : Leads(texts[i - 1], batch[i], texts[i], enc)
                /\ texts[0] = before /\ texts[Len(batch)] = after

\* No change takes a text to itself,
LEMMA TakesNone ==
  ASSUME NEW t \in EditorTexts, NEW enc
  PROVE  Takes(<<>>, t, t, enc)
<1>1. <<>> \in Seq(Change) /\ Len(<<>>) = 0
  OBVIOUS
<1>2. PICK texts : texts = [i \in {0} |-> t]
  OBVIOUS
<1>3. texts[0] = t /\ \A i \in 0 .. 0 : texts[i] \in EditorTexts
  BY <1>2
<1> QED BY <1>1, <1>3 DEF Takes

\* and one more takes it one change further.
LEMMA TakesMore ==
  ASSUME NEW batch, NEW before, NEW after, NEW enc, Takes(batch, before, after, enc),
         NEW change \in Change, NEW then \in EditorTexts, Leads(after, change, then, enc)
  PROVE  Takes(Append(batch, change), before, then, enc)
<1>1. batch \in Seq(Change) /\ Len(batch) \in Nat
  BY DEF Takes
<1>2. PICK texts : /\ \A i \in 0 .. Len(batch) : texts[i] \in EditorTexts
                   /\ \A i \in 1 .. Len(batch) : Leads(texts[i - 1], batch[i], texts[i], enc)
                   /\ texts[0] = before /\ texts[Len(batch)] = after
  BY DEF Takes
<1>3. PICK n \in Nat : n = Len(batch) + 1
  BY <1>1
<1>4. PICK more : more = [i \in 0 .. n |-> IF i = n THEN then ELSE texts[i]]
  OBVIOUS
<1>5. PICK longer : longer = Append(batch, change)
  OBVIOUS
<1>6. longer \in Seq(Change) /\ Len(longer) = n /\ longer[n] = change
      /\ \A i \in 1 .. Len(batch) : longer[i] = batch[i]
  BY <1>1, <1>3, <1>5
<1>7. more[n] = then /\ \A i \in 0 .. Len(batch) : more[i] = texts[i]
  BY <1>1, <1>3, <1>4
<1>8. \A i \in 0 .. n : more[i] \in EditorTexts
  <2> SUFFICES ASSUME NEW i \in 0 .. n
               PROVE  more[i] \in EditorTexts
    OBVIOUS
  <2>1. i = n \/ i \in 0 .. Len(batch)
    BY <1>1, <1>3
  <2> QED BY <1>2, <1>7, <2>1
<1>9. \A i \in 1 .. n : Leads(more[i - 1], longer[i], more[i], enc)
  <2> SUFFICES ASSUME NEW i \in 1 .. n
               PROVE  Leads(more[i - 1], longer[i], more[i], enc)
    OBVIOUS
  <2>1. PICK k \in 0 .. Len(batch) : k = i - 1
    BY <1>1, <1>3
  <2>2. CASE i = n
    <3>1. k = Len(batch) /\ more[k] = after
      BY <1>1, <1>2, <1>3, <1>7, <2>1, <2>2
    <3> QED BY <1>6, <1>7, <2>1, <2>2, <3>1
  <2>3. CASE i \in 1 .. Len(batch)
    <3>1. Leads(texts[k], batch[i], texts[i], enc)
      BY <1>2, <2>1, <2>3
    <3>2. more[k] = texts[k] /\ more[i] = texts[i] /\ longer[i] = batch[i]
      BY <1>6, <1>7, <2>3
    <3> QED BY <2>1, <3>1, <3>2
  <2> QED BY <1>1, <1>3, <2>2, <2>3
<1>10. more[0] = before
  BY <1>1, <1>2, <1>7
<1> QED BY <1>5, <1>6, <1>7, <1>8, <1>9, <1>10 DEF Takes

\* The message in which the editor says what the edits of the server have changed.
EditChanges(edits, endings) ==
  Reverse([i \in DOMAIN edits |->
             [range |-> edits[i].range,
              text  |-> WithEndings(EditorText(edits[i].text), endings)]])

\* It has the edits in the order in which they were made,
LEMMA EditChangesIs ==
  ASSUME NEW edits \in Seq(Change), NEW endings
  PROVE  /\ EditChanges(edits, endings) \in Seq(Change)
         /\ Len(EditChanges(edits, endings)) = Len(edits)
         /\ \A i \in 1 .. Len(edits) :
              /\ EditorText(edits[i].text) \in EditorTexts
              /\ EditChanges(edits, endings)[Len(edits) + 1 - i] =
                   [range |-> edits[i].range,
                    text  |-> WithEndings(EditorText(edits[i].text), endings)]
<1>1. PICK m \in Nat : m = Len(edits)
  OBVIOUS
<1>2. DOMAIN edits = 1 .. m
  BY <1>1
<1> DEFINE Made(i) == [range |-> edits[i].range,
                       text  |-> WithEndings(EditorText(edits[i].text), endings)]
<1>3. ASSUME NEW i \in 1 .. m
      PROVE  EditorText(edits[i].text) \in EditorTexts /\ Made(i) \in Change
  <2>1. edits[i] \in Change
    BY <1>1
  <2>2. edits[i].text \in Text /\ edits[i].range \in {WholeText} \cup Position \X Position
    BY <2>1 DEF Change, Text
  <2>3. EditorText(edits[i].text) \in EditorTexts
    BY <2>2, EditorTextIs
  <2>4. WithEndings(EditorText(edits[i].text), endings) \in Text
    BY <2>3, WrittenIs
  <2> QED BY <2>2, <2>3, <2>4 DEF Change, Text
<1> HIDE DEF Made
<1>4. PICK made : made = [i \in 1 .. m |-> Made(i)]
  OBVIOUS
<1>5. made \in Seq(Change) /\ Len(made) = m
  BY <1>3, <1>4
<1>6. PICK back : back = [i \in 1 .. m |-> made[(m - i) + 1]]
  OBVIOUS
<1>7. EditChanges(edits, endings) = back
  <2>1. EditChanges(edits, endings) = Reverse(made)
    BY <1>2, <1>4 DEF EditChanges, Made
  <2> QED BY <1>5, <1>6, <2>1 DEF Reverse
<1>8. ASSUME NEW i \in 1 .. m
      PROVE  back[i] \in Change /\ back[m + 1 - i] = Made(i)
  <2>1. PICK j \in 1 .. m : j = m + 1 - i
    OBVIOUS
  <2>2. (m - i) + 1 = j /\ (m - j) + 1 = i
    BY <2>1
  <2>3. back[i] = made[j] /\ back[j] = made[i]
    BY <1>6, <2>2
  <2> QED BY <1>3, <1>4, <2>1, <2>3
<1>9. back \in Seq(Change) /\ Len(back) = m
  BY <1>6, <1>8
<1> QED BY <1>1, <1>3, <1>7, <1>8, <1>9 DEF Made

\* and takes the text before them to the text after them.
LEMMA EditsTake ==
  ASSUME NEW t \in EditorTexts, NEW edits, NEW from, NEW to, encoding \in Encodings,
         EditsFor(t, edits, from, to, encoding), NEW endings
  PROVE  /\ Edited(t, edits) \in EditorTexts
         /\ Takes(EditChanges(edits, endings), t, Edited(t, edits), encoding)
<1>1. PICK stage : Stages(stage, t, edits, from, to) /\ Edited(t, edits) = stage[1]
  BY EditedIs
<1>2. edits \in Seq(Change) /\ t \in Text
  BY DEF EditsFor, EditorTexts
<1>3. PICK m \in Nat : m = Len(edits)
  BY <1>2
<1>4. PICK enc \in Encodings : enc = encoding
  OBVIOUS
<1>5. PICK batch : batch = EditChanges(edits, endings)
  OBVIOUS
<1>6. /\ batch \in Seq(Change) /\ Len(batch) = m
      /\ \A i \in 1 .. m :
           /\ EditorText(edits[i].text) \in EditorTexts
           /\ batch[m + 1 - i] = [range |-> edits[i].range,
                                  text  |-> WithEndings(EditorText(edits[i].text), endings)]
  BY <1>2, <1>3, <1>5, EditChangesIs
<1>7. /\ stage[m + 1] = t
      /\ \A i \in 1 .. m + 1 : stage[i] \in EditorTexts
      /\ \A i \in 1 .. m :
           /\ Same(stage[i + 1], t, to[i])
           /\ stage[i] = Replaced(stage[i + 1], from[i], to[i], EditorText(edits[i].text))
  BY <1>1, <1>3 DEF Stages
<1>8. \A i \in 1 .. m : /\ from[i] \in 0 .. Len(t) /\ to[i] \in from[i] .. Len(t)
                        /\ edits[i].range = <<PositionAt(t, from[i], enc), PositionAt(t, to[i], enc)>>
  BY <1>3, <1>4 DEF EditsFor
<1>9. ASSUME NEW i \in 1 .. m
      PROVE  Leads(stage[i + 1], batch[m + 1 - i], stage[i], enc)
  <2>1. PICK s : s = stage[i + 1]
    OBVIOUS
  <2>2. s \in EditorTexts /\ s \in Text
    BY <1>7, <2>1 DEF EditorTexts
  <2>3. Same(s, t, to[i]) /\ stage[i] = Replaced(s, from[i], to[i], EditorText(edits[i].text))
    BY <1>7, <2>1
  <2>4. from[i] \in Nat /\ to[i] \in Nat /\ from[i] <= to[i] /\ from[i] \in 0 .. to[i]
        /\ to[i] \in 0 .. to[i]
    <3>1. Len(t) \in Nat /\ from[i] \in 0 .. Len(t) /\ to[i] \in from[i] .. Len(t)
      BY <1>2, <1>8 DEF Text
    <3> QED BY <3>1
  <2>5. PositionAt(s, from[i], enc) = PositionAt(t, from[i], enc)
    BY <1>2, <2>2, <2>3, <2>4, PositionsSame
  <2>6. PositionAt(s, to[i], enc) = PositionAt(t, to[i], enc)
    BY <1>2, <2>2, <2>3, <2>4, PositionsSame
  <2>7. from[i] \in 0 .. Len(s) /\ to[i] \in from[i] .. Len(s)
    <3>1. Len(s) \in Nat /\ to[i] <= Len(s)
      BY <2>2, <2>3 DEF Text, Same
    <3> QED BY <2>4, <3>1
  <2>8. PICK change : change = batch[m + 1 - i]
    OBVIOUS
  <2>9. /\ change.text = WithEndings(EditorText(edits[i].text), endings)
        /\ change.range = edits[i].range
    <3> DEFINE Made == [range |-> edits[i].range,
                        text  |-> WithEndings(EditorText(edits[i].text), endings)]
    <3>1. Made.text = WithEndings(EditorText(edits[i].text), endings) /\ Made.range = edits[i].range
      OBVIOUS
    <3>2. change = Made
      BY <1>6, <2>8
    <3> HIDE DEF Made
    <3> QED BY <3>1, <3>2
  <2>10. EditorText(edits[i].text) \in EditorTexts
    BY <1>6
  <2>11. change.text \in Text /\ Normalize(change.text) = EditorText(edits[i].text)
    BY <2>9, <2>10, WrittenIs
  <2>12. change.range = <<PositionAt(s, from[i], enc), PositionAt(s, to[i], enc)>>
    BY <1>8, <2>5, <2>6, <2>9
  <2>13. stage[i] = Replaced(s, from[i], to[i], Normalize(change.text))
    BY <2>3, <2>11
  <2>14. Leads(s, change, stage[i], enc)
    BY <2>7, <2>10, <2>11, <2>12, <2>13 DEF Leads
  <2> QED BY <2>1, <2>8, <2>14
<1>10. PICK texts : texts = [p \in 0 .. m |-> stage[m + 1 - p]]
  OBVIOUS
<1>11. \A p \in 0 .. m : texts[p] \in EditorTexts
  BY <1>7, <1>10
<1>12. ASSUME NEW p \in 1 .. m
       PROVE  Leads(texts[p - 1], batch[p], texts[p], enc)
  <2>1. PICK i \in 1 .. m : i = m + 1 - p
    OBVIOUS
  <2>2. m + 1 - i = p /\ p - 1 \in 0 .. m /\ m + 1 - (p - 1) = i + 1
    BY <2>1
  <2>3. texts[p] = stage[i] /\ texts[p - 1] = stage[i + 1]
    BY <1>10, <2>1, <2>2
  <2> QED BY <1>9, <2>2, <2>3
<1>13. texts[0] = t /\ texts[m] = stage[1]
  <2>1. 0 \in 0 .. m /\ m \in 0 .. m /\ m + 1 - 0 = m + 1 /\ m + 1 - m = 1
    OBVIOUS
  <2>2. texts[0] = stage[m + 1 - 0] /\ texts[m] = stage[m + 1 - m]
    BY <1>10, <2>1
  <2> QED BY <1>7, <2>1, <2>2
<1>14. stage[1] \in EditorTexts
  BY <1>7
<1>15. Takes(batch, t, stage[1], enc)
  BY <1>6, <1>11, <1>12, <1>13 DEF Takes
<1> QED BY <1>1, <1>4, <1>5, <1>14, <1>15

-----------------------------------------------------------------------------
(* The edits of a diff *)

\* What a diff keeps: some of the characters, in their order.
Keeps(left, right, keep) ==
  /\ DOMAIN keep \subseteq 1 .. Len(left)
  /\ \A i \in DOMAIN keep : keep[i] \in 1 .. Len(right) /\ right[keep[i]] = left[i]
  /\ \A i, j \in DOMAIN keep : i < j => keep[i] < keep[j]

\* That is what any diff does.
LEMMA DiffsKeep ==
  ASSUME NEW left \in Text, NEW right \in Text, NEW keep \in Diffs(left, right)
  PROVE  Keeps(left, right, keep)
<1>1. /\ keep \in UNION {[kept -> DOMAIN right] : kept \in SUBSET DOMAIN left}
      /\ \A i \in DOMAIN keep : right[keep[i]] = left[i]
      /\ \A i, j \in DOMAIN keep : i < j => keep[i] < keep[j]
  BY Zenon DEF Diffs
<1>2. PICK kept \in SUBSET DOMAIN left : keep \in [kept -> DOMAIN right]
  BY <1>1
<1>3. DOMAIN left = 1 .. Len(left) /\ DOMAIN right = 1 .. Len(right)
  BY DEF Text
<1> QED BY <1>1, <1>2, <1>3 DEF Keeps

\* The characters that are kept, a start and an end.
Anchored(left, right, on) ==
  /\ DOMAIN on \subseteq 0 .. Len(left) + 1 /\ 0 \in DOMAIN on /\ Len(left) + 1 \in DOMAIN on
  /\ on[0] = 0 /\ on[Len(left) + 1] = Len(right) + 1
  /\ \A i \in DOMAIN on : on[i] \in 0 .. Len(right) + 1
  /\ \A i \in DOMAIN on : i \in 1 .. Len(left) =>
       on[i] \in 1 .. Len(right) /\ right[on[i]] = left[i]
  /\ \A i, j \in DOMAIN on : i < j => on[i] < on[j]

\* They are the anchors of a diff.
LEMMA AnchorsAre ==
  ASSUME NEW left \in Text, NEW right \in Text, NEW keep, Keeps(left, right, keep)
  PROVE  Anchored(left, right, Anchors(left, right, keep))
<1>1. PICK l \in Nat, r \in Nat : l = Len(left) /\ r = Len(right)
  BY DEF Text
<1>2. /\ DOMAIN keep \subseteq 1 .. l
      /\ \A i \in DOMAIN keep : keep[i] \in 1 .. r /\ right[keep[i]] = left[i]
      /\ \A i, j \in DOMAIN keep : i < j => keep[i] < keep[j]
  BY <1>1 DEF Keeps
<1>3. PICK on : on = Anchors(left, right, keep)
  OBVIOUS
<1>4. /\ DOMAIN on = DOMAIN keep \cup {0, l + 1}
      /\ \A i \in DOMAIN on : on[i] = IF i = 0 THEN 0 ELSE IF i > l THEN r + 1 ELSE keep[i]
  BY <1>1, <1>3 DEF Anchors
<1>5. on[0] = 0 /\ on[l + 1] = r + 1
  BY <1>1, <1>4
<1>6. \A i \in DOMAIN on : i \in 1 .. l => i \in DOMAIN keep /\ on[i] = keep[i]
  BY <1>1, <1>4
<1>7. \A i \in DOMAIN on : i = 0 \/ i = l + 1 \/ i \in 1 .. l
  BY <1>2, <1>4
<1>8. \A i \in DOMAIN on : on[i] \in 0 .. r + 1
  <2> SUFFICES ASSUME NEW i \in DOMAIN on
               PROVE  on[i] \in 0 .. r + 1
    OBVIOUS
  <2>1. CASE i \in 1 .. l
    BY <1>2, <1>6, <2>1
  <2>2. CASE i = 0 \/ i = l + 1
    BY <1>5, <2>2
  <2> QED BY <1>7, <2>1, <2>2
<1>9. \A i, j \in DOMAIN on : i < j => on[i] < on[j]
  <2> SUFFICES ASSUME NEW i \in DOMAIN on, NEW j \in DOMAIN on, i < j
               PROVE  on[i] < on[j]
    OBVIOUS
  <2>1. i # l + 1 /\ j # 0
    BY <1>7
  <2>2. CASE i = 0
    <3>1. CASE j = l + 1
      BY <1>5, <2>2, <3>1
    <3>2. CASE j \in 1 .. l
      BY <1>2, <1>5, <1>6, <2>2, <3>2
    <3> QED BY <1>7, <2>1, <3>1, <3>2
  <2>3. CASE i \in 1 .. l
    <3>1. CASE j = l + 1
      BY <1>2, <1>5, <1>6, <2>3, <3>1
    <3>2. CASE j \in 1 .. l
      BY <1>2, <1>6, <2>3, <3>2
    <3> QED BY <1>7, <2>1, <3>1, <3>2
  <2> QED BY <1>7, <2>1, <2>2, <2>3
<1>10. DOMAIN on \subseteq 0 .. l + 1 /\ 0 \in DOMAIN on /\ l + 1 \in DOMAIN on
  BY <1>2, <1>4
<1>11. \A i \in DOMAIN on : i \in 1 .. l => on[i] \in 1 .. r /\ right[on[i]] = left[i]
  BY <1>2, <1>6
<1> QED BY <1>1, <1>3, <1>5, <1>8, <1>9, <1>10, <1>11 DEF Anchored

\* The next anchor is the first behind a place.
LEMMA NextAnchorIs ==
  ASSUME NEW left \in Text, NEW right \in Text, NEW on, Anchored(left, right, on),
         NEW i \in 0 .. Len(left)
  PROVE  /\ NextAnchor(on, i) \in DOMAIN on /\ NextAnchor(on, i) > i
         /\ \A k \in DOMAIN on : k > i => NextAnchor(on, i) <= k
<1>1. PICK l \in Nat : l = Len(left)
  BY DEF Text
<1>2. PICK T : T = {j \in DOMAIN on : j > i}
  OBVIOUS
<1>3. T \in SUBSET Nat /\ l + 1 \in T
  BY <1>1, <1>2 DEF Anchored
<1>4. PICK j \in T : \A k \in T : j <= k
  BY <1>3, LeastNatural
<1>5. j \in DOMAIN on /\ j > i /\ \A k \in DOMAIN on : k > i => j <= k
  BY <1>2, <1>4
<1>6. PICK next : next = NextAnchor(on, i)
  OBVIOUS
<1>7. next \in DOMAIN on /\ next > i /\ \A k \in DOMAIN on : k > i => next <= k
  BY <1>5, <1>6 DEF NextAnchor
<1> QED BY <1>6, <1>7

\* A text that has what is before p of the left and what is after q of the right.
Mixes(w, left, right, p, q) ==
  /\ w \in Text /\ Len(w) = p + (Len(right) - q)
  /\ \A x \in 1 .. p : w[x] = left[x]
  /\ \A y \in 1 .. Len(right) - q : w[p + y] = right[q + y]

\* There is only one,
LEMMA MixesUnique ==
  ASSUME NEW left \in Text, NEW right \in Text, NEW p \in 0 .. Len(left), NEW q \in 0 .. Len(right),
         NEW v, NEW w, Mixes(v, left, right, p, q), Mixes(w, left, right, p, q)
  PROVE  v = w
<1>1. PICK l \in Nat, r \in Nat : l = Len(left) /\ r = Len(right)
  BY DEF Text
<1>2. PICK n \in Nat : n = p + (r - q) /\ l = Len(left) /\ r = Len(right)
  <2>1. p + (r - q) \in Nat
    BY <1>1
  <2> QED BY <1>1, <2>1
<1>3. v \in Text /\ w \in Text /\ Len(v) = n /\ Len(w) = n
  BY <1>2 DEF Mixes
<1>4. ASSUME NEW i \in 1 .. n
      PROVE  v[i] = w[i]
  <2>1. CASE i <= p
    <3>1. i \in 1 .. p
      BY <1>2, <2>1
    <3> QED BY <3>1 DEF Mixes
  <2>2. CASE i > p
    <3>1. PICK y \in 1 .. r - q : i = p + y
      <4>1. i - p \in 1 .. r - q /\ i = p + (i - p)
        BY <1>2, <2>2
      <4> QED BY <4>1
    <3>2. v[p + y] = right[q + y] /\ w[p + y] = right[q + y]
      BY <1>2 DEF Mixes
    <3> QED BY <3>1, <3>2
  <2> QED BY <1>2, <2>1, <2>2
<1> QED BY <1>3, <1>4 DEF Text

\* The length of a part of a sequence.
LEMMA SubSeqIs ==
  ASSUME NEW S, NEW s \in Seq(S), NEW m \in Nat, NEW n \in Nat, m <= n, n <= Len(s)
  PROVE  /\ SubSeq(s, m + 1, n) \in Seq(S) /\ Len(SubSeq(s, m + 1, n)) = n - m
         /\ \A i \in 1 .. n - m : SubSeq(s, m + 1, n)[i] = s[m + i]
  OBVIOUS

\* To replace what is between two neighbours that are kept is to go from one to the other.
LEMMA GapMixes ==
  ASSUME NEW left \in Text, NEW right \in Text,
         NEW p \in Nat, NEW q \in Nat, NEW to \in p .. Len(left), NEW upTo \in q .. Len(right),
         NEW w, Mixes(w, left, right, to, upTo)
  PROVE  Mixes(Replaced(w, p, to, SubSeq(right, q + 1, upTo)), left, right, p, q)
<1>1. PICK l \in Nat, r \in Nat : l = Len(left) /\ r = Len(right)
  BY DEF Text
<1>2. PICK insert : insert = SubSeq(right, q + 1, upTo)
  OBVIOUS
<1>3. insert \in Text /\ Len(insert) = upTo - q /\ \A i \in 1 .. upTo - q : insert[i] = right[q + i]
  <2>1. q <= upTo /\ upTo <= Len(right) /\ upTo \in Nat
    BY <1>1
  <2> QED BY <1>2, <2>1, SubSeqIs DEF Text
<1>4. w \in Text /\ Len(w) = to + (r - upTo)
      /\ (\A x \in 1 .. to : w[x] = left[x])
      /\ (\A y \in 1 .. r - upTo : w[to + y] = right[upTo + y])
  BY <1>1 DEF Mixes
<1>5. p \in 0 .. Len(w) /\ to \in p .. Len(w)
  BY <1>1, <1>4
<1>6. PICK s : s = Replaced(w, p, to, insert)
  OBVIOUS
<1>7. s \in Text /\ Splices(s, w, p, to, insert)
  BY <1>3, <1>4, <1>5, <1>6, ReplacedIs DEF Text
<1>8. /\ Len(s) = p + (upTo - q) + (r - upTo)
      /\ \A i \in 1 .. p : s[i] = w[i]
      /\ \A i \in 1 .. upTo - q : s[p + i] = insert[i]
      /\ \A i \in 1 .. r - upTo : s[p + (upTo - q) + i] = w[to + i]
  <2>1. /\ Len(s) = p + Len(insert) + (Len(w) - to)
        /\ \A i \in 1 .. p : s[i] = w[i]
        /\ \A i \in 1 .. Len(insert) : s[p + i] = insert[i]
        /\ \A i \in 1 .. Len(w) - to : s[p + Len(insert) + i] = w[to + i]
    BY <1>7 DEF Splices
  <2>2. Len(insert) = upTo - q /\ Len(w) - to = r - upTo
    BY <1>1, <1>3, <1>4
  <2> QED BY <2>1, <2>2
<1>9. Len(s) = p + (r - q)
  BY <1>1, <1>8
<1>10. \A x \in 1 .. p : s[x] = left[x]
  BY <1>1, <1>4, <1>8
<1>11. ASSUME NEW y \in 1 .. r - q
       PROVE  s[p + y] = right[q + y]
  <2>1. CASE y <= upTo - q
    <3>1. y \in 1 .. upTo - q
      BY <1>1, <2>1
    <3> QED BY <1>3, <1>8, <3>1
  <2>2. CASE y > upTo - q
    <3>1. PICK z \in 1 .. r - upTo : z = y - (upTo - q)
      <4>1. y - (upTo - q) \in 1 .. r - upTo
        BY <1>1, <2>2
      <4> QED BY <4>1
    <3>2. p + (upTo - q) + z = p + y /\ upTo + z = q + y
      BY <1>1, <3>1
    <3>3. s[p + (upTo - q) + z] = w[to + z] /\ w[to + z] = right[upTo + z]
      BY <1>4, <1>8
    <3> QED BY <3>2, <3>3
  <2> QED BY <1>1, <2>1, <2>2
<1> QED BY <1>1, <1>2, <1>6, <1>7, <1>9, <1>10, <1>11 DEF Mixes

\* and there is one.
LEMMA MixesExist ==
  ASSUME NEW left \in Text, NEW right \in Text, NEW p \in 0 .. Len(left), NEW q \in 0 .. Len(right)
  PROVE  Mixes(SubSeq(left, 1, p) \o SubSeq(right, q + 1, Len(right)), left, right, p, q)
<1>1. PICK l \in Nat, r \in Nat : l = Len(left) /\ r = Len(right)
  BY DEF Text
<1>2. PICK a : a = SubSeq(left, 0 + 1, p)
  OBVIOUS
<1>3. PICK b : b = SubSeq(right, q + 1, r)
  OBVIOUS
<1>4. a \in Text /\ Len(a) = p /\ \A i \in 1 .. p : a[i] = left[i]
  <2>1. p \in Nat /\ 0 <= p /\ p <= Len(left) /\ 0 \in Nat
    BY <1>1
  <2>2. /\ a \in Text /\ Len(a) = p - 0
        /\ \A i \in 1 .. p - 0 : a[i] = left[0 + i]
    BY <1>2, <2>1, SubSeqIs DEF Text
  <2> QED BY <2>1, <2>2
<1>5. b \in Text /\ Len(b) = r - q /\ \A i \in 1 .. r - q : b[i] = right[q + i]
  <2>1. q \in Nat /\ q <= r
    BY <1>1
  <2> QED BY <1>1, <1>3, <2>1, SubSeqIs DEF Text
<1>6. PICK w : w = a \o b
  OBVIOUS
<1>7. /\ w \in Text /\ Len(w) = Len(a) + Len(b)
      /\ \A i \in 1 .. Len(a) : w[i] = a[i]
      /\ \A i \in 1 .. Len(b) : w[Len(a) + i] = b[i]
  <2>1. a \in Seq(Char) /\ b \in Seq(Char)
    BY <1>4, <1>5 DEF Text
  <2>2. /\ a \o b \in Seq(Char) /\ Len(a \o b) = Len(a) + Len(b)
        /\ \A i \in 1 .. Len(a) : (a \o b)[i] = a[i]
        /\ \A i \in 1 .. Len(b) : (a \o b)[Len(a) + i] = b[i]
    BY <2>1, ConcatIs
  <2> QED BY <1>6, <2>2, Zenon DEF Text
<1>8. Mixes(w, left, right, p, q)
  BY <1>1, <1>4, <1>5, <1>7 DEF Mixes
<1>9. w = SubSeq(left, 1, p) \o SubSeq(right, q + 1, Len(right))
  <2>1. 0 + 1 = 1
    OBVIOUS
  <2> QED BY <1>1, <1>2, <1>3, <1>6, <2>1
<1> QED BY <1>8, <1>9

\* Up to and with a character that is kept a text is the left one, after it the right one.
CutLeft(left, a) == IF a > Len(left) THEN Len(left) ELSE a
CutRight(left, right, on, a) == IF a > Len(left) THEN Len(right) ELSE on[a]

\* A kept character may be taken from either text.
LEMMA MixesWith ==
  ASSUME NEW left \in Text, NEW right \in Text, NEW on, Anchored(left, right, on),
         NEW j \in DOMAIN on, j > 0, NEW w, Mixes(w, left, right, j - 1, on[j] - 1)
  PROVE  Mixes(w, left, right, CutLeft(left, j), CutRight(left, right, on, j))
<1>1. PICK l \in Nat, r \in Nat : l = Len(left) /\ r = Len(right)
  BY DEF Text
<1>2. j \in Nat /\ j <= l + 1
  BY <1>1 DEF Anchored
<1>3. CASE j > l
  <2>1. j = l + 1 /\ on[j] = r + 1
    BY <1>1, <1>2, <1>3 DEF Anchored
  <2>2. j - 1 = l /\ on[j] - 1 = r
    BY <2>1
  <2> QED BY <1>1, <1>3, <2>2 DEF CutLeft, CutRight
<1>4. CASE ~ j > l
  <2>1. PICK k \in Nat : k = on[j]
    BY <1>1, <1>2, <1>4 DEF Anchored
  <2>2. j \in 1 .. l /\ k \in 1 .. r /\ right[k] = left[j]
    BY <1>1, <1>2, <1>4, <2>1 DEF Anchored
  <2>3. /\ w \in Text /\ Len(w) = j - 1 + (r - (k - 1))
        /\ \A x \in 1 .. j - 1 : w[x] = left[x]
        /\ \A y \in 1 .. r - (k - 1) : w[j - 1 + y] = right[k - 1 + y]
    BY <1>1, <2>1 DEF Mixes
  <2>4. Len(w) = j + (r - k)
    BY <1>2, <2>2, <2>3
  <2>5. w[j] = left[j]
    <3>1. 1 \in 1 .. r - (k - 1) /\ j - 1 + 1 = j /\ k - 1 + 1 = k
      BY <2>2
    <3>2. w[j - 1 + 1] = right[k - 1 + 1]
      BY <2>3, <3>1
    <3> QED BY <2>2, <3>1, <3>2
  <2>6. \A x \in 1 .. j : w[x] = left[x]
    <3> SUFFICES ASSUME NEW x \in 1 .. j
                 PROVE  w[x] = left[x]
      OBVIOUS
    <3>1. x = j \/ x \in 1 .. j - 1
      BY <1>2
    <3> QED BY <2>3, <2>5, <3>1
  <2>7. \A y \in 1 .. r - k : w[j + y] = right[k + y]
    <3> SUFFICES ASSUME NEW y \in 1 .. r - k
                 PROVE  w[j + y] = right[k + y]
      OBVIOUS
    <3>1. PICK z \in 1 .. r - (k - 1) : z = y + 1
      <4>1. y + 1 \in 1 .. r - (k - 1)
        BY <2>2
      <4> QED BY <4>1
    <3>2. j - 1 + z = j + y /\ k - 1 + z = k + y
      BY <1>2, <3>1
    <3>3. w[j - 1 + z] = right[k - 1 + z]
      BY <2>3
    <3> QED BY <3>2, <3>3
  <2>8. Mixes(w, left, right, j, k)
    BY <1>1, <2>3, <2>4, <2>6, <2>7 DEF Mixes
  <2>9. CutLeft(left, j) = j /\ CutRight(left, right, on, j) = k
    BY <1>1, <1>4, <2>1 DEF CutLeft, CutRight
  <2> QED BY <2>8, <2>9
<1> QED BY <1>3, <1>4

\* What is inserted is from the right text.
Pieces(right) == {x \in Text : Plain(right) => Plain(x)}

\* A gap says what to put in place of a stretch of the left text.
GapRecords(left, right) == [from : 0 .. Len(left), to : 0 .. Len(left), insert : Pieces(right)]

\* The gaps before a place, and the texts from the right one to the one that is mixed there.
Stretches(stage, gaps) ==
  \A i \in 1 .. Len(gaps) :
    stage[i] = Replaced(stage[i + 1], gaps[i].from, gaps[i].to, gaps[i].insert)

\* The gaps before the place `next' are in their order, and make of the text that is
\* mixed at p and q the right one.
GapsUpTo(gaps, left, right, next, p, q) ==
  /\ gaps \in Seq(GapRecords(left, right))
  /\ \A i \in 1 .. Len(gaps) : gaps[i].from <= gaps[i].to /\ gaps[i].to < next
  /\ \A i, j \in 1 .. Len(gaps) : i < j => gaps[i].to <= gaps[j].from
  /\ \E stage : /\ stage[1] = right /\ Mixes(stage[Len(gaps) + 1], left, right, p, q)
                /\ Stretches(stage, gaps)

\* One more gap behind those there are.
LEMMA GapAdded ==
  ASSUME NEW left \in Text, NEW right \in Text, NEW i \in 0 .. Len(left), NEW p, NEW q,
         NEW gaps, GapsUpTo(gaps, left, right, i, p, q),
         NEW n \in i .. Len(left), NEW insert \in Pieces(right), NEW w, NEW p1, NEW q1,
         Mixes(w, left, right, p1, q1),
         \A v : Mixes(v, left, right, p, q) => v = Replaced(w, i, n, insert)
  PROVE  GapsUpTo(Append(gaps, [from |-> i, to |-> n, insert |-> insert]), left, right,
                  n + 1, p1, q1)
<1>1. PICK l \in Nat : l = Len(left)
  BY DEF Text
<1>2. PICK gap : gap = [from |-> i, to |-> n, insert |-> insert]
  OBVIOUS
<1>3. gap \in GapRecords(left, right) /\ gap.from = i /\ gap.to = n /\ gap.insert = insert
  BY <1>1, <1>2 DEF GapRecords
<1>4. /\ gaps \in Seq(GapRecords(left, right))
      /\ \A k \in 1 .. Len(gaps) : gaps[k].from <= gaps[k].to /\ gaps[k].to < i
      /\ \A k, j \in 1 .. Len(gaps) : k < j => gaps[k].to <= gaps[j].from
  BY DEF GapsUpTo
<1>5. PICK stage : /\ stage[1] = right /\ Mixes(stage[Len(gaps) + 1], left, right, p, q)
                   /\ Stretches(stage, gaps)
  BY DEF GapsUpTo
<1>6. PICK m \in Nat : m = Len(gaps)
  BY <1>4
<1>7. PICK more : more = Append(gaps, gap)
  OBVIOUS
<1>8. /\ more \in Seq(GapRecords(left, right)) /\ Len(more) = m + 1 /\ more[m + 1] = gap
      /\ \A k \in 1 .. m : more[k] = gaps[k]
  BY <1>3, <1>4, <1>6, <1>7
<1>9. \A k \in 1 .. m : /\ gaps[k].from \in 0 .. l /\ gaps[k].to \in 0 .. l
  <2> SUFFICES ASSUME NEW k \in 1 .. m
               PROVE  /\ gaps[k].from \in 0 .. l /\ gaps[k].to \in 0 .. l
    OBVIOUS
  <2>1. gaps[k] \in GapRecords(left, right)
    BY <1>4, <1>6
  <2> QED BY <1>1, <2>1 DEF GapRecords
<1>10. \A k \in 1 .. m + 1 : k = m + 1 \/ k \in 1 .. m
  OBVIOUS
<1>11. \A k \in 1 .. m + 1 : more[k].from <= more[k].to /\ more[k].to < n + 1
  <2> SUFFICES ASSUME NEW k \in 1 .. m + 1
               PROVE  more[k].from <= more[k].to /\ more[k].to < n + 1
    OBVIOUS
  <2>1. CASE k = m + 1
    BY <1>1, <1>3, <1>8, <2>1
  <2>2. CASE k \in 1 .. m
    <3>1. gaps[k].from <= gaps[k].to /\ gaps[k].to < i /\ gaps[k].to \in 0 .. l
      BY <1>4, <1>6, <1>9, <2>2
    <3> QED BY <1>1, <1>8, <2>2, <3>1
  <2> QED BY <1>10, <2>1, <2>2
<1>12. \A k, j \in 1 .. m + 1 : k < j => more[k].to <= more[j].from
  <2> SUFFICES ASSUME NEW k \in 1 .. m + 1, NEW j \in 1 .. m + 1, k < j
               PROVE  more[k].to <= more[j].from
    OBVIOUS
  <2>1. k \in 1 .. m /\ more[k] = gaps[k]
    BY <1>8
  <2>2. CASE j = m + 1
    <3>1. gaps[k].to < i /\ gaps[k].to \in 0 .. l
      BY <1>4, <1>6, <1>9, <2>1
    <3> QED BY <1>1, <1>3, <1>8, <2>1, <2>2, <3>1
  <2>3. CASE j \in 1 .. m
    BY <1>4, <1>6, <1>8, <2>1, <2>3
  <2> QED BY <1>10, <2>2, <2>3
<1>13. PICK s : s = [k \in 1 .. m + 2 |-> IF k = m + 2 THEN w ELSE stage[k]]
  OBVIOUS
<1>14. s[m + 1 + 1] = w /\ \A k \in 1 .. m + 1 : s[k] = stage[k]
  BY <1>13
<1>15. s[1] = right /\ Mixes(s[m + 1 + 1], left, right, p1, q1)
  <2>1. 1 \in 1 .. m + 1
    OBVIOUS
  <2> QED BY <1>5, <1>14, <2>1
<1>16. ASSUME NEW k \in 1 .. m + 1
       PROVE  s[k] = Replaced(s[k + 1], more[k].from, more[k].to, more[k].insert)
  <2>1. CASE k = m + 1
    <3>1. s[k] = stage[m + 1] /\ s[k + 1] = w
      BY <1>14, <2>1
    <3>2. stage[m + 1] = Replaced(w, i, n, insert)
      BY <1>5, <1>6
    <3> QED BY <1>3, <1>8, <2>1, <3>1, <3>2
  <2>2. CASE k \in 1 .. m
    <3>1. s[k] = stage[k] /\ s[k + 1] = stage[k + 1] /\ more[k] = gaps[k]
      BY <1>8, <1>14, <2>2
    <3>2. stage[k] = Replaced(stage[k + 1], gaps[k].from, gaps[k].to, gaps[k].insert)
      BY <1>5, <1>6, <2>2 DEF Stretches
    <3> QED BY <3>1, <3>2
  <2> QED BY <1>10, <2>1, <2>2
<1>17. Stretches(s, more)
  BY <1>8, <1>16 DEF Stretches
<1>18. GapsUpTo(more, left, right, n + 1, p1, q1)
  BY <1>8, <1>11, <1>12, <1>15, <1>17 DEF GapsUpTo
<1> QED BY <1>2, <1>7, <1>18

\* The gap between an anchor and the next.
LEMMA GapIs ==
  ASSUME NEW left \in Text, NEW right \in Text, NEW on, Anchored(left, right, on),
         NEW i \in 0 .. Len(left), i \in DOMAIN on
  PROVE  \E j \in DOMAIN on :
           /\ j > i /\ \A k \in DOMAIN on : k > i => j <= k
           /\ j - 1 \in i .. Len(left) /\ on[i] \in Nat /\ on[j] - 1 \in on[i] .. Len(right)
           /\ SubSeq(right, on[i] + 1, on[j] - 1) \in Pieces(right)
           /\ Len(SubSeq(right, on[i] + 1, on[j] - 1)) = on[j] - 1 - on[i]
           /\ Gap(right, on, i) = [from |-> i, to |-> j - 1,
                                   insert |-> SubSeq(right, on[i] + 1, on[j] - 1)]
           /\ Gap(right, on, i) \in GapRecords(left, right)
<1>1. PICK l \in Nat, r \in Nat : l = Len(left) /\ r = Len(right)
  BY DEF Text
<1>2. PICK j : j = NextAnchor(on, i)
  OBVIOUS
<1>3. j \in DOMAIN on /\ j > i /\ \A k \in DOMAIN on : k > i => j <= k
  BY <1>2, NextAnchorIs
<1>4. j \in 0 .. l + 1 /\ on[i] \in 0 .. r + 1 /\ on[j] \in 0 .. r + 1 /\ on[i] < on[j]
  BY <1>1, <1>3 DEF Anchored
<1>5. j - 1 \in i .. l /\ on[i] \in Nat /\ on[j] - 1 \in on[i] .. r
  BY <1>1, <1>3, <1>4
<1>6. PICK n \in Nat, m \in Nat : n = on[i] /\ m = on[j] - 1
  BY <1>1, <1>5
<1>7. PICK insert : insert = SubSeq(right, n + 1, m)
  OBVIOUS
<1>8. insert \in Pieces(right) /\ Len(insert) = m - n
  <2>1. n <= m /\ m <= Len(right)
    BY <1>1, <1>5, <1>6
  <2>2. insert \in Text /\ Len(insert) = m - n /\ \A k \in 1 .. m - n : insert[k] = right[n + k]
    BY <1>7, <2>1, SubSeqIs DEF Text
  <2>3. ASSUME Plain(right), NEW k \in DOMAIN insert
        PROVE  insert[k] # CR
    <3>1. k \in 1 .. m - n /\ n + k \in DOMAIN right
      BY <1>1, <2>1, <2>2 DEF Text
    <3> QED BY <2>2, <2>3, <3>1 DEF Plain
  <2>4. Plain(right) => Plain(insert)
    BY <2>3 DEF Plain
  <2> QED BY <2>2, <2>4 DEF Pieces
<1>9. insert = SubSeq(right, on[i] + 1, on[j] - 1)
  BY <1>6, <1>7
<1>10. Gap(right, on, i) = [from |-> i, to |-> j - 1, insert |-> insert]
  BY <1>2, <1>9 DEF Gap
<1>11. Gap(right, on, i) \in GapRecords(left, right)
  BY <1>1, <1>5, <1>8, <1>10 DEF GapRecords
<1> QED BY <1>1, <1>3, <1>5, <1>6, <1>8, <1>9, <1>10, <1>11

\* One turn of the loop over the characters of the left text.
Turn(right, on, i, gaps) == IF i \in DOMAIN on THEN Push(gaps, Gap(right, on, i)) ELSE gaps

\* What the loop has made of the gaps before the first k characters.
Reached(gaps, left, right, on, k) ==
  \E a \in DOMAIN on :
    /\ a >= k /\ \A b \in DOMAIN on : b >= k => a <= b
    /\ GapsUpTo(gaps, left, right, a, CutLeft(left, a), CutRight(left, right, on, a))

\* A turn of the loop keeps the types of the gaps,
LEMMA TurnTyped ==
  ASSUME NEW left \in Text, NEW right \in Text, NEW on, Anchored(left, right, on),
         NEW i \in 0 .. Len(left), NEW gaps \in Seq(GapRecords(left, right))
  PROVE  Turn(right, on, i, gaps) \in Seq(GapRecords(left, right))
<1>1. CASE i \in DOMAIN on
  <2>1. PICK gap : gap = Gap(right, on, i)
    OBVIOUS
  <2>2. gap \in GapRecords(left, right)
    BY <1>1, <2>1, GapIs
  <2>3. Append(gaps, gap) \in Seq(GapRecords(left, right))
    BY <2>2
  <2>4. Turn(right, on, i, gaps) = gaps \/ Turn(right, on, i, gaps) = Append(gaps, gap)
    BY <1>1, <2>1 DEF Turn, Push
  <2> QED BY <2>3, <2>4
<1>2. CASE i \notin DOMAIN on
  BY <1>2 DEF Turn
<1> QED BY <1>1, <1>2

\* and comes one character further.
LEMMA TurnReaches ==
  ASSUME NEW left \in Text, NEW right \in Text, NEW on, Anchored(left, right, on),
         NEW i \in 0 .. Len(left), NEW gaps, Reached(gaps, left, right, on, i)
  PROVE  Reached(Turn(right, on, i, gaps), left, right, on, i + 1)
<1>1. PICK l \in Nat, r \in Nat : l = Len(left) /\ r = Len(right)
  BY DEF Text
<1>2. \A b \in DOMAIN on : b \in 0 .. l + 1
  BY <1>1 DEF Anchored
<1>3. PICK a \in DOMAIN on :
        /\ a >= i /\ \A b \in DOMAIN on : b >= i => a <= b
        /\ GapsUpTo(gaps, left, right, a, CutLeft(left, a), CutRight(left, right, on, a))
  BY DEF Reached
<1>4. CASE i \notin DOMAIN on
  <2>1. Turn(right, on, i, gaps) = gaps
    BY <1>4 DEF Turn
  <2>2. a >= i + 1
    BY <1>1, <1>3, <1>4, <1>2
  <2>3. \A b \in DOMAIN on : b >= i + 1 => a <= b
    BY <1>1, <1>3, <1>2
  <2> QED BY <1>3, <2>1, <2>2, <2>3 DEF Reached
<1>5. CASE i \in DOMAIN on
  <2>1. a = i
    BY <1>1, <1>3, <1>5, <1>2
  <2>2. PICK j \in DOMAIN on :
           /\ j > i /\ \A k \in DOMAIN on : k > i => j <= k
           /\ j - 1 \in i .. Len(left) /\ on[i] \in Nat /\ on[j] - 1 \in on[i] .. Len(right)
           /\ SubSeq(right, on[i] + 1, on[j] - 1) \in Pieces(right)
           /\ Len(SubSeq(right, on[i] + 1, on[j] - 1)) = on[j] - 1 - on[i]
           /\ Gap(right, on, i) = [from |-> i, to |-> j - 1,
                                   insert |-> SubSeq(right, on[i] + 1, on[j] - 1)]
           /\ Gap(right, on, i) \in GapRecords(left, right)
    BY <1>5, GapIs
  <2>3. PICK insert : insert = SubSeq(right, on[i] + 1, on[j] - 1)
    OBVIOUS
  <2>4. PICK gap : gap = [from |-> i, to |-> j - 1, insert |-> insert]
    OBVIOUS
  <2>5. Turn(right, on, i, gaps) = Push(gaps, gap)
    BY <1>5, <2>2, <2>3, <2>4 DEF Turn
  <2>6. gap.from = i /\ gap.to = j - 1 /\ gap.insert = insert
    BY <2>4
  <2>7. PICK p \in Nat, q \in Nat : p = j - 1 /\ q = on[j] - 1
    BY <1>1, <2>2
  <2>8. p \in i .. Len(left) /\ q \in on[i] .. Len(right) /\ p + 1 = j /\ q + 1 = on[j]
        /\ on[i] \in Nat /\ p \in 0 .. Len(left) /\ q \in 0 .. Len(right)
    <3>1. j \in 0 .. l + 1 /\ on[j] \in 0 .. r + 1
      BY <1>1 DEF Anchored
    <3>2. on[i] \in Nat /\ j - 1 \in i .. l /\ on[j] - 1 \in on[i] .. r
      BY <1>1, <2>2
    <3>3. PICK m \in Nat, n \in Nat, o \in Nat : m = j /\ n = on[i] /\ o = on[j]
      BY <1>1, <3>1, <3>2
    <3>4. p \in i .. l /\ q \in n .. r /\ p + 1 = m /\ q + 1 = o /\ p \in 0 .. l /\ q \in 0 .. r
      BY <1>1, <2>7, <3>2, <3>3
    <3> QED BY <1>1, <3>3, <3>4
  <2>9. CutLeft(left, i) = i /\ CutRight(left, right, on, i) = on[i]
    BY <1>1 DEF CutLeft, CutRight
  <2>10. GapsUpTo(gaps, left, right, i, i, on[i])
    BY <1>3, <2>1, <2>9
  <2>11. i \in Nat /\ j \in Nat /\ j > i /\ j > 0
    <3>1. i \in Nat /\ j \in 0 .. l + 1 /\ j > i
      BY <1>1, <1>2, <2>2
    <3> QED BY <1>1, <3>1
  <2>12. j >= i + 1 /\ \A b \in DOMAIN on : b >= i + 1 => j <= b
    <3>1. ASSUME NEW b \in DOMAIN on, b >= i + 1
          PROVE  j <= b
      <4>1. b \in 0 .. l + 1
        BY <1>2
      <4>2. b > i
        BY <1>1, <2>11, <3>1, <4>1
      <4> QED BY <2>2, <4>2
    <3> QED BY <2>11, <3>1
  <2>13. CASE gap.from < gap.to \/ gap.insert # <<>>
    <3>1. Push(gaps, gap) = Append(gaps, gap)
      BY <2>13 DEF Push
    <3>2. PICK w : Mixes(w, left, right, p, q)
      BY <2>8, MixesExist
    <3>3. Mixes(w, left, right, CutLeft(left, j), CutRight(left, right, on, j))
      <4>1. Mixes(w, left, right, j - 1, on[j] - 1) /\ j > 0
        BY <2>7, <2>11, <3>2
      <4> QED BY <4>1, MixesWith
    <3>4. insert = SubSeq(right, on[i] + 1, q)
      BY <2>3, <2>7
    <3>5. Mixes(Replaced(w, i, p, insert), left, right, i, on[i])
      <4>1. PICK n \in Nat : n = on[i]
        BY <2>8
      <4>2. Mixes(Replaced(w, i, p, SubSeq(right, n + 1, q)), left, right, i, n)
        <5>1. i \in Nat /\ q \in n .. Len(right)
          BY <1>1, <2>8, <4>1
        <5> QED BY <2>8, <3>2, <5>1, GapMixes
      <4> QED BY <3>4, <4>1, <4>2
    <3>6. ASSUME NEW v, Mixes(v, left, right, i, on[i])
          PROVE  v = Replaced(w, i, p, insert)
      <4>1. on[i] \in 0 .. Len(right)
        BY <1>1, <2>8
      <4> QED BY <3>5, <3>6, <4>1, MixesUnique
    <3>7. insert \in Pieces(right)
      BY <2>2, <2>3
    <3>8. PICK p1, q1 : p1 = CutLeft(left, j) /\ q1 = CutRight(left, right, on, j)
      OBVIOUS
    <3>9. Mixes(w, left, right, p1, q1)
      BY <3>3, <3>8
    <3>10. \A v : Mixes(v, left, right, i, on[i]) => v = Replaced(w, i, p, insert)
      BY <3>6
    <3>11. GapsUpTo(Append(gaps, [from |-> i, to |-> p, insert |-> insert]), left, right,
                    p + 1, p1, q1)
      BY <2>8, <2>10, <3>7, <3>9, <3>10, GapAdded
    <3>12. GapsUpTo(Append(gaps, gap), left, right, j, p1, q1)
      BY <2>4, <2>7, <2>8, <3>11
    <3> QED BY <2>5, <2>12, <3>1, <3>8, <3>12 DEF Reached
  <2>14. CASE ~ (gap.from < gap.to \/ gap.insert # <<>>)
    <3>1. Push(gaps, gap) = gaps
      BY <2>14 DEF Push
    <3>2. p = i
      BY <1>1, <2>6, <2>7, <2>8, <2>14
    <3>3. q = on[i]
      <4>1. insert = <<>> /\ Len(insert) = q - on[i]
        BY <2>2, <2>3, <2>6, <2>7, <2>14
      <4>2. Len(insert) = 0
        BY <4>1
      <4> QED BY <2>8, <4>1, <4>2
    <3>4. GapsUpTo(gaps, left, right, i, j - 1, on[j] - 1)
      BY <2>7, <2>10, <3>2, <3>3
    <3>5. GapsUpTo(gaps, left, right, j, CutLeft(left, j), CutRight(left, right, on, j))
      <4>1. PICK stage : /\ stage[1] = right
                         /\ Mixes(stage[Len(gaps) + 1], left, right, j - 1, on[j] - 1)
                         /\ Stretches(stage, gaps)
        BY <3>4 DEF GapsUpTo
      <4>2. Mixes(stage[Len(gaps) + 1], left, right, CutLeft(left, j),
                  CutRight(left, right, on, j))
        <5>1. PICK w : w = stage[Len(gaps) + 1]
          OBVIOUS
        <5>2. j > 0 /\ Mixes(w, left, right, j - 1, on[j] - 1)
          BY <2>11, <4>1, <5>1
        <5>3. Mixes(w, left, right, CutLeft(left, j), CutRight(left, right, on, j))
          BY <5>2, MixesWith
        <5> QED BY <5>1, <5>3
      <4>3. /\ gaps \in Seq(GapRecords(left, right))
            /\ \A k \in 1 .. Len(gaps) : gaps[k].from <= gaps[k].to /\ gaps[k].to < i
            /\ \A k, n \in 1 .. Len(gaps) : k < n => gaps[k].to <= gaps[n].from
        BY <3>4 DEF GapsUpTo
      <4>4. \A k \in 1 .. Len(gaps) : gaps[k].from <= gaps[k].to /\ gaps[k].to < j
        <5> SUFFICES ASSUME NEW k \in 1 .. Len(gaps)
                     PROVE  gaps[k].from <= gaps[k].to /\ gaps[k].to < j
          OBVIOUS
        <5>1. gaps[k] \in GapRecords(left, right) /\ gaps[k].from <= gaps[k].to /\ gaps[k].to < i
          BY <4>3
        <5>2. gaps[k].to \in 0 .. l
          BY <1>1, <5>1 DEF GapRecords
        <5> QED BY <1>1, <1>2, <2>2, <5>1, <5>2
      <4> QED BY <4>1, <4>2, <4>3, <4>4 DEF GapsUpTo
    <3> QED BY <2>5, <2>12, <3>1, <3>5 DEF Reached
  <2> QED BY <2>13, <2>14
<1> QED BY <1>4, <1>5

\* Before the loop there is no gap, and the mixed text is the right one.
LEMMA FirstReached ==
  ASSUME NEW left \in Text, NEW right \in Text, NEW on, Anchored(left, right, on)
  PROVE  Reached(<<>>, left, right, on, 0)
<1>1. PICK l \in Nat, r \in Nat : l = Len(left) /\ r = Len(right)
  BY DEF Text
<1>2. 0 \in DOMAIN on /\ on[0] = 0 /\ \A b \in DOMAIN on : b \in 0 .. l + 1
  BY <1>1 DEF Anchored
<1>3. \A b \in DOMAIN on : b >= 0 => 0 <= b
  BY <1>1, <1>2
<1>4. PICK stage : stage = [i \in {1} |-> right]
  OBVIOUS
<1>5. stage[1] = right
  BY <1>4
<1>6. Mixes(right, left, right, 0, 0)
  <2>1. 0 + (r - 0) = r /\ \A y \in 1 .. r - 0 : 0 + y = y
    OBVIOUS
  <2>2. \A y \in 1 .. r - 0 : right[0 + y] = right[0 + y]
    OBVIOUS
  <2>3. \A x \in 1 .. 0 : right[x] = left[x]
    OBVIOUS
  <2>4. Len(right) = 0 + (Len(right) - 0)
    BY <1>1
  <2>5. right \in Text
    OBVIOUS
  <2> QED BY <1>1, <2>2, <2>3, <2>4, <2>5 DEF Mixes
<1>7. Len(<<>>) + 1 = 1 /\ Len(<<>>) = 0 /\ <<>> \in Seq(GapRecords(left, right))
  OBVIOUS
<1>8. GapsUpTo(<<>>, left, right, 0, 0, 0)
  <2>1. Mixes(stage[Len(<<>>) + 1], left, right, 0, 0)
    BY <1>5, <1>6, <1>7
  <2>2. \A i \in 1 .. Len(<<>>) : FALSE
    BY <1>7
  <2>3. Stretches(stage, <<>>)
    BY <2>2 DEF Stretches
  <2> QED BY <1>5, <1>7, <2>1, <2>2, <2>3 DEF GapsUpTo
<1>9. CutLeft(left, 0) = 0 /\ CutRight(left, right, on, 0) = 0
  BY <1>1, <1>2 DEF CutLeft, CutRight
<1>10. 0 >= 0
  OBVIOUS
<1> QED BY <1>2, <1>3, <1>8, <1>9, <1>10 DEF Reached

\* The edits of a diff, in their order, and what they make of the left text.
LEMMA IndelsAre ==
  ASSUME NEW left \in Text, NEW right \in Text, NEW keep \in Diffs(left, right)
  PROVE  GapsUpTo(Indels(left, right, keep), left, right, Len(left) + 1, Len(left), Len(right))
<1>1. PICK l \in Nat : l = Len(left)
  BY DEF Text
<1>2. PICK on : on = Anchors(left, right, keep)
  OBVIOUS
<1>3. Anchored(left, right, on)
  BY <1>2, DiffsKeep, AnchorsAre
<1> DEFINE I == 1 .. l + 1
           D == Seq(GapRecords(left, right))
           Make(n, v) == Turn(right, on, n - 1, v)
           c == [s \in SUBSET I |-> Max(s)]
           g == [x \in I \X D |-> Make(x[1], x[2])]
           R == [s \in SUBSET I |->
                   {v \in D : \A j \in 0 .. l + 1 : s = 1 .. j => Reached(v, left, right, on, j)}]
           Fold(iter) == iter = [s \in SUBSET I |->
                                   IF s = {} THEN <<>> ELSE Make(Max(s), iter[s \ {Max(s)}])]
<1>4. IsFiniteSet(I) /\ l + 1 \in Nat
  BY FS_Interval
<1>5. \A s \in SUBSET I : s # {} => c[s] \in s /\ c[s] = Max(s)
  <2>1. ASSUME NEW s \in SUBSET I, s # {}
        PROVE  Max(s) \in s
    BY <1>4, <2>1, MaxOf
  <2> QED BY <2>1
<1>6. \A s \in SUBSET I : \A v : v \in R[s] <=>
         /\ v \in D
         /\ \A j \in 0 .. l + 1 : s = 1 .. j => Reached(v, left, right, on, j)
  OBVIOUS
<1>7. \A n \in I, v \in D : g[<<n, v>>] = Make(n, v) /\ Make(n, v) \in D
  <2> SUFFICES ASSUME NEW n \in I, NEW v \in D
               PROVE  g[<<n, v>>] = Make(n, v) /\ Make(n, v) \in D
    OBVIOUS
  <2>1. <<n, v>> \in I \X D /\ <<n, v>>[1] = n /\ <<n, v>>[2] = v
    OBVIOUS
  <2>2. g[<<n, v>>] = Make(n, v)
    BY <2>1, Zenon
  <2>3. PICK i \in 0 .. Len(left) : i = n - 1
    BY <1>1
  <2>4. Turn(right, on, i, v) \in Seq(GapRecords(left, right))
    BY <1>3, TurnTyped
  <2> QED BY <2>2, <2>3, <2>4
<1>8. <<>> \in R[{}]
  <2>1. <<>> \in D
    OBVIOUS
  <2>2. ASSUME NEW j \in 0 .. l + 1, {} = 1 .. j
        PROVE  Reached(<<>>, left, right, on, j)
    <3>1. j = 0
      <4>1. CASE j >= 1
        <5>1. 1 \in 1 .. j
          BY <4>1
        <5> QED BY <2>2, <5>1
      <4> QED BY <4>1
    <3> QED BY <1>3, <3>1, FirstReached
  <2>3. {} \in SUBSET I
    OBVIOUS
  <2> HIDE DEF R, D
  <2> QED BY <1>6, <2>1, <2>2, <2>3
<1>9. ASSUME NEW s \in SUBSET I, s # {}, NEW v \in R[s \ {Max(s)}]
      PROVE  Make(Max(s), v) \in R[s]
  <2>1. Max(s) \in s /\ Max(s) \in I /\ \A n \in s : n <= Max(s)
    BY <1>4, <1>9, MaxOf
  <2>2. s \ {Max(s)} \in SUBSET I
    OBVIOUS
  <2>3. /\ v \in D
        /\ \A j \in 0 .. l + 1 : s \ {Max(s)} = 1 .. j => Reached(v, left, right, on, j)
    <3> HIDE DEF R, D
    <3> QED BY <1>6, <2>2
  <2>4. Make(Max(s), v) \in D
    <3> HIDE DEF R, D, Make
    <3> QED BY <1>7, <2>1, <2>3
  <2>5. ASSUME NEW j \in 0 .. l + 1, s = 1 .. j
        PROVE  Reached(Make(Max(s), v), left, right, on, j)
    <3>1. j \in 1 .. l + 1
      BY <1>9, <2>5
    <3>2. Max(s) = j
      <4>1. j \in s
        BY <2>5, <3>1
      <4> QED BY <2>1, <2>5, <4>1
    <3>3. PICK i \in 0 .. Len(left) : i = j - 1
      BY <1>1, <3>1
    <3>4. s \ {j} = 1 .. i /\ i + 1 = j /\ i \in 0 .. l + 1
      BY <1>1, <2>5, <3>1, <3>3
    <3>5. Reached(v, left, right, on, i)
      BY <2>3, <3>2, <3>4
    <3>6. Reached(Turn(right, on, i, v), left, right, on, i + 1)
      BY <1>3, <3>5, TurnReaches
    <3> QED BY <3>2, <3>3, <3>4, <3>6
  <2> HIDE DEF R, D, Make
  <2> QED BY <1>6, <2>4, <2>5
<1>10. \E iter : Fold(iter)
  <2> HIDE DEF I, c, g, R, Make
  <2>1. PICK iter : /\ Iterates(iter, I, <<>>, c, g)
                    /\ \A s \in SUBSET I : iter[s] \in R[s]
    <3>1. \A s \in SUBSET I : s # {} => \A v \in R[s \ {c[s]}] : g[<<c[s], v>>] \in R[s]
      <4>1. ASSUME NEW s \in SUBSET I, s # {}, NEW v \in R[s \ {c[s]}]
            PROVE  g[<<c[s], v>>] \in R[s]
        <5>1. c[s] \in s /\ c[s] \in I /\ c[s] = Max(s) /\ s \ {c[s]} \in SUBSET I
          BY <4>1, <1>5
        <5>2. v \in D
          BY <1>6, <5>1
        <5>3. g[<<c[s], v>>] = Make(c[s], v)
          BY <5>1, <5>2, <1>7
        <5> QED BY <4>1, <5>1, <5>3, <1>9
      <4> QED BY <4>1
    <3>2. \A s \in SUBSET I : s # {} => c[s] \in s
      BY <1>5
    <3> QED BY <1>4, <1>8, <3>1, <3>2, IterationTyped
  <2>2. ASSUME NEW s \in SUBSET I, s # {}
        PROVE  g[<<c[s], iter[s \ {c[s]}]>>] = Make(Max(s), iter[s \ {Max(s)}])
    <3>1. c[s] \in I /\ c[s] = Max(s) /\ s \ {c[s]} \in SUBSET I
      BY <2>2, <1>5
    <3>2. iter[s \ {c[s]}] \in D
      BY <1>6, <2>1, <3>1
    <3> QED BY <1>7, <3>1, <3>2
  <2>3. Fold(iter)
    BY <2>1, <2>2, Zenon DEF Iterates
  <2> QED BY <2>3
<1> DEFINE Loop(iter) ==
             iter = [s \in SUBSET I |->
                       IF s = {} THEN <<>>
                       ELSE LET x == Max(s)
                            IN  IF [n \in 1 .. l + 1 |-> n - 1][x] \in DOMAIN on
                                THEN Push(iter[s \ {x}], Gap(right, on, [n \in 1 .. l + 1 |-> n - 1][x]))
                                ELSE iter[s \ {x}]]
<1>11. PICK it : it = CHOOSE iter : Loop(iter)
  OBVIOUS
<1>12. Indels(left, right, keep) = it[I]
  BY <1>1, <1>2, <1>11 DEF Indels, FoldLeft, MapThenFoldSet
<1>13. ASSUME NEW iter
       PROVE  Loop(iter) <=> Fold(iter)
  <2>1. ASSUME NEW s \in SUBSET I, s # {}
        PROVE  Make(Max(s), iter[s \ {Max(s)}]) =
                 LET x == Max(s)
                 IN  IF [n \in 1 .. l + 1 |-> n - 1][x] \in DOMAIN on
                     THEN Push(iter[s \ {x}], Gap(right, on, [n \in 1 .. l + 1 |-> n - 1][x]))
                     ELSE iter[s \ {x}]
    <3>1. PICK x \in 1 .. l + 1 : x = Max(s)
      BY <2>1, <1>5
    <3>2. [n \in 1 .. l + 1 |-> n - 1][x] = x - 1
      OBVIOUS
    <3> QED BY <3>1, <3>2, Zenon DEF Turn
  <2>2. [s \in SUBSET I |-> IF s = {} THEN <<>> ELSE Make(Max(s), iter[s \ {Max(s)}])] =
          [s \in SUBSET I |->
             IF s = {} THEN <<>>
             ELSE LET x == Max(s)
                  IN  IF [n \in 1 .. l + 1 |-> n - 1][x] \in DOMAIN on
                      THEN Push(iter[s \ {x}], Gap(right, on, [n \in 1 .. l + 1 |-> n - 1][x]))
                      ELSE iter[s \ {x}]]
    <3> HIDE DEF I, Make
    <3> QED BY <2>1, Zenon
  <2> HIDE DEF I, Make
  <2> QED BY <2>2
<1>14. Fold(it)
  <2> HIDE DEF Fold, Loop
  <2> QED BY <1>10, <1>11, <1>13
<1> DEFINE P == {s \in SUBSET I : it[s] \in R[s]}
<1>15. SUBSET I \subseteq P
  <2>1. {} \in P
    BY <1>8, <1>14
  <2>2. ASSUME NEW s \in SUBSET I, s # {}
        PROVE  \E x \in s : s \ {x} \in P => s \in P
    <3>1. Max(s) \in s
      BY <2>2, <1>5
    <3>2. it[s] = Make(Max(s), it[s \ {Max(s)}])
      BY <1>14, <2>2
    <3>3. s \ {Max(s)} \in P => s \in P
      <4> HIDE DEF R, Make
      <4> QED BY <1>9, <2>2, <3>2
    <3> QED BY <3>1, <3>3
  <2> HIDE DEF P, I
  <2> QED BY <1>4, <2>1, <2>2, SubsetInduction
<1>16. it[I] \in R[I]
  <2>1. I \in P
    BY <1>15
  <2> QED BY <2>1
<1>17. l + 1 \in 0 .. l + 1 /\ I = 1 .. l + 1 /\ I \in SUBSET I
  OBVIOUS
<1>18. Reached(it[I], left, right, on, l + 1)
  <2> HIDE DEF R, I
  <2> QED BY <1>6, <1>16, <1>17
<1>19. PICK a \in DOMAIN on :
         /\ a >= l + 1
         /\ GapsUpTo(it[I], left, right, a, CutLeft(left, a), CutRight(left, right, on, a))
  BY <1>18 DEF Reached
<1>20. a = Len(left) + 1
  BY <1>1, <1>3, <1>19 DEF Anchored
<1>21. CutLeft(left, a) = Len(left) /\ CutRight(left, right, on, a) = Len(right)
  BY <1>1, <1>20 DEF CutLeft, CutRight
<1> QED BY <1>12, <1>19, <1>20, <1>21

-----------------------------------------------------------------------------
(* The edits of an answer *)

\* The editor's texts are as it reads them.
LEMMA EditorTextSame ==
  ASSUME NEW t \in EditorTexts
  PROVE  EditorText(t) = t
<1>1. t \in Text /\ t \in Seq(Char) /\ \A i \in DOMAIN t : t[i] # CR
  BY DEF EditorTexts, Text, Plain
<1>2. Normalize(t) = t
  <2>1. \A i \in DOMAIN t : ~CarriageAt(t, i)
    BY <1>1 DEF CarriageAt
  <2> QED BY <1>1, <2>1, NothingToNormalize
<1>3. EditorText(t) = [i \in DOMAIN t |-> t[i]]
  BY <1>1, <1>2 DEF EditorText
<1> QED BY <1>1, <1>3

\* What the editor reads of what the server has written.
LEMMA ReadBack ==
  ASSUME NEW t \in EditorTexts, NEW endings
  PROVE  EditorText(WithEndings(t, endings)) = t
<1>1. PICK w : w = WithEndings(t, endings)
  OBVIOUS
<1>2. Normalize(w) = t
  BY <1>1, WrittenIs
<1>3. EditorText(t) = t
  BY EditorTextSame
<1>4. t \in Text /\ Normalize(t) = t
  <2>1. t \in Text /\ \A i \in DOMAIN t : t[i] # CR
    BY DEF EditorTexts, Plain
  <2>2. \A i \in DOMAIN t : ~CarriageAt(t, i)
    BY <2>1 DEF CarriageAt, Text
  <2> QED BY <2>1, <2>2, NothingToNormalize
<1>5. EditorText(w) = EditorText(t)
  BY <1>2, <1>4 DEF EditorText
<1> QED BY <1>1, <1>3, <1>5

\* Gaps in their order.
Ordered(gaps, left) ==
  /\ \A i \in 1 .. Len(gaps) : /\ gaps[i].from \in 0 .. Len(left)
                               /\ gaps[i].to \in gaps[i].from .. Len(left)
                               /\ gaps[i].insert \in Text
  /\ \A i, j \in 1 .. Len(gaps) : i < j => gaps[i].to <= gaps[j].from

\* The edits of gaps are edits of the text, and each says what its gap says.
EditsOf(edits, gaps, from, to, endings) ==
  /\ Len(edits) = Len(gaps)
  /\ \A i \in 1 .. Len(gaps) : /\ from[i] = gaps[i].from /\ to[i] = gaps[i].to
                               /\ edits[i].text = WithEndings(gaps[i].insert, endings)

\* The edits are at the positions of the gaps.
LEMMA TextEditsAre ==
  ASSUME NEW t \in EditorTexts, NEW S, NEW gaps \in Seq(S), Ordered(gaps, t), NEW enc, NEW endings
  PROVE  \E from, to : /\ EditsFor(t, TextEdits(t, gaps, enc, endings), from, to, enc)
                       /\ EditsOf(TextEdits(t, gaps, enc, endings), gaps, from, to, endings)
<1>1. PICK m \in Nat : m = Len(gaps)
  OBVIOUS
<1>2. t \in Text /\ DOMAIN gaps = 1 .. m
  BY <1>1 DEF EditorTexts
<1> DEFINE Made(i) == [range |-> <<PositionAt(t, gaps[i].from, enc), PositionAt(t, gaps[i].to, enc)>>,
                       text  |-> WithEndings(gaps[i].insert, endings)]
<1>3. PICK edits : edits = TextEdits(t, gaps, enc, endings)
  OBVIOUS
<1>4. edits = [i \in 1 .. m |-> Made(i)]
  BY <1>2, <1>3 DEF TextEdits
<1>5. ASSUME NEW i \in 1 .. m
      PROVE  /\ Made(i) \in Change
             /\ Made(i).range = <<PositionAt(t, gaps[i].from, enc), PositionAt(t, gaps[i].to, enc)>>
             /\ Made(i).text = WithEndings(gaps[i].insert, endings)
  <2>1. gaps[i].from \in 0 .. Len(t) /\ gaps[i].to \in 0 .. Len(t) /\ gaps[i].insert \in Text
    <3>1. gaps[i].from \in 0 .. Len(t) /\ gaps[i].to \in gaps[i].from .. Len(t)
      BY <1>1 DEF Ordered
    <3>2. Len(t) \in Nat /\ gaps[i].insert \in Text
      BY <1>1, <1>2 DEF Text, Ordered
    <3> QED BY <3>1, <3>2
  <2>2. PositionAt(t, gaps[i].from, enc) \in Position
    BY <1>2, <2>1, PositionTyped
  <2>3. PositionAt(t, gaps[i].to, enc) \in Position
    BY <1>2, <2>1, PositionTyped
  <2>4. WithEndings(gaps[i].insert, endings) \in Text
    <3>1. Carriaged(gaps[i].insert) \in Text
      BY <2>1, CarriagedAs
    <3> QED BY <2>1, <3>1 DEF WithEndings
  <2> QED BY <2>2, <2>3, <2>4 DEF Change, Text
<1>6. /\ edits \in Seq(Change) /\ Len(edits) = m
      /\ \A i \in 1 .. m :
           /\ edits[i].range = <<PositionAt(t, gaps[i].from, enc), PositionAt(t, gaps[i].to, enc)>>
           /\ edits[i].text = WithEndings(gaps[i].insert, endings)
  <2> HIDE DEF Made
  <2>1. \A i \in 1 .. m : edits[i] = Made(i)
    BY <1>4
  <2>2. edits \in Seq(Change) /\ Len(edits) = m
    BY <1>4, <1>5
  <2> QED BY <1>5, <2>1, <2>2
<1>7. PICK from, to : /\ from = [i \in 1 .. m |-> gaps[i].from]
                      /\ to = [i \in 1 .. m |-> gaps[i].to]
  OBVIOUS
<1>8. \A i \in 1 .. m : from[i] = gaps[i].from /\ to[i] = gaps[i].to
  BY <1>7
<1>9. \A i \in 1 .. m : from[i] \in 0 .. Len(t) /\ to[i] \in from[i] .. Len(t)
  BY <1>1, <1>8 DEF Ordered
<1>10. \A i, j \in 1 .. m : i < j => to[i] <= from[j]
  BY <1>1, <1>8 DEF Ordered
<1>11. \A i \in 1 .. m : edits[i].range = <<PositionAt(t, from[i], enc), PositionAt(t, to[i], enc)>>
  BY <1>6, <1>8
<1>12. EditsFor(t, edits, from, to, enc)
  BY <1>6, <1>9, <1>10, <1>11 DEF EditsFor
<1>13. EditsOf(edits, gaps, from, to, endings)
  BY <1>1, <1>6, <1>8 DEF EditsOf
<1> QED BY <1>3, <1>12, <1>13

\* A text that the edits lead to is the one the editor has when it has made them.
LEMMA EditedAs ==
  ASSUME NEW t \in EditorTexts, encoding \in Encodings, NEW endings,
         NEW edits, NEW gaps, NEW from, NEW to,
         EditsFor(t, edits, from, to, encoding), EditsOf(edits, gaps, from, to, endings),
         \A i \in 1 .. Len(gaps) : gaps[i].insert \in EditorTexts,
         NEW stage, stage[Len(gaps) + 1] = t, Stretches(stage, gaps)
  PROVE  Edited(t, edits) = stage[1]
<1>1. edits \in Seq(Change) /\ Len(edits) = Len(gaps)
  BY DEF EditsFor, EditsOf
<1>2. PICK m \in Nat : m = Len(edits) /\ m = Len(gaps)
  BY <1>1
<1>3. PICK made : Stages(made, t, edits, from, to) /\ Edited(t, edits) = made[1]
  BY EditedIs
<1>4. made[m + 1] = t /\ \A i \in 1 .. m :
        made[i] = Replaced(made[i + 1], from[i], to[i], EditorText(edits[i].text))
  BY <1>2, <1>3 DEF Stages
<1>5. ASSUME NEW i \in 1 .. m
      PROVE  made[i] = Replaced(made[i + 1], gaps[i].from, gaps[i].to, gaps[i].insert)
  <2>1. from[i] = gaps[i].from /\ to[i] = gaps[i].to
        /\ edits[i].text = WithEndings(gaps[i].insert, endings)
    BY <1>2 DEF EditsOf
  <2>2. gaps[i].insert \in EditorTexts
    BY <1>2
  <2>3. EditorText(edits[i].text) = gaps[i].insert
    BY <2>1, <2>2, ReadBack
  <2> QED BY <1>4, <2>1, <2>3
<1> DEFINE Q == {n \in Nat : n <= m => made[m + 1 - n] = stage[m + 1 - n]}
<1>6. 0 \in Q
  BY <1>2, <1>4
<1>7. ASSUME NEW n \in Nat, n \in Q
      PROVE  n + 1 \in Q
  <2>1. CASE n + 1 <= m
    <3>1. PICK i \in 1 .. m : i = m + 1 - (n + 1)
      BY <2>1
    <3>2. m + 1 - n = i + 1 /\ n <= m
      BY <2>1, <3>1
    <3>3. made[i + 1] = stage[i + 1]
      BY <1>7, <3>2
    <3>4. stage[i] = Replaced(stage[i + 1], gaps[i].from, gaps[i].to, gaps[i].insert)
      BY <1>2 DEF Stretches
    <3>5. made[i] = stage[i]
      BY <1>5, <3>3, <3>4
    <3> QED BY <3>1, <3>5
  <2>2. CASE ~ n + 1 <= m
    BY <2>2
  <2> QED BY <2>1, <2>2
<1>8. m \in Q
  <2> HIDE DEF Q
  <2> QED BY <1>6, <1>7, NatInductionSet
<1>9. made[1] = stage[1]
  <2>1. m + 1 - m = 1
    OBVIOUS
  <2> QED BY <1>8, <2>1
<1> QED BY <1>3, <1>9

\* The edits of an answer are edits of the text; without carriage returns in the
\* formatted text, they make that of it.
Gives(t, edits, text, enc) ==
  \E gaps, from, to, endings :
    /\ EditsFor(t, edits, from, to, enc) /\ EditsOf(edits, gaps, from, to, endings)
    /\ Setting # "Crlf" =>
         /\ text \in EditorTexts
         /\ \A i \in 1 .. Len(gaps) : gaps[i].insert \in EditorTexts
         /\ \E stage : stage[1] = text /\ stage[Len(gaps) + 1] = t /\ Stretches(stage, gaps)

\* So they do for the editor.
LEMMA GivesText ==
  ASSUME NEW t \in EditorTexts, encoding \in Encodings, NEW edits, NEW text,
         Gives(t, edits, text, encoding), Setting # "Crlf"
  PROVE  Edited(t, edits) = EditorText(text)
<1>1. PICK gaps, from, to, endings :
         /\ EditsFor(t, edits, from, to, encoding) /\ EditsOf(edits, gaps, from, to, endings)
         /\ text \in EditorTexts
         /\ \A i \in 1 .. Len(gaps) : gaps[i].insert \in EditorTexts
         /\ \E stage : stage[1] = text /\ stage[Len(gaps) + 1] = t /\ Stretches(stage, gaps)
  BY DEF Gives
<1>2. PICK stage : stage[1] = text /\ stage[Len(gaps) + 1] = t /\ Stretches(stage, gaps)
  BY <1>1
<1>3. Edited(t, edits) = stage[1]
  BY <1>1, <1>2, EditedAs
<1>4. EditorText(text) = text
  BY <1>1, EditorTextSame
<1> QED BY <1>2, <1>3, <1>4

\* The edits that take the whole text to the formatted one.
LEMMA WholeAnswer ==
  ASSUME NEW t \in EditorTexts, NEW text \in Text, Setting # "Crlf" => text \in EditorTexts,
         NEW keep \in Diffs(t, text), NEW enc, NEW endings
  PROVE  Gives(t, TextEdits(t, Indels(t, text, keep), enc, endings), text, enc)
<1>1. t \in Text /\ Len(t) \in Nat /\ Len(text) \in Nat
  BY DEF EditorTexts, Text
<1>2. PICK gaps : gaps = Indels(t, text, keep)
  OBVIOUS
<1>3. GapsUpTo(gaps, t, text, Len(t) + 1, Len(t), Len(text))
  BY <1>1, <1>2, IndelsAre
<1>4. gaps \in Seq(GapRecords(t, text))
  BY <1>3 DEF GapsUpTo
<1>5. PICK m \in Nat : m = Len(gaps)
  BY <1>4
<1>6. ASSUME NEW i \in 1 .. m
      PROVE  /\ gaps[i].from \in 0 .. Len(t) /\ gaps[i].to \in gaps[i].from .. Len(t)
             /\ gaps[i].insert \in Text /\ (Plain(text) => Plain(gaps[i].insert))
  <2>1. gaps[i] \in GapRecords(t, text) /\ gaps[i].from <= gaps[i].to
    BY <1>3, <1>4, <1>5 DEF GapsUpTo
  <2>2. gaps[i].from \in 0 .. Len(t) /\ gaps[i].to \in 0 .. Len(t) /\ gaps[i].insert \in Pieces(text)
    BY <2>1 DEF GapRecords
  <2> QED BY <1>1, <2>1, <2>2 DEF Pieces
<1>7. \A i, j \in 1 .. Len(gaps) : i < j => gaps[i].to <= gaps[j].from
  BY <1>3 DEF GapsUpTo
<1>8. Ordered(gaps, t)
  BY <1>5, <1>6, <1>7 DEF Ordered
<1>9. PICK edits : edits = TextEdits(t, gaps, enc, endings)
  OBVIOUS
<1>10. PICK from, to : EditsFor(t, edits, from, to, enc) /\ EditsOf(edits, gaps, from, to, endings)
  BY <1>4, <1>8, <1>9, TextEditsAre
<1>11. ASSUME Setting # "Crlf"
       PROVE  /\ text \in EditorTexts
              /\ \A i \in 1 .. Len(gaps) : gaps[i].insert \in EditorTexts
              /\ \E stage : /\ stage[1] = text /\ stage[Len(gaps) + 1] = t
                            /\ Stretches(stage, gaps)
  <2>1. text \in EditorTexts /\ Plain(text)
    BY <1>11 DEF EditorTexts
  <2>2. \A i \in 1 .. Len(gaps) : gaps[i].insert \in EditorTexts
    BY <1>5, <1>6, <2>1 DEF EditorTexts
  <2>3. PICK stage : /\ stage[1] = text /\ Stretches(stage, gaps)
                     /\ Mixes(stage[Len(gaps) + 1], t, text, Len(t), Len(text))
    BY <1>3 DEF GapsUpTo
  <2>4. Mixes(t, t, text, Len(t), Len(text))
    <3>1. \A y \in 1 .. Len(text) - Len(text) : FALSE
      BY <1>1
    <3>2. Len(t) = Len(t) + (Len(text) - Len(text))
      BY <1>1
    <3> QED BY <1>1, <3>1, <3>2 DEF Mixes
  <2>5. stage[Len(gaps) + 1] = t
    <3>1. Len(t) \in 0 .. Len(t) /\ Len(text) \in 0 .. Len(text)
      BY <1>1
    <3> QED BY <1>1, <2>3, <2>4, <3>1, MixesUnique
  <2> QED BY <2>1, <2>2, <2>3, <2>5
<1>12. Gives(t, edits, text, enc)
  BY <1>10, <1>11 DEF Gives
<1> QED BY <1>2, <1>9, <1>12

\* The edit that replaces the lines of a selection.
LEMMA RangeAnswer ==
  ASSUME NEW t \in EditorTexts, NEW from \in 0 .. Len(t), NEW to \in from .. Len(t),
         NEW lines \in Text, Setting # "Crlf" => lines \in EditorTexts, NEW enc, NEW endings
  PROVE  Gives(t, TextEdits(t, <<[from |-> from, to |-> to, insert |-> lines]>>, enc, endings),
               Replaced(t, from, to, lines), enc)
<1>1. PICK gap : gap = [from |-> from, to |-> to, insert |-> lines]
  OBVIOUS
<1>2. gap.from = from /\ gap.to = to /\ gap.insert = lines
  BY <1>1
<1>3. PICK gaps : gaps = <<gap>>
  OBVIOUS
<1>4. gaps \in Seq({gap}) /\ Len(gaps) = 1 /\ gaps[1] = gap /\ 1 .. 1 = {1}
  BY <1>3
<1>5. Ordered(gaps, t)
  <2>1. \A i \in 1 .. Len(gaps) : gaps[i] = gap
    BY <1>4
  <2>2. \A i, j \in 1 .. Len(gaps) : ~ i < j
    BY <1>4
  <2> QED BY <1>2, <2>1, <2>2 DEF Ordered
<1>6. PICK edits : edits = TextEdits(t, gaps, enc, endings)
  OBVIOUS
<1>7. PICK f, g : EditsFor(t, edits, f, g, enc) /\ EditsOf(edits, gaps, f, g, endings)
  BY <1>4, <1>5, <1>6, TextEditsAre
<1>8. PICK text : text = Replaced(t, from, to, lines)
  OBVIOUS
<1>9. ASSUME Setting # "Crlf"
      PROVE  /\ text \in EditorTexts
             /\ \A i \in 1 .. Len(gaps) : gaps[i].insert \in EditorTexts
             /\ \E stage : /\ stage[1] = text /\ stage[Len(gaps) + 1] = t
                           /\ Stretches(stage, gaps)
  <2>1. lines \in EditorTexts
    BY <1>9
  <2>2. text \in EditorTexts
    BY <1>8, <2>1, ReplacedText
  <2>3. PICK stage : stage = [i \in 1 .. 2 |-> IF i = 1 THEN text ELSE t]
    OBVIOUS
  <2>4. stage[1] = text /\ stage[1 + 1] = t
    BY <2>3
  <2>5. Stretches(stage, gaps)
    BY <1>2, <1>4, <1>8, <2>4 DEF Stretches
  <2> QED BY <1>2, <1>4, <2>1, <2>2, <2>4, <2>5
<1>10. Gives(t, edits, text, enc)
  BY <1>7, <1>9 DEF Gives
<1> QED BY <1>1, <1>3, <1>6, <1>8, <1>10

\* A text without its last character, as for a cell of a notebook.
LEMMA FrontIs ==
  ASSUME NEW t \in Text
  PROVE  Front(t) \in Text /\ (t \in EditorTexts => Front(t) \in EditorTexts)
<1>1. PICK n \in Nat : n = Len(t)
  BY DEF Text
<1>2. /\ SubSeq(t, 1, n - 1) \in Text
      /\ \A i \in DOMAIN SubSeq(t, 1, n - 1) : SubSeq(t, 1, n - 1)[i] = t[i] /\ i \in DOMAIN t
  BY <1>1 DEF Text
<1>3. Front(t) = SubSeq(t, 1, n - 1)
  BY <1>1 DEF Front
<1>4. ASSUME t \in EditorTexts
      PROVE  Front(t) \in EditorTexts
  BY <1>2, <1>3, <1>4 DEF EditorTexts, Plain
<1> QED BY <1>2, <1>3, <1>4

\* What the formatter gives, in the line endings it is written in.
LEMMA FormattedIs ==
  ASSUME NEW t \in EditorTexts, NEW formatted \in Formatted, document.contents = t
  PROVE  /\ WithEndings(formatted, FormatEndings) \in Text
         /\ Setting # "Crlf" => WithEndings(formatted, FormatEndings) \in EditorTexts
<1>1. formatted \in EditorTexts
  BY TextsAssumption DEF EditorTexts, Text, Plain
<1>2. WithEndings(formatted, FormatEndings) \in Text
  BY <1>1, WrittenIs
<1>3. ASSUME Setting # "Crlf"
      PROVE  WithEndings(formatted, FormatEndings) = formatted
  <2>1. Infer(t) = "Lf"
    BY DEF EditorTexts, Plain, Infer, CarriageAt
  <2>2. FormatEndings # "Crlf"
    BY <1>3, <2>1 DEF FormatEndings
  <2> QED BY <2>2 DEF WithEndings
<1> QED BY <1>1, <1>2, <1>3

\* The text of a cell of a notebook.
LEMMA NotebookTextIs ==
  ASSUME NEW t \in Text
  PROVE  NotebookText(t) \in Text /\ (t \in EditorTexts => NotebookText(t) \in EditorTexts)
BY FrontIs DEF NotebookText

-----------------------------------------------------------------------------
(* The messages on their way *)

\* What the editor sends.
Messages ==
  [method : {"didOpen"}, text : Text, version : Nat]
    \cup [method : {"didChange"}, changes : Seq(Change), version : Nat]
    \cup [method : {"didClose", "formatting"}]

\* What the editor has said of the document: whether it is open, with what text.
Views == [open : BOOLEAN, text : EditorTexts, version : Nat]

\* The server's document is what the editor has said.
Shows(view, doc) ==
  /\ view.open <=> doc # Closed
  /\ doc # Closed => view.text = doc.contents /\ view.version = doc.version

\* What a message says, after what has been said before.
Becomes(before, m, after, enc) ==
  \/ /\ m.method = "didOpen"
     /\ after.open /\ m.version = after.version
     /\ \E endings : m.text = WithEndings(after.text, endings)
  \/ /\ m.method = "didChange"
     /\ before.open /\ after.open /\ m.version = after.version /\ before.version <= m.version
     /\ Takes(m.changes, before.text, after.text, enc)
  \/ m.method = "didClose" /\ ~after.open
  \/ m.method = "formatting" /\ after = before

\* The changes that are not sent yet.
Ends(view, ed, enc) ==
  /\ view.open <=> ed # Closed
  /\ ed # Closed => view.version = ed.version /\ Takes(ed.batch, view.text, ed.text, enc)

\* The messages on their way lead from what the server has to what the editor has.
Linked(doc, q, ed, enc) ==
  \E views : /\ \A i \in 0 .. Len(q) : views[i] \in Views
             /\ \A i \in 1 .. Len(q) : Becomes(views[i - 1], q[i], views[i], enc)
             /\ Shows(views[0], doc) /\ Ends(views[Len(q)], ed, enc)

\* A message is put behind the others,
LEMMA LinkedSend ==
  ASSUME NEW doc, NEW q \in Seq(Messages), NEW ed, NEW enc, Linked(doc, q, ed, enc),
         NEW m \in Messages, NEW new,
         \A v \in Views : Ends(v, ed, enc) =>
           \E w \in Views : Becomes(v, m, w, enc) /\ Ends(w, new, enc)
  PROVE  Linked(doc, Append(q, m), new, enc)
<1>1. PICK views : /\ \A i \in 0 .. Len(q) : views[i] \in Views
                   /\ \A i \in 1 .. Len(q) : Becomes(views[i - 1], q[i], views[i], enc)
                   /\ Shows(views[0], doc) /\ Ends(views[Len(q)], ed, enc)
  BY DEF Linked
<1>2. PICK n \in Nat : n = Len(q)
  OBVIOUS
<1>3. PICK w \in Views : Becomes(views[n], m, w, enc) /\ Ends(w, new, enc)
  BY <1>1, <1>2
<1>4. PICK more : more = [i \in 0 .. n + 1 |-> IF i = n + 1 THEN w ELSE views[i]]
  OBVIOUS
<1>5. more[n + 1] = w /\ \A i \in 0 .. n : more[i] = views[i]
  BY <1>4
<1>6. PICK p : p = Append(q, m)
  OBVIOUS
<1>7. Len(p) = n + 1 /\ p[n + 1] = m /\ \A i \in 1 .. n : p[i] = q[i]
  BY <1>2, <1>6
<1>8. \A i \in 0 .. n + 1 : more[i] \in Views
  <2> SUFFICES ASSUME NEW i \in 0 .. n + 1
               PROVE  more[i] \in Views
    OBVIOUS
  <2>1. i = n + 1 \/ i \in 0 .. n
    OBVIOUS
  <2> QED BY <1>1, <1>2, <1>5, <2>1
<1>9. \A i \in 1 .. n + 1 : Becomes(more[i - 1], p[i], more[i], enc)
  <2> SUFFICES ASSUME NEW i \in 1 .. n + 1
               PROVE  Becomes(more[i - 1], p[i], more[i], enc)
    OBVIOUS
  <2>1. PICK k \in 0 .. n : k = i - 1
    OBVIOUS
  <2>2. more[k] = views[k]
    BY <1>5
  <2>3. CASE i = n + 1
    <3>1. k = n
      BY <2>1, <2>3
    <3> QED BY <1>3, <1>5, <1>7, <2>1, <2>2, <2>3, <3>1
  <2>4. CASE i \in 1 .. n
    <3>1. Becomes(views[k], q[i], views[i], enc)
      BY <1>1, <1>2, <2>1, <2>4
    <3>2. more[i] = views[i] /\ p[i] = q[i]
      BY <1>5, <1>7, <2>4
    <3> QED BY <2>1, <2>2, <3>1, <3>2
  <2> QED BY <2>3, <2>4
<1>10. Shows(more[0], doc)
  <2>1. more[0] = views[0]
    BY <1>5
  <2> QED BY <1>1, <2>1
<1> QED BY <1>3, <1>5, <1>6, <1>7, <1>8, <1>9, <1>10 DEF Linked

\* the first one is handled,
LEMMA LinkedHandle ==
  ASSUME NEW doc, NEW q \in Seq(Messages), q # <<>>, NEW ed, NEW enc, Linked(doc, q, ed, enc),
         NEW new,
         \A v, w \in Views : Shows(v, doc) /\ Becomes(v, Head(q), w, enc) => Shows(w, new)
  PROVE  Linked(new, Tail(q), ed, enc)
<1>1. PICK views : /\ \A i \in 0 .. Len(q) : views[i] \in Views
                   /\ \A i \in 1 .. Len(q) : Becomes(views[i - 1], q[i], views[i], enc)
                   /\ Shows(views[0], doc) /\ Ends(views[Len(q)], ed, enc)
  BY DEF Linked
<1>2. PICK p : p = Tail(q)
  OBVIOUS
<1>3. /\ Len(q) \in Nat \ {0} /\ Head(q) = q[1] /\ Len(p) = Len(q) - 1
      /\ \A i \in 1 .. Len(q) - 1 : p[i] = q[i + 1]
  BY <1>2, TailIs
<1>4. PICK n \in Nat : n = Len(q) - 1
  BY <1>3
<1>5. PICK rest : rest = [i \in 0 .. n |-> views[i + 1]]
  OBVIOUS
<1>6. Shows(rest[0], new)
  <2>1. rest[0] = views[1] /\ views[1] \in Views /\ views[0] \in Views
    <3>1. 0 \in 0 .. n /\ 0 + 1 = 1 /\ 1 \in 0 .. Len(q) /\ 0 \in 0 .. Len(q)
      BY <1>3, <1>4
    <3> QED BY <1>1, <1>5, <3>1
  <2>2. Becomes(views[0], Head(q), views[1], enc)
    <3>1. 1 \in 1 .. Len(q) /\ 1 - 1 = 0
      BY <1>3
    <3>2. Becomes(views[1 - 1], q[1], views[1], enc)
      BY <1>1, <3>1
    <3> QED BY <1>3, <3>1, <3>2
  <2> QED BY <1>1, <2>1, <2>2
<1>7. \A i \in 0 .. n : rest[i] \in Views
  <2> SUFFICES ASSUME NEW i \in 0 .. n
               PROVE  rest[i] \in Views
    OBVIOUS
  <2>1. i + 1 \in 0 .. Len(q)
    BY <1>3, <1>4
  <2> QED BY <1>1, <1>5, <2>1
<1>8. \A i \in 1 .. n : Becomes(rest[i - 1], p[i], rest[i], enc)
  <2> SUFFICES ASSUME NEW i \in 1 .. n
               PROVE  Becomes(rest[i - 1], p[i], rest[i], enc)
    OBVIOUS
  <2>1. PICK k \in 1 .. Len(q) : k = i + 1
    <3>1. i + 1 \in 1 .. Len(q)
      BY <1>3, <1>4
    <3> QED BY <3>1
  <2>2. i - 1 \in 0 .. n /\ i - 1 + 1 = i /\ k - 1 = i /\ i \in 0 .. n
    BY <2>1
  <2>3. rest[i - 1] = views[i] /\ rest[i] = views[k]
    BY <1>5, <2>1, <2>2
  <2>4. p[i] = q[k]
    BY <1>3, <1>4, <2>1
  <2>5. Becomes(views[k - 1], q[k], views[k], enc)
    BY <1>1
  <2> QED BY <2>2, <2>3, <2>4, <2>5
<1>9. Ends(rest[n], ed, enc)
  <2>1. n \in 0 .. n /\ n + 1 = Len(q)
    BY <1>3, <1>4
  <2> QED BY <1>1, <1>5, <2>1
<1>10. Len(p) = n
  BY <1>3, <1>4
<1> QED BY <1>2, <1>6, <1>7, <1>8, <1>9, <1>10 DEF Linked

\* or the editor changes without a message.
LEMMA LinkedEdit ==
  ASSUME NEW doc, NEW q \in Seq(Messages), NEW ed, NEW enc, Linked(doc, q, ed, enc), NEW new,
         \A v \in Views : Ends(v, ed, enc) => Ends(v, new, enc)
  PROVE  Linked(doc, q, new, enc)
<1>1. PICK views : /\ \A i \in 0 .. Len(q) : views[i] \in Views
                   /\ \A i \in 1 .. Len(q) : Becomes(views[i - 1], q[i], views[i], enc)
                   /\ Shows(views[0], doc) /\ Ends(views[Len(q)], ed, enc)
  BY DEF Linked
<1>2. Len(q) \in 0 .. Len(q)
  OBVIOUS
<1>3. Ends(views[Len(q)], new, enc)
  BY <1>1, <1>2
<1> QED BY <1>1, <1>3 DEF Linked

\* Without changes nothing changes.
LEMMA TakesNothing ==
  ASSUME NEW before, NEW after, NEW enc, Takes(<<>>, before, after, enc)
  PROVE  before = after
<1>1. Len(<<>>) = 0
  OBVIOUS
<1> QED BY <1>1 DEF Takes

\* When no message is under way, the server has what the editor has sent.
LEMMA LinkedNow ==
  ASSUME NEW doc, NEW ed, NEW enc, Linked(doc, <<>>, ed, enc), ed # Closed, ed.batch = <<>>
  PROVE  doc # Closed /\ doc.contents = ed.text /\ doc.version = ed.version
<1>1. Len(<<>>) = 0
  OBVIOUS
<1>2. PICK view : Shows(view, doc) /\ Ends(view, ed, enc)
  BY <1>1 DEF Linked
<1>3. view.text = ed.text
  BY <1>2, TakesNothing DEF Ends
<1> QED BY <1>2, <1>3 DEF Shows, Ends

\* An opened document is a document.
LEMMA OpenedIs ==
  ASSUME NEW t \in EditorTexts, NEW endings, NEW version \in Nat
  PROVE  NewDocument(WithEndings(t, endings), version) \in Document
<1>1. PICK text : text = WithEndings(t, endings)
  OBVIOUS
<1>2. text \in Text /\ Normalize(text) \in Text
  BY <1>1, WrittenIs DEF EditorTexts
<1>3. Infer(text) \in LineEndings
  BY DEF Infer, LineEndings
<1> QED BY <1>1, <1>2, <1>3 DEF NewDocument, Document, Text

\* The server's document after the changes of a message.
LEMMA ChangedIs ==
  ASSUME NEW doc \in Document, doc.contents \in EditorTexts, doc.index = doc.contents,
         NEW enc \in Encodings, NEW after \in EditorTexts, NEW batch,
         Takes(batch, doc.contents, after, enc)
  PROVE  ApplyTextChanges(doc.contents, doc.index, batch, enc) \in Synced(after)
<1>1. batch \in Seq(Change)
  BY DEF Takes
<1>2. PICK texts : /\ \A i \in 0 .. Len(batch) : texts[i] \in EditorTexts
                   /\ \A i \in 1 .. Len(batch) : Leads(texts[i - 1], batch[i], texts[i], enc)
                   /\ texts[0] = doc.contents /\ texts[Len(batch)] = after
  BY DEF Takes
<1>3. ApplyTextChanges(texts[0], texts[0], batch, enc) \in Synced(texts[Len(batch)])
  BY <1>1, <1>2, BatchIs
<1> QED BY <1>2, <1>3

-----------------------------------------------------------------------------
(* The inductive invariant *)

\* The types of the variables.  The server's index is that of its text, and it has not
\* panicked.
TypeCorrect ==
  /\ encoding \in Encodings
  /\ editor = Closed \/ (editor \in Editor /\ editor.text \in EditorTexts /\ editor.version >= 1)
  /\ document = Closed \/ (/\ document \in Document /\ document.contents \in EditorTexts
                           /\ document.index = document.contents)
  /\ queue \in Seq(Messages)
  /\ asked \in Int
  /\ panicked = FALSE

\* The server follows, through the messages on their way.
Following ==
  \E doc, q, ed, enc :
    doc = document /\ q = queue /\ ed = editor /\ enc = encoding /\ Linked(doc, q, ed, enc)

\* There is one request at a time, and nothing after one whose answer is still wanted.
Asking ==
  /\ asked = NoVersion =>
       reply = NoReply /\ \A i \in 1 .. Len(queue) : queue[i].method # "formatting"
  /\ reply # NoReply => \A i \in 1 .. Len(queue) : queue[i].method # "formatting"
  /\ \A i, j \in 1 .. Len(queue) :
       queue[i].method = "formatting" /\ queue[j].method = "formatting" => i = j
  /\ editor # Closed => asked <= editor.version
  /\ editor = Closed => asked <= 0
  /\ editor # Closed /\ asked = editor.version =>
       /\ reply # NoReply => queue = <<>>
       /\ \A i \in 1 .. Len(queue) : queue[i].method = "formatting" => i = Len(queue)

\* An answer that is still wanted gives the formatted text.
Answering ==
  \E doc, r, enc :
    /\ doc = document /\ r = reply /\ enc = encoding
    /\ reply # NoReply /\ editor # Closed /\ asked = editor.version /\ reply.edits # <<>> =>
         Gives(doc.contents, r.edits, r.text, enc)

\* The inductive invariant.
SyncInv == TypeCorrect /\ Following /\ Asking /\ Answering

\* It holds of the initial states.
LEMMA SyncStart == SyncInit => SyncInv
<1> SUFFICES ASSUME SyncInit
             PROVE  SyncInv
  OBVIOUS
<1>1. <<>> \in Seq(Messages) /\ Len(<<>>) = 0 /\ 1 .. 0 = {}
  OBVIOUS
<1>2. TypeCorrect
  BY <1>1 DEF SyncInit, TypeCorrect, Encodings, NoVersion
<1>3. Linked(Closed, <<>>, Closed, encoding)
  <2>1. <<>> \in EditorTexts
    <3>1. <<>> \in Seq(Char) /\ DOMAIN <<>> = {}
      OBVIOUS
    <3> QED BY <3>1 DEF EditorTexts, Text, Plain
  <2>2. PICK view \in Views : view = [open |-> FALSE, text |-> <<>>, version |-> 0]
    BY <2>1 DEF Views
  <2>3. PICK views : views = [i \in 0 .. 0 |-> view]
    OBVIOUS
  <2>4. views[0] = view /\ ~view.open /\ \A i \in 0 .. 0 : views[i] \in Views
    BY <2>2, <2>3
  <2>5. \A i \in 1 .. 0 : FALSE
    OBVIOUS
  <2>6. Shows(view, Closed) /\ Ends(view, Closed, encoding)
    BY <2>4 DEF Shows, Ends
  <2> QED BY <1>1, <2>4, <2>5, <2>6 DEF Linked
<1>4. Following
  BY <1>3 DEF SyncInit, Following
<1>5. Asking
  BY <1>1 DEF SyncInit, Asking, NoVersion
<1>6. Answering
  BY DEF SyncInit, Answering
<1> QED BY <1>2, <1>4, <1>5, <1>6 DEF SyncInv

-----------------------------------------------------------------------------
(* The editor *)

\* The document is opened, with any text and line endings,
LEMMA OpenStep ==
  ASSUME SyncInv, Open
  PROVE  SyncInv'
<1>1. PICK text \in OpenTexts, endings \in {"Lf", "Crlf"} :
        /\ editor' = [text |-> text, endings |-> endings, version |-> 1, batch |-> <<>>]
        /\ queue' = Append(queue, [method |-> "didOpen", text |-> WithEndings(text, endings),
                                   version |-> 1])
  BY DEF Open, Send
<1>2. /\ editor = Closed /\ queue = <<>>
      /\ UNCHANGED <<encoding, notebook, document, reply, asked, panicked, changes>>
  BY DEF Open
<1>3. text \in EditorTexts /\ text \in Text
  BY TextsAssumption DEF EditorTexts, Text, Plain
<1>4. PICK m : m = [method |-> "didOpen", text |-> WithEndings(text, endings), version |-> 1]
  OBVIOUS
<1>5. m \in Messages /\ m.method = "didOpen" /\ m.version = 1 /\ m.text = WithEndings(text, endings)
  <2>1. WithEndings(text, endings) \in Text
    BY <1>3, WrittenIs
  <2> QED BY <1>4, <2>1 DEF Messages
<1>6. queue \in Seq(Messages) /\ queue' = Append(queue, m)
  BY <1>1, <1>4 DEF SyncInv, TypeCorrect
<1>7. PICK q \in Seq(Messages), enc \in Encodings, new \in {editor'} :
        q = queue /\ enc = encoding
  BY <1>6 DEF SyncInv, TypeCorrect
<1>8. /\ new = [text |-> text, endings |-> endings, version |-> 1, batch |-> <<>>]
      /\ new \in Editor /\ new # Closed
      /\ new.text = text /\ new.version = 1 /\ new.batch = <<>>
  <2>1. <<>> \in Seq(Change)
    OBVIOUS
  <2>2. new = [text |-> text, endings |-> endings, version |-> 1, batch |-> <<>>]
    BY <1>1, <1>7
  <2>3. new \in Editor
    BY <1>3, <2>1, <2>2 DEF Editor, LineEndings, Text
  <2> QED BY <2>2, <2>3, ClosedAssumption
<1>9. TypeCorrect'
  <2>1. queue' \in Seq(Messages)
    BY <1>5, <1>6
  <2>2. editor' = Closed \/ (editor' \in Editor /\ editor'.text \in EditorTexts /\ editor'.version >= 1)
    BY <1>3, <1>7, <1>8
  <2> QED BY <1>2, <2>1, <2>2 DEF SyncInv, TypeCorrect
<1>10. Following'
  <2>1. PICK doc : doc = document /\ Linked(doc, q, Closed, enc)
    BY <1>2, <1>7 DEF SyncInv, Following
  <2>2. ASSUME NEW v \in Views
        PROVE  \E w \in Views : Becomes(v, m, w, enc) /\ Ends(w, new, enc)
    <3>1. PICK w \in Views : w = [open |-> TRUE, text |-> text, version |-> 1]
      BY <1>3 DEF Views
    <3>2. w.open /\ w.text = text /\ w.version = 1
      BY <3>1
    <3>3. Becomes(v, m, w, enc)
      BY <1>5, <3>2 DEF Becomes
    <3>4. Takes(<<>>, text, text, enc)
      BY <1>3, TakesNone
    <3>5. Ends(w, new, enc)
      BY <1>8, <3>2, <3>4 DEF Ends
    <3> QED BY <3>3, <3>5
  <2>3. Linked(doc, Append(q, m), new, enc)
    BY <1>5, <2>1, <2>2, LinkedSend
  <2> QED BY <1>2, <1>6, <1>7, <2>1, <2>3 DEF Following
<1>11. /\ Len(queue') = 1 /\ \A i \in 1 .. Len(queue') : queue'[i].method # "formatting"
       /\ asked \in Int /\ asked <= 0 /\ (asked = NoVersion => reply = NoReply)
  <2>1. queue' = <<m>>
    BY <1>2, <1>6
  <2>2. asked \in Int /\ asked <= 0 /\ (asked = NoVersion => reply = NoReply)
    BY <1>2 DEF SyncInv, TypeCorrect, Asking
  <2> QED BY <1>5, <2>1, <2>2
<1>12. editor' # Closed /\ editor'.version = 1 /\ asked # 1
  BY <1>7, <1>8, <1>11
<1>13. Asking'
  BY <1>2, <1>11, <1>12 DEF Asking
<1>14. Answering'
  <2>1. ~ (asked' = editor'.version)
    BY <1>2, <1>12
  <2> QED BY <2>1 DEF Answering
<1> QED BY <1>9, <1>10, <1>13, <1>14 DEF SyncInv

\* and closed, whatever is on its way.
LEMMA CloseStep ==
  ASSUME SyncInv, Close
  PROVE  SyncInv'
<1>1. /\ editor # Closed /\ editor.batch = <<>> /\ editor' = Closed
      /\ asked' = IF asked = NoVersion THEN NoVersion ELSE Dropped
      /\ queue' = Append(queue, [method |-> "didClose"])
      /\ UNCHANGED <<encoding, notebook, document, reply, panicked>>
  BY DEF Close, Send
<1>2. PICK m : m = [method |-> "didClose"]
  OBVIOUS
<1>3. m \in Messages /\ m.method = "didClose"
  BY <1>2 DEF Messages
<1>4. PICK q \in Seq(Messages), enc \in Encodings, ed \in {editor} :
        q = queue /\ enc = encoding
  BY DEF SyncInv, TypeCorrect
<1>5. TypeCorrect'
  <2>1. queue' \in Seq(Messages)
    BY <1>1, <1>2, <1>3, <1>4
  <2>2. asked' \in Int
    BY <1>1 DEF NoVersion, Dropped
  <2> QED BY <1>1, <2>1, <2>2 DEF SyncInv, TypeCorrect
<1>6. Following'
  <2>1. PICK doc : doc = document /\ Linked(doc, q, ed, enc)
    BY <1>4 DEF SyncInv, Following
  <2>2. ASSUME NEW v \in Views
        PROVE  \E w \in Views : Becomes(v, m, w, enc) /\ Ends(w, Closed, enc)
    <3>1. PICK w \in Views : w = [v EXCEPT !.open = FALSE]
      BY DEF Views
    <3>2. ~w.open
      BY <3>1 DEF Views
    <3> QED BY <1>3, <3>2 DEF Becomes, Ends
  <2>3. Linked(doc, Append(q, m), Closed, enc)
    BY <1>3, <2>1, <2>2, LinkedSend
  <2> QED BY <1>1, <1>2, <1>4, <2>1, <2>3 DEF Following
<1>7. Asking'
  <2>1. /\ Len(queue') = Len(queue) + 1 /\ queue'[Len(queue) + 1] = m /\ Len(queue) \in Nat
        /\ \A i \in 1 .. Len(queue) : queue'[i] = queue[i]
    BY <1>1, <1>2, <1>4
  <2>2. ASSUME NEW i \in 1 .. Len(queue'), queue'[i].method = "formatting"
        PROVE  i \in 1 .. Len(queue) /\ queue[i].method = "formatting"
    <3>1. i # Len(queue) + 1
      BY <1>3, <2>1, <2>2
    <3>2. i \in 1 .. Len(queue)
      BY <2>1, <3>1
    <3> QED BY <2>1, <2>2, <3>2
  <2>3. asked' <= 0 /\ (asked' = NoVersion => asked = NoVersion)
    BY <1>1 DEF NoVersion, Dropped
  <2>4. reply' = reply
    BY <1>1
  <2> QED BY <1>1, <2>2, <2>3, <2>4 DEF SyncInv, Asking
<1>8. Answering'
  BY <1>1 DEF Answering
<1> QED BY <1>5, <1>6, <1>7, <1>8 DEF SyncInv

\* A change of the editor's text leaves it with one more change to send.
LEMMA EditKeeps ==
  ASSUME SyncInv, editor # Closed, NEW change \in Change, NEW text \in EditorTexts,
         Leads(editor.text, change, text, encoding), NEW endings \in LineEndings,
         editor' = [editor EXCEPT !.text = text, !.endings = endings,
                                  !.batch = Append(@, change)],
         UNCHANGED <<encoding, notebook, document, queue, reply, asked, panicked>>
  PROVE  SyncInv'
<1>1. PICK q \in Seq(Messages), enc \in Encodings, ed \in Editor, new \in {editor'} :
        q = queue /\ enc = encoding /\ ed = editor
  BY DEF SyncInv, TypeCorrect
<1>2. new = [ed EXCEPT !.text = text, !.endings = endings, !.batch = Append(@, change)]
  BY <1>1
<1>3. /\ ed.text \in EditorTexts /\ ed.version \in Nat /\ ed.version >= 1 /\ ed.batch \in Seq(Change)
      /\ ed # Closed
  BY <1>1 DEF SyncInv, TypeCorrect, Editor
<1>4. /\ new \in Editor /\ new.text = text /\ new.version = ed.version
      /\ new.batch = Append(ed.batch, change)
  <2>1. Append(ed.batch, change) \in Seq(Change)
    BY <1>3
  <2>2. text \in Text
    BY DEF EditorTexts
  <2> QED BY <1>2, <2>1, <2>2 DEF Editor, Text
<1>5. new # Closed
  BY <1>4, ClosedAssumption
<1>6. TypeCorrect'
  <2>1. editor' \in Editor /\ editor'.text \in EditorTexts /\ editor'.version >= 1
    BY <1>1, <1>3, <1>4
  <2> QED BY <2>1 DEF SyncInv, TypeCorrect
<1>7. Following'
  <2>1. PICK doc : doc = document /\ Linked(doc, q, ed, enc)
    BY <1>1 DEF SyncInv, Following
  <2>2. Leads(ed.text, change, text, enc)
    BY <1>1
  <2>3. ASSUME NEW v \in Views, Ends(v, ed, enc)
        PROVE  Ends(v, new, enc)
    <3>1. v.open /\ v.version = ed.version /\ Takes(ed.batch, v.text, ed.text, enc)
      BY <1>3, <2>3 DEF Ends
    <3>2. Takes(Append(ed.batch, change), v.text, text, enc)
      BY <2>2, <3>1, TakesMore
    <3> QED BY <1>4, <1>5, <3>1, <3>2 DEF Ends
  <2>4. Linked(doc, q, new, enc)
    BY <2>1, <2>3, LinkedEdit
  <2> QED BY <1>1, <2>1, <2>4 DEF Following
<1>8. editor' # Closed /\ editor'.version = editor.version
  BY <1>1, <1>4, <1>5
<1>9. Asking'
  BY <1>8 DEF SyncInv, Asking
<1>10. Answering'
  <2>1. PICK doc, r, enc2 :
          /\ doc = document /\ r = reply /\ enc2 = encoding
          /\ reply # NoReply /\ editor # Closed /\ asked = editor.version /\ reply.edits # <<>> =>
               Gives(doc.contents, r.edits, r.text, enc2)
    BY DEF SyncInv, Answering
  <2> QED BY <1>8, <2>1 DEF Answering
<1> QED BY <1>6, <1>7, <1>9, <1>10 DEF SyncInv

\* A stretch that was replaced leads from the text before to the text after.
LEMMA ChangedLeads ==
  ASSUME NEW t \in EditorTexts, NEW from \in 0 .. Len(t), NEW to \in from .. Len(t),
         NEW insert \in EditorTexts, NEW enc, NEW endings, NEW change,
         change = [range |-> <<PositionAt(t, from, enc), PositionAt(t, to, enc)>>,
                   text  |-> WithEndings(insert, endings)]
  PROVE  /\ change \in Change /\ Replaced(t, from, to, insert) \in EditorTexts
         /\ Leads(t, change, Replaced(t, from, to, insert), enc)
<1>1. t \in Text /\ Len(t) \in Nat /\ to \in 0 .. Len(t)
  BY DEF EditorTexts, Text
<1>2. PositionAt(t, from, enc) \in Position
  BY <1>1, PositionTyped
<1>3. PositionAt(t, to, enc) \in Position
  BY <1>1, PositionTyped
<1>4. WithEndings(insert, endings) \in Text /\ Normalize(WithEndings(insert, endings)) = insert
  BY WrittenIs
<1>5. Replaced(t, from, to, insert) \in EditorTexts
  BY ReplacedText
<1>6. /\ change.range = <<PositionAt(t, from, enc), PositionAt(t, to, enc)>>
      /\ change.text = WithEndings(insert, endings)
  OBVIOUS
<1>7. change \in Change
  BY <1>2, <1>3, <1>4 DEF Change, Text
<1>8. Leads(t, change, Replaced(t, from, to, insert), enc)
  BY <1>4, <1>6 DEF Leads
<1> QED BY <1>5, <1>7, <1>8

\* The user types, pastes, undoes, or changes the line endings.
LEMMA EditStep ==
  ASSUME SyncInv, Edit
  PROVE  SyncInv'
<1>1. /\ editor # Closed
      /\ Type \/ ChangeEndings \/ ReplaceText
      /\ UNCHANGED <<encoding, notebook, document, queue, reply, asked, panicked>>
  BY DEF Edit
<1>2. editor \in Editor /\ editor.text \in EditorTexts
  BY <1>1 DEF SyncInv, TypeCorrect
<1>3. /\ DOMAIN editor = {"text", "endings", "version", "batch"} /\ editor.endings \in LineEndings
      /\ Len(editor.text) \in Nat
  BY <1>2 DEF Editor, EditorTexts, Text
<1>4. ASSUME NEW from, NEW to, NEW insert \in EditorTexts, NEW endings \in LineEndings,
             from \in 0 .. Len(editor.text), to \in from .. Len(editor.text),
             Changed(from, to, insert, endings)
      PROVE  SyncInv'
  <2>1. PICK t \in EditorTexts, enc \in {encoding} : t = editor.text
    BY <1>2
  <2>2. PICK change : change = [range |-> <<PositionAt(t, from, enc), PositionAt(t, to, enc)>>,
                                text  |-> WithEndings(insert, endings)]
    OBVIOUS
  <2>3. PICK text : text = Replaced(t, from, to, insert)
    OBVIOUS
  <2>4. from \in 0 .. Len(t) /\ to \in from .. Len(t)
    BY <1>4, <2>1
  <2>5. change \in Change /\ text \in EditorTexts /\ Leads(t, change, text, enc)
    BY <2>2, <2>3, <2>4, ChangedLeads
  <2>6. editor' = [editor EXCEPT !.text = text, !.endings = endings, !.batch = Append(@, change)]
    BY <1>4, <2>1, <2>2, <2>3 DEF Changed
  <2> QED BY <1>1, <1>4, <2>1, <2>5, <2>6, EditKeeps
<1>5. CASE Type
  <2>1. PICK from \in 0 .. Len(editor.text), to \in 0 .. Len(editor.text), insert \in Inserts :
          from <= to /\ Changed(from, to, insert, editor.endings)
    BY <1>5 DEF Type
  <2>2. insert \in EditorTexts
    BY TextsAssumption DEF EditorTexts, Text, Plain
  <2>3. to \in from .. Len(editor.text)
    BY <1>3, <2>1
  <2> QED BY <1>3, <1>4, <2>1, <2>2, <2>3
<1>6. CASE ChangeEndings
  <2>1. PICK endings \in LineEndings : Changed(0, Len(editor.text), editor.text, endings)
    BY <1>6 DEF ChangeEndings, LineEndings
  <2>2. 0 \in 0 .. Len(editor.text) /\ Len(editor.text) \in 0 .. Len(editor.text)
    BY <1>3
  <2> QED BY <1>2, <1>4, <2>1, <2>2
<1>7. CASE ReplaceText
  <2>1. PICK text \in OpenTexts :
          editor' = [editor EXCEPT
            !.text = text,
            !.batch = Append(@, [range |-> WholeText, text |-> WithEndings(text, editor.endings)])]
    BY <1>7 DEF ReplaceText
  <2>2. text \in EditorTexts
    BY TextsAssumption DEF EditorTexts, Text, Plain
  <2>3. PICK endings \in LineEndings : endings = editor.endings
    BY <1>3
  <2>4. PICK change : change = [range |-> WholeText, text |-> WithEndings(text, endings)]
    OBVIOUS
  <2>5. WithEndings(text, endings) \in Text /\ Normalize(WithEndings(text, endings)) = text
    BY <2>2, WrittenIs
  <2>6. change.range = WholeText /\ change.text = WithEndings(text, endings) /\ change \in Change
    BY <2>4, <2>5 DEF Change, Text
  <2>7. Leads(editor.text, change, text, encoding)
    BY <2>2, <2>5, <2>6 DEF Leads
  <2>8. editor' = [editor EXCEPT !.text = text, !.endings = endings, !.batch = Append(@, change)]
    <3>1. editor' = [editor EXCEPT !.text = text, !.batch = Append(@, change)]
      BY <2>1, <2>3, <2>4
    <3>2. editor = [text |-> editor.text, endings |-> endings, version |-> editor.version,
                    batch |-> editor.batch]
      BY <1>2, <2>3 DEF Editor
    <3> QED BY <1>3, <2>3, <3>1
  <2> QED BY <1>1, <2>2, <2>6, <2>7, <2>8, EditKeeps
<1> QED BY <1>1, <1>5, <1>6, <1>7

\* What was collected is sent as one message,
LEMMA SendBatchStep ==
  ASSUME SyncInv, SendBatch
  PROVE  SyncInv'
<1>1. /\ editor # Closed /\ editor.batch # <<>>
      /\ editor' = [editor EXCEPT !.batch = <<>>, !.version = @ + 1]
      /\ queue' = Append(queue, [method |-> "didChange", changes |-> editor.batch,
                                 version |-> editor.version + 1])
      /\ UNCHANGED <<encoding, notebook, document, reply, asked, panicked, changes>>
  BY DEF SendBatch, Send
<1>2. PICK q \in Seq(Messages), enc \in Encodings, ed \in Editor, new \in {editor'} :
        q = queue /\ enc = encoding /\ ed = editor
  BY <1>1 DEF SyncInv, TypeCorrect
<1>3. /\ ed.text \in EditorTexts /\ ed.version \in Nat /\ ed.version >= 1 /\ ed.batch \in Seq(Change)
      /\ ed # Closed
  BY <1>1, <1>2 DEF SyncInv, TypeCorrect, Editor
<1>4. PICK version \in Nat : version = ed.version + 1
  BY <1>3
<1>5. PICK m : m = [method |-> "didChange", changes |-> ed.batch, version |-> version]
  OBVIOUS
<1>6. /\ m \in Messages /\ m.method = "didChange" /\ m.changes = ed.batch
      /\ m.version = version
  BY <1>3, <1>5 DEF Messages
<1>7. queue' = Append(q, m)
  BY <1>1, <1>2, <1>5, <1>4
<1>8. new \in Editor /\ new.text = ed.text /\ new.version = version /\ new.batch = <<>>
  <2>1. new = [ed EXCEPT !.batch = <<>>, !.version = version] /\ <<>> \in Seq(Change)
    BY <1>1, <1>2, <1>4
  <2> QED BY <1>3, <2>1 DEF Editor
<1>9. new # Closed
  BY <1>8, ClosedAssumption
<1>10. TypeCorrect'
  <2>1. editor' \in Editor /\ editor'.text \in EditorTexts /\ editor'.version >= 1
    BY <1>2, <1>3, <1>4, <1>8
  <2>2. queue' \in Seq(Messages)
    BY <1>6, <1>7
  <2> QED BY <1>1, <2>1, <2>2 DEF SyncInv, TypeCorrect
<1>11. Following'
  <2>1. PICK doc : doc = document /\ Linked(doc, q, ed, enc)
    BY <1>2 DEF SyncInv, Following
  <2>2. ASSUME NEW v \in Views, Ends(v, ed, enc)
        PROVE  \E w \in Views : Becomes(v, m, w, enc) /\ Ends(w, new, enc)
    <3>1. v.open /\ v.version = ed.version /\ Takes(ed.batch, v.text, ed.text, enc)
      BY <1>3, <2>2 DEF Ends
    <3>2. PICK w \in Views : w = [open |-> TRUE, text |-> ed.text, version |-> version]
      BY <1>3 DEF Views
    <3>3. w.open /\ w.text = ed.text /\ w.version = version
      BY <3>2
    <3>4. Becomes(v, m, w, enc)
      <4>1. ed.version <= version
        BY <1>3, <1>4
      <4> QED BY <1>6, <3>1, <3>3, <4>1 DEF Becomes
    <3>5. Takes(<<>>, ed.text, ed.text, enc)
      BY <1>3, TakesNone
    <3>6. Ends(w, new, enc)
      BY <1>8, <1>9, <3>3, <3>5 DEF Ends
    <3> QED BY <3>4, <3>6
  <2>3. Linked(doc, Append(q, m), new, enc)
    BY <1>6, <2>1, <2>2, LinkedSend
  <2> QED BY <1>1, <1>2, <1>7, <2>1, <2>3 DEF Following
<1>12. /\ editor' # Closed /\ editor'.version = editor.version + 1 /\ editor.version \in Nat
       /\ asked \in Int /\ asked <= editor.version
  BY <1>1, <1>2, <1>3, <1>4, <1>8, <1>9 DEF SyncInv, TypeCorrect, Asking
<1>13. asked # editor'.version /\ asked <= editor'.version
  BY <1>12
<1>14. Asking'
  <2>1. /\ Len(queue') = Len(queue) + 1 /\ queue'[Len(queue) + 1] = m /\ Len(queue) \in Nat
        /\ \A i \in 1 .. Len(queue) : queue'[i] = queue[i]
    BY <1>2, <1>7
  <2>2. ASSUME NEW i \in 1 .. Len(queue'), queue'[i].method = "formatting"
        PROVE  i \in 1 .. Len(queue) /\ queue[i].method = "formatting"
    <3>1. i # Len(queue) + 1
      BY <1>6, <2>1, <2>2
    <3>2. i \in 1 .. Len(queue)
      BY <2>1, <3>1
    <3> QED BY <2>1, <2>2, <3>2
  <2>3. reply' = reply /\ asked' = asked
    BY <1>1
  <2> QED BY <1>12, <1>13, <2>2, <2>3 DEF SyncInv, Asking
<1>15. Answering'
  <2>1. asked' # editor'.version
    BY <1>1, <1>13
  <2> QED BY <2>1 DEF Answering
<1> QED BY <1>10, <1>11, <1>14, <1>15 DEF SyncInv

\* a request is sent behind it,
LEMMA AskStep ==
  ASSUME SyncInv, Ask
  PROVE  SyncInv'
<1>1. /\ editor # Closed /\ editor.batch = <<>> /\ asked = NoVersion
      /\ asked' = editor.version
      /\ queue' = Append(queue, [method |-> "formatting"])
      /\ UNCHANGED <<encoding, notebook, editor, document, reply, panicked>>
  BY DEF Ask, Send
<1>2. PICK q \in Seq(Messages), enc \in Encodings, ed \in Editor :
        q = queue /\ enc = encoding /\ ed = editor
  BY <1>1 DEF SyncInv, TypeCorrect
<1>3. PICK m : m = [method |-> "formatting"]
  OBVIOUS
<1>4. m \in Messages /\ m.method = "formatting"
  BY <1>3 DEF Messages
<1>5. queue' = Append(q, m)
  BY <1>1, <1>2, <1>3
<1>6. ed.version \in Nat
  BY DEF Editor
<1>7. TypeCorrect'
  <2>1. queue' \in Seq(Messages)
    BY <1>4, <1>5
  <2>2. asked' \in Int
    BY <1>1, <1>2, <1>6
  <2> QED BY <1>1, <2>1, <2>2 DEF SyncInv, TypeCorrect
<1>8. Following'
  <2>1. PICK doc : doc = document /\ Linked(doc, q, ed, enc)
    BY <1>2 DEF SyncInv, Following
  <2>2. ASSUME NEW v \in Views, Ends(v, ed, enc)
        PROVE  \E w \in Views : Becomes(v, m, w, enc) /\ Ends(w, ed, enc)
    BY <1>4, <2>2 DEF Becomes
  <2>3. Linked(doc, Append(q, m), ed, enc)
    BY <1>4, <2>1, <2>2, LinkedSend
  <2> QED BY <1>1, <1>2, <1>5, <2>1, <2>3 DEF Following
<1>9. reply = NoReply /\ \A i \in 1 .. Len(queue) : queue[i].method # "formatting"
  BY <1>1 DEF SyncInv, Asking
<1>10. Asking'
  <2>1. /\ Len(queue') = Len(queue) + 1 /\ queue'[Len(queue) + 1] = m /\ Len(queue) \in Nat
        /\ \A i \in 1 .. Len(queue) : queue'[i] = queue[i]
    BY <1>2, <1>5
  <2>2. ASSUME NEW i \in 1 .. Len(queue'), queue'[i].method = "formatting"
        PROVE  i = Len(queue')
    <3>1. CASE i \in 1 .. Len(queue)
      BY <1>9, <2>1, <2>2, <3>1
    <3> QED BY <2>1, <3>1
  <2>3. /\ asked' # NoVersion /\ asked' <= editor'.version /\ editor' # Closed
    <3>1. editor.version >= 1
      BY <1>1 DEF SyncInv, TypeCorrect
    <3> QED BY <1>1, <1>2, <1>6, <3>1 DEF NoVersion
  <2>4. reply' = NoReply
    BY <1>1, <1>9
  <2> QED BY <2>2, <2>3, <2>4 DEF Asking
<1>11. Answering'
  BY <1>1, <1>9 DEF Answering
<1> QED BY <1>7, <1>8, <1>10, <1>11 DEF SyncInv

\* and the edits of the answer are made.
LEMMA ReceiveStep ==
  ASSUME SyncInv, Receive
  PROVE  SyncInv'
<1>1. /\ reply # NoReply /\ reply' = NoReply /\ asked' = NoVersion
      /\ UNCHANGED <<encoding, notebook, document, panicked, changes>>
  BY DEF Receive
<1>2. \A i \in 1 .. Len(queue) : queue[i].method # "formatting"
  BY <1>1 DEF SyncInv, Asking
<1>3. Answering'
  BY <1>1 DEF Answering
<1>4. CASE ~ (Wanted /\ reply.edits # <<>>)
  <2>1. UNCHANGED <<editor, queue>>
    BY <1>4 DEF Receive
  <2>2. TypeCorrect'
    BY <1>1, <2>1 DEF SyncInv, TypeCorrect, NoVersion
  <2>3. Following'
    BY <1>1, <2>1 DEF SyncInv, Following
  <2>4. Asking'
    <3>1. editor # Closed => editor.version >= 1 /\ editor.version \in Nat
      BY DEF SyncInv, TypeCorrect, Editor
    <3> QED BY <1>1, <1>2, <2>1, <3>1 DEF Asking, NoVersion
  <2> QED BY <1>3, <2>2, <2>3, <2>4 DEF SyncInv
<1>5. CASE Wanted /\ reply.edits # <<>>
  <2>1. /\ editor # Closed /\ editor.version = asked /\ editor.batch = <<>>
        /\ queue = <<>>
    BY <1>1, <1>5 DEF Wanted, SyncInv, Asking
  <2>2. PICK edits, text : edits = reply.edits /\ text = reply.text
    OBVIOUS
  <2>3. PICK doc, q, ed, enc :
          /\ doc = document /\ q = queue /\ ed = editor /\ enc = encoding
          /\ Linked(doc, q, ed, enc)
    BY DEF SyncInv, Following
  <2>4. /\ doc = document /\ q = queue /\ ed = editor /\ enc = encoding
        /\ edits = reply.edits /\ text = reply.text
        /\ Linked(doc, q, ed, enc)
        /\ ed \in Editor /\ enc \in Encodings /\ q \in Seq(Messages)
    BY <2>1, <2>2, <2>3 DEF SyncInv, TypeCorrect
  <2>5. Gives(doc.contents, edits, text, enc)
    BY <1>1, <1>5, <2>1, <2>4 DEF SyncInv, Answering
  <2>6. ed # Closed /\ ed.batch = <<>> /\ q = <<>> /\ ed.text \in EditorTexts /\ ed.version \in Nat
    BY <2>1, <2>4 DEF SyncInv, TypeCorrect, Editor
  <2>7. doc # Closed /\ doc.contents = ed.text /\ doc.version = ed.version
    BY <2>4, <2>6, LinkedNow
  <2>8. PICK from, to : EditsFor(ed.text, edits, from, to, enc)
    BY <2>5, <2>7 DEF Gives
  <2>9. PICK endings : endings = ed.endings
    OBVIOUS
  <2>10. PICK batch : batch = EditChanges(edits, endings)
    OBVIOUS
  <2>11. PICK made : made = Edited(ed.text, edits)
    OBVIOUS
  <2>12. made \in EditorTexts /\ Takes(batch, ed.text, made, enc)
    BY <2>4, <2>6, <2>8, <2>10, <2>11, EditsTake
  <2>13. PICK version \in Nat : version = ed.version + 1
    BY <2>6
  <2>14. PICK m : m = [method |-> "didChange", version |-> version, changes |-> batch]
    OBVIOUS
  <2>15. /\ m \in Messages /\ m.method = "didChange" /\ m.changes = batch /\ m.version = version
    <3>1. batch \in Seq(Change)
      BY <2>12 DEF Takes
    <3>2. m = [method |-> "didChange", changes |-> batch, version |-> version]
      BY <2>14
    <3> QED BY <3>1, <3>2 DEF Messages
  <2>16. PICK new : new = editor'
    OBVIOUS
  <2>17. /\ editor' = [editor EXCEPT !.text = Edited(@, reply.edits), !.version = @ + 1]
         /\ queue' = Append(queue, [method |-> "didChange", version |-> editor.version + 1,
                                    changes |-> EditChanges(reply.edits, editor.endings)])
    BY <1>5 DEF Receive, Send, EditChanges
  <2>18. new = [ed EXCEPT !.text = made, !.version = version]
    BY <2>4, <2>11, <2>13, <2>16, <2>17
  <2>19. queue' = Append(q, m)
    BY <2>4, <2>9, <2>10, <2>13, <2>14, <2>17
  <2>20. /\ new \in Editor /\ new.text = made /\ new.version = version /\ new.batch = <<>>
    <3>1. made \in Seq(Char)
      BY <2>12 DEF EditorTexts, Text
    <3> QED BY <2>4, <2>6, <2>18, <3>1 DEF Editor
  <2>21. new # Closed
    BY <2>20, ClosedAssumption
  <2>22. TypeCorrect'
    <3>1. editor' \in Editor /\ editor'.text \in EditorTexts /\ editor'.version >= 1
      BY <2>6, <2>12, <2>13, <2>16, <2>20
    <3>2. queue' \in Seq(Messages) /\ asked' \in Int
      BY <1>1, <2>4, <2>15, <2>19 DEF NoVersion
    <3> QED BY <1>1, <3>1, <3>2 DEF SyncInv, TypeCorrect
  <2>23. Following'
    <3>1. ASSUME NEW v \in Views, Ends(v, ed, enc)
          PROVE  \E w \in Views : Becomes(v, m, w, enc) /\ Ends(w, new, enc)
      <4>1. v.open /\ v.version = ed.version /\ Takes(<<>>, v.text, ed.text, enc)
        BY <2>6, <3>1 DEF Ends
      <4>2. v.text = ed.text
        BY <4>1, TakesNothing
      <4>3. PICK w \in Views : w = [open |-> TRUE, text |-> made, version |-> version]
        BY <2>12 DEF Views
      <4>4. w.open /\ w.text = made /\ w.version = version
        BY <4>3
      <4>5. ed.version <= version
        BY <2>6, <2>13
      <4>6. Becomes(v, m, w, enc)
        BY <2>12, <2>15, <4>1, <4>2, <4>4, <4>5 DEF Becomes
      <4>7. Takes(<<>>, made, made, enc)
        BY <2>12, TakesNone
      <4>8. Ends(w, new, enc)
        BY <2>20, <2>21, <4>4, <4>7 DEF Ends
      <4> QED BY <4>6, <4>8
    <3>2. Linked(doc, Append(q, m), new, enc)
      BY <2>4, <2>15, <3>1, LinkedSend
    <3> QED BY <1>1, <2>4, <2>16, <2>19, <3>2 DEF Following
  <2>24. Asking'
    <3>1. queue' = <<m>>
      BY <2>6, <2>19
    <3>2. Len(queue') = 1 /\ \A i \in 1 .. Len(queue') : queue'[i].method # "formatting"
      BY <2>15, <3>1
    <3>3. editor' # Closed /\ editor'.version \in Nat /\ editor'.version >= 1
      BY <2>6, <2>13, <2>16, <2>20, <2>21
    <3> QED BY <1>1, <3>2, <3>3 DEF Asking, NoVersion
  <2> QED BY <1>3, <2>22, <2>23, <2>24 DEF SyncInv
<1> QED BY <1>4, <1>5

-----------------------------------------------------------------------------
(* The server *)

\* What the answer of a request is for.
LEMMA FormattingGives ==
  ASSUME SyncInv, DocumentFormatting \/ DocumentRangeFormatting,
         NEW doc, NEW r, NEW enc, doc = document, r = reply', enc = encoding, r.edits # <<>>
  PROVE  Gives(doc.contents, r.edits, r.text, enc)
<1>1. NoEdits.edits = <<>>
  BY DEF NoEdits, Answer
<1>2. ASSUME document # Closed
      PROVE  /\ document \in Document /\ document.contents \in EditorTexts
             /\ document.index = document.contents /\ Len(document.contents) \in Nat
  BY <1>2 DEF SyncInv, TypeCorrect, EditorTexts, Text
<1>3. CASE DocumentFormatting
  <2>1. /\ document # Closed
        /\ \E formatted \in Formatted :
             LET source == WithEndings(formatted, FormatEndings)
                 text   == NotebookText(source)
             IN  \E keep \in Diffs(document.contents, text) :
                   reply' = Answer(ReplaceAllEdit(text, keep), text)
    BY <1>3, <1>1 DEF DocumentFormatting
  <2>2. PICK t \in EditorTexts, endings \in {document.endings} :
           t = document.contents /\ t = document.index
    BY <1>2, <2>1
  <2>3. PICK formatted, source, text :
          /\ formatted \in Formatted /\ source = WithEndings(formatted, FormatEndings) /\ text = NotebookText(source)
          /\ \E keep \in Diffs(t, text) : r = Answer(ReplaceAllEdit(text, keep), text)
    BY <2>1, <2>2
  <2>4. PICK keep \in Diffs(t, text) : r = Answer(ReplaceAllEdit(text, keep), text)
    BY <2>3
  <2>5. source \in Text /\ (Setting # "Crlf" => source \in EditorTexts)
    BY <2>2, <2>3, FormattedIs
  <2>6. text \in Text /\ (Setting # "Crlf" => text \in EditorTexts)
    BY <2>3, <2>5, NotebookTextIs
  <2>7. Gives(t, TextEdits(t, Indels(t, text, keep), enc, endings), text, enc)
    BY <2>4, <2>6, WholeAnswer
  <2>8. ReplaceAllEdit(text, keep) = TextEdits(t, Indels(t, text, keep), enc, endings)
    BY <2>2 DEF ReplaceAllEdit
  <2>9. r.edits = ReplaceAllEdit(text, keep) /\ r.text = text
    BY <2>4 DEF Answer
  <2> QED BY <2>2, <2>7, <2>8, <2>9
<1>4. CASE DocumentRangeFormatting
  <2>1. /\ document # Closed
        /\ \E from, to \in 0 .. Len(document.contents), formatted \in Formatted :
             LET lines == Front(WithEndings(formatted, FormatEndings))
             IN  /\ from <= to
                 /\ reply' = Answer(TextEdits(document.index,
                                      <<[from |-> from, to |-> to, insert |-> lines]>>,
                                      encoding, document.endings),
                                    Replaced(document.contents, from, to, lines))
    BY <1>4 DEF DocumentRangeFormatting
  <2>2. PICK t \in EditorTexts, endings \in {document.endings} :
          /\ t = document.contents /\ t = document.index
          /\ Len(t) \in Nat
    BY <1>2, <2>1
  <2>3. PICK from, to, formatted, lines :
          /\ from \in 0 .. Len(t) /\ to \in 0 .. Len(t) /\ formatted \in Formatted
          /\ lines = Front(WithEndings(formatted, FormatEndings)) /\ from <= to
          /\ r = Answer(TextEdits(t, <<[from |-> from, to |-> to, insert |-> lines]>>, enc, endings),
                        Replaced(t, from, to, lines))
    BY <2>1, <2>2
  <2>4. PICK source : source = WithEndings(formatted, FormatEndings)
    OBVIOUS
  <2>5. source \in Text /\ (Setting # "Crlf" => source \in EditorTexts)
    BY <2>2, <2>3, <2>4, FormattedIs
  <2>6. lines \in Text /\ (Setting # "Crlf" => lines \in EditorTexts)
    BY <2>3, <2>4, <2>5, FrontIs
  <2>7. to \in from .. Len(t)
    BY <2>2, <2>3
  <2>8. Gives(t, TextEdits(t, <<[from |-> from, to |-> to, insert |-> lines]>>, enc, endings),
              Replaced(t, from, to, lines), enc)
    BY <2>3, <2>6, <2>7, RangeAnswer
  <2>9. /\ r.edits = TextEdits(t, <<[from |-> from, to |-> to, insert |-> lines]>>, enc, endings)
        /\ r.text = Replaced(t, from, to, lines)
    BY <2>3 DEF Answer
  <2> QED BY <2>2, <2>8, <2>9
<1> QED BY <1>3, <1>4

\* What the server makes of the first message.
LEMMA MessageHandled ==
  ASSUME SyncInv, NEW m \in Messages, NEW before \in Views, NEW after \in Views,
         NEW enc, enc = encoding, NEW doc, doc = document,
         Shows(before, doc), Becomes(before, m, after, enc),
         \/ m.method = "didOpen"   /\ DidOpen(m)
         \/ m.method = "didChange" /\ DidChange(m)
         \/ m.method = "didClose"  /\ DidClose
         \/ m.method = "formatting" /\ (DocumentFormatting \/ DocumentRangeFormatting)
  PROVE  /\ \E new : new = document' /\ Shows(after, new)
         /\ document' = Closed \/ (/\ document' \in Document /\ document'.contents \in EditorTexts
                                   /\ document'.index = document'.contents)
         /\ panicked' = FALSE
<1>1. panicked = FALSE /\ enc \in Encodings /\ after.text \in EditorTexts /\ after.version \in Nat
  BY DEF SyncInv, TypeCorrect, Views
<1>2. CASE m.method = "didOpen" /\ DidOpen(m)
  <2>1. /\ document' = NewDocument(m.text, m.version) /\ panicked' = FALSE
    BY <1>1, <1>2 DEF DidOpen
  <2>2. PICK endings : /\ after.open /\ m.version = after.version
                       /\ m.text = WithEndings(after.text, endings)
    BY <1>2 DEF Becomes
  <2>3. PICK t \in EditorTexts, version \in Nat, new \in {document'} :
          t = after.text /\ version = after.version
    BY <1>1
  <2>4. new = NewDocument(WithEndings(t, endings), version)
    BY <2>1, <2>2, <2>3
  <2>5. new.contents = t /\ new.index = t /\ new.version = version
    BY <2>4, NewDocumentIs
  <2>6. new \in Document
    BY <2>4, OpenedIs
  <2>7. new # Closed
    BY <2>6, ClosedAssumption
  <2>8. Shows(after, new)
    BY <2>2, <2>3, <2>5, <2>7 DEF Shows
  <2> QED BY <2>1, <2>3, <2>5, <2>6, <2>8
<1>3. CASE m.method = "didChange" /\ DidChange(m)
  <2>1. /\ before.open /\ after.open /\ m.version = after.version /\ before.version <= m.version
        /\ Takes(m.changes, before.text, after.text, enc)
    BY <1>3 DEF Becomes
  <2>2. doc # Closed /\ before.text = doc.contents /\ before.version = doc.version
    BY <2>1 DEF Shows
  <2>3. /\ doc \in Document /\ doc.contents \in EditorTexts /\ doc.index = doc.contents
        /\ doc.version \in Nat
    BY <2>2 DEF SyncInv, TypeCorrect, Document
  <2>4. ~ m.version < doc.version /\ m.version \in Nat
    BY <1>1, <2>1, <2>2, <2>3
  <2>5. PICK made : made = ApplyTextChanges(doc.contents, doc.index, m.changes, enc)
    OBVIOUS
  <2>6. made \in Synced(after.text)
    BY <1>1, <2>1, <2>2, <2>3, <2>5, ChangedIs
  <2>7. made.contents = after.text /\ made.panicked = FALSE
    BY <2>6 DEF Synced
  <2>8. /\ panicked' = made.panicked
        /\ document' = [document EXCEPT !.contents = made.contents, !.index = made.contents,
                                        !.version = m.version]
    BY <1>3, <2>2, <2>4, <2>5 DEF DidChange, OnDidChange
  <2>9. PICK new : new = document'
    OBVIOUS
  <2>10. new = [doc EXCEPT !.contents = made.contents, !.index = made.contents,
                           !.version = m.version]
    BY <2>8, <2>9
  <2>11. /\ new \in Document /\ new.contents = after.text /\ new.index = after.text
         /\ new.version = after.version
    <3>1. after.text \in Seq(Char)
      BY <1>1 DEF EditorTexts, Text
    <3> QED BY <1>1, <2>1, <2>3, <2>7, <2>10, <3>1 DEF Document
  <2>12. new # Closed
    BY <2>11, ClosedAssumption
  <2>13. Shows(after, new)
    BY <2>1, <2>11, <2>12 DEF Shows
  <2> QED BY <1>1, <2>7, <2>8, <2>9, <2>11, <2>13
<1>4. CASE m.method = "didClose" /\ DidClose
  <2>1. document' = Closed /\ panicked' = FALSE
    BY <1>1, <1>4 DEF DidClose
  <2>2. ~after.open
    BY <1>4 DEF Becomes
  <2> QED BY <2>1, <2>2 DEF Shows
<1>5. CASE m.method = "formatting" /\ (DocumentFormatting \/ DocumentRangeFormatting)
  <2>1. document' = document /\ panicked' = FALSE
    BY <1>1, <1>5 DEF DocumentFormatting, DocumentRangeFormatting
  <2>2. after = before
    BY <1>5 DEF Becomes
  <2>3. document = Closed \/ (/\ document \in Document /\ document.contents \in EditorTexts
                              /\ document.index = document.contents)
    BY DEF SyncInv, TypeCorrect
  <2> QED BY <2>1, <2>2, <2>3
<1> QED BY <1>2, <1>3, <1>4, <1>5

\* The server takes the first message from the queue.
LEMMA HandleStep ==
  ASSUME SyncInv, Handle
  PROVE  SyncInv'
<1>1. /\ queue # <<>> /\ queue' = Tail(queue)
      /\ UNCHANGED <<encoding, notebook, editor, asked, changes>>
  BY DEF Handle
<1>2. PICK doc, q, ed, enc :
        /\ doc = document /\ q = queue /\ ed = editor /\ enc = encoding
        /\ Linked(doc, q, ed, enc)
  BY DEF SyncInv, Following
<1>3. q \in Seq(Messages) /\ q # <<>> /\ enc \in Encodings
  BY <1>1, <1>2 DEF SyncInv, TypeCorrect
<1>4. /\ Tail(q) \in Seq(Messages) /\ Head(q) = q[1] /\ Head(q) \in Messages
      /\ Len(Tail(q)) = Len(q) - 1 /\ Len(q) \in Nat \ {0}
      /\ \A i \in 1 .. Len(q) - 1 : Tail(q)[i] = q[i + 1]
      /\ Len(q) = 1 <=> Tail(q) = <<>>
  BY <1>3, TailIs
<1>5. PICK m \in Messages : m = Head(q)
  BY <1>4
<1>6. \/ m.method = "didOpen"   /\ DidOpen(m)
      \/ m.method = "didChange" /\ DidChange(m)
      \/ m.method = "didClose"  /\ DidClose
      \/ m.method = "formatting" /\ (DocumentFormatting \/ DocumentRangeFormatting)
  BY <1>2, <1>5 DEF Handle
<1>7. PICK new : new = document'
  OBVIOUS
<1>8. ASSUME NEW v \in Views, NEW w \in Views, Shows(v, doc), Becomes(v, m, w, enc)
      PROVE  /\ Shows(w, new)
             /\ document' = Closed \/ (/\ document' \in Document
                                       /\ document'.contents \in EditorTexts
                                       /\ document'.index = document'.contents)
             /\ panicked' = FALSE
  <2>1. /\ \E d : d = document' /\ Shows(w, d)
        /\ document' = Closed \/ (/\ document' \in Document /\ document'.contents \in EditorTexts
                                  /\ document'.index = document'.contents)
        /\ panicked' = FALSE
    BY <1>2, <1>6, <1>8, MessageHandled
  <2> QED BY <1>7, <2>1
<1>9. \E v \in Views, w \in Views : Shows(v, doc) /\ Becomes(v, m, w, enc)
  <2>1. PICK views : /\ \A i \in 0 .. Len(q) : views[i] \in Views
                     /\ \A i \in 1 .. Len(q) : Becomes(views[i - 1], q[i], views[i], enc)
                     /\ Shows(views[0], doc)
    BY <1>2 DEF Linked
  <2>2. 0 \in 0 .. Len(q) /\ 1 \in 0 .. Len(q) /\ 1 \in 1 .. Len(q) /\ 1 - 1 = 0
    BY <1>4
  <2>3. Becomes(views[0], q[1], views[1], enc)
    <3>1. Becomes(views[1 - 1], q[1], views[1], enc)
      BY <2>1, <2>2
    <3> QED BY <2>2, <3>1
  <2> QED BY <1>4, <1>5, <2>1, <2>2, <2>3
<1>10. TypeCorrect'
  <2>1. queue' \in Seq(Messages)
    BY <1>1, <1>2, <1>4
  <2>2. /\ document' = Closed \/ (/\ document' \in Document /\ document'.contents \in EditorTexts
                                  /\ document'.index = document'.contents)
        /\ panicked' = FALSE
    BY <1>8, <1>9
  <2> QED BY <1>1, <2>1, <2>2 DEF SyncInv, TypeCorrect
<1>11. Following'
  <2>1. \A v, w \in Views : Shows(v, doc) /\ Becomes(v, Head(q), w, enc) => Shows(w, new)
    BY <1>5, <1>8
  <2>2. Linked(new, Tail(q), ed, enc)
    BY <1>2, <1>3, <2>1, LinkedHandle
  <2>3. PICK p : p = Tail(q)
    OBVIOUS
  <2> QED BY <1>1, <1>2, <1>7, <2>2, <2>3 DEF Following
<1>12. ASSUME NEW i \in 1 .. Len(queue'), queue'[i].method = "formatting"
       PROVE  /\ i + 1 \in 1 .. Len(queue) /\ queue[i + 1].method = "formatting"
              /\ Len(queue') = Len(queue) - 1 /\ m.method # "formatting"
  <2>1. /\ Len(queue) \in Nat /\ Len(queue') = Len(queue) - 1
        /\ \A k \in 1 .. Len(queue) - 1 : queue'[k] = queue[k + 1]
    BY <1>1, <1>2, <1>4
  <2>2. i + 1 \in 1 .. Len(queue) /\ 1 \in 1 .. Len(queue) /\ i + 1 # 1
        /\ i \in 1 .. Len(queue) - 1
    BY <2>1
  <2>3. queue[i + 1].method = "formatting"
    BY <1>12, <2>1, <2>2
  <2>4. queue[1].method # "formatting"
    <3>1. PICK k \in 1 .. Len(queue) : k = i + 1
      BY <2>2
    <3> QED BY <2>2, <2>3, <3>1 DEF SyncInv, Asking
  <2> QED BY <1>2, <1>4, <1>5, <2>1, <2>2, <2>3, <2>4
<1>13. ASSUME m.method = "formatting"
       PROVE  asked # NoVersion /\ reply = NoReply
              /\ (editor # Closed /\ asked = editor.version => queue' = <<>>)
  <2>1. 1 \in 1 .. Len(queue) /\ queue[1].method = "formatting"
    BY <1>2, <1>4, <1>5, <1>13
  <2>2. editor # Closed /\ asked = editor.version => Len(queue) = 1
    BY <2>1 DEF SyncInv, Asking
  <2>3. Len(queue) = 1 => queue' = <<>>
    BY <1>1, <1>2, <1>4
  <2> QED BY <2>1, <2>2, <2>3 DEF SyncInv, Asking
<1>14. m.method # "formatting" => reply' = reply
  BY <1>6 DEF DidOpen, DidChange, DidClose
<1>15. asked = NoVersion => reply = NoReply /\ m.method # "formatting"
  BY <1>13 DEF SyncInv, Asking
<1>16. Asking'
  <2>1. asked' = NoVersion =>
          reply' = NoReply /\ \A i \in 1 .. Len(queue') : queue'[i].method # "formatting"
    <3>1. ASSUME asked = NoVersion, NEW i \in 1 .. Len(queue'), queue'[i].method = "formatting"
          PROVE  FALSE
      <4>1. PICK k \in 1 .. Len(queue) : queue[k].method = "formatting"
        BY <1>12, <3>1
      <4> QED BY <3>1, <4>1 DEF SyncInv, Asking
    <3> QED BY <1>1, <1>14, <1>15, <3>1
  <2>2. reply' # NoReply => \A i \in 1 .. Len(queue') : queue'[i].method # "formatting"
    <3>1. ASSUME reply' # NoReply, NEW i \in 1 .. Len(queue'), queue'[i].method = "formatting"
          PROVE  FALSE
      <4>1. PICK k \in 1 .. Len(queue) : queue[k].method = "formatting"
        BY <1>12, <3>1
      <4>2. reply # NoReply
        BY <1>12, <1>14, <3>1
      <4> QED BY <4>1, <4>2 DEF SyncInv, Asking
    <3> QED BY <3>1
  <2>3. \A i, j \in 1 .. Len(queue') :
          queue'[i].method = "formatting" /\ queue'[j].method = "formatting" => i = j
    <3>1. ASSUME NEW i \in 1 .. Len(queue'), NEW j \in 1 .. Len(queue'),
                 queue'[i].method = "formatting", queue'[j].method = "formatting"
          PROVE  i = j
      <4>1. PICK k \in 1 .. Len(queue) : k = i + 1 /\ queue[k].method = "formatting"
        BY <1>12, <3>1
      <4>2. PICK n \in 1 .. Len(queue) : n = j + 1 /\ queue[n].method = "formatting"
        BY <1>12, <3>1
      <4>3. k = n
        BY <4>1, <4>2 DEF SyncInv, Asking
      <4> QED BY <4>1, <4>2, <4>3
    <3> QED BY <3>1
  <2>4. /\ editor' # Closed => asked' <= editor'.version
        /\ editor' = Closed => asked' <= 0
    BY <1>1 DEF SyncInv, Asking
  <2>5. ASSUME editor' # Closed, asked' = editor'.version
        PROVE  /\ reply' # NoReply => queue' = <<>>
               /\ \A i \in 1 .. Len(queue') : queue'[i].method = "formatting" => i = Len(queue')
    <3>1. editor # Closed /\ asked = editor.version
      BY <1>1, <2>5
    <3>2. reply' # NoReply => queue' = <<>>
      <4>1. CASE m.method = "formatting"
        BY <1>13, <3>1, <4>1
      <4>2. CASE m.method # "formatting"
        <5>1. reply = NoReply
          BY <1>1, <3>1 DEF SyncInv, Asking
        <5> QED BY <1>14, <4>2, <5>1
      <4> QED BY <4>1, <4>2
    <3>3. ASSUME NEW i \in 1 .. Len(queue'), queue'[i].method = "formatting"
          PROVE  i = Len(queue')
      <4>1. PICK k \in 1 .. Len(queue) : k = i + 1 /\ queue[k].method = "formatting"
        BY <1>12, <3>3
      <4>2. k = Len(queue)
        BY <3>1, <4>1 DEF SyncInv, Asking
      <4>3. Len(queue') = Len(queue) - 1 /\ Len(queue) \in Nat
        BY <1>2, <1>4, <1>12, <3>3
      <4> QED BY <4>1, <4>2, <4>3
    <3> QED BY <3>2, <3>3
  <2> QED BY <2>1, <2>2, <2>3, <2>4, <2>5 DEF Asking
<1>17. Answering'
  <2>1. PICK r : r = reply'
    OBVIOUS
  <2>2. ASSUME reply' # NoReply, editor' # Closed, asked' = editor'.version, reply'.edits # <<>>
        PROVE  Gives(new.contents, r.edits, r.text, enc)
    <3>1. editor # Closed /\ asked = editor.version
      BY <1>1, <2>2
    <3>2. m.method = "formatting"
      <4>1. CASE m.method # "formatting"
        <5>1. reply # NoReply
          BY <1>14, <2>2, <4>1
        <5>2. queue = <<>>
          BY <3>1, <5>1 DEF SyncInv, Asking
        <5> QED BY <1>1, <5>2
      <4> QED BY <4>1
    <3>3. DocumentFormatting \/ DocumentRangeFormatting
      BY <1>6, <3>2
    <3>4. document' = document
      BY <3>3 DEF DocumentFormatting, DocumentRangeFormatting
    <3>5. Gives(doc.contents, r.edits, r.text, enc)
      BY <1>2, <2>1, <2>2, <3>3, FormattingGives
    <3> QED BY <1>2, <1>7, <3>4, <3>5
  <2> QED BY <1>1, <1>2, <1>7, <2>1, <2>2 DEF Answering
<1> QED BY <1>10, <1>11, <1>16, <1>17 DEF SyncInv

-----------------------------------------------------------------------------
(* The theorems *)

\* Every step keeps the invariant.
LEMMA SyncStep == SyncInv /\ [SyncNext]_documentVars => SyncInv'
<1> SUFFICES ASSUME SyncInv, [SyncNext]_documentVars
             PROVE  SyncInv'
  OBVIOUS
<1>1. CASE Handle
  BY <1>1, HandleStep
<1>2. CASE Open
  BY <1>2, OpenStep
<1>3. CASE Close
  BY <1>3, CloseStep
<1>4. CASE Edit
  BY <1>4, EditStep
<1>5. CASE SendBatch
  BY <1>5, SendBatchStep
<1>6. CASE Ask
  BY <1>6, AskStep
<1>7. CASE Receive
  BY <1>7, ReceiveStep
<1>8. CASE UNCHANGED documentVars
  <2>1. UNCHANGED <<encoding, editor, document, queue, reply, asked, panicked>>
    BY <1>8 DEF documentVars
  <2>2. TypeCorrect'
    BY <2>1 DEF SyncInv, TypeCorrect
  <2>3. Following'
    BY <2>1 DEF SyncInv, Following
  <2>4. Asking'
    BY <2>1 DEF SyncInv, Asking
  <2>5. Answering'
    BY <2>1 DEF SyncInv, Answering
  <2> QED BY <2>2, <2>3, <2>4, <2>5 DEF SyncInv
<1> QED BY <1>1, <1>2, <1>3, <1>4, <1>5, <1>6, <1>7, <1>8 DEF SyncNext

\* So it always holds.
LEMMA SyncAlways == SyncSpec => []SyncInv
<1> QED BY SyncStart, SyncStep, PTL DEF SyncSpec

\* The editor's text never has a carriage return and the server's text is never without
\* an index of its own: the variables keep their types, for any document, line endings
\* and encoding, and for any number of changes and messages.
THEOREM SyncTypeCorrect == SyncSpec => []TypeCorrect
<1>1. SyncInv => TypeCorrect
  BY DEF SyncInv
<1> QED BY <1>1, SyncAlways, PTL

\* documents.rs unwraps each position it converts and each version it compares: neither
\* ever fails, for any text, encoding and line endings, and any batches of changes.
THEOREM Survives == SyncSpec => []ServerSurvives
<1>1. SyncInv => ServerSurvives
  BY DEF SyncInv, TypeCorrect, ServerSurvives
<1> QED BY <1>1, SyncAlways, PTL

\* Once every message is handled the server's document is the editor's, whatever was typed,
\* reopened, sent in batches or edited by the server itself meanwhile.
THEOREM Follows == SyncSpec => []ServerFollowsEditor
<1>1. SyncInv => ServerFollowsEditor
  <2> SUFFICES ASSUME SyncInv
               PROVE  ServerFollowsEditor
    OBVIOUS
  <2>1. ASSUME queue = <<>>, editor # Closed, editor.batch = <<>>
        PROVE  document.contents = editor.text
    <3>1. PICK doc, q, ed, enc :
            /\ doc = document /\ q = queue /\ ed = editor /\ enc = encoding
            /\ Linked(doc, q, ed, enc)
      BY DEF SyncInv, Following
    <3>2. Linked(doc, <<>>, ed, enc) /\ ed # Closed /\ ed.batch = <<>>
      BY <2>1, <3>1
    <3>3. doc.contents = ed.text
      BY <3>2, LinkedNow
    <3> QED BY <3>1, <3>3
  <2>2. document # Closed => document.index = document.contents
    BY DEF SyncInv, TypeCorrect
  <2> QED BY <2>1, <2>2 DEF ServerFollowsEditor
<1> QED BY <1>1, SyncAlways, PTL

\* The edits of an answer that is still wanted make of the editor's text the text that was
\* formatted, for any diff of the whole text and any statements in it, in every encoding,
\* unless the line endings are set to crlf.
THEOREM EditsFormat ==
  ASSUME Setting # "Crlf"
  PROVE  SyncSpec => []EditsGiveFormattedText
<1>1. SyncInv => EditsGiveFormattedText
  <2> SUFFICES ASSUME SyncInv, reply # NoReply, Wanted, reply.edits # <<>>
               PROVE  Edited(editor.text, reply.edits) = EditorText(reply.text)
    BY DEF EditsGiveFormattedText
  <2>1. editor # Closed /\ editor.version = asked /\ editor.batch = <<>>
    BY DEF Wanted
  <2>2. queue = <<>>
    BY <2>1 DEF SyncInv, Asking
  <2>3. PICK doc, q, ed, enc :
          /\ doc = document /\ q = queue /\ ed = editor /\ enc = encoding
          /\ Linked(doc, q, ed, enc)
    BY DEF SyncInv, Following
  <2>4. Linked(doc, <<>>, ed, enc) /\ ed # Closed /\ ed.batch = <<>>
    BY <2>1, <2>2, <2>3
  <2>5. doc.contents = ed.text
    BY <2>4, LinkedNow
  <2>6. PICK edits, text : edits = reply.edits /\ text = reply.text
    OBVIOUS
  <2>7. Gives(doc.contents, edits, text, enc)
    BY <2>1, <2>3, <2>6 DEF SyncInv, Answering
  <2>8. ed.text \in EditorTexts /\ encoding \in Encodings
    BY <2>1, <2>3 DEF SyncInv, TypeCorrect
  <2>9. PICK t \in EditorTexts : t = ed.text
    BY <2>8
  <2>10. Edited(t, edits) = EditorText(text)
    BY <2>3, <2>5, <2>7, <2>8, <2>9, GivesText
  <2> QED BY <2>3, <2>6, <2>9, <2>10
<1> QED BY <1>1, SyncAlways, PTL

=============================================================================
