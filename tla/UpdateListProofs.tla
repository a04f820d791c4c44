-------------------------- MODULE UpdateListProofs --------------------------
(***************************************************************************)
(* Whatever lists are loaded, one after the other: an entry is added as it *)
(* was written, the mirrors are those of the list, and no list leaves a    *)
(* field behind for the next.                                              *)
(***************************************************************************)
EXTENDS UpdateList, SequenceTheorems, WellFoundedInduction, TLAPS

-----------------------------------------------------------------------------
(***************************************************************************)
(* Induction over data.  A set of numbers has a least element, so that     *)
(* what holds for n whenever it holds for n - 1 fails for no n.            *)
(***************************************************************************)
LEMMA LessIsWellFounded ==
  IsWellFoundedOn({ p \in Nat \X Nat : p[1] < p[2] }, Nat)
BY NatLessThanWellFounded DEF OpToRel

LEMMA Least ==
  ASSUME NEW T, T \subseteq Nat, T # {}
  PROVE  \E n \in T : \A m \in T : n <= m
<1> DEFINE R == { p \in Nat \X Nat : p[1] < p[2] }
<1>1. IsWellFoundedOn(R, Nat)
  BY LessIsWellFounded
<1>2. \A x, y \in Nat : y < x => <<y, x>> \in R
  OBVIOUS
<1> HIDE DEF R
<1>3. PICK x \in T : \A y \in T : <<y, x>> \notin R
  BY <1>1, WFMin
<1>4. \A y \in T : ~(y < x)
  BY <1>2, <1>3
<1>5. QED
  BY <1>4

(* The least element, for the inductions below: T is where they fail.      *)
LEMMA NoLeast ==
  ASSUME NEW T, T \subseteq Nat, 0 \notin T,
         \A n \in Nat : n \notin T => n + 1 \notin T
  PROVE  T = {}
<1> SUFFICES ASSUME T # {} PROVE FALSE
  OBVIOUS
<1>1. PICK n \in T : \A m \in T : n <= m
  BY Least
<1>2. n - 1 \in Nat /\ n - 1 \notin T
  BY <1>1
<1>3. QED
  BY <1>1, <1>2

-----------------------------------------------------------------------------
(***************************************************************************)
(* FlattenSeq: off[k] is where the k-th sequence ends in the whole.        *)
(***************************************************************************)
IsOffset(off, seqs) ==
  /\ off \in [0..Len(seqs) -> Nat]
  /\ off[0] = 0
  /\ \A k \in 1..Len(seqs) : off[k] = off[k - 1] + Len(seqs[k])

LEMMA OffsetsGrow ==
  ASSUME NEW S, NEW n \in Nat, NEW seqs \in [1..n -> Seq(S)], Len(seqs) = n,
         NEW off, IsOffset(off, seqs)
  PROVE  \A j, k \in 0..n : j <= k => off[j] <= off[k]
<1> SUFFICES ASSUME NEW j \in 0..Len(seqs)
             PROVE  \A k \in 0..Len(seqs) : j <= k => off[j] <= off[k]
  OBVIOUS
<1>0. /\ Len(seqs) \in Nat
      /\ \A k \in 0..Len(seqs) : k \in Nat /\ off[k] \in Nat
      /\ \A k \in 1..Len(seqs) : Len(seqs[k]) \in Nat
  <2>1. Len(seqs) \in Nat
    BY LenProperties
  <2>2. \A k \in 1..Len(seqs) : seqs[k] \in Seq(S)
    OBVIOUS
  <2>3. QED
    BY <2>1, <2>2, LenProperties DEF IsOffset
<1> DEFINE T == { k \in Nat : k \in 0..Len(seqs) /\ j <= k /\ off[j] > off[k] }
<1>1. 0 \notin T
  BY DEF IsOffset
<1>2. ASSUME NEW i \in Nat, i \notin T, i + 1 \in T PROVE FALSE
  <2>1. i + 1 \in 0..Len(seqs) /\ off[i + 1] < off[j] /\ j <= i
    BY <1>0, <1>2
  <2>2. i + 1 \in 1..Len(seqs) /\ i \in 0..Len(seqs)
    BY <1>0, <2>1
  <2>3. off[i + 1] = off[i] + Len(seqs[i + 1]) /\ Len(seqs[i + 1]) \in Nat
    BY <1>0, <2>2 DEF IsOffset
  <2>4. off[i] < off[j]
    BY <1>0, <2>1, <2>2, <2>3
  <2>5. QED
    BY <1>2, <2>1, <2>2, <2>4
<1>3. T = {}
  <2> HIDE DEF T
  <2> QED BY <1>1, <1>2, NoLeast DEF T
<1>4. QED
  BY <1>0, <1>3

InPart(q, off, seqs) ==
  \E k \in 1..Len(seqs) : \E j \in 1..Len(seqs[k]) : q = off[k - 1] + j

LEMMA InSomePart ==
  ASSUME NEW S, NEW n \in Nat, NEW seqs \in [1..n -> Seq(S)], Len(seqs) = n,
         NEW off, IsOffset(off, seqs), NEW q \in 1..off[Len(seqs)]
  PROVE  InPart(q, off, seqs)
<1> DEFINE T == { k \in Nat : k \in 0..Len(seqs) /\ q <= off[k] }
<1>1. Len(seqs) \in T /\ off[Len(seqs)] \in Nat
  BY DEF IsOffset
<1>2. PICK k \in T : \A m \in T : k <= m
  <2> HIDE DEF T
  <2> QED BY <1>1, Least DEF T
<1>3. k \in 1..Len(seqs) /\ k - 1 \in 0..Len(seqs)
  BY <1>1, <1>2 DEF IsOffset
<1>4. off[k] = off[k - 1] + Len(seqs[k]) /\ off[k - 1] \in Nat
  BY <1>3 DEF IsOffset
<1>5. k - 1 \notin T
  BY <1>2, <1>3
<1>6. q > off[k - 1]
  BY <1>1, <1>3, <1>4, <1>5
<1>7. Len(seqs[k]) \in Nat /\ q <= off[k]
  BY <1>2, <1>3
<1>8. q - off[k - 1] \in 1..Len(seqs[k])
  BY <1>1, <1>4, <1>6, <1>7
<1>9. q = off[k - 1] + (q - off[k - 1])
  BY <1>1, <1>4
<1>10. QED
  BY <1>3, <1>8, <1>9 DEF InPart

(* The recursive function of FlattenSeq exists.                            *)
Joins(f, seqs, n) ==
  f = [i \in 1..n |-> IF i = 1 THEN seqs[i] ELSE f[i - 1] \o seqs[i]]

LEMMA JoinsExists ==
  ASSUME NEW seqs, NEW n \in Nat
  PROVE  \E f : Joins(f, seqs, n)
<1> DEFINE T == { m \in Nat : ~ \E f : Joins(f, seqs, m) }
<1>1. 0 \notin T
  <2> DEFINE f == [i \in 1..0 |-> seqs[i]]
  <2>1. Joins(f, seqs, 0)
    BY DEF Joins
  <2>2. QED
    BY <2>1
<1>2. ASSUME NEW m \in Nat, m \notin T PROVE m + 1 \notin T
  <2>1. PICK g : Joins(g, seqs, m)
    BY <1>2
  <2> DEFINE f == [i \in 1..m + 1 |->
                     IF i = m + 1
                     THEN IF m = 0 THEN seqs[i] ELSE g[m] \o seqs[i]
                     ELSE g[i]]
  <2>2. \A i \in 1..m : g[i] = IF i = 1 THEN seqs[i] ELSE g[i - 1] \o seqs[i]
    BY <2>1 DEF Joins
  <2>3. \A i \in 1..m : f[i] = g[i]
    OBVIOUS
  <2>4. f[m + 1] = IF m = 0 THEN seqs[m + 1] ELSE g[m] \o seqs[m + 1]
    OBVIOUS
  <2>5. \A i \in 1..m + 1 :
          f[i] = IF i = 1 THEN seqs[i] ELSE f[i - 1] \o seqs[i]
    <3> SUFFICES ASSUME NEW i \in 1..m + 1
                 PROVE f[i] = IF i = 1 THEN seqs[i] ELSE f[i - 1] \o seqs[i]
      OBVIOUS
    <3>1. CASE i = m + 1
      <4> HIDE DEF f
      <4>1. m # 0 => m \in 1..m /\ f[m] = g[m]
        BY <2>3
      <4>2. QED
        BY <2>4, <3>1, <4>1
    <3>2. CASE i # m + 1
      <4> HIDE DEF f
      <4>1. i \in 1..m /\ (i # 1 => i - 1 \in 1..m)
        BY <3>2
      <4>2. QED
        BY <2>2, <2>3, <4>1
    <3>3. QED
      BY <3>1, <3>2
  <2>6. Joins(f, seqs, m + 1)
    <3>1. f = [i \in 1..m + 1 |-> f[i]]
      OBVIOUS
    <3> HIDE DEF f
    <3>2. QED
      BY <2>5, <3>1 DEF Joins
  <2>7. QED
    BY <2>6
<1>3. T = {}
  <2> HIDE DEF T
  <2> QED BY <1>1, <1>2, NoLeast DEF T
<1>4. QED
  BY <1>3

Glued(c, a, b) ==
  /\ Len(a) \in Nat /\ Len(b) \in Nat
  /\ Len(c) = Len(a) + Len(b)
  /\ \A x \in 1..Len(a) : x \in 1..Len(c) /\ c[x] = a[x]
  /\ \A x \in 1..Len(b) : Len(a) + x \in 1..Len(c) /\ c[Len(a) + x] = b[x]

LEMMA Joined ==
  ASSUME NEW S, NEW a \in Seq(S), NEW b \in Seq(S), NEW c, c = a \o b
  PROVE  c \in Seq(S) /\ Glued(c, a, b)
<1>1. Len(a) \in Nat /\ Len(b) \in Nat
  BY LenProperties
<1>2. /\ c \in Seq(S)
      /\ Len(c) = Len(a) + Len(b)
      /\ \A i \in 1..Len(a) + Len(b) :
           c[i] = IF i <= Len(a) THEN a[i] ELSE b[i - Len(a)]
  BY ConcatProperties
<1>3. ASSUME NEW x \in 1..Len(a)
      PROVE  x \in 1..Len(c) /\ c[x] = a[x]
  BY <1>1, <1>2
<1>4. ASSUME NEW x \in 1..Len(b)
      PROVE  Len(a) + x \in 1..Len(c) /\ c[Len(a) + x] = b[x]
  <2>1. /\ Len(a) + x \in 1..Len(a) + Len(b)
        /\ ~(Len(a) + x <= Len(a))
        /\ Len(a) + x - Len(a) = x
    BY <1>1
  <2>2. QED
    BY <1>2, <2>1
<1>5. QED
  BY <1>1, <1>2, <1>3, <1>4 DEF Glued

(* The joins of a sequence of sequences: every element has its place.      *)
IsJoins(f, seqs, n) == f[0] = << >> /\ \A i \in 1..n : f[i] = f[i - 1] \o seqs[i]

Placed(f, seqs, n) ==
  \A k \in 1..n : \A j \in 1..Len(seqs[k]) :
    /\ Len(f[k - 1]) + j \in 1..Len(f[n])
    /\ f[n][Len(f[k - 1]) + j] = seqs[k][j]

LEMMA JoinedTypes ==
  ASSUME NEW S, NEW n \in Nat, NEW seqs \in [1..n -> Seq(S)], NEW f,
         IsJoins(f, seqs, n)
  PROVE  \A i \in 0..n : f[i] \in Seq(S) /\ Len(f[i]) \in Nat
<1> DEFINE T == { i \in Nat : i \in 0..n /\ f[i] \notin Seq(S) }
<1>1. 0 \notin T
  BY EmptySeq DEF IsJoins
<1>2. ASSUME NEW i \in Nat, i \notin T, i + 1 \in T PROVE FALSE
  <2>1. i + 1 \in 1..n /\ f[i] \in Seq(S)
    BY <1>2
  <2>2. (i + 1) - 1 = i
    OBVIOUS
  <2>3. f[i + 1] = f[i] \o seqs[i + 1] /\ seqs[i + 1] \in Seq(S)
    BY <2>1, <2>2 DEF IsJoins
  <2>4. f[i + 1] \in Seq(S)
    BY <2>1, <2>3, Joined, Zenon
  <2>5. QED
    BY <1>2, <2>4
<1>3. T = {}
  <2> HIDE DEF T
  <2> QED BY <1>1, <1>2, NoLeast DEF T
<1>4. ASSUME NEW i \in 0..n PROVE f[i] \in Seq(S)
  BY <1>3
<1>5. QED
  BY <1>4, LenProperties, Zenon

LEMMA JoinedElements ==
  ASSUME NEW S, NEW n \in Nat, NEW seqs \in [1..n -> Seq(S)], NEW f,
         IsJoins(f, seqs, n)
  PROVE  Placed(f, seqs, n)
<1> DEFINE T == { i \in Nat : i \in 0..n /\ ~Placed(f, seqs, i) }
<1>1. 0 \notin T
  BY DEF Placed
<1>2. ASSUME NEW i \in Nat, i \notin T, i + 1 \in T PROVE FALSE
  <2>0. i + 1 \in 0..n /\ Placed(f, seqs, i) /\ ~Placed(f, seqs, i + 1)
    BY <1>2
  <2> HIDE DEF T
  <2>1. i + 1 \in 1..n /\ i \in 0..n /\ (i + 1) - 1 = i
    BY <2>0
  <2>2. f[i] \in Seq(S) /\ seqs[i + 1] \in Seq(S)
    BY <2>1, JoinedTypes
  <2>3. f[i + 1] = f[i] \o seqs[i + 1]
    BY <2>1 DEF IsJoins
  <2> DEFINE a == f[i]
             b == seqs[i + 1]
             c == f[i + 1]
  <2>11. a \in Seq(S) /\ b \in Seq(S) /\ c = a \o b
    BY <2>2, <2>3
  <2> HIDE DEF a, b, c
  <2>12. /\ \A x \in 1..Len(a) : x \in 1..Len(c) /\ c[x] = a[x]
        /\ \A x \in 1..Len(b) : Len(a) + x \in 1..Len(c) /\ c[Len(a) + x] = b[x]
    BY <2>11, Joined DEF Glued
  <2>4. /\ \A x \in 1..Len(f[i]) :
             x \in 1..Len(f[i + 1]) /\ f[i + 1][x] = f[i][x]
        /\ \A x \in 1..Len(seqs[i + 1]) :
             /\ Len(f[i]) + x \in 1..Len(f[i + 1])
             /\ f[i + 1][Len(f[i]) + x] = seqs[i + 1][x]
    BY <2>12, Zenon DEF a, b, c
  <2>5. ASSUME NEW k \in 1..i + 1, NEW j \in 1..Len(seqs[k])
        PROVE  /\ Len(f[k - 1]) + j \in 1..Len(f[i + 1])
               /\ f[i + 1][Len(f[k - 1]) + j] = seqs[k][j]
    <3>1. CASE k = i + 1
      <4>1. k - 1 = i
        BY <3>1
      <4>2. QED
        BY <2>4, <3>1, <4>1, Zenon
    <3>2. CASE k # i + 1
      <4>1. k \in 1..i
        BY <3>2
      <4>2. /\ Len(f[k - 1]) + j \in 1..Len(f[i])
            /\ f[i][Len(f[k - 1]) + j] = seqs[k][j]
        BY <2>0, <4>1, Zenon DEF Placed
      <4>3. QED
        BY <2>4, <4>2, Zenon
    <3>3. QED
      BY <3>1, <3>2
  <2>6. Placed(f, seqs, i + 1)
    BY <2>5, Zenon DEF Placed
  <2>7. QED
    BY <2>0, <2>6
<1>3. T = {}
  <2> HIDE DEF T
  <2> QED BY <1>1, <1>2, NoLeast DEF T
<1>4. QED
  BY <1>3

(* FlattenSeq is the last of the joins.                                    *)
LEMMA FlattenJoins ==
  ASSUME NEW S, NEW n \in Nat, NEW seqs \in [1..n -> Seq(S)], Len(seqs) = n
  PROVE  \E f : IsJoins(f, seqs, n) /\ FlattenSeq(seqs) = f[n]
<1>1. CASE n = 0
  <2>1. FlattenSeq(seqs) = << >>
    BY <1>1 DEF FlattenSeq
  <2> DEFINE f == [i \in 0..0 |-> << >>]
  <2>2. f[0] = << >> /\ f[n] = << >>
    BY <1>1
  <2> HIDE DEF f
  <2>3. \A i \in 1..n : f[i] = f[i - 1] \o seqs[i]
    BY <1>1
  <2>4. QED
    BY <2>1, <2>2, <2>3, Zenon DEF IsJoins
<1>2. CASE n # 0
  <2> DEFINE flatten == CHOOSE f : Joins(f, seqs, n)
  <2>1. Joins(flatten, seqs, n)
    BY JoinsExists
  <2>2. FlattenSeq(seqs) = flatten[n]
    BY <1>2 DEF FlattenSeq, Joins
  <2> HIDE DEF flatten
  <2> DEFINE f == [i \in 0..n |-> IF i = 0 THEN << >> ELSE flatten[i]]
  <2>3. \A i \in 1..n :
          flatten[i] = IF i = 1 THEN seqs[i] ELSE flatten[i - 1] \o seqs[i]
    BY <2>1 DEF Joins
  <2>4. f[0] = << >> /\ \A i \in 1..n : f[i] = flatten[i]
    OBVIOUS
  <2> HIDE DEF f
  <2>5. ASSUME NEW i \in 1..n PROVE f[i] = f[i - 1] \o seqs[i]
    <3>0. seqs[i] \in Seq(S)
      OBVIOUS
    <3>1. CASE i = 1
      <4>1. f[i] = seqs[i] /\ f[i - 1] = << >>
        BY <2>3, <2>4, <3>1
      <4>2. QED
        BY <3>0, <4>1, ConcatEmptySeq
    <3>2. CASE i # 1
      <4>1. i - 1 \in 1..n
        BY <3>2
      <4>2. QED
        BY <2>3, <2>4, <3>2, <4>1
    <3>3. QED
      BY <3>1, <3>2
  <2>6. n \in 1..n
    BY <1>2
  <2>7. FlattenSeq(seqs) = f[n]
    BY <2>2, <2>4, <2>6
  <2>8. QED
    BY <2>4, <2>5, <2>7, Zenon DEF IsJoins
<1>3. QED
  BY <1>1, <1>2

(* Every element of the parts is in its place in the whole.                *)
Flat(w, off, seqs) ==
  /\ IsOffset(off, seqs) /\ Len(w) = off[Len(seqs)]
  /\ \A k \in 1..Len(seqs) : \A j \in 1..Len(seqs[k]) : w[off[k - 1] + j] = seqs[k][j]

LEMMA Flattened ==
  ASSUME NEW S, NEW n \in Nat, NEW seqs \in [1..n -> Seq(S)], Len(seqs) = n
  PROVE  /\ FlattenSeq(seqs) \in Seq(S)
         /\ \E off : Flat(FlattenSeq(seqs), off, seqs)
<1>1. PICK f : IsJoins(f, seqs, n) /\ FlattenSeq(seqs) = f[n]
  BY FlattenJoins
<1>2. n \in 0..n /\ \A k \in 1..n : k \in 0..n /\ k - 1 \in 0..n
  OBVIOUS
<1>3. \A i \in 0..n : f[i] \in Seq(S) /\ Len(f[i]) \in Nat
  BY <1>1, JoinedTypes
<1>4. Placed(f, seqs, n)
  BY <1>1, JoinedElements
<1> DEFINE ends == [i \in 0..n |-> Len(f[i])]
<1>5. ends \in [0..n -> Nat] /\ \A i \in 0..n : ends[i] = Len(f[i])
  BY <1>3
<1> HIDE DEF ends
<1>6. IsOffset(ends, seqs)
  <2>1. ends[0] = 0
    BY <1>1, <1>5, EmptySeq DEF IsJoins
  <2>2. ASSUME NEW k \in 1..n PROVE ends[k] = ends[k - 1] + Len(seqs[k])
    <3>1. Len(f[k - 1] \o seqs[k]) = Len(f[k - 1]) + Len(seqs[k])
      BY <1>2, <1>3, ConcatProperties
    <3>2. QED
      BY <1>1, <1>2, <1>5, <3>1 DEF IsJoins
  <2>3. QED
    BY <1>5, <2>1, <2>2 DEF IsOffset
<1>7. Len(FlattenSeq(seqs)) = ends[n]
  BY <1>1, <1>2, <1>5
<1>8. \A k \in 1..n : \A j \in 1..Len(seqs[k]) :
        FlattenSeq(seqs)[ends[k - 1] + j] = seqs[k][j]
  BY <1>1, <1>2, <1>4, <1>5 DEF Placed
<1>9. FlattenSeq(seqs) \in Seq(S)
  BY <1>1, <1>2, <1>3
<1>10. Flat(FlattenSeq(seqs), ends, seqs)
  BY <1>6, <1>7, <1>8 DEF Flat
<1>11. QED
  BY <1>9, <1>10

(* How far a sequence has been read.                                       *)
LEMMA ReadSoFar ==
  ASSUME NEW S, NEW s \in Seq(S)
  PROVE  /\ SubSeq(s, 1, 0) = << >>
         /\ SubSeq(s, 1, Len(s)) = s
         /\ \A j \in 0..Len(s) : SubSeq(s, 1, j) \in Seq(S)
         /\ \A j \in 1..Len(s) : SubSeq(s, 1, j) = Append(SubSeq(s, 1, j - 1), s[j])
<1>1. SubSeq(s, 1, 0) = << >> /\ SubSeq(s, 1, Len(s)) = s
  BY SubSeqEmpty, SubSeqFull
<1>2. Len(s) \in Nat /\ \A j \in 1..Len(s) : s[j] \in S
  BY LenProperties
<1>3. ASSUME NEW j \in 0..Len(s) PROVE SubSeq(s, 1, j) \in Seq(S)
  <2>1. j \in Int /\ 1 \in Int /\ \A i \in 1..j : s[i] \in S
    BY <1>2
  <2>2. QED
    BY <2>1, SubSeqProperties, Zenon
<1>4. ASSUME NEW j \in 1..Len(s)
      PROVE  SubSeq(s, 1, j) = Append(SubSeq(s, 1, j - 1), s[j])
  <2>1. j - 1 \in 0..Len(s) /\ 1 \in 1..Len(s) /\ j \in 1..Len(s) /\ s[j] \in S
    BY <1>2
  <2>2. SubSeq(s, 1, j - 1) \in Seq(S)
    BY <1>3, <2>1
  <2>3. SubSeq(s, 1, j) = SubSeq(s, 1, j - 1) \o <<s[j]>>
    BY <2>1, SubSeqRecursiveSecond
  <2>4. Append(SubSeq(s, 1, j - 1), s[j]) = SubSeq(s, 1, j - 1) \o <<s[j]>>
    BY <2>1, <2>2, AppendIsConcat
  <2>5. QED
    BY <2>3, <2>4
<1>5. QED
  BY <1>1, <1>3, <1>4

(* What there is to read of it.                                            *)
LEMMA LeftToRead ==
  ASSUME NEW S, NEW s \in Seq(S), NEW j \in Nat, j <= Len(s)
  PROVE  /\ j = Len(s) => SubSeq(s, j + 1, Len(s)) = << >>
         /\ j < Len(s) => /\ SubSeq(s, j + 1, Len(s)) # << >>
                          /\ Head(SubSeq(s, j + 1, Len(s))) = s[j + 1]
                          /\ Tail(SubSeq(s, j + 1, Len(s))) = SubSeq(s, j + 2, Len(s))
<1>1. Len(s) \in Nat /\ \A i \in 1..Len(s) : s[i] \in S
  BY LenProperties, ElementOfSeq
<1>2. j = Len(s) => SubSeq(s, j + 1, Len(s)) = << >>
  BY <1>1, SubSeqEmpty
<1>3. ASSUME j < Len(s)
      PROVE  /\ SubSeq(s, j + 1, Len(s)) # << >>
             /\ Head(SubSeq(s, j + 1, Len(s))) = s[j + 1]
             /\ Tail(SubSeq(s, j + 1, Len(s))) = SubSeq(s, j + 2, Len(s))
  <2> DEFINE m == j + 1
             n == Len(s)
  <2>1. m \in 1..n /\ n \in m..n /\ m + 1 = j + 2 /\ m \in Int /\ n \in Int
    BY <1>1, <1>3
  <2>2. \A i \in m..n : s[i] \in S
    BY <1>1, <2>1
  <2> HIDE DEF m
  <2>3. Len(SubSeq(s, m, n)) = n - m + 1 /\ n - m + 1 # 0
    BY <2>1, <2>2, SubSeqProperties
  <2>4. SubSeq(s, m, n) # << >>
    BY <2>3, EmptySeq
  <2>5. Head(SubSeq(s, m, n)) = s[m] /\ Tail(SubSeq(s, m, n)) = SubSeq(s, m + 1, n)
    BY <2>1, HeadTailOfSubSeq
  <2>6. QED
    BY <2>1, <2>4, <2>5 DEF m
<1>4. QED
  BY <1>2, <1>3

-----------------------------------------------------------------------------
(***************************************************************************)
(* The lines of an entry.  part[q] is what the fields are after q of them: *)
(* no line but one that continues an expandable field finds its field set, *)
(* and no component finds a version.                                       *)
(***************************************************************************)
Lines  == [key : Keys \union {"Mirror", "Product"}, val : Texts]
Fields == [Keys -> Seq(Texts)]

GrowsBy(f, l, g) ==
  /\ l.key \in Keys /\ l.val \in Texts
  /\ g = [f EXCEPT ![l.key] = Append(@, l.val)]
  /\ l.key \notin Expandable => f[l.key] = << >>
  /\ l.key = "Component" => f["Version"] = << >>

Grows(part, L, f) ==
  /\ part \in [0..Len(L) -> Fields]
  /\ part[0] = Blank /\ part[Len(L)] = f
  /\ \A q \in 1..Len(L) : GrowsBy(part[q - 1], L[q], part[q])

(* How much of a field is read after q lines, if its lines end the i-th    *)
(* part of the entry.                                                      *)
Read(off, q, i) ==
  IF q <= off[i - 1] THEN 0 ELSE IF q <= off[i] THEN q - off[i - 1]
  ELSE off[i] - off[i - 1]

ReadTo(off, n, m, j) ==
  /\ off[m - 1] + j \in 1..off[n]
  /\ Read(off, off[m - 1] + j, m) = j /\ Read(off, off[m - 1] + j - 1, m) = j - 1
  /\ \A i \in 1..n : i # m =>
       Read(off, off[m - 1] + j, i) = Read(off, off[m - 1] + j - 1, i)
  /\ \A i \in 1..n : i > m => Read(off, off[m - 1] + j - 1, i) = 0

LEMMA ReadSteps ==
  ASSUME NEW S, NEW n \in Nat, NEW seqs \in [1..n -> Seq(S)], Len(seqs) = n,
         NEW off, IsOffset(off, seqs),
         NEW m \in 1..n, NEW j \in 1..Len(seqs[m])
  PROVE  ReadTo(off, n, m, j)
<1>1. \A k \in 1..n : /\ k \in 0..n /\ k - 1 \in 0..n
                      /\ off[k] \in Nat /\ off[k - 1] \in Nat
                      /\ off[k] = off[k - 1] + Len(seqs[k])
  BY DEF IsOffset
<1>2. \A k, l \in 0..n : k <= l => off[k] <= off[l]
  BY OffsetsGrow
<1> DEFINE a == off[m - 1]
           b == off[m]
<1>3. /\ a \in Nat /\ b \in Nat /\ j \in Nat /\ j >= 1 /\ a + j <= b
      /\ Len(seqs[m]) \in Nat /\ b = a + Len(seqs[m])
  <2>1. seqs[m] \in Seq(S)
    OBVIOUS
  <2>2. Len(seqs[m]) \in Nat
    BY <2>1, LenProperties
  <2>3. b = a + Len(seqs[m]) /\ a \in Nat /\ b \in Nat
    BY <1>1
  <2> HIDE DEF a, b
  <2>4. QED
    BY <2>2, <2>3
<1>4. b <= off[n] /\ off[n] \in Nat
  <2>1. m \in 0..n /\ n \in 0..n /\ m <= n /\ n \in 1..n
    OBVIOUS
  <2>2. QED
    BY <1>1, <1>2, <2>1
<1> DEFINE x == a + j
           y == a + j - 1
<1>5. x = off[m - 1] + j /\ y = off[m - 1] + j - 1
  OBVIOUS
<1>6. x \in Int /\ y \in Int /\ x = a + j /\ y = a + j - 1
  <2> HIDE DEF a
  <2> QED BY <1>3
<1> HIDE DEF x, y
<1>7. ASSUME NEW q, NEW i
      PROVE  Read(off, q, i) =
               IF q <= off[i - 1] THEN 0 ELSE IF q <= off[i] THEN q - off[i - 1]
               ELSE off[i] - off[i - 1]
  BY DEF Read
<1>8. Read(off, x, m) = j /\ Read(off, y, m) = j - 1
  <2>1. \A q : Read(off, q, m) =
                 IF q <= a THEN 0 ELSE IF q <= b THEN q - a ELSE b - a
    BY <1>7
  <2> HIDE DEF a, b
  <2>2. QED
    BY <1>3, <1>6, <2>1
<1>9. ASSUME NEW i \in 1..n, i > m
      PROVE  Read(off, x, i) = 0 /\ Read(off, y, i) = 0
  <2>1. m \in 0..n /\ i - 1 \in 0..n /\ m <= i - 1
    BY <1>9
  <2>2. b <= off[i - 1] /\ off[i - 1] \in Nat
    BY <1>1, <1>2, <2>1
  <2> HIDE DEF a, b
  <2>3. x <= off[i - 1] /\ y <= off[i - 1]
    BY <1>3, <1>6, <2>2
  <2>4. QED
    BY <1>7, <2>3
<1>10. ASSUME NEW i \in 1..n, i < m
       PROVE  Read(off, x, i) = Read(off, y, i)
  <2>1. i \in 0..n /\ m - 1 \in 0..n /\ i <= m - 1 /\ i - 1 \in 0..n /\ i - 1 <= i
    BY <1>10
  <2> DEFINE c == off[i - 1]
             d == off[i]
  <2>2. c \in Nat /\ d \in Nat /\ d <= a /\ c <= d
    BY <1>1, <1>2, <2>1
  <2>3. \A q : Read(off, q, i) =
                 IF q <= c THEN 0 ELSE IF q <= d THEN q - c ELSE d - c
    BY <1>7
  <2> HIDE DEF a, b, c, d
  <2>4. ~(x <= c) /\ ~(x <= d) /\ y >= d
    BY <1>3, <1>6, <2>2
  <2>5. Read(off, x, i) = d - c
    BY <2>3, <2>4
  <2>6. Read(off, y, i) = d - c
    <3>1. y <= c => d - c = 0
      BY <1>3, <1>6, <2>2, <2>4
    <3>2. y <= d => y - c = d - c
      BY <1>3, <1>6, <2>2, <2>4
    <3>3. QED
      BY <2>3, <3>1, <3>2
  <2>7. QED
    BY <2>5, <2>6
<1>11. x \in 1..off[n]
  <2> HIDE DEF a, b
  <2> QED BY <1>3, <1>4, <1>6
<1>12. \A i \in 1..n : i # m => i < m \/ i > m
  OBVIOUS
<1>13. \A i \in 1..n : i # m => Read(off, x, i) = Read(off, y, i)
  BY <1>9, <1>10, <1>12
<1>14. QED
  BY <1>5, <1>8, <1>9, <1>11, <1>13 DEF ReadTo

(* The lines of an entry, field by field.                                  *)
SeqsOf(e, order) ==
  [i \in 1..Len(order) |-> [j \in 1..Len(e.fields[order[i]]) |->
                              Line(order[i], e.fields[order[i]][j])]]

LEMMA FieldLines ==
  ASSUME NEW e, Sensible(e.fields), NEW order, InOrder(order)
  PROVE  LET n    == Len(order)
             seqs == SeqsOf(e, order)
         IN  /\ n \in Nat /\ order \in [1..n -> Keys]
             /\ seqs \in [1..n -> Seq(Lines)] /\ Len(seqs) = n
             /\ \A i \in 1..n : Len(seqs[i]) = Len(e.fields[order[i]])
             /\ \A i \in 1..n : \A j \in 1..Len(seqs[i]) :
                  seqs[i][j] = Line(order[i], e.fields[order[i]][j])
             /\ LinesOf(e, order) = FlattenSeq(seqs)
<1> DEFINE n == Len(order)
           s(i) == [j \in 1..Len(e.fields[order[i]]) |->
                      Line(order[i], e.fields[order[i]][j])]
           seqs == [i \in 1..n |-> s(i)]
<1>1. order \in Seq(Keys)
  BY DEF InOrder
<1>2. n \in Nat /\ order \in [1..n -> Keys]
  BY <1>1, LenProperties
<1>3. ASSUME NEW i \in 1..n
      PROVE  s(i) \in Seq(Lines) /\ Len(s(i)) = Len(e.fields[order[i]])
  <2> DEFINE k == order[i]
             f == e.fields[order[i]]
  <2>1. k \in Keys
    BY <1>2
  <2>2. f \in Seq(Texts)
    BY <2>1 DEF Sensible
  <2>3. Len(f) \in Nat /\ \A j \in 1..Len(f) : f[j] \in Texts
    BY <2>2, LenProperties, ElementOfSeq
  <2>4. s(i) = [j \in 1..Len(f) |-> Line(k, f[j])]
    OBVIOUS
  <2> HIDE DEF f, k
  <2>5. \A j \in 1..Len(f) : Line(k, f[j]) \in Lines
    BY <2>1, <2>3 DEF Line, Lines
  <2> HIDE DEF s
  <2>6. s(i) \in [1..Len(f) -> Lines]
    BY <2>4, <2>5
  <2>7. s(i) \in Seq(Lines) /\ Len(s(i)) = Len(f)
    BY <2>3, <2>6
  <2>8. QED
    BY <2>7 DEF f
<1>4. seqs \in [1..n -> Seq(Lines)]
  BY <1>3
<1>5. Len(seqs) = n
  BY <1>2
<1>6. \A i \in 1..n : seqs[i] = s(i)
  OBVIOUS
<1>7. \A i \in 1..n : Len(seqs[i]) = Len(e.fields[order[i]])
  BY <1>3, <1>6
<1>8. \A i \in 1..n : \A j \in 1..Len(seqs[i]) :
        seqs[i][j] = Line(order[i], e.fields[order[i]][j])
  BY <1>7
<1>9. LinesOf(e, order) = FlattenSeq(seqs)
  BY DEF LinesOf
<1>10. QED
  BY <1>2, <1>4, <1>5, <1>7, <1>8, <1>9 DEF SeqsOf

LEMMA EntryLines ==
  ASSUME NEW e, Sensible(e.fields), NEW order, InOrder(order)
  PROVE  LET L == LinesOf(e, order)
         IN  /\ L \in Seq(Lines) /\ Len(L) \in Nat \ {0}
             /\ VersionFirst(order) /\ e.fields["Version"] # << >> =>
                  L[1].key \in {"Component", "Version"}
             /\ \E part : Grows(part, L, e.fields)
<1> DEFINE n == Len(order)
           seqs == SeqsOf(e, order)
           L == LinesOf(e, order)
           F == e.fields
<1>1. /\ n \in Nat /\ order \in [1..n -> Keys]
      /\ seqs \in [1..n -> Seq(Lines)] /\ Len(seqs) = n
      /\ \A i \in 1..n : Len(seqs[i]) = Len(F[order[i]])
      /\ \A i \in 1..n : \A j \in 1..Len(seqs[i]) :
           seqs[i][j] = Line(order[i], F[order[i]][j])
      /\ L = FlattenSeq(seqs)
  BY FieldLines
<1> HIDE DEF seqs, L, n
<1>2. L \in Seq(Lines) /\ \E off : Flat(L, off, seqs)
  BY <1>1, Flattened
<1>3. PICK off : /\ IsOffset(off, seqs)
                 /\ Len(L) = off[n]
                 /\ \A k \in 1..n : \A j \in 1..Len(seqs[k]) :
                      L[off[k - 1] + j] = seqs[k][j]
  BY <1>1, <1>2 DEF Flat
<1>4. \A i \in 1..n : \A j \in 1..Len(seqs[i]) :
        L[off[i - 1] + j] = Line(order[i], F[order[i]][j])
  BY <1>1, <1>3
<1>5. /\ \A k \in Keys : \E i \in 1..n : order[i] = k
      /\ \A i, j \in 1..n : /\ order[i] = order[j] => i = j
                            /\ order[i] = "Component" /\ order[j] = "Version" => i < j
  BY <1>1 DEF InOrder
<1>6. F \in Fields /\ \A k \in Keys : F[k] \in Seq(Texts) /\ Len(F[k]) \in Nat
  <2>1. F \in Fields /\ \A k \in Keys : F[k] \in Seq(Texts)
    BY DEF Sensible, Fields
  <2>2. QED
    BY <2>1, LenProperties
<1>7. \A i \in 1..n : /\ i \in 0..n /\ i - 1 \in 0..n
                      /\ off[i] \in Nat /\ off[i - 1] \in Nat
                      /\ off[i] = off[i - 1] + Len(F[order[i]])
                      /\ order[i] \in Keys /\ off[i - 1] <= off[i]
  <2>1. \A i \in 1..n : i \in 0..n /\ i - 1 \in 0..n /\ order[i] \in Keys
    BY <1>1
  <2>2. \A i \in 1..n : off[i] \in Nat /\ off[i - 1] \in Nat
    BY <1>1, <1>3, <2>1 DEF IsOffset
  <2>3. \A i \in 1..n : off[i] = off[i - 1] + Len(F[order[i]])
    BY <1>1, <1>3 DEF IsOffset
  <2>4. \A i \in 1..n : off[i - 1] <= off[i]
    BY <1>6, <2>1, <2>2, <2>3
  <2>5. QED
    BY <2>1, <2>2, <2>3, <2>4
<1>8. Len(L) \in Nat \ {0}
  <2>1. PICK k \in Keys : F[k] # << >>
    BY DEF Sensible
  <2>2. PICK i \in 1..n : order[i] = k
    BY <1>5
  <2>3. Len(F[k]) # 0
    BY <1>6, <2>1, EmptySeq
  <2>4. 1 \in 1..Len(seqs[i])
    BY <1>1, <1>6, <2>2, <2>3
  <2>5. off[i - 1] + 1 \in 1..off[n]
    BY <1>1, <1>3, <2>4, ReadSteps DEF ReadTo
  <2>6. Len(L) \in Nat
    BY <1>2, LenProperties
  <2>7. QED
    BY <1>3, <2>5, <2>6
<1>9. ASSUME VersionFirst(order), F["Version"] # << >>
      PROVE  L[1].key \in {"Component", "Version"}
  <2>1. "Version" \in Keys /\ "Component" \in Keys
    BY DEF Keys
  <2>2. order[1] = "Component" /\ order[2] = "Version"
    BY <1>9 DEF VersionFirst
  <2>3. 1 \in 1..n /\ 2 \in 1..n
    <3>1. PICK i, j \in 1..n : order[i] = "Component" /\ order[j] = "Version"
      BY <1>5, <2>1
    <3>2. i # j /\ i \in 1..n /\ j \in 1..n
      BY <3>1
    <3>3. QED
      BY <1>1, <3>2
  <2>4. off[0] = 0
    BY <1>3 DEF IsOffset
  <2>5. CASE F["Component"] # << >>
    <3>1. Len(F["Component"]) # 0
      BY <1>6, <2>1, <2>5, EmptySeq
    <3>2. 1 \in 1..Len(seqs[1])
      BY SMTT(30), <1>1, <1>6, <2>1, <2>2, <2>3, <3>1
    <3>3. L[off[1 - 1] + 1] = Line(order[1], F[order[1]][1])
      BY <1>4, <2>3, <3>2
    <3>4. off[1 - 1] + 1 = 1
      BY <2>4
    <3>5. QED
      BY <2>2, <3>3, <3>4 DEF Line
  <2>6. CASE F["Component"] = << >>
    <3>1. Len(F["Component"]) = 0
      BY <2>6, EmptySeq
    <3>2. off[1] = 0
      <4>1. off[1] = off[1 - 1] + Len(F[order[1]]) /\ off[1 - 1] = off[0]
        BY <1>7, <2>3
      <4>2. QED
        BY <2>2, <2>4, <3>1, <4>1
    <3>3. Len(F["Version"]) # 0
      BY <1>6, <1>9, <2>1, EmptySeq
    <3>4. 1 \in 1..Len(seqs[2])
      BY <1>1, <1>6, <2>1, <2>2, <2>3, <3>3
    <3>5. L[off[2 - 1] + 1] = Line(order[2], F[order[2]][1])
      BY <1>4, <2>3, <3>4
    <3>6. off[2 - 1] + 1 = 1
      BY <3>2
    <3>7. QED
      BY <2>2, <3>5, <3>6 DEF Line
  <2>7. QED
    BY <2>5, <2>6
<1> DEFINE pos(k) == CHOOSE i \in 1..n : order[i] = k
<1>10. \A k \in Keys : pos(k) \in 1..n /\ order[pos(k)] = k
  BY <1>5
<1>11. \A i \in 1..n : pos(order[i]) = i
  <2>1. \A i \in 1..n : order[i] \in Keys
    BY <1>1
  <2> HIDE DEF pos
  <2>2. QED
    BY <1>5, <1>10, <2>1
<1> HIDE DEF pos
<1> DEFINE part == [q \in 0..Len(L) |->
                      [k \in Keys |-> SubSeq(F[k], 1, Read(off, q, pos(k)))]]
<1>12. \A q \in 0..Len(L), k \in Keys : Read(off, q, pos(k)) \in 0..Len(F[k])
  <2> SUFFICES ASSUME NEW q \in 0..Len(L), NEW k \in Keys
               PROVE  Read(off, q, pos(k)) \in 0..Len(F[k])
    OBVIOUS
  <2> DEFINE a == off[pos(k) - 1]
             b == off[pos(k)]
  <2>1. a \in Nat /\ b \in Nat /\ b = a + Len(F[k]) /\ Len(F[k]) \in Nat /\ q \in Nat
    BY SMTT(30), <1>6, <1>7, <1>8, <1>10
  <2>2. Read(off, q, pos(k)) = IF q <= a THEN 0 ELSE IF q <= b THEN q - a ELSE b - a
    BY DEF Read
  <2> HIDE DEF a, b
  <2>3. QED
    BY <2>1, <2>2
<1>13. part \in [0..Len(L) -> Fields]
  <2>1. \A q \in 0..Len(L), k \in Keys :
          SubSeq(F[k], 1, Read(off, q, pos(k))) \in Seq(Texts)
    BY <1>6, <1>12, ReadSoFar
  <2>2. QED
    BY <2>1 DEF Fields
<1>14. \A q \in 0..Len(L), k \in Keys : part[q][k] = SubSeq(F[k], 1, Read(off, q, pos(k)))
  OBVIOUS
<1> HIDE DEF part
<1>15. part[0] = Blank
  <2>1. 0 \in 0..Len(L)
    BY <1>8
  <2>2. \A k \in Keys : Read(off, 0, pos(k)) = 0
    BY <1>7, <1>10 DEF Read
  <2>3. \A k \in Keys : part[0][k] = << >>
    BY <1>6, <1>14, <2>1, <2>2, ReadSoFar
  <2>4. QED
    BY <1>13, <2>1, <2>3 DEF Blank, Fields
<1>16. part[Len(L)] = F
  <2>1. Len(L) \in 0..Len(L)
    BY <1>8
  <2>2. \A k \in Keys : Read(off, Len(L), pos(k)) = Len(F[k])
    <3> SUFFICES ASSUME NEW k \in Keys PROVE Read(off, Len(L), pos(k)) = Len(F[k])
      OBVIOUS
    <3> DEFINE a == off[pos(k) - 1]
               b == off[pos(k)]
    <3>1. b <= off[n]
      <4>1. pos(k) \in 0..n /\ n \in 0..n /\ pos(k) <= n
        BY <1>1, <1>10
      <4>2. QED
        BY <1>1, <1>3, <4>1, OffsetsGrow
    <3>2. a \in Nat /\ b \in Nat /\ b = a + Len(F[k]) /\ Len(F[k]) \in Nat /\ b <= Len(L)
      BY <1>3, <1>6, <1>7, <1>10, <3>1
    <3>3. \A q : Read(off, q, pos(k)) =
                   IF q <= a THEN 0 ELSE IF q <= b THEN q - a ELSE b - a
      BY DEF Read
    <3> DEFINE q == Len(L)
    <3>4. q \in Nat /\ b <= q
      BY <1>8, <3>2
    <3> HIDE DEF a, b, q
    <3>5. Read(off, q, pos(k)) = Len(F[k])
      <4>1. Read(off, q, pos(k)) = IF q <= a THEN 0 ELSE IF q <= b THEN q - a ELSE b - a
        BY <3>3
      <4>2. q <= a => Len(F[k]) = 0
        BY <3>2, <3>4
      <4>3. ~(q <= a) /\ q <= b => q - a = Len(F[k])
        BY <3>2, <3>4
      <4>4. b - a = Len(F[k])
        BY <3>2
      <4>5. QED
        BY <4>1, <4>2, <4>3, <4>4
    <3>6. QED
      BY <3>5 DEF q
  <2>3. \A k \in Keys : part[Len(L)][k] = F[k]
    <3> SUFFICES ASSUME NEW k \in Keys PROVE part[Len(L)][k] = F[k]
      OBVIOUS
    <3>1. part[Len(L)][k] = SubSeq(F[k], 1, Len(F[k]))
      BY <1>14, <2>1, <2>2
    <3>2. F[k] \in Seq(Texts)
      BY <1>6
    <3>3. QED
      BY <3>1, <3>2, ReadSoFar
  <2>4. QED
    BY <1>6, <1>13, <2>1, <2>3 DEF Fields
<1>17. \A q \in 1..Len(L) : GrowsBy(part[q - 1], L[q], part[q])
  <2> SUFFICES ASSUME NEW q \in 1..Len(L)
               PROVE  GrowsBy(part[q - 1], L[q], part[q])
    OBVIOUS
  <2>1. PICK m \in 1..n : \E j \in 1..Len(seqs[m]) : q = off[m - 1] + j
    <3>1. q \in 1..off[Len(seqs)]
      BY <1>1, <1>3
    <3>2. InPart(q, off, seqs)
      BY <1>1, <1>3, <3>1, InSomePart
    <3>3. QED
      BY <1>1, <3>2 DEF InPart
  <2>2. PICK j \in 1..Len(seqs[m]) : q = off[m - 1] + j
    BY <2>1
  <2> DEFINE c == order[m]
  <2>3. c \in Keys /\ pos(c) = m /\ L[q] = Line(c, F[c][j])
    BY <1>4, <1>7, <1>11, <2>2
  <2>4. j \in 1..Len(F[c]) /\ F[c] \in Seq(Texts) /\ F[c][j] \in Texts /\ j \in Nat
    BY <1>1, <1>6, <2>2, <2>3, ElementOfSeq
  <2> HIDE DEF c
  <2>5. q \in 0..Len(L) /\ q - 1 \in 0..Len(L)
    BY <1>8
  <2>6. q - 1 = off[m - 1] + j - 1
    BY SMTT(30), <1>7, <2>2, <2>4
  <2>7. /\ Read(off, q, m) = j /\ Read(off, q - 1, m) = j - 1
        /\ \A i \in 1..n : i # m => Read(off, q, i) = Read(off, q - 1, i)
        /\ \A i \in 1..n : i > m => Read(off, q - 1, i) = 0
    <3>1. ReadTo(off, n, m, j)
      BY <1>1, <1>3, ReadSteps
    <3>2. QED
      BY <2>2, <2>6, <3>1 DEF ReadTo
  <2>8. part[q - 1][c] = SubSeq(F[c], 1, j - 1) /\ part[q][c] = SubSeq(F[c], 1, j)
    BY <1>14, <2>3, <2>5, <2>7
  <2>9. part[q][c] = Append(part[q - 1][c], F[c][j])
    BY <2>4, <2>8, ReadSoFar
  <2>10. \A k \in Keys : k # c => part[q][k] = part[q - 1][k]
    <3> SUFFICES ASSUME NEW k \in Keys, k # c PROVE part[q][k] = part[q - 1][k]
      OBVIOUS
    <3>1. pos(k) \in 1..n /\ pos(k) # m
      BY <1>10, <2>3
    <3>2. Read(off, q, pos(k)) = Read(off, q - 1, pos(k))
      BY <2>7, <3>1
    <3>3. QED
      BY <1>14, <2>5, <3>2
  <2>11. part[q] \in Fields /\ part[q - 1] \in Fields
    BY <1>13, <2>5
  <2>12. L[q].key = c /\ L[q].val = F[c][j]
    BY <2>3 DEF Line
  <2>13. part[q] = [part[q - 1] EXCEPT ![c] = Append(@, F[c][j])]
    BY <2>3, <2>9, <2>10, <2>11 DEF Fields
  <2>14. c \notin Expandable => part[q - 1][c] = << >>
    <3> SUFFICES ASSUME c \notin Expandable PROVE part[q - 1][c] = << >>
      OBVIOUS
    <3>1. Len(F[c]) <= 1
      BY <2>3 DEF Sensible
    <3>2. j - 1 = 0
      BY <1>6, <2>3, <2>4, <3>1
    <3>3. QED
      BY <2>4, <2>8, <3>2, ReadSoFar
  <2>15. c = "Component" => part[q - 1]["Version"] = << >>
    <3> SUFFICES ASSUME c = "Component" PROVE part[q - 1]["Version"] = << >>
      OBVIOUS
    <3>1. "Version" \in Keys
      BY DEF Keys
    <3>2. pos("Version") \in 1..n /\ order[pos("Version")] = "Version" /\ order[m] = "Component"
      BY <1>10, <3>1 DEF c
    <3>3. m < pos("Version")
      BY <1>5, <3>2
    <3>4. Read(off, q - 1, pos("Version")) = 0
      BY <2>7, <3>2, <3>3
    <3>5. part[q - 1]["Version"] = SubSeq(F["Version"], 1, 0)
      BY <1>14, <2>5, <3>1, <3>4
    <3>6. QED
      BY <1>6, <3>1, <3>5, ReadSoFar
  <2>16. QED
    BY <2>3, <2>4, <2>12, <2>13, <2>14, <2>15 DEF GrowsBy
<1>18. Grows(part, L, F)
  BY <1>13, <1>15, <1>16, <1>17 DEF Grows
<1>19. QED
  BY <1>2, <1>8, <1>9, <1>18 DEF L

-----------------------------------------------------------------------------
(***************************************************************************)
(* The text of a list: the mirrors of an entry, its Product line unless it *)
(* is under that of the entry before, and from body on its fields.         *)
(***************************************************************************)
EntryIn(es, t, body, part, i) ==
  LET M == Len(es[i].mirrors)
  IN  /\ t \in Seq(Lines)
      /\ body \in {M, M + 1} /\ body < Len(t)
      /\ \A m \in 1..M : t[m] = Line("Mirror", es[i].mirrors[m])
      /\ body = M + 1 => t[body] = Line("Product", es[i].product)
      /\ body = M => /\ i > 1 /\ es[i].product = es[i - 1].product
                     /\ es[i - 1].fields["Version"] # << >>
                     /\ t[body + 1].key \in {"Component", "Version"}
      /\ part \in [0..Len(t) - body -> Fields]
      /\ part[0] = Blank /\ part[Len(t) - body] = es[i].fields
      /\ \A q \in 1..Len(t) - body : GrowsBy(part[q - 1], t[body + q], part[q])

LEMMA EntryParts ==
  ASSUME NEW es \in Seq(Entries), NEW order \in Orders, NEW separate \in BOOLEAN,
         Writable(es, order, separate), NEW i \in 1..Len(es)
  PROVE  \E body, part : EntryIn(es, EntryText(es, i, order, separate), body, part, i)
<1> DEFINE e == es[i]
           A == MirrorLines(es[i])
           B == ProductLine(es, i, separate)
           L == LinesOf(es[i], order)
           M == Len(es[i].mirrors)
           t == EntryText(es, i, order, separate)
<1>1. /\ Len(es) \in Nat /\ e \in Entries /\ InOrder(order) /\ Sensible(e.fields)
      /\ e.product \in Texts /\ e.mirrors \in Seq(Texts)
  <2>1. Len(es) \in Nat /\ e \in Entries
    BY LenProperties, ElementOfSeq
  <2>2. QED
    BY <2>1, ListAssumption
<1>2. M \in Nat /\ \A m \in 1..M : e.mirrors[m] \in Texts
  BY <1>1, LenProperties, ElementOfSeq
<1>3. /\ L \in Seq(Lines) /\ Len(L) \in Nat \ {0}
      /\ VersionFirst(order) /\ e.fields["Version"] # << >> =>
           L[1].key \in {"Component", "Version"}
      /\ \E part : Grows(part, L, e.fields)
  BY <1>1, EntryLines
<1>4. A \in Seq(Lines) /\ Len(A) = M /\ \A m \in 1..M : A[m] = Line("Mirror", e.mirrors[m])
  <2> DEFINE s == e.mirrors
  <2>1. A = [m \in 1..M |-> Line("Mirror", s[m])]
    BY DEF MirrorLines
  <2>2. \A m \in 1..M : s[m] \in Texts
    BY <1>2
  <2> HIDE DEF A, M, s
  <2>3. \A m \in 1..M : Line("Mirror", s[m]) \in Lines
    BY <2>2 DEF Line, Lines
  <2>4. A \in [1..M -> Lines]
    BY <2>1, <2>3
  <2>5. A \in Seq(Lines) /\ Len(A) = M
    BY <1>2, <2>4
  <2>6. \A m \in 1..M : A[m] = Line("Mirror", s[m])
    BY <2>1
  <2>7. QED
    BY <2>5, <2>6 DEF s
<1> DEFINE own == separate \/ i = 1 \/ es[i].product # es[i - 1].product
<1>5. B = IF own THEN <<Line("Product", e.product)>> ELSE << >>
  BY DEF ProductLine
<1>6. /\ B \in Seq(Lines)
      /\ own => Len(B) = 1 /\ B[1] = Line("Product", e.product)
      /\ ~own => Len(B) = 0
  <2>1. Line("Product", e.product) \in Lines
    BY <1>1 DEF Line, Lines
  <2> HIDE DEF own, B, e
  <2>2. QED
    BY <1>5, <2>1, EmptySeq
<1>7. ~own => /\ i > 1 /\ es[i].product = es[i - 1].product
              /\ es[i - 1].fields["Version"] # << >>
              /\ L[1].key \in {"Component", "Version"}
  <2> SUFFICES ASSUME ~own
               PROVE  /\ i > 1 /\ es[i].product = es[i - 1].product
                      /\ es[i - 1].fields["Version"] # << >>
                      /\ L[1].key \in {"Component", "Version"}
    OBVIOUS
  <2>1. i > 1 /\ i \in DOMAIN es /\ i - 1 \in DOMAIN es /\ ~separate
    BY <1>1, LenProperties
  <2>2. VersionFirst(order) /\ \A k \in DOMAIN es : es[k].fields["Version"] # << >>
    BY <2>1 DEF Writable
  <2>3. QED
    BY <1>3, <2>1, <2>2
<1>8. t = (A \o B) \o L
  BY DEF EntryText
<1> HIDE DEF A, B, L, M, t, own
<1> DEFINE C == A \o B
<1>9. /\ C \in Seq(Lines) /\ Len(A) \in Nat /\ Len(B) \in Nat
      /\ Len(C) = Len(A) + Len(B)
      /\ \A x \in 1..Len(A) : x \in 1..Len(C) /\ C[x] = A[x]
      /\ \A x \in 1..Len(B) : Len(A) + x \in 1..Len(C) /\ C[Len(A) + x] = B[x]
  <2>1. C \in Seq(Lines) /\ Glued(C, A, B)
    BY <1>4, <1>6, Joined
  <2>2. QED
    BY <2>1 DEF Glued
<1>10. t = C \o L
  BY <1>8
<1> HIDE DEF C
<1>11. /\ t \in Seq(Lines) /\ Len(C) \in Nat /\ Len(L) \in Nat
       /\ Len(t) = Len(C) + Len(L)
       /\ \A x \in 1..Len(C) : x \in 1..Len(t) /\ t[x] = C[x]
       /\ \A x \in 1..Len(L) : Len(C) + x \in 1..Len(t) /\ t[Len(C) + x] = L[x]
  <2>1. t \in Seq(Lines) /\ Glued(t, C, L)
    BY <1>3, <1>9, <1>10, Joined
  <2>2. QED
    BY <2>1 DEF Glued
<1>12. PICK part : Grows(part, L, e.fields)
  BY <1>3
<1> DEFINE body == Len(C)
<1>13. body \in {M, M + 1} /\ body < Len(t) /\ Len(t) - body = Len(L)
  <2>1. Len(B) \in {0, 1} /\ Len(C) = M + Len(B)
    BY <1>4, <1>6, <1>9
  <2>2. Len(C) = M \/ Len(C) = M + 1
    <3>1. M + 0 = M
      BY <1>2
    <3>2. Len(C) = M + 0 \/ Len(C) = M + 1
      BY <2>1
    <3>3. QED
      BY <3>1, <3>2
  <2>3. Len(C) < Len(t) /\ Len(t) - Len(C) = Len(L)
    BY <1>3, <1>11
  <2>4. QED
    BY <2>2, <2>3
<1>14. own => body = M + 1
  BY <1>4, <1>6, <1>9
<1>15. ~own => body = M
  BY <1>2, <1>4, <1>6, <1>9
<1>16. \A m \in 1..M : t[m] = Line("Mirror", e.mirrors[m])
  BY <1>4, <1>9, <1>11
<1>17. own => t[body] = Line("Product", e.product)
  <2> SUFFICES ASSUME own PROVE t[body] = Line("Product", e.product)
    OBVIOUS
  <2>1. 1 \in 1..Len(B) /\ Len(A) + 1 = Len(C)
    <3>1. Len(B) = 1
      BY <1>6
    <3>2. QED
      BY <1>9, <3>1
  <2>2. C[Len(C)] = B[1] /\ Len(C) \in 1..Len(C)
    BY <1>9, <2>1
  <2>3. t[Len(C)] = B[1]
    BY <1>11, <2>2
  <2>4. QED
    BY <1>6, <2>3
<1>18. \A x \in 1..Len(L) : t[body + x] = L[x]
  BY <1>11
<1>19. body = M => ~own
  BY <1>2, <1>14
<1>20. body = M + 1 => own
  BY <1>2, <1>15
<1> HIDE DEF body
<1>21. t[body + 1] = L[1]
  BY <1>3, <1>18
<1>22. /\ part \in [0..Len(L) -> Fields]
       /\ part[0] = Blank /\ part[Len(L)] = e.fields
       /\ \A q \in 1..Len(L) : GrowsBy(part[q - 1], t[body + q], part[q])
  BY <1>12, <1>18 DEF Grows
<1>23. body = M + 1 => t[body] = Line("Product", e.product)
  BY <1>17, <1>20
<1>24. body = M => /\ i > 1 /\ es[i].product = es[i - 1].product
                   /\ es[i - 1].fields["Version"] # << >>
                   /\ t[body + 1].key \in {"Component", "Version"}
  BY <1>7, <1>19, <1>21
<1>25. EntryIn(es, t, body, part, i)
  BY <1>11, <1>13, <1>16, <1>22, <1>23, <1>24 DEF EntryIn, M
<1>26. QED
  BY <1>25 DEF t

MirrorsOf(es) == FlattenSeq([i \in 1..Len(es) |-> es[i].mirrors])

(* Where the entries of the list end in its text, and where their mirrors  *)
(* end among all of them.                                                  *)
Layout(es, text, pieces, start, body, part) ==
  /\ text \in Seq(Lines) /\ Flat(text, start, pieces)
  /\ pieces \in [1..Len(es) -> Seq(Lines)] /\ Len(pieces) = Len(es)
  /\ \A i \in 1..Len(es) : EntryIn(es, pieces[i], body[i], part[i], i)

Marked(es, marks) ==
  /\ MirrorsOf(es) \in Seq(Texts)
  /\ Flat(MirrorsOf(es), marks, [i \in 1..Len(es) |-> es[i].mirrors])

LEMMA LayoutExists ==
  ASSUME NEW es \in Seq(Entries), NEW order \in Orders, NEW separate \in BOOLEAN,
         Writable(es, order, separate)
  PROVE  \E pieces, start, body, part :
           Layout(es, Text(es, order, separate), pieces, start, body, part)
<1> DEFINE n == Len(es)
           t(i) == EntryText(es, i, order, separate)
           pieces == [i \in 1..n |-> t(i)]
           has(i, b) == \E p : EntryIn(es, pieces[i], b, p, i)
           body == [i \in 1..n |-> CHOOSE b : has(i, b)]
           part == [i \in 1..n |-> CHOOSE p : EntryIn(es, pieces[i], body[i], p, i)]
<1>1. n \in Nat
  BY LenProperties
<1>2. \A i \in 1..n : \E b, p : EntryIn(es, t(i), b, p, i)
  BY EntryParts
<1>3. \A i \in 1..n : pieces[i] = t(i)
  OBVIOUS
<1>4. \A i \in 1..n : t(i) \in Seq(Lines)
  BY <1>2 DEF EntryIn
<1>5. pieces \in [1..n -> Seq(Lines)] /\ Len(pieces) = n
  BY <1>1, <1>4
<1>6. Text(es, order, separate) = FlattenSeq(pieces)
  BY DEF Text
<1> HIDE DEF pieces, t
<1>7. \A i \in 1..n : \E b : has(i, b)
  BY <1>2, <1>3
<1> HIDE DEF has
<1>8. \A i \in 1..n : body[i] = CHOOSE b : has(i, b)
  OBVIOUS
<1>9. \A i \in 1..n : has(i, body[i])
  BY <1>7, <1>8
<1> HIDE DEF body
<1>10. \A i \in 1..n : EntryIn(es, pieces[i], body[i], part[i], i)
  BY <1>9 DEF has
<1> HIDE DEF part, n
<1>11. /\ Text(es, order, separate) \in Seq(Lines)
       /\ \E start : Flat(Text(es, order, separate), start, pieces)
  BY <1>1, <1>5, <1>6, Flattened
<1>12. PICK start : Flat(Text(es, order, separate), start, pieces)
  BY <1>11
<1>13. Layout(es, Text(es, order, separate), pieces, start, body, part)
  BY <1>5, <1>10, <1>11, <1>12 DEF Layout, n
<1>14. QED
  BY <1>13

LEMMA MarksExist ==
  ASSUME NEW es \in Seq(Entries)
  PROVE  \E marks : Marked(es, marks)
<1> DEFINE n == Len(es)
           s == [i \in 1..n |-> es[i].mirrors]
<1>1. n \in Nat /\ \A i \in 1..n : es[i] \in Entries
  BY LenProperties, ElementOfSeq
<1>2. \A i \in 1..n : es[i].mirrors \in Seq(Texts)
  BY <1>1, ListAssumption
<1>3. s \in [1..n -> Seq(Texts)] /\ Len(s) = n
  BY <1>1, <1>2
<1>4. MirrorsOf(es) = FlattenSeq(s)
  BY DEF MirrorsOf
<1> HIDE DEF s, n
<1>5. MirrorsOf(es) \in Seq(Texts) /\ \E marks : Flat(MirrorsOf(es), marks, s)
  BY <1>1, <1>3, <1>4, Flattened
<1>6. QED
  BY <1>5 DEF Marked, s, n

-----------------------------------------------------------------------------
(***************************************************************************)
(* What was written for a product, by induction over the entries.          *)
(***************************************************************************)
WrittenFor(e, p) ==
  LET a == e.fields["Architecture"]
  IN  e.product = p /\ (a = << >> \/ \E i \in DOMAIN a : a[i] \in Machine)

IsMeant(meant, es, p, n) ==
  /\ meant[0] = << >>
  /\ \A i \in 1..n :
       meant[i] = IF WrittenFor(es[i], p) THEN Append(meant[i - 1], es[i].fields)
                  ELSE meant[i - 1]

LEMMA MeantExists ==
  ASSUME NEW es, NEW p, NEW n \in Nat
  PROVE  \E meant : IsMeant(meant, es, p, n)
<1> DEFINE T == { m \in Nat : ~ \E f : IsMeant(f, es, p, m) }
<1>1. 0 \notin T
  <2> DEFINE f == [i \in 0..0 |-> << >>]
  <2>1. IsMeant(f, es, p, 0)
    BY DEF IsMeant
  <2>2. QED
    BY <2>1
<1>2. ASSUME NEW m \in Nat, m \notin T PROVE m + 1 \notin T
  <2>1. PICK g : IsMeant(g, es, p, m)
    BY <1>2
  <2> DEFINE new == IF WrittenFor(es[m + 1], p) THEN Append(g[m], es[m + 1].fields)
                    ELSE g[m]
             f == [i \in 0..m + 1 |-> IF i = m + 1 THEN new ELSE g[i]]
  <2>2. \A i \in 0..m : f[i] = g[i]
    OBVIOUS
  <2>3. f[m + 1] = new
    OBVIOUS
  <2> HIDE DEF f
  <2>4. ASSUME NEW i \in 1..m + 1
        PROVE  f[i] = IF WrittenFor(es[i], p) THEN Append(f[i - 1], es[i].fields)
                      ELSE f[i - 1]
    <3>1. CASE i = m + 1
      <4>1. i - 1 = m /\ f[i - 1] = g[m]
        BY <2>2, <3>1
      <4>2. QED
        BY <2>3, <3>1, <4>1
    <3>2. CASE i # m + 1
      <4>1. i \in 1..m /\ i \in 0..m /\ i - 1 \in 0..m
        BY <3>2
      <4>2. QED
        BY <2>1, <2>2, <4>1 DEF IsMeant
    <3>3. QED
      BY <3>1, <3>2
  <2>5. f[0] = << >>
    BY <2>1, <2>2 DEF IsMeant
  <2>6. IsMeant(f, es, p, m + 1)
    BY <2>4, <2>5 DEF IsMeant
  <2>7. QED
    BY <2>6
<1>3. T = {}
  <2> HIDE DEF T
  <2> QED BY <1>1, <1>2, NoLeast DEF T
<1>4. QED
  BY <1>3

LEMMA MeantIs ==
  ASSUME Len(written) \in Nat, NEW meant,
         IsMeant(meant, written, product, Len(written))
  PROVE  \A i \in 0..Len(written) : meant[i] = Meant[i]
<1> DEFINE n == Len(written)
           R(f) == f = [i \in 0..n |->
                          IF i = 0 THEN << >>
                          ELSE IF Suits(written[i]) THEN Append(f[i - 1], written[i].fields)
                          ELSE f[i - 1]]
<1>0. \A i \in 1..n : Suits(written[i]) <=> WrittenFor(written[i], product)
  BY DEF Suits, WrittenFor
<1>1. \E f : R(f)
  <2> DEFINE f == [i \in 0..n |-> meant[i]]
  <2>1. \A i \in 0..n : f[i] = meant[i]
    OBVIOUS
  <2>2. f = [i \in 0..n |-> f[i]]
    OBVIOUS
  <2> HIDE DEF f
  <2>3. \A i \in 0..n :
          f[i] = IF i = 0 THEN << >>
                 ELSE IF Suits(written[i]) THEN Append(f[i - 1], written[i].fields)
                 ELSE f[i - 1]
    <3> SUFFICES ASSUME NEW i \in 0..n
                 PROVE  f[i] = IF i = 0 THEN << >>
                               ELSE IF Suits(written[i])
                                    THEN Append(f[i - 1], written[i].fields)
                               ELSE f[i - 1]
      OBVIOUS
    <3>1. CASE i = 0
      BY <2>1, <3>1 DEF IsMeant
    <3>2. CASE i # 0
      <4>1. i \in 1..n /\ i - 1 \in 0..n
        BY <3>2
      <4>2. meant[i] = IF WrittenFor(written[i], product)
                       THEN Append(meant[i - 1], written[i].fields) ELSE meant[i - 1]
        BY <4>1 DEF IsMeant
      <4>3. QED
        BY <1>0, <2>1, <3>2, <4>1, <4>2
    <3>3. QED
      BY <3>1, <3>2
  <2>4. R(f)
    BY <2>2, <2>3
  <2>5. QED
    BY <2>4
<1>2. Meant = CHOOSE f : R(f)
  BY DEF Meant
<1> HIDE DEF R
<1>3. R(Meant)
  BY <1>1, <1>2
<1>4. \A i \in 0..n :
        Meant[i] = IF i = 0 THEN << >>
                   ELSE IF Suits(written[i]) THEN Append(Meant[i - 1], written[i].fields)
                   ELSE Meant[i - 1]
  BY <1>3 DEF R
<1> DEFINE T == { i \in Nat : i \in 0..n /\ meant[i] # Meant[i] }
<1>5. 0 \notin T
  <2>1. 0 \in 0..n /\ meant[0] = << >>
    BY DEF IsMeant
  <2>2. Meant[0] = << >>
    BY <1>4, <2>1
  <2>3. QED
    BY <2>1, <2>2
<1>6. ASSUME NEW i \in Nat, i \notin T, i + 1 \in T PROVE FALSE
  <2>1. i + 1 \in 0..n /\ meant[i] = Meant[i] /\ meant[i + 1] # Meant[i + 1]
    BY <1>6
  <2>2. i + 1 \in 1..n /\ i + 1 # 0 /\ (i + 1) - 1 = i
    BY <2>1
  <2>3. Meant[i + 1] = IF Suits(written[i + 1]) THEN Append(Meant[i], written[i + 1].fields)
                       ELSE Meant[i]
    <3>1. Meant[i + 1] = IF Suits(written[i + 1])
                         THEN Append(Meant[(i + 1) - 1], written[i + 1].fields)
                         ELSE Meant[(i + 1) - 1]
      BY <1>4, <2>1, <2>2
    <3>2. QED
      BY <2>2, <3>1
  <2>4. meant[i + 1] = IF Suits(written[i + 1]) THEN Append(meant[i], written[i + 1].fields)
                       ELSE meant[i]
    <3>1. meant[i + 1] = IF WrittenFor(written[i + 1], product)
                         THEN Append(meant[(i + 1) - 1], written[i + 1].fields)
                         ELSE meant[(i + 1) - 1]
      BY <2>2 DEF IsMeant
    <3>2. QED
      BY <1>0, <2>2, <3>1
  <2>5. QED
    BY <2>1, <2>3, <2>4
<1>7. T = {}
  <2> HIDE DEF T
  <2> QED BY <1>5, <1>6, NoLeast DEF T
<1>8. QED
  BY <1>7

-----------------------------------------------------------------------------
(***************************************************************************)
(* Where the parser is.  A list is known with the layout g of its text;    *)
(* either it is within the fields of entry i, q of which are read, or      *)
(* before them, and m of the mirrors above the entry are read.  The fields *)
(* held are then those of the entry before, complete but not yet added.    *)
(***************************************************************************)
Laid(g, es, p) ==
  /\ Layout(es, g.text, g.pieces, g.start, g.body, g.part)
  /\ Marked(es, g.marks)
  /\ IsMeant(g.meant, es, p, Len(es))

Left(g, i, x)     == SubSeq(g.text, (g.start[i - 1] + x) + 1, Len(g.text))
Seen(g, es, i, m) == SubSeq(MirrorsOf(es), 1, g.marks[i - 1] + m)

Lacks(es, p, i) == es[i].product = p /\ \E k \in Mandatory : es[i].fields[k] = << >>

Held(g, i, f) ==
  /\ valid_product = (i > 0 /\ written[i].product = product)
  /\ fields = IF valid_product THEN f ELSE Blank
  /\ added = IF i = 0 THEN << >> ELSE g.meant[i - 1]
  /\ \A j \in 1..Len(written) : Lacks(written, product, j) => j >= i
  /\ failed = FALSE

Within(g, i, q) ==
  /\ rest = Left(g, i, g.body[i] + q)
  /\ mirrors = Seen(g, written, i + 1, 0)
  /\ Held(g, i, g.part[i][q])

Before(g, i, m) ==
  /\ rest = Left(g, i, m)
  /\ mirrors = Seen(g, written, i, m)
  /\ Held(g, i - 1, written[i - 1].fields)

Reading ==
  \E g : /\ Laid(g, written, product)
         /\ \/ \E i \in 1..Len(written) :
                 \E q \in 0..Len(g.pieces[i]) - g.body[i] - 1 : Within(g, i, q)
            \/ \E i \in 1..Len(written) :
                 \E m \in 0..Len(written[i].mirrors) : Before(g, i, m)
            \/ Before(g, Len(written) + 1, 0)

(* What the parse comes to: all that was meant is added, or what was meant *)
(* before the first entry that lacks a field.                              *)
Parsed ==
  \E meant :
    /\ IsMeant(meant, written, product, Len(written))
    /\ \/ /\ failed = FALSE /\ added = meant[Len(written)]
          /\ \A j \in 1..Len(written) : ~Lacks(written, product, j)
       \/ \E i \in 1..Len(written) :
            /\ failed = TRUE /\ added = meant[i - 1]
            /\ Lacks(written, product, i)
            /\ \A j \in 1..Len(written) : Lacks(written, product, j) => j >= i

MirrorsRead(ms) ==
  \E x \in 0..Len(MirrorsOf(written)) :
    /\ ms = SubSeq(MirrorsOf(written), 1, x)
    /\ ~failed => x = Len(MirrorsOf(written))

MirrorsDone ==
  \E ms : /\ MirrorsRead(ms)
          /\ mirrors = IF product \in OnDisk \/ ms = << >> THEN Append(ms, product) ELSE ms

ListInv ==
  /\ phase \in {"idle", "reading", "read", "done"}
  /\ product \in Products /\ written \in Seq(Entries)
  /\ DOMAIN fields = Keys /\ {valid_product, failed} \subseteq BOOLEAN
  /\ phase # "reading" => fields = Blank
  /\ phase = "idle" => /\ written = << >> /\ added = << >> /\ mirrors = << >>
                       /\ ~valid_product /\ ~failed
  /\ phase = "reading" => Reading
  /\ phase \in {"read", "done"} => Parsed
  /\ phase = "read" => MirrorsRead(mirrors)
  /\ phase = "done" => MirrorsDone

Typed(off, seqs, n) ==
  /\ \A i \in 1..n + 1 : off[i - 1] \in Nat /\ off[i - 1] <= off[n]
  /\ \A i \in 1..n : Len(seqs[i]) \in Nat /\ off[i] = off[i - 1] + Len(seqs[i])

LEMMA OffsetTypes ==
  ASSUME NEW S, NEW n \in Nat, NEW seqs \in [1..n -> Seq(S)], Len(seqs) = n,
         NEW off, IsOffset(off, seqs)
  PROVE  Typed(off, seqs, n)
<1>1. \A i \in 1..n : Len(seqs[i]) \in Nat /\ off[i] = off[i - 1] + Len(seqs[i])
  <2>1. \A i \in 1..n : seqs[i] \in Seq(S)
    OBVIOUS
  <2>2. QED
    BY <2>1, LenProperties DEF IsOffset
<1>2. ASSUME NEW i \in 1..n + 1 PROVE off[i - 1] \in Nat /\ off[i - 1] <= off[n]
  <2>1. i - 1 \in 0..n /\ n \in 0..n /\ i - 1 <= n
    OBVIOUS
  <2>2. off[i - 1] \in Nat
    BY <2>1 DEF IsOffset
  <2>3. QED
    BY <2>1, <2>2, OffsetsGrow
<1>3. QED
  BY <1>1, <1>2 DEF Typed

(* The next line is the next line of the entry.                            *)
NextIs(g, i, x) ==
  /\ Left(g, i, x) # << >>
  /\ Head(Left(g, i, x)) = g.pieces[i][x + 1]
  /\ Tail(Left(g, i, x)) = Left(g, i, x + 1)

LEMMA NextLine ==
  ASSUME NEW es \in Seq(Entries), NEW p, NEW g, Laid(g, es, p),
         NEW i \in 1..Len(es), NEW x \in Nat, x < Len(g.pieces[i])
  PROVE  NextIs(g, i, x)
<1> DEFINE n == Len(es)
           a == g.start[i - 1]
           P == g.pieces
           t == g.text
<1>1. n \in Nat
  BY LenProperties
<1>2. /\ t \in Seq(Lines) /\ P \in [1..n -> Seq(Lines)] /\ Len(P) = n
      /\ IsOffset(g.start, P) /\ Len(t) = g.start[n]
      /\ \A k \in 1..n : \A j \in 1..Len(P[k]) : t[g.start[k - 1] + j] = P[k][j]
  BY DEF Laid, Layout, Flat
<1> HIDE DEF n, P, t
<1>3. i \in 1..n /\ x < Len(P[i])
  BY DEF n, P
<1>4. /\ a \in Nat /\ Len(P[i]) \in Nat /\ g.start[i] = a + Len(P[i])
      /\ g.start[i] <= Len(t) /\ g.start[i] \in Nat
  <2>1. i \in 1..n + 1 /\ i + 1 \in 1..n + 1 /\ (i + 1) - 1 = i
    BY <1>1, <1>3
  <2>2. g.start[(i + 1) - 1] \in Nat /\ g.start[(i + 1) - 1] <= g.start[n]
    BY <1>1, <1>2, <2>1, OffsetTypes DEF Typed
  <2>3. a \in Nat /\ Len(P[i]) \in Nat /\ g.start[i] = a + Len(P[i])
    BY SMTT(30), <1>1, <1>2, <1>3, <2>1, OffsetTypes DEF Typed
  <2>4. QED
    BY <1>2, <2>1, <2>2, <2>3
<1> DEFINE y == a + x
<1> HIDE DEF a
<1>5. y \in Nat /\ y < Len(t) /\ y <= Len(t)
  <2>1. Len(t) \in Nat
    BY <1>2, LenProperties
  <2>2. QED
    BY <1>3, <1>4, <2>1
<1>6. t[y + 1] = P[i][x + 1]
  <2>1. x + 1 \in 1..Len(P[i])
    BY <1>3, <1>4
  <2>2. t[a + (x + 1)] = P[i][x + 1]
    BY <1>2, <1>3, <2>1 DEF a
  <2>3. a + (x + 1) = y + 1
    BY <1>4
  <2>4. QED
    BY <2>2, <2>3
<1>7. y + 2 = (a + (x + 1)) + 1
  BY <1>4
<1> HIDE DEF y
<1>8. /\ SubSeq(t, y + 1, Len(t)) # << >>
      /\ Head(SubSeq(t, y + 1, Len(t))) = t[y + 1]
      /\ Tail(SubSeq(t, y + 1, Len(t))) = SubSeq(t, y + 2, Len(t))
  BY <1>2, <1>5, LeftToRead
<1>9. Left(g, i, x) = SubSeq(t, y + 1, Len(t))
  BY DEF Left, a, t, y
<1>10. Left(g, i, x + 1) = SubSeq(t, y + 2, Len(t))
  BY <1>7 DEF Left, a, t
<1>11. QED
  BY <1>6, <1>8, <1>9, <1>10 DEF NextIs, P

(* After the last line of an entry comes the first of the next.            *)
LEMMA NextEntry ==
  ASSUME NEW es \in Seq(Entries), NEW p, NEW g, Laid(g, es, p),
         NEW i \in 1..Len(es)
  PROVE  Left(g, i, Len(g.pieces[i])) = Left(g, i + 1, 0)
<1> DEFINE n == Len(es)
           P == g.pieces
<1>1. n \in Nat
  BY LenProperties
<1>2. P \in [1..n -> Seq(Lines)] /\ Len(P) = n /\ IsOffset(g.start, P)
  BY DEF Laid, Layout, Flat
<1> HIDE DEF n, P
<1>3. i \in 1..n
  BY DEF n
<1>4. /\ g.start[i - 1] \in Nat /\ Len(P[i]) \in Nat
      /\ g.start[i] = g.start[i - 1] + Len(P[i])
  <2>1. i \in 1..n + 1
    BY <1>1, <1>3
  <2>2. /\ \A k \in 1..n + 1 : g.start[k - 1] \in Nat
        /\ \A k \in 1..n : /\ Len(P[k]) \in Nat
                           /\ g.start[k] = g.start[k - 1] + Len(P[k])
    <3>1. Typed(g.start, P, n)
      BY <1>1, <1>2, OffsetTypes
    <3>2. QED
      BY <3>1 DEF Typed
  <2>3. QED
    BY <1>3, <2>1, <2>2
<1>5. (i + 1) - 1 = i /\ g.start[i - 1] + Len(P[i]) = g.start[i] + 0
  BY <1>3, <1>4
<1>6. QED
  BY <1>5 DEF Left, P

LEMMA FirstAndLast ==
  ASSUME NEW es \in Seq(Entries), NEW p, NEW g, Laid(g, es, p)
  PROVE  /\ Left(g, 1, 0) = g.text
         /\ Left(g, Len(es) + 1, 0) = << >>
         /\ Seen(g, es, 1, 0) = << >>
         /\ Seen(g, es, Len(es) + 1, 0) = MirrorsOf(es)
<1> DEFINE n == Len(es)
           s == [i \in 1..n |-> es[i].mirrors]
           A == MirrorsOf(es)
<1>1. n \in Nat /\ (n + 1) - 1 = n
  BY LenProperties
<1>2. /\ g.text \in Seq(Lines) /\ g.start[0] = 0 /\ Len(g.text) = g.start[n]
  BY DEF Laid, Layout, Flat, IsOffset
<1>3. Len(s) = n
  BY <1>1
<1>4. A \in Seq(Texts) /\ g.marks[0] = 0 /\ Len(A) = g.marks[n]
  <2>1. Marked(es, g.marks)
    BY DEF Laid
  <2> HIDE DEF s
  <2>2. A \in Seq(Texts) /\ Flat(A, g.marks, s)
    BY <2>1 DEF Marked, s
  <2>3. QED
    BY <1>3, <2>2 DEF Flat, IsOffset
<1> HIDE DEF A, n
<1>5. Len(g.text) \in Nat /\ Len(A) \in Nat
  BY <1>2, <1>4, LenProperties
<1>6. Left(g, 1, 0) = g.text
  <2>1. (g.start[1 - 1] + 0) + 1 = 1
    BY <1>2
  <2>2. Left(g, 1, 0) = SubSeq(g.text, 1, Len(g.text))
    BY <2>1 DEF Left
  <2>3. QED
    BY <1>2, <2>2, ReadSoFar
<1>7. Left(g, n + 1, 0) = << >>
  <2>1. (g.start[(n + 1) - 1] + 0) + 1 = Len(g.text) + 1
    BY <1>1, <1>2, <1>5
  <2>2. Left(g, n + 1, 0) = SubSeq(g.text, Len(g.text) + 1, Len(g.text))
    BY <2>1 DEF Left
  <2>3. SubSeq(g.text, Len(g.text) + 1, Len(g.text)) = << >>
    BY <1>2, <1>5, LeftToRead
  <2>4. QED
    BY <2>2, <2>3
<1>8. Seen(g, es, 1, 0) = << >>
  <2>1. g.marks[1 - 1] + 0 = 0
    BY <1>4
  <2>2. Seen(g, es, 1, 0) = SubSeq(A, 1, 0)
    BY <2>1 DEF Seen, A
  <2>3. QED
    BY <1>4, <2>2, ReadSoFar
<1>9. Seen(g, es, n + 1, 0) = A
  <2>1. g.marks[(n + 1) - 1] + 0 = Len(A)
    BY <1>1, <1>4, <1>5
  <2>2. Seen(g, es, n + 1, 0) = SubSeq(A, 1, Len(A))
    BY <2>1 DEF Seen, A
  <2>3. QED
    BY <1>4, <2>2, ReadSoFar
<1>10. QED
  BY <1>6, <1>7, <1>8, <1>9 DEF n, A

(* What has been seen of the mirrors, from one line to the next.           *)
LEMMA NextMirror ==
  ASSUME NEW es \in Seq(Entries), NEW p, NEW g, Laid(g, es, p),
         NEW i \in 1..Len(es), NEW m \in 0..Len(es[i].mirrors)
  PROVE  /\ m < Len(es[i].mirrors) =>
              Seen(g, es, i, m + 1) = Append(Seen(g, es, i, m), es[i].mirrors[m + 1])
         /\ m = Len(es[i].mirrors) => Seen(g, es, i, m) = Seen(g, es, i + 1, 0)
         /\ \E x \in 0..Len(MirrorsOf(es)) : Seen(g, es, i, m) = SubSeq(MirrorsOf(es), 1, x)
<1> DEFINE n == Len(es)
           s == [k \in 1..n |-> es[k].mirrors]
           A == MirrorsOf(es)
           a == g.marks[i - 1]
           M == Len(es[i].mirrors)
<1>1. n \in Nat /\ \A k \in 1..n : es[k].mirrors \in Seq(Texts)
  <2>1. n \in Nat /\ \A k \in 1..n : es[k] \in Entries
    BY LenProperties, ElementOfSeq
  <2>2. QED
    BY <2>1, ListAssumption
<1>2. /\ s \in [1..n -> Seq(Texts)] /\ Len(s) = n
      /\ s[i] = es[i].mirrors
  BY <1>1
<1>3. A \in Seq(Texts) /\ Flat(A, g.marks, s)
  BY DEF Laid, Marked
<1> HIDE DEF s, A, n
<1>4. i \in 1..n /\ i \in 1..n + 1 /\ i + 1 \in 1..n + 1 /\ (i + 1) - 1 = i
  BY <1>1 DEF n
<1>5. /\ IsOffset(g.marks, s) /\ Len(A) = g.marks[n]
      /\ \A j \in 1..Len(s[i]) : A[a + j] = s[i][j]
  BY <1>2, <1>3, <1>4 DEF Flat
<1>6. M \in Nat /\ a \in Nat /\ g.marks[i] = a + M /\ g.marks[i] <= Len(A)
  <2>1. g.marks[(i + 1) - 1] <= g.marks[n]
    BY <1>1, <1>2, <1>4, <1>5, OffsetTypes DEF Typed
  <2>2. a \in Nat /\ Len(s[i]) \in Nat /\ g.marks[i] = a + Len(s[i])
    <3>1. /\ \A k \in 1..n + 1 : g.marks[k - 1] \in Nat
          /\ \A k \in 1..n : /\ Len(s[k]) \in Nat
                             /\ g.marks[k] = g.marks[k - 1] + Len(s[k])
      <4>1. Typed(g.marks, s, n)
        BY <1>1, <1>2, <1>5, OffsetTypes
      <4>2. QED
        BY <4>1 DEF Typed
    <3>2. QED
      BY <1>4, <3>1
  <2>3. QED
    BY <1>2, <1>4, <1>5, <2>1, <2>2
<1>7. Len(A) \in Nat
  BY <1>3, LenProperties
<1>8. Seen(g, es, i, m) = SubSeq(A, 1, a + m)
  BY DEF Seen, A
<1>9. a + m \in 0..Len(A)
  <2> HIDE DEF a, M
  <2>1. m \in 0..M
    BY DEF M
  <2>2. QED
    BY <1>6, <1>7, <2>1
<1>10. ASSUME m < M
       PROVE  Seen(g, es, i, m + 1) = Append(Seen(g, es, i, m), es[i].mirrors[m + 1])
  <2> DEFINE y == a + (m + 1)
  <2>1. Seen(g, es, i, m + 1) = SubSeq(A, 1, y)
    BY DEF Seen, A
  <2>2. A[y] = es[i].mirrors[m + 1]
    <3>1. m + 1 \in 1..Len(s[i])
      BY <1>2, <1>6, <1>10
    <3>2. QED
      BY <1>2, <1>5, <3>1
  <2> HIDE DEF a, M
  <2>3. y \in 1..Len(A) /\ y - 1 = a + m
    BY <1>6, <1>7, <1>10
  <2> HIDE DEF y
  <2>4. SubSeq(A, 1, y) = Append(SubSeq(A, 1, y - 1), A[y])
    BY <1>3, <2>3, ReadSoFar
  <2>5. QED
    BY <1>8, <2>1, <2>2, <2>3, <2>4
<1>11. ASSUME m = M PROVE Seen(g, es, i, m) = Seen(g, es, i + 1, 0)
  <2>1. Seen(g, es, i + 1, 0) = SubSeq(A, 1, g.marks[i] + 0)
    BY <1>4 DEF Seen, A
  <2>2. g.marks[i] + 0 = a + m
    BY <1>6, <1>11
  <2>3. QED
    BY <1>8, <2>1, <2>2
<1>12. QED
  BY <1>8, <1>9, <1>10, <1>11 DEF A, M

-----------------------------------------------------------------------------
(***************************************************************************)
(* What the next line can be, wherever the parser is.                      *)
(***************************************************************************)
AtField(g, i, q) ==
  /\ q \in 0..Len(g.pieces[i]) - g.body[i] - 1 /\ Within(g, i, q)
  /\ GrowsBy(g.part[i][q], Head(rest), g.part[i][q + 1])
  /\ Tail(rest) = Left(g, i, g.body[i] + (q + 1))

AtMirror(g, i, m) ==
  /\ m \in 0..Len(written[i].mirrors) - 1 /\ Before(g, i, m)
  /\ Head(rest) = Line("Mirror", written[i].mirrors[m + 1])
  /\ Tail(rest) = Left(g, i, m + 1)

AtProduct(g, i) ==
  /\ Before(g, i, Len(written[i].mirrors))
  /\ Head(rest) = Line("Product", written[i].product)
  /\ Tail(rest) = Left(g, i, g.body[i] + 0)

AtNext(g, i) ==
  /\ Before(g, i, Len(written[i].mirrors))
  /\ i > 1 /\ written[i].product = written[i - 1].product
  /\ written[i - 1].fields["Version"] # << >>
  /\ Head(rest).key \in {"Component", "Version"}
  /\ GrowsBy(Blank, Head(rest), g.part[i][1])
  /\ Tail(rest) = Left(g, i, g.body[i] + 1)

LEMMA EntryHere ==
  ASSUME NEW es \in Seq(Entries), NEW p, NEW g, Laid(g, es, p), NEW i \in 1..Len(es)
  PROVE  /\ EntryIn(es, g.pieces[i], g.body[i], g.part[i], i)
         /\ Len(es) \in Nat /\ Len(es[i].mirrors) \in Nat
         /\ g.body[i] \in Nat /\ Len(g.pieces[i]) \in Nat /\ g.body[i] < Len(g.pieces[i])
         /\ es[i] \in Entries /\ Sensible(es[i].fields) /\ es[i].fields \in Fields
<1>1. EntryIn(es, g.pieces[i], g.body[i], g.part[i], i)
  BY DEF Laid, Layout
<1>2. Len(es) \in Nat /\ es[i] \in Entries
  BY LenProperties, ElementOfSeq
<1>3. es[i].mirrors \in Seq(Texts) /\ Sensible(es[i].fields)
  BY <1>2, ListAssumption
<1>4. es[i].fields \in Fields
  BY <1>3 DEF Sensible, Fields
<1>5. Len(es[i].mirrors) \in Nat
  BY <1>3, LenProperties
<1>6. g.body[i] \in Nat /\ g.body[i] < Len(g.pieces[i])
  BY <1>1, <1>5 DEF EntryIn
<1>7. Len(g.pieces[i]) \in Nat
  <2>1. g.pieces[i] \in Seq(Lines)
    BY <1>1 DEF EntryIn
  <2>2. QED
    BY <2>1, LenProperties
<1>8. QED
  BY <1>1, <1>2, <1>3, <1>4, <1>5, <1>6, <1>7

LEMMA Positions ==
  ASSUME written \in Seq(Entries), NEW g, Laid(g, written, product), rest # << >>,
         \/ \E i \in 1..Len(written) :
              \E q \in 0..Len(g.pieces[i]) - g.body[i] - 1 : Within(g, i, q)
         \/ \E i \in 1..Len(written) :
              \E m \in 0..Len(written[i].mirrors) : Before(g, i, m)
         \/ Before(g, Len(written) + 1, 0)
  PROVE  \E i \in 1..Len(written) :
           \/ \E q : AtField(g, i, q)
           \/ \E m : AtMirror(g, i, m)
           \/ AtProduct(g, i)
           \/ AtNext(g, i)
<1>1. ~Before(g, Len(written) + 1, 0)
  BY FirstAndLast DEF Before
<1>2. ASSUME NEW i \in 1..Len(written),
             NEW q \in 0..Len(g.pieces[i]) - g.body[i] - 1, Within(g, i, q)
      PROVE  AtField(g, i, q)
  <2> DEFINE P == g.pieces[i]
             b == g.body[i]
             x == b + q
  <2>1. EntryIn(written, P, b, g.part[i], i) /\ b \in Nat /\ Len(P) \in Nat /\ b < Len(P)
    BY EntryHere
  <2>2. \A k \in 1..Len(P) - b : GrowsBy(g.part[i][k - 1], P[b + k], g.part[i][k])
    BY <2>1 DEF EntryIn
  <2>3. rest = Left(g, i, x)
    BY <1>2 DEF Within
  <2>4. q \in 0..Len(P) - b - 1
    OBVIOUS
  <2> HIDE DEF P, b
  <2>5. x \in Nat /\ x < Len(P) /\ q + 1 \in 1..Len(P) - b /\ x + 1 = b + (q + 1) /\ (q + 1) - 1 = q
    BY <2>1, <2>4
  <2> HIDE DEF x
  <2>6. Head(rest) = P[x + 1] /\ Tail(rest) = Left(g, i, x + 1)
    <3>1. x < Len(g.pieces[i])
      BY <2>5 DEF P
    <3>2. NextIs(g, i, x)
      BY <2>5, <3>1, NextLine
    <3>3. QED
      BY <2>3, <3>2 DEF NextIs, P
  <2>7. GrowsBy(g.part[i][(q + 1) - 1], P[b + (q + 1)], g.part[i][q + 1])
    BY <2>2, <2>5
  <2>8. GrowsBy(g.part[i][q], Head(rest), g.part[i][q + 1])
    BY <2>5, <2>6, <2>7
  <2>9. QED
    BY <1>2, <2>4, <2>5, <2>6, <2>8 DEF AtField, P, b
<1>3. ASSUME NEW i \in 1..Len(written), NEW m \in 0..Len(written[i].mirrors),
             Before(g, i, m)
      PROVE  AtMirror(g, i, m) \/ AtProduct(g, i) \/ AtNext(g, i)
  <2> DEFINE P == g.pieces[i]
             b == g.body[i]
             M == Len(written[i].mirrors)
  <2>1. /\ EntryIn(written, P, b, g.part[i], i) /\ b \in Nat /\ Len(P) \in Nat
        /\ b < Len(P) /\ M \in Nat
    BY EntryHere
  <2>2. b \in {M, M + 1} /\ \A k \in 1..M : P[k] = Line("Mirror", written[i].mirrors[k])
    BY <2>1 DEF EntryIn
  <2>3. rest = Left(g, i, m)
    BY <1>3 DEF Before
  <2>4. m \in 0..M
    OBVIOUS
  <2> HIDE DEF P, b, M
  <2>5. m \in Nat /\ m < Len(P)
    BY <2>1, <2>2, <2>4
  <2>6. Head(rest) = P[m + 1] /\ Tail(rest) = Left(g, i, m + 1)
    <3>1. m < Len(g.pieces[i])
      BY <2>5 DEF P
    <3>2. NextIs(g, i, m)
      BY <2>5, <3>1, NextLine
    <3>3. QED
      BY <2>3, <3>2 DEF NextIs, P
  <2>7. CASE m < M
    <3>1. m + 1 \in 1..M /\ m \in 0..M - 1
      BY <2>1, <2>4, <2>7
    <3>2. AtMirror(g, i, m)
      BY <1>3, <2>2, <2>6, <3>1 DEF AtMirror, M
    <3>3. QED
      BY <3>2
  <2>8. CASE m = M /\ b = M + 1
    <3>1. P[b] = Line("Product", written[i].product)
      BY <2>1, <2>8 DEF EntryIn, M
    <3>2. m + 1 = b /\ b + 0 = b
      BY <2>1, <2>8
    <3>3. Before(g, i, Len(written[i].mirrors))
      BY <1>3, <2>8 DEF M
    <3>4. AtProduct(g, i)
      BY <2>6, <3>1, <3>2, <3>3 DEF AtProduct, b
    <3>5. QED
      BY <3>4
  <2>9. CASE m = M /\ b = M
    <3>1. /\ i > 1 /\ written[i].product = written[i - 1].product
          /\ written[i - 1].fields["Version"] # << >>
          /\ P[b + 1].key \in {"Component", "Version"}
          /\ g.part[i][0] = Blank
          /\ \A k \in 1..Len(P) - b : GrowsBy(g.part[i][k - 1], P[b + k], g.part[i][k])
      BY <2>1, <2>9 DEF EntryIn, M
    <3>2. 1 \in 1..Len(P) - b /\ 1 - 1 = 0
      BY <2>1
    <3>3. GrowsBy(Blank, P[b + 1], g.part[i][1])
      BY <3>1, <3>2
    <3>4. Before(g, i, Len(written[i].mirrors))
      BY <1>3, <2>9 DEF M
    <3>5. AtNext(g, i)
      BY <2>6, <2>9, <3>1, <3>3, <3>4 DEF AtNext, b
    <3>6. QED
      BY <3>5
  <2>10. m < M \/ m = M
    BY <2>1, <2>4
  <2>11. QED
    BY <2>2, <2>7, <2>8, <2>9, <2>10
<1>4. QED
  BY <1>1, <1>2, <1>3

(* The parser has gone on to q lines of entry i.                           *)
LEMMA Advance ==
  ASSUME written \in Seq(Entries), UNCHANGED done, NEW g, Laid(g, written, product),
         NEW i \in 1..Len(written), NEW q \in 0..Len(g.pieces[i]) - g.body[i],
         rest' = Left(g, i, g.body[i] + q), mirrors' = Seen(g, written, i + 1, 0),
         Held(g, i, g.part[i][q])'
  PROVE  Reading'
<1> DEFINE n == Len(written)
           P == g.pieces[i]
           b == g.body[i]
<1>1. /\ EntryIn(written, P, b, g.part[i], i) /\ b \in Nat /\ Len(P) \in Nat
      /\ b < Len(P) /\ n \in Nat
  BY EntryHere
<1>2. written' = written /\ product' = product
  BY DEF done
<1>3. Laid(g, written', product') /\ Len(written') = n
  BY <1>2
<1>4. CASE q # Len(P) - b
  <2>1. q \in 0..Len(P) - b - 1
    <3>1. q \in 0..Len(P) - b
      OBVIOUS
    <3> HIDE DEF P, b
    <3>2. QED
      BY <1>1, <1>4, <3>1
  <2>2. Within(g, i, q)'
    BY <1>2 DEF Within
  <2>3. QED
    BY <1>2, <1>3, <2>1, <2>2 DEF Reading
<1>5. CASE q = Len(P) - b
  <2>1. rest' = Left(g, i + 1, 0)
    <3>1. b + q = Len(P)
      <4> HIDE DEF P, b
      <4> QED BY <1>1, <1>5
    <3>2. Left(g, i, Len(P)) = Left(g, i + 1, 0)
      BY NextEntry
    <3>3. QED
      BY <3>1, <3>2
  <2>2. g.part[i][q] = written[i].fields
    BY <1>1, <1>5 DEF EntryIn
  <2>3. (i + 1) - 1 = i
    OBVIOUS
  <2>4. Held(g, (i + 1) - 1, written[(i + 1) - 1].fields)'
    BY <1>2, <2>2, <2>3
  <2>5. Before(g, i + 1, 0)'
    BY <1>2, <2>1, <2>4 DEF Before
  <2>6. CASE i = n
    BY <1>3, <2>5, <2>6 DEF Reading
  <2>7. CASE i # n
    <3>1. i + 1 \in 1..n
      BY <1>1, <2>7
    <3>2. 0 \in 0..Len(written[i + 1].mirrors)
      BY <3>1, EntryHere
    <3>3. QED
      BY <1>2, <1>3, <2>5, <3>1, <3>2 DEF Reading
  <2>8. QED
    BY <2>6, <2>7
<1>6. QED
  BY <1>4, <1>5

(* The entry that was held is over: it is added as it was meant, or it     *)
(* lacks a field and nothing is.                                           *)
LEMMA EntryEnds ==
  ASSUME written \in Seq(Entries), product \in Products, NEW g, Laid(g, written, product),
         NEW i \in 1..Len(written) + 1, Held(g, i - 1, written[i - 1].fields), AddEntry
  PROVE  /\ Begun /\ Missing => /\ i > 1 /\ Lacks(written, product, i - 1)
                                /\ added' = g.meant[i - 2]
                                /\ \A j \in 1..Len(written) : Lacks(written, product, j) => j >= i - 1
         /\ ~(Begun /\ Missing) =>
              /\ added' = g.meant[i - 1]
              /\ \A j \in 1..Len(written) : Lacks(written, product, j) => j >= i
<1> DEFINE n == Len(written)
           e == written[i - 1]
<1>0. n \in Nat
  BY LenProperties
<1>1. /\ valid_product = (i - 1 > 0 /\ e.product = product)
      /\ fields = IF valid_product THEN e.fields ELSE Blank
      /\ added = IF i - 1 = 0 THEN << >> ELSE g.meant[(i - 1) - 1]
      /\ \A j \in 1..n : Lacks(written, product, j) => j >= i - 1
  BY DEF Held
<1>2. /\ g.meant[0] = << >>
      /\ \A k \in 1..n : g.meant[k] = IF WrittenFor(written[k], product)
                                      THEN Append(g.meant[k - 1], written[k].fields)
                                      ELSE g.meant[k - 1]
  BY DEF Laid, IsMeant
<1>3. (i - 1) - 1 = i - 2 /\ i - 1 \in Nat
  OBVIOUS
<1>4. CASE i = 1
  <2>1. ~valid_product /\ fields = Blank /\ added = << >>
    <3>1. i - 1 = 0 /\ ~(i - 1 > 0)
      BY <1>4
    <3>2. QED
      BY <1>1, <3>1
  <2>2. ~Begun
    BY <2>1 DEF Begun, Blank
  <2>3. added' = added
    BY <2>2 DEF AddEntry
  <2>4. \A j \in 1..n : j >= i
    BY <1>4
  <2>5. QED
    BY <1>2, <1>4, <2>1, <2>2, <2>3, <2>4
<1>5. CASE i # 1
  <2>1. i > 1 /\ i - 1 \in 1..n /\ i - 1 > 0 /\ i - 1 # 0
    BY <1>0, <1>5
  <2>2. added = g.meant[i - 2]
    BY <1>1, <1>3, <2>1
  <2>3. g.meant[i - 1] = IF WrittenFor(e, product) THEN Append(g.meant[i - 2], e.fields)
                         ELSE g.meant[i - 2]
    BY <1>2, <1>3, <2>1
  <2>4. Sensible(e.fields)
    BY <2>1, EntryHere
  <2>5. Lacks(written, product, i - 1) <=>
          e.product = product /\ \E k \in Mandatory : e.fields[k] = << >>
    BY DEF Lacks
  <2>6. \A j \in 1..n : Lacks(written, product, j) /\ j # i - 1 => j >= i
    BY <1>0, <1>1, <2>1
  <2>7. CASE e.product = product
    <3>1. valid_product /\ fields = e.fields
      BY <1>1, <2>1, <2>7
    <3>2. Begun
      BY <2>4, <3>1 DEF Begun, Sensible
    <3>3. Missing <=> Lacks(written, product, i - 1)
      BY <2>5, <2>7, <3>1 DEF Missing
    <3>4. Fits <=> WrittenFor(e, product)
      BY <2>7, <3>1 DEF Fits, WrittenFor
    <3>5. CASE Missing
      <4>1. added' = added
        BY <3>5 DEF AddEntry
      <4>2. QED
        BY <1>1, <2>1, <2>2, <3>2, <3>3, <3>5, <4>1
    <3>6. CASE ~Missing
      <4>1. added' = IF Fits THEN Append(added, fields) ELSE added
        BY <3>2, <3>6 DEF AddEntry
      <4>2. added' = g.meant[i - 1]
        BY <2>2, <2>3, <3>1, <3>4, <4>1
      <4>3. QED
        BY <2>6, <3>3, <3>6, <4>2
    <3>7. QED
      BY <3>5, <3>6
  <2>8. CASE e.product # product
    <3>1. ~valid_product /\ fields = Blank
      BY <1>1, <2>8
    <3>2. ~Begun
      BY <3>1 DEF Begun, Blank
    <3>3. added' = added
      BY <3>2 DEF AddEntry
    <3>4. ~WrittenFor(e, product) /\ ~Lacks(written, product, i - 1)
      BY <2>5, <2>8 DEF WrittenFor
    <3>5. QED
      BY <2>2, <2>3, <2>6, <3>2, <3>3, <3>4
  <2>9. QED
    BY <2>7, <2>8
<1>6. QED
  BY <1>4, <1>5

-----------------------------------------------------------------------------
(***************************************************************************)
(* The steps.                                                              *)
(***************************************************************************)
LEMMA KeysApart ==
  /\ "Mirror" \notin Keys /\ "Product" \notin Keys
  /\ "Component" \in Keys /\ "Version" \in Keys /\ "Architecture" \in Keys
  /\ DOMAIN Blank = Keys /\ \A k \in Keys : Blank[k] = << >>
BY DEF Keys, Blank

LEMMA WhereReading ==
  ASSUME ListInv, phase = "reading", rest # << >>
  PROVE  \E g : /\ Laid(g, written, product)
                /\ \E i \in 1..Len(written) :
                     \/ \E q : AtField(g, i, q)
                     \/ \E m : AtMirror(g, i, m)
                     \/ AtProduct(g, i)
                     \/ AtNext(g, i)
<1>1. written \in Seq(Entries) /\ Reading
  BY DEF ListInv
<1>2. PICK g : /\ Laid(g, written, product)
               /\ \/ \E i \in 1..Len(written) :
                       \E q \in 0..Len(g.pieces[i]) - g.body[i] - 1 : Within(g, i, q)
                  \/ \E i \in 1..Len(written) :
                       \E m \in 0..Len(written[i].mirrors) : Before(g, i, m)
                  \/ Before(g, Len(written) + 1, 0)
  BY <1>1 DEF Reading
<1>3. \E i \in 1..Len(written) :
        \/ \E q : AtField(g, i, q)
        \/ \E m : AtMirror(g, i, m)
        \/ AtProduct(g, i)
        \/ AtNext(g, i)
  BY <1>1, <1>2, Positions
<1>4. QED
  BY <1>2, <1>3

(* The mirrors that were seen are the first of the list's.                 *)
LEMMA SeenSoFar ==
  ASSUME NEW es \in Seq(Entries), NEW p, NEW g, Laid(g, es, p),
         NEW i, NEW m,
         \/ i \in 1..Len(es) /\ m \in 0..Len(es[i].mirrors)
         \/ i = Len(es) + 1 /\ m = 0
  PROVE  \E x \in 0..Len(MirrorsOf(es)) : Seen(g, es, i, m) = SubSeq(MirrorsOf(es), 1, x)
<1>1. CASE i \in 1..Len(es) /\ m \in 0..Len(es[i].mirrors)
  BY SMTT(30), <1>1, NextMirror
<1>2. CASE i = Len(es) + 1 /\ m = 0
  <2> DEFINE A == MirrorsOf(es)
  <2>1. Seen(g, es, i, m) = A /\ A \in Seq(Texts)
    BY <1>2, FirstAndLast DEF Laid, Marked
  <2> HIDE DEF A
  <2>2. Len(A) \in 0..Len(A) /\ SubSeq(A, 1, Len(A)) = A
    BY <2>1, LenProperties, ReadSoFar
  <2>3. QED
    BY <2>1, <2>2 DEF A
<1>3. QED
  BY <1>1, <1>2

LEMMA StopsHere ==
  ASSUME ListInv, UNCHANGED done, NEW g, Laid(g, written, product), NEW i, NEW m,
         \/ i \in 1..Len(written) /\ m \in 0..Len(written[i].mirrors)
         \/ i = Len(written) + 1 /\ m = 0,
         Before(g, i, m), AddEntry, Begun, Missing, StopParsing
  PROVE  ListInv'
<1>1. /\ written \in Seq(Entries) /\ product \in Products /\ Len(written) \in Nat
      /\ valid_product \in BOOLEAN
  BY LenProperties DEF ListInv
<1>2. i \in 1..Len(written) + 1
  BY <1>1
<1>3. /\ i > 1 /\ Lacks(written, product, i - 1) /\ added' = g.meant[i - 2]
      /\ \A j \in 1..Len(written) : Lacks(written, product, j) => j >= i - 1
  BY <1>1, <1>2, EntryEnds DEF Before
<1>4. /\ written' = written /\ product' = product /\ phase' = "read" /\ failed' = TRUE
      /\ fields' = Blank /\ valid_product' = valid_product /\ mirrors' = mirrors
  BY DEF done, StopParsing
<1>5. Parsed'
  <2>1. i - 1 \in 1..Len(written) /\ (i - 1) - 1 = i - 2
    BY <1>1, <1>2, <1>3
  <2>2. IsMeant(g.meant, written, product, Len(written))
    BY DEF Laid
  <2>3. /\ failed' = TRUE /\ added' = g.meant[(i - 1) - 1]
        /\ Lacks(written', product', i - 1)
        /\ \A j \in 1..Len(written') : Lacks(written', product', j) => j >= i - 1
    BY <1>3, <1>4, <2>1
  <2>4. IsMeant(g.meant, written', product', Len(written')) /\ i - 1 \in 1..Len(written')
    BY <1>4, <2>1, <2>2
  <2> DEFINE k == i - 1
  <2> HIDE DEF k
  <2>5. /\ k \in 1..Len(written') /\ failed' = TRUE /\ added' = g.meant[k - 1]
        /\ Lacks(written', product', k)
        /\ \A j \in 1..Len(written') : Lacks(written', product', j) => j >= k
    BY <2>3, <2>4 DEF k
  <2>6. QED
    BY <2>4, <2>5 DEF Parsed
<1>6. MirrorsRead(mirrors)'
  <2>1. mirrors = Seen(g, written, i, m)
    BY DEF Before
  <2>2. \E x \in 0..Len(MirrorsOf(written)) :
          Seen(g, written, i, m) = SubSeq(MirrorsOf(written), 1, x)
    BY <1>1, SeenSoFar
  <2>3. QED
    BY <1>4, <2>1, <2>2 DEF MirrorsRead
<1>7. QED
  BY <1>1, <1>4, <1>5, <1>6, KeysApart DEF ListInv

LEMMA GoesOn ==
  ASSUME ListInv, UNCHANGED done, phase' = "reading", Reading',
         DOMAIN fields' = Keys, {valid_product, failed}' \subseteq BOOLEAN
  PROVE  ListInv'
BY DEF ListInv, done

LEMMA MirrorStep == ASSUME ListInv, ReadMirror PROVE ListInv'
<1>1. /\ phase = "reading" /\ rest # << >> /\ Head(rest).key = "Mirror"
      /\ mirrors' = Append(mirrors, Head(rest).val) /\ rest' = Tail(rest)
      /\ UNCHANGED <<done, phase, valid_product, fields, added, failed>>
  BY DEF ReadMirror
<1>2. PICK g : /\ Laid(g, written, product)
               /\ \E i \in 1..Len(written) :
                    \/ \E q : AtField(g, i, q)
                    \/ \E m : AtMirror(g, i, m)
                    \/ AtProduct(g, i)
                    \/ AtNext(g, i)
  BY <1>1, WhereReading
<1>3. PICK i \in 1..Len(written) : \E m : AtMirror(g, i, m)
  <2>1. \A i, q : ~AtField(g, i, q)
    BY <1>1, KeysApart DEF AtField, GrowsBy
  <2>2. \A i : ~AtProduct(g, i)
    BY <1>1 DEF AtProduct, Line
  <2>3. \A i : ~AtNext(g, i)
    BY <1>1 DEF AtNext
  <2>4. QED
    BY <1>2, <2>1, <2>2, <2>3
<1>4. PICK m : AtMirror(g, i, m)
  BY <1>3
<1>5. written \in Seq(Entries) /\ {valid_product, failed} \subseteq BOOLEAN /\ DOMAIN fields = Keys
  BY DEF ListInv
<1>6. /\ m \in 0..Len(written[i].mirrors) - 1 /\ Before(g, i, m)
      /\ Head(rest) = Line("Mirror", written[i].mirrors[m + 1])
      /\ Tail(rest) = Left(g, i, m + 1)
  BY <1>4 DEF AtMirror
<1>7. Len(written[i].mirrors) \in Nat
  BY <1>2, <1>5, EntryHere
<1>8. /\ m \in 0..Len(written[i].mirrors) /\ m < Len(written[i].mirrors)
      /\ m + 1 \in 0..Len(written[i].mirrors)
  BY <1>6, <1>7
<1>9. mirrors' = Seen(g, written, i, m + 1)
  <2>1. mirrors' = Append(Seen(g, written, i, m), written[i].mirrors[m + 1])
    BY <1>1, <1>6 DEF Before, Line
  <2>2. QED
    BY <1>2, <1>5, <1>8, <2>1, NextMirror
<1>10. written' = written /\ product' = product
  BY <1>1 DEF done
<1>11. Before(g, i, m + 1)'
  <2>1. Held(g, i - 1, written[i - 1].fields)'
    BY <1>1, <1>6, <1>10 DEF Before, Held
  <2>2. QED
    BY <1>1, <1>6, <1>9, <1>10, <2>1 DEF Before
<1>12. Reading'
  BY <1>2, <1>8, <1>10, <1>11 DEF Reading
<1>13. QED
  BY <1>1, <1>5, <1>12, GoesOn

LEMMA ProductStep == ASSUME ListInv, ReadProduct PROVE ListInv'
<1>1. /\ phase = "reading" /\ rest # << >> /\ Head(rest).key = "Product"
      /\ AddEntry /\ UNCHANGED done
  BY DEF ReadProduct
<1>2. PICK g : /\ Laid(g, written, product)
               /\ \E i \in 1..Len(written) :
                    \/ \E q : AtField(g, i, q)
                    \/ \E m : AtMirror(g, i, m)
                    \/ AtProduct(g, i)
                    \/ AtNext(g, i)
  BY <1>1, WhereReading
<1>3. PICK i \in 1..Len(written) : AtProduct(g, i)
  <2>1. \A i, q : ~AtField(g, i, q)
    BY <1>1, KeysApart DEF AtField, GrowsBy
  <2>2. \A i, m : ~AtMirror(g, i, m)
    BY <1>1 DEF AtMirror, Line
  <2>3. \A i : ~AtNext(g, i)
    BY <1>1 DEF AtNext
  <2>4. QED
    BY <1>2, <2>1, <2>2, <2>3
<1>4. /\ written \in Seq(Entries) /\ {valid_product, failed} \subseteq BOOLEAN
      /\ product \in Products
  BY DEF ListInv
<1>5. /\ Before(g, i, Len(written[i].mirrors))
      /\ Head(rest) = Line("Product", written[i].product)
      /\ Tail(rest) = Left(g, i, g.body[i] + 0)
  BY <1>3 DEF AtProduct
<1>6. /\ EntryIn(written, g.pieces[i], g.body[i], g.part[i], i)
      /\ Len(written) \in Nat /\ Len(written[i].mirrors) \in Nat
      /\ g.body[i] \in Nat /\ Len(g.pieces[i]) \in Nat /\ g.body[i] < Len(g.pieces[i])
  BY <1>2, <1>4, EntryHere
<1>7. Len(written[i].mirrors) \in 0..Len(written[i].mirrors)
  BY <1>6
<1>8. CASE Begun /\ Missing /\ StopParsing
  BY <1>1, <1>2, <1>5, <1>7, <1>8, StopsHere
<1>9. CASE /\ ~(Begun /\ Missing)
           /\ fields' = Blank
           /\ valid_product' = (Head(rest).val = product)
           /\ rest' = Tail(rest)
           /\ UNCHANGED <<phase, mirrors, failed>>
  <2>1. i \in 1..Len(written) + 1
    BY <1>6
  <2>2. Held(g, i - 1, written[i - 1].fields)
    BY <1>5 DEF Before
  <2>3. /\ added' = g.meant[i - 1]
        /\ \A j \in 1..Len(written) : Lacks(written, product, j) => j >= i
    BY <1>1, <1>2, <1>4, <1>9, <2>1, <2>2, EntryEnds
  <2>4. written' = written /\ product' = product
    BY <1>1 DEF done
  <2>5. g.part[i][0] = Blank /\ i > 0 /\ i # 0
    BY <1>6 DEF EntryIn
  <2>6. valid_product' = (written[i].product = product) /\ failed = FALSE
    BY <1>5, <1>9, <2>2 DEF Line, Held
  <2>7. Held(g, i, g.part[i][0])'
    BY <1>9, <2>3, <2>4, <2>5, <2>6 DEF Held
  <2>8. mirrors' = Seen(g, written, i + 1, 0)
    <3>1. mirrors = Seen(g, written, i, Len(written[i].mirrors))
      BY <1>5 DEF Before
    <3>2. QED
      BY <1>2, <1>4, <1>7, <1>9, <3>1, NextMirror
  <2>9. 0 \in 0..Len(g.pieces[i]) - g.body[i]
    BY <1>6
  <2>10. Reading'
    BY <1>1, <1>2, <1>4, <1>5, <1>9, <2>7, <2>8, <2>9, Advance
  <2>11. QED
    BY <1>1, <1>4, <1>9, <2>6, <2>10, GoesOn, KeysApart
<1>10. QED
  BY <1>8, <1>9 DEF ReadProduct

LEMMA SkipStep == ASSUME ListInv, SkipField PROVE ListInv'
<1>1. /\ phase = "reading" /\ rest # << >> /\ Head(rest).key \in Keys /\ ~valid_product
      /\ rest' = Tail(rest)
      /\ UNCHANGED <<done, phase, valid_product, fields, added, mirrors, failed>>
  BY DEF SkipField
<1>2. PICK g : /\ Laid(g, written, product)
               /\ \E i \in 1..Len(written) :
                    \/ \E q : AtField(g, i, q)
                    \/ \E m : AtMirror(g, i, m)
                    \/ AtProduct(g, i)
                    \/ AtNext(g, i)
  BY <1>1, WhereReading
<1>3. PICK i \in 1..Len(written) : (\E q : AtField(g, i, q)) \/ AtNext(g, i)
  <2>1. \A i, m : ~AtMirror(g, i, m)
    BY <1>1, KeysApart DEF AtMirror, Line
  <2>2. \A i : ~AtProduct(g, i)
    BY <1>1, KeysApart DEF AtProduct, Line
  <2>3. QED
    BY <1>2, <2>1, <2>2
<1>4. /\ written \in Seq(Entries) /\ {valid_product, failed} \subseteq BOOLEAN
      /\ product \in Products /\ DOMAIN fields = Keys
  BY DEF ListInv
<1>5. /\ Len(written) \in Nat /\ Len(written[i].mirrors) \in Nat
      /\ g.body[i] \in Nat /\ Len(g.pieces[i]) \in Nat /\ g.body[i] < Len(g.pieces[i])
  BY <1>2, <1>4, EntryHere
<1>6. written' = written /\ product' = product
  BY <1>1 DEF done
<1>7. ASSUME NEW q, AtField(g, i, q) PROVE Reading'
  <2>1. /\ q \in 0..Len(g.pieces[i]) - g.body[i] - 1 /\ Within(g, i, q)
        /\ Tail(rest) = Left(g, i, g.body[i] + (q + 1))
    BY <1>7 DEF AtField
  <2>2. q + 1 \in 0..Len(g.pieces[i]) - g.body[i]
    BY <1>5, <2>1
  <2>3. Held(g, i, g.part[i][q + 1])'
    BY <1>1, <1>6, <2>1 DEF Within, Held
  <2>4. mirrors' = Seen(g, written, i + 1, 0)
    BY <1>1, <2>1 DEF Within
  <2>5. QED
    BY <1>1, <1>2, <1>4, <2>1, <2>2, <2>3, <2>4, Advance
<1>8. ASSUME AtNext(g, i) PROVE Reading'
  <2>1. /\ Before(g, i, Len(written[i].mirrors))
        /\ i > 1 /\ written[i].product = written[i - 1].product
        /\ Tail(rest) = Left(g, i, g.body[i] + 1)
    BY <1>8 DEF AtNext
  <2>2. i \in 1..Len(written) + 1 /\ i - 1 > 0 /\ i > 0 /\ i # 0
    BY <1>5, <2>1
  <2>3. Held(g, i - 1, written[i - 1].fields)
    BY <2>1 DEF Before
  <2>4. /\ fields = Blank /\ written[i].product # product /\ failed = FALSE
    BY <1>1, <2>1, <2>2, <2>3 DEF Held
  <2>5. ~Begun
    BY <2>4, KeysApart DEF Begun
  <2>6. AddEntry
    BY <1>1, <2>5 DEF AddEntry
  <2>7. /\ added' = g.meant[i - 1]
        /\ \A j \in 1..Len(written) : Lacks(written, product, j) => j >= i
    BY <1>2, <1>4, <2>2, <2>3, <2>5, <2>6, EntryEnds
  <2>8. Held(g, i, g.part[i][1])'
    BY <1>1, <1>4, <1>6, <2>2, <2>4, <2>7 DEF Held
  <2>9. mirrors' = Seen(g, written, i + 1, 0)
    <3>1. Len(written[i].mirrors) \in 0..Len(written[i].mirrors)
      BY <1>5
    <3>2. mirrors = Seen(g, written, i, Len(written[i].mirrors))
      BY <2>1 DEF Before
    <3>3. QED
      BY SMTT(30), <1>1, <1>2, <1>4, <3>1, <3>2, NextMirror
  <2>10. 1 \in 0..Len(g.pieces[i]) - g.body[i]
    BY <1>5
  <2>11. QED
    BY <1>1, <1>2, <1>4, <2>1, <2>8, <2>9, <2>10, Advance
<1>9. Reading'
  BY <1>3, <1>7, <1>8
<1>10. QED
  BY <1>1, <1>4, <1>9, GoesOn

LEMMA FieldStep == ASSUME ListInv, ReadField PROVE ListInv'
<1> DEFINE k == Head(rest).key
           v == Head(rest).val
<1>1. /\ phase = "reading" /\ rest # << >> /\ k \in Keys /\ valid_product
      /\ UNCHANGED done
  BY DEF ReadField
<1>2. PICK g : /\ Laid(g, written, product)
               /\ \E i \in 1..Len(written) :
                    \/ \E q : AtField(g, i, q)
                    \/ \E m : AtMirror(g, i, m)
                    \/ AtProduct(g, i)
                    \/ AtNext(g, i)
  BY <1>1, WhereReading
<1>3. PICK i \in 1..Len(written) : (\E q : AtField(g, i, q)) \/ AtNext(g, i)
  <2>1. \A i, m : ~AtMirror(g, i, m)
    BY <1>1, KeysApart DEF AtMirror, Line
  <2>2. \A i : ~AtProduct(g, i)
    BY <1>1, KeysApart DEF AtProduct, Line
  <2>3. QED
    BY <1>2, <2>1, <2>2
<1>4. /\ written \in Seq(Entries) /\ {valid_product, failed} \subseteq BOOLEAN
      /\ product \in Products /\ DOMAIN fields = Keys
  BY DEF ListInv
<1>5. /\ Len(written) \in Nat /\ Len(written[i].mirrors) \in Nat
      /\ g.body[i] \in Nat /\ Len(g.pieces[i]) \in Nat /\ g.body[i] < Len(g.pieces[i])
  BY <1>2, <1>4, EntryHere
<1>6. written' = written /\ product' = product
  BY <1>1 DEF done
<1>7. ASSUME NEW q, AtField(g, i, q) PROVE ListInv'
  <2>1. /\ q \in 0..Len(g.pieces[i]) - g.body[i] - 1 /\ Within(g, i, q)
        /\ GrowsBy(g.part[i][q], Head(rest), g.part[i][q + 1])
        /\ Tail(rest) = Left(g, i, g.body[i] + (q + 1))
    BY <1>7 DEF AtField
  <2>2. Held(g, i, g.part[i][q]) /\ fields = g.part[i][q]
    BY <1>1, <2>1 DEF Within, Held
  <2>3. ~BeginsEntry(k)
    BY <2>1, <2>2 DEF GrowsBy, BeginsEntry
  <2>4. /\ fields' = [fields EXCEPT ![k] = Append(@, v)]
        /\ rest' = Tail(rest)
        /\ UNCHANGED <<phase, valid_product, added, mirrors, failed>>
    BY <2>3 DEF ReadField
  <2>5. fields' = g.part[i][q + 1]
    BY <2>1, <2>2, <2>4 DEF GrowsBy
  <2>6. q + 1 \in 0..Len(g.pieces[i]) - g.body[i]
    BY SMTT(30), <1>5, <2>1
  <2>7. Held(g, i, g.part[i][q + 1])'
    BY <1>1, <1>6, <2>2, <2>4, <2>5 DEF Held
  <2>8. mirrors' = Seen(g, written, i + 1, 0)
    BY <2>1, <2>4 DEF Within
  <2>9. Reading'
    BY <1>1, <1>2, <1>4, <2>1, <2>4, <2>6, <2>7, <2>8, Advance
  <2>10. DOMAIN fields' = Keys
    BY <1>4, <2>4
  <2>11. QED
    BY <1>1, <1>4, <2>4, <2>9, <2>10, GoesOn
<1>8. ASSUME AtNext(g, i) PROVE ListInv'
  <2>1. /\ Before(g, i, Len(written[i].mirrors))
        /\ i > 1 /\ written[i].product = written[i - 1].product
        /\ written[i - 1].fields["Version"] # << >>
        /\ k \in {"Component", "Version"}
        /\ GrowsBy(Blank, Head(rest), g.part[i][1])
        /\ Tail(rest) = Left(g, i, g.body[i] + 1)
    BY <1>8 DEF AtNext
  <2>2. i \in 1..Len(written) + 1 /\ i - 1 > 0 /\ i > 0 /\ i # 0
    BY <1>5, <2>1
  <2>3. Held(g, i - 1, written[i - 1].fields)
    BY <2>1 DEF Before
  <2>4. /\ fields = written[i - 1].fields /\ written[i].product = product
        /\ failed = FALSE
    BY <1>1, <2>1, <2>2, <2>3 DEF Held
  <2>5. fields["Version"] # << >> /\ Begun
    BY <2>1, <2>4, KeysApart DEF Begun
  <2>6. BeginsEntry(k)
    BY <2>1, <2>5 DEF BeginsEntry, Expandable
  <2>7. Len(written[i].mirrors) \in 0..Len(written[i].mirrors)
    BY <1>5
  <2>8. CASE Missing /\ AddEntry /\ StopParsing
    BY <1>1, <1>2, <2>1, <2>5, <2>7, <2>8, StopsHere
  <2>9. CASE /\ ~Missing /\ AddEntry
             /\ fields' = [Blank EXCEPT ![k] = <<v>>]
             /\ rest' = Tail(rest)
             /\ UNCHANGED <<phase, valid_product, mirrors, failed>>
    <3>1. /\ added' = g.meant[i - 1]
          /\ \A j \in 1..Len(written) : Lacks(written, product, j) => j >= i
      BY <1>2, <1>4, <2>2, <2>3, <2>9, EntryEnds
    <3>2. fields' = g.part[i][1]
      <4>1. g.part[i][1] = [Blank EXCEPT ![k] = Append(Blank[k], v)]
        BY <2>1 DEF GrowsBy
      <4>2. Append(Blank[k], v) = <<v>>
        <5>1. Blank[k] = << >>
          BY <1>1, KeysApart
        <5>2. << >> \in Seq(Texts) /\ v \in Texts
          BY <2>1, EmptySeq DEF GrowsBy
        <5>3. Append(<< >>, v) = << >> \o <<v>> /\ << >> \o <<v>> = <<v>>
          BY <5>2, AppendIsConcat, ConcatEmptySeq
        <5>4. QED
          BY <5>1, <5>3
      <4>3. QED
        BY <2>9, <4>1, <4>2
    <3>3. Held(g, i, g.part[i][1])'
      BY <1>1, <1>6, <2>2, <2>4, <2>9, <3>1, <3>2 DEF Held
    <3>4. mirrors' = Seen(g, written, i + 1, 0)
      <4>1. mirrors = Seen(g, written, i, Len(written[i].mirrors))
        BY <2>1 DEF Before
      <4>2. QED
        BY SMTT(30), <1>2, <1>4, <2>7, <2>9, <4>1, NextMirror
    <3>5. 1 \in 0..Len(g.pieces[i]) - g.body[i]
      BY <1>5
    <3>6. Reading'
      BY <1>1, <1>2, <1>4, <2>1, <2>9, <3>3, <3>4, <3>5, Advance
    <3>7. DOMAIN fields' = Keys
      BY <2>9, KeysApart
    <3>8. QED
      BY <1>1, <1>4, <2>9, <3>6, <3>7, GoesOn
  <2>10. QED
    BY <2>6, <2>8, <2>9 DEF ReadField
<1>9. QED
  BY <1>3, <1>7, <1>8

LEMMA EndStep == ASSUME ListInv, EndOfList PROVE ListInv'
<1> DEFINE n == Len(written)
<1>1. phase = "reading" /\ rest = << >> /\ AddEntry /\ UNCHANGED done
  BY DEF EndOfList
<1>2. /\ written \in Seq(Entries) /\ {valid_product, failed} \subseteq BOOLEAN
      /\ product \in Products /\ DOMAIN fields = Keys /\ Reading
  BY <1>1 DEF ListInv
<1>3. PICK g : /\ Laid(g, written, product)
               /\ \/ \E i \in 1..n :
                       \E q \in 0..Len(g.pieces[i]) - g.body[i] - 1 : Within(g, i, q)
                  \/ \E i \in 1..n :
                       \E m \in 0..Len(written[i].mirrors) : Before(g, i, m)
                  \/ Before(g, n + 1, 0)
  BY <1>2 DEF Reading
<1>4. n \in Nat
  BY <1>2, LenProperties
<1>5. ASSUME NEW i \in 1..n, NEW q \in 0..Len(g.pieces[i]) - g.body[i] - 1
      PROVE  ~Within(g, i, q)
  <2>1. /\ g.body[i] \in Nat /\ Len(g.pieces[i]) \in Nat
        /\ g.body[i] < Len(g.pieces[i])
    BY <1>2, <1>3, EntryHere
  <2>2. g.body[i] + q \in Nat /\ g.body[i] + q < Len(g.pieces[i])
    BY <2>1
  <2>3. NextIs(g, i, g.body[i] + q)
    BY <1>2, <1>3, <2>2, NextLine
  <2>4. QED
    BY <1>1, <2>3 DEF NextIs, Within
<1>6. ASSUME NEW i \in 1..n, NEW m \in 0..Len(written[i].mirrors)
      PROVE  ~Before(g, i, m)
  <2>1. /\ EntryIn(written, g.pieces[i], g.body[i], g.part[i], i)
        /\ g.body[i] \in Nat /\ Len(g.pieces[i]) \in Nat
        /\ g.body[i] < Len(g.pieces[i]) /\ Len(written[i].mirrors) \in Nat
    BY <1>2, <1>3, EntryHere
  <2>2. g.body[i] \in {Len(written[i].mirrors), Len(written[i].mirrors) + 1}
    BY <2>1 DEF EntryIn
  <2>3. m \in Nat /\ m < Len(g.pieces[i])
    BY <2>1, <2>2
  <2>4. NextIs(g, i, m)
    BY <1>2, <1>3, <2>3, NextLine
  <2>5. QED
    BY <1>1, <2>4 DEF NextIs, Before
<1>7. Before(g, n + 1, 0)
  BY <1>3, <1>5, <1>6
<1>8. CASE Begun /\ Missing /\ StopParsing
  BY <1>1, <1>3, <1>7, <1>8, StopsHere
<1>9. CASE /\ ~(Begun /\ Missing)
           /\ phase' = "read"
           /\ fields' = Blank
           /\ UNCHANGED <<rest, valid_product, mirrors, failed>>
  <2>1. (n + 1) - 1 = n /\ n + 1 \in 1..n + 1
    BY <1>4
  <2>2. Held(g, (n + 1) - 1, written[(n + 1) - 1].fields)
    BY <1>7 DEF Before
  <2>3. /\ added' = g.meant[(n + 1) - 1]
        /\ \A j \in 1..n : Lacks(written, product, j) => j >= n + 1
    BY <1>1, <1>2, <1>3, <1>9, <2>1, <2>2, EntryEnds
  <2>4. \A j \in 1..n : ~Lacks(written, product, j)
    BY <1>4, <2>3
  <2>5. written' = written /\ product' = product
    BY <1>1 DEF done
  <2>6. failed' = FALSE /\ added' = g.meant[n]
    BY <1>9, <2>1, <2>2, <2>3 DEF Held
  <2>7. IsMeant(g.meant, written, product, n)
    BY <1>3 DEF Laid
  <2>8. Parsed'
    <3>1. /\ IsMeant(g.meant, written', product', Len(written'))
          /\ failed' = FALSE /\ added' = g.meant[Len(written')]
          /\ \A j \in 1..Len(written') : ~Lacks(written', product', j)
      BY <2>4, <2>5, <2>6, <2>7
    <3>2. QED
      BY <3>1 DEF Parsed
  <2>9. mirrors = MirrorsOf(written)
    BY SMTT(30), <1>2, <1>3, <1>7, FirstAndLast DEF Before
  <2>10. MirrorsRead(mirrors)'
    <3> DEFINE A == MirrorsOf(written)
    <3>1. A \in Seq(Texts)
      BY <1>3 DEF Laid, Marked
    <3>2. A = MirrorsOf(written') /\ mirrors' = A
      BY <1>9, <2>5, <2>9
    <3> HIDE DEF A
    <3>3. Len(A) \in 0..Len(A) /\ SubSeq(A, 1, Len(A)) = A
      BY <3>1, LenProperties, ReadSoFar
    <3>4. QED
      BY <3>2, <3>3 DEF MirrorsRead
  <2>11. QED
    BY <1>2, <1>9, <2>5, <2>6, <2>8, <2>10, KeysApart DEF ListInv
<1>10. QED
  BY <1>8, <1>9 DEF EndOfList

LEMMA OpenStep == ASSUME ListInv, Open PROVE ListInv'
<1>1. /\ phase = "idle" /\ phase' = "reading" /\ fields = Blank
      /\ added = << >> /\ mirrors = << >> /\ ~valid_product /\ ~failed
      /\ UNCHANGED <<valid_product, fields, added, mirrors, failed>>
      /\ {valid_product, failed} \subseteq BOOLEAN /\ DOMAIN fields = Keys
  BY DEF Open, ListInv
<1>2. PICK p \in Products, es \in UNION { [1..n -> Entries] : n \in 0..MaxEntries },
           order \in Orders, separate \in BOOLEAN :
        /\ Writable(es, order, separate)
        /\ product' = p /\ written' = es
        /\ rest' = Text(es, order, separate)
  BY DEF Open
<1>3. es \in Seq(Entries)
  <2>1. PICK n \in 0..MaxEntries : es \in [1..n -> Entries]
    BY <1>2
  <2>2. n \in Nat
    BY ListAssumption
  <2>3. QED
    BY <2>1, <2>2
<1> DEFINE t == Text(es, order, separate)
<1>4. PICK pieces, start, body, part : Layout(es, t, pieces, start, body, part)
  BY <1>2, <1>3, LayoutExists
<1>5. PICK marks : Marked(es, marks)
  BY <1>3, MarksExist
<1>6. Len(es) \in Nat
  BY <1>3, LenProperties
<1>7. PICK meant : IsMeant(meant, es, p, Len(es))
  BY <1>6, MeantExists
<1> DEFINE g == [text |-> t, pieces |-> pieces, start |-> start, body |-> body,
                 part |-> part, marks |-> marks, meant |-> meant]
<1>8. /\ g.text = t /\ g.pieces = pieces /\ g.start = start /\ g.body = body
      /\ g.part = part /\ g.marks = marks /\ g.meant = meant
  OBVIOUS
<1> HIDE DEF g, t
<1>9. Laid(g, es, p)
  BY <1>4, <1>5, <1>7, <1>8 DEF Laid
<1>10. Before(g, 1, 0)'
  <2>1. rest' = Left(g, 1, 0) /\ mirrors' = Seen(g, written', 1, 0)
    BY <1>1, <1>2, <1>3, <1>8, <1>9, FirstAndLast DEF t
  <2>2. 1 - 1 = 0
    OBVIOUS
  <2>3. Held(g, 1 - 1, written[1 - 1].fields)'
    BY <1>1, <1>2, <1>6, <2>2 DEF Held
  <2>4. QED
    BY <2>1, <2>3 DEF Before
<1>11. Reading'
  <2>1. Laid(g, written', product')
    BY <1>2, <1>9
  <2>2. CASE Len(es) = 0
    <3>1. Len(written') + 1 = 1
      BY <1>2, <2>2
    <3>2. QED
      BY <1>10, <2>1, <3>1 DEF Reading
  <2>3. CASE Len(es) # 0
    <3>1. 1 \in 1..Len(es)
      BY <1>6, <2>3
    <3>2. 0 \in 0..Len(es[1].mirrors)
      BY <1>3, <1>9, <3>1, EntryHere
    <3>3. QED
      BY <1>2, <1>10, <2>1, <3>1, <3>2 DEF Reading
  <2>4. QED
    BY <2>2, <2>3
<1>12. QED
  BY <1>1, <1>2, <1>3, <1>11 DEF ListInv

LEMMA UrlStep == ASSUME ListInv, AddProductUrl PROVE ListInv'
<1>1. /\ phase = "read" /\ phase' = "done"
      /\ mirrors' = IF product \in OnDisk \/ mirrors = << >>
                    THEN Append(mirrors, product) ELSE mirrors
      /\ UNCHANGED <<done, valid_product, fields, added, failed>>
  BY DEF AddProductUrl
<1>2. Parsed /\ MirrorsRead(mirrors)
  BY <1>1 DEF ListInv
<1>3. written' = written /\ product' = product
  BY <1>1 DEF done
<1>4. Parsed'
  BY <1>1, <1>2, <1>3 DEF Parsed
<1>5. MirrorsDone'
  <2> DEFINE ms == mirrors
  <2>2. PICK x \in 0..Len(MirrorsOf(written)) :
          /\ ms = SubSeq(MirrorsOf(written), 1, x)
          /\ ~failed => x = Len(MirrorsOf(written))
    BY <1>2 DEF MirrorsRead
  <2>3. \E y \in 0..Len(MirrorsOf(written')) :
          /\ ms = SubSeq(MirrorsOf(written'), 1, y)
          /\ ~failed' => y = Len(MirrorsOf(written'))
    BY <1>1, <1>3, <2>2
  <2>4. mirrors' = IF product' \in OnDisk \/ ms = << >> THEN Append(ms, product') ELSE ms
    BY <1>1, <1>3
  <2> HIDE DEF ms
  <2>5. \E z : /\ \E y \in 0..Len(MirrorsOf(written')) :
                    /\ z = SubSeq(MirrorsOf(written'), 1, y)
                    /\ ~failed' => y = Len(MirrorsOf(written'))
               /\ mirrors' = IF product' \in OnDisk \/ z = << >>
                             THEN Append(z, product') ELSE z
    BY <2>3, <2>4
  <2>6. QED
    BY <2>5 DEF MirrorsDone, MirrorsRead
<1>6. QED
  BY <1>1, <1>3, <1>4, <1>5 DEF ListInv

LEMMA ReturnStep == ASSUME ListInv, Return PROVE ListInv'
<1>1. /\ phase = "done" /\ phase' = "idle" /\ valid_product' = FALSE /\ added' = << >>
      /\ mirrors' = << >> /\ failed' = FALSE /\ written' = << >>
      /\ UNCHANGED <<product, rest, fields>>
  BY DEF Return
<1>2. << >> \in Seq(Entries)
  BY EmptySeq
<1>3. /\ product \in Products /\ DOMAIN fields = Keys /\ fields = Blank
  BY <1>1 DEF ListInv
<1>4. QED
  BY <1>1, <1>2, <1>3 DEF ListInv

LEMMA ListInductive == ListInv /\ [Next]_vars => ListInv'
<1> SUFFICES ASSUME ListInv, [Next]_vars
             PROVE  ListInv'
  OBVIOUS
<1>1. CASE Return
  BY <1>1, ReturnStep
<1>2. CASE Open
  BY <1>2, OpenStep
<1>3. CASE ReadMirror
  BY <1>3, MirrorStep
<1>4. CASE ReadProduct
  BY <1>4, ProductStep
<1>5. CASE SkipField
  BY <1>5, SkipStep
<1>6. CASE ReadField
  BY <1>6, FieldStep
<1>7. CASE EndOfList
  BY <1>7, EndStep
<1>8. CASE AddProductUrl
  BY <1>8, UrlStep
<1>9. CASE UNCHANGED vars
  <2>1. /\ phase' = phase /\ product' = product /\ rest' = rest
        /\ valid_product' = valid_product /\ fields' = fields /\ added' = added
        /\ mirrors' = mirrors /\ failed' = failed /\ written' = written
    BY <1>9 DEF vars
  <2>2. Reading => Reading'
    <3>1. \A g, i, f : Held(g, i, f) => Held(g, i, f)'
      BY <2>1 DEF Held
    <3>2. \A g, i, q : Within(g, i, q) => Within(g, i, q)'
      BY <2>1, <3>1 DEF Within
    <3>3. \A g, i, m : Before(g, i, m) => Before(g, i, m)'
      BY <2>1, <3>1 DEF Before
    <3>4. QED
      BY <2>1, <3>2, <3>3 DEF Reading
  <2>3. Parsed => Parsed'
    BY <2>1 DEF Parsed
  <2>4. MirrorsRead(mirrors) => MirrorsRead(mirrors)'
    BY <2>1 DEF MirrorsRead
  <2>5. MirrorsDone => MirrorsDone'
    BY <2>1 DEF MirrorsDone, MirrorsRead
  <2>6. QED
    BY <2>1, <2>2, <2>3, <2>4, <2>5 DEF ListInv
<1> QED
  BY <1>1, <1>2, <1>3, <1>4, <1>5, <1>6, <1>7, <1>8, <1>9 DEF Next

LEMMA ListInitial == Init => ListInv
<1>1. << >> \in Seq(Entries)
  BY EmptySeq
<1>2. QED
  BY <1>1, KeysApart DEF Init, ListInv

LEMMA ListInvariant == Spec => []ListInv
<1>1. ListInv /\ [Next]_vars => ListInv'
  BY ListInductive
<1>2. QED
  BY <1>1, ListInitial, PTL DEF Spec

-----------------------------------------------------------------------------
(* What was meant consists of entries of the list.                         *)
FromEntries(s, es, n) == \A i \in DOMAIN s : \E j \in 1..n : s[i] = es[j].fields

LEMMA MeantWritten ==
  ASSUME NEW es, NEW p, NEW n \in Nat, NEW meant, IsMeant(meant, es, p, n)
  PROVE  \A k \in 0..n : FromEntries(meant[k], es, n)
<1> DEFINE S == { es[j].fields : j \in 1..n }
           T == { k \in Nat : k \in 0..n /\ meant[k] \notin Seq(S) }
<1>0. \A j \in 1..n : es[j].fields \in S
  OBVIOUS
<1> HIDE DEF S
<1>1. 0 \notin T
  BY EmptySeq DEF IsMeant
<1>2. ASSUME NEW k \in Nat, k \notin T, k + 1 \in T PROVE FALSE
  <2>1. k + 1 \in 1..n /\ (k + 1) - 1 = k /\ meant[k] \in Seq(S)
    BY <1>2
  <2>2. meant[k + 1] \in {Append(meant[k], es[k + 1].fields), meant[k]}
    <3>1. meant[k + 1] = IF WrittenFor(es[k + 1], p)
                         THEN Append(meant[(k + 1) - 1], es[k + 1].fields)
                         ELSE meant[(k + 1) - 1]
      BY <2>1 DEF IsMeant
    <3>2. QED
      BY <2>1, <3>1
  <2>3. Append(meant[k], es[k + 1].fields) \in Seq(S)
    BY <1>0, <2>1, AppendProperties
  <2>4. QED
    BY <1>2, <2>1, <2>2, <2>3
<1>3. T = {}
  <2> HIDE DEF T
  <2> QED BY <1>1, <1>2, NoLeast DEF T
<1>4. ASSUME NEW k \in 0..n PROVE meant[k] \in Seq(S)
  BY <1>3
<1>5. ASSUME NEW k \in 0..n, NEW i \in DOMAIN meant[k]
      PROVE  \E j \in 1..n : meant[k][i] = es[j].fields
  <2>1. i \in 1..Len(meant[k])
    BY <1>4, LenProperties
  <2>2. meant[k][i] \in S
    BY <1>4, <2>1, ElementOfSeq
  <2>3. QED
    BY <2>2 DEF S
<1>6. QED
  BY <1>5 DEF FromEntries

LEMMA TypesFollow == ListInv => ListTypeOK
<1> SUFFICES ASSUME ListInv PROVE ListTypeOK
  OBVIOUS
<1>1. /\ phase \in {"idle", "reading", "read", "done"} /\ product \in Products
      /\ DOMAIN fields = Keys /\ {valid_product, failed} \subseteq BOOLEAN
      /\ written \in Seq(Entries)
  BY DEF ListInv
<1>2. Len(written) \in Nat /\ DOMAIN written = 1..Len(written)
  BY <1>1, LenProperties
<1>3. ASSUME NEW meant, IsMeant(meant, written, product, Len(written)),
             NEW k \in 0..Len(written), added = meant[k]
      PROVE  \A i \in DOMAIN added : \E j \in DOMAIN written : added[i] = written[j].fields
  <2>1. FromEntries(meant[k], written, Len(written))
    BY <1>2, <1>3, MeantWritten
  <2>2. QED
    BY <1>2, <1>3, <2>1 DEF FromEntries
<1>4. added = << >> =>
        \A i \in DOMAIN added : \E j \in DOMAIN written : added[i] = written[j].fields
  OBVIOUS
<1>5. CASE phase = "idle"
  BY <1>1, <1>4, <1>5 DEF ListInv, ListTypeOK
<1>6. CASE phase = "reading"
  <2>1. PICK g : /\ Laid(g, written, product)
                 /\ \/ \E i \in 1..Len(written) :
                         \E q \in 0..Len(g.pieces[i]) - g.body[i] - 1 : Within(g, i, q)
                    \/ \E i \in 1..Len(written) :
                         \E m \in 0..Len(written[i].mirrors) : Before(g, i, m)
                    \/ Before(g, Len(written) + 1, 0)
    BY <1>6 DEF ListInv, Reading
  <2>2. \E i \in 0..Len(written) : added = IF i = 0 THEN << >> ELSE g.meant[i - 1]
    <3>1. CASE \E i \in 1..Len(written) :
                 \E q \in 0..Len(g.pieces[i]) - g.body[i] - 1 : Within(g, i, q)
      <4>1. PICK i \in 1..Len(written) : \E q : Within(g, i, q)
        BY <3>1
      <4>2. i \in 0..Len(written) /\ added = IF i = 0 THEN << >> ELSE g.meant[i - 1]
        BY <4>1 DEF Within, Held
      <4>3. QED
        BY <4>2
    <3>2. CASE \E i \in 1..Len(written) + 1 : \E m : Before(g, i, m)
      <4>1. PICK i \in 1..Len(written) + 1 : \E m : Before(g, i, m)
        BY <3>2
      <4> DEFINE c == i - 1
      <4>2. c \in 0..Len(written) /\ added = IF c = 0 THEN << >> ELSE g.meant[c - 1]
        BY <1>2, <4>1 DEF Before, Held
      <4> HIDE DEF c
      <4>3. QED
        BY <4>2
    <3>3. Len(written) + 1 \in 1..Len(written) + 1
          /\ \A i \in 1..Len(written) : i \in 1..Len(written) + 1
      BY <1>2
    <3>4. QED
      BY <2>1, <3>1, <3>2, <3>3
  <2>3. PICK i \in 0..Len(written) : added = IF i = 0 THEN << >> ELSE g.meant[i - 1]
    BY <2>2
  <2>4. IsMeant(g.meant, written, product, Len(written))
    BY <2>1 DEF Laid
  <2>5. i # 0 => i - 1 \in 0..Len(written) /\ added = g.meant[i - 1]
    BY <1>2, <2>3
  <2>6. i = 0 => added = << >>
    BY <2>3
  <2>7. \A k \in DOMAIN added : \E j \in DOMAIN written : added[k] = written[j].fields
    BY <1>3, <1>4, <2>4, <2>5, <2>6
  <2>8. QED
    BY <1>1, <2>7 DEF ListTypeOK
<1>7. CASE phase \in {"read", "done"}
  <2>1. PICK meant :
          /\ IsMeant(meant, written, product, Len(written))
          /\ \/ added = meant[Len(written)]
             \/ \E i \in 1..Len(written) : added = meant[i - 1]
    BY <1>7 DEF ListInv, Parsed
  <2>2. \E k \in 0..Len(written) : added = meant[k]
    <3>1. CASE added = meant[Len(written)]
      BY <1>2, <3>1
    <3>2. CASE \E i \in 1..Len(written) : added = meant[i - 1]
      <4>1. PICK i \in 1..Len(written) : added = meant[i - 1]
        BY <3>2
      <4>2. i - 1 \in 0..Len(written)
        BY <1>2
      <4>3. QED
        BY <4>1, <4>2
    <3>3. QED
      BY <2>1, <3>1, <3>2
  <2>3. \A k \in DOMAIN added : \E j \in DOMAIN written : added[k] = written[j].fields
    BY <1>3, <2>1, <2>2
  <2>4. QED
    BY <1>1, <2>3 DEF ListTypeOK
<1>8. QED
  BY <1>1, <1>5, <1>6, <1>7

LEMMA EntriesFollow == ListInv => EntriesAsWritten
<1> SUFFICES ASSUME ListInv, phase = "done"
             PROVE  /\ Lacking = {} => ~failed /\ added = Meant[Len(written)]
                    /\ \A i \in Lacking :
                         (\A j \in Lacking : i <= j) => failed /\ added = Meant[i - 1]
  BY DEF EntriesAsWritten
<1> DEFINE n == Len(written)
<1>1. written \in Seq(Entries) /\ Parsed
  BY DEF ListInv
<1>2. n \in Nat /\ DOMAIN written = 1..n
  BY <1>1, LenProperties
<1>3. PICK meant :
        /\ IsMeant(meant, written, product, n)
        /\ \/ /\ failed = FALSE /\ added = meant[n]
              /\ \A j \in 1..n : ~Lacks(written, product, j)
           \/ \E i \in 1..n :
                /\ failed = TRUE /\ added = meant[i - 1]
                /\ Lacks(written, product, i)
                /\ \A j \in 1..n : Lacks(written, product, j) => j >= i
  BY <1>1 DEF Parsed
<1>4. \A k \in 0..n : meant[k] = Meant[k]
  BY <1>2, <1>3, MeantIs
<1>5. \A j : j \in Lacking <=> j \in 1..n /\ Lacks(written, product, j)
  BY <1>2 DEF Lacking, Lacks
<1>6. CASE /\ failed = FALSE /\ added = meant[n]
           /\ \A j \in 1..n : ~Lacks(written, product, j)
  <2>1. Lacking = {}
    BY <1>5, <1>6
  <2>2. n \in 0..n
    BY <1>2
  <2>3. added = Meant[n]
    BY <1>4, <1>6, <2>2
  <2>4. QED
    BY <1>6, <2>1, <2>3
<1>7. CASE \E i \in 1..n :
             /\ failed = TRUE /\ added = meant[i - 1]
             /\ Lacks(written, product, i)
             /\ \A j \in 1..n : Lacks(written, product, j) => j >= i
  <2>1. PICK i \in 1..n :
          /\ failed = TRUE /\ added = meant[i - 1]
          /\ Lacks(written, product, i)
          /\ \A j \in 1..n : Lacks(written, product, j) => j >= i
    BY <1>7
  <2>2. i \in Lacking /\ \A j \in Lacking : j >= i /\ j \in 1..n
    BY <1>5, <2>1
  <2>3. i - 1 \in 0..n
    BY <1>2
  <2>4. added = Meant[i - 1]
    BY <1>4, <2>1, <2>3
  <2>5. \A k \in Lacking : (\A j \in Lacking : k <= j) => k = i
    BY <1>2, <2>2
  <2>6. QED
    BY <2>1, <2>2, <2>4, <2>5
<1>8. QED
  BY <1>3, <1>6, <1>7

LEMMA MirrorsFollow == ListInv => MirrorsAsWritten
<1> DEFINE all == FlattenSeq([i \in 1..Len(written) |-> written[i].mirrors])
           urls == IF all = << >> \/ product \in OnDisk THEN Append(all, product) ELSE all
<1> SUFFICES ASSUME ListInv, phase = "done"
             PROVE  /\ mirrors # << >>
                    /\ ~failed => mirrors = urls
                    /\ failed => \A i \in DOMAIN mirrors :
                                   mirrors[i] \in ToSet(all) \union {product}
  BY DEF MirrorsAsWritten
<1>1. written \in Seq(Entries) /\ MirrorsDone /\ product \in Products
  BY DEF ListInv
<1>2. all = MirrorsOf(written)
  BY DEF MirrorsOf
<1>3. all \in Seq(Texts)
  <2>1. PICK marks : Marked(written, marks)
    BY <1>1, MarksExist
  <2>2. QED
    BY <1>2, <2>1 DEF Marked
<1> HIDE DEF all
<1>4. PICK ms : /\ MirrorsRead(ms)
                /\ mirrors = IF product \in OnDisk \/ ms = << >>
                             THEN Append(ms, product) ELSE ms
  BY <1>1 DEF MirrorsDone
<1>5. PICK x \in 0..Len(all) : ms = SubSeq(all, 1, x) /\ (~failed => x = Len(all))
  BY <1>2, <1>4 DEF MirrorsRead
<1>6. /\ Len(all) \in Nat /\ DOMAIN all = 1..Len(all)
      /\ \A i \in 1..Len(all) : all[i] \in ToSet(all)
  <2>1. Len(all) \in Nat /\ DOMAIN all = 1..Len(all)
    BY <1>3, LenProperties
  <2>2. QED
    BY <2>1 DEF ToSet
<1>7. ms \in Seq(ToSet(all))
  <2>1. 1 \in Int /\ x \in Int /\ \A i \in 1..x : all[i] \in ToSet(all)
    BY <1>6
  <2>2. SubSeq(all, 1, x) \in Seq(ToSet(all))
    BY <2>1, SubSeqProperties
  <2>3. QED
    BY <1>5, <2>2
<1> DEFINE S == ToSet(all) \union {product}
<1>8. product \in S /\ ms \in Seq(S)
  <2>1. ToSet(all) \subseteq S
    OBVIOUS
  <2> HIDE DEF S
  <2>2. ms \in Seq(S)
    BY <1>7, <2>1, SeqMonotonic
  <2>3. QED
    BY <2>2 DEF S
<1> HIDE DEF S
<1>9. Append(ms, product) \in Seq(S) /\ Append(ms, product) # << >>
  BY <1>8, AppendProperties
<1>10. mirrors \in Seq(S) /\ mirrors # << >>
  BY <1>4, <1>8, <1>9
<1>11. \A i \in DOMAIN mirrors : mirrors[i] \in S
  <2>1. \A i \in 1..Len(mirrors) : mirrors[i] \in S
    BY <1>10, ElementOfSeq
  <2>2. QED
    BY <1>10, <2>1, LenProperties
<1>12. ~failed => mirrors = urls
  <2> SUFFICES ASSUME ~failed PROVE mirrors = urls
    OBVIOUS
  <2>1. ms = all
    BY <1>3, <1>5, ReadSoFar
  <2>2. QED
    BY <1>4, <2>1
<1>13. QED
  BY <1>10, <1>11, <1>12 DEF S

-----------------------------------------------------------------------------
(* For any products, entries and orders of their fields, and lists of any  *)
(* length: whatever is added is an entry of the list, whole.               *)
THEOREM ListTypeCorrect == Spec => []ListTypeOK
BY ListInvariant, TypesFollow, PTL

(* For the same: load_patchset() adds what was written for the product and *)
(* the machine, in its order, as far as the first entry that lacks a       *)
(* field, and reports an error exactly when there is one: with a Product   *)
(* line for every entry, or one for several, told apart by their versions  *)
(* (load_patchset.c:53-60, 110-127, 142-207).                              *)
THEOREM EntriesAreAsWritten == Spec => []EntriesAsWritten
BY ListInvariant, EntriesFollow, PTL

(* For the same: every mirror of the list becomes one, in order, whichever *)
(* product it stands under, as far as the list was read, and there is one  *)
(* to download from (load_patchset.c:145-148, 209-213).                    *)
THEOREM MirrorsAreAsWritten == Spec => []MirrorsAsWritten
BY ListInvariant, MirrorsFollow, PTL

(* For the same: between two lists the static variables of load_patchset.c *)
(* are all NULL, an error in the first one included.                       *)
THEOREM ListsLeakNothing == Spec => []NothingLeaks
<1>1. ListInv => NothingLeaks
  BY DEF ListInv, NothingLeaks
<1>2. QED
  BY <1>1, ListInvariant, PTL
=============================================================================
