-------------------------- MODULE PatchSetProofs --------------------------
(***************************************************************************)
(* The patches of a product, for any entries, in any order and number: the *)
(* trees are in order, what is offered is what can be reached, paths are   *)
(* the shortest, and what is selected can be installed.                    *)
(***************************************************************************)
EXTENDS PatchSet, FiniteSetTheorems, SequenceTheorems, WellFoundedInduction, TLAPS

-----------------------------------------------------------------------------
(***************************************************************************)
(* Induction over data.  A set of numbers has a least element, so that     *)
(* what holds for n whenever it holds for n - 1 fails for no n.            *)
(***************************************************************************)
LEMMA LessIsWellFounded ==
  IsWellFoundedOn({ p \in Nat \X Nat : p[1] < p[2] }, Nat)
BY NatLessThanWellFounded DEF OpToRel

(* A set of numbers has a least one.                                       *)
LEMMA Least ==
  ASSUME NEW T, T \subseteq Nat, T # {}
  PROVE  \E n \in T : \A m \in T : n <= m
<1> DEFINE R == { p \in Nat \X Nat : p[1] < p[2] }
<1>1. IsWellFoundedOn(R, Nat)
  BY LessIsWellFounded
<1>2. \A x, y \in Nat : y < x => <<y, x>> \in R
  OBVIOUS
<1> HIDE DEF R
<1>3. PICK x \in T : \A y \in T : <<y, x>> \notin R
  BY <1>1, WFMin
<1>4. \A y \in T : ~(y < x)
  BY <1>2, <1>3
<1>5. QED
  BY <1>4

(* The least element, for the inductions below: T is where they fail.      *)
LEMMA NoLeast ==
  ASSUME NEW T, T \subseteq Nat, 0 \notin T,
         \A n \in Nat : n \notin T => n + 1 \notin T
  PROVE  T = {}
<1> SUFFICES ASSUME T # {} PROVE FALSE
  OBVIOUS
<1>1. PICK n \in T : \A m \in T : n <= m
  BY Least
<1>2. n - 1 \in Nat /\ n - 1 \notin T
  BY <1>1
<1>3. QED
  BY <1>1, <1>2

(* A step can be taken n times.                                            *)
Iterated(f, n, b, step) ==
  f[0] = b /\ \A i \in 1..n : f[i] = step[<<i, f[i - 1]>>]

(* A function that is defined step by step is there.                       *)
LEMMA Iterates ==
  ASSUME NEW n \in Nat, NEW X, NEW b \in X, NEW step,
         \A i \in 1..n : \A x \in X : step[<<i, x>>] \in X
  PROVE  \E f \in [0..n -> X] : Iterated(f, n, b, step)
<1> DEFINE T == { m \in Nat : m <= n /\ ~ \E f \in [0..m -> X] : Iterated(f, m, b, step) }
<1>1. 0 \notin T
  <2> DEFINE f == [i \in 0..0 |-> b]
  <2>1. f \in [0..0 -> X] /\ Iterated(f, 0, b, step)
    BY DEF Iterated
  <2>2. QED
    BY <2>1
<1>2. ASSUME NEW m \in Nat, m \notin T PROVE m + 1 \notin T
  <2>1. CASE m + 1 <= n
    <3>1. PICK g \in [0..m -> X] : Iterated(g, m, b, step)
      BY <1>2, <2>1
    <3> DEFINE new == step[<<m + 1, g[m]>>]
               f == [i \in 0..m + 1 |-> IF i = m + 1 THEN new ELSE g[i]]
    <3>2. new \in X
      <4>1. m + 1 \in 1..n /\ g[m] \in X
        BY <2>1
      <4>2. QED
        BY <4>1
    <3>3. \A i \in 0..m : f[i] = g[i]
      OBVIOUS
    <3>4. f[m + 1] = new
      OBVIOUS
    <3>5. f \in [0..m + 1 -> X]
      <4> HIDE DEF new
      <4> QED BY <3>2
    <3> HIDE DEF f
    <3>6. ASSUME NEW i \in 1..m + 1 PROVE f[i] = step[<<i, f[i - 1]>>]
      <4>1. CASE i = m + 1
        <5>1. i - 1 = m /\ f[i - 1] = g[m]
          BY <3>3, <4>1
        <5>2. QED
          BY <3>4, <4>1, <5>1
      <4>2. CASE i # m + 1
        <5>1. i \in 1..m /\ i \in 0..m /\ i - 1 \in 0..m
          BY <4>2
        <5>2. QED
          BY <3>1, <3>3, <5>1 DEF Iterated
      <4>3. QED
        BY <4>1, <4>2
    <3>7. f[0] = b
      BY <3>1, <3>3 DEF Iterated
    <3>8. Iterated(f, m + 1, b, step)
      BY <3>6, <3>7 DEF Iterated
    <3>9. QED
      BY <3>5, <3>8
  <2>2. QED
    BY <2>1
<1>3. T = {}
  <2> HIDE DEF T
  <2> QED BY <1>1, <1>2, NoLeast DEF T
<1>4. QED
  BY <1>3

-----------------------------------------------------------------------------
(***************************************************************************)
(* Only: what is left of a sequence.                                       *)
(***************************************************************************)
Keeps(kept, s, S) ==
  /\ kept[0] = << >>
  /\ \A i \in 1..Len(s) :
       kept[i] = IF s[i] \in S THEN Append(kept[i - 1], s[i]) ELSE kept[i - 1]

(* The function that Only is the last value of.                            *)
LEMMA OnlyIs ==
  ASSUME NEW T, NEW s \in Seq(T), NEW S
  PROVE  \E kept \in [0..Len(s) -> Seq(T)] :
           Keeps(kept, s, S) /\ Only(s, S) = kept[Len(s)]
<1> DEFINE n == Len(s)
           step == [q \in (1..n) \X Seq(T) |->
                      IF s[q[1]] \in S THEN Append(q[2], s[q[1]]) ELSE q[2]]
           R(f) == f = [i \in 0..n |->
                          IF i = 0 THEN << >>
                          ELSE IF s[i] \in S THEN Append(f[i - 1], s[i]) ELSE f[i - 1]]
<1>1. n \in Nat /\ << >> \in Seq(T) /\ \A i \in 1..n : s[i] \in T
  OBVIOUS
<1>2. ASSUME NEW i \in 1..n, NEW x \in Seq(T)
      PROVE  /\ step[<<i, x>>] = IF s[i] \in S THEN Append(x, s[i]) ELSE x
             /\ step[<<i, x>>] \in Seq(T)
  <2>1. step[<<i, x>>] = IF s[i] \in S THEN Append(x, s[i]) ELSE x
    OBVIOUS
  <2>2. Append(x, s[i]) \in Seq(T)
    BY <1>1
  <2>3. QED
    BY <2>1, <2>2
<1> HIDE DEF step
<1>3. PICK f \in [0..n -> Seq(T)] : Iterated(f, n, << >>, step)
  <2> HIDE DEF n
  <2> QED BY <1>1, <1>2, Iterates
<1>4. \A i \in 1..n : f[i] = IF s[i] \in S THEN Append(f[i - 1], s[i]) ELSE f[i - 1]
  <2> SUFFICES ASSUME NEW i \in 1..n
               PROVE  f[i] = IF s[i] \in S THEN Append(f[i - 1], s[i]) ELSE f[i - 1]
    OBVIOUS
  <2>1. i - 1 \in 0..n
    BY <1>1
  <2>2. f[i - 1] \in Seq(T)
    BY <2>1
  <2>3. QED
    BY <1>2, <1>3, <2>2 DEF Iterated
<1>5. R(f)
  <2>1. f[0] = << >>
    BY <1>3 DEF Iterated
  <2>2. \A i \in 0..n :
          f[i] = IF i = 0 THEN << >>
                 ELSE IF s[i] \in S THEN Append(f[i - 1], s[i]) ELSE f[i - 1]
    <3> SUFFICES ASSUME NEW i \in 0..n
                 PROVE  f[i] = IF i = 0 THEN << >>
                               ELSE IF s[i] \in S THEN Append(f[i - 1], s[i]) ELSE f[i - 1]
      OBVIOUS
    <3>1. CASE i = 0
      BY <2>1, <3>1
    <3>2. CASE i # 0
      <4>1. i \in 1..n
        BY <1>1, <3>2
      <4>2. QED
        BY <1>4, <3>2, <4>1
    <3>3. QED
      BY <3>1, <3>2
  <2>3. f = [i \in 0..n |-> f[i]]
    OBVIOUS
  <2>4. QED
    BY <2>2, <2>3
<1> DEFINE kept == CHOOSE g : R(g)
<1>6. R(kept)
  <2> HIDE DEF R
  <2> QED BY <1>5
<1>7. Only(s, S) = kept[n]
  BY DEF Only
<1>8. \A g : R(g) => /\ DOMAIN g = 0..n /\ g[0] = << >>
                     /\ \A i \in 1..n : g[i] = IF s[i] \in S THEN Append(g[i - 1], s[i]) ELSE g[i - 1]
  <2> SUFFICES ASSUME NEW g, R(g)
               PROVE  /\ DOMAIN g = 0..n /\ g[0] = << >>
                      /\ \A i \in 1..n : g[i] = IF s[i] \in S THEN Append(g[i - 1], s[i]) ELSE g[i - 1]
    OBVIOUS
  <2>1. g = [i \in 0..n |->
              IF i = 0 THEN << >>
              ELSE IF s[i] \in S THEN Append(g[i - 1], s[i]) ELSE g[i - 1]]
    OBVIOUS
  <2>2. DOMAIN g = 0..n
    BY <2>1
  <2>3. \A i \in 0..n : g[i] = IF i = 0 THEN << >>
              ELSE IF s[i] \in S THEN Append(g[i - 1], s[i]) ELSE g[i - 1]
    BY <2>1
  <2>4. 0 \in 0..n /\ \A i \in 1..n : i \in 0..n /\ i # 0
    BY <1>1
  <2>5. g[0] = << >>
    BY <2>3, <2>4
  <2>6. \A i \in 1..n : g[i] = IF s[i] \in S THEN Append(g[i - 1], s[i]) ELSE g[i - 1]
    BY <2>3, <2>4
  <2>7. QED
    BY <2>2, <2>5, <2>6
<1> HIDE DEF R, kept
<1>9. /\ DOMAIN kept = 0..n /\ kept[0] = << >>
      /\ \A i \in 1..n : kept[i] = IF s[i] \in S THEN Append(kept[i - 1], s[i]) ELSE kept[i - 1]
  BY <1>6, <1>8
<1>10. kept \in [0..n -> Seq(T)]
  <2> DEFINE W == { m \in Nat : m <= n /\ kept[m] \notin Seq(T) }
  <2>1. 0 \notin W
    BY <1>1, <1>9
  <2>2. ASSUME NEW m \in Nat, m \notin W PROVE m + 1 \notin W
    <3>1. CASE m + 1 <= n
      <4>1. m + 1 \in 1..n /\ (m + 1) - 1 = m /\ kept[m] \in Seq(T)
        BY <1>1, <2>2, <3>1
      <4>2. kept[m + 1] = IF s[m + 1] \in S THEN Append(kept[m], s[m + 1]) ELSE kept[m]
        BY <1>9, <4>1
      <4>3. Append(kept[m], s[m + 1]) \in Seq(T)
        BY <1>1, <4>1
      <4>4. QED
        BY <4>1, <4>2, <4>3
    <3>2. QED
      BY <3>1
  <2>3. W = {}
    <3> HIDE DEF W
    <3> QED BY <2>1, <2>2, NoLeast DEF W
  <2>4. \A i \in 0..n : kept[i] \in Seq(T)
    BY <1>1, <2>3
  <2>5. kept = [i \in 0..n |-> kept[i]]
    BY <1>9
  <2>6. QED
    BY <2>4, <2>5
<1>11. Keeps(kept, s, S)
  BY <1>9 DEF Keeps
<1>12. QED
  BY <1>7, <1>10, <1>11

(* The k-th of what is left stood at at[k].                                *)
Thinned(o, s, S, n, at) ==
  /\ at \in [1..Len(o) -> 1..n]
  /\ \A k \in 1..Len(o) : o[k] = s[at[k]] /\ s[at[k]] \in S
  /\ \A j, k \in 1..Len(o) : j < k => at[j] < at[k]
  /\ \A i \in 1..n : s[i] \in S => \E k \in 1..Len(o) : at[k] = i

(* What is kept of a sequence, and where it came from.                     *)
LEMMA OnlyThins ==
  ASSUME NEW T, NEW s \in Seq(T), NEW S
  PROVE  Only(s, S) \in Seq(T) /\ \E at : Thinned(Only(s, S), s, S, Len(s), at)
<1> DEFINE n == Len(s)
<1>1. PICK kept \in [0..n -> Seq(T)] : Keeps(kept, s, S) /\ Only(s, S) = kept[n]
  BY OnlyIs
<1> DEFINE W == { m \in Nat : m <= n /\ ~ \E at : Thinned(kept[m], s, S, m, at) }
<1>2. n \in Nat /\ \A i \in 1..n : s[i] \in T
  OBVIOUS
<1>3. 0 \notin W
  <2>1. Thinned(<< >>, s, S, 0, << >>)
    BY DEF Thinned
  <2>2. QED
    BY <1>1, <2>1 DEF Keeps
<1>4. ASSUME NEW m \in Nat, m \notin W PROVE m + 1 \notin W
  <2> SUFFICES ASSUME m + 1 <= n PROVE \E at : Thinned(kept[m + 1], s, S, m + 1, at)
    OBVIOUS
  <2>1. PICK at : Thinned(kept[m], s, S, m, at)
    BY <1>4
  <2>2. m + 1 \in 1..n /\ (m + 1) - 1 = m /\ m \in 0..n
    BY <1>2
  <2>3. kept[m + 1] = IF s[m + 1] \in S THEN Append(kept[m], s[m + 1]) ELSE kept[m]
    BY <1>1, <2>2 DEF Keeps
  <2> DEFINE o == kept[m]
             L == Len(o)
  <2>4. o \in Seq(T) /\ L \in Nat
    BY <2>2
  <2>5. CASE s[m + 1] \notin S
    <3>1. kept[m + 1] = o
      BY <2>3, <2>5
    <3>2. at \in [1..L -> 1..m + 1]
      BY <2>1 DEF Thinned
    <3>3. \A i \in 1..m + 1 : s[i] \in S => \E k \in 1..L : at[k] = i
      BY <2>1, <2>5 DEF Thinned
    <3>4. Thinned(o, s, S, m + 1, at)
      BY <2>1, <3>2, <3>3 DEF Thinned
    <3>5. QED
      BY <3>1, <3>4
  <2>6. CASE s[m + 1] \in S
    <3> DEFINE p == Append(o, s[m + 1])
               up == [k \in 1..L + 1 |-> IF k = L + 1 THEN m + 1 ELSE at[k]]
    <3>1. kept[m + 1] = p
      BY <2>3, <2>6
    <3>2. Len(p) = L + 1 /\ p[L + 1] = s[m + 1] /\ \A k \in 1..L : p[k] = o[k]
      BY <1>2, <2>2, <2>4
    <3>3. at \in [1..L -> 1..m]
      BY <2>1 DEF Thinned
    <3>4. up[L + 1] = m + 1 /\ \A k \in 1..L : up[k] = at[k]
      BY <2>4
    <3>5. up \in [1..L + 1 -> 1..m + 1]
      BY <2>4, <3>3
    <3> HIDE DEF p, up, L
    <3>6. \A k \in 1..L + 1 : p[k] = s[up[k]] /\ s[up[k]] \in S
      <4> SUFFICES ASSUME NEW k \in 1..L + 1 PROVE p[k] = s[up[k]] /\ s[up[k]] \in S
        OBVIOUS
      <4>1. CASE k = L + 1
        BY <2>6, <3>2, <3>4, <4>1
      <4>2. CASE k # L + 1
        <5>1. k \in 1..L
          BY <2>4, <4>2
        <5>2. o[k] = s[at[k]] /\ s[at[k]] \in S
          BY <2>1, <5>1 DEF Thinned, L
        <5>3. QED
          BY <3>2, <3>4, <5>1, <5>2
      <4>3. QED
        BY <4>1, <4>2
    <3>7. \A j, k \in 1..L + 1 : j < k => up[j] < up[k]
      <4> SUFFICES ASSUME NEW j \in 1..L + 1, NEW k \in 1..L + 1, j < k PROVE up[j] < up[k]
        OBVIOUS
      <4>1. j \in 1..L /\ up[j] = at[j] /\ at[j] \in 1..m
        BY <2>4, <3>3, <3>4
      <4>2. CASE k = L + 1
        BY <3>4, <4>1, <4>2
      <4>3. CASE k # L + 1
        <5>1. k \in 1..L
          BY <2>4, <4>3
        <5>2. at[j] < at[k]
          BY <2>1, <4>1, <5>1 DEF Thinned, L
        <5>3. QED
          BY <3>4, <4>1, <5>1, <5>2
      <4>4. QED
        BY <4>2, <4>3
    <3>8. \A i \in 1..m + 1 : s[i] \in S => \E k \in 1..L + 1 : up[k] = i
      <4> SUFFICES ASSUME NEW i \in 1..m + 1, s[i] \in S PROVE \E k \in 1..L + 1 : up[k] = i
        OBVIOUS
      <4>1. CASE i = m + 1
        BY <2>4, <3>4, <4>1
      <4>2. CASE i # m + 1
        <5>0. i \in 1..m
          BY <4>2
        <5>1. PICK k \in 1..L : at[k] = i
          BY <2>1, <5>0 DEF Thinned, L
        <5>2. QED
          BY <2>4, <3>4, <5>1
      <4>3. QED
        BY <4>1, <4>2
    <3>9. Thinned(p, s, S, m + 1, up)
      BY <3>2, <3>5, <3>6, <3>7, <3>8 DEF Thinned
    <3>10. QED
      BY <3>1, <3>9
  <2>7. QED
    BY <2>5, <2>6
<1>5. W = {}
  <2> HIDE DEF W
  <2> QED BY <1>3, <1>4, NoLeast DEF W
<1>6. \E at : Thinned(kept[n], s, S, n, at)
  BY <1>2, <1>5
<1>7. QED
  BY <1>1, <1>2, <1>6

(* Its elements are those that are in S, in the same order.                *)
InOrderOf(o, s) ==
  \A j, k \in 1..Len(o) :
    j < k => \E p, q \in 1..Len(s) : p < q /\ o[j] = s[p] /\ o[k] = s[q]

(* Only keeps the members of a set, in the order they had.                 *)
LEMMA OnlyKeeps ==
  ASSUME NEW T, NEW s \in Seq(T), NEW S
  PROVE  /\ Only(s, S) \in Seq(T)
         /\ ToSet(Only(s, S)) = ToSet(s) \cap S
         /\ InOrderOf(Only(s, S), s)
<1> DEFINE n == Len(s)
           o == Only(s, S)
<1>1. o \in Seq(T) /\ \E at : Thinned(o, s, S, n, at)
  BY OnlyThins
<1>2. PICK at : Thinned(o, s, S, n, at)
  BY <1>1
<1> HIDE DEF o, n
<1>3. ToSet(o) = ToSet(s) \cap S
  <2>1. ASSUME NEW x \in ToSet(o) PROVE x \in ToSet(s) \cap S
    <3>1. PICK k \in 1..Len(o) : x = o[k]
      BY <1>1 DEF ToSet
    <3>2. at[k] \in 1..n /\ x = s[at[k]] /\ x \in S
      BY <1>2, <3>1 DEF Thinned
    <3>3. QED
      BY <3>2 DEF ToSet, n
  <2>2. ASSUME NEW x \in ToSet(s), x \in S PROVE x \in ToSet(o)
    <3>1. PICK i \in 1..n : x = s[i]
      BY DEF ToSet, n
    <3>2. PICK k \in 1..Len(o) : at[k] = i
      BY <1>2, <2>2, <3>1 DEF Thinned
    <3>3. QED
      BY <1>1, <1>2, <3>1, <3>2 DEF Thinned, ToSet
  <2>3. QED
    BY <2>1, <2>2
<1>4. InOrderOf(o, s)
  <2> SUFFICES ASSUME NEW j \in 1..Len(o), NEW k \in 1..Len(o), j < k
               PROVE  \E p, q \in 1..Len(s) : p < q /\ o[j] = s[p] /\ o[k] = s[q]
    BY DEF InOrderOf
  <2>1. at[j] \in 1..n /\ at[k] \in 1..n /\ at[j] < at[k] /\ o[j] = s[at[j]] /\ o[k] = s[at[k]]
    BY <1>2 DEF Thinned
  <2>2. QED
    BY <2>1 DEF n
<1>5. QED
  BY <1>1, <1>3, <1>4 DEF o

-----------------------------------------------------------------------------
(***************************************************************************)
(* Walks and insertions.                                                   *)
(***************************************************************************)
LEMMA StopsAtFirst ==
  ASSUME NEW n \in Nat, NEW places, places \subseteq 1..n
  PROVE  /\ StopAt(n, places) \in 1..n + 1
         /\ StopAt(n, places) <= n => StopAt(n, places) \in places
         /\ StopAt(n, places) = n + 1 => places = {}
         /\ \A p \in places : StopAt(n, places) <= p
<1> DEFINE T == places \union {n + 1}
<1>1. T \subseteq Nat /\ T # {}
  OBVIOUS
<1>2. \E x \in T : \A y \in T : x <= y
  <2> HIDE DEF T
  <2> QED BY <1>1, Least
<1>3. StopAt(n, places) = CHOOSE x \in T : \A y \in T : x <= y
  BY DEF StopAt, Min
<1>4. StopAt(n, places) \in T /\ \A y \in T : StopAt(n, places) <= y
  <2> HIDE DEF T
  <2> QED BY <1>2, <1>3
<1> DEFINE k == StopAt(n, places)
<1>5. k \in T /\ \A y \in T : k <= y
  BY <1>4
<1> HIDE DEF k
<1>6. k \in 1..n + 1 /\ (k <= n => k \in places) /\ \A p \in places : k <= p
  BY <1>5
<1>7. k = n + 1 => \A p \in places : FALSE
  BY <1>6
<1>8. QED
  BY <1>6, <1>7 DEF k

Inserted(r, s, k, e) ==
  /\ Len(r) = Len(s) + 1
  /\ \A j \in 1..Len(s) + 1 :
       r[j] = IF j < k THEN s[j] ELSE IF j = k THEN e ELSE s[j - 1]

(* InsertAt of the community modules inserts one element.                  *)
LEMMA InsertAtInserts ==
  ASSUME NEW T, NEW s \in Seq(T), NEW e \in T, NEW k \in 1..Len(s) + 1
  PROVE  /\ InsertAt(s, k, e) \in Seq(T)
         /\ Inserted(InsertAt(s, k, e), s, k, e)
         /\ ToSet(InsertAt(s, k, e)) = ToSet(s) \union {e}
<1> DEFINE n == Len(s)
           a == SubSeq(s, 1, k - 1)
           b == SubSeq(s, k, n)
           c == a \o <<e>>
           r == c \o b
<1>1. n \in Nat /\ k \in 1..n + 1
  OBVIOUS
<1>2. a \in Seq(T) /\ Len(a) = k - 1 /\ \A j \in 1..k - 1 : a[j] = s[j]
  BY <1>1
<1>3. b \in Seq(T) /\ Len(b) = n - k + 1 /\ \A j \in 1..n - k + 1 : b[j] = s[k + j - 1]
  BY <1>1
<1>4. InsertAt(s, k, e) = r
  BY DEF InsertAt
<1> HIDE DEF a, b
<1>5. /\ c \in Seq(T) /\ Len(c) = k
       /\ \A j \in 1..k : c[j] = IF j < k THEN a[j] ELSE e
  <2>1. c \in Seq(T) /\ Len(c) = (k - 1) + 1
    BY <1>1, <1>2
  <2>2. \A j \in 1..k : c[j] = IF j <= k - 1 THEN a[j] ELSE <<e>>[j - (k - 1)]
    BY <1>1, <1>2
  <2> HIDE DEF c
  <2>3. ASSUME NEW j \in 1..k PROVE c[j] = IF j < k THEN a[j] ELSE e
    <3>1. CASE j < k
      BY <1>1, <2>2, <3>1
    <3>2. CASE j = k
      <4>1. j - (k - 1) = 1
        BY <1>1, <3>2
      <4>2. QED
        BY <1>1, <2>2, <3>2, <4>1
    <3>3. QED
      BY <1>1, <3>1, <3>2
  <2>4. QED
    BY <1>1, <2>1, <2>3
<1> HIDE DEF c
<1>6. /\ r \in Seq(T) /\ Len(r) = n + 1
      /\ \A j \in 1..n + 1 : r[j] = IF j < k THEN a[j] ELSE IF j = k THEN e ELSE b[j - k]
  <2>1. r \in Seq(T) /\ Len(r) = n + 1
    <3>1. r \in Seq(T) /\ Len(r) = Len(c) + Len(b)
      BY <1>3, <1>5, ConcatProperties
    <3>2. QED
      BY <1>1, <1>3, <1>5, <3>1
  <2>2. \A j \in 1..n + 1 : r[j] = IF j <= k THEN c[j] ELSE b[j - k]
    BY <1>1, <1>3, <1>5
  <2>3. \A j \in 1..n + 1 : r[j] = IF j < k THEN a[j] ELSE IF j = k THEN e ELSE b[j - k]
    <3> SUFFICES ASSUME NEW j \in 1..n + 1
                 PROVE  r[j] = IF j < k THEN a[j] ELSE IF j = k THEN e ELSE b[j - k]
      OBVIOUS
    <3> HIDE DEF r
    <3>1. CASE j <= k
      <4>1. j \in 1..k
        BY <1>1, <3>1
      <4>2. r[j] = c[j] /\ c[j] = IF j < k THEN a[j] ELSE e
        BY <1>5, <2>2, <3>1, <4>1
      <4>3. QED
        BY <1>1, <3>1, <4>2
    <3>2. CASE j > k
      BY <1>1, <2>2, <3>2
    <3>3. QED
      BY <1>1, <3>1, <3>2
  <2>4. QED
    BY <1>1, <2>1, <2>3
<1> HIDE DEF r
<1>7. ASSUME NEW j \in 1..n + 1
      PROVE  r[j] = IF j < k THEN s[j] ELSE IF j = k THEN e ELSE s[j - 1]
  <2>1. CASE j < k
    <3>1. j \in 1..k - 1
      BY <1>1, <2>1
    <3>2. QED
      BY <1>2, <1>6, <2>1, <3>1
  <2>2. CASE j = k
    BY <1>6, <2>2
  <2>3. CASE j > k
    <3>1. j - k \in 1..n - k + 1 /\ k + (j - k) - 1 = j - 1
      BY <1>1, <2>3
    <3>2. b[j - k] = s[j - 1]
      BY <1>3, <3>1
    <3>3. r[j] = b[j - k]
      BY <1>1, <1>6, <2>3
    <3>4. QED
      BY <1>1, <2>3, <3>2, <3>3
  <2>4. QED
    BY <1>1, <2>1, <2>2, <2>3
<1>8. Inserted(r, s, k, e)
  BY <1>6, <1>7 DEF Inserted
<1>9. \A j \in 1..n + 1 : r[j] \in ToSet(r)
  <2> HIDE DEF r
  <2>1. QED
    BY <1>6 DEF ToSet
<1>10. ToSet(r) = ToSet(s) \union {e}
  <2> HIDE DEF r
  <2>1. ASSUME NEW x \in ToSet(r) PROVE x \in ToSet(s) \union {e}
    <3>1. PICK j \in 1..n + 1 : x = r[j]
      BY <1>6 DEF ToSet
    <3>2. CASE j < k
      BY <1>1, <1>7, <3>1, <3>2 DEF ToSet
    <3>3. CASE j = k
      BY <1>7, <3>1, <3>3
    <3>4. CASE j > k
      <4>1. j - 1 \in 1..n /\ x = s[j - 1]
        BY <1>1, <1>7, <3>1, <3>4
      <4>2. QED
        BY <4>1 DEF ToSet
    <3>5. QED
      BY <1>1, <3>2, <3>3, <3>4
  <2>2. ASSUME NEW x \in ToSet(s) PROVE x \in ToSet(r)
    <3>1. PICK j \in 1..n : x = s[j]
      BY DEF ToSet
    <3>2. CASE j < k
      <4>1. j \in 1..n + 1 /\ r[j] = x
        BY <1>1, <1>7, <3>1, <3>2
      <4>2. QED
        BY <1>9, <4>1
    <3>3. CASE j >= k
      <4>1. j + 1 \in 1..n + 1 /\ (j + 1) - 1 = j
        BY <1>1
      <4>2. r[j + 1] = x
        BY <1>1, <1>7, <3>1, <3>3, <4>1
      <4>3. QED
        BY <1>9, <4>1, <4>2
    <3>4. QED
      BY <1>1, <3>2, <3>3
  <2>3. e \in ToSet(r)
    <3>1. k \in 1..n + 1 /\ r[k] = e
      BY <1>1, <1>7
    <3>2. QED
      BY <1>9, <3>1
  <2>4. QED
    BY <2>1, <2>2, <2>3
<1>11. QED
  BY <1>4, <1>6, <1>8, <1>10

-----------------------------------------------------------------------------
(***************************************************************************)
(* The trees.                                                              *)
(***************************************************************************)
LEMMA VersionsAre ==
  \A v \in Versions : v[1] \in Nat /\ v[2] \in Nat /\ v = <<v[1], v[2]>>
BY DEF Versions

Row(row) ==
  /\ row \in Seq(Versions) /\ row # << >>
  /\ \A j \in 1..Len(row) : row[j][1] = row[1][1]
  /\ \A j, k \in 1..Len(row) : j < k => row[j][2] < row[k][2]

Above(levels, root) ==
  /\ levels \in Seq(Seq(Versions))
  /\ \A i \in 1..Len(levels) : /\ Row(levels[i])
                               /\ root[1] <= levels[i][1][1]
                               /\ root \notin ToSet(levels[i])
  /\ \A i, j \in 1..Len(levels) : i < j => levels[i][1][1] < levels[j][1][1]

VersionsOn(levels) == UNION { ToSet(levels[i]) : i \in 1..Len(levels) }

(* The siblings stay in order (patchset.c:218-258).                        *)
LEMMA SiblingsStay ==
  ASSUME NEW row, Row(row), NEW v \in Versions, v[1] = row[1][1]
  PROVE  /\ Row(WithSibling(row, v))
         /\ WithSibling(row, v)[1][1] = v[1]
         /\ ToSet(WithSibling(row, v)) = ToSet(row) \union {v}
<1> DEFINE n == Len(row)
           places == { i \in 1..n : v[2] <= row[i][2] }
           k == StopAt(n, places)
           r == InsertAt(row, k, v)
<1>1. row \in Seq(Versions) /\ n \in Nat /\ n >= 1 /\ \A i \in 1..n : row[i] \in Versions
  BY DEF Row
<1>2. places \subseteq 1..n
  OBVIOUS
<1>3. WithSibling(row, v) = IF k <= n /\ row[k] = v THEN row ELSE r
  BY DEF WithSibling
<1>4. /\ k \in 1..n + 1 /\ (k <= n => k \in places)
      /\ \A p \in places : k <= p
  <2> HIDE DEF places, n
  <2> QED BY <1>1, <1>2, StopsAtFirst
<1> HIDE DEF k
<1>5. ASSUME NEW i \in 1..n, i < k PROVE row[i][2] < v[2]
  <2>1. i \notin places
    BY <1>1, <1>4, <1>5
  <2>2. row[i][2] \in Nat /\ v[2] \in Nat
    BY <1>1, VersionsAre
  <2>3. QED
    BY <2>1, <2>2
<1> HIDE DEF places
<1>6. CASE k <= n /\ row[k] = v
  <2>1. v \in ToSet(row)
    BY <1>1, <1>4, <1>6 DEF ToSet
  <2>2. QED
    BY <1>3, <1>6, <2>1
<1>7. CASE ~(k <= n /\ row[k] = v)
  <2>1. /\ r \in Seq(Versions) /\ Inserted(r, row, k, v)
        /\ ToSet(r) = ToSet(row) \union {v}
    BY <1>1, <1>4, InsertAtInserts
  <2> HIDE DEF r
  <2>2. /\ Len(r) = n + 1
        /\ \A j \in 1..n + 1 : r[j] = IF j < k THEN row[j] ELSE IF j = k THEN v ELSE row[j - 1]
    BY <2>1 DEF Inserted
  <2>3. ASSUME NEW j \in 1..n, k <= j PROVE v[2] < row[j][2]
    <3>1. k <= n /\ row[k] # v /\ v[2] <= row[k][2]
      BY <1>1, <1>4, <1>7, <2>3 DEF places
    <3>2. row[k] \in Versions /\ row[k][1] = v[1]
      BY <1>1, <1>4, <3>1 DEF Row
    <3>3. row[k][2] # v[2]
      BY <3>1, <3>2, VersionsAre
    <3>4. v[2] < row[k][2]
      BY <3>1, <3>2, <3>3, VersionsAre
    <3>5. j = k \/ row[k][2] < row[j][2]
      BY <1>4, <2>3, <3>1 DEF Row
    <3>6. row[j] \in Versions
      BY <1>1
    <3>7. QED
      BY <3>2, <3>4, <3>5, <3>6, VersionsAre
  <2>4. \A j \in 1..n + 1 : r[j][1] = v[1]
    <3> SUFFICES ASSUME NEW j \in 1..n + 1 PROVE r[j][1] = v[1]
      OBVIOUS
    <3>1. CASE j < k
      <4>1. j \in 1..n
        BY <1>1, <1>4, <3>1
      <4>2. QED
        BY <2>2, <3>1, <4>1 DEF Row
    <3>2. CASE j = k
      BY <2>2, <3>2
    <3>3. CASE j > k
      <4>1. j - 1 \in 1..n /\ r[j] = row[j - 1]
        BY <1>1, <1>4, <2>2, <3>3
      <4>2. QED
        BY <4>1 DEF Row
    <3>4. QED
      BY <1>1, <1>4, <3>1, <3>2, <3>3
  <2>5. \A i, j \in 1..n + 1 : i < j => r[i][2] < r[j][2]
    <3> SUFFICES ASSUME NEW i \in 1..n + 1, NEW j \in 1..n + 1, i < j
                 PROVE  r[i][2] < r[j][2]
      OBVIOUS
    <3>1. CASE j < k
      <4>1. i \in 1..n /\ j \in 1..n /\ r[i] = row[i] /\ r[j] = row[j]
        BY <1>1, <1>4, <2>2, <3>1
      <4>2. QED
        BY <4>1 DEF Row
    <3>2. CASE j = k
      <4>1. i \in 1..n /\ i < k /\ r[i] = row[i] /\ r[j] = v
        BY <1>1, <1>4, <2>2, <3>2
      <4>2. QED
        BY <1>5, <4>1
    <3>3. CASE j > k /\ i < k
      <4>1. i \in 1..n /\ j - 1 \in 1..n /\ k <= j - 1 /\ r[i] = row[i] /\ r[j] = row[j - 1]
        BY <1>1, <1>4, <2>2, <3>3
      <4>2. row[i][2] < v[2] /\ v[2] < row[j - 1][2]
        BY <1>5, <2>3, <3>3, <4>1
      <4>3. row[i][2] \in Nat /\ v[2] \in Nat /\ row[j - 1][2] \in Nat
        BY <1>1, <4>1, VersionsAre
      <4>4. QED
        BY <4>1, <4>2, <4>3
    <3>4. CASE j > k /\ i = k
      <4>1. j - 1 \in 1..n /\ k <= j - 1 /\ r[i] = v /\ r[j] = row[j - 1]
        BY <1>1, <1>4, <2>2, <3>4
      <4>2. QED
        BY <2>3, <4>1
    <3>5. CASE j > k /\ i > k
      <4>1. i - 1 \in 1..n /\ j - 1 \in 1..n /\ i - 1 < j - 1 /\ r[i] = row[i - 1] /\ r[j] = row[j - 1]
        BY <1>1, <1>4, <2>2, <3>5
      <4>2. QED
        BY <4>1 DEF Row
    <3>6. QED
      BY <1>1, <1>4, <3>1, <3>2, <3>3, <3>4, <3>5
  <2>6. 1 \in 1..n + 1
    BY <1>1
  <2>7. Row(r) /\ r[1][1] = v[1]
    BY <1>1, <2>1, <2>2, <2>4, <2>5, <2>6 DEF Row
  <2>8. QED
    BY <1>3, <1>7, <2>1, <2>7
<1>8. QED
  BY <1>6, <1>7

(* So do the levels (patchset.c:202-269).                                  *)
LEMMA LevelsStay ==
  ASSUME NEW root \in Versions, NEW levels, Above(levels, root),
         NEW v \in Versions, v # root, root[1] <= v[1]
  PROVE  /\ Above(WithVersion(levels, v), root)
         /\ VersionsOn(WithVersion(levels, v)) = VersionsOn(levels) \union {v}
<1> DEFINE n == Len(levels)
           places == { i \in 1..n : ~Newer(v, levels[i][1]) }
           k == StopAt(n, places)
           r == InsertAt(levels, k, <<v>>)
           s == [levels EXCEPT ![k] = WithSibling(@, v)]
<1>1. /\ levels \in Seq(Seq(Versions)) /\ n \in Nat
      /\ \A i \in 1..n : /\ Row(levels[i]) /\ levels[i][1] \in Versions
                         /\ levels[i][1][1] \in Nat
      /\ v[1] \in Nat /\ root[1] \in Nat
  <2>1. /\ levels \in Seq(Seq(Versions)) /\ n \in Nat
        /\ \A i \in 1..n : Row(levels[i])
    BY DEF Above
  <2>2. \A i \in 1..n : levels[i][1] \in Versions
    BY <2>1 DEF Row
  <2>3. QED
    BY <2>1, <2>2, VersionsAre
<1>2. places \subseteq 1..n
  OBVIOUS
<1>3. WithVersion(levels, v) = IF k <= n /\ ~Newer(levels[k][1], v) THEN s ELSE r
  BY DEF WithVersion
<1>4. /\ k \in 1..n + 1 /\ (k <= n => k \in places)
      /\ \A p \in places : k <= p
  <2> HIDE DEF places, n
  <2> QED BY <1>1, <1>2, StopsAtFirst
<1> HIDE DEF k
<1>5. ASSUME NEW i \in 1..n, i < k PROVE levels[i][1][1] < v[1]
  <2>1. i \notin places
    BY <1>1, <1>4, <1>5
  <2>2. QED
    BY <1>1, <2>1 DEF Newer
<1>6. k <= n => k \in 1..n /\ v[1] <= levels[k][1][1]
  BY <1>1, <1>4 DEF Newer
<1> HIDE DEF places
<1>7. CASE k <= n /\ ~Newer(levels[k][1], v)
  <2> DEFINE x == WithSibling(levels[k], v)
  <2>1. k \in 1..n /\ v[1] = levels[k][1][1]
    BY <1>1, <1>6, <1>7 DEF Newer
  <2>2. Row(x) /\ x[1][1] = v[1] /\ ToSet(x) = ToSet(levels[k]) \union {v}
    BY <1>1, <2>1, SiblingsStay
  <2> HIDE DEF x
  <2>3. x \in Seq(Versions)
    BY <2>2 DEF Row
  <2>4. s = [levels EXCEPT ![k] = x]
    BY DEF x
  <2>5. /\ s \in Seq(Seq(Versions)) /\ Len(s) = n
        /\ \A i \in 1..n : s[i] = IF i = k THEN x ELSE levels[i]
    BY <1>1, <2>1, <2>3, <2>4
  <2> HIDE DEF s
  <2>6. \A i \in 1..n : s[i][1][1] = levels[i][1][1]
    BY <2>1, <2>2, <2>5
  <2>7. \A i \in 1..n : Row(s[i]) /\ root[1] <= s[i][1][1] /\ root \notin ToSet(s[i])
    <3> SUFFICES ASSUME NEW i \in 1..n
                 PROVE  Row(s[i]) /\ root[1] <= s[i][1][1] /\ root \notin ToSet(s[i])
      OBVIOUS
    <3>1. Row(levels[i]) /\ root[1] <= levels[i][1][1] /\ root \notin ToSet(levels[i])
      BY DEF Above
    <3>2. CASE i = k
      BY <2>2, <2>5, <2>6, <3>1, <3>2
    <3>3. CASE i # k
      BY <2>5, <3>1, <3>3
    <3>4. QED
      BY <3>2, <3>3
  <2>8. \A i, j \in 1..n : i < j => s[i][1][1] < s[j][1][1]
    BY <2>6 DEF Above
  <2>9. Above(s, root)
    BY <2>5, <2>7, <2>8 DEF Above
  <2>10. VersionsOn(s) = VersionsOn(levels) \union {v}
    <3>1. ASSUME NEW w \in VersionsOn(s) PROVE w \in VersionsOn(levels) \union {v}
      <4>1. PICK i \in 1..n : w \in ToSet(s[i])
        BY <2>5 DEF VersionsOn
      <4>2. w \in ToSet(levels[i]) \/ w = v
        BY <2>2, <2>5, <4>1
      <4>3. QED
        BY <4>2 DEF VersionsOn
    <3>2. ASSUME NEW w \in VersionsOn(levels) PROVE w \in VersionsOn(s)
      <4>1. PICK i \in 1..n : w \in ToSet(levels[i])
        BY DEF VersionsOn
      <4>2. w \in ToSet(s[i])
        BY <2>2, <2>5, <4>1
      <4>3. QED
        BY <2>5, <4>2 DEF VersionsOn
    <3>3. v \in VersionsOn(s)
      <4>1. v \in ToSet(s[k])
        BY <2>1, <2>2, <2>5
      <4>2. QED
        BY <2>1, <2>5, <4>1 DEF VersionsOn
    <3>4. QED
      BY <3>1, <3>2, <3>3
  <2>11. QED
    BY <1>3, <1>7, <2>9, <2>10
<1>8. CASE ~(k <= n /\ ~Newer(levels[k][1], v))
  <2> DEFINE x == <<v>>
  <2>1. x \in Seq(Versions) /\ Len(x) = 1 /\ x[1] = v /\ ToSet(x) = {v}
    BY DEF ToSet
  <2>2. Row(x)
    BY <2>1 DEF Row
  <2> HIDE DEF x
  <2>3. /\ r \in Seq(Seq(Versions)) /\ Inserted(r, levels, k, x)
    <3>1. r = InsertAt(levels, k, x)
      BY DEF x
    <3>2. QED
      BY <1>1, <1>4, <2>1, <3>1, InsertAtInserts
  <2> HIDE DEF r
  <2>4. /\ Len(r) = n + 1
        /\ \A j \in 1..n + 1 : r[j] = IF j < k THEN levels[j] ELSE IF j = k THEN x ELSE levels[j - 1]
    BY <2>3 DEF Inserted
  <2>5. ASSUME NEW j \in 1..n, k <= j PROVE v[1] < levels[j][1][1]
    <3>1. k \in 1..n /\ v[1] < levels[k][1][1]
      BY <1>1, <1>4, <1>6, <1>8, <2>5 DEF Newer
    <3>2. j = k \/ levels[k][1][1] < levels[j][1][1]
      BY <1>4, <2>5, <3>1 DEF Above
    <3>3. levels[j][1][1] \in Nat /\ levels[k][1][1] \in Nat
      BY <1>1, <3>1
    <3>4. CASE j = k
      BY <3>1, <3>4
    <3>5. CASE j # k
      <4>1. levels[k][1][1] < levels[j][1][1]
        BY <3>2, <3>5
      <4> DEFINE a == v[1]
                 b == levels[k][1][1]
                 c == levels[j][1][1]
      <4>2. a \in Nat /\ b \in Nat /\ c \in Nat /\ a < b /\ b < c
        BY <1>1, <3>1, <3>3, <4>1
      <4> HIDE DEF a, b, c
      <4>3. a < c
        BY <4>2
      <4>4. QED
        BY <4>3 DEF a, c
    <3>6. QED
      BY <3>4, <3>5
  <2>6. \A i \in 1..n + 1 : \/ i < k /\ i \in 1..n /\ r[i] = levels[i]
                            \/ i = k /\ r[i] = x
                            \/ i > k /\ i - 1 \in 1..n /\ k <= i - 1 /\ r[i] = levels[i - 1]
    <3> SUFFICES ASSUME NEW i \in 1..n + 1
                 PROVE  \/ i < k /\ i \in 1..n /\ r[i] = levels[i]
                        \/ i = k /\ r[i] = x
                        \/ i > k /\ i - 1 \in 1..n /\ k <= i - 1 /\ r[i] = levels[i - 1]
      OBVIOUS
    <3>1. CASE i < k
      <4>1. i \in 1..n /\ r[i] = levels[i]
        BY <1>1, <1>4, <2>4, <3>1
      <4>2. QED
        BY <3>1, <4>1
    <3>2. CASE i = k
      BY <2>4, <3>2
    <3>3. CASE i > k
      <4>1. i - 1 \in 1..n /\ k <= i - 1 /\ ~(i < k) /\ i # k
        BY <1>1, <1>4, <3>3
      <4>2. QED
        BY <2>4, <3>3, <4>1
    <3>4. QED
      BY <1>1, <1>4, <3>1, <3>2, <3>3
  <2>7. \A i \in 1..n + 1 : Row(r[i]) /\ root[1] <= r[i][1][1] /\ root \notin ToSet(r[i])
    <3> SUFFICES ASSUME NEW i \in 1..n + 1
                 PROVE  Row(r[i]) /\ root[1] <= r[i][1][1] /\ root \notin ToSet(r[i])
      OBVIOUS
    <3>1. CASE i < k /\ i \in 1..n /\ r[i] = levels[i]
      BY <3>1 DEF Above
    <3>2. CASE i = k /\ r[i] = x
      BY <2>1, <2>2, <3>2
    <3>3. CASE i > k /\ i - 1 \in 1..n /\ k <= i - 1 /\ r[i] = levels[i - 1]
      BY <3>3 DEF Above
    <3>4. QED
      BY <2>6, <3>1, <3>2, <3>3
  <2>8. \A i, j \in 1..n + 1 : i < j => r[i][1][1] < r[j][1][1]
    <3> SUFFICES ASSUME NEW i \in 1..n + 1, NEW j \in 1..n + 1, i < j
                 PROVE  r[i][1][1] < r[j][1][1]
      OBVIOUS
    <3>1. CASE j < k
      <4>1. i \in 1..n /\ j \in 1..n /\ r[i] = levels[i] /\ r[j] = levels[j]
        BY <1>1, <1>4, <2>4, <3>1
      <4>2. QED
        BY <4>1 DEF Above
    <3>2. CASE j = k
      <4>1. i \in 1..n /\ i < k /\ r[i] = levels[i] /\ r[j] = x
        BY <1>1, <1>4, <2>6, <3>2
      <4>2. QED
        BY <1>5, <2>1, <4>1
    <3>3. CASE j > k /\ i < k
      <4>1. i \in 1..n /\ j - 1 \in 1..n /\ k <= j - 1 /\ r[i] = levels[i] /\ r[j] = levels[j - 1]
        BY <1>1, <1>4, <2>6, <3>3
      <4>2. levels[i][1][1] < v[1] /\ v[1] < levels[j - 1][1][1]
        BY <1>5, <2>5, <3>3, <4>1
      <4>3. levels[i][1][1] \in Nat /\ levels[j - 1][1][1] \in Nat
        BY <1>1, <4>1
      <4>4. levels[i][1][1] < levels[j - 1][1][1]
        <5> DEFINE a == levels[i][1][1]
                   b == levels[j - 1][1][1]
                   c == v[1]
        <5>1. a \in Nat /\ b \in Nat /\ c \in Nat /\ a < c /\ c < b
          BY <1>1, <4>2, <4>3
        <5> HIDE DEF a, b, c
        <5>2. a < b
          BY <5>1
        <5>3. QED
          BY <5>2 DEF a, b
      <4>5. QED
        BY <4>1, <4>4
    <3>4. CASE j > k /\ i = k
      <4>1. j - 1 \in 1..n /\ k <= j - 1 /\ r[i] = x /\ r[j] = levels[j - 1]
        BY <1>1, <1>4, <2>6, <3>4
      <4>2. QED
        BY <2>1, <2>5, <4>1
    <3>5. CASE j > k /\ i > k
      <4>1. /\ i - 1 \in 1..n /\ j - 1 \in 1..n /\ i - 1 < j - 1
            /\ r[i] = levels[i - 1] /\ r[j] = levels[j - 1]
        <5>1. i - 1 \in 1..n /\ j - 1 \in 1..n /\ i - 1 < j - 1
          BY <1>1, <1>4, <3>5
        <5>2. r[i] = levels[i - 1] /\ r[j] = levels[j - 1]
          BY <1>4, <2>4, <3>5
        <5>3. QED
          BY <5>1, <5>2
      <4>2. QED
        BY <4>1 DEF Above
    <3>6. QED
      BY <1>1, <1>4, <3>1, <3>2, <3>3, <3>4, <3>5
  <2>9. Above(r, root)
    BY <2>3, <2>4, <2>7, <2>8 DEF Above
  <2>10. VersionsOn(r) = VersionsOn(levels) \union {v}
    <3>1. ASSUME NEW w \in VersionsOn(r) PROVE w \in VersionsOn(levels) \union {v}
      <4>1. PICK i \in 1..n + 1 : w \in ToSet(r[i])
        BY <2>4 DEF VersionsOn
      <4>2. (\E j \in 1..n : r[i] = levels[j]) \/ r[i] = x
        BY <2>6
      <4>3. QED
        BY <2>1, <4>1, <4>2 DEF VersionsOn
    <3>2. ASSUME NEW w \in VersionsOn(levels) PROVE w \in VersionsOn(r)
      <4>1. PICK i \in 1..n : w \in ToSet(levels[i])
        BY DEF VersionsOn
      <4>2. CASE i < k
        <5>1. i \in 1..n + 1 /\ r[i] = levels[i]
          BY <1>1, <2>4, <4>2
        <5>2. QED
          BY <2>4, <4>1, <5>1 DEF VersionsOn
      <4>3. CASE i >= k
        <5>1. i + 1 \in 1..n + 1 /\ (i + 1) - 1 = i /\ ~(i + 1 < k) /\ i + 1 # k
          BY <1>1, <1>4, <4>3
        <5>2. r[i + 1] = levels[i]
          BY <2>4, <5>1
        <5>3. QED
          BY <2>4, <4>1, <5>1, <5>2 DEF VersionsOn
      <4>4. QED
        BY <1>1, <1>4, <4>2, <4>3
    <3>3. v \in VersionsOn(r)
      <4>1. k \in 1..n + 1 /\ r[k] = x
        BY <1>4, <2>4
      <4>2. QED
        BY <2>1, <2>4, <4>1 DEF VersionsOn
    <3>4. QED
      BY <3>1, <3>2, <3>3
  <2>11. QED
    BY <1>3, <1>8, <2>9, <2>10
<1>9. QED
  BY <1>7, <1>8

-----------------------------------------------------------------------------
(***************************************************************************)
(* The forest.  A root is only ever replaced by an older one of a component *)
(* that is not installed; anything else grows its tree.                    *)
(***************************************************************************)
Forests ==
  [order : Seq(Components), ver : [Components -> Versions], gen : [Components -> Nat],
   visible : [Components -> BOOLEAN], levels : [Components -> Seq(Seq(Versions))]]

Good(f) ==
  /\ f \in Forests
  /\ f.order # << >> /\ f.order[1] = Main
  /\ \A i, j \in 1..Len(f.order) : f.order[i] = f.order[j] => i = j
  /\ \A c \in DOMAIN Installed : /\ c \in ToSet(f.order)
                                 /\ f.ver[c] = Installed[c] /\ ~f.visible[c]
  /\ \A c \in ToSet(f.order) : /\ Above(f.levels[c], f.ver[c])
                               /\ c \notin DOMAIN Installed => f.visible[c]

Elsewhere(f, g, c) ==
  \A d \in Components \ {c} : /\ g.ver[d] = f.ver[d] /\ g.gen[d] = f.gen[d]
                              /\ g.visible[d] = f.visible[d] /\ g.levels[d] = f.levels[d]

Replants(f, g, c, v) ==
  /\ c \notin ToSet(f.order) \/ (f.visible[c] /\ v[1] < f.ver[c][1])
  /\ g.gen[c] = f.gen[c] + 1 /\ g.ver[c] = v /\ g.visible[c] /\ g.levels[c] = << >>

Extends(f, g, c, v) ==
  /\ c \in ToSet(f.order) /\ f.ver[c][1] <= v[1]
  /\ g.gen[c] = f.gen[c] /\ g.ver[c] = f.ver[c] /\ g.visible[c] = f.visible[c]
  /\ VersionsOn(g.levels[c]) \union {f.ver[c]} = VersionsOn(f.levels[c]) \union {v, f.ver[c]}

Becomes(f, g, c, v) ==
  /\ Good(g)
  /\ ToSet(g.order) = ToSet(f.order) \union {c}
  /\ Elsewhere(f, g, c)
  /\ \/ Replants(f, g, c, v)
     \/ Obsolete(f, c, v) /\ g = f
     \/ Extends(f, g, c, v)

(* The types of the parts of a good forest.                                *)
LEMMA ForestParts ==
  ASSUME NEW f, Good(f)
  PROVE  /\ f.order \in Seq(Components) /\ f.ver \in [Components -> Versions]
         /\ f.gen \in [Components -> Nat] /\ f.visible \in [Components -> BOOLEAN]
         /\ f.levels \in [Components -> Seq(Seq(Versions))]
         /\ Main \in Components /\ DOMAIN Installed \subseteq Components
BY PatchSetAssumption DEF Good, Forests

(* A new root behind the main root.                                        *)
LEMMA RootsStay ==
  ASSUME NEW f, Good(f), NEW c \in Components, c \notin DOMAIN Installed, NEW v \in Versions,
         NEW order \in Seq(Components), order # << >>, order[1] = Main,
         \A i, j \in 1..Len(order) : order[i] = order[j] => i = j,
         ToSet(order) = ToSet(f.order) \ {c},
         c \notin ToSet(f.order) \/ (f.visible[c] /\ v[1] < f.ver[c][1])
  PROVE  Becomes(f, WithRoot([f EXCEPT !.order = order], c, v), c, v)
<1> DEFINE h == [f EXCEPT !.order = order]
           g == WithRoot(h, c, v)
           o == InsertAt(order, 2, c)
<1>1. /\ h.order = order /\ h.ver = f.ver /\ h.gen = f.gen /\ h.visible = f.visible
      /\ h.levels = f.levels
  BY DEF Good, Forests
<1> HIDE DEF h
<1>2. /\ g.order = o /\ g.ver = [f.ver EXCEPT ![c] = v]
      /\ g.gen = [f.gen EXCEPT ![c] = f.gen[c] + 1]
      /\ g.visible = [f.visible EXCEPT ![c] = TRUE]
      /\ g.levels = [f.levels EXCEPT ![c] = << >>]
      /\ g = [order |-> g.order, ver |-> g.ver, gen |-> g.gen, visible |-> g.visible,
              levels |-> g.levels]
  BY <1>1 DEF WithRoot
<1> HIDE DEF g
<1>3. Len(order) \in Nat /\ Len(order) >= 1
  OBVIOUS
<1>4. /\ o \in Seq(Components) /\ Inserted(o, order, 2, c)
      /\ ToSet(o) = ToSet(order) \union {c}
  BY <1>3, InsertAtInserts
<1> HIDE DEF o
<1>5. /\ Len(o) = Len(order) + 1
      /\ \A j \in 1..Len(order) + 1 :
           o[j] = IF j < 2 THEN order[j] ELSE IF j = 2 THEN c ELSE order[j - 1]
  BY <1>4 DEF Inserted
<1>6. o # << >> /\ o[1] = Main
  BY <1>3, <1>5
<1>7. \A j \in 1..Len(order) : order[j] # c
  <2>1. c \notin ToSet(order)
    OBVIOUS
  <2>2. QED
    BY <1>3, <2>1 DEF ToSet
<1>8. \A i, j \in 1..Len(o) : o[i] = o[j] => i = j
  <2> SUFFICES ASSUME NEW i \in 1..Len(o), NEW j \in 1..Len(o), i < j PROVE o[i] # o[j]
    BY <1>3, <1>5
  <2>1. CASE j = 2
    <3>1. i = 1 /\ 1 \in 1..Len(order) /\ o[1] = order[1] /\ o[2] = c
      BY <1>3, <1>5, <2>1
    <3>2. QED
      BY <1>7, <2>1, <3>1
  <2>2. CASE j > 2
    <3>1. j - 1 \in 1..Len(order) /\ o[j] = order[j - 1]
      BY <1>3, <1>5, <2>2
    <3>2. CASE i = 1
      <4>1. o[i] = order[1] /\ 1 \in 1..Len(order) /\ j - 1 # 1
        BY <1>3, <1>5, <2>2, <3>2
      <4>2. QED
        BY <3>1, <4>1
    <3>3. CASE i = 2
      BY <1>3, <1>5, <1>7, <3>1, <3>3
    <3>4. CASE i > 2
      <4>1. i - 1 \in 1..Len(order) /\ o[i] = order[i - 1] /\ i - 1 # j - 1
        BY <1>3, <1>5, <2>2, <3>4
      <4>2. QED
        BY <3>1, <4>1
    <3>5. QED
      BY <3>2, <3>3, <3>4
  <2>3. QED
    BY <2>1, <2>2
<1>9. /\ f.ver \in [Components -> Versions] /\ f.gen \in [Components -> Nat]
      /\ f.visible \in [Components -> BOOLEAN] /\ f.levels \in [Components -> Seq(Seq(Versions))]
      /\ DOMAIN Installed \subseteq Components
  BY ForestParts
<1>10. << >> \in Seq(Seq(Versions)) /\ Above(<< >>, v)
  <2>1. << >> \in Seq(Seq(Versions)) /\ Len(<< >>) = 0
    OBVIOUS
  <2>2. QED
    BY <2>1 DEF Above
<1>11. g \in Forests
  <2>1. g.ver \in [Components -> Versions] /\ g.gen \in [Components -> Nat]
    BY <1>2, <1>9
  <2>2. g.visible \in [Components -> BOOLEAN] /\ g.levels \in [Components -> Seq(Seq(Versions))]
    BY <1>2, <1>9, <1>10
  <2>3. QED
    BY <1>2, <1>4, <2>1, <2>2 DEF Forests
<1>12. ToSet(g.order) = ToSet(f.order) \union {c}
  BY <1>2, <1>4
<1>13. \A d \in DOMAIN Installed : /\ d \in ToSet(g.order)
                                   /\ g.ver[d] = Installed[d] /\ ~g.visible[d]
  BY <1>2, <1>9, <1>12 DEF Good
<1>14. \A d \in ToSet(g.order) : /\ Above(g.levels[d], g.ver[d])
                                 /\ d \notin DOMAIN Installed => g.visible[d]
  <2> SUFFICES ASSUME NEW d \in ToSet(g.order)
               PROVE  /\ Above(g.levels[d], g.ver[d])
                      /\ d \notin DOMAIN Installed => g.visible[d]
    OBVIOUS
  <2>1. CASE d = c
    BY <1>2, <1>9, <1>10, <2>1
  <2>2. CASE d # c
    <3>1. d \in ToSet(f.order)
      BY <1>12, <2>2
    <3>2. d \in Components
      BY <1>2, <1>4 DEF ToSet
    <3>3. QED
      BY <1>2, <1>9, <2>2, <3>1, <3>2 DEF Good
  <2>3. QED
    BY <2>1, <2>2
<1>15. Good(g)
  BY <1>2, <1>6, <1>8, <1>11, <1>13, <1>14 DEF Good
<1>16. Elsewhere(f, g, c)
  BY <1>2, <1>9, SMTT(30) DEF Elsewhere
<1>17. Replants(f, g, c, v)
  BY <1>2, <1>9 DEF Replants
<1>18. QED
  BY <1>12, <1>15, <1>16, <1>17 DEF Becomes, g, h

(* get_version_node() keeps the forest in order (patchset.c:143-269).      *)
LEMMA ForestGrows ==
  ASSUME NEW f, Good(f), NEW c \in Components, NEW v \in Versions
  PROVE  Becomes(f, Grown(f, c, v), c, v)
<1>1. /\ f.order \in Seq(Components) /\ f.ver \in [Components -> Versions]
      /\ f.gen \in [Components -> Nat] /\ f.visible \in [Components -> BOOLEAN]
      /\ f.levels \in [Components -> Seq(Seq(Versions))]
      /\ Main \in DOMAIN Installed /\ f.order # << >> /\ f.order[1] = Main
  BY ForestParts, PatchSetAssumption DEF Good
<1>2. v[1] \in Nat /\ f.ver[c] \in Versions /\ f.ver[c][1] \in Nat
  <2>1. f.ver[c] \in Versions
    BY <1>1
  <2>2. QED
    BY <2>1, VersionsAre
<1>3. CASE c \notin ToSet(f.order)
  <2>1. Grown(f, c, v) = WithRoot(f, c, v)
    BY <1>3 DEF Grown
  <2>2. f = [f EXCEPT !.order = f.order]
    BY DEF Good, Forests
  <2>3. c \notin DOMAIN Installed /\ ToSet(f.order) = ToSet(f.order) \ {c}
    BY <1>3 DEF Good
  <2>4. Becomes(f, WithRoot([f EXCEPT !.order = f.order], c, v), c, v)
    BY <1>1, <1>3, <2>3, RootsStay DEF Good
  <2>5. QED
    BY <2>1, <2>2, <2>4
<1>4. CASE c \in ToSet(f.order) /\ Newer(f.ver[c], v) /\ f.visible[c]
  <2> DEFINE S == Components \ {c}
             o == Only(f.order, S)
  <2>1. Grown(f, c, v) = WithRoot([f EXCEPT !.order = o], c, v)
    BY <1>4 DEF Grown, WithoutRoot
  <2>2. c \notin DOMAIN Installed
    BY <1>4 DEF Good
  <2>3. /\ o \in Seq(Components) /\ \E at : Thinned(o, f.order, S, Len(f.order), at)
        /\ ToSet(o) = ToSet(f.order) \cap S
    BY <1>1, OnlyThins, OnlyKeeps
  <2>4. ToSet(o) = ToSet(f.order) \ {c}
    <3>1. ToSet(f.order) \subseteq Components
      BY <1>1 DEF ToSet
    <3>2. QED
      BY <2>3, <3>1
  <2>5. PICK at : Thinned(o, f.order, S, Len(f.order), at)
    BY <2>3
  <2> HIDE DEF o
  <2>6. /\ at \in [1..Len(o) -> 1..Len(f.order)] /\ Len(o) \in Nat
        /\ \A k \in 1..Len(o) : o[k] = f.order[at[k]] /\ f.order[at[k]] \in S
        /\ \A j, k \in 1..Len(o) : j < k => at[j] < at[k]
        /\ \A i \in 1..Len(f.order) : f.order[i] \in S => \E k \in 1..Len(o) : at[k] = i
    BY <2>3, <2>5 DEF Thinned
  <2>7. o # << >> /\ o[1] = Main
    <3>1. Main \in S /\ 1 \in 1..Len(f.order) /\ f.order[1] = Main
      BY <1>1, <2>2, PatchSetAssumption
    <3>2. PICK k \in 1..Len(o) : at[k] = 1
      BY <2>6, <3>1
    <3>3. k = 1
      <4>1. CASE k # 1
        <5>1. 1 \in 1..Len(o) /\ 1 < k
          BY <2>6, <4>1
        <5>2. at[1] < at[k] /\ at[1] \in 1..Len(f.order)
          BY <2>6, <5>1
        <5>3. QED
          BY <3>2, <5>2
      <4>2. QED
        BY <4>1
    <3>4. QED
      BY <2>6, <3>1, <3>2, <3>3
  <2>8. \A i, j \in 1..Len(o) : o[i] = o[j] => i = j
    <3> SUFFICES ASSUME NEW i \in 1..Len(o), NEW j \in 1..Len(o), i < j PROVE o[i] # o[j]
      BY <2>6
    <3>1. at[i] < at[j] /\ at[i] \in 1..Len(f.order) /\ at[j] \in 1..Len(f.order)
      BY <2>6
    <3>2. f.order[at[i]] # f.order[at[j]]
      BY <3>1 DEF Good
    <3>3. QED
      BY <2>6, <3>2
  <2>9. f.visible[c] /\ v[1] < f.ver[c][1]
    BY <1>2, <1>4 DEF Newer
  <2>10. Becomes(f, WithRoot([f EXCEPT !.order = o], c, v), c, v)
    BY <2>2, <2>3, <2>4, <2>7, <2>8, <2>9, RootsStay
  <2>11. QED
    BY <2>1, <2>10
<1>5. CASE c \in ToSet(f.order) /\ Newer(f.ver[c], v) /\ ~f.visible[c]
  <2>1. Grown(f, c, v) = f
    BY <1>5 DEF Grown
  <2>2. Obsolete(f, c, v)
    BY <1>5 DEF Obsolete
  <2>3. Elsewhere(f, f, c) /\ ToSet(f.order) = ToSet(f.order) \union {c}
    BY <1>5 DEF Elsewhere
  <2>4. QED
    BY <2>1, <2>2, <2>3 DEF Becomes
<1>6. CASE c \in ToSet(f.order) /\ ~Newer(f.ver[c], v) /\ v = f.ver[c]
  <2>1. Grown(f, c, v) = f
    BY <1>6 DEF Grown
  <2>2. Extends(f, f, c, v)
    BY <1>2, <1>6 DEF Extends
  <2>3. Elsewhere(f, f, c) /\ ToSet(f.order) = ToSet(f.order) \union {c}
    BY <1>6 DEF Elsewhere
  <2>4. QED
    BY <2>1, <2>2, <2>3 DEF Becomes
<1>7. CASE c \in ToSet(f.order) /\ ~Newer(f.ver[c], v) /\ v # f.ver[c]
  <2> DEFINE new == WithVersion(f.levels[c], v)
             g == [f EXCEPT !.levels[c] = WithVersion(@, v)]
  <2>1. Grown(f, c, v) = g
    BY <1>7 DEF Grown
  <2>2. /\ g.order = f.order /\ g.ver = f.ver /\ g.gen = f.gen /\ g.visible = f.visible
        /\ g.levels = [f.levels EXCEPT ![c] = new]
        /\ DOMAIN g = {"order", "ver", "gen", "visible", "levels"}
    BY DEF Good, Forests
  <2>3. f.ver[c][1] <= v[1] /\ Above(f.levels[c], f.ver[c])
    BY <1>2, <1>7 DEF Newer, Good
  <2>4. Above(new, f.ver[c]) /\ VersionsOn(new) = VersionsOn(f.levels[c]) \union {v}
    BY <1>2, <1>7, <2>3, LevelsStay
  <2> HIDE DEF new
  <2>5. new \in Seq(Seq(Versions))
    BY <2>4 DEF Above
  <2>6. g \in Forests
    <3>1. g = [f EXCEPT !.levels = [f.levels EXCEPT ![c] = new]]
      BY DEF new
    <3>2. [f.levels EXCEPT ![c] = new] \in [Components -> Seq(Seq(Versions))]
      BY <1>1, <2>5
    <3>3. f \in Forests
      BY DEF Good
    <3> HIDE DEF g
    <3>4. QED
      BY <3>1, <3>2, <3>3 DEF Forests
  <2> HIDE DEF g
  <2>7. g.levels[c] = new /\ \A d \in Components \ {c} : g.levels[d] = f.levels[d]
    BY <1>1, <2>2
  <2>8. \A d \in ToSet(g.order) : /\ Above(g.levels[d], g.ver[d])
                                  /\ d \notin DOMAIN Installed => g.visible[d]
    <3> SUFFICES ASSUME NEW d \in ToSet(f.order)
                 PROVE  /\ Above(g.levels[d], f.ver[d])
                        /\ d \notin DOMAIN Installed => f.visible[d]
      BY <2>2
    <3>1. d \in Components
      BY <1>1 DEF ToSet
    <3>2. QED
      BY <2>4, <2>7, <3>1 DEF Good
  <2>9. Good(g)
    BY <2>2, <2>6, <2>8 DEF Good
  <2>10. Elsewhere(f, g, c)
    BY <2>2, <2>7 DEF Elsewhere
  <2>11. Extends(f, g, c, v)
    BY <1>7, <2>2, <2>3, <2>4, <2>7 DEF Extends
  <2>12. QED
    BY <1>7, <2>1, <2>2, <2>9, <2>10, <2>11 DEF Becomes
<1>8. QED
  BY <1>3, <1>4, <1>5, <1>6, <1>7

(* One version after another.                                              *)
LEMMA GrownByIs ==
  ASSUME NEW f, Good(f), NEW c \in Components, NEW words \in Seq(Versions)
  PROVE  \E grown : /\ \A i \in 0..Len(words) : Good(grown[i])
                    /\ grown[0] = f
                    /\ \A i \in 1..Len(words) : grown[i] = Grown(grown[i - 1], c, words[i])
                    /\ GrownBy(f, c, words) = grown[Len(words)]
<1> DEFINE n == Len(words)
           X == { g \in Forests : Good(g) }
           step == [q \in (1..n) \X X |-> Grown(q[2], c, words[q[1]])]
           R(g) == g = [i \in 0..n |-> IF i = 0 THEN f ELSE Grown(g[i - 1], c, words[i])]
<1>1. n \in Nat /\ f \in X /\ \A i \in 1..n : words[i] \in Versions
  BY DEF Good
<1>2. ASSUME NEW i \in 1..n, NEW x \in X
      PROVE  step[<<i, x>>] = Grown(x, c, words[i]) /\ step[<<i, x>>] \in X
  <2>1. step[<<i, x>>] = Grown(x, c, words[i])
    OBVIOUS
  <2>2. Becomes(x, Grown(x, c, words[i]), c, words[i])
    BY <1>1, ForestGrows
  <2>3. Good(Grown(x, c, words[i])) /\ Grown(x, c, words[i]) \in Forests
    BY <2>2 DEF Becomes, Good
  <2>4. QED
    BY <2>1, <2>3
<1> HIDE DEF step
<1>3. PICK g \in [0..n -> X] : Iterated(g, n, f, step)
  <2> HIDE DEF n, X
  <2> QED BY <1>1, <1>2, Iterates
<1>4. \A i \in 1..n : g[i] = Grown(g[i - 1], c, words[i])
  <2> SUFFICES ASSUME NEW i \in 1..n PROVE g[i] = Grown(g[i - 1], c, words[i])
    OBVIOUS
  <2>1. i - 1 \in 0..n
    BY <1>1
  <2>2. g[i - 1] \in X
    BY <2>1
  <2> HIDE DEF X
  <2>3. QED
    BY <1>2, <1>3, <2>2 DEF Iterated
<1>5. R(g)
  <2>1. g[0] = f
    BY <1>3 DEF Iterated
  <2>2. \A i \in 0..n : g[i] = IF i = 0 THEN f ELSE Grown(g[i - 1], c, words[i])
    <3> SUFFICES ASSUME NEW i \in 0..n
                 PROVE  g[i] = IF i = 0 THEN f ELSE Grown(g[i - 1], c, words[i])
      OBVIOUS
    <3>1. CASE i = 0
      BY <2>1, <3>1
    <3>2. CASE i # 0
      <4>1. i \in 1..n
        BY <1>1, <3>2
      <4>2. QED
        BY <1>4, <3>2, <4>1
    <3>3. QED
      BY <3>1, <3>2
  <2>3. g = [i \in 0..n |-> g[i]]
    OBVIOUS
  <2>4. QED
    BY <2>2, <2>3
<1> DEFINE grown == CHOOSE h : R(h)
<1>6. R(grown)
  <2> HIDE DEF R
  <2> QED BY <1>5
<1>7. GrownBy(f, c, words) = grown[n]
  BY DEF GrownBy
<1>8. \A h : R(h) => /\ h[0] = f
                     /\ \A i \in 1..n : h[i] = Grown(h[i - 1], c, words[i])
  <2> SUFFICES ASSUME NEW h, R(h)
               PROVE  h[0] = f /\ \A i \in 1..n : h[i] = Grown(h[i - 1], c, words[i])
    OBVIOUS
  <2>1. h = [i \in 0..n |-> IF i = 0 THEN f ELSE Grown(h[i - 1], c, words[i])]
    OBVIOUS
  <2>2. \A i \in 0..n : h[i] = IF i = 0 THEN f ELSE Grown(h[i - 1], c, words[i])
    BY <2>1
  <2>3. 0 \in 0..n /\ \A i \in 1..n : i \in 0..n /\ i # 0
    BY <1>1
  <2>4. h[0] = f
    BY <2>2, <2>3
  <2>5. \A i \in 1..n : h[i] = Grown(h[i - 1], c, words[i])
    BY <2>2, <2>3
  <2>6. QED
    BY <2>4, <2>5
<1> HIDE DEF R, grown
<1>9. grown[0] = f /\ \A i \in 1..n : grown[i] = Grown(grown[i - 1], c, words[i])
  BY <1>6, <1>8
<1>10. \A i \in 0..n : Good(grown[i])
  <2> DEFINE W == { m \in Nat : m <= n /\ ~Good(grown[m]) }
  <2>1. 0 \notin W
    BY <1>9
  <2>2. ASSUME NEW m \in Nat, m \notin W PROVE m + 1 \notin W
    <3>1. CASE m + 1 <= n
      <4>1. m + 1 \in 1..n /\ (m + 1) - 1 = m /\ Good(grown[m])
        BY <1>1, <2>2, <3>1
      <4>2. grown[m + 1] = Grown(grown[m], c, words[m + 1])
        BY <1>9, <4>1
      <4>3. Becomes(grown[m], Grown(grown[m], c, words[m + 1]), c, words[m + 1])
        BY <1>1, <4>1, ForestGrows
      <4>4. QED
        BY <4>2, <4>3 DEF Becomes
    <3>2. QED
      BY <3>1
  <2>3. W = {}
    <3> HIDE DEF W
    <3> QED BY <2>1, <2>2, NoLeast DEF W
  <2>4. QED
    BY <1>1, <2>3
<1>11. QED
  BY <1>7, <1>9, <1>10

(* Unless a root was replaced, the tree has the new versions that are not  *)
(* obsolete, and nothing else has changed.                                 *)
Spreads(f, g, c, W) ==
  /\ ToSet(g.order) = ToSet(f.order)
  /\ Elsewhere(f, g, c)
  /\ g.gen[c] = f.gen[c] /\ g.ver[c] = f.ver[c] /\ g.visible[c] = f.visible[c]
  /\ VersionsOn(g.levels[c]) \union {f.ver[c]} =
       VersionsOn(f.levels[c]) \union {f.ver[c]} \union { w \in W : ~Obsolete(f, c, w) }

(* A run of versions spreads a tree by just those, or renews it.           *)
LEMMA TreeSpreads ==
  ASSUME NEW f, Good(f), NEW c \in ToSet(f.order), NEW words \in Seq(Versions)
  PROVE  /\ Good(GrownBy(f, c, words))
         /\ \/ Spreads(f, GrownBy(f, c, words), c, ToSet(words))
            \/ GrownBy(f, c, words).gen[c] > f.gen[c]
<1> DEFINE n == Len(words)
           W(m) == { words[i] : i \in 1..m }
<1>0. c \in Components /\ n \in Nat /\ \A i \in 1..n : words[i] \in Versions
  BY ForestParts DEF ToSet
<1>1. PICK grown : /\ \A i \in 0..n : Good(grown[i])
                   /\ grown[0] = f
                   /\ \A i \in 1..n : grown[i] = Grown(grown[i - 1], c, words[i])
                   /\ GrownBy(f, c, words) = grown[n]
  BY <1>0, GrownByIs
<1>2. \A i \in 0..n : grown[i].gen[c] \in Nat /\ grown[i].ver[c] \in Versions
  BY <1>0, <1>1, ForestParts
<1> DEFINE T == { m \in Nat : m <= n /\ ~(Spreads(f, grown[m], c, W(m)) \/ grown[m].gen[c] > f.gen[c]) }
<1>3. 0 \notin T
  <2>1. W(0) = {}
    OBVIOUS
  <2>2. Spreads(f, f, c, {})
    BY DEF Spreads, Elsewhere
  <2>3. QED
    BY <1>1, <2>1, <2>2
<1>4. ASSUME NEW m \in Nat, m \notin T PROVE m + 1 \notin T
  <2> SUFFICES ASSUME m + 1 <= n
               PROVE  Spreads(f, grown[m + 1], c, W(m + 1)) \/ grown[m + 1].gen[c] > f.gen[c]
    OBVIOUS
  <2> DEFINE g == grown[m]
             h == grown[m + 1]
             w == words[m + 1]
  <2>1. /\ m + 1 \in 1..n /\ m \in 0..n /\ m + 1 \in 0..n /\ (m + 1) - 1 = m
        /\ Spreads(f, g, c, W(m)) \/ g.gen[c] > f.gen[c]
    BY <1>0, <1>4
  <2>2. Good(g) /\ h = Grown(g, c, w) /\ w \in Versions
    BY <1>0, <1>1, <2>1
  <2>3. Becomes(g, h, c, w)
    BY <1>0, <2>2, ForestGrows
  <2>4. /\ g.gen[c] \in Nat /\ h.gen[c] \in Nat /\ f.gen[c] \in Nat
        /\ f.ver[c] \in Versions
    BY <1>0, <1>1, <1>2, <2>1
  <2>5. W(m + 1) = W(m) \union {w}
    <3>1. \A i \in 1..m + 1 : i \in 1..m \/ i = m + 1
      OBVIOUS
    <3>2. QED
      BY <3>1
  <2> HIDE DEF W, g, h, w
  <2>6. CASE g.gen[c] > f.gen[c]
    <3>1. h.gen[c] >= g.gen[c]
      BY <2>3, <2>4 DEF Becomes, Replants, Extends
    <3>2. h.gen[c] > f.gen[c]
      BY <2>4, <2>6, <3>1
    <3>3. QED
      BY <3>2 DEF h
  <2>7. CASE Spreads(f, g, c, W(m)) /\ Replants(g, h, c, w)
    <3>1. h.gen[c] > f.gen[c]
      BY <2>4, <2>7 DEF Spreads, Replants
    <3>2. QED
      BY <3>1 DEF h
  <2>8. CASE Spreads(f, g, c, W(m)) /\ Obsolete(g, c, w) /\ h = g
    <3>1. Obsolete(f, c, w)
      BY <2>8 DEF Spreads, Obsolete
    <3>2. Spreads(f, h, c, W(m + 1))
      BY <2>5, <2>8, <3>1 DEF Spreads
    <3>3. QED
      BY <3>2 DEF h
  <2>9. CASE Spreads(f, g, c, W(m)) /\ Extends(g, h, c, w)
    <3>1. ~Obsolete(f, c, w)
      <4>1. f.ver[c][1] <= w[1]
        BY <2>9 DEF Spreads, Extends
      <4>2. QED
        BY <2>2, <2>4, <4>1, VersionsAre DEF Obsolete, Newer
    <3>2. ToSet(h.order) = ToSet(f.order)
      BY <2>3, <2>9 DEF Spreads, Becomes
    <3>3. Elsewhere(f, h, c)
      BY <2>3, <2>9 DEF Spreads, Becomes, Elsewhere
    <3>4. VersionsOn(h.levels[c]) \union {f.ver[c]} =
            VersionsOn(f.levels[c]) \union {f.ver[c]} \union { x \in W(m + 1) : ~Obsolete(f, c, x) }
      BY <2>5, <2>9, <3>1 DEF Spreads, Extends
    <3>5. Spreads(f, h, c, W(m + 1))
      BY <2>9, <3>2, <3>3, <3>4 DEF Spreads, Extends
    <3>6. QED
      BY <3>5 DEF h
  <2>10. QED
    BY <2>1, <2>3, <2>6, <2>7, <2>8, <2>9 DEF Becomes
<1>5. T = {}
  <2> HIDE DEF T
  <2> QED BY <1>3, <1>4, NoLeast DEF T
<1>6. Spreads(f, grown[n], c, W(n)) \/ grown[n].gen[c] > f.gen[c]
  <2>1. n \notin T
    BY <1>5
  <2> HIDE DEF W
  <2>2. QED
    BY <1>0, <2>1
<1>7. W(n) = ToSet(words)
  BY DEF ToSet
<1>8. Good(grown[n])
  BY <1>0, <1>1
<1>9. QED
  BY <1>1, <1>6, <1>7, <1>8

-----------------------------------------------------------------------------
(***************************************************************************)
(* What calculate_paths() trims leaves the rest in order.                  *)
(***************************************************************************)
LEMMA RowThins ==
  ASSUME NEW row, Row(row), NEW S
  PROVE  /\ Only(row, S) \in Seq(Versions)
         /\ ToSet(Only(row, S)) = ToSet(row) \cap S
         /\ Only(row, S) # << >> => /\ Row(Only(row, S))
                                    /\ Only(row, S)[1][1] = row[1][1]
<1> DEFINE r == Only(row, S)
<1>1. row \in Seq(Versions) /\ Len(row) \in Nat /\ \A i \in 1..Len(row) : row[i] \in Versions
  BY DEF Row
<1>2. /\ r \in Seq(Versions) /\ ToSet(r) = ToSet(row) \cap S
      /\ \E at : Thinned(r, row, S, Len(row), at)
  BY <1>1, OnlyThins, OnlyKeeps
<1>3. PICK at : Thinned(r, row, S, Len(row), at)
  BY <1>2
<1> HIDE DEF r
<1>4. /\ at \in [1..Len(r) -> 1..Len(row)] /\ Len(r) \in Nat
      /\ \A k \in 1..Len(r) : r[k] = row[at[k]] /\ at[k] \in 1..Len(row)
      /\ \A j, k \in 1..Len(r) : j < k => at[j] < at[k]
  <2>1. /\ at \in [1..Len(r) -> 1..Len(row)]
        /\ \A k \in 1..Len(r) : r[k] = row[at[k]]
        /\ \A j, k \in 1..Len(r) : j < k => at[j] < at[k]
    BY <1>3, SMTT(30) DEF Thinned
  <2>2. \A k \in 1..Len(r) : at[k] \in 1..Len(row)
    BY <2>1
  <2>3. Len(r) \in Nat
    BY <1>2
  <2>4. QED
    BY <2>1, <2>2, <2>3
<1>5. ASSUME r # << >> PROVE Row(r) /\ r[1][1] = row[1][1]
  <2>1. 1 \in 1..Len(r)
    BY <1>2, <1>5
  <2>2. \A k \in 1..Len(r) : r[k][1] = row[1][1]
    BY <1>4 DEF Row
  <2>3. \A j, k \in 1..Len(r) : j < k => r[j][2] < r[k][2]
    BY <1>4, SMTT(30) DEF Row
  <2>4. QED
    BY <1>2, <1>5, <2>1, <2>2, <2>3, SMTT(30) DEF Row
<1>6. QED
  BY <1>2, <1>5 DEF r

(* The nodes that have a path are left (patchset.c:756-801).               *)
LEMMA TreesThin ==
  ASSUME NEW f, Good(f), NEW paths
  PROVE  /\ Good(NodesTrimmed(f, paths))
         /\ NodesTrimmed(f, paths).order = f.order
         /\ NodesTrimmed(f, paths).ver = f.ver
         /\ NodesTrimmed(f, paths).gen = f.gen
         /\ NodesTrimmed(f, paths).visible = f.visible
         /\ \A c \in ToSet(f.order) :
              VersionsOn(NodesTrimmed(f, paths).levels[c]) =
                { v \in VersionsOn(f.levels[c]) : Node(f, c, v) \in DOMAIN paths }
<1> DEFINE rows(c) == [i \in 1..Len(f.levels[c]) |-> RowTrimmed(f, c, paths, f.levels[c][i])]
           new(c) == Only(rows(c), ToSet(rows(c)) \ {<< >>})
           g == NodesTrimmed(f, paths)
<1>1. /\ f.order \in Seq(Components) /\ f.ver \in [Components -> Versions]
      /\ f.gen \in [Components -> Nat] /\ f.visible \in [Components -> BOOLEAN]
      /\ f.levels \in [Components -> Seq(Seq(Versions))]
  BY ForestParts
<1>2. /\ g.order = f.order /\ g.ver = f.ver /\ g.gen = f.gen /\ g.visible = f.visible
      /\ g.levels = [c \in Components |-> new(c)]
      /\ g = [order |-> f.order, ver |-> f.ver, gen |-> f.gen, visible |-> f.visible,
              levels |-> [c \in Components |-> new(c)]]
  <2>1. f = [order |-> f.order, ver |-> f.ver, gen |-> f.gen, visible |-> f.visible,
             levels |-> f.levels]
    BY DEF Good, Forests
  <2>2. g = [f EXCEPT !.levels = [c \in Components |-> new(c)]]
    BY DEF NodesTrimmed
  <2> HIDE DEF g, new
  <2>3. QED
    BY <2>1, <2>2
<1> HIDE DEF g
<1>3. ASSUME NEW c \in Components
      PROVE  /\ rows(c) \in Seq(Seq(Versions)) /\ Len(rows(c)) = Len(f.levels[c])
             /\ \A i \in 1..Len(f.levels[c]) :
                  rows(c)[i] = RowTrimmed(f, c, paths, f.levels[c][i])
             /\ new(c) \in Seq(Seq(Versions))
             /\ \E at : Thinned(new(c), rows(c), ToSet(rows(c)) \ {<< >>}, Len(rows(c)), at)
  <2>1. f.levels[c] \in Seq(Seq(Versions)) /\ Len(f.levels[c]) \in Nat
    BY <1>1
  <2>2. \A i \in 1..Len(f.levels[c]) : RowTrimmed(f, c, paths, f.levels[c][i]) \in Seq(Versions)
    <3> SUFFICES ASSUME NEW i \in 1..Len(f.levels[c])
                 PROVE  RowTrimmed(f, c, paths, f.levels[c][i]) \in Seq(Versions)
      OBVIOUS
    <3>1. f.levels[c][i] \in Seq(Versions)
      BY <2>1
    <3>2. QED
      BY <3>1, OnlyThins DEF RowTrimmed
  <2>3. rows(c) \in Seq(Seq(Versions)) /\ Len(rows(c)) = Len(f.levels[c])
    BY <2>1, <2>2
  <2>4. \A i \in 1..Len(f.levels[c]) : rows(c)[i] = RowTrimmed(f, c, paths, f.levels[c][i])
    OBVIOUS
  <2>5. /\ Only(rows(c), ToSet(rows(c)) \ {<< >>}) \in Seq(Seq(Versions))
        /\ \E at : Thinned(Only(rows(c), ToSet(rows(c)) \ {<< >>}), rows(c),
                           ToSet(rows(c)) \ {<< >>}, Len(rows(c)), at)
    <3> HIDE DEF rows
    <3> QED BY <2>3, OnlyThins
  <2>6. QED
    BY <2>3, <2>4, <2>5
<1> HIDE DEF rows
<1>4. ASSUME NEW c \in ToSet(f.order)
      PROVE  /\ Above(new(c), f.ver[c])
             /\ VersionsOn(new(c)) =
                  { v \in VersionsOn(f.levels[c]) : Node(f, c, v) \in DOMAIN paths }
  <2>1. c \in Components
    BY <1>1 DEF ToSet
  <2> DEFINE L == f.levels[c]
             R == rows(c)
             N == new(c)
             S == ToSet(R) \ {<< >>}
             P == { v \in Versions : Node(f, c, v) \in DOMAIN paths }
  <2>2. PICK at : Thinned(N, R, S, Len(R), at)
    BY <1>3, <2>1
  <2>3. /\ R \in Seq(Seq(Versions)) /\ Len(R) = Len(L) /\ Len(L) \in Nat
        /\ N \in Seq(Seq(Versions)) /\ Len(N) \in Nat
    BY <1>1, <1>3, <2>1
  <2>4. Above(L, f.ver[c])
    BY DEF Good
  <2> HIDE DEF N
  <2>5. ASSUME NEW i \in 1..Len(L)
        PROVE  /\ ToSet(R[i]) = ToSet(L[i]) \cap P
               /\ R[i] # << >> => Row(R[i]) /\ R[i][1][1] = L[i][1][1]
    <3> DEFINE Z == { v \in ToSet(L[i]) : Node(f, c, v) \in DOMAIN paths }
    <3>1. R[i] = Only(L[i], Z)
      BY <1>3, <2>1 DEF RowTrimmed
    <3>2. Row(L[i])
      BY <2>4 DEF Above
    <3>3. ToSet(L[i]) \subseteq Versions
      BY <3>2 DEF Row, ToSet
    <3> HIDE DEF Z, R, L
    <3>4. /\ ToSet(R[i]) = ToSet(L[i]) \cap Z
          /\ R[i] # << >> => Row(R[i]) /\ R[i][1][1] = L[i][1][1]
      BY <3>1, <3>2, RowThins
    <3>5. ToSet(L[i]) \cap Z = ToSet(L[i]) \cap P
      BY <3>3 DEF Z
    <3>6. QED
      BY <3>4, <3>5
  <2>6. /\ \A k \in 1..Len(N) : /\ at[k] \in 1..Len(L) /\ N[k] = R[at[k]] /\ N[k] # << >>
        /\ \A j, k \in 1..Len(N) : j < k => at[j] < at[k]
        /\ \A i \in 1..Len(L) : R[i] # << >> => \E k \in 1..Len(N) : at[k] = i
    <3>1. \A i \in 1..Len(L) : R[i] \in ToSet(R)
      BY <2>3 DEF ToSet
    <3>2. QED
      BY <2>2, <2>3, <3>1 DEF Thinned
  <2>7. ASSUME NEW k \in 1..Len(N)
        PROVE  /\ Row(N[k]) /\ N[k][1][1] = L[at[k]][1][1]
               /\ f.ver[c][1] <= N[k][1][1] /\ f.ver[c] \notin ToSet(N[k])
    <3>1. at[k] \in 1..Len(L) /\ N[k] = R[at[k]] /\ N[k] # << >>
      BY <2>6
    <3>2. /\ Row(N[k]) /\ N[k][1][1] = L[at[k]][1][1] /\ ToSet(N[k]) \subseteq ToSet(L[at[k]])
      BY <2>5, <3>1
    <3>3. f.ver[c][1] <= L[at[k]][1][1] /\ f.ver[c] \notin ToSet(L[at[k]])
      BY <2>4, <3>1 DEF Above
    <3>4. QED
      BY <3>2, <3>3
  <2>8. \A j, k \in 1..Len(N) : j < k => N[j][1][1] < N[k][1][1]
    <3> SUFFICES ASSUME NEW j \in 1..Len(N), NEW k \in 1..Len(N), j < k
                 PROVE  N[j][1][1] < N[k][1][1]
      OBVIOUS
    <3>1. at[j] \in 1..Len(L) /\ at[k] \in 1..Len(L) /\ at[j] < at[k]
      BY <2>6
    <3>2. L[at[j]][1][1] < L[at[k]][1][1]
      BY <2>4, <3>1 DEF Above
    <3>3. QED
      BY <2>7, <3>2
  <2>9. Above(N, f.ver[c])
    BY <2>3, <2>7, <2>8 DEF Above
  <2>10. VersionsOn(N) = { v \in VersionsOn(L) : Node(f, c, v) \in DOMAIN paths }
    <3>1. ASSUME NEW v \in VersionsOn(N)
          PROVE  v \in VersionsOn(L) /\ Node(f, c, v) \in DOMAIN paths
      <4>1. PICK k \in 1..Len(N) : v \in ToSet(N[k])
        BY DEF VersionsOn
      <4>2. at[k] \in 1..Len(L) /\ N[k] = R[at[k]]
        BY <2>6
      <4>3. v \in ToSet(L[at[k]]) \cap P
        BY <2>5, <4>1, <4>2
      <4>4. QED
        BY <4>2, <4>3 DEF VersionsOn
    <3>2. ASSUME NEW v \in VersionsOn(L), Node(f, c, v) \in DOMAIN paths
          PROVE  v \in VersionsOn(N)
      <4>1. PICK i \in 1..Len(L) : v \in ToSet(L[i])
        BY DEF VersionsOn
      <4>2. v \in Versions
        <5>1. Row(L[i])
          BY <2>4, <4>1 DEF Above
        <5>2. QED
          BY <4>1, <5>1 DEF Row, ToSet
      <4>3. v \in ToSet(R[i])
        BY <2>5, <3>2, <4>1, <4>2
      <4>4. R[i] # << >>
        BY <4>3 DEF ToSet
      <4>5. PICK k \in 1..Len(N) : at[k] = i
        BY <2>6, <4>4
      <4>6. N[k] = R[i]
        BY <2>6, <4>5
      <4>7. QED
        BY <4>3, <4>6 DEF VersionsOn
    <3>3. QED
      BY <3>1, <3>2
  <2>11. QED
    BY <2>9, <2>10 DEF N
<1>5. g \in Forests
  <2>1. \A c \in Components : new(c) \in Seq(Seq(Versions))
    BY <1>3
  <2> HIDE DEF new
  <2>2. [c \in Components |-> new(c)] \in [Components -> Seq(Seq(Versions))]
    BY <2>1
  <2>3. QED
    BY <1>1, <1>2, <2>2 DEF Forests
<1>6. \A c \in ToSet(f.order) : c \in Components /\ g.levels[c] = new(c)
  <2>1. ToSet(f.order) \subseteq Components
    BY <1>1 DEF ToSet
  <2> HIDE DEF new
  <2>2. QED
    BY <1>2, <2>1
<1> HIDE DEF new
<1>7. Good(g)
  BY <1>2, <1>4, <1>5, <1>6 DEF Good
<1>8. \A c \in ToSet(f.order) :
        VersionsOn(g.levels[c]) = { v \in VersionsOn(f.levels[c]) : Node(f, c, v) \in DOMAIN paths }
  BY <1>4, <1>6
<1>9. QED
  BY <1>2, <1>7, <1>8 DEF g

(* The roots of what is not installed and has no base update are not       *)
(* (patchset.c:714-754).                                                   *)
LEMMA RootsThin ==
  ASSUME NEW f, Good(f)
  PROVE  /\ Good(RootsTrimmed(f))
         /\ ToSet(RootsTrimmed(f).order) =
              { c \in ToSet(f.order) : ~f.visible[c] \/ base[c] # 0 }
         /\ RootsTrimmed(f).ver = f.ver
         /\ RootsTrimmed(f).gen = f.gen
         /\ RootsTrimmed(f).visible = f.visible
         /\ RootsTrimmed(f).levels = f.levels
<1> DEFINE S == { c \in Components : ~f.visible[c] \/ base[c] # 0 }
           o == Only(f.order, S)
           g == RootsTrimmed(f)
<1>1. /\ f.order \in Seq(Components) /\ Main \in DOMAIN Installed /\ Main \in Components
      /\ f.order # << >> /\ f.order[1] = Main
      /\ \A i, j \in 1..Len(f.order) : f.order[i] = f.order[j] => i = j
  BY ForestParts, PatchSetAssumption DEF Good
<1>2. /\ g.order = o /\ g.ver = f.ver /\ g.gen = f.gen /\ g.visible = f.visible
      /\ g.levels = f.levels
      /\ g = [order |-> o, ver |-> f.ver, gen |-> f.gen, visible |-> f.visible,
              levels |-> f.levels]
  <2>1. f = [order |-> f.order, ver |-> f.ver, gen |-> f.gen, visible |-> f.visible,
             levels |-> f.levels]
    BY DEF Good, Forests
  <2>2. g = [f EXCEPT !.order = o]
    BY DEF RootsTrimmed
  <2> HIDE DEF g, o
  <2>3. QED
    BY <2>1, <2>2
<1>3. /\ o \in Seq(Components) /\ ToSet(o) = ToSet(f.order) \cap S
      /\ \E at : Thinned(o, f.order, S, Len(f.order), at)
  BY <1>1, OnlyThins, OnlyKeeps
<1>4. PICK at : Thinned(o, f.order, S, Len(f.order), at)
  BY <1>3
<1> HIDE DEF o, g
<1>5. /\ at \in [1..Len(o) -> 1..Len(f.order)] /\ Len(o) \in Nat
      /\ \A k \in 1..Len(o) : o[k] = f.order[at[k]] /\ at[k] \in 1..Len(f.order)
      /\ \A j, k \in 1..Len(o) : j < k => at[j] < at[k]
      /\ \A i \in 1..Len(f.order) : f.order[i] \in S => \E k \in 1..Len(o) : at[k] = i
  BY <1>3, <1>4 DEF Thinned
<1>6. o # << >> /\ o[1] = Main
  <2>1. Main \in S /\ 1 \in 1..Len(f.order)
    BY <1>1 DEF Good
  <2>2. PICK k \in 1..Len(o) : at[k] = 1
    BY <1>1, <1>5, <2>1
  <2>3. k = 1
    <3>1. CASE k # 1
      <4>1. 1 \in 1..Len(o) /\ 1 < k
        BY <1>5, <3>1
      <4>2. at[1] < at[k] /\ at[1] \in 1..Len(f.order)
        BY <1>5, <4>1
      <4>3. QED
        BY <2>2, <4>2
    <3>2. QED
      BY <3>1
  <2>4. QED
    BY <1>1, <1>5, <2>2, <2>3
<1>7. \A i, j \in 1..Len(o) : o[i] = o[j] => i = j
  <2> SUFFICES ASSUME NEW i \in 1..Len(o), NEW j \in 1..Len(o), i < j PROVE o[i] # o[j]
    BY <1>5
  <2>1. at[i] < at[j] /\ at[i] \in 1..Len(f.order) /\ at[j] \in 1..Len(f.order)
    BY <1>5
  <2>2. f.order[at[i]] # f.order[at[j]]
    BY <1>1, <2>1
  <2>3. QED
    BY <1>5, <2>2
<1>8. ToSet(f.order) \subseteq Components /\ DOMAIN Installed \subseteq Components
  BY <1>1, ForestParts DEF ToSet
<1>9. g \in Forests
  BY <1>2, <1>3, ForestParts DEF Forests
<1>10. \A c \in DOMAIN Installed : c \in ToSet(o)
  BY <1>3, <1>8 DEF Good
<1>11. ToSet(o) \subseteq ToSet(f.order)
  BY <1>3
<1>12. Good(g)
  BY <1>2, <1>6, <1>7, <1>9, <1>10, <1>11 DEF Good
<1>13. ToSet(o) = { c \in ToSet(f.order) : ~f.visible[c] \/ base[c] # 0 }
  BY <1>3, <1>8
<1>14. QED
  BY <1>2, <1>12, <1>13 DEF g

-----------------------------------------------------------------------------
(***************************************************************************)
(* The forest is in order from the first entry of the list to the end.     *)
(***************************************************************************)
LEMMA EntryParts ==
  ASSUME NEW e \in Entries
  PROVE  /\ e.comp \in Components /\ e.ver \in Versions
         /\ e.applies \in Seq(Versions) /\ e.applies # << >> /\ e.size[1] \in Nat
BY PatchSetAssumption

(* The roots of the installed components are a good forest.                *)
LEMMA ForestStarts ==
  ASSUME Init
  PROVE  /\ Good(forest) /\ ToSet(forest.order) \subseteq DOMAIN Installed
         /\ \A c \in Components : forest.levels[c] = << >>
<1> DEFINE S == DOMAIN Installed \ {Main}
           n == Cardinality(S)
<1>1. PICK others \in SetToSeqs(S) : forest = InstalledForest(others)
  BY DEF Init
<1>2. S \subseteq Components /\ IsFiniteSet(S) /\ Main \in DOMAIN Installed
      /\ DOMAIN Installed \subseteq Components /\ Main \in Components
  <2>1. S \subseteq DOMAIN Installed
    OBVIOUS
  <2>2. QED
    BY <2>1, FS_Subset, PatchSetAssumption
<1>3. n \in Nat /\ IsFiniteSet(1..n) /\ Cardinality(1..n) = n
  <2>1. n \in Nat
    BY <1>2, FS_CardinalityType
  <2> HIDE DEF n
  <2>2. QED
    BY <2>1, FS_Interval
<1>4. others \in [1..n -> S] /\ \A i, j \in 1..n : i # j => others[i] # others[j]
  BY DEF SetToSeqs
<1>5. others \in Injection(1..n, S)
  BY <1>4 DEF Injection, IsInjective
<1>6. others \in Surjection(1..n, S)
  BY <1>2, <1>3, <1>5, FS_Injection
<1>7. \A c \in S : \E i \in 1..n : others[i] = c
  BY <1>6 DEF Surjection
<1> HIDE DEF n
<1> DEFINE order == <<Main>> \o others
<1>8. others \in Seq(Components) /\ Len(others) = n
  BY <1>2, <1>3, <1>4
<1>9. /\ order \in Seq(Components) /\ Len(order) = n + 1
      /\ order[1] = Main
      /\ \A k \in 1..n : order[k + 1] = others[k]
  <2>1. <<Main>> \in Seq(Components) /\ Len(<<Main>>) = 1 /\ <<Main>>[1] = Main
    BY <1>2
  <2>2. /\ order \in Seq(Components) /\ Len(order) = 1 + n
        /\ \A i \in 1..1 + n : order[i] = IF i <= 1 THEN <<Main>>[i] ELSE others[i - 1]
    BY <1>8, <2>1, ConcatProperties
  <2> HIDE DEF order
  <2>3. order[1] = Main
    BY <1>3, <2>1, <2>2
  <2>4. \A k \in 1..n : order[k + 1] = others[k]
    <3> SUFFICES ASSUME NEW k \in 1..n PROVE order[k + 1] = others[k]
      OBVIOUS
    <3>1. k + 1 \in 1..1 + n /\ ~(k + 1 <= 1) /\ (k + 1) - 1 = k
      BY <1>3
    <3>2. QED
      BY <2>2, <3>1
  <2>5. QED
    BY <1>3, <2>2, <2>3, <2>4
<1>10. /\ forest.order = order
       /\ forest.ver = [c \in Components |->
                          IF c \in DOMAIN Installed THEN Installed[c] ELSE <<0, 0>>]
       /\ forest.gen = [c \in Components |-> 0]
       /\ forest.visible = [c \in Components |-> FALSE]
       /\ forest.levels = [c \in Components |-> << >>]
       /\ forest = [order |-> forest.order, ver |-> forest.ver, gen |-> forest.gen,
                    visible |-> forest.visible, levels |-> forest.levels]
  BY <1>1 DEF InstalledForest
<1> HIDE DEF order
<1>11. \A k \in 1..n + 1 : k = 1 \/ (k - 1 \in 1..n /\ order[k] = others[k - 1])
  <2> SUFFICES ASSUME NEW k \in 1..n + 1, k # 1
               PROVE  k - 1 \in 1..n /\ order[k] = others[k - 1]
    OBVIOUS
  <2>1. k - 1 \in 1..n /\ (k - 1) + 1 = k
    BY <1>3
  <2>2. QED
    BY <1>9, <2>1
<1>12. \A i, j \in 1..n + 1 : order[i] = order[j] => i = j
  <2> SUFFICES ASSUME NEW i \in 1..n + 1, NEW j \in 1..n + 1, i < j PROVE order[i] # order[j]
    BY <1>3
  <2>1. j - 1 \in 1..n /\ order[j] = others[j - 1] /\ others[j - 1] \in S
    BY <1>3, <1>4, <1>11
  <2>2. CASE i = 1
    BY <1>9, <2>1, <2>2
  <2>3. CASE i # 1
    <3>1. i - 1 \in 1..n /\ order[i] = others[i - 1] /\ i - 1 # j - 1
      BY <1>3, <1>11, <2>1, <2>3
    <3>2. QED
      BY <1>4, <2>1, <3>1
  <2>4. QED
    BY <2>2, <2>3
<1>13. \A c \in DOMAIN Installed : c \in ToSet(order)
  <2> SUFFICES ASSUME NEW c \in DOMAIN Installed PROVE \E k \in 1..n + 1 : order[k] = c
    BY <1>9 DEF ToSet
  <2>1. CASE c = Main
    <3>1. 1 \in 1..n + 1
      BY <1>3
    <3>2. QED
      BY <1>9, <2>1, <3>1
  <2>2. CASE c # Main
    <3>1. PICK i \in 1..n : others[i] = c
      BY <1>7, <2>2
    <3>2. i + 1 \in 1..n + 1
      BY <1>3
    <3>3. QED
      BY <1>9, <3>1, <3>2
  <2>3. QED
    BY <2>1, <2>2
<1>14. \A c \in ToSet(order) : c \in DOMAIN Installed
  <2> SUFFICES ASSUME NEW k \in 1..n + 1 PROVE order[k] \in DOMAIN Installed
    BY <1>9 DEF ToSet
  <2>1. QED
    BY <1>2, <1>4, <1>9, <1>11
<1>15. forest \in Forests
  <2>1. /\ forest.order \in Seq(Components) /\ forest.gen \in [Components -> Nat]
        /\ forest.visible \in [Components -> BOOLEAN]
    BY <1>9, <1>10
  <2>2. forest.ver \in [Components -> Versions]
    <3>1. \A c \in DOMAIN Installed : Installed[c] \in Versions
      BY PatchSetAssumption
    <3>2. <<0, 0>> \in Versions
      BY DEF Versions
    <3>3. QED
      BY <1>10, <3>1, <3>2
  <2>3. forest.levels \in [Components -> Seq(Seq(Versions))]
    <3>1. << >> \in Seq(Seq(Versions))
      OBVIOUS
    <3>2. QED
      BY <1>10, <3>1
  <2>4. QED
    BY <1>10, <2>1, <2>2, <2>3 DEF Forests
<1>16. \A c \in ToSet(forest.order) : Above(forest.levels[c], forest.ver[c])
  <2> SUFFICES ASSUME NEW c \in ToSet(forest.order) PROVE Above(forest.levels[c], forest.ver[c])
    OBVIOUS
  <2>1. forest.levels[c] = << >>
    BY <1>2, <1>10, <1>14
  <2>2. << >> \in Seq(Seq(Versions)) /\ Len(<< >>) = 0
    OBVIOUS
  <2>3. QED
    BY <2>1, <2>2 DEF Above
<1>17. order # << >>
  BY <1>3, <1>9
<1>18. \A c \in DOMAIN Installed : /\ c \in ToSet(forest.order)
                                   /\ forest.ver[c] = Installed[c] /\ ~forest.visible[c]
  BY <1>2, <1>10, <1>13
<1>19. Good(forest)
  BY <1>9, <1>10, <1>12, <1>14, <1>15, <1>16, <1>17, <1>18 DEF Good
<1>20. QED
  BY <1>10, <1>14, <1>19

(* An entry of the update list leaves a good forest.                       *)
LEMMA EntryGrows ==
  ASSUME Good(forest), NEW e \in Entries, AddPatch(e)
  PROVE  Good(forest')
<1> DEFINE f == Grown(forest, e.comp, e.ver)
<1>1. e.comp \in Components /\ e.ver \in Versions /\ e.applies \in Seq(Versions)
  BY EntryParts
<1>2. Becomes(forest, f, e.comp, e.ver)
  BY <1>1, ForestGrows
<1> HIDE DEF f
<1>3. Good(f)
  BY <1>2 DEF Becomes
<1>4. CASE UNCHANGED forest
  BY <1>4
<1>5. CASE AddBase(f, e)
  BY <1>3, <1>5 DEF AddBase
<1>6. CASE AddUpgrade(f, e)
  <2>1. e.comp \in ToSet(f.order)
    BY <1>2 DEF Becomes
  <2>2. Good(GrownBy(f, e.comp, e.applies))
    BY <1>1, <1>3, <2>1, TreeSpreads
  <2>3. QED
    BY <1>6, <2>2 DEF AddUpgrade
<1>7. QED
  BY <1>4, <1>5, <1>6 DEF AddPatch, f

(* calculate_paths() trims roots and nodes, not the order of the rest.     *)
LEMMA LoadTrims ==
  ASSUME Good(forest), LoadDone
  PROVE  Good(forest')
<1>1. CASE CalculatePaths
  <2> DEFINE f == RootsTrimmed(forest)
  <2>1. Good(f)
    BY RootsThin
  <2>2. Good(NodesTrimmed(f, AllPaths(f)))
    <3> HIDE DEF f
    <3> QED BY <2>1, TreesThin
  <2>3. QED
    BY <1>1, <2>2 DEF CalculatePaths
<1>2. CASE UNCHANGED forest
  BY <1>2
<1>3. QED
  BY <1>1, <1>2 DEF LoadDone

(* No later step touches the forest.                                       *)
LEMMA ForestStays ==
  ASSUME Good(forest), [Next]_vars
  PROVE  Good(forest')
<1>1. CASE \E e \in Entries : AddPatch(e)
  BY <1>1, EntryGrows
<1>2. CASE LoadDone
  BY <1>2, LoadTrims
<1>3. CASE \E n \in Offered : Tick(n) \/ Untick(n) \/ CleanupUpdate(n)
  BY <1>3 DEF Tick, Untick, CleanupUpdate
<1>4. CASE Proceed
  BY <1>4 DEF Proceed
<1>5. CASE UNCHANGED vars
  BY <1>5 DEF vars
<1>6. QED
  BY <1>1, <1>2, <1>3, <1>4, <1>5 DEF Next

(* A good forest is an ordered one.                                        *)
LEMMA GoodIsOrdered ==
  ASSUME Good(forest)
  PROVE  TreeOrdered
<1> SUFFICES ASSUME NEW c \in ToSet(forest.order)
             PROVE  LET levels == forest.levels[c]
    IN  /\ \A i \in DOMAIN levels : \A j, k \in DOMAIN levels[i] :
             levels[i][j][1] = levels[i][k][1] /\ (j < k => levels[i][j][2] < levels[i][k][2])
        /\ \A i, j \in DOMAIN levels : i < j => Newer(levels[j][1], levels[i][1])
        /\ \A i \in DOMAIN levels :
             ~Newer(forest.ver[c], levels[i][1]) /\ forest.ver[c] \notin ToSet(levels[i])
  BY DEF TreeOrdered
<1> DEFINE L == forest.levels[c]
<1>1. Above(L, forest.ver[c]) /\ c \in Components
  <2>1. Above(L, forest.ver[c])
    BY DEF Good
  <2>2. forest.order \in Seq(Components)
    BY ForestParts
  <2>3. QED
    BY <2>1, <2>2 DEF ToSet
<1>2. forest.ver[c] \in Versions /\ forest.ver[c][1] \in Nat
  BY <1>1, ForestParts, VersionsAre
<1> HIDE DEF L
<1>3. DOMAIN L = 1..Len(L) /\ Len(L) \in Nat
  BY <1>1 DEF Above
<1>4. ASSUME NEW i \in 1..Len(L)
      PROVE  /\ DOMAIN L[i] = 1..Len(L[i])
             /\ \A j, k \in 1..Len(L[i]) :
                  L[i][j][1] = L[i][k][1] /\ (j < k => L[i][j][2] < L[i][k][2])
             /\ L[i][1] \in Versions /\ L[i][1][1] \in Nat
             /\ forest.ver[c][1] <= L[i][1][1] /\ forest.ver[c] \notin ToSet(L[i])
  <2>1. Row(L[i]) /\ forest.ver[c][1] <= L[i][1][1] /\ forest.ver[c] \notin ToSet(L[i])
    BY <1>1 DEF Above
  <2>2. L[i][1] \in Versions
    BY <2>1 DEF Row
  <2>3. QED
    BY <2>1, <2>2, VersionsAre DEF Row
<1>5. \A i, j \in 1..Len(L) : i < j => L[i][1][1] < L[j][1][1]
  BY <1>1 DEF Above
<1>6. \A i, j \in 1..Len(L) : i < j => Newer(L[j][1], L[i][1])
  BY <1>4, <1>5 DEF Newer
<1>7. \A i \in 1..Len(L) : ~Newer(forest.ver[c], L[i][1])
  BY <1>2, <1>4 DEF Newer
<1>8. QED
  BY <1>3, <1>4, <1>6, <1>7 DEF L

(* The tree of a component is in order, in whatever order the versions of  *)
(* any list are asked for, and stays in order when it is trimmed           *)
(* (patchset.c:143-269, 722-784).                                          *)
THEOREM TreesAreOrdered == Spec => []TreeOrdered
<1>1. Init => Good(forest)
  BY ForestStarts
<1>2. Good(forest) /\ [Next]_vars => Good(forest)'
  <2> SUFFICES ASSUME Good(forest), [Next]_vars PROVE Good(forest)'
    OBVIOUS
  <2>1. Good(forest')
    BY ForestStays
  <2>2. QED
    BY <2>1
<1>3. Good(forest) => TreeOrdered
  BY GoodIsOrdered
<1>4. QED
  BY <1>1, <1>2, <1>3, PTL DEF Spec

-----------------------------------------------------------------------------
(***************************************************************************)
(* While the list is read: every patch fits its entry, and those of the    *)
(* trees that stand are known.                                             *)
(***************************************************************************)
NodeRecords == [comp : Components, gen : Nat, ver : Versions]

PatchRecords ==
  [id : Nat, node : NodeRecords, size : Nat, refcount : Nat, apply : Seq(NodeRecords)]

Has(f, c) == VersionsOn(f.levels[c]) \union {f.ver[c]}

Satisfied(e) == ~Newer(e.applies[1], Installed[Main])

Links(f, c, e) == { w \in ToSet(e.applies) : ~Newer(f.ver[c], w) /\ Legal(w, e.ver) }

Fits(p, f, ls) ==
  /\ p \in PatchRecords /\ p.id \in 1..Len(ls)
  /\ p.node.comp = ls[p.id].comp /\ p.node.ver = ls[p.id].ver
  /\ p.size = SizeK(ls[p.id].size)
  /\ p.node.gen <= f.gen[p.node.comp]
  /\ \A n \in ToSet(p.apply) : n.comp = p.node.comp /\ n.gen = p.node.gen

IsBase(p, f, c) == f.visible[c] /\ p.node.ver = f.ver[c]

Stands(p, f, c, e) ==
  /\ c \in ToSet(f.order) /\ p.node.ver \in Has(f, c)
  /\ IsBase(p, f, c) => /\ p.apply = << >>
                        /\ p.refcount = IF Satisfied(e) THEN 1 ELSE 0
  /\ ~IsBase(p, f, c) => /\ p.refcount = 0 /\ Links(f, c, e) \subseteq Has(f, c)
                         /\ \A w \in Versions :
                              Node(f, c, w) \in ToSet(p.apply) <=> w \in Links(f, c, e)

FitsNow(p, f, ls) ==
  p.node.gen = f.gen[p.node.comp] => Stands(p, f, p.node.comp, ls[p.id])

EntriesIn(ls, c) == { k \in 1..Len(ls) : ls[k].comp = c }

Shown(k, f, c, ps) ==
  \E p \in ToSet(ps) : p.id = k /\ p.node.comp = c /\ p.node.gen = f.gen[c]

(* Of an installed component, what is not older; of another, what was      *)
(* listed since its root was, the first of its version and the oldest.     *)
Since(low, f, c, ps, ls, b) ==
  /\ low \in EntriesIn(ls, c) /\ f.ver[c] = ls[low].ver
  /\ \A k \in EntriesIn(ls, c) : /\ f.ver[c][1] <= ls[k].ver[1]
                                 /\ k < low => f.ver[c][1] < ls[k].ver[1]
                                 /\ Shown(k, f, c, ps) <=> k >= low
  /\ b[c] = 0 => \A k \in EntriesIn(ls, c) : ls[k].ver = f.ver[c] => ~Satisfied(ls[k])
  /\ b[c] # 0 => b[c] \in EntriesIn(ls, c) /\ ls[b[c]].ver = f.ver[c] /\ Satisfied(ls[b[c]])

Tracks(f, c, ps, ls, b) ==
  IF c \in DOMAIN Installed
  THEN /\ b[c] = 0
       /\ \A k \in EntriesIn(ls, c) : Shown(k, f, c, ps) <=> ~Newer(f.ver[c], ls[k].ver)
  ELSE IF c \in ToSet(f.order)
  THEN \E low \in Nat : Since(low, f, c, ps, ls, b)
  ELSE EntriesIn(ls, c) = {} /\ b[c] = 0 /\ f.levels[c] = << >>

Matches(f, ps, ls, b) ==
  /\ Good(f) /\ ls \in Seq(Entries) /\ ps \in Seq(PatchRecords)
  /\ b \in [Components -> Nat]
  /\ \A p \in ToSet(ps) : Fits(p, f, ls) /\ FitsNow(p, f, ls)
  /\ \A p, q \in ToSet(ps) : p.id = q.id => p = q
  /\ \A c \in Components : Tracks(f, c, ps, ls, b)

(* A forest in which nothing was replaced.                                 *)
Grows(f, g, c) ==
  /\ Good(g) /\ c \in ToSet(f.order) /\ ToSet(g.order) = ToSet(f.order)
  /\ Elsewhere(f, g, c)
  /\ g.gen[c] = f.gen[c] /\ g.ver[c] = f.ver[c] /\ g.visible[c] = f.visible[c]
  /\ Has(f, c) \subseteq Has(g, c)

(* A forest in which one root was.                                         *)
Renews(f, g, c) ==
  /\ Good(g) /\ ToSet(g.order) = ToSet(f.order) \union {c}
  /\ Elsewhere(f, g, c)
  /\ f.gen[c] < g.gen[c]

(* One entry more in the list.                                             *)
LEMMA ListGrows ==
  ASSUME NEW ls \in Seq(Entries), NEW e \in Entries
  PROVE  /\ Append(ls, e) \in Seq(Entries) /\ Len(Append(ls, e)) = Len(ls) + 1
         /\ Len(ls) \in Nat
         /\ \A k \in 1..Len(ls) : Append(ls, e)[k] = ls[k]
         /\ Append(ls, e)[Len(ls) + 1] = e
         /\ \A c : EntriesIn(Append(ls, e), c) =
                     EntriesIn(ls, c) \union (IF c = e.comp THEN {Len(ls) + 1} ELSE {})
<1> DEFINE n == Len(ls)
           l == Append(ls, e)
<1>1. /\ l \in Seq(Entries) /\ Len(l) = n + 1 /\ n \in Nat
      /\ (\A k \in 1..n : l[k] = ls[k]) /\ l[n + 1] = e
  BY AppendProperties
<1> HIDE DEF l
<1>2. ASSUME NEW c
      PROVE  EntriesIn(l, c) = EntriesIn(ls, c) \union (IF c = e.comp THEN {n + 1} ELSE {})
  <2>1. \A k \in 1..n + 1 : k \in 1..n \/ k = n + 1
    BY <1>1
  <2>2. 1..n \subseteq 1..n + 1 /\ n + 1 \in 1..n + 1
    BY <1>1
  <2> HIDE DEF n
  <2>3. QED
    BY <1>1, <2>1, <2>2 DEF EntriesIn, n
<1>3. QED
  BY <1>1, <1>2 DEF l

(* A patch still fits its entry when the forest and the list have grown.   *)
LEMMA PatchStays ==
  ASSUME NEW f, Good(f), NEW g, NEW c \in Components, Grows(f, g, c) \/ Renews(f, g, c),
         NEW ls \in Seq(Entries), NEW e \in Entries,
         NEW p, Fits(p, f, ls), FitsNow(p, f, ls)
  PROVE  Fits(p, g, Append(ls, e)) /\ FitsNow(p, g, Append(ls, e))
<1> DEFINE l == Append(ls, e)
           d == p.node.comp
<1>1. /\ Len(l) = Len(ls) + 1 /\ Len(ls) \in Nat /\ \A k \in 1..Len(ls) : l[k] = ls[k]
  BY ListGrows
<1> HIDE DEF l
<1>2. /\ p.id \in 1..Len(l) /\ l[p.id] = ls[p.id] /\ d \in Components /\ p.node.gen \in Nat
      /\ p.node.ver \in Versions
  <2>1. p \in PatchRecords /\ p.id \in 1..Len(ls)
    BY DEF Fits
  <2>2. p.node \in NodeRecords
    BY <2>1 DEF PatchRecords
  <2>3. QED
    BY <1>1, <2>1, <2>2 DEF NodeRecords
<1>3. f.gen[d] \in Nat /\ g.gen[d] \in Nat
  <2>1. Good(g)
    BY DEF Grows, Renews
  <2>2. QED
    BY <1>2, <2>1, ForestParts
<1>4. f.gen[d] <= g.gen[d]
  BY <1>2, <1>3 DEF Grows, Renews, Elsewhere
<1>5. Fits(p, g, l)
  <2>1. p.node.gen <= g.gen[d]
    BY <1>2, <1>3, <1>4 DEF Fits
  <2>2. QED
    BY <1>2, <2>1 DEF Fits
<1>6. ASSUME p.node.gen = g.gen[d] PROVE Stands(p, g, d, ls[p.id])
  <2>1. p.node.gen = f.gen[d] /\ p.node.gen <= f.gen[d]
    BY <1>2, <1>3, <1>4, <1>6 DEF Fits
  <2>2. Stands(p, f, d, ls[p.id])
    BY <2>1 DEF FitsNow
  <2>3. /\ g.gen[d] = f.gen[d] /\ g.ver[d] = f.ver[d] /\ g.visible[d] = f.visible[d]
        /\ Has(f, d) \subseteq Has(g, d) /\ ToSet(f.order) \subseteq ToSet(g.order)
    <3>1. CASE d # c
      BY <1>2, <3>1 DEF Grows, Renews, Elsewhere, Has
    <3>2. CASE d = c
      <4>1. ~(f.gen[d] < g.gen[d])
        BY <1>3, <1>6, <2>1
      <4> HIDE DEF d
      <4>2. ~(f.gen[c] < g.gen[c])
        BY <3>2, <4>1
      <4>3. Grows(f, g, c)
        BY <4>2 DEF Renews
      <4>4. QED
        BY <3>2, <4>3 DEF Grows
    <3>3. QED
      BY <3>1, <3>2
  <2>4. IsBase(p, g, d) <=> IsBase(p, f, d)
    BY <2>3 DEF IsBase
  <2>5. Links(g, d, ls[p.id]) = Links(f, d, ls[p.id])
    BY <2>3 DEF Links
  <2>6. \A w \in Versions : Node(g, d, w) = Node(f, d, w)
    BY <2>3 DEF Node
  <2> HIDE DEF d
  <2>7. d \in ToSet(g.order) /\ p.node.ver \in Has(g, d)
    BY <2>2, <2>3 DEF Stands
  <2>8. QED
    BY <2>2, <2>3, <2>4, <2>5, <2>6, <2>7 DEF Stands
<1>7. QED
  BY <1>2, <1>5, <1>6 DEF FitsNow, l

(* The other components keep what they have.                               *)
LEMMA OthersStay ==
  ASSUME NEW f, NEW g, NEW c \in Components, Grows(f, g, c) \/ Renews(f, g, c) \/ g = f,
         NEW ls \in Seq(Entries), NEW e \in Entries, e.comp = c,
         NEW ps, NEW qs, NEW b, NEW b2,
         \A p \in ToSet(qs) : p \in ToSet(ps) \/ p.node.comp = c,
         ToSet(ps) \subseteq ToSet(qs),
         NEW d \in Components, d # c, b2[d] = b[d], Tracks(f, d, ps, ls, b)
  PROVE  Tracks(g, d, qs, Append(ls, e), b2)
<1> DEFINE l == Append(ls, e)
<1>1. /\ EntriesIn(l, d) = EntriesIn(ls, d)
      /\ \A k \in EntriesIn(ls, d) : l[k] = ls[k]
  BY ListGrows DEF EntriesIn
<1> HIDE DEF l
<1>2. /\ g.gen[d] = f.gen[d] /\ g.ver[d] = f.ver[d] /\ g.levels[d] = f.levels[d]
      /\ d \in ToSet(g.order) <=> d \in ToSet(f.order)
  BY DEF Grows, Renews, Elsewhere
<1>3. \A k : Shown(k, g, d, qs) <=> Shown(k, f, d, ps)
  BY <1>2 DEF Shown
<1>4. \A low \in Nat : Since(low, f, d, ps, ls, b) => Since(low, g, d, qs, l, b2)
  <2> SUFFICES ASSUME NEW low \in Nat, Since(low, f, d, ps, ls, b)
               PROVE  Since(low, g, d, qs, l, b2)
    OBVIOUS
  <2>1. low \in EntriesIn(l, d) /\ g.ver[d] = l[low].ver
    BY <1>1, <1>2 DEF Since
  <2>2. \A k \in EntriesIn(l, d) : /\ g.ver[d][1] <= l[k].ver[1]
                                   /\ k < low => g.ver[d][1] < l[k].ver[1]
                                   /\ Shown(k, g, d, qs) <=> k >= low
    BY <1>1, <1>2, <1>3 DEF Since
  <2>3. b2[d] = 0 => \A k \in EntriesIn(l, d) : l[k].ver = g.ver[d] => ~Satisfied(l[k])
    BY <1>1, <1>2 DEF Since
  <2>4. b2[d] # 0 => b2[d] \in EntriesIn(l, d) /\ l[b2[d]].ver = g.ver[d] /\ Satisfied(l[b2[d]])
    BY <1>1, <1>2 DEF Since
  <2>5. QED
    BY <2>1, <2>2, <2>3, <2>4 DEF Since
<1>5. CASE d \in DOMAIN Installed
  <2>1. \A k \in EntriesIn(l, d) : Shown(k, g, d, qs) <=> ~Newer(g.ver[d], l[k].ver)
    BY <1>1, <1>2, <1>3, <1>5 DEF Tracks
  <2>2. QED
    BY <1>5, <2>1 DEF Tracks, l
<1>6. CASE d \notin DOMAIN Installed /\ d \in ToSet(f.order)
  BY <1>2, <1>4, <1>6 DEF Tracks, l
<1>7. CASE d \notin DOMAIN Installed /\ d \notin ToSet(f.order)
  BY <1>1, <1>2, <1>7 DEF Tracks, l
<1>8. QED
  BY <1>5, <1>6, <1>7

(* No version of a tree is older than its root.                            *)
LEMMA HasAbove ==
  ASSUME NEW f, Good(f), NEW c \in ToSet(f.order), NEW w \in Has(f, c)
  PROVE  w \in Versions /\ ~Newer(f.ver[c], w)
<1>1. c \in Components /\ f.ver[c] \in Versions /\ f.ver[c][1] \in Nat
  <2>1. f.order \in Seq(Components) /\ f.ver \in [Components -> Versions]
    BY ForestParts
  <2>2. c \in Components
    BY <2>1 DEF ToSet
  <2>3. QED
    BY <2>1, <2>2, VersionsAre
<1>2. CASE w = f.ver[c]
  BY <1>1, <1>2 DEF Newer
<1>3. CASE w \in VersionsOn(f.levels[c])
  <2> DEFINE L == f.levels[c]
  <2>1. PICK i \in 1..Len(L) : w \in ToSet(L[i])
    BY <1>3 DEF VersionsOn
  <2>2. Row(L[i]) /\ f.ver[c][1] <= L[i][1][1]
    BY <2>1 DEF Good, Above
  <2> HIDE DEF L
  <2>3. PICK j \in 1..Len(L[i]) : w = L[i][j]
    BY <2>1, <2>2 DEF ToSet, Row
  <2>4. w \in Versions /\ w[1] = L[i][1][1]
    BY <2>2, <2>3 DEF Row
  <2>5. w[1] \in Nat
    BY <2>4, VersionsAre
  <2>6. QED
    BY <1>1, <2>2, <2>4, <2>5 DEF Newer
<1>4. QED
  BY <1>2, <1>3 DEF Has

(* A patch is put in front of the others.                                  *)
LEMMA ToSetConcat ==
  ASSUME NEW new \in PatchRecords, NEW ps \in Seq(PatchRecords)
  PROVE  /\ <<new>> \o ps \in Seq(PatchRecords)
         /\ ToSet(<<new>> \o ps) = {new} \union ToSet(ps)
<1> DEFINE qs == <<new>> \o ps
<1>1. <<new>> \in Seq(PatchRecords) /\ Len(<<new>>) = 1 /\ <<new>>[1] = new
  OBVIOUS
<1>2. Len(ps) \in Nat
  OBVIOUS
<1>3. /\ qs \in Seq(PatchRecords) /\ Len(qs) = 1 + Len(ps)
      /\ \A i \in 1..1 + Len(ps) : qs[i] = IF i <= 1 THEN <<new>>[i] ELSE ps[i - 1]
  BY <1>1, ConcatProperties
<1> HIDE DEF qs
<1>4. ASSUME NEW p \in ToSet(qs) PROVE p \in {new} \union ToSet(ps)
  <2>1. PICK i \in 1..1 + Len(ps) : p = qs[i]
    BY <1>3 DEF ToSet
  <2>2. CASE i = 1
    BY <1>1, <1>3, <2>1, <2>2
  <2>3. CASE i # 1
    <3>1. i - 1 \in 1..Len(ps) /\ ~(i <= 1)
      BY <1>2, <2>1, <2>3
    <3>2. p = ps[i - 1]
      BY <1>3, <2>1, <3>1
    <3>3. QED
      BY <3>1, <3>2 DEF ToSet
  <2>4. QED
    BY <2>2, <2>3
<1>5. new \in ToSet(qs)
  <2>1. 1 \in 1..1 + Len(ps)
    BY <1>2
  <2>2. qs[1] = new
    BY <1>1, <1>3, <2>1
  <2>3. QED
    BY <1>3, <2>1, <2>2 DEF ToSet
<1>6. ASSUME NEW p \in ToSet(ps) PROVE p \in ToSet(qs)
  <2>1. PICK i \in 1..Len(ps) : p = ps[i]
    BY DEF ToSet
  <2>2. i + 1 \in 1..1 + Len(ps) /\ ~(i + 1 <= 1) /\ (i + 1) - 1 = i
    BY <1>2
  <2>3. qs[i + 1] = p
    BY <1>3, <2>1, <2>2
  <2>4. i + 1 \in DOMAIN qs
    BY <1>3, <2>2
  <2>5. QED
    BY <2>3, <2>4 DEF ToSet
<1>7. QED
  BY <1>3, <1>4, <1>5, <1>6 DEF qs

(* One patch more.                                                         *)
Adds(f, g, c, new, ps, ls, e, b, b2) ==
  /\ e \in Entries /\ c \in Components /\ e.comp = c
  /\ Grows(f, g, c) \/ Renews(f, g, c)
  /\ new \in PatchRecords /\ new.id = Len(ls) + 1 /\ new.node.comp = c
  /\ Fits(new, g, Append(ls, e)) /\ FitsNow(new, g, Append(ls, e))
  /\ b2 \in [Components -> Nat] /\ \A d \in Components \ {c} : b2[d] = b[d]
  /\ Tracks(g, c, <<new>> \o ps, Append(ls, e), b2)

(* The listing with the patch of one more entry.                           *)
LEMMA PatchAdded ==
  ASSUME NEW f, NEW g, NEW c, NEW new, NEW ps, NEW ls, NEW e, NEW b, NEW b2,
         Matches(f, ps, ls, b), Adds(f, g, c, new, ps, ls, e, b, b2)
  PROVE  Matches(g, <<new>> \o ps, Append(ls, e), b2)
<1> DEFINE qs == <<new>> \o ps
           l == Append(ls, e)
<1>0. /\ e \in Entries /\ c \in Components /\ e.comp = c
      /\ Grows(f, g, c) \/ Renews(f, g, c)
      /\ new \in PatchRecords /\ new.id = Len(ls) + 1 /\ new.node.comp = c
      /\ Fits(new, g, l) /\ FitsNow(new, g, l)
      /\ b2 \in [Components -> Nat] /\ \A d \in Components \ {c} : b2[d] = b[d]
      /\ Tracks(g, c, qs, l, b2)
  BY DEF Adds
<1>1. /\ ls \in Seq(Entries) /\ ps \in Seq(PatchRecords) /\ Good(f)
      /\ \A p \in ToSet(ps) : Fits(p, f, ls) /\ FitsNow(p, f, ls)
      /\ \A p, q \in ToSet(ps) : p.id = q.id => p = q
      /\ \A d \in Components : Tracks(f, d, ps, ls, b)
  BY DEF Matches
<1>2. l \in Seq(Entries) /\ Len(ls) \in Nat
  BY <1>0, <1>1, ListGrows
<1>3. qs \in Seq(PatchRecords) /\ ToSet(qs) = {new} \union ToSet(ps)
  BY <1>0, <1>1, ToSetConcat
<1> HIDE DEF qs, l
<1>4. \A p \in ToSet(qs) : Fits(p, g, l) /\ FitsNow(p, g, l)
  <2> SUFFICES ASSUME NEW p \in ToSet(ps) PROVE Fits(p, g, l) /\ FitsNow(p, g, l)
    BY <1>0, <1>3
  <2>1. QED
    BY <1>0, <1>1, PatchStays DEF l
<1>5. \A p, q \in ToSet(qs) : p.id = q.id => p = q
  <2>1. \A p \in ToSet(ps) : p.id # Len(ls) + 1
    BY <1>1, <1>2 DEF Fits
  <2>2. QED
    BY <1>0, <1>1, <1>3, <2>1
<1>6. \A d \in Components : Tracks(g, d, qs, l, b2)
  <2> SUFFICES ASSUME NEW d \in Components, d # c PROVE Tracks(g, d, qs, l, b2)
    BY <1>0
  <2>1. \A p \in ToSet(qs) : p \in ToSet(ps) \/ p.node.comp = c
    BY <1>0, <1>3
  <2>2. ToSet(ps) \subseteq ToSet(qs) /\ b2[d] = b[d] /\ Tracks(f, d, ps, ls, b)
    BY <1>0, <1>1, <1>3
  <2>3. QED
    BY <1>0, <1>1, <2>1, <2>2, OthersStay DEF l
<1>7. Good(g)
  BY <1>0 DEF Grows, Renews
<1>8. QED
  BY <1>0, <1>2, <1>3, <1>4, <1>5, <1>6, <1>7 DEF Matches, qs, l

(* An entry for what the installed version obsoletes.                      *)
LEMMA ObsoleteListed ==
  ASSUME NEW f, NEW ps, NEW ls, NEW b, Matches(f, ps, ls, b),
         NEW e \in Entries, Obsolete(f, e.comp, e.ver)
  PROVE  Matches(f, ps, Append(ls, e), b)
<1> DEFINE l == Append(ls, e)
           c == e.comp
           n == Len(ls)
<1>1. /\ ls \in Seq(Entries) /\ ps \in Seq(PatchRecords) /\ Good(f)
      /\ \A p \in ToSet(ps) : Fits(p, f, ls) /\ FitsNow(p, f, ls)
      /\ \A p, q \in ToSet(ps) : p.id = q.id => p = q
      /\ \A d \in Components : Tracks(f, d, ps, ls, b)
      /\ b \in [Components -> Nat] /\ c \in Components
  BY EntryParts DEF Matches
<1>2. /\ l \in Seq(Entries) /\ Len(ls) \in Nat
      /\ \A k \in 1..n : l[k] = ls[k]
      /\ l[n + 1] = e
      /\ EntriesIn(l, c) = EntriesIn(ls, c) \union {n + 1}
  BY <1>1, ListGrows
<1>3. c \in ToSet(f.order) /\ ~f.visible[c] /\ Newer(f.ver[c], e.ver) /\ c \in DOMAIN Installed
  BY <1>1 DEF Obsolete, Good
<1>4. Grows(f, f, c)
  BY <1>1, <1>3 DEF Grows, Elsewhere
<1>5. \A p \in ToSet(ps) : Fits(p, f, l) /\ FitsNow(p, f, l)
  BY <1>1, <1>4, PatchStays
<1>6. Tracks(f, c, ps, l, b)
  <2>1. b[c] = 0 /\ \A k \in EntriesIn(ls, c) : Shown(k, f, c, ps) <=> ~Newer(f.ver[c], ls[k].ver)
    BY <1>1, <1>3 DEF Tracks
  <2>2. ~Shown(n + 1, f, c, ps)
    <3>1. \A p \in ToSet(ps) : p.id \in 1..n
      BY <1>1 DEF Fits
    <3>2. QED
      BY <1>2, <3>1 DEF Shown
  <2> HIDE DEF l
  <2>3. \A k \in EntriesIn(l, c) : Shown(k, f, c, ps) <=> ~Newer(f.ver[c], l[k].ver)
    <3>1. \A k \in EntriesIn(ls, c) : k \in 1..n
      BY DEF EntriesIn
    <3>2. QED
      BY <1>2, <1>3, <2>1, <2>2, <3>1
  <2>4. QED
    BY <1>3, <2>1, <2>3 DEF Tracks
<1>7. \A d \in Components : Tracks(f, d, ps, l, b)
  <2> SUFFICES ASSUME NEW d \in Components, d # c PROVE Tracks(f, d, ps, l, b)
    BY <1>6
  <2>1. QED
    BY <1>1, OthersStay
<1>8. QED
  BY <1>1, <1>2, <1>5, <1>7 DEF Matches

(* An entry for the root of what is not installed.                         *)
BaseAdded(f, g, c, new, ls, e, b, b2) ==
  /\ e \in Entries /\ c = e.comp /\ g = Grown(f, c, e.ver) /\ ~Obsolete(f, c, e.ver)
  /\ g.visible[c] /\ g.ver[c] = e.ver
  /\ new = [id |-> Len(ls) + 1, node |-> Node(g, c, e.ver), size |-> SizeK(e.size),
            refcount |-> IF Satisfied(e) THEN 1 ELSE 0, apply |-> << >>]
  /\ b2 = [b EXCEPT ![c] = IF Satisfied(e) THEN Len(ls) + 1
                           ELSE IF g.gen[c] = f.gen[c] THEN b[c] ELSE 0]

(* The patch that installs a component.                                    *)
LEMMA BaseListed ==
  ASSUME NEW f, NEW g, NEW c, NEW new, NEW ps, NEW ls, NEW e, NEW b, NEW b2,
         Matches(f, ps, ls, b), BaseAdded(f, g, c, new, ls, e, b, b2)
  PROVE  Matches(g, <<new>> \o ps, Append(ls, e), b2)
<1>0. /\ e \in Entries /\ c = e.comp /\ ~Obsolete(f, c, e.ver)
      /\ g.visible[c] /\ g.ver[c] = e.ver
  BY DEF BaseAdded
<1> USE <1>0
<1> DEFINE n == Len(ls)
           l == Append(ls, e)
           qs == <<new>> \o ps
<1>1. /\ ls \in Seq(Entries) /\ ps \in Seq(PatchRecords) /\ Good(f)
      /\ \A p \in ToSet(ps) : Fits(p, f, ls) /\ FitsNow(p, f, ls)
      /\ \A d \in Components : Tracks(f, d, ps, ls, b)
      /\ b \in [Components -> Nat]
  BY DEF Matches
<1>2. /\ l \in Seq(Entries) /\ n \in Nat /\ Len(l) = n + 1
      /\ \A k \in 1..n : l[k] = ls[k]
      /\ l[n + 1] = e
      /\ EntriesIn(l, c) = EntriesIn(ls, c) \union {n + 1}
      /\ \A k \in EntriesIn(ls, c) : k \in 1..n /\ ls[k] \in Entries
  BY <1>1, ListGrows DEF EntriesIn
<1>3. c \in Components /\ e.ver \in Versions /\ e.ver[1] \in Nat /\ e.size[1] \in Nat
  BY EntryParts, VersionsAre
<1>4. Becomes(f, g, c, e.ver)
  BY <1>1, <1>3, ForestGrows DEF BaseAdded
<1>5. Good(g) /\ c \in ToSet(g.order) /\ c \notin DOMAIN Installed
  BY <1>4 DEF Becomes, Good
<1>6. f.gen[c] \in Nat /\ g.gen[c] \in Nat /\ f.ver[c] \in Versions /\ f.ver[c][1] \in Nat
  BY <1>1, <1>3, <1>5, ForestParts, VersionsAre
<1>7. \/ Grows(f, g, c) /\ g.gen[c] = f.gen[c]
      \/ Renews(f, g, c) /\ Replants(f, g, c, e.ver)
  <2>1. CASE Replants(f, g, c, e.ver)
    <3>1. f.gen[c] < g.gen[c]
      BY <1>6, <2>1 DEF Replants
    <3>2. QED
      BY <1>4, <2>1, <3>1 DEF Becomes, Renews
  <2>2. CASE Extends(f, g, c, e.ver)
    <3>1. Has(f, c) \subseteq Has(g, c)
      BY <2>2 DEF Extends, Has
    <3>2. ToSet(g.order) = ToSet(f.order)
      BY <1>4, <2>2 DEF Extends, Becomes
    <3>3. Elsewhere(f, g, c)
      BY <1>4 DEF Becomes
    <3>4. Grows(f, g, c)
      BY <1>5, <2>2, <3>1, <3>2, <3>3 DEF Extends, Grows
    <3>5. QED
      BY <2>2, <3>4 DEF Extends
  <2>3. QED
    BY <1>4, <2>1, <2>2 DEF Becomes
<1>8. /\ new.id = n + 1 /\ new.node = Node(g, c, e.ver) /\ new.size = SizeK(e.size)
      /\ new.refcount = (IF Satisfied(e) THEN 1 ELSE 0) /\ new.apply = << >>
      /\ new.node.comp = c /\ new.node.gen = g.gen[c] /\ new.node.ver = e.ver
      /\ new = [id |-> n + 1, node |-> Node(g, c, e.ver), size |-> SizeK(e.size),
                refcount |-> IF Satisfied(e) THEN 1 ELSE 0, apply |-> << >>]
  BY DEF BaseAdded, Node
<1>9. new \in PatchRecords
  <2>1. Node(g, c, e.ver) \in NodeRecords
    BY <1>3, <1>6 DEF Node, NodeRecords
  <2>2. << >> \in Seq(NodeRecords) /\ SizeK(e.size) \in Nat /\ n + 1 \in Nat
        /\ (IF Satisfied(e) THEN 1 ELSE 0) \in Nat
    BY <1>2, <1>3 DEF SizeK
  <2>3. QED
    BY <1>8, <2>1, <2>2 DEF PatchRecords
<1>10. ToSet(new.apply) = {}
  BY <1>8 DEF ToSet
<1> HIDE DEF l, n, qs
<1>11. Fits(new, g, l)
  <2>1. new.id \in 1..Len(l) /\ l[new.id] = e
    BY <1>2, <1>8
  <2>2. new.node.gen <= g.gen[c]
    BY <1>6, <1>8
  <2>3. QED
    BY <1>8, <1>9, <1>10, <2>1, <2>2 DEF Fits
<1>12. FitsNow(new, g, l)
  <2>1. IsBase(new, g, c)
    BY <1>8 DEF IsBase
  <2>2. Stands(new, g, c, e)
    BY <1>5, <1>8, <2>1 DEF Stands, Has
  <2>3. QED
    BY <1>2, <1>8, <2>2 DEF FitsNow
<1>13. n + 1 \in Nat /\ n + 1 # 0 /\ b[c] \in Nat
  BY <1>1, <1>2, <1>3
<1>14. b2 \in [Components -> Nat] /\ \A d \in Components \ {c} : b2[d] = b[d]
  BY <1>1, <1>2, <1>3 DEF BaseAdded, n
<1>15. b2[c] = IF Satisfied(e) THEN n + 1 ELSE IF g.gen[c] = f.gen[c] THEN b[c] ELSE 0
  BY <1>1, <1>3 DEF BaseAdded, n
<1>16. ToSet(qs) = {new} \union ToSet(ps)
  BY <1>1, <1>9, ToSetConcat DEF qs
<1>17. Shown(n + 1, g, c, qs)
  BY <1>8, <1>16 DEF Shown
<1>18. Tracks(g, c, qs, l, b2)
  <2> SUFFICES \E low \in Nat : Since(low, g, c, qs, l, b2)
    BY <1>5 DEF Tracks
  <2>1. CASE Grows(f, g, c) /\ g.gen[c] = f.gen[c]
    <3>1. c \in ToSet(f.order) /\ f.ver[c] = g.ver[c]
      BY <2>1 DEF Grows
    <3>2. PICK low \in Nat : Since(low, f, c, ps, ls, b)
      BY <1>1, <1>3, <1>5, <3>1 DEF Tracks
    <3>3. low \in EntriesIn(l, c) /\ low \in 1..n /\ g.ver[c] = l[low].ver
      BY <1>2, <3>1, <3>2 DEF Since
    <3>4. ASSUME NEW k \in EntriesIn(ls, c)
          PROVE  /\ g.ver[c][1] <= l[k].ver[1] /\ (k < low => g.ver[c][1] < l[k].ver[1])
                 /\ Shown(k, g, c, qs) <=> k >= low
      <4>1. Shown(k, g, c, qs) <=> Shown(k, f, c, ps)
        <5>1. k # n + 1
          BY <1>2
        <5>2. QED
          BY <1>8, <1>16, <2>1, <5>1 DEF Shown
      <4>2. l[k] = ls[k]
        BY <1>2
      <4>3. QED
        BY <3>1, <3>2, <4>1, <4>2 DEF Since
    <3>5. /\ g.ver[c][1] <= l[n + 1].ver[1] /\ ~(n + 1 < low)
          /\ Shown(n + 1, g, c, qs) <=> n + 1 >= low
      BY <1>2, <1>3, <1>17, <3>3
    <3>6. ASSUME b2[c] = 0, NEW k \in EntriesIn(l, c), l[k].ver = g.ver[c]
          PROVE  ~Satisfied(l[k])
      <4>1. ~Satisfied(e) /\ b[c] = 0
        BY <1>13, <1>15, <2>1, <3>6
      <4>2. CASE k = n + 1
        BY <1>2, <4>1, <4>2
      <4>3. CASE k # n + 1
        <5>1. k \in EntriesIn(ls, c) /\ l[k] = ls[k]
          BY <1>2, <4>3
        <5>2. QED
          BY <3>1, <3>2, <3>6, <4>1, <5>1 DEF Since
      <4>4. QED
        BY <4>2, <4>3
    <3>7. ASSUME b2[c] # 0
          PROVE  b2[c] \in EntriesIn(l, c) /\ l[b2[c]].ver = g.ver[c] /\ Satisfied(l[b2[c]])
      <4>1. CASE Satisfied(e)
        BY <1>2, <1>15, <4>1
      <4>2. CASE ~Satisfied(e)
        <5>1. b2[c] = b[c] /\ b[c] # 0
          BY <1>15, <2>1, <3>7, <4>2
        <5>2. b[c] \in EntriesIn(ls, c) /\ ls[b[c]].ver = f.ver[c] /\ Satisfied(ls[b[c]])
          BY <3>2, <5>1 DEF Since
        <5>3. l[b[c]] = ls[b[c]]
          BY <1>2, <5>2
        <5>4. QED
          BY <1>2, <3>1, <5>1, <5>2, <5>3
      <4>3. QED
        BY <4>1, <4>2
    <3>8. Since(low, g, c, qs, l, b2)
      BY <1>2, <3>3, <3>4, <3>5, <3>6, <3>7 DEF Since
    <3>9. QED
      BY <3>8
  <2>2. CASE Renews(f, g, c) /\ Replants(f, g, c, e.ver)
    <3>1. \A k \in EntriesIn(ls, c) : g.ver[c][1] < ls[k].ver[1]
      <4> SUFFICES ASSUME NEW k \in EntriesIn(ls, c) PROVE g.ver[c][1] < ls[k].ver[1]
        OBVIOUS
      <4>1. c \in ToSet(f.order) /\ e.ver[1] < f.ver[c][1]
        BY <1>1, <1>3, <1>5, <2>2 DEF Tracks, Replants
      <4>2. PICK low \in Nat : Since(low, f, c, ps, ls, b)
        BY <1>1, <1>3, <1>5, <4>1 DEF Tracks
      <4>3. f.ver[c][1] <= ls[k].ver[1]
        BY <4>2 DEF Since
      <4>4. ls[k].ver[1] \in Nat
        BY <1>2, EntryParts, VersionsAre
      <4>5. QED
        BY <1>3, <1>6, <4>1, <4>3, <4>4
    <3>2. \A k \in EntriesIn(ls, c) : ~Shown(k, g, c, qs)
      <4> SUFFICES ASSUME NEW k \in EntriesIn(ls, c), NEW p \in ToSet(qs), p.id = k,
                          p.node.comp = c, p.node.gen = g.gen[c]
                   PROVE  FALSE
        BY DEF Shown
      <4>1. p \in ToSet(ps)
        BY <1>2, <1>8, <1>16
      <4>2. p.node.gen <= f.gen[c]
        BY <1>1, <4>1 DEF Fits
      <4>3. QED
        BY <1>6, <2>2, <4>2 DEF Renews
    <3>3. \A k \in EntriesIn(ls, c) : /\ g.ver[c][1] <= l[k].ver[1]
                                      /\ k < n + 1 => g.ver[c][1] < l[k].ver[1]
                                      /\ Shown(k, g, c, qs) <=> k >= n + 1
      <4> SUFFICES ASSUME NEW k \in EntriesIn(ls, c)
                   PROVE  /\ g.ver[c][1] <= l[k].ver[1]
                          /\ k < n + 1 => g.ver[c][1] < l[k].ver[1]
                          /\ Shown(k, g, c, qs) <=> k >= n + 1
        OBVIOUS
      <4>1. l[k] = ls[k] /\ ~(k >= n + 1)
        BY <1>2
      <4>2. ls[k].ver[1] \in Nat
        BY <1>2, EntryParts, VersionsAre
      <4>3. QED
        BY <1>3, <3>1, <3>2, <4>1, <4>2
    <3>4. g.ver[c] = l[n + 1].ver /\ n + 1 \in EntriesIn(l, c) /\ n + 1 \in Nat
      BY <1>2
    <3>5. g.ver[c][1] <= l[n + 1].ver[1] /\ ~(n + 1 < n + 1) /\ n + 1 >= n + 1
      BY <1>2, <1>3
    <3>6. g.gen[c] # f.gen[c]
      BY <1>6, <2>2 DEF Renews
    <3>7. ASSUME b2[c] = 0, NEW k \in EntriesIn(l, c), l[k].ver = g.ver[c]
          PROVE  ~Satisfied(l[k])
      <4>1. ~Satisfied(e)
        BY <1>13, <1>15, <3>7
      <4>2. CASE k = n + 1
        BY <1>2, <4>1, <4>2
      <4>3. CASE k # n + 1
        <5>1. k \in EntriesIn(ls, c) /\ l[k] = ls[k]
          BY <1>2, <4>3
        <5>2. ls[k].ver[1] = g.ver[c][1]
          BY <3>7, <5>1
        <5>3. QED
          BY <1>3, <3>1, <5>1, <5>2
      <4>4. QED
        BY <4>2, <4>3
    <3>8. b2[c] # 0 => b2[c] = n + 1 /\ Satisfied(e)
      BY <1>15, <3>6
    <3>9. Since(n + 1, g, c, qs, l, b2)
      BY <1>2, <1>17, <3>3, <3>4, <3>5, <3>7, <3>8 DEF Since
    <3>10. QED
      BY <3>4, <3>9
  <2>3. QED
    BY <1>7, <2>1, <2>2
<1>19. Grows(f, g, c) \/ Renews(f, g, c)
  BY <1>7
<1>20. new.id = Len(ls) + 1 /\ new.node.comp = c /\ e.comp = c
  BY <1>8 DEF n
<1>21. Fits(new, g, Append(ls, e)) /\ FitsNow(new, g, Append(ls, e))
  BY <1>11, <1>12 DEF l
<1>22. Tracks(g, c, <<new>> \o ps, Append(ls, e), b2)
  BY <1>18 DEF l, qs
<1>23. Adds(f, g, c, new, ps, ls, e, b, b2)
  BY <1>3, <1>9, <1>14, <1>19, <1>20, <1>21, <1>22 DEF Adds
<1>24. QED
  BY <1>23, PatchAdded

Applied(apply, h, c, W) ==
  /\ apply \in Seq(NodeRecords)
  /\ \A w : Node(h, c, w) \in ToSet(apply) <=> w \in W
  /\ \A m \in ToSet(apply) : m.comp = c /\ m.gen = h.gen[c]

(* The nodes of a sequence of versions.                                    *)
LEMMA NodesOf ==
  ASSUME NEW h, NEW c \in Components, h.gen[c] \in Nat, NEW o \in Seq(Versions)
  PROVE  Applied([k \in 1..Len(o) |-> Node(h, c, o[k])], h, c, ToSet(o))
<1> DEFINE apply == [k \in 1..Len(o) |-> Node(h, c, o[k])]
<1>1. Len(o) \in Nat /\ DOMAIN o = 1..Len(o) /\ \A k \in 1..Len(o) : o[k] \in Versions
  OBVIOUS
<1>2. \A k \in 1..Len(o) : Node(h, c, o[k]) \in NodeRecords
  BY <1>1 DEF Node, NodeRecords
<1>3. /\ apply \in Seq(NodeRecords) /\ DOMAIN apply = 1..Len(o)
      /\ \A k \in 1..Len(o) : apply[k] = Node(h, c, o[k])
  BY <1>1, <1>2
<1> HIDE DEF apply
<1>4. \A w : Node(h, c, w) \in ToSet(apply) <=> w \in ToSet(o)
  <2> SUFFICES ASSUME NEW w PROVE Node(h, c, w) \in ToSet(apply) <=> w \in ToSet(o)
    OBVIOUS
  <2>1. \A k \in 1..Len(o) : Node(h, c, w) = Node(h, c, o[k]) <=> w = o[k]
    BY DEF Node
  <2>2. w \in ToSet(o) <=> \E k \in 1..Len(o) : w = o[k]
    BY <1>1 DEF ToSet
  <2>3. Node(h, c, w) \in ToSet(apply) <=> \E k \in 1..Len(o) : Node(h, c, w) = apply[k]
    BY <1>3 DEF ToSet
  <2>4. QED
    BY <1>3, <2>1, <2>2, <2>3
<1>5. \A m \in ToSet(apply) : m.comp = c /\ m.gen = h.gen[c]
  BY <1>3 DEF ToSet, Node
<1>6. QED
  BY <1>3, <1>4, <1>5 DEF apply, Applied

(* An entry for anything else.                                             *)
UpgradeAdded(f, g, h, c, links, o, new, ls, e) ==
  /\ e \in Entries /\ c = e.comp /\ g = Grown(f, c, e.ver) /\ ~Obsolete(f, c, e.ver)
  /\ ~(g.visible[c] /\ g.ver[c] = e.ver)
  /\ h = GrownBy(g, c, e.applies) /\ h.gen[c] = g.gen[c]
  /\ links = { w \in ToSet(e.applies) : ~Obsolete(g, c, w) /\ Legal(w, e.ver) }
  /\ o = Only(e.applies, links)
  /\ new = [id |-> Len(ls) + 1, node |-> Node(h, c, e.ver), size |-> SizeK(e.size),
            refcount |-> 0, apply |-> [k \in 1..Len(o) |-> Node(h, c, o[k])]]

(* The patch that leads from the versions it applies to.                   *)
LEMMA UpgradeListed ==
  ASSUME NEW f, NEW g, NEW h, NEW c, NEW links, NEW o, NEW new, NEW ps, NEW ls, NEW e, NEW b,
         Matches(f, ps, ls, b), UpgradeAdded(f, g, h, c, links, o, new, ls, e)
  PROVE  Matches(h, <<new>> \o ps, Append(ls, e), b)
<1>0. /\ e \in Entries /\ c = e.comp /\ ~Obsolete(f, c, e.ver)
      /\ ~(g.visible[c] /\ g.ver[c] = e.ver) /\ h.gen[c] = g.gen[c]
  BY DEF UpgradeAdded
<1> USE <1>0
<1> DEFINE n == Len(ls)
           l == Append(ls, e)
           qs == <<new>> \o ps
<1>1. /\ ls \in Seq(Entries) /\ ps \in Seq(PatchRecords) /\ Good(f)
      /\ \A p \in ToSet(ps) : Fits(p, f, ls) /\ FitsNow(p, f, ls)
      /\ \A d \in Components : Tracks(f, d, ps, ls, b)
      /\ b \in [Components -> Nat]
  BY DEF Matches
<1>2. /\ l \in Seq(Entries) /\ n \in Nat /\ Len(l) = n + 1
      /\ \A k \in 1..n : l[k] = ls[k]
      /\ l[n + 1] = e
      /\ EntriesIn(l, c) = EntriesIn(ls, c) \union {n + 1}
      /\ \A k \in EntriesIn(ls, c) : k \in 1..n /\ ls[k] \in Entries
  BY <1>1, ListGrows DEF EntriesIn
<1>3. /\ c \in Components /\ e.ver \in Versions /\ e.ver[1] \in Nat /\ e.size[1] \in Nat
      /\ e.applies \in Seq(Versions)
  BY EntryParts, VersionsAre
<1>4. Becomes(f, g, c, e.ver)
  BY <1>1, <1>3, ForestGrows DEF UpgradeAdded
<1>5. Extends(f, g, c, e.ver)
  <2>1. ~Replants(f, g, c, e.ver)
    BY DEF Replants
  <2>2. QED
    BY <1>4, <2>1 DEF Becomes
<1>6. Good(g) /\ c \in ToSet(g.order) /\ c \in ToSet(f.order) /\ ToSet(g.order) = ToSet(f.order)
  BY <1>4, <1>5 DEF Becomes, Extends
<1>7. Good(h) /\ Spreads(g, h, c, ToSet(e.applies))
  <2>1. g.gen[c] \in Nat
    BY <1>3, <1>6, ForestParts
  <2>2. ~(h.gen[c] > g.gen[c])
    BY <2>1
  <2>3. QED
    BY <1>3, <1>6, <2>2, TreeSpreads DEF UpgradeAdded
<1>8. f.gen[c] \in Nat /\ f.ver[c] \in Versions /\ f.ver[c][1] \in Nat
  BY <1>1, <1>3, ForestParts, VersionsAre
<1>9. /\ h.gen[c] = f.gen[c] /\ h.ver[c] = f.ver[c] /\ h.visible[c] = f.visible[c]
      /\ ToSet(h.order) = ToSet(f.order)
  BY <1>5, <1>6, <1>7 DEF Extends, Spreads
<1>10. /\ Has(f, c) \subseteq Has(h, c) /\ e.ver \in Has(h, c)
       /\ \A w \in ToSet(e.applies) : ~Obsolete(g, c, w) => w \in Has(h, c)
  <2>1. g.ver[c] = f.ver[c]
    BY <1>5 DEF Extends
  <2>2. Has(g, c) = Has(f, c) \union {e.ver}
    BY <1>5, <2>1 DEF Extends, Has
  <2>3. h.ver[c] = g.ver[c]
    BY <1>7 DEF Spreads
  <2>4. Has(h, c) = Has(g, c) \union { w \in ToSet(e.applies) : ~Obsolete(g, c, w) }
    BY <1>7, <2>3 DEF Spreads, Has
  <2>5. QED
    BY <2>2, <2>4
<1>11. Elsewhere(f, h, c)
  BY <1>4, <1>7 DEF Becomes, Spreads, Elsewhere
<1>12. Grows(f, h, c)
  BY <1>6, <1>7, <1>9, <1>10, <1>11 DEF Grows
<1>13. links = Links(h, c, e) /\ links \subseteq Has(h, c)
  <2>1. ASSUME NEW w \in ToSet(e.applies) PROVE Obsolete(g, c, w) <=> Newer(h.ver[c], w)
    <3>1. g.ver[c] = h.ver[c] /\ g.visible[c] = h.visible[c] /\ c \in ToSet(h.order)
      BY <1>6, <1>7, <1>9 DEF Spreads
    <3>2. ASSUME ~Obsolete(g, c, w) PROVE ~Newer(h.ver[c], w)
      BY <1>7, <1>10, <3>1, <3>2, HasAbove
    <3>3. ASSUME Obsolete(g, c, w) PROVE Newer(h.ver[c], w)
      BY <3>1, <3>3 DEF Obsolete
    <3>4. QED
      BY <3>2, <3>3
  <2>2. links = Links(h, c, e)
    BY <2>1 DEF Links, UpgradeAdded
  <2>3. QED
    BY <1>10, <2>2 DEF UpgradeAdded
<1>14. o \in Seq(Versions) /\ ToSet(o) = links
  <2>1. o \in Seq(Versions) /\ ToSet(o) = ToSet(e.applies) \cap links
    BY <1>3, OnlyKeeps DEF UpgradeAdded
  <2>2. links \subseteq ToSet(e.applies)
    BY DEF UpgradeAdded
  <2>3. QED
    BY <2>1, <2>2
<1>15. /\ new.id = n + 1 /\ new.node = Node(h, c, e.ver) /\ new.size = SizeK(e.size)
       /\ new.refcount = 0 /\ new.apply = [k \in 1..Len(o) |-> Node(h, c, o[k])]
       /\ new.node.comp = c /\ new.node.gen = h.gen[c] /\ new.node.ver = e.ver
       /\ new = [id |-> n + 1, node |-> Node(h, c, e.ver), size |-> SizeK(e.size),
                 refcount |-> 0, apply |-> [k \in 1..Len(o) |-> Node(h, c, o[k])]]
  BY DEF UpgradeAdded, Node
<1>16. h.gen[c] \in Nat
  BY <1>8, <1>9
<1>18. /\ new.apply \in Seq(NodeRecords)
       /\ \A w : Node(h, c, w) \in ToSet(new.apply) <=> w \in ToSet(o)
       /\ \A m \in ToSet(new.apply) : m.comp = c /\ m.gen = h.gen[c]
  <2>1. Applied([k \in 1..Len(o) |-> Node(h, c, o[k])], h, c, ToSet(o))
    BY <1>3, <1>14, <1>16, NodesOf
  <2>2. Applied(new.apply, h, c, ToSet(o))
    BY <1>15, <2>1
  <2>3. QED
    BY <2>2 DEF Applied
<1>19. new \in PatchRecords
  <2>1. Node(h, c, e.ver) \in NodeRecords
    BY <1>3, <1>16 DEF Node, NodeRecords
  <2>2. SizeK(e.size) \in Nat /\ n + 1 \in Nat
    BY <1>2, <1>3 DEF SizeK
  <2>3. QED
    BY <1>15, <1>18, <2>1, <2>2 DEF PatchRecords
<1> HIDE DEF l, n, qs
<1>20. Fits(new, h, l)
  <2>1. new.id \in 1..Len(l) /\ l[new.id] = e
    BY <1>2, <1>15
  <2>2. new.node.gen <= h.gen[c]
    BY <1>15, <1>16
  <2>3. \A m \in ToSet(new.apply) : m.comp = c /\ m.gen = h.gen[c]
    BY <1>18
  <2>4. QED
    BY <1>15, <1>19, <2>1, <2>2, <2>3 DEF Fits
<1>21. FitsNow(new, h, l)
  <2>1. ~IsBase(new, h, c)
    <3>1. g.visible[c] = h.visible[c] /\ g.ver[c] = h.ver[c]
      BY <1>7 DEF Spreads
    <3>2. QED
      BY <1>15, <3>1 DEF IsBase
  <2>2. \A w \in Versions : Node(h, c, w) \in ToSet(new.apply) <=> w \in Links(h, c, e)
    BY <1>13, <1>14, <1>18
  <2>3. c \in ToSet(h.order)
    BY <1>6, <1>9
  <2>4. Stands(new, h, c, e)
    BY <1>10, <1>13, <1>15, <2>1, <2>2, <2>3 DEF Stands
  <2>5. QED
    BY <1>2, <1>15, <2>4 DEF FitsNow
<1>22. ToSet(qs) = {new} \union ToSet(ps)
  BY <1>1, <1>19, ToSetConcat DEF qs
<1>23. Shown(n + 1, h, c, qs)
  BY <1>15, <1>22 DEF Shown
<1>24. \A k \in EntriesIn(ls, c) : Shown(k, h, c, qs) <=> Shown(k, f, c, ps)
  <2>1. \A k \in EntriesIn(ls, c) : k # n + 1
    BY <1>2
  <2>2. QED
    BY <1>9, <1>15, <1>22, <2>1 DEF Shown
<1>25. f.ver[c][1] <= e.ver[1]
  BY <1>5 DEF Extends
<1>26. Tracks(h, c, qs, l, b)
  <2>1. CASE c \in DOMAIN Installed
    <3>1. /\ b[c] = 0
          /\ \A k \in EntriesIn(ls, c) : Shown(k, f, c, ps) <=> ~Newer(f.ver[c], ls[k].ver)
      BY <1>1, <1>3, <2>1 DEF Tracks
    <3>2. ~Newer(h.ver[c], e.ver)
      BY <1>3, <1>8, <1>9, <1>25 DEF Newer
    <3>3. \A k \in EntriesIn(l, c) : Shown(k, h, c, qs) <=> ~Newer(h.ver[c], l[k].ver)
      <4> SUFFICES ASSUME NEW k \in EntriesIn(l, c)
                   PROVE  Shown(k, h, c, qs) <=> ~Newer(h.ver[c], l[k].ver)
        OBVIOUS
      <4>1. CASE k = n + 1
        BY <1>2, <1>23, <3>2, <4>1
      <4>2. CASE k \in EntriesIn(ls, c)
        <5>1. l[k] = ls[k]
          BY <1>2, <4>2
        <5>2. QED
          BY <1>9, <1>24, <3>1, <4>2, <5>1
      <4>3. QED
        BY <1>2, <4>1, <4>2
    <3>4. QED
      BY <2>1, <3>1, <3>3 DEF Tracks
  <2>2. CASE c \notin DOMAIN Installed
    <3>1. PICK low \in Nat : Since(low, f, c, ps, ls, b)
      BY <1>1, <1>3, <1>6, <2>2 DEF Tracks
    <3>2. low \in EntriesIn(l, c) /\ low \in 1..n /\ h.ver[c] = l[low].ver
      BY <1>2, <1>9, <3>1 DEF Since
    <3>3. \A k \in EntriesIn(l, c) : /\ h.ver[c][1] <= l[k].ver[1]
                                     /\ k < low => h.ver[c][1] < l[k].ver[1]
                                     /\ Shown(k, h, c, qs) <=> k >= low
      <4> SUFFICES ASSUME NEW k \in EntriesIn(l, c)
                   PROVE  /\ h.ver[c][1] <= l[k].ver[1]
                          /\ k < low => h.ver[c][1] < l[k].ver[1]
                          /\ Shown(k, h, c, qs) <=> k >= low
        OBVIOUS
      <4>1. CASE k = n + 1
        <5>1. ~(n + 1 < low) /\ n + 1 >= low
          BY <1>2, <3>2
        <5>2. QED
          BY <1>2, <1>9, <1>23, <1>25, <4>1, <5>1
      <4>2. CASE k \in EntriesIn(ls, c)
        <5>1. l[k] = ls[k]
          BY <1>2, <4>2
        <5>2. QED
          BY <1>9, <1>24, <3>1, <4>2, <5>1 DEF Since
      <4>3. QED
        BY <1>2, <4>1, <4>2
    <3>4. e.ver # h.ver[c]
      <4>1. f.visible[c]
        BY <1>1, <1>6, <2>2 DEF Good
      <4>2. g.visible[c] /\ g.ver[c] = h.ver[c]
        BY <1>7, <1>9, <4>1 DEF Spreads
      <4>3. QED
        BY <4>2
    <3>5. ASSUME b[c] = 0, NEW k \in EntriesIn(l, c), l[k].ver = h.ver[c]
          PROVE  ~Satisfied(l[k])
      <4>1. k \in EntriesIn(ls, c) /\ l[k] = ls[k]
        BY <1>2, <3>4, <3>5
      <4>2. QED
        BY <1>9, <3>1, <3>5, <4>1 DEF Since
    <3>6. ASSUME b[c] # 0
          PROVE  b[c] \in EntriesIn(l, c) /\ l[b[c]].ver = h.ver[c] /\ Satisfied(l[b[c]])
      <4>1. b[c] \in EntriesIn(ls, c) /\ ls[b[c]].ver = f.ver[c] /\ Satisfied(ls[b[c]])
        BY <3>1, <3>6 DEF Since
      <4>2. QED
        BY <1>2, <1>9, <4>1
    <3>7. Since(low, h, c, qs, l, b)
      BY <3>2, <3>3, <3>5, <3>6 DEF Since
    <3>8. QED
      BY <1>6, <1>9, <2>2, <3>7 DEF Tracks
  <2>3. QED
    BY <2>1, <2>2
<1>27. new.id = Len(ls) + 1 /\ new.node.comp = c /\ e.comp = c
  BY <1>15 DEF n
<1>28. Fits(new, h, Append(ls, e)) /\ FitsNow(new, h, Append(ls, e))
  BY <1>20, <1>21 DEF l
<1>29. Tracks(h, c, <<new>> \o ps, Append(ls, e), b)
  BY <1>26 DEF l, qs
<1>30. Adds(f, h, c, new, ps, ls, e, b, b)
  BY <1>1, <1>3, <1>12, <1>19, <1>27, <1>28, <1>29 DEF Adds
<1>31. QED
  BY <1>30, PatchAdded

-----------------------------------------------------------------------------
(***************************************************************************)
(* The patches match the list until it ends.                               *)
(***************************************************************************)
Untouched ==
  /\ path = << >> /\ depth = << >> /\ toggled = {} /\ ticked = {}
  /\ selected = [c \in Components |-> NULL]

PatchesMatch ==
  phase = "listing" => /\ Untouched
                       /\ ~broken => Matches(forest, patches, listed, base)

(* Nothing is listed at first.                                             *)
LEMMA ListStarts ==
  ASSUME Init
  PROVE  PatchesMatch
<1>1. /\ Good(forest) /\ ToSet(forest.order) \subseteq DOMAIN Installed
      /\ \A c \in Components : forest.levels[c] = << >>
  BY ForestStarts
<1>2. patches = << >> /\ listed = << >> /\ base = [c \in Components |-> 0]
  BY DEF Init
<1>3. ToSet(patches) = {} /\ \A c : EntriesIn(listed, c) = {}
  BY <1>2 DEF ToSet, EntriesIn
<1>4. ASSUME NEW c \in Components PROVE Tracks(forest, c, patches, listed, base)
  <2>1. base[c] = 0
    BY <1>2
  <2>2. CASE c \in DOMAIN Installed
    BY <1>3, <2>1, <2>2 DEF Tracks
  <2>3. CASE c \notin DOMAIN Installed
    BY <1>1, <1>3, <2>1, <2>3 DEF Tracks
  <2>4. QED
    BY <2>2, <2>3
<1>5. patches \in Seq(PatchRecords) /\ listed \in Seq(Entries) /\ base \in [Components -> Nat]
  BY <1>2
<1>6. Matches(forest, patches, listed, base)
  BY <1>1, <1>3, <1>4, <1>5 DEF Matches
<1>7. Untouched
  BY DEF Init, Untouched
<1>8. QED
  BY <1>6, <1>7 DEF PatchesMatch

(* add_patch(), whichever way it goes.                                     *)
LEMMA ListGoesOn ==
  ASSUME Matches(forest, patches, listed, base), NEW e \in Entries, AddPatch(e), ~broken'
  PROVE  Matches(forest', patches', listed', base')
<1> DEFINE c == e.comp
           f == Grown(forest, c, e.ver)
<1>1. /\ Good(forest) /\ listed' = Append(listed, e) /\ c \in Components /\ ~broken
      /\ base \in [Components -> Nat]
  BY EntryParts DEF AddPatch, Matches
<1>2. CASE Obsolete(forest, c, e.ver) /\ UNCHANGED <<forest, base, patches, broken>>
  <2>1. Matches(forest, patches, Append(listed, e), base)
    BY <1>2, ObsoleteListed
  <2>2. QED
    BY <1>1, <1>2, <2>1
<1>3. CASE /\ ~Obsolete(forest, c, e.ver) /\ f.visible[c] /\ f.ver[c] = e.ver
           /\ AddBase(f, e)
  <2> DEFINE new == [id |-> Len(listed) + 1, node |-> Node(f, c, e.ver), size |-> SizeK(e.size),
                     refcount |-> IF Satisfied(e) THEN 1 ELSE 0, apply |-> << >>]
             b2 == [base EXCEPT ![c] = IF Satisfied(e) THEN Len(listed) + 1
                                       ELSE IF f.gen[c] = forest.gen[c] THEN base[c] ELSE 0]
             applies == ~Newer(e.applies[1], forest.ver[Main])
             known == IF f.gen[e.comp] = forest.gen[e.comp] THEN base[e.comp] ELSE 0
  <2>1. forest.ver[Main] = Installed[Main]
    BY <1>1, PatchSetAssumption DEF Good
  <2>2. applies <=> Satisfied(e)
    BY <2>1 DEF Satisfied
  <2>3. /\ forest' = f
        /\ ListPatch(f, e, << >>, IF applies THEN 1 ELSE 0)
        /\ base' = [base EXCEPT ![e.comp] = IF applies THEN Len(listed) + 1 ELSE known]
    BY <1>3 DEF AddBase
  <2>4. base' = b2
    BY <2>2, <2>3
  <2>5. [k \in 1..Len(<< >>) |-> Node(f, e.comp, << >>[k])] = << >>
    OBVIOUS
  <2>6. patches' = <<new>> \o patches
    BY <2>2, <2>3, <2>5 DEF ListPatch
  <2> HIDE DEF new, b2, applies, known
  <2>7. Matches(f, <<new>> \o patches, Append(listed, e), b2)
    <3> HIDE DEF f, c
    <3>1. c = e.comp /\ f = Grown(forest, c, e.ver)
      BY DEF c, f
    <3>2. f.visible[c] /\ f.ver[c] = e.ver /\ ~Obsolete(forest, c, e.ver)
      BY <1>3
    <3>3. /\ new = [id |-> Len(listed) + 1, node |-> Node(f, c, e.ver), size |-> SizeK(e.size),
                    refcount |-> IF Satisfied(e) THEN 1 ELSE 0, apply |-> << >>]
          /\ b2 = [base EXCEPT ![c] = IF Satisfied(e) THEN Len(listed) + 1
                                      ELSE IF f.gen[c] = forest.gen[c] THEN base[c] ELSE 0]
      BY DEF new, b2
    <3>4. BaseAdded(forest, f, c, new, listed, e, base, b2)
      BY <3>1, <3>2, <3>3 DEF BaseAdded
    <3>5. QED
      BY <3>4, BaseListed
  <2>8. QED
    BY <1>1, <2>3, <2>4, <2>6, <2>7
<1>4. CASE /\ ~Obsolete(forest, c, e.ver) /\ ~(f.visible[c] /\ f.ver[c] = e.ver)
           /\ AddUpgrade(f, e)
  <2> DEFINE h == GrownBy(f, c, e.applies)
             links == { w \in ToSet(e.applies) : ~Obsolete(f, c, w) /\ Legal(w, e.ver) }
             o == Only(e.applies, links)
             new == [id |-> Len(listed) + 1, node |-> Node(h, c, e.ver), size |-> SizeK(e.size),
                     refcount |-> 0, apply |-> [k \in 1..Len(o) |-> Node(h, c, o[k])]]
  <2>1. /\ forest' = h /\ h.gen[c] = f.gen[c]
        /\ ListPatch(h, e, o, 0) /\ UNCHANGED <<base, broken>>
    BY <1>1, <1>4 DEF AddUpgrade
  <2>2. patches' = <<new>> \o patches
    BY <2>1 DEF ListPatch
  <2> HIDE DEF new, h, links, o
  <2>3. Matches(h, <<new>> \o patches, Append(listed, e), base)
    <3> HIDE DEF f, c
    <3>1. c = e.comp /\ f = Grown(forest, c, e.ver) /\ h = GrownBy(f, c, e.applies)
      BY DEF c, f, h
    <3>2. ~(f.visible[c] /\ f.ver[c] = e.ver) /\ ~Obsolete(forest, c, e.ver) /\ h.gen[c] = f.gen[c]
      BY <1>4, <2>1
    <3>3. /\ links = { w \in ToSet(e.applies) : ~Obsolete(f, c, w) /\ Legal(w, e.ver) }
          /\ o = Only(e.applies, links)
          /\ new = [id |-> Len(listed) + 1, node |-> Node(h, c, e.ver), size |-> SizeK(e.size),
                    refcount |-> 0, apply |-> [k \in 1..Len(o) |-> Node(h, c, o[k])]]
      BY DEF links, o, new
    <3>4. UpgradeAdded(forest, f, h, c, links, o, new, listed, e)
      BY <3>1, <3>2, <3>3 DEF UpgradeAdded
    <3>5. QED
      BY <3>4, UpgradeListed
  <2>4. QED
    BY <1>1, <2>1, <2>2, <2>3
<1>5. QED
  BY <1>2, <1>3, <1>4 DEF AddPatch

(* The patches match the list until they are loaded.                       *)
LEMMA ListStays ==
  ASSUME PatchesMatch, [Next]_vars
  PROVE  PatchesMatch'
<1>1. CASE \E e \in Entries : AddPatch(e)
  <2>1. PICK e \in Entries : AddPatch(e)
    BY <1>1
  <2>2. phase = "listing" /\ ~broken /\ phase' = phase
        /\ UNCHANGED <<path, depth, selected, toggled, ticked>>
    BY <2>1 DEF AddPatch
  <2>3. Untouched /\ Matches(forest, patches, listed, base)
    BY <2>2 DEF PatchesMatch
  <2>4. Untouched'
    BY <2>2, <2>3 DEF Untouched
  <2>5. ~broken' => Matches(forest', patches', listed', base')
    BY <2>1, <2>3, ListGoesOn
  <2>6. QED
    BY <2>4, <2>5 DEF PatchesMatch
<1>2. CASE LoadDone
  BY <1>2 DEF LoadDone, PatchesMatch
<1>3. CASE \E n \in Offered : Tick(n) \/ Untick(n) \/ CleanupUpdate(n)
  BY <1>3 DEF Tick, Untick, CleanupUpdate, PatchesMatch
<1>4. CASE Proceed
  BY <1>4 DEF Proceed, PatchesMatch
<1>5. CASE UNCHANGED vars
  BY <1>5 DEF vars, PatchesMatch, Untouched
<1>6. QED
  BY <1>1, <1>2, <1>3, <1>4, <1>5 DEF Next

-----------------------------------------------------------------------------
(***************************************************************************)
(* find_shortest_path(): the search finds every version that patches lead  *)
(* to, and finds the nearest first.                                        *)
(***************************************************************************)
Seen == [node : NodeRecords, parent : Nat]

LinksTo(m, n) == \E p \in ToSet(patches) : Adjacent(m, p) /\ p.node = n

New(x, p) == \A j \in DOMAIN x : x[j].node # p.node

(* The patches in the order they were listed in.                           *)
LEMMA PatchParts ==
  ASSUME patches \in Seq(PatchRecords)
  PROVE  /\ Len(patches) \in Nat
         /\ \A k \in 1..Len(patches) : /\ patches[Len(patches) + 1 - k] \in PatchRecords
                                       /\ patches[Len(patches) + 1 - k] \in ToSet(patches)
                                       /\ patches[Len(patches) + 1 - k].node \in NodeRecords
         /\ \A p \in ToSet(patches) :
              \E k \in 1..Len(patches) : p = patches[Len(patches) + 1 - k]
         /\ \A p \in ToSet(patches) : p \in PatchRecords /\ p.node \in NodeRecords
<1> DEFINE n == Len(patches)
<1>1. n \in Nat /\ DOMAIN patches = 1..n /\ \A j \in 1..n : patches[j] \in PatchRecords
  OBVIOUS
<1>2. \A p \in PatchRecords : p.node \in NodeRecords
  BY DEF PatchRecords
<1> HIDE DEF n
<1>3. \A k \in 1..n : n + 1 - k \in 1..n
  BY <1>1
<1>4. \A k \in 1..n : patches[n + 1 - k] \in ToSet(patches)
  BY <1>1, <1>3 DEF ToSet
<1>5. ASSUME NEW p \in ToSet(patches)
      PROVE  /\ p \in PatchRecords
             /\ \E k \in 1..n : p = patches[n + 1 - k]
  <2>1. PICK j \in 1..n : p = patches[j]
    BY <1>1 DEF ToSet
  <2>2. n + 1 - j \in 1..n /\ n + 1 - (n + 1 - j) = j
    BY <1>1
  <2>3. QED
    BY <1>1, <2>1, <2>2
<1>6. QED
  BY <1>1, <1>2, <1>3, <1>4, <1>5 DEF n

(* The function that Expand is the last value of.                          *)
LEMMA ExpandIs ==
  ASSUME patches \in Seq(PatchRecords), NEW seen \in Seq(Seen), NEW e \in 1..Len(seen)
  PROVE  \E f \in [0..Len(patches) -> Seq(Seen)] :
           /\ f[0] = seen
           /\ \A i \in 1..Len(patches) : f[i] = IF /\ Adjacent(seen[e].node, patches[Len(patches) + 1 - i])
                                  /\ New(f[i - 1], patches[Len(patches) + 1 - i])
                               THEN Append(f[i - 1], [node |-> patches[Len(patches) + 1 - i].node, parent |-> e])
                               ELSE f[i - 1]
           /\ Expand(seen, e) = f[Len(patches)]
<1> DEFINE n == Len(patches)
           X == Seq(Seen)
           G(i, x) == IF /\ Adjacent(seen[e].node, patches[Len(patches) + 1 - i])
                                  /\ New(x, patches[Len(patches) + 1 - i])
                               THEN Append(x, [node |-> patches[Len(patches) + 1 - i].node, parent |-> e])
                               ELSE x
           R(f) == f = [i \in 0..n |-> IF i = 0 THEN seen ELSE G(i, f[i - 1])]
           f == CHOOSE h : R(h)
<1>1. Expand(seen, e) = f[n]
  BY DEF Expand, New
<1>2. n \in Nat /\ seen \in X
  BY PatchParts
<1>3. ASSUME NEW i \in 1..n, NEW x \in X PROVE G(i, x) \in X
  <2>1. e \in Nat /\ patches[Len(patches) + 1 - i].node \in NodeRecords
    BY PatchParts DEF n
  <2>2. [node |-> patches[Len(patches) + 1 - i].node, parent |-> e] \in Seen
    BY <2>1 DEF Seen
  <2>3. Append(x, [node |-> patches[Len(patches) + 1 - i].node, parent |-> e]) \in X
    BY <2>2
  <2>4. QED
    BY <2>3
<1> HIDE DEF n, X, G
<1>4. PICK g \in [0..n -> X] : g[0] = seen /\ \A i \in 1..n : g[i] = G(i, g[i - 1])
  <2> DEFINE step == [q \in (1..n) \X X |-> G(q[1], q[2])]
  <2>1. \A i \in 1..n : \A x \in X : step[<<i, x>>] = G(i, x)
    OBVIOUS
  <2> HIDE DEF step
  <2>2. \A i \in 1..n : \A x \in X : step[<<i, x>>] \in X
    BY <1>3, <2>1
  <2>3. PICK g \in [0..n -> X] : Iterated(g, n, seen, step)
    BY <1>2, <2>2, Iterates
  <2>4. \A i \in 1..n : i - 1 \in 0..n /\ g[i - 1] \in X
    BY <1>2
  <2>5. \A i \in 1..n : g[i] = G(i, g[i - 1])
    BY <2>1, <2>3, <2>4 DEF Iterated
  <2>6. QED
    BY <2>3, <2>5 DEF Iterated
<1>5. R(g)
  <2>1. \A i \in 0..n : i # 0 => i \in 1..n
    BY <1>2
  <2>2. \A i \in 0..n : g[i] = IF i = 0 THEN seen ELSE G(i, g[i - 1])
    BY <1>4, <2>1
  <2>3. g = [i \in 0..n |-> g[i]]
    OBVIOUS
  <2>4. QED
    BY <2>2, <2>3
<1>6. R(f)
  <2> HIDE DEF R
  <2> QED BY <1>5
<1> HIDE DEF f
<1>7. /\ DOMAIN f = 0..n /\ f[0] = seen
      /\ \A i \in 1..n : f[i] = G(i, f[i - 1])
  <2>1. 0 \in 0..n /\ \A i \in 1..n : i \in 0..n /\ i # 0
    BY <1>2
  <2>2. \A i \in 0..n : f[i] = IF i = 0 THEN seen ELSE G(i, f[i - 1])
    BY <1>6
  <2>3. DOMAIN f = 0..n
    BY <1>6
  <2> HIDE DEF R
  <2>4. QED
    BY <2>1, <2>2, <2>3
<1>8. \A i \in 0..n : f[i] = g[i]
  <2> DEFINE W == { m \in Nat : m <= n /\ f[m] # g[m] }
  <2>1. 0 \notin W
    BY <1>4, <1>7
  <2>2. ASSUME NEW m \in Nat, m \notin W PROVE m + 1 \notin W
    <3>1. CASE m + 1 <= n
      <4>1. m + 1 \in 1..n /\ (m + 1) - 1 = m /\ f[m] = g[m]
        BY <1>2, <2>2, <3>1
      <4>2. QED
        BY <1>4, <1>7, <4>1
    <3>2. QED
      BY <3>1
  <2>3. W = {}
    <3> HIDE DEF W
    <3> QED BY <2>1, <2>2, NoLeast DEF W
  <2>4. QED
    BY <1>2, <2>3
<1>9. f = g
  <2>1. DOMAIN f = DOMAIN g /\ DOMAIN g = 0..n
    BY <1>7
  <2>2. f = [i \in 0..n |-> f[i]] /\ g = [i \in 0..n |-> g[i]]
    BY <1>6, <2>1
  <2>3. QED
    BY <1>8, <2>2
<1>10. QED
  BY <1>1, <1>4, <1>9 DEF n, X, G

Distinct(M) == \A i, j \in 1..Len(M) : M[i].node = M[j].node => i = j

(* The k latest patches were looked at for edges from the e-th.            *)
Partly(M, seen, e, k) ==
  /\ M \in Seq(Seen) /\ Len(seen) <= Len(M) /\ Distinct(M)
  /\ \A j \in 1..Len(seen) : M[j] = seen[j]
  /\ \A j \in Len(seen) + 1 .. Len(M) :
       M[j].parent = e /\ LinksTo(seen[e].node, M[j].node)
  /\ \A q \in 1..k :
       Adjacent(seen[e].node, patches[Len(patches) + 1 - q]) =>
         \E j \in 1..Len(M) : M[j].node = patches[Len(patches) + 1 - q].node

(* What a node adds to the search: its neighbours that are new.            *)
LEMMA ExpandsPartly ==
  ASSUME patches \in Seq(PatchRecords), NEW seen \in Seq(Seen), Distinct(seen),
         NEW e \in 1..Len(seen)
  PROVE  Partly(Expand(seen, e), seen, e, Len(patches))
<1> DEFINE n == Len(patches)
           P(k) == patches[n + 1 - k]
           m == seen[e].node
<1>1. PICK f \in [0..n -> Seq(Seen)] :
        /\ f[0] = seen
        /\ \A i \in 1..n : f[i] = IF Adjacent(m, P(i)) /\ New(f[i - 1], P(i))
                                  THEN Append(f[i - 1], [node |-> P(i).node, parent |-> e])
                                  ELSE f[i - 1]
        /\ Expand(seen, e) = f[n]
  BY ExpandIs
<1>2. /\ n \in Nat /\ Len(seen) \in Nat /\ e \in Nat
      /\ \A i \in 1..n : P(i) \in ToSet(patches) /\ P(i).node \in NodeRecords
  BY PatchParts
<1>3. \A i \in 0..n : f[i] \in Seq(Seen) /\ Len(f[i]) \in Nat /\ DOMAIN f[i] = 1..Len(f[i])
  OBVIOUS
<1> DEFINE W == { k \in Nat : k <= n /\ ~Partly(f[k], seen, e, k) }
<1> HIDE DEF n, m
<1>4. 0 \notin W
  <2>1. Partly(seen, seen, e, 0)
    BY <1>2 DEF Partly
  <2>2. QED
    BY <1>1, <2>1
<1>5. ASSUME NEW k \in Nat, k \notin W PROVE k + 1 \notin W
  <2> SUFFICES ASSUME k + 1 <= n PROVE Partly(f[k + 1], seen, e, k + 1)
    OBVIOUS
  <2> DEFINE M == f[k]
             N == f[k + 1]
             p == P(k + 1)
             L == Len(M)
  <2>1. k + 1 \in 1..n /\ (k + 1) - 1 = k /\ k \in 0..n /\ k + 1 \in 0..n
    BY <1>2
  <2>2. Partly(M, seen, e, k)
    BY <1>5, <2>1
  <2>3. N = IF Adjacent(m, p) /\ New(M, p)
            THEN Append(M, [node |-> p.node, parent |-> e]) ELSE M
    BY <1>1, <2>1
  <2>4. M \in Seq(Seen) /\ L \in Nat /\ DOMAIN M = 1..L /\ N \in Seq(Seen) /\ p.node \in NodeRecords
        /\ p \in ToSet(patches)
    BY <1>2, <1>3, <2>1
  <2> HIDE DEF M, N, P
  <2>5. \A q \in 1..k + 1 : q \in 1..k \/ q = k + 1
    OBVIOUS
  <2>6. CASE ~(Adjacent(m, p) /\ New(M, p))
    <3>1. N = M
      BY <2>3, <2>6
    <3>2. Adjacent(m, p) => \E j \in 1..L : M[j].node = p.node
      BY <2>4, <2>6 DEF New
    <3>3. \A q \in 1..k + 1 :
            Adjacent(seen[e].node, patches[Len(patches) + 1 - q]) =>
              \E j \in 1..Len(M) : M[j].node = patches[Len(patches) + 1 - q].node
      <4> SUFFICES ASSUME NEW q \in 1..k + 1, Adjacent(m, P(q))
                   PROVE  \E j \in 1..L : M[j].node = P(q).node
        BY DEF m, P, n
      <4>1. CASE q \in 1..k
        BY <2>2, <4>1 DEF Partly, m, P, n
      <4>2. CASE q = k + 1
        BY <3>2, <4>2
      <4>3. QED
        BY <2>5, <4>1, <4>2
    <3>4. QED
      BY <2>2, <3>1, <3>3 DEF Partly, M, N
  <2>7. CASE Adjacent(m, p) /\ New(M, p)
    <3> DEFINE new == [node |-> p.node, parent |-> e]
    <3>1. /\ new \in Seen /\ new.node = p.node /\ new.parent = e
      BY <1>2, <2>4 DEF Seen
    <3> HIDE DEF new, L
    <3>2. N = Append(M, new)
      BY <2>3, <2>7 DEF new
    <3>3. /\ Len(N) = L + 1 /\ N[L + 1] = new
          /\ \A j \in 1..L : N[j] = M[j]
      BY <2>4, <3>1, <3>2, AppendProperties DEF L
    <3>4. Distinct(N)
      <4>1. \A j \in 1..L : M[j].node # p.node
        BY <2>4, <2>7 DEF New
      <4> SUFFICES ASSUME NEW i \in 1..L + 1, NEW j \in 1..L + 1, i < j
                   PROVE  N[i].node # N[j].node
        BY <2>4, <3>3 DEF Distinct
      <4>2. i \in 1..L /\ N[i] = M[i]
        BY <2>4, <3>3
      <4>3. CASE j = L + 1
        BY <3>1, <3>3, <4>1, <4>2, <4>3
      <4>4. CASE j # L + 1
        <5>1. j \in 1..L /\ N[j] = M[j]
          BY <2>4, <3>3, <4>4
        <5>2. QED
          BY <2>2, <4>2, <5>1 DEF Partly, Distinct, L
      <4>5. QED
        BY <4>3, <4>4
    <3>5. Len(seen) <= L /\ \A j \in 1..Len(seen) : M[j] = seen[j]
      BY <2>2 DEF Partly, L
    <3>6. Len(seen) <= L + 1 /\ \A j \in 1..Len(seen) : N[j] = seen[j]
      <4>1. \A j \in 1..Len(seen) : j \in 1..L
        BY <1>2, <2>4, <3>5
      <4>2. QED
        BY <1>2, <2>4, <3>3, <3>5, <4>1
    <3>7. \A j \in Len(seen) + 1 .. L + 1 : N[j].parent = e /\ LinksTo(m, N[j].node)
      <4> SUFFICES ASSUME NEW j \in Len(seen) + 1 .. L + 1
                   PROVE  N[j].parent = e /\ LinksTo(m, N[j].node)
        OBVIOUS
      <4>1. CASE j = L + 1
        BY <2>4, <2>7, <3>1, <3>3, <4>1 DEF LinksTo
      <4>2. CASE j # L + 1
        <5>1. j \in Len(seen) + 1 .. L /\ j \in 1..L
          BY <1>2, <2>4, <4>2
        <5>2. M[j].parent = e /\ LinksTo(m, M[j].node)
          BY <2>2, <5>1 DEF Partly, L, m
        <5>3. QED
          BY <3>3, <5>1, <5>2
      <4>3. QED
        BY <4>1, <4>2
    <3>8. \A q \in 1..k + 1 : Adjacent(m, P(q)) => \E j \in 1..L + 1 : N[j].node = P(q).node
      <4> SUFFICES ASSUME NEW q \in 1..k + 1, Adjacent(m, P(q))
                   PROVE  \E j \in 1..L + 1 : N[j].node = P(q).node
        OBVIOUS
      <4>1. CASE q \in 1..k
        <5>1. PICK j \in 1..L : M[j].node = P(q).node
          BY <2>2, <4>1 DEF Partly, m, P, n, L
        <5>2. j \in 1..L + 1 /\ N[j] = M[j]
          BY <2>4, <3>3
        <5>3. QED
          BY <5>1, <5>2
      <4>2. CASE q = k + 1
        <5>1. L + 1 \in 1..L + 1 /\ N[L + 1].node = P(q).node
          BY <2>4, <3>1, <3>3, <4>2
        <5>2. QED
          BY <5>1
      <4>3. QED
        BY <2>5, <4>1, <4>2
    <3>9. Partly(N, seen, e, k + 1)
      BY <2>4, <3>3, <3>4, <3>6, <3>7, <3>8 DEF Partly, m, P, n
    <3>10. QED
      BY <3>9 DEF N
  <2>8. QED
    BY <2>6, <2>7
<1>6. W = {}
  <2> HIDE DEF W
  <2> QED BY <1>4, <1>5, NoLeast DEF W
<1>7. Partly(f[n], seen, e, n)
  BY <1>2, <1>6
<1>8. QED
  BY <1>1, <1>7 DEF n

(* A search from r, after the first i were expanded.                       *)
Searched(F, r, i) ==
  /\ F \in Seq(Seen) /\ F # << >> /\ F[1] = [node |-> r, parent |-> 0] /\ Distinct(F)
  /\ \A k \in 2..Len(F) : /\ F[k].parent \in 1..k - 1 /\ F[k].parent <= i
                          /\ LinksTo(F[F[k].parent].node, F[k].node)
  /\ \A j, k \in 1..Len(F) : j < k => F[j].parent <= F[k].parent
  /\ \A j \in 1..Len(F) : j <= i =>
       \A p \in ToSet(patches) : Adjacent(F[j].node, p) =>
         \E k \in 1..Len(F) : F[k].node = p.node /\ F[k].parent <= j

(* The search after one node more has been expanded.                       *)
LEMMA SearchGoesOn ==
  ASSUME patches \in Seq(PatchRecords), NEW r, NEW i \in Nat, NEW F, Searched(F, r, i)
  PROVE  Searched(Expand(F, i + 1), r, i + 1)
<1> DEFINE e == i + 1
           L == Len(F)
<1>1. /\ F \in Seq(Seen) /\ L \in Nat /\ L >= 1 /\ Distinct(F) /\ e \in Nat
      /\ F[1] = [node |-> r, parent |-> 0]
      /\ \A k \in 1..L : F[k] \in Seen /\ F[k].parent \in Nat
  <2>1. F \in Seq(Seen) /\ F # << >> /\ Distinct(F) /\ F[1] = [node |-> r, parent |-> 0]
    BY DEF Searched
  <2>2. \A k \in 1..L : F[k] \in Seen
    BY <2>1
  <2>3. QED
    BY <2>1, <2>2 DEF Seen
<1>2. CASE e > L
  <2>1. Expand(F, e) = F
    BY <1>2 DEF Expand
  <2>2. \A k \in 2..L : F[k].parent <= e
    <3> SUFFICES ASSUME NEW k \in 2..L PROVE F[k].parent <= i + 1
      OBVIOUS
    <3>1. F[k].parent \in Nat /\ F[k].parent <= i
      BY <1>1 DEF Searched
    <3>2. QED
      BY <3>1
  <2>3. \A j \in 1..L : j <= i
    BY <1>1, <1>2
  <2>4. Searched(F, r, e)
    BY <2>2, <2>3 DEF Searched
  <2>5. QED
    BY <2>1, <2>4
<1>3. CASE e <= L
  <2> DEFINE N == Expand(F, e)
             K == Len(N)
  <2>1. e \in 1..L
    BY <1>1, <1>3
  <2>2. Partly(N, F, e, Len(patches))
    BY <1>1, <2>1, ExpandsPartly
  <2> HIDE DEF N
  <2>3. /\ N \in Seq(Seen) /\ K \in Nat /\ L <= K /\ Distinct(N)
        /\ \A j \in 1..L : N[j] = F[j]
        /\ \A j \in L + 1 .. K : N[j].parent = e /\ LinksTo(F[e].node, N[j].node)
    BY <2>2 DEF Partly
  <2> HIDE DEF K, L
  <2>4. \A j \in 1..K : j \in 1..L \/ j \in L + 1 .. K
    BY <1>1, <2>3
  <2>5. \A j \in 1..L : j \in 1..K
    BY <1>1, <2>3
  <2>6. \A k \in 1..L : F[k].parent <= i
    <3> SUFFICES ASSUME NEW k \in 1..L PROVE F[k].parent <= i
      OBVIOUS
    <3>1. CASE k = 1
      BY <1>1, <3>1
    <3>2. CASE k # 1
      <4>1. k \in 2..L
        BY <1>1, <3>2
      <4>2. QED
        BY <4>1 DEF Searched, L
    <3>3. QED
      BY <3>1, <3>2
  <2>7. N # << >> /\ N[1] = [node |-> r, parent |-> 0]
    <3>1. 1 \in 1..L /\ 1 \in 1..K
      BY <1>1, <2>3
    <3>2. QED
      BY <1>1, <2>3, <3>1 DEF K
  <2>8. ASSUME NEW k \in 2..K
        PROVE  N[k].parent \in 1..k - 1 /\ N[k].parent <= e /\ LinksTo(N[N[k].parent].node, N[k].node)
    <3>1. CASE k \in 1..L
      <4>1. k \in 2..L /\ N[k] = F[k]
        BY <1>1, <2>3, <3>1
      <4>2. F[k].parent \in 1..k - 1 /\ F[k].parent <= i /\ LinksTo(F[F[k].parent].node, F[k].node)
        BY <4>1 DEF Searched, L
      <4>3. F[k].parent \in 1..L
        BY <1>1, <4>1, <4>2
      <4>4. N[F[k].parent] = F[F[k].parent] /\ F[k].parent <= e
        BY <2>3, <4>2, <4>3
      <4>5. QED
        BY <4>1, <4>2, <4>4
    <3>2. CASE k \in L + 1 .. K
      <4>1. N[k].parent = e /\ LinksTo(F[e].node, N[k].node) /\ N[e] = F[e]
        BY <2>1, <2>3, <3>2
      <4>2. e \in 1..k - 1
        BY <1>1, <2>1, <3>2
      <4>3. QED
        BY <1>1, <4>1, <4>2
    <3>3. k \in 1..K
      BY <2>3
    <3>4. QED
      BY <2>4, <3>1, <3>2, <3>3
  <2>9. ASSUME NEW j \in 1..K, NEW k \in 1..K, j < k PROVE N[j].parent <= N[k].parent
    <3>1. CASE k \in 1..L
      <4>1. j \in 1..L /\ N[j] = F[j] /\ N[k] = F[k]
        BY <1>1, <2>3, <2>9, <3>1
      <4>2. F[j].parent <= F[k].parent
        BY <2>9, <3>1, <4>1 DEF Searched, L
      <4>3. QED
        BY <4>1, <4>2
    <3>2. CASE k \in L + 1 .. K
      <4>1. N[k].parent = e
        BY <2>3, <3>2
      <4>2. CASE j \in 1..L
        <5>1. N[j] = F[j] /\ F[j].parent <= i /\ F[j].parent \in Nat
          BY <1>1, <2>3, <2>6, <4>2
        <5>2. QED
          BY <4>1, <5>1
      <4>3. CASE j \in L + 1 .. K
        <5>1. N[j].parent = e
          BY <2>3, <4>3
        <5>2. QED
          BY <1>1, <4>1, <5>1
      <4>4. QED
        BY <2>4, <4>2, <4>3
    <3>3. QED
      BY <2>4, <3>1, <3>2
  <2>10. ASSUME NEW j \in 1..K, j <= e, NEW p \in ToSet(patches), Adjacent(N[j].node, p)
         PROVE  \E k \in 1..K : N[k].node = p.node /\ N[k].parent <= j
    <3>1. j \in 1..L /\ N[j] = F[j]
      BY <1>1, <1>3, <2>3, <2>10
    <3>2. CASE j <= i
      <4>1. PICK k \in 1..L : F[k].node = p.node /\ F[k].parent <= j
        BY <2>10, <3>1, <3>2 DEF Searched, L
      <4>2. QED
        BY <2>3, <2>5, <4>1
    <3>3. CASE j = e
      <4>1. PICK q \in 1..Len(patches) : p = patches[Len(patches) + 1 - q]
        BY PatchParts
      <4>2. Adjacent(F[e].node, patches[Len(patches) + 1 - q])
        BY <2>10, <3>1, <3>3, <4>1
      <4>3. PICK k \in 1..K : N[k].node = p.node
        BY <2>2, <4>1, <4>2 DEF Partly, K
      <4>4. N[k].parent <= e
        <5>1. CASE k \in 1..L
          <6>1. N[k] = F[k] /\ F[k].parent <= i /\ F[k].parent \in Nat
            BY <1>1, <2>3, <2>6, <5>1
          <6>2. QED
            BY <6>1
        <5>2. CASE k \in L + 1 .. K
          BY <1>1, <2>3, <5>2
        <5>3. QED
          BY <2>4, <5>1, <5>2
      <4>5. QED
        BY <3>3, <4>3, <4>4
    <3>4. QED
      BY <2>10, <3>1, <3>2, <3>3
  <2>11. Searched(N, r, e)
    BY <2>3, <2>7, <2>8, <2>9, <2>10 DEF Searched, K
  <2>12. QED
    BY <2>11 DEF N
<1>4. QED
  BY <1>1, <1>2, <1>3

(* The search at its root.                                                 *)
LEMMA SearchStarts ==
  ASSUME NEW r \in NodeRecords
  PROVE  Searched(<<[node |-> r, parent |-> 0]>>, r, 0)
<1> DEFINE a == [node |-> r, parent |-> 0]
           F == <<a>>
<1>1. a \in Seen /\ a.parent = 0
  BY DEF Seen
<1> HIDE DEF a
<1>2. F \in Seq(Seen) /\ Len(F) = 1 /\ F[1] = a /\ F # << >>
  BY <1>1
<1> HIDE DEF F
<1>3. \A j \in 1..Len(F) : j = 1
  BY <1>2
<1>4. Distinct(F)
  BY <1>3 DEF Distinct
<1>5. \A k \in 2..Len(F) : FALSE
  BY <1>2
<1>6. \A j, k \in 1..Len(F) : ~(j < k)
  BY <1>2
<1>7. \A j \in 1..Len(F) : ~(j <= 0)
  BY <1>2
<1>8. QED
  BY <1>2, <1>4, <1>5, <1>6, <1>7 DEF Searched, F, a

(* The function that Found is the last value of.                           *)
LEMMA FoundIs ==
  ASSUME patches \in Seq(PatchRecords), NEW r \in NodeRecords, NEW size \in Nat
  PROVE  \E f \in [0..size -> Seq(Seen)] :
           /\ f[0] = <<[node |-> r, parent |-> 0]>>
           /\ \A i \in 1..size : f[i] = Expand(f[i - 1], i)
           /\ Found(r, size) = f[size]
<1> DEFINE n == size
           X == Seq(Seen)
           G(i, x) == Expand(x, i)
           R(f) == f = [i \in 0..n |-> IF i = 0 THEN <<[node |-> r, parent |-> 0]>> ELSE G(i, f[i - 1])]
           f == CHOOSE h : R(h)
<1>1. Found(r, size) = f[n]
  BY DEF Found
<1>2. n \in Nat /\ <<[node |-> r, parent |-> 0]>> \in X
  <2>1. [node |-> r, parent |-> 0] \in Seen
    BY DEF Seen
  <2>2. QED
    BY <2>1
<1>3. ASSUME NEW i \in 1..n, NEW x \in X PROVE G(i, x) \in X
  <2>1. CASE i > Len(x)
    BY <2>1 DEF Expand
  <2>2. CASE ~(i > Len(x))
    <3>1. Len(x) \in Nat /\ i \in 1..Len(x)
      BY <2>2
    <3>2. \E g \in [0..Len(patches) -> Seq(Seen)] : Expand(x, i) = g[Len(patches)]
      BY <3>1, ExpandIs DEF X
    <3>3. Len(patches) \in 0..Len(patches)
      BY PatchParts
    <3>4. QED
      BY <3>2, <3>3
  <2>3. QED
    BY <2>1, <2>2
<1> HIDE DEF n, X, G
<1>4. PICK g \in [0..n -> X] : g[0] = <<[node |-> r, parent |-> 0]>> /\ \A i \in 1..n : g[i] = G(i, g[i - 1])
  <2> DEFINE step == [q \in (1..n) \X X |-> G(q[1], q[2])]
  <2>1. \A i \in 1..n : \A x \in X : step[<<i, x>>] = G(i, x)
    OBVIOUS
  <2> HIDE DEF step
  <2>2. \A i \in 1..n : \A x \in X : step[<<i, x>>] \in X
    BY <1>3, <2>1
  <2>3. PICK g \in [0..n -> X] : Iterated(g, n, <<[node |-> r, parent |-> 0]>>, step)
    BY <1>2, <2>2, Iterates
  <2>4. \A i \in 1..n : i - 1 \in 0..n /\ g[i - 1] \in X
    BY <1>2
  <2>5. \A i \in 1..n : g[i] = G(i, g[i - 1])
    BY <2>1, <2>3, <2>4 DEF Iterated
  <2>6. QED
    BY <2>3, <2>5 DEF Iterated
<1>5. R(g)
  <2>1. \A i \in 0..n : i # 0 => i \in 1..n
    BY <1>2
  <2>2. \A i \in 0..n : g[i] = IF i = 0 THEN <<[node |-> r, parent |-> 0]>> ELSE G(i, g[i - 1])
    BY <1>4, <2>1
  <2>3. g = [i \in 0..n |-> g[i]]
    OBVIOUS
  <2>4. QED
    BY <2>2, <2>3
<1>6. R(f)
  <2> HIDE DEF R
  <2> QED BY <1>5
<1> HIDE DEF f
<1>7. /\ DOMAIN f = 0..n /\ f[0] = <<[node |-> r, parent |-> 0]>>
      /\ \A i \in 1..n : f[i] = G(i, f[i - 1])
  <2>1. 0 \in 0..n /\ \A i \in 1..n : i \in 0..n /\ i # 0
    BY <1>2
  <2>2. \A i \in 0..n : f[i] = IF i = 0 THEN <<[node |-> r, parent |-> 0]>> ELSE G(i, f[i - 1])
    BY <1>6
  <2>3. DOMAIN f = 0..n
    BY <1>6
  <2> HIDE DEF R
  <2>4. QED
    BY <2>1, <2>2, <2>3
<1>8. \A i \in 0..n : f[i] = g[i]
  <2> DEFINE W == { m \in Nat : m <= n /\ f[m] # g[m] }
  <2>1. 0 \notin W
    BY <1>4, <1>7
  <2>2. ASSUME NEW m \in Nat, m \notin W PROVE m + 1 \notin W
    <3>1. CASE m + 1 <= n
      <4>1. m + 1 \in 1..n /\ (m + 1) - 1 = m /\ f[m] = g[m]
        BY <1>2, <2>2, <3>1
      <4>2. f[m + 1] = G(m + 1, f[m]) /\ g[m + 1] = G(m + 1, g[m])
        BY <1>4, <1>7, <4>1
      <4>3. QED
        BY <4>1, <4>2
    <3>2. QED
      BY <3>1
  <2>3. W = {}
    <3> HIDE DEF W
    <3> QED BY <2>1, <2>2, NoLeast DEF W
  <2>4. QED
    BY <1>2, <2>3
<1>9. f = g
  <2>1. DOMAIN f = DOMAIN g /\ DOMAIN g = 0..n
    BY <1>7
  <2>2. f = [i \in 0..n |-> f[i]] /\ g = [i \in 0..n |-> g[i]]
    BY <1>6, <2>1
  <2>3. QED
    BY <1>8, <2>2
<1>10. QED
  BY <1>1, <1>4, <1>9 DEF n, X, G

(* The search when as many nodes have been expanded as there are.          *)
LEMMA SearchEnds ==
  ASSUME patches \in Seq(PatchRecords), NEW r \in NodeRecords, NEW size \in Nat
  PROVE  Searched(Found(r, size), r, size)
<1>1. PICK f \in [0..size -> Seq(Seen)] :
        /\ f[0] = <<[node |-> r, parent |-> 0]>>
        /\ \A i \in 1..size : f[i] = Expand(f[i - 1], i)
        /\ Found(r, size) = f[size]
  BY FoundIs
<1> DEFINE W == { m \in Nat : m <= size /\ ~Searched(f[m], r, m) }
<1>2. 0 \notin W
  BY <1>1, SearchStarts
<1>3. ASSUME NEW m \in Nat, m \notin W PROVE m + 1 \notin W
  <2>1. CASE m + 1 <= size
    <3>1. m + 1 \in 1..size /\ (m + 1) - 1 = m /\ Searched(f[m], r, m)
      BY <1>3, <2>1
    <3>2. f[m + 1] = Expand(f[m], m + 1)
      BY <1>1, <3>1
    <3>3. Searched(Expand(f[m], m + 1), r, m + 1)
      BY <3>1, SearchGoesOn
    <3>4. QED
      BY <3>2, <3>3
  <2>2. QED
    BY <2>1
<1>4. W = {}
  <2> HIDE DEF W
  <2> QED BY <1>2, <1>3, NoLeast DEF W
<1>5. size \notin W
  <2> HIDE DEF W
  <2>1. QED
    BY <1>4
<1>6. QED
  BY <1>1, <1>5

-----------------------------------------------------------------------------
(***************************************************************************)
(* The trees and what the list says: the edges of a tree are the entries   *)
(* that connect two versions.                                              *)
(***************************************************************************)
Ready == Matches(forest, patches, listed, base)

(* What a complete listing is made of.                                     *)
LEMMA ReadyParts ==
  ASSUME Ready
  PROVE  /\ Good(forest) /\ listed \in Seq(Entries) /\ Len(listed) \in Nat
         /\ patches \in Seq(PatchRecords) /\ base \in [Components -> Nat]
         /\ \A p \in ToSet(patches) :
              /\ p \in PatchRecords /\ Fits(p, forest, listed) /\ FitsNow(p, forest, listed)
              /\ p.id \in 1..Len(listed) /\ listed[p.id] \in Entries
         /\ \A c : EntriesOf(c) = EntriesIn(listed, c)
         /\ \A c : \A k \in EntriesOf(c) : /\ listed[k] \in Entries /\ listed[k].comp = c
                                           /\ listed[k].ver \in Versions /\ listed[k].ver[1] \in Nat
                                           /\ k \in 1..Len(listed) /\ k \in Nat
<1>1. /\ Good(forest) /\ listed \in Seq(Entries)
      /\ patches \in Seq(PatchRecords) /\ base \in [Components -> Nat]
      /\ \A p \in ToSet(patches) : Fits(p, forest, listed) /\ FitsNow(p, forest, listed)
  BY DEF Ready, Matches
<1>2. Len(listed) \in Nat /\ DOMAIN listed = 1..Len(listed)
      /\ \A k \in 1..Len(listed) : listed[k] \in Entries
  BY <1>1
<1>3. \A p \in ToSet(patches) : p \in PatchRecords /\ p.id \in 1..Len(listed)
  BY <1>1 DEF Fits
<1>4. \A c : EntriesOf(c) = EntriesIn(listed, c)
  BY <1>2 DEF EntriesOf, EntriesIn
<1>5. \A c : \A k \in EntriesIn(listed, c) :
        listed[k] \in Entries /\ listed[k].comp = c /\ k \in 1..Len(listed) /\ k \in Nat
  BY <1>2 DEF EntriesIn
<1>6. \A k \in 1..Len(listed) : listed[k].ver \in Versions /\ listed[k].ver[1] \in Nat
  BY <1>2, EntryParts, VersionsAre
<1>7. QED
  BY <1>1, <1>2, <1>3, <1>4, <1>5, <1>6

(* Where an installed component is, and another one starts.                *)
LEMMA StartIs ==
  ASSUME Ready, NEW c \in ToSet(forest.order)
  PROVE  /\ c \in Components /\ forest.ver[c] = Start(c) /\ Start(c) \in Versions
         /\ Start(c)[1] \in Nat
         /\ c \in DOMAIN Installed <=> ~forest.visible[c]
         /\ \A k \in EntriesOf(c) :
              k \in Retained(c) /\ ~Newer(Start(c), listed[k].ver)
                <=> /\ Shown(k, forest, c, patches)
                    /\ ~(forest.visible[c] /\ listed[k].ver = Start(c))
<1>1. Good(forest) /\ EntriesOf(c) = EntriesIn(listed, c) /\ Len(listed) \in Nat
  BY ReadyParts
<1>2. c \in Components /\ forest.ver[c] \in Versions /\ forest.ver[c][1] \in Nat
  <2>1. forest.order \in Seq(Components) /\ forest.ver \in [Components -> Versions]
    BY <1>1, ForestParts
  <2>2. c \in Components
    BY <2>1 DEF ToSet
  <2>3. QED
    BY <2>1, <2>2, VersionsAre
<1>3. c \in DOMAIN Installed <=> ~forest.visible[c]
  BY <1>1 DEF Good
<1>4. Tracks(forest, c, patches, listed, base)
  BY <1>2 DEF Ready, Matches
<1>5. CASE c \in DOMAIN Installed
  <2>1. forest.ver[c] = Start(c) /\ Retained(c) = EntriesOf(c)
    BY <1>1, <1>5 DEF Good, Start, Retained, Upgrades
  <2>2. \A k \in EntriesOf(c) : Shown(k, forest, c, patches) <=> ~Newer(Start(c), listed[k].ver)
    BY <1>1, <1>4, <1>5, <2>1 DEF Tracks
  <2>3. QED
    BY <1>2, <1>3, <1>5, <2>1, <2>2
<1>6. CASE c \notin DOMAIN Installed
  <2>1. PICK low \in Nat : Since(low, forest, c, patches, listed, base)
    BY <1>4, <1>6 DEF Tracks
  <2> DEFINE S == { k \in EntriesOf(c) : \A j \in EntriesOf(c) : ~Newer(listed[k].ver, listed[j].ver) }
  <2>2. \A k \in EntriesOf(c) : k \in Nat /\ listed[k].ver \in Versions /\ listed[k].ver[1] \in Nat
    BY ReadyParts
  <2>3. low \in EntriesOf(c) /\ forest.ver[c] = listed[low].ver
    BY <1>1, <2>1 DEF Since
  <2>4. \A k \in EntriesOf(c) : /\ listed[low].ver[1] <= listed[k].ver[1]
                                /\ k < low => listed[low].ver[1] < listed[k].ver[1]
                                /\ Shown(k, forest, c, patches) <=> k >= low
    BY <1>1, <2>1, <2>3 DEF Since
  <2>5. low \in S
    BY <2>2, <2>3, <2>4 DEF Newer
  <2>6. \A k \in S : low <= k
    <3> SUFFICES ASSUME NEW k \in S, k < low PROVE FALSE
      BY <2>2
    <3>1. listed[low].ver[1] < listed[k].ver[1] /\ ~Newer(listed[k].ver, listed[low].ver)
      BY <2>3, <2>4
    <3>2. QED
      BY <2>2, <2>3, <3>1 DEF Newer
  <2>7. Lowest(c) = CHOOSE x \in S : \A y \in S : x <= y
    BY DEF Lowest, Min
  <2>8. \A x \in S : (\A y \in S : x <= y) => x = low
    BY <2>2, <2>5, <2>6
  <2>9. Lowest(c) = low
    <3> HIDE DEF S
    <3> QED BY <2>5, <2>6, <2>7, <2>8
  <2>10. forest.ver[c] = Start(c) /\ Start(c) = listed[low].ver
    BY <1>6, <2>3, <2>9 DEF Start
  <2>11. \A k \in EntriesOf(c) : k \in Retained(c) <=> k > low /\ listed[k].ver # Start(c)
    BY <1>6, <2>9 DEF Retained, Upgrades
  <2>12. forest.visible[c]
    BY <1>3, <1>6
  <2>13. \A k \in EntriesOf(c) :
              k \in Retained(c) /\ ~Newer(Start(c), listed[k].ver)
                <=> /\ Shown(k, forest, c, patches)
                    /\ ~(forest.visible[c] /\ listed[k].ver = Start(c))
    <3> SUFFICES ASSUME NEW k \in EntriesOf(c)
                 PROVE  k \in Retained(c) /\ ~Newer(Start(c), listed[k].ver)
                          <=> k >= low /\ listed[k].ver # Start(c)
      BY <2>4, <2>12
    <3>1. ~Newer(Start(c), listed[k].ver)
      <4>1. listed[low].ver[1] <= listed[k].ver[1]
        BY <2>4
      <4>2. listed[low].ver[1] \in Nat /\ listed[k].ver[1] \in Nat
        BY <2>2, <2>3
      <4>3. ~(listed[low].ver[1] > listed[k].ver[1])
        BY <4>1, <4>2
      <4>4. QED
        BY <2>10, <4>3 DEF Newer
    <3>2. k = low => listed[k].ver = Start(c)
      BY <2>10
    <3>3. QED
      BY <2>2, <2>11, <3>1, <3>2
  <2>14. QED
    BY <1>2, <1>3, <2>10, <2>13
<1>7. QED
  BY <1>5, <1>6

(* The base updates of what is not installed.                              *)
LEMMA BaseIs ==
  ASSUME Ready, NEW c \in Components
  PROVE  /\ c \in DOMAIN Installed => base[c] = 0
         /\ c \notin DOMAIN Installed /\ base[c] = 0 => EntriesOf(c) = {} \/ Bases(c) = {}
         /\ base[c] # 0 => c \in ToSet(forest.order) /\ base[c] \in Bases(c)
         /\ EntriesOf(c) # {} /\ c \notin DOMAIN Installed => c \in ToSet(forest.order)
<1>1. EntriesOf(c) = EntriesIn(listed, c) /\ Tracks(forest, c, patches, listed, base)
  BY ReadyParts DEF Ready, Matches
<1>2. CASE c \in DOMAIN Installed
  BY <1>1, <1>2 DEF Tracks
<1>3. CASE c \notin DOMAIN Installed /\ c \notin ToSet(forest.order)
  BY <1>1, <1>3 DEF Tracks
<1>4. CASE c \notin DOMAIN Installed /\ c \in ToSet(forest.order)
  <2>1. PICK low \in Nat : Since(low, forest, c, patches, listed, base)
    BY <1>1, <1>4 DEF Tracks
  <2>2. forest.ver[c] = Start(c)
    BY <1>4, StartIs
  <2>3. Bases(c) = { k \in EntriesOf(c) : listed[k].ver = Start(c) /\ Satisfied(listed[k]) }
    BY DEF Bases, Satisfied
  <2>4. base[c] = 0 => Bases(c) = {}
    BY <1>1, <2>1, <2>2, <2>3 DEF Since
  <2>5. base[c] # 0 => base[c] \in Bases(c)
    BY <1>1, <2>1, <2>2, <2>3 DEF Since
  <2>6. QED
    BY <1>4, <2>4, <2>5
<1>5. QED
  BY <1>2, <1>3, <1>4

(* What a patch that leads away from a version says.                       *)
LEMMA PatchConnects ==
  ASSUME Ready, NEW c \in ToSet(forest.order), NEW u \in Versions,
         NEW p \in ToSet(patches), Adjacent(Node(forest, c, u), p)
  PROVE  /\ p.id \in EntriesOf(c) /\ p.id \in Retained(c)
         /\ ~Newer(Start(c), listed[p.id].ver)
         /\ p.node = Node(forest, c, listed[p.id].ver)
         /\ listed[p.id].ver \in Has(forest, c)
         /\ Connects(p.id, u, listed[p.id].ver)
         /\ p.size = SizeK(listed[p.id].size)
<1> DEFINE e == listed[p.id]
<1>1. /\ Fits(p, forest, listed) /\ FitsNow(p, forest, listed) /\ Good(forest)
      /\ EntriesOf(c) = EntriesIn(listed, c) /\ p \in PatchRecords
  BY ReadyParts
<1>2. Node(forest, c, u) \in ToSet(p.apply)
  BY DEF Adjacent
<1>3. p.node.comp = c /\ p.node.gen = forest.gen[c]
  BY <1>1, <1>2 DEF Fits, Node
<1>4. Stands(p, forest, c, e)
  BY <1>1, <1>3 DEF FitsNow
<1>5. /\ p.id \in 1..Len(listed) /\ e.comp = c /\ p.node.ver = e.ver
      /\ p.size = SizeK(e.size)
  BY <1>1, <1>3 DEF Fits
<1>6. p.id \in EntriesOf(c)
  BY <1>1, <1>5 DEF EntriesIn
<1>7. ~IsBase(p, forest, c)
  <2>1. p.apply # << >>
    BY <1>2 DEF ToSet
  <2>2. QED
    BY <1>4, <2>1 DEF Stands
<1>8. Shown(p.id, forest, c, patches)
  BY <1>3 DEF Shown
<1>9. p.id \in Retained(c) /\ ~Newer(Start(c), e.ver)
  BY <1>5, <1>6, <1>7, <1>8, StartIs DEF IsBase
<1>10. u \in Links(forest, c, e)
  BY <1>2, <1>4, <1>7 DEF Stands
<1>11. Connects(p.id, u, e.ver)
  BY <1>10 DEF Links, Connects
<1>12. p.node = Node(forest, c, e.ver)
  <2>1. p.node \in NodeRecords
    BY <1>1 DEF PatchRecords
  <2>2. QED
    BY <1>3, <1>5, <2>1 DEF NodeRecords, Node
<1>13. e.ver \in Has(forest, c)
  BY <1>4, <1>5 DEF Stands
<1>14. QED
  BY <1>5, <1>6, <1>9, <1>11, <1>12, <1>13

(* And where the list connects two versions, there is one.                 *)
LEMMA ConnectsByPatch ==
  ASSUME Ready, NEW c \in ToSet(forest.order), NEW u \in Versions, ~Newer(Start(c), u),
         NEW k \in Retained(c), ~Newer(Start(c), listed[k].ver),
         Connects(k, u, listed[k].ver)
  PROVE  \E p \in ToSet(patches) : /\ p.id = k /\ Adjacent(Node(forest, c, u), p)
                                   /\ p.node = Node(forest, c, listed[k].ver)
<1>1. k \in EntriesOf(c)
  BY DEF Retained, Upgrades
<1>2. Shown(k, forest, c, patches) /\ ~(forest.visible[c] /\ listed[k].ver = Start(c))
  BY <1>1, StartIs
<1>3. PICK p \in ToSet(patches) : p.id = k /\ p.node.comp = c /\ p.node.gen = forest.gen[c]
  BY <1>2 DEF Shown
<1>4. /\ Fits(p, forest, listed) /\ FitsNow(p, forest, listed) /\ p \in PatchRecords
      /\ forest.ver[c] = Start(c)
  BY ReadyParts, StartIs
<1>5. Stands(p, forest, c, listed[k]) /\ p.node.ver = listed[k].ver
  BY <1>3, <1>4 DEF FitsNow, Fits
<1>6. ~IsBase(p, forest, c)
  BY <1>2, <1>4, <1>5 DEF IsBase
<1>7. u \in Links(forest, c, listed[k])
  BY <1>4 DEF Links, Connects
<1>8. Node(forest, c, u) \in ToSet(p.apply)
  BY <1>5, <1>6, <1>7 DEF Stands
<1>9. p.node = Node(forest, c, listed[k].ver)
  <2>1. p.node \in NodeRecords
    BY <1>4 DEF PatchRecords
  <2>2. QED
    BY <1>3, <1>5, <2>1 DEF NodeRecords, Node
<1>10. QED
  BY <1>3, <1>8, <1>9 DEF Adjacent

(* find_linking_patch() finds a smallest patch.                            *)
LEMMA LinkingPatchIs ==
  ASSUME Ready, NEW m, NEW n, LinksTo(m, n)
  PROVE  /\ LinkingPatch(m, n) \in ToSet(patches)
         /\ LinkingPatch(m, n).node = n /\ Adjacent(m, LinkingPatch(m, n))
         /\ \A q \in ToSet(patches) : q.node = n /\ Adjacent(m, q) =>
              LinkingPatch(m, n).size <= q.size
<1> DEFINE L == { p \in ToSet(patches) : p.node = n /\ m \in ToSet(p.apply) }
           Best(p) == \A q \in L : p.size < q.size \/ (p.size = q.size /\ p.id >= q.id)
           N == Len(listed)
<1>1. L # {}
  BY DEF LinksTo, Adjacent
<1>2. \A p \in L : p.size \in Nat /\ p.id \in 1..N /\ p.id \in Nat
  BY ReadyParts DEF PatchRecords
<1>3. N \in Nat
  BY ReadyParts
<1> HIDE DEF L, N
<1>4. PICK a \in L : \A q \in L : a.size <= q.size
  <2> DEFINE T == { p.size : p \in L }
  <2>1. T \subseteq Nat /\ T # {}
    BY <1>1, <1>2
  <2>2. PICK s \in T : \A t \in T : s <= t
    <3> HIDE DEF T
    <3> QED BY <2>1, Least
  <2>3. QED
    BY <2>2
<1>5. PICK p \in L : p.size = a.size /\ \A q \in L : q.size = a.size => p.id >= q.id
  <2> DEFINE T == { N - q.id : q \in { x \in L : x.size = a.size } }
  <2>1. T \subseteq Nat /\ T # {}
    BY <1>2, <1>3
  <2>2. PICK s \in T : \A t \in T : s <= t
    <3> HIDE DEF T
    <3> QED BY <2>1, Least
  <2>3. PICK p \in L : p.size = a.size /\ s = N - p.id
    BY <2>2
  <2>4. \A q \in L : q.size = a.size => p.id >= q.id
    <3> SUFFICES ASSUME NEW q \in L, q.size = a.size PROVE p.id >= q.id
      OBVIOUS
    <3>1. N - p.id <= N - q.id
      BY <2>2, <2>3
    <3>2. QED
      BY <1>2, <1>3, <3>1
  <2>5. QED
    BY <2>3, <2>4
<1>6. Best(p)
  BY <1>2, <1>4, <1>5
<1>7. LinkingPatch(m, n) = CHOOSE x \in L : Best(x)
  BY DEF LinkingPatch, L
<1> DEFINE b == LinkingPatch(m, n)
<1>8. b \in L /\ Best(b)
  <2> HIDE DEF Best
  <2> QED BY <1>6, <1>7
<1> HIDE DEF b
<1>9. \A q \in L : b.size <= q.size
  BY <1>2, <1>8
<1>10. QED
  BY <1>8, <1>9 DEF L, b, Adjacent

-----------------------------------------------------------------------------
(***************************************************************************)
(* The path to what was found at k is the path to its parent and the       *)
(* smallest patch from there.                                              *)
(***************************************************************************)
Link(F, k) == LinkingPatch(F[F[k].parent].node, F[k].node)

Leads(to, F, start) ==
  /\ to \in [1..Len(F) -> Seq(Nat)]
  /\ to[1] = start
  /\ \A k \in 2..Len(F) : to[k] = Append(to[F[k].parent], Link(F, k).id)

SearchedAll(F) ==
  /\ F \in Seq(Seen) /\ F # << >> /\ Distinct(F)
  /\ \A k \in 2..Len(F) : /\ F[k].parent \in 1..k - 1 
                          /\ LinksTo(F[F[k].parent].node, F[k].node)

(* A node is linked to its parent by the smallest patch that does it.      *)
LEMMA LinksAreListed ==
  ASSUME Ready, NEW F, SearchedAll(F), NEW k \in 2..Len(F)
  PROVE  /\ Link(F, k) \in ToSet(patches) /\ Link(F, k).node = F[k].node
         /\ Adjacent(F[F[k].parent].node, Link(F, k))
         /\ Link(F, k).id \in Nat /\ Link(F, k).id \in 1..Len(listed)
         /\ \A q \in ToSet(patches) : q.node = F[k].node /\ Adjacent(F[F[k].parent].node, q) =>
              Link(F, k).size <= q.size
<1> DEFINE p == Link(F, k)
<1>1. LinksTo(F[F[k].parent].node, F[k].node)
  BY DEF SearchedAll
<1>2. /\ p \in ToSet(patches) /\ p.node = F[k].node /\ Adjacent(F[F[k].parent].node, p)
      /\ \A q \in ToSet(patches) : q.node = F[k].node /\ Adjacent(F[F[k].parent].node, q) =>
              p.size <= q.size
  BY <1>1, LinkingPatchIs DEF Link
<1> HIDE DEF p
<1>3. p.id \in 1..Len(listed) /\ Len(listed) \in Nat
  BY <1>2, ReadyParts
<1>4. p.id \in Nat
  BY <1>3
<1>5. QED
  BY <1>2, <1>3, <1>4 DEF p

(* There are such paths to the first m.                                    *)
LEMMA PathsCanBe ==
  ASSUME Ready, NEW F, SearchedAll(F), NEW start \in Seq(Nat)
  PROVE  \E g \in [1..Len(F) -> Seq(Nat)] :
           \A k \in 1..Len(F) :
             g[k] = IF k = 1 THEN start ELSE Append(g[F[k].parent], Link(F, k).id)
<1> DEFINE L == Len(F)
           Good1(g, m) == \A k \in 1..m :
             g[k] = IF k = 1 THEN start ELSE Append(g[F[k].parent], Link(F, k).id)
           Can(m) == \E g \in [1..m -> Seq(Nat)] : Good1(g, m)
           W == { m \in Nat : m <= L /\ ~ Can(m) }
<1>1. L \in Nat /\ \A k \in 2..L : F[k].parent \in 1..k - 1 /\ Link(F, k).id \in Nat
  <2>1. L \in Nat /\ \A k \in 2..L : F[k].parent \in 1..k - 1
    BY DEF SearchedAll
  <2>2. \A k \in 2..L : Link(F, k).id \in Nat
    BY LinksAreListed
  <2>3. QED
    BY <2>1, <2>2
<1> HIDE DEF L
<1>2. 0 \notin W
  <2> DEFINE g == [k \in 1..0 |-> start]
  <2>1. g \in [1..0 -> Seq(Nat)] /\ Good1(g, 0)
    OBVIOUS
  <2>2. QED
    BY <2>1
<1>3. ASSUME NEW m \in Nat, m \notin W PROVE m + 1 \notin W
  <2> SUFFICES ASSUME m + 1 <= L PROVE \E h \in [1..m + 1 -> Seq(Nat)] : Good1(h, m + 1)
    OBVIOUS
  <2>1. PICK g \in [1..m -> Seq(Nat)] : Good1(g, m)
    <3>1. Can(m)
      <4> HIDE DEF Can
      <4> QED BY <1>1, <1>3
    <3> QED BY <3>1
  <2> DEFINE q == g[F[m + 1].parent]
             new == IF m + 1 = 1 THEN start ELSE Append(q, Link(F, m + 1).id)
             h == [k \in 1..m + 1 |-> IF k = m + 1 THEN new ELSE g[k]]
  <2>2. m + 1 # 1 => F[m + 1].parent \in 1..m
    <3> SUFFICES ASSUME m + 1 # 1 PROVE F[m + 1].parent \in 1..(m + 1) - 1
      OBVIOUS
    <3>1. m + 1 \in 2..L
      BY <1>1
    <3>2. QED
      BY <1>1, <3>1
  <2>3. new \in Seq(Nat)
    <3>1. CASE m + 1 = 1
      BY <3>1
    <3>2. CASE m + 1 # 1
      <4>1. q \in Seq(Nat) /\ m + 1 \in 2..L
        BY <1>1, <2>2, <3>2
      <4>2. Link(F, m + 1).id \in Nat
        BY <1>1, <4>1
      <4> HIDE DEF q
      <4>3. Append(q, Link(F, m + 1).id) \in Seq(Nat)
        BY <4>1, <4>2
      <4>4. QED
        BY <3>2, <4>3
    <3>3. QED
      BY <3>1, <3>2
  <2>4. \A k \in 1..m : h[k] = g[k]
    OBVIOUS
  <2>5. h[m + 1] = new
    OBVIOUS
  <2>6. h \in [1..m + 1 -> Seq(Nat)]
    <3> HIDE DEF new
    <3>1. \A k \in 1..m + 1 : k \in 1..m \/ k = m + 1
      OBVIOUS
    <3> QED BY <2>3, <3>1
  <2> HIDE DEF h
  <2>7. ASSUME NEW k \in 1..m + 1
        PROVE  h[k] = IF k = 1 THEN start ELSE Append(h[F[k].parent], Link(F, k).id)
    <3>1. CASE k = m + 1
      <4>1. k # 1 => h[F[k].parent] = q
        BY <2>2, <2>4, <3>1
      <4>2. QED
        BY <2>5, <3>1, <4>1
    <3>2. CASE k # m + 1
      <4>1. k \in 1..m
        BY <3>2
      <4>2. k # 1 => F[k].parent \in 1..m
        <5> SUFFICES ASSUME k # 1 PROVE F[k].parent \in 1..m
          OBVIOUS
        <5>1. k \in 2..L /\ k - 1 <= m
          BY <1>1, <4>1
        <5>2. QED
          BY <1>1, <4>1, <5>1
      <4>3. g[k] = IF k = 1 THEN start ELSE Append(g[F[k].parent], Link(F, k).id)
        BY <2>1, <4>1
      <4>4. QED
        BY <2>4, <4>1, <4>2, <4>3
    <3>3. QED
      BY <3>1, <3>2
  <2>8. QED
    BY <2>6, <2>7
<1>4. W = {}
  <2> HIDE DEF W
  <2> QED BY <1>2, <1>3, NoLeast DEF W
<1>5. Can(L)
  <2> HIDE DEF Can
  <2> QED BY <1>1, <1>4
<1>6. QED
  BY <1>5 DEF L

IsLed(P, F, start) ==
  \E to : /\ Leads(to, F, start)
          /\ DOMAIN P = { F[k].node : k \in 1..Len(F) }
          /\ \A k \in 1..Len(F) : P[F[k].node] = to[k]

(* The paths that the search leads to, along the parents.                  *)
LEMMA PathsLead ==
  ASSUME Ready, NEW r, NEW size, SearchedAll(Found(r, size)), NEW start \in Seq(Nat)
  PROVE  IsLed(PathsFrom(r, size, start), Found(r, size), start)
<1> DEFINE F == Found(r, size)
           L == Len(F)
           R(h) == h = [k \in 1..L |-> IF k = 1 THEN start
                        ELSE Append(h[F[k].parent],
                                    LinkingPatch(F[F[k].parent].node, F[k].node).id)]
           to == CHOOSE h : R(h)
           N == { F[k].node : k \in 1..L }
           P == PathsFrom(r, size, start)
<1>1. P = [n \in N |-> to[CHOOSE k \in 1..L : F[k].node = n]]
  BY DEF PathsFrom
<1>2. L \in Nat /\ L >= 1 /\ Distinct(F) /\ \A k \in 2..L : F[k].parent \in 1..k - 1
  BY DEF SearchedAll
<1> HIDE DEF F, P
<1>3. PICK g \in [1..L -> Seq(Nat)] :
        \A k \in 1..L :
             g[k] = IF k = 1 THEN start ELSE Append(g[F[k].parent], Link(F, k).id)
  <2>1. SearchedAll(F)
    BY DEF F
  <2>2. QED
    BY <2>1, PathsCanBe
<1>4. R(g)
  BY <1>3 DEF Link
<1>5. R(to)
  <2> HIDE DEF R
  <2> QED BY <1>4
<1> HIDE DEF to
<1>6. DOMAIN to = 1..L /\ \A k \in 1..L : 
             to[k] = IF k = 1 THEN start ELSE Append(to[F[k].parent], Link(F, k).id)
  BY <1>5 DEF Link
<1>7. to = [k \in 1..L |-> to[k]]
  BY <1>5
<1> HIDE DEF R, L
<1>8. \A k \in 1..L : to[k] = g[k]
  <2> DEFINE T == { k \in 1..L : to[k] # g[k] }
  <2> SUFFICES ASSUME T # {} PROVE FALSE
    OBVIOUS
  <2>1. T \subseteq Nat
    BY <1>2
  <2>2. PICK k \in T : \A m \in T : k <= m
    <3> HIDE DEF T
    <3> QED BY <2>1, Least
  <2>3. CASE k = 1
    BY <1>3, <1>6, <2>2, <2>3
  <2>4. CASE k # 1
    <3>1. k \in 2..L
      BY <1>2, <2>4
    <3>2. F[k].parent \in 1..L /\ F[k].parent < k
      BY <1>2, <3>1
    <3>3. F[k].parent \notin T
      <4> HIDE DEF T
      <4>1. F[k].parent \in Nat /\ k \in Nat /\ ~(k <= F[k].parent)
        BY <1>2, <2>1, <3>2
      <4> QED BY <2>2, <4>1
    <3>4. to[F[k].parent] = g[F[k].parent]
      BY <3>2, <3>3
    <3>5. to[k] = Append(to[F[k].parent], Link(F, k).id)
      BY <1>6, <2>4
    <3>6. g[k] = Append(g[F[k].parent], Link(F, k).id)
      BY <1>3, <2>4
    <3>7. QED
      BY <2>2, <3>4, <3>5, <3>6
  <2>5. QED
    BY <2>3, <2>4
<1>9. to \in [1..L -> Seq(Nat)]
  BY <1>7, <1>8
<1>10. \A k \in 2..L : k \in 1..L /\ k # 1
  BY <1>2
<1>11. Leads(to, F, start)
  <2>1. 1 \in 1..L
    BY <1>2
  <2>2. QED
    BY <1>6, <1>9, <1>10, <2>1 DEF Leads, L
<1>12. ASSUME NEW k \in 1..L PROVE P[F[k].node] = to[k]
  <2> DEFINE j == CHOOSE j \in 1..L : F[j].node = F[k].node
  <2>1. j \in 1..L /\ F[j].node = F[k].node
    OBVIOUS
  <2> HIDE DEF j
  <2>2. j = k
    BY <1>2, <2>1 DEF Distinct, L
  <2>3. P[F[k].node] = to[j]
    BY <1>1 DEF j
  <2>4. QED
    BY <2>2, <2>3
<1>13. DOMAIN P = N
  BY <1>1
<1>14. IsLed(P, F, start)
  BY <1>11, <1>12, <1>13 DEF IsLed, L
<1>15. QED
  BY <1>14 DEF F, P

-----------------------------------------------------------------------------
(***************************************************************************)
(* The versions that the list says are at most d patches away.             *)
(***************************************************************************)
CandidatesBy(c, ks) == {Start(c)} \union { listed[k].ver : k \in ks }

NearerBy(c, ks, x) ==
  x \union { w \in { listed[k].ver : k \in ks } :
               /\ ~Newer(Start(c), w)
               /\ \E k \in ks, v \in x : Connects(k, v, w) }

IsWithinBy(f, c, ks, d) ==
  /\ f[0] = {Start(c)} /\ \A i \in 1..d : f[i] = NearerBy(c, ks, f[i - 1])
  /\ WithinBy(c, ks, d) = f[d]

(* The function that WithinBy is the last value of.                        *)
LEMMA WithinByIs ==
  ASSUME NEW c, NEW ks, NEW d \in Nat
  PROVE  \E f : IsWithinBy(f, c, ks, d)
<1> DEFINE n == d
           X == SUBSET CandidatesBy(c, ks)
           G(i, x) == NearerBy(c, ks, x)
           R(f) == f = [i \in 0..n |-> IF i = 0 THEN {Start(c)} ELSE G(i, f[i - 1])]
           f == CHOOSE h : R(h)
<1>1. WithinBy(c, ks, d) = f[n]
  BY DEF WithinBy, NearerBy
<1>2. n \in Nat /\ {Start(c)} \in X
  BY DEF CandidatesBy
<1>3. ASSUME NEW i \in 1..n, NEW x \in X PROVE G(i, x) \in X
  BY DEF NearerBy, CandidatesBy
<1> HIDE DEF n, X, G
<1>4. PICK g \in [0..n -> X] : g[0] = {Start(c)} /\ \A i \in 1..n : g[i] = G(i, g[i - 1])
  <2> DEFINE step == [q \in (1..n) \X X |-> G(q[1], q[2])]
  <2>1. \A i \in 1..n : \A x \in X : step[<<i, x>>] = G(i, x)
    OBVIOUS
  <2> HIDE DEF step
  <2>2. \A i \in 1..n : \A x \in X : step[<<i, x>>] \in X
    BY <1>3, <2>1
  <2>3. PICK g \in [0..n -> X] : Iterated(g, n, {Start(c)}, step)
    BY <1>2, <2>2, Iterates
  <2>4. \A i \in 1..n : i - 1 \in 0..n /\ g[i - 1] \in X
    BY <1>2
  <2>5. \A i \in 1..n : g[i] = G(i, g[i - 1])
    BY <2>1, <2>3, <2>4 DEF Iterated
  <2>6. QED
    BY <2>3, <2>5 DEF Iterated
<1>5. R(g)
  <2>1. \A i \in 0..n : i # 0 => i \in 1..n
    BY <1>2
  <2>2. \A i \in 0..n : g[i] = IF i = 0 THEN {Start(c)} ELSE G(i, g[i - 1])
    BY <1>4, <2>1
  <2>3. g = [i \in 0..n |-> g[i]]
    OBVIOUS
  <2>4. QED
    BY <2>2, <2>3
<1>6. R(f)
  <2> HIDE DEF R
  <2> QED BY <1>5
<1> HIDE DEF f
<1>7. /\ DOMAIN f = 0..n /\ f[0] = {Start(c)}
      /\ \A i \in 1..n : f[i] = G(i, f[i - 1])
  <2>1. 0 \in 0..n /\ \A i \in 1..n : i \in 0..n /\ i # 0
    BY <1>2
  <2>2. \A i \in 0..n : f[i] = IF i = 0 THEN {Start(c)} ELSE G(i, f[i - 1])
    BY <1>6
  <2>3. DOMAIN f = 0..n
    BY <1>6
  <2> HIDE DEF R
  <2>4. QED
    BY <2>1, <2>2, <2>3
<1>8. \A i \in 0..n : f[i] = g[i]
  <2> DEFINE W == { m \in Nat : m <= n /\ f[m] # g[m] }
  <2>1. 0 \notin W
    BY <1>4, <1>7
  <2>2. ASSUME NEW m \in Nat, m \notin W PROVE m + 1 \notin W
    <3>1. CASE m + 1 <= n
      <4>1. m + 1 \in 1..n /\ (m + 1) - 1 = m /\ f[m] = g[m]
        BY <1>2, <2>2, <3>1
      <4>2. QED
        BY <1>4, <1>7, <4>1
    <3>2. QED
      BY <3>1
  <2>3. W = {}
    <3> HIDE DEF W
    <3> QED BY <2>1, <2>2, NoLeast DEF W
  <2>4. QED
    BY <1>2, <2>3
<1>9. f = g
  <2>1. DOMAIN f = DOMAIN g /\ DOMAIN g = 0..n
    BY <1>7
  <2>2. f = [i \in 0..n |-> f[i]] /\ g = [i \in 0..n |-> g[i]]
    BY <1>6, <2>1
  <2>3. QED
    BY <1>8, <2>2
<1>10. IsWithinBy(g, c, ks, d)
  BY <1>1, <1>4, <1>9 DEF n, G, IsWithinBy
<1>11. QED
  BY <1>10

(* WithinBy, one patch after another.                                      *)
LEMMA WithinBySteps ==
  ASSUME NEW c, NEW ks
  PROVE  /\ WithinBy(c, ks, 0) = {Start(c)}
         /\ \A d \in Nat : WithinBy(c, ks, d + 1) = NearerBy(c, ks, WithinBy(c, ks, d))
<1>1. WithinBy(c, ks, 0) = {Start(c)}
  <2>1. 0 \in Nat
    OBVIOUS
  <2>2. PICK f : IsWithinBy(f, c, ks, 0)
    BY <2>1, WithinByIs
  <2>3. QED
    BY <2>2 DEF IsWithinBy
<1>2. ASSUME NEW d \in Nat PROVE WithinBy(c, ks, d + 1) = NearerBy(c, ks, WithinBy(c, ks, d))
  <2>1. PICK f : IsWithinBy(f, c, ks, d)
    BY WithinByIs
  <2>2. /\ f[0] = {Start(c)} /\ \A i \in 1..d : f[i] = NearerBy(c, ks, f[i - 1])
        /\ WithinBy(c, ks, d) = f[d]
    BY <2>1 DEF IsWithinBy
  <2>3. d + 1 \in Nat
    OBVIOUS
  <2>4. PICK g : IsWithinBy(g, c, ks, d + 1)
    BY <2>3, WithinByIs
  <2>5. /\ g[0] = {Start(c)} /\ \A i \in 1..d + 1 : g[i] = NearerBy(c, ks, g[i - 1])
        /\ WithinBy(c, ks, d + 1) = g[d + 1]
    BY <2>4 DEF IsWithinBy
  <2> DEFINE W == { m \in Nat : m <= d /\ f[m] # g[m] }
  <2>6. 0 \notin W
    BY <2>2, <2>5
  <2>7. ASSUME NEW m \in Nat, m \notin W PROVE m + 1 \notin W
    <3>1. CASE m + 1 <= d
      <4>1. m + 1 \in 1..d /\ m + 1 \in 1..d + 1 /\ (m + 1) - 1 = m /\ f[m] = g[m]
        BY <2>7, <3>1
      <4>2. f[m + 1] = NearerBy(c, ks, f[m]) /\ g[m + 1] = NearerBy(c, ks, g[m])
        BY <2>2, <2>5, <4>1
      <4>3. QED
        BY <4>1, <4>2
    <3>2. QED
      BY <3>1
  <2>8. W = {}
    <3> HIDE DEF W
    <3> QED BY <2>6, <2>7, NoLeast DEF W
  <2>9. f[d] = g[d]
    BY <2>8
  <2>10. d + 1 \in 1..d + 1 /\ (d + 1) - 1 = d
    OBVIOUS
  <2>11. g[d + 1] = NearerBy(c, ks, g[d])
    BY <2>5, <2>10
  <2>12. QED
    BY <2>2, <2>5, <2>9, <2>11
<1>3. QED
  BY <1>1, <1>2

(* What is within reach stays within reach.                                *)
LEMMA WithinByGrows ==
  ASSUME NEW c, NEW ks, NEW i \in Nat, NEW j \in Nat, i <= j
  PROVE  WithinBy(c, ks, i) \subseteq WithinBy(c, ks, j)
<1> DEFINE W == { m \in Nat : ~(WithinBy(c, ks, i) \subseteq WithinBy(c, ks, i + m)) }
<1>1. 0 \notin W
  OBVIOUS
<1>2. ASSUME NEW m \in Nat, m \notin W PROVE m + 1 \notin W
  <2>1. i + m \in Nat /\ i + (m + 1) = (i + m) + 1
    OBVIOUS
  <2>2. WithinBy(c, ks, (i + m) + 1) = NearerBy(c, ks, WithinBy(c, ks, i + m))
    BY <2>1, WithinBySteps
  <2>3. WithinBy(c, ks, i + m) \subseteq WithinBy(c, ks, (i + m) + 1)
    BY <2>2 DEF NearerBy
  <2>4. QED
    BY <1>2, <2>1, <2>3
<1>3. W = {}
  <2> HIDE DEF W
  <2> QED BY <1>1, <1>2, NoLeast DEF W
<1>4. j - i \in Nat /\ i + (j - i) = j
  OBVIOUS
<1>5. QED
  BY <1>3, <1>4

(* More patches lead to no less.                                           *)
LEMMA WithinByMore ==
  ASSUME NEW c, NEW ks, NEW ls, ks \subseteq ls, NEW d \in Nat
  PROVE  WithinBy(c, ks, d) \subseteq WithinBy(c, ls, d)
<1> DEFINE W == { m \in Nat : ~(WithinBy(c, ks, m) \subseteq WithinBy(c, ls, m)) }
<1>1. 0 \notin W
  BY WithinBySteps
<1>2. ASSUME NEW m \in Nat, m \notin W PROVE m + 1 \notin W
  <2>1. /\ WithinBy(c, ks, m + 1) = NearerBy(c, ks, WithinBy(c, ks, m))
        /\ WithinBy(c, ls, m + 1) = NearerBy(c, ls, WithinBy(c, ls, m))
    BY WithinBySteps
  <2>2. WithinBy(c, ks, m) \subseteq WithinBy(c, ls, m)
    BY <1>2
  <2> HIDE DEF W
  <2>3. ASSUME NEW x, NEW y, x \subseteq y PROVE NearerBy(c, ks, x) \subseteq NearerBy(c, ls, y)
    BY <2>3 DEF NearerBy
  <2>4. WithinBy(c, ks, m + 1) \subseteq WithinBy(c, ls, m + 1)
    BY <2>1, <2>2, <2>3
  <2>5. QED
    BY <2>4 DEF W
<1>3. W = {}
  <2> HIDE DEF W
  <2> QED BY <1>1, <1>2, NoLeast DEF W
<1>4. QED
  BY <1>3

(* The versions that the patches add_patch() has kept lead to.             *)
Nearer(c, x) == NearerBy(c, Retained(c), x)

LEMMA WithinSteps ==
  ASSUME NEW c
  PROVE  /\ Within(c, 0) = {Start(c)}
         /\ \A d \in Nat : Within(c, d + 1) = Nearer(c, Within(c, d))
BY WithinBySteps DEF Within, Nearer

LEMMA WithinGrows ==
  ASSUME NEW c, NEW i \in Nat, NEW j \in Nat, i <= j
  PROVE  Within(c, i) \subseteq Within(c, j)
BY WithinByGrows DEF Within

-----------------------------------------------------------------------------
(***************************************************************************)
(* What is found in the tree of a component: every node that patches lead  *)
(* to, since there is room in the queue for the whole tree.                *)
(***************************************************************************)
SizeOf(c) == Cardinality(TreeNodes(forest, c)) + 1

FoundIn(c) == Found(RootNode(forest, c), SizeOf(c))

(* The image of a finite set is finite.                                    *)
LEMMA ImageIsFinite ==
  ASSUME NEW S, IsFiniteSet(S), NEW g, DOMAIN g = S
  PROVE  IsFiniteSet({ g[x] : x \in S })
<1> DEFINE T == { g[x] : x \in S }
           h == [x \in S |-> g[x]]
<1>1. h \in [S -> T] /\ \A t \in T : \E s \in S : h[s] = t
  OBVIOUS
<1> HIDE DEF T, h
<1>2. h \in Surjection(S, T)
  BY <1>1 DEF Surjection
<1>3. IsFiniteSet(T)
  BY <1>2, FS_Surjection
<1>4. QED
  BY <1>3 DEF T

(* The nodes of a tree are those of its versions.                          *)
LEMMA TreeIs ==
  ASSUME NEW f, Good(f), NEW c \in ToSet(f.order)
  PROVE  /\ TreeNodes(f, c) = { Node(f, c, v) : v \in VersionsOn(f.levels[c]) }
         /\ IsFiniteSet(TreeNodes(f, c))
<1> DEFINE L == f.levels[c]
           n == Len(L)
           lev == [i \in 1..n |-> Level(f, c, i)]
           row == [i \in 1..n |-> ToSet(Level(f, c, i))]
<1>1. Above(L, f.ver[c])
  BY DEF Good
<1>2. n \in Nat /\ \A i \in 1..n : Row(L[i]) /\ L[i] \in Seq(Versions) /\ Len(L[i]) \in Nat
  BY <1>1 DEF Above, Row
<1>3. \A i \in 1..n : /\ DOMAIN Level(f, c, i) = 1..Len(L[i])
                      /\ \A k \in 1..Len(L[i]) : Level(f, c, i)[k] = Node(f, c, L[i][k])
  BY DEF Level
<1> HIDE DEF L
<1>4. ASSUME NEW i \in 1..n
      PROVE  /\ ToSet(Level(f, c, i)) = { Node(f, c, v) : v \in ToSet(L[i]) }
             /\ IsFiniteSet(ToSet(Level(f, c, i)))
  <2> DEFINE s == Level(f, c, i)
             m == Len(L[i])
  <2>1. DOMAIN s = 1..m /\ (\A k \in 1..m : s[k] = Node(f, c, L[i][k])) /\ m \in Nat
        /\ DOMAIN L[i] = 1..m
    BY <1>2, <1>3
  <2> HIDE DEF s, m
  <2>2. ToSet(s) = { s[k] : k \in 1..m } /\ ToSet(L[i]) = { L[i][k] : k \in 1..m }
    BY <2>1 DEF ToSet
  <2>3. ToSet(s) = { Node(f, c, v) : v \in ToSet(L[i]) }
    BY <2>1, <2>2
  <2>4. IsFiniteSet(1..m)
    BY <2>1, FS_Interval
  <2>5. IsFiniteSet({ s[k] : k \in 1..m })
    BY <2>1, <2>4, ImageIsFinite
  <2>6. QED
    BY <2>2, <2>3, <2>5 DEF s
<1>5. DOMAIN row = 1..n /\ \A i \in 1..n : row[i] = ToSet(Level(f, c, i))
  OBVIOUS
<1>6. TreeNodes(f, c) = UNION { row[i] : i \in 1..n }
  BY <1>5 DEF TreeNodes, L
<1> HIDE DEF row, n
<1>7. IsFiniteSet({ row[i] : i \in 1..n })
  <2>1. IsFiniteSet(1..n)
    BY <1>2, FS_Interval
  <2>2. QED
    BY <1>5, <2>1, ImageIsFinite
<1>8. IsFiniteSet(TreeNodes(f, c))
  <2>1. \A T \in { row[i] : i \in 1..n } : IsFiniteSet(T)
    BY <1>4, <1>5
  <2>2. IsFiniteSet(UNION { row[i] : i \in 1..n })
    BY <1>7, <2>1, FS_UNION
  <2>3. QED
    BY <1>6, <2>2
<1>9. TreeNodes(f, c) = { Node(f, c, v) : v \in VersionsOn(f.levels[c]) }
  <2>1. VersionsOn(L) = UNION { ToSet(L[i]) : i \in 1..n }
    BY DEF VersionsOn, n
  <2>2. ASSUME NEW x \in TreeNodes(f, c) PROVE x \in { Node(f, c, v) : v \in VersionsOn(L) }
    BY <1>4, <1>5, <1>6, <2>1
  <2>3. ASSUME NEW v \in VersionsOn(L) PROVE Node(f, c, v) \in TreeNodes(f, c)
    <3>1. PICK i \in 1..n : v \in ToSet(L[i])
      BY <2>1
    <3>2. Node(f, c, v) \in row[i]
      BY <1>4, <1>5, <3>1
    <3>3. QED
      BY <1>6, <3>2
  <2>4. QED
    BY <2>2, <2>3 DEF L
<1>10. QED
  BY <1>8, <1>9

(* The search in the tree of a component.                                  *)
LEMMA SearchOf ==
  ASSUME Ready, NEW c \in ToSet(forest.order)
  PROVE  /\ SizeOf(c) \in Nat
         /\ RootNode(forest, c) \in NodeRecords
         /\ Searched(FoundIn(c), RootNode(forest, c), SizeOf(c))
         /\ SearchedAll(FoundIn(c))
         /\ Len(FoundIn(c)) \in Nat /\ Len(FoundIn(c)) >= 1
         /\ \A k \in 1..Len(FoundIn(c)) : FoundIn(c)[k].node \in NodeRecords
                                          /\ FoundIn(c)[k].parent \in Nat
<1>1. Good(forest) /\ patches \in Seq(PatchRecords)
  BY ReadyParts
<1>2. SizeOf(c) \in Nat
  BY <1>1, TreeIs, FS_CardinalityType DEF SizeOf
<1>3. RootNode(forest, c) \in NodeRecords
  <2>1. c \in Components /\ forest.ver[c] \in Versions
    BY StartIs
  <2>2. forest.gen[c] \in Nat
    BY <1>1, <2>1, ForestParts
  <2>3. QED
    BY <2>1, <2>2 DEF RootNode, Node, NodeRecords
<1>4. Searched(FoundIn(c), RootNode(forest, c), SizeOf(c))
  BY <1>1, <1>2, <1>3, SearchEnds DEF FoundIn
<1>5. SearchedAll(FoundIn(c))
  BY <1>4 DEF Searched, SearchedAll
<1>6. FoundIn(c) \in Seq(Seen) /\ FoundIn(c) # << >>
  BY <1>5 DEF SearchedAll
<1>7. \A k \in 1..Len(FoundIn(c)) : FoundIn(c)[k] \in Seen
  BY <1>6
<1>8. QED
  BY <1>2, <1>3, <1>4, <1>5, <1>6, <1>7 DEF Seen

(* The search stays in the tree, and never goes below its root.            *)
LEMMA NodesFound ==
  ASSUME Ready, NEW c \in ToSet(forest.order), NEW k \in 1..Len(FoundIn(c))
  PROVE  /\ FoundIn(c)[k].node = Node(forest, c, FoundIn(c)[k].node.ver)
         /\ FoundIn(c)[k].node.ver \in Has(forest, c)
         /\ FoundIn(c)[k].node.ver \in Versions
         /\ ~Newer(Start(c), FoundIn(c)[k].node.ver)
<1> DEFINE F == FoundIn(c)
           Is(m) == m = Node(forest, c, m.ver) /\ m.ver \in Has(forest, c)
           W == { j \in 1..Len(F) : ~Is(F[j].node) }
<1>1. Len(F) \in Nat /\ F[1] = [node |-> RootNode(forest, c), parent |-> 0]
  BY SearchOf DEF Searched
<1>2. ASSUME NEW m \in Has(forest, c) PROVE m \in Versions /\ ~Newer(Start(c), m)
  BY ReadyParts, StartIs, HasAbove
<1>3. SearchedAll(F)
  BY SearchOf
<1> HIDE DEF F
<1>4. W = {}
  <2> SUFFICES ASSUME W # {} PROVE FALSE
    OBVIOUS
  <2>1. W \subseteq Nat
    BY <1>1
  <2>2. PICK j \in W : \A m \in W : j <= m
    <3> HIDE DEF W
    <3> QED BY <2>1, Least
  <2>3. CASE j = 1
    <3>1. Is(RootNode(forest, c))
      BY DEF RootNode, Node, Has
    <3>2. F[j].node = RootNode(forest, c)
      BY <1>1, <2>3
    <3>3. QED
      BY <2>2, <3>1, <3>2
  <2>4. CASE j # 1
    <3>1. j \in 2..Len(F)
      BY <1>1, <2>2, <2>4
    <3>2. F[j].parent \in 1..j - 1 /\ LinksTo(F[F[j].parent].node, F[j].node)
      BY <1>3, <3>1 DEF SearchedAll
    <3> DEFINE i == F[j].parent
    <3>3. i \in 1..Len(F) /\ i \in Nat /\ ~(j <= i)
      BY <1>1, <3>1, <3>2
    <3>4. i \notin W
      BY <2>2, <3>3
    <3> HIDE DEF i, W
    <3>5. Is(F[i].node)
      BY <3>3, <3>4 DEF W
    <3>6. PICK p \in ToSet(patches) : Adjacent(F[i].node, p) /\ p.node = F[j].node
      BY <3>2 DEF LinksTo, i
    <3> DEFINE u == F[i].node.ver
    <3>7. u \in Versions /\ F[i].node = Node(forest, c, u)
      BY <1>2, <3>5
    <3> HIDE DEF u
    <3>8. /\ p.node = Node(forest, c, listed[p.id].ver)
          /\ listed[p.id].ver \in Has(forest, c)
      BY <3>6, <3>7, PatchConnects
    <3>9. Is(F[j].node)
      BY <3>6, <3>8 DEF Node
    <3>10. QED
      BY <2>2, <3>9 DEF W
  <2>5. QED
    BY <2>3, <2>4
<1>5. Is(F[k].node)
  BY <1>4 DEF F
<1>6. QED
  BY <1>2, <1>5 DEF F

(* Nothing that a patch leads to is left out of the search.                *)
LEMMA AllExpanded ==
  ASSUME Ready, NEW c \in ToSet(forest.order), NEW j \in 1..Len(FoundIn(c)),
         NEW p \in ToSet(patches), Adjacent(FoundIn(c)[j].node, p)
  PROVE  \E k \in 1..Len(FoundIn(c)) : /\ FoundIn(c)[k].node = p.node
                                       /\ FoundIn(c)[k].parent <= j
<1> DEFINE F == FoundIn(c)
           S == 1..Len(F)
           T == TreeNodes(forest, c) \union {RootNode(forest, c)}
           g == [k \in S |-> F[k].node]
<1>1. Len(F) \in Nat /\ Distinct(F)
  BY SearchOf DEF Searched
<1>2. IsFiniteSet(TreeNodes(forest, c)) /\ Good(forest)
      /\ TreeNodes(forest, c) = { Node(forest, c, v) : v \in VersionsOn(forest.levels[c]) }
  BY ReadyParts, TreeIs
<1>3. IsFiniteSet(T) /\ Cardinality(T) \in Nat /\ Cardinality(T) <= SizeOf(c)
  <2>1. IsFiniteSet(T) /\ Cardinality(TreeNodes(forest, c)) \in Nat
        /\ Cardinality(T) = IF RootNode(forest, c) \in TreeNodes(forest, c)
                            THEN Cardinality(TreeNodes(forest, c))
                            ELSE Cardinality(TreeNodes(forest, c)) + 1
    BY <1>2, FS_AddElement, FS_CardinalityType
  <2>2. QED
    BY <2>1 DEF SizeOf
<1>4. \A k \in S : F[k].node \in T
  <2> SUFFICES ASSUME NEW k \in S PROVE F[k].node \in T
    OBVIOUS
  <2>1. F[k].node = Node(forest, c, F[k].node.ver) /\ F[k].node.ver \in Has(forest, c)
    BY NodesFound
  <2>2. CASE F[k].node.ver = forest.ver[c]
    BY <2>1, <2>2 DEF RootNode
  <2>3. CASE F[k].node.ver \in VersionsOn(forest.levels[c])
    BY <1>2, <2>1, <2>3
  <2>4. QED
    BY <2>1, <2>2, <2>3 DEF Has
<1> HIDE DEF F, T
<1>5. g \in Injection(S, T)
  <2>1. g \in [S -> T]
    BY <1>4
  <2>2. \A a, b \in S : g[a] = g[b] => a = b
    BY <1>1 DEF Distinct
  <2>3. QED
    BY <2>1, <2>2 DEF Injection, IsInjective
<1>6. Cardinality(S) <= Cardinality(T) /\ Cardinality(S) = Len(F)
  <2>1. Cardinality(S) <= Cardinality(T)
    <3> HIDE DEF S, g
    <3> QED BY <1>3, <1>5, FS_Injection
  <2>2. Cardinality(S) = Len(F)
    <3>1. 1 \in Int /\ Len(F) \in Int
      BY <1>1
    <3>2. Cardinality(1..Len(F)) = IF 1 > Len(F) THEN 0 ELSE Len(F) - 1 + 1
      BY <3>1, FS_Interval
    <3>3. QED
      BY <1>1, <3>2
  <2>3. QED
    BY <2>1, <2>2
<1>7. j <= SizeOf(c)
  <2>1. SizeOf(c) \in Nat
    BY SearchOf
  <2>2. j \in 1..Len(F)
    BY DEF F
  <2> DEFINE a == Cardinality(S)
             b == Cardinality(T)
             z == SizeOf(c)
             l == Len(F)
  <2>3. a <= b /\ b <= z /\ a = l /\ b \in Nat /\ z \in Nat /\ l \in Nat /\ j \in 1..l
    BY <1>1, <1>3, <1>6, <2>1, <2>2
  <2> HIDE DEF a, b, z, l
  <2>4. j <= z
    BY <2>3
  <2>5. QED
    BY <2>4 DEF z
<1>8. QED
  BY <1>7, SearchOf DEF Searched

-----------------------------------------------------------------------------
(***************************************************************************)
(* The way to what was found is a shortest one.                            *)
(***************************************************************************)
LEMMA LinkIs ==
  ASSUME Ready, NEW c \in ToSet(forest.order), NEW k \in 2..Len(FoundIn(c)),
         NEW i, i = FoundIn(c)[k].parent, NEW id, id = Link(FoundIn(c), k).id,
         NEW u, u = FoundIn(c)[i].node.ver, NEW v, v = FoundIn(c)[k].node.ver
  PROVE  /\ i \in 1..k - 1 /\ k \in 1..Len(FoundIn(c)) /\ i \in 1..Len(FoundIn(c))
         /\ id \in Nat /\ id \in EntriesOf(c) /\ id \in Retained(c)
         /\ ~Newer(Start(c), v) /\ Connects(id, u, v)
         /\ \A q \in Retained(c) :
              Connects(q, u, v) => SizeK(listed[id].size) <= SizeK(listed[q].size)
<1> DEFINE F == FoundIn(c)
           p == Link(F, k)
<1>1. SearchedAll(F) /\ Len(F) \in Nat
  BY SearchOf
<1>2. i \in 1..k - 1 /\ k \in 1..Len(F) /\ i \in 1..Len(F)
  BY <1>1 DEF SearchedAll
<1>3. /\ p \in ToSet(patches) /\ p.node = F[k].node /\ Adjacent(F[i].node, p) /\ p.id \in Nat
      /\ \A q \in ToSet(patches) : q.node = F[k].node /\ Adjacent(F[i].node, q) => p.size <= q.size
  BY <1>1, LinksAreListed
<1>4. /\ F[i].node = Node(forest, c, u) /\ u \in Versions /\ ~Newer(Start(c), u)
      /\ F[k].node = Node(forest, c, v) /\ v \in Versions /\ ~Newer(Start(c), v)
  BY <1>2, NodesFound
<1> HIDE DEF F, p
<1>5. Adjacent(Node(forest, c, u), p)
  BY <1>3, <1>4
<1>6. /\ p.id \in EntriesOf(c) /\ p.id \in Retained(c)
      /\ p.node = Node(forest, c, listed[p.id].ver)
      /\ Connects(p.id, u, listed[p.id].ver) /\ p.size = SizeK(listed[p.id].size)
  BY <1>3, <1>4, <1>5, PatchConnects
<1>7. listed[p.id].ver = v
  BY <1>3, <1>4, <1>6 DEF Node
<1>8. ASSUME NEW q \in Retained(c), Connects(q, u, v)
      PROVE  SizeK(listed[p.id].size) <= SizeK(listed[q].size)
  <2>1. listed[q].ver = v
    BY <1>8 DEF Connects
  <2>2. PICK r \in ToSet(patches) : /\ r.id = q /\ Adjacent(Node(forest, c, u), r)
                                    /\ r.node = Node(forest, c, listed[q].ver)
    BY <1>4, <1>8, <2>1, ConnectsByPatch
  <2>3. r.size = SizeK(listed[q].size)
    BY <1>4, <2>2, PatchConnects
  <2>4. p.size <= r.size
    BY <1>3, <1>4, <2>1, <2>2
  <2>5. QED
    BY <1>6, <2>3, <2>4
<1>9. id = p.id
  BY DEF p, F
<1>10. QED
  BY <1>2, <1>3, <1>4, <1>6, <1>7, <1>8, <1>9, Zenon DEF F

Way(c, start, to) ==
  Ready /\ c \in ToSet(forest.order) /\ start \in Seq(Nat) /\ Leads(to, FoundIn(c), start)

(* The path to a node is that to its parent and one patch more.            *)
LEMMA WayGrows ==
  ASSUME NEW c, NEW start, NEW to, Way(c, start, to)
  PROVE  /\ Len(start) \in Nat /\ to[1] = start
         /\ \A k \in 1..Len(FoundIn(c)) : to[k] \in Seq(Nat) /\ Len(to[k]) \in Nat
         /\ \A k \in 2..Len(FoundIn(c)) :
              /\ FoundIn(c)[k].parent \in 1..k - 1
              /\ FoundIn(c)[k].parent \in 1..Len(FoundIn(c))
              /\ to[k] = Append(to[FoundIn(c)[k].parent], Link(FoundIn(c), k).id)
              /\ Len(to[k]) = Len(to[FoundIn(c)[k].parent]) + 1
<1> DEFINE F == FoundIn(c)
<1>1. /\ Len(start) \in Nat /\ to[1] = start /\ to \in [1..Len(F) -> Seq(Nat)]
      /\ \A k \in 2..Len(F) : to[k] = Append(to[F[k].parent], Link(F, k).id)
  BY DEF Way, Leads
<1>2. SearchedAll(F) /\ Len(F) \in Nat
  BY SearchOf DEF Way
<1>3. \A k \in 2..Len(F) : Link(F, k).id \in Nat
  BY <1>2, LinksAreListed DEF Way
<1>4. \A k \in 2..Len(F) : F[k].parent \in 1..k - 1 /\ F[k].parent \in 1..Len(F)
  BY <1>2 DEF SearchedAll
<1> HIDE DEF F
<1>5. ASSUME NEW k \in 2..Len(F) PROVE Len(to[k]) = Len(to[F[k].parent]) + 1
  <2> DEFINE q == to[F[k].parent]
             x == Link(F, k).id
  <2>1. q \in Seq(Nat) /\ x \in Nat /\ to[k] = Append(q, x)
    BY <1>1, <1>3, <1>4
  <2> HIDE DEF q, x
  <2>2. Len(Append(q, x)) = Len(q) + 1
    BY <2>1, AppendProperties
  <2>3. QED
    BY <2>1, <2>2 DEF q
<1>6. ASSUME NEW k \in 1..Len(F) PROVE to[k] \in Seq(Nat) /\ Len(to[k]) \in Nat
  <2>1. to[k] \in Seq(Nat)
    BY <1>1
  <2>2. QED
    BY <2>1
<1>7. QED
  BY <1>1, <1>4, <1>5, <1>6 DEF F

(* A search in breadth finds the nearest nodes first.                      *)
LEMMA NearestFirst ==
  ASSUME NEW c, NEW start, NEW to, Way(c, start, to)
  PROVE  \A k, j \in 1..Len(FoundIn(c)) :
           /\ Len(start) <= Len(to[k]) 
           /\ Len(to[k]) - Len(start) <= k - 1
           /\ j <= k => Len(to[j]) <= Len(to[k])
<1> DEFINE F == FoundIn(c)
           L == Len(F)
           d(k) == Len(to[k])
           s == Len(start)
           W == { k \in 1..L : ~(s <= d(k) /\ d(k) - s <= k - 1
                                 /\ \A j \in 1..L : j <= k => d(j) <= d(k)) }
<1>1. L \in Nat /\ L >= 1 /\ s \in Nat /\ d(1) = s
      /\ \A k \in 1..L : d(k) \in Nat
  BY SearchOf, WayGrows DEF Way
<1>2. \A k \in 2..L : /\ F[k].parent \in 1..k - 1 /\ F[k].parent \in 1..L
                      /\ d(k) = d(F[k].parent) + 1
  BY WayGrows
<1>3. \A j, k \in 1..L : j < k => F[j].parent <= F[k].parent
  BY SearchOf DEF Way, Searched
<1> HIDE DEF F, L, d, s
<1>4. W = {}
  <2> SUFFICES ASSUME W # {} PROVE FALSE
    OBVIOUS
  <2>1. W \subseteq Nat
    BY <1>1
  <2>2. PICK k \in W : \A m \in W : k <= m
    <3> HIDE DEF W
    <3> QED BY <2>1, Least
  <2>3. k \in 1..L
    OBVIOUS
  <2>4. \A i \in 1..L : i < k => i \notin W
    <3> HIDE DEF W
    <3> SUFFICES ASSUME NEW i \in 1..L, i < k, i \in W PROVE FALSE
      OBVIOUS
    <3>1. k <= i
      BY <2>2
    <3>2. QED
      BY <1>1, <2>3, <3>1
  <2>5. ASSUME NEW i \in 1..L, i < k
        PROVE  s <= d(i) /\ d(i) - s <= i - 1 /\ \A j \in 1..L : j <= i => d(j) <= d(i)
    <3>1. i \notin W
      BY <2>4, <2>5
    <3>2. QED
      BY <3>1
  <2>6. s <= d(k) /\ d(k) - s <= k - 1 /\ \A j \in 1..L : j <= k => d(j) <= d(k)
    <3>1. CASE k = 1
      BY <1>1, <3>1
    <3>2. CASE k # 1
      <4> DEFINE i == F[k].parent
      <4>1. k \in 2..L
        BY <1>1, <2>3, <3>2
      <4>2. i \in 1..L /\ i < k /\ d(k) = d(i) + 1
        BY <1>1, <1>2, <4>1
      <4>3. s <= d(i) /\ d(i) - s <= i - 1
        BY <2>5, <4>2
      <4>4. s <= d(k) /\ d(k) - s <= k - 1
        BY <1>1, <2>3, <4>2, <4>3
      <4>5. ASSUME NEW j \in 1..L, j <= k PROVE d(j) <= d(k)
        <5>1. CASE j = 1
          BY <1>1, <4>4, <5>1
        <5>2. CASE j = k
          BY <1>1, <5>2
        <5>3. CASE j # 1 /\ j # k
          <6>1. j \in 2..L /\ j < k
            BY <1>1, <2>3, <4>5, <5>3
          <6>2. F[j].parent <= i /\ F[j].parent \in 1..L /\ d(j) = d(F[j].parent) + 1
            BY <1>2, <1>3, <2>3, <6>1
          <6>3. d(F[j].parent) <= d(i)
            BY <2>5, <4>2, <6>2
          <6>4. QED
            BY <1>1, <4>2, <6>2, <6>3
        <5>4. QED
          BY <5>1, <5>2, <5>3
      <4>6. QED
        BY <4>4, <4>5
    <3>3. QED
      BY <3>1, <3>2
  <2>7. k \notin W
    BY <2>6
  <2>8. QED
    BY <2>7
<1>5. QED
  BY <1>4 DEF F, L, d, s

(* What is found is as near as its path is long.                           *)
LEMMA FoundAreWithin ==
  ASSUME NEW c, NEW start, NEW to, Way(c, start, to)
  PROVE  \A k \in 1..Len(FoundIn(c)) :
           FoundIn(c)[k].node.ver \in Within(c, Len(to[k]) - Len(start))
<1> DEFINE F == FoundIn(c)
           L == Len(F)
           d(k) == Len(to[k]) - Len(start)
           v(k) == F[k].node.ver
           W == { k \in 1..L : v(k) \notin Within(c, d(k)) }
<1>0. Ready /\ c \in ToSet(forest.order)
  BY DEF Way
<1>1. L \in Nat /\ L >= 1 /\ d(1) = 0 /\ F[1].node = RootNode(forest, c)
  <2>1. Len(start) \in Nat /\ to[1] = start
    BY WayGrows
  <2>2. F[1] = [node |-> RootNode(forest, c), parent |-> 0] /\ L \in Nat /\ L >= 1
    BY <1>0, SearchOf DEF Searched
  <2>3. QED
    BY <2>1, <2>2
<1>2. \A k \in 1..L : d(k) \in Nat
  <2>1. \A k \in 1..L : Len(to[k]) \in Nat /\ Len(start) \in Nat /\ Len(start) <= Len(to[k])
    BY WayGrows, NearestFirst
  <2>2. QED
    BY <2>1
<1>3. ASSUME NEW k \in 2..L
      PROVE  /\ F[k].parent \in 1..k - 1 /\ F[k].parent \in 1..L
             /\ d(k) = d(F[k].parent) + 1
             /\ \E id \in Retained(c) : /\ Connects(id, v(F[k].parent), v(k))
                                        /\ ~Newer(Start(c), v(k))
  <2>1. F[k].parent \in 1..k - 1 /\ F[k].parent \in 1..L /\ Len(to[k]) = Len(to[F[k].parent]) + 1
    BY WayGrows
  <2>2. Len(to[F[k].parent]) \in Nat /\ Len(start) \in Nat
    BY <2>1, WayGrows
  <2>3. QED
    BY <1>0, <2>1, <2>2, LinkIs
<1>4. v(1) \in Within(c, 0)
  <2>1. v(1) = Start(c)
    BY <1>0, <1>1, StartIs DEF RootNode, Node
  <2> HIDE DEF v
  <2>2. QED
    BY <2>1, WithinSteps
<1> HIDE DEF d, v, L, F
<1>5. W = {}
  <2> SUFFICES ASSUME W # {} PROVE FALSE
    OBVIOUS
  <2>1. W \subseteq Nat
    BY <1>1
  <2>2. PICK k \in W : \A m \in W : k <= m
    <3> HIDE DEF W
    <3> QED BY <2>1, Least
  <2>3. CASE k = 1
    BY <1>1, <1>4, <2>2, <2>3
  <2>4. CASE k # 1
    <3> DEFINE i == F[k].parent
    <3>1. k \in 2..L
      BY <1>1, <2>2, <2>4
    <3>2. i \in 1..k - 1 /\ i \in 1..L /\ d(k) = d(i) + 1
      BY <1>3, <3>1
    <3>3. PICK id \in Retained(c) : Connects(id, v(i), v(k)) /\ ~Newer(Start(c), v(k))
      BY <1>3, <3>1
    <3>4. i \in Nat /\ ~(k <= i)
      BY <1>1, <3>1, <3>2
    <3>5. i \notin W
      <4> HIDE DEF W, i
      <4> QED BY <2>2, <3>4
    <3>6. v(i) \in Within(c, d(i)) /\ d(i) \in Nat
      BY <1>2, <3>2, <3>5
    <3> HIDE DEF i
    <3>7. v(k) = listed[id].ver
      BY <3>3 DEF Connects
    <3>8. v(k) \in Nearer(c, Within(c, d(i)))
      BY <3>3, <3>6, <3>7 DEF Nearer, NearerBy
    <3>9. v(k) \in Within(c, d(k))
      BY <1>0, <3>2, <3>6, <3>8, WithinSteps
    <3>10. QED
      BY <2>2, <3>9
  <2>5. QED
    BY <2>3, <2>4
<1>6. QED
  BY <1>5 DEF F, L, d, v

(* What is within reach is found, and by no longer a path.                 *)
LEMMA WithinAreFound ==
  ASSUME NEW c, NEW start, NEW to, Way(c, start, to), NEW d \in Nat
  PROVE  \A v \in Within(c, d) :
           \E k \in 1..Len(FoundIn(c)) : /\ FoundIn(c)[k].node = Node(forest, c, v)
                                         /\ Len(to[k]) - Len(start) <= d
<1> DEFINE F == FoundIn(c)
           L == Len(F)
           D(k) == Len(to[k]) - Len(start)
           Near(v, m) == \E k \in 1..L : F[k].node = Node(forest, c, v) /\ D(k) <= m
           All(m) == \A v \in Within(c, m) : Near(v, m)
           W == { m \in Nat : ~All(m) }
<1>0. Ready /\ c \in ToSet(forest.order)
  BY DEF Way
<1>1. L \in Nat /\ L >= 1 /\ D(1) = 0 /\ F[1].node = RootNode(forest, c)
  <2>1. Len(start) \in Nat /\ to[1] = start
    BY WayGrows
  <2>2. F[1] = [node |-> RootNode(forest, c), parent |-> 0] /\ L \in Nat /\ L >= 1
    BY <1>0, SearchOf DEF Searched
  <2>3. QED
    BY <2>1, <2>2
<1>2. \A k \in 1..L : D(k) \in Nat
  <2>1. \A k \in 1..L : Len(to[k]) \in Nat /\ Len(start) \in Nat /\ Len(start) <= Len(to[k])
    BY WayGrows, NearestFirst
  <2>2. QED
    BY <2>1
<1>3. \A i, j \in 1..L : i <= j => D(i) <= D(j)
  <2> SUFFICES ASSUME NEW i \in 1..L, NEW j \in 1..L, i <= j PROVE D(i) <= D(j)
    OBVIOUS
  <2>1. Len(to[i]) <= Len(to[j])
    BY NearestFirst
  <2>2. Len(to[i]) \in Nat /\ Len(to[j]) \in Nat /\ Len(start) \in Nat
    BY WayGrows
  <2>3. QED
    BY <2>1, <2>2
<1>4. ASSUME NEW k \in 2..L PROVE F[k].parent \in 1..L /\ D(k) = D(F[k].parent) + 1
  <2>1. F[k].parent \in 1..L /\ Len(to[k]) = Len(to[F[k].parent]) + 1
    BY WayGrows
  <2>2. Len(to[F[k].parent]) \in Nat /\ Len(start) \in Nat
    BY <2>1, WayGrows
  <2>3. QED
    BY <2>1, <2>2
<1>5. 0 \notin W
  <2>1. \A v \in Within(c, 0) : v = Start(c) /\ Node(forest, c, v) = RootNode(forest, c)
    BY <1>0, StartIs, WithinSteps DEF RootNode
  <2>2. All(0)
    BY <1>1, <2>1
  <2>3. QED
    BY <2>2
<1>6. ASSUME NEW m \in Nat, m \notin W PROVE m + 1 \notin W
  <2>1. All(m)
    BY <1>6
  <2> SUFFICES ASSUME NEW v \in Within(c, m + 1) PROVE Near(v, m + 1)
    OBVIOUS
  <2>2. v \in Nearer(c, Within(c, m))
    BY <1>0, WithinSteps
  <2>3. CASE v \in Within(c, m)
    <3>1. PICK k \in 1..L : F[k].node = Node(forest, c, v) /\ D(k) <= m
      BY <2>1, <2>3
    <3>2. D(k) <= m + 1
      BY <1>2, <3>1
    <3>3. QED
      BY <3>1, <3>2
  <2>4. CASE v \notin Within(c, m)
    <3>1. ~Newer(Start(c), v) /\ \E id \in Retained(c), u \in Within(c, m) : Connects(id, u, v)
      BY <2>2, <2>4 DEF Nearer, NearerBy
    <3>2. PICK id \in Retained(c), u \in Within(c, m) : Connects(id, u, v)
      BY <3>1
    <3>3. v = listed[id].ver
      BY <3>2 DEF Connects
    <3>4. PICK j \in 1..L : F[j].node = Node(forest, c, u) /\ D(j) <= m
      BY <2>1, <3>2
    <3>5. u \in Versions /\ ~Newer(Start(c), u)
      <4>1. F[j].node.ver \in Versions /\ ~Newer(Start(c), F[j].node.ver)
        BY <1>0, NodesFound
      <4>2. QED
        BY <3>4, <4>1 DEF Node
    <3>6. PICK p \in ToSet(patches) : /\ p.id = id /\ Adjacent(Node(forest, c, u), p)
                                      /\ p.node = Node(forest, c, listed[id].ver)
      BY <1>0, <3>1, <3>2, <3>3, <3>5, ConnectsByPatch
    <3>7. Adjacent(F[j].node, p)
      BY <3>4, <3>6
    <3>8. PICK k \in 1..L : F[k].node = p.node /\ F[k].parent <= j
      BY <1>0, <3>7, AllExpanded
    <3> HIDE DEF D, F, L
    <3>9. D(k) <= m + 1
      <4>1. CASE k = 1
        BY <1>1, <4>1
      <4>2. CASE k # 1
        <5>1. k \in 2..L
          BY <1>1, <4>2
        <5>2. F[k].parent \in 1..L /\ D(k) = D(F[k].parent) + 1
          BY <1>4, <5>1
        <5>3. D(F[k].parent) <= D(j)
          BY <1>3, <3>8, <5>2
        <5>4. QED
          BY <1>2, <3>4, <5>2, <5>3
      <4>3. QED
        BY <4>1, <4>2
    <3>10. QED
      BY <3>3, <3>6, <3>8, <3>9
  <2>5. QED
    BY <2>3, <2>4
<1>7. W = {}
  <2> HIDE DEF W
  <2> QED BY <1>5, <1>6, NoLeast DEF W
<1>8. All(d)
  <2> HIDE DEF All
  <2> QED BY <1>7
<1>9. QED
  BY <1>8

(* So no path is too long.                                                 *)
LEMMA NoneNearer ==
  ASSUME NEW c, NEW start, NEW to, Way(c, start, to), NEW k \in 1..Len(FoundIn(c)),
         NEW d \in Nat, d < Len(to[k]) - Len(start)
  PROVE  FoundIn(c)[k].node.ver \notin Within(c, d)
<1> DEFINE F == FoundIn(c)
           v == F[k].node.ver
<1> SUFFICES ASSUME v \in Within(c, d) PROVE FALSE
  OBVIOUS
<1>1. PICK j \in 1..Len(F) : F[j].node = Node(forest, c, v) /\ Len(to[j]) - Len(start) <= d
  BY WithinAreFound
<1>2. F[k].node = Node(forest, c, v)
  BY NodesFound DEF Way
<1>3. Distinct(F)
  BY SearchOf DEF Way, Searched
<1>4. j = k
  BY <1>1, <1>2, <1>3 DEF Distinct
<1>5. Len(to[k]) \in Nat /\ Len(start) \in Nat
  BY WayGrows
<1>6. QED
  BY <1>1, <1>4, <1>5

(* No way is longer than there are entries to make patches of.             *)
LEMMA FoundIsReached ==
  ASSUME NEW c, NEW start, NEW to, Way(c, start, to)
  PROVE  { FoundIn(c)[k].node.ver : k \in 1..Len(FoundIn(c)) } = Reached(c)
<1> DEFINE F == FoundIn(c)
           L == Len(F)
           E == EntriesOf(c)
           S == 2..L
           g == [k \in S |-> Link(F, k).id]
<1>0. Ready /\ c \in ToSet(forest.order)
  BY DEF Way
<1>1. L \in Nat /\ L >= 1 /\ Distinct(F) /\ SearchedAll(F)
  BY <1>0, SearchOf DEF Searched
<1>2. IsFiniteSet(E) /\ Cardinality(E) \in Nat
  <2>1. E \subseteq 1..Len(listed) /\ Len(listed) \in Nat
    BY <1>0, ReadyParts
  <2>2. IsFiniteSet(1..Len(listed))
    BY <2>1, FS_Interval
  <2>3. QED
    BY <2>1, <2>2, FS_Subset, FS_CardinalityType
<1>3. g \in Injection(S, E)
  <2>1. \A k \in S : Link(F, k).id \in E
    BY <1>0, LinkIs
  <2>2. ASSUME NEW a \in S, NEW b \in S, Link(F, a).id = Link(F, b).id PROVE a = b
    <3>1. /\ Link(F, a) \in ToSet(patches) /\ Link(F, a).node = F[a].node
          /\ Link(F, b) \in ToSet(patches) /\ Link(F, b).node = F[b].node
      BY <1>0, <1>1, LinksAreListed
    <3>2. \A p, q \in ToSet(patches) : p.id = q.id => p = q
      BY <1>0 DEF Ready, Matches
    <3>3. Link(F, a) = Link(F, b)
      BY <2>2, <3>1, <3>2
    <3>4. F[a].node = F[b].node /\ a \in 1..L /\ b \in 1..L
      BY <1>1, <3>1, <3>3
    <3>5. QED
      BY <1>1, <3>4 DEF Distinct
  <2> HIDE DEF F, E
  <2>3. \A k \in S : g[k] = Link(F, k).id
    OBVIOUS
  <2>4. g \in [S -> E]
    BY <2>1
  <2> HIDE DEF g
  <2>5. QED
    BY <2>2, <2>3, <2>4 DEF Injection, IsInjective
<1>4. L - 1 <= Cardinality(E)
  <2>1. Cardinality(S) <= Cardinality(E)
    <3> HIDE DEF S, E, g
    <3> QED BY <1>2, <1>3, FS_Injection
  <2>2. Cardinality(2..L) = IF 2 > L THEN 0 ELSE L - 2 + 1
    <3>1. 2 \in Int /\ L \in Int
      BY <1>1
    <3> HIDE DEF L
    <3>2. QED
      BY <3>1, FS_Interval
  <2> HIDE DEF L, E
  <2>3. QED
    BY <1>1, <1>2, <2>1, <2>2
<1>5. ASSUME NEW k \in 1..L PROVE F[k].node.ver \in Reached(c)
  <2> DEFINE d == Len(to[k]) - Len(start)
  <2>1. Len(to[k]) \in Nat /\ Len(start) \in Nat /\ Len(start) <= Len(to[k]) /\ d <= k - 1
    BY WayGrows, NearestFirst
  <2>2. F[k].node.ver \in Within(c, d)
    BY FoundAreWithin
  <2>3. d \in Nat /\ d <= Cardinality(E)
    BY <1>1, <1>2, <1>4, <2>1
  <2> HIDE DEF d
  <2>4. QED
    BY <1>0, <1>2, <2>2, <2>3, WithinGrows DEF Reached
<1>6. ASSUME NEW v \in Reached(c) PROVE \E k \in 1..L : v = F[k].node.ver
  <2>1. v \in Within(c, Cardinality(E))
    BY DEF Reached
  <2>2. PICK k \in 1..L : F[k].node = Node(forest, c, v)
    BY <1>2, <2>1, WithinAreFound
  <2>3. F[k].node.ver = v
    BY <2>2 DEF Node
  <2>4. QED
    BY <2>3
<1>7. QED
  BY <1>5, <1>6

-----------------------------------------------------------------------------
(***************************************************************************)
(* A way leads one listed patch at a time.                                 *)
(***************************************************************************)
Smallest(c, id, u, v) ==
  /\ id \in Retained(c) /\ Connects(id, u, v)
  /\ \A k \in Retained(c) : Connects(k, u, v) => SizeK(listed[id].size) <= SizeK(listed[k].size)

(* Where the i-th patch of a path applies, behind a base update if s = 1.  *)
At(c, q, s, i) == IF i = s + 1 THEN Start(c) ELSE listed[q[i - 1]].ver

Chain(c, q, s, v) ==
  /\ q \in Seq(Nat) /\ s \in Nat /\ s <= Len(q)
  /\ At(c, q, s, Len(q) + 1) = v
  /\ \A i \in s + 1 .. Len(q) : Smallest(c, q[i], At(c, q, s, i), At(c, q, s, i + 1))

(* A chain of smallest patches and one link more.                          *)
LEMMA ChainGrows ==
  ASSUME NEW c, NEW q, NEW s, NEW u, Chain(c, q, s, u), NEW id \in Nat, NEW v,
         Smallest(c, id, u, v)
  PROVE  Chain(c, Append(q, id), s, v)
<1> DEFINE n == Len(q)
           r == Append(q, id)
<1>1. q \in Seq(Nat) /\ s \in Nat /\ n \in Nat /\ s <= n
  BY DEF Chain
<1>2. r \in Seq(Nat) /\ Len(r) = n + 1 /\ r[n + 1] = id /\ \A i \in 1..n : r[i] = q[i]
  BY <1>1, AppendProperties
<1> HIDE DEF r, n
<1>3. \A i \in s + 1 .. n + 1 : At(c, r, s, i) = At(c, q, s, i)
  <2> SUFFICES ASSUME NEW i \in s + 1 .. n + 1 PROVE At(c, r, s, i) = At(c, q, s, i)
    OBVIOUS
  <2>1. CASE i = s + 1
    BY <2>1 DEF At
  <2>2. CASE i # s + 1
    <3>1. i - 1 \in 1..n
      BY <1>1, <2>2
    <3>2. r[i - 1] = q[i - 1]
      BY <1>2, <3>1
    <3>3. QED
      BY <2>2, <3>2 DEF At
  <2>3. QED
    BY <2>1, <2>2
<1>4. At(c, r, s, n + 1) = u
  <2>1. n + 1 \in s + 1 .. n + 1 /\ At(c, q, s, n + 1) = u
    BY <1>1 DEF Chain, n
  <2>2. QED
    BY <1>3, <2>1
<1>5. At(c, r, s, (n + 1) + 1) = v
  <2>1. (n + 1) + 1 # s + 1 /\ ((n + 1) + 1) - 1 = n + 1
    BY <1>1
  <2>2. listed[id].ver = v
    BY DEF Smallest, Connects
  <2>3. QED
    BY <1>2, <2>1, <2>2 DEF At
<1>6. ASSUME NEW i \in s + 1 .. n + 1
      PROVE  Smallest(c, r[i], At(c, r, s, i), At(c, r, s, i + 1))
  <2>1. CASE i = n + 1
    BY <1>2, <1>4, <1>5, <2>1
  <2>2. CASE i # n + 1
    <3>1. i \in s + 1 .. n /\ i \in 1..n /\ i + 1 \in s + 1 .. n + 1
      BY <1>1, <2>2
    <3>2. r[i] = q[i] /\ At(c, r, s, i) = At(c, q, s, i) /\ At(c, r, s, i + 1) = At(c, q, s, i + 1)
      BY <1>2, <1>3, <3>1
    <3>3. Smallest(c, q[i], At(c, q, s, i), At(c, q, s, i + 1))
      BY <3>1 DEF Chain, n
    <3>4. QED
      BY <3>2, <3>3
  <2>3. QED
    BY <2>1, <2>2
<1>7. s <= n + 1
  BY <1>1
<1>8. QED
  BY <1>1, <1>2, <1>5, <1>6, <1>7 DEF Chain, r

(* Of what the patches on the way to k are made.                           *)
Leading(F, q, start) ==
  /\ q \in Seq(Nat) /\ Len(start) <= Len(q)
  /\ \A i \in 1..Len(start) : q[i] = start[i]
  /\ \A i \in Len(start) + 1 .. Len(q) :
       \E j \in 2..Len(F) : Link(F, j).id = q[i]

(* Every path is such a chain.                                             *)
LEMMA WaysChain ==
  ASSUME NEW c, NEW start, NEW to, Way(c, start, to)
  PROVE  \A k \in 1..Len(FoundIn(c)) :
           /\ Chain(c, to[k], Len(start), FoundIn(c)[k].node.ver)
           /\ Leading(FoundIn(c), to[k], start)
<1> DEFINE F == FoundIn(c)
           L == Len(F)
           s == Len(start)
           Is(k) == Chain(c, to[k], s, F[k].node.ver) /\ Leading(F, to[k], start)
           W == { k \in 1..L : ~Is(k) }
<1>0. Ready /\ c \in ToSet(forest.order)
  BY DEF Way
<1>1. L \in Nat /\ L >= 1 /\ F[1].node = RootNode(forest, c) /\ s \in Nat /\ to[1] = start
      /\ start \in Seq(Nat)
  <2>1. Len(start) \in Nat /\ to[1] = start /\ start \in Seq(Nat)
    BY WayGrows DEF Way
  <2>2. F[1] = [node |-> RootNode(forest, c), parent |-> 0] /\ L \in Nat /\ L >= 1
    BY <1>0, SearchOf DEF Searched
  <2>3. QED
    BY <2>1, <2>2
<1>2. ASSUME NEW k \in 2..L
      PROVE  /\ F[k].parent \in 1..k - 1 /\ F[k].parent \in 1..L /\ Link(F, k).id \in Nat
             /\ to[k] = Append(to[F[k].parent], Link(F, k).id)
             /\ Smallest(c, Link(F, k).id, F[F[k].parent].node.ver, F[k].node.ver)
  <2> DEFINE i == F[k].parent
             id == Link(F, k).id
             u == F[i].node.ver
             v == F[k].node.ver
  <2>1. i \in 1..k - 1 /\ i \in 1..L /\ to[k] = Append(to[i], id)
    <3>1. i \in 1..k - 1 /\ i \in 1..L
      BY WayGrows
    <3>2. to[k] = Append(to[i], id)
      BY DEF Way, Leads
    <3>3. QED
      BY <3>1, <3>2
  <2>2. /\ id \in Nat /\ id \in Retained(c) /\ Connects(id, u, v)
        /\ \A q \in Retained(c) :
              Connects(q, u, v) => SizeK(listed[id].size) <= SizeK(listed[q].size)
    BY <1>0, LinkIs
  <2> HIDE DEF i, id, u, v
  <2>3. Smallest(c, id, u, v)
    BY <2>2 DEF Smallest
  <2>4. QED
    BY <2>1, <2>2, <2>3 DEF i, id, u, v
<1>3. Is(1)
  <2>1. F[1].node.ver = Start(c)
    BY <1>0, <1>1, StartIs DEF RootNode, Node
  <2>2. \A i \in s + 1 .. s : FALSE
    BY <1>1
  <2>3. QED
    BY <1>1, <2>1, <2>2 DEF Chain, Leading, At
<1> HIDE DEF F, L
<1>5. W = {}
  <2> SUFFICES ASSUME W # {} PROVE FALSE
    OBVIOUS
  <2> HIDE DEF Is
  <2>1. W \subseteq Nat
    BY <1>1
  <2>2. PICK k \in W : \A m \in W : k <= m
    <3> HIDE DEF W
    <3> QED BY <2>1, Least
  <2>3. CASE k = 1
    BY <1>3, <2>2, <2>3
  <2>4. CASE k # 1
    <3> DEFINE i == F[k].parent
               q == to[i]
               id == Link(F, k).id
    <3>1. k \in 2..L
      BY <1>1, <2>2, <2>4
    <3>2. /\ i \in 1..k - 1 /\ i \in 1..L /\ id \in Nat /\ to[k] = Append(q, id)
          /\ Smallest(c, id, F[i].node.ver, F[k].node.ver)
      BY <1>2, <3>1
    <3>3. i \in Nat /\ ~(k <= i)
      BY <1>1, <3>1, <3>2
    <3>4. i \notin W
      <4> HIDE DEF W, i
      <4> QED BY <2>2, <3>3
    <3>5. Chain(c, q, s, F[i].node.ver) /\ Leading(F, q, start)
      BY <3>2, <3>4 DEF Is
    <3> HIDE DEF q, id, i
    <3>6. Chain(c, Append(q, id), s, F[k].node.ver)
      BY <3>2, <3>5, ChainGrows
    <3>7. Leading(F, Append(q, id), start)
      <4>1. q \in Seq(Nat) /\ s <= Len(q) /\ Len(q) \in Nat
        BY <3>5 DEF Leading
      <4>2. /\ Append(q, id) \in Seq(Nat) /\ Len(Append(q, id)) = Len(q) + 1
            /\ Append(q, id)[Len(q) + 1] = id
            /\ \A m \in 1..Len(q) : Append(q, id)[m] = q[m]
        BY <3>2, <4>1, AppendProperties
      <4>3. \A m \in 1..s : Append(q, id)[m] = start[m]
        <5> SUFFICES ASSUME NEW m \in 1..s PROVE Append(q, id)[m] = start[m]
          OBVIOUS
        <5>1. m \in 1..Len(q) /\ q[m] = start[m]
          BY <1>1, <3>5, <4>1 DEF Leading
        <5>2. QED
          BY <4>2, <5>1
      <4>4. ASSUME NEW m \in s + 1 .. Len(q) + 1
            PROVE  \E j \in 2..Len(F) : Link(F, j).id = Append(q, id)[m]
        <5>1. CASE m = Len(q) + 1
          <6>1. k \in 2..Len(F) /\ Link(F, k).id = id
            BY <3>1 DEF L, id
          <6>2. QED
            BY <4>2, <5>1, <6>1
        <5>2. CASE m # Len(q) + 1
          <6>1. m \in 1..Len(q) /\ m \in s + 1 .. Len(q)
            BY <1>1, <4>1, <5>2
          <6>2. \E j \in 2..Len(F) : Link(F, j).id = q[m]
            BY <3>5, <6>1 DEF Leading
          <6>3. QED
            BY <4>2, <6>1, <6>2
        <5>3. QED
          BY <5>1, <5>2
      <4>5. s <= Len(q) + 1
        BY <1>1, <4>1
      <4>6. QED
        BY <4>2, <4>3, <4>4, <4>5 DEF Leading
    <3>8. Is(k)
      BY <3>2, <3>6, <3>7 DEF Is
    <3>9. QED
      BY <2>2, <3>8
  <2>5. QED
    BY <2>3, <2>4
<1>6. QED
  BY <1>5 DEF F, L

-----------------------------------------------------------------------------
(***************************************************************************)
(* What the list says is the same as long as the list is.                  *)
(***************************************************************************)
WithinOf(s, ks, ls, d) ==
  LET near[i \in 0..d] ==
        IF i = 0 THEN {s}
        ELSE LET nearer == near[i - 1]
             IN  nearer \union
                 { w \in { ls[k].ver : k \in ks } :
                     /\ ~Newer(s, w)
                     /\ \E k \in ks, v \in nearer :
                          v \in ToSet(ls[k].applies) /\ w = ls[k].ver /\ Legal(v, w) }
  IN  near[d]

(* What is reached is a matter of the list alone.                          *)
LEMMA SameList ==
  ASSUME listed' = listed
  PROVE  /\ \A c : EntriesOf(c)' = EntriesOf(c) /\ Retained(c)' = Retained(c)
                   /\ Start(c)' = Start(c) /\ Bases(c)' = Bases(c)
         /\ \A c, k, u, v : Connects(k, u, v)' <=> Connects(k, u, v)
         /\ \A c : \A d : Within(c, d)' = Within(c, d)
         /\ \A c : Reached(c)' = Reached(c) /\ Available(c)' = Available(c)
<1>1. \A c : EntriesOf(c)' = EntriesOf(c)
  BY DEF EntriesOf
<1>2. \A c : Lowest(c)' = Lowest(c)
  BY <1>1 DEF Lowest
<1>3. \A c : Start(c)' = Start(c)
  BY <1>2 DEF Start
<1>4. \A c : Upgrades(c)' = Upgrades(c) /\ Retained(c)' = Retained(c)
  BY <1>1, <1>2, <1>3 DEF Retained, Upgrades
<1>5. \A c : Bases(c)' = Bases(c)
  BY <1>1, <1>3 DEF Bases
<1>6. \A c, k, u, v : Connects(k, u, v)' <=> Connects(k, u, v)
  BY DEF Connects
<1>7. \A c, ks, d : WithinBy(c, ks, d) = WithinOf(Start(c), ks, listed, d)
  BY DEF WithinBy, WithinOf, Connects
<1>8. \A c : \A d : Within(c, d)' = Within(c, d)
  <2>1. \A c : \A d : Within(c, d)' = WithinOf(Start(c)', Retained(c)', listed', d)
    BY DEF Within, WithinBy, WithinOf, Connects
  <2>2. QED
    BY <1>3, <1>4, <1>7, <2>1 DEF Within
<1>9. \A c : \A d : WithinBy(c, Upgrades(c), d)' = WithinBy(c, Upgrades(c), d)
  <2>1. \A c : \A d : WithinBy(c, Upgrades(c), d)' = WithinOf(Start(c)', Upgrades(c)', listed', d)
    BY DEF WithinBy, WithinOf, Connects
  <2>2. QED
    BY <1>3, <1>4, <1>7, <2>1
<1>10. \A c : Reached(c)' = Reached(c)
  BY <1>1, <1>8 DEF Reached
<1>11. \A c : Available(c)' = Available(c)
  BY <1>1, <1>3, <1>5, <1>9 DEF Available
<1>12. QED
  BY <1>1, <1>3, <1>4, <1>5, <1>6, <1>8, <1>10, <1>11

-----------------------------------------------------------------------------
(***************************************************************************)
(* What calculate_paths() finds: the paths of every component that is      *)
(* installed or can be, by its own search.                                 *)
(***************************************************************************)
Trimmed == RootsTrimmed(forest)

First(c) == IF forest.visible[c] THEN <<base[c]>> ELSE << >>

(* The roots that are left once those without a base update are gone.      *)
LEMMA TrimmedIs ==
  ASSUME Ready
  PROVE  /\ Good(Trimmed)
         /\ Trimmed.ver = forest.ver /\ Trimmed.gen = forest.gen
         /\ Trimmed.visible = forest.visible /\ Trimmed.levels = forest.levels
         /\ \A c : c \in ToSet(Trimmed.order) <=>
                     /\ c \in ToSet(forest.order)
                     /\ ~forest.visible[c] \/ base[c] # 0
         /\ \A c, v : Node(Trimmed, c, v) = Node(forest, c, v)
         /\ \A c : RootNode(Trimmed, c) = RootNode(forest, c)
         /\ \A c : TreeNodes(Trimmed, c) = TreeNodes(forest, c)
<1>1. /\ Good(Trimmed)
      /\ Trimmed.ver = forest.ver /\ Trimmed.gen = forest.gen
      /\ Trimmed.visible = forest.visible /\ Trimmed.levels = forest.levels
      /\ ToSet(Trimmed.order) = { c \in ToSet(forest.order) : ~forest.visible[c] \/ base[c] # 0 }
  BY ReadyParts, RootsThin DEF Trimmed
<1>2. \A c, v : Node(Trimmed, c, v) = Node(forest, c, v)
  BY <1>1 DEF Node
<1>3. \A c : RootNode(Trimmed, c) = RootNode(forest, c)
  BY <1>1, <1>2 DEF RootNode
<1>4. \A c : \A i : Level(Trimmed, c, i) = Level(forest, c, i)
  BY <1>1, <1>2 DEF Level
<1>5. \A c : TreeNodes(Trimmed, c) = TreeNodes(forest, c)
  BY <1>1, <1>4 DEF TreeNodes
<1>6. QED
  BY <1>1, <1>2, <1>3, <1>5

(* The way to a node: behind the base update of what is not installed, and *)
(* no longer than it must be.                                              *)
RoutedTo(n, ids) ==
  LET c == n.comp
      s == Len(First(c))
  IN  /\ n = Node(forest, c, n.ver) /\ n.ver \in Has(forest, c)
      /\ Chain(c, ids, s, n.ver)
      /\ \A i \in 1..s : ids[i] = First(c)[i]
      /\ \A d \in Nat : d < Len(ids) - s => n.ver \notin Within(c, d)
      /\ n = RootNode(forest, c) => Len(ids) = s

ByPatches(n, ids, nodes) ==
  \A i \in Len(First(n.comp)) + 1 .. Len(ids) :
     \E p \in ToSet(patches) : p.id = ids[i] /\ p.node \in nodes

(* The path to a root: nothing, or the patch that installs it.             *)
LEMMA FirstIs ==
  ASSUME Ready, NEW c \in ToSet(Trimmed.order)
  PROVE  /\ First(c) \in Seq(Nat) /\ Len(First(c)) \in Nat
         /\ IF forest.visible[c] THEN Len(First(c)) = 1 /\ First(c)[1] = base[c]
                                 ELSE Len(First(c)) = 0
         /\ c \in ToSet(forest.order) /\ c \in Components
         /\ forest.visible[c] => base[c] # 0 /\ base[c] \in Nat
         /\ forest.visible[c] \in BOOLEAN
<1>1. c \in ToSet(forest.order) /\ (~forest.visible[c] \/ base[c] # 0)
  BY TrimmedIs
<1>2. c \in Components /\ base[c] \in Nat /\ forest.visible[c] \in BOOLEAN
  BY <1>1, ReadyParts, ForestParts, StartIs
<1>3. CASE forest.visible[c]
  <2>1. First(c) = <<base[c]>>
    BY <1>3 DEF First
  <2>2. QED
    BY <1>1, <1>2, <1>3, <2>1
<1>4. CASE ~forest.visible[c]
  <2>1. First(c) = << >>
    BY <1>4 DEF First
  <2>2. QED
    BY <1>1, <1>2, <1>4, <2>1
<1>5. QED
  BY <1>3, <1>4

PathsTo(c) == PathsFrom(RootNode(forest, c), SizeOf(c), First(c))

(* The paths of one tree: to what is reached, and routed.                  *)
LEMMA PathsToTree ==
  ASSUME Ready, NEW c \in ToSet(Trimmed.order)
  PROVE  /\ DOMAIN PathsTo(c) = { Node(forest, c, v) : v \in Reached(c) }
         /\ IsFiniteSet(DOMAIN PathsTo(c))
         /\ \A n \in DOMAIN PathsTo(c) :
              /\ n.comp = c /\ RoutedTo(n, PathsTo(c)[n])
              /\ ByPatches(n, PathsTo(c)[n], DOMAIN PathsTo(c))
<1> DEFINE F == FoundIn(c)
           L == Len(F)
           P == PathsTo(c)
           start == First(c)
<1>1. c \in ToSet(forest.order) /\ start \in Seq(Nat) /\ Len(start) \in Nat
  BY FirstIs
<1>2. SearchedAll(F) /\ L \in Nat /\ L >= 1 /\ F[1].node = RootNode(forest, c) /\ Distinct(F)
  <2>1. SearchedAll(F) /\ L \in Nat /\ L >= 1 /\ Searched(F, RootNode(forest, c), SizeOf(c))
    BY <1>1, SearchOf
  <2>2. F[1] = [node |-> RootNode(forest, c), parent |-> 0]
    BY <2>1 DEF Searched
  <2>3. QED
    BY <2>1, <2>2 DEF SearchedAll
<1>3. PICK to : /\ Leads(to, F, start)
                /\ DOMAIN P = { F[k].node : k \in 1..L }
                /\ \A k \in 1..L : P[F[k].node] = to[k]
  <2>1. SearchedAll(Found(RootNode(forest, c), SizeOf(c)))
    BY <1>2 DEF FoundIn
  <2> DEFINE r == RootNode(forest, c)
             size == SizeOf(c)
  <2>2. F = Found(r, size) /\ P = PathsFrom(r, size, start)
    BY DEF FoundIn, PathsTo
  <2> HIDE DEF r, size, F, P, start
  <2>3. SearchedAll(Found(r, size))
    BY <2>1 DEF r, size
  <2>4. IsLed(PathsFrom(r, size, start), Found(r, size), start)
    BY <1>1, <2>3, PathsLead
  <2>5. IsLed(P, F, start)
    BY <2>2, <2>4
  <2>6. QED
    BY <2>5 DEF IsLed, L
<1>4. Way(c, start, to)
  BY <1>1, <1>3 DEF Way
<1>5. \A k \in 1..L : F[k].node = Node(forest, c, F[k].node.ver) /\ F[k].node.ver \in Has(forest, c)
  BY <1>1, NodesFound
<1>6. { F[k].node.ver : k \in 1..L } = Reached(c)
  BY <1>4, FoundIsReached
<1>7. ASSUME NEW k \in 1..L
      PROVE  /\ F[k].node.comp = c /\ RoutedTo(F[k].node, to[k])
             /\ ByPatches(F[k].node, to[k], DOMAIN P)
  <2> DEFINE n == F[k].node
             ids == to[k]
             s == Len(start)
  <2>1. n = Node(forest, c, n.ver) /\ n.ver \in Has(forest, c)
    BY <1>5
  <2>2. n.comp = c
    BY <2>1 DEF Node
  <2>3. Chain(c, ids, s, n.ver) /\ Leading(F, ids, start)
    BY <1>4, WaysChain
  <2>4. \A d \in Nat : d < Len(ids) - s => n.ver \notin Within(c, d)
    BY <1>4, NoneNearer
  <2>5. n = RootNode(forest, c) => Len(ids) = s
    <3> SUFFICES ASSUME n = RootNode(forest, c) PROVE Len(ids) = s
      OBVIOUS
    <3>1. 1 \in 1..L /\ F[1].node = F[k].node
      BY <1>2
    <3>2. k = 1
      BY <1>2, <3>1 DEF Distinct
    <3>3. to[1] = start
      BY <1>3 DEF Leads
    <3>4. QED
      BY <3>2, <3>3
  <2>6. ASSUME NEW i \in s + 1 .. Len(ids)
        PROVE  \E p \in ToSet(patches) : p.id = ids[i] /\ p.node \in DOMAIN P
    <3>1. PICK j \in 2..L : Link(F, j).id = ids[i]
      BY <2>3 DEF Leading
    <3>2. Link(F, j) \in ToSet(patches) /\ Link(F, j).node = F[j].node
      BY <1>2, LinksAreListed
    <3>3. j \in 1..L
      BY <1>2
    <3>4. QED
      BY <1>3, <3>1, <3>2, <3>3
  <2>7. \A i \in 1..s : ids[i] = start[i]
    BY <2>3 DEF Leading
  <2> HIDE DEF F, P, start, ids, n
  <2>8. RoutedTo(n, ids)
    BY <2>1, <2>2, <2>3, <2>4, <2>5, <2>7 DEF RoutedTo, start
  <2>9. ByPatches(n, ids, DOMAIN P)
    BY <2>2, <2>6 DEF ByPatches, start
  <2>10. QED
    BY <2>2, <2>8, <2>9 DEF n, ids
<1>8. IsFiniteSet({ F[k].node : k \in 1..L })
  <2> DEFINE g == [k \in 1..L |-> F[k].node]
  <2>1. DOMAIN g = 1..L /\ { g[k] : k \in 1..L } = { F[k].node : k \in 1..L }
    OBVIOUS
  <2> HIDE DEF g
  <2>2. IsFiniteSet(1..L)
    BY <1>2, FS_Interval
  <2>3. IsFiniteSet({ g[k] : k \in 1..L })
    BY <2>1, <2>2, ImageIsFinite
  <2>4. QED
    BY <2>1, <2>3
<1> HIDE DEF F, P, L
<1>9. DOMAIN P = { Node(forest, c, v) : v \in Reached(c) }
  BY <1>3, <1>5, <1>6
<1>10. ASSUME NEW n \in DOMAIN P
       PROVE  n.comp = c /\ RoutedTo(n, P[n]) /\ ByPatches(n, P[n], DOMAIN P)
  <2>1. PICK k \in 1..L : n = F[k].node
    BY <1>3
  <2>2. P[n] = to[k]
    BY <1>3, <2>1
  <2>3. QED
    BY <1>7, <2>1, <2>2
<1>11. QED
  BY <1>3, <1>8, <1>9, <1>10 DEF P

Routes(paths) ==
  /\ IsFiniteSet(DOMAIN paths)
  /\ \A n \in DOMAIN paths : /\ n.comp \in ToSet(Trimmed.order)
                             /\ n.ver \in Reached(n.comp)
                             /\ RoutedTo(n, paths[n]) /\ ByPatches(n, paths[n], DOMAIN paths)
  /\ \A c \in ToSet(Trimmed.order) : \A v \in Reached(c) : Node(forest, c, v) \in DOMAIN paths

(* The paths of all the trees.                                             *)
LEMMA PathsAreRouted ==
  ASSUME Ready
  PROVE  Routes(AllPaths(Trimmed))
<1> DEFINE T == ToSet(Trimmed.order)
           from == [c \in T |-> PathsTo(c)]
           P == AllPaths(Trimmed)
           D == UNION { DOMAIN from[c] : c \in T }
<1>1. ASSUME NEW c \in T
      PROVE  PathsFrom(RootNode(Trimmed, c), Cardinality(TreeNodes(Trimmed, c)) + 1,
                       IF Trimmed.visible[c] THEN <<base[c]>> ELSE << >>) = PathsTo(c)
  <2>1. RootNode(Trimmed, c) = RootNode(forest, c) /\ TreeNodes(Trimmed, c) = TreeNodes(forest, c)
        /\ Trimmed.visible = forest.visible
    BY TrimmedIs
  <2>2. QED
    BY <2>1 DEF PathsTo, SizeOf, First
<1>2. P = [n \in D |-> from[n.comp][n]]
  <2> DEFINE own == [c \in T |-> PathsFrom(RootNode(Trimmed, c), Cardinality(TreeNodes(Trimmed, c)) + 1,
                       IF Trimmed.visible[c] THEN <<base[c]>> ELSE << >>)]
  <2>1. P = [n \in UNION { DOMAIN own[c] : c \in T } |-> own[n.comp][n]]
    BY DEF AllPaths
  <2>2. own = from
    BY <1>1
  <2> HIDE DEF own, from, P
  <2>3. QED
    BY <2>1, <2>2
<1>3. \A c \in T : from[c] = PathsTo(c)
  OBVIOUS
<1> HIDE DEF P, from, T
<1>4. DOMAIN P = UNION { DOMAIN PathsTo(c) : c \in T }
  BY <1>2, <1>3
<1>5. ASSUME NEW n \in DOMAIN P
      PROVE  /\ n.comp \in T /\ n \in DOMAIN PathsTo(n.comp) /\ P[n] = PathsTo(n.comp)[n]
  <2>1. PICK c \in T : n \in DOMAIN PathsTo(c)
    BY <1>4
  <2>2. n.comp = c
    BY <2>1, PathsToTree DEF T
  <2>3. QED
    BY <1>2, <1>3, <1>4, <2>1, <2>2
<1>6. ASSUME NEW n \in DOMAIN P
      PROVE  /\ n.ver \in Reached(n.comp)
             /\ RoutedTo(n, P[n]) /\ ByPatches(n, P[n], DOMAIN P)
  <2> DEFINE c == n.comp
  <2>1. c \in T /\ n \in DOMAIN PathsTo(c) /\ P[n] = PathsTo(c)[n]
    BY <1>5
  <2> HIDE DEF c
  <2>2. /\ RoutedTo(n, P[n]) /\ ByPatches(n, P[n], DOMAIN PathsTo(c))
        /\ DOMAIN PathsTo(c) = { Node(forest, c, v) : v \in Reached(c) }
    BY <2>1, PathsToTree DEF T
  <2>3. DOMAIN PathsTo(c) \subseteq DOMAIN P
    BY <1>4, <2>1
  <2>4. ByPatches(n, P[n], DOMAIN P)
    BY <2>2, <2>3 DEF ByPatches
  <2>5. PICK v \in Reached(c) : n = Node(forest, c, v)
    BY <2>1, <2>2
  <2>6. n.ver = v
    BY <2>5 DEF Node
  <2>7. QED
    BY <2>2, <2>4, <2>5, <2>6 DEF c
<1>7. ASSUME NEW c \in T, NEW v \in Reached(c) PROVE Node(forest, c, v) \in DOMAIN P
  <2>1. DOMAIN PathsTo(c) = { Node(forest, c, w) : w \in Reached(c) }
    BY PathsToTree DEF T
  <2>2. Node(forest, c, v) \in DOMAIN PathsTo(c)
    BY <2>1
  <2>3. QED
    BY <1>4, <2>2
<1>8. IsFiniteSet(DOMAIN P)
  <2> DEFINE g == [c \in T |-> DOMAIN PathsTo(c)]
  <2>1. DOMAIN g = T /\ \A c \in T : g[c] = DOMAIN PathsTo(c)
    OBVIOUS
  <2> HIDE DEF g
  <2>2. IsFiniteSet(T)
    <3> DEFINE o == Trimmed.order
    <3>1. o \in Seq(Components)
      BY TrimmedIs, ForestParts
    <3> HIDE DEF o
    <3>2. DOMAIN o = 1..Len(o) /\ Len(o) \in Nat
      BY <3>1
    <3>3. IsFiniteSet(1..Len(o))
      BY <3>2, FS_Interval
    <3>4. IsFiniteSet({ o[i] : i \in 1..Len(o) })
      BY <3>2, <3>3, ImageIsFinite
    <3>5. QED
      BY <3>2, <3>4 DEF ToSet, T, o
  <2>3. IsFiniteSet({ g[c] : c \in T })
    BY <2>1, <2>2, ImageIsFinite
  <2>4. \A S \in { g[c] : c \in T } : IsFiniteSet(S)
    <3> SUFFICES ASSUME NEW c \in T PROVE IsFiniteSet(g[c])
      OBVIOUS
    <3>1. IsFiniteSet(DOMAIN PathsTo(c))
      BY PathsToTree DEF T
    <3>2. QED
      BY <2>1, <3>1
  <2>5. IsFiniteSet(UNION { g[c] : c \in T })
    BY <2>3, <2>4, FS_UNION
  <2>6. DOMAIN P = UNION { g[c] : c \in T }
    BY <1>4, <2>1
  <2>7. QED
    BY <2>5, <2>6
<1>9. QED
  BY <1>5, <1>6, <1>7, <1>8 DEF Routes, T, P

-----------------------------------------------------------------------------
(***************************************************************************)
(* The patches that are kept: those that a path needs.                     *)
(***************************************************************************)
LEMMA BasePatchIs ==
  ASSUME Ready, NEW c \in ToSet(forest.order), forest.visible[c], base[c] # 0
  PROVE  \E p \in ToSet(patches) : p.id = base[c] /\ p.node = RootNode(forest, c) /\ p.refcount = 1
<1>1. /\ c \in Components /\ c \notin DOMAIN Installed
      /\ EntriesOf(c) = EntriesIn(listed, c) /\ Tracks(forest, c, patches, listed, base)
  BY StartIs, ReadyParts DEF Ready, Matches
<1>2. PICK low \in Nat : Since(low, forest, c, patches, listed, base)
  BY <1>1 DEF Tracks
<1> DEFINE b == base[c]
<1>3. b \in EntriesIn(listed, c) /\ listed[b].ver = forest.ver[c] /\ Satisfied(listed[b])
  BY <1>2 DEF Since
<1>4. b >= low
  <2>1. ~(b < low)
    <3> SUFFICES ASSUME b < low PROVE FALSE
      OBVIOUS
    <3>1. forest.ver[c][1] < forest.ver[c][1]
      BY <1>2, <1>3 DEF Since
    <3>2. forest.ver[c][1] \in Nat
      BY StartIs
    <3>3. QED
      BY <3>1, <3>2
  <2>2. b \in Nat
    BY <1>1, <1>3, ReadyParts
  <2>3. QED
    BY <2>1, <2>2
<1>5. Shown(b, forest, c, patches)
  BY <1>2, <1>3, <1>4 DEF Since
<1>6. PICK p \in ToSet(patches) : p.id = b /\ p.node.comp = c /\ p.node.gen = forest.gen[c]
  BY <1>5 DEF Shown
<1>7. Fits(p, forest, listed) /\ FitsNow(p, forest, listed) /\ p \in PatchRecords
  BY ReadyParts
<1>8. p.node.ver = forest.ver[c] /\ Stands(p, forest, c, listed[b])
  BY <1>3, <1>6, <1>7, Zenon DEF Fits, FitsNow
<1>9. p.refcount = 1
  BY <1>3, <1>8 DEF Stands, IsBase
<1>10. p.node = RootNode(forest, c)
  <2>1. p.node \in NodeRecords
    BY <1>7 DEF PatchRecords
  <2>2. QED
    BY <1>6, <1>8, <2>1 DEF NodeRecords, RootNode, Node
<1>11. QED
  BY <1>6, <1>9, <1>10

(* Every root has a path, if an empty one.                                 *)
LEMMA RootsAreRouted ==
  ASSUME Ready, NEW paths, Routes(paths), NEW c \in ToSet(Trimmed.order)
  PROVE  RootNode(forest, c) \in DOMAIN paths
<1>1. c \in ToSet(forest.order)
  BY FirstIs
<1>2. forest.ver[c] = Start(c)
  BY <1>1, StartIs
<1>3. Cardinality(EntriesOf(c)) \in Nat
  <2>1. EntriesOf(c) \subseteq 1..Len(listed) /\ Len(listed) \in Nat
    BY <1>1, ReadyParts
  <2>2. IsFiniteSet(1..Len(listed))
    BY <2>1, FS_Interval
  <2>3. QED
    BY <2>1, <2>2, FS_Subset, FS_CardinalityType
<1>4. Within(c, 0) \subseteq Reached(c) /\ Within(c, 0) = {Start(c)}
  <2>1. 0 \in Nat /\ 0 <= Cardinality(EntriesOf(c))
    BY <1>3
  <2>2. Within(c, 0) = {Start(c)}
    BY <1>1, WithinSteps
  <2>3. Within(c, 0) \subseteq Reached(c)
    BY <1>1, <1>3, <2>1, WithinGrows DEF Reached
  <2>4. QED
    BY <2>2, <2>3
<1>5. QED
  BY <1>2, <1>4 DEF Routes, RootNode

(* A patch that is on some path has been counted.                          *)
LEMMA UsesIs ==
  ASSUME Ready, NEW paths, Routes(paths), NEW id
  PROVE  /\ Uses(Trimmed, paths, id) \in Nat
         /\ \A n \in DOMAIN paths : \A i \in Len(First(n.comp)) + 1 .. Len(paths[n]) :
              paths[n][i] = id => Uses(Trimmed, paths, id) # 0
<1> DEFINE D == DOMAIN paths
           g == [n \in D |-> {n} \X DOMAIN paths[n]]
           Steps == UNION { {n} \X DOMAIN paths[n] : n \in D }
           Counts(n, k) == /\ n # RootNode(Trimmed, n.comp)
                           /\ paths[n][k] = id
                           /\ k = 1 => ~Trimmed.visible[n.comp]
           S == { u \in Steps : Counts(u[1], u[2]) }
<1>1. IsFiniteSet(D) /\ \A n \in D : /\ n.comp \in ToSet(Trimmed.order) /\ RoutedTo(n, paths[n])
  BY DEF Routes
<1>2. \A n \in D : /\ paths[n] \in Seq(Nat) /\ Len(paths[n]) \in Nat
                   /\ DOMAIN paths[n] = 1..Len(paths[n])
  BY <1>1 DEF RoutedTo, Chain
<1>3. \A n \in D : IsFiniteSet({n} \X DOMAIN paths[n])
  <2> SUFFICES ASSUME NEW n \in D PROVE IsFiniteSet({n} \X DOMAIN paths[n])
    OBVIOUS
  <2>1. IsFiniteSet({n})
    BY FS_Singleton
  <2>2. IsFiniteSet(1..Len(paths[n]))
    BY <1>2, FS_Interval
  <2>3. QED
    BY <1>2, <2>1, <2>2, FS_Product
<1>4. IsFiniteSet(Steps)
  <2>1. DOMAIN g = D /\ \A n \in D : g[n] = {n} \X DOMAIN paths[n]
    OBVIOUS
  <2>2. Steps = UNION { g[n] : n \in D }
    BY <2>1
  <2> HIDE DEF g, Steps, D
  <2>3. IsFiniteSet({ g[n] : n \in D })
    BY <1>1, <2>1, ImageIsFinite
  <2>4. \A T \in { g[n] : n \in D } : IsFiniteSet(T)
    BY <1>3, <2>1
  <2>5. QED
    BY <2>2, <2>3, <2>4, FS_UNION
<1>5. IsFiniteSet(S) /\ Cardinality(S) \in Nat
  <2>1. S \in SUBSET Steps
    OBVIOUS
  <2> HIDE DEF S, Steps
  <2>2. QED
    BY <1>4, <2>1, FS_Subset, FS_CardinalityType
<1>6. Uses(Trimmed, paths, id) = Cardinality(S)
  BY DEF Uses
<1>7. ASSUME NEW n \in D, NEW i \in Len(First(n.comp)) + 1 .. Len(paths[n]), paths[n][i] = id
      PROVE  Cardinality(S) # 0
  <2> DEFINE c == n.comp
  <2>1. c \in ToSet(Trimmed.order) /\ RoutedTo(n, paths[n])
    BY <1>1
  <2>2. /\ Len(First(c)) \in Nat
        /\ IF forest.visible[c] THEN Len(First(c)) = 1 ELSE Len(First(c)) = 0
    BY <2>1, FirstIs
  <2>3. n = RootNode(forest, c) => Len(paths[n]) = Len(First(c))
    BY <2>1 DEF RoutedTo
  <2>4. RootNode(Trimmed, c) = RootNode(forest, c) /\ Trimmed.visible = forest.visible
    BY TrimmedIs
  <2>5. Len(paths[n]) \in Nat /\ i \in 1..Len(paths[n])
    BY <1>2, <2>2
  <2>6. n # RootNode(Trimmed, c)
    BY <2>2, <2>3, <2>4, <2>5
  <2>7. i = 1 => ~Trimmed.visible[c]
    <3> SUFFICES ASSUME i = 1, forest.visible[c] PROVE FALSE
      BY <2>4
    <3>1. Len(First(c)) = 1
      BY <2>2
    <3>2. i \in 1 + 1 .. Len(paths[n])
      BY <3>1
    <3> HIDE DEF c
    <3>3. QED
      BY <2>5, <3>2
  <2>8. <<n, i>> \in Steps
    BY <1>2, <2>5
  <2>9. <<n, i>> \in S
    <3> HIDE DEF Steps
    <3> QED BY <1>7, <2>6, <2>7, <2>8
  <2> HIDE DEF S
  <2>10. S # {}
    BY <2>9
  <2>11. QED
    BY <1>5, <2>10, FS_EmptySet
<1>8. QED
  BY <1>5, <1>6, <1>7

Counted(paths) ==
  [k \in 1..Len(patches) |->
     [patches[k] EXCEPT !.refcount = @ + Uses(Trimmed, paths, patches[k].id)]]

Kept(paths) == Only(Counted(paths), { p \in ToSet(Counted(paths)) : p.refcount # 0 })

(* The same patch, whatever it is counted for.                             *)
SamePatch(p, q) ==
  /\ p \in PatchRecords /\ q \in PatchRecords
  /\ p.id = q.id /\ p.node = q.node /\ p.size = q.size /\ p.apply = q.apply

(* The patches that are kept: those that install, and those in use.        *)
LEMMA KeptAre ==
  ASSUME Ready, NEW paths, Routes(paths)
  PROVE  /\ Kept(paths) \in Seq(PatchRecords)
         /\ \A p \in ToSet(Kept(paths)) : \E q \in ToSet(patches) : SamePatch(p, q)
         /\ \A p, q \in ToSet(Kept(paths)) : p.id = q.id => p = q
         /\ \A q \in ToSet(patches) :
              q.refcount # 0 \/ Uses(Trimmed, paths, q.id) # 0 =>
                \E p \in ToSet(Kept(paths)) : SamePatch(p, q)
<1> DEFINE n == Len(patches)
           C == Counted(paths)
           u(q) == Uses(Trimmed, paths, q.id)
           counted(q) == [q EXCEPT !.refcount = @ + u(q)]
           S == { p \in ToSet(C) : p.refcount # 0 }
<1>1. /\ n \in Nat /\ DOMAIN patches = 1..n /\ patches \in Seq(PatchRecords)
      /\ \A k \in 1..n : patches[k] \in PatchRecords /\ patches[k] \in ToSet(patches)
      /\ \A q \in ToSet(patches) : \E k \in 1..n : q = patches[k]
  <2>1. patches \in Seq(PatchRecords)
    BY ReadyParts
  <2>2. n \in Nat /\ DOMAIN patches = 1..n /\ \A k \in 1..n : patches[k] \in PatchRecords
    BY <2>1
  <2> HIDE DEF n
  <2>3. QED
    BY <2>1, <2>2 DEF ToSet
<1>2. ASSUME NEW q \in PatchRecords
      PROVE  /\ SamePatch(counted(q), q) /\ counted(q) \in PatchRecords
             /\ counted(q).refcount = q.refcount + u(q)
             /\ q.refcount \in Nat /\ u(q) \in Nat
  <2>1. u(q) \in Nat
    BY UsesIs
  <2> HIDE DEF u
  <2>2. q.refcount \in Nat /\ q.refcount + u(q) \in Nat
    BY <2>1 DEF PatchRecords
  <2>3. counted(q) \in PatchRecords
    BY <2>2 DEF PatchRecords
  <2>4. /\ counted(q).refcount = q.refcount + u(q)
        /\ counted(q).id = q.id /\ counted(q).node = q.node /\ counted(q).size = q.size
        /\ counted(q).apply = q.apply
    BY DEF PatchRecords
  <2> HIDE DEF counted
  <2>5. QED
    BY <2>1, <2>2, <2>3, <2>4 DEF SamePatch
<1>3. C = [k \in 1..n |-> counted(patches[k])]
  BY DEF Counted
<1> HIDE DEF C, u, counted, n
<1>4. C \in Seq(PatchRecords) /\ Len(C) = n /\ \A k \in 1..n : C[k] = counted(patches[k])
  BY <1>1, <1>2, <1>3
<1>5. ToSet(Kept(paths)) = ToSet(C) \cap S /\ Kept(paths) \in Seq(PatchRecords)
  <2>1. Kept(paths) = Only(C, S)
    BY DEF Kept, C
  <2> HIDE DEF S
  <2>2. QED
    BY <1>4, <2>1, OnlyKeeps, OnlyThins
<1>6. ASSUME NEW p \in ToSet(Kept(paths))
      PROVE  \E q \in ToSet(patches) : p = counted(q) /\ q \in PatchRecords
  <2>1. p \in ToSet(C)
    BY <1>5
  <2>2. PICK k \in 1..n : p = C[k]
    BY <1>4, <2>1 DEF ToSet
  <2>3. QED
    BY <1>1, <1>4, <2>2
<1>7. \A p \in ToSet(Kept(paths)) : \E q \in ToSet(patches) : SamePatch(p, q)
  BY <1>2, <1>6
<1>8. ASSUME NEW p \in ToSet(Kept(paths)), NEW q \in ToSet(Kept(paths)), p.id = q.id PROVE p = q
  <2>1. PICK a \in ToSet(patches) : p = counted(a) /\ a \in PatchRecords
    BY <1>6
  <2>2. PICK b \in ToSet(patches) : q = counted(b) /\ b \in PatchRecords
    BY <1>6
  <2>3. a.id = b.id
    BY <1>2, <1>8, <2>1, <2>2 DEF SamePatch
  <2>4. a = b
    BY <2>3 DEF Ready, Matches
  <2>5. QED
    BY <2>1, <2>2, <2>4
<1>9. ASSUME NEW q \in ToSet(patches), q.refcount # 0 \/ u(q) # 0
      PROVE  \E p \in ToSet(Kept(paths)) : SamePatch(p, q)
  <2>1. PICK k \in 1..n : q = patches[k]
    BY <1>1
  <2>2. C[k] = counted(q) /\ C[k] \in ToSet(C) /\ q \in PatchRecords
    BY <1>1, <1>4, <2>1 DEF ToSet
  <2>3. counted(q).refcount = q.refcount + u(q) /\ q.refcount \in Nat /\ u(q) \in Nat
        /\ SamePatch(counted(q), q)
    BY <1>2, <2>2
  <2>4. counted(q).refcount # 0
    BY <1>9, <2>3
  <2>5. counted(q) \in S
    BY <2>2, <2>4
  <2>6. QED
    BY <1>5, <2>2, <2>3, <2>5
<1>10. QED
  BY <1>5, <1>7, <1>8, <1>9 DEF u

-----------------------------------------------------------------------------
(***************************************************************************)
(* What calculate_paths() leaves.                                          *)
(***************************************************************************)
OnRoute(f, b, n, ids) ==
  LET c == n.comp
      s == IF f.visible[c] THEN 1 ELSE 0
  IN  /\ n = Node(f, c, n.ver) /\ n.ver \in Has(f, c)
      /\ Chain(c, ids, s, n.ver)
      /\ f.visible[c] => ids[1] = b[c]
      /\ \A d \in Nat : d < Len(ids) - s => n.ver \notin Within(c, d)
      /\ n = RootNode(f, c) => Len(ids) = s

Needs(ids, ps, nodes) ==
  \A i \in 1..Len(ids) : \E p \in ToSet(ps) : p.id = ids[i] /\ p.node \in nodes

Listed(p) ==
  p.id \in 1..Len(listed) /\ p.node.comp = listed[p.id].comp /\ p.node.ver = listed[p.id].ver

SettledIn(f, b, ps, paths) ==
  /\ Good(f) /\ ps \in Seq(PatchRecords)
  /\ \A p, q \in ToSet(ps) : p.id = q.id => p = q
  /\ \A p \in ToSet(ps) : Listed(p)
  /\ \A c \in Components : c \notin ToSet(f.order) => Available(c) = {}
  /\ \A c \in ToSet(f.order) : /\ f.ver[c] = Start(c) /\ Has(f, c) = Reached(c)
                               /\ f.visible[c] => b[c] \in Bases(c)
  /\ DOMAIN paths = Live(f)
  /\ \A n \in DOMAIN paths : /\ n.comp \in ToSet(f.order)
                             /\ OnRoute(f, b, n, paths[n])
                             /\ Needs(paths[n], ps, DOMAIN paths)

(* The nodes in a tree.                                                    *)
LEMMA LiveIs ==
  ASSUME NEW f, Good(f)
  PROVE  \A n : n \in Live(f) <=>
                  \E c \in ToSet(f.order) : \E v \in Has(f, c) : n = Node(f, c, v)
<1>1. \A c \in ToSet(f.order) :
        {RootNode(f, c)} \union TreeNodes(f, c) = { Node(f, c, v) : v \in Has(f, c) }
  <2> SUFFICES ASSUME NEW c \in ToSet(f.order)
               PROVE  {RootNode(f, c)} \union TreeNodes(f, c) = { Node(f, c, v) : v \in Has(f, c) }
    OBVIOUS
  <2>1. TreeNodes(f, c) = { Node(f, c, v) : v \in VersionsOn(f.levels[c]) }
    BY TreeIs
  <2>2. RootNode(f, c) = Node(f, c, f.ver[c])
    BY DEF RootNode
  <2>3. QED
    BY <2>1, <2>2 DEF Has
<1>2. \A n : n \in Live(f) <=>
               \E c \in ToSet(f.order) : n \in {RootNode(f, c)} \union TreeNodes(f, c)
  BY DEF Live
<1>3. QED
  BY <1>1, <1>2

(* The trees that are left have paths to all their nodes.                  *)
LEMMA TreesAreRouted ==
  ASSUME Ready, NEW paths, Routes(paths), NEW g, g = NodesTrimmed(Trimmed, paths)
  PROVE  /\ Good(g) /\ g.order = Trimmed.order
         /\ g.ver = forest.ver /\ g.gen = forest.gen /\ g.visible = forest.visible
         /\ \A c, v : Node(g, c, v) = Node(forest, c, v)
         /\ \A c \in ToSet(g.order) : Has(g, c) = Reached(c)
         /\ DOMAIN paths = Live(g)
<1> DEFINE f == Trimmed
<1>1. /\ Good(f) /\ f.ver = forest.ver /\ f.gen = forest.gen /\ f.visible = forest.visible
      /\ f.levels = forest.levels
      /\ \A c, v : Node(f, c, v) = Node(forest, c, v)
  BY TrimmedIs
<1>2. /\ Good(g) /\ g.order = f.order /\ g.ver = f.ver /\ g.gen = f.gen /\ g.visible = f.visible
      /\ \A c \in ToSet(f.order) :
           VersionsOn(g.levels[c]) = { v \in VersionsOn(f.levels[c]) : Node(f, c, v) \in DOMAIN paths }
  BY <1>1, TreesThin
<1>3. \A c, v : Node(g, c, v) = Node(forest, c, v)
  BY <1>1, <1>2 DEF Node
<1>4. \A n \in DOMAIN paths : /\ n.comp \in ToSet(f.order) /\ n.ver \in Reached(n.comp)
                              /\ n = Node(forest, n.comp, n.ver) /\ n.ver \in Has(forest, n.comp)
  BY DEF Routes, RoutedTo
<1>5. \A c \in ToSet(f.order) : \A v \in Reached(c) : Node(forest, c, v) \in DOMAIN paths
  BY DEF Routes
<1>6. \A c, v : Node(forest, c, v).comp = c /\ Node(forest, c, v).ver = v
  BY DEF Node
<1>7. \A c \in ToSet(f.order) : RootNode(forest, c) \in DOMAIN paths
  BY RootsAreRouted
<1> HIDE DEF f
<1>8. ASSUME NEW c \in ToSet(f.order) PROVE Has(g, c) = Reached(c)
  <2>1. Has(g, c) = { v \in Has(forest, c) : Node(forest, c, v) \in DOMAIN paths }
    <3>1. Node(forest, c, forest.ver[c]) \in DOMAIN paths
      BY <1>7 DEF RootNode
    <3>2. VersionsOn(g.levels[c]) =
            { v \in VersionsOn(forest.levels[c]) : Node(forest, c, v) \in DOMAIN paths }
      BY <1>1, <1>2
    <3>3. g.ver[c] = forest.ver[c]
      BY <1>1, <1>2
    <3>4. QED
      BY <3>1, <3>2, <3>3 DEF Has
  <2>2. \A v : Node(forest, c, v) \in DOMAIN paths => v \in Reached(c) /\ v \in Has(forest, c)
    BY <1>4, <1>6
  <2>3. QED
    BY <1>5, <2>1, <2>2
<1>9. DOMAIN paths = Live(g)
  <2>1. \A n : n \in Live(g) <=>
                  \E c \in ToSet(f.order) : \E v \in Has(g, c) : n = Node(forest, c, v)
    BY <1>2, <1>3, LiveIs
  <2>2. \A n \in DOMAIN paths : n \in Live(g)
    BY <1>4, <1>8, <2>1
  <2>3. \A n \in Live(g) : n \in DOMAIN paths
    BY <1>5, <1>8, <2>1
  <2>4. QED
    BY <2>2, <2>3
<1>10. QED
  BY <1>1, <1>2, <1>3, <1>8, <1>9 DEF f

(* What calculate_paths() leaves behind is settled.                        *)
LEMMA PathsSettle ==
  ASSUME Ready, NEW paths, Routes(paths)
  PROVE  SettledIn(NodesTrimmed(Trimmed, paths), base, Kept(paths), paths)
<1> DEFINE g == NodesTrimmed(Trimmed, paths)
           ps == Kept(paths)
           D == DOMAIN paths
           T == ToSet(Trimmed.order)
<1>1. /\ Good(g) /\ g.order = Trimmed.order
      /\ g.ver = forest.ver /\ g.gen = forest.gen /\ g.visible = forest.visible
      /\ \A c, v : Node(g, c, v) = Node(forest, c, v)
      /\ \A c \in ToSet(g.order) : Has(g, c) = Reached(c)
      /\ D = Live(g)
  BY TreesAreRouted
<1>2. /\ ps \in Seq(PatchRecords)
      /\ \A p \in ToSet(ps) : \E q \in ToSet(patches) : SamePatch(p, q)
      /\ \A p, q \in ToSet(ps) : p.id = q.id => p = q
      /\ \A q \in ToSet(patches) :
           q.refcount # 0 \/ Uses(Trimmed, paths, q.id) # 0 =>
                \E p \in ToSet(ps) : SamePatch(p, q)
  BY KeptAre
<1> HIDE DEF g, ps
<1>3. \A p \in ToSet(ps) : Listed(p)
  <2> SUFFICES ASSUME NEW p \in ToSet(ps) PROVE Listed(p)
    OBVIOUS
  <2>1. PICK q \in ToSet(patches) : SamePatch(p, q)
    BY <1>2
  <2>2. Fits(q, forest, listed)
    BY ReadyParts
  <2>3. QED
    BY <2>1, <2>2 DEF Fits, Listed, SamePatch
<1>4. \A c \in Components : c \notin T => Available(c) = {}
  <2> SUFFICES ASSUME NEW c \in Components, c \notin T PROVE Available(c) = {}
    OBVIOUS
  <2>1. c \notin DOMAIN Installed
    BY TrimmedIs DEF Good
  <2>2. c \notin ToSet(forest.order) \/ base[c] = 0
    BY TrimmedIs
  <2>3. EntriesOf(c) = {} \/ Bases(c) = {}
    BY <2>1, <2>2, BaseIs
  <2>4. QED
    BY <2>1, <2>3 DEF Available
<1>5. \A c \in T : /\ forest.ver[c] = Start(c)
                   /\ forest.visible[c] => base[c] \in Bases(c)
  <2> SUFFICES ASSUME NEW c \in T
               PROVE  forest.ver[c] = Start(c) /\ (forest.visible[c] => base[c] \in Bases(c))
    OBVIOUS
  <2>1. /\ c \in ToSet(forest.order) /\ c \in Components
        /\ forest.visible[c] => base[c] # 0
    BY FirstIs
  <2>2. forest.ver[c] = Start(c)
    BY <2>1, StartIs
  <2>3. base[c] # 0 => base[c] \in Bases(c)
    BY <2>1, BaseIs
  <2>4. QED
    BY <2>1, <2>2, <2>3
<1>6. ASSUME NEW n \in D
      PROVE  n.comp \in T /\ OnRoute(g, base, n, paths[n]) /\ Needs(paths[n], ps, D)
  <2> DEFINE c == n.comp
             ids == paths[n]
             s == Len(First(c))
             t == IF g.visible[c] THEN 1 ELSE 0
  <2>1. c \in T /\ n.ver \in Reached(c) /\ RoutedTo(n, ids) /\ ByPatches(n, ids, D)
    BY DEF Routes
  <2>2. /\ s = t /\ (forest.visible[c] => First(c)[1] = base[c])
        /\ c \in ToSet(forest.order) /\ (forest.visible[c] => base[c] # 0)
        /\ forest.visible[c] \in BOOLEAN
    BY <1>1, <2>1, FirstIs
  <2> HIDE DEF s, t, c, ids
  <2>3. /\ n = Node(forest, c, n.ver) /\ Chain(c, ids, s, n.ver)
        /\ \A i \in 1..s : ids[i] = First(c)[i]
        /\ \A d \in Nat : d < Len(ids) - s => n.ver \notin Within(c, d)
        /\ n = RootNode(forest, c) => Len(ids) = s
    BY <2>1 DEF RoutedTo, s, c
  <2>4. forest.visible[c] => s = 1 /\ ids[1] = base[c]
    <3> SUFFICES ASSUME forest.visible[c] PROVE s = 1 /\ ids[1] = base[c]
      OBVIOUS
    <3>1. s = 1
      BY <1>1, <2>2 DEF t
    <3>2. 1 \in 1..s
      BY <3>1
    <3>3. QED
      BY <2>2, <2>3, <3>1, <3>2
  <2>5. OnRoute(g, base, n, ids)
    <3>1. RootNode(g, c) = RootNode(forest, c)
      BY <1>1 DEF RootNode
    <3>2. n = Node(g, c, n.ver) /\ n.ver \in Has(g, c) /\ Chain(c, ids, t, n.ver)
      BY <1>1, <2>1, <2>2, <2>3
    <3>3. g.visible[c] => ids[1] = base[c]
      BY <1>1, <2>4
    <3>4. \A d \in Nat : d < Len(ids) - t => n.ver \notin Within(c, d)
      BY <2>2, <2>3
    <3>5. n = RootNode(g, c) => Len(ids) = t
      BY <2>2, <2>3, <3>1
    <3>6. QED
      BY <3>2, <3>3, <3>4, <3>5 DEF OnRoute, t, c
  <2>6. Needs(ids, ps, D)
    <3> SUFFICES ASSUME NEW i \in 1..Len(ids)
                 PROVE  \E p \in ToSet(ps) : p.id = ids[i] /\ p.node \in D
      BY DEF Needs
    <3>1. Len(ids) \in Nat /\ s \in Nat
      BY <2>3 DEF Chain
    <3>2. CASE i > s
      <4>1. i \in s + 1 .. Len(ids)
        BY <3>1, <3>2
      <4>2. PICK q \in ToSet(patches) : q.id = ids[i] /\ q.node \in D
        BY <2>1, <4>1 DEF ByPatches, s, c
      <4>3. Uses(Trimmed, paths, q.id) # 0
        <5>1. \A j \in s + 1 .. Len(ids) : ids[j] = q.id => Uses(Trimmed, paths, q.id) # 0
          BY UsesIs DEF s, c, ids
        <5>2. QED
          BY <4>1, <4>2, <5>1
      <4>4. PICK p \in ToSet(ps) : SamePatch(p, q)
        BY <1>2, <4>3
      <4>5. QED
        BY <4>2, <4>4 DEF SamePatch
    <3>3. CASE ~(i > s)
      <4>1. s = 1 /\ i = 1 /\ forest.visible[c]
        BY <1>1, <2>2, <3>1, <3>3 DEF t
      <4>2. PICK q \in ToSet(patches) : /\ q.id = base[c] /\ q.node = RootNode(forest, c)
                                        /\ q.refcount = 1
        BY <2>2, <4>1, BasePatchIs
      <4>3. PICK p \in ToSet(ps) : SamePatch(p, q)
        BY <1>2, <4>2
      <4>4. RootNode(forest, c) \in D
        BY <2>1, RootsAreRouted
      <4>5. QED
        BY <2>4, <4>1, <4>2, <4>3, <4>4 DEF SamePatch
    <3>4. QED
      BY <3>2, <3>3
  <2>7. QED
    BY <2>1, <2>5, <2>6 DEF c, ids
<1>7. SettledIn(g, base, ps, paths)
  BY <1>1, <1>2, <1>3, <1>4, <1>5, <1>6 DEF SettledIn
<1>8. QED
  BY <1>7 DEF g, ps

Settled == listed \in Seq(Entries) /\ SettledIn(forest, base, patches, path)

SettledSame(f, b, ps, paths) ==
  /\ listed' = listed /\ forest' = f /\ base' = b /\ patches' = ps /\ path' = paths

(* Settled is a matter of what no later step changes.                      *)
LEMMA SettledStays ==
  ASSUME listed \in Seq(Entries), NEW f, NEW b, NEW ps, NEW paths, SettledIn(f, b, ps, paths),
         SettledSame(f, b, ps, paths)
  PROVE  Settled'
<1>1. listed' = listed /\ forest' = f /\ base' = b /\ patches' = ps /\ path' = paths
  BY DEF SettledSame
<1>2. /\ \A c : Retained(c)' = Retained(c) /\ Start(c)' = Start(c) /\ Bases(c)' = Bases(c)
      /\ \A c, k, u, v : Connects(k, u, v)' <=> Connects(k, u, v)
      /\ \A c : \A d : Within(c, d)' = Within(c, d)
      /\ \A c : Reached(c)' = Reached(c) /\ Available(c)' = Available(c)
  BY <1>1, SameList
<1>3. \A c, id, u, v : Smallest(c, id, u, v)' <=> Smallest(c, id, u, v)
  BY <1>1, <1>2 DEF Smallest
<1>4. \A c, q, s, i : At(c, q, s, i)' = At(c, q, s, i)
  BY <1>1, <1>2 DEF At
<1>5. \A c, q, s, v : Chain(c, q, s, v)' <=> Chain(c, q, s, v)
  BY <1>3, <1>4 DEF Chain
<1>6. \A g, e, n, ids : OnRoute(g, e, n, ids)' <=> OnRoute(g, e, n, ids)
  BY <1>2, <1>5 DEF OnRoute
<1>7. \A p : Listed(p)' <=> Listed(p)
  BY <1>1 DEF Listed
<1>8. SettledIn(f, b, ps, paths)'
  <2>1. \A c \in Components : c \notin ToSet(f.order) => Available(c)' = {}
    BY <1>2 DEF SettledIn
  <2>2. \A c \in ToSet(f.order) : /\ f.ver[c] = Start(c)' /\ Has(f, c) = Reached(c)'
                                  /\ f.visible[c] => b[c] \in Bases(c)'
    BY <1>2 DEF SettledIn
  <2>3. \A n \in DOMAIN paths : /\ n.comp \in ToSet(f.order)
                                /\ OnRoute(f, b, n, paths[n])'
                                /\ Needs(paths[n], ps, DOMAIN paths)
    BY <1>6 DEF SettledIn
  <2>4. \A p \in ToSet(ps) : Listed(p)'
    BY <1>7 DEF SettledIn
  <2>5. Good(f) /\ ps \in Seq(PatchRecords) /\ (\A p, q \in ToSet(ps) : p.id = q.id => p = q)
        /\ DOMAIN paths = Live(f)
    BY DEF SettledIn
  <2>6. QED
    BY <2>1, <2>2, <2>3, <2>4, <2>5 DEF SettledIn
<1>9. QED
  BY <1>1, <1>8 DEF Settled

(* LoadDone settles the forest, the patches and the paths.                 *)
LEMMA LoadSettles ==
  ASSUME PatchesMatch, LoadDone, ~broken'
  PROVE  Settled'
<1> DEFINE paths == AllPaths(Trimmed)
           g == NodesTrimmed(Trimmed, paths)
           ps == Kept(paths)
<1>1. phase = "listing" /\ ~broken /\ CalculatePaths /\ UNCHANGED <<base, listed>>
  BY DEF LoadDone
<1>2. Ready /\ listed \in Seq(Entries)
  BY <1>1 DEF PatchesMatch, Ready, Matches
<1>3. SettledIn(g, base, ps, paths)
  BY <1>2, PathsAreRouted, PathsSettle
<1>4. forest' = g /\ path' = paths /\ patches' = ps
  BY <1>1 DEF CalculatePaths, Trimmed, Kept, Counted
<1> HIDE DEF g, ps, paths
<1>5. SettledSame(g, base, ps, paths)
  BY <1>1, <1>4 DEF SettledSame
<1>6. QED
  BY <1>2, <1>3, <1>5, SettledStays

AllSettled == PatchesMatch /\ (Loaded => Settled)

(* The list is matched until it is loaded, and settled from then on.       *)
LEMMA AllStaysSettled ==
  ASSUME AllSettled, [Next]_vars
  PROVE  AllSettled'
<1>1. PatchesMatch'
  BY ListStays DEF AllSettled
<1> SUFFICES ASSUME phase' # "listing", ~broken' PROVE Settled'
  BY <1>1 DEF AllSettled, Loaded
<1>2. CASE \E e \in Entries : AddPatch(e)
  BY <1>2 DEF AddPatch
<1>3. CASE LoadDone
  BY <1>3, LoadSettles DEF AllSettled
<1> DEFINE Same == Loaded /\ UNCHANGED <<forest, base, patches, listed, path>>
<1>4. CASE Same
  <2>1. Settled
    BY <1>4 DEF AllSettled
  <2>2. listed \in Seq(Entries) /\ SettledIn(forest, base, patches, path)
    BY <2>1 DEF Settled
  <2>3. SettledSame(forest, base, patches, path)
    BY <1>4 DEF SettledSame
  <2>4. QED
    BY <2>2, <2>3, SettledStays
<1>5. CASE \E n \in Offered : Tick(n) \/ Untick(n) \/ CleanupUpdate(n)
  <2>1. Same
    BY <1>5 DEF Tick, Untick, CleanupUpdate, Loaded
  <2>2. QED
    BY <1>4, <2>1
<1>6. CASE Proceed
  <2>1. Same
    BY <1>6 DEF Proceed, Loaded
  <2>2. QED
    BY <1>4, <2>1
<1>7. CASE UNCHANGED vars
  <2>1. Same
    BY <1>7 DEF vars, Loaded
  <2>2. QED
    BY <1>4, <2>1
<1>8. QED
  BY <1>2, <1>3, <1>5, <1>6, <1>7 DEF Next

(* So it is in every reachable state.                                      *)
LEMMA AlwaysSettled == Spec => []AllSettled
<1>1. Init => AllSettled
  <2> SUFFICES ASSUME Init PROVE AllSettled
    OBVIOUS
  <2>1. PatchesMatch
    BY ListStarts
  <2>2. ~Loaded
    BY DEF Init, Loaded
  <2>3. QED
    BY <2>1, <2>2 DEF AllSettled
<1>2. AllSettled /\ [Next]_vars => AllSettled'
  BY AllStaysSettled
<1>3. QED
  BY <1>1, <1>2, PTL DEF Spec

-----------------------------------------------------------------------------
(***************************************************************************)
(* What is offered.                                                        *)
(***************************************************************************)
LEMMA SettledParts ==
  ASSUME Settled
  PROVE  /\ Good(forest) /\ SettledIn(forest, base, patches, path) /\ listed \in Seq(Entries)
         /\ \A c \in ToSet(forest.order) :
              /\ c \in Components /\ (c \in DOMAIN Installed <=> ~forest.visible[c])
              /\ forest.visible[c] \in BOOLEAN
              /\ forest.ver[c] = Start(c) /\ Has(forest, c) = Reached(c)
              /\ forest.visible[c] => base[c] \in Bases(c) /\ EntriesOf(c) # {}
         /\ DOMAIN path = Live(forest)
         /\ \A n \in Live(forest) : /\ n.comp \in ToSet(forest.order)
                                    /\ n = Node(forest, n.comp, n.ver)
                                    /\ n.ver \in Has(forest, n.comp)
                                    /\ OnRoute(forest, base, n, path[n])
<1>1. Good(forest) /\ SettledIn(forest, base, patches, path) /\ listed \in Seq(Entries)
  BY DEF Settled, SettledIn
<1>2. ASSUME NEW c \in ToSet(forest.order)
      PROVE  /\ c \in Components /\ (c \in DOMAIN Installed <=> ~forest.visible[c])
             /\ forest.visible[c] \in BOOLEAN
             /\ forest.ver[c] = Start(c) /\ Has(forest, c) = Reached(c)
             /\ forest.visible[c] => base[c] \in Bases(c) /\ EntriesOf(c) # {}
  <2>1. c \in Components /\ forest.visible[c] \in BOOLEAN
    BY <1>1, ForestParts DEF ToSet
  <2>2. c \in DOMAIN Installed <=> ~forest.visible[c]
    BY <1>1 DEF Good
  <2>3. /\ forest.ver[c] = Start(c) /\ Has(forest, c) = Reached(c)
        /\ forest.visible[c] => base[c] \in Bases(c)
    BY <1>1 DEF SettledIn
  <2>4. forest.visible[c] => EntriesOf(c) # {}
    BY <2>3 DEF Bases
  <2>5. QED
    BY <2>1, <2>2, <2>3, <2>4
<1>3. DOMAIN path = Live(forest)
  BY <1>1 DEF SettledIn
<1>4. ASSUME NEW n \in Live(forest)
      PROVE  /\ n.comp \in ToSet(forest.order)
             /\ n = Node(forest, n.comp, n.ver)
             /\ n.ver \in Has(forest, n.comp)
             /\ OnRoute(forest, base, n, path[n])
  <2>1. n.comp \in ToSet(forest.order) /\ OnRoute(forest, base, n, path[n])
    BY <1>1, <1>3 DEF SettledIn
  <2>2. QED
    BY <2>1 DEF OnRoute
<1>5. QED
  BY <1>1, <1>2, <1>3, <1>4

(* There is an entry of the lowest version.                                *)
LEMMA LowestIs ==
  ASSUME listed \in Seq(Entries), NEW c, EntriesOf(c) # {}
  PROVE  Lowest(c) \in EntriesOf(c) /\ EntriesOf(c) \subseteq Nat
<1> DEFINE E == EntriesOf(c)
           ver(k) == listed[k].ver
           S == { k \in E : \A j \in E : ~Newer(ver(k), ver(j)) }
           T == { ver(k)[1] : k \in E }
<1>1. \A k \in E : k \in Nat /\ ver(k)[1] \in Nat
  <2> SUFFICES ASSUME NEW k \in E PROVE k \in Nat /\ ver(k)[1] \in Nat
    OBVIOUS
  <2>1. k \in Nat /\ listed[k] \in Entries
    BY DEF EntriesOf
  <2>2. listed[k].ver \in Versions
    BY <2>1, EntryParts
  <2>3. QED
    BY <2>1, <2>2, VersionsAre
<1> HIDE DEF E, ver
<1>2. T \subseteq Nat /\ T # {}
  BY <1>1 DEF E
<1>3. PICK m \in T : \A n \in T : m <= n
  <2> HIDE DEF T
  <2> QED BY <1>2, Least
<1>4. PICK k \in E : m = ver(k)[1]
  BY <1>3
<1>5. k \in S
  <2> SUFFICES ASSUME NEW j \in E PROVE ~Newer(ver(k), ver(j))
    BY <1>4
  <2>1. ver(j)[1] \in T
    OBVIOUS
  <2>2. m <= ver(j)[1]
    BY <1>3, <2>1
  <2>3. ver(j)[1] \in Nat /\ ver(k)[1] \in Nat
    BY <1>1
  <2>4. QED
    BY <1>4, <2>2, <2>3 DEF Newer
<1>6. S \subseteq Nat
  BY <1>1
<1>7. PICK l \in S : \A i \in S : l <= i
  <2> HIDE DEF S
  <2> QED BY <1>5, <1>6, Least
<1>8. Lowest(c) = Min(S)
  BY DEF Lowest, E, ver
<1>9. Lowest(c) \in S
  <2> HIDE DEF S
  <2> QED BY <1>7, <1>8 DEF Min
<1>10. QED
  BY <1>1, <1>9 DEF E

(* What entries lead to in the order of the list they lead to in any       *)
(* order, and a base update that comes first makes the two the same.       *)
LEMMA RetainedAreUpgrades ==
  ASSUME NEW c, listed \in Seq(Entries)
  PROVE  /\ Reached(c) \subseteq WithinBy(c, Upgrades(c), Cardinality(EntriesOf(c)))
         /\ BaseFirst(c) =>
              /\ Retained(c) = Upgrades(c)
              /\ Reached(c) = WithinBy(c, Upgrades(c), Cardinality(EntriesOf(c)))
<1>1. Retained(c) \subseteq Upgrades(c)
  BY DEF Retained
<1>2. Cardinality(EntriesOf(c)) \in Nat
  <2>1. EntriesOf(c) \subseteq 1..Len(listed) /\ Len(listed) \in Nat
    BY DEF EntriesOf
  <2>2. IsFiniteSet(1..Len(listed))
    BY <2>1, FS_Interval
  <2>3. QED
    BY <2>1, <2>2, FS_Subset, FS_CardinalityType
<1>3. Reached(c) \subseteq WithinBy(c, Upgrades(c), Cardinality(EntriesOf(c)))
  BY <1>1, <1>2, WithinByMore DEF Reached, Within
<1>4. ASSUME BaseFirst(c) PROVE Retained(c) = Upgrades(c)
  <2>1. CASE c \in DOMAIN Installed
    BY <2>1 DEF Retained
  <2>2. CASE c \notin DOMAIN Installed
    <3> SUFFICES ASSUME NEW k \in Upgrades(c) PROVE k > Lowest(c)
      BY <1>1, <2>2 DEF Retained
    <3>1. k \in EntriesOf(c) /\ listed[k].ver # Start(c)
      BY <2>2 DEF Upgrades
    <3>2. k >= Lowest(c)
      BY <1>4, <2>2, <3>1 DEF BaseFirst
    <3>3. k # Lowest(c)
      BY <2>2, <3>1 DEF Start
    <3>4. k \in Nat /\ Lowest(c) \in Nat
      BY <2>2, <3>1, LowestIs
    <3>5. QED
      BY <3>2, <3>3, <3>4
  <2>3. QED
    BY <2>1, <2>2
<1>5. QED
  BY <1>3, <1>4 DEF Reached, Within

(* The versions on offer are available ones, and all of those of a         *)
(* component whose base update comes first.                                *)
LEMMA SettledIsOffered ==
  ASSUME Settled, NEW c \in Components
  PROVE  LET own == { n.ver : n \in OwnNodes(c, Offered) }
         IN  own \subseteq Available(c) /\ (BaseFirst(c) => own = Available(c))
<1> DEFINE own == { n.ver : n \in OwnNodes(c, Offered) }
<1>1. \A n \in Offered : n \in Live(forest) /\ n.comp \in ToSet(forest.order)
                         /\ (forest.visible[n.comp] \/ n # RootNode(forest, n.comp))
  BY SettledParts DEF Offered
<1>2. CASE c \notin ToSet(forest.order)
  <2>1. own = {}
    BY <1>1, <1>2 DEF OwnNodes
  <2>2. Available(c) = {}
    BY <1>2, SettledParts DEF SettledIn
  <2>3. QED
    BY <2>1, <2>2
<1>3. CASE c \in ToSet(forest.order)
  <2>1. /\ forest.visible[c] \in BOOLEAN /\ (c \in DOMAIN Installed <=> ~forest.visible[c])
        /\ forest.ver[c] = Start(c) /\ Has(forest, c) = Reached(c)
        /\ forest.visible[c] => EntriesOf(c) # {} /\ Bases(c) # {}
    BY <1>3, SettledParts
  <2>2. \A v : Node(forest, c, v).comp = c /\ Node(forest, c, v).ver = v
    BY DEF Node
  <2>3. \A v \in Has(forest, c) : Node(forest, c, v) \in Live(forest)
    BY <1>3, SettledParts, LiveIs
  <2>4. own = { v \in Has(forest, c) : forest.visible[c] \/ v # forest.ver[c] }
    <3>1. ASSUME NEW n \in OwnNodes(c, Offered)
          PROVE  n.ver \in Has(forest, c) /\ (forest.visible[c] \/ n.ver # forest.ver[c])
      <4>1. n \in Offered /\ n.comp = c
        BY DEF OwnNodes
      <4>2. n = Node(forest, c, n.ver) /\ n.ver \in Has(forest, c)
        BY <1>1, <4>1, SettledParts
      <4>3. forest.visible[c] \/ n # RootNode(forest, c)
        BY <1>1, <4>1
      <4>4. QED
        BY <4>2, <4>3 DEF RootNode
    <3>2. ASSUME NEW v \in Has(forest, c), forest.visible[c] \/ v # forest.ver[c]
          PROVE  v \in own
      <4> DEFINE n == Node(forest, c, v)
      <4>1. n.comp = c /\ n.ver = v /\ n \in Live(forest)
        BY <2>2, <2>3
      <4>2. forest.visible[c] \/ n # RootNode(forest, c)
        BY <2>2, <3>2, <4>1 DEF RootNode
      <4>3. n \in OwnNodes(c, Offered)
        BY <4>1, <4>2 DEF OwnNodes, Offered
      <4>4. QED
        BY <4>1, <4>3
    <3>3. QED
      BY <3>1, <3>2
  <2> DEFINE all == WithinBy(c, Upgrades(c), Cardinality(EntriesOf(c)))
  <2>5. Available(c) = { v \in all : forest.visible[c] \/ v # forest.ver[c] }
    BY <2>1 DEF Available
  <2>6. Has(forest, c) \subseteq all /\ (BaseFirst(c) => Has(forest, c) = all)
    BY <2>1, SettledParts, RetainedAreUpgrades
  <2> HIDE DEF all, own
  <2>7. own \subseteq Available(c) /\ (BaseFirst(c) => own = Available(c))
    BY <2>4, <2>5, <2>6
  <2>8. QED
    BY <2>7 DEF own
<1>4. QED
  BY <1>2, <1>3

(* What calculate_paths() leaves in the trees the list makes available,    *)
(* and all of it if a base update comes before its upgrades                *)
(* (patchset.c:625-720, 764-784, 813-864).                                 *)
THEOREM OfferedIsAvailable == Spec => []OfferedIffAvailable
<1>1. AllSettled => OfferedIffAvailable
  BY SettledIsOffered DEF AllSettled, OfferedIffAvailable
<1>2. QED
  BY <1>1, AlwaysSettled, PTL

(* Every patch on a path is there, and its node as well.                   *)
LEMMA SettledKeepsPatches ==
  ASSUME Settled
  PROVE  \A n \in Offered : \A id \in ToSet(path[n]) :
           \E p \in ToSet(patches) : p.id = id /\ p.node \in Live(forest)
<1> SUFFICES ASSUME NEW n \in Offered, NEW id \in ToSet(path[n])
             PROVE  \E p \in ToSet(patches) : p.id = id /\ p.node \in Live(forest)
  OBVIOUS
<1>1. n \in DOMAIN path /\ DOMAIN path = Live(forest) /\ OnRoute(forest, base, n, path[n])
  BY SettledParts DEF Offered
<1>2. path[n] \in Seq(Nat)
  BY <1>1 DEF OnRoute, Chain
<1>3. PICK i \in 1..Len(path[n]) : path[n][i] = id
  BY <1>2 DEF ToSet
<1>4. Needs(path[n], patches, DOMAIN path)
  BY <1>1, SettledParts DEF SettledIn
<1>5. \E p \in ToSet(patches) : p.id = path[n][i] /\ p.node \in DOMAIN path
  BY <1>4 DEF Needs
<1>6. QED
  BY <1>1, <1>3, <1>5

(* Trimming leaves every patch that a path needs, and the node it leads to *)
(* (patchset.c:764-811).                                                   *)
THEOREM PatchesAreKept == Spec => []PathsKeepTheirPatches
<1>1. AllSettled => PathsKeepTheirPatches
  BY SettledKeepsPatches DEF AllSettled, PathsKeepTheirPatches
<1>2. QED
  BY <1>1, AlwaysSettled, PTL

-----------------------------------------------------------------------------
(***************************************************************************)
(* Shortest paths.                                                         *)
(***************************************************************************)
LEMMA Prefixed ==
  ASSUME NEW T, NEW a \in T, NEW t \in Seq(T)
  PROVE  /\ <<a>> \o t \in Seq(T) /\ Len(<<a>> \o t) = Len(t) + 1
         /\ (<<a>> \o t)[1] = a /\ \A i \in 1..Len(t) : (<<a>> \o t)[i + 1] = t[i]
         /\ Last(<<a>> \o t) = (<<a>> \o t)[Len(t) + 1]
<1>1. <<a>> \in Seq(T) /\ Len(<<a>>) = 1 /\ <<a>>[1] = a /\ Len(t) \in Nat
  OBVIOUS
<1>2. /\ <<a>> \o t \in Seq(T) /\ Len(<<a>> \o t) = 1 + Len(t)
      /\ \A i \in 1 .. 1 + Len(t) :
           (<<a>> \o t)[i] = IF i <= 1 THEN <<a>>[i] ELSE t[i - 1]
  BY <1>1, ConcatProperties
<1>3. (<<a>> \o t)[1] = a
  BY <1>1, <1>2
<1>4. ASSUME NEW i \in 1..Len(t) PROVE (<<a>> \o t)[i + 1] = t[i]
  <2>1. i + 1 \in 1 .. 1 + Len(t) /\ ~(i + 1 <= 1) /\ (i + 1) - 1 = i
    BY <1>1
  <2>2. QED
    BY <1>2, <2>1
<1>5. QED
  BY <1>1, <1>2, <1>3, <1>4 DEF Last

(* The links of a path, behind a base update if s = 1, and the versions    *)
(* they lead through.                                                      *)
LinksOf(ids, s) == IF s = 1 THEN Tail(ids) ELSE ids

LedThrough(c, links) == <<Start(c)>> \o [i \in DOMAIN links |-> listed[links[i]].ver]

(* The patches of a path behind the one that installs its root.            *)
LEMMA LinksAre ==
  ASSUME NEW ids \in Seq(Nat), NEW s \in {0, 1}, s <= Len(ids)
  PROVE  /\ LinksOf(ids, s) \in Seq(Nat) /\ Len(LinksOf(ids, s)) = Len(ids) - s
         /\ \A i \in 1 .. Len(ids) - s : LinksOf(ids, s)[i] = ids[i + s]
<1>1. CASE s = 1
  <2>1. ids # << >> /\ Len(ids) \in Nat
    BY <1>1
  <2>2. Tail(ids) \in Seq(Nat) /\ Len(Tail(ids)) = Len(ids) - 1
        /\ \A i \in 1..Len(Tail(ids)) : Tail(ids)[i] = ids[i + 1]
    BY <2>1, HeadTailProperties
  <2>3. QED
    BY <1>1, <2>2 DEF LinksOf
<1>2. CASE s = 0
  BY <1>2 DEF LinksOf
<1>3. QED
  BY <1>1, <1>2

(* A chain in the terms PathsAreShortest is written in.                    *)
LEMMA ChainIsLinked ==
  ASSUME listed \in Seq(Entries), NEW c, NEW ids, NEW s \in {0, 1}, NEW v,
         Chain(c, ids, s, v), Start(c) \in Versions,
         NEW links, links = LinksOf(ids, s), NEW at, at = LedThrough(c, links)
  PROVE  /\ Len(links) = Len(ids) - s /\ DOMAIN links = 1..Len(links) /\ Len(links) \in Nat
         /\ links # << >> => Len(links) > 0
         /\ Last(at) = v
         /\ \A i \in DOMAIN links : Smallest(c, links[i], at[i], at[i + 1])
<1> DEFINE n == Len(ids) - s
           t == [i \in DOMAIN links |-> listed[links[i]].ver]
<1>1. /\ ids \in Seq(Nat) /\ s <= Len(ids) /\ Len(ids) \in Nat
      /\ At(c, ids, s, Len(ids) + 1) = v
      /\ \A i \in s + 1 .. Len(ids) : Smallest(c, ids[i], At(c, ids, s, i), At(c, ids, s, i + 1))
  BY DEF Chain
<1>2. /\ links \in Seq(Nat) /\ Len(links) = n /\ n \in Nat
      /\ \A i \in 1..n : links[i] = ids[i + s]
  <2>1. /\ LinksOf(ids, s) \in Seq(Nat) /\ Len(LinksOf(ids, s)) = Len(ids) - s
        /\ \A i \in 1 .. Len(ids) - s : LinksOf(ids, s)[i] = ids[i + s]
    BY <1>1, LinksAre
  <2>2. Len(ids) - s \in Nat
    BY <1>1
  <2>3. QED
    BY <2>1, <2>2
<1>3. DOMAIN links = 1..n /\ (links # << >> => n > 0)
  BY <1>2
<1>4. \A i \in 1..n : i + s \in s + 1 .. Len(ids) /\ i + s \in Nat
  BY <1>1
<1>5. \A i \in 1..n : links[i] \in Retained(c)
  BY <1>1, <1>2, <1>4 DEF Smallest
<1>6. \A i \in 1..n : links[i] \in 1..Len(listed) /\ listed[links[i]].ver \in Versions
  <2> SUFFICES ASSUME NEW i \in 1..n
               PROVE  links[i] \in 1..Len(listed) /\ listed[links[i]].ver \in Versions
    OBVIOUS
  <2>1. links[i] \in EntriesOf(c)
    BY <1>5 DEF Retained, Upgrades
  <2>2. links[i] \in 1..Len(listed)
    BY <2>1 DEF EntriesOf
  <2>3. listed[links[i]] \in Entries
    BY <2>2
  <2>4. QED
    BY <2>2, <2>3, EntryParts
<1> HIDE DEF n
<1>7. t \in Seq(Versions) /\ Len(t) = n /\ \A i \in 1..n : t[i] = listed[links[i]].ver
  <2>1. DOMAIN t = 1..n /\ \A i \in 1..n : t[i] = listed[links[i]].ver
    BY <1>3
  <2>2. t \in [1..n -> Versions]
    BY <1>3, <1>6
  <2>3. t \in Seq(Versions)
    BY <1>2, <2>2
  <2>4. QED
    BY <1>2, <2>1, <2>3
<1> HIDE DEF t
<1>8. /\ at[1] = Start(c) /\ \A i \in 1..n : at[i + 1] = t[i]
      /\ Last(at) = at[n + 1]
  <2>1. at = <<Start(c)>> \o t
    BY DEF t, LedThrough
  <2>2. /\ (<<Start(c)>> \o t)[1] = Start(c)
        /\ \A i \in 1..Len(t) : (<<Start(c)>> \o t)[i + 1] = t[i]
        /\ Last(<<Start(c)>> \o t) = (<<Start(c)>> \o t)[Len(t) + 1]
    BY <1>7, Prefixed
  <2>3. QED
    BY <1>7, <2>1, <2>2
<1>9. ASSUME NEW i \in 1 .. n + 1 PROVE at[i] = At(c, ids, s, i + s)
  <2>1. CASE i = 1
    <3>1. i + s = s + 1
      BY <2>1
    <3>2. QED
      BY <1>8, <2>1, <3>1 DEF At
  <2>2. CASE i # 1
    <3>1. i - 1 \in 1..n /\ (i - 1) + 1 = i /\ i + s # s + 1 /\ (i - 1) + s = (i + s) - 1
      BY <1>2, <2>2
    <3>2. at[i] = listed[links[i - 1]].ver
      BY <1>7, <1>8, <3>1
    <3>3. links[i - 1] = ids[(i + s) - 1]
      BY <1>2, <3>1
    <3>4. QED
      BY <3>1, <3>2, <3>3 DEF At
  <2>3. QED
    BY <2>1, <2>2
<1>10. Last(at) = v
  <2>1. n + 1 \in 1 .. n + 1 /\ (n + 1) + s = Len(ids) + 1
    BY <1>1, <1>2 DEF n
  <2>2. QED
    BY <1>1, <1>8, <1>9, <2>1
<1>11. ASSUME NEW i \in 1..n PROVE Smallest(c, links[i], at[i], at[i + 1])
  <2>1. i \in 1 .. n + 1 /\ i + 1 \in 1 .. n + 1 /\ (i + 1) + s = (i + s) + 1
    BY <1>2
  <2>2. at[i] = At(c, ids, s, i + s) /\ at[i + 1] = At(c, ids, s, (i + s) + 1)
    BY <1>9, <2>1
  <2>3. links[i] = ids[i + s] /\ i + s \in s + 1 .. Len(ids)
    BY <1>2, <1>4 DEF n
  <2>4. QED
    BY <1>1, <2>2, <2>3
<1>12. QED
  BY <1>2, <1>3, <1>10, <1>11 DEF n

(* What PathsAreShortest says of one node.                                 *)
LEMMA SettledIsShortest ==
  ASSUME Settled, NEW n \in Offered,
         NEW c, c = n.comp,
         NEW links, links = LinksOf(path[n], IF forest.visible[c] THEN 1 ELSE 0),
         NEW at, at = LedThrough(c, links)
  PROVE  /\ forest.visible[c] => path[n][1] \in Bases(c)
         /\ Last(at) = n.ver
         /\ links # << >> => n.ver \notin Within(c, Len(links) - 1)
         /\ \A i \in DOMAIN links : Smallest(c, links[i], at[i], at[i + 1])
<1> DEFINE ids == path[n]
           s == IF forest.visible[c] THEN 1 ELSE 0
<1>1. n \in Live(forest) /\ c \in ToSet(forest.order) /\ listed \in Seq(Entries)
      /\ OnRoute(forest, base, n, ids)
  BY SettledParts DEF Offered
<1>2. /\ forest.visible[c] \in BOOLEAN /\ forest.ver[c] = Start(c) /\ c \in Components
      /\ forest.visible[c] => base[c] \in Bases(c)
  BY <1>1, SettledParts
<1>3. /\ Chain(c, ids, s, n.ver)
      /\ forest.visible[c] => ids[1] = base[c]
      /\ \A d \in Nat : d < Len(ids) - s => n.ver \notin Within(c, d)
  BY <1>1 DEF OnRoute
<1>4. s \in {0, 1} /\ links = LinksOf(ids, s)
  BY <1>2
<1>5. Start(c) \in Versions
  BY <1>1, <1>2, SettledParts, ForestParts
<1> HIDE DEF s, ids
<1>6. Len(ids) \in Nat
  BY <1>3 DEF Chain
<1>7. /\ Len(links) = Len(ids) - s /\ DOMAIN links = 1..Len(links) /\ Len(links) \in Nat
      /\ links # << >> => Len(links) > 0
      /\ Last(at) = n.ver
      /\ \A i \in DOMAIN links : Smallest(c, links[i], at[i], at[i + 1])
  BY <1>1, <1>3, <1>4, <1>5, ChainIsLinked
<1>8. links # << >> => n.ver \notin Within(c, Len(links) - 1)
  <2> SUFFICES ASSUME links # << >> PROVE n.ver \notin Within(c, Len(links) - 1)
    OBVIOUS
  <2> DEFINE d == Len(links) - 1
  <2>1. d \in Nat /\ d < Len(ids) - s
    BY <1>4, <1>6, <1>7
  <2> HIDE DEF d
  <2>2. n.ver \notin Within(c, d)
    BY <1>3, <2>1
  <2>3. QED
    BY <2>2 DEF d
<1>9. forest.visible[c] => path[n][1] \in Bases(c)
  BY <1>2, <1>3 DEF ids
<1>10. QED
  BY <1>7, <1>8, <1>9

(* What the settled paths are in the words of the property.                *)
LEMMA AllSettledIsShortest ==
  ASSUME AllSettled
  PROVE  PathsAreShortest
<1> SUFFICES ASSUME Loaded, NEW n \in Offered
             PROVE  LET c == n.comp
                        links == IF forest.visible[c] THEN Tail(path[n]) ELSE path[n]
                        at == <<Start(c)>> \o [i \in DOMAIN links |-> listed[links[i]].ver]
                    IN  /\ forest.visible[c] => path[n][1] \in Bases(c)
                        /\ Last(at) = n.ver
                        /\ links # << >> => n.ver \notin Within(c, Len(links) - 1)
                        /\ \A i \in DOMAIN links :
                             /\ links[i] \in Retained(c) /\ Connects(links[i], at[i], at[i + 1])
                             /\ \A k \in Retained(c) :
                                  Connects(k, at[i], at[i + 1]) =>
                                    SizeK(listed[links[i]].size) <= SizeK(listed[k].size)
  BY Zenon DEF PathsAreShortest
<1> DEFINE c == n.comp
           links == IF forest.visible[c] THEN Tail(path[n]) ELSE path[n]
           at == <<Start(c)>> \o [i \in DOMAIN links |-> listed[links[i]].ver]
<1>1. Settled
  BY DEF AllSettled
<1>2. links = LinksOf(path[n], IF forest.visible[c] THEN 1 ELSE 0)
  BY DEF LinksOf
<1>3. at = LedThrough(c, links)
  BY DEF LedThrough
<1>4. c = n.comp
  OBVIOUS
<1> HIDE DEF c, links, at
<1>5. /\ forest.visible[c] => path[n][1] \in Bases(c)
      /\ Last(at) = n.ver
      /\ links # << >> => n.ver \notin Within(c, Len(links) - 1)
      /\ \A i \in DOMAIN links : Smallest(c, links[i], at[i], at[i + 1])
  BY <1>1, <1>2, <1>3, <1>4, SettledIsShortest
<1>6. \A i \in DOMAIN links :
        /\ links[i] \in Retained(c) /\ Connects(links[i], at[i], at[i + 1])
        /\ \A k \in Retained(c) :
             Connects(k, at[i], at[i + 1]) =>
               SizeK(listed[links[i]].size) <= SizeK(listed[k].size)
  BY <1>5 DEF Smallest
<1>7. QED
  BY <1>5, <1>6, Zenon DEF c, links, at

(* A path leads to its node one listed patch at a time, by no more patches *)
(* than it takes and the smallest of them, behind the base update of what  *)
(* is not installed (patchset.c:596-720, 813-864).                         *)
THEOREM PathsAreTheShortest == Spec => []PathsAreShortest
<1>1. AllSettled => PathsAreShortest
  BY AllSettledIsShortest
<1>2. QED
  BY <1>1, AlwaysSettled, PTL

-----------------------------------------------------------------------------
(***************************************************************************)
(* The rows that select_node() walks.                                      *)
(***************************************************************************)
Top(f, c) == IF f.visible[c] THEN 1 ELSE 0

(* The place of an element of a sequence.                                  *)
LEMMA PlaceIs ==
  ASSUME NEW T, NEW s \in Seq(T), NEW e
  PROVE  /\ PlaceOf(s, e) \in 1 .. Len(s) + 1
         /\ PlaceOf(s, e) <= Len(s) => s[PlaceOf(s, e)] = e
         /\ e \in ToSet(s) => PlaceOf(s, e) \in 1..Len(s)
<1> DEFINE P == { k \in 1..Len(s) : s[k] = e }
<1>1. Len(s) \in Nat /\ P \subseteq 1..Len(s) /\ PlaceOf(s, e) = StopAt(Len(s), P)
  BY DEF PlaceOf
<1>2. /\ StopAt(Len(s), P) \in 1 .. Len(s) + 1
      /\ StopAt(Len(s), P) <= Len(s) => StopAt(Len(s), P) \in P
      /\ StopAt(Len(s), P) = Len(s) + 1 => P = {}
  <2> HIDE DEF P
  <2> QED BY <1>1, StopsAtFirst
<1>3. e \in ToSet(s) => P # {}
  BY DEF ToSet
<1>4. QED
  BY <1>1, <1>2, <1>3

(* The first row of what is not installed holds its root, and roots only.  *)
LEMMA RootRowIs ==
  ASSUME NEW f, Good(f), NEW c \in ToSet(f.order)
  PROVE  /\ RootRow(f, c) \in Seq(Live(f)) /\ Len(RootRow(f, c)) \in Nat
         /\ Len(RootRow(f, c)) >= 1 /\ RootRow(f, c)[1] = RootNode(f, c)
         /\ \A k \in 1..Len(RootRow(f, c)) :
              \E d \in ToSet(f.order) : RootRow(f, c)[k] = RootNode(f, d)
<1> DEFINE p == PlaceOf(f.order, c)
           n == Len(f.order) - p + 1
           r == RootRow(f, c)
<1>1. f.order \in Seq(Components)
  BY ForestParts
<1>2. Len(f.order) \in Nat /\ p \in 1..Len(f.order) /\ f.order[p] = c
  BY <1>1, PlaceIs
<1> HIDE DEF p
<1>3. n \in Nat /\ n >= 1 /\ \A k \in 1..n : p + k - 1 \in 1..Len(f.order)
  BY <1>2
<1>4. r = [k \in 1..n |-> RootNode(f, f.order[p + k - 1])]
  BY DEF RootRow, p
<1> HIDE DEF n, r
<1>5. ASSUME NEW k \in 1..n
      PROVE  \E d \in ToSet(f.order) : r[k] = RootNode(f, d)
  <2>1. p + k - 1 \in 1..Len(f.order) /\ r[k] = RootNode(f, f.order[p + k - 1])
    BY <1>3, <1>4
  <2>2. f.order[p + k - 1] \in ToSet(f.order)
    BY <1>1, <2>1 DEF ToSet
  <2>3. QED
    BY <2>1, <2>2
<1>6. \A k \in 1..n : r[k] \in Live(f)
  BY <1>5 DEF Live
<1>7. r \in [1..n -> Live(f)]
  BY <1>4, <1>6
<1>8. r \in Seq(Live(f)) /\ Len(r) = n
  BY <1>3, <1>7
<1>9. r[1] = RootNode(f, c)
  <2>1. 1 \in 1..n /\ p + 1 - 1 = p
    BY <1>2, <1>3
  <2>2. QED
    BY <1>2, <1>4, <2>1
<1>10. QED
  BY <1>3, <1>5, <1>8, <1>9 DEF r

(* A level of a tree, as nodes.                                            *)
LEMMA LevelIs ==
  ASSUME NEW f, Good(f), NEW c \in ToSet(f.order), NEW i \in 1..Len(f.levels[c])
  PROVE  /\ Level(f, c, i) \in Seq(Live(f))
         /\ Len(Level(f, c, i)) = Len(f.levels[c][i])
         /\ f.levels[c][i] \in Seq(Versions) /\ Len(f.levels[c][i]) \in Nat
         /\ Len(f.levels[c][i]) >= 1 /\ Row(f.levels[c][i])
         /\ \A k \in 1..Len(f.levels[c][i]) :
              Level(f, c, i)[k] = Node(f, c, f.levels[c][i][k])
<1> DEFINE row == f.levels[c][i]
<1>1. Row(row)
  BY DEF Good, Above
<1> HIDE DEF row
<1>2. row \in Seq(Versions) /\ Len(row) \in Nat /\ Len(row) >= 1
  BY <1>1 DEF Row
<1>3. Level(f, c, i) = [k \in 1..Len(row) |-> Node(f, c, row[k])]
  BY DEF Level, row
<1>4. ASSUME NEW k \in 1..Len(row) PROVE Node(f, c, row[k]) \in Live(f)
  <2>1. row[k] \in ToSet(row)
    BY <1>2 DEF ToSet
  <2>2. row[k] \in Has(f, c)
    BY <2>1 DEF Has, VersionsOn, row
  <2>3. QED
    BY <2>2, LiveIs
<1>5. Level(f, c, i) \in [1..Len(row) -> Live(f)]
  BY <1>3, <1>4
<1>6. Level(f, c, i) \in Seq(Live(f)) /\ Len(Level(f, c, i)) = Len(row)
  BY <1>2, <1>5
<1>7. QED
  BY <1>1, <1>2, <1>3, <1>6 DEF row

(* The rows of a tree: that of its root if it is seen, then the levels.    *)
LEMMA RowsAre ==
  ASSUME NEW f, Good(f), NEW c \in ToSet(f.order)
  PROVE  /\ Rows(f, c) \in Seq(Seq(Live(f)))
         /\ Len(Rows(f, c)) = Len(f.levels[c]) + Top(f, c) /\ Len(f.levels[c]) \in Nat
         /\ Top(f, c) \in {0, 1}
         /\ Top(f, c) = 1 => Rows(f, c)[1] = RootRow(f, c)
         /\ \A i \in 1..Len(f.levels[c]) : Rows(f, c)[i + Top(f, c)] = Level(f, c, i)
<1> DEFINE n == Len(f.levels[c])
           t == [i \in 1..n |-> Level(f, c, i)]
<1>1. c \in Components /\ f.visible[c] \in BOOLEAN /\ f.levels[c] \in Seq(Seq(Versions))
  BY ForestParts DEF ToSet
<1>2. n \in Nat
  BY <1>1
<1>3. t \in [1..n -> Seq(Live(f))]
  BY LevelIs
<1> HIDE DEF n
<1>4. t \in Seq(Seq(Live(f))) /\ Len(t) = n /\ \A i \in 1..n : t[i] = Level(f, c, i)
  BY <1>2, <1>3
<1>5. Rows(f, c) = IF f.visible[c] THEN <<RootRow(f, c)>> \o t ELSE << >> \o t
  BY DEF Rows, n
<1> HIDE DEF t
<1>6. CASE f.visible[c]
  <2>1. Top(f, c) = 1 /\ Rows(f, c) = <<RootRow(f, c)>> \o t
    BY <1>5, <1>6 DEF Top
  <2>2. RootRow(f, c) \in Seq(Live(f))
    BY RootRowIs
  <2>3. /\ <<RootRow(f, c)>> \o t \in Seq(Seq(Live(f)))
        /\ Len(<<RootRow(f, c)>> \o t) = Len(t) + 1
        /\ (<<RootRow(f, c)>> \o t)[1] = RootRow(f, c)
        /\ \A i \in 1..Len(t) : (<<RootRow(f, c)>> \o t)[i + 1] = t[i]
    BY <1>4, <2>2, Prefixed
  <2>4. QED
    BY <1>2, <1>4, <2>1, <2>3 DEF n
<1>7. CASE ~f.visible[c]
  <2>1. Top(f, c) = 0 /\ Rows(f, c) = << >> \o t
    BY <1>5, <1>7 DEF Top
  <2>2. Rows(f, c) = t
    BY <1>4, <2>1, ConcatEmptySeq
  <2>3. \A i \in 1..n : i + 0 = i
    BY <1>2
  <2>4. QED
    BY <1>2, <1>4, <2>1, <2>2, <2>3 DEF n
<1>8. QED
  BY <1>1, <1>6, <1>7

(* No row is empty, and every one is of nodes that are there.              *)
LEMMA RowIs ==
  ASSUME NEW f, Good(f), NEW c \in ToSet(f.order), NEW i \in 1..Len(Rows(f, c))
  PROVE  /\ Rows(f, c)[i] \in Seq(Live(f)) /\ Len(Rows(f, c)[i]) \in Nat
         /\ Len(Rows(f, c)[i]) >= 1 /\ Rows(f, c)[i][1] \in Live(f)
         /\ ToSet(Rows(f, c)[i]) \subseteq Live(f)
<1> DEFINE r == Rows(f, c)[i]
           t == Top(f, c)
<1>1. r \in Seq(Live(f))
  BY RowsAre
<1>2. Len(r) >= 1
  <2>1. CASE i <= t
    <3>1. t = 1 /\ i = 1 /\ r = RootRow(f, c)
      BY <2>1, RowsAre
    <3>2. QED
      BY <3>1, RootRowIs
  <2>2. CASE i > t
    <3>1. i - t \in 1..Len(f.levels[c]) /\ (i - t) + t = i
      BY <2>2, RowsAre
    <3>2. r = Level(f, c, i - t)
      BY <3>1, RowsAre
    <3>3. QED
      BY <3>1, <3>2, LevelIs
  <2>3. t \in {0, 1}
    BY RowsAre
  <2>4. QED
    BY <2>1, <2>2, <2>3
<1> HIDE DEF r
<1>3. Len(r) \in Nat /\ r[1] \in Live(f) /\ ToSet(r) \subseteq Live(f)
  BY <1>1, <1>2 DEF ToSet
<1>4. QED
  BY <1>1, <1>2, <1>3 DEF r

(* Only what is in the forest is toggled on.                               *)
LEMMA TogglesAre ==
  ASSUME NEW f, Good(f), NEW c \in ToSet(f.order), NEW stops
  PROVE  Toggles(f, stops, c) \subseteq Live(f)
<1> SUFFICES ASSUME NEW n \in Toggles(f, stops, c) PROVE n \in Live(f)
  OBVIOUS
<1>1. \E i \in 1..Len(Rows(f, c)) : \E m \in 1..Len(Rows(f, c)[i]) : n = Rows(f, c)[i][m]
  BY DEF Toggles
<1>2. PICK i \in 1..Len(Rows(f, c)) : \E m \in 1..Len(Rows(f, c)[i]) : n = Rows(f, c)[i][m]
  BY <1>1
<1>3. n \in ToSet(Rows(f, c)[i])
  BY <1>2, RowIs DEF ToSet
<1>4. QED
  BY <1>3, RowIs


-----------------------------------------------------------------------------
(***************************************************************************)
(* What is selected when a version is given up.                            *)
(***************************************************************************)
RowOf(n, i) == Rows(forest, n.comp)[i]

SameDepth(n) ==
  { i \in 1..Len(Rows(forest, n.comp)) : depth[RowOf(n, i)[1]] = depth[n] }

RowsBefore(n) == StopAt(Len(Rows(forest, n.comp)), SameDepth(n)) - 1

Alike(n, i) == Only(RowOf(n, i), { m \in ToSet(RowOf(n, i)) : m.ver[2] = n.ver[2] })

(* The versions of a row that have the flavour of a node.                  *)
LEMMA AlikeIs ==
  ASSUME Good(forest), NEW n \in Live(forest), NEW i \in 1..Len(Rows(forest, n.comp)),
         Alike(n, i) # << >>
  PROVE  /\ Last(Alike(n, i)) \in ToSet(RowOf(n, i)) /\ Last(Alike(n, i)).ver[2] = n.ver[2]
         /\ Last(Alike(n, i)) \in Live(forest)
<1> DEFINE S == { m \in ToSet(RowOf(n, i)) : m.ver[2] = n.ver[2] }
           own == Alike(n, i)
<1>1. n.comp \in ToSet(forest.order)
  BY LiveIs DEF Node
<1>2. RowOf(n, i) \in Seq(Live(forest)) /\ ToSet(RowOf(n, i)) \subseteq Live(forest)
  BY <1>1, RowIs DEF RowOf
<1>3. own \in Seq(Live(forest)) /\ ToSet(own) = ToSet(RowOf(n, i)) \cap S
  <2> HIDE DEF S
  <2> QED BY <1>2, OnlyKeeps DEF Alike, S
<1> HIDE DEF own
<1>4. own # << >>
  BY DEF own
<1>5. Last(own) \in ToSet(own)
  <2>1. Len(own) \in 1..Len(own)
    BY <1>3, <1>4
  <2>2. QED
    BY <1>3, <2>1 DEF ToSet, Last
<1>6. QED
  BY <1>2, <1>3, <1>5 DEF own

(* The rows before the first that is as deep as a node.                    *)
LEMMA RowsBeforeAre ==
  ASSUME Good(forest), NEW n \in Live(forest)
  PROVE  /\ RowsBefore(n) \in 0..Len(Rows(forest, n.comp)) /\ RowsBefore(n) \in Nat
         /\ \A i \in SameDepth(n) : RowsBefore(n) < i
<1> DEFINE L == Len(Rows(forest, n.comp))
<1>1. n.comp \in ToSet(forest.order)
  BY LiveIs DEF Node
<1>2. L \in Nat
  BY <1>1, RowsAre
<1>3. SameDepth(n) \subseteq 1..L
  BY DEF SameDepth
<1>4. StopAt(L, SameDepth(n)) \in 1 .. L + 1
      /\ \A i \in SameDepth(n) : StopAt(L, SameDepth(n)) <= i
  BY <1>2, <1>3, StopsAtFirst
<1>5. RowsBefore(n) = StopAt(L, SameDepth(n)) - 1
  BY DEF RowsBefore
<1> HIDE DEF L
<1>6. RowsBefore(n) \in 0..L /\ RowsBefore(n) \in Nat
  BY <1>2, <1>4, <1>5
<1>7. ASSUME NEW i \in SameDepth(n) PROVE RowsBefore(n) < i
  BY <1>2, <1>3, <1>4, <1>5
<1>8. QED
  BY <1>6, <1>7 DEF L

(* The function that Fallback is the last value of.                        *)
LEMMA LastAlike ==
  ASSUME Good(forest), NEW m \in Live(forest)
  PROVE  \E f \in [0..RowsBefore(m) -> ({NULL} \union Live(forest))] :
           /\ f[0] = NULL
           /\ \A i \in 1..RowsBefore(m) : f[i] = IF Alike(m, i) = << >> THEN f[i - 1] ELSE Last(Alike(m, i))
           /\ Fallback(m) = f[RowsBefore(m)]
<1> DEFINE n == RowsBefore(m)
           X == ({NULL} \union Live(forest))
           G(i, x) == IF Alike(m, i) = << >> THEN x ELSE Last(Alike(m, i))
           R(f) == f = [i \in 0..n |-> IF i = 0 THEN NULL ELSE G(i, f[i - 1])]
           f == CHOOSE h : R(h)
<1>1. Fallback(m) = f[n]
  BY DEF Fallback, RowsBefore, SameDepth, Alike, RowOf
<1>2. n \in Nat /\ NULL \in X
  BY RowsBeforeAre
<1>3. ASSUME NEW i \in 1..n, NEW x \in X PROVE G(i, x) \in X
  <2>1. i \in 1..Len(Rows(forest, m.comp))
    BY RowsBeforeAre
  <2>2. QED
    BY <2>1, AlikeIs
<1> HIDE DEF n, X, G
<1>4. PICK g \in [0..n -> X] : g[0] = NULL /\ \A i \in 1..n : g[i] = G(i, g[i - 1])
  <2> DEFINE step == [q \in (1..n) \X X |-> G(q[1], q[2])]
  <2>1. \A i \in 1..n : \A x \in X : step[<<i, x>>] = G(i, x)
    OBVIOUS
  <2> HIDE DEF step
  <2>2. \A i \in 1..n : \A x \in X : step[<<i, x>>] \in X
    BY <1>3, <2>1
  <2>3. PICK g \in [0..n -> X] : Iterated(g, n, NULL, step)
    BY <1>2, <2>2, Iterates
  <2>4. \A i \in 1..n : i - 1 \in 0..n /\ g[i - 1] \in X
    BY <1>2
  <2>5. \A i \in 1..n : g[i] = G(i, g[i - 1])
    BY <2>1, <2>3, <2>4 DEF Iterated
  <2>6. QED
    BY <2>3, <2>5 DEF Iterated
<1>5. R(g)
  <2>1. \A i \in 0..n : i # 0 => i \in 1..n
    BY <1>2
  <2>2. \A i \in 0..n : g[i] = IF i = 0 THEN NULL ELSE G(i, g[i - 1])
    BY <1>4, <2>1
  <2>3. g = [i \in 0..n |-> g[i]]
    OBVIOUS
  <2>4. QED
    BY <2>2, <2>3
<1>6. R(f)
  <2> HIDE DEF R
  <2> QED BY <1>5
<1> HIDE DEF f
<1>7. /\ DOMAIN f = 0..n /\ f[0] = NULL
      /\ \A i \in 1..n : f[i] = G(i, f[i - 1])
  <2>1. 0 \in 0..n /\ \A i \in 1..n : i \in 0..n /\ i # 0
    BY <1>2
  <2>2. \A i \in 0..n : f[i] = IF i = 0 THEN NULL ELSE G(i, f[i - 1])
    BY <1>6
  <2>3. DOMAIN f = 0..n
    BY <1>6
  <2> HIDE DEF R
  <2>4. QED
    BY <2>1, <2>2, <2>3
<1>8. \A i \in 0..n : f[i] = g[i]
  <2> DEFINE W == { k \in Nat : k <= n /\ f[k] # g[k] }
  <2>1. 0 \notin W
    BY <1>4, <1>7
  <2>2. ASSUME NEW k \in Nat, k \notin W PROVE k + 1 \notin W
    <3>1. CASE k + 1 <= n
      <4>1. k + 1 \in 1..n /\ (k + 1) - 1 = k /\ f[k] = g[k]
        BY <1>2, <2>2, <3>1
      <4>2. QED
        BY <1>4, <1>7, <4>1
    <3>2. QED
      BY <3>1
  <2>3. W = {}
    <3> HIDE DEF W
    <3> QED BY <2>1, <2>2, NoLeast DEF W
  <2>4. QED
    BY <1>2, <2>3
<1>9. f = g
  <2>1. DOMAIN f = DOMAIN g /\ DOMAIN g = 0..n
    BY <1>7
  <2>2. f = [i \in 0..n |-> f[i]] /\ g = [i \in 0..n |-> g[i]]
    BY <1>6, <2>1
  <2>3. QED
    BY <1>8, <2>2
<1>10. QED
  BY <1>1, <1>4, <1>9 DEF n, X, G

IsFallback(m, n) ==
  \E i \in 1..RowsBefore(n) : /\ m \in ToSet(RowOf(n, i)) /\ m.ver[2] = n.ver[2]
                              /\ m \in Live(forest)

(* What Fallback gives is of the same tree and flavour, and before.        *)
LEMMA FallbackIs ==
  ASSUME Good(forest), NEW n \in Live(forest)
  PROVE  Fallback(n) = NULL \/ IsFallback(Fallback(n), n)
<1> DEFINE k == RowsBefore(n)
           Is(m) == m = NULL \/ IsFallback(m, n)
<1>1. k \in Nat /\ k <= Len(Rows(forest, n.comp)) /\ Len(Rows(forest, n.comp)) \in Nat
  <2>1. n.comp \in ToSet(forest.order)
    BY LiveIs DEF Node
  <2>2. Len(Rows(forest, n.comp)) \in Nat
    BY <2>1, RowsAre
  <2>3. QED
    BY <2>2, RowsBeforeAre
<1>2. PICK f : /\ f[0] = NULL
               /\ \A i \in 1..k : f[i] = IF Alike(n, i) = << >> THEN f[i - 1]
                                         ELSE Last(Alike(n, i))
               /\ Fallback(n) = f[k]
  BY LastAlike
<1> HIDE DEF k
<1> DEFINE W == { i \in Nat : i <= k /\ ~Is(f[i]) }
<1>3. 0 \notin W
  BY <1>2
<1>4. ASSUME NEW i \in Nat, i \notin W PROVE i + 1 \notin W
  <2> SUFFICES ASSUME i + 1 <= k PROVE Is(f[i + 1])
    OBVIOUS
  <2>1. /\ Is(f[i]) /\ i + 1 \in 1..k /\ (i + 1) - 1 = i
        /\ i + 1 \in 1..Len(Rows(forest, n.comp))
    BY <1>1, <1>4
  <2> HIDE DEF Is
  <2>2. CASE Alike(n, i + 1) = << >>
    <3>1. f[i + 1] = f[i]
      BY <1>2, <2>1, <2>2
    <3>2. QED
      BY <2>1, <3>1
  <2>3. CASE Alike(n, i + 1) # << >>
    <3>1. f[i + 1] = Last(Alike(n, i + 1))
      BY <1>2, <2>1, <2>3
    <3>2. /\ Last(Alike(n, i + 1)) \in ToSet(RowOf(n, i + 1))
          /\ Last(Alike(n, i + 1)).ver[2] = n.ver[2]
          /\ Last(Alike(n, i + 1)) \in Live(forest)
      BY <2>1, <2>3, AlikeIs
    <3>3. IsFallback(f[i + 1], n)
      BY <2>1, <3>1, <3>2 DEF IsFallback, k
    <3>4. QED
      BY <3>3 DEF Is
  <2>4. QED
    BY <2>2, <2>3
<1>5. W = {}
  <2> HIDE DEF W
  <2> QED BY <1>3, <1>4, NoLeast DEF W
<1>6. Is(f[k])
  <2> HIDE DEF Is
  <2> QED BY <1>1, <1>5
<1>7. QED
  BY <1>2, <1>6

-----------------------------------------------------------------------------
(***************************************************************************)
(* What is selected without the user.                                      *)
(***************************************************************************)
Trunk(f, c) == [i \in 1..Len(f.levels[c]) |-> f.levels[c][i][1]]

OwnTrunk(f, c) == Only(Trunk(f, c), { v \in ToSet(Trunk(f, c)) : v[2] = f.ver[c][2] })

(* The trunk versions that have the flavour of the root.                   *)
LEMMA OwnTrunkIs ==
  ASSUME NEW f, Good(f), NEW c \in ToSet(f.order)
  PROVE  /\ Trunk(f, c) \in Seq(Versions) /\ Len(Trunk(f, c)) = Len(f.levels[c])
         /\ OwnTrunk(f, c) \in Seq(Versions)
         /\ \A v : v \in ToSet(OwnTrunk(f, c)) <=>
                     \E i \in 1..Len(f.levels[c]) : /\ v = f.levels[c][i][1]
                                                    /\ v[2] = f.ver[c][2]
         /\ InOrderOf(OwnTrunk(f, c), Trunk(f, c))
         /\ OwnTrunk(f, c) # << >> => /\ Len(OwnTrunk(f, c)) \in 1..Len(OwnTrunk(f, c))
                                      /\ Last(OwnTrunk(f, c)) = OwnTrunk(f, c)[Len(OwnTrunk(f, c))]
                                      /\ Last(OwnTrunk(f, c)) \in ToSet(OwnTrunk(f, c))
                                      /\ Last(OwnTrunk(f, c)) \in Has(f, c)
<1> DEFINE n == Len(f.levels[c])
           t == Trunk(f, c)
           S == { v \in ToSet(t) : v[2] = f.ver[c][2] }
           own == OwnTrunk(f, c)
<1>1. n \in Nat /\ \A i \in 1..n : f.levels[c][i][1] \in Versions
                                   /\ f.levels[c][i][1] \in ToSet(f.levels[c][i])
  <2>1. n \in Nat
    BY RowsAre
  <2>2. ASSUME NEW i \in 1..n
        PROVE  f.levels[c][i][1] \in Versions /\ f.levels[c][i][1] \in ToSet(f.levels[c][i])
    <3> DEFINE row == f.levels[c][i]
    <3>1. row \in Seq(Versions) /\ Len(row) \in Nat /\ Len(row) >= 1
      BY LevelIs
    <3> HIDE DEF row
    <3>2. row[1] \in Versions /\ row[1] \in ToSet(row)
      BY <3>1 DEF ToSet
    <3>3. QED
      BY <3>2 DEF row
  <2>3. QED
    BY <2>1, <2>2
<1>2. t \in [1..n -> Versions] /\ \A i \in 1..n : t[i] = f.levels[c][i][1]
  BY <1>1 DEF Trunk
<1> HIDE DEF t
<1>3. t \in Seq(Versions) /\ Len(t) = n
  <2> HIDE DEF n
  <2> QED BY <1>1, <1>2
<1>4. own \in Seq(Versions) /\ ToSet(own) = ToSet(t) \cap S /\ InOrderOf(own, t)
  <2>1. own = Only(t, S)
    BY DEF OwnTrunk, t
  <2> HIDE DEF S, own
  <2>2. QED
    BY <1>3, <2>1, OnlyKeeps
<1> HIDE DEF own
<1>5. \A v : v \in ToSet(own) <=>
               \E i \in 1..n : v = f.levels[c][i][1] /\ v[2] = f.ver[c][2]
  <2>1. \A v : v \in ToSet(t) <=> \E i \in 1..n : v = t[i]
    BY <1>3 DEF ToSet
  <2>2. QED
    BY <1>2, <1>4, <2>1
<1>6. ASSUME own # << >>
      PROVE  /\ Len(own) \in 1..Len(own) /\ Last(own) = own[Len(own)]
             /\ Last(own) \in ToSet(own) /\ Last(own) \in Has(f, c)
  <2>1. Len(own) \in 1..Len(own) /\ Last(own) = own[Len(own)]
    BY <1>4, <1>6 DEF Last
  <2>2. Last(own) \in ToSet(own)
    BY <1>4, <2>1 DEF ToSet
  <2>3. PICK i \in 1..n : Last(own) = f.levels[c][i][1]
    BY <1>5, <2>2
  <2>4. Last(own) \in Has(f, c)
    BY <1>1, <2>3 DEF Has, VersionsOn
  <2>5. QED
    BY <2>1, <2>2, <2>4
<1>7. QED
  BY <1>3, <1>4, <1>5, <1>6 DEF t, own

(* What autoselect_patches() selects, if anything.                         *)
LEMMA AutoSelectedIs ==
  ASSUME NEW f, NEW c
  PROVE  AutoSelected(f, c) = IF f.visible[c] \/ OwnTrunk(f, c) = << >> THEN NULL
                              ELSE Node(f, c, Last(OwnTrunk(f, c)))
BY DEF AutoSelected, OwnTrunk, Trunk

(* The flavourless version of a level comes first, and levels are in order. *)
LEMMA NewestIs ==
  ASSUME NEW f, Good(f), NEW c \in ToSet(f.order), ~f.visible[c], f.ver[c][2] = 0,
         NEW V, V = { v \in VersionsOn(f.levels[c]) : v[2] = 0 }
  PROVE  IF V = {} THEN AutoSelected(f, c) = NULL
         ELSE \E w \in V : /\ AutoSelected(f, c) = Node(f, c, w)
                           /\ \A v \in V : ~Newer(v, w)
<1> DEFINE n == Len(f.levels[c])
           own == OwnTrunk(f, c)
           t == Trunk(f, c)
<1>1. n \in Nat /\ Above(f.levels[c], f.ver[c])
  BY RowsAre DEF Good
<1>2. \A v \in V : \E i \in 1..n : v = f.levels[c][i][1]
  <2> SUFFICES ASSUME NEW v \in V PROVE \E i \in 1..n : v = f.levels[c][i][1]
    OBVIOUS
  <2>1. PICK i \in 1..n : v \in ToSet(f.levels[c][i])
    BY DEF VersionsOn
  <2> DEFINE row == f.levels[c][i]
  <2>2. Row(row) /\ row \in Seq(Versions) /\ Len(row) \in Nat /\ Len(row) >= 1
    BY LevelIs
  <2>3. v \in ToSet(row) /\ v[2] = 0
    BY <2>1
  <2> HIDE DEF row
  <2>4. PICK k \in 1..Len(row) : row[k] = v
    BY <2>2, <2>3 DEF ToSet
  <2>5. k = 1
    <3> SUFFICES ASSUME k # 1 PROVE FALSE
      OBVIOUS
    <3>1. 1 \in 1..Len(row) /\ 1 < k
      BY <2>2
    <3>2. row[1][2] < row[k][2]
      BY <2>2, <3>1 DEF Row
    <3>3. row[1] \in Versions
      BY <2>2, <3>1
    <3>4. row[1][2] \in Nat
      BY <3>3, VersionsAre
    <3>5. QED
      BY <2>3, <2>4, <3>2, <3>4
  <2>6. QED
    BY <2>4, <2>5 DEF row
<1>3. \A i \in 1..n : f.levels[c][i][1] \in VersionsOn(f.levels[c])
  <2> SUFFICES ASSUME NEW i \in 1..n
               PROVE  f.levels[c][i][1] \in VersionsOn(f.levels[c])
    OBVIOUS
  <2>1. f.levels[c][i] \in Seq(Versions) /\ Len(f.levels[c][i]) >= 1
        /\ Len(f.levels[c][i]) \in Nat
    BY LevelIs
  <2>2. f.levels[c][i][1] \in ToSet(f.levels[c][i])
    BY <2>1 DEF ToSet
  <2>3. QED
    BY <2>2 DEF VersionsOn
<1>4. ToSet(own) = V
  <2>1. \A v : v \in ToSet(own) <=>
                 \E i \in 1..n : v = f.levels[c][i][1] /\ v[2] = 0
    BY OwnTrunkIs
  <2> HIDE DEF own, n
  <2>2. \A v : v \in ToSet(own) => v \in V
    BY <1>3, <2>1
  <2>3. \A v : v \in V => v \in ToSet(own)
    BY <1>2, <2>1
  <2>4. QED
    BY <2>2, <2>3
<1>5. /\ own \in Seq(Versions) /\ t \in Seq(Versions) /\ Len(t) = n /\ InOrderOf(own, t)
      /\ own # << >> => /\ Len(own) \in 1..Len(own) /\ Last(own) = own[Len(own)]
                        /\ Last(own) \in ToSet(own)
      /\ AutoSelected(f, c) = IF own = << >> THEN NULL ELSE Node(f, c, Last(own))
  BY OwnTrunkIs, AutoSelectedIs
<1>6. \A i \in 1..n : t[i] = f.levels[c][i][1]
  BY DEF Trunk
<1> HIDE DEF own, t, n
<1>7. own = << >> <=> V = {}
  <2>1. own = << >> => ToSet(own) = {}
    BY DEF ToSet
  <2>2. own # << >> => ToSet(own) # {}
    BY <1>5
  <2>3. QED
    BY <1>4, <2>1, <2>2
<1>8. CASE V # {}
  <2> DEFINE w == Last(own)
             m == Len(own)
  <2>1. own # << >> /\ w \in V /\ w = own[m] /\ m \in 1..m /\ AutoSelected(f, c) = Node(f, c, w)
    BY <1>4, <1>5, <1>7, <1>8
  <2>2. ASSUME NEW v \in V PROVE ~Newer(v, w)
    <3>1. v \in ToSet(own)
      BY <1>4
    <3>2. PICK k \in 1..m : own[k] = v
      BY <1>5, <3>1 DEF ToSet
    <3>3. v \in Versions /\ v[1] \in Nat
      <4>1. v \in Versions
        BY <1>5, <3>2
      <4>2. QED
        BY <4>1, VersionsAre
    <3>4. CASE k = m
      BY <2>1, <3>2, <3>3, <3>4 DEF Newer
    <3>5. CASE k < m
      <4>1. PICK p, q \in 1..Len(t) : p < q /\ own[k] = t[p] /\ own[m] = t[q]
        BY <1>5, <2>1, <3>5 DEF InOrderOf
      <4>2. p \in 1..n /\ q \in 1..n /\ v = f.levels[c][p][1] /\ w = f.levels[c][q][1]
        BY <1>5, <1>6, <2>1, <3>2, <4>1
      <4>3. v[1] < w[1]
        BY <1>1, <4>1, <4>2 DEF Above, n
      <4>4. w[1] \in Nat
        <5>1. w \in Versions
          BY <1>5, <2>1
        <5>2. QED
          BY <5>1, VersionsAre
      <4>5. QED
        BY <3>3, <4>3, <4>4 DEF Newer
    <3>6. QED
      BY <1>5, <3>4, <3>5
  <2>3. QED
    BY <1>8, <2>1, <2>2
<1>9. CASE V = {}
  BY <1>5, <1>7, <1>9
<1>10. QED
  BY <1>8, <1>9

(* A component that has no tree, or lost it, is not selected.              *)
LEMMA NoTreeNoChoice ==
  ASSUME Ready, NEW paths, Routes(paths), NEW g, g = NodesTrimmed(Trimmed, paths),
         NEW c \in Components, c \notin ToSet(g.order)
  PROVE  AutoSelected(g, c) = NULL
<1>1. /\ g.order = Trimmed.order /\ g.visible = forest.visible
      /\ \A d : d \in ToSet(Trimmed.order) <=>
                  d \in ToSet(forest.order) /\ (~forest.visible[d] \/ base[d] # 0)
      /\ Trimmed.levels = forest.levels
  BY TreesAreRouted, TrimmedIs
<1>2. CASE forest.visible[c]
  BY <1>1, <1>2 DEF AutoSelected
<1>3. CASE ~forest.visible[c]
  <2>1. c \notin ToSet(forest.order)
    BY <1>1, <1>3
  <2>2. Good(forest) /\ Tracks(forest, c, patches, listed, base)
    BY DEF Ready, Matches
  <2>3. c \notin DOMAIN Installed
    BY <2>1, <2>2 DEF Good
  <2>4. forest.levels[c] = << >>
    BY <2>1, <2>2, <2>3 DEF Tracks
  <2> DEFINE rows(d) == [i \in 1..Len(Trimmed.levels[d]) |->
                           RowTrimmed(Trimmed, d, paths, Trimmed.levels[d][i])]
  <2>5. Trimmed \in Forests
    BY TrimmedIs DEF Good
  <2>6. g.levels[c] = Only(rows(c), ToSet(rows(c)) \ {<< >>})
    BY <2>5 DEF NodesTrimmed, Forests
  <2>7. Trimmed.levels[c] = << >> /\ Len(Trimmed.levels[c]) = 0
    BY <1>1, <2>4
  <2>8. rows(c) \in Seq(Seq(Versions)) /\ ToSet(rows(c)) = {}
    <3>1. rows(c) = [i \in 1..0 |-> RowTrimmed(Trimmed, c, paths, Trimmed.levels[c][i])]
      BY <2>7
    <3> HIDE DEF rows
    <3>2. rows(c) \in [1..0 -> Seq(Versions)]
      BY <3>1
    <3>3. rows(c) \in Seq(Seq(Versions)) /\ Len(rows(c)) = 0
      BY <3>2
    <3>4. QED
      BY <3>3 DEF ToSet
  <2> HIDE DEF rows
  <2>9. g.levels[c] \in Seq(Seq(Versions)) /\ ToSet(g.levels[c]) = {}
    BY <2>6, <2>8, OnlyKeeps
  <2>10. Len(g.levels[c]) = 0
    <3> DEFINE levels == g.levels[c]
    <3> HIDE DEF levels
    <3>1. levels \in Seq(Seq(Versions)) /\ ToSet(levels) = {}
      BY <2>9 DEF levels
    <3>2. Len(levels) = 0
      <4>1. DOMAIN levels = 1..Len(levels) /\ Len(levels) \in Nat
        BY <3>1
      <4>2. \A i \in DOMAIN levels : levels[i] \in ToSet(levels)
        BY DEF ToSet
      <4>3. 1 \notin 1..Len(levels)
        BY <3>1, <4>1, <4>2
      <4>4. QED
        BY <4>1, <4>3
    <3>3. QED
      BY <3>2 DEF levels
  <2>11. Trunk(g, c) = [i \in 1..0 |-> g.levels[c][i][1]]
    BY <2>10 DEF Trunk
  <2>12. Trunk(g, c) \in Seq(Versions) /\ ToSet(Trunk(g, c)) = {}
    <3>1. Trunk(g, c) \in [1..0 -> Versions]
      BY <2>11
    <3>2. Trunk(g, c) \in Seq(Versions) /\ Len(Trunk(g, c)) = 0
      BY <3>1
    <3>3. QED
      BY <3>2 DEF ToSet
  <2>13. OwnTrunk(g, c) \in Seq(Versions) /\ ToSet(OwnTrunk(g, c)) = {}
    BY <2>12, OnlyKeeps DEF OwnTrunk
  <2>14. OwnTrunk(g, c) = << >>
    BY <2>13 DEF ToSet
  <2>15. QED
    BY <2>14, AutoSelectedIs
<1>4. QED
  BY <1>2, <1>3

(* What load_patchset() selects.                                           *)
LEMMA ChosenAre ==
  ASSUME Ready, NEW paths, Routes(paths), NEW g, g = NodesTrimmed(Trimmed, paths),
         NEW c \in Components
  PROVE  /\ AutoSelected(g, c) = NULL \/ /\ c \in ToSet(g.order)
                                         /\ AutoSelected(g, c) \in Live(g)
                                         /\ AutoSelected(g, c).comp = c
         /\ c \notin DOMAIN Installed => AutoSelected(g, c) = NULL
         /\ c \in DOMAIN Installed /\ Installed[c][2] = 0 =>
              LET own == { v \in Available(c) : v[2] = 0 }
              IN  IF own = {} THEN AutoSelected(g, c) = NULL
                  ELSE /\ AutoSelected(g, c).ver \in own
                       /\ \A v \in own : ~Newer(v, AutoSelected(g, c).ver)
<1>1. /\ Good(g) /\ g.ver = forest.ver /\ g.visible = forest.visible
      /\ \A d \in ToSet(g.order) : Has(g, d) = Reached(d)
  BY TreesAreRouted
<1>2. CASE c \notin ToSet(g.order)
  <2>1. AutoSelected(g, c) = NULL
    BY <1>2, NoTreeNoChoice
  <2>2. c \notin DOMAIN Installed
    BY <1>1, <1>2 DEF Good
  <2>3. QED
    BY <2>1, <2>2
<1>3. CASE c \in ToSet(g.order)
  <2>1. AutoSelected(g, c) = NULL \/ /\ AutoSelected(g, c) \in Live(g)
                                     /\ AutoSelected(g, c).comp = c
    <3>1. CASE g.visible[c] \/ OwnTrunk(g, c) = << >>
      BY <3>1, AutoSelectedIs
    <3>2. CASE ~(g.visible[c] \/ OwnTrunk(g, c) = << >>)
      <4>1. AutoSelected(g, c) = Node(g, c, Last(OwnTrunk(g, c)))
        BY <3>2, AutoSelectedIs
      <4>2. Last(OwnTrunk(g, c)) \in Has(g, c)
        BY <1>1, <1>3, <3>2, OwnTrunkIs
      <4>3. AutoSelected(g, c) \in Live(g)
        BY <1>1, <1>3, <4>1, <4>2, LiveIs
      <4>4. QED
        BY <4>1, <4>3 DEF Node
    <3>3. QED
      BY <3>1, <3>2
  <2>2. c \notin DOMAIN Installed => AutoSelected(g, c) = NULL
    BY <1>1, <1>3, AutoSelectedIs DEF Good
  <2>3. ASSUME c \in DOMAIN Installed, Installed[c][2] = 0,
               NEW own, own = { v \in Available(c) : v[2] = 0 }
        PROVE  IF own = {} THEN AutoSelected(g, c) = NULL
               ELSE /\ AutoSelected(g, c).ver \in own
                    /\ \A v \in own : ~Newer(v, AutoSelected(g, c).ver)
    <3>1. ~g.visible[c] /\ g.ver[c] = Installed[c] /\ Above(g.levels[c], g.ver[c])
      BY <1>1, <1>3, <2>3 DEF Good
    <3>2. Start(c) = g.ver[c]
      BY <2>3, <3>1 DEF Start
    <3>3. g.ver[c] \notin VersionsOn(g.levels[c])
      BY <3>1 DEF Above, VersionsOn
    <3>4. Available(c) = Reached(c) \ {Start(c)}
      BY <2>3 DEF Available, Reached, Within, Retained
    <3>5. Available(c) = VersionsOn(g.levels[c])
      BY <1>1, <1>3, <3>2, <3>3, <3>4 DEF Has
    <3>6. own = { v \in VersionsOn(g.levels[c]) : v[2] = 0 }
      BY <2>3, <3>5
    <3>7. IF own = {} THEN AutoSelected(g, c) = NULL
          ELSE \E w \in own : /\ AutoSelected(g, c) = Node(g, c, w)
                              /\ \A v \in own : ~Newer(v, w)
      BY <1>1, <1>3, <2>3, <3>1, <3>6, NewestIs
    <3>8. QED
      BY <3>7 DEF Node
  <2>4. QED
    BY <1>3, <2>1, <2>2, <2>3
<1>4. QED
  BY <1>2, <1>3

(* LoadDone, told in the terms of the paths and the trimmed forest.        *)
LEMMA LoadChooses ==
  ASSUME AllSettled, LoadDone, ~broken'
  PROVE  \E paths, g :
           /\ Ready /\ Routes(paths) /\ g = NodesTrimmed(Trimmed, paths)
           /\ forest' = g /\ path' = paths /\ patches' = Kept(paths)
           /\ listed' = listed /\ base' = base
           /\ selected' = [c \in Components |-> AutoSelected(g, c)]
           /\ toggled' = UNION { ToggledBy(n, g, Kept(paths), paths, {}) :
                                   n \in { AutoSelected(g, c) : c \in Components } \ {NULL} }
           /\ ticked' = toggled'
           /\ depth' = [n \in DOMAIN paths |-> DepthOf(Trimmed, n)]
<1>1. phase = "listing" /\ ~broken /\ CalculatePaths /\ UNCHANGED <<base, listed>>
  BY DEF LoadDone
<1>2. Ready
  BY <1>1 DEF AllSettled, PatchesMatch, Ready, Matches
<1> DEFINE paths == AllPaths(Trimmed)
           g == NodesTrimmed(Trimmed, paths)
           auto == [c \in Components |-> AutoSelected(g, c)]
<1>3. Routes(paths)
  BY <1>2, PathsAreRouted
<1>4. /\ forest' = g /\ path' = paths /\ patches' = Kept(paths)
      /\ selected' = auto /\ ticked' = toggled'
      /\ depth' = [n \in DOMAIN paths |-> DepthOf(Trimmed, n)]
  BY <1>1 DEF CalculatePaths, Trimmed, Kept, Counted
<1>5. toggled' = UNION { ToggledBy(n, g, Kept(paths), paths, {}) :
                           n \in { auto[c] : c \in Components } \ {NULL} }
  BY <1>1 DEF CalculatePaths, Trimmed, Kept, Counted
<1> HIDE DEF paths, g
<1>6. { auto[c] : c \in Components } = { AutoSelected(g, c) : c \in Components }
  OBVIOUS
<1>7. QED
  BY <1>1, <1>2, <1>3, <1>4, <1>5, <1>6 DEF g

(* autoselect_patches() selects the newest version of no flavour, and only *)
(* of what is installed (patchset.c:953-981).                              *)
THEOREM NewestIsSelected == Spec => NewestSelected
<1> DEFINE Newest ==
      phase = "listing" /\ phase' = "choosing" /\ ~broken' =>
        \A c \in Components :
          IF c \notin DOMAIN Installed THEN selected'[c] = NULL
          ELSE Installed[c][2] = 0 =>
                 LET own == { v \in Available(c) : v[2] = 0 }
                 IN  IF own = {} THEN selected'[c] = NULL
                     ELSE selected'[c].ver \in own
                            /\ \A v \in own : ~Newer(v, selected'[c].ver)
<1>1. ASSUME AllSettled, [Next]_vars PROVE [Newest]_vars
  <2> SUFFICES ASSUME phase = "listing", phase' = "choosing", ~broken', NEW c \in Components
               PROVE  IF c \notin DOMAIN Installed THEN selected'[c] = NULL
                      ELSE Installed[c][2] = 0 =>
                             LET own == { v \in Available(c) : v[2] = 0 }
                             IN  IF own = {} THEN selected'[c] = NULL
                                 ELSE selected'[c].ver \in own
                                        /\ \A v \in own : ~Newer(v, selected'[c].ver)
    OBVIOUS
  <2>1. LoadDone
    <3>1. CASE \E e \in Entries : AddPatch(e)
      BY <3>1 DEF AddPatch
    <3>2. CASE \E n \in Offered : Tick(n) \/ Untick(n) \/ CleanupUpdate(n)
      BY <3>2 DEF Tick, Untick, CleanupUpdate
    <3>3. CASE Proceed
      BY <3>3 DEF Proceed
    <3>4. CASE UNCHANGED vars
      BY <3>4 DEF vars
    <3>5. QED
      BY <1>1, <3>1, <3>2, <3>3, <3>4 DEF Next
  <2>2. PICK paths, g : /\ Ready /\ Routes(paths) /\ g = NodesTrimmed(Trimmed, paths)
                        /\ selected' = [d \in Components |-> AutoSelected(g, d)]
    BY <1>1, <2>1, LoadChooses
  <2>3. selected'[c] = AutoSelected(g, c)
    BY <2>2
  <2>4. /\ c \notin DOMAIN Installed => AutoSelected(g, c) = NULL
        /\ c \in DOMAIN Installed /\ Installed[c][2] = 0 =>
             LET own == { v \in Available(c) : v[2] = 0 }
             IN  IF own = {} THEN AutoSelected(g, c) = NULL
                 ELSE /\ AutoSelected(g, c).ver \in own
                      /\ \A v \in own : ~Newer(v, AutoSelected(g, c).ver)
    BY <2>2, ChosenAre
  <2>5. QED
    BY <2>3, <2>4
<1>2. QED
  BY <1>1, AlwaysSettled, PTL DEF NewestSelected, Spec

-----------------------------------------------------------------------------
(***************************************************************************)
(* What the walk toggles on.                                               *)
(***************************************************************************)
LEMMA MaxIs ==
  ASSUME NEW S, NEW n \in Nat, S \subseteq 0..n, S # {}
  PROVE  Max(S) \in S /\ \A k \in S : k <= Max(S)
<1> DEFINE T == { n - k : k \in S }
<1>1. T \subseteq Nat /\ T # {}
  <2>1. \A k \in S : k \in 0..n /\ n - k \in Nat
    OBVIOUS
  <2>2. QED
    BY <2>1
<1>2. PICK t \in T : \A m \in T : t <= m
  BY <1>1, Least
<1>3. PICK x \in S : t = n - x
  OBVIOUS
<1>4. ASSUME NEW y \in S PROVE x >= y
  <2>1. n - y \in T
    OBVIOUS
  <2>2. t <= n - y
    BY <1>2, <2>1
  <2>3. x \in 0..n /\ y \in 0..n
    OBVIOUS
  <2>4. QED
    BY <1>3, <2>2, <2>3
<1>5. \E z \in S : \A y \in S : z >= y
  BY <1>4
<1>6. Max(S) \in S /\ \A y \in S : Max(S) >= y
  BY <1>5 DEF Max
<1>7. QED
  BY <1>6

(* The least of two numbers.                                               *)
LEMMA MinIs ==
  ASSUME NEW a \in Nat, NEW b \in Nat
  PROVE  Min({a, b}) = IF a <= b THEN a ELSE b
<1>1. Min({a, b}) \in {a, b} /\ \A y \in {a, b} : Min({a, b}) <= y
  <2>1. \E x \in {a, b} : \A y \in {a, b} : x <= y
    OBVIOUS
  <2>2. QED
    BY <2>1 DEF Min
<1>2. QED
  BY <1>1

(* The stops of a path in the order of the rows they are on.               *)
OnRows(f, c, stops, row) ==
  /\ Good(f) /\ c \in ToSet(f.order) /\ Len(stops) \in Nat
  /\ row \in [1..Len(stops) -> 1..Len(Rows(f, c))]
  /\ \A j \in 1..Len(stops) : stops[j] \in ToSet(Rows(f, c)[row[j]])
  /\ \A j \in 1..Len(stops) : \A i \in 1..Len(Rows(f, c)) :
       stops[j] \in ToSet(Rows(f, c)[i]) => i = row[j]
  /\ \A j, k \in 1..Len(stops) : j < k => row[j] <= row[k]

(* How far the stops go on from the d-th on row i.                         *)
Stretch(f, c, stops, i, d) ==
  { k \in d..Len(stops) : \A j \in d + 1 .. k : stops[j] \in ToSet(Rows(f, c)[i]) }

Sought(stops, passed, i) == passed[i - 1] + 1 .. Min({passed[i] + 1, Len(stops)})

TurnedOn(f, c, stops, passed, i) ==
  { Rows(f, c)[i][m] : m \in { x \in 1..Len(Rows(f, c)[i]) :
       \E j \in Sought(stops, passed, i) :
         /\ Rows(f, c)[i][x].ver[2] = stops[j].ver[2]
         /\ x <= PlaceOf(Rows(f, c)[i], stops[j]) } }

(* How far the stops can be walked on one row.                             *)
LEMMA StretchIs ==
  ASSUME NEW f, NEW c, NEW stops, Len(stops) \in Nat, NEW i, NEW d \in 0..Len(stops)
  PROVE  /\ Max(Stretch(f, c, stops, i, d)) \in Stretch(f, c, stops, i, d)
         /\ \A k \in Stretch(f, c, stops, i, d) : k <= Max(Stretch(f, c, stops, i, d))
         /\ d <= Max(Stretch(f, c, stops, i, d))
         /\ Max(Stretch(f, c, stops, i, d)) \in 0..Len(stops)
<1> DEFINE S == Stretch(f, c, stops, i, d)
<1>1. S \subseteq 0..Len(stops)
  BY DEF Stretch
<1>2. d \in S
  BY DEF Stretch
<1> HIDE DEF S
<1>3. Max(S) \in S /\ \A k \in S : k <= Max(S)
  BY <1>1, <1>2, MaxIs
<1>4. QED
  BY <1>1, <1>2, <1>3 DEF S

(* The function that Toggles walks along.                                  *)
LEMMA TogglesIs ==
  ASSUME NEW f, NEW c, NEW stops, Len(stops) \in Nat, Len(Rows(f, c)) \in Nat
  PROVE  \E p \in [0..Len(Rows(f, c)) -> 0..Len(stops)] :
           /\ p[0] = 0
           /\ \A i \in 1..Len(Rows(f, c)) : p[i] = Max(Stretch(f, c, stops, i, p[i - 1]))
           /\ Toggles(f, stops, c) =
                UNION { TurnedOn(f, c, stops, p, i) : i \in 1..Len(Rows(f, c)) }
<1> DEFINE n == Len(Rows(f, c))
           X == 0..Len(stops)
           G(i, x) == Max(Stretch(f, c, stops, i, x))
           R(p) == p = [i \in 0..n |-> IF i = 0 THEN 0 ELSE G(i, p[i - 1])]
           p == CHOOSE h : R(h)
<1>1. Toggles(f, stops, c) = UNION { TurnedOn(f, c, stops, p, i) : i \in 1..n }
  BY DEF Toggles, Stretch, Sought, TurnedOn
<1>2. n \in Nat /\ 0 \in X
  OBVIOUS
<1>3. ASSUME NEW i \in 1..n, NEW x \in X PROVE G(i, x) \in X
  BY StretchIs
<1> HIDE DEF n, X, G
<1>4. PICK g \in [0..n -> X] : g[0] = 0 /\ \A i \in 1..n : g[i] = G(i, g[i - 1])
  <2> DEFINE step == [q \in (1..n) \X X |-> G(q[1], q[2])]
  <2>1. \A i \in 1..n : \A x \in X : step[<<i, x>>] = G(i, x)
    OBVIOUS
  <2> HIDE DEF step
  <2>2. \A i \in 1..n : \A x \in X : step[<<i, x>>] \in X
    BY <1>3, <2>1
  <2>3. PICK g \in [0..n -> X] : Iterated(g, n, 0, step)
    BY <1>2, <2>2, Iterates
  <2>4. \A i \in 1..n : i - 1 \in 0..n /\ g[i - 1] \in X
    BY <1>2
  <2>5. \A i \in 1..n : g[i] = G(i, g[i - 1])
    BY <2>1, <2>3, <2>4 DEF Iterated
  <2>6. QED
    BY <2>3, <2>5 DEF Iterated
<1>5. R(g)
  <2>1. \A i \in 0..n : i # 0 => i \in 1..n
    BY <1>2
  <2>2. \A i \in 0..n : g[i] = IF i = 0 THEN 0 ELSE G(i, g[i - 1])
    BY <1>4, <2>1
  <2>3. g = [i \in 0..n |-> g[i]]
    OBVIOUS
  <2>4. QED
    BY <2>2, <2>3
<1>6. R(p)
  <2> HIDE DEF R
  <2> QED BY <1>5
<1> HIDE DEF p
<1>7. /\ DOMAIN p = 0..n /\ p[0] = 0
      /\ \A i \in 1..n : p[i] = G(i, p[i - 1])
  <2>1. 0 \in 0..n /\ \A i \in 1..n : i \in 0..n /\ i # 0
    BY <1>2
  <2>2. \A i \in 0..n : p[i] = IF i = 0 THEN 0 ELSE G(i, p[i - 1])
    BY <1>6
  <2>3. DOMAIN p = 0..n
    BY <1>6
  <2> HIDE DEF R
  <2>4. QED
    BY <2>1, <2>2, <2>3
<1>8. \A i \in 0..n : p[i] = g[i]
  <2> DEFINE W == { m \in Nat : m <= n /\ p[m] # g[m] }
  <2>1. 0 \notin W
    BY <1>4, <1>7
  <2>2. ASSUME NEW m \in Nat, m \notin W PROVE m + 1 \notin W
    <3>1. CASE m + 1 <= n
      <4>1. m + 1 \in 1..n /\ (m + 1) - 1 = m /\ p[m] = g[m]
        BY <1>2, <2>2, <3>1
      <4>2. QED
        BY <1>4, <1>7, <4>1
    <3>2. QED
      BY <3>1
  <2>3. W = {}
    <3> HIDE DEF W
    <3> QED BY <2>1, <2>2, NoLeast DEF W
  <2>4. QED
    BY <1>2, <2>3
<1>9. p = g
  <2>1. DOMAIN p = DOMAIN g /\ DOMAIN g = 0..n
    BY <1>7
  <2>2. p = [i \in 0..n |-> p[i]] /\ g = [i \in 0..n |-> g[i]]
    BY <1>6, <2>1
  <2>3. QED
    BY <1>8, <2>2
<1>10. QED
  BY <1>1, <1>4, <1>9 DEF n, X, G

Passes(f, c, stops, p) ==
  /\ p \in [0..Len(Rows(f, c)) -> 0..Len(stops)] /\ p[0] = 0
  /\ \A i \in 1..Len(Rows(f, c)) : p[i] = Max(Stretch(f, c, stops, i, p[i - 1]))

TogglesBy(f, c, stops, p) ==
  /\ Passes(f, c, stops, p)
  /\ Toggles(f, stops, c) = UNION { TurnedOn(f, c, stops, p, i) : i \in 1..Len(Rows(f, c)) }

(* The same, as a name that a proof can pick from.                         *)
LEMMA TogglesPass ==
  ASSUME NEW f, NEW c, NEW stops, Len(stops) \in Nat, Len(Rows(f, c)) \in Nat
  PROVE  \E p : TogglesBy(f, c, stops, p)
<1>1. \E p \in [0..Len(Rows(f, c)) -> 0..Len(stops)] :
        /\ p[0] = 0
        /\ \A i \in 1..Len(Rows(f, c)) : p[i] = Max(Stretch(f, c, stops, i, p[i - 1]))
        /\ Toggles(f, stops, c) =
             UNION { TurnedOn(f, c, stops, p, i) : i \in 1..Len(Rows(f, c)) }
  BY TogglesIs, ZenonT(30)
<1>2. QED
  BY <1>1 DEF TogglesBy, Passes

(* Stops that come in the order of the rows are passed on their rows.      *)
LEMMA PassesInOrder ==
  ASSUME NEW f, NEW c, NEW stops, NEW row, OnRows(f, c, stops, row),
         NEW p, Passes(f, c, stops, p)
  PROVE  \A i \in 0..Len(Rows(f, c)) : \A j \in 1..Len(stops) : j <= p[i] <=> row[j] <= i
<1> DEFINE N == Len(Rows(f, c))
           L == Len(stops)
           Is(i) == \A j \in 1..L : j <= p[i] <=> row[j] <= i
           W == { i \in Nat : i <= N /\ ~Is(i) }
<1>1. /\ N \in Nat /\ L \in Nat /\ row \in [1..L -> 1..N]
      /\ p \in [0..N -> 0..L] /\ p[0] = 0
      /\ \A i \in 1..N : p[i] = Max(Stretch(f, c, stops, i, p[i - 1]))
  BY RowsAre DEF OnRows, Passes
<1>2. /\ \A j \in 1..L : stops[j] \in ToSet(Rows(f, c)[row[j]])
      /\ \A j \in 1..L : \A i \in 1..N : stops[j] \in ToSet(Rows(f, c)[i]) => i = row[j]
      /\ \A j, k \in 1..L : j < k => row[j] <= row[k]
  BY DEF OnRows
<1>3. \A i \in 1..N : \A d \in 0..L : \A k \in Stretch(f, c, stops, i, d) :
        /\ k \in d..L /\ \A j \in d + 1 .. k : stops[j] \in ToSet(Rows(f, c)[i])
  BY DEF Stretch
<1>4. \A i \in 1..N : \A d \in 0..L : \A k \in d..L :
        (\A j \in d + 1 .. k : stops[j] \in ToSet(Rows(f, c)[i])) => k \in Stretch(f, c, stops, i, d)
  BY DEF Stretch
<1> HIDE DEF N, L
<1>5. 0 \notin W
  BY <1>1
<1>6. ASSUME NEW i \in Nat, i \notin W PROVE i + 1 \notin W
  <2> SUFFICES ASSUME i + 1 <= N, NEW j \in 1..L PROVE j <= p[i + 1] <=> row[j] <= i + 1
    OBVIOUS
  <2> DEFINE d == p[i]
             e == p[i + 1]
             S == Stretch(f, c, stops, i + 1, d)
  <2>1. i \in 0..N /\ i + 1 \in 1..N /\ (i + 1) - 1 = i /\ Is(i)
    BY <1>1, <1>6
  <2>2. d \in 0..L /\ e = Max(S)
    BY <1>1, <2>1
  <2>3. e \in S /\ (\A k \in S : k <= e) /\ d <= e /\ e \in 0..L
    <3>1. /\ Max(S) \in S /\ \A k \in S : k <= Max(S)
          /\ d <= Max(S) /\ Max(S) \in 0..L
      BY <1>1, <2>2, StretchIs DEF L
    <3>2. QED
      BY <2>2, <3>1
  <2>4. \A k \in 1..L : k <= d <=> row[k] <= i
    BY <2>1
  <2> HIDE DEF d, e, S
  <2>5. \A k \in 1..L : row[k] \in Nat
    BY <1>1
  <2>6. ASSUME j <= e PROVE row[j] <= i + 1
    <3>1. CASE j <= d
      BY <2>4, <2>5, <3>1
    <3>2. CASE ~(j <= d)
      <4>1. j \in d + 1 .. e
        BY <1>1, <2>2, <2>3, <2>6, <3>2
      <4>2. stops[j] \in ToSet(Rows(f, c)[i + 1])
        BY <1>3, <2>1, <2>2, <2>3, <4>1 DEF S
      <4>3. i + 1 = row[j]
        BY <1>2, <2>1, <4>2
      <4>4. QED
        BY <2>5, <4>3
    <3>3. QED
      BY <3>1, <3>2
  <2>7. ASSUME row[j] <= i + 1 PROVE j <= e
    <3>1. CASE j <= d
      BY <1>1, <2>2, <2>3, <3>1
    <3>2. CASE ~(j <= d)
      <4>1. row[j] = i + 1
        BY <2>4, <2>5, <2>7, <3>2
      <4>2. ASSUME NEW m \in d + 1 .. j PROVE stops[m] \in ToSet(Rows(f, c)[i + 1])
        <5>1. m \in 1..L /\ ~(m <= d) /\ (m = j \/ m < j)
          BY <1>1, <2>2, <4>2
        <5>2. row[m] <= row[j]
          BY <1>2, <2>5, <5>1
        <5>3. row[m] = i + 1
          BY <2>4, <2>5, <4>1, <5>1, <5>2
        <5>4. QED
          BY <1>2, <5>1, <5>3
      <4>3. j \in d..L
        BY <1>1, <2>2, <3>2
      <4>4. j \in S
        BY <1>4, <2>1, <2>2, <4>2, <4>3 DEF S
      <4>5. QED
        BY <2>3, <4>4
    <3>3. QED
      BY <3>1, <3>2
  <2>8. QED
    BY <2>6, <2>7 DEF e
<1>7. W = {}
  <2> HIDE DEF W
  <2> QED BY <1>5, <1>6, NoLeast DEF W
<1>8. \A i \in 0..N : Is(i)
  <2> SUFFICES ASSUME NEW i \in 0..N PROVE Is(i)
    OBVIOUS
  <2>1. i \in Nat /\ i <= N
    BY <1>1
  <2>2. i \notin W
    <3> HIDE DEF W
    <3> QED BY <1>7
  <2> HIDE DEF Is
  <2>3. QED
    BY <2>1, <2>2
<1>9. QED
  BY <1>8 DEF N, L

(* So all of them are toggled.                                             *)
LEMMA StopsAreToggled ==
  ASSUME NEW f, NEW c, NEW stops, NEW row, OnRows(f, c, stops, row)
  PROVE  \A j \in 1..Len(stops) : stops[j] \in Toggles(f, stops, c)
<1> DEFINE N == Len(Rows(f, c))
           L == Len(stops)
<1>1. /\ Good(f) /\ c \in ToSet(f.order) /\ N \in Nat /\ L \in Nat
      /\ row \in [1..L -> 1..N]
  BY RowsAre DEF OnRows
<1>2. PICK p : TogglesBy(f, c, stops, p)
  BY <1>1, TogglesPass
<1>3. /\ Passes(f, c, stops, p) /\ p \in [0..N -> 0..L]
      /\ Toggles(f, stops, c) = UNION { TurnedOn(f, c, stops, p, i) : i \in 1..N }
  BY <1>2 DEF TogglesBy, Passes
<1>4. \A i \in 0..N : \A j \in 1..L : j <= p[i] <=> row[j] <= i
  BY <1>3, PassesInOrder
<1> SUFFICES ASSUME NEW j \in 1..L PROVE stops[j] \in Toggles(f, stops, c)
  OBVIOUS
<1> DEFINE i == row[j]
           r == Rows(f, c)[i]
           x == PlaceOf(r, stops[j])
<1>5. i \in 1..N /\ stops[j] \in ToSet(r)
  BY <1>1 DEF OnRows
<1>6. r \in Seq(Live(f))
  BY <1>1, <1>5, RowIs
<1> HIDE DEF i, N, L
<1>7. x \in 1..Len(r) /\ r[x] = stops[j]
  <2> HIDE DEF r
  <2> QED BY <1>5, <1>6, PlaceIs
<1>8. j \in Sought(stops, p, i)
  <2>1. i - 1 \in 0..N /\ i \in 0..N /\ p[i - 1] \in 0..L /\ p[i] \in 0..L
        /\ p[i] + 1 \in Nat
    BY <1>1, <1>3, <1>5
  <2>2. j <= p[i] /\ ~(j <= p[i - 1])
    BY <1>1, <1>4, <1>5, <2>1 DEF i
  <2>3. Min({p[i] + 1, L}) = IF p[i] + 1 <= L THEN p[i] + 1 ELSE L
    BY <1>1, <2>1, MinIs
  <2> DEFINE m == Min({p[i] + 1, L})
  <2>4. j \in Nat /\ j <= L
    BY <1>1
  <2> HIDE DEF m
  <2>5. m \in Nat /\ j <= m
    BY <1>1, <2>1, <2>2, <2>3, <2>4 DEF m
  <2>6. j \in p[i - 1] + 1 .. m
    BY <2>1, <2>2, <2>4, <2>5
  <2>7. QED
    BY <2>6 DEF Sought, L, m
<1>9. x <= x
  BY <1>6, <1>7
<1>10. stops[j] \in TurnedOn(f, c, stops, p, i)
  <2> HIDE DEF x
  <2>1. r[x].ver[2] = stops[j].ver[2] /\ x <= PlaceOf(r, stops[j])
    BY <1>7, <1>9 DEF x
  <2>2. QED
    BY <1>7, <1>8, <2>1 DEF TurnedOn
<1>11. QED
  BY <1>3, <1>5, <1>10

-----------------------------------------------------------------------------
(***************************************************************************)
(* The stops of a path.                                                    *)
(***************************************************************************)
LEMMA EntriesAre ==
  ASSUME listed \in Seq(Entries), NEW c, NEW k \in EntriesOf(c)
  PROVE  /\ k \in 1..Len(listed) /\ k \in Nat /\ listed[k] \in Entries /\ listed[k].comp = c
         /\ listed[k].ver \in Versions /\ listed[k].ver[1] \in Nat
         /\ listed[k].applies \in Seq(Versions)
<1>1. k \in 1..Len(listed) /\ listed[k].comp = c /\ Len(listed) \in Nat
  BY DEF EntriesOf
<1>2. listed[k] \in Entries /\ k \in Nat
  BY <1>1
<1>3. listed[k].ver \in Versions /\ listed[k].applies \in Seq(Versions)
  BY <1>2, EntryParts
<1>4. QED
  BY <1>1, <1>2, <1>3, VersionsAre

(* No patch leads back to an older version.                                *)
LEMMA PatchesLeadOn ==
  ASSUME listed \in Seq(Entries), NEW c, NEW k \in Retained(c), NEW u, NEW w,
         Connects(k, u, w)
  PROVE  u[1] <= w[1] /\ u \in Versions /\ w \in Versions
<1> DEFINE e == listed[k]
<1>1. k \in EntriesOf(c) /\ u \in ToSet(e.applies) /\ w = e.ver
  BY DEF Retained, Upgrades, Connects
<1>2. /\ e \in Entries /\ e.comp = c /\ e.ver \in Versions /\ e.ver[1] \in Nat
      /\ e.applies \in Seq(Versions)
  BY <1>1, EntriesAre
<1> HIDE DEF e
<1>3. \E i \in DOMAIN e.applies : u = e.applies[i]
  BY <1>1 DEF ToSet
<1>4. u \in Versions
  BY <1>2, <1>3
<1>5. CASE \A i \in DOMAIN e.applies : e.applies[i][1] <= e.ver[1]
  BY <1>1, <1>2, <1>3, <1>4, <1>5
<1>6. CASE /\ c \notin DOMAIN Installed
           /\ \A d \in Entries : d.comp = c => d.ver = e.ver \/ e.ver[1] < d.ver[1]
  <2> DEFINE S == { j \in EntriesOf(c) : \A i \in EntriesOf(c) :
                                           ~Newer(listed[j].ver, listed[i].ver) }
  <2>1. \A i \in EntriesOf(c) : /\ listed[i].ver = e.ver \/ e.ver[1] < listed[i].ver[1]
                                /\ listed[i].ver[1] \in Nat /\ i \in Nat
    BY <1>6, EntriesAre
  <2>2. k \in S
    <3>1. \A i \in EntriesOf(c) : ~(e.ver[1] > listed[i].ver[1])
      BY <1>2, <2>1
    <3>2. QED
      BY <1>1, <3>1 DEF Newer, e
  <2>3. S \subseteq Nat
    BY <2>1
  <2>4. PICK m \in S : \A i \in S : m <= i
    <3> HIDE DEF S
    <3> QED BY <2>2, <2>3, Least
  <2>5. Lowest(c) \in S
    <3>1. Lowest(c) = Min(S)
      BY DEF Lowest
    <3> HIDE DEF S
    <3>2. QED
      BY <2>4, <3>1 DEF Min
  <2>6. ~Newer(listed[Lowest(c)].ver, e.ver)
    BY <1>1, <2>5 DEF e
  <2>7. listed[Lowest(c)].ver = e.ver
    BY <1>2, <2>1, <2>5, <2>6 DEF Newer
  <2>8. e.ver # Start(c)
    BY <1>6 DEF Retained, Upgrades, e
  <2>9. QED
    BY <1>6, <2>7, <2>8 DEF Start
<1>7. QED
  BY <1>1, <1>2, <1>4, <1>5, <1>6, UpgradeAssumption

(* The levels of a good tree: none holds the root, older ones come first.  *)
LEMMA LevelsAre ==
  ASSUME NEW f, Good(f), NEW c \in ToSet(f.order)
  PROVE  /\ \A i \in 1..Len(f.levels[c]) : \A v \in ToSet(f.levels[c][i]) :
              v \in Versions /\ v # f.ver[c]
         /\ \A i, j \in 1..Len(f.levels[c]) :
              \A v \in ToSet(f.levels[c][i]), w \in ToSet(f.levels[c][j]) :
                v[1] <= w[1] => i <= j
<1> DEFINE l == f.levels[c]
<1>1. Above(l, f.ver[c]) /\ Len(l) \in Nat
  BY RowsAre DEF Good
<1> HIDE DEF l
<1>2. ASSUME NEW i \in 1..Len(l), NEW v \in ToSet(l[i])
      PROVE  v \in Versions /\ v # f.ver[c] /\ v[1] = l[i][1][1] /\ v[1] \in Nat
  <2>1. Row(l[i]) /\ f.ver[c] \notin ToSet(l[i])
    BY <1>1 DEF Above
  <2>2. l[i] \in Seq(Versions) /\ \A k \in 1..Len(l[i]) : l[i][k][1] = l[i][1][1]
    BY <2>1 DEF Row
  <2>3. PICK k \in 1..Len(l[i]) : v = l[i][k]
    BY <2>2 DEF ToSet
  <2>4. v \in Versions
    BY <2>2, <2>3
  <2>5. QED
    BY <2>1, <2>2, <2>3, <2>4, VersionsAre
<1>3. ASSUME NEW i \in 1..Len(l), NEW j \in 1..Len(l), NEW v \in ToSet(l[i]),
             NEW w \in ToSet(l[j]), v[1] <= w[1]
      PROVE  i <= j
  <2> SUFFICES ASSUME j < i PROVE FALSE
    BY <1>1
  <2>1. l[j][1][1] < l[i][1][1]
    BY <1>1 DEF Above
  <2>2. QED
    BY <1>2, <1>3, <2>1
<1>4. QED
  BY <1>2, <1>3 DEF l

(* The version that the i-th patch of a path leads to.                     *)
StopAtVer(ids, i) == listed[ids[i]].ver

Settling(f, b, ps, paths) == listed \in Seq(Entries) /\ SettledIn(f, b, ps, paths)

(* What is settled, said of one node.                                      *)
LEMMA SettlingParts ==
  ASSUME NEW f, NEW b, NEW ps, NEW paths, Settling(f, b, ps, paths), NEW n \in Live(f)
  PROVE  /\ Good(f) /\ n.comp \in ToSet(f.order) /\ f.ver[n.comp] = Start(n.comp)
         /\ Top(f, n.comp) \in {0, 1} /\ n \in DOMAIN paths
         /\ (Top(f, n.comp) = 1 <=> f.visible[n.comp])
         /\ n = Node(f, n.comp, n.ver) /\ n.ver \in Has(f, n.comp)
         /\ Chain(n.comp, paths[n], Top(f, n.comp), n.ver)
         /\ \A d \in Nat : d < Len(paths[n]) - Top(f, n.comp) => n.ver \notin Within(n.comp, d)
         /\ Top(f, n.comp) = 1 => /\ paths[n][1] \in EntriesOf(n.comp)
                                  /\ listed[paths[n][1]].ver = Start(n.comp)
         /\ n = RootNode(f, n.comp) => Len(paths[n]) = Top(f, n.comp)
         /\ Needs(paths[n], ps, Live(f))
<1> DEFINE c == n.comp
<1>1. /\ Good(f) /\ n \in DOMAIN paths /\ DOMAIN paths = Live(f)
      /\ c \in ToSet(f.order) /\ OnRoute(f, b, n, paths[n]) /\ Needs(paths[n], ps, DOMAIN paths)
  BY DEF Settling, SettledIn
<1>2. /\ f.ver[c] = Start(c) /\ (f.visible[c] => b[c] \in Bases(c))
  BY <1>1 DEF Settling, SettledIn
<1>3. Top(f, c) \in {0, 1} /\ (Top(f, c) = 1 <=> f.visible[c])
  BY DEF Top
<1>4. /\ n = Node(f, c, n.ver) /\ n.ver \in Has(f, c)
      /\ Chain(c, paths[n], Top(f, c), n.ver)
      /\ f.visible[c] => paths[n][1] = b[c]
      /\ \A d \in Nat : d < Len(paths[n]) - Top(f, c) => n.ver \notin Within(c, d)
      /\ n = RootNode(f, c) => Len(paths[n]) = Top(f, c)
  BY <1>1 DEF OnRoute, Top
<1>5. f.visible[c] => paths[n][1] \in EntriesOf(c) /\ listed[paths[n][1]].ver = Start(c)
  BY <1>2, <1>4 DEF Bases
<1>6. QED
  BY <1>1, <1>2, <1>3, <1>4, <1>5

(* A stop on a path: the node of the version its patch leads to.           *)
LEMMA StopIs ==
  ASSUME NEW f, NEW b, NEW ps, NEW paths, Settling(f, b, ps, paths), NEW n \in Live(f),
         NEW i \in 1..Len(paths[n])
  PROVE  /\ paths[n][i] \in EntriesOf(n.comp)
         /\ Stops(ps, paths[n])[i] = Node(f, n.comp, StopAtVer(paths[n], i))
         /\ StopAtVer(paths[n], i) \in Has(f, n.comp)
         /\ StopAtVer(paths[n], i) \in Versions
         /\ Stops(ps, paths[n])[i] \in Live(f)
<1> DEFINE c == n.comp
           ids == paths[n]
           s == Top(f, c)
<1>1. /\ Good(f) /\ c \in ToSet(f.order) /\ s \in {0, 1} /\ Chain(c, ids, s, n.ver)
      /\ s = 1 => ids[1] \in EntriesOf(c)
      /\ Needs(ids, ps, Live(f))
  BY SettlingParts
<1> HIDE DEF s, c, ids
<1>2. ids[i] \in EntriesOf(c)
  <2>1. CASE i > s
    <3>1. i \in s + 1 .. Len(ids)
      BY <1>1, <2>1 DEF ids
    <3>2. Smallest(c, ids[i], At(c, ids, s, i), At(c, ids, s, i + 1))
      BY <1>1, <3>1 DEF Chain
    <3>3. QED
      BY <3>2 DEF Smallest, Retained, Upgrades
  <2>2. CASE ~(i > s)
    BY <1>1, <2>2
  <2>3. QED
    BY <2>1, <2>2
<1>3. PICK p \in ToSet(ps) : p.id = ids[i] /\ p.node \in Live(f)
  BY <1>1 DEF Needs, ids
<1>4. /\ \A q \in ToSet(ps) : q.id = ids[i] => q = p
      /\ p.node.comp = listed[ids[i]].comp /\ p.node.ver = listed[ids[i]].ver
      /\ listed \in Seq(Entries)
  BY <1>3 DEF Settling, SettledIn, Listed
<1>5. Stops(ps, ids)[i] = p.node
  <2>1. (CHOOSE q \in ToSet(ps) : q.id = ids[i]) = p
    BY <1>3, <1>4
  <2>2. QED
    BY <2>1 DEF Stops, ids
<1>6. p.node.comp = c /\ p.node.ver = StopAtVer(ids, i)
  BY <1>2, <1>4, EntriesAre DEF StopAtVer
<1>7. p.node = Node(f, c, StopAtVer(ids, i)) /\ StopAtVer(ids, i) \in Has(f, c)
  <2>1. PICK d \in ToSet(f.order) : \E v \in Has(f, d) : p.node = Node(f, d, v)
    BY <1>1, <1>3, LiveIs
  <2>2. QED
    BY <1>6, <2>1 DEF Node
<1>8. StopAtVer(ids, i) \in Versions
  BY <1>1, <1>7, HasAbove
<1>9. QED
  BY <1>2, <1>3, <1>5, <1>7, <1>8 DEF ids, c

(* The versions on the way do not get older.                               *)
LEMMA StopsLeadOn ==
  ASSUME NEW f, NEW b, NEW ps, NEW paths, Settling(f, b, ps, paths), NEW n \in Live(f)
  PROVE  \A j, k \in 1..Len(paths[n]) :
           j < k => StopAtVer(paths[n], j)[1] <= StopAtVer(paths[n], k)[1]
<1> DEFINE c == n.comp
           ids == paths[n]
           s == Top(f, c)
           V(i) == StopAtVer(ids, i)[1]
<1>1. /\ s \in {0, 1} /\ Chain(c, ids, s, n.ver) /\ listed \in Seq(Entries)
      /\ s = 1 => StopAtVer(ids, 1) = Start(c)
  BY SettlingParts DEF Settling, StopAtVer
<1>2. \A i \in 1..Len(ids) : StopAtVer(ids, i) \in Versions /\ V(i) \in Nat
  <2> SUFFICES ASSUME NEW i \in 1..Len(ids) PROVE StopAtVer(ids, i) \in Versions /\ V(i) \in Nat
    OBVIOUS
  <2>1. StopAtVer(ids, i) \in Versions
    BY StopIs
  <2>2. QED
    BY <2>1, VersionsAre
<1>3. /\ Len(ids) \in Nat /\ s <= Len(ids)
      /\ \A i \in s + 1 .. Len(ids) : Smallest(c, ids[i], At(c, ids, s, i), At(c, ids, s, i + 1))
  BY <1>1 DEF Chain
<1> HIDE DEF s, c, ids
<1>4. ASSUME NEW i \in 1..Len(ids), i + 1 <= Len(ids) PROVE V(i) <= V(i + 1)
  <2>1. i + 1 \in s + 1 .. Len(ids) /\ (i + 1) - 1 = i /\ (i + 1) + 1 # s + 1
        /\ ((i + 1) + 1) - 1 = i + 1
    BY <1>1, <1>3, <1>4
  <2>2. Smallest(c, ids[i + 1], At(c, ids, s, i + 1), At(c, ids, s, (i + 1) + 1))
    BY <1>3, <2>1
  <2>3. At(c, ids, s, (i + 1) + 1) = StopAtVer(ids, i + 1)
    BY <2>1 DEF At, StopAtVer
  <2>4. At(c, ids, s, i + 1) = StopAtVer(ids, i)
    <3>1. CASE i + 1 = s + 1
      <4>1. s = 1 /\ i = 1
        BY <1>1, <3>1
      <4>2. QED
        BY <1>1, <3>1, <4>1 DEF At
    <3>2. CASE i + 1 # s + 1
      BY <2>1, <3>2 DEF At, StopAtVer
    <3>3. QED
      BY <3>1, <3>2
  <2>5. QED
    BY <1>1, <2>2, <2>3, <2>4, PatchesLeadOn DEF Smallest
<1>5. ASSUME NEW j \in 1..Len(ids), NEW k \in 1..Len(ids), j < k PROVE V(j) <= V(k)
  <2> DEFINE W == { m \in Nat : j + m <= Len(ids) /\ ~(V(j) <= V(j + m)) }
  <2>1. 0 \notin W
    BY <1>2
  <2>2. ASSUME NEW m \in Nat, m \notin W PROVE m + 1 \notin W
    <3>1. CASE j + (m + 1) <= Len(ids)
      <4>1. j + m \in 1..Len(ids) /\ (j + m) + 1 <= Len(ids) /\ (j + m) + 1 = j + (m + 1)
            /\ j + (m + 1) \in 1..Len(ids)
        BY <1>3, <3>1
      <4>2. V(j) <= V(j + m)
        BY <1>3, <2>2, <4>1
      <4>3. V(j + m) <= V((j + m) + 1)
        BY <1>4, <4>1
      <4>4. V(j) \in Nat /\ V(j + m) \in Nat /\ V(j + (m + 1)) \in Nat
        BY <1>2, <4>1
      <4> HIDE DEF V
      <4>5. QED
        BY <4>1, <4>2, <4>3, <4>4
    <3>2. QED
      BY <3>1
  <2>3. W = {}
    <3> HIDE DEF W
    <3> QED BY <2>1, <2>2, NoLeast DEF W
  <2>4. k - j \in Nat /\ j + (k - j) = k /\ k <= Len(ids)
    BY <1>3, <1>5
  <2> HIDE DEF V
  <2>5. QED
    BY <2>3, <2>4
<1>6. QED
  BY <1>5 DEF ids

(* None comes back to the start.                                           *)
LEMMA StopsMoveOn ==
  ASSUME NEW f, NEW b, NEW ps, NEW paths, Settling(f, b, ps, paths), NEW n \in Live(f),
         NEW i \in Top(f, n.comp) + 1 .. Len(paths[n])
  PROVE  StopAtVer(paths[n], i) # Start(n.comp)
<1> DEFINE c == n.comp
           ids == paths[n]
           s == Top(f, c)
<1>1. /\ s \in {0, 1} /\ Chain(c, ids, s, n.ver) /\ Good(f) /\ c \in ToSet(f.order)
      /\ f.ver[c] = Start(c)
      /\ \A d \in Nat : d < Len(ids) - s => n.ver \notin Within(c, d)
  BY SettlingParts
<1>2. /\ Len(ids) \in Nat /\ s <= Len(ids) /\ At(c, ids, s, Len(ids) + 1) = n.ver
      /\ \A j \in s + 1 .. Len(ids) : Smallest(c, ids[j], At(c, ids, s, j), At(c, ids, s, j + 1))
  BY <1>1 DEF Chain
<1>3. \A j \in 1..Len(ids) : ~Newer(Start(c), StopAtVer(ids, j))
  <2> SUFFICES ASSUME NEW j \in 1..Len(ids) PROVE ~Newer(Start(c), StopAtVer(ids, j))
    OBVIOUS
  <2>1. StopAtVer(ids, j) \in Has(f, c)
    BY StopIs
  <2>2. QED
    BY <1>1, <2>1, HasAbove
<1>4. i \in Nat /\ i \in s + 1 .. Len(ids)
  BY <1>1
<1> HIDE DEF s, c, ids
<1> SUFFICES ASSUME StopAtVer(ids, i) = Start(c) PROVE FALSE
  BY DEF c, ids
<1> DEFINE W == { m \in Nat : i + m <= Len(ids) /\ At(c, ids, s, (i + m) + 1) \notin Within(c, m) }
<1>5. 0 \notin W
  <2>1. (i + 0) + 1 = i + 1 /\ i + 1 # s + 1 /\ (i + 1) - 1 = i
    BY <1>1, <1>4
  <2>2. At(c, ids, s, (i + 0) + 1) = Start(c)
    BY <2>1 DEF At, StopAtVer
  <2>3. Within(c, 0) = {Start(c)}
    BY WithinSteps
  <2>4. QED
    BY <2>2, <2>3
<1>6. ASSUME NEW m \in Nat, m \notin W PROVE m + 1 \notin W
  <2> SUFFICES ASSUME i + (m + 1) <= Len(ids)
               PROVE  At(c, ids, s, (i + (m + 1)) + 1) \in Within(c, m + 1)
    OBVIOUS
  <2> DEFINE j == i + (m + 1)
             u == At(c, ids, s, j)
             w == At(c, ids, s, j + 1)
  <2>1. j \in s + 1 .. Len(ids) /\ j \in 1..Len(ids) /\ j = (i + m) + 1 /\ i + m <= Len(ids)
        /\ j + 1 # s + 1 /\ (j + 1) - 1 = j
    BY <1>1, <1>2, <1>4
  <2> HIDE DEF j
  <2>2. u \in Within(c, m)
    BY <1>6, <2>1
  <2>3. Smallest(c, ids[j], u, w)
    BY <1>2, <2>1
  <2>4. w = StopAtVer(ids, j)
    BY <2>1 DEF At, StopAtVer
  <2>5. ~Newer(Start(c), w)
    BY <1>3, <2>1, <2>4
  <2> HIDE DEF u, w
  <2>6. ids[j] \in Retained(c) /\ Connects(ids[j], u, w) /\ w = listed[ids[j]].ver
    BY <2>3 DEF Smallest, Connects
  <2>7. w \in Nearer(c, Within(c, m))
    BY <2>2, <2>5, <2>6 DEF Nearer, NearerBy
  <2>8. Within(c, m + 1) = Nearer(c, Within(c, m))
    BY WithinSteps
  <2>9. QED
    BY <2>7, <2>8 DEF w, j
<1>7. W = {}
  <2> HIDE DEF W
  <2> QED BY <1>5, <1>6, NoLeast DEF W
<1> DEFINE m == Len(ids) - i
<1>8. m \in Nat /\ i + m = Len(ids) /\ m < Len(ids) - s /\ i + m <= Len(ids)
  BY <1>1, <1>2, <1>4
<1> HIDE DEF m
<1>9. At(c, ids, s, Len(ids) + 1) \in Within(c, m)
  <2>1. At(c, ids, s, (i + m) + 1) \in Within(c, m)
    BY <1>7, <1>8
  <2>2. QED
    BY <1>8, <2>1
<1>10. QED
  BY <1>1, <1>2, <1>8, <1>9

-----------------------------------------------------------------------------
(***************************************************************************)
(* Where the stops of a path are.                                          *)
(***************************************************************************)
LevelOf(f, c, v) == CHOOSE i \in 1..Len(f.levels[c]) : v \in ToSet(f.levels[c][i])

PlaceOfVer(f, c, v) == IF v = f.ver[c] THEN 1 ELSE LevelOf(f, c, v) + Top(f, c)

(* The row of a version, if only what is not installed has one of its root. *)
LEMMA VersionOnRow ==
  ASSUME NEW f, Good(f), NEW c \in ToSet(f.order), NEW v \in Has(f, c),
         v = f.ver[c] => Top(f, c) = 1
  PROVE  /\ PlaceOfVer(f, c, v) \in 1..Len(Rows(f, c))
         /\ Node(f, c, v) \in ToSet(Rows(f, c)[PlaceOfVer(f, c, v)])
         /\ \A i \in 1..Len(Rows(f, c)) :
              Node(f, c, v) \in ToSet(Rows(f, c)[i]) => i = PlaceOfVer(f, c, v)
         /\ v # f.ver[c] => LevelOf(f, c, v) \in 1..Len(f.levels[c])
                            /\ v \in ToSet(f.levels[c][LevelOf(f, c, v)])
<1> DEFINE n == Len(f.levels[c])
           s == Top(f, c)
           R == Rows(f, c)
           k == LevelOf(f, c, v)
           N == Node(f, c, v)
<1>1. /\ n \in Nat /\ s \in {0, 1} /\ Len(R) = n + s
      /\ s = 1 => R[1] = RootRow(f, c)
      /\ \A i \in 1..n : R[i + s] = Level(f, c, i)
      /\ \A i \in 1..Len(R) : R[i] \in Seq(Live(f))
  BY RowsAre, RowIs
<1>2. /\ \A i \in 1..n : \A w \in ToSet(f.levels[c][i]) : w \in Versions /\ w # f.ver[c]
      /\ \A i, j \in 1..n : \A w \in ToSet(f.levels[c][i]), x \in ToSet(f.levels[c][j]) :
           w[1] <= x[1] => i <= j
  BY LevelsAre
<1>3. ASSUME v # f.ver[c] PROVE k \in 1..n /\ v \in ToSet(f.levels[c][k])
  <2>1. \E i \in 1..n : v \in ToSet(f.levels[c][i])
    BY <1>3 DEF Has, VersionsOn
  <2>2. QED
    BY <2>1 DEF LevelOf
<1>4. ASSUME NEW i \in 1..n PROVE N \in ToSet(Level(f, c, i)) <=> v \in ToSet(f.levels[c][i])
  <2> DEFINE row == f.levels[c][i]
             lev == Level(f, c, i)
  <2>1. /\ lev \in Seq(Live(f)) /\ Len(lev) = Len(row) /\ row \in Seq(Versions)
        /\ Len(row) \in Nat /\ \A j \in 1..Len(row) : lev[j] = Node(f, c, row[j])
    BY LevelIs
  <2> HIDE DEF row, lev
  <2>2. \A j \in 1..Len(row) : lev[j] = N <=> row[j] = v
    <3>1. \A x, y : Node(f, c, x) = Node(f, c, y) <=> x = y
      BY DEF Node
    <3>2. QED
      BY <2>1, <3>1
  <2>3. N \in ToSet(lev) <=> \E j \in 1..Len(row) : lev[j] = N
    BY <2>1 DEF ToSet
  <2>4. v \in ToSet(row) <=> \E j \in 1..Len(row) : row[j] = v
    BY <2>1 DEF ToSet
  <2>5. QED
    BY <2>2, <2>3, <2>4 DEF row, lev
<1>5. s = 1 => (N \in ToSet(R[1]) <=> v = f.ver[c])
  <2> SUFFICES ASSUME s = 1 PROVE N \in ToSet(R[1]) <=> v = f.ver[c]
    OBVIOUS
  <2> DEFINE r == RootRow(f, c)
  <2>1. /\ r \in Seq(Live(f)) /\ Len(r) \in Nat /\ Len(r) >= 1 /\ r[1] = RootNode(f, c)
        /\ \A j \in 1..Len(r) : \E d \in ToSet(f.order) : r[j] = RootNode(f, d)
    BY RootRowIs
  <2> HIDE DEF r
  <2>2. ASSUME N \in ToSet(r) PROVE v = f.ver[c]
    <3>1. PICK j \in 1..Len(r) : r[j] = N
      BY <2>1, <2>2 DEF ToSet
    <3>2. PICK d \in ToSet(f.order) : N = RootNode(f, d)
      BY <2>1, <3>1
    <3>3. QED
      BY <3>2 DEF RootNode, Node
  <2>3. ASSUME v = f.ver[c] PROVE N \in ToSet(r)
    <3>1. r[1] = N
      BY <2>1, <2>3 DEF RootNode
    <3>2. QED
      BY <2>1, <3>1 DEF ToSet
  <2>4. QED
    BY <1>1, <2>2, <2>3 DEF r
<1> HIDE DEF n, s, R, k, N
<1>6. ASSUME NEW i \in 1..Len(R), N \in ToSet(R[i]) PROVE i = PlaceOfVer(f, c, v)
  <2>1. CASE i <= s
    <3>1. s = 1 /\ i = 1
      BY <1>1, <2>1
    <3>2. v = f.ver[c]
      BY <1>5, <1>6, <3>1
    <3>3. QED
      BY <3>1, <3>2 DEF PlaceOfVer
  <2>2. CASE i > s
    <3>1. i - s \in 1..n /\ (i - s) + s = i
      BY <1>1, <2>2
    <3>2. v \in ToSet(f.levels[c][i - s])
      BY <1>1, <1>4, <1>6, <3>1
    <3>3. v # f.ver[c] /\ v[1] \in Nat
      BY <1>2, <3>1, <3>2, VersionsAre
    <3>4. k \in 1..n /\ v \in ToSet(f.levels[c][k])
      BY <1>3, <3>3
    <3>5. v[1] <= v[1]
      BY <3>3
    <3>6. i - s <= k /\ k <= i - s
      BY <1>2, <3>1, <3>2, <3>4, <3>5
    <3>7. k = i - s
      BY <1>1, <3>1, <3>4, <3>6
    <3>8. i = k + s
      BY <3>1, <3>7
    <3>9. QED
      BY <3>3, <3>8 DEF PlaceOfVer, k, s
  <2>3. QED
    BY <1>1, <2>1, <2>2
<1>7. PlaceOfVer(f, c, v) \in 1..Len(R) /\ N \in ToSet(R[PlaceOfVer(f, c, v)])
  <2>1. CASE v = f.ver[c]
    <3>1. s = 1 /\ PlaceOfVer(f, c, v) = 1
      BY <2>1 DEF PlaceOfVer, s
    <3>2. QED
      BY <1>1, <1>5, <2>1, <3>1
  <2>2. CASE v # f.ver[c]
    <3>1. PlaceOfVer(f, c, v) = k + s
      BY <2>2 DEF PlaceOfVer, k, s
    <3>2. k \in 1..n /\ v \in ToSet(f.levels[c][k])
      BY <1>3, <2>2
    <3>3. k + s \in 1..Len(R) /\ R[k + s] = Level(f, c, k)
      BY <1>1, <3>2
    <3>4. QED
      BY <1>4, <3>1, <3>2, <3>3
  <2>3. QED
    BY <2>1, <2>2
<1>8. QED
  BY <1>3, <1>6, <1>7 DEF N, R, k, n

(* The stops of a path come in the order of the rows.                      *)
LEMMA StopsOnRows ==
  ASSUME NEW f, NEW b, NEW ps, NEW paths, Settling(f, b, ps, paths), NEW n \in Live(f)
  PROVE  /\ Stops(ps, paths[n]) \in Seq(Live(f)) /\ Len(Stops(ps, paths[n])) = Len(paths[n])
         /\ OnRows(f, n.comp, Stops(ps, paths[n]),
                   [j \in 1..Len(paths[n]) |-> PlaceOfVer(f, n.comp, StopAtVer(paths[n], j))])
<1> DEFINE c == n.comp
           ids == paths[n]
           stops == Stops(ps, ids)
           L == Len(ids)
           s == Top(f, c)
           v(j) == StopAtVer(ids, j)
           row == [j \in 1..L |-> PlaceOfVer(f, c, v(j))]
<1>1. /\ Good(f) /\ c \in ToSet(f.order) /\ s \in {0, 1} /\ Chain(c, ids, s, n.ver)
      /\ f.ver[c] = Start(c)
      /\ s = 1 => v(1) = Start(c)
  BY SettlingParts DEF StopAtVer
<1>2. L \in Nat /\ s <= L
  BY <1>1 DEF Chain
<1>3. \A j \in 1..L : /\ stops[j] = Node(f, c, v(j)) /\ v(j) \in Has(f, c)
                      /\ v(j) \in Versions /\ stops[j] \in Live(f)
  BY StopIs
<1>4. \A j \in 1..L : v(j) = f.ver[c] <=> j <= s
  <2> SUFFICES ASSUME NEW j \in 1..L PROVE v(j) = f.ver[c] <=> j <= s
    OBVIOUS
  <2>1. CASE j <= s
    <3>1. s = 1 /\ j = 1
      BY <1>1, <2>1
    <3>2. QED
      BY <1>1, <2>1, <3>1
  <2>2. CASE ~(j <= s)
    <3>1. j \in s + 1 .. L
      BY <1>1, <1>2, <2>2
    <3>2. v(j) # Start(c)
      BY <3>1, StopsMoveOn
    <3>3. QED
      BY <1>1, <2>2, <3>2
  <2>3. QED
    BY <2>1, <2>2
<1>5. \A j, k \in 1..L : j < k => v(j)[1] <= v(k)[1]
  BY StopsLeadOn
<1>6. stops \in Seq(Live(f)) /\ Len(stops) = L
  <2>1. stops = [k \in 1..L |-> stops[k]]
    BY DEF Stops
  <2> HIDE DEF stops, L
  <2>2. stops \in [1..L -> Live(f)]
    BY <1>3, <2>1
  <2>3. QED
    BY <1>2, <2>2
<1> HIDE DEF L, s, v, stops, c, ids
<1>7. ASSUME NEW j \in 1..L
      PROVE  /\ row[j] \in 1..Len(Rows(f, c)) /\ row[j] = PlaceOfVer(f, c, v(j))
             /\ stops[j] \in ToSet(Rows(f, c)[row[j]])
             /\ \A i \in 1..Len(Rows(f, c)) : stops[j] \in ToSet(Rows(f, c)[i]) => i = row[j]
             /\ j > s => /\ LevelOf(f, c, v(j)) \in 1..Len(f.levels[c])
                         /\ v(j) \in ToSet(f.levels[c][LevelOf(f, c, v(j))])
                         /\ row[j] = LevelOf(f, c, v(j)) + s
             /\ j <= s => row[j] = 1
  <2>1. v(j) = f.ver[c] => Top(f, c) = 1
    BY <1>1, <1>4 DEF s
  <2>2. /\ PlaceOfVer(f, c, v(j)) \in 1..Len(Rows(f, c))
        /\ Node(f, c, v(j)) \in ToSet(Rows(f, c)[PlaceOfVer(f, c, v(j))])
        /\ \A i \in 1..Len(Rows(f, c)) :
             Node(f, c, v(j)) \in ToSet(Rows(f, c)[i]) => i = PlaceOfVer(f, c, v(j))
        /\ v(j) # f.ver[c] => LevelOf(f, c, v(j)) \in 1..Len(f.levels[c])
                              /\ v(j) \in ToSet(f.levels[c][LevelOf(f, c, v(j))])
    BY <1>1, <1>3, <2>1, VersionOnRow
  <2>3. row[j] = PlaceOfVer(f, c, v(j))
    OBVIOUS
  <2>4. j > s => v(j) # f.ver[c]
    BY <1>1, <1>4
  <2>5. j <= s => v(j) = f.ver[c]
    BY <1>4
  <2> HIDE DEF row
  <2>6. QED
    BY <1>3, <2>2, <2>3, <2>4, <2>5 DEF PlaceOfVer, s
<1>8. ASSUME NEW j \in 1..L, NEW k \in 1..L, j < k PROVE row[j] <= row[k]
  <2> HIDE DEF row
  <2>1. row[j] \in Nat /\ row[k] \in Nat /\ row[k] >= 1
    <3>1. Len(Rows(f, c)) \in Nat
      BY <1>1, RowsAre
    <3>2. QED
      BY <1>7, <3>1
  <2>2. CASE j <= s
    BY <1>7, <2>1, <2>2
  <2>3. CASE ~(j <= s)
    <3>1. j > s /\ k > s
      BY <1>1, <1>8, <2>3
    <3> DEFINE a == LevelOf(f, c, v(j))
               d == LevelOf(f, c, v(k))
    <3>2. /\ a \in 1..Len(f.levels[c]) /\ d \in 1..Len(f.levels[c])
          /\ v(j) \in ToSet(f.levels[c][a]) /\ v(k) \in ToSet(f.levels[c][d])
          /\ row[j] = a + s /\ row[k] = d + s
      BY <1>7, <3>1
    <3>3. v(j)[1] <= v(k)[1]
      BY <1>5, <1>8
    <3> HIDE DEF a, d
    <3>4. a <= d
      BY <1>1, <3>2, <3>3, LevelsAre
    <3>5. QED
      BY <1>1, <3>2, <3>4
  <2>4. QED
    BY <2>2, <2>3
<1>9. row \in [1..L -> 1..Len(Rows(f, c))]
  BY <1>7
<1>10. OnRows(f, c, stops, row)
  <2> HIDE DEF row
  <2>1. QED
    BY <1>1, <1>2, <1>6, <1>7, <1>8, <1>9 DEF OnRows
<1>11. QED
  BY <1>6, <1>10 DEF c, ids, stops, L, v

(* All that is on the way to n is toggled when it is selected.             *)
LEMMA WayIsToggled ==
  ASSUME NEW f, NEW b, NEW ps, NEW paths, Settling(f, b, ps, paths), NEW n \in Live(f)
  PROVE  /\ ToSet(Stops(ps, paths[n])) \subseteq Toggles(f, Stops(ps, paths[n]), n.comp)
         /\ \A m \in ToSet(Stops(ps, paths[n])) : m.comp = n.comp /\ m \in Live(f)
<1> DEFINE stops == Stops(ps, paths[n])
           row == [j \in 1..Len(paths[n]) |-> PlaceOfVer(f, n.comp, StopAtVer(paths[n], j))]
<1>1. stops \in Seq(Live(f)) /\ Len(stops) = Len(paths[n]) /\ OnRows(f, n.comp, stops, row)
  BY StopsOnRows
<1>2. \A j \in 1..Len(stops) : stops[j] \in Toggles(f, stops, n.comp)
  <2> HIDE DEF row, stops
  <2> QED BY <1>1, StopsAreToggled
<1>3. \A j \in 1..Len(stops) : stops[j].comp = n.comp /\ stops[j] \in Live(f)
  <2> SUFFICES ASSUME NEW j \in 1..Len(stops) PROVE stops[j].comp = n.comp /\ stops[j] \in Live(f)
    OBVIOUS
  <2>1. /\ stops[j] = Node(f, n.comp, StopAtVer(paths[n], j)) /\ stops[j] \in Live(f)
    BY <1>1, StopIs
  <2>2. QED
    BY <2>1 DEF Node
<1> HIDE DEF stops
<1>4. \A m \in ToSet(stops) : \E j \in 1..Len(stops) : m = stops[j]
  BY <1>1 DEF ToSet
<1>5. QED
  BY <1>2, <1>3, <1>4 DEF stops

-----------------------------------------------------------------------------
(***************************************************************************)
(* What is selected, and all that is on the way to it, is toggled.         *)
(***************************************************************************)
WithStops(ps, paths, n) == {n} \union ToSet(Stops(ps, paths[n]))

Picked(f, ps, paths, sel, on) ==
  /\ sel \in [Components -> Live(f) \union {NULL}] /\ on \subseteq Live(f)
  /\ \A c \in Components :
       sel[c] # NULL => sel[c].comp = c /\ WithStops(ps, paths, sel[c]) \subseteq on

(* Selecting a node toggles all the stops on its path.                     *)
LEMMA SelectPicks ==
  ASSUME NEW f, NEW b, NEW ps, NEW paths, Settling(f, b, ps, paths),
         NEW sel, NEW on, Picked(f, ps, paths, sel, on), NEW n \in Live(f)
  PROVE  Picked(f, ps, paths, [sel EXCEPT ![n.comp] = n], ToggledBy(n, f, ps, paths, on))
<1> DEFINE c == n.comp
           stops == Stops(ps, paths[n])
           T == Toggles(f, stops, c)
           sel2 == [sel EXCEPT ![c] = n]
           on2 == ToggledBy(n, f, ps, paths, on)
<1>1. Good(f) /\ c \in ToSet(f.order) /\ c \in Components
  <2>1. Good(f) /\ c \in ToSet(f.order)
    BY SettlingParts
  <2>2. QED
    BY <2>1, ForestParts DEF ToSet
<1>2. T \subseteq Live(f)
  BY <1>1, TogglesAre
<1>3. ToSet(stops) \subseteq T
  BY WayIsToggled
<1>4. on2 = (on \ OwnNodes(c, on)) \union T \union {n}
  BY DEF ToggledBy
<1> HIDE DEF T, on2
<1>5. on2 \subseteq Live(f)
  BY <1>2, <1>4 DEF Picked
<1>6. sel2 \in [Components -> Live(f) \union {NULL}]
  BY <1>1 DEF Picked
<1>7. ASSUME NEW d \in Components, sel2[d] # NULL
      PROVE  sel2[d].comp = d /\ WithStops(ps, paths, sel2[d]) \subseteq on2
  <2>1. CASE d = c
    <3>1. sel2[d] = n
      BY <1>1, <2>1 DEF Picked
    <3>2. QED
      BY <1>3, <1>4, <2>1, <3>1 DEF WithStops
  <2>2. CASE d # c
    <3>1. sel2[d] = sel[d]
      BY <2>2 DEF Picked
    <3>2. /\ sel[d] \in Live(f) /\ sel[d].comp = d
          /\ WithStops(ps, paths, sel[d]) \subseteq on
      BY <1>7, <3>1 DEF Picked
    <3>3. \A m \in WithStops(ps, paths, sel[d]) : m.comp = d
      BY <3>2, WayIsToggled DEF WithStops
    <3>4. WithStops(ps, paths, sel[d]) \subseteq on \ OwnNodes(c, on)
      BY <2>2, <3>2, <3>3 DEF OwnNodes
    <3>5. QED
      BY <1>4, <3>1, <3>2, <3>4
  <2>3. QED
    BY <2>1, <2>2
<1> HIDE DEF sel2
<1>8. QED
  BY <1>5, <1>6, <1>7 DEF Picked, sel2, on2, c

(* Giving a component up clears its toggled nodes.                         *)
LEMMA DeselectPicks ==
  ASSUME NEW f, NEW b, NEW ps, NEW paths, Settling(f, b, ps, paths),
         NEW sel, NEW on, Picked(f, ps, paths, sel, on), NEW c
  PROVE  Picked(f, ps, paths, [sel EXCEPT ![c] = NULL], on \ OwnNodes(c, on))
<1> DEFINE sel2 == [sel EXCEPT ![c] = NULL]
<1>1. sel2 \in [Components -> Live(f) \union {NULL}]
  BY DEF Picked
<1>2. ASSUME NEW d \in Components, sel2[d] # NULL
      PROVE  sel2[d].comp = d /\ WithStops(ps, paths, sel2[d]) \subseteq on \ OwnNodes(c, on)
  <2>1. d # c /\ sel2[d] = sel[d]
    BY <1>2 DEF Picked
  <2>2. /\ sel[d] \in Live(f) /\ sel[d].comp = d
        /\ WithStops(ps, paths, sel[d]) \subseteq on
    BY <1>2, <2>1 DEF Picked
  <2>3. \A m \in WithStops(ps, paths, sel[d]) : m.comp = d
    BY <2>2, WayIsToggled DEF WithStops
  <2>4. QED
    BY <2>1, <2>2, <2>3 DEF OwnNodes
<1>3. on \ OwnNodes(c, on) \subseteq Live(f)
  BY DEF Picked
<1> HIDE DEF sel2
<1>4. QED
  BY <1>1, <1>2, <1>3 DEF Picked, sel2

(* What load_patchset() selects is toggled, too.                           *)
LEMMA LoadPicks ==
  ASSUME AllSettled, LoadDone, ~broken'
  PROVE  \E f, ps, paths, sel, on :
           /\ forest' = f /\ patches' = ps /\ path' = paths /\ selected' = sel
           /\ toggled' = on /\ ticked' = on
           /\ listed' = listed /\ base' = base
           /\ Settling(f, base, ps, paths) /\ Picked(f, ps, paths, sel, on)
<1>1. PICK paths, g :
        /\ Ready /\ Routes(paths) /\ g = NodesTrimmed(Trimmed, paths)
        /\ forest' = g /\ path' = paths /\ patches' = Kept(paths)
        /\ listed' = listed /\ base' = base
        /\ selected' = [c \in Components |-> AutoSelected(g, c)]
        /\ toggled' = UNION { ToggledBy(n, g, Kept(paths), paths, {}) :
                                n \in { AutoSelected(g, c) : c \in Components } \ {NULL} }
        /\ ticked' = toggled'
  BY LoadChooses
<1> DEFINE ps == Kept(paths)
           sel == [c \in Components |-> AutoSelected(g, c)]
           chosen == { AutoSelected(g, c) : c \in Components } \ {NULL}
           on == UNION { ToggledBy(n, g, ps, paths, {}) : n \in chosen }
<1>2. Settling(g, base, ps, paths)
  BY <1>1, PathsSettle, ReadyParts DEF Settling
<1>3. \A c \in Components : AutoSelected(g, c) # NULL =>
        AutoSelected(g, c) \in Live(g) /\ AutoSelected(g, c).comp = c
  BY <1>1, ChosenAre
<1> HIDE DEF ps
<1>4. ASSUME NEW n \in Live(g)
      PROVE  WithStops(ps, paths, n) \subseteq ToggledBy(n, g, ps, paths, {})
             /\ ToggledBy(n, g, ps, paths, {}) \subseteq Live(g)
  <2> DEFINE T == Toggles(g, Stops(ps, paths[n]), n.comp)
  <2>1. ToggledBy(n, g, ps, paths, {}) = T \union {n}
    BY DEF ToggledBy
  <2>2. ToSet(Stops(ps, paths[n])) \subseteq T
    BY <1>2, WayIsToggled
  <2>3. T \subseteq Live(g)
    BY <1>2, SettlingParts, TogglesAre
  <2>4. QED
    BY <2>1, <2>2, <2>3 DEF WithStops
<1>5. chosen \subseteq Live(g)
  BY <1>3
<1>6. on \subseteq Live(g)
  BY <1>4, <1>5
<1>7. sel \in [Components -> Live(g) \union {NULL}]
  BY <1>3
<1>8. ASSUME NEW c \in Components, sel[c] # NULL
      PROVE  sel[c].comp = c /\ WithStops(ps, paths, sel[c]) \subseteq on
  <2>1. sel[c] = AutoSelected(g, c)
    OBVIOUS
  <2>2. sel[c] \in chosen /\ sel[c] \in Live(g) /\ sel[c].comp = c
    BY <1>3, <1>8, <2>1
  <2> HIDE DEF sel, chosen
  <2>3. WithStops(ps, paths, sel[c]) \subseteq ToggledBy(sel[c], g, ps, paths, {})
    BY <1>4, <2>2
  <2>4. QED
    BY <2>2, <2>3
<1>9. Picked(g, ps, paths, sel, on)
  <2> HIDE DEF sel, on
  <2> QED BY <1>6, <1>7, <1>8 DEF Picked
<1>10. selected' = sel /\ toggled' = on /\ ticked' = on
  BY <1>1 DEF ps
<1> HIDE DEF sel, on
<1>11. QED
  BY <1>1, <1>2, <1>9, <1>10 DEF ps

Chosen ==
  Loaded => /\ Picked(forest, patches, path, selected, toggled)
            /\ ticked \subseteq Live(forest)

PickedSame(f, ps, paths, sel, on, ticks) ==
  /\ forest' = f /\ patches' = ps /\ path' = paths
  /\ selected' = sel /\ toggled' = on /\ ticked' = ticks

(* Picked is a matter of what an unchanged step leaves alone.              *)
LEMMA PickedStays ==
  ASSUME NEW f, NEW ps, NEW paths, NEW sel, NEW on, NEW ticks, Picked(f, ps, paths, sel, on),
         ticks \subseteq Live(f), PickedSame(f, ps, paths, sel, on, ticks)
  PROVE  Chosen'
<1>1. Picked(forest', patches', path', selected', toggled') /\ ticked' \subseteq Live(forest')
  BY DEF PickedSame
<1>2. Picked(forest, patches, path, selected, toggled)'
  BY <1>1 DEF Picked, WithStops, Stops, Live, RootNode, TreeNodes, Level, Node
<1>3. Live(forest)' = Live(forest')
  BY DEF Live, RootNode, TreeNodes, Level, Node
<1>4. QED
  BY <1>1, <1>2, <1>3 DEF Chosen

(* select_node() for a version that is given up.                           *)
LEMMA DeselectKeeps ==
  ASSUME Settled, Picked(forest, patches, path, selected, toggled), NEW n \in Live(forest),
         DeselectNode(n)
  PROVE  Picked(forest, patches, path, selected', toggled')
<1> DEFINE cleared == toggled \ OwnNodes(n.comp, toggled)
           none == [selected EXCEPT ![n.comp] = NULL]
           m == Fallback(n)
<1>1. Settling(forest, base, patches, path) /\ Good(forest)
  BY SettledParts DEF Settling, Settled
<1>2. Picked(forest, patches, path, none, cleared)
  BY <1>1, DeselectPicks
<1> HIDE DEF cleared, none, m
<1>3. CASE m = NULL
  <2>1. selected' = none /\ toggled' = cleared
    BY <1>3 DEF DeselectNode, cleared, none, m
  <2>2. QED
    BY <1>2, <2>1
<1>4. CASE m # NULL
  <2>1. selected' = [none EXCEPT ![m.comp] = m]
        /\ toggled' = ToggledBy(m, forest, patches, path, cleared)
    BY <1>4 DEF DeselectNode, cleared, none, m
  <2>2. m \in Live(forest)
    BY <1>1, <1>4, FallbackIs DEF IsFallback, m
  <2>3. QED
    BY <1>1, <1>2, <2>1, <2>2, SelectPicks
<1>5. QED
  BY <1>3, <1>4

(* Only nodes that are there are shown as ticked.                          *)
LEMMA ShownAreLive ==
  ASSUME NEW c, NEW S, ticked \subseteq S, toggled' \subseteq S, ShowToggled(c)
  PROVE  ticked' \subseteq S
BY DEF ShowToggled, OwnNodes

(* Every step leaves the selection picked.                                 *)
LEMMA ChosenStays ==
  ASSUME AllSettled, Chosen, [Next]_vars
  PROVE  Chosen'
<1> SUFFICES ASSUME phase' # "listing", ~broken' PROVE Chosen'
  BY DEF Chosen, Loaded
<1>1. CASE \E e \in Entries : AddPatch(e)
  BY <1>1 DEF AddPatch
<1>2. CASE LoadDone
  <2>1. PICK f, ps, paths, sel, on :
          /\ forest' = f /\ patches' = ps /\ path' = paths /\ selected' = sel
          /\ toggled' = on /\ ticked' = on
          /\ Picked(f, ps, paths, sel, on)
    BY <1>2, LoadPicks
  <2>2. PickedSame(f, ps, paths, sel, on, on) /\ on \subseteq Live(f)
    BY <2>1 DEF PickedSame, Picked
  <2>3. QED
    BY <2>1, <2>2, PickedStays
<1>3. CASE \E n \in Offered : Tick(n) \/ Untick(n) \/ CleanupUpdate(n)
  <2>1. PICK n \in Offered : Tick(n) \/ Untick(n) \/ CleanupUpdate(n)
    BY <1>3
  <2>2. n \in Live(forest) /\ Loaded
    BY <2>1 DEF Offered, Tick, Untick, CleanupUpdate, Loaded
  <2>3. Settled /\ Picked(forest, patches, path, selected, toggled) /\ ticked \subseteq Live(forest)
    BY <2>2 DEF AllSettled, Chosen
  <2>4. Settling(forest, base, patches, path)
    BY <2>3 DEF Settling, Settled
  <2>5. UNCHANGED <<forest, patches, path>>
    BY <2>1 DEF Tick, Untick, CleanupUpdate
  <2>6. Picked(forest, patches, path, selected', toggled')
    <3>1. CASE Tick(n)
      <4>1. /\ selected' = [selected EXCEPT ![n.comp] = n]
            /\ toggled' = ToggledBy(n, forest, patches, path, toggled)
        BY <3>1 DEF Tick, SelectNode
      <4>2. QED
        BY <2>2, <2>3, <2>4, <4>1, SelectPicks
    <3>2. CASE Untick(n) \/ CleanupUpdate(n)
      <4>1. DeselectNode(n)
        BY <3>2 DEF Untick, CleanupUpdate
      <4>2. QED
        BY <2>2, <2>3, <4>1, DeselectKeeps
    <3>3. QED
      BY <2>1, <3>1, <3>2
  <2>7. toggled' \subseteq Live(forest)
    BY <2>6 DEF Picked
  <2>8. ticked' \subseteq Live(forest)
    <3>1. ticked' = ticked \/ ShowToggled(n.comp)
      BY <2>1 DEF Tick, Untick, CleanupUpdate
    <3>2. QED
      BY <2>3, <2>7, <3>1, ShownAreLive
  <2>9. PickedSame(forest, patches, path, selected', toggled', ticked')
    BY <2>5 DEF PickedSame
  <2>10. QED
    BY <2>6, <2>8, <2>9, PickedStays
<1> DEFINE Same == Loaded /\ UNCHANGED <<forest, patches, path, selected, toggled, ticked>>
<1>4. CASE Same
  <2>1. Picked(forest, patches, path, selected, toggled) /\ ticked \subseteq Live(forest)
    BY <1>4 DEF Chosen
  <2>2. PickedSame(forest, patches, path, selected, toggled, ticked)
    BY <1>4 DEF PickedSame
  <2>3. QED
    BY <2>1, <2>2, PickedStays
<1>5. CASE Proceed
  <2>1. Same
    BY <1>5 DEF Proceed, Loaded
  <2>2. QED
    BY <1>4, <2>1
<1>6. CASE UNCHANGED vars
  <2>1. Same
    BY <1>6 DEF vars, Loaded
  <2>2. QED
    BY <1>4, <2>1
<1>7. QED
  BY <1>1, <1>2, <1>3, <1>5, <1>6 DEF Next

(* So it is in every reachable state.                                      *)
LEMMA AlwaysChosen == Spec => []Chosen
<1>1. Init => Chosen
  BY DEF Init, Chosen, Loaded
<1>2. AllSettled /\ Chosen /\ [Next]_vars => Chosen'
  BY ChosenStays
<1>3. QED
  BY <1>1, <1>2, AlwaysSettled, PTL DEF Spec

(* select_node() walks the trunk as far as the node it selects, and clears *)
(* nothing of another component (patchset.c:866-936).                      *)
THEOREM WhatIsSelectedIsToggled == Spec => []SelectionIsToggled
<1>1. Chosen => SelectionIsToggled
  BY DEF Chosen, Picked, WithStops, SelectionIsToggled
<1>2. QED
  BY <1>1, AlwaysChosen, PTL

-----------------------------------------------------------------------------
(***************************************************************************)
(* Types.                                                                  *)
(***************************************************************************)
ListTyped ==
  /\ listed \in Seq(Entries)
  /\ \A p \in ToSet(patches) : p.id \in 1..Len(listed) /\ p.refcount \in Nat
  /\ \A n \in DOMAIN path : ToSet(path[n]) \subseteq 1..Len(listed)
  /\ phase \in {"listing", "choosing", "updating"} /\ broken \in BOOLEAN

(* The types of what add_patch() keeps.                                    *)
LEMMA ListTypeStays ==
  ASSUME AllSettled, ListTyped, [Next]_vars
  PROVE  ListTyped'
<1>1. ASSUME NEW e \in Entries, AddPatch(e) PROVE ListTyped'
  <2>1. /\ phase = "listing" /\ ~broken /\ listed' = Append(listed, e)
        /\ UNCHANGED <<path, phase>>
    BY <1>1 DEF AddPatch
  <2>2. Ready /\ Untouched
    BY <2>1 DEF AllSettled, PatchesMatch, Ready, Matches
  <2>3. listed' \in Seq(Entries) /\ Len(listed') = Len(listed) + 1 /\ Len(listed) \in Nat
    BY <2>1, <2>2, ListGrows, ReadyParts
  <2>4. broken' \in BOOLEAN /\ (broken' => patches' = patches)
    BY <1>1, <2>1 DEF AddPatch, AddBase, AddUpgrade, ListTyped
  <2>5. ASSUME NEW p \in ToSet(patches') PROVE p.id \in 1..Len(listed') /\ p.refcount \in Nat
    <3>1. CASE broken'
      <4>1. p.id \in 1..Len(listed) /\ p.refcount \in Nat
        BY <2>4, <2>5, <3>1 DEF ListTyped
      <4>2. QED
        BY <2>3, <4>1
    <3>2. CASE ~broken'
      <4>1. Matches(forest', patches', listed', base')
        BY <1>1, <2>2, <3>2, ListGoesOn DEF Ready
      <4>2. Fits(p, forest', listed')
        BY <2>5, <4>1 DEF Matches
      <4>3. QED
        BY <4>2 DEF Fits, PatchRecords
    <3>3. QED
      BY <2>4, <3>1, <3>2
  <2>6. DOMAIN path' = {}
    BY <2>1, <2>2 DEF Untouched
  <2>7. QED
    BY <2>1, <2>3, <2>4, <2>5, <2>6 DEF ListTyped
<1>2. CASE LoadDone
  <2>1. phase = "listing" /\ ~broken /\ phase' = "choosing" /\ listed' = listed
    BY <1>2 DEF LoadDone
  <2>2. CASE broken'
    <3>1. broken' = TRUE /\ UNCHANGED <<patches, path>>
      BY <1>2, <2>1, <2>2 DEF LoadDone
    <3>2. QED
      BY <2>1, <3>1 DEF ListTyped
  <2>3. CASE ~broken'
    <3>1. PICK f, ps, paths : /\ patches' = ps /\ path' = paths
                              /\ Settling(f, base, ps, paths)
      BY <1>2, <2>3, LoadPicks
    <3>2. broken' = FALSE
      BY <1>2, <2>1, <2>3 DEF LoadDone
    <3>3. \A p \in ToSet(ps) : p.id \in 1..Len(listed) /\ p.refcount \in Nat
      <4>1. ps \in Seq(PatchRecords) /\ \A p \in ToSet(ps) : Listed(p)
        BY <3>1 DEF Settling, SettledIn
      <4>2. \A p \in ToSet(ps) : p \in PatchRecords
        BY <4>1 DEF ToSet
      <4>3. QED
        BY <4>1, <4>2 DEF Listed, PatchRecords
    <3>4. ASSUME NEW n \in DOMAIN paths PROVE ToSet(paths[n]) \subseteq 1..Len(listed)
      <4>1. n \in Live(f) /\ listed \in Seq(Entries)
        BY <3>1 DEF Settling, SettledIn
      <4>2. paths[n] \in Seq(Nat)
        BY <3>1, <4>1, SettlingParts DEF Chain
      <4>3. \A i \in 1..Len(paths[n]) : paths[n][i] \in EntriesOf(n.comp)
        BY <3>1, <4>1, StopIs
      <4>4. QED
        BY <4>1, <4>2, <4>3, EntriesAre DEF ToSet
    <3>5. QED
      BY <2>1, <3>1, <3>2, <3>3, <3>4 DEF ListTyped
  <2>4. QED
    BY <2>2, <2>3
<1> DEFINE Same == UNCHANGED <<listed, patches, path>>
                   /\ phase' \in {"listing", "choosing", "updating"} /\ broken' \in BOOLEAN
<1>3. CASE Same
  BY <1>3 DEF ListTyped
<1>4. CASE \E n \in Offered : Tick(n) \/ Untick(n) \/ CleanupUpdate(n)
  <2>1. broken' \in BOOLEAN
    BY <1>4 DEF Tick, Untick, CleanupUpdate, SkipToSelectedUpdate, NoPath, ListTyped
  <2>2. Same
    BY <1>4, <2>1 DEF Tick, Untick, CleanupUpdate, ListTyped
  <2>3. QED
    BY <1>3, <2>2
<1>5. CASE Proceed
  <2>1. Same
    BY <1>5 DEF Proceed, ListTyped
  <2>2. QED
    BY <1>3, <2>1
<1>6. CASE UNCHANGED vars
  <2>1. Same
    BY <1>6 DEF vars, ListTyped
  <2>2. QED
    BY <1>3, <2>1
<1>7. QED
  BY <1>1, <1>2, <1>4, <1>5, <1>6 DEF Next

(* What the updater has still to install are nodes that are there.         *)
Walked ==
  /\ phase = "listing" => update_path = << >>
  /\ Loaded => update_path \in Seq(Live(forest))

(* The way to what is selected goes through nodes that are there.          *)
LEMMA WaysAreLive ==
  ASSUME Settled, NEW sel, NEW on, Picked(forest, patches, path, sel, on), NEW k \in Nat
  PROVE  WayTo(NextSelected(k, sel), sel) \in Seq(Live(forest))
<1> DEFINE n == Len(forest.order)
           roots == { r \in k + 1 .. n : sel[forest.order[r]] # NULL }
           r == StopAt(n, roots)
           m == sel[forest.order[r]]
           stops == Stops(patches, path[m])
<1>1. Settling(forest, base, patches, path) /\ Good(forest)
  BY SettledParts DEF Settling, Settled
<1>2. forest.order \in Seq(Components) /\ n \in Nat
  BY <1>1, ForestParts
<1>3. roots \subseteq 1..n
  BY <1>2
<1>4. r \in 1..n + 1 /\ (r <= n => r \in roots)
  <2> HIDE DEF roots, n
  <2> QED BY <1>2, <1>3, StopsAtFirst
<1>5. WayTo(NextSelected(k, sel), sel) = IF r > n THEN << >> ELSE stops
  BY DEF WayTo, NextSelected
<1>6. CASE r > n
  BY <1>5, <1>6
<1>7. CASE ~(r > n)
  <2>1. r \in roots
    BY <1>2, <1>4, <1>7
  <2>2. \A q \in roots : q \in 1..n /\ sel[forest.order[q]] # NULL
    BY <1>3
  <2> HIDE DEF roots
  <2>3. r \in 1..n /\ sel[forest.order[r]] # NULL
    BY <2>1, <2>2
  <2>4. forest.order[r] \in Components
    BY <1>2, <2>3
  <2>5. m \in Live(forest) /\ WithStops(patches, path, m) \subseteq on /\ on \subseteq Live(forest)
    BY <2>3, <2>4 DEF Picked
  <2> HIDE DEF m
  <2>6. path[m] \in Seq(Nat)
    BY <1>1, <2>5, SettlingParts DEF Chain
  <2>7. stops = [i \in 1..Len(path[m]) |-> stops[i]] /\ Len(path[m]) \in Nat
    BY <2>6 DEF Stops
  <2>8. Len(stops) = Len(path[m])
    BY <2>7
  <2>9. \A i \in 1..Len(path[m]) : stops[i] \in Live(forest)
    BY <2>5, <2>7, <2>8 DEF WithStops, ToSet
  <2> HIDE DEF stops
  <2>10. stops \in Seq(Live(forest))
    BY <2>7, <2>9
  <2>11. QED
    BY <1>5, <1>7, <2>10
<1>8. QED
  BY <1>6, <1>7

(* The updater walks nodes that are there, to the end of a path and on to  *)
(* the next.                                                               *)
LEMMA WalkedStays ==
  ASSUME AllSettled, Chosen, Walked, [Next]_vars
  PROVE  Walked'
<1> DEFINE Same == Loaded /\ UNCHANGED <<forest, update_path>> /\ phase' # "listing"
<1>1. CASE Same
  <2>1. Live(forest)' = Live(forest)
    BY <1>1 DEF Live, RootNode, TreeNodes, Level, Node
  <2>2. QED
    BY <1>1, <2>1 DEF Walked, Loaded
<1>2. CASE \E e \in Entries : AddPatch(e)
  BY <1>2 DEF AddPatch, Walked, Loaded
<1>3. CASE LoadDone
  <2>1. update_path' = << >>
    BY <1>3 DEF LoadDone, Walked
  <2>2. QED
    BY <2>1 DEF Walked
<1>4. CASE \E n \in Offered : Tick(n) \/ Untick(n)
  <2>1. Same
    BY <1>4 DEF Tick, Untick, Loaded
  <2>2. QED
    BY <1>1, <2>1
<1>5. CASE Proceed
  <2>1. Loaded /\ phase' # "listing" /\ forest' = forest
    BY <1>5 DEF Proceed, Loaded
  <2>2. Settled /\ Picked(forest, patches, path, selected, toggled) /\ 0 \in Nat
    BY <2>1 DEF AllSettled, Chosen
  <2>3. update_path' = WayTo(NextSelected(0, selected), selected)
    BY <1>5 DEF Proceed
  <2>4. update_path' \in Seq(Live(forest))
    BY <2>2, <2>3, WaysAreLive
  <2>5. Live(forest)' = Live(forest)
    BY <2>1 DEF Live, RootNode, TreeNodes, Level, Node
  <2>6. QED
    BY <2>1, <2>4, <2>5 DEF Walked
<1>6. ASSUME NEW n \in Offered, CleanupUpdate(n) PROVE Walked'
  <2>1. Loaded /\ phase' # "listing" /\ forest' = forest /\ update_path # << >>
    BY <1>6 DEF CleanupUpdate, Loaded
  <2>2. Settled /\ Picked(forest, patches, path, selected, toggled)
        /\ update_path \in Seq(Live(forest)) /\ n \in Live(forest) /\ DeselectNode(n)
    BY <1>6, <2>1 DEF AllSettled, Chosen, Walked, CleanupUpdate, Offered
  <2>3. Picked(forest, patches, path, selected', toggled')
    BY <2>2, DeselectKeeps
  <2>4. Len(forest.order) \in Nat /\ forest.order \in Seq(Components)
    BY <2>2, SettledParts, ForestParts
  <2> DEFINE k == PlaceOf(forest.order, n.comp)
  <2>5. k \in Nat
    <3> DEFINE places == { i \in 1..Len(forest.order) : forest.order[i] = n.comp }
    <3>1. k = StopAt(Len(forest.order), places) /\ places \subseteq 1..Len(forest.order)
      BY DEF PlaceOf
    <3> HIDE DEF places, k
    <3>2. k \in 1..Len(forest.order) + 1
      BY <2>4, <3>1, StopsAtFirst
    <3>3. QED
      BY <2>4, <3>2
  <2> HIDE DEF k
  <2>6. \/ update_path' = << >>
        \/ update_path' = Tail(update_path)
        \/ update_path' = WayTo(NextSelected(k, selected'), selected')
    BY <1>6 DEF CleanupUpdate, SkipToSelectedUpdate, k
  <2>7. WayTo(NextSelected(k, selected'), selected') \in Seq(Live(forest))
    BY <2>2, <2>3, <2>5, WaysAreLive
  <2>8. Tail(update_path) \in Seq(Live(forest))
    BY <2>1, <2>2
  <2>9. update_path' \in Seq(Live(forest))
    <3>1. CASE update_path' = << >>
      BY <3>1
    <3>2. CASE update_path' = Tail(update_path)
      BY <2>8, <3>2
    <3>3. CASE update_path' = WayTo(NextSelected(k, selected'), selected')
      BY <2>7, <3>3
    <3>4. QED
      BY <2>6, <3>1, <3>2, <3>3
  <2>10. Live(forest)' = Live(forest)
    BY <2>1 DEF Live, RootNode, TreeNodes, Level, Node
  <2>11. QED
    BY <2>1, <2>9, <2>10 DEF Walked
<1>7. CASE UNCHANGED vars
  <2>1. UNCHANGED <<forest, update_path, phase, broken>>
    BY <1>7 DEF vars
  <2>2. Live(forest)' = Live(forest)
    BY <2>1 DEF Live, RootNode, TreeNodes, Level, Node
  <2>3. QED
    BY <2>1, <2>2 DEF Walked, Loaded
<1>8. QED
  BY <1>2, <1>3, <1>4, <1>5, <1>6, <1>7 DEF Next

(* The invariants that are known give the type invariant.                  *)
LEMMA TypedIsTyped ==
  ASSUME Good(forest), ListTyped, Chosen, Walked
  PROVE  PatchTypeOK
<1>1. ToSet(forest.order) \subseteq Components /\ Main = forest.order[1]
  BY ForestParts DEF ToSet, Good
<1>2. ToSet(listed) \subseteq Entries /\ DOMAIN listed = 1..Len(listed)
  BY DEF ListTyped, ToSet
<1>3. Loaded => /\ \A c \in Components : selected[c] \in Live(forest) \union {NULL}
                /\ toggled \union ticked \subseteq Live(forest)
                /\ update_path \in Seq(Live(forest))
  BY DEF Chosen, Picked, Walked
<1>4. QED
  BY <1>1, <1>2, <1>3 DEF PatchTypeOK, ListTyped

(* Everything patchset.c keeps has its type: the nodes that are selected,  *)
(* toggled or shown are nodes of the trees, not ones that were freed.      *)
THEOREM PatchTypeCorrect == Spec => []PatchTypeOK
<1>1. Init => Good(forest) /\ ListTyped /\ Walked
  <2> SUFFICES ASSUME Init PROVE Good(forest) /\ ListTyped /\ Walked
    OBVIOUS
  <2>1. Good(forest)
    BY ForestStarts
  <2>2. listed = << >> /\ patches = << >> /\ path = << >> /\ phase = "listing" /\ broken = FALSE
        /\ update_path = << >>
    BY DEF Init
  <2>3. listed \in Seq(Entries) /\ ToSet(patches) = {} /\ DOMAIN path = {}
    BY <2>2 DEF ToSet
  <2>4. QED
    BY <2>1, <2>2, <2>3 DEF ListTyped, Walked, Loaded
<1>2. Good(forest) /\ [Next]_vars => Good(forest)'
  BY ForestStays DEF Good, Forests, Above, Row
<1>3. AllSettled /\ ListTyped /\ [Next]_vars => ListTyped'
  BY ListTypeStays
<1>4. AllSettled /\ Chosen /\ Walked /\ [Next]_vars => Walked'
  BY WalkedStays
<1>5. Good(forest) /\ ListTyped /\ Chosen /\ Walked => PatchTypeOK
  BY TypedIsTyped
<1>6. QED
  BY <1>1, <1>2, <1>3, <1>4, <1>5, AlwaysSettled, AlwaysChosen, PTL DEF Spec

-----------------------------------------------------------------------------
(***************************************************************************)
(* The nodes of a row are at one depth, and those before it at another.    *)
(***************************************************************************)
Level1(f, m, n) ==
  m.comp = n.comp /\ m.ver[1] = n.ver[1] /\ m # RootNode(f, m.comp) /\ n # RootNode(f, n.comp)

DepthsAlike == \A m, n \in Live(forest) : Level1(forest, m, n) => depth[m] = depth[n]

(* Versions of one level are equally deep.                                 *)
LEMMA DepthsAre ==
  ASSUME NEW f, Good(f), NEW c \in ToSet(f.order), NEW v \in Has(f, c), NEW w \in Has(f, c),
         v # f.ver[c], w # f.ver[c], v[1] = w[1]
  PROVE  DepthOf(f, Node(f, c, v)) = DepthOf(f, Node(f, c, w))
<1> DEFINE l == f.levels[c]
           On(x) == { i \in 1..Len(l) : x \in ToSet(l[i]) }
<1>1. /\ Node(f, c, v).comp = c /\ Node(f, c, v).ver = v /\ Node(f, c, v) # RootNode(f, c)
      /\ Node(f, c, w).comp = c /\ Node(f, c, w).ver = w /\ Node(f, c, w) # RootNode(f, c)
  BY DEF Node, RootNode
<1>2. /\ DepthOf(f, Node(f, c, v)) = StopAt(Len(l), On(v)) - 1
      /\ DepthOf(f, Node(f, c, w)) = StopAt(Len(l), On(w)) - 1
  BY <1>1 DEF DepthOf
<1>3. /\ \E i \in 1..Len(l) : v \in ToSet(l[i])
      /\ \E i \in 1..Len(l) : w \in ToSet(l[i])
  BY DEF Has, VersionsOn
<1>4. \A i, j \in 1..Len(l) : \A x \in ToSet(l[i]), y \in ToSet(l[j]) : x[1] <= y[1] => i <= j
  BY LevelsAre
<1>5. v[1] \in Nat /\ v[1] <= w[1] /\ w[1] <= v[1]
  <2>1. v \in Versions /\ w \in Versions
    BY HasAbove
  <2>2. QED
    BY <2>1, VersionsAre
<1>6. Len(l) \in Nat
  BY RowsAre
<1> HIDE DEF l
<1>7. ASSUME NEW i \in 1..Len(l), NEW j \in 1..Len(l), v \in ToSet(l[i]), w \in ToSet(l[j])
      PROVE  i = j
  <2>1. i <= j /\ j <= i
    BY <1>4, <1>5, <1>7
  <2>2. QED
    BY <1>6, <2>1
<1>8. On(v) = On(w)
  BY <1>3, <1>7
<1>9. QED
  BY <1>2, <1>8

(* The depths that LoadDone sets are such.                                 *)
LEMMA DepthsStart ==
  ASSUME AllSettled, LoadDone, ~broken'
  PROVE  DepthsAlike'
<1>1. PICK paths, g :
        /\ Ready /\ Routes(paths) /\ g = NodesTrimmed(Trimmed, paths)
        /\ forest' = g /\ depth' = [n \in DOMAIN paths |-> DepthOf(Trimmed, n)]
  BY LoadChooses
<1>2. /\ Good(g) /\ g.order = Trimmed.order /\ g.ver = forest.ver
      /\ \A c, v : Node(g, c, v) = Node(forest, c, v)
      /\ DOMAIN paths = Live(g)
  BY <1>1, TreesAreRouted
<1>3. /\ Good(Trimmed) /\ Trimmed.ver = forest.ver /\ Trimmed.levels = forest.levels
      /\ \A c, v : Node(Trimmed, c, v) = Node(forest, c, v)
  BY <1>1, TrimmedIs
<1>4. \A n \in DOMAIN paths : /\ n.comp \in ToSet(Trimmed.order)
                              /\ n = Node(forest, n.comp, n.ver)
                              /\ n.ver \in Has(forest, n.comp)
  BY <1>1 DEF Routes, RoutedTo
<1>5. ASSUME NEW m \in Live(g), NEW n \in Live(g), Level1(g, m, n)
      PROVE  DepthOf(Trimmed, m) = DepthOf(Trimmed, n)
  <2> DEFINE c == n.comp
  <2>1. /\ c \in ToSet(Trimmed.order) /\ m.comp = c /\ m.ver[1] = n.ver[1]
        /\ m = Node(Trimmed, c, m.ver) /\ n = Node(Trimmed, c, n.ver)
        /\ m.ver \in Has(Trimmed, c) /\ n.ver \in Has(Trimmed, c)
    BY <1>2, <1>3, <1>4, <1>5 DEF Level1, Has
  <2>2. m # Node(g, c, g.ver[c]) /\ n # Node(g, c, g.ver[c])
    BY <1>5 DEF Level1, RootNode
  <2>3. m.ver # Trimmed.ver[c] /\ n.ver # Trimmed.ver[c]
    BY <1>2, <1>3, <2>1, <2>2
  <2> HIDE DEF c
  <2>4. DepthOf(Trimmed, Node(Trimmed, c, m.ver)) = DepthOf(Trimmed, Node(Trimmed, c, n.ver))
    BY <1>3, <2>1, <2>3, DepthsAre
  <2>5. QED
    BY <2>1, <2>4
<1>6. \A m, n \in Live(g) : Level1(g, m, n) => depth'[m] = depth'[n]
  BY <1>1, <1>2, <1>5
<1>7. \A m, n \in Live(forest') : Level1(forest', m, n) => depth'[m] = depth'[n]
  BY <1>1, <1>6
<1>8. Live(forest)' = Live(forest') /\ \A m, n : Level1(forest, m, n)' = Level1(forest', m, n)
  BY DEF Live, RootNode, TreeNodes, Level, Node, Level1
<1>9. QED
  BY <1>7, <1>8 DEF DepthsAlike

(* No later step changes a depth.                                          *)
LEMMA DepthsStay ==
  ASSUME AllSettled, Loaded => DepthsAlike, [Next]_vars
  PROVE  (Loaded => DepthsAlike)'
<1> SUFFICES ASSUME phase' # "listing", ~broken' PROVE DepthsAlike'
  BY DEF Loaded
<1> DEFINE Same == Loaded /\ UNCHANGED <<forest, depth>>
<1>1. CASE \E e \in Entries : AddPatch(e)
  BY <1>1 DEF AddPatch
<1>2. CASE LoadDone
  BY <1>2, DepthsStart
<1>3. CASE Same
  <2>1. DepthsAlike /\ forest' = forest /\ depth' = depth
    BY <1>3
  <2>2. Live(forest)' = Live(forest) /\ \A m, n : Level1(forest, m, n)' = Level1(forest, m, n)
    BY <2>1 DEF Live, RootNode, TreeNodes, Level, Node, Level1
  <2>3. QED
    BY <2>1, <2>2 DEF DepthsAlike
<1>4. CASE \E n \in Offered : Tick(n) \/ Untick(n) \/ CleanupUpdate(n)
  <2>1. Same
    BY <1>4 DEF Tick, Untick, CleanupUpdate, Loaded
  <2>2. QED
    BY <1>3, <2>1
<1>5. CASE Proceed
  <2>1. Same
    BY <1>5 DEF Proceed, Loaded
  <2>2. QED
    BY <1>3, <2>1
<1>6. CASE UNCHANGED vars
  <2>1. Same
    BY <1>6 DEF vars, Loaded
  <2>2. QED
    BY <1>3, <2>1
<1>7. QED
  BY <1>1, <1>2, <1>4, <1>5, <1>6 DEF Next

(* So it is in every reachable state.                                      *)
LEMMA AlwaysDeep == Spec => [](Loaded => DepthsAlike)
<1>1. Init => (Loaded => DepthsAlike)
  BY DEF Init, Loaded
<1>2. AllSettled /\ (Loaded => DepthsAlike) /\ [Next]_vars => (Loaded => DepthsAlike)'
  BY DepthsStay
<1>3. QED
  BY <1>1, <1>2, AlwaysSettled, PTL DEF Spec

(* A node is on a row that is as deep as itself.                           *)
LEMMA OwnDepth ==
  ASSUME Good(forest), DepthsAlike, NEW n \in Live(forest),
         NEW r \in 1..Len(Rows(forest, n.comp)), n \in ToSet(Rows(forest, n.comp)[r])
  PROVE  r \in SameDepth(n)
<1> DEFINE c == n.comp
           s == Top(forest, c)
           R == Rows(forest, c)
<1>1. c \in ToSet(forest.order)
  BY LiveIs DEF Node
<1>2. /\ s \in {0, 1} /\ Len(R) = Len(forest.levels[c]) + s /\ Len(forest.levels[c]) \in Nat
      /\ s = 1 => R[1] = RootRow(forest, c)
      /\ \A i \in 1..Len(forest.levels[c]) : R[i + s] = Level(forest, c, i)
  BY <1>1, RowsAre
<1>3. Good(forest)
  OBVIOUS
<1>4. depth[R[r][1]] = depth[n]
  <2>1. CASE r <= s
    <3>1. s = 1 /\ r = 1 /\ R[r] = RootRow(forest, c)
      BY <1>2, <2>1
    <3> DEFINE q == RootRow(forest, c)
    <3>2. /\ q \in Seq(Live(forest)) /\ q[1] = RootNode(forest, c)
          /\ \A k \in 1..Len(q) : \E d \in ToSet(forest.order) : q[k] = RootNode(forest, d)
      BY <1>1, RootRowIs
    <3>3. n \in ToSet(q)
      BY <3>1
    <3> HIDE DEF q
    <3>4. PICK k \in 1..Len(q) : q[k] = n
      BY <3>2, <3>3 DEF ToSet
    <3>5. PICK d \in ToSet(forest.order) : n = RootNode(forest, d)
      BY <3>2, <3>4
    <3>6. n = RootNode(forest, c)
      BY <3>5 DEF RootNode, Node
    <3>7. R[r] = q
      BY <3>1 DEF q
    <3>8. QED
      BY <3>2, <3>6, <3>7
  <2>2. CASE r > s
    <3>1. PICK i \in 1..Len(forest.levels[c]) : i + s = r
      <4>1. r - s \in 1..Len(forest.levels[c]) /\ (r - s) + s = r
        BY <1>2, <2>2
      <4>2. QED
        BY <4>1
    <3> DEFINE l == forest.levels[c][i]
               q == Level(forest, c, i)
    <3>2. R[r] = q
      BY <1>2, <3>1
    <3>3. /\ q \in Seq(Live(forest)) /\ Len(q) = Len(l) /\ l \in Seq(Versions)
          /\ Len(l) \in Nat /\ Len(l) >= 1 /\ Row(l)
          /\ \A k \in 1..Len(l) : q[k] = Node(forest, c, l[k])
      <4>1. /\ q \in Seq(Live(forest)) /\ Len(q) = Len(l) /\ l \in Seq(Versions)
            /\ Len(l) \in Nat /\ Len(l) >= 1 /\ Row(l)
        BY <1>1, <1>3, LevelIs
      <4>2. ASSUME NEW k \in 1..Len(l) PROVE q[k] = Node(forest, c, l[k])
        BY <1>1, <1>3, LevelIs
      <4>3. QED
        BY <4>1, <4>2
    <3>4. \A v \in ToSet(l) : v # forest.ver[c]
      BY <1>1, <3>1, LevelsAre
    <3>5. n \in ToSet(q)
      BY <3>2
    <3> HIDE DEF q, l
    <3>6. PICK k \in 1..Len(l) : q[k] = n
      BY <3>3, <3>5 DEF ToSet
    <3>7. /\ n = Node(forest, c, l[k]) /\ q[1] = Node(forest, c, l[1]) /\ q[1] \in Live(forest)
          /\ l[k][1] = l[1][1] /\ l[k] \in ToSet(l) /\ l[1] \in ToSet(l)
      BY <3>3, <3>6 DEF Row, ToSet
    <3>8. Level1(forest, q[1], n)
      BY <3>4, <3>7 DEF Level1, Node, RootNode
    <3>9. depth[q[1]] = depth[n]
      BY <3>7, <3>8 DEF DepthsAlike
    <3>10. QED
      BY <3>2, <3>9
  <2>3. QED
    BY <1>2, <2>1, <2>2
<1>5. QED
  BY <1>4 DEF SameDepth, RowOf

(* A path ends at the node it is the path of.                              *)
LEMMA LastStopIs ==
  ASSUME NEW f, NEW b, NEW ps, NEW paths, Settling(f, b, ps, paths), NEW m \in Live(f),
         Len(paths[m]) >= 1
  PROVE  Stops(ps, paths[m])[Len(paths[m])] = m
<1> DEFINE c == m.comp
           ids == paths[m]
           s == Top(f, c)
           L == Len(ids)
<1>1. /\ s \in {0, 1} /\ Chain(c, ids, s, m.ver) /\ m = Node(f, c, m.ver)
      /\ s = 1 => StopAtVer(ids, 1) = Start(c)
  BY SettlingParts DEF StopAtVer
<1>2. L \in Nat /\ s <= L /\ At(c, ids, s, L + 1) = m.ver /\ L \in 1..L
  BY <1>1 DEF Chain
<1>3. Stops(ps, ids)[L] = Node(f, c, StopAtVer(ids, L))
  BY <1>2, StopIs
<1> HIDE DEF s, L, ids, c
<1>4. StopAtVer(ids, L) = m.ver
  <2>1. CASE L = s
    <3>1. L = 1 /\ s = 1
      BY <1>1, <1>2, <2>1
    <3>2. QED
      BY <1>1, <1>2, <2>1, <3>1 DEF At
  <2>2. CASE L # s
    <3>1. L + 1 # s + 1 /\ (L + 1) - 1 = L
      BY <1>1, <1>2, <2>2
    <3>2. QED
      BY <1>2, <3>1 DEF At, StopAtVer
  <2>3. QED
    BY <2>1, <2>2
<1>5. QED
  BY <1>1, <1>3, <1>4 DEF ids, L

(* The path of a fallback does not lead over the node given up.            *)
LEMMA FallbackAvoids ==
  ASSUME Settled, DepthsAlike, NEW n \in Live(forest), NEW m, IsFallback(m, n),
         m.comp = n.comp
  PROVE  n \notin ToSet(Stops(patches, path[m]))
<1> DEFINE c == n.comp
           ids == path[m]
           stops == Stops(patches, ids)
           row == [j \in 1..Len(ids) |-> PlaceOfVer(forest, c, StopAtVer(ids, j))]
           R == Rows(forest, c)
<1>1. Good(forest) /\ Settling(forest, base, patches, path)
  BY SettledParts DEF Settling, Settled
<1>2. PICK i \in 1..RowsBefore(n) : m \in ToSet(R[i]) /\ m \in Live(forest)
  BY DEF IsFallback, RowOf
<1>3. stops \in Seq(Live(forest)) /\ Len(stops) = Len(ids) /\ OnRows(forest, c, stops, row)
  <2>1. m.comp = c
    OBVIOUS
  <2>2. QED
    BY <1>1, <1>2, <2>1, StopsOnRows
<1>4. Len(ids) >= 1 => stops[Len(ids)] = m
  BY <1>1, <1>2, LastStopIs
<1> HIDE DEF stops, ids, row
<1> SUFFICES ASSUME n \in ToSet(stops) PROVE FALSE
  BY DEF stops, ids
<1>5. PICK j \in 1..Len(ids) : stops[j] = n
  BY <1>3 DEF ToSet
<1>6. Len(ids) \in Nat /\ Len(ids) >= 1 /\ (j < Len(ids) \/ j = Len(ids)) /\ Len(ids) \in 1..Len(ids)
  BY <1>3, <1>5
<1>7. /\ row \in [1..Len(ids) -> 1..Len(R)]
      /\ stops[j] \in ToSet(R[row[j]])
      /\ \A k \in 1..Len(R) : stops[Len(ids)] \in ToSet(R[k]) => k = row[Len(ids)]
      /\ j < Len(ids) => row[j] <= row[Len(ids)]
  BY <1>3, <1>5, <1>6 DEF OnRows
<1>8. RowsBefore(n) \in 0..Len(R) /\ Len(R) \in Nat
  <2>1. RowsBefore(n) \in 0..Len(R)
    BY <1>1, RowsBeforeAre
  <2>2. c \in ToSet(forest.order)
    BY <1>1, LiveIs DEF Node
  <2>3. QED
    BY <1>1, <2>1, <2>2, RowsAre
<1>9. i \in 1..Len(R) /\ i = row[Len(ids)]
  BY <1>2, <1>4, <1>6, <1>7, <1>8
<1>10. row[j] <= i /\ row[j] \in 1..Len(R)
  BY <1>5, <1>6, <1>7, <1>9
<1>11. row[j] \in SameDepth(n)
  BY <1>1, <1>5, <1>7, <1>10, OwnDepth
<1>12. RowsBefore(n) < row[j]
  BY <1>1, <1>11, RowsBeforeAre
<1>13. QED
  BY <1>2, <1>8, <1>10, <1>12

(* select_node() falls back to a version of the rows before the one given  *)
(* up, and no path leads back (patchset.c:905-936).                        *)
THEOREM GivenUpIsOut == Spec => GivenUpStaysOut
<1> DEFINE Out ==
      \A n \in Offered :
        (Untick(n) \/ CleanupUpdate(n)) /\ selected'[n.comp] # NULL =>
           n \notin ToSet(Stops(patches, path[selected'[n.comp]]))
<1>1. ASSUME AllSettled, Chosen, Loaded => DepthsAlike, [Next]_vars PROVE [Out]_vars
  <2> SUFFICES ASSUME NEW n \in Offered, Untick(n) \/ CleanupUpdate(n), selected'[n.comp] # NULL
               PROVE  n \notin ToSet(Stops(patches, path[selected'[n.comp]]))
    OBVIOUS
  <2>1. Loaded /\ DeselectNode(n) /\ n \in Live(forest)
    BY DEF Untick, CleanupUpdate, Loaded, Offered
  <2>2. Settled /\ DepthsAlike /\ selected \in [Components -> Live(forest) \union {NULL}]
    BY <1>1, <2>1 DEF AllSettled, Chosen, Picked
  <2>3. Good(forest) /\ n.comp \in Components
    <3>1. Good(forest) /\ n.comp \in ToSet(forest.order)
      BY <2>1, <2>2, SettledParts
    <3>2. QED
      BY <3>1, ForestParts DEF ToSet
  <2> DEFINE none == [selected EXCEPT ![n.comp] = NULL]
             m == Fallback(n)
  <2>4. none[n.comp] = NULL /\ DOMAIN none = Components
    BY <2>2, <2>3
  <2> HIDE DEF m
  <2>5. m # NULL /\ selected' = [none EXCEPT ![m.comp] = m]
    <3>1. IF m = NULL THEN selected' = none ELSE selected' = [none EXCEPT ![m.comp] = m]
      BY <2>1 DEF DeselectNode, m
    <3>2. QED
      BY <2>4, <3>1
  <2> HIDE DEF none
  <2>6. m.comp = n.comp /\ selected'[n.comp] = m
    BY <2>3, <2>4, <2>5
  <2>7. IsFallback(m, n)
    BY <2>1, <2>3, <2>5, FallbackIs DEF m
  <2>8. QED
    BY <2>1, <2>2, <2>6, <2>7, FallbackAvoids
<1>2. QED
  BY <1>1, AlwaysSettled, AlwaysChosen, AlwaysDeep, PTL DEF GivenUpStaysOut, Spec
=============================================================================
