--------------------------- MODULE RotationProofs ---------------------------
(***************************************************************************)
(* No mirror is passed over: the walk of get_next_url() takes the mirrors  *)
(* in turn, so that the number of others handed out since one was is never *)
(* more than the distance the walk has come from it.                       *)
(***************************************************************************)
EXTENDS MirrorRotation, MirrorSetProofs

(* How far the walk has come from position k, going round.                 *)
Come(k) ==
  IF current = 0 THEN 0
  ELSE IF k <= current THEN current - k ELSE current - k + Len(list)

RotationInv ==
  /\ passed \in [Mirrors -> Nat]
  /\ \A k \in 1..Len(list) : passed[list[k]] <= Come(k)

(* The next mirror is further from every other that has not failed, but    *)
(* not round to it: that one would have been nearer.                       *)
LEMMA WalkPassesNone ==
  ASSUME NEW n \in Nat, n = Len(list), current \in 0..n, NEW k \in 1..n, NEW j \in 1..n,
         j # k, Distance(k) <= Distance(j), current' = k, Len(list') = n
  PROVE  Come(j)' >= Come(j) + 1
<1>1. CASE current = 0
  BY <1>1 DEF Come, Distance, FirstTried
<1>2. CASE current = n
  BY <1>2 DEF Come, Distance, FirstTried
<1>3. CASE current # 0 /\ current # n
  BY <1>3 DEF Come, Distance, FirstTried
<1>4. QED
  BY <1>1, <1>2, <1>3

LEMMA RequestPasses ==
  ASSUME ListInv, RotationInv, Request, CountsPassed, current' # 0
  PROVE  RotationInv'
<1> DEFINE n == Len(list)
<1>1. /\ list \in Seq(Mirrors) /\ current \in 0..n /\ n \in Nat
      /\ \A i, j \in 1..n : list[i] = list[j] => i = j
      /\ num_mirrors = n /\ \A i \in 1..n : status[list[i]] \in {URL_OK, URL_FAILED}
  BY DEF ListInv, MirrorTypeOK, NoMirrorLost
<1>2. /\ list' = list /\ status' = status /\ loaded'
      /\ \E k \in OkayPositions : /\ \A j \in OkayPositions : Distance(k) <= Distance(j)
                                  /\ current' = k
  BY <1>1 DEF Request, GetNextUrl, ListInv, MirrorTypeOK, NoMirrorLost
<1>3. PICK k \in OkayPositions : /\ \A j \in OkayPositions : Distance(k) <= Distance(j)
                                /\ current' = k
  BY <1>2
<1>4. k \in 1..n
  BY DEF OkayPositions
<1>5. passed' = [m \in Mirrors |->
                   IF status[m] = URL_FAILED \/ m = list[k] THEN 0 ELSE Count(passed[m])]
  BY <1>2, <1>3, <1>4 DEF CountsPassed
<1>6. \A m \in Mirrors : passed[m] \in Nat /\ Count(passed[m]) \in Nat /\ Count(passed[m]) <= passed[m] + 1
  BY <1>1 DEF RotationInv, Count
<1>7. ASSUME NEW j \in 1..n
      PROVE  passed'[list[j]] <= Come(j)'
  <2>1. list[j] \in Mirrors
    BY <1>1
  <2>2. Come(j)' \in Nat /\ Come(j) \in Nat
    BY <1>1, <1>2, <1>3, <1>4 DEF Come
  <2>3. CASE status[list[j]] = URL_FAILED \/ list[j] = list[k]
    BY <1>5, <2>1, <2>2, <2>3
  <2>4. CASE ~(status[list[j]] = URL_FAILED \/ list[j] = list[k])
    <3>1. j \in OkayPositions /\ j # k
      BY <1>1, <2>4 DEF OkayPositions
    <3>2. Come(j)' >= Come(j) + 1
      BY <1>1, <1>2, <1>3, <1>4, <3>1, WalkPassesNone
    <3>3. passed[list[j]] <= Come(j)
      BY DEF RotationInv
    <3>4. passed'[list[j]] = Count(passed[list[j]])
      BY <1>5, <2>1, <2>4
    <3>5. QED
      BY <1>6, <2>1, <2>2, <3>2, <3>3, <3>4
  <2>5. QED
    BY <2>3, <2>4
<1>8. QED
  BY <1>2, <1>5, <1>6, <1>7 DEF RotationInv

(* Any other step leaves list and walk alone, or begins a new count.       *)
LEMMA RotationStep ==
  ListInv /\ RotationInv /\ [RotationNext]_<<mirrorVars, passed>> => RotationInv'
<1> SUFFICES ASSUME ListInv, RotationInv, [RotationNext]_<<mirrorVars, passed>>
             PROVE  RotationInv'
  OBVIOUS
<1>1. CASE UNCHANGED <<mirrorVars, passed>>
  BY <1>1 DEF RotationInv, Come, mirrorVars
<1>2. ASSUME RotationNext PROVE RotationInv'
  <2>1. ListInv'
    BY <1>2, MirrorStepInv DEF RotationNext
  <2>2. /\ list \in Seq(Mirrors) /\ current \in 0..Len(list)
        /\ list' \in Seq(Mirrors) /\ current' \in 0..Len(list')
    BY <2>1 DEF ListInv, MirrorTypeOK, NoMirrorLost
  <2>3. \A k \in 1..Len(list') : Come(k)' \in Nat /\ list'[k] \in Mirrors
    <3> SUFFICES ASSUME NEW k \in 1..Len(list')
                 PROVE  Come(k)' \in Nat /\ list'[k] \in Mirrors
      OBVIOUS
    <3>1. list'[k] \in Mirrors
      BY <2>2
    <3>2. /\ Len(list') \in Nat /\ current' \in Nat /\ k \in Nat
          /\ k <= Len(list') /\ current' <= Len(list')
      BY <2>2
    <3>3. Come(k)' \in Nat
      <4> DEFINE n == Len(list')
      <4>1. Come(k)' = IF current' = 0 THEN 0
                       ELSE IF k <= current' THEN current' - k ELSE current' - k + n
        BY DEF Come
      <4> HIDE DEF n
      <4>2. n \in Nat /\ k <= n
        BY <3>2 DEF n
      <4>3. QED
        <5> DEFINE c == current'
        <5>1. c \in Nat
          BY <3>2
        <5>2. Come(k)' = IF c = 0 THEN 0 ELSE IF k <= c THEN c - k ELSE c - k + n
          BY <4>1
        <5> HIDE DEF c
        <5>3. QED
          BY <3>2, <4>2, <5>1, <5>2
    <3>4. QED
      BY <3>1, <3>3
  <2> DEFINE Afresh == list' # list \/ ~loaded' \/ (current' = 0 /\ current # 0)
  <2>4. CASE Afresh
    <3>1. passed' = [m \in Mirrors |-> 0]
      BY <1>2, <2>4 DEF RotationNext, CountsPassed
    <3>2. QED
      BY <2>3, <3>1 DEF RotationInv
  <2>5. CASE ~Afresh /\ Request
    <3>1. CASE current' # 0
      BY <1>2, <2>5, <3>1, RequestPasses DEF RotationNext
    <3>2. CASE current' = 0
      <4>1. passed' = [m \in Mirrors |-> IF status'[m] = URL_FAILED THEN 0 ELSE passed[m]]
        BY <1>2, <2>5, <3>2 DEF RotationNext, CountsPassed
      <4>2. current = 0 /\ list' = list
        BY <2>5, <3>2
      <4>3. \A k \in 1..Len(list) : passed[list[k]] <= 0
        BY <4>2 DEF RotationInv, Come
      <4>4. QED
        BY <2>3, <3>2, <4>1, <4>2, <4>3 DEF RotationInv, Come
    <3>3. QED
      BY <3>1, <3>2
  <2>6. CASE ~Afresh /\ ~Request
    <3>1. passed' = [m \in Mirrors |-> IF status'[m] = URL_FAILED THEN 0 ELSE passed[m]]
      BY <1>2, <2>6 DEF RotationNext, CountsPassed
    <3>2. list' = list /\ loaded' /\ (current' = 0 => current = 0)
      BY <2>6
    <3>3. current' = current
      BY <1>2, <2>2, <2>6, <3>2
         DEF RotationNext, MirrorNext, Load, Loaded, Shuffle, Request, Report, Prefer, Save,
             Reload, AddUrl, RandomizeUrls, SetUrlStatus, SetPreferredUrl,
             SavePreferredUrl, RecreateUrlset
    <3>4. QED
      BY <2>3, <3>1, <3>2, <3>3 DEF RotationInv, Come
  <2>7. QED
    BY <2>4, <2>5, <2>6
<1>3. QED
  BY <1>1, <1>2

(* A mirror that has not failed is handed out before any other is handed   *)
(* out a second time, for a list of any length (urlset.c:186-231).         *)
THEOREM RotationIsFair == RotationSpec => []FairRotation
<1>1. RotationInit => ListInv /\ RotationInv
  BY MirrorInitInv DEF RotationInit, MirrorInit, EmptyUrlset, RotationInv
<1>2. ListInv /\ [RotationNext]_<<mirrorVars, passed>> => ListInv'
  BY MirrorStepInv DEF RotationNext, mirrorVars
<1>3. ListInv /\ RotationInv => FairRotation
  <2> SUFFICES ASSUME ListInv, RotationInv, NEW k \in 1..Len(list)
               PROVE  passed[list[k]] < Len(list)
    BY DEF FairRotation, Listed
  <2>1. /\ current \in 0..Len(list) /\ Len(list) \in Nat /\ passed[list[k]] \in Nat
        /\ passed[list[k]] <= Come(k)
    BY DEF ListInv, MirrorTypeOK, NoMirrorLost, RotationInv
  <2>2. QED
    BY <2>1 DEF Come
<1>4. QED
  BY <1>1, <1>2, <1>3, RotationStep, PTL DEF RotationSpec
=============================================================================
