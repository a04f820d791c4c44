-------------------------- MODULE MirrorSetProofs --------------------------
(***************************************************************************)
(* Invariance proofs for the set of mirrors, for any mirrors, hosts and    *)
(* length of the list.  The lemmas on the single operations are also used  *)
(* by the specifications that call them.                                   *)
(***************************************************************************)
EXTENDS MirrorSet, TLAPS

(* A shuffled list has the mirrors of the list, each once, and begins with *)
(* those on the local disk (urlset.c:129-182).                             *)
LEMMA ShuffleIsPermutation ==
  ASSUME NEW urls \in Seq(Mirrors), NEW site, NEW o \in Shuffles(urls, site)
  PROVE  /\ o \in Seq(Mirrors)
         /\ Len(o) = Len(urls)
         /\ \A i, j \in 1..Len(o) : o[i] = o[j] => i = j
         /\ \A i, j \in 1..Len(o) :
              IsLocal(o[j]) /\ i < j => IsLocal(o[i])
<1>1. o \in [1..Len(urls) -> Mirrors]
  BY DEF Shuffles
<1>2. o \in Seq(Mirrors) /\ Len(o) = Len(urls)
  BY <1>1
<1>3. \A i, j \in 1..Len(o) : o[i] = o[j] => i = j
  BY <1>2 DEF Shuffles
<1>4. ASSUME NEW i \in 1..Len(o), NEW j \in 1..Len(o), i < j, IsLocal(o[j])
      PROVE  IsLocal(o[i])
  <2>1. Class(o[i], site) <= Class(o[j], site)
    BY <1>2, <1>4 DEF Shuffles
  <2>2. Class(o[j], site) = 0
    BY <1>4 DEF Class
  <2>3. QED
    BY <2>1, <2>2 DEF Class
<1>5. QED
  BY <1>2, <1>3, <1>4

(* add_url() at the tail keeps every mirror that was added before.         *)
LEMMA AddUrlKeeps ==
  ASSUME MirrorTypeOK, NoMirrorLost, NEW m \in Mirrors, Load(m)
  PROVE  MirrorTypeOK' /\ NoMirrorLost'
<1>1. /\ list \in Seq(Mirrors) /\ current = Len(list) /\ ~loaded
      /\ \A k \in 1..Len(list) : list[k] # m
  BY DEF Load, Listed, NoMirrorLost, MirrorTypeOK
<1>2. SubSeq(list, 1, current) = list
  BY <1>1
<1>3. list' = list \o <<m>>
  BY <1>2, Zenon DEF Load, AddUrl
<1>4. /\ list' \in Seq(Mirrors) /\ Len(list') = Len(list) + 1
      /\ \A k \in 1..Len(list) : list'[k] = list[k]
      /\ list'[Len(list) + 1] = m
  BY <1>1, <1>3
<1>5. \A i, j \in 1..Len(list') : list'[i] = list'[j] => i = j
  BY <1>1, <1>4 DEF NoMirrorLost
<1>6. MirrorTypeOK'
  BY <1>1, <1>4 DEF MirrorTypeOK, Load, AddUrl, URL_OK
<1>7. NoMirrorLost'
  BY <1>1, <1>4, <1>5 DEF NoMirrorLost, MirrorTypeOK, Load, AddUrl
<1>8. QED
  BY <1>6, <1>7

(* randomize_urls() relinks all of the list, or leaves it alone.           *)
LEMMA RandomizeKeeps ==
  ASSUME MirrorTypeOK, NoMirrorLost, RandomizeUrls, loaded' = TRUE
  PROVE  /\ MirrorTypeOK'
         /\ NoMirrorLost'
         /\ num_mirrors >= 2 => DiskBeforeNetwork'
<1>1. CASE num_mirrors < 2
  BY <1>1 DEF RandomizeUrls, MirrorTypeOK, NoMirrorLost
<1>2. CASE num_mirrors >= 2
  <2>1. /\ list' \in Shuffles(list, preferred_site) /\ current' = 0
        /\ status' = AllOK
    BY <1>2 DEF RandomizeUrls, MirrorTypeOK
  <2>2. /\ list' \in Seq(Mirrors) /\ Len(list') = Len(list)
        /\ \A i, j \in 1..Len(list') : list'[i] = list'[j] => i = j
        /\ \A i, j \in 1..Len(list') :
             IsLocal(list'[j]) /\ i < j => IsLocal(list'[i])
    BY <2>1, ShuffleIsPermutation DEF MirrorTypeOK
  <2>3. MirrorTypeOK'
    BY <2>1, <2>2 DEF RandomizeUrls, MirrorTypeOK, AllOK, URL_OK
  <2>4. NoMirrorLost'
    BY <2>1, <2>2 DEF RandomizeUrls, NoMirrorLost
  <2>5. DiskBeforeNetwork'
    BY <2>2 DEF DiskBeforeNetwork, IsLocal
  <2>6. QED
    BY <2>3, <2>4, <2>5
<1>3. QED
  BY <1>1, <1>2 DEF MirrorTypeOK

(* get_next_url() moves the current pointer only, to a mirror that has not *)
(* failed, or to NULL when there is no such mirror.                        *)
LEMMA GetNextUrlKeeps ==
  ASSUME MirrorTypeOK, NoMirrorLost, loaded, GetNextUrl
  PROVE  /\ MirrorTypeOK'
         /\ NoMirrorLost'
         /\ UNCHANGED <<num_mirrors, list, status, preferred_site,
                        preferred_file, loaded>>
         /\ current' = 0 => \A m \in Listed : status[m] = URL_FAILED
         /\ current' # 0 => /\ current' \in 1..Len(list)
                            /\ status[list[current']] = URL_OK
<1>1. /\ list \in Seq(Mirrors) /\ num_mirrors = Len(list)
      /\ \A k \in 1..Len(list) : list[k] \in Mirrors
  BY DEF MirrorTypeOK, NoMirrorLost
<1>2. UNCHANGED <<num_mirrors, list, status, preferred_site, preferred_file,
                  loaded>>
  BY DEF GetNextUrl
<1>3. CASE num_mirrors = 0
  <2>1. Len(list) = 0 /\ current = 0 /\ current' = 0 /\ full_url' = full_url
    BY <1>1, <1>3 DEF GetNextUrl, MirrorTypeOK, NoMirrorLost
  <2>2. QED
    BY <1>1, <1>2, <2>1 DEF MirrorTypeOK, NoMirrorLost, Listed
<1>4. CASE num_mirrors # 0 /\ OkayPositions = {}
  <2>1. current' = 0 /\ full_url' = full_url
    BY <1>4 DEF GetNextUrl
  <2>2. \A k \in 1..Len(list) : status[list[k]] = URL_FAILED
    BY <1>1, <1>4 DEF OkayPositions, MirrorTypeOK
  <2>3. QED
    BY <1>1, <1>2, <2>1, <2>2 DEF MirrorTypeOK, NoMirrorLost, Listed
<1>5. CASE num_mirrors # 0 /\ OkayPositions # {}
  <2>1. PICK k \in OkayPositions : current' = k /\ full_url' = list[k]
    BY <1>5 DEF GetNextUrl
  <2>2. k \in 1..Len(list) /\ status[list[k]] = URL_OK
    BY DEF OkayPositions
  <2>3. QED
    BY <1>1, <1>2, <2>1, <2>2 DEF MirrorTypeOK, NoMirrorLost
<1>6. QED
  BY <1>3, <1>4, <1>5

(* set_url_status() touches one status.                                    *)
LEMMA SetUrlStatusKeeps ==
  ASSUME MirrorTypeOK, NoMirrorLost, SetUrlStatus(URL_FAILED)
  PROVE  /\ MirrorTypeOK'
         /\ NoMirrorLost'
         /\ UNCHANGED <<num_mirrors, list, current, preferred_site,
                        preferred_file, full_url, loaded>>
<1>1. current # 0 => list[current] \in Mirrors
  BY DEF MirrorTypeOK, NoMirrorLost
<1>2. QED
  BY <1>1 DEF SetUrlStatus, MirrorTypeOK, NoMirrorLost, URL_FAILED

(* A whole load leaves a consistent list of the mirrors it was given.      *)
LEMMA LoadUrlsKeeps ==
  ASSUME MirrorTypeOK, NEW urls \in Seq(Mirrors), LoadUrls(urls),
         \A i, j \in 1..Len(urls) : urls[i] = urls[j] => i = j
  PROVE  MirrorTypeOK' /\ NoMirrorLost' /\ loaded'
<1>1. CASE Len(urls) < 2
  BY <1>1 DEF LoadUrls, MirrorTypeOK, NoMirrorLost, AllOK, URL_OK
<1>2. CASE ~(Len(urls) < 2)
  <2>1. /\ list' \in Shuffles(urls, preferred_file) /\ current' = 0
        /\ num_mirrors' = Len(urls)
    BY <1>2 DEF LoadUrls
  <2>2. /\ list' \in Seq(Mirrors) /\ Len(list') = Len(urls)
        /\ \A i, j \in 1..Len(list') : list'[i] = list'[j] => i = j
    BY <2>1, ShuffleIsPermutation
  <2>3. QED
    BY <2>1, <2>2 DEF LoadUrls, MirrorTypeOK, NoMirrorLost, AllOK, URL_OK
<1>3. QED
  BY <1>1, <1>2

-----------------------------------------------------------------------------
(***************************************************************************)
(* The callers' protocol keeps the list whole: add_url() only while the    *)
(* current pointer is at the tail, randomize_urls() once after.            *)
(***************************************************************************)
ListInv == MirrorTypeOK /\ NoMirrorLost /\ DiskBeforeNetwork

(* A list without mirrors is a list of mirrors.                            *)
LEMMA EmptyList == << >> \in Seq(Mirrors) /\ Len(<< >>) = 0
OBVIOUS

(* reset_urlset() gives every mirror a status.                             *)
LEMMA AllOKType == AllOK \in [Mirrors -> {URL_OK, URL_FAILED}]
BY DEF AllOK

(* A set that was just created is consistent.                              *)
LEMMA MirrorInitInv == MirrorInit => ListInv
<1> SUFFICES ASSUME NEW site \in Hosts \union {NULL}, EmptyUrlset(site)
             PROVE  ListInv
  BY DEF MirrorInit
<1>1. MirrorTypeOK
  BY EmptyList, AllOKType DEF EmptyUrlset, MirrorTypeOK
<1>2. NoMirrorLost /\ DiskBeforeNetwork
  BY EmptyList DEF EmptyUrlset, NoMirrorLost, DiskBeforeNetwork
<1>3. QED
  BY <1>1, <1>2 DEF ListInv

(* Every operation of the set keeps it consistent.                         *)
LEMMA MirrorStepInv == ListInv /\ [MirrorNext]_mirrorVars => ListInv'
<1> SUFFICES ASSUME ListInv, [MirrorNext]_mirrorVars
             PROVE  ListInv'
  OBVIOUS
<1> USE DEF ListInv
<1>1. ASSUME NEW m \in Mirrors, Load(m)
      PROVE  ListInv'
  <2>1. ~loaded'
    BY <1>1 DEF Load, AddUrl
  <2>2. QED
    BY <1>1, <2>1, AddUrlKeeps DEF DiskBeforeNetwork
<1>2. CASE Loaded
  <2>1. MirrorTypeOK' /\ NoMirrorLost'
    BY <1>2, RandomizeKeeps DEF Loaded
  <2>2. CASE num_mirrors >= 2
    BY <1>2, <2>2, RandomizeKeeps, <2>1 DEF Loaded
  <2>3. CASE ~(num_mirrors >= 2)
    <3>1. num_mirrors' = num_mirrors
      BY <1>2 DEF Loaded, RandomizeUrls
    <3>2. Len(list') < 2 /\ Len(list') \in Nat
      BY <2>1, <2>3, <3>1 DEF NoMirrorLost, MirrorTypeOK
    <3>3. QED
      BY <2>1, <3>2 DEF DiskBeforeNetwork
  <2>4. QED
    BY <2>1, <2>2, <2>3
<1>3. CASE Shuffle
  <2>1. MirrorTypeOK' /\ NoMirrorLost' /\ num_mirrors' = num_mirrors
    BY <1>3, RandomizeKeeps DEF Shuffle, RandomizeUrls, MirrorTypeOK
  <2>2. CASE num_mirrors >= 2
    BY <1>3, <2>2, RandomizeKeeps, <2>1 DEF Shuffle
  <2>3. CASE ~(num_mirrors >= 2)
    <3>1. Len(list') < 2 /\ Len(list') \in Nat
      BY <2>1, <2>3 DEF NoMirrorLost, MirrorTypeOK
    <3>2. QED
      BY <2>1, <3>1 DEF DiskBeforeNetwork
  <2>4. QED
    BY <2>1, <2>2, <2>3
<1>4. CASE Request
  <2>1. /\ MirrorTypeOK' /\ NoMirrorLost'
        /\ list' = list /\ loaded' = loaded
    BY <1>4, GetNextUrlKeeps DEF Request
  <2>2. QED
    BY <2>1 DEF DiskBeforeNetwork
<1>5. CASE Report
  <2>1. /\ MirrorTypeOK' /\ NoMirrorLost'
        /\ list' = list /\ loaded' = loaded
    BY <1>5, SetUrlStatusKeeps DEF Report
  <2>2. QED
    BY <2>1 DEF DiskBeforeNetwork
<1>6. CASE Prefer
  <2>1. preferred_site' \in Hosts \union {NULL}
    BY <1>6, HostAssumption DEF Prefer, SetPreferredUrl, MirrorTypeOK
  <2>2. QED
    BY <1>6, <2>1
       DEF Prefer, SetPreferredUrl, MirrorTypeOK, NoMirrorLost,
           DiskBeforeNetwork
<1>7. CASE Save
  BY <1>7
     DEF Save, SavePreferredUrl, MirrorTypeOK, NoMirrorLost, DiskBeforeNetwork
<1>8. CASE Reload
  <2>1. /\ num_mirrors' = 0 /\ list' = << >> /\ current' = 0
        /\ status' = AllOK /\ preferred_site' = preferred_file
        /\ preferred_file' = preferred_file
        /\ full_url' = NULL /\ loaded' = FALSE
    BY <1>8 DEF Reload, RecreateUrlset
  <2>2. MirrorTypeOK'
    BY <2>1, EmptyList, AllOKType DEF MirrorTypeOK
  <2>3. NoMirrorLost' /\ DiskBeforeNetwork'
    BY <2>1, EmptyList DEF NoMirrorLost, DiskBeforeNetwork
  <2>4. QED
    BY <2>2, <2>3
<1>9. CASE UNCHANGED mirrorVars
  BY <1>9 DEF mirrorVars, MirrorTypeOK, NoMirrorLost, DiskBeforeNetwork
<1>10. QED
  BY <1>1, <1>2, <1>3, <1>4, <1>5, <1>6, <1>7, <1>8, <1>9 DEF MirrorNext

(* Type correctness of the set of mirrors (urlset.h:24-42).                *)
THEOREM MirrorTypeCorrect == MirrorSpec => []MirrorTypeOK
<1>1. ListInv => MirrorTypeOK
  BY DEF ListInv
<1>2. QED
  BY MirrorInitInv, MirrorStepInv, <1>1, PTL DEF MirrorSpec

(* No mirror of the update list is ever lost or listed twice, in however   *)
(* many loads, shuffles and requests (urlset.c:62-80, 112-184).            *)
THEOREM MirrorsKept == MirrorSpec => []NoMirrorLost
<1>1. ListInv => NoMirrorLost
  BY DEF ListInv
<1>2. QED
  BY MirrorInitInv, MirrorStepInv, <1>1, PTL DEF MirrorSpec

(* A copy on the local disk is always tried before the network             *)
(* (urlset.c:129-138).                                                     *)
THEOREM DiskFirst == MirrorSpec => []DiskBeforeNetwork
<1>1. ListInv => DiskBeforeNetwork
  BY DEF ListInv
<1>2. QED
  BY MirrorInitInv, MirrorStepInv, <1>1, PTL DEF MirrorSpec

(* Until a list is loaded the preferred site is the one that was saved:    *)
(* only the user prefers another, and only of the mirrors of a list.       *)
SavedSitePreferred == ~loaded => preferred_site = preferred_file

LEMMA SavedSiteKept ==
  SavedSitePreferred /\ [MirrorNext]_mirrorVars => SavedSitePreferred'
<1> SUFFICES ASSUME SavedSitePreferred, [MirrorNext]_mirrorVars
             PROVE  SavedSitePreferred'
  OBVIOUS
<1>1. CASE \E m \in Mirrors : Load(m)
  BY <1>1 DEF SavedSitePreferred, Load, AddUrl
<1>2. CASE Loaded
  BY <1>2 DEF SavedSitePreferred, Loaded
<1>3. CASE Shuffle \/ Request \/ Report \/ Prefer \/ Save
  <2>1. loaded /\ loaded' = loaded
    BY <1>3 DEF Shuffle, Request, GetNextUrl, Report, SetUrlStatus, Prefer,
                SetPreferredUrl, Save, SavePreferredUrl
  <2>2. QED
    BY <2>1 DEF SavedSitePreferred
<1>4. CASE Reload
  BY <1>4 DEF SavedSitePreferred, Reload, RecreateUrlset
<1>5. CASE UNCHANGED mirrorVars
  BY <1>5 DEF SavedSitePreferred, mirrorVars
<1>6. QED
  BY <1>1, <1>2, <1>3, <1>4, <1>5 DEF MirrorNext

(* After a load the mirrors on the saved site come before every other but  *)
(* the copies on the disk (urlset.c:129-182).                              *)
THEOREM SavedSiteIsFirst == MirrorSpec => SavedSiteFirst
<1> DEFINE Step ==
      Loaded =>
        \A i, j \in 1..Len(list') : i < j =>
          Class(list'[i], preferred_file) <= Class(list'[j], preferred_file)
<1>1. ListInv /\ SavedSitePreferred => [Step]_mirrorVars
  <2> SUFFICES ASSUME ListInv, SavedSitePreferred, Loaded,
                      NEW i \in 1..Len(list'), NEW j \in 1..Len(list'), i < j
               PROVE  Class(list'[i], preferred_file) <= Class(list'[j], preferred_file)
    OBVIOUS
  <2>1. /\ preferred_site = preferred_file /\ RandomizeUrls
        /\ list \in Seq(Mirrors) /\ num_mirrors = Len(list)
    BY DEF Loaded, SavedSitePreferred, ListInv, MirrorTypeOK, NoMirrorLost
  <2>2. CASE num_mirrors < 2
    <3>1. list' = list
      BY <2>1, <2>2 DEF RandomizeUrls
    <3>2. QED
      BY <2>1, <2>2, <3>1
  <2>3. CASE num_mirrors >= 2
    <3>1. list' \in Shuffles(list, preferred_file)
      BY <2>1, <2>3 DEF RandomizeUrls
    <3>2. Len(list') = Len(list)
      BY <2>1, <3>1, ShuffleIsPermutation
    <3>3. QED
      BY <3>1, <3>2 DEF Shuffles
  <2>4. QED
    BY <2>1, <2>2, <2>3
<1>2. MirrorInit => SavedSitePreferred
  BY DEF MirrorInit, EmptyUrlset, SavedSitePreferred
<1>3. QED
  BY MirrorInitInv, MirrorStepInv, SavedSiteKept, <1>1, <1>2, PTL
     DEF MirrorSpec, SavedSiteFirst
=============================================================================
