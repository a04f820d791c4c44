-------------------------- MODULE TtyUpdateProofs --------------------------
(***************************************************************************)
(* Invariance proofs for the terminal interface, for any number of         *)
(* components, patches, mirrors and runs.                                  *)
(***************************************************************************)
EXTENDS TtyUpdate, MirrorSetProofs, FiniteSetTheorems

(* Where a patch is being fetched, checked or executed, and where the      *)
(* cursor is on a path.                                                    *)
Working  == {"mirror", "update", "sig", "gpg", "md5", "verdict", "perform", "reap"}
OnPath   == Working \union {"select"}

(***************************************************************************)
(* The inductive invariant.  RunsInOrder says nothing of the states before *)
(* the patch is executed, so it is strengthened to where the cursor is on  *)
(* its path and how far the database has come there; CheckedMeansIntact    *)
(* to what is known of the archive at each check.                          *)
(***************************************************************************)
(* The cursor is on the path of its component, every patch flagged as      *)
(* installed is at or behind it, and nothing ahead has been touched.       *)
CursorInv ==
  /\ pc \in OnPath =>
       /\ update_patch \in Patches
       /\ cursor.root = update_patch[1]
       /\ base[update_patch[1]] < update_patch[2]
       /\ update_patch[2] <= cursor.last
       /\ cursor.last <= Top[update_patch[1]]
       /\ \A p \in installed :
            p[1] < cursor.root \/ (p[1] = cursor.root /\ p[2] <= update_patch[2])
       /\ \A q \in Roots : q > cursor.root =>
            /\ db[q] = base[q]
            /\ selected[q] # 0 => selected[q] \in base[q] + 1 .. Top[q]
  /\ pc \in Working => update_patch \in installed

(* The database has every patch of the path before the current one, and    *)
(* that one too once its program has succeeded.                            *)
CurrentDone ==
  \/ pc = "reap" /\ exit = "ok"
  \/ pc = "select" /\ update_patch \in installed

VersionInv ==
  /\ pc \in OnPath =>
       db[update_patch[1]] =
         IF CurrentDone THEN update_patch[2] ELSE update_patch[2] - 1
  /\ pc = "list" => db = base /\ installed = {}

(* What is known of the archive at each point of the loop.                 *)
ArchiveInv ==
  /\ pc \in {"mirror", "update", "sig", "gpg", "md5"} => evidence = "none"
  /\ pc \in {"sig", "gpg", "md5"} =>
       verified = "VERIFY_UNKNOWN" /\ file[update_patch] # "none"
  /\ pc = "mirror" => verified \in {"DOWNLOAD_FAILED", "VERIFY_FAILED"}
  /\ pc \in {"verdict", "perform"} =>
       /\ evidence # "none" => file[update_patch] = "full"
       /\ verified = "VERIFY_OK" => evidence = "gpg"
       /\ verified \in {"VERIFY_OK", "VERIFY_UNKNOWN"} =>
            file[update_patch] # "none"
  /\ pc = "perform" => verified \in {"VERIFY_OK", "VERIFY_UNKNOWN"}

(* The mirrors are loaded while patches are fetched.                       *)
MirrorsInv ==
  /\ NoMirrorLost
  /\ pc \in OnPath => loaded

TtyInv ==
  /\ TtyTypeOK
  /\ CursorInv
  /\ VersionInv
  /\ ArchiveInv
  /\ MirrorsInv
  /\ GivesUpLast

-----------------------------------------------------------------------------
(* A patch is a component and one of its versions ...                      *)
LEMMA PatchType ==
  ASSUME NEW p \in Patches
  PROVE  /\ p[1] \in Roots /\ p[2] \in 1..Top[p[1]] /\ p = <<p[1], p[2]>>
         /\ Top[p[1]] \in Nat
BY TtyAssumption DEF Patches, Roots

(* ... and every such pair is a patch.                                     *)
LEMMA PatchIntro ==
  ASSUME NEW r \in Roots, NEW k \in 1..Top[r]
  PROVE  <<r, k>> \in Patches
BY DEF Patches

(* The NULL pointer is no patch.                                           *)
LEMMA NoPatchNotIn == NoPatch \notin Patches
BY PatchType DEF NoPatch, Roots

(* A step that leaves the mirrors alone keeps what is known of them.       *)
LEMMA MirrorsUnchanged ==
  ASSUME UNCHANGED mirrorVars
  PROVE  /\ MirrorTypeOK => MirrorTypeOK'
         /\ NoMirrorLost => NoMirrorLost'
         /\ Listed' = Listed /\ status' = status /\ loaded' = loaded
BY DEF mirrorVars, MirrorTypeOK, NoMirrorLost, Listed

(* The parts of the type invariant that are not the mirrors'.              *)
ProcessTypeOK ==
  /\ db \in [Roots -> Nat] /\ \A r \in Roots : db[r] <= Top[r]
  /\ base \in [Roots -> Nat] /\ selected \in [Roots -> Nat]
  /\ \A r \in Roots : selected[r] <= Top[r]
  /\ file \in [Patches -> Contents]
  /\ pc \in Points
  /\ cursor \in [root : Nat, last : Nat]
  /\ update_patch \in Patches \union {NoPatch}
  /\ installed \subseteq Patches
  /\ verified \in Verdicts
  /\ evidence \in {"none", "gpg", "md5"}
  /\ rekeyed \in BOOLEAN
  /\ exit \in {"ok", "error"}
  /\ update_status \in Int
  /\ runs \in Nat

(* The mirrors' types are apart from those of the process.                 *)
LEMMA TypeParts == TtyTypeOK <=> MirrorTypeOK /\ ProcessTypeOK
BY DEF TtyTypeOK, ProcessTypeOK

(* The values everything has when a process starts.                        *)
LEMMA StartValues ==
  /\ [r \in Roots |-> 0] \in [Roots -> Nat]
  /\ \A r \in Roots : 0 <= Top[r]
  /\ [p \in Patches |-> "none"] \in [Patches -> Contents]
  /\ NoCursor \in [root : Nat, last : Nat]
<1>1. \A r \in Roots : 0 <= Top[r]
  BY TtyAssumption DEF Roots
<1>2. [p \in Patches |-> "none"] \in [Patches -> Contents]
  BY DEF Contents
<1>3. NoCursor \in [root : Nat, last : Nat]
  BY DEF NoCursor
<1>4. QED
  BY <1>1, <1>2, <1>3

-----------------------------------------------------------------------------
(* The initial state.                                                      *)
LEMMA TtyInitInv == Init => TtyInv
<1> SUFFICES ASSUME Init PROVE TtyInv
  OBVIOUS
<1>1. MirrorTypeOK /\ NoMirrorLost
  BY MirrorInitInv DEF Init, ListInv
<1>2. ProcessTypeOK
  <2>1. /\ \A r \in Roots : [q \in Roots |-> 0][r] = 0
        /\ "idle" \in Points
    BY DEF Points, Outside
  <2>2. /\ db \in [Roots -> Nat] /\ \A r \in Roots : db[r] <= Top[r]
        /\ base \in [Roots -> Nat] /\ selected \in [Roots -> Nat]
        /\ \A r \in Roots : selected[r] <= Top[r]
    BY <2>1, StartValues DEF Init, ProcessInit
  <2>3. /\ file \in [Patches -> Contents]
        /\ pc \in Points
        /\ cursor \in [root : Nat, last : Nat]
        /\ update_patch \in Patches \union {NoPatch}
        /\ installed \subseteq Patches
    BY <2>1, StartValues DEF Init, ProcessInit
  <2>4. /\ verified \in Verdicts
        /\ evidence \in {"none", "gpg", "md5"}
        /\ exit \in {"ok", "error"}
        /\ update_status \in Int
        /\ runs \in Nat
    BY DEF Init, ProcessInit, Verdicts
  <2>5. rekeyed \in BOOLEAN
    BY Zenon DEF Init, ProcessInit
  <2>6. QED
    BY <2>2, <2>3, <2>4, <2>5 DEF ProcessTypeOK
<1>3. CursorInv /\ VersionInv /\ ArchiveInv /\ MirrorsInv /\ GivesUpLast
  BY <1>1
     DEF Init, ProcessInit, CursorInv, VersionInv, ArchiveInv, MirrorsInv,
         GivesUpLast, Working, OnPath
<1>4. QED
  BY <1>1, <1>2, <1>3, TypeParts DEF TtyInv

(* A new run forgets everything but the database and the files.            *)
LEMMA StartRunInv ==
  ASSUME TtyInv, StartRun
  PROVE  TtyInv'
<1>1. MirrorTypeOK' /\ NoMirrorLost'
  <2>1. /\ num_mirrors' = 0 /\ list' = << >> /\ current' = 0
        /\ status' = AllOK /\ preferred_site' = preferred_file
        /\ preferred_file' = preferred_file
        /\ full_url' = NULL /\ loaded' = FALSE
    BY DEF StartRun, RecreateUrlset
  <2>2. MirrorTypeOK'
    BY <2>1, EmptyList, AllOKType DEF MirrorTypeOK, TtyInv, TtyTypeOK
  <2>3. QED
    BY <2>1, <2>2, EmptyList DEF NoMirrorLost
<1>2. ProcessTypeOK'
  <2>1. /\ \A r \in Roots : [q \in Roots |-> 0][r] = 0
        /\ "list" \in Points
    BY DEF Points
  <2>2. ProcessTypeOK
    BY TypeParts DEF TtyInv
  <2>3. /\ db' \in [Roots -> Nat] /\ \A r \in Roots : db'[r] <= Top[r]
        /\ base' \in [Roots -> Nat] /\ selected' \in [Roots -> Nat]
        /\ \A r \in Roots : selected'[r] <= Top[r]
    BY <2>1, <2>2, StartValues DEF StartRun, ProcessTypeOK
  <2>4. /\ file' \in [Patches -> Contents]
        /\ pc' \in Points
        /\ cursor' \in [root : Nat, last : Nat]
        /\ update_patch' \in Patches \union {NoPatch}
        /\ installed' \subseteq Patches
    BY <2>1, <2>2, StartValues DEF StartRun, ProcessTypeOK
  <2>5. /\ verified' \in Verdicts
        /\ evidence' \in {"none", "gpg", "md5"}
        /\ exit' \in {"ok", "error"}
        /\ update_status' \in Int
        /\ runs' \in Nat
    BY <2>2 DEF StartRun, ProcessTypeOK, Verdicts
  <2>6. rekeyed' \in BOOLEAN
    BY Zenon DEF StartRun
  <2>7. QED
    BY <2>3, <2>4, <2>5, <2>6 DEF ProcessTypeOK
<1>3. /\ CursorInv' /\ VersionInv' /\ ArchiveInv' /\ MirrorsInv'
      /\ GivesUpLast'
  BY <1>1
     DEF StartRun, CursorInv, VersionInv, ArchiveInv, MirrorsInv,
         GivesUpLast, Working, OnPath
<1>4. QED
  BY <1>1, <1>2, <1>3, TypeParts DEF TtyInv, TtyTypeOK, ProcessTypeOK

(* A killed run leaves no position to keep.                                *)
LEMMA KilledInv ==
  ASSUME TtyInv, Killed
  PROVE  TtyInv'
<1>1. MirrorTypeOK' /\ NoMirrorLost'
  BY MirrorsUnchanged DEF Killed, TtyInv, TtyTypeOK, MirrorsInv
<1>2. ProcessTypeOK'
  BY DEF Killed, TtyInv, TtyTypeOK, ProcessTypeOK, Points, Outside
<1>3. /\ CursorInv' /\ VersionInv' /\ ArchiveInv' /\ MirrorsInv'
      /\ GivesUpLast'
  BY <1>1
     DEF Killed, CursorInv, VersionInv, ArchiveInv, MirrorsInv,
         GivesUpLast, Working, OnPath
<1>4. QED
  BY <1>1, <1>2, <1>3 DEF TtyInv, TtyTypeOK, ProcessTypeOK

(* A run without a list is over.                                           *)
LEMMA ListFailsInv ==
  ASSUME TtyInv, ListFails
  PROVE  TtyInv'
<1>1. MirrorTypeOK' /\ NoMirrorLost'
  BY MirrorsUnchanged DEF ListFails, TtyInv, TtyTypeOK, MirrorsInv
<1>2. ProcessTypeOK'
  BY DEF ListFails, TtyInv, TtyTypeOK, ProcessTypeOK, Points, Outside
<1>3. /\ CursorInv' /\ VersionInv' /\ ArchiveInv' /\ MirrorsInv'
      /\ GivesUpLast'
  BY <1>1
     DEF ListFails, CursorInv, VersionInv, ArchiveInv, MirrorsInv,
         GivesUpLast, Working, OnPath
<1>4. QED
  BY <1>1, <1>2, <1>3 DEF TtyInv, TtyTypeOK, ProcessTypeOK

(* The first path begins one version above what is installed.              *)
LEMMA ListArrivesInv ==
  ASSUME TtyInv, ListArrives
  PROVE  TtyInv'
<1> USE DEF TtyInv
<1>1. MirrorTypeOK' /\ NoMirrorLost' /\ loaded'
  BY LoadUrlsKeeps, TtyAssumption DEF ListArrives, TtyTypeOK
<1>2. /\ pc = "list" /\ db = base /\ installed = {}
      /\ db \in [Roots -> Nat] /\ base \in [Roots -> Nat]
  BY DEF ListArrives, VersionInv, TtyTypeOK
<1>3. /\ selected' \in [Roots -> Nat]
      /\ \A r \in Roots : selected'[r] # 0 => selected'[r] \in base[r] + 1 .. Top[r]
  <2>1. PICK offer \in [Roots -> {0} \union {p[2] : p \in Patches}] :
           /\ \A r \in Roots : offer[r] # 0 => offer[r] \in base[r] + 1 .. Top[r]
           /\ selected' = offer
    BY DEF ListArrives
  <2>2. {p[2] : p \in Patches} \subseteq Nat
    BY PatchType
  <2>3. QED
    BY <2>1, <2>2
<1>4. \A r \in Roots : selected'[r] <= Top[r]
  BY <1>3, TtyAssumption DEF Roots
<1>5. CASE \A r \in Roots : selected'[r] = 0
  <2>1. update_patch' = NoPatch /\ cursor' = NoCursor /\ pc' = "done"
    BY <1>5 DEF ListArrives, ResetSelectedUpdate
  <2>2. ProcessTypeOK'
    BY <1>3, <1>4, <2>1
       DEF ListArrives, TtyTypeOK, ProcessTypeOK, NoCursor, Points, Outside
  <2>3. /\ CursorInv' /\ VersionInv' /\ ArchiveInv' /\ MirrorsInv'
        /\ GivesUpLast'
    BY <1>1, <2>1
       DEF CursorInv, VersionInv, ArchiveInv, MirrorsInv, GivesUpLast,
           Working, OnPath
  <2>4. QED
    BY <1>1, <2>2, <2>3 DEF TtyTypeOK, ProcessTypeOK
<1>6. CASE ~ \A r \in Roots : selected'[r] = 0
  <2>1. PICK r \in Roots :
           /\ selected'[r] # 0
           /\ update_patch' = <<r, base[r] + 1>>
           /\ cursor' = [root |-> r, last |-> selected'[r]]
    BY <1>6 DEF ListArrives, ResetSelectedUpdate
  <2>2. /\ base[r] + 1 \in 1..Top[r] /\ base[r] + 1 <= selected'[r]
        /\ selected'[r] \in Nat /\ r \in Nat
    BY <1>2, <1>3, <2>1, TtyAssumption DEF Roots
  <2>3. update_patch' \in Patches
    BY <2>1, <2>2, PatchIntro
  <2>4. pc' = "select"
    BY <2>3, NoPatchNotIn DEF ListArrives
  <2>5. ProcessTypeOK'
    BY <1>3, <1>4, <2>1, <2>2, <2>3, <2>4
       DEF ListArrives, TtyTypeOK, ProcessTypeOK, Points
  <2>6. CursorInv'
    <3>1. UNCHANGED <<base, db, installed>> /\ installed = {}
      BY <1>2 DEF ListArrives
    <3>2. /\ cursor'.root = r /\ cursor'.last = selected'[r]
          /\ update_patch'[1] = r /\ update_patch'[2] = base[r] + 1
      BY <2>1
    <3>3. base[r] < base[r] + 1
      BY <1>2, <2>2
    <3>4. selected'[r] <= Top[r]
      BY <1>4
    <3>5. \A q \in Roots :
            /\ db'[q] = base'[q]
            /\ selected'[q] # 0 => selected'[q] \in base'[q] + 1 .. Top[q]
      BY <1>2, <1>3, <3>1
    <3>6. pc' \notin Working
      BY <2>4 DEF Working
    <3>7. QED
      BY <2>2, <2>3, <3>1, <3>2, <3>3, <3>4, <3>5, <3>6 DEF CursorInv
  <2>7. VersionInv'
    BY <1>2, <2>1, <2>2, <2>4 DEF ListArrives, VersionInv, CurrentDone, OnPath
  <2>8. ArchiveInv' /\ MirrorsInv' /\ GivesUpLast'
    BY <1>1, <2>4 DEF ArchiveInv, MirrorsInv, GivesUpLast
  <2>9. QED
    BY <1>1, <2>5, <2>6, <2>7, <2>8 DEF TtyTypeOK, ProcessTypeOK
<1>7. QED
  BY <1>5, <1>6

(***************************************************************************)
(* skip_to_selected_update() moves to the patch after the last one         *)
(* applied: the first patch ahead of the cursor is the current one if it   *)
(* has not been tried, else the next of the same path, else the first of a *)
(* later component.                                                        *)
(***************************************************************************)
LEMMA SkipIsNext ==
  ASSUME TtyInv, pc = "select",
         NEW p \in Ahead \ installed,
         \A q \in Ahead \ installed : q = p \/ Precedes(p, q)
  PROVE  /\ p \in Patches /\ p[1] >= cursor.root
         /\ p[1] = cursor.root => p[2] >= update_patch[2] /\ p[2] <= cursor.last
         /\ p[1] > cursor.root => p[2] \in base[p[1]] + 1 .. selected[p[1]]
         /\ base[p[1]] < p[2]
         /\ db[p[1]] = p[2] - 1
<1> DEFINE r == update_patch[1]
           k == update_patch[2]
<1>1. /\ update_patch \in Patches /\ cursor.root = r
      /\ base[r] < k /\ k <= cursor.last /\ cursor.last <= Top[r]
      /\ \A q \in installed : q[1] < r \/ (q[1] = r /\ q[2] <= k)
      /\ \A q \in Roots : q > r =>
           /\ db[q] = base[q]
           /\ selected[q] # 0 => selected[q] \in base[q] + 1 .. Top[q]
  BY DEF TtyInv, CursorInv, OnPath
<1>2. /\ r \in Roots /\ k \in 1..Top[r] /\ update_patch = <<r, k>>
      /\ Top[r] \in Nat /\ Roots \subseteq Nat
  BY <1>1, PatchType DEF Roots
<1>3. /\ db \in [Roots -> Nat] /\ base \in [Roots -> Nat]
      /\ selected \in [Roots -> Nat] /\ cursor.last \in Nat
      /\ \A q \in Roots : selected[q] <= Top[q]
  BY DEF TtyInv, TtyTypeOK
<1>4. db[r] = IF update_patch \in installed THEN k ELSE k - 1
  BY DEF TtyInv, VersionInv, CurrentDone, OnPath
<1>5. CASE p \in { <<cursor.root, j>> : j \in k..cursor.last }
  <2>1. PICK j \in k..cursor.last : p = <<r, j>>
    BY <1>1, <1>5
  <2>2. p \in Patches
    BY <1>1, <1>2, <1>3, <2>1, PatchIntro
  <2>3. CASE update_patch \notin installed
    <3>1. update_patch \in Ahead \ installed
      BY <1>1, <1>2, <1>3, <2>3 DEF Ahead
    <3>2. p = update_patch
      BY <1>2, <1>3, <2>1, <3>1 DEF Precedes
    <3>3. QED
      BY <1>1, <1>2, <1>3, <1>4, <2>2, <2>3, <3>2
  <2>4. CASE update_patch \in installed
    <3>1. j >= k + 1
      BY <1>2, <1>3, <2>1, <2>4
    <3>2. <<r, k + 1>> \in Ahead
      BY <1>1, <1>2, <1>3, <2>1, <3>1 DEF Ahead
    <3>3. <<r, k + 1>> \notin installed
      BY <1>1, <1>2
    <3>4. j = k + 1
      BY <1>2, <1>3, <2>1, <3>1, <3>2, <3>3 DEF Precedes
    <3>5. QED
      BY <1>1, <1>2, <1>3, <1>4, <2>1, <2>2, <2>4, <3>4
  <2>5. QED
    BY <2>3, <2>4
<1>6. CASE p \notin { <<cursor.root, j>> : j \in k..cursor.last }
  <2>1. /\ p \in Patches /\ p[1] > r
        /\ p[2] \in base[p[1]] + 1 .. selected[p[1]]
    BY <1>1, <1>6 DEF Ahead
  <2>2. p[1] \in Roots /\ p[2] \in 1..Top[p[1]] /\ p = <<p[1], p[2]>>
        /\ Top[p[1]] \in Nat
    BY <2>1, PatchType
  <2>3. base[p[1]] + 1 \in 1..Top[p[1]]
    BY <1>3, <2>1, <2>2
  <2>4. <<p[1], base[p[1]] + 1>> \in Patches
    BY <2>2, <2>3, PatchIntro
  <2>5. <<p[1], base[p[1]] + 1>> \in Ahead \ installed
    BY <1>1, <1>2, <1>3, <2>1, <2>2, <2>4 DEF Ahead
  <2>6. p[2] = base[p[1]] + 1
    BY <1>2, <1>3, <2>1, <2>2, <2>5 DEF Precedes
  <2>7. QED
    BY <1>1, <1>2, <1>3, <2>1, <2>2, <2>6
<1>7. QED
  BY <1>5, <1>6

(* The patch that is selected upgrades the installed version.              *)
LEMMA SelectUpdateInv ==
  ASSUME TtyInv, SelectUpdate
  PROVE  TtyInv'
<1>1. /\ MirrorTypeOK' /\ NoMirrorLost' /\ loaded' = loaded
      /\ pc = "select" /\ ProcessTypeOK
  BY MirrorsUnchanged, TypeParts DEF SelectUpdate, TtyInv, TtyTypeOK, MirrorsInv
<1>2. CASE update_patch' = NoPatch /\ cursor' = NoCursor
  <2>1. pc' = "done" /\ UNCHANGED <<installed, verified, evidence>>
    BY <1>2 DEF SelectUpdate
  <2>2. ProcessTypeOK'
    BY <1>1, <1>2, <2>1, StartValues DEF SelectUpdate, ProcessTypeOK, Points, Outside
  <2>3. /\ CursorInv' /\ VersionInv' /\ ArchiveInv' /\ MirrorsInv'
        /\ GivesUpLast'
    BY <1>1, <2>1
       DEF CursorInv, VersionInv, ArchiveInv, MirrorsInv, GivesUpLast,
           Working, OnPath
  <2>4. QED
    BY <1>1, <2>2, <2>3, TypeParts DEF TtyInv, TtyTypeOK, ProcessTypeOK
<1>3. ASSUME NEW p \in Ahead \ installed,
             \A q \in Ahead \ installed : q = p \/ Precedes(p, q),
             update_patch' = p,
             cursor' = [root |-> p[1],
                        last |-> IF p[1] = cursor.root THEN cursor.last
                                 ELSE selected[p[1]]]
      PROVE  TtyInv'
  <2>1. /\ p \in Patches /\ p[1] >= cursor.root
        /\ p[1] = cursor.root => p[2] >= update_patch[2] /\ p[2] <= cursor.last
        /\ p[1] > cursor.root => p[2] \in base[p[1]] + 1 .. selected[p[1]]
        /\ base[p[1]] < p[2]
        /\ db[p[1]] = p[2] - 1
    BY <1>1, <1>3, SkipIsNext
  <2>2. /\ p[1] \in Roots /\ p[1] \in Nat
        /\ p[2] \in Nat /\ p[2] <= Top[p[1]] /\ Top[p[1]] \in Nat
        /\ \A q \in Roots : q \in Nat
    BY <2>1, PatchType DEF Roots
  <2>3. /\ pc' = "mirror" /\ installed' = installed \union {p}
        /\ verified' = "DOWNLOAD_FAILED" /\ evidence' = "none"
        /\ UNCHANGED <<base, selected, db, exit, file>>
    BY <1>3, <2>1, NoPatchNotIn DEF SelectUpdate
  <2>4. /\ update_patch \in Patches /\ cursor.root = update_patch[1]
        /\ cursor.last <= Top[cursor.root] /\ cursor.root \in Nat
        /\ cursor.last \in Nat
        /\ \A q \in installed :
             q[1] < cursor.root \/ (q[1] = cursor.root /\ q[2] <= update_patch[2])
        /\ \A q \in Roots : q > cursor.root =>
            /\ db[q] = base[q]
            /\ selected[q] # 0 => selected[q] \in base[q] + 1 .. Top[q]
    BY <1>1 DEF TtyInv, TtyTypeOK, CursorInv, OnPath
  <2>5. update_patch[2] \in Nat /\ update_patch[1] \in Nat
        /\ installed \subseteq Patches
        /\ selected \in [Roots -> Nat] /\ base \in [Roots -> Nat]
        /\ \A q \in Roots : selected[q] <= Top[q]
    BY <1>1, <2>4, PatchType DEF ProcessTypeOK, Roots
  <2>6. cursor'.root = p[1] /\ cursor'.last \in Nat
        /\ p[2] <= cursor'.last /\ cursor'.last <= Top[p[1]]
    <3>1. /\ cursor'.root = p[1]
          /\ cursor'.last = IF p[1] = cursor.root THEN cursor.last
                            ELSE selected[p[1]]
      BY <1>3
    <3>2. CASE p[1] = cursor.root
      BY <2>1, <2>4, <3>1, <3>2
    <3>3. CASE p[1] # cursor.root
      <4>1. p[1] > cursor.root /\ cursor'.last = selected[p[1]]
        BY <2>1, <2>2, <2>4, <3>1, <3>3
      <4>2. /\ selected[p[1]] \in Nat /\ selected[p[1]] <= Top[p[1]]
            /\ base[p[1]] \in Nat
        BY <2>2, <2>5
      <4>3. p[2] <= selected[p[1]]
        BY <2>1, <4>1, <4>2
      <4>4. QED
        BY <3>1, <4>1, <4>2, <4>3
    <3>4. QED
      BY <3>2, <3>3
  <2>7. ProcessTypeOK'
    <3>1. cursor' \in [root : Nat, last : Nat]
      BY <1>3, <2>2, <2>4, <2>5
    <3>2. QED
      BY <1>1, <1>3, <2>1, <2>3, <3>1
         DEF SelectUpdate, ProcessTypeOK, Points, Verdicts
  <2>8. CursorInv'
    <3>1. \A q \in installed' :
            q[1] < cursor'.root \/ (q[1] = cursor'.root /\ q[2] <= p[2])
      <4> TAKE q \in installed'
      <4>1. CASE q = p
        BY <2>2, <2>6, <4>1
      <4>2. CASE q \in installed
        <5>1. q[1] \in Nat /\ q[2] \in Nat
          BY <2>5, <4>2, PatchType DEF Roots
        <5>2. q[1] < cursor.root
                \/ (q[1] = cursor.root /\ q[2] <= update_patch[2])
          BY <2>4, <4>2
        <5>3. p[1] \in Nat /\ p[2] \in Nat /\ cursor.root \in Nat
          BY <2>2, <2>4
        <5>4. q[1] < p[1] \/ (q[1] = p[1] /\ q[2] <= p[2])
          BY <2>1, <2>5, <5>1, <5>2, <5>3
        <5>5. QED
          BY <2>6, <5>4
      <4>3. QED
        BY <2>3, <4>1, <4>2
    <3>2. \A q \in Roots : q > cursor'.root =>
            /\ db'[q] = base'[q]
            /\ selected'[q] # 0 => selected'[q] \in base'[q] + 1 .. Top[q]
      <4> SUFFICES ASSUME NEW q \in Roots, q > p[1]
                   PROVE  /\ db[q] = base[q]
                          /\ selected[q] # 0 => selected[q] \in base[q] + 1 .. Top[q]
        BY <2>3, <2>6
      <4>1. q > cursor.root
        BY <2>1, <2>2, <2>4
      <4>2. QED
        BY <2>4, <4>1
    <3>3. QED
      BY <1>3, <2>1, <2>2, <2>3, <2>6, <3>1, <3>2 DEF CursorInv
  <2>9. VersionInv'
    BY <1>3, <2>1, <2>3 DEF VersionInv, CurrentDone
  <2>10. ArchiveInv' /\ MirrorsInv' /\ GivesUpLast'
    BY <1>1, <2>3 DEF ArchiveInv, MirrorsInv, GivesUpLast, TtyInv, OnPath
  <2>11. QED
    BY <1>1, <2>7, <2>8, <2>9, <2>10, TypeParts DEF TtyInv, TtyTypeOK, ProcessTypeOK
<1>4. QED
  BY <1>2, <1>3 DEF SelectUpdate, SkipToSelectedUpdate

(***************************************************************************)
(* Inside the download loop the cursor and the database stand still.       *)
(***************************************************************************)
LEMMA StaysOnPatch ==
  ASSUME TtyInv, pc \in Working \ {"reap"}, pc' \in Working \ {"reap"},
         UNCHANGED <<base, selected, cursor, update_patch, installed, db>>
  PROVE  CursorInv' /\ VersionInv'
<1>1. pc \in OnPath /\ pc' \in OnPath
  BY DEF OnPath
<1>2. CursorInv'
  BY <1>1 DEF TtyInv, CursorInv
<1>3. ~CurrentDone /\ ~CurrentDone' /\ pc' # "list"
  BY DEF CurrentDone, Working
<1>4. VersionInv'
  BY <1>1, <1>3 DEF TtyInv, VersionInv
<1>5. QED
  BY <1>2, <1>4

(* The file of the current patch changes, and no other.                    *)
LEMMA FileType ==
  ASSUME TtyInv, NEW c \in Contents, update_patch \in Patches,
         file' = [file EXCEPT ![update_patch] = c]
  PROVE  file' \in [Patches -> Contents] /\ file'[update_patch] = c
BY DEF TtyInv, TtyTypeOK

(* Without a mirror left, all of them have failed.                         *)
LEMMA NextMirrorInv ==
  ASSUME TtyInv, NextMirror
  PROVE  TtyInv'
<1>1. /\ MirrorTypeOK /\ NoMirrorLost /\ loaded /\ ProcessTypeOK
      /\ pc = "mirror" /\ pc' \in {"update", "verdict"}
      /\ UNCHANGED <<base, selected, cursor, update_patch, installed, db>>
  BY TypeParts DEF NextMirror, TtyInv, TtyTypeOK, MirrorsInv, OnPath, Working
<1>2. /\ MirrorTypeOK' /\ NoMirrorLost' /\ loaded' /\ Listed' = Listed
      /\ status' = status
      /\ current' = 0 => \A m \in Listed : status[m] = URL_FAILED
  BY <1>1, GetNextUrlKeeps DEF NextMirror, Listed
<1>3. CursorInv' /\ VersionInv'
  BY <1>1, StaysOnPatch DEF Working
<1>4. ProcessTypeOK'
  BY <1>1 DEF NextMirror, ProcessTypeOK, Points
<1>5. ArchiveInv'
  BY <1>1 DEF NextMirror, TtyInv, ArchiveInv
<1>6. MirrorsInv' /\ GivesUpLast'
  BY <1>2 DEF NextMirror, MirrorsInv, GivesUpLast
<1>7. QED
  BY <1>2, <1>3, <1>4, <1>5, <1>6, TypeParts DEF TtyInv, TtyTypeOK, ProcessTypeOK

(* Marking the mirror and going round again.                               *)
LEMMA TryAnotherMirrorInv ==
  ASSUME TtyInv, pc \in Working \ {"reap"},
         NEW v \in {"DOWNLOAD_FAILED", "VERIFY_FAILED"}, TryAnotherMirror(v),
         UNCHANGED <<base, selected, cursor, update_patch, installed, db,
                     evidence>>,
         evidence = "none", ProcessTypeOK'
  PROVE  TtyInv'
<1>1. MirrorTypeOK /\ NoMirrorLost /\ loaded /\ pc' = "mirror" /\ verified' = v
  BY DEF TryAnotherMirror, TtyInv, TtyTypeOK, MirrorsInv, OnPath
<1>2. MirrorTypeOK' /\ NoMirrorLost' /\ loaded'
  BY <1>1, SetUrlStatusKeeps DEF TryAnotherMirror
<1>3. CursorInv' /\ VersionInv'
  BY <1>1, StaysOnPatch DEF Working
<1>4. ArchiveInv' /\ MirrorsInv' /\ GivesUpLast'
  BY <1>1, <1>2 DEF ArchiveInv, MirrorsInv, GivesUpLast
<1>5. QED
  BY <1>2, <1>3, <1>4, TypeParts DEF TtyInv, TtyTypeOK, ProcessTypeOK

(* A failed download changes the file and marks the mirror.                *)
LEMMA UpdateFailsInv ==
  ASSUME TtyInv, UpdateFails
  PROVE  TtyInv'
<1>1. /\ pc = "update" /\ evidence = "none" /\ update_patch \in Patches
      /\ ProcessTypeOK /\ file[update_patch] \in Contents
  BY TypeParts
     DEF UpdateFails, TtyInv, TtyTypeOK, ArchiveInv, CursorInv, OnPath, Working
<1>2. PICK c \in Interrupted(file[update_patch]) :
        file' = [file EXCEPT ![update_patch] = c]
  BY DEF UpdateFails
<1>3. c \in Contents
  BY <1>1, <1>2 DEF Interrupted, Contents
<1>4. file' \in [Patches -> Contents]
  BY <1>1, <1>2, <1>3, FileType
<1>5. ProcessTypeOK'
  BY <1>1, <1>4
     DEF UpdateFails, TryAnotherMirror, ProcessTypeOK, Points, Verdicts
<1>6. QED
  BY <1>1, <1>5, TryAnotherMirrorInv DEF UpdateFails, Working

(* A download that ends leaves some file, whatever is in it.               *)
LEMMA UpdateArrivesInv ==
  ASSUME TtyInv, UpdateArrives
  PROVE  TtyInv'
<1>1. /\ pc = "update" /\ pc' = "sig" /\ evidence = "none"
      /\ update_patch \in Patches /\ ProcessTypeOK
      /\ file[update_patch] \in Contents
  BY TypeParts
     DEF UpdateArrives, TtyInv, TtyTypeOK, ArchiveInv, CursorInv, OnPath, Working
<1>2. PICK c \in Fetched(file[update_patch]) :
        file' = [file EXCEPT ![update_patch] = c]
  BY DEF UpdateArrives
<1>3. c \in Contents /\ c # "none"
  BY <1>1, <1>2 DEF Fetched, Contents
<1>4. file' \in [Patches -> Contents] /\ file'[update_patch] # "none"
  BY <1>1, <1>2, <1>3, FileType
<1>5. ProcessTypeOK'
  BY <1>1, <1>4 DEF UpdateArrives, ProcessTypeOK, Points, Verdicts
<1>6. CursorInv' /\ VersionInv'
  BY <1>1, StaysOnPatch DEF UpdateArrives, Working
<1>7. MirrorTypeOK' /\ NoMirrorLost' /\ MirrorsInv'
  BY <1>1, MirrorsUnchanged
     DEF UpdateArrives, TtyInv, TtyTypeOK, MirrorsInv, OnPath, Working
<1>8. ArchiveInv' /\ GivesUpLast'
  BY <1>1, <1>4 DEF UpdateArrives, ArchiveInv, GivesUpLast
<1>9. QED
  BY <1>5, <1>6, <1>7, <1>8, TypeParts DEF TtyInv, TtyTypeOK, ProcessTypeOK

(* Steps that move on in the loop without touching the mirrors or the file. *)
LEMMA MovesOn ==
  ASSUME TtyInv, pc \in Working \ {"reap"}, pc' \in Working \ {"reap", "mirror"},
         UNCHANGED <<mirrorVars, base, selected, cursor, update_patch,
                     installed, db>>,
         ProcessTypeOK', ArchiveInv',
         pc' = "verdict" => verified' \in {"VERIFY_OK", "VERIFY_UNKNOWN"}
  PROVE  TtyInv'
<1>1. CursorInv' /\ VersionInv'
  BY StaysOnPatch
<1>2. MirrorTypeOK' /\ NoMirrorLost' /\ MirrorsInv'
  BY MirrorsUnchanged DEF TtyInv, TtyTypeOK, MirrorsInv, OnPath
<1>3. GivesUpLast'
  BY DEF GivesUpLast
<1>4. QED
  BY <1>1, <1>2, <1>3, TypeParts DEF TtyInv, TtyTypeOK, ProcessTypeOK

(* Whether there is a signature changes nothing.                           *)
LEMMA FetchSignatureInv ==
  ASSUME TtyInv, FetchSignature
  PROVE  TtyInv'
<1>1. ProcessTypeOK'
  BY DEF FetchSignature, TtyInv, TtyTypeOK, ProcessTypeOK, Points
<1>2. ArchiveInv'
  BY DEF FetchSignature, TtyInv, ArchiveInv
<1>3. QED
  BY <1>1, <1>2, MovesOn DEF FetchSignature, Working

(* gpg vouches only for the whole archive.                                 *)
LEMMA RunGpgInv ==
  ASSUME TtyInv, RunGpg
  PROVE  TtyInv'
<1>1. /\ pc = "gpg" /\ evidence = "none" /\ verified = "VERIFY_UNKNOWN"
      /\ file[update_patch] # "none" /\ ProcessTypeOK
      /\ UNCHANGED <<base, selected, cursor, update_patch, installed, db,
                     exit, update_status, file, runs>>
  BY TypeParts DEF RunGpg, TtyInv, ArchiveInv
<1>2. PICK code \in GpgResults(file[update_patch]) :
       \/ /\ code = "GPG_NOPUBKEY" /\ ~rekeyed
          /\ rekeyed' = TRUE
          /\ UNCHANGED <<mirrorVars, pc, verified, evidence>>
       \/ /\ code \in {"GPG_NOTINSTALLED", "GPG_CANCELLED"}
               \/ (code = "GPG_NOPUBKEY" /\ rekeyed)
          /\ pc' = "md5"
          /\ UNCHANGED <<mirrorVars, verified, evidence, rekeyed>>
       \/ /\ code = "GPG_VERIFYFAIL"
          /\ TryAnotherMirror("VERIFY_FAILED")
          /\ UNCHANGED <<evidence, rekeyed>>
       \/ /\ code = "GPG_VERIFYOK"
          /\ verified' = "VERIFY_OK"
          /\ evidence' = "gpg"
          /\ pc' = "verdict"
          /\ UNCHANGED <<mirrorVars, rekeyed>>
  BY DEF RunGpg
<1>3. CASE rekeyed' = TRUE /\ UNCHANGED <<mirrorVars, pc, verified, evidence>>
  <2>1. ProcessTypeOK' /\ ArchiveInv'
    BY <1>1, <1>3 DEF ProcessTypeOK, ArchiveInv
  <2>2. QED
    BY <1>1, <1>3, <2>1, MovesOn DEF Working
<1>4. CASE pc' = "md5" /\ UNCHANGED <<mirrorVars, verified, evidence, rekeyed>>
  <2>1. ProcessTypeOK' /\ ArchiveInv'
    BY <1>1, <1>4 DEF ProcessTypeOK, ArchiveInv, Points
  <2>2. QED
    BY <1>1, <1>4, <2>1, MovesOn DEF Working
<1>5. CASE TryAnotherMirror("VERIFY_FAILED") /\ UNCHANGED <<evidence, rekeyed>>
  <2>1. ProcessTypeOK'
    BY <1>1, <1>5 DEF TryAnotherMirror, ProcessTypeOK, Points, Verdicts
  <2>2. QED
    BY <1>1, <1>5, <2>1, TryAnotherMirrorInv DEF Working
<1>6. CASE /\ code = "GPG_VERIFYOK" /\ verified' = "VERIFY_OK"
           /\ evidence' = "gpg" /\ pc' = "verdict"
           /\ UNCHANGED <<mirrorVars, rekeyed>>
  <2>1. file[update_patch] = "full"
    BY <1>2, <1>6 DEF GpgResults
  <2>2. ProcessTypeOK' /\ ArchiveInv'
    BY <1>1, <1>6, <2>1 DEF ProcessTypeOK, ArchiveInv, Points, Verdicts
  <2>3. QED
    BY <1>1, <1>6, <2>2, MovesOn DEF Working
<1>7. QED
  BY <1>2, <1>3, <1>4, <1>5, <1>6

(* The checksum matches only that of the whole archive.                    *)
LEMMA CheckMd5Inv ==
  ASSUME TtyInv, CheckMd5
  PROVE  TtyInv'
<1>1. /\ pc = "md5" /\ evidence = "none" /\ verified = "VERIFY_UNKNOWN"
      /\ file[update_patch] # "none" /\ ProcessTypeOK
      /\ UNCHANGED <<base, selected, cursor, update_patch, installed, db,
                     rekeyed, exit, update_status, file, runs>>
  BY TypeParts DEF CheckMd5, TtyInv, ArchiveInv
<1>2. CASE TryAnotherMirror("VERIFY_FAILED") /\ UNCHANGED evidence
  <2>1. ProcessTypeOK'
    BY <1>1, <1>2 DEF TryAnotherMirror, ProcessTypeOK, Points, Verdicts
  <2>2. QED
    BY <1>1, <1>2, <2>1, TryAnotherMirrorInv DEF Working
<1>3. ASSUME NEW result \in Md5Results(file[update_patch]),
             result # "mismatch",
             evidence' = IF result = "unavailable" THEN "none" ELSE "md5",
             pc' = "verdict", UNCHANGED <<mirrorVars, verified>>
      PROVE  TtyInv'
  <2>1. evidence' # "none" => file[update_patch] = "full"
    BY <1>3 DEF Md5Results
  <2>2. ProcessTypeOK'
    BY <1>1, <1>3 DEF ProcessTypeOK, Points
  <2>3. ArchiveInv'
    BY <1>1, <1>3, <2>1 DEF ArchiveInv
  <2>4. QED
    BY <1>1, <1>3, <2>2, <2>3, MovesOn DEF Working
<1>4. QED
  BY <1>2, <1>3 DEF CheckMd5

(* An archive is accepted with the evidence it was checked by.             *)
LEMMA AcceptInv ==
  ASSUME TtyInv, Accept
  PROVE  TtyInv'
<1>1. ProcessTypeOK'
  BY DEF Accept, TtyInv, TtyTypeOK, ProcessTypeOK, Points
<1>2. ArchiveInv'
  BY DEF Accept, TtyInv, ArchiveInv
<1>3. QED
  BY <1>1, <1>2, MovesOn DEF Accept, Working

(* A patch that succeeds moves its component one version up.               *)
LEMMA PatchExitsInv ==
  ASSUME TtyInv, PatchExits
  PROVE  TtyInv'
<1>1. /\ pc = "perform" /\ pc' = "reap" /\ ProcessTypeOK
      /\ pc \in OnPath /\ pc' \in OnPath /\ update_patch \in Patches
      /\ UNCHANGED <<base, selected, cursor, update_patch, installed>>
  BY TypeParts DEF PatchExits, TtyInv, CursorInv, OnPath, Working
<1>2. /\ update_patch[1] \in Roots /\ update_patch[2] \in Nat
      /\ update_patch[2] <= Top[update_patch[1]]
      /\ update_patch[1] \in Nat
  BY <1>1, PatchType DEF Roots
<1>3. /\ db \in [Roots -> Nat] /\ \A r \in Roots : db[r] <= Top[r]
      /\ cursor.root = update_patch[1]
      /\ db[update_patch[1]] = update_patch[2] - 1
  BY <1>1 DEF ProcessTypeOK, TtyInv, CursorInv, VersionInv, CurrentDone
<1>4. /\ db' \in [Roots -> Nat] /\ \A r \in Roots : db'[r] <= Top[r]
      /\ db'[update_patch[1]] =
           IF exit' = "ok" THEN update_patch[2] ELSE update_patch[2] - 1
      /\ \A r \in Roots : r # update_patch[1] => db'[r] = db[r]
      /\ exit' \in {"ok", "error"}
  BY <1>2, <1>3 DEF PatchExits
<1>5. ProcessTypeOK'
  BY <1>1, <1>4 DEF PatchExits, ProcessTypeOK, Points
<1>6. CursorInv'
  BY <1>1, <1>2, <1>3, <1>4 DEF TtyInv, CursorInv, Working, Roots
<1>7. VersionInv'
  BY <1>1, <1>4 DEF VersionInv, CurrentDone
<1>8. MirrorTypeOK' /\ NoMirrorLost' /\ MirrorsInv'
  BY <1>1, MirrorsUnchanged DEF PatchExits, TtyInv, TtyTypeOK, MirrorsInv
<1>9. ArchiveInv' /\ GivesUpLast'
  BY <1>1 DEF ArchiveInv, GivesUpLast
<1>10. QED
  BY <1>5, <1>6, <1>7, <1>8, <1>9, TypeParts DEF TtyInv, TtyTypeOK, ProcessTypeOK

(* cleanup_update(): one file is forgotten, one component is deselected as *)
(* far as the version before.                                              *)
LEMMA CleanupTypes ==
  ASSUME TtyInv, update_patch \in Patches, NEW obsolete \in BOOLEAN,
         CleanupUpdate(obsolete)
  PROVE  /\ file' \in [Patches -> Contents]
         /\ selected' \in [Roots -> Nat]
         /\ \A r \in Roots : selected'[r] <= Top[r]
         /\ \A r \in Roots : r # update_patch[1] => selected'[r] = selected[r]
<1>1. /\ file \in [Patches -> Contents] /\ selected \in [Roots -> Nat]
      /\ base \in [Roots -> Nat] /\ \A r \in Roots : selected[r] <= Top[r]
  BY DEF TtyInv, TtyTypeOK
<1>2. /\ update_patch[1] \in Roots /\ update_patch[2] \in Nat
      /\ update_patch[2] <= Top[update_patch[1]]
      /\ Top[update_patch[1]] \in Nat
  BY PatchType
<1>3. file' \in [Patches -> Contents]
  <2>1. file' = IF obsolete THEN [file EXCEPT ![update_patch] = "none"] ELSE file
    BY DEF CleanupUpdate
  <2>2. "none" \in Contents
    BY DEF Contents
  <2>3. QED
    BY <1>1, <2>1, <2>2
<1>4. PICK v \in Nat : /\ selected' = [selected EXCEPT ![update_patch[1]] = v]
                       /\ v <= Top[update_patch[1]]
  <2> DEFINE v == IF update_patch[2] - 1 > base[update_patch[1]]
                  THEN update_patch[2] - 1 ELSE 0
  <2>1. v \in Nat /\ v <= Top[update_patch[1]]
    BY <1>1, <1>2
  <2>2. selected' = [selected EXCEPT ![update_patch[1]] = v]
    BY DEF CleanupUpdate, Deselect
  <2>3. QED
    BY <2>1, <2>2
<1>5. QED
  BY <1>1, <1>2, <1>3, <1>4

(* A run that has failed is over.                                          *)
LEMMA FailedRunInv ==
  ASSUME TtyInv, pc \in OnPath, NEW obsolete \in BOOLEAN,
         update_status' = -1, CleanupUpdate(obsolete),
         UNCHANGED <<mirrorVars, base, cursor, update_patch, installed,
                     verified, evidence, rekeyed, exit, db, runs>>
  PROVE  TtyInv'
<1>1. update_patch \in Patches /\ ProcessTypeOK
  BY TypeParts DEF TtyInv, CursorInv
<1>2. pc' = "done"
  BY DEF CleanupUpdate
<1>3. ProcessTypeOK'
  <2>1. /\ file' \in [Patches -> Contents]
        /\ selected' \in [Roots -> Nat]
        /\ \A r \in Roots : selected'[r] <= Top[r]
    BY <1>1, CleanupTypes
  <2>2. QED
    BY <1>1, <1>2, <2>1 DEF ProcessTypeOK, Points, Outside
<1>4. MirrorTypeOK' /\ NoMirrorLost'
  BY MirrorsUnchanged DEF TtyInv, TtyTypeOK, MirrorsInv
<1>5. CursorInv' /\ VersionInv' /\ ArchiveInv' /\ MirrorsInv' /\ GivesUpLast'
  BY <1>2, <1>4
     DEF CursorInv, VersionInv, ArchiveInv, MirrorsInv, GivesUpLast, Working,
         OnPath
<1>6. QED
  BY <1>3, <1>4, <1>5, TypeParts DEF TtyInv, TtyTypeOK, ProcessTypeOK

(* Giving up ends the run.                                                 *)
LEMMA GiveUpInv ==
  ASSUME TtyInv, GiveUp
  PROVE  TtyInv'
BY FailedRunInv DEF GiveUp, OnPath, Working

(* A patch that fails ends the run.                                        *)
LEMMA UpdateFailedInv ==
  ASSUME TtyInv, UpdateFailed
  PROVE  TtyInv'
BY FailedRunInv DEF UpdateFailed, OnPath, Working

(* After a patch that succeeded the walk goes on.                          *)
LEMMA UpdateCompleteInv ==
  ASSUME TtyInv, UpdateComplete
  PROVE  TtyInv'
<1>1. /\ pc = "reap" /\ exit = "ok" /\ pc \in Working /\ pc \in OnPath
      /\ update_patch \in Patches /\ update_patch \in installed
      /\ ProcessTypeOK /\ update_status' \in Int
      /\ pc' \in {"select", "done"}
      /\ UNCHANGED <<mirrorVars, base, cursor, update_patch, installed, verified,
                     evidence, rekeyed, exit, db, runs>>
  BY TypeParts
     DEF UpdateComplete, CleanupUpdate, TtyInv, TtyTypeOK, CursorInv, OnPath,
         Working
<1>2. /\ file' \in [Patches -> Contents]
      /\ selected' \in [Roots -> Nat]
      /\ \A r \in Roots : selected'[r] <= Top[r]
      /\ \A r \in Roots : r # update_patch[1] => selected'[r] = selected[r]
  BY <1>1, CleanupTypes DEF UpdateComplete
<1>3. ProcessTypeOK'
  BY <1>1, <1>2 DEF ProcessTypeOK, Points, Outside
<1>4. update_patch[1] \in Nat
  BY <1>1, PatchType DEF Roots
<1>5. CursorInv'
  <2>1. \A q \in Roots : q > cursor.root =>
            /\ db[q] = base[q]
            /\ selected'[q] # 0 => selected'[q] \in base[q] + 1 .. Top[q]
    BY <1>1, <1>2, <1>4 DEF TtyInv, CursorInv, Roots
  <2>2. pc' \notin Working
    BY <1>1 DEF Working
  <2>3. QED
    BY <1>1, <2>1, <2>2 DEF TtyInv, CursorInv
<1>6. VersionInv'
  <2>1. CurrentDone /\ (pc' = "select" => CurrentDone')
    BY <1>1 DEF CurrentDone
  <2>2. pc' \in OnPath => pc' = "select"
    BY <1>1 DEF OnPath, Working
  <2>3. QED
    BY <1>1, <2>1, <2>2 DEF TtyInv, VersionInv
<1>7. MirrorTypeOK' /\ NoMirrorLost' /\ MirrorsInv'
  BY <1>1, MirrorsUnchanged DEF TtyInv, TtyTypeOK, MirrorsInv
<1>8. ArchiveInv' /\ GivesUpLast'
  BY <1>1 DEF ArchiveInv, GivesUpLast
<1>9. QED
  BY <1>3, <1>5, <1>6, <1>7, <1>8, TypeParts DEF TtyInv, TtyTypeOK, ProcessTypeOK

(* Nothing happens.                                                        *)
LEMMA StutterInv ==
  ASSUME TtyInv, UNCHANGED vars
  PROVE  TtyInv'
<1>1. UNCHANGED mirrorVars /\ UNCHANGED processVars /\ UNCHANGED <<db, file, runs>>
  BY DEF vars
<1>2. MirrorTypeOK' /\ NoMirrorLost'
  BY <1>1, MirrorsUnchanged DEF TtyInv, TtyTypeOK, MirrorsInv
<1>3. ProcessTypeOK'
  BY <1>1, TypeParts DEF TtyInv, ProcessTypeOK, processVars
<1>4. CursorInv' /\ VersionInv' /\ ArchiveInv'
  BY <1>1
     DEF TtyInv, CursorInv, VersionInv, CurrentDone, ArchiveInv, processVars
<1>5. MirrorsInv' /\ GivesUpLast'
  BY <1>1, <1>2, MirrorsUnchanged
     DEF TtyInv, MirrorsInv, GivesUpLast, processVars
<1>6. QED
  BY <1>2, <1>3, <1>4, <1>5, TypeParts DEF TtyInv, TtyTypeOK, ProcessTypeOK

-----------------------------------------------------------------------------
(* Every step of the specification keeps TtyInv.                           *)
LEMMA TtyStepInv == TtyInv /\ [Next]_vars => TtyInv'
<1> SUFFICES ASSUME TtyInv, [Next]_vars
             PROVE  TtyInv'
  OBVIOUS
<1>1. CASE Progress
  BY <1>1, ListFailsInv, ListArrivesInv, SelectUpdateInv, NextMirrorInv,
     UpdateFailsInv, UpdateArrivesInv, FetchSignatureInv, RunGpgInv,
     CheckMd5Inv, AcceptInv, GiveUpInv, PatchExitsInv, UpdateCompleteInv,
     UpdateFailedInv, Zenon
     DEF Progress
<1>2. QED
  BY <1>1, StartRunInv, KilledInv, StutterInv DEF Next

(* TtyInv is inductive.                                                    *)
LEMMA TtyInvariant == Spec => []TtyInv
BY TtyInitInv, TtyStepInv, PTL DEF Spec

(* Type correctness of the terminal interface (tty_ui.c:39-48).            *)
THEOREM TtyTypeCorrect == Spec => []TtyTypeOK
<1>1. TtyInv => TtyTypeOK
  BY DEF TtyInv
<1>2. QED
  BY TtyInvariant, <1>1, PTL

(* Every patch that is executed upgrades exactly the installed version,    *)
(* over any number of runs that are killed at any point (tty_ui.c:90-115,  *)
(* 366).                                                                   *)
THEOREM PatchesRunInOrder == Spec => []RunsInOrder
<1>1. TtyInv => RunsInOrder
  BY DEF TtyInv, VersionInv, CurrentDone, RunsInOrder, OnPath, Working
<1>2. QED
  BY TtyInvariant, <1>1, PTL

(* An archive that a check has looked at is executed only if it is         *)
(* complete, whatever its file was put together from (tty_ui.c:279-366).   *)
THEOREM CheckedArchivesAreIntact == Spec => []CheckedMeansIntact
<1>1. TtyInv => CheckedMeansIntact
  BY DEF TtyInv, ArchiveInv, CheckedMeansIntact
<1>2. QED
  BY TtyInvariant, <1>1, PTL

(* A failure is reported only when every mirror has failed (tty_ui.c:258-  *)
(* 343).                                                                   *)
THEOREM EveryMirrorIsTried == Spec => []GivesUpLast
<1>1. TtyInv => GivesUpLast
  BY DEF TtyInv
<1>2. QED
  BY TtyInvariant, <1>1, PTL

-----------------------------------------------------------------------------
(***************************************************************************)
(* What a whole run of the terminal interface amounts to: the files it     *)
(* leaves, the status it reports, and that it is a run as UpdateRun        *)
(* describes it.                                                           *)
(***************************************************************************)

(* A patch has been applied and not been cleaned up yet.                   *)
JustApplied == pc = "reap" /\ exit = "ok"

(* The archives of the patches applied in this run are gone.               *)
CleanInv ==
  pc \in OnPath \union {"done"} =>
    \A p \in Applied : file[p] = "none" \/ (JustApplied /\ p = update_patch)

(* The status counts them: it is negative only when the run is over.       *)
StatusInv ==
  /\ IsFiniteSet(Applied)
  /\ pc = "list" => update_status = 0 /\ update_patch = NoPatch
  /\ pc \in OnPath => update_status >= 0
  /\ pc \in OnPath \union {"done"} /\ update_status >= 0 =>
       Cardinality(Applied) =
         IF JustApplied THEN update_status + 1 ELSE update_status

RunInv == CleanInv /\ StatusInv

-----------------------------------------------------------------------------
(* Nothing has been applied before the list is there.                      *)
LEMMA NothingApplied ==
  ASSUME TtyInv, db = base
  PROVE  Applied = {}
<1>1. \A p \in Patches : p[1] \in Roots /\ p[2] \in Nat
  BY PatchType
<1>2. db \in [Roots -> Nat]
  BY DEF TtyInv, TtyTypeOK
<1>3. QED
  BY <1>1, <1>2 DEF Applied

(* The patch at the cursor is not one of those, until it is.               *)
LEMMA NotYetApplied ==
  ASSUME TtyInv, pc \in OnPath, ~CurrentDone
  PROVE  update_patch \notin Applied /\ update_patch \in Patches
<1>1. /\ update_patch \in Patches
      /\ db[update_patch[1]] = update_patch[2] - 1
  BY DEF TtyInv, CursorInv, VersionInv
<1>2. update_patch[2] \in Nat
  BY <1>1, PatchType
<1>3. QED
  BY <1>1, <1>2 DEF Applied

(* A step inside the download loop.                                        *)
LEMMA QuietStep ==
  ASSUME TtyInv, RunInv, pc \in OnPath, pc' \in (OnPath \union {"done"}) \ {"reap"},
         ~JustApplied,
         UNCHANGED <<base, db, update_status>>,
         \/ UNCHANGED file
         \/ /\ ~CurrentDone
            /\ \E c \in Contents : file' = [file EXCEPT ![update_patch] = c]
  PROVE  RunInv'
<1>1. Applied' = Applied /\ ~JustApplied'
  BY DEF Applied, JustApplied
<1>2. Applied \subseteq Patches /\ file \in [Patches -> Contents]
  BY DEF Applied, TtyInv, TtyTypeOK
<1>3. \A p \in Applied : file'[p] = file[p]
  BY <1>2, NotYetApplied
<1>4. CleanInv'
  BY <1>1, <1>3 DEF RunInv, CleanInv
<1>5. pc' # "list"
  BY DEF OnPath, Working
<1>6. StatusInv'
  BY <1>1, <1>5 DEF RunInv, StatusInv
<1>7. QED
  BY <1>4, <1>6 DEF RunInv

(* The steps of the download loop are of that kind.                        *)
LEMMA LoopRunInv ==
  ASSUME TtyInv, RunInv,
         \/ SelectUpdate \/ NextMirror \/ UpdateFails \/ UpdateArrives
         \/ FetchSignature \/ RunGpg \/ CheckMd5 \/ Accept
  PROVE  RunInv'
<1>1. /\ pc \in {"select", "mirror", "update", "sig", "gpg", "md5", "verdict"}
      /\ pc' \in {"done", "mirror", "update", "sig", "gpg", "md5", "verdict",
                  "perform"}
      /\ UNCHANGED <<base, db, update_status>>
  BY DEF SelectUpdate, NextMirror, UpdateFails, UpdateArrives, FetchSignature,
         RunGpg, CheckMd5, Accept, TryAnotherMirror
<1>2. /\ pc \in OnPath /\ pc' \in (OnPath \union {"done"}) \ {"reap"}
      /\ ~JustApplied
      /\ pc = "update" => ~CurrentDone
  BY <1>1 DEF OnPath, Working, JustApplied, CurrentDone
<1>3. CASE UNCHANGED file
  BY <1>1, <1>2, <1>3, QuietStep
<1>4. CASE UpdateFails \/ UpdateArrives
  <2>1. PICK c \in Interrupted(file[update_patch]) \union Fetched(file[update_patch]) :
          file' = [file EXCEPT ![update_patch] = c]
    BY <1>4 DEF UpdateFails, UpdateArrives
  <2>2. pc = "update"
    BY <1>4 DEF UpdateFails, UpdateArrives
  <2>3. file[update_patch] \in Contents
    BY <1>2, <2>2, NotYetApplied DEF TtyInv, TtyTypeOK
  <2>4. c \in Contents
    BY <2>1, <2>3 DEF Contents, Interrupted, Fetched
  <2>5. QED
    BY <1>1, <1>2, <2>1, <2>2, <2>4, QuietStep
<1>5. QED
  BY <1>3, <1>4
     DEF SelectUpdate, NextMirror, FetchSignature, RunGpg, CheckMd5, Accept

(* A run that has failed is over; its archive may be forgotten.            *)
LEMMA FailedRunRunInv ==
  ASSUME TtyInv, RunInv, GiveUp \/ UpdateFailed
  PROVE  RunInv'
<1>1. /\ pc \in OnPath /\ pc' = "done" /\ update_status' = -1
      /\ UNCHANGED <<base, db, update_patch>>
      /\ ~JustApplied /\ ~CurrentDone
      /\ file' = file \/ file' = [file EXCEPT ![update_patch] = "none"]
  BY DEF GiveUp, UpdateFailed, CleanupUpdate, OnPath, Working, JustApplied,
         CurrentDone
<1>2. Applied' = Applied
  BY <1>1 DEF Applied
<1>3. \A p \in Applied : file'[p] = file[p]
  BY <1>1, NotYetApplied DEF Applied, TtyInv, TtyTypeOK
<1>4. CleanInv'
  BY <1>1, <1>2, <1>3 DEF RunInv, CleanInv
<1>5. StatusInv'
  BY <1>1, <1>2 DEF RunInv, StatusInv, OnPath, Working
<1>6. QED
  BY <1>4, <1>5 DEF RunInv

(* A patch that succeeds is one more.                                      *)
LEMMA PatchExitsRunInv ==
  ASSUME TtyInv, RunInv, PatchExits
  PROVE  RunInv'
<1>1. /\ pc = "perform" /\ pc' = "reap"
      /\ pc \in OnPath /\ pc' \in OnPath
      /\ UNCHANGED <<base, update_patch, file, update_status>>
      /\ ~JustApplied /\ ~CurrentDone
  BY DEF PatchExits, OnPath, Working, JustApplied, CurrentDone
<1>2. /\ update_patch \notin Applied /\ update_patch \in Patches
      /\ db[update_patch[1]] = update_patch[2] - 1
      /\ base[update_patch[1]] < update_patch[2]
  BY <1>1, NotYetApplied DEF TtyInv, CursorInv, VersionInv
<1>3. update_patch[1] \in Roots /\ update_patch[2] \in Nat
      /\ update_patch = <<update_patch[1], update_patch[2]>>
  BY <1>2, PatchType
<1>4. db \in [Roots -> Nat] /\ base \in [Roots -> Nat]
      /\ \A p \in Patches : p[1] \in Roots /\ p[2] \in Nat /\ p = <<p[1], p[2]>>
  BY PatchType DEF TtyInv, TtyTypeOK
<1>5. CASE exit' = "ok" /\ db' = [db EXCEPT ![update_patch[1]] = update_patch[2]]
  <2>1. Applied' = Applied \union {update_patch}
    <3>1. \A p \in Patches : p[2] <= db'[p[1]] <=> p[2] <= db[p[1]] \/ p = update_patch
      <4> SUFFICES ASSUME NEW p \in Patches
                   PROVE  p[2] <= db'[p[1]] <=> p[2] <= db[p[1]] \/ p = update_patch
        OBVIOUS
      <4>1. CASE p[1] = update_patch[1]
        BY <1>2, <1>3, <1>4, <1>5, <4>1
      <4>2. CASE p[1] # update_patch[1]
        BY <1>3, <1>4, <1>5, <4>2
      <4>3. QED
        BY <4>1, <4>2
    <3>2. QED
      BY <1>1, <1>2, <3>1 DEF Applied
  <2>2. /\ IsFiniteSet(Applied')
        /\ Cardinality(Applied') = Cardinality(Applied) + 1
    BY <1>2, <2>1, FS_AddElement DEF RunInv, StatusInv
  <2>3. JustApplied'
    BY <1>1, <1>5 DEF JustApplied
  <2>4. CleanInv'
    BY <1>1, <2>1, <2>3 DEF RunInv, CleanInv
  <2>5. StatusInv'
    BY <1>1, <2>2, <2>3 DEF RunInv, StatusInv
  <2>6. QED
    BY <2>4, <2>5 DEF RunInv
<1>6. CASE exit' = "error" /\ db' = db
  <2>1. Applied' = Applied /\ ~JustApplied'
    BY <1>1, <1>6 DEF Applied, JustApplied
  <2>2. QED
    BY <1>1, <2>1 DEF RunInv, CleanInv, StatusInv
<1>7. QED
  BY <1>5, <1>6 DEF PatchExits

(* It is counted when its archive is removed.                              *)
LEMMA UpdateCompleteRunInv ==
  ASSUME TtyInv, RunInv, UpdateComplete
  PROVE  RunInv'
<1>1. /\ pc = "reap" /\ JustApplied /\ pc \in OnPath
      /\ update_status' = update_status + 1
      /\ update_status \in Int /\ update_status >= 0
      /\ file' = [file EXCEPT ![update_patch] = "none"]
      /\ UNCHANGED <<base, db, update_patch>>
  BY DEF UpdateComplete, CleanupUpdate, JustApplied, OnPath, Working, RunInv,
         StatusInv, TtyInv, TtyTypeOK
<1>2. pc' = "select"
  BY <1>1 DEF UpdateComplete, CleanupUpdate
<1>3. Applied' = Applied /\ ~JustApplied'
  BY <1>1, <1>2 DEF Applied, JustApplied
<1>4. \A p \in Applied : file'[p] = "none"
  BY <1>1 DEF RunInv, CleanInv, Applied, TtyInv, TtyTypeOK
<1>5. CleanInv'
  BY <1>3, <1>4 DEF CleanInv
<1>6. StatusInv'
  BY <1>1, <1>2, <1>3 DEF RunInv, StatusInv, OnPath
<1>7. QED
  BY <1>5, <1>6 DEF RunInv

(* Outside the loop nothing is applied, and a new run begins with nothing. *)
LEMMA OutsideRunInv ==
  ASSUME TtyInv, TtyInv', RunInv,
         StartRun \/ ListFails \/ ListArrives \/ Killed \/ UNCHANGED vars
  PROVE  RunInv'
<1>1. CASE StartRun
  <2>1. /\ pc' = "list" /\ base' = db' /\ update_status' = 0
        /\ update_patch' = NoPatch
    BY <1>1 DEF StartRun
  <2>2. Applied' = {}
    <3>1. \A p \in Patches : p[1] \in Roots /\ p[2] \in Nat
      BY PatchType
    <3>2. db' \in [Roots -> Nat]
      BY DEF TtyInv, TtyTypeOK
    <3>3. QED
      BY <2>1, <3>1, <3>2 DEF Applied
  <2>3. QED
    BY <2>1, <2>2, FS_EmptySet
       DEF RunInv, CleanInv, StatusInv, OnPath, Working
<1>2. CASE ListFails \/ ListArrives
  <2>1. /\ pc = "list" /\ pc' \in {"done", "select"}
        /\ UNCHANGED <<base, db, update_status>>
    BY <1>2 DEF ListFails, ListArrives
  <2>2. Applied = {} /\ update_status = 0
    BY <2>1, NothingApplied DEF TtyInv, VersionInv, RunInv, StatusInv
  <2>3. Applied' = {} /\ ~JustApplied'
    BY <2>1, <2>2 DEF Applied, JustApplied
  <2>4. QED
    BY <2>1, <2>2, <2>3, FS_EmptySet DEF RunInv, CleanInv, StatusInv
<1>3. CASE Killed
  <2>1. pc' = "idle" /\ Applied' = Applied
    BY <1>3 DEF Killed, Applied
  <2>2. QED
    BY <2>1 DEF RunInv, CleanInv, StatusInv, OnPath, Working
<1>4. CASE UNCHANGED vars
  BY <1>4
     DEF vars, processVars, RunInv, CleanInv, StatusInv, Applied, JustApplied
<1>5. QED
  BY <1>1, <1>2, <1>3, <1>4

(* RunInv is inductive, given TtyInv.                                      *)
LEMMA RunInvariant == Spec => []RunInv
<1>1. Init => RunInv
  <2> SUFFICES ASSUME Init PROVE RunInv
    OBVIOUS
  <2>1. pc = "idle" /\ db = base
    BY DEF Init, ProcessInit
  <2>2. Applied = {}
    BY <2>1, TtyInitInv, NothingApplied
  <2>3. QED
    BY <2>1, <2>2, FS_EmptySet DEF RunInv, CleanInv, StatusInv, OnPath, Working
<1>2. TtyInv /\ TtyInv' /\ RunInv /\ [Next]_vars => RunInv'
  <2> SUFFICES ASSUME TtyInv, TtyInv', RunInv, [Next]_vars
               PROVE  RunInv'
    OBVIOUS
  <2>1. CASE Progress
    <3>1. CASE \/ SelectUpdate \/ NextMirror \/ UpdateFails \/ UpdateArrives
               \/ FetchSignature \/ RunGpg \/ CheckMd5 \/ Accept
      BY <3>1, LoopRunInv
    <3>2. CASE ListFails \/ ListArrives
      BY <3>2, OutsideRunInv
    <3>3. CASE GiveUp \/ UpdateFailed
      BY <3>3, FailedRunRunInv
    <3>4. QED
      BY <2>1, <3>1, <3>2, <3>3, PatchExitsRunInv, UpdateCompleteRunInv, Zenon
         DEF Progress
  <2>2. QED
    BY <2>1, OutsideRunInv DEF Next
<1>3. QED
  BY <1>1, <1>2, TtyInvariant, PTL DEF Spec

(* However many mirrors and runs an archive was put together from, nothing *)
(* is left of it once it was applied (tty_ui.c:375-376, 153-158).          *)
THEOREM ArchivesAreRemoved == Spec => []NoArchiveLeft
<1>1. RunInv => NoArchiveLeft
  BY DEF RunInv, CleanInv, NoArchiveLeft, JustApplied, OnPath
<1>2. QED
  BY RunInvariant, <1>1, PTL

(* The status on which main() restarts the updater is the number of        *)
(* patches applied, for any number of components and patches               *)
(* (loki_update.c:316-331).                                                *)
THEOREM StatusIsTheCount == Spec => []StatusCounts
<1>1. RunInv => StatusCounts
  BY DEF RunInv, StatusInv, StatusCounts, JustApplied, OnPath
<1>2. QED
  BY RunInvariant, <1>1, PTL
-----------------------------------------------------------------------------
(***************************************************************************)
(* The refinement.  The versions of UpdateRun are db and its goal is Goal; *)
(* it takes a step where a run gets its list, where a patch exits, and     *)
(* where the run ends, and stutters elsewhere.                             *)
(***************************************************************************)

(* What Goal is while the cursor is on a path.                             *)
LEMMA GoalOnPath ==
  ASSUME TtyInv, pc \in OnPath
  PROVE  /\ Goal \in [Roots -> Nat] /\ db \in [Roots -> Nat]
         /\ Roots \subseteq Nat
         /\ cursor.root \in Roots /\ cursor.root = update_patch[1]
         /\ Goal[cursor.root] = cursor.last
         /\ \A r \in Roots : r < cursor.root => Goal[r] = db[r]
         /\ \A r \in Roots : r > cursor.root =>
              Goal[r] = IF selected[r] = 0 THEN db[r] ELSE selected[r]
<1>1. /\ update_patch # NoPatch /\ cursor.root = update_patch[1]
      /\ cursor.root \in Roots /\ Roots \subseteq Nat
      /\ cursor.last \in Nat /\ db \in [Roots -> Nat]
      /\ selected \in [Roots -> Nat]
  BY NoPatchNotIn, PatchType DEF TtyInv, TtyTypeOK, CursorInv, Roots
<1>2. pc \notin {"idle", "list"}
  BY DEF OnPath, Working
<1>3. Goal = [r \in Roots |->
                IF r < cursor.root THEN db[r]
                ELSE IF r = cursor.root THEN cursor.last
                ELSE IF selected[r] = 0 THEN db[r] ELSE selected[r]]
  BY <1>1, <1>2 DEF Goal
<1>4. Goal \in [Roots -> Nat]
  <2>1. \A r \in Roots : db[r] \in Nat /\ selected[r] \in Nat
    BY <1>1
  <2>2. QED
    BY <1>1, <1>3, <2>1
<1>5. Goal[cursor.root] = cursor.last
  <2>1. cursor.root \in Nat
    BY <1>1
  <2>2. ~(cursor.root < cursor.root)
    BY <2>1
  <2>3. QED
    BY <1>1, <1>3, <2>2
<1>6. \A r \in Roots : r < cursor.root => Goal[r] = db[r]
  BY <1>3
<1>7. \A r \in Roots : r > cursor.root =>
        Goal[r] = IF selected[r] = 0 THEN db[r] ELSE selected[r]
  <2> SUFFICES ASSUME NEW r \in Roots, r > cursor.root
               PROVE  Goal[r] = IF selected[r] = 0 THEN db[r] ELSE selected[r]
    OBVIOUS
  <2>1. r \in Nat /\ cursor.root \in Nat
    BY <1>1
  <2>2. ~(r < cursor.root) /\ r # cursor.root
    BY <2>1
  <2>3. Goal[r] = IF r < cursor.root THEN db[r]
                  ELSE IF r = cursor.root THEN cursor.last
                  ELSE IF selected[r] = 0 THEN db[r] ELSE selected[r]
    BY <1>3
  <2>4. QED
    BY <2>2, <2>3
<1>8. QED
  BY <1>1, <1>4, <1>5, <1>6, <1>7

(* Nothing is to be done outside a run that has its list.                  *)
LEMMA GoalOutside ==
  ASSUME TtyInv, pc \in {"idle", "list"} \/ update_patch = NoPatch
  PROVE  Goal = db
BY DEF Goal, TtyInv, TtyTypeOK

(* Goal is kept by what leaves the cursor, the versions and the selection  *)
(* ahead alone.                                                            *)
LEMMA GoalKept ==
  ASSUME pc \notin {"idle", "list"}, pc' \notin {"idle", "list"},
         UNCHANGED <<db, cursor, update_patch>>,
         \A r \in Roots : r # cursor.root => selected'[r] = selected[r]
  PROVE  Goal' = Goal
BY DEF Goal

(* ... in the next state.                                                  *)
LEMMA GoalOutsideNext ==
  ASSUME TtyInv', pc' \in {"idle", "list"} \/ update_patch' = NoPatch
  PROVE  Goal' = db'
BY DEF Goal, TtyInv, TtyTypeOK

(* Outcome tells apart a run with its list, one that is over, and neither. *)
LEMMA OutcomeIs ==
  /\ pc \in OnPath => Outcome = "running"
  /\ pc = "done" => Outcome = IF update_status < 0 THEN "failed" ELSE "succeeded"
  /\ pc \in {"idle", "list"} => Outcome = "none"
BY DEF Outcome, Running, Outside, OnPath, Working

(* ... in the next state.                                                  *)
LEMMA OutcomeNext ==
  /\ pc' \in OnPath => Outcome' = "running"
  /\ pc' = "done" => Outcome' = IF update_status' < 0 THEN "failed"
                               ELSE "succeeded"
  /\ pc' \in {"idle", "list"} => Outcome' = "none"
BY DEF Outcome, Running, Outside, OnPath, Working

(* A process begins without anything to do.                                *)
LEMMA StartStep ==
  ASSUME TtyInv, TtyInv', StartRun
  PROVE  Run!NoUpdate
<1>1. /\ pc \in {"idle", "done"} /\ pc' = "list" /\ db' = db
  BY DEF StartRun, Outside
<1>2. Outcome # "running" /\ Outcome' = "none"
  BY <1>1, OutcomeIs, OutcomeNext
<1>3. Goal' = db
  BY <1>1, GoalOutsideNext
<1>4. QED
  BY <1>1, <1>2, <1>3 DEF Run!NoUpdate

(* A kill aborts a run that has begun, and stutters otherwise.             *)
LEMMA KilledStep ==
  ASSUME TtyInv, TtyInv', Killed
  PROVE  Run!Abort \/ UNCHANGED <<db, Goal, Outcome>>
<1>1. pc \in OnPath \union {"list"} /\ pc' = "idle" /\ db' = db
  BY DEF Killed, TtyInv, TtyTypeOK, Points, Outside, OnPath, Working
<1>2. Goal' = db /\ Outcome' = "none"
  BY <1>1, GoalOutsideNext, OutcomeNext
<1>3. CASE pc = "list"
  BY <1>1, <1>2, <1>3, GoalOutside, OutcomeIs
<1>4. CASE pc \in OnPath
  BY <1>1, <1>2, <1>4, OutcomeIs DEF Run!Abort
<1>5. QED
  BY <1>1, <1>3, <1>4

(* A list that offers nothing, or is not to be had, ends the run.          *)
LEMMA NoListStep ==
  ASSUME TtyInv, TtyInv', RunInv, ListFails \/ ListArrives, pc' = "done"
  PROVE  Run!NoUpdate
<1>1. /\ pc = "list" /\ db' = db /\ update_status' = 0
      /\ update_patch' = NoPatch
  BY DEF ListFails, ListArrives, RunInv, StatusInv
<1>2. Outcome # "running" /\ Outcome' = "succeeded"
  BY <1>1, OutcomeIs, OutcomeNext
<1>3. Goal' = db
  BY <1>1, GoalOutsideNext
<1>4. QED
  BY <1>1, <1>2, <1>3 DEF Run!NoUpdate

(* One that offers something gives it its goal.                            *)
LEMMA ListStep ==
  ASSUME TtyInv, TtyInv', RunInv, ListArrives, pc' # "done"
  PROVE  Run!Begin
<1>1. /\ pc = "list" /\ pc' = "select" /\ db' = db /\ base' = base /\ db = base
      /\ pc' \in OnPath /\ pc' \notin {"idle", "list"}
      /\ update_patch' # NoPatch
  BY DEF ListArrives, TtyInv, VersionInv, OnPath
<1>2. Outcome # "running" /\ Outcome' = "running"
  BY <1>1, OutcomeIs, OutcomeNext
<1>3. PICK r \in Roots :
        /\ selected'[r] # 0
        /\ \A q \in Roots : q < r => selected'[q] = 0
        /\ cursor' = [root |-> r, last |-> selected'[r]]
  BY <1>1 DEF ListArrives, ResetSelectedUpdate
<1>4. /\ db \in [Roots -> Nat] /\ selected' \in [Roots -> Nat] /\ r \in Nat
      /\ \A q \in Roots : selected'[q] # 0 => selected'[q] > db[q]
  <2>1. PICK offer \in [Roots -> {0} \union {p[2] : p \in Patches}] :
           /\ \A q \in Roots : offer[q] # 0 => offer[q] \in base[q] + 1 .. Top[q]
           /\ selected' = offer
    BY DEF ListArrives
  <2>2. selected' \in [Roots -> Nat] /\ db \in [Roots -> Nat] /\ r \in Nat
    BY DEF TtyInv, TtyTypeOK, Roots
  <2>3. ASSUME NEW q \in Roots, selected'[q] # 0 PROVE selected'[q] > db[q]
    <3>1. selected'[q] \in base[q] + 1 .. Top[q] /\ db[q] = base[q]
      BY <1>1, <2>1, <2>3
    <3>2. db[q] \in Nat /\ selected'[q] \in Nat
      BY <2>2
    <3>3. QED
      BY <3>1, <3>2
  <2>4. QED
    BY <2>2, <2>3
<1>5. Goal' = [q \in Roots |-> IF selected'[q] = 0 THEN db[q] ELSE selected'[q]]
  <2>1. Goal' = [q \in Roots |->
                   IF q < cursor'.root THEN db'[q]
                   ELSE IF q = cursor'.root THEN cursor'.last
                   ELSE IF selected'[q] = 0 THEN db'[q] ELSE selected'[q]]
    BY <1>1 DEF Goal
  <2>2. cursor'.root = r /\ cursor'.last = selected'[r]
    BY <1>3
  <2>3. \A q \in Roots :
          (IF q < cursor'.root THEN db'[q]
           ELSE IF q = cursor'.root THEN cursor'.last
           ELSE IF selected'[q] = 0 THEN db'[q] ELSE selected'[q])
          = IF selected'[q] = 0 THEN db[q] ELSE selected'[q]
    <3> TAKE q \in Roots
    <3>1. q \in Nat /\ r \in Nat
      BY DEF Roots
    <3>2. q < r => selected'[q] = 0
      BY <1>3
    <3>3. CASE q < r
      BY <1>1, <2>2, <3>2, <3>3
    <3>4. CASE q = r
      BY <1>3, <2>2, <3>1, <3>4
    <3>5. CASE q > r
      BY <1>1, <2>2, <3>1, <3>5
    <3>6. QED
      BY <3>1, <3>3, <3>4, <3>5
  <2>4. QED
    BY <2>1, <2>3
<1>6. Goal' \in [Roots -> Nat]
  <2>1. \A q \in Roots : db[q] \in Nat /\ selected'[q] \in Nat
    BY <1>4
  <2>2. QED
    BY <1>5, <2>1
<1>7. \A q \in Roots : Goal'[q] >= db[q]
  <2> TAKE q \in Roots
  <2>1. Goal'[q] = IF selected'[q] = 0 THEN db[q] ELSE selected'[q]
    BY <1>5
  <2>2. db[q] \in Nat /\ selected'[q] \in Nat
    BY <1>4
  <2>3. QED
    BY <1>4, <2>1, <2>2
<1>8. Goal' # db
  <2>1. Goal'[r] = selected'[r]
    BY <1>3, <1>5
  <2>2. selected'[r] > db[r] /\ db[r] \in Nat
    BY <1>3, <1>4
  <2>3. QED
    BY <2>1, <2>2
<1>9. QED
  BY <1>1, <1>2, <1>6, <1>7, <1>8 DEF Run!Begin, Run!Roots, Roots

(* What lies between the patch that is left and the one that is reached    *)
(* is done or was never to be done: every component before the latter is   *)
(* at its goal.                                                            *)
LEMMA BehindIsDone ==
  ASSUME TtyInv, pc = "select", NEW r \in Roots,
         \A p \in Ahead \ installed : r < p[1],
         r >= cursor.root
  PROVE  Goal[r] = db[r]
<1>1. /\ update_patch \in Patches /\ cursor.root = update_patch[1]
      /\ update_patch[2] <= cursor.last /\ cursor.last <= Top[update_patch[1]]
      /\ \A p \in installed :
           p[1] < cursor.root \/ (p[1] = cursor.root /\ p[2] <= update_patch[2])
      /\ \A q \in Roots : q > cursor.root =>
            /\ db[q] = base[q]
            /\ selected[q] # 0 => selected[q] \in base[q] + 1 .. Top[q]
      /\ db[update_patch[1]] = IF update_patch \in installed THEN update_patch[2]
                               ELSE update_patch[2] - 1
  BY DEF TtyInv, CursorInv, VersionInv, CurrentDone, OnPath
<1>2. /\ update_patch[1] \in Roots /\ update_patch[2] \in 1..Top[update_patch[1]]
      /\ update_patch = <<update_patch[1], update_patch[2]>>
      /\ Top[update_patch[1]] \in Nat /\ r \in Nat /\ cursor.root \in Nat
      /\ cursor.last \in Nat /\ db \in [Roots -> Nat] /\ base \in [Roots -> Nat]
      /\ selected \in [Roots -> Nat]
  BY <1>1, PatchType DEF Roots, TtyInv, TtyTypeOK
<1>3. CASE r = cursor.root
  <2>1. <<r, cursor.last>> \in Ahead
    BY <1>1, <1>2, <1>3 DEF Ahead
  <2>2. <<r, cursor.last>> \in installed
    BY <1>2, <2>1
  <2>3. cursor.last <= update_patch[2]
    BY <1>1, <1>2, <1>3, <2>2
  <2>4. cursor.last = update_patch[2]
    BY <1>1, <1>2, <2>3
  <2>5. update_patch = <<r, cursor.last>>
    BY <1>1, <1>2, <1>3, <2>4
  <2>6. db[r] = cursor.last
    BY <1>1, <1>3, <2>2, <2>4, <2>5
  <2>7. QED
    BY <1>3, <2>6, GoalOnPath DEF OnPath
<1>4. CASE r > cursor.root
  <2>1. SUFFICES ASSUME selected[r] # 0 PROVE FALSE
    BY <1>4, GoalOnPath DEF OnPath
  <2>2. selected[r] \in base[r] + 1 .. Top[r] /\ base[r] \in Nat
        /\ selected[r] \in Nat
    BY <1>1, <1>2, <1>4, <2>1
  <2>3. selected[r] \in 1..Top[r]
    BY <2>2
  <2>4. <<r, selected[r]>> \in Patches
    BY <2>3, PatchIntro
  <2>5. <<r, selected[r]>> \in Ahead
    BY <1>4, <2>2, <2>4 DEF Ahead
  <2>6. <<r, selected[r]>> \notin installed
    BY <1>1, <1>2, <1>4
  <2>7. QED
    BY <1>2, <2>5, <2>6
<1>5. QED
  BY <1>2, <1>3, <1>4

(* The walk that finds nothing has reached the goal ...                    *)
LEMMA SelectDoneStep ==
  ASSUME TtyInv, TtyInv', RunInv, SelectUpdate, update_patch' = NoPatch
  PROVE  Run!Succeed
<1>1. /\ pc = "select" /\ pc' = "done" /\ db' = db
      /\ update_status' = update_status /\ pc \in OnPath
      /\ update_patch # NoPatch
  BY NoPatchNotIn DEF SelectUpdate, OnPath, TtyInv, CursorInv
<1>2. Ahead \subseteq installed
  <2>1. NoPatch \notin Ahead
    <3>1. \A j : <<cursor.root, j>> # NoPatch
      BY <1>1, GoalOnPath DEF NoPatch, Roots
    <3>2. QED
      BY <3>1, NoPatchNotIn DEF Ahead
  <2>2. QED
    BY <1>1, <2>1 DEF SelectUpdate, SkipToSelectedUpdate
<1>3. update_status >= 0 /\ update_status \in Int
  BY <1>1 DEF RunInv, StatusInv, TtyInv, TtyTypeOK
<1>4. Outcome = "running" /\ Outcome' = "succeeded"
  BY <1>1, <1>3, OutcomeIs, OutcomeNext
<1>5. Goal' = db
  BY <1>1, GoalOutsideNext
<1>6. \A r \in Roots : Goal[r] = db[r]
  <2> TAKE r \in Roots
  <2>1. r \in Nat /\ cursor.root \in Nat
    BY <1>1, GoalOnPath
  <2>2. CASE r < cursor.root
    BY <1>1, <2>2, GoalOnPath
  <2>3. CASE r >= cursor.root
    BY <1>1, <1>2, <2>3, BehindIsDone
  <2>4. QED
    BY <2>1, <2>2, <2>3
<1>7. Goal = db
  BY <1>1, <1>6, GoalOnPath
<1>8. QED
  BY <1>1, <1>4, <1>5, <1>7 DEF Run!Succeed

(* ... and one that moves on, to whichever component, keeps it.            *)
LEMMA SelectNextStep ==
  ASSUME TtyInv, TtyInv', SelectUpdate, update_patch' # NoPatch
  PROVE  UNCHANGED <<db, Goal, Outcome>>
<1>1. /\ pc = "select" /\ pc' = "mirror" /\ db' = db /\ selected' = selected
      /\ pc \in OnPath /\ pc' \in OnPath /\ pc' \notin {"idle", "list"}
  BY DEF SelectUpdate, OnPath, Working
<1>2. PICK p \in Ahead \ installed :
         /\ \A q \in Ahead \ installed : q = p \/ Precedes(p, q)
         /\ update_patch' = p
         /\ cursor' = [root |-> p[1],
                       last |-> IF p[1] = cursor.root THEN cursor.last
                                ELSE selected[p[1]]]
  BY DEF SelectUpdate, SkipToSelectedUpdate
<1>3. /\ p \in Patches /\ p[1] >= cursor.root
      /\ p[1] > cursor.root => p[2] \in base[p[1]] + 1 .. selected[p[1]]
  BY <1>1, <1>2, SkipIsNext
<1>4. /\ p[1] \in Roots /\ p[1] \in Nat /\ cursor.root \in Nat
      /\ cursor'.root = p[1]
      /\ cursor'.last = IF p[1] = cursor.root THEN cursor.last
                        ELSE selected[p[1]]
      /\ base \in [Roots -> Nat] /\ selected \in [Roots -> Nat]
      /\ Ahead \subseteq { <<cursor.root, k>> : k \in update_patch[2]..cursor.last }
                          \union Patches
  BY <1>1, <1>2, <1>3, PatchType, GoalOnPath DEF Roots, Ahead, TtyInv, TtyTypeOK
<1>5. \A r \in Roots : r >= cursor.root /\ r < p[1] => Goal[r] = db[r]
  <2> SUFFICES ASSUME NEW r \in Roots, r >= cursor.root, r < p[1]
               PROVE  Goal[r] = db[r]
    OBVIOUS
  <2>1. \A q \in Ahead \ installed : r < q[1]
    <3> TAKE q \in Ahead \ installed
    <3>1. q = p \/ p[1] < q[1] \/ p[1] = q[1]
      BY <1>2 DEF Precedes
    <3>2. q[1] \in Nat /\ r \in Nat
      BY <1>4, PatchType DEF Roots
    <3>3. QED
      BY <1>4, <3>1, <3>2
  <2>2. QED
    BY <1>1, <2>1, BehindIsDone
<1>6. Goal' = [r \in Roots |->
                 IF r < p[1] THEN db[r]
                 ELSE IF r = p[1] THEN cursor'.last
                 ELSE IF selected[r] = 0 THEN db[r] ELSE selected[r]]
  BY <1>1, <1>4 DEF Goal
<1>7. \A r \in Roots : Goal[r] = IF r < p[1] THEN db[r]
                                 ELSE IF r = p[1] THEN cursor'.last
                                 ELSE IF selected[r] = 0 THEN db[r] ELSE selected[r]
  <2> TAKE r \in Roots
  <2>1. r \in Nat
    BY DEF Roots
  <2>2. CASE r < p[1]
    BY <1>1, <1>4, <1>5, <2>1, <2>2, GoalOnPath
  <2>3. CASE r = p[1]
    <3>1. CASE p[1] = cursor.root
      BY <1>1, <1>4, <2>3, <3>1, GoalOnPath
    <3>2. CASE p[1] # cursor.root
      <4>1. p[1] > cursor.root
        BY <1>3, <1>4, <3>2
      <4>2. selected[p[1]] # 0
        BY <1>3, <1>4, <4>1
      <4>3. Goal[r] = selected[r] /\ cursor'.last = selected[r]
        BY <1>1, <1>4, <2>3, <3>2, <4>1, <4>2, GoalOnPath
      <4>4. ~(r < p[1])
        BY <1>4, <2>3
      <4>5. QED
        BY <2>3, <4>3, <4>4
    <3>3. QED
      BY <3>1, <3>2
  <2>4. CASE r > p[1]
    <3>1. r > cursor.root /\ ~(r < p[1]) /\ r # p[1]
      BY <1>3, <1>4, <2>1, <2>4
    <3>2. QED
      BY <1>1, <3>1, GoalOnPath
  <2>5. QED
    BY <1>4, <2>1, <2>2, <2>3, <2>4
<1>8. Goal' = Goal
  BY <1>1, <1>6, <1>7, GoalOnPath
<1>9. QED
  BY <1>1, <1>8, OutcomeIs, OutcomeNext

(* Inside the loop nothing of it is seen.                                  *)
LEMMA LoopStep ==
  ASSUME TtyInv,
         \/ NextMirror \/ UpdateFails \/ UpdateArrives \/ FetchSignature
         \/ RunGpg \/ CheckMd5 \/ Accept
  PROVE  UNCHANGED <<db, Goal, Outcome>>
<1>1. /\ pc \in Working /\ pc' \in Working
      /\ UNCHANGED <<db, cursor, update_patch, selected>>
  BY DEF Working, NextMirror, UpdateFails, UpdateArrives, FetchSignature,
         RunGpg, CheckMd5, Accept, TryAnotherMirror
<1>2. /\ pc \in OnPath /\ pc' \in OnPath
      /\ pc \notin {"idle", "list"} /\ pc' \notin {"idle", "list"}
  BY <1>1 DEF OnPath, Working
<1>3. QED
  BY <1>1, <1>2, GoalKept, OutcomeIs, OutcomeNext

(* Nor of the cleaning up after a patch: what is deselected is at the      *)
(* cursor, and its goal is the end of the path.                            *)
LEMMA CleanupKeepsGoal ==
  ASSUME TtyInv, pc \in {"verdict", "reap"}, NEW obsolete \in BOOLEAN,
         CleanupUpdate(obsolete), UNCHANGED <<db, cursor, update_patch>>
  PROVE  Goal' = Goal
<1>1. update_patch \in Patches /\ cursor.root = update_patch[1]
  BY DEF TtyInv, CursorInv, OnPath, Working
<1>2. \A r \in Roots : r # cursor.root => selected'[r] = selected[r]
  BY <1>1, CleanupTypes
<1>3. pc' \in {"select", "done"}
  BY DEF CleanupUpdate
<1>4. QED
  BY <1>2, <1>3, GoalKept

(* A patch that is counted leaves the run running.                         *)
LEMMA CompleteStep ==
  ASSUME TtyInv, RunInv, UpdateComplete
  PROVE  UNCHANGED <<db, Goal, Outcome>>
<1>1. /\ pc = "reap" /\ pc \in OnPath
      /\ update_status' = update_status + 1
      /\ UNCHANGED <<db, cursor, update_patch>> /\ CleanupUpdate(TRUE)
  BY DEF UpdateComplete, OnPath, Working
<1>2. update_status >= 0 /\ update_status \in Int
  BY <1>1 DEF RunInv, StatusInv, TtyInv, TtyTypeOK
<1>3. pc' = "select"
  BY <1>1, <1>2 DEF CleanupUpdate
<1>4. Goal' = Goal
  BY <1>1, CleanupKeepsGoal
<1>5. Outcome = "running" /\ Outcome' = "running"
  BY <1>1, <1>3, OutcomeIs, OutcomeNext DEF OnPath
<1>6. QED
  BY <1>1, <1>4, <1>5

(* A run that fails does so before its goal is reached.                    *)
LEMMA FailStep ==
  ASSUME TtyInv, GiveUp \/ UpdateFailed
  PROVE  Run!Fail
<1>1. /\ pc \in {"verdict", "reap"} /\ pc \in OnPath /\ ~CurrentDone
      /\ update_status' = -1
      /\ UNCHANGED <<db, cursor, update_patch>>
      /\ \E obsolete \in BOOLEAN : CleanupUpdate(obsolete)
  BY DEF GiveUp, UpdateFailed, OnPath, Working, CurrentDone
<1>2. pc' = "done"
  BY <1>1 DEF CleanupUpdate
<1>3. Goal' = Goal
  BY <1>1, CleanupKeepsGoal
<1>4. Outcome = "running" /\ Outcome' = "failed"
  BY <1>1, <1>2, OutcomeIs, OutcomeNext
<1>5. /\ db[cursor.root] = update_patch[2] - 1
      /\ update_patch[2] <= cursor.last
      /\ update_patch[2] \in Nat /\ cursor.last \in Nat
  <2>1. /\ update_patch \in Patches /\ cursor.root = update_patch[1]
        /\ update_patch[2] <= cursor.last
        /\ db[update_patch[1]] = update_patch[2] - 1
    BY <1>1 DEF TtyInv, CursorInv, VersionInv
  <2>2. cursor.last \in Nat
    BY DEF TtyInv, TtyTypeOK
  <2>3. QED
    BY <2>1, <2>2, PatchType
<1>6. Goal[cursor.root] = cursor.last
  BY <1>1, GoalOnPath
<1>7. db # Goal
  BY <1>5, <1>6
<1>8. QED
  BY <1>1, <1>3, <1>4, <1>7 DEF Run!Fail

(* A patch that succeeds is the next one of the first component that is    *)
(* behind; one that fails is not seen until the run ends.                  *)
LEMMA ApplyStep ==
  ASSUME TtyInv, TtyInv', PatchExits
  PROVE  (\E r \in Roots : Run!Apply(r)) \/ UNCHANGED <<db, Goal, Outcome>>
<1>1. /\ pc = "perform" /\ pc' = "reap" /\ pc \in OnPath /\ pc' \in OnPath
      /\ UNCHANGED <<cursor, update_patch, selected>>
      /\ pc \notin {"idle", "list"} /\ pc' \notin {"idle", "list"}
      /\ ~CurrentDone
  BY DEF PatchExits, OnPath, Working, CurrentDone
<1>2. Outcome = "running" /\ Outcome' = "running"
  BY <1>1, OutcomeIs, OutcomeNext
<1>3. CASE exit' = "error" /\ db' = db
  BY <1>1, <1>2, <1>3, GoalKept
<1>4. CASE exit' = "ok" /\ db' = [db EXCEPT ![update_patch[1]] = update_patch[2]]
  <2>1. PICK r \in Roots : r = update_patch[1]
    BY <1>1, PatchType DEF TtyInv, CursorInv
  <2>2. /\ update_patch \in Patches /\ r = cursor.root
        /\ update_patch[2] <= cursor.last
        /\ db[r] = update_patch[2] - 1
    BY <1>1, <2>1 DEF TtyInv, CursorInv, VersionInv
  <2>3. /\ r \in Nat /\ update_patch[2] \in Nat
        /\ cursor.last \in Nat /\ db \in [Roots -> Nat] /\ Roots \subseteq Nat
    <3>1. update_patch[2] \in Nat
      BY <2>2, PatchType
    <3>2. QED
      BY <3>1 DEF TtyInv, TtyTypeOK, Roots
  <2>4. /\ db' = [db EXCEPT ![r] = db[r] + 1]
        /\ \A q \in Roots : q # r => db'[q] = db[q]
    <3>1. db[r] + 1 = update_patch[2]
      BY <2>2, <2>3
    <3>2. QED
      BY <1>4, <2>1, <2>3, <3>1
  <2>5. db[r] < Goal[r] /\ \A q \in Roots : q < r => db[q] = Goal[q]
    BY <1>1, <2>2, <2>3, GoalOnPath
  <2>6. Goal' = Goal
    <3>1. Goal = [q \in Roots |->
                    IF q < r THEN db[q]
                    ELSE IF q = r THEN cursor.last
                    ELSE IF selected[q] = 0 THEN db[q] ELSE selected[q]]
      BY <1>1, <2>2, NoPatchNotIn DEF Goal
    <3>2. Goal' = [q \in Roots |->
                    IF q < r THEN db'[q]
                    ELSE IF q = r THEN cursor.last
                    ELSE IF selected[q] = 0 THEN db'[q] ELSE selected[q]]
      BY <1>1, <2>2, NoPatchNotIn DEF Goal
    <3>3. ~(r < r)
      BY <2>3
    <3>4. \A q \in Roots :
            (IF q < r THEN db'[q]
             ELSE IF q = r THEN cursor.last
             ELSE IF selected[q] = 0 THEN db'[q] ELSE selected[q])
            = (IF q < r THEN db[q]
               ELSE IF q = r THEN cursor.last
               ELSE IF selected[q] = 0 THEN db[q] ELSE selected[q])
      BY <2>4, <3>3
    <3>5. QED
      BY <3>1, <3>2, <3>4
  <2>7. Run!Apply(r)
    BY <1>2, <2>4, <2>5, <2>6 DEF Run!Apply, Run!Roots, Roots
  <2>8. QED
    BY <2>7
<1>5. QED
  BY <1>3, <1>4 DEF PatchExits

(* A run of the terminal interface, with its mirrors, downloads, checks    *)
(* and kills, is a run of UpdateRun, for any number of components and any  *)
(* length of their paths: patches are applied one at a time and without a  *)
(* gap, success means that all that was selected is installed, failure     *)
(* that something is not (tty_ui.c:90-189, 240-390).                       *)
THEOREM RunsAreUpdateRuns == Spec => ImplementsUpdateRun
<1>1. Init => Run!Init
  <2> SUFFICES ASSUME Init PROVE Run!Init
    OBVIOUS
  <2>1. pc = "idle" /\ db = [r \in Roots |-> 0]
    BY DEF Init, ProcessInit
  <2>2. Goal = db /\ Outcome = "none"
    BY <2>1, TtyInitInv, GoalOutside, OutcomeIs
  <2>3. QED
    BY <2>1, <2>2 DEF Run!Init, Run!Roots, Roots
<1>2. /\ TtyInv /\ TtyInv' /\ RunInv /\ RunInv' /\ [Next]_vars
      => [Run!Next]_(Run!vars)
  <2> SUFFICES ASSUME TtyInv, TtyInv', RunInv, RunInv', [Next]_vars
               PROVE  Run!Next \/ UNCHANGED <<db, Goal, Outcome>>
    BY DEF Run!vars
  <2>1. CASE StartRun
    BY <2>1, StartStep DEF Run!Next
  <2>2. CASE Killed
    BY <2>2, KilledStep DEF Run!Next
  <2>3. CASE ListFails \/ ListArrives
    <3>1. CASE pc' = "done"
      BY <2>3, <3>1, NoListStep DEF Run!Next
    <3>2. CASE pc' # "done"
      <4>1. ListArrives
        BY <2>3, <3>2 DEF ListFails
      <4>2. QED
        BY <3>2, <4>1, ListStep DEF Run!Next
    <3>3. QED
      BY <3>1, <3>2
  <2>4. CASE SelectUpdate
    <3>1. CASE update_patch' = NoPatch
      BY <2>4, <3>1, SelectDoneStep DEF Run!Next
    <3>2. CASE update_patch' # NoPatch
      BY <2>4, <3>2, SelectNextStep
    <3>3. QED
      BY <3>1, <3>2
  <2>5. CASE \/ NextMirror \/ UpdateFails \/ UpdateArrives \/ FetchSignature
             \/ RunGpg \/ CheckMd5 \/ Accept
    BY <2>5, LoopStep
  <2>6. CASE UpdateComplete
    BY <2>6, CompleteStep
  <2>7. CASE GiveUp \/ UpdateFailed
    BY <2>7, FailStep DEF Run!Next
  <2>8. CASE PatchExits
    BY <2>8, ApplyStep DEF Run!Next, Run!Roots, Roots
  <2>9. CASE UNCHANGED vars
    BY <2>9 DEF vars, processVars, Goal, Outcome, Running
  <2>10. CASE Progress
    BY <2>3, <2>4, <2>5, <2>6, <2>7, <2>8, <2>10, Zenon DEF Progress
  <2>11. QED
    BY <2>1, <2>2, <2>9, <2>10 DEF Next
<1>3. QED
  BY <1>1, <1>2, TtyInvariant, RunInvariant, PTL
     DEF Spec, ImplementsUpdateRun, Run!Spec
=============================================================================
