------------------------------ MODULE TtyUpdate ------------------------------
(***************************************************************************)
(* The terminal interface (tty_ui.c): one run fetches the update list of a *)
(* product, and then, until nothing is selected or something fails,        *)
(* downloads the next patch from one mirror after another, checks it and   *)
(* executes it.  The installed versions and the downloaded archives        *)
(* survive the process; everything else does not.                          *)
(*                                                                         *)
(* The product has NumRoots components with a selected upgrade path at     *)
(* most each (version_node trees, in the order of the sibling list).  The  *)
(* patches of component r are numbered by the version they lead to:        *)
(* patch <<r, k>> turns version k-1 into version k.                        *)
(***************************************************************************)
EXTENDS MirrorSet, ArchiveFile, FiniteSets

CONSTANTS
  NumRoots,     \* the number of component roots
  Top,          \* the latest version of each that a list may offer
  Published,    \* the mirrors the update list names, in its order
  MaxRuns       \* a bound on the runs of the updater, for model checking

ASSUME TtyAssumption ==
  /\ NumRoots \in Nat \ {0}
  /\ Top \in [1..NumRoots -> Nat]
  /\ Published \in Seq(Mirrors)
  /\ \A i, j \in 1..Len(Published) : Published[i] = Published[j] => i = j
  /\ MaxRuns \in Nat

Roots   == 1..NumRoots
Patches == UNION { {r} \X (1..Top[r]) : r \in Roots }

VARIABLES
  db,               \* the version of each component the product database has
  file,             \* the content of each patch's file in the temporary path
  pc,               \* where the process is
  base,             \* db when the patchset was created (create_patchset)
  selected,         \* root->selected of each component, 0 for NULL
  cursor,           \* update_root, update_path and the end of that path
  update_patch,     \* the current patch, NoPatch for NULL
  installed,        \* the patches with the installed flag set
  verified,         \* verified in download_update()
  evidence,         \* which check the accepted archive was put to, if any
  rekeyed,          \* get_publickey() was called for this archive
  exit,             \* exit status of the patch program
  update_status,    \* update_status
  runs              \* how many runs were started

processVars ==
  <<pc, base, selected, cursor, update_patch, installed, verified, evidence,
    rekeyed, exit, update_status>>

vars == <<mirrorVars, processVars, db, file, runs>>

NoPatch  == <<0, 0>>
NoCursor == [root |-> 0, last |-> 0]

(* The program counter: outside a run, at a call that waits for the        *)
(* network, for gpg or for the patch program, or at a point between two.   *)
Outside == {"idle", "done"}
Points  == Outside \union
  {"list", "select", "mirror", "update", "sig", "gpg", "md5", "verdict",
   "perform", "reap"}

Verdicts == {"DOWNLOAD_FAILED", "VERIFY_OK", "VERIFY_UNKNOWN", "VERIFY_FAILED"}

(* What gpg_verify() can say: that a signature is good only of the whole   *)
(* archive; everything else of any content, for the signature file may be  *)
(* stale or damaged too.                                                   *)
GpgResults(content) ==
  {"GPG_NOTINSTALLED", "GPG_CANCELLED", "GPG_NOPUBKEY", "GPG_VERIFYFAIL"}
    \union (IF content = "full" THEN {"GPG_VERIFYOK"} ELSE {})

(* The MD5 check: no checksum to be had, or the comparison.                *)
Md5Results(content) ==
  {"unavailable", "mismatch"} \union (IF content = "full" THEN {"match"} ELSE {})

(***************************************************************************)
(* The cursor.  The shortest path of the node selected in component r      *)
(* consists of patches base[r]+1 .. selected[r]; the list the cursor is on *)
(* was read when it entered the component, and ends at cursor.last.        *)
(***************************************************************************)
Precedes(p, q) == p[1] < q[1] \/ (p[1] = q[1] /\ p[2] < q[2])

\* Faulty variant: the walk stops at the end of the current path.
AheadOnThisPath == { <<cursor.root, k>> : k \in update_patch[2]..cursor.last }

(* The patches from the cursor on, in the walk of skip_to_selected_update. *)
Ahead ==
  { <<cursor.root, k>> : k \in update_patch[2]..cursor.last }
    \union { p \in Patches : /\ p[1] > cursor.root
                             /\ p[2] \in base[p[1]] + 1 .. selected[p[1]] }

(* skip_to_selected_update(): move to the first patch not yet installed.   *)
SkipToSelectedUpdate ==
  \/ /\ update_patch # NoPatch
     /\ \E p \in Ahead \ installed :
          /\ \A q \in Ahead \ installed : q = p \/ Precedes(p, q)
          /\ update_patch' = p
          /\ cursor' = [root |-> p[1],
                        last |-> IF p[1] = cursor.root THEN cursor.last
                                 ELSE selected[p[1]]]
  \/ /\ update_patch = NoPatch \/ Ahead \subseteq installed
     /\ update_patch' = NoPatch
     /\ cursor' = NoCursor

\* Faulty variant: the path is entered at the installed version itself.
ResetOneTooEarly ==
  \/ /\ \A r \in Roots : selected'[r] = 0
     /\ update_patch' = NoPatch
     /\ cursor' = NoCursor
  \/ \E r \in Roots :
       /\ selected'[r] # 0
       /\ \A q \in Roots : q < r => selected'[q] = 0
       /\ update_patch' = <<r, base[r]>>
       /\ cursor' = [root |-> r, last |-> selected'[r]]

(* reset_selected_update(): the start of the first selected path.          *)
ResetSelectedUpdate ==
  \/ /\ \A r \in Roots : selected'[r] = 0
     /\ update_patch' = NoPatch
     /\ cursor' = NoCursor
  \/ \E r \in Roots :
       /\ selected'[r] # 0
       /\ \A q \in Roots : q < r => selected'[q] = 0
       /\ update_patch' = <<r, base[r] + 1>>
       /\ cursor' = [root |-> r, last |-> selected'[r]]

(* select_node(node, 0): the version before it in the tree, if any, is     *)
(* selected instead.                                                       *)
Deselect(p) ==
  selected' = [selected EXCEPT
                 ![p[1]] = IF p[2] - 1 > base[p[1]] THEN p[2] - 1 ELSE 0]

\* Faulty variant: the next patch is downloaded although an update has failed.
CleanupAndGoOn(obsolete) ==
  /\ file' = IF obsolete THEN [file EXCEPT ![update_patch] = "none"] ELSE file
  /\ Deselect(update_patch)
  /\ pc' = "select"

(* cleanup_update(): forget the archive if it is obsolete, deselect the    *)
(* patch, and go on with the next one unless an update has failed.         *)
CleanupUpdate(obsolete) ==
  /\ file' = IF obsolete THEN [file EXCEPT ![update_patch] = "none"] ELSE file
  /\ Deselect(update_patch)
  /\ pc' = IF update_status' >= 0 THEN "select" ELSE "done"

-----------------------------------------------------------------------------
ProcessInit ==
  /\ pc = "idle"
  /\ base = [r \in Roots |-> 0]
  /\ selected = [r \in Roots |-> 0]
  /\ cursor = NoCursor
  /\ update_patch = NoPatch
  /\ installed = {}
  /\ verified = "DOWNLOAD_FAILED"
  /\ evidence = "none"
  /\ rekeyed = FALSE
  /\ exit = "ok"
  /\ update_status = 0

Init ==
  /\ MirrorInit
  /\ ProcessInit
  /\ db = [r \in Roots |-> 0]
  /\ file = [p \in Patches |-> "none"]
  /\ runs = 0

(* ttyui_update_product() and update_product() up to the download of the   *)
(* list: create_patchset() reads the installed versions.                   *)
StartRun ==
  /\ pc \in Outside
  /\ runs < MaxRuns
  /\ runs' = runs + 1
  /\ pc' = "list"
  /\ base' = db
  /\ selected' = [r \in Roots |-> 0]
  /\ cursor' = NoCursor
  /\ update_patch' = NoPatch
  /\ installed' = {}
  /\ verified' = "DOWNLOAD_FAILED"
  /\ evidence' = "none"
  /\ rekeyed' = FALSE
  /\ exit' = "ok"
  /\ update_status' = 0
  /\ RecreateUrlset
  /\ UNCHANGED <<db, file>>

(* The list could not be retrieved: update_product() returns and leaves    *)
(* update_status as it is.                                                 *)
ListFails ==
  /\ pc = "list"
  /\ pc' = "done"
  /\ UNCHANGED <<mirrorVars, base, selected, cursor, update_patch, installed,
                 verified, evidence, rekeyed, exit, update_status, db, file, runs>>

(* load_patchset() has selected what the list offers for the installed     *)
(* versions, and shuffled its mirrors.                                     *)
ListArrives ==
  /\ pc = "list"
  /\ \E offer \in [Roots -> {0} \union {p[2] : p \in Patches}] :
       /\ \A r \in Roots : offer[r] # 0 => offer[r] \in base[r] + 1 .. Top[r]
       /\ selected' = offer
  /\ LoadUrls(Published)
  /\ ResetSelectedUpdate
  /\ pc' = IF update_patch' = NoPatch THEN "done" ELSE "select"
  /\ UNCHANGED <<base, installed, verified, evidence, rekeyed, exit,
                 update_status, db, file, runs>>

(* download_update(), to the top of its loop.                              *)
SelectUpdate ==
  /\ pc = "select"
  /\ SkipToSelectedUpdate
  /\ IF update_patch' = NoPatch
     THEN pc' = "done" /\ UNCHANGED <<installed, verified, evidence>>
     ELSE /\ pc' = "mirror"
          /\ installed' = installed \union {update_patch'}
          /\ verified' = "DOWNLOAD_FAILED"
          /\ evidence' = "none"
  /\ UNCHANGED <<mirrorVars, base, selected, rekeyed, exit, update_status,
                 db, file, runs>>

(* The top of the loop: ask for the next URL, leave the loop without one.  *)
NextMirror ==
  /\ pc = "mirror"
  /\ GetNextUrl
  /\ pc' = IF current' = 0 THEN "verdict" ELSE "update"
  /\ UNCHANGED <<base, selected, cursor, update_patch, installed, verified,
                 evidence, rekeyed, exit, update_status, db, file, runs>>

\* Faulty variant: a corrupt archive does not mark the mirror it came from.
TryUnmarkedMirror(v) ==
  /\ IF v = "VERIFY_FAILED" THEN UNCHANGED mirrorVars
     ELSE SetUrlStatus(URL_FAILED)
  /\ verified' = v
  /\ pc' = "mirror"

\* Faulty variant: a corrupt archive ends the loop.
TryOnlyAfterFailedDownload(v) ==
  /\ SetUrlStatus(URL_FAILED)
  /\ verified' = v
  /\ pc' = IF v = "VERIFY_FAILED" THEN "verdict" ELSE "mirror"

(* Every path back to the top of the loop marks the mirror.                *)
TryAnotherMirror(v) ==
  /\ SetUrlStatus(URL_FAILED)
  /\ verified' = v
  /\ pc' = "mirror"

UpdateFails ==
  /\ pc = "update"
  /\ \E c \in Interrupted(file[update_patch]) :
       file' = [file EXCEPT ![update_patch] = c]
  /\ TryAnotherMirror("DOWNLOAD_FAILED")
  /\ UNCHANGED <<base, selected, cursor, update_patch, installed, evidence,
                 rekeyed, exit, update_status, db, runs>>

UpdateArrives ==
  /\ pc = "update"
  /\ \E c \in Fetched(file[update_patch]) :
       file' = [file EXCEPT ![update_patch] = c]
  /\ verified' = "VERIFY_UNKNOWN"
  /\ rekeyed' = FALSE
  /\ pc' = "sig"
  /\ UNCHANGED <<mirrorVars, base, selected, cursor, update_patch, installed,
                 evidence, exit, update_status, db, runs>>

(* The signature is there, or it is not and the MD5 checksum is tried.     *)
FetchSignature ==
  /\ pc = "sig"
  /\ pc' \in {"gpg", "md5"}
  /\ UNCHANGED <<mirrorVars, base, selected, cursor, update_patch, installed,
                 verified, evidence, rekeyed, exit, update_status,
                 db, file, runs>>

(* do_gpg_verify(): after one search for a missing key gpg is run again,   *)
(* whatever the search found.                                              *)
RunGpg ==
  /\ pc = "gpg"
  /\ \E code \in GpgResults(file[update_patch]) :
       \/ /\ code = "GPG_NOPUBKEY" /\ ~rekeyed
          /\ rekeyed' = TRUE
          /\ UNCHANGED <<mirrorVars, pc, verified, evidence>>
       \/ /\ code \in {"GPG_NOTINSTALLED", "GPG_CANCELLED"}
               \/ (code = "GPG_NOPUBKEY" /\ rekeyed)
          /\ pc' = "md5"
          /\ UNCHANGED <<mirrorVars, verified, evidence, rekeyed>>
       \/ /\ code = "GPG_VERIFYFAIL"
          /\ TryAnotherMirror("VERIFY_FAILED")
          /\ UNCHANGED <<evidence, rekeyed>>
       \/ /\ code = "GPG_VERIFYOK"
          /\ verified' = "VERIFY_OK"
          /\ evidence' = "gpg"
          /\ pc' = "verdict"
          /\ UNCHANGED <<mirrorVars, rekeyed>>
  /\ UNCHANGED <<base, selected, cursor, update_patch, installed, exit,
                 update_status, db, file, runs>>

\* Faulty variant: the checksum is compared, and the result ignored.
CheckMd5InVain ==
  /\ pc = "md5"
  /\ \E result \in Md5Results(file[update_patch]) :
       evidence' = IF result = "unavailable" THEN "none" ELSE "md5"
  /\ pc' = "verdict"
  /\ UNCHANGED <<mirrorVars, base, selected, cursor, update_patch, installed,
                 verified, rekeyed, exit, update_status, db, file, runs>>

CheckMd5 ==
  /\ pc = "md5"
  /\ \E result \in Md5Results(file[update_patch]) :
       \/ /\ result = "mismatch"
          /\ TryAnotherMirror("VERIFY_FAILED")
          /\ UNCHANGED evidence
       \/ /\ result # "mismatch"
          /\ evidence' = IF result = "unavailable" THEN "none" ELSE "md5"
          /\ pc' = "verdict"
          /\ UNCHANGED <<mirrorVars, verified>>
  /\ UNCHANGED <<base, selected, cursor, update_patch, installed, rekeyed, exit,
                 update_status, db, file, runs>>

(* After the loop.  An update that is not known to be bad is executed.     *)
Accept ==
  /\ pc = "verdict"
  /\ verified \in {"VERIFY_UNKNOWN", "VERIFY_OK"}
  /\ pc' = "perform"
  /\ UNCHANGED <<mirrorVars, base, selected, cursor, update_patch, installed,
                 verified, evidence, rekeyed, exit, update_status,
                 db, file, runs>>

GiveUp ==
  /\ pc = "verdict"
  /\ verified \in {"VERIFY_FAILED", "DOWNLOAD_FAILED"}
  /\ update_status' = -1
  /\ CleanupUpdate(verified = "VERIFY_FAILED")
  /\ UNCHANGED <<mirrorVars, base, cursor, update_patch, installed, verified,
                 evidence, rekeyed, exit, db, runs>>

(* The patch program ends; if it succeeds it has updated the database.     *)
PatchExits ==
  /\ pc = "perform"
  /\ pc' = "reap"
  /\ \/ exit' = "ok" /\ db' = [db EXCEPT ![update_patch[1]] = update_patch[2]]
     \/ exit' = "error" /\ db' = db
  /\ UNCHANGED <<mirrorVars, base, selected, cursor, update_patch, installed,
                 verified, evidence, rekeyed, update_status, file, runs>>

\* Faulty variant: the archive of an applied patch stays where it is.
CompleteAndKeep ==
  /\ pc = "reap" /\ exit = "ok"
  /\ update_status' = update_status + 1
  /\ CleanupUpdate(FALSE)
  /\ UNCHANGED <<mirrorVars, base, cursor, update_patch, installed, verified,
                 evidence, rekeyed, exit, db, runs>>

\* Faulty variant: the status only says that there was an update.
CompleteUncounted ==
  /\ pc = "reap" /\ exit = "ok"
  /\ update_status' = 1
  /\ CleanupUpdate(TRUE)
  /\ UNCHANGED <<mirrorVars, base, cursor, update_patch, installed, verified,
                 evidence, rekeyed, exit, db, runs>>

(* perform_update() returns the exit status, and the patch is cleaned up.  *)
UpdateComplete ==
  /\ pc = "reap" /\ exit = "ok"
  /\ update_status' = update_status + 1
  /\ CleanupUpdate(TRUE)
  /\ UNCHANGED <<mirrorVars, base, cursor, update_patch, installed, verified,
                 evidence, rekeyed, exit, db, runs>>

UpdateFailed ==
  /\ pc = "reap" /\ exit = "error"
  /\ update_status' = -1
  /\ CleanupUpdate(FALSE)
  /\ UNCHANGED <<mirrorVars, base, cursor, update_patch, installed, verified,
                 evidence, rekeyed, exit, db, runs>>

(* The updater is killed.  Files and database stay as they are.            *)
Killed ==
  /\ pc \notin Outside
  /\ pc' = "idle"
  /\ UNCHANGED <<mirrorVars, base, selected, cursor, update_patch, installed,
                 verified, evidence, rekeyed, exit, update_status,
                 db, file, runs>>

(* What the process does by itself once it is started.                     *)
Progress ==
  \/ ListFails \/ ListArrives \/ SelectUpdate \/ NextMirror
  \/ UpdateFails \/ UpdateArrives \/ FetchSignature \/ RunGpg \/ CheckMd5
  \/ Accept \/ GiveUp \/ PatchExits \/ UpdateComplete \/ UpdateFailed

Next == StartRun \/ Progress \/ Killed

Spec == Init /\ [][Next]_vars

(* Every call returns: a transfer, gpg and the patch program end some day. *)
FairSpec == Spec /\ WF_vars(Progress)

-----------------------------------------------------------------------------
(* Every variable has its type: only patches that exist are installed or   *)
(* worked on, and no component goes beyond its latest version.             *)
TtyTypeOK ==
  /\ MirrorTypeOK
  /\ db \in [Roots -> Nat] /\ \A r \in Roots : db[r] <= Top[r]
  /\ base \in [Roots -> Nat] /\ selected \in [Roots -> Nat]
  /\ \A r \in Roots : selected[r] <= Top[r]
  /\ file \in [Patches -> Contents]
  /\ pc \in Points
  /\ cursor \in [root : Nat, last : Nat]
  /\ update_patch \in Patches \union {NoPatch}
  /\ installed \subseteq Patches
  /\ verified \in Verdicts
  /\ evidence \in {"none", "gpg", "md5"}
  /\ rekeyed \in BOOLEAN
  /\ exit \in {"ok", "error"}
  /\ update_status \in Int
  /\ runs \in Nat

(* The patches this run has brought into the product database.             *)
Applied == { p \in Patches : base[p[1]] < p[2] /\ p[2] <= db[p[1]] }

(* The archive about to be executed (tty_ui.c:366) upgrades exactly the    *)
(* version that is installed: no patch of a path is skipped, repeated or   *)
(* run after one before it has failed, in this run or an earlier one that  *)
(* was killed.                                                             *)
RunsInOrder ==
  pc = "perform" => db[update_patch[1]] = update_patch[2] - 1

(* An archive that some check has looked at is executed only if it is      *)
(* complete and undamaged, however many mirrors and earlier runs its file  *)
(* was put together from (tty_ui.c:279-366, get_url.c:258-262).            *)
CheckedMeansIntact ==
  pc = "perform" =>
    /\ file[update_patch] # "none"
    /\ evidence # "none" => file[update_patch] = "full"
    /\ verified = "VERIFY_OK" => evidence = "gpg"

(* The run reports a failed download or a corrupt update only when every   *)
(* mirror of the list has failed it (tty_ui.c:262-265, 342-361).           *)
GivesUpLast ==
  pc = "verdict" /\ verified \in {"DOWNLOAD_FAILED", "VERIFY_FAILED"} =>
    \A m \in Listed : status[m] = URL_FAILED

(* An archive that was applied leaves no file behind for a later download  *)
(* of the same name to resume (tty_ui.c:375-376, 153-158).                 *)
NoArchiveLeft ==
  pc \in {"select", "done"} => \A p \in Applied : file[p] = "none"

(* A status that is not an error is the number of patches applied in this  *)
(* run: main() restarts the updater on it (loki_update.c:316-331).         *)
StatusCounts ==
  pc \in {"select", "done"} /\ update_status >= 0 =>
    update_status = Cardinality(Applied)

(* The comment on SETUP_NOCHECK (tty_ui.c:398): "we've already verified    *)
(* them, so don't perform the checksum self-check".                        *)
VerifiedBeforeRun == pc = "perform" => evidence # "none"

(* The run ends, whatever the mirrors do: each trip round the download     *)
(* loop uses up a mirror ("Fixed infinite loop when update is corrupted",  *)
(* CHANGES, 1.0e).                                                         *)
RunEnds == pc \notin Outside ~> pc \in Outside

(***************************************************************************)
(* A run of the terminal interface is an UpdateRun.                        *)
(***************************************************************************)
Running == pc \notin Outside \union {"list"}

Outcome ==
  CASE Running -> "running"
    [] pc = "done" -> IF update_status < 0 THEN "failed" ELSE "succeeded"
    [] OTHER -> "none"

Goal ==
  [r \in Roots |->
     IF pc \in {"idle", "list"} \/ update_patch = NoPatch \/ r < cursor.root
     THEN db[r]
     ELSE IF r = cursor.root THEN cursor.last
     ELSE IF selected[r] = 0 THEN db[r] ELSE selected[r]]

Run == INSTANCE UpdateRun WITH version <- db, goal <- Goal, outcome <- Outcome

(* Components are upgraded in order without a gap, success means that all  *)
(* that was selected is installed, failure that something is not.          *)
ImplementsUpdateRun == Run!Spec
==============================================================================
