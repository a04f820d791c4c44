----------------------------- MODULE MainProofs -----------------------------
(***************************************************************************)
(* Invariance proofs for the graphical program, for any number of          *)
(* products, patches and mirrors, and any clicks.                          *)
(***************************************************************************)
EXTENDS Main, MirrorSetProofs

(* Where a patch is being fetched and checked, where it is worked on, and  *)
(* where the lists are fetched.                                            *)
Fetching == {"mirror", "readme", "update", "sig", "gpg", "md5", "verdict"}
Working  == Fetching \union {"perform", "reap"}
Listing  == {"next_list", "list", "list_wait"}

(***************************************************************************)
(* The inductive invariant.  SlotsAreSafe and NoDeadEnd say nothing of the *)
(* states between two events, and ExitTellsFailure nothing before the end. *)
(* They are strengthened to what every place of the program implies for    *)
(* the page, the buttons, the progress of the download, the patch that the *)
(* cursor is on and the status.                                            *)
(***************************************************************************)
PageInv ==
  /\ pc \in Listing => page = "GETLIST_PAGE"
  /\ pc \in Working => page = "UPDATE_PAGE"
  /\ pc = "start" => page \in {"SELECT_PAGE", "UPDATE_PAGE"}

ButtonInv ==
  /\ pc = "list" => "list_done" \notin buttons
  /\ pc = "list_wait" => "list_done" \in buttons /\ ~update_proceeding
  /\ pc = "main" /\ page = "GETLIST_PAGE" =>
       "list_done" \in buttons /\ update_proceeding
  /\ pc \in Working => "action" \notin buttons
  /\ pc \in {"perform", "reap"} => "cancel" \notin buttons /\ "mirrors" \notin buttons
  /\ pc \in {"sig", "gpg", "md5"} => "mirrors" \notin buttons
  /\ pc = "verdict" /\ verified \notin FailedKinds => "mirrors" \notin buttons
  /\ pc \in {"main", "start"} /\ page = "UPDATE_PAGE" =>
       /\ "action" \in buttons /\ "mirrors" \notin buttons
       /\ "cancel" \in buttons => cursor.of # NULL

ProgressInv ==
  /\ download_pending <=> pc \in Fetching
  /\ pc \in {"mirror", "readme", "update"} => verified \in FailedKinds
  /\ pc \in {"sig", "gpg", "md5"} => verified = "VERIFY_UNKNOWN"
  /\ pc \in {"readme", "update"} => current # 0 /\ full_url \in Mirrors
  /\ pc \in Working => update_proceeding
  /\ pc = "start" /\ page = "UPDATE_PAGE" => ~update_proceeding /\ ~installed

PatchInv ==
  /\ owner # NULL => product_patchset
  /\ pc \in Working \union {"start"} => ~Dangling
  /\ pc \in Working => cursor.of # NULL /\ installed
  /\ pc = "main" /\ page = "SELECT_PAGE" => ~Dangling
  /\ pc = "main" /\ page = "UPDATE_PAGE" =>
       /\ update_proceeding =>
            cursor.of # NULL /\ installed /\ verified \notin FailedKinds
       /\ update_proceeding \/ update_status >= 0 \/ "cancel" \in buttons => ~Dangling
       /\ ~update_proceeding /\ update_status >= 0 => ~installed

(* A failure sends the update of one product straight to its end, so that  *)
(* no later success can hide it.                                           *)
OneProduct == stage = "self" \/ (stage = "named" /\ product \in Products)

ExitInv ==
  /\ stage \in {"begin", "product"} => ~failed
  /\ stage \in {"begin", "product", "exited"} => pc = "returned"
  /\ stage = "all" => product = NULL
  /\ stage = "exited" /\ product \in Products /\ exit_code \in {0, 3} =>
       (exit_code = 3 <=> failed)
  /\ OneProduct =>
       /\ one_product
       /\ failed <=> update_status = -1
       /\ pc = "main" => page # "PRODUCT_PAGE"
       /\ failed =>
            /\ pc \in {"main", "returned", "crashed"}
            /\ pc = "main" =>
                 page = "UPDATE_PAGE" /\ ~update_proceeding /\ "cancel" \notin buttons

(* The mirrors are loaded, or there are none.                              *)
MirrorsInv == MirrorTypeOK /\ NoMirrorLost /\ (loaded \/ list = << >>)

(* The types of the rest, with the shape of the cursor.                    *)
CursorOK ==
  \/ cursor = NoPatch
  \/ /\ cursor \in [of : Products, patch : Nat, last : Nat]
     /\ 1 <= cursor.patch /\ cursor.patch <= cursor.last
     /\ cursor.last <= Top[cursor.of]

FlagsOK ==
  /\ running \in BOOLEAN /\ quit \in BOOLEAN /\ one_product \in BOOLEAN
  /\ update_proceeding \in BOOLEAN /\ download_pending \in BOOLEAN
  /\ download_cancelled \in BOOLEAN /\ switch_mirror \in BOOLEAN
  /\ product_patchset \in BOOLEAN /\ installed \in BOOLEAN
  /\ have_readme \in BOOLEAN /\ asked \in BOOLEAN /\ failed \in BOOLEAN

SlotsOK ==
  /\ pc \in Nested \union Between \union Finished \union {"main"}
  /\ page \in Pages
  /\ buttons \subseteq Buttons
  /\ window \in {"open", "gone"}
  /\ interactive \in Modes
  /\ quick_update \in Modes \ {"FULLY_AUTOMATIC"}
  /\ update_status \in Int /\ update_status >= -1
  /\ queue \subseteq Products
  /\ owner \in Products \union {NULL}
  /\ verified \in Verdicts
  /\ exit \in {"ok", "error"}
  /\ db \in [Products -> Nat]

ArgsOK ==
  /\ self_check \in BOOLEAN /\ auto_update \in BOOLEAN
  /\ product \in Products \union {UNKNOWN, NULL}
  /\ stage \in {"begin", "self", "product", "named", "all", "exited"}
  /\ exit_code \in {0, 1, 3, 255}

TypesInv == CursorOK /\ FlagsOK /\ SlotsOK
FlowInv  == PageInv /\ ButtonInv /\ ProgressInv /\ PatchInv /\ ExitInv
MainInv  == MirrorsInv /\ TypesInv /\ FlowInv /\ ArgsOK

(* What main() leaves alone while the interface runs.                      *)
InSession == UNCHANGED <<argVars, stage, exit_code>>

-----------------------------------------------------------------------------
(* What the list offers for a product makes a cursor.                      *)
LEMMA NewCursor ==
  ASSUME NEW p \in Products, db \in [Products -> Nat],
         NEW k \in db[p] + 1 .. Top[p],
         cursor' \in {NoPatch, [of |-> p, patch |-> db[p] + 1, last |-> k]}
  PROVE  CursorOK'
<1>1. /\ db[p] \in Nat /\ Top[p] \in Nat
  BY GtkAssumption
<1>2. /\ db[p] + 1 \in Nat /\ k \in Nat
      /\ 1 <= db[p] + 1 /\ db[p] + 1 <= k /\ k <= Top[p]
  BY <1>1
<1>3. CASE cursor' = NoPatch
  BY <1>3 DEF CursorOK
<1>4. CASE cursor' = [of |-> p, patch |-> db[p] + 1, last |-> k]
  BY <1>2, <1>4 DEF CursorOK
<1>5. QED
  BY <1>3, <1>4

(* A list is requested: its page has no Continue button until then.        *)
LEMMA NextListInv ==
  ASSUME MainInv, InSession, NextList
  PROVE  TypesInv' /\ FlowInv'
<1> USE DEF MainInv, TypesInv, FlowInv
<1> USE DEF NextList, SetDownloadInfo, mirrorVars, statusVars, windowVars,
            modeVars, listVars, cursorVars, trialVars, historyVars
<1>1. CursorOK'
  BY DEF CursorOK
<1>2. FlagsOK'
  BY DEF FlagsOK
<1>3. SlotsOK'
  BY DEF SlotsOK, Nested, Buttons
<1>4. PageInv'
  BY DEF PageInv, Listing, Working, Fetching
<1>5. ButtonInv'
  BY DEF ButtonInv, Working, Fetching
<1>6. ProgressInv'
  BY DEF ProgressInv, Working, Fetching
<1>7. PatchInv'
  BY DEF PatchInv, Working, Fetching
<1>8. ExitInv'
  BY DEF ExitInv, OneProduct, InSession, argVars
<1>9. QED
  BY <1>1, <1>2, <1>3, <1>4, <1>5, <1>6, <1>7, <1>8

(* A product that cannot be opened ends the process.                       *)
LEMMA OpenFailsInv ==
  ASSUME MainInv, InSession, OpenFails
  PROVE  TypesInv' /\ FlowInv'
<1> USE DEF MainInv, TypesInv, FlowInv
<1> USE DEF OpenFails, mirrorVars, flagVars, statusVars, windowVars, modeVars,
            listVars, cursorVars, trialVars, historyVars
<1>1. CursorOK'
  BY DEF CursorOK
<1>2. FlagsOK'
  BY DEF FlagsOK
<1>3. SlotsOK'
  BY DEF SlotsOK, Finished
<1>4. PageInv'
  BY DEF PageInv, Listing, Working, Fetching
<1>5. ButtonInv'
  BY DEF ButtonInv, Working, Fetching
<1>6. ProgressInv'
  BY DEF ProgressInv, Working, Fetching
<1>7. PatchInv'
  BY DEF PatchInv, Working, Fetching
<1>8. ExitInv'
  BY DEF ExitInv, OneProduct, InSession, argVars
<1>9. QED
  BY <1>1, <1>2, <1>3, <1>4, <1>5, <1>6, <1>7, <1>8

(* A list that cannot be had is waited for, or passed over.                *)
LEMMA ListFailsInv ==
  ASSUME MainInv, InSession, NEW p \in Products, ListFails(p)
  PROVE  TypesInv' /\ FlowInv'
<1> USE DEF MainInv, TypesInv, FlowInv
<1> USE DEF ListFails, mirrorVars, flagVars, windowVars, modeVars, cursorVars,
            trialVars, historyVars
<1>1. CursorOK'
  BY DEF CursorOK
<1>2. FlagsOK'
  BY DEF FlagsOK
<1>3. SlotsOK'
  BY DEF SlotsOK, Nested, Between, Buttons
<1>4. PageInv'
  BY DEF PageInv, Listing, Working, Fetching
<1>5. ButtonInv'
  BY DEF ButtonInv, Working, Fetching
<1>6. ProgressInv'
  BY DEF ProgressInv, Working, Fetching
<1>7. PatchInv'
  BY DEF PatchInv, Working, Fetching
<1>8. ExitInv'
  BY DEF ExitInv, OneProduct, InSession, argVars
<1>9. QED
  BY <1>1, <1>2, <1>3, <1>4, <1>5, <1>6, <1>7, <1>8

(* A list without patches.                                                 *)
LEMMA ListIsEmptyInv ==
  ASSUME MainInv, InSession, NEW p \in Products, ListIsEmpty(p)
  PROVE  TypesInv' /\ FlowInv'
<1> USE DEF MainInv, TypesInv, FlowInv
<1> USE DEF ListIsEmpty, mirrorVars, flagVars, statusVars, windowVars, modeVars,
            cursorVars, trialVars, historyVars
<1>1. CursorOK'
  BY DEF CursorOK
<1>2. FlagsOK'
  BY DEF FlagsOK
<1>3. SlotsOK'
  BY DEF SlotsOK, Between
<1>4. PageInv'
  BY DEF PageInv, Listing, Working, Fetching
<1>5. ButtonInv'
  BY DEF ButtonInv, Working, Fetching
<1>6. ProgressInv'
  BY DEF ProgressInv, Working, Fetching
<1>7. PatchInv'
  BY DEF PatchInv, Working, Fetching
<1>8. ExitInv'
  BY DEF ExitInv, OneProduct, InSession, argVars
<1>9. QED
  BY <1>1, <1>2, <1>3, <1>4, <1>5, <1>6, <1>7, <1>8

(* A list with patches: the cursor is on the path of its owner.            *)
LEMMA ListArrivesInv ==
  ASSUME MainInv, InSession, NEW p \in Products, ListArrives(p)
  PROVE  TypesInv' /\ FlowInv'
<1> USE DEF MainInv, TypesInv, FlowInv
<1> USE DEF ListArrives, NoPatch, mirrorVars, flagVars, statusVars, windowVars,
            modeVars, trialVars, historyVars
<1>1. CursorOK'
  <2>1. CASE owner = NULL
    <3>1. PICK k \in db[p] + 1 .. Top[p] :
            cursor' \in {NoPatch, [of |-> p, patch |-> db[p] + 1, last |-> k]}
      BY <2>1
    <3>2. QED
      BY <3>1, NewCursor DEF SlotsOK
  <2>2. CASE owner # NULL
    BY <2>2 DEF CursorOK
  <2>3. QED
    BY <2>1, <2>2
<1>2. FlagsOK'
  BY DEF FlagsOK
<1>3. SlotsOK'
  BY DEF SlotsOK, Between
<1>4. PageInv'
  BY DEF PageInv, Listing, Working, Fetching
<1>5. ButtonInv'
  BY DEF ButtonInv, Working, Fetching
<1>6. ProgressInv'
  BY DEF ProgressInv, Working, Fetching
<1>7. PatchInv'
  BY DEF PatchInv, Working, Fetching
<1>8. ExitInv'
  BY DEF ExitInv, OneProduct, InSession, argVars
<1>9. QED
  BY <1>1, <1>2, <1>3, <1>4, <1>5, <1>6, <1>7, <1>8

(* All lists are there; without an owner the cursor is on no patch.        *)
LEMMA ListsDoneInv ==
  ASSUME MainInv, InSession, ListsDone
  PROVE  TypesInv' /\ FlowInv'
<1> USE DEF MainInv, TypesInv, FlowInv
<1> USE DEF ListsDone, NoPatch, SlotReturns, mirrorVars, flagVars, modeVars,
            listVars, trialVars, historyVars
<1>1. CursorOK'
  BY DEF CursorOK
<1>2. FlagsOK'
  BY DEF FlagsOK
<1>3. SlotsOK'
  BY DEF SlotsOK, Between, Finished, Buttons, Pages
<1>4. PageInv'
  BY DEF PageInv, Listing, Working, Fetching
<1>5. ButtonInv'
  BY DEF ButtonInv, PageInv, Listing, Working, Fetching
<1>6. ProgressInv'
  BY DEF ProgressInv, Working, Fetching
<1>7. PatchInv'
  BY DEF PatchInv, PageInv, Listing, Working, Fetching, Dangling
<1>8. ExitInv'
  BY DEF ExitInv, OneProduct, InSession, argVars, PageInv, Listing
<1>9. QED
  BY <1>1, <1>2, <1>3, <1>4, <1>5, <1>6, <1>7, <1>8

(* A download begins on a patch, or there is none left.                    *)
LEMMA StartDownloadInv ==
  ASSUME MainInv, InSession, StartDownload
  PROVE  TypesInv' /\ FlowInv'
<1> USE DEF MainInv, TypesInv, FlowInv
<1> USE DEF StartDownload, SkipToSelectedUpdate, NoPatch, SlotReturns,
            mirrorVars, trialVars, flagVars, modeVars, listVars
<1>1. CursorOK'
  BY DEF CursorOK
<1>2. FlagsOK'
  BY DEF FlagsOK
<1>3. SlotsOK'
  BY DEF SlotsOK, Between, Finished, Pages, Verdicts, FailedKinds
<1>4. PageInv'
  BY DEF PageInv, Listing, Working, Fetching
<1>5. ButtonInv'
  BY DEF ButtonInv, PageInv, ProgressInv, Working, Fetching
<1>6. ProgressInv'
  BY DEF ProgressInv, Working, Fetching, FailedKinds
<1>7. PatchInv'
  <2>1. CASE cursor' = NoPatch
    BY <2>1 DEF PatchInv, PageInv, Working, Fetching, Dangling, SlotsOK, ButtonInv, ProgressInv
  <2>2. CASE pc' = "mirror"
    <3>1. cursor'.of = cursor.of
      BY <2>2 DEF CursorOK
    <3>2. QED
      BY <2>2, <3>1 DEF PatchInv, Working, Fetching, Dangling
  <2>3. QED
    BY <2>1, <2>2
<1>8. ExitInv'
  BY DEF ExitInv, OneProduct, InSession, argVars, PageInv
<1>9. QED
  BY <1>1, <1>2, <1>3, <1>4, <1>5, <1>6, <1>7, <1>8

(* The loop goes on with a mirror that was handed out, or ends.            *)
LEMMA NextMirrorInv ==
  ASSUME MainInv, InSession, NextMirror
  PROVE  TypesInv' /\ FlowInv'
<1> USE DEF MainInv, TypesInv, FlowInv
<1> USE DEF NextMirror, flagVars, SetDownloadInfo, statusVars, windowVars,
            modeVars, listVars, cursorVars, trialVars
<1>1. CursorOK'
  BY DEF CursorOK
<1>2. FlagsOK'
  BY DEF FlagsOK
<1>3. SlotsOK'
  BY DEF SlotsOK, Nested, Between, Buttons
<1>4. PageInv'
  BY DEF PageInv, Listing, Working, Fetching
<1>5. ButtonInv'
  BY DEF ButtonInv, ProgressInv, Working, Fetching
<1>6. ProgressInv'
  <2>1. current' # 0 => full_url' \in Mirrors
    BY DEF MirrorsInv, MirrorTypeOK, NoMirrorLost, GetNextUrl, OkayPositions
  <2>2. QED
    BY <2>1 DEF ProgressInv, Working, Fetching
<1>7. PatchInv'
  BY DEF PatchInv, Working, Fetching, Dangling
<1>8. ExitInv'
  BY DEF ExitInv, OneProduct, InSession, argVars
<1>9. QED
  BY <1>1, <1>2, <1>3, <1>4, <1>5, <1>6, <1>7, <1>8

(* The README is there or not.                                             *)
LEMMA ReadmeEndsInv ==
  ASSUME MainInv, InSession, ReadmeEnds
  PROVE  TypesInv' /\ FlowInv'
<1> USE DEF MainInv, TypesInv, FlowInv
<1> USE DEF ReadmeEnds, SetDownloadInfo, mirrorVars, statusVars, windowVars,
            modeVars, listVars, cursorVars, historyVars
<1>1. CursorOK'
  BY DEF CursorOK
<1>2. FlagsOK'
  BY DEF FlagsOK
<1>3. SlotsOK'
  BY DEF SlotsOK, Nested
<1>4. PageInv'
  BY DEF PageInv, Listing, Working, Fetching
<1>5. ButtonInv'
  BY DEF ButtonInv, Working, Fetching
<1>6. ProgressInv'
  BY DEF ProgressInv, Working, Fetching
<1>7. PatchInv'
  BY DEF PatchInv, Working, Fetching, Dangling
<1>8. ExitInv'
  BY DEF ExitInv, OneProduct, InSession, argVars
<1>9. QED
  BY <1>1, <1>2, <1>3, <1>4, <1>5, <1>6, <1>7, <1>8

(* A transfer is broken off for another mirror.                            *)
LEMMA SwitchMirrorInv ==
  ASSUME MainInv, InSession, SwitchMirror
  PROVE  TypesInv' /\ FlowInv'
<1> USE DEF MainInv, TypesInv, FlowInv
<1> USE DEF SwitchMirror, EndOfLoop, mirrorVars, flagVars, statusVars,
            windowVars, modeVars, listVars, cursorVars
<1>1. CursorOK'
  BY DEF CursorOK
<1>2. FlagsOK'
  BY DEF FlagsOK
<1>3. SlotsOK'
  BY DEF SlotsOK, Between
<1>4. PageInv'
  BY DEF PageInv, Listing, Working, Fetching
<1>5. ButtonInv'
  BY DEF ButtonInv, ProgressInv, Working, Fetching
<1>6. ProgressInv'
  BY DEF ProgressInv, Working, Fetching
<1>7. PatchInv'
  BY DEF PatchInv, Working, Fetching, Dangling
<1>8. ExitInv'
  BY DEF ExitInv, OneProduct, InSession, argVars
<1>9. QED
  BY <1>1, <1>2, <1>3, <1>4, <1>5, <1>6, <1>7, <1>8

(* A transfer fails.                                                       *)
LEMMA UpdateFailsInv ==
  ASSUME MainInv, InSession, UpdateFails
  PROVE  TypesInv' /\ FlowInv'
<1> USE DEF MainInv, TypesInv, FlowInv
<1> USE DEF UpdateFails, EndOfLoop, flagVars, statusVars, windowVars, modeVars,
            listVars, cursorVars
<1>1. CursorOK'
  BY DEF CursorOK
<1>2. FlagsOK'
  BY DEF FlagsOK
<1>3. SlotsOK'
  BY DEF SlotsOK, Between, Verdicts, FailedKinds
<1>4. PageInv'
  BY DEF PageInv, Listing, Working, Fetching
<1>5. ButtonInv'
  BY DEF ButtonInv, Working, Fetching, FailedKinds
<1>6. ProgressInv'
  BY DEF ProgressInv, Working, Fetching
<1>7. PatchInv'
  BY DEF PatchInv, Working, Fetching, Dangling
<1>8. ExitInv'
  BY DEF ExitInv, OneProduct, InSession, argVars
<1>9. QED
  BY <1>1, <1>2, <1>3, <1>4, <1>5, <1>6, <1>7, <1>8

(* A transfer succeeds: the mirror can no longer be switched.              *)
LEMMA UpdateArrivesInv ==
  ASSUME MainInv, InSession, UpdateArrives
  PROVE  TypesInv' /\ FlowInv'
<1> USE DEF MainInv, TypesInv, FlowInv
<1> USE DEF UpdateArrives, SetDownloadInfo, mirrorVars, statusVars, windowVars,
            modeVars, listVars, cursorVars
<1>1. CursorOK'
  BY DEF CursorOK
<1>2. FlagsOK'
  BY DEF FlagsOK
<1>3. SlotsOK'
  BY DEF SlotsOK, Nested, Verdicts
<1>4. PageInv'
  BY DEF PageInv, Listing, Working, Fetching
<1>5. ButtonInv'
  BY DEF ButtonInv, Working, Fetching
<1>6. ProgressInv'
  BY DEF ProgressInv, Working, Fetching
<1>7. PatchInv'
  BY DEF PatchInv, Working, Fetching, Dangling
<1>8. ExitInv'
  BY DEF ExitInv, OneProduct, InSession, argVars
<1>9. QED
  BY <1>1, <1>2, <1>3, <1>4, <1>5, <1>6, <1>7, <1>8

(* The signature is there or not.                                          *)
LEMMA FetchSignatureInv ==
  ASSUME MainInv, InSession, FetchSignature
  PROVE  TypesInv' /\ FlowInv'
<1> USE DEF MainInv, TypesInv, FlowInv
<1> USE DEF FetchSignature, SetDownloadInfo, mirrorVars, statusVars, windowVars,
            modeVars, listVars, cursorVars, trialVars, historyVars
<1>1. CursorOK'
  BY DEF CursorOK
<1>2. FlagsOK'
  BY DEF FlagsOK
<1>3. SlotsOK'
  BY DEF SlotsOK, Nested
<1>4. PageInv'
  BY DEF PageInv, Listing, Working, Fetching
<1>5. ButtonInv'
  BY DEF ButtonInv, Working, Fetching
<1>6. ProgressInv'
  BY DEF ProgressInv, Working, Fetching
<1>7. PatchInv'
  BY DEF PatchInv, Working, Fetching, Dangling
<1>8. ExitInv'
  BY DEF ExitInv, OneProduct, InSession, argVars
<1>9. QED
  BY <1>1, <1>2, <1>3, <1>4, <1>5, <1>6, <1>7, <1>8

(* gpg has a verdict, or leaves it to the checksum.                        *)
LEMMA RunGpgInv ==
  ASSUME MainInv, InSession, RunGpg
  PROVE  TypesInv' /\ FlowInv'
<1> USE DEF MainInv, TypesInv, FlowInv
<1> USE DEF RunGpg, SetDownloadInfo, mirrorVars, EndOfLoop, flagVars,
            statusVars, windowVars, modeVars, listVars, cursorVars,
            historyVars
<1>1. CursorOK'
  BY DEF CursorOK
<1>2. FlagsOK'
  <2>1. CASE UNCHANGED flagVars
    BY <2>1 DEF FlagsOK
  <2>2. CASE SetDownloadInfo
    BY <2>2 DEF FlagsOK
  <2>3. QED
    BY <2>1, <2>2
<1>3. SlotsOK'
  BY DEF SlotsOK, Nested, Between, Verdicts, FailedKinds
<1>4. PageInv'
  BY DEF PageInv, Listing, Working, Fetching
<1>5. ButtonInv'
  BY DEF ButtonInv, Working, Fetching
<1>6. ProgressInv'
  BY DEF ProgressInv, Working, Fetching
<1>7. PatchInv'
  BY DEF PatchInv, Working, Fetching, Dangling
<1>8. ExitInv'
  BY DEF ExitInv, OneProduct, InSession, argVars
<1>9. QED
  BY <1>1, <1>2, <1>3, <1>4, <1>5, <1>6, <1>7, <1>8

(* The checksum differs or not.                                            *)
LEMMA CheckMd5Inv ==
  ASSUME MainInv, InSession, CheckMd5
  PROVE  TypesInv' /\ FlowInv'
<1> USE DEF MainInv, TypesInv, FlowInv
<1> USE DEF CheckMd5, EndOfLoop, mirrorVars, flagVars, statusVars, windowVars,
            modeVars, listVars, cursorVars, historyVars
<1>1. CursorOK'
  BY DEF CursorOK
<1>2. FlagsOK'
  BY DEF FlagsOK
<1>3. SlotsOK'
  BY DEF SlotsOK, Between, Verdicts, FailedKinds
<1>4. PageInv'
  BY DEF PageInv, Listing, Working, Fetching
<1>5. ButtonInv'
  BY DEF ButtonInv, Working, Fetching
<1>6. ProgressInv'
  BY DEF ProgressInv, Working, Fetching
<1>7. PatchInv'
  BY DEF PatchInv, Working, Fetching, Dangling
<1>8. ExitInv'
  BY DEF ExitInv, OneProduct, InSession, argVars
<1>9. QED
  BY <1>1, <1>2, <1>3, <1>4, <1>5, <1>6, <1>7, <1>8

(* A patch not known to be bad: the button is for it, or out of reach.     *)
LEMMA AcceptInv ==
  ASSUME MainInv, InSession, Accept
  PROVE  TypesInv' /\ FlowInv'
<1> USE DEF MainInv, TypesInv, FlowInv
<1> USE DEF Accept, PerformUpdate, SlotReturns, flagVars, mirrorVars, modeVars,
            listVars, cursorVars, trialVars, historyVars, SetDownloadInfo
<1>1. CursorOK'
  BY DEF CursorOK
<1>2. FlagsOK'
  BY DEF FlagsOK
<1>3. SlotsOK'
  BY DEF SlotsOK, Nested, Finished, Buttons
<1>4. PageInv'
  BY DEF PageInv, Listing, Working, Fetching
<1>5. ButtonInv'
  BY DEF ButtonInv, PageInv, PatchInv, Working, Fetching
<1>6. ProgressInv'
  BY DEF ProgressInv, Working, Fetching
<1>7. PatchInv'
  BY DEF PatchInv, ProgressInv, Working, Fetching, Dangling
<1>8. ExitInv'
  BY DEF ExitInv, OneProduct, InSession, argVars, PageInv, Working, Fetching
<1>9. QED
  BY <1>1, <1>2, <1>3, <1>4, <1>5, <1>6, <1>7, <1>8

(* No mirror had a good archive: the session is at its end.                *)
LEMMA GiveUpInv ==
  ASSUME MainInv, InSession, GiveUp
  PROVE  TypesInv' /\ FlowInv'
<1> USE DEF MainInv, TypesInv, FlowInv
<1> USE DEF GiveUp, CleanupUpdate, GoOn, modeVars, TrialOver,
            SkipToSelectedUpdate, cursorVars, SlotReturns, mirrorVars,
            flagVars, NoPatch
<1>1. CursorOK'
  BY DEF CursorOK
<1>2. FlagsOK'
  BY DEF FlagsOK
<1>3. SlotsOK'
  BY DEF SlotsOK, Finished, Buttons, Verdicts, FailedKinds
<1>4. PageInv'
  BY DEF PageInv, Listing, Working, Fetching
<1>5. ButtonInv'
  BY DEF ButtonInv, PageInv, Working, Fetching
<1>6. ProgressInv'
  BY DEF ProgressInv, Working, Fetching
<1>7. PatchInv'
  BY DEF PatchInv, Working, Fetching, Dangling
<1>8. ExitInv'
  BY DEF ExitInv, OneProduct, InSession, argVars, PageInv, Working, Fetching
<1>9. QED
  BY <1>1, <1>2, <1>3, <1>4, <1>5, <1>6, <1>7, <1>8

(* The archive ends.                                                       *)
LEMMA PatchExitsInv ==
  ASSUME MainInv, InSession, PatchExits
  PROVE  TypesInv' /\ FlowInv'
<1> USE DEF MainInv, TypesInv, FlowInv
<1> USE DEF PatchExits, mirrorVars, flagVars, statusVars, windowVars, modeVars,
            listVars, cursorVars, historyVars, NoPatch
<1>1. CursorOK'
  BY DEF CursorOK
<1>2. FlagsOK'
  BY DEF FlagsOK
<1>3. SlotsOK'
  <2>1. cursor.of \in Products /\ cursor.patch \in Nat
    BY DEF CursorOK, PatchInv, Working
  <2>2. db' \in [Products -> Nat]
    BY <2>1 DEF SlotsOK
  <2>3. QED
    BY <2>2 DEF SlotsOK, Nested, Between, Finished
<1>4. PageInv'
  BY DEF PageInv, Listing, Working
<1>5. ButtonInv'
  BY DEF ButtonInv, Working
<1>6. ProgressInv'
  BY DEF ProgressInv, Working, Fetching
<1>7. PatchInv'
  BY DEF PatchInv, Working, Dangling
<1>8. ExitInv'
  BY DEF ExitInv, OneProduct, InSession, argVars
<1>9. QED
  BY <1>1, <1>2, <1>3, <1>4, <1>5, <1>6, <1>7, <1>8

(* A success can only be counted where nothing has failed.                 *)
LEMMA UpdateCompleteInv ==
  ASSUME MainInv, InSession, UpdateComplete
  PROVE  TypesInv' /\ FlowInv'
<1> USE DEF MainInv, TypesInv, FlowInv
<1> USE DEF UpdateComplete, CleanupUpdate, GoOn, modeVars, historyVars,
            TrialOver, SkipToSelectedUpdate, cursorVars, SlotReturns,
            mirrorVars, flagVars, NoPatch
<1>1. CursorOK'
  BY DEF CursorOK
<1>2. FlagsOK'
  BY DEF FlagsOK
<1>3. SlotsOK'
  BY DEF SlotsOK, Between, Finished, Buttons, Verdicts, FailedKinds
<1>4. PageInv'
  BY DEF PageInv, Listing, Working
<1>5. ButtonInv'
  BY DEF ButtonInv, PageInv, Working, Fetching
<1>6. ProgressInv'
  BY DEF ProgressInv, Working, Fetching
<1>7. PatchInv'
  BY DEF PatchInv, Working, Fetching, Dangling
<1>8. ExitInv'
  BY DEF ExitInv, OneProduct, InSession, argVars, PageInv, Working, SlotsOK
<1>9. QED
  BY <1>1, <1>2, <1>3, <1>4, <1>5, <1>6, <1>7, <1>8

(* A failure: the session is at its end.                                   *)
LEMMA UpdateFailedInv ==
  ASSUME MainInv, InSession, UpdateFailed
  PROVE  TypesInv' /\ FlowInv'
<1> USE DEF MainInv, TypesInv, FlowInv
<1> USE DEF UpdateFailed, CleanupUpdate, GoOn, modeVars, TrialOver,
            SkipToSelectedUpdate, cursorVars, SlotReturns, mirrorVars,
            flagVars, NoPatch
<1>1. CursorOK'
  BY DEF CursorOK
<1>2. FlagsOK'
  BY DEF FlagsOK
<1>3. SlotsOK'
  BY DEF SlotsOK, Finished, Buttons, Verdicts, FailedKinds
<1>4. PageInv'
  BY DEF PageInv, Listing, Working
<1>5. ButtonInv'
  BY DEF ButtonInv, PageInv, Working, Fetching
<1>6. ProgressInv'
  BY DEF ProgressInv, Working, Fetching
<1>7. PatchInv'
  BY DEF PatchInv, Working, Dangling
<1>8. ExitInv'
  BY DEF ExitInv, OneProduct, InSession, argVars, PageInv, Working
<1>9. QED
  BY <1>1, <1>2, <1>3, <1>4, <1>5, <1>6, <1>7, <1>8

(* The window may be closed at any time; a slot that runs goes on.         *)
LEMMA CloseWindowInv ==
  ASSUME MainInv, InSession, CloseWindow
  PROVE  TypesInv' /\ FlowInv'
<1> USE DEF MainInv, TypesInv, FlowInv
<1> USE DEF CloseWindow, MainCancel, mirrorVars, statusVars, modeVars,
            cursorVars, trialVars, historyVars
<1>1. CursorOK'
  BY DEF CursorOK
<1>2. FlagsOK'
  BY DEF FlagsOK
<1>3. SlotsOK'
  BY DEF SlotsOK, Finished
<1>4. PageInv'
  BY DEF PageInv, Listing, Working, Fetching
<1>5. ButtonInv'
  BY DEF ButtonInv, Working, Fetching
<1>6. ProgressInv'
  BY DEF ProgressInv, Working, Fetching
<1>7. PatchInv'
  BY DEF PatchInv, Working, Fetching, Dangling
<1>8. ExitInv'
  BY DEF ExitInv, OneProduct, InSession, argVars
<1>9. QED
  BY <1>1, <1>2, <1>3, <1>4, <1>5, <1>6, <1>7, <1>8

(* The product page is not shown for one product.                          *)
LEMMA ChooseProductsInv ==
  ASSUME MainInv, InSession, ChooseProducts
  PROVE  TypesInv' /\ FlowInv'
<1> USE DEF MainInv, TypesInv, FlowInv
<1> USE DEF ChooseProducts, InMain, ChooseUpdate, mirrorVars, flagVars,
            statusVars, modeVars, cursorVars, trialVars, historyVars
<1>1. CursorOK'
  BY DEF CursorOK
<1>2. FlagsOK'
  BY DEF FlagsOK
<1>3. SlotsOK'
  BY DEF SlotsOK, Between, Pages, Games
<1>4. PageInv'
  BY DEF PageInv, Working, Fetching
<1>5. ButtonInv'
  BY DEF ButtonInv, Working, Fetching
<1>6. ProgressInv'
  BY DEF ProgressInv, Working, Fetching
<1>7. PatchInv'
  BY DEF PatchInv, Working, Fetching
<1>8. ExitInv'
  BY DEF ExitInv, OneProduct, InSession, argVars
<1>9. QED
  BY <1>1, <1>2, <1>3, <1>4, <1>5, <1>6, <1>7, <1>8

(* It can be left.                                                         *)
LEMMA CancelProductsInv ==
  ASSUME MainInv, InSession, CancelProducts
  PROVE  TypesInv' /\ FlowInv'
<1> USE DEF MainInv, TypesInv, FlowInv
<1> USE DEF CancelProducts, InMain, MainCancel, mirrorVars, statusVars,
            modeVars, cursorVars, trialVars, historyVars
<1>1. CursorOK'
  BY DEF CursorOK
<1>2. FlagsOK'
  BY DEF FlagsOK
<1>3. SlotsOK'
  BY DEF SlotsOK, Finished
<1>4. PageInv'
  BY DEF PageInv, Listing, Working, Fetching
<1>5. ButtonInv'
  BY DEF ButtonInv, Working, Fetching
<1>6. ProgressInv'
  BY DEF ProgressInv, Working, Fetching
<1>7. PatchInv'
  BY DEF PatchInv, Working, Fetching
<1>8. ExitInv'
  BY DEF ExitInv, OneProduct, InSession, argVars
<1>9. QED
  BY <1>1, <1>2, <1>3, <1>4, <1>5, <1>6, <1>7, <1>8

(* The Continue button of the list page.                                   *)
LEMMA ListProceedInv ==
  ASSUME MainInv, InSession, ListProceed
  PROVE  TypesInv' /\ FlowInv'
<1> USE DEF MainInv, TypesInv, FlowInv
<1> USE DEF ListProceed, Clickable, mirrorVars, windowVars, MainMenu, modeVars,
            cursorVars, trialVars, historyVars, MainCancel, ChooseProduct
<1>1. CursorOK'
  BY DEF CursorOK
<1>2. FlagsOK'
  BY DEF FlagsOK
<1>3. SlotsOK'
  BY DEF SlotsOK, Between, Finished, Pages
<1>4. PageInv'
  BY DEF PageInv, Listing, Working, Fetching
<1>5. ButtonInv'
  BY DEF ButtonInv, Working, Fetching
<1>6. ProgressInv'
  BY DEF ProgressInv, Fetching
<1>7. PatchInv'
  BY DEF PatchInv, Working, Fetching
<1>8. ExitInv'
  BY DEF ExitInv, OneProduct, InSession, argVars
<1>9. QED
  BY <1>1, <1>2, <1>3, <1>4, <1>5, <1>6, <1>7, <1>8

(* Cancelling tells the callback, and changes nothing else.                *)
LEMMA CancelDownloadInv ==
  ASSUME MainInv, InSession, CancelDownload
  PROVE  TypesInv' /\ FlowInv'
<1> USE DEF MainInv, TypesInv, FlowInv
<1> USE DEF CancelDownload, Clickable, mirrorVars, statusVars, windowVars,
            modeVars, listVars, cursorVars, trialVars, historyVars
<1>1. CursorOK'
  BY DEF CursorOK
<1>2. FlagsOK'
  BY DEF FlagsOK
<1>3. SlotsOK'
  BY DEF SlotsOK
<1>4. PageInv'
  BY DEF PageInv
<1>5. ButtonInv'
  BY DEF ButtonInv
<1>6. ProgressInv'
  BY DEF ProgressInv
<1>7. PatchInv'
  BY DEF PatchInv, Dangling
<1>8. ExitInv'
  BY DEF ExitInv, OneProduct, InSession, argVars
<1>9. QED
  BY <1>1, <1>2, <1>3, <1>4, <1>5, <1>6, <1>7, <1>8

(* Another upgrade of the owner is selected, or none.                      *)
LEMMA ToggleUpdateInv ==
  ASSUME MainInv, InSession, ToggleUpdate
  PROVE  TypesInv' /\ FlowInv'
<1> USE DEF MainInv, TypesInv, FlowInv
<1> USE DEF ToggleUpdate, InMain, NoPatch, mirrorVars, flagVars, statusVars,
            windowVars, modeVars, listVars, trialVars, historyVars
<1>1. CursorOK'
  <2>1. PICK k \in db[owner] + 1 .. Top[owner] :
          cursor' \in {NoPatch, [of |-> owner, patch |-> db[owner] + 1, last |-> k]}
    OBVIOUS
  <2>2. owner \in Products
    BY DEF SlotsOK
  <2>3. QED
    BY <2>1, <2>2, NewCursor DEF SlotsOK
<1>2. FlagsOK'
  BY DEF FlagsOK
<1>3. SlotsOK'
  BY DEF SlotsOK, Buttons
<1>4. PageInv'
  BY DEF PageInv
<1>5. ButtonInv'
  BY DEF ButtonInv
<1>6. ProgressInv'
  BY DEF ProgressInv
<1>7. PatchInv'
  BY DEF PatchInv, Working, Fetching, Dangling
<1>8. ExitInv'
  BY DEF ExitInv, OneProduct, InSession, argVars
<1>9. QED
  BY <1>1, <1>2, <1>3, <1>4, <1>5, <1>6, <1>7, <1>8

(* The mode is changed where nothing is going on.                          *)
LEMMA ToggleAutoUpdateInv ==
  ASSUME MainInv, InSession, ToggleAutoUpdate
  PROVE  TypesInv' /\ FlowInv'
<1> USE DEF MainInv, TypesInv, FlowInv
<1> USE DEF ToggleAutoUpdate, InMain, mirrorVars, flagVars, statusVars,
            windowVars, listVars, cursorVars, trialVars, historyVars
<1>1. CursorOK'
  BY DEF CursorOK
<1>2. FlagsOK'
  BY DEF FlagsOK
<1>3. SlotsOK'
  BY DEF SlotsOK, Modes
<1>4. PageInv'
  BY DEF PageInv
<1>5. ButtonInv'
  BY DEF ButtonInv
<1>6. ProgressInv'
  BY DEF ProgressInv
<1>7. PatchInv'
  BY DEF PatchInv, Dangling
<1>8. ExitInv'
  BY DEF ExitInv, OneProduct, InSession, argVars
<1>9. QED
  BY <1>1, <1>2, <1>3, <1>4, <1>5, <1>6, <1>7, <1>8

(* Back to the products, or out.                                           *)
LEMMA CancelSelectionInv ==
  ASSUME MainInv, InSession, CancelSelection
  PROVE  TypesInv' /\ FlowInv'
<1> USE DEF MainInv, TypesInv, FlowInv
<1> USE DEF CancelSelection, InMain, MainMenu, statusVars, modeVars, cursorVars,
            trialVars, historyVars, MainCancel, mirrorVars, ChooseProduct
<1>1. CursorOK'
  BY DEF CursorOK
<1>2. FlagsOK'
  BY DEF FlagsOK
<1>3. SlotsOK'
  BY DEF SlotsOK, Finished, Pages
<1>4. PageInv'
  BY DEF PageInv, Listing, Working, Fetching
<1>5. ButtonInv'
  BY DEF ButtonInv, Working, Fetching
<1>6. ProgressInv'
  BY DEF ProgressInv, Working, Fetching
<1>7. PatchInv'
  BY DEF PatchInv, Working, Fetching
<1>8. ExitInv'
  BY DEF ExitInv, OneProduct, InSession, argVars
<1>9. QED
  BY <1>1, <1>2, <1>3, <1>4, <1>5, <1>6, <1>7, <1>8

(* The page of updates is left for the first of them.                      *)
LEMMA ContinueSelectionInv ==
  ASSUME MainInv, InSession, ContinueSelection
  PROVE  TypesInv' /\ FlowInv'
<1> USE DEF MainInv, TypesInv, FlowInv
<1> USE DEF ContinueSelection, InMain, mirrorVars, flagVars, statusVars,
            windowVars, modeVars, listVars, cursorVars, trialVars,
            historyVars
<1>1. CursorOK'
  BY DEF CursorOK
<1>2. FlagsOK'
  BY DEF FlagsOK
<1>3. SlotsOK'
  BY DEF SlotsOK, Between
<1>4. PageInv'
  BY DEF PageInv, Listing, Working, Fetching
<1>5. ButtonInv'
  BY DEF ButtonInv, Working, Fetching
<1>6. ProgressInv'
  BY DEF ProgressInv, Working, Fetching
<1>7. PatchInv'
  BY DEF PatchInv, Working, Fetching, Dangling
<1>8. ExitInv'
  BY DEF ExitInv, OneProduct, InSession, argVars
<1>9. QED
  BY <1>1, <1>2, <1>3, <1>4, <1>5, <1>6, <1>7, <1>8

(* Next Mirror tells the callback, and changes nothing else.               *)
LEMMA ClickNextMirrorInv ==
  ASSUME MainInv, InSession, ClickNextMirror
  PROVE  TypesInv' /\ FlowInv'
<1> USE DEF MainInv, TypesInv, FlowInv
<1> USE DEF ClickNextMirror, Clickable, mirrorVars, statusVars, windowVars,
            modeVars, listVars, cursorVars, trialVars
<1>1. CursorOK'
  BY DEF CursorOK
<1>2. FlagsOK'
  BY DEF FlagsOK
<1>3. SlotsOK'
  BY DEF SlotsOK
<1>4. PageInv'
  BY DEF PageInv
<1>5. ButtonInv'
  BY DEF ButtonInv
<1>6. ProgressInv'
  BY DEF ProgressInv
<1>7. PatchInv'
  BY DEF PatchInv, Dangling
<1>8. ExitInv'
  BY DEF ExitInv, OneProduct, InSession, argVars
<1>9. QED
  BY <1>1, <1>2, <1>3, <1>4, <1>5, <1>6, <1>7, <1>8

(* So does the choice of a mirror, which moves the current pointer.        *)
LEMMA ChooseMirrorInv ==
  ASSUME MainInv, InSession, ChooseMirror
  PROVE  TypesInv' /\ FlowInv'
<1> USE DEF MainInv, TypesInv, FlowInv
<1> USE DEF ChooseMirror, Clickable, statusVars, windowVars, modeVars, listVars,
            cursorVars, trialVars
<1>1. CursorOK'
  BY DEF CursorOK
<1>2. FlagsOK'
  BY DEF FlagsOK
<1>3. SlotsOK'
  BY DEF SlotsOK
<1>4. PageInv'
  BY DEF PageInv
<1>5. ButtonInv'
  BY DEF ButtonInv
<1>6. ProgressInv'
  <2>1. pc \in {"readme", "update"} => full_url \in Mirrors
    BY DEF ProgressInv
  <2>2. current' # 0
    BY DEF MirrorsInv, MirrorTypeOK
  <2>3. QED
    BY <2>1, <2>2 DEF ProgressInv
<1>7. PatchInv'
  BY DEF PatchInv, Dangling
<1>8. ExitInv'
  BY DEF ExitInv, OneProduct, InSession, argVars
<1>9. QED
  BY <1>1, <1>2, <1>3, <1>4, <1>5, <1>6, <1>7, <1>8

(* And the saving of one, which does not.                                  *)
LEMMA SaveMirrorInv ==
  ASSUME MainInv, InSession, SaveMirror
  PROVE  TypesInv' /\ FlowInv'
<1> USE DEF MainInv, TypesInv, FlowInv
<1> USE DEF SaveMirror, Clickable, gtkVars, flagVars, statusVars, windowVars,
            modeVars, listVars, cursorVars, trialVars, historyVars
<1>1. CursorOK'
  BY DEF CursorOK
<1>2. FlagsOK'
  BY DEF FlagsOK
<1>3. SlotsOK'
  BY DEF SlotsOK
<1>4. PageInv'
  BY DEF PageInv
<1>5. ButtonInv'
  BY DEF ButtonInv
<1>6. ProgressInv'
  BY DEF ProgressInv
<1>7. PatchInv'
  BY DEF PatchInv, Dangling
<1>8. ExitInv'
  BY DEF ExitInv, OneProduct, InSession, argVars
<1>9. QED
  BY <1>1, <1>2, <1>3, <1>4, <1>5, <1>6, <1>7, <1>8

(* Cancel when no download is pending: the patch is passed over.           *)
LEMMA CancelUpdateInv ==
  ASSUME MainInv, InSession, CancelUpdate
  PROVE  TypesInv' /\ FlowInv'
<1> USE DEF MainInv, TypesInv, FlowInv
<1> USE DEF CancelUpdate, InMain, CleanupUpdate, MainMenu, modeVars,
            historyVars, TrialOver, SkipToSelectedUpdate, cursorVars,
            MainCancel, mirrorVars, ChooseProduct, NoPatch
<1>1. CursorOK'
  BY DEF CursorOK
<1>2. FlagsOK'
  BY DEF FlagsOK
<1>3. SlotsOK'
  BY DEF SlotsOK, Finished, Buttons, Pages, Verdicts, FailedKinds
<1>4. PageInv'
  BY DEF PageInv, Listing, Working, Fetching
<1>5. ButtonInv'
  BY DEF ButtonInv, Working, Fetching
<1>6. ProgressInv'
  BY DEF ProgressInv, Working, Fetching
<1>7. PatchInv'
  BY DEF PatchInv, Working, Fetching
<1>8. ExitInv'
  BY DEF ExitInv, OneProduct, InSession, argVars
<1>9. QED
  BY <1>1, <1>2, <1>3, <1>4, <1>5, <1>6, <1>7, <1>8

(* Update: the patch is there, and was not found to be bad.                *)
LEMMA ClickUpdateInv ==
  ASSUME MainInv, InSession, ClickUpdate
  PROVE  TypesInv' /\ FlowInv'
<1> USE DEF MainInv, TypesInv, FlowInv
<1> USE DEF ClickUpdate, InMain, PerformUpdate, mirrorVars, statusVars,
            windowVars, modeVars, listVars, cursorVars, trialVars,
            historyVars, SetDownloadInfo
<1>1. CursorOK'
  BY DEF CursorOK
<1>2. FlagsOK'
  BY DEF FlagsOK
<1>3. SlotsOK'
  BY DEF SlotsOK, Nested
<1>4. PageInv'
  BY DEF PageInv, Listing
<1>5. ButtonInv'
  BY DEF ButtonInv
<1>6. ProgressInv'
  BY DEF ProgressInv, Fetching
<1>7. PatchInv'
  BY DEF PatchInv, Dangling
<1>8. ExitInv'
  BY DEF ExitInv, OneProduct, InSession, argVars
<1>9. QED
  BY <1>1, <1>2, <1>3, <1>4, <1>5, <1>6, <1>7, <1>8

(* Continue to the next patch, or out.                                     *)
LEMMA ClickContinueInv ==
  ASSUME MainInv, InSession, ClickContinue
  PROVE  TypesInv' /\ FlowInv'
<1> USE DEF MainInv, TypesInv, FlowInv
<1> USE DEF ClickContinue, InMain, MainMenu, cursorVars, SkipToSelectedUpdate,
            mirrorVars, NoPatch, MainCancel, windowVars, statusVars,
            modeVars, trialVars, historyVars, ChooseProduct
<1>1. CursorOK'
  BY DEF CursorOK
<1>2. FlagsOK'
  BY DEF FlagsOK
<1>3. SlotsOK'
  BY DEF SlotsOK, Between, Finished, Pages
<1>4. PageInv'
  BY DEF PageInv, Listing, Working, Fetching
<1>5. ButtonInv'
  BY DEF ButtonInv, PatchInv, Working, Fetching
<1>6. ProgressInv'
  BY DEF ProgressInv, Working, Fetching
<1>7. PatchInv'
  BY DEF PatchInv, Working, Fetching, Dangling
<1>8. ExitInv'
  BY DEF ExitInv, OneProduct, InSession, argVars
<1>9. QED
  BY <1>1, <1>2, <1>3, <1>4, <1>5, <1>6, <1>7, <1>8

-----------------------------------------------------------------------------
(* The mirrors.                                                            *)

(* free_urlset() and create_urlset() leave an empty set.                   *)
LEMMA RecreateMirrors ==
  ASSUME MirrorsInv, RecreateUrlset
  PROVE  MirrorsInv'
<1>1. MirrorTypeOK'
  BY EmptyList, AllOKType DEF MirrorsInv, MirrorTypeOK, RecreateUrlset
<1>2. NoMirrorLost' /\ list' = << >>
  BY EmptyList DEF NoMirrorLost, RecreateUrlset
<1>3. QED
  BY <1>1, <1>2 DEF MirrorsInv

(* randomize_urls() before a download: of a set that was loaded, or of one *)
(* that is empty.                                                          *)
LEMMA ShuffleMirrors ==
  ASSUME MirrorsInv, RandomizeUrls, UNCHANGED loaded
  PROVE  MirrorsInv'
<1>1. CASE loaded
  <2>1. loaded' = TRUE
    BY <1>1 DEF MirrorsInv, MirrorTypeOK
  <2>2. QED
    BY <2>1, RandomizeKeeps DEF MirrorsInv
<1>2. CASE ~loaded
  <2>1. num_mirrors = 0
    BY <1>2, EmptyList DEF MirrorsInv, NoMirrorLost
  <2>2. UNCHANGED mirrorVars
    BY <2>1 DEF RandomizeUrls, mirrorVars
  <2>3. QED
    BY <2>2 DEF mirrorVars, MirrorsInv, MirrorTypeOK, NoMirrorLost
<1>3. QED
  BY <1>1, <1>2

(* get_next_url().                                                         *)
LEMMA NextOfMirrors ==
  ASSUME MirrorsInv, GetNextUrl
  PROVE  MirrorsInv'
<1>1. CASE loaded
  BY <1>1, GetNextUrlKeeps DEF MirrorsInv
<1>2. CASE ~loaded
  <2>1. num_mirrors = 0
    BY <1>2, EmptyList DEF MirrorsInv, NoMirrorLost
  <2>2. QED
    BY <2>1 DEF GetNextUrl, MirrorsInv, MirrorTypeOK, NoMirrorLost
<1>3. QED
  BY <1>1, <1>2

(* set_url_status().                                                       *)
LEMMA FailMirror ==
  ASSUME MirrorsInv, SetUrlStatus(URL_FAILED)
  PROVE  MirrorsInv'
BY SetUrlStatusKeeps DEF MirrorsInv

(* The load of a list that is published.                                   *)
LEMMA LoadMirrors ==
  ASSUME MirrorsInv, NEW p \in Products, LoadUrls(Published[p])
  PROVE  MirrorsInv'
<1>1. /\ Published[p] \in Seq(Mirrors)
      /\ \A i, j \in 1..Len(Published[p]) :
           Published[p][i] = Published[p][j] => i = j
  BY GtkAssumption
<1>2. QED
  BY <1>1, LoadUrlsKeeps DEF MirrorsInv

(* choose_mirror_slot() moves the current pointer within the list, and     *)
(* save_mirror_slot() saves the site of a mirror that was handed out.      *)
LEMMA ClickedMirrors ==
  ASSUME MainInv, ChooseMirror \/ SaveMirror
  PROVE  MirrorsInv'
<1>1. CASE ChooseMirror
  <2>1. PICK k \in 1..Len(list) \ {current} :
          current' = IF k = 1 THEN Len(list) ELSE k - 1
    BY <1>1 DEF ChooseMirror
  <2>2. Len(list) \in Nat /\ k \in 1..Len(list)
    BY DEF MainInv, MirrorsInv, MirrorTypeOK
  <2>3. current' \in 1..Len(list)
    BY <2>1, <2>2
  <2>4. UNCHANGED <<num_mirrors, list, status, preferred_site,
                    preferred_file, full_url, loaded>>
    BY <1>1 DEF ChooseMirror
  <2>5. loaded
    BY <2>2, EmptyList DEF MainInv, MirrorsInv
  <2>6. QED
    BY <2>2, <2>3, <2>4, <2>5
       DEF MainInv, MirrorsInv, MirrorTypeOK, NoMirrorLost
<1>2. CASE SaveMirror
  <2>1. pc \in {"readme", "update"}
    BY <1>2
       DEF SaveMirror, Clickable, Nested, MainInv, FlowInv, PageInv, ButtonInv,
           Listing, Working, Fetching
  <2>2. full_url \in Mirrors
    BY <2>1 DEF MainInv, FlowInv, ProgressInv
  <2>3. preferred_site' \in Hosts \union {NULL}
    BY <1>2, <2>2, HostAssumption
       DEF SaveMirror, IsLocal, MainInv, MirrorsInv, MirrorTypeOK
  <2>4. QED
    BY <1>2, <2>3
       DEF SaveMirror, MainInv, MirrorsInv, MirrorTypeOK, NoMirrorLost
<1>3. QED
  BY <1>1, <1>2

(* Whatever the interface does, it does one of these to the mirrors.       *)
LEMMA MirrorChanges ==
  ASSUME Process \/ User
  PROVE  \/ UNCHANGED mirrorVars
         \/ RecreateUrlset
         \/ RandomizeUrls /\ UNCHANGED loaded
         \/ GetNextUrl
         \/ SetUrlStatus(URL_FAILED)
         \/ \E p \in Products : LoadUrls(Published[p])
         \/ ChooseMirror \/ SaveMirror
<1>1. CASE NextList \/ OpenFails \/ ListsDone
  BY <1>1 DEF NextList, OpenFails, ListsDone
<1>2. ASSUME NEW p \in Products, ListFails(p) \/ ListIsEmpty(p) \/ ListArrives(p)
      PROVE  UNCHANGED mirrorVars \/ LoadUrls(Published[p])
  BY <1>2 DEF ListFails, ListIsEmpty, ListArrives
<1>3. CASE StartDownload
  BY <1>3 DEF StartDownload
<1>4. CASE NextMirror
  BY <1>4 DEF NextMirror
<1>5. CASE UpdateFails \/ RunGpg \/ CheckMd5
  BY <1>5 DEF UpdateFails, RunGpg, CheckMd5, FailedCurrentMirror
<1>6. CASE ReadmeEnds \/ SwitchMirror \/ UpdateArrives \/ FetchSignature
  BY <1>6 DEF ReadmeEnds, SwitchMirror, UpdateArrives, FetchSignature
<1>7. CASE Accept \/ GiveUp \/ PatchExits \/ UpdateComplete \/ UpdateFailed
  BY <1>7 DEF Accept, GiveUp, PatchExits, UpdateComplete, UpdateFailed, GoOn
<1>8. CASE CloseWindow \/ ChooseProducts \/ CancelProducts \/ CancelDownload
  BY <1>8 DEF CloseWindow, ChooseProducts, CancelProducts, CancelDownload
<1>9. CASE ToggleUpdate \/ ToggleAutoUpdate \/ ContinueSelection
  BY <1>9 DEF ToggleUpdate, ToggleAutoUpdate, ContinueSelection
<1>10. CASE ClickNextMirror \/ ClickUpdate
  BY <1>10 DEF ClickNextMirror, ClickUpdate
<1>11. CASE ListProceed \/ CancelSelection \/ CancelUpdate \/ ClickContinue
  BY <1>11
     DEF ListProceed, CancelSelection, CancelUpdate, ClickContinue, MainMenu,
         ChooseProduct
<1>12. QED
  BY <1>1, <1>2, <1>3, <1>4, <1>5, <1>6, <1>7, <1>8, <1>9, <1>10, <1>11
     DEF Process, User

(* The mirrors stay consistent.                                            *)
LEMMA MirrorsStep ==
  ASSUME MainInv, Process \/ User
  PROVE  MirrorsInv'
<1> USE DEF MainInv
<1>1. CASE UNCHANGED mirrorVars
  BY <1>1
     DEF mirrorVars, MirrorsInv, MirrorTypeOK, NoMirrorLost
<1>2. CASE RecreateUrlset
  BY <1>2, RecreateMirrors
<1>3. CASE RandomizeUrls /\ UNCHANGED loaded
  BY <1>3, ShuffleMirrors
<1>4. CASE GetNextUrl
  BY <1>4, NextOfMirrors
<1>5. CASE SetUrlStatus(URL_FAILED)
  BY <1>5, FailMirror
<1>6. CASE \E p \in Products : LoadUrls(Published[p])
  BY <1>6, LoadMirrors
<1>7. CASE ChooseMirror \/ SaveMirror
  BY <1>7, ClickedMirrors
<1>8. QED
  BY <1>1, <1>2, <1>3, <1>4, <1>5, <1>6, <1>7, MirrorChanges

-----------------------------------------------------------------------------
(* What the process or the user does keeps the invariant.                  *)
LEMMA SessionStep ==
  ASSUME MainInv, Process \/ User, InSession
  PROVE  MainInv'
<1>1. MirrorsInv'
  BY MirrorsStep
<1>2. ArgsOK'
  BY DEF MainInv, ArgsOK, InSession, argVars
<1>3. TypesInv' /\ FlowInv'
  <2>1. CASE Process
    BY <2>1, NextListInv, OpenFailsInv, ListsDoneInv, ListFailsInv,
       ListIsEmptyInv, ListArrivesInv, StartDownloadInv, NextMirrorInv,
       ReadmeEndsInv, SwitchMirrorInv, UpdateFailsInv, UpdateArrivesInv,
       FetchSignatureInv, RunGpgInv, CheckMd5Inv, AcceptInv, GiveUpInv,
       PatchExitsInv, UpdateCompleteInv, UpdateFailedInv
       DEF Process
  <2>2. CASE User
    BY <2>2, CloseWindowInv, ChooseProductsInv, CancelProductsInv,
       ListProceedInv, CancelDownloadInv, ToggleUpdateInv,
       ToggleAutoUpdateInv, CancelSelectionInv, ContinueSelectionInv,
       ClickNextMirrorInv, ChooseMirrorInv, SaveMirrorInv, CancelUpdateInv,
       ClickUpdateInv, ClickContinueInv
       DEF User
  <2>3. QED
    BY <2>1, <2>2
<1>4. QED
  BY <1>1, <1>2, <1>3 DEF MainInv

(* The parts of the invariant that do not depend on the stage.             *)
SlotInv ==
  /\ MirrorsInv /\ TypesInv
  /\ PageInv /\ ButtonInv /\ ProgressInv /\ PatchInv

(* main() calls for the update of one product.                             *)
LEMMA CallInv ==
  ASSUME SlotInv, NEW p \in Products, UpdateProduct(p) \/ PerformUpdatesOf(p)
  PROVE  SlotInv'
<1> USE DEF SlotInv, TypesInv, UpdateProduct, PerformUpdatesOf, ChooseUpdate,
            flagVars, cursorVars, trialVars, historyVars
<1>1. MirrorsInv'
  BY DEF mirrorVars, MirrorsInv, MirrorTypeOK, NoMirrorLost
<1>2. CursorOK'
  BY DEF CursorOK
<1>3. FlagsOK'
  BY DEF FlagsOK
<1>4. SlotsOK'
  BY DEF SlotsOK, Pages, Modes, Between
<1>5. PageInv' /\ ButtonInv'
  BY DEF PageInv, ButtonInv, Listing, Working, Fetching
<1>6. ProgressInv'
  BY DEF ProgressInv, Working, Fetching
<1>7. PatchInv'
  BY DEF PatchInv, Working, Fetching
<1>8. QED
  BY <1>1, <1>2, <1>3, <1>4, <1>5, <1>6, <1>7

(* main() shows the products.                                              *)
LEMMA ShowInv ==
  ASSUME SlotInv, NEW known \in BOOLEAN, PerformUpdatesOfAny(known)
  PROVE  SlotInv'
<1> USE DEF SlotInv, TypesInv, PerformUpdatesOfAny, ChooseProduct,
            flagVars, cursorVars, trialVars, historyVars
<1>1. MirrorsInv'
  BY RecreateMirrors
<1>2. CursorOK'
  BY DEF CursorOK
<1>3. FlagsOK'
  BY DEF FlagsOK
<1>4. SlotsOK'
  BY DEF SlotsOK, Pages, Modes
<1>5. PageInv' /\ ButtonInv'
  BY DEF PageInv, ButtonInv, Listing, Working, Fetching
<1>6. ProgressInv'
  BY DEF ProgressInv, Working, Fetching
<1>7. PatchInv'
  BY DEF PatchInv, Working, Fetching
<1>8. QED
  BY <1>1, <1>2, <1>3, <1>4, <1>5, <1>6, <1>7

(* execvp(): a process that has just begun.                                *)
LEMMA StartAgainInv ==
  ASSUME SlotInv, StartAgain
  PROVE  SlotInv' /\ ~failed' /\ pc' = "returned"
<1> USE DEF SlotInv, TypesInv, StartAgain
<1>1. MirrorsInv'
  BY RecreateMirrors
<1>2. CursorOK' /\ FlagsOK'
  BY DEF CursorOK, FlagsOK
<1>3. SlotsOK'
  BY DEF SlotsOK, Pages, Modes, Verdicts, FailedKinds, Finished
<1>4. PageInv' /\ ButtonInv'
  BY DEF PageInv, ButtonInv, Listing, Working, Fetching
<1>5. ProgressInv' /\ PatchInv'
  BY DEF ProgressInv, PatchInv, Working, Fetching
<1>6. QED
  BY <1>1, <1>2, <1>3, <1>4, <1>5

(* A step that leaves the interface alone keeps what is known of it.       *)
LEMMA SlotsUnchanged ==
  ASSUME SlotInv, UNCHANGED vars
  PROVE  SlotInv'
<1> USE DEF SlotInv, TypesInv, vars, gtkVars, flagVars, statusVars, windowVars,
            modeVars, listVars, cursorVars, trialVars, historyVars
<1>1. MirrorsInv'
  BY DEF mirrorVars, MirrorsInv, MirrorTypeOK, NoMirrorLost
<1>2. CursorOK' /\ FlagsOK'
  BY DEF CursorOK, FlagsOK
<1>3. SlotsOK'
  BY DEF SlotsOK
<1>4. PageInv' /\ ButtonInv'
  BY DEF PageInv, ButtonInv
<1>5. ProgressInv' /\ PatchInv'
  BY DEF ProgressInv, PatchInv, Dangling, mirrorVars
<1>6. QED
  BY <1>1, <1>2, <1>3, <1>4, <1>5

(* The initial state.                                                      *)
LEMMA MainInitInv == MainInit => MainInv
<1> SUFFICES ASSUME MainInit,
                    NEW site \in Hosts \union {NULL},
                    NEW quick \in {"SEMI_AUTOMATIC", "FULLY_INTERACTIVE"},
                    Start([p \in Products |-> 0], site, quick)
             PROVE  MainInv
  BY DEF MainInit, GtkInit
<1> USE DEF Start
<1>1. MirrorsInv
  <2>1. MirrorTypeOK /\ NoMirrorLost
    BY MirrorInitInv DEF MirrorInit, ListInv
  <2>2. QED
    BY <2>1 DEF MirrorsInv, EmptyUrlset
<1>2. CursorOK /\ FlagsOK
  BY DEF CursorOK, FlagsOK
<1>3. SlotsOK
  BY DEF SlotsOK, Pages, Modes, Verdicts, FailedKinds, Finished
<1>4. PageInv /\ ButtonInv /\ ProgressInv /\ PatchInv
  BY DEF PageInv, ButtonInv, ProgressInv, PatchInv, Listing, Working, Fetching
<1>5. ExitInv /\ ArgsOK
  BY DEF MainInit, ExitInv, OneProduct, ArgsOK
<1>6. QED
  BY <1>1, <1>2, <1>3, <1>4, <1>5 DEF MainInv, TypesInv, FlowInv

(* Every stage of main() keeps it.                                         *)
LEMMA StagesInv ==
  ASSUME MainInv, Stages
  PROVE  MainInv'
<1>1. SlotInv
  BY DEF MainInv, FlowInv, SlotInv
<1>2. SlotInv' /\ ExitInv' /\ ArgsOK'
  <2> USE DEF MainInv, FlowInv
  <2>1. CASE CheckSelf
    <3>1. PRODUCT \in Products
      BY GtkAssumption DEF PRODUCT, Products
    <3>2. SlotInv'
      BY <1>1, <2>1, <3>1, CallInv DEF CheckSelf
    <3>3. ExitInv'
      BY <2>1
         DEF CheckSelf, UpdateProduct, ChooseUpdate, ExitInv, OneProduct,
             historyVars
    <3>4. ArgsOK'
      BY <2>1 DEF CheckSelf, ArgsOK, argVars
    <3>5. QED
      BY <3>2, <3>3, <3>4
  <2>2. CASE SkipSelfCheck
    <3>1. SlotInv'
      BY <1>1, <2>2, SlotsUnchanged DEF SkipSelfCheck
    <3>2. ExitInv'
      BY <2>2
         DEF SkipSelfCheck, ExitInv, OneProduct, vars, gtkVars, historyVars
    <3>3. ArgsOK'
      BY <2>2 DEF SkipSelfCheck, ArgsOK, argVars
    <3>4. QED
      BY <3>1, <3>2, <3>3
  <2>3. CASE SelfFailed
    <3>1. SlotInv'
      BY <1>1, <2>3, SlotsUnchanged DEF SelfFailed
    <3>2. ExitInv'
      BY <2>3 DEF SelfFailed, Exit, ExitInv, OneProduct, vars, gtkVars
    <3>3. ArgsOK'
      BY <2>3 DEF SelfFailed, Exit, ArgsOK, argVars
    <3>4. QED
      BY <3>1, <3>2, <3>3
  <2>4. CASE SelfIsCurrent
    <3>1. SlotInv'
      BY <1>1, <2>4, SlotsUnchanged DEF SelfIsCurrent
    <3>2. ExitInv'
      BY <2>4
         DEF SelfIsCurrent, ExitInv, OneProduct, vars, gtkVars, historyVars
    <3>3. ArgsOK'
      BY <2>4 DEF SelfIsCurrent, ArgsOK, argVars
    <3>4. QED
      BY <3>1, <3>2, <3>3
  <2>5. CASE Restart
    <3>1. SlotInv'
      BY <1>1, <2>5, SlotsUnchanged, StartAgainInv DEF Restart
    <3>2. ExitInv'
      <4>1. CASE Exit(255) /\ UNCHANGED vars
        BY <2>5, <4>1
           DEF Restart, Exit, ExitInv, OneProduct, vars, gtkVars, argVars
      <4>2. CASE StartAgain /\ stage' = "begin"
        <5>1. ~failed' /\ pc' = "returned"
          BY <1>1, <4>2, StartAgainInv
        <5>2. QED
          BY <4>2, <5>1 DEF ExitInv, OneProduct
      <4>3. QED
        BY <2>5, <4>1, <4>2 DEF Restart
    <3>3. ArgsOK'
      BY <2>5 DEF Restart, Exit, ArgsOK, argVars
    <3>4. QED
      BY <3>1, <3>2, <3>3
  <2>6. CASE UpdateNamed
    <3>1. SlotInv'
      BY <1>1, <2>6, SlotsUnchanged, CallInv DEF UpdateNamed
    <3>2. ExitInv'
      <4>1. CASE product = UNKNOWN /\ Exit(1) /\ UNCHANGED vars
        BY <2>6, <4>1
           DEF UpdateNamed, Exit, ExitInv, OneProduct, vars, gtkVars, argVars
      <4>2. CASE UpdateProduct(product) /\ stage' = "named"
        BY <2>6, <4>2
           DEF UpdateNamed, UpdateProduct, ChooseUpdate, ExitInv, OneProduct,
               historyVars
      <4>3. QED
        BY <2>6, <4>1, <4>2 DEF UpdateNamed
    <3>3. ArgsOK'
      BY <2>6 DEF UpdateNamed, Exit, ArgsOK, argVars
    <3>4. QED
      BY <3>1, <3>2, <3>3
  <2>7. CASE ShowNamed
    <3>1. SlotInv'
      BY <1>1, <2>7, ShowInv, CallInv DEF ShowNamed
    <3>2. ExitInv'
      BY <2>7, MainAssumption
         DEF ShowNamed, PerformUpdatesOf, PerformUpdatesOfAny, ChooseUpdate,
             ExitInv, OneProduct, argVars, historyVars
    <3>3. ArgsOK'
      BY <2>7 DEF ShowNamed, ArgsOK, argVars
    <3>4. QED
      BY <3>1, <3>2, <3>3
  <2>8. CASE NamedEnds
    <3>1. SlotInv'
      BY <1>1, <2>8, SlotsUnchanged DEF NamedEnds
    <3>2. ExitInv'
      BY <2>8
         DEF NamedEnds, Exit, ExitInv, OneProduct, vars, gtkVars, argVars,
             historyVars
    <3>3. ArgsOK'
      BY <2>8 DEF NamedEnds, Exit, ArgsOK, argVars
    <3>4. QED
      BY <3>1, <3>2, <3>3
  <2>9. CASE ShowAll
    <3>1. SlotInv'
      BY <1>1, <2>9, ShowInv DEF ShowAll
    <3>2. ExitInv'
      BY <2>9
         DEF ShowAll, PerformUpdatesOfAny, ExitInv, OneProduct, argVars
    <3>3. ArgsOK'
      BY <2>9 DEF ShowAll, ArgsOK, argVars
    <3>4. QED
      BY <3>1, <3>2, <3>3
  <2>10. CASE AllEnds
    <3>1. SlotInv'
      BY <1>1, <2>10, SlotsUnchanged DEF AllEnds
    <3>2. ExitInv'
      BY <2>10, GtkAssumption
         DEF AllEnds, Exit, ExitInv, OneProduct, vars, gtkVars, argVars
    <3>3. ArgsOK'
      BY <2>10 DEF AllEnds, Exit, ArgsOK, argVars
    <3>4. QED
      BY <3>1, <3>2, <3>3
  <2>11. QED
    BY <2>1, <2>2, <2>3, <2>4, <2>5, <2>6, <2>7, <2>8, <2>9, <2>10 DEF Stages
<1>3. QED
  BY <1>2 DEF SlotInv, MainInv, FlowInv

(* Every step of the program keeps the invariant.                          *)
LEMMA MainStepInv == MainInv /\ [MainNext]_mainVars => MainInv'
<1> SUFFICES ASSUME MainInv, [MainNext]_mainVars
             PROVE  MainInv'
  OBVIOUS
<1>1. CASE Stages
  BY <1>1, StagesInv
<1>2. CASE (Process \/ User) /\ InSession
  BY <1>2, SessionStep
<1>3. CASE UNCHANGED mainVars
  <2>1. SlotInv'
    BY <1>3, SlotsUnchanged DEF mainVars, MainInv, FlowInv, SlotInv
  <2>2. ExitInv' /\ ArgsOK'
    BY <1>3
       DEF mainVars, argVars, vars, gtkVars, statusVars, windowVars, modeVars,
           historyVars, MainInv, FlowInv, ExitInv, OneProduct, ArgsOK
  <2>3. QED
    BY <2>1, <2>2 DEF SlotInv, MainInv, FlowInv
<1>4. QED
  BY <1>1, <1>2, <1>3 DEF MainNext, InSession

-----------------------------------------------------------------------------
(* Type correctness of the program and its interface (gtk_ui.c:47-160,     *)
(* loki_update.c:190-230).                                                 *)
THEOREM MainTypeCorrect == MainSpec => []MainTypeOK
<1>1. MainInv => MainTypeOK
  <2> SUFFICES ASSUME MainInv PROVE MainTypeOK
    OBVIOUS
  <2> USE DEF MainInv, TypesInv
  <2>1. {running, quit, one_product, update_proceeding, download_pending,
         download_cancelled, switch_mirror, product_patchset, installed,
         have_readme, asked, failed} \subseteq BOOLEAN
    BY Zenon DEF FlagsOK
  <2>2. \/ cursor = NoPatch
        \/ /\ cursor.of \in Products
           /\ 1 <= cursor.patch /\ cursor.patch <= cursor.last
           /\ cursor.last <= Top[cursor.of]
    BY DEF CursorOK
  <2>3. GtkTypeOK
    BY <2>1, <2>2 DEF GtkTypeOK, SlotsOK, MirrorsInv
  <2>4. {self_check, auto_update} \subseteq BOOLEAN
    BY Zenon DEF ArgsOK
  <2>5. QED
    BY <2>3, <2>4 DEF MainTypeOK, ArgsOK
<1>2. QED
  BY MainInitInv, MainStepInv, <1>1, PTL DEF MainSpec

(* Whatever the user clicks, and however often, no slot is run in the      *)
(* middle of another that would begin or end it, and none reaches for a    *)
(* patch that is not there (gtk_ui.c:1304, 1365, 1567, 1757, 1783).        *)
THEOREM ClicksAreSafe == MainSpec => []SlotsAreSafe
<1>1. MainInv => NoReentry
  BY DEF MainInv, FlowInv, PageInv, ButtonInv, ProgressInv, NoReentry, Nested,
         Listing, Working, Fetching, FailedKinds
<1>2. MainInv => PatchIsThere
  BY DEF MainInv, FlowInv, ButtonInv, ProgressInv, PatchInv, PatchIsThere,
         Nested, Between, Working, Fetching
<1>3. MainInv => SlotsAreSafe
  BY <1>1, <1>2 DEF SlotsAreSafe
<1>4. QED
  BY MainInitInv, MainStepInv, <1>3, PTL DEF MainSpec

(* While the program waits for the user, the page that is shown has a      *)
(* button that works (gtk_ui.c:1304-1335, 1757-1790).                      *)
THEOREM UserHasAWay == MainSpec => []NoDeadEnd
<1>1. MainInv => NoDeadEnd
  BY DEF MainInv, FlowInv, PageInv, ButtonInv, NoDeadEnd, Listing
<1>2. QED
  BY MainInitInv, MainStepInv, <1>1, PTL DEF MainSpec

(* The exit status of the update of one product tells whether it failed    *)
(* (loki_update.c:349-358, gtk_ui.c:1533, 1590).                           *)
THEOREM ExitStatusIsTrue == MainSpec => []ExitTellsFailure
<1>1. MainInv => ExitTellsFailure
  BY DEF MainInv, FlowInv, ExitInv, ExitTellsFailure
<1>2. QED
  BY MainInitInv, MainStepInv, <1>1, PTL DEF MainSpec

-----------------------------------------------------------------------------
(***************************************************************************)
(* That the sessions of the graphical program are runs as UpdateRun        *)
(* describes them, for any number of products and patches, any clicks and  *)
(* any failures.                                                           *)
(***************************************************************************)

(***************************************************************************)
(* While the cursor is on a patch that is to be installed, the patches     *)
(* before it are, and it is not; after the archive has succeeded, it is.   *)
(* The flag of skip_to_selected_update() is cleared before each download.  *)
(***************************************************************************)
AtCursor ==
  \/ pc \in Working \union {"start"}
  \/ pc \in Listing /\ owner # NULL
  \/ pc = "main" /\ page = "SELECT_PAGE"
  \/ /\ pc = "main" /\ page = "UPDATE_PAGE"
     /\ update_proceeding \/ update_status >= 0

VersionInv ==
  /\ AtCursor /\ cursor.of # NULL /\ pc # "reap" =>
       db[cursor.of] = cursor.patch - 1
  /\ pc = "reap" /\ exit = "ok" => db[cursor.of] = cursor.patch
  /\ pc = "start" \/ (pc = "main" /\ page = "SELECT_PAGE") => ~installed
  /\ pc = "start" /\ page = "UPDATE_PAGE" => update_status >= 0

(* A step that begins no run and applies no patch: a run goes on with its  *)
(* goal, or it ends, and in success only at its goal.                      *)
Quiet ==
  /\ UNCHANGED db
  /\ Running' => Running /\ cursor'.of = cursor.of /\ cursor'.last = cursor.last
  /\ Failed' => (Running \/ Failed) /\ cursor' = cursor
  /\ Running /\ Complete' => db[cursor.of] = cursor.last

(* A download begins a run, with something to do.                          *)
Begins ==
  /\ UNCHANGED db
  /\ ~Running /\ Running'
  /\ cursor'.of \in Products
  /\ cursor'.last \in Nat /\ db[cursor'.of] < cursor'.last

(* The archive of the next patch succeeds.                                 *)
Applies ==
  /\ Running /\ Running' /\ cursor' = cursor
  /\ db[cursor.of] < cursor.last
  /\ db' = [db EXCEPT ![cursor.of] = db[cursor.of] + 1]

-----------------------------------------------------------------------------
(* The goal of a state, or of the next one, is a version of each product.  *)
LEMMA GoalIs ==
  ASSUME MainInv
  PROVE  /\ db \in [Products -> Nat]
         /\ Goal \in [Products -> Nat]
         /\ Running \/ Failed =>
              /\ cursor.of \in Products /\ cursor.last \in Nat
              /\ Goal = [db EXCEPT ![cursor.of] = cursor.last]
         /\ ~(Running \/ Failed) => Goal = db
<1>1. db \in [Products -> Nat]
  BY DEF MainInv, TypesInv, SlotsOK
<1>2. CASE Running \/ Failed
  <2>1. cursor.of \in Products /\ cursor.last \in Nat
    BY <1>2 DEF MainInv, TypesInv, CursorOK, NoPatch, Running, Failed
  <2>2. Goal = [p \in Products |-> IF p = cursor.of THEN cursor.last ELSE db[p]]
    BY <1>2 DEF Goal
  <2>3. QED
    BY <1>1, <1>2, <2>1, <2>2
<1>3. CASE ~(Running \/ Failed)
  <2>1. Goal = [p \in Products |-> db[p]]
    BY <1>3 DEF Goal
  <2>2. QED
    BY <1>1, <1>3, <2>1
<1>4. QED
  BY <1>2, <1>3

(* ... and in the next state.                                              *)
LEMMA GoalIsNext ==
  ASSUME MainInv'
  PROVE  /\ db' \in [Products -> Nat]
         /\ Goal' \in [Products -> Nat]
         /\ Running' \/ Failed' =>
              /\ cursor'.of \in Products /\ cursor'.last \in Nat
              /\ Goal' = [db' EXCEPT ![cursor'.of] = cursor'.last]
         /\ ~(Running' \/ Failed') => Goal' = db'
<1>1. db' \in [Products -> Nat]
  BY DEF MainInv, TypesInv, SlotsOK
<1>2. CASE Running' \/ Failed'
  <2>1. cursor'.of \in Products /\ cursor'.last \in Nat
    BY <1>2 DEF MainInv, TypesInv, CursorOK, NoPatch, Running, Failed
  <2>2. Goal' = [p \in Products |->
                   IF p = cursor'.of THEN cursor'.last ELSE db'[p]]
    BY <1>2 DEF Goal
  <2>3. QED
    BY <1>1, <1>2, <2>1, <2>2
<1>3. CASE ~(Running' \/ Failed')
  <2>1. Goal' = [p \in Products |-> db'[p]]
    BY <1>3 DEF Goal
  <2>2. QED
    BY <1>1, <1>3, <2>1
<1>4. QED
  BY <1>2, <1>3

(* The outcome, spelt out.                                                 *)
LEMMA OutcomeIs ==
  /\ Outcome \in {"running", "failed", "succeeded", "none"}
  /\ Outcome = "running" <=> Running
  /\ Outcome = "failed" <=> ~Running /\ Failed
  /\ Outcome = "succeeded" <=> ~Running /\ ~Failed /\ Complete
BY DEF Outcome

(* ... and in the next state.                                              *)
LEMMA OutcomeIsNext ==
  /\ Outcome' \in {"running", "failed", "succeeded", "none"}
  /\ Outcome' = "running" <=> Running'
  /\ Outcome' = "failed" <=> ~Running' /\ Failed'
  /\ Outcome' = "succeeded" <=> ~Running' /\ ~Failed' /\ Complete'
BY DEF Outcome

(* A quiet step is the end of a run, the end of what one left, or nothing  *)
(* at all.                                                                 *)
LEMMA QuietStep ==
  ASSUME MainInv, MainInv', Quiet
  PROVE  Run!Next \/ UNCHANGED <<db, Goal, Outcome>>
<1>1. db' = db
  BY DEF Quiet
<1>2. CASE Running'
  <2>1. /\ Running /\ cursor'.of = cursor.of /\ cursor'.last = cursor.last
    BY <1>2 DEF Quiet
  <2>2. Goal' = Goal
    BY <1>1, <1>2, <2>1, GoalIs, GoalIsNext
  <2>3. QED
    BY <1>1, <1>2, <2>1, <2>2, OutcomeIs, OutcomeIsNext
<1>3. CASE ~Running' /\ Failed'
  <2>1. (Running \/ Failed) /\ cursor' = cursor
    BY <1>3 DEF Quiet
  <2>2. Goal' = Goal
    BY <1>1, <1>3, <2>1, GoalIs, GoalIsNext
  <2>3. CASE Running
    <3>1. db[cursor.of] # cursor.last
      BY <1>1, <1>3, <2>1 DEF Failed
    <3>2. db # Goal
      BY <2>3, <3>1, GoalIs
    <3>3. Run!Fail
      BY <1>1, <1>3, <2>2, <2>3, <3>2, OutcomeIs, OutcomeIsNext DEF Run!Fail
    <3>4. QED
      BY <3>3 DEF Run!Next
  <2>4. CASE ~Running
    BY <1>1, <1>3, <2>1, <2>2, <2>4, OutcomeIs, OutcomeIsNext
  <2>5. QED
    BY <2>3, <2>4
<1>4. CASE ~Running' /\ ~Failed'
  <2>1. Goal' = db /\ Outcome' \in {"none", "succeeded"}
    BY <1>1, <1>4, GoalIsNext, OutcomeIsNext
  <2>2. CASE ~Running
    <3>1. Run!NoUpdate
      BY <1>1, <2>1, <2>2, OutcomeIs DEF Run!NoUpdate
    <3>2. QED
      BY <3>1 DEF Run!Next
  <2>3. CASE Running /\ Outcome' = "none"
    <3>1. Run!Abort
      BY <1>1, <2>1, <2>3, OutcomeIs DEF Run!Abort
    <3>2. QED
      BY <3>1 DEF Run!Next
  <2>4. CASE Running /\ Outcome' = "succeeded"
    <3>1. db[cursor.of] = cursor.last
      BY <2>4, OutcomeIsNext DEF Quiet
    <3>2. Goal = db
      BY <2>4, <3>1, GoalIs
    <3>3. Run!Succeed
      BY <1>1, <2>1, <2>4, <3>2, OutcomeIs DEF Run!Succeed
    <3>4. QED
      BY <3>3 DEF Run!Next
  <2>5. QED
    BY <2>1, <2>2, <2>3, <2>4
<1>5. QED
  BY <1>2, <1>3, <1>4

(* The goals of a run that begins are beyond what is there.                *)
LEMMA BeginsStep ==
  ASSUME MainInv, MainInv', Begins
  PROVE  Run!Begin
<1>1. db' = db /\ cursor'.of \in Products /\ db[cursor'.of] < cursor'.last
  BY DEF Begins
<1>2. Outcome # "running" /\ Outcome' = "running"
  BY OutcomeIs, OutcomeIsNext DEF Begins
<1>3. /\ Goal' \in [Products -> Nat] /\ db \in [Products -> Nat]
      /\ Goal' = [db EXCEPT ![cursor'.of] = cursor'.last]
      /\ cursor'.last \in Nat
  BY <1>1, GoalIs, GoalIsNext DEF Begins
<1>4. \A p \in Products : Goal'[p] >= db[p]
  <2> TAKE p \in Products
  <2>1. CASE p = cursor'.of
    BY <1>1, <1>3, <2>1
  <2>2. CASE p # cursor'.of
    BY <1>3, <2>2
  <2>3. QED
    BY <2>1, <2>2
<1>5. Goal' # db
  <2>1. Goal'[cursor'.of] = cursor'.last /\ db[cursor'.of] \in Nat
    BY <1>1, <1>3
  <2>2. QED
    BY <1>1, <1>3, <2>1
<1>6. QED
  BY <1>1, <1>2, <1>3, <1>4, <1>5 DEF Run!Begin, Run!Roots, Products

(* The patch that is applied is the next of the only product behind.       *)
LEMMA AppliesStep ==
  ASSUME MainInv, MainInv', Applies
  PROVE  \E r \in Products : Run!Apply(r)
<1>1. /\ cursor.of \in Products /\ cursor.last \in Nat
      /\ db \in [Products -> Nat]
      /\ Goal = [db EXCEPT ![cursor.of] = cursor.last]
  BY GoalIs DEF Applies
<1>2. /\ cursor' = cursor /\ db' = [db EXCEPT ![cursor.of] = db[cursor.of] + 1]
      /\ db[cursor.of] < cursor.last
  BY DEF Applies
<1>3. Goal' = [db' EXCEPT ![cursor.of] = cursor.last]
  BY <1>2, GoalIsNext DEF Applies
<1>4. Goal' = Goal
  BY <1>1, <1>2, <1>3
<1>5. Outcome = "running" /\ Outcome' = "running"
  BY OutcomeIs, OutcomeIsNext DEF Applies
<1>6. db[cursor.of] < Goal[cursor.of]
  BY <1>1, <1>2
<1>7. \A q \in Products : q < cursor.of => db[q] = Goal[q]
  <2> SUFFICES ASSUME NEW q \in Products, q < cursor.of
               PROVE  db[q] = Goal[q]
    OBVIOUS
  <2>1. q \in Nat /\ cursor.of \in Nat
    BY <1>1 DEF Products
  <2>2. q # cursor.of
    BY <2>1
  <2>3. QED
    BY <1>1, <2>2
<1>8. Run!Apply(cursor.of)
  BY <1>2, <1>4, <1>5, <1>6, <1>7 DEF Run!Apply, Run!Roots, Products
<1>9. QED
  BY <1>1, <1>8

-----------------------------------------------------------------------------
(* What each slot does to the versions, and that it is quiet.              *)

(* A list is requested: the page of the updates is not shown yet.          *)
LEMMA NextListQuiet ==
  ASSUME MainInv, MainInv', VersionInv, NextList
  PROVE  VersionInv' /\ Quiet
<1> USE DEF MainInv, TypesInv, FlowInv
<1> USE DEF NextList, SetDownloadInfo, mirrorVars, statusVars, windowVars,
            modeVars, listVars, cursorVars, trialVars, historyVars
<1>1. VersionInv'
  BY DEF VersionInv, AtCursor, Working, Fetching, Listing
<1>2. Quiet
  BY DEF Quiet, Running, Failed, Complete, AtUpdates, Finished, NoPatch
<1>3. QED
  BY <1>1, <1>2

(* A product that cannot be opened: no page of updates.                    *)
LEMMA OpenFailsQuiet ==
  ASSUME MainInv, MainInv', VersionInv, OpenFails
  PROVE  VersionInv' /\ Quiet
<1> USE DEF MainInv, TypesInv, FlowInv
<1> USE DEF OpenFails, mirrorVars, flagVars, statusVars, windowVars, modeVars,
            listVars, cursorVars, trialVars, historyVars
<1>1. VersionInv'
  BY DEF VersionInv, AtCursor, Working, Fetching, Listing
<1>2. Quiet
  BY DEF Quiet, Running, Failed, Complete, AtUpdates, Finished, NoPatch
<1>3. QED
  BY <1>1, <1>2

(* A list that cannot be had: no page of updates.                          *)
LEMMA ListFailsQuiet ==
  ASSUME MainInv, MainInv', VersionInv, NEW p \in Products, ListFails(p)
  PROVE  VersionInv' /\ Quiet
<1> USE DEF MainInv, TypesInv, FlowInv
<1> USE DEF ListFails, mirrorVars, flagVars, windowVars, modeVars, cursorVars,
            trialVars, historyVars
<1>1. VersionInv'
  BY DEF VersionInv, AtCursor, Working, Fetching, Listing
<1>2. Quiet
  BY DEF Quiet, Running, Failed, Complete, AtUpdates, Finished, NoPatch
<1>3. QED
  BY <1>1, <1>2

(* A list without patches leaves the cursor alone.                         *)
LEMMA ListIsEmptyQuiet ==
  ASSUME MainInv, MainInv', VersionInv, NEW p \in Products, ListIsEmpty(p)
  PROVE  VersionInv' /\ Quiet
<1> USE DEF MainInv, TypesInv, FlowInv
<1> USE DEF ListIsEmpty, mirrorVars, flagVars, statusVars, windowVars, modeVars,
            cursorVars, trialVars, historyVars
<1>1. VersionInv'
  BY DEF VersionInv, AtCursor, Working, Fetching, Listing
<1>2. Quiet
  BY DEF Quiet, Running, Failed, Complete, AtUpdates, Finished, NoPatch
<1>3. QED
  BY <1>1, <1>2

(* The cursor is put on the patch after the version installed.             *)
LEMMA ListArrivesQuiet ==
  ASSUME MainInv, MainInv', VersionInv, NEW p \in Products, ListArrives(p)
  PROVE  VersionInv' /\ Quiet
<1> USE DEF MainInv, TypesInv, FlowInv
<1> USE DEF ListArrives, mirrorVars, flagVars, statusVars, windowVars, modeVars,
            trialVars, historyVars
<1>1. VersionInv'
  BY DEF VersionInv, AtCursor, Listing, SlotsOK, NoPatch
<1>2. Quiet
  BY DEF Quiet, Running, Failed, AtUpdates, PageInv, Listing
<1>3. QED
  BY <1>1, <1>2

(* The lists are done before a run begins.                                 *)
LEMMA ListsDoneQuiet ==
  ASSUME MainInv, MainInv', VersionInv, ListsDone
  PROVE  VersionInv' /\ Quiet
<1> USE DEF MainInv, TypesInv, FlowInv
<1> USE DEF ListsDone, SlotReturns, mirrorVars, flagVars, modeVars, listVars,
            trialVars, historyVars
<1>1. VersionInv'
  BY DEF VersionInv, AtCursor, Listing, NoPatch
<1>2. Quiet
  BY DEF Quiet, Running, Failed, AtUpdates, PageInv, Listing
<1>3. QED
  BY <1>1, <1>2

(* The one action that begins a run: nothing of the patch is there.        *)
LEMMA StartDownloadQuiet ==
  ASSUME MainInv, MainInv', VersionInv, StartDownload
  PROVE  VersionInv' /\ (Quiet \/ Begins)
<1> USE DEF MainInv, TypesInv, FlowInv
<1> USE DEF StartDownload, SkipToSelectedUpdate, SlotReturns, statusVars,
            windowVars, modeVars, listVars, cursorVars, trialVars, historyVars
<1>1. ~installed /\ pc = "start" /\ db' = db
  BY DEF VersionInv
<1>2. CASE cursor' = NoPatch /\ UNCHANGED <<page, update_proceeding>>
  <2>1. cursor' = cursor
    BY <1>1, <1>2 DEF NoPatch, CursorOK
  <2>2. VersionInv'
    BY <1>1, <1>2 DEF VersionInv, AtCursor, NoPatch
  <2>3. Quiet
    BY <1>1, <1>2, <2>1
       DEF Quiet, Running, Failed, Complete, AtUpdates, NoPatch
  <2>4. QED
    BY <2>2, <2>3
<1>3. CASE cursor.of # NULL /\ cursor' = cursor /\ pc' = "mirror"
  <2>1. /\ cursor \in [of : Products, patch : Nat, last : Nat]
        /\ cursor.patch <= cursor.last
    BY <1>3 DEF CursorOK, NoPatch
  <2>2. /\ db[cursor.of] = cursor.patch - 1
        /\ page' = "UPDATE_PAGE" /\ update_proceeding'
        /\ product_patchset' = product_patchset /\ product_patchset
    BY <1>1, <1>3 DEF VersionInv, AtCursor, PatchInv, Dangling, NoPatch
  <2>3. db[cursor.of] < cursor.last
    BY <2>1, <2>2
  <2>4. VersionInv'
    BY <1>1, <1>3, <2>2 DEF VersionInv, AtCursor
  <2>5. Running'
    BY <1>3, <2>2 DEF Running, AtUpdates, Finished
  <2>6. CASE page = "UPDATE_PAGE"
    <3>1. Running
      BY <1>1, <1>3, <2>2, <2>6
         DEF Running, AtUpdates, VersionInv, Finished
    <3>2. ~Failed' /\ ~Complete'
      BY <1>3, <2>2 DEF Failed, Complete, NoPatch
    <3>3. QED
      BY <1>1, <1>3, <2>4, <2>5, <3>1, <3>2 DEF Quiet
  <2>7. CASE page # "UPDATE_PAGE"
    <3>1. ~Running /\ ~Failed
      BY <2>7 DEF Running, Failed, AtUpdates
    <3>2. QED
      BY <1>1, <1>3, <2>1, <2>3, <2>4, <2>5, <3>1 DEF Begins
  <2>8. QED
    BY <2>6, <2>7
<1>4. QED
  BY <1>1, <1>2, <1>3

(* The next mirror: the run goes on, or ends without a success.            *)
LEMMA NextMirrorQuiet ==
  ASSUME MainInv, MainInv', VersionInv, NextMirror
  PROVE  VersionInv' /\ Quiet
<1> USE DEF MainInv, TypesInv, FlowInv
<1> USE DEF NextMirror, flagVars, SetDownloadInfo, statusVars, windowVars,
            modeVars, listVars, cursorVars, trialVars
<1>1. VersionInv'
  BY DEF VersionInv, AtCursor, Working, Fetching
<1>2. Quiet
  BY DEF Quiet, Running, Failed, Complete, AtUpdates, Finished, NoPatch
<1>3. QED
  BY <1>1, <1>2

(* The README: the run goes on.                                            *)
LEMMA ReadmeEndsQuiet ==
  ASSUME MainInv, MainInv', VersionInv, ReadmeEnds
  PROVE  VersionInv' /\ Quiet
<1> USE DEF MainInv, TypesInv, FlowInv
<1> USE DEF ReadmeEnds, SetDownloadInfo, mirrorVars, statusVars, windowVars,
            modeVars, listVars, cursorVars, historyVars
<1>1. VersionInv'
  BY DEF VersionInv, AtCursor, Working, Fetching
<1>2. Quiet
  BY DEF Quiet, Running, Failed, Complete, AtUpdates, Finished, NoPatch
<1>3. QED
  BY <1>1, <1>2

(* Another mirror: the run goes on.                                        *)
LEMMA SwitchMirrorQuiet ==
  ASSUME MainInv, MainInv', VersionInv, SwitchMirror
  PROVE  VersionInv' /\ Quiet
<1> USE DEF MainInv, TypesInv, FlowInv
<1> USE DEF SwitchMirror, EndOfLoop, mirrorVars, flagVars, statusVars,
            windowVars, modeVars, listVars, cursorVars
<1>1. VersionInv'
  BY DEF VersionInv, AtCursor, Working, Fetching
<1>2. Quiet
  BY DEF Quiet, Running, Failed, Complete, AtUpdates, Finished, NoPatch
<1>3. QED
  BY <1>1, <1>2

(* A failed transfer: the run goes on, with the next mirror.               *)
LEMMA UpdateFailsQuiet ==
  ASSUME MainInv, MainInv', VersionInv, UpdateFails
  PROVE  VersionInv' /\ Quiet
<1> USE DEF MainInv, TypesInv, FlowInv
<1> USE DEF UpdateFails, EndOfLoop, flagVars, statusVars, windowVars, modeVars,
            listVars, cursorVars
<1>1. VersionInv'
  BY DEF VersionInv, AtCursor, Working, Fetching
<1>2. Quiet
  BY DEF Quiet, Running, Failed, Complete, AtUpdates, Finished, NoPatch
<1>3. QED
  BY <1>1, <1>2

(* A transfer: the run goes on.                                            *)
LEMMA UpdateArrivesQuiet ==
  ASSUME MainInv, MainInv', VersionInv, UpdateArrives
  PROVE  VersionInv' /\ Quiet
<1> USE DEF MainInv, TypesInv, FlowInv
<1> USE DEF UpdateArrives, SetDownloadInfo, mirrorVars, statusVars, windowVars,
            modeVars, listVars, cursorVars
<1>1. VersionInv'
  BY DEF VersionInv, AtCursor, Working, Fetching
<1>2. Quiet
  BY DEF Quiet, Running, Failed, Complete, AtUpdates, Finished, NoPatch
<1>3. QED
  BY <1>1, <1>2

(* The signature: the run goes on.                                         *)
LEMMA FetchSignatureQuiet ==
  ASSUME MainInv, MainInv', VersionInv, FetchSignature
  PROVE  VersionInv' /\ Quiet
<1> USE DEF MainInv, TypesInv, FlowInv
<1> USE DEF FetchSignature, SetDownloadInfo, mirrorVars, statusVars, windowVars,
            modeVars, listVars, cursorVars, trialVars, historyVars
<1>1. VersionInv'
  BY DEF VersionInv, AtCursor, Working, Fetching
<1>2. Quiet
  BY DEF Quiet, Running, Failed, Complete, AtUpdates, Finished, NoPatch
<1>3. QED
  BY <1>1, <1>2

(* The verdict of gpg: the run goes on.                                    *)
LEMMA RunGpgQuiet ==
  ASSUME MainInv, MainInv', VersionInv, RunGpg
  PROVE  VersionInv' /\ Quiet
<1> USE DEF MainInv, TypesInv, FlowInv
<1> USE DEF RunGpg, SetDownloadInfo, mirrorVars, EndOfLoop, flagVars,
            statusVars, windowVars, modeVars, listVars, cursorVars,
            historyVars
<1>1. VersionInv'
  BY DEF VersionInv, AtCursor, Working, Fetching
<1>2. Quiet
  BY DEF Quiet, Running, Failed, Complete, AtUpdates, Finished, NoPatch
<1>3. QED
  BY <1>1, <1>2

(* The checksum: the run goes on.                                          *)
LEMMA CheckMd5Quiet ==
  ASSUME MainInv, MainInv', VersionInv, CheckMd5
  PROVE  VersionInv' /\ Quiet
<1> USE DEF MainInv, TypesInv, FlowInv
<1> USE DEF CheckMd5, EndOfLoop, mirrorVars, flagVars, statusVars, windowVars,
            modeVars, listVars, cursorVars, historyVars
<1>1. VersionInv'
  BY DEF VersionInv, AtCursor, Working, Fetching
<1>2. Quiet
  BY DEF Quiet, Running, Failed, Complete, AtUpdates, Finished, NoPatch
<1>3. QED
  BY <1>1, <1>2

(* The patch waits for a click, or is performed: the run goes on.          *)
LEMMA AcceptQuiet ==
  ASSUME MainInv, MainInv', VersionInv, Accept
  PROVE  VersionInv' /\ Quiet
<1> USE DEF MainInv, TypesInv, FlowInv
<1> USE DEF Accept, PerformUpdate, SlotReturns, flagVars, mirrorVars, modeVars,
            listVars, cursorVars, trialVars, historyVars, SetDownloadInfo
<1>1. VersionInv'
  BY DEF VersionInv, AtCursor, PageInv, Working, Fetching
<1>2. Quiet
  BY DEF Quiet, Running, Failed, Complete, AtUpdates, Finished, NoPatch
<1>3. QED
  BY <1>1, <1>2

(* No mirror is left: the run ends, and its patch is not installed.        *)
LEMMA GiveUpQuiet ==
  ASSUME MainInv, MainInv', VersionInv, GiveUp
  PROVE  VersionInv' /\ Quiet
<1> USE DEF MainInv, TypesInv, FlowInv
<1> USE DEF GiveUp, CleanupUpdate, GoOn, modeVars, TrialOver,
            SkipToSelectedUpdate, cursorVars, SlotReturns, mirrorVars,
            flagVars
<1>1. VersionInv'
  BY DEF VersionInv, AtCursor, PageInv, Working, Fetching
<1>2. Quiet
  BY DEF Quiet, Running, Failed, Complete, AtUpdates, ProgressInv, Working,
         Fetching, Finished, NoPatch
<1>3. QED
  BY <1>1, <1>2

(* The one action that applies a patch; a failing archive is quiet.        *)
LEMMA PatchExitsQuiet ==
  ASSUME MainInv, MainInv', VersionInv, PatchExits
  PROVE  VersionInv' /\ (Quiet \/ Applies)
<1> USE DEF MainInv, TypesInv, FlowInv
<1> USE DEF PatchExits, flagVars, statusVars, windowVars, modeVars, listVars,
            cursorVars, historyVars
<1>1. /\ pc = "perform" /\ pc' = "reap" /\ cursor' = cursor
      /\ cursor.of # NULL /\ update_proceeding /\ page = "UPDATE_PAGE"
      /\ product_patchset
  BY DEF PatchInv, PageInv, ProgressInv, Working, Fetching, Dangling
<1>2. /\ cursor \in [of : Products, patch : Nat, last : Nat]
      /\ cursor.patch <= cursor.last
      /\ db \in [Products -> Nat]
  BY <1>1 DEF CursorOK, SlotsOK, NoPatch
<1>3. db[cursor.of] = cursor.patch - 1
  BY <1>1 DEF VersionInv, AtCursor, Working
<1>4. Running /\ Running' /\ ~Failed' /\ ~Complete'
  BY <1>1 DEF Running, Failed, Complete, AtUpdates, Finished, NoPatch
<1>5. CASE db' = db /\ exit' = "error"
  BY <1>1, <1>4, <1>5 DEF Quiet, VersionInv
<1>6. CASE db' = [db EXCEPT ![cursor.of] = cursor.patch]
  <2>1. cursor.patch = db[cursor.of] + 1 /\ db[cursor.of] < cursor.last
    BY <1>2, <1>3
  <2>2. Applies
    BY <1>1, <1>2, <1>4, <1>6, <2>1 DEF Applies
  <2>3. db'[cursor.of] = cursor.patch
    BY <1>2, <1>6
  <2>4. VersionInv'
    BY <1>1, <2>3 DEF VersionInv
  <2>5. QED
    BY <2>2, <2>4
<1>7. QED
  BY <1>5, <1>6

(* The patch at the cursor is installed: the next one, or success.         *)
LEMMA UpdateCompleteQuiet ==
  ASSUME MainInv, MainInv', VersionInv, UpdateComplete
  PROVE  VersionInv' /\ Quiet
<1> USE DEF MainInv, TypesInv, FlowInv
<1> USE DEF UpdateComplete, CleanupUpdate, TrialOver, GoOn, SlotReturns,
            flagVars, modeVars, historyVars
<1>1. /\ pc = "reap" /\ cursor.of # NULL /\ installed /\ page = "UPDATE_PAGE"
      /\ product_patchset /\ update_proceeding
  BY DEF PatchInv, PageInv, ProgressInv, Working, Fetching, Dangling
<1>2. /\ cursor \in [of : Products, patch : Nat, last : Nat]
      /\ db[cursor.of] = cursor.patch
      /\ update_status' \in Int /\ update_status' >= 0
  BY <1>1 DEF CursorOK, VersionInv, SlotsOK, NoPatch
<1>3. /\ pc' \in {"start", "returned", "main"} /\ ~installed'
      /\ UNCHANGED <<db, page, product_patchset>> /\ ~update_proceeding'
      /\ cursor' = IF cursor.patch = cursor.last THEN NoPatch
                   ELSE [cursor EXCEPT !.patch = cursor.patch + 1]
  BY <1>1, <1>2 DEF SkipToSelectedUpdate
<1>4. Running /\ ~Failed'
  BY <1>1, <1>2, <1>3 DEF Running, Failed, AtUpdates, Finished
<1>5. CASE cursor.patch = cursor.last
  <2>1. cursor' = NoPatch
    BY <1>3, <1>5
  <2>2. VersionInv'
    BY <1>2, <1>3, <2>1 DEF VersionInv, NoPatch
  <2>3. Quiet
    BY <1>2, <1>3, <1>4, <1>5, <2>1 DEF Quiet, Running, NoPatch
  <2>4. QED
    BY <2>2, <2>3
<1>6. CASE cursor.patch # cursor.last
  <2>1. /\ cursor'.of = cursor.of /\ cursor'.last = cursor.last
        /\ cursor'.patch = cursor.patch + 1
    BY <1>2, <1>3, <1>6
  <2>2. db[cursor.of] = cursor'.patch - 1
    BY <1>2, <2>1
  <2>3. VersionInv'
    BY <1>2, <1>3, <2>1, <2>2 DEF VersionInv
  <2>4. ~Complete'
    BY <1>1, <2>1 DEF Complete, NoPatch
  <2>5. QED
    BY <1>3, <1>4, <2>1, <2>3, <2>4 DEF Quiet
<1>7. QED
  BY <1>5, <1>6

(* The run ends in failure, and its patch is not installed.                *)
LEMMA UpdateFailedQuiet ==
  ASSUME MainInv, MainInv', VersionInv, UpdateFailed
  PROVE  VersionInv' /\ Quiet
<1> USE DEF MainInv, TypesInv, FlowInv
<1> USE DEF UpdateFailed, CleanupUpdate, GoOn, modeVars, TrialOver,
            SkipToSelectedUpdate, cursorVars, SlotReturns, mirrorVars,
            flagVars
<1>1. VersionInv'
  BY DEF VersionInv, AtCursor, PageInv, Working, Fetching
<1>2. Quiet
  BY DEF Quiet, Running, Failed, Complete, AtUpdates, ProgressInv, Working,
         Finished, NoPatch
<1>3. QED
  BY <1>1, <1>2

(* Closing the window changes nothing of the run.                          *)
LEMMA CloseWindowQuiet ==
  ASSUME MainInv, MainInv', VersionInv, CloseWindow
  PROVE  VersionInv' /\ Quiet
<1> USE DEF MainInv, TypesInv, FlowInv
<1> USE DEF CloseWindow, MainCancel, mirrorVars, statusVars, modeVars,
            cursorVars, trialVars, historyVars
<1>1. VersionInv'
  BY DEF VersionInv, AtCursor, Working, Fetching, Listing
<1>2. Quiet
  BY DEF Quiet, Running, Failed, Complete, AtUpdates, Finished
<1>3. QED
  BY <1>1, <1>2

(* A click on the page of the products begins nothing by itself.           *)
LEMMA ChooseProductsQuiet ==
  ASSUME MainInv, MainInv', VersionInv, ChooseProducts
  PROVE  VersionInv' /\ Quiet
<1> USE DEF MainInv, TypesInv, FlowInv
<1> USE DEF ChooseProducts, InMain, ChooseUpdate, mirrorVars, flagVars,
            statusVars, modeVars, cursorVars, trialVars, historyVars
<1>1. VersionInv'
  BY DEF VersionInv, AtCursor, Working, Fetching
<1>2. Quiet
  BY DEF Quiet, Running, Failed, AtUpdates
<1>3. QED
  BY <1>1, <1>2

(* Nor does leaving it.                                                    *)
LEMMA CancelProductsQuiet ==
  ASSUME MainInv, MainInv', VersionInv, CancelProducts
  PROVE  VersionInv' /\ Quiet
<1> USE DEF MainInv, TypesInv, FlowInv
<1> USE DEF CancelProducts, InMain, MainCancel, mirrorVars, statusVars,
            modeVars, cursorVars, trialVars, historyVars
<1>1. VersionInv'
  BY DEF VersionInv, AtCursor, PageInv
<1>2. Quiet
  BY DEF Quiet, Running, Failed, AtUpdates
<1>3. QED
  BY <1>1, <1>2

(* The page of the selection is shown, with no run.                        *)
LEMMA ListProceedQuiet ==
  ASSUME MainInv, MainInv', VersionInv, ListProceed
  PROVE  VersionInv' /\ Quiet
<1> USE DEF MainInv, TypesInv, FlowInv
<1> USE DEF ListProceed, Clickable, mirrorVars, windowVars, MainMenu, modeVars,
            cursorVars, trialVars, historyVars, MainCancel, ChooseProduct
<1>1. VersionInv'
  BY DEF VersionInv, AtCursor, Working, Fetching, Listing
<1>2. Quiet
  BY DEF Quiet, Running, Failed, AtUpdates
<1>3. QED
  BY <1>1, <1>2

(* A cancelled download ends in the slot it interrupts, not here.          *)
LEMMA CancelDownloadQuiet ==
  ASSUME MainInv, MainInv', VersionInv, CancelDownload
  PROVE  VersionInv' /\ Quiet
<1> USE DEF MainInv, TypesInv, FlowInv
<1> USE DEF CancelDownload, Clickable, mirrorVars, statusVars, windowVars,
            modeVars, listVars, cursorVars, trialVars, historyVars
<1>1. VersionInv'
  BY DEF VersionInv, AtCursor
<1>2. Quiet
  BY DEF Quiet, Running, Failed, Complete, AtUpdates
<1>3. QED
  BY <1>1, <1>2

(* The cursor follows the selection, to what is not installed.             *)
LEMMA ToggleUpdateQuiet ==
  ASSUME MainInv, MainInv', VersionInv, ToggleUpdate
  PROVE  VersionInv' /\ Quiet
<1> USE DEF MainInv, TypesInv, FlowInv
<1> USE DEF ToggleUpdate, InMain, mirrorVars, flagVars, statusVars, windowVars,
            modeVars, listVars, trialVars, historyVars
<1>1. VersionInv'
  BY DEF VersionInv, SlotsOK, NoPatch
<1>2. Quiet
  BY DEF Quiet, Running, Failed, AtUpdates
<1>3. QED
  BY <1>1, <1>2

(* The mode is not part of a run.                                          *)
LEMMA ToggleAutoUpdateQuiet ==
  ASSUME MainInv, MainInv', VersionInv, ToggleAutoUpdate
  PROVE  VersionInv' /\ Quiet
<1> USE DEF MainInv, TypesInv, FlowInv
<1> USE DEF ToggleAutoUpdate, InMain, mirrorVars, flagVars, statusVars,
            windowVars, listVars, cursorVars, trialVars, historyVars
<1>1. VersionInv'
  BY DEF VersionInv, AtCursor
<1>2. Quiet
  BY DEF Quiet, Running, Failed, AtUpdates
<1>3. QED
  BY <1>1, <1>2

(* Leaving the selection: there is no run to end.                          *)
LEMMA CancelSelectionQuiet ==
  ASSUME MainInv, MainInv', VersionInv, CancelSelection
  PROVE  VersionInv' /\ Quiet
<1> USE DEF MainInv, TypesInv, FlowInv
<1> USE DEF CancelSelection, InMain, MainMenu, statusVars, modeVars, cursorVars,
            trialVars, historyVars, MainCancel, mirrorVars, ChooseProduct
<1>1. VersionInv'
  BY DEF VersionInv, AtCursor
<1>2. Quiet
  BY DEF Quiet, Running, Failed, AtUpdates
<1>3. QED
  BY <1>1, <1>2

(* The selection is final: the next download begins the run.               *)
LEMMA ContinueSelectionQuiet ==
  ASSUME MainInv, MainInv', VersionInv, ContinueSelection
  PROVE  VersionInv' /\ Quiet
<1> USE DEF MainInv, TypesInv, FlowInv
<1> USE DEF ContinueSelection, InMain, mirrorVars, flagVars, statusVars,
            windowVars, modeVars, listVars, cursorVars, trialVars,
            historyVars
<1>1. VersionInv'
  BY DEF VersionInv, AtCursor
<1>2. Quiet
  BY DEF Quiet, Running, Failed, AtUpdates
<1>3. QED
  BY <1>1, <1>2

(* The click is seen by the transfer, later.                               *)
LEMMA ClickNextMirrorQuiet ==
  ASSUME MainInv, MainInv', VersionInv, ClickNextMirror
  PROVE  VersionInv' /\ Quiet
<1> USE DEF MainInv, TypesInv, FlowInv
<1> USE DEF ClickNextMirror, Clickable, mirrorVars, statusVars, windowVars,
            modeVars, listVars, cursorVars, trialVars
<1>1. VersionInv'
  BY DEF VersionInv, AtCursor
<1>2. Quiet
  BY DEF Quiet, Running, Failed, Complete, AtUpdates, NoPatch
<1>3. QED
  BY <1>1, <1>2

(* So is a choice of a mirror.                                             *)
LEMMA ChooseMirrorQuiet ==
  ASSUME MainInv, MainInv', VersionInv, ChooseMirror
  PROVE  VersionInv' /\ Quiet
<1> USE DEF MainInv, TypesInv, FlowInv
<1> USE DEF ChooseMirror, Clickable, statusVars, windowVars, modeVars, listVars,
            cursorVars, trialVars
<1>1. VersionInv'
  BY DEF VersionInv, AtCursor
<1>2. Quiet
  BY DEF Quiet, Running, Failed, Complete, AtUpdates, NoPatch
<1>3. QED
  BY <1>1, <1>2

(* Saving a mirror changes nothing of the run.                             *)
LEMMA SaveMirrorQuiet ==
  ASSUME MainInv, MainInv', VersionInv, SaveMirror
  PROVE  VersionInv' /\ Quiet
<1> USE DEF MainInv, TypesInv, FlowInv
<1> USE DEF SaveMirror, Clickable, gtkVars, flagVars, statusVars, windowVars,
            modeVars, listVars, cursorVars, trialVars, historyVars
<1>1. VersionInv'
  BY DEF VersionInv, AtCursor
<1>2. Quiet
  BY DEF Quiet, Running, Failed, Complete, AtUpdates, NoPatch
<1>3. QED
  BY <1>1, <1>2

(* The run is aborted, wherever it is.                                     *)
LEMMA CancelUpdateQuiet ==
  ASSUME MainInv, MainInv', VersionInv, CancelUpdate
  PROVE  VersionInv' /\ Quiet
<1> USE DEF MainInv, TypesInv, FlowInv
<1> USE DEF CancelUpdate, InMain, CleanupUpdate, MainMenu, modeVars,
            historyVars, TrialOver, SkipToSelectedUpdate, cursorVars,
            MainCancel, mirrorVars, ChooseProduct
<1>1. VersionInv'
  BY DEF VersionInv, AtCursor, PageInv, Working, Fetching
<1>2. Quiet
  BY DEF Quiet, Running, Failed, Complete, AtUpdates, SlotsOK, Finished
<1>3. QED
  BY <1>1, <1>2

(* The archive is about to be performed: the run goes on.                  *)
LEMMA ClickUpdateQuiet ==
  ASSUME MainInv, MainInv', VersionInv, ClickUpdate
  PROVE  VersionInv' /\ Quiet
<1> USE DEF MainInv, TypesInv, FlowInv
<1> USE DEF ClickUpdate, InMain, PerformUpdate, mirrorVars, statusVars,
            windowVars, modeVars, listVars, cursorVars, trialVars,
            historyVars, SetDownloadInfo
<1>1. VersionInv'
  BY DEF VersionInv, AtCursor
<1>2. Quiet
  BY DEF Quiet, Running, Failed, Complete, AtUpdates, Finished, NoPatch
<1>3. QED
  BY <1>1, <1>2

(* A run that is over is left.                                             *)
LEMMA ClickContinueQuiet ==
  ASSUME MainInv, MainInv', VersionInv, ClickContinue
  PROVE  VersionInv' /\ Quiet
<1> USE DEF MainInv, TypesInv, FlowInv
<1> USE DEF ClickContinue, InMain, MainMenu, cursorVars, SkipToSelectedUpdate,
            mirrorVars, MainCancel, windowVars, statusVars, modeVars,
            trialVars, historyVars, ChooseProduct
<1>1. VersionInv'
  BY DEF VersionInv, AtCursor, PageInv, PatchInv, Working, Fetching
<1>2. Quiet
  BY DEF Quiet, Running, Failed, Complete, AtUpdates, PatchInv, Finished
<1>3. QED
  BY <1>1, <1>2

(* A call of main() is quiet: the page of the updates is not shown.        *)
LEMMA CallQuiet ==
  ASSUME VersionInv, NEW p \in Products, UpdateProduct(p) \/ PerformUpdatesOf(p)
  PROVE  VersionInv' /\ Quiet
<1> USE DEF UpdateProduct, PerformUpdatesOf, ChooseUpdate
<1>1. VersionInv'
  BY DEF VersionInv, AtCursor, Working, Fetching
<1>2. Quiet
  BY DEF Quiet, Running, Failed, Complete, AtUpdates
<1>3. QED
  BY <1>1, <1>2

(* So is the page of the products.                                         *)
LEMMA ShowQuiet ==
  ASSUME VersionInv, NEW known \in BOOLEAN, PerformUpdatesOfAny(known)
  PROVE  VersionInv' /\ Quiet
<1> USE DEF PerformUpdatesOfAny, ChooseProduct
<1>1. VersionInv'
  BY DEF VersionInv, AtCursor, Working, Fetching, Listing
<1>2. Quiet
  BY DEF Quiet, Running, Failed, Complete, AtUpdates
<1>3. QED
  BY <1>1, <1>2

(* And a new process.                                                      *)
LEMMA StartAgainQuiet ==
  ASSUME VersionInv, StartAgain
  PROVE  VersionInv' /\ Quiet
<1> USE DEF StartAgain
<1>1. VersionInv'
  BY DEF VersionInv, AtCursor, Working, Fetching, Listing
<1>2. Quiet
  BY DEF Quiet, Running, Failed, Complete, AtUpdates
<1>3. QED
  BY <1>1, <1>2

(* Where nothing of the interface changes.                                 *)
LEMMA SameQuiet ==
  ASSUME MainInv, VersionInv, UNCHANGED vars
  PROVE  VersionInv' /\ Quiet
<1> USE DEF vars, gtkVars, statusVars, windowVars, listVars, cursorVars,
            trialVars, flagVars
<1>1. VersionInv'
  BY DEF VersionInv, AtCursor
<1>2. ~(Running /\ Complete)
  BY DEF Running, Complete, NoPatch
<1>3. (Running' <=> Running) /\ (Failed' <=> Failed) /\ (Complete' <=> Complete)
  BY DEF Running, Failed, Complete, AtUpdates
<1>4. Quiet
  BY <1>2, <1>3 DEF Quiet
<1>5. QED
  BY <1>1, <1>4

(* Every stage of main() is quiet.                                         *)
LEMMA StagesQuiet ==
  ASSUME MainInv, VersionInv, Stages
  PROVE  VersionInv' /\ Quiet
<1>1. CASE UNCHANGED vars
  BY <1>1, SameQuiet
<1>2. CASE \E p \in Products : UpdateProduct(p) \/ PerformUpdatesOf(p)
  BY <1>2, CallQuiet
<1>3. CASE \E known \in BOOLEAN : PerformUpdatesOfAny(known)
  BY <1>3, ShowQuiet
<1>4. CASE StartAgain
  BY <1>4, StartAgainQuiet
<1>5. PRODUCT \in Products
  BY GtkAssumption DEF PRODUCT, Products
<1>6. QED
  BY <1>1, <1>2, <1>3, <1>4, <1>5
     DEF Stages, CheckSelf, SkipSelfCheck, SelfFailed, SelfIsCurrent, Restart,
         UpdateNamed, ShowNamed, NamedEnds, ShowAll, AllEnds

(* Every step of the interface is quiet, but for two kinds.                *)
LEMMA SlotsQuiet ==
  ASSUME MainInv, MainInv', VersionInv, Process \/ User
  PROVE  VersionInv' /\ (Quiet \/ Begins \/ Applies)
<1>1. CASE Process
  BY <1>1, NextListQuiet, OpenFailsQuiet, ListsDoneQuiet, ListFailsQuiet,
     ListIsEmptyQuiet, ListArrivesQuiet, StartDownloadQuiet, NextMirrorQuiet,
     ReadmeEndsQuiet, SwitchMirrorQuiet, UpdateFailsQuiet, UpdateArrivesQuiet,
     FetchSignatureQuiet, RunGpgQuiet, CheckMd5Quiet, AcceptQuiet, GiveUpQuiet,
     PatchExitsQuiet, UpdateCompleteQuiet, UpdateFailedQuiet
     DEF Process
<1>2. CASE User
  BY <1>2, CloseWindowQuiet, ChooseProductsQuiet, CancelProductsQuiet,
     ListProceedQuiet, CancelDownloadQuiet, ToggleUpdateQuiet,
     ToggleAutoUpdateQuiet, CancelSelectionQuiet, ContinueSelectionQuiet,
     ClickNextMirrorQuiet, ChooseMirrorQuiet, SaveMirrorQuiet,
     CancelUpdateQuiet, ClickUpdateQuiet, ClickContinueQuiet
     DEF User
<1>3. QED
  BY <1>1, <1>2

(* What is known of the versions stays so.                                 *)
LEMMA VersionsInvariant == MainSpec => []MainInv /\ []VersionInv
<1>1. MainInit => VersionInv
  BY DEF MainInit, GtkInit, Start, VersionInv, AtCursor, Working, Fetching,
         Listing
<1>2. MainInv /\ MainInv' /\ VersionInv /\ [MainNext]_mainVars => VersionInv'
  <2> SUFFICES ASSUME MainInv, MainInv', VersionInv, [MainNext]_mainVars
               PROVE  VersionInv'
    OBVIOUS
  <2>1. CASE Stages
    BY <2>1, StagesQuiet
  <2>2. CASE Process \/ User
    BY <2>2, SlotsQuiet
  <2>3. CASE UNCHANGED mainVars
    BY <2>3, SameQuiet DEF mainVars
  <2>4. QED
    BY <2>1, <2>2, <2>3 DEF MainNext
<1>3. QED
  BY MainInitInv, MainStepInv, <1>1, <1>2, PTL DEF MainSpec

(* The sessions of the graphical program, whatever is clicked and whatever *)
(* fails, are runs of UpdateRun: patches are applied one at a time and     *)
(* without a gap, none twice; success means that what was selected is      *)
(* installed, failure that it is not (gtk_ui.c:1152-1225, 1264-1591).      *)
THEOREM SessionsAreUpdateRuns == MainSpec => ImplementsUpdateRun
<1>1. MainInit => Run!Init
  <2> SUFFICES ASSUME MainInit PROVE Run!Init
    OBVIOUS
  <2>1. /\ MainInv /\ page = "PRODUCT_PAGE" /\ db = [p \in Products |-> 0]
    BY MainInitInv DEF MainInit, GtkInit, Start
  <2>2. ~Running /\ ~Failed /\ ~Complete
    BY <2>1 DEF Running, Failed, Complete, AtUpdates
  <2>3. Goal = db /\ Outcome = "none"
    BY <2>1, <2>2, GoalIs, OutcomeIs
  <2>4. QED
    BY <2>1, <2>3 DEF Run!Init, Run!Roots, Products
<1>2. /\ MainInv /\ MainInv' /\ VersionInv /\ [MainNext]_mainVars
      => [Run!Next]_(Run!vars)
  <2> SUFFICES ASSUME MainInv, MainInv', VersionInv, [MainNext]_mainVars
               PROVE  Run!Next \/ UNCHANGED <<db, Goal, Outcome>>
    BY DEF Run!vars
  <2>1. Quiet \/ Begins \/ Applies
    BY StagesQuiet, SlotsQuiet, SameQuiet DEF MainNext, mainVars
  <2>2. CASE Quiet
    BY <2>2, QuietStep
  <2>3. CASE Begins
    BY <2>3, BeginsStep DEF Run!Next
  <2>4. CASE Applies
    BY <2>4, AppliesStep DEF Run!Next, Run!Roots, Products
  <2>5. QED
    BY <2>1, <2>2, <2>3, <2>4
<1>3. QED
  BY <1>1, <1>2, VersionsInvariant, PTL
     DEF MainSpec, ImplementsUpdateRun, Run!Spec

-----------------------------------------------------------------------------
(***************************************************************************)
(* That a patch is not held to failures before it.  Two mirrors or more    *)
(* are set back by the shuffle, so it is about a single one: where a       *)
(* download may still begin or go on, with the list of the products that   *)
(* are updated, it has not failed.                                         *)
(***************************************************************************)
ListIsOurs == owner # NULL \/ (cursor.of # NULL /\ pc \notin Listing)

Hopeful ==
  \/ pc \in Listing \union {"start", "readme", "update", "sig", "gpg", "md5",
                            "perform", "reap"}
  \/ pc = "verdict" /\ verified \notin FailedKinds
  \/ pc = "main" /\ (page = "SELECT_PAGE" \/ update_proceeding \/ update_status >= 0)

SingleInv ==
  ListIsOurs /\ Hopeful /\ num_mirrors < 2 =>
    \A k \in 1..Len(list) : status[list[k]] = URL_OK

(* The mirrors are as they were, and what was hoped for before still is.   *)
Unmarked ==
  /\ UNCHANGED <<num_mirrors, list, status>>
  /\ ListIsOurs' /\ Hopeful' => ListIsOurs /\ Hopeful

LEMMA UnmarkedKeeps ==
  ASSUME SingleInv, Unmarked
  PROVE  SingleInv'
BY DEF SingleInv, Unmarked

(* The lists: only one that arrives brings mirrors, none of which failed.  *)
LEMMA ListsSingle ==
  ASSUME MainInv, SingleInv,
         \/ NextList \/ OpenFails \/ ListsDone
         \/ \E p \in Products : ListFails(p) \/ ListIsEmpty(p) \/ ListArrives(p)
  PROVE  SingleInv'
<1> USE DEF Unmarked, ListIsOurs, Hopeful, Listing, mirrorVars, listVars,
            cursorVars, statusVars, windowVars, trialVars
<1>1. CASE NextList
  BY <1>1, UnmarkedKeeps DEF NextList
<1>2. CASE OpenFails
  BY <1>2, UnmarkedKeeps DEF OpenFails
<1>3. CASE ListsDone
  BY <1>3, UnmarkedKeeps DEF ListsDone, NoPatch, SlotReturns
<1>4. ASSUME NEW p \in Products, ListFails(p) \/ ListIsEmpty(p)
      PROVE  SingleInv'
  BY <1>4, UnmarkedKeeps DEF ListFails, ListIsEmpty
<1>5. ASSUME NEW p \in Products, ListArrives(p)
      PROVE  SingleInv'
  <2>1. CASE owner # NULL
    BY <1>5, <2>1, UnmarkedKeeps DEF ListArrives
  <2>2. CASE owner = NULL
    <3>1. LoadUrls(Published[p])
      BY <1>5, <2>2 DEF ListArrives
    <3>2. MirrorsInv' /\ status' = AllOK
      BY <3>1, LoadMirrors DEF LoadUrls, MainInv
    <3>3. QED
      BY <3>2 DEF SingleInv, AllOK, MirrorsInv, MirrorTypeOK
  <2>3. QED
    BY <2>1, <2>2
<1>6. QED
  BY <1>1, <1>2, <1>3, <1>4, <1>5

(* The loop: a mirror that is handed out has not failed, and with a single *)
(* one a failure ends the download.                                        *)
LEMMA LoopSingle ==
  ASSUME MainInv, SingleInv,
         \/ StartDownload \/ NextMirror \/ ReadmeEnds \/ SwitchMirror
         \/ UpdateFails \/ UpdateArrives \/ FetchSignature \/ RunGpg \/ CheckMd5
  PROVE  SingleInv'
<1> USE DEF ListIsOurs, Hopeful, Listing, mirrorVars, listVars, cursorVars,
            statusVars, windowVars, trialVars, EndOfLoop, FailedKinds
<1>1. CASE StartDownload
  <2>1. CASE pc' = "mirror"
    BY <2>1 DEF SingleInv
  <2>2. CASE pc' # "mirror"
    BY <1>1, <2>2, UnmarkedKeeps
       DEF StartDownload, SkipToSelectedUpdate, NoPatch, SlotReturns, Unmarked
  <2>3. QED
    BY <2>1, <2>2
<1>2. CASE NextMirror
  <2>1. pc = "mirror" /\ verified' \in FailedKinds
    BY <1>2 DEF NextMirror, MainInv, FlowInv, ProgressInv
  <2>2. CASE current' = 0
    BY <1>2, <2>1, <2>2 DEF SingleInv, NextMirror
  <2>3. CASE current' # 0
    <3>1. PICK k \in OkayPositions : current' = k
      BY <1>2, <2>3, GetNextUrlKeeps
         DEF NextMirror, GetNextUrl, MainInv, MirrorsInv, MirrorTypeOK, NoMirrorLost
    <3>2. k \in 1..Len(list) /\ status[list[k]] = URL_OK
      BY DEF OkayPositions
    <3>3. /\ UNCHANGED <<num_mirrors, list, status>>
          /\ num_mirrors = Len(list) /\ Len(list) \in Nat
      BY <1>2 DEF NextMirror, GetNextUrl, MainInv, MirrorsInv, MirrorTypeOK, NoMirrorLost
    <3>4. QED
      BY <3>2, <3>3 DEF SingleInv
  <2>4. QED
    BY <2>2, <2>3
<1>3. CASE ReadmeEnds \/ UpdateArrives \/ FetchSignature
  BY <1>3, UnmarkedKeeps
     DEF ReadmeEnds, UpdateArrives, FetchSignature, Unmarked
<1>4. CASE SwitchMirror \/ UpdateFails
  BY <1>4 DEF SwitchMirror, UpdateFails, SingleInv, MainInv, FlowInv, ProgressInv
<1>5. CASE RunGpg \/ CheckMd5
  <2>1. CASE verified' = "VERIFY_FAILED"
    BY <1>5, <2>1 DEF RunGpg, CheckMd5, SingleInv, MainInv, FlowInv, ProgressInv
  <2>2. CASE verified' # "VERIFY_FAILED"
    BY <1>5, <2>2, UnmarkedKeeps DEF RunGpg, CheckMd5, Unmarked
  <2>3. QED
    BY <2>1, <2>2
<1>6. QED
  BY <1>1, <1>2, <1>3, <1>4, <1>5

(* After the loop: a download that was given up, or an archive that has    *)
(* failed, ends the session.                                               *)
LEMMA EndSingle ==
  ASSUME MainInv, SingleInv,
         Accept \/ GiveUp \/ PatchExits \/ UpdateComplete \/ UpdateFailed
  PROVE  SingleInv'
<1> USE DEF ListIsOurs, Hopeful, Listing, mirrorVars, listVars, cursorVars,
            statusVars, windowVars, trialVars, FailedKinds
<1>1. CASE Accept
  BY <1>1, UnmarkedKeeps DEF Accept, PerformUpdate, SlotReturns, Unmarked
<1>2. CASE GiveUp
  <2>1. /\ page' = "UPDATE_PAGE" /\ ~update_proceeding' /\ ~(update_status' >= 0)
        /\ pc' \in {"main", "returned"}
    BY <1>2
       DEF GiveUp, CleanupUpdate, GoOn, SlotReturns, MainInv, FlowInv, PageInv,
           Working, Fetching
  <2>2. QED
    BY <2>1 DEF SingleInv
<1>3. CASE PatchExits
  BY <1>3, UnmarkedKeeps DEF PatchExits, Unmarked
<1>4. CASE UpdateComplete
  BY <1>4, UnmarkedKeeps
     DEF UpdateComplete, CleanupUpdate, SkipToSelectedUpdate, NoPatch, GoOn,
         SlotReturns, Unmarked
<1>5. CASE UpdateFailed
  <2>1. /\ page' = "UPDATE_PAGE" /\ ~update_proceeding' /\ ~(update_status' >= 0)
        /\ pc' \in {"main", "returned"}
    BY <1>5
       DEF UpdateFailed, CleanupUpdate, GoOn, SlotReturns, MainInv, FlowInv,
           PageInv, Working, Fetching
  <2>2. QED
    BY <2>1 DEF SingleInv
<1>6. QED
  BY <1>1, <1>2, <1>3, <1>4, <1>5

(* main_menu_slot(): the process is on its way out, or the list is empty.  *)
LEMMA MenuSingle ==
  ASSUME MainMenu
  PROVE  SingleInv'
<1>1. CASE MainCancel
  BY <1>1 DEF MainCancel, SingleInv, Hopeful, Listing
<1>2. CASE ChooseProduct
  BY <1>2 DEF ChooseProduct, RecreateUrlset, SingleInv
<1>3. QED
  BY <1>1, <1>2 DEF MainMenu

LEMMA UserSingle ==
  ASSUME MainInv, SingleInv, User
  PROVE  SingleInv'
<1> USE DEF ListIsOurs, Hopeful, Listing, mirrorVars, listVars, cursorVars,
            statusVars, windowVars, trialVars, gtkVars, FailedKinds
<1>1. CASE CloseWindow
  BY <1>1, UnmarkedKeeps
     DEF CloseWindow, MainCancel, Unmarked, SingleInv
<1>2. CASE ChooseProducts \/ CancelProducts
  BY <1>2 DEF ChooseProducts, CancelProducts, ChooseUpdate, MainCancel, SingleInv
<1>3. CASE ListProceed
  BY <1>3, UnmarkedKeeps, MenuSingle DEF ListProceed, Unmarked
<1>4. CASE CancelDownload \/ ClickNextMirror
  BY <1>4, UnmarkedKeeps DEF CancelDownload, ClickNextMirror, Unmarked
<1>5. CASE ToggleUpdate \/ ToggleAutoUpdate \/ ContinueSelection
  BY <1>5, UnmarkedKeeps
     DEF ToggleUpdate, ToggleAutoUpdate, ContinueSelection, InMain, Unmarked
<1>6. CASE CancelSelection \/ CancelUpdate
  BY <1>6, MenuSingle DEF CancelSelection, CancelUpdate
<1>7. CASE ChooseMirror \/ SaveMirror
  BY <1>7, UnmarkedKeeps DEF ChooseMirror, SaveMirror, Unmarked
<1>8. CASE ClickUpdate
  BY <1>8, UnmarkedKeeps DEF ClickUpdate, InMain, PerformUpdate, Unmarked
<1>9. CASE ClickContinue
  <2>1. CASE update_status < 0
    BY <1>9, <2>1, MenuSingle DEF ClickContinue, MainInv, TypesInv, SlotsOK
  <2>2. CASE update_status >= 0
    BY <1>9, <2>2, UnmarkedKeeps
       DEF ClickContinue, InMain, SkipToSelectedUpdate, NoPatch, MainCancel,
           Unmarked, MainInv, TypesInv, SlotsOK
  <2>3. QED
    BY <2>1, <2>2 DEF MainInv, TypesInv, SlotsOK
<1>10. QED
  BY <1>1, <1>2, <1>3, <1>4, <1>5, <1>6, <1>7, <1>8, <1>9 DEF User

(* A session begins without an owner of the mirrors, or without mirrors.   *)
LEMMA StagesSingle ==
  ASSUME MainInv, SingleInv, Stages
  PROVE  SingleInv'
<1>1. ASSUME NEW p \in Products, UpdateProduct(p) \/ PerformUpdatesOf(p)
      PROVE  SingleInv'
  BY <1>1
     DEF UpdateProduct, PerformUpdatesOf, ChooseUpdate, SingleInv, ListIsOurs,
         Listing
<1>2. ASSUME NEW known \in BOOLEAN, PerformUpdatesOfAny(known)
      PROVE  SingleInv'
  BY <1>2 DEF PerformUpdatesOfAny, ChooseProduct, RecreateUrlset, SingleInv
<1>3. CASE StartAgain
  BY <1>3 DEF StartAgain, RecreateUrlset, SingleInv
<1>4. CASE UNCHANGED vars
  BY <1>4, UnmarkedKeeps
     DEF vars, gtkVars, mirrorVars, statusVars, windowVars, listVars, cursorVars,
         trialVars, Unmarked, ListIsOurs, Hopeful
<1>5. \/ \E p \in Products : UpdateProduct(p) \/ PerformUpdatesOf(p)
      \/ PerformUpdatesOfAny(TRUE) \/ PerformUpdatesOfAny(FALSE)
      \/ StartAgain \/ UNCHANGED vars
  <2>1. PRODUCT \in Products
    BY GtkAssumption DEF PRODUCT, Products
  <2>2. QED
    BY <2>1
       DEF Stages, CheckSelf, SkipSelfCheck, SelfFailed, SelfIsCurrent, Restart,
           UpdateNamed, ShowNamed, NamedEnds, ShowAll, AllEnds
<1>6. QED
  BY <1>1, <1>2, <1>3, <1>4, <1>5

(* The download of a patch begins with every mirror unmarked, however many *)
(* patches, lists, sessions and stages came before it (gtk_ui.c:1326): the *)
(* shuffle leaves a single mirror as it is (urlset.c:117), but no download *)
(* begins after one that failed on it, before its list is loaded again.    *)
THEOREM FailuresAreForgotten == MainSpec => FailuresForgotten
<1>1. MainInit => SingleInv
  BY DEF MainInit, GtkInit, Start, EmptyUrlset, SingleInv
<1>2. MainInv /\ SingleInv /\ [MainNext]_mainVars => SingleInv'
  <2> SUFFICES ASSUME MainInv, SingleInv, [MainNext]_mainVars
               PROVE  SingleInv'
    OBVIOUS
  <2>1. CASE Stages
    BY <2>1, StagesSingle
  <2>2. CASE Process
    BY <2>2, ListsSingle, LoopSingle, EndSingle DEF Process
  <2>3. CASE User
    BY <2>3, UserSingle
  <2>4. CASE UNCHANGED mainVars
    BY <2>4, UnmarkedKeeps
       DEF mainVars, vars, gtkVars, mirrorVars, statusVars, windowVars, listVars,
           cursorVars, trialVars, Unmarked, ListIsOurs, Hopeful
  <2>5. QED
    BY <2>1, <2>2, <2>3, <2>4 DEF MainNext
<1>3. MainInv /\ MainInv' /\ SingleInv /\ [MainNext]_mainVars
      => [StartDownload /\ pc' = "mirror" =>
            \A k \in 1..Len(list') : status'[list'[k]] = URL_OK]_vars
  <2> SUFFICES ASSUME MainInv, MainInv', SingleInv, StartDownload, pc' = "mirror"
               PROVE  \A k \in 1..Len(list') : status'[list'[k]] = URL_OK
    OBVIOUS
  <2>1. pc = "start" /\ cursor.of # NULL /\ RandomizeUrls
    BY DEF StartDownload, SlotReturns
  <2>2. CASE num_mirrors < 2
    <3>1. UNCHANGED <<list, status>>
      BY <2>1, <2>2 DEF RandomizeUrls, MainInv, MirrorsInv, MirrorTypeOK
    <3>2. QED
      BY <2>1, <2>2, <3>1 DEF SingleInv, ListIsOurs, Hopeful, Listing
  <2>3. CASE num_mirrors >= 2
    <3>1. status' = AllOK /\ list' \in Seq(Mirrors)
      BY <2>1, <2>3 DEF RandomizeUrls, MainInv, MirrorsInv, MirrorTypeOK
    <3>2. QED
      BY <3>1 DEF AllOK
  <2>4. QED
    BY <2>2, <2>3 DEF MainInv, MirrorsInv, MirrorTypeOK
<1>4. QED
  BY MainInitInv, MainStepInv, <1>1, <1>2, <1>3, PTL DEF MainSpec, FailuresForgotten
===============================================================================
