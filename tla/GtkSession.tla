----------------------------- MODULE GtkSession -----------------------------
(***************************************************************************)
(* The graphical interface (gtk_ui.c).  One process, two of whose calls    *)
(* run a session: an automatic update of one product, which returns by     *)
(* itself, and an interactive one inside gtk_main().  The slots call each  *)
(* other and return; while one of them waits for the network, for gpg or   *)
(* for an archive, it dispatches the user's events in a loop of its own,   *)
(* so that other slots run in the middle of it.                            *)
(*                                                                         *)
(* Products are numbered and product 1 is the updater itself.  Patch k of  *)
(* a product turns its version k-1 into version k.  The modelled mirrors   *)
(* are those of the product whose updates can be selected ("owner").       *)
(***************************************************************************)
EXTENDS MirrorSet, FiniteSets

CONSTANTS
  NumProducts,  \* the number of products, the updater included
  Top,          \* the latest version of each that its list may offer
  Published     \* the mirrors its update list names, in its order

PRODUCT  == 1
Products == 1..NumProducts
Games    == Products \ {PRODUCT}

ASSUME GtkAssumption ==
  /\ NumProducts \in Nat \ {0}
  /\ NULL \notin Products
  /\ Top \in [Products -> Nat]
  /\ Published \in [Products -> Seq(Mirrors)]
  /\ \A p \in Products : \A i, j \in 1..Len(Published[p]) :
       Published[p][i] = Published[p][j] => i = j

VARIABLES
  pc,                   \* the call the process is in
  page,                 \* the page of update_notebook that is shown
  buttons,              \* the sensitive ones among the buttons of the pages
  window,               \* "open", or "gone" once it was destroyed
  running,              \* gtk_main() is running
  quit,                 \* gtk_main_quit() was called in it
  interactive,          \* interactive
  quick_update,         \* the value saved in quick-update.txt
  one_product,          \* one_product
  update_status,        \* update_status
  update_proceeding,    \* update_proceeding
  download_pending,     \* download_pending
  download_cancelled,   \* download_cancelled
  switch_mirror,        \* switch_mirror
  queue,                \* the products whose check button is still active
  product_patchset,     \* product_patchset is not NULL
  owner,                \* the product whose updates can be selected, or NULL
  cursor,               \* update_patch and the rest of update_path
  installed,            \* update_patch->installed
  verified,             \* verified, until the update is over
  have_readme,          \* have_readme, until the update is over
  exit,                 \* how the archive ended: perform_update() = 0 is "ok"
  db,                   \* the version of each product in its database
  asked,                \* another mirror was asked for since the last request
  failed                \* some update of this process failed

flagVars     == <<download_cancelled, switch_mirror>>
statusVars   == <<update_status, update_proceeding, download_pending>>
windowVars   == <<page, window, running, quit>>
modeVars     == <<interactive, quick_update, one_product>>
listVars     == <<queue, product_patchset, owner>>
cursorVars   == <<cursor, installed>>
trialVars    == <<verified, have_readme, exit>>
historyVars  == <<asked, failed>>

gtkVars == <<pc, buttons, flagVars, statusVars, windowVars, modeVars, listVars,
             cursorVars, trialVars, historyVars, db>>
vars    == <<mirrorVars, gtkVars>>

Modes == {"FULLY_AUTOMATIC", "SEMI_AUTOMATIC", "FULLY_INTERACTIVE"}
Pages == {"PRODUCT_PAGE", "GETLIST_PAGE", "SELECT_PAGE", "UPDATE_PAGE"}

(* The buttons whose sensitivity the code changes.  "mirrors" stands for   *)
(* the three mirror buttons and the dialog the first of them opens.        *)
Buttons == {"list_cancel", "list_done", "continue", "action", "cancel", "mirrors"}

(* Where events are dispatched: in gtk_main(), in the loop that waits for  *)
(* a failed list to be acknowledged, and in the callback download_update() *)
(* of a transfer, of gpg or of an archive.  Between two of these points    *)
(* nothing the user does is seen.                                          *)
Nested   == {"list", "list_wait", "readme", "update", "sig", "gpg", "md5", "perform"}
Between  == {"next_list", "start", "mirror", "verdict", "reap"}
Finished == {"returned", "crashed"}
Resting  == {"main", "list_wait"} \union Finished

NoPatch == [of |-> NULL, patch |-> 0, last |-> 0]

FailedKinds == {"DOWNLOAD_FAILED", "VERIFY_FAILED"}
Verdicts    == FailedKinds \union {"VERIFY_UNKNOWN", "VERIFY_OK"}

(* What update_* point to was freed by choose_product_slot().              *)
Dangling == cursor.of # NULL /\ ~product_patchset

-----------------------------------------------------------------------------
(* The end of a slot: back to whoever dispatched the event, or from the    *)
(* first slot of a session to the caller or into gtk_main(), which returns *)
(* if it was asked to quit.                                                *)
SlotReturns ==
  IF interactive = "FULLY_AUTOMATIC"
  THEN pc' = "returned" /\ UNCHANGED running
  ELSE IF quit
       THEN pc' = "returned" /\ running' = FALSE
       ELSE pc' = "main" /\ running' = TRUE

(* set_download_info(): a phase begins, and what was clicked is forgotten. *)
SetDownloadInfo ==
  /\ switch_mirror' = FALSE
  /\ download_cancelled' = FALSE

(* main_cancel_slot() in gtk_main() itself.                                *)
MainCancel ==
  /\ download_cancelled' = TRUE
  /\ pc' = "returned"
  /\ running' = FALSE
  /\ UNCHANGED <<page, window, quit, product_patchset>>

(* choose_product_slot(): the patch sets are freed and their mirrors too.  *)
ChooseProduct ==
  /\ product_patchset' = FALSE
  /\ owner' = NULL
  /\ RecreateUrlset
  /\ page' = "PRODUCT_PAGE"

(* main_menu_slot().                                                       *)
MainMenu ==
  \/ /\ one_product
     /\ MainCancel
     /\ UNCHANGED <<mirrorVars, owner>>
  \/ /\ ~one_product
     /\ ChooseProduct
     /\ UNCHANGED <<pc, download_cancelled, window, running, quit>>

\* Faulty variant: the end of the path is not looked for.
SkipPastTheEnd ==
  /\ cursor' = IF cursor.of = NULL \/ ~installed THEN cursor
               ELSE [cursor EXCEPT !.patch = @ + 1]
  /\ installed' = FALSE

(* skip_to_selected_update(): past the patch that was tried.               *)
SkipToSelectedUpdate ==
  /\ cursor' = IF cursor.of = NULL \/ ~installed THEN cursor
               ELSE IF cursor.patch = cursor.last THEN NoPatch
               ELSE [cursor EXCEPT !.patch = @ + 1]
  /\ installed' = FALSE

(* choose_update_slot(), up to the first list: the check buttons of the    *)
(* last round are removed.                                                 *)
ChooseUpdate(selected) ==
  /\ page' = "GETLIST_PAGE"
  /\ queue' = selected
  /\ owner' = NULL
  /\ pc' = "next_list"

-----------------------------------------------------------------------------
(* The fetching of the lists, in choose_update_slot().                     *)

NextList ==
  /\ pc = "next_list" /\ queue # {}
  /\ pc' = "list"
  /\ buttons' = (buttons \ {"list_done"}) \union {"list_cancel"}
  /\ SetDownloadInfo
  /\ UNCHANGED <<mirrorVars, statusVars, windowVars, modeVars, listVars,
                 cursorVars, trialVars, historyVars, db>>

(* create_patchset() cannot open the product: this is logged, and then the *)
(* product's name is read through the NULL pointer it returned.            *)
OpenFails ==
  /\ pc = "next_list" /\ queue # {}
  /\ pc' = "crashed"
  /\ UNCHANGED <<mirrorVars, buttons, flagVars, statusVars, windowVars,
                 modeVars, listVars, cursorVars, trialVars, historyVars, db>>

(* The list of p cannot be had.  An automatic update goes on at once, the  *)
(* other kind waits for the Continue button.                               *)
ListFails(p) ==
  /\ pc = "list" /\ p \in queue
  /\ queue' = queue \ {p}
  /\ IF interactive = "FULLY_AUTOMATIC"
     THEN pc' = "next_list" /\ UNCHANGED <<buttons, update_proceeding>>
     ELSE /\ pc' = "list_wait"
          /\ buttons' = (buttons \ {"list_cancel"}) \union {"list_done"}
          /\ update_proceeding' = FALSE
  /\ UNCHANGED <<mirrorVars, flagVars, update_status, download_pending,
                 windowVars, modeVars, product_patchset, owner, cursorVars,
                 trialVars, historyVars, db>>

(* A list without patches: its set is freed again.                         *)
ListIsEmpty(p) ==
  /\ pc = "list" /\ p \in queue
  /\ queue' = queue \ {p}
  /\ buttons' = buttons \ {"list_cancel"}
  /\ pc' = "next_list"
  /\ UNCHANGED <<mirrorVars, flagVars, statusVars, windowVars, modeVars,
                 product_patchset, owner, cursorVars, trialVars, historyVars,
                 db>>

(* The list of p offers updates, and load_patchset() has selected one or   *)
(* none.  The update that reset_selected_update() will find is recorded at *)
(* once.  After the first such list of a round, the others are assumed to  *)
(* offer nothing that is ever selected.                                    *)
ListArrives(p) ==
  /\ pc = "list" /\ p \in queue
  /\ queue' = queue \ {p}
  /\ buttons' = buttons \ {"list_cancel"}
  /\ pc' = "next_list"
  /\ product_patchset' = TRUE
  /\ \/ /\ owner = NULL
        /\ db[p] < Top[p]
        /\ owner' = p
        /\ LoadUrls(Published[p])
        /\ \E k \in db[p] + 1 .. Top[p] :
             cursor' \in {NoPatch, [of |-> p, patch |-> db[p] + 1, last |-> k]}
     \/ /\ owner # NULL
        /\ UNCHANGED <<mirrorVars, owner, cursor>>
  /\ installed' = FALSE
  /\ UNCHANGED <<flagVars, statusVars, windowVars, modeVars, trialVars,
                 historyVars, db>>

(* All lists are fetched: the end of choose_update_slot().  The patch sets *)
(* may be those of an earlier call; what their selection was is over.      *)
ListsDone ==
  /\ pc = "next_list" /\ queue = {}
  /\ cursor' = IF owner = NULL THEN NoPatch ELSE cursor
  /\ installed' = FALSE
  /\ \/ /\ ~product_patchset
             \/ (interactive = "FULLY_AUTOMATIC" /\ cursor' = NoPatch)
        /\ update_proceeding' = TRUE
        /\ buttons' = buttons \union {"list_done"}
        /\ SlotReturns
        /\ UNCHANGED page
     \/ /\ product_patchset
        /\ interactive = "FULLY_AUTOMATIC" => cursor' # NoPatch
        /\ page' = "SELECT_PAGE"
        /\ buttons' = IF cursor' = NoPatch THEN buttons \ {"continue"}
                      ELSE buttons \union {"continue"}
        /\ IF interactive = "FULLY_AUTOMATIC"
           THEN pc' = "start" /\ UNCHANGED running
           ELSE SlotReturns
        /\ UNCHANGED update_proceeding
  /\ UNCHANGED <<mirrorVars, flagVars, update_status, download_pending, window,
                 quit, modeVars, listVars, trialVars, historyVars, db>>

-----------------------------------------------------------------------------
(* The locals of the two slots are gone.                                   *)
TrialOver ==
  /\ verified' = "DOWNLOAD_FAILED"
  /\ have_readme' = FALSE
  /\ exit' = "ok"

\* Faulty variant: the failed update is passed over too.
CleanupAndSkip(sensitive) ==
  /\ update_proceeding' = FALSE
  /\ TrialOver
  /\ SkipToSelectedUpdate
  /\ buttons' = (sensitive \ {"cancel"}) \union
       (IF update_status' >= 0 /\ cursor'.of # NULL THEN {"action", "cancel"}
        ELSE {"action"})

\* Faulty variant: the button is made sensitive only for another patch.
CleanupForMore(sensitive) ==
  /\ update_proceeding' = FALSE
  /\ TrialOver
  /\ IF update_status' >= 0 THEN SkipToSelectedUpdate ELSE UNCHANGED cursorVars
  /\ buttons' = (sensitive \ {"cancel"}) \union
       (IF update_status' >= 0 /\ cursor'.of # NULL THEN {"action", "cancel"}
        ELSE {})

(* cleanup_update(): a patch that was not refused is left behind.          *)
CleanupUpdate(sensitive) ==
  /\ update_proceeding' = FALSE
  /\ TrialOver
  /\ IF update_status' >= 0 THEN SkipToSelectedUpdate ELSE UNCHANGED cursorVars
  /\ buttons' = (sensitive \ {"cancel"}) \union
       (IF update_status' >= 0 /\ cursor'.of # NULL THEN {"action", "cancel"}
        ELSE {"action"})

(* Its end when it has a message to show: the next patch at once, unless   *)
(* the user is to be asked.                                                *)
GoOn ==
  /\ IF interactive # "FULLY_INTERACTIVE" /\ update_status' >= 0
     THEN pc' = "start" /\ UNCHANGED running
     ELSE SlotReturns
  /\ UNCHANGED <<mirrorVars, owner, flagVars, page, window, quit,
                 product_patchset>>

\* Faulty variant: the button that began it can be clicked again.
PerformTwice ==
  /\ buttons' = buttons \ {"cancel"}
  /\ SetDownloadInfo
  /\ pc' = "perform"

(* perform_update_slot(), up to the archive.                               *)
PerformUpdate ==
  /\ buttons' = buttons \ {"action", "cancel"}
  /\ SetDownloadInfo
  /\ pc' = "perform"

(* download_update_slot(), up to its loop.                                 *)
StartDownload ==
  /\ pc = "start"
  /\ \/ /\ SkipToSelectedUpdate
        /\ cursor' = NoPatch
        /\ SlotReturns
        /\ UNCHANGED <<mirrorVars, buttons, page, update_proceeding,
                       download_pending, trialVars, asked>>
     \/ /\ cursor.of # NULL
        /\ installed => cursor.patch # cursor.last
        /\ cursor' = IF installed THEN [cursor EXCEPT !.patch = @ + 1] ELSE cursor
        /\ installed' = TRUE
        /\ update_proceeding' = TRUE
        /\ page' = "UPDATE_PAGE"
        /\ buttons' = buttons \ {"action"}
        /\ have_readme' = FALSE
        /\ verified' = "DOWNLOAD_FAILED"
        /\ download_pending' = TRUE
        /\ RandomizeUrls /\ UNCHANGED loaded
        /\ asked' = FALSE
        /\ pc' = "mirror"
        /\ UNCHANGED <<running, exit>>
  /\ UNCHANGED <<flagVars, update_status, window, quit, modeVars, listVars,
                 failed, db>>

(* num_okay of the mirrors: set by reset_urlset(), which a single mirror   *)
(* never sees, and then whatever the memory held before.                   *)
SeveralMirrors == IF num_mirrors >= 2 THEN {TRUE} ELSE BOOLEAN

(* The top of the loop, up to the first transfer from the next mirror.     *)
NextMirror ==
  /\ pc = "mirror"
  /\ GetNextUrl
  /\ IF current' = 0
     THEN pc' = "verdict" /\ UNCHANGED <<buttons, flagVars>>
     ELSE /\ pc' = IF ~have_readme /\ interactive # "FULLY_AUTOMATIC"
                   THEN "readme" ELSE "update"
          /\ \E several \in SeveralMirrors :
               buttons' = (buttons \ {"mirrors"}) \union
                 (IF several THEN {"cancel", "mirrors"} ELSE {"cancel"})
          /\ SetDownloadInfo
  /\ asked' = FALSE
  /\ UNCHANGED <<statusVars, windowVars, modeVars, listVars, cursorVars,
                 trialVars, failed, db>>

(* The condition of the loop, where "continue" goes too.                   *)
EndOfLoop ==
  pc' = IF verified' \in FailedKinds /\ ~download_cancelled
        THEN "mirror" ELSE "verdict"

\* Faulty variant: the list of mirrors shows it, the set does not.
ForgetFailure == UNCHANGED mirrorVars

(* failed_current_mirror().                                                *)
FailedCurrentMirror == SetUrlStatus(URL_FAILED)

(* The README is there, or it is not, and no other mirror was asked for:   *)
(* the archive is next.                                                    *)
ReadmeEnds ==
  /\ pc = "readme"
  /\ \/ have_readme' = TRUE
     \/ ~switch_mirror /\ UNCHANGED have_readme
  /\ pc' = "update"
  /\ SetDownloadInfo
  /\ UNCHANGED <<mirrorVars, buttons, statusVars, windowVars, modeVars,
                 listVars, cursorVars, verified, exit, historyVars, db>>

(* A transfer is broken off by a click on one of the mirror buttons.       *)
SwitchMirror ==
  /\ pc \in {"readme", "update"}
  /\ switch_mirror
  /\ UNCHANGED verified
  /\ EndOfLoop
  /\ asked' = FALSE
  /\ UNCHANGED <<mirrorVars, buttons, flagVars, statusVars, windowVars,
                 modeVars, listVars, cursorVars, have_readme, exit,
                 failed, db>>

(* The archive cannot be had from this mirror, or the user cancelled it.   *)
UpdateFails ==
  /\ pc = "update"
  /\ ~switch_mirror
  /\ FailedCurrentMirror
  /\ verified' = "DOWNLOAD_FAILED"
  /\ EndOfLoop
  /\ asked' = FALSE
  /\ UNCHANGED <<buttons, flagVars, statusVars, windowVars, modeVars, listVars,
                 cursorVars, have_readme, exit, failed, db>>

UpdateArrives ==
  /\ pc = "update"
  /\ verified' = "VERIFY_UNKNOWN"
  /\ buttons' = buttons \ {"mirrors"}
  /\ pc' = "sig"
  /\ SetDownloadInfo
  /\ asked' = FALSE
  /\ UNCHANGED <<mirrorVars, statusVars, windowVars, modeVars, listVars,
                 cursorVars, have_readme, exit, failed, db>>

(* The signature is there, or it is not and the MD5 checksum is tried.     *)
FetchSignature ==
  /\ pc = "sig"
  /\ pc' \in {"gpg", "md5"}
  /\ SetDownloadInfo
  /\ UNCHANGED <<mirrorVars, buttons, statusVars, windowVars, modeVars,
                 listVars, cursorVars, trialVars, historyVars, db>>

(* do_gpg_verify() with whatever came of it.                               *)
RunGpg ==
  /\ pc = "gpg"
  /\ \/ /\ pc' = "md5"
        /\ SetDownloadInfo
        /\ UNCHANGED <<mirrorVars, verified>>
     \/ /\ FailedCurrentMirror
        /\ verified' = "VERIFY_FAILED"
        /\ EndOfLoop
        /\ UNCHANGED flagVars
     \/ /\ verified' = "VERIFY_OK"
        /\ pc' = "verdict"
        /\ UNCHANGED <<mirrorVars, flagVars>>
  /\ UNCHANGED <<buttons, statusVars, windowVars, modeVars, listVars,
                 cursorVars, have_readme, exit, historyVars, db>>

(* The checksum differs, or it agrees or cannot be had.                    *)
CheckMd5 ==
  /\ pc = "md5"
  /\ \/ /\ FailedCurrentMirror
        /\ verified' = "VERIFY_FAILED"
        /\ EndOfLoop
     \/ /\ pc' = "verdict"
        /\ UNCHANGED <<mirrorVars, verified>>
  /\ UNCHANGED <<buttons, flagVars, statusVars, windowVars, modeVars, listVars,
                 cursorVars, have_readme, exit, historyVars, db>>

(* After the loop: an update that is not known to be bad is performed, or  *)
(* the user is asked to.                                                   *)
Accept ==
  /\ pc = "verdict" /\ verified \notin FailedKinds
  /\ download_pending' = FALSE
  /\ IF interactive # "FULLY_INTERACTIVE"
     THEN PerformUpdate /\ UNCHANGED running
     ELSE /\ buttons' = (buttons \ {"mirrors"}) \union {"action"}
          /\ SlotReturns
          /\ UNCHANGED flagVars
  /\ UNCHANGED <<mirrorVars, update_status, update_proceeding, page, window,
                 quit, modeVars, listVars, cursorVars, trialVars, historyVars,
                 db>>

\* Faulty variant: the status of the patches before it stays.
GiveUpQuietly ==
  /\ pc = "verdict" /\ verified \in FailedKinds
  /\ download_pending' = FALSE
  /\ UNCHANGED update_status
  /\ CleanupUpdate(buttons \ {"mirrors"})
  /\ GoOn
  /\ failed' = TRUE
  /\ UNCHANGED <<modeVars, queue, asked, db>>

GiveUp ==
  /\ pc = "verdict" /\ verified \in FailedKinds
  /\ download_pending' = FALSE
  /\ update_status' = -1
  /\ CleanupUpdate(buttons \ {"mirrors"})
  /\ GoOn
  /\ failed' = TRUE
  /\ UNCHANGED <<modeVars, queue, asked, db>>

(* The archive ends.  Killed because the window was closed it counts as    *)
(* failed, though it may have reached the database before.                 *)
PatchExits ==
  /\ pc = "perform"
  /\ pc' = "reap"
  /\ \/ /\ exit' = IF download_cancelled THEN "error" ELSE "ok"
        /\ db' = [db EXCEPT ![cursor.of] = cursor.patch]
     \/ exit' = "error" /\ UNCHANGED db
  /\ UNCHANGED <<mirrorVars, buttons, flagVars, statusVars, windowVars,
                 modeVars, listVars, cursorVars, verified, have_readme,
                 historyVars>>

(* The rest of perform_update_slot().                                      *)
UpdateComplete ==
  /\ pc = "reap" /\ exit = "ok"
  /\ update_status' = update_status + 1
  /\ CleanupUpdate(buttons)
  /\ GoOn
  /\ UNCHANGED <<download_pending, modeVars, queue,
                 historyVars, db>>

UpdateFailed ==
  /\ pc = "reap" /\ exit = "error"
  /\ update_status' = -1
  /\ CleanupUpdate(buttons)
  /\ GoOn
  /\ failed' = TRUE
  /\ UNCHANGED <<download_pending, modeVars, queue,
                 asked, db>>

-----------------------------------------------------------------------------
(* The user.  A button works if it is sensitive, its page is the one shown *)
(* and events are dispatched.  Slots that begin or end an operation have   *)
(* the guard pc = "main": SlotsAreSafe says that no click reaches them in  *)
(* the middle of one.                                                      *)

Clickable(on, button) ==
  /\ window = "open"
  /\ page = on
  /\ button \in buttons
  /\ pc \in Nested \union {"main"}

InMain(on) == window = "open" /\ pc = "main" /\ page = on

(* delete_event is handled by main_cancel_slot(), which returns nothing:   *)
(* whether GTK then destroys the window is left to chance.  Outside        *)
(* gtk_main(), gtk_main_quit() does nothing.                               *)
CloseWindow ==
  /\ window = "open"
  /\ \/ pc = "main" /\ MainCancel
     \/ /\ pc \in Nested
        /\ window' \in {"open", "gone"}
        /\ download_cancelled' = TRUE
        /\ quit' = (quit \/ running)
        /\ UNCHANGED <<pc, page, running, product_patchset>>
  /\ UNCHANGED <<mirrorVars, buttons, switch_mirror, statusVars, modeVars,
                 queue, owner, cursorVars, trialVars, historyVars, db>>

(* The product page: some products are ticked, then Continue or Cancel.    *)
ChooseProducts ==
  /\ InMain("PRODUCT_PAGE")
  /\ \E selected \in SUBSET Games : selected # {} /\ ChooseUpdate(selected)
  /\ UNCHANGED <<mirrorVars, buttons, flagVars, statusVars, window, running,
                 quit, modeVars, product_patchset, cursorVars, trialVars,
                 historyVars, db>>

CancelProducts ==
  /\ InMain("PRODUCT_PAGE")
  /\ MainCancel
  /\ UNCHANGED <<mirrorVars, buttons, switch_mirror, statusVars, modeVars,
                 queue, owner, cursorVars, trialVars, historyVars, db>>

(* update_proceed_slot(): the Continue button of the list page.            *)
ListProceed ==
  /\ Clickable("GETLIST_PAGE", "list_done")
  /\ \/ /\ ~update_proceeding /\ pc = "list_wait"
        /\ update_proceeding' = TRUE
        /\ pc' = "next_list"
        /\ UNCHANGED <<mirrorVars, owner, download_cancelled, windowVars,
                       product_patchset>>
     \/ /\ update_proceeding /\ pc = "main"
        /\ MainMenu
        /\ UNCHANGED update_proceeding
  /\ UNCHANGED <<buttons, switch_mirror, update_status,
                 download_pending, modeVars, queue, cursorVars,
                 trialVars, historyVars, db>>

(* cancel_download_slot(), and cancel_button_slot() during a download.     *)
CancelDownload ==
  /\ \/ Clickable("GETLIST_PAGE", "list_cancel")
     \/ Clickable("UPDATE_PAGE", "cancel") /\ download_pending
  /\ download_cancelled' = TRUE
  /\ UNCHANGED <<mirrorVars, pc, buttons, switch_mirror, statusVars,
                 windowVars, modeVars, listVars, cursorVars, trialVars,
                 historyVars, db>>

(* update_toggle_option(): another upgrade is selected, or none.           *)
ToggleUpdate ==
  /\ InMain("SELECT_PAGE")
  /\ owner # NULL
  /\ \E k \in db[owner] + 1 .. Top[owner] :
       cursor' \in {NoPatch, [of |-> owner, patch |-> db[owner] + 1, last |-> k]}
  /\ installed' = FALSE
  /\ buttons' = IF cursor' = NoPatch THEN buttons \ {"continue"}
                ELSE buttons \union {"continue"}
  /\ UNCHANGED <<mirrorVars, pc, flagVars, statusVars, windowVars, modeVars,
                 listVars, trialVars, historyVars, db>>

(* toggle_auto_update_slot().                                              *)
ToggleAutoUpdate ==
  /\ InMain("SELECT_PAGE")
  /\ interactive' = IF interactive = "SEMI_AUTOMATIC"
                    THEN "FULLY_INTERACTIVE" ELSE "SEMI_AUTOMATIC"
  /\ quick_update' = interactive'
  /\ UNCHANGED <<mirrorVars, pc, buttons, flagVars, statusVars, windowVars,
                 one_product, listVars, cursorVars, trialVars, historyVars,
                 db>>

(* Cancel and Continue on the page of updates.                             *)
CancelSelection ==
  /\ InMain("SELECT_PAGE")
  /\ MainMenu
  /\ UNCHANGED <<buttons, switch_mirror, statusVars, modeVars,
                 queue, cursorVars, trialVars, historyVars, db>>

ContinueSelection ==
  /\ InMain("SELECT_PAGE") /\ "continue" \in buttons
  /\ pc' = "start"
  /\ UNCHANGED <<mirrorVars, buttons, flagVars, statusVars, windowVars,
                 modeVars, listVars, cursorVars, trialVars, historyVars, db>>

(* switch_mirror_slot().                                                   *)
ClickNextMirror ==
  /\ Clickable("UPDATE_PAGE", "mirrors")
  /\ switch_mirror' = TRUE
  /\ asked' = TRUE
  /\ UNCHANGED <<mirrorVars, pc, buttons, download_cancelled, statusVars,
                 windowVars, modeVars, listVars, cursorVars, trialVars, failed,
                 db>>

(* choose_mirror_slot(): the mirror before the one whose radio button is   *)
(* active becomes the current one, so that the next request finds that one *)
(* first.  The button of a mirror that has failed may still be active.     *)
ChooseMirror ==
  /\ Clickable("UPDATE_PAGE", "mirrors")
  /\ \E k \in 1..Len(list) \ {current} :
       /\ ~IsLocal(list[k])
       /\ current' = IF k = 1 THEN Len(list) ELSE k - 1
  /\ switch_mirror' = TRUE
  /\ asked' = TRUE
  /\ UNCHANGED <<num_mirrors, list, status, preferred_site, preferred_file,
                 full_url, loaded, pc, buttons, download_cancelled, statusVars,
                 windowVars, modeVars, listVars, cursorVars, trialVars, failed,
                 db>>

(* save_mirror_slot(): set_preferred_url() and save_preferred_url().       *)
SaveMirror ==
  /\ Clickable("UPDATE_PAGE", "mirrors")
  /\ preferred_site' = IF IsLocal(full_url) THEN preferred_site
                       ELSE HostOf[full_url]
  /\ preferred_file' = preferred_site'
  /\ UNCHANGED <<num_mirrors, list, current, status, full_url, loaded,
                 gtkVars>>

(* cancel_button_slot() when no download is pending.                       *)
CancelUpdate ==
  /\ InMain("UPDATE_PAGE") /\ "cancel" \in buttons /\ ~download_pending
  /\ UNCHANGED update_status
  /\ CleanupUpdate(buttons)
  /\ MainMenu
  /\ UNCHANGED <<switch_mirror, download_pending, modeVars, queue,
                 historyVars, db>>

(* action_button_slot(): Update, Continue or Finished.                     *)
ClickUpdate ==
  /\ InMain("UPDATE_PAGE") /\ "action" \in buttons
  /\ update_proceeding
  /\ PerformUpdate
  /\ UNCHANGED <<mirrorVars, statusVars, windowVars, modeVars, listVars,
                 cursorVars, trialVars, historyVars, db>>

ClickContinue ==
  /\ InMain("UPDATE_PAGE") /\ "action" \in buttons
  /\ ~update_proceeding
  /\ \/ /\ update_status < 0
        /\ MainMenu
        /\ UNCHANGED cursorVars
     \/ /\ update_status >= 0
        /\ SkipToSelectedUpdate
        /\ UNCHANGED <<mirrorVars, owner>>
        /\ IF cursor' = NoPatch THEN MainCancel
           ELSE /\ pc' = "start"
                /\ UNCHANGED <<download_cancelled, windowVars,
                               product_patchset>>
  /\ UNCHANGED <<buttons, switch_mirror, statusVars, modeVars,
                 queue, trialVars, historyVars, db>>

-----------------------------------------------------------------------------
(* The two calls that run a session, from main().                          *)

(* gtkui_update_product(): selected, listed and updated without a question.*)
UpdateProduct(p) ==
  /\ pc = "returned"
  /\ quit' = FALSE
  /\ update_status' = 0
  /\ one_product' = TRUE
  /\ interactive' = "FULLY_AUTOMATIC"
  /\ ChooseUpdate({p})
  /\ UNCHANGED <<mirrorVars, buttons, flagVars, update_proceeding,
                 download_pending, window, running, quick_update,
                 product_patchset, cursorVars, trialVars, historyVars, db>>

(* gtkui_perform_updates() for a product that was found.                   *)
PerformUpdatesOf(p) ==
  /\ pc = "returned"
  /\ quit' = FALSE
  /\ update_status' = 0
  /\ one_product' = TRUE
  /\ interactive' = quick_update
  /\ ChooseUpdate({p})
  /\ UNCHANGED <<mirrorVars, buttons, flagVars, update_proceeding,
                 download_pending, window, running, quick_update,
                 product_patchset, cursorVars, trialVars, historyVars, db>>

(* The same for no product, or for one that is not known; one_product is   *)
(* then what it was before.                                                *)
PerformUpdatesOfAny(known) ==
  /\ pc = "returned"
  /\ quit' = FALSE
  /\ update_status' = 0
  /\ one_product' = IF known THEN FALSE ELSE one_product
  /\ interactive' = quick_update
  /\ ChooseProduct
  /\ queue' = {}
  /\ pc' = "main"
  /\ running' = TRUE
  /\ UNCHANGED <<buttons, flagVars, update_proceeding,
                 download_pending, window, quick_update,
                 cursorVars, trialVars, historyVars, db>>

(* A new process, with what is left on the disk by earlier ones: versions, *)
(* the preferred site and quick-update.txt.  Buttons are sensitive unless  *)
(* loki_update.glade or gtkui_init() says otherwise.                       *)
Start(versions, site, quick) ==
  /\ EmptyUrlset(site)
  /\ pc = "returned"
  /\ page = "PRODUCT_PAGE"
  /\ buttons = Buttons
  /\ window = "open"
  /\ running = FALSE
  /\ quit = FALSE
  /\ interactive = "FULLY_INTERACTIVE"
  /\ quick_update = quick
  /\ one_product = FALSE
  /\ update_status = 0
  /\ update_proceeding = FALSE
  /\ download_pending = FALSE
  /\ download_cancelled = FALSE
  /\ switch_mirror = FALSE
  /\ queue = {}
  /\ product_patchset = FALSE
  /\ owner = NULL
  /\ cursor = NoPatch
  /\ installed = FALSE
  /\ verified = "DOWNLOAD_FAILED"
  /\ have_readme = FALSE
  /\ exit = "ok"
  /\ db = versions
  /\ asked = FALSE
  /\ failed = FALSE

(* The process is replaced by a new one.                                   *)
StartAgain ==
  /\ RecreateUrlset
  /\ pc' = "returned"
  /\ page' = "PRODUCT_PAGE"
  /\ buttons' = Buttons
  /\ window' = "open"
  /\ interactive' = "FULLY_INTERACTIVE"
  /\ update_status' = 0
  /\ verified' = "DOWNLOAD_FAILED"
  /\ exit' = "ok"
  /\ queue' = {} /\ owner' = NULL /\ cursor' = NoPatch
  /\ running' = FALSE /\ quit' = FALSE /\ one_product' = FALSE
  /\ update_proceeding' = FALSE /\ download_pending' = FALSE
  /\ download_cancelled' = FALSE /\ switch_mirror' = FALSE
  /\ product_patchset' = FALSE /\ installed' = FALSE /\ have_readme' = FALSE
  /\ asked' = FALSE /\ failed' = FALSE
  /\ UNCHANGED <<quick_update, db>>

GtkInit ==
  \E site \in Hosts \union {NULL}, quick \in {"SEMI_AUTOMATIC", "FULLY_INTERACTIVE"} :
    Start([p \in Products |-> 0], site, quick)

Call ==
  \/ \E p \in Products : UpdateProduct(p) \/ PerformUpdatesOf(p)
  \/ \E known \in BOOLEAN : PerformUpdatesOfAny(known)

(* What the process does by itself.                                        *)
Process ==
  \/ NextList \/ OpenFails \/ ListsDone
  \/ \E p \in Products : ListFails(p) \/ ListIsEmpty(p) \/ ListArrives(p)
  \/ StartDownload \/ NextMirror \/ ReadmeEnds \/ SwitchMirror
  \/ UpdateFails \/ UpdateArrives \/ FetchSignature \/ RunGpg \/ CheckMd5
  \/ Accept \/ GiveUp \/ PatchExits \/ UpdateComplete \/ UpdateFailed

(* What the user does.                                                     *)
User ==
  \/ CloseWindow \/ ChooseProducts \/ CancelProducts
  \/ ListProceed \/ CancelDownload
  \/ ToggleUpdate \/ ToggleAutoUpdate \/ CancelSelection \/ ContinueSelection
  \/ ClickNextMirror \/ ChooseMirror \/ SaveMirror
  \/ CancelUpdate \/ ClickUpdate \/ ClickContinue

GtkNext == Call \/ Process \/ User

GtkSpec == GtkInit /\ [][GtkNext]_vars

-----------------------------------------------------------------------------
(* Every variable has its type; a selected path ends at a version the list *)
(* offers.                                                                 *)
GtkTypeOK ==
  /\ MirrorTypeOK
  /\ pc \in Nested \union Between \union Finished \union {"main"}
  /\ page \in Pages
  /\ buttons \subseteq Buttons
  /\ window \in {"open", "gone"}
  /\ interactive \in Modes
  /\ quick_update \in Modes \ {"FULLY_AUTOMATIC"}
  /\ {running, quit, one_product, update_proceeding, download_pending,
      download_cancelled, switch_mirror, product_patchset, installed,
      have_readme, asked, failed} \subseteq BOOLEAN
  /\ update_status \in Int /\ update_status >= -1
  /\ queue \subseteq Products
  /\ owner \in Products \union {NULL}
  /\ \/ cursor = NoPatch
     \/ /\ cursor.of \in Products
        /\ 1 <= cursor.patch /\ cursor.patch <= cursor.last
        /\ cursor.last <= Top[cursor.of]
  /\ verified \in Verdicts
  /\ exit \in {"ok", "error"}
  /\ db \in [Products -> Nat]

(* No event that is dispatched in the middle of an operation begins or     *)
(* ends another, or frees the patch sets the operation is working on: the  *)
(* slots that do are out of reach, by page or by sensitivity (gtk_ui.c:    *)
(* 1304, 1365, 1567, 1573, 1757, 1783).                                    *)
NoReentry ==
  pc \in Nested =>
    /\ page = IF pc \in {"list", "list_wait"} THEN "GETLIST_PAGE" ELSE "UPDATE_PAGE"
    /\ page = "GETLIST_PAGE" /\ "list_done" \in buttons =>
         pc = "list_wait" /\ ~update_proceeding
    /\ page = "UPDATE_PAGE" =>
         /\ "action" \notin buttons
         /\ "cancel" \in buttons => download_pending
         /\ "mirrors" \in buttons => pc \in {"readme", "update"} /\ current # 0

(* What a slot dereferences is there: a download works on a patch of a set *)
(* that was not freed, and a button that will reach for one is sensitive   *)
(* only while it is there and, for Update, was not found to be bad.        *)
PatchIsThere ==
  /\ pc \in (Nested \union Between) \ {"next_list", "list", "list_wait"} => ~Dangling
  /\ pc \in {"mirror", "readme", "update", "sig", "gpg", "md5", "verdict",
             "perform", "reap"} => cursor.of # NULL /\ installed
  /\ pc = "main" /\ page = "UPDATE_PAGE" =>
       /\ "mirrors" \notin buttons /\ ~download_pending
       /\ "cancel" \in buttons => cursor.of # NULL /\ ~Dangling
       /\ update_proceeding =>
            cursor.of # NULL /\ ~Dangling /\ verified \notin FailedKinds
       /\ update_status >= 0 => ~Dangling

(* Whatever is clicked, in whatever order, no slot is run where it would   *)
(* take the state of another from under it.                                *)
SlotsAreSafe == NoReentry /\ PatchIsThere

(* While the process waits for the user there is a way on: the page that   *)
(* is shown has a button that works, and it does something.                *)
NoDeadEnd ==
  window = "open" /\ pc \in {"main", "list_wait"} =>
    /\ page = "GETLIST_PAGE" =>
         "list_done" \in buttons /\ (update_proceeding <=> pc = "main")
    /\ page = "UPDATE_PAGE" => "action" \in buttons

(* "Next Mirror" "automatically connects to the next available download    *)
(* site" (README:186): as long as there is one, the wish for it is not     *)
(* forgotten before another mirror is taken or the archive is there.       *)
MirrorWishKept ==
  pc \in {"readme", "update"} /\ asked /\ Cardinality(OkayPositions) > 1
    => switch_mirror

(* A patch is not held to the failures of the patches before it: when its  *)
(* download begins no mirror of its list counts as failed.  A shuffle sets *)
(* them back, except that it leaves a single mirror as it is, so that this *)
(* is up to the ways a patch may come after one that failed on it          *)
(* (gtk_ui.c:1326, urlset.c:117).                                          *)
FailuresForgotten ==
  [][StartDownload /\ pc' = "mirror" =>
       \A k \in 1..Len(list') : status'[list'[k]] = URL_OK]_vars

(* Every operation comes to rest, at a page or at an exit, unless the user *)
(* asks for other mirrors for ever: the loops of retries end by themselves *)
(* and no slot calls another without end.                                  *)
OperationsEnd == []<>(pc \in Resting) \/ []<>switch_mirror

(***************************************************************************)
(* A session is an UpdateRun too, with the products for components.  The   *)
(* user may leave before the end, which aborts it.                         *)
(***************************************************************************)
AtUpdates == page = "UPDATE_PAGE" /\ product_patchset

Running ==
  /\ AtUpdates /\ cursor.of # NULL
  /\ pc \notin Finished
  /\ update_status >= 0 \/ update_proceeding

Failed ==
  /\ AtUpdates /\ cursor.of # NULL
  /\ update_status < 0 /\ ~update_proceeding
  /\ db[cursor.of] # cursor.last

Complete == AtUpdates /\ cursor = NoPatch /\ ~download_cancelled

Outcome == IF Running THEN "running"
           ELSE IF Failed THEN "failed"
           ELSE IF Complete THEN "succeeded" ELSE "none"

Goal ==
  [p \in Products |->
     IF (Running \/ Failed) /\ p = cursor.of THEN cursor.last ELSE db[p]]

Run == INSTANCE UpdateRun
         WITH NumRoots <- NumProducts, version <- db, goal <- Goal,
              outcome <- Outcome

(* Patches are executed in order and none twice, whatever is clicked; the  *)
(* session ends in success only with all that was selected installed, and  *)
(* in failure only with something missing.                                 *)
ImplementsUpdateRun == Run!Spec
=============================================================================
