-------------------------------- MODULE Main --------------------------------
(***************************************************************************)
(* main() of loki_update.c once the command line is read and the graphical *)
(* interface is there: stage 1 updates the updater itself, and replaces    *)
(* the process by a new one if that changed anything; stage 2 updates the  *)
(* product that was named, automatically (--product_name) or not; stage 3  *)
(* lets the user choose.  The interface keeps its static variables from    *)
(* one stage to the next.                                                  *)
(***************************************************************************)
EXTENDS GtkSession

CONSTANT UNKNOWN        \* a product that is not in the product table

ASSUME MainAssumption == UNKNOWN \notin Products \union {NULL}

VARIABLES
  self_check,   \* self_check, the directory is writable, the updater known
  auto_update,  \* --product_name was given
  product,      \* the product on the command line, NULL for none
  stage,        \* how far main() is
  exit_code     \* its status once it has exited

argVars  == <<self_check, auto_update, product>>
mainVars == <<vars, argVars, stage, exit_code>>

MainInit ==
  /\ GtkInit
  /\ self_check \in BOOLEAN
  /\ auto_update \in BOOLEAN
  /\ product \in Products \union {UNKNOWN, NULL}
  /\ auto_update => product # NULL
  /\ stage = "begin"
  /\ exit_code = 0

Exit(code) == stage' = "exited" /\ exit_code' = code

(* Stage 1.                                                                *)
CheckSelf ==
  /\ stage = "begin" /\ self_check
  /\ UpdateProduct(PRODUCT)
  /\ stage' = "self"
  /\ UNCHANGED <<argVars, exit_code>>

SkipSelfCheck ==
  /\ stage = "begin" /\ ~self_check
  /\ stage' = "product"
  /\ UNCHANGED <<vars, argVars, exit_code>>

SelfFailed ==
  /\ stage = "self" /\ pc = "returned"
  /\ update_status = -1
  /\ Exit(255)
  /\ UNCHANGED <<vars, argVars>>

SelfIsCurrent ==
  /\ stage = "self" /\ pc = "returned"
  /\ update_status = 0
  /\ stage' = "product"
  /\ UNCHANGED <<vars, argVars, exit_code>>

(* "Patched ourselves, restart": execvp() with the same arguments.         *)
Restart ==
  /\ stage = "self" /\ pc = "returned"
  /\ update_status \notin {-1, 0}
  /\ \/ /\ Exit(255)
        /\ UNCHANGED vars
     \/ /\ stage' = "begin"
        /\ StartAgain
        /\ UNCHANGED exit_code
  /\ UNCHANGED argVars

(* Stage 2.                                                                *)
UpdateNamed ==
  /\ stage = "product" /\ product # NULL /\ auto_update
  /\ \/ /\ product = UNKNOWN
        /\ Exit(1)
        /\ UNCHANGED vars
     \/ /\ product \in Products
        /\ UpdateProduct(product)
        /\ stage' = "named"
        /\ UNCHANGED exit_code
  /\ UNCHANGED argVars

ShowNamed ==
  /\ stage = "product" /\ product # NULL /\ ~auto_update
  /\ \/ product = UNKNOWN /\ PerformUpdatesOfAny(FALSE)
     \/ product \in Products /\ PerformUpdatesOf(product)
  /\ stage' = "named"
  /\ UNCHANGED <<argVars, exit_code>>

NamedEnds ==
  /\ stage = "named" /\ pc = "returned"
  /\ Exit(IF update_status = -1 THEN 3 ELSE 0)
  /\ UNCHANGED <<vars, argVars>>

(* Stage 3.                                                                *)
ShowAll ==
  /\ stage = "product" /\ product = NULL
  /\ PerformUpdatesOfAny(TRUE)
  /\ stage' = "all"
  /\ UNCHANGED <<argVars, exit_code>>

AllEnds ==
  /\ stage = "all" /\ pc = "returned"
  /\ Exit(0)
  /\ UNCHANGED <<vars, argVars>>

Stages ==
  \/ CheckSelf \/ SkipSelfCheck \/ SelfFailed \/ SelfIsCurrent \/ Restart
  \/ UpdateNamed \/ ShowNamed \/ NamedEnds \/ ShowAll \/ AllEnds

MainNext ==
  \/ Stages
  \/ (Process \/ User) /\ UNCHANGED <<argVars, stage, exit_code>>

MainSpec == MainInit /\ [][MainNext]_mainVars

(* The process goes on by itself: transfers, gpg and archives end.         *)
MainFair ==
  MainSpec /\ WF_mainVars(Stages \/ (Process /\ UNCHANGED <<argVars, stage, exit_code>>))

-----------------------------------------------------------------------------
(* The command line is fixed, and an exit status is one of main()'s.       *)
MainTypeOK ==
  /\ GtkTypeOK
  /\ {self_check, auto_update} \subseteq BOOLEAN
  /\ product \in Products \union {UNKNOWN, NULL}
  /\ stage \in {"begin", "self", "product", "named", "all", "exited"}
  /\ exit_code \in {0, 1, 3, 255}

(* The caller of an update of one product can trust the exit status: 3 if  *)
(* an update failed, 0 if none did, and the status of stage 1, of a page   *)
(* before the last or of an update that succeeded after one that failed is *)
(* not in it (loki_update.c:349-358, gtk_ui.c:1533, 1590).                 *)
ExitTellsFailure ==
  stage = "exited" /\ product \in Products /\ exit_code \in {0, 3} =>
    (exit_code = 3 <=> failed)

(* The program gets on: every operation comes to rest, and restarts after  *)
(* updates of the updater are over at some time, provided that an archive  *)
(* that succeeds raises the installed version (loki_update.c:325-330).     *)
Progresses == OperationsEnd /\ <>[](stage # "begin")
=============================================================================
