----------------------------- MODULE ChildPipe -----------------------------
(***************************************************************************)
(* The programs the updater runs: gpg to verify a signature and to fetch a *)
(* public key (gpg_verify.c), and the update archive itself (update.c).    *)
(* Each is forked with a pipe as its output; the parent selects on the     *)
(* pipe with a timeout, reads and parses lines, polls the user interface,  *)
(* and asks with waitpid(WNOHANG) whether the child ended when nothing     *)
(* came.  do_gpg_verify() verifies, asks one keyserver after the other for *)
(* a missing key, and verifies again.                                      *)
(*                                                                         *)
(* A line is written and read in one step.  Its text is abstracted to what *)
(* the parsers tell apart.                                                 *)
(***************************************************************************)
EXTENDS Integers, Sequences

CONSTANTS
  Servers,       \* the number of keyservers in keyservers.txt
  Output,        \* what the child of each call may write
  PipeCapacity   \* how many lines the pipe holds

Calls == {"verify", "fetch", "reverify", "install"}

Lines == {"NOTINSTALLED", "NO_PUBKEY", "BADSIG", "VALIDSIG", "IMPORT_RES 0",
          "IMPORT_RES 1", "other"}

ASSUME PipeAssumption ==
  /\ Servers \in Nat
  /\ PipeCapacity \in Nat \ {0}
  /\ Output \in [Calls -> SUBSET Seq(Lines)]

VARIABLES
  call,          \* the call under way, "over" after the last
  server,        \* the keyserver that is asked
  at,            \* where the parent is in the call
  result,        \* the gpg_result to return
  code,          \* the status perform_update() returns
  cancelled,     \* what update() last returned
  stop,          \* the user has cancelled; without an interface, nobody can
  child,         \* the child of the call: "none", "running", "zombie", "reaped"
  exit,          \* the status it ended with
  rest,          \* the lines it has yet to write
  said,          \* the lines it has written
  pipe,          \* those of them that were not read
  held           \* a process it left behind holds the pipe open

vars == <<call, server, at, result, code, cancelled, stop, child, exit, rest,
          said, pipe, held>>
childVars == <<child, exit, rest, said, held>>
callVars  == <<call, server>>

-----------------------------------------------------------------------------
Init ==
  /\ call \in {"verify", "install"}
  /\ server = 0
  /\ at = "fork"
  /\ result = "GPG_CANCELLED"
  /\ code = -1
  /\ cancelled = FALSE
  /\ stop = FALSE
  /\ child = "none"
  /\ exit = 0
  /\ rest = << >>
  /\ said = {}
  /\ pipe = << >>
  /\ held = FALSE

(* What a line decides, "none" when the parser reads on.                   *)
Verdict(c, line) ==
  CASE c # "install" /\ line = "NOTINSTALLED" -> "GPG_NOTINSTALLED"
    [] c \in {"verify", "reverify"} /\ line = "NO_PUBKEY" -> "GPG_NOPUBKEY"
    [] c \in {"verify", "reverify"} /\ line = "BADSIG" -> "GPG_VERIFYFAIL"
    [] c \in {"verify", "reverify"} /\ line = "VALIDSIG" -> "GPG_VERIFYOK"
    [] c = "fetch" /\ line = "IMPORT_RES 0" -> "GPG_NOPUBKEY"
    [] c = "fetch" /\ line = "IMPORT_RES 1" -> "GPG_IMPORTED"
    [] OTHER -> "none"

(***************************************************************************)
(* The parent.                                                             *)
(***************************************************************************)
\* Faulty variant: the last call's answer is not forgotten.
ForkAndRemember ==
  /\ at = "fork" /\ call # "over"
  /\ at' = "select"
  /\ child' = "running"
  /\ rest' \in Output[call]
  /\ said' = {} /\ pipe' = << >> /\ held' = FALSE
  /\ UNCHANGED <<callVars, result, code, cancelled, stop, exit>>

Fork ==
  /\ at = "fork" /\ call # "over"
  /\ at' = "select"
  /\ result' = "GPG_CANCELLED"
  /\ cancelled' = FALSE
  /\ child' = "running"
  /\ rest' \in Output[call]
  /\ said' = {} /\ pipe' = << >> /\ held' = FALSE
  /\ UNCHANGED <<callVars, code, stop, exit>>

CannotFork ==
  /\ at = "fork" /\ call # "over"
  /\ at' = "returned"
  /\ result' = "GPG_CANCELLED"
  /\ code' = -1
  /\ child' = "none"
  /\ rest' = << >> /\ said' = {} /\ pipe' = << >> /\ held' = FALSE
  /\ UNCHANGED <<callVars, cancelled, stop, exit>>

Writers == child = "running" \/ held

ReadLine ==
  /\ at = "select" /\ pipe # << >>
  /\ pipe' = Tail(pipe)
  /\ LET verdict == Verdict(call, Head(pipe))
     IN  IF verdict # "none"
         THEN /\ result' = verdict
              /\ at' = "reap"
              /\ UNCHANGED cancelled
         ELSE /\ cancelled' = stop
              /\ at' = IF stop THEN "reap" ELSE "select"
              /\ UNCHANGED result
  /\ UNCHANGED <<callVars, code, stop, childVars>>

EndOfFile ==
  /\ at = "select" /\ pipe = << >> /\ ~Writers
  /\ at' = "reap"
  /\ UNCHANGED <<callVars, result, code, cancelled, stop, childVars, pipe>>

(* select() times out ...                                                  *)
TimeOut ==
  /\ at = "select" /\ pipe = << >> /\ Writers
  /\ cancelled' = stop
  /\ at' = "poll"
  /\ UNCHANGED <<callVars, result, code, stop, childVars, pipe>>

\* Faulty variant: the parent relies on the pipe to close.
PollNoChild ==
  /\ at = "poll"
  /\ at' = IF cancelled THEN "reap" ELSE "select"
  /\ UNCHANGED <<callVars, result, code, cancelled, stop, childVars, pipe>>

\* Faulty variant: as in gpg_verify(), nobody asks for the status.
PollWithoutStatus ==
  /\ at = "poll"
  /\ IF child = "zombie"
     THEN child' = "reaped" /\ at' = "reap"
     ELSE at' = (IF cancelled THEN "reap" ELSE "select") /\ UNCHANGED child
  /\ UNCHANGED <<callVars, result, code, cancelled, stop, exit, rest, said, pipe, held>>

(* ... and afterwards the child may have ended, whatever it wrote since.   *)
Poll ==
  /\ at = "poll"
  /\ IF child = "zombie"
     THEN /\ child' = "reaped"
          /\ code' = IF call = "install" THEN exit ELSE code
          /\ at' = "reap"
     ELSE /\ at' = IF cancelled THEN "reap" ELSE "select"
          /\ UNCHANGED <<child, code>>
  /\ UNCHANGED <<callVars, result, cancelled, stop, exit, rest, said, pipe, held>>

Kill ==
  /\ at = "reap" /\ cancelled /\ child = "running"
  /\ child' = "zombie"
  /\ exit' = 15
  /\ UNCHANGED <<callVars, at, result, code, cancelled, stop, rest, said, pipe, held>>

\* Faulty variant: waitpid() does not wait for the child to end.
ReapAtOnce ==
  /\ at = "reap" /\ ~(cancelled /\ child = "running")
  /\ child' = IF child = "running" THEN child ELSE "reaped"
  /\ code' = IF call = "install" /\ child = "zombie" THEN exit ELSE code
  /\ at' = "returned"
  /\ UNCHANGED <<callVars, result, cancelled, stop, exit, rest, said, pipe, held>>

(* The last waitpid() fails for a child that was reaped before.            *)
Reap ==
  /\ at = "reap" /\ child # "running"
  /\ child' = "reaped"
  /\ code' = CASE call = "install" /\ cancelled -> 256
               [] call = "install" /\ ~cancelled /\ child = "zombie" -> exit
               [] OTHER -> code
  /\ at' = "returned"
  /\ UNCHANGED <<callVars, result, cancelled, stop, exit, rest, said, pipe, held>>

\* Faulty variant: one server more is asked than there are.
OneServerTooMany ==
  CASE call = "verify" /\ result = "GPG_NOPUBKEY" -> "fetch"
    [] call = "fetch" /\ result # "GPG_IMPORTED" /\ server <= Servers -> "fetch"
    [] call = "fetch" /\ (result = "GPG_IMPORTED" \/ server > Servers) -> "reverify"
    [] OTHER -> "over"

(* do_gpg_verify(), get_publickey(): what is called next.                  *)
NextCall ==
  CASE call = "verify" /\ result = "GPG_NOPUBKEY" /\ Servers > 0 -> "fetch"
    [] call = "verify" /\ result = "GPG_NOPUBKEY" /\ Servers = 0 -> "reverify"
    [] call = "fetch" /\ result # "GPG_IMPORTED" /\ server < Servers -> "fetch"
    [] call = "fetch" /\ (result = "GPG_IMPORTED" \/ server >= Servers) -> "reverify"
    [] OTHER -> "over"

Return ==
  /\ at = "returned" /\ call # "over"
  /\ call' = NextCall
  /\ server' = IF NextCall = "fetch" THEN server + 1 ELSE server
  /\ at' = IF NextCall = "over" THEN "returned" ELSE "fork"
  /\ UNCHANGED <<result, code, cancelled, stop, childVars, pipe>>

Parent ==
  Fork \/ CannotFork \/ ReadLine \/ EndOfFile \/ TimeOut \/ Poll \/ Kill \/ Reap \/ Return

(***************************************************************************)
(* The child, what it leaves behind, and the user.                         *)
(***************************************************************************)
Write ==
  /\ child = "running" /\ rest # << >>
  /\ Len(pipe) < PipeCapacity
  /\ pipe' = Append(pipe, Head(rest))
  /\ said' = said \union {Head(rest)}
  /\ rest' = Tail(rest)
  /\ UNCHANGED <<callVars, at, result, code, cancelled, stop, child, exit, held>>

Exit ==
  /\ child = "running" /\ rest = << >>
  /\ child' = "zombie"
  /\ exit' \in {0, 1}
  /\ held' \in BOOLEAN
  /\ UNCHANGED <<callVars, at, result, code, cancelled, stop, rest, said, pipe>>

Release ==
  /\ held
  /\ held' = FALSE
  /\ UNCHANGED <<callVars, at, result, code, cancelled, stop, child, exit, rest, said, pipe>>

Cancel ==
  /\ ~stop /\ call # "over"
  /\ stop' = TRUE
  /\ UNCHANGED <<callVars, at, result, code, cancelled, childVars, pipe>>

Next == Parent \/ Write \/ Exit \/ Release \/ Cancel

Spec == Init /\ [][Next]_vars

(* The parent is scheduled, and its child writes what it has to and ends.  *)
FairSpec == Spec /\ WF_vars(Parent) /\ WF_vars(Write \/ Exit)

-----------------------------------------------------------------------------
(***************************************************************************)
(* Properties.                                                             *)
(***************************************************************************)
Results == {"GPG_NOTINSTALLED", "GPG_CANCELLED", "GPG_NOPUBKEY", "GPG_IMPORTED",
            "GPG_VERIFYFAIL", "GPG_VERIFYOK"}

(* Every variable has its type: what waits in the pipe was written by this *)
(* call's child.                                                           *)
PipeTypeOK ==
  /\ call \in Calls \union {"over"}
  /\ server \in 0..Servers
  /\ at \in {"fork", "select", "poll", "reap", "returned"}
  /\ result \in Results
  /\ code \in Int
  /\ cancelled \in BOOLEAN /\ stop \in BOOLEAN /\ held \in BOOLEAN
  /\ child \in {"none", "running", "zombie", "reaped"}
  /\ exit \in {0, 1, 15}
  /\ rest \in Seq(Lines)
  /\ said \subseteq Lines
  /\ pipe \in Seq(said)

(* A call answers what its own child said: no signature is taken for good, *)
(* or for bad, on the word of an earlier run of gpg, and no key is taken   *)
(* for imported.                                                           *)
AnswerIsTheChilds ==
  at = "returned" /\ call \notin {"install", "over"} /\ result # "GPG_CANCELLED" =>
    \E line \in said : Verdict(call, line) = result

(* perform_update() returns 0 when the archive exited with 0 and was not   *)
(* cancelled, and only then, whether the pipe closed or not and whichever  *)
(* waitpid() it was that reaped the child.                                 *)
StatusIsTheChilds ==
  at = "returned" /\ call = "install" /\ child = "reaped" =>
    (code = 0 <=> exit = 0 /\ ~cancelled)

(* No call returns before its child is gone: two never run at once.        *)
NoChildLeft == at \in {"fork", "returned"} => child \in {"none", "reaped"}

(* Every call returns: the parent does not wait for a pipe that something  *)
(* left behind keeps open, nor the child for a parent that reads no more.  *)
Returns == <>(call = "over")

(* README:28: "If a GPG signature is available, it will be downloaded and  *)
(* used to verify the update": what gpg found out is what gpg_verify()     *)
(* returns, unless the user cancels.                                       *)
VerdictIsHeard ==
  at = "returned" /\ call \in {"verify", "reverify"} /\ ~stop =>
    \A line \in said \intersect {"BADSIG", "VALIDSIG"} : result = Verdict(call, line)
=============================================================================
