------------------------------ MODULE UpdateRun ------------------------------
(***************************************************************************)
(* What one run of the updater promises, without mirrors, downloads or     *)
(* signatures: the components of the product are brought to the versions   *)
(* chosen at its start, one patch at a time, a component at a time, never  *)
(* skipping a patch; the run succeeds only when every chosen version is    *)
(* reached and fails only before that.                                     *)
(***************************************************************************)
EXTENDS Integers

CONSTANT NumRoots       \* the components of the product, numbered

Roots == 1..NumRoots

VARIABLES
  version,      \* how many patches each component has had, ever
  goal,         \* how many it is to have when the run succeeds
  outcome       \* "none", "running", "succeeded" or "failed"

vars == <<version, goal, outcome>>

Init ==
  /\ version = [r \in Roots |-> 0]
  /\ goal = version
  /\ outcome = "none"

(* A run begins, with something to do.                                     *)
Begin ==
  /\ outcome # "running"
  /\ goal' \in [Roots -> Nat]
  /\ \A r \in Roots : goal'[r] >= version[r]
  /\ goal' # version
  /\ outcome' = "running"
  /\ UNCHANGED version

(* There is nothing to do, or nothing is known to be.                      *)
NoUpdate ==
  /\ outcome # "running"
  /\ outcome' \in {"none", "succeeded"}
  /\ goal' = version
  /\ UNCHANGED version

(* The next patch: of the first component that is behind.                  *)
Apply(r) ==
  /\ outcome = "running"
  /\ version[r] < goal[r]
  /\ \A q \in Roots : q < r => version[q] = goal[q]
  /\ version' = [version EXCEPT ![r] = @ + 1]
  /\ UNCHANGED <<goal, outcome>>

Succeed ==
  /\ outcome = "running"
  /\ version = goal
  /\ outcome' = "succeeded"
  /\ UNCHANGED <<version, goal>>

Fail ==
  /\ outcome = "running"
  /\ version # goal
  /\ outcome' = "failed"
  /\ UNCHANGED <<version, goal>>

(* The updater is killed; what was applied stays applied.                  *)
Abort ==
  /\ outcome = "running"
  /\ outcome' = "none"
  /\ goal' = version
  /\ UNCHANGED version

Next ==
  \/ Begin
  \/ NoUpdate
  \/ \E r \in Roots : Apply(r)
  \/ Succeed
  \/ Fail
  \/ Abort

Spec == Init /\ [][Next]_vars
==============================================================================
