-------------------------- MODULE ChildPipeProofs --------------------------
(***************************************************************************)
(* What ChildPipe promises for any output of the programs that are run,    *)
(* any number of keyservers and any pipe.                                  *)
(***************************************************************************)
EXTENDS ChildPipe, TLAPS

(* The keyservers are asked once.                                          *)
ServerInv == call = "verify" => server = 0

(* Until the parent is done reading it has a child and no answer ...       *)
ReadingInv ==
  at \in {"select", "poll"} =>
    child \in {"running", "zombie"} /\ result = "GPG_CANCELLED"

(* ... the answer it then has is one that the child gave ...               *)
AnswerInv ==
  at \in {"reap", "returned"} /\ call \notin {"install", "over"}
    /\ result # "GPG_CANCELLED" =>
      \E line \in said : Verdict(call, line) = result

(* ... and the status of a child that Poll has reaped is kept for Reap.    *)
StatusInv ==
  at = "reap" => /\ child # "none"
                 /\ call = "install" /\ child = "reaped" => code = exit

PipeInv ==
  PipeTypeOK /\ ServerInv /\ ReadingInv /\ AnswerInv /\ StatusInv /\ NoChildLeft
    /\ StatusIsTheChilds

(* A line that decides gives one of the answers of gpg_result.             *)
LEMMA VerdictIsResult ==
  ASSUME NEW c, NEW line, Verdict(c, line) # "none"
  PROVE  Verdict(c, line) \in Results
BY DEF Verdict, Results

(* The first call has no child yet.                                        *)
LEMMA InitPipe == Init => PipeInv
<1> SUFFICES ASSUME Init PROVE PipeInv
  OBVIOUS
<1>1. << >> \in Seq({}) /\ << >> \in Seq(Lines)
  OBVIOUS
<1>2. PipeTypeOK
  <2>1. rest \in Seq(Lines) /\ pipe \in Seq(said)
    BY <1>1 DEF Init
  <2>2. QED
    <3>1. call \in Calls /\ server \in 0..Servers
      BY PipeAssumption DEF Init, Calls
    <3>2. /\ at \in {"fork", "select", "poll", "reap", "returned"}
          /\ result \in Results /\ code \in Int /\ exit \in {0, 1, 15}
      BY DEF Init, Results
    <3>3. /\ cancelled \in BOOLEAN /\ stop \in BOOLEAN /\ held \in BOOLEAN
          /\ child \in {"none", "running", "zombie", "reaped"} /\ said \subseteq Lines
      BY DEF Init
    <3>4. QED
      BY <2>1, <3>1, <3>2, <3>3, Zenon DEF PipeTypeOK
<1>3. QED
  BY <1>2 DEF Init, PipeInv, ServerInv, ReadingInv, AnswerInv, StatusInv, NoChildLeft,
     StatusIsTheChilds

(* What the parent takes from the pipe was written into it, and stays so.  *)
LEMMA TypeStep ==
  PipeTypeOK /\ ServerInv /\ [Next]_vars => PipeTypeOK' /\ ServerInv'
<1> SUFFICES ASSUME PipeTypeOK, ServerInv, [Next]_vars
             PROVE  PipeTypeOK' /\ ServerInv'
  OBVIOUS
<1> USE DEF PipeTypeOK, ServerInv, callVars, childVars
<1>1. CASE Fork
  <2>1. rest' \in Seq(Lines)
    BY <1>1, PipeAssumption DEF Fork
  <2>2. pipe' \in Seq(said')
    BY <1>1 DEF Fork
  <2>3. QED
    BY <1>1, <2>1, <2>2 DEF Fork, Results
<1>2. CASE CannotFork
  <2>1. rest' \in Seq(Lines) /\ pipe' \in Seq(said')
    BY <1>2 DEF CannotFork
  <2>2. said' \subseteq Lines /\ code' \in Int
    BY <1>2 DEF CannotFork
  <2>3. UNCHANGED <<call, server, cancelled, stop, exit>>
    BY <1>2 DEF CannotFork
  <2>4. QED
    BY <1>2, <2>1, <2>2, <2>3 DEF CannotFork, Results
<1>3. CASE ReadLine
  <2>1. pipe' \in Seq(said')
    BY <1>3 DEF ReadLine
  <2>2. result' \in Results
    BY <1>3, VerdictIsResult DEF ReadLine
  <2>3. QED
    BY <1>3, <2>1, <2>2 DEF ReadLine
<1>4. CASE EndOfFile
  BY <1>4 DEF EndOfFile
<1>5. CASE TimeOut
  BY <1>5 DEF TimeOut
<1>6. CASE Poll
  BY <1>6 DEF Poll
<1>7. CASE Kill
  BY <1>7 DEF Kill
<1>8. CASE Reap
  BY <1>8 DEF Reap
<1>9. CASE Return
  <2>1. NextCall = "fetch" => server + 1 \in 0..Servers
    BY PipeAssumption DEF NextCall, Calls
  <2>2. QED
    BY <1>9, <2>1 DEF Return, NextCall, Calls
<1>10. CASE Write
  <2>1. Head(rest) \in Lines /\ Tail(rest) \in Seq(Lines)
    BY <1>10 DEF Write
  <2>2. pipe \in Seq(said \union {Head(rest)})
    OBVIOUS
  <2>3. QED
    BY <1>10, <2>1, <2>2 DEF Write
<1>11. CASE Exit
  BY <1>11 DEF Exit
<1>12. CASE Release
  BY <1>12 DEF Release
<1>13. CASE Cancel
  BY <1>13 DEF Cancel
<1>14. CASE UNCHANGED vars
  BY <1>14 DEF vars
<1>15. QED
  BY <1>1, <1>2, <1>3, <1>4, <1>5, <1>6, <1>7, <1>8, <1>9, <1>10, <1>11, <1>12,
     <1>13, <1>14 DEF Next, Parent

(* An answer is read from a line, and the next call forgets it.            *)
LEMMA AnswerStep ==
  PipeTypeOK /\ ReadingInv /\ AnswerInv /\ [Next]_vars => ReadingInv' /\ AnswerInv'
<1> SUFFICES ASSUME PipeTypeOK, ReadingInv, AnswerInv, [Next]_vars
             PROVE  ReadingInv' /\ AnswerInv'
  OBVIOUS
<1> USE DEF ReadingInv, AnswerInv, callVars, childVars
<1>1. CASE Fork
  BY <1>1 DEF Fork
<1>2. CASE CannotFork
  BY <1>2 DEF CannotFork
<1>3. CASE ReadLine
  <2>1. Head(pipe) \in said
    BY <1>3 DEF ReadLine, PipeTypeOK
  <2>2. CASE Verdict(call, Head(pipe)) = "none"
    BY <1>3, <2>2 DEF ReadLine
  <2>3. CASE Verdict(call, Head(pipe)) # "none"
    BY <1>3, <2>1, <2>3 DEF ReadLine
  <2>4. QED
    BY <2>2, <2>3
<1>4. CASE EndOfFile
  BY <1>4 DEF EndOfFile
<1>5. CASE TimeOut
  BY <1>5 DEF TimeOut
<1>6. CASE Poll
  BY <1>6 DEF Poll
<1>7. CASE Kill
  BY <1>7 DEF Kill
<1>8. CASE Reap
  BY <1>8 DEF Reap
<1>9. CASE Return
  BY <1>9 DEF Return, NextCall
<1>10. CASE Write
  BY <1>10 DEF Write
<1>11. CASE Exit
  BY <1>11 DEF Exit
<1>12. CASE Release
  BY <1>12 DEF Release
<1>13. CASE Cancel
  BY <1>13 DEF Cancel
<1>14. CASE UNCHANGED vars
  BY <1>14 DEF vars
<1>15. QED
  BY <1>1, <1>2, <1>3, <1>4, <1>5, <1>6, <1>7, <1>8, <1>9, <1>10, <1>11, <1>12,
     <1>13, <1>14 DEF Next, Parent

(* The status is taken once, by the poll or by the last waitpid().         *)
LEMMA StatusStep == PipeInv /\ [Next]_vars => StatusInv' /\ NoChildLeft' /\ StatusIsTheChilds'
<1> SUFFICES ASSUME PipeInv, [Next]_vars
             PROVE  StatusInv' /\ NoChildLeft' /\ StatusIsTheChilds'
  OBVIOUS
<1> USE DEF PipeInv, ReadingInv, StatusInv, NoChildLeft, StatusIsTheChilds,
            callVars, childVars
<1>1. CASE Fork
  BY <1>1 DEF Fork
<1>2. CASE CannotFork
  BY <1>2 DEF CannotFork
<1>3. CASE ReadLine
  BY <1>3 DEF ReadLine
<1>4. CASE EndOfFile
  BY <1>4 DEF EndOfFile
<1>5. CASE TimeOut
  BY <1>5 DEF TimeOut
<1>6. CASE Poll
  BY <1>6 DEF Poll
<1>7. CASE Kill
  BY <1>7 DEF Kill
<1>8. CASE Reap
  BY <1>8 DEF Reap, PipeTypeOK
<1>9. CASE Return
  <2>1. call' # "install"
    BY <1>9 DEF Return, NextCall
  <2>2. QED
    BY <1>9, <2>1 DEF Return
<1>10. CASE Write
  BY <1>10 DEF Write
<1>11. CASE Exit
  BY <1>11 DEF Exit
<1>12. CASE Release
  BY <1>12 DEF Release
<1>13. CASE Cancel
  BY <1>13 DEF Cancel
<1>14. CASE UNCHANGED vars
  BY <1>14 DEF vars
<1>15. QED
  BY <1>1, <1>2, <1>3, <1>4, <1>5, <1>6, <1>7, <1>8, <1>9, <1>10, <1>11, <1>12,
     <1>13, <1>14 DEF Next, Parent

(* PipeInv is inductive.                                                   *)
LEMMA PipeInvariant == Spec => []PipeInv
<1>1. PipeInv /\ [Next]_vars => PipeInv'
  BY TypeStep, AnswerStep, StatusStep DEF PipeInv
<1>2. QED
  BY InitPipe, <1>1, PTL DEF Spec

(* Every variable keeps its type.                                          *)
THEOREM PipeTypeCorrect == Spec => []PipeTypeOK
BY PipeInvariant, PTL DEF PipeInv

(* gpg_verify() and get_publickey_from() return what this very run of gpg  *)
(* wrote, or GPG_CANCELLED.                                                *)
THEOREM AnswersAreTheChilds == Spec => []AnswerIsTheChilds
<1>1. PipeInv => AnswerIsTheChilds
  BY DEF PipeInv, AnswerInv, AnswerIsTheChilds
<1>2. QED
  BY PipeInvariant, <1>1, PTL

(* perform_update() reports success for a successful archive alone, though *)
(* the child is reaped in two places.                                      *)
THEOREM StatusesAreTheChilds == Spec => []StatusIsTheChilds
BY PipeInvariant, PTL DEF PipeInv

(* No call leaves a child running, or a zombie.                            *)
THEOREM NoCallLeavesAChild == Spec => []NoChildLeft
BY PipeInvariant, PTL DEF PipeInv
=============================================================================
