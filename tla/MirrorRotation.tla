--------------------------- MODULE MirrorRotation ---------------------------
(***************************************************************************)
(* The mirrors of MirrorSet with a history: how often others were handed   *)
(* out since a mirror was, or since the list was last changed.  A count    *)
(* past the length of the list is not told apart from a larger one.        *)
(***************************************************************************)
EXTENDS MirrorSet

VARIABLE passed

Count(n) == IF n > Len(list) THEN n ELSE n + 1

RotationInit == MirrorInit /\ passed = [m \in Mirrors |-> 0]

(* Whatever gives a mirror another place, and an end of the rotation       *)
(* itself, begins a new count.                                             *)
CountsPassed ==
  passed' =
    [m \in Mirrors |->
       IF list' # list \/ ~loaded' \/ (current' = 0 /\ current # 0)
            \/ status'[m] = URL_FAILED
       THEN 0
       ELSE IF Request /\ current' # 0
       THEN IF m = list[current'] THEN 0 ELSE Count(passed[m])
       ELSE passed[m]]

RotationNext == MirrorNext /\ CountsPassed

RotationSpec == RotationInit /\ [][RotationNext]_<<mirrorVars, passed>>

(* The rotation is fair: a mirror that has not failed is handed out before *)
(* any other is handed out a second time, so that one slow download cannot *)
(* make get_next_url() forget a mirror nobody has tried (urlset.c:209-231). *)
FairRotation ==
  \A m \in Listed : status[m] = URL_OK => passed[m] < Len(list)
=============================================================================
