----------------------------- MODULE MCMirrorSet -----------------------------
(* Three mirrors on two hosts and one copy on the disk.                    *)
EXTENDS MirrorRotation, TLC

CONSTANTS m1, m2, m3, disk, h1, h2

MCMirrors == {m1, m2, m3, disk}
MCHosts   == {h1, h2}
MCHostOf  == m1 :> h1 @@ m2 :> h2 @@ m3 :> h2 @@ disk :> NULL
==============================================================================
