----------------------------- MODULE MCTtyUpdate -----------------------------
(* Two components, with two patches and one, and two mirrors of one site.  *)
EXTENDS TtyUpdate, TLC

CONSTANTS m1, m2, h

MCMirrors   == {m1, m2}
MCHosts     == {h}
MCHostOf    == m1 :> h @@ m2 :> h
MCPublished == <<m1, m2>>
MCTop       == <<2, 1>>
==============================================================================
