------------------------------- MODULE MCMain -------------------------------
(* The updater with two patches, to be had from the local disk; a game     *)
(* with two patches on two mirrors of a site; and a game without any.      *)
EXTENDS Main, TLC

CONSTANTS m1, m2, m3, h1

MCMirrors   == {m1, m2, m3}
MCHosts     == {h1}
MCHostOf    == m1 :> h1 @@ m2 :> h1 @@ m3 :> NULL
MCTop       == <<2, 2, 0>>
MCPublished == << <<m3>>, <<m1, m2>>, << >> >>
=============================================================================
