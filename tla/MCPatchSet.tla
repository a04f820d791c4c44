----------------------------- MODULE MCPatchSet -----------------------------
(* A product with two add-ons, one of them installed.                      *)
EXTENDS PatchSet, TLC

CONSTANTS Game, Addon, Pack

V(n)    == <<n, 0>>
Demo(n) == <<n, 1>>

Entry(c, v, applies, size) ==
  [comp |-> c, ver |-> v, applies |-> applies, size |-> <<size, "k">>]

MCComponents == {Game, Addon, Pack}
PackInstalled == Game :> V(1) @@ Pack :> V(1)

(* Upgrades, a smaller one for the second step, conversions to a flavour,  *)
(* one of them diagonal, and a version the installed one obsoletes.        *)
GameEntries ==
  { Entry(Game, V(2), <<V(1)>>, 2),
    Entry(Game, V(3), <<V(2)>>, 5),
    Entry(Game, V(3), <<V(2), V(0)>>, 1),
    Entry(Game, Demo(2), <<V(2)>>, 1),
    Entry(Game, Demo(3), <<Demo(2), V(1)>>, 1) }

(* Two base updates, one of them for a later product, and upgrades.        *)
AddonEntries ==
  { Entry(Addon, V(1), <<V(1)>>, 3),
    Entry(Addon, V(1), <<V(2)>>, 3),
    Entry(Addon, V(2), <<V(1)>>, 1),
    Entry(Addon, V(3), <<V(2), V(1)>>, 1) }

PackEntries == { Entry(Pack, V(2), <<V(1)>>, 1) }

WellFormed == GameEntries \union AddonEntries \union PackEntries

(* No entry is listed twice.                                               *)
Distinct == Cardinality(ToSet(listed)) = Len(listed)
=============================================================================
