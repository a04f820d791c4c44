------------------------------ MODULE PatchSet ------------------------------
(***************************************************************************)
(* The patches of a product (patchset.c).  add_patch() grows a tree of     *)
(* versions for each component from the entries of an update list;         *)
(* calculate_paths() finds the shortest chain of patches from the          *)
(* installed version to every other, trims what cannot be reached, and     *)
(* autoselect_patches() selects an upgrade of each installed component;    *)
(* afterwards the user and the updater select and deselect versions with   *)
(* select_node().                                                          *)
(*                                                                         *)
(* A version is <<base, flavour>>, flavour 0 for none; flavours are        *)
(* numbered alphabetically.  The tree of a component is its root and, from *)
(* the oldest version up, its levels: the trunk node of each with its      *)
(* chain of siblings.  A node is named by component, version and the       *)
(* generation of the root it hangs from: a node of an earlier generation   *)
(* has been freed.                                                         *)
(***************************************************************************)
EXTENDS Integers, SequencesExt, FiniteSetsExt

CONSTANTS
  Components,   \* the components an update list may name
  Main,         \* the default component of the product
  Installed,    \* the version of each installed component, Main included
  Entries,      \* the entries an update list may have
  MaxEntries,   \* a bound on the entries of a list
  NULL

Versions == Nat \X Nat

ASSUME PatchSetAssumption ==
  /\ DOMAIN Installed \subseteq Components /\ IsFiniteSet(DOMAIN Installed)
  /\ Installed \in [DOMAIN Installed -> Versions]
  /\ Main \in DOMAIN Installed
  /\ MaxEntries \in Nat
  /\ \A e \in Entries : /\ e.comp \in Components /\ e.ver \in Versions
                        /\ e.applies \in Seq(Versions) /\ e.applies # << >>
                        /\ e.size[1] \in Nat

(* No patch leads back to an older version; the base update of a component *)
(* names versions of the product.                                          *)
ASSUME UpgradeAssumption ==
  \A e \in Entries :
    \/ \A i \in DOMAIN e.applies : e.applies[i][1] <= e.ver[1]
    \/ /\ e.comp \notin DOMAIN Installed
       /\ \A d \in Entries : d.comp = e.comp => d.ver = e.ver \/ e.ver[1] < d.ver[1]

VARIABLES
  forest,       \* the roots in sibling order, and the tree of each
  base,         \* the patch that installs a component, 0 if none is known
  patches,      \* patchset->patches, the latest first
  listed,       \* the entries add_patch() was called for
  path,         \* shortest_path of every node, as patches
  depth,        \* depth of every node
  selected,     \* root->selected of each component
  toggled,      \* the nodes whose toggled flag is set
  ticked,       \* the nodes whose check button is active
  phase,        \* "listing", then "choosing", then "updating"
  update_path,  \* the nodes the updater has still to install on this path
  broken        \* freed memory or a NULL path was used: all bets are off

vars == <<forest, base, patches, listed, path, depth, selected, toggled, ticked,
          phase, update_path, broken>>

(***************************************************************************)
(* Versions.                                                               *)
(***************************************************************************)
Newer(v, w) == v[1] > w[1]

(* legal_version_combination(): linear or lateral, never diagonal.         *)
Legal(v, w) == (v[1] = w[1]) # (v[2] = w[2])

(***************************************************************************)
(* The forest of version trees.                                            *)
(***************************************************************************)
Node(f, c, v) == [comp |-> c, gen |-> f.gen[c], ver |-> v]
RootNode(f, c) == Node(f, c, f.ver[c])

Level(f, c, i) ==
  [k \in 1..Len(f.levels[c][i]) |-> Node(f, c, f.levels[c][i][k])]

TreeNodes(f, c) ==
  UNION { ToSet(Level(f, c, i)) : i \in 1..Len(f.levels[c]) }

Live(f) ==
  UNION { {RootNode(f, c)} \union TreeNodes(f, c) : c \in ToSet(f.order) }

(* A new component root is linked in behind the main root.                 *)
WithRoot(f, c, v) ==
  [order   |-> InsertAt(f.order, 2, c),
   ver     |-> [f.ver EXCEPT ![c] = v],
   gen     |-> [f.gen EXCEPT ![c] = @ + 1],
   visible |-> [f.visible EXCEPT ![c] = TRUE],
   levels  |-> [f.levels EXCEPT ![c] = << >>]]

(* What is left of a sequence if only members of S are kept.               *)
Only(s, S) ==
  LET kept[i \in 0..Len(s)] ==
        IF i = 0 THEN << >>
        ELSE IF s[i] \in S THEN Append(kept[i - 1], s[i]) ELSE kept[i - 1]
  IN  kept[Len(s)]

WithoutRoot(f, c) == [f EXCEPT !.order = Only(@, Components \ {c})]

(* Where the walk along n places comes to a stop: at the first of those it *)
(* looks for, or past the end.                                             *)
StopAt(n, places) == Min(places \union {n + 1})
PlaceOf(s, e) == StopAt(Len(s), { k \in 1..Len(s) : s[k] = e })

(* The siblings of a version: alphabetical, each once.                     *)
WithSibling(row, v) ==
  LET k == StopAt(Len(row), { i \in 1..Len(row) : v[2] <= row[i][2] })
  IN  IF k <= Len(row) /\ row[k] = v THEN row ELSE InsertAt(row, k, v)

(* Faulty variant: a flavour gets a level of its own.                      *)
WithVersionApart(levels, v) ==
  LET k == StopAt(Len(levels), { i \in 1..Len(levels) : ~Newer(v, levels[i][1]) })
  IN  InsertAt(levels, k, <<v>>)

(* Along the trunk: next to the versions that are neither older nor newer, *)
(* or on a level of its own before the first newer one.                    *)
WithVersion(levels, v) ==
  LET k == StopAt(Len(levels), { i \in 1..Len(levels) : ~Newer(v, levels[i][1]) })
  IN  IF k <= Len(levels) /\ ~Newer(levels[k][1], v)
      THEN [levels EXCEPT ![k] = WithSibling(@, v)]
      ELSE InsertAt(levels, k, <<v>>)

(* get_version_node() returns NULL for what an installed version obsoletes. *)
Obsolete(f, c, v) ==
  c \in ToSet(f.order) /\ ~f.visible[c] /\ Newer(f.ver[c], v)

(* What get_version_node() makes of the forest.  A version older than a    *)
(* root that is not installed replaces that root and frees its tree.       *)
Grown(f, c, v) ==
  CASE c \notin ToSet(f.order) -> WithRoot(f, c, v)
    [] c \in ToSet(f.order) /\ Newer(f.ver[c], v) ->
         IF f.visible[c] THEN WithRoot(WithoutRoot(f, c), c, v) ELSE f
    [] c \in ToSet(f.order) /\ ~Newer(f.ver[c], v) ->
         IF v = f.ver[c] THEN f
         ELSE [f EXCEPT !.levels[c] = WithVersion(@, v)]

(* One version after another.                                              *)
GrownBy(f, c, words) ==
  LET grown[i \in 0..Len(words)] ==
        IF i = 0 THEN f ELSE Grown(grown[i - 1], c, words[i])
  IN  grown[Len(words)]

(* create_patchset(): the roots of the installed components, the others in *)
(* whatever order the product database lists them.                         *)
InstalledForest(others) ==
  [order   |-> <<Main>> \o others,
   ver     |-> [c \in Components |->
                  IF c \in DOMAIN Installed THEN Installed[c] ELSE <<0, 0>>],
   gen     |-> [c \in Components |-> 0],
   visible |-> [c \in Components |-> FALSE],
   levels  |-> [c \in Components |-> << >>]]

Init ==
  /\ \E others \in SetToSeqs(DOMAIN Installed \ {Main}) :
       forest = InstalledForest(others)
  /\ base = [c \in Components |-> 0]
  /\ patches = << >>
  /\ listed = << >>
  /\ path = << >>
  /\ depth = << >>
  /\ selected = [c \in Components |-> NULL]
  /\ toggled = {}
  /\ ticked = {}
  /\ phase = "listing"
  /\ update_path = << >>
  /\ broken = FALSE

-----------------------------------------------------------------------------
(***************************************************************************)
(* add_patch(), for an entry of this product that fits the machine: its    *)
(* component, version, size and the versions it applies to.                *)
(***************************************************************************)

(* sizeK_from_string(): the loop that skips the number goes on while a     *)
(* character is both a digit and a space, so it stops where it starts and  *)
(* the unit behind the number is never seen.                               *)
SizeK(size) == size[1]

\* Faulty variant: a base update is counted like any other patch.
ListUncounted(f, e, words, refs) ==
  patches' = <<[id       |-> Len(listed) + 1,
                node     |-> Node(f, e.comp, e.ver),
                size     |-> SizeK(e.size),
                refcount |-> 0,
                apply    |-> [k \in 1..Len(words) |-> Node(f, e.comp, words[k])]]>>
              \o patches

ListPatch(f, e, words, refs) ==
  patches' = <<[id       |-> Len(listed) + 1,
                node     |-> Node(f, e.comp, e.ver),
                size     |-> SizeK(e.size),
                refcount |-> refs,
                apply    |-> [k \in 1..Len(words) |-> Node(f, e.comp, words[k])]]>>
              \o patches

(* A component that is not installed: the patch that installs its root     *)
(* names the version of the product it needs.                              *)
AddBase(f, e) ==
  LET applies == ~Newer(e.applies[1], forest.ver[Main])
      known   == IF f.gen[e.comp] = forest.gen[e.comp] THEN base[e.comp] ELSE 0
  IN  /\ forest' = f
      /\ ListPatch(f, e, << >>, IF applies THEN 1 ELSE 0)
      /\ base' = [base EXCEPT ![e.comp] =
                    IF applies THEN Len(listed) + 1 ELSE known]
      /\ UNCHANGED broken

(* Any other patch: every version it applies to gets a node, and the legal *)
(* ones an edge to the patch's node.  If one of them replaces the root,    *)
(* the patch's own node is gone when it is looked at next.                 *)
AddUpgrade(f, e) ==
  LET grown == GrownBy(f, e.comp, e.applies)
      links == { w \in ToSet(e.applies) : ~Obsolete(f, e.comp, w) /\ Legal(w, e.ver) }
  IN  /\ forest' = grown
      /\ IF grown.gen[e.comp] = f.gen[e.comp]
         THEN /\ ListPatch(grown, e, Only(e.applies, links), 0)
              /\ UNCHANGED <<base, broken>>
         ELSE broken' = TRUE /\ UNCHANGED <<base, patches>>

AddPatch(e) ==
  /\ phase = "listing" /\ ~broken
  /\ Len(listed) < MaxEntries
  /\ listed' = Append(listed, e)
  /\ LET f == Grown(forest, e.comp, e.ver)
     IN  \/ /\ Obsolete(forest, e.comp, e.ver)
            /\ UNCHANGED <<forest, base, patches, broken>>
         \/ /\ ~Obsolete(forest, e.comp, e.ver)
            /\ f.visible[e.comp] /\ f.ver[e.comp] = e.ver
            /\ AddBase(f, e)
         \/ /\ ~Obsolete(forest, e.comp, e.ver)
            /\ ~(f.visible[e.comp] /\ f.ver[e.comp] = e.ver)
            /\ AddUpgrade(f, e)
  /\ UNCHANGED <<path, depth, selected, toggled, ticked, phase, update_path>>

-----------------------------------------------------------------------------
(***************************************************************************)
(* find_shortest_path().  All edges count one, so that the fringe is a     *)
(* queue: found[i] is what was seen, in order and with the node it was     *)
(* seen from, once i nodes were taken from the queue.                      *)
(***************************************************************************)
\* Faulty variant: only the first version a patch applies to is linked.
AdjacentToFirst(n, p) == p.apply # << >> /\ n = p.apply[1]

Adjacent(n, p) == n \in ToSet(p.apply)

(* The nodes that the i-th can be upgraded to, in the order of their edges. *)
Expand(seen, i) ==
  LET n == Len(patches)
      more[k \in 0..n] ==
        IF k = 0 THEN seen
        ELSE LET p == patches[n + 1 - k]
             IN  IF /\ Adjacent(seen[i].node, p)
                    /\ \A j \in DOMAIN more[k - 1] : more[k - 1][j].node # p.node
                 THEN Append(more[k - 1], [node |-> p.node, parent |-> i])
                 ELSE more[k - 1]
  IN  IF i > Len(seen) THEN seen ELSE more[n]

Found(r, size) ==
  LET found[i \in 0..size] ==
        IF i = 0 THEN <<[node |-> r, parent |-> 0]>>
        ELSE Expand(found[i - 1], i)
  IN  found[size]

(* find_linking_patch(): the smallest patch from src to dst, the latest of *)
(* equals.                                                                 *)
\* Faulty variant: the latest, whatever its size.
LatestLink(src, dst) ==
  LET links == { p \in ToSet(patches) : p.node = dst /\ src \in ToSet(p.apply) }
  IN  CHOOSE p \in links : \A q \in links : p.id >= q.id

LinkingPatch(src, dst) ==
  LET links == { p \in ToSet(patches) : p.node = dst /\ src \in ToSet(p.apply) }
  IN  CHOOSE p \in links :
        \A q \in links : p.size < q.size \/ (p.size = q.size /\ p.id >= q.id)

(* The patches on the way to each node found, the base update included.    *)
PathsFrom(r, size, start) ==
  LET found == Found(r, size)
      to[k \in 1..Len(found)] ==
        IF k = 1 THEN start
        ELSE Append(to[found[k].parent],
                    LinkingPatch(found[found[k].parent].node, found[k].node).id)
  IN  [n \in { found[k].node : k \in 1..Len(found) } |->
         to[CHOOSE k \in 1..Len(found) : found[k].node = n]]

(* trim_unconnected_roots(), trim_unconnected_nodes().                     *)
\* Faulty variant: a component that does not apply keeps its root.
RootsKept(f) == f

RootsTrimmed(f) ==
  [f EXCEPT !.order = Only(@, { c \in Components : ~f.visible[c] \/ base[c] # 0 })]

RowTrimmed(f, c, paths, row) ==
  Only(row, { v \in ToSet(row) : Node(f, c, v) \in DOMAIN paths })

NodesTrimmed(f, paths) ==
  LET rows(c) == [i \in 1..Len(f.levels[c]) |-> RowTrimmed(f, c, paths, f.levels[c][i])]
  IN  [f EXCEPT !.levels =
         [c \in Components |-> Only(rows(c), ToSet(rows(c)) \ {<< >>})]]

(* The path to every node that has one.                                    *)
AllPaths(f) ==
  LET Trees == ToSet(f.order)
      Size(c) == Cardinality(TreeNodes(f, c)) + 1
      Before(c) == IF f.visible[c] THEN <<base[c]>> ELSE << >>
      from == [c \in Trees |-> PathsFrom(RootNode(f, c), Size(c), Before(c))]
  IN  [n \in UNION { DOMAIN from[c] : c \in Trees } |-> from[n.comp][n]]

(* The depth of the roots, and of the nodes on the first trunk level, is 0. *)
DepthOf(f, n) ==
  IF n = RootNode(f, n.comp) THEN 0
  ELSE LET levels == f.levels[n.comp]
       IN  StopAt(Len(levels), { i \in 1..Len(levels) : n.ver \in ToSet(levels[i]) }) - 1

(* How often find_linking_patch() has counted a patch.                     *)
Uses(f, paths, id) ==
  LET Counts(n, k) == /\ n # RootNode(f, n.comp)
                      /\ paths[n][k] = id
                      /\ k = 1 => ~f.visible[n.comp]
      Steps == UNION { {n} \X DOMAIN paths[n] : n \in DOMAIN paths }
  IN  Cardinality({ u \in Steps : Counts(u[1], u[2]) })

(***************************************************************************)
(* select_node() follows the path of the selected node up the trunk.  The  *)
(* first row of a component that is not installed is its root, and as it   *)
(* is walked by sibling pointers the roots behind it.                      *)
(***************************************************************************)
RootRow(f, c) ==
  [k \in 1 .. Len(f.order) - PlaceOf(f.order, c) + 1 |->
     RootNode(f, f.order[PlaceOf(f.order, c) + k - 1])]

Rows(f, c) ==
  (IF f.visible[c] THEN <<RootRow(f, c)>> ELSE << >>)
    \o [i \in 1..Len(f.levels[c]) |-> Level(f, c, i)]

(* The versions a path goes through.                                       *)
Stops(list, ids) ==
  [k \in 1..Len(ids) |-> (CHOOSE p \in ToSet(list) : p.id = ids[k]).node]

(* What the walk toggles on: on each row the nodes of the flavour of every *)
(* stop on the row, as far as that stop, and all those of the flavour of   *)
(* the first stop beyond.  passed[i] stops are behind it after row i.      *)
Toggles(f, stops, c) ==
  LET rows == Rows(f, c)
      passed[i \in 0..Len(rows)] ==
        IF i = 0 THEN 0
        ELSE LET done == passed[i - 1]
             IN  Max({ k \in done..Len(stops) :
                         \A j \in done + 1 .. k : stops[j] \in ToSet(rows[i]) })
      Sought(i) == passed[i - 1] + 1 .. Min({passed[i] + 1, Len(stops)})
      On(i) == { rows[i][m] : m \in { x \in 1..Len(rows[i]) :
                   \E j \in Sought(i) :
                     /\ rows[i][x].ver[2] = stops[j].ver[2]
                     /\ x <= PlaceOf(rows[i], stops[j]) } }
  IN  UNION { On(i) : i \in 1..Len(rows) }

\* Faulty variant: the flags of every component are cleared.
AllNodes(c, nodes) == nodes

OwnNodes(c, nodes) == { n \in nodes : n.comp = c }

(* The toggle flags once n is selected.                                    *)
ToggledBy(n, f, list, paths, on) ==
  (on \ OwnNodes(n.comp, on))
    \union Toggles(f, Stops(list, paths[n]), n.comp) \union {n}

(* The last node of n's flavour on the rows before the first one at n's    *)
(* depth: select_node(n, 0) selects it, if there is one.                   *)
\* Faulty variant: n's own row counts.
FallbackThere(n) ==
  LET rows == Rows(forest, n.comp)
      k == StopAt(Len(rows), { i \in 1..Len(rows) : depth[rows[i][1]] = depth[n] })
      last[i \in 0..k] ==
        IF i = 0 THEN NULL
        ELSE LET own == Only(rows[i], { m \in ToSet(rows[i]) : m.ver[2] = n.ver[2] })
             IN  IF own = << >> THEN last[i - 1] ELSE Last(own)
  IN  last[k]

Fallback(n) ==
  LET rows == Rows(forest, n.comp)
      k == StopAt(Len(rows), { i \in 1..Len(rows) : depth[rows[i][1]] = depth[n] })
      last[i \in 0..k - 1] ==
        IF i = 0 THEN NULL
        ELSE LET own == Only(rows[i], { m \in ToSet(rows[i]) : m.ver[2] = n.ver[2] })
             IN  IF own = << >> THEN last[i - 1] ELSE Last(own)
  IN  last[k - 1]

SelectNode(n) ==
  /\ selected' = [selected EXCEPT ![n.comp] = n]
  /\ toggled' = ToggledBy(n, forest, patches, path, toggled)

DeselectNode(n) ==
  LET cleared == toggled \ OwnNodes(n.comp, toggled)
      none == [selected EXCEPT ![n.comp] = NULL]
      m == Fallback(n)
  IN  IF m = NULL
      THEN selected' = none /\ toggled' = cleared
      ELSE /\ selected' = [none EXCEPT ![m.comp] = m]
           /\ toggled' = ToggledBy(m, forest, patches, path, cleared)

-----------------------------------------------------------------------------
(***************************************************************************)
(* The end of load_patchset(): calculate_paths() and autoselect_patches(). *)
(***************************************************************************)

(* autoselect_patches(): the last trunk node of the installed flavour.     *)
\* Faulty variant: the first one.
AutoSelectedOldest(f, c) ==
  LET trunk == [i \in 1..Len(f.levels[c]) |-> f.levels[c][i][1]]
      own == Only(trunk, { v \in ToSet(trunk) : v[2] = f.ver[c][2] })
  IN  IF f.visible[c] \/ own = << >> THEN NULL ELSE Node(f, c, own[1])

AutoSelected(f, c) ==
  LET trunk == [i \in 1..Len(f.levels[c]) |-> f.levels[c][i][1]]
      own == Only(trunk, { v \in ToSet(trunk) : v[2] = f.ver[c][2] })
  IN  IF f.visible[c] \/ own = << >> THEN NULL ELSE Node(f, c, Last(own))

CalculatePaths ==
  LET f == RootsTrimmed(forest)
      paths == AllPaths(f)
      g == NodesTrimmed(f, paths)
      counted == [k \in 1..Len(patches) |->
                    [patches[k] EXCEPT !.refcount = @ + Uses(f, paths, patches[k].id)]]
      kept == Only(counted, { p \in ToSet(counted) : p.refcount # 0 })
      auto == [c \in Components |-> AutoSelected(g, c)]
      chosen == { auto[c] : c \in Components } \ {NULL}
  IN  /\ forest' = g
      /\ path' = paths
      /\ depth' = [n \in DOMAIN paths |-> DepthOf(f, n)]
      /\ patches' = kept
      /\ selected' = auto
      /\ toggled' = UNION { ToggledBy(n, g, kept, paths, {}) : n \in chosen }
      /\ ticked' = toggled'

(* A patch that is left over from a replaced root points at freed nodes,   *)
(* and may be taken for one between nodes now at the same addresses.       *)
Dangling(p) == p.node.gen # forest.gen[p.node.comp] /\ p.apply # << >>

LoadDone ==
  /\ phase = "listing" /\ ~broken
  /\ phase' = "choosing"
  /\ \/ CalculatePaths /\ UNCHANGED broken
     \/ /\ \E p \in ToSet(patches) : Dangling(p)
        /\ broken' = TRUE
        /\ UNCHANGED <<forest, patches, path, depth, selected, toggled, ticked>>
  /\ UNCHANGED <<base, listed, update_path>>

-----------------------------------------------------------------------------
(***************************************************************************)
(* The user at the check buttons, and the updater.                         *)
(***************************************************************************)

(* choose_update_slot(): the nodes that get a check button.                *)
Offered ==
  { n \in Live(forest) : forest.visible[n.comp] \/ n # RootNode(forest, n.comp) }

(* The buttons of the component are set to its nodes' toggle flags.        *)
ShowToggled(c) ==
  ticked' = (ticked \ OwnNodes(c, ticked)) \union OwnNodes(c, toggled')

(* An installed root has no path: the size of the selection is read        *)
(* through a NULL pointer.                                                 *)
NoPath == \E c \in Components : selected'[c] # NULL /\ path[selected'[c]] = << >>

Tick(n) ==
  /\ phase = "choosing" /\ ~broken
  /\ n \in Offered \ ticked
  /\ SelectNode(n)
  /\ ShowToggled(n.comp)
  /\ UNCHANGED <<forest, base, patches, listed, path, depth, phase, update_path, broken>>

Untick(n) ==
  /\ phase = "choosing" /\ ~broken
  /\ n \in ticked
  /\ DeselectNode(n)
  /\ ShowToggled(n.comp)
  /\ broken' = NoPath
  /\ UNCHANGED <<forest, base, patches, listed, path, depth, phase, update_path>>

(* The first root behind the k-th that has a selection, and the way to     *)
(* what is selected.                                                       *)
NextSelected(k, chosen) ==
  LET n == Len(forest.order)
  IN  StopAt(n, { r \in k + 1 .. n : chosen[forest.order[r]] # NULL })

WayTo(r, chosen) ==
  IF r > Len(forest.order) THEN << >>
  ELSE Stops(patches, path[chosen[forest.order[r]]])

(* The continue button: reset_selected_update().                           *)
Proceed ==
  /\ phase = "choosing" /\ ~broken
  /\ \E c \in Components : selected[c] # NULL
  /\ phase' = "updating"
  /\ update_path' = WayTo(NextSelected(0, selected), selected)
  /\ UNCHANGED <<forest, base, patches, listed, path, depth, selected, toggled,
                 ticked, broken>>

(* skip_to_selected_update(), with the patch for n installed: the next one *)
(* on the path, or the first for the next root that has a selection now.   *)
SkipToSelectedUpdate(n) ==
  LET r == NextSelected(PlaceOf(forest.order, n.comp), selected')
  IN  IF Len(update_path) > 1
      THEN update_path' = Tail(update_path) /\ UNCHANGED broken
      ELSE /\ update_path' = WayTo(r, selected')
           /\ broken' = (r <= Len(forest.order) /\ update_path' = << >>)

(* cleanup_update(): the updater is done with the patch for n.  Installed  *)
(* or not, n is deselected, whatever is selected; if the patch failed or   *)
(* was cancelled the updater goes no further.                              *)
CleanupUpdate(n) ==
  /\ phase = "updating" /\ ~broken
  /\ update_path # << >> /\ n = Head(update_path)
  /\ DeselectNode(n)
  /\ \/ SkipToSelectedUpdate(n)
     \/ update_path' = << >> /\ UNCHANGED broken
  /\ UNCHANGED <<forest, base, patches, listed, path, depth, ticked, phase>>

Next ==
  \/ \E e \in Entries : AddPatch(e)
  \/ LoadDone
  \/ \E n \in Offered : Tick(n) \/ Untick(n) \/ CleanupUpdate(n)
  \/ Proceed

Spec == Init /\ [][Next]_vars
-----------------------------------------------------------------------------
(***************************************************************************)
(* What the update list itself says, whatever tree was made of it.         *)
(***************************************************************************)
EntriesOf(c) == { k \in DOMAIN listed : listed[k].comp = c }

Lowest(c) ==
  Min({ k \in EntriesOf(c) : \A j \in EntriesOf(c) : ~Newer(listed[k].ver, listed[j].ver) })

Start(c) == IF c \in DOMAIN Installed THEN Installed[c] ELSE listed[Lowest(c)].ver

(* The upgrades of a component: all its entries, or, if it is not          *)
(* installed, all but those of the version that installs it.               *)
Upgrades(c) ==
  IF c \in DOMAIN Installed THEN EntriesOf(c)
  ELSE { k \in EntriesOf(c) : listed[k].ver # Start(c) }

(* Those add_patch() still has when the list is read: the tree that other  *)
(* versions of a component had when its base update is listed is freed.    *)
Retained(c) ==
  IF c \in DOMAIN Installed THEN Upgrades(c)
  ELSE { k \in Upgrades(c) : k > Lowest(c) }

(* The base update is listed before the upgrades.                          *)
BaseFirst(c) == c \in DOMAIN Installed \/ \A k \in EntriesOf(c) : k >= Lowest(c)

(* The base updates that the installed product satisfies.                  *)
Bases(c) ==
  { k \in EntriesOf(c) : listed[k].ver = Start(c)
                           /\ ~Newer(listed[k].applies[1], Installed[Main]) }

Connects(k, v, w) ==
  v \in ToSet(listed[k].applies) /\ w = listed[k].ver /\ Legal(v, w)

(* The versions at most d of the patches ks away from the start.           *)
WithinBy(c, ks, d) ==
  LET near[i \in 0..d] ==
        IF i = 0 THEN {Start(c)}
        ELSE LET nearer == near[i - 1]
             IN  nearer \union
                 { w \in { listed[k].ver : k \in ks } :
                     /\ ~Newer(Start(c), w)
                     /\ \E k \in ks, v \in nearer : Connects(k, v, w) }
  IN  near[d]

Within(c, d) == WithinBy(c, Retained(c), d)
Reached(c) == Within(c, Cardinality(EntriesOf(c)))

(* The versions the list makes available, in whatever order it names them. *)
Available(c) ==
  LET reached == WithinBy(c, Upgrades(c), Cardinality(EntriesOf(c)))
  IN  CASE c \in DOMAIN Installed -> reached \ {Start(c)}
        [] c \notin DOMAIN Installed /\ EntriesOf(c) = {} -> {}
        [] c \notin DOMAIN Installed /\ EntriesOf(c) # {} ->
             IF Bases(c) = {} THEN {} ELSE reached

Loaded == phase # "listing" /\ ~broken

-----------------------------------------------------------------------------
(***************************************************************************)
(* Properties.                                                             *)
(***************************************************************************)

(* Every variable has its type: paths are made of listed patches, and only *)
(* what is in the forest is selected or toggled.                           *)
PatchTypeOK ==
  /\ ToSet(forest.order) \subseteq Components /\ Main = forest.order[1]
  /\ ToSet(listed) \subseteq Entries
  /\ \A p \in ToSet(patches) : p.id \in DOMAIN listed /\ p.refcount \in Nat
  /\ \A n \in DOMAIN path : ToSet(path[n]) \subseteq DOMAIN listed
  /\ phase \in {"listing", "choosing", "updating"} /\ broken \in BOOLEAN
  /\ Loaded => /\ \A c \in Components : selected[c] \in Live(forest) \union {NULL}
               /\ toggled \union ticked \subseteq Live(forest)
               /\ update_path \in Seq(Live(forest))

(* The tree of a component, in whatever order get_version_node() was asked *)
(* for its versions: every version once, those of one base on one level in *)
(* alphabetical order, each level newer than the one before.               *)
TreeOrdered ==
  \A c \in ToSet(forest.order) :
    LET levels == forest.levels[c]
    IN  /\ \A i \in DOMAIN levels : \A j, k \in DOMAIN levels[i] :
             levels[i][j][1] = levels[i][k][1] /\ (j < k => levels[i][j][2] < levels[i][k][2])
        /\ \A i, j \in DOMAIN levels : i < j => Newer(levels[j][1], levels[i][1])
        /\ \A i \in DOMAIN levels :
             ~Newer(forest.ver[c], levels[i][1]) /\ forest.ver[c] \notin ToSet(levels[i])

(* Nothing is offered but what the list leads to from the installed        *)
(* version, or from a base update the product satisfies; and all of that   *)
(* is offered, in whatever order the entries come, if only a base update   *)
(* comes before its upgrades.  README:120-123 does not ask even for that,  *)
(* but patchset.c:178-192 loses upgrades that are listed first.            *)
(* Conversions to a flavour, and updates of that flavour, are offered like *)
(* any other, where README:139-142 promises only those of one's own.       *)
OfferedIffAvailable ==
  Loaded => \A c \in Components :
              LET own == { n.ver : n \in OwnNodes(c, Offered) }
              IN  own \subseteq Available(c) /\ (BaseFirst(c) => own = Available(c))

(* A shortest path leads from the start to its node one retained patch at  *)
(* a time, by no more of them than it takes and by the smallest at each    *)
(* step, the base update first where there is nothing installed.           *)
PathsAreShortest ==
  Loaded => \A n \in Offered :
    LET c == n.comp
        links == IF forest.visible[c] THEN Tail(path[n]) ELSE path[n]
        at == <<Start(c)>> \o [i \in DOMAIN links |-> listed[links[i]].ver]
    IN  /\ forest.visible[c] => path[n][1] \in Bases(c)
        /\ Last(at) = n.ver
        /\ links # << >> => n.ver \notin Within(c, Len(links) - 1)
        /\ \A i \in DOMAIN links :
             /\ links[i] \in Retained(c) /\ Connects(links[i], at[i], at[i + 1])
             /\ \A k \in Retained(c) :
                  Connects(k, at[i], at[i + 1]) =>
                    SizeK(listed[links[i]].size) <= SizeK(listed[k].size)

(* Trimming frees no patch that a version still offered needs, and none of *)
(* those patches leads to a version that was freed.                        *)
PathsKeepTheirPatches ==
  Loaded => \A n \in Offered : \A id \in ToSet(path[n]) :
              \E p \in ToSet(patches) : p.id = id /\ p.node \in Live(forest)

(* Without the user, an installed component of no flavour is upgraded to   *)
(* the newest version of no flavour that can be reached, and nothing is    *)
(* installed that was not there.                                           *)
NewestSelected ==
  [][phase = "listing" /\ phase' = "choosing" /\ ~broken' =>
       \A c \in Components :
         IF c \notin DOMAIN Installed THEN selected'[c] = NULL
         ELSE Installed[c][2] = 0 =>
                LET own == { v \in Available(c) : v[2] = 0 }
                IN  IF own = {} THEN selected'[c] = NULL
                    ELSE selected'[c].ver \in own
                           /\ \A v \in own : ~Newer(v, selected'[c].ver)]_vars

(* Every version on the way to the selected one is toggled on, whichever   *)
(* component the user or the updater was last busy with.                   *)
SelectionIsToggled ==
  Loaded => \A c \in Components :
    selected[c] # NULL =>
      {selected[c]} \union ToSet(Stops(patches, path[selected[c]])) \subseteq toggled

(* What the user unticks, or the updater fails to install, is not on the   *)
(* way to what is selected in its place.                                   *)
GivenUpStaysOut ==
  [][\A n \in Offered :
       (Untick(n) \/ CleanupUpdate(n)) /\ selected'[n.comp] # NULL =>
          n \notin ToSet(Stops(patches, path[selected'[n.comp]]))]_vars

(* patchset.c:915: with nothing selected any more, select_node() goes back *)
(* to "the previous patch in our tree": no other component is touched.     *)
FallsBackInOwnTree ==
  [][\A n \in Offered : Untick(n) =>
       \A c \in Components \ {n.comp} : selected'[c] = selected[c]]_vars
=============================================================================
