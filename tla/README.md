# Loki Update Tool: a verification project in TLA+

The updater downloads a list of patches for an installed product, works out
which chain of them leads to the newest version, fetches each patch archive
from one of several mirrors, verifies it with gpg or an MD5 checksum, and
executes it. Most of it is a single process, and yet little of it is simple:
state survives from one patch to the next, downloads survive from one run to
the next, child processes run beside the parent, and the user clicks in between.

The modules here translate the C sources in `src/`. `PROJECT.json` says for
every definition which lines it stands for. The runs are checked with TLC, the
theorems with TLAPS.

## 1. Inventory

| Component | State it keeps | Operations | Interacts with | What makes it correct |
|---|---|---|---|---|
| Mirror set (`urlset.c`) | linked list of mirrors with a status each, current mirror, preferred site, the file `preferred_mirror.txt` | add, shuffle, next, mark, prefer, save, reset, free | filled by the update list, asked by the download loops, saved by the GUI | no mirror lost or starved; disk before network; a saved site first; gives up only when all have failed |
| Patch set (`patchset.c`) | a version tree per component, patches with reference counts, edges, shortest paths, selection and toggle flags | `add_patch`, `calculate_paths`, `autoselect_patches`, `select_node` | filled by the update list, read by both interfaces | the tree does not depend on the order of the list; offered means reachable; shortest paths; nothing freed that is needed; selection and flags agree |
| Update list (`load_patchset.c`, `text_parse.c`) | static fields of the entry being read | fields into entries, entries into patches and mirrors | patch set, mirror set | entries do not run into each other; an error is local |
| Terminal interface (`tty_ui.c`) | cursor over selected patches, update status | list, select, download, verify, execute, clean up | all of the above, gpg, the archive | patches in order, each once, intact; a run ends; the status says what happened |
| Graphical interface (`gtk_ui.c`) | the same, plus flags set by slots (`download_cancelled`, `switch_mirror`, `update_proceeding`), the page shown, the sensitive buttons | the same, as slots that call each other and dispatch the user's events while they wait | the same, and the user | no slot takes the state of another from under it; a click is not lost; the user has a way on; operations end |
| Child processes (`gpg_verify.c`, `update.c`) | pipe, child, result | fork, select with a timeout, read, poll, kill, reap | gpg, the archive, the user interface | an answer is the child's own; no child left; every call returns |
| Download (`get_url.c`, `snarf-7.0/`) | the file on disk, its size as the offset, a count of redirects for the process | resume, append, redirect, by HTTP, FTP or copying | servers, progress callback | nothing fetched is lost; an honest mirror completes what there is; a call is refused for its own redirects only |
| Main program (`loki_update.c`) | command line, stage | self-update and restart, product, interactive | everything | restarts end; the exit status tells whether an update failed |
| Products (`load_products.c`, `meta_url.c`, `detect/`) | product table, overriding URLs | load, detect, link | product database of setupdb | the product asked for is found once |
| Paths, directories, logging, memory | none worth a model | | | |

The hard behaviours are these. *Partial failure and retry*: every step of a
download can fail and the next mirror continues with what the last one left.
*Crash and restart*: the product database and the files in the temporary path
outlive a killed run. *Interleaving*: child, parent and user race at every
`select`. *Stale state*: statuses, toggle flags and cursors are carried across
patches, and tree nodes are freed while others point to them. *Ordering*: a list
may name versions in any order. The hazards, each at its line, are in
`PROJECT.json`, with the property that would catch it or the reason why none
does yet.

## 2. Modules

| Module | Models | Kind |
|---|---|---|
| `MirrorSet` | `urlset.c` and its callers | component; its actions are used by `TtyUpdate` |
| `MirrorRotation` | the mirrors, with a count of the requests since a mirror's own | EXTENDS `MirrorSet`; a history variable, for `FairRotation` |
| `UpdateRun` | what a run promises | abstract specification |
| `ArchiveFile` | what the interfaces assume of `get_url()` | operators, used by `TtyUpdate` and justified by `Transfer` |
| `Transfer` | `get_url.c`, `util.c`, `http.c`, `ftp.c`, `file.c` of snarf | component |
| `TtyUpdate` | `tty_ui.c` | detailed specification; EXTENDS `MirrorSet` and `ArchiveFile`, implements `UpdateRun` |
| `GtkSession` | `gtk_ui.c` | detailed specification; EXTENDS `MirrorSet`, implements `UpdateRun` |
| `Main` | `main()` of `loki_update.c` | composition; EXTENDS `GtkSession`, whose sessions are its stages |
| `PatchSet` | `patchset.c`, the check buttons of `gtk_ui.c` | component |
| `UpdateList` | `load_patchset.c`, the filter of `add_patch()` | component; what it adds is what `PatchSet` and `MirrorSet` are given |
| `ChildPipe` | `gpg_verify.c`, `update.c` | parent, child, pipe and user |
| `MCMirrorSet`, `MCTtyUpdate`, `MCMain`, `MCPatchSet`, `MCUpdateList`, `MCChildPipe` | values of the constants | for TLC |
| `MirrorSetProofs`, `RotationProofs`, `TtyUpdateProofs`, `TransferProofs`, `UpdateListProofs`, `ChildPipeProofs`, `MainProofs`, `PatchSetProofs` | | proofs |

An operator whose comment begins "Faulty variant" is not part of the
specification. It is what a plausible mistake would make of the operator after
it, and the property it is paired with in `PROJECT.json` must then fail.

### MirrorSet

A mirror is one `struct mirror_url`; `list` is the linked list and `current`
the position of the current pointer, 0 for NULL. The text of a URL is reduced
to its host, and a path on the disk has none. `AddUrl`, `RandomizeUrls`,
`GetNextUrl`, `SetUrlStatus`, `SetPreferredUrl`, `SavePreferredUrl` and
`RecreateUrlset` are the functions of `urlset.c`; `Load`, `Loaded`, `Shuffle`,
`Request`, ... say when the callers use them. `Shuffles` is the set of orders
that `randomize_urls()` can produce with any numbers from `rand()`. `LoadUrls`
is a whole load in one step, for `TtyUpdate`, which cannot observe its middle.
`MirrorRotation` adds the variable `passed`: how often others were handed out
since a mirror was.

### UpdateRun and TtyUpdate

`TtyUpdate` follows `update_product()` and `download_update()`: `pc` names the
call the process waits in. Its variables are the static variables of
`tty_ui.c`, the locals of `download_update()` that live across a call
(`verified`), what survives the process (`db`, `file`), and a history variable
for the properties (`evidence`). The recursion of `download_update()` through
`cleanup_update()` is a return to `pc = "select"`.

A component's selected path is the linear chain of patches from the installed
version to the selected one; how such a chain comes about is the business of
`PatchSet`. The archive's file is nothing, a prefix, all of it, or has wrong
bytes; `Fetched` and `Interrupted` of `ArchiveFile` say what a transfer that
always resumes may make of it, and `Transfer` that they are right. gpg can find
a signature good only of the whole archive.

Abstracted: several products in one process, a product that cannot be opened
(nothing happens then), an archive that goes on running after the updater was
killed, and the text of messages.

`UpdateRun` knows versions, goals and an outcome only. The refinement mapping
takes `db` for the versions and computes the goal from the cursor: what lies
behind it is as it is, the component at it is to reach the end of the path the
cursor is on, those ahead their selection.

### GtkSession and Main

`pc` is the call the process is in. Where a slot waits (`"list"`, `"list_wait"`,
`"readme"`, `"update"`, `"sig"`, `"md5"`, `"gpg"`, `"perform"`), it dispatches
events itself, and the actions under `User` are the slots that may run there;
`"main"` is `gtk_main()`. A button is in `buttons` while it is sensitive, and a
click needs the button, its page and a loop that dispatches. `Between` are
places inside a slot where nothing is dispatched, kept apart because the code
branches there. The three mirror buttons and the dialog of the first are one
member of `buttons`, since the code changes them together.

The products that are to be updated form the `queue`; the list of each is
fetched (`ListArrives`, `ListIsEmpty`, `ListFails`), and of the product whose
updates are then selected (`owner`) the cursor, the mirrors and the version are
modelled: `StartDownload` to `PatchExits` are the chain of `download_update()`,
`perform_update_slot()` and `cleanup_update()`. `Dangling` says that the cursor
points into a patch set that was freed. `asked` and `failed` are history
variables. Version `db` and the file `preferred_mirror.txt` survive the process.

`Main` adds the command line, three stages and the exit status: `CheckSelf`
calls the interface for the updater, `Restart` replaces the process by a new
one (`StartAgain`), `UpdateNamed` and `ShowNamed` are stage 2, `ShowAll`
stage 3.

Abstracted: of the products of one round only one has updates that are selected;
the widgets of a destroyed window, on which the code goes on calling GTK; the
windows for README, details and GPG; images, labels and progress bars; whether
`get_url()` gives all of the archive, which is in `TtyUpdate` and `Transfer`
(here the verdict on it is chosen freely); the command line's other options,
each of which ends the process in one step.

### ArchiveFile and Transfer

`Transfer` is one call of `get_url()` after another for one file. An archive is
a sequence of `Size` units, a unit being what one `read()` returns, and unit 0
is one that does not belong where it is. `stream` is what the peer would still
send. The variables are those of the resource (`offset`, `outfile_size`), the
process's `redirect_count`, the file, and three that describe the call for the
properties (`before`, `hops`, `honest`). Each way out of `http_transfer()`,
`ftp_transfer()`, `file_transfer()` and `dump_data()` is an action. A server
may send the rest, all of it, or a page; with or without its length; and stop
anywhere. `Killed` may come at any point; the file is what it is then.

Abstracted: proxies, the connection for the data of FTP, gopher, and the variant
of `get_url.c` that runs wget, which is not compiled.

### PatchSet

A version is `<<base, flavour>>`. `Grown` is `get_version_node()`: trunk nodes
and sibling chains are the levels of a component. The address of a node is its
component, version and the generation of the root it hangs from, so that a
node of an older generation is a dangling pointer. When the code would use
freed memory, or follow a NULL path, `broken` is set and the model stops.
`Found` is the search of `find_shortest_path()`, in which all edges count one,
so that the fringe is a queue. `Toggles` and `Fallback` are the two walks of
`select_node()`, along sibling pointers, and those of a visible root lead to
the roots of other components. What the trimming functions unlink is what
`Only` leaves out. `Tick`, `Untick` and `Proceed` are the
user's. `update_path` is what the updater has still to walk of the path it is
on: `Proceed` sets it as `reset_selected_update()` does, and `CleanupUpdate` is
the `cleanup_update()` of either interface, which deselects the node of the
patch it is done with, installed or not, and goes on
(`SkipToSelectedUpdate`) or stops. The size of an entry is `<<number, unit>>`,
and `SizeK()` is what `sizeK_from_string()` makes of it.

What is on offer is compared with `Available`, which knows the entries of the
list but not their order. Two things the updater's README says of it are not so.
By lines 120-123 the lowest version is the base update of a component, wherever
it is listed; but `get_version_node()` discards what was listed before it
(`patchset.c:178-192`), and a debug message alone asks for an order. By lines
139-142 only updates for one's own flavour are visible; but every node that can
be reached has a check button (`gtk_ui.c:1830-1865`), those behind a conversion
to another flavour included. `OfferedIffAvailable` says what does hold: nothing
is on offer that the list does not lead to, by way of any flavours, and all of
that is, for a component that is installed or whose base update comes before
its upgrades (`BaseFirst`). `PathsAreShortest` is about the entries that are
`Retained`, which is what is left of a list when a base update comes late.

`PatchSetAssumption` gives the constants their types. `UpgradeAssumption` is
about what people write into lists: a patch leads to no older version than those
it applies to. An entry that installs a component names versions of the product
instead, and then is the oldest of its component. `add_patch()` does not check
this. It matters because `select_node()` walks the trunk upwards only: along a
path that went back down it would never come to the later stops, and leave them
without a toggle flag.

### UpdateList

The lines of a list are read one at a time into the static variables of
`parse_table` (`fields`), and `check_and_add_patch()` is called whenever a line
cannot belong to the entry read so far: by `ReadProduct`, by `ReadField` where
`BeginsEntry` says so, and by `EndOfList`. The list itself is not arbitrary
text: `Open` picks the entries somebody had in mind (`written`) and one of the
ways the README of the updater has of writing them down (`Text`), every entry
under a Product line or several under one, and the properties compare what is
added with what was meant. A field is the sequence of values it was given, since
an expandable one may have several lines. Libc is treated like Architecture, and
Note and Size like File, so these are left out. Splitting text into lines and
stripping HTML (`text_parse.c`) is not modelled.

### ChildPipe

One call of `gpg_verify()`, `get_publickey_from()` or `perform_update()` after
another, as `do_gpg_verify()` and `get_publickey()` make them, with the child
as a process of its own. The three loops in C are the same loop, and are one
here; where they differ (the status of the child, who gets it) the guard names
the call. A line is written and read whole: the parsers decide at ends of lines
only. The pipe holds `PipeCapacity` lines. `held` says that a process the child
left behind keeps the pipe open.

## 3. Runs

| Run | Expected | Shows |
|---|---|---|
| `MirrorSet` | pass | `NoMirrorLost`, `DiskBeforeNetwork`, `FairRotation`, `SavedSiteFirst` under every order of operations |
| `TtyUpdate` | pass | `RunsInOrder`, `CheckedMeansIntact`, `GivesUpLast`, `NoArchiveLeft`, `StatusCounts`, that every run ends, and that it implements `UpdateRun` |
| `TtyUnverified` | violation | an archive is executed though neither signature nor checksum could be had |
| `GtkSession` | pass | `SlotsAreSafe`, `NoDeadEnd`, `ExitTellsFailure`, `FailuresForgotten` (no download begins with a mirror marked for an earlier patch), that operations and restarts end (`Progresses`), and that the sessions implement `UpdateRun` |
| `GtkNextMirror` | violation | a click on Next Mirror during the README's transfer is forgotten |
| `Transfer` | pass | `FetchedAsPromised`: nothing that was fetched is lost, and the file is what `ArchiveFile` says; `HonestTransferCompletes`: an honest mirror completes it, by any protocol |
| `TransferRedirects` | violation | a download is refused for the redirects of those before it |
| `PatchSet` | pass | `TreeOrdered`, `OfferedIffAvailable`, `PathsAreShortest`, `PathsKeepTheirPatches`, `NewestSelected`, `SelectionIsToggled`, `GivenUpStaysOut` |
| `PatchFallback` | violation | unticking an add-on's upgrade selects another component |
| `UpdateList` | pass | `EntriesAsWritten`, `MirrorsAsWritten`, `NothingLeaks`: an entry is added as it was written, whatever was read before it |
| `ChildPipe` | pass | `AnswerIsTheChilds`, `StatusIsTheChilds`, `NoChildLeft`, and that every call returns |
| `ChildVerdict` | violation | gpg's verdict is lost in a race |

Each of the five violations is a finding of `PROJECT.json`, with the words of
the documentation it disagrees with.

### Bounds

* `MirrorSet`: three mirrors on two hosts and one copy on the disk. Two mirrors
  share a host, so that the preferred site has more than one, and there is one
  mirror of each of the three classes that a shuffle tells apart. No counter is
  bounded: the state space is finite. `FairRotation` needs a count of requests,
  which `MirrorRotation` keeps beside the specification and cuts off past the
  length of the list.
* `TtyUpdate`: two components with two patches and one, so that there is a next
  patch on the same path and on another; two mirrors, so that a second one is
  tried with what the first left; `MaxRuns` 2, so that a second run finds what a
  killed first one left. What a third run finds is no different in kind: it
  starts from `db` and `file` alone, and all their combinations that two runs
  produce are start states of the second already.
* `GtkSession`: the updater with two patches from the disk, a game with two
  patches on two mirrors of one site, and a game without any, so that there is
  a restart, a next patch, on one mirror (whose mark no shuffle takes back) and
  on several, a next mirror, a site that is preferred, and a round of several
  products. No counter is bounded but the versions, by `Top`; the 1,080,518
  states are all there are. Deadlock is not checked: the program exits,
  or crashes where the code does.
* `Transfer`: an archive of three units, so that a transfer can stop before,
  in and after its middle; `REDIRECT_MAX` 2 for 10, fewer than the calls that
  run it up; `MaxLength` 4, one more than the archive: the file a call begins
  with may be longer than it should be, and what a call appends to it is not
  bounded.
* `PatchSet`: ten entries for three components (the product, an installed add-on
  and one that is not) and lists of up to `MaxEntries` = 4 of them, in any order,
  no entry twice (`CONSTRAINT Distinct`). Four entries make a path of two
  patches with a choice between two links and one entry of another component.
  The entries include an obsolete version, a diagonal combination of flavours
  and a base update for a later product.
* `UpdateList`: lists of up to `MaxEntries` = 3 of eight entries for two
  products, with repetitions: three are an entry between two others. One is for
  another machine, one has several architectures, three lack a mandatory field,
  and three bring a mirror. Each list is loaded
  after each, since nothing but `fields` survives one.
* `ChildPipe`: two key servers, so that there is a next one; a pipe of two lines,
  fewer than a child writes, so that it blocks; outputs of up to four lines.
  What a child writes after its verdict fits in the pipe, as the few hundred
  bytes gpg writes fit in 64 KiB. With more, `Returns` would not hold: the
  parent waits for the child without reading.

### Fairness

`TtyUpdate!FairSpec` is weakly fair to `Progress`, the process's own steps. That
includes the return of every call it waits in: a transfer ends, gpg ends, the
archive ends. The code has no timeout of its own for any of these, so `RunEnds`
is about the updater's own loop: each trip round it uses up a mirror.
`Main!MainFair` is weakly fair to the process's own steps and to the stages of
`main()`, not to the user. `Progresses` therefore says that every operation comes
to rest at a page or an exit, whatever the user does or fails to do, with two
provisos that the code needs: a user who asks for another mirror again and again
keeps a download going for ever, and a self-update whose archive ends well
raises the version that is installed; otherwise the updater restarts for ever.
`ChildPipe!FairSpec` is weakly fair to the parent and to the child's writing
and exiting, which is what the scheduler gives two processes. Nothing is
assumed of the user, nor that a process left behind ever lets go of the pipe:
`Returns` holds although it may not.

## 4. Proofs

All theorems are of the form `Spec => []Inv`, `Spec => [][A]_vars` or, for the
two refinements, `Spec => UpdateRun!Spec`, for every value of the constants that
satisfies the assumptions of the module.

* **`MirrorSetProofs`**, from `HostAssumption`. The inductive invariant is
  `MirrorTypeOK`, `NoMirrorLost` and `DiskBeforeNetwork` together: without types
  and without the equality of `num_mirrors` and the length of the list,
  `RandomizeUrls` would not know that fewer than two mirrors leave nothing to
  be out of order. The lemmas state what each operation of `urlset.c` keeps,
  whoever calls it, and `TtyUpdateProofs` uses them. That a shuffle is a
  permutation (`ShuffleIsPermutation`) is a fact about finite sets of the same
  size. `SavedSiteIsFirst` says of every shuffle
  that its three classes come in their order.
* **`RotationProofs`**, on top of `MirrorSetProofs`. `FairRotation` is not
  inductive: a count says nothing without the place of its mirror. `Come(k)` is
  how far round the list the walk of `get_next_url()` has come since it was at
  position k, and `RotationInv` is that no mirror has been passed more often than
  that. A request that hands out another mirror takes the walk further, and not
  beyond a mirror that has not failed, which would have been nearer
  (`WalkPassesNone`).
* **`TtyUpdateProofs`**, from `TtyAssumption` too. `TtyInv` adds to the types
  where the cursor is (`CursorInv`: the current patch is on the path it walks,
  nothing beyond it is installed, components ahead are as they were), what the
  database then holds (`VersionInv`: every patch before the current one, and
  that one too once its program has succeeded), what is known of the archive at
  each point of the loop (`ArchiveInv`), and that the mirrors are loaded
  (`MirrorsInv`). The first two are needed because `RunsInOrder` says nothing at
  `pc = "select"`, where the next patch is chosen. There is one lemma per action.
  On top of `TtyInv`, `RunInv` adds when the file of the current patch is not
  there (`CleanInv`: `cleanup_update()` and every way of giving up remove it),
  and how the status and the number of patches done go together (`StatusInv`).
  `NoArchiveLeft` and `StatusCounts` follow. `RunsAreUpdateRuns` is the
  refinement: `Init` maps to `UpdateRun`'s, and every step to one of its steps or
  to a stutter. Only three kinds of step move the abstract state (a run begins, a
  patch is applied, a run ends), and the lemma `BehindIsDone` (what lies behind
  the cursor is at the end of its path) is why success is success.
* **`TransferProofs`**, from `TransferAssumption`. `TransferInv` says, besides
  the types, that what is written is written to a file that is there, that the
  offset is the length the file had until data arrives, that no call makes the
  file less (`NothingLost`, which is half of `FetchedAsPromised`), and, for
  calls without a fault (`HonestInv`), that
  what is in the file followed by what is still to come is the archive.
* **`ChildPipeProofs`**, from `PipeAssumption`. `PipeInv` says what each place
  of the parent implies for the child, that a result other than `GPG_CANCELLED`
  was read from a line of this call's child, and that the status variable is
  the child's once the child has been reaped.
* **`MainProofs`**, from `GtkAssumption`, `MainAssumption` and `HostAssumption`,
  with the lemmas of `MirrorSetProofs`. `MainInv` says what every place of the
  program implies for the page shown, the sensitive buttons, the flags of a
  download, the patch at the cursor, and the status and exit code. It is needed
  because `SlotsAreSafe` and `NoDeadEnd` say nothing of the places between two
  events, and `ExitTellsFailure` nothing before the end. Each of the 35 actions
  of `GtkSession` has a lemma, with one step per part of the invariant, and so
  have the stages of `main()`.
  On top of `MainInv`, `SingleInv` says that a single mirror, whose mark no
  shuffle takes back, has none where a download may still begin or go on
  (`Hopeful`) with the list of the products that are updated (`ListIsOurs`).
  `FailuresAreForgotten` follows, for any number of mirrors.
  On top of `MainInv`, too, `VersionInv` adds that the patches before the cursor are
  installed and the one at it is not, until its archive has succeeded; it holds
  only where a run is or can still be started (`AtCursor`), since a cursor is left
  behind when a session is given up. Every step begins a run (`Begins`), applies a
  patch (`Applies`) or is quiet (`Quiet`), and each of the three is a step of
  `UpdateRun` or a stutter. `SessionsAreUpdateRuns` is about the steps that can be
  taken, as `UpdateRun` is: that an operation ends is `Progresses`, which is
  checked.
* **`UpdateListProofs`**, from `ListAssumption`: every order names each field
  once and the component before its version (`InOrder`, as README:110 asks of a
  list), and an entry says something and repeats only what may be continued on
  another line (`Sensible`). Without the first an entry can end in its own
  middle, without the second one cannot be told from none or from two.
  `NothingLeaks` is inductive as it stands. The other three say nothing while a
  list is read; `ListInv` says where the parser then is. The text is cut into
  the pieces of its entries, and `part[i][q]` is what the fields of entry i are
  after q of its lines (`EntryIn`). The parser is `Within` an entry, having read
  q of its lines, or `Before` one, among its mirrors, and still holds all of the
  last (`Held`): `fields` is that part, `added` is what was meant up to the entry
  before, `mirrors` those of the text so far, and no entry so far lacks a field.
  The heart of the proof is `WhereReading`: a line that `BeginsEntry` takes for
  the first of an entry is one, and no other is.
* **`PatchSetProofs`**, from `PatchSetAssumption`, and for what depends on the
  walk of `select_node()` from `UpgradeAssumption` too (it is cited once, in
  `PatchesLeadOn`). None of the properties of a loaded patch set is inductive:
  what `calculate_paths()` leaves behind depends on all that `add_patch()` has
  done before. The argument goes in five parts.
  1. *The forest.* `Good` says that roots are distinct, the main one first, that
     installed ones stand for what is installed, and that levels and siblings are
     in order (`Above`, `Row`). It survives insertion in any order, the
     replacement of a root, and trimming; `TreeOrdered` follows.
  2. *The list.* While it is read, `Matches` ties every patch to its entry, and
     every entry to its patch: `Fits` is what stays true of a patch whose tree has
     been replaced, `FitsNow` what is true of the others, and `Tracks` says for
     each component since which entry its root has stood (`Since`), and that it is
     the entries from there on that have their nodes and patches. A patch left over
     from a replaced root names nodes of an older generation and links none that
     is there.
  3. *The search.* `Searched` is the invariant of the loop of
     `find_shortest_path()`: what is found is linked to its parent, parents come
     in order, and of the nodes taken from the queue every neighbour is found.
     Since a tree has no more nodes than the loop has turns (`AllExpanded`, by
     counting), what is found is closed under patches. A path is as long as a
     search in breadth needs (`NearestFirst`, `NoneNearer`), and a `Chain` of the
     smallest patches. All this is about the entries `add_patch()` has `Retained`;
     that those lead to nothing that all entries do not lead to, and to the same
     when a base update comes before its upgrades, is `RetainedAreUpgrades`.
  4. *What is settled.* `Settled` is the invariant of a loaded patch set: the
     versions in the trees are the `Reached` ones, every node is on a route of
     shortest length, and the patches of the routes and their nodes are there
     (`KeptAre`: a patch on a path was counted, so it was not trimmed).
     `OfferedIffAvailable`, `PathsAreShortest`, `PathsKeepTheirPatches` and, with
     the order of the levels, `NewestSelected` follow.
  5. *The selection.* The stops of a path come in the order of the rows of its
     tree (`StopsOnRows`, from the order of versions); hence the walk of
     `select_node()`, which never goes back a row, passes each on its own row
     (`PassesInOrder`) and toggles it (`StopsAreToggled`). `Picked` says that of
     every selected node, whatever was clicked in between; with `Settled` it gives
     `SelectionIsToggled` and `PatchTypeOK` (with `Walked`, for `update_path`).
     `GivenUpStaysOut` needs `DepthsAlike`
     too: nodes of one level are equally deep, so the walk that looks for a
     fallback stops before the row of the node given up, and all stops of the path
     to what it found are on earlier rows.

Induction over data (the entries of a list, the lines of an entry) is done by
the least number at which a claim fails (`Least`, `NoLeast`), which follows from
the well-foundedness of `<` on the naturals. The induction theorems of the library
take an operator as a parameter, which the provers cannot instantiate.

Where the model has a recursive function (the search, the walks, `Only`), the
theorem first shows that there is a function with its two equations (`Iterates`,
on natural numbers), and so that the one that CHOOSE picks has them.

Only model-checked: the liveness properties `RunEnds`, `Returns` and `Progresses`,
which are beyond the prover, as is everything that needs ENABLED. Every other
property of a passing run is a theorem.

## 5. Not modelled

* *Products* (`load_products.c`, `meta_url.c`): a sorted table filled once at the
  start and then looked up. It is sequential data handling without a step that
  could come at a wrong time, and its input is the database of setupdb, which is
  not part of the repository.
* *Splitting text* (`text_parse.c` below `parse_table`, with its HTML mode) and
  the limits of line buffers: character by character, and stateless.
* *Several products with selectable updates in one round*, and with them several
  mirror sets: the code walks them one after another, and what it carries from
  one to the next (statuses, flags, buttons) is in the model.
* *Widgets of a destroyed window*, the windows for README, details and GPG.
* *Proxies, FTP data sockets, gopher, wget*: see `Transfer`.
* *Left out for good*: the shell scripts in `detect/`, string composition in
  `url_paths.c` and `prefpath.c`, logging, `safe_malloc()`, the snarf command
  line, translations and widgets' looks.

Two things are in a model though no run is about them: the units of sizes
(`SizeK`) and the root an Applies line may replace (`WithRoot`), both of
`PatchSet`.

What could be taken up next: that `PatchSet` is given by `UpdateList` what it
assumes, as one composed specification, and that its selected paths are the
chains that `TtyUpdate` and `GtkSession` begin with.
