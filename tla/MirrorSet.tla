------------------------------ MODULE MirrorSet ------------------------------
(***************************************************************************)
(* The set of mirrors an update list names (urlset.c).  load_patchset()    *)
(* fills it with add_url(), once per Mirror line of the list, and calls    *)
(* randomize_urls(); from then on the download loops ask for the next      *)
(* mirror with get_next_url(), mark the one that failed them with          *)
(* set_url_status(), and may make the current one the preferred site and   *)
(* shuffle the list again (the graphical interface does, before every      *)
(* patch).                                                                 *)
(*                                                                         *)
(* A mirror stands for one struct mirror_url; two of them may have the     *)
(* same host.  The linked list is the sequence "list" and "current" is the *)
(* position of the current mirror in it, 0 for a NULL pointer.             *)
(***************************************************************************)
EXTENDS Integers, Sequences

CONSTANTS
  Mirrors,      \* the mirrors an update list may name
  Hosts,        \* the hosts they are on
  HostOf,       \* the host of each mirror, NULL for a path on the local disk
  NULL          \* a NULL pointer; get_url_host() finding no host

ASSUME HostAssumption ==
  /\ NULL \notin Hosts \union Mirrors
  /\ HostOf \in [Mirrors -> Hosts \union {NULL}]

VARIABLES
  num_mirrors,      \* urlset.num_mirrors
  list,             \* urlset.list and the next pointers
  current,          \* urlset.current, as a position in list
  status,           \* mirror_url.status of every mirror
  preferred_site,   \* urlset.preferred_site
  preferred_file,   \* the site saved in preferred_mirror.txt
  full_url,         \* the mirror urlset.full_url was last composed for
  loaded            \* load_patchset() has shuffled the list

mirrorVars ==
  <<num_mirrors, list, current, status, preferred_site, preferred_file,
    full_url, loaded>>

URL_OK     == "URL_OK"
URL_FAILED == "URL_FAILED"

AllOK == [m \in Mirrors |-> URL_OK]

(***************************************************************************)
(* The orders randomize_urls() can produce: the mirrors on the local disk  *)
(* first, then those on the preferred site, both in list order, and the    *)
(* others, each dropped in a random free slot, in any order.               *)
(***************************************************************************)
IsLocal(m) == HostOf[m] = NULL

\* Faulty variant: a copy on the disk is a mirror like any other.
ClassOfSite(m, site) == IF HostOf[m] = site THEN 1 ELSE 2

Class(m, site) ==
  IF IsLocal(m) THEN 0 ELSE IF HostOf[m] = site THEN 1 ELSE 2

Shuffles(urls, site) ==
  LET slots == 1..Len(urls)
      Position(m) == CHOOSE k \in slots : urls[k] = m
  IN  { o \in [slots -> {urls[k] : k \in slots}] :
          /\ \A i, j \in slots : o[i] = o[j] => i = j
          /\ \A i, j \in slots : i < j =>
               /\ Class(o[i], site) <= Class(o[j], site)
               /\ (Class(o[i], site) = Class(o[j], site) /\ Class(o[i], site) < 2)
                    => Position(o[i]) < Position(o[j]) }

(* create_urlset(): an empty set, and the preferred site read from disk.   *)
EmptyUrlset(site) ==
  /\ num_mirrors = 0
  /\ list = << >>
  /\ current = 0
  /\ status = AllOK
  /\ preferred_file = site
  /\ preferred_site = site
  /\ full_url = NULL
  /\ loaded = FALSE

\* Faulty variant: the current pointer stays where it was.
AddBehindCurrent(m) ==
  /\ num_mirrors' = num_mirrors + 1
  /\ list' = SubSeq(list, 1, current) \o <<m>>
  /\ status' = [status EXCEPT ![m] = URL_OK]
  /\ UNCHANGED <<current, preferred_site, preferred_file, full_url, loaded>>

(* add_url(): the new mirror follows the current one, which load_patchset  *)
(* has left at the tail; with no current mirror it becomes the whole list. *)
AddUrl(m) ==
  /\ num_mirrors' = num_mirrors + 1
  /\ list' = SubSeq(list, 1, current) \o <<m>>
  /\ current' = current + 1
  /\ status' = [status EXCEPT ![m] = URL_OK]
  /\ UNCHANGED <<preferred_site, preferred_file, full_url, loaded>>

\* Faulty variant: the preferred site is not looked at.
RandomizeAll ==
  /\ list' \in Shuffles(list, NULL)
  /\ current' = 0
  /\ status' = AllOK
  /\ UNCHANGED <<num_mirrors, preferred_site, preferred_file, full_url>>

(* randomize_urls(), with the reset_urlset() it ends in.  Fewer than two   *)
(* mirrors are left as they are, their statuses included.                  *)
RandomizeUrls ==
  /\ \/ /\ num_mirrors < 2
        /\ UNCHANGED <<list, current, status>>
     \/ /\ num_mirrors >= 2
        /\ list' \in Shuffles(list, preferred_site)
        /\ current' = 0
        /\ status' = AllOK
  /\ UNCHANGED <<num_mirrors, preferred_site, preferred_file, full_url>>

\* Faulty variant: every request begins at the head of the list.
AlwaysTheHead == 1

(* The mirrors in the order get_next_url() and get_current_url() walk      *)
(* them: one past the current one, or the head of the list, then round.    *)
FirstTried == IF current = 0 \/ current = Len(list) THEN 1 ELSE current + 1

Distance(k) ==
  IF k >= FirstTried THEN k - FirstTried ELSE k - FirstTried + Len(list)

OkayPositions == { k \in 1..Len(list) : status[list[k]] = URL_OK }

(* get_next_url(): the nearest mirror that has not failed, or NULL when    *)
(* there is none (current' = 0).                                           *)
GetNextUrl ==
  /\ \/ /\ num_mirrors = 0
        /\ UNCHANGED <<current, full_url>>
     \/ /\ num_mirrors # 0
        /\ OkayPositions = {}
        /\ current' = 0
        /\ UNCHANGED full_url
     \/ /\ num_mirrors # 0
        /\ \E k \in OkayPositions :
             /\ \A j \in OkayPositions : Distance(k) <= Distance(j)
             /\ current' = k
             /\ full_url' = list[k]
  /\ UNCHANGED <<num_mirrors, list, status, preferred_site, preferred_file, loaded>>

(* set_url_status(): of the current mirror, if there is one.               *)
SetUrlStatus(s) ==
  /\ IF current = 0
     THEN UNCHANGED status
     ELSE status' = [status EXCEPT ![list[current]] = s]
  /\ UNCHANGED <<num_mirrors, list, current, preferred_site, preferred_file,
                 full_url, loaded>>

\* Faulty variant: the whole URL is taken for the site.
PreferWholeUrl ==
  /\ preferred_site' = full_url
  /\ UNCHANGED <<num_mirrors, list, current, status, preferred_file, full_url,
                 loaded>>

(* set_preferred_url(): the host of the URL composed last, if it has one.  *)
SetPreferredUrl ==
  /\ IF full_url = NULL \/ HostOf[full_url] = NULL
     THEN UNCHANGED preferred_site
     ELSE preferred_site' = HostOf[full_url]
  /\ UNCHANGED <<num_mirrors, list, current, status, preferred_file, full_url,
                 loaded>>

(* save_preferred_url(): remember it in preferred_mirror.txt.              *)
SavePreferredUrl ==
  /\ preferred_file' = preferred_site
  /\ UNCHANGED <<num_mirrors, list, current, status, preferred_site, full_url,
                 loaded>>

(* free_urlset() of the old set and create_urlset() of the next one.       *)
RecreateUrlset ==
  /\ num_mirrors' = 0
  /\ list' = << >>
  /\ current' = 0
  /\ status' = AllOK
  /\ preferred_site' = preferred_file
  /\ full_url' = NULL
  /\ loaded' = FALSE
  /\ UNCHANGED preferred_file

(* A whole load in one step, for a caller that cannot observe its middle:  *)
(* create_urlset(), add_url() for each mirror, randomize_urls().           *)
LoadUrls(urls) ==
  /\ num_mirrors' = Len(urls)
  /\ IF Len(urls) < 2
     THEN list' = urls /\ current' = Len(urls)
     ELSE list' \in Shuffles(urls, preferred_file) /\ current' = 0
  /\ status' = AllOK
  /\ preferred_site' = preferred_file
  /\ full_url' = NULL
  /\ loaded' = TRUE
  /\ UNCHANGED preferred_file

-----------------------------------------------------------------------------
(* The callers: a loading phase, then requests and reports in any order.   *)

MirrorInit == \E site \in Hosts \union {NULL} : EmptyUrlset(site)

Listed == { list[k] : k \in 1..Len(list) }

Load(m)  == ~loaded /\ m \notin Listed /\ AddUrl(m)
Loaded   == ~loaded /\ RandomizeUrls /\ loaded' = TRUE
Shuffle  == loaded /\ RandomizeUrls /\ UNCHANGED loaded
Request  == loaded /\ GetNextUrl
Report   == loaded /\ SetUrlStatus(URL_FAILED)
Prefer   == loaded /\ SetPreferredUrl
Save     == loaded /\ SavePreferredUrl
Reload   == loaded /\ RecreateUrlset

MirrorNext ==
  \/ \E m \in Mirrors : Load(m)
  \/ Loaded
  \/ Shuffle
  \/ Request
  \/ Report
  \/ Prefer
  \/ Save
  \/ Reload

MirrorSpec == MirrorInit /\ [][MirrorNext]_mirrorVars

-----------------------------------------------------------------------------
(* Every variable has its type; only hosts are ever preferred or saved.    *)
MirrorTypeOK ==
  /\ num_mirrors \in Nat
  /\ list \in Seq(Mirrors)
  /\ current \in Nat
  /\ status \in [Mirrors -> {URL_OK, URL_FAILED}]
  /\ {preferred_site, preferred_file} \subseteq Hosts \union {NULL}
  /\ full_url \in Mirrors \union {NULL}
  /\ loaded \in BOOLEAN

(* Every mirror that was added is on the list, once, and the current       *)
(* pointer is NULL or points into it.  add_url() overwrites the next       *)
(* pointer of the current mirror, so a mirror added anywhere but at the    *)
(* tail would cut off those behind it, and randomize_urls() would then     *)
(* follow the NULL pointers left in its table of num_mirrors entries.      *)
NoMirrorLost ==
  /\ num_mirrors = Len(list)
  /\ current <= Len(list)
  /\ \A i, j \in 1..Len(list) : list[i] = list[j] => i = j
  /\ ~loaded => current = Len(list)

(* "The updater now prefers local disk files to mirrors" (CHANGES, 1.0.7): *)
(* once the list is shuffled a copy on the disk is tried before any        *)
(* mirror, whatever was added, preferred or shuffled since.                *)
DiskBeforeNetwork ==
  loaded => \A i, j \in 1..Len(list) :
              IsLocal(list[j]) /\ i < j => IsLocal(list[i])

(* A saved mirror is used "first for future downloads" (README): after a   *)
(* load the mirrors on the site in preferred_mirror.txt come before every  *)
(* other, except the copies on the disk.                                   *)
SavedSiteFirst ==
  [][Loaded =>
       \A i, j \in 1..Len(list') : i < j =>
         Class(list'[i], preferred_file) <= Class(list'[j], preferred_file)]_mirrorVars
==============================================================================
