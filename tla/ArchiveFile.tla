---------------------------- MODULE ArchiveFile ----------------------------
(***************************************************************************)
(* What the interfaces may assume of get_url() when it is called for the   *)
(* archive of a patch.  The file in the temporary path is "none", a proper *)
(* prefix of the archive ("part"), all of it ("full"), or has wrong bytes  *)
(* ("bad").  A file that is there is always resumed: snarf_url() never     *)
(* asks for a fresh copy, and data is only ever appended to it.  The end   *)
(* of a connection counts as the end of the file; a server that ignores    *)
(* the range, or whose error page for a range past the end is appended,    *)
(* makes the file bad, and a bad file stays bad.  Module Transfer shows    *)
(* that this is what the transfers do.                                     *)
(***************************************************************************)
Contents == {"none", "part", "full", "bad"}

(* The file after a call that succeeded.                                   *)
Fetched(content) ==
  CASE content = "none" -> {"part", "full", "bad"}
    [] content = "part" -> {"part", "full", "bad"}
    [] content = "full" -> {"full", "bad"}
    [] content = "bad"  -> {"bad"}

(* The file after one that failed or was cancelled, which it may be with   *)
(* the last byte written.                                                  *)
Interrupted(content) ==
  CASE content = "none" -> Contents
    [] content = "part" -> {"part", "full", "bad"}
    [] content = "full" -> {"full", "bad"}
    [] content = "bad"  -> {"bad"}
=============================================================================
