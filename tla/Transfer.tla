------------------------------ MODULE Transfer ------------------------------
(***************************************************************************)
(* A download: get_url() (get_url.c) and the transfers of the snarf        *)
(* library it is made with (util.c, http.c, ftp.c, file.c), one call after *)
(* another for the same file, as the interfaces make them when they go     *)
(* from mirror to mirror and when the updater is run again.  What the      *)
(* mirrors, the network and the disk do is chosen freely.                  *)
(*                                                                         *)
(* The archive is a sequence of Size units, the unit being what one read() *)
(* returns; 0 is a unit that is not of the archive at that place.          *)
(***************************************************************************)
EXTENDS ArchiveFile, Integers, SequencesExt

CONSTANTS
  Size,         \* the length of the archive
  REDIRECT_MAX, \* REDIRECT_MAX of http.c, which is 10
  MaxLength     \* a bound on the file a download begins with

ASSUME TransferAssumption ==
  /\ Size \in Nat \ {0}
  /\ REDIRECT_MAX \in Nat
  /\ MaxLength \in Nat

VARIABLES
  pc,               \* where the call is
  service,          \* rsrc->url->service_type
  exists,           \* the file is there
  file,             \* what is in it
  offset,           \* rsrc->outfile_offset
  outfile_size,     \* rsrc->outfile_size
  redirect_count,   \* redirect_count, for the life of the process
  stream,           \* what the peer would still send
  cancelled,        \* the progress callback answers that the user cancelled
  result,           \* what the last call returned, "none" before the first
  before,           \* the file when the call began, unless removed since
  hops,             \* the redirects of this call
  honest            \* this call met no fault and only complete answers

fileVars == <<exists, file>>
vars == <<pc, service, fileVars, offset, outfile_size, redirect_count, stream,
          cancelled, result, before, hops, honest>>

Archive  == [i \in 1..Size |-> i]
Damaged  == [Archive EXCEPT ![Size] = 0]
Page     == <<0>>
Services == {"http", "ftp", "file"}

(* OPT_RESUME is set for every file that is not empty.                     *)
Resume == offset > 0

(* What is sent of a copy from which the first units are not wanted.       *)
Rest(copy) == SubSeq(copy, offset + 1, Len(copy))

(* How much of the archive a file is, as the interfaces' modules tell it.  *)
ContentOf(f) ==
  IF ~f.exists THEN "none"
  ELSE IF f.file = Archive THEN "full"
  ELSE IF IsPrefix(f.file, Archive) THEN "part"
  ELSE "bad"

Now     == [exists |-> exists, file |-> file]
NoFile  == [exists |-> FALSE, file |-> << >>]
Content == ContentOf(Now)
Was     == ContentOf(before)

TransferInit ==
  /\ pc = "idle"
  /\ service = "file"
  /\ exists = FALSE
  /\ file = << >>
  /\ offset = 0
  /\ outfile_size = 0
  /\ redirect_count = 0
  /\ stream = << >>
  /\ cancelled = FALSE
  /\ result = "none"
  /\ before = NoFile
  /\ hops = 0
  /\ honest = TRUE

-----------------------------------------------------------------------------
(* snarf_url(), up to transfer().                                          *)
GetUrl(s) ==
  /\ pc = "idle"
  /\ Len(file) <= MaxLength
  /\ pc' = "transfer"
  /\ service' = s
  /\ offset' = Len(file)
  /\ outfile_size' = 0
  /\ stream' = << >>
  /\ cancelled' = FALSE
  /\ result' = "none"
  /\ before' = Now
  /\ hops' = 0
  /\ honest' = TRUE
  /\ UNCHANGED <<fileVars, redirect_count>>

(* transfer() returns, and snarf_url() after it.                           *)
Return(r) ==
  /\ pc' = "idle"
  /\ result' = r
  /\ stream' = << >>

\* Faulty variant: the file is always written anew.
WriteOutfile ==
  /\ exists' = TRUE
  /\ file' = << >>

(* open_outfile(): to append, or to write an empty file anew.              *)
OpenOutfile ==
  /\ exists' = TRUE
  /\ file' = IF Resume THEN file ELSE << >>

(* Nothing is done to the file.                                            *)
Fails ==
  /\ Return("failed")
  /\ UNCHANGED <<service, fileVars, offset, outfile_size, cancelled, before,
                 hops, honest>>

-----------------------------------------------------------------------------
(* http_transfer() refuses to go on being redirected.                      *)
TooManyRedirects ==
  /\ pc = "transfer" /\ service = "http"
  /\ redirect_count > REDIRECT_MAX
  /\ redirect_count' = 0
  /\ Fails

\* Faulty variant: nobody counts.
CalledAgain == pc = "transfer"

Called == pc = "transfer" /\ (service = "http" => redirect_count <= REDIRECT_MAX)

(* No host, no address, no connection, a cancelled attempt, or no file to  *)
(* open on this side or, of a local copy, on that.                         *)
CannotBegin ==
  /\ Called
  /\ Fails
  /\ UNCHANGED redirect_count

(* tcp_connect_async() goes by what the callback answers while it waits,   *)
(* but not when it reports on its progress.                                *)
LateClick == cancelled' \in BOOLEAN

(* tcp_connect_async(), the request, and open_outfile().                   *)
ConnectHttp ==
  /\ Called /\ service = "http"
  /\ ~cancelled
  /\ LateClick
  /\ pc' = "reply"
  /\ OpenOutfile
  /\ UNCHANGED <<service, offset, outfile_size, redirect_count, stream, result,
                 before, hops, honest>>

ConnectFtp ==
  /\ Called /\ service = "ftp"
  /\ ~cancelled
  /\ LateClick
  /\ pc' = "login"
  /\ UNCHANGED <<service, fileVars, offset, outfile_size, redirect_count,
                 stream, result, before, hops, honest>>

(* file_transfer(), up to dump_data(): a copy on the disk.                 *)
OpenCopy ==
  /\ Called /\ service = "file"
  /\ \E copy \in {Archive, Damaged} :
       /\ outfile_size' = Len(copy)
       /\ stream' = Rest(copy)
       /\ honest' = (honest /\ copy = Archive)
  /\ OpenOutfile
  /\ pc' = "dump"
  /\ UNCHANGED <<service, offset, redirect_count, cancelled, result, before,
                 hops>>

(* http_transfer(): the connection is closed without a word, or the status *)
(* is an error.                                                            *)
HttpError ==
  /\ pc = "reply"
  /\ Fails
  /\ UNCHANGED redirect_count

(* get_raw_header() takes an error of read() for a byte, for ever.         *)
HeaderLost ==
  /\ pc = "reply"
  /\ pc' = "hung"
  /\ UNCHANGED <<service, fileVars, offset, outfile_size, redirect_count,
                 stream, cancelled, result, before, hops, honest>>

(* An answer without a header: its first unit is data already.  An error   *)
(* of this read() is taken for such an answer too.                         *)
NoHeader ==
  /\ pc = "reply"
  /\ \/ /\ Resume
        /\ Fails
     \/ /\ ~Resume
        /\ \E body \in {Archive, Page, << >>} :
             /\ file' = IF body = << >> THEN << >> ELSE <<Head(body)>>
             /\ stream' = SubSeq(body, 2, Len(body))
        /\ honest' = FALSE
        /\ pc' = "dump"
        /\ UNCHANGED <<service, exists, offset, outfile_size, cancelled,
                       result, before, hops>>
  /\ UNCHANGED redirect_count

(* A 3xx status with a Location: transfer() is called again.               *)
Redirected(s) ==
  /\ pc = "reply"
  /\ service' = s
  /\ redirect_count' = redirect_count + 1
  /\ hops' = hops + 1
  /\ pc' = "transfer"
  /\ UNCHANGED <<fileVars, offset, outfile_size, stream, cancelled, result,
                 before, honest>>

(* Status 416: the size in the Content-Range, if there is one, has to be   *)
(* that of the file; the page that explains the error is not told from     *)
(* data.                                                                   *)
RangePastEnd ==
  /\ pc = "reply" /\ Resume
  /\ Len(file) = Size
  /\ \E body \in {<< >>, Page}, known \in BOOLEAN :
       /\ outfile_size' = (IF known THEN Len(body) ELSE 0) + offset
       /\ stream' = body
       /\ honest' = (honest /\ body = << >>)
  /\ pc' = "dump"
  /\ UNCHANGED <<service, fileVars, offset, redirect_count, cancelled, result,
                 before, hops>>

(* Any other status: all of a copy, or what is missing of it, or a page;   *)
(* the length of the answer may be told or not.  A resumed transfer needs  *)
(* to know the size of the whole.                                          *)
Answered ==
  /\ pc = "reply"
  /\ \E copy \in {Archive, Damaged, Page}, ranged, known \in BOOLEAN :
       /\ ranged => Resume /\ offset < Len(copy)
       /\ LET body == IF ranged THEN Rest(copy) ELSE copy
              size == (IF known THEN Len(body) ELSE 0)
                        + (IF ranged THEN offset ELSE 0)
          IN \/ /\ Resume => size > 0
                /\ outfile_size' = size
                /\ stream' = body
                /\ honest' = (honest /\ copy = Archive
                                /\ (Resume => offset = Size \/ (ranged /\ known)))
                /\ pc' = "dump"
                /\ UNCHANGED <<service, fileVars, offset, cancelled, result,
                               before, hops>>
             \/ /\ Resume /\ size = 0
                /\ Fails
  /\ UNCHANGED redirect_count

(* ftp_transfer(): any answer but the expected one, and no data yet.       *)
FtpRefuses ==
  /\ pc = "login"
  /\ Fails
  /\ UNCHANGED redirect_count

(* SIZE, REST if part of the file is there, and RETR.                      *)
FtpRetrieves ==
  /\ pc = "login"
  /\ \E copy \in {Archive, Damaged}, sized \in BOOLEAN :
       /\ outfile_size' = IF sized THEN Len(copy) ELSE 0
       /\ stream' = Rest(copy)
       /\ honest' = (honest /\ copy = Archive)
  /\ OpenOutfile
  /\ pc' = "dump"
  /\ UNCHANGED <<service, offset, redirect_count, cancelled, result, before,
                 hops>>

-----------------------------------------------------------------------------
(* dump_data().                                                            *)

\* Faulty variant: the length of the answer is taken for that of the whole.
HaveHalf == outfile_size > 0 /\ offset >= outfile_size - offset

(* "You already have all of it": nothing is read.                          *)
HaveAll == outfile_size > 0 /\ offset >= outfile_size

AlreadyHave ==
  /\ pc = "dump" /\ HaveAll
  /\ Return("succeeded")
  /\ UNCHANGED <<service, fileVars, offset, outfile_size, redirect_count,
                 cancelled, before, hops, honest>>

(* progress_update() asks the callback only if the size is known.          *)
CancelSeen == cancelled /\ outfile_size > 0

(* A unit arrives and is written, or not: nobody looks at how much of it   *)
(* write() took.                                                           *)
Receive ==
  /\ pc = "dump" /\ ~HaveAll
  /\ stream # << >>
  /\ \/ /\ file' = Append(file, Head(stream))
        /\ UNCHANGED honest
     \/ /\ honest' = FALSE
        /\ UNCHANGED file
  /\ IF CancelSeen
     THEN Return("failed")
     ELSE stream' = Tail(stream) /\ UNCHANGED <<pc, result>>
  /\ UNCHANGED <<service, exists, offset, outfile_size, redirect_count,
                 cancelled, before, hops>>

(* The connection is closed, at the end of the data or before it.          *)
Closed ==
  /\ pc = "dump" /\ ~HaveAll
  /\ Return(IF CancelSeen THEN "failed" ELSE "succeeded")
  /\ honest' = (honest /\ stream = << >>)
  /\ UNCHANGED <<service, fileVars, offset, outfile_size, redirect_count,
                 cancelled, before, hops>>

(* read() or write() fails, or the user is heard while nothing arrives.    *)
Broken ==
  /\ pc = "dump" /\ ~HaveAll
  /\ Fails
  /\ UNCHANGED redirect_count

-----------------------------------------------------------------------------
(* The user is listened to where the callback is called.                   *)
Cancel ==
  /\ pc \in {"transfer", "login"} \/ (pc = "dump" /\ outfile_size > 0)
  /\ ~cancelled
  /\ cancelled' = TRUE
  /\ UNCHANGED <<pc, service, fileVars, offset, outfile_size, redirect_count,
                 stream, result, before, hops, honest>>

(* Between two calls the interface may remove the file.                    *)
Unlink ==
  /\ pc = "idle" /\ exists
  /\ exists' = FALSE
  /\ file' = << >>
  /\ result' = "none"
  /\ before' = NoFile
  /\ UNCHANGED <<pc, service, offset, outfile_size, redirect_count, stream,
                 cancelled, hops, honest>>

(* The process is killed, and another one started later.                   *)
Killed ==
  /\ pc # "idle"
  /\ Return("none")
  /\ redirect_count' = 0
  /\ UNCHANGED <<service, fileVars, offset, outfile_size, cancelled, before,
                 hops, honest>>

TransferNext ==
  \/ \E s \in Services : GetUrl(s) \/ Redirected(s)
  \/ TooManyRedirects \/ CannotBegin
  \/ ConnectHttp \/ ConnectFtp \/ OpenCopy
  \/ HttpError \/ HeaderLost \/ NoHeader \/ RangePastEnd \/ Answered
  \/ FtpRefuses \/ FtpRetrieves
  \/ AlreadyHave \/ Receive \/ Closed \/ Broken
  \/ Cancel \/ Unlink \/ Killed

TransferSpec == TransferInit /\ [][TransferNext]_vars

-----------------------------------------------------------------------------
(* Every variable has its type; redirects are counted for the process, so  *)
(* that no call follows more of them than the counter allows.              *)
TransferTypeOK ==
  /\ pc \in {"idle", "transfer", "reply", "login", "dump", "hung"}
  /\ service \in Services
  /\ {exists, cancelled, honest} \subseteq BOOLEAN
  /\ file \in Seq(0..Size) /\ stream \in Seq(0..Size)
  /\ offset \in Nat /\ outfile_size \in Nat
  /\ redirect_count \in 0..REDIRECT_MAX + 1
  /\ hops \in 0..redirect_count \/ pc = "idle"
  /\ result \in {"none", "succeeded", "failed"}
  /\ before \in [exists : BOOLEAN, file : Seq(0..Size)]

(* Nothing that was fetched is lost: from the beginning of a call on, and   *)
(* whether it goes on, succeeds, fails, is cancelled or killed, the file   *)
(* is what it was then with something, or nothing, behind it.              *)
NothingLost ==
  before.exists => exists /\ IsPrefix(before.file, file)

(* What the interfaces assume of get_url() is what it does, whatever the   *)
(* mirrors, redirects, the network and the disk do: nothing that earlier   *)
(* calls fetched is lost, not a byte of a partial or of a bad file; a call *)
(* that succeeds leaves a file, and no call makes a bad file good          *)
(* (get_url.c:259, util.c:59, util.c:167).                                 *)
FetchedAsPromised ==
  /\ NothingLost
  /\ result = "succeeded" => Content \in Fetched(Was)
  /\ result = "failed"    => Content \in Interrupted(Was)

(* An interrupted download is completed: with a mirror that answers what   *)
(* was asked and tells how long the answer is, whichever protocol it has,  *)
(* and a connection that lasts, the file is the archive after the next     *)
(* call that succeeds, and what was complete stays so (http.c:460-463,     *)
(* ftp.c:419-446, file.c:51-59, util.c:166).                               *)
HonestTransferCompletes ==
  result = "succeeded" /\ honest /\ Was # "bad" => file = Archive

(* "redirection max count exceeded (looping redirect?)": a call is refused *)
(* for its own redirects, not for those of the calls before it.            *)
RefusedForOwnRedirects == [][TooManyRedirects => hops > REDIRECT_MAX]_vars
=============================================================================
