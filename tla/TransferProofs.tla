--------------------------- MODULE TransferProofs ---------------------------
(***************************************************************************)
(* What Transfer promises for an archive and a file of any length and any  *)
(* limit of redirects.                                                     *)
(***************************************************************************)
EXTENDS Transfer, SequenceTheorems, TLAPS

(* A file that is not there is empty; one that a peer will write to is     *)
(* there.                                                                  *)
FileInv ==
  /\ ~exists => file = << >>
  /\ pc \in {"reply", "dump"} => exists

(* The offset is where the first unit of the answer will be put ...        *)
OffsetInv == pc \in {"transfer", "reply", "login"} => offset = Len(file)

(* ... which no answer has yet made a wrong one.                           *)
Fits(f) == Len(f) <= Size /\ \A i \in 1..Len(f) : f[i] = i

StillFits ==
  pc \in {"transfer", "reply", "login"} /\ Was # "bad" => Fits(file)

(* While a call lasts, the file is what Interrupted allows.                *)
StillAllowed == pc # "idle" => Content \in Interrupted(Was)

(* There is no result before the call returns.                             *)
ResultInv == pc # "idle" => result = "none"

(* The redirects are counted before they are followed.                     *)
RedirectInv == pc = "reply" => redirect_count <= REDIRECT_MAX

(* The rest of a promised answer is the rest of the archive.               *)
Completes(f, s) ==
  /\ Fits(f)
  /\ Len(f) + Len(s) = Size
  /\ \A i \in 1..Len(s) : s[i] = Len(f) + i

HonestInv ==
  pc = "dump" /\ honest /\ Was # "bad" =>
    IF HaveAll THEN file = Archive ELSE Completes(file, stream)

TransferInv ==
  /\ TransferTypeOK /\ FileInv /\ OffsetInv /\ StillFits /\ StillAllowed
  /\ NothingLost /\ ResultInv /\ RedirectInv /\ HonestInv
  /\ FetchedAsPromised /\ HonestTransferCompletes
-----------------------------------------------------------------------------
(* Content, of any file.                                                   *)
ContentAs(e, f) == ContentOf([exists |-> e, file |-> f])

LEMMA ArchiveType ==
  /\ Archive \in Seq(0..Size) /\ Len(Archive) = Size
  /\ \A i \in 1..Size : Archive[i] = i
  /\ Damaged \in Seq(0..Size) /\ Len(Damaged) = Size
  /\ Page \in Seq(0..Size) /\ Len(Page) = 1
<1>1. Size \in Nat
  BY TransferAssumption
<1>2. Archive \in [1..Size -> 0..Size] /\ Damaged \in [1..Size -> 0..Size]
  BY <1>1, TransferAssumption DEF Archive, Damaged
<1>3. Archive \in Seq(0..Size) /\ Damaged \in Seq(0..Size)
  BY <1>1, <1>2, IsASeq
<1>4. Len(Archive) = Size /\ Len(Damaged) = Size
  BY <1>1, <1>2, <1>3, LenProperties
<1>5. QED
  BY <1>1, <1>3, <1>4 DEF Archive, Page

(* A prefix of the archive, unit by unit ...                               *)
LEMMA PrefixFits ==
  ASSUME NEW f \in Seq(0..Size)
  PROVE  IsPrefix(f, Archive) <=> Fits(f)
<1>1. Size \in Nat /\ Len(f) \in Nat
  BY TransferAssumption
<1>2. SubSeq(f, 1, Len(f)) = f
  BY SubSeqFull
<1>3. ASSUME Len(f) <= Size
      PROVE  /\ SubSeq(Archive, 1, Len(f)) \in Seq(0..Size)
             /\ Len(SubSeq(Archive, 1, Len(f))) = Len(f)
             /\ \A i \in 1..Len(f) : SubSeq(Archive, 1, Len(f))[i] = i
  BY <1>1, <1>3, ArchiveType, SubSeqProperties
<1>4. ASSUME Len(f) <= Size
      PROVE  f = SubSeq(Archive, 1, Len(f)) <=> \A i \in 1..Len(f) : f[i] = i
  BY <1>1, <1>3, <1>4, SeqEqual
<1>5. QED
  BY <1>2, <1>4, ArchiveType DEF IsPrefix, Fits

(* ... and all of it.                                                      *)
LEMMA AllFits ==
  ASSUME NEW f \in Seq(0..Size)
  PROVE  f = Archive <=> Fits(f) /\ Len(f) = Size
<1>1. Size \in Nat /\ Len(f) \in Nat
  BY TransferAssumption
<1>2. QED
  BY <1>1, ArchiveType, SeqEqual DEF Fits

(* Content tells how much of the archive a file is.                        *)
LEMMA ContentFits ==
  ASSUME NEW e \in BOOLEAN, NEW f \in Seq(0..Size)
  PROVE  ContentAs(e, f) = IF ~e THEN "none"
                           ELSE IF ~Fits(f) THEN "bad"
                           ELSE IF Len(f) = Size THEN "full"
                           ELSE "part"
BY PrefixFits, AllFits DEF ContentAs, ContentOf

(* A file that grows by a unit still fits if the unit is the next one.     *)
LEMMA AppendFits ==
  ASSUME NEW f \in Seq(0..Size), NEW x \in 0..Size
  PROVE  /\ Append(f, x) \in Seq(0..Size)
         /\ Len(Append(f, x)) = Len(f) + 1
         /\ Fits(Append(f, x)) <=> Fits(f) /\ Len(f) < Size /\ x = Len(f) + 1
<1>1. Size \in Nat /\ Len(f) \in Nat
  BY TransferAssumption
<1>2. /\ Append(f, x) \in Seq(0..Size)
      /\ Len(Append(f, x)) = Len(f) + 1
      /\ \A i \in 1..Len(f) : Append(f, x)[i] = f[i]
      /\ Append(f, x)[Len(f) + 1] = x
  BY AppendProperties
<1>3. 1..Len(f) + 1 = 1..Len(f) \cup {Len(f) + 1}
  BY <1>1
<1>4. QED
  BY <1>1, <1>2, <1>3 DEF Fits

(* Interrupted is a preorder, and differs from Fetched by "none" alone.    *)
LEMMA InterruptedAgain ==
  ASSUME NEW a \in Contents
  PROVE  /\ a \in Interrupted(a)
         /\ Fetched(a) = Interrupted(a) \ {"none"}
         /\ \A b \in Interrupted(a) : /\ b \in Contents
                                      /\ Interrupted(b) \subseteq Interrupted(a)
BY DEF Contents, Interrupted, Fetched

(* Whatever unit is appended to a file that is there, the file is what     *)
(* Interrupted allows.                                                     *)
LEMMA Growing ==
  ASSUME NEW f \in Seq(0..Size), NEW x \in 0..Size
  PROVE  ContentAs(TRUE, Append(f, x)) \in Interrupted(ContentAs(TRUE, f))
<1>1. Size \in Nat /\ Len(f) \in Nat
  BY TransferAssumption
<1>2. Append(f, x) \in Seq(0..Size)
  BY AppendFits
<1>3. ContentAs(TRUE, f) = IF ~Fits(f) THEN "bad"
                           ELSE IF Len(f) = Size THEN "full" ELSE "part"
  BY ContentFits
<1>4. ContentAs(TRUE, Append(f, x)) =
        IF ~Fits(Append(f, x)) THEN "bad"
        ELSE IF Len(Append(f, x)) = Size THEN "full" ELSE "part"
  BY <1>2, ContentFits
<1>5. CASE ~Fits(f)
  BY <1>3, <1>4, <1>5, AppendFits DEF Interrupted
<1>6. CASE Fits(f) /\ Len(f) = Size
  <2>1. ~(Len(f) < Size)
    BY <1>1, <1>6
  <2>2. ~Fits(Append(f, x))
    BY <2>1, AppendFits
  <2>3. ContentAs(TRUE, f) = "full" /\ ContentAs(TRUE, Append(f, x)) = "bad"
    BY <1>3, <1>4, <1>6, <2>2
  <2>4. QED
    BY <2>3 DEF Interrupted
<1>7. CASE Fits(f) /\ Len(f) # Size
  BY <1>3, <1>4, <1>7 DEF Interrupted
<1>8. QED
  BY <1>5, <1>6, <1>7

(* What is left of the archive behind a file that fits completes it.       *)
LEMMA RestCompletes ==
  ASSUME offset \in Nat, NEW f \in Seq(0..Size), Fits(f), offset = Len(f)
  PROVE  Completes(f, Rest(Archive))
<1>1. Size \in Nat /\ Len(f) \in Nat /\ Len(f) <= Size
  BY TransferAssumption DEF Fits
<1>2. CASE Len(f) < Size
  BY <1>1, <1>2, ArchiveType, SubSeqProperties DEF Rest, Completes
<1>3. CASE Len(f) = Size
  <2>1. SubSeq(Archive, Size + 1, Size) = << >>
    BY <1>1, ArchiveType, SubSeqProperties, EmptySeq
  <2>2. QED
    BY <1>1, <1>3, <2>1, ArchiveType DEF Rest, Completes
<1>4. QED
  BY <1>1, <1>2, <1>3

(* The rest of any copy is made of units.                                  *)
LEMMA RestType ==
  ASSUME offset \in Nat, NEW c \in Seq(0..Size)
  PROVE  /\ Rest(c) \in Seq(0..Size)
         /\ offset < Len(c) => Len(Rest(c)) = Len(c) - offset
<1>1. /\ Len(c) \in Nat /\ offset + 1 \in Int /\ Len(c) \in Int
      /\ \A i \in offset + 1 .. Len(c) : c[i] \in 0..Size
  <2>1. Len(c) \in Nat /\ \A i \in 1..Len(c) : c[i] \in 0..Size
    BY LenProperties, ElementOfSeq
  <2>2. \A i \in offset + 1 .. Len(c) : i \in 1..Len(c)
    BY <2>1
  <2>3. QED
    BY <2>1, <2>2
<1>2. /\ SubSeq(c, offset + 1, Len(c)) \in Seq(0..Size)
      /\ Len(SubSeq(c, offset + 1, Len(c))) =
           IF offset + 1 <= Len(c) THEN Len(c) - (offset + 1) + 1 ELSE 0
  BY <1>1, SubSeqProperties
<1>3. /\ Rest(c) \in Seq(0..Size)
      /\ Len(Rest(c)) = IF offset + 1 <= Len(c) THEN Len(c) - (offset + 1) + 1
                        ELSE 0
  BY <1>2 DEF Rest
<1>4. QED
  BY <1>1, <1>3
-----------------------------------------------------------------------------
(* One sequence is a prefix of another, unit by unit.                      *)
LEMMA PrefixIs ==
  ASSUME NEW f \in Seq(0..Size), NEW g \in Seq(0..Size)
  PROVE  IsPrefix(f, g) <=>
           Len(f) <= Len(g) /\ \A i \in 1..Len(f) : f[i] = g[i]
<1>1. Len(f) \in Nat /\ Len(g) \in Nat
  OBVIOUS
<1>2. SubSeq(f, 1, Len(f)) = f
  BY SubSeqFull
<1>3. ASSUME Len(f) <= Len(g)
      PROVE  /\ SubSeq(g, 1, Len(f)) \in Seq(0..Size)
             /\ Len(SubSeq(g, 1, Len(f))) = Len(f)
             /\ \A i \in 1..Len(f) : SubSeq(g, 1, Len(f))[i] = g[i]
  <2>1. \A i \in 1..Len(f) : i \in 1..Len(g)
    BY <1>1, <1>3
  <2>2. \A i \in 1..Len(f) : g[i] \in 0..Size
    BY <2>1, ElementOfSeq
  <2>3. /\ SubSeq(g, 1, Len(f)) \in Seq(0..Size)
        /\ Len(SubSeq(g, 1, Len(f))) =
             IF 1 <= Len(f) THEN Len(f) - 1 + 1 ELSE 0
        /\ \A i \in 1..Len(f) - 1 + 1 : SubSeq(g, 1, Len(f))[i] = g[1 + i - 1]
    BY <1>1, <2>2, SubSeqProperties
  <2>4. QED
    BY <1>1, <2>3
<1>4. ASSUME Len(f) <= Len(g)
      PROVE  f = SubSeq(g, 1, Len(f)) <=> \A i \in 1..Len(f) : f[i] = g[i]
  BY <1>1, <1>3, <1>4, SeqEqual
<1>5. QED
  BY <1>2, <1>4 DEF IsPrefix

(* A file that is there and is left alone, or has a unit put behind it, is *)
(* still what it was when the call began, with something behind it; so is  *)
(* one that was empty.                                                     *)
LEMMA StillThere ==
  ASSUME TransferInv, UNCHANGED before, exists => exists',
         file' \in Seq(0..Size),
         \/ file' = file
         \/ file = << >>
         \/ \E x \in 0..Size : file' = Append(file, x)
  PROVE  NothingLost' /\ Was' = Was
<1>1. Was' = Was
  BY DEF Was, ContentOf
<1>2. SUFFICES ASSUME before.exists
               PROVE  exists' /\ IsPrefix(before.file, file')
  BY <1>1 DEF NothingLost
<1>3. /\ before.file \in Seq(0..Size) /\ file \in Seq(0..Size)
      /\ exists /\ IsPrefix(before.file, file)
  BY <1>2 DEF TransferInv, TransferTypeOK, NothingLost
<1>4. /\ Len(before.file) \in Nat /\ Len(file) \in Nat
      /\ Len(before.file) <= Len(file)
      /\ \A i \in 1..Len(before.file) : before.file[i] = file[i]
  BY <1>3, PrefixIs
<1>5. /\ Len(before.file) <= Len(file')
      /\ \A i \in 1..Len(before.file) : before.file[i] = file'[i]
  <2>1. CASE file' = file
    BY <1>4, <2>1
  <2>2. CASE file = << >>
    <3>1. Len(before.file) = 0
      BY <1>4, <2>2
    <3>2. QED
      BY <3>1, LenProperties
  <2>3. ASSUME NEW x \in 0..Size, file' = Append(file, x)
        PROVE  /\ Len(before.file) <= Len(file')
               /\ \A i \in 1..Len(before.file) : before.file[i] = file'[i]
    BY <1>3, <1>4, <2>3, AppendProperties
  <2>4. QED
    BY <2>1, <2>2, <2>3
<1>6. QED
  BY <1>3, <1>5, PrefixIs

(* What was there when the call began is told from what the call recorded. *)
LEMMA SameWas ==
  ASSUME UNCHANGED before
  PROVE  Was' = Was
BY DEF Was, ContentOf

(* While a call lasts, what was there when it began can still be told.     *)
LEMMA ContentNow ==
  ASSUME TransferInv
  PROVE  /\ Content = ContentAs(exists, file)
         /\ exists \in BOOLEAN /\ file \in Seq(0..Size) /\ Was \in Contents
         /\ Content \in Contents
         /\ exists => Content # "none"
         /\ Content = "bad" <=> exists /\ ~Fits(file)
<1>1. Content = ContentAs(exists, file)
  BY DEF Content, ContentAs, Now
<1>2. exists \in BOOLEAN /\ file \in Seq(0..Size) /\ Was \in Contents
  BY DEF TransferInv, TransferTypeOK, Was, ContentOf, Contents
<1>3. QED
  BY <1>1, <1>2, ContentFits DEF Contents

(* A file that is left alone is what it was.                               *)
LEMMA SameContent ==
  ASSUME UNCHANGED fileVars
  PROVE  Content' = Content
BY DEF fileVars, Content, ContentOf, Now

(* open_outfile() leaves what earlier calls fetched.                       *)
LEMMA Opened ==
  ASSUME TransferInv, pc \in {"transfer", "login"}, OpenOutfile
  PROVE  /\ exists' = TRUE /\ file' = file
         /\ Content' \in Interrupted(Was)
<1>1. /\ exists' = TRUE
      /\ file' = IF offset > 0 THEN file ELSE << >>
  BY DEF OpenOutfile, Resume
<1>2. offset = Len(file) /\ file \in Seq(0..Size)
  BY DEF TransferInv, TransferTypeOK, OffsetInv
<1>3. file' = file
  BY <1>1, <1>2, EmptySeq
<1>4. Content' = ContentAs(TRUE, file)
  BY <1>1, <1>3 DEF Content, ContentAs, Now
<1>5. Content \in Interrupted(Was)
  BY DEF TransferInv, StillAllowed
<1>6. ContentAs(TRUE, file) \in Interrupted(Content)
  <2>1. CASE exists
    BY <2>1, ContentNow, InterruptedAgain
  <2>2. CASE ~exists
    <3>1. Content = "none"
      BY <2>2 DEF Content, ContentOf, Now
    <3>2. ContentAs(TRUE, file) \in Contents
      BY <1>2, ContentFits DEF Contents
    <3>3. QED
      BY <3>1, <3>2 DEF Interrupted
  <2>3. QED
    BY <2>1, <2>2
<1>7. QED
  BY <1>1, <1>3, <1>4, <1>5, <1>6, ContentNow, InterruptedAgain

(* A call that fails without touching the file loses nothing.              *)
LEMMA FailsInv ==
  ASSUME TransferInv, pc # "idle", Fails, redirect_count' \in {0, redirect_count}
  PROVE  TransferInv'
<1> USE DEF Fails, Return, fileVars
<1>1. TransferTypeOK'
  BY TransferAssumption, EmptySeq DEF TransferInv, TransferTypeOK
<1>2. NothingLost' /\ Was' = Was
  BY StillThere DEF TransferInv, TransferTypeOK
<1>3. Content' \in Interrupted(Was')
  BY <1>2, SameContent DEF TransferInv, StillAllowed
<1>4. FetchedAsPromised'
  BY <1>2, <1>3 DEF FetchedAsPromised
<1>5. QED
  BY <1>1, <1>2, <1>3, <1>4
     DEF TransferInv, FileInv, OffsetInv, StillFits, StillAllowed, ResultInv,
         RedirectInv, HonestInv, HonestTransferCompletes

(* The invariant holds when nothing has been fetched.                      *)
LEMMA TransferInitInv ==
  TransferInit => TransferInv
<1> SUFFICES ASSUME TransferInit PROVE TransferInv
  OBVIOUS
<1> USE DEF TransferInit
<1>1. TransferTypeOK
  <2>1. file \in Seq(0..Size) /\ stream \in Seq(0..Size)
    BY EmptySeq
  <2>2. {exists, cancelled, honest} \subseteq BOOLEAN
    OBVIOUS
  <2>3. service \in Services /\ before \in [exists : BOOLEAN, file : Seq(0..Size)]
    BY EmptySeq DEF Services, NoFile
  <2>4. redirect_count \in 0..REDIRECT_MAX + 1
    BY TransferAssumption
  <2>5. QED
    BY <2>1, <2>2, <2>3, <2>4 DEF TransferTypeOK
<1>2. QED
  BY <1>1, EmptySeq
     DEF TransferInv, FileInv, OffsetInv, StillFits, StillAllowed, NothingLost,
         NoFile, ResultInv, RedirectInv, HonestInv, FetchedAsPromised,
         HonestTransferCompletes

(* A call begins with what the file is.                                    *)
LEMMA GetUrlInv ==
  ASSUME TransferInv, NEW s \in Services, GetUrl(s)
  PROVE  TransferInv'
<1> USE DEF GetUrl, fileVars
<1>1. Len(file) \in Nat /\ file \in Seq(0..Size) /\ exists \in BOOLEAN
  BY DEF TransferInv, TransferTypeOK
<1>2. Content' = Content
  BY SameContent
<1>3. Content \in Contents /\ Content \in Interrupted(Content) /\ Was' = Content
  BY ContentNow, InterruptedAgain DEF Was, Content, Now
<1>4. TransferTypeOK'
  <2>1. file' \in Seq(0..Size) /\ stream' \in Seq(0..Size)
    BY <1>1, EmptySeq
  <2>2. {exists, cancelled, honest}' \subseteq BOOLEAN
    BY DEF TransferInv, TransferTypeOK
  <2>3. /\ service' \in Services
        /\ before' \in [exists : BOOLEAN, file : Seq(0..Size)]
    BY <1>1 DEF Now
  <2>4. redirect_count' \in 0..REDIRECT_MAX + 1 /\ hops' \in 0..redirect_count'
    BY TransferAssumption DEF TransferInv, TransferTypeOK
  <2>5. QED
    BY <1>1, <2>1, <2>2, <2>3, <2>4 DEF TransferTypeOK
<1>5. Content # "bad" => Fits(file)
  <2>1. CASE exists
    BY <2>1, ContentNow
  <2>2. CASE ~exists
    BY <2>2, TransferAssumption, EmptySeq DEF TransferInv, FileInv, Fits
  <2>3. QED
    BY <2>1, <2>2
<1>6. StillFits'
  BY <1>3, <1>5 DEF StillFits, Fits
<1>7. NothingLost'
  BY <1>1, PrefixIs DEF NothingLost, Now
<1>8. QED
  BY <1>2, <1>3, <1>4, <1>6, <1>7
     DEF TransferInv, FileInv, OffsetInv, StillAllowed, ResultInv,
         RedirectInv, HonestInv, FetchedAsPromised, HonestTransferCompletes

(* What only opens a connection leaves the file alone.                     *)
LEMMA ConnectInv ==
  ASSUME TransferInv, ConnectHttp \/ ConnectFtp
  PROVE  TransferInv'
<1> USE DEF ConnectHttp, ConnectFtp, Called, LateClick, fileVars
<1>1. exists' \in BOOLEAN /\ (exists \/ pc' = "reply" => exists') /\ file' = file
  <2>1. CASE ConnectHttp
    BY <2>1, Opened
  <2>2. CASE ConnectFtp
    BY <2>2 DEF TransferInv, TransferTypeOK
  <2>3. QED
    BY <2>1, <2>2
<1>2. TransferTypeOK'
  BY <1>1 DEF TransferInv, TransferTypeOK
<1>3. Content' \in Interrupted(Was)
  BY Opened, SameContent DEF TransferInv, StillAllowed
<1>4. NothingLost' /\ Was' = Was
  BY <1>1, StillThere, Opened DEF TransferInv, TransferTypeOK
<1>5. StillFits'
  BY <1>1, <1>4 DEF TransferInv, StillFits, Fits
<1>6. RedirectInv'
  BY DEF TransferInv, RedirectInv
<1>7. QED
  BY <1>1, <1>2, <1>3, <1>4, <1>5, <1>6
     DEF TransferInv, FileInv, OffsetInv, StillAllowed, ResultInv,
         HonestInv, FetchedAsPromised, HonestTransferCompletes

(* So does waiting for a reply that never ends, and going on where it      *)
(* redirects to.                                                           *)
LEMMA ReplyInv ==
  ASSUME TransferInv,
         HeaderLost \/ \E s \in Services : Redirected(s)
  PROVE  TransferInv'
<1> USE DEF HeaderLost, Redirected, fileVars
<1>1. TransferTypeOK'
  BY TransferAssumption DEF TransferInv, TransferTypeOK, RedirectInv
<1>2. Content' \in Interrupted(Was)
  BY SameContent DEF TransferInv, StillAllowed
<1>3. NothingLost' /\ Was' = Was
  BY StillThere DEF TransferInv, TransferTypeOK
<1>4. StillFits'
  BY <1>3 DEF TransferInv, StillFits, Fits
<1>5. QED
  BY <1>1, <1>2, <1>3, <1>4
     DEF TransferInv, FileInv, OffsetInv, StillAllowed, ResultInv,
         RedirectInv, HonestInv, FetchedAsPromised, HonestTransferCompletes

(* The user and the interface change nothing that was promised.            *)
LEMMA OutsideInv ==
  ASSUME TransferInv, Cancel \/ Unlink \/ Killed
  PROVE  TransferInv'
<1> USE DEF fileVars
<1>1. ASSUME Cancel PROVE TransferInv'
  <2> USE <1>1 DEF Cancel
  <2>1. TransferTypeOK'
    BY DEF TransferInv, TransferTypeOK
  <2>2. Content' = Content /\ (Fits(file) <=> Fits(file'))
    BY SameContent DEF Fits
  <2>3. NothingLost' /\ Was' = Was
    BY StillThere DEF TransferInv, TransferTypeOK
  <2>4. HonestInv'
    BY <2>2, <2>3 DEF TransferInv, HonestInv, HaveAll, Completes
  <2>5. QED
    BY <2>1, <2>2, <2>3, <2>4
       DEF TransferInv, FileInv, OffsetInv, StillFits, StillAllowed, ResultInv,
           RedirectInv, FetchedAsPromised, HonestTransferCompletes
<1>2. ASSUME Unlink PROVE TransferInv'
  <2> USE <1>2 DEF Unlink
  <2>1. TransferTypeOK'
    <3>1. << >> \in Seq(0..Size) /\ NoFile \in [exists : BOOLEAN, file : Seq(0..Size)]
      BY EmptySeq DEF NoFile
    <3>2. QED
      BY <3>1 DEF TransferInv, TransferTypeOK
  <2>2. NothingLost'
    BY DEF NothingLost, NoFile
  <2>3. QED
    BY <2>1, <2>2
       DEF TransferInv, FileInv, OffsetInv, StillFits, StillAllowed, ResultInv,
           RedirectInv, HonestInv, FetchedAsPromised, HonestTransferCompletes
<1>3. ASSUME Killed PROVE TransferInv'
  <2> USE <1>3 DEF Killed, Return
  <2>1. TransferTypeOK'
    BY TransferAssumption, EmptySeq DEF TransferInv, TransferTypeOK
  <2>2. NothingLost'
    BY StillThere DEF TransferInv, TransferTypeOK
  <2>3. QED
    BY <2>1, <2>2
       DEF TransferInv, FileInv, OffsetInv, StillFits, StillAllowed, ResultInv,
           RedirectInv, HonestInv, FetchedAsPromised, HonestTransferCompletes
<1>4. QED
  BY <1>1, <1>2, <1>3

(* Nor does a call that gives up before it has data, or loses its peer.    *)
LEMMA GiveUpInv ==
  ASSUME TransferInv,
         \/ TooManyRedirects \/ CannotBegin \/ HttpError \/ FtpRefuses
         \/ Broken
  PROVE  TransferInv'
<1>1. pc # "idle" /\ Fails
  BY DEF TooManyRedirects, CannotBegin, Called, HttpError, FtpRefuses, Broken
<1>2. redirect_count' \in {0, redirect_count}
  BY DEF TooManyRedirects, CannotBegin, HttpError, FtpRefuses, Broken
<1>3. QED
  BY <1>1, <1>2, FailsInv

(* Where the data of a file that has not changed comes from, and what is   *)
(* promised of it, is all there is to prove of an answer.                  *)
LEMMA DataInv ==
  ASSUME TransferInv, pc # "idle", pc' = "dump",
         exists' = TRUE, file' = file, Content' \in Interrupted(Was),
         stream' \in Seq(0..Size), outfile_size' \in Nat, honest' \in BOOLEAN,
         UNCHANGED <<service, offset, redirect_count, cancelled, result,
                     before, hops>>,
         honest' /\ Was # "bad" =>
           IF HaveAll' THEN file = Archive ELSE Completes(file, stream')
  PROVE  TransferInv'
<1>1. TransferTypeOK'
  BY DEF TransferInv, TransferTypeOK
<1>2. NothingLost' /\ Was' = Was
  BY StillThere DEF TransferInv, TransferTypeOK
<1>3. HonestInv'
  BY <1>2 DEF HonestInv, Completes, Fits
<1>4. QED
  BY <1>1, <1>2, <1>3
     DEF TransferInv, FileInv, OffsetInv, StillFits, StillAllowed, ResultInv,
         RedirectInv, FetchedAsPromised, HonestTransferCompletes

(* A copy that is the archive, continued where the file ends, completes it *)
(* - or the file was complete.                                             *)
LEMMA ContinueArchive ==
  ASSUME TransferInv, pc \in {"transfer", "reply", "login"}, Was # "bad",
         stream' = Rest(Archive), outfile_size' \in {0, Size},
         UNCHANGED offset
  PROVE  IF HaveAll' THEN file = Archive ELSE Completes(file, stream')
<1>1. Fits(file) /\ offset = Len(file) /\ offset \in Nat /\ file \in Seq(0..Size)
  BY DEF TransferInv, TransferTypeOK, StillFits, OffsetInv
<1>2. Completes(file, stream')
  BY <1>1, RestCompletes
<1>3. Size \in Nat \ {0} /\ Len(file) <= Size
  BY <1>1, TransferAssumption DEF Fits
<1>4. HaveAll' => Len(file) = Size
  BY <1>1, <1>3 DEF HaveAll
<1>5. QED
  BY <1>1, <1>2, <1>4, AllFits

(* A local copy is such a copy ...                                         *)
LEMMA OpenCopyInv ==
  ASSUME TransferInv, OpenCopy
  PROVE  TransferInv'
<1> USE DEF OpenCopy, Called
<1>1. PICK copy \in {Archive, Damaged} :
        /\ outfile_size' = Len(copy)
        /\ stream' = Rest(copy)
        /\ honest' = (honest /\ copy = Archive)
  OBVIOUS
<1>2. exists' = TRUE /\ file' = file /\ Content' \in Interrupted(Was)
  BY Opened
<1>3. /\ offset \in Nat /\ copy \in Seq(0..Size) /\ Len(copy) = Size
      /\ Size \in Nat
  BY ArchiveType, TransferAssumption DEF TransferInv, TransferTypeOK
<1>4. stream' \in Seq(0..Size) /\ outfile_size' \in Nat
  BY <1>1, <1>3, RestType
<1>5. honest' \in BOOLEAN
  BY <1>1 DEF TransferInv, TransferTypeOK
<1>6. honest' /\ Was # "bad" =>
        IF HaveAll' THEN file = Archive ELSE Completes(file, stream')
  BY <1>1, <1>3, ContinueArchive
<1>7. QED
  BY <1>2, <1>4, <1>5, <1>6, DataInv

(* ... and so is one that ftp_transfer() retrieves, its size known or not. *)
LEMMA FtpRetrievesInv ==
  ASSUME TransferInv, FtpRetrieves
  PROVE  TransferInv'
<1> USE DEF FtpRetrieves
<1>1. PICK copy \in {Archive, Damaged}, sized \in BOOLEAN :
        /\ outfile_size' = IF sized THEN Len(copy) ELSE 0
        /\ stream' = Rest(copy)
        /\ honest' = (honest /\ copy = Archive)
  OBVIOUS
<1>2. exists' = TRUE /\ file' = file /\ Content' \in Interrupted(Was)
  BY Opened
<1>3. /\ offset \in Nat /\ copy \in Seq(0..Size) /\ Len(copy) = Size
      /\ Size \in Nat
  BY ArchiveType, TransferAssumption DEF TransferInv, TransferTypeOK
<1>4. stream' \in Seq(0..Size) /\ outfile_size' \in Nat
  BY <1>1, <1>3, RestType
<1>5. honest' \in BOOLEAN
  BY <1>1 DEF TransferInv, TransferTypeOK
<1>6. honest' /\ Was # "bad" =>
        IF HaveAll' THEN file = Archive ELSE Completes(file, stream')
  BY <1>1, <1>3, ContinueArchive
<1>7. QED
  BY <1>2, <1>4, <1>5, <1>6, DataInv

(* When nothing is left to ask for, nothing that is promised arrives.      *)
LEMMA RangePastEndInv ==
  ASSUME TransferInv, RangePastEnd
  PROVE  TransferInv'
<1> USE DEF RangePastEnd, fileVars
<1>1. PICK body \in {<< >>, Page}, known \in BOOLEAN :
        /\ outfile_size' = (IF known THEN Len(body) ELSE 0) + offset
        /\ stream' = body
        /\ honest' = (honest /\ body = << >>)
  OBVIOUS
<1>2. /\ offset \in Nat /\ file \in Seq(0..Size) /\ offset = Len(file)
      /\ Size \in Nat \ {0} /\ offset = Size
  BY TransferAssumption DEF TransferInv, TransferTypeOK, OffsetInv
<1>3. body \in Seq(0..Size) /\ Len(body) \in Nat
  BY EmptySeq, ArchiveType, LenProperties
<1>4. exists' = TRUE /\ file' = file /\ Content' \in Interrupted(Was)
  BY SameContent DEF TransferInv, FileInv, TransferTypeOK, StillAllowed
<1>5. stream' \in Seq(0..Size) /\ outfile_size' \in Nat /\ honest' \in BOOLEAN
  BY <1>1, <1>2, <1>3 DEF TransferInv, TransferTypeOK
<1>6. ASSUME honest', Was # "bad"
      PROVE  HaveAll' /\ file = Archive
  <2>1. body = << >> /\ Len(body) = 0
    BY <1>1, <1>6, EmptySeq
  <2>2. outfile_size' = offset /\ offset' = offset
    BY <1>1, <1>2, <2>1
  <2>3. HaveAll'
    BY <1>2, <2>2 DEF HaveAll
  <2>4. Fits(file)
    BY <1>6 DEF TransferInv, StillFits
  <2>5. QED
    BY <1>2, <2>3, <2>4, AllFits
<1>7. QED
  BY <1>4, <1>5, <1>6, DataInv

(* An answer is what the copy is from where the file ends, or from where   *)
(* the peer likes; only the former is promised to be of use.               *)
LEMMA AnsweredInv ==
  ASSUME TransferInv, Answered
  PROVE  TransferInv'
<1> USE DEF fileVars
<1>1. PICK copy \in {Archive, Damaged, Page}, ranged \in BOOLEAN, known \in BOOLEAN :
        /\ ranged => Resume /\ offset < Len(copy)
        /\ LET body == IF ranged THEN Rest(copy) ELSE copy
               size == (IF known THEN Len(body) ELSE 0)
                         + (IF ranged THEN offset ELSE 0)
           IN \/ /\ Resume => size > 0
                 /\ outfile_size' = size
                 /\ stream' = body
                 /\ honest' = (honest /\ copy = Archive
                                 /\ (Resume => offset = Size \/ (ranged /\ known)))
                 /\ pc' = "dump"
                 /\ UNCHANGED <<service, fileVars, offset, cancelled, result,
                                before, hops>>
              \/ /\ Resume /\ size = 0
                 /\ Fails
  BY DEF Answered
<1> DEFINE body == IF ranged THEN Rest(copy) ELSE copy
           size == (IF known THEN Len(body) ELSE 0)
                     + (IF ranged THEN offset ELSE 0)
<1>2. pc = "reply" /\ UNCHANGED redirect_count
  BY DEF Answered
<1>3. CASE Fails
  BY <1>2, <1>3, FailsInv
<1>4. ASSUME Resume => size > 0, outfile_size' = size, stream' = body,
             honest' = (honest /\ copy = Archive
                          /\ (Resume => offset = Size \/ (ranged /\ known))),
             pc' = "dump",
             UNCHANGED <<service, fileVars, offset, cancelled, result, before,
                         hops>>
      PROVE  TransferInv'
  <2>1. /\ offset \in Nat /\ file \in Seq(0..Size) /\ offset = Len(file)
        /\ Size \in Nat \ {0} /\ copy \in Seq(0..Size) /\ Len(copy) \in Nat
    BY <1>2, TransferAssumption, ArchiveType, LenProperties
       DEF TransferInv, TransferTypeOK, OffsetInv
  <2>2. body \in Seq(0..Size) /\ (ranged => Len(body) = Len(copy) - offset)
    BY <1>1, <2>1, RestType
  <2>3. Len(body) \in Nat
    BY <2>2, LenProperties
  <2>4. size \in Nat
    <3>1. (IF known THEN Len(body) ELSE 0) \in Nat
      BY <2>3
    <3>2. (IF ranged THEN offset ELSE 0) \in Nat
      BY <2>1
    <3>3. QED
      BY <3>1, <3>2
  <2>5. exists' = TRUE /\ file' = file /\ Content' \in Interrupted(Was)
    BY <1>2, <1>4, SameContent
       DEF TransferInv, FileInv, TransferTypeOK, StillAllowed
  <2>6. stream' \in Seq(0..Size) /\ outfile_size' \in Nat /\ honest' \in BOOLEAN
    BY <1>4, <2>2, <2>4 DEF TransferInv, TransferTypeOK
  <2>7. ASSUME honest', Was # "bad"
        PROVE  IF HaveAll' THEN file = Archive ELSE Completes(file, stream')
    <3>1. Fits(file) /\ copy = Archive /\ Len(copy) = Size
      BY <1>2, <1>4, <2>7, ArchiveType DEF TransferInv, StillFits
    <3>2. CASE ~Resume
      <4>1. offset = 0 /\ ~ranged
        BY <1>1, <2>1, <3>2 DEF Resume
      <4>2. ~HaveAll'
        BY <1>4, <2>1, <4>1 DEF HaveAll
      <4>3. Rest(Archive) = Archive
        BY <3>1, <4>1, ArchiveType, SubSeqFull DEF Rest
      <4>4. QED
        BY <1>4, <2>1, <3>1, <4>1, <4>2, <4>3, RestCompletes
    <3>3. CASE Resume /\ offset = Size
      <4>1. ~ranged
        BY <1>1, <2>1, <3>1, <3>3
      <4>2. outfile_size' = Size
        BY <1>4, <2>1, <3>1, <3>3, <4>1
      <4>3. HaveAll'
        <5>1. offset' = Size
          BY <1>4, <3>3
        <5>2. QED
          BY <2>1, <4>2, <5>1 DEF HaveAll
      <4>4. QED
        BY <2>1, <3>1, <3>3, <4>3, AllFits
    <3>4. CASE Resume /\ offset # Size /\ ranged /\ known
      <4>1. stream' = Rest(Archive)
        BY <1>4, <3>1, <3>4
      <4>2. outfile_size' = Size
        BY <1>4, <2>1, <2>2, <3>1, <3>4
      <4>3. QED
        BY <1>2, <1>4, <2>7, <4>1, <4>2, ContinueArchive
    <3>5. QED
      BY <1>4, <2>7, <3>2, <3>3, <3>4
  <2>8. QED
    BY <1>2, <1>4, <2>5, <2>6, <2>7, DataInv
<1>5. QED
  BY <1>1, <1>3, <1>4

(* An answer without a header may be anything, and nothing is promised.    *)
LEMMA NoHeaderInv ==
  ASSUME TransferInv, NoHeader
  PROVE  TransferInv'
<1> USE DEF NoHeader
<1>1. CASE Fails
  BY <1>1, FailsInv
<1>2. ASSUME ~Resume, NEW body \in {Archive, Page, << >>},
             file' = (IF body = << >> THEN << >> ELSE <<Head(body)>>),
             stream' = SubSeq(body, 2, Len(body)),
             honest' = FALSE, pc' = "dump",
             UNCHANGED <<service, exists, offset, outfile_size, cancelled,
                         result, before, hops>>
      PROVE  TransferInv'
  <2>1. /\ offset \in Nat /\ file \in Seq(0..Size) /\ offset = Len(file)
        /\ exists = TRUE
    BY DEF TransferInv, TransferTypeOK, OffsetInv, FileInv
  <2>2. file = << >>
    BY <1>2, <2>1, EmptySeq DEF Resume
  <2>3. body \in Seq(0..Size)
    BY ArchiveType, EmptySeq
  <2>4. /\ file' \in Seq(0..Size)
        /\ Content' \in Interrupted(Content)
    <3>1. CASE body = << >>
      BY <1>2, <2>1, <2>2, <3>1, ContentNow, InterruptedAgain, SameContent
         DEF fileVars
    <3>2. CASE body # << >>
      <4>1. Head(body) \in 0..Size
        BY <2>3, <3>2, HeadTailProperties
      <4>2. file' = Append(file, Head(body))
        BY <1>2, <2>2, <3>2
      <4>3. Append(file, Head(body)) \in Seq(0..Size)
        BY <2>1, <4>1, AppendFits
      <4>4. ContentAs(TRUE, file') \in Interrupted(ContentAs(TRUE, file))
        BY <2>1, <4>1, <4>2, Growing
      <4>5. Content = ContentAs(TRUE, file) /\ Content' = ContentAs(TRUE, file')
        BY <1>2, <2>1 DEF Content, ContentAs, Now
      <4>6. QED
        BY <4>2, <4>3, <4>4, <4>5
    <3>3. QED
      BY <3>1, <3>2
  <2>5. stream' \in Seq(0..Size)
    <3>1. \A i \in 2..Len(body) : body[i] \in 0..Size
      <4>1. Len(body) \in Nat /\ \A i \in 1..Len(body) : body[i] \in 0..Size
        BY <2>3, LenProperties, ElementOfSeq
      <4>2. \A i \in 2..Len(body) : i \in 1..Len(body)
        BY <4>1
      <4>3. QED
        BY <4>1, <4>2
    <3>2. Len(body) \in Int
      BY <2>3, LenProperties
    <3>3. QED
      BY <1>2, <3>1, <3>2, SubSeqProperties
  <2>6. Content' \in Interrupted(Was)
    BY <2>4, ContentNow, InterruptedAgain DEF TransferInv, StillAllowed
  <2>7. TransferTypeOK'
    BY <1>2, <2>4, <2>5 DEF TransferInv, TransferTypeOK
  <2>8. NothingLost' /\ Was' = Was
    BY <1>2, <2>1, <2>2, <2>4, StillThere
  <2>9. QED
    BY <1>2, <2>1, <2>6, <2>7, <2>8
       DEF TransferInv, FileInv, OffsetInv, StillFits, StillAllowed, ResultInv,
           RedirectInv, HonestInv, FetchedAsPromised, HonestTransferCompletes
<1>3. QED
  BY <1>1, <1>2
-----------------------------------------------------------------------------
(* What is already complete is returned as it is.                          *)
LEMMA AlreadyHaveInv ==
  ASSUME TransferInv, AlreadyHave
  PROVE  TransferInv'
<1> USE DEF AlreadyHave, Return, fileVars
<1>1. TransferTypeOK'
  BY EmptySeq DEF TransferInv, TransferTypeOK
<1>2. Content' = Content /\ Content \in Interrupted(Was) /\ Content # "none"
  BY SameContent, ContentNow DEF TransferInv, StillAllowed, FileInv
<1>3. NothingLost' /\ Was' = Was
  BY StillThere DEF TransferInv, TransferTypeOK
<1>4. FetchedAsPromised'
  BY <1>2, <1>3, ContentNow, InterruptedAgain DEF FetchedAsPromised
<1>5. HonestTransferCompletes'
  BY <1>3 DEF TransferInv, HonestInv, HonestTransferCompletes
<1>6. QED
  BY <1>1, <1>2, <1>3, <1>4, <1>5
     DEF TransferInv, FileInv, OffsetInv, StillFits, StillAllowed, ResultInv,
         RedirectInv, HonestInv

(* A unit that arrives makes the file longer, or is lost; what still fits  *)
(* after that was the next unit of the archive.                            *)
LEMMA ReceiveInv ==
  ASSUME TransferInv, Receive
  PROVE  TransferInv'
<1> DEFINE x == Head(stream)
<1>1. /\ pc = "dump" /\ ~HaveAll /\ exists = TRUE /\ stream # << >>
      /\ stream \in Seq(0..Size) /\ file \in Seq(0..Size)
      /\ \/ file' = Append(file, x) /\ honest' = honest
         \/ file' = file /\ honest' = FALSE
      /\ \/ pc' = "idle" /\ result' = "failed" /\ stream' = << >>
         \/ pc' = pc /\ result' = result /\ stream' = Tail(stream)
      /\ UNCHANGED <<service, exists, offset, outfile_size, redirect_count,
                     cancelled, before, hops>>
  BY DEF TransferInv, TransferTypeOK, FileInv, Receive, Return
<1>2. /\ x \in 0..Size /\ Tail(stream) \in Seq(0..Size)
      /\ Len(stream) \in Nat \ {0} /\ Len(Tail(stream)) = Len(stream) - 1
      /\ x = stream[1]
      /\ \A i \in 1..Len(Tail(stream)) : Tail(stream)[i] = stream[i + 1]
  <2>1. /\ x \in 0..Size /\ Tail(stream) \in Seq(0..Size)
        /\ Len(Tail(stream)) = Len(stream) - 1
        /\ \A i \in 1..Len(Tail(stream)) : Tail(stream)[i] = stream[i + 1]
    BY <1>1, HeadTailProperties
  <2>2. Len(stream) \in Nat \ {0}
    BY <1>1, EmptySeq
  <2>3. x = stream[1]
    BY <1>1
  <2>4. QED
    BY <2>1, <2>2, <2>3
<1> HIDE DEF x
<1>3. /\ file' \in Seq(0..Size) /\ stream' \in Seq(0..Size)
  <2>1. Append(file, x) \in Seq(0..Size)
    BY <1>1, <1>2, AppendFits
  <2>2. << >> \in Seq(0..Size)
    BY EmptySeq
  <2>3. QED
    BY <1>1, <1>2, <2>1, <2>2
<1>4. TransferTypeOK'
  BY <1>1, <1>3 DEF TransferInv, TransferTypeOK
<1>5. Content' \in Interrupted(Was)
  <2>1. Content' \in Interrupted(Content)
    <3>1. CASE file' = Append(file, x)
      <4>1. ContentAs(TRUE, file') \in Interrupted(ContentAs(TRUE, file))
        BY <1>1, <1>2, <3>1, Growing
      <4>2. Content = ContentAs(TRUE, file) /\ Content' = ContentAs(TRUE, file')
        BY <1>1 DEF Content, ContentAs, Now
      <4>3. QED
        BY <4>1, <4>2
    <3>2. CASE file' = file
      BY <1>1, <3>2, ContentNow, InterruptedAgain, SameContent DEF fileVars
    <3>3. QED
      BY <1>1, <3>1, <3>2
  <2>2. QED
    BY <1>1, <2>1, ContentNow, InterruptedAgain DEF TransferInv, StillAllowed
<1>6. NothingLost' /\ Was' = Was
  BY <1>1, <1>2, <1>3, StillThere
<1>7. FetchedAsPromised'
  BY <1>1, <1>5, <1>6 DEF FetchedAsPromised, TransferInv, ResultInv
<1>8. HonestInv'
  <2>1. SUFFICES ASSUME pc' = "dump", honest', Was # "bad"
                 PROVE  ~HaveAll' /\ Completes(file', stream')
    BY <1>1, <1>6 DEF HonestInv
  <2>2. Completes(file, stream)
    BY <1>1, <2>1 DEF TransferInv, HonestInv
  <2>3. file' = Append(file, x) /\ stream' = Tail(stream) /\ ~HaveAll'
    BY <1>1, <2>1 DEF HaveAll
  <2>4. /\ Len(file) \in Nat /\ Size \in Nat /\ Fits(file)
        /\ Len(file) + Len(stream) = Size
        /\ \A i \in 1..Len(stream) : stream[i] = Len(file) + i
    BY <1>1, <2>2, TransferAssumption, LenProperties DEF Completes
  <2>5. x = Len(file) + 1 /\ Len(file) < Size
    BY <1>2, <2>4
  <2>6. Fits(file') /\ Len(file') = Len(file) + 1
    BY <1>1, <1>2, <2>3, <2>4, <2>5, AppendFits
  <2>7. \A i \in 1..Len(Tail(stream)) : Tail(stream)[i] = Len(file) + 1 + i
    BY <1>2, <2>4
  <2>8. /\ Len(file') + Len(stream') = Size
        /\ \A i \in 1..Len(stream') : stream'[i] = Len(file') + i
    <3>1. Len(file) + 1 + Len(Tail(stream)) = Size
      BY <1>2, <2>4
    <3>2. stream' = Tail(stream) /\ Len(file') = Len(file) + 1
      BY <2>3, <2>6
    <3>3. QED
      BY <2>7, <3>1, <3>2
  <2>9. QED
    BY <2>3, <2>6, <2>8 DEF Completes
<1>9. QED
  BY <1>1, <1>4, <1>5, <1>6, <1>7, <1>8
     DEF TransferInv, FileInv, OffsetInv, StillFits, StillAllowed, ResultInv,
         RedirectInv, HonestTransferCompletes

(* The end of the connection is the end of the file: the archive is whole  *)
(* when all that was promised has come.                                    *)
LEMMA ClosedInv ==
  ASSUME TransferInv, Closed
  PROVE  TransferInv'
<1> USE DEF Closed, Return, fileVars
<1>1. TransferTypeOK'
  BY EmptySeq DEF TransferInv, TransferTypeOK
<1>2. Content' = Content /\ Content \in Interrupted(Was) /\ Content # "none"
  BY SameContent, ContentNow DEF TransferInv, StillAllowed, FileInv
<1>3. NothingLost' /\ Was' = Was
  BY StillThere DEF TransferInv, TransferTypeOK
<1>4. FetchedAsPromised'
  BY <1>2, <1>3, ContentNow, InterruptedAgain DEF FetchedAsPromised
<1>5. HonestTransferCompletes'
  <2>1. SUFFICES ASSUME honest, stream = << >>, Was # "bad"
                 PROVE  file = Archive
    BY <1>3 DEF HonestTransferCompletes
  <2>2. Completes(file, << >>)
    BY <2>1 DEF TransferInv, HonestInv
  <2>3. Fits(file) /\ Len(file) = Size /\ file \in Seq(0..Size)
    BY <2>2, EmptySeq DEF Completes, TransferInv, TransferTypeOK
  <2>4. QED
    BY <2>3, AllFits
<1>6. QED
  BY <1>1, <1>2, <1>3, <1>4, <1>5
     DEF TransferInv, FileInv, OffsetInv, StillFits, StillAllowed, ResultInv,
         RedirectInv, HonestInv
-----------------------------------------------------------------------------
(* Every step of a download keeps the invariant.                           *)
LEMMA TransferNextInv ==
  TransferInv /\ [TransferNext]_vars => TransferInv'
<1> SUFFICES ASSUME TransferInv, [TransferNext]_vars
             PROVE  TransferInv'
  OBVIOUS
<1>1. ASSUME NEW s \in Services, GetUrl(s) PROVE TransferInv'
  BY <1>1, GetUrlInv
<1>2. ASSUME HeaderLost \/ \E s \in Services : Redirected(s) PROVE TransferInv'
  BY <1>2, ReplyInv
<1>3. CASE \/ TooManyRedirects \/ CannotBegin \/ HttpError \/ FtpRefuses
           \/ Broken
  BY <1>3, GiveUpInv
<1>4. CASE ConnectHttp \/ ConnectFtp
  BY <1>4, ConnectInv
<1>5. CASE OpenCopy
  BY <1>5, OpenCopyInv
<1>6. CASE FtpRetrieves
  BY <1>6, FtpRetrievesInv
<1>7. CASE RangePastEnd
  BY <1>7, RangePastEndInv
<1>8. CASE Answered
  BY <1>8, AnsweredInv
<1>9. CASE NoHeader
  BY <1>9, NoHeaderInv
<1>10. CASE AlreadyHave
  BY <1>10, AlreadyHaveInv
<1>11. CASE Receive
  BY <1>11, ReceiveInv
<1>12. CASE Closed
  BY <1>12, ClosedInv
<1>13. CASE Cancel \/ Unlink \/ Killed
  BY <1>13, OutsideInv
<1>14. CASE UNCHANGED vars
  <2> USE <1>14 DEF vars, fileVars
  <2>1. TransferTypeOK'
    BY DEF TransferInv, TransferTypeOK
  <2>2. Content' = Content /\ (Fits(file) <=> Fits(file'))
    BY SameContent DEF Fits
  <2>3. NothingLost' /\ Was' = Was
    BY StillThere DEF TransferInv, TransferTypeOK
  <2>4. HonestInv'
    BY <2>2, <2>3 DEF TransferInv, HonestInv, HaveAll, Completes
  <2>5. QED
    BY <2>1, <2>2, <2>3, <2>4
       DEF TransferInv, FileInv, OffsetInv, StillFits, StillAllowed, ResultInv,
           RedirectInv, FetchedAsPromised, HonestTransferCompletes
<1>15. QED
  BY <1>1, <1>2, <1>3, <1>4, <1>5, <1>6, <1>7, <1>8, <1>9, <1>10, <1>11,
     <1>12, <1>13, <1>14 DEF TransferNext

(* No call follows more redirects than the counter allows, and every       *)
(* variable has its type, however long the archive is (http.c:271-275).    *)
THEOREM TransferTypeCorrect == TransferSpec => []TransferTypeOK
<1>1. TransferInv => TransferTypeOK
  BY DEF TransferInv
<1>2. QED
  BY TransferInitInv, TransferNextInv, <1>1, PTL DEF TransferSpec

(* What the interfaces assume of get_url() holds whatever the mirrors, the *)
(* network and the disk do, for an archive of any length: not a byte of    *)
(* what was there when a call began is lost before the interface itself    *)
(* removes the file, a call that succeeds leaves a file, and no call makes *)
(* a bad file good (get_url.c:259, util.c:59).                             *)
THEOREM TransfersKeepTheirPromise == TransferSpec => []FetchedAsPromised
<1>1. TransferInv => FetchedAsPromised
  BY DEF TransferInv
<1>2. QED
  BY TransferInitInv, TransferNextInv, <1>1, PTL DEF TransferSpec

(* A download that was interrupted anywhere, and went from protocol to     *)
(* protocol, is whole after a call that met no fault and only answers to   *)
(* what was asked (http.c:460-463, ftp.c:419-446, file.c:51-59).           *)
THEOREM HonestTransfersComplete == TransferSpec => []HonestTransferCompletes
<1>1. TransferInv => HonestTransferCompletes
  BY DEF TransferInv
<1>2. QED
  BY TransferInitInv, TransferNextInv, <1>1, PTL DEF TransferSpec
=============================================================================
