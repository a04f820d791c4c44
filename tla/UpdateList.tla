----------------------------- MODULE UpdateList -----------------------------
(***************************************************************************)
(* The update list of a product (load_patchset.c): "key: value" lines, one *)
(* after the other, grouped into entries.  The fields of the entry being   *)
(* read are static variables, and an entry is only known to be over when a *)
(* line turns up that cannot belong to it any more.                        *)
(*                                                                         *)
(* A list is written by somebody who had entries in mind; "written" is     *)
(* what, and the properties compare it with what the code makes of it.     *)
(* Texts are abstracted to values, and a field is the sequence of the      *)
(* values it was given, empty for NULL.  Libc is read like Architecture,   *)
(* and Note and Size like File, but optional; they are left out.           *)
(***************************************************************************)
EXTENDS Integers, SequencesExt

CONSTANTS
  Products,     \* the products that lists are loaded for
  OnDisk,       \* those whose update URL is a path on the disk
  Texts,        \* what may stand behind a key
  Entries,      \* entries somebody may write: [product, fields, mirrors]
  Orders,       \* orders of the fields within an entry
  MaxEntries,   \* a bound on the entries of a list
  Machine       \* the architectures that fit this machine, "any" included

Keys       == {"Component", "Version", "Architecture", "Applies", "File"}
Mandatory  == {"Version", "Applies", "File"}
Expandable == {"Architecture", "Applies"}

(* All keys, each once, and the component before its version (README:110). *)
InOrder(order) ==
  /\ order \in Seq(Keys)
  /\ \A k \in Keys : \E i \in DOMAIN order : order[i] = k
  /\ \A i, j \in DOMAIN order :
       /\ order[i] = order[j] => i = j
       /\ order[i] = "Component" /\ order[j] = "Version" => i < j

(* An entry says something, and whatever could not be continued on another *)
(* line only once.                                                         *)
Sensible(fields) ==
  /\ fields \in [Keys -> Seq(Texts)]
  /\ \E k \in Keys : fields[k] # << >>
  /\ \A k \in Keys \ Expandable : Len(fields[k]) <= 1

ASSUME ListAssumption ==
  /\ OnDisk \subseteq Products /\ Products \subseteq Texts
  /\ MaxEntries \in Nat
  /\ \A order \in Orders : InOrder(order)
  /\ \A e \in Entries : /\ e.product \in Texts /\ e.mirrors \in Seq(Texts)
                        /\ Sensible(e.fields)

VARIABLES
  phase,          \* "idle", "reading", "read" or "done"
  product,        \* patchset->product_name
  rest,           \* the lines that were not read yet
  valid_product,  \* the last Product line named this product
  fields,         \* the static variables of parse_table
  added,          \* the entries add_patch() has not dropped
  mirrors,        \* the mirrors add_url() was called for
  failed,         \* a field was missing
  written         \* the entries of the list

vars == <<phase, product, rest, valid_product, fields, added, mirrors, failed, written>>
done == <<product, written>>

Blank == [k \in Keys |-> << >>]

-----------------------------------------------------------------------------
(***************************************************************************)
(* Lists, as the README describes them: every entry with a Product line of *)
(* its own, or entries of one product under one such line, each of which   *)
(* then has a Version line to tell it from the one before.                 *)
(***************************************************************************)
Line(k, v) == [key |-> k, val |-> v]

LinesOf(e, order) ==
  FlattenSeq([i \in 1..Len(order) |->
    [j \in 1..Len(e.fields[order[i]]) |-> Line(order[i], e.fields[order[i]][j])]])

MirrorLines(e) == [i \in 1..Len(e.mirrors) |-> Line("Mirror", e.mirrors[i])]

(* In the order of the README the component and the version come first.    *)
VersionFirst(order) == order[1] = "Component" /\ order[2] = "Version"

ProductLine(es, i, separate) ==
  IF separate \/ i = 1 \/ es[i].product # es[i - 1].product
  THEN <<Line("Product", es[i].product)>> ELSE << >>

EntryText(es, i, order, separate) ==
  (MirrorLines(es[i]) \o ProductLine(es, i, separate)) \o LinesOf(es[i], order)

Text(es, order, separate) ==
  FlattenSeq([i \in 1..Len(es) |-> EntryText(es, i, order, separate)])

Writable(es, order, separate) ==
  separate \/ (VersionFirst(order) /\ \A i \in DOMAIN es : es[i].fields["Version"] # << >>)

-----------------------------------------------------------------------------
Init ==
  /\ phase = "idle"
  /\ product \in Products
  /\ rest = << >>
  /\ valid_product = FALSE
  /\ fields = Blank
  /\ added = << >>
  /\ mirrors = << >>
  /\ failed = FALSE
  /\ written = << >>

(* load_patchset() for a product and its list; a list that cannot be       *)
(* opened is one without lines.                                            *)
Open ==
  /\ phase = "idle"
  /\ \E p \in Products, es \in UNION { [1..n -> Entries] : n \in 0..MaxEntries },
        order \in Orders, separate \in BOOLEAN :
       /\ Writable(es, order, separate)
       /\ product' = p
       /\ written' = es
       /\ rest' = Text(es, order, separate)
  /\ phase' = "reading"
  /\ UNCHANGED <<valid_product, fields, added, mirrors, failed>>

(* check_and_add_patch(): an entry with all its mandatory fields, if any,  *)
(* goes to add_patch(), which drops one for other machines.                *)
Begun   == \E k \in Keys : fields[k] # << >>
Missing == \E k \in Mandatory : fields[k] = << >>

Fits == fields["Architecture"] = << >>
          \/ \E k \in DOMAIN fields["Architecture"] : fields["Architecture"][k] \in Machine

\* Faulty variant: whatever there is of an entry is added.
AddWhatThereIs == added' = IF Begun /\ Fits THEN Append(added, fields) ELSE added

AddEntry ==
  added' = IF Begun /\ ~Missing /\ Fits THEN Append(added, fields) ELSE added

\* Faulty variant: the fields of an entry in error are not freed.
StopAndKeep ==
  /\ phase' = "read"
  /\ failed' = TRUE
  /\ UNCHANGED <<fields, rest, valid_product, mirrors>>

(* An entry in error ends the parse.                                       *)
StopParsing ==
  /\ phase' = "read"
  /\ failed' = TRUE
  /\ fields' = Blank
  /\ UNCHANGED <<rest, valid_product, mirrors>>

\* Faulty variant: mirrors of other products are skipped.
ReadMirrorOfProduct ==
  /\ phase = "reading" /\ rest # << >> /\ Head(rest).key = "Mirror"
  /\ mirrors' = IF valid_product THEN Append(mirrors, Head(rest).val) ELSE mirrors
  /\ rest' = Tail(rest)
  /\ UNCHANGED <<done, phase, valid_product, fields, added, failed>>

(* A mirror is for every product, wherever it stands.                      *)
ReadMirror ==
  /\ phase = "reading" /\ rest # << >> /\ Head(rest).key = "Mirror"
  /\ mirrors' = Append(mirrors, Head(rest).val)
  /\ rest' = Tail(rest)
  /\ UNCHANGED <<done, phase, valid_product, fields, added, failed>>

(* A Product line ends the entry before it.                                *)
ReadProduct ==
  /\ phase = "reading" /\ rest # << >> /\ Head(rest).key = "Product"
  /\ AddEntry
  /\ \/ Begun /\ Missing /\ StopParsing
     \/ /\ ~(Begun /\ Missing)
        /\ fields' = Blank
        /\ valid_product' = (Head(rest).val = product)
        /\ rest' = Tail(rest)
        /\ UNCHANGED <<phase, mirrors, failed>>
  /\ UNCHANGED done

SkipField ==
  /\ phase = "reading" /\ rest # << >>
  /\ Head(rest).key \in Keys /\ ~valid_product
  /\ rest' = Tail(rest)
  /\ UNCHANGED <<done, phase, valid_product, fields, added, mirrors, failed>>

\* Faulty variant: only a field that is there already begins an entry.
Repeats(k) == k \notin Expandable /\ fields[k] # << >>

(* A field the entry has already, unless it can be continued, or a         *)
(* component after a version, begins the next entry.                       *)
BeginsEntry(k) ==
  \/ k \notin Expandable /\ fields[k] # << >>
  \/ k = "Component" /\ fields["Version"] # << >>

ReadField ==
  /\ phase = "reading" /\ rest # << >>
  /\ LET k == Head(rest).key
         v == Head(rest).val
     IN  /\ k \in Keys /\ valid_product
         /\ \/ /\ ~BeginsEntry(k)
               /\ fields' = [fields EXCEPT ![k] = Append(@, v)]
               /\ rest' = Tail(rest)
               /\ UNCHANGED <<phase, valid_product, added, mirrors, failed>>
            \/ BeginsEntry(k) /\ Missing /\ AddEntry /\ StopParsing
            \/ /\ BeginsEntry(k) /\ ~Missing
               /\ AddEntry
               /\ fields' = [Blank EXCEPT ![k] = <<v>>]
               /\ rest' = Tail(rest)
               /\ UNCHANGED <<phase, valid_product, mirrors, failed>>
  /\ UNCHANGED done

EndOfList ==
  /\ phase = "reading" /\ rest = << >>
  /\ AddEntry
  /\ \/ Begun /\ Missing /\ StopParsing
     \/ /\ ~(Begun /\ Missing)
        /\ phase' = "read"
        /\ fields' = Blank
        /\ UNCHANGED <<rest, valid_product, mirrors, failed>>
  /\ UNCHANGED done

(* The update URL of the product is a mirror too if it is on the disk, and *)
(* when there is no other.                                                 *)
AddProductUrl ==
  /\ phase = "read"
  /\ phase' = "done"
  /\ mirrors' = IF product \in OnDisk \/ mirrors = << >>
                THEN Append(mirrors, product) ELSE mirrors
  /\ rest' = << >>
  /\ UNCHANGED <<done, valid_product, fields, added, failed>>

(* load_patchset() returns; the next product will have a patchset of its   *)
(* own, but the static variables are what they are.                        *)
Return ==
  /\ phase = "done"
  /\ phase' = "idle"
  /\ valid_product' = FALSE
  /\ added' = << >>
  /\ mirrors' = << >>
  /\ failed' = FALSE
  /\ written' = << >>
  /\ UNCHANGED <<product, rest, fields>>

Next ==
  Return \/ Open \/ ReadMirror \/ ReadProduct \/ SkipField \/ ReadField \/ EndOfList \/ AddProductUrl

Spec == Init /\ [][Next]_vars

-----------------------------------------------------------------------------
(***************************************************************************)
(* Properties.                                                             *)
(***************************************************************************)

(* Every variable has its type: an entry that was added is one of the      *)
(* list's, whole.                                                          *)
ListTypeOK ==
  /\ phase \in {"idle", "reading", "read", "done"}
  /\ product \in Products
  /\ DOMAIN fields = Keys
  /\ {valid_product, failed} \subseteq BOOLEAN
  /\ \A i \in DOMAIN added : \E k \in DOMAIN written : added[i] = written[k].fields

(* What somebody wrote for this product and this machine, in the first n   *)
(* entries of the list, and the entries that lack a mandatory field.       *)
Suits(e) ==
  LET a == e.fields["Architecture"]
  IN  e.product = product /\ (a = << >> \/ \E i \in DOMAIN a : a[i] \in Machine)

Meant[i \in 0..Len(written)] ==
  IF i = 0 THEN << >>
  ELSE IF Suits(written[i]) THEN Append(Meant[i - 1], written[i].fields)
  ELSE Meant[i - 1]

Lacking ==
  { i \in DOMAIN written : /\ written[i].product = product
                          /\ \E k \in Mandatory : written[i].fields[k] = << >> }

(* The entries that are added are those somebody wrote, in their order and *)
(* with the fields they were given, whichever of the two forms the list    *)
(* has and whatever was read before it, as far as the first that lacks a   *)
(* field; an error is reported exactly when one does                       *)
(* (load_patchset.c:142-199).                                              *)
EntriesAsWritten ==
  phase = "done" =>
    /\ Lacking = {} => ~failed /\ added = Meant[Len(written)]
    /\ \A i \in Lacking :
         (\A j \in Lacking : i <= j) => failed /\ added = Meant[i - 1]

(* No list leaves anything in the static variables for the next one, or    *)
(* for the list of another product, to pick up (load_patchset.c:53-60,     *)
(* 119-125).                                                               *)
NothingLeaks == phase # "reading" => fields = Blank

(* Every mirror of the list is added, in order, whichever product it       *)
(* stands under, unless an error has cut the list short; and there is      *)
(* always one to download from (load_patchset.c:145-148, 209-213).         *)
MirrorsAsWritten ==
  phase = "done" =>
    LET all == FlattenSeq([i \in 1..Len(written) |-> written[i].mirrors])
        urls == IF all = << >> \/ product \in OnDisk THEN Append(all, product) ELSE all
    IN  /\ mirrors # << >>
        /\ ~failed => mirrors = urls
        /\ failed => \A i \in DOMAIN mirrors : mirrors[i] \in ToSet(all) \union {product}
=============================================================================
