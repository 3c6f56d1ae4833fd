------------------------------ MODULE ZipReader ------------------------------
(***************************************************************************)
(* How ZipHeaders.cpp reads the central directory of an archive that any    *)
(* program may have written.  An archive is a sequence of records, each     *)
(* with its length in bytes; the record of a tag that the reader looks for  *)
(* carries the fields the reader takes from it.  (ZipRecords has the same   *)
(* reader for the archives of this program alone, cell by cell, so that     *)
(* records which were written in part can be told.)                        *)
(***************************************************************************)
EXTENDS Naturals, Sequences

CONSTANTS
    Names,                  \* the names of entries
    NoName,                 \* the empty name of a header that could not be parsed
    NoData,                 \* the checksum of such a header
    Saturated,              \* 0xffffffff: look for the value in the zip64 field
    kMaxSizeOfCDRec,        \* how many bytes of the end are searched for tags
    kMaxReasonableCDBytes   \* a directory of more bytes is not read

ASSUME ReaderAssumption ==
    /\ NoName \notin Names
    /\ Saturated \in Nat /\ kMaxSizeOfCDRec \in Nat /\ kMaxReasonableCDBytes \in Nat
    /\ kMaxReasonableCDBytes < Saturated

\* a[1] + ... + a[n]
Total(a, n) ==
    LET sum[k \in 0 .. n] == IF k = 0 THEN 0 ELSE sum[k - 1] + a[k]
    IN  sum[n]

\* The bytes in front of record i.
ByteOffset(f, i) == Total([k \in DOMAIN f |-> f[k].len], i - 1)

Size(f) == ByteOffset(f, Len(f) + 1)

\* Operators named Bug... are the definition that follows with one mistake in it; no
\* action uses them.  They show which property notices the mistake.

\* The records of a tag in the part of the archive that is searched.
Tagged(f, tag) ==
    {i \in DOMAIN f : f[i].tag = tag /\ ByteOffset(f, i) + kMaxSizeOfCDRec >= Size(f)}

\* The search goes backward from the end.
Found(f, tag) == CHOOSE i \in Tagged(f, tag) : \A j \in Tagged(f, tag) : j <= i

\* A locator without a zip64 record behind its tag is as good as none.
IsZip64(f) == Tagged(f, "locator") # {} /\ Tagged(f, "rec64") # {}

Directory(f) == IF IsZip64(f) THEN f[Found(f, "rec64")] ELSE f[Found(f, "eocd")]

\* What cZipCD::Init returns.  Reading past the end fails, unless there is nothing to
\* be read.
CanOpen(f) ==
    /\ Tagged(f, "eocd") # {}
    /\ Directory(f).bytes <= kMaxReasonableCDBytes
    /\ Directory(f).bytes = 0 \/ Directory(f).offset < Size(f)

\* Whether the 32 bits of a field of a header say no more than to look elsewhere.
Missing(h, g) == IF h[g] = Saturated THEN 1 ELSE 0

\* Mistake: the offset is taken from the place of the compressed size, and the other way.
BugPlace(h) ==
    [usize |-> 1, offset |-> 1 + Missing(h, "usize"),
     csize |-> 1 + Missing(h, "usize") + Missing(h, "offset")]

\* Where in the zip64 block a value is: it has those that do not fit, in this order.
Place(h) ==
    [usize |-> 1, csize |-> 1 + Missing(h, "usize"),
     offset |-> 1 + Missing(h, "usize") + Missing(h, "csize")]

Zip64Blocks(h) == {i \in DOMAIN h.extra : h.extra[i].tag = "zip64"}

\* The first of them, behind which the reader does not look.
Zip64Block(h) == h.extra[CHOOSE i \in Zip64Blocks(h) : \A j \in Zip64Blocks(h) : i <= j]

Field(h, g) ==
    IF h[g] = Saturated /\ Zip64Blocks(h) # {} THEN Zip64Block(h).values[Place(h)[g]] ELSE h[g]

Parsed(h) ==
    [name |-> h.name, crc |-> h.crc,
     usize |-> Field(h, "usize"), csize |-> Field(h, "csize"), offset |-> Field(h, "offset")]

\* What a header that could not be parsed is left as.
Unparsed == [name |-> NoName, crc |-> NoData, usize |-> 0, csize |-> 0, offset |-> 0]

\* The record that starts at an offset, or the one behind the last.
RecordAt(f, offset) ==
    LET here == {i \in DOMAIN f : ByteOffset(f, i) = offset /\ f[i].len > 0}
    IN  IF here = {} THEN Len(f) + 1 ELSE CHOOSE i \in here : TRUE

IsHeader(f, i) == i \in DOMAIN f /\ f[i].tag = "cd"

\* mCDFileHeaderList.  A header that cannot be parsed has no length, so the following
\* are read at its place too.
Listed(f) ==
    LET first == RecordAt(f, Directory(f).offset)
        IsRead(k) == \A i \in first .. first + k - 1 : IsHeader(f, i)
    IN  [k \in 1 .. Directory(f).count |-> IF IsRead(k) THEN Parsed(f[first + k - 1]) ELSE Unparsed]

\* GetFileHeader finds a header of this name.
HasHeader(list, name) == \E k \in DOMAIN list : list[k].name = name

\* Where the stream of an entry begins: the local header says itself how long it is.
StreamOffset(f, e) ==
    LET i == RecordAt(f, e.offset)
    IN  e.offset + (IF i \in DOMAIN f /\ f[i].tag = "local" THEN f[i].len ELSE 0)
================================================================================
