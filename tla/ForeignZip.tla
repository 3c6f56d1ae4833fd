----------------------------- MODULE ForeignZip -----------------------------
(***************************************************************************)
(* Archives that other programs write, as records with their lengths in     *)
(* bytes: with or without zip64 records, with values in the zip64 block of  *)
(* a header, with blocks this program does not know, with a comment, and    *)
(* with an archive for an entry.                                           *)
(***************************************************************************)
EXTENDS ZipReader, FiniteSets

CONSTANTS
    Blocks,                     \* what a block of a file may hold
    kLocalHeader, kCDHeader,    \* both headers with a name, without extra fields
    kOtherBlock,                \* a block of extra fields that is not of zip64
    kRec64, kLocator, kEndOfCD  \* the records at the end

ASSUME LengthAssumption ==
    /\ {kLocalHeader, kCDHeader, kOtherBlock, kRec64, kLocator, kEndOfCD} \subseteq Nat \ {0}

\* A record that the reader passes over, and one of those at the end.
Bytes(len) == [tag |-> "none", len |-> len]
EndRecord(tag, len, bytes, offset, count) ==
    [tag |-> tag, len |-> len, bytes |-> bytes, offset |-> offset, count |-> count]

ExtraSize(w) ==
    (IF w.other THEN kOtherBlock ELSE 0) +
    (IF w.saturated = {} THEN 0 ELSE 4 + 8 * Cardinality(w.saturated))

LocalSize(w) == kLocalHeader + (IF w.other THEN kOtherBlock ELSE 0)

\* Where the local header of entry k is.
Offset(w, k) == Total([i \in DOMAIN w.entries |-> LocalSize(w) + w.entries[i].csize], k - 1)

\* An archive: its entries, whether it has zip64 records, which fields of the headers
\* are Saturated, whether the headers have another block in front, the length of the
\* comment, whether the comment has the tag of an end record in it, whether the stream
\* of the last entry is an archive with zip64 records, and which header is damaged (0
\* if none is).  Values that do not fit into their fields are in the zip64 block.
IsForeign(w) ==
    /\ w.entries \in Seq([name : Names, data : Seq(Blocks), csize : Nat])
    /\ w.zip64 \in BOOLEAN /\ w.other \in BOOLEAN
    /\ w.saturated \subseteq {"usize", "csize", "offset"}
    /\ \A k \in DOMAIN w.entries :
          /\ "usize" \in w.saturated \/ Len(w.entries[k].data) < Saturated
          /\ "csize" \in w.saturated \/ w.entries[k].csize < Saturated
          /\ "offset" \in w.saturated \/ Offset(w, k) < Saturated
    /\ w.comment \in Nat
    /\ w.tagged \in BOOLEAN /\ w.inner \in BOOLEAN
    /\ w.damaged \in 0 .. Len(w.entries)

\* What a field says, and what the zip64 block says of it.
Short(w, g, v) == IF g \in w.saturated THEN Saturated ELSE v
Long(w, g, v) == IF g \in w.saturated THEN <<v>> ELSE <<>>

Block(tag, values) == [tag |-> tag, values |-> values]

Extra(w, e, offset) ==
    (IF w.other THEN <<Block("other", <<>>)>> ELSE <<>>) \o
    (IF w.saturated = {} THEN <<>>
     ELSE <<Block("zip64", Long(w, "usize", Len(e.data)) \o Long(w, "csize", e.csize) \o
                           Long(w, "offset", offset))>>)

Header(w, k) ==
    LET e == w.entries[k]
    IN  [tag |-> IF k = w.damaged THEN "none" ELSE "cd", len |-> kCDHeader + ExtraSize(w),
         name |-> e.name, crc |-> e.data, usize |-> Short(w, "usize", Len(e.data)),
         csize |-> Short(w, "csize", e.csize), offset |-> Short(w, "offset", Offset(w, k)),
         extra |-> Extra(w, e, Offset(w, k))]

\* The stream of entry k: an archive without entries, or bytes without meaning.
Stream(w, k) ==
    LET size == w.entries[k].csize
        ending == kRec64 + kLocator + kEndOfCD
    IN  IF w.inner /\ k = Len(w.entries) /\ size >= ending
        THEN <<Bytes(size - ending), EndRecord("rec64", kRec64, 0, 0, 0),
               EndRecord("locator", kLocator, 0, 0, 0), EndRecord("eocd", kEndOfCD, 0, 0, 0)>>
        ELSE <<Bytes(size)>>

Joined(parts, n) ==
    LET join[k \in 0 .. n] == IF k = 0 THEN <<>> ELSE join[k - 1] \o parts[k]
    IN  join[n]

\* How long the directory is.
DirectorySize(w) == Len(w.entries) * (kCDHeader + ExtraSize(w))

\* The records at the end.
Ending(w) ==
    LET Says(tag, len) ==
           EndRecord(tag, len, DirectorySize(w), Offset(w, Len(w.entries) + 1), Len(w.entries))
    IN  IF w.zip64
        THEN <<Says("rec64", kRec64), EndRecord("locator", kLocator, 0, 0, 0),
               EndRecord("eocd", kEndOfCD, Saturated, Saturated, 0)>>
        ELSE <<Says("eocd", kEndOfCD)>>

Comment(w) ==
    IF w.tagged THEN <<Bytes(w.comment), EndRecord("eocd", kEndOfCD, 0, 0, 0)>>
    ELSE <<Bytes(w.comment)>>

Entries(w) ==
    Joined([k \in DOMAIN w.entries |-> <<[tag |-> "local", len |-> LocalSize(w)]>> \o Stream(w, k)],
           Len(w.entries))

Layout(w) == Entries(w) \o [k \in DOMAIN w.entries |-> Header(w, k)] \o Ending(w) \o Comment(w)

\* No header is damaged, the directory is not longer than the reader allows, the records
\* at the end are within what it searches, and nothing else there that it may take for
\* one of them is behind them or in their place.
WellPlaced(w) ==
    /\ DirectorySize(w) <= kMaxReasonableCDBytes
    /\ kEndOfCD + w.comment + (IF w.zip64 THEN kRec64 + kLocator ELSE 0) <= kMaxSizeOfCDRec
    /\ ~w.tagged
    /\ w.inner => w.zip64
    /\ w.damaged = 0
=============================================================================
