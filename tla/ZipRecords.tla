----------------------------- MODULE ZipRecords -----------------------------
(***************************************************************************)
(* The records of an archive, as ZipHeaders.cpp writes and finds them.  An *)
(* archive is a sequence of cells; a record has as many cells as it has    *)
(* bytes, or fewer, in the same proportion.  The first cell of a record is *)
(* its tag, and every cell carries the fields of its record, of which the  *)
(* reader looks at those in the first.  Compressed data may look like a    *)
(* tag by chance.  The central directory is always written with zip64      *)
(* records, and 32-bit fields hold -1 where there is a 64-bit field.       *)
(***************************************************************************)
EXTENDS Naturals, Sequences

CONSTANTS
    Names,          \* the relative paths of files and folders
    NameLength,     \* mFilenameLength of a path
    NoName,         \* the name in a header that could not be parsed
    kStaticDataSize, kExtendedFieldLength,  \* of both headers, without the name
    kRec64Size, kLocatorSize, kEndOfCDSize, \* the three records at the end
    kMaxSizeOfCDRec,        \* how much of the end of an archive is searched for tags
    kMaxReasonableCDBytes,  \* a directory of more bytes is not read
    NoOffset                \* 0xffffffff, an offset beyond the end of every archive

ASSUME RecordAssumption ==
    /\ NoName \notin Names
    /\ NameLength \in [Names -> Nat]
    /\ kStaticDataSize \in Nat \ {0} /\ kExtendedFieldLength \in Nat
    /\ {kRec64Size, kLocatorSize, kEndOfCDSize} \subseteq Nat \ {0}
    /\ kRec64Size + kLocatorSize + kEndOfCDSize <= kMaxSizeOfCDRec
    /\ kMaxSizeOfCDRec \in Nat /\ kMaxReasonableCDBytes \in Nat /\ NoOffset \in Nat

Tags == {"local", "cd", "rec64", "locator", "eocd"}

Cell == [tag : Tags \cup {"none"}, part : Tags \cup {"data", "hole"}, name : Names \cup {NoName},
         at : Nat, offset : Nat, size : Nat, count : Nat]

\* An entry of mCDFileHeaderList: mFileName, mLocalFileHeaderOffset, mCompressedSize.
Entry == [name : Names, offset : Nat, size : Nat]

\* A record of len cells.
Record(part, len, name, offset, size, count) ==
    [i \in 1 .. len |->
       [tag |-> IF i = 1 THEN part ELSE "none", part |-> part, name |-> name,
        at |-> i, offset |-> offset, size |-> size, count |-> count]]

Hole == [tag |-> "none", part |-> "hole", name |-> NoName, at |-> 0, offset |-> 0, size |-> 0, count |-> 0]

\* The bytes from .. from + len - 1 of the deflate stream of the file name.
Data(name, from, len, tag) ==
    [i \in 1 .. len |->
       [tag |-> IF i = 1 THEN tag ELSE "none", part |-> "data", name |-> name,
        at |-> from + i - 1, offset |-> 0, size |-> 0, count |-> 0]]

\* The size of a local header and of a header in the directory.
HeaderSize(name) == kStaticDataSize + NameLength[name] + kExtendedFieldLength

LocalHeader(e) == Record("local", HeaderSize(e.name), e.name, 0, e.size, 0)
CDHeader(e) == Record("cd", HeaderSize(e.name), e.name, e.offset, e.size, 0)

\* cZipCD::Size counts the records behind the directory too.
CDSize(list) ==
    LET total[k \in 0 .. Len(list)] ==
           IF k = 0 THEN kRec64Size + kLocatorSize + kEndOfCDSize
           ELSE total[k - 1] + HeaderSize(list[k].name)
    IN  total[Len(list)]

Rec64(start, list) == Record("rec64", kRec64Size, NoName, start, CDSize(list), Len(list))
Locator(offset) == Record("locator", kLocatorSize, NoName, offset, 0, 0)
EndOfCD(list) == Record("eocd", kEndOfCDSize, NoName, NoOffset, CDSize(list), Len(list))

\* Operators named Bug... are the definition that follows with one mistake in it; no
\* action uses them.  They show which property notices the mistake.

\* Where a tag is in the part of f that is searched.
Tagged(f, tag) == {i \in DOMAIN f : i + kMaxSizeOfCDRec > Len(f) /\ f[i].tag = tag}

\* Mistake: the search goes forward.
BugFound(f, tag) == CHOOSE i \in Tagged(f, tag) : \A j \in Tagged(f, tag) : i <= j

\* The search goes backward from the end.
Found(f, tag) == CHOOSE i \in Tagged(f, tag) : \A j \in Tagged(f, tag) : j <= i

\* A locator without a zip64 record behind its tag is as good as none.
IsZip64(f) == Tagged(f, "locator") # {} /\ Tagged(f, "rec64") # {}

Directory(f) == IF IsZip64(f) THEN f[Found(f, "rec64")] ELSE f[Found(f, "eocd")]

\* Reading past the end fails, unless there is nothing to read.
CanOpen(f) ==
    /\ Tagged(f, "eocd") # {}
    /\ Directory(f).size <= kMaxReasonableCDBytes
    /\ Directory(f).size = 0 \/ Directory(f).offset < Len(f)

IsCDHeader(f, n) == n + 1 \in DOMAIN f /\ f[n + 1].tag = "cd" /\ f[n + 1].part = "cd"

\* A header that cannot be parsed is an empty one, and has no length.
Listed(f) ==
    LET d == Directory(f)
        offset[k \in 1 .. d.count + 1] ==
           IF k = 1 THEN d.offset
           ELSE offset[k - 1] +
                (IF IsCDHeader(f, offset[k - 1]) THEN HeaderSize(f[offset[k - 1] + 1].name) ELSE 0)
    IN  [k \in 1 .. d.count |->
           IF IsCDHeader(f, offset[k])
           THEN LET c == f[offset[k] + 1] IN [name |-> c.name, offset |-> c.offset, size |-> c.size]
           ELSE [name |-> NoName, offset |-> 0, size |-> 0]]

\* What a reader finds where an entry says it is: the whole local header, and behind
\* it, as far as the local header goes, the whole stream.
Intact(f, e) ==
    /\ e.offset + HeaderSize(e.name) + e.size <= Len(f)
    /\ \A i \in 1 .. HeaderSize(e.name) :
          LET c == f[e.offset + i] IN c.part = "local" /\ c.name = e.name /\ c.at = i
    /\ \A i \in 1 .. e.size :
          LET c == f[e.offset + HeaderSize(e.name) + i]
          IN  c.part = "data" /\ c.name = e.name /\ c.at = i
=============================================================================
