------------------------------ MODULE ZStream ------------------------------
(***************************************************************************)
(* A file goes into an archive and comes out again: AddToZipFile, what may  *)
(* happen to the archive in between, and DecompressToFile.                 *)
(***************************************************************************)
EXTENDS ZCompressor, ZDecompressor

CONSTANT
    Damages     \* of "cut", "spoiled" and "trailing", what may happen to the stream

Init ==
    /\ CompressInit
    /\ DecompressStart(<<>>) /\ dpc = "idle"

\* The streams an archive may hold in the place of s.
Damaged(s) ==
    {s}
    \cup (IF "cut" \in Damages THEN {SubSeq(s, 1, k) : k \in 0 .. Len(s)} ELSE {})
    \cup (IF "spoiled" \in Damages
          THEN {[s EXCEPT ![k] = BadMark(s[k].from - 1)] : k \in DOMAIN s} ELSE {})
    \cup (IF "trailing" \in Damages
          THEN {Append(s, Code(LastByte(s) + 1, LastByte(s) + 1)),
                Append(s, BadMark(LastByte(s)))} ELSE {})

\* The archive, now complete, is opened and the entry extracted.
OpenEntry ==
    /\ cpc = "added" /\ dpc = "idle"
    /\ dpc' = "chunk"
    /\ \E s \in Damaged(stream) : archived' = s
    /\ UNCHANGED <<fed, next, last, unit, held, inflated, finalPass, dbuf, mStatus, nStatus, out>>
    /\ UNCHANGED compressVars

vars == <<compressVars, decompressVars>>

Next ==
    \/ CompressNext /\ UNCHANGED decompressVars
    \/ OpenEntry
    \/ DecompressNext /\ UNCHANGED compressVars

Spec == Init /\ [][Next]_vars /\ WF_vars(Next)

TypeOK == CompressTypeOK /\ DecompressTypeOK

\* A file that was added and extracted, both with success, is the same file, whatever
\* reading and writing failed before, unless the archive was damaged.  If the last call
\* of deflate filled its buffer a beginning of the file may be all that comes back, and
\* nothing else than a beginning.
RoundTrip ==
    dpc = "extracted" /\ archived = stream =>
       \/ out = [i \in 1 .. size |-> i]
       \/ filled /\ Len(out) <= size /\ out = [i \in 1 .. Len(out) |-> i]

\* Both loops end, wherever chunks and buffers do: the file fails to be added, or it is
\* extracted, or that fails or is refused.
LoopsEnd == <>(cpc = "failed" \/ dpc \in {"extracted", "failed", "rejected"})
================================================================================
