---------------------------- MODULE ZDecompressor ----------------------------
(***************************************************************************)
(* How a deflate stream becomes a file: the loop of                        *)
(* ZZipAPI::DecompressToFile over the chunks of the stream, the loop over  *)
(* the outputs of a chunk, and ZDecompressor::Decompress of zlibAPI.cpp.    *)
(* inflate itself is zlib's: it takes a unit of the stream at a time, puts  *)
(* out the bytes the unit stands for, and keeps those that do not fit.      *)
(***************************************************************************)
EXTENDS ZFormat

CONSTANTS
    kCompressStreamProcessSize, \* the units of a chunk
    kDefaultDecompressBuffer,   \* the bytes the output buffer has room for
    DecompressFaults            \* of "read" and "write", what may fail

ASSUME DecompressAssumption ==
    /\ kCompressStreamProcessSize \in Nat \ {0}
    /\ kDefaultDecompressBuffer \in Nat \ {0}

VARIABLES
    archived,   \* the stream as the archive has it
    fed,        \* nCompressedBytesProcessed: the units of the chunks that are done
    next, last, \* the units next .. last are inflate's input: next_in, avail_in
    unit,       \* the unit inflate decodes next: next, or one it has read already
    held,       \* the bytes inflate has still to put out of the unit it took
    inflated,   \* inflateEnd was called: there is no inflate state any more
    finalPass,  \* mbFinalPass
    dbuf,       \* the output buffer of the decompressor, mnOutputAvailable its length
    mStatus,    \* what Decompress returned last: "ok", "end" or "error"
    nStatus,    \* what it returned for this chunk
    out,        \* the file that is written
    dpc         \* where DecompressToFile is

decompressVars ==
    <<archived, fed, next, last, unit, held, inflated, finalPass, dbuf, mStatus, nStatus, out, dpc>>

NoBytes == [from |-> 1, to |-> 0]

\* The entry of the stream s is to be extracted.
DecompressStart(s) ==
    /\ archived = s
    /\ fed = 0 /\ next = 1 /\ last = 0 /\ unit = 1
    /\ held = NoBytes
    /\ inflated = FALSE /\ finalPass = FALSE
    /\ dbuf = <<>> /\ out = <<>>
    /\ mStatus = "ok" /\ nStatus = "ok"

IsHolding == held.from <= held.to
HasInput == next <= last
HasUnit == unit < next \/ HasInput
IsFull == Len(dbuf) = kDefaultDecompressBuffer

\* Operators named Bug... are the definition that follows with one mistake in it;
\* no action uses them.  They show which property notices the mistake.

\* A full chunk, or what remains of the stream.
FeedEnd ==
    IF fed + kCompressStreamProcessSize > Len(archived)
    THEN Len(archived) ELSE fed + kCompressStreamProcessSize

\* InitStream refuses, unnoticed, once the status is not Z_OK.
FeedChunk ==
    /\ dpc = "chunk" /\ fed < Len(archived)
    /\ nStatus' = "ok"
    /\ dpc' = "loop"
    /\ IF mStatus = "ok"
       THEN next' = fed + 1 /\ last' = FeedEnd /\ finalPass' = FALSE
       ELSE UNCHANGED <<next, last, finalPass>>
    /\ UNCHANGED <<archived, fed, unit, held, inflated, dbuf, mStatus, out>>

\* Mistakes: stops when the input is used up, whatever the output; goes on until the
\* stream has ended.
BugHasMoreDecompressed == HasInput
BugHasMoreDecompressedEver == HasInput \/ mStatus = "ok"

HasMoreDecompressed == HasInput \/ (mStatus = "ok" /\ dbuf # <<>>)

\* Mistake: what the last call put out counts again.
BugEmptied == dbuf

Emptied == <<>>

\* Decompress calls inflate if there is input, or may be output left without.
Decompress ==
    /\ dpc = "loop"
    /\ HasMoreDecompressed /\ nStatus # "error"
    /\ dbuf' = Emptied
    /\ IF HasInput \/ finalPass
       THEN dpc' = "inflate" /\ UNCHANGED nStatus
       ELSE dpc' = "write" /\ nStatus' = mStatus
    /\ UNCHANGED <<archived, fed, next, last, unit, held, inflated, finalPass, mStatus, out>>

\* The end of a unit and the beginning of the following one may share a byte.
ReadAhead == IF unit < next THEN {next} ELSE {next + 1, next + 2} \cap (1 .. last + 1)

TakeUnit ==
    /\ dpc = "inflate" /\ ~inflated
    /\ ~IsHolding /\ HasUnit
    /\ archived[unit].kind = "code"
    /\ held' = [from |-> archived[unit].from, to |-> archived[unit].to]
    /\ unit' = unit + 1
    /\ next' \in ReadAhead
    /\ UNCHANGED <<archived, fed, last, inflated, finalPass, dbuf, mStatus, nStatus, out, dpc>>

PutByte ==
    /\ dpc = "inflate" /\ ~inflated
    /\ IsHolding /\ ~IsFull
    /\ dbuf' = Append(dbuf, held.from)
    /\ held' = [held EXCEPT !.from = held.from + 1]
    /\ UNCHANGED <<archived, fed, next, last, unit, inflated, finalPass, mStatus, nStatus, out, dpc>>

\* Mistake: input and output that end together end the chunk.
BugMayHoldMore == FALSE

\* Input and output are exhausted together: there may be more to put out.
MayHoldMore == ~HasInput /\ IsFull

\* inflate can do no more: its output is full, or its input is used up.  Z_BUF_ERROR,
\* which says that it did nothing at all, is taken for Z_OK.
Suspend ==
    /\ dpc = "inflate" /\ ~inflated
    /\ IF IsHolding THEN IsFull ELSE ~HasUnit
    /\ mStatus' = "ok" /\ nStatus' = "ok"
    /\ finalPass' = (finalPass \/ MayHoldMore)
    /\ dpc' = "write"
    /\ UNCHANGED <<archived, fed, next, last, unit, held, inflated, dbuf, out>>

\* The end of the stream, or a unit that is not deflate: inflateEnd.
EndStream ==
    /\ dpc = "inflate" /\ ~inflated
    /\ ~IsHolding /\ HasUnit
    /\ archived[unit].kind # "code"
    /\ mStatus' = IF archived[unit].kind = "end" THEN "end" ELSE "error"
    /\ nStatus' = mStatus'
    /\ inflated' = TRUE
    /\ unit' = unit + 1
    /\ next' = IF unit < next THEN next ELSE next + 1
    /\ dpc' = "write"
    /\ UNCHANGED <<archived, fed, last, held, finalPass, dbuf, out>>

\* inflate without a state: Z_STREAM_ERROR.
InflateAgain ==
    /\ dpc = "inflate" /\ inflated
    /\ mStatus' = "error" /\ nStatus' = "error"
    /\ dpc' = "write"
    /\ UNCHANGED <<archived, fed, next, last, unit, held, inflated, finalPass, dbuf, out>>

WriteDecompressed ==
    /\ dpc = "write"
    /\ out' = out \o dbuf
    /\ dpc' = "loop"
    /\ UNCHANGED <<archived, fed, next, last, unit, held, inflated, finalPass, dbuf, mStatus, nStatus>>

\* Mistake: every result is a good one.
BugIsGoodAny(s) == TRUE

IsGood(s) == s \in {"ok", "end"}

ChunkDecompressed ==
    /\ dpc = "loop"
    /\ ~(HasMoreDecompressed /\ nStatus # "error")
    /\ IF IsGood(nStatus)
       THEN dpc' = "chunk" /\ fed' = FeedEnd
       ELSE dpc' = "rejected" /\ UNCHANGED fed
    /\ UNCHANGED <<archived, next, last, unit, held, inflated, finalPass, dbuf, mStatus, nStatus, out>>

Extract ==
    /\ dpc = "chunk" /\ fed >= Len(archived)
    /\ dpc' = "extracted"
    /\ UNCHANGED <<archived, fed, next, last, unit, held, inflated, finalPass, dbuf, mStatus, nStatus, out>>

ExtractFails ==
    /\ \/ dpc = "chunk" /\ fed < Len(archived) /\ "read" \in DecompressFaults
       \/ dpc = "write" /\ "write" \in DecompressFaults
    /\ dpc' = "failed"
    /\ UNCHANGED <<archived, fed, next, last, unit, held, inflated, finalPass, dbuf, mStatus, nStatus, out>>

DecompressNext ==
    \/ FeedChunk \/ Decompress
    \/ TakeUnit \/ PutByte \/ Suspend \/ EndStream \/ InflateAgain
    \/ WriteDecompressed \/ ChunkDecompressed \/ Extract \/ ExtractFails

DecompressTypeOK ==
    /\ archived \in Seq(Unit)
    /\ fed \in 0 .. Len(archived)
    /\ next \in 1 .. Len(archived) + 1 /\ last \in 0 .. Len(archived)
    /\ next <= last + 1 /\ unit \in {next, next - 1} \ {0}
    /\ held \in [from : Nat \ {0}, to : Nat]
    /\ inflated \in BOOLEAN /\ finalPass \in BOOLEAN
    /\ dbuf \in Seq(Nat) /\ Len(dbuf) <= kDefaultDecompressBuffer
    /\ mStatus \in {"ok", "end", "error"} /\ nStatus \in {"ok", "end", "error"}
    /\ out \in Seq(Nat)
    /\ dpc \in {"idle", "chunk", "loop", "inflate", "write", "extracted", "failed", "rejected"}

\* What is written is the beginning of the file, in order, without a gap and without
\* a repetition, however the chunks and the buffers fall.
OutputInOrder ==
    Contiguous(archived) => out = [i \in 1 .. Len(out) |-> i] /\ Len(out) <= LastByte(archived)

\* A whole stream is never rejected, and it is extracted in full: no byte stays in
\* inflate when the last chunk is done.
WholeIsExtracted ==
    Whole(archived, LastByte(archived)) =>
       /\ dpc # "rejected"
       /\ dpc = "extracted" => Len(out) = LastByte(archived)

\* A stream with a unit that is not deflate in it is rejected, unless it is in a chunk
\* of its own behind the end of the stream.
BadIsRejected ==
    dpc = "extracted" =>
       \A i \in DOMAIN archived :
          archived[i].kind = "bad" => \E k \in 1 .. i - 1 : archived[k].kind = "end"
================================================================================
