----------------------------- MODULE ZCompressor -----------------------------
(***************************************************************************)
(* How a file becomes a deflate stream: the loop of ZZipAPI::AddToZipFile   *)
(* over the chunks of the file, the loop over the outputs of a chunk, and   *)
(* ZCompressor::Compress of zlibAPI.cpp.  deflate itself is zlib's: it      *)
(* takes input ahead of what it codes, and it stops when its output buffer  *)
(* is full or when it has taken, coded and flushed all of its input.        *)
(***************************************************************************)
EXTENDS ZFormat

CONSTANTS
    Sizes,                  \* the sizes a file may have
    kStreamProcessSize,     \* the bytes of a chunk
    kDefaultCompressBuffer, \* the units the output buffer has room for
    MaxMatch,               \* the most bytes a code stands for
    CompressFaults          \* of "read" and "write", what may fail

ASSUME CompressAssumption ==
    /\ Sizes \subseteq Nat
    /\ kStreamProcessSize \in Nat \ {0}
    /\ kDefaultCompressBuffer \in Nat \ {0}
    /\ MaxMatch \in Nat \ {0}

VARIABLES
    size,       \* the size of the file
    read,       \* nBytesProcessed: the bytes of the chunks that are done
    given,      \* the bytes given to the compressor
    taken,      \* the bytes deflate has taken from its input
    coded,      \* the bytes that codes were put out for
    cbuf,       \* the output buffer of the compressor, mnOutputAvailable its length
    filled,     \* whether the last call of deflate left no room there, avail_out = 0
    cstatus,    \* what deflate returned last, mStatus and nStatus: "ok" or "end"
    stream,     \* the units written to the archive
    cpc         \* where AddToZipFile is

compressVars == <<size, read, given, taken, coded, cbuf, filled, cstatus, stream, cpc>>

CompressInit ==
    /\ size \in Sizes
    /\ read = 0 /\ given = 0 /\ taken = 0 /\ coded = 0
    /\ cbuf = <<>> /\ filled = FALSE
    /\ cstatus = "ok"
    /\ stream = <<>>
    /\ cpc = "chunk"

\* Operators named Bug... are the definition that follows with one mistake in it;
\* no action uses them.  They show which property notices the mistake.

\* Mistake: the last chunk is not cut to what remains.
BugChunkEnd == read + kStreamProcessSize

\* A full chunk, or what remains of the file.  The chunk is compressed in full even if
\* fewer bytes were read: nBytesRead is not looked at.
ChunkEnd == IF read + kStreamProcessSize > size THEN size ELSE read + kStreamProcessSize

bFinalBlock == given = size

ReadChunk ==
    /\ cpc = "chunk" /\ read < size
    /\ given' = ChunkEnd
    /\ cstatus' = "ok"
    /\ cpc' = "loop"
    /\ UNCHANGED <<size, read, taken, coded, cbuf, filled, stream>>

HasMoreCompressed == taken < given \/ (cstatus = "ok" /\ cbuf # <<>>)

\* Compress calls deflate only if there is input.
Compress ==
    /\ cpc = "loop"
    /\ HasMoreCompressed /\ cstatus = "ok"
    /\ cbuf' = <<>>
    /\ cpc' = IF taken < given THEN "deflate" ELSE "write"
    /\ UNCHANGED <<size, read, given, taken, coded, filled, cstatus, stream>>

TakeInput ==
    /\ cpc = "deflate"
    /\ taken < given
    /\ taken' = taken + 1
    /\ UNCHANGED <<size, read, given, coded, cbuf, filled, cstatus, stream, cpc>>

PutCode(k) ==
    /\ cpc = "deflate"
    /\ coded + k <= taken
    /\ Len(cbuf) < kDefaultCompressBuffer
    /\ cbuf' = Append(cbuf, Code(coded + 1, coded + k))
    /\ coded' = coded + k
    /\ UNCHANGED <<size, read, given, taken, filled, cstatus, stream, cpc>>

\* Mistake: every chunk is compressed as if it were the last.
BugFlushUnit == EndMark(coded)

FlushUnit == IF bFinalBlock THEN EndMark(coded) ELSE FlushMark(coded)

\* Everything was coded, and the mark of the flush fits; deflate says that the
\* stream has ended only if there is still room then.
FlushDone ==
    /\ cpc = "deflate"
    /\ taken = given /\ coded = taken
    /\ Len(cbuf) < kDefaultCompressBuffer
    /\ cbuf' = Append(cbuf, FlushUnit)
    /\ filled' = (Len(cbuf') = kDefaultCompressBuffer)
    /\ cstatus' = IF bFinalBlock /\ Len(cbuf') < kDefaultCompressBuffer THEN "end" ELSE "ok"
    /\ cpc' = "write"
    /\ UNCHANGED <<size, read, given, taken, coded, stream>>

OutputFull ==
    /\ cpc = "deflate"
    /\ Len(cbuf) = kDefaultCompressBuffer
    /\ filled' = TRUE
    /\ cpc' = "write"
    /\ UNCHANGED <<size, read, given, taken, coded, cbuf, cstatus, stream>>

WriteCompressed ==
    /\ cpc = "write"
    /\ stream' = stream \o cbuf
    /\ cpc' = "loop"
    /\ UNCHANGED <<size, read, given, taken, coded, cbuf, filled, cstatus>>

ChunkCompressed ==
    /\ cpc = "loop"
    /\ ~(HasMoreCompressed /\ cstatus = "ok")
    /\ read' = given
    /\ cpc' = "chunk"
    /\ UNCHANGED <<size, given, taken, coded, cbuf, filled, cstatus, stream>>

\* A file with no chunk left gets its local header and its entry in the directory.
Add ==
    /\ cpc = "chunk" /\ read >= size
    /\ cpc' = "added"
    /\ UNCHANGED <<size, read, given, taken, coded, cbuf, filled, cstatus, stream>>

AddFails ==
    /\ \/ cpc = "chunk" /\ read < size /\ "read" \in CompressFaults
       \/ cpc = "write" /\ "write" \in CompressFaults
       \/ cpc = "chunk" /\ read >= size /\ "write" \in CompressFaults
    /\ cpc' = "failed"
    /\ UNCHANGED <<size, read, given, taken, coded, cbuf, filled, cstatus, stream>>

CompressNext ==
    \/ ReadChunk \/ Compress
    \/ TakeInput \/ (\E k \in 1 .. MaxMatch : PutCode(k)) \/ FlushDone \/ OutputFull
    \/ WriteCompressed \/ ChunkCompressed \/ Add \/ AddFails

CompressTypeOK ==
    /\ size \in Sizes
    /\ read \in Nat /\ given \in Nat /\ taken \in Nat /\ coded \in Nat
    /\ coded <= taken /\ taken <= given /\ read <= given /\ given <= size
    /\ cbuf \in Seq(Unit) /\ Len(cbuf) <= kDefaultCompressBuffer
    /\ filled \in BOOLEAN
    /\ cstatus \in {"ok", "end"}
    /\ stream \in Seq(Unit)
    /\ cpc \in {"chunk", "loop", "deflate", "write", "added", "failed"}

\* A file that was added is in the archive as the whole of its deflate stream, unless
\* the last call of deflate filled the output buffer.  Then Compress does not ask for
\* the rest, and what is in the archive is at least a beginning of the stream.
AddedIsWhole ==
    cpc = "added" =>
       \/ Whole(stream, size)
       \/ filled /\ Contiguous(stream) /\ LastByte(stream) <= size

\* What the comments on Compress and HasMoreOutput say: the final block flushes the
\* stream, and there is more output as long as some did not fit into the buffer.
FinalBlockFlushes ==
    cpc = "loop" /\ bFinalBlock /\ ~HasMoreCompressed => HasEnd(stream)
================================================================================
