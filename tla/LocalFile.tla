------------------------------ MODULE LocalFile ------------------------------
(***************************************************************************)
(* cZZFileLocal of ZZFileAPI.cpp, a file that is open for writing.  Once   *)
(* an operation on the stream has failed all that follow fail: nothing     *)
(* clears the failure.                                                     *)
(***************************************************************************)
EXTENDS Naturals, Sequences

CONSTANT
    Gap,        \* what is where nobody wrote anything
    FileFaults  \* "write", if writing may fail

VARIABLES
    file,       \* what is in the file
    mnFileSize, \* mnFileSize: what GetFileSize returns
    failbit     \* mFileStream.fail()

fileVars == <<file, mnFileSize, failbit>>

FileInit == file = <<>> /\ mnFileSize = 0 /\ failbit = FALSE

\* The file f after cells were written behind the first off cells.
Written(f, off, cells) ==
    [i \in 1 .. (IF off + Len(cells) > Len(f) THEN off + Len(cells) ELSE Len(f)) |->
       IF i > off /\ i <= off + Len(cells) THEN cells[i - off]
       ELSE IF i <= Len(f) THEN f[i] ELSE Gap]

\* Operators named Bug... are the definition that follows with one mistake in it; no
\* action uses them.  They show which property notices the mistake.

\* Mistake: the position is asked for after the write.
BugNewSize(off, n) == IF off + n + n > mnFileSize THEN off + n + n ELSE mnFileSize

NewSize(off, n) == IF off + n > mnFileSize THEN off + n ELSE mnFileSize

Write(off, cells) ==
    /\ ~failbit
    /\ file' = Written(file, off, cells)
    /\ mnFileSize' = NewSize(off, Len(cells))
    /\ UNCHANGED failbit

\* The process is killed: of what it writes only a beginning gets into the file.
Torn(off, cells) ==
    /\ ~failbit
    /\ \E k \in 0 .. Len(cells) : file' = Written(file, off, SubSeq(cells, 1, k))
    /\ UNCHANGED <<mnFileSize, failbit>>

\* Mistake: the failure is cleared, so that the following operation can be tried.
BugFailbitAfter == FALSE

FailbitAfter == TRUE

\* Writing fails, for the first time after a beginning was written.
WriteFails(off, cells) ==
    \/ failbit /\ UNCHANGED fileVars
    \/ /\ ~failbit /\ "write" \in FileFaults
       /\ \E k \in 0 .. Len(cells) : file' = Written(file, off, SubSeq(cells, 1, k))
       /\ failbit' = FailbitAfter
       /\ UNCHANGED mnFileSize
==============================================================================
