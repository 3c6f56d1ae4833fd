------------------------------ MODULE ExtractJob ------------------------------
(***************************************************************************)
(* The extract job of ZipJob.cpp (the commands "extract" and "update"):    *)
(* the main thread that starts the job and joins it, the thread of the     *)
(* job, and one task per file of the archive, run by a pool that behaves   *)
(* like TaskRunner.  A task compares the file on disk with the central     *)
(* directory and, where they differ, writes it anew, a block at a time.    *)
(* The process may be killed between any two steps; what is on disk stays, *)
(* and another process may run the job again.                              *)
(*                                                                         *)
(* A file is a sequence of blocks, its size the length of the sequence.    *)
(* Files of one size with the same CRC are taken to be the same.           *)
(***************************************************************************)
EXTENDS Naturals, Sequences

CONSTANTS
    Names,          \* the paths that entries of an archive may have
    Blocks,         \* what a block of a file may hold
    Garbage,        \* a block nobody wrote, or that was read wrong
    NoFile,         \* what is at a path where there is no file
    Packages,       \* the archives: sequences of entries
    InitialDisks,   \* what may be on disk before the first process
    MaxEntries,     \* no archive has more entries
    Pattern,        \* the names FNMatch accepts for the job's pattern
    CounterLimit,   \* 2^32: nBytesProcessed of FileNeedsUpdate is a uint32_t
    MaxRuns,        \* bound: how many processes there are, one after the other
    Faults          \* what can go wrong; see FaultKinds

\* "open": the archive cannot be opened.  "directory": its central directory cannot
\* be read.  "read", "write": reading the archive, or writing the file, fails and
\* says so.  "mislead": a read leaves the buffer as it was and reports success.
\* "close": the last block is lost when the file is closed, which reports nothing.
\* "hold": a file that is there cannot be opened, as another program holds it or
\* nobody may read it.  "verify": the file that is being verified cannot be read any
\* further.
\* "throw": std::filesystem throws.  "fast": the verification of all files together
\* takes less than a millisecond.  "kill": the process is killed.
FaultKinds ==
    {"open", "directory", "read", "write", "mislead", "close", "hold", "verify", "throw",
     "fast", "kill"}

Positions == 1 .. MaxEntries
Contents == Seq(Blocks \cup {Garbage}) \cup {NoFile}
Entry == [name : Names, kind : {"deflated", "stored", "folder"}, data : Seq(Blocks)]

ASSUME PackageAssumption ==
    /\ MaxEntries \in Nat
    /\ \A p \in Packages : p \in Seq(Entry) /\ Len(p) <= MaxEntries
ASSUME DiskAssumption ==
    /\ InitialDisks \subseteq [Names -> Contents]
    /\ NoFile \notin Seq(Blocks \cup {Garbage})
ASSUME BoundAssumption == CounterLimit \in Nat /\ MaxRuns \in Nat \ {0}
ASSUME FaultAssumption == Faults \subseteq FaultKinds

VARIABLES
    package,    \* the archive
    disk,       \* disk[n] : the file at the path n
    skipCRC,    \* mbSkipCRC: TRUE for "extract", FALSE for "update"
    main,       \* the main thread: "ready", "polling", "joining", "returned" or "dead"
    job,        \* the job's thread, by the part of the function it is at
    jobStatus,  \* mJobStatus.mStatus
    listed,     \* the entries in mCDFileHeaderList
    collected,  \* the entries whose futures the job has read
    errors,     \* nTotalErrors
    verified,   \* some file was verified, and the time it took was added
    status,     \* of TaskRunner: the state of the task of each entry
    gone,       \* of TaskRunner: the pool has been destroyed
    pc,         \* pc[e] : where the task of e is
    pos,        \* pos[e] : the blocks the task of e has written
    result,     \* result[e] : what the task of e returned
    processed,  \* processed[e] : the part of mnBytesProcessed that is e's
    held,       \* the entries whose file was there and could not be opened to verify it
    runs        \* how many processes there were

taskVars == <<pc, pos, result, processed, held>>
jobVars == <<job, jobStatus, listed, collected, errors>>
vars == <<package, disk, skipCRC, main, jobVars, verified, status, gone, taskVars, runs>>

Pool == INSTANCE TaskRunner WITH Tasks <- Positions

--------------------------------------------------------------------------------
(* The archive *)

\* Operators named Bug... are the definition that follows with one mistake in it;
\* no action uses them.  They show which property notices the mistake.

IsFile(e) == e \in DOMAIN package /\ package[e].kind # "folder"
Name(e) == package[e].name
Data(e) == package[e].data

\* GetFileHeader looks a name up and takes the first entry that has it.
FirstNamed(p, n) ==
    CHOOSE k \in DOMAIN p :
       p[k].name = n /\ \A i \in DOMAIN p : p[i].name = n => k <= i
Header(e) == package[FirstNamed(package, Name(e))]

\* No other entry has the name of e.
Sole(e) == \A k \in DOMAIN package : Name(k) = Name(e) => k = e

\* filesToDecompress: the files, not the folders, whose name matches the pattern.
Selected == {e \in listed : IsFile(e) /\ Name(e) \in Pattern}

Fresh ==
    /\ main' = "ready"
    /\ job' = "off"
    /\ jobStatus' = "kNone"
    /\ listed' = {}
    /\ collected' = {}
    /\ errors' = 0
    /\ verified' = FALSE
    /\ status' = [e \in Positions |-> "new"]
    /\ gone' = FALSE
    /\ pc' = [e \in Positions |-> "none"]
    /\ pos' = [e \in Positions |-> 0]
    /\ result' = [e \in Positions |-> "kNone"]
    /\ processed' = [e \in Positions |-> 0]
    /\ held' = {}

Init ==
    /\ package \in Packages
    /\ disk \in InitialDisks
    /\ skipCRC \in BOOLEAN
    /\ main = "ready"
    /\ job = "off"
    /\ jobStatus = "kNone"
    /\ listed = {}
    /\ collected = {}
    /\ errors = 0
    /\ verified = FALSE
    /\ Pool!Init
    /\ pc = [e \in Positions |-> "none"]
    /\ pos = [e \in Positions |-> 0]
    /\ result = [e \in Positions |-> "kNone"]
    /\ processed = [e \in Positions |-> 0]
    /\ held = {}
    /\ runs = 1

Alive == main # "dead"
Die == main' = "dead"

--------------------------------------------------------------------------------
(* The main thread *)

Run ==
    /\ main = "ready"
    /\ main' = "polling"
    /\ jobStatus' = "kRunning"
    /\ job' = "init"
    /\ UNCHANGED <<package, disk, skipCRC, listed, collected, errors, verified, status, gone, taskVars, runs>>

\* Mistake: a job that failed is not done.
BugIsDone == jobStatus = "kFinished"

IsDone == jobStatus \in {"kFinished", "kError"}

\* Join asks every 50 ms whether the job is done,
PollDone ==
    /\ main = "polling"
    /\ IsDone
    /\ main' = "joining"
    /\ UNCHANGED <<package, disk, skipCRC, jobVars, verified, status, gone, taskVars, runs>>

\* and then joins its thread.
JoinThread ==
    /\ main = "joining"
    /\ job = "ended"
    /\ main' = "returned"
    /\ UNCHANGED <<package, disk, skipCRC, jobVars, verified, status, gone, taskVars, runs>>

Main == Run \/ PollDone \/ JoinThread

--------------------------------------------------------------------------------
(* The thread of the job: RunDecompressionJob *)

\* ZZipAPI::Init fails: SetError, and the thread is over.
OpenFails ==
    /\ Alive /\ job = "init"
    /\ "open" \in Faults
    /\ jobStatus' = "kError"
    /\ job' = "ended"
    /\ UNCHANGED <<package, disk, skipCRC, main, listed, collected, errors, verified, status, gone, taskVars, runs>>

\* OpenForReading does not look at what cZipCD::Init returns: a central directory
\* that cannot be read is one without entries.
Open ==
    /\ Alive /\ job = "init"
    /\ \/ listed' = DOMAIN package
       \/ "directory" \in Faults /\ listed' = {}
    /\ job' = "enqueue"
    /\ UNCHANGED <<package, disk, skipCRC, main, jobStatus, collected, errors, verified, status, gone, taskVars, runs>>

Enqueue(e) ==
    /\ Alive /\ job = "enqueue"
    /\ e \in Selected /\ status[e] = "new"
    /\ \A k \in Selected : status[k] = "new" => e <= k
    /\ Pool!Submit(e)
    /\ UNCHANGED <<package, disk, skipCRC, main, jobVars, verified, taskVars, runs>>

EnqueueDone ==
    /\ Alive /\ job = "enqueue"
    /\ \A e \in Selected : status[e] # "new"
    /\ job' = "collect"
    /\ UNCHANGED <<package, disk, skipCRC, main, jobStatus, listed, collected, errors, verified, status, gone, taskVars, runs>>

\* result.get(), in the order of the futures; nobody catches what a task has thrown.
Collect(e) ==
    /\ Alive /\ job = "collect"
    /\ e \in Selected \ collected
    /\ \A k \in Selected \ collected : e <= k
    /\ status[e] = "done"
    /\ IF result[e] = "threw"
       THEN /\ Die
            /\ UNCHANGED <<collected, errors>>
       ELSE /\ collected' = collected \cup {e}
            /\ errors' = IF result[e] = "kError" THEN errors + 1 ELSE errors
            /\ UNCHANGED main
    /\ UNCHANGED <<package, disk, skipCRC, job, jobStatus, listed, verified, status, gone, taskVars, runs>>

\* Mistake: the results that are missing are not waited for.
BugAllCollected == \A e \in Selected : status[e] # "queued"

AllCollected == Selected \subseteq collected

SetStatus ==
    /\ Alive /\ job = "collect"
    /\ AllCollected
    /\ jobStatus' = IF errors = 0 THEN "kFinished" ELSE "kError"
    /\ job' = "report"
    /\ UNCHANGED <<package, disk, skipCRC, main, listed, collected, errors, verified, status, gone, taskVars, runs>>

\* The rate of the verification: nTotalTimeOnFileVerification / 1000 is zero.
DivideByZero ==
    /\ Alive /\ job = "report"
    /\ ~skipCRC /\ verified /\ "fast" \in Faults
    /\ Die
    /\ UNCHANGED <<package, disk, skipCRC, jobVars, verified, status, gone, taskVars, runs>>

\* After the report the status is kFinished, whatever it was.
Report ==
    /\ Alive /\ job = "report"
    /\ jobStatus' = "kFinished"
    /\ job' = "destroy"
    /\ UNCHANGED <<package, disk, skipCRC, main, listed, collected, errors, verified, status, gone, taskVars, runs>>

\* The pool, declared last, is the first to be destroyed.
DestroyPool ==
    /\ Alive /\ job = "destroy"
    /\ Pool!Destroy
    /\ job' = "ended"
    /\ UNCHANGED <<package, disk, skipCRC, main, jobStatus, listed, collected, errors, verified, taskVars, runs>>

Job ==
    \/ OpenFails \/ Open \/ EnqueueDone \/ SetStatus \/ DivideByZero \/ Report \/ DestroyPool
    \/ \E e \in Positions : Enqueue(e) \/ Collect(e)

--------------------------------------------------------------------------------
(* The task of an entry *)

\* create_directories may throw; the future keeps the exception.
Throw(e) ==
    /\ Alive /\ "throw" \in Faults
    /\ status[e] = "running" /\ pc[e] = "none"
    /\ Pool!Finish(e)
    /\ result' = [result EXCEPT ![e] = "threw"]
    /\ pc' = [pc EXCEPT ![e] = "end"]
    /\ UNCHANGED <<package, disk, skipCRC, main, jobVars, verified, pos, processed, held, runs>>

Start(e) ==
    /\ Alive
    /\ Pool!Start(e)
    /\ UNCHANGED <<package, disk, skipCRC, main, jobVars, verified, taskVars, runs>>

Return(e, r) ==
    /\ Pool!Finish(e)
    /\ result' = [result EXCEPT ![e] = r]
    /\ pc' = [pc EXCEPT ![e] = "end"]

\* The folder is there.
Begin(e) ==
    /\ Alive /\ status[e] = "running" /\ pc[e] = "none"
    /\ pc' = [pc EXCEPT ![e] = IF skipCRC THEN "decompress" ELSE "verify"]
    /\ UNCHANGED <<package, disk, skipCRC, main, jobVars, verified, status, gone, pos, result, processed, held, runs>>

\* Mistakes: only a file that is too long has another size; the size is not compared.
BugSizeDiffersShort(e) == disk[Name(e)] = NoFile \/ Len(disk[Name(e)]) > Len(Data(e))
BugSizeDiffersAlways(e) == TRUE

SizeDiffers(e) == disk[Name(e)] = NoFile \/ Len(disk[Name(e)]) # Len(Data(e))

VerifySize(e) ==
    /\ Alive /\ pc[e] = "verify"
    /\ pc' = [pc EXCEPT ![e] = IF SizeDiffers(e) THEN "decompress" ELSE "crc"]
    /\ verified' = (verified \/ SizeDiffers(e))
    /\ UNCHANGED <<package, disk, skipCRC, main, jobVars, status, gone, pos, result, processed, held, runs>>

\* A file that cannot be opened is taken for one that is missing, whatever is in it.
VerifyHeld(e) ==
    /\ Alive /\ pc[e] = "verify"
    /\ "hold" \in Faults /\ disk[Name(e)] # NoFile
    /\ held' = held \cup {e}
    /\ pc' = [pc EXCEPT ![e] = "decompress"]
    /\ verified' = TRUE
    /\ UNCHANGED <<package, disk, skipCRC, main, jobVars, status, gone, pos, result, processed, runs>>

\* The loop reads until it has seen as many bytes as the file had when it was
\* opened.  A file that has become shorter, or 2^32 bytes and more, keeps it there;
\* so does a read that fails, for its result is not looked at.
NeverRead(e) == Len(disk[Name(e)]) < Len(Data(e)) \/ Len(Data(e)) >= CounterLimit

ReadForEver(e) ==
    /\ Alive /\ pc[e] = "crc"
    /\ NeverRead(e) \/ "verify" \in Faults
    /\ pc' = [pc EXCEPT ![e] = "hung"]
    /\ UNCHANGED <<package, disk, skipCRC, main, jobVars, verified, status, gone, pos, result, processed, held, runs>>

\* Mistake: the CRC is not compared.
BugMatches(e) == Len(disk[Name(e)]) = Len(Data(e))

Matches(e) == disk[Name(e)] = Data(e)

UpToDate(e) ==
    /\ Alive /\ pc[e] = "crc"
    /\ ~NeverRead(e) /\ Matches(e)
    /\ processed' = [processed EXCEPT ![e] = Len(Data(e))]
    /\ verified' = TRUE
    /\ Return(e, "kAlreadyUpToDate")
    /\ UNCHANGED <<package, disk, skipCRC, main, jobVars, pos, held, runs>>

CRCDiffers(e) ==
    /\ Alive /\ pc[e] = "crc"
    /\ ~NeverRead(e) /\ ~Matches(e)
    /\ verified' = TRUE
    /\ pc' = [pc EXCEPT ![e] = "decompress"]
    /\ UNCHANGED <<package, disk, skipCRC, main, jobVars, status, gone, pos, result, processed, held, runs>>

\* DecompressToFile returns false before it opens the file, or at a block: what was
\* written so far stays.
DecompressFails(e) ==
    /\ Alive /\ pc[e] \in {"decompress", "write"}
    /\ pc[e] = "write" => pos[e] < Len(Header(e).data)
    /\ Faults \cap {"read", "write"} # {} \/ (pc[e] = "decompress" /\ e \in held)
    /\ Return(e, "kError")
    /\ UNCHANGED <<package, disk, skipCRC, main, jobVars, verified, pos, processed, held, runs>>

\* The file is opened with ios_base::trunc.
OpenOutput(e) ==
    /\ Alive /\ pc[e] = "decompress"
    /\ disk' = [disk EXCEPT ![Name(e)] = <<>>]
    /\ pc' = [pc EXCEPT ![e] = "write"]
    /\ UNCHANGED <<package, skipCRC, main, jobVars, verified, status, gone, pos, result, processed, held, runs>>

\* The content f with the block b at position k; what was not written before it is
\* a hole.
Put(f, k, b) ==
    [i \in 1 .. (IF Len(f) < k THEN k ELSE Len(f)) |->
        IF i = k THEN b ELSE IF i <= Len(f) THEN f[i] ELSE Garbage]

\* Mistake: the last block is not cut to what remains.
BugNextPos(e) == pos[e] + 2

NextPos(e) == pos[e] + 1

\* Mistake: a block counts as if it were the whole file.
BugAdded(e) == Len(Data(e))

\* Only what was decompressed counts: the call of ExtractRawStream leaves pProgress out.
Added(e) == IF Header(e).kind = "deflated" THEN 1 ELSE 0

WriteBlock(e) ==
    /\ Alive /\ pc[e] = "write"
    /\ pos[e] < Len(Header(e).data)
    /\ \E b \in {Header(e).data[pos[e] + 1]} \cup (IF "mislead" \in Faults THEN {Garbage} ELSE {}) :
          disk' = [disk EXCEPT ![Name(e)] = Put(disk[Name(e)], pos[e] + 1, b)]
    /\ pos' = [pos EXCEPT ![e] = NextPos(e)]
    /\ processed' = [processed EXCEPT ![e] = processed[e] + Added(e)]
    /\ UNCHANGED <<package, skipCRC, main, jobVars, verified, status, gone, pc, result, held, runs>>

\* What the file is after the stream has been closed.
Closed(f) ==
    {f} \cup (IF "close" \in Faults /\ f # <<>> THEN {SubSeq(f, 1, Len(f) - 1)} ELSE {})

CloseOutput(e) ==
    /\ Alive /\ pc[e] = "write"
    /\ pos[e] >= Len(Header(e).data)
    /\ \E f \in Closed(disk[Name(e)]) : disk' = [disk EXCEPT ![Name(e)] = f]
    /\ Return(e, "kExtracted")
    /\ UNCHANGED <<package, skipCRC, main, jobVars, verified, pos, processed, held, runs>>

Task(e) ==
    \/ Start(e) \/ Throw(e) \/ Begin(e)
    \/ VerifySize(e) \/ VerifyHeld(e) \/ ReadForEver(e) \/ UpToDate(e) \/ CRCDiffers(e)
    \/ DecompressFails(e) \/ OpenOutput(e) \/ WriteBlock(e) \/ CloseOutput(e)

--------------------------------------------------------------------------------
(* The process *)

Kill ==
    /\ Alive /\ main # "ready"
    /\ "kill" \in Faults
    /\ Die
    /\ UNCHANGED <<package, disk, skipCRC, jobVars, verified, status, gone, taskVars, runs>>

NewProcess ==
    /\ main \in {"returned", "dead"}
    /\ runs < MaxRuns
    /\ runs' = runs + 1
    /\ skipCRC' \in BOOLEAN
    /\ Fresh
    /\ UNCHANGED <<package, disk>>

Next ==
    \/ Main \/ Job
    \/ \E e \in Positions : Task(e)
    \/ Kill \/ NewProcess

\* The operating system runs every thread; nothing makes a new process start.
Fairness == WF_vars(Main) /\ WF_vars(Job) /\ \A e \in Positions : WF_vars(Task(e))

Spec == Init /\ [][Next]_vars /\ Fairness

--------------------------------------------------------------------------------
(* Properties *)

\* Every variable has its type; a task is somewhere in its function exactly while
\* the pool runs it, and it never writes past the end of its file.
TypeOK ==
    /\ package \in Packages
    /\ disk \in [Names -> Contents]
    /\ skipCRC \in BOOLEAN
    /\ main \in {"ready", "polling", "joining", "returned", "dead"}
    /\ job \in {"off", "init", "enqueue", "collect", "report", "destroy", "ended"}
    /\ jobStatus \in {"kNone", "kRunning", "kFinished", "kError"}
    /\ listed \subseteq DOMAIN package
    /\ collected \subseteq Selected
    /\ errors \in Nat
    /\ verified \in BOOLEAN
    /\ status \in [Positions -> {"new", "queued", "running", "done"}]
    /\ gone \in BOOLEAN
    /\ pc \in [Positions -> {"none", "verify", "crc", "hung", "decompress", "write", "end"}]
    /\ pos \in [Positions -> Nat]
    /\ result \in [Positions -> {"kNone", "kAlreadyUpToDate", "kExtracted", "kError", "threw"}]
    /\ processed \in [Positions -> Nat]
    /\ held \subseteq Positions
    /\ runs \in 1 .. MaxRuns
    /\ \A e \in Positions :
          /\ status[e] # "new" => e \in Selected
          /\ pc[e] = "end" <=> status[e] = "done"
          /\ pc[e] \notin {"none", "end"} => status[e] = "running"
          /\ pos[e] > 0 => pos[e] <= Len(Header(e).data)

\* An application that sees the job done, in IsDone or after Join, finds every task
\* at its end: nothing writes to the folder any more.
DoneMeansQuiet ==
    IsDone => \A e \in Positions : status[e] \in {"new", "done"}

\* When the results are all in, no error was counted and the archive's directory was
\* there, every file that matches the pattern is on disk as it is in the archive,
\* whatever earlier processes that were killed left behind.
CleanMeansSynced ==
    job \in {"report", "destroy", "ended"} /\ errors = 0 =>
       \A e \in Selected : Sole(e) => disk[Name(e)] = Data(e)

\* A step of an update never touches a file that is as it is in the archive, so a
\* process that is killed spoils no file that was good; unless the file could not be
\* opened when it was to be verified, for then it is written anew.
GoodFilesSurvive ==
    [][~skipCRC =>
          \A e \in DOMAIN package \ held :
             IsFile(e) /\ Sole(e) /\ disk[Name(e)] = Data(e) => disk'[Name(e)] = Data(e)]_vars

\* mnBytesProcessed never exceeds mnBytesToProcess (GetEstimatedSecondsRemaining
\* subtracts them, unsigned): no file counts for more than it added.
ProgressBounded ==
    \A e \in Selected : Sole(e) => processed[e] <= Len(Data(e))

\* Only a file of 2^32 bytes or more, or one that two entries write, keeps a task in
\* its loop for ever.
OnlyKnownHangs ==
    \A e \in Positions :
       pc[e] = "hung" => ~Sole(e) \/ Len(Data(e)) >= CounterLimit

\* A job that was started ends: Join returns, unless a task hangs or the process dies.
JobEnds == main = "polling" ~> main \in {"returned", "dead"} \/ \E e \in Positions : pc[e] = "hung"

\* Only a task that throws, or somebody outside, ends the process: a job that has its
\* results reports them and returns.
ReportReturns ==
    main = "dead" => "kill" \in Faults \/ \E e \in Positions : result[e] = "threw"

\* A job that says it has finished has extracted every file that is new or different.
FinishedMeansSynced ==
    main = "returned" /\ jobStatus = "kFinished" =>
       \A e \in DOMAIN package :
          IsFile(e) /\ Name(e) \in Pattern /\ Sole(e) => disk[Name(e)] = Data(e)
================================================================================
