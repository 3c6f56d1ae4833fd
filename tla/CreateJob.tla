------------------------------ MODULE CreateJob ------------------------------
(***************************************************************************)
(* The job that creates an archive (the command "create"): the main thread *)
(* that starts the job and joins it, and the thread of the job, which adds *)
(* the files it found one by one (ZZipAPI::AddToZipFile) and, in the       *)
(* destructor of ZZipAPI, writes the central directory.  How a file gets   *)
(* compressed is the subject of ZCompressor; here a stream is some bytes.  *)
(***************************************************************************)
EXTENDS ZipRecords, LocalFile

CONSTANTS
    Folders,        \* the paths of folders
    EmptyFiles,     \* the paths of files without content
    FolderName,     \* a path with a '/' behind it
    Jobs,           \* filesToCompress: what the job may find to add
    MaxOutput,      \* the most a compressor puts out at once
    MaxStream,      \* bound: the size of the largest stream
    DataTags,       \* what a piece of compressed data may look like
    JobFaults       \* of "create", "open", "gone", "read", "throw" and "kill"

ASSUME JobAssumption ==
    /\ Folders \subseteq Names /\ EmptyFiles \subseteq Names
    /\ FolderName \in [Names -> Names]
    /\ Jobs \subseteq Seq(Names)
    /\ \A j \in Jobs : \A k, l \in DOMAIN j : j[k] = j[l] => k = l
    /\ MaxOutput \in Nat \ {0} /\ MaxStream \in Nat \ {0}
    /\ DataTags \subseteq Tags \cup {"none"}
    /\ Gap = Hole

VARIABLES
    main,       \* the main thread: "polling", "joining", "returned" or "dead"
    job,        \* the job's thread, by what it does next
    jobStatus,  \* mJobStatus.mStatus
    todo,       \* filesToCompress
    nth,        \* which of them is being added, then which header is written
    entry,      \* newLocalHeader, and nOffsetToLocalFileHeader in it
    skipped,    \* the positions in todo of the files that could not be added
    gone,       \* the positions of those that are no file any more
    list,       \* mZipCD.mCDFileHeaderList
    start       \* mZip64EndOfCDRecord.mCDStartOffset, then mZip64EndofCDOffset

jobVars == <<main, job, jobStatus, todo, nth, entry, skipped, gone, list, start>>
vars == <<fileVars, jobVars>>

NoEntry == [name |-> NoName, offset |-> 0, size |-> 0]

Init ==
    /\ FileInit
    /\ main = "polling" /\ job = "create" /\ jobStatus = "running"
    /\ todo \in Jobs
    /\ nth = 1 /\ entry = NoEntry /\ skipped = {} /\ gone = {} /\ list = <<>> /\ start = 0

\* The folder does not exist, or the archive cannot be created in its place.
CreateFails ==
    /\ job = "create" /\ "create" \in JobFaults
    /\ jobStatus' = "error"
    /\ job' = "ended"
    /\ UNCHANGED <<fileVars, main, todo, nth, entry, skipped, gone, list, start>>

Create ==
    /\ job = "create"
    /\ job' = "next"
    /\ UNCHANGED <<fileVars, main, jobStatus, todo, nth, entry, skipped, gone, list, start>>

StartFile ==
    /\ job = "next" /\ nth <= Len(todo) /\ todo[nth] \notin Folders
    /\ entry' = [name |-> todo[nth], offset |-> mnFileSize, size |-> 0]
    /\ job' = IF todo[nth] \in EmptyFiles THEN "header" ELSE "stream"
    /\ UNCHANGED <<fileVars, main, jobStatus, todo, nth, skipped, gone, list, start>>

\* What is no regular file is added as a folder, a file that was deleted as well.
StartFolder ==
    /\ job = "next" /\ nth <= Len(todo)
    /\ todo[nth] \in Folders \/ "gone" \in JobFaults
    /\ entry' = [name |-> FolderName[todo[nth]], offset |-> mnFileSize, size |-> 0]
    /\ gone' = IF todo[nth] \in Folders THEN gone ELSE gone \cup {nth}
    /\ job' = "header"
    /\ UNCHANGED <<fileVars, main, jobStatus, todo, nth, skipped, list, start>>

\* Operators named Bug... are the definition that follows with one mistake in it; no
\* action uses them.  They show which property notices the mistake.

\* Mistake: the file is tried again.
BugSkip ==
    /\ job' = "next"
    /\ UNCHANGED <<main, jobStatus, todo, nth, entry, skipped, gone, list, start>>

\* AddToZipFile returns false, which the job does not look at.
Skip ==
    /\ skipped' = skipped \cup {nth}
    /\ nth' = nth + 1
    /\ job' = "next"
    /\ UNCHANGED <<main, jobStatus, todo, entry, gone, list, start>>

\* The file cannot be opened, or cannot be read any further.
InputFails ==
    /\ \/ job = "next" /\ nth <= Len(todo) /\ todo[nth] \notin Folders /\ "open" \in JobFaults
       \/ job = "stream" /\ "read" \in JobFaults
    /\ Skip
    /\ UNCHANGED fileVars

\* Mistake: the name is left out of the header's size.
BugStreamOffset == entry.offset + kStaticDataSize + kExtendedFieldLength

\* Where the stream begins: behind the place of the header, which is written last.
StreamOffset == entry.offset + HeaderSize(entry.name)

Output ==
    {Data(entry.name, entry.size + 1, n, t) : n \in 1 .. MaxOutput, t \in DataTags}

AddOutput ==
    /\ job = "stream"
    /\ \E d \in Output :
          /\ entry.size + Len(d) <= MaxStream
          /\ \/ /\ Write(StreamOffset + entry.size, d)
                /\ entry' = [entry EXCEPT !.size = @ + Len(d)]
                /\ UNCHANGED <<main, job, jobStatus, todo, nth, skipped, gone, list, start>>
             \/ WriteFails(StreamOffset + entry.size, d) /\ Skip

StreamDone ==
    /\ job = "stream" /\ entry.size > 0
    /\ job' = "header"
    /\ UNCHANGED <<fileVars, main, jobStatus, todo, nth, entry, skipped, gone, list, start>>

AddHeader ==
    /\ job = "header"
    /\ \/ /\ Write(entry.offset, LocalHeader(entry))
          /\ list' = Append(list, entry)
          /\ nth' = nth + 1
          /\ job' = "next"
          /\ UNCHANGED <<main, jobStatus, todo, entry, skipped, gone, start>>
       \/ WriteFails(entry.offset, LocalHeader(entry)) /\ Skip

\* The job is reported as finished, and only then is zipAPI destroyed.
Finish ==
    /\ job = "next" /\ nth > Len(todo)
    /\ jobStatus' = "finished"
    /\ job' = "shutdown"
    /\ UNCHANGED <<fileVars, main, todo, nth, entry, skipped, gone, list, start>>

\* ZZipAPI::Shutdown and cZipCD::ComputeCDRecords.
Shutdown ==
    /\ job = "shutdown"
    /\ start' = mnFileSize
    /\ nth' = 1
    /\ job' = "cd"
    /\ UNCHANGED <<fileVars, main, jobStatus, todo, entry, skipped, gone, list>>

\* Each header and record goes to the end; if writing one fails the next is tried.
AtEnd(cells) == Write(Len(file), cells) \/ WriteFails(Len(file), cells)

WriteCDHeader ==
    /\ job = "cd" /\ nth <= Len(list)
    /\ AtEnd(CDHeader(list[nth]))
    /\ nth' = nth + 1
    /\ UNCHANGED <<main, job, jobStatus, todo, entry, skipped, gone, list, start>>

\* Afterwards start is what the locator is to say.
WriteRec64 ==
    /\ job = "cd" /\ nth > Len(list)
    /\ AtEnd(Rec64(start, list))
    /\ start' = mnFileSize
    /\ job' = "locator"
    /\ UNCHANGED <<main, jobStatus, todo, nth, entry, skipped, gone, list>>

WriteLocator ==
    /\ job = "locator"
    /\ AtEnd(Locator(start))
    /\ job' = "end of cd"
    /\ UNCHANGED <<main, jobStatus, todo, nth, entry, skipped, gone, list, start>>

\* Then the archive is closed, and the thread ends.
WriteEndOfCD ==
    /\ job = "end of cd"
    /\ AtEnd(EndOfCD(list))
    /\ job' = "ended"
    /\ UNCHANGED <<main, jobStatus, todo, nth, entry, skipped, gone, list, start>>

\* What the job's thread is writing; nothing, if it is doing something else.
Pending ==
    CASE job = "stream"   -> {<<StreamOffset + entry.size, d>> : d \in Output}
      [] job = "header"   -> {<<entry.offset, LocalHeader(entry)>>}
      [] job = "cd"       -> {<<Len(file), IF nth <= Len(list) THEN CDHeader(list[nth]) ELSE Rec64(start, list)>>}
      [] job = "locator"  -> {<<Len(file), Locator(start)>>}
      [] job = "end of cd" -> {<<Len(file), EndOfCD(list)>>}
      [] OTHER            -> {<<Len(file), <<>>>>}

Die ==
    /\ job' = "dead" /\ main' = "dead"
    /\ UNCHANGED <<jobStatus, todo, nth, entry, skipped, gone, list, start>>

\* The process is killed, perhaps while the job's thread writes.
Kill ==
    /\ "kill" \in JobFaults /\ main \notin {"returned", "dead"}
    /\ \/ failbit /\ UNCHANGED fileVars
       \/ \E w \in Pending : Torn(w[1], w[2])
    /\ Die

\* std::filesystem throws: a folder cannot be listed, or the file that is to be added
\* is gone after it was opened.
Throw ==
    /\ "throw" \in JobFaults
    /\ job = "next"
    /\ nth = 1 \/ (nth <= Len(todo) /\ todo[nth] \notin Folders)
    /\ UNCHANGED fileVars
    /\ Die

\* ZipJob::Join: sleeps until IsDone, then joins the thread.
Poll ==
    /\ main = "polling" /\ jobStatus \in {"finished", "error"}
    /\ main' = "joining"
    /\ UNCHANGED <<fileVars, job, jobStatus, todo, nth, entry, skipped, gone, list, start>>

Join ==
    /\ main = "joining" /\ job = "ended"
    /\ main' = "returned"
    /\ UNCHANGED <<fileVars, job, jobStatus, todo, nth, entry, skipped, gone, list, start>>

JobNext ==
    \/ Create \/ CreateFails \/ StartFile \/ StartFolder \/ InputFails \/ AddOutput \/ StreamDone \/ AddHeader
    \/ Finish \/ Shutdown \/ WriteCDHeader \/ WriteRec64 \/ WriteLocator \/ WriteEndOfCD
    \/ Throw

MainNext == Poll \/ Join

Next == JobNext \/ MainNext \/ Kill

\* Both threads get on.
Spec == Init /\ [][Next]_vars /\ WF_vars(JobNext) /\ WF_vars(MainNext)

TypeOK ==
    /\ file \in Seq(Cell) /\ mnFileSize \in 0 .. Len(file) /\ failbit \in BOOLEAN
    /\ main \in {"polling", "joining", "returned", "dead"}
    /\ job \in {"create", "next", "stream", "header", "shutdown", "cd", "locator", "end of cd", "ended", "dead"}
    /\ jobStatus \in {"running", "finished", "error"}
    /\ todo \in Jobs
    /\ nth \in 1 .. Len(todo) + 1
    /\ entry \in Entry \cup {NoEntry} /\ skipped \subseteq DOMAIN todo /\ gone \subseteq DOMAIN todo
    /\ list \in Seq(Entry) /\ Len(list) <= Len(todo)
    /\ start \in Nat

\* Where an entry of the directory points at there are its own header and its own
\* stream, whole: no failed add, and nothing written later, touches them.
EntriesIntact == \A k \in DOMAIN list : Intact(file, list[k])

\* The names of what was not skipped, in the order it was found in.
Kept ==
    LET added[k \in 0 .. Len(todo)] ==
           IF k = 0 THEN <<>>
           ELSE IF k \in skipped THEN added[k - 1]
           ELSE Append(added[k - 1], IF k \in gone \cup {i \in DOMAIN todo : todo[i] \in Folders}
                                     THEN FolderName[todo[k]] ELSE todo[k])
    IN  added[Len(todo)]

\* When main returns from a job that finished, the archive can be opened unless writing
\* it failed, and its directory lists every file that could be read.  A file that was
\* deleted meanwhile is listed as a folder.
FinishedIsReadable ==
    main = "returned" /\ jobStatus = "finished" /\ ~failbit /\ CDSize(list) <= kMaxReasonableCDBytes =>
       /\ CanOpen(file)
       /\ Listed(file) = list
       /\ [k \in DOMAIN list |-> list[k].name] = Kept

\* A process that opens the archive while it is written, or after its writer failed or
\* died, gets the whole directory or none; unless data looks like the end of one.
NeverHalfListed ==
    (\A i \in DOMAIN file : file[i].part = "data" => file[i].tag # "eocd") =>
       (CanOpen(file) => Listed(file) = list)

\* The job ends, one way or the other, and main returns.
JobEnds == <>(main \in {"returned", "dead"})
==============================================================================
