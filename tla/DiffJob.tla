------------------------------- MODULE DiffJob -------------------------------
(***************************************************************************)
(* The diff and list jobs of ZipJob.cpp: the main thread, the thread of the *)
(* job that reads the directory of an archive (ZipReader), the pool with a  *)
(* task per entry and, for a diff, per path that is not in the archive, and *)
(* other programs that change the folder meanwhile.                         *)
(*                                                                         *)
(* A file is a sequence of blocks, its size the length of the sequence.     *)
(* Files of one size with the same CRC are taken to be the same.            *)
(***************************************************************************)
EXTENDS ForeignZip, NamePattern

CONSTANTS
    Packages,       \* the archives; see ForeignZip
    MaxEntries,     \* no archive has more entries
    Paths,          \* the paths in the base folder, and that of the base folder
    Base,           \* the base folder
    Parent,         \* Parent[p] : the folder that p is in
    Folder,         \* what is at a path where there is a folder
    NoFile,         \* what is at a path where there is nothing
    InitialDisks,   \* what may be on disk before the job
    NewContents,    \* what other programs write
    MaxChanges,     \* bound: how often they change something
    Bars,           \* what may be barred
    ReadSize,       \* kCalcBufferSize of FileNeedsUpdate, in blocks
    CounterLimit,   \* 2^32: nBytesProcessed of FileNeedsUpdate is a uint32_t
    Spelling,       \* Spelling[n] : the characters of the name n
    Characters,     \* those of patterns: none means anything else to a std::regex
    Patterns        \* the patterns a list job may be given

Positions == 1 .. MaxEntries
Tasks == Positions \cup Paths

\* A name in an archive is that of a path, with a slash behind it for a folder.
NameOf(p, slash) == [path |-> p, slash |-> slash]

Contents == Seq(Blocks)
Listing ==
    [name : Names \cup {NoName}, crc : Contents \cup {NoData}, usize : Nat, csize : Nat, offset : Nat]

\* What parsing makes of a header: with a name it has the checksum and the size of a file.
IsListing(h) ==
    /\ h \in Listing
    /\ h.name # NoName => h.crc \in Contents /\ Len(h.crc) = h.usize

ASSUME NameAssumption ==
    /\ Names \subseteq [path : Paths, slash : BOOLEAN]
    /\ Base \in Paths /\ Parent \in [Paths \ {Base} -> Paths]
    /\ Paths \cap Positions = {} /\ NoFile \notin Paths
\* Every path is somewhere below the base folder.
ASSUME TreeAssumption ==
    \A below \in SUBSET Paths :
       Base \in below /\ (\A p \in Paths \ {Base} : Parent[p] \in below => p \in below) => below = Paths
ASSUME ContentsAssumption ==
    /\ Folder # NoFile /\ {Folder, NoFile, NoData} \cap Contents = {}
    /\ InitialDisks \subseteq [Paths -> Contents \cup {Folder, NoFile}]
    /\ \A d \in InitialDisks, p \in Paths \ {Base} : d[p] # NoFile => d[Parent[p]] = Folder
    /\ NewContents \subseteq Contents
ASSUME PackageAssumption ==
    /\ MaxEntries \in Nat
    /\ \A w \in Packages :
          /\ IsForeign(w)
          /\ CanOpen(Layout(w)) =>
                /\ Listed(Layout(w)) \in Seq(Listing) /\ Len(Listed(Layout(w))) <= MaxEntries
                /\ \A k \in DOMAIN Listed(Layout(w)) : IsListing(Listed(Layout(w))[k])
\* A name is that of a path relative to the base folder.
ASSUME SpellingAssumption ==
    /\ Patterns \subseteq Seq(Characters)
    /\ \A n \in Names :
          /\ Spelling[n] \in Seq(STRING)
          /\ \A i \in DOMAIN Spelling[n] : Spelling[n][i] = "/" => i > 1 /\ Spelling[n][i - 1] # "/"
ASSUME BarsAssumption == Bars \subseteq SUBSET Paths
ASSUME BoundAssumption ==
    ReadSize \in Nat \ {0} /\ CounterLimit \in Nat \ {0} /\ MaxChanges \in Nat

VARIABLES
    package,    \* the archive
    jobType,    \* mJobType: "kDiff" or "kList"
    pattern,    \* msPattern
    barred,     \* the paths of which the system may refuse something: those that other
                \* programs hold, that the user has no right to, or whose name the code
                \* page has no characters for
    disk,       \* disk[p] : a file, Folder or NoFile
    disks,      \* what disk was since the job's thread was started
    changes,    \* how often other programs have changed it
    main,       \* the main thread: "ready", "polling", "joining", "returned" or "dead"
    job,        \* the job's thread, by the part of the function it is at
    jobStatus,  \* mJobStatus.mStatus
    listed,     \* mCDFileHeaderList
    printed,    \* what DumpCD has printed
    pending,    \* the paths the iterator has still to come to, with what it takes them for
    entering,   \* the folder it opens next, or NoFile
    entered,    \* the folders it has opened
    found,      \* found[p] : what became of the path p: "unseen", "in package" or a result
    futures,    \* diffResults
    collected,  \* how many of them the job has read
    allMatch,   \* bAllMatch, as the report says it: "none" so far, "yes" or "no"
    status,     \* of TaskRunner: the state of each task
    gone,       \* of TaskRunner: the pool has been destroyed
    pc,         \* pc[t] : where the task t is
    got,        \* got[t] : the blocks it has read
    result      \* result[t] : what it returned

input == <<package, jobType, pattern, barred>>
env == <<disk, disks, changes>>
walk == <<pending, entering, entered, found>>
report == <<futures, collected, allMatch>>
jobVars == <<job, jobStatus, listed, printed, walk, report>>
pool == <<status, gone>>
taskVars == <<pc, got, result>>
vars == <<input, env, main, jobVars, pool, taskVars>>

Pool == INSTANCE TaskRunner

Init ==
    /\ package \in Packages
    /\ jobType \in {"kDiff", "kList"}
    /\ pattern \in IF jobType = "kList" THEN Patterns ELSE {<<>>}
    /\ barred \in Bars
    /\ disk \in InitialDisks
    /\ disks = {disk}
    /\ changes = 0
    /\ main = "ready"
    /\ job = "off"
    /\ jobStatus = "kNone"
    /\ listed = <<>>
    /\ printed = {}
    /\ pending = {} /\ entering = NoFile /\ entered = {}
    /\ found = [p \in Paths |-> "unseen"]
    /\ futures = <<>> /\ collected = 0 /\ allMatch = "none"
    /\ Pool!Init
    /\ pc = [t \in Tasks |-> "none"]
    /\ got = [t \in Tasks |-> <<>>]
    /\ result = [t \in Tasks |-> "kNone"]

\* Nothing runs any more in a process that is dead.
Alive == main # "dead"
Die == main' = "dead"

\* Operators named Bug... are the definition that follows with one mistake in it; no
\* action uses them.  They show which property notices the mistake.

------------------------------------------------------------------------------
(* The main thread *)

Run ==
    /\ main = "ready"
    /\ main' = "polling"
    /\ jobStatus' = "kRunning"
    /\ job' = "open"
    /\ UNCHANGED <<input, env, listed, printed, walk, report, pool, taskVars>>

IsDone == jobStatus \in {"kFinished", "kError"}

\* Join asks every 50 ms whether the job is done,
PollDone ==
    /\ main = "polling"
    /\ IsDone
    /\ main' = "joining"
    /\ UNCHANGED <<input, env, jobVars, pool, taskVars>>

\* and then joins its thread.
JoinThread ==
    /\ main = "joining"
    /\ job = "ended"
    /\ main' = "returned"
    /\ UNCHANGED <<input, env, jobVars, pool, taskVars>>

Main == Run \/ PollDone \/ JoinThread

------------------------------------------------------------------------------
(* The thread of the job *)

\* cZZFile::Open, or a read in cZipCD::Init, fails, or Init finds no directory: SetError.
OpenFails ==
    /\ Alive /\ job = "open"
    /\ jobStatus' = "kError"
    /\ job' = "ended"
    /\ UNCHANGED <<input, env, main, listed, printed, walk, report, pool, taskVars>>

ReadDirectory ==
    /\ Alive /\ job = "open"
    /\ CanOpen(Layout(package))
    /\ listed' = Listed(Layout(package))
    /\ job' = IF jobType = "kList" THEN "list" ELSE "enqueue"
    /\ UNCHANGED <<input, env, main, jobStatus, printed, walk, report, pool, taskVars>>

\* What DumpCD prints: the entries whose name matches.
NameMatches(k) ==
    FNMatch(pattern, IF listed[k].name = NoName THEN <<>> ELSE Spelling[listed[k].name])

List ==
    /\ Alive /\ job = "list"
    /\ printed' = {k \in DOMAIN listed : NameMatches(k)}
    /\ jobStatus' = "kFinished"
    /\ job' = "ended"
    /\ UNCHANGED <<input, env, main, listed, walk, report, pool, taskVars>>

\* Mistake: the future of the task is not kept.
BugSubmit(t) == Pool!Submit(t) /\ UNCHANGED futures

Submit(t) ==
    /\ Pool!Submit(t)
    /\ futures' = Append(futures, t)

\* A task for every entry, in the order of the directory.
EnqueueEntry(e) ==
    /\ Alive /\ job = "enqueue"
    /\ e = Len(futures) + 1 /\ e \in DOMAIN listed
    /\ Submit(e)
    /\ UNCHANGED <<input, env, main, job, jobStatus, listed, printed, walk, collected, allMatch, taskVars>>

EnqueueDone ==
    /\ Alive /\ job = "enqueue"
    /\ Len(futures) >= Len(listed)
    /\ entering' = Base
    /\ job' = "walk"
    /\ UNCHANGED <<input, env, main, jobStatus, listed, printed, pending, entered, found, report, pool, taskVars>>

\* What the folder p has in it, each with whether it is a folder.
Children(p) ==
    {<<q, disk[q] = Folder>> : q \in {x \in Paths \ {Base} : Parent[x] = p /\ disk[x] # NoFile}}

\* The iterator opens a folder: the base folder first, then each one behind the step
\* that came to it.
Enter ==
    /\ Alive /\ job = "walk" /\ entering # NoFile
    /\ disk[entering] = Folder
    /\ pending' = pending \cup {c \in Children(entering) : found[c[1]] = "unseen"}
    /\ entered' = entered \cup {entering}
    /\ entering' = NoFile
    /\ UNCHANGED <<input, env, main, job, jobStatus, listed, printed, found, report, pool, taskVars>>

\* It throws if the folder is not there or cannot be listed, and nobody catches that.
EnterThrows ==
    /\ Alive /\ job = "walk" /\ entering # NoFile
    /\ disk[entering] # Folder \/ entering \in barred
    /\ Die
    /\ UNCHANGED <<input, env, jobVars, pool, taskVars>>

\* sRelativePath, which has a slash if the path is a folder now.
WalkName(p) == NameOf(p, disk[p] = Folder)

\* So do the conversion of a path to a string and the question whether it is a folder.
VisitThrows ==
    /\ Alive /\ job = "walk" /\ entering = NoFile
    /\ \E c \in pending : c[1] \in barred
    /\ Die
    /\ UNCHANGED <<input, env, jobVars, pool, taskVars>>

\* Mistake: a folder that is not in the archive is counted as a file.
BugPathOnly(p) == "kFilePathOnly"

\* What becomes of a path that is not in the archive.
PathOnly(p) == IF disk[p] = Folder THEN "kDirPathOnly" ELSE "kFilePathOnly"

NextEntered(p, isFolder) == IF isFolder THEN p ELSE NoFile

\* The loop over the paths: one that is not in the archive has a task.
Visit(p, isFolder) ==
    /\ Alive /\ job = "walk" /\ entering = NoFile
    /\ <<p, isFolder>> \in pending
    /\ pending' = pending \ {<<p, isFolder>>}
    /\ entering' = NextEntered(p, isFolder)
    /\ IF HasHeader(listed, WalkName(p))
       THEN /\ found' = [found EXCEPT ![p] = "in package"]
            /\ UNCHANGED <<futures, pool>>
       ELSE /\ found' = [found EXCEPT ![p] = PathOnly(p)]
            /\ Submit(p)
    /\ UNCHANGED <<input, env, main, job, jobStatus, listed, printed, entered, collected, allMatch, taskVars>>

WalkDone ==
    /\ Alive /\ job = "walk" /\ entering = NoFile
    /\ pending = {}
    /\ job' = "collect"
    /\ UNCHANGED <<input, env, main, jobStatus, listed, printed, walk, report, pool, taskVars>>

\* resultIt.get(), in the order of the futures; nobody catches what a task has thrown.
Collect ==
    /\ Alive /\ job = "collect"
    /\ collected < Len(futures)
    /\ status[futures[collected + 1]] = "done"
    /\ IF result[futures[collected + 1]] = "threw"
       THEN Die /\ UNCHANGED collected
       ELSE collected' = collected + 1 /\ UNCHANGED main
    /\ UNCHANGED <<input, env, job, jobStatus, listed, printed, walk, futures, allMatch, pool, taskVars>>

\* Mistake: files that are only in the folder do not count.
BugCounted == {"kFileDifferent", "kFilePackageOnly"}

\* The results that keep the report from saying that all match.
Counted == {"kFileDifferent", "kFilePackageOnly", "kFilePathOnly"}

Report ==
    /\ Alive /\ job = "collect"
    /\ collected = Len(futures)
    /\ allMatch' = IF \E i \in DOMAIN futures : result[futures[i]] \in Counted THEN "no" ELSE "yes"
    /\ jobStatus' = "kFinished"
    /\ job' = "destroy"
    /\ UNCHANGED <<input, env, main, listed, printed, walk, futures, collected, pool, taskVars>>

\* The locals go away after the status was set.
DestroyPool ==
    /\ Alive /\ job = "destroy"
    /\ Pool!Destroy
    /\ job' = "ended"
    /\ UNCHANGED <<input, env, main, jobStatus, listed, printed, walk, report, taskVars>>

Job ==
    \/ OpenFails \/ ReadDirectory \/ List \/ EnqueueDone \/ Enter \/ EnterThrows
    \/ VisitThrows \/ WalkDone \/ Collect \/ Report \/ DestroyPool
    \/ \E e \in Positions : EnqueueEntry(e)
    \/ \E p \in Paths, isFolder \in BOOLEAN : Visit(p, isFolder)

------------------------------------------------------------------------------
(* The tasks *)

Path(e) == listed[e].name.path
OnDisk(e) == disk[Path(e)]

Start(t) ==
    /\ Alive
    /\ Pool!Start(t)
    /\ UNCHANGED <<input, env, main, jobVars, taskVars>>

Return(t, r) ==
    /\ Pool!Finish(t)
    /\ result' = [result EXCEPT ![t] = r]
    /\ pc' = [pc EXCEPT ![t] = "end"]
    /\ UNCHANGED <<input, env, main, jobVars>>

Begins(t) == Alive /\ status[t] = "running" /\ pc[t] = "none"

\* A header that could not be parsed has an empty name.
NameIsEmpty(e) ==
    /\ e \in Positions /\ Begins(e)
    /\ listed[e].name = NoName
    /\ Return(e, "kError")
    /\ UNCHANGED got

CheckFolder(e) ==
    /\ e \in Positions /\ Begins(e)
    /\ listed[e].name # NoName /\ listed[e].name.slash
    /\ Return(e, IF OnDisk(e) = Folder THEN "kDirMatch" ELSE "kDirPackageOnly")
    /\ UNCHANGED got

CheckExists(e) ==
    /\ e \in Positions /\ Begins(e)
    /\ listed[e].name # NoName /\ ~listed[e].name.slash
    /\ IF OnDisk(e) = NoFile
       THEN Return(e, "kFilePackageOnly")
       ELSE /\ pc' = [pc EXCEPT ![e] = "open"]
            /\ UNCHANGED <<input, env, main, jobVars, pool, result>>
    /\ UNCHANGED got

\* The questions whether a path exists, and is a folder, may throw.
EntryThrows(e) ==
    /\ e \in Positions /\ Begins(e)
    /\ listed[e].name # NoName /\ Path(e) \in barred
    /\ Return(e, "threw")
    /\ UNCHANGED got

OtherSize(e) == OnDisk(e) \in Contents => Len(OnDisk(e)) # listed[e].usize

\* The file cannot be opened, is a folder, or has another size.
OpenDiffers(e) ==
    /\ Alive /\ pc[e] = "open"
    /\ OtherSize(e) \/ Path(e) \in barred
    /\ Return(e, "kFileDifferent")
    /\ UNCHANGED got

OpenFile(e) ==
    /\ Alive /\ pc[e] = "open"
    /\ ~OtherSize(e)
    /\ pc' = [pc EXCEPT ![e] = "read"]
    /\ UNCHANGED <<input, env, main, jobVars, pool, result, got>>

\* Mistake: the loop reads on behind the last byte.
BugMoreToRead(e) == Len(got[e]) % CounterLimit <= listed[e].usize

\* Fewer bytes were counted than the file had when it was opened.
MoreToRead(e) == Len(got[e]) % CounterLimit < listed[e].usize

\* A read that fails, because it is refused or an earlier one has come to the end of the
\* file, leaves the stream in a state in which all others fail, and the loop goes on.
ReadForEver(e) ==
    /\ Alive /\ (pc[e] = "last" \/ (pc[e] = "read" /\ Path(e) \in barred))
    /\ MoreToRead(e)
    /\ pc' = [pc EXCEPT ![e] = "hung"]
    /\ UNCHANGED <<input, env, main, jobVars, pool, result, got>>

\* A read asks for more than the file has.
AtEnd(e) == Len(OnDisk(e)) < Len(got[e]) + ReadSize

\* Mistake: every read starts at the beginning of the file.
BugNextBlocks(e) ==
    SubSeq(OnDisk(e), 1, IF Len(OnDisk(e)) < ReadSize THEN Len(OnDisk(e)) ELSE ReadSize)

NextBlocks(e) ==
    SubSeq(OnDisk(e), Len(got[e]) + 1, IF AtEnd(e) THEN Len(OnDisk(e)) ELSE Len(got[e]) + ReadSize)

\* A read takes in what was added to the file since it was opened.
ReadBlocks(e) ==
    /\ Alive /\ pc[e] = "read"
    /\ MoreToRead(e)
    /\ got' = [got EXCEPT ![e] = got[e] \o NextBlocks(e)]
    /\ pc' = [pc EXCEPT ![e] = IF AtEnd(e) THEN "last" ELSE "read"]
    /\ UNCHANGED <<input, env, main, jobVars, pool, result>>

CompareCRC(e) ==
    /\ Alive /\ pc[e] \in {"read", "last"}
    /\ ~MoreToRead(e)
    /\ Return(e, IF got[e] = listed[e].crc THEN "kFileMatch" ELSE "kFileDifferent")
    /\ UNCHANGED got

\* The task of a folder that is not in the archive returns what it was made with.
PathIsFolder(p) ==
    /\ p \in Paths /\ Begins(p)
    /\ found[p] = "kDirPathOnly"
    /\ Return(p, "kDirPathOnly")
    /\ UNCHANGED got

\* That of a file asks for its size, which throws if there is none any more.
PathIsFile(p) ==
    /\ p \in Paths /\ Begins(p)
    /\ found[p] = "kFilePathOnly"
    /\ \/ disk[p] \in Contents /\ Return(p, "kFilePathOnly")
       \/ (disk[p] \notin Contents \/ p \in barred) /\ Return(p, "threw")
    /\ UNCHANGED got

Task(t) ==
    \/ Start(t)
    \/ NameIsEmpty(t) \/ EntryThrows(t) \/ CheckFolder(t) \/ CheckExists(t)
    \/ OpenDiffers(t) \/ OpenFile(t) \/ ReadForEver(t) \/ ReadBlocks(t) \/ CompareCRC(t)
    \/ PathIsFolder(t) \/ PathIsFile(t)

------------------------------------------------------------------------------
(* Other programs *)

\* A file that a task reads is shared for writing, and not for being deleted.
IsOpen(p) == \E e \in Positions : pc[e] \in {"read", "last", "hung"} /\ Path(e) = p

InFolder(p) == p # Base => disk[Parent[p]] = Folder
IsEmpty(p) == \A q \in Paths \ {Base} : Parent[q] = p => disk[q] = NoFile

\* What is at p after one change: something new where nothing was, another content,
\* or nothing.
Replacements(p) ==
    IF disk[p] = NoFile THEN NewContents \cup {Folder}
    ELSE IF disk[p] = Folder THEN (IF IsEmpty(p) THEN {NoFile} ELSE {})
    ELSE (NewContents \ {disk[p]}) \cup (IF IsOpen(p) THEN {} ELSE {NoFile})

\* What the iterator of a folder that changes may still come to.
Noticed(p, c) ==
    LET others == {x \in pending : x[1] # p}
    IN  {pending}
        \cup (IF c = NoFile THEN {others} ELSE {})
        \cup (IF disk[p] = NoFile /\ p # Base /\ Parent[p] \in entered /\ found[p] = "unseen"
              THEN {others \cup {<<p, c = Folder>>}} ELSE {})

\* Before and after the job changes are of no interest.
Change(p) ==
    /\ Alive /\ job \notin {"off", "ended"}
    /\ changes < MaxChanges
    /\ InFolder(p)
    /\ \E c \in Replacements(p) :
          /\ disk' = [disk EXCEPT ![p] = c]
          /\ pending' \in Noticed(p, c)
    /\ disks' = disks \cup {disk'}
    /\ changes' = changes + 1
    /\ UNCHANGED <<input, main, job, jobStatus, listed, printed, entering, entered, found,
                   report, pool, taskVars>>

Next ==
    \/ Main \/ Job
    \/ \E t \in Tasks : Task(t)
    \/ \E p \in Paths : Change(p)

\* The operating system runs the main thread, that of the job, and some thread of the pool
\* that has work; nobody has to change anything.
Fairness == WF_vars(Main) /\ WF_vars(Job) /\ WF_vars(\E t \in Tasks : Task(t))

Spec == Init /\ [][Next]_vars /\ Fairness

------------------------------------------------------------------------------
(* Properties *)

\* Every variable has its type; the tasks of entries are those of the directory, a task
\* is somewhere in its function exactly while the pool runs it, and the futures are
\* those of the tasks that were submitted, each once.
TypeOK ==
    /\ package \in Packages /\ jobType \in {"kDiff", "kList"} /\ barred \in Bars
    /\ disk \in [Paths -> Contents \cup {Folder, NoFile}]
    /\ disk \in disks
    /\ changes \in 0 .. MaxChanges
    /\ main \in {"ready", "polling", "joining", "returned", "dead"}
    /\ job \in {"off", "open", "list", "enqueue", "walk", "collect", "destroy", "ended"}
    /\ jobStatus \in {"kNone", "kRunning", "kFinished", "kError"}
    /\ listed \in Seq(Listing) /\ printed \subseteq DOMAIN listed
    /\ pending \subseteq (Paths \ {Base}) \X BOOLEAN
    /\ entering \in Paths \cup {NoFile} /\ entered \subseteq Paths
    /\ found \in [Paths -> {"unseen", "in package", "kDirPathOnly", "kFilePathOnly"}]
    /\ futures \in Seq(Tasks) /\ collected \in 0 .. Len(futures)
    /\ allMatch \in {"none", "yes", "no"}
    /\ status \in [Tasks -> {"new", "queued", "running", "done"}] /\ gone \in BOOLEAN
    /\ pc \in [Tasks -> {"none", "open", "read", "last", "hung", "end"}]
    /\ got \in [Tasks -> Contents]
    /\ result \in [Tasks -> {"kNone", "kError", "kDirMatch", "kDirPackageOnly", "kDirPathOnly",
                            "kFileMatch", "kFileDifferent", "kFilePackageOnly", "kFilePathOnly",
                            "threw"}]
    /\ \A i, j \in DOMAIN futures : futures[i] = futures[j] => i = j
    /\ \A t \in Tasks :
          /\ status[t] # "new" <=> \E i \in DOMAIN futures : futures[i] = t
          /\ status[t] # "new" => t \in DOMAIN listed \cup Paths
          /\ pc[t] = "end" <=> status[t] = "done"
          /\ pc[t] \notin {"none", "end"} => status[t] = "running" /\ t \in Positions
          /\ result[t] = "kNone" <=> pc[t] # "end"

\* The directory of an archive that another program wrote, and that has its records
\* where the reader looks for them, is read as it was written: cZipCD::Init succeeds, and
\* every entry has its name, checksum and sizes, wherever they are saved, and leads to
\* its data.
DirectoryIsRead ==
    WellPlaced(package) =>
       /\ job = "open" => CanOpen(Layout(package))
       /\ job \in {"list", "enqueue"} /\ futures = <<>> =>
             /\ Len(listed) = Len(package.entries)
             /\ \A k \in DOMAIN listed :
                   /\ listed[k].name = package.entries[k].name
                   /\ listed[k].crc = package.entries[k].data
                   /\ listed[k].usize = Len(package.entries[k].data)
                   /\ listed[k].csize = package.entries[k].csize
                   /\ StreamOffset(Layout(package), listed[k]) = ByteOffset(Layout(package), 2 * k)

\* What the result of t says was so when the disk was d.
IsTrueOf(d, t) ==
    CASE result[t] = "kDirMatch" -> d[Path(t)] = Folder
      [] result[t] = "kDirPackageOnly" -> d[Path(t)] # Folder
      [] result[t] = "kFilePackageOnly" -> d[Path(t)] = NoFile
      [] result[t] = "kFileDifferent" -> d[Path(t)] # listed[t].crc \/ Path(t) \in barred
      [] result[t] = "kDirPathOnly" -> d[t] = Folder /\ ~HasHeader(listed, NameOf(t, TRUE))
      [] result[t] = "kFilePathOnly" -> d[t] \in Contents /\ ~HasHeader(listed, NameOf(t, FALSE))
      [] OTHER -> TRUE

\* Whatever other programs do to the folder while the diff runs, each of its results was
\* true at some moment of it, but that a file which may not be opened is called different
\* whatever it has in it.  Of a file that matches, this is true of each block.
VerdictsWereTrue ==
    \A t \in Tasks :
       /\ \E d \in disks : IsTrueOf(d, t)
       /\ result[t] = "kFileMatch" =>
             \A k \in DOMAIN listed[t].crc : \E d \in disks :
                /\ d[Path(t)] \in Contents /\ k \in DOMAIN d[Path(t)]
                /\ d[Path(t)][k] = listed[t].crc[k]

\* What is in the base folder.
Below(d) == {p \in Paths \ {Base} : d[p] # NoFile}

\* The files of the archive and of the folder are the same.
SameFiles ==
    /\ \A k \in DOMAIN listed : ~listed[k].name.slash => OnDisk(k) = listed[k].crc
    /\ \A p \in Below(disk) : disk[p] # Folder => HasHeader(listed, NameOf(p, FALSE))

\* If nothing changes and all headers could be parsed, the report of a diff covers every
\* entry and every path that is not in the archive, once each.  It says that all match
\* only if the files of the two are the same, and if they are it says so unless the
\* system refuses to open one of them.
ReportIsRight ==
    allMatch # "none" /\ disks = {disk} /\ (\A k \in DOMAIN listed : listed[k].name # NoName) =>
       /\ {futures[i] : i \in 1 .. collected} =
             DOMAIN listed \cup {p \in Below(disk) : ~HasHeader(listed, NameOf(p, disk[p] = Folder))}
       /\ allMatch = "yes" => SameFiles
       /\ SameFiles /\ (\A k \in DOMAIN listed : Path(k) \notin barred) => allMatch = "yes"

\* A diff brings down the process only if the base folder is missing, the system refuses
\* something, or something changes under its eyes.
DiesOnlyOfChange ==
    main = "dead" => changes > 0 \/ disk[Base] # Folder \/ barred # {}

\* What may keep the task of e in its loop: something changes, the system refuses to read
\* the file, or it is too long for the counter.
MayReadForEver(e) == changes > 0 \/ Path(e) \in barred \/ listed[e].usize >= CounterLimit

\* For no other reason does a task read for ever: the count does not miss the size of a file.
ReadsEnd == \A e \in Positions : pc[e] = "hung" => MayReadForEver(e)

\* A list job prints every entry of the archive that its pattern stands for, with
\* patterns of the kind that FNMatch.h shows.
ListIsComplete ==
    job = "ended" /\ jobType = "kList" /\ jobStatus = "kFinished" /\ WellPlaced(package) =>
       \A k \in DOMAIN package.entries :
          StarsBeforeSlashes(pattern) /\ Glob(pattern, Spelling[package.entries[k].name]) => k \in printed

\* A job that was started ends and Join returns, unless the process dies or a task reads
\* a file for ever, and has one of these reasons to.
JobEnds ==
    main = "polling" ~>
       \/ main \in {"returned", "dead"}
       \/ \E e \in Positions : pc[e] = "hung" /\ MayReadForEver(e)
==============================================================================
