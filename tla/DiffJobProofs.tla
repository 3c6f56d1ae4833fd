----------------------------- MODULE DiffJobProofs -----------------------------
(***************************************************************************)
(* Proofs about DiffJob for any archives, folders, patterns and changes.   *)
(* Up to the last part nothing is assumed of how the directory of an        *)
(* archive is read but what PackageAssumption says of the headers; that     *)
(* part uses what ForeignZipProofs says of archives whose records are where *)
(* the reader looks for them.                                              *)
(***************************************************************************)
EXTENDS DiffJob, ForeignZipProofs

\* Before the directory has been read there are no tasks, and before the walk nothing
\* was found.
JobInv ==
    /\ main = "ready" => job = "off"
    /\ job \in {"off", "open"} => futures = <<>> /\ printed = {}
    /\ job \in {"off", "open", "list", "enqueue"} => \A p \in Paths : found[p] = "unseen"

\* The directory, as it is once it has been read.
ListedInv ==
    /\ Len(listed) <= MaxEntries
    /\ \A k \in DOMAIN listed : IsListing(listed[k])

\* Each block that the task of e has read was in the file at some moment.
Seen(e) ==
    \A k \in DOMAIN got[e] : \E d \in disks :
       d[Path(e)] \in Contents /\ k \in DOMAIN d[Path(e)] /\ d[Path(e)][k] = got[e][k]

\* What the task of e knows at each place of its function.
TaskInv ==
    \A e \in Positions :
       /\ pc[e] \in {"none", "open"} => got[e] = <<>>
       /\ pc[e] \in {"open", "read", "last", "hung"} => listed[e].name # NoName
       /\ pc[e] \in {"read", "last", "hung"} =>
             disk[Path(e)] \in Contents /\ Seen(e)

\* What the walk has found was so.
FoundInv ==
    \A p \in Paths :
       /\ found[p] = "kDirPathOnly" =>
             ~HasHeader(listed, NameOf(p, TRUE)) /\ \E d \in disks : d[p] = Folder
       /\ found[p] = "kFilePathOnly" => ~HasHeader(listed, NameOf(p, FALSE))

\* As long as nothing has changed, all that the job takes paths for is so, and if the
\* system refuses nothing, it brings the process down only if the base folder is missing.
NothingChanged ==
    changes = 0 /\ barred = {} =>
       /\ main = "dead" => disk[Base] # Folder
       /\ entering # NoFile /\ entering # Base => disk[entering] = Folder
       /\ \A c \in pending : disk[c[1]] # NoFile /\ (c[2] => disk[c[1]] = Folder)
       /\ \A p \in Paths : found[p] = "kFilePathOnly" => disk[p] \in Contents
       /\ \A t \in Tasks : result[t] # "threw"

IInv == TypeOK /\ JobInv /\ ListedInv /\ TaskInv

--------------------------------------------------------------------------------
(* Types *)

\* The three parts of TypeOK: what the job has, its futures, and its tasks.
JobTypes ==
    /\ package \in Packages /\ jobType \in {"kDiff", "kList"} /\ barred \in Bars
    /\ disk \in [Paths -> Contents \cup {Folder, NoFile}]
    /\ disk \in disks
    /\ changes \in 0 .. MaxChanges
    /\ main \in {"ready", "polling", "joining", "returned", "dead"}
    /\ job \in {"off", "open", "list", "enqueue", "walk", "collect", "destroy", "ended"}
    /\ jobStatus \in {"kNone", "kRunning", "kFinished", "kError"}
    /\ listed \in Seq(Listing) /\ printed \subseteq DOMAIN listed
    /\ pending \subseteq (Paths \ {Base}) \X BOOLEAN
    /\ entering \in Paths \cup {NoFile} /\ entered \subseteq Paths
    /\ found \in [Paths -> {"unseen", "in package", "kDirPathOnly", "kFilePathOnly"}]
    /\ collected \in 0 .. Len(futures)
    /\ allMatch \in {"none", "yes", "no"}

Futures ==
    /\ futures \in Seq(Tasks)
    /\ status \in [Tasks -> {"new", "queued", "running", "done"}] /\ gone \in BOOLEAN
    /\ \A i, j \in DOMAIN futures : futures[i] = futures[j] => i = j
    /\ \A t \in Tasks : status[t] # "new" <=> \E i \in DOMAIN futures : futures[i] = t

TaskTypes ==
    /\ pc \in [Tasks -> {"none", "open", "read", "last", "hung", "end"}]
    /\ got \in [Tasks -> Contents]
    /\ result \in [Tasks -> {"kNone", "kError", "kDirMatch", "kDirPackageOnly", "kDirPathOnly",
                            "kFileMatch", "kFileDifferent", "kFilePackageOnly", "kFilePathOnly",
                            "threw"}]
    /\ \A t \in Tasks :
          /\ status[t] # "new" => t \in DOMAIN listed \cup Paths
          /\ pc[t] = "end" <=> status[t] = "done"
          /\ pc[t] \notin {"none", "end"} => status[t] = "running" /\ t \in Positions
          /\ result[t] = "kNone" <=> pc[t] # "end"

LEMMA TypeParts == TypeOK <=> JobTypes /\ Futures /\ TaskTypes
BY DEF TypeOK, JobTypes, Futures, TaskTypes

\* A name leads to a path.
LEMMA NamesArePaths ==
    ASSUME NEW n \in Names
    PROVE  n.path \in Paths /\ n.slash \in BOOLEAN
BY NameAssumption

\* What the tasks of entries know of theirs.
LEMMA OpenEntry ==
    ASSUME IInv, NEW e \in Tasks, pc[e] \in {"open", "read", "last", "hung"}
    PROVE  /\ e \in Positions /\ e \in DOMAIN listed
           /\ status[e] = "running"
           /\ listed[e].name \in Names /\ Path(e) \in Paths
           /\ listed[e].crc \in Contents /\ listed[e].usize = Len(listed[e].crc)
           /\ listed[e].usize \in Nat
<1> USE DEF IInv
<1>1. e \in Positions /\ status[e] = "running" /\ status[e] # "new"
  BY DEF TypeOK
<1>2. e \in DOMAIN listed
  BY <1>1, NameAssumption DEF TypeOK
<1>3. listed[e].name # NoName
  BY <1>1 DEF TaskInv
<1>4. listed[e] \in Listing /\ listed[e].crc \in Contents /\ Len(listed[e].crc) = listed[e].usize
  BY <1>2, <1>3 DEF ListedInv, IsListing
<1>5. listed[e].name \in Names /\ listed[e].usize \in Nat
  BY <1>3, <1>4 DEF Listing
<1> QED BY <1>1, <1>2, <1>4, <1>5, NamesArePaths DEF Path

LEMMA DomainIsPositions ==
    ASSUME IInv
    PROVE  DOMAIN listed \subseteq Positions
<1>1. Len(listed) \in Nat /\ DOMAIN listed = 1 .. Len(listed)
  BY TypeParts, LenProperties DEF IInv, JobTypes
<1> QED BY <1>1, PackageAssumption DEF IInv, ListedInv, Positions

\* The futures after one more task was submitted.
LEMMA SubmitIs ==
    ASSUME Futures, NEW t \in Tasks, Submit(t)
    PROVE  /\ Futures' /\ Len(futures') = Len(futures) + 1
           /\ status[t] = "new" /\ status'[t] = "queued"
           /\ \A x \in Tasks : x # t => status'[x] = status[x]
<1> DEFINE n == Len(futures)
<1>1. n \in Nat /\ DOMAIN futures = 1 .. n
  BY LenProperties DEF Futures
<1>2. futures' = Append(futures, t)
  BY DEF Submit
<1>3. /\ futures' \in Seq(Tasks) /\ Len(futures') = n + 1
      /\ \A i \in 1 .. n : futures'[i] = futures[i]
      /\ futures'[n + 1] = t
  BY <1>2, AppendProperties DEF Futures
<1>4. DOMAIN futures' = 1 .. n + 1
  BY <1>3, LenProperties
<1>5. status[t] = "new" /\ status' = [status EXCEPT ![t] = "queued"] /\ gone' = gone
  BY DEF Submit, Pool!Submit
<1>6. \A i \in 1 .. n : futures[i] # t
  BY <1>1, <1>5 DEF Futures
<1>7. \A i, j \in 1 .. n + 1 : futures'[i] = futures'[j] => i = j
  <2> TAKE i, j \in 1 .. n + 1
  <2>1. CASE i \in 1 .. n /\ j \in 1 .. n
    BY <1>1, <1>3, <2>1 DEF Futures
  <2>2. CASE i = n + 1 \/ j = n + 1
    BY <1>1, <1>3, <1>6, <2>2
  <2> QED BY <1>1, <2>1, <2>2
<1>8. \A x \in Tasks : x # t => status'[x] = status[x]
  BY <1>5 DEF Futures
<1>9. status'[t] = "queued" /\ status' \in [Tasks -> {"new", "queued", "running", "done"}]
  BY <1>5 DEF Futures
<1>10. ASSUME NEW x \in Tasks
       PROVE  status'[x] # "new" <=> \E i \in 1 .. n + 1 : futures'[i] = x
  <2>1. CASE x = t
    BY <1>1, <1>3, <1>9, <2>1
  <2>2. CASE x # t
    <3>1. status'[x] # "new" <=> \E i \in 1 .. n : futures[i] = x
      BY <1>1, <1>8, <2>2 DEF Futures
    <3>2. (\E i \in 1 .. n : futures[i] = x) <=> (\E i \in 1 .. n + 1 : futures'[i] = x)
      BY <1>1, <1>3, <2>2
    <3> QED BY <3>1, <3>2
  <2> QED BY <2>1, <2>2
<1>11. gone' \in BOOLEAN
  BY <1>5 DEF Futures
<1> QED BY <1>3, <1>4, <1>5, <1>7, <1>8, <1>9, <1>10, <1>11 DEF Futures

LEMMA TypeIsFutures == TypeOK => Futures
BY DEF TypeOK, Futures

LEMMA TypeInit == Init => IInv
<1> SUFFICES ASSUME Init PROVE IInv
  OBVIOUS
<1> USE DEF Init
<1>1. status = [t \in Tasks |-> "new"] /\ gone = FALSE
  BY DEF Pool!Init
<1>2. disk \in [Paths -> Contents \cup {Folder, NoFile}] /\ changes \in 0 .. MaxChanges
  BY ContentsAssumption, BoundAssumption
<1>3. <<>> \in Contents /\ <<>> \in Seq(Tasks) /\ <<>> \in Seq(Listing) /\ Len(<<>>) = 0 /\ DOMAIN <<>> = {}
  BY DEF Contents
<1>4. got \in [Tasks -> Contents]
  BY <1>3
<1>5. pc \in [Tasks -> {"none", "open", "read", "last", "hung", "end"}]
  OBVIOUS
<1>6. /\ status \in [Tasks -> {"new", "queued", "running", "done"}]
      /\ found \in [Paths -> {"unseen", "in package", "kDirPathOnly", "kFilePathOnly"}]
      /\ collected \in 0 .. Len(futures)
  BY <1>1, <1>3
<1>7. \A t \in Tasks :
          /\ status[t] # "new" <=> \E i \in DOMAIN futures : futures[i] = t
          /\ status[t] # "new" => t \in DOMAIN listed \cup Paths
          /\ pc[t] = "end" <=> status[t] = "done"
          /\ pc[t] \notin {"none", "end"} => status[t] = "running" /\ t \in Positions
          /\ result[t] = "kNone" <=> pc[t] # "end"
  BY <1>1, <1>3
<1>8. TypeOK
  BY <1>1, <1>2, <1>3, <1>4, <1>5, <1>6, <1>7 DEF TypeOK
<1>9. Positions \subseteq Tasks
  BY DEF Tasks
<1>10. JobInv /\ ListedInv /\ TaskInv
  BY <1>3, <1>9, PackageAssumption DEF JobInv, ListedInv, TaskInv
<1> QED BY <1>8, <1>10 DEF IInv

LEMMA TypePartsNext == TypeOK' <=> JobTypes' /\ Futures' /\ TaskTypes'
BY DEF TypeOK, JobTypes, Futures, TaskTypes

LEMMA FuturesStay == Futures /\ UNCHANGED <<futures, status, gone>> => Futures'
BY DEF Futures

LEMMA TasksStay == TaskTypes /\ UNCHANGED <<pc, got, result, status, listed>> => TaskTypes'
BY DEF TaskTypes

LEMMA TypeMain == IInv /\ Main => TypeOK'
<1> SUFFICES ASSUME IInv, Main PROVE TypeOK'
  OBVIOUS
<1> USE DEF input, env, walk, report, jobVars, pool, taskVars
<1>1. JobTypes /\ Futures /\ TaskTypes
  BY TypeParts DEF IInv
<1>2. UNCHANGED <<futures, status, gone, pc, got, result, listed>>
  BY DEF Main, Run, PollDone, JoinThread
<1>3. Futures' /\ TaskTypes'
  BY <1>1, <1>2, FuturesStay, TasksStay
<1>4. JobTypes'
  <2> USE <1>1 DEF JobTypes
  <2>1. CASE Run BY <2>1 DEF Run
  <2>2. CASE PollDone BY <2>2 DEF PollDone
  <2>3. CASE JoinThread BY <2>3 DEF JoinThread
  <2> QED BY <2>1, <2>2, <2>3 DEF Main
<1> QED BY <1>3, <1>4, TypePartsNext

\* A name is taken for the path it is of.
LEMMA ChildrenArePaths ==
    ASSUME NEW p \in Paths
    PROVE  Children(p) \subseteq (Paths \ {Base}) \X BOOLEAN
<1> SUFFICES ASSUME NEW q \in Paths \ {Base}
             PROVE  <<q, disk[q] = Folder>> \in (Paths \ {Base}) \X BOOLEAN
  BY Zenon DEF Children
<1>1. (disk[q] = Folder) \in BOOLEAN
  OBVIOUS
<1> QED BY <1>1, Zenon

LEMMA TypeJob == IInv /\ Job => TypeOK'
<1> SUFFICES ASSUME IInv, Job PROVE TypeOK'
  OBVIOUS
<1> USE DEF input, env, walk, report, jobVars, pool, taskVars
<1>1. JobTypes /\ Futures /\ TaskTypes
  BY TypeParts DEF IInv
<1>2. ASSUME OpenFails \/ List \/ EnqueueDone \/ Enter \/ EnterThrows \/ VisitThrows \/ WalkDone
             \/ Collect \/ Report
      PROVE  TypeOK'
  <2>1. UNCHANGED <<futures, status, gone, pc, got, result, listed>>
    BY <1>2 DEF OpenFails, List, EnqueueDone, Enter, EnterThrows, VisitThrows, WalkDone, Collect, Report
  <2>2. Futures' /\ TaskTypes'
    BY <1>1, <2>1, FuturesStay, TasksStay
  <2>3. JobTypes'
    <3>1. CASE Collect
      <4>1. Len(futures) \in Nat /\ collected \in 0 .. Len(futures)
        BY LenProperties, <1>1 DEF Futures, JobTypes
      <4>2. /\ collected < Len(futures) /\ Len(futures') = Len(futures)
            /\ collected' = collected \/ collected' = collected + 1
        BY <3>1 DEF Collect
      <4>3. collected' \in 0 .. Len(futures')
        BY <4>1, <4>2
      <4>4. main' \in {"ready", "polling", "joining", "returned", "dead"}
        BY <1>1, <3>1 DEF Collect, Die, JobTypes
      <4> QED BY <1>1, <3>1, <4>3, <4>4 DEF Collect, JobTypes
    <3> USE <1>1 DEF JobTypes, Die
    <3>2. CASE OpenFails BY <3>2 DEF OpenFails
    <3>3. CASE List BY <3>3 DEF List
    <3>4. CASE EnqueueDone BY <3>4, NameAssumption DEF EnqueueDone
    <3>5. CASE Enter
      <4>1. entering \in Paths
        BY <3>5 DEF Enter
      <4>2. pending' \subseteq (Paths \ {Base}) \X BOOLEAN
        BY <3>5, <4>1, ChildrenArePaths DEF Enter
      <4> QED BY <3>5, <4>1, <4>2 DEF Enter
    <3>6. CASE EnterThrows \/ VisitThrows BY <3>6 DEF EnterThrows, VisitThrows
    <3>7. CASE WalkDone BY <3>7 DEF WalkDone
    <3>8. CASE Report BY <3>8 DEF Report
    <3> QED BY <1>2, <3>2, <3>3, <3>4, <3>5, <3>6, <3>7, <3>1, <3>8
  <2> QED BY <2>2, <2>3, TypePartsNext
<1>3. CASE ReadDirectory
  <2>1. futures = <<>> /\ printed = {}
    BY <1>3 DEF ReadDirectory, IInv, JobInv
  <2>2. \A t \in Tasks : status[t] = "new"
    BY <1>1, <2>1 DEF Futures
  <2>3. Listed(Layout(package)) \in Seq(Listing)
    BY <1>1, <1>3, PackageAssumption DEF ReadDirectory, JobTypes
  <2>4. JobTypes'
    BY <1>1, <1>3, <2>1, <2>3 DEF JobTypes, ReadDirectory
  <2>5. TaskTypes'
    BY <1>1, <1>3, <2>2 DEF TaskTypes, ReadDirectory
  <2>6. Futures'
    BY <1>1, <1>3, FuturesStay DEF ReadDirectory
  <2> QED BY <2>4, <2>5, <2>6, TypePartsNext
<1>4. CASE DestroyPool
  <2>1. UNCHANGED <<futures, status>> /\ gone' = TRUE
    BY <1>4 DEF DestroyPool, Pool!Destroy
  <2>2. Futures'
    BY <1>1, <2>1 DEF Futures
  <2>3. TaskTypes'
    BY <1>1, <1>4, <2>1, TasksStay DEF DestroyPool
  <2>4. JobTypes'
    BY <1>1, <1>4 DEF DestroyPool, JobTypes
  <2> QED BY <2>2, <2>3, <2>4, TypePartsNext
<1>5. ASSUME NEW t \in Tasks, Submit(t), t \in DOMAIN listed \cup Paths,
             UNCHANGED <<pc, got, result, listed, collected>>
      PROVE  Futures' /\ TaskTypes' /\ collected' \in 0 .. Len(futures')
  <2>1. /\ Futures' /\ Len(futures') = Len(futures) + 1
        /\ status[t] = "new" /\ status'[t] = "queued"
        /\ \A x \in Tasks : x # t => status'[x] = status[x]
    BY <1>1, <1>5, SubmitIs
  <2>2. TaskTypes'
    BY <1>1, <1>5, <2>1 DEF TaskTypes
  <2>3. Len(futures) \in Nat
    BY LenProperties, <1>1 DEF Futures
  <2>4. collected \in 0 .. Len(futures) /\ collected' = collected
    BY <1>1, <1>5 DEF JobTypes
  <2>5. collected' \in 0 .. Len(futures')
    BY <2>1, <2>3, <2>4
  <2> QED BY <2>1, <2>2, <2>5
<1>6. ASSUME NEW e \in Positions, EnqueueEntry(e)
      PROVE  TypeOK'
  <2>1. /\ e \in Tasks /\ e \in DOMAIN listed /\ Submit(e)
        /\ UNCHANGED <<pc, got, result, listed, collected>>
    BY <1>6 DEF EnqueueEntry, Tasks
  <2>2. JobTypes'
    BY <1>1, <1>5, <1>6, <2>1 DEF EnqueueEntry, JobTypes
  <2> QED BY <1>5, <2>1, <2>2, TypePartsNext
<1>7. ASSUME NEW p \in Paths, NEW isFolder \in BOOLEAN, Visit(p, isFolder)
      PROVE  TypeOK'
  <2>1. p \in Tasks
    BY DEF Tasks
  <2>2. Futures' /\ TaskTypes' /\ collected' \in 0 .. Len(futures')
    <3>1. CASE HasHeader(listed, WalkName(p))
      <4>1. UNCHANGED <<futures, status, gone, pc, got, result, listed, collected>>
        BY <1>7, <3>1 DEF Visit
      <4> QED BY <1>1, <4>1, FuturesStay, TasksStay DEF JobTypes
    <3>2. CASE ~HasHeader(listed, WalkName(p))
      <4>1. Submit(p) /\ UNCHANGED <<pc, got, result, listed, collected>>
        BY <1>7, <3>2 DEF Visit
      <4> QED BY <1>5, <2>1, <4>1
    <3> QED BY <3>1, <3>2
  <2>3. found' \in [Paths -> {"unseen", "in package", "kDirPathOnly", "kFilePathOnly"}]
    BY <1>1, <1>7 DEF Visit, PathOnly, JobTypes
  <2>4. pending' \subseteq pending /\ entering' \in Paths \cup {NoFile}
    BY <1>7 DEF Visit, NextEntered
  <2>5. JobTypes'
    BY <1>1, <1>7, <2>2, <2>3, <2>4 DEF Visit, JobTypes
  <2> QED BY <2>2, <2>5, TypePartsNext
<1> QED BY <1>2, <1>3, <1>4, <1>6, <1>7 DEF Job

\* A rest of a number is not above it, and is the number itself if that is small.
LEMMA RestIsSmaller ==
    ASSUME NEW n \in Nat, NEW c \in Nat \ {0}
    PROVE  n % c \in Nat /\ n % c <= n /\ (n < c => n % c = n)
<1>1. n % c < c
  OBVIOUS
<1>2. n < c => n % c = n
  OBVIOUS
<1>3. n % c \in Nat
  OBVIOUS
<1> QED BY <1>1, <1>2, <1>3

\* The blocks of the file behind those it has read are what a task reads.
LEMMA ReadsBlocks ==
    ASSUME IInv, NEW e \in Tasks, ReadBlocks(e)
    PROVE  /\ e \in Positions
           /\ disk[Path(e)] \in Contents /\ got[e] \in Contents /\ NextBlocks(e) \in Contents
           /\ Len(got[e]) \in Nat /\ Len(disk[Path(e)]) \in Nat
           /\ \A i \in 1 .. Len(NextBlocks(e)) :
                 /\ Len(got[e]) + i \in DOMAIN disk[Path(e)]
                 /\ NextBlocks(e)[i] = disk[Path(e)][Len(got[e]) + i]
           /\ Len(got[e]) <= Len(disk[Path(e)]) =>
                 Len(got[e]) + Len(NextBlocks(e)) =
                    IF AtEnd(e) THEN Len(disk[Path(e)]) ELSE Len(got[e]) + ReadSize
<1> DEFINE file == disk[Path(e)]
           n == Len(got[e])
           last == IF AtEnd(e) THEN Len(file) ELSE n + ReadSize
<1>1. pc[e] = "read"
  BY DEF ReadBlocks
<1>2. e \in Positions
  BY <1>1, OpenEntry
<1>3. file \in Contents /\ got[e] \in Contents
  BY <1>1, <1>2, TypeParts DEF IInv, TaskInv, TaskTypes
<1>4. file \in Seq(Blocks) /\ n \in Nat /\ Len(file) \in Nat /\ DOMAIN file = 1 .. Len(file)
  BY <1>3 DEF Contents
<1>5. NextBlocks(e) = SubSeq(file, n + 1, last)
  BY DEF NextBlocks, OnDisk
<1>6. AtEnd(e) <=> Len(file) < n + ReadSize
  BY DEF AtEnd, OnDisk
<1> HIDE DEF file, n
<1>7. last \in Nat /\ last <= Len(file)
  BY <1>4, <1>6, BoundAssumption
<1>8. n <= Len(file) => n <= last
  BY <1>4, BoundAssumption
<1> HIDE DEF last
<1>9. \A i \in n + 1 .. last : i \in DOMAIN file /\ file[i] \in Blocks
  BY <1>4, <1>7
<1>10. /\ SubSeq(file, n + 1, last) \in Seq(Blocks)
       /\ Len(SubSeq(file, n + 1, last)) = IF n + 1 <= last THEN last - (n + 1) + 1 ELSE 0
       /\ \A i \in 1 .. last - (n + 1) + 1 : SubSeq(file, n + 1, last)[i] = file[n + 1 + i - 1]
  <2>1. n + 1 \in Int /\ last \in Int /\ \A i \in n + 1 .. last : file[i] \in Blocks
    BY <1>4, <1>7, <1>9
  <2> QED BY <2>1, SubSeqProperties
<1>11. ASSUME NEW i \in 1 .. Len(NextBlocks(e))
       PROVE  n + i \in DOMAIN file /\ NextBlocks(e)[i] = file[n + i]
  <2>1. i \in Nat /\ i >= 1 /\ i <= last - n
    BY <1>4, <1>5, <1>7, <1>10
  <2>2. i \in 1 .. last - (n + 1) + 1 /\ n + 1 + i - 1 = n + i /\ n + i \in 1 .. Len(file)
    BY <1>4, <1>7, <2>1
  <2> QED BY <1>4, <1>5, <1>10, <2>2
<1>12. n <= Len(file) => n + Len(NextBlocks(e)) = last
  BY <1>4, <1>5, <1>7, <1>8, <1>10
<1>13. NextBlocks(e) \in Contents
  BY <1>5, <1>10 DEF Contents
<1> QED BY <1>2, <1>3, <1>4, <1>11, <1>12, <1>13 DEF file, n, last

LEMMA TypeTask ==
    ASSUME IInv, NEW t \in Tasks, Task(t)
    PROVE  TypeOK'
<1> USE DEF input, env, walk, report, jobVars, pool, taskVars
<1>1. JobTypes /\ Futures /\ TaskTypes
  BY TypeParts DEF IInv
<1>2. UNCHANGED <<input, env, main, jobVars, gone>>
  BY DEF Task, Start, Pool!Start, Return, Pool!Finish, NameIsEmpty, EntryThrows, CheckFolder, CheckExists,
     OpenDiffers, OpenFile, ReadForEver, ReadBlocks, CompareCRC, PathIsFolder, PathIsFile
<1>3. JobTypes'
  BY <1>1, <1>2 DEF JobTypes
<1>4. ASSUME NEW s \in {"running", "done"}, status[t] # "new",
             status' = [status EXCEPT ![t] = s]
      PROVE  Futures'
  BY <1>1, <1>2, <1>4 DEF Futures
<1>5. ASSUME NEW r \in {"kError", "kDirMatch", "kDirPackageOnly", "kDirPathOnly", "kFilePathOnly",
                        "kFilePackageOnly", "kFileDifferent", "kFileMatch", "threw"},
             Return(t, r), got' = got
      PROVE  TypeOK'
  <2>1. status[t] = "running" /\ status' = [status EXCEPT ![t] = "done"]
    BY <1>5 DEF Return, Pool!Finish
  <2>2. Futures'
    BY <1>4, <2>1
  <2>3. pc' = [pc EXCEPT ![t] = "end"] /\ result' = [result EXCEPT ![t] = r]
    BY <1>5 DEF Return
  <2>4. listed' = listed /\ r # "kNone"
    BY <1>2
  <2>5. /\ pc' \in [Tasks -> {"none", "open", "read", "last", "hung", "end"}]
        /\ pc'[t] = "end" /\ result'[t] = r
        /\ result' \in [Tasks -> {"kNone", "kError", "kDirMatch", "kDirPackageOnly", "kDirPathOnly",
                                 "kFileMatch", "kFileDifferent", "kFilePackageOnly", "kFilePathOnly",
                                 "threw"}]
        /\ status'[t] = "done"
    BY <1>1, <2>1, <2>3 DEF TaskTypes, Futures
  <2>6. ASSUME NEW x \in Tasks, x # t
        PROVE  pc'[x] = pc[x] /\ result'[x] = result[x] /\ status'[x] = status[x]
    BY <1>1, <2>1, <2>3, <2>6 DEF TaskTypes, Futures
  <2>7. TaskTypes'
    BY <1>1, <1>5, <2>1, <2>4, <2>5, <2>6 DEF TaskTypes
  <2> QED BY <1>3, <2>2, <2>7, TypePartsNext
<1>6. ASSUME NEW s \in {"open", "read", "last", "hung"}, t \in Positions, status[t] = "running",
             pc[t] # "end", pc' = [pc EXCEPT ![t] = s], UNCHANGED <<status, result, got>>
      PROVE  TypeOK'
  <2>1. Futures'
    BY <1>1, <1>2, <1>6, FuturesStay
  <2>2. TaskTypes'
    BY <1>1, <1>2, <1>6 DEF TaskTypes
  <2> QED BY <1>3, <2>1, <2>2, TypePartsNext
<1>7. CASE Start(t)
  <2>1. status[t] = "queued" /\ status' = [status EXCEPT ![t] = "running"] /\ UNCHANGED <<pc, got, result>>
    BY <1>7 DEF Start, Pool!Start
  <2>2. Futures'
    BY <1>4, <2>1
  <2>3. TaskTypes'
    BY <1>1, <1>2, <2>1 DEF TaskTypes, Futures
  <2> QED BY <1>3, <2>2, <2>3, TypePartsNext
<1>8. CASE NameIsEmpty(t)
  BY <1>5, <1>8 DEF NameIsEmpty
<1>9. CASE EntryThrows(t)
  BY <1>5, <1>9 DEF EntryThrows
<1>10. CASE CheckFolder(t)
  BY <1>5, <1>10 DEF CheckFolder
<1>11. CASE CheckExists(t)
  <2>1. CASE OnDisk(t) = NoFile
    BY <1>5, <1>11, <2>1 DEF CheckExists
  <2>2. CASE OnDisk(t) # NoFile
    BY <1>6, <1>11, <2>2 DEF CheckExists, Begins
  <2> QED BY <2>1, <2>2
<1>12. CASE OpenDiffers(t)
  BY <1>5, <1>12 DEF OpenDiffers
<1>13. CASE OpenFile(t)
  BY <1>6, <1>13, OpenEntry DEF OpenFile
<1>14. CASE ReadForEver(t)
  BY <1>6, <1>14, OpenEntry DEF ReadForEver
<1>15. CASE ReadBlocks(t)
  <2>1. got[t] \o NextBlocks(t) \in Contents
    BY <1>15, ReadsBlocks, ConcatProperties DEF Contents
  <2>2. got' \in [Tasks -> Contents]
    BY <1>1, <1>15, <2>1 DEF ReadBlocks, TaskTypes
  <2>3. Futures'
    BY <1>1, <1>15, FuturesStay DEF ReadBlocks
  <2>4. /\ pc[t] = "read" /\ UNCHANGED <<status, result, listed>>
        /\ pc' = [pc EXCEPT ![t] = IF AtEnd(t) THEN "last" ELSE "read"]
    BY <1>15 DEF ReadBlocks
  <2>5. (IF AtEnd(t) THEN "last" ELSE "read") \in {"read", "last"}
    OBVIOUS
  <2>6. TaskTypes'
    BY <1>1, <2>2, <2>4, <2>5 DEF TaskTypes
  <2> QED BY <1>3, <2>3, <2>6, TypePartsNext
<1>16. CASE CompareCRC(t)
  BY <1>5, <1>16 DEF CompareCRC
<1>17. CASE PathIsFolder(t)
  BY <1>5, <1>17 DEF PathIsFolder
<1>18. CASE PathIsFile(t)
  BY <1>5, <1>18 DEF PathIsFile
<1> QED
  BY <1>7, <1>8, <1>10, <1>11, <1>12, <1>13, <1>14, <1>15, <1>16, <1>17, <1>18, <1>9 DEF Task

\* What other programs make of a path.
LEMMA ChangeIs ==
    ASSUME IInv, NEW p \in Paths, Change(p)
    PROVE  \E c \in Contents \cup {Folder, NoFile} :
              /\ disk' = [disk EXCEPT ![p] = c]
              /\ pending' \in Noticed(p, c)
              /\ disk[p] \in Contents /\ IsOpen(p) => c \in Contents
<1>1. disk \in [Paths -> Contents \cup {Folder, NoFile}]
  BY TypeParts DEF IInv, JobTypes
<1>2. PICK c \in Replacements(p) : disk' = [disk EXCEPT ![p] = c] /\ pending' \in Noticed(p, c)
  BY DEF Change
<1>3. c \in Contents \cup {Folder, NoFile}
  BY <1>1, <1>2, ContentsAssumption DEF Replacements
<1>4. disk[p] \in Contents /\ IsOpen(p) => c \in Contents
  BY <1>1, <1>2, ContentsAssumption DEF Replacements
<1> QED BY <1>2, <1>3, <1>4

LEMMA TypeChange ==
    ASSUME IInv, NEW p \in Paths, Change(p)
    PROVE  TypeOK'
<1> USE DEF input, env, walk, report, jobVars, pool, taskVars
<1>1. JobTypes /\ Futures /\ TaskTypes
  BY TypeParts DEF IInv
<1>2. Futures' /\ TaskTypes'
  BY <1>1, FuturesStay, TasksStay DEF Change
<1>3. PICK c \in Contents \cup {Folder, NoFile} :
         disk' = [disk EXCEPT ![p] = c] /\ pending' \in Noticed(p, c)
  BY ChangeIs
<1>4. disk' \in [Paths -> Contents \cup {Folder, NoFile}]
  BY <1>1, <1>3 DEF JobTypes
<1>5. pending' \subseteq (Paths \ {Base}) \X BOOLEAN
  <2>1. p # Base => <<p, c = Folder>> \in (Paths \ {Base}) \X BOOLEAN
    <3>1. (c = Folder) \in BOOLEAN
      OBVIOUS
    <3> QED BY <3>1, Zenon
  <2>2. pending' \subseteq pending \/ (p # Base /\ pending' \subseteq pending \cup {<<p, c = Folder>>})
    BY <1>3, Zenon DEF Noticed
  <2> QED BY <1>1, <2>1, <2>2, Zenon DEF JobTypes
<1>6. changes' \in 0 .. MaxChanges
  <2>1. changes < MaxChanges /\ changes' = changes + 1
    BY DEF Change
  <2>2. changes \in 0 .. MaxChanges
    BY <1>1 DEF JobTypes
  <2> QED BY <2>1, <2>2, BoundAssumption
<1>7. JobTypes'
  BY <1>1, <1>4, <1>5, <1>6 DEF Change, JobTypes
<1> QED BY <1>2, <1>7, TypePartsNext

--------------------------------------------------------------------------------
(* The parts of the invariant *)

\* What a task leaves alone.
LEMMA TaskFrame ==
    ASSUME NEW t, Task(t)
    PROVE  UNCHANGED <<input, env, main, jobVars>>
BY DEF Task, Start, Pool!Start, Return, Pool!Finish, NameIsEmpty, EntryThrows, CheckFolder, CheckExists,
   OpenDiffers, OpenFile, ReadForEver, ReadBlocks, CompareCRC, PathIsFolder, PathIsFile,
   jobVars, pool, taskVars

\* What the job and the main thread leave alone.
LEMMA JobFrame ==
    ASSUME Main \/ Job
    PROVE  UNCHANGED <<input, env, taskVars>>
BY DEF Main, Run, PollDone, JoinThread, Job, OpenFails, ReadDirectory, List, EnqueueEntry,
   EnqueueDone, Enter, EnterThrows, VisitThrows, Visit, WalkDone, Collect, Report, DestroyPool,
   jobVars, pool, taskVars

\* The directory does not change once there are tasks.
LEMMA DirectoryStays ==
    ASSUME IInv, [Next]_vars
    PROVE  \/ listed' = listed
           \/ ReadDirectory /\ \A t \in Tasks : status[t] = "new" /\ pc[t] = "none" /\ result[t] = "kNone"
<1> USE DEF jobVars, taskVars, walk, report, input, env, pool
<1>1. CASE Main BY <1>1 DEF Main, Run, PollDone, JoinThread
<1>2. CASE Job
  <2>1. CASE ReadDirectory
    <3>1. futures = <<>>
      BY <2>1 DEF ReadDirectory, IInv, JobInv
    <3>2. \A t \in Tasks : status[t] = "new"
      BY <3>1, TypeParts DEF IInv, Futures
    <3>3. \A t \in Tasks : pc[t] = "none" /\ result[t] = "kNone"
      BY <3>2, TypeParts DEF IInv, TaskTypes
    <3> QED BY <2>1, <3>2, <3>3
  <2>2. CASE ~ReadDirectory
    BY <1>2, <2>2 DEF Job, OpenFails, List, EnqueueEntry,
       EnqueueDone, Enter, EnterThrows, VisitThrows, Visit, WalkDone, Collect, Report, DestroyPool
  <2> QED BY <2>1, <2>2
<1>3. ASSUME NEW t \in Tasks, Task(t) PROVE listed' = listed
  BY <1>3, TaskFrame
<1>4. ASSUME NEW p \in Paths, Change(p) PROVE listed' = listed
  BY <1>4 DEF Change
<1>5. CASE UNCHANGED vars BY <1>5 DEF vars
<1> QED BY <1>1, <1>2, <1>3, <1>4, <1>5 DEF Next

\* What was on disk at a moment of the job was there.
LEMMA DisksGrow ==
    ASSUME IInv, [Next]_vars
    PROVE  disks \subseteq disks' /\ disk' \in disks' /\ disk \in disks
<1> USE DEF jobVars, taskVars, walk, report, input, env, pool
<1>1. disk \in disks
  BY TypeParts DEF IInv, JobTypes
<1>2. CASE Main \/ Job BY <1>1, <1>2, JobFrame
<1>3. ASSUME NEW t \in Tasks, Task(t) PROVE disks' = disks /\ disk' = disk
  BY <1>3, TaskFrame
<1>4. ASSUME NEW p \in Paths, Change(p) PROVE disks \subseteq disks' /\ disk' \in disks'
  BY <1>4 DEF Change
<1>5. CASE UNCHANGED vars BY <1>1, <1>5 DEF vars
<1> QED BY <1>1, <1>2, <1>3, <1>4, <1>5 DEF Next

LEMMA JobStep ==
    ASSUME IInv, [Next]_vars
    PROVE  JobInv'
<1> USE DEF jobVars, taskVars, walk, report, input, env, pool, IInv, JobInv
<1>1. CASE Main BY <1>1 DEF Main, Run, PollDone, JoinThread
<1>2. CASE Job
  <2> USE DEF Die
  <2>1. CASE OpenFails \/ ReadDirectory \/ List
    BY <2>1 DEF OpenFails, ReadDirectory, List
  <2>2. ASSUME NEW e \in Positions, EnqueueEntry(e) PROVE JobInv'
    BY <2>2 DEF EnqueueEntry
  <2>3. CASE EnqueueDone \/ Enter \/ EnterThrows \/ VisitThrows \/ WalkDone
    BY <2>3 DEF EnqueueDone, Enter, EnterThrows, VisitThrows, WalkDone
  <2>4. ASSUME NEW p \in Paths, NEW isFolder \in BOOLEAN, Visit(p, isFolder) PROVE JobInv'
    <3>1. job = "walk" /\ job' = "walk" /\ main' = main
      BY <2>4 DEF Visit
    <3> QED BY <3>1
  <2>5. CASE Collect
    <3>1. job = "collect" /\ job' = "collect" /\ (main' = main \/ main' = "dead")
      BY <2>5 DEF Collect
    <3> QED BY <3>1
  <2>6. CASE Report \/ DestroyPool
    BY <2>6 DEF Report, DestroyPool
  <2> QED BY <1>2, <2>1, <2>2, <2>3, <2>4, <2>5, <2>6 DEF Job
<1>3. ASSUME NEW t \in Tasks, Task(t) PROVE JobInv'
  BY <1>3, TaskFrame
<1>4. ASSUME NEW p \in Paths, Change(p) PROVE JobInv'
  BY <1>4 DEF Change
<1>5. CASE UNCHANGED vars BY <1>5 DEF vars
<1> QED BY <1>1, <1>2, <1>3, <1>4, <1>5 DEF Next

LEMMA ListedStep ==
    ASSUME IInv, [Next]_vars
    PROVE  ListedInv'
<1>1. CASE listed' = listed
  BY <1>1 DEF ListedInv, IInv
<1>2. CASE ReadDirectory
  <2>1. package \in Packages
    BY TypeParts DEF IInv, JobTypes
  <2>2. listed' = Listed(Layout(package)) /\ CanOpen(Layout(package))
    BY <1>2 DEF ReadDirectory
  <2> QED BY <2>1, <2>2, PackageAssumption DEF ListedInv
<1> QED BY <1>1, <1>2, DirectoryStays

\* More blocks were read.
LEMMA SeenMore ==
    ASSUME IInv, NEW e \in Tasks, ReadBlocks(e)
    PROVE  Seen(e)'
<1> DEFINE n == Len(got[e])
           m == Len(NextBlocks(e))
<1>1. /\ e \in Positions /\ disk[Path(e)] \in Contents
      /\ got[e] \in Contents /\ NextBlocks(e) \in Contents
      /\ \A i \in 1 .. m : n + i \in DOMAIN disk[Path(e)] /\ NextBlocks(e)[i] = disk[Path(e)][n + i]
  BY ReadsBlocks
<1>2. got'[e] = got[e] \o NextBlocks(e) /\ UNCHANGED <<disk, disks, listed>>
  BY TypeParts DEF ReadBlocks, IInv, TaskTypes, env, jobVars
<1>3. n \in Nat /\ m \in Nat /\ DOMAIN got[e] = 1 .. n
  BY <1>1 DEF Contents
<1>4. Seen(e) /\ disk \in disks
  BY <1>1, TypeParts DEF IInv, TaskInv, ReadBlocks, JobTypes
<1>5. /\ got'[e] \in Seq(Blocks) /\ Len(got'[e]) = n + m
      /\ \A k \in 1 .. n + m : got'[e][k] = IF k <= n THEN got[e][k] ELSE NextBlocks(e)[k - n]
  BY <1>1, <1>2, ConcatProperties DEF Contents
<1> HIDE DEF n, m
<1>6. ASSUME NEW k \in 1 .. n + m
      PROVE  \E d \in disks :
                d[Path(e)] \in Contents /\ k \in DOMAIN d[Path(e)] /\ d[Path(e)][k] = got'[e][k]
  <2>1. CASE k > n
    <3>1. k - n \in 1 .. m /\ n + (k - n) = k /\ ~(k <= n)
      BY <1>3, <2>1
    <3>2. k \in DOMAIN disk[Path(e)] /\ NextBlocks(e)[k - n] = disk[Path(e)][k]
      BY <1>1, <3>1
    <3> QED BY <1>1, <1>4, <1>5, <3>1, <3>2
  <2>2. CASE k <= n
    <3>1. k \in DOMAIN got[e]
      BY <1>3, <2>2
    <3> QED BY <1>4, <1>5, <2>2, <3>1 DEF Seen
  <2> QED BY <1>3, <2>1, <2>2
<1>7. DOMAIN got'[e] = 1 .. n + m
  BY <1>3, <1>5
<1> QED BY <1>2, <1>6, <1>7 DEF Seen, Path

\* A file that a task reads stays a file.
LEMMA OpenStays ==
    ASSUME IInv, NEW p \in Paths, Change(p), NEW e \in Positions, pc[e] \in {"read", "last", "hung"}
    PROVE  disk'[Path(e)] \in Contents
<1>1. disk[Path(e)] \in Contents
  BY DEF IInv, TaskInv
<1>2. PICK c : disk' = [disk EXCEPT ![p] = c] /\ (disk[p] \in Contents /\ IsOpen(p) => c \in Contents)
  BY ChangeIs
<1>3. disk \in [Paths -> Contents \cup {Folder, NoFile}] /\ Path(e) \in Paths
  BY OpenEntry, TypeParts DEF IInv, JobTypes, Tasks
<1>4. CASE Path(e) = p
  BY <1>1, <1>2, <1>3, <1>4 DEF IsOpen
<1>5. CASE Path(e) # p
  BY <1>1, <1>2, <1>3, <1>5
<1> QED BY <1>4, <1>5

\* What was seen was seen.
LEMMA SeenStays ==
    ASSUME NEW e, Seen(e), disks \subseteq disks', UNCHANGED <<got, listed>>
    PROVE  Seen(e)'
BY DEF Seen, Path

LEMMA TaskStep ==
    ASSUME IInv, [Next]_vars
    PROVE  TaskInv'
<1> USE DEF jobVars, taskVars, walk, report, input, env, pool
<1>1. CASE Main \/ Job
  <2>1. UNCHANGED <<disk, disks, pc, got>>
    BY <1>1, JobFrame
  <2>2. CASE listed' = listed
    BY <2>1, <2>2 DEF IInv, TaskInv, Seen, Path
  <2>3. CASE \A t \in Tasks : pc[t] = "none"
    BY <2>1, <2>3 DEF IInv, TaskInv, Tasks
  <2> QED BY <2>2, <2>3, DirectoryStays
<1>2. ASSUME NEW t \in Tasks, Task(t) PROVE TaskInv'
  <2>1. UNCHANGED <<disk, disks, listed>>
    BY <1>2, TaskFrame
  <2> SUFFICES ASSUME NEW e \in Positions
               PROVE  /\ pc'[e] \in {"none", "open"} => got'[e] = <<>>
                      /\ pc'[e] \in {"open", "read", "last", "hung"} => listed[e].name # NoName
                      /\ pc'[e] \in {"read", "last", "hung"} =>
                            disk[Path(e)] \in Contents /\ Seen(e)'
    BY <2>1 DEF TaskInv, Path
  <2>2. /\ pc[e] \in {"none", "open"} => got[e] = <<>>
        /\ pc[e] \in {"open", "read", "last", "hung"} => listed[e].name # NoName
        /\ pc[e] \in {"read", "last", "hung"} =>
              disk[Path(e)] \in Contents /\ Seen(e)
    BY DEF IInv, TaskInv
  <2>3. e \in Tasks /\ pc \in [Tasks -> {"none", "open", "read", "last", "hung", "end"}] /\ got \in [Tasks -> Contents]
    BY TypeParts DEF IInv, TaskTypes, Tasks
  <2>4. CASE pc'[e] = pc[e] /\ got' = got
    BY <2>1, <2>2, <2>4, SeenStays
  <2>5. CASE pc'[e] = "end"
    BY <2>5
  <2>6. CASE t # e
    <3>1. pc'[e] = pc[e] /\ got'[e] = got[e]
      BY <1>2, <2>3, <2>6 DEF Task, Start, Return, NameIsEmpty, EntryThrows, CheckFolder, CheckExists,
         OpenDiffers, OpenFile, ReadForEver, ReadBlocks, CompareCRC, PathIsFolder, PathIsFile
    <3> QED BY <2>1, <2>2, <3>1 DEF Seen, Path
  <2>7. ASSUME NEW r, Return(e, r) PROVE pc'[e] = "end"
    BY <2>3, <2>7 DEF Return
  <2>8. CASE t = e /\ Start(e)
    BY <2>4, <2>8 DEF Start
  <2>9. CASE t = e /\ (NameIsEmpty(e) \/ EntryThrows(e) \/ CheckFolder(e) \/ OpenDiffers(e)
                       \/ CompareCRC(e) \/ PathIsFolder(e) \/ PathIsFile(e))
    BY <2>5, <2>7, <2>9 DEF NameIsEmpty, EntryThrows, CheckFolder, OpenDiffers, CompareCRC,
       PathIsFolder, PathIsFile
  <2>10. CASE t = e /\ CheckExists(e)
    <3>1. CASE OnDisk(e) = NoFile
      BY <2>5, <2>7, <2>10, <3>1 DEF CheckExists
    <3>2. CASE OnDisk(e) # NoFile
      BY <2>2, <2>3, <2>10, <3>2 DEF CheckExists, Begins
    <3> QED BY <3>1, <3>2
  <2>11. CASE t = e /\ OpenFile(e)
    <3>1. pc[e] = "open" /\ pc'[e] = "read" /\ got' = got /\ got[e] = <<>>
      BY <2>2, <2>3, <2>11 DEF OpenFile
    <3>2. listed[e].usize \in Nat /\ Path(e) \in Paths
      BY <2>3, <3>1, OpenEntry
    <3>3. disk[Path(e)] \in Contents
      BY <2>11 DEF OpenFile, OtherSize, OnDisk
    <3>4. Seen(e)
      BY <3>1 DEF Seen
    <3> QED BY <2>1, <2>2, <3>1, <3>2, <3>3, <3>4, SeenStays
  <2>12. CASE t = e /\ ReadForEver(e)
    <3>1. pc[e] \in {"read", "last"} /\ pc'[e] = "hung" /\ got' = got
      BY <2>3, <2>12 DEF ReadForEver
    <3> QED BY <2>1, <2>2, <3>1, SeenStays
  <2>13. CASE t = e /\ ReadBlocks(e)
    <3>1. pc[e] = "read" /\ pc'[e] \in {"read", "last"}
      BY <2>3, <2>13 DEF ReadBlocks
    <3>2. Seen(e)'
      BY <2>3, <2>13, SeenMore
    <3> QED BY <2>2, <3>1, <3>2
  <2> QED
    BY <1>2, <2>6, <2>8, <2>9, <2>10, <2>11, <2>12, <2>13 DEF Task
<1>3. ASSUME NEW p \in Paths, Change(p) PROVE TaskInv'
  <2>1. UNCHANGED <<pc, got, listed>> /\ disks \subseteq disks'
    BY <1>3 DEF Change
  <2> SUFFICES ASSUME NEW e \in Positions
               PROVE  pc[e] \in {"read", "last", "hung"} => disk'[Path(e)] \in Contents /\ (Seen(e) => Seen(e)')
    BY <2>1 DEF IInv, TaskInv, Path
  <2> QED BY <1>3, <2>1, OpenStays, SeenStays
<1>4. CASE UNCHANGED vars
  BY <1>4 DEF vars, IInv, TaskInv, Seen, Path
<1> QED BY <1>1, <1>2, <1>3, <1>4 DEF Next

LEMMA IInvStep == IInv /\ [Next]_vars => IInv'
<1> SUFFICES ASSUME IInv, [Next]_vars PROVE IInv'
  OBVIOUS
<1>1. TypeOK'
  <2>1. CASE UNCHANGED vars
    <3> USE DEF vars, input, env, walk, report, jobVars, pool, taskVars
    <3>1. JobTypes /\ Futures /\ TaskTypes
      BY TypeParts DEF IInv
    <3>2. Futures' /\ TaskTypes'
      BY <2>1, <3>1, FuturesStay, TasksStay
    <3>3. JobTypes'
      BY <2>1, <3>1 DEF JobTypes
    <3> QED BY <3>2, <3>3, TypePartsNext
  <2> QED BY <2>1, TypeMain, TypeJob, TypeTask, TypeChange DEF Next
<1> QED BY <1>1, JobStep, ListedStep, TaskStep DEF IInv

\* Every variable has its type, and the futures of the job are those of the tasks that
\* were submitted, each once.
THEOREM TypeCorrect == Spec => []TypeOK
<1>1. IInv => TypeOK
  BY DEF IInv
<1> QED BY <1>1, TypeInit, IInvStep, PTL DEF Spec

--------------------------------------------------------------------------------
(* The results were true *)

\* What VerdictsWereTrue says of the task t.
Verdict(t) ==
    /\ \E d \in disks : IsTrueOf(d, t)
    /\ result[t] = "kFileMatch" =>
          \A k \in DOMAIN listed[t].crc : \E d \in disks :
             /\ d[Path(t)] \in Contents /\ k \in DOMAIN d[Path(t)]
             /\ d[Path(t)][k] = listed[t].crc[k]

VInv == IInv /\ FoundInv /\ VerdictsWereTrue

\* A result stays true of what it was true of.
LEMMA VerdictStays ==
    ASSUME NEW t, Verdict(t), disks \subseteq disks', UNCHANGED <<listed, barred>>,
           result'[t] = result[t]
    PROVE  Verdict(t)'
<1>1. \A d : IsTrueOf(d, t)' <=> IsTrueOf(d, t)
  BY DEF IsTrueOf, Path
<1> QED BY <1>1 DEF Verdict, Path

\* A task without a result says nothing.
LEMMA NoVerdict ==
    ASSUME NEW t, result[t] \in {"kNone", "kError", "threw"}, disk \in disks
    PROVE  Verdict(t)
BY DEF Verdict, IsTrueOf

\* If what a task has read is not what the archive has, then the file was not that at some
\* moment: otherwise each block read is one of the archive's, and as the count is no
\* larger than what was read, there are as many.
LEMMA BlocksDiffer ==
    ASSUME IInv, NEW e \in Tasks, pc[e] \in {"read", "last"}, ~MoreToRead(e),
           got[e] # listed[e].crc
    PROVE  \E d \in disks : d[Path(e)] # listed[e].crc
<1> DEFINE n == Len(got[e])
           m == Len(listed[e].crc)
<1> SUFFICES ASSUME \A d \in disks : d[Path(e)] = listed[e].crc PROVE FALSE
  OBVIOUS
<1>1. /\ e \in Positions /\ listed[e].crc \in Contents /\ listed[e].usize = m
      /\ got[e] \in Contents
  BY OpenEntry, TypeParts DEF IInv, TaskTypes
<1>2. Seen(e)
  BY <1>1 DEF IInv, TaskInv
<1>3. /\ n \in Nat /\ m \in Nat /\ DOMAIN got[e] = 1 .. n /\ DOMAIN listed[e].crc = 1 .. m
  BY <1>1 DEF Contents
<1>4. \A k \in 1 .. n : k \in 1 .. m /\ listed[e].crc[k] = got[e][k]
  BY <1>2, <1>3 DEF Seen
<1>5. ~(n % CounterLimit < m)
  BY <1>1 DEF MoreToRead
<1>6. CounterLimit \in Nat \ {0}
  BY BoundAssumption
<1> HIDE DEF n, m
<1>7. n \in Nat
  BY <1>3
<1>8. n % CounterLimit <= n /\ n % CounterLimit \in Nat
  BY ONLY <1>6, <1>7, RestIsSmaller
<1>9. n = m
  <2>1. m <= n
    BY <1>3, <1>5, <1>8
  <2>2. n > 0 => n \in 1 .. m
    BY <1>3, <1>4
  <2> QED BY <1>3, <2>1, <2>2
<1>10. got[e] = listed[e].crc
  BY <1>1, <1>3, <1>4, <1>9 DEF Contents, n, m
<1> QED BY <1>10

LEMMA FoundStep ==
    ASSUME IInv, FoundInv, [Next]_vars
    PROVE  FoundInv'
<1> USE DEF jobVars, taskVars, walk, report, input, env, pool
<1>1. disks \subseteq disks' /\ disk \in disks
  BY DisksGrow
<1>2. CASE listed' = listed /\ found' = found
  BY <1>1, <1>2 DEF FoundInv
<1>3. CASE ReadDirectory
  <2>1. \A p \in Paths : found'[p] = "unseen"
    BY <1>3 DEF ReadDirectory, IInv, JobInv
  <2> QED BY <2>1 DEF FoundInv
<1>4. ASSUME NEW p \in Paths, NEW isFolder \in BOOLEAN, Visit(p, isFolder)
      PROVE  FoundInv'
  <2>1. listed' = listed
    BY <1>4 DEF Visit
  <2> SUFFICES ASSUME NEW q \in Paths
               PROVE  /\ found'[q] = "kDirPathOnly" =>
                           ~HasHeader(listed, NameOf(q, TRUE)) /\ \E d \in disks' : d[q] = Folder
                      /\ found'[q] = "kFilePathOnly" => ~HasHeader(listed, NameOf(q, FALSE))
    BY <2>1 DEF FoundInv
  <2>2. found \in [Paths -> {"unseen", "in package", "kDirPathOnly", "kFilePathOnly"}]
    BY TypeParts DEF IInv, JobTypes
  <2>3. CASE q # p
    <3>1. found'[q] = found[q]
      BY <1>4, <2>2, <2>3 DEF Visit
    <3> QED BY <1>1, <3>1 DEF FoundInv
  <2>4. CASE q = p /\ HasHeader(listed, WalkName(p))
    BY <1>4, <2>2, <2>4 DEF Visit
  <2>5. CASE q = p /\ ~HasHeader(listed, WalkName(p))
    <3>1. found'[p] = IF disk[p] = Folder THEN "kDirPathOnly" ELSE "kFilePathOnly"
      BY <1>4, <2>2, <2>5 DEF Visit, PathOnly
    <3>2. CASE disk[p] = Folder
      BY <1>1, <2>5, <3>1, <3>2 DEF WalkName
    <3>3. CASE disk[p] # Folder
      <4>1. WalkName(p) = NameOf(p, FALSE)
        BY <3>3 DEF WalkName
      <4> QED BY <2>5, <3>1, <3>3, <4>1
    <3> QED BY <3>2, <3>3
  <2> QED BY <2>3, <2>4, <2>5
<1>5. CASE Main BY <1>2, <1>5 DEF Main, Run, PollDone, JoinThread
<1>6. CASE Job
  <2>1. ASSUME OpenFails \/ List \/ EnqueueDone \/ Enter \/ EnterThrows \/ VisitThrows \/ WalkDone
               \/ Collect \/ Report \/ DestroyPool \/ \E e \in Positions : EnqueueEntry(e)
        PROVE  FoundInv'
    BY <1>2, <2>1 DEF OpenFails, List, EnqueueEntry, EnqueueDone, Enter, EnterThrows, VisitThrows,
       WalkDone, Collect, Report, DestroyPool
  <2> QED BY <1>3, <1>4, <1>6, <2>1 DEF Job
<1>7. ASSUME NEW t \in Tasks, Task(t) PROVE FoundInv'
  BY <1>2, <1>7, TaskFrame
<1>8. ASSUME NEW p \in Paths, Change(p) PROVE FoundInv'
  BY <1>2, <1>8 DEF Change
<1>9. CASE UNCHANGED vars BY <1>2, <1>9 DEF vars
<1> QED BY <1>5, <1>6, <1>7, <1>8, <1>9 DEF Next

LEMMA VerdictTask ==
    ASSUME VInv, NEW t \in Tasks, Task(t)
    PROVE  VerdictsWereTrue'
<1> USE DEF jobVars, taskVars, walk, report, input, env, pool
<1>1. UNCHANGED <<disk, disks, listed, found, barred>>
  BY TaskFrame
<1>2. disk \in disks /\ disk \in [Paths -> Contents \cup {Folder, NoFile}]
  BY TypeParts DEF VInv, IInv, JobTypes
<1>3. \A x \in Tasks : Verdict(x)
  BY DEF VInv, VerdictsWereTrue, Verdict
<1>4. \A x \in Tasks : x # t => result'[x] = result[x]
  BY TypeParts DEF VInv, IInv, TaskTypes, Task, Start, Return, NameIsEmpty, EntryThrows, CheckFolder, CheckExists,
     OpenDiffers, OpenFile, ReadForEver, ReadBlocks, CompareCRC, PathIsFolder, PathIsFile
<1>5. SUFFICES Verdict(t)'
  BY <1>1, <1>3, <1>4, VerdictStays DEF VerdictsWereTrue, Verdict
<1>6. ASSUME NEW r, Return(t, r)
      PROVE  result'[t] = r
  BY <1>6, TypeParts DEF VInv, IInv, TaskTypes, Return
<1>7. CASE result'[t] = result[t]
  BY <1>1, <1>3, <1>7, VerdictStays
<1>8. CASE NameIsEmpty(t)
  <2>1. result'[t] = "kError" /\ disk' \in disks'
    BY <1>1, <1>2, <1>6, <1>8 DEF NameIsEmpty
  <2> QED BY <2>1 DEF Verdict, IsTrueOf
<1>9. CASE CheckFolder(t)
  <2>1. result'[t] = IF disk[Path(t)] = Folder THEN "kDirMatch" ELSE "kDirPackageOnly"
    BY <1>6, <1>9 DEF CheckFolder, OnDisk
  <2>2. IsTrueOf(disk, t)' /\ result'[t] # "kFileMatch"
    BY <1>1, <2>1 DEF IsTrueOf, Path
  <2> QED BY <1>1, <1>2, <2>2 DEF Verdict
<1>10. CASE CheckExists(t)
  <2>1. CASE OnDisk(t) = NoFile
    <3>1. result'[t] = "kFilePackageOnly"
      BY <1>6, <1>10, <2>1 DEF CheckExists
    <3>2. IsTrueOf(disk, t)'
      BY <1>1, <2>1, <3>1 DEF IsTrueOf, OnDisk, Path
    <3> QED BY <1>1, <1>2, <3>1, <3>2 DEF Verdict
  <2>2. CASE OnDisk(t) # NoFile
    BY <1>7, <1>10, <2>2 DEF CheckExists
  <2> QED BY <2>1, <2>2
<1>11. CASE OpenDiffers(t)
  <2>1. /\ result'[t] = "kFileDifferent" /\ pc[t] = "open"
        /\ OtherSize(t) \/ Path(t) \in barred
    BY <1>6, <1>11 DEF OpenDiffers
  <2>2. listed[t].crc \in Contents /\ listed[t].usize = Len(listed[t].crc)
    BY <2>1, OpenEntry DEF VInv
  <2>3. disk[Path(t)] # listed[t].crc \/ Path(t) \in barred
    BY <2>1, <2>2 DEF OtherSize, OnDisk
  <2>4. IsTrueOf(disk, t)'
    BY <1>1, <2>1, <2>3 DEF IsTrueOf, Path
  <2> QED BY <1>1, <1>2, <2>1, <2>4 DEF Verdict
<1>12. CASE CompareCRC(t)
  <2>1. pc[t] \in {"read", "last"} /\ ~MoreToRead(t)
    BY <1>12 DEF CompareCRC
  <2>2. t \in Positions
    BY <2>1, OpenEntry DEF VInv
  <2>3. CASE got[t] = listed[t].crc
    <3>1. result'[t] = "kFileMatch" /\ Seen(t)
      BY <1>6, <1>12, <2>1, <2>2, <2>3 DEF CompareCRC, VInv, IInv, TaskInv
    <3>2. IsTrueOf(disk, t)'
      BY <3>1 DEF IsTrueOf
    <3> QED BY <1>1, <1>2, <2>3, <3>1, <3>2 DEF Verdict, Seen, Path
  <2>4. CASE got[t] # listed[t].crc
    <3>1. result'[t] = "kFileDifferent"
      BY <1>6, <1>12, <2>4 DEF CompareCRC
    <3>2. PICK d \in disks : d[Path(t)] # listed[t].crc
      BY <2>1, <2>2, <2>4, BlocksDiffer DEF VInv
    <3>3. IsTrueOf(d, t)'
      BY <1>1, <3>1, <3>2 DEF IsTrueOf, Path
    <3> QED BY <1>1, <3>1, <3>3 DEF Verdict
  <2> QED BY <2>3, <2>4
<1>13. CASE PathIsFolder(t)
  <2>1. result'[t] = "kDirPathOnly" /\ t \in Paths /\ found[t] = "kDirPathOnly"
    BY <1>6, <1>13 DEF PathIsFolder
  <2>2. PICK d \in disks : d[t] = Folder /\ ~HasHeader(listed, NameOf(t, TRUE))
    BY <2>1 DEF VInv, FoundInv
  <2>3. IsTrueOf(d, t)'
    BY <1>1, <2>1, <2>2 DEF IsTrueOf
  <2> QED BY <1>1, <2>1, <2>3 DEF Verdict
<1>14. CASE PathIsFile(t)
  <2>1. /\ t \in Paths /\ found[t] = "kFilePathOnly"
        /\ result'[t] = "threw" \/ (result'[t] = "kFilePathOnly" /\ disk[t] \in Contents)
    BY <1>6, <1>14 DEF PathIsFile
  <2>2. ~HasHeader(listed, NameOf(t, FALSE))
    BY <2>1 DEF VInv, FoundInv
  <2>3. IsTrueOf(disk, t)'
    BY <1>1, <2>1, <2>2 DEF IsTrueOf
  <2> QED BY <1>1, <1>2, <2>1, <2>3 DEF Verdict
<1>15. CASE EntryThrows(t)
  <2>1. result'[t] = "threw" /\ disk' \in disks'
    BY <1>1, <1>2, <1>6, <1>15 DEF EntryThrows
  <2> QED BY <2>1 DEF Verdict, IsTrueOf
<1>16. CASE Start(t) \/ OpenFile(t) \/ ReadForEver(t) \/ ReadBlocks(t)
  BY <1>7, <1>16 DEF Start, OpenFile, ReadForEver, ReadBlocks
<1> QED
  BY <1>8, <1>9, <1>10, <1>11, <1>12, <1>13, <1>14, <1>16, <1>15 DEF Task

LEMMA VerdictStep ==
    ASSUME VInv, [Next]_vars
    PROVE  VerdictsWereTrue'
<1> USE DEF jobVars, taskVars, walk, report, input, env, pool
<1>1. disks \subseteq disks' /\ disk' \in disks' /\ \A x \in Tasks : Verdict(x)
  BY DisksGrow DEF VInv, VerdictsWereTrue, Verdict
<1>2. barred' = barred
  BY JobFrame, TaskFrame DEF Next, Change, vars
<1>3. CASE result' = result
  <2>1. CASE listed' = listed
    BY <1>1, <1>3, <1>2, <2>1, VerdictStays DEF VerdictsWereTrue, Verdict
  <2>2. CASE \A t \in Tasks : result[t] = "kNone"
    <3>1. \A t \in Tasks : Verdict(t)'
      BY <1>1, <1>3, <2>2 DEF Verdict, IsTrueOf
    <3> QED BY <3>1 DEF VerdictsWereTrue, Verdict
  <2> QED BY <2>1, <2>2, DirectoryStays DEF VInv
<1>4. CASE Main \/ Job BY <1>3, <1>4, JobFrame
<1>5. ASSUME NEW t \in Tasks, Task(t) PROVE VerdictsWereTrue'
  BY <1>5, VerdictTask
<1>6. ASSUME NEW p \in Paths, Change(p) PROVE VerdictsWereTrue'
  BY <1>3, <1>6 DEF Change
<1>7. CASE UNCHANGED vars BY <1>3, <1>7 DEF vars
<1> QED BY <1>4, <1>5, <1>6, <1>7 DEF Next

\* Whatever other programs do to the folder, each result of a diff was true at some
\* moment of it, but that a file which may not be opened is called different whatever it
\* has in it.
THEOREM VerdictsAreTrue == Spec => []VerdictsWereTrue
<1>1. Init => VInv
  <2> SUFFICES ASSUME Init PROVE VInv
    OBVIOUS
  <2>1. /\ \A t \in Tasks : result[t] = "kNone"
        /\ disk \in disks /\ \A p \in Paths : found[p] = "unseen"
    BY DEF Init
  <2>2. VerdictsWereTrue
    BY <2>1 DEF VerdictsWereTrue, IsTrueOf
  <2> QED BY <2>1, <2>2, TypeInit DEF VInv, FoundInv
<1>2. VInv /\ [Next]_vars => VInv'
  BY IInvStep, FoundStep, VerdictStep DEF VInv
<1>3. VInv => VerdictsWereTrue
  BY DEF VInv
<1> QED BY <1>1, <1>2, <1>3, PTL DEF Spec

--------------------------------------------------------------------------------
(* Nothing but a change brings the process down *)

LEMMA ChangesIsNat == IInv => changes \in Nat
<1>1. IInv => changes \in 0 .. MaxChanges
  BY TypeParts DEF IInv, JobTypes
<1> QED BY <1>1, BoundAssumption

\* The iterator takes the paths in a folder for what they are.
LEMMA ChildrenAreThere ==
    ASSUME NEW p, NEW c \in Children(p)
    PROVE  disk[c[1]] # NoFile /\ (c[2] => disk[c[1]] = Folder)
<1>1. PICK q \in Paths : disk[q] # NoFile /\ c = <<q, disk[q] = Folder>>
  BY Zenon DEF Children
<1>2. c[1] = q /\ c[2] = (disk[q] = Folder)
  BY <1>1
<1> QED BY <1>1, <1>2

LEMMA NothingChangedJob ==
    ASSUME IInv, NothingChanged, Job
    PROVE  NothingChanged'
<1> USE DEF jobVars, taskVars, walk, report, input, env, pool
<1>1. UNCHANGED <<disk, changes, barred, result>>
  BY JobFrame
<1> SUFFICES ASSUME changes = 0, barred = {}
             PROVE  /\ main' = "dead" => disk[Base] # Folder
                    /\ entering' # NoFile /\ entering' # Base => disk[entering'] = Folder
                    /\ \A c \in pending' : disk[c[1]] # NoFile /\ (c[2] => disk[c[1]] = Folder)
                    /\ \A p \in Paths : found'[p] = "kFilePathOnly" => disk[p] \in Contents
  BY <1>1 DEF NothingChanged
<1>2. /\ main = "dead" => disk[Base] # Folder
      /\ entering # NoFile /\ entering # Base => disk[entering] = Folder
      /\ \A c \in pending : disk[c[1]] # NoFile /\ (c[2] => disk[c[1]] = Folder)
      /\ \A p \in Paths : found[p] = "kFilePathOnly" => disk[p] \in Contents
      /\ \A t \in Tasks : result[t] # "threw"
  BY DEF NothingChanged
<1>3. ASSUME OpenFails \/ ReadDirectory \/ List \/ WalkDone \/ Report \/ DestroyPool
             \/ \E e \in Positions : EnqueueEntry(e)
      PROVE  UNCHANGED <<main, entering, pending, found>>
  BY <1>3 DEF OpenFails, ReadDirectory, List, WalkDone, Report, DestroyPool, EnqueueEntry
<1>4. CASE EnqueueDone
  <2>1. entering' = Base /\ UNCHANGED <<main, pending, found>>
    BY <1>4 DEF EnqueueDone
  <2> QED BY <1>2, <2>1
<1>5. CASE Enter
  <2>1. entering' = NoFile /\ UNCHANGED <<main, found>>
    BY <1>5 DEF Enter
  <2>2. \A c \in Children(entering) : disk[c[1]] # NoFile /\ (c[2] => disk[c[1]] = Folder)
    BY ChildrenAreThere
  <2>3. \A c \in pending' : disk[c[1]] # NoFile /\ (c[2] => disk[c[1]] = Folder)
    BY <1>2, <1>5, <2>2 DEF Enter
  <2> QED BY <1>2, <2>1, <2>3
<1>6. CASE EnterThrows
  <2>1. entering # NoFile /\ disk[entering] # Folder /\ UNCHANGED <<entering, pending, found>>
    BY <1>6 DEF EnterThrows
  <2> QED BY <1>2, <2>1
<1>7. ASSUME NEW p \in Paths, NEW isFolder \in BOOLEAN, Visit(p, isFolder)
      PROVE  /\ main' = main
             /\ entering' # NoFile => disk[entering'] = Folder
             /\ pending' \subseteq pending
             /\ \A q \in Paths : found'[q] = "kFilePathOnly" => disk[q] \in Contents
  <2>1. /\ main' = main /\ pending' \subseteq pending /\ <<p, isFolder>> \in pending
        /\ entering' = IF isFolder THEN p ELSE NoFile
    BY <1>7 DEF Visit, NextEntered
  <2>2. disk[p] # NoFile /\ (isFolder => disk[p] = Folder)
    BY <1>2, <2>1
  <2>3. /\ found \in [Paths -> {"unseen", "in package", "kDirPathOnly", "kFilePathOnly"}]
        /\ disk \in [Paths -> Contents \cup {Folder, NoFile}]
    BY TypeParts DEF IInv, JobTypes
  <2>4. \A q \in Paths : found'[q] = "kFilePathOnly" => found[q] = "kFilePathOnly" \/ (q = p /\ disk[p] # Folder)
    BY <1>7, <2>3 DEF Visit, PathOnly
  <2> QED BY <1>2, <2>1, <2>2, <2>3, <2>4
<1>8. CASE Collect
  <2>1. UNCHANGED <<entering, pending, found>>
    BY <1>8 DEF Collect
  <2>2. collected + 1 \in DOMAIN futures /\ futures[collected + 1] \in Tasks
    <3>1. futures \in Seq(Tasks) /\ collected \in 0 .. Len(futures)
      BY TypeParts DEF IInv, JobTypes, Futures
    <3>2. collected + 1 \in 1 .. Len(futures)
      <4>1. Len(futures) \in Nat /\ collected < Len(futures)
        BY <1>8, <3>1, LenProperties DEF Collect
      <4> QED BY <3>1, <4>1
    <3> QED BY <3>1, <3>2, LenProperties, ElementOfSeq
  <2>3. main' = main
    BY <1>2, <1>8, <2>2 DEF Collect
  <2> QED BY <1>2, <2>1, <2>3
<1>9. ~VisitThrows
  BY DEF VisitThrows
<1>10. CASE UNCHANGED <<main, entering, pending, found>>
  BY <1>2, <1>10
<1> QED BY <1>2, <1>3, <1>4, <1>5, <1>6, <1>7, <1>8, <1>10, <1>9 DEF Job

LEMMA NothingChangedStep ==
    ASSUME IInv, NothingChanged, [Next]_vars
    PROVE  NothingChanged'
<1> USE DEF jobVars, taskVars, walk, report, input, env, pool
<1>1. CASE Main
  <2>1. UNCHANGED <<disk, changes, barred, result, entering, pending, found>> /\ main' # "dead"
    BY <1>1 DEF Main, Run, PollDone, JoinThread
  <2> QED BY <2>1 DEF NothingChanged
<1>2. CASE Job BY <1>2, NothingChangedJob
<1>3. ASSUME NEW t \in Tasks, Task(t) PROVE NothingChanged'
  <2>1. UNCHANGED <<disk, changes, barred, main, entering, pending, found>>
    BY <1>3, TaskFrame
  <2>2. ASSUME barred = {}, NEW x \in Tasks, result'[x] = "threw"
        PROVE  result[x] = "threw" \/ (x \in Paths /\ found[x] = "kFilePathOnly" /\ disk[x] \notin Contents)
    <3>1. result \in [Tasks -> {"kNone", "kError", "kDirMatch", "kDirPackageOnly", "kDirPathOnly",
                                "kFileMatch", "kFileDifferent", "kFilePackageOnly", "kFilePathOnly",
                                "threw"}]
      BY TypeParts DEF IInv, TaskTypes
    <3>2. CASE PathIsFile(t)
      BY <2>2, <3>1, <3>2 DEF PathIsFile, Return
    <3>3. ASSUME NEW r, r # "threw", Return(t, r)
          PROVE  result[x] = "threw"
      BY <2>2, <3>1, <3>3 DEF Return
    <3>4. CASE NameIsEmpty(t) BY <3>3, <3>4 DEF NameIsEmpty
    <3>5. CASE CheckFolder(t) BY <3>3, <3>5 DEF CheckFolder
    <3>6. CASE CheckExists(t)
      <4>1. CASE OnDisk(t) = NoFile BY <3>3, <3>6, <4>1 DEF CheckExists
      <4>2. CASE OnDisk(t) # NoFile BY <2>2, <3>6, <4>2 DEF CheckExists
      <4> QED BY <4>1, <4>2
    <3>7. CASE OpenDiffers(t) BY <3>3, <3>7 DEF OpenDiffers
    <3>8. CASE CompareCRC(t) BY <3>3, <3>8 DEF CompareCRC
    <3>9. CASE PathIsFolder(t) BY <3>3, <3>9 DEF PathIsFolder
    <3>10. CASE Start(t) \/ OpenFile(t) \/ ReadForEver(t) \/ ReadBlocks(t)
      BY <2>2, <3>10 DEF Start, OpenFile, ReadForEver, ReadBlocks
    <3>11. ~EntryThrows(t)
      BY <2>2 DEF EntryThrows
    <3> QED
      BY <1>3, <3>2, <3>4, <3>5, <3>6, <3>7, <3>8, <3>9, <3>10, <3>11 DEF Task
  <2> QED BY <2>1, <2>2 DEF NothingChanged
<1>4. ASSUME NEW p \in Paths, Change(p) PROVE NothingChanged'
  <2>1. changes' = changes + 1 /\ changes \in Nat
    BY <1>4, ChangesIsNat DEF Change
  <2> QED BY <2>1 DEF NothingChanged
<1>5. CASE UNCHANGED vars
  BY <1>5 DEF vars, NothingChanged
<1> QED BY <1>1, <1>2, <1>3, <1>4, <1>5 DEF Next

\* Only if the base folder is missing, the system refuses something, or something changes
\* while it runs, does a diff bring down the process.  Once the process is dead nothing
\* changes any more.
THEOREM DiesOfChange == Spec => []DiesOnlyOfChange
<1> DEFINE I == IInv /\ NothingChanged
<1>1. Init => I
  <2> SUFFICES ASSUME Init PROVE NothingChanged
    BY TypeInit
  <2> QED BY DEF Init, NothingChanged
<1>2. I /\ [Next]_vars => I'
  BY IInvStep, NothingChangedStep
<1>3. I => DiesOnlyOfChange
  BY ChangesIsNat DEF NothingChanged, DiesOnlyOfChange
<1> QED BY <1>1, <1>2, <1>3, PTL DEF Spec


--------------------------------------------------------------------------------
(* The report is right *)

\* So far the folder is as it was when the job began.
Quiet == \A d \in disks : d = disk

\* The walk is over.
Walked == job \in {"collect", "destroy"} \/ allMatch # "none"

\* Whether there is a folder at p.
IsFolder(p) == disk[p] = Folder

\* What was collected was a result,
CollectedInv ==
    \A i \in 1 .. collected : status[futures[i]] = "done" /\ result[futures[i]] # "threw"

\* and the report speaks of all results.
ReportedInv ==
    allMatch # "none" =>
       /\ job \in {"destroy", "ended"}
       /\ collected = Len(futures)
       /\ allMatch = "yes" <=> \A i \in 1 .. Len(futures) : result[futures[i]] \notin Counted

\* The results that the task of an entry may have, unless it has thrown.
ResultInv ==
    \A e \in Positions :
       /\ pc[e] \in {"open", "read", "last", "hung"} => ~listed[e].name.slash
       /\ pc[e] = "end" /\ listed[e].name # NoName /\ result[e] # "threw" =>
             result[e] \in IF listed[e].name.slash THEN {"kDirMatch", "kDirPackageOnly"}
                           ELSE {"kFilePackageOnly", "kFileDifferent", "kFileMatch"}

\* Each entry has a task from when it was its turn.
SubmittedInv ==
    /\ job = "enqueue" => \A e \in Positions : status[e] # "new" <=> e <= Len(futures)
    /\ job = "walk" \/ Walked => \A e \in Positions : status[e] # "new" <=> e \in DOMAIN listed

\* A file that is read or matches has as many blocks as the archive says.  A task never
\* has more, and at the end of the file it has all.
LengthsInv ==
    \A e \in Positions :
       /\ pc[e] \in {"read", "last", "hung"} \/ result[e] = "kFileMatch" =>
             OnDisk(e) \in Contents /\ Len(OnDisk(e)) = listed[e].usize
       /\ pc[e] = "read" => Len(got[e]) <= listed[e].usize
       /\ pc[e] = "last" => Len(got[e]) = listed[e].usize

\* The walk has come or will come to what is in the folders it has entered, and enters
\* the folders it has come to.
WalkInv ==
    /\ disk \in InitialDisks
    /\ job = "walk" => Base \in entered \/ entering = Base
    /\ Walked => pending = {} /\ entering = NoFile /\ Base \in entered
    /\ \A p \in Paths, isFolder \in BOOLEAN : <<p, isFolder>> \in pending =>
          p \in Below(disk) /\ (isFolder <=> IsFolder(p)) /\ found[p] = "unseen"
    /\ \A p \in Below(disk) : Parent[p] \in entered =>
          found[p] # "unseen" \/ \E isFolder \in BOOLEAN : <<p, isFolder>> \in pending
    /\ \A p \in Paths : found[p] # "unseen" =>
          p \in Below(disk) /\ (IsFolder(p) => p \in entered \/ p = entering)

\* What it has found is so, and has a task if it is not in the archive.
FoundIs ==
    \A p \in Paths :
       /\ found[p] = "in package" => HasHeader(listed, NameOf(p, IsFolder(p)))
       /\ found[p] = "kDirPathOnly" => IsFolder(p) /\ ~HasHeader(listed, NameOf(p, TRUE))
       /\ found[p] = "kFilePathOnly" => ~IsFolder(p) /\ ~HasHeader(listed, NameOf(p, FALSE))
       /\ status[p] # "new" <=> found[p] \in {"kDirPathOnly", "kFilePathOnly"}
       /\ pc[p] = "end" => result[p] \in {found[p], "threw"}

QuietInv == Quiet => LengthsInv /\ WalkInv /\ FoundIs

RInv == VInv /\ CollectedInv /\ ReportedInv /\ ResultInv /\ SubmittedInv /\ QuietInv

\* As long as the folder is as it was, nobody changes it.
LEMMA QuietSteps ==
    ASSUME IInv, [Next]_vars, Quiet'
    PROVE  /\ Quiet /\ UNCHANGED <<disk, disks>>
           /\ Main \/ Job \/ (\E t \in Tasks : Task(t)) \/ UNCHANGED vars
<1> USE DEF jobVars, taskVars, walk, report, input, env, pool
<1>1. ASSUME NEW p \in Paths, Change(p) PROVE FALSE
  <2>1. disk \in [Paths -> Contents \cup {Folder, NoFile}]
    BY TypeParts DEF IInv, JobTypes
  <2>2. PICK c \in Replacements(p) : disk' = [disk EXCEPT ![p] = c]
    BY <1>1 DEF Change
  <2>3. c # disk[p]
    BY <2>1, <2>2, ContentsAssumption DEF Replacements
  <2>4. disk'[p] # disk[p]
    BY <2>1, <2>2, <2>3
  <2>5. disk \in disks'
    BY DisksGrow
  <2> QED BY <2>4, <2>5 DEF Quiet
<1>2. Main \/ Job \/ (\E t \in Tasks : Task(t)) \/ UNCHANGED vars
  BY <1>1 DEF Next
<1>3. UNCHANGED <<disk, disks>>
  BY <1>2, JobFrame, TaskFrame DEF vars
<1> QED BY <1>2, <1>3 DEF Quiet

\* A task that was collected is done.
LEMMA FutureIsTask ==
    ASSUME IInv, NEW i \in 1 .. Len(futures)
    PROVE  futures[i] \in Tasks /\ i \in DOMAIN futures
<1>1. futures \in Seq(Tasks)
  BY TypeParts DEF IInv, Futures
<1>2. DOMAIN futures = 1 .. Len(futures)
  BY <1>1, LenProperties
<1> QED BY <1>1, <1>2, ElementOfSeq

\* Tasks that are done stay so, with their results.
LEMMA DoneStays ==
    ASSUME IInv, [Next]_vars, NEW t \in Tasks, status[t] = "done"
    PROVE  status'[t] = "done" /\ result'[t] = result[t]
<1> USE DEF jobVars, taskVars, walk, report, input, env, pool
<1>1. /\ status \in [Tasks -> {"new", "queued", "running", "done"}]
      /\ \A x \in Tasks : pc[x] = "end" <=> status[x] = "done"
      /\ pc \in [Tasks -> {"none", "open", "read", "last", "hung", "end"}]
      /\ result \in [Tasks -> {"kNone", "kError", "kDirMatch", "kDirPackageOnly", "kDirPathOnly",
                            "kFileMatch", "kFileDifferent", "kFilePackageOnly", "kFilePathOnly",
                            "threw"}]
  BY TypeParts DEF IInv, Futures, TaskTypes
<1>2. CASE Main BY <1>2 DEF Main, Run, PollDone, JoinThread
<1>3. CASE Job
  <2>1. result' = result
    BY <1>3, JobFrame
  <2>2. ASSUME NEW x \in Tasks, Submit(x) PROVE status'[t] = "done"
    <3>1. status[x] = "new" /\ status' = [status EXCEPT ![x] = "queued"]
      BY <2>2 DEF Submit, Pool!Submit
    <3> QED BY <1>1, <3>1
  <2>3. ASSUME NEW e \in Positions, EnqueueEntry(e) PROVE status'[t] = "done"
    BY <2>2, <2>3 DEF EnqueueEntry, Tasks
  <2>4. ASSUME NEW p \in Paths, NEW isFolder \in BOOLEAN, Visit(p, isFolder) PROVE status'[t] = "done"
    BY <2>2, <2>4 DEF Visit, Tasks
  <2>5. CASE OpenFails \/ ReadDirectory \/ List \/ EnqueueDone \/ Enter \/ EnterThrows \/ VisitThrows
             \/ WalkDone \/ Collect \/ Report \/ DestroyPool
    BY <2>5 DEF OpenFails, ReadDirectory, List, EnqueueDone, Enter, EnterThrows, VisitThrows, WalkDone,
       Collect, Report, DestroyPool, Pool!Destroy
  <2> QED BY <1>3, <2>1, <2>3, <2>4, <2>5 DEF Job
<1>4. ASSUME NEW x \in Tasks, Task(x) PROVE status'[t] = "done" /\ result'[t] = result[t]
  <2>1. CASE x = t
    BY <1>1, <1>4, <2>1 DEF Task, Start, Pool!Start, Return, Pool!Finish, Begins, NameIsEmpty, EntryThrows,
       CheckFolder, CheckExists, OpenDiffers, OpenFile, ReadForEver, ReadBlocks, CompareCRC,
       PathIsFolder, PathIsFile
  <2>2. CASE x # t
    BY <1>1, <1>4, <2>2 DEF Task, Start, Pool!Start, Return, Pool!Finish, Begins, NameIsEmpty, EntryThrows,
       CheckFolder, CheckExists, OpenDiffers, OpenFile, ReadForEver, ReadBlocks, CompareCRC,
       PathIsFolder, PathIsFile
  <2> QED BY <2>1, <2>2
<1>5. ASSUME NEW p \in Paths, Change(p) PROVE UNCHANGED <<status, result>>
  BY <1>5 DEF Change
<1>6. CASE UNCHANGED vars BY <1>6 DEF vars
<1> QED BY <1>2, <1>3, <1>4, <1>5, <1>6 DEF Next

\* The futures only become more.
LEMMA FuturesGrow ==
    ASSUME IInv, [Next]_vars
    PROVE  /\ Len(futures) \in Nat /\ Len(futures') \in Nat /\ Len(futures) <= Len(futures')
           /\ \A i \in 1 .. Len(futures) : futures'[i] = futures[i]
           /\ futures' # futures => job \in {"enqueue", "walk"} /\ UNCHANGED <<job, collected, allMatch>>
<1> USE DEF jobVars, taskVars, walk, report, input, env, pool
<1>1. futures \in Seq(Tasks) /\ Len(futures) \in Nat
  BY TypeParts, LenProperties DEF IInv, Futures
<1>2. CASE futures' = futures
  BY <1>1, <1>2
<1>3. ASSUME NEW t \in Tasks, Submit(t)
      PROVE  Len(futures') = Len(futures) + 1 /\ \A i \in 1 .. Len(futures) : futures'[i] = futures[i]
  BY <1>1, <1>3, AppendProperties DEF Submit
<1>4. ASSUME NEW e \in Positions, EnqueueEntry(e)
      PROVE  Submit(e) /\ job = "enqueue" /\ UNCHANGED <<job, collected, allMatch>>
  BY <1>4 DEF EnqueueEntry
<1>5. ASSUME NEW p \in Paths, NEW isFolder \in BOOLEAN, Visit(p, isFolder), futures' # futures
      PROVE  Submit(p) /\ job = "walk" /\ UNCHANGED <<job, collected, allMatch>>
  BY <1>5 DEF Visit
<1>6. ASSUME NEW t \in Tasks, Submit(t), job \in {"enqueue", "walk"}, UNCHANGED <<job, collected, allMatch>>
      PROVE  /\ Len(futures) \in Nat /\ Len(futures') \in Nat /\ Len(futures) <= Len(futures')
             /\ \A i \in 1 .. Len(futures) : futures'[i] = futures[i]
             /\ job \in {"enqueue", "walk"} /\ UNCHANGED <<job, collected, allMatch>>
  <2>1. Len(futures') = Len(futures) + 1 /\ \A i \in 1 .. Len(futures) : futures'[i] = futures[i]
    BY <1>3, <1>6
  <2> QED BY <1>1, <1>6, <2>1
<1>7. \/ futures' = futures
      \/ \E e \in Positions : EnqueueEntry(e)
      \/ \E p \in Paths, isFolder \in BOOLEAN : Visit(p, isFolder)
  <2>1. CASE Main BY <2>1 DEF Main, Run, PollDone, JoinThread
  <2>2. CASE Job BY <2>2 DEF Job, OpenFails, ReadDirectory, List, EnqueueDone, Enter, EnterThrows, VisitThrows,
     WalkDone, Collect, Report, DestroyPool
  <2>3. ASSUME NEW t \in Tasks, Task(t) PROVE futures' = futures
    BY <2>3, TaskFrame
  <2>4. ASSUME NEW p \in Paths, Change(p) PROVE futures' = futures
    BY <2>4 DEF Change
  <2>5. CASE UNCHANGED vars BY <2>5 DEF vars
  <2> QED BY <2>1, <2>2, <2>3, <2>4, <2>5 DEF Next
<1> QED BY <1>2, <1>4, <1>5, <1>6, <1>7 DEF Tasks

LEMMA CollectedStep ==
    ASSUME IInv, CollectedInv, [Next]_vars
    PROVE  CollectedInv'
<1> USE DEF jobVars, taskVars, walk, report, input, env, pool
<1>1. /\ Len(futures) \in Nat /\ collected \in 0 .. Len(futures)
      /\ \A i \in 1 .. Len(futures) : futures[i] \in Tasks
  BY FutureIsTask, FuturesGrow, TypeParts DEF IInv, JobTypes
<1>2. ASSUME NEW i \in 1 .. Len(futures), status[futures[i]] = "done", result[futures[i]] # "threw"
      PROVE  status'[futures'[i]] = "done" /\ result'[futures'[i]] # "threw"
  BY <1>1, <1>2, DoneStays, FuturesGrow
<1>3. CASE collected' = collected
  <2>1. \A i \in 1 .. collected : i \in 1 .. Len(futures)
    BY <1>1
  <2> QED BY <1>2, <1>3, <2>1 DEF CollectedInv
<1>4. CASE Collect /\ collected' # collected
  <2>1. /\ collected < Len(futures) /\ status[futures[collected + 1]] = "done"
        /\ collected' = collected + 1 /\ result[futures[collected + 1]] # "threw"
    BY <1>4 DEF Collect
  <2>2. \A i \in 1 .. collected + 1 : i \in 1 .. Len(futures) /\ (i \in 1 .. collected \/ i = collected + 1)
    BY <1>1, <2>1
  <2> QED BY <1>2, <2>1, <2>2 DEF CollectedInv
<1>5. collected' = collected \/ Collect
  <2>1. CASE Main BY <2>1 DEF Main, Run, PollDone, JoinThread
  <2>2. CASE Job BY <2>2 DEF Job, OpenFails, ReadDirectory, List, EnqueueEntry, EnqueueDone, Enter,
     EnterThrows, VisitThrows, Visit, WalkDone, Report, DestroyPool
  <2>3. ASSUME NEW t \in Tasks, Task(t) PROVE collected' = collected
    BY <2>3, TaskFrame
  <2>4. ASSUME NEW p \in Paths, Change(p) PROVE collected' = collected
    BY <2>4 DEF Change
  <2>5. CASE UNCHANGED vars BY <2>5 DEF vars
  <2> QED BY <2>1, <2>2, <2>3, <2>4, <2>5 DEF Next
<1> QED BY <1>3, <1>4, <1>5

LEMMA ReportedStep ==
    ASSUME IInv, CollectedInv, ReportedInv, [Next]_vars
    PROVE  ReportedInv'
<1> USE DEF jobVars, taskVars, walk, report, input, env, pool
<1>1. /\ Len(futures) \in Nat
      /\ \A i \in 1 .. Len(futures) : futures[i] \in Tasks
  BY FutureIsTask, FuturesGrow, TypeParts DEF IInv, JobTypes
<1>2. CASE Report
  <2>1. /\ UNCHANGED <<futures, collected, result>> /\ job' = "destroy" /\ collected = Len(futures)
        /\ allMatch' = IF \E i \in DOMAIN futures : result[futures[i]] \in Counted THEN "no" ELSE "yes"
    BY <1>2, JobFrame DEF Report, Job
  <2>2. DOMAIN futures = 1 .. Len(futures)
    BY TypeParts, LenProperties DEF IInv, Futures
  <2> QED BY <2>1, <2>2 DEF ReportedInv
<1>3. CASE ~Report
  <2>1. allMatch' = allMatch /\ (job \in {"destroy", "ended"} => job' \in {"destroy", "ended"} /\ collected' = collected)
    <3>1. CASE Main BY <3>1 DEF Main, Run, PollDone, JoinThread, ReportedInv, IInv, JobInv
    <3>2. CASE Job BY <1>3, <3>2 DEF Job, OpenFails, ReadDirectory, List, EnqueueEntry, EnqueueDone, Enter,
       EnterThrows, VisitThrows, Visit, WalkDone, Collect, DestroyPool
    <3>3. ASSUME NEW t \in Tasks, Task(t) PROVE UNCHANGED <<job, collected, allMatch>>
      BY <3>3, TaskFrame
    <3>4. ASSUME NEW p \in Paths, Change(p) PROVE UNCHANGED <<job, collected, allMatch>>
      BY <3>4 DEF Change
    <3>5. CASE UNCHANGED vars BY <3>5 DEF vars
    <3> QED BY <3>1, <3>2, <3>3, <3>4, <3>5 DEF Next
  <2> SUFFICES ASSUME allMatch # "none"
               PROVE  /\ job' \in {"destroy", "ended"}
                      /\ collected' = Len(futures')
                      /\ allMatch = "yes" <=> \A i \in 1 .. Len(futures') : result'[futures'[i]] \notin Counted
    BY <2>1 DEF ReportedInv
  <2>2. /\ job \in {"destroy", "ended"} /\ collected = Len(futures)
        /\ allMatch = "yes" <=> \A i \in 1 .. Len(futures) : result[futures[i]] \notin Counted
    BY DEF ReportedInv
  <2>3. futures' = futures
    BY <2>2, FuturesGrow
  <2>4. \A i \in 1 .. Len(futures) : result'[futures[i]] = result[futures[i]]
    BY <1>1, <2>2, DoneStays DEF CollectedInv
  <2> QED BY <2>1, <2>2, <2>3, <2>4
<1> QED BY <1>2, <1>3

\* Where the tasks of entries go.
LEMMA ResultStep ==
    ASSUME IInv, ResultInv, [Next]_vars
    PROVE  ResultInv'
<1> USE DEF jobVars, taskVars, walk, report, input, env, pool
<1>1. CASE Main \/ Job
  <2>1. UNCHANGED <<pc, result>>
    BY <1>1, JobFrame
  <2>2. CASE listed' = listed
    BY <2>1, <2>2 DEF ResultInv
  <2>3. CASE \A t \in Tasks : pc[t] = "none"
    BY <2>1, <2>3 DEF ResultInv, Tasks
  <2> QED BY <2>2, <2>3, DirectoryStays
<1>2. ASSUME NEW t \in Tasks, Task(t) PROVE ResultInv'
  <2>1. listed' = listed
    BY <1>2, TaskFrame
  <2>2. /\ pc \in [Tasks -> {"none", "open", "read", "last", "hung", "end"}]
        /\ result \in [Tasks -> {"kNone", "kError", "kDirMatch", "kDirPackageOnly", "kDirPathOnly",
                            "kFileMatch", "kFileDifferent", "kFilePackageOnly", "kFilePathOnly",
                            "threw"}]
    BY TypeParts DEF IInv, TaskTypes
  <2> SUFFICES ASSUME NEW e \in Positions
               PROVE  /\ pc'[e] \in {"open", "read", "last", "hung"} => ~listed[e].name.slash
                      /\ pc'[e] = "end" /\ listed[e].name # NoName /\ result'[e] # "threw" =>
                            result'[e] \in IF listed[e].name.slash THEN {"kDirMatch", "kDirPackageOnly"}
                                           ELSE {"kFilePackageOnly", "kFileDifferent", "kFileMatch"}
    BY <2>1 DEF ResultInv
  <2>3. /\ pc[e] \in {"open", "read", "last", "hung"} => ~listed[e].name.slash
        /\ pc[e] = "end" /\ listed[e].name # NoName /\ result[e] # "threw" =>
              result[e] \in IF listed[e].name.slash THEN {"kDirMatch", "kDirPackageOnly"}
                            ELSE {"kFilePackageOnly", "kFileDifferent", "kFileMatch"}
    BY DEF ResultInv
  <2>4. e \notin Paths /\ e \in Tasks
    BY NameAssumption DEF Tasks
  <2>5. CASE t # e
    <3>1. pc'[e] = pc[e] /\ result'[e] = result[e]
      BY <1>2, <2>2, <2>5, <2>4 DEF Task, Start, Return, NameIsEmpty, EntryThrows, CheckFolder, CheckExists,
         OpenDiffers, OpenFile, ReadForEver, ReadBlocks, CompareCRC, PathIsFolder, PathIsFile
    <3> QED BY <2>3, <3>1
  <2>6. ASSUME NEW r, Return(e, r) PROVE pc'[e] = "end" /\ result'[e] = r
    BY <2>2, <2>4, <2>6 DEF Return
  <2>7. CASE NameIsEmpty(e)
    BY <2>6, <2>7 DEF NameIsEmpty
  <2>8. CASE EntryThrows(e)
    BY <2>6, <2>8 DEF EntryThrows
  <2>9. CASE CheckFolder(e)
    BY <2>6, <2>9 DEF CheckFolder
  <2>10. CASE CheckExists(e)
    <3>1. CASE OnDisk(e) = NoFile
      BY <2>6, <2>10, <3>1 DEF CheckExists
    <3>2. CASE OnDisk(e) # NoFile
      BY <2>2, <2>4, <2>10, <3>2 DEF CheckExists
    <3> QED BY <3>1, <3>2
  <2>11. CASE OpenDiffers(e)
    BY <2>3, <2>6, <2>11 DEF OpenDiffers
  <2>12. CASE CompareCRC(e)
    BY <2>3, <2>6, <2>12 DEF CompareCRC
  <2>13. CASE OpenFile(e) \/ ReadForEver(e) \/ ReadBlocks(e)
    BY <2>2, <2>3, <2>4, <2>13 DEF OpenFile, ReadForEver, ReadBlocks
  <2>14. CASE Start(e)
    BY <2>3, <2>14 DEF Start
  <2> QED
    BY <1>2, <2>5, <2>4, <2>7, <2>9, <2>10, <2>11, <2>12, <2>13, <2>14, <2>8 DEF Task, PathIsFolder, PathIsFile
<1>3. ASSUME NEW p \in Paths, Change(p) PROVE ResultInv'
  BY <1>3 DEF Change, ResultInv
<1>4. CASE UNCHANGED vars BY <1>4 DEF vars, ResultInv
<1> QED BY <1>1, <1>2, <1>3, <1>4 DEF Next

\* Only a submission makes a task from nothing.
LEMMA TaskNotNew ==
    ASSUME IInv, NEW t \in Tasks, Task(t), NEW x \in Tasks
    PROVE  status'[x] = "new" <=> status[x] = "new"
<1>1. status \in [Tasks -> {"new", "queued", "running", "done"}]
  BY TypeParts DEF IInv, Futures
<1>2. \/ status' = status
      \/ status[t] # "new" /\ \E s \in {"running", "done"} : status' = [status EXCEPT ![t] = s]
  BY DEF Task, Start, Pool!Start, Return, Pool!Finish, NameIsEmpty, EntryThrows, CheckFolder, CheckExists,
     OpenDiffers, OpenFile, ReadForEver, ReadBlocks, CompareCRC, PathIsFolder, PathIsFile, pool
<1> QED BY <1>1, <1>2

LEMMA SubmittedStep ==
    ASSUME IInv, ReportedInv, SubmittedInv, [Next]_vars
    PROVE  SubmittedInv'
<1> USE DEF jobVars, taskVars, walk, report, input, env, pool
<1>1. Positions \subseteq Tasks /\ Positions \cap Paths = {} /\ Positions \subseteq Int
  BY NameAssumption DEF Tasks, Positions
<1>2. /\ futures \in Seq(Tasks) /\ Len(futures) \in Nat /\ listed \in Seq(Listing) /\ Len(listed) \in Nat
      /\ DOMAIN listed = 1 .. Len(listed)
      /\ status \in [Tasks -> {"new", "queued", "running", "done"}]
      /\ \A t \in Tasks : status[t] # "new" => t \in DOMAIN listed \cup Paths
  BY TypeParts, LenProperties DEF IInv, JobTypes, Futures, TaskTypes
<1>3. ASSUME UNCHANGED <<job, futures, listed, allMatch>>,
             \A e \in Positions : status'[e] = "new" <=> status[e] = "new"
      PROVE  SubmittedInv'
  BY <1>3 DEF SubmittedInv, Walked
<1>4. CASE Main
  <2>1. CASE Run
    BY <2>1 DEF Run, IInv, JobInv, SubmittedInv, Walked, ReportedInv
  <2>2. CASE ~Run
    BY <1>3, <1>4, <2>2 DEF Main, PollDone, JoinThread
  <2> QED BY <2>1, <2>2
<1>5. CASE Job
  <2>1. CASE OpenFails \/ List
    <3>1. job' = "ended" /\ allMatch' = allMatch /\ job \in {"open", "list"}
      BY <2>1 DEF OpenFails, List
    <3> QED BY <3>1 DEF SubmittedInv, Walked, ReportedInv
  <2>2. CASE ReadDirectory
    <3>1. job' \in {"list", "enqueue"} /\ futures' = <<>> /\ status' = status /\ allMatch' = "none"
      BY <2>2 DEF ReadDirectory, IInv, JobInv, ReportedInv
    <3>2. \A e \in Positions : status'[e] = "new"
      BY <1>1, <2>2, <3>1, TypeParts DEF IInv, JobInv, Futures, ReadDirectory
    <3>3. \A e \in Positions : ~(e <= Len(<<>>))
      BY DEF Positions
    <3> QED BY <3>1, <3>2, <3>3 DEF SubmittedInv, Walked
  <2>3. ASSUME NEW e \in Positions, EnqueueEntry(e) PROVE SubmittedInv'
    <3>1. /\ job = "enqueue" /\ job' = "enqueue" /\ e = Len(futures) + 1 /\ Submit(e) /\ allMatch' = allMatch
      BY <2>3 DEF EnqueueEntry
    <3>2. /\ Len(futures') = Len(futures) + 1 /\ status'[e] = "queued"
          /\ \A x \in Tasks : x # e => status'[x] = status[x]
      BY <1>1, <3>1, SubmitIs, TypeParts DEF IInv
    <3>3. allMatch' = "none"
      BY <3>1 DEF ReportedInv
    <3>4. ASSUME NEW x \in Positions PROVE status'[x] # "new" <=> x <= Len(futures')
      <4>1. CASE x = e
        BY <1>1, <1>2, <3>1, <3>2, <4>1
      <4>2. CASE x # e
        <5>1. status'[x] = status[x] /\ (status[x] # "new" <=> x <= Len(futures))
          BY <1>1, <3>1, <3>2, <4>2 DEF SubmittedInv
        <5>2. x \in Int /\ (x <= Len(futures) <=> x <= Len(futures) + 1)
          BY <1>1, <1>2, <3>1, <4>2
        <5> QED BY <3>2, <5>1, <5>2
      <4> QED BY <4>1, <4>2
    <3> QED BY <3>1, <3>3, <3>4 DEF SubmittedInv, Walked
  <2>4. CASE EnqueueDone
    <3>1. /\ job = "enqueue" /\ job' = "walk" /\ Len(futures) >= Len(listed)
          /\ UNCHANGED <<listed, status, allMatch>>
      BY <2>4 DEF EnqueueDone
    <3>2. \A e \in Positions : status[e] # "new" <=> e <= Len(futures)
      BY <3>1 DEF SubmittedInv
    <3>3. ASSUME NEW e \in Positions PROVE status[e] # "new" <=> e \in DOMAIN listed
      <4>1. status[e] # "new" => e \in DOMAIN listed
        BY <1>1, <1>2
      <4>2. e \in DOMAIN listed => e <= Len(futures)
        BY <1>2, <3>1
      <4> QED BY <3>2, <4>1, <4>2
    <3> QED BY <3>1, <3>3 DEF SubmittedInv, Walked
  <2>5. ASSUME NEW p \in Paths, NEW isFolder \in BOOLEAN, Visit(p, isFolder) PROVE SubmittedInv'
    <3>1. job = "walk" /\ UNCHANGED <<job, listed, allMatch>>
      BY <2>5 DEF Visit
    <3>2. ASSUME NEW e \in Positions PROVE status'[e] = status[e]
      <4>1. e \in Tasks /\ p \in Tasks /\ e # p
        BY <1>1 DEF Tasks
      <4>2. CASE Submit(p)
        BY <4>1, <4>2, SubmitIs, TypeParts DEF IInv
      <4>3. CASE UNCHANGED status
        BY <4>3
      <4> QED BY <2>5, <4>2, <4>3 DEF Visit
    <3> QED BY <3>1, <3>2 DEF SubmittedInv, Walked
  <2>6. CASE Enter \/ EnterThrows \/ VisitThrows \/ Collect
    BY <1>3, <2>6 DEF Enter, EnterThrows, VisitThrows, Collect
  <2>7. CASE WalkDone \/ Report \/ DestroyPool
    <3>1. /\ job \in {"walk", "collect", "destroy"} /\ job' # "enqueue" /\ UNCHANGED <<listed, status>>
      BY <2>7 DEF WalkDone, Report, DestroyPool, Pool!Destroy
    <3> QED BY <3>1 DEF SubmittedInv, Walked
  <2> QED BY <1>5, <2>1, <2>2, <2>3, <2>4, <2>5, <2>6, <2>7 DEF Job
<1>6. ASSUME NEW t \in Tasks, Task(t) PROVE SubmittedInv'
  <2>1. UNCHANGED <<job, futures, listed, allMatch>>
    BY <1>6, TaskFrame
  <2> QED BY <1>1, <1>3, <1>6, <2>1, TaskNotNew
<1>7. ASSUME NEW p \in Paths, Change(p) PROVE SubmittedInv'
  BY <1>3, <1>7 DEF Change
<1>8. CASE UNCHANGED vars BY <1>3, <1>8 DEF vars
<1> QED BY <1>4, <1>5, <1>6, <1>7, <1>8 DEF Next

\* The steps of a task that end with a result.
Returns(t, r) ==
    \/ NameIsEmpty(t) /\ r = "kError"
    \/ EntryThrows(t) /\ r = "threw"
    \/ CheckFolder(t) /\ r \in {"kDirMatch", "kDirPackageOnly"}
    \/ CheckExists(t) /\ r = "kFilePackageOnly"
    \/ OpenDiffers(t) /\ r = "kFileDifferent"
    \/ CompareCRC(t) /\ pc[t] \in {"read", "last"} /\ r \in {"kFileMatch", "kFileDifferent"}
    \/ PathIsFolder(t) /\ t \in Paths /\ found[t] = "kDirPathOnly" /\ r = "kDirPathOnly"
    \/ PathIsFile(t) /\ t \in Paths /\ found[t] = "kFilePathOnly" /\ r \in {"kFilePathOnly", "threw"}

\* What a step of a task makes of the tasks: it returns, or goes on.
LEMMA TaskMoves ==
    ASSUME IInv, NEW t \in Tasks, Task(t)
    PROVE  /\ \A x \in Tasks : x # t => pc'[x] = pc[x] /\ result'[x] = result[x]
           /\ \/ pc'[t] = "end" /\ Returns(t, result'[t])
              \/ pc'[t] = pc[t] /\ result'[t] = result[t]
              \/ t \in Positions /\ pc'[t] = "open" /\ result'[t] = result[t]
              \/ OpenFile(t) /\ t \in Positions /\ pc'[t] = "read" /\ result'[t] = result[t]
              \/ ReadBlocks(t) /\ t \in Positions /\ pc'[t] \in {"read", "last"} /\ result'[t] = result[t]
              \/ ReadForEver(t) /\ t \in Positions /\ pc'[t] = "hung" /\ result'[t] = result[t]
<1> USE DEF jobVars, taskVars, walk, report, input, env, pool
<1>1. /\ pc \in [Tasks -> {"none", "open", "read", "last", "hung", "end"}]
      /\ result \in [Tasks -> {"kNone", "kError", "kDirMatch", "kDirPackageOnly", "kDirPathOnly",
                            "kFileMatch", "kFileDifferent", "kFilePackageOnly", "kFilePathOnly",
                            "threw"}]
      /\ \A x \in Tasks : pc[x] \notin {"none", "end"} => x \in Positions
  BY TypeParts DEF IInv, TaskTypes
<1>2. ASSUME NEW r, Return(t, r)
      PROVE  /\ \A x \in Tasks : x # t => pc'[x] = pc[x] /\ result'[x] = result[x]
             /\ pc'[t] = "end" /\ result'[t] = r
  BY <1>1, <1>2 DEF Return
<1>3. CASE NameIsEmpty(t)
  BY <1>2, <1>3 DEF NameIsEmpty, Returns
<1>4. CASE CheckFolder(t)
  BY <1>2, <1>4 DEF CheckFolder, Returns
<1>5. CASE CheckExists(t)
  <2>1. CASE OnDisk(t) = NoFile
    BY <1>2, <1>5, <2>1 DEF CheckExists, Returns
  <2>2. CASE OnDisk(t) # NoFile
    BY <1>1, <1>5, <2>2 DEF CheckExists
  <2> QED BY <2>1, <2>2
<1>6. CASE OpenDiffers(t)
  BY <1>2, <1>6 DEF OpenDiffers, Returns
<1>7. CASE CompareCRC(t)
  BY <1>2, <1>7 DEF CompareCRC, Returns
<1>8. CASE PathIsFolder(t)
  BY <1>2, <1>8 DEF PathIsFolder, Returns
<1>9. CASE PathIsFile(t)
  BY <1>2, <1>9 DEF PathIsFile, Returns
<1>10. CASE Start(t)
  BY <1>10 DEF Start
<1>11. CASE ReadBlocks(t)
  BY <1>1, <1>11 DEF ReadBlocks
<1>12. CASE EntryThrows(t)
  BY <1>2, <1>12 DEF EntryThrows, Returns
<1>13. CASE OpenFile(t)
  BY <1>1, <1>13 DEF OpenFile
<1>14. CASE ReadForEver(t)
  BY <1>1, <1>14 DEF ReadForEver
<1> QED
  BY <1>3, <1>4, <1>5, <1>6, <1>7, <1>8, <1>9, <1>10, <1>13, <1>14, <1>11, <1>12 DEF Task

LEMMA LengthsStep ==
    ASSUME IInv, LengthsInv, [Next]_vars, disk' = disk
    PROVE  LengthsInv'
<1> USE DEF jobVars, taskVars, walk, report, input, env, pool
<1>1. CASE UNCHANGED <<pc, got, result>>
  <2>1. CASE listed' = listed
    BY <1>1, <2>1 DEF LengthsInv, OnDisk, Path
  <2>2. CASE \A t \in Tasks : pc[t] = "none" /\ result[t] = "kNone"
    BY <1>1, <2>2 DEF LengthsInv, Tasks
  <2> QED BY <2>1, <2>2, DirectoryStays
<1>2. ASSUME NEW t \in Tasks, Task(t) PROVE LengthsInv'
  <2>1. listed' = listed
    BY <1>2, TaskFrame
  <2> SUFFICES ASSUME NEW e \in Positions
               PROVE  /\ pc'[e] \in {"read", "last", "hung"} \/ result'[e] = "kFileMatch" =>
                            OnDisk(e) \in Contents /\ Len(OnDisk(e)) = listed[e].usize
                      /\ pc'[e] = "read" => Len(got'[e]) <= listed[e].usize
                      /\ pc'[e] = "last" => Len(got'[e]) = listed[e].usize
    BY <2>1 DEF LengthsInv, OnDisk, Path
  <2>2. /\ pc[e] \in {"read", "last", "hung"} \/ result[e] = "kFileMatch" =>
              OnDisk(e) \in Contents /\ Len(OnDisk(e)) = listed[e].usize
        /\ pc[e] = "read" => Len(got[e]) <= listed[e].usize
        /\ pc[e] = "last" => Len(got[e]) = listed[e].usize
    BY DEF LengthsInv
  <2>3. e \in Tasks /\ got \in [Tasks -> Contents]
    BY TypeParts DEF Tasks, IInv, TaskTypes
  <2>4. CASE pc'[e] = pc[e] /\ result'[e] = result[e] /\ got'[e] = got[e]
    BY <2>2, <2>4
  <2>5. CASE t = e /\ OpenFile(e)
    <3>1. pc[e] = "open" /\ OnDisk(e) \in Contents /\ Len(OnDisk(e)) = listed[e].usize /\ got' = got
      BY <2>5 DEF OpenFile, OtherSize
    <3>2. got[e] = <<>> /\ pc'[e] = "read"
      BY <2>3, <2>5, <3>1, TypeParts DEF IInv, TaskInv, TaskTypes, OpenFile
    <3>3. Len(got'[e]) <= listed[e].usize
      BY <3>1, <3>2, LenProperties DEF Contents
    <3> QED BY <3>1, <3>2, <3>3
  <2>6. CASE t = e /\ ReadBlocks(e)
    <3>1. pc[e] = "read" /\ result' = result
      BY <2>6 DEF ReadBlocks
    <3>2. /\ pc'[e] = IF AtEnd(e) THEN "last" ELSE "read"
          /\ got'[e] = got[e] \o NextBlocks(e)
      BY <2>3, <2>6, TypeParts DEF ReadBlocks, IInv, TaskTypes
    <3>3. /\ OnDisk(e) \in Contents /\ Len(OnDisk(e)) = listed[e].usize
          /\ Len(got[e]) <= Len(OnDisk(e))
      BY <2>2, <3>1
    <3>4. /\ got[e] \in Contents /\ NextBlocks(e) \in Contents
          /\ Len(got[e]) \in Nat /\ Len(OnDisk(e)) \in Nat
          /\ Len(got[e]) + Len(NextBlocks(e)) =
                IF AtEnd(e) THEN Len(OnDisk(e)) ELSE Len(got[e]) + ReadSize
      BY <2>3, <2>6, <3>3, ReadsBlocks DEF OnDisk
    <3>5. Len(got'[e]) = IF AtEnd(e) THEN Len(OnDisk(e)) ELSE Len(got[e]) + ReadSize
      BY <3>2, <3>4, ConcatProperties DEF Contents
    <3>6. ~AtEnd(e) => Len(got[e]) + ReadSize <= Len(OnDisk(e))
      BY <3>4, BoundAssumption DEF AtEnd
    <3> QED BY <3>2, <3>3, <3>5, <3>6
  <2>7. CASE t = e /\ ReadForEver(e)
    <3>1. pc[e] \in {"read", "last"} /\ pc'[e] = "hung" /\ result' = result
      BY <2>3, <2>7, TypeParts DEF ReadForEver, IInv, TaskTypes
    <3> QED BY <2>2, <3>1
  <2>8. CASE t = e /\ Returns(e, result'[e]) /\ pc'[e] = "end"
    <3>1. pc[e] \in {"read", "last"} \/ result'[e] # "kFileMatch"
      BY <2>8 DEF Returns
    <3> QED BY <2>2, <2>8, <3>1
  <2>9. got'[e] = got[e] \/ (t = e /\ ReadBlocks(e))
    BY <1>2, <2>3 DEF Task, Start, Return, NameIsEmpty, EntryThrows, CheckFolder, CheckExists,
       OpenDiffers, OpenFile, ReadForEver, ReadBlocks, CompareCRC, PathIsFolder, PathIsFile
  <2>10. CASE t = e /\ pc'[e] = "open" /\ result'[e] = result[e]
    BY <2>2, <2>10
  <2> QED BY <1>2, <2>3, <2>4, <2>5, <2>6, <2>7, <2>8, <2>9, <2>10, TaskMoves
<1>3. CASE Main \/ Job BY <1>1, <1>3, JobFrame
<1>4. ASSUME NEW p \in Paths, Change(p) PROVE UNCHANGED <<pc, got, result>>
  BY <1>4 DEF Change
<1>5. CASE UNCHANGED vars BY <1>1, <1>5 DEF vars
<1> QED BY <1>1, <1>2, <1>3, <1>4, <1>5 DEF Next

LEMMA FoundIsStep ==
    ASSUME IInv, FoundIs, WalkInv, [Next]_vars, disk' = disk, Main \/ Job \/ \E t \in Tasks : Task(t)
    PROVE  FoundIs'
<1> USE DEF jobVars, taskVars, walk, report, input, env, pool
<1>1. /\ Paths \subseteq Tasks /\ Positions \cap Paths = {}
  BY NameAssumption DEF Tasks
<1>2. /\ found \in [Paths -> {"unseen", "in package", "kDirPathOnly", "kFilePathOnly"}]
      /\ Futures
  BY TypeParts DEF IInv, JobTypes
<1>3. ASSUME UNCHANGED <<found, listed, status, pc, result>> PROVE FoundIs'
  BY <1>3 DEF FoundIs, IsFolder
<1>4. ASSUME NEW t \in Tasks, Task(t) PROVE FoundIs'
  <2>1. UNCHANGED <<found, listed>>
    BY <1>4, TaskFrame
  <2>2. \A p \in Paths : status'[p] = "new" <=> status[p] = "new"
    BY <1>1, <1>4, TaskNotNew
  <2>3. ASSUME NEW p \in Paths, pc'[p] = "end" PROVE result'[p] \in {found[p], "threw"}
    <3>1. pc[p] = "end" => result[p] \in {found[p], "threw"}
      BY DEF FoundIs
    <3>2. CASE t # p
      BY <1>1, <1>4, <2>3, <3>1, <3>2, TaskMoves
    <3>3. CASE t = p
      <4>1. Returns(p, result'[p]) => result'[p] \in {found[p], "threw"}
        <5>1. pc[p] \in {"none", "end"}
          BY <1>1, TypeParts DEF IInv, TaskTypes
        <5> QED BY <1>1, <5>1 DEF Returns, NameIsEmpty, EntryThrows, CheckFolder, CheckExists, OpenDiffers
      <4> QED BY <1>1, <1>4, <2>3, <3>1, <3>3, <4>1, TaskMoves
    <3> QED BY <3>2, <3>3
  <2> QED BY <2>1, <2>2, <2>3 DEF FoundIs, IsFolder
<1>5. CASE Main
  BY <1>3, <1>5 DEF Main, Run, PollDone, JoinThread
<1>6. CASE Job
  <2>1. UNCHANGED <<pc, result>>
    BY <1>6, JobFrame
  <2>2. CASE ReadDirectory
    <3>1. /\ \A p \in Paths : found[p] = "unseen"
          /\ UNCHANGED <<found, status>>
      BY <2>2 DEF ReadDirectory, IInv, JobInv
    <3> QED BY <2>1, <3>1 DEF FoundIs
  <2>3. ASSUME NEW e \in Positions, EnqueueEntry(e) PROVE FoundIs'
    <3>1. Submit(e) /\ UNCHANGED <<found, listed>>
      BY <2>3 DEF EnqueueEntry
    <3>2. \A p \in Paths : status'[p] = status[p]
      BY <1>1, <1>2, <3>1, SubmitIs DEF Tasks
    <3> QED BY <2>1, <3>1, <3>2 DEF FoundIs, IsFolder
  <2>4. ASSUME NEW p \in Paths, NEW isFolder \in BOOLEAN, Visit(p, isFolder) PROVE FoundIs'
    <3>1. listed' = listed
      BY <2>4 DEF Visit
    <3>2. found[p] = "unseen" /\ status[p] = "new"
      BY <2>4 DEF Visit, WalkInv, FoundIs
    <3>3. pc[p] # "end"
      BY <1>1, <3>2, TypeParts DEF IInv, TaskTypes
    <3>4. ASSUME NEW q \in Paths, q # p PROVE found'[q] = found[q] /\ status'[q] = status[q]
      <4>1. found'[q] = found[q]
        BY <1>2, <2>4, <3>4 DEF Visit
      <4>2. CASE Submit(p)
        BY <4>1, <1>1, <1>2, <3>4, <4>2, SubmitIs
      <4> QED BY <2>4, <4>1, <4>2 DEF Visit
    <3>5. CASE HasHeader(listed, WalkName(p))
      <4>1. found'[p] = "in package" /\ status' = status
        BY <1>2, <2>4, <3>5 DEF Visit
      <4>2. HasHeader(listed, NameOf(p, IsFolder(p)))
        BY <3>5 DEF WalkName, IsFolder
      <4> QED BY <2>1, <3>1, <3>2, <3>3, <3>4, <4>1, <4>2 DEF FoundIs, IsFolder
    <3>6. CASE ~HasHeader(listed, WalkName(p))
      <4>1. /\ found'[p] = IF disk[p] = Folder THEN "kDirPathOnly" ELSE "kFilePathOnly"
            /\ Submit(p)
        BY <1>2, <2>4, <3>6 DEF Visit, PathOnly
      <4>2. status'[p] = "queued"
        BY <1>1, <1>2, <4>1, SubmitIs
      <4>3. /\ IsFolder(p) => WalkName(p) = NameOf(p, TRUE)
            /\ ~IsFolder(p) => WalkName(p) = NameOf(p, FALSE)
        BY DEF WalkName, IsFolder
      <4>4. /\ found'[p] = "kDirPathOnly" => IsFolder(p) /\ ~HasHeader(listed, NameOf(p, TRUE))
            /\ found'[p] = "kFilePathOnly" => ~IsFolder(p) /\ ~HasHeader(listed, NameOf(p, FALSE))
            /\ found'[p] \in {"kDirPathOnly", "kFilePathOnly"}
        BY <3>6, <4>1, <4>3 DEF IsFolder
      <4> QED BY <2>1, <3>1, <3>3, <3>4, <4>2, <4>4 DEF FoundIs, IsFolder
    <3> QED BY <3>5, <3>6
  <2>5. CASE OpenFails \/ List \/ EnqueueDone \/ Enter \/ EnterThrows \/ VisitThrows \/ WalkDone \/ Collect \/ Report
             \/ DestroyPool
    BY <1>3, <2>1, <2>5 DEF OpenFails, List, EnqueueDone, Enter, EnterThrows, VisitThrows, WalkDone, Collect, Report,
       DestroyPool, Pool!Destroy
  <2> QED BY <1>6, <2>2, <2>3, <2>4, <2>5 DEF Job
<1> QED BY <1>4, <1>5, <1>6

\* What the iterator finds in a folder.
LEMMA ChildrenAre ==
    ASSUME NEW p, NEW q \in Paths, NEW isFolder \in BOOLEAN
    PROVE  /\ <<q, isFolder>> \in Children(p) =>
                q \in Below(disk) /\ Parent[q] = p /\ (isFolder <=> IsFolder(q))
           /\ q \in Below(disk) /\ Parent[q] = p => \E f \in BOOLEAN : <<q, f>> \in Children(p)
<1>1. ASSUME <<q, isFolder>> \in Children(p)
      PROVE  q \in Below(disk) /\ Parent[q] = p /\ (isFolder <=> IsFolder(q))
  <2>1. PICK x \in {y \in Paths \ {Base} : Parent[y] = p /\ disk[y] # NoFile} :
           <<q, isFolder>> = <<x, disk[x] = Folder>>
    BY <1>1, Zenon DEF Children
  <2>2. q = x /\ isFolder = (disk[x] = Folder)
    BY <2>1
  <2>3. isFolder <=> disk[q] = Folder
    BY <2>2
  <2> QED BY <2>1, <2>2, <2>3 DEF Below, IsFolder
<1>2. ASSUME q \in Below(disk), Parent[q] = p
      PROVE  \E f \in BOOLEAN : <<q, f>> \in Children(p)
  <2>1. q \in {x \in Paths \ {Base} : Parent[x] = p /\ disk[x] # NoFile}
    BY <1>2 DEF Below
  <2>2. <<q, disk[q] = Folder>> \in Children(p)
    BY <2>1, Zenon DEF Children
  <2>3. (disk[q] = Folder) \in BOOLEAN
    OBVIOUS
  <2> QED BY <2>2, <2>3, Zenon
<1> QED BY <1>1, <1>2

LEMMA EnterWalks ==
    ASSUME IInv, WalkInv, ReportedInv, Enter
    PROVE  WalkInv'
<1> USE DEF jobVars, taskVars, walk, report, input, env, pool
<1>1. /\ entering \in Paths /\ entering # NoFile /\ disk[entering] = Folder
      /\ pending' = pending \cup {c \in Children(entering) : found[c[1]] = "unseen"}
      /\ entered' = entered \cup {entering} /\ entering' = NoFile
      /\ UNCHANGED <<disk, job, found, allMatch>>
      /\ job = "walk" /\ allMatch = "none"
  BY TypeParts DEF Enter, IInv, JobTypes, ReportedInv
<1>2. ASSUME NEW q \in Paths, NEW isFolder \in BOOLEAN, <<q, isFolder>> \in pending'
      PROVE  q \in Below(disk) /\ (isFolder <=> IsFolder(q)) /\ found[q] = "unseen"
  <2>1. CASE <<q, isFolder>> \in pending
    BY <2>1 DEF WalkInv
  <2>2. CASE <<q, isFolder>> \in Children(entering) /\ found[<<q, isFolder>>[1]] = "unseen"
    <3>1. <<q, isFolder>>[1] = q
      OBVIOUS
    <3> QED BY <2>2, <3>1, ChildrenAre
  <2> QED BY <1>1, <1>2, <2>1, <2>2
<1>3. ASSUME NEW q \in Below(disk), Parent[q] \in entered', found[q] = "unseen"
      PROVE  \E isFolder \in BOOLEAN : <<q, isFolder>> \in pending'
  <2>1. CASE Parent[q] \in entered
    BY <1>1, <1>3, <2>1 DEF WalkInv
  <2>2. CASE Parent[q] = entering
    <3>1. q \in Paths
      BY DEF Below
    <3>2. PICK f \in BOOLEAN : <<q, f>> \in Children(entering)
      BY <2>2, <3>1, ChildrenAre
    <3>3. <<q, f>>[1] = q
      OBVIOUS
    <3> QED BY <1>1, <1>3, <3>2, <3>3
  <2> QED BY <1>1, <1>3, <2>1, <2>2
<1>4. \A q \in Paths : found[q] # "unseen" =>
         q \in Below(disk) /\ (IsFolder(q) => q \in entered')
  BY <1>1 DEF WalkInv
<1>5. disk \in InitialDisks /\ (Base \in entered')
  BY <1>1 DEF WalkInv
<1> QED BY <1>1, <1>2, <1>3, <1>4, <1>5 DEF WalkInv, IsFolder, Walked

LEMMA VisitWalks ==
    ASSUME IInv, WalkInv, ReportedInv, NEW p \in Paths, NEW isFolder \in BOOLEAN, Visit(p, isFolder)
    PROVE  WalkInv'
<1> USE DEF jobVars, taskVars, walk, report, input, env, pool
<1>1. /\ entering = NoFile /\ <<p, isFolder>> \in pending
      /\ pending' = pending \ {<<p, isFolder>>}
      /\ entering' = IF isFolder THEN p ELSE NoFile
      /\ UNCHANGED <<disk, job, entered, allMatch>>
      /\ job = "walk" /\ allMatch = "none"
  BY DEF Visit, NextEntered, ReportedInv
<1>2. found'[p] # "unseen" /\ \A q \in Paths : q # p => found'[q] = found[q]
  BY TypeParts DEF Visit, PathOnly, IInv, JobTypes
<1>3. p \in Below(disk) /\ (isFolder <=> IsFolder(p)) /\ found[p] = "unseen"
  BY <1>1 DEF WalkInv
<1>4. ASSUME NEW q \in Paths, NEW f \in BOOLEAN, <<q, f>> \in pending'
      PROVE  q \in Below(disk) /\ (f <=> IsFolder(q)) /\ found'[q] = "unseen"
  <2>1. q \in Below(disk) /\ (f <=> IsFolder(q)) /\ found[q] = "unseen"
    BY <1>1, <1>4 DEF WalkInv
  <2>2. q # p
    <3>1. q = p => (f <=> isFolder)
      BY <1>3, <2>1
    <3>2. (f <=> isFolder) => f = isFolder
      OBVIOUS
    <3>3. <<q, f>> # <<p, isFolder>>
      BY <1>1, <1>4
    <3> QED BY <3>1, <3>2, <3>3
  <2> QED BY <1>2, <2>1, <2>2
<1>5. ASSUME NEW q \in Below(disk), Parent[q] \in entered, found'[q] = "unseen"
      PROVE  \E f \in BOOLEAN : <<q, f>> \in pending'
  <2>1. q \in Paths /\ q # p /\ found[q] = "unseen"
    BY <1>2, <1>5 DEF Below
  <2>2. PICK f \in BOOLEAN : <<q, f>> \in pending
    BY <1>5, <2>1 DEF WalkInv
  <2>3. <<q, f>> # <<p, isFolder>>
    BY <2>1
  <2> QED BY <1>1, <2>2, <2>3
<1>6. ASSUME NEW q \in Paths, found'[q] # "unseen"
      PROVE  q \in Below(disk) /\ (IsFolder(q) => q \in entered \/ q = entering')
  <2>1. CASE q = p
    BY <1>1, <1>3, <2>1
  <2>2. CASE q # p
    <3>1. q # NoFile
      BY NameAssumption
    <3> QED BY <1>1, <1>2, <1>6, <2>2, <3>1 DEF WalkInv
  <2> QED BY <2>1, <2>2
<1>7. disk \in InitialDisks /\ Base \in entered
  <2>1. Base # NoFile
    BY NameAssumption
  <2> QED BY <1>1, <2>1 DEF WalkInv
<1> QED BY <1>1, <1>4, <1>5, <1>6, <1>7 DEF WalkInv, IsFolder, Walked

LEMMA WalkStep ==
    ASSUME IInv, ReportedInv, WalkInv, [Next]_vars, disk' = disk,
           Main \/ Job \/ (\E t \in Tasks : Task(t)) \/ UNCHANGED vars
    PROVE  WalkInv'
<1> USE DEF jobVars, taskVars, walk, report, input, env, pool
<1>1. ASSUME UNCHANGED <<job, allMatch, pending, entering, entered, found>> PROVE WalkInv'
  BY <1>1 DEF WalkInv, IsFolder, Walked
<1>2. ASSUME UNCHANGED <<pending, entering, entered, found>>, job' # "walk", ~Walked' PROVE WalkInv'
  BY <1>2 DEF WalkInv, IsFolder
<1>3. CASE Main
  <2>1. CASE Run
    BY <1>2, <2>1 DEF Run, IInv, JobInv, ReportedInv, Walked
  <2>2. CASE ~Run
    BY <1>1, <1>3, <2>2 DEF Main, PollDone, JoinThread
  <2> QED BY <2>1, <2>2
<1>4. CASE Job
  <2>1. CASE OpenFails \/ ReadDirectory \/ List \/ \E e \in Positions : EnqueueEntry(e)
    <3>1. /\ UNCHANGED <<pending, entering, entered, found, allMatch>>
          /\ job \in {"open", "list", "enqueue"} /\ job' \in {"ended", "list", "enqueue"}
      BY <2>1 DEF OpenFails, ReadDirectory, List, EnqueueEntry
    <3> QED BY <1>2, <3>1 DEF ReportedInv, Walked
  <2>2. CASE EnqueueDone
    <3>1. /\ UNCHANGED <<pending, entered, found, allMatch>> /\ entering' = Base
          /\ job = "enqueue" /\ job' = "walk" /\ allMatch = "none"
      BY <2>2 DEF EnqueueDone, ReportedInv
    <3>2. \A p \in Paths : found[p] = "unseen"
      BY <3>1 DEF IInv, JobInv
    <3> QED BY <3>1, <3>2 DEF WalkInv, IsFolder, Walked
  <2>3. CASE Enter
    BY <2>3, EnterWalks
  <2>4. ASSUME NEW p \in Paths, NEW isFolder \in BOOLEAN, Visit(p, isFolder) PROVE WalkInv'
    BY <2>4, VisitWalks
  <2>5. CASE WalkDone
    <3>1. /\ UNCHANGED <<pending, entering, entered, found, allMatch>>
          /\ job = "walk" /\ job' = "collect" /\ pending = {} /\ entering = NoFile
      BY <2>5 DEF WalkDone
    <3>2. Base \in entered
      <4>1. Base # NoFile
        BY NameAssumption
      <4> QED BY <3>1, <4>1 DEF WalkInv
    <3> QED BY <3>1, <3>2 DEF WalkInv, IsFolder
  <2>6. CASE EnterThrows \/ VisitThrows \/ Collect
    BY <1>1, <2>6 DEF EnterThrows, VisitThrows, Collect
  <2>7. CASE Report \/ DestroyPool
    <3>1. /\ UNCHANGED <<pending, entering, entered, found>>
          /\ job \in {"collect", "destroy"} /\ job' \in {"destroy", "ended"}
      BY <2>7 DEF Report, DestroyPool
    <3> QED BY <3>1 DEF WalkInv, IsFolder, Walked
  <2> QED BY <1>4, <2>1, <2>2, <2>3, <2>4, <2>5, <2>6, <2>7 DEF Job
<1>5. ASSUME NEW t \in Tasks, Task(t) PROVE WalkInv'
  <2>1. UNCHANGED <<job, allMatch, pending, entering, entered, found>>
    BY <1>5, TaskFrame
  <2> QED BY <1>1, <2>1
<1>6. CASE UNCHANGED vars BY <1>1, <1>6 DEF vars
<1> QED BY <1>3, <1>4, <1>5, <1>6

LEMMA QuietStep ==
    ASSUME RInv, [Next]_vars
    PROVE  QuietInv'
<1> SUFFICES ASSUME Quiet' PROVE LengthsInv' /\ WalkInv' /\ FoundIs'
  BY DEF QuietInv
<1>1. IInv /\ ReportedInv
  BY DEF RInv, VInv
<1>2. /\ Quiet /\ UNCHANGED <<disk, disks>>
      /\ Main \/ Job \/ (\E t \in Tasks : Task(t)) \/ UNCHANGED vars
  BY <1>1, QuietSteps
<1>3. LengthsInv /\ WalkInv /\ FoundIs
  BY <1>2 DEF RInv, QuietInv
<1>4. CASE UNCHANGED vars
  <2>1. FoundIs'
    BY <1>3, <1>4 DEF vars, jobVars, taskVars, walk, report, input, env, pool, FoundIs, IsFolder
  <2> QED BY <1>1, <1>2, <1>3, <2>1, LengthsStep, WalkStep
<1> QED BY <1>1, <1>2, <1>3, <1>4, LengthsStep, WalkStep, FoundIsStep

LEMMA RInvInit == Init => RInv
<1> SUFFICES ASSUME Init PROVE RInv
  OBVIOUS
<1>1. IInv
  BY TypeInit
<1>2. /\ \A t \in Tasks : result[t] = "kNone" /\ pc[t] = "none" /\ status[t] = "new"
      /\ disk \in disks /\ \A p \in Paths : found[p] = "unseen"
      /\ Positions \subseteq Tasks /\ Paths \subseteq Tasks
      /\ disk \in InitialDisks /\ allMatch = "none" /\ job = "off" /\ collected = 0
      /\ pending = {} /\ entered = {}
  BY DEF Init, Pool!Init, Tasks
<1>3. VInv
  BY <1>1, <1>2 DEF VInv, FoundInv, VerdictsWereTrue, IsTrueOf
<1>4. CollectedInv /\ ReportedInv /\ ResultInv /\ SubmittedInv
  BY <1>2 DEF CollectedInv, ReportedInv, ResultInv, SubmittedInv, Walked
<1>5. LengthsInv /\ WalkInv /\ FoundIs
  BY <1>2 DEF LengthsInv, WalkInv, FoundIs, Walked
<1> QED BY <1>3, <1>4, <1>5 DEF RInv, QuietInv

LEMMA RInvStep == RInv /\ [Next]_vars => RInv'
<1> SUFFICES ASSUME RInv, [Next]_vars PROVE RInv'
  OBVIOUS
<1>1. VInv'
  BY IInvStep, FoundStep, VerdictStep DEF RInv, VInv
<1>2. CollectedInv' /\ ReportedInv' /\ ResultInv' /\ SubmittedInv'
  BY CollectedStep, ReportedStep, ResultStep, SubmittedStep DEF RInv, VInv
<1> QED BY <1>1, <1>2, QuietStep DEF RInv

\* When the walk is over it has come to every path: those in the base folder, and with
\* a folder those in it.
LEMMA WalkReachesAll ==
    ASSUME IInv, WalkInv, Walked, NEW p \in Below(disk)
    PROVE  found[p] # "unseen"
<1> DEFINE S == {q \in Paths : q # Base /\ disk[q] # NoFile => found[q] # "unseen"}
<1>1. pending = {} /\ entering = NoFile /\ Base \in entered /\ disk \in InitialDisks
  BY DEF WalkInv
<1>2. Base \in S /\ S \in SUBSET Paths
  BY NameAssumption
<1>3. ASSUME NEW q \in Paths \ {Base}, Parent[q] \in S
      PROVE  q \in S
  <2> SUFFICES ASSUME disk[q] # NoFile PROVE found[q] # "unseen"
    OBVIOUS
  <2>1. q \in Below(disk) /\ Parent[q] \in Paths /\ disk[Parent[q]] = Folder
    BY <1>1, NameAssumption, ContentsAssumption DEF Below
  <2>2. Parent[q] \in entered
    <3>1. CASE Parent[q] = Base
      BY <1>1, <3>1
    <3>2. CASE Parent[q] # Base
      <4>1. found[Parent[q]] # "unseen"
        BY <1>3, <2>1, <3>2, ContentsAssumption
      <4>2. Parent[q] # NoFile
        BY <2>1, NameAssumption
      <4> QED BY <1>1, <2>1, <4>1, <4>2 DEF WalkInv, IsFolder
    <3> QED BY <3>1, <3>2
  <2> QED BY <1>1, <2>1, <2>2 DEF WalkInv
<1>4. S = Paths
  <2> HIDE DEF S
  <2> QED BY <1>2, <1>3, TreeAssumption
<1> QED BY <1>4 DEF Below

\* A file that matches is the one in the archive.
LEMMA MatchIsSame ==
    ASSUME RInv, Quiet, NEW e \in Positions, e \in DOMAIN listed, listed[e].name # NoName,
           result[e] = "kFileMatch"
    PROVE  OnDisk(e) = listed[e].crc
<1>1. OnDisk(e) \in Contents /\ Len(OnDisk(e)) = listed[e].usize
  BY DEF RInv, QuietInv, LengthsInv
<1>2. listed[e].crc \in Contents /\ Len(listed[e].crc) = listed[e].usize
  BY DEF RInv, VInv, IInv, ListedInv, IsListing
<1>3. \A k \in DOMAIN listed[e].crc : OnDisk(e)[k] = listed[e].crc[k]
  BY DEF RInv, VInv, VerdictsWereTrue, Quiet, OnDisk, Tasks
<1> QED BY <1>1, <1>2, <1>3 DEF Contents

\* The report of a diff, if nothing has changed.
LEMMA Reports ==
    ASSUME RInv, Quiet, allMatch # "none", \A k \in DOMAIN listed : listed[k].name # NoName
    PROVE  /\ {futures[i] : i \in 1 .. collected} =
                 DOMAIN listed \cup {p \in Below(disk) : ~HasHeader(listed, NameOf(p, disk[p] = Folder))}
           /\ allMatch = "yes" => SameFiles
           /\ SameFiles /\ (\A k \in DOMAIN listed : Path(k) \notin barred) => allMatch = "yes"
<1>1. /\ IInv /\ VerdictsWereTrue /\ CollectedInv /\ ReportedInv /\ ResultInv /\ SubmittedInv
      /\ LengthsInv /\ WalkInv /\ FoundIs /\ Walked
      /\ Futures /\ TaskTypes /\ DOMAIN listed \subseteq Positions
  BY TypeParts, DomainIsPositions DEF RInv, VInv, IInv, QuietInv, Walked
<1>2. /\ collected = Len(futures) /\ DOMAIN futures = 1 .. Len(futures)
      /\ \A i \in 1 .. Len(futures) : futures[i] \in Tasks
  BY <1>1, FutureIsTask, LenProperties DEF ReportedInv, Futures
<1>3. ASSUME NEW t \in Tasks
      PROVE  (\E i \in 1 .. Len(futures) : futures[i] = t) <=>
                t \in DOMAIN listed \/ (t \in Below(disk) /\ ~HasHeader(listed, NameOf(t, IsFolder(t))))
  <2>1. (\E i \in 1 .. Len(futures) : futures[i] = t) <=> status[t] # "new"
    BY <1>1, <1>2 DEF Futures
  <2>2. CASE t \in Positions
    BY <1>1, <2>1, <2>2, NameAssumption DEF SubmittedInv, Below
  <2>3. CASE t \in Paths
    <3>1. t \notin DOMAIN listed
      BY <1>1, <2>3, NameAssumption
    <3>2. status[t] # "new" <=> found[t] \in {"kDirPathOnly", "kFilePathOnly"}
      BY <1>1, <2>3 DEF FoundIs
    <3>3. /\ found[t] = "in package" => HasHeader(listed, NameOf(t, IsFolder(t)))
          /\ found[t] \in {"kDirPathOnly", "kFilePathOnly"} => ~HasHeader(listed, NameOf(t, IsFolder(t)))
      <4>1. /\ IsFolder(t) => NameOf(t, IsFolder(t)) = NameOf(t, TRUE)
            /\ ~IsFolder(t) => NameOf(t, IsFolder(t)) = NameOf(t, FALSE)
        BY DEF IsFolder
      <4> QED BY <1>1, <2>3, <4>1 DEF FoundIs
    <3>4. t \in Below(disk) <=> found[t] # "unseen"
      BY <1>1, <2>3, WalkReachesAll DEF WalkInv
    <3>5. found[t] \in {"unseen", "in package", "kDirPathOnly", "kFilePathOnly"}
      BY <2>3, <1>1, TypeParts DEF IInv, JobTypes
    <3> QED BY <2>1, <3>1, <3>2, <3>3, <3>4, <3>5
  <2> QED BY <2>2, <2>3 DEF Tasks
<1>4. {futures[i] : i \in 1 .. collected} =
         DOMAIN listed \cup {p \in Below(disk) : ~HasHeader(listed, NameOf(p, disk[p] = Folder))}
  <2>1. DOMAIN listed \subseteq Tasks /\ Below(disk) \subseteq Tasks
    BY <1>1 DEF Tasks, Below
  <2> QED BY <1>2, <1>3, <2>1 DEF IsFolder
<1>5. \A i \in 1 .. Len(futures) : pc[futures[i]] = "end" /\ result[futures[i]] # "threw"
  BY <1>1, <1>2 DEF CollectedInv, TaskTypes
<1>6. allMatch = "yes" <=> \A i \in 1 .. Len(futures) : result[futures[i]] \notin Counted
  BY <1>1 DEF ReportedInv
<1>7. ASSUME NEW k \in DOMAIN listed, ~listed[k].name.slash
      PROVE  \E i \in 1 .. Len(futures) :
                /\ futures[i] = k
                /\ result[k] \notin Counted => OnDisk(k) = listed[k].crc
                /\ OnDisk(k) = listed[k].crc /\ Path(k) \notin barred => result[k] \notin Counted
  <2>1. k \in Positions /\ k \in Tasks
    BY <1>1 DEF Tasks
  <2>2. PICK i \in 1 .. Len(futures) : futures[i] = k
    BY <1>3, <2>1
  <2>3. result[k] \in {"kFilePackageOnly", "kFileDifferent", "kFileMatch"}
    BY <1>1, <1>5, <1>7, <2>1, <2>2 DEF ResultInv
  <2>4. result[k] = "kFileMatch" => OnDisk(k) = listed[k].crc
    BY <2>1, MatchIsSame
  <2>5. result[k] # "kFileMatch" => OnDisk(k) # listed[k].crc \/ Path(k) \in barred
    <3>1. listed[k].crc # NoFile
      BY <1>1, ContentsAssumption DEF IInv, ListedInv, IsListing
    <3>2. IsTrueOf(disk, k)
      BY <1>1, <2>1 DEF VerdictsWereTrue, Quiet
    <3> QED BY <2>3, <3>1, <3>2 DEF IsTrueOf, OnDisk
  <2>6. result[k] \notin Counted <=> result[k] = "kFileMatch"
    BY <2>3 DEF Counted
  <2> QED BY <2>2, <2>4, <2>5, <2>6
<1>8. ASSUME NEW p \in Below(disk), disk[p] # Folder, ~HasHeader(listed, NameOf(p, FALSE))
      PROVE  \E i \in 1 .. Len(futures) : result[futures[i]] \in Counted
  <2>1. p \in Tasks /\ p \in Paths /\ NameOf(p, IsFolder(p)) = NameOf(p, FALSE) /\ ~IsFolder(p)
    BY <1>8 DEF Tasks, Below, IsFolder
  <2>2. PICK i \in 1 .. Len(futures) : futures[i] = p
    BY <1>3, <1>8, <2>1
  <2>3. found[p] = "kFilePathOnly"
    <3>1. status[p] # "new"
      BY <1>1, <1>2, <2>1, <2>2 DEF Futures
    <3> QED BY <1>1, <2>1, <3>1 DEF FoundIs
  <2>4. result[p] = "kFilePathOnly"
    BY <1>1, <1>5, <2>1, <2>2, <2>3 DEF FoundIs
  <2> QED BY <2>2, <2>4 DEF Counted
<1>9. ASSUME NEW i \in 1 .. Len(futures), result[futures[i]] \in Counted
      PROVE  \/ \E k \in DOMAIN listed : ~listed[k].name.slash /\ futures[i] = k
             \/ \E p \in Below(disk) : disk[p] # Folder /\ ~HasHeader(listed, NameOf(p, FALSE))
  <2>1. futures[i] \in Tasks
    BY <1>2
  <2>2. CASE futures[i] \in DOMAIN listed
    <3>1. listed[futures[i]].name.slash => result[futures[i]] \in {"kDirMatch", "kDirPackageOnly"}
      BY <1>1, <1>5, <2>2 DEF ResultInv
    <3> QED BY <1>9, <2>2, <3>1 DEF Counted
  <2>3. CASE futures[i] \in Below(disk)
    <3>1. futures[i] \in Paths /\ status[futures[i]] # "new"
      BY <1>1, <1>2, <2>3 DEF Below, Futures
    <3>2. result[futures[i]] = found[futures[i]] /\ found[futures[i]] = "kFilePathOnly"
      BY <1>1, <1>5, <1>9, <3>1 DEF FoundIs, Counted
    <3>3. disk[futures[i]] # Folder /\ ~HasHeader(listed, NameOf(futures[i], FALSE))
      BY <1>1, <3>1, <3>2 DEF FoundIs, IsFolder
    <3> QED BY <2>3, <3>3
  <2> QED BY <1>3, <2>1, <2>2, <2>3
<1>10. allMatch = "yes" => SameFiles
  BY <1>6, <1>7, <1>8 DEF SameFiles
<1>11. ASSUME SameFiles, \A k \in DOMAIN listed : Path(k) \notin barred
       PROVE  allMatch = "yes"
  <2> SUFFICES ASSUME NEW i \in 1 .. Len(futures), result[futures[i]] \in Counted PROVE FALSE
    BY <1>6
  <2>1. PICK k \in DOMAIN listed : ~listed[k].name.slash /\ futures[i] = k
    BY <1>9, <1>11 DEF SameFiles
  <2> QED BY <1>7, <1>11, <2>1 DEF SameFiles
<1> QED BY <1>4, <1>10, <1>11

\* If nothing changes, the report of a diff covers every entry and every path that is
\* not in the archive, once each.  It says that all match only if the files of the two are
\* the same, and if they are it says so unless the system refuses to open one of them.
THEOREM ReportsAreRight == Spec => []ReportIsRight
<1>1. RInv => ReportIsRight
  <2> SUFFICES ASSUME RInv, allMatch # "none", disks = {disk},
                      \A k \in DOMAIN listed : listed[k].name # NoName
               PROVE  /\ {futures[i] : i \in 1 .. collected} =
                            DOMAIN listed \cup {p \in Below(disk) : ~HasHeader(listed, NameOf(p, disk[p] = Folder))}
                      /\ allMatch = "yes" => SameFiles
                      /\ SameFiles /\ (\A k \in DOMAIN listed : Path(k) \notin barred) => allMatch = "yes"
    BY DEF ReportIsRight
  <2>1. Quiet
    BY DEF Quiet
  <2> QED BY <2>1, Reports
<1> QED BY <1>1, RInvInit, RInvStep, PTL DEF Spec

--------------------------------------------------------------------------------
(* Reads end *)

\* Whoever changes the folder is counted.
QuietFirst == changes = 0 => Quiet

LEMMA QuietFirstStep ==
    ASSUME IInv, QuietFirst, [Next]_vars
    PROVE  QuietFirst' /\ (changes' = 0 => changes = 0)
<1> USE DEF jobVars, taskVars, walk, report, input, env, pool
<1>1. CASE UNCHANGED <<disk, disks, changes>>
  BY <1>1 DEF QuietFirst, Quiet
<1>2. CASE Main \/ Job BY <1>1, <1>2, JobFrame
<1>3. ASSUME NEW t \in Tasks, Task(t) PROVE UNCHANGED <<disk, disks, changes>>
  BY <1>3, TaskFrame
<1>4. ASSUME NEW p \in Paths, Change(p) PROVE changes' # 0
  BY <1>4, ChangesIsNat DEF Change
<1>5. CASE UNCHANGED vars BY <1>1, <1>5 DEF vars
<1> QED BY <1>1, <1>2, <1>3, <1>4, <1>5 DEF Next, QuietFirst

\* A read behind the end of the file, which is of the size it had when it was opened, can
\* only come of a count that is smaller than what was read.
LEMMA ReadsEndStep ==
    ASSUME RInv, QuietFirst, ReadsEnd, [Next]_vars
    PROVE  ReadsEnd'
<1> USE DEF jobVars, taskVars, walk, report, input, env, pool
<1>1. IInv
  BY DEF RInv, VInv
<1>2. changes' = 0 => changes = 0
  BY <1>1, QuietFirstStep
<1>3. barred' = barred /\ changes \in Nat
  BY <1>1, ChangesIsNat, JobFrame, TaskFrame DEF Next, Change, vars
<1>4. changes' \in Nat
  <2>1. changes' = changes \/ changes' = changes + 1
    <3>1. CASE Main \/ Job BY <3>1, JobFrame
    <3>2. ASSUME NEW t \in Tasks, Task(t) PROVE changes' = changes
      BY <3>2, TaskFrame
    <3>3. ASSUME NEW p \in Paths, Change(p) PROVE changes' = changes + 1
      BY <3>3 DEF Change
    <3>4. CASE UNCHANGED vars BY <3>4 DEF vars
    <3> QED BY <3>1, <3>2, <3>3, <3>4 DEF Next
  <2> QED BY <1>3, <2>1
<1> SUFFICES ASSUME NEW e \in Positions, pc'[e] = "hung", changes' = 0
             PROVE  (Path(e) \in barred \/ listed[e].usize >= CounterLimit)'
  BY <1>4 DEF ReadsEnd, MayReadForEver
<1>5. e \in Tasks
  BY DEF Tasks
<1>6. listed' = listed
  <2>1. CASE ReadDirectory
    <3>1. pc' = pc
      BY <2>1 DEF ReadDirectory
    <3>2. e \in Tasks /\ pc[e] = "hung"
      BY <1>5, <3>1
    <3>3. futures = <<>>
      BY <1>1, <2>1 DEF ReadDirectory, IInv, JobInv
    <3>4. status[e] = "new"
      BY <1>1, <1>5, <3>3, TypeParts DEF IInv, Futures
    <3> QED BY <1>1, <3>2, <3>4, OpenEntry
  <2> QED BY <1>1, <2>1, DirectoryStays
<1>7. CASE pc[e] = "hung"
  <2>1. ~(changes > 0)
    BY <1>2
  <2> QED BY <1>3, <1>6, <1>7, <2>1 DEF ReadsEnd, MayReadForEver, Path
<1>8. CASE pc[e] # "hung"
  <2>1. PICK t \in Tasks : Task(t)
    <3>1. CASE Main \/ Job BY <1>8, <3>1, JobFrame
    <3>2. ASSUME NEW p \in Paths, Change(p) PROVE pc' = pc
      BY <3>2 DEF Change
    <3>3. CASE UNCHANGED vars BY <1>8, <3>3 DEF vars
    <3> QED BY <1>8, <3>1, <3>2, <3>3 DEF Next
  <2>2. t = e /\ ReadForEver(e)
    BY <1>1, <1>5, <1>8, <2>1, TaskMoves
  <2>3. LengthsInv
    BY <1>2 DEF QuietFirst, RInv, QuietInv
  <2>4. CASE pc[e] = "last"
    <3>1. Len(got[e]) = listed[e].usize /\ listed[e].usize \in Nat
      BY <1>1, <1>5, <2>3, <2>4, OpenEntry DEF LengthsInv
    <3>2. listed[e].usize % CounterLimit < listed[e].usize
      BY <2>2, <3>1 DEF ReadForEver, MoreToRead
    <3>3. ~(listed[e].usize < CounterLimit)
      <4>1. listed[e].usize < CounterLimit => listed[e].usize % CounterLimit = listed[e].usize
        BY <3>1, BoundAssumption, RestIsSmaller
      <4> QED BY <3>1, <3>2, <4>1
    <3>4. listed[e].usize >= CounterLimit
      BY <3>1, <3>3, BoundAssumption
    <3> QED BY <1>6, <3>4
  <2>5. CASE pc[e] # "last"
    <3>1. Path(e) \in barred
      BY <2>2, <2>5 DEF ReadForEver
    <3> QED BY <1>3, <1>6, <3>1 DEF Path
  <2> QED BY <2>4, <2>5
<1> QED BY <1>7, <1>8

\* A task reads for ever only if a file changes, the system refuses to read it, or it is too
\* long for the counter of bytes.
THEOREM AllReadsEnd == Spec => []ReadsEnd
<1> DEFINE I == RInv /\ QuietFirst /\ ReadsEnd
<1>1. Init => I
  <2> SUFFICES ASSUME Init PROVE I
    OBVIOUS
  <2>1. disks = {disk} /\ Positions \subseteq Tasks /\ \A t \in Tasks : pc[t] = "none"
    BY DEF Init, Tasks
  <2>2. QuietFirst /\ ReadsEnd
    BY <2>1 DEF QuietFirst, Quiet, ReadsEnd
  <2> QED BY <2>2, RInvInit
<1>2. I /\ [Next]_vars => I'
  BY RInvStep, QuietFirstStep, ReadsEndStep DEF RInv, VInv
<1>3. I => ReadsEnd
  OBVIOUS
<1> QED BY <1>1, <1>2, <1>3, PTL DEF Spec

--------------------------------------------------------------------------------
(* The directory and the list *)

\* The job has the directory of the archive once it has read it, and a list job that
\* has finished has printed the entries whose name matches.
ListInv ==
    /\ pattern \in Patterns \cup {<<>>}
    /\ job \notin {"off", "open", "ended"} => listed = Listed(Layout(package))
    /\ job = "list" => jobType = "kList"
    /\ job \in {"enqueue", "walk", "collect", "destroy"} => jobType # "kList"
    /\ job = "ended" /\ jobType = "kList" /\ jobStatus = "kFinished" =>
          /\ listed = Listed(Layout(package))
          /\ printed = {k \in DOMAIN listed : NameMatches(k)}

LInv == IInv /\ ListInv

LEMMA ListInit == Init => LInv
<1> SUFFICES ASSUME Init PROVE LInv
  OBVIOUS
<1>1. IInv
  BY TypeInit
<1>2. job = "off" /\ pattern \in Patterns \cup {<<>>}
  BY DEF Init
<1> QED BY <1>1, <1>2 DEF LInv, ListInv

LEMMA ListStep ==
    ASSUME LInv, [Next]_vars
    PROVE  ListInv'
<1> USE DEF ListInv, jobVars, walk, report, input, pool
<1>1. ListInv /\ IInv
  BY DEF LInv
<1>2. ASSUME UNCHANGED <<input, job, jobStatus, listed, printed>>
      PROVE  ListInv'
  BY <1>1, <1>2 DEF NameMatches
<1>3. CASE Main
  <2>1. CASE Run
    <3>1. job' = "open" /\ pattern' = pattern
      BY <2>1 DEF Run
    <3> QED BY <1>1, <3>1
  <2>2. CASE PollDone \/ JoinThread
    BY <1>2, <2>2 DEF PollDone, JoinThread
  <2> QED BY <1>3, <2>1, <2>2 DEF Main
<1>4. CASE Job
  <2>1. CASE OpenFails
    <3>1. job' = "ended" /\ jobStatus' = "kError" /\ pattern' = pattern
      BY <2>1 DEF OpenFails
    <3> QED BY <1>1, <3>1
  <2>2. CASE ReadDirectory
    <3>1. /\ job' = IF jobType = "kList" THEN "list" ELSE "enqueue"
          /\ listed' = Listed(Layout(package)) /\ UNCHANGED input
      BY <2>2 DEF ReadDirectory
    <3> QED BY <1>1, <3>1
  <2>3. CASE List
    <3>1. job = "list" /\ job' = "ended" /\ UNCHANGED <<input, listed>>
      BY <2>3 DEF List
    <3>2. printed' = {k \in DOMAIN listed : NameMatches(k)}
      BY <2>3 DEF List
    <3>3. listed = Listed(Layout(package))
      BY <1>1, <3>1
    <3>4. printed' = {k \in DOMAIN listed' : NameMatches(k)'}
      BY <3>1, <3>2 DEF NameMatches
    <3> QED BY <1>1, <3>1, <3>3, <3>4
  <2>4. CASE EnqueueDone \/ Enter \/ EnterThrows \/ VisitThrows \/ WalkDone \/ Collect \/ Report
    <3>1. /\ job \in {"enqueue", "walk", "collect"} /\ job' \in {"enqueue", "walk", "collect", "destroy"}
          /\ UNCHANGED <<input, listed>>
      BY <2>4 DEF EnqueueDone, Enter, EnterThrows, VisitThrows, WalkDone, Collect, Report
    <3> QED BY <1>1, <3>1
  <2>5. CASE DestroyPool
    <3>1. job = "destroy" /\ job' = "ended" /\ UNCHANGED input
      BY <2>5 DEF DestroyPool
    <3> QED BY <1>1, <3>1
  <2>6. ASSUME NEW e \in Positions, EnqueueEntry(e) PROVE ListInv'
    BY <1>2, <2>6 DEF EnqueueEntry
  <2>7. ASSUME NEW p \in Paths, NEW isFolder \in BOOLEAN, Visit(p, isFolder) PROVE ListInv'
    BY <1>2, <2>7 DEF Visit
  <2> QED BY <1>4, <2>1, <2>2, <2>3, <2>4, <2>5, <2>6, <2>7 DEF Job
<1>5. ASSUME NEW t \in Tasks, Task(t) PROVE ListInv'
  BY <1>2, <1>5, TaskFrame
<1>6. ASSUME NEW p \in Paths, Change(p) PROVE ListInv'
  BY <1>2, <1>6 DEF Change
<1>7. CASE UNCHANGED vars
  BY <1>2, <1>7 DEF vars
<1> QED BY <1>3, <1>4, <1>5, <1>6, <1>7 DEF Next

LEMMA LInvStep == LInv /\ [Next]_vars => LInv'
BY IInvStep, ListStep DEF LInv

\* The archive is one of another program.
LEMMA PackageIsForeign ==
    ASSUME LInv
    PROVE  IsForeign(package)
<1>1. package \in Packages
  BY TypeParts DEF LInv, IInv, JobTypes
<1> QED BY <1>1, PackageAssumption

\* The directory of an archive that another program wrote, and that has its records
\* where the reader looks for them, is read as it was written.
THEOREM DirectoriesAreRead == Spec => []DirectoryIsRead
<1>1. LInv => DirectoryIsRead
  <2> SUFFICES ASSUME LInv, WellPlaced(package)
               PROVE  /\ CanOpen(Layout(package))
                      /\ job \in {"list", "enqueue"} =>
                            /\ Len(listed) = Len(package.entries)
                            /\ \A k \in DOMAIN listed :
                                  /\ listed[k].name = package.entries[k].name
                                  /\ listed[k].crc = package.entries[k].data
                                  /\ listed[k].usize = Len(package.entries[k].data)
                                  /\ listed[k].csize = package.entries[k].csize
                                  /\ StreamOffset(Layout(package), listed[k]) =
                                        ByteOffset(Layout(package), 2 * k)
    BY DEF DirectoryIsRead
  <2>1. CanOpen(Layout(package))
    BY PackageIsForeign, ArchiveOpens
  <2>2. ASSUME job \in {"list", "enqueue"}
        PROVE  listed = Listed(Layout(package))
    BY <2>2 DEF LInv, ListInv
  <2> QED BY <2>1, <2>2, PackageIsForeign, DirectoryReads
<1> QED BY <1>1, ListInit, LInvStep, PTL DEF Spec

--------------------------------------------------------------------------------
(* Patterns *)

\* A star in front of a separator that stands for the whole name of a folder has a last
\* character, which the expression for the separator takes.
LEMMA GlobMatches ==
    ASSUME NEW p \in Seq(Characters), NEW s \in Seq(STRING),
           \A i \in DOMAIN s : s[i] = "/" => i > 1 /\ s[i - 1] # "/",
           StarsBeforeSlashes(p), Glob(p, s)
    PROVE  FNMatch(p, s)
<1> DEFINE n == Len(p)
           IsSep(i) == i \in DOMAIN p /\ p[i] \in Separators
<1>1. n \in Nat /\ DOMAIN p = 1 .. n /\ Len(s) \in Nat /\ DOMAIN s = 1 .. Len(s)
  BY LenProperties
<1>2. PICK cut \in Divisions(p, s) : \A i \in DOMAIN p : WildcardTakes(p[i], s, cut[i - 1], cut[i])
  BY DEF Glob
<1>3. /\ cut \in [0 .. n -> 0 .. Len(s)] /\ cut[0] = 0 /\ cut[n] = Len(s)
      /\ \A i \in 1 .. n : cut[i - 1] <= cut[i]
  BY <1>1, <1>2 DEF Divisions
<1>4. \A i \in 1 .. n : cut[i] \in Nat /\ cut[i - 1] \in Nat /\ cut[i] <= Len(s)
  <2> SUFFICES ASSUME NEW i \in 1 .. n PROVE cut[i] \in Nat /\ cut[i - 1] \in Nat /\ cut[i] <= Len(s)
    OBVIOUS
  <2>1. i \in 0 .. n /\ i - 1 \in 0 .. n
    BY <1>1
  <2>2. cut[i] \in 0 .. Len(s) /\ cut[i - 1] \in 0 .. Len(s)
    BY <1>3, <2>1
  <2> QED BY <1>1, <2>2
\* What comes before a separator.
<1>5. ASSUME NEW i, IsSep(i)
      PROVE  /\ i \in 1 .. n /\ i > 1 /\ p[i - 1] = "*" /\ ~IsSep(i - 1) /\ ~IsSep(i + 1)
             /\ cut[i] = cut[i - 1] + 1 /\ s[cut[i]] = "/"
  <2>1. i \in 1 .. n /\ i > 1 /\ p[i - 1] = "*" /\ p[i] \in Separators
    BY <1>1, <1>5 DEF StarsBeforeSlashes
  <2>2. "*" \notin Separators
    BY DEF Separators
  <2>3. ~IsSep(i - 1)
    BY <2>1, <2>2
  <2>4. ~IsSep(i + 1)
    <3> SUFFICES ASSUME IsSep(i + 1) PROVE FALSE
      OBVIOUS
    <3>1. p[(i + 1) - 1] = "*"
      BY DEF StarsBeforeSlashes
    <3>2. (i + 1) - 1 = i
      BY <1>1, <2>1
    <3> QED BY <2>1, <2>2, <3>1, <3>2
  <2>5. cut[i] = cut[i - 1] + 1 /\ s[cut[i]] = "/"
    <3>1. WildcardTakes(p[i], s, cut[i - 1], cut[i])
      BY <1>2, <1>5
    <3>2. p[i] # "*"
      BY <2>1, <2>2
    <3> QED BY <2>1, <3>1, <3>2 DEF WildcardTakes
  <2> QED BY <2>1, <2>3, <2>4, <2>5
\* The star took something: no name begins with a slash or has two of them in a row.
<1>6. ASSUME NEW i, IsSep(i)
      PROVE  cut[i - 2] < cut[i - 1]
  <2>1. i \in 2 .. n /\ i - 1 \in 1 .. n /\ (i - 1) - 1 = i - 2
    BY <1>1, <1>5, <1>6
  <2>2. cut[i - 2] <= cut[i - 1] /\ cut[i - 2] \in Nat /\ cut[i - 1] \in Nat
        /\ cut[i] \in Nat /\ cut[i] <= Len(s)
    BY <1>3, <1>4, <2>1
  <2>3. cut[i] = cut[i - 1] + 1 /\ s[cut[i]] = "/" /\ cut[i] \in DOMAIN s
    BY <1>1, <1>5, <1>6, <2>2
  <2>4. cut[i] > 1 /\ s[cut[i] - 1] # "/"
    BY <2>3
  <2>5. CASE i = 2
    BY <1>3, <2>2, <2>3, <2>4, <2>5
  <2>6. CASE i > 2
    <3>1. IsSep(i - 2)
      <4>1. p[i - 2] \in Separators
        BY <1>6, <2>6 DEF StarsBeforeSlashes
      <4>2. i - 2 \in DOMAIN p
        BY <1>1, <2>1, <2>6
      <4> QED BY <4>1, <4>2
    <3>2. s[cut[i - 2]] = "/"
      BY <1>5, <3>1
    <3>3. cut[i - 2] # cut[i] - 1
      BY <2>4, <3>2
    <3> QED BY <2>2, <2>3, <3>3
  <2> QED BY <2>1, <2>5, <2>6
<1> DEFINE new == [i \in 0 .. n |-> IF IsSep(i + 1) THEN cut[i] - 1 ELSE cut[i]]
<1>7. new \in [0 .. n -> 0 .. Len(s)]
  <2> SUFFICES ASSUME NEW i \in 0 .. n
               PROVE  (IF IsSep(i + 1) THEN cut[i] - 1 ELSE cut[i]) \in 0 .. Len(s)
    OBVIOUS
  <2>1. cut[i] \in 0 .. Len(s)
    BY <1>3
  <2>2. CASE IsSep(i + 1)
    <3>1. (i + 1) - 1 = i /\ (i + 1) - 2 = i - 1 /\ i \in 1 .. n
      <4>1. i + 1 \in 1 .. n /\ i + 1 > 1
        BY <1>5, <2>2
      <4> HIDE DEF IsSep, n
      <4> QED BY <1>1, <4>1
    <3>2. cut[i - 1] < cut[i] /\ cut[i - 1] \in Nat
      BY <1>4, <1>6, <2>2, <3>1
    <3> QED BY <1>1, <2>1, <2>2, <3>2
  <2> QED BY <2>1, <2>2
<1>8. new[0] = 0 /\ new[n] = Len(s)
  <2>1. ~IsSep(0 + 1)
    BY <1>5
  <2>2. ~IsSep(n + 1)
    BY <1>1
  <2>3. 0 \in 0 .. n /\ n \in 0 .. n
    BY <1>1
  <2> HIDE DEF IsSep
  <2> QED BY <1>3, <2>1, <2>2, <2>3
<1>9. ASSUME NEW i \in 1 .. n
      PROVE  new[i - 1] <= new[i] /\ RegexTakes(p[i], s, new[i - 1], new[i])
  <2>1. /\ i \in 0 .. n /\ i - 1 \in 0 .. n /\ (i - 1) + 1 = i
        /\ cut[i] \in Nat /\ cut[i - 1] \in Nat /\ cut[i - 1] <= cut[i]
    BY <1>1, <1>3, <1>4
  <2>2. new[i] = (IF IsSep(i + 1) THEN cut[i] - 1 ELSE cut[i]) /\ new[i - 1] = (IF IsSep(i) THEN cut[i - 1] - 1 ELSE cut[i - 1])
    BY <2>1
  <2>3. WildcardTakes(p[i], s, cut[i - 1], cut[i])
    BY <1>1, <1>2
  <2>4. CASE IsSep(i)
    <3>1. cut[i] = cut[i - 1] + 1 /\ s[cut[i]] = "/" /\ ~IsSep(i + 1) /\ p[i] \in Separators
      BY <1>5, <2>4
    <3> HIDE DEF IsSep, new
    <3>2. new[i] = cut[i] /\ new[i - 1] = cut[i] - 2
      BY <2>1, <2>2, <2>4, <3>1
    <3> QED BY <2>1, <3>1, <3>2 DEF RegexTakes
  <2>5. CASE IsSep(i + 1)
    <3>1. ~IsSep(i) /\ p[i] = "*" /\ cut[i - 1] < cut[i]
      <4>1. (i + 1) - 1 = i /\ (i + 1) - 2 = i - 1
        BY <2>1
      <4> QED BY <1>5, <1>6, <2>5, <4>1
    <3> HIDE DEF IsSep, new
    <3>2. new[i] = cut[i] - 1 /\ new[i - 1] = cut[i - 1]
      BY <2>2, <2>5, <3>1
    <3> QED BY <2>1, <3>1, <3>2 DEF RegexTakes
  <2>6. CASE ~IsSep(i) /\ ~IsSep(i + 1)
    <3>1. p[i] \notin Separators
      BY <1>1, <2>6
    <3> HIDE DEF IsSep, new
    <3>2. new[i] = cut[i] /\ new[i - 1] = cut[i - 1]
      BY <2>2, <2>6
    <3> QED BY <2>1, <2>3, <3>1, <3>2 DEF RegexTakes, WildcardTakes
  <2> QED BY <2>4, <2>5, <2>6
<1> HIDE DEF new
<1>10. new \in Divisions(p, s)
  BY <1>1, <1>7, <1>8, <1>9 DEF Divisions
<1>11. \A i \in DOMAIN p : RegexTakes(p[i], s, new[i - 1], new[i])
  BY <1>1, <1>9
<1> QED BY <1>10, <1>11 DEF FNMatch

\* A list job prints every entry of the archive that its pattern stands for, with
\* patterns of the kind that FNMatch.h shows.
THEOREM ListsAreComplete == Spec => []ListIsComplete
<1>1. LInv => ListIsComplete
  <2> SUFFICES ASSUME LInv, job = "ended", jobType = "kList", jobStatus = "kFinished",
                      WellPlaced(package), NEW k \in DOMAIN package.entries,
                      StarsBeforeSlashes(pattern), Glob(pattern, Spelling[package.entries[k].name])
               PROVE  k \in printed
    BY DEF ListIsComplete
  <2> DEFINE name == package.entries[k].name
  <2>1. listed = Listed(Layout(package)) /\ printed = {i \in DOMAIN listed : NameMatches(i)}
    BY DEF LInv, ListInv
  <2>2. k \in DOMAIN listed /\ listed[k].name = name
    BY <2>1, PackageIsForeign, DirectoryReads
  <2>3. name \in Names /\ name # NoName
    BY PackageIsForeign, EntriesAreTyped, ReaderAssumption
  <2>4. FNMatch(pattern, Spelling[name])
    <3>1. pattern \in Seq(Characters)
      <4>1. pattern \in Patterns \cup {<<>>}
        BY DEF LInv, ListInv
      <4>2. <<>> \in Seq(Characters)
        BY EmptySeq
      <4>3. Patterns \subseteq Seq(Characters)
        BY SpellingAssumption
      <4> QED BY <4>1, <4>2, <4>3
    <3>2. /\ Spelling[name] \in Seq(STRING)
          /\ \A i \in DOMAIN Spelling[name] :
                Spelling[name][i] = "/" => i > 1 /\ Spelling[name][i - 1] # "/"
      BY <2>3, SpellingAssumption
    <3> QED BY <3>1, <3>2, GlobMatches
  <2>5. NameMatches(k)
    BY <2>2, <2>3, <2>4 DEF NameMatches
  <2> QED BY <2>1, <2>2, <2>5
<1> QED BY <1>1, ListInit, LInvStep, PTL DEF Spec
================================================================================
