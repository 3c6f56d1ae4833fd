# ZZipUpdate in TLA+

ZZipUpdate keeps a local folder in step with a ZIP archive that is on disk or on a web
server: it creates archives, lists them, compares them with a folder, and extracts what is
new or different. It is a C++ library (`ZZip/`, `common/`) and a small command line
(`ZZipUpdate/`). This directory holds TLA+ specifications of the parts of it that are hard
to test, the TLC configurations that check them on small instances, and TLAPS proofs of
their most important properties. Paths below are relative to the repository, and line
numbers are those of the commit the specifications were written from; `PROJECT.json` maps
each definition to its lines.

Contents: 1 the system, 2 the plan, 3 the modules, 4 the runs, 5 fairness, 6 proofs,
7 what the code does otherwise than it says, 8 what is left out.

## 1. The system

    main thread ──starts, joins──> ZipJob ──thread──> job function
                                                       │ one task per file
                                        ThreadPool <───┤
                                            │          │
                                       tasks (workers) │
                                            v          v
                                   ZZipAPI::DecompressToFile / AddToZipFile
                                     │                  │
                          ZDecompressor / ZCompressor   cZipCD (directory)
                                     │                  │
                                   cZZFile: cZZFileLocal or cHTTPFile
                                                         │
                                                     HTTPCache

| Component | State | Operations | What is hard about it | What makes it correct |
|---|---|---|---|---|
| HTTP read-ahead cache (`common/HTTPCache.*`, `cHTTPFile::Read`) | map from offsets to lines, `mMutex`; per line the data, the interval still to fetch, `mbCommitted` | `Read`, `CheckOrReserve`, `Reserve`, `Get`, `Commit` | workers share it; a line is reserved, filled and committed in three steps of which only the first is locked; overlapping lines, eviction, failed and late answers | a read that returns TRUE has delivered the bytes asked for; every read returns; nothing is fetched twice |
| Thread pool (`common/thread_pool.hpp`) | queue, `stop`, condition variable, workers | constructor, `enqueue`, destructor | notifications outside the lock, spurious wakeups, a destructor at any time | each task is run once; no lost wakeup; the destructor drains the queue and returns |
| Extract job (`ZZip/ZipJob.cpp` `RunDecompressionJob`, `FileNeedsUpdate`, `ZZipAPI::DecompressToFile`) | `JobStatus`, `Progress`, the results of the tasks, the folder on disk | `Run`, `Join`, the job's thread, a task per file | tasks that fail, throw or never end; a process killed at any step and run again; two entries of one name | after a job without errors the folder is what the archive says; an update never spoils a good file; the job ends |
| Compressed streams (`ZZip/zlibAPI.*`, the loops of `AddToZipFile` and `DecompressToFile`) | the `z_stream`, two buffers, `mStatus`, `mbFinalPass` | `Init`, `InitStream`, `Compress`, `Decompress`, `HasMoreOutput` | the ends of chunks, of buffers and of streams fall together in every way; damaged streams | what was added and extracted is the same file; bad data is rejected; the loops end |
| Archive layout and creation (`ZZip/ZipHeaders.*`, `ZZipAPI::AddToZipFile`, `Shutdown`, `RunCompressionJob`) | the file, `mnFileSize`, the directory in memory | add a file or a folder, write the directory, find and read it | the header is written behind the data that follows it; a failed add leaves a gap; a stream whose failure is sticky; death between two records | each entry of the directory points at its own header and data; a reader gets the whole directory or none |
| Diff and list jobs (`ZipJob::RunDiffJob`, `RunListJob`, `FileNeedsUpdate`) | `JobStatus`, the futures with their results, the place of the walk over the folder | the job's thread, a task per entry, a task per path that is not in the archive | the folder may change while tasks compare it, and the system may refuse parts of it; exceptions of the iterator and of the tasks; the report adds up two loops | each result was true at some moment; the report counts each entry and path once; only a change, a missing folder or a refusal of the system brings the process down; reads end |
| Local file reads (`cZZFileLocal::OpenInternal`, `Read`) | size at opening, stream position, failbit | `Open`, `Read` | a file that changes after it was opened; a failed read poisons those behind it | a read delivers the bytes or says so |
| Foreign archives (`cZipCD::Init`, `cCDFileHeader::ParseRaw`, `cLocalFileHeader::Read`) | the list of headers | search for the records at the end, parsing | zip32 and zip64 variants, values in extra fields, comments and data that look like records, damaged headers | the directory is read as it was written, and the data of an entry is found |
| Name patterns (`common/FNMatch.*`) | none | `FNMatch` | three rewritings, each of what the ones before put in | what a pattern of the documented kind stands for is taken |
| Strings, checksum, dates | none | pure functions | 0-based months, 32-bit dates | agreement with what they are meant to compute |
| Command line (`ZZipUpdate_main.cpp`) | parameters | parse, run one job | the defaults | parameters reach the job |
| Vendored: zlib, curl, libssh2 | | | | taken as their documentation says |

The components meet in calls (job to API to stream to file), in shared state (workers to the
cache, to the archive file, to `Progress`), and in one place each in a queue (job to workers)
and in a polled flag (`JobStatus`, main to job). `PROJECT.json` lists the hazards at their
lines with the properties that watch them.

## 2. The plan

The modules, in the order of how much goes wrong when what they model does. All of them are
written, checked and proved about:

1. `HTTPCache`, implementing `RemoteFile`.
2. `ThreadPool`, implementing `TaskRunner`.
3. `ExtractJob`, which takes its pool to be a `TaskRunner`.
4. `ZStream` = `ZCompressor` + `ZDecompressor` over `ZFormat`.
5. `CreateJob` = the job + `ZipRecords` (layout and reader) + `LocalFile` (writer).
6. `DiffJob` = the diff and list jobs over `TaskRunner`, with `ZipReader` (the directory of an
   archive), `ForeignZip` (archives of other programs, and where their records are) and
   `NamePattern` (`FNMatch`).

What could be added: the sticky failbit of a handle that all workers read an archive through;
the conversions of `zip_date`; a zip64 block that is too short, and the rest of the grammar
of `std::regex` in patterns.

## 3. The modules

Throughout, a module keeps the names of the source for the operations and variables it
translates. Operators called `Bug...` are a definition with one plausible mistake in it; no
action uses them. They stand in front of the definition they vary, and `PROJECT.json` says
which property notices each.

### HTTPCache, RemoteFile, MCHTTPCache

State: the fields of each `HTTPCacheLine`, the map, the mutex and the locals of each thread's
call of `Read`. A buffer is the set of file offsets whose byte is in its place, so copying
from a line that is not filled yet copies nothing.

| Action | Code |
|---|---|
| `Call`, `DirectRead` | `cHTTPFile::Read`, the decision for the cache and the read past it |
| `CheckHit`, `CheckMiss` | `HTTPCache::CheckOrReserve`, under the mutex; a miss keeps it |
| `ReserveCopy`, `ReserveWait` | the loop of `Reserve` over the map: copy the overlap, or spin until the line is committed |
| `ReserveInsert` | the end of `Reserve`: eviction, insertion, release of the mutex |
| `Fetch`, `FetchFail`, `Commit` | the rest of `Read`: curl, the copy, `HTTPCacheLine::Commit` |
| `Get`, `GetTimeOut` | `HTTPCacheLine::Get` |

`RemoteFile` says what a caller is promised. TRUE: all the bytes or, only where a time-out may
occur, nothing; never a part of the bytes. FALSE: a beginning of the bytes may be in the buffer,
each in its place, for past the cache curl writes into the caller's buffer as the answer comes
in (`common/ZZFileAPI.cpp:370`, `:389`, `:426`), and the transfer may fail after that (`:462`).

Abstractions: the clock is kept as the order in which lines were committed, and is taken to
move between a commit and a later reservation. `mbCommitted` is a plain `bool` that is read
without a lock; it is taken to be sequentially consistent. The server honours the `Range`
header and answers with the whole range or an error of the transfer: `Read` does not look at the
code of the answer or at its length, so for an answer that is shorter, or an error page, it
would return TRUE with other bytes. The identities of lines are finite, one more than can be in use is never needed.
`ReserveWait` is the spin loop, a step that changes nothing.

### ThreadPool, TaskRunner

State: the queue, `stop`, the place of each worker, the tasks with results and the thread of
the job. A critical section is one step, a notification is a step of its own, a wait releases
the mutex and starts to wait in one step, as the condition variable does. `TaskRunner` is what
the jobs rely on: each task goes from new to queued to running to done, and the pool goes away
only when none is on its way.

### ExtractJob, MCExtractJob

Three kinds of threads: `Main` (`ZipJob::Run`, `Join`), `Job` (`RunDecompressionJob`) and
`Task(e)` (the lambda per entry with `FileNeedsUpdate`, `DecompressToFile` and
`ExtractRawStream`). The pool is an instance of `TaskRunner`, whose actions the job and the
tasks take together with their own; since `ThreadPool` implements it for any number of workers,
so does this cover pools of every size. The folder, `disk`, outlives a killed process, and
`NewProcess` runs the job again. `Faults` is the set of what may go wrong; it is a constant, so
that the theorems can say which faults they exclude.

| Action | Code |
|---|---|
| `Run`, `PollDone`, `JoinThread` | `ZipJob::Run`, `Join` |
| `VerifySize`, `VerifyHeld` | the opening in `FileNeedsUpdate`: a file of another size, and one that is there and cannot be opened, are taken for files that need an update |
| `ReadForEver`, `UpToDate`, `CRCDiffers` | its loop and the comparison |
| `DecompressFails` and the actions behind it | `DecompressToFile`, `ExtractRawStream`: the file is truncated and written block by block |

`held` are the entries whose file could not be opened when it was to be verified
(`ZZip/ZipJob.cpp:409`). What they hold does not count: if the file can be opened a moment
later, to be written, it is written anew. `GoodFilesSurvive` excepts them and nothing else.

Abstractions: a file is a sequence of blocks and its size is their number; files of equal size
and CRC are equal; the counters of the verification are one flag, `verified`, for all that is
decided on them is whether they are zero; what a stream buffers is seen as written.

### ZFormat, ZCompressor, ZDecompressor, ZStream

The content of a file of n bytes is 1..n, so bytes that are lost, repeated or out of order
show. A stream is a sequence of units: codes for an interval of bytes, the marker of a flush,
the end of the stream, bad data. `ZCompressor` is the loop of `AddToZipFile` over chunks, with
`Compress` and `deflate`; `ZDecompressor` is the loop of `DecompressToFile` with `Decompress`,
`mbFinalPass` and `inflate`. `deflate` and `inflate` follow the contract in `zlib.h`, with
every freedom it leaves: how much input is taken ahead, how codes are cut, when output is
held back. `ZStream` puts them in a row with an archive in between that may be cut off, spoiled
or followed by something else.

Abstractions: reads that return fewer bytes than asked for, without an error, do not occur;
the header and directory entry of `AddToZipFile` are one step (CreateJob has them in full);
`AddToZipFileFromBuffer`, which has a loop of its own, has no caller and is not modelled.
`filled` is what `avail_out` was after the last call of deflate.

### ZipRecords, LocalFile, CreateJob, MCCreateJob

A file is a sequence of cells. A record is a run of cells that carry its fields, the first of
which carries its tag, so a record that is cut off, overwritten or shifted shows. `ZipRecords`
holds the layout of the records and the reader: `CanOpen` and `Listed` are `cZipCD::Init`.
`LocalFile` is `cZZFileLocal::Write`, with a failure that nothing clears. `CreateJob` is
`RunCompressionJob` up to the destruction of its `ZZipAPI`, which writes the directory: a
stream first, behind the place of its header, then the header. Any write may fail after a
beginning of it got to the disk, and the process may be killed in the middle of one.

Abstractions: a cell stands for bytes of a record in proportion; the reader looks at the
fields in a record's first cell, so a torn record reads as a whole one (more can be opened
than in reality, which makes `NeverHalfListed` stronger); what the disk still buffers is an
earlier state of the file; the archive is not inside the folder that is added; compressed data
may look like a tag by chance (`DataTags`), as stored archives in archives do; a header that
cannot be parsed is listed as an empty entry, as `cZipCD::Init` does.

### ZipReader, ForeignZip, NamePattern, DiffJob, MCDiffJob

`ZipReader` is `cZipCD::Init` and `ParseRaw` for archives that any program may have written: a
sequence of records with their lengths in bytes. Each tag is searched for by itself, backward
from the end and in a window of `kMaxSizeOfCDRec` bytes, and a header's values are taken from
its zip64 block where the header says so. `ForeignZip` writes such archives: with or without
zip64 records, with any of the three values in the block, with other blocks in front, with a
comment that may hold a tag, with a stored archive for its last entry, with a damaged header.
`NamePattern` has `FNMatch` with what the code makes of each character of a pattern
(`RegexTakes`), and, apart from it, what the examples of `FNMatch.h` promise (`Glob`). Both say
that a name can be divided into pieces, one for each character of the pattern, that the
characters take. The three replacements are one: none puts in what a later one finds, but
for the slash in the place of a backslash.

`DiffJob` has the main thread, the thread of the job, a task per entry and one per path that is
only in the folder, and `Change`, other programs that change the folder meanwhile. `barred` are
the paths of which the system may refuse something: those that other programs hold, that the
user has no right to, or whose names cannot be converted to the code page. Each refusal is a
choice, so a file may be refused once and not again.

| Action | Code |
|---|---|
| `Run`, `PollDone`, `JoinThread` | `ZipJob::Run`, `Join` |
| `OpenFails`, `ReadDirectory` | the opening of the archive and `cZipCD::Init` |
| `List` | `RunListJob`: what `DumpCD` prints |
| `EnqueueEntry`, `EnqueueDone` | the loop over the directory in `RunDiffJob` |
| `Enter`, `EnterThrows`, `Visit`, `VisitThrows`, `WalkDone` | the loop of `recursive_directory_iterator`, which has no `skip_permission_denied`; it, the conversion of a path and `is_directory` may throw |
| `Collect`, `Report`, `DestroyPool` | the futures in their order, the counts, the end of the locals |
| `NameIsEmpty`, `EntryThrows`, `CheckFolder`, `CheckExists` | the lambda of an entry |
| `OpenDiffers`, `OpenFile`, `ReadBlocks`, `ReadForEver`, `CompareCRC` | `FileNeedsUpdate` with `cZZFileLocal::Read` |
| `PathIsFolder`, `PathIsFile` | the lambda of a path |
| `Change` | another program creates, deletes or overwrites something |

Abstractions: a read or a test of the file system is one step, so changes fall between the
reads of a file. A read is of `ReadSize` blocks, and takes in what was added to the file after it
was opened. Names in the archive
that cannot be converted are not told apart from paths that are refused. A file that a task has open cannot be deleted or replaced, as on Windows, for
which the program is written; it can be overwritten in place. The iterator comes to what is in
a folder in any order, once each, and may or may not notice what changes after it opened the
folder. Names are compared as paths (the separators are the same); as characters, for patterns, a name has
no slash at its front and no two in a row, which the format of zip files asks for
(`SpellingAssumption`). Equal size and CRC stand
for equal content. Reads of the archive itself succeed or fail as a whole (`OpenFails`). The
report is what it counts and whether it says that all match; totals, times and the lists of
names are output. The status a job's thread sets and main polls is one variable.

`DirectoryIsRead` and `ListIsComplete` compare what is read with what `ForeignZip` wrote, under
`WellPlaced`: no header is damaged, the directory is not longer than the reader takes, the records are within the window and nothing behind them looks like one.
Archives that are not well placed are in the run as well, for the other properties.

## 4. The runs

A run's name is its configuration's. "violation" runs check one statement of the repository's
own documentation or comments that the code does not keep (section 7).

| Run | Instance | What it shows |
|---|---|---|
| HTTPCacheFaults | 2 threads with 3 reads each, a file of 9 bytes, lines of 3, a map of 2 lines, failures and time-outs, threads symmetric | Every committed line has all its bytes, one line at most is pending and it is never evicted, nothing is fetched twice, the map keeps its limit, and the cache implements `RemoteFile`: a TRUE delivers all or, after a time-out, nothing; a FALSE leaves a beginning |
| HTTPCacheLive | 3 threads with 1 read each, no failures | With a server that answers in time each TRUE delivers, and no thread waits for ever |
| ThreadPool | 3 workers, 4 tasks, spurious wakeups, destruction at any time | No worker sleeps over work, every task is run, the destructor drains and returns, and `TaskRunner` (each task once, none after the end) is implemented |
| ExtractJob | 3 archives (two kinds of entries and a folder; two entries of one name; a file as long as the 32-bit counter), 10 disks, 2 processes one after the other, 8 faults | A job without errors leaves the folder as the archive is; an update spares good files that it could open; the status says done only when nothing runs any more; only two known kinds of files hang the job |
| ZStream | sizes 0 to 7; chunks of 3 into buffers of 3, chunks of 2 into buffers of 2; failures and damages | Output is always a beginning of the file; a whole stream is extracted to the last byte; a bad one is rejected; what is added with success is whole, unless the last call of deflate filled its buffer, and then a beginning; with the same exception a file comes back as it was; the loops end |
| CreateJob | 6 jobs of up to 3 paths with a folder, an empty file and streams of up to 2 cells; all failures; data that looks like records | Entries are intact whatever fails; what main finds after a finished job can be opened and lists what was added; nobody ever reads half a directory; the job ends |
| DiffJob | 8 archives of up to 2 entries as other programs write them, 5 folders, 4 paths, 8 patterns, one change at any moment, with and without a file and a folder that the system may refuse | The directory is read as it was written; each result of a diff was true at some moment; without a change the report is right, but for files that may not be opened; only a change, a missing base folder or a refusal brings the process down; a list has all its pattern stands for; the job ends unless a task reads for ever, which happens only to files that change, are refused or are too long for the counter |
| HTTPCacheTimeout, HTTPCacheStuck, ExtractJobFinished, ExtractJobFast, ZStreamFinalBlock | smaller instances of the same | see section 7 |

Why these bounds are enough to be interesting:

- HTTPCache: the requests start at 0, 1, 2, 4, 5 and 7. Lines at these offsets overlap another
  at the front, at the back, at both ends, with nothing left to fetch, or not at all, and the
  last request is too close to the end for the cache. Two lines of room and up to six
  reservations make evictions common, also of a line another thread is about to copy from. Two
  threads suffice for the interplay of a reader and a filler; a third, in HTTPCacheLive, waits
  for the mutex meanwhile. `LineIds` has `MaxLines` + `Threads` identities or more, as many as
  can be in use.
- ThreadPool: three workers can be waiting, on the way and busy at once, and four tasks are
  more than workers.
- ExtractJob: with `CounterLimit` 3 a file of 3 blocks is one of 2^32 bytes. The disks have a
  file that is missing, cut off, right, of the right size and wrong, or too long. Two processes:
  what the second finds is anything the first may leave.
- ZStream: the sizes are below, at, and not a multiple of the chunk, and two chunks and more;
  a buffer of 2 behind codes of up to 3 bytes makes inflate hold output back. The compressor's
  buffer is no larger than a chunk, as in the code, where both have 1 MB. So data that does not
  get smaller fills it, in the last chunk as well: what the properties say of this case
  is weaker, and ZStreamFinalBlock shows that it must be.
- CreateJob: a failed add can be first, in the middle or last. `kMaxReasonableCDBytes` and
  `kMaxSizeOfCDRec` are such that both the largest directory and the smallest fall on either
  side of them. Records keep the order of their sizes, not the sizes.

- DiffJob: lengths are in bytes as the format has them, for names of one length; the window has
  the 1024 bytes of the code, so comments of 900, 960 and 1010 bytes put all of the records,
  the locator without the zip64 record, or none of them into it. `Saturated` (100000, for
  0xffffffff) is above all sizes of the instance. The disks have no base folder, a file for a
  folder, a folder for a file, and files that are right, wrong or missing. One change
  (`MaxChanges`) can fall between any two steps: between the iterator and the task, or two
  reads of a file; the theorems are for any number. With `ReadSize` 2 and `CounterLimit` 5,
  files take up to three reads, the last of which may get two blocks, one or none, and a file
  of 5 blocks is one of 2^32 bytes. Either nothing is barred, or a file and a folder are. The
  patterns have stars, both kinds of slashes, a dot and another case.

The faults "mislead" (a read that reports success and delivers nothing, see HTTPCacheTimeout),
"close" (the last flush fails and nobody looks) and "verify" (the local file cannot be read
while it is verified) are in ExtractJob but switched off in the runs: with them
`CleanMeansSynced` and `OnlyKnownHangs` are false, and the theorems say so in their assumption.

`CHECK_DEADLOCK FALSE` is in the configurations of ExtractJob, ZStream, CreateJob and DiffJob, where a
process that has returned or died stops. HTTPCache and ThreadPool have a `Terminated` step
instead, so TLC does report a deadlock of their threads.

## 5. Fairness

- HTTPCache: each thread that can take a step takes one in the end. Weak fairness is enough
  for the mutex because `MaxReads` bounds how often the others can take it. That curl
  answers or fails in the end is an assumption about the server and the connection: `Read`
  sets no limit of time on a transfer, so a server that goes silent makes it wait for as long
  as TCP does. Nothing makes a worker call `Read`.
- ThreadPool: the workers and the thread of the job go on; every task returns. Spurious
  wakeups, and a destruction before the futures are read, may happen and need not.
- ExtractJob: the main thread, the job's thread and every task that was started go on. The pool
  starts every task, which is what ThreadPool's `EveryTaskRuns` shows. A kill or a new process
  is never forced.
- ZStream: one thread, which goes on.
- DiffJob: the main thread and the job's thread go on, and so does the pool: some thread of it that
  has work takes a step. Nobody has to change anything in the folder.
- CreateJob: the job's thread and the main thread go on; `MaxStream` bounds the compressor's
  output, as the size of its input does in the code. A kill is never forced.

## 6. Proofs

`tlapm` checks each of these for all values of the constants, from the assumptions named in
the modules and those listed here. "Invariant" is the inductive one: each module shows that it
holds initially, that every action keeps it (a lemma per action), and that it implies the
properties.

- **HTTPCacheProofs.** Invariant: `TypeOK`, who owns the mutex, which requests reach the cache,
  that a line is filed under its base, that an owner shares its line with nobody but readers,
  what a reservation knows of the lines it has passed (`ScanInv`), that the missing bytes of a
  line are one interval (`FillInv`), and what a reader knows of its line (`GetInv`). `ScanInv`
  and `FillInv` carry the argument: the map is ordered and all lines have one length, so an
  overlap always touches an end of what is missing, and cutting it off there loses nothing.
  Theorems: `TypeCorrect`, `OnePendingLine`, `LinesComplete`, `MapKeepsLimit`,
  `NothingRefetched`, `EvictionSparesPending`, `CacheImplementsFile` and, if `Get` may not time
  out, `ReadsAreDelivered`. `CacheImplementsFile` covers the reads past the cache, with an answer
  that breaks off anywhere. `MapKeepsLimit` needs that an eviction always finds a line when the
  map is full.
- **ThreadPoolProofs.** Invariant: `TypeOK`, each task is in the queue or with a worker once, and
  at one place only, workers leave only when `stop` is set and the queue is empty,
  and `NoLostWakeup`: if there is work and somebody waits, somebody is awake or a notification
  is on its way. `WorkersAreAwake` counts the workers that wait, hence the assumption that
  there are finitely many. Theorems: `TypeCorrect`, `WorkersAreAwake`, `DestructorDrains`,
  `PoolImplementsRunner`.
- **ExtractJobProofs.** Invariant: `TypeOK`, what the job's thread knows at each place
  (`JobInv`), what a task has counted (`TaskInv`) and, if reads do not mislead, closing
  loses nothing and local files can be read (`NothingMisleads`), what a task knows of its file (`DiskInv`): the
  file it writes is a beginning of the entry, and unless the file was held, it was not good
  when the task began to write it. Theorems: `TypeCorrect`, `DoneIsQuiet`,
  `ProgressIsBounded` and, with `NothingMisleads`, `CleanJobsSync`, `UpdatesSpareGoodFiles`,
  `HangsAreKnown`.
- **ZStreamProofs.** For the decompressor, that what is put out, what inflate holds and the units
  not yet read always join up, because no chunk is fed before all output of the last one was
  asked for. For the compressor, that what was written, with what is in the buffer, is all that
  was coded, once and in order (`AllCoded`), and that deflate is done with what it was given
  unless it filled the buffer (`Ended`). Theorems: `TypeCorrect`, `OutputStaysInOrder`,
  `WholeStreamsAreExtracted`, `BadStreamsAreRejected`, `AddedStreamsAreWhole`, `FilesComeBack`.
  Nothing is assumed of how small the data gets: for every size of chunk and buffer, what was
  added is whole, or the last call of deflate filled the buffer and a beginning is there. That
  the second case happens is what ZStreamFinalBlock is about.
- **CreateJobProofs**, the entries. Invariant: types, `mnFileSize` is the length of the file until
  a write fails, and what is being added lies behind all that was. Theorems:
  `EntriesStayIntact`, `FileSizeIsRight`.
- **CreateJobProofs**, the directory. Its headers have different lengths, which writer
  and reader add up by recursion. `InductionLemmas` has the induction this needs: a set of
  numbers stands for the predicate, and the pigeonhole principle for the least number.
  Invariant: as long as nothing failed, the headers written so far begin where the reader will
  look for them, and behind them are the records written so far (`InTheMaking`); there is no
  end of a directory in the file, or the directory is complete and final (`AllOrNothing`); and
  the names in it are those of the files before the next that were not skipped (`Keeping`). A
  lemma shows that a complete directory is found, the zip64 record being the last one, and
  read header by header (`ReadsDirectory`). One byte of the last record is enough for
  that, hence no state between none and whole. Theorems: `TypeCorrect`,
  `ListedWholeOrNotAtAll`, `FinishedArchiveIsRead`.
- **DiffJobProofs.** Invariant: `TypeOK`, which ties the futures, the state of the pool and the
  place of each task together; `JobInv`, what is empty before the directory is read and before
  the walk; `ListedInv`, what `PackageAssumption` says of parsed headers; and `TaskInv`: each
  block that a task has read was in the file at some moment (`Seen`). It is needed because the
  task decides on blocks that may be gone by then: if what it read is not what the archive
  has, some block differs, and the disk it was read from is the witness. With `FoundInv`, the
  same for the walk, this gives `VerdictsAreTrue`; a file that may not be opened is the one
  exception, and is called different whatever is in it. `DiesOfChange` follows from
  `NothingChanged`: as long as nothing has and nothing is barred, all that the iterator is about
  to open is a folder and all that was taken for a file is one. Theorems: `TypeCorrect`, `VerdictsAreTrue`,
  `DiesOfChange`, for any archives, folders, barred paths and number of changes. That
  `PackageAssumption` holds of the archives of an instance, TLC evaluates.
- **DiffJobProofs**, the report. Two counts have to meet: of the entries of the archive
  (`SubmittedInv`: each has a task from its turn on) and of what the walk finds (`FoundIs`: it has a
  task exactly if the archive has no entry for it). `WalkInv` says that whatever is below a
  folder that was entered has been found or is pending, and that folders that were found
  are entered; at the end of the walk the paths that were found are therefore closed under "child
  of", and `TreeAssumption` (every path is somewhere below the base folder) makes them all there are.
  This is the induction over the tree, on a set of paths instead of a predicate. `WalkInv` and
  `FoundIs` hold while nothing changes (`Quiet`); what was collected and what the report says of it
  (`CollectedInv`, `ReportedInv`) hold always. Theorem: `ReportsAreRight`, of which one
  direction holds of all files: if the report says that all match, they do. The other excepts
  files that may not be opened.
- **DiffJobProofs**, the reads. While nothing changes a task never has more blocks of its file than
  the archive says, and at the end of the file it has just as many (`LengthsInv`). So a read
  behind the end can only come of a counter that is smaller than what was read, which a number
  below `CounterLimit` is not (`RestIsSmaller`). Theorem: `AllReadsEnd`,
  the safety part of `JobEnds`.
- **ForeignZipProofs**, which has lemmas about the pure part only: writer and reader of foreign
  archives. Positions are sums of lengths of records (`Total`, a recursive function, hence
  `InductionLemmas`), and grow with the records (`TotalIs`, `TotalGrows`). So there is one
  record at most at a position (`RecordIsAt`), and the records of an archive are found there, each
  stream, header and end record at the position that the layout gives it (`LayoutIs`, `RecordsAre`,
  `LocalsAre`, `DirectoryIsAt`). With `WellPlaced` the last record with a tag is the one the writer
  meant (`TagsAre`, `FoundIsLast`, `DirectoryIsFound`), hence `ArchiveOpens`. A header is parsed
  to the values it was made of, in or out of its zip64 block and whatever blocks stand in
  front of it (`ExtraIs`, `ValuesAre`, `HeaderIsParsed`); by induction over the headers the
  directory is read as it was written (`DirectoryReads`).
- **DiffJobProofs**, the directory and the list. `ListInv`: from when the job has read the directory
  it has that of its archive, and a list job that has finished has printed the entries
  whose name matches. Theorems: `DirectoriesAreRead` by `DirectoryReads`, and `ListsAreComplete` by
  `GlobMatches`: where a name is divided as the examples say, moving the end of the star in
  front of each separator one character to the left divides it as the code does. The star has one
  to give away because no part of a name is empty.

All safety properties of the passing runs, action properties and refinements included, are
stated by a theorem. Only model-checked: liveness (`EveryReadReturns`, `EveryTaskRuns`,
`DestructorReturns`, `JobEnds`, `LoopsEnd`), which is beyond this prover.

## 7. What the code does otherwise than it says

Each of these is a run that TLC refutes:

- **HTTPCacheTimeout.** `cHTTPFile::Read` drops the result of `Get` (`common/ZZFileAPI.cpp:403`).
  A reader that waited 60 s for another thread's line returns TRUE with an untouched buffer.
- **HTTPCacheStuck.** A failed fetch leaves its line in the map, never committed
  (`common/ZZFileAPI.cpp:465`); the next `Reserve` spins on it with the mutex locked
  (`common/HTTPCache.cpp:79`), and so no cached read returns any more.
- **ExtractJobFinished.** After files failed the status is kError, and then kFinished in any case
  (`ZZip/ZipJob.cpp:675`).
- **ExtractJobFast.** The report divides by the milliseconds of the verification
  (`ZZip/ZipJob.cpp:625`), which are zero if it took less than one in all.
- **ZStreamFinalBlock.** `Compress` calls deflate only if there is input left
  (`ZZip/zlibAPI.cpp:291`). When the last chunk filled the output buffer, what deflate still
  holds is never asked for: the entry is cut off and reported as added.

Seen on the way and not the subject of a run:

- `update` turns the CRC check on whatever the documented parameter `skipcrc` says
  (`ZZipUpdate/ZZipUpdate_main.cpp:165`, `:112`); a diff takes no notice of the pattern that is
  documented for it (`:118`).
- A write failure while an archive is created is still reported as finished
  (`ZZip/ZZipAPI.cpp:113`); `RunCompressionJob` says it has finished before the directory is
  written, which only `Join`, by waiting for the thread, makes safe.
- `/` in a pattern becomes `./`, which takes one more character (`common/FNMatch.cpp:39`): with
  `*base*/*.exe` of `ZZip/ZipJob.h:79`, which is to match all folders with "base" in their
  names, a folder is missed whose name ends in it. `ListIsComplete` therefore speaks of patterns
  in which a folder's name is a star, as in the examples of `FNMatch.h`, where this does no
  harm; the others are in the run, and what they print is what the code prints.
- A diff says that all match when only folders differ, counts files that differ without
  naming them, and counts results of kind kError nowhere (`ZZip/ZipJob.cpp:326`).
- A diff may call a file matching whose blocks were right at different moments only, and never
  together; `VerdictsWereTrue` says no more of matches than this.
- A missing base folder, one deleted under the iterator, or a folder that the user may not list
  ends a diff with an exception that nobody catches (`ZZip/ZipJob.cpp:278`); so does a file
  deleted before its task asks for its size (`:293`).
- A file that cannot be opened, as another program holds it, is taken for one that is missing
  ("If no local file it clearly needs to be updated", `ZZip/ZipJob.cpp:409`): a diff calls it
  different whatever is in it, and an update writes it anew.
- `FileNeedsUpdate` does not look at the result of `Read` (`ZZip/ZipJob.cpp:432`): a read that is
  refused, or that finds the file shorter than it was, is repeated for ever.
- The three records at the end of an archive are searched for one by one. The zip64 records of a
  stored archive near the end of a zip32 archive are taken for its own, and a comment of more
  than some 900 bytes pushes the zip64 record out of the window (`ZZip/ZipHeaders.cpp:657`):
  `WellPlaced` leaves these out.
- After a damaged header in the directory all further ones are read at its place and stay
  empty, and nobody says so (`ZZip/ZipHeaders.cpp:753`).
- All workers add to the counters of the verification without a lock (`ZZip/ZipJob.cpp:557`),
  and an entry with an empty name makes the extract job look at the character in front of it (`:506`).
- `DecompressToBuffer` never calls `Decompress` in its loop (`ZZip/ZZipAPI.cpp:809`).

## 8. What is left out

Not modelled, and why:

- `DecompressToBuffer`, `DecompressToFolder`, `DumpReport`, `AddToZipFileFromBuffer`:
  no caller in the repository, or output only.
- Opening and closing over HTTP: one thread that sets up curl before any worker starts.
- The sticky failbit of a handle that several workers share: after one failed read of a local
  archive all later ones fail. ExtractJob takes each read for a step that succeeds or
  fails, which covers this without saying that the failures come together.
- In archives: encrypted entries, archives on several disks, a zip64 block that is shorter than
  the header says, fields of the headers that no job uses.
- In patterns: characters that mean something to `std::regex` other than the dot and the star.
- Formatting, dates, logging, the table-driven CRC, the command line: no state that anything
  depends on. The flags of the command line appear as constants and variables of the jobs.
- zlib, curl and libssh2 are third-party code, and most of the lines of the repository. The
  first two appear as what their documentation promises to the code that calls them, so
  `PROJECT.json` maps no lines of theirs.
- A pool without workers, which `hardware_concurrency` may in principle ask for: the
  specification of the pool assumes one worker at least.
- Another process that writes to the archive while it is read, and two jobs on one folder.
