------------------------------- MODULE HTTPCache -------------------------------
(***************************************************************************)
(* The read-ahead cache of a remote archive (common/HTTPCache.cpp) and the *)
(* cHTTPFile::Read of common/ZZFileAPI.cpp that uses it.  The worker       *)
(* threads of a job share one cHTTPFile, hence one cache: a map from file  *)
(* offsets to cache lines, guarded by HTTPCache::mMutex.  A line is        *)
(* reserved under the mutex, filled by the thread that reserved it after   *)
(* it released the mutex, and committed without it.                        *)
(*                                                                         *)
(* A buffer is represented by the set of file offsets whose byte it holds  *)
(* at the place that belongs to it, so copying from a buffer that is not   *)
(* filled yet copies nothing.  mbCommitted, a flag per line, is the set of *)
(* the lines whose flag is raised.                                         *)
(***************************************************************************)
EXTENDS Integers, FiniteSets

CONSTANTS
    Threads,        \* the threads that call Read
    LineIds,        \* identities of HTTPCacheLine objects (heap addresses)
    FileSize,       \* cZZFile::mnFileSize
    LineSize,       \* kHTTPCacheLineSize
    MaxLines,       \* kMaxCacheLines
    Requests,       \* the reads made: records [offset, bytes]
    MaxReads,       \* bound: how many reads each thread makes
    FetchMayFail,   \* whether curl_easy_perform may return an error
    GetMayTimeOut,  \* whether a line may stay uncommitted for kSleepTimeOut
    NoThread        \* the mutex is free

ASSUME SizeAssumption ==
    /\ FileSize \in Nat
    /\ LineSize \in Nat \ {0}
    /\ MaxLines \in Nat \ {0}
    /\ MaxReads \in Nat

ASSUME RequestAssumption == Requests \subseteq [offset : Nat, bytes : Nat]

\* A line whose fetch failed is never committed, so those who wait for it do
\* time out.
ASSUME FaultAssumption ==
    /\ FetchMayFail \in BOOLEAN
    /\ GetMayTimeOut \in BOOLEAN
    /\ FetchMayFail => GetMayTimeOut

ASSUME ThreadAssumption == NoThread \notin Threads

ASSUME LineAssumption == LineIds # {}

VARIABLES
    \* the fields of every HTTPCacheLine
    mnBaseOffset, mbCommitted, mData, unfFirst, unfSecond, mnBufferData, elapsed,
    \* HTTPCache
    mOffsetToHTTPCacheLineMap, mMutex,
    \* the locals of every thread's call of Read
    pc, request, cacheLine, cursor, buffer, issued

lineVars == <<mnBaseOffset, mbCommitted, mData, unfFirst, unfSecond,
              mnBufferData, elapsed>>
cacheVars == <<mOffsetToHTTPCacheLineMap, mMutex>>
vars == <<lineVars, cacheVars, pc, request, cacheLine, cursor, buffer, issued>>

Map == mOffsetToHTTPCacheLineMap
Lines == {Map[o] : o \in DOMAIN Map}        \* the lines the map refers to

Interval(first, second) == first .. (second - 1)    \* a tIntPair
Window(i) == Interval(mnBaseOffset[i], mnBaseOffset[i] + LineSize)
Wanted(r) == Interval(r.offset, r.offset + r.bytes)
Least(a, b) == IF a <= b THEN a ELSE b
Greatest(a, b) == IF a >= b THEN a ELSE b

\* Operators named Bug... are the definition that follows with one mistake in it;
\* no action uses them.  They show which property notices the mistake.

\* Mistake: the end of the file is not looked at.
BugUseCache(r) == r.bytes < LineSize

\* Read uses the cache for small requests that are not near the end of file.
UseCache(r) == r.bytes < LineSize /\ r.offset + LineSize < FileSize

\* Mistake: the end of the request is not looked at.
BugCovers(i, r) == mnBaseOffset[i] <= r.offset /\ r.offset < mnBaseOffset[i] + LineSize

\* The test of CheckOrReserve and of Get: a line satisfies a request.
Covers(i, r) ==
    /\ r.offset >= mnBaseOffset[i]
    /\ r.offset + r.bytes < mnBaseOffset[i] + LineSize

\* Mistake: nobody waits for the data.
BugReady(i) == i \in LineIds

\* The condition that Reserve and Get wait for.
Ready(i) == i \in mbCommitted

\* Since mFullfilledTime of a line that was never committed is the epoch, it
\* counts as the oldest: no committed line stays in the map for that long.
Epoch == MaxLines + 1

\* A thread holds a shared_ptr to a line from CheckOrReserve to its return.
Holders == {t \in Threads : pc[t] \in {"get", "reserve", "fetch", "commit"}}
InUse == Lines \cup {cacheLine[t] : t \in Holders}
NewLine == CHOOSE i \in LineIds : i \notin InUse

--------------------------------------------------------------------------------
Init ==
    /\ mnBaseOffset = [i \in LineIds |-> 0]
    /\ mbCommitted = {}
    /\ mData = [i \in LineIds |-> {}]
    /\ unfFirst = [i \in LineIds |-> 0]
    /\ unfSecond = [i \in LineIds |-> 0]
    /\ mnBufferData = [i \in LineIds |-> 0]
    /\ elapsed = [i \in LineIds |-> Epoch]
    /\ mOffsetToHTTPCacheLineMap = [o \in {} |-> 0]
    /\ mMutex = NoThread
    /\ pc = [t \in Threads |-> "idle"]
    /\ \E r \in Requests : request = [t \in Threads |-> r]
    /\ cacheLine = [t \in Threads |-> CHOOSE i \in LineIds : TRUE]
    /\ cursor = [t \in Threads |-> -1]
    /\ buffer = [t \in Threads |-> {}]
    /\ issued = [t \in Threads |-> 0]

\* A worker calls Read.
Call(t, r) ==
    /\ pc[t] = "idle"
    /\ issued[t] < MaxReads
    /\ pc' = [pc EXCEPT ![t] = IF UseCache(r) THEN "check" ELSE "direct"]
    /\ request' = [request EXCEPT ![t] = r]
    /\ buffer' = [buffer EXCEPT ![t] = {}]
    /\ issued' = [issued EXCEPT ![t] = @ + 1]
    /\ UNCHANGED <<lineVars, cacheVars, cacheLine, cursor>>

\* The request does not go through the cache: curl writes into the caller's
\* buffer, so a transfer that fails leaves there what had arrived.  A transfer
\* without an error is taken to bring the whole range; Read does not count the
\* bytes.  A request of no bytes asks the server for nothing and succeeds.
DirectRead(t) ==
    /\ pc[t] = "direct"
    /\ \/ /\ pc' = [pc EXCEPT ![t] = "ok"]
          /\ buffer' = [buffer EXCEPT ![t] = Wanted(request[t])]
       \/ /\ FetchMayFail /\ request[t].bytes > 0
          /\ pc' = [pc EXCEPT ![t] = "failed"]
          /\ \E received \in 0 .. request[t].bytes :
                buffer' = [buffer EXCEPT ![t] =
                   Interval(request[t].offset, request[t].offset + received)]
    /\ UNCHANGED <<lineVars, cacheVars, request, cacheLine, cursor, issued>>

--------------------------------------------------------------------------------
(* HTTPCache::CheckOrReserve *)

\* The loop over the map returns the first line, in the order of the offsets,
\* that satisfies the request.
CheckHit(t) ==
    /\ pc[t] = "check"
    /\ mMutex = NoThread
    /\ \E i \in Lines :
          /\ Covers(i, request[t])
          /\ \A j \in Lines : Covers(j, request[t]) => mnBaseOffset[i] <= mnBaseOffset[j]
          /\ cacheLine' = [cacheLine EXCEPT ![t] = i]
    /\ pc' = [pc EXCEPT ![t] = "get"]
    /\ UNCHANGED <<lineVars, cacheVars, request, cursor, buffer, issued>>

\* No line does: Reserve constructs one.  The mutex stays locked.
CheckMiss(t) ==
    /\ pc[t] = "check"
    /\ mMutex = NoThread
    /\ \A i \in Lines : ~Covers(i, request[t])
    /\ LineIds \ InUse # {}
    /\ mMutex' = t
    /\ cacheLine' = [cacheLine EXCEPT ![t] = NewLine]
    /\ mnBaseOffset' = [mnBaseOffset EXCEPT ![NewLine] = request[t].offset]
    /\ mbCommitted' = mbCommitted \ {NewLine}
    /\ mData' = [mData EXCEPT ![NewLine] = {}]
    /\ unfFirst' = [unfFirst EXCEPT ![NewLine] = request[t].offset]
    /\ unfSecond' = [unfSecond EXCEPT ![NewLine] = request[t].offset + LineSize]
    /\ mnBufferData' = [mnBufferData EXCEPT ![NewLine] = 0]
    /\ elapsed' = [elapsed EXCEPT ![NewLine] = Epoch]
    /\ cursor' = [cursor EXCEPT ![t] = -1]
    /\ pc' = [pc EXCEPT ![t] = "reserve"]
    /\ UNCHANGED <<mOffsetToHTTPCacheLineMap, request, buffer, issued>>

\* One iteration of Reserve's loop over the map: wait until the next line is
\* committed, then copy what it has of the new line's unfulfilled interval.

\* Mistakes: only lines that start behind the new one are visited; the iterator
\* is not advanced.
BugUnvisitedBehind(t) == {o \in DOMAIN Map : o > cursor[t] /\ o > request[t].offset}
BugUnvisitedAgain(t) == {o \in DOMAIN Map : o >= cursor[t]}

Unvisited(t) == {o \in DOMAIN Map : o > cursor[t]}

\* Mistake: the overlap is always taken from the front of the interval.
BugAtFront(i, first) == first >= unfFirst[i]

AtFront(i, first) == first = unfFirst[i]

CopyOverlap(i, e) ==
    LET first == Greatest(mnBaseOffset[e], unfFirst[i])
        second == Least(mnBaseOffset[e] + LineSize, unfSecond[i])
        usable == second - first
    IN  IF unfFirst[i] >= mnBaseOffset[e] + LineSize \/ mnBaseOffset[e] >= unfSecond[i]
        THEN UNCHANGED <<mData, unfFirst, unfSecond>>
        ELSE /\ mData' = [mData EXCEPT ![i] = @ \cup (mData[e] \cap Interval(first, second))]
             /\ IF AtFront(i, first)
                THEN /\ unfFirst' = [unfFirst EXCEPT ![i] = @ + usable]
                     /\ UNCHANGED unfSecond
                ELSE /\ unfSecond' = [unfSecond EXCEPT ![i] = @ - usable]
                     /\ UNCHANGED unfFirst

ReserveCopy(t) ==
    /\ pc[t] = "reserve"
    /\ \E o \in Unvisited(t) :
          /\ \A p \in Unvisited(t) : o <= p
          /\ Ready(Map[o])
          /\ CopyOverlap(cacheLine[t], Map[o])
          /\ cursor' = [cursor EXCEPT ![t] = o]
    /\ UNCHANGED <<mnBaseOffset, mbCommitted, mnBufferData, elapsed, cacheVars,
                   pc, request, cacheLine, buffer, issued>>

\* The while loop in front of a line that is not committed: the thread sleeps
\* and looks again, with the mutex locked.
ReserveWait(t) ==
    /\ pc[t] = "reserve"
    /\ \E o \in Unvisited(t) :
          /\ \A p \in Unvisited(t) : o <= p
          /\ ~Ready(Map[o])
    /\ UNCHANGED vars

\* The rest of Reserve: a full map gives up the line that was fulfilled the
\* longest ago among those with data, and grows if there is none.
Evictable == {o \in DOMAIN Map : mnBufferData[Map[o]] > 0}
Victims ==
    IF Cardinality(DOMAIN Map) >= MaxLines
    THEN {o \in Evictable : \A p \in Evictable : elapsed[Map[p]] <= elapsed[Map[o]]}
    ELSE {}

\* Mistake: the victim is not erased.
BugSurvivors == {DOMAIN Map}

Survivors == IF Victims = {} THEN {DOMAIN Map} ELSE {DOMAIN Map \ {o} : o \in Victims}

BufferData(i) == LineSize - (unfSecond[i] - unfFirst[i])

ReserveInsert(t) ==
    /\ pc[t] = "reserve"
    /\ Unvisited(t) = {}
    /\ mnBufferData' = [mnBufferData EXCEPT ![cacheLine[t]] = BufferData(cacheLine[t])]
    /\ \E survivors \in Survivors :
          mOffsetToHTTPCacheLineMap' =
             [o \in survivors \cup {request[t].offset} |->
                 IF o = request[t].offset THEN cacheLine[t] ELSE Map[o]]
    /\ mMutex' = NoThread
    /\ pc' = [pc EXCEPT ![t] = "fetch"]
    /\ UNCHANGED <<mnBaseOffset, mbCommitted, mData, unfFirst, unfSecond, elapsed,
                   request, cacheLine, cursor, buffer, issued>>

--------------------------------------------------------------------------------
(* The rest of cHTTPFile::Read, and HTTPCacheLine::Get and Commit *)

Missing(t) == Interval(unfFirst[cacheLine[t]], unfSecond[cacheLine[t]])

\* curl writes the missing bytes into the line.  When nothing is missing, curl
\* is not called.
Fetch(t) ==
    /\ pc[t] = "fetch"
    /\ mData' = [mData EXCEPT ![cacheLine[t]] = @ \cup Missing(t)]
    /\ pc' = [pc EXCEPT ![t] = "commit"]
    /\ UNCHANGED <<mnBaseOffset, mbCommitted, unfFirst, unfSecond, mnBufferData,
                   elapsed, cacheVars, request, cacheLine, cursor, buffer, issued>>

\* curl fails after it wrote some of the bytes: Read returns FALSE and leaves the
\* line in the map as it is, not committed.
FetchFail(t) ==
    /\ pc[t] = "fetch"
    /\ FetchMayFail
    /\ \E received \in Missing(t) :
          mData' = [mData EXCEPT
             ![cacheLine[t]] = @ \cup Interval(unfFirst[cacheLine[t]], received)]
    /\ pc' = [pc EXCEPT ![t] = "failed"]
    /\ UNCHANGED <<mnBaseOffset, mbCommitted, unfFirst, unfSecond, mnBufferData,
                   elapsed, cacheVars, request, cacheLine, cursor, buffer, issued>>

\* Read copies from the line to its caller, then Commit raises the flag.
Commit(t) ==
    LET i == cacheLine[t] IN
    /\ pc[t] = "commit"
    /\ buffer' = [buffer EXCEPT ![t] = Wanted(request[t]) \cap mData[i]]
    /\ elapsed' = [j \in LineIds |->
            IF j = i THEN 0
            ELSE elapsed[j] + (IF j \in Lines \cap mbCommitted THEN 1 ELSE 0)]
    /\ mnBufferData' = [mnBufferData EXCEPT ![i] = @ + (unfSecond[i] - unfFirst[i])]
    /\ unfFirst' = [unfFirst EXCEPT ![i] = 0]
    /\ unfSecond' = [unfSecond EXCEPT ![i] = 0]
    /\ mbCommitted' = mbCommitted \cup {i}
    /\ pc' = [pc EXCEPT ![t] = "ok"]
    /\ UNCHANGED <<mnBaseOffset, mData, cacheVars, request, cacheLine, cursor, issued>>

\* Get waits for the flag, then copies from the line.
Get(t) ==
    LET i == cacheLine[t] IN
    /\ pc[t] = "get"
    /\ Covers(i, request[t]) => Ready(i)
    /\ buffer' = [buffer EXCEPT
            ![t] = IF Covers(i, request[t]) THEN Wanted(request[t]) \cap mData[i] ELSE @]
    /\ pc' = [pc EXCEPT ![t] = "ok"]
    /\ UNCHANGED <<lineVars, cacheVars, request, cacheLine, cursor, issued>>

\* Get gives up after kSleepTimeOut and returns FALSE; Read does not look at that
\* and returns TRUE.
GetTimeOut(t) ==
    /\ pc[t] = "get"
    /\ GetMayTimeOut
    /\ ~Ready(cacheLine[t])
    /\ pc' = [pc EXCEPT ![t] = "ok"]
    /\ UNCHANGED <<lineVars, cacheVars, request, cacheLine, cursor, buffer, issued>>

\* The worker is back from Read and may call it again.
Return(t) ==
    /\ pc[t] \in {"ok", "failed"}
    /\ pc' = [pc EXCEPT ![t] = "idle"]
    /\ UNCHANGED <<lineVars, cacheVars, request, cacheLine, cursor, buffer, issued>>

\* Every worker has made all its reads.
Terminated ==
    /\ \A t \in Threads : pc[t] = "idle" /\ issued[t] = MaxReads
    /\ UNCHANGED vars

Read(t) ==
    \/ DirectRead(t)
    \/ CheckHit(t) \/ CheckMiss(t)
    \/ ReserveCopy(t) \/ ReserveWait(t) \/ ReserveInsert(t)
    \/ Fetch(t) \/ FetchFail(t) \/ Commit(t)
    \/ Get(t) \/ GetTimeOut(t)
    \/ Return(t)

Next ==
    \/ \E t \in Threads : Read(t) \/ \E r \in Requests : Call(t, r)
    \/ Terminated

\* The operating system runs every thread that can run.  MaxReads bounds how
\* often the others take the mutex, so a weakly fair lock is enough here.  That
\* curl answers or fails in the end is an assumption about the server: Read sets
\* no limit of time on a transfer.  No worker has to call Read.
Fairness == \A t \in Threads : WF_vars(Read(t))

Spec == Init /\ [][Next]_vars /\ Fairness

--------------------------------------------------------------------------------
(* Properties *)

PCs == {"idle", "direct", "check", "reserve", "get", "fetch", "commit", "ok", "failed"}

\* Every variable has its type: in particular the map's keys are offsets of the
\* file, and no line ever holds or awaits a byte past the end of the file, which
\* is what the end-of-file test in Read is for.
TypeOK ==
    /\ mnBaseOffset \in [LineIds -> Nat]
    /\ mbCommitted \subseteq LineIds
    /\ mData \in [LineIds -> SUBSET (0 .. FileSize - 1)]
    /\ unfFirst \in [LineIds -> 0 .. FileSize]
    /\ unfSecond \in [LineIds -> 0 .. FileSize]
    /\ mnBufferData \in [LineIds -> 0 .. LineSize]
    /\ elapsed \in [LineIds -> Nat]
    /\ DOMAIN Map \subseteq 0 .. FileSize
    /\ Map \in [DOMAIN Map -> LineIds]
    /\ mMutex \in Threads \cup {NoThread}
    /\ pc \in [Threads -> PCs]
    /\ request \in [Threads -> Requests]
    /\ cacheLine \in [Threads -> LineIds]
    /\ cursor \in [Threads -> Int]
    /\ buffer \in [Threads -> SUBSET Int]
    /\ issued \in [Threads -> 0 .. MaxReads]

\* At most one line of the map is being filled.  It is this, and not the test of
\* mnBufferData whose comment says so, that keeps a line whose data is pending
\* from being evicted: a pending line with copied data passes that test.
SinglePending ==
    \A i, j \in Lines : i \notin mbCommitted /\ j \notin mbCommitted => i = j

\* A committed line has every byte of its range, whatever pieces it was put
\* together from: copies from lines before and after it, and what curl fetched;
\* and the bytes it has counted are as many, which is the assertion at the end of
\* Commit that a release build leaves out.  That holds of the lines in the map and
\* of those that were evicted while a reader was about to copy from them.
CommittedComplete ==
    \A i \in mbCommitted : Window(i) \subseteq mData[i] /\ mnBufferData[i] = LineSize

\* The map never outgrows kMaxCacheLines: Reserve always finds a line to evict,
\* so its "Ran out of cache lines" is never printed.
Capacity == Cardinality(DOMAIN Map) <= MaxLines

\* What Reserve leaves to fetch is in no other line of the map: no byte that is
\* in the cache is requested from the server again.
NeverRefetch ==
    \A t \in Threads : pc[t] = "fetch" =>
       \A i \in Lines \ {cacheLine[t]} : Missing(t) \cap Window(i) = {}

\* A Read that returns TRUE has put the requested bytes in the caller's buffer.
ReadsDeliver ==
    \A t \in Threads : pc[t] = "ok" => Wanted(request[t]) \subseteq buffer[t]

\* A line leaves the map only after its data arrived: no step evicts, or puts
\* another line in the place of, a line that is not committed.
PendingStays ==
    [][\A o \in DOMAIN Map : Map[o] \notin mbCommitted =>
          o \in DOMAIN Map' /\ Map'[o] = Map[o]]_vars

\* Every call of Read returns to its caller.
EveryReadReturns == \A t \in Threads : pc[t] # "idle" ~> pc[t] = "idle"

\* The cache implements the file without a cache: whatever fails, a Read that
\* returns TRUE has copied all of the requested bytes or, after a time-out, none,
\* and one that returns FALSE has left at most a beginning of them behind.
File == INSTANCE RemoteFile WITH
    MayGiveUp <- GetMayTimeOut,
    status <- [t \in Threads |->
                  IF pc[t] \in {"idle", "ok", "failed"} THEN pc[t] ELSE "pending"]
RefinesFile == File!Spec

================================================================================
