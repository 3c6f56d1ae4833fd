---------------------------- MODULE HTTPCacheProofs ----------------------------
(***************************************************************************)
(* Proofs about HTTPCache for any number of threads, any file, line size   *)
(* and number of lines, and any requests.  The safety properties follow    *)
(* from one inductive invariant, IInv; the last part shows that each step  *)
(* of the cache is a step of RemoteFile or a stutter.                      *)
(***************************************************************************)
EXTENDS HTTPCache, FiniteSetTheorems, TLAPS

Owning == {"reserve", "fetch", "commit"}

\* The mutex belongs to the one thread that is inside Reserve.
MutexInv == \A t \in Threads : pc[t] = "reserve" <=> mMutex = t

\* A request that reached the cache is small and away from the end of the file.
RequestInv ==
    \A t \in Threads : pc[t] \in Owning \cup {"check", "get"} => UseCache(request[t])

\* The map refers to a line by the offset it starts at.
KeyInv == \A o \in DOMAIN Map : mnBaseOffset[Map[o]] = o

\* Whoever reserved a line starts it at its request, has not committed it, and
\* shares it with no other owner; the map does not have it before the
\* reservation is complete and has it from then on.
OwnerInv ==
    \A t \in Threads : pc[t] \in Owning =>
       /\ cacheLine[t] \notin mbCommitted
       /\ mnBaseOffset[cacheLine[t]] = request[t].offset
       /\ \A u \in Threads \ {t} :
             pc[u] \in Owning \cup {"get"} /\ cacheLine[u] = cacheLine[t] =>
                pc[u] = "get" /\ pc[t] # "reserve"
       /\ IF pc[t] = "reserve"
          THEN cacheLine[t] \notin Lines
          ELSE request[t].offset \in DOMAIN Map /\ Map[request[t].offset] = cacheLine[t]

\* The lines a reservation has visited are committed and have none of the bytes
\* that it still misses.
ScanInv ==
    \A t \in Threads : pc[t] = "reserve" =>
       \A o \in DOMAIN Map : o <= cursor[t] =>
          /\ Map[o] \in mbCommitted
          /\ unfSecond[cacheLine[t]] <= unfFirst[cacheLine[t]]
                \/ unfSecond[cacheLine[t]] <= o \/ o + LineSize <= unfFirst[cacheLine[t]]

\* The missing bytes of a reserved line are one interval of its window, and it
\* has all the others.
FillInv ==
    \A t \in Threads : pc[t] \in Owning =>
       LET i == cacheLine[t] IN
       /\ mnBaseOffset[i] <= unfFirst[i]
       /\ unfFirst[i] <= unfSecond[i]
       /\ unfSecond[i] <= mnBaseOffset[i] + LineSize
       /\ \A x \in Window(i) :
             x \in mData[i] \/ (pc[t] # "commit" /\ unfFirst[i] <= x /\ x < unfSecond[i])
       /\ pc[t] # "reserve" => mnBufferData[i] = LineSize - (unfSecond[i] - unfFirst[i])

\* Who was sent to a line by CheckOrReserve finds its request there.
GetInv == \A t \in Threads : pc[t] = "get" => Covers(cacheLine[t], request[t])

\* Either Get may give up, or every Read that returned TRUE delivered.
DeliverInv == GetMayTimeOut \/ ReadsDeliver

\* The two parts of CommittedComplete.
BytesComplete == \A i \in mbCommitted : Window(i) \subseteq mData[i]
CountComplete == \A i \in mbCommitted : mnBufferData[i] = LineSize

IInv ==
    /\ TypeOK /\ MutexInv /\ RequestInv /\ KeyInv /\ OwnerInv /\ ScanInv
    /\ FillInv /\ GetInv
    /\ SinglePending /\ BytesComplete /\ CountComplete /\ NeverRefetch
    /\ DeliverInv

USE DEF Map, cacheVars, lineVars, Ready, AtFront, BufferData

\* A request names bytes of the file's address range.
LEMMA RequestType ==
    ASSUME TypeOK, NEW t \in Threads
    PROVE  /\ request[t].offset \in Nat
           /\ request[t].bytes \in Nat
           /\ Wanted(request[t]) \subseteq Int
BY RequestAssumption DEF TypeOK, Wanted, Interval

LEMMA CallStep ==
    ASSUME IInv, NEW t \in Threads, NEW r \in Requests, Call(t, r)
    PROVE  IInv'
<1> USE DEF IInv, TypeOK, Call
<1>1. TypeOK' BY SizeAssumption DEF PCs
<1>2. (MutexInv /\ RequestInv /\ KeyInv)'
  BY DEF MutexInv, RequestInv, KeyInv, Owning
<1>3. OwnerInv' BY DEF OwnerInv, Owning, Lines
<1>4. (ScanInv /\ FillInv)'
  BY DEF ScanInv, FillInv, Owning, Window, Interval
<1>5. (GetInv /\ SinglePending /\ BytesComplete /\ CountComplete)'
  BY DEF GetInv, Covers, SinglePending, BytesComplete, CountComplete,
         Lines, Window, Interval
<1>6. (NeverRefetch /\ DeliverInv)'
  BY DEF NeverRefetch, DeliverInv, ReadsDeliver, Lines, Window, Interval, Missing
<1>7. QED BY <1>1, <1>2, <1>3, <1>4, <1>5, <1>6

LEMMA DirectReadStep ==
    ASSUME IInv, NEW t \in Threads, DirectRead(t)
    PROVE  IInv'
<1>1. pc[t] = "direct" /\ UNCHANGED <<lineVars, cacheVars, request, cacheLine, cursor, issued>>
  BY DEF DirectRead
<1>2. TypeOK BY DEF IInv
<1>3. PICK b \in SUBSET Int : buffer' = [buffer EXCEPT ![t] = b]
  <2>1. request[t].offset \in Int /\ request[t].bytes \in Nat /\ Wanted(request[t]) \subseteq Int
    BY <1>2, RequestType
  <2>2. \A n \in 0 .. request[t].bytes :
           Interval(request[t].offset, request[t].offset + n) \subseteq Int
    BY <2>1 DEF Interval
  <2>3. QED BY <2>1, <2>2 DEF DirectRead
<1>4. PICK s \in {"ok", "failed"} : pc' = [pc EXCEPT ![t] = s] BY DEF DirectRead
<1>5. s = "ok" => buffer' = [buffer EXCEPT ![t] = Wanted(request[t])]
  BY <1>2, <1>4 DEF DirectRead, TypeOK
<1> USE <1>1, <1>3, <1>4 DEF IInv, TypeOK
<1>6. TypeOK' BY DEF PCs
<1>7. (MutexInv /\ RequestInv /\ KeyInv)'
  BY DEF MutexInv, RequestInv, KeyInv, Owning
<1>8. OwnerInv' BY DEF OwnerInv, Owning, Lines
<1>9. (ScanInv /\ FillInv)'
  BY DEF ScanInv, FillInv, Owning, Window, Interval
<1>10. (GetInv /\ SinglePending /\ BytesComplete /\ CountComplete)'
  BY DEF GetInv, Covers, SinglePending, BytesComplete, CountComplete,
         Lines, Window, Interval
<1>11. NeverRefetch'
  <2>1. \A u \in Threads : pc'[u] = "fetch" => pc[u] = "fetch" OBVIOUS
  <2>2. QED BY <2>1 DEF NeverRefetch, Lines, Window, Interval, Missing
<1>12. DeliverInv' BY <1>5 DEF DeliverInv, ReadsDeliver
<1>13. QED BY <1>6, <1>7, <1>8, <1>9, <1>10, <1>11, <1>12

LEMMA CheckHitStep ==
    ASSUME IInv, NEW t \in Threads, CheckHit(t)
    PROVE  IInv'
<1> USE DEF IInv, TypeOK, CheckHit
<1>1. TypeOK' BY DEF PCs, Lines
<1>2. (MutexInv /\ RequestInv /\ KeyInv)'
  BY DEF MutexInv, RequestInv, KeyInv, Owning
<1>3. OwnerInv' BY DEF OwnerInv, Owning, Lines
<1>4. (ScanInv /\ FillInv)'
  BY DEF ScanInv, FillInv, Owning, Window, Interval
<1>5. (GetInv /\ SinglePending /\ BytesComplete /\ CountComplete)'
  BY DEF GetInv, Covers, SinglePending, BytesComplete, CountComplete,
         Lines, Window, Interval
<1>6. (NeverRefetch /\ DeliverInv)'
  BY SMTT(30) DEF NeverRefetch, DeliverInv, ReadsDeliver, Lines, Window, Interval, Missing
<1>7. QED BY <1>1, <1>2, <1>3, <1>4, <1>5, <1>6

LEMMA FetchFailStep ==
    ASSUME IInv, NEW t \in Threads, FetchFail(t)
    PROVE  IInv'
<1> USE DEF IInv, TypeOK, FetchFail
<1>0. Missing(t) \subseteq 0 .. FileSize - 1
  BY SizeAssumption DEF Missing, Interval
<1>1. TypeOK' BY <1>0 DEF PCs, Missing, Interval
<1>2. (MutexInv /\ RequestInv /\ KeyInv)'
  BY DEF MutexInv, RequestInv, KeyInv, Owning
<1>3. OwnerInv' BY DEF OwnerInv, Owning, Lines
<1>4. (ScanInv /\ FillInv)'
  BY DEF ScanInv, FillInv, Owning, Window, Interval
<1>5. (GetInv /\ SinglePending /\ BytesComplete /\ CountComplete)'
  BY DEF GetInv, Covers, SinglePending, BytesComplete, CountComplete,
         Lines, Window, Interval
<1>6. (NeverRefetch /\ DeliverInv)'
  BY SMTT(30) DEF NeverRefetch, DeliverInv, ReadsDeliver, Lines, Window, Interval, Missing
<1>7. QED BY <1>1, <1>2, <1>3, <1>4, <1>5, <1>6

LEMMA GetStep ==
    ASSUME IInv, NEW t \in Threads, Get(t)
    PROVE  IInv'
<1> USE DEF IInv, TypeOK, Get
<1>1. TypeOK' BY DEF PCs
<1>2. (MutexInv /\ RequestInv /\ KeyInv)'
  BY DEF MutexInv, RequestInv, KeyInv, Owning
<1>3. OwnerInv' BY DEF OwnerInv, Owning, Lines
<1>4. (ScanInv /\ FillInv)'
  BY DEF ScanInv, FillInv, Owning, Window, Interval
<1>5. (GetInv /\ SinglePending /\ BytesComplete /\ CountComplete)'
  BY DEF GetInv, Covers, SinglePending, BytesComplete, CountComplete,
         Lines, Window, Interval
<1>6. NeverRefetch' BY DEF NeverRefetch, Lines, Window, Interval, Missing
<1>7. DeliverInv'
  <2>1. Wanted(request[t]) \subseteq buffer'[t]
    <3>1. Covers(cacheLine[t], request[t]) BY DEF GetInv
    <3>2. Window(cacheLine[t]) \subseteq mData[cacheLine[t]]
      BY <3>1 DEF BytesComplete
    <3>3. Wanted(request[t]) \subseteq Window(cacheLine[t])
      BY <3>1, RequestType, SizeAssumption DEF Covers, Wanted, Window, Interval
    <3>4. QED BY <3>1, <3>2, <3>3
  <2>2. QED BY <2>1 DEF DeliverInv, ReadsDeliver
<1>8. QED BY <1>1, <1>2, <1>3, <1>4, <1>5, <1>6, <1>7

LEMMA GetTimeOutStep ==
    ASSUME IInv, NEW t \in Threads, GetTimeOut(t)
    PROVE  IInv'
<1> USE DEF IInv, TypeOK, GetTimeOut
<1>1. TypeOK' BY DEF PCs
<1>2. (MutexInv /\ RequestInv /\ KeyInv)'
  BY DEF MutexInv, RequestInv, KeyInv, Owning
<1>3. OwnerInv' BY DEF OwnerInv, Owning, Lines
<1>4. (ScanInv /\ FillInv)'
  BY DEF ScanInv, FillInv, Owning, Window, Interval
<1>5. (GetInv /\ SinglePending /\ BytesComplete /\ CountComplete)'
  BY DEF GetInv, Covers, SinglePending, BytesComplete, CountComplete,
         Lines, Window, Interval
<1>6. (NeverRefetch /\ DeliverInv)'
  BY SMTT(30) DEF NeverRefetch, DeliverInv, ReadsDeliver, Lines, Window, Interval, Missing
<1>7. QED BY <1>1, <1>2, <1>3, <1>4, <1>5, <1>6

LEMMA ReturnStep ==
    ASSUME IInv, NEW t \in Threads, Return(t)
    PROVE  IInv'
<1> USE DEF IInv, TypeOK, Return
<1>1. TypeOK' BY DEF PCs
<1>2. (MutexInv /\ RequestInv /\ KeyInv)'
  BY DEF MutexInv, RequestInv, KeyInv, Owning
<1>3. OwnerInv' BY DEF OwnerInv, Owning, Lines
<1>4. (ScanInv /\ FillInv)'
  BY DEF ScanInv, FillInv, Owning, Window, Interval
<1>5. (GetInv /\ SinglePending /\ BytesComplete /\ CountComplete)'
  BY DEF GetInv, Covers, SinglePending, BytesComplete, CountComplete,
         Lines, Window, Interval
<1>6. (NeverRefetch /\ DeliverInv)'
  BY DEF NeverRefetch, DeliverInv, ReadsDeliver, Lines, Window, Interval, Missing
<1>7. QED BY <1>1, <1>2, <1>3, <1>4, <1>5, <1>6

LEMMA CheckMissStep ==
    ASSUME IInv, NEW t \in Threads, CheckMiss(t)
    PROVE  IInv'
<1> DEFINE n == NewLine
<1> USE DEF IInv, TypeOK, CheckMiss
<1>1. n \in LineIds /\ n \notin InUse BY DEF NewLine
<1>2. n \notin Lines BY <1>1 DEF InUse
<1>3. \A u \in Threads : pc[u] \in Owning \cup {"get"} => cacheLine[u] # n
  BY <1>1 DEF InUse, Holders, Owning
<1>4. /\ request[t].offset \in Nat
      /\ request[t].offset + LineSize \in 0 .. FileSize
  BY RequestType, SizeAssumption DEF RequestInv, UseCache, Owning
<1>5. \A u \in Threads : pc[u] # "reserve" BY ThreadAssumption DEF MutexInv
<1> HIDE DEF n
<1>6. /\ mMutex' = t
      /\ cacheLine' = [cacheLine EXCEPT ![t] = n]
      /\ mnBaseOffset' = [mnBaseOffset EXCEPT ![n] = request[t].offset]
      /\ mbCommitted' = mbCommitted \ {n}
      /\ mData' = [mData EXCEPT ![n] = {}]
      /\ unfFirst' = [unfFirst EXCEPT ![n] = request[t].offset]
      /\ unfSecond' = [unfSecond EXCEPT ![n] = request[t].offset + LineSize]
      /\ mnBufferData' = [mnBufferData EXCEPT ![n] = 0]
      /\ elapsed' = [elapsed EXCEPT ![n] = Epoch]
      /\ cursor' = [cursor EXCEPT ![t] = -1]
      /\ pc' = [pc EXCEPT ![t] = "reserve"]
      /\ UNCHANGED <<mOffsetToHTTPCacheLineMap, request, buffer, issued>>
  BY DEF n
<1> HIDE DEF CheckMiss
<1>7. TypeOK'
  BY <1>1, <1>4, <1>6, SizeAssumption DEF PCs, Epoch
<1>8. (MutexInv /\ RequestInv)'
  BY <1>5, <1>6 DEF CheckMiss, MutexInv, RequestInv, Owning
<1>9. (KeyInv /\ SinglePending)'
  BY <1>2, <1>6 DEF KeyInv, SinglePending, Lines
<1>10. OwnerInv' BY <1>1, <1>2, <1>3, <1>5, <1>6 DEF CheckMiss, OwnerInv, Owning, Lines
<1>11. ScanInv' BY <1>4, <1>5, <1>6 DEF ScanInv
<1>12. FillInv'
  BY <1>1, <1>3, <1>4, <1>6, SizeAssumption DEF FillInv, Owning, Window, Interval
<1>13. (GetInv /\ BytesComplete /\ CountComplete)'
  BY <1>1, <1>3, <1>6
  DEF GetInv, Covers, BytesComplete, CountComplete, Window, Interval
<1>14. (NeverRefetch /\ DeliverInv)'
  BY <1>1, <1>2, <1>3, <1>6
  DEF NeverRefetch, DeliverInv, ReadsDeliver, Lines, Window, Interval, Missing, Owning
<1>15. QED BY <1>7, <1>8, <1>9, <1>10, <1>11, <1>12, <1>13, <1>14

LEMMA FetchStep ==
    ASSUME IInv, NEW t \in Threads, Fetch(t)
    PROVE  IInv'
<1> USE DEF IInv, TypeOK, Fetch
<1>1. Missing(t) \subseteq 0 .. FileSize - 1
  BY SizeAssumption DEF Missing, Interval
<1>2. TypeOK' BY <1>1 DEF PCs
<1>3. (MutexInv /\ RequestInv /\ KeyInv)'
  BY DEF MutexInv, RequestInv, KeyInv, Owning
<1>4. OwnerInv' BY DEF OwnerInv, Owning, Lines
<1>5. (ScanInv /\ FillInv)'
  BY DEF ScanInv, FillInv, OwnerInv, Owning, Window, Interval, Missing
<1>6. (GetInv /\ SinglePending /\ BytesComplete /\ CountComplete)'
  BY DEF GetInv, Covers, SinglePending, BytesComplete, CountComplete,
         Lines, Window, Interval
<1>7. NeverRefetch'
  <2>1. \A u \in Threads : pc'[u] = "fetch" => pc[u] = "fetch" OBVIOUS
  <2>2. QED BY <2>1, SMTT(30) DEF NeverRefetch, Lines, Window, Interval, Missing
<1>8. DeliverInv' BY DEF DeliverInv, ReadsDeliver
<1>9. QED BY <1>2, <1>3, <1>4, <1>5, <1>6, <1>7, <1>8

LEMMA CommitStep ==
    ASSUME IInv, NEW t \in Threads, Commit(t)
    PROVE  IInv'
<1> USE DEF IInv, TypeOK, Commit
<1>1. Window(cacheLine[t]) \subseteq mData[cacheLine[t]]
  BY DEF FillInv, Owning
<1>2. TypeOK'
  <2>1. mnBufferData[cacheLine[t]] + (unfSecond[cacheLine[t]] - unfFirst[cacheLine[t]])
           = LineSize
    BY SizeAssumption DEF FillInv, Owning
  <2>2. 0 \in 0 .. FileSize /\ LineSize \in 0 .. LineSize BY SizeAssumption
  <2>3. mnBufferData' \in [LineIds -> 0 .. LineSize] BY <2>1, <2>2
  <2>4. unfFirst' \in [LineIds -> 0 .. FileSize] /\ unfSecond' \in [LineIds -> 0 .. FileSize]
    BY <2>2
  <2>5. elapsed' \in [LineIds -> Nat] OBVIOUS
  <2>6. buffer' \in [Threads -> SUBSET Int] BY RequestType
  <2>7. QED BY <2>3, <2>4, <2>5, <2>6 DEF PCs
<1>3. (MutexInv /\ RequestInv /\ KeyInv)'
  BY DEF MutexInv, RequestInv, KeyInv, Owning
<1>4. OwnerInv' BY DEF OwnerInv, Owning, Lines
<1>5. (ScanInv /\ FillInv)'
  BY DEF ScanInv, FillInv, OwnerInv, Owning, Window, Interval, Missing
<1>6. (GetInv /\ SinglePending /\ BytesComplete)'
  BY <1>1 DEF GetInv, Covers, SinglePending, BytesComplete, Lines, Window, Interval
<1>7. CountComplete'
  BY SizeAssumption, SMTT(30) DEF CountComplete, FillInv, Owning
<1>8. NeverRefetch'
  BY DEF NeverRefetch, OwnerInv, Owning, Lines, Window, Interval, Missing
<1>9. DeliverInv'
  <2>1. Wanted(request[t]) \subseteq Window(cacheLine[t])
    BY RequestType, SizeAssumption
    DEF OwnerInv, RequestInv, UseCache, Owning, Wanted, Window, Interval
  <2>2. Wanted(request[t]) \subseteq buffer'[t] BY <1>1, <2>1
  <2>3. QED BY <2>2 DEF DeliverInv, ReadsDeliver
<1>10. QED BY <1>2, <1>3, <1>4, <1>5, <1>6, <1>7, <1>8, <1>9

\* One iteration of Reserve's loop cuts the visited line's bytes off one end of
\* the missing interval and has them copied, whichever way the lines overlap.
\* This needs lines of equal length, not the order in which they are visited.
LEMMA CopyOverlapCuts ==
    ASSUME IInv, NEW t \in Threads, NEW o \in DOMAIN Map, pc[t] = "reserve",
           Map[o] \in mbCommitted,
           NEW i, i = cacheLine[t], CopyOverlap(i, Map[o])
    PROVE  /\ mData' \in [LineIds -> SUBSET (0 .. FileSize - 1)]
           /\ unfFirst' \in [LineIds -> 0 .. FileSize]
           /\ unfSecond' \in [LineIds -> 0 .. FileSize]
           /\ \A j \in LineIds : mData[j] \subseteq mData'[j]
           /\ \A j \in LineIds \ {i} :
                 unfFirst'[j] = unfFirst[j] /\ unfSecond'[j] = unfSecond[j]
           /\ unfFirst[i] <= unfFirst'[i]
           /\ unfFirst'[i] <= unfSecond'[i]
           /\ unfSecond'[i] <= unfSecond[i]
           /\ \/ unfSecond'[i] <= unfFirst'[i]
              \/ unfSecond'[i] <= o
              \/ o + LineSize <= unfFirst'[i]
           /\ \A x \in Window(i) :
                 x \in mData'[i] \/ (unfFirst'[i] <= x /\ x < unfSecond'[i])
<1> DEFINE e == Map[o]
           first == Greatest(mnBaseOffset[e], unfFirst[i])
           second == Least(mnBaseOffset[e] + LineSize, unfSecond[i])
<1> USE DEF IInv, TypeOK
<1>1. /\ i \in LineIds /\ e \in LineIds
      /\ mnBaseOffset[e] = o /\ o \in Nat
      /\ Window(e) \subseteq mData[e]
  BY DEF KeyInv, BytesComplete
<1>2. /\ unfFirst[i] \in Nat /\ unfSecond[i] \in Nat /\ mnBaseOffset[i] \in Nat
      /\ unfSecond[i] <= FileSize
      /\ mnBaseOffset[i] <= unfFirst[i]
      /\ unfFirst[i] <= unfSecond[i]
      /\ unfSecond[i] <= mnBaseOffset[i] + LineSize
  BY SizeAssumption DEF FillInv, Owning
<1>a. \A x \in Window(i) : x \in mData[i] \/ (unfFirst[i] <= x /\ x < unfSecond[i])
  BY DEF FillInv, Owning
<1>b. FileSize \in Nat /\ LineSize \in Nat /\ LineSize > 0 BY SizeAssumption
<1>3. CASE unfFirst[i] >= o + LineSize \/ o >= unfSecond[i]
  <2>1. UNCHANGED <<mData, unfFirst, unfSecond>> BY <1>1, <1>3 DEF CopyOverlap
  <2>2. QED BY <1>1, <1>2, <1>3, <1>a, <1>b, <2>1
<1>4. CASE ~(unfFirst[i] >= o + LineSize \/ o >= unfSecond[i])
  <2>1. first = IF o >= unfFirst[i] THEN o ELSE unfFirst[i] BY <1>1 DEF Greatest
  <2>2. second = IF o + LineSize <= unfSecond[i] THEN o + LineSize ELSE unfSecond[i]
    BY <1>1 DEF Least
  <2>3. mData' = [mData EXCEPT ![i] = @ \cup (mData[e] \cap Interval(first, second))]
    BY <1>1, <1>4 DEF CopyOverlap
  <2>4. IF first = unfFirst[i]
        THEN /\ unfFirst' = [unfFirst EXCEPT ![i] = @ + (second - first)]
             /\ unfSecond' = unfSecond
        ELSE /\ unfFirst' = unfFirst
             /\ unfSecond' = [unfSecond EXCEPT ![i] = @ - (second - first)]
    BY <1>1, <1>4 DEF CopyOverlap
  <2> HIDE DEF first, second, e, IInv, TypeOK
  <2>5. /\ first \in Nat /\ second \in Nat
        /\ unfFirst[i] <= first /\ o <= first
        /\ first <= second /\ second <= unfSecond[i] /\ second <= o + LineSize
        /\ first = o \/ first = unfFirst[i]
        /\ second = o + LineSize \/ second = unfSecond[i]
    BY <1>1, <1>2, <1>4, <2>1, <2>2, SizeAssumption
  <2>6. Interval(first, second) \subseteq mData[e]
    BY <1>1, <2>5, SizeAssumption DEF Window, Interval
  <2>c. /\ mData \in [LineIds -> SUBSET (0 .. FileSize - 1)]
        /\ unfFirst \in [LineIds -> 0 .. FileSize]
        /\ unfSecond \in [LineIds -> 0 .. FileSize]
    BY DEF IInv, TypeOK
  <2>7. /\ mData' \in [LineIds -> SUBSET (0 .. FileSize - 1)]
        /\ \A j \in LineIds : mData[j] \subseteq mData'[j]
        /\ \A x \in Int : first <= x /\ x < second => x \in mData'[i]
    BY <1>1, <2>3, <2>5, <2>6, <2>c DEF Interval
  <2>8. CASE first = unfFirst[i]
    <3>1. unfFirst' = [unfFirst EXCEPT ![i] = second] /\ unfSecond' = unfSecond
      BY <1>2, <2>4, <2>5, <2>8
    <3>2. \A x \in Window(i) : x \in mData'[i] \/ (second <= x /\ x < unfSecond[i])
      BY <1>1, <1>2, <1>a, <1>b, <2>5, <2>7, <2>8 DEF Window, Interval
    <3>3. /\ second \in 0 .. FileSize
          /\ unfFirst[i] <= second
          /\ second <= unfSecond[i]
          /\ unfSecond[i] <= second \/ unfSecond[i] <= o \/ o + LineSize <= second
      BY <1>1, <1>2, <1>b, <2>5
    <3>4. /\ unfFirst' \in [LineIds -> 0 .. FileSize]
          /\ unfFirst'[i] = second
          /\ \A j \in LineIds \ {i} : unfFirst'[j] = unfFirst[j]
      BY <1>1, <2>c, <3>1, <3>3
    <3>5. QED BY <2>c, <2>7, <3>1, <3>2, <3>3, <3>4
  <2>9. CASE first # unfFirst[i]
    <3>1. second = unfSecond[i] BY <1>1, <1>2, <1>b, <2>5, <2>9
    <3>2. unfSecond' = [unfSecond EXCEPT ![i] = first] /\ unfFirst' = unfFirst
      BY <1>2, <2>4, <2>5, <2>9, <3>1
    <3>3. \A x \in Window(i) : x \in mData'[i] \/ (unfFirst[i] <= x /\ x < first)
      BY <1>1, <1>2, <1>a, <1>b, <2>5, <2>7, <3>1 DEF Window, Interval
    <3>4. /\ first \in 0 .. FileSize
          /\ unfFirst[i] <= first
          /\ first <= unfSecond[i]
          /\ first <= o \/ first <= unfFirst[i]
      BY <1>1, <1>2, <1>b, <2>5
    <3>5. /\ unfSecond' \in [LineIds -> 0 .. FileSize]
          /\ unfSecond'[i] = first
          /\ \A j \in LineIds \ {i} : unfSecond'[j] = unfSecond[j]
      BY <1>1, <2>c, <3>2, <3>4
    <3>6. unfFirst[i] <= unfFirst[i] BY <1>2
    <3>7. QED BY <2>c, <2>7, <3>2, <3>3, <3>4, <3>5, <3>6
  <2>10. QED BY <2>8, <2>9
<1>5. QED BY <1>3, <1>4

LEMMA ReserveCopyStep ==
    ASSUME IInv, NEW t \in Threads, ReserveCopy(t)
    PROVE  IInv'
<1> USE DEF IInv, TypeOK
<1>1. PICK o \in DOMAIN Map :
         /\ o \in Unvisited(t) /\ \A p \in Unvisited(t) : o <= p
         /\ Map[o] \in mbCommitted
         /\ CopyOverlap(cacheLine[t], Map[o])
         /\ cursor' = [cursor EXCEPT ![t] = o]
  BY DEF ReserveCopy, Unvisited
<1> DEFINE i == cacheLine[t]
<1>2. /\ pc[t] = "reserve"
      /\ UNCHANGED <<mnBaseOffset, mbCommitted, mnBufferData, elapsed, cacheVars,
                     pc, request, cacheLine, buffer, issued>>
  BY DEF ReserveCopy
<1>3. /\ mData' \in [LineIds -> SUBSET (0 .. FileSize - 1)]
      /\ unfFirst' \in [LineIds -> 0 .. FileSize]
      /\ unfSecond' \in [LineIds -> 0 .. FileSize]
      /\ \A j \in LineIds : mData[j] \subseteq mData'[j]
      /\ \A j \in LineIds \ {i} :
            unfFirst'[j] = unfFirst[j] /\ unfSecond'[j] = unfSecond[j]
      /\ unfFirst[i] <= unfFirst'[i]
      /\ unfFirst'[i] <= unfSecond'[i]
      /\ unfSecond'[i] <= unfSecond[i]
      /\ \/ unfSecond'[i] <= unfFirst'[i]
         \/ unfSecond'[i] <= o
         \/ o + LineSize <= unfFirst'[i]
      /\ \A x \in Window(i) :
            x \in mData'[i] \/ (unfFirst'[i] <= x /\ x < unfSecond'[i])
  BY <1>1, <1>2, CopyOverlapCuts
<1>4. \A u \in Threads \ {t} :
         /\ pc[u] # "reserve"
         /\ pc[u] \in Owning => cacheLine[u] # i
  BY <1>2, ThreadAssumption DEF MutexInv, OwnerInv, Owning
<1>5. i \in LineIds /\ i \notin Lines /\ i \notin mbCommitted
  BY <1>2 DEF OwnerInv, Owning
<1> HIDE DEF i
<1>6. TypeOK' BY <1>1, <1>2, <1>3
<1>7. (MutexInv /\ RequestInv /\ KeyInv /\ OwnerInv)'
  BY <1>2 DEF MutexInv, RequestInv, KeyInv, OwnerInv, Owning, Lines
<1>8. ScanInv'
  <2>1. \A p \in DOMAIN Map : p <= o => p <= cursor[t] \/ p = o
    <3> SUFFICES ASSUME NEW p \in DOMAIN Map, p <= o, ~(p <= cursor[t]) PROVE p = o
      OBVIOUS
    <3>1. p \in Int /\ o \in Int /\ cursor[t] \in Int OBVIOUS
    <3>2. p \in Unvisited(t) BY <3>1 DEF Unvisited
    <3>3. o <= p BY <1>1, <3>2
    <3> HIDE DEF IInv, TypeOK
    <3>4. QED BY <3>1, <3>3
  <2>2. ASSUME NEW p \in DOMAIN Map, p <= o
        PROVE  /\ Map[p] \in mbCommitted
               /\ \/ unfSecond'[i] <= unfFirst'[i]
                  \/ unfSecond'[i] <= p
                  \/ p + LineSize <= unfFirst'[i]
    <3>1. CASE p = o BY <1>1, <1>3, <3>1
    <3>2. CASE p <= cursor[t]
      <4>1. /\ Map[p] \in mbCommitted
            /\ \/ unfSecond[i] <= unfFirst[i]
               \/ unfSecond[i] <= p
               \/ p + LineSize <= unfFirst[i]
        BY <1>2, <3>2 DEF ScanInv, i
      <4>2. /\ unfFirst[i] \in Nat /\ unfSecond[i] \in Nat
            /\ unfFirst'[i] \in Nat /\ unfSecond'[i] \in Nat
            /\ p \in Nat /\ LineSize \in Nat
        BY <1>3, <1>5, SizeAssumption
      <4>3. QED BY <1>3, <4>1, <4>2
    <3>3. QED BY <2>1, <2>2, <3>1, <3>2
  <2>3. cursor'[t] = o BY <1>1
  <2>4. QED BY <1>2, <1>4, <2>2, <2>3 DEF ScanInv, i
<1>9. FillInv'
  <2>1. /\ mnBaseOffset[i] <= unfFirst[i]
        /\ unfSecond[i] <= mnBaseOffset[i] + LineSize
        /\ mnBaseOffset[i] \in Nat /\ LineSize \in Nat
        /\ unfFirst[i] \in Nat /\ unfSecond[i] \in Nat
        /\ unfFirst'[i] \in Nat /\ unfSecond'[i] \in Nat
    BY <1>2, <1>3, <1>5, SizeAssumption DEF FillInv, Owning, i
  <2>2. /\ mnBaseOffset[i] <= unfFirst'[i]
        /\ unfSecond'[i] <= mnBaseOffset[i] + LineSize
    BY <1>3, <2>1
  <2>3. i' = i /\ \A j \in LineIds : Window(j)' = Window(j) BY <1>2 DEF Window, i
  <2>4. \A u \in Threads : pc[u] \in Owning => u = t \/ cacheLine[u] # i BY <1>4
  <2>5. QED BY <1>2, <1>3, <2>2, <2>3, <2>4 DEF FillInv, Owning, Window, Interval, i
<1>10. (GetInv /\ SinglePending /\ CountComplete /\ DeliverInv)'
  BY <1>2 DEF GetInv, Covers, SinglePending, CountComplete, DeliverInv,
              ReadsDeliver, Lines
<1>11. BytesComplete'
  BY <1>2, <1>3 DEF BytesComplete, Window, Interval
<1>12. NeverRefetch'
  BY <1>2, <1>3, <1>4 DEF NeverRefetch, Lines, Window, Interval, Missing, Owning
<1>13. QED BY <1>6, <1>7, <1>8, <1>9, <1>10, <1>11, <1>12

LEMMA ReserveInsertStep ==
    ASSUME IInv, NEW t \in Threads, ReserveInsert(t)
    PROVE  IInv'
<1> USE DEF IInv, TypeOK
<1> DEFINE i == cacheLine[t]
           base == request[t].offset
<1>1. PICK kept \in SUBSET (DOMAIN Map) :
         Map' = [o \in kept \cup {base} |-> IF o = base THEN i ELSE Map[o]]
  BY DEF ReserveInsert, Survivors, Victims
<1>2. /\ pc[t] = "reserve" /\ pc' = [pc EXCEPT ![t] = "fetch"]
      /\ mnBufferData' =
            [mnBufferData EXCEPT ![i] = LineSize - (unfSecond[i] - unfFirst[i])]
      /\ mMutex' = NoThread
      /\ UNCHANGED <<mnBaseOffset, mbCommitted, mData, unfFirst, unfSecond, elapsed,
                     request, cacheLine, cursor, buffer, issued>>
  BY DEF ReserveInsert
<1>3. \A o \in DOMAIN Map :
         /\ Map[o] \in mbCommitted
         /\ \/ unfSecond[i] <= unfFirst[i]
            \/ unfSecond[i] <= o
            \/ o + LineSize <= unfFirst[i]
  <2>1. \A o \in DOMAIN Map : o <= cursor[t]
    BY SizeAssumption DEF ReserveInsert, Unvisited
  <2>2. QED BY <1>2, <2>1 DEF ScanInv
<1>4. /\ i \in LineIds /\ i \notin Lines /\ i \notin mbCommitted
      /\ mnBaseOffset[i] = base /\ base \in 0 .. FileSize
  BY <1>2, RequestType, SizeAssumption DEF OwnerInv, RequestInv, UseCache, Owning
<1>5. \A u \in Threads \ {t} :
         pc[u] \notin Owning /\ (pc[u] = "get" => cacheLine[u] # i)
  <2>1. ASSUME NEW u \in Threads \ {t}, pc[u] \in {"fetch", "commit"} PROVE FALSE
    BY <1>3, <2>1 DEF OwnerInv, Owning
  <2>2. QED BY <1>2, <2>1, ThreadAssumption DEF OwnerInv, Owning, MutexInv
<1>6. /\ DOMAIN Map' = kept \cup {base}
      /\ Map'[base] = i
      /\ \A o \in DOMAIN Map' : o # base => o \in DOMAIN Map /\ Map'[o] = Map[o]
  BY <1>1
<1>7. /\ unfFirst[i] \in Nat /\ unfSecond[i] \in Nat /\ mnBaseOffset[i] \in Nat
      /\ LineSize \in Nat
      /\ mnBaseOffset[i] <= unfFirst[i] /\ unfFirst[i] <= unfSecond[i]
      /\ unfSecond[i] <= mnBaseOffset[i] + LineSize
      /\ \A x \in Window(i) : x \in mData[i] \/ (unfFirst[i] <= x /\ x < unfSecond[i])
  BY <1>2, <1>4, SizeAssumption DEF FillInv, Owning
<1> HIDE DEF i, base
<1>8. TypeOK'
  <2>1. LineSize - (unfSecond[i] - unfFirst[i]) \in 0 .. LineSize BY <1>7
  <2>2. DOMAIN Map' \subseteq 0 .. FileSize BY <1>1, <1>4
  <2>3. Map' \in [DOMAIN Map' -> LineIds] BY <1>1, <1>4
  <2>4. QED BY <1>2, <2>1, <2>2, <2>3 DEF PCs
<1>9. (MutexInv /\ RequestInv)'
  BY <1>2, <1>5, ThreadAssumption DEF MutexInv, RequestInv, Owning
<1>10. KeyInv' BY <1>2, <1>4, <1>6 DEF KeyInv
<1>11. OwnerInv' BY <1>2, <1>4, <1>5, <1>6 DEF OwnerInv, Owning, i, base
<1>12. (ScanInv /\ FillInv)'
  BY <1>2, <1>4, <1>5, <1>7 DEF ScanInv, FillInv, Owning, Window, Interval, i
<1>13. (GetInv /\ BytesComplete /\ CountComplete /\ DeliverInv)'
  BY <1>2, <1>4 DEF GetInv, Covers, BytesComplete, CountComplete, DeliverInv,
                    ReadsDeliver, Window, Interval
<1>14. SinglePending' BY <1>2, <1>3, <1>6 DEF SinglePending, Lines
<1>15. NeverRefetch'
  <2>1. ASSUME NEW u \in Threads, pc'[u] = "fetch", NEW o \in DOMAIN Map',
               Map'[o] # cacheLine[u]
        PROVE  (Missing(u) \cap Window(Map[o]))' = {}
    <3>1. u = t BY <1>2, <1>5, <2>1 DEF Owning
    <3>2. o # base BY <1>6, <2>1, <3>1 DEF i
    <3>3. o \in DOMAIN Map /\ Map'[o] = Map[o] /\ mnBaseOffset[Map[o]] = o /\ o \in Nat
      BY <1>6, <2>1, <3>2 DEF KeyInv
    <3>4. Missing(u)' = Interval(unfFirst[i], unfSecond[i])
      BY <1>2, <3>1 DEF Missing, i
    <3>5. Window(Map[o])' = Interval(o, o + LineSize) BY <1>2, <3>3 DEF Window
    <3>6. \/ unfSecond[i] <= unfFirst[i]
          \/ unfSecond[i] <= o
          \/ o + LineSize <= unfFirst[i]
      BY <1>3, <3>3
    <3>7. Interval(unfFirst[i], unfSecond[i]) \cap Interval(o, o + LineSize) = {}
      BY <1>7, <3>3, <3>6 DEF Interval
    <3>8. QED BY <3>4, <3>5, <3>7
  <2>2. QED BY <1>2, <2>1 DEF NeverRefetch, Lines
<1>16. QED BY <1>8, <1>9, <1>10, <1>11, <1>12, <1>13, <1>14, <1>15

--------------------------------------------------------------------------------
LEMMA InitInv == Init => IInv
<1> SUFFICES ASSUME Init PROVE IInv OBVIOUS
<1> USE DEF Init
<1>1. DOMAIN Map = {} OBVIOUS
<1>2. TypeOK BY SizeAssumption, LineAssumption, <1>1 DEF TypeOK, PCs, Epoch
<1>3. (KeyInv /\ SinglePending) BY <1>1 DEF KeyInv, SinglePending, Lines
<1>4. (MutexInv /\ RequestInv /\ OwnerInv /\ ScanInv /\ FillInv /\ GetInv)
  BY ThreadAssumption
  DEF MutexInv, RequestInv, OwnerInv, ScanInv, FillInv, GetInv, Owning
<1>5. (BytesComplete /\ CountComplete /\ NeverRefetch /\ DeliverInv)
  BY DEF BytesComplete, CountComplete, NeverRefetch, DeliverInv, ReadsDeliver
<1>6. QED BY <1>2, <1>3, <1>4, <1>5 DEF IInv

LEMMA StutterStep == IInv /\ UNCHANGED vars => IInv'
<1> SUFFICES ASSUME IInv, UNCHANGED vars PROVE IInv' OBVIOUS
<1> USE DEF IInv, vars
<1>1. TypeOK' BY DEF TypeOK
<1>2. (MutexInv /\ RequestInv /\ KeyInv /\ OwnerInv)'
  BY DEF MutexInv, RequestInv, KeyInv, OwnerInv, Lines
<1>3. (ScanInv /\ FillInv /\ GetInv)'
  BY DEF ScanInv, FillInv, GetInv, Covers, Window, Interval
<1>4. (SinglePending /\ BytesComplete /\ CountComplete)'
  BY DEF SinglePending, BytesComplete, CountComplete, Lines, Window, Interval
<1>5. (NeverRefetch /\ DeliverInv)'
  BY DEF NeverRefetch, DeliverInv, ReadsDeliver, Lines, Window, Interval, Missing
<1>6. QED BY <1>1, <1>2, <1>3, <1>4, <1>5

LEMMA NextInv == IInv /\ [Next]_vars => IInv'
<1> SUFFICES ASSUME IInv, [Next]_vars PROVE IInv' OBVIOUS
<1>1. CASE UNCHANGED vars BY <1>1, StutterStep
<1>2. CASE Terminated BY <1>2, StutterStep DEF Terminated
<1>3. ASSUME NEW t \in Threads, NEW r \in Requests, Call(t, r) PROVE IInv'
  BY <1>3, CallStep
<1>4. ASSUME NEW t \in Threads, Read(t) PROVE IInv'
  <2>1. CASE DirectRead(t) BY <2>1, DirectReadStep
  <2>2. CASE CheckHit(t) BY <2>2, CheckHitStep
  <2>3. CASE CheckMiss(t) BY <2>3, CheckMissStep
  <2>4. CASE ReserveCopy(t) BY <2>4, ReserveCopyStep
  <2>5. CASE ReserveWait(t) BY <2>5, StutterStep DEF ReserveWait
  <2>6. CASE ReserveInsert(t) BY <2>6, ReserveInsertStep
  <2>7. CASE Fetch(t) BY <2>7, FetchStep
  <2>8. CASE FetchFail(t) BY <2>8, FetchFailStep
  <2>9. CASE Commit(t) BY <2>9, CommitStep
  <2>10. CASE Get(t) BY <2>10, GetStep
  <2>11. CASE GetTimeOut(t) BY <2>11, GetTimeOutStep
  <2>12. CASE Return(t) BY <2>12, ReturnStep
  <2>13. QED
    BY <1>4, <2>1, <2>2, <2>3, <2>4, <2>5, <2>6, <2>7, <2>8, <2>9, <2>10, <2>11,
       <2>12 DEF Read
<1>5. QED BY <1>1, <1>2, <1>3, <1>4 DEF Next

LEMMA Invariance == Spec => []IInv
BY InitInv, NextInv, PTL DEF Spec

\* Every variable keeps its type; no line holds or awaits a byte past the end of
\* the file, for any file size, line size and requests.
THEOREM TypeCorrect == Spec => []TypeOK
<1>1. IInv => TypeOK BY DEF IInv
<1>2. QED BY <1>1, Invariance, PTL

\* However many threads share the cache, Reserve never adds a line while another
\* one is still being filled.
THEOREM OnePendingLine == Spec => []SinglePending
<1>1. IInv => SinglePending BY DEF IInv
<1>2. QED BY <1>1, Invariance, PTL

\* The copies from overlapping lines and the fetched interval always add up to
\* the whole line, and the assertion of the debug build in Commit cannot fail.
THEOREM LinesComplete == Spec => []CommittedComplete
<1>1. IInv => CommittedComplete
  BY DEF IInv, BytesComplete, CountComplete, CommittedComplete
<1>2. QED BY <1>1, Invariance, PTL

--------------------------------------------------------------------------------
(* The map keeps its limit. *)

\* A finite set has a member with the greatest value of a function to Nat: one above
\* which the fewest others are.
LEMMA GreatestOfFinite ==
    ASSUME NEW S, IsFiniteSet(S), S # {}, NEW f \in [S -> Nat]
    PROVE  \E x \in S : \A y \in S : f[y] <= f[x]
<1> DEFINE Above(x) == {y \in S : f[y] > f[x]}
           T == {Above(x) : x \in S}
<1>1. T \subseteq FiniteSubsetsOf(S)
  BY FS_Subset DEF FiniteSubsetsOf
<1>2. T # {}
  <2>1. PICK x : x \in S OBVIOUS
  <2>2. Above(x) \in T BY <2>1
  <2>3. QED BY <2>2
<1>3. PICK t \in T : \A u \in T : <<u, t>> \notin StrictSubsetOrdering(S)
  <2> HIDE DEF T
  <2> QED BY <1>1, <1>2, FS_StrictSubsetOrderingWellFounded, WFMin
<1>4. PICK x \in S : t = Above(x) OBVIOUS
<1>5. ASSUME NEW y \in S, ~(f[y] <= f[x]) PROVE FALSE
  <2>1. f[y] > f[x] /\ f[x] \in Nat /\ f[y] \in Nat BY <1>5
  <2>2. y \in Above(x) /\ y \notin Above(y) /\ Above(y) \subseteq Above(x) BY <2>1
  <2>3. Above(y) \subseteq S /\ Above(x) \subseteq S OBVIOUS
  <2>4. <<Above(y), Above(x)>> \in StrictSubsetOrdering(S)
    BY <2>2, <2>3 DEF StrictSubsetOrdering
  <2>5. QED BY <1>3, <1>4, <2>4
<1>6. QED BY <1>5

MapIsBounded == IsFiniteSet(DOMAIN Map) /\ Capacity

\* In a full map, when all its lines are committed, there is a line to give up.
LEMMA VictimExists ==
    ASSUME IInv, IsFiniteSet(DOMAIN Map), Cardinality(DOMAIN Map) >= MaxLines,
           \A o \in DOMAIN Map : Map[o] \in mbCommitted
    PROVE  Victims # {} /\ Victims \subseteq DOMAIN Map
<1> DEFINE f == [o \in DOMAIN Map |-> elapsed[Map[o]]]
<1>1. \A o \in DOMAIN Map : mnBufferData[Map[o]] > 0
  BY SizeAssumption DEF IInv, CountComplete
<1>2. Evictable = DOMAIN Map BY <1>1 DEF Evictable
<1>3. DOMAIN Map # {} BY FS_EmptySet, SizeAssumption
<1>4. f \in [DOMAIN Map -> Nat] BY DEF IInv, TypeOK
<1>5. PICK x \in DOMAIN Map : \A y \in DOMAIN Map : f[y] <= f[x]
  <2> HIDE DEF f
  <2> QED BY <1>3, <1>4, GreatestOfFinite
<1>6. x \in Victims BY <1>2, <1>5 DEF Victims
<1>7. QED BY <1>6 DEF Victims, Evictable

LEMMA NextBounded == IInv /\ MapIsBounded /\ [Next]_vars => MapIsBounded'
<1> SUFFICES ASSUME IInv, MapIsBounded, [Next]_vars PROVE MapIsBounded' OBVIOUS
<1>1. ASSUME NEW t \in Threads, ReserveInsert(t) PROVE MapIsBounded'
  <2> DEFINE base == request[t].offset
  <2>1. \A o \in DOMAIN Map : Map[o] \in mbCommitted
    <3>1. \A o \in DOMAIN Map : o <= cursor[t]
      BY <1>1, SizeAssumption DEF ReserveInsert, Unvisited, IInv, TypeOK
    <3>2. QED BY <1>1, <3>1 DEF ReserveInsert, ScanInv, IInv
  <2>2. PICK kept \in Survivors : DOMAIN Map' = kept \cup {base}
    BY <1>1 DEF ReserveInsert
  <2>3. /\ IsFiniteSet(DOMAIN Map) /\ Cardinality(DOMAIN Map) <= MaxLines
        /\ Cardinality(DOMAIN Map) \in Nat /\ MaxLines \in Nat
    BY FS_CardinalityType, SizeAssumption DEF MapIsBounded, Capacity
  <2>4. IsFiniteSet(kept) /\ Cardinality(kept) + 1 <= MaxLines
    <3>1. CASE Cardinality(DOMAIN Map) >= MaxLines
      <4>1. PICK o \in DOMAIN Map : kept = DOMAIN Map \ {o}
        BY <2>1, <2>2, <2>3, <3>1, VictimExists DEF Survivors
      <4>2. IsFiniteSet(kept) /\ Cardinality(kept) = Cardinality(DOMAIN Map) - 1
        BY <2>3, <4>1, FS_RemoveElement
      <4>3. QED BY <2>3, <4>2
    <3>2. CASE ~(Cardinality(DOMAIN Map) >= MaxLines)
      <4>1. kept = DOMAIN Map BY <2>2, <3>2 DEF Survivors, Victims
      <4>2. QED BY <2>3, <3>2, <4>1
    <3>3. QED BY <3>1, <3>2
  <2>5. Cardinality(kept) \in Nat BY <2>4, FS_CardinalityType
  <2>6. /\ IsFiniteSet(kept \cup {base})
        /\ Cardinality(kept \cup {base}) <= Cardinality(kept) + 1
    BY <2>4, <2>5, FS_AddElement
  <2>7. Cardinality(kept \cup {base}) \in Nat BY <2>6, FS_CardinalityType
  <2>8. QED BY <2>2, <2>3, <2>4, <2>5, <2>6, <2>7 DEF MapIsBounded, Capacity
<1>2. ASSUME UNCHANGED Map PROVE MapIsBounded'
  BY <1>2 DEF MapIsBounded, Capacity
<1>3. ASSUME NEW t \in Threads, Read(t), ~ReserveInsert(t) PROVE UNCHANGED Map
  BY <1>3 DEF Read, DirectRead, CheckHit, CheckMiss, ReserveCopy, ReserveWait, Fetch, FetchFail,
              Commit, Get, GetTimeOut, Return, vars
<1>4. ASSUME NEW t \in Threads, NEW r \in Requests, Call(t, r) PROVE UNCHANGED Map
  BY <1>4 DEF Call
<1>5. CASE Terminated \/ UNCHANGED vars
  BY <1>2, <1>5 DEF Terminated, vars
<1>6. QED BY <1>1, <1>2, <1>3, <1>4, <1>5 DEF Next

\* The map never outgrows its limit: when a line is added all the others are
\* committed, so one of them can go.
THEOREM MapKeepsLimit == Spec => []Capacity
<1>1. Init => MapIsBounded
  <2> SUFFICES ASSUME Init PROVE MapIsBounded OBVIOUS
  <2>1. DOMAIN Map = {} BY DEF Init
  <2>2. QED BY <2>1, FS_EmptySet, SizeAssumption DEF MapIsBounded, Capacity
<1>2. MapIsBounded => Capacity BY DEF MapIsBounded
<1>3. QED BY <1>1, <1>2, NextBounded, Invariance, PTL DEF Spec

--------------------------------------------------------------------------------
\* What a reservation fetches is disjoint from every other line of the map.
THEOREM NothingRefetched == Spec => []NeverRefetch
<1>1. IInv => NeverRefetch BY DEF IInv
<1>2. QED BY <1>1, Invariance, PTL

\* When no line stays uncommitted for longer than the time-out, a Read that
\* returns TRUE has delivered all the requested bytes.
THEOREM ReadsAreDelivered == ASSUME ~GetMayTimeOut PROVE Spec => []ReadsDeliver
<1>1. IInv => ReadsDeliver BY DEF IInv, DeliverInv
<1>2. QED BY <1>1, Invariance, PTL

--------------------------------------------------------------------------------
\* Only ReserveInsert removes or replaces a line of the map, and then all its
\* lines are committed: eviction never takes a line that is being filled.
THEOREM EvictionSparesPending == Spec => PendingStays
<1> DEFINE Stays == \A o \in DOMAIN Map : Map[o] \notin mbCommitted =>
                       o \in DOMAIN Map' /\ Map'[o] = Map[o]
<1>1. ASSUME IInv, [Next]_vars PROVE Stays
  <2>1. ASSUME NEW t \in Threads, ReserveInsert(t) PROVE Stays
    <3>1. \A o \in DOMAIN Map : o <= cursor[t]
      BY <1>1, <2>1, SizeAssumption DEF ReserveInsert, Unvisited, IInv, TypeOK
    <3>2. QED BY <1>1, <2>1, <3>1 DEF ReserveInsert, ScanInv, IInv
  <2>2. CASE UNCHANGED mOffsetToHTTPCacheLineMap BY <2>2
  <2>3. \/ UNCHANGED mOffsetToHTTPCacheLineMap
        \/ \E t \in Threads : ReserveInsert(t)
    BY <1>1 DEF Next, Read, Terminated, vars, Call, DirectRead, CheckHit, CheckMiss,
       ReserveCopy, ReserveWait, Fetch, FetchFail, Commit, Get, GetTimeOut, Return
  <2>4. QED BY <2>1, <2>2, <2>3
<1>2. QED BY <1>1, Invariance, PTL DEF Spec, PendingStays

--------------------------------------------------------------------------------
(* The cache implements RemoteFile. *)

\* Nothing is in the buffer of a read that was not answered yet.
EmptyInv == \A t \in Threads : pc[t] \notin {"idle", "ok", "failed"} => buffer[t] = {}

LEMMA EmptyStep == IInv /\ EmptyInv /\ [Next]_vars => EmptyInv'
<1> SUFFICES ASSUME IInv, EmptyInv, [Next]_vars PROVE EmptyInv' OBVIOUS
<1>1. TypeOK BY DEF IInv
<1> HIDE DEF IInv, EmptyInv
<1>2. CASE UNCHANGED vars BY <1>2 DEF vars, EmptyInv
<1>3. CASE Terminated BY <1>3 DEF Terminated, vars, EmptyInv
<1>4. ASSUME NEW t \in Threads, NEW r \in Requests, Call(t, r) PROVE EmptyInv'
  BY <1>1, <1>4 DEF Call, TypeOK, EmptyInv
<1>5. ASSUME NEW t \in Threads, Read(t) PROVE EmptyInv'
  <2>1. CASE DirectRead(t)
    <3>1. pc' \in {[pc EXCEPT ![t] = "ok"], [pc EXCEPT ![t] = "failed"]}
          /\ \E b : buffer' = [buffer EXCEPT ![t] = b]
      BY <2>1 DEF DirectRead
    <3>2. QED BY <1>1, <3>1 DEF TypeOK, EmptyInv
  <2>2. CASE CheckHit(t) \/ CheckMiss(t) \/ ReserveInsert(t) \/ Fetch(t) \/ FetchFail(t)
    <3>1. \E s \in PCs : pc' = [pc EXCEPT ![t] = s]
          /\ pc[t] \notin {"idle", "ok", "failed"} /\ UNCHANGED buffer
      BY <2>2 DEF CheckHit, CheckMiss, ReserveInsert, Fetch, FetchFail, PCs
    <3>2. QED BY <1>1, <3>1 DEF TypeOK, EmptyInv
  <2>3. CASE ReserveCopy(t) \/ ReserveWait(t)
    <3>1. UNCHANGED <<pc, buffer>> BY <2>3 DEF ReserveCopy, ReserveWait, vars
    <3>2. QED BY <3>1 DEF EmptyInv
  <2>4. CASE Commit(t) \/ Get(t) \/ GetTimeOut(t) \/ Return(t)
    <3>1. pc' \in {[pc EXCEPT ![t] = "ok"], [pc EXCEPT ![t] = "idle"]}
          /\ \A u \in Threads \ {t} : buffer'[u] = buffer[u]
      BY <1>1, <2>4 DEF Commit, Get, GetTimeOut, Return, TypeOK
    <3>2. QED BY <1>1, <3>1 DEF TypeOK, EmptyInv
  <2>5. QED BY <1>5, <2>1, <2>2, <2>3, <2>4 DEF Read
<1>6. QED BY <1>2, <1>3, <1>4, <1>5 DEF Next

Status == [t \in Threads |-> IF pc[t] \in {"idle", "ok", "failed"} THEN pc[t] ELSE "pending"]

\* A step that answers a read with TRUE and fills its buffer.
LEMMA AnswerMapped ==
    ASSUME TypeOK, NEW t \in Threads, pc[t] \notin {"idle", "ok", "failed"},
           pc' = [pc EXCEPT ![t] = "ok"],
           buffer' = [buffer EXCEPT ![t] = Wanted(request[t])],
           UNCHANGED request
    PROVE  File!Answer(t)
<1>1. Status[t] = "pending" /\ Status' = [Status EXCEPT ![t] = "ok"]
  BY DEF Status, TypeOK
<1>2. File!Wanted(request[t]) = Wanted(request[t])
  BY RequestType DEF File!Wanted, Wanted, Interval
<1>3. QED BY <1>1, <1>2 DEF Status, File!Answer

\* A step that answers a read with FALSE and leaves the first n bytes behind.
LEMMA RefuseMapped ==
    ASSUME TypeOK, NEW t \in Threads, pc[t] \notin {"idle", "ok", "failed"},
           pc' = [pc EXCEPT ![t] = "failed"],
           NEW n \in 0 .. request[t].bytes,
           buffer' = [buffer EXCEPT ![t] =
              Interval(request[t].offset, request[t].offset + n)],
           UNCHANGED request
    PROVE  File!Refuse(t)
<1>1. Status[t] = "pending" /\ Status' = [Status EXCEPT ![t] = "failed"]
  BY DEF Status, TypeOK
<1>2. File!Beginning(request[t], n)
         = Interval(request[t].offset, request[t].offset + n)
  BY RequestType DEF File!Beginning, Interval
<1>3. QED BY <1>1, <1>2 DEF Status, File!Refuse

\* A step between a read's call and its answer.
LEMMA PendingMapped ==
    ASSUME TypeOK, NEW t \in Threads, NEW s \in PCs \ {"idle", "ok", "failed"},
           pc[t] \notin {"idle", "ok", "failed"},
           pc' = [pc EXCEPT ![t] = s],
           UNCHANGED <<request, buffer>>
    PROVE  UNCHANGED File!fileVars
<1>1. Status' = Status BY DEF Status, TypeOK
<1>2. QED BY <1>1 DEF Status, File!fileVars

LEMMA StepMapped == IInv /\ EmptyInv /\ [Next]_vars => [File!Next]_(File!fileVars)
<1> SUFFICES ASSUME IInv, EmptyInv, [Next]_vars PROVE [File!Next]_(File!fileVars) OBVIOUS
<1> USE DEF IInv
<1>1. CASE UNCHANGED vars BY <1>1 DEF vars, File!fileVars
<1>2. CASE Terminated BY <1>2 DEF Terminated, vars, File!fileVars
<1>3. ASSUME NEW t \in Threads, NEW r \in Requests, Call(t, r) PROVE File!Call(t)
  BY <1>3 DEF Call, TypeOK, File!Call
<1>4. ASSUME NEW t \in Threads, Read(t) PROVE [File!Next]_(File!fileVars)
  <2>1. CASE DirectRead(t)
    <3>1. CASE pc' = [pc EXCEPT ![t] = "ok"]
      BY <2>1, <3>1, AnswerMapped DEF DirectRead, File!Next, TypeOK
    <3>2. CASE pc' = [pc EXCEPT ![t] = "failed"]
      <4>1. PICK n \in 0 .. request[t].bytes :
               buffer' = [buffer EXCEPT ![t] =
                  Interval(request[t].offset, request[t].offset + n)]
        BY <2>1, <3>2 DEF DirectRead, TypeOK
      <4>2. UNCHANGED request /\ pc[t] = "direct" BY <2>1 DEF DirectRead
      <4>3. File!Refuse(t) BY <3>2, <4>1, <4>2, RefuseMapped
      <4>4. QED BY <4>3 DEF File!Next
    <3>3. QED BY <2>1, <3>1, <3>2 DEF DirectRead
  <2>2. CASE CheckHit(t) BY <2>2, PendingMapped DEF CheckHit, PCs
  <2>3. CASE CheckMiss(t) BY <2>3, PendingMapped DEF CheckMiss, PCs
  <2>4. CASE ReserveCopy(t) BY <2>4 DEF ReserveCopy, File!fileVars
  <2>5. CASE ReserveWait(t) BY <2>5 DEF ReserveWait, vars, File!fileVars
  <2>6. CASE ReserveInsert(t) BY <2>6, PendingMapped DEF ReserveInsert, PCs
  <2>7. CASE Fetch(t) BY <2>7, PendingMapped DEF Fetch, PCs
  <2>8. CASE FetchFail(t)
    <3>1. pc' = [pc EXCEPT ![t] = "failed"] /\ pc[t] = "fetch"
          /\ UNCHANGED <<request, buffer>>
      BY <2>8 DEF FetchFail
    <3>2. buffer[t] = Interval(request[t].offset, request[t].offset + 0)
      <4>1. buffer[t] = {} BY <3>1 DEF EmptyInv
      <4>2. request[t].offset \in Int BY RequestType
      <4>3. Interval(request[t].offset, request[t].offset + 0) = {} BY <4>2 DEF Interval
      <4>4. QED BY <4>1, <4>3
    <3>3. buffer' = [buffer EXCEPT ![t] =
             Interval(request[t].offset, request[t].offset + 0)]
      BY <3>1, <3>2 DEF TypeOK
    <3>4. 0 \in 0 .. request[t].bytes BY RequestType DEF TypeOK
    <3>5. File!Refuse(t) BY <3>1, <3>3, <3>4, RefuseMapped
    <3>6. QED BY <3>5 DEF File!Next
  <2>9. CASE Commit(t)
    <3>1. Window(cacheLine[t]) \subseteq mData[cacheLine[t]]
      BY <2>9 DEF Commit, FillInv, Owning
    <3>2. Wanted(request[t]) \subseteq Window(cacheLine[t])
      BY <2>9, RequestType, SizeAssumption
      DEF Commit, OwnerInv, RequestInv, UseCache, Owning, Wanted, Window, Interval
    <3>3. Wanted(request[t]) \cap mData[cacheLine[t]] = Wanted(request[t])
      BY <3>1, <3>2
    <3>4. File!Answer(t) BY <2>9, <3>3, AnswerMapped DEF Commit
    <3>5. QED BY <3>4 DEF File!Next
  <2>10. CASE Get(t)
    <3>1. Covers(cacheLine[t], request[t]) /\ cacheLine[t] \in mbCommitted
      BY <2>10 DEF Get, GetInv
    <3>2. Wanted(request[t]) \subseteq Window(cacheLine[t])
      BY <3>1, RequestType, SizeAssumption DEF Covers, Wanted, Window, Interval, TypeOK
    <3>3. Wanted(request[t]) \cap mData[cacheLine[t]] = Wanted(request[t])
      BY <3>1, <3>2 DEF BytesComplete
    <3>4. File!Answer(t) BY <2>10, <3>1, <3>3, AnswerMapped DEF Get
    <3>5. QED BY <3>4 DEF File!Next
  <2>11. CASE GetTimeOut(t)
    <3>1. File!GiveUp(t) BY <2>11 DEF GetTimeOut, TypeOK, File!GiveUp
    <3>2. QED BY <3>1 DEF File!Next
  <2>12. CASE Return(t)
    <3>1. File!Return(t) BY <2>12 DEF Return, TypeOK, File!Return
    <3>2. QED BY <3>1 DEF File!Next
  <2>13. QED
    BY <1>4, <2>1, <2>2, <2>3, <2>4, <2>5, <2>6, <2>7, <2>8, <2>9, <2>10, <2>11,
       <2>12 DEF Read
<1>5. QED BY <1>1, <1>2, <1>3, <1>4 DEF Next, File!Next

\* Readers cannot tell the cache from the file, except that a late answer may be
\* given up on: every step of the cache is a step of RemoteFile or a stutter.
THEOREM CacheImplementsFile == Spec => RefinesFile
<1>1. Init => File!Init
  BY DEF Init, File!Init
<1>2. Init => EmptyInv BY DEF Init, EmptyInv
<1>3. QED
  BY <1>1, <1>2, EmptyStep, StepMapped, Invariance, PTL DEF Spec, File!Spec, RefinesFile
================================================================================
