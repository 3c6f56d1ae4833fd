--------------------------- MODULE ForeignZipProofs ---------------------------
(***************************************************************************)
(* Proofs about how the central directory of an archive is read, for all    *)
(* archives of ForeignZip and all lengths of records: cZipCD::Init finds    *)
(* the directory, and its headers are read as they were written.  Where a   *)
(* record is is a sum over those in front of it, hence the induction.       *)
(***************************************************************************)
EXTENDS ForeignZip, SequenceTheorems, InductionLemmas

--------------------------------------------------------------------------------
(* Where records are *)

\* Total adds up.
LEMMA TotalIs ==
    ASSUME NEW n \in Nat, NEW a, \A k \in 1 .. n : a[k] \in Nat
    PROVE  /\ Total(a, 0) = 0
           /\ \A k \in 0 .. n : Total(a, k) \in Nat
           /\ \A k \in 1 .. n : Total(a, k) = Total(a, k - 1) + a[k]
<1> DEFINE step == [k \in 1 .. n |-> [v \in Nat |-> v + a[k]]]
<1>1. step \in [1 .. n -> [Nat -> Nat]]
  OBVIOUS
<1>2. PICK s : IsRecursion(s, Nat, n, 0, step)
  <2> HIDE DEF step
  <2> QED BY <1>1, RecursionExists
<1>3. /\ s \in [0 .. n -> Nat] /\ s[0] = 0
      /\ \A k \in 1 .. n : s[k] = s[k - 1] + a[k]
  <2>1. s \in [0 .. n -> Nat] /\ s[0] = 0 /\ \A k \in 1 .. n : s[k] = step[k][s[k - 1]]
    BY <1>2 DEF IsRecursion
  <2>2. ASSUME NEW k \in 1 .. n PROVE s[k] = s[k - 1] + a[k]
    <3>1. s[k - 1] \in Nat
      BY <2>1
    <3> QED BY <2>1, <3>1
  <2> QED BY <2>1, <2>2
<1>4. ASSUME NEW m \in 0 .. n PROVE Total(a, m) = s[m]
  <2> DEFINE Eq(t) == t = [k \in 0 .. m |-> IF k = 0 THEN 0 ELSE t[k - 1] + a[k]]
             sm == [k \in 0 .. m |-> s[k]]
             total == CHOOSE t : Eq(t)
  <2>1. Eq(sm)
    <3> SUFFICES ASSUME NEW k \in 0 .. m
                 PROVE  s[k] = IF k = 0 THEN 0 ELSE sm[k - 1] + a[k]
      OBVIOUS
    <3>1. CASE k = 0
      BY <1>3, <3>1
    <3>2. CASE k # 0
      <4>1. k \in 1 .. n /\ k - 1 \in 0 .. m
        BY <3>2
      <4> QED BY <1>3, <3>2, <4>1
    <3> QED BY <3>1, <3>2
  <2>2. Eq(total)
    <3> HIDE DEF Eq, sm
    <3> QED BY <2>1
  <2>3. Total(a, m) = total[m]
    BY DEF Total
  <2> DEFINE T == {k \in 0 .. m : total[k] = s[k]}
  <2>4. 0 \in T
    <3>1. total[0] = 0
      <4> HIDE DEF total
      <4> QED BY <2>2
    <3> HIDE DEF total
    <3> QED BY <1>3, <3>1
  <2>5. ASSUME NEW k \in 1 .. m, k - 1 \in T PROVE k \in T
    <3>1. total[k] = total[k - 1] + a[k]
      <4> HIDE DEF total
      <4> QED BY <2>2
    <3>2. k \in 1 .. n
      OBVIOUS
    <3> HIDE DEF total
    <3> QED BY <1>3, <2>5, <3>1, <3>2
  <2>6. m \in T
    <3>1. m \in Nat /\ m \in 0 .. m
      OBVIOUS
    <3> HIDE DEF T
    <3> QED BY <2>4, <2>5, <3>1, BoundedInduction
  <2> QED BY <2>3, <2>6
<1> QED BY <1>3, <1>4

\* A sum grows by at least what is behind its end.
LEMMA TotalGrows ==
    ASSUME NEW n \in Nat, NEW a, \A k \in 1 .. n : a[k] \in Nat,
           NEW i \in 0 .. n, NEW j \in i + 1 .. n
    PROVE  Total(a, i) + a[i + 1] <= Total(a, j)
<1> DEFINE T == {k \in 0 .. n : k <= i \/ Total(a, i) + a[i + 1] <= Total(a, k)}
<1>1. /\ \A k \in 0 .. n : Total(a, k) \in Nat
      /\ \A k \in 1 .. n : Total(a, k) = Total(a, k - 1) + a[k]
  BY TotalIs
<1>2. 0 \in T
  OBVIOUS
<1>3. ASSUME NEW k \in 1 .. n, k - 1 \in T PROVE k \in T
  <2>1. Total(a, k) = Total(a, k - 1) + a[k] /\ Total(a, k - 1) \in Nat /\ Total(a, i) \in Nat
    BY <1>1
  <2>2. CASE k <= i
    BY <2>2
  <2>3. CASE k = i + 1
    BY <2>1, <2>3
  <2>4. CASE k > i + 1
    <3>1. Total(a, i) + a[i + 1] <= Total(a, k - 1) /\ a[i + 1] \in Nat /\ a[k] \in Nat
      BY <1>3, <2>4
    <3> QED BY <2>1, <3>1
  <2> QED BY <2>2, <2>3, <2>4
<1>4. j \in T
  <2> HIDE DEF T
  <2> QED BY <1>2, <1>3, BoundedInduction
<1> QED BY <1>4

\* An archive, as far as its lengths go.
IsArchive(f) ==
    /\ Len(f) \in Nat /\ DOMAIN f = 1 .. Len(f)
    /\ \A i \in DOMAIN f : f[i].len \in Nat

\* Each record begins where the one in front of it ends.
LEMMA OffsetsAre ==
    ASSUME NEW f, IsArchive(f)
    PROVE  /\ Len(f) \in Nat /\ DOMAIN f = 1 .. Len(f)
           /\ ByteOffset(f, 1) = 0
           /\ \A i \in 1 .. Len(f) + 1 : ByteOffset(f, i) \in Nat
           /\ \A i \in 1 .. Len(f) : ByteOffset(f, i + 1) = ByteOffset(f, i) + f[i].len
           /\ \A i \in 1 .. Len(f) : \A j \in i + 1 .. Len(f) + 1 :
                 ByteOffset(f, i) + f[i].len <= ByteOffset(f, j)
<1> DEFINE n == Len(f)
           a == [k \in DOMAIN f |-> f[k].len]
<1>1. n \in Nat /\ DOMAIN f = 1 .. n
  BY DEF IsArchive
<1>2. \A k \in 1 .. n : a[k] \in Nat /\ a[k] = f[k].len
  BY <1>1 DEF IsArchive
<1>3. \A i : ByteOffset(f, i) = Total(a, i - 1)
  BY DEF ByteOffset
<1> HIDE DEF a, n
<1>4. /\ Total(a, 0) = 0
      /\ \A k \in 0 .. n : Total(a, k) \in Nat
      /\ \A k \in 1 .. n : Total(a, k) = Total(a, k - 1) + a[k]
  BY <1>1, <1>2, TotalIs
<1>5. ASSUME NEW i \in 1 .. n
      PROVE  ByteOffset(f, i + 1) = ByteOffset(f, i) + f[i].len
  <2>1. (i + 1) - 1 = i
    BY <1>1
  <2> QED BY <1>2, <1>3, <1>4, <2>1
<1>6. ASSUME NEW i \in 1 .. n, NEW j \in i + 1 .. n + 1
      PROVE  ByteOffset(f, i) + f[i].len <= ByteOffset(f, j)
  <2>1. i - 1 \in 0 .. n /\ j - 1 \in (i - 1) + 1 .. n /\ (i - 1) + 1 = i
    BY <1>1
  <2>2. Total(a, i - 1) + a[(i - 1) + 1] <= Total(a, j - 1)
    BY <1>1, <1>2, <2>1, TotalGrows
  <2> QED BY <1>2, <1>3, <2>1, <2>2
<1>7. ByteOffset(f, 1) = 0 /\ \A i \in 1 .. n + 1 : ByteOffset(f, i) \in Nat
  <2>1. 1 - 1 = 0 /\ \A i \in 1 .. n + 1 : i - 1 \in 0 .. n
    BY <1>1
  <2> QED BY <1>3, <1>4, <2>1
<1> QED BY <1>1, <1>5, <1>6, <1>7 DEF n

\* A record that is not empty is the one at its place.
LEMMA RecordIsAt ==
    ASSUME NEW f, IsArchive(f), NEW i \in DOMAIN f, f[i].len > 0
    PROVE  RecordAt(f, ByteOffset(f, i)) = i
<1> DEFINE here == {j \in DOMAIN f : ByteOffset(f, j) = ByteOffset(f, i) /\ f[j].len > 0}
<1>1. i \in here
  OBVIOUS
<1>2. ASSUME NEW j \in here PROVE j = i
  <2>1. /\ j \in 1 .. Len(f) /\ i \in 1 .. Len(f) /\ Len(f) \in Nat
        /\ f[i].len \in Nat /\ f[j].len \in Nat
        /\ ByteOffset(f, i) \in Nat /\ ByteOffset(f, j) \in Nat
    <3>1. /\ Len(f) \in Nat /\ DOMAIN f = 1 .. Len(f)
          /\ \A k \in 1 .. Len(f) + 1 : ByteOffset(f, k) \in Nat
      BY OffsetsAre
    <3>2. j \in DOMAIN f
      BY <1>2
    <3> QED BY <3>1, <3>2 DEF IsArchive
  <2>2. CASE j < i
    <3>1. ByteOffset(f, j) + f[j].len <= ByteOffset(f, i)
      BY <2>1, <2>2, OffsetsAre
    <3> QED BY <1>2, <2>1, <3>1
  <2>3. CASE i < j
    <3>1. ByteOffset(f, i) + f[i].len <= ByteOffset(f, j)
      BY <2>1, <2>3, OffsetsAre
    <3> QED BY <1>2, <2>1, <3>1
  <2> QED BY <2>1, <2>2, <2>3
<1>3. here = {i}
  BY <1>1, <1>2
<1>4. RecordAt(f, ByteOffset(f, i)) = CHOOSE j \in here : TRUE
  BY <1>3 DEF RecordAt
<1> HIDE DEF here
<1> QED BY <1>3, <1>4

--------------------------------------------------------------------------------
(* The records of an archive *)

Local(w) == [tag |-> "local", len |-> LocalSize(w)]

Records(w) ==
    {Bytes(len) : len \in Nat} \cup {Local(w)} \cup {Header(w, k) : k \in DOMAIN w.entries} \cup
    [tag : {"rec64", "locator", "eocd"}, len : Nat, bytes : Nat, offset : Nat, count : Nat]

\* The lengths that the format fixes.
LEMMA LengthsArePositive ==
    /\ kLocalHeader \in Nat /\ kLocalHeader > 0 /\ kCDHeader \in Nat /\ kCDHeader > 0
    /\ kOtherBlock \in Nat /\ kRec64 \in Nat /\ kRec64 > 0 /\ kLocator \in Nat /\ kLocator > 0
    /\ kEndOfCD \in Nat /\ kEndOfCD > 0
BY LengthAssumption

\* What the records of an archive are.
LEMMA RecordsHas ==
    ASSUME NEW w
    PROVE  /\ \A len \in Nat : Bytes(len) \in Records(w)
           /\ Local(w) \in Records(w)
           /\ \A k \in DOMAIN w.entries : Header(w, k) \in Records(w)
           /\ \A tag \in {"rec64", "locator", "eocd"}, len, bytes, offset, count \in Nat :
                 EndRecord(tag, len, bytes, offset, count) \in Records(w)
<1>1. \A len \in Nat : Bytes(len) \in Records(w)
  BY DEF Records
<1>2. Local(w) \in Records(w)
  BY DEF Records
<1>3. \A k \in DOMAIN w.entries : Header(w, k) \in Records(w)
  BY DEF Records
<1>4. ASSUME NEW tag \in {"rec64", "locator", "eocd"}, NEW len \in Nat, NEW bytes \in Nat,
             NEW offset \in Nat, NEW count \in Nat
      PROVE  EndRecord(tag, len, bytes, offset, count) \in Records(w)
  BY DEF EndRecord, Records
<1> QED BY <1>1, <1>2, <1>3, <1>4

\* No header is empty.
LEMMA SizesArePositive ==
    ASSUME NEW w, IsForeign(w)
    PROVE  /\ LocalSize(w) \in Nat /\ LocalSize(w) > 0
           /\ ExtraSize(w) \in Nat
           /\ kCDHeader + ExtraSize(w) \in Nat /\ kCDHeader + ExtraSize(w) > 0
<1>1. Cardinality(w.saturated) \in Nat
  <2>1. IsFiniteSet({"usize"}) /\ IsFiniteSet({"csize"}) /\ IsFiniteSet({"offset"})
    BY FS_Singleton
  <2>2. IsFiniteSet({"usize"} \cup {"csize"} \cup {"offset"})
    BY <2>1, FS_Union
  <2>3. w.saturated \subseteq {"usize"} \cup {"csize"} \cup {"offset"}
    BY DEF IsForeign
  <2> QED BY <2>2, <2>3, FS_Subset, FS_CardinalityType
<1>2. (IF w.other THEN kOtherBlock ELSE 0) \in Nat
  BY LengthsArePositive
<1>3. (IF w.saturated = {} THEN 0 ELSE 4 + 8 * Cardinality(w.saturated)) \in Nat
  BY <1>1
<1>4. ExtraSize(w) \in Nat
  BY <1>2, <1>3 DEF ExtraSize
<1>5. LocalSize(w) \in Nat /\ LocalSize(w) > 0
  BY <1>2, LengthsArePositive DEF LocalSize
<1> QED BY <1>4, <1>5, LengthsArePositive

\* Every entry has a name, data and a size.
LEMMA EntriesAreTyped ==
    ASSUME NEW w, IsForeign(w)
    PROVE  /\ Len(w.entries) \in Nat /\ DOMAIN w.entries = 1 .. Len(w.entries)
           /\ \A k \in DOMAIN w.entries :
                 /\ w.entries[k].name \in Names /\ w.entries[k].data \in Seq(Blocks)
                 /\ Len(w.entries[k].data) \in Nat /\ w.entries[k].csize \in Nat
<1> DEFINE S == [name : Names, data : Seq(Blocks), csize : Nat]
<1>1. w.entries \in Seq(S)
  BY DEF IsForeign
<1>2. Len(w.entries) \in Nat /\ DOMAIN w.entries = 1 .. Len(w.entries)
  BY <1>1, LenProperties
<1>3. ASSUME NEW k \in DOMAIN w.entries
      PROVE  /\ w.entries[k].name \in Names /\ w.entries[k].data \in Seq(Blocks)
             /\ Len(w.entries[k].data) \in Nat /\ w.entries[k].csize \in Nat
  <2>1. w.entries[k] \in S
    <3> HIDE DEF S
    <3> QED BY <1>1, <1>2, ElementOfSeq
  <2>2. w.entries[k].data \in Seq(Blocks)
    BY <2>1
  <2> QED BY <2>1, <2>2, LenProperties
<1> QED BY <1>2, <1>3

\* The places of the local headers.
LEMMA PlacesAre ==
    ASSUME NEW w, IsForeign(w)
    PROVE  /\ Offset(w, 1) = 0
           /\ \A k \in 1 .. Len(w.entries) + 1 : Offset(w, k) \in Nat
           /\ \A k \in 1 .. Len(w.entries) :
                 Offset(w, k + 1) = Offset(w, k) + LocalSize(w) + w.entries[k].csize
<1> DEFINE n == Len(w.entries)
           a == [i \in DOMAIN w.entries |-> LocalSize(w) + w.entries[i].csize]
<1>1. n \in Nat /\ DOMAIN w.entries = 1 .. n
  BY EntriesAreTyped
<1>2. \A k \in 1 .. n : a[k] \in Nat /\ a[k] = LocalSize(w) + w.entries[k].csize
  BY <1>1, EntriesAreTyped, SizesArePositive
<1>3. \A k : Offset(w, k) = Total(a, k - 1)
  BY DEF Offset
<1>4. LocalSize(w) \in Nat /\ \A k \in 1 .. n : w.entries[k].csize \in Nat
  BY <1>1, EntriesAreTyped, SizesArePositive
<1> HIDE DEF a, n
<1>5. /\ Total(a, 0) = 0
      /\ \A k \in 0 .. n : Total(a, k) \in Nat
      /\ \A k \in 1 .. n : Total(a, k) = Total(a, k - 1) + a[k]
  BY <1>1, <1>2, TotalIs
<1>6. ASSUME NEW k \in 1 .. n
      PROVE  Offset(w, k + 1) = Offset(w, k) + LocalSize(w) + w.entries[k].csize
  <2>1. (k + 1) - 1 = k /\ k - 1 \in 0 .. n
    BY <1>1
  <2> QED BY <1>2, <1>3, <1>4, <1>5, <2>1
<1>7. Offset(w, 1) = 0 /\ \A i \in 1 .. n + 1 : Offset(w, i) \in Nat
  <2>1. 1 - 1 = 0 /\ \A i \in 1 .. n + 1 : i - 1 \in 0 .. n
    BY <1>1
  <2> QED BY <1>3, <1>5, <2>1
<1> QED BY <1>6, <1>7 DEF n

\* Joined puts one part behind the other.
LEMMA JoinedIs ==
    ASSUME NEW S, NEW n \in Nat, NEW parts, \A k \in 1 .. n : parts[k] \in Seq(S)
    PROVE  /\ Joined(parts, 0) = <<>>
           /\ \A k \in 0 .. n : Joined(parts, k) \in Seq(S)
           /\ \A k \in 1 .. n : Joined(parts, k) = Joined(parts, k - 1) \o parts[k]
<1> DEFINE step == [k \in 1 .. n |-> [v \in Seq(S) |-> v \o parts[k]]]
<1>1. step \in [1 .. n -> [Seq(S) -> Seq(S)]]
  <2> SUFFICES ASSUME NEW k \in 1 .. n, NEW v \in Seq(S) PROVE v \o parts[k] \in Seq(S)
    OBVIOUS
  <2> QED BY ConcatProperties
<1>2. PICK s : IsRecursion(s, Seq(S), n, <<>>, step)
  <2>1. <<>> \in Seq(S)
    OBVIOUS
  <2> HIDE DEF step
  <2> QED BY <1>1, <2>1, RecursionExists
<1>3. /\ s \in [0 .. n -> Seq(S)] /\ s[0] = <<>>
      /\ \A k \in 1 .. n : s[k] = s[k - 1] \o parts[k]
  <2>1. s \in [0 .. n -> Seq(S)] /\ s[0] = <<>> /\ \A k \in 1 .. n : s[k] = step[k][s[k - 1]]
    BY <1>2 DEF IsRecursion
  <2>2. ASSUME NEW k \in 1 .. n PROVE s[k] = s[k - 1] \o parts[k]
    <3>1. s[k - 1] \in Seq(S)
      BY <2>1
    <3> QED BY <2>1, <3>1
  <2> QED BY <2>1, <2>2
<1>4. ASSUME NEW m \in 0 .. n PROVE Joined(parts, m) = s[m]
  <2> DEFINE Eq(t) == t = [k \in 0 .. m |-> IF k = 0 THEN <<>> ELSE t[k - 1] \o parts[k]]
             sm == [k \in 0 .. m |-> s[k]]
             join == CHOOSE t : Eq(t)
  <2>1. Eq(sm)
    <3> SUFFICES ASSUME NEW k \in 0 .. m
                 PROVE  s[k] = IF k = 0 THEN <<>> ELSE sm[k - 1] \o parts[k]
      OBVIOUS
    <3>1. CASE k = 0
      BY <1>3, <3>1
    <3>2. CASE k # 0
      <4>1. k \in 1 .. n /\ k - 1 \in 0 .. m
        BY <3>2
      <4> QED BY <1>3, <3>2, <4>1
    <3> QED BY <3>1, <3>2
  <2>2. Eq(join)
    <3> HIDE DEF Eq, sm
    <3> QED BY <2>1
  <2>3. Joined(parts, m) = join[m]
    BY DEF Joined
  <2> DEFINE T == {k \in 0 .. m : join[k] = s[k]}
  <2>4. 0 \in T
    <3>1. join[0] = <<>>
      <4> HIDE DEF join
      <4> QED BY <2>2
    <3> HIDE DEF join
    <3> QED BY <1>3, <3>1
  <2>5. ASSUME NEW k \in 1 .. m, k - 1 \in T PROVE k \in T
    <3>1. join[k] = join[k - 1] \o parts[k]
      <4>1. k \in 0 .. m /\ k # 0
        OBVIOUS
      <4> HIDE DEF join
      <4> QED BY <2>2, <4>1, Zenon
    <3>2. k \in 1 .. n
      OBVIOUS
    <3>3. s[k] = s[k - 1] \o parts[k] /\ join[k - 1] = s[k - 1]
      BY <1>3, <2>5, <3>2
    <3>4. k \in 0 .. m
      OBVIOUS
    <3> HIDE DEF join
    <3>5. join[k] = s[k]
      BY <3>1, <3>3, Zenon
    <3> QED BY <3>4, <3>5
  <2>6. m \in T
    <3>1. m \in Nat /\ m \in 0 .. m
      OBVIOUS
    <3> HIDE DEF T
    <3> QED BY <2>4, <2>5, <3>1, BoundedInduction
  <2> QED BY <2>3, <2>6
<1>5. Joined(parts, 0) = s[0] /\ 0 \in 0 .. n
  BY <1>4
<1>6. \A k \in 0 .. n : Joined(parts, k) \in Seq(S)
  BY <1>3, <1>4
<1>7. ASSUME NEW k \in 1 .. n
      PROVE  Joined(parts, k) = Joined(parts, k - 1) \o parts[k]
  <2>1. k \in 0 .. n /\ k - 1 \in 0 .. n
    OBVIOUS
  <2>2. Joined(parts, k) = s[k] /\ Joined(parts, k - 1) = s[k - 1]
    BY <1>4, <2>1
  <2>3. s[k] = s[k - 1] \o parts[k]
    BY <1>3
  <2> QED BY <2>2, <2>3, Zenon
<1> QED BY <1>3, <1>5, <1>6, <1>7

\* The records of one entry.
Part(w, k) == <<Local(w)>> \o Stream(w, k)

\* The records of a stream are as long as the stream.
LEMMA StreamIs ==
    ASSUME NEW w, IsForeign(w), NEW k \in DOMAIN w.entries
    PROVE  /\ Stream(w, k) \in Seq(Records(w))
           /\ Len(Stream(w, k)) \in Nat /\ Len(Stream(w, k)) > 0
           /\ k # Len(w.entries) \/ ~w.inner =>
                 Len(Stream(w, k)) = 1 /\ Stream(w, k)[1] = Bytes(w.entries[k].csize)
           /\ \/ Len(Stream(w, k)) = 1 /\ Stream(w, k)[1].len = w.entries[k].csize
              \/ /\ Len(Stream(w, k)) = 4
                 /\ Stream(w, k)[1].len + Stream(w, k)[2].len + Stream(w, k)[3].len +
                       Stream(w, k)[4].len = w.entries[k].csize
<1> DEFINE R == Records(w)
           size == w.entries[k].csize
           ending == kRec64 + kLocator + kEndOfCD
<1>1. size \in Nat /\ ending \in Nat
  BY EntriesAreTyped, LengthsArePositive
<1>2. /\ \A len \in Nat : Bytes(len) \in R
      /\ EndRecord("rec64", kRec64, 0, 0, 0) \in R
      /\ EndRecord("locator", kLocator, 0, 0, 0) \in R
      /\ EndRecord("eocd", kEndOfCD, 0, 0, 0) \in R
  BY RecordsHas, LengthsArePositive
<1>3. CASE w.inner /\ k = Len(w.entries) /\ size >= ending
  <2> DEFINE s == <<Bytes(size - ending), EndRecord("rec64", kRec64, 0, 0, 0),
               EndRecord("locator", kLocator, 0, 0, 0), EndRecord("eocd", kEndOfCD, 0, 0, 0)>>
  <2>1. Stream(w, k) = s
    BY <1>3 DEF Stream
  <2>2. size - ending \in Nat
    BY <1>1, <1>3
  <2>3. Stream(w, k) \in Seq(R) /\ Len(Stream(w, k)) = 4
    <3> HIDE DEF R
    <3> QED BY <1>2, <2>1, <2>2
  <2>4. /\ Stream(w, k)[1].len = size - ending /\ Stream(w, k)[2].len = kRec64
        /\ Stream(w, k)[3].len = kLocator /\ Stream(w, k)[4].len = kEndOfCD
    BY <2>1 DEF Bytes, EndRecord
  <2>5. Stream(w, k)[1].len + Stream(w, k)[2].len + Stream(w, k)[3].len + Stream(w, k)[4].len = size
    BY <1>1, <2>4, LengthsArePositive
  <2> HIDE DEF s, ending
  <2> QED BY <1>3, <2>3, <2>5
<1>4. CASE ~(w.inner /\ k = Len(w.entries) /\ size >= ending)
  <2>1. Stream(w, k) = <<Bytes(size)>>
    BY <1>4 DEF Stream
  <2>2. Stream(w, k) \in Seq(R) /\ Len(Stream(w, k)) = 1 /\ Stream(w, k)[1] = Bytes(size)
    <3> HIDE DEF R
    <3> QED BY <1>1, <1>2, <2>1
  <2>3. Stream(w, k)[1].len = size
    BY <2>2 DEF Bytes
  <2> HIDE DEF ending
  <2> QED BY <2>2, <2>3
<1> QED BY <1>3, <1>4

\* A local header, and the stream behind it.
LEMMA PartIs ==
    ASSUME NEW w, IsForeign(w), NEW k \in DOMAIN w.entries
    PROVE  /\ Part(w, k) \in Seq(Records(w))
           /\ Len(Part(w, k)) = 1 + Len(Stream(w, k))
           /\ Part(w, k)[1] = Local(w)
           /\ \A j \in 1 .. Len(Stream(w, k)) : Part(w, k)[1 + j] = Stream(w, k)[j]
<1> DEFINE R == Records(w)
           p == <<Local(w)>>
           q == Stream(w, k)
<1>1. Part(w, k) = p \o q
  BY DEF Part
<1>2. q \in Seq(R) /\ Len(q) \in Nat
  BY StreamIs
<1>3. p \in Seq(R) /\ Len(p) = 1 /\ p[1] = Local(w)
  BY RecordsHas
<1> HIDE DEF p, q, R
<1>4. /\ p \o q \in Seq(R) /\ Len(p \o q) = Len(p) + Len(q)
      /\ \A i \in 1 .. Len(p) + Len(q) : (p \o q)[i] = IF i <= Len(p) THEN p[i] ELSE q[i - Len(p)]
  BY <1>2, <1>3, ConcatProperties
<1>5. Part(w, k) \in Seq(R) /\ Len(Part(w, k)) = 1 + Len(q) /\ Part(w, k)[1] = Local(w)
  BY <1>1, <1>2, <1>3, <1>4
<1>6. \A j \in 1 .. Len(q) : Part(w, k)[1 + j] = q[j]
  BY <1>1, <1>2, <1>3, <1>4
<1> QED BY <1>5, <1>6 DEF q, R

\* Two records for each of the first k entries.
AreWhole(w, e, k) ==
    /\ Len(e) = 2 * k
    /\ \A j \in 1 .. k : e[2 * j - 1] = Local(w) /\ e[2 * j] = Bytes(w.entries[j].csize)

\* The records in front of entry k + 1: a local header and a stream for each entry.
LEMMA FirstEntriesAre ==
    ASSUME NEW w, IsForeign(w), NEW k \in 0 .. Len(w.entries), k < Len(w.entries) \/ ~w.inner
    PROVE  /\ Joined([i \in DOMAIN w.entries |-> Part(w, i)], k) \in Seq(Records(w))
           /\ AreWhole(w, Joined([i \in DOMAIN w.entries |-> Part(w, i)], k), k)
<1> DEFINE R == Records(w)
           n == Len(w.entries)
           parts == [i \in DOMAIN w.entries |-> Part(w, i)]
           E(m) == Joined(parts, m)
           Good(m) == AreWhole(w, E(m), m)
           T == {m \in 0 .. k : Good(m)}
<1>1. n \in Nat /\ DOMAIN w.entries = 1 .. n /\ k \in Nat /\ k <= n
  BY EntriesAreTyped
<1>2. \A m \in 1 .. n : parts[m] = Part(w, m) /\ parts[m] \in Seq(R)
  BY <1>1, PartIs
<1>3. /\ E(0) = <<>>
      /\ \A m \in 0 .. n : E(m) \in Seq(R)
      /\ \A m \in 1 .. n : E(m) = E(m - 1) \o parts[m]
  <2> HIDE DEF parts, R
  <2> QED BY <1>1, <1>2, JoinedIs
<1>4. 0 \in T
  <2> HIDE DEF parts
  <2> QED BY <1>1, <1>3 DEF AreWhole
<1>5. ASSUME NEW m \in 1 .. k, m - 1 \in T
      PROVE  m \in T
  <2> DEFINE p == E(m - 1)
             q == Part(w, m)
  <2>1. m \in DOMAIN w.entries /\ m \in 1 .. n /\ m - 1 \in 0 .. n
    BY <1>1
  <2>2. m # n \/ ~w.inner
    BY <1>1
  <2>3. /\ q \in Seq(R) /\ Len(q) = 2 /\ q[1] = Local(w) /\ q[2] = Bytes(w.entries[m].csize)
    <3>1. Len(Stream(w, m)) = 1 /\ Stream(w, m)[1] = Bytes(w.entries[m].csize)
      BY <2>1, <2>2, StreamIs
    <3>2. q \in Seq(R) /\ Len(q) = 1 + Len(Stream(w, m)) /\ q[1] = Local(w)
          /\ \A j \in 1 .. Len(Stream(w, m)) : q[1 + j] = Stream(w, m)[j]
      BY <2>1, PartIs
    <3>3. 1 \in 1 .. Len(Stream(w, m))
      BY <3>1
    <3> HIDE DEF q, R
    <3> QED BY <3>1, <3>2, <3>3
  <2>4. p \in Seq(R) /\ Good(m - 1) /\ E(m) = p \o q
    BY <1>2, <1>3, <1>5, <2>1
  <2>5. /\ Len(p) = 2 * (m - 1)
        /\ \A j \in 1 .. m - 1 : p[2 * j - 1] = Local(w) /\ p[2 * j] = Bytes(w.entries[j].csize)
    BY <2>4 DEF AreWhole
  <2> HIDE DEF p, q, R, Good
  <2>6. /\ Len(p \o q) = Len(p) + Len(q)
        /\ \A i \in 1 .. Len(p) + Len(q) : (p \o q)[i] = IF i <= Len(p) THEN p[i] ELSE q[i - Len(p)]
    BY <2>3, <2>4, ConcatProperties
  <2>7. Len(p \o q) = 2 * m
    BY <2>3, <2>5, <2>6
  <2>8. ASSUME NEW j \in 1 .. m
        PROVE  (p \o q)[2 * j - 1] = Local(w) /\ (p \o q)[2 * j] = Bytes(w.entries[j].csize)
    <3>1. CASE j < m
      <4>1. j \in 1 .. m - 1 /\ 2 * j - 1 \in 1 .. Len(p) + Len(q) /\ 2 * j \in 1 .. Len(p) + Len(q)
            /\ 2 * j <= Len(p) /\ 2 * j - 1 <= Len(p)
        BY <2>3, <2>5, <3>1
      <4> QED BY <2>5, <2>6, <4>1
    <3>2. CASE j = m
      <4>1. /\ 2 * j - 1 = Len(p) + 1 /\ 2 * j = Len(p) + 2 /\ Len(p) + Len(q) = Len(p) + 2
            /\ Len(p) \in Nat
        BY <2>3, <2>5, <3>2
      <4>2. (p \o q)[Len(p) + 1] = q[1] /\ (p \o q)[Len(p) + 2] = q[2]
        BY <2>6, <4>1
      <4> QED BY <2>3, <3>2, <4>1, <4>2
    <3>3. j < m \/ j = m
      BY <1>1
    <3> QED BY <3>1, <3>2, <3>3
  <2>9. Good(m)
    BY <2>4, <2>7, <2>8 DEF Good, AreWhole
  <2> HIDE DEF E
  <2> QED BY <2>9
<1>6. k \in T
  <2>1. k \in 0 .. k
    BY <1>1
  <2> HIDE DEF T
  <2> QED BY <1>1, <1>4, <1>5, <2>1, BoundedInduction
<1>7. Good(k) /\ E(k) \in Seq(R)
  BY <1>1, <1>3, <1>6
<1> QED BY <1>7

\* All entries; the last may have more records.
EntriesShape(w, e, n, s) ==
    /\ e \in Seq(Records(w))
    /\ n = 0 => Len(e) = 0
    /\ n > 0 => Len(e) = 2 * n - 1 + Len(s)
    /\ \A k \in 1 .. n : e[2 * k - 1] = Local(w)
    /\ \A k \in 1 .. n - 1 : e[2 * k] = Bytes(w.entries[k].csize)
    /\ n > 0 => \A j \in 1 .. Len(s) : e[2 * n - 1 + j] = s[j]

\* The records of all entries.
LEMMA EntriesAre ==
    ASSUME NEW w, IsForeign(w)
    PROVE  EntriesShape(w, Entries(w), Len(w.entries), Stream(w, Len(w.entries)))
<1> DEFINE R == Records(w)
           n == Len(w.entries)
           parts == [i \in DOMAIN w.entries |-> Part(w, i)]
           p == Joined(parts, n - 1)
           q == Part(w, n)
           s == Stream(w, n)
           e == Entries(w)
<1>1. n \in Nat /\ DOMAIN w.entries = 1 .. n
  BY EntriesAreTyped
<1>2. e = Joined(parts, n)
  BY DEF Entries, Part, Local
<1>3. \A m \in 1 .. n : parts[m] = Part(w, m) /\ parts[m] \in Seq(R)
  BY <1>1, PartIs
<1>4. /\ Joined(parts, 0) = <<>>
      /\ \A m \in 0 .. n : Joined(parts, m) \in Seq(R)
      /\ \A m \in 1 .. n : Joined(parts, m) = Joined(parts, m - 1) \o parts[m]
  <2> HIDE DEF parts, R
  <2> QED BY <1>1, <1>3, JoinedIs
<1>5. e \in Seq(R)
  BY <1>1, <1>2, <1>4
<1>6. CASE n = 0
  <2>1. Len(e) = 0
    <3>1. e = <<>>
      BY <1>2, <1>4, <1>6
    <3> HIDE DEF e
    <3> QED BY <3>1
  <2> HIDE DEF e, n
  <2>2. EntriesShape(w, e, n, s)
    <3> HIDE DEF s
    <3> QED BY <1>5, <1>6, <2>1 DEF EntriesShape, R
  <2> QED BY <2>2 DEF e, n
<1>7. CASE n > 0
  <2>1. /\ n \in DOMAIN w.entries /\ n \in 1 .. n /\ n - 1 \in 0 .. n /\ n - 1 < n
        /\ n - 1 \in Nat /\ n \in Nat
    BY <1>1, <1>7
  <2>2. /\ p \in Seq(R) /\ Len(p) = 2 * (n - 1)
        /\ \A j \in 1 .. n - 1 : p[2 * j - 1] = Local(w) /\ p[2 * j] = Bytes(w.entries[j].csize)
    BY <2>1, FirstEntriesAre DEF AreWhole
  <2>3. /\ q \in Seq(R) /\ Len(q) = 1 + Len(s) /\ q[1] = Local(w) /\ Len(s) \in Nat
        /\ \A j \in 1 .. Len(s) : q[1 + j] = s[j]
    BY <2>1, PartIs, StreamIs
  <2>4. e = p \o q
    BY <1>2, <1>3, <1>4, <2>1
  <2> HIDE DEF p, q, s, e, R, n
  <2>5. /\ n \in Nat /\ n > 0 /\ Len(p) = 2 * (n - 1)
        /\ Len(s) \in Nat /\ Len(q) = 1 + Len(s)
    BY <1>7, <2>1, <2>2, <2>3
  <2>6. /\ Len(p) \in Nat /\ Len(q) \in Nat /\ Len(p) + Len(q) = 2 * n - 1 + Len(s)
    BY <2>5
  <2>7. /\ Len(p \o q) = Len(p) + Len(q)
        /\ \A i \in 1 .. Len(p) + Len(q) : (p \o q)[i] = IF i <= Len(p) THEN p[i] ELSE q[i - Len(p)]
    BY <2>2, <2>3, ConcatProperties
  <2>8. Len(e) = 2 * n - 1 + Len(s)
    BY <2>4, <2>7, <2>6
  <2>9. ASSUME NEW k \in 1 .. n - 1
        PROVE  e[2 * k - 1] = Local(w) /\ e[2 * k] = Bytes(w.entries[k].csize)
    <3>1. 2 * k - 1 \in 1 .. Len(p) + Len(q) /\ 2 * k \in 1 .. Len(p) + Len(q)
          /\ 2 * k <= Len(p) /\ 2 * k - 1 <= Len(p)
      BY <2>5, <2>6
    <3> QED BY <2>2, <2>4, <2>7, <3>1
  <2>10. e[2 * n - 1] = Local(w)
    <3>1. 2 * n - 1 = Len(p) + 1 /\ Len(p) + 1 \in 1 .. Len(p) + Len(q) /\ Len(p) \in Nat
      BY <2>5, <2>6
    <3>2. (p \o q)[Len(p) + 1] = q[1]
      BY <2>7, <3>1
    <3> QED BY <2>3, <2>4, <3>1, <3>2
  <2>11. ASSUME NEW j \in 1 .. Len(s)
         PROVE  e[2 * n - 1 + j] = s[j]
    <3>1. 2 * n - 1 + j = Len(p) + (1 + j) /\ Len(p) + (1 + j) \in 1 .. Len(p) + Len(q) /\ Len(p) \in Nat
          /\ ~(Len(p) + (1 + j) <= Len(p)) /\ (Len(p) + (1 + j)) - Len(p) = 1 + j
      BY <2>5, <2>6
    <3>2. (p \o q)[Len(p) + (1 + j)] = q[1 + j]
      BY <2>7, <3>1
    <3> QED BY <2>3, <2>4, <3>1, <3>2
  <2>12. \A k \in 1 .. n : k \in 1 .. n - 1 \/ k = n
    BY <1>1
  <2>13. \A k \in 1 .. n : e[2 * k - 1] = Local(w)
    BY <2>9, <2>10, <2>12
  <2>14. EntriesShape(w, e, n, s)
    BY <1>5, <1>7, <2>8, <2>9, <2>11, <2>13 DEF EntriesShape, R
  <2> QED BY <2>14 DEF e, s, n
<1> QED BY <1>1, <1>6, <1>7

\* Only an archive in an archive has records in its entries that the reader looks for.
LEMMA EntriesTags ==
    ASSUME NEW w, IsForeign(w), ~w.inner, NEW i \in 1 .. Len(Entries(w))
    PROVE  Entries(w)[i].tag \in {"local", "none"}
<1> DEFINE n == Len(w.entries)
           e == Entries(w)
           parts == [j \in DOMAIN w.entries |-> Part(w, j)]
<1>1. n \in Nat /\ n \in 0 .. n
  BY EntriesAreTyped
<1>2. e = Joined(parts, n)
  BY DEF Entries, Part, Local
<1>3. /\ Len(Joined(parts, n)) = 2 * n
      /\ \A j \in 1 .. n : /\ Joined(parts, n)[2 * j - 1] = Local(w)
                           /\ Joined(parts, n)[2 * j] = Bytes(w.entries[j].csize)
  BY <1>1, FirstEntriesAre DEF AreWhole
<1>4. /\ Len(e) = 2 * n
      /\ \A j \in 1 .. n : e[2 * j - 1] = Local(w) /\ e[2 * j] = Bytes(w.entries[j].csize)
  <2> HIDE DEF e, parts
  <2> QED BY <1>2, <1>3
<1>5. PICK j \in 1 .. n : i = 2 * j - 1 \/ i = 2 * j
  <2> HIDE DEF e
  <2>1. i \in 1 .. 2 * n
    BY <1>4 DEF e
  <2>2. (i + 1) \div 2 \in 1 .. n /\ (i = 2 * ((i + 1) \div 2) - 1 \/ i = 2 * ((i + 1) \div 2))
    BY <1>1, <2>1
  <2> QED BY <2>2
<1>6. e[i] = Local(w) \/ e[i] = Bytes(w.entries[j].csize)
  BY <1>4, <1>5
<1> QED BY <1>6 DEF Local, Bytes

\* What is where in two sequences that are joined.
LEMMA ConcatIs ==
    ASSUME NEW S, NEW p \in Seq(S), NEW q \in Seq(S)
    PROVE  /\ p \o q \in Seq(S)
           /\ Len(p) \in Nat /\ Len(q) \in Nat /\ Len(p \o q) = Len(p) + Len(q)
           /\ \A i \in 1 .. Len(p) : (p \o q)[i] = p[i]
           /\ \A i \in 1 .. Len(q) : (p \o q)[Len(p) + i] = q[i]
<1>1. /\ p \o q \in Seq(S) /\ Len(p \o q) = Len(p) + Len(q)
      /\ \A i \in 1 .. Len(p) + Len(q) : (p \o q)[i] = IF i <= Len(p) THEN p[i] ELSE q[i - Len(p)]
  BY ConcatProperties
<1>2. Len(p) \in Nat /\ Len(q) \in Nat
  BY LenProperties
<1>3. ASSUME NEW i \in 1 .. Len(p) PROVE (p \o q)[i] = p[i]
  <2>1. i \in 1 .. Len(p) + Len(q) /\ i <= Len(p)
    BY <1>2
  <2> QED BY <1>1, <2>1
<1>4. ASSUME NEW i \in 1 .. Len(q) PROVE (p \o q)[Len(p) + i] = q[i]
  <2>1. /\ Len(p) + i \in 1 .. Len(p) + Len(q) /\ ~(Len(p) + i <= Len(p))
        /\ (Len(p) + i) - Len(p) = i
    BY <1>2
  <2> QED BY <1>1, <2>1
<1> QED BY <1>1, <1>2, <1>3, <1>4

\* Every record has a length.
LEMMA RecordLengths ==
    ASSUME NEW w, IsForeign(w), NEW r \in Records(w)
    PROVE  r.len \in Nat
<1>1. CASE r \in {Bytes(len) : len \in Nat}
  BY <1>1 DEF Bytes
<1>2. CASE r = Local(w)
  BY <1>2, SizesArePositive DEF Local
<1>3. CASE r \in {Header(w, k) : k \in DOMAIN w.entries}
  <2>1. PICK k \in DOMAIN w.entries : r = Header(w, k)
    BY <1>3
  <2>2. r.len = kCDHeader + ExtraSize(w)
    BY <2>1 DEF Header
  <2> QED BY <2>2, SizesArePositive
<1>4. CASE r \in [tag : {"rec64", "locator", "eocd"}, len : Nat, bytes : Nat, offset : Nat, count : Nat]
  BY <1>4
<1> QED BY <1>1, <1>2, <1>3, <1>4 DEF Records

\* The records of an archive: c are of entries, n are headers, and e are those at the end.
LayoutShape(w, f, c, n, e) ==
    /\ f \in Seq(Records(w)) /\ Len(f) = c + n + e + 1
    /\ \A i \in 1 .. c : f[i] = Entries(w)[i]
    /\ \A k \in 1 .. n : f[c + k] = Header(w, k)
    /\ \A j \in 1 .. e : f[c + n + j] = Ending(w)[j]
    /\ f[c + n + e + 1] = Bytes(w.comment)

\* What the records at the end say of the directory.
Says(w, tag, len) ==
    EndRecord(tag, len, DirectorySize(w), Offset(w, Len(w.entries) + 1), Len(w.entries))

\* With zip64 records or without, one of the records at the end says where the directory is.
LEMMA EndingIs ==
    ASSUME NEW w, IsForeign(w)
    PROVE  /\ Ending(w) \in Seq(Records(w))
           /\ w.zip64 => /\ Len(Ending(w)) = 3
                         /\ Ending(w)[1] = Says(w, "rec64", kRec64)
                         /\ Ending(w)[2] = EndRecord("locator", kLocator, 0, 0, 0)
                         /\ Ending(w)[3] = EndRecord("eocd", kEndOfCD, Saturated, Saturated, 0)
           /\ ~w.zip64 => Len(Ending(w)) = 1 /\ Ending(w)[1] = Says(w, "eocd", kEndOfCD)
<1> DEFINE R == Records(w)
           r == Says(w, "rec64", kRec64)
           l == EndRecord("locator", kLocator, 0, 0, 0)
           x == EndRecord("eocd", kEndOfCD, Saturated, Saturated, 0)
           y == Says(w, "eocd", kEndOfCD)
<1>1. DirectorySize(w) \in Nat /\ Offset(w, Len(w.entries) + 1) \in Nat /\ Len(w.entries) \in Nat
  <2>1. Len(w.entries) \in Nat /\ kCDHeader + ExtraSize(w) \in Nat
    BY EntriesAreTyped, SizesArePositive
  <2>2. Len(w.entries) * (kCDHeader + ExtraSize(w)) \in Nat
    BY <2>1
  <2>3. Len(w.entries) + 1 \in 1 .. Len(w.entries) + 1
    BY <2>1
  <2> QED BY <2>1, <2>2, <2>3, PlacesAre DEF DirectorySize
<1>2. r \in R /\ y \in R
  BY <1>1, LengthsArePositive, RecordsHas DEF Says
<1>3. l \in R /\ x \in R
  BY LengthsArePositive, RecordsHas, ReaderAssumption
<1>4. Ending(w) = IF w.zip64 THEN <<r, l, x>> ELSE <<y>>
  BY DEF Ending, Says
<1> HIDE DEF R, r, l, x, y
<1>5. Ending(w) \in Seq(R)
  BY <1>2, <1>3, <1>4
<1>6. CASE w.zip64
  <2>1. Ending(w) = <<r, l, x>>
    BY <1>4, <1>6
  <2> QED BY <1>5, <1>6, <2>1 DEF R, r, l, x
<1>7. CASE ~w.zip64
  <2>1. Ending(w) = <<y>>
    BY <1>4, <1>7
  <2> QED BY <1>5, <1>7, <2>1 DEF R, y
<1> QED BY <1>6, <1>7

\* The records of an archive, part by part.
LEMMA LayoutIs ==
    ASSUME NEW w, IsForeign(w), WellPlaced(w)
    PROVE  LayoutShape(w, Layout(w), Len(Entries(w)), Len(w.entries), Len(Ending(w)))
<1> DEFINE R == Records(w)
           E == Entries(w)
           H == [k \in DOMAIN w.entries |-> Header(w, k)]
           M == Ending(w)
           C == <<Bytes(w.comment)>>
           c == Len(E)
           n == Len(w.entries)
           e == Len(M)
<1>1. n \in Nat /\ DOMAIN w.entries = 1 .. n
  BY EntriesAreTyped
<1>2. E \in Seq(R) /\ M \in Seq(R)
  BY EntriesAre, EndingIs DEF EntriesShape
<1>3. H \in Seq(R) /\ Len(H) = n /\ \A k \in 1 .. n : H[k] = Header(w, k)
  <2>1. \A k \in 1 .. n : Header(w, k) \in R
    BY <1>1, RecordsHas
  <2>2. H \in [1 .. n -> R] /\ DOMAIN H = 1 .. n
    BY <1>1, <2>1
  <2>3. \A k \in 1 .. n : H[k] = Header(w, k)
    BY <1>1
  <2> HIDE DEF H, R, n
  <2> QED BY <1>1, <2>2, <2>3
<1>4. C \in Seq(R) /\ Len(C) = 1 /\ C[1] = Bytes(w.comment)
  <2>1. Bytes(w.comment) \in R
    BY RecordsHas DEF IsForeign
  <2> HIDE DEF R
  <2> QED BY <2>1
<1>5. Layout(w) = E \o H \o M \o C
  BY DEF Layout, Comment, WellPlaced
<1> HIDE DEF R, E, H, M, C, n, c, e
<1>6. /\ E \o H \in Seq(R)
      /\ c \in Nat /\ Len(E \o H) = c + n
      /\ \A i \in 1 .. c : (E \o H)[i] = E[i]
      /\ \A i \in 1 .. n : (E \o H)[c + i] = H[i]
  <2>1. /\ E \o H \in Seq(R)
        /\ Len(E) \in Nat /\ Len(E \o H) = Len(E) + Len(H)
        /\ \A i \in 1 .. Len(E) : (E \o H)[i] = E[i]
        /\ \A i \in 1 .. Len(H) : (E \o H)[Len(E) + i] = H[i]
    <3>1. E \in Seq(R) /\ H \in Seq(R)
      BY <1>2, <1>3
    <3> QED BY <3>1, ConcatIs
  <2> QED BY <1>3, <2>1 DEF c
<1>7. /\ E \o H \o M \in Seq(R)
      /\ e \in Nat /\ Len(E \o H \o M) = c + n + e
      /\ \A i \in 1 .. c + n : (E \o H \o M)[i] = (E \o H)[i]
      /\ \A i \in 1 .. e : (E \o H \o M)[c + n + i] = M[i]
  <2> DEFINE p == E \o H
  <2>1. p \in Seq(R) /\ Len(p) = c + n
    BY <1>6
  <2> HIDE DEF p
  <2>2. /\ p \o M \in Seq(R)
        /\ e \in Nat /\ Len(p \o M) = c + n + e
        /\ \A i \in 1 .. c + n : (p \o M)[i] = p[i]
        /\ \A i \in 1 .. e : (p \o M)[c + n + i] = M[i]
    <3>1. /\ p \o M \in Seq(R)
          /\ Len(M) \in Nat /\ Len(p \o M) = Len(p) + Len(M)
          /\ \A i \in 1 .. Len(p) : (p \o M)[i] = p[i]
          /\ \A i \in 1 .. Len(M) : (p \o M)[Len(p) + i] = M[i]
      <4>1. p \in Seq(R) /\ M \in Seq(R)
        BY <1>2, <2>1
      <4> QED BY <4>1, ConcatIs
    <3> QED BY <2>1, <3>1 DEF e
  <2> QED BY <2>2 DEF p
<1>8. /\ Layout(w) \in Seq(R)
      /\ Len(Layout(w)) = c + n + e + 1
      /\ \A i \in 1 .. c + n + e : Layout(w)[i] = (E \o H \o M)[i]
      /\ Layout(w)[c + n + e + 1] = C[1]
  <2> DEFINE p == E \o H \o M
  <2>1. p \in Seq(R) /\ Len(p) = c + n + e
    BY <1>7
  <2>2. Layout(w) = p \o C
    BY <1>5
  <2>3. 1 \in 1 .. Len(C)
    BY <1>4
  <2> HIDE DEF p
  <2>4. /\ p \o C \in Seq(R) /\ Len(p \o C) = Len(p) + Len(C)
        /\ \A i \in 1 .. Len(p) : (p \o C)[i] = p[i]
        /\ \A i \in 1 .. Len(C) : (p \o C)[Len(p) + i] = C[i]
    <3>1. p \in Seq(R) /\ C \in Seq(R)
      BY <1>4, <2>1
    <3> QED BY <3>1, ConcatIs
  <2>5. /\ p \o C \in Seq(R)
        /\ Len(p \o C) = c + n + e + 1
        /\ \A i \in 1 .. c + n + e : (p \o C)[i] = p[i]
        /\ (p \o C)[c + n + e + 1] = C[1]
    BY <1>4, <2>1, <2>3, <2>4
  <2> QED BY <2>2, <2>5 DEF p
<1>9. c \in Nat /\ e \in Nat /\ n \in Nat
  BY <1>1, <1>6, <1>7 DEF c, e, n
<1>10. ASSUME NEW i \in 1 .. c PROVE Layout(w)[i] = E[i]
  <2>1. i \in 1 .. c + n /\ i \in 1 .. c + n + e
    BY <1>9
  <2> QED BY <1>6, <1>7, <1>8, <2>1
<1>11. ASSUME NEW k \in 1 .. n PROVE Layout(w)[c + k] = Header(w, k)
  <2>1. c + k \in 1 .. c + n /\ c + k \in 1 .. c + n + e
    BY <1>9
  <2> QED BY <1>3, <1>6, <1>7, <1>8, <2>1
<1>12. ASSUME NEW j \in 1 .. e PROVE Layout(w)[c + n + j] = M[j]
  <2>1. c + n + j \in 1 .. c + n + e
    BY <1>9
  <2> QED BY <1>7, <1>8, <2>1
<1> QED BY <1>4, <1>8, <1>10, <1>11, <1>12 DEF LayoutShape, R, E, M, c, n, e

\* They have lengths.
LEMMA LayoutIsArchive ==
    ASSUME NEW w, IsForeign(w), WellPlaced(w)
    PROVE  IsArchive(Layout(w))
<1> DEFINE f == Layout(w)
           R == Records(w)
<1>1. f \in Seq(R)
  BY LayoutIs DEF LayoutShape
<1> HIDE DEF f, R
<1>2. Len(f) \in Nat /\ DOMAIN f = 1 .. Len(f)
  BY <1>1, LenProperties
<1>3. ASSUME NEW i \in DOMAIN f PROVE f[i].len \in Nat
  <2>1. f[i] \in R
    BY <1>1, <1>2, ElementOfSeq
  <2> QED BY <2>1, RecordLengths DEF R
<1> QED BY <1>2, <1>3 DEF IsArchive, f

\* What is where in an archive: c records of entries, n headers, e records at the end,
\* and the comment.
RecordsShape(w, f, c, n, e) ==
    /\ c \in Nat /\ n \in Nat /\ e \in Nat
    /\ Len(f) = c + n + e + 1 /\ DOMAIN f = 1 .. c + n + e + 1
    /\ \A i \in 1 .. c : f[i] = Entries(w)[i]
    /\ \A k \in 1 .. n : f[c + k] = Header(w, k)
    /\ \A j \in 1 .. e : f[c + n + j] = Ending(w)[j]
    /\ f[c + n + e + 1] = Bytes(w.comment)

LEMMA RecordsAre ==
    ASSUME NEW w, IsForeign(w), WellPlaced(w)
    PROVE  RecordsShape(w, Layout(w), Len(Entries(w)), Len(w.entries), Len(Ending(w)))
<1> DEFINE c == Len(Entries(w))
           n == Len(w.entries)
           e == Len(Ending(w))
           f == Layout(w)
<1>1. Entries(w) \in Seq(Records(w)) /\ Ending(w) \in Seq(Records(w))
  BY EntriesAre, EndingIs DEF EntriesShape
<1>2. c \in Nat /\ e \in Nat /\ n \in Nat
  BY <1>1, EntriesAreTyped, LenProperties
<1>3. LayoutShape(w, f, c, n, e)
  BY LayoutIs
<1>4. DOMAIN f = 1 .. Len(f)
  BY LayoutIsArchive DEF IsArchive
<1> HIDE DEF c, n, e, f
<1>5. RecordsShape(w, f, c, n, e)
  BY <1>2, <1>3, <1>4 DEF LayoutShape, RecordsShape
<1> QED BY <1>5 DEF c, n, e, f

\* Every local header is at its place.
LEMMA LocalsAre ==
    ASSUME NEW w, IsForeign(w), WellPlaced(w), NEW k \in DOMAIN w.entries
    PROVE  /\ 2 * k - 1 \in DOMAIN Layout(w) /\ Layout(w)[2 * k - 1] = Local(w)
           /\ ByteOffset(Layout(w), 2 * k - 1) = Offset(w, k)
           /\ ByteOffset(Layout(w), 2 * k) = Offset(w, k) + LocalSize(w)
<1> DEFINE f == Layout(w)
           n == Len(w.entries)
           c == Len(Entries(w))
           e == Len(Ending(w))
           s == Stream(w, n)
<1>1. n \in Nat /\ DOMAIN w.entries = 1 .. n /\ k \in 1 .. n /\ n > 0 /\ n \in DOMAIN w.entries
  BY EntriesAreTyped
<1>2. EntriesShape(w, Entries(w), n, s)
  BY EntriesAre
<1>3. Len(s) \in Nat /\ Len(s) > 0
  BY <1>1, StreamIs
<1>4. RecordsShape(w, f, c, n, e)
  BY RecordsAre
<1>5. IsArchive(f)
  BY LayoutIsArchive
<1> HIDE DEF f, n, c, e, s
<1>6. c = 2 * n - 1 + Len(s) /\ c >= 2 * n /\ c \in Nat
  BY <1>1, <1>2, <1>3, <1>4 DEF EntriesShape, RecordsShape, c
<1>7. /\ c \in Nat /\ e \in Nat
      /\ Len(f) = c + n + e + 1 /\ DOMAIN f = 1 .. c + n + e + 1
      /\ \A i \in 1 .. c : f[i] = Entries(w)[i]
  BY <1>4 DEF RecordsShape
<1>8. ASSUME NEW j \in 1 .. n
      PROVE  /\ 2 * j - 1 \in 1 .. Len(f) /\ 2 * j \in 1 .. Len(f)
             /\ f[2 * j - 1] = Local(w)
             /\ j < n => f[2 * j] = Bytes(w.entries[j].csize)
  <2>1. 2 * j - 1 \in 1 .. c /\ 2 * j \in 1 .. c
    BY <1>1, <1>6
  <2>2. 2 * j - 1 \in 1 .. Len(f) /\ 2 * j \in 1 .. Len(f)
    BY <1>1, <1>7, <2>1
  <2>3. Entries(w)[2 * j - 1] = Local(w)
    BY <1>2 DEF EntriesShape
  <2>4. j < n => Entries(w)[2 * j] = Bytes(w.entries[j].csize)
    <3>1. j < n => j \in 1 .. n - 1
      BY <1>1
    <3> QED BY <1>2, <3>1 DEF EntriesShape
  <2> QED BY <1>7, <2>1, <2>2, <2>3, <2>4
<1>9. LocalSize(w) \in Nat /\ Local(w).len = LocalSize(w)
  BY SizesArePositive DEF Local
<1>10. /\ ByteOffset(f, 1) = 0
       /\ \A i \in 1 .. Len(f) + 1 : ByteOffset(f, i) \in Nat
       /\ \A i \in 1 .. Len(f) : ByteOffset(f, i + 1) = ByteOffset(f, i) + f[i].len
  BY <1>5, OffsetsAre
<1>11. /\ Offset(w, 1) = 0
       /\ \A j \in 1 .. n + 1 : Offset(w, j) \in Nat
       /\ \A j \in 1 .. n : Offset(w, j + 1) = Offset(w, j) + LocalSize(w) + w.entries[j].csize
  BY PlacesAre DEF n
<1>12. \A j \in 1 .. n : w.entries[j].csize \in Nat /\ Bytes(w.entries[j].csize).len = w.entries[j].csize
  BY <1>1, EntriesAreTyped DEF Bytes
<1>13. \A j \in 1 .. n : ByteOffset(f, 2 * j) = ByteOffset(f, 2 * j - 1) + LocalSize(w)
  <2> SUFFICES ASSUME NEW j \in 1 .. n
               PROVE  ByteOffset(f, 2 * j) = ByteOffset(f, 2 * j - 1) + LocalSize(w)
    OBVIOUS
  <2>1. 2 * j - 1 \in 1 .. Len(f) /\ f[2 * j - 1].len = LocalSize(w)
    BY <1>8, <1>9
  <2>2. (2 * j - 1) + 1 = 2 * j
    BY <1>1
  <2> QED BY <1>10, <2>1, <2>2
<1> DEFINE T == {j \in 0 .. n - 1 : ByteOffset(f, 2 * j + 1) = Offset(w, j + 1)}
<1>14. 0 \in T
  BY <1>1, <1>10, <1>11
<1>15. ASSUME NEW j \in 1 .. n - 1, j - 1 \in T
       PROVE  j \in T
  <2>1. j \in 1 .. n /\ j < n /\ 2 * (j - 1) + 1 = 2 * j - 1 /\ (j - 1) + 1 = j /\ j \in 0 .. n - 1
    BY <1>1
  <2>2. ByteOffset(f, 2 * j - 1) = Offset(w, j)
    BY <1>15, <2>1
  <2>3. ByteOffset(f, 2 * j + 1) = ByteOffset(f, 2 * j) + w.entries[j].csize
    <3>1. 2 * j \in 1 .. Len(f) /\ f[2 * j].len = w.entries[j].csize
      BY <1>8, <1>12, <2>1
    <3> QED BY <1>10, <3>1
  <2>4. ByteOffset(f, 2 * j) = Offset(w, j) + LocalSize(w)
    BY <1>13, <2>1, <2>2
  <2>5. Offset(w, j + 1) = Offset(w, j) + LocalSize(w) + w.entries[j].csize
    BY <1>11, <2>1
  <2>6. ByteOffset(f, 2 * j + 1) = Offset(w, j + 1)
    BY <2>3, <2>4, <2>5
  <2> QED BY <2>1, <2>6
<1>16. k - 1 \in T
  <2>1. n - 1 \in Nat /\ k - 1 \in 0 .. n - 1
    BY <1>1
  <2> HIDE DEF T
  <2> QED BY <1>14, <1>15, <2>1, BoundedInduction
<1>17. ByteOffset(f, 2 * k - 1) = Offset(w, k)
  <2>1. 2 * (k - 1) + 1 = 2 * k - 1 /\ (k - 1) + 1 = k
    BY <1>1
  <2> QED BY <1>16, <2>1
<1>18. ByteOffset(f, 2 * k) = Offset(w, k) + LocalSize(w)
  BY <1>1, <1>13, <1>17
<1>19. 2 * k - 1 \in DOMAIN f /\ f[2 * k - 1] = Local(w)
  BY <1>1, <1>7, <1>8
<1> QED BY <1>17, <1>18, <1>19 DEF f

\* The directory begins behind the last entry.
LEMMA DirectoryIsAt ==
    ASSUME NEW w, IsForeign(w), WellPlaced(w)
    PROVE  ByteOffset(Layout(w), Len(Entries(w)) + 1) = Offset(w, Len(w.entries) + 1)
<1> DEFINE f == Layout(w)
           n == Len(w.entries)
           c == Len(Entries(w))
           e == Len(Ending(w))
           s == Stream(w, n)
<1>1. n \in Nat /\ DOMAIN w.entries = 1 .. n
  BY EntriesAreTyped
<1>2. EntriesShape(w, Entries(w), n, s)
  BY EntriesAre
<1>3. /\ ByteOffset(f, 1) = 0
      /\ \A i \in 1 .. Len(f) + 1 : ByteOffset(f, i) \in Nat
      /\ \A i \in 1 .. Len(f) : ByteOffset(f, i + 1) = ByteOffset(f, i) + f[i].len
  BY LayoutIsArchive, OffsetsAre
<1>4. CASE n = 0
  <2>1. c = 0 /\ Offset(w, 1) = 0
    BY <1>2, <1>4, PlacesAre DEF EntriesShape
  <2> HIDE DEF f, c
  <2>2. c + 1 = 1 /\ n + 1 = 1
    BY <1>4, <2>1
  <2> QED BY <1>3, <2>1, <2>2 DEF f, c
<1>5. CASE n > 0
  <2>1. n \in DOMAIN w.entries /\ n \in 1 .. n
    BY <1>1, <1>5
  <2>2. /\ Len(s) \in Nat /\ Len(s) > 0
        /\ \/ Len(s) = 1 /\ s[1].len = w.entries[n].csize
           \/ Len(s) = 4 /\ s[1].len + s[2].len + s[3].len + s[4].len = w.entries[n].csize
    BY <2>1, StreamIs
  <2>3. /\ c = 2 * n - 1 + Len(s)
        /\ \A j \in 1 .. Len(s) : Entries(w)[2 * n - 1 + j] = s[j]
    BY <1>2, <1>5 DEF EntriesShape
  <2>4. RecordsShape(w, f, c, n, e)
    BY RecordsAre
  <2>5. ByteOffset(f, 2 * n) = Offset(w, n) + LocalSize(w)
    BY <2>1, LocalsAre
  <2>6. /\ Offset(w, n + 1) = Offset(w, n) + LocalSize(w) + w.entries[n].csize
        /\ Offset(w, n) \in Nat /\ LocalSize(w) \in Nat /\ w.entries[n].csize \in Nat
    <3>1. n \in 1 .. n + 1
      BY <1>1, <1>5
    <3> QED BY <2>1, <3>1, PlacesAre, SizesArePositive, EntriesAreTyped
  <2> HIDE DEF f, n, c, e, s
  <2>7. ASSUME NEW j \in 1 .. Len(s)
        PROVE  /\ ByteOffset(f, 2 * n + j) = ByteOffset(f, 2 * n + j - 1) + s[j].len
               /\ s[j].len \in Nat /\ ByteOffset(f, 2 * n + j - 1) \in Nat
    <3>1. 2 * n - 1 + j \in 1 .. c /\ 2 * n - 1 + j \in 1 .. Len(f) /\ 2 * n - 1 + j \in 1 .. Len(f) + 1
      BY <1>1, <1>5, <2>2, <2>3, <2>4 DEF RecordsShape
    <3>2. f[2 * n - 1 + j] = s[j]
      BY <2>3, <2>4, <3>1 DEF RecordsShape
    <3>3. f[2 * n - 1 + j].len \in Nat
      BY <3>1, LayoutIsArchive DEF IsArchive, f
    <3>4. (2 * n - 1 + j) + 1 = 2 * n + j /\ 2 * n - 1 + j = 2 * n + j - 1
      BY <1>1
    <3> QED BY <1>3, <3>1, <3>2, <3>3, <3>4
  <2>8. CASE Len(s) = 1 /\ s[1].len = w.entries[n].csize
    <3>1. 1 \in 1 .. Len(s) /\ 2 * n + 1 - 1 = 2 * n /\ c + 1 = 2 * n + 1
      BY <1>1, <2>3, <2>8
    <3>2. ByteOffset(f, 2 * n + 1) = ByteOffset(f, 2 * n) + s[1].len
      BY <2>7, <3>1
    <3>3. ByteOffset(f, c + 1) = Offset(w, n + 1)
      BY <2>5, <2>6, <2>8, <3>1, <3>2
    <3> QED BY <3>3 DEF f, c, n
  <2>9. CASE Len(s) = 4 /\ s[1].len + s[2].len + s[3].len + s[4].len = w.entries[n].csize
    <3>1. /\ 1 \in 1 .. Len(s) /\ 2 \in 1 .. Len(s) /\ 3 \in 1 .. Len(s) /\ 4 \in 1 .. Len(s)
          /\ 2 * n + 1 - 1 = 2 * n /\ 2 * n + 2 - 1 = 2 * n + 1 /\ 2 * n + 3 - 1 = 2 * n + 2
          /\ 2 * n + 4 - 1 = 2 * n + 3 /\ c + 1 = 2 * n + 4
      BY <1>1, <2>3, <2>9
    <3>2. /\ ByteOffset(f, 2 * n + 1) = ByteOffset(f, 2 * n) + s[1].len
          /\ ByteOffset(f, 2 * n + 2) = ByteOffset(f, 2 * n + 1) + s[2].len
          /\ ByteOffset(f, 2 * n + 3) = ByteOffset(f, 2 * n + 2) + s[3].len
          /\ ByteOffset(f, 2 * n + 4) = ByteOffset(f, 2 * n + 3) + s[4].len
          /\ s[1].len \in Nat /\ s[2].len \in Nat /\ s[3].len \in Nat /\ s[4].len \in Nat
      BY <2>7, <3>1
    <3>3. ByteOffset(f, c + 1) = Offset(w, n + 1)
      BY <2>5, <2>6, <2>9, <3>1, <3>2
    <3> QED BY <3>3 DEF f, c, n
  <2> QED BY <2>2, <2>8, <2>9
<1> QED BY <1>1, <1>4, <1>5

\* The tags and the lengths of the records at the end.
LEMMA EndingTags ==
    ASSUME NEW w, IsForeign(w)
    PROVE  /\ w.zip64 =>
                 /\ Len(Ending(w)) = 3
                 /\ Ending(w)[1].tag = "rec64" /\ Ending(w)[1].len = kRec64
                 /\ Ending(w)[2].tag = "locator" /\ Ending(w)[2].len = kLocator
                 /\ Ending(w)[3].tag = "eocd" /\ Ending(w)[3].len = kEndOfCD
           /\ ~w.zip64 =>
                 Len(Ending(w)) = 1 /\ Ending(w)[1].tag = "eocd" /\ Ending(w)[1].len = kEndOfCD
<1>1. \A tag, len : Says(w, tag, len).tag = tag /\ Says(w, tag, len).len = len
  BY DEF Says, EndRecord
<1>2. /\ EndRecord("locator", kLocator, 0, 0, 0).tag = "locator"
      /\ EndRecord("locator", kLocator, 0, 0, 0).len = kLocator
      /\ EndRecord("eocd", kEndOfCD, Saturated, Saturated, 0).tag = "eocd"
      /\ EndRecord("eocd", kEndOfCD, Saturated, Saturated, 0).len = kEndOfCD
  BY DEF EndRecord
<1> QED BY <1>1, <1>2, EndingIs

\* The records with a tag that the reader looks for are those at the end, or in an
\* archive in the archive.
LEMMA TagsAre ==
    ASSUME NEW w, IsForeign(w), WellPlaced(w), NEW tag \in {"rec64", "locator", "eocd"},
           NEW i \in DOMAIN Layout(w), Layout(w)[i].tag = tag
    PROVE  LET c == Len(Entries(w))
               n == Len(w.entries)
           IN  \/ i \in 1 .. c /\ w.inner
               \/ \E j \in 1 .. Len(Ending(w)) : i = c + n + j /\ Ending(w)[j].tag = tag
<1> DEFINE c == Len(Entries(w))
           n == Len(w.entries)
           e == Len(Ending(w))
           f == Layout(w)
<1>1. RecordsShape(w, f, c, n, e)
  BY RecordsAre
<1>2. \A k \in 1 .. c : w.inner \/ Entries(w)[k].tag \in {"local", "none"}
  BY EntriesTags
<1>3. \A k \in 1 .. n : Header(w, k).tag = "cd"
  <2> SUFFICES ASSUME NEW k \in 1 .. n PROVE Header(w, k).tag = "cd"
    OBVIOUS
  <2>1. k # w.damaged
    BY EntriesAreTyped DEF WellPlaced
  <2> QED BY <2>1 DEF Header
<1>4. Bytes(w.comment).tag = "none"
  BY DEF Bytes
<1>5. i \in DOMAIN f /\ f[i].tag = tag /\ tag \notin {"local", "none", "cd"}
  OBVIOUS
<1> HIDE DEF c, n, e, f
<1>6. CASE i \in 1 .. c
  BY <1>1, <1>2, <1>5, <1>6 DEF RecordsShape, c
<1>7. CASE i \in c + 1 .. c + n
  <2>1. i - c \in 1 .. n /\ c + (i - c) = i
    BY <1>1, <1>7 DEF RecordsShape
  <2>2. f[i] = Header(w, i - c)
    BY <1>1, <2>1 DEF RecordsShape
  <2> QED BY <1>3, <1>5, <2>1, <2>2
<1>8. CASE i \in c + n + 1 .. c + n + e
  <2>1. i - (c + n) \in 1 .. e /\ c + n + (i - (c + n)) = i
    BY <1>1, <1>8 DEF RecordsShape
  <2>2. f[i] = Ending(w)[i - (c + n)]
    BY <1>1, <2>1 DEF RecordsShape
  <2> QED BY <1>5, <2>1, <2>2 DEF c, n, e
<1>9. CASE i = c + n + e + 1
  BY <1>1, <1>4, <1>5, <1>9 DEF RecordsShape
<1>10. \/ i \in 1 .. c \/ i \in c + 1 .. c + n \/ i \in c + n + 1 .. c + n + e
       \/ i = c + n + e + 1
  BY <1>1, <1>5 DEF RecordsShape
<1> QED BY <1>6, <1>7, <1>8, <1>9, <1>10

\* The place of the last record of a tag.
LEMMA FoundIsLast ==
    ASSUME NEW f, NEW tag, NEW i \in Tagged(f, tag), \A j \in Tagged(f, tag) : j <= i,
           Tagged(f, tag) \subseteq Nat
    PROVE  Found(f, tag) = i
<1> DEFINE P(k) == k \in Tagged(f, tag) /\ \A j \in Tagged(f, tag) : j <= k
<1>1. \A k : P(k) => k = i
  <2> SUFFICES ASSUME NEW k, P(k) PROVE k = i
    OBVIOUS
  <2> QED OBVIOUS
<1>2. P(i)
  OBVIOUS
<1>3. Found(f, tag) = CHOOSE k \in Tagged(f, tag) : \A j \in Tagged(f, tag) : j <= k
  BY DEF Found
<1> QED BY <1>1, <1>2, <1>3

\* The records at the end are in the part that is searched.
LEMMA EndingIsSearched ==
    ASSUME NEW w, IsForeign(w), WellPlaced(w), NEW j \in 1 .. Len(Ending(w))
    PROVE  ByteOffset(Layout(w), Len(Entries(w)) + Len(w.entries) + j) + kMaxSizeOfCDRec >=
               Size(Layout(w))
<1> DEFINE c == Len(Entries(w))
           n == Len(w.entries)
           e == Len(Ending(w))
           f == Layout(w)
           at == c + n
<1>1. RecordsShape(w, f, c, n, e)
  BY RecordsAre
<1>2. IsArchive(f) /\ Size(f) = ByteOffset(f, Len(f) + 1)
  BY LayoutIsArchive DEF Size
<1>3. /\ \A i \in 1 .. Len(f) + 1 : ByteOffset(f, i) \in Nat
      /\ \A i \in 1 .. Len(f) : ByteOffset(f, i + 1) = ByteOffset(f, i) + f[i].len
  BY <1>2, OffsetsAre
<1>4. kEndOfCD + w.comment + (IF w.zip64 THEN kRec64 + kLocator ELSE 0) <= kMaxSizeOfCDRec
  BY DEF WellPlaced
<1>5. w.comment \in Nat /\ kMaxSizeOfCDRec \in Nat /\ w.zip64 \in BOOLEAN
  BY ReaderAssumption DEF IsForeign
<1>6. Bytes(w.comment).len = w.comment
  BY DEF Bytes
<1> HIDE DEF c, n, e, f
<1>7. at \in Nat /\ Len(f) = at + e + 1 /\ e \in Nat /\ f[at + e + 1].len = w.comment
  BY <1>1, <1>6 DEF RecordsShape
<1>8. \A k \in 1 .. e : f[at + k] = Ending(w)[k]
  BY <1>1 DEF RecordsShape
<1>9. CASE w.zip64
  <2>1. e = 3 /\ Ending(w)[1].len = kRec64 /\ Ending(w)[2].len = kLocator /\ Ending(w)[3].len = kEndOfCD
    BY <1>9, EndingIs, EndingTags DEF e
  <2> HIDE DEF at
  <2>2. /\ f[at + 1].len = kRec64 /\ f[at + 2].len = kLocator /\ f[at + 3].len = kEndOfCD
        /\ f[at + 4].len = w.comment /\ Len(f) = at + 4
    BY <1>7, <1>8, <2>1
  <2>3. /\ at + 1 \in 1 .. Len(f) /\ at + 2 \in 1 .. Len(f)
        /\ at + 3 \in 1 .. Len(f) /\ at + 4 \in 1 .. Len(f)
        /\ (at + 1) + 1 = at + 2 /\ (at + 2) + 1 = at + 3
        /\ (at + 3) + 1 = at + 4 /\ (at + 4) + 1 = Len(f) + 1
        /\ at + 1 \in 1 .. Len(f) + 1
    BY <1>7, <2>2
  <2>4. /\ ByteOffset(f, at + 2) = ByteOffset(f, at + 1) + kRec64
        /\ ByteOffset(f, at + 3) = ByteOffset(f, at + 2) + kLocator
        /\ ByteOffset(f, at + 4) = ByteOffset(f, at + 3) + kEndOfCD
        /\ ByteOffset(f, Len(f) + 1) = ByteOffset(f, at + 4) + w.comment
        /\ ByteOffset(f, at + 1) \in Nat
    BY <1>3, <2>2, <2>3
  <2>5. kEndOfCD + w.comment + (kRec64 + kLocator) <= kMaxSizeOfCDRec
    BY <1>4, <1>9
  <2>6. j = 1 \/ j = 2 \/ j = 3
    BY <2>1 DEF e
  <2>7. ByteOffset(f, at + j) + kMaxSizeOfCDRec >= Size(f)
    <3>1. CASE j = 1
      BY <1>2, <1>5, <2>4, <2>5, <3>1, LengthsArePositive
    <3>2. CASE j = 2
      BY <1>2, <1>5, <2>4, <2>5, <3>2, LengthsArePositive
    <3>3. CASE j = 3
      BY <1>2, <1>5, <2>4, <2>5, <3>3, LengthsArePositive
    <3> QED BY <2>6, <3>1, <3>2, <3>3
  <2> QED BY <2>7 DEF at, c, n, f
<1>10. CASE ~w.zip64
  <2>1. e = 1 /\ Ending(w)[1].len = kEndOfCD
    BY <1>10, EndingIs, EndingTags DEF e
  <2> HIDE DEF at
  <2>2. f[at + 1].len = kEndOfCD /\ f[at + 2].len = w.comment /\ Len(f) = at + 2
    BY <1>7, <1>8, <2>1
  <2>3. /\ at + 1 \in 1 .. Len(f) /\ at + 2 \in 1 .. Len(f) /\ at + 1 \in 1 .. Len(f) + 1
        /\ (at + 1) + 1 = at + 2 /\ (at + 2) + 1 = Len(f) + 1
    BY <1>7, <2>2
  <2>4. /\ ByteOffset(f, at + 2) = ByteOffset(f, at + 1) + kEndOfCD
        /\ ByteOffset(f, Len(f) + 1) = ByteOffset(f, at + 2) + w.comment
        /\ ByteOffset(f, at + 1) \in Nat
    BY <1>3, <2>2, <2>3
  <2>5. kEndOfCD + w.comment <= kMaxSizeOfCDRec
    BY <1>4, <1>5, <1>10, LengthsArePositive
  <2>6. j = 1
    BY <2>1 DEF e
  <2>7. ByteOffset(f, at + j) + kMaxSizeOfCDRec >= Size(f)
    BY <1>2, <1>5, <2>4, <2>5, <2>6, LengthsArePositive
  <2> QED BY <2>7 DEF at, c, n, f
<1> QED BY <1>5, <1>9, <1>10

\* The reader finds what says where the directory is.
LEMMA DirectoryIsFound ==
    ASSUME NEW w, IsForeign(w), WellPlaced(w)
    PROVE  /\ Tagged(Layout(w), "eocd") # {}
           /\ Directory(Layout(w)).bytes = DirectorySize(w)
           /\ Directory(Layout(w)).offset = Offset(w, Len(w.entries) + 1)
           /\ Directory(Layout(w)).count = Len(w.entries)
<1> DEFINE c == Len(Entries(w))
           n == Len(w.entries)
           e == Len(Ending(w))
           f == Layout(w)
           at == c + n
<1>1. RecordsShape(w, f, c, n, e)
  BY RecordsAre
<1>2. \A j \in 1 .. e : ByteOffset(f, at + j) + kMaxSizeOfCDRec >= Size(f)
  BY EndingIsSearched
<1>3. \A tag \in {"rec64", "locator", "eocd"}, i \in DOMAIN f :
         f[i].tag = tag => \/ i \in 1 .. c /\ w.inner
                           \/ \E j \in 1 .. e : i = at + j /\ Ending(w)[j].tag = tag
  BY TagsAre
<1>4. w.zip64 \in BOOLEAN /\ (w.inner => w.zip64)
  BY DEF IsForeign, WellPlaced
<1> HIDE DEF c, n, e, f
<1>5. at \in Nat /\ at >= c /\ c \in Nat /\ DOMAIN f = 1 .. at + e + 1 /\ e \in Nat
  BY <1>1 DEF RecordsShape
<1>6. \A j \in 1 .. e : f[at + j] = Ending(w)[j]
  BY <1>1 DEF RecordsShape
<1> HIDE DEF at
<1>7. ASSUME NEW tag \in {"rec64", "locator", "eocd"}, NEW j \in 1 .. e, Ending(w)[j].tag = tag
      PROVE  at + j \in Tagged(f, tag)
  <2>1. at + j \in DOMAIN f
    BY <1>5
  <2>2. f[at + j].tag = tag /\ ByteOffset(f, at + j) + kMaxSizeOfCDRec >= Size(f)
    BY <1>2, <1>6, <1>7
  <2> QED BY <2>1, <2>2 DEF Tagged
<1>8. \A tag : Tagged(f, tag) \subseteq Nat
  BY <1>5 DEF Tagged
<1>9. CASE w.zip64
  <2>1. /\ e = 3 /\ Ending(w)[1].tag = "rec64"
        /\ Ending(w)[2].tag = "locator" /\ Ending(w)[3].tag = "eocd"
        /\ Ending(w)[1] = Says(w, "rec64", kRec64)
    BY <1>9, EndingIs, EndingTags DEF e
  <2>2. at + 1 \in Tagged(f, "rec64") /\ at + 2 \in Tagged(f, "locator") /\ at + 3 \in Tagged(f, "eocd")
    BY <1>7, <2>1
  <2>3. ASSUME NEW i \in Tagged(f, "rec64")
        PROVE  i <= at + 1
    <3>1. i \in DOMAIN f /\ f[i].tag = "rec64"
      BY DEF Tagged
    <3>2. CASE i \in 1 .. c
      BY <1>5, <3>2
    <3>3. ASSUME NEW j \in 1 .. e, i = at + j, Ending(w)[j].tag = "rec64"
          PROVE  i <= at + 1
      <4>1. j = 1
        BY <2>1, <3>3
      <4> QED BY <1>5, <3>3, <4>1
    <3> QED BY <1>3, <3>1, <3>2, <3>3
  <2>4. Found(f, "rec64") = at + 1
    BY <1>8, <2>2, <2>3, FoundIsLast
  <2>5. IsZip64(f)
    BY <2>2 DEF IsZip64
  <2>6. Directory(f) = Says(w, "rec64", kRec64)
    BY <1>6, <2>1, <2>4, <2>5 DEF Directory
  <2> QED BY <2>2, <2>6 DEF f, Says, EndRecord
<1>10. CASE ~w.zip64
  <2>1. e = 1 /\ Ending(w)[1].tag = "eocd" /\ Ending(w)[1] = Says(w, "eocd", kEndOfCD)
    BY <1>10, EndingIs, EndingTags DEF e
  <2>2. at + 1 \in Tagged(f, "eocd")
    BY <1>7, <2>1
  <2>3. ASSUME NEW tag \in {"rec64", "locator", "eocd"}, NEW i \in Tagged(f, tag)
        PROVE  i = at + 1 /\ tag = "eocd"
    <3>1. i \in DOMAIN f /\ f[i].tag = tag
      BY DEF Tagged
    <3>2. PICK j \in 1 .. e : i = at + j /\ Ending(w)[j].tag = tag
      BY <1>3, <1>4, <1>10, <3>1
    <3> QED BY <2>1, <3>2
  <2>4. Found(f, "eocd") = at + 1
    <3>1. \A i \in Tagged(f, "eocd") : i <= at + 1
      BY <1>5, <2>3
    <3> QED BY <1>8, <2>2, <3>1, FoundIsLast
  <2>5. ~IsZip64(f)
    <3>1. Tagged(f, "locator") = {}
      BY <2>3
    <3> QED BY <3>1 DEF IsZip64
  <2>6. Directory(f) = Says(w, "eocd", kEndOfCD)
    BY <1>6, <2>1, <2>4, <2>5 DEF Directory
  <2> QED BY <2>2, <2>6 DEF f, Says, EndRecord
<1> QED BY <1>4, <1>9, <1>10

--------------------------------------------------------------------------------
(* What the reader makes of them *)

\* cZipCD::Init succeeds.
LEMMA ArchiveOpens ==
    ASSUME NEW w, IsForeign(w), WellPlaced(w)
    PROVE  CanOpen(Layout(w))
<1> DEFINE c == Len(Entries(w))
           n == Len(w.entries)
           e == Len(Ending(w))
           f == Layout(w)
<1>1. RecordsShape(w, f, c, n, e)
  BY RecordsAre
<1>2. IsArchive(f) /\ Size(f) = ByteOffset(f, Len(f) + 1)
  BY LayoutIsArchive DEF Size
<1>3. Directory(f).bytes = DirectorySize(w) /\ Tagged(f, "eocd") # {}
      /\ Directory(f).offset = ByteOffset(f, c + 1)
  BY DirectoryIsFound, DirectoryIsAt
<1>4. DirectorySize(w) <= kMaxReasonableCDBytes
  BY DEF WellPlaced
<1>5. PICK j \in 1 .. e : Ending(w)[j].tag = "eocd" /\ Ending(w)[j].len = kEndOfCD
  <2>1. w.zip64 \/ ~w.zip64
    OBVIOUS
  <2> QED BY <2>1, EndingTags
<1> HIDE DEF c, n, e, f
<1>6. /\ c + n + j \in 1 .. Len(f) /\ f[c + n + j].len = kEndOfCD
      /\ c \in Nat /\ n \in Nat /\ e \in Nat /\ Len(f) = c + n + e + 1 /\ j \in Nat /\ j > 0
  BY <1>1, <1>5 DEF RecordsShape
<1>7. ByteOffset(f, c + 1) < ByteOffset(f, Len(f) + 1)
  <2>1. /\ \A i \in 1 .. Len(f) + 1 : ByteOffset(f, i) \in Nat
        /\ \A i \in 1 .. Len(f) : \A k \in i + 1 .. Len(f) + 1 :
              ByteOffset(f, i) + f[i].len <= ByteOffset(f, k)
        /\ \A i \in 1 .. Len(f) : f[i].len \in Nat
    BY <1>2, OffsetsAre DEF IsArchive
  <2>2. c + 1 \in 1 .. Len(f) /\ c + 1 \in 1 .. Len(f) + 1 /\ Len(f) + 1 \in 1 .. Len(f) + 1
        /\ c + n + j \in 1 .. Len(f) + 1 /\ Len(f) + 1 \in (c + n + j) + 1 .. Len(f) + 1
    BY <1>6
  <2>3. ByteOffset(f, c + n + j) + kEndOfCD <= ByteOffset(f, Len(f) + 1)
    BY <1>6, <2>1, <2>2
  <2>4. ByteOffset(f, c + 1) <= ByteOffset(f, c + n + j)
    <3>1. CASE c + n + j = c + 1
      BY <2>1, <2>2, <3>1
    <3>2. CASE c + n + j # c + 1
      <4>1. c + n + j \in (c + 1) + 1 .. Len(f) + 1
        BY <1>6, <3>2
      <4>2. ByteOffset(f, c + 1) + f[c + 1].len <= ByteOffset(f, c + n + j)
        BY <2>1, <2>2, <4>1
      <4> QED BY <2>1, <2>2, <4>2
    <3> QED BY <3>1, <3>2
  <2>5. /\ ByteOffset(f, c + 1) \in Nat /\ ByteOffset(f, c + n + j) \in Nat
        /\ ByteOffset(f, Len(f) + 1) \in Nat
    BY <1>6, <2>1, <2>2
  <2> QED BY <2>3, <2>4, <2>5, LengthsArePositive
<1> QED BY <1>2, <1>3, <1>4, <1>7 DEF CanOpen, f

\* The block of extra fields that has the values which do not fit.
LEMMA ExtraIs ==
    ASSUME NEW w, IsForeign(w), NEW k \in DOMAIN w.entries
    PROVE  LET e == w.entries[k]
               h == Header(w, k)
           IN  /\ w.saturated = {} => Zip64Blocks(h) = {}
               /\ w.saturated # {} =>
                     /\ Zip64Blocks(h) # {}
                     /\ Zip64Block(h).values =
                           Long(w, "usize", Len(e.data)) \o Long(w, "csize", e.csize) \o
                           Long(w, "offset", Offset(w, k))
<1> DEFINE e == w.entries[k]
           h == Header(w, k)
           v == Long(w, "usize", Len(e.data)) \o Long(w, "csize", e.csize) \o
                Long(w, "offset", Offset(w, k))
           b == Block("zip64", v)
           o == Block("other", <<>>)
           p == IF w.other THEN <<o>> ELSE <<>>
           q == IF w.saturated = {} THEN <<>> ELSE <<b>>
<1>1. h.extra = p \o q
  BY DEF Header, Extra
<1>2. b.tag = "zip64" /\ b.values = v /\ o.tag = "other"
  BY DEF Block
<1>3. q \in Seq({o, b})
  <2>1. q = <<>> \/ q = <<b>>
    OBVIOUS
  <2>2. <<>> \in Seq({o, b}) /\ <<b>> \in Seq({o, b})
    <3> HIDE DEF o, b, q
    <3> QED OBVIOUS
  <2> HIDE DEF o, b, q
  <2> QED BY <2>1, <2>2, Zenon
<1>4. p \in Seq({o, b}) /\ q \in Seq({o, b}) /\ \A i \in 1 .. Len(p) : p[i] = o
  <2>1. CASE w.other
    <3>1. p = <<o>>
      BY <2>1
    <3> HIDE DEF o, b, p
    <3>2. p \in Seq({o, b}) /\ \A i \in 1 .. Len(p) : p[i] = o
      BY <3>1
    <3> QED BY <1>3, <3>2
  <2>2. CASE ~w.other
    <3>1. p = <<>>
      BY <2>2
    <3> HIDE DEF o, b, p
    <3>2. p \in Seq({o, b}) /\ \A i \in 1 .. Len(p) : p[i] = o
      BY <3>1
    <3> QED BY <1>3, <3>2
  <2> QED BY <2>1, <2>2
<1>5. /\ w.saturated = {} => Len(q) = 0
      /\ w.saturated # {} => Len(q) = 1 /\ q[1] = b
  <2> HIDE DEF o, b
  <2> QED OBVIOUS
<1> HIDE DEF p, q, o, b, v, e, h
<1>6. /\ p \o q \in Seq({o, b})
      /\ Len(p) \in Nat /\ Len(q) \in Nat /\ Len(p \o q) = Len(p) + Len(q)
      /\ \A i \in 1 .. Len(p) : (p \o q)[i] = p[i]
      /\ \A i \in 1 .. Len(q) : (p \o q)[Len(p) + i] = q[i]
  BY <1>4, ConcatIs
<1>7. DOMAIN h.extra = 1 .. Len(p) + Len(q)
  BY <1>1, <1>6, LenProperties
<1>8. \A i \in 1 .. Len(p) : h.extra[i].tag = "other"
  BY <1>1, <1>2, <1>4, <1>6
<1>9. CASE w.saturated = {}
  <2>1. Zip64Blocks(h) = {}
    BY <1>5, <1>6, <1>7, <1>8, <1>9 DEF Zip64Blocks
  <2> QED BY <1>9, <2>1 DEF h
<1>10. CASE w.saturated # {}
  <2>1. Len(p) + 1 \in DOMAIN h.extra /\ h.extra[Len(p) + 1] = b
    BY <1>1, <1>5, <1>6, <1>7, <1>10
  <2>2. Zip64Blocks(h) = {Len(p) + 1}
    <3>1. Len(p) + 1 \in Zip64Blocks(h)
      BY <1>2, <2>1 DEF Zip64Blocks
    <3>2. ASSUME NEW i \in Zip64Blocks(h) PROVE i = Len(p) + 1
      <4>1. i \in 1 .. Len(p) + 1 /\ h.extra[i].tag = "zip64"
        BY <1>5, <1>7, <1>10 DEF Zip64Blocks
      <4> QED BY <1>6, <1>8, <4>1
    <3> QED BY <3>1, <3>2
  <2>3. Zip64Block(h) = b
    <3>1. Zip64Block(h) = h.extra[CHOOSE i \in Zip64Blocks(h) : \A j \in Zip64Blocks(h) : i <= j]
      BY DEF Zip64Block
    <3>2. (CHOOSE i \in Zip64Blocks(h) : \A j \in Zip64Blocks(h) : i <= j) = Len(p) + 1
      BY <1>6, <2>2
    <3> QED BY <2>1, <3>1, <3>2
  <2> QED BY <1>2, <1>10, <2>2, <2>3 DEF h, v, e
<1> QED BY <1>9, <1>10

\* Where the values are in that block.
LEMMA ValuesAre ==
    ASSUME NEW w, NEW h, NEW u \in Nat, NEW c \in Nat, NEW o \in Nat,
           Missing(h, "usize") = IF "usize" \in w.saturated THEN 1 ELSE 0,
           Missing(h, "csize") = IF "csize" \in w.saturated THEN 1 ELSE 0
    PROVE  LET v == Long(w, "usize", u) \o Long(w, "csize", c) \o Long(w, "offset", o)
           IN  /\ "usize" \in w.saturated => v[Place(h).usize] = u
               /\ "csize" \in w.saturated => v[Place(h).csize] = c
               /\ "offset" \in w.saturated => v[Place(h).offset] = o
<1> DEFINE p == Long(w, "usize", u)
           q == Long(w, "csize", c)
           r == Long(w, "offset", o)
           m == Missing(h, "usize")
           n == Missing(h, "csize")
<1>1. p \in Seq(Nat) /\ Len(p) = m /\ ("usize" \in w.saturated => m = 1 /\ p[1] = u)
  BY DEF Long
<1>2. q \in Seq(Nat) /\ Len(q) = n /\ ("csize" \in w.saturated => n = 1 /\ q[1] = c)
  BY DEF Long
<1>3. r \in Seq(Nat) /\ ("offset" \in w.saturated => Len(r) = 1 /\ r[1] = o)
  BY DEF Long
<1>4. Place(h).usize = 1 /\ Place(h).csize = 1 + m /\ Place(h).offset = 1 + m + n
  BY DEF Place
<1>5. m \in Nat /\ n \in Nat
  OBVIOUS
<1> HIDE DEF p, q, r, m, n
<1>6. /\ p \o q \in Seq(Nat) /\ Len(p \o q) = m + n
      /\ \A i \in 1 .. m : (p \o q)[i] = p[i]
      /\ \A i \in 1 .. n : (p \o q)[m + i] = q[i]
  <2>1. /\ p \o q \in Seq(Nat) /\ Len(p \o q) = Len(p) + Len(q)
        /\ \A i \in 1 .. Len(p) : (p \o q)[i] = p[i]
        /\ \A i \in 1 .. Len(q) : (p \o q)[Len(p) + i] = q[i]
    BY <1>1, <1>2, ConcatIs
  <2> QED BY <1>1, <1>2, <2>1
<1>7. /\ \A i \in 1 .. m + n : (p \o q \o r)[i] = (p \o q)[i]
      /\ \A i \in 1 .. Len(r) : (p \o q \o r)[m + n + i] = r[i]
  <2> DEFINE s == p \o q
  <2>1. s \in Seq(Nat) /\ Len(s) = m + n
    BY <1>6
  <2> HIDE DEF s
  <2>2. /\ \A i \in 1 .. Len(s) : (s \o r)[i] = s[i]
        /\ \A i \in 1 .. Len(r) : (s \o r)[Len(s) + i] = r[i]
    BY <1>3, <2>1, ConcatIs
  <2>3. /\ \A i \in 1 .. m + n : (s \o r)[i] = s[i]
        /\ \A i \in 1 .. Len(r) : (s \o r)[m + n + i] = r[i]
    BY <2>1, <2>2
  <2> QED BY <2>3 DEF s
<1> DEFINE v == p \o q \o r
<1>8. "usize" \in w.saturated => v[1] = u
  <2> SUFFICES ASSUME "usize" \in w.saturated PROVE v[1] = u
    OBVIOUS
  <2>1. 1 \in 1 .. m /\ 1 \in 1 .. m + n
    BY <1>1, <1>5
  <2> QED BY <1>1, <1>6, <1>7, <2>1
<1>9. "csize" \in w.saturated => v[1 + m] = c
  <2> SUFFICES ASSUME "csize" \in w.saturated PROVE v[1 + m] = c
    OBVIOUS
  <2>1. 1 \in 1 .. n /\ m + 1 \in 1 .. m + n /\ 1 + m = m + 1
    BY <1>2, <1>5
  <2> QED BY <1>2, <1>6, <1>7, <2>1
<1>10. "offset" \in w.saturated => v[1 + m + n] = o
  <2> SUFFICES ASSUME "offset" \in w.saturated PROVE v[1 + m + n] = o
    OBVIOUS
  <2>1. 1 \in 1 .. Len(r) /\ 1 + m + n = m + n + 1
    BY <1>3, <1>5
  <2> QED BY <1>3, <1>7, <2>1
<1>11. v = p \o q \o r
  OBVIOUS
<1> HIDE DEF v
<1>12. /\ "usize" \in w.saturated => v[Place(h).usize] = u
       /\ "csize" \in w.saturated => v[Place(h).csize] = c
       /\ "offset" \in w.saturated => v[Place(h).offset] = o
  BY <1>4, <1>8, <1>9, <1>10
<1> QED BY <1>12 DEF v, p, q, r

\* A header is parsed as it was written.
LEMMA HeaderIsParsed ==
    ASSUME NEW w, IsForeign(w), NEW k \in DOMAIN w.entries
    PROVE  LET e == w.entries[k]
           IN  Parsed(Header(w, k)) =
                  [name |-> e.name, crc |-> e.data, usize |-> Len(e.data), csize |-> e.csize,
                   offset |-> Offset(w, k)]
<1> DEFINE e == w.entries[k]
           h == Header(w, k)
           u == Len(e.data)
           c == e.csize
           o == Offset(w, k)
           v == Long(w, "usize", u) \o Long(w, "csize", c) \o Long(w, "offset", o)
<1>1. u \in Nat /\ c \in Nat /\ o \in Nat
  <2>1. k \in 1 .. Len(w.entries) + 1
    BY EntriesAreTyped
  <2> QED BY <2>1, EntriesAreTyped, PlacesAre
<1>2. /\ h.name = e.name /\ h.crc = e.data
      /\ h.usize = Short(w, "usize", u) /\ h.csize = Short(w, "csize", c)
      /\ h.offset = Short(w, "offset", o)
  BY DEF Header
<1>3. /\ "usize" \in w.saturated \/ u < Saturated
      /\ "csize" \in w.saturated \/ c < Saturated
      /\ "offset" \in w.saturated \/ o < Saturated
  BY DEF IsForeign
<1>4. /\ w.saturated = {} => Zip64Blocks(h) = {}
      /\ w.saturated # {} => Zip64Blocks(h) # {} /\ Zip64Block(h).values = v
  BY ExtraIs
<1> HIDE DEF e, h, u, c, o
<1>5. /\ "usize" \in w.saturated => h.usize = Saturated
      /\ "usize" \notin w.saturated => h.usize = u /\ h.usize # Saturated
      /\ "csize" \in w.saturated => h.csize = Saturated
      /\ "csize" \notin w.saturated => h.csize = c /\ h.csize # Saturated
      /\ "offset" \in w.saturated => h.offset = Saturated
      /\ "offset" \notin w.saturated => h.offset = o /\ h.offset # Saturated
  BY <1>1, <1>2, <1>3, ReaderAssumption DEF Short
<1>6. /\ Missing(h, "usize") = IF "usize" \in w.saturated THEN 1 ELSE 0
      /\ Missing(h, "csize") = IF "csize" \in w.saturated THEN 1 ELSE 0
  BY <1>5 DEF Missing
<1>7. /\ "usize" \in w.saturated => v[Place(h).usize] = u
      /\ "csize" \in w.saturated => v[Place(h).csize] = c
      /\ "offset" \in w.saturated => v[Place(h).offset] = o
  BY <1>1, <1>6, ValuesAre
<1> HIDE DEF v
<1>8. Field(h, "usize") = u
  BY <1>4, <1>5, <1>7 DEF Field
<1>9. Field(h, "csize") = c
  BY <1>4, <1>5, <1>7 DEF Field
<1>10. Field(h, "offset") = o
  BY <1>4, <1>5, <1>7 DEF Field
<1> QED BY <1>2, <1>8, <1>9, <1>10 DEF Parsed, e, h, u, c, o

\* The directory is read as it was written.
LEMMA ListedIs ==
    ASSUME NEW w, IsForeign(w), WellPlaced(w)
    PROVE  Listed(Layout(w)) = [k \in 1 .. Len(w.entries) |-> Parsed(Header(w, k))]
<1> DEFINE c == Len(Entries(w))
           n == Len(w.entries)
           e == Len(Ending(w))
           f == Layout(w)
           first == RecordAt(f, Directory(f).offset)
           IsRead(k) == \A i \in first .. first + k - 1 : IsHeader(f, i)
<1>1. RecordsShape(w, f, c, n, e) /\ IsArchive(f)
  BY RecordsAre, LayoutIsArchive
<1>2. Directory(f).count = n /\ Directory(f).offset = ByteOffset(f, c + 1)
  BY DirectoryIsFound, DirectoryIsAt
<1>3. Listed(f) = [k \in 1 .. n |-> IF IsRead(k) THEN Parsed(f[first + k - 1]) ELSE Unparsed]
  BY <1>2 DEF Listed
<1>4. \A k \in 1 .. n : Header(w, k).tag = "cd" /\ Header(w, k).len = kCDHeader + ExtraSize(w)
  <2> SUFFICES ASSUME NEW k \in 1 .. n
               PROVE  Header(w, k).tag = "cd" /\ Header(w, k).len = kCDHeader + ExtraSize(w)
    OBVIOUS
  <2>1. k # w.damaged
    BY EntriesAreTyped DEF WellPlaced
  <2> QED BY <2>1 DEF Header
<1>5. ASSUME NEW k \in 1 .. n
      PROVE  IsRead(k) /\ f[first + k - 1] = Header(w, k)
  <2> HIDE DEF c, n, e, f
  <2>1. /\ c \in Nat /\ n \in Nat /\ e \in Nat /\ n > 0 /\ 1 \in 1 .. n
        /\ DOMAIN f = 1 .. c + n + e + 1 /\ \A j \in 1 .. n : f[c + j] = Header(w, j)
    BY <1>1, <1>5 DEF RecordsShape
  <2>2. first = c + 1
    <3>1. c + 1 \in DOMAIN f /\ f[c + 1].len > 0
      BY <1>4, <2>1, SizesArePositive
    <3> QED BY <1>1, <1>2, <3>1, RecordIsAt
  <2> HIDE DEF first
  <2>3. ASSUME NEW i \in first .. first + k - 1 PROVE IsHeader(f, i)
    <3>1. i - c \in 1 .. n /\ c + (i - c) = i /\ i \in DOMAIN f
      BY <2>1, <2>2
    <3>2. f[i].tag = "cd"
      BY <1>4, <2>1, <3>1
    <3> QED BY <3>1, <3>2 DEF IsHeader
  <2>4. first + k - 1 = c + k
    BY <2>1, <2>2
  <2> QED BY <2>1, <2>3, <2>4
<1> HIDE DEF first, IsRead, n
<1>6. Listed(f) = [k \in 1 .. n |-> Parsed(Header(w, k))]
  BY <1>3, <1>5
<1> QED BY <1>6 DEF f, n

\* What the reader takes from the directory leads to each entry.
LEMMA DirectoryReads ==
    ASSUME NEW w, IsForeign(w), WellPlaced(w)
    PROVE  /\ Len(Listed(Layout(w))) = Len(w.entries)
           /\ DOMAIN Listed(Layout(w)) = DOMAIN w.entries
           /\ \A k \in DOMAIN w.entries :
                 /\ Listed(Layout(w))[k].name = w.entries[k].name
                 /\ Listed(Layout(w))[k].crc = w.entries[k].data
                 /\ Listed(Layout(w))[k].usize = Len(w.entries[k].data)
                 /\ Listed(Layout(w))[k].csize = w.entries[k].csize
                 /\ StreamOffset(Layout(w), Listed(Layout(w))[k]) = ByteOffset(Layout(w), 2 * k)
<1> DEFINE f == Layout(w)
           n == Len(w.entries)
           l == Listed(f)
<1>1. n \in Nat /\ DOMAIN w.entries = 1 .. n
  BY EntriesAreTyped
<1>2. l = [k \in 1 .. n |-> Parsed(Header(w, k))]
  BY ListedIs
<1> HIDE DEF l
<1>3. Len(l) = n /\ DOMAIN l = 1 .. n
  <2> HIDE DEF n
  <2> QED BY <1>1, <1>2
<1>4. ASSUME NEW k \in DOMAIN w.entries
      PROVE  /\ l[k].name = w.entries[k].name /\ l[k].crc = w.entries[k].data
             /\ l[k].usize = Len(w.entries[k].data) /\ l[k].csize = w.entries[k].csize
             /\ StreamOffset(f, l[k]) = ByteOffset(f, 2 * k)
  <2>1. l[k] = Parsed(Header(w, k))
    BY <1>1, <1>2
  <2>2. l[k] = [name |-> w.entries[k].name, crc |-> w.entries[k].data, usize |-> Len(w.entries[k].data),
                csize |-> w.entries[k].csize, offset |-> Offset(w, k)]
    BY <2>1, HeaderIsParsed
  <2> DEFINE i == 2 * k - 1
  <2>3. /\ i \in DOMAIN f /\ f[i] = Local(w)
        /\ ByteOffset(f, i) = Offset(w, k) /\ ByteOffset(f, 2 * k) = Offset(w, k) + LocalSize(w)
    BY LocalsAre
  <2>4. IsArchive(f) /\ Local(w).tag = "local" /\ Local(w).len = LocalSize(w) /\ LocalSize(w) > 0
    BY LayoutIsArchive, SizesArePositive DEF Local
  <2> HIDE DEF i, f
  <2>5. RecordAt(f, Offset(w, k)) = i
    <3>1. RecordAt(f, ByteOffset(f, i)) = i
      BY <2>3, <2>4, RecordIsAt
    <3> QED BY <2>3, <3>1
  <2>6. l[k].offset = Offset(w, k)
    BY <2>2
  <2>7. StreamOffset(f, l[k]) = Offset(w, k) + LocalSize(w)
    BY <2>3, <2>4, <2>5, <2>6 DEF StreamOffset
  <2> QED BY <2>2, <2>3, <2>7
<1> QED BY <1>1, <1>3, <1>4 DEF l, f
===============================================================================
