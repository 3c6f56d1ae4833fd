--------------------------- MODULE CreateJobProofs ---------------------------
(***************************************************************************)
(* Proofs about CreateJob for all files, lengths of records, and faults.   *)
(*                                                                         *)
(* What the directory will list stays as it was written.  That follows     *)
(* because nothing is ever written in front of the end of the entries that *)
(* are complete: as long as nothing failed mnFileSize is the length of the *)
(* file, and once something has failed nothing is written any more.        *)
(*                                                                         *)
(* Then the directory itself: the variables keep their types, no reader    *)
(* ever gets a part of it, and what main finds after a finished job lists  *)
(* all that was added.  The sizes of the headers are added up by           *)
(* recursion, hence the induction.                                         *)
(***************************************************************************)
EXTENDS CreateJob, SequenceTheorems, InductionLemmas, TLAPS

IsSeq(s) == Len(s) \in Nat /\ s = [i \in 1 .. Len(s) |-> s[i]]

EndOf(e) == e.offset + HeaderSize(e.name) + e.size

\* The part of the stream of e that is in f.
Streamed(f, e) ==
    \A i \in 1 .. e.size :
       LET c == f[e.offset + HeaderSize(e.name) + i]
       IN  c.part = "data" /\ c.name = e.name /\ c.at = i

Typed ==
    /\ IsSeq(file) /\ mnFileSize \in Nat /\ failbit \in BOOLEAN
    /\ todo \in Seq(Names) /\ nth \in Nat \ {0}
    /\ list \in Seq(Entry)
    /\ job \in {"stream", "header"} => entry \in Entry

\* GetFileSize says how long the file is, as long as nothing failed.
SizeIsLength == ~failbit /\ job # "dead" => mnFileSize = Len(file)

\* The entry that is being added lies behind those that were, and its stream is in its
\* place, as far as it was written.
AddsBehind ==
    job \in {"stream", "header"} /\ ~failbit =>
       /\ \A k \in DOMAIN list : EndOf(list[k]) <= entry.offset
       /\ Len(file) = (IF entry.size = 0 THEN entry.offset ELSE EndOf(entry))
       /\ Streamed(file, entry)

IInv == Typed /\ SizeIsLength /\ EntriesIntact /\ AddsBehind

--------------------------------------------------------------------------------
\* A function on 1 .. n is a sequence of length n.
LEMMA FunctionIsSeq ==
    ASSUME NEW n \in Nat, NEW s, s = [i \in 1 .. n |-> s[i]]
    PROVE  IsSeq(s) /\ Len(s) = n
<1> DEFINE S == {s[i] : i \in 1 .. n}
<1>1. s \in [1 .. n -> S]
  OBVIOUS
<1>2. s \in Seq(S)
  BY <1>1, SeqDef
<1> QED BY <1>1, <1>2, LenProperties DEF IsSeq

LEMMA SeqIsSeq ==
    ASSUME NEW S, NEW s \in Seq(S)
    PROVE  IsSeq(s)
BY LenProperties DEF IsSeq

\* A beginning of a sequence.
LEMMA PrefixIsSeq ==
    ASSUME NEW s, IsSeq(s), NEW k \in 0 .. Len(s)
    PROVE  IsSeq(SubSeq(s, 1, k)) /\ Len(SubSeq(s, 1, k)) = k
<1> DEFINE S == {s[i] : i \in DOMAIN s}
<1>1. s \in [1 .. Len(s) -> S]
  BY DEF IsSeq
<1>2. s \in Seq(S)
  BY <1>1, SeqDef DEF IsSeq
<1>3. SubSeq(s, 1, k) \in Seq(S) /\ Len(SubSeq(s, 1, k)) = k
  BY <1>2, SubSeqProperties, LenProperties DEF IsSeq
<1> QED BY <1>3, SeqIsSeq

\* What Written returns: the cells in their place, and elsewhere what was there.
LEMMA WrittenIs ==
    ASSUME NEW f, IsSeq(f), NEW off \in Nat, NEW cells, IsSeq(cells)
    PROVE  LET w == Written(f, off, cells)
           IN  /\ IsSeq(w)
               /\ Len(w) = IF off + Len(cells) > Len(f) THEN off + Len(cells) ELSE Len(f)
               /\ \A i \in 1 .. Len(w) : i > off /\ i <= off + Len(cells) => w[i] = cells[i - off]
               /\ \A i \in 1 .. Len(f) : ~(i > off /\ i <= off + Len(cells)) => w[i] = f[i]
<1> DEFINE w == Written(f, off, cells)
           n == IF off + Len(cells) > Len(f) THEN off + Len(cells) ELSE Len(f)
<1>1. n \in Nat
  BY DEF IsSeq
<1>2. w = [i \in 1 .. n |-> w[i]]
  BY DEF Written
<1>3. IsSeq(w) /\ Len(w) = n
  BY <1>1, <1>2, FunctionIsSeq
<1>4. \A i \in 1 .. n : w[i] = IF i > off /\ i <= off + Len(cells) THEN cells[i - off]
                               ELSE IF i <= Len(f) THEN f[i] ELSE Gap
  BY DEF Written
<1> QED BY <1>1, <1>3, <1>4 DEF IsSeq

LEMMA HeaderSizeIsPositive ==
    ASSUME NEW name \in Names
    PROVE  HeaderSize(name) \in Nat \ {0}
BY RecordAssumption DEF HeaderSize

LEMMA RecordIs ==
    ASSUME NEW part, NEW len \in Nat, NEW name, NEW offset, NEW size, NEW count
    PROVE  LET r == Record(part, len, name, offset, size, count)
           IN  /\ IsSeq(r) /\ Len(r) = len
               /\ \A i \in 1 .. len : r[i].part = part /\ r[i].name = name /\ r[i].at = i
<1> DEFINE r == Record(part, len, name, offset, size, count)
<1>1. r = [i \in 1 .. len |-> r[i]]
  BY DEF Record
<1>2. IsSeq(r) /\ Len(r) = len
  BY <1>1, FunctionIsSeq
<1>3. \A i \in 1 .. len : r[i].part = part /\ r[i].name = name /\ r[i].at = i
  BY DEF Record
<1> QED BY <1>2, <1>3

LEMMA DataIs ==
    ASSUME NEW name, NEW from \in Nat, NEW len \in Nat, NEW tag
    PROVE  LET d == Data(name, from, len, tag)
           IN  /\ IsSeq(d) /\ Len(d) = len
               /\ \A i \in 1 .. len : d[i].part = "data" /\ d[i].name = name /\ d[i].at = from + i - 1
<1> DEFINE d == Data(name, from, len, tag)
<1>1. d = [i \in 1 .. len |-> d[i]]
  BY DEF Data
<1>2. IsSeq(d) /\ Len(d) = len
  BY <1>1, FunctionIsSeq
<1>3. \A i \in 1 .. len : d[i].part = "data" /\ d[i].name = name /\ d[i].at = from + i - 1
  BY DEF Data
<1> QED BY <1>2, <1>3

\* A stream and a whole entry stay what they are when something is written behind them.
LEMMA StreamedStays ==
    ASSUME NEW f, IsSeq(f), NEW e \in Entry, Streamed(f, e), e.size = 0 \/ EndOf(e) <= Len(f),
           NEW off \in Nat, NEW cells, IsSeq(cells),
           EndOf(e) <= off \/ off + Len(cells) <= e.offset + HeaderSize(e.name)
    PROVE  Streamed(Written(f, off, cells), e)
<1>1. e.offset \in Nat /\ e.size \in Nat /\ e.name \in Names
  BY DEF Entry
<1>2. HeaderSize(e.name) \in Nat
  BY <1>1, HeaderSizeIsPositive
<1> SUFFICES ASSUME NEW i \in 1 .. e.size
             PROVE  Written(f, off, cells)[e.offset + HeaderSize(e.name) + i]
                      = f[e.offset + HeaderSize(e.name) + i]
  BY DEF Streamed
<1>3. e.offset + HeaderSize(e.name) + i \in 1 .. Len(f)
  BY <1>1, <1>2, SMTT(30) DEF EndOf, IsSeq
<1>4. ~(e.offset + HeaderSize(e.name) + i > off /\ e.offset + HeaderSize(e.name) + i <= off + Len(cells))
  BY <1>1, <1>2 DEF EndOf, IsSeq
<1> QED BY <1>3, <1>4, WrittenIs

LEMMA IntactStays ==
    ASSUME NEW f, IsSeq(f), NEW e \in Entry, Intact(f, e),
           NEW off \in Nat, EndOf(e) <= off, NEW cells, IsSeq(cells)
    PROVE  Intact(Written(f, off, cells), e)
<1> DEFINE w == Written(f, off, cells)
<1>1. e.offset \in Nat /\ e.size \in Nat /\ e.name \in Names
  BY DEF Entry
<1>2. HeaderSize(e.name) \in Nat
  BY <1>1, HeaderSizeIsPositive
<1>3. EndOf(e) <= Len(f) /\ Streamed(f, e)
  BY DEF Intact, EndOf, Streamed
<1>4. Streamed(w, e)
  BY <1>3, StreamedStays
<1>5. EndOf(e) <= Len(w)
  <2>1. Len(w) = IF off + Len(cells) > Len(f) THEN off + Len(cells) ELSE Len(f)
    BY WrittenIs
  <2>2. Len(f) \in Nat /\ Len(cells) \in Nat /\ EndOf(e) \in Nat
    BY <1>1, <1>2 DEF EndOf, IsSeq
  <2> QED BY <1>3, <2>1, <2>2
<1>6. ASSUME NEW i \in 1 .. HeaderSize(e.name)
      PROVE  w[e.offset + i] = f[e.offset + i]
  <2>1. e.offset + i \in 1 .. Len(f) /\ ~(e.offset + i > off)
    BY <1>1, <1>2, <1>3 DEF EndOf, IsSeq
  <2> QED BY <2>1, WrittenIs
<1> QED BY <1>4, <1>5, <1>6 DEF Intact, EndOf, Streamed
--------------------------------------------------------------------------------
\* Where the job's thread writes next: behind all that is complete.
WritesBehind(off, cells) ==
    /\ off \in Nat /\ IsSeq(cells)
    /\ ~failbit => \A k \in DOMAIN list : EndOf(list[k]) <= off

\* A write, whole or not, leaves a file in which the entries are intact.
LEMMA WriteStep ==
    ASSUME Typed, EntriesIntact, ~failbit, NEW off, NEW cells, WritesBehind(off, cells),
           file' = Written(file, off, cells)
    PROVE  IsSeq(file') /\ \A k \in DOMAIN list : Intact(file', list[k])
<1>1. IsSeq(file')
  BY WrittenIs DEF Typed, WritesBehind
<1>2. ASSUME NEW k \in DOMAIN list
      PROVE  Intact(file', list[k])
  <2>1. list[k] \in Entry
    BY DEF Typed
  <2> QED BY <2>1, IntactStays DEF Typed, EntriesIntact, WritesBehind
<1> QED BY <1>1, <1>2

LEMMA PartialStep ==
    ASSUME Typed, EntriesIntact, ~failbit, NEW off, NEW cells, WritesBehind(off, cells),
           \E k \in 0 .. Len(cells) : file' = Written(file, off, SubSeq(cells, 1, k))
    PROVE  IsSeq(file') /\ \A k \in DOMAIN list : Intact(file', list[k])
<1>1. PICK k \in 0 .. Len(cells) : file' = Written(file, off, SubSeq(cells, 1, k))
  OBVIOUS
<1>2. WritesBehind(off, SubSeq(cells, 1, k))
  BY PrefixIsSeq DEF WritesBehind
<1> QED BY <1>1, <1>2, WriteStep

LEMMA WriteFailsStep ==
    ASSUME Typed, EntriesIntact, NEW off, NEW cells, WritesBehind(off, cells), WriteFails(off, cells)
    PROVE  /\ IsSeq(file') /\ mnFileSize' \in Nat /\ failbit' = TRUE
           /\ \A k \in DOMAIN list : Intact(file', list[k])
<1>1. CASE failbit /\ UNCHANGED fileVars
  BY <1>1 DEF fileVars, Typed, EntriesIntact
<1>2. CASE ~failbit
  BY <1>2, PartialStep DEF WriteFails, FailbitAfter, Typed
<1> QED BY <1>1, <1>2 DEF WriteFails, Typed

LEMMA WholeStep ==
    ASSUME Typed, EntriesIntact, NEW off, NEW cells, WritesBehind(off, cells), Write(off, cells)
    PROVE  /\ IsSeq(file') /\ mnFileSize' \in Nat /\ failbit' = FALSE /\ failbit = FALSE
           /\ file' = Written(file, off, cells)
           /\ \A k \in DOMAIN list : Intact(file', list[k])
           /\ mnFileSize = Len(file) => mnFileSize' = Len(file')
<1>1. ~failbit /\ failbit' = FALSE /\ failbit = FALSE
  BY DEF Write, Typed
<1>2. IsSeq(file') /\ \A k \in DOMAIN list : Intact(file', list[k])
  BY <1>1, WriteStep DEF Write
<1>3. mnFileSize' \in Nat
  BY DEF Write, NewSize, WritesBehind, Typed, IsSeq
<1>4. mnFileSize = Len(file) => mnFileSize' = Len(file')
  BY WrittenIs, SMTT(30) DEF Write, NewSize, WritesBehind, Typed, IsSeq
<1> QED BY <1>1, <1>2, <1>3, <1>4 DEF Write

\* The entries that are complete end where the file does, or before.
LEMMA EntriesEnd ==
    ASSUME Typed, EntriesIntact
    PROVE  \A k \in DOMAIN list : EndOf(list[k]) <= Len(file)
BY DEF EntriesIntact, Intact, EndOf

LEMMA BehindEnd ==
    ASSUME Typed, EntriesIntact, NEW cells, IsSeq(cells)
    PROVE  WritesBehind(Len(file), cells)
BY EntriesEnd DEF WritesBehind, Typed, IsSeq

--------------------------------------------------------------------------------
THEOREM InitIInv == Init => IInv
<1> SUFFICES ASSUME Init PROVE IInv
  OBVIOUS
<1>1. IsSeq(<<>>) /\ Len(<<>>) = 0
  BY EmptySeq, SeqIsSeq
<1>2. Typed
  <2>1. /\ file = <<>> /\ mnFileSize = 0 /\ failbit = FALSE /\ job = "create"
        /\ todo \in Jobs /\ nth = 1 /\ list = <<>>
    BY DEF Init, FileInit
  <2>2. todo \in Seq(Names)
    BY <2>1, JobAssumption
  <2>3. list \in Seq(Entry)
    BY <2>1
  <2>4. IsSeq(file)
    BY <1>1, <2>1
  <2>5. mnFileSize \in Nat /\ nth \in Nat \ {0} /\ job \notin {"stream", "header"}
    BY <2>1
  <2>6. failbit \in BOOLEAN
    BY <2>1
  <2> QED BY <2>2, <2>3, <2>4, <2>5, <2>6 DEF Typed
<1>3. SizeIsLength
  BY <1>1 DEF Init, FileInit, SizeIsLength
<1>4. EntriesIntact
  BY DEF Init, EntriesIntact
<1>5. AddsBehind
  BY DEF Init, AddsBehind
<1> QED BY <1>2, <1>3, <1>4, <1>5 DEF IInv

\* A step that leaves the file and the directory alone, and adds nothing.
LEMMA QuietStep ==
    ASSUME IInv, UNCHANGED <<fileVars, todo, list>>, nth' \in Nat \ {0},
           \/ job' \notin {"stream", "header"} /\ (job = "dead" => job' = "dead")
           \/ UNCHANGED entry /\ (job' = job \/ (job = "stream" /\ job' = "header"))
    PROVE  IInv'
<1>1. Typed'
  BY DEF IInv, Typed, fileVars
<1>2. SizeIsLength'
  BY DEF IInv, SizeIsLength, fileVars
<1>3. EntriesIntact'
  BY DEF IInv, EntriesIntact, fileVars
<1>4. AddsBehind'
  BY DEF IInv, AddsBehind, fileVars
<1> QED BY <1>1, <1>2, <1>3, <1>4 DEF IInv

\* The following entry begins where the file ends.
LEMMA StartStep ==
    ASSUME IInv, job = "next", UNCHANGED <<fileVars, todo, nth, list>>,
           job' \in {"stream", "header"},
           entry' \in Entry, entry'.offset = mnFileSize, entry'.size = 0
    PROVE  IInv'
<1>1. Typed'
  BY DEF IInv, Typed, fileVars
<1>2. SizeIsLength'
  BY DEF IInv, SizeIsLength, fileVars
<1>3. EntriesIntact'
  BY DEF IInv, EntriesIntact, fileVars
<1>4. ASSUME ~failbit
      PROVE  /\ \A k \in DOMAIN list : EndOf(list[k]) <= mnFileSize
             /\ Len(file) = mnFileSize
  BY <1>4, EntriesEnd DEF IInv, SizeIsLength
<1>5. Streamed(file, entry')
  BY DEF Streamed
<1>6. AddsBehind'
  BY <1>4, <1>5 DEF AddsBehind, fileVars
<1> QED BY <1>1, <1>2, <1>3, <1>6 DEF IInv

\* An add that fails, or a record at the end that does.
LEMMA FailedStep ==
    ASSUME IInv, NEW off, NEW cells, WritesBehind(off, cells), WriteFails(off, cells),
           UNCHANGED <<todo, list>>, nth' \in Nat \ {0}, job' \notin {"stream", "header"}
    PROVE  IInv'
<1>1. /\ IsSeq(file') /\ mnFileSize' \in Nat /\ failbit' = TRUE
      /\ \A k \in DOMAIN list : Intact(file', list[k])
  BY WriteFailsStep DEF IInv
<1> QED BY <1>1 DEF IInv, Typed, SizeIsLength, EntriesIntact, AddsBehind

LEMMA AddOutputStep ==
    ASSUME IInv, AddOutput PROVE IInv'
<1>1. PICK d \in Output :
          \/ /\ Write(StreamOffset + entry.size, d)
             /\ entry' = [entry EXCEPT !.size = @ + Len(d)]
             /\ UNCHANGED <<main, job, jobStatus, todo, nth, skipped, gone, list, start>>
          \/ WriteFails(StreamOffset + entry.size, d) /\ Skip
  BY DEF AddOutput
<1>2. PICK n \in 1 .. MaxOutput, t \in DataTags : d = Data(entry.name, entry.size + 1, n, t)
  BY DEF Output
<1>3. job = "stream" /\ entry \in Entry
  BY DEF AddOutput, IInv, Typed
<1>4. entry.offset \in Nat /\ entry.size \in Nat /\ entry.name \in Names /\ n \in Nat \ {0}
  BY <1>3, JobAssumption DEF Entry
<1>5. HeaderSize(entry.name) \in Nat
  BY <1>4, HeaderSizeIsPositive
<1>6. /\ IsSeq(d) /\ Len(d) = n
      /\ \A i \in 1 .. n : d[i].part = "data" /\ d[i].name = entry.name /\ d[i].at = entry.size + i
  <2>1. /\ IsSeq(d) /\ Len(d) = n
        /\ \A i \in 1 .. n : d[i].part = "data" /\ d[i].name = entry.name /\ d[i].at = entry.size + 1 + i - 1
    BY <1>2, <1>4, DataIs
  <2> QED BY <1>4, <2>1
<1>7. PICK off : off = StreamOffset + entry.size /\ off = EndOf(entry) /\ off \in Nat
  BY <1>4, <1>5 DEF StreamOffset, EndOf
<1>8. ~failbit => \A k \in DOMAIN list : EndOf(list[k]) <= off
  <2> SUFFICES ASSUME ~failbit, NEW k \in DOMAIN list PROVE EndOf(list[k]) <= off
    OBVIOUS
  <2>1. EndOf(list[k]) <= entry.offset
    BY <1>3 DEF IInv, AddsBehind
  <2>2. list[k] \in Entry
    BY DEF IInv, Typed
  <2>3. EndOf(list[k]) \in Nat
    BY <2>2, HeaderSizeIsPositive DEF EndOf, Entry
  <2> QED BY <1>4, <1>5, <1>7, <2>1, <2>3 DEF StreamOffset
<1>9. WritesBehind(off, d)
  BY <1>6, <1>7, <1>8 DEF WritesBehind
<1>10. CASE WriteFails(off, d) /\ Skip
  BY <1>9, <1>10, FailedStep DEF Skip, IInv, Typed
<1>11. CASE /\ Write(off, d)
            /\ entry' = [entry EXCEPT !.size = @ + Len(d)]
            /\ UNCHANGED <<main, job, jobStatus, todo, nth, skipped, gone, list, start>>
  <2>1. /\ IsSeq(file') /\ mnFileSize' \in Nat /\ failbit' = FALSE /\ failbit = FALSE
        /\ file' = Written(file, off, d)
        /\ \A k \in DOMAIN list : Intact(file', list[k])
        /\ mnFileSize = Len(file) => mnFileSize' = Len(file')
    BY <1>9, <1>11, WholeStep DEF IInv
  <2>2. /\ entry' \in Entry /\ entry'.offset = entry.offset /\ entry'.name = entry.name
        /\ entry'.size = entry.size + n
    BY <1>3, <1>4, <1>6, <1>11 DEF Entry
  <2>3. Typed'
    BY <1>11, <2>1, <2>2 DEF IInv, Typed
  <2>4. SizeIsLength'
    BY <1>3, <1>11, <2>1 DEF IInv, SizeIsLength
  <2>5. EntriesIntact'
    BY <1>11, <2>1 DEF EntriesIntact
  <2>6. /\ \A k \in DOMAIN list : EndOf(list[k]) <= entry.offset
        /\ Len(file) = (IF entry.size = 0 THEN entry.offset ELSE EndOf(entry))
        /\ Streamed(file, entry)
    BY <1>3, <2>1 DEF IInv, AddsBehind
  <2>7. Len(file') = off + n
    <3>1. Len(file) \in Nat /\ Len(file) <= off
      BY <1>4, <1>5, <1>7, <2>6 DEF EndOf
    <3>2. IsSeq(file)
      BY DEF IInv, Typed
    <3>3. Len(file') = IF off + n > Len(file) THEN off + n ELSE Len(file)
      BY <1>6, <1>7, <2>1, <3>2, WrittenIs
    <3> QED BY <1>4, <1>7, <3>1, <3>3
  <2>8. Streamed(file', entry')
    <3>1. IsSeq(file)
      BY DEF IInv, Typed
    <3>2. Streamed(file', entry)
      <4>1. entry.size = 0 \/ EndOf(entry) <= Len(file)
        BY <1>7, <2>6
      <4>2. EndOf(entry) <= off
        BY <1>7
      <4> QED BY <1>3, <1>6, <1>7, <2>1, <2>6, <3>1, <4>1, <4>2, StreamedStays
    <3> SUFFICES ASSUME NEW i \in 1 .. entry.size + n
                 PROVE  LET c == file'[entry.offset + HeaderSize(entry.name) + i]
                        IN  c.part = "data" /\ c.name = entry.name /\ c.at = i
      BY <2>2 DEF Streamed
    <3>3. CASE i \in 1 .. entry.size
      BY <3>2, <3>3 DEF Streamed
    <3>4. CASE i > entry.size
      <4>1. PICK j \in 1 .. n : i = entry.size + j
        <5>1. i - entry.size \in 1 .. n /\ i = entry.size + (i - entry.size)
          BY <1>4, <3>4
        <5> QED BY <5>1
      <4>2. entry.offset + HeaderSize(entry.name) + i = off + j
        BY <1>4, <1>5, <1>7, <4>1 DEF StreamOffset
      <4>3. off + j \in 1 .. Len(file') /\ off + j > off /\ off + j <= off + Len(d) /\ off + j - off = j
        BY <1>4, <1>6, <1>7, <2>7, SMTT(30)
      <4>4. file'[off + j] = d[j]
        <5>1. off \in Nat /\ IsSeq(d)
          BY <1>6, <1>7
        <5>2. \A m \in 1 .. Len(Written(file, off, d)) :
                 m > off /\ m <= off + Len(d) => Written(file, off, d)[m] = d[m - off]
          BY <3>1, <5>1, WrittenIs
        <5>3. PICK m \in 1 .. Len(Written(file, off, d)) : m = off + j
          BY <2>1, <4>3
        <5>4. m > off /\ m <= off + Len(d) /\ m - off = j
          BY <1>4, <1>6, <1>7, <5>3, SMTT(30)
        <5>5. Written(file, off, d)[m] = d[j]
          BY <5>2, <5>4
        <5> QED BY <2>1, <5>3, <5>5
      <4> QED BY <1>6, <4>1, <4>2, <4>4
    <3> QED BY <1>4, <3>3, <3>4
  <2>9. AddsBehind'
    <3>1. EndOf(entry') = off + n /\ entry'.size # 0
      BY <1>4, <1>5, <1>7, <2>2 DEF EndOf
    <3>2. \A k \in DOMAIN list' : EndOf(list'[k]) <= entry'.offset
      BY <1>11, <2>2, <2>6
    <3> QED BY <2>7, <2>8, <3>1, <3>2 DEF AddsBehind, EndOf, Streamed
  <2> QED BY <2>3, <2>4, <2>5, <2>9 DEF IInv
<1> QED BY <1>1, <1>7, <1>10, <1>11

LEMMA AddHeaderStep ==
    ASSUME IInv, AddHeader PROVE IInv'
<1> DEFINE h == LocalHeader(entry)
<1>1. job = "header" /\ entry \in Entry
  BY DEF AddHeader, IInv, Typed
<1>2. entry.offset \in Nat /\ entry.size \in Nat /\ entry.name \in Names
  BY <1>1 DEF Entry
<1>3. HeaderSize(entry.name) \in Nat \ {0}
  BY <1>2, HeaderSizeIsPositive
<1>4. /\ IsSeq(h) /\ Len(h) = HeaderSize(entry.name)
      /\ \A i \in 1 .. HeaderSize(entry.name) :
            h[i].part = "local" /\ h[i].name = entry.name /\ h[i].at = i
  BY <1>3, RecordIs DEF LocalHeader
<1>5. WritesBehind(entry.offset, h)
  BY <1>1, <1>2, <1>4 DEF WritesBehind, IInv, AddsBehind
<1>6. CASE WriteFails(entry.offset, h) /\ Skip
  BY <1>5, <1>6, FailedStep DEF Skip, IInv, Typed
<1>7. CASE /\ Write(entry.offset, h)
           /\ list' = Append(list, entry) /\ nth' = nth + 1 /\ job' = "next"
           /\ UNCHANGED <<main, jobStatus, todo, entry, skipped, gone, start>>
  <2>1. /\ IsSeq(file') /\ mnFileSize' \in Nat /\ failbit' = FALSE /\ failbit = FALSE
        /\ file' = Written(file, entry.offset, h)
        /\ \A k \in DOMAIN list : Intact(file', list[k])
        /\ mnFileSize = Len(file) => mnFileSize' = Len(file')
    BY <1>5, <1>7, WholeStep DEF IInv
  <2>2. list \in Seq(Entry) /\ list' \in Seq(Entry)
    BY <1>1, <1>7 DEF IInv, Typed
  <2>3. Typed'
    <3>1. nth' \in Nat \ {0} /\ todo' \in Seq(Names)
      BY <1>7 DEF IInv, Typed
    <3>2. job' \notin {"stream", "header"} /\ failbit' \in BOOLEAN
      BY <1>7, <2>1
    <3> QED BY <2>1, <2>2, <3>1, <3>2 DEF Typed
  <2>4. SizeIsLength'
    BY <1>1, <1>7, <2>1 DEF IInv, SizeIsLength
  <2>5. IsSeq(file) /\ Streamed(file, entry)
        /\ Len(file) = (IF entry.size = 0 THEN entry.offset ELSE EndOf(entry))
    BY <1>1, <2>1 DEF IInv, Typed, AddsBehind
  <2>6. Len(file') = IF entry.offset + HeaderSize(entry.name) > Len(file)
                     THEN entry.offset + HeaderSize(entry.name) ELSE Len(file)
    BY <1>2, <1>4, <2>1, <2>5, WrittenIs
  <2>7. EndOf(entry) <= Len(file')
    BY <1>2, <1>3, <2>5, <2>6 DEF EndOf
  <2>8. Streamed(file', entry)
    <3>1. entry.size = 0 \/ EndOf(entry) <= Len(file)
      BY <1>2, <1>3, <2>5 DEF EndOf
    <3>2. entry.offset + Len(h) <= entry.offset + HeaderSize(entry.name)
      BY <1>2, <1>3, <1>4
    <3> QED BY <1>1, <1>2, <1>4, <2>1, <2>5, <3>1, <3>2, StreamedStays
  <2>9. ASSUME NEW i \in 1 .. HeaderSize(entry.name)
        PROVE  file'[entry.offset + i] = h[i]
    <3>1. /\ entry.offset + i \in 1 .. Len(file') /\ entry.offset + i > entry.offset
          /\ entry.offset + i <= entry.offset + Len(h) /\ entry.offset + i - entry.offset = i
      BY <1>2, <1>3, <1>4, <2>7 DEF EndOf
    <3> QED BY <1>2, <1>4, <2>1, <2>5, <3>1, WrittenIs, SMTT(30)
  <2>10. Intact(file', entry)
    BY <1>4, <2>7, <2>8, <2>9 DEF Intact, EndOf, Streamed
  <2>11. EntriesIntact'
    <3> SUFFICES ASSUME NEW k \in DOMAIN list' PROVE Intact(file', list'[k])
      BY DEF EntriesIntact
    <3>1. (k \in DOMAIN list /\ list'[k] = list[k]) \/ list'[k] = entry
      BY <1>1, <1>7, <2>2
    <3> QED BY <2>1, <2>10, <3>1
  <2>12. AddsBehind'
    BY <1>7 DEF AddsBehind
  <2> QED BY <2>3, <2>4, <2>11, <2>12 DEF IInv
<1> QED BY <1>6, <1>7 DEF AddHeader

\* Writing a record at the end of the file.
LEMMA AtEndStep ==
    ASSUME IInv, NEW cells, IsSeq(cells), AtEnd(cells), UNCHANGED <<todo, list>>,
           nth' \in Nat \ {0}, job' \notin {"stream", "header"}, job # "dead"
    PROVE  IInv'
<1>1. WritesBehind(Len(file), cells)
  BY BehindEnd DEF IInv
<1>2. CASE WriteFails(Len(file), cells)
  BY <1>1, <1>2, FailedStep
<1>3. CASE Write(Len(file), cells)
  <2>1. /\ IsSeq(file') /\ mnFileSize' \in Nat /\ failbit' = FALSE /\ failbit = FALSE
        /\ \A k \in DOMAIN list : Intact(file', list[k])
        /\ mnFileSize = Len(file) => mnFileSize' = Len(file')
    BY <1>1, <1>3, WholeStep DEF IInv
  <2> QED BY <2>1 DEF IInv, Typed, SizeIsLength, EntriesIntact, AddsBehind
<1> QED BY <1>2, <1>3 DEF AtEnd

LEMMA RecordsAreSeqs ==
    /\ \A e \in Entry : IsSeq(LocalHeader(e)) /\ IsSeq(CDHeader(e))
    /\ \A s, l : IsSeq(Rec64(s, l)) /\ IsSeq(Locator(s)) /\ IsSeq(EndOfCD(l))
<1>1. ASSUME NEW e \in Entry PROVE IsSeq(LocalHeader(e)) /\ IsSeq(CDHeader(e))
  <2>1. HeaderSize(e.name) \in Nat
    BY HeaderSizeIsPositive DEF Entry
  <2> QED BY <2>1, RecordIs DEF LocalHeader, CDHeader
<1>2. ASSUME NEW s, NEW l PROVE IsSeq(Rec64(s, l)) /\ IsSeq(Locator(s)) /\ IsSeq(EndOfCD(l))
  <2>1. kRec64Size \in Nat /\ kLocatorSize \in Nat /\ kEndOfCDSize \in Nat
    BY RecordAssumption
  <2> QED BY <2>1, RecordIs DEF Rec64, Locator, EndOfCD
<1> QED BY <1>1, <1>2

LEMMA WriteCDStep ==
    ASSUME IInv, WriteCDHeader \/ WriteRec64 \/ WriteLocator \/ WriteEndOfCD PROVE IInv'
<1>1. nth \in Nat \ {0} /\ list \in Seq(Entry)
  BY DEF IInv, Typed
<1>2. CASE WriteCDHeader
  <2>1. list[nth] \in Entry
    BY <1>1, <1>2 DEF WriteCDHeader
  <2> QED BY <1>1, <1>2, <2>1, RecordsAreSeqs, AtEndStep DEF WriteCDHeader
<1>3. CASE WriteRec64
  BY <1>1, <1>3, RecordsAreSeqs, AtEndStep DEF WriteRec64
<1>4. CASE WriteLocator
  BY <1>1, <1>4, RecordsAreSeqs, AtEndStep DEF WriteLocator
<1>5. CASE WriteEndOfCD
  BY <1>1, <1>5, RecordsAreSeqs, AtEndStep DEF WriteEndOfCD
<1> QED BY <1>2, <1>3, <1>4, <1>5

\* What may be torn when the process is killed lies behind the entries, too.
LEMMA PendingBehind ==
    ASSUME IInv, NEW w \in Pending
    PROVE  WritesBehind(w[1], w[2])
<1>1. nth \in Nat \ {0} /\ list \in Seq(Entry)
  BY DEF IInv, Typed
<1>2. CASE job = "stream"
  <2>1. PICK d \in Output : w = <<StreamOffset + entry.size, d>>
    BY <1>2 DEF Pending
  <2>2. PICK n \in 1 .. MaxOutput, t \in DataTags : d = Data(entry.name, entry.size + 1, n, t)
    BY DEF Output
  <2>3. entry \in Entry
    BY <1>2 DEF IInv, Typed
  <2>4. /\ entry.offset \in Nat /\ entry.size \in Nat /\ n \in Nat
        /\ HeaderSize(entry.name) \in Nat
    BY <2>3, JobAssumption, HeaderSizeIsPositive DEF Entry
  <2>5. IsSeq(d)
    BY <2>2, <2>4, DataIs
  <2>6. StreamOffset + entry.size \in Nat /\ entry.offset <= StreamOffset + entry.size
    BY <2>4 DEF StreamOffset
  <2>7. ~failbit => \A k \in DOMAIN list : EndOf(list[k]) <= StreamOffset + entry.size
    <3> SUFFICES ASSUME ~failbit, NEW k \in DOMAIN list
                 PROVE  EndOf(list[k]) <= StreamOffset + entry.size
      OBVIOUS
    <3>1. EndOf(list[k]) <= entry.offset
      BY <1>2 DEF IInv, AddsBehind
    <3>2. EndOf(list[k]) \in Nat
      <4>1. list[k] \in Entry
        BY <1>1
      <4> QED BY <4>1, HeaderSizeIsPositive DEF EndOf, Entry
    <3> QED BY <2>4, <2>6, <3>1, <3>2
  <2> QED BY <2>1, <2>5, <2>6, <2>7 DEF WritesBehind
<1>3. CASE job = "header"
  <2>1. w = <<entry.offset, LocalHeader(entry)>>
    BY <1>3 DEF Pending
  <2>2. entry \in Entry /\ entry.offset \in Nat
    BY <1>3 DEF IInv, Typed, Entry
  <2> QED BY <1>3, <2>1, <2>2, RecordsAreSeqs DEF WritesBehind, IInv, AddsBehind
<1>4. CASE job = "cd"
  <2>1. w[1] = Len(file) /\ w[2] = IF nth <= Len(list) THEN CDHeader(list[nth]) ELSE Rec64(start, list)
    BY <1>4 DEF Pending
  <2>2. nth <= Len(list) => list[nth] \in Entry
    BY <1>1
  <2>3. IsSeq(w[2])
    BY <2>1, <2>2, RecordsAreSeqs
  <2> QED BY <2>1, <2>3, BehindEnd DEF IInv
<1>5. CASE job = "locator"
  <2>1. w = <<Len(file), Locator(start)>>
    BY <1>5 DEF Pending
  <2> QED BY <2>1, RecordsAreSeqs, BehindEnd DEF IInv
<1>6. CASE job = "end of cd"
  <2>1. w = <<Len(file), EndOfCD(list)>>
    BY <1>6 DEF Pending
  <2> QED BY <2>1, RecordsAreSeqs, BehindEnd DEF IInv
<1>7. CASE job \notin {"stream", "header", "cd", "locator", "end of cd"}
  <2>1. w = <<Len(file), <<>>>>
    BY <1>7 DEF Pending
  <2>2. IsSeq(<<>>)
    BY EmptySeq, SeqIsSeq
  <2> QED BY <2>1, <2>2, BehindEnd DEF IInv
<1> QED BY <1>2, <1>3, <1>4, <1>5, <1>6, <1>7

LEMMA KillStep ==
    ASSUME IInv, Kill PROVE IInv'
<1>1. UNCHANGED <<todo, nth, list>> /\ job' = "dead"
  BY DEF Kill, Die
<1>2. IsSeq(file') /\ mnFileSize' \in Nat /\ failbit' \in BOOLEAN
      /\ \A k \in DOMAIN list : Intact(file', list[k])
  <2>1. CASE failbit /\ UNCHANGED fileVars
    BY <2>1 DEF fileVars, IInv, Typed, EntriesIntact
  <2>2. CASE \E w \in Pending : Torn(w[1], w[2])
    <3>1. PICK w \in Pending : Torn(w[1], w[2])
      BY <2>2
    <3>2. WritesBehind(w[1], w[2])
      BY PendingBehind
    <3>3. /\ ~failbit /\ UNCHANGED <<mnFileSize, failbit>>
          /\ \E k \in 0 .. Len(w[2]) : file' = Written(file, w[1], SubSeq(w[2], 1, k))
      BY <3>1 DEF Torn
    <3>4. IsSeq(file') /\ \A k \in DOMAIN list : Intact(file', list[k])
      BY <3>2, <3>3, PartialStep DEF IInv
    <3> QED BY <3>3, <3>4 DEF IInv, Typed
  <2> QED BY <2>1, <2>2 DEF Kill
<1> QED BY <1>1, <1>2 DEF IInv, Typed, SizeIsLength, EntriesIntact, AddsBehind

LEMMA StartFileStep ==
    ASSUME IInv, StartFile \/ StartFolder PROVE IInv'
<1>1. todo[nth] \in Names /\ mnFileSize \in Nat
  BY DEF IInv, Typed, StartFile, StartFolder
<1>2. FolderName[todo[nth]] \in Names
  BY <1>1, JobAssumption
<1>3. CASE StartFile
  <2>1. entry' \in Entry /\ entry'.offset = mnFileSize /\ entry'.size = 0
    BY <1>1, <1>3 DEF StartFile, Entry
  <2> QED BY <1>3, <2>1, StartStep DEF StartFile
<1>4. CASE StartFolder
  <2>1. entry' \in Entry /\ entry'.offset = mnFileSize /\ entry'.size = 0
    BY <1>1, <1>2, <1>4 DEF StartFolder, Entry
  <2> QED BY <1>4, <2>1, StartStep DEF StartFolder
<1> QED BY <1>3, <1>4

\* IInv is inductive.
THEOREM NextIInv == IInv /\ [Next]_vars => IInv'
<1> SUFFICES ASSUME IInv, [Next]_vars PROVE IInv'
  OBVIOUS
<1>1. nth \in Nat \ {0}
  BY DEF IInv, Typed
<1>2. CASE Create
  BY <1>1, <1>2, QuietStep DEF Create
<1>3. CASE CreateFails
  BY <1>1, <1>3, QuietStep DEF CreateFails
<1>4. CASE StartFile \/ StartFolder
  BY <1>4, StartFileStep
<1>5. CASE InputFails
  <2>1. UNCHANGED <<fileVars, todo, list>> /\ nth' = nth + 1 /\ job' = "next" /\ job # "dead"
    BY <1>5 DEF InputFails, Skip
  <2> QED BY <1>1, <2>1, QuietStep
<1>6. CASE AddOutput
  BY <1>6, AddOutputStep
<1>7. CASE StreamDone
  BY <1>1, <1>7, QuietStep DEF StreamDone
<1>8. CASE AddHeader
  BY <1>8, AddHeaderStep
<1>9. CASE Finish
  BY <1>1, <1>9, QuietStep DEF Finish
<1>10. CASE Shutdown
  BY <1>10, QuietStep DEF Shutdown
<1>11. CASE WriteCDHeader \/ WriteRec64 \/ WriteLocator \/ WriteEndOfCD
  BY <1>11, WriteCDStep
<1>12. CASE Throw
  <2>1. UNCHANGED <<fileVars, todo, nth, list>> /\ job' = "dead"
    BY <1>12 DEF Throw, Die
  <2> QED BY <1>1, <2>1, QuietStep
<1>13. CASE Poll \/ Join
  BY <1>1, <1>13, QuietStep DEF Poll, Join
<1>14. CASE Kill
  BY <1>14, KillStep
<1>15. CASE UNCHANGED vars
  BY <1>1, <1>15, QuietStep DEF vars, jobVars
<1> QED BY <1>2, <1>3, <1>4, <1>5, <1>6, <1>7, <1>8, <1>9, <1>10, <1>11, <1>12, <1>13, <1>14,
           <1>15 DEF Next, JobNext, MainNext

\* No failed add, no later write and no kill touches an entry the directory will list:
\* AddToZipFile puts every entry behind the end of the file.
THEOREM EntriesStayIntact == Spec => []EntriesIntact
<1>1. IInv => EntriesIntact
  BY DEF IInv
<1> QED BY <1>1, InitIInv, NextIInv, PTL DEF Spec

\* GetFileSize, from which all offsets are computed, is right as long as it matters.
THEOREM FileSizeIsRight == Spec => []SizeIsLength
<1>1. IInv => SizeIsLength
  BY DEF IInv
<1> QED BY <1>1, InitIInv, NextIInv, PTL DEF Spec

--------------------------------------------------------------------------------
(* How long the directory is *)

\* t[k] : the size of the first k headers.
IsSums(t, l) ==
    /\ t \in [0 .. Len(l) -> Nat]
    /\ t[0] = 0
    /\ \A k \in 1 .. Len(l) : t[k] = t[k - 1] + HeaderSize(l[k].name)

Sums(l) == CHOOSE t : IsSums(t, l)

TrailerSize == kRec64Size + kLocatorSize + kEndOfCDSize

LEMMA TrailerIsNat ==
    /\ kRec64Size \in Nat \ {0} /\ kLocatorSize \in Nat \ {0} /\ kEndOfCDSize \in Nat \ {0}
    /\ TrailerSize \in Nat /\ TrailerSize <= kMaxSizeOfCDRec /\ kMaxSizeOfCDRec \in Nat
<1>1. kRec64Size \in Nat \ {0} /\ kLocatorSize \in Nat \ {0} /\ kEndOfCDSize \in Nat \ {0}
  BY RecordAssumption
<1> QED BY <1>1, RecordAssumption DEF TrailerSize

LEMMA SumsAre ==
    ASSUME NEW l \in Seq(Entry)
    PROVE  IsSums(Sums(l), l)
<1> DEFINE step == [k \in 1 .. Len(l) |-> [v \in Nat |-> v + HeaderSize(l[k].name)]]
<1>1. step \in [1 .. Len(l) -> [Nat -> Nat]]
  <2> SUFFICES ASSUME NEW k \in 1 .. Len(l), NEW v \in Nat PROVE v + HeaderSize(l[k].name) \in Nat
    OBVIOUS
  <2>1. l[k] \in Entry
    OBVIOUS
  <2>2. HeaderSize(l[k].name) \in Nat
    BY <2>1, HeaderSizeIsPositive DEF Entry
  <2> QED BY <2>2
<1>2. Len(l) \in Nat
  OBVIOUS
<1>3. PICK t : IsRecursion(t, Nat, Len(l), 0, step)
  <2> HIDE DEF step
  <2> QED BY <1>1, <1>2, RecursionExists
<1>4. IsSums(t, l)
  <2>1. t \in [0 .. Len(l) -> Nat] /\ t[0] = 0
    BY <1>3 DEF IsRecursion
  <2>2. ASSUME NEW k \in 1 .. Len(l)
        PROVE  t[k] = t[k - 1] + HeaderSize(l[k].name)
    <3>1. t[k - 1] \in Nat
      BY <1>2, <2>1
    <3>2. t[k] = step[k][t[k - 1]]
      BY <1>3 DEF IsRecursion
    <3> QED BY <3>1, <3>2
  <2> QED BY <2>1, <2>2 DEF IsSums
<1> QED BY <1>4 DEF Sums

\* cZipCD::Size is the size of all headers and of the records at the end.
LEMMA CDSizeIs ==
    ASSUME NEW l \in Seq(Entry)
    PROVE  CDSize(l) = TrailerSize + Sums(l)[Len(l)] /\ CDSize(l) \in Nat
<1> DEFINE n == Len(l)
           Eq(t) == t = [k \in 0 .. n |-> IF k = 0 THEN kRec64Size + kLocatorSize + kEndOfCDSize
                                          ELSE t[k - 1] + HeaderSize(l[k].name)]
           t0 == [k \in 0 .. n |-> TrailerSize + Sums(l)[k]]
           total == CHOOSE t : Eq(t)
<1>1. n \in Nat /\ IsSums(Sums(l), l)
  BY SumsAre
<1>2. \A k \in 1 .. n : HeaderSize(l[k].name) \in Nat
  <2> SUFFICES ASSUME NEW k \in 1 .. n PROVE HeaderSize(l[k].name) \in Nat
    OBVIOUS
  <2>1. l[k].name \in Names
    <3>1. l[k] \in Entry
      OBVIOUS
    <3> QED BY <3>1 DEF Entry
  <2> QED BY <2>1, HeaderSizeIsPositive
<1>3. Eq(t0)
  <2> SUFFICES ASSUME NEW k \in 0 .. n
               PROVE  TrailerSize + Sums(l)[k] = IF k = 0 THEN kRec64Size + kLocatorSize + kEndOfCDSize
                                                 ELSE t0[k - 1] + HeaderSize(l[k].name)
    OBVIOUS
  <2>1. CASE k = 0
    BY <1>1, <2>1, TrailerIsNat DEF IsSums, TrailerSize
  <2>2. CASE k # 0
    <3>1. k \in 1 .. n /\ k - 1 \in 0 .. n
      BY <1>1, <2>2
    <3>2. Sums(l)[k] = Sums(l)[k - 1] + HeaderSize(l[k].name) /\ Sums(l)[k - 1] \in Nat
      BY <1>1, <3>1 DEF IsSums
    <3>3. t0[k - 1] = TrailerSize + Sums(l)[k - 1]
      BY <3>1
    <3> QED BY <1>2, <2>2, <3>1, <3>2, <3>3, TrailerIsNat
  <2> QED BY <2>1, <2>2
<1>4. Eq(total)
  <2> HIDE DEF Eq, t0
  <2> QED BY <1>3
<1>5. CDSize(l) = total[n]
  BY DEF CDSize
<1>6. \A k \in 0 .. n : total[k] = TrailerSize + Sums(l)[k]
  <2> DEFINE T == {k \in 0 .. n : total[k] = TrailerSize + Sums(l)[k]}
  <2>1. 0 \in T
    <3>1. total[0] = kRec64Size + kLocatorSize + kEndOfCDSize
      <4> HIDE DEF total
      <4> QED BY <1>1, <1>4
    <3>2. Sums(l)[0] = 0 /\ 0 \in 0 .. n
      BY <1>1 DEF IsSums
    <3> HIDE DEF total
    <3> QED BY <3>1, <3>2, TrailerIsNat DEF TrailerSize
  <2>2. ASSUME NEW k \in 1 .. n, k - 1 \in T
        PROVE  k \in T
    <3>1. k # 0 /\ k \in 0 .. n /\ k - 1 \in 0 .. n
      OBVIOUS
    <3>2. total[k] = total[k - 1] + HeaderSize(l[k].name)
      <4> HIDE DEF total
      <4> QED BY <1>4, <3>1
    <3>3. Sums(l)[k] = Sums(l)[k - 1] + HeaderSize(l[k].name) /\ Sums(l)[k - 1] \in Nat
      BY <1>1, <3>1 DEF IsSums
    <3>4. total[k - 1] = TrailerSize + Sums(l)[k - 1]
      BY <2>2
    <3>5. total[k] = TrailerSize + Sums(l)[k]
      <4> HIDE DEF total
      <4> QED BY <1>2, <3>2, <3>3, <3>4, TrailerIsNat
    <3> HIDE DEF total
    <3> QED BY <3>1, <3>5
  <2>3. \A k \in 0 .. n : k \in T
    <3> HIDE DEF T, n
    <3> QED BY <1>1, <2>1, <2>2, BoundedInduction
  <2> QED BY <2>3
<1>7. Sums(l)[n] \in Nat
  BY <1>1 DEF IsSums
<1> QED BY <1>1, <1>5, <1>6, <1>7, TrailerIsNat

--------------------------------------------------------------------------------
(* Types *)

LEMMA RecordIsCells ==
    ASSUME NEW part \in Tags, NEW len \in Nat, NEW name \in Names \cup {NoName},
           NEW offset \in Nat, NEW size \in Nat, NEW count \in Nat
    PROVE  Record(part, len, name, offset, size, count) \in Seq(Cell)
<1> DEFINE r == Record(part, len, name, offset, size, count)
<1>1. r \in [1 .. len -> Cell]
  BY DEF Record, Cell
<1> QED BY <1>1, SeqDef

LEMMA DataIsCells ==
    ASSUME NEW name \in Names, NEW from \in Nat, NEW len \in Nat, NEW tag \in Tags \cup {"none"}
    PROVE  Data(name, from, len, tag) \in Seq(Cell)
<1> DEFINE d == Data(name, from, len, tag)
<1>1. \A i \in 1 .. len : from + i - 1 \in Nat
  OBVIOUS
<1>2. d \in [1 .. len -> Cell]
  BY <1>1 DEF Data, Cell
<1> QED BY <1>2, SeqDef

LEMMA GapIsCell == Gap \in Cell
BY JobAssumption DEF Hole, Cell

LEMMA WrittenIsCells ==
    ASSUME NEW f \in Seq(Cell), NEW off \in Nat, NEW cells \in Seq(Cell)
    PROVE  /\ Written(f, off, cells) \in Seq(Cell)
           /\ Len(Written(f, off, cells)) >= Len(f)
           /\ Len(Written(f, off, cells)) >= off + Len(cells)
<1> DEFINE n == IF off + Len(cells) > Len(f) THEN off + Len(cells) ELSE Len(f)
           w == Written(f, off, cells)
<1>1. n \in Nat /\ n >= Len(f) /\ n >= off + Len(cells)
  OBVIOUS
<1>2. w \in [1 .. n -> Cell]
  <2> SUFFICES ASSUME NEW i \in 1 .. n
               PROVE  (IF i > off /\ i <= off + Len(cells) THEN cells[i - off]
                       ELSE IF i <= Len(f) THEN f[i] ELSE Gap) \in Cell
    BY DEF Written
  <2>1. CASE i > off /\ i <= off + Len(cells)
    <3>1. i - off \in 1 .. Len(cells)
      BY <2>1
    <3> QED BY <2>1, <3>1
  <2>2. CASE ~(i > off /\ i <= off + Len(cells))
    BY <2>2, GapIsCell
  <2> QED BY <2>1, <2>2
<1>3. w \in Seq(Cell) /\ Len(w) = n
  <2> HIDE DEF w, n
  <2>1. w \in Seq(Cell)
    BY <1>1, <1>2, SeqDef
  <2>2. DOMAIN w = 1 .. n
    BY <1>2
  <2> QED BY <1>1, <2>1, <2>2, LenProperties
<1> QED BY <1>1, <1>3

LEMMA PrefixIsCells ==
    ASSUME NEW cells \in Seq(Cell), NEW k \in 0 .. Len(cells)
    PROVE  SubSeq(cells, 1, k) \in Seq(Cell)
BY SubSeqProperties

\* Whatever becomes of a write, the file is one of cells and no shorter than before.
LEMMA FileTypes ==
    ASSUME file \in Seq(Cell), mnFileSize \in 0 .. Len(file), failbit \in BOOLEAN,
           NEW off \in Nat, NEW cells \in Seq(Cell),
           Write(off, cells) \/ WriteFails(off, cells) \/ Torn(off, cells)
    PROVE  file' \in Seq(Cell) /\ mnFileSize' \in 0 .. Len(file') /\ failbit' \in BOOLEAN
<1>1. CASE Write(off, cells)
  <2>1. file' = Written(file, off, cells) /\ mnFileSize' = NewSize(off, Len(cells)) /\ failbit' = failbit
    BY <1>1 DEF Write
  <2>2. file' \in Seq(Cell) /\ Len(file') >= Len(file) /\ Len(file') >= off + Len(cells)
    BY <2>1, WrittenIsCells
  <2>3. Len(file') \in Nat /\ Len(file) \in Nat /\ Len(cells) \in Nat
    BY <2>2, LenProperties
  <2> QED BY <2>1, <2>2, <2>3 DEF NewSize
<1>2. CASE failbit /\ UNCHANGED fileVars
  BY <1>2 DEF fileVars
<1>3. CASE /\ \E k \in 0 .. Len(cells) : file' = Written(file, off, SubSeq(cells, 1, k))
           /\ mnFileSize' = mnFileSize /\ failbit' \in BOOLEAN
  <2>1. PICK k \in 0 .. Len(cells) : file' = Written(file, off, SubSeq(cells, 1, k))
    BY <1>3
  <2>2. file' \in Seq(Cell) /\ Len(file') >= Len(file)
    BY <2>1, PrefixIsCells, WrittenIsCells
  <2>3. Len(file') \in Nat /\ Len(file) \in Nat
    BY <2>2, LenProperties
  <2> QED BY <1>3, <2>2, <2>3
<1> QED BY <1>1, <1>2, <1>3 DEF WriteFails, Torn, FailbitAfter

\* The places at which files are added, and what is known there.
Adding == {"create", "next", "stream", "header", "shutdown"}

\* No more entries than files that were looked at.
Counted ==
    /\ job \in Adding => Len(list) <= nth - 1
    /\ job \in {"stream", "header"} => nth <= Len(todo) /\ entry \in Entry

TInv == TypeOK /\ Counted

LEMMA TypeFacts ==
    ASSUME TInv
    PROVE  /\ Len(todo) \in Nat /\ nth \in Nat \ {0} /\ Len(list) \in Nat /\ Len(file) \in Nat
           /\ mnFileSize \in Nat /\ todo \in Seq(Names) /\ list \in Seq(Entry)
           /\ DOMAIN todo = 1 .. Len(todo) /\ CDSize(list) \in Nat
<1>1. todo \in Seq(Names)
  BY JobAssumption DEF TInv, TypeOK
<1>2. list \in Seq(Entry) /\ file \in Seq(Cell)
  BY DEF TInv, TypeOK
<1>3. Len(todo) \in Nat /\ Len(list) \in Nat /\ Len(file) \in Nat /\ DOMAIN todo = 1 .. Len(todo)
  BY <1>1, <1>2, LenProperties
<1>4. CDSize(list) \in Nat
  BY <1>2, CDSizeIs
<1>5. mnFileSize \in 0 .. Len(file) /\ nth \in 1 .. Len(todo) + 1
  BY DEF TInv, TypeOK
<1>6. mnFileSize \in Nat /\ nth \in Nat \ {0}
  BY <1>3, <1>5
<1> QED BY <1>1, <1>2, <1>3, <1>4, <1>6

LEMMA RecordsAreCells ==
    ASSUME NEW l \in Seq(Entry), NEW s \in Nat
    PROVE  /\ \A e \in Entry : LocalHeader(e) \in Seq(Cell) /\ CDHeader(e) \in Seq(Cell)
           /\ Rec64(s, l) \in Seq(Cell) /\ Locator(s) \in Seq(Cell) /\ EndOfCD(l) \in Seq(Cell)
<1>1. ASSUME NEW e \in Entry PROVE LocalHeader(e) \in Seq(Cell) /\ CDHeader(e) \in Seq(Cell)
  <2>1. e.name \in Names /\ e.offset \in Nat /\ e.size \in Nat
    BY DEF Entry
  <2>2. HeaderSize(e.name) \in Nat
    BY <2>1, HeaderSizeIsPositive
  <2> QED BY <2>1, <2>2, RecordIsCells DEF LocalHeader, CDHeader, Tags
<1>2. Rec64(s, l) \in Seq(Cell) /\ Locator(s) \in Seq(Cell) /\ EndOfCD(l) \in Seq(Cell)
  <2>1. CDSize(l) \in Nat /\ Len(l) \in Nat /\ NoOffset \in Nat
    BY CDSizeIs, LenProperties, RecordAssumption
  <2> QED BY <2>1, TrailerIsNat, RecordIsCells DEF Rec64, Locator, EndOfCD, Tags
<1> QED BY <1>1, <1>2

\* What the job's thread may be writing are cells.
LEMMA PendingIsCells ==
    ASSUME TInv, NEW w \in Pending
    PROVE  w[1] \in Nat /\ w[2] \in Seq(Cell)
<1>1. Len(file) \in Nat /\ nth \in Nat \ {0} /\ list \in Seq(Entry) /\ start \in Nat
  BY TypeFacts DEF TInv, TypeOK
<1>2. CASE job = "stream"
  <2>1. PICK n \in 1 .. MaxOutput, t \in DataTags :
           w = <<StreamOffset + entry.size, Data(entry.name, entry.size + 1, n, t)>>
    BY <1>2 DEF Pending, Output
  <2>2. entry.name \in Names /\ entry.offset \in Nat /\ entry.size \in Nat
    BY <1>2 DEF TInv, Counted, Entry
  <2>3. StreamOffset + entry.size \in Nat
    BY <2>2, HeaderSizeIsPositive DEF StreamOffset
  <2>4. n \in Nat /\ t \in Tags \cup {"none"} /\ entry.size + 1 \in Nat
    BY <2>2, JobAssumption
  <2> QED BY <2>1, <2>2, <2>3, <2>4, DataIsCells
<1>3. CASE job = "header"
  <2>1. w = <<entry.offset, LocalHeader(entry)>> /\ entry \in Entry
    BY <1>3 DEF Pending, TInv, Counted
  <2>2. entry.offset \in Nat
    BY <2>1 DEF Entry
  <2> QED BY <1>1, <2>1, <2>2, RecordsAreCells
<1>4. CASE job = "cd"
  <2>1. w = <<Len(file), IF nth <= Len(list) THEN CDHeader(list[nth]) ELSE Rec64(start, list)>>
    BY <1>4 DEF Pending
  <2>2. nth <= Len(list) => list[nth] \in Entry
    BY <1>1
  <2> QED BY <1>1, <2>1, <2>2, RecordsAreCells
<1>5. CASE job = "locator"
  <2>1. w = <<Len(file), Locator(start)>>
    BY <1>5 DEF Pending
  <2> QED BY <1>1, <2>1, RecordsAreCells
<1>6. CASE job = "end of cd"
  <2>1. w = <<Len(file), EndOfCD(list)>>
    BY <1>6 DEF Pending
  <2> QED BY <1>1, <2>1, RecordsAreCells
<1>7. CASE job \notin {"stream", "header", "cd", "locator", "end of cd"}
  <2>1. w = <<Len(file), <<>>>>
    BY <1>7 DEF Pending
  <2>2. <<>> \in Seq(Cell)
    BY EmptySeq
  <2> QED BY <1>1, <2>1, <2>2
<1> QED BY <1>2, <1>3, <1>4, <1>5, <1>6, <1>7

\* A step leaves the file alone, or writes what is pending, or a part of it.
LEMMA FileStep ==
    ASSUME TInv, [Next]_vars
    PROVE  \/ UNCHANGED fileVars
           \/ \E w \in Pending :
                 Write(w[1], w[2]) \/ WriteFails(w[1], w[2]) \/ Torn(w[1], w[2])
<1>1. CASE \/ Create \/ CreateFails \/ StartFile \/ StartFolder \/ InputFails \/ StreamDone
           \/ Finish \/ Shutdown \/ Throw \/ Poll \/ Join \/ UNCHANGED vars
  BY <1>1 DEF Create, CreateFails, StartFile, StartFolder, InputFails, StreamDone, Finish,
              Shutdown, Throw, Poll, Join, vars
<1>2. CASE AddOutput
  <2>1. PICK d \in Output : Write(StreamOffset + entry.size, d) \/ WriteFails(StreamOffset + entry.size, d)
    BY <1>2 DEF AddOutput
  <2>2. <<StreamOffset + entry.size, d>> \in Pending
    BY <1>2 DEF AddOutput, Pending
  <2> QED BY <2>1, <2>2
<1>3. CASE AddHeader
  <2>1. Write(entry.offset, LocalHeader(entry)) \/ WriteFails(entry.offset, LocalHeader(entry))
    BY <1>3 DEF AddHeader
  <2>2. <<entry.offset, LocalHeader(entry)>> \in Pending
    BY <1>3 DEF AddHeader, Pending
  <2> QED BY <2>1, <2>2
<1>4. CASE WriteCDHeader
  <2>1. <<Len(file), CDHeader(list[nth])>> \in Pending
    BY <1>4 DEF WriteCDHeader, Pending
  <2> QED BY <1>4, <2>1 DEF WriteCDHeader, AtEnd
<1>5. CASE WriteRec64
  <2>1. <<Len(file), Rec64(start, list)>> \in Pending
    <3>1. ~(nth <= Len(list)) /\ job = "cd"
      BY <1>5, TypeFacts DEF WriteRec64
    <3> QED BY <3>1 DEF Pending
  <2> QED BY <1>5, <2>1 DEF WriteRec64, AtEnd
<1>6. CASE WriteLocator
  <2>1. <<Len(file), Locator(start)>> \in Pending
    BY <1>6 DEF WriteLocator, Pending
  <2> QED BY <1>6, <2>1 DEF WriteLocator, AtEnd
<1>7. CASE WriteEndOfCD
  <2>1. <<Len(file), EndOfCD(list)>> \in Pending
    BY <1>7 DEF WriteEndOfCD, Pending
  <2> QED BY <1>7, <2>1 DEF WriteEndOfCD, AtEnd
<1>8. CASE Kill
  BY <1>8 DEF Kill
<1> QED BY <1>1, <1>2, <1>3, <1>4, <1>5, <1>6, <1>7, <1>8 DEF Next, JobNext, MainNext

\* The types of what the threads have.
JobTypes ==
    /\ main \in {"polling", "joining", "returned", "dead"}
    /\ job \in {"create", "next", "stream", "header", "shutdown", "cd", "locator", "end of cd", "ended", "dead"}
    /\ jobStatus \in {"running", "finished", "error"}
    /\ todo \in Jobs
    /\ nth \in 1 .. Len(todo) + 1
    /\ entry \in Entry \cup {NoEntry} /\ skipped \subseteq DOMAIN todo /\ gone \subseteq DOMAIN todo
    /\ list \in Seq(Entry) /\ Len(list) <= Len(todo)
    /\ start \in Nat

LEMMA JobTypesInit == Init => JobTypes /\ Counted /\ TypeOK
<1> SUFFICES ASSUME Init PROVE JobTypes /\ Counted /\ TypeOK
  OBVIOUS
<1>1. todo \in Seq(Names)
  BY JobAssumption DEF Init
<1>2. Len(todo) \in Nat
  BY <1>1, LenProperties
<1>3. JobTypes
  <2>1. list = <<>> /\ list \in Seq(Entry) /\ Len(list) = 0
    BY EmptySeq DEF Init
  <2> QED BY <1>2, <2>1 DEF Init, JobTypes
<1>4. Counted
  BY DEF Init, Counted
<1>5. file \in Seq(Cell) /\ mnFileSize \in 0 .. Len(file) /\ failbit \in BOOLEAN
  <2>1. file = <<>> /\ mnFileSize = 0 /\ failbit = FALSE
    BY DEF Init, FileInit
  <2>2. <<>> \in Seq(Cell) /\ 0 \in 0 .. Len(<<>>)
    BY EmptySeq
  <2>3. file \in Seq(Cell)
    BY <2>1, <2>2
  <2>4. mnFileSize \in 0 .. Len(file)
    BY <2>1, <2>2
  <2> QED BY <2>1, <2>3, <2>4
<1> QED BY <1>3, <1>4, <1>5 DEF TypeOK, JobTypes

LEMMA SkipTypes ==
    ASSUME TInv, job \in {"next", "stream", "header"}, nth <= Len(todo), Skip
    PROVE  JobTypes' /\ Counted'
<1>1. nth \in 1 .. Len(todo) /\ nth + 1 \in 1 .. Len(todo) + 1 /\ Len(list) <= nth - 1
  BY TypeFacts DEF TInv, Counted, Adding
<1>2. skipped' \subseteq DOMAIN todo'
  BY <1>1, TypeFacts DEF Skip, TInv, TypeOK
<1>3. JobTypes'
  BY <1>1, <1>2 DEF Skip, TInv, TypeOK, JobTypes
<1>4. Counted'
  BY <1>1, TypeFacts DEF Skip, Counted
<1> QED BY <1>3, <1>4

LEMMA StartTypes ==
    ASSUME TInv, StartFile \/ StartFolder
    PROVE  JobTypes' /\ Counted'
<1>1. nth \in DOMAIN todo /\ todo[nth] \in Names /\ FolderName[todo[nth]] \in Names
  BY TypeFacts, JobAssumption DEF StartFile, StartFolder
<1>2. CASE StartFile
  <2>1. entry' \in Entry
    BY <1>1, <1>2, TypeFacts DEF StartFile, Entry
  <2> QED BY <1>2, <2>1 DEF StartFile, TInv, TypeOK, JobTypes, Counted, Adding
<1>3. CASE StartFolder
  <2>1. entry' \in Entry
    BY <1>1, <1>3, TypeFacts DEF StartFolder, Entry
  <2>2. gone' \subseteq DOMAIN todo'
    BY <1>1, <1>3 DEF StartFolder, TInv, TypeOK
  <2> QED BY <1>3, <2>1, <2>2 DEF StartFolder, TInv, TypeOK, JobTypes, Counted, Adding
<1> QED BY <1>2, <1>3

LEMMA AddOutputTypes ==
    ASSUME TInv, AddOutput
    PROVE  JobTypes' /\ Counted'
<1>1. job = "stream" /\ nth <= Len(todo) /\ entry \in Entry
  BY DEF AddOutput, TInv, Counted
<1>2. CASE Skip
  BY <1>1, <1>2, SkipTypes
<1>3. CASE \E d \in Output :
              /\ entry' = [entry EXCEPT !.size = @ + Len(d)]
              /\ UNCHANGED <<main, job, jobStatus, todo, nth, skipped, gone, list, start>>
  <2>1. PICK d \in Output : /\ entry' = [entry EXCEPT !.size = @ + Len(d)]
                            /\ UNCHANGED <<main, job, jobStatus, todo, nth, skipped, gone, list, start>>
    BY <1>3
  <2>2. Len(d) \in Nat
    <3>1. PICK n \in 1 .. MaxOutput, t \in DataTags : d = Data(entry.name, entry.size + 1, n, t)
      BY DEF Output
    <3>2. entry.size + 1 \in Nat /\ n \in Nat
      BY <1>1, JobAssumption DEF Entry
    <3> QED BY <3>1, <3>2, DataIs
  <2>3. entry' \in Entry
    BY <1>1, <2>1, <2>2 DEF Entry
  <2> QED BY <2>1, <2>3 DEF TInv, TypeOK, JobTypes, Counted
<1> QED BY <1>2, <1>3 DEF AddOutput

LEMMA AddHeaderTypes ==
    ASSUME TInv, AddHeader
    PROVE  JobTypes' /\ Counted'
<1>1. job = "header" /\ nth <= Len(todo) /\ entry \in Entry
  BY DEF AddHeader, TInv, Counted
<1>2. CASE Skip
  BY <1>1, <1>2, SkipTypes
<1>3. CASE /\ list' = Append(list, entry) /\ nth' = nth + 1 /\ job' = "next"
           /\ UNCHANGED <<main, jobStatus, todo, entry, skipped, gone, start>>
  <2>1. nth \in 1 .. Len(todo) /\ nth + 1 \in 1 .. Len(todo) + 1 /\ Len(list) <= nth - 1
    BY <1>1, TypeFacts DEF TInv, Counted, Adding
  <2>2. list' \in Seq(Entry) /\ Len(list') = Len(list) + 1
    BY <1>1, <1>3, TypeFacts
  <2>3. Len(list') <= Len(todo') /\ Len(list') <= nth' - 1
    BY <1>3, <2>1, <2>2, TypeFacts
  <2> QED BY <1>3, <2>1, <2>2, <2>3 DEF TInv, TypeOK, JobTypes, Counted
<1> QED BY <1>2, <1>3 DEF AddHeader

LEMMA JobTypesStep ==
    ASSUME TInv, [Next]_vars
    PROVE  JobTypes' /\ Counted'
<1> USE TypeFacts
<1>1. CASE Create \/ CreateFails
  BY <1>1 DEF Create, CreateFails, TInv, TypeOK, JobTypes, Counted, Adding
<1>2. CASE StartFile \/ StartFolder
  BY <1>2, StartTypes
<1>3. CASE InputFails
  <2>1. job \in {"next", "stream"} /\ nth <= Len(todo) /\ Skip
    BY <1>3 DEF InputFails, TInv, Counted
  <2> QED BY <2>1, SkipTypes
<1>4. CASE AddOutput
  BY <1>4, AddOutputTypes
<1>5. CASE StreamDone \/ Finish
  BY <1>5 DEF StreamDone, Finish, TInv, TypeOK, JobTypes, Counted, Adding
<1>6. CASE AddHeader
  BY <1>6, AddHeaderTypes
<1>7. CASE Shutdown
  BY <1>7 DEF Shutdown, TInv, TypeOK, JobTypes, Counted, Adding
<1>8. CASE WriteCDHeader
  <2>1. nth + 1 \in 1 .. Len(todo) + 1
    BY <1>8 DEF WriteCDHeader, TInv, TypeOK
  <2> QED BY <1>8, <2>1 DEF WriteCDHeader, TInv, TypeOK, JobTypes, Counted, Adding
<1>9. CASE WriteRec64
  BY <1>9 DEF WriteRec64, TInv, TypeOK, JobTypes, Counted, Adding
<1>10. CASE WriteLocator \/ WriteEndOfCD
  BY <1>10 DEF WriteLocator, WriteEndOfCD, TInv, TypeOK, JobTypes, Counted, Adding
<1>11. CASE Throw \/ Kill
  BY <1>11 DEF Throw, Kill, Die, TInv, TypeOK, JobTypes, Counted, Adding
<1>12. CASE Poll \/ Join \/ UNCHANGED vars
  BY <1>12 DEF Poll, Join, vars, jobVars, TInv, TypeOK, JobTypes, Counted
<1> QED BY <1>1, <1>2, <1>3, <1>4, <1>5, <1>6, <1>7, <1>8, <1>9, <1>10, <1>11, <1>12
        DEF Next, JobNext, MainNext

LEMMA TInvStep == TInv /\ [Next]_vars => TInv'
<1> SUFFICES ASSUME TInv, [Next]_vars PROVE TInv'
  OBVIOUS
<1>1. JobTypes' /\ Counted'
  BY JobTypesStep
<1>2. file \in Seq(Cell) /\ mnFileSize \in 0 .. Len(file) /\ failbit \in BOOLEAN
  BY DEF TInv, TypeOK
<1>3. file' \in Seq(Cell) /\ mnFileSize' \in 0 .. Len(file') /\ failbit' \in BOOLEAN
  <2>1. CASE UNCHANGED fileVars
    BY <1>2, <2>1 DEF fileVars
  <2>2. CASE \E w \in Pending : Write(w[1], w[2]) \/ WriteFails(w[1], w[2]) \/ Torn(w[1], w[2])
    <3>1. PICK w \in Pending : Write(w[1], w[2]) \/ WriteFails(w[1], w[2]) \/ Torn(w[1], w[2])
      BY <2>2
    <3>2. w[1] \in Nat /\ w[2] \in Seq(Cell)
      BY PendingIsCells
    <3> QED BY <1>2, <3>1, <3>2, FileTypes
  <2> QED BY <2>1, <2>2, FileStep
<1> QED BY <1>1, <1>3 DEF TInv, TypeOK, JobTypes

\* Every variable keeps its type, whatever is found, fails or is killed: no more entries
\* than files, and a size that is never beyond the end of the file.
THEOREM TypeCorrect == Spec => []TypeOK
<1>1. Init => TInv
  BY JobTypesInit DEF TInv
<1>2. TInv => TypeOK
  BY DEF TInv
<1> QED BY <1>1, <1>2, TInvStep, PTL DEF Spec

--------------------------------------------------------------------------------
(* What a reader gets of a directory *)

\* The record behind n headers that begin behind s.
After(l, s, n) == s + Sums(l)[n]

\* The first n headers are in f, the first of them behind s.
HeadersAt(f, l, s, n) ==
    \A k \in 1 .. n : f[After(l, s, k - 1) + 1] = CDHeader(l[k])[1]

\* Behind the headers there is the zip64 record, and no other one.
Rec64At(f, l, s) ==
    LET r == After(l, s, Len(l))
    IN  /\ HeadersAt(f, l, s, Len(l))
        /\ f[r + 1] = Rec64(s, l)[1]
        /\ \A i \in r + 2 .. Len(f) : f[i].tag # "rec64"

\* The directory and its records are in f, the last one in part at least.
Complete(f, l) ==
    \E s \in Nat :
       LET r == After(l, s, Len(l))
       IN  /\ Rec64At(f, l, s)
           /\ Len(f) > r + kRec64Size + kLocatorSize /\ Len(f) <= r + TrailerSize
           /\ f[r + kRec64Size + 1].tag = "locator"
           /\ f[r + kRec64Size + kLocatorSize + 1].tag = "eocd"

LEMMA AfterIs ==
    ASSUME NEW l \in Seq(Entry), NEW s \in Nat
    PROVE  /\ \A n \in 0 .. Len(l) : After(l, s, n) \in Nat /\ After(l, s, n) >= s
           /\ After(l, s, 0) = s
           /\ \A k \in 1 .. Len(l) :
                 After(l, s, k) = After(l, s, k - 1) + HeaderSize(l[k].name)
<1>1. IsSums(Sums(l), l) /\ Len(l) \in Nat
  BY SumsAre, LenProperties
<1>2. \A n \in 0 .. Len(l) : Sums(l)[n] \in Nat
  BY <1>1 DEF IsSums
<1>3. ASSUME NEW k \in 1 .. Len(l)
      PROVE  After(l, s, k) = After(l, s, k - 1) + HeaderSize(l[k].name)
  <2>1. Sums(l)[k] = Sums(l)[k - 1] + HeaderSize(l[k].name)
    BY <1>1 DEF IsSums
  <2>2. Sums(l)[k - 1] \in Nat
    BY <1>1, <1>2
  <2>3. HeaderSize(l[k].name) \in Nat
    <3>1. l[k] \in Entry
      OBVIOUS
    <3> QED BY <3>1, HeaderSizeIsPositive DEF Entry
  <2> QED BY <2>1, <2>2, <2>3 DEF After
<1> QED BY <1>1, <1>2, <1>3 DEF After, IsSums

LEMMA FirstOfRecord ==
    ASSUME NEW part, NEW len \in Nat \ {0}, NEW name, NEW offset, NEW size, NEW count
    PROVE  Record(part, len, name, offset, size, count)[1] =
              [tag |-> part, part |-> part, name |-> name, at |-> 1,
               offset |-> offset, size |-> size, count |-> count]
<1>1. 1 \in 1 .. len
  OBVIOUS
<1> QED BY <1>1 DEF Record

LEMMA FirstCells ==
    ASSUME NEW s, NEW l
    PROVE  /\ \A e \in Entry :
                 LET c == CDHeader(e)[1]
                 IN  /\ c.tag = "cd" /\ c.part = "cd"
                     /\ c.name = e.name /\ c.offset = e.offset /\ c.size = e.size
           /\ Rec64(s, l)[1].tag = "rec64" /\ Rec64(s, l)[1].offset = s
           /\ Rec64(s, l)[1].size = CDSize(l) /\ Rec64(s, l)[1].count = Len(l)
           /\ Locator(s)[1].tag = "locator" /\ EndOfCD(l)[1].tag = "eocd"
<1>1. ASSUME NEW e \in Entry
      PROVE  CDHeader(e)[1] = [tag |-> "cd", part |-> "cd", name |-> e.name, at |-> 1,
                               offset |-> e.offset, size |-> e.size, count |-> 0]
  <2>1. HeaderSize(e.name) \in Nat \ {0}
    BY HeaderSizeIsPositive DEF Entry
  <2> QED BY <2>1, FirstOfRecord DEF CDHeader
<1>2. Rec64(s, l)[1] = [tag |-> "rec64", part |-> "rec64", name |-> NoName, at |-> 1,
                        offset |-> s, size |-> CDSize(l), count |-> Len(l)]
  <2>1. kRec64Size \in Nat \ {0}
    BY TrailerIsNat
  <2> QED BY <2>1, FirstOfRecord DEF Rec64
<1>3. Locator(s)[1] = [tag |-> "locator", part |-> "locator", name |-> NoName, at |-> 1,
                       offset |-> s, size |-> 0, count |-> 0]
  <2>1. kLocatorSize \in Nat \ {0}
    BY TrailerIsNat
  <2> QED BY <2>1, FirstOfRecord DEF Locator
<1>4. EndOfCD(l)[1] = [tag |-> "eocd", part |-> "eocd", name |-> NoName, at |-> 1,
                       offset |-> NoOffset, size |-> CDSize(l), count |-> Len(l)]
  <2>1. kEndOfCDSize \in Nat \ {0}
    BY TrailerIsNat
  <2> QED BY <2>1, FirstOfRecord DEF EndOfCD
<1>5. ASSUME NEW e \in Entry
      PROVE  LET c == CDHeader(e)[1]
             IN  /\ c.tag = "cd" /\ c.part = "cd"
                 /\ c.name = e.name /\ c.offset = e.offset /\ c.size = e.size
  <2>1. PICK c : c = CDHeader(e)[1]
    OBVIOUS
  <2>2. c = [tag |-> "cd", part |-> "cd", name |-> e.name, at |-> 1,
             offset |-> e.offset, size |-> e.size, count |-> 0]
    BY <1>1, <2>1
  <2>3. c.tag = "cd" /\ c.part = "cd"
    BY <2>2
  <2>4. c.name = e.name /\ c.offset = e.offset /\ c.size = e.size
    BY <2>2
  <2> QED BY <2>1, <2>3, <2>4
<1>6. /\ Rec64(s, l)[1].tag = "rec64" /\ Rec64(s, l)[1].offset = s
      /\ Rec64(s, l)[1].size = CDSize(l) /\ Rec64(s, l)[1].count = Len(l)
  BY <1>2
<1>7. Locator(s)[1].tag = "locator"
  BY <1>3
<1>8. EndOfCD(l)[1].tag = "eocd"
  BY <1>4
<1> QED BY <1>5, <1>6, <1>7, <1>8

\* Headers follow one another.
LEMMA AfterGrows ==
    ASSUME NEW l \in Seq(Entry), NEW s \in Nat, NEW k \in 0 .. Len(l)
    PROVE  \A j \in 0 .. k : After(l, s, j) <= After(l, s, k)
<1> DEFINE n == Len(l)
           T == {m \in 0 .. n : \A j \in 0 .. m : After(l, s, j) <= After(l, s, m)}
<1>1. n \in Nat
  BY LenProperties
<1>2. 0 \in T
  BY <1>1, AfterIs
<1>3. ASSUME NEW m \in 1 .. n, m - 1 \in T
      PROVE  m \in T
  <2>1. HeaderSize(l[m].name) \in Nat
    <3>1. l[m] \in Entry
      OBVIOUS
    <3> QED BY <3>1, HeaderSizeIsPositive DEF Entry
  <2>2. After(l, s, m) = After(l, s, m - 1) + HeaderSize(l[m].name)
    BY AfterIs
  <2>3. After(l, s, m) \in Nat /\ After(l, s, m - 1) \in Nat /\ After(l, s, m - 1) <= After(l, s, m)
    <3>1. m - 1 \in 0 .. Len(l)
      BY <1>1
    <3>2. After(l, s, m - 1) \in Nat
      BY <3>1, AfterIs
    <3> QED BY <2>1, <2>2, <3>2
  <2> SUFFICES ASSUME NEW j \in 0 .. m PROVE After(l, s, j) <= After(l, s, m)
    OBVIOUS
  <2>4. CASE j = m
    BY <2>3, <2>4
  <2>5. CASE j # m
    <3>1. j \in 0 .. m - 1 /\ j \in 0 .. n
      BY <2>5
    <3>2. After(l, s, j) <= After(l, s, m - 1) /\ After(l, s, j) \in Nat
      BY <1>3, <3>1, AfterIs
    <3> QED BY <2>2, <2>3, <3>2
  <2> QED BY <2>4, <2>5
<1>4. k \in T
  <2> HIDE DEF T
  <2> QED BY <1>1, <1>2, <1>3, BoundedInduction
<1> QED BY <1>4

\* The reader takes the zip64 record for the directory, since it is the last one.
LEMMA FindsRec64 ==
    ASSUME NEW l \in Seq(Entry), NEW f, IsSeq(f), NEW s \in Nat, Rec64At(f, l, s),
           Len(f) > After(l, s, Len(l)) + kRec64Size + kLocatorSize,
           Len(f) <= After(l, s, Len(l)) + TrailerSize,
           f[After(l, s, Len(l)) + kRec64Size + 1].tag = "locator"
    PROVE  Directory(f) = Rec64(s, l)[1]
<1> DEFINE r == After(l, s, Len(l))
<1>1. r \in Nat /\ Len(f) \in Nat /\ DOMAIN f = 1 .. Len(f)
  <2>1. Len(l) \in 0 .. Len(l)
    BY LenProperties
  <2> QED BY <2>1, AfterIs DEF IsSeq
<1>2. r + 1 \in DOMAIN f /\ r + kRec64Size + 1 \in DOMAIN f
  BY <1>1, TrailerIsNat
<1>3. r + 1 + kMaxSizeOfCDRec > Len(f) /\ r + kRec64Size + 1 + kMaxSizeOfCDRec > Len(f)
  BY <1>1, TrailerIsNat
<1>4. f[r + 1] = Rec64(s, l)[1] /\ \A i \in r + 2 .. Len(f) : f[i].tag # "rec64"
  BY DEF Rec64At
<1>5. f[r + 1].tag = "rec64"
  BY <1>4, FirstCells
<1>6. r + 1 \in Tagged(f, "rec64") /\ Tagged(f, "locator") # {}
  BY <1>2, <1>3, <1>5 DEF Tagged
<1>7. \A j \in Tagged(f, "rec64") : j <= r + 1
  <2> SUFFICES ASSUME NEW j \in Tagged(f, "rec64"), ~(j <= r + 1) PROVE FALSE
    OBVIOUS
  <2>1. j \in 1 .. Len(f) /\ f[j].tag = "rec64"
    BY <1>1 DEF Tagged
  <2>2. j \in r + 2 .. Len(f)
    BY <1>1, <2>1
  <2> QED BY <1>4, <2>1, <2>2
<1>8. Found(f, "rec64") = r + 1
  <2> DEFINE Last(i) == i \in Tagged(f, "rec64") /\ \A j \in Tagged(f, "rec64") : j <= i
  <2>1. Last(r + 1)
    BY <1>6, <1>7
  <2>2. Last(Found(f, "rec64"))
    <3> HIDE DEF r
    <3> QED BY <2>1 DEF Found
  <2>3. Found(f, "rec64") \in Nat
    BY <1>1, <2>2 DEF Tagged
  <2>4. Found(f, "rec64") <= r + 1 /\ r + 1 <= Found(f, "rec64")
    BY <2>1, <2>2
  <2> QED BY <1>1, <2>3, <2>4
<1> QED BY <1>4, <1>6, <1>8 DEF Directory, IsZip64

\* From there it gets the whole list.
LEMMA ReadsHeaders ==
    ASSUME NEW l \in Seq(Entry), NEW f, IsSeq(f), NEW s \in Nat,
           HeadersAt(f, l, s, Len(l)), Len(f) > After(l, s, Len(l)),
           Directory(f) = Rec64(s, l)[1]
    PROVE  Listed(f) = l
<1> DEFINE d == Directory(f)
           n == Len(l)
           Step(o) == o + (IF IsCDHeader(f, o) THEN HeaderSize(f[o + 1].name) ELSE 0)
           Eq(t) == t = [k \in 1 .. d.count + 1 |-> IF k = 1 THEN d.offset ELSE Step(t[k - 1])]
           t0 == [k \in 1 .. n + 1 |-> After(l, s, k - 1)]
           offset == CHOOSE t : Eq(t)
<1>1. n \in Nat /\ Len(f) \in Nat /\ DOMAIN f = 1 .. Len(f) /\ DOMAIN l = 1 .. n
  BY LenProperties DEF IsSeq
<1>2. d.count = n /\ d.offset = s
  BY FirstCells
<1>3. ASSUME NEW k \in 1 .. n
      PROVE  /\ IsCDHeader(f, After(l, s, k - 1))
             /\ f[After(l, s, k - 1) + 1].name = l[k].name
             /\ f[After(l, s, k - 1) + 1].offset = l[k].offset
             /\ f[After(l, s, k - 1) + 1].size = l[k].size
             /\ Step(After(l, s, k - 1)) = After(l, s, k)
  <2>1. l[k] \in Entry
    OBVIOUS
  <2>2. f[After(l, s, k - 1) + 1] = CDHeader(l[k])[1]
    BY DEF HeadersAt
  <2>3. After(l, s, k - 1) \in Nat /\ After(l, s, k - 1) <= After(l, s, n) /\ After(l, s, n) \in Nat
    <3>1. k - 1 \in 0 .. n /\ n \in 0 .. n
      BY <1>1
    <3> HIDE DEF n
    <3> QED BY <3>1, AfterIs, AfterGrows DEF n
  <2>4. After(l, s, k - 1) + 1 \in DOMAIN f
    BY <1>1, <2>3
  <2>5. IsCDHeader(f, After(l, s, k - 1))
    BY <2>1, <2>2, <2>4, FirstCells DEF IsCDHeader
  <2>6. After(l, s, k) = After(l, s, k - 1) + HeaderSize(l[k].name)
    BY AfterIs
  <2>7. f[After(l, s, k - 1) + 1].name = l[k].name
    BY <2>1, <2>2, FirstCells
  <2> QED BY <2>1, <2>2, <2>5, <2>6, <2>7, FirstCells
<1>4. After(l, s, 0) = s
  BY AfterIs
<1>5. Eq(t0)
  <2> SUFFICES ASSUME NEW k \in 1 .. n + 1
               PROVE  After(l, s, k - 1) = IF k = 1 THEN d.offset ELSE Step(t0[k - 1])
    BY <1>1, <1>2
  <2>1. CASE k = 1
    BY <1>2, <1>4, <2>1
  <2>2. CASE k # 1
    <3>1. k - 1 \in 1 .. n /\ k - 1 \in 1 .. n + 1
      BY <1>1, <2>2
    <3>2. Step(After(l, s, (k - 1) - 1)) = After(l, s, k - 1)
      <4> HIDE DEF Step
      <4> QED BY <1>3, <3>1
    <3>3. t0[k - 1] = After(l, s, (k - 1) - 1)
      BY <3>1
    <3> HIDE DEF Step, t0
    <3> QED BY <2>2, <3>2, <3>3
  <2> QED BY <2>1, <2>2
<1>6. Eq(offset)
  <2> HIDE DEF Eq, t0
  <2> QED BY <1>5
<1>7. \A k \in 0 .. n : offset[k + 1] = After(l, s, k)
  <2> DEFINE T == {k \in 0 .. n : offset[k + 1] = After(l, s, k)}
  <2> HIDE DEF offset, Step
  <2>1. 0 \in T
    BY <1>1, <1>2, <1>4, <1>6
  <2>2. ASSUME NEW k \in 1 .. n, k - 1 \in T
        PROVE  k \in T
    <3>1. offset[k] = After(l, s, k - 1)
      BY <2>2
    <3>2. offset[k + 1] = Step(offset[k])
      <4>1. k + 1 \in 1 .. d.count + 1 /\ k + 1 # 1 /\ (k + 1) - 1 = k
        BY <1>1, <1>2
      <4> QED BY <1>6, <4>1
    <3>3. offset[k + 1] = After(l, s, k)
      BY <1>3, <3>1, <3>2
    <3> QED BY <3>3
  <2>3. \A k \in 0 .. n : k \in T
    <3> HIDE DEF T
    <3> QED BY <1>1, <2>1, <2>2, BoundedInduction
  <2> QED BY <2>3
<1> DEFINE ReadAt(k) == IF IsCDHeader(f, offset[k])
                        THEN LET c == f[offset[k] + 1]
                             IN  [name |-> c.name, offset |-> c.offset, size |-> c.size]
                        ELSE [name |-> NoName, offset |-> 0, size |-> 0]
<1>8. Listed(f) = [k \in 1 .. d.count |-> ReadAt(k)]
  BY DEF Listed
<1>9. ASSUME NEW k \in 1 .. n
      PROVE  ReadAt(k) = l[k]
  <2> HIDE DEF offset, Step
  <2>1. offset[k] = After(l, s, k - 1)
    <3>1. k - 1 \in 0 .. n /\ (k - 1) + 1 = k
      BY <1>1
    <3> QED BY <1>7, <3>1
  <2>2. l[k] \in Entry
    OBVIOUS
  <2>3. l[k] = [name |-> l[k].name, offset |-> l[k].offset, size |-> l[k].size]
    BY <2>2 DEF Entry
  <2> QED BY <1>3, <2>1, <2>3
<1>10. l = [k \in 1 .. n |-> l[k]]
  BY <1>1
<1> HIDE DEF ReadAt
<1> QED BY <1>2, <1>8, <1>9, <1>10

\* A directory that is complete is the one that is read.
LEMMA ReadsDirectory ==
    ASSUME NEW l \in Seq(Entry), NEW f, IsSeq(f), Complete(f, l)
    PROVE  /\ Listed(f) = l
           /\ CDSize(l) <= kMaxReasonableCDBytes => CanOpen(f)
<1>1. PICK s \in Nat :
         /\ Rec64At(f, l, s)
         /\ Len(f) > After(l, s, Len(l)) + kRec64Size + kLocatorSize
         /\ Len(f) <= After(l, s, Len(l)) + TrailerSize
         /\ f[After(l, s, Len(l)) + kRec64Size + 1].tag = "locator"
         /\ f[After(l, s, Len(l)) + kRec64Size + kLocatorSize + 1].tag = "eocd"
  BY DEF Complete
<1> DEFINE r == After(l, s, Len(l))
<1>2. r \in Nat /\ r >= s /\ Len(f) \in Nat /\ DOMAIN f = 1 .. Len(f)
  <2>1. Len(l) \in 0 .. Len(l)
    BY LenProperties
  <2> QED BY <2>1, AfterIs DEF IsSeq
<1>3. Directory(f) = Rec64(s, l)[1]
  BY <1>1, FindsRec64
<1>4. Listed(f) = l
  <2>1. HeadersAt(f, l, s, Len(l))
    BY <1>1 DEF Rec64At
  <2>2. Len(f) > r
    BY <1>1, <1>2, TrailerIsNat
  <2> QED BY <1>3, <2>1, <2>2, ReadsHeaders
<1>5. ASSUME CDSize(l) <= kMaxReasonableCDBytes
      PROVE  CanOpen(f)
  <2>1. r + kRec64Size + kLocatorSize + 1 \in Tagged(f, "eocd")
    <3>1. r + kRec64Size + kLocatorSize + 1 \in DOMAIN f
      BY <1>1, <1>2, TrailerIsNat
    <3>2. r + kRec64Size + kLocatorSize + 1 + kMaxSizeOfCDRec > Len(f)
      BY <1>1, <1>2, TrailerIsNat
    <3> QED BY <1>1, <3>1, <3>2 DEF Tagged
  <2>2. Directory(f).size = CDSize(l) /\ Directory(f).offset = s
    BY <1>3, FirstCells
  <2>3. s < Len(f)
    BY <1>1, <1>2, TrailerIsNat
  <2> QED BY <1>5, <2>1, <2>2, <2>3 DEF CanOpen
<1> QED BY <1>4, <1>5

--------------------------------------------------------------------------------
(* Writing the directory at the end *)

\* g is f with the first k of the cells behind it.
Extends(f, g, cells, k) ==
    /\ IsSeq(g) /\ Len(g) = Len(f) + k
    /\ \A i \in 1 .. Len(f) : g[i] = f[i]
    /\ \A j \in 1 .. k : g[Len(f) + j] = cells[j]

LEMMA PrefixIs ==
    ASSUME NEW s, IsSeq(s), NEW k \in 0 .. Len(s)
    PROVE  /\ IsSeq(SubSeq(s, 1, k)) /\ Len(SubSeq(s, 1, k)) = k
           /\ \A i \in 1 .. k : SubSeq(s, 1, k)[i] = s[i]
<1> DEFINE S == {s[i] : i \in DOMAIN s}
<1>1. s \in [1 .. Len(s) -> S]
  BY DEF IsSeq
<1>2. s \in Seq(S)
  BY <1>1, SeqDef DEF IsSeq
<1>3. \A i \in 1 .. k : SubSeq(s, 1, k)[i] = s[i]
  <2> HIDE DEF S
  <2>1. k \in Nat /\ k <= Len(s) /\ Len(s) \in Nat
    BY DEF IsSeq
  <2>2. \A i \in 1 .. k - 1 + 1 : SubSeq(s, 1, k)[i] = s[1 + i - 1]
    BY <1>2, <2>1, SubSeqProperties
  <2> QED BY <2>1, <2>2
<1> QED BY <1>3, PrefixIsSeq

LEMMA AppendExtends ==
    ASSUME NEW f, IsSeq(f), NEW cells, IsSeq(cells), NEW k \in 0 .. Len(cells)
    PROVE  Extends(f, Written(f, Len(f), SubSeq(cells, 1, k)), cells, k)
<1> DEFINE p == SubSeq(cells, 1, k)
           w == Written(f, Len(f), p)
<1>1. IsSeq(p) /\ Len(p) = k /\ \A i \in 1 .. k : p[i] = cells[i]
  BY PrefixIs
<1>2. Len(f) \in Nat /\ k \in Nat
  BY DEF IsSeq
<1> HIDE DEF p
<1>3. /\ IsSeq(w)
      /\ Len(w) = IF Len(f) + k > Len(f) THEN Len(f) + k ELSE Len(f)
      /\ \A i \in 1 .. Len(w) : i > Len(f) /\ i <= Len(f) + k => w[i] = p[i - Len(f)]
      /\ \A i \in 1 .. Len(f) : ~(i > Len(f) /\ i <= Len(f) + k) => w[i] = f[i]
  <2>1. /\ IsSeq(w)
        /\ Len(w) = IF Len(f) + Len(p) > Len(f) THEN Len(f) + Len(p) ELSE Len(f)
        /\ \A i \in 1 .. Len(w) : i > Len(f) /\ i <= Len(f) + Len(p) => w[i] = p[i - Len(f)]
        /\ \A i \in 1 .. Len(f) : ~(i > Len(f) /\ i <= Len(f) + Len(p)) => w[i] = f[i]
    BY <1>1, <1>2, WrittenIs, SMTT(30)
  <2> QED BY <1>1, <2>1
<1> HIDE DEF w
<1>4. Len(w) = Len(f) + k /\ \A i \in 1 .. Len(f) : w[i] = f[i]
  BY <1>2, <1>3
<1>5. ASSUME NEW j \in 1 .. k
      PROVE  w[Len(f) + j] = cells[j]
  <2>1. PICK i \in 1 .. Len(w) : i = Len(f) + j
    BY <1>2, <1>4
  <2>2. i > Len(f) /\ i <= Len(f) + k /\ i - Len(f) = j
    BY <1>2, <2>1
  <2>3. w[i] = p[i - Len(f)]
    BY <1>3, <2>2
  <2> QED BY <1>1, <2>1, <2>2, <2>3
<1>6. Extends(f, w, cells, k)
  BY <1>3, <1>4, <1>5 DEF Extends
<1> QED BY <1>6 DEF p, w

LEMMA WholeIsPrefix ==
    ASSUME NEW s, IsSeq(s)
    PROVE  Len(s) \in 0 .. Len(s) /\ SubSeq(s, 1, Len(s)) = s
<1>1. Len(s) \in 0 .. Len(s)
  BY DEF IsSeq
<1>2. /\ IsSeq(SubSeq(s, 1, Len(s))) /\ Len(SubSeq(s, 1, Len(s))) = Len(s)
      /\ \A i \in 1 .. Len(s) : SubSeq(s, 1, Len(s))[i] = s[i]
  BY <1>1, PrefixIs
<1> QED BY <1>1, <1>2 DEF IsSeq

\* Whatever becomes of a write, the file is left alone, or a part is written.
LEMMA PartIsWritten ==
    ASSUME NEW off, NEW cells, IsSeq(cells),
           Write(off, cells) \/ WriteFails(off, cells) \/ Torn(off, cells)
    PROVE  \/ UNCHANGED fileVars
           \/ ~failbit /\ \E k \in 0 .. Len(cells) : file' = Written(file, off, SubSeq(cells, 1, k))
<1>1. CASE Write(off, cells)
  BY <1>1, WholeIsPrefix DEF Write
<1>2. CASE WriteFails(off, cells) \/ Torn(off, cells)
  BY <1>2 DEF WriteFails, Torn
<1> QED BY <1>1, <1>2

\* A write that did not fail is a whole one.
LEMMA WholeAppend ==
    ASSUME IsSeq(file), NEW cells, IsSeq(cells), AtEnd(cells), ~failbit'
    PROVE  ~failbit /\ Extends(file, file', cells, Len(cells))
<1>1. Write(Len(file), cells)
  BY DEF AtEnd, WriteFails, FailbitAfter, fileVars
<1>2. file' = Written(file, Len(file), SubSeq(cells, 1, Len(cells)))
  BY <1>1, WholeIsPrefix DEF Write
<1>3. Extends(file, file', cells, Len(cells))
  BY <1>2, WholeIsPrefix, AppendExtends
<1> QED BY <1>1, <1>3 DEF Write

\* All cells of a record but the first have no tag.
LEMMA RecordTags ==
    ASSUME NEW part, NEW len \in Nat, NEW name, NEW offset, NEW size, NEW count
    PROVE  \A i \in 1 .. len : /\ Record(part, len, name, offset, size, count)[i].part = part
                               /\ Record(part, len, name, offset, size, count)[i].tag = IF i = 1 THEN part ELSE "none"
BY DEF Record

\* Headers stay where they are when something is written behind them.
LEMMA HeadersStay ==
    ASSUME NEW l \in Seq(Entry), NEW s \in Nat, NEW n \in 0 .. Len(l), NEW f, IsSeq(f), NEW g,
           NEW cells, NEW k, Extends(f, g, cells, k), HeadersAt(f, l, s, n), After(l, s, n) <= Len(f)
    PROVE  HeadersAt(g, l, s, n)
<1> SUFFICES ASSUME NEW m \in 1 .. n PROVE g[After(l, s, m - 1) + 1] = CDHeader(l[m])[1]
  BY DEF HeadersAt
<1>1. Len(l) \in Nat /\ n \in Nat /\ Len(f) \in Nat /\ m - 1 \in 0 .. Len(l) /\ m \in 0 .. Len(l)
      /\ m \in 0 .. n /\ m \in 1 .. Len(l)
  BY LenProperties DEF IsSeq
<1>2. After(l, s, m - 1) \in Nat /\ After(l, s, n) \in Nat /\ After(l, s, m) \in Nat
  BY <1>1, AfterIs
<1>3. After(l, s, m) = After(l, s, m - 1) + HeaderSize(l[m].name) /\ HeaderSize(l[m].name) \in Nat \ {0}
  <2>1. l[m] \in Entry
    BY <1>1
  <2> QED BY <1>1, <2>1, AfterIs, HeaderSizeIsPositive DEF Entry
<1>4. After(l, s, m) <= After(l, s, n)
  BY <1>1, AfterGrows
<1>5. After(l, s, m - 1) + 1 \in 1 .. Len(f)
  BY <1>1, <1>2, <1>3, <1>4
<1> QED BY <1>5 DEF HeadersAt, Extends

\* The zip64 record stays the last one when no other is written behind it.
LEMMA Rec64Stays ==
    ASSUME NEW l \in Seq(Entry), NEW s \in Nat, NEW f, IsSeq(f), NEW g,
           NEW cells, NEW k \in Nat, Extends(f, g, cells, k), \A j \in 1 .. k : cells[j].tag # "rec64",
           Rec64At(f, l, s), After(l, s, Len(l)) + kRec64Size <= Len(f)
    PROVE  Rec64At(g, l, s)
<1> DEFINE r == After(l, s, Len(l))
<1>1. r \in Nat /\ Len(f) \in Nat /\ Len(l) \in 0 .. Len(l) /\ r + 1 \in 1 .. Len(f) /\ r <= Len(f)
  <2>1. Len(l) \in 0 .. Len(l)
    BY LenProperties
  <2>2. r \in Nat /\ Len(f) \in Nat
    BY <2>1, AfterIs DEF IsSeq
  <2> QED BY <2>1, <2>2, TrailerIsNat
<1>2. HeadersAt(g, l, s, Len(l))
  BY <1>1, HeadersStay DEF Rec64At
<1>3. g[r + 1] = Rec64(s, l)[1]
  BY <1>1 DEF Rec64At, Extends
<1>4. ASSUME NEW i \in r + 2 .. Len(g)
      PROVE  g[i].tag # "rec64"
  <2>1. CASE i <= Len(f)
    <3>1. i \in 1 .. Len(f) /\ i \in r + 2 .. Len(f)
      BY <1>1, <2>1
    <3> QED BY <3>1 DEF Rec64At, Extends
  <2>2. CASE i > Len(f)
    <3>1. PICK j \in 1 .. k : i = Len(f) + j
      <4>1. i - Len(f) \in 1 .. k /\ i = Len(f) + (i - Len(f))
        BY <1>1, <2>2 DEF Extends
      <4> QED BY <4>1
    <3> QED BY <3>1 DEF Extends
  <2> QED BY <1>1, <2>1, <2>2
<1> QED BY <1>2, <1>3, <1>4 DEF Rec64At

--------------------------------------------------------------------------------
(* The directory in the making *)

\* What looks like the end of a directory is compressed data.
NoEnd(f) == \A i \in 1 .. Len(f) : f[i].tag = "eocd" => f[i].part = "data"

HasLocator(f, l, s) ==
    /\ Rec64At(f, l, s)
    /\ Len(f) = After(l, s, Len(l)) + kRec64Size + kLocatorSize
    /\ f[After(l, s, Len(l)) + kRec64Size + 1].tag = "locator"

\* (Strings with blanks are beyond the SMT backend; this one stays behind a name.)
AtLastRecord == job = "end of cd"

\* What is in the file as long as nothing failed.
InTheMaking ==
    ~failbit =>
       /\ job = "cd" =>
             /\ nth <= Len(list) + 1
             /\ HeadersAt(file, list, start, nth - 1)
             /\ Len(file) = After(list, start, nth - 1)
       /\ job = "locator" =>
             \E s \in Nat : Rec64At(file, list, s) /\ Len(file) = After(list, s, Len(list)) + kRec64Size
       /\ AtLastRecord => \E s \in Nat : HasLocator(file, list, s)
       /\ job = "ended" => jobStatus = "error" \/ Complete(file, list)

\* There is no end of a directory, or a complete directory that is final.
AllOrNothing == NoEnd(file) \/ (job \in {"ended", "dead"} /\ Complete(file, list))

\* Main returns from a thread that ended, and only such a job is not running any more.
Returned ==
    /\ main = "returned" => job = "ended"
    /\ main \in {"joining", "returned"} => jobStatus # "running"

DInv == TInv /\ IInv /\ InTheMaking /\ AllOrNothing /\ Returned

\* Cells among which there is no end of a directory.
LEMMA NoEndStays ==
    ASSUME NEW f, IsSeq(f), NoEnd(f), NEW off \in Nat, NEW cells, IsSeq(cells), NoEnd(cells),
           NEW k \in 0 .. Len(cells)
    PROVE  NoEnd(Written(f, off, SubSeq(cells, 1, k)))
<1> DEFINE p == SubSeq(cells, 1, k)
           w == Written(f, off, p)
<1>1. IsSeq(p) /\ Len(p) = k /\ \A i \in 1 .. k : p[i] = cells[i]
  BY PrefixIs
<1> HIDE DEF p
<1>2. Len(f) \in Nat /\ k \in Nat /\ k <= Len(cells) /\ Len(cells) \in Nat
  BY DEF IsSeq
<1> DEFINE n == IF off + Len(p) > Len(f) THEN off + Len(p) ELSE Len(f)
<1>3. n \in Nat /\ w = [i \in 1 .. n |-> IF i > off /\ i <= off + Len(p) THEN p[i - off]
                                        ELSE IF i <= Len(f) THEN f[i] ELSE Gap]
  BY <1>1, <1>2 DEF Written
<1>4. Len(w) = n
  BY <1>1, WrittenIs
<1> HIDE DEF w, n
<1> SUFFICES ASSUME NEW i \in 1 .. n, w[i].tag = "eocd" PROVE w[i].part = "data"
  BY <1>4 DEF NoEnd, w, p
<1>5. CASE i > off /\ i <= off + Len(p)
  <2>1. i - off \in 1 .. k /\ i - off \in 1 .. Len(cells) /\ w[i] = p[i - off]
    BY <1>1, <1>2, <1>3, <1>5
  <2> QED BY <1>1, <2>1 DEF NoEnd
<1>6. CASE ~(i > off /\ i <= off + Len(p)) /\ i <= Len(f)
  <2>1. i \in 1 .. Len(f) /\ w[i] = f[i]
    BY <1>2, <1>3, <1>6
  <2> QED BY <2>1 DEF NoEnd
<1>7. CASE ~(i > off /\ i <= off + Len(p)) /\ ~(i <= Len(f))
  <2>1. w[i] = Hole
    BY <1>3, <1>7, JobAssumption
  <2> QED BY <2>1 DEF Hole
<1> QED BY <1>5, <1>6, <1>7

LEMMA NoEndInRecord ==
    ASSUME NEW part, part # "eocd", NEW len \in Nat, NEW name, NEW offset, NEW size, NEW count
    PROVE  NoEnd(Record(part, len, name, offset, size, count))
BY RecordIs, RecordTags DEF NoEnd

LEMMA NoEndInRecords ==
    /\ \A e \in Entry : NoEnd(LocalHeader(e)) /\ NoEnd(CDHeader(e))
    /\ \A s, l : NoEnd(Rec64(s, l)) /\ NoEnd(Locator(s))
<1>1. ASSUME NEW e \in Entry PROVE NoEnd(LocalHeader(e)) /\ NoEnd(CDHeader(e))
  <2>1. HeaderSize(e.name) \in Nat
    BY HeaderSizeIsPositive DEF Entry
  <2> QED BY <2>1, NoEndInRecord DEF LocalHeader, CDHeader
<1>2. ASSUME NEW s, NEW l PROVE NoEnd(Rec64(s, l)) /\ NoEnd(Locator(s))
  <2>1. kRec64Size \in Nat /\ kLocatorSize \in Nat
    BY RecordAssumption
  <2> QED BY <2>1, NoEndInRecord DEF Rec64, Locator
<1> QED BY <1>1, <1>2

LEMMA NoEndPending ==
    ASSUME TInv, NEW w \in Pending, ~AtLastRecord
    PROVE  NoEnd(w[2])
<1>1. nth \in Nat \ {0} /\ list \in Seq(Entry) /\ Len(list) \in Nat
  BY TypeFacts
<1>2. CASE job = "stream"
  <2>1. PICK n \in 1 .. MaxOutput, t \in DataTags :
           w = <<StreamOffset + entry.size, Data(entry.name, entry.size + 1, n, t)>>
    BY <1>2 DEF Pending, Output
  <2>2. entry.size + 1 \in Nat /\ n \in Nat
    BY <1>2, JobAssumption DEF TInv, Counted, Entry
  <2>3. PICK d : d = Data(entry.name, entry.size + 1, n, t)
    OBVIOUS
  <2>4. Len(d) = n /\ \A i \in 1 .. n : d[i].part = "data"
    <3>1. PICK from \in Nat : from = entry.size + 1
      BY <2>2
    <3>2. n \in Nat /\ d = Data(entry.name, from, n, t)
      BY <2>2, <2>3, <3>1
    <3> QED BY <3>2, DataIs
  <2>5. NoEnd(d)
    BY <2>4 DEF NoEnd
  <2> QED BY <2>1, <2>3, <2>5
<1>3. CASE job = "header"
  <2>1. w = <<entry.offset, LocalHeader(entry)>> /\ entry \in Entry
    BY <1>3 DEF Pending, TInv, Counted
  <2> QED BY <2>1, NoEndInRecords
<1>4. CASE job = "cd"
  <2>1. w[2] = IF nth <= Len(list) THEN CDHeader(list[nth]) ELSE Rec64(start, list)
    BY <1>4 DEF Pending
  <2>2. ASSUME nth <= Len(list) PROVE list[nth] \in Entry
    <3>1. nth \in 1 .. Len(list)
      BY <1>1, <2>2
    <3> QED BY <1>1, <3>1
  <2> QED BY <2>1, <2>2, NoEndInRecords
<1>5. CASE job = "locator"
  <2>1. w = <<Len(file), Locator(start)>>
    BY <1>5 DEF Pending
  <2> QED BY <2>1, NoEndInRecords
<1>6. CASE job \notin {"stream", "header", "cd", "locator", "end of cd"}
  <2>1. w = <<Len(file), <<>>>>
    BY <1>6 DEF Pending
  <2>2. Len(<<>>) = 0 /\ w[2] = <<>>
    BY <2>1, EmptySeq
  <2>3. NoEnd(<<>>)
    BY <2>2 DEF NoEnd
  <2> QED BY <2>2, <2>3
<1> QED BY <1>2, <1>3, <1>4, <1>5, <1>6 DEF AtLastRecord

\* The first byte of the last record makes the directory complete.
LEMMA EndCompletes ==
    ASSUME NEW l \in Seq(Entry), NEW f, IsSeq(f), NEW s \in Nat, HasLocator(f, l, s),
           NEW g, NEW k \in 1 .. kEndOfCDSize, Extends(f, g, EndOfCD(l), k)
    PROVE  Complete(g, l)
<1> DEFINE r == After(l, s, Len(l))
<1>1. r \in Nat /\ Len(f) = r + kRec64Size + kLocatorSize /\ Len(g) = Len(f) + k /\ k \in Nat
      /\ k >= 1 /\ k <= kEndOfCDSize
  <2>1. Len(l) \in 0 .. Len(l)
    BY LenProperties
  <2> QED BY <2>1, AfterIs, TrailerIsNat DEF HasLocator, Extends
<1>2. \A j \in 1 .. k : EndOfCD(l)[j].tag # "rec64"
  <2>1. \A j \in 1 .. kEndOfCDSize : EndOfCD(l)[j].tag = IF j = 1 THEN "eocd" ELSE "none"
    BY TrailerIsNat, RecordTags DEF EndOfCD
  <2> QED BY <1>1, <2>1, TrailerIsNat
<1>3. Rec64At(g, l, s)
  <2>1. r + kRec64Size <= Len(f)
    BY <1>1, TrailerIsNat
  <2> QED BY <1>1, <1>2, <2>1, Rec64Stays DEF HasLocator
<1>4. Len(g) > r + kRec64Size + kLocatorSize /\ Len(g) <= r + TrailerSize
  BY <1>1, TrailerIsNat DEF TrailerSize
<1>5. g[r + kRec64Size + 1].tag = "locator"
  <2>1. r + kRec64Size + 1 \in 1 .. Len(f)
    BY <1>1, TrailerIsNat
  <2> QED BY <2>1 DEF HasLocator, Extends
<1>6. g[r + kRec64Size + kLocatorSize + 1].tag = "eocd"
  <2>1. 1 \in 1 .. k
    BY <1>1
  <2>2. g[Len(f) + 1] = EndOfCD(l)[1]
    BY <2>1 DEF Extends
  <2>3. EndOfCD(l)[1].tag = "eocd"
    BY FirstCells
  <2>4. Len(f) + 1 = r + kRec64Size + kLocatorSize + 1
    BY <1>1
  <2> HIDE DEF r
  <2> QED BY <2>2, <2>3, <2>4
<1> QED BY <1>3, <1>4, <1>5, <1>6 DEF Complete

\* While the directory is not being written there is nothing to say of it.
LEMMA NotMaking ==
    ASSUME job' \in {"next", "stream", "header", "shutdown", "dead"}
    PROVE  InTheMaking'
<1>1. job' # "cd" /\ job' # "locator" /\ job' # "ended"
  OBVIOUS
<1>2. ~AtLastRecord'
  BY DEF AtLastRecord
<1> QED BY <1>1, <1>2 DEF InTheMaking

LEMMA SeqFacts ==
    ASSUME DInv
    PROVE  /\ IsSeq(file) /\ Len(file) \in Nat /\ list \in Seq(Entry) /\ Len(list) \in Nat
           /\ nth \in Nat \ {0} /\ start \in Nat /\ mnFileSize \in Nat
BY TypeFacts DEF DInv, IInv, Typed, TInv, TypeOK

LEMMA ShutdownMakes ==
    ASSUME DInv, Shutdown
    PROVE  InTheMaking'
<1>1. job' = "cd" /\ nth' = 1 /\ list' = list /\ file' = file /\ start' = mnFileSize
      /\ failbit' = failbit /\ job # "dead"
  BY DEF Shutdown, fileVars
<1>2. ~AtLastRecord'
  BY <1>1 DEF AtLastRecord
<1>3. ~failbit => Len(file) = mnFileSize
  BY <1>1 DEF DInv, IInv, SizeIsLength
<1>4. After(list, mnFileSize, 0) = mnFileSize /\ HeadersAt(file, list, mnFileSize, 0)
  BY SeqFacts, AfterIs DEF HeadersAt
<1>5. Len(list) \in Nat
  BY SeqFacts
<1> QED BY <1>1, <1>2, <1>3, <1>4, <1>5 DEF InTheMaking

LEMMA HeaderMakes ==
    ASSUME DInv, WriteCDHeader
    PROVE  InTheMaking'
<1>1. job = "cd" /\ nth <= Len(list) /\ AtEnd(CDHeader(list[nth])) /\ nth' = nth + 1
      /\ job' = "cd" /\ list' = list /\ start' = start
  BY DEF WriteCDHeader
<1>2. ~AtLastRecord'
  BY <1>1 DEF AtLastRecord
<1>3. nth \in 1 .. Len(list) /\ nth - 1 \in 0 .. Len(list) /\ nth \in Nat
  BY <1>1, SeqFacts
<1>4. list[nth] \in Entry
  BY <1>3, SeqFacts
<1>5. ASSUME ~failbit'
      PROVE  HeadersAt(file', list, start, nth) /\ Len(file') = After(list, start, nth)
  <2> DEFINE cells == CDHeader(list[nth])
  <2>1. IsSeq(cells)
    BY <1>4, RecordsAreSeqs
  <2>2. ~failbit /\ Extends(file, file', cells, Len(cells))
    <3> HIDE DEF cells
    <3>1. AtEnd(cells)
      BY <1>1 DEF cells
    <3> QED BY <1>5, <2>1, <3>1, SeqFacts, WholeAppend
  <2>3. HeadersAt(file, list, start, nth - 1) /\ Len(file) = After(list, start, nth - 1)
    BY <1>1, <2>2 DEF DInv, InTheMaking
  <2>4. HeaderSize(list[nth].name) \in Nat \ {0} /\ Len(cells) = HeaderSize(list[nth].name)
    BY <1>4, HeaderSizeIsPositive, RecordIs DEF Entry, CDHeader
  <2>5. After(list, start, nth) = After(list, start, nth - 1) + HeaderSize(list[nth].name)
    BY <1>3, SeqFacts, AfterIs
  <2>6. Len(file') = After(list, start, nth)
    BY <2>2, <2>3, <2>4, <2>5 DEF Extends
  <2>7. HeadersAt(file', list, start, nth - 1)
    <3>1. After(list, start, nth - 1) <= Len(file)
      BY <2>3, SeqFacts
    <3> HIDE DEF cells
    <3> QED BY <1>3, <2>2, <2>3, <3>1, SeqFacts, HeadersStay
  <2>8. file'[After(list, start, nth - 1) + 1] = cells[1]
    <3>1. 1 \in 1 .. Len(cells)
      BY <2>4
    <3> QED BY <2>2, <2>3, <3>1 DEF Extends
  <2>9. HeadersAt(file', list, start, nth)
    <3> SUFFICES ASSUME NEW k \in 1 .. nth
                 PROVE  file'[After(list, start, k - 1) + 1] = CDHeader(list[k])[1]
      BY DEF HeadersAt
    <3>1. CASE k = nth
      BY <2>8, <3>1
    <3>2. CASE k # nth
      <4>1. k \in 1 .. nth - 1
        BY <1>3, <3>2
      <4> QED BY <2>7, <4>1 DEF HeadersAt
    <3> QED BY <3>1, <3>2
  <2> QED BY <2>6, <2>9
<1>6. nth' <= Len(list) + 1 /\ nth' - 1 = nth
  BY <1>1, <1>3, SeqFacts
<1> QED BY <1>1, <1>2, <1>5, <1>6 DEF InTheMaking

LEMMA Rec64Makes ==
    ASSUME DInv, WriteRec64
    PROVE  InTheMaking'
<1>1. job = "cd" /\ nth > Len(list) /\ AtEnd(Rec64(start, list)) /\ job' = "locator" /\ list' = list
  BY DEF WriteRec64
<1>2. ~AtLastRecord'
  BY <1>1 DEF AtLastRecord
<1>3. ASSUME ~failbit'
      PROVE  /\ Rec64At(file', list, start)
             /\ Len(file') = After(list, start, Len(list)) + kRec64Size
  <2> DEFINE cells == Rec64(start, list)
             r == After(list, start, Len(list))
  <2>1. IsSeq(cells) /\ Len(cells) = kRec64Size
    BY RecordsAreSeqs, RecordIs, TrailerIsNat DEF Rec64
  <2>2. ~failbit /\ Extends(file, file', cells, kRec64Size)
    <3> HIDE DEF cells
    <3>1. AtEnd(cells)
      BY <1>1 DEF cells
    <3> QED BY <1>3, <2>1, <3>1, SeqFacts, WholeAppend
  <2>3. HeadersAt(file, list, start, Len(list)) /\ Len(file) = r
    <3>1. /\ nth <= Len(list) + 1 /\ HeadersAt(file, list, start, nth - 1)
          /\ Len(file) = After(list, start, nth - 1)
      BY <1>1, <2>2 DEF DInv, InTheMaking
    <3>2. nth - 1 = Len(list)
      BY <1>1, <3>1, SeqFacts
    <3> QED BY <3>1, <3>2
  <2>4. HeadersAt(file', list, start, Len(list))
    <3>1. Len(list) \in 0 .. Len(list) /\ r <= Len(file)
      BY <2>3, SeqFacts
    <3> HIDE DEF cells
    <3> QED BY <2>2, <2>3, <3>1, SeqFacts, HeadersStay
  <2>5. r \in Nat
    BY <2>3, SeqFacts
  <2>6. file'[r + 1] = cells[1]
    <3>1. 1 \in 1 .. kRec64Size
      BY TrailerIsNat
    <3> QED BY <2>2, <2>3, <3>1 DEF Extends
  <2>7. ASSUME NEW i \in r + 2 .. Len(file')
        PROVE  file'[i].tag # "rec64"
    <3>1. PICK j \in 1 .. kRec64Size : i = r + j /\ j # 1
      <4>1. Len(file') = r + kRec64Size
        BY <2>2, <2>3 DEF Extends
      <4>2. i - r \in 1 .. kRec64Size /\ i = r + (i - r) /\ i - r # 1
        BY <2>5, <4>1, TrailerIsNat
      <4> QED BY <4>2
    <3>2. file'[i] = cells[j]
      BY <2>2, <2>3, <3>1 DEF Extends
    <3>3. cells[j].tag = "none"
      BY <3>1, TrailerIsNat, RecordTags DEF Rec64
    <3> QED BY <3>2, <3>3
  <2> QED BY <2>2, <2>3, <2>4, <2>6, <2>7 DEF Rec64At, Extends
<1> QED BY <1>1, <1>2, <1>3, SeqFacts DEF InTheMaking

LEMMA LocatorMakes ==
    ASSUME DInv, WriteLocator
    PROVE  InTheMaking'
<1>1. job = "locator" /\ AtEnd(Locator(start)) /\ list' = list
  BY DEF WriteLocator
<1>2. job' \notin {"cd", "locator", "ended"}
  BY DEF WriteLocator
<1>3. ASSUME ~failbit'
      PROVE  \E s \in Nat : HasLocator(file', list, s)
  <2> DEFINE cells == Locator(start)
  <2>1. IsSeq(cells) /\ Len(cells) = kLocatorSize
    BY RecordsAreSeqs, RecordIs, TrailerIsNat DEF Locator
  <2>2. ~failbit /\ Extends(file, file', cells, kLocatorSize)
    <3> HIDE DEF cells
    <3>1. AtEnd(cells)
      BY <1>1 DEF cells
    <3> QED BY <1>3, <2>1, <3>1, SeqFacts, WholeAppend
  <2>3. PICK s \in Nat : Rec64At(file, list, s) /\ Len(file) = After(list, s, Len(list)) + kRec64Size
    BY <1>1, <2>2 DEF DInv, InTheMaking
  <2>4. \A j \in 1 .. kLocatorSize : cells[j].tag # "rec64" /\ (j = 1 => cells[j].tag = "locator")
    <3>1. \A j \in 1 .. kLocatorSize : cells[j].tag = IF j = 1 THEN "locator" ELSE "none"
      BY TrailerIsNat, RecordTags DEF Locator
    <3> HIDE DEF cells
    <3> QED BY <3>1
  <2> HIDE DEF cells
  <2>5. Rec64At(file', list, s)
    <3>1. After(list, s, Len(list)) + kRec64Size <= Len(file)
      BY <2>3, SeqFacts
    <3> QED BY <2>2, <2>3, <2>4, <3>1, SeqFacts, TrailerIsNat, Rec64Stays
  <2>6. 1 \in 1 .. kLocatorSize
    BY TrailerIsNat
  <2>7. file'[Len(file) + 1].tag = "locator"
    BY <2>2, <2>4, <2>6 DEF Extends
  <2> QED BY <2>2, <2>3, <2>5, <2>7 DEF HasLocator, Extends
<1> QED BY <1>1, <1>2, <1>3 DEF InTheMaking

LEMMA EndMakes ==
    ASSUME DInv, WriteEndOfCD
    PROVE  InTheMaking'
<1>1. AtLastRecord /\ AtEnd(EndOfCD(list)) /\ list' = list /\ job' = "ended"
  BY DEF WriteEndOfCD, AtLastRecord
<1>2. ~AtLastRecord'
  BY <1>1 DEF AtLastRecord
<1>3. ASSUME ~failbit'
      PROVE  Complete(file', list)
  <2> DEFINE cells == EndOfCD(list)
  <2>1. IsSeq(cells) /\ Len(cells) = kEndOfCDSize
    BY RecordsAreSeqs, RecordIs, TrailerIsNat DEF EndOfCD
  <2>2. ~failbit /\ Extends(file, file', cells, kEndOfCDSize)
    <3> HIDE DEF cells
    <3>1. AtEnd(cells)
      BY <1>1 DEF cells
    <3> QED BY <1>3, <2>1, <3>1, SeqFacts, WholeAppend
  <2>3. PICK s \in Nat : HasLocator(file, list, s)
    BY <1>1, <2>2 DEF DInv, InTheMaking
  <2>4. kEndOfCDSize \in 1 .. kEndOfCDSize
    BY TrailerIsNat
  <2> QED BY <2>2, <2>3, <2>4, SeqFacts, EndCompletes
<1> QED BY <1>1, <1>2, <1>3 DEF InTheMaking

LEMMA MakingStep ==
    ASSUME DInv, [Next]_vars
    PROVE  InTheMaking'
<1>1. CASE Create \/ StartFile \/ StartFolder \/ InputFails \/ StreamDone \/ Finish \/ Throw \/ Kill
  <2>1. job' \in {"next", "stream", "header", "shutdown", "dead"}
    BY <1>1 DEF Create, StartFile, StartFolder, InputFails, Skip, StreamDone, Finish, Throw, Kill, Die
  <2> QED BY <2>1, NotMaking
<1>2. CASE AddOutput \/ AddHeader
  <2>1. job' \in {"next", "stream", "header", "shutdown", "dead"}
    BY <1>2 DEF AddOutput, AddHeader, Skip
  <2> QED BY <2>1, NotMaking
<1>3. CASE CreateFails
  <2>1. job' = "ended" /\ jobStatus' = "error"
    BY <1>3 DEF CreateFails
  <2>2. ~AtLastRecord'
    BY <2>1 DEF AtLastRecord
  <2> QED BY <2>1, <2>2 DEF InTheMaking
<1>4. CASE Poll \/ Join \/ UNCHANGED vars
  <2>1. UNCHANGED <<fileVars, job, jobStatus, nth, list, start>>
    BY <1>4 DEF Poll, Join, vars, jobVars
  <2> QED BY <2>1 DEF DInv, InTheMaking, AtLastRecord, fileVars
<1> QED BY <1>1, <1>2, <1>3, <1>4, ShutdownMakes, HeaderMakes, Rec64Makes, LocatorMakes, EndMakes
        DEF Next, JobNext, MainNext

\* Nothing is written when the job's thread ended or died.
LEMMA EndedIsFinal ==
    ASSUME DInv, [Next]_vars, job \in {"ended", "dead"}
    PROVE  file' = file /\ list' = list /\ job' \in {"ended", "dead"}
<1>1. list' = list /\ job' \in {"ended", "dead"}
  <2>1. CASE Poll \/ Join \/ UNCHANGED vars
    BY <2>1 DEF Poll, Join, vars, jobVars
  <2>2. CASE Kill
    BY <2>2 DEF Kill, Die
  <2>3. CASE JobNext
    BY <2>3 DEF JobNext, Create, CreateFails, StartFile, StartFolder, InputFails, AddOutput, StreamDone,
                AddHeader, Finish, Shutdown, WriteCDHeader, WriteRec64, WriteLocator, WriteEndOfCD, Throw
  <2> QED BY <2>1, <2>2, <2>3 DEF Next, MainNext
<1>2. file' = file
  <2>1. CASE UNCHANGED fileVars
    BY <2>1 DEF fileVars
  <2>2. CASE \E w \in Pending : Write(w[1], w[2]) \/ WriteFails(w[1], w[2]) \/ Torn(w[1], w[2])
    <3>1. Pending = {<<Len(file), <<>>>>}
      BY DEF Pending
    <3>2. Write(Len(file), <<>>) \/ WriteFails(Len(file), <<>>) \/ Torn(Len(file), <<>>)
      BY <2>2, <3>1
    <3>3. IsSeq(<<>>) /\ Len(<<>>) = 0
      BY EmptySeq, SeqIsSeq
    <3>4. CASE \E k \in 0 .. Len(<<>>) : file' = Written(file, Len(file), SubSeq(<<>>, 1, k))
      <4>1. PICK k \in 0 .. Len(<<>>) : file' = Written(file, Len(file), SubSeq(<<>>, 1, k))
        BY <3>4
      <4>2. Extends(file, file', <<>>, k) /\ k = 0
        BY <3>3, <4>1, SeqFacts, AppendExtends
      <4>3. IsSeq(file) /\ IsSeq(file') /\ Len(file') = Len(file) /\ \A i \in 1 .. Len(file) : file'[i] = file[i]
        BY <4>2, SeqFacts DEF Extends
      <4> QED BY <4>3 DEF IsSeq
    <3> QED BY <3>2, <3>3, <3>4, PartIsWritten DEF fileVars
  <2> QED BY <2>1, <2>2, FileStep DEF DInv
<1> QED BY <1>1, <1>2

\* Only with the last record there comes to be an end of a directory, and with it the
\* thread comes to its end.
LEMMA LastRecordEnds ==
    ASSUME AtLastRecord, [Next]_vars
    PROVE  list' = list /\ (UNCHANGED fileVars \/ job' \in {"ended", "dead"})
<1>1. CASE Poll \/ Join \/ UNCHANGED vars
  BY <1>1 DEF Poll, Join, vars, jobVars
<1>2. CASE Kill
  BY <1>2 DEF Kill, Die
<1>3. CASE WriteEndOfCD
  BY <1>3 DEF WriteEndOfCD
<1>4. CASE Create \/ CreateFails \/ StartFile \/ StartFolder \/ InputFails \/ StreamDone
           \/ Finish \/ Shutdown \/ WriteLocator \/ Throw
  BY <1>4 DEF AtLastRecord, Create, CreateFails, StartFile, StartFolder, InputFails, StreamDone,
              Finish, Shutdown, WriteLocator, Throw
<1>5. CASE AddOutput \/ AddHeader \/ WriteCDHeader \/ WriteRec64
  BY <1>5 DEF AtLastRecord, AddOutput, AddHeader, WriteCDHeader, WriteRec64
<1> QED BY <1>1, <1>2, <1>3, <1>4, <1>5 DEF Next, JobNext, MainNext

LEMMA AllOrNothingStep ==
    ASSUME DInv, [Next]_vars
    PROVE  AllOrNothing'
<1>1. CASE job \in {"ended", "dead"} /\ Complete(file, list)
  <2>1. file' = file /\ list' = list /\ job' \in {"ended", "dead"}
    BY <1>1, EndedIsFinal
  <2> QED BY <1>1, <2>1 DEF AllOrNothing
<1>2. CASE NoEnd(file) /\ UNCHANGED fileVars
  BY <1>2 DEF AllOrNothing, fileVars
<1>3. CASE NoEnd(file) /\ ~UNCHANGED fileVars
  <2>1. PICK w \in Pending : Write(w[1], w[2]) \/ WriteFails(w[1], w[2]) \/ Torn(w[1], w[2])
    BY <1>3, FileStep DEF DInv
  <2>2. w[1] \in Nat /\ IsSeq(w[2])
    BY PendingIsCells, SeqIsSeq DEF DInv
  <2>3. ~failbit /\ \E k \in 0 .. Len(w[2]) : file' = Written(file, w[1], SubSeq(w[2], 1, k))
    BY <1>3, <2>1, <2>2, PartIsWritten
  <2>4. PICK k \in 0 .. Len(w[2]) : file' = Written(file, w[1], SubSeq(w[2], 1, k))
    BY <2>3
  <2>5. CASE ~AtLastRecord
    <3>1. NoEnd(w[2])
      BY <2>5, NoEndPending DEF DInv
    <3>2. NoEnd(file')
      BY <1>3, <2>2, <2>4, <3>1, SeqFacts, NoEndStays
    <3> QED BY <3>2 DEF AllOrNothing
  <2>6. CASE AtLastRecord
    <3>1. list' = list /\ job' \in {"ended", "dead"}
      BY <1>3, <2>6, LastRecordEnds
    <3>2. w[1] = Len(file) /\ w[2] = EndOfCD(list)
      <4>1. Pending = {<<Len(file), EndOfCD(list)>>}
        BY <2>6 DEF AtLastRecord, Pending
      <4> QED BY <4>1
    <3>3. Extends(file, file', EndOfCD(list), k) /\ k \in 0 .. kEndOfCDSize
      <4>1. IsSeq(EndOfCD(list)) /\ Len(EndOfCD(list)) = kEndOfCDSize
        BY RecordsAreSeqs, RecordIs, TrailerIsNat DEF EndOfCD
      <4> QED BY <2>4, <3>2, <4>1, SeqFacts, AppendExtends
    <3>4. CASE k = 0
      <4>1. Len(file') = Len(file) /\ \A i \in 1 .. Len(file) : file'[i] = file[i]
        BY <3>3, <3>4, SeqFacts DEF Extends
      <4> QED BY <1>3, <4>1 DEF AllOrNothing, NoEnd
    <3>5. CASE k # 0
      <4>1. PICK s \in Nat : HasLocator(file, list, s)
        BY <2>3, <2>6 DEF DInv, InTheMaking
      <4>2. k \in 1 .. kEndOfCDSize
        BY <3>3, <3>5, TrailerIsNat
      <4>3. Complete(file', list)
        BY <3>3, <4>1, <4>2, SeqFacts, EndCompletes
      <4> QED BY <3>1, <4>3 DEF AllOrNothing
    <3> QED BY <3>4, <3>5
  <2> QED BY <2>5, <2>6
<1> QED BY <1>1, <1>2, <1>3 DEF DInv, AllOrNothing

LEMMA ReturnedStep ==
    ASSUME DInv, [Next]_vars
    PROVE  Returned'
<1>1. CASE Poll \/ Join
  BY <1>1 DEF Poll, Join, Returned, DInv
<1>2. CASE Kill \/ Throw
  BY <1>2 DEF Kill, Throw, Die, Returned
<1>3. CASE UNCHANGED vars
  BY <1>3 DEF DInv, Returned, vars, jobVars
<1>4. CASE JobNext /\ ~Throw
  <2>1. main' = main /\ job # "ended"
    BY <1>4 DEF JobNext, Create, CreateFails, StartFile, StartFolder, InputFails, AddOutput, StreamDone,
                AddHeader, Finish, Shutdown, WriteCDHeader, WriteRec64, WriteLocator, WriteEndOfCD, Skip
  <2>2. main # "returned"
    BY <2>1 DEF DInv, Returned
  <2>3. jobStatus' = jobStatus \/ jobStatus' \in {"error", "finished"}
    BY <1>4 DEF JobNext, Create, CreateFails, StartFile, StartFolder, InputFails, AddOutput, StreamDone,
                AddHeader, Finish, Shutdown, WriteCDHeader, WriteRec64, WriteLocator, WriteEndOfCD, Skip
  <2> QED BY <2>1, <2>2, <2>3 DEF DInv, Returned
<1> QED BY <1>1, <1>2, <1>3, <1>4 DEF Next, MainNext

LEMMA DInvInit == Init => DInv
<1> SUFFICES ASSUME Init PROVE DInv
  OBVIOUS
<1>1. TInv /\ IInv
  BY JobTypesInit, InitIInv DEF TInv
<1>2. job = "create" /\ main = "polling"
  BY DEF Init
<1>3. file = <<>> /\ Len(<<>>) = 0
  BY EmptySeq DEF Init, FileInit
<1>4. NoEnd(file)
  BY <1>3 DEF NoEnd
<1>5. ~AtLastRecord
  BY <1>2 DEF AtLastRecord
<1> QED BY <1>1, <1>2, <1>4, <1>5 DEF DInv, InTheMaking, AllOrNothing, Returned

LEMMA DInvStep == DInv /\ [Next]_vars => DInv'
<1> SUFFICES ASSUME DInv, [Next]_vars PROVE DInv'
  OBVIOUS
<1>1. TInv' /\ IInv'
  BY TInvStep, NextIInv DEF DInv
<1> QED BY <1>1, MakingStep, AllOrNothingStep, ReturnedStep DEF DInv

\* Who opens the archive while it is written, or after its writer failed or died, gets
\* the whole directory or none: the end of a directory is looked for first and written last.
THEOREM ListedWholeOrNotAtAll == Spec => []NeverHalfListed
<1>1. DInv => NeverHalfListed
  <2> SUFFICES ASSUME DInv, \A i \in DOMAIN file : file[i].part = "data" => file[i].tag # "eocd",
                      CanOpen(file)
               PROVE  Listed(file) = list
    BY DEF NeverHalfListed
  <2>1. DOMAIN file = 1 .. Len(file)
    BY SeqFacts DEF IsSeq
  <2>2. ~NoEnd(file)
    BY <2>1 DEF CanOpen, Tagged, NoEnd
  <2>3. Complete(file, list)
    BY <2>2 DEF DInv, AllOrNothing
  <2> QED BY <2>3, SeqFacts, ReadsDirectory
<1> QED BY <1>1, DInvInit, DInvStep, PTL DEF Spec

--------------------------------------------------------------------------------
(* What is listed is what was kept *)

NameOf(t, g, k) == IF k \in g \cup {i \in DOMAIN t : t[i] \in Folders} THEN FolderName[t[k]] ELSE t[k]

\* a[k] : the names of those of the first k of t that are not in sk.
IsAdded(a, t, sk, g, n) ==
    /\ a \in [0 .. n -> Seq(Names)]
    /\ a[0] = <<>>
    /\ \A k \in 1 .. n : a[k] = IF k \in sk THEN a[k - 1] ELSE Append(a[k - 1], NameOf(t, g, k))

NamesOf(l) == [k \in DOMAIN l |-> l[k].name]

AddedAre(n) == \E a : IsAdded(a, todo, skipped, gone, n) /\ a[n] = NamesOf(list)

\* While files are added the directory has the names of those before the one that is next.
Keeping ==
    /\ job \in {"create", "next", "stream", "header"} =>
          /\ jobStatus = "running"
          /\ skipped \subseteq 1 .. nth - 1
          /\ gone \subseteq 1 .. nth /\ (job \in {"create", "next"} => nth \notin gone)
          /\ AddedAre(nth - 1)
          /\ job \in {"stream", "header"} => entry.name = NameOf(todo, gone, nth)
    /\ jobStatus = "finished" => AddedAre(Len(todo))

KInv == TInv /\ Keeping

LEMMA NameOfIsName ==
    ASSUME NEW t \in Seq(Names), NEW g, NEW k \in 1 .. Len(t)
    PROVE  NameOf(t, g, k) \in Names
<1>1. t[k] \in Names
  OBVIOUS
<1> QED BY <1>1, JobAssumption DEF NameOf

\* One more than the n - 1 that are in a.
HasOneMore(a, t, sk, g, n) ==
    \E b : /\ IsAdded(b, t, sk, g, n)
           /\ b[n] = IF n \in sk THEN a[n - 1] ELSE Append(a[n - 1], NameOf(t, g, n))

LEMMA OneMore ==
    ASSUME NEW t \in Seq(Names), NEW sk, NEW g, NEW n \in 1 .. Len(t), NEW a,
           IsAdded(a, t, sk, g, n - 1), NEW sk2, NEW g2,
           sk \cap 1 .. n - 1 = sk2 \cap 1 .. n - 1, g \cap 1 .. n - 1 = g2 \cap 1 .. n - 1
    PROVE  HasOneMore(a, t, sk2, g2, n)
<1> DEFINE last == IF n \in sk2 THEN a[n - 1] ELSE Append(a[n - 1], NameOf(t, g2, n))
           b == [k \in 0 .. n |-> IF k = n THEN last ELSE a[k]]
<1>1. n \in Nat /\ n >= 1 /\ n - 1 \in 0 .. n - 1 /\ n - 1 \in 0 .. n
  OBVIOUS
<1>2. a \in [0 .. n - 1 -> Seq(Names)] /\ a[0] = <<>>
  BY DEF IsAdded
<1>3. last \in Seq(Names)
  <2>1. a[n - 1] \in Seq(Names)
    BY <1>1, <1>2
  <2> QED BY <2>1, NameOfIsName
<1> HIDE DEF last
<1>4. b \in [0 .. n -> Seq(Names)]
  <2> SUFFICES ASSUME NEW k \in 0 .. n, k # n PROVE a[k] \in Seq(Names)
    BY <1>3
  <2>1. k \in 0 .. n - 1
    BY <1>1
  <2> QED BY <1>2, <2>1
<1>5. b[0] = <<>>
  BY <1>1, <1>2
<1>6. b[n] = last /\ \A k \in 0 .. n - 1 : b[k] = a[k]
  BY <1>1
<1>7. ASSUME NEW k \in 1 .. n
      PROVE  b[k] = IF k \in sk2 THEN b[k - 1] ELSE Append(b[k - 1], NameOf(t, g2, k))
  <2>1. k - 1 \in 0 .. n - 1
    BY <1>1
  <2> HIDE DEF b
  <2>2. b[k - 1] = a[k - 1]
    BY <1>6, <2>1
  <2>3. CASE k = n
    BY <1>6, <2>2, <2>3 DEF last
  <2>4. CASE k # n
    <3>1. k \in 1 .. n - 1 /\ k \in 0 .. n - 1
      BY <1>1, <2>4
    <3>2. NameOf(t, g, k) = NameOf(t, g2, k)
      BY <3>1 DEF NameOf
    <3>3. a[k] = IF k \in sk THEN a[k - 1] ELSE Append(a[k - 1], NameOf(t, g, k))
      BY <3>1 DEF IsAdded
    <3> QED BY <1>6, <2>2, <3>1, <3>2, <3>3
  <2> QED BY <2>3, <2>4
<1>8. IsAdded(b, t, sk2, g2, n)
  <2> HIDE DEF b
  <2> QED BY <1>4, <1>5, <1>7 DEF IsAdded
<1>9. b[n] = IF n \in sk2 THEN a[n - 1] ELSE Append(a[n - 1], NameOf(t, g2, n))
  <2> HIDE DEF b
  <2> QED BY <1>6 DEF last
<1> HIDE DEF b
<1> QED BY <1>8, <1>9 DEF HasOneMore

\* What is in none of the numbers up to n does not matter.
LEMMA SameAdded ==
    ASSUME NEW t, NEW sk, NEW g, NEW n \in Nat, NEW a, IsAdded(a, t, sk, g, n),
           NEW g2, \A k \in 1 .. n : k \in g <=> k \in g2
    PROVE  IsAdded(a, t, sk, g2, n)
<1>1. \A k \in 1 .. n : NameOf(t, g, k) = NameOf(t, g2, k)
  BY DEF NameOf
<1> QED BY <1>1 DEF IsAdded

\* There is only one such function, and Kept is its last value.
LEMMA KeptIs ==
    ASSUME todo \in Seq(Names), NEW a, IsAdded(a, todo, skipped, gone, Len(todo))
    PROVE  Kept = a[Len(todo)]
<1> DEFINE n == Len(todo)
           Eq(t) == t = [k \in 0 .. n |->
                           IF k = 0 THEN <<>>
                           ELSE IF k \in skipped THEN t[k - 1]
                           ELSE Append(t[k - 1], IF k \in gone \cup {i \in DOMAIN todo : todo[i] \in Folders}
                                                 THEN FolderName[todo[k]] ELSE todo[k])]
           added == CHOOSE t : Eq(t)
<1>1. n \in Nat
  OBVIOUS
<1>2. a \in [0 .. n -> Seq(Names)] /\ a[0] = <<>>
  BY DEF IsAdded
<1>3. \A k \in 1 .. n : a[k] = IF k \in skipped THEN a[k - 1]
                               ELSE Append(a[k - 1], IF k \in gone \cup {i \in DOMAIN todo : todo[i] \in Folders}
                                                     THEN FolderName[todo[k]] ELSE todo[k])
  BY DEF IsAdded, NameOf
<1>4. Eq(a)
  <2> SUFFICES ASSUME NEW k \in 0 .. n
               PROVE  a[k] = IF k = 0 THEN <<>>
                             ELSE IF k \in skipped THEN a[k - 1]
                             ELSE Append(a[k - 1], IF k \in gone \cup {i \in DOMAIN todo : todo[i] \in Folders}
                                                   THEN FolderName[todo[k]] ELSE todo[k])
    BY <1>2
  <2>1. k # 0 => k \in 1 .. n
    BY <1>1
  <2> QED BY <1>2, <1>3, <2>1
<1>5. Eq(added)
  <2> HIDE DEF Eq
  <2> QED BY <1>4
<1>6. Kept = added[n]
  BY DEF Kept
<1> HIDE DEF added
<1>7. \A k \in 0 .. n : added[k] = a[k]
  <2> DEFINE T == {k \in 0 .. n : added[k] = a[k]}
  <2>1. 0 \in T
    <3>1. 0 \in 0 .. n
      BY <1>1
    <3>2. added[0] = <<>>
      BY <1>5, <3>1
    <3> QED BY <1>2, <3>1, <3>2
  <2>2. ASSUME NEW k \in 1 .. n, k - 1 \in T
        PROVE  k \in T
    <3>1. k # 0 /\ k \in 0 .. n
      BY <1>1
    <3>2. added[k - 1] = a[k - 1]
      BY <2>2
    <3>3. added[k] = IF k \in skipped THEN added[k - 1]
                     ELSE Append(added[k - 1], IF k \in gone \cup {i \in DOMAIN todo : todo[i] \in Folders}
                                               THEN FolderName[todo[k]] ELSE todo[k])
      BY <1>5, <3>1
    <3>4. added[k] = a[k]
      BY <1>3, <3>2, <3>3
    <3> QED BY <3>1, <3>4
  <2>3. \A k \in 0 .. n : k \in T
    <3> HIDE DEF T, n
    <3> QED BY <1>1, <2>1, <2>2, BoundedInduction
  <2> QED BY <2>3
<1>8. n \in 0 .. n
  BY <1>1
<1> HIDE DEF n
<1> QED BY <1>6, <1>7, <1>8 DEF n

LEMMA KeepingInit == Init => Keeping
<1> SUFFICES ASSUME Init PROVE Keeping
  OBVIOUS
<1>1. job = "create" /\ jobStatus = "running" /\ nth = 1 /\ skipped = {} /\ gone = {} /\ list = <<>>
  BY DEF Init
<1>2. AddedAre(nth - 1)
  <2> DEFINE a == [k \in 0 .. 0 |-> <<>>]
  <2>1. <<>> \in Seq(Names)
    OBVIOUS
  <2>2. a \in [0 .. 0 -> Seq(Names)] /\ a[0] = <<>>
    BY <2>1
  <2>3. \A k \in 1 .. 0 : FALSE
    OBVIOUS
  <2>4. IsAdded(a, todo, skipped, gone, 0)
    <3> HIDE DEF a
    <3> QED BY <2>2, <2>3 DEF IsAdded
  <2>5. a[0] = NamesOf(list)
    <3>1. NamesOf(<<>>) = <<>>
      BY DEF NamesOf
    <3> QED BY <1>1, <2>2, <3>1
  <2>6. nth - 1 = 0
    BY <1>1
  <2> HIDE DEF a
  <2> QED BY <2>4, <2>5, <2>6 DEF AddedAre
<1> QED BY <1>1, <1>2 DEF Keeping

LEMMA KeepFacts ==
    ASSUME KInv, job \in {"next", "stream", "header"}, nth <= Len(todo)
    PROVE  /\ nth \in 1 .. Len(todo) /\ nth - 1 \in Nat /\ (nth + 1) - 1 = nth /\ todo \in Seq(Names)
           /\ skipped \subseteq 1 .. nth - 1 /\ gone \subseteq 1 .. nth
           /\ jobStatus = "running" /\ AddedAre(nth - 1)
BY TypeFacts DEF KInv, Keeping

LEMMA SkipKeeps ==
    ASSUME KInv, job \in {"next", "stream", "header"}, nth <= Len(todo), Skip
    PROVE  Keeping'
<1>1. /\ nth \in 1 .. Len(todo) /\ nth - 1 \in Nat /\ (nth + 1) - 1 = nth /\ todo \in Seq(Names)
      /\ skipped \subseteq 1 .. nth - 1 /\ gone \subseteq 1 .. nth
      /\ jobStatus = "running" /\ AddedAre(nth - 1)
  BY KeepFacts
<1>2. /\ skipped' = skipped \cup {nth} /\ nth' = nth + 1 /\ job' = "next" /\ todo' = todo
      /\ gone' = gone /\ list' = list /\ jobStatus' = jobStatus
  BY DEF Skip
<1>3. PICK a : IsAdded(a, todo, skipped, gone, nth - 1) /\ a[nth - 1] = NamesOf(list)
  BY <1>1 DEF AddedAre
<1>4. skipped \cap 1 .. nth - 1 = skipped' \cap 1 .. nth - 1
  BY <1>1, <1>2
<1>5. PICK b : /\ IsAdded(b, todo, skipped', gone, nth)
               /\ b[nth] = IF nth \in skipped' THEN a[nth - 1] ELSE Append(a[nth - 1], NameOf(todo, gone, nth))
  <2>1. HasOneMore(a, todo, skipped', gone, nth)
    BY <1>1, <1>3, <1>4, OneMore
  <2> QED BY <2>1 DEF HasOneMore
<1>6. b[nth] = NamesOf(list)
  BY <1>2, <1>3, <1>5
<1>7. AddedAre(nth - 1)'
  BY <1>1, <1>2, <1>5, <1>6 DEF AddedAre
<1>8. skipped' \subseteq 1 .. nth' - 1 /\ gone' \subseteq 1 .. nth' /\ nth' \notin gone'
  BY <1>1, <1>2
<1> QED BY <1>1, <1>2, <1>7, <1>8 DEF Keeping

LEMMA StartKeeps ==
    ASSUME KInv, StartFile \/ StartFolder
    PROVE  Keeping'
<1>1. job = "next" /\ nth <= Len(todo)
  BY DEF StartFile, StartFolder
<1>2. /\ nth \in 1 .. Len(todo) /\ nth - 1 \in Nat /\ todo \in Seq(Names)
      /\ skipped \subseteq 1 .. nth - 1 /\ gone \subseteq 1 .. nth
      /\ jobStatus = "running" /\ AddedAre(nth - 1)
  BY <1>1, KeepFacts
<1>3. nth \notin gone /\ DOMAIN todo = 1 .. Len(todo)
  BY <1>1, TypeFacts DEF KInv, Keeping
<1>4. /\ job' \in {"stream", "header"} /\ todo' = todo /\ nth' = nth /\ skipped' = skipped
      /\ list' = list /\ jobStatus' = jobStatus
  BY DEF StartFile, StartFolder
<1>5. /\ gone' \subseteq 1 .. nth /\ \A k \in 1 .. nth - 1 : k \in gone <=> k \in gone'
      /\ entry'.name = NameOf(todo, gone', nth)
  <2>1. CASE StartFile
    <3>1. gone' = gone /\ entry'.name = todo[nth] /\ todo[nth] \notin Folders
      BY <2>1 DEF StartFile
    <3> QED BY <1>2, <1>3, <3>1 DEF NameOf
  <2>2. CASE StartFolder
    <3>1. /\ gone' = (IF todo[nth] \in Folders THEN gone ELSE gone \cup {nth})
          /\ entry'.name = FolderName[todo[nth]]
      BY <2>2 DEF StartFolder
    <3>2. nth \in gone' \cup {i \in DOMAIN todo : todo[i] \in Folders}
      BY <1>2, <1>3, <3>1
    <3>3. gone' \subseteq 1 .. nth /\ \A k \in 1 .. nth - 1 : k \in gone <=> k \in gone'
      BY <1>2, <3>1
    <3> QED BY <3>1, <3>2, <3>3 DEF NameOf
  <2> QED BY <2>1, <2>2
<1>6. AddedAre(nth - 1)'
  <2>1. PICK a : IsAdded(a, todo, skipped, gone, nth - 1) /\ a[nth - 1] = NamesOf(list)
    BY <1>2 DEF AddedAre
  <2>2. IsAdded(a, todo, skipped, gone', nth - 1)
    BY <1>2, <1>5, <2>1, SameAdded
  <2> QED BY <1>4, <2>1, <2>2 DEF AddedAre
<1> QED BY <1>2, <1>4, <1>5, <1>6 DEF Keeping

LEMMA AddHeaderKeeps ==
    ASSUME KInv, AddHeader
    PROVE  Keeping'
<1>1. job = "header" /\ nth <= Len(todo) /\ entry \in Entry
  BY DEF AddHeader, KInv, TInv, Counted
<1>2. CASE Skip
  BY <1>1, <1>2, SkipKeeps
<1>3. CASE /\ list' = Append(list, entry) /\ nth' = nth + 1 /\ job' = "next"
           /\ UNCHANGED <<main, jobStatus, todo, entry, skipped, gone, start>>
  <2>1. /\ nth \in 1 .. Len(todo) /\ nth - 1 \in Nat /\ (nth + 1) - 1 = nth /\ todo \in Seq(Names)
        /\ skipped \subseteq 1 .. nth - 1 /\ gone \subseteq 1 .. nth
        /\ jobStatus = "running" /\ AddedAre(nth - 1)
    BY <1>1, KeepFacts
  <2>2. entry.name = NameOf(todo, gone, nth)
    BY <1>1 DEF KInv, Keeping
  <2>3. PICK a : IsAdded(a, todo, skipped, gone, nth - 1) /\ a[nth - 1] = NamesOf(list)
    BY <2>1 DEF AddedAre
  <2>4. PICK b : /\ IsAdded(b, todo, skipped, gone, nth)
                 /\ b[nth] = IF nth \in skipped THEN a[nth - 1] ELSE Append(a[nth - 1], NameOf(todo, gone, nth))
    <3>1. HasOneMore(a, todo, skipped, gone, nth)
      BY <2>1, <2>3, OneMore
    <3> QED BY <3>1 DEF HasOneMore
  <2>5. nth \notin skipped
    BY <2>1
  <2>6. NamesOf(list') = Append(NamesOf(list), entry.name)
    <3>1. list \in Seq(Entry) /\ Len(list) \in Nat /\ list' \in Seq(Entry)
          /\ Len(list') = Len(list) + 1
      BY <1>1, <1>3, TypeFacts DEF KInv
    <3>2. DOMAIN list = 1 .. Len(list) /\ DOMAIN list' = 1 .. Len(list) + 1
      BY <3>1
    <3>3. NamesOf(list) \in Seq(Names)
      <4>1. \A k \in 1 .. Len(list) : list[k].name \in Names
        <5> SUFFICES ASSUME NEW k \in 1 .. Len(list) PROVE list[k].name \in Names
          OBVIOUS
        <5>1. list[k] \in Entry
          BY <3>1
        <5> QED BY <5>1 DEF Entry
      <4>2. NamesOf(list) \in [1 .. Len(list) -> Names]
        BY <3>2, <4>1 DEF NamesOf
      <4> QED BY <3>1, <4>2, SeqDef
    <3>4. Len(NamesOf(list)) = Len(list)
      <4>1. DOMAIN NamesOf(list) = 1 .. Len(list)
        BY <3>2 DEF NamesOf
      <4> QED BY <3>1, <3>3, <4>1, LenProperties
    <3>5. entry.name \in Names
      BY <1>1 DEF Entry
    <3>6. ASSUME NEW k \in 1 .. Len(list) + 1
          PROVE  list'[k].name = Append(NamesOf(list), entry.name)[k]
      <4>1. CASE k = Len(list) + 1
        BY <1>1, <1>3, <3>1, <3>3, <3>4, <3>5, <4>1
      <4>2. CASE k # Len(list) + 1
        <5>1. k \in 1 .. Len(list)
          BY <3>1, <4>2
        <5>2. list'[k] = list[k]
          BY <1>1, <1>3, <3>1, <5>1
        <5>3. NamesOf(list)[k] = list[k].name
          BY <3>2, <5>1 DEF NamesOf
        <5>4. Append(NamesOf(list), entry.name)[k] = NamesOf(list)[k]
          BY <3>3, <3>4, <3>5, <5>1
        <5> QED BY <5>2, <5>3, <5>4
      <4> QED BY <4>1, <4>2
    <3>7. /\ DOMAIN Append(NamesOf(list), entry.name) = 1 .. Len(list) + 1
          /\ Append(NamesOf(list), entry.name) \in Seq(Names)
      BY <3>1, <3>3, <3>4, <3>5
    <3>8. Append(NamesOf(list), entry.name)
             = [k \in 1 .. Len(list) + 1 |-> Append(NamesOf(list), entry.name)[k]]
      BY <3>7
    <3>9. NamesOf(list') = [k \in 1 .. Len(list) + 1 |-> list'[k].name]
      BY <3>2 DEF NamesOf
    <3> QED BY <3>6, <3>8, <3>9
  <2>7. b[nth] = NamesOf(list')
    BY <2>2, <2>3, <2>4, <2>5, <2>6
  <2>8. AddedAre(nth - 1)'
    BY <1>3, <2>1, <2>4, <2>7 DEF AddedAre
  <2>9. skipped' \subseteq 1 .. nth' - 1 /\ gone' \subseteq 1 .. nth' /\ nth' \notin gone'
    BY <1>3, <2>1
  <2> QED BY <1>3, <2>1, <2>8, <2>9 DEF Keeping
<1> QED BY <1>2, <1>3 DEF AddHeader

LEMMA KeepingStep ==
    ASSUME KInv, [Next]_vars
    PROVE  Keeping'
<1>1. CASE Create
  BY <1>1 DEF Create, KInv, Keeping, AddedAre
<1>2. CASE StartFile \/ StartFolder
  BY <1>2, StartKeeps
<1>3. CASE InputFails
  <2>1. job \in {"next", "stream"} /\ nth <= Len(todo) /\ Skip
    BY <1>3 DEF InputFails, KInv, TInv, Counted
  <2> QED BY <2>1, SkipKeeps
<1>4. CASE AddOutput
  <2>1. job = "stream" /\ nth <= Len(todo) /\ entry \in Entry
    BY <1>4 DEF AddOutput, KInv, TInv, Counted
  <2>2. CASE Skip
    BY <2>1, <2>2, SkipKeeps
  <2>3. CASE \E d \in Output :
                /\ entry' = [entry EXCEPT !.size = @ + Len(d)]
                /\ UNCHANGED <<main, job, jobStatus, todo, nth, skipped, gone, list, start>>
    <3>1. entry'.name = entry.name
      BY <2>1, <2>3 DEF Entry
    <3> QED BY <2>1, <2>3, <3>1 DEF KInv, Keeping, AddedAre
  <2> QED BY <1>4, <2>2, <2>3 DEF AddOutput
<1>5. CASE StreamDone
  BY <1>5 DEF StreamDone, KInv, Keeping, AddedAre
<1>6. CASE AddHeader
  BY <1>6, AddHeaderKeeps
<1>7. CASE Finish
  <2>1. nth - 1 = Len(todo)
    <3>1. nth \in 1 .. Len(todo) + 1 /\ nth > Len(todo)
      BY <1>7 DEF Finish, KInv, TInv, TypeOK
    <3> QED BY <3>1, TypeFacts DEF KInv
  <2>2. AddedAre(Len(todo))
    BY <1>7, <2>1 DEF Finish, KInv, Keeping
  <2> QED BY <1>7, <2>2 DEF Finish, Keeping, AddedAre
<1>8. CASE CreateFails
  BY <1>8 DEF CreateFails, Keeping
<1>9. CASE Shutdown \/ WriteCDHeader \/ WriteRec64 \/ Throw \/ Kill
  <2>1. UNCHANGED <<jobStatus, todo, skipped, gone, list>> /\ job' \in {"cd", "locator", "dead"}
    BY <1>9 DEF Shutdown, WriteCDHeader, WriteRec64, Throw, Kill, Die
  <2> QED BY <2>1 DEF KInv, Keeping, AddedAre
<1>10. CASE WriteLocator \/ WriteEndOfCD
  <2>1. UNCHANGED <<jobStatus, todo, skipped, gone, list>>
    BY <1>10 DEF WriteLocator, WriteEndOfCD
  <2>2. job' \notin {"create", "next", "stream", "header"}
    BY <1>10 DEF WriteLocator, WriteEndOfCD
  <2>3. jobStatus' = "finished" => AddedAre(Len(todo))'
    BY <2>1 DEF KInv, Keeping, AddedAre
  <2> QED BY <2>2, <2>3 DEF Keeping
<1>11. CASE Poll \/ Join \/ UNCHANGED vars
  <2>1. UNCHANGED <<job, jobStatus, todo, nth, entry, skipped, gone, list>>
    BY <1>11 DEF Poll, Join, vars, jobVars
  <2> QED BY <2>1 DEF KInv, Keeping, AddedAre
<1> QED BY <1>1, <1>2, <1>3, <1>4, <1>5, <1>6, <1>7, <1>8, <1>9, <1>10, <1>11
        DEF Next, JobNext, MainNext

\* When a job that finished is joined and nothing failed to be written, its archive can be
\* opened and lists what could be read of what the job had found, in that order.
THEOREM FinishedArchiveIsRead == Spec => []FinishedIsReadable
<1>1. Init => DInv /\ KInv
  BY DInvInit, KeepingInit DEF DInv, KInv
<1>2. DInv /\ KInv /\ [Next]_vars => (DInv /\ KInv)'
  BY DInvStep, TInvStep, KeepingStep DEF KInv
<1>3. DInv /\ KInv => FinishedIsReadable
  <2> SUFFICES ASSUME DInv, KInv, main = "returned", jobStatus = "finished", ~failbit,
                      CDSize(list) <= kMaxReasonableCDBytes
               PROVE  CanOpen(file) /\ Listed(file) = list /\ [k \in DOMAIN list |-> list[k].name] = Kept
    BY DEF FinishedIsReadable
  <2>1. Complete(file, list)
    BY DEF DInv, InTheMaking, Returned
  <2>2. CanOpen(file) /\ Listed(file) = list
    BY <2>1, SeqFacts, ReadsDirectory
  <2>3. PICK a : IsAdded(a, todo, skipped, gone, Len(todo)) /\ a[Len(todo)] = NamesOf(list)
    BY DEF KInv, Keeping, AddedAre
  <2>4. Kept = NamesOf(list)
    BY <2>3, TypeFacts, KeptIs DEF KInv
  <2> QED BY <2>2, <2>4 DEF NamesOf
<1> QED BY <1>1, <1>2, <1>3, PTL DEF Spec
================================================================================
