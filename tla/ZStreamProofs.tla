---------------------------- MODULE ZStreamProofs ----------------------------
(***************************************************************************)
(* Proofs about ZStream for all files, buffers, chunks and faults.         *)
(*                                                                         *)
(* Decompression: DecompressToFile hands inflate a chunk only when it has  *)
(* put out everything of the chunk before, which mbFinalPass is for.  So   *)
(* the bytes put out, the ones inflate holds and the units it has read     *)
(* always join up.  Compression: what is written and what is in the buffer *)
(* is all that was coded, and deflate is done with what it was given       *)
(* unless it filled the buffer.                                            *)
(***************************************************************************)
EXTENDS ZStream, SequenceTheorems, TLAPS

\* Where the bytes of the first k units end.
To(k) == IF k = 0 THEN 0 ELSE archived[k].to

\* The number of bytes that were put out.
Made == IF dpc \in {"inflate", "write"} THEN Len(out) + Len(dbuf) ELSE Len(out)

Status ==
    /\ mStatus = "ok" <=> ~inflated
    /\ nStatus = "error" => mStatus = "error"
    /\ mStatus = "error" =>
          /\ dpc \notin {"chunk", "inflate", "extracted"}
          /\ dpc \in {"loop", "write"} => nStatus = "error"
    /\ dpc = "rejected" => mStatus = "error"

\* inflate gets the units in order: nothing is left of a chunk when the next is fed.
Fed ==
    /\ dpc = "extracted" => fed = Len(archived)
    /\ dpc \in {"idle", "chunk", "extracted"} /\ ~inflated => next = fed + 1 /\ unit = next /\ ~IsHolding
    /\ dpc \in {"loop", "inflate", "write"} /\ ~inflated => last = FeedEnd
    /\ dpc \in {"loop", "write"} /\ ~inflated /\ ~HasInput =>
          IF IsHolding THEN dbuf # <<>> /\ finalPass ELSE unit = next

\* All units that inflate took are codes, but the one it ended with.
Decoded ==
    /\ \A k \in 1 .. unit - 1 : archived[k].kind = "code" \/ (inflated /\ k = unit - 1)
    /\ inflated => unit > 1 /\ archived[unit - 1].kind # "code"
    /\ mStatus = "end" => archived[unit - 1].kind = "end"

\* The bytes put out, those held and the units not yet taken join up.
InOrder ==
    /\ \A i \in 1 .. Len(out) : out[i] = i
    /\ dpc \in {"inflate", "write"} => \A i \in 1 .. Len(dbuf) : dbuf[i] = Len(out) + i
    /\ Made <= LastByte(archived)

JoinsUp ==
    ~inflated /\ dpc \notin {"failed", "rejected"} =>
       IF IsHolding THEN unit > 1 /\ held.to = To(unit - 1) /\ held.from = Made + 1
       ELSE To(unit - 1) = Made

\* A whole stream ends inflate when all of it is put out.
WholeEnds ==
    inflated =>
       /\ mStatus = "end" /\ next = Len(archived) + 1 /\ last = Len(archived)
       /\ dpc # "inflate"
       /\ dpc # "failed" => Made = LastByte(archived)

Idle == dpc = "idle" => DecompressStart(<<>>)

DInv ==
    /\ DecompressTypeOK /\ Idle /\ Status /\ Fed /\ Decoded
    /\ Contiguous(archived) => InOrder /\ JoinsUp
    /\ Whole(archived, LastByte(archived)) => WholeEnds

--------------------------------------------------------------------------------
\* What the types say, in the form the steps below use it.
LEMMA DFacts ==
    ASSUME DecompressTypeOK
    PROVE  /\ Len(archived) \in Nat /\ Len(out) \in Nat /\ Len(dbuf) \in Nat
           /\ fed \in Nat /\ next \in Nat /\ last \in Nat /\ unit \in Nat \ {0}
           /\ held.from \in Nat /\ held.to \in Nat
           /\ fed <= Len(archived) /\ last <= Len(archived) /\ next <= last + 1
           /\ unit = next \/ unit = next - 1
           /\ \A k \in 1 .. Len(archived) : archived[k] \in Unit
           /\ kDefaultDecompressBuffer \in Nat \ {0} /\ kCompressStreamProcessSize \in Nat \ {0}
BY DecompressAssumption DEF DecompressTypeOK

LEMMA FeedEndIs ==
    ASSUME DecompressTypeOK
    PROVE  /\ FeedEnd \in 0 .. Len(archived) /\ fed <= FeedEnd
           /\ fed < Len(archived) => fed < FeedEnd
BY DFacts DEF FeedEnd

\* A unit with its successor, in a stream without gaps.
LEMMA UnitFollows ==
    ASSUME DecompressTypeOK, Contiguous(archived), NEW k \in 1 .. Len(archived)
    PROVE  /\ archived[k].from = To(k - 1) + 1 /\ archived[k].to = To(k)
           /\ To(k) \in Nat /\ To(k - 1) \in Nat /\ To(k) <= LastByte(archived)
           /\ archived[k].from = archived[k].to + 1
                \/ (archived[k].kind = "code" /\ archived[k].from <= archived[k].to)
<1>1. archived[k] \in Unit /\ DOMAIN archived = 1 .. Len(archived) /\ Len(archived) \in Nat
  BY DFacts DEF DecompressTypeOK
<1>2. k > 1 => archived[k - 1] \in Unit
  BY <1>1, DFacts
<1> QED BY <1>1, <1>2 DEF Contiguous, To, Unit

LEMMA LastByteIs ==
    ASSUME NEW s \in Seq(Unit)
    PROVE  /\ LastByte(s) \in Nat
           /\ Len(s) \in Nat
           /\ s # <<>> => Len(s) > 0 /\ LastByte(s) = s[Len(s)].to
<1>1. s # <<>> => Len(s) \in Nat /\ Len(s) > 0 /\ s[Len(s)] \in Unit
  BY EmptySeq, LenProperties
<1> QED BY <1>1 DEF LastByte, Unit

LEMMA FeedChunkStep ==
    ASSUME DInv, FeedChunk PROVE DInv'
<1> USE DEF DInv
<1>1. DecompressTypeOK'
  <2>1. mStatus = "ok" => ~inflated /\ unit = fed + 1
    BY DEF FeedChunk, Status, Fed
  <2>2. next' \in 1 .. Len(archived) + 1 /\ last' \in 0 .. Len(archived) /\ next' <= last' + 1
        /\ unit \in {next', next' - 1} \ {0}
    <3>1. CASE mStatus = "ok"
      <4>1. next' = fed + 1 /\ last' = FeedEnd /\ unit = fed + 1 /\ fed < Len(archived)
        BY <2>1, <3>1 DEF FeedChunk
      <4> QED BY <4>1, DFacts, FeedEndIs
    <3>2. CASE mStatus # "ok"
      BY <3>2 DEF FeedChunk, DecompressTypeOK
    <3> QED BY <3>1, <3>2
  <2> QED BY <2>2 DEF FeedChunk, DecompressTypeOK
<1>2. Idle' /\ Status'
  BY DEF FeedChunk, Idle, Status
<1>3. Fed'
  <2>1. ~inflated => next' = fed + 1 /\ last' = FeedEnd /\ FeedEnd' = FeedEnd
    BY DEF FeedChunk, Status, FeedEnd
  <2> QED BY <2>1, DFacts, FeedEndIs DEF FeedChunk, Fed, HasInput
<1>4. Decoded'
  BY DEF FeedChunk, Decoded
<1>5. Contiguous(archived) => InOrder' /\ JoinsUp'
  BY DEF FeedChunk, InOrder, JoinsUp, Made, IsHolding, To
<1>6. Whole(archived, LastByte(archived)) => WholeEnds'
  BY DEF FeedChunk, WholeEnds, Made, Status
<1> QED BY <1>1, <1>2, <1>3, <1>4, <1>5, <1>6 DEF FeedChunk

LEMMA DecompressStep ==
    ASSUME DInv, Decompress PROVE DInv'
<1> USE DEF DInv
<1>1. DecompressTypeOK'
  <2>1. dbuf' = <<>> /\ dbuf' \in Seq(Nat) /\ Len(dbuf') = 0
    BY DEF Decompress, Emptied
  <2> QED BY <2>1, DecompressAssumption DEF Decompress, DecompressTypeOK
<1>2. Idle' /\ Status'
  BY DEF Decompress, Idle, Status
<1>3. Fed'
  <2>1. FeedEnd' = FeedEnd /\ HasInput' = HasInput /\ IsHolding' = IsHolding
    BY DEF Decompress, FeedEnd, HasInput, IsHolding
  <2> QED BY <2>1 DEF Decompress, Fed
<1>4. Decoded'
  BY DEF Decompress, Decoded
<1>5. Made' = Made /\ Len(dbuf') = 0
  BY DFacts DEF Decompress, Emptied, Made
<1>6. Contiguous(archived) => InOrder' /\ JoinsUp'
  BY <1>5 DEF Decompress, InOrder, JoinsUp, IsHolding, To
<1>7. Whole(archived, LastByte(archived)) => WholeEnds'
  BY <1>5, DFacts DEF Decompress, WholeEnds, HasInput, HasMoreDecompressed, Status
<1> QED BY <1>1, <1>2, <1>3, <1>4, <1>6, <1>7 DEF Decompress

LEMMA TakeUnitStep ==
    ASSUME DInv, TakeUnit PROVE DInv'
<1> USE DEF DInv
<1>1. unit \in 1 .. Len(archived)
  BY DFacts, SMTT(30) DEF TakeUnit, HasUnit, HasInput
<1>2. archived[unit] \in Unit
  BY <1>1, DFacts
<1>3. DecompressTypeOK'
  <2>1. held' \in [from : Nat \ {0}, to : Nat]
    BY <1>2 DEF TakeUnit, Unit
  <2>2. /\ next' \in 1 .. Len(archived) + 1 /\ next' <= last + 1
        /\ unit' \in {next', next' - 1} \ {0}
    <3>1. CASE unit < next
      <4>1. next' = next /\ unit' = unit + 1 /\ unit = next - 1
        BY <3>1, DFacts DEF TakeUnit, ReadAhead
      <4> QED BY <4>1, DFacts, SMTT(30)
    <3>2. CASE ~(unit < next)
      <4>1. next' \in {next + 1, next + 2} /\ next' \in 1 .. last + 1 /\ unit' = next + 1
        BY <3>2, DFacts DEF TakeUnit, ReadAhead
      <4> QED BY <4>1, DFacts, SMTT(30)
    <3> QED BY <3>1, <3>2
  <2> QED BY <2>1, <2>2 DEF TakeUnit, DecompressTypeOK
<1>4. Idle' /\ Status' /\ Fed'
  BY DEF TakeUnit, Idle, Status, Fed, FeedEnd
<1>5. Decoded'
  BY <1>1, DFacts DEF TakeUnit, Decoded, Status
<1>6. Made' = Made
  BY DEF TakeUnit, Made
<1>7. ASSUME Contiguous(archived) PROVE InOrder' /\ JoinsUp'
  <2>1. InOrder'
    BY <1>6, <1>7 DEF TakeUnit, InOrder
  <2>2. To(unit - 1) = Made
    BY <1>7 DEF TakeUnit, JoinsUp
  <2>3. held'.from = To(unit - 1) + 1 /\ held'.to = To(unit) /\ To(unit) \in Nat /\ To(unit - 1) \in Nat
        /\ (held'.from = held'.to + 1 \/ held'.from <= held'.to)
    BY <1>1, <1>7, UnitFollows DEF TakeUnit
  <2>4. To(unit - 1)' = To(unit) /\ unit' > 1
    <3>1. unit' = unit + 1 /\ archived' = archived
      BY DEF TakeUnit
    <3>2. unit' - 1 = unit /\ unit # 0 /\ unit' > 1
      BY <3>1, DFacts
    <3> QED BY <3>1, <3>2 DEF To
  <2>5. JoinsUp'
    <3>1. held'.from = Made' + 1 /\ (IsHolding' <=> held'.from <= held'.to)
      BY <1>6, <2>2, <2>3 DEF IsHolding
    <3>2. ~IsHolding' => held'.to = Made'
      BY <1>6, <2>2, <2>3, <3>1
    <3> QED BY <2>3, <2>4, <3>1, <3>2 DEF JoinsUp
  <2> QED BY <2>1, <2>5
<1>8. Whole(archived, LastByte(archived)) => WholeEnds'
  BY DEF TakeUnit, WholeEnds
<1> QED BY <1>3, <1>4, <1>5, <1>7, <1>8 DEF TakeUnit

LEMMA PutByteStep ==
    ASSUME DInv, PutByte PROVE DInv'
<1> USE DEF DInv
<1>1. held.from \in Nat /\ Len(dbuf) \in Nat /\ dbuf \in Seq(Nat)
  BY DFacts DEF DecompressTypeOK
<1>2. /\ dbuf' \in Seq(Nat) /\ Len(dbuf') = Len(dbuf) + 1 /\ dbuf'[Len(dbuf) + 1] = held.from
      /\ \A i \in 1 .. Len(dbuf) : dbuf'[i] = dbuf[i]
  BY <1>1, AppendProperties DEF PutByte
<1>3. held'.from = held.from + 1 /\ held'.to = held.to /\ held' \in [from : Nat \ {0}, to : Nat]
  <2>1. held \in [from : Nat \ {0}, to : Nat]
    BY DEF DecompressTypeOK
  <2> QED BY <2>1 DEF PutByte
<1>4. DecompressTypeOK'
  <2>1. Len(dbuf') <= kDefaultDecompressBuffer
    BY <1>2, DFacts DEF PutByte, IsFull, DecompressTypeOK
  <2> QED BY <1>2, <1>3, <2>1 DEF PutByte, DecompressTypeOK
<1>5. Idle' /\ Status' /\ Fed' /\ Decoded'
  BY DEF PutByte, Idle, Status, Fed, FeedEnd, Decoded
<1>6. Made' = Made + 1 /\ Made = Len(out) + Len(dbuf) /\ Made \in Nat
  BY <1>2, DFacts DEF PutByte, Made
<1>7. ASSUME Contiguous(archived) PROVE InOrder' /\ JoinsUp'
  <2>1. unit > 1 /\ held.to = To(unit - 1) /\ held.from = Made + 1 /\ held.from <= held.to
    BY <1>7 DEF PutByte, JoinsUp, IsHolding
  <2>2. To(unit - 1) <= LastByte(archived) /\ LastByte(archived) \in Nat
    <3>1. unit - 1 \in 1 .. Len(archived)
      BY <2>1, DFacts
    <3> QED BY <3>1, <1>7, UnitFollows, LastByteIs DEF DecompressTypeOK
  <2>3. \A i \in 1 .. Len(dbuf') : dbuf'[i] = Len(out) + i
    <3>1. \A i \in 1 .. Len(dbuf) : dbuf[i] = Len(out) + i
      BY <1>7 DEF PutByte, InOrder
    <3>2. dbuf'[Len(dbuf) + 1] = Len(out) + (Len(dbuf) + 1)
      BY <1>2, <1>6, <2>1, DFacts
    <3> SUFFICES ASSUME NEW i \in 1 .. Len(dbuf) + 1 PROVE dbuf'[i] = Len(out) + i
      BY <1>2
    <3>3. CASE i \in 1 .. Len(dbuf)
      BY <1>2, <3>1, <3>3
    <3>4. CASE i = Len(dbuf) + 1
      BY <3>2, <3>4
    <3> QED BY <1>1, <3>3, <3>4
  <2>4. InOrder'
    <3>1. Made' <= LastByte(archived)
      BY <1>6, <2>1, <2>2, DFacts
    <3>2. \A i \in 1 .. Len(out) : out[i] = i
      BY <1>7 DEF InOrder
    <3> QED BY <2>3, <3>1, <3>2 DEF PutByte, InOrder
  <2>5. JoinsUp'
    <3>1. To(unit - 1)' = To(unit - 1) /\ unit' = unit
      BY DEF PutByte, To
    <3>2. held'.from = Made' + 1 /\ held'.to = To(unit - 1)'
      BY <1>3, <1>6, <2>1, <3>1
    <3>3. ~IsHolding' => To(unit - 1)' = Made'
      BY <1>1, <1>3, <1>6, <2>1, <3>1, DFacts, SMTT(30) DEF IsHolding
    <3> QED BY <2>1, <3>1, <3>2, <3>3 DEF JoinsUp
  <2> QED BY <2>4, <2>5
<1>8. Whole(archived, LastByte(archived)) => WholeEnds'
  BY DEF PutByte, WholeEnds
<1> QED BY <1>4, <1>5, <1>7, <1>8 DEF PutByte

LEMMA SuspendStep ==
    ASSUME DInv, Suspend PROVE DInv'
<1> USE DEF DInv
<1>1. DecompressTypeOK'
  BY DEF Suspend, DecompressTypeOK
<1>2. Idle' /\ Status' /\ Decoded'
  BY DEF Suspend, Idle, Status, Decoded
<1>3. Fed'
  <2>1. /\ FeedEnd' = FeedEnd /\ HasInput' = HasInput /\ IsHolding' = IsHolding
        /\ dpc = "inflate" /\ dpc' = "write" /\ inflated' = inflated
        /\ UNCHANGED <<unit, next, last, dbuf>>
    BY DEF Suspend, FeedEnd, HasInput, IsHolding
  <2>2. ASSUME ~HasInput, IsHolding PROVE dbuf # <<>> /\ finalPass'
    <3>1. IsFull
      BY <2>2 DEF Suspend
    <3>2. Len(dbuf) > 0
      BY <3>1, DecompressAssumption DEF IsFull
    <3>3. MayHoldMore
      BY <2>2, <3>1 DEF MayHoldMore
    <3>4. dbuf # <<>>
      BY <3>2
    <3> QED BY <3>3, <3>4 DEF Suspend
  <2>3. ASSUME ~IsHolding PROVE unit = next
    <3>1. ~(unit < next)
      BY <2>3 DEF Suspend, HasUnit
    <3> QED BY <3>1, DFacts
  <2> QED BY <2>1, <2>2, <2>3 DEF Fed
<1>4. Contiguous(archived) => InOrder' /\ JoinsUp'
  BY DEF Suspend, InOrder, JoinsUp, IsHolding, To, Made
<1>5. Whole(archived, LastByte(archived)) => WholeEnds'
  BY DEF Suspend, WholeEnds
<1> QED BY <1>1, <1>2, <1>3, <1>4, <1>5 DEF Suspend

LEMMA EndStreamStep ==
    ASSUME DInv, EndStream PROVE DInv'
<1> USE DEF DInv
<1>1. unit \in 1 .. Len(archived) /\ archived[unit] \in Unit
  BY DFacts, SMTT(30) DEF EndStream, HasUnit, HasInput
<1>2. /\ next' \in 1 .. Len(archived) + 1 /\ next' <= last + 1 /\ next' = unit + 1
      /\ unit' = unit + 1
  BY <1>1, DFacts, SMTT(30) DEF EndStream, HasUnit, HasInput
<1>3. DecompressTypeOK'
  <2>1. unit' \in {next', next' - 1} \ {0}
    BY <1>1, <1>2
  <2>2. mStatus' \in {"ok", "end", "error"} /\ nStatus' \in {"ok", "end", "error"}
    BY DEF EndStream
  <2> QED BY <1>2, <2>1, <2>2 DEF EndStream, DecompressTypeOK
<1>4. Idle' /\ Status' /\ Fed'
  BY DEF EndStream, Idle, Status, Fed
<1>5. Decoded'
  <2>1. unit' - 1 = unit /\ unit' > 1
    BY <1>1, <1>2
  <2>2. \A k \in 1 .. unit - 1 : archived[k].kind = "code"
    BY DEF EndStream, Decoded
  <2>3. mStatus' = "end" => archived[unit].kind = "end"
    BY DEF EndStream
  <2>4. \A k \in 1 .. unit : k = unit \/ archived[k].kind = "code"
    BY <1>1, <2>2
  <2> QED BY <2>1, <2>3, <2>4 DEF EndStream, Decoded
<1>6. Made' = Made
  BY DEF EndStream, Made
<1>7. Contiguous(archived) => InOrder' /\ JoinsUp'
  BY <1>6 DEF EndStream, InOrder, JoinsUp
<1>8. ASSUME Whole(archived, LastByte(archived)) PROVE WholeEnds'
  <2>1. unit = Len(archived) /\ archived[unit].kind = "end"
    <3>1. DOMAIN archived = 1 .. Len(archived)
      BY DEF DecompressTypeOK
    <3>2. \A i \in 1 .. Len(archived) : i < Len(archived) => archived[i].kind = "code"
      BY <1>8, <3>1 DEF Whole
    <3>3. unit = Len(archived)
      BY <1>1, <3>2, DFacts, SMTT(30) DEF EndStream
    <3>4. archived # <<>>
      BY <1>1
    <3> QED BY <1>8, <3>3, <3>4 DEF Whole, HasEnd
  <2>2. next' = Len(archived) + 1 /\ last' = Len(archived)
    BY <1>2, <2>1, DFacts DEF EndStream
  <2>3. Made = LastByte(archived)
    <3>1. To(unit - 1) = Made /\ Contiguous(archived)
      BY <1>8 DEF EndStream, JoinsUp, Whole
    <3>2. archived[unit].from = To(unit - 1) + 1 /\ archived[unit].from = archived[unit].to + 1
      BY <1>1, <3>1, UnitFollows DEF EndStream
    <3>3. archived[unit].to = LastByte(archived)
      <4>1. archived # <<>>
        BY <1>1
      <4> QED BY <2>1, <4>1 DEF LastByte
    <3> QED BY <1>1, <3>1, <3>2, <3>3, UnitFollows DEF Unit
  <2> QED BY <1>6, <2>1, <2>2, <2>3 DEF EndStream, WholeEnds
<1> QED BY <1>3, <1>4, <1>5, <1>7, <1>8 DEF EndStream

LEMMA InflateAgainStep ==
    ASSUME DInv, InflateAgain PROVE DInv'
<1> USE DEF DInv
<1>1. DecompressTypeOK' /\ Idle' /\ Status' /\ Fed' /\ Decoded'
  BY DEF InflateAgain, DecompressTypeOK, Idle, Status, Fed, Decoded
<1>2. Contiguous(archived) => InOrder' /\ JoinsUp'
  BY DEF InflateAgain, InOrder, JoinsUp, Made
<1>3. Whole(archived, LastByte(archived)) => WholeEnds'
  BY DEF InflateAgain, WholeEnds
<1> QED BY <1>1, <1>2, <1>3 DEF InflateAgain

LEMMA WriteDecompressedStep ==
    ASSUME DInv, WriteDecompressed PROVE DInv'
<1> USE DEF DInv
<1>1. /\ out' \in Seq(Nat) /\ Len(out') = Len(out) + Len(dbuf)
      /\ \A i \in 1 .. Len(out) + Len(dbuf) :
            out'[i] = IF i <= Len(out) THEN out[i] ELSE dbuf[i - Len(out)]
  BY ConcatProperties DEF WriteDecompressed, DecompressTypeOK
<1>2. DecompressTypeOK'
  BY <1>1 DEF WriteDecompressed, DecompressTypeOK
<1>3. Idle' /\ Status' /\ Fed' /\ Decoded'
  BY DEF WriteDecompressed, Idle, Status, Fed, FeedEnd, Decoded, HasInput, IsHolding
<1>4. Made' = Made
  BY <1>1 DEF WriteDecompressed, Made
<1>5. Contiguous(archived) => InOrder' /\ JoinsUp'
  <2>1. Contiguous(archived) => \A i \in 1 .. Len(out') : out'[i] = i
    <3>1. ASSUME Contiguous(archived), NEW i \in 1 .. Len(out) + Len(dbuf)
          PROVE  out'[i] = i
      <4>1. CASE i <= Len(out)
        <5>1. out'[i] = out[i]
          BY <1>1, <4>1
        <5>2. i \in 1 .. Len(out)
          BY <4>1, DFacts
        <5> QED BY <3>1, <5>1, <5>2 DEF InOrder
      <4>2. CASE ~(i <= Len(out))
        <5>1. i - Len(out) \in 1 .. Len(dbuf)
          BY <4>2, DFacts
        <5>2. dbuf[i - Len(out)] = Len(out) + (i - Len(out))
          BY <3>1, <5>1 DEF InOrder, WriteDecompressed
        <5>3. out'[i] = dbuf[i - Len(out)]
          BY <1>1, <4>2
        <5> QED BY <5>2, <5>3, DFacts
      <4> QED BY <4>1, <4>2
    <3> QED BY <1>1, <3>1
  <2> QED BY <1>4, <2>1 DEF WriteDecompressed, InOrder, JoinsUp, IsHolding, To
<1>6. Whole(archived, LastByte(archived)) => WholeEnds'
  BY <1>4 DEF WriteDecompressed, WholeEnds
<1> QED BY <1>2, <1>3, <1>5, <1>6 DEF WriteDecompressed

LEMMA ChunkDecompressedStep ==
    ASSUME DInv, ChunkDecompressed PROVE DInv'
<1> USE DEF DInv
<1>1. DecompressTypeOK'
  BY FeedEndIs DEF ChunkDecompressed, DecompressTypeOK
<1>2. Idle' /\ Status'
  BY DEF ChunkDecompressed, Idle, Status, IsGood, DecompressTypeOK
<1>3. Fed'
  <2>1. ASSUME ~inflated
        PROVE  fed' = last /\ next = last + 1 /\ unit = next /\ ~IsHolding
    <3>1. mStatus = "ok" /\ nStatus # "error"
      BY <2>1 DEF Status
    <3>2. ~HasInput /\ dbuf = <<>>
      BY <3>1 DEF ChunkDecompressed, HasMoreDecompressed
    <3>3. unit = next /\ ~IsHolding /\ last = FeedEnd
      BY <2>1, <3>2 DEF ChunkDecompressed, Fed
    <3>4. next = last + 1
      BY <3>2, DFacts DEF HasInput
    <3> QED BY <3>1, <3>3, <3>4 DEF ChunkDecompressed, IsGood, DecompressTypeOK
  <2> QED BY <2>1 DEF ChunkDecompressed, Fed, IsHolding
<1>4. Decoded'
  BY DEF ChunkDecompressed, Decoded
<1>5. Contiguous(archived) => InOrder' /\ JoinsUp'
  BY DEF ChunkDecompressed, InOrder, JoinsUp, Made, IsHolding, To
<1>6. Whole(archived, LastByte(archived)) => WholeEnds'
  BY DEF ChunkDecompressed, WholeEnds, Made
<1> QED BY <1>1, <1>2, <1>3, <1>4, <1>5, <1>6 DEF ChunkDecompressed

LEMMA ExtractStep ==
    ASSUME DInv, Extract PROVE DInv'
<1> USE DEF DInv
<1>1. DecompressTypeOK' /\ Idle' /\ Status' /\ Decoded'
  BY DEF Extract, DecompressTypeOK, Idle, Status, Decoded
<1>2. Fed'
  BY DFacts DEF Extract, Fed, IsHolding
<1>3. Contiguous(archived) => InOrder' /\ JoinsUp'
  BY DEF Extract, InOrder, JoinsUp, Made, IsHolding, To
<1>4. Whole(archived, LastByte(archived)) => WholeEnds'
  BY DEF Extract, WholeEnds, Made
<1> QED BY <1>1, <1>2, <1>3, <1>4 DEF Extract

LEMMA ExtractFailsStep ==
    ASSUME DInv, ExtractFails PROVE DInv'
<1> USE DEF DInv
<1>1. DecompressTypeOK' /\ Idle' /\ Status' /\ Fed' /\ Decoded'
  BY DEF ExtractFails, DecompressTypeOK, Idle, Status, Fed, Decoded
<1>2. Made' = Len(out) /\ Len(out) <= Made
  BY DFacts DEF ExtractFails, Made
<1>3. ASSUME Contiguous(archived) PROVE InOrder' /\ JoinsUp'
  <2>1. LastByte(archived) \in Nat /\ Made \in Nat /\ Made <= LastByte(archived)
    BY <1>3, LastByteIs, DFacts DEF InOrder, DecompressTypeOK, Made
  <2>2. Made' <= LastByte(archived)
    BY <1>2, <2>1, DFacts
  <2> QED BY <1>3, <2>2 DEF ExtractFails, InOrder, JoinsUp
<1>4. Whole(archived, LastByte(archived)) => WholeEnds'
  BY DEF ExtractFails, WholeEnds
<1> QED BY <1>1, <1>3, <1>4 DEF ExtractFails

LEMMA DStutter ==
    ASSUME DInv, UNCHANGED decompressVars PROVE DInv'
<1> USE DEF DInv, decompressVars
<1>1. DecompressTypeOK' /\ Idle' /\ Status' /\ Fed' /\ Decoded'
  BY DEF DecompressTypeOK, Idle, DecompressStart, Status, Fed, FeedEnd, HasInput, IsHolding, Decoded
<1>2. Contiguous(archived) => InOrder' /\ JoinsUp'
  BY DEF InOrder, JoinsUp, Made, IsHolding, To
<1>3. Whole(archived, LastByte(archived)) => WholeEnds'
  BY DEF WholeEnds, Made
<1> QED BY <1>1, <1>2, <1>3

--------------------------------------------------------------------------------
\* The units that are in the archive or on their way there.
Out == IF cpc \in {"deflate", "write"} THEN stream \o cbuf ELSE stream

\* Everything that was coded is there, once and in order.
AllCoded(s) ==
    /\ s \in Seq(Unit) /\ Contiguous(s) /\ LastByte(s) = coded
    /\ \A i \in DOMAIN s : s[i].kind = "code" \/ (i = Len(s) /\ s[i].kind = "end")

\* Deflate is done with what it was given, if it did not fill the buffer: the stream of
\* the whole file has its end, and only that stream has one.
Ended ==
    /\ HasEnd(Out) => taken = given /\ coded = given /\ given = size /\ cpc # "deflate"
    /\ cpc # "deflate" /\ taken = given /\ given = size /\ given > 0 /\ ~filled => HasEnd(Out)

InChunk ==
    /\ cpc \in {"chunk", "added"} \/ cstatus = "end" => taken = given
    /\ cpc = "added" => read = size
    /\ cpc = "deflate" => given > 0
    /\ given = 0 => Out = <<>>

CInv ==
    /\ CompressTypeOK
    /\ cpc \in {"chunk", "added"} => read = given
    /\ cpc # "failed" => AllCoded(Out) /\ Ended /\ InChunk

--------------------------------------------------------------------------------
LEMMA CFacts ==
    ASSUME CompressTypeOK
    PROVE  /\ size \in Nat /\ read \in Nat /\ given \in Nat /\ taken \in Nat /\ coded \in Nat
           /\ coded <= taken /\ taken <= given /\ read <= given /\ given <= size
           /\ Len(cbuf) \in Nat /\ cbuf \in Seq(Unit) /\ stream \in Seq(Unit)
           /\ kStreamProcessSize \in Nat \ {0} /\ kDefaultCompressBuffer \in Nat \ {0}
BY CompressAssumption DEF CompressTypeOK

LEMMA CodeIsUnit ==
    ASSUME NEW n \in Nat, NEW k \in Nat
    PROVE  Code(n + 1, n + k) \in Unit /\ FlushMark(n) \in Unit /\ EndMark(n) \in Unit /\ BadMark(n) \in Unit
BY DEF Code, FlushMark, EndMark, BadMark, Unit

\* A unit that goes on where the stream ends.
LEMMA AppendUnit ==
    ASSUME NEW s, AllCoded(s), ~HasEnd(s), NEW u \in Unit,
           u.from = coded + 1, u.kind \in {"code", "end"},
           u.from = u.to + 1 \/ (u.kind = "code" /\ u.from <= u.to)
    PROVE  LET w == Append(s, u)
           IN  /\ w \in Seq(Unit) /\ Contiguous(w) /\ LastByte(w) = u.to
               /\ \A i \in DOMAIN w : w[i].kind = "code" \/ (i = Len(w) /\ w[i].kind = "end")
               /\ HasEnd(w) <=> u.kind = "end"
<1>1. s \in Seq(Unit) /\ Len(s) \in Nat /\ DOMAIN s = 1 .. Len(s)
  BY DEF AllCoded
<1> DEFINE n == Len(s)
<1>2. PICK w : w = Append(s, u)
  OBVIOUS
<1>3. /\ w \in Seq(Unit) /\ w # <<>> /\ Len(w) = n + 1 /\ w[n + 1] = u /\ DOMAIN w = 1 .. n + 1
      /\ \A i \in 1 .. n : w[i] = s[i]
  BY <1>1, <1>2, AppendProperties
<1>4. LastByte(w) = u.to
  BY <1>3 DEF LastByte
<1>5. \A i \in 1 .. n : s[i] \in Unit
  BY <1>1
<1>6. \A i \in 1 .. n : s[i].kind = "code"
  <2>1. s # <<>> => s[n].kind # "end"
    BY DEF HasEnd
  <2>2. \A i \in 1 .. n : s # <<>>
    BY <1>1
  <2> QED BY <1>1, <2>1, <2>2 DEF AllCoded
<1>7. Contiguous(w)
  <2>1. ASSUME NEW i \in 1 .. n
        PROVE  /\ w[i].from = (IF i = 1 THEN 0 ELSE w[i - 1].to) + 1
               /\ w[i].from = w[i].to + 1 \/ (w[i].kind = "code" /\ w[i].from <= w[i].to)
               /\ w[i].to <= u.to
    <3>1. w[i] = s[i] /\ (i # 1 => w[i - 1] = s[i - 1])
      BY <1>1, <1>3
    <3>2. /\ s[i].from = (IF i = 1 THEN 0 ELSE s[i - 1].to) + 1
          /\ s[i].from = s[i].to + 1 \/ (s[i].kind = "code" /\ s[i].from <= s[i].to)
          /\ s[i].to <= coded
      BY <1>1 DEF AllCoded, Contiguous
    <3>3. coded <= u.to
      BY <1>1, LastByteIs DEF AllCoded, Unit
    <3>4. s[i].to \in Nat /\ u.to \in Nat /\ coded \in Nat
      BY <1>1, <1>5, LastByteIs DEF AllCoded, Unit
    <3> QED BY <3>1, <3>2, <3>3, <3>4
  <2>2. /\ w[n + 1].from = (IF n + 1 = 1 THEN 0 ELSE w[n].to) + 1
        /\ w[n + 1].from = w[n + 1].to + 1 \/ (w[n + 1].kind = "code" /\ w[n + 1].from <= w[n + 1].to)
        /\ w[n + 1].to <= u.to
    <3>1. coded = IF n + 1 = 1 THEN 0 ELSE w[n].to
      <4>1. CASE n = 0
        <5>1. s = <<>>
          BY <1>1, <4>1
        <5> QED BY <4>1, <5>1 DEF AllCoded, LastByte
      <4>2. CASE n # 0
        <5>1. s # <<>> /\ w[n] = s[n]
          BY <1>1, <1>3, <4>2
        <5> QED BY <1>1, <4>2, <5>1 DEF AllCoded, LastByte
      <4> QED BY <4>1, <4>2
    <3>2. u.to \in Nat
      BY DEF Unit
    <3> QED BY <1>3, <3>1, <3>2
  <2>3. ASSUME NEW i \in 1 .. n + 1
        PROVE  /\ w[i].from = (IF i = 1 THEN 0 ELSE w[i - 1].to) + 1
               /\ w[i].from = w[i].to + 1 \/ (w[i].kind = "code" /\ w[i].from <= w[i].to)
               /\ w[i].to <= u.to
    <3>1. CASE i \in 1 .. n
      BY <2>1, <3>1
    <3>2. CASE i = n + 1
      <4>1. i - 1 = n
        BY <1>1, <3>2
      <4> QED BY <2>2, <3>2, <4>1
    <3> QED BY <1>1, <3>1, <3>2
  <2> QED BY <1>3, <1>4, <2>3 DEF Contiguous
<1>8. \A i \in DOMAIN w : w[i].kind = "code" \/ (i = Len(w) /\ w[i].kind = "end")
  <2> SUFFICES ASSUME NEW i \in 1 .. n + 1
               PROVE  w[i].kind = "code" \/ (i = Len(w) /\ w[i].kind = "end")
    BY <1>3
  <2>1. CASE i \in 1 .. n
    BY <1>3, <1>6, <2>1
  <2>2. CASE i = n + 1
    BY <1>3, <2>2
  <2> QED BY <1>1, <2>1, <2>2
<1>9. HasEnd(w) <=> u.kind = "end"
  BY <1>3 DEF HasEnd
<1> QED BY <1>2, <1>3, <1>4, <1>7, <1>8, <1>9

\* Putting a unit out puts it at the end of what is in the archive or on its way there.
LEMMA PutOut ==
    ASSUME CompressTypeOK, cpc = "deflate", NEW u \in Unit,
           cbuf' = Append(cbuf, u), stream' = stream, cpc' \in {"deflate", "write"}
    PROVE  Out' = Append(Out, u) /\ cbuf' \in Seq(Unit) /\ Len(cbuf') = Len(cbuf) + 1
<1>1. cbuf \in Seq(Unit) /\ stream \in Seq(Unit) /\ <<u>> \in Seq(Unit)
  BY DEF CompressTypeOK
<1>2. cbuf' = cbuf \o <<u>>
  BY <1>1, AppendIsConcat
<1>3. stream \o (cbuf \o <<u>>) = (stream \o cbuf) \o <<u>>
  BY <1>1, ConcatAssociative
<1>4. stream \o cbuf \in Seq(Unit)
  BY <1>1, ConcatProperties
<1>5. (stream \o cbuf) \o <<u>> = Append(stream \o cbuf, u)
  BY <1>4, AppendIsConcat
<1>6. Len(cbuf') = Len(cbuf) + 1 /\ cbuf' \in Seq(Unit)
  BY <1>1, AppendProperties
<1> QED BY <1>2, <1>3, <1>5, <1>6 DEF Out

LEMMA ReadChunkStep ==
    ASSUME CInv, ReadChunk PROVE CInv'
<1> USE DEF CInv
<1>1. /\ given' \in Nat /\ read < given' /\ given' <= size
      /\ read = given /\ taken = given /\ taken < given' /\ given' > 0
  BY CFacts DEF ReadChunk, ChunkEnd, InChunk
<1>2. CompressTypeOK'
  BY <1>1, CFacts DEF ReadChunk, CompressTypeOK
<1>3. Out' = Out /\ AllCoded(Out)'
  BY DEF ReadChunk, Out, AllCoded
<1>4. ~HasEnd(Out)
  BY <1>1, CFacts DEF ReadChunk, Ended
<1>5. Ended' /\ InChunk'
  BY <1>1, <1>3, <1>4, CFacts DEF ReadChunk, Ended, InChunk
<1> QED BY <1>2, <1>3, <1>5 DEF ReadChunk

LEMMA CompressStep ==
    ASSUME CInv, Compress PROVE CInv'
<1> USE DEF CInv
<1>1. cbuf' = <<>> /\ cbuf' \in Seq(Unit) /\ Len(cbuf') = 0
  BY DEF Compress
<1>2. CompressTypeOK'
  BY <1>1, CFacts DEF Compress, CompressTypeOK
<1>3. Out' = Out /\ AllCoded(Out)'
  BY <1>1, ConcatEmptySeq, CFacts DEF Compress, Out, AllCoded
<1>4. Ended'
  BY <1>3, CFacts DEF Compress, Ended
<1>5. InChunk'
  BY <1>3, CFacts DEF Compress, InChunk
<1> QED BY <1>2, <1>3, <1>4, <1>5 DEF Compress

LEMMA TakeInputStep ==
    ASSUME CInv, TakeInput PROVE CInv'
<1> USE DEF CInv
<1>1. CompressTypeOK'
  BY CFacts DEF TakeInput, CompressTypeOK
<1>2. Out' = Out /\ AllCoded(Out)' /\ ~HasEnd(Out)
  BY DEF TakeInput, Out, AllCoded, Ended
<1>3. Ended' /\ InChunk'
  BY <1>2, CFacts DEF TakeInput, Ended, InChunk
<1> QED BY <1>1, <1>2, <1>3 DEF TakeInput

LEMMA PutCodeStep ==
    ASSUME CInv, NEW k \in 1 .. MaxMatch, PutCode(k) PROVE CInv'
<1> USE DEF CInv
<1> DEFINE u == Code(coded + 1, coded + k)
<1>1. k \in Nat /\ k > 0 /\ coded + k \in Nat
  BY CFacts, CompressAssumption
<1>2. u \in Unit /\ u.kind = "code" /\ u.from = coded + 1 /\ u.to = coded + k /\ u.from <= u.to
  BY <1>1, CFacts, CodeIsUnit DEF Code
<1>3. Out' = Append(Out, u) /\ cbuf' \in Seq(Unit) /\ Len(cbuf') = Len(cbuf) + 1
  BY <1>2, PutOut DEF PutCode
<1>4. CompressTypeOK'
  <2>1. Len(cbuf') <= kDefaultCompressBuffer
    BY <1>3, CFacts DEF PutCode
  <2> QED BY <1>1, <1>3, <2>1 DEF PutCode, CompressTypeOK
<1>5. AllCoded(Out) /\ ~HasEnd(Out) /\ given > 0
  BY DEF PutCode, Ended, InChunk
<1>6. AllCoded(Out)' /\ ~HasEnd(Out')
  BY <1>2, <1>3, <1>5, AppendUnit DEF PutCode, AllCoded
<1>7. Ended' /\ InChunk'
  BY <1>5, <1>6, CFacts DEF PutCode, Ended, InChunk
<1> QED BY <1>4, <1>6, <1>7 DEF PutCode

LEMMA FlushDoneStep ==
    ASSUME CInv, FlushDone PROVE CInv'
<1> USE DEF CInv
<1>1. FlushUnit \in Unit /\ FlushUnit.from = coded + 1 /\ FlushUnit.to = coded
      /\ FlushUnit.kind = IF given = size THEN "end" ELSE "code"
  BY CFacts, CodeIsUnit DEF FlushUnit, bFinalBlock, FlushMark, EndMark, Code
<1>2. Out' = Append(Out, FlushUnit) /\ cbuf' \in Seq(Unit) /\ Len(cbuf') = Len(cbuf) + 1
  BY <1>1, PutOut DEF FlushDone
<1>3. CompressTypeOK'
  <2>1. Len(cbuf') <= kDefaultCompressBuffer
    BY <1>2, CFacts DEF FlushDone
  <2>2. cstatus' \in {"ok", "end"} /\ filled' \in BOOLEAN
    BY DEF FlushDone
  <2> QED BY <1>2, <2>1, <2>2 DEF FlushDone, CompressTypeOK
<1>4. AllCoded(Out) /\ ~HasEnd(Out) /\ given > 0
  BY DEF FlushDone, Ended, InChunk
<1>5. FlushUnit.from = FlushUnit.to + 1 /\ FlushUnit.kind \in {"code", "end"}
  BY <1>1
<1>6. AllCoded(Out)' /\ (HasEnd(Out') <=> FlushUnit.kind = "end")
  BY <1>1, <1>2, <1>4, <1>5, AppendUnit, SMTT(30) DEF FlushDone, AllCoded
<1>7. taken' = given' /\ coded' = given' /\ given' = given /\ size' = size /\ cpc' = "write"
  BY CFacts DEF FlushDone
<1>8. Ended' /\ InChunk'
  BY <1>1, <1>4, <1>6, <1>7, CFacts DEF Ended, InChunk
<1> QED BY <1>3, <1>6, <1>8 DEF FlushDone

LEMMA OutputFullStep ==
    ASSUME CInv, OutputFull PROVE CInv'
<1> USE DEF CInv
<1>1. CompressTypeOK'
  BY DEF OutputFull, CompressTypeOK
<1>2. Out' = Out /\ AllCoded(Out)' /\ ~HasEnd(Out)
  BY DEF OutputFull, Out, AllCoded, Ended
<1>3. Ended' /\ InChunk'
  BY <1>2 DEF OutputFull, Ended, InChunk
<1> QED BY <1>1, <1>2, <1>3 DEF OutputFull

LEMMA WriteCompressedStep ==
    ASSUME CInv, WriteCompressed PROVE CInv'
<1> USE DEF CInv
<1>1. CompressTypeOK'
  <2>1. stream' \in Seq(Unit)
    BY CFacts, ConcatProperties DEF WriteCompressed
  <2> QED BY <2>1 DEF WriteCompressed, CompressTypeOK
<1>2. Out' = Out /\ AllCoded(Out)'
  BY DEF WriteCompressed, Out, AllCoded
<1>3. Ended' /\ InChunk'
  BY <1>2 DEF WriteCompressed, Ended, InChunk
<1> QED BY <1>1, <1>2, <1>3 DEF WriteCompressed

LEMMA ChunkCompressedStep ==
    ASSUME CInv, ChunkCompressed PROVE CInv'
<1> USE DEF CInv
<1>1. CompressTypeOK'
  BY CFacts DEF ChunkCompressed, CompressTypeOK
<1>2. Out' = Out /\ AllCoded(Out)'
  BY DEF ChunkCompressed, Out, AllCoded
<1>3. taken = given
  BY CFacts DEF ChunkCompressed, HasMoreCompressed, InChunk, CompressTypeOK
<1>4. Ended' /\ InChunk'
  BY <1>2, <1>3 DEF ChunkCompressed, Ended, InChunk
<1> QED BY <1>1, <1>2, <1>4 DEF ChunkCompressed

LEMMA AddStep ==
    ASSUME CInv, Add PROVE CInv'
<1> USE DEF CInv
<1>1. CompressTypeOK'
  BY DEF Add, CompressTypeOK
<1>2. Out' = Out /\ AllCoded(Out)'
  BY DEF Add, Out, AllCoded
<1>3. read = size
  BY CFacts DEF Add
<1>4. Ended' /\ InChunk'
  BY <1>2, <1>3 DEF Add, Ended, InChunk
<1> QED BY <1>1, <1>2, <1>4 DEF Add

LEMMA CStutter ==
    ASSUME CInv, UNCHANGED compressVars PROVE CInv'
BY DEF CInv, compressVars, CompressTypeOK, Out, AllCoded, Ended, InChunk

LEMMA CompressNextStep ==
    ASSUME CInv, CompressNext PROVE CInv'
<1>1. CASE \E k \in 1 .. MaxMatch : PutCode(k)
  BY <1>1, PutCodeStep
<1>2. CASE AddFails
  BY <1>2 DEF AddFails, CInv, CompressTypeOK
<1> QED BY <1>1, <1>2, ReadChunkStep, CompressStep, TakeInputStep, FlushDoneStep, OutputFullStep,
           WriteCompressedStep, ChunkCompressedStep, AddStep DEF CompressNext

--------------------------------------------------------------------------------
\* What happens to a stream in the archive leaves it a stream.
LEMMA DamagedIsStream ==
    ASSUME NEW s \in Seq(Unit), NEW d \in Damaged(s) PROVE d \in Seq(Unit)
<1>1. LastByte(s) \in Nat /\ Len(s) \in Nat
  BY LastByteIs
<1>2. BadMark(LastByte(s)) \in Unit /\ Code(LastByte(s) + 1, LastByte(s) + 1) \in Unit
  BY <1>1, CodeIsUnit
<1>3. \A k \in 0 .. Len(s) : SubSeq(s, 1, k) \in Seq(Unit)
  BY <1>1, SubSeqProperties
<1>4. ASSUME NEW k \in DOMAIN s PROVE [s EXCEPT ![k] = BadMark(s[k].from - 1)] \in Seq(Unit)
  <2>1. s[k] \in Unit
    OBVIOUS
  <2>2. s[k].from - 1 \in Nat
    BY <2>1 DEF Unit
  <2>3. BadMark(s[k].from - 1) \in Unit
    BY <2>2, CodeIsUnit
  <2> QED BY <2>3, ExceptSeq
<1>5. Append(s, BadMark(LastByte(s))) \in Seq(Unit)
      /\ Append(s, Code(LastByte(s) + 1, LastByte(s) + 1)) \in Seq(Unit)
  BY <1>2, AppendProperties
<1> QED BY <1>3, <1>4, <1>5 DEF Damaged

\* Before an entry is opened the decompressor is as it was made, and afterwards the
\* compressor does nothing any more.
InTurn == dpc # "idle" => cpc = "added"

IInv == CInv /\ DInv /\ InTurn

LEMMA OpenEntryStep ==
    ASSUME IInv, OpenEntry PROVE DInv'
<1>1. DecompressTypeOK /\ DecompressStart(<<>>)
  BY DEF IInv, DInv, Idle, OpenEntry
<1>2. archived' \in Seq(Unit)
  BY DamagedIsStream DEF IInv, CInv, CompressTypeOK, OpenEntry
<1>3. /\ fed' = 0 /\ next' = 1 /\ last' = 0 /\ unit' = 1 /\ held' = NoBytes
      /\ inflated' = FALSE /\ finalPass' = FALSE /\ dbuf' = <<>> /\ out' = <<>>
      /\ mStatus' = "ok" /\ nStatus' = "ok" /\ dpc' = "chunk"
  BY <1>1 DEF OpenEntry, DecompressStart
<1>4. Len(archived') \in Nat /\ LastByte(archived') \in Nat
  BY <1>2, LastByteIs
<1>5. held' \in [from : Nat \ {0}, to : Nat] /\ ~IsHolding'
  BY <1>3 DEF NoBytes, IsHolding
<1>6. DecompressTypeOK'
  <2>1. dbuf' \in Seq(Nat) /\ out' \in Seq(Nat) /\ Len(dbuf') = 0
    BY <1>3
  <2>2. fed' \in 0 .. Len(archived') /\ next' \in 1 .. Len(archived') + 1 /\ last' \in 0 .. Len(archived')
        /\ next' <= last' + 1 /\ unit' \in {next', next' - 1} \ {0}
    BY <1>3, <1>4
  <2>3. Len(dbuf') <= kDefaultDecompressBuffer
    BY <2>1, DecompressAssumption
  <2> QED BY <1>2, <1>3, <1>5, <2>1, <2>2, <2>3 DEF DecompressTypeOK
<1>7. Idle' /\ Status' /\ Fed'
  BY <1>3, <1>5 DEF Idle, Status, Fed
<1>8. Decoded'
  BY <1>3 DEF Decoded
<1>9. Made' = 0 /\ To(unit - 1)' = 0 /\ Len(out') = 0
  BY <1>3 DEF Made, To
<1>10. InOrder' /\ JoinsUp'
  BY <1>3, <1>4, <1>5, <1>9 DEF InOrder, JoinsUp
<1>11. WholeEnds'
  BY <1>3 DEF WholeEnds
<1> QED BY <1>6, <1>7, <1>8, <1>10, <1>11 DEF DInv

LEMMA DecompressNextStep ==
    ASSUME DInv, DecompressNext PROVE DInv'
BY FeedChunkStep, DecompressStep, TakeUnitStep, PutByteStep, SuspendStep, EndStreamStep, InflateAgainStep,
   WriteDecompressedStep, ChunkDecompressedStep, ExtractStep, ExtractFailsStep DEF DecompressNext

THEOREM InitIInv == Init => IInv
<1> SUFFICES ASSUME Init PROVE IInv
  OBVIOUS
<1>1. CInv
  <2>1. size \in Nat /\ cbuf = <<>> /\ stream = <<>> /\ given = 0 /\ taken = 0 /\ coded = 0 /\ read = 0
        /\ cpc = "chunk"
    BY CompressAssumption DEF Init, CompressInit
  <2>2. CompressTypeOK
    <3>1. cbuf \in Seq(Unit) /\ stream \in Seq(Unit) /\ Len(cbuf) = 0
      BY <2>1
    <3>2. filled \in BOOLEAN
      BY DEF Init, CompressInit
    <3> QED BY <2>1, <3>1, <3>2, CompressAssumption DEF Init, CompressInit, CompressTypeOK
  <2>3. Out = <<>> /\ Out \in Seq(Unit) /\ DOMAIN Out = {}
    BY <2>1 DEF Out
  <2>4. AllCoded(Out)
    BY <2>1, <2>3 DEF AllCoded, Contiguous, LastByte
  <2>5. Ended /\ InChunk
    BY <2>1, <2>3 DEF Init, CompressInit, Ended, HasEnd, InChunk
  <2> QED BY <2>1, <2>2, <2>4, <2>5 DEF CInv
<1>2. DInv
  <2>1. /\ archived = <<>> /\ fed = 0 /\ next = 1 /\ last = 0 /\ unit = 1 /\ held = NoBytes
        /\ inflated = FALSE /\ finalPass = FALSE /\ dbuf = <<>> /\ out = <<>>
        /\ mStatus = "ok" /\ nStatus = "ok" /\ dpc = "idle"
    BY DEF Init, DecompressStart
  <2>2. archived \in Seq(Unit) /\ Len(archived) = 0 /\ LastByte(archived) = 0
    BY <2>1 DEF LastByte
  <2>3. held \in [from : Nat \ {0}, to : Nat] /\ ~IsHolding
    BY <2>1 DEF NoBytes, IsHolding
  <2>4. dbuf \in Seq(Nat) /\ out \in Seq(Nat) /\ Len(dbuf) = 0 /\ Len(out) = 0
    BY <2>1
  <2>5. DecompressTypeOK
    <3>1. Len(dbuf) <= kDefaultDecompressBuffer
      BY <2>4, DecompressAssumption
    <3>2. /\ fed \in 0 .. Len(archived) /\ next \in 1 .. Len(archived) + 1 /\ last \in 0 .. Len(archived)
          /\ next <= last + 1 /\ unit \in {next, next - 1} \ {0}
      BY <2>1, <2>2
    <3> QED BY <2>1, <2>2, <2>3, <2>4, <3>1, <3>2 DEF DecompressTypeOK
  <2>6. Idle
    BY DEF Init, Idle
  <2>7. Status /\ Fed /\ Decoded
    BY <2>1, <2>3 DEF Status, Fed, Decoded
  <2>8. InOrder /\ JoinsUp
    BY <2>1, <2>2, <2>3, <2>4 DEF InOrder, JoinsUp, Made, To
  <2>9. WholeEnds
    BY <2>1 DEF WholeEnds
  <2> QED BY <2>5, <2>6, <2>7, <2>8, <2>9 DEF DInv
<1>3. InTurn
  BY DEF Init, InTurn
<1> QED BY <1>1, <1>2, <1>3 DEF IInv

\* IInv is inductive.
THEOREM NextIInv == IInv /\ [Next]_vars => IInv'
<1> SUFFICES ASSUME IInv, [Next]_vars PROVE IInv'
  OBVIOUS
<1>1. CASE CompressNext /\ UNCHANGED decompressVars
  <2>1. CInv' /\ DInv'
    BY <1>1, CompressNextStep, DStutter DEF IInv
  <2>2. cpc # "added"
    BY <1>1 DEF CompressNext, ReadChunk, Compress, TakeInput, PutCode, FlushDone, OutputFull,
                WriteCompressed, ChunkCompressed, Add, AddFails
  <2>3. InTurn'
    BY <1>1, <2>2 DEF IInv, InTurn, decompressVars
  <2> QED BY <2>1, <2>3 DEF IInv
<1>2. CASE OpenEntry
  <2>1. CInv'
    BY <1>2, CStutter DEF IInv, OpenEntry
  <2>2. InTurn'
    BY <1>2 DEF OpenEntry, compressVars, InTurn
  <2> QED BY <1>2, <2>1, <2>2, OpenEntryStep DEF IInv
<1>3. CASE DecompressNext /\ UNCHANGED compressVars
  <2>1. CInv' /\ DInv'
    BY <1>3, CStutter, DecompressNextStep DEF IInv
  <2>2. dpc # "idle"
    BY <1>3 DEF DecompressNext, FeedChunk, Decompress, TakeUnit, PutByte, Suspend, EndStream,
                InflateAgain, WriteDecompressed, ChunkDecompressed, Extract, ExtractFails
  <2>3. InTurn'
    BY <1>3, <2>2 DEF IInv, InTurn, compressVars
  <2> QED BY <2>1, <2>3 DEF IInv
<1>4. CASE UNCHANGED vars
  <2>1. UNCHANGED compressVars /\ UNCHANGED decompressVars
    BY <1>4 DEF vars
  <2>2. InTurn'
    BY <2>1 DEF IInv, InTurn, compressVars, decompressVars
  <2> QED BY <2>1, <2>2, CStutter, DStutter DEF IInv
<1> QED BY <1>1, <1>2, <1>3, <1>4 DEF Next

LEMMA Invariance == Spec => []IInv
BY InitIInv, NextIInv, PTL DEF Spec

--------------------------------------------------------------------------------
\* Every variable keeps its type.
THEOREM TypeCorrect == Spec => []TypeOK
<1>1. IInv => TypeOK
  BY DEF IInv, CInv, DInv, TypeOK
<1> QED BY <1>1, Invariance, PTL

LEMMA IsInOrder ==
    ASSUME IInv PROVE OutputInOrder
<1> SUFFICES ASSUME Contiguous(archived)
             PROVE  out = [i \in 1 .. Len(out) |-> i] /\ Len(out) <= LastByte(archived)
  BY DEF OutputInOrder
<1>1. InOrder /\ DecompressTypeOK
  BY DEF IInv, DInv
<1>2. out = [i \in 1 .. Len(out) |-> out[i]]
  BY <1>1 DEF DecompressTypeOK
<1>3. \A i \in 1 .. Len(out) : out[i] = i
  BY <1>1 DEF InOrder
<1>4. Len(out) <= Made
  BY <1>1, DFacts DEF Made
<1>5. Made \in Nat /\ LastByte(archived) \in Nat
  BY <1>1, DFacts, LastByteIs DEF Made, DecompressTypeOK
<1> QED BY <1>1, <1>2, <1>3, <1>4, <1>5, DFacts DEF InOrder

\* However chunks and buffers fall, and wherever reading or writing fails, what is in
\* the extracted file is a beginning of what the stream stands for.
THEOREM OutputStaysInOrder == Spec => []OutputInOrder
BY IsInOrder, Invariance, PTL

LEMMA IsAccepted ==
    ASSUME IInv, Whole(archived, LastByte(archived)) PROVE dpc # "rejected"
<1> SUFFICES ASSUME dpc = "rejected" PROVE FALSE
  OBVIOUS
<1>1. mStatus = "error" /\ inflated
  BY DEF IInv, DInv, Status
<1> QED BY <1>1 DEF IInv, DInv, WholeEnds

LEMMA IsExtracted ==
    ASSUME IInv PROVE WholeIsExtracted
<1> SUFFICES ASSUME Whole(archived, LastByte(archived)), dpc = "extracted"
             PROVE  Len(out) = LastByte(archived)
  BY IsAccepted DEF WholeIsExtracted
<1>1. WholeEnds /\ JoinsUp /\ Fed /\ DecompressTypeOK
  BY DEF IInv, DInv, Whole
<1>2. Made = Len(out)
  BY DEF Made
<1>3. CASE inflated
  BY <1>1, <1>2, <1>3 DEF WholeEnds
<1>4. CASE ~inflated
  <2>1. unit = Len(archived) + 1 /\ ~IsHolding
    BY <1>1, <1>4 DEF Fed
  <2>2. To(unit - 1) = Len(out)
    BY <1>1, <1>2, <1>4, <2>1 DEF JoinsUp
  <2>3. unit - 1 = Len(archived)
    BY <2>1, <1>1, DFacts
  <2>4. To(Len(archived)) = LastByte(archived)
    <3>1. Len(archived) = 0 <=> archived = <<>>
      BY <1>1 DEF DecompressTypeOK
    <3> QED BY <3>1 DEF To, LastByte
  <2> QED BY <2>2, <2>3, <2>4
<1> QED BY <1>3, <1>4

\* No whole stream is rejected, for inflate is not called again after it ended, and the
\* last call of Decompress for the last chunk leaves nothing inside inflate.
THEOREM WholeStreamsAreExtracted == Spec => []WholeIsExtracted
BY IsExtracted, Invariance, PTL

\* A stream with a unit that is not deflate in front of its end is not extracted.
THEOREM BadStreamsAreRejected == Spec => []BadIsRejected
<1>1. IInv => BadIsRejected
  <2> SUFFICES ASSUME IInv, dpc = "extracted", NEW i \in DOMAIN archived, archived[i].kind = "bad"
               PROVE  \E k \in 1 .. i - 1 : archived[k].kind = "end"
    BY DEF BadIsRejected
  <2>1. DecompressTypeOK /\ Status /\ Fed /\ Decoded
    BY DEF IInv, DInv
  <2>2. i \in 1 .. Len(archived) /\ i \in Nat
    BY <2>1, DFacts DEF DecompressTypeOK
  <2>3. inflated
    <3> SUFFICES ASSUME ~inflated PROVE FALSE
      OBVIOUS
    <3>1. unit = Len(archived) + 1
      BY <2>1 DEF Fed
    <3>2. i \in 1 .. unit - 1
      BY <2>1, <2>2, <3>1, DFacts
    <3> QED BY <2>1, <3>2 DEF Decoded
  <2>4. archived[unit - 1].kind = "end" /\ unit > 1
    BY <2>1, <2>3 DEF Status, Decoded, DecompressTypeOK
  <2>5. ~(i <= unit - 1)
    <3> SUFFICES ASSUME i <= unit - 1 PROVE FALSE
      OBVIOUS
    <3>1. i \in 1 .. unit - 1
      BY <2>1, <2>2, DFacts
    <3>2. i # unit - 1
      BY <2>4
    <3> QED BY <2>1, <3>1, <3>2 DEF Decoded
  <2>6. unit - 1 \in 1 .. i - 1
    BY <2>1, <2>2, <2>4, <2>5, DFacts, SMTT(30)
  <2> QED BY <2>4, <2>6
<1> QED BY <1>1, Invariance, PTL

LEMMA IsAddedWhole ==
    ASSUME IInv PROVE AddedIsWhole
<1> SUFFICES ASSUME cpc = "added"
             PROVE  \/ Whole(stream, size)
                    \/ filled /\ Contiguous(stream) /\ LastByte(stream) <= size
  BY DEF AddedIsWhole
<1>1. CompressTypeOK /\ AllCoded(stream) /\ read = given /\ read = size /\ taken = given
      /\ Ended /\ Out = stream /\ (given = 0 => stream = <<>>)
  BY DEF IInv, CInv, InChunk, Out
<1>2. Contiguous(stream) /\ LastByte(stream) = coded /\ coded <= size
  BY <1>1, CFacts DEF AllCoded
<1>3. CASE filled
  BY <1>2, <1>3
<1>4. CASE ~filled
  <2>1. given # 0 => HasEnd(stream) /\ coded = size
    <3>1. given # 0 => given > 0
      BY <1>1, CFacts
    <3>2. given # 0 => HasEnd(Out)
      BY <1>1, <1>4, <3>1, Zenon DEF Ended
    <3> QED BY <1>1, <3>2 DEF Ended
  <2>2. given = 0 => coded = size
    <3>1. coded \in Nat /\ taken \in Nat /\ coded <= taken
      BY <1>1, CFacts
    <3>2. taken = given /\ size = given
      BY <1>1
    <3> QED BY <3>1, <3>2
  <2>3. stream = <<>> \/ HasEnd(stream)
    BY <1>1, <2>1
  <2>4. LastByte(stream) = size
    BY <1>2, <2>1, <2>2
  <2>5. \A i \in DOMAIN stream : i < Len(stream) => stream[i].kind = "code"
    <3>1. Len(stream) \in Nat /\ \A i \in DOMAIN stream : i < Len(stream) => i # Len(stream)
      BY <1>1, CFacts
    <3> QED BY <1>1, <3>1 DEF AllCoded
  <2> QED BY <1>2, <2>3, <2>4, <2>5 DEF Whole
<1> QED BY <1>1, <1>3, <1>4 DEF CompressTypeOK

\* For all sizes of files, chunks and buffers, and however little deflate makes of the
\* data: a file that was added is in the archive as the whole of its stream, unless the
\* last call of deflate filled the output buffer, and then as a beginning of it.
THEOREM AddedStreamsAreWhole == Spec => []AddedIsWhole
<1>1. IInv => AddedIsWhole
  BY IsAddedWhole
<1> QED BY <1>1, Invariance, PTL

\* A file that was added and extracted with success is the same file, with the same
\* exception, and a beginning of it then.
THEOREM FilesComeBack == Spec => []RoundTrip
<1>1. IInv => RoundTrip
  <2> SUFFICES ASSUME IInv, dpc = "extracted", archived = stream
               PROVE  \/ out = [i \in 1 .. size |-> i]
                      \/ filled /\ Len(out) <= size /\ out = [i \in 1 .. Len(out) |-> i]
    BY DEF RoundTrip
  <2>1. CASE Whole(archived, size)
    <3>1. LastByte(archived) = size /\ Contiguous(archived)
      BY <2>1 DEF Whole
    <3>2. Len(out) = size
      BY <2>1, <3>1, IsExtracted DEF WholeIsExtracted
    <3> QED BY <3>1, <3>2, IsInOrder DEF OutputInOrder
  <2>2. CASE filled /\ Contiguous(archived) /\ LastByte(archived) <= size
    <3>1. out = [i \in 1 .. Len(out) |-> i] /\ Len(out) <= LastByte(archived)
      BY <2>2, IsInOrder DEF OutputInOrder
    <3>2. Len(out) \in Nat /\ LastByte(archived) \in Nat /\ size \in Nat
      BY CFacts, DFacts, LastByteIs DEF IInv, CInv, DInv, DecompressTypeOK
    <3>3. Len(out) <= size
      BY <2>2, <3>1, <3>2
    <3> QED BY <2>2, <3>1, <3>3, Zenon
  <2> QED BY <2>1, <2>2, IsAddedWhole DEF IInv, InTurn, AddedIsWhole
<1> QED BY <1>1, Invariance, PTL
================================================================================
