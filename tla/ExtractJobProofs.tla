--------------------------- MODULE ExtractJobProofs ---------------------------
(***************************************************************************)
(* Proofs about ExtractJob for any archives, disks, patterns and faults.   *)
(* What is proved of the content of files assumes that a read that reports *)
(* success has read, and that closing a file loses nothing.                *)
(***************************************************************************)
EXTENDS ExtractJob, WellFoundedInduction, TLAPS

\* What the job's thread knows at each place of its function.
JobInv ==
    /\ main = "ready" => job = "off"
    /\ job \in {"off", "init"} => listed = {}
    /\ IsDone => job \in {"report", "destroy", "ended"}
    /\ job \in {"report", "destroy", "ended"} => Selected \subseteq collected
    /\ errors = 0 => \A e \in collected : result[e] # "kError"
    /\ \A e \in collected : status[e] = "done" /\ result[e] # "threw"

\* What the task of e knows at each place of its function, of how much it has
\* counted,
CountInv(e) ==
    /\ pc[e] \notin {"write", "end"} => pos[e] = 0 /\ processed[e] = 0
    /\ pc[e] = "write" => processed[e] <= pos[e]
    /\ pc[e] = "end" => result[e] # "kNone" /\ processed[e] <= Len(Data(e))

\* and of the file, if no other task writes it.
FileInv(e) ==
    LET file == disk[Name(e)] IN
    /\ pc[e] = "crc" => file # NoFile /\ Len(file) = Len(Data(e))
    /\ pc[e] = "decompress" /\ ~skipCRC /\ e \notin held => file # Data(e)
    /\ pc[e] = "hung" => Len(Data(e)) >= CounterLimit
    /\ pc[e] = "write" => file = SubSeq(Data(e), 1, pos[e])
    /\ pc[e] = "end" /\ result[e] \in {"kAlreadyUpToDate", "kExtracted"} => file = Data(e)

\* A file that a task writes is there, whatever other tasks write it too.
Opened == \A e \in Positions : pc[e] = "write" => disk[Name(e)] # NoFile

TaskInv ==
    /\ \A e \in Positions : pc[e] = "none" => pos[e] = 0 /\ processed[e] = 0
    /\ \A e \in Selected : Sole(e) => CountInv(e)
DiskInv == \A e \in Selected : Sole(e) => FileInv(e)

IInv == TypeOK /\ JobInv /\ Opened /\ TaskInv

--------------------------------------------------------------------------------
(* The archive *)

LEMMA EntriesAreTyped ==
    ASSUME package \in Packages, NEW e \in DOMAIN package
    PROVE  /\ e \in Positions
           /\ package[e] \in Entry
           /\ Name(e) \in Names
           /\ Data(e) \in Seq(Blocks)
           /\ DOMAIN package \subseteq Nat
<1>1. package \in Seq(Entry) /\ Len(package) <= MaxEntries /\ MaxEntries \in Nat
  BY PackageAssumption
<1>2. DOMAIN package = 1 .. Len(package) /\ Len(package) \in Nat BY <1>1
<1>3. package[e] \in Entry BY <1>1, <1>2
<1>4. QED BY <1>1, <1>2, <1>3 DEF Entry, Name, Data, Positions

LEMMA LeastPosition ==
    ASSUME NEW T, T \subseteq Nat, T # {}
    PROVE  \E k \in T : \A i \in T : k <= i
<1>1. IsWellFoundedOn(OpToRel(<, Nat), Nat) BY NatLessThanWellFounded
<1>2. PICK k \in T : \A i \in T : ~(<<i, k>> \in OpToRel(<, Nat)) BY <1>1, WFMin
<1>3. \A i \in T : ~(i < k) BY <1>2 DEF OpToRel
<1>4. QED BY <1>3

\* The header a task decompresses is one of the archive's, and its own if no other
\* entry has the name.
LEMMA HeaderIsEntry ==
    ASSUME package \in Packages, NEW e \in DOMAIN package
    PROVE  /\ Header(e) \in Entry
           /\ Sole(e) => Header(e) = package[e]
<1> DEFINE T == {k \in DOMAIN package : package[k].name = Name(e)}
<1>1. T \subseteq Nat BY EntriesAreTyped
<1>2. e \in T BY DEF Name
<1>3. PICK k \in T : \A i \in T : k <= i BY <1>1, <1>2, LeastPosition
<1>4. \E j \in DOMAIN package :
         package[j].name = Name(e) /\ \A i \in DOMAIN package : package[i].name = Name(e) => j <= i
  BY <1>3
<1>5. FirstNamed(package, Name(e)) \in T BY <1>4 DEF FirstNamed
<1>6. Sole(e) => FirstNamed(package, Name(e)) = e BY <1>5 DEF Sole, Name
<1>7. QED BY <1>5, <1>6, EntriesAreTyped DEF Header

--------------------------------------------------------------------------------
(* The blocks of a file *)

LEMMA PutIsContent ==
    ASSUME NEW f \in Seq(Blocks \cup {Garbage}), NEW k \in Nat \ {0},
           NEW b \in Blocks \cup {Garbage}
    PROVE  Put(f, k, b) \in Seq(Blocks \cup {Garbage})
<1>1. Len(f) \in Nat /\ \A i \in 1 .. Len(f) : f[i] \in Blocks \cup {Garbage} OBVIOUS
<1>2. PICK n \in Nat : n = IF Len(f) < k THEN k ELSE Len(f) BY <1>1
<1>3. Put(f, k, b) = [i \in 1 .. n |-> IF i = k THEN b ELSE IF i <= Len(f) THEN f[i] ELSE Garbage]
  BY <1>2 DEF Put
<1>4. \A i \in 1 .. n : (IF i = k THEN b ELSE IF i <= Len(f) THEN f[i] ELSE Garbage) \in Blocks \cup {Garbage}
  BY <1>1
<1>5. QED BY <1>3, <1>4

\* A block put after the first k blocks of d, taken from d, makes it k + 1.
LEMMA PutExtendsPrefix ==
    ASSUME NEW d \in Seq(Blocks), NEW k \in Nat, k < Len(d)
    PROVE  Put(SubSeq(d, 1, k), k + 1, d[k + 1]) = SubSeq(d, 1, k + 1)
<1>1. Len(d) \in Nat OBVIOUS
<1>2. Len(SubSeq(d, 1, k)) = k /\ \A i \in 1 .. k : SubSeq(d, 1, k)[i] = d[i] BY <1>1
<1>3. Put(SubSeq(d, 1, k), k + 1, d[k + 1]) =
         [i \in 1 .. k + 1 |-> IF i = k + 1 THEN d[k + 1]
                               ELSE IF i <= k THEN SubSeq(d, 1, k)[i] ELSE Garbage]
  BY <1>2 DEF Put
<1>4. SubSeq(d, 1, k + 1) = [i \in 1 .. k + 1 |-> d[i]] BY <1>1
<1>5. \A i \in 1 .. k + 1 : i = k + 1 \/ i \in 1 .. k OBVIOUS
<1>6. QED BY <1>2, <1>3, <1>4, <1>5

--------------------------------------------------------------------------------
(* Types *)

LEMMA TypeInit == Init => TypeOK
<1> SUFFICES ASSUME Init PROVE TypeOK OBVIOUS
<1> USE DEF Init
<1>1. disk \in [Names -> Contents] BY DiskAssumption
<1>2. runs \in 1 .. MaxRuns BY BoundAssumption
<1>3. status = [e \in Positions |-> "new"] /\ gone = FALSE BY DEF Pool!Init
<1>4. listed \subseteq DOMAIN package /\ collected \subseteq Selected OBVIOUS
<1>5. \A e \in Positions : status[e] = "new" /\ pc[e] = "none" /\ pos[e] = 0 BY <1>3
<1>6. /\ status \in [Positions -> {"new", "queued", "running", "done"}]
      /\ pc \in [Positions -> {"none", "verify", "crc", "hung", "decompress", "write", "end"}]
      /\ pos \in [Positions -> Nat] /\ processed \in [Positions -> Nat]
      /\ result \in [Positions -> {"kNone", "kAlreadyUpToDate", "kExtracted", "kError", "threw"}]
  BY <1>3
<1>7. \A e \in Positions :
         /\ status[e] # "new" => e \in Selected
         /\ pc[e] = "end" <=> status[e] = "done"
         /\ pc[e] \notin {"none", "end"} => status[e] = "running"
         /\ pos[e] > 0 => pos[e] <= Len(Header(e).data)
  BY <1>5
<1>8. QED BY <1>1, <1>2, <1>3, <1>4, <1>6, <1>7 DEF TypeOK

\* What no step but that of a new process changes.
LEMMA PackageStays == Next => package' = package
BY DEF Next, Main, Run, PollDone, JoinThread, Job, OpenFails, Open, EnqueueDone, SetStatus,
   DivideByZero, Report, DestroyPool, Enqueue, Collect, Task, Start, Throw, Begin, VerifySize, VerifyHeld,
   ReadForEver, UpToDate, CRCDiffers, DecompressFails, OpenOutput, WriteBlock, CloseOutput,
   Kill, NewProcess, jobVars, taskVars

LEMMA TypeMain == IInv /\ Main => TypeOK'
<1> SUFFICES ASSUME IInv, Main PROVE TypeOK' OBVIOUS
<1> USE DEF IInv, TypeOK, jobVars, taskVars
<1>1. CASE Run BY <1>1 DEF Run, Selected, IsFile, Name, Header
<1>2. CASE PollDone BY <1>2 DEF PollDone, Selected, IsFile, Name, Header
<1>3. CASE JoinThread BY <1>3 DEF JoinThread, Selected, IsFile, Name, Header
<1>4. QED BY <1>1, <1>2, <1>3 DEF Main

LEMMA TypeJob == IInv /\ Job => TypeOK'
<1> SUFFICES ASSUME IInv, Job PROVE TypeOK' OBVIOUS
<1> USE DEF IInv, TypeOK, jobVars, taskVars
<1>1. CASE OpenFails BY <1>1 DEF OpenFails, Selected, IsFile, Name, Header
<1>2. CASE Open
  <2>1. collected = {} BY <1>2 DEF Open, JobInv, Selected
  <2>2. \A e \in Positions : status[e] = "new" BY <1>2 DEF Open, JobInv, Selected
  <2>3. QED BY <1>2, <2>1, <2>2 DEF Open, Header, Name
<1>3. CASE EnqueueDone BY <1>3 DEF EnqueueDone, Selected, IsFile, Name, Header
<1>4. CASE SetStatus BY <1>4 DEF SetStatus, Selected, IsFile, Name, Header
<1>5. CASE DivideByZero BY <1>5 DEF DivideByZero, Die, Selected, IsFile, Name, Header
<1>6. CASE Report BY <1>6 DEF Report, Selected, IsFile, Name, Header
<1>7. CASE DestroyPool BY <1>7 DEF DestroyPool, Pool!Destroy, Selected, IsFile, Name, Header
<1>8. ASSUME NEW e \in Positions, Enqueue(e) PROVE TypeOK'
  BY <1>8 DEF Enqueue, Pool!Submit, Selected, IsFile, Name, Header
<1>9. ASSUME NEW e \in Positions, Collect(e) PROVE TypeOK'
  BY <1>9 DEF Collect, Die, Selected, IsFile, Name, Header
<1>10. QED
  BY <1>1, <1>2, <1>3, <1>4, <1>5, <1>6, <1>7, <1>8, <1>9 DEF Job

LEMMA TypeTask == IInv /\ (\E e \in Positions : Task(e)) => TypeOK'
<1> SUFFICES ASSUME IInv, NEW e \in Positions, Task(e) PROVE TypeOK' OBVIOUS
<1> USE DEF IInv, TypeOK, jobVars, taskVars
<1>1. CASE Start(e) BY <1>1 DEF Start, Pool!Start, Selected, IsFile, Name, Header
<1>2. CASE Throw(e) BY <1>2 DEF Throw, Pool!Finish, Selected, IsFile, Name, Header
<1>3. CASE Begin(e) BY <1>3 DEF Begin, Selected, IsFile, Name, Header
<1>4. CASE VerifySize(e) BY <1>4 DEF VerifySize, Selected, IsFile, Name, Header
<1>5. CASE VerifyHeld(e) BY <1>5 DEF VerifyHeld, Selected, IsFile, Name, Header
<1>6. CASE ReadForEver(e) BY <1>6 DEF ReadForEver, Selected, IsFile, Name, Header
<1>7. CASE UpToDate(e) BY <1>7 DEF UpToDate, Return, Pool!Finish, Selected, IsFile, Name, Header
<1>8. CASE CRCDiffers(e) BY <1>8 DEF CRCDiffers, Selected, IsFile, Name, Header
<1>9. CASE DecompressFails(e)
  BY <1>9 DEF DecompressFails, Return, Pool!Finish, Selected, IsFile, Name, Header
<1>10. CASE OpenOutput(e)
  <2>1. <<>> \in Contents BY DEF Contents
  <2>2. [disk EXCEPT ![Name(e)] = <<>>] \in [Names -> Contents] BY <2>1
  <2>3. QED BY <1>10, <2>2 DEF OpenOutput, Selected, IsFile, Name, Header
<1>11. CASE WriteBlock(e)
  <2>1. e \in DOMAIN package BY <1>11 DEF WriteBlock, Selected, IsFile
  <2>2. Header(e) \in Entry BY <2>1, HeaderIsEntry
  <2>3. disk[Name(e)] \in Seq(Blocks \cup {Garbage})
    BY <1>11, <2>1, EntriesAreTyped DEF WriteBlock, Opened, Contents
  <2>4. Header(e).data[pos[e] + 1] \in Blocks BY <1>11, <2>2 DEF WriteBlock, Entry
  <2>5. pos[e] + 1 \in Nat \ {0} /\ NextPos(e) = pos[e] + 1 BY DEF NextPos
  <2>6. \A b \in Blocks \cup {Garbage} :
           [disk EXCEPT ![Name(e)] = Put(disk[Name(e)], pos[e] + 1, b)] \in [Names -> Contents]
    BY <2>3, <2>5, PutIsContent DEF Contents
  <2>7. disk' \in [Names -> Contents] BY <1>11, <2>4, <2>6 DEF WriteBlock
  <2>8. Len(Header(e).data) \in Nat BY <2>2 DEF Entry
  <2>9. pos' \in [Positions -> Nat] /\ \A k \in Positions : pos'[k] > 0 => pos'[k] <= Len(Header(k).data)
    BY <1>11, <2>5, <2>8 DEF WriteBlock
  <2>10. processed' \in [Positions -> Nat] BY <1>11 DEF WriteBlock, Added
  <2>11. QED BY <1>11, <2>7, <2>9, <2>10 DEF WriteBlock, Selected, IsFile, Name, Header
<1>12. CASE CloseOutput(e)
  <2>1. e \in DOMAIN package BY <1>12 DEF CloseOutput, Selected, IsFile
  <2>2. disk[Name(e)] \in Seq(Blocks \cup {Garbage})
    BY <1>12, <2>1, EntriesAreTyped DEF CloseOutput, Opened, Contents
  <2>3. \A f \in Closed(disk[Name(e)]) : f \in Contents
    <3>1. disk[Name(e)] # <<>> =>
             SubSeq(disk[Name(e)], 1, Len(disk[Name(e)]) - 1) \in Seq(Blocks \cup {Garbage})
      BY <2>2
    <3>2. QED BY <2>2, <3>1 DEF Closed, Contents
  <2>4. disk' \in [Names -> Contents] BY <1>12, <2>3 DEF CloseOutput
  <2>5. QED BY <1>12, <2>4 DEF CloseOutput, Return, Pool!Finish, Selected, IsFile, Name, Header
<1>13. QED
  BY <1>1, <1>2, <1>3, <1>4, <1>5, <1>6, <1>7, <1>8, <1>9, <1>10, <1>11, <1>12 DEF Task

LEMMA TypeProcess == IInv /\ (Kill \/ NewProcess) => TypeOK'
<1> SUFFICES ASSUME IInv, Kill \/ NewProcess PROVE TypeOK' OBVIOUS
<1> USE DEF IInv, TypeOK, jobVars, taskVars
<1>1. CASE Kill BY <1>1 DEF Kill, Die, Selected, IsFile, Name, Header
<1>2. CASE NewProcess
  <2>1. runs' \in 1 .. MaxRuns BY <1>2, BoundAssumption DEF NewProcess
  <2>2. \A e \in Positions : status'[e] = "new" /\ pc'[e] = "none" /\ pos'[e] = 0
    BY <1>2 DEF NewProcess, Fresh
  <2>3. status' \in [Positions -> {"new", "queued", "running", "done"}]
    BY <1>2 DEF NewProcess, Fresh
  <2>4. pc' \in [Positions -> {"none", "verify", "crc", "hung", "decompress", "write", "end"}]
    BY <1>2 DEF NewProcess, Fresh
  <2>5. pos' \in [Positions -> Nat] /\ processed' \in [Positions -> Nat] /\ held' = {}
    BY <1>2 DEF NewProcess, Fresh
  <2>6. result' \in [Positions -> {"kNone", "kAlreadyUpToDate", "kExtracted", "kError", "threw"}]
    BY <1>2 DEF NewProcess, Fresh
  <2>7. \A e \in Positions :
           /\ status'[e] # "new" => e \in Selected'
           /\ pc'[e] = "end" <=> status'[e] = "done"
           /\ pc'[e] \notin {"none", "end"} => status'[e] = "running"
           /\ pos'[e] > 0 => pos'[e] <= Len(Header(e)'.data)
    BY <2>2
  <2>8. package' \in Packages /\ disk' \in [Names -> Contents] /\ skipCRC' \in BOOLEAN
    BY <1>2 DEF NewProcess
  <2>9. /\ main' = "ready" /\ job' = "off" /\ jobStatus' = "kNone" /\ errors' = 0
        /\ verified' = FALSE /\ gone' = FALSE /\ listed' = {} /\ collected' = {}
    BY <1>2 DEF NewProcess, Fresh
  <2>10. QED BY <2>1, <2>3, <2>4, <2>5, <2>6, <2>7, <2>8, <2>9
<1>3. QED BY <1>1, <1>2

--------------------------------------------------------------------------------
(* The thread of the job *)

LEMMA JobInit == Init => JobInv
BY DEF Init, JobInv, IsDone

LEMMA JobMain == IInv /\ Main => JobInv'
<1> SUFFICES ASSUME IInv, Main PROVE JobInv' OBVIOUS
<1> USE DEF IInv, JobInv, IsDone, jobVars, taskVars, Selected, IsFile, Name
<1>1. CASE Run BY <1>1 DEF Run, TypeOK
<1>2. CASE PollDone BY <1>2 DEF PollDone
<1>3. CASE JoinThread BY <1>3 DEF JoinThread
<1>4. QED BY <1>1, <1>2, <1>3 DEF Main

LEMMA JobJob == IInv /\ Job => JobInv'
<1> SUFFICES ASSUME IInv, Job PROVE JobInv' OBVIOUS
<1> USE DEF IInv, JobInv, IsDone, jobVars, taskVars, Selected, IsFile, Name
<1>1. CASE OpenFails BY <1>1 DEF OpenFails
<1>2. CASE Open
  <2>1. collected = {} BY <1>2 DEF Open, TypeOK
  <2>2. QED BY <1>2, <2>1 DEF Open
<1>3. CASE EnqueueDone BY <1>3 DEF EnqueueDone
<1>4. CASE SetStatus BY <1>4 DEF SetStatus, AllCollected
<1>5. CASE DivideByZero BY <1>5 DEF DivideByZero, Die
<1>6. CASE Report BY <1>6 DEF Report
<1>7. CASE DestroyPool BY <1>7 DEF DestroyPool, Pool!Destroy
<1>8. ASSUME NEW e \in Positions, Enqueue(e) PROVE JobInv'
  BY <1>8 DEF Enqueue, Pool!Submit, TypeOK
<1>9. ASSUME NEW e \in Positions, Collect(e) PROVE JobInv'
  <2>1. errors' = 0 => (errors = 0 /\ result[e] # "kError") \/ collected' = collected
    BY <1>9 DEF Collect, TypeOK
  <2>2. \A k \in collected' : k \in collected \/ (k = e /\ result[e] # "threw")
    BY <1>9 DEF Collect
  <2>3. collected' = collected => errors' = errors BY <1>9 DEF Collect
  <2>4. main' # "ready" BY <1>9 DEF Collect, Die
  <2>5. status' = status /\ result' = result /\ job' = "collect" /\ UNCHANGED <<package, jobStatus, listed>>
    BY <1>9 DEF Collect
  <2>6. jobStatus \notin {"kFinished", "kError"} BY <1>9 DEF Collect
  <2>7. \A k \in collected' : status[k] = "done" /\ result[k] # "threw"
    BY <1>9, <2>2 DEF Collect
  <2>8. errors' = 0 => \A k \in collected' : result[k] # "kError" BY <2>1, <2>2, <2>3, <1>9 DEF Collect
  <2>9. QED BY <2>4, <2>5, <2>6, <2>7, <2>8
<1>10. QED
  BY <1>1, <1>2, <1>3, <1>4, <1>5, <1>6, <1>7, <1>8, <1>9 DEF Job

\* A task leaves alone what the job's thread knows: the futures it has read are those
\* of tasks that have returned.
LEMMA JobTask == IInv /\ (\E e \in Positions : Task(e)) => JobInv'
<1> SUFFICES ASSUME IInv, NEW e \in Positions, Task(e) PROVE JobInv' OBVIOUS
<1> USE DEF IInv, TypeOK, jobVars, taskVars
<1>1. /\ e \notin collected
      /\ \A k \in Positions : k # e => status'[k] = status[k] /\ result'[k] = result[k]
      /\ UNCHANGED <<package, main, jobVars>>
  <2> USE DEF JobInv
  <2>1. CASE Start(e) BY <2>1 DEF Start, Pool!Start
  <2>2. CASE Throw(e) BY <2>2 DEF Throw, Pool!Finish
  <2>3. CASE Begin(e) BY <2>3 DEF Begin
  <2>4. CASE VerifySize(e) \/ VerifyHeld(e) BY <2>4 DEF VerifySize, VerifyHeld
  <2>5. CASE ReadForEver(e) BY <2>5 DEF ReadForEver
  <2>6. CASE UpToDate(e) BY <2>6 DEF UpToDate, Return, Pool!Finish
  <2>7. CASE CRCDiffers(e) BY <2>7 DEF CRCDiffers
  <2>8. CASE DecompressFails(e) BY <2>8 DEF DecompressFails, Return, Pool!Finish
  <2>9. CASE OpenOutput(e) BY <2>9 DEF OpenOutput
  <2>10. CASE WriteBlock(e) BY <2>10 DEF WriteBlock
  <2>11. CASE CloseOutput(e) BY <2>11 DEF CloseOutput, Return, Pool!Finish
  <2>12. QED
    BY <2>1, <2>2, <2>3, <2>4, <2>5, <2>6, <2>7, <2>8, <2>9, <2>10, <2>11 DEF Task
<1>2. collected \subseteq Positions BY EntriesAreTyped DEF Selected, IsFile
<1>3. \A k \in collected : status'[k] = status[k] /\ result'[k] = result[k] BY <1>1, <1>2
<1>4. QED BY <1>1, <1>3, ZenonT(60) DEF JobInv, IsDone, Selected, IsFile, Name

LEMMA JobProcess == IInv /\ (Kill \/ NewProcess) => JobInv'
<1> SUFFICES ASSUME IInv, Kill \/ NewProcess PROVE JobInv' OBVIOUS
<1> USE DEF IInv, JobInv, IsDone, jobVars, taskVars, Selected, IsFile, Name
<1>1. CASE Kill BY <1>1 DEF Kill, Die
<1>2. CASE NewProcess BY <1>2 DEF NewProcess, Fresh
<1>3. QED BY <1>1, <1>2

LEMMA OpenedStep == IInv /\ [Next]_vars => Opened'
<1> SUFFICES ASSUME IInv, [Next]_vars PROVE Opened' OBVIOUS
<1> USE DEF IInv, Opened, jobVars, taskVars
<1>1. CASE UNCHANGED <<package, disk, pc>> BY <1>1 DEF Name
<1>2. ASSUME NEW e \in Positions, Task(e), ~UNCHANGED <<disk, pc>>, NEW k \in Positions,
             pc'[k] = "write"
      PROVE  disk'[Name(k)] # NoFile
  <2> USE DEF TypeOK
  <2>1. CASE OpenOutput(e)
    <3>1. <<>> # NoFile
      <4>1. <<>> \in Seq(Blocks \cup {Garbage}) OBVIOUS
      <4>2. QED BY <4>1, DiskAssumption
    <3>2. k \in DOMAIN package BY <1>2, <2>1 DEF OpenOutput, Selected, IsFile
    <3>3. e \in DOMAIN package BY <1>2, <2>1 DEF OpenOutput, Selected, IsFile
    <3>4. Name(k) \in Names /\ Name(e) \in Names BY <3>2, <3>3, EntriesAreTyped
    <3>5. k # e => pc[k] = "write" BY <1>2, <2>1 DEF OpenOutput
    <3>6. QED BY <1>2, <2>1, <3>1, <3>4, <3>5 DEF OpenOutput
  <2>2. CASE WriteBlock(e) \/ CloseOutput(e)
    <3>1. e \in DOMAIN package /\ k \in DOMAIN package /\ pc[k] = "write" /\ pc[e] = "write"
      BY <1>2, <2>2 DEF WriteBlock, CloseOutput, Return, Selected, IsFile
    <3>2. Name(k) \in Names /\ Name(e) \in Names BY <3>1, EntriesAreTyped
    <3>3. disk' \in [Names -> Contents] BY <1>2, TypeTask DEF IInv
    <3>4. disk[Name(e)] \in Seq(Blocks \cup {Garbage}) BY <3>1, <3>2 DEF Contents
    <3>5. disk'[Name(e)] # NoFile
      <4>1. CASE WriteBlock(e)
        <5>1. Header(e) \in Entry BY <3>1, HeaderIsEntry
        <5>2. Header(e).data[pos[e] + 1] \in Blocks BY <4>1, <5>1 DEF WriteBlock, Entry
        <5>3. \A b \in Blocks \cup {Garbage} :
                 Put(disk[Name(e)], pos[e] + 1, b) \in Seq(Blocks \cup {Garbage})
          <6>1. pos[e] + 1 \in Nat \ {0} OBVIOUS
          <6>2. QED BY <3>4, <6>1, PutIsContent
        <5>4. disk'[Name(e)] \in Seq(Blocks \cup {Garbage})
          BY <4>1, <3>2, <5>2, <5>3 DEF WriteBlock
        <5>5. QED BY <5>4, DiskAssumption
      <4>2. CASE CloseOutput(e)
        <5>1. disk[Name(e)] # <<>> =>
                 SubSeq(disk[Name(e)], 1, Len(disk[Name(e)]) - 1) \in Seq(Blocks \cup {Garbage})
          BY <3>4
        <5>2. disk'[Name(e)] \in Seq(Blocks \cup {Garbage})
          BY <4>2, <3>2, <3>4, <5>1 DEF CloseOutput, Closed
        <5>3. QED BY <5>2, DiskAssumption
      <4>3. QED BY <2>2, <4>1, <4>2
    <3>6. \A n \in Names : n # Name(e) => disk'[n] = disk[n]
      BY <2>2, <3>2 DEF WriteBlock, CloseOutput
    <3>7. QED BY <3>1, <3>2, <3>5, <3>6
  <2>3. CASE disk' = disk /\ ~OpenOutput(e)
    <3>1. pc[k] = "write"
      BY <1>2, <2>3 DEF Task, Start, Throw, Begin, VerifySize, VerifyHeld, ReadForEver, UpToDate, CRCDiffers,
         DecompressFails, OpenOutput, WriteBlock, CloseOutput, Return
    <3>2. QED BY <2>3, <3>1
  <2>4. QED
    BY <1>2, <2>1, <2>2, <2>3 DEF Task, Start, Throw, Begin, VerifySize, VerifyHeld, ReadForEver, UpToDate,
       CRCDiffers, DecompressFails
<1>3. CASE NewProcess BY <1>3 DEF NewProcess, Fresh
<1>4. CASE Main \/ Job \/ Kill
  BY <1>1, <1>4 DEF Main, Run, PollDone, JoinThread, Job, OpenFails, Open, EnqueueDone,
     SetStatus, DivideByZero, Report, DestroyPool, Enqueue, Collect, Kill
<1>5. CASE \E e \in Positions : Task(e)
  <2> SUFFICES ASSUME NEW k \in Positions, pc'[k] = "write" PROVE (disk[Name(k)] # NoFile)'
    OBVIOUS
  <2>1. package' = package BY <1>5, PackageStays DEF Next
  <2>2. PICK e \in Positions : Task(e) BY <1>5
  <2>3. CASE UNCHANGED <<disk, pc>> BY <1>1, <2>1, <2>3
  <2>4. CASE ~UNCHANGED <<disk, pc>>
    <3>1. disk'[Name(k)] # NoFile BY <1>2, <2>2, <2>4
    <3>2. QED BY <2>1, <3>1 DEF Name
  <2>5. QED BY <2>3, <2>4
<1>6. CASE UNCHANGED vars BY <1>1, <1>6 DEF vars
<1>7. QED BY <1>3, <1>4, <1>5, <1>6 DEF Next

--------------------------------------------------------------------------------
(* The task of an entry *)

\* A task changes what is its own, and the file at its path.
LEMMA TaskFrame ==
    ASSUME IInv, NEW e \in Positions, Task(e)
    PROVE  /\ e \in Selected
           /\ UNCHANGED <<package, skipCRC, main, jobVars, runs>>
           /\ \A k \in Positions : k # e =>
                 /\ pc'[k] = pc[k] /\ pos'[k] = pos[k]
                 /\ result'[k] = result[k] /\ processed'[k] = processed[k]
                 /\ k \in held' <=> k \in held
           /\ \A n \in Names : n # Name(e) => disk'[n] = disk[n]
<1> USE DEF IInv, TypeOK, taskVars
<1>1. CASE Start(e) BY <1>1 DEF Start, Pool!Start
<1>2. CASE Throw(e) BY <1>2 DEF Throw, Pool!Finish
<1>3. CASE Begin(e) BY <1>3 DEF Begin
<1>4. CASE VerifySize(e) \/ VerifyHeld(e) BY <1>4 DEF VerifySize, VerifyHeld
<1>5. CASE ReadForEver(e) BY <1>5 DEF ReadForEver
<1>6. CASE UpToDate(e) BY <1>6 DEF UpToDate, Return, Pool!Finish
<1>7. CASE CRCDiffers(e) BY <1>7 DEF CRCDiffers
<1>8. CASE DecompressFails(e) BY <1>8 DEF DecompressFails, Return, Pool!Finish
<1>9. CASE OpenOutput(e) BY <1>9 DEF OpenOutput
<1>10. CASE WriteBlock(e) BY <1>10 DEF WriteBlock
<1>11. CASE CloseOutput(e) BY <1>11 DEF CloseOutput, Return, Pool!Finish
<1>12. QED
  BY <1>1, <1>2, <1>3, <1>4, <1>5, <1>6, <1>7, <1>8, <1>9, <1>10, <1>11 DEF Task

\* Every other step changes nothing that a task knows.
LEMMA OtherFrame ==
    ASSUME IInv, Main \/ Job \/ Kill \/ UNCHANGED vars
    PROVE  /\ UNCHANGED <<package, disk, skipCRC, taskVars>>
           /\ Selected' = Selected \/ \A e \in Positions : pc[e] = "none"
<1> USE DEF IInv, TypeOK, taskVars, jobVars, vars
<1>1. CASE Open
  <2>1. \A e \in Positions : pc[e] = "none" BY <1>1 DEF Open, JobInv, Selected
  <2>2. QED BY <1>1, <2>1 DEF Open
<1>2. CASE UNCHANGED vars BY <1>2 DEF Selected, IsFile, Name
<1>3. CASE ~Open /\ (Main \/ Job \/ Kill)
  <2>1. UNCHANGED <<package, disk, skipCRC, taskVars, listed>>
    BY <1>3 DEF Main, Run, PollDone, JoinThread, Job, OpenFails, EnqueueDone, SetStatus,
       DivideByZero, Report, DestroyPool, Enqueue, Collect, Kill
  <2>2. QED BY <2>1 DEF Selected, IsFile, Name
<1>4. QED BY <1>1, <1>2, <1>3

LEMMA OwnCount ==
    ASSUME IInv, NEW e \in Positions, Task(e), Sole(e)
    PROVE  CountInv(e)'
<1>1. e \in Selected /\ package' = package BY TaskFrame
<1>2. e \in DOMAIN package BY <1>1 DEF Selected, IsFile
<1>3. Header(e) = package[e] BY <1>2, HeaderIsEntry DEF IInv, TypeOK
<1>4. Len(Data(e)) \in Nat BY <1>2, EntriesAreTyped DEF IInv, TypeOK
<1>5. CountInv(e) BY <1>1 DEF IInv, TaskInv
<1>6. pos[e] <= Len(Data(e)) BY <1>3, <1>4 DEF IInv, TypeOK, Data
<1>7. Data(e)' = Data(e) BY <1>1 DEF Data
<1> USE DEF CountInv, IInv, TypeOK, taskVars
<1>8. CASE Start(e) BY <1>5, <1>7, <1>8 DEF Start, Pool!Start
<1>9. CASE Throw(e) BY <1>4, <1>5, <1>7, <1>9 DEF Throw, Pool!Finish
<1>10. CASE Begin(e) BY <1>5, <1>7, <1>10 DEF Begin
<1>11. CASE VerifySize(e) \/ VerifyHeld(e) BY <1>5, <1>7, <1>11 DEF VerifySize, VerifyHeld
<1>12. CASE ReadForEver(e) BY <1>5, <1>7, <1>12 DEF ReadForEver
<1>13. CASE UpToDate(e) BY <1>4, <1>7, <1>13 DEF UpToDate, Return, Pool!Finish
<1>14. CASE CRCDiffers(e) BY <1>5, <1>7, <1>14 DEF CRCDiffers
<1>15. CASE DecompressFails(e)
  <2>1. processed[e] <= Len(Data(e)) BY <1>4, <1>5, <1>6, <1>15 DEF DecompressFails
  <2>2. QED BY <1>7, <1>15, <2>1 DEF DecompressFails, Return, Pool!Finish
<1>16. CASE OpenOutput(e) BY <1>5, <1>7, <1>16 DEF OpenOutput
<1>17. CASE WriteBlock(e) BY <1>5, <1>7, <1>17 DEF WriteBlock, NextPos, Added
<1>18. CASE CloseOutput(e)
  <2>1. processed[e] <= Len(Data(e)) BY <1>4, <1>5, <1>6, <1>18 DEF CloseOutput
  <2>2. QED BY <1>7, <1>18, <2>1 DEF CloseOutput, Return, Pool!Finish
<1>19. QED
  BY <1>8, <1>9, <1>10, <1>11, <1>12, <1>13, <1>14, <1>15, <1>16, <1>17, <1>18 DEF Task

LEMMA CountStep == IInv /\ [Next]_vars => TaskInv'
<1> SUFFICES ASSUME IInv, [Next]_vars PROVE TaskInv' OBVIOUS
<1>1. Selected \subseteq Positions BY EntriesAreTyped DEF IInv, TypeOK, Selected, IsFile
<1>2. package' = package => Selected' \subseteq Positions
  <2>1. DOMAIN package \subseteq Positions BY EntriesAreTyped DEF IInv, TypeOK
  <2>2. QED BY <2>1 DEF Selected, IsFile
<1>3. ASSUME NEW e \in Positions, Task(e) PROVE TaskInv'
  <2>1. \A k \in Positions : pc'[k] = "none" => pos'[k] = 0 /\ processed'[k] = 0
    <3>1. pc'[e] = "none" => pos'[e] = 0 /\ processed'[e] = 0
      BY <1>3 DEF IInv, TypeOK, TaskInv, taskVars, Task, Start, Throw, Begin, VerifySize, VerifyHeld,
         ReadForEver, UpToDate, CRCDiffers, DecompressFails, OpenOutput, WriteBlock,
         CloseOutput, Return
    <3>2. QED BY <1>3, <3>1, TaskFrame DEF IInv, TaskInv
  <2> SUFFICES ASSUME NEW k \in Selected, Sole(k) PROVE CountInv(k)'
    BY <1>3, <2>1, TaskFrame DEF TaskInv, Selected, IsFile, Sole, Name, jobVars
  <2>2. CASE k = e BY <1>3, <2>2, OwnCount
  <2>3. CASE k # e
    <3>1. CountInv(k) BY DEF IInv, TaskInv
    <3>2. QED BY <1>1, <1>3, <2>3, <3>1, TaskFrame DEF CountInv, Data
  <2>4. QED BY <2>2, <2>3
<1>4. CASE Main \/ Job \/ Kill \/ UNCHANGED vars
  <2>1. UNCHANGED <<package, disk, skipCRC, taskVars>> BY <1>4, OtherFrame
  <2>2. CASE Selected' = Selected
    BY <2>1, <2>2 DEF IInv, TaskInv, CountInv, Sole, Name, Data, taskVars
  <2>3. CASE \A e \in Positions : pc[e] = "none"
    <3>1. \A e \in Positions : pos[e] = 0 /\ processed[e] = 0
      BY <2>3 DEF IInv, TaskInv
    <3>2. Selected' \subseteq Positions BY <1>2, <2>1
    <3>3. QED BY <2>1, <2>3, <3>1, <3>2 DEF TaskInv, CountInv, taskVars
  <2>4. QED BY <1>4, <2>2, <2>3, OtherFrame
<1>5. CASE NewProcess BY <1>5 DEF NewProcess, Fresh, TaskInv, Selected
<1>6. QED BY <1>3, <1>4, <1>5 DEF Next

--------------------------------------------------------------------------------
(* The files *)

NothingMisleads == {"mislead", "close", "verify"} \cap Faults = {}

LEMMA OwnFile ==
    ASSUME NothingMisleads, IInv, DiskInv, NEW e \in Positions, Task(e), Sole(e)
    PROVE  /\ FileInv(e)'
           /\ ~skipCRC /\ e \notin held /\ disk[Name(e)] = Data(e) =>
                 disk'[Name(e)] = Data(e)
<1>1. e \in Selected /\ package' = package /\ skipCRC' = skipCRC BY TaskFrame
<1>2. e \in DOMAIN package BY <1>1 DEF Selected, IsFile
<1>3. Header(e) = package[e] BY <1>2, HeaderIsEntry DEF IInv, TypeOK
<1>4. Data(e) \in Seq(Blocks) /\ Len(Data(e)) \in Nat /\ Name(e) \in Names
  BY <1>2, EntriesAreTyped DEF IInv, TypeOK
<1>5. FileInv(e) BY <1>1 DEF DiskInv
<1>6. pos[e] <= Len(Data(e)) BY <1>3, <1>4 DEF IInv, TypeOK, Data
<1>7. Data(e)' = Data(e) /\ Name(e)' = Name(e) BY <1>1 DEF Data, Name
<1>8. SubSeq(Data(e), 1, 0) = <<>> BY <1>4
<1>9. SubSeq(Data(e), 1, Len(Data(e))) = Data(e) BY <1>4
<1>10. \A k \in 0 .. Len(Data(e)) : SubSeq(Data(e), 1, k) = Data(e) => k = Len(Data(e))
  <2>1. \A k \in 0 .. Len(Data(e)) : Len(SubSeq(Data(e), 1, k)) = k BY <1>4
  <2>2. QED BY <2>1, <1>4
<1> USE DEF FileInv, IInv, TypeOK, taskVars
<1>11. CASE Start(e) BY <1>1, <1>5, <1>7, <1>11 DEF Start, Pool!Start
<1>12. CASE Throw(e) BY <1>1, <1>5, <1>7, <1>12 DEF Throw, Pool!Finish
<1>13. CASE Begin(e) BY <1>1, <1>5, <1>7, <1>13 DEF Begin
<1>14. CASE VerifySize(e)
  <2>1. Data(e) # NoFile
    <3>1. Data(e) \in Seq(Blocks \cup {Garbage}) BY <1>4
    <3>2. QED BY <3>1, DiskAssumption
  <2>2. SizeDiffers(e) => disk[Name(e)] # Data(e) BY <2>1 DEF SizeDiffers
  <2>3. ~SizeDiffers(e) => disk[Name(e)] # NoFile /\ Len(disk[Name(e)]) = Len(Data(e))
    BY DEF SizeDiffers
  <2>4. disk' = disk /\ pc'[e] = IF SizeDiffers(e) THEN "decompress" ELSE "crc"
    BY <1>14 DEF VerifySize
  <2>5. QED BY <1>7, <2>2, <2>3, <2>4
<1>15. CASE VerifyHeld(e)
  <2>1. disk' = disk /\ pc'[e] = "decompress" /\ e \in held' BY <1>15 DEF VerifyHeld
  <2>2. QED BY <1>7, <2>1
<1>16. CASE ReadForEver(e) BY <1>1, <1>4, <1>5, <1>7, <1>16 DEF ReadForEver, NeverRead, NothingMisleads
<1>17. CASE UpToDate(e) BY <1>1, <1>5, <1>7, <1>17 DEF UpToDate, Matches, Return, Pool!Finish
<1>18. CASE CRCDiffers(e) BY <1>1, <1>5, <1>7, <1>18 DEF CRCDiffers, Matches
<1>19. CASE DecompressFails(e)
  BY <1>1, <1>5, <1>7, <1>19 DEF DecompressFails, Return, Pool!Finish
<1>20. CASE OpenOutput(e)
  <2>1. disk'[Name(e)] = <<>> BY <1>4, <1>20 DEF OpenOutput
  <2>2. pos'[e] = 0 BY <1>1, <1>20 DEF OpenOutput, TaskInv, CountInv
  <2>3. ~skipCRC /\ e \notin held => disk[Name(e)] # Data(e) BY <1>5, <1>20 DEF OpenOutput
  <2>4. pc'[e] = "write" BY <1>20 DEF OpenOutput
  <2>5. QED BY <1>7, <1>8, <2>1, <2>2, <2>3, <2>4
<1>21. CASE WriteBlock(e)
  <2>1. disk[Name(e)] = SubSeq(Data(e), 1, pos[e]) BY <1>5, <1>21 DEF WriteBlock
  <2>2. pos[e] < Len(Data(e)) /\ pos[e] \in Nat BY <1>3, <1>21 DEF WriteBlock, Data
  <2>3. disk'[Name(e)] = Put(disk[Name(e)], pos[e] + 1, Data(e)[pos[e] + 1])
    BY <1>3, <1>4, <1>21 DEF WriteBlock, NothingMisleads, Data
  <2>4. disk'[Name(e)] = SubSeq(Data(e), 1, pos[e] + 1)
    BY <1>4, <2>1, <2>2, <2>3, PutExtendsPrefix
  <2>5. pos'[e] = pos[e] + 1 /\ pc'[e] = "write" BY <1>21 DEF WriteBlock, NextPos
  <2>6. disk[Name(e)] # Data(e) BY <1>4, <1>10, <2>1, <2>2
  <2>7. QED BY <1>7, <2>4, <2>5, <2>6
<1>22. CASE CloseOutput(e)
  <2>1. disk[Name(e)] = SubSeq(Data(e), 1, pos[e]) BY <1>5, <1>22 DEF CloseOutput
  <2>2. pos[e] = Len(Data(e)) BY <1>3, <1>4, <1>6, <1>22 DEF CloseOutput, Data
  <2>3. disk'[Name(e)] = disk[Name(e)] BY <1>4, <1>22 DEF CloseOutput, Closed, NothingMisleads
  <2>4. disk'[Name(e)] = Data(e) BY <1>9, <2>1, <2>2, <2>3
  <2>5. pc'[e] = "end" BY <1>22 DEF CloseOutput, Return
  <2>6. QED BY <1>7, <2>4, <2>5
<1>23. QED
  BY <1>11, <1>12, <1>13, <1>14, <1>15, <1>16, <1>17, <1>18, <1>19, <1>20, <1>21, <1>22 DEF Task

\* The task of another entry writes at another path.
LEMMA OthersFile ==
    ASSUME IInv, NEW e \in Positions, Task(e), NEW k \in DOMAIN package, k # e, Sole(k)
    PROVE  disk'[Name(k)] = disk[Name(k)]
<1>1. e \in DOMAIN package BY TaskFrame DEF Selected, IsFile
<1>2. Name(e) # Name(k) BY <1>1 DEF Sole
<1>3. Name(k) \in Names BY EntriesAreTyped DEF IInv, TypeOK
<1>4. QED BY <1>2, <1>3, TaskFrame

LEMMA DiskStep ==
    ASSUME NothingMisleads, IInv, DiskInv, [Next]_vars
    PROVE  DiskInv'
<1>1. ASSUME NEW e \in Positions, Task(e) PROVE DiskInv'
  <2> SUFFICES ASSUME NEW k \in Selected, Sole(k) PROVE FileInv(k)'
    BY <1>1, TaskFrame DEF DiskInv, Selected, IsFile, Sole, Name, jobVars
  <2>1. CASE k = e BY <1>1, <2>1, OwnFile
  <2>2. CASE k # e
    <3>1. FileInv(k) BY DEF DiskInv
    <3>2. k \in DOMAIN package BY DEF Selected, IsFile
    <3>3. k \in Positions BY <3>2, EntriesAreTyped DEF IInv, TypeOK
    <3>4. disk'[Name(k)] = disk[Name(k)] BY <1>1, <2>2, <3>2, OthersFile
    <3>5. pc'[k] = pc[k] /\ pos'[k] = pos[k] /\ result'[k] = result[k] /\ (k \in held' <=> k \in held)
      BY <1>1, <2>2, <3>3, TaskFrame
    <3>6. package' = package /\ skipCRC' = skipCRC BY <1>1, TaskFrame
    <3>7. Name(k)' = Name(k) /\ Data(k)' = Data(k) BY <3>6 DEF Name, Data
    <3>8. QED BY <3>1, <3>4, <3>5, <3>6, <3>7 DEF FileInv
  <2>3. QED BY <2>1, <2>2
<1>2. CASE Main \/ Job \/ Kill \/ UNCHANGED vars
  <2>1. UNCHANGED <<package, disk, skipCRC, taskVars>> BY <1>2, OtherFrame
  <2>2. CASE Selected' = Selected
    BY <2>1, <2>2 DEF DiskInv, FileInv, Sole, Name, Data, taskVars
  <2>3. CASE \A e \in Positions : pc[e] = "none"
    <3>1. DOMAIN package \subseteq Positions BY EntriesAreTyped DEF IInv, TypeOK
    <3>2. Selected' \subseteq Positions BY <2>1, <3>1 DEF Selected, IsFile
    <3>3. QED BY <2>1, <2>3, <3>2 DEF DiskInv, FileInv, taskVars
  <2>4. QED BY <1>2, <2>2, <2>3, OtherFrame
<1>3. CASE NewProcess BY <1>3 DEF NewProcess, Fresh, DiskInv, Selected
<1>4. QED BY <1>1, <1>2, <1>3 DEF Next

--------------------------------------------------------------------------------
(* The theorems *)

LEMMA Invariance == Spec => []IInv
<1>1. Init => IInv
  <2>1. ASSUME Init PROVE Opened /\ TaskInv
    BY <2>1 DEF Init, Opened, TaskInv, Selected
  <2>2. QED BY <2>1, TypeInit, JobInit DEF IInv
<1>2. IInv /\ [Next]_vars => IInv'
  <2> SUFFICES ASSUME IInv, [Next]_vars PROVE IInv' OBVIOUS
  <2>1. TypeOK'
    <3>1. CASE UNCHANGED vars
      BY <3>1 DEF IInv, TypeOK, vars, jobVars, taskVars, Selected, IsFile, Name, Header
    <3>2. QED BY <3>1, TypeMain, TypeJob, TypeTask, TypeProcess DEF Next
  <2>2. JobInv'
    <3>1. CASE UNCHANGED vars
      BY <3>1 DEF IInv, JobInv, vars, jobVars, taskVars, Selected, IsFile, Name, IsDone
    <3>2. QED BY <3>1, JobMain, JobJob, JobTask, JobProcess DEF Next
  <2>3. QED BY <2>1, <2>2, OpenedStep, CountStep DEF IInv
<1>3. QED BY <1>1, <1>2, PTL DEF Spec

\* Every variable keeps its type; no task writes past the end of its file.
THEOREM TypeCorrect == Spec => []TypeOK
<1>1. IInv => TypeOK BY DEF IInv
<1>2. QED BY <1>1, Invariance, PTL

\* A job that IsDone calls done has no task at work, as RunDecompressionJob reads
\* every future before it sets the status.
THEOREM DoneIsQuiet == Spec => []DoneMeansQuiet
<1>1. IInv => DoneMeansQuiet BY DEF IInv, TypeOK, JobInv, DoneMeansQuiet
<1>2. QED BY <1>1, Invariance, PTL

\* No file adds more to the bytes processed than it added to the bytes to process.
THEOREM ProgressIsBounded == Spec => []ProgressBounded
<1>1. IInv => ProgressBounded
  <2> SUFFICES ASSUME IInv, NEW e \in Selected, Sole(e)
               PROVE  processed[e] <= Len(Data(e))
    BY DEF ProgressBounded
  <2>1. e \in DOMAIN package /\ e \in Positions /\ Len(Data(e)) \in Nat
    BY EntriesAreTyped DEF IInv, TypeOK, Selected, IsFile
  <2>2. Header(e) = package[e] BY <2>1, HeaderIsEntry DEF IInv, TypeOK
  <2>3. CountInv(e) BY DEF IInv, TaskInv
  <2>4. pos[e] \in Nat /\ processed[e] \in Nat /\ pos[e] <= Len(Data(e))
    BY <2>1, <2>2 DEF IInv, TypeOK, Data
  <2>5. QED BY <2>1, <2>3, <2>4 DEF CountInv
<1>2. QED BY <1>1, Invariance, PTL

LEMMA FileInvariance ==
    ASSUME NothingMisleads
    PROVE  Spec => []DiskInv
<1>1. Init => DiskInv BY DEF Init, DiskInv, Selected
<1>2. IInv /\ DiskInv /\ [Next]_vars => DiskInv' BY DiskStep
<1>3. QED BY <1>1, <1>2, Invariance, PTL DEF Spec

\* If reads do not mislead and closing loses nothing, a job without errors leaves
\* every file as it is in the archive.
THEOREM CleanJobsSync ==
    ASSUME NothingMisleads
    PROVE  Spec => []CleanMeansSynced
<1>1. IInv /\ DiskInv => CleanMeansSynced
  <2> SUFFICES ASSUME IInv, DiskInv, job \in {"report", "destroy", "ended"}, errors = 0,
                      NEW e \in Selected, Sole(e)
               PROVE  disk[Name(e)] = Data(e)
    BY DEF CleanMeansSynced
  <2>1. e \in Positions BY EntriesAreTyped DEF IInv, TypeOK, Selected, IsFile
  <2>2. status[e] = "done" /\ result[e] \notin {"kError", "threw"} BY DEF IInv, JobInv
  <2>3. pc[e] = "end" BY <2>1, <2>2 DEF IInv, TypeOK
  <2>4. result[e] \in {"kAlreadyUpToDate", "kExtracted"}
    BY <2>1, <2>2, <2>3 DEF IInv, TypeOK, TaskInv, CountInv
  <2>5. QED BY <2>3, <2>4 DEF DiskInv, FileInv
<1>2. QED BY <1>1, Invariance, FileInvariance, PTL

\* Under the same assumption, no step of an update touches a file that is right.
THEOREM UpdatesSpareGoodFiles ==
    ASSUME NothingMisleads
    PROVE  Spec => GoodFilesSurvive
<1>1. IInv /\ DiskInv /\ [Next]_vars =>
         [~skipCRC =>
             \A e \in DOMAIN package \ held :
                IsFile(e) /\ Sole(e) /\ disk[Name(e)] = Data(e) => disk'[Name(e)] = Data(e)]_vars
  <2> SUFFICES ASSUME IInv, DiskInv, [Next]_vars, ~skipCRC, NEW e \in DOMAIN package \ held,
                      Sole(e), disk[Name(e)] = Data(e)
               PROVE  disk'[Name(e)] = Data(e)
    OBVIOUS
  <2>1. ASSUME NEW k \in Positions, Task(k) PROVE disk'[Name(e)] = Data(e)
    <3>1. CASE k = e BY <2>1, <3>1, OwnFile
    <3>2. CASE k # e BY <2>1, <3>2, OthersFile
    <3>3. QED BY <3>1, <3>2
  <2>2. CASE Main \/ Job \/ Kill \/ UNCHANGED vars BY <2>2, OtherFrame
  <2>3. CASE NewProcess BY <2>3 DEF NewProcess
  <2>4. QED BY <2>1, <2>2, <2>3 DEF Next
<1>2. QED BY <1>1, Invariance, FileInvariance, PTL DEF Spec, GoodFilesSurvive

\* Under the same assumption, a task whose file no other entry names hangs only when
\* the file has CounterLimit bytes or more.
THEOREM HangsAreKnown ==
    ASSUME NothingMisleads
    PROVE  Spec => []OnlyKnownHangs
<1>1. IInv /\ DiskInv => OnlyKnownHangs
  <2> SUFFICES ASSUME IInv, DiskInv, NEW e \in Positions, pc[e] = "hung", Sole(e)
               PROVE  Len(Data(e)) >= CounterLimit
    BY DEF OnlyKnownHangs
  <2>1. e \in Selected BY DEF IInv, TypeOK
  <2>2. QED BY <2>1 DEF DiskInv, FileInv
<1>2. QED BY <1>1, Invariance, FileInvariance, PTL
================================================================================
