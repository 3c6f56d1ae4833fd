--------------------------- MODULE ThreadPoolProofs ---------------------------
(***************************************************************************)
(* Proofs about ThreadPool for any set of tasks and any set of workers     *)
(* that is finite and not empty.                                           *)
(***************************************************************************)
EXTENDS ThreadPool, FiniteSetTheorems, TLAPS

\* No task is in the queue twice, and no two workers run the same one.
Distinct ==
    /\ \A i, j \in 1 .. Len(tasks) : tasks[i] = tasks[j] => i = j
    /\ \A w, v \in Workers : running[w] = running[v] /\ running[w] \in Tasks => w = v

\* An enqueued task is at one place: in the queue, with a worker, or done.
OnePlace ==
    /\ enqueued = Queued \cup Running \cup ready
    /\ Queued \cap Running = {}
    /\ Queued \cap ready = {}
    /\ Running \cap ready = {}

\* stop is set by the destructor, workers leave only after that and only when the
\* queue is empty, and the destructor returns when all have left.
Stopping ==
    /\ stop <=> job \in {"notifyAll", "join", "gone"}
    /\ \A w \in Workers : workers[w] = "exited" => stop /\ tasks = <<>>
    /\ job = "gone" => \A w \in Workers : workers[w] = "exited"

IInv == TypeOK /\ Distinct /\ OnePlace /\ Stopping

--------------------------------------------------------------------------------
LEMMA QueuedAppend ==
    ASSUME IInv, NEW t \in Tasks \ enqueued, tasks' = Append(tasks, t)
    PROVE  /\ tasks' \in Seq(Tasks)
           /\ Queued' = Queued \cup {t}
           /\ \A i, j \in 1 .. Len(tasks') : tasks'[i] = tasks'[j] => i = j
<1> USE DEF IInv, TypeOK
<1>1. tasks' \in Seq(Tasks) /\ Len(tasks') = Len(tasks) + 1 OBVIOUS
<1>2. \A i \in 1 .. Len(tasks) : tasks'[i] = tasks[i] OBVIOUS
<1>3. tasks'[Len(tasks) + 1] = t OBVIOUS
<1>4. Len(tasks) \in Nat OBVIOUS
<1>5. t \notin Queued BY DEF OnePlace
<1>6. Queued' = Queued \cup {t} BY <1>1, <1>2, <1>3, <1>4 DEF Queued
<1>7. \A i \in 1 .. Len(tasks) : tasks[i] # t BY <1>5 DEF Queued
<1>8. QED BY <1>1, <1>2, <1>3, <1>4, <1>6, <1>7 DEF Distinct

LEMMA QueuedTail ==
    ASSUME IInv, tasks # <<>>, tasks' = Tail(tasks)
    PROVE  /\ tasks' \in Seq(Tasks)
           /\ Head(tasks) \in Queued
           /\ Queued' = Queued \ {Head(tasks)}
           /\ \A i, j \in 1 .. Len(tasks') : tasks'[i] = tasks'[j] => i = j
<1> USE DEF IInv, TypeOK
<1>1. tasks' \in Seq(Tasks) /\ Len(tasks') = Len(tasks) - 1 OBVIOUS
<1>2. \A i \in 1 .. Len(tasks') : tasks'[i] = tasks[i + 1] OBVIOUS
<1>3. Len(tasks) \in Nat /\ Len(tasks) > 0 /\ Head(tasks) = tasks[1] OBVIOUS
<1>4. Head(tasks) \in Queued BY <1>3 DEF Queued
<1>5. \A i, j \in 1 .. Len(tasks') : tasks'[i] = tasks'[j] => i = j
  BY <1>1, <1>2, <1>3 DEF Distinct
<1>6. \A i \in 1 .. Len(tasks') : tasks'[i] \in Queued \ {Head(tasks)}
  BY <1>1, <1>2, <1>3 DEF Queued, Distinct
<1>7. ASSUME NEW i \in 1 .. Len(tasks), tasks[i] # Head(tasks)
      PROVE  \E j \in 1 .. Len(tasks') : tasks'[j] = tasks[i]
  <2>1. i - 1 \in 1 .. Len(tasks') BY <1>1, <1>3, <1>7
  <2>2. tasks'[i - 1] = tasks[i] BY <1>2, <2>1
  <2>3. QED BY <2>1, <2>2
<1>8. Queued' = Queued \ {Head(tasks)}
  <2>1. Queued' \subseteq Queued \ {Head(tasks)} BY <1>6 DEF Queued
  <2>2. ASSUME NEW x \in Queued \ {Head(tasks)} PROVE x \in Queued'
    <3>1. PICK i \in 1 .. Len(tasks) : tasks[i] = x BY DEF Queued
    <3>2. PICK j \in 1 .. Len(tasks') : tasks'[j] = x BY <1>7, <3>1
    <3>3. QED BY <3>2 DEF Queued
  <2>3. QED BY <2>1, <2>2
<1>9. QED BY <1>1, <1>4, <1>5, <1>8

LEMMA TasksUntouched ==
    ASSUME IInv, UNCHANGED <<tasks, running, ready, enqueued>>
    PROVE  Distinct' /\ OnePlace'
BY DEF IInv, Distinct, OnePlace, Queued, Running

LEMMA InitInv == Init => IInv
<1> SUFFICES ASSUME Init PROVE IInv OBVIOUS
<1> USE DEF Init
<1>1. Queued = {} /\ Running = {} BY DEF Queued, Running
<1>2. TypeOK
  <2>1. tasks \in Seq(Tasks) /\ results \in Seq(Tasks) OBVIOUS
  <2>2. \A w \in Workers : workers[w] = "run" <=> running[w] \in Tasks
    BY TaskAssumption
  <2>3. QED BY <2>1, <2>2 DEF TypeOK
<1>3. Distinct BY TaskAssumption DEF Distinct
<1>4. OnePlace BY <1>1 DEF OnePlace
<1>5. Stopping BY DEF Stopping
<1>6. QED BY <1>2, <1>3, <1>4, <1>5 DEF IInv

LEMMA NextInv == IInv /\ [Next]_vars => IInv'
<1> SUFFICES ASSUME IInv, [Next]_vars PROVE IInv' OBVIOUS
<1> USE DEF IInv, TypeOK
<1>1. ASSUME NEW w \in Workers, Wait(w) PROVE IInv'
  BY <1>1 DEF Wait, MustWait, Distinct, OnePlace, Stopping, Queued, Running
<1>2. ASSUME NEW w \in Workers, Exit(w) PROVE IInv'
  BY <1>2 DEF Exit, MayExit, Distinct, OnePlace, Stopping, Queued, Running
<1>3. ASSUME NEW w \in Workers, Take(w) PROVE IInv'
  <2> DEFINE t == Head(tasks)
  <2>1. /\ tasks' \in Seq(Tasks) /\ t \in Queued /\ Queued' = Queued \ {t}
        /\ \A i, j \in 1 .. Len(tasks') : tasks'[i] = tasks'[j] => i = j
    BY <1>3, QueuedTail DEF Take, Popped
  <2>2. /\ workers[w] = "test" /\ running[w] = NoTask /\ t \in Tasks /\ t # NoTask
        /\ running' = [running EXCEPT ![w] = t]
        /\ workers' = [workers EXCEPT ![w] = "run"]
        /\ tasks # <<>>
        /\ UNCHANGED <<stop, ready, results, enqueued, job>>
    <3>1. t \in Tasks BY <2>1 DEF Queued
    <3>2. QED BY <1>3, <3>1, TaskAssumption DEF Take
  <2> HIDE DEF t
  <2>3. Running' = Running \cup {t} BY <2>2 DEF Running
  <2>4. t \notin Running BY <2>1 DEF OnePlace
  <2>5. TypeOK' BY <2>1, <2>2
  <2>6. Distinct' BY <2>1, <2>2, <2>4 DEF Distinct, Running
  <2>7. OnePlace' BY <2>1, <2>2, <2>3 DEF OnePlace
  <2>8. Stopping' BY <2>2 DEF Stopping
  <2>9. QED BY <2>5, <2>6, <2>7, <2>8
<1>4. ASSUME NEW w \in Workers, Finish(w) PROVE IInv'
  <2>1. /\ running[w] \in Tasks /\ running[w] \in Running
        /\ running' = [running EXCEPT ![w] = NoTask]
        /\ ready' = ready \cup {running[w]}
    BY <1>4, TaskAssumption DEF Finish, Released, Running
  <2>2. Running' = Running \ {running[w]}
    BY <2>1, TaskAssumption DEF Running, Distinct
  <2>3. TypeOK' BY <1>4, <2>1, TaskAssumption DEF Finish
  <2>4. Distinct' BY <1>4, <2>1, TaskAssumption DEF Finish, Distinct
  <2>5. OnePlace'
    <3>1. UNCHANGED enqueued /\ Queued' = Queued BY <1>4 DEF Finish, Queued
    <3> DEFINE r == running[w]
    <3>2. r \in Running /\ Running' = Running \ {r} /\ ready' = ready \cup {r}
      BY <2>1, <2>2
    <3>3. OnePlace OBVIOUS
    <3> HIDE DEF r, IInv, TypeOK
    <3>4. QED BY <3>1, <3>2, <3>3 DEF OnePlace
  <2>6. Stopping' BY <1>4 DEF Finish, Stopping
  <2>7. QED BY <2>3, <2>4, <2>5, <2>6
<1>5. ASSUME NEW w \in Workers, SpuriousWakeup(w) PROVE IInv'
  <2>1. Distinct' /\ OnePlace' BY <1>5, TasksUntouched DEF SpuriousWakeup
  <2>2. TypeOK' BY <1>5 DEF SpuriousWakeup
  <2>3. Stopping' BY <1>5 DEF SpuriousWakeup, Stopping
  <2>4. QED BY <2>1, <2>2, <2>3
<1>6. ASSUME NEW t \in Tasks, Enqueue(t) PROVE IInv'
  <2>1. /\ tasks' \in Seq(Tasks) /\ Queued' = Queued \cup {t}
        /\ \A i, j \in 1 .. Len(tasks') : tasks'[i] = tasks'[j] => i = j
    BY <1>6, QueuedAppend DEF Enqueue
  <2>2. /\ ~stop /\ job' = "notify" /\ t \notin enqueued
        /\ enqueued' = enqueued \cup {t} /\ results' \in Seq(Tasks)
        /\ UNCHANGED <<stop, workers, running, ready>>
    BY <1>6 DEF Enqueue
  <2>3. TypeOK' BY <2>1, <2>2
  <2>4. Distinct' BY <2>1, <2>2 DEF Distinct
  <2>5. OnePlace' BY <2>1, <2>2 DEF OnePlace, Running
  <2>6. Stopping' BY <1>6, <2>2 DEF Enqueue, Stopping
  <2>7. QED BY <2>3, <2>4, <2>5, <2>6
<1>7. CASE NotifyOne
  <2>1. /\ job = "notify" /\ job' = "enqueue"
        /\ UNCHANGED <<tasks, stop, running, ready, results, enqueued>>
        /\ \/ Waiting = {} /\ UNCHANGED workers
           \/ \E w \in Waiting : workers' = [workers EXCEPT ![w] = "test"]
    BY <1>7 DEF NotifyOne, ToNotify
  <2>2. (TypeOK /\ Stopping)' BY <2>1 DEF Stopping, Waiting
  <2>3. Distinct' /\ OnePlace' BY <2>1, TasksUntouched
  <2>4. QED BY <2>2, <2>3
<1>8. CASE EnqueueDone
  <2>1. Distinct' /\ OnePlace' BY <1>8, TasksUntouched DEF EnqueueDone
  <2>2. TypeOK' BY <1>8 DEF EnqueueDone
  <2>3. Stopping' BY <1>8 DEF EnqueueDone, Stopping
  <2>4. QED BY <2>1, <2>2, <2>3
<1>9. CASE Collect
  <2>1. Distinct' /\ OnePlace' BY <1>9, TasksUntouched DEF Collect
  <2>2. TypeOK' BY <1>9 DEF Collect
  <2>3. Stopping' BY <1>9 DEF Collect, Stopping
  <2>4. QED BY <2>1, <2>2, <2>3
<1>10. CASE Stop
  <2>1. Distinct' /\ OnePlace' BY <1>10, TasksUntouched DEF Stop
  <2>2. TypeOK' BY <1>10 DEF Stop
  <2>3. Stopping' BY <1>10 DEF Stop, Stopping
  <2>4. QED BY <2>1, <2>2, <2>3
<1>11. CASE NotifyAll
  <2>1. Distinct' /\ OnePlace' BY <1>11, TasksUntouched DEF NotifyAll
  <2>2. TypeOK' BY <1>11 DEF NotifyAll, Waiting
  <2>3. Stopping' BY <1>11 DEF NotifyAll, Stopping, Waiting
  <2>4. QED BY <2>1, <2>2, <2>3
<1>12. CASE Join
  <2>1. Distinct' /\ OnePlace' BY <1>12, TasksUntouched DEF Join
  <2>2. TypeOK' BY <1>12 DEF Join
  <2>3. Stopping' BY <1>12 DEF Join, Stopping
  <2>4. QED BY <2>1, <2>2, <2>3
<1>13. CASE UNCHANGED vars
  <2>1. Distinct' /\ OnePlace' BY <1>13, TasksUntouched DEF vars
  <2>2. QED BY <1>13, <2>1 DEF vars, Stopping
<1>14. QED
  BY <1>1, <1>2, <1>3, <1>4, <1>5, <1>6, <1>7, <1>8, <1>9, <1>10, <1>11, <1>12, <1>13
  DEF Next, Worker, Job, Terminated

LEMMA Invariance == Spec => []IInv
BY InitInv, NextInv, PTL DEF Spec

\* Every variable keeps its type, and a worker holds a task exactly while it runs.
THEOREM TypeCorrect == Spec => []TypeOK
<1>1. IInv => TypeOK BY DEF IInv
<1>2. QED BY <1>1, Invariance, PTL

--------------------------------------------------------------------------------
(* Awake workers are enough for the queue. *)

LEMMA AwakeIsFinite == IsFiniteSet(Awake) /\ Cardinality(Awake) \in Nat
<1>1. Awake \in SUBSET Workers BY DEF Awake
<1>2. IsFiniteSet(Awake) BY <1>1, WorkerAssumption, FS_Subset
<1>3. QED BY <1>2, FS_CardinalityType

\* A worker that wakes up is one more.
LEMMA OneMoreAwake ==
    ASSUME IInv, NEW w \in Workers, workers[w] # "test",
           workers' = [workers EXCEPT ![w] = "test"]
    PROVE  Cardinality(Awake)' = Cardinality(Awake) + 1
<1>1. Awake' = Awake \cup {w} BY DEF Awake, IInv, TypeOK
<1>2. w \notin Awake BY DEF Awake
<1>3. QED BY <1>1, <1>2, AwakeIsFinite, FS_AddElement

LEMMA NextAwake == IInv /\ NoIdleWorker /\ [Next]_vars => NoIdleWorker'
<1> SUFFICES ASSUME IInv, NoIdleWorker, [Next]_vars, Waiting' # {}
             PROVE  Len(tasks') <= Cardinality(Awake)' + (IF job' = "notify" THEN 1 ELSE 0)
  BY DEF NoIdleWorker
<1> USE DEF IInv, TypeOK
<1>1. Cardinality(Awake) \in Nat /\ Cardinality(Awake)' \in Nat /\ Len(tasks) \in Nat
  <2>1. Awake' \in SUBSET Workers BY DEF Awake
  <2>2. IsFiniteSet(Awake') BY <2>1, WorkerAssumption, FS_Subset
  <2>3. QED BY <2>2, AwakeIsFinite, FS_CardinalityType
<1>2. ASSUME NEW w \in Workers, Wait(w) \/ Exit(w)
      PROVE  Len(tasks') <= Cardinality(Awake)' + (IF job' = "notify" THEN 1 ELSE 0)
  BY <1>1, <1>2 DEF Wait, Exit, MustWait, MayExit
<1>3. ASSUME NEW w \in Workers, Take(w)
      PROVE  Len(tasks') <= Cardinality(Awake)' + (IF job' = "notify" THEN 1 ELSE 0)
  <2>1. w \in Awake /\ Awake' = Awake \ {w} /\ UNCHANGED job
    BY <1>3 DEF Take, Awake
  <2>2. Cardinality(Awake)' = Cardinality(Awake) - 1
    BY <2>1, AwakeIsFinite, FS_RemoveElement
  <2>3. Waiting # {} BY <1>3 DEF Take, Waiting
  <2>4. Len(tasks') = Len(tasks) - 1 BY <1>3 DEF Take, Popped
  <2>5. QED BY <1>1, <2>1, <2>2, <2>3, <2>4 DEF NoIdleWorker
<1>4. ASSUME NEW w \in Workers, Finish(w) \/ SpuriousWakeup(w)
      PROVE  Len(tasks') <= Cardinality(Awake)' + (IF job' = "notify" THEN 1 ELSE 0)
  <2>1. workers[w] # "test" /\ workers' = [workers EXCEPT ![w] = "test"] /\ UNCHANGED <<tasks, job>>
    BY <1>4 DEF Finish, SpuriousWakeup
  <2>2. Waiting # {} BY <2>1 DEF Waiting
  <2>3. Cardinality(Awake)' = Cardinality(Awake) + 1 BY <2>1, OneMoreAwake
  <2>4. Len(tasks) <= Cardinality(Awake) + (IF job = "notify" THEN 1 ELSE 0)
    BY <2>2 DEF NoIdleWorker
  <2>5. QED BY <1>1, <2>1, <2>3, <2>4
<1>5. ASSUME NEW t \in Tasks, Enqueue(t)
      PROVE  Len(tasks') <= Cardinality(Awake)' + (IF job' = "notify" THEN 1 ELSE 0)
  <2>1. Len(tasks') = Len(tasks) + 1 /\ job = "enqueue" /\ job' = "notify" /\ UNCHANGED workers
    BY <1>5 DEF Enqueue
  <2>2. QED BY <1>1, <2>1 DEF NoIdleWorker, Waiting, Awake
<1>6. CASE NotifyOne
  <2>1. /\ job = "notify" /\ job' = "enqueue" /\ UNCHANGED tasks
        /\ \/ Waiting = {} /\ UNCHANGED workers
           \/ \E w \in Waiting : workers' = [workers EXCEPT ![w] = "test"]
    BY <1>6 DEF NotifyOne, ToNotify
  <2>2. PICK w \in Waiting : workers' = [workers EXCEPT ![w] = "test"]
    BY <2>1 DEF Waiting
  <2>3. w \in Workers /\ workers[w] # "test" BY DEF Waiting
  <2>4. Cardinality(Awake)' = Cardinality(Awake) + 1 BY <2>2, <2>3, OneMoreAwake
  <2>5. Len(tasks) <= Cardinality(Awake) + 1
    BY <2>1, <2>2 DEF NoIdleWorker
  <2>6. QED BY <1>1, <2>1, <2>4, <2>5
<1>7. CASE NotifyAll BY <1>7 DEF NotifyAll, Waiting
<1>8. CASE EnqueueDone \/ Collect \/ Stop \/ Join \/ UNCHANGED vars
  <2>1. UNCHANGED <<tasks, workers>> /\ (job' = "notify" <=> job = "notify")
    BY <1>8 DEF EnqueueDone, Collect, Stop, Join, vars
  <2>2. QED BY <1>1, <2>1 DEF NoIdleWorker, Waiting, Awake
<1>9. QED
  BY <1>2, <1>3, <1>4, <1>5, <1>6, <1>7, <1>8 DEF Next, Worker, Job, Terminated

\* No worker sleeps while the queue has more tasks in it than there are workers on
\* their way to it, although the notifications are sent outside of the critical
\* section: in particular a queued task is never left to workers that all sleep.
THEOREM WorkersAreAwake == Spec => []NoIdleWorker
<1>1. Init => NoIdleWorker BY DEF Init, NoIdleWorker, Waiting
<1>2. QED BY <1>1, NextAwake, Invariance, PTL DEF Spec

\* What DestructorDrains is about: when the destructor has returned, all the enqueued
\* tasks were run, so nothing a task refers to goes away under it.
DrainedWhenGone == job = "gone" => enqueued \subseteq ready

\* The destructor returns only when every enqueued task was run.
THEOREM DestructorDrains == Spec => []DrainedWhenGone
<1>1. IInv => DrainedWhenGone
  <2> SUFFICES ASSUME IInv, job = "gone" PROVE enqueued \subseteq ready
    BY DEF DrainedWhenGone
  <2>1. \A w \in Workers : workers[w] = "exited" BY DEF IInv, Stopping
  <2>2. tasks = <<>> BY <2>1, WorkerAssumption DEF IInv, Stopping
  <2>3. Queued = {} BY <2>2 DEF Queued
  <2>4. Running = {} BY <2>1 DEF IInv, TypeOK, Running
  <2>5. QED BY <2>3, <2>4 DEF IInv, OnePlace
<1>2. QED BY <1>1, Invariance, PTL

--------------------------------------------------------------------------------
(* The pool implements TaskRunner. *)

StatusOf(t) ==
    IF t \in Running THEN "running"
    ELSE IF t \in Queued THEN "queued"
    ELSE IF t \in ready THEN "done"
    ELSE IF t \in enqueued THEN "lost" ELSE "new"
Status == [t \in Tasks |-> StatusOf(t)]

\* A step that moves one task and no other maps to a change of its status.
LEMMA OneMoved ==
    ASSUME NEW t \in Tasks, NEW s, StatusOf(t)' = s,
           \A u \in Tasks \ {t} : StatusOf(u)' = StatusOf(u)
    PROVE  Status' = [Status EXCEPT ![t] = s]
BY DEF Status

\* A step that moves no task and does not finish the destructor is a stutter.
LEMMA NothingMoved ==
    ASSUME UNCHANGED <<tasks, running, ready, enqueued>>,
           (job' = "gone") = (job = "gone")
    PROVE  UNCHANGED Runner!runnerVars
<1>1. Queued' = Queued /\ Running' = Running BY DEF Queued, Running
<1>2. Status' = Status BY <1>1 DEF Status, StatusOf
<1>3. QED BY <1>2 DEF Status, StatusOf, Runner!runnerVars

LEMMA StepMapped == IInv /\ [Next]_vars => [Runner!Next]_(Runner!runnerVars)
<1> SUFFICES ASSUME IInv, [Next]_vars PROVE [Runner!Next]_(Runner!runnerVars)
  OBVIOUS
<1> USE DEF IInv
<1>1. ASSUME NEW w \in Workers, Wait(w) \/ Exit(w) \/ SpuriousWakeup(w)
      PROVE  UNCHANGED Runner!runnerVars
  BY <1>1, NothingMoved DEF Wait, Exit, SpuriousWakeup
<1>2. CASE NotifyOne \/ EnqueueDone \/ Collect \/ Stop \/ NotifyAll \/ UNCHANGED vars
  BY <1>2, NothingMoved DEF NotifyOne, EnqueueDone, Collect, Stop, NotifyAll, vars
<1>3. ASSUME NEW w \in Workers, Take(w) PROVE Runner!Next
  <2>1. PICK t \in Tasks : t \in Queued /\ Queued' = Queued \ {t} /\ t = Head(tasks)
    <3>1. Head(tasks) \in Queued /\ Queued' = Queued \ {Head(tasks)}
      BY <1>3, QueuedTail DEF Take, Popped
    <3>2. Head(tasks) \in Tasks BY <3>1 DEF Queued, TypeOK
    <3>3. QED BY <3>1, <3>2
  <2>2. UNCHANGED <<ready, enqueued, job>> BY <1>3 DEF Take
  <2>3. running' = [running EXCEPT ![w] = t] /\ running[w] = NoTask
    BY <1>3, <2>1 DEF Take, TypeOK
  <2>4. Running' = Running \cup {t} BY <2>3, TaskAssumption DEF Running, TypeOK
  <2>5. t \notin ready /\ t \notin Running BY <2>1 DEF OnePlace
  <2>6. StatusOf(t) = "queued" /\ StatusOf(t)' = "running"
    BY <2>1, <2>2, <2>4, <2>5 DEF StatusOf
  <2>7. \A u \in Tasks \ {t} : StatusOf(u)' = StatusOf(u)
    BY <2>1, <2>2, <2>4 DEF StatusOf
  <2>8. Status' = [Status EXCEPT ![t] = "running"] BY <2>6, <2>7, OneMoved
  <2>9. Status[t] = "queued" BY <2>6 DEF Status
  <2>10. Runner!Start(t) BY <2>2, <2>8, <2>9 DEF Runner!Start, Status, StatusOf
  <2>11. QED BY <2>10 DEF Runner!Next
<1>4. ASSUME NEW w \in Workers, Finish(w) PROVE Runner!Next
  <2>1. PICK t \in Tasks :
        /\ t = running[w] /\ t \in Running
        /\ running' = [running EXCEPT ![w] = NoTask]
        /\ ready' = ready \cup {t}
        /\ UNCHANGED <<tasks, enqueued, job>>
    BY <1>4, TaskAssumption DEF Finish, Released, Running, TypeOK
  <2>2. Running' = Running \ {t} /\ Queued' = Queued
    BY <2>1, TaskAssumption DEF Running, Queued, Distinct, TypeOK
  <2>3. t \notin ready /\ t \notin Queued BY <2>1 DEF OnePlace
  <2>4. StatusOf(t) = "running" /\ StatusOf(t)' = "done"
    BY <2>1, <2>2, <2>3 DEF StatusOf
  <2>5. \A u \in Tasks \ {t} : StatusOf(u)' = StatusOf(u)
    BY <2>1, <2>2 DEF StatusOf
  <2>6. Status' = [Status EXCEPT ![t] = "done"] BY <2>4, <2>5, OneMoved
  <2>7. Status[t] = "running" BY <2>4 DEF Status
  <2>8. Runner!Finish(t) BY <2>1, <2>6, <2>7 DEF Runner!Finish, Status, StatusOf
  <2>9. QED BY <2>8 DEF Runner!Next
<1>5. ASSUME NEW t \in Tasks, Enqueue(t) PROVE Runner!Next
  <2>1. Queued' = Queued \cup {t} BY <1>5, QueuedAppend DEF Enqueue
  <2>2. /\ t \notin enqueued /\ enqueued' = enqueued \cup {t}
        /\ UNCHANGED <<running, ready>> /\ job # "gone" /\ job' # "gone"
    BY <1>5 DEF Enqueue
  <2>3. Running' = Running BY <2>2 DEF Running
  <2>4. t \notin ready /\ t \notin Running /\ t \notin Queued BY <2>2 DEF OnePlace
  <2>5. StatusOf(t) = "new" /\ StatusOf(t)' = "queued"
    BY <2>1, <2>2, <2>3, <2>4 DEF StatusOf
  <2>6. \A u \in Tasks \ {t} : StatusOf(u)' = StatusOf(u)
    BY <2>1, <2>2, <2>3 DEF StatusOf
  <2>7. Status' = [Status EXCEPT ![t] = "queued"] /\ Status[t] = "new"
    BY <2>5, <2>6, OneMoved DEF Status
  <2>8. Runner!Submit(t) BY <2>2, <2>7 DEF Runner!Submit, Status, StatusOf
  <2>9. QED BY <2>8 DEF Runner!Next
<1>6. CASE Join
  <2>1. /\ job = "join" /\ job' = "gone"
        /\ UNCHANGED <<tasks, running, ready, enqueued>>
        /\ \A w \in Workers : workers[w] = "exited"
    BY <1>6 DEF Join
  <2>2. Queued' = Queued /\ Running' = Running BY <2>1 DEF Queued, Running
  <2>3. tasks = <<>> BY <2>1, WorkerAssumption DEF Stopping
  <2>4. Queued = {} /\ Running = {} BY <2>1, <2>3 DEF Queued, Running, TypeOK
  <2>5. enqueued = ready BY <2>4 DEF OnePlace
  <2>6. \A t \in Tasks : StatusOf(t) \in {"new", "done"} BY <2>4, <2>5 DEF StatusOf
  <2>7. \A t \in Tasks : Status[t] \in {"new", "done"} BY <2>6 DEF Status
  <2>8. Status' = Status BY <2>1, <2>2 DEF Status, StatusOf
  <2>9. Runner!Destroy BY <2>1, <2>7, <2>8 DEF Runner!Destroy, Status, StatusOf
  <2>10. QED BY <2>9 DEF Runner!Next
<1>7. QED
  BY <1>1, <1>2, <1>3, <1>4, <1>5, <1>6 DEF Next, Worker, Job, Terminated

\* No task is lost or run twice, and the pool outlives the tasks it accepted:
\* every step of the pool is a step of TaskRunner or a stutter.
THEOREM PoolImplementsRunner == Spec => RunsEachTaskOnce
<1>1. Init => Runner!Init
  <2> SUFFICES ASSUME Init PROVE Runner!Init OBVIOUS
  <2>1. Queued = {} /\ Running = {} BY DEF Init, Queued, Running
  <2>2. Status = [t \in Tasks |-> "new"] BY <2>1 DEF Init, Status, StatusOf
  <2>3. QED BY <2>2 DEF Init, Runner!Init, Status, StatusOf
<1>2. QED
  BY <1>1, StepMapped, Invariance, PTL DEF Spec, Runner!Spec, RunsEachTaskOnce
================================================================================
