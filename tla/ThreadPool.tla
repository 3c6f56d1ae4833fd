------------------------------ MODULE ThreadPool ------------------------------
(***************************************************************************)
(* The thread pool of common/thread_pool.hpp and the way the jobs of       *)
(* ZipJob.cpp use it: the job's thread enqueues a task per file, waits for *)
(* the futures in the order it got them, and destroys the pool.            *)
(*                                                                         *)
(* Every access to the queue and to stop is inside a critical section of   *)
(* queue_mutex, each of which is one step here.  A wait on the condition   *)
(* variable releases the mutex and joins the wait set in the same step; a  *)
(* worker that is woken, by a notification or for no reason at all, takes  *)
(* the mutex and tests the predicate again.  The notifications are outside *)
(* the critical sections and are steps of their own.                       *)
(***************************************************************************)
EXTENDS Naturals, Sequences, FiniteSets

CONSTANTS
    Workers,    \* the threads of the pool
    Tasks,      \* the tasks the job may enqueue
    NoTask      \* the worker runs no task

ASSUME WorkerAssumption == Workers # {} /\ IsFiniteSet(Workers)
ASSUME TaskAssumption == NoTask \notin Tasks

VARIABLES
    tasks,      \* the queue
    stop,       \* set by the destructor
    workers,    \* workers[w] : "test", "waiting", "run" or "exited"
    running,    \* running[w] : the task w has taken from the queue
    ready,      \* the tasks whose futures have a result
    results,    \* the futures the job has not read yet, in the order of enqueue
    enqueued,   \* the tasks that were enqueued
    job         \* "enqueue", "notify", "collect", "notifyAll", "join" or "gone"

vars == <<tasks, stop, workers, running, ready, results, enqueued, job>>

Waiting == {w \in Workers : workers[w] = "waiting"}
Queued == {tasks[i] : i \in 1 .. Len(tasks)}
Running == {running[w] : w \in Workers} \ {NoTask}

--------------------------------------------------------------------------------
\* The constructor has started the threads; each comes to the test first.
Init ==
    /\ tasks = <<>>
    /\ stop = FALSE
    /\ workers = [w \in Workers |-> "test"]
    /\ running = [w \in Workers |-> NoTask]
    /\ ready = {}
    /\ results = <<>>
    /\ enqueued = {}
    /\ job = "enqueue"

(* The loop of a worker *)

\* Operators named Bug... are the definition that follows with one mistake in it;
\* no action uses them.  They show which property notices the mistake.

\* Mistake: stop is not part of the condition.
BugMustWait == tasks = <<>>

MustWait == ~(stop \/ tasks # <<>>)

Wait(w) ==
    /\ workers[w] = "test"
    /\ MustWait
    /\ workers' = [workers EXCEPT ![w] = "waiting"]
    /\ UNCHANGED <<tasks, stop, running, ready, results, enqueued, job>>

MayExit == stop /\ tasks = <<>>

Exit(w) ==
    /\ workers[w] = "test"
    /\ MayExit
    /\ workers' = [workers EXCEPT ![w] = "exited"]
    /\ UNCHANGED <<tasks, stop, running, ready, results, enqueued, job>>

\* Mistake: the task is read from the queue and stays there.
BugPopped == tasks

Popped == Tail(tasks)

Take(w) ==
    /\ workers[w] = "test"
    /\ ~MustWait /\ ~MayExit
    /\ tasks # <<>>
    /\ running' = [running EXCEPT ![w] = Head(tasks)]
    /\ tasks' = Popped
    /\ workers' = [workers EXCEPT ![w] = "run"]
    /\ UNCHANGED <<stop, ready, results, enqueued, job>>

\* Mistake: the finished task is kept until the next one is taken.
BugReleased(w) == running

Released(w) == [running EXCEPT ![w] = NoTask]

\* task() returns; the packaged_task has put its result in the future, and the
\* worker's copy of it goes out of scope.
Finish(w) ==
    /\ workers[w] = "run"
    /\ ready' = ready \cup {running[w]}
    /\ running' = Released(w)
    /\ workers' = [workers EXCEPT ![w] = "test"]
    /\ UNCHANGED <<tasks, stop, results, enqueued, job>>

\* A condition variable may wake a thread that nobody notified.
SpuriousWakeup(w) ==
    /\ workers[w] = "waiting"
    /\ workers' = [workers EXCEPT ![w] = "test"]
    /\ UNCHANGED <<tasks, stop, running, ready, results, enqueued, job>>

(* The thread of the job *)

\* The job can enqueue nothing on a stopped pool: it has destroyed it.
Enqueue(t) ==
    /\ job = "enqueue"
    /\ ~stop
    /\ t \notin enqueued
    /\ tasks' = Append(tasks, t)
    /\ results' = Append(results, t)
    /\ enqueued' = enqueued \cup {t}
    /\ job' = "notify"
    /\ UNCHANGED <<stop, workers, running, ready>>

\* Mistakes: nobody is notified unless the queue was empty; nobody is notified
\* unless the pool is at work.
BugToNotifyFirst == IF Len(tasks) = 1 THEN Waiting ELSE {}
BugToNotifyBusy == IF Running # {} THEN Waiting ELSE {}

\* notify_one wakes one of the threads that wait.
ToNotify == Waiting

NotifyOne ==
    /\ job = "notify"
    /\ IF ToNotify = {}
       THEN UNCHANGED workers
       ELSE \E w \in ToNotify : workers' = [workers EXCEPT ![w] = "test"]
    /\ job' = "enqueue"
    /\ UNCHANGED <<tasks, stop, running, ready, results, enqueued>>

\* The loop over the files is over.
EnqueueDone ==
    /\ job = "enqueue"
    /\ job' = "collect"
    /\ UNCHANGED <<tasks, stop, workers, running, ready, results, enqueued>>

\* result.get() blocks until the result is there.
Collect ==
    /\ job = "collect"
    /\ results # <<>>
    /\ Head(results) \in ready
    /\ results' = Tail(results)
    /\ UNCHANGED <<tasks, stop, workers, running, ready, enqueued, job>>

\* The destructor.  The jobs come to it with every future read; the pool does not
\* ask for that, and neither does this action.
Stop ==
    /\ job = "collect"
    /\ stop' = TRUE
    /\ job' = "notifyAll"
    /\ UNCHANGED <<tasks, workers, running, ready, results, enqueued>>

NotifyAll ==
    /\ job = "notifyAll"
    /\ workers' = [w \in Workers |-> IF w \in Waiting THEN "test" ELSE workers[w]]
    /\ job' = "join"
    /\ UNCHANGED <<tasks, stop, running, ready, results, enqueued>>

Join ==
    /\ job = "join"
    /\ \A w \in Workers : workers[w] = "exited"
    /\ job' = "gone"
    /\ UNCHANGED <<tasks, stop, workers, running, ready, results, enqueued>>

Terminated == job = "gone" /\ UNCHANGED vars

Worker(w) == Wait(w) \/ Exit(w) \/ Take(w) \/ Finish(w)
Job ==
    \/ \E t \in Tasks : Enqueue(t)
    \/ NotifyOne \/ EnqueueDone \/ Collect \/ Stop \/ NotifyAll \/ Join

Next ==
    \/ \E w \in Workers : Worker(w) \/ SpuriousWakeup(w)
    \/ Job
    \/ Terminated

\* What the thread of a job is sure to do: it destroys the pool once it has read
\* every future.
Proceed ==
    \/ \E t \in Tasks : Enqueue(t)
    \/ NotifyOne \/ EnqueueDone \/ Collect \/ (results = <<>> /\ Stop) \/ NotifyAll \/ Join

\* The operating system runs every thread that can run, and every task returns.
\* Nothing makes a spurious wakeup happen, or an early destruction.
Fairness ==
    /\ \A w \in Workers : WF_vars(Worker(w))
    /\ WF_vars(Proceed)

Spec == Init /\ [][Next]_vars /\ Fairness

--------------------------------------------------------------------------------
(* Properties *)

\* Every variable has its type, and a worker has a task exactly while it runs one.
TypeOK ==
    /\ tasks \in Seq(Tasks)
    /\ stop \in BOOLEAN
    /\ workers \in [Workers -> {"test", "waiting", "run", "exited"}]
    /\ running \in [Workers -> Tasks \cup {NoTask}]
    /\ \A w \in Workers : workers[w] = "run" <=> running[w] \in Tasks
    /\ ready \subseteq Tasks
    /\ results \in Seq(Tasks)
    /\ enqueued \subseteq Tasks
    /\ job \in {"enqueue", "notify", "collect", "notifyAll", "join", "gone"}

\* No worker sleeps while there is more work in the queue than workers on their
\* way to it: a notification per task is enough to keep the pool busy, although it
\* is sent outside of the critical section.
Awake == {w \in Workers : workers[w] = "test"}
NoIdleWorker ==
    Waiting # {} => Len(tasks) <= Cardinality(Awake) + (IF job = "notify" THEN 1 ELSE 0)

\* Every enqueued task is run in the end, whenever the pool is destroyed.
EveryTaskRuns == \A t \in Tasks : t \in enqueued ~> t \in ready

\* The destructor returns.
DestructorReturns == stop ~> job = "gone"

\* The pool implements TaskRunner: no task is lost, run twice or run by two
\* workers, whatever the notifications do.
Runner == INSTANCE TaskRunner WITH
    status <- [t \in Tasks |->
                  IF t \in Running THEN "running"
                  ELSE IF t \in Queued THEN "queued"
                  ELSE IF t \in ready THEN "done"
                  ELSE IF t \in enqueued THEN "lost" ELSE "new"],
    gone <- job = "gone"
RunsEachTaskOnce == Runner!Spec
================================================================================
