------------------------------ MODULE TaskRunner ------------------------------
(***************************************************************************)
(* What the jobs of ZipJob.cpp expect of a pool of threads, whatever way   *)
(* it runs the tasks: each submitted task is run by one worker, once, and  *)
(* then its result is there for ever; the pool goes away only when every   *)
(* task it accepted has its result.                                        *)
(***************************************************************************)


CONSTANT
    Tasks       \* the tasks that may be submitted

VARIABLES
    status,     \* status[t] : "new", "queued", "running" or "done"
    gone        \* the pool has been destroyed

runnerVars == <<status, gone>>

Init ==
    /\ status = [t \in Tasks |-> "new"]
    /\ gone = FALSE

Submit(t) ==
    /\ ~gone
    /\ status[t] = "new"
    /\ status' = [status EXCEPT ![t] = "queued"]
    /\ UNCHANGED gone

Start(t) ==
    /\ status[t] = "queued"
    /\ status' = [status EXCEPT ![t] = "running"]
    /\ UNCHANGED gone

Finish(t) ==
    /\ status[t] = "running"
    /\ status' = [status EXCEPT ![t] = "done"]
    /\ UNCHANGED gone

Destroy ==
    /\ ~gone
    /\ \A t \in Tasks : status[t] \in {"new", "done"}
    /\ gone' = TRUE
    /\ UNCHANGED status

Next == Destroy \/ \E t \in Tasks : Submit(t) \/ Start(t) \/ Finish(t)

Spec == Init /\ [][Next]_runnerVars
================================================================================
