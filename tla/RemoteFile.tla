------------------------------ MODULE RemoteFile ------------------------------
(***************************************************************************)
(* What the callers of cZZFile::Read expect of a remote file, whatever the *)
(* cache behind it does: a call is answered once, and a call answered with *)
(* TRUE has put exactly the requested bytes of the file in the caller's    *)
(* buffer.  A call answered with FALSE may have put a beginning of those   *)
(* bytes there, in their place, and nothing else.  If the service may give *)
(* up on a late answer, TRUE can also mean that nothing was put in the     *)
(* buffer, never that a part of the bytes was.                             *)
(***************************************************************************)
EXTENDS Integers

CONSTANTS
    Threads,    \* the threads that read the archive
    Requests,   \* the reads they make: records [offset, bytes]
    MayGiveUp   \* whether a late answer may be given up on

VARIABLES
    status,     \* status[t] : "idle", "pending", "ok" or "failed"
    request,    \* request[t] : the last request of t
    buffer      \* buffer[t] : the file offsets whose bytes t's buffer holds

fileVars == <<status, request, buffer>>

\* The file offsets a request asks for.
Wanted(r) == r.offset .. (r.offset + r.bytes - 1)

\* The first n of them.
Beginning(r, n) == r.offset .. (r.offset + n - 1)

Init ==
    /\ status = [t \in Threads |-> "idle"]
    /\ request \in [Threads -> Requests]
    /\ buffer = [t \in Threads |-> {}]

Call(t) ==
    /\ status[t] = "idle"
    /\ status' = [status EXCEPT ![t] = "pending"]
    /\ \E r \in Requests : request' = [request EXCEPT ![t] = r]
    /\ buffer' = [buffer EXCEPT ![t] = {}]

Answer(t) ==
    /\ status[t] = "pending"
    /\ status' = [status EXCEPT ![t] = "ok"]
    /\ buffer' = [buffer EXCEPT ![t] = Wanted(request[t])]
    /\ UNCHANGED request

Refuse(t) ==
    /\ status[t] = "pending"
    /\ status' = [status EXCEPT ![t] = "failed"]
    /\ \E n \in 0 .. request[t].bytes :
          buffer' = [buffer EXCEPT ![t] = Beginning(request[t], n)]
    /\ UNCHANGED request

GiveUp(t) ==
    /\ MayGiveUp
    /\ status[t] = "pending"
    /\ status' = [status EXCEPT ![t] = "ok"]
    /\ UNCHANGED <<request, buffer>>

Return(t) ==
    /\ status[t] \in {"ok", "failed"}
    /\ status' = [status EXCEPT ![t] = "idle"]
    /\ UNCHANGED <<request, buffer>>

Next ==
    \E t \in Threads :
       Call(t) \/ Answer(t) \/ Refuse(t) \/ GiveUp(t) \/ Return(t)

Spec == Init /\ [][Next]_fileVars
===============================================================================
