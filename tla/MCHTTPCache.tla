------------------------------ MODULE MCHTTPCache ------------------------------
(***************************************************************************)
(* Small instances of HTTPCache for TLC.  Lines of 3 bytes at the offsets  *)
(* 0, 1, 2, 4 and 5 of a file of 9 bytes overlap at the front, at the back *)
(* and at both ends, leave nothing to fetch, or do not overlap at all; a   *)
(* request of 3 bytes and one at the end of the file do not use the cache. *)
(***************************************************************************)
EXTENDS HTTPCache, TLC

ReadOf(offset, bytes) == [offset |-> offset, bytes |-> bytes]

MCRequests ==
    {ReadOf(0, 2), ReadOf(1, 2), ReadOf(2, 1), ReadOf(4, 2), ReadOf(5, 1), ReadOf(7, 2)}

LiveRequests == {ReadOf(0, 2), ReadOf(1, 2), ReadOf(2, 1), ReadOf(4, 2), ReadOf(6, 3)}

\* Offset 2 reaches into the line at 0 and into the line at 4.
FewRequests == {ReadOf(0, 1), ReadOf(2, 2), ReadOf(4, 1)}

Symmetry == Permutations(Threads)
================================================================================
