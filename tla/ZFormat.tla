------------------------------- MODULE ZFormat -------------------------------
(***************************************************************************)
(* What passes between the compressor and the decompressor of zlibAPI.cpp. *)
(* The content of a file of n bytes is the positions 1 .. n, so that a byte *)
(* that is lost, repeated or out of order shows.  A deflate stream is a    *)
(* sequence of units.  A "code" stands for the bytes from .. to (none, if  *)
(* it is the marker of a flush), "end" is the end of the last block, and a *)
(* "bad" unit is one inflate rejects.                                      *)
(***************************************************************************)
EXTENDS Naturals, Sequences

Unit == [kind : {"code", "end", "bad"}, from : Nat \ {0}, to : Nat]

Code(f, t) == [kind |-> "code", from |-> f, to |-> t]

\* The units that follow byte n and stand for no byte.
FlushMark(n) == Code(n + 1, n)
EndMark(n) == [kind |-> "end", from |-> n + 1, to |-> n]
BadMark(n) == [kind |-> "bad", from |-> n + 1, to |-> n]

\* Where the bytes end that the stream s stands for.
LastByte(s) == IF s = <<>> THEN 0 ELSE s[Len(s)].to

\* Each unit goes on where the one before it ended, and only codes stand for bytes.
Contiguous(s) ==
    \A i \in DOMAIN s :
       /\ s[i].from = (IF i = 1 THEN 0 ELSE s[i - 1].to) + 1
       /\ s[i].from = s[i].to + 1 \/ (s[i].kind = "code" /\ s[i].from <= s[i].to)
       /\ s[i].to <= LastByte(s)

HasEnd(s) == s # <<>> /\ s[Len(s)].kind = "end"

\* s is the deflate stream of a file of n bytes; an empty file needs none.
Whole(s, n) ==
    /\ Contiguous(s)
    /\ LastByte(s) = n
    /\ s = <<>> \/ HasEnd(s)
    /\ \A i \in DOMAIN s : i < Len(s) => s[i].kind = "code"
================================================================================
