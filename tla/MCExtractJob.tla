----------------------------- MODULE MCExtractJob -----------------------------
(***************************************************************************)
(* Small instances of ExtractJob for TLC: an archive with a deflated, a    *)
(* stored and a folder entry, one where two entries have the same name,    *)
(* one whose file is as long as CounterLimit, and what the disk may hold:  *)
(* nothing, a file that was cut off, the right file, one of the right size *)
(* with another content, one that is too long.                             *)
(***************************************************************************)
EXTENDS ExtractJob

CONSTANTS a, b, c, x, y

File(n, k, d) == [name |-> n, kind |-> k, data |-> d]

MCPackages ==
    {<<File(a, "deflated", <<x, y>>), File(c, "folder", <<>>), File(b, "stored", <<y>>)>>,
     <<File(a, "deflated", <<x, y>>), File(a, "deflated", <<y, x>>)>>,
     <<File(a, "deflated", <<x, y, y>>), File(b, "stored", <<>>)>>}

MCDisks ==
    {[n \in Names |-> IF n = a THEN f ELSE IF n = b THEN g ELSE NoFile] :
        f \in {NoFile, <<x>>, <<x, y>>, <<y, x>>, <<x, y, y>>}, g \in {NoFile, <<y>>}}
================================================================================
