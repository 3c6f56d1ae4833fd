------------------------------ MODULE MCDiffJob ------------------------------
(***************************************************************************)
(* Small instances of DiffJob for TLC: a base folder with a file a, a       *)
(* folder d and a file b in it, and archives as other programs write them.  *)
(***************************************************************************)
EXTENDS DiffJob

CONSTANTS base, a, b, d, x, y

MCNames == {NameOf(a, FALSE), NameOf(d, TRUE), NameOf(b, FALSE)}
MCParent == [p \in {a, d, b} |-> IF p = b THEN d ELSE base]
MCSpelling ==
    [n \in MCNames |->
        IF n.path = a THEN <<"a">> ELSE IF n.path = d THEN <<"d", "/">> ELSE <<"d", "/", "b">>]
MCPatterns == {<<>>, <<"*">>, <<"*", "/", "B">>, <<"*", "\\", "*">>, <<"d", "/", "b">>, <<"d", ".", "b">>, <<"b">>, <<"*", "d", "*", "/", "b">>}
MCCharacters == {"a", "b", "B", "d", ".", "*", "/", "\\"}
MCSameLetter == {{"b", "B"}}

FileA == [name |-> NameOf(a, FALSE), data |-> <<x, y>>, csize |-> 200]
FolderD == [name |-> NameOf(d, TRUE), data |-> <<>>, csize |-> 0]
FileB == [name |-> NameOf(b, FALSE), data |-> <<y>>, csize |-> 300]
LongB == [name |-> NameOf(b, FALSE), data |-> <<y, x, y>>, csize |-> 300]
HugeB == [name |-> NameOf(b, FALSE), data |-> <<y, x, y, x, y>>, csize |-> 300]

Plain ==
    [entries |-> <<FileA, FolderD>>, zip64 |-> FALSE, other |-> FALSE, saturated |-> {},
     comment |-> 0, tagged |-> FALSE, inner |-> FALSE, damaged |-> 0]

MCPackages ==
    {Plain,
     [Plain EXCEPT !.entries = <<HugeB>>, !.zip64 = TRUE, !.other = TRUE, !.inner = TRUE,
                   !.saturated = {"usize", "csize", "offset"}],
     [Plain EXCEPT !.entries = <<FileA, LongB>>, !.comment = 900, !.saturated = {"csize", "offset"}],
     [Plain EXCEPT !.comment = 30, !.tagged = TRUE],
     [Plain EXCEPT !.comment = 1010],
     [Plain EXCEPT !.zip64 = TRUE, !.comment = 960],
     [Plain EXCEPT !.entries = <<FolderD, FileB>>, !.inner = TRUE],
     [Plain EXCEPT !.entries = <<FileA, FileB>>, !.damaged = 2]}

MCNewContents == {<<x>>, <<y, x, y, y>>}
MCBars == {{}, {a, d}}

Disk(atBase, atA, atD, atB) ==
    [p \in Paths |-> CASE p = base -> atBase [] p = a -> atA [] p = d -> atD [] p = b -> atB]

MCDisks ==
    {Disk(NoFile, NoFile, NoFile, NoFile),
     Disk(Folder, <<x, x>>, Folder, NoFile),
     Disk(Folder, Folder, <<x>>, NoFile),
     Disk(Folder, <<x, y>>, Folder, <<y, x, y>>),
     Disk(Folder, NoFile, Folder, <<y, x, y, x, y>>)}
==============================================================================
