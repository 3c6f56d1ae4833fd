----------------------------- MODULE MCCreateJob -----------------------------
(* The constants of CreateJob that a configuration cannot write down.          *)
EXTENDS CreateJob

\* A folder, a file without content, and two other files, with what they are called
\* as folders.
MCFolderName ==
    [n \in Names |-> CASE n = "dir" -> "dir/" [] n = "empty" -> "empty/"
                       [] n = "small" -> "small/" [] n = "big" -> "big/" [] OTHER -> n]

MCNameLength == [n \in Names |-> IF n \in {"dir", "empty", "small", "big"} THEN 1 ELSE 2]

MCGap == Hole

\* What recursive_directory_iterator may find.
MCJobs == {<<>>, <<"dir">>, <<"small">>, <<"empty", "small">>, <<"small", "big">>, <<"dir", "small", "empty">>}
==============================================================================
