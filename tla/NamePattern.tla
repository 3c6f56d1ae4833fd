----------------------------- MODULE NamePattern -----------------------------
(***************************************************************************)
(* FNMatch of common/FNMatch.cpp, which turns a pattern with wildcards into *)
(* a regular expression.  Names and patterns are sequences of characters.   *)
(***************************************************************************)
EXTENDS Naturals, Sequences

CONSTANT
    SameLetter  \* the pairs of characters that differ in nothing but case

Same(c, d) == c = d \/ {c, d} \in SameLetter

Separators == {"/", "\\"}

\* The ways to divide s into a piece for each character of the pattern: that of character
\* i is s[cut[i - 1] + 1 .. cut[i]].
Divisions(pattern, s) ==
    {cut \in [0 .. Len(pattern) -> 0 .. Len(s)] :
        /\ cut[0] = 0 /\ cut[Len(pattern)] = Len(s)
        /\ \A i \in DOMAIN pattern : cut[i - 1] <= cut[i]}

\* Operators named Bug... are the definition that follows with one mistake in it; no
\* action uses them.  They show which property notices the mistake.

\* Mistake: backslashes stay what they are.
BugRegexTakes(c, s, i, j) ==
    \/ c = "/" /\ j = i + 2 /\ s[j] = "/"
    \/ c = "*"
    \/ c \notin {"/", "*"} /\ j = i + 1 /\ (c = "." \/ Same(c, s[j]))

\* Whether the regular expression that c is replaced by takes s[i + 1 .. j]: "\" becomes
\* "/", "/" becomes "./" and "*" becomes ".*"; a dot is one that takes any character.
RegexTakes(c, s, i, j) ==
    \/ c \in Separators /\ j = i + 2 /\ s[j] = "/"
    \/ c = "*"
    \/ c \notin Separators \cup {"*"} /\ j = i + 1 /\ (c = "." \/ Same(c, s[j]))

FNMatch(pattern, search) ==
    \/ pattern = <<>> \/ pattern = <<"*">>
    \/ pattern = search
    \/ \E cut \in Divisions(pattern, search) :
          \A i \in DOMAIN pattern : RegexTakes(pattern[i], search, cut[i - 1], cut[i])

\* What the examples in FNMatch.h say: a star stands for any characters, those of
\* folders included, and every other character for itself.
WildcardTakes(c, s, i, j) ==
    \/ c = "*"
    \/ c # "*" /\ j = i + 1 /\ IF c \in Separators THEN s[j] = "/" ELSE Same(c, s[j])

Glob(pattern, search) ==
    \E cut \in Divisions(pattern, search) :
       \A i \in DOMAIN pattern : WildcardTakes(pattern[i], search, cut[i - 1], cut[i])

\* The patterns of these examples: a separator comes behind a star that stands for the
\* whole name of a folder.
StarsBeforeSlashes(pattern) ==
    \A i \in DOMAIN pattern : pattern[i] \in Separators =>
       /\ i > 1 /\ pattern[i - 1] = "*"
       /\ i > 2 => pattern[i - 2] \in Separators
==============================================================================
