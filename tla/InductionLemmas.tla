--------------------------- MODULE InductionLemmas ---------------------------
(***************************************************************************)
(* Induction over the natural numbers, with a set in the place of a        *)
(* predicate, and what follows from it for functions on 0 .. n that are    *)
(* defined by recursion.  The pigeonhole principle stands in for the       *)
(* principle of the least number.                                          *)
(***************************************************************************)
EXTENDS Integers, FiniteSets, FiniteSetTheorems, TLAPS

\* A set that has 0 and the successor of each of its numbers has them all: otherwise
\* the predecessor would map the numbers up to n that it lacks one to one to those
\* without n.
LEMMA SetInduction ==
    ASSUME NEW T, 0 \in T, \A k \in Nat : k \in T => k + 1 \in T, NEW n \in Nat
    PROVE  n \in T
<1> SUFFICES ASSUME n \notin T PROVE FALSE
  OBVIOUS
<1> DEFINE B == {k \in 0 .. n : k \notin T}
           f == [k \in B |-> k - 1]
<1>1. IsFiniteSet(B)
  <2>1. IsFiniteSet(0 .. n)
    BY FS_Interval
  <2> QED BY <2>1, FS_Subset
<1>2. IsFiniteSet(B \ {n}) /\ Cardinality(B \ {n}) = Cardinality(B) - 1
  BY <1>1, FS_RemoveElement
<1>3. Cardinality(B) \in Nat
  BY <1>1, FS_CardinalityType
<1>4. f \in [B -> B \ {n}]
  <2> SUFFICES ASSUME NEW k \in B PROVE k - 1 \in B \ {n}
    OBVIOUS
  <2>1. k # 0
    OBVIOUS
  <2>2. k - 1 \in 0 .. n /\ k - 1 < n /\ (k - 1) + 1 = k /\ k - 1 \in Nat
    BY <2>1
  <2> QED BY <2>2
<1>5. \E x, y \in B : x # y /\ f[x] = f[y]
  <2> HIDE DEF B, f
  <2> QED BY <1>1, <1>2, <1>3, <1>4, FS_PigeonHole
<1> QED BY <1>5

\* The same for the numbers up to n.
LEMMA BoundedInduction ==
    ASSUME NEW n \in Nat, NEW T, 0 \in T, \A k \in 1 .. n : k - 1 \in T => k \in T
    PROVE  \A k \in 0 .. n : k \in T
<1> DEFINE U == T \cup {k \in Nat : k > n}
<1>1. \A k \in Nat : k \in U => k + 1 \in U
  <2> SUFFICES ASSUME NEW k \in Nat, k \in U PROVE k + 1 \in U
    OBVIOUS
  <2>1. CASE k + 1 > n
    BY <2>1
  <2>2. CASE k + 1 <= n
    <3>1. k + 1 \in 1 .. n /\ (k + 1) - 1 = k /\ k \in T
      BY <2>2
    <3> QED BY <3>1
  <2> QED BY <2>1, <2>2
<1>2. \A k \in Nat : k \in U
  <2> HIDE DEF U
  <2> SUFFICES ASSUME NEW k \in Nat PROVE k \in U
    OBVIOUS
  <2>1. 0 \in U
    BY DEF U
  <2> QED BY <1>1, <2>1, SetInduction
<1> QED BY <1>2

\* A function that starts at c and goes from each value to the next as step says.
IsRecursion(f, S, n, c, step) ==
    /\ f \in [0 .. n -> S]
    /\ f[0] = c
    /\ \A k \in 1 .. n : f[k] = step[k][f[k - 1]]

LEMMA RecursionExists ==
    ASSUME NEW n \in Nat, NEW S, NEW c \in S, NEW step \in [1 .. n -> [S -> S]]
    PROVE  \E f : IsRecursion(f, S, n, c, step)
<1> DEFINE T == {m \in 0 .. n : \E f : IsRecursion(f, S, m, c, step)}
<1>1. 0 \in T
  <2> DEFINE f == [k \in 0 .. 0 |-> c]
  <2>1. IsRecursion(f, S, 0, c, step)
    BY DEF IsRecursion
  <2> HIDE DEF f
  <2> QED BY <2>1
<1>2. ASSUME NEW m \in 1 .. n, m - 1 \in T
      PROVE  m \in T
  <2>1. PICK f : IsRecursion(f, S, m - 1, c, step)
    BY <1>2
  <2>2. f \in [0 .. m - 1 -> S] /\ f[0] = c /\ \A k \in 1 .. m - 1 : f[k] = step[k][f[k - 1]]
    BY <2>1 DEF IsRecursion
  <2> DEFINE g == [k \in 0 .. m |-> IF k = m THEN step[m][f[m - 1]] ELSE f[k]]
  <2>3. step[m] \in [S -> S] /\ f[m - 1] \in S
    BY <2>2
  <2>4. step[m][f[m - 1]] \in S
    BY <2>3
  <2>5. g \in [0 .. m -> S] /\ g[0] = c
    BY <2>2, <2>4
  <2>6. \A k \in 1 .. m : g[k] = step[k][g[k - 1]]
    <3> SUFFICES ASSUME NEW k \in 1 .. m PROVE g[k] = step[k][g[k - 1]]
      OBVIOUS
    <3>1. k - 1 \in 0 .. m /\ k - 1 # m /\ k \in 0 .. m
      OBVIOUS
    <3>2. g[k - 1] = f[k - 1]
      BY <3>1
    <3>3. CASE k = m
      BY <3>1, <3>2, <3>3
    <3>4. CASE k # m
      <4>1. k \in 1 .. m - 1
        BY <3>4
      <4> QED BY <2>2, <3>1, <3>2, <3>4, <4>1
    <3> QED BY <3>3, <3>4
  <2>7. IsRecursion(g, S, m, c, step)
    BY <2>5, <2>6 DEF IsRecursion
  <2> HIDE DEF g
  <2> QED BY <2>7
<1>3. n \in T
  <2>1. n \in 0 .. n
    OBVIOUS
  <2> HIDE DEF T
  <2> QED BY <1>1, <1>2, <2>1, BoundedInduction
<1> QED BY <1>3
==============================================================================
