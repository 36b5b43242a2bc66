-------------------------------- MODULE Loops --------------------------------
(***************************************************************************)
(* A loop over a sequence is modelled by a recursive function of how far   *)
(* it is.  These lemmas say that it has values, and that what every        *)
(* iteration keeps holds behind the last one.                              *)
(***************************************************************************)
EXTENDS Integers, WellFoundedInduction, TLAPS

\* Numbers below which something first goes wrong: the least of them.
LEMMA Least ==
  ASSUME NEW T \in SUBSET Nat, T # {}
  PROVE  \E n \in T : \A m \in T : n <= m
<1>1. IsWellFoundedOn(OpToRel(<, Nat), Nat)
  BY NatLessThanWellFounded
<1>2. PICK x \in T : \A y \in T : ~ (<<y, x>> \in OpToRel(<, Nat))
  BY <1>1, WFMin
<1>3. \A y \in T : ~ (y < x)
  BY <1>2 DEF OpToRel
<1> QED
  BY <1>3

\* What holds at 0 and behind every step holds all along.
LEMMA UpTo ==
  ASSUME NEW N \in Nat, NEW Good \in SUBSET (0 .. N),
         0 \in Good,
         \A n \in 1 .. N : n - 1 \in Good => n \in Good
  PROVE  \A n \in 0 .. N : n \in Good
<1> DEFINE Bad == {n \in 0 .. N : n \notin Good}
<1> SUFFICES ASSUME Bad # {} PROVE FALSE
  OBVIOUS
<1>1. PICK n \in Bad : \A m \in Bad : n <= m
  <2>1. Bad \in SUBSET Nat
    OBVIOUS
  <2> QED
    BY <2>1, Least
<1>2. n \in 1 .. N
  BY <1>1
<1>3. n - 1 \in 0 .. N /\ n - 1 \notin Bad
  BY <1>1, <1>2
<1> QED
  BY <1>1, <1>2, <1>3

\* f: the values of a loop over A that makes each of the one before it.
LoopOf(f, A, start, N, step) ==
    /\ f \in [0 .. N -> A]
    /\ f[0] = start
    /\ \A n \in 1 .. N : f[n] = step[n][f[n - 1]]

\* Every loop has such values, however often it runs.
LEMMA LoopRuns ==
  ASSUME NEW A, NEW start \in A, NEW N \in Nat, NEW step \in [1 .. N -> [A -> A]]
  PROVE  \E f : LoopOf(f, A, start, N, step)
<1> DEFINE Runs(n, f) == /\ f[0] = start
                         /\ \A k \in 1 .. n : f[k] = step[k][f[k - 1]]
           Good == {n \in 0 .. N : \E f \in [0 .. n -> A] : Runs(n, f)}
<1>1. 0 \in Good
  <2> DEFINE f == [k \in 0 .. 0 |-> start]
  <2>1. f \in [0 .. 0 -> A] /\ f[0] = start
    OBVIOUS
  <2>2. \A k \in 1 .. 0 : f[k] = step[k][f[k - 1]]
    OBVIOUS
  <2>3. 0 \in 0 .. N
    OBVIOUS
  <2> HIDE DEF f
  <2> QED
    BY <2>1, <2>2, <2>3
<1>2. ASSUME NEW n \in 1 .. N, n - 1 \in Good PROVE n \in Good
  <2>1. PICK f \in [0 .. n - 1 -> A] : Runs(n - 1, f)
    BY <1>2
  <2> DEFINE g == [k \in 0 .. n |-> IF k = n THEN step[n][f[n - 1]] ELSE f[k]]
  <2>2. step[n][f[n - 1]] \in A
    BY <2>1
  <2>3. g \in [0 .. n -> A]
    BY <2>1, <2>2
  <2>4. g[0] = start
    BY <2>1
  <2>5. ASSUME NEW k \in 1 .. n PROVE g[k] = step[k][g[k - 1]]
    <3>1. g[k - 1] = f[k - 1]
      BY <2>5
    <3>2. CASE k = n
      BY <3>1, <3>2
    <3>3. CASE k # n
      <4>1. k \in 1 .. n - 1
        BY <3>3
      <4> QED
        BY <2>1, <3>1, <3>3, <4>1
    <3> QED
      BY <3>2, <3>3
  <2>6. n \in 0 .. N
    OBVIOUS
  <2> QED
    BY <2>3, <2>4, <2>5, <2>6
<1>3. N \in Good
  <2> HIDE DEF Good
  <2>1. Good \in SUBSET (0 .. N)
    BY DEF Good
  <2>2. \A n \in 1 .. N : n - 1 \in Good => n \in Good
    BY <1>2
  <2>3. \A n \in 0 .. N : n \in Good
    BY <1>1, <2>1, <2>2, UpTo
  <2> QED
    BY <2>3
<1>4. PICK f \in [0 .. N -> A] : Runs(N, f)
  BY <1>3
<1> QED
  BY <1>4 DEF LoopOf
=============================================================================
