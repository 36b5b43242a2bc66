---------------------------- MODULE WindowProofs ----------------------------
(***************************************************************************)
(* The window algorithm for forecasts of any length and any values: what   *)
(* the O(n) loop of FindOptimalWindow returns is the cleanest block, the   *)
(* earliest of those, and lies ahead.                                      *)
(***************************************************************************)
EXTENDS WindowCheck, Loops, FiniteSetTheorems, TLAPS

Slot == [at : Int, value : Int]

\* Its slots in order.
Sorted(f) == \A i, j \in DOMAIN f : i < j => f[i].at <= f[j].at
-----------------------------------------------------------------------------
(* Sums of blocks. *)

\* What a forecast consists of.
LEMMA SlotsOf ==
  ASSUME NEW f \in Seq(Slot)
  PROVE  /\ Len(f) \in Nat /\ DOMAIN f = 1 .. Len(f)
         /\ \A n \in 1 .. Len(f) : f[n].at \in Int /\ f[n].value \in Int
<1>1. \A n \in 1 .. Len(f) : f[n] \in Slot
  OBVIOUS
<1> QED
  BY <1>1 DEF Slot

\* P[n] is what the first n slots emit.
PrefixSum(P, f) ==
    /\ P \in [0 .. Len(f) -> Int]
    /\ P[0] = 0
    /\ \A n \in 1 .. Len(f) : P[n] = P[n - 1] + f[n].value

\* They are numbers, and differ by what a slot emits.
LEMMA PrefixFacts ==
  ASSUME NEW f \in Seq(Slot), NEW P, PrefixSum(P, f)
  PROVE  /\ \A m \in 0 .. Len(f) : P[m] \in Int
         /\ \A m \in 1 .. Len(f) : P[m] = P[m - 1] + f[m].value
  BY DEF PrefixSum

\* Every forecast has such sums.
LEMMA PrefixSums ==
  ASSUME NEW f \in Seq(Slot)
  PROVE  \E P : PrefixSum(P, f)
<1> DEFINE N == Len(f)
           step == [n \in 1 .. N |-> [x \in Int |-> x + f[n].value]]
<1>1. N \in Nat /\ 0 \in Int
  OBVIOUS
<1>2. \A n \in 1 .. N : f[n].value \in Int
  BY SlotsOf
<1>3. step \in [1 .. N -> [Int -> Int]]
  BY <1>2
<1>4. PICK P : LoopOf(P, Int, 0, N, step)
  <2> HIDE DEF step, N
  <2> QED
    BY <1>1, <1>3, LoopRuns
<1>5. \A n \in 1 .. N : P[n - 1] \in Int
  BY <1>4 DEF LoopOf
<1>6. \A n \in 1 .. N : step[n][P[n - 1]] = P[n - 1] + f[n].value
  BY <1>5
<1> QED
  BY <1>4, <1>6 DEF LoopOf, PrefixSum

\* What a block emits is the difference of two of the sums.
LEMMA BlockIsDifference ==
  ASSUME NEW f \in Seq(Slot), NEW P, PrefixSum(P, f),
         NEW i \in Nat, NEW size \in Nat, 1 <= i, i + size - 1 <= Len(f)
  PROVE  BlockSum(f, i, size) = P[i + size - 1] - P[i - 1]
<1> DEFINE D == [n \in 0 .. size |-> P[i + n - 1] - P[i - 1]]
           Body(g) == [n \in 0 .. size |-> IF n = 0 THEN 0 ELSE g[n - 1] + f[i + n - 1].value]
           total == CHOOSE g : g = Body(g)
<1>1. \A n \in 0 .. size : i + n - 1 \in 0 .. Len(f)
  OBVIOUS
<1>2. /\ \A m \in 0 .. Len(f) : P[m] \in Int
      /\ \A m \in 1 .. Len(f) : P[m] = P[m - 1] + f[m].value /\ f[m].value \in Int
  BY SlotsOf DEF PrefixSum
<1>3. D \in [0 .. size -> Int] /\ D[0] = 0
  <2>1. i - 1 \in 0 .. Len(f) /\ i + 0 - 1 = i - 1 /\ 0 \in 0 .. size
    OBVIOUS
  <2>2. \A n \in 0 .. size : P[i + n - 1] - P[i - 1] \in Int
    BY <1>1, <1>2, <2>1
  <2>3. P[i + 0 - 1] - P[i - 1] = 0
    BY <1>2, <2>1
  <2> QED
    BY <2>1, <2>2, <2>3
<1>4. \A n \in 1 .. size : /\ f[i + n - 1].value \in Int
                           /\ D[n] = D[n - 1] + f[i + n - 1].value
  <2> SUFFICES ASSUME NEW n \in 1 .. size
               PROVE  /\ f[i + n - 1].value \in Int
                      /\ D[n] = D[n - 1] + f[i + n - 1].value
    OBVIOUS
  <2>1. /\ i + n - 1 \in 1 .. Len(f) /\ n \in 0 .. size /\ n - 1 \in 0 .. size
        /\ i + (n - 1) - 1 = (i + n - 1) - 1
    OBVIOUS
  <2>2. D[n] = P[i + n - 1] - P[i - 1] /\ D[n - 1] = P[(i + n - 1) - 1] - P[i - 1]
    BY <2>1
  <2>3. i - 1 \in 0 .. Len(f) /\ (i + n - 1) - 1 \in 0 .. Len(f)
    BY <2>1
  <2>4. /\ P[i + n - 1] = P[(i + n - 1) - 1] + f[i + n - 1].value
        /\ f[i + n - 1].value \in Int
        /\ P[(i + n - 1) - 1] \in Int /\ P[i - 1] \in Int
    BY <2>1, <2>3, <1>2
  <2> HIDE DEF D
  <2> QED
    BY <2>2, <2>4
<1>5. D = Body(D)
  <2> HIDE DEF D
  <2>1. \A n \in 0 .. size : n # 0 => n \in 1 .. size
    OBVIOUS
  <2>2. \A n \in 0 .. size : D[n] = IF n = 0 THEN 0 ELSE D[n - 1] + f[i + n - 1].value
    BY <1>3, <1>4, <2>1
  <2>3. D = [n \in 0 .. size |-> D[n]]
    BY <1>3
  <2> QED
    BY <2>2, <2>3
<1>6. total = Body(total)
  <2> HIDE DEF D, Body
  <2> QED
    BY <1>5
<1>7. BlockSum(f, i, size) = total[size]
  BY DEF BlockSum
<1>8. \A n \in 0 .. size : total[n] = IF n = 0 THEN 0 ELSE total[n - 1] + f[i + n - 1].value
  <2> HIDE DEF total
  <2> QED
    BY <1>6
<1> HIDE DEF total, D, Body
<1> DEFINE Good == {n \in 0 .. size : total[n] = D[n]}
<1>9. 0 \in Good
  BY <1>3, <1>8
<1>10. ASSUME NEW n \in 1 .. size, n - 1 \in Good PROVE n \in Good
  <2>1. n \in 0 .. size /\ n # 0 /\ total[n - 1] = D[n - 1]
    BY <1>10
  <2> QED
    BY <2>1, <1>4, <1>8
<1>11. size \in Good
  <2>1. Good \in SUBSET (0 .. size)
    OBVIOUS
  <2> HIDE DEF Good
  <2>2. \A n \in 0 .. size : n \in Good
    BY <1>9, <1>10, <2>1, UpTo
  <2> QED
    BY <2>2
<1> QED
  <2>1. total[size] = D[size] /\ size \in 0 .. size
    BY <1>11
  <2>2. D[size] = P[i + size - 1] - P[i - 1]
    BY <2>1 DEF D
  <2> QED
    BY <1>7, <2>1, <2>2
-----------------------------------------------------------------------------
(* The loops of FindOptimalWindow. *)

\* The first loop adds up the first block.
LEMMA FirstBlock ==
  ASSUME NEW f \in Seq(Slot), NEW P, PrefixSum(P, f), NEW size \in 0 .. Len(f)
  PROVE  LET first[n \in 0 .. size] == IF n = 0 THEN 0 ELSE first[n - 1] + f[n].value
         IN  first[size] = P[size]
<1> DEFINE Body(g) == [n \in 0 .. size |-> IF n = 0 THEN 0 ELSE g[n - 1] + f[n].value]
           D == [n \in 0 .. size |-> P[n]]
           first == CHOOSE g : g = Body(g)
<1>1. /\ P[0] = 0
      /\ \A n \in 1 .. size : P[n] = P[n - 1] + f[n].value /\ n - 1 \in 0 .. size
  BY SlotsOf DEF PrefixSum
<1>2. D = Body(D)
  <2>1. \A n \in 0 .. size : n # 0 => n \in 1 .. size
    OBVIOUS
  <2>2. \A n \in 0 .. size : P[n] = IF n = 0 THEN 0 ELSE D[n - 1] + f[n].value
    BY <1>1, <2>1
  <2> QED
    BY <2>2
<1>3. first = Body(first)
  <2> HIDE DEF D, Body
  <2> QED
    BY <1>2
<1>4. \A n \in 0 .. size : first[n] = IF n = 0 THEN 0 ELSE first[n - 1] + f[n].value
  <2> HIDE DEF first
  <2> QED
    BY <1>3
<1> HIDE DEF first, D, Body
<1> DEFINE Good == {n \in 0 .. size : first[n] = P[n]}
<1>5. 0 \in Good
  BY <1>1, <1>4
<1>6. ASSUME NEW n \in 1 .. size, n - 1 \in Good PROVE n \in Good
  <2>1. n \in 0 .. size /\ n # 0 /\ first[n - 1] = P[n - 1]
    BY <1>6
  <2> QED
    BY <2>1, <1>1, <1>4
<1>7. size \in Good
  <2>1. Good \in SUBSET (0 .. size) /\ size \in Nat
    BY SlotsOf
  <2> HIDE DEF Good
  <2>2. \A n \in 0 .. size : n \in Good
    BY <1>5, <1>6, <2>1, UpTo
  <2> QED
    BY <2>2
<1>8. first[size] = P[size]
  BY <1>7
<1> QED
  BY <1>8 DEF first, Body

\* What the block from slot j emits.
Block(P, j, size) == P[j + size - 1] - P[j - 1]

\* The state of the second loop behind iteration i: the sum is that of the block from
\* slot i + 1, and of the blocks so far the one kept has the lowest, and is the first.
Kept(s, P, i, size) ==
    /\ s.sum = Block(P, i + 1, size)
    /\ s.at \in 1 .. i + 1
    /\ s.min = Block(P, s.at, size)
    /\ \A j \in 1 .. i + 1 : \/ Block(P, j, size) > s.min
                             \/ Block(P, j, size) = s.min /\ j >= s.at

State == [sum : Int, min : Int, at : Int]

\* One iteration.
Slid(f, size, i, s) ==
    LET sum == s.sum - f[i].value + f[i + size].value
    IN  IF sum < s.min
        THEN [sum |-> sum, min |-> sum, at |-> i + 1]
        ELSE [sum |-> sum, min |-> s.min, at |-> s.at]

\* A slot leaves and a slot enters, and the sum is again that of its block.
LEMMA SlideOne ==
  ASSUME NEW f \in Seq(Slot), NEW P, PrefixSum(P, f), NEW size \in 1 .. Len(f),
         NEW i \in 1 .. Len(f) - size, NEW s \in State, Kept(s, P, i - 1, size)
  PROVE  Slid(f, size, i, s) \in State /\ Kept(Slid(f, size, i, s), P, i, size)
<1> DEFINE sum == s.sum - f[i].value + f[i + size].value
           t == Slid(f, size, i, s)
<1>1. Len(f) \in Nat
  BY SlotsOf
<1>2. /\ i \in 1 .. Len(f) /\ i + size \in 1 .. Len(f) /\ i - 1 \in 0 .. Len(f)
      /\ (i + size) - 1 \in 0 .. Len(f)
  BY <1>1
<1>3. /\ f[i].value \in Int /\ f[i + size].value \in Int
      /\ s.sum \in Int /\ s.min \in Int /\ s.at \in Int
      /\ P[i] \in Int /\ P[i - 1] \in Int
      /\ P[i + size] \in Int /\ P[(i + size) - 1] \in Int
  <2>1. s.sum \in Int /\ s.min \in Int /\ s.at \in Int
    BY DEF State
  <2>2. i \in 0 .. Len(f) /\ i + size \in 0 .. Len(f)
    BY <1>1
  <2> QED
    BY <2>1, <2>2, <1>2, SlotsOf, PrefixFacts
<1>4. P[i] = P[i - 1] + f[i].value /\ P[i + size] = P[(i + size) - 1] + f[i + size].value
  BY <1>2, PrefixFacts
<1>5. /\ (i - 1) + 1 = i /\ i + size - 1 = (i + size) - 1
      /\ (i + 1) + size - 1 = i + size /\ (i + 1) - 1 = i
  BY <1>1
<1>6. s.sum = P[(i + size) - 1] - P[i - 1]
  BY <1>5 DEF Kept, Block
<1>7. sum = P[i + size] - P[i]
  <2> DEFINE a == P[i]
             b == P[i - 1]
             c == P[i + size]
             d == P[(i + size) - 1]
             u == f[i].value
             v == f[i + size].value
             w == s.sum
  <2>1. /\ a \in Int /\ b \in Int /\ c \in Int /\ d \in Int
        /\ u \in Int /\ v \in Int /\ w \in Int
        /\ a = b + u /\ c = d + v /\ w = d - b
    BY <1>3, <1>4, <1>6
  <2> HIDE DEF a, b, c, d, u, v, w
  <2>2. w - u + v = c - a
    BY <2>1
  <2> QED
    BY <2>2 DEF a, c, u, v, w
<1>8. sum \in Int /\ sum = Block(P, i + 1, size)
  <2>1. Block(P, i + 1, size) = P[i + size] - P[i]
    BY <1>5 DEF Block
  <2> DEFINE a == P[i]
             c == P[i + size]
  <2>2. a \in Int /\ c \in Int /\ sum = c - a /\ Block(P, i + 1, size) = c - a
    BY <2>1, <1>3, <1>7
  <2> HIDE DEF a, c, sum
  <2> QED
    BY <2>2
<1>9. /\ s.at \in 1 .. i /\ s.min = Block(P, s.at, size)
      /\ \A j \in 1 .. i : \/ Block(P, j, size) > s.min
                           \/ Block(P, j, size) = s.min /\ j >= s.at
  BY <1>5 DEF Kept
<1>10. \A j \in 1 .. i + 1 : j \in 1 .. i \/ j = i + 1
  OBVIOUS
<1>11. \A j \in 1 .. i : Block(P, j, size) \in Int
  <2> SUFFICES ASSUME NEW j \in 1 .. i PROVE Block(P, j, size) \in Int
    OBVIOUS
  <2>1. j + size - 1 \in 0 .. Len(f) /\ j - 1 \in 0 .. Len(f)
    BY <1>1
  <2>2. P[j + size - 1] \in Int /\ P[j - 1] \in Int
    BY <2>1, PrefixFacts
  <2> QED
    BY <2>2 DEF Block
<1> HIDE DEF sum
<1>12. CASE sum < s.min
  <2>1. t = [sum |-> sum, min |-> sum, at |-> i + 1]
    BY <1>12 DEF Slid, sum
  <2> HIDE DEF t
  <2>2. t \in State
    BY <2>1, <1>8 DEF State
  <2>3. \A j \in 1 .. i : Block(P, j, size) > sum
    <3> SUFFICES ASSUME NEW j \in 1 .. i PROVE Block(P, j, size) > sum
      OBVIOUS
    <3> DEFINE b == Block(P, j, size)
               m == s.min
    <3>1. b \in Int /\ m \in Int /\ sum \in Int /\ (b > m \/ b = m) /\ sum < m
      BY <1>3, <1>8, <1>9, <1>11, <1>12
    <3> HIDE DEF b, m
    <3>2. b > sum
      BY <3>1
    <3> QED
      BY <3>2 DEF b
  <2>4. /\ t.sum = sum /\ t.min = sum /\ t.at = i + 1 /\ i + 1 \in 1 .. i + 1
    BY <2>1
  <2>5. ASSUME NEW j \in 1 .. i + 1
        PROVE  Block(P, j, size) > t.min \/ (Block(P, j, size) = t.min /\ j >= t.at)
    <3>1. CASE j \in 1 .. i
      BY <3>1, <2>3, <2>4
    <3>2. CASE j = i + 1
      BY <3>2, <2>4, <1>8
    <3> QED
      BY <3>1, <3>2, <1>10
  <2>6. /\ t.sum = Block(P, i + 1, size)
        /\ t.at \in 1 .. i + 1
        /\ t.min = Block(P, t.at, size)
    BY <2>4, <1>8
  <2>7. \A j \in 1 .. i + 1 : \/ Block(P, j, size) > t.min
                              \/ Block(P, j, size) = t.min /\ j >= t.at
    BY <2>5
  <2>8. Kept(t, P, i, size)
    BY <2>6, <2>7 DEF Kept
  <2> QED
    BY <2>2, <2>8 DEF t
<1>13. CASE ~ (sum < s.min)
  <2>1. t = [sum |-> sum, min |-> s.min, at |-> s.at]
    BY <1>13 DEF Slid, sum
  <2> HIDE DEF t
  <2>2. t \in State
    BY <2>1, <1>3, <1>8 DEF State
  <2>3. \/ Block(P, i + 1, size) > s.min
        \/ Block(P, i + 1, size) = s.min /\ i + 1 >= s.at
    BY <1>3, <1>8, <1>9, <1>13
  <2>4. Kept(t, P, i, size)
    BY <2>1, <2>3, <1>8, <1>9, <1>10 DEF Kept
  <2> QED
    BY <2>2, <2>4 DEF t
<1> QED
  BY <1>12, <1>13

\* So behind the last iteration it is the first of the cleanest of all blocks.
LEMMA SlideIsBest ==
  ASSUME NEW f \in Seq(Slot), NEW P, PrefixSum(P, f), NEW size \in 1 .. Len(f)
  PROVE  Kept(Slide(f, size), P, Len(f) - size, size)
<1> DEFINE N == Len(f) - size
           first[n \in 0 .. size] == IF n = 0 THEN 0 ELSE first[n - 1] + f[n].value
           start == [sum |-> first[size], min |-> first[size], at |-> 1]
           step == [i \in 1 .. N |-> [s \in State |-> IF Slid(f, size, i, s) \in State
                                                      THEN Slid(f, size, i, s) ELSE s]]
           Body(g) == [i \in 0 .. N |-> IF i = 0 THEN start ELSE Slid(f, size, i, g[i - 1])]
           slide == CHOOSE g : g = Body(g)
<1>1. Len(f) \in Nat /\ N \in Nat
  BY SlotsOf
<1>2. /\ P[size] \in Int /\ P[0] = 0 /\ P[1 + size - 1] = P[size] /\ P[1 - 1] = P[0]
      /\ 0 + 1 = 1
  BY <1>1 DEF PrefixSum
<1>3. first[size] = P[size]
  <2>1. size \in 0 .. Len(f)
    BY <1>1
  <2> QED
    BY <2>1, FirstBlock
<1> HIDE DEF first
<1>4. start \in State /\ Kept(start, P, 0, size)
  BY <1>2, <1>3 DEF State, Kept, Block
<1>5. \A i \in 1 .. N : \A s \in State :
        Slid(f, size, i, s) \in State
  <2> SUFFICES ASSUME NEW i \in 1 .. N, NEW s \in State
               PROVE  Slid(f, size, i, s) \in State
    OBVIOUS
  <2>1. i \in 1 .. Len(f) /\ i + size \in 1 .. Len(f)
    BY <1>1
  <2>2. f[i].value \in Int /\ f[i + size].value \in Int
    BY <2>1, SlotsOf
  <2>3. s.sum \in Int /\ s.min \in Int /\ s.at \in Int
    BY DEF State
  <2>4. s.sum - f[i].value + f[i + size].value \in Int /\ i + 1 \in Int
    BY <2>2, <2>3
  <2> QED
    BY <2>3, <2>4 DEF Slid, State
<1>6. PICK F : LoopOf(F, State, start, N, step)
  <2>1. step \in [1 .. N -> [State -> State]]
    BY <1>5
  <2> HIDE DEF step, N, start
  <2> QED
    BY <1>1, <1>4, <2>1, LoopRuns
<1>7. /\ F \in [0 .. N -> State] /\ F[0] = start
      /\ \A i \in 1 .. N : F[i] = Slid(f, size, i, F[i - 1])
  <2>1. \A i \in 1 .. N : i - 1 \in 0 .. N
    BY <1>1
  <2> HIDE DEF start, N
  <2>2. F \in [0 .. N -> State] /\ F[0] = start
        /\ \A i \in 1 .. N : F[i] = step[i][F[i - 1]]
    BY <1>6 DEF LoopOf
  <2>3. \A i \in 1 .. N : F[i - 1] \in State
    BY <2>1, <2>2
  <2>4. \A i \in 1 .. N : step[i][F[i - 1]] = Slid(f, size, i, F[i - 1])
    BY <2>3, <1>5
  <2> QED
    BY <2>2, <2>4
<1>8. F = Body(F)
  <2> HIDE DEF start
  <2>1. \A i \in 0 .. N : i # 0 => i \in 1 .. N
    BY <1>1
  <2> HIDE DEF N
  <2>2. \A i \in 0 .. N : F[i] = IF i = 0 THEN start ELSE Slid(f, size, i, F[i - 1])
    BY <1>7, <2>1
  <2>3. F = [i \in 0 .. N |-> F[i]]
    BY <1>7
  <2> QED
    BY <2>2, <2>3
<1>9. slide = Body(slide)
  <2> HIDE DEF Body
  <2> QED
    BY <1>8
<1>10. Slide(f, size) = slide[N]
  BY DEF Slide, Slid, first
<1> HIDE DEF slide, start, step
<1>11. \A i \in 0 .. N : slide[i] = IF i = 0 THEN start ELSE Slid(f, size, i, slide[i - 1])
  <2> HIDE DEF N
  <2> QED
    BY <1>9
<1> HIDE DEF Body
<1> DEFINE Good == {i \in 0 .. N : slide[i] \in State /\ Kept(slide[i], P, i, size)}
<1>12. 0 \in Good
  <2>1. 0 \in 0 .. N
    BY <1>1
  <2> QED
    BY <2>1, <1>4, <1>11
<1>13. ASSUME NEW i \in 1 .. N, i - 1 \in Good PROVE i \in Good
  <2>1. /\ i \in 0 .. N /\ i # 0
        /\ slide[i - 1] \in State /\ Kept(slide[i - 1], P, i - 1, size)
    BY <1>1, <1>13
  <2>2. slide[i] = Slid(f, size, i, slide[i - 1])
    BY <2>1, <1>11
  <2> QED
    BY <2>1, <2>2, SlideOne
<1>14. N \in Good
  <2>1. Good \in SUBSET (0 .. N)
    OBVIOUS
  <2> HIDE DEF Good, N
  <2>2. \A i \in 0 .. N : i \in Good
    BY <1>1, <1>12, <1>13, <2>1, UpTo
  <2> QED
    BY <1>1, <2>2
<1> QED
  BY <1>10, <1>14
-----------------------------------------------------------------------------
(* What is left of a forecast. *)

\* UpcomingSlots cuts an ordered forecast where the slots ahead begin.
LEMMA UpcomingIs ==
  ASSUME NEW f \in Seq(Slot), Sorted(f), NEW t \in Int
  PROVE  \/ /\ UpcomingSlots(f, t) = <<>>
            /\ \A i \in 1 .. Len(f) : ~ (f[i].at >= t)
         \/ \E m \in 1 .. Len(f) :
              /\ UpcomingSlots(f, t) = SubSeq(f, m, Len(f))
              /\ \A i \in 1 .. Len(f) : f[i].at >= t <=> i >= m
<1> DEFINE ahead == {i \in DOMAIN f : f[i].at >= t}
<1>1. DOMAIN f = 1 .. Len(f) /\ Len(f) \in Nat /\ \A i \in 1 .. Len(f) : f[i].at \in Int
  BY SlotsOf
<1>2. CASE ahead = {}
  BY <1>1, <1>2 DEF UpcomingSlots
<1>3. CASE ahead # {}
  <2> DEFINE m == CHOOSE i \in ahead : \A j \in ahead : i <= j
  <2>1. \E i \in ahead : \A j \in ahead : i <= j
    <3>1. ahead \in SUBSET Nat
      BY <1>1
    <3> HIDE DEF ahead
    <3> QED
      BY <3>1, <1>3, Least
  <2>2. m \in ahead /\ \A j \in ahead : m <= j
    BY <2>1
  <2>3. UpcomingSlots(f, t) = SubSeq(f, m, Len(f))
    BY <1>3 DEF UpcomingSlots
  <2> HIDE DEF m
  <2>4. ASSUME NEW i \in 1 .. Len(f) PROVE f[i].at >= t <=> i >= m
    <3>1. m \in 1 .. Len(f) /\ f[m].at >= t
      BY <1>1, <2>2
    <3>2. f[i].at >= t => i >= m
      BY <1>1, <2>2, <3>1
    <3>3. i > m => f[m].at <= f[i].at
      BY <1>1, <3>1 DEF Sorted
    <3>4. f[m].at \in Int /\ f[i].at \in Int
      BY <1>1, <3>1
    <3> QED
      BY <3>1, <3>2, <3>3, <3>4
  <2> QED
    BY <1>1, <2>2, <2>3, <2>4
<1> QED
  BY <1>2, <1>3

\* What is left of a forecast has the forecast's slots,
LEMMA RestIs ==
  ASSUME NEW f \in Seq(Slot), NEW m \in 1 .. Len(f)
  PROVE  /\ SubSeq(f, m, Len(f)) \in Seq(Slot)
         /\ Len(SubSeq(f, m, Len(f))) = Len(f) - m + 1
         /\ \A i \in 1 .. Len(f) - m + 1 : SubSeq(f, m, Len(f))[i] = f[m + i - 1]
<1>1. Len(f) \in Nat
  BY SlotsOf
<1> QED
  BY <1>1

\* and so its blocks.
LEMMA BlockOfRest ==
  ASSUME NEW f \in Seq(Slot), NEW m \in 1 .. Len(f), NEW size \in 1 .. Len(f) - m + 1,
         NEW i \in 1 .. Len(f) - m + 1 - size + 1
  PROVE  BlockSum(SubSeq(f, m, Len(f)), i, size) = BlockSum(f, m + i - 1, size)
<1> DEFINE u == SubSeq(f, m, Len(f))
           Q(P) == [n \in 0 .. Len(u) |-> P[m + n - 1] - P[m - 1]]
<1>1. Len(f) \in Nat
  BY SlotsOf
<1>2. PICK P : PrefixSum(P, f)
  BY PrefixSums
<1>3. /\ u \in Seq(Slot) /\ Len(u) = Len(f) - m + 1
      /\ \A n \in 1 .. Len(f) - m + 1 : u[n] = f[m + n - 1]
  BY RestIs
<1> HIDE DEF u
<1>4. PrefixSum(Q(P), u)
  <2>1. \A n \in 0 .. Len(u) : P[m + n - 1] \in Int /\ P[m - 1] \in Int
    <3> SUFFICES ASSUME NEW n \in 0 .. Len(u) PROVE P[m + n - 1] \in Int /\ P[m - 1] \in Int
      OBVIOUS
    <3>1. m + n - 1 \in 0 .. Len(f) /\ m - 1 \in 0 .. Len(f)
      BY <1>1, <1>3
    <3> QED
      BY <3>1, <1>2, PrefixFacts
  <2>2. Q(P) \in [0 .. Len(u) -> Int]
    BY <2>1
  <2>3. Q(P)[0] = 0
    <3>1. 0 \in 0 .. Len(u) /\ m + 0 - 1 = m - 1
      BY <1>1, <1>3
    <3> QED
      BY <2>1, <3>1
  <2>4. ASSUME NEW n \in 1 .. Len(u) PROVE Q(P)[n] = Q(P)[n - 1] + u[n].value
    <3>1. /\ n \in 0 .. Len(u) /\ n - 1 \in 0 .. Len(u)
          /\ m + n - 1 \in 1 .. Len(f) /\ m + (n - 1) - 1 = (m + n - 1) - 1
          /\ n \in 1 .. Len(f) - m + 1
      BY <1>1, <1>3
    <3>2. /\ Q(P)[n] = P[m + n - 1] - P[m - 1]
          /\ Q(P)[n - 1] = P[(m + n - 1) - 1] - P[m - 1]
      BY <3>1
    <3>3. P[m + n - 1] = P[(m + n - 1) - 1] + f[m + n - 1].value
      BY <3>1, <1>2, PrefixFacts
    <3>4. u[n] = f[m + n - 1] /\ f[m + n - 1].value \in Int
      BY <3>1, <1>3, SlotsOf
    <3>5. P[m + n - 1] \in Int /\ P[(m + n - 1) - 1] \in Int /\ P[m - 1] \in Int
      BY <3>1, <2>1
    <3> DEFINE a == P[m + n - 1]
               b == P[(m + n - 1) - 1]
               c == P[m - 1]
               v == f[m + n - 1].value
    <3>6. a \in Int /\ b \in Int /\ c \in Int /\ v \in Int /\ a = b + v
      BY <3>3, <3>4, <3>5
    <3> HIDE DEF Q, a, b, c, v
    <3>7. a - c = (b - c) + v
      BY <3>6
    <3> QED
      BY <3>2, <3>4, <3>7 DEF a, b, c, v
  <2> HIDE DEF Q
  <2> QED
    BY <2>2, <2>3, <2>4 DEF PrefixSum
<1>5. BlockSum(u, i, size) = Q(P)[i + size - 1] - Q(P)[i - 1]
  <2>1. i \in Nat /\ size \in Nat /\ 1 <= i /\ i + size - 1 <= Len(u)
    BY <1>1, <1>3
  <2> HIDE DEF Q
  <2> QED
    BY <2>1, <1>3, <1>4, BlockIsDifference
<1>6. BlockSum(f, m + i - 1, size) = P[(m + i - 1) + size - 1] - P[(m + i - 1) - 1]
  <2>1. m + i - 1 \in Nat /\ size \in Nat /\ 1 <= m + i - 1 /\ (m + i - 1) + size - 1 <= Len(f)
    BY <1>1
  <2> QED
    BY <2>1, <1>2, BlockIsDifference
<1>7. /\ i + size - 1 \in 0 .. Len(u) /\ i - 1 \in 0 .. Len(u)
      /\ m + (i + size - 1) - 1 = (m + i - 1) + size - 1
      /\ m + (i - 1) - 1 = (m + i - 1) - 1
  BY <1>1, <1>3
<1>8. /\ (m + i - 1) + size - 1 \in 0 .. Len(f) /\ (m + i - 1) - 1 \in 0 .. Len(f)
      /\ m - 1 \in 0 .. Len(f)
  BY <1>1
<1>9. /\ Q(P)[i + size - 1] = P[(m + i - 1) + size - 1] - P[m - 1]
      /\ Q(P)[i - 1] = P[(m + i - 1) - 1] - P[m - 1]
  BY <1>7
<1>10. /\ P[(m + i - 1) + size - 1] \in Int /\ P[(m + i - 1) - 1] \in Int
       /\ P[m - 1] \in Int
  BY <1>8, <1>2, PrefixFacts
<1> HIDE DEF Q
<1> QED
  BY <1>5, <1>6, <1>9, <1>10 DEF u

\* math.Ceil gives as many slots as the duration needs.
LEMMA SizeIsSlots ==
  ASSUME NEW d \in Nat \ {0}
  PROVE  /\ WindowSize(d) = Slots(d) /\ WindowSize(d) \in Nat /\ 1 <= WindowSize(d)
         /\ \A n \in Nat : d > n * Hour <=> WindowSize(d) > n
<1> DEFINE n == -((-d) \div 2)
<1>1. n \in Int /\ 2 * n >= d /\ 2 * (n - 1) < d
  OBVIOUS
<1> HIDE DEF n
<1>2. n \in 1 .. d
  BY <1>1
<1>3. WindowSize(d) = n
  BY <1>2 DEF WindowSize, Hour, n
<1>4. n \in 0 .. d /\ n * Hour >= d /\ (n - 1) * Hour < d
  BY <1>1, <1>2 DEF Hour
<1>5. \A k \in 0 .. d : k * Hour >= d /\ (k - 1) * Hour < d => k = n
  BY <1>1, <1>2 DEF Hour
<1>6. Slots(d) = n
  BY <1>4, <1>5 DEF Slots
<1> QED
  BY <1>1, <1>2, <1>3, <1>6 DEF Hour
-----------------------------------------------------------------------------
(* The window. *)

\* Block i is the first of the cleanest blocks of f of that size that start in S.
FirstCleanest(f, i, size, S) ==
    /\ i \in S
    /\ \A j \in S : \/ BlockSum(f, j, size) > BlockSum(f, i, size)
                    \/ BlockSum(f, j, size) = BlockSum(f, i, size) /\ j >= i

\* A window w is block i of f.
IsBlock(w, f, i, size) ==
    /\ w.ok = TRUE
    /\ w.start = f[i].at
    /\ w.end = f[i + size - 1].at + Hour
    /\ w.sum = BlockSum(f, i, size)

\* A forecast too short has no window;
LEMMA FindNothing ==
  ASSUME NEW u \in Seq(Slot), NEW d \in Nat \ {0}, Len(u) < Slots(d)
  PROVE  FindOptimalWindow(u, d) = NoWindow
<1>1. Len(u) \in Nat
  BY SlotsOf
<1>2. d > Len(u) * Hour
  BY <1>1, SizeIsSlots
<1> QED
  BY <1>2 DEF FindOptimalWindow

\* of another it is the first of the cleanest blocks.
LEMMA FindCleanest ==
  ASSUME NEW u \in Seq(Slot), NEW d \in Nat \ {0}, d # NaN, Slots(d) <= Len(u)
  PROVE  \E i \in 1 .. Len(u) - Slots(d) + 1 :
           /\ IsBlock(FindOptimalWindow(u, d), u, i, Slots(d))
           /\ FirstCleanest(u, i, Slots(d), 1 .. Len(u) - Slots(d) + 1)
<1> DEFINE size == Slots(d)
           best == Slide(u, size)
           starts == 1 .. Len(u) - size + 1
<1>1. Len(u) \in Nat /\ size \in Nat /\ 1 <= size /\ WindowSize(d) = size
  BY SlotsOf, SizeIsSlots
<1>2. ~ (d > Len(u) * Hour) /\ Len(u) # 0
  BY <1>1, SizeIsSlots
<1>3. FindOptimalWindow(u, d) =
        [ok |-> TRUE, start |-> u[best.at].at, end |-> u[best.at + size - 1].at + Hour,
         sum |-> best.min, size |-> size]
  BY <1>1, <1>2 DEF FindOptimalWindow
<1> HIDE DEF size
<1>4. PICK P : PrefixSum(P, u)
  BY PrefixSums
<1>5. Kept(best, P, Len(u) - size, size)
  <2>1. size \in 1 .. Len(u)
    BY <1>1 DEF size
  <2> QED
    BY <2>1, <1>4, SlideIsBest
<1> HIDE DEF best
<1>6. ASSUME NEW j \in starts PROVE BlockSum(u, j, size) = Block(P, j, size)
  <2>1. j \in Nat /\ 1 <= j /\ j + size - 1 <= Len(u)
    BY <1>1
  <2> QED
    BY <2>1, <1>1, <1>4, BlockIsDifference DEF Block
<1>7. /\ best.at \in starts
      /\ best.min = Block(P, best.at, size)
      /\ \A j \in starts : \/ Block(P, j, size) > best.min
                           \/ Block(P, j, size) = best.min /\ j >= best.at
  BY <1>5 DEF Kept
<1>8. IsBlock(FindOptimalWindow(u, d), u, best.at, size)
  BY <1>3, <1>6, <1>7 DEF IsBlock
<1>9. FirstCleanest(u, best.at, size, starts)
  BY <1>6, <1>7 DEF FirstCleanest
<1> QED
  BY <1>7, <1>8, <1>9 DEF size

\* What bestWindow answers: nothing when no block is left, and otherwise the first of
\* the cleanest that are.
LEMMA BestIs ==
  ASSUME forecast \in Seq(Slot), Sorted(forecast), now \in Int,
         NEW d \in Nat \ {0}, d # NaN
  PROVE  \/ /\ Starts(Slots(d)) = {}
            /\ BestWindow(forecast, d, now) = NoWindow
         \/ \E i \in Starts(Slots(d)) :
              /\ IsBlock(BestWindow(forecast, d, now), forecast, i, Slots(d))
              /\ FirstCleanest(forecast, i, Slots(d), Starts(Slots(d)))
<1> DEFINE f == forecast
           u == UpcomingSlots(f, now)
           size == Slots(d)
<1>1. Len(f) \in Nat /\ size \in Nat /\ 1 <= size
  BY SlotsOf, SizeIsSlots
<1>2. BestWindow(f, d, now) = FindOptimalWindow(u, d)
  BY DEF BestWindow
<1>3. CASE u = <<>> /\ \A i \in 1 .. Len(f) : ~ (f[i].at >= now)
  <2>1. Starts(size) = {}
    BY <1>1, <1>3 DEF Starts
  <2>2. u \in Seq(Slot) /\ Len(u) = 0
    BY <1>3
  <2>3. Len(u) < Slots(d)
    BY <1>1, <2>2
  <2> HIDE DEF u
  <2>4. FindOptimalWindow(u, d) = NoWindow
    BY <2>2, <2>3, FindNothing
  <2> QED
    BY <1>2, <2>1, <2>4 DEF u
<1>4. ASSUME NEW m \in 1 .. Len(f), u = SubSeq(f, m, Len(f)),
             \A i \in 1 .. Len(f) : f[i].at >= now <=> i >= m
      PROVE  \/ Starts(size) = {} /\ BestWindow(f, d, now) = NoWindow
             \/ \E i \in Starts(size) :
                  /\ IsBlock(BestWindow(f, d, now), f, i, size)
                  /\ FirstCleanest(f, i, size, Starts(size))
  <2>1. /\ u \in Seq(Slot) /\ Len(u) = Len(f) - m + 1
        /\ \A n \in 1 .. Len(f) - m + 1 : u[n] = f[m + n - 1]
    BY <1>4, RestIs
  <2> HIDE DEF u, size
  <2>2. \A i : i \in Starts(size) <=> i \in m .. Len(f) - size + 1
    BY <1>1, <1>4 DEF Starts
  <2>3. CASE Len(u) < size
    <3>1. Starts(size) = {}
      BY <1>1, <2>1, <2>2, <2>3
    <3>2. FindOptimalWindow(u, d) = NoWindow
      BY <2>1, <2>3, FindNothing DEF size
    <3> QED
      BY <1>2, <3>1, <3>2
  <2>4. CASE size <= Len(u)
    <3> DEFINE w == FindOptimalWindow(u, d)
    <3>1. PICK k \in 1 .. Len(u) - size + 1 :
            IsBlock(w, u, k, size) /\ FirstCleanest(u, k, size, 1 .. Len(u) - size + 1)
      BY <2>1, <2>4, FindCleanest DEF size
    <3> HIDE DEF w
    <3>2. ASSUME NEW n \in 1 .. Len(u) - size + 1
          PROVE  BlockSum(u, n, size) = BlockSum(f, m + n - 1, size)
      <4>1. size \in 1 .. Len(f) - m + 1 /\ n \in 1 .. Len(f) - m + 1 - size + 1
        BY <1>1, <2>1, <2>4
      <4> QED
        BY <4>1, <1>4, BlockOfRest
    <3> DEFINE i == m + k - 1
    <3>3. i \in Starts(size)
      <4>1. i \in m .. Len(f) - size + 1
        BY <1>1, <2>1
      <4> QED
        BY <4>1, <2>2
    <3>4. IsBlock(w, f, i, size)
      <4>1. /\ k \in 1 .. Len(f) - m + 1 /\ k + size - 1 \in 1 .. Len(f) - m + 1
            /\ m + (k + size - 1) - 1 = i + size - 1
        BY <1>1, <2>1, <2>4
      <4>2. u[k] = f[i] /\ u[k + size - 1] = f[i + size - 1]
        BY <4>1, <2>1
      <4> QED
        BY <3>1, <3>2, <4>2 DEF IsBlock
    <3>5. ASSUME NEW j \in Starts(size)
          PROVE  \/ BlockSum(f, j, size) > BlockSum(f, i, size)
                 \/ BlockSum(f, j, size) = BlockSum(f, i, size) /\ j >= i
      <4> DEFINE n == j - m + 1
      <4>1. n \in 1 .. Len(u) - size + 1 /\ m + n - 1 = j /\ (n >= k => j >= i)
        <5>1. j \in m .. Len(f) - size + 1
          BY <2>2
        <5>2. Len(f) \in Nat /\ size \in Nat /\ Len(u) = Len(f) - m + 1 /\ j \in Int /\ k \in Int
          BY <1>1, <2>1, <5>1
        <5> QED
          BY <5>1, <5>2
      <4>2. \/ BlockSum(u, n, size) > BlockSum(u, k, size)
            \/ BlockSum(u, n, size) = BlockSum(u, k, size) /\ n >= k
        BY <3>1, <4>1 DEF FirstCleanest
      <4>3. BlockSum(u, n, size) = BlockSum(f, j, size)
        BY <3>2, <4>1
      <4>4. BlockSum(u, k, size) = BlockSum(f, i, size)
        BY <3>2
      <4> QED
        BY <4>1, <4>2, <4>3, <4>4
    <3>6. FirstCleanest(f, i, size, Starts(size))
      BY <3>3, <3>5 DEF FirstCleanest
    <3> QED
      BY <1>2, <3>3, <3>4, <3>6 DEF w
  <2> QED
    BY <1>1, <2>1, <2>3, <2>4
<1> HIDE DEF u, size
<1> QED
  <2>1. \/ u = <<>> /\ \A i \in 1 .. Len(f) : ~ (f[i].at >= now)
        \/ \E m \in 1 .. Len(f) :
             /\ u = SubSeq(f, m, Len(f))
             /\ \A i \in 1 .. Len(f) : f[i].at >= now <=> i >= m
    BY UpcomingIs DEF u
  <2> QED
    BY <1>3, <1>4, <2>1 DEF size
-----------------------------------------------------------------------------
(* hourlyAverage. *)

Point == [at : Nat, value : Int, readable : BOOLEAN]

InHour(pts, i, hour) == pts[i].readable /\ HourOf(pts[i].at) = hour

\* Any hours can be sorted,
LEMMA HoursCanBeSorted ==
  ASSUME NEW S \in SUBSET Nat, IsFiniteSet(S)
  PROVE  \E h \in [1 .. Cardinality(S) -> S] :
           \A i, j \in 1 .. Cardinality(S) : i < j => h[i] < h[j]
<1> DEFINE InOrder(n, T) == \E h \in [1 .. n -> T] : \A i, j \in 1 .. n : i < j => h[i] < h[j]
           N == Cardinality(S)
           Good == {n \in 0 .. N : \A T \in SUBSET S : Cardinality(T) = n => InOrder(n, T)}
<1>1. N \in Nat
  BY FS_CardinalityType
<1>2. 0 \in Good
  <2>1. ASSUME NEW T \in SUBSET S PROVE InOrder(0, T)
    <3> DEFINE h == [i \in 1 .. 0 |-> CHOOSE x \in T : TRUE]
    <3>1. h \in [1 .. 0 -> T] /\ \A i, j \in 1 .. 0 : i < j => h[i] < h[j]
      OBVIOUS
    <3> QED
      BY <3>1
  <2> QED
    BY <1>1, <2>1
<1>3. ASSUME NEW n \in 1 .. N, n - 1 \in Good PROVE n \in Good
  <2>1. ASSUME NEW T \in SUBSET S, Cardinality(T) = n PROVE InOrder(n, T)
    <3>1. IsFiniteSet(T) /\ T \in SUBSET Nat
      BY FS_Subset
    <3>2. T # {}
      BY <2>1, FS_EmptySet
    <3>3. PICK x \in T : \A y \in T : x <= y
      BY <3>1, <3>2, Least
    <3>4. Cardinality(T \ {x}) = n - 1
      BY <2>1, <3>1, FS_RemoveElement
    <3>5. InOrder(n - 1, T \ {x})
      BY <1>3, <3>4
    <3>6. PICK g \in [1 .. n - 1 -> T \ {x}] : \A i, j \in 1 .. n - 1 : i < j => g[i] < g[j]
      BY <3>5
    <3> DEFINE h == [k \in 1 .. n |-> IF k = 1 THEN x ELSE g[k - 1]]
    <3>7. \A k \in 1 .. n : k # 1 => k - 1 \in 1 .. n - 1
      OBVIOUS
    <3>8. h \in [1 .. n -> T]
      BY <3>6, <3>7
    <3>9. ASSUME NEW i \in 1 .. n, NEW j \in 1 .. n, i < j PROVE h[i] < h[j]
      <4>1. j - 1 \in 1 .. n - 1 /\ h[j] = g[j - 1]
        BY <3>9
      <4>2. CASE i = 1
        <5>1. h[i] = x /\ g[j - 1] \in T /\ g[j - 1] # x
          BY <3>6, <4>1, <4>2
        <5> HIDE DEF h
        <5>2. x \in Nat /\ g[j - 1] \in Nat /\ x <= g[j - 1]
          BY <3>1, <3>3, <5>1
        <5> QED
          BY <4>1, <5>1, <5>2
      <4>3. CASE i # 1
        <5>1. i - 1 \in 1 .. n - 1 /\ h[i] = g[i - 1] /\ i - 1 < j - 1
          BY <3>9, <4>3
        <5> HIDE DEF h
        <5> QED
          BY <3>6, <4>1, <5>1
      <4> QED
        BY <4>2, <4>3
    <3> HIDE DEF h
    <3> QED
      BY <3>8, <3>9
  <2> HIDE DEF InOrder
  <2> QED
    BY <2>1
<1>4. N \in Good
  <2>1. Good \in SUBSET (0 .. N)
    OBVIOUS
  <2> HIDE DEF Good, N
  <2>2. \A n \in 0 .. N : n \in Good
    BY <1>1, <1>2, <1>3, <2>1, UpTo
  <2> QED
    BY <1>1, <2>2
<1>5. InOrder(N, S)
  BY <1>4
<1> QED
  BY <1>5

\* and sort.Slice returns all of them in order.
LEMMA AscendingIs ==
  ASSUME NEW S \in SUBSET Nat, IsFiniteSet(S)
  PROVE  /\ Cardinality(S) \in Nat
         /\ Ascending(S) \in [1 .. Cardinality(S) -> S]
         /\ \A i, j \in 1 .. Cardinality(S) : i < j => Ascending(S)[i] < Ascending(S)[j]
         /\ \A x \in S : \E i \in 1 .. Cardinality(S) : Ascending(S)[i] = x
<1> DEFINE N == Cardinality(S)
           h == Ascending(S)
<1>1. N \in Nat
  BY FS_CardinalityType
<1>2. h \in [1 .. N -> S] /\ \A i, j \in DOMAIN h : i < j => h[i] < h[j]
  <2>1. \E g \in [1 .. N -> S] : \A i, j \in DOMAIN g : i < j => g[i] < g[j]
    <3>1. PICK g \in [1 .. N -> S] : \A i, j \in 1 .. N : i < j => g[i] < g[j]
      BY HoursCanBeSorted
    <3>2. DOMAIN g = 1 .. N
      OBVIOUS
    <3> QED
      BY <3>1, <3>2
  <2> QED
    BY <2>1 DEF Ascending
<1> HIDE DEF h
<1>3. \A i, j \in 1 .. N : i < j => h[i] < h[j]
  BY <1>2
<1>4. ASSUME NEW i \in 1 .. N, NEW j \in 1 .. N, h[i] = h[j] PROVE i = j
  <2>1. h[i] \in Nat /\ h[j] \in Nat
    BY <1>2
  <2>2. ~ (i < j) /\ ~ (j < i)
    BY <1>3, <1>4, <2>1
  <2> QED
    BY <2>2
<1>5. h \in Injection(1 .. N, S)
  BY <1>2, <1>4 DEF Injection, IsInjective
<1>6. Cardinality(1 .. N) = N
  BY <1>1, FS_Interval
<1>7. h \in Surjection(1 .. N, S)
  BY <1>5, <1>6, FS_Injection
<1>8. \A x \in S : \E i \in 1 .. N : h[i] = x
  BY <1>7 DEF Surjection
<1> QED
  BY <1>1, <1>2, <1>3, <1>8 DEF h

\* The hours that have points.
LEMMA HoursAreFinite ==
  ASSUME NEW pts \in Seq(Point)
  PROVE  HoursOf(pts) \in SUBSET Nat /\ IsFiniteSet(HoursOf(pts))
<1> DEFINE R == {i \in DOMAIN pts : pts[i].readable}
           g == [i \in R |-> HourOf(pts[i].at)]
<1>1. Len(pts) \in Nat /\ DOMAIN pts = 1 .. Len(pts) /\ \A i \in DOMAIN pts : pts[i] \in Point
  OBVIOUS
<1>2. \A t \in Nat : HourOf(t) \in Nat
  BY DEF HourOf, Hour
<1>3. \A i \in R : HourOf(pts[i].at) \in Nat
  BY <1>1, <1>2 DEF Point
<1>4. IsFiniteSet(R)
  <2>1. IsFiniteSet(1 .. Len(pts))
    BY <1>1, FS_Interval
  <2> QED
    BY <1>1, <2>1, FS_Subset
<1>5. g \in Surjection(R, HoursOf(pts))
  BY DEF HoursOf, Surjection
<1>6. IsFiniteSet(HoursOf(pts))
  <2> HIDE DEF R, g
  <2> QED
    BY <1>4, <1>5, FS_Surjection
<1> QED
  BY <1>3, <1>6 DEF HoursOf

Sums == [sum : Int, count : Nat]

\* One iteration of the loop over the points.
Entered(pts, hour, n, b) ==
    IF InHour(pts, n, hour)
    THEN [sum |-> b.sum + pts[n].value, count |-> b.count + 1]
    ELSE b

\* What a bucket says of the points so far, compared with any value q: it has counted
\* one if there is one, and its average lies on the side of q on which all of them do.
Tallied(b, pts, hour, n, q) ==
    /\ b \in Sums
    /\ (\E i \in 1 .. n : InHour(pts, i, hour)) => b.count >= 1
    /\ (\A i \in 1 .. n : InHour(pts, i, hour) => pts[i].value >= q) => b.sum >= q * b.count
    /\ (\A i \in 1 .. n : InHour(pts, i, hour) => pts[i].value <= q) => b.sum <= q * b.count

\* An iteration keeps that.
LEMMA EnterOne ==
  ASSUME NEW pts \in Seq(Point), NEW hour \in Int, NEW q \in Int,
         NEW n \in 1 .. Len(pts), NEW b, Tallied(b, pts, hour, n - 1, q)
  PROVE  Tallied(Entered(pts, hour, n, b), pts, hour, n, q)
<1> DEFINE c == Entered(pts, hour, n, b)
           s == b.sum
           k == b.count
           v == pts[n].value
<1>1. Len(pts) \in Nat /\ s \in Int /\ k \in Nat /\ v \in Int
  <2>1. Len(pts) \in Nat /\ pts[n] \in Point
    OBVIOUS
  <2> QED
    BY <2>1 DEF Tallied, Sums, Point
<1>2. /\ n \in 1 .. n
      /\ \A i \in 1 .. n : i \in 1 .. n - 1 \/ i = n
      /\ \A i \in 1 .. n - 1 : i \in 1 .. n
  BY <1>1
<1>3. /\ (\E i \in 1 .. n - 1 : InHour(pts, i, hour)) => k >= 1
      /\ (\A i \in 1 .. n - 1 : InHour(pts, i, hour) => pts[i].value >= q) => s >= q * k
      /\ (\A i \in 1 .. n - 1 : InHour(pts, i, hour) => pts[i].value <= q) => s <= q * k
  BY DEF Tallied
<1>4. CASE InHour(pts, n, hour)
  <2>1. c = [sum |-> s + v, count |-> k + 1]
    BY <1>4 DEF Entered
  <2> HIDE DEF c
  <2>2. c.sum = s + v /\ c.count = k + 1
    BY <2>1
  <2>3. c \in Sums
    <3> HIDE DEF s, k, v
    <3> QED
      BY <1>1, <2>1 DEF Sums
  <2>4. q * (k + 1) = q * k + q /\ q * k \in Int
    <3> HIDE DEF k
    <3> QED
      BY <1>1
  <2>5. ASSUME \A i \in 1 .. n : InHour(pts, i, hour) => pts[i].value >= q
        PROVE  c.sum >= q * c.count
    <3>1. v >= q /\ s >= q * k
      BY <1>2, <1>3, <1>4, <2>5
    <3> DEFINE m == q * k
    <3> HIDE DEF s, k, v, m
    <3>2. s + v >= m + q
      BY <1>1, <2>4, <3>1 DEF m
    <3> QED
      BY <2>2, <2>4, <3>2 DEF m
  <2>6. ASSUME \A i \in 1 .. n : InHour(pts, i, hour) => pts[i].value <= q
        PROVE  c.sum <= q * c.count
    <3>1. v <= q /\ s <= q * k
      BY <1>2, <1>3, <1>4, <2>6
    <3> DEFINE m == q * k
    <3> HIDE DEF s, k, v, m
    <3>2. s + v <= m + q
      BY <1>1, <2>4, <3>1 DEF m
    <3> QED
      BY <2>2, <2>4, <3>2 DEF m
  <2>7. c.count >= 1
    <3> HIDE DEF k
    <3> QED
      BY <1>1, <2>2
  <2>8. Tallied(c, pts, hour, n, q)
    BY <2>3, <2>5, <2>6, <2>7 DEF Tallied
  <2> QED
    BY <2>8 DEF c
<1>5. CASE ~ InHour(pts, n, hour)
  <2>1. c = b
    BY <1>5 DEF Entered
  <2> HIDE DEF c
  <2>2. (\E i \in 1 .. n : InHour(pts, i, hour)) => b.count >= 1
    BY <1>2, <1>3, <1>5
  <2>3. (\A i \in 1 .. n : InHour(pts, i, hour) => pts[i].value >= q) => b.sum >= q * b.count
    BY <1>2, <1>3
  <2>4. (\A i \in 1 .. n : InHour(pts, i, hour) => pts[i].value <= q) => b.sum <= q * b.count
    BY <1>2, <1>3
  <2>5. Tallied(b, pts, hour, n, q)
    BY <2>2, <2>3, <2>4 DEF Tallied
  <2> QED
    BY <2>1, <2>5 DEF c
<1> QED
  BY <1>4, <1>5

\* So the bucket says it of all points.
LEMMA BucketIs ==
  ASSUME NEW pts \in Seq(Point), NEW hour \in Int, NEW q \in Int
  PROVE  Tallied(Bucket(pts, hour), pts, hour, Len(pts), q)
<1> DEFINE N == Len(pts)
           start == [sum |-> 0, count |-> 0]
           step == [n \in 1 .. N |-> [b \in Sums |-> IF Entered(pts, hour, n, b) \in Sums
                                                     THEN Entered(pts, hour, n, b) ELSE b]]
           Body(g) == [n \in 0 .. N |-> IF n = 0 THEN start ELSE Entered(pts, hour, n, g[n - 1])]
           bucket == CHOOSE g : g = Body(g)
<1>1. N \in Nat /\ \A n \in 1 .. N : pts[n] \in Point
  OBVIOUS
<1>2. start \in Sums
  BY DEF Sums
<1>3. \A n \in 1 .. N : \A b \in Sums : Entered(pts, hour, n, b) \in Sums
  <2> SUFFICES ASSUME NEW n \in 1 .. N, NEW b \in Sums
               PROVE  Entered(pts, hour, n, b) \in Sums
    OBVIOUS
  <2>1. pts[n].value \in Int /\ b.sum \in Int /\ b.count \in Nat
    BY <1>1 DEF Point, Sums
  <2>2. b.sum + pts[n].value \in Int /\ b.count + 1 \in Nat
    BY <2>1
  <2> QED
    BY <2>2 DEF Entered, Sums
<1> HIDE DEF start
<1>4. PICK F : LoopOf(F, Sums, start, N, step)
  <2>1. step \in [1 .. N -> [Sums -> Sums]]
    BY <1>3
  <2> HIDE DEF step, N
  <2> QED
    BY <1>1, <1>2, <2>1, LoopRuns
<1>5. /\ F \in [0 .. N -> Sums] /\ F[0] = start
      /\ \A n \in 1 .. N : F[n] = Entered(pts, hour, n, F[n - 1])
  <2>1. \A n \in 1 .. N : n - 1 \in 0 .. N
    BY <1>1
  <2> HIDE DEF N
  <2>2. /\ F \in [0 .. N -> Sums] /\ F[0] = start
        /\ \A n \in 1 .. N : F[n] = step[n][F[n - 1]]
    BY <1>4 DEF LoopOf
  <2>3. \A n \in 1 .. N : F[n - 1] \in Sums
    BY <2>1, <2>2
  <2>4. \A n \in 1 .. N : step[n][F[n - 1]] = Entered(pts, hour, n, F[n - 1])
    BY <2>3, <1>3
  <2> QED
    BY <2>2, <2>4
<1>6. F = Body(F)
  <2>1. \A n \in 0 .. N : n # 0 => n \in 1 .. N
    BY <1>1
  <2> HIDE DEF N
  <2>2. \A n \in 0 .. N : F[n] = IF n = 0 THEN start ELSE Entered(pts, hour, n, F[n - 1])
    BY <1>5, <2>1
  <2>3. F = [n \in 0 .. N |-> F[n]]
    BY <1>5
  <2> QED
    BY <2>2, <2>3
<1>7. bucket = Body(bucket)
  <2> HIDE DEF Body
  <2> QED
    BY <1>6
<1>8. Bucket(pts, hour) = bucket[N]
  BY DEF Bucket, Entered, InHour, start
<1> HIDE DEF bucket, step
<1>9. \A n \in 0 .. N : bucket[n] = IF n = 0 THEN start ELSE Entered(pts, hour, n, bucket[n - 1])
  <2> HIDE DEF N
  <2> QED
    BY <1>7
<1> HIDE DEF Body
<1> DEFINE Good == {n \in 0 .. N : Tallied(bucket[n], pts, hour, n, q)}
<1>10. 0 \in Good
  <2>1. 0 \in 0 .. N /\ bucket[0] = start
    BY <1>1, <1>9
  <2>2. start.sum = 0 /\ start.count = 0 /\ q * 0 = 0
    BY DEF start
  <2>3. Tallied(start, pts, hour, 0, q)
    BY <1>2, <2>2 DEF Tallied
  <2> QED
    BY <2>1, <2>3
<1>11. ASSUME NEW n \in 1 .. N, n - 1 \in Good PROVE n \in Good
  <2>1. n \in 0 .. N /\ n # 0 /\ Tallied(bucket[n - 1], pts, hour, n - 1, q)
    BY <1>1, <1>11
  <2>2. bucket[n] = Entered(pts, hour, n, bucket[n - 1])
    BY <2>1, <1>9
  <2>3. Tallied(Entered(pts, hour, n, bucket[n - 1]), pts, hour, n, q)
    BY <2>1, EnterOne
  <2> QED
    BY <2>1, <2>2, <2>3
<1>12. N \in Good
  <2>1. Good \in SUBSET (0 .. N)
    OBVIOUS
  <2> HIDE DEF Good, N
  <2>2. \A n \in 0 .. N : n \in Good
    BY <1>1, <1>10, <1>11, <2>1, UpTo
  <2> QED
    BY <1>1, <2>2
<1> QED
  BY <1>8, <1>12

\* Bounds of a quotient.
LEMMA QuotientIs ==
  ASSUME NEW s \in Int, NEW c \in Nat, c >= 1
  PROVE  s \div c \in Int /\ (s \div c) * c <= s /\ s < (s \div c + 1) * c
  OBVIOUS

\* The average of an hour lies among its points.
LEMMA AverageIs ==
  ASSUME NEW pts \in Seq(Point), NEW hour \in HoursOf(pts)
  PROVE  LET average == Bucket(pts, hour).sum \div Bucket(pts, hour).count
         IN  /\ average \in Int
             /\ \E i \in 1 .. Len(pts) : InHour(pts, i, hour) /\ pts[i].value <= average
             /\ \E i \in 1 .. Len(pts) : InHour(pts, i, hour) /\ pts[i].value >= average
<1> DEFINE b == Bucket(pts, hour)
           a == b.sum \div b.count
<1>1. hour \in Int
  BY HoursAreFinite
<1>2. \A i \in 1 .. Len(pts) : pts[i].value \in Int
  <2>1. \A i \in 1 .. Len(pts) : pts[i] \in Point
    OBVIOUS
  <2> QED
    BY <2>1 DEF Point
<1>3. \A q \in Int : Tallied(b, pts, hour, Len(pts), q)
  BY <1>1, BucketIs
<1>4. \E i \in 1 .. Len(pts) : InHour(pts, i, hour)
  <2>1. DOMAIN pts = 1 .. Len(pts)
    OBVIOUS
  <2> QED
    BY <2>1 DEF HoursOf, InHour
<1> HIDE DEF b
<1>5. b.sum \in Int /\ b.count \in Nat /\ b.count >= 1
  <2>1. Tallied(b, pts, hour, Len(pts), 0)
    BY <1>3
  <2> QED
    BY <2>1, <1>4 DEF Tallied, Sums
<1>6. a \in Int /\ a * b.count <= b.sum /\ b.sum < (a + 1) * b.count
  BY <1>5, QuotientIs
<1> HIDE DEF a
<1>7. \E i \in 1 .. Len(pts) : InHour(pts, i, hour) /\ pts[i].value <= a
  <2> SUFFICES ASSUME \A i \in 1 .. Len(pts) : InHour(pts, i, hour) => ~ (pts[i].value <= a)
               PROVE  FALSE
    OBVIOUS
  <2>1. \A i \in 1 .. Len(pts) : InHour(pts, i, hour) => pts[i].value >= a + 1
    BY <1>2, <1>6
  <2>2. b.sum >= (a + 1) * b.count
    BY <1>3, <1>6, <2>1 DEF Tallied
  <2> DEFINE m == (a + 1) * b.count
  <2>3. m \in Int
    BY <1>5, <1>6
  <2> HIDE DEF m
  <2>4. b.sum >= m /\ b.sum < m
    BY <1>6, <2>2 DEF m
  <2> QED
    BY <1>5, <2>3, <2>4
<1>8. \E i \in 1 .. Len(pts) : InHour(pts, i, hour) /\ pts[i].value >= a
  <2> SUFFICES ASSUME \A i \in 1 .. Len(pts) : InHour(pts, i, hour) => ~ (pts[i].value >= a)
               PROVE  FALSE
    OBVIOUS
  <2>1. \A i \in 1 .. Len(pts) : InHour(pts, i, hour) => pts[i].value <= a - 1
    BY <1>2, <1>6
  <2>2. b.sum <= (a - 1) * b.count
    BY <1>3, <1>6, <2>1 DEF Tallied
  <2> DEFINE m == a * b.count
             c == b.count
             s == b.sum
  <2>3. m \in Int /\ (a - 1) * c = m - c
    BY <1>5, <1>6
  <2>4. m <= s /\ s <= (a - 1) * c
    BY <1>6, <2>2
  <2>5. c \in Nat /\ c >= 1 /\ s \in Int
    BY <1>5
  <2> HIDE DEF m, c, s
  <2>6. s <= m - c
    BY <2>3, <2>4
  <2> QED
    BY <2>3, <2>4, <2>5, <2>6
<1> QED
  BY <1>6, <1>7, <1>8 DEF a, b

\* The parameters, one by one.
LEMMA ParametersAre ==
  /\ ForecastHours \in Nat /\ MaxSlots \in Nat /\ PointHours \in Nat /\ Made \in Nat
  /\ Times \subseteq Nat /\ Values \subseteq Int /\ PointValues \subseteq Int
  /\ Durations \subseteq (Nat \ {0}) \cup {NaN} /\ NaN \notin Nat
  BY WindowAssumption

Average(pts, hour) == Bucket(pts, hour).sum \div Bucket(pts, hour).count

\* The forecast has the first of the hours in order, with their averages.
LEMMA HourlyIs ==
  ASSUME NEW pts \in Seq(Point)
  PROVE  LET f == HourlyAverage(pts)
             h == Ascending(HoursOf(pts))
         IN  /\ f \in Seq(Slot) /\ Len(f) <= Cardinality(HoursOf(pts))
             /\ \A k \in 1 .. Len(f) : f[k].at = h[k] /\ f[k].value = Average(pts, h[k])
<1> DEFINE S == HoursOf(pts)
           N == Cardinality(S)
           h == Ascending(S)
           slots == [i \in DOMAIN h |-> [at |-> h[i], value |-> Average(pts, h[i])]]
           n == IF Len(slots) > ForecastHours THEN ForecastHours ELSE Len(slots)
           f == HourlyAverage(pts)
<1>1. N \in Nat /\ h \in [1 .. N -> S] /\ S \in SUBSET Nat
  BY HoursAreFinite, AscendingIs
<1>2. f = SubSeq(slots, 1, n)
  BY DEF HourlyAverage, Average
<1>3. \A x \in S : Average(pts, x) \in Int
  BY AverageIs DEF Average
<1> HIDE DEF S, N, h, f
<1>4. slots \in [1 .. N -> Slot]
  <2>1. DOMAIN h = 1 .. N /\ \A i \in 1 .. N : h[i] \in Int /\ Average(pts, h[i]) \in Int
    <3>1. DOMAIN h = 1 .. N /\ \A i \in 1 .. N : h[i] \in S
      BY <1>1
    <3>2. \A x \in S : x \in Int
      BY <1>1
    <3> QED
      BY <1>3, <3>1, <3>2
  <2>2. \A i \in 1 .. N : [at |-> h[i], value |-> Average(pts, h[i])] \in Slot
    BY <2>1 DEF Slot
  <2> QED
    BY <2>1, <2>2
<1>5. \A i \in 1 .. N : slots[i].at = h[i] /\ slots[i].value = Average(pts, h[i])
  BY <1>1
<1> HIDE DEF slots
<1>6. slots \in Seq(Slot) /\ Len(slots) = N
  BY <1>1, <1>4
<1>7. n \in 0 .. N
  <2> DEFINE l == Len(slots)
  <2>1. ForecastHours \in Nat /\ l = N /\ N \in Nat
    BY <1>1, <1>6, ParametersAre
  <2> HIDE DEF l
  <2>2. (IF l > ForecastHours THEN ForecastHours ELSE l) \in 0 .. N
    BY <2>1
  <2> QED
    BY <2>2 DEF l
<1> HIDE DEF n
<1>8. f \in Seq(Slot) /\ Len(f) = n /\ \A k \in 1 .. n : f[k] = slots[k]
  BY <1>1, <1>2, <1>6, <1>7
<1> QED
  BY <1>1, <1>5, <1>7, <1>8 DEF S, N, h, f

\* Its slots are in order.
LEMMA HourlyIsSorted ==
  ASSUME NEW pts \in Seq(Point)
  PROVE  Sorted(HourlyAverage(pts))
<1> DEFINE f == HourlyAverage(pts)
           h == Ascending(HoursOf(pts))
           N == Cardinality(HoursOf(pts))
<1>1. /\ f \in Seq(Slot) /\ Len(f) <= N
      /\ \A k \in 1 .. Len(f) : f[k].at = h[k]
  BY HourlyIs
<1>2. /\ N \in Nat /\ \A i \in 1 .. N : h[i] \in Nat
      /\ \A i, j \in 1 .. N : i < j => h[i] < h[j]
  BY HoursAreFinite, AscendingIs
<1>3. DOMAIN f = 1 .. Len(f) /\ Len(f) \in Nat
  BY <1>1, SlotsOf
<1> HIDE DEF f, h, N
<1>4. ASSUME NEW i \in 1 .. Len(f), NEW j \in 1 .. Len(f), i < j PROVE f[i].at <= f[j].at
  <2>1. i \in 1 .. N /\ j \in 1 .. N
    BY <1>1, <1>2, <1>3
  <2>2. h[i] < h[j] /\ h[i] \in Nat /\ h[j] \in Nat
    BY <2>1, <1>2, <1>4
  <2>3. f[i].at = h[i] /\ f[j].at = h[j]
    BY <1>1
  <2> QED
    BY <2>2, <2>3
<1> QED
  BY <1>3, <1>4 DEF Sorted, f
-----------------------------------------------------------------------------
(* The state of a check. *)

\* What every provider's forecast, and every input, is like.
InputOK ==
    /\ forecast \in Seq(Slot) /\ Sorted(forecast)
    /\ points \in Seq(Point)
    /\ duration \in (Nat \ {0}) \cup {NaN}
    /\ now \in Nat
    /\ done \in BOOLEAN

\* The mock's begins with the hour after the one it was made in, and the feed's is
\* the average of its points.
MadeAsTold ==
    /\ source = "mock" => /\ Len(forecast) = ForecastHours
                          /\ \A i \in 1 .. ForecastHours :
                               forecast[i].at = HourOf(Made) + Hour * i
    /\ source = "watttime" => forecast = HourlyAverage(points)

\* The answer is bestWindow's.
Answered == done => window = BestWindow(forecast, duration, now)

WindowInv == InputOK /\ MadeAsTold /\ Answered

\* The mock's forecast.
LEMMA MockIsMade ==
  ASSUME MockInit
  PROVE  WindowInv
<1> DEFINE base == HourOf(Made)
<1>1. ForecastHours \in Nat /\ base \in Int /\ Values \subseteq Int
  BY ParametersAre DEF HourOf, Hour
<1> HIDE DEF base
<1>2. PICK v \in [1 .. ForecastHours -> Values] : forecast = MockForecast(Made, v)
  BY DEF MockInit
<1>3. forecast = [i \in 1 .. ForecastHours |-> [at |-> base + Hour * i, value |-> v[i]]]
  BY <1>2 DEF MockForecast, base
<1>4. \A i \in 1 .. ForecastHours : v[i] \in Int /\ base + Hour * i \in Int
  <2>1. \A i \in 1 .. ForecastHours : v[i] \in Int
    BY <1>1
  <2>2. \A i \in 1 .. ForecastHours : base + Hour * i \in Int
    BY <1>1 DEF Hour
  <2> QED
    BY <2>1, <2>2
<1>5. forecast \in [1 .. ForecastHours -> Slot]
  BY <1>3, <1>4 DEF Slot
<1>6. forecast \in Seq(Slot) /\ Len(forecast) = ForecastHours /\ DOMAIN forecast = 1 .. ForecastHours
  BY <1>1, <1>5
<1>7. \A i \in 1 .. ForecastHours : forecast[i].at = base + Hour * i
  BY <1>3
<1>8. Sorted(forecast)
  BY <1>1, <1>6, <1>7 DEF Sorted, Hour
<1>9. duration \in (Nat \ {0}) \cup {NaN} /\ now \in Nat /\ done = FALSE
  BY ParametersAre DEF MockInit, Inputs
<1>10. source = "mock" /\ points \in Seq(Point)
  BY DEF MockInit
<1> QED
  BY <1>6, <1>7, <1>8, <1>9, <1>10 DEF WindowInv, InputOK, MadeAsTold, Answered, base

\* That of Electricity Maps.
LEMMA BodyIsCut ==
  ASSUME ElectricityMapsInit
  PROVE  WindowInv
<1>1. PICK body \in Bodies : forecast = ElectricityMapsForecast(body)
  BY DEF ElectricityMapsInit
<1>2. PICK k \in 0 .. MaxSlots : \E v \in [1 .. k -> Values] :
        body = [i \in DOMAIN v |-> [at |-> Hour * (i - 1), value |-> v[i]]]
  BY DEF Bodies
<1>v. PICK v \in [1 .. k -> Values] :
        body = [i \in DOMAIN v |-> [at |-> Hour * (i - 1), value |-> v[i]]]
  BY <1>2
<1>3. ForecastHours \in Nat /\ k \in Nat /\ \A i \in 1 .. k : v[i] \in Int /\ Hour * (i - 1) \in Int
  <2>1. ForecastHours \in Nat /\ k \in Nat
    BY ParametersAre
  <2>2. \A i \in 1 .. k : v[i] \in Int
    BY ParametersAre
  <2>3. \A i \in 1 .. k : Hour * (i - 1) \in Int
    BY <2>1 DEF Hour
  <2> QED
    BY <2>1, <2>2, <2>3
<1>4. body \in [1 .. k -> Slot] /\ \A i \in 1 .. k : body[i].at = Hour * (i - 1)
  BY <1>v, <1>3 DEF Slot
<1>5. body \in Seq(Slot) /\ Len(body) = k
  BY <1>3, <1>4
<1> DEFINE n == IF Len(body) > ForecastHours THEN ForecastHours ELSE Len(body)
<1>6. n \in 0 .. k
  BY <1>3, <1>5
<1>7. forecast = SubSeq(body, 1, n)
  BY <1>1 DEF ElectricityMapsForecast
<1> HIDE DEF n
<1>8. forecast \in Seq(Slot) /\ Len(forecast) = n /\ DOMAIN forecast = 1 .. n
      /\ \A i \in 1 .. n : forecast[i] = body[i]
  BY <1>3, <1>5, <1>6, <1>7
<1>9. \A i \in 1 .. n : forecast[i].at = Hour * (i - 1)
  BY <1>3, <1>4, <1>6, <1>8
<1>10. Sorted(forecast)
  BY <1>3, <1>6, <1>8, <1>9 DEF Sorted, Hour
<1>11. duration \in (Nat \ {0}) \cup {NaN} /\ now \in Nat /\ done = FALSE
  BY ParametersAre DEF ElectricityMapsInit, Inputs
<1>12. source = "electricitymaps" /\ points \in Seq(Point)
  BY DEF ElectricityMapsInit
<1> QED
  BY <1>8, <1>10, <1>11, <1>12 DEF WindowInv, InputOK, MadeAsTold, Answered

\* That of WattTime.
LEMMA PointsAreAveraged ==
  ASSUME WattTimeInit
  PROVE  WindowInv
<1>1. PICK v \in [1 .. Hour * PointHours -> PointValues \cup {0}] :
        points = [i \in DOMAIN v |-> [at |-> i - 1, value |-> v[i], readable |-> v[i] # 0]]
  BY DEF WattTimeInit, PointLists
<1>2. Hour * PointHours \in Nat /\ \A i \in 1 .. Hour * PointHours : v[i] \in Int /\ i - 1 \in Nat
  <2>1. Hour * PointHours \in Nat
    BY ParametersAre DEF Hour
  <2>2. \A i \in 1 .. Hour * PointHours : v[i] \in Int
    <3>1. \A i \in 1 .. Hour * PointHours : v[i] \in PointValues \cup {0}
      OBVIOUS
    <3>2. \A x \in PointValues \cup {0} : x \in Int
      BY ParametersAre
    <3> QED
      BY <3>1, <3>2
  <2>3. \A i \in 1 .. Hour * PointHours : i - 1 \in Nat
    BY <2>1
  <2> QED
    BY <2>1, <2>2, <2>3
<1>3. points \in [1 .. Hour * PointHours -> Point]
  BY <1>1, <1>2 DEF Point
<1>4. points \in Seq(Point)
  BY <1>2, <1>3
<1>5. forecast = HourlyAverage(points)
  BY DEF WattTimeInit
<1>6. forecast \in Seq(Slot) /\ Sorted(forecast)
  BY <1>4, <1>5, HourlyIs, HourlyIsSorted
<1>7. duration \in (Nat \ {0}) \cup {NaN} /\ now \in Nat /\ done = FALSE
  BY ParametersAre DEF WattTimeInit, Inputs
<1>8. source = "watttime"
  BY DEF WattTimeInit
<1> QED
  BY <1>4, <1>5, <1>6, <1>7, <1>8 DEF WindowInv, InputOK, MadeAsTold, Answered

\* The inductive invariant.
LEMMA WindowInvHolds == WindowSpec => []WindowInv
<1>1. MockInit \/ ElectricityMapsInit \/ WattTimeInit => WindowInv
  BY MockIsMade, BodyIsCut, PointsAreAveraged
<1>2. WindowInv /\ [Calculate]_checkVars => WindowInv'
  <2> SUFFICES ASSUME WindowInv, [Calculate]_checkVars PROVE WindowInv'
    OBVIOUS
  <2>1. CASE Calculate
    <3>1. UNCHANGED <<source, forecast, duration, now, points>> /\ done' = TRUE
          /\ window' = BestWindow(forecast, duration, now)
      BY <2>1 DEF Calculate
    <3> QED
      BY <3>1 DEF WindowInv, InputOK, MadeAsTold, Answered, Sorted
  <2>2. CASE UNCHANGED checkVars
    BY <2>2 DEF checkVars, WindowInv, InputOK, MadeAsTold, Answered, Sorted
  <2> QED
    BY <2>1, <2>2
<1> QED
  BY <1>1, <1>2, PTL DEF WindowSpec
-----------------------------------------------------------------------------

\* Whatever the forecast, the duration and the time of day, a window found is the
\* earliest of the cleanest blocks that do not begin in the past.
THEOREM WindowIsCleanest == WindowSpec => []CleanestWindow
<1>1. ASSUME WindowInv PROVE CleanestWindow
  <2> SUFFICES ASSUME done, window.ok
               PROVE  LET size == Slots(duration)
                      IN  \E i \in Starts(size) :
                            /\ forecast[i].at = window.start
                            /\ forecast[i + size - 1].at + Hour = window.end
                            /\ window.sum = BlockSum(forecast, i, size)
                            /\ \A j \in Starts(size) :
                                 \/ BlockSum(forecast, j, size) > window.sum
                                 \/ (BlockSum(forecast, j, size) = window.sum /\ j >= i)
    BY DEF CleanestWindow, Found
  <2>1. window = BestWindow(forecast, duration, now) /\ InputOK
    BY <1>1 DEF WindowInv, Answered
  <2>2. duration # NaN /\ duration \in Nat \ {0}
    <3>1. BestWindow(forecast, NaN, now) = NoWindow
      BY DEF BestWindow, FindOptimalWindow
    <3> QED
      BY <2>1, <3>1 DEF InputOK, NoWindow
  <2>3. PICK i \in Starts(Slots(duration)) :
          /\ IsBlock(window, forecast, i, Slots(duration))
          /\ FirstCleanest(forecast, i, Slots(duration), Starts(Slots(duration)))
    <3>1. ~ NoWindow.ok
      BY DEF NoWindow
    <3> QED
      BY <2>1, <2>2, <3>1, BestIs DEF InputOK
  <2> QED
    BY <2>3 DEF IsBlock, FirstCleanest
<1> QED
  BY <1>1, WindowInvHolds, PTL

\* A request is refused exactly when no block that is ahead is long enough, and the
\* mock's forecast of the hour has one for every duration up to a day.
THEOREM RefusalsAreRight == WindowSpec => []RefusedOnlyIfTooLong
<1>1. ASSUME WindowInv PROVE RefusedOnlyIfTooLong
  <2> SUFFICES ASSUME done PROVE RefusedOnlyIfTooLong
    BY DEF RefusedOnlyIfTooLong
  <2>1. window = BestWindow(forecast, duration, now) /\ InputOK /\ MadeAsTold
    BY <1>1 DEF WindowInv, Answered
  <2>2. ~ NoWindow.ok
    BY DEF NoWindow
  <2>3. CASE duration = NaN
    <3>1. window = NoWindow
      BY <2>1, <2>3 DEF BestWindow, FindOptimalWindow
    <3>2. duration \notin 1 .. Hour * ForecastHours
      BY <2>3, ParametersAre
    <3> QED
      BY <2>2, <2>3, <3>1, <3>2 DEF RefusedOnlyIfTooLong, Refused
  <2>4. CASE duration # NaN
    <3>1. duration \in Nat \ {0}
      BY <2>1, <2>4 DEF InputOK
    <3>2. \/ Starts(Slots(duration)) = {} /\ window = NoWindow
          \/ Starts(Slots(duration)) # {} /\ window.ok = TRUE
      <4> DEFINE w == BestWindow(forecast, duration, now)
                 size == Slots(duration)
      <4>1. \/ Starts(size) = {} /\ w = NoWindow
            \/ \E i \in Starts(size) : IsBlock(w, forecast, i, size)
        BY <2>1, <2>4, <3>1, BestIs DEF InputOK
      <4> HIDE DEF w, size
      <4>2. \A i : IsBlock(w, forecast, i, size) => w.ok = TRUE
        BY DEF IsBlock
      <4>3. window = w
        BY <2>1 DEF w
      <4> QED
        BY <4>1, <4>2, <4>3 DEF size
    <3>3. ASSUME source = "mock", now <= HourOf(Made) + Hour,
                 duration \in 1 .. Hour * ForecastHours
          PROVE  1 \in Starts(Slots(duration))
      <4>1. ForecastHours \in Nat /\ Slots(duration) \in Nat /\ ~ (Slots(duration) > ForecastHours)
        <5>1. ForecastHours \in Nat /\ ~ (duration > ForecastHours * Hour)
          BY <3>3, ParametersAre DEF Hour
        <5> QED
          BY <3>1, <5>1, SizeIsSlots
      <4>2. ForecastHours # 0
        BY <3>3, <4>1 DEF Hour
      <4>3. Len(forecast) = ForecastHours /\ forecast[1].at = HourOf(Made) + Hour * 1
        BY <2>1, <3>3, <4>1, <4>2 DEF MadeAsTold
      <4>4. forecast[1].at >= now
        <5>1. HourOf(Made) \in Int /\ now \in Int
          BY <2>1, ParametersAre DEF InputOK, HourOf, Hour
        <5> QED
          BY <3>3, <4>3, <5>1 DEF Hour
      <4>5. 1 \in 1 .. Len(forecast) - Slots(duration) + 1
        BY <4>1, <4>3
      <4> QED
        BY <4>4, <4>5 DEF Starts
    <3> QED
      BY <2>2, <2>4, <3>2, <3>3 DEF RefusedOnlyIfTooLong, Refused
  <2> QED
    BY <2>3, <2>4
<1> QED
  BY <1>1, WindowInvHolds, PTL

\* An hour is as dirty as its points, and those left out come behind all others.
THEOREM AveragesAreFaithful == WindowSpec => []HourlyIsFaithful
<1>1. ASSUME WindowInv PROVE HourlyIsFaithful
  <2> DEFINE readable == {i \in DOMAIN points : points[i].readable}
             inHour(h) == {i \in readable : HourOf(points[i].at) = h}
             hours == {forecast[k].at : k \in DOMAIN forecast}
             S == HoursOf(points)
             N == Cardinality(S)
             a == Ascending(S)
  <2> SUFFICES ASSUME source = "watttime"
               PROVE  /\ \A k \in DOMAIN forecast :
                           /\ \E i \in inHour(forecast[k].at) : points[i].value <= forecast[k].value
                           /\ \E i \in inHour(forecast[k].at) : points[i].value >= forecast[k].value
                      /\ \A i \in readable : \/ HourOf(points[i].at) \in hours
                                            \/ \A h \in hours : h < HourOf(points[i].at)
    BY DEF HourlyIsFaithful
  <2>1. forecast = HourlyAverage(points) /\ points \in Seq(Point)
    BY <1>1 DEF WindowInv, InputOK, MadeAsTold
  <2>2. /\ forecast \in Seq(Slot) /\ Len(forecast) <= N
        /\ \A k \in 1 .. Len(forecast) : /\ forecast[k].at = a[k]
                                         /\ forecast[k].value = Average(points, a[k])
    BY <2>1, HourlyIs
  <2>3. /\ N \in Nat /\ a \in [1 .. N -> S] /\ S \in SUBSET Nat
        /\ \A i, j \in 1 .. N : i < j => a[i] < a[j]
        /\ \A x \in S : \E i \in 1 .. N : a[i] = x
    BY <2>1, HoursAreFinite, AscendingIs
  <2>4. /\ Len(forecast) \in Nat /\ DOMAIN forecast = 1 .. Len(forecast)
        /\ DOMAIN points = 1 .. Len(points)
    BY <2>1, <2>2, SlotsOf
  <2> HIDE DEF N, a
  <2>5. ASSUME NEW k \in DOMAIN forecast
        PROVE  /\ \E i \in inHour(forecast[k].at) : points[i].value <= forecast[k].value
               /\ \E i \in inHour(forecast[k].at) : points[i].value >= forecast[k].value
    <3>1. k \in 1 .. Len(forecast) /\ a[k] \in S
      BY <2>2, <2>3, <2>4
    <3>2. forecast[k].at = a[k] /\ forecast[k].value = Average(points, a[k])
      BY <2>2, <3>1
    <3> DEFINE q == Average(points, a[k])
    <3>3. /\ \E i \in 1 .. Len(points) : InHour(points, i, a[k]) /\ points[i].value <= q
          /\ \E i \in 1 .. Len(points) : InHour(points, i, a[k]) /\ points[i].value >= q
      BY <2>1, <3>1, AverageIs DEF Average
    <3> HIDE DEF q
    <3>4. \A i \in 1 .. Len(points) : InHour(points, i, a[k]) => i \in inHour(a[k])
      BY <2>4 DEF InHour
    <3> QED
      BY <3>2, <3>3, <3>4 DEF q
  <2>6. ASSUME NEW i \in readable
        PROVE  HourOf(points[i].at) \in hours \/ \A h \in hours : h < HourOf(points[i].at)
    <3> DEFINE x == HourOf(points[i].at)
    <3>1. x \in S
      BY DEF HoursOf
    <3> HIDE DEF x
    <3>2. PICK m \in 1 .. N : a[m] = x
      BY <2>3, <3>1
    <3>3. CASE m <= Len(forecast)
      <4>1. m \in 1 .. Len(forecast)
        BY <2>3, <2>4, <3>3
      <4>2. forecast[m].at = x /\ m \in DOMAIN forecast
        BY <2>2, <2>4, <3>2, <4>1
      <4> QED
        BY <4>2 DEF x
    <3>4. CASE m > Len(forecast)
      <4>1. ASSUME NEW k \in DOMAIN forecast PROVE forecast[k].at < x
        <5>1. k \in 1 .. Len(forecast) /\ k \in 1 .. N /\ k < m
          BY <2>2, <2>3, <2>4, <3>2, <3>4
        <5>2. a[k] < a[m] /\ forecast[k].at = a[k]
          BY <2>2, <2>3, <5>1
        <5> QED
          BY <3>2, <5>2
      <4> QED
        BY <4>1 DEF x
    <3> QED
      BY <2>3, <2>4, <3>3, <3>4 DEF x
  <2> QED
    BY <2>5, <2>6
<1> QED
  BY <1>1, WindowInvHolds, PTL
=============================================================================
