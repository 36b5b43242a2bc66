--------------------------- MODULE CalculateProofs ---------------------------
(***************************************************************************)
(* What the runs check of the calculate endpoints and of the races behind  *)
(* them, proved for any number of providers, zips, workers and pool sizes, *)
(* and for a parameter of any length.                                      *)
(***************************************************************************)
EXTENDS Calculate, Loops, FiniteSetTheorems, TLAPS
-----------------------------------------------------------------------------
(* parseZipList. *)

\* What is kept of the first n pieces: each once, and all but blanks.
Kept(list, raw, n) ==
    /\ list \in Seq(Pieces)
    /\ \A i, j \in DOMAIN list : i # j => list[i] # list[j]
    /\ \A z : (\E i \in DOMAIN list : list[i] = z)
               <=> z # Blank /\ \E i \in 1 .. n : raw[i] = z

\* One more piece, as parseZipList takes it.
LEMMA KeepOne ==
  ASSUME NEW raw \in Seq(Pieces), NEW n \in 1 .. Len(raw), NEW list, Kept(list, raw, n - 1)
  PROVE  Kept(IF raw[n] = Blank \/ Contains(list, raw[n]) THEN list ELSE Append(list, raw[n]),
              raw, n)
<1> DEFINE z == raw[n]
<1>1. list \in Seq(Pieces) /\ z \in Pieces
  BY DEF Kept
<1>2. \A y : (\E i \in 1 .. n : raw[i] = y) <=> y = z \/ \E i \in 1 .. n - 1 : raw[i] = y
  OBVIOUS
<1>3. CASE z = Blank \/ Contains(list, z)
  <2>1. z # Blank => \E i \in 1 .. n - 1 : raw[i] = z
    <3>1. DOMAIN list = 1 .. Len(list)
      BY <1>1
    <3>2. z # Blank => \E i \in DOMAIN list : list[i] = z
      BY <1>3, <3>1 DEF Contains
    <3> HIDE DEF z
    <3> QED
      BY <3>2 DEF Kept
  <2>2. \A y : (y # Blank /\ \E i \in 1 .. n : raw[i] = y)
                 <=> (y # Blank /\ \E i \in 1 .. n - 1 : raw[i] = y)
    BY <1>2, <2>1
  <2>3. Kept(list, raw, n)
    BY <2>2 DEF Kept
  <2> QED
    BY <1>3, <2>3
<1>4. CASE ~ (z = Blank \/ Contains(list, z))
  <2> DEFINE more == Append(list, z)
  <2>1. /\ more \in Seq(Pieces)
        /\ DOMAIN more = 1 .. Len(list) + 1 /\ DOMAIN list = 1 .. Len(list)
        /\ more[Len(list) + 1] = z
        /\ \A i \in 1 .. Len(list) : more[i] = list[i]
    BY <1>1
  <2>2. \A i \in 1 .. Len(list) : list[i] # z
    BY <1>4 DEF Contains
  <2> HIDE DEF more
  <2>3. \A i, j \in DOMAIN more : i # j => more[i] # more[j]
    BY <1>1, <2>1, <2>2 DEF Kept
  <2>4. \A y : (\E i \in DOMAIN more : more[i] = y) <=> y = z \/ \E i \in DOMAIN list : list[i] = y
    BY <1>1, <2>1
  <2>5. Kept(more, raw, n)
    BY <1>2, <1>4, <2>1, <2>3, <2>4 DEF Kept
  <2> QED
    BY <1>4, <2>5 DEF more
<1> QED
  BY <1>3, <1>4

\* The list of a parameter has its zips, each once.
LEMMA DistinctKeeps ==
  ASSUME NEW raw \in Seq(Pieces)
  PROVE  Kept(Distinct(raw), raw, Len(raw))
<1> DEFINE N == Len(raw)
           A == Seq(Pieces)
           Next1(n, list) == IF raw[n] = Blank \/ Contains(list, raw[n])
                             THEN list ELSE Append(list, raw[n])
           step == [n \in 1 .. N |-> [list \in A |-> Next1(n, list)]]
           upTo == CHOOSE f : f = [n \in 0 .. N |-> IF n = 0 THEN <<>> ELSE Next1(n, f[n - 1])]
<1>1. N \in Nat /\ <<>> \in A
  OBVIOUS
<1>2. step \in [1 .. N -> [A -> A]]
  OBVIOUS
<1>3. PICK f : LoopOf(f, A, <<>>, N, step)
  <2> HIDE DEF N, A, step
  <2> QED
    BY <1>1, <1>2, LoopRuns
<1>values. /\ f \in [0 .. N -> A]
       /\ f[0] = <<>> /\ \A n \in 1 .. N : f[n] = step[n][f[n - 1]]
  BY <1>3 DEF LoopOf
<1>4. \A n \in 1 .. N : step[n][f[n - 1]] = Next1(n, f[n - 1])
  <2> HIDE DEF Next1, A, N
  <2>1. \A n \in 1 .. N : n - 1 \in 0 .. N
    BY <1>1
  <2>2. \A n \in 1 .. N : f[n - 1] \in A
    BY <1>values, <2>1
  <2> QED
    BY <2>2
<1>5. f = [n \in 0 .. N |-> IF n = 0 THEN <<>> ELSE Next1(n, f[n - 1])]
  <2> HIDE DEF Next1, step, A, N
  <2>1. \A n \in 0 .. N : n # 0 => n \in 1 .. N
    BY <1>1
  <2>2. \A n \in 0 .. N : f[n] = IF n = 0 THEN <<>> ELSE Next1(n, f[n - 1])
    BY <1>values, <1>4, <2>1
  <2>3. f = [n \in 0 .. N |-> f[n]]
    BY <1>values
  <2> QED
    BY <2>2, <2>3
<1>6. upTo = [n \in 0 .. N |-> IF n = 0 THEN <<>> ELSE Next1(n, upTo[n - 1])]
  BY <1>5
<1>7. Distinct(raw) = upTo[N]
  BY DEF Distinct
<1> HIDE DEF upTo
<1> DEFINE Good == {n \in 0 .. N : Kept(upTo[n], raw, n)}
<1>8. 0 \in Good
  BY <1>6 DEF Kept
<1>9. ASSUME NEW n \in 1 .. N, n - 1 \in Good PROVE n \in Good
  <2>1. upTo[n] = Next1(n, upTo[n - 1])
    <3>1. n \in 0 .. N /\ n # 0
      BY <1>1
    <3> HIDE DEF Next1, N
    <3> QED
      BY <1>6, <3>1
  <2>2. Kept(upTo[n - 1], raw, n - 1)
    BY <1>9
  <2> QED
    BY <2>1, <2>2, KeepOne
<1>10. N \in Good
  <2> HIDE DEF Good
  <2>1. Good \in SUBSET (0 .. N)
    BY DEF Good
  <2>2. \A n \in 1 .. N : n - 1 \in Good => n \in Good
    BY <1>9
  <2>3. \A n \in 0 .. N : n \in Good
    BY <1>1, <1>8, <2>1, <2>2, UpTo
  <2> QED
    BY <1>1, <2>3
<1> QED
  BY <1>7, <1>10

\* So has what it returns, unless that is <<>>, and no more of them than allowed.
LEMMA ParsedZips ==
  ASSUME NEW raw \in Seq(Pieces), ParseZipList(raw) # <<>>
  PROVE  LET list == ParseZipList(raw)
         IN  /\ list \in Seq(Pieces) /\ Len(list) <= MaxMultiZips
             /\ \A i, j \in DOMAIN list : i # j => list[i] # list[j]
             /\ ToSet(list) = ToSet(raw) \ {Blank}
<1> DEFINE list == Distinct(raw)
<1>1. Kept(list, raw, Len(raw))
  BY DistinctKeeps
<1>2. ParseZipList(raw) = list
  BY DEF ParseZipList
<1>3. Len(list) <= MaxMultiZips
  <2>1. Len(list) \in Nat /\ MaxMultiZips \in Nat
    BY <1>1, CalculateAssumption DEF Kept
  <2>2. ~ (Len(list) > MaxMultiZips)
    BY DEF ParseZipList
  <2> QED
    BY <2>1, <2>2
<1>4. DOMAIN raw = 1 .. Len(raw)
  OBVIOUS
<1>5. ToSet(list) = ToSet(raw) \ {Blank}
  <2> HIDE DEF list
  <2> QED
    <3>1. \A z : z \in ToSet(list) <=> \E i \in DOMAIN list : list[i] = z
      BY DEF ToSet
    <3>2. \A z : z \in ToSet(raw) <=> \E i \in 1 .. Len(raw) : raw[i] = z
      BY <1>4 DEF ToSet
    <3>3. \A z : z \in ToSet(list) <=> z \in ToSet(raw) /\ z # Blank
      BY <1>1, <3>1, <3>2 DEF Kept
    <3> QED
      BY <3>3
<1> QED
  BY <1>1, <1>2, <1>3, <1>5 DEF Kept
-----------------------------------------------------------------------------
(* The comparison of zones. *)

\* b: the first of the best among the first n windows, 0 if none of them has one.
BestOf(b, window, n) ==
    /\ b \in 0 .. n
    /\ b = 0 => \A i \in 1 .. n : ~ window[i].ok
    /\ b # 0 => /\ window[b].ok
                /\ \A j \in 1 .. n : window[j].ok =>
                     \/ window[j].average > window[b].average
                     \/ window[j].average = window[b].average /\ j >= b

\* One more window, as handleCalculateMulti compares it.
LEMMA CompareOne ==
  ASSUME NEW N \in Nat, NEW window \in [1 .. N -> Window],
         NEW n \in 1 .. N, NEW b, BestOf(b, window, n - 1)
  PROVE  BestOf(IF window[n].ok /\ (b = 0 \/ window[n].average < window[b].average)
                THEN n ELSE b, window, n)
<1>1. \A i \in 1 .. N : window[i].ok => window[i].average \in Int
  BY CalculateAssumption DEF Window
<1>2. b \in 0 .. n - 1
  BY DEF BestOf
<1>3. CASE window[n].ok /\ (b = 0 \/ window[n].average < window[b].average)
  <2>1. ASSUME NEW j \in 1 .. n, window[j].ok
        PROVE  \/ window[j].average > window[n].average
               \/ window[j].average = window[n].average /\ j >= n
    <3>1. CASE j = n
      BY <1>1, <1>3, <3>1
    <3>2. CASE j # n
      <4>1. j \in 1 .. n - 1
        BY <3>2
      <4>2. b # 0 /\ window[b].ok /\ b \in 1 .. N
        BY <1>2, <2>1, <4>1 DEF BestOf
      <4>3. window[j].average >= window[b].average
        BY <1>1, <2>1, <4>1, <4>2 DEF BestOf
      <4> QED
        BY <1>1, <1>3, <2>1, <4>1, <4>2, <4>3
    <3> QED
      BY <3>1, <3>2
  <2>2. BestOf(n, window, n)
    BY <1>3, <2>1 DEF BestOf
  <2> QED
    BY <1>3, <2>2
<1>4. CASE ~ (window[n].ok /\ (b = 0 \/ window[n].average < window[b].average))
  <2>1. CASE b = 0
    <3>1. ~ window[n].ok
      BY <1>4, <2>1
    <3>2. BestOf(b, window, n)
      BY <1>2, <2>1, <3>1 DEF BestOf
    <3> QED
      BY <1>4, <3>2
  <2>2. CASE b # 0
    <3>1. window[b].ok /\ b \in 1 .. N
      BY <1>2, <2>2 DEF BestOf
    <3>2. window[n].ok => window[n].average >= window[b].average /\ n >= b
      BY <1>1, <1>2, <1>4, <3>1
    <3>3. ASSUME NEW j \in 1 .. n, window[j].ok
          PROVE  \/ window[j].average > window[b].average
                 \/ window[j].average = window[b].average /\ j >= b
      <4>1. CASE j = n
        BY <1>1, <3>1, <3>2, <3>3, <4>1
      <4>2. CASE j # n
        <5>1. j \in 1 .. n - 1
          BY <4>2
        <5> QED
          BY <2>2, <3>3, <5>1 DEF BestOf
      <4> QED
        BY <4>1, <4>2
    <3>4. BestOf(b, window, n)
      BY <1>2, <2>2, <3>1, <3>3 DEF BestOf
    <3> QED
      BY <1>4, <3>4
  <2> QED
    BY <2>1, <2>2
<1> QED
  BY <1>3, <1>4

\* The loop finds the first of the best.
LEMMA GreenestIsBestOf ==
  ASSUME NEW N \in Nat, NEW window \in [1 .. N -> Window]
  PROVE  BestOf(Greenest(window), window, N)
<1> DEFINE A == 0 .. N
           Next1(n, b) == IF window[n].ok /\ (b = 0 \/ window[n].average < window[b].average)
                          THEN n ELSE b
           step == [n \in 1 .. N |-> [b \in A |-> Next1(n, b)]]
           best == CHOOSE f : f = [n \in 0 .. N |-> IF n = 0 THEN 0 ELSE Next1(n, f[n - 1])]
<1>1. 0 \in A
  OBVIOUS
<1>2. step \in [1 .. N -> [A -> A]]
  OBVIOUS
<1>3. PICK f : LoopOf(f, A, 0, N, step)
  <2> HIDE DEF A, step
  <2> QED
    BY <1>1, <1>2, LoopRuns
<1>values. /\ f \in [0 .. N -> A]
           /\ f[0] = 0 /\ \A n \in 1 .. N : f[n] = step[n][f[n - 1]]
  BY <1>3 DEF LoopOf
<1>4. \A n \in 1 .. N : step[n][f[n - 1]] = Next1(n, f[n - 1])
  <2>1. \A n \in 1 .. N : n - 1 \in 0 .. N
    OBVIOUS
  <2>2. \A n \in 1 .. N : f[n - 1] \in A
    BY <1>values, <2>1
  <2> HIDE DEF Next1, A
  <2> QED
    BY <2>2
<1>5. f = [n \in 0 .. N |-> IF n = 0 THEN 0 ELSE Next1(n, f[n - 1])]
  <2> HIDE DEF Next1, step, A
  <2>1. \A n \in 0 .. N : n # 0 => n \in 1 .. N
    OBVIOUS
  <2>2. \A n \in 0 .. N : f[n] = IF n = 0 THEN 0 ELSE Next1(n, f[n - 1])
    BY <1>values, <1>4, <2>1
  <2>3. f = [n \in 0 .. N |-> f[n]]
    BY <1>values
  <2> QED
    BY <2>2, <2>3
<1>6. best = [n \in 0 .. N |-> IF n = 0 THEN 0 ELSE Next1(n, best[n - 1])]
  BY <1>5
<1>7. Greenest(window) = best[N]
  <2>1. Len(window) = N
    OBVIOUS
  <2> QED
    BY <2>1 DEF Greenest
<1> HIDE DEF best
<1> DEFINE Good == {n \in 0 .. N : BestOf(best[n], window, n)}
<1>8. 0 \in Good
  <2>1. best[0] = 0
    BY <1>6
  <2> QED
    BY <2>1 DEF BestOf
<1>9. ASSUME NEW n \in 1 .. N, n - 1 \in Good PROVE n \in Good
  <2>1. best[n] = Next1(n, best[n - 1])
    <3>1. n \in 0 .. N /\ n # 0
      OBVIOUS
    <3> HIDE DEF Next1
    <3> QED
      BY <1>6, <3>1
  <2>2. BestOf(best[n - 1], window, n - 1)
    BY <1>9
  <2>3. BestOf(Next1(n, best[n - 1]), window, n)
    BY <2>2, CompareOne
  <2> QED
    BY <2>1, <2>3
<1>10. N \in Good
  <2> HIDE DEF Good
  <2>1. Good \in SUBSET (0 .. N)
    BY DEF Good
  <2>2. \A n \in 1 .. N : n - 1 \in Good => n \in Good
    BY <1>9
  <2>3. \A n \in 0 .. N : n \in Good
    BY <1>8, <2>1, <2>2, UpTo
  <2> QED
    BY <2>3
<1> QED
  BY <1>7, <1>10
-----------------------------------------------------------------------------
(* One race.                                                               *)

CallRecord == [pc : {"unborn", "fetching", "sending", "exited"}, ok : BOOLEAN]

RaceRecord ==
    [call : [Providers -> CallRecord],
     results : Seq(Result), errs : Seq(Providers), answer : Answer]

\* A goroutine that has sent its result and is done.
Done(ok) == [pc |-> "exited", ok |-> ok]

\* What is in the channel and what the racer has noted are results of goroutines
\* that are done, each at one place of one of the two; so is the winner's.
Sound(results, call, errs, answer) ==
    /\ \A i \in DOMAIN results : call[results[i].provider] = Done(results[i].ok)
    /\ \A i, j \in DOMAIN results : results[i].provider = results[j].provider => i = j
    /\ \A i \in DOMAIN errs : call[errs[i]] = Done(FALSE)
    /\ \A i, j \in DOMAIN errs : errs[i] = errs[j] => i = j
    /\ \A i \in DOMAIN results, j \in DOMAIN errs : results[i].provider # errs[j]
    /\ answer.kind = "won" => call[answer.provider] = Done(TRUE)
    /\ answer.kind = "failed" => Len(errs) = Cardinality(Providers)

RaceSound(x) == Sound(x.results, x.call, x.errs, x.answer)

RacesSound ==
    \A r \in Races : RaceSound(race[r]) /\ (race[r].answer.kind = "cancelled" => expired)

\* The providers can be counted.
LEMMA ProvidersAreMany == Cardinality(Providers) \in Nat
  BY RaceAssumption, FS_CardinalityType

\* What a race is made of.
LEMMA RaceFields ==
  ASSUME NEW x \in RaceRecord
  PROVE  /\ x.call \in [Providers -> CallRecord]
         /\ x.results \in Seq(Result) /\ x.errs \in Seq(Providers) /\ x.answer \in Answer
         /\ \A i \in DOMAIN x.results : x.results[i].provider \in Providers /\ x.results[i].ok \in BOOLEAN
         /\ \A i \in DOMAIN x.errs : x.errs[i] \in Providers
         /\ x.answer.kind = "won" => x.answer.provider \in Providers
<1>1. /\ x.call \in [Providers -> CallRecord]
      /\ x.results \in Seq(Result) /\ x.errs \in Seq(Providers) /\ x.answer \in Answer
  BY DEF RaceRecord
<1>2. \A i \in DOMAIN x.results : x.results[i] \in Result
  BY <1>1
<1>3. \A i \in DOMAIN x.errs : x.errs[i] \in Providers
  BY <1>1
<1>4. x.answer.kind = "won" => x.answer.provider \in Providers
  BY <1>1 DEF Answer
<1> QED
  BY <1>1, <1>2, <1>3, <1>4 DEF Result

\* Nothing received and nothing to be received is sound before the race's end.
LEMMA EmptySound ==
  ASSUME NEW call, NEW answer, answer.kind \notin {"won", "failed"}
  PROVE  Sound(<<>>, call, <<>>, answer)
<1>1. DOMAIN <<>> = {}
  OBVIOUS
<1> QED
  BY <1>1 DEF Sound

\* A race that has not begun is sound.
LEMMA UnaskedSound == Unasked \in RaceRecord /\ RaceSound(Unasked)
<1> DEFINE call == [p \in Providers |-> [pc |-> "unborn", ok |-> FALSE]]
<1>1. call \in [Providers -> CallRecord]
  BY DEF CallRecord
<1>2. NoForecast("unasked") \in Answer /\ NoForecast("unasked").kind = "unasked"
  BY DEF NoForecast, Answer
<1>3. Unasked = [call |-> call, results |-> <<>>, errs |-> <<>>, answer |-> NoForecast("unasked")]
  BY DEF Unasked
<1> HIDE DEF call
<1>4. Sound(<<>>, call, <<>>, NoForecast("unasked"))
  BY <1>2, EmptySound
<1>5. Unasked \in RaceRecord
  BY <1>1, <1>2, <1>3 DEF RaceRecord
<1> QED
  BY <1>3, <1>4, <1>5 DEF RaceSound

\* The goroutines are spawned with an empty channel.
LEMMA BeginRaceSound ==
  ASSUME RaceTypeOK, NEW r \in Races, BeginRace(r)
  PROVE  race' \in [Races -> RaceRecord] /\ RaceSound(race'[r]) /\ race'[r].answer.kind = "open"
<1>1. race \in [Races -> RaceRecord]
  BY DEF RaceTypeOK, RaceRecord, CallRecord
<1>2. race'[r] = [Unasked EXCEPT !.call = [p \in Providers |-> [pc |-> "fetching", ok |-> FALSE]],
                                 !.answer = NoForecast("open")]
  BY <1>1 DEF BeginRace
<1>3. race'[r] \in RaceRecord /\ race'[r].answer.kind = "open" /\ RaceSound(race'[r])
  <2> DEFINE call == [p \in Providers |-> [pc |-> "fetching", ok |-> FALSE]]
  <2>1. call \in [Providers -> CallRecord]
    BY DEF CallRecord
  <2>2. NoForecast("open") \in Answer /\ NoForecast("open").kind = "open"
    BY DEF NoForecast, Answer
  <2>3. race'[r] = [Unasked EXCEPT !.call = call, !.answer = NoForecast("open")]
    BY <1>2
  <2> HIDE DEF call
  <2>4. /\ race'[r] \in RaceRecord /\ race'[r].answer = NoForecast("open")
        /\ race'[r].results = <<>> /\ race'[r].errs = <<>>
    BY <2>1, <2>2, <2>3, UnaskedSound DEF RaceRecord, Unasked
  <2> QED
    BY <2>2, <2>4, EmptySound DEF RaceSound
<1>4. race' \in [Races -> RaceRecord]
  BY <1>1, <1>3 DEF BeginRace
<1> QED
  BY <1>3, <1>4

\* A call that returns was not done before.
LEMMA GetForecastSound ==
  ASSUME RaceTypeOK, NEW r \in Races, NEW p \in Providers,
         RaceSound(race[r]), GetForecast(r, p)
  PROVE  race' \in [Races -> RaceRecord] /\ RaceSound(race'[r])
<1>1. race \in [Races -> RaceRecord]
  BY DEF RaceTypeOK, RaceRecord, CallRecord
<1> DEFINE x == race[r]
<1>2. PICK ok \in BOOLEAN : race' = [race EXCEPT ![r].call[p] = [pc |-> "sending", ok |-> ok]]
  BY DEF GetForecast
<1>3. race'[r] = [x EXCEPT !.call[p] = [pc |-> "sending", ok |-> ok]]
  BY <1>1, <1>2
<1>4. race'[r] \in RaceRecord
  <2>1. [pc |-> "sending", ok |-> ok] \in CallRecord
    BY DEF CallRecord
  <2>2. x \in RaceRecord
    BY <1>1
  <2> HIDE DEF x
  <2> QED
    BY <1>3, <2>1, <2>2 DEF RaceRecord
<1>5. /\ race'[r].results = x.results /\ race'[r].errs = x.errs /\ race'[r].answer = x.answer
      /\ \A q \in Providers : q # p => race'[r].call[q] = x.call[q]
  BY <1>1, <1>3 DEF RaceRecord
<1>6. /\ \A i \in DOMAIN x.results : x.results[i].provider \in Providers /\ x.results[i].ok \in BOOLEAN
      /\ \A i \in DOMAIN x.errs : x.errs[i] \in Providers
      /\ x.answer.kind = "won" => x.answer.provider \in Providers
  BY <1>1, RaceFields
<1>7. \A ok1 \in BOOLEAN : x.call[p] # Done(ok1)
  BY DEF GetForecast, Done
<1> DEFINE call == race'[r].call
<1>9. Sound(x.results, call, x.errs, x.answer)
  <2>1. Sound(x.results, x.call, x.errs, x.answer)
    BY DEF RaceSound
  <2>2. \A q \in Providers : q # p => call[q] = x.call[q]
    BY <1>5
  <2> HIDE DEF x, call
  <2> QED
    BY <1>6, <1>7, <2>1, <2>2 DEF Sound
<1>10. RaceSound(race'[r])
  BY <1>5, <1>9 DEF RaceSound
<1> QED
  BY <1>1, <1>2, <1>4, <1>10

\* A result that is sent is of a goroutine that had none in the channel.
LEMMA SendSound ==
  ASSUME RaceTypeOK, NEW r \in Races, NEW p \in Providers,
         RaceSound(race[r]), Send(r, p)
  PROVE  race' \in [Races -> RaceRecord] /\ RaceSound(race'[r])
<1>1. race \in [Races -> RaceRecord]
  BY DEF RaceTypeOK, RaceRecord, CallRecord
<1> DEFINE x == race[r]
           mine == [provider |-> p, ok |-> x.call[p].ok]
           more == Append(x.results, mine)
           call == [x.call EXCEPT ![p].pc = "exited"]
<1>2. x \in RaceRecord
  BY <1>1
<1>3. race'[r] = [x EXCEPT !.results = more, !.call = call]
  <2>1. race'[r] = [x EXCEPT !.results = more, !.call[p].pc = "exited"]
    BY <1>1 DEF Send
  <2> HIDE DEF x, more
  <2> QED
    BY <1>2, <2>1 DEF RaceRecord
<1>sending. x.call[p].pc = "sending"
  BY DEF Send
<1> HIDE DEF x
<1>fields. /\ x.call \in [Providers -> CallRecord]
           /\ x.results \in Seq(Result) /\ x.errs \in Seq(Providers) /\ x.answer \in Answer
           /\ \A i \in DOMAIN x.results : x.results[i].provider \in Providers /\ x.results[i].ok \in BOOLEAN
           /\ \A i \in DOMAIN x.errs : x.errs[i] \in Providers
           /\ x.answer.kind = "won" => x.answer.provider \in Providers
  BY <1>2, RaceFields
<1>4. mine \in Result
  BY <1>fields DEF Result, CallRecord
<1>5. more \in Seq(Result)
  BY <1>fields, <1>4
<1>6. call \in [Providers -> CallRecord] /\ call[p] = Done(mine.ok)
  BY <1>fields DEF CallRecord, Done
<1>7. \A q \in Providers : q # p => call[q] = x.call[q]
  BY <1>fields
<1>8. /\ DOMAIN x.results = 1 .. Len(x.results) /\ Len(x.results) \in Nat
      /\ DOMAIN more = 1 .. Len(x.results) + 1
      /\ more[Len(x.results) + 1] = mine
      /\ \A i \in DOMAIN x.results : more[i] = x.results[i]
  BY <1>4, <1>fields
<1>9. mine.provider = p
  OBVIOUS
<1>sound. Sound(x.results, x.call, x.errs, x.answer)
  BY DEF RaceSound, x
<1>10. \A ok \in BOOLEAN : x.call[p] # Done(ok)
  BY <1>sending DEF Done
<1> HIDE DEF more, call, mine
<1>11. /\ \A i \in DOMAIN x.results : x.results[i].provider # p
       /\ \A i \in DOMAIN x.errs : x.errs[i] # p
       /\ x.answer.kind = "won" => x.answer.provider # p
  BY <1>fields, <1>10, <1>sound DEF Sound
<1>12. Sound(more, call, x.errs, x.answer)
  <2>1. \A i \in DOMAIN more : i \in DOMAIN x.results \/ i = Len(x.results) + 1
    BY <1>8
  <2>2. ASSUME NEW i \in DOMAIN more PROVE call[more[i].provider] = Done(more[i].ok)
    <3>1. CASE i \in DOMAIN x.results
      BY <1>fields, <1>7, <1>8, <1>11, <1>sound, <3>1 DEF Sound
    <3>2. CASE i = Len(x.results) + 1
      BY <1>6, <1>8, <1>9, <3>2
    <3> QED
      BY <2>1, <3>1, <3>2
  <2>3. \A i, j \in DOMAIN more : more[i].provider = more[j].provider => i = j
    BY <1>8, <1>9, <1>11, <1>sound, <2>1 DEF Sound
  <2>4. \A i \in DOMAIN more, j \in DOMAIN x.errs : more[i].provider # x.errs[j]
    BY <1>8, <1>9, <1>11, <1>sound, <2>1 DEF Sound
  <2>5. \A i \in DOMAIN x.errs : call[x.errs[i]] = Done(FALSE)
    BY <1>fields, <1>7, <1>11, <1>sound DEF Sound
  <2>6. x.answer.kind = "won" => call[x.answer.provider] = Done(TRUE)
    BY <1>fields, <1>7, <1>11, <1>sound DEF Sound
  <2> QED
    BY <1>sound, <2>2, <2>3, <2>4, <2>5, <2>6 DEF Sound
<1>13. race'[r] \in RaceRecord /\ RaceSound(race'[r])
  <2>1. /\ race'[r].results = more /\ race'[r].call = call
        /\ race'[r].errs = x.errs /\ race'[r].answer = x.answer
    BY <1>2, <1>3 DEF RaceRecord
  <2>2. race'[r] \in RaceRecord
    BY <1>2, <1>3, <1>5, <1>6 DEF RaceRecord
  <2> QED
    BY <1>12, <2>1, <2>2 DEF RaceSound
<1>14. race' \in [Races -> RaceRecord]
  BY <1>1, <1>13 DEF Send
<1> QED
  BY <1>13, <1>14

\* What is received leaves the channel, as it is or for the list of errors.
LEMMA ReceiveSound ==
  ASSUME RaceTypeOK, NEW r \in Races, RaceSound(race[r]), Receive(r)
  PROVE  race' \in [Races -> RaceRecord] /\ RaceSound(race'[r])
<1>1. race \in [Races -> RaceRecord]
  BY DEF RaceTypeOK, RaceRecord, CallRecord
<1> DEFINE x == race[r]
           rest == Tail(x.results)
           first == Head(x.results)
           more == Append(x.errs, first.provider)
<1>2. x \in RaceRecord
  BY <1>1
<1>sound. Sound(x.results, x.call, x.errs, x.answer)
  BY DEF RaceSound
<1> HIDE DEF x
<1>fields. /\ x.call \in [Providers -> CallRecord]
           /\ x.results \in Seq(Result) /\ x.errs \in Seq(Providers) /\ x.answer \in Answer
           /\ \A i \in DOMAIN x.results : x.results[i].provider \in Providers /\ x.results[i].ok \in BOOLEAN
           /\ \A i \in DOMAIN x.errs : x.errs[i] \in Providers
           /\ x.answer.kind = "won" => x.answer.provider \in Providers
  BY <1>2, RaceFields
<1>3. ASSUME x.results # <<>>
      PROVE  /\ rest \in Seq(Result) /\ DOMAIN rest = 1 .. Len(x.results) - 1
             /\ \A i \in DOMAIN rest : i + 1 \in DOMAIN x.results /\ rest[i] = x.results[i + 1]
             /\ 1 \in DOMAIN x.results /\ first = x.results[1]
             /\ first.provider \in Providers /\ first.ok \in BOOLEAN
             /\ \A i \in DOMAIN rest : rest[i].provider # first.provider
             /\ more \in Seq(Providers)
             /\ DOMAIN x.errs = 1 .. Len(x.errs) /\ Len(x.errs) \in Nat
             /\ DOMAIN more = 1 .. Len(x.errs) + 1 /\ Len(more) = Len(x.errs) + 1
             /\ more[Len(x.errs) + 1] = first.provider
             /\ \A i \in DOMAIN x.errs : more[i] = x.errs[i]
  <2>1. /\ rest \in Seq(Result) /\ DOMAIN rest = 1 .. Len(x.results) - 1
        /\ \A i \in DOMAIN rest : i + 1 \in DOMAIN x.results /\ rest[i] = x.results[i + 1]
        /\ 1 \in DOMAIN x.results /\ first = x.results[1]
    BY <1>fields, <1>3
  <2>2. first.provider \in Providers /\ first.ok \in BOOLEAN
    BY <1>fields, <2>1
  <2>3. \A i \in DOMAIN rest : rest[i].provider # first.provider
    <3> HIDE DEF rest, first
    <3>1. \A i \in DOMAIN rest : i + 1 # 1
      BY <2>1
    <3> QED
      BY <1>sound, <2>1, <3>1 DEF Sound
  <2>4. /\ more \in Seq(Providers)
        /\ DOMAIN x.errs = 1 .. Len(x.errs) /\ Len(x.errs) \in Nat
        /\ DOMAIN more = 1 .. Len(x.errs) + 1 /\ Len(more) = Len(x.errs) + 1
        /\ more[Len(x.errs) + 1] = first.provider
        /\ \A i \in DOMAIN x.errs : more[i] = x.errs[i]
    BY <1>fields, <2>2
  <2> QED
    BY <2>1, <2>2, <2>3, <2>4
<1>4. ASSUME x.results # <<>>
      PROVE  \A answer : Sound(x.results, x.call, x.errs, answer) => Sound(rest, x.call, x.errs, answer)
  <2> HIDE DEF rest, first, more
  <2>1. \A i \in DOMAIN rest : x.call[rest[i].provider] = Done(rest[i].ok)
    BY <1>3, <1>4, <1>sound DEF Sound
  <2>2. \A i, j \in DOMAIN rest : i # j => i + 1 # j + 1
    BY <1>3, <1>4
  <2>3. \A i, j \in DOMAIN rest : rest[i].provider = rest[j].provider => i = j
    BY <1>3, <1>4, <1>sound, <2>2 DEF Sound
  <2>4. \A i \in DOMAIN rest, j \in DOMAIN x.errs : rest[i].provider # x.errs[j]
    BY <1>3, <1>4, <1>sound DEF Sound
  <2> QED
    BY <2>1, <2>3, <2>4 DEF Sound
<1>done. ASSUME x.results # <<>> PROVE x.call[first.provider] = Done(first.ok)
  <2> HIDE DEF rest, first, more
  <2>1. 1 \in DOMAIN x.results /\ first = x.results[1]
    BY <1>3, <1>done
  <2>2. x.call[x.results[1].provider] = Done(x.results[1].ok)
    BY <1>sound, <2>1 DEF Sound
  <2> QED
    BY <2>1, <2>2
<1>5. CASE ReceiveForecast(r)
  <2>1. x.results # <<>> /\ first.ok /\ x.answer.kind = "open"
    BY <1>5 DEF ReceiveForecast, Arrived, Received, Racing, x
  <2> DEFINE answer == [kind |-> "won", provider |-> first.provider]
  <2>2. race' = [race EXCEPT ![r] = [x EXCEPT !.results = rest, !.answer = answer]]
    BY <1>1, <1>5 DEF ReceiveForecast, Received, x
  <2>3. answer \in Answer
    BY <1>3, <2>1 DEF Answer
  <2>4. answer.kind = "won" /\ answer.provider = first.provider
    OBVIOUS
  <2> HIDE DEF rest, first, more, answer
  <2>5. x.call[first.provider] = Done(TRUE)
    <3>1. first.ok = TRUE
      BY <1>3, <2>1
    <3> QED
      BY <1>done, <2>1, <3>1
  <2>6. Sound(x.results, x.call, x.errs, answer)
    BY <1>sound, <2>4, <2>5 DEF Sound
  <2>7. Sound(rest, x.call, x.errs, answer)
    BY <1>4, <2>1, <2>6
  <2>8. [x EXCEPT !.results = rest, !.answer = answer] \in RaceRecord
    BY <1>2, <1>3, <2>1, <2>3 DEF RaceRecord
  <2>9. race' \in [Races -> RaceRecord]
    BY <1>1, <2>2, <2>8
  <2>10. /\ race'[r].results = rest /\ race'[r].call = x.call
         /\ race'[r].errs = x.errs /\ race'[r].answer = answer
    BY <1>1, <1>2, <2>2 DEF RaceRecord
  <2> QED
    BY <2>7, <2>9, <2>10 DEF RaceSound
<1>6. CASE ReceiveError(r)
  <2>1. x.results # <<>> /\ ~ first.ok /\ x.answer.kind = "open"
    BY <1>6 DEF ReceiveError, Arrived, Received, Racing, x
  <2> DEFINE answer == IF Len(x.errs) + 1 = Cardinality(Providers)
                       THEN NoForecast("failed") ELSE x.answer
  <2>2. race' = [race EXCEPT ![r] = [x EXCEPT !.results = rest, !.errs = more, !.answer = answer]]
    BY <1>1, <1>6 DEF ReceiveError, Received, x
  <2>3. answer \in Answer
    BY <1>fields DEF Answer, NoForecast
  <2>4. answer.kind # "won" /\ (answer.kind = "failed" => Len(x.errs) + 1 = Cardinality(Providers))
    BY <2>1 DEF NoForecast
  <2> HIDE DEF rest, first, more, answer
  <2>5. x.call[first.provider] = Done(FALSE)
    <3>1. first.ok = FALSE
      BY <1>3, <2>1
    <3> QED
      BY <1>done, <2>1, <3>1
  <2>6. Sound(rest, x.call, x.errs, x.answer)
    BY <1>4, <1>sound, <2>1
  <2>7. Sound(rest, x.call, more, answer)
    <3>1. \A i \in DOMAIN more : i \in DOMAIN x.errs \/ i = Len(x.errs) + 1
      BY <1>3, <2>1
    <3>2. \A i \in DOMAIN x.errs : x.errs[i] # first.provider
      BY <1>3, <1>sound, <2>1 DEF Sound
    <3>3. ASSUME NEW i \in DOMAIN more PROVE x.call[more[i]] = Done(FALSE)
      <4>1. CASE i \in DOMAIN x.errs
        BY <1>3, <2>1, <2>6, <4>1 DEF Sound
      <4>2. CASE i = Len(x.errs) + 1
        BY <1>3, <2>1, <2>5, <4>2
      <4> QED
        BY <3>1, <4>1, <4>2
    <3>4. \A i, j \in DOMAIN more : more[i] = more[j] => i = j
      BY <1>3, <2>1, <2>6, <3>1, <3>2 DEF Sound
    <3>5. \A i \in DOMAIN rest, j \in DOMAIN more : rest[i].provider # more[j]
      BY <1>3, <2>1, <2>6, <3>1 DEF Sound
    <3>6. answer.kind = "failed" => Len(more) = Cardinality(Providers)
      BY <1>3, <2>1, <2>4
    <3> QED
      BY <2>4, <2>6, <3>3, <3>4, <3>5, <3>6 DEF Sound
  <2>8. [x EXCEPT !.results = rest, !.errs = more, !.answer = answer] \in RaceRecord
    BY <1>2, <1>3, <2>1, <2>3 DEF RaceRecord
  <2>9. race' \in [Races -> RaceRecord]
    BY <1>1, <2>2, <2>8
  <2>10. /\ race'[r].results = rest /\ race'[r].call = x.call
         /\ race'[r].errs = more /\ race'[r].answer = answer
    BY <1>1, <1>2, <2>2 DEF RaceRecord
  <2> QED
    BY <2>7, <2>9, <2>10 DEF RaceSound
<1>7. CASE Cancelled(r)
  <2> DEFINE answer == NoForecast("cancelled")
  <2>1. race' = [race EXCEPT ![r] = [x EXCEPT !.answer = answer]]
    BY <1>1, <1>7 DEF Cancelled, x
  <2>2. answer \in Answer /\ answer.kind = "cancelled"
    BY DEF Answer, NoForecast
  <2> HIDE DEF answer
  <2>3. [x EXCEPT !.answer = answer] \in RaceRecord
    BY <1>2, <2>2 DEF RaceRecord
  <2>4. race' \in [Races -> RaceRecord]
    BY <1>1, <2>1, <2>3
  <2>5. /\ race'[r].results = x.results /\ race'[r].call = x.call
        /\ race'[r].errs = x.errs /\ race'[r].answer = answer
    BY <1>1, <1>2, <2>1 DEF RaceRecord
  <2>6. Sound(x.results, x.call, x.errs, answer)
    BY <1>sound, <2>2 DEF Sound
  <2> QED
    BY <2>4, <2>5, <2>6 DEF RaceSound
<1> QED
  BY <1>5, <1>6, <1>7 DEF Receive

\* A step of a race that is under way leaves the others alone, and an answer that
\* was given; a race is called off only when the caller's time is over.
LEMMA RaceStepEffect ==
  ASSUME RaceTypeOK, NEW r \in Races, RaceStep(r)
  PROVE  /\ \A q \in Races : q # r => race'[q] = race[q]
         /\ race[r] # Unasked
         /\ ~ Racing(r) => race'[r].answer = race[r].answer
         /\ Racing(r) => race'[r].answer.kind # "unasked"
         /\ race'[r].answer.kind = "cancelled" => race[r].answer.kind = "cancelled" \/ expired
         /\ UNCHANGED expired
<1>1. race \in [Races -> RaceRecord]
  BY DEF RaceTypeOK, RaceRecord, CallRecord
<1>2. /\ Unasked.answer.kind = "unasked"
      /\ \A p \in Providers : Unasked.call[p].pc = "unborn"
  BY DEF Unasked, NoForecast
<1>3. CASE Receive(r)
  <2>1. /\ \A q \in Races : q # r => race'[q] = race[q]
        /\ UNCHANGED expired
        /\ Racing(r)
    BY <1>1, <1>3 DEF Receive, ReceiveForecast, ReceiveError, Cancelled
  <2>2. race[r] # Unasked
    BY <1>2, <2>1 DEF Racing
  <2>3. CASE ReceiveForecast(r)
    <3>1. race'[r].answer.kind = "won"
      BY <1>1, <2>3 DEF ReceiveForecast, RaceRecord
    <3> QED
      BY <2>1, <2>2, <3>1
  <2>4. CASE ReceiveError(r)
    <3>1. race'[r].answer = NoForecast("failed") \/ race'[r].answer = race[r].answer
      BY <1>1, <2>4 DEF ReceiveError, RaceRecord
    <3>2. race'[r].answer.kind \in {"failed", "open"}
      BY <2>1, <3>1 DEF NoForecast, Racing
    <3> QED
      BY <2>1, <2>2, <3>2
  <2>5. CASE Cancelled(r)
    <3>1. race'[r].answer.kind = "cancelled" /\ expired
      BY <1>1, <2>5 DEF Cancelled, RaceRecord, NoForecast
    <3> QED
      BY <2>1, <2>2, <3>1
  <2> QED
    BY <1>3, <2>3, <2>4, <2>5 DEF Receive
<1>4. ASSUME NEW p \in Providers, GetForecast(r, p) \/ Send(r, p)
      PROVE  /\ \A q \in Races : q # r => race'[q] = race[q]
             /\ UNCHANGED expired
             /\ race'[r].answer = race[r].answer
             /\ race[r].call[p].pc # "unborn"
  <2>1. CASE GetForecast(r, p)
    BY <1>1, <2>1 DEF GetForecast, RaceRecord
  <2>2. CASE Send(r, p)
    <3>1. /\ \A q \in Races : q # r => race'[q] = race[q]
          /\ UNCHANGED expired
          /\ race[r].call[p].pc = "sending"
      BY <1>1, <2>2 DEF Send
    <3>2. race'[r].answer = race[r].answer
      BY <1>1, <2>2 DEF Send, RaceRecord
    <3> QED
      BY <3>1, <3>2
  <2> QED
    BY <1>4, <2>1, <2>2
<1>5. ASSUME NEW p \in Providers, GetForecast(r, p) \/ Send(r, p) PROVE race[r] # Unasked
  BY <1>2, <1>4, <1>5
<1>6. CASE \E p \in Providers : GetForecast(r, p) \/ Send(r, p)
  BY <1>4, <1>5, <1>6 DEF Racing
<1> QED
  BY <1>3, <1>6 DEF RaceStep

\* The request's steps begin a race, make a step of one, or leave them all alone.
LEMMA StepOfRaces ==
  ASSUME RaceTypeOK, [CalcNext]_calcVars
  PROVE  /\ \/ race' = race
            \/ \E r \in Races : BeginRace(r) \/ RaceStep(r)
         /\ expired' \in BOOLEAN /\ (expired => expired')
<1> USE DEF RaceTypeOK
<1>1. CASE UNCHANGED calcVars
  BY <1>1 DEF calcVars, zoneVars, raceVars
<1>2. CASE Parse \/ LookupFails
  BY <1>2 DEF Parse, LookupFails, zoneVars, raceVars
<1>begin. ASSUME NEW n, BeginRace(n)
          PROVE  race' = race \/ \E r \in Races : BeginRace(r) \/ RaceStep(r)
  <2>1. CASE n \in Races
    BY <1>begin, <2>1
  <2>2. CASE n \notin Races
    <3>1. race' = race
      BY <1>begin, <2>2 DEF BeginRace
    <3> QED
      BY <3>1
  <2> QED
    BY <2>1, <2>2
<1>3. CASE StartRace
  BY <1>3, <1>begin DEF StartRace
<1>4. CASE StartRaces
  BY <1>4 DEF StartRaces, StartPool, raceVars
<1>5. CASE ReplyOne \/ Reply
  BY <1>5 DEF ReplyOne, Reply, HandlerReturns
<1>6. CASE Pool
  <2>1. CASE Close
    BY <2>1 DEF Close, raceVars
  <2>2. ASSUME NEW w \in DOMAIN worker, Hand(w)
        PROVE  BeginRace(sent + 1) /\ UNCHANGED expired
    BY <2>2 DEF Hand
  <2>3. ASSUME NEW w \in DOMAIN worker, RaceIsOver(w) \/ Store(w) \/ Exit(w)
        PROVE  UNCHANGED raceVars
    BY <2>3 DEF RaceIsOver, Store, Exit
  <2> QED
    BY <1>6, <1>begin, <2>1, <2>2, <2>3 DEF Pool, Work, raceVars
<1>7. CASE Expire
  BY <1>7 DEF Expire
<1>8. ASSUME NEW r \in Races, RaceStep(r)
      PROVE  /\ \E q \in Races : BeginRace(q) \/ RaceStep(q)
             /\ UNCHANGED expired
  BY <1>8, RaceStepEffect
<1> QED
  BY <1>1, <1>2, <1>3, <1>4, <1>5, <1>6, <1>7, <1>8 DEF CalcNext, Handle

\* Of every race, all along.
RacesInv == RaceTypeOK /\ RacesSound

\* It holds of races nobody has asked for.
LEMMA RacesInit == CalcInit => RacesInv
<1> SUFFICES ASSUME CalcInit PROVE RacesInv
  OBVIOUS
<1>1. race = [r \in Races |-> Unasked] /\ expired = FALSE
  BY DEF CalcInit, RaceInit
<1>2. RaceTypeOK
  BY <1>1, UnaskedSound DEF RaceTypeOK, RaceRecord, CallRecord
<1>3. Unasked.answer.kind = "unasked"
  BY DEF Unasked, NoForecast
<1> QED
  BY <1>1, <1>2, <1>3, UnaskedSound DEF RacesInv, RacesSound

\* And is kept by every step.
LEMMA RacesStep ==
  ASSUME RacesInv, [CalcNext]_calcVars
  PROVE  RacesInv'
<1>1. RaceTypeOK /\ race \in [Races -> RaceRecord]
  BY DEF RacesInv, RaceTypeOK, RaceRecord, CallRecord
<1>2. \A r \in Races : RaceSound(race[r]) /\ (race[r].answer.kind = "cancelled" => expired)
  BY DEF RacesInv, RacesSound
<1>3. expired' \in BOOLEAN /\ (expired => expired')
  BY <1>1, StepOfRaces
<1>4. /\ race' \in [Races -> RaceRecord]
      /\ \A r \in Races : RaceSound(race'[r]) /\ (race'[r].answer.kind = "cancelled" => expired')
  <2>1. CASE race' = race
    BY <1>1, <1>2, <1>3, <2>1
  <2>2. ASSUME NEW r \in Races, BeginRace(r)
        PROVE  <1>4!1 /\ <1>4!2
    <3>1. race' \in [Races -> RaceRecord] /\ RaceSound(race'[r]) /\ race'[r].answer.kind = "open"
      BY <1>1, <2>2, BeginRaceSound
    <3>2. \A q \in Races : q # r => race'[q] = race[q]
      BY <1>1, <2>2 DEF BeginRace
    <3> QED
      BY <1>2, <1>3, <3>1, <3>2
  <2>3. ASSUME NEW r \in Races, RaceStep(r)
        PROVE  <1>4!1 /\ <1>4!2
    <3>1. race' \in [Races -> RaceRecord] /\ RaceSound(race'[r])
      BY <1>1, <1>2, <2>3, GetForecastSound, SendSound, ReceiveSound DEF RaceStep
    <3> QED
      BY <1>1, <1>2, <1>3, <2>3, <3>1, RaceStepEffect
  <2> QED
    BY <1>1, <2>1, <2>2, <2>3, StepOfRaces
<1> QED
  BY <1>3, <1>4 DEF RacesInv, RaceTypeOK, RacesSound, RaceRecord, CallRecord

\* As many errors as there are providers, of which no two are of the same, are of
\* all of them.
LEMMA AllFailed ==
  ASSUME NEW x \in RaceRecord, RaceSound(x), Len(x.errs) = Cardinality(Providers)
  PROVE  /\ \A p \in Providers : \E i \in DOMAIN x.errs : x.errs[i] = p
         /\ \A p \in Providers : x.call[p] = Done(FALSE)
<1> DEFINE n == Len(x.errs)
<1>1. x.errs \in Seq(Providers) /\ n \in Nat /\ DOMAIN x.errs = 1 .. n
  BY RaceFields
<1>2. x.errs \in Injection(1 .. n, Providers)
  BY <1>1 DEF Injection, IsInjective, RaceSound, Sound
<1>3. Cardinality(1 .. n) = Cardinality(Providers)
  BY <1>1, FS_Interval
<1>4. x.errs \in Surjection(1 .. n, Providers)
  BY <1>2, <1>3, RaceAssumption, FS_Injection
<1>5. \A p \in Providers : \E i \in DOMAIN x.errs : x.errs[i] = p
  BY <1>1, <1>4 DEF Surjection
<1>6. \A i \in DOMAIN x.errs : x.call[x.errs[i]] = Done(FALSE)
  BY DEF RaceSound, Sound
<1> QED
  BY <1>5, <1>6

\* RaceProviders returns what its goroutines bear out: the winner has answered,
\* "all grid providers failed" is said when each of them has, once, and "cancelled"
\* when the caller's time was over.  For any number of providers and races, any
\* order of their answers, and whenever the time runs out.
THEOREM AnswersAreJustified == CalcSpec => []AnswerJustified
<1>1. RacesInv => AnswerJustified
  <2> SUFFICES ASSUME RacesInv, NEW r \in Races
               PROVE  LET answer == race[r].answer
                          call == race[r].call
                          errs == race[r].errs
                      IN  /\ answer.kind = "won" => call[answer.provider].ok
                          /\ answer.kind = "failed" =>
                               /\ \A p \in Providers : call[p].pc = "exited" /\ ~ call[p].ok
                               /\ \A p \in Providers : \E i \in DOMAIN errs : errs[i] = p
                               /\ Len(errs) = Cardinality(Providers)
                          /\ answer.kind = "cancelled" => expired
    BY DEF AnswerJustified
  <2> DEFINE x == race[r]
  <2>1. x \in RaceRecord /\ RaceSound(x) /\ (x.answer.kind = "cancelled" => expired)
    BY DEF RacesInv, RacesSound, RaceTypeOK, RaceRecord, CallRecord
  <2>2. x.answer.kind = "won" => x.call[x.answer.provider] = Done(TRUE)
    BY <2>1 DEF RaceSound, Sound
  <2>3. x.answer.kind = "failed" => Len(x.errs) = Cardinality(Providers)
    BY <2>1 DEF RaceSound, Sound
  <2> HIDE DEF x
  <2>4. x.answer.kind = "failed" => /\ \A p \in Providers : \E i \in DOMAIN x.errs : x.errs[i] = p
                                    /\ \A p \in Providers : x.call[p] = Done(FALSE)
    BY <2>1, <2>3, AllFailed
  <2> QED
    BY <2>1, <2>2, <2>3, <2>4 DEF x, Done
<1>2. RacesInv /\ [CalcNext]_calcVars => RacesInv'
  BY RacesStep
<1> QED
  BY <1>1, <1>2, RacesInit, PTL DEF CalcSpec
-----------------------------------------------------------------------------
(* One request.                                                            *)

\* What RaceProviders returned is there to stay.
Over(i) == race[i].answer.kind \notin {"unasked", "open"}

\* A worker that holds a zip.
Busy(w) == worker[w].pc \in {"racing", "storing"}

\* The result of a zip's race is in the map.
Stored(i) == Over(i) /\ zips[i] \in DOMAIN out /\ out[zips[i]] = race[i].answer

WorkerRecord == [pc : {"ready", "racing", "storing", "exited"}, job : Nat \cup {NoJob}]

RequestTypeOK ==
    /\ endpoint \in {"calculate", "multi"}
    /\ stage \in {"parse", "lookup", "race", "answered"}
    /\ zips \in Seq(Pieces) /\ Len(zips) <= MaxMultiZips
    /\ sent \in 0 .. Len(zips) /\ closed \in BOOLEAN
    /\ worker \in [DOMAIN worker -> WorkerRecord]

\* Before the appliance is found, nothing has begun.
NothingBegun ==
    /\ stage = "parse" => zips = <<>> /\ named = {}
    /\ stage \in {"parse", "lookup"} =>
         /\ sent = 0 /\ ~ closed
         /\ worker = << >>
         /\ \A r \in Races : race[r] = Unasked
    /\ stage # "answered" => response = NoResponse
    /\ stage = "race" /\ endpoint = "calculate" => race[1].answer.kind # "unasked"

\* The list the pool works on is that of the request.
Listed ==
    endpoint = "multi" =>
        /\ \A i, j \in DOMAIN zips : i # j => zips[i] # zips[j]
        /\ ToSet(zips) = named

\* A busy worker has a zip that was handed out and a race that has begun, and that
\* is over before its result is stored.
HoldsOne(w) ==
    Busy(w) => /\ worker[w].job \in 1 .. sent
               /\ race[worker[w].job].answer.kind # "unasked"
               /\ worker[w].pc = "storing" => Over(worker[w].job)

\* A zip that was handed out is with a worker or in the map.
Accounted(i) == Stored(i) \/ \E w \in DOMAIN worker : Busy(w) /\ worker[w].job = i

\* Every zip is handed out once, to one worker, and is never lost.
HandedOut ==
    endpoint = "multi" =>
        /\ \A i \in DOMAIN zips : i > sent => race[i] = Unasked
        /\ \A w \in DOMAIN worker : HoldsOne(w)
        /\ \A v, w \in DOMAIN worker : Busy(v) /\ Busy(w) /\ v # w => worker[v].job # worker[w].job
        /\ \A i \in 1 .. sent : Accounted(i)
        /\ closed => sent = Len(zips)

\* The three kinds of response.
Refused == response.status \in {400, 500} /\ DOMAIN response = {"status"} /\ race[1] = Unasked

OneReply ==
    /\ Over(1)
    /\ \E window \in WindowsOf(race[1].answer) :
         response = [status |-> StatusOf(race[1].answer, window),
                     from |-> race[1].answer, window |-> window]

ZonesReply ==
    /\ endpoint = "multi"
    /\ \A i \in DOMAIN zips : Over(i)
    /\ \E window \in [DOMAIN zips -> Window] :
         response = [status |-> 200,
                     results |-> [i \in DOMAIN zips |->
                        [zip |-> zips[i], from |-> race[i].answer, window |-> window[i]]],
                     greenest |-> Greenest(window)]

Replied == stage = "answered" => Refused \/ OneReply \/ ZonesReply

RequestInv == RequestTypeOK /\ NothingBegun /\ Listed /\ HandedOut /\ Replied

\* The zips of a request are races of it.
LEMMA ZipsAreRaces ==
  ASSUME RequestTypeOK
  PROVE  /\ DOMAIN zips = 1 .. Len(zips) /\ Len(zips) \in Nat /\ DOMAIN zips \subseteq Races
         /\ 1 \in Races
  BY CalculateAssumption DEF RequestTypeOK

\* A function on the numbers up to n is a sequence.
LEMMA FunctionIsSeq ==
  ASSUME NEW S, NEW n \in Nat, NEW f \in [1 .. n -> S]
  PROVE  f \in Seq(S) /\ Len(f) = n
  OBVIOUS

\* A request that has only arrived.
LEMMA RequestInit == CalcInit => RequestInv
<1> SUFFICES ASSUME CalcInit PROVE RequestInv
  OBVIOUS
<1>1. /\ race = [r \in Races |-> Unasked] /\ zips = <<>> /\ sent = 0 /\ closed = FALSE
      /\ worker = << >> /\ stage = "parse" /\ endpoint \in {"calculate", "multi"}
      /\ response = NoResponse /\ named = {}
  BY DEF CalcInit, RaceInit, PoolInit
<1>2. DOMAIN << >> = {} /\ << >> \in Seq(Pieces) /\ Len(<< >>) = 0
  OBVIOUS
<1>none. ToSet(<<>>) = {}
  BY <1>2 DEF ToSet
<1>3. worker \in [DOMAIN worker -> WorkerRecord]
  BY <1>1
<1>4. MaxMultiZips \in Nat /\ MaxMultiZips > 0
  BY CalculateAssumption
<1>5. RequestTypeOK
  <2>1. zips \in Seq(Pieces) /\ Len(zips) = 0
    BY <1>1, <1>2
  <2>2. Len(zips) <= MaxMultiZips /\ sent \in 0 .. Len(zips)
    BY <1>1, <1>4, <2>1
  <2> QED
    BY <1>1, <1>3, <2>1, <2>2 DEF RequestTypeOK
<1> QED
  BY <1>1, <1>2, <1>none, <1>5 DEF RequestInv, NothingBegun, Listed, HandedOut, Replied

\* A parameter that was refused or read: still nothing has begun.
LEMMA ParseKeeps ==
  ASSUME RequestInv, Parse
  PROVE  RequestInv'
<1>1. /\ RequestTypeOK /\ NothingBegun /\ HandedOut /\ stage = "parse"
      /\ UNCHANGED <<race, sent, closed, worker, out, endpoint>>
      /\ sent = 0 /\ ~ closed /\ worker = << >> /\ zips = <<>>
      /\ \A r \in Races : race[r] = Unasked
      /\ response = NoResponse
  BY DEF RequestInv, NothingBegun, Parse, raceVars
<1>2. DOMAIN << >> = {} /\ << >> \in Seq(Pieces) /\ Len(<< >>) = 0
  OBVIOUS
<1>none. ToSet(<<>>) = {} /\ named = {}
  BY <1>2 DEF ToSet, RequestInv, NothingBegun, Parse
<1>3. MaxMultiZips \in Nat /\ MaxMultiZips > 0 /\ Races = 1 .. MaxMultiZips /\ 1 \in Races
  BY CalculateAssumption
<1>4. /\ zips' \in Seq(Pieces) /\ Len(zips') <= MaxMultiZips
      /\ stage' \in {"lookup", "answered"}
      /\ stage' = "lookup" => response' = response
      /\ stage' = "answered" => response' = [status |-> 400]
      /\ endpoint = "multi" =>
           /\ \A i, j \in DOMAIN zips' : i # j => zips'[i] # zips'[j]
           /\ ToSet(zips') = named'
  <2>1. CASE Respond(400) /\ UNCHANGED <<zips, named>>
    <3>1. stage' = "answered" /\ response' = [status |-> 400] /\ zips' = <<>> /\ named' = {}
      BY <1>1, <1>none, <2>1 DEF Respond
    <3>2. Len(<<>>) <= MaxMultiZips
      BY <1>2, <1>3
    <3> QED
      BY <1>2, <1>none, <3>1, <3>2
  <2>2. CASE \E raw \in IF endpoint = "multi" THEN BoundedSeq(Pieces, MaxRaw) ELSE [{1} -> Pieces] :
               /\ zips' = IF endpoint = "multi" THEN ParseZipList(raw) ELSE ParseZip(raw)
               /\ IF zips' = <<>> THEN Respond(400) /\ UNCHANGED named
                  ELSE /\ named' = ToSet(raw) \ {Blank}
                       /\ stage' = "lookup"
                       /\ UNCHANGED response
    <3>1. PICK raw \in IF endpoint = "multi" THEN BoundedSeq(Pieces, MaxRaw) ELSE [{1} -> Pieces] :
               /\ zips' = IF endpoint = "multi" THEN ParseZipList(raw) ELSE ParseZip(raw)
               /\ IF zips' = <<>> THEN Respond(400) /\ UNCHANGED named
                  ELSE /\ named' = ToSet(raw) \ {Blank}
                       /\ stage' = "lookup"
                       /\ UNCHANGED response
      BY <2>2
    <3>2. CASE zips' = <<>>
      <4>1. stage' = "answered" /\ response' = [status |-> 400] /\ named' = {}
        BY <1>none, <3>1, <3>2 DEF Respond
      <4>2. Len(<<>>) <= MaxMultiZips
        BY <1>2, <1>3
      <4> QED
        BY <1>2, <1>none, <3>2, <4>1, <4>2
    <3>3. CASE zips' # <<>> /\ endpoint = "multi"
      <4>1. PICK n \in 0 .. MaxRaw : raw \in [1 .. n -> Pieces]
        BY <3>1, <3>3 DEF BoundedSeq, SeqOf
      <4>2. raw \in Seq(Pieces)
        BY <4>1, CalculateAssumption
      <4>3. zips' = ParseZipList(raw) /\ ParseZipList(raw) # <<>>
        BY <3>1, <3>3
      <4> QED
        BY <3>1, <3>3, <4>2, <4>3, ParsedZips
    <3>4. CASE zips' # <<>> /\ endpoint # "multi"
      <4>1. raw \in [1 .. 1 -> Pieces]
        <5>1. {1} = 1 .. 1
          OBVIOUS
        <5> QED
          BY <3>1, <3>4, <5>1
      <4>2. raw \in Seq(Pieces) /\ Len(raw) = 1
        BY <4>1, FunctionIsSeq
      <4>3. zips' = raw
        BY <3>1, <3>4 DEF ParseZip
      <4>4. 1 <= MaxMultiZips
        BY <1>3
      <4> QED
        BY <3>1, <3>4, <4>2, <4>3, <4>4
    <3> QED
      BY <3>2, <3>3, <3>4
  <2> QED
    BY <2>1, <2>2 DEF Parse
<1>5. RequestTypeOK'
  <2>1. sent' \in 0 .. Len(zips')
    BY <1>1, <1>4
  <2> QED
    BY <1>1, <1>4, <2>1 DEF RequestTypeOK
<1>6. NothingBegun'
  BY <1>1, <1>4 DEF NothingBegun
<1>7. Listed'
  BY <1>1, <1>4 DEF Listed
<1>8. HandedOut'
  <2>1. \A i \in DOMAIN zips' : i \in Races
    <3>1. DOMAIN zips' = 1 .. Len(zips')
      BY <1>4
    <3> QED
      BY <1>3, <1>4, <3>1
  <2> QED
    BY <1>1, <1>2, <2>1 DEF HandedOut
<1>9. Replied'
  <2>1. DOMAIN [status |-> 400] = {"status"} /\ [status |-> 400].status = 400
    OBVIOUS
  <2> QED
    BY <1>1, <1>3, <1>4, <2>1 DEF Replied, Refused
<1> QED
  BY <1>5, <1>6, <1>7, <1>8, <1>9 DEF RequestInv

\* No appliance, no race.
LEMMA LookupFailsKeeps ==
  ASSUME RequestInv, LookupFails
  PROVE  RequestInv'
<1>1. /\ UNCHANGED <<race, zips, sent, closed, worker, out, endpoint, named>>
      /\ stage = "lookup" /\ stage' = "answered"
      /\ \A r \in Races : race[r] = Unasked
      /\ sent = 0 /\ ~ closed /\ worker = << >>
  BY DEF RequestInv, NothingBegun, LookupFails, zoneVars, raceVars, poolVars, Respond
<1>2. PICK status \in {400, 500} : response' = [status |-> status]
  BY DEF LookupFails, Respond
<1>3. RequestTypeOK' /\ NothingBegun'
  BY <1>1 DEF RequestInv, RequestTypeOK, NothingBegun
<1>4. Listed'
  BY <1>1 DEF RequestInv, Listed
<1>5. HandedOut'
  BY <1>1 DEF RequestInv, HandedOut, HoldsOne, Accounted, Busy, Over, Stored
<1>6. Refused'
  <2>1. DOMAIN response' = {"status"} /\ response'.status \in {400, 500}
    BY <1>2
  <2>2. 1 \in Races
    BY ZipsAreRaces DEF RequestInv
  <2> QED
    BY <1>1, <2>1, <2>2 DEF Refused
<1> QED
  BY <1>3, <1>4, <1>5, <1>6 DEF RequestInv, Replied

\* What the steps of races leave as it is: answers given, and races not begun.
RacesLater ==
    \A q \in Races :
        /\ Over(q) => race'[q].answer = race[q].answer
        /\ race[q].answer.kind # "unasked" => race'[q].answer.kind # "unasked"

\* They do, whether a race begins or goes on.
LEMMA RacesGoOn ==
  ASSUME RaceTypeOK, NEW r \in Races, BeginRace(r) \/ RaceStep(r)
  PROVE  RacesLater /\ \A q \in Races : q # r => race'[q] = race[q]
<1>1. CASE BeginRace(r)
  <2>1. \A q \in Races : q # r => race'[q] = race[q]
    BY <1>1 DEF BeginRace, RaceTypeOK
  <2>2. race[r].answer.kind = "unasked"
    BY <1>1 DEF BeginRace, Unasked, NoForecast
  <2> QED
    BY <2>1, <2>2 DEF RacesLater, Over
<1>2. CASE RaceStep(r)
  <2>1. /\ \A q \in Races : q # r => race'[q] = race[q]
        /\ ~ Racing(r) => race'[r].answer = race[r].answer
        /\ Racing(r) => race'[r].answer.kind # "unasked"
    BY <1>2, RaceStepEffect
  <2> QED
    BY <2>1 DEF RacesLater, Over, Racing
<1> QED
  BY <1>1, <1>2

\* While races go on and the request's other state stays, what is known of it stays.
LEMMA LaterKeeps ==
  ASSUME RequestInv, RacesLater,
         \A q \in Races : race[q] = Unasked => race'[q] = Unasked,
         UNCHANGED <<poolVars, endpoint, named, stage, response>>
  PROVE  RequestInv'
<1>1. /\ RequestTypeOK /\ NothingBegun /\ Listed /\ HandedOut /\ Replied
      /\ UNCHANGED <<zips, sent, closed, worker, out, endpoint, named, stage, response>>
  BY DEF RequestInv, poolVars
<1>2. /\ DOMAIN zips = 1 .. Len(zips) /\ Len(zips) \in Nat /\ DOMAIN zips \subseteq Races
      /\ 1 \in Races
  BY <1>1, ZipsAreRaces
<1>3. \A q \in Races : Over(q) => Over(q)'
  BY DEF RacesLater, Over
<1>4. RequestTypeOK' /\ NothingBegun' /\ Listed'
  BY <1>1, <1>2 DEF RequestTypeOK, NothingBegun, Listed, RacesLater
<1>5. HandedOut'
  <2> SUFFICES ASSUME endpoint = "multi" PROVE HandedOut'
    BY <1>1 DEF HandedOut
  <2>1. sent \in Nat /\ 1 .. sent \subseteq DOMAIN zips /\ 1 .. sent \subseteq Races
    BY <1>1, <1>2 DEF RequestTypeOK
  <2>2. \A w \in DOMAIN worker : Busy(w)' = Busy(w)
    BY <1>1 DEF Busy
  <2>3. \A i \in 1 .. sent : Stored(i) => Stored(i)'
    BY <1>1, <1>3, <2>1 DEF Stored, RacesLater
  <2>4. \A i \in DOMAIN zips' : i > sent' => race'[i] = Unasked
    BY <1>1, <1>2 DEF HandedOut
  <2>5. ASSUME NEW w \in DOMAIN worker PROVE HoldsOne(w)'
    <3>1. HoldsOne(w) /\ worker' = worker /\ sent' = sent
      BY <1>1, <2>5 DEF HandedOut
    <3>2. ASSUME Busy(w)
          PROVE  /\ worker[w].job \in 1 .. sent
                 /\ race'[worker[w].job].answer.kind # "unasked"
                 /\ worker[w].pc = "storing" => race'[worker[w].job].answer.kind \notin {"unasked", "open"}
      <4>1. worker[w].job \in Races
        BY <2>1, <3>1, <3>2 DEF HoldsOne
      <4> QED
        BY <1>3, <3>1, <3>2, <4>1 DEF HoldsOne, RacesLater, Over
    <3> QED
      BY <2>2, <3>1, <3>2 DEF HoldsOne, Over
  <2>6. \A v, w \in DOMAIN worker : Busy(v)' /\ Busy(w)' /\ v # w => worker'[v].job # worker'[w].job
    BY <1>1, <2>2 DEF HandedOut
  <2>7. \A i \in 1 .. sent : Accounted(i)'
    BY <1>1, <2>2, <2>3 DEF HandedOut, Accounted
  <2>8. closed' => sent' = Len(zips')
    BY <1>1 DEF HandedOut
  <2> QED
    BY <1>1, <2>4, <2>5, <2>6, <2>7, <2>8 DEF HandedOut
<1>6. Replied'
  <2> SUFFICES ASSUME stage = "answered" PROVE (Refused \/ OneReply \/ ZonesReply)'
    BY <1>1 DEF Replied
  <2>1. CASE Refused
    BY <1>1, <1>2, <2>1 DEF Refused
  <2>2. CASE OneReply
    <3>1. race'[1].answer = race[1].answer /\ Over(1)'
      BY <1>2, <1>3, <2>2 DEF OneReply, RacesLater
    <3> QED
      BY <1>1, <2>2, <3>1 DEF OneReply
  <2>3. CASE ZonesReply
    <3>1. \A i \in DOMAIN zips : race'[i].answer = race[i].answer /\ Over(i)'
      BY <1>2, <1>3, <2>3 DEF ZonesReply, RacesLater
    <3>2. PICK window \in [DOMAIN zips -> Window] :
            response = [status |-> 200,
                        results |-> [i \in DOMAIN zips |->
                          [zip |-> zips[i], from |-> race[i].answer, window |-> window[i]]],
                        greenest |-> Greenest(window)]
      BY <2>3 DEF ZonesReply
    <3>3. [i \in DOMAIN zips |-> [zip |-> zips[i], from |-> race[i].answer, window |-> window[i]]]
          = [i \in DOMAIN zips |-> [zip |-> zips[i], from |-> race'[i].answer, window |-> window[i]]]
      BY <3>1
    <3> QED
      BY <1>1, <2>3, <3>1, <3>2, <3>3 DEF ZonesReply
  <2> QED
    BY <1>1, <2>1, <2>2, <2>3 DEF Replied
<1> QED
  BY <1>4, <1>5, <1>6 DEF RequestInv

\* The handler's own race.
LEMMA StartRaceKeeps ==
  ASSUME RequestInv, RaceTypeOK, StartRace
  PROVE  RequestInv'
<1>1. /\ RequestTypeOK /\ NothingBegun
      /\ UNCHANGED <<zips, sent, closed, worker, out, endpoint, named, response>>
      /\ stage = "lookup" /\ stage' = "race" /\ endpoint = "calculate"
      /\ response = NoResponse
      /\ BeginRace(1)
  BY DEF RequestInv, NothingBegun, StartRace, poolVars
<1>2. 1 \in Races
  BY <1>1, ZipsAreRaces
<1>3. race'[1].answer.kind = "open"
  BY <1>1, <1>2, BeginRaceSound
<1>4. RequestTypeOK'
  BY <1>1 DEF RequestTypeOK
<1>5. NothingBegun'
  BY <1>1, <1>3 DEF NothingBegun
<1> QED
  BY <1>1, <1>4, <1>5 DEF RequestInv, Listed, HandedOut, Replied

\* The pool, whose workers have nothing yet.
LEMMA StartRacesKeeps ==
  ASSUME RequestInv, StartRaces
  PROVE  RequestInv'
<1>1. /\ RequestTypeOK /\ NothingBegun /\ Listed /\ HandedOut
      /\ UNCHANGED <<race, zips, sent, closed, out, endpoint, named, response>>
      /\ stage = "lookup" /\ stage' = "race" /\ endpoint = "multi"
      /\ response = NoResponse /\ sent = 0
  BY DEF RequestInv, NothingBegun, StartRaces, StartPool, raceVars
<1>2. PICK n \in PoolSizes : worker' = [w \in 1 .. PoolSize(n) |-> Ready]
  BY DEF StartRaces, StartPool
<1>3. Ready \in WorkerRecord
  BY DEF Ready, WorkerRecord
<1>4. worker' \in [DOMAIN worker' -> WorkerRecord] /\ \A w \in DOMAIN worker' : worker'[w] = Ready
  BY <1>2, <1>3
<1>5. \A w \in DOMAIN worker' : ~ Busy(w)'
  BY <1>4 DEF Busy, Ready
<1>6. RequestTypeOK'
  BY <1>1, <1>4 DEF RequestTypeOK
<1>7. NothingBegun' /\ Listed' /\ Replied'
  BY <1>1 DEF NothingBegun, Listed, Replied
<1>8. HandedOut'
  BY <1>1, <1>5 DEF HandedOut, HoldsOne
<1> QED
  BY <1>6, <1>7, <1>8 DEF RequestInv

\* A handler that replies changes neither the races nor the pool.
LEMMA RepliedKeeps ==
  ASSUME RequestInv, stage = "race", stage' = "answered", Replied',
         UNCHANGED <<race, poolVars, endpoint, named>>
  PROVE  RequestInv'
<1>1. /\ RequestTypeOK /\ NothingBegun /\ Listed /\ HandedOut
      /\ UNCHANGED <<race, zips, sent, closed, worker, out, endpoint, named>>
  BY DEF RequestInv, poolVars
<1>2. RequestTypeOK' /\ NothingBegun' /\ Listed'
  BY <1>1 DEF RequestTypeOK, NothingBegun, Listed
<1>3. HandedOut'
  BY <1>1 DEF HandedOut, HoldsOne, Accounted, Stored, Busy, Over
<1> QED
  BY <1>2, <1>3 DEF RequestInv

\* The answer of the one race.
LEMMA ReplyOneKeeps ==
  ASSUME RequestInv, ReplyOne
  PROVE  RequestInv'
<1>1. /\ UNCHANGED <<race, poolVars, endpoint, named>>
      /\ stage = "race" /\ stage' = "answered" /\ endpoint = "calculate"
      /\ ~ Racing(1)
  BY DEF ReplyOne, HandlerReturns
<1>2. PICK window \in WindowsOf(race[1].answer) :
         response' = [status |-> StatusOf(race[1].answer, window),
                      from |-> race[1].answer, window |-> window]
  BY DEF ReplyOne
<1>3. Over(1)
  BY <1>1 DEF RequestInv, NothingBegun, Over, Racing
<1>4. OneReply'
  BY <1>1, <1>2, <1>3 DEF OneReply, Over
<1> QED
  BY <1>1, <1>4, RepliedKeeps DEF Replied

\* What the pool has found, once all its workers are done: every zip's result.
LEMMA AllStored ==
  ASSUME RequestInv, endpoint = "multi", AllDone
  PROVE  \A i \in DOMAIN zips : Over(i) /\ Found(zips[i]) = race[i].answer
<1>1. RequestTypeOK /\ HandedOut
  BY DEF RequestInv
<1>2. DOMAIN zips = 1 .. sent
  BY <1>1, ZipsAreRaces DEF HandedOut, AllDone
<1>3. \A w \in DOMAIN worker : ~ Busy(w)
  BY DEF AllDone, Busy
<1>4. \A i \in DOMAIN zips : Stored(i)
  BY <1>1, <1>2, <1>3 DEF HandedOut, Accounted
<1> QED
  BY <1>4 DEF Stored, Found

\* The answer of many.
LEMMA ReplyKeeps ==
  ASSUME RequestInv, Reply
  PROVE  RequestInv'
<1>1. /\ UNCHANGED <<race, poolVars, endpoint, named>> /\ zips' = zips
      /\ stage = "race" /\ stage' = "answered" /\ endpoint = "multi"
      /\ AllDone
  BY DEF Reply, HandlerReturns, poolVars
<1>2. \A i \in DOMAIN zips : Over(i) /\ Found(zips[i]) = race[i].answer
  BY <1>1, AllStored
<1>3. PICK window \in [DOMAIN zips -> Window] :
        response' = [status |-> 200,
                     results |-> [i \in DOMAIN zips |->
                        [zip |-> zips[i], from |-> Found(zips[i]), window |-> window[i]]],
                     greenest |-> Greenest(window)]
  BY DEF Reply
<1>4. [i \in DOMAIN zips |-> [zip |-> zips[i], from |-> Found(zips[i]), window |-> window[i]]]
      = [i \in DOMAIN zips |-> [zip |-> zips[i], from |-> race[i].answer, window |-> window[i]]]
  BY <1>2
<1>5. ZonesReply'
  BY <1>1, <1>2, <1>3, <1>4 DEF ZonesReply, Over
<1> QED
  BY <1>1, <1>5, RepliedKeeps DEF Replied

\* A zip goes to a worker that is ready, and its race begins.
LEMMA HandKeeps ==
  ASSUME RequestInv, RaceTypeOK, stage = "race", NEW w \in DOMAIN worker, Hand(w),
         UNCHANGED <<endpoint, named, stage, response>>
  PROVE  RequestInv'
<1> DEFINE n == sent + 1
           job == [pc |-> "racing", job |-> n]
<1>1. /\ RequestTypeOK /\ NothingBegun /\ Listed /\ HandedOut /\ Replied
      /\ UNCHANGED <<zips, closed, out, endpoint, named, stage, response>>
      /\ sent' = n /\ sent < Len(zips) /\ worker[w].pc = "ready"
      /\ worker' = [worker EXCEPT ![w] = job]
      /\ BeginRace(n)
  BY DEF RequestInv, Hand
<1>2. /\ DOMAIN zips = 1 .. Len(zips) /\ Len(zips) \in Nat /\ DOMAIN zips \subseteq Races
      /\ 1 \in Races
  BY <1>1, ZipsAreRaces
<1>3. sent \in Nat /\ n \in Nat /\ n \in DOMAIN zips /\ n \in Races /\ n \notin 1 .. sent
  BY <1>1, <1>2 DEF RequestTypeOK
<1>4. worker \in [DOMAIN worker -> WorkerRecord]
  BY <1>1 DEF RequestTypeOK
<1>5. /\ DOMAIN worker' = DOMAIN worker /\ worker'[w] = job
      /\ \A v \in DOMAIN worker : v # w => worker'[v] = worker[v]
  BY <1>1, <1>4
<1>6. job \in WorkerRecord
  BY <1>3 DEF WorkerRecord
<1>7. race'[n].answer.kind = "open" /\ RacesLater /\ \A q \in Races : q # n => race'[q] = race[q]
  BY <1>1, <1>3, BeginRaceSound, RacesGoOn
<1>8. RequestTypeOK'
  <2>1. worker' \in [DOMAIN worker' -> WorkerRecord]
    BY <1>1, <1>4, <1>6
  <2>2. sent' \in 0 .. Len(zips')
    BY <1>1, <1>2, <1>3
  <2> QED
    BY <1>1, <2>1, <2>2 DEF RequestTypeOK
<1>9. NothingBegun'
  BY <1>1, <1>2, <1>7 DEF NothingBegun, RacesLater
<1>10. Listed' /\ Replied'
  BY <1>1 DEF Listed, Replied
<1> HIDE DEF n
<1>11. HandedOut'
  <2> SUFFICES ASSUME endpoint = "multi" PROVE HandedOut'
    BY <1>1 DEF HandedOut
  <2>sent. 1 .. sent' = 1 .. sent \cup {n} /\ \A i \in DOMAIN zips : i > sent' => i > sent /\ i # n
    BY <1>1, <1>2, <1>3 DEF n
  <2>1. \A i \in DOMAIN zips' : i > sent' => race'[i] = Unasked
    BY <1>1, <1>2, <1>7, <2>sent DEF HandedOut
  <2>2. Busy(w)' /\ worker'[w].job = n /\ worker'[w].pc = "racing"
    BY <1>5 DEF Busy
  <2>3. \A v \in DOMAIN worker : v # w => Busy(v)' = Busy(v) /\ worker'[v] = worker[v]
    BY <1>5 DEF Busy
  <2>4. \A v \in DOMAIN worker : Busy(v) => worker[v].job \in 1 .. sent /\ worker[v].job # n
                                            /\ worker[v].job \in Races
    BY <1>1, <1>2, <1>3 DEF HandedOut, HoldsOne, RequestTypeOK
  <2>5. ASSUME NEW v \in DOMAIN worker PROVE HoldsOne(v)'
    <3>1. CASE v = w
      BY <1>7, <2>sent, <2>2, <3>1 DEF HoldsOne
    <3>2. CASE v # w
      <4>1. HoldsOne(v)
        BY <1>1 DEF HandedOut
      <4>2. Busy(v) => race'[worker[v].job] = race[worker[v].job]
        BY <1>7, <2>4
      <4> QED
        BY <2>sent, <2>3, <3>2, <4>1, <4>2 DEF HoldsOne, Over
    <3> QED
      BY <3>1, <3>2
  <2>6. \A u, v \in DOMAIN worker : Busy(u)' /\ Busy(v)' /\ u # v => worker'[u].job # worker'[v].job
    BY <1>1, <2>2, <2>3, <2>4 DEF HandedOut
  <2>7. ASSUME NEW i \in 1 .. sent' PROVE Accounted(i)'
    <3>1. CASE i = n
      BY <1>5, <2>2, <3>1 DEF Accounted
    <3>2. CASE i # n
      <4>1. i \in 1 .. sent /\ i \in Races /\ Accounted(i)
        <5>1. i \in 1 .. sent
          BY <2>sent, <3>2
        <5> QED
          BY <1>1, <1>2, <5>1 DEF HandedOut, RequestTypeOK
      <4>2. race'[i] = race[i]
        BY <1>7, <3>2, <4>1
      <4>3. CASE Stored(i)
        BY <1>1, <4>2, <4>3 DEF Accounted, Stored, Over
      <4>4. CASE \E v \in DOMAIN worker : Busy(v) /\ worker[v].job = i
        <5>1. PICK v \in DOMAIN worker : Busy(v) /\ worker[v].job = i
          BY <4>4
        <5>2. v # w
          BY <1>1, <5>1 DEF Busy
        <5> QED
          BY <1>5, <2>3, <5>1, <5>2 DEF Accounted
      <4> QED
        BY <4>1, <4>3, <4>4 DEF Accounted
    <3> QED
      BY <3>1, <3>2
  <2>8. ~ closed'
    BY <1>1, <1>2, <1>3 DEF HandedOut
  <2> QED
    BY <1>1, <1>5, <2>1, <2>5, <2>6, <2>7, <2>8 DEF HandedOut
<1> QED
  BY <1>8, <1>9, <1>10, <1>11 DEF RequestInv

\* The pool's steps that begin no race.
PoolStep(w) == RaceIsOver(w) \/ Store(w) \/ Exit(w)

\* They leave races and list alone, so all that is left is who holds what.
LEMMA PoolStepKeeps ==
  ASSUME RequestInv, NEW w \in DOMAIN worker, PoolStep(w),
         UNCHANGED <<endpoint, named, stage, response>>,
         endpoint = "multi" => HandedOut'
  PROVE  RequestInv'
<1>1. /\ RequestTypeOK /\ NothingBegun /\ Listed /\ HandedOut /\ Replied
      /\ UNCHANGED <<race, zips, sent, closed, endpoint, named, stage, response>>
      /\ worker[w].pc # "exited"
  BY DEF RequestInv, PoolStep, RaceIsOver, Store, Exit, raceVars
<1>2. worker \in [DOMAIN worker -> WorkerRecord] /\ worker[w] \in WorkerRecord
  BY <1>1 DEF RequestTypeOK
<1>3. \E pc \in {"storing", "exited"} :
         \/ worker' = [worker EXCEPT ![w].pc = pc]
         \/ worker' = [worker EXCEPT ![w] = Ready]
  BY DEF PoolStep, RaceIsOver, Store, Exit
<1>4. /\ Ready \in WorkerRecord
      /\ \A pc \in {"storing", "exited"} : [worker[w] EXCEPT !.pc = pc] \in WorkerRecord
  BY <1>2 DEF Ready, WorkerRecord
<1>5. worker' \in [DOMAIN worker' -> WorkerRecord]
  BY <1>2, <1>3, <1>4
<1>6. RequestTypeOK'
  BY <1>1, <1>5 DEF RequestTypeOK
<1>7. stage \notin {"parse", "lookup"}
  BY <1>1 DEF NothingBegun
<1>8. NothingBegun' /\ Listed' /\ Replied'
  <2>1. NothingBegun'
    BY <1>1, <1>7 DEF NothingBegun
  <2>2. Listed'
    BY <1>1 DEF Listed
  <2>3. Replied'
    BY <1>1 DEF Replied, Refused, OneReply, ZonesReply, Over
  <2> QED
    BY <2>1, <2>2, <2>3
<1>9. HandedOut'
  BY <1>1 DEF HandedOut
<1> QED
  BY <1>6, <1>8, <1>9 DEF RequestInv

\* A worker whose race is over, stores what it brought, or leaves: its zip is still
\* with it, then in the map.
LEMMA PoolStepHandedOut ==
  ASSUME RequestInv, NEW w \in DOMAIN worker, PoolStep(w), endpoint = "multi", UNCHANGED endpoint
  PROVE  HandedOut'
<1>1. /\ RequestTypeOK /\ HandedOut
      /\ UNCHANGED <<race, zips, sent, closed, endpoint>>
  BY DEF RequestInv, PoolStep, RaceIsOver, Store, Exit, raceVars
<1>2. worker \in [DOMAIN worker -> WorkerRecord] /\ worker[w] \in WorkerRecord
  BY <1>1 DEF RequestTypeOK
<1>3. /\ DOMAIN zips = 1 .. Len(zips) /\ Len(zips) \in Nat /\ sent \in Nat
      /\ 1 .. sent \subseteq DOMAIN zips
  BY <1>1, ZipsAreRaces DEF RequestTypeOK
<1>4. HoldsOne(w)
  BY <1>1 DEF HandedOut
<1>5. /\ \A v \in DOMAIN worker : v # w => worker'[v] = worker[v]
      /\ DOMAIN worker' = DOMAIN worker
  BY <1>2 DEF PoolStep, RaceIsOver, Store, Exit
<1>6. \A v \in DOMAIN worker : v # w => Busy(v)' = Busy(v)
  BY <1>5 DEF Busy
<1>7. Busy(w)' => Busy(w) /\ worker'[w].job = worker[w].job /\ RaceIsOver(w)
  <2>1. CASE RaceIsOver(w)
    BY <1>2, <2>1 DEF RaceIsOver, Busy, WorkerRecord
  <2>2. CASE Store(w)
    BY <1>2, <2>2 DEF Store, Busy, Ready
  <2>3. CASE Exit(w)
    BY <1>2, <2>3 DEF Exit, Busy, WorkerRecord
  <2> QED
    BY <2>1, <2>2, <2>3 DEF PoolStep
<1>8. ASSUME NEW v \in DOMAIN worker PROVE HoldsOne(v)'
  <2>1. CASE v = w
    <3>1. Busy(w)' => race[worker[w].job].answer.kind # "open"
      BY <1>7 DEF RaceIsOver, Racing
    <3> QED
      BY <1>1, <1>4, <1>7, <2>1, <3>1 DEF HoldsOne, Over
  <2>2. CASE v # w
    BY <1>1, <1>5, <1>6, <2>2 DEF HandedOut, HoldsOne, Over
  <2> QED
    BY <2>1, <2>2
<1>9. \A u, v \in DOMAIN worker : Busy(u)' /\ Busy(v)' /\ u # v => worker'[u].job # worker'[v].job
  BY <1>1, <1>5, <1>6, <1>7 DEF HandedOut
<1>10. ASSUME NEW i \in 1 .. sent PROVE Accounted(i)'
  <2>1. Accounted(i)
    BY <1>1 DEF HandedOut
  <2>2. CASE RaceIsOver(w)
    <3>1. CASE Stored(i)
      BY <1>1, <2>2, <3>1 DEF RaceIsOver, Accounted, Stored, Over
    <3>2. CASE \E v \in DOMAIN worker : Busy(v) /\ worker[v].job = i
      <4>1. PICK v \in DOMAIN worker : Busy(v) /\ worker[v].job = i
        BY <3>2
      <4>2. Busy(v)' /\ worker'[v].job = i
        <5>1. CASE v = w
          BY <1>2, <2>2, <4>1, <5>1 DEF RaceIsOver, Busy, WorkerRecord
        <5>2. CASE v # w
          BY <1>5, <1>6, <4>1, <5>2
        <5> QED
          BY <5>1, <5>2
      <4> QED
        BY <1>5, <4>2 DEF Accounted
    <3> QED
      BY <2>1, <3>1, <3>2 DEF Accounted
  <2>3. CASE Store(w)
    <3> DEFINE job == worker[w].job
    <3>1. /\ Busy(w) /\ job \in 1 .. sent /\ Over(job)
      BY <1>4, <2>3 DEF Store, Busy, HoldsOne
    <3>2. out' = [z \in DOMAIN out \cup {zips[job]} |->
                    IF z = zips[job] THEN race[job].answer ELSE out[z]]
      BY <2>3 DEF Store
    <3>3. CASE i = job
      <4>1. Stored(i)'
        BY <1>1, <3>1, <3>2, <3>3 DEF Stored, Over
      <4> QED
        BY <4>1 DEF Accounted
    <3>4. CASE i # job /\ Stored(i)
      <4>1. zips[i] # zips[job]
        BY <1>1, <1>3, <3>1, <3>4 DEF RequestInv, Listed
      <4>2. Stored(i)'
        BY <1>1, <3>2, <3>4, <4>1 DEF Stored, Over
      <4> QED
        BY <4>2 DEF Accounted
    <3>5. CASE i # job /\ \E v \in DOMAIN worker : Busy(v) /\ worker[v].job = i
      <4>1. PICK v \in DOMAIN worker : Busy(v) /\ worker[v].job = i
        BY <3>5
      <4>2. v # w
        BY <3>5, <4>1
      <4> QED
        BY <1>5, <1>6, <4>1, <4>2 DEF Accounted
    <3> QED
      BY <2>1, <3>3, <3>4, <3>5 DEF Accounted
  <2>4. CASE Exit(w)
    <3>1. ~ Busy(w)
      BY <2>4 DEF Exit, Busy
    <3>2. CASE Stored(i)
      BY <1>1, <2>4, <3>2 DEF Exit, Accounted, Stored, Over
    <3>3. CASE \E v \in DOMAIN worker : Busy(v) /\ worker[v].job = i
      <4>1. PICK v \in DOMAIN worker : Busy(v) /\ worker[v].job = i
        BY <3>3
      <4>2. v # w
        BY <3>1, <4>1
      <4> QED
        BY <1>5, <1>6, <4>1, <4>2 DEF Accounted
    <3> QED
      BY <2>1, <3>2, <3>3 DEF Accounted
  <2> QED
    BY <2>2, <2>3, <2>4 DEF PoolStep
<1>11. /\ \A i \in DOMAIN zips : i > sent => race'[i] = Unasked
       /\ closed' => sent' = Len(zips')
  BY <1>1 DEF HandedOut
<1> QED
  BY <1>1, <1>5, <1>8, <1>9, <1>10, <1>11 DEF HandedOut

\* The list is handed out.
LEMMA CloseKeeps ==
  ASSUME RequestInv, stage = "race", Close, UNCHANGED <<endpoint, named, stage, response>>
  PROVE  RequestInv'
<1>1. /\ RequestTypeOK /\ NothingBegun /\ Listed /\ HandedOut /\ Replied
      /\ UNCHANGED <<race, zips, sent, worker, out, endpoint, named, stage, response>>
      /\ sent = Len(zips) /\ closed' = TRUE
  BY DEF RequestInv, Close, raceVars
<1>2. RequestTypeOK' /\ NothingBegun' /\ Listed' /\ Replied'
  BY <1>1 DEF RequestTypeOK, NothingBegun, Listed, Replied
<1>3. HandedOut'
  BY <1>1 DEF HandedOut, HoldsOne, Accounted, Stored, Busy, Over
<1> QED
  BY <1>2, <1>3 DEF RequestInv

\* A request under way and its races, all along.
CalcInv == RacesInv /\ RequestInv

\* Every step of the endpoint, of its pool and of its races keeps both.
LEMMA CalcStep ==
  ASSUME CalcInv, [CalcNext]_calcVars
  PROVE  CalcInv'
<1>1. RacesInv /\ RequestInv /\ RaceTypeOK
  BY DEF CalcInv, RacesInv
<1>2. RacesInv'
  BY <1>1, RacesStep
<1> SUFFICES RequestInv'
  BY <1>2 DEF CalcInv
<1>same. ASSUME UNCHANGED <<race, poolVars, endpoint, named, stage, response>> PROVE RequestInv'
  BY <1>1, <1>same, LaterKeeps DEF RacesLater
<1>3. CASE UNCHANGED calcVars
  BY <1>3, <1>same DEF calcVars, zoneVars, raceVars
<1>4. CASE Handle
  BY <1>1, <1>4, ParseKeeps, LookupFailsKeeps, StartRaceKeeps, StartRacesKeeps, ReplyOneKeeps, ReplyKeeps
  DEF Handle
<1>5. CASE Pool /\ Quiet
  <2>1. stage = "race" /\ UNCHANGED <<endpoint, named, stage, response>>
    BY <1>5 DEF Pool, Quiet
  <2>2. CASE Close
    BY <1>1, <2>1, <2>2, CloseKeeps
  <2>3. ASSUME NEW w \in DOMAIN worker, Hand(w) PROVE RequestInv'
    BY <1>1, <2>1, <2>3, HandKeeps
  <2>4. ASSUME NEW w \in DOMAIN worker, PoolStep(w) PROVE RequestInv'
    BY <1>1, <2>1, <2>4, PoolStepKeeps, PoolStepHandedOut
  <2> QED
    BY <1>5, <2>2, <2>3, <2>4 DEF Pool, Work, PoolStep
<1>6. CASE Expire /\ UNCHANGED poolVars /\ Quiet
  BY <1>6, <1>same DEF Expire, Quiet
<1>7. ASSUME NEW r \in Races, RaceStep(r), UNCHANGED poolVars, Quiet
      PROVE  RequestInv'
  <2>1. RacesLater /\ \A q \in Races : q # r => race'[q] = race[q]
    BY <1>1, <1>7, RacesGoOn
  <2>2. race[r] # Unasked
    BY <1>1, <1>7, RaceStepEffect
  <2>3. UNCHANGED <<poolVars, endpoint, named, stage, response>>
    BY <1>7 DEF Quiet
  <2> QED
    BY <1>1, <2>1, <2>2, <2>3, LaterKeeps
<1> QED
  BY <1>3, <1>4, <1>5, <1>6, <1>7 DEF CalcNext

\* So they hold all along.
LEMMA CalcAlways == CalcSpec => []CalcInv
<1>1. CalcInit => CalcInv
  BY RacesInit, RequestInit DEF CalcInv
<1>2. CalcInv /\ [CalcNext]_calcVars => CalcInv'
  BY CalcStep
<1> QED
  BY <1>1, <1>2, PTL DEF CalcSpec

\* A response with results is the one for many zips.
LEMMA ZonedReply ==
  ASSUME CalcInv, Zoned
  PROVE  ZonesReply
<1>1. stage = "answered"
  <2>1. DOMAIN NoResponse = {"status"}
    BY DEF NoResponse
  <2> QED
    BY <2>1 DEF CalcInv, RequestInv, NothingBegun, Zoned
<1>2. ~ Refused
  BY DEF Refused, Zoned
<1>3. ~ OneReply
  <2> SUFFICES ASSUME OneReply PROVE FALSE
    OBVIOUS
  <2>1. DOMAIN response = {"status", "from", "window"}
    BY DEF OneReply
  <2> QED
    BY <2>1 DEF Zoned
<1> QED
  BY <1>1, <1>2, <1>3 DEF CalcInv, RequestInv, Replied

\* GET /calculate/multi answers for every distinct zip of its list, in the list's
\* order, with what the one race for that zip brought: for any list, any number of
\* workers, and any order in which they take zips and store results.
THEOREM ZipsAreAnsweredOnce == CalcSpec => []EachZipOnce
<1>1. CalcInv => EachZipOnce
  <2> SUFFICES ASSUME CalcInv, Zoned
               PROVE  /\ \A i, j \in DOMAIN zips : i # j => zips[i] # zips[j]
                      /\ ToSet(zips) = named
                      /\ Len(response.results) = Len(zips)
                      /\ \A i \in DOMAIN zips :
                           /\ response.results[i].zip = zips[i]
                           /\ response.results[i].from = race[i].answer
                           /\ ~ Racing(i)
    BY DEF EachZipOnce
  <2>1. ZonesReply
    BY ZonedReply
  <2>2. PICK window \in [DOMAIN zips -> Window] :
          response = [status |-> 200,
                      results |-> [i \in DOMAIN zips |->
                        [zip |-> zips[i], from |-> race[i].answer, window |-> window[i]]],
                      greenest |-> Greenest(window)]
    BY <2>1 DEF ZonesReply
  <2>3. Listed /\ endpoint = "multi" /\ \A i \in DOMAIN zips : Over(i)
    BY <2>1 DEF CalcInv, RequestInv, ZonesReply
  <2>4. DOMAIN zips = 1 .. Len(zips) /\ Len(zips) \in Nat
    BY ZipsAreRaces DEF CalcInv, RequestInv
  <2>5. response.results = [i \in 1 .. Len(zips) |->
                              [zip |-> zips[i], from |-> race[i].answer, window |-> window[i]]]
    BY <2>2, <2>4
  <2>6. Len(response.results) = Len(zips)
    BY <2>4, <2>5
  <2> QED
    BY <2>3, <2>4, <2>5, <2>6 DEF Listed, Over, Racing
<1> QED
  BY <1>1, CalcAlways, PTL

\* "greenest" is the first of the zips whose window no other's undercuts, and is
\* missing only if no zip has a window: for any list and any windows.
THEOREM TheGreenestIsNamed == CalcSpec => []GreenestIsBest
<1>1. CalcInv => GreenestIsBest
  <2> SUFFICES ASSUME CalcInv, Zoned PROVE GreenestIsBest
    BY DEF GreenestIsBest
  <2>1. ZonesReply
    BY ZonedReply
  <2>2. PICK window \in [DOMAIN zips -> Window] :
          response = [status |-> 200,
                      results |-> [i \in DOMAIN zips |->
                        [zip |-> zips[i], from |-> race[i].answer, window |-> window[i]]],
                      greenest |-> Greenest(window)]
    BY <2>1 DEF ZonesReply
  <2>3. DOMAIN zips = 1 .. Len(zips) /\ Len(zips) \in Nat
    BY ZipsAreRaces DEF CalcInv, RequestInv
  <2>4. /\ response.greenest = Greenest(window)
        /\ \A i \in DOMAIN zips : response.results[i].window = window[i]
    BY <2>2
  <2>5. BestOf(response.greenest, window, Len(zips))
    BY <2>3, <2>4, GreenestIsBestOf
  <2> DEFINE windows == {i \in DOMAIN zips : response.results[i].window.ok}
             g == response.greenest
  <2>6. windows = {i \in 1 .. Len(zips) : window[i].ok}
    BY <2>3, <2>4
  <2>7. CASE windows = {}
    <3>1. g = 0
      BY <2>3, <2>5, <2>6, <2>7 DEF BestOf
    <3> QED
      BY <2>7, <3>1 DEF GreenestIsBest
  <2>8. CASE windows # {}
    <3>1. g # 0
      BY <2>5, <2>6, <2>8 DEF BestOf
    <3>2. g \in windows
      BY <2>3, <2>5, <2>6, <3>1 DEF BestOf
    <3>3. \A j \in windows : \/ window[j].average > window[g].average
                             \/ window[j].average = window[g].average /\ j >= g
      BY <2>5, <2>6, <3>1 DEF BestOf
    <3>4. \A j \in windows : response.results[j].window.average = window[j].average
      BY <2>4
    <3> QED
      BY <2>8, <3>2, <3>3, <3>4 DEF GreenestIsBest
  <2> QED
    BY <2>7, <2>8
<1> QED
  BY <1>1, CalcAlways, PTL

\* The status of /calculate names the right culprit, for any number of providers in
\* any order: 503 is said when every provider failed, and otherwise only when the time
\* was over; 200 or 400 only of a forecast that won, as the appliance fits or not.
THEOREM BlameIsJust == CalcSpec => []BlameIsRight
<1>1. CalcInv => BlameIsRight
  <2> SUFFICES ASSUME CalcInv PROVE BlameIsRight
    OBVIOUS
  <2> DEFINE x == race[1]
  <2>1. 1 \in Races
    BY ZipsAreRaces DEF CalcInv, RequestInv
  <2>2. x \in RaceRecord /\ RaceSound(x)
    BY <2>1 DEF CalcInv, RacesInv, RacesSound, RaceTypeOK, RaceRecord, CallRecord
  <2>3. x.answer.kind \in {"won", "unasked", "open", "failed", "cancelled"}
    BY <2>2, RaceFields DEF Answer
  <2>4. x.answer.kind = "failed" => \A p \in Providers : x.call[p] = Done(FALSE)
    <3> HIDE DEF x
    <3>1. x.answer.kind = "failed" => Len(x.errs) = Cardinality(Providers)
      BY <2>2 DEF RaceSound, Sound
    <3> QED
      BY <2>2, <3>1, AllFailed
  <2>5. x.answer.kind = "won" => x.answer.provider \in Providers /\ x.call[x.answer.provider] = Done(TRUE)
    <3> HIDE DEF x
    <3> QED
      BY <2>2, RaceFields DEF RaceSound, Sound
  <2>6. CASE stage # "answered"
    <3>1. response.status = 0 /\ ~ByRace
      BY <2>6 DEF CalcInv, RequestInv, NothingBegun, NoResponse, ByRace
    <3> QED
      BY <3>1 DEF BlameIsRight
  <2>7. CASE Refused
    BY <2>7 DEF Refused, ByRace, BlameIsRight
  <2>8. CASE OneReply
    <3>1. PICK window \in WindowsOf(x.answer) :
            response = [status |-> StatusOf(x.answer, window), from |-> x.answer, window |-> window]
      BY <2>8 DEF OneReply
    <3>2. ByRace /\ response.from = x.answer /\ response.window = window
          /\ response.status = StatusOf(x.answer, window)
      BY <3>1 DEF ByRace
    <3>3. CASE x.answer.kind # "won"
      <4>0. ~window.ok
        BY <3>3 DEF WindowsOf, NoWindow
      <4>1. response.status = 503
        BY <3>2, <3>3, <4>0 DEF StatusOf
      <4>2. x.answer.kind = "cancelled" \/ \A p \in Providers : x.call[p] = Done(FALSE)
        BY <2>3, <2>4, <2>8, <3>3 DEF OneReply, Over
      <4> QED
        BY <3>2, <4>1, <4>2 DEF BlameIsRight, EveryProviderFailed, Done
    <3>4. CASE x.answer.kind = "won"
      <4>1. response.status = IF response.window.ok THEN 200 ELSE 400
        BY <3>2, <3>4 DEF StatusOf
      <4>2. response.status # 503
        BY <4>1
      <4>3. /\ response.from.provider \in Providers
            /\ race[1].call[response.from.provider].ok
        BY <2>5, <3>2, <3>4 DEF Done
      <4>4. ~EveryProviderFailed(1)
        BY <4>3 DEF EveryProviderFailed
      <4> QED
        BY <3>2, <3>4, <4>1, <4>2, <4>3, <4>4 DEF BlameIsRight
    <3> QED
      BY <3>3, <3>4
  <2>9. CASE ZonesReply
    <3>1. response.status = 200 /\ ~ByRace
      BY <2>9 DEF ZonesReply, ByRace
    <3> QED
      BY <3>1 DEF BlameIsRight
  <2> QED
    BY <2>6, <2>7, <2>8, <2>9 DEF CalcInv, RequestInv, Replied
<1> QED
  BY <1>1, CalcAlways, PTL
=============================================================================
