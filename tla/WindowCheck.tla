---------------------------- MODULE WindowCheck ----------------------------
(***************************************************************************)
(* CarbonWindow against a reference: every forecast, duration and time of  *)
(* day out of small sets is put through bestWindow once.                   *)
(***************************************************************************)
EXTENDS CarbonWindow

CONSTANTS
    MaxSlots,    \* bound on the slots of a body of Electricity Maps
    PointHours,  \* bound on the hours that have points
    Values,      \* carbon intensities
    PointValues, \* and those of points, with integers for averages
    Made,        \* when the mock makes its forecast
    Durations,   \* half hours, NaN, and one no forecast can hold
    Times        \* when bestWindow reads the clock

ASSUME WindowAssumption ==
    /\ {ForecastHours, MaxSlots, PointHours, Made} \cup Times \subseteq Nat
    /\ Values \subseteq Int /\ PointValues \subseteq Int \ {0}
    /\ Durations \subseteq (Nat \ {0}) \cup {NaN} /\ NaN \notin Nat

VARIABLES source, forecast, duration, now, points, window, done

checkVars == <<source, forecast, duration, now, points, window, done>>

\* What Electricity Maps may send: the hours from that of time 0.
Bodies ==
    {[i \in DOMAIN v |-> [at |-> Hour * (i - 1), value |-> v[i]]] :
        v \in UNION {[1 .. n -> Values] : n \in 0 .. MaxSlots}}

\* WattTime's points, two an hour, some of which (value 0) have no readable time.
PointLists ==
    {[i \in DOMAIN v |-> [at |-> i - 1, value |-> v[i], readable |-> v[i] # 0]] :
        v \in [1 .. Hour * PointHours -> PointValues \cup {0}]}

Inputs ==
    /\ duration \in Durations
    /\ now \in Times
    /\ window = NoWindow
    /\ done = FALSE

MockInit ==
    /\ Inputs /\ source = "mock" /\ points = <<>>
    /\ \E v \in [1 .. ForecastHours -> Values] : forecast = MockForecast(Made, v)

ElectricityMapsInit ==
    /\ Inputs /\ source = "electricitymaps" /\ points = <<>>
    /\ \E body \in Bodies : forecast = ElectricityMapsForecast(body)

WattTimeInit ==
    /\ Inputs /\ source = "watttime"
    /\ points \in PointLists /\ HoursOf(points) # {}
    /\ forecast = HourlyAverage(points)

Calculate ==
    /\ ~done
    /\ done' = TRUE
    /\ window' = BestWindow(forecast, duration, now)
    /\ UNCHANGED <<source, forecast, duration, now, points>>

WindowSpec == (MockInit \/ ElectricityMapsInit \/ WattTimeInit) /\ [][Calculate]_checkVars
-----------------------------------------------------------------------------
(* The reference. *)

Found == done /\ window.ok
Refused == done /\ ~window.ok

\* What a block of size slots from slot i of a forecast emits.
BlockSum(f, i, size) ==
    LET total[n \in 0 .. size] == IF n = 0 THEN 0 ELSE total[n - 1] + f[i + n - 1].value
    IN  total[size]

\* Whole slots for a duration: n of them, n - 1 are too few.
Slots(d) == CHOOSE n \in 0 .. d : n * Hour >= d /\ (n - 1) * Hour < d

\* Where a block of that size may start.
Starts(size) == {i \in 1 .. Len(forecast) - size + 1 : forecast[i].at >= now}

\* The window is the block of as many slots as the duration needs (1.5 h: two of
\* them, neither fewer nor more) that has the lowest sum, and the earliest of
\* those, among the blocks that do not begin in the past: the running sum of the
\* O(n) loop never drifts from the block it stands for, and the end is the block's.
\* A block is of neighbouring slots: an hour without readable points has none, and a
\* window may reach over it.
CleanestWindow ==
    Found =>
      LET size == Slots(duration)
      IN  \E i \in Starts(size) :
            /\ forecast[i].at = window.start
            /\ forecast[i + size - 1].at + Hour = window.end
            /\ window.sum = BlockSum(forecast, i, size)
            /\ \A j \in Starts(size) :
                 \/ BlockSum(forecast, j, size) > window.sum
                 \/ (BlockSum(forecast, j, size) = window.sum /\ j >= i)

\* A request is refused exactly when no block of upcoming slots is long enough.  The
\* mock's never is up to a day ("Start at the next whole hour so all 24 slots are
\* still ahead of us"), until the hour after it was made has struck, which is
\* when the cache drops it.
RefusedOnlyIfTooLong ==
    done =>
      /\ Refused <=> duration = NaN \/ Starts(Slots(duration)) = {}
      /\ /\ source = "mock" /\ now <= HourOf(Made) + Hour
         /\ duration \in 1 .. Hour * ForecastHours
         => window.ok

\* hourlyAverage cannot make a window look better than it is, nor skip ahead: an
\* hour is as dirty as its points (at least as its cleanest, at most as its
\* dirtiest), and an hour with points is left out only behind all the others.
HourlyIsFaithful ==
    LET readable == {i \in DOMAIN points : points[i].readable}
        inHour(h) == {i \in readable : HourOf(points[i].at) = h}
        hours == {forecast[k].at : k \in DOMAIN forecast}
    IN  source = "watttime" =>
        /\ \A k \in DOMAIN forecast :
             /\ \E i \in inHour(forecast[k].at) : points[i].value <= forecast[k].value
             /\ \E i \in inHour(forecast[k].at) : points[i].value >= forecast[k].value
        /\ \A i \in readable : \/ HourOf(points[i].at) \in hours
                              \/ \A h \in hours : h < HourOf(points[i].at)
=============================================================================
