---------------------------- MODULE CarbonWindow ----------------------------
(***************************************************************************)
(* The pure part of GET /calculate and POST /schedules: what is left of a  *)
(* forecast now (UpcomingSlots), the cleanest block of it                  *)
(* (FindOptimalWindow); and where a forecast comes from: made up (mock),   *)
(* cut off after a day (Electricity Maps), or averaged over each hour      *)
(* (WattTime).                                                             *)
(*                                                                         *)
(* Times are in half hours, so that "now" can fall inside a slot;          *)
(* durations too, so that 1.5 h is a duration.  A slot is a record         *)
(* [at, value].  Floating point is not modelled: values are integers, and  *)
(* an average is kept as the sum it is the quotient of.                    *)
(***************************************************************************)
EXTENDS Integers, Sequences, FiniteSets, Functions

CONSTANTS
    NaN,           \* a duration that is not a number
    ForecastHours  \* the most slots of a forecast, 24

Hour == 2

NoWindow == [ok |-> FALSE]

\* Truncate(time.Hour).
HourOf(t) == (t \div Hour) * Hour
-----------------------------------------------------------------------------
(* Slips: wrong forms of definitions below, used by none of them.          *)

\* The last minimum instead of the first: "windowSum <= minSum".
SlideToLast(forecast, size) ==
    LET value == [i \in DOMAIN forecast |-> forecast[i].value]
        Sum(k) == SumFunctionOnSet(value, k .. k + size - 1)
        starts == 1 .. Len(forecast) - size + 1
    IN  [min |-> Sum(CHOOSE k \in starts : \A j \in starts : Sum(k) <= Sum(j)),
         at |-> CHOOSE k \in starts : \A j \in starts :
                    Sum(k) < Sum(j) \/ (Sum(k) = Sum(j) /\ k >= j)]

\* Truncate(time.Hour) without Add(time.Hour).
MockForecastFromNow(made, value) ==
    [i \in 1 .. ForecastHours |-> [at |-> HourOf(made) + Hour * (i - 1), value |-> value[i]]]

\* "b.sum = p.Value" for "b.sum += p.Value": the last point is all that counts.
BucketOfLast(points, hour) ==
    LET bucket[n \in 0 .. Len(points)] ==
            IF n = 0 THEN [sum |-> 0, count |-> 0]
            ELSE IF points[n].readable /\ HourOf(points[n].at) = hour
            THEN [sum |-> points[n].value, count |-> bucket[n - 1].count + 1]
            ELSE bucket[n - 1]
    IN  bucket[Len(points)]
-----------------------------------------------------------------------------

\* What is left of the forecast from its first slot that is not in the past.
UpcomingSlots(forecast, now) ==
    LET ahead == {i \in DOMAIN forecast : forecast[i].at >= now}
    IN  IF ahead = {} THEN <<>>
        ELSE SubSeq(forecast, CHOOSE i \in ahead : \A j \in ahead : i <= j, Len(forecast))

\* math.Ceil of the duration in slots, and at least one.
WindowSize(duration) ==
    LET n == -((-duration) \div Hour) IN IF n < 1 THEN 1 ELSE n

\* The two loops of FindOptimalWindow: first[n] is windowSum after n slots, slide[i]
\* the state of the second loop after slot i has left and slot i + size has entered.
\* The first minimum is kept.
Slide(forecast, size) ==
    LET first[n \in 0 .. size] == IF n = 0 THEN 0 ELSE first[n - 1] + forecast[n].value
        slide[i \in 0 .. Len(forecast) - size] ==
            IF i = 0
            THEN [sum |-> first[size], min |-> first[size], at |-> 1]
            ELSE LET before == slide[i - 1]
                     sum == before.sum - forecast[i].value + forecast[i + size].value
                 IN  IF sum < before.min
                     THEN [sum |-> sum, min |-> sum, at |-> i + 1]
                     ELSE [sum |-> sum, min |-> before.min, at |-> before.at]
    IN  slide[Len(forecast) - size]

FindOptimalWindow(forecast, duration) ==
    IF duration = NaN \/ Len(forecast) = 0 THEN NoWindow
    ELSE IF duration > Len(forecast) * Hour THEN NoWindow
    ELSE LET size == WindowSize(duration)
             best == Slide(forecast, size)
         IN  [ok |-> TRUE,
              start |-> forecast[best.at].at,
              end |-> forecast[best.at + size - 1].at + Hour,
              sum |-> best.min,
              size |-> size]

BestWindow(forecast, duration, now) ==
    FindOptimalWindow(UpcomingSlots(forecast, now), duration)

\* ForecastHours slots, the first of them the next whole hour.
MockForecast(made, value) ==
    [i \in 1 .. ForecastHours |-> [at |-> HourOf(made) + Hour * i, value |-> value[i]]]

\* The slots of a body whose timestamps all parse; for the race, another is an error.
ElectricityMapsForecast(body) ==
    SubSeq(body, 1, IF Len(body) > ForecastHours THEN ForecastHours ELSE Len(body))

\* What the loop over the points, of which unreadable ones are skipped, puts into the
\* bucket of an hour.
Bucket(points, hour) ==
    LET bucket[n \in 0 .. Len(points)] ==
            IF n = 0 THEN [sum |-> 0, count |-> 0]
            ELSE IF points[n].readable /\ HourOf(points[n].at) = hour
            THEN [sum |-> bucket[n - 1].sum + points[n].value, count |-> bucket[n - 1].count + 1]
            ELSE bucket[n - 1]
    IN  bucket[Len(points)]

\* sort.Slice: the hours that have a bucket, in order.
Ascending(hours) ==
    CHOOSE h \in [1 .. Cardinality(hours) -> hours] : \A i, j \in DOMAIN h : i < j => h[i] < h[j]

HoursOf(points) == {HourOf(points[i].at) : i \in {i \in DOMAIN points : points[i].readable}}

\* points: records [at, value, readable], with values whose averages are integers.
HourlyAverage(points) ==
    LET hours == Ascending(HoursOf(points))
        slots == [i \in DOMAIN hours |->
                    [at |-> hours[i],
                     value |-> Bucket(points, hours[i]).sum \div Bucket(points, hours[i]).count]]
    IN  SubSeq(slots, 1, IF Len(slots) > ForecastHours THEN ForecastHours ELSE Len(slots))
=============================================================================
