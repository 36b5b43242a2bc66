--------------------------- MODULE ForecastCache ---------------------------
(***************************************************************************)
(* Cached.GetForecast (internal/grid/cache.go): one Redis key, that of a   *)
(* provider and a zip, shared by requests on every instance.  Between      *)
(* making a forecast, reading the clock for its TTL and the SET, time may  *)
(* pass, and the hour may strike.                                          *)
(*                                                                         *)
(* Redis is external: GET, SET with an expiry, and failures of both.       *)
(***************************************************************************)
EXTENDS Integers

CONSTANTS
    Callers,   \* requests under way together
    Hour,      \* time.Hour, in ticks
    Second,    \* time.Second
    TTLs,      \* values of FORECAST_CACHE_TTL
    MaxDelay,  \* bound: from making a forecast to its SET
    Missing    \* no value under the key

CacheParameters ==
    /\ Hour \in Nat /\ Second \in Nat /\ 0 < Second /\ Second < Hour
    /\ TTLs \subseteq Nat
    /\ MaxDelay \in Nat

VARIABLES
    configured,  \* Cached.ttl
    entry,       \* what is under the key
    request,     \* the requests, by caller
    now

cacheVars == <<configured, entry, request>>

HourOf(t) == (t \div Hour) * Hour

\* A forecast is known by when it was made and by its first slot, an entry by its
\* forecast, its TTL and when its SET arrived.  A TTL of 0 is "never expire".
Alive(e, t) == e # Missing /\ (e.ttl = 0 \/ t < e.stored + e.ttl)

Idle == [pc |-> "idle"]

CacheInit ==
    /\ configured \in TTLs
    /\ entry = Missing
    /\ request = [c \in Callers |-> Idle]
-----------------------------------------------------------------------------
(* Slips: wrong forms of definitions below, used by none of them.          *)

CacheTTLUncapped(t) == configured

\* The check for a second forgotten.
ReadClockAlways(c) ==
    /\ request[c].pc = "fetched"
    /\ request' = [request EXCEPT ![c] =
                     [pc |-> "set", forecast |-> request[c].forecast, ttl |-> configured]]
    /\ UNCHANGED <<configured, entry>>
-----------------------------------------------------------------------------

\* The configured TTL, cut off at the next hour.
CacheTTL(t) == LET untilHour == HourOf(t) + Hour - t
               IN  IF untilHour < configured THEN untilHour ELSE configured

\* A miss, a failed GET and a value that does not parse lead to the provider.  A
\* hit is the answer, and changes nothing here: what a hit may return at any time
\* is what is alive then.
Get(c) ==
    /\ request[c].pc = "idle"
    /\ request' = [request EXCEPT ![c] = [pc |-> "fetch"]]
    /\ UNCHANGED <<configured, entry>>

\* The provider answers.  The mock begins at the next whole hour, the live ones at
\* the current one.
FetchSucceeds(c) ==
    /\ request[c].pc = "fetch"
    /\ \E first \in {HourOf(now), HourOf(now) + Hour} :
         request' = [request EXCEPT ![c] =
                       [pc |-> "fetched", forecast |-> [made |-> now, first |-> first]]]
    /\ UNCHANGED <<configured, entry>>

\* An error is the answer.
FetchFails(c) ==
    /\ request[c].pc = "fetch"
    /\ request' = [request EXCEPT ![c] = Idle]
    /\ UNCHANGED <<configured, entry>>

\* cacheTTL(time.Now(), c.ttl), and whether it is worth it.
ReadClock(c) ==
    /\ request[c].pc = "fetched"
    /\ request' = [request EXCEPT ![c] =
                     IF CacheTTL(now) >= Second
                     THEN [pc |-> "set", forecast |-> request[c].forecast, ttl |-> CacheTTL(now)]
                     ELSE Idle]
    /\ UNCHANGED <<configured, entry>>

\* SET key value EX ttl; a failure is logged and the forecast is the answer.
Store(c) ==
    /\ request[c].pc = "set"
    /\ \/ entry' = [forecast |-> request[c].forecast, stored |-> now, ttl |-> request[c].ttl]
       \/ UNCHANGED entry
    /\ request' = [request EXCEPT ![c] = Idle]
    /\ UNCHANGED configured

\* An entry that has expired is as good as none.
Expiring ==
    /\ entry' = IF Alive(entry, now + 1) THEN entry ELSE Missing
    /\ UNCHANGED <<configured, request>>

StoresInTime(c) ==
    request[c].pc \in {"fetched", "set"} => now < request[c].forecast.made + MaxDelay
-----------------------------------------------------------------------------

\* A forecast that began with a slot still ahead is not served once that slot has
\* started ("one cached across the boundary keeps serving a first slot that has
\* already started"): at most for as long as its SET was on the way, unless the
\* hour struck before the SET.
StartedSlotNeedsCrossing ==
    entry # Missing =>
      LET forecast == entry.forecast
      IN  \/ forecast.first <= forecast.made
          \/ now < forecast.first + (entry.stored - forecast.made)
          \/ HourOf(forecast.made) # HourOf(entry.stored)

\* However the SETs of concurrent requests overtake each other, and whatever the
\* configured TTL, no forecast is served longer than that after it was stored: an
\* entry without an expiry is never made.
AgeBounded ==
    entry # Missing => now < entry.forecast.made + MaxDelay + configured
=============================================================================
