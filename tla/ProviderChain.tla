--------------------------- MODULE ProviderChain ---------------------------
(***************************************************************************)
(* One provider as buildProviders makes it (cmd/server/main.go):           *)
(* Cached(RateLimited(base)), where the base either calls its API at once  *)
(* or needs a token first.  Requests for one forecast, each with a context *)
(* of its own, go through the cache, the limiter, the token and its mutex, *)
(* the call and back through the cache.                                    *)
(*                                                                         *)
(* Timers fire on time and code that need not wait takes no time: only     *)
(* slots, calls, the SET and a mutex that is held make a request wait.     *)
(***************************************************************************)
EXTENDS Integers

CONSTANTS
    Bases,    \* "direct" (Electricity Maps), "token" (WattTime)
    LastAsk,  \* bound: no request begins later
    MaxTime,  \* bound on the clock
    Callers, Interval, Patience,
    Hour, Second, TTLs, MaxDelay, Missing,
    Nobody, NoToken, Refresh, Validity, MaxLogin, MaxSend

VARIABLES
    base,
    next, waiter,
    configured, entry, request,
    mu, token, caller,
    quiet,  \* history: the time since a request for a forecast was last sent, or
            \* Interval if that is long ago
    now

Limiter == INSTANCE OutboundLimiter
Cache == INSTANCE ForecastCache
Token == INSTANCE WattTimeToken

ASSUME ChainAssumption ==
    /\ Bases \subseteq {"direct", "token"}
    /\ LastAsk \in Nat /\ MaxTime \in Nat
    /\ Limiter!LimiterParameters /\ Cache!CacheParameters /\ Token!TokenParameters

waitVars == <<next, waiter>>
cacheVars == <<configured, entry, request>>
tokenVars == <<mu, token, caller>>
chainVars == <<base, waitVars, cacheVars, tokenVars, quiet, now>>

ChainInit ==
    /\ base \in Bases
    /\ Limiter!LimiterInit /\ Cache!CacheInit /\ Token!TokenInit
    /\ quiet = Interval
    /\ now = 0

\* A request for a forecast leaves the process, now.
Outbound == quiet' = 0
-----------------------------------------------------------------------------
(* Slips: wrong forms of definitions below, used by none of them.          *)

\* _ = r.limiter.Wait(ctx)
TurnedAwayAnyway(c) ==
    /\ Limiter!WouldExceed(c)
    /\ Cache!Get(c)
    /\ Token!Sending(c, NoToken) /\ UNCHANGED <<mu, token>>
    /\ Outbound
    /\ UNCHANGED <<base, now>>
-----------------------------------------------------------------------------

\* Nothing in the cache: the limiter is asked for a slot.
Ask(c) ==
    /\ now <= LastAsk
    /\ Cache!Get(c) /\ Limiter!Reserve(c)
    /\ UNCHANGED <<base, tokenVars, quiet, now>>

\* The error of Wait is the answer of the whole chain.
TurnedAway(c) ==
    /\ request[c] = Cache!Idle /\ Limiter!WouldExceed(c)
    /\ UNCHANGED chainVars

\* The context ends during the wait: its time is over, another provider has won
\* the race, or the client is gone.
GiveUp(c) ==
    /\ Limiter!Cancel(c) /\ Cache!FetchFails(c)
    /\ UNCHANGED <<base, tokenVars, quiet, now>>

\* The slot has come.
Proceed(c) ==
    /\ Limiter!GoOn(c)
    /\ IF base = "token"
       THEN Token!Call(c) /\ UNCHANGED quiet
       ELSE Token!Sending(c, NoToken) /\ Outbound /\ UNCHANGED <<mu, token>>
    /\ UNCHANGED <<base, cacheVars, now>>

\* A request with a context that is done is not even sent.
SentIfInTime(c) ==
    IF caller'[c].pc = "send" /\ Limiter!InTime(c) THEN Outbound ELSE UNCHANGED quiet

Lock(c) ==
    /\ Token!Lock(c) /\ SentIfInTime(c)
    /\ UNCHANGED <<base, waitVars, cacheVars, now>>

LoginSucceeds(c) ==
    /\ Limiter!InTime(c)
    /\ Token!LoginSucceeds(c) /\ SentIfInTime(c)
    /\ UNCHANGED <<base, waitVars, cacheVars, now>>

LoginFails(c) ==
    /\ Token!LoginFails(c) /\ Limiter!Leave(c) /\ Cache!FetchFails(c)
    /\ UNCHANGED <<base, quiet, now>>

ForecastArrives(c) ==
    /\ Limiter!InTime(c)
    /\ Token!Sent(c) /\ Limiter!Leave(c) /\ Cache!FetchSucceeds(c)
    /\ UNCHANGED <<base, quiet, now>>

\* A refusal, a body that does not parse, or a context that is done.
ForecastFails(c) ==
    /\ Token!Sent(c) /\ Limiter!Leave(c) /\ Cache!FetchFails(c)
    /\ UNCHANGED <<base, quiet, now>>

\* Behind the fetch: the clock is read, and the SET made if it is worth it.
ReadClock(c) ==
    /\ Cache!ReadClock(c)
    /\ UNCHANGED <<base, waitVars, tokenVars, quiet, now>>

Store(c) ==
    /\ Cache!Store(c)
    /\ UNCHANGED <<base, waitVars, tokenVars, quiet, now>>

Advance ==
    /\ now < MaxTime
    /\ \A c \in Callers :
         /\ ~Limiter!SlotIsHere(c)
         /\ Token!CallsInTime(c)
         /\ caller[c].pc \in {"login", "send"} => now < waiter[c].deadline
         /\ Cache!StoresInTime(c)
    /\ now' = now + 1
    /\ quiet' = IF quiet < Interval THEN quiet + 1 ELSE quiet
    /\ Cache!Expiring
    /\ UNCHANGED <<base, waitVars, tokenVars>>

Fetch(c) == Proceed(c) \/ ForecastArrives(c) \/ ForecastFails(c)
LogIn(c) == LoginSucceeds(c) \/ LoginFails(c)
Finish(c) == ReadClock(c) \/ Store(c)

ChainNext ==
    \/ Advance
    \/ \E c \in Callers :
         \/ Ask(c) \/ TurnedAway(c) \/ GiveUp(c)
         \/ Fetch(c) \/ Lock(c) \/ LogIn(c) \/ Finish(c)

ChainSpec == ChainInit /\ [][ChainNext]_chainVars

\* Time passes, calls have timeouts, and code that can run runs: a free mutex goes
\* to one that waits for it, and slots keep newcomers from taking it for ever.
\* That a context ends before its time is not assumed.
ChainLiveSpec ==
    /\ ChainSpec
    /\ WF_chainVars(Advance)
    /\ \A c \in Callers : /\ WF_chainVars(Fetch(c)) /\ WF_chainVars(Lock(c))
                          /\ WF_chainVars(LogIn(c)) /\ WF_chainVars(Finish(c))
-----------------------------------------------------------------------------

\* A forecast that began with a slot still ahead is not served once that slot has
\* started, however long limiter, login and call took before it was made.
StartedSlotNeedsCrossing == Cache!StartedSlotNeedsCrossing

\* No cached forecast outlives the configured TTL and the delay of its SET.
AgeBounded == Cache!AgeBounded

\* No request is under way with an expired token, however long its slot, the mutex
\* and the login of another took.
SentTokenIsValid == Token!SentTokenIsValid

\* A good token is never replaced before its time, by however many requests.
LoginsAreSpaced == Token!LoginsAreSpaced

\* Every request ends: with a slot that comes, a mutex that is freed whether the
\* login succeeds or fails, and calls that time out.
EveryRequestEnds == \A c \in Callers : request[c].pc # "idle" ~> request[c].pc = "idle"

\* "outbound calls are throttled to at most rps requests per second (burst 1)".
CallsAreThrottled ==
    [][\A c \in Callers :
         caller[c].pc # "send" /\ caller'[c].pc = "send" /\ Limiter!InTime(c)
           => quiet = Interval]_chainVars

\* So they are for a base that needs no token, also when waits are cancelled and
\* their slots given back.
DirectCallsAreThrottled ==
    [][base = "direct" =>
         \A c \in Callers : caller[c].pc # "send" /\ caller'[c].pc = "send" => quiet = Interval]_chainVars
=============================================================================
