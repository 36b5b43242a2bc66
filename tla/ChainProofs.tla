----------------------------- MODULE ChainProofs -----------------------------
(***************************************************************************)
(* What the run checks of a provider's chain (cache, outbound limiter and  *)
(* token), proved for any number of requests and any intervals, times to   *)
(* live and delays.  Each of the three parts has an invariant of its own.  *)
(***************************************************************************)
EXTENDS ProviderChain, TLAPS
-----------------------------------------------------------------------------
(* The clock. *)

ClockOK == now \in Nat

\* Time is a number, and only Advance moves it.
LEMMA ClockStep ==
  ASSUME ClockOK, [ChainNext]_chainVars
  PROVE  ClockOK' /\ UNCHANGED base /\ (now' = now \/ Advance)
<1>1. CASE UNCHANGED chainVars
  BY <1>1 DEF chainVars, ClockOK
<1>2. CASE Advance
  BY <1>2 DEF Advance, ClockOK
<1>3. ASSUME NEW c \in Callers,
             \/ Ask(c) \/ TurnedAway(c) \/ GiveUp(c)
             \/ Fetch(c) \/ Lock(c) \/ LogIn(c) \/ Finish(c)
      PROVE  UNCHANGED <<base, now>>
  BY <1>3 DEF Ask, TurnedAway, GiveUp, Fetch, LogIn, Finish, Proceed, Lock, LoginSucceeds,
              LoginFails, ForecastArrives, ForecastFails, ReadClock, Store, chainVars
<1> QED
  BY <1>1, <1>2, <1>3 DEF ChainNext, ClockOK
-----------------------------------------------------------------------------
(* The token. *)

TokenValue == {NoToken} \cup [issued : Int, exp : Int]

\* The process uses a token no longer than Refresh from the answer of the login,
\* which took MaxLogin at most.
Sensible(t) == t # NoToken => t.exp <= t.issued + MaxLogin + Refresh

CallerRecord == [pc : {"outside", "lock", "login", "send"}, at : Int, token : TokenValue]

\* A login is under way by the holder of the mutex, in its time, for want of a token;
\* a request for a forecast is in its time, and began with a token in its own.
CallerOK(c) ==
    /\ Sensible(caller[c].token)
    /\ caller[c].pc = "login" =>
         /\ mu = c
         /\ token # NoToken => token.exp <= now
         /\ caller[c].at <= now /\ now <= caller[c].at + MaxLogin
    /\ caller[c].pc = "send" =>
         /\ caller[c].at <= now /\ now <= caller[c].at + MaxSend
         /\ caller[c].token # NoToken =>
              caller[c].at < caller[c].token.issued + MaxLogin + Refresh

TokenInv ==
    /\ ClockOK
    /\ token \in TokenValue /\ Sensible(token)
    /\ caller \in [Callers -> CallerRecord]
    /\ \A c \in Callers : CallerOK(c)

\* The bounds of the token's life and of the calls.
LEMMA TokenBounds ==
  /\ Refresh \in Nat /\ Validity \in Nat /\ MaxLogin \in Nat /\ MaxSend \in Nat
  /\ 0 < Refresh /\ Refresh + MaxLogin + MaxSend <= Validity
  /\ Nobody \notin Callers
  BY ChainAssumption DEF Token!TokenParameters

\* At first there is no token and nobody has asked for one.
LEMMA TokenInit == ChainInit => TokenInv
<1> SUFFICES ASSUME ChainInit PROVE TokenInv
  OBVIOUS
<1>1. /\ now = 0 /\ token = NoToken /\ caller = [c \in Callers |-> Token!Outside]
  BY DEF ChainInit, Token!TokenInit
<1>2. Token!Outside \in CallerRecord /\ Token!Outside.token = NoToken /\ Token!Outside.pc = "outside"
  BY DEF Token!Outside, CallerRecord, TokenValue
<1> QED
  BY <1>1, <1>2 DEF TokenInv, ClockOK, TokenValue, Sensible, CallerOK

\* What the steps do to the token and to its callers.
TokenStep(c) ==
    \/ Token!Call(c)
    \/ Token!Lock(c)
    \/ Token!LoginSucceeds(c)
    \/ Token!LoginFails(c)
    \/ Token!Sent(c)
    \/ Token!Sending(c, NoToken) /\ UNCHANGED <<mu, token>>

\* Each step is one of these, the clock's, or none.
LEMMA StepOfToken ==
  ASSUME [ChainNext]_chainVars
  PROVE  \/ UNCHANGED <<tokenVars, now>>
         \/ now' = now /\ \E c \in Callers : TokenStep(c)
         \/ /\ Advance /\ UNCHANGED tokenVars /\ now' = now + 1
            /\ \A c \in Callers : Token!CallsInTime(c)
<1>1. CASE UNCHANGED chainVars
  BY <1>1 DEF chainVars
<1>2. CASE Advance
  BY <1>2 DEF Advance
<1>3. ASSUME NEW c \in Callers, Ask(c) \/ TurnedAway(c) \/ GiveUp(c) \/ Finish(c)
      PROVE  UNCHANGED <<tokenVars, now>>
  BY <1>3 DEF Ask, TurnedAway, GiveUp, Finish, ReadClock, Store, chainVars
<1>4. ASSUME NEW c \in Callers, Fetch(c) \/ Lock(c) \/ LogIn(c)
      PROVE  now' = now /\ TokenStep(c)
  BY <1>4 DEF Fetch, Proceed, ForecastArrives, ForecastFails, Lock, LogIn, LoginSucceeds, LoginFails,
              TokenStep
<1> QED
  BY <1>1, <1>2, <1>3, <1>4 DEF ChainNext

\* The one caller that has moved is all right, and for the others nothing has changed
\* but a token they have no use for: only the mutex's holder is about to log in.
LEMMA OthersOK ==
  ASSUME TokenInv, NEW c \in Callers, now' = now,
         caller' \in [Callers -> CallerRecord],
         \A d \in Callers : d # c => caller'[d] = caller[d],
         CallerOK(c)',
         token' \in TokenValue, Sensible(token)',
         \/ mu' = mu /\ token' = token
         \/ mu = Nobody /\ token' = token
         \/ mu = c
  PROVE  TokenInv'
<1>1. ASSUME NEW d \in Callers, d # c PROVE CallerOK(d)'
  <2>1. CallerOK(d) /\ caller'[d] = caller[d] /\ now' = now
    BY <1>1 DEF TokenInv
  <2>2. caller[d].pc = "login" => mu = d /\ mu # c /\ mu # Nobody
    BY <1>1, <2>1, TokenBounds DEF CallerOK
  <2>3. caller[d].pc = "login" => mu' = mu /\ token' = token
    BY <2>2
  <2>4. Sensible(caller'[d].token)
    BY <2>1 DEF CallerOK
  <2> QED
    BY <2>1, <2>2, <2>3, <2>4 DEF CallerOK, Sensible
<1>2. \A d \in Callers : CallerOK(d)'
  BY <1>1
<1> QED
  BY <1>2 DEF TokenInv, ClockOK

\* A caller's step keeps the invariant.
LEMMA TokenStepKeeps ==
  ASSUME TokenInv, NEW c \in Callers, now' = now, TokenStep(c)
  PROVE  TokenInv'
<1>1. /\ now \in Nat /\ token \in TokenValue /\ Sensible(token)
      /\ caller \in [Callers -> CallerRecord] /\ CallerOK(c)
      /\ caller[c] \in CallerRecord
  BY DEF TokenInv, ClockOK
<1>values. /\ caller[c].token \in TokenValue /\ caller[c].at \in Int
           /\ Refresh \in Nat /\ MaxLogin \in Nat /\ MaxSend \in Nat /\ 0 < Refresh
  BY <1>1, TokenBounds DEF CallerRecord
<1>2. NoToken \in TokenValue /\ Sensible(NoToken)
  BY DEF TokenValue, Sensible
<1>outside. Token!Outside \in CallerRecord /\ Token!Outside.token = NoToken /\ Token!Outside.pc = "outside"
  BY DEF Token!Outside, CallerRecord, TokenValue
<1> DEFINE goes(x) == caller' = [caller EXCEPT ![c] = x]
<1>3. ASSUME NEW x \in CallerRecord, goes(x)
      PROVE  /\ caller' \in [Callers -> CallerRecord] /\ caller'[c] = x
             /\ \A d \in Callers : d # c => caller'[d] = caller[d]
  BY <1>1, <1>3
<1>4. ASSUME goes(Token!Outside), UNCHANGED token, mu' = mu \/ mu = c
      PROVE  TokenInv'
  <2>1. CallerOK(c)'
    BY <1>outside, <1>2, <1>3, <1>4 DEF CallerOK, Sensible
  <2> QED
    BY <1>outside, <1>1, <1>3, <1>4, <2>1, OthersOK DEF Sensible
<1>5. CASE Token!Call(c)
  <2> DEFINE x == [caller[c] EXCEPT !.pc = "lock"]
  <2>1. x \in CallerRecord /\ x.pc = "lock" /\ x.token = caller[c].token
    BY <1>1 DEF CallerRecord
  <2>2. goes(x) /\ UNCHANGED <<mu, token>>
    BY <1>5 DEF Token!Call
  <2>3. CallerOK(c)'
    BY <1>1, <1>3, <2>1, <2>2 DEF CallerOK, Sensible
  <2> QED
    BY <1>1, <1>3, <2>1, <2>2, <2>3, OthersOK DEF Sensible
<1>6. CASE Token!Lock(c)
  <2>1. mu = Nobody /\ token' = token
    BY <1>6 DEF Token!Lock
  <2>2. CASE Token!Cached
    <3> DEFINE x == [pc |-> "send", at |-> now, token |-> token]
    <3>1. x \in CallerRecord
      BY <1>1 DEF CallerRecord
    <3>2. goes(x)
      BY <1>6, <2>2 DEF Token!Lock, Token!Sending
    <3>3. now < token.exp /\ token # NoToken /\ token.exp \in Int /\ token.issued \in Int
      BY <1>1, <2>2 DEF Token!Cached, TokenValue
    <3>4. now < token.issued + MaxLogin + Refresh
      BY <1>1, <1>values, <3>3 DEF Sensible
    <3>5. CallerOK(c)'
      BY <1>1, <1>values, <1>3, <3>1, <3>2, <3>4 DEF CallerOK, Sensible
    <3> QED
      BY <1>1, <1>3, <2>1, <3>1, <3>2, <3>5, OthersOK DEF Sensible
  <2>3. CASE ~ Token!Cached
    <3> DEFINE x == [caller[c] EXCEPT !.pc = "login", !.at = now]
    <3>1. x \in CallerRecord /\ x.pc = "login" /\ x.at = now /\ x.token = caller[c].token
      <4> DEFINE r == caller[c]
      <4>1. r \in CallerRecord /\ now \in Int
        BY <1>1
      <4> HIDE DEF r
      <4>2. /\ [r EXCEPT !.pc = "login", !.at = now] \in CallerRecord
            /\ [r EXCEPT !.pc = "login", !.at = now].pc = "login"
            /\ [r EXCEPT !.pc = "login", !.at = now].at = now
            /\ [r EXCEPT !.pc = "login", !.at = now].token = r.token
        BY <4>1 DEF CallerRecord
      <4> QED
        BY <4>2 DEF r
    <3>2. goes(x) /\ mu' = c
      BY <1>6, <2>3 DEF Token!Lock
    <3>3. token # NoToken => token.exp <= now
      BY <1>1, <2>3 DEF Token!Cached, TokenValue
    <3> HIDE DEF x
    <3>4. CallerOK(c)'
      BY <1>1, <1>values, <1>3, <2>1, <3>1, <3>2, <3>3 DEF CallerOK, Sensible
    <3> QED
      BY <1>1, <1>3, <2>1, <3>1, <3>2, <3>4, OthersOK DEF Sensible
  <2> QED
    BY <2>2, <2>3
<1>7. CASE Token!LoginSucceeds(c)
  <2>1. /\ caller[c].pc = "login" /\ mu = c
        /\ caller[c].at <= now /\ now <= caller[c].at + MaxLogin
    BY <1>1, <1>7 DEF Token!LoginSucceeds, CallerOK
  <2>2. token' \in {NoToken} \cup {[issued |-> i, exp |-> now + Refresh] : i \in caller[c].at .. now}
    BY <1>7 DEF Token!LoginSucceeds, Token!Expiry
  <2>3. /\ token' \in TokenValue
        /\ token' # NoToken => /\ token'.exp <= token'.issued + MaxLogin + Refresh
                               /\ now < token'.issued + MaxLogin + Refresh
    <3>1. CASE token' = NoToken
      BY <1>2, <3>1
    <3>2. ASSUME NEW i \in caller[c].at .. now, token' = [issued |-> i, exp |-> now + Refresh]
          PROVE  <2>3!1 /\ <2>3!2
      <4>1. i \in Int /\ now <= i + MaxLogin
        BY <1>1, <1>values, <2>1
      <4>2. token'.issued = i /\ token'.exp = now + Refresh /\ token' \in TokenValue
        BY <1>1, <1>values, <3>2, <4>1 DEF TokenValue
      <4> QED
        BY <1>1, <1>values, <4>1, <4>2
    <3> QED
      BY <2>2, <3>1, <3>2
  <2> DEFINE x == [pc |-> "send", at |-> now, token |-> token']
  <2>4. x \in CallerRecord
    BY <1>1, <2>3 DEF CallerRecord
  <2>5. goes(x)
    BY <1>7 DEF Token!LoginSucceeds, Token!Sending
  <2>6. CallerOK(c)'
    BY <1>1, <1>values, <1>3, <2>3, <2>4, <2>5 DEF CallerOK, Sensible
  <2>7. Sensible(token)'
    BY <2>3 DEF Sensible
  <2> QED
    BY <1>3, <2>1, <2>3, <2>4, <2>5, <2>6, <2>7, OthersOK
<1>8. CASE Token!LoginFails(c)
  BY <1>1, <1>4, <1>8 DEF Token!LoginFails, CallerOK
<1>9. CASE Token!Sent(c)
  BY <1>4, <1>9 DEF Token!Sent
<1>10. CASE Token!Sending(c, NoToken) /\ UNCHANGED <<mu, token>>
  <2> DEFINE x == [pc |-> "send", at |-> now, token |-> NoToken]
  <2>1. x \in CallerRecord
    BY <1>1, <1>2 DEF CallerRecord
  <2>2. goes(x)
    BY <1>10 DEF Token!Sending
  <2>3. CallerOK(c)'
    BY <1>1, <1>values, <1>2, <1>3, <2>1, <2>2 DEF CallerOK, Sensible
  <2> QED
    BY <1>1, <1>3, <1>10, <2>1, <2>2, <2>3, OthersOK DEF Sensible
<1> QED
  BY <1>5, <1>6, <1>7, <1>8, <1>9, <1>10 DEF TokenStep

\* So does the clock, for which calls end in their time.
LEMMA TokenTick ==
  ASSUME TokenInv, now' = now + 1, UNCHANGED tokenVars,
         \A c \in Callers : Token!CallsInTime(c)
  PROVE  TokenInv'
<1>1. /\ now \in Nat /\ now + 1 \in Nat /\ token \in TokenValue
      /\ UNCHANGED <<mu, token, caller>>
  BY DEF TokenInv, ClockOK, tokenVars
<1>2. ASSUME NEW c \in Callers PROVE CallerOK(c)'
  <2>1. CallerOK(c) /\ caller[c] \in CallerRecord /\ Token!CallsInTime(c)
    BY DEF TokenInv
  <2>2. caller[c].at \in Int /\ MaxLogin \in Nat /\ MaxSend \in Nat
    BY <2>1, TokenBounds DEF CallerRecord
  <2>3. token # NoToken => token.exp \in Int
    BY <1>1 DEF TokenValue
  <2> DEFINE later == now + 1
  <2>4. caller[c].pc = "login" =>
          /\ mu = c
          /\ token # NoToken => token.exp <= later
          /\ caller[c].at <= later /\ later <= caller[c].at + MaxLogin
    BY <1>1, <2>1, <2>2, <2>3 DEF CallerOK, Token!CallsInTime
  <2>5. caller[c].pc = "send" =>
          /\ caller[c].at <= later /\ later <= caller[c].at + MaxSend
          /\ caller[c].token # NoToken =>
               caller[c].at < caller[c].token.issued + MaxLogin + Refresh
    BY <1>1, <2>1, <2>2 DEF CallerOK, Token!CallsInTime
  <2>6. now' = later /\ Sensible(caller[c].token)
    BY <2>1 DEF CallerOK
  <2> HIDE DEF later
  <2> QED
    BY <1>1, <2>4, <2>5, <2>6 DEF CallerOK, Sensible
<1> QED
  BY <1>1, <1>2 DEF TokenInv, ClockOK, Sensible

\* The token's invariant holds all along.
LEMMA TokenAlways == ChainSpec => []TokenInv
<1>1. TokenInv /\ [ChainNext]_chainVars => TokenInv'
  <2> SUFFICES ASSUME TokenInv, [ChainNext]_chainVars PROVE TokenInv'
    OBVIOUS
  <2>1. CASE UNCHANGED <<tokenVars, now>>
    BY <2>1 DEF TokenInv, ClockOK, tokenVars, CallerOK, Sensible
  <2> QED
    BY <2>1, StepOfToken, TokenStepKeeps, TokenTick
<1> QED
  BY <1>1, TokenInit, PTL DEF ChainSpec

\* No request is under way with a token the API has let expire: for any number of
\* requests that share it, and however long they wait for the mutex, the login of
\* another and the answer.
THEOREM TokensInUseAreValid == ChainSpec => []SentTokenIsValid
<1>1. TokenInv => SentTokenIsValid
  <2> SUFFICES ASSUME TokenInv, NEW c \in Callers, caller[c].pc = "send", caller[c].token # NoToken
               PROVE  now < caller[c].token.issued + Validity
    BY DEF SentTokenIsValid, Token!SentTokenIsValid
  <2>1. /\ now \in Nat /\ caller[c].at \in Int /\ caller[c].token.issued \in Int
    BY DEF TokenInv, ClockOK, CallerRecord, TokenValue
  <2>2. /\ now <= caller[c].at + MaxSend
        /\ caller[c].at < caller[c].token.issued + MaxLogin + Refresh
    BY DEF TokenInv, CallerOK
  <2> QED
    BY <2>1, <2>2, TokenBounds
<1> QED
  BY <1>1, TokenAlways, PTL

\* A token is replaced only when its time is over: whoever logs in holds the mutex
\* and has seen, since it took it, that there is no token to be used.
THEOREM LoginsHappenOnExpiry == ChainSpec => LoginsAreSpaced
<1>1. TokenInv /\ [ChainNext]_chainVars
        => [token # NoToken /\ token' # token => now >= token.exp]_<<Token!tokenVars, now>>
  <2> SUFFICES ASSUME TokenInv, [ChainNext]_chainVars, token # NoToken, token' # token
               PROVE  now >= token.exp
    OBVIOUS
  <2>1. PICK c \in Callers : TokenStep(c)
    BY StepOfToken DEF tokenVars
  <2>2. Token!LoginSucceeds(c)
    BY <2>1 DEF TokenStep, Token!Call, Token!Lock, Token!LoginFails, Token!Sent
  <2>3. token.exp <= now
    BY <2>2 DEF TokenInv, CallerOK, Token!LoginSucceeds
  <2>4. token.exp \in Int /\ now \in Int
    BY DEF TokenInv, ClockOK, TokenValue
  <2> QED
    BY <2>3, <2>4
<1> QED
  BY <1>1, TokenAlways, PTL DEF ChainSpec, LoginsAreSpaced, Token!LoginsAreSpaced
-----------------------------------------------------------------------------
(* The cache. *)

\* An hour lasts an hour, and starts at its number of hours.
LEMMA HourBounds ==
  ASSUME NEW t \in Nat
  PROVE  /\ t \div Hour \in Int /\ Cache!HourOf(t) \in Int
         /\ Cache!HourOf(t) = (t \div Hour) * Hour
         /\ Cache!HourOf(t) <= t /\ t < Cache!HourOf(t) + Hour
<1>1. Hour \in Nat /\ 0 < Hour
  BY ChainAssumption DEF Cache!CacheParameters
<1>2. Cache!HourOf(t) = (t \div Hour) * Hour
  BY DEF Cache!HourOf
<1> DEFINE q == t \div Hour
<1>3. q \in Int /\ q * Hour <= t /\ t < q * Hour + Hour
  BY <1>1
<1> QED
  BY <1>1, <1>2, <1>3

\* What lies between two times of one hour is of that hour.
LEMMA SameHour ==
  ASSUME NEW s \in Nat, NEW t \in Nat, NEW u \in Nat, s <= t, t <= u,
         Cache!HourOf(s) = Cache!HourOf(u)
  PROVE  Cache!HourOf(t) = Cache!HourOf(s)
<1>1. Hour \in Nat /\ 0 < Hour
  BY ChainAssumption DEF Cache!CacheParameters
<1> DEFINE a == s \div Hour
           b == t \div Hour
<1>2. /\ a \in Int /\ b \in Int
      /\ a * Hour <= t /\ t < a * Hour + Hour
      /\ b * Hour <= t /\ t < b * Hour + Hour
  <2>1. a \in Int /\ Cache!HourOf(s) = a * Hour /\ a * Hour <= s
    BY HourBounds
  <2>2. b \in Int /\ b * Hour <= t /\ t < b * Hour + Hour
    BY HourBounds
  <2>3. u < Cache!HourOf(u) + Hour
    BY HourBounds
  <2> DEFINE h == a * Hour
  <2>4. h \in Int /\ h <= s /\ u < h + Hour
    BY <1>1, <2>1, <2>3
  <2> HIDE DEF h
  <2>5. h <= t /\ t < h + Hour
    BY <1>1, <2>4
  <2> QED
    BY <2>1, <2>2, <2>5 DEF h
<1> HIDE DEF a, b
<1>3. ~ (a < b)
  <2> SUFFICES ASSUME a + 1 <= b PROVE FALSE
    BY <1>2
  <2>1. (a + 1) * Hour <= b * Hour
    BY <1>1, <1>2
  <2>2. (a + 1) * Hour = a * Hour + Hour /\ a * Hour \in Int /\ b * Hour \in Int
    BY <1>1, <1>2
  <2> QED
    BY <1>1, <1>2, <2>1, <2>2
<1>4. ~ (b < a)
  <2> SUFFICES ASSUME b + 1 <= a PROVE FALSE
    BY <1>2
  <2>1. (b + 1) * Hour <= a * Hour
    BY <1>1, <1>2
  <2>2. (b + 1) * Hour = b * Hour + Hour /\ a * Hour \in Int /\ b * Hour \in Int
    BY <1>1, <1>2
  <2> QED
    BY <1>1, <1>2, <2>1, <2>2
<1>5. a = b
  BY <1>2, <1>3, <1>4
<1> QED
  BY <1>5, HourBounds DEF a, b

\* A forecast begins with the current hour or the next, as the hour was when it was made.
ForecastOK(f) ==
    /\ f.made \in Nat
    /\ f.first \in {Cache!HourOf(f.made), Cache!HourOf(f.made) + Hour}

\* The TTL was computed between two times, cut off at the hour and worth a SET.
Capped(ttl, from, to) ==
    /\ ttl \in Int /\ Second <= ttl /\ ttl <= configured
    /\ \E t \in from .. to : ttl <= Cache!HourOf(t) + Hour - t

RequestOK(c) ==
    /\ request[c].pc \in {"fetched", "set"} =>
         /\ ForecastOK(request[c].forecast)
         /\ request[c].forecast.made <= now /\ now <= request[c].forecast.made + MaxDelay
    /\ request[c].pc = "set" => Capped(request[c].ttl, request[c].forecast.made, now)

EntryOK ==
    entry # Missing =>
      /\ ForecastOK(entry.forecast)
      /\ entry.stored \in Nat /\ entry.stored <= now
      /\ entry.forecast.made <= entry.stored /\ entry.stored <= entry.forecast.made + MaxDelay
      /\ Capped(entry.ttl, entry.forecast.made, entry.stored)
      /\ Cache!Alive(entry, now)

CacheInv ==
    /\ ClockOK
    /\ configured \in Nat
    /\ DOMAIN request = Callers
    /\ \A c \in Callers : RequestOK(c)
    /\ EntryOK

\* The lengths of time of the cache.
LEMMA CacheBounds ==
  /\ Hour \in Nat /\ Second \in Nat /\ 0 < Second /\ Second < Hour
  /\ MaxDelay \in Nat /\ TTLs \subseteq Nat
  BY ChainAssumption DEF Cache!CacheParameters

\* At first nothing is cached or asked for.
LEMMA CacheInit == ChainInit => CacheInv
<1> SUFFICES ASSUME ChainInit PROVE CacheInv
  OBVIOUS
<1>1. /\ now = 0 /\ configured \in Nat /\ entry = Missing
      /\ request = [c \in Callers |-> Cache!Idle]
  BY CacheBounds DEF ChainInit, Cache!CacheInit
<1>2. Cache!Idle.pc = "idle"
  BY DEF Cache!Idle
<1> QED
  BY <1>1, <1>2 DEF CacheInv, ClockOK, RequestOK, EntryOK

\* What the steps do to the cache and to its requests.
CacheStep(c) ==
    \/ Cache!Get(c)
    \/ Cache!FetchSucceeds(c)
    \/ Cache!FetchFails(c)
    \/ Cache!ReadClock(c)
    \/ Cache!Store(c)

\* Each step is one of these, the clock's, or none.
LEMMA StepOfCache ==
  ASSUME [ChainNext]_chainVars
  PROVE  \/ UNCHANGED <<cacheVars, now>>
         \/ now' = now /\ \E c \in Callers : CacheStep(c)
         \/ /\ now' = now + 1 /\ Cache!Expiring
            /\ \A c \in Callers : Cache!StoresInTime(c)
<1>1. CASE UNCHANGED chainVars
  BY <1>1 DEF chainVars
<1>2. CASE Advance
  BY <1>2 DEF Advance
<1>3. ASSUME NEW c \in Callers, TurnedAway(c) \/ Proceed(c) \/ Lock(c) \/ LoginSucceeds(c)
      PROVE  UNCHANGED <<cacheVars, now>>
  BY <1>3 DEF TurnedAway, Proceed, Lock, LoginSucceeds, chainVars
<1>4. ASSUME NEW c \in Callers,
             \/ Ask(c) \/ GiveUp(c) \/ LoginFails(c) \/ ForecastArrives(c) \/ ForecastFails(c)
             \/ ReadClock(c) \/ Store(c)
      PROVE  now' = now /\ CacheStep(c)
  BY <1>4 DEF Ask, GiveUp, LoginFails, ForecastArrives, ForecastFails, ReadClock, Store, CacheStep
<1> QED
  BY <1>1, <1>2, <1>3, <1>4 DEF ChainNext, Fetch, LogIn, Finish

\* A TTL as cacheTTL computes it is no longer than the rest of the hour.
LEMMA ComputedTTL ==
  ASSUME ClockOK, configured \in Nat
  PROVE  /\ Cache!CacheTTL(now) \in Int
         /\ Cache!CacheTTL(now) <= configured
         /\ Cache!CacheTTL(now) <= Cache!HourOf(now) + Hour - now
<1>1. Cache!HourOf(now) \in Int /\ Hour \in Nat /\ now \in Nat
  BY HourBounds, CacheBounds DEF ClockOK
<1> DEFINE left == Cache!HourOf(now) + Hour - now
<1>2. left \in Int
  BY <1>1
<1>3. Cache!CacheTTL(now) = IF left < configured THEN left ELSE configured
  BY DEF Cache!CacheTTL
<1> HIDE DEF left
<1>4. /\ Cache!CacheTTL(now) \in Int
      /\ Cache!CacheTTL(now) <= configured
      /\ Cache!CacheTTL(now) <= left
  BY <1>2, <1>3
<1> QED
  BY <1>4 DEF left

\* One request has moved, the entry is as it was or all right: the others have nothing to
\* do with that.
LEMMA OneRequest ==
  ASSUME CacheInv, NEW c \in Callers, NEW r, now' = now, configured' = configured,
         request' = [request EXCEPT ![c] = r],
         RequestOK(c)', EntryOK'
  PROVE  CacheInv'
<1>1. ASSUME NEW d \in Callers, d # c PROVE RequestOK(d)'
  <2>1. request'[d] = request[d] /\ RequestOK(d)
    BY <1>1 DEF CacheInv
  <2> QED
    BY <2>1 DEF RequestOK, Capped
<1>2. DOMAIN request' = Callers
  BY DEF CacheInv
<1>3. \A d \in Callers : RequestOK(d)'
  BY <1>1
<1> QED
  BY <1>2, <1>3 DEF CacheInv, ClockOK

\* A request's step keeps the invariant.
LEMMA CacheStepKeeps ==
  ASSUME CacheInv, NEW c \in Callers, now' = now, CacheStep(c)
  PROVE  CacheInv'
<1>1. /\ now \in Nat /\ configured \in Nat /\ RequestOK(c) /\ EntryOK
      /\ DOMAIN request = Callers
  BY DEF CacheInv, ClockOK
<1>2. Hour \in Nat /\ Second \in Nat /\ 0 < Second /\ MaxDelay \in Nat
  BY CacheBounds
<1>3. ASSUME configured' = configured, UNCHANGED entry
      PROVE  EntryOK'
  BY <1>1, <1>3 DEF EntryOK, Capped, Cache!Alive
<1>4. ASSUME NEW r, request' = [request EXCEPT ![c] = r]
      PROVE  request'[c] = r
  BY <1>1, <1>4
<1>5. ASSUME NEW r, request' = [request EXCEPT ![c] = r], UNCHANGED <<configured, entry>>,
             r.pc \notin {"fetched", "set"}
      PROVE  CacheInv'
  <2>1. RequestOK(c)'
    BY <1>4, <1>5 DEF RequestOK
  <2> QED
    BY <1>3, <1>5, <2>1, OneRequest
<1>idle. Cache!Idle.pc = "idle"
  BY DEF Cache!Idle
<1>6. CASE Cache!Get(c)
  <2> DEFINE r == [pc |-> "fetch"]
  <2>1. request' = [request EXCEPT ![c] = r] /\ UNCHANGED <<configured, entry>>
    BY <1>6 DEF Cache!Get
  <2>2. r.pc \notin {"fetched", "set"}
    OBVIOUS
  <2> HIDE DEF r
  <2> QED
    BY <1>5, <2>1, <2>2
<1>7. CASE Cache!FetchFails(c)
  BY <1>5, <1>7, <1>idle DEF Cache!FetchFails
<1>8. CASE Cache!FetchSucceeds(c)
  <2>1. PICK first \in {Cache!HourOf(now), Cache!HourOf(now) + Hour} :
          request' = [request EXCEPT ![c] =
                       [pc |-> "fetched", forecast |-> [made |-> now, first |-> first]]]
    BY <1>8 DEF Cache!FetchSucceeds
  <2> DEFINE f == [made |-> now, first |-> first]
             r == [pc |-> "fetched", forecast |-> f]
  <2>2. f.made = now /\ ForecastOK(f)
    BY <1>1 DEF ForecastOK
  <2>3. r.pc = "fetched" /\ r.forecast = f
    OBVIOUS
  <2>4. request' = [request EXCEPT ![c] = r] /\ UNCHANGED <<configured, entry>>
    BY <1>8, <2>1 DEF Cache!FetchSucceeds
  <2> HIDE DEF f, r
  <2>5. ForecastOK(f)' <=> ForecastOK(f)
    BY DEF ForecastOK, Cache!HourOf, f
  <2>6. RequestOK(c)'
    <3>1. request'[c] = r
      BY <1>4, <2>4
    <3>2. f.made <= now /\ now <= f.made + MaxDelay
      BY <1>1, <1>2, <2>2
    <3> QED
      BY <2>2, <2>3, <3>1, <3>2 DEF RequestOK
  <2> QED
    BY <1>3, <2>4, <2>6, OneRequest
<1>9. CASE Cache!ReadClock(c)
  <2> DEFINE r == [pc |-> "set", forecast |-> request[c].forecast, ttl |-> Cache!CacheTTL(now)]
  <2>1. request[c].pc = "fetched" /\ UNCHANGED <<configured, entry>>
    BY <1>9 DEF Cache!ReadClock
  <2>2. CASE Cache!CacheTTL(now) >= Second
    <3>1. request' = [request EXCEPT ![c] = r]
      BY <1>9, <2>2 DEF Cache!ReadClock
    <3>2. r.pc = "set" /\ r.forecast = request[c].forecast /\ r.ttl = Cache!CacheTTL(now)
      OBVIOUS
    <3> HIDE DEF r
    <3>3. /\ ForecastOK(r.forecast)
          /\ r.forecast.made <= now /\ now <= r.forecast.made + MaxDelay
      BY <1>1, <2>1, <3>2 DEF RequestOK
    <3>4. now \in r.forecast.made .. now
      BY <1>1, <3>3 DEF ForecastOK
    <3>5. Second <= Cache!CacheTTL(now) /\ Cache!CacheTTL(now) \in Int
      BY <1>1, <1>2, <2>2, ComputedTTL DEF ClockOK
    <3>6. Capped(r.ttl, r.forecast.made, now)
      BY <1>1, <3>2, <3>4, <3>5, ComputedTTL DEF Capped, ClockOK
    <3>7. request'[c] = r
      BY <1>4, <3>1
    <3>8. RequestOK(c)'
      BY <2>1, <3>3, <3>6, <3>7 DEF RequestOK, Capped
    <3> QED
      BY <1>3, <2>1, <3>1, <3>8, OneRequest
  <2>3. CASE ~ (Cache!CacheTTL(now) >= Second)
    <3>1. request' = [request EXCEPT ![c] = Cache!Idle]
      BY <1>9, <2>3 DEF Cache!ReadClock
    <3> QED
      BY <1>5, <1>idle, <2>1, <3>1
  <2> QED
    BY <2>2, <2>3
<1>10. CASE Cache!Store(c)
  <2>1. /\ request[c].pc = "set" /\ configured' = configured
        /\ request' = [request EXCEPT ![c] = Cache!Idle]
    BY <1>10 DEF Cache!Store
  <2>2. CASE UNCHANGED entry
    BY <1>5, <1>idle, <2>1, <2>2
  <2>3. CASE entry' = [forecast |-> request[c].forecast, stored |-> now, ttl |-> request[c].ttl]
    <3> DEFINE f == request[c].forecast
               l == request[c].ttl
    <3>1. entry'.forecast = f /\ entry'.stored = now /\ entry'.ttl = l
      BY <2>3
    <3>2. /\ ForecastOK(f) /\ f.made <= now /\ now <= f.made + MaxDelay
          /\ Capped(l, f.made, now)
      BY <1>1, <2>1 DEF RequestOK
    <3> HIDE DEF f, l
    <3>3. l \in Int /\ 0 < l
      BY <1>2, <3>2 DEF Capped
    <3>4. now < now + l
      BY <1>1, <3>3
    <3>5. entry'.ttl = l /\ entry'.forecast.made = f.made /\ entry'.stored = now
      BY <3>1
    <3>6. entry' # Missing => Cache!Alive(entry, now)'
      BY <3>1, <3>4 DEF Cache!Alive
    <3>7. Capped(entry'.ttl, entry'.forecast.made, entry'.stored)
      BY <3>2, <3>5
    <3>8. EntryOK'
      <4>1. /\ ForecastOK(entry'.forecast)
            /\ entry'.stored \in Nat /\ entry'.stored <= now
            /\ entry'.forecast.made <= entry'.stored
            /\ entry'.stored <= entry'.forecast.made + MaxDelay
        BY <1>1, <3>1, <3>2
      <4> HIDE DEF f, l
      <4> QED
        BY <2>1, <3>6, <3>7, <4>1 DEF EntryOK, Capped, ForecastOK, Cache!HourOf
    <3>9. RequestOK(c)'
      BY <1>4, <1>idle, <2>1 DEF RequestOK
    <3> QED
      BY <2>1, <3>8, <3>9, OneRequest
  <2> QED
    BY <1>10, <2>2, <2>3 DEF Cache!Store
<1> QED
  BY <1>6, <1>7, <1>8, <1>9, <1>10 DEF CacheStep

\* So does the clock: the SETs are in time, and what has expired is gone.
LEMMA CacheTick ==
  ASSUME CacheInv, now' = now + 1, Cache!Expiring,
         \A c \in Callers : Cache!StoresInTime(c)
  PROVE  CacheInv'
<1>1. /\ now \in Nat /\ configured \in Nat /\ EntryOK
      /\ UNCHANGED <<configured, request>>
      /\ entry' = IF Cache!Alive(entry, now + 1) THEN entry ELSE Missing
      /\ MaxDelay \in Nat
  BY CacheBounds DEF CacheInv, ClockOK, Cache!Expiring
<1> DEFINE later == now + 1
<1>2. later \in Nat /\ now' = later
  BY <1>1
<1>3. ASSUME NEW c \in Callers PROVE RequestOK(c)'
  <2>1. RequestOK(c) /\ Cache!StoresInTime(c) /\ request'[c] = request[c]
    BY <1>1 DEF CacheInv
  <2>2. request[c].pc \in {"fetched", "set"} =>
          /\ ForecastOK(request[c].forecast)
          /\ request[c].forecast.made <= later /\ later <= request[c].forecast.made + MaxDelay
    BY <1>1, <2>1 DEF RequestOK, ForecastOK, Cache!StoresInTime
  <2>3. request[c].pc = "set" => Capped(request[c].ttl, request[c].forecast.made, later)
    BY <1>1, <2>1 DEF RequestOK, ForecastOK, Capped
  <2> HIDE DEF later
  <2> QED
    BY <1>1, <1>2, <2>1, <2>2, <2>3 DEF RequestOK, Capped
<1>4. EntryOK'
  <2>1. entry' # Missing => entry' = entry /\ Cache!Alive(entry, later)
    BY <1>1
  <2>2. entry' # Missing => entry.stored <= later
    BY <1>1, <2>1 DEF EntryOK
  <2> HIDE DEF later
  <2> QED
    BY <1>1, <1>2, <2>1, <2>2 DEF EntryOK, Capped, Cache!Alive
<1> QED
  BY <1>1, <1>2, <1>3, <1>4 DEF CacheInv, ClockOK

\* The cache's invariant holds all along.
LEMMA CacheAlways == ChainSpec => []CacheInv
<1>1. CacheInv /\ [ChainNext]_chainVars => CacheInv'
  <2> SUFFICES ASSUME CacheInv, [ChainNext]_chainVars PROVE CacheInv'
    OBVIOUS
  <2>1. CASE UNCHANGED <<cacheVars, now>>
    BY <2>1 DEF CacheInv, ClockOK, cacheVars, RequestOK, EntryOK, Capped, Cache!Alive
  <2> QED
    BY <2>1, StepOfCache, CacheStepKeeps, CacheTick
<1> QED
  BY <1>1, CacheInit, PTL DEF ChainSpec

\* No cached forecast is older than the configured TTL and the delay of its SET: every
\* entry has an expiry, whatever TTL is configured, however the SETs overtake each other.
THEOREM CachedForecastsAreFresh == ChainSpec => []AgeBounded
<1>1. CacheInv => AgeBounded
  <2> SUFFICES ASSUME CacheInv, entry # Missing
               PROVE  now < entry.forecast.made + MaxDelay + configured
    BY DEF AgeBounded, Cache!AgeBounded
  <2> DEFINE made == entry.forecast.made
             stored == entry.stored
             ttl == entry.ttl
  <2>1. /\ now \in Nat /\ configured \in Nat
        /\ made \in Nat /\ stored \in Nat /\ ttl \in Int
        /\ stored <= made + MaxDelay /\ Second <= ttl /\ ttl <= configured
        /\ ttl = 0 \/ now < stored + ttl
    BY DEF CacheInv, ClockOK, EntryOK, ForecastOK, Capped, Cache!Alive
  <2> HIDE DEF made, stored, ttl
  <2>2. now < made + MaxDelay + configured
    BY <2>1, CacheBounds
  <2> QED
    BY <2>2 DEF made
<1> QED
  BY <1>1, CacheAlways, PTL

\* A forecast that began with a slot still ahead is not served past that slot's start but
\* for the time its SET took, unless the hour struck before the SET: the clock was read
\* in that same hour, so the TTL ends with it.
THEOREM StartedSlotsAreDropped == ChainSpec => []StartedSlotNeedsCrossing
<1>1. CacheInv => StartedSlotNeedsCrossing
  <2> SUFFICES ASSUME CacheInv, entry # Missing,
                      ~ (entry.forecast.first <= entry.forecast.made),
                      Cache!HourOf(entry.forecast.made) = Cache!HourOf(entry.stored)
               PROVE  now < entry.forecast.first + (entry.stored - entry.forecast.made)
    BY DEF StartedSlotNeedsCrossing, Cache!StartedSlotNeedsCrossing
  <2> DEFINE made == entry.forecast.made
             first == entry.forecast.first
             stored == entry.stored
             ttl == entry.ttl
  <2>1. /\ now \in Nat /\ ttl \in Int /\ made \in Nat /\ stored \in Nat /\ made <= stored
        /\ first \in {Cache!HourOf(made), Cache!HourOf(made) + Hour}
        /\ Second <= ttl
        /\ ttl = 0 \/ now < stored + ttl
    BY DEF CacheInv, ClockOK, EntryOK, ForecastOK, Capped, Cache!Alive
  <2>2. PICK t \in made .. stored : ttl <= Cache!HourOf(t) + Hour - t
    BY DEF CacheInv, EntryOK, Capped
  <2>3. ~ (first <= made) /\ Cache!HourOf(made) = Cache!HourOf(stored)
    OBVIOUS
  <2> HIDE DEF made, first, stored, ttl
  <2>4. t \in Nat /\ made <= t /\ t <= stored
    BY <2>1, <2>2
  <2>5. Cache!HourOf(t) = Cache!HourOf(made)
    BY <2>1, <2>3, <2>4, SameHour
  <2>6. Cache!HourOf(made) \in Int /\ Cache!HourOf(made) <= made
    BY <2>1, HourBounds
  <2>7. first = Cache!HourOf(made) + Hour
    BY <2>1, <2>3, <2>6
  <2>8. ttl <= first - t /\ first \in Int
    BY <2>2, <2>5, <2>6, <2>7, CacheBounds
  <2>9. now < first + (stored - made)
    BY <2>1, <2>4, <2>8, CacheBounds
  <2> QED
    BY <2>9 DEF made, first, stored
<1> QED
  BY <1>1, CacheAlways, PTL
-----------------------------------------------------------------------------
(* The outbound limiter. *)

Waiting(c) == waiter[c].pc = "waiting"

\* Slots are given out in order and Interval apart, and nobody sleeps through one: time
\* does not pass while a slot is there to be used.
SlotsInv ==
    /\ next \in Nat /\ DOMAIN waiter = Callers
    /\ \A c \in Callers :
         Waiting(c) => /\ waiter[c].slot \in Nat
                       /\ now <= waiter[c].slot /\ waiter[c].slot + Interval <= next
    /\ \A c, d \in Callers :
         c # d /\ Waiting(c) /\ Waiting(d) =>
           \/ waiter[c].slot + Interval <= waiter[d].slot
           \/ waiter[d].slot + Interval <= waiter[c].slot

\* A slot at time t is Interval away from the last request that was sent.
FarEnough(t) == t + quiet >= now + Interval

\* So is every slot somebody waits for, and the next to be given out; with no token to
\* get, a request is sent in its slot.
QuietInv ==
    /\ quiet \in 0 .. Interval
    /\ FarEnough(next) \/ quiet = Interval
    /\ \A c \in Callers : Waiting(c) => FarEnough(waiter[c].slot)
    /\ DOMAIN caller = Callers
    /\ \A c \in Callers : caller[c].pc \in {"outside", "send"}

ThrottleInv == ClockOK /\ SlotsInv /\ (base = "direct" => QuietInv)

\* The bounds of the limiter's slots and of a request's patience.
LEMMA LimiterBounds == Interval \in Nat /\ 0 < Interval /\ Patience \in Nat
  BY ChainAssumption DEF Limiter!LimiterParameters

\* At first nobody waits, and nothing was ever sent.
LEMMA ThrottleInit == ChainInit => ThrottleInv
<1> SUFFICES ASSUME ChainInit PROVE ThrottleInv
  OBVIOUS
<1>1. /\ now = 0 /\ next = 0 /\ quiet = Interval
      /\ waiter = [c \in Callers |-> Limiter!Out]
      /\ caller = [c \in Callers |-> Token!Outside]
  BY DEF ChainInit, Limiter!LimiterInit, Token!TokenInit
<1>2. Limiter!Out.pc = "out" /\ Token!Outside.pc = "outside"
  BY DEF Limiter!Out, Token!Outside
<1> QED
  BY <1>1, <1>2, LimiterBounds DEF ThrottleInv, ClockOK, SlotsInv, QuietInv, FarEnough, Waiting

\* What the steps do to the slots: one is reserved, given back or used, a call has ended,
\* or the token, which a base without one never comes to, is got.
SlotStep(c) ==
    \/ Limiter!Reserve(c) /\ UNCHANGED <<quiet, caller>>
    \/ Limiter!Cancel(c) /\ UNCHANGED <<quiet, caller>>
    \/ /\ Limiter!GoOn(c)
       /\ base = "direct" => Outbound /\ Token!Sending(c, NoToken)
    \/ /\ Limiter!Leave(c) /\ UNCHANGED quiet
       /\ caller' = [caller EXCEPT ![c] = Token!Outside]
    \/ UNCHANGED <<next, waiter>> /\ caller[c].pc \in {"lock", "login"}

\* Each step is one of these, the clock's, or none.
LEMMA StepOfLimiter ==
  ASSUME [ChainNext]_chainVars
  PROVE  \/ UNCHANGED <<next, waiter, quiet, caller, now>>
         \/ now' = now /\ \E c \in Callers : SlotStep(c)
         \/ /\ now' = now + 1 /\ UNCHANGED <<next, waiter, caller>>
            /\ quiet' = IF quiet < Interval THEN quiet + 1 ELSE quiet
            /\ \A c \in Callers : ~ Limiter!SlotIsHere(c)
<1>1. CASE UNCHANGED chainVars
  BY <1>1 DEF chainVars, waitVars, tokenVars
<1>2. CASE Advance
  BY <1>2 DEF Advance, waitVars, tokenVars
<1>3. ASSUME NEW c \in Callers, TurnedAway(c) \/ Finish(c)
      PROVE  UNCHANGED <<next, waiter, quiet, caller, now>>
  BY <1>3 DEF TurnedAway, Finish, ReadClock, Store, chainVars, waitVars, tokenVars
<1>4. ASSUME NEW c \in Callers, Ask(c) \/ GiveUp(c)
      PROVE  now' = now /\ SlotStep(c)
  BY <1>4 DEF Ask, GiveUp, SlotStep, tokenVars
<1>5. ASSUME NEW c \in Callers, Proceed(c)
      PROVE  now' = now /\ SlotStep(c)
  BY <1>5 DEF Proceed, SlotStep
<1>6. ASSUME NEW c \in Callers, LoginFails(c) \/ ForecastArrives(c) \/ ForecastFails(c)
      PROVE  now' = now /\ SlotStep(c)
  BY <1>6 DEF LoginFails, ForecastArrives, ForecastFails, SlotStep, Token!LoginFails, Token!Sent
<1>7. ASSUME NEW c \in Callers, Lock(c) \/ LoginSucceeds(c)
      PROVE  now' = now /\ SlotStep(c)
  BY <1>7 DEF Lock, LoginSucceeds, SlotStep, Token!Lock, Token!LoginSucceeds, waitVars
<1> QED
  BY <1>1, <1>2, <1>3, <1>4, <1>5, <1>6, <1>7 DEF ChainNext, Fetch, LogIn

\* Somebody has stopped waiting, and no slot was given out or back.
LEMMA FewerWait ==
  ASSUME ClockOK, SlotsInv, now' = now, next' = next,
         NEW c \in Callers, NEW x, x.pc # "waiting", waiter' = [waiter EXCEPT ![c] = x]
  PROVE  /\ SlotsInv'
         /\ \A d \in Callers : Waiting(d)' => Waiting(d) /\ waiter'[d] = waiter[d] /\ d # c
<1>1. /\ waiter'[c] = x /\ DOMAIN waiter' = Callers
      /\ \A d \in Callers : d # c => waiter'[d] = waiter[d]
  BY DEF SlotsInv
<1>2. \A d \in Callers : Waiting(d)' => Waiting(d) /\ waiter'[d] = waiter[d] /\ d # c
  BY <1>1 DEF Waiting
<1> QED
  BY <1>1, <1>2 DEF SlotsInv

\* The new slot is the last, behind all others.
LEMMA ReserveKeepsSlots ==
  ASSUME ClockOK, SlotsInv, now' = now, NEW c \in Callers, Limiter!Reserve(c)
  PROVE  /\ SlotsInv'
         /\ Limiter!FreeSlot \in Nat /\ next <= Limiter!FreeSlot /\ now <= Limiter!FreeSlot
         /\ next' = Limiter!FreeSlot + Interval
         /\ waiter'[c].slot = Limiter!FreeSlot
         /\ \A d \in Callers : d # c => waiter'[d] = waiter[d]
<1> DEFINE s == Limiter!FreeSlot
           x == [pc |-> "waiting", slot |-> s, deadline |-> now + Patience]
<1>1. now \in Nat /\ next \in Nat /\ Interval \in Nat /\ 0 < Interval
  BY LimiterBounds DEF ClockOK, SlotsInv
<1>2. s \in Nat /\ next <= s /\ now <= s
  BY <1>1 DEF Limiter!FreeSlot
<1>3. next' = s + Interval /\ waiter' = [waiter EXCEPT ![c] = x]
  BY DEF Limiter!Reserve
<1>4. x.slot = s
  OBVIOUS
<1> HIDE DEF s, x
<1>5. /\ waiter'[c] = x /\ DOMAIN waiter' = Callers
      /\ \A d \in Callers : d # c => waiter'[d] = waiter[d]
  BY <1>3 DEF SlotsInv
<1>6. ASSUME NEW d \in Callers, d # c, Waiting(d)'
      PROVE  /\ waiter'[d] = waiter[d] /\ Waiting(d)
             /\ waiter[d].slot \in Nat /\ now <= waiter[d].slot
             /\ waiter[d].slot + Interval <= next /\ waiter[d].slot + Interval <= s
             /\ waiter[d].slot + Interval <= next'
  <2>1. waiter'[d] = waiter[d] /\ Waiting(d)
    BY <1>5, <1>6 DEF Waiting
  <2>2. waiter[d].slot \in Nat /\ now <= waiter[d].slot /\ waiter[d].slot + Interval <= next
    BY <2>1 DEF SlotsInv
  <2> DEFINE later == next'
  <2>3. later = s + Interval
    BY <1>3
  <2> HIDE DEF later
  <2>4. waiter[d].slot + Interval <= s /\ waiter[d].slot + Interval <= later
    BY <1>1, <1>2, <2>2, <2>3
  <2> QED
    BY <2>1, <2>2, <2>4 DEF later
<1>7. next' \in Nat /\ s + Interval <= next'
  BY <1>1, <1>2, <1>3
<1>8. \A d \in Callers :
        Waiting(d)' => /\ waiter'[d].slot \in Nat
                       /\ now <= waiter'[d].slot /\ waiter'[d].slot + Interval <= next'
  BY <1>2, <1>4, <1>5, <1>6, <1>7
<1>9. \A d, e \in Callers :
        d # e /\ Waiting(d)' /\ Waiting(e)' =>
          \/ waiter'[d].slot + Interval <= waiter'[e].slot
          \/ waiter'[e].slot + Interval <= waiter'[d].slot
  <2> SUFFICES ASSUME NEW d \in Callers, NEW e \in Callers, d # e, Waiting(d)', Waiting(e)'
               PROVE  \/ waiter'[d].slot + Interval <= waiter'[e].slot
                      \/ waiter'[e].slot + Interval <= waiter'[d].slot
    OBVIOUS
  <2>1. CASE d = c
    BY <1>4, <1>5, <1>6, <2>1
  <2>2. CASE e = c
    BY <1>4, <1>5, <1>6, <2>2
  <2>3. CASE d # c /\ e # c
    BY <1>6, <2>3 DEF SlotsInv
  <2> QED
    BY <2>1, <2>2, <2>3
<1>10. SlotsInv'
  BY <1>5, <1>7, <1>8, <1>9 DEF SlotsInv
<1> QED
  BY <1>2, <1>3, <1>4, <1>5, <1>10 DEF s

\* A slot that is given back was the last, or is lost: the others end before it.
LEMMA CancelKeepsSlots ==
  ASSUME ClockOK, SlotsInv, now' = now, NEW c \in Callers, Limiter!Cancel(c)
  PROVE  /\ SlotsInv'
         /\ \A d \in Callers : Waiting(d)' => Waiting(d) /\ waiter'[d] = waiter[d] /\ d # c
         /\ next' = next \/ next' = waiter[c].slot
         /\ Waiting(c)
<1> DEFINE s == waiter[c].slot
           later == next'
<1>1. /\ Waiting(c) /\ waiter' = [waiter EXCEPT ![c] = Limiter!Out]
      /\ later = IF next = s + Interval THEN s ELSE next
  BY DEF Limiter!Cancel, Waiting
<1>2. /\ now \in Nat /\ next \in Nat /\ Interval \in Nat /\ 0 < Interval
      /\ s \in Nat /\ now <= s /\ s + Interval <= next
  BY <1>1, LimiterBounds DEF ClockOK, SlotsInv
<1>3. Limiter!Out.pc # "waiting"
  BY DEF Limiter!Out
<1>4. /\ waiter'[c] = Limiter!Out /\ DOMAIN waiter' = Callers
      /\ \A d \in Callers : d # c => waiter'[d] = waiter[d]
  BY <1>1 DEF SlotsInv
<1>5. \A d \in Callers : Waiting(d)' => Waiting(d) /\ waiter'[d] = waiter[d] /\ d # c
  BY <1>3, <1>4 DEF Waiting
<1>6. later \in Nat /\ (later = next \/ (later = s /\ next = s + Interval))
  BY <1>1, <1>2
<1>7. ASSUME NEW d \in Callers, Waiting(d)'
      PROVE  /\ waiter'[d].slot \in Nat /\ now <= waiter'[d].slot
             /\ waiter'[d].slot + Interval <= later
  <2> DEFINE t == waiter[d].slot
  <2>1. /\ waiter'[d].slot = t /\ t \in Nat /\ now <= t /\ t + Interval <= next
        /\ t + Interval <= s \/ s + Interval <= t
    BY <1>1, <1>5, <1>7 DEF SlotsInv
  <2> HIDE DEF s, t, later
  <2>2. t + Interval <= later
    BY <1>2, <1>6, <2>1
  <2> QED
    BY <2>1, <2>2
<1>8. \A d, e \in Callers :
        d # e /\ Waiting(d)' /\ Waiting(e)' =>
          \/ waiter'[d].slot + Interval <= waiter'[e].slot
          \/ waiter'[e].slot + Interval <= waiter'[d].slot
  BY <1>5 DEF SlotsInv
<1>9. SlotsInv'
  BY <1>4, <1>6, <1>7, <1>8 DEF SlotsInv
<1> QED
  BY <1>1, <1>5, <1>6, <1>9

\* A caller's step keeps the invariant.
LEMMA SlotStepKeeps ==
  ASSUME ThrottleInv, NEW c \in Callers, now' = now, base' = base, SlotStep(c)
  PROVE  ThrottleInv'
<1>1. /\ ClockOK /\ SlotsInv /\ (base = "direct" => QuietInv)
      /\ now \in Nat /\ next \in Nat /\ Interval \in Nat /\ 0 < Interval
      /\ Interval \in 0 .. Interval /\ 0 \in 0 .. Interval
  BY LimiterBounds DEF ThrottleInv, SlotsInv, ClockOK
<1>clock. ClockOK'
  BY <1>1 DEF ClockOK
<1>2. CASE Limiter!Reserve(c) /\ UNCHANGED <<quiet, caller>>
  <2> DEFINE s == Limiter!FreeSlot
  <2>1. /\ SlotsInv' /\ s \in Nat /\ next <= s /\ now <= s /\ next' = s + Interval
        /\ waiter'[c].slot = s
        /\ \A d \in Callers : d # c => waiter'[d] = waiter[d]
    BY <1>1, <1>2, ReserveKeepsSlots
  <2> HIDE DEF s
  <2>2. ASSUME base = "direct" PROVE QuietInv'
    <3>1. QuietInv /\ quiet \in 0 .. Interval
      BY <1>1, <2>2 DEF QuietInv
    <3>2. s + quiet >= now + Interval /\ (s + Interval) + quiet >= now + Interval
      BY <1>1, <2>1, <3>1 DEF QuietInv, FarEnough
    <3>3. \A d \in Callers : Waiting(d)' => FarEnough(waiter[d].slot) \/ d = c
      BY <2>1, <3>1 DEF QuietInv, Waiting
    <3>4. \A d \in Callers : Waiting(d)' => waiter'[d].slot + quiet >= now + Interval
      BY <2>1, <3>2, <3>3 DEF FarEnough
    <3> QED
      BY <1>2, <2>1, <3>1, <3>2, <3>4 DEF QuietInv, FarEnough
  <2> QED
    BY <1>clock, <2>1, <2>2 DEF ThrottleInv
<1>3. CASE Limiter!Cancel(c) /\ UNCHANGED <<quiet, caller>>
  <2>1. /\ SlotsInv' /\ Waiting(c)
        /\ \A d \in Callers : Waiting(d)' => Waiting(d) /\ waiter'[d] = waiter[d] /\ d # c
        /\ next' = next \/ next' = waiter[c].slot
    BY <1>1, <1>3, CancelKeepsSlots
  <2>2. base = "direct" => QuietInv'
    BY <1>1, <1>3, <2>1 DEF QuietInv, FarEnough
  <2> QED
    BY <1>clock, <2>1, <2>2 DEF ThrottleInv
<1>4. CASE Limiter!GoOn(c) /\ (base = "direct" => Outbound /\ Token!Sending(c, NoToken))
  <2> DEFINE r == waiter[c]
             x == [r EXCEPT !.pc = "through", !.slot = 0]
  <2>1. /\ Waiting(c) /\ waiter[c].slot <= now /\ next' = next
        /\ waiter' = [waiter EXCEPT ![c] = x]
    BY <1>1, <1>4 DEF Limiter!GoOn, Limiter!SlotIsHere, Waiting, SlotsInv
  <2>2. x.pc # "waiting"
    <3>1. ASSUME NEW w PROVE [w EXCEPT !.pc = "through", !.slot = 0].pc # "waiting"
      OBVIOUS
    <3> QED
      BY <3>1
  <2> HIDE DEF x, r
  <2>3. /\ SlotsInv'
        /\ \A d \in Callers : Waiting(d)' => Waiting(d) /\ waiter'[d] = waiter[d] /\ d # c
    BY <1>1, <2>1, <2>2, FewerWait
  <2>4. waiter[c].slot = now /\ now + Interval <= next
    BY <1>1, <2>1 DEF SlotsInv
  <2>5. ASSUME base = "direct" PROVE QuietInv'
    <3>1. quiet' = 0 /\ caller' = [caller EXCEPT ![c] = [pc |-> "send", at |-> now, token |-> NoToken]]
      BY <1>4, <2>5 DEF Outbound, Token!Sending
    <3>2. /\ DOMAIN caller' = Callers
          /\ \A d \in Callers : caller'[d].pc \in {"outside", "send"}
      BY <1>1, <2>5, <3>1 DEF QuietInv
    <3>3. next' + 0 >= now + Interval
      BY <1>1, <2>1, <2>4
    <3>4. ASSUME NEW d \in Callers, Waiting(d)'
          PROVE  waiter'[d].slot + 0 >= now + Interval
      <4>1. /\ waiter'[d].slot = waiter[d].slot /\ waiter[d].slot \in Nat /\ now <= waiter[d].slot
            /\ \/ now + Interval <= waiter[d].slot
               \/ waiter[d].slot + Interval <= now
        <5>1. Waiting(d) /\ waiter'[d] = waiter[d] /\ d # c /\ Waiting(c)
          BY <2>1, <2>3, <3>4
        <5>2. /\ waiter[d].slot \in Nat /\ now <= waiter[d].slot
              /\ \/ waiter[c].slot + Interval <= waiter[d].slot
                 \/ waiter[d].slot + Interval <= waiter[c].slot
          BY <1>1, <5>1 DEF SlotsInv
        <5> QED
          BY <2>4, <5>1, <5>2
      <4> QED
        BY <1>1, <4>1
    <3> QED
      BY <1>1, <3>1, <3>2, <3>3, <3>4 DEF QuietInv, FarEnough
  <2> QED
    BY <1>clock, <2>3, <2>5 DEF ThrottleInv
<1>5. CASE /\ Limiter!Leave(c) /\ UNCHANGED quiet
           /\ caller' = [caller EXCEPT ![c] = Token!Outside]
  <2>1. next' = next /\ waiter' = [waiter EXCEPT ![c] = Limiter!Out]
    BY <1>5 DEF Limiter!Leave
  <2>2. Limiter!Out.pc # "waiting" /\ Token!Outside.pc = "outside"
    BY DEF Limiter!Out, Token!Outside
  <2>3. /\ SlotsInv'
        /\ \A d \in Callers : Waiting(d)' => Waiting(d) /\ waiter'[d] = waiter[d] /\ d # c
    BY <1>1, <2>1, <2>2, FewerWait
  <2>4. base = "direct" => QuietInv'
    BY <1>1, <1>5, <2>1, <2>2, <2>3 DEF QuietInv, FarEnough
  <2> QED
    BY <1>clock, <2>3, <2>4 DEF ThrottleInv
<1>6. CASE UNCHANGED <<next, waiter>> /\ caller[c].pc \in {"lock", "login"}
  <2>1. base # "direct"
    BY <1>1, <1>6 DEF QuietInv
  <2>2. SlotsInv'
    BY <1>1, <1>6 DEF SlotsInv, Waiting
  <2> QED
    BY <1>clock, <2>1, <2>2 DEF ThrottleInv
<1> QED
  BY <1>2, <1>3, <1>4, <1>5, <1>6 DEF SlotStep

\* So does the clock: no slot is there, so those waited for are still to come.
LEMMA ThrottleTick ==
  ASSUME ThrottleInv, now' = now + 1, base' = base, UNCHANGED <<next, waiter, caller>>,
         quiet' = IF quiet < Interval THEN quiet + 1 ELSE quiet,
         \A c \in Callers : ~ Limiter!SlotIsHere(c)
  PROVE  ThrottleInv'
<1> DEFINE later == now + 1
           longer == IF quiet < Interval THEN quiet + 1 ELSE quiet
<1>1. /\ now \in Nat /\ next \in Nat /\ Interval \in Nat /\ 0 < Interval /\ SlotsInv
      /\ now' = later /\ quiet' = longer
  BY LimiterBounds DEF ThrottleInv, SlotsInv, ClockOK
<1>2. later \in Nat
  BY <1>1
<1>3. ASSUME NEW c \in Callers, Waiting(c)
      PROVE  waiter[c].slot \in Nat /\ later <= waiter[c].slot /\ waiter[c].slot + Interval <= next
  BY <1>1, <1>3 DEF SlotsInv, Waiting, Limiter!SlotIsHere
<1>4. base = "direct" =>
        /\ longer \in 0 .. Interval
        /\ next + longer >= later + Interval \/ longer = Interval
        /\ \A c \in Callers : Waiting(c) => waiter[c].slot + longer >= later + Interval
        /\ DOMAIN caller = Callers
        /\ \A c \in Callers : caller[c].pc \in {"outside", "send"}
  <2> SUFFICES ASSUME base = "direct" PROVE <1>4!2
    OBVIOUS
  <2>1. QuietInv /\ quiet \in 0 .. Interval
    BY DEF ThrottleInv, QuietInv
  <2>2. longer \in 0 .. Interval
    BY <1>1, <2>1
  <2>3. next + longer >= later + Interval \/ longer = Interval
    BY <1>1, <2>1 DEF QuietInv, FarEnough
  <2>4. ASSUME NEW c \in Callers, Waiting(c)
        PROVE  waiter[c].slot + longer >= later + Interval
    <3>1. /\ waiter[c].slot \in Nat /\ now + 1 <= waiter[c].slot
          /\ waiter[c].slot + quiet >= now + Interval
      BY <1>3, <2>1, <2>4 DEF QuietInv, FarEnough
    <3> QED
      BY <1>1, <2>1, <3>1
  <2> QED
    BY <2>1, <2>2, <2>3, <2>4 DEF QuietInv
<1> HIDE DEF later, longer
<1>5. SlotsInv'
  BY <1>1, <1>3 DEF SlotsInv, Waiting
<1>6. base = "direct" => QuietInv'
  BY <1>1, <1>4 DEF QuietInv, FarEnough, Waiting
<1> QED
  BY <1>1, <1>2, <1>5, <1>6 DEF ThrottleInv, ClockOK

\* The limiter's invariant holds all along.
LEMMA ThrottleAlways == ChainSpec => []ThrottleInv
<1>1. ThrottleInv /\ [ChainNext]_chainVars => ThrottleInv'
  <2> SUFFICES ASSUME ThrottleInv, [ChainNext]_chainVars PROVE ThrottleInv'
    OBVIOUS
  <2>1. base' = base /\ ClockOK
    BY ClockStep DEF ThrottleInv
  <2>2. CASE UNCHANGED <<next, waiter, quiet, caller, now>>
    BY <2>1, <2>2 DEF ThrottleInv, ClockOK, SlotsInv, QuietInv, FarEnough, Waiting
  <2> QED
    BY <2>1, <2>2, StepOfLimiter, SlotStepKeeps, ThrottleTick
<1> QED
  BY <1>1, ThrottleInit, PTL DEF ChainSpec

\* A base that needs no token is sent at most one request an interval, though waits are
\* cancelled and slots given back: whoever's slot has come finds the last request an
\* interval away.
THEOREM DirectCallsAreSpaced == ChainSpec => DirectCallsAreThrottled
<1>1. ThrottleInv /\ [ChainNext]_chainVars
        => [base = "direct" =>
              \A c \in Callers : caller[c].pc # "send" /\ caller'[c].pc = "send" => quiet = Interval]_chainVars
  <2> SUFFICES ASSUME ThrottleInv, [ChainNext]_chainVars, base = "direct",
                      NEW c \in Callers, caller[c].pc # "send", caller'[c].pc = "send"
               PROVE  quiet = Interval
    OBVIOUS
  <2>1. PICK d \in Callers : SlotStep(d)
    BY StepOfLimiter
  <2>2. /\ QuietInv /\ SlotsInv /\ quiet \in 0 .. Interval /\ now \in Nat
        /\ Interval \in Nat
    BY LimiterBounds DEF ThrottleInv, QuietInv, ClockOK
  <2>3. caller[d].pc \notin {"lock", "login"}
    BY <2>2 DEF QuietInv
  <2>4. ASSUME caller' = [caller EXCEPT ![d] = Token!Outside] PROVE FALSE
    <3>1. Token!Outside.pc = "outside"
      BY DEF Token!Outside
    <3> QED
      BY <2>2, <2>4, <3>1 DEF QuietInv
  <2>5. Limiter!GoOn(d)
    BY <2>1, <2>3, <2>4 DEF SlotStep
  <2>6. Waiting(d) /\ waiter[d].slot <= now
    BY <2>2, <2>5 DEF Limiter!GoOn, Limiter!SlotIsHere, Waiting, SlotsInv
  <2>7. /\ waiter[d].slot \in Nat /\ now <= waiter[d].slot
        /\ waiter[d].slot + quiet >= now + Interval
    BY <2>2, <2>6 DEF QuietInv, SlotsInv, FarEnough
  <2> QED
    BY <2>2, <2>6, <2>7
<1> QED
  BY <1>1, ThrottleAlways, PTL DEF ChainSpec, DirectCallsAreThrottled
=============================================================================
