---------------------------- MODULE WriteLimiter ----------------------------
(***************************************************************************)
(* guardWrites and its rate limiters (internal/httpapi/security.go): the   *)
(* fixed window in Redis, shared by every instance, and the one in memory. *)
(* A request reads the clock first and is counted later; in between, other *)
(* requests are counted and a minute may end.                              *)
(*                                                                         *)
(* Redis is external: INCR and EXPIRE, each of which may fail.             *)
(***************************************************************************)
EXTENDS Integers, FiniteSets

CONSTANTS
    Requests,  \* requests to come, each once
    Clients,   \* client addresses
    Proxy,     \* the address of the proxy in front of the service
    Absent,    \* a header that is not there
    Limit,     \* WritesPerMinute
    Minute,    \* in ticks
    PurgeAt,   \* 10000, the clients memory keeps before it drops old windows
    MaxDelay,  \* bound: from reading the clock to being counted
    MaxTime    \* bound on the clock

ASSUME LimiterAssumption ==
    /\ IsFiniteSet(Requests) /\ Absent \notin Clients
    /\ Limit \in Nat \ {0} /\ Minute \in Nat \ {0}
    /\ {PurgeAt, MaxDelay, MaxTime} \subseteq Nat

VARIABLES
    request,  \* the requests
    redis,    \* keys in Redis: [client, window, n, expires]; expires 0 is never
    config,   \* what ConfigureSecurity was given, and which limiter it chose
    hits,     \* the map in memory: [client, start, count]
    now,
    lost,     \* history: windows of a client that an INCR failed in
    dropped   \* history: windows of a client that made room for another minute's

limiterVars == <<request, redis, config, hits, now, lost, dropped>>

WindowOf(t) == (t \div Minute) * Minute

\* A request under way: the address it is counted under, whose it is, whether it
\* comes from a page that may write, and the clock it read.
NewRequest == [pc |-> "new", client |-> Absent, from |-> Absent, welcome |-> TRUE, at |-> 0]

\* A limit of 0 is no limiter; Redis is used if it answered when the process started.
ConfigureSecurity ==
    config \in [trustProxy : BOOLEAN, allowed : {{}, {"friend"}, {"*"}},
                limiter : {"none", "redis", "memory"}]

LimiterInit ==
    /\ ConfigureSecurity
    /\ request = [r \in Requests |-> NewRequest]
    /\ redis = {} /\ hits = {}
    /\ now = 0
    /\ lost = {} /\ dropped = {}

\* The minute a request belongs to by the clock it read, for its client.
Key(r) == [client |-> request[r].client, window |-> WindowOf(request[r].at)]

Answered(r, n) ==
    request' = [request EXCEPT ![r].pc = IF n > Limit THEN "refused" ELSE "passed"]

\* The host in an origin; that of a sandboxed page is empty.
HostOf(origin) ==
    CASE origin = "site"   -> "public"
      [] origin = "friend" -> "friend"
      [] origin = "other"  -> "other"
      [] origin = "null"   -> ""
-----------------------------------------------------------------------------
(* Slips: wrong forms of definitions below, used by none of them.          *)

\* A key lives for the minute it counts.
ExpiryTooSoon == now + Minute

\* The key without the window.
RedisKeyOfClient(r) == [client |-> request[r].client, window |-> 0]

\* Host alone, which behind a proxy need not be the public one.
SameSiteByHost(origin, h) == HostOf(origin) = h.host
-----------------------------------------------------------------------------
(* guardWrites. *)

OriginListed(origin) == "*" \in config.allowed \/ origin \in config.allowed

\* h: the request's headers.  Host, or behind the proxy X-Forwarded-Host, is ours.
SameSite(origin, h) ==
    /\ HostOf(origin) # ""
    /\ \/ HostOf(origin) = h.host
       \/ config.trustProxy /\ HostOf(origin) = h.forwardedHost

\* The first of X-Forwarded-For, if it may be believed, or the peer's address.
ClientIP(h) == IF config.trustProxy /\ h.forwardedFor # Absent THEN h.forwardedFor ELSE h.peer

\* What arrives from a client.  Directly: from its own address, for our host, with
\* forwarding headers if it pleases.  Through the proxy: from the proxy, which sets
\* them, for the public host or for one behind it.
Headers(c) ==
    IF config.trustProxy
    THEN [peer : {Proxy}, forwardedFor : {c}, host : {"public", "inner"}, forwardedHost : {"public"}]
    ELSE [peer : {c}, forwardedFor : Clients \cup {Absent}, host : {"public"},
          forwardedHost : {Absent, "other"}]

Origins == {"", "site", "friend", "other", "null"}

\* A page of this site, one the configuration lists, or no page at all.
MayWrite(origin) == origin \in {"", "site"} \cup config.allowed \/ "*" \in config.allowed

\* A read passes uncounted and a write of a foreign page is turned away uncounted;
\* for any other, Allow reads the clock, if there is a limit.
Arrive(r) ==
    /\ request[r].pc = "new"
    /\ \/ request' = [request EXCEPT ![r].pc = "uncounted"]
       \/ \E c \in Clients, origin \in Origins : \E h \in Headers(c) :
            request' = [request EXCEPT ![r] =
              IF origin # "" /\ ~SameSite(origin, h) /\ ~OriginListed(origin)
              THEN [NewRequest EXCEPT !.pc = "forbidden", !.welcome = MayWrite(origin)]
              ELSE IF config.limiter = "none"
              THEN [NewRequest EXCEPT !.pc = "uncounted", !.welcome = MayWrite(origin)]
              ELSE [pc |-> "counting", client |-> ClientIP(h), from |-> c,
                    welcome |-> MayWrite(origin), at |-> now]]
    /\ UNCHANGED <<redis, config, hits, now, lost, dropped>>
-----------------------------------------------------------------------------
(* redisLimiter. *)

Expires == now + 2 * Minute

RedisKey(r) == Key(r)

IsKey(k, r) == k.client = RedisKey(r).client /\ k.window = RedisKey(r).window

\* INCR creates a key that is not there.  If it fails, or its reply is lost, the
\* request is allowed.
Incr(r) ==
    LET mine == {k \in redis : IsKey(k, r)}
        old == IF mine = {} THEN [n |-> 0, expires |-> 0] ELSE CHOOSE k \in mine : TRUE
        n == old.n + 1
        counted == (redis \ mine) \cup
                     {[client |-> RedisKey(r).client, window |-> RedisKey(r).window,
                       n |-> n, expires |-> old.expires]}
    IN  /\ config.limiter = "redis" /\ request[r].pc = "counting"
        /\ \/ /\ redis' = counted
              /\ IF n = 1 THEN request' = [request EXCEPT ![r].pc = "expire"]
                          ELSE Answered(r, n)
              /\ UNCHANGED lost
           \/ /\ redis' \in {counted, redis}
              /\ request' = [request EXCEPT ![r].pc = "passed"]
              /\ lost' = lost \cup {Key(r)}
        /\ UNCHANGED <<config, hits, now, dropped>>

\* EXPIRE, whose failure goes unnoticed.
Expire(r) ==
    /\ request[r].pc = "expire"
    /\ redis' \in {{IF IsKey(k, r) THEN [k EXCEPT !.expires = Expires] ELSE k : k \in redis},
                   redis}
    /\ Answered(r, 1)
    /\ UNCHANGED <<config, hits, now, lost, dropped>>
-----------------------------------------------------------------------------
(* memoryLimiter. *)

\* What is left of the map, for a request whose window that is.
Purge(window) ==
    IF Cardinality(hits) > PurgeAt THEN {h \in hits : h.start >= window} ELSE hits

\* The map entry that is looked up.
Mine(h, r) == h.client = Key(r).client

\* Under the mutex.  An entry for any other window, older or newer, starts anew.
Count(r) ==
    LET kept == Purge(Key(r).window)
        mine == {h \in kept : Mine(h, r)}
        same == {h \in mine : h.start = Key(r).window}
        n == IF same = {} THEN 1 ELSE (CHOOSE h \in same : TRUE).count + 1
    IN  /\ config.limiter = "memory" /\ request[r].pc = "counting"
        /\ hits' = (kept \ mine) \cup
             {[client |-> Key(r).client, start |-> Key(r).window, count |-> n]}
        /\ Answered(r, n)
        /\ dropped' = dropped \cup
             {[client |-> h.client, window |-> h.start] :
                h \in {h \in hits \ (kept \ mine) :
                         \/ h.start < Key(r).window
                         \/ h.start > Key(r).window /\ Mine(h, r)}}
        /\ UNCHANGED <<redis, config, now, lost>>
-----------------------------------------------------------------------------

Advance ==
    /\ now < MaxTime
    /\ \A r \in Requests : request[r].pc \in {"counting", "expire"} =>
                             now < request[r].at + MaxDelay
    /\ now' = now + 1
    /\ redis' = {k \in redis : k.expires = 0 \/ now + 1 < k.expires}
    /\ UNCHANGED <<request, config, hits, lost, dropped>>

LimiterNext == Advance \/ \E r \in Requests : Arrive(r) \/ Incr(r) \/ Expire(r) \/ Count(r)

LimiterSpec == LimiterInit /\ [][LimiterNext]_limiterVars
-----------------------------------------------------------------------------

\* The writes of a client in a minute, by whose they are.
KeyOf(r) == [client |-> request[r].from, window |-> WindowOf(request[r].at)]
Writes(key, pc) == {r \in Requests : request[r].pc = pc /\ KeyOf(r) = key}
Keys == {KeyOf(r) : r \in {r \in Requests : request[r].from # Absent}}

\* A client gets no more than its limit of writes through per minute, whatever
\* headers come with them.  Two things are beyond the counter: an INCR that failed,
\* and, in memory, that a request of another minute took the place of the entry
\* while some were still to be counted.
LimitHolds ==
    \A key \in Keys \ (lost \cup dropped) : Cardinality(Writes(key, "passed")) <= Limit

\* No client is refused before it has used up its own minute: neither other
\* clients, behind the same proxy perhaps, nor earlier minutes count against it.
RefusedOnlyOverLimit ==
    \A key \in Keys : Writes(key, "refused") # {} =>
        Cardinality(Writes(key, "passed")) + Cardinality(Writes(key, "expire")) >= Limit

\* The writes that are turned away are those of foreign pages, and no others: a page
\* of this site may write behind a proxy that calls the service by another host.
ForeignPagesOnlyTurnedAway ==
    \A r \in Requests :
        /\ request[r].pc = "forbidden" => ~request[r].welcome
        /\ ~request[r].welcome => request[r].pc = "forbidden"
=============================================================================
