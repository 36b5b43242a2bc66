--------------------------- MODULE LimiterProofs ---------------------------
(***************************************************************************)
(* What the run checks of guardWrites and its two limiters, proved for any *)
(* number of requests and clients, any limit and any capacity of the map.  *)
(***************************************************************************)
EXTENDS WriteLimiter, FiniteSetTheorems, TLAPS
-----------------------------------------------------------------------------
(* Types, the clock, and who a request is counted for. *)

Times == 0 .. MaxTime

States == {"new", "uncounted", "forbidden", "counting", "expire", "passed", "refused"}

RequestRecord == [pc : States, client : Clients \cup {Absent}, from : Clients \cup {Absent},
                  welcome : BOOLEAN, at : Times]

AllKeys == [client : Clients, window : Times]

Configs == [trustProxy : BOOLEAN, allowed : {{}, {"friend"}, {"*"}},
            limiter : {"none", "redis", "memory"}]

LimiterTypeOK ==
    /\ request \in [Requests -> RequestRecord]
    /\ redis \subseteq [client : Clients, window : Times, n : Nat \ {0}, expires : Nat]
    /\ config \in Configs
    /\ hits \subseteq [client : Clients, start : Times, count : Nat \ {0}]
    /\ now \in Times

\* A request that counts is counted for the client it is from, and in its time.
RequestOK(r) ==
    /\ request[r].pc \in {"counting", "expire", "passed", "refused"} =>
         request[r].from \in Clients /\ request[r].client = request[r].from
    /\ request[r].pc \in {"counting", "expire"} =>
         request[r].at <= now /\ now <= request[r].at + MaxDelay
    /\ request[r].welcome = (request[r].pc # "forbidden")

BaseInv == LimiterTypeOK /\ \A r \in Requests : RequestOK(r)

\* The bounds, and what an address is not.
LEMMA LimiterBounds ==
  /\ Limit \in Nat /\ 1 <= Limit /\ Minute \in Nat /\ 1 <= Minute
  /\ MaxDelay \in Nat /\ MaxTime \in Nat
  /\ IsFiniteSet(Requests) /\ Absent \notin Clients
  BY LimiterAssumption

\* A minute begins at its first moment and lasts a minute.
LEMMA WindowBounds ==
  ASSUME NEW t \in Times
  PROVE  /\ WindowOf(t) \in Times
         /\ WindowOf(t) <= t /\ t < WindowOf(t) + Minute
<1>1. Minute \in Nat /\ 1 <= Minute /\ MaxTime \in Nat /\ t \in Nat /\ t <= MaxTime
  BY LimiterBounds DEF Times
<1> DEFINE q == t \div Minute
<1>2. q \in Nat /\ q * Minute <= t /\ t < q * Minute + Minute
  BY <1>1
<1> HIDE DEF q
<1>3. q * Minute \in Nat
  BY <1>1, <1>2
<1> QED
  BY <1>1, <1>2, <1>3 DEF WindowOf, Times, q

\* Whatever headers come with a request, it is counted for the client it is from: behind
\* a proxy that sets X-Forwarded-For, and without one, when that header is ignored.
LEMMA ClientIsSender ==
  ASSUME LimiterTypeOK, NEW c \in Clients, NEW h \in Headers(c)
  PROVE  ClientIP(h) = c
  BY LimiterBounds DEF LimiterTypeOK, Configs, Headers, ClientIP

\* A write is turned away for its origin if and only if that is a foreign page.
LEMMA TurnedAwayIfForeign ==
  ASSUME LimiterTypeOK, NEW c \in Clients, NEW h \in Headers(c), NEW origin \in Origins
  PROVE  (origin # "" /\ ~ SameSite(origin, h) /\ ~ OriginListed(origin)) <=> ~ MayWrite(origin)
<1>1. /\ config.trustProxy \in BOOLEAN
      /\ config.trustProxy => h.host \in {"public", "inner"} /\ h.forwardedHost = "public"
      /\ ~ config.trustProxy => h.host = "public"
  BY DEF LimiterTypeOK, Configs, Headers
<1>2. origin # "" => (SameSite(origin, h) <=> origin = "site")
  BY <1>1 DEF SameSite, HostOf, Origins
<1> QED
  BY <1>2 DEF OriginListed, MayWrite

\* The key a request that counts is counted under is its client's own.
LEMMA OwnKey ==
  ASSUME BaseInv, NEW r \in Requests,
         request[r].pc \in {"counting", "expire", "passed", "refused"}
  PROVE  Key(r) = KeyOf(r) /\ Key(r) \in AllKeys /\ KeyOf(r) \in Keys
<1>1. /\ request[r].from \in Clients /\ request[r].client = request[r].from
      /\ request[r].at \in Times /\ request[r].from # Absent
  BY LimiterBounds DEF BaseInv, LimiterTypeOK, RequestOK, RequestRecord
<1>2. WindowOf(request[r].at) \in Times
  BY <1>1, WindowBounds
<1> QED
  BY <1>1, <1>2 DEF Key, KeyOf, AllKeys, Keys

\* There are no other keys than these.
LEMMA KeysAreKeys == ASSUME BaseInv PROVE Keys \subseteq AllKeys
<1> SUFFICES ASSUME NEW r \in Requests, request[r].from # Absent PROVE KeyOf(r) \in AllKeys
  BY DEF Keys
<1>1. request[r].from \in Clients /\ request[r].at \in Times
  BY DEF BaseInv, LimiterTypeOK, RequestRecord
<1> QED
  BY <1>1, WindowBounds DEF KeyOf, AllKeys
-----------------------------------------------------------------------------
(* How the requests move. *)

\* At first no request has arrived.
LEMMA BaseInit == LimiterInit => BaseInv
<1> SUFFICES ASSUME LimiterInit PROVE BaseInv
  OBVIOUS
<1>1. /\ request = [r \in Requests |-> NewRequest] /\ redis = {} /\ hits = {} /\ now = 0
      /\ config \in Configs
  BY DEF LimiterInit, ConfigureSecurity, Configs
<1>2. /\ NewRequest \in RequestRecord
      /\ NewRequest.pc = "new" /\ NewRequest.welcome = TRUE
  BY LimiterBounds DEF NewRequest, RequestRecord, States, Times
<1>3. 0 \in Times
  BY LimiterBounds DEF Times
<1> QED
  BY <1>1, <1>2, <1>3 DEF BaseInv, LimiterTypeOK, RequestOK

\* A request is answered, or waits for its EXPIRE, and nothing else about it changes.
Moves(r, to) == request' = [request EXCEPT ![r].pc = to]

\* Such a move keeps everybody's types and keys.
LEMMA MoveEffect ==
  ASSUME BaseInv, NEW r \in Requests, NEW to \in {"expire", "passed", "refused"},
         request[r].pc \in {"counting", "expire"}, Moves(r, to), now' = now
  PROVE  /\ request' \in [Requests -> RequestRecord]
         /\ \A q \in Requests : RequestOK(q)' /\ KeyOf(q)' = KeyOf(q)
         /\ request'[r].pc = to
         /\ \A q \in Requests : q # r => request'[q] = request[q]
<1>1. request \in [Requests -> RequestRecord] /\ \A q \in Requests : RequestOK(q)
  BY DEF BaseInv, LimiterTypeOK
<1> DEFINE x == [request[r] EXCEPT !.pc = to]
<1>2. request' = [request EXCEPT ![r] = x]
  BY DEF Moves
<1>3. /\ x \in RequestRecord /\ x.pc = to /\ x.client = request[r].client
      /\ x.from = request[r].from /\ x.welcome = request[r].welcome /\ x.at = request[r].at
  BY <1>1 DEF RequestRecord, States
<1> HIDE DEF x
<1>4. /\ request' \in [Requests -> RequestRecord] /\ request'[r] = x
      /\ \A q \in Requests : q # r => request'[q] = request[q]
  BY <1>1, <1>2, <1>3
<1>5. ASSUME NEW q \in Requests PROVE RequestOK(q)' /\ KeyOf(q)' = KeyOf(q)
  <2>1. RequestOK(q)
    BY <1>1
  <2>2. CASE q = r
    BY <1>3, <1>4, <2>1, <2>2 DEF RequestOK, KeyOf, WindowOf
  <2>3. CASE q # r
    BY <1>4, <2>1, <2>3 DEF RequestOK, KeyOf, WindowOf
  <2> QED
    BY <2>2, <2>3
<1> QED
  BY <1>3, <1>4, <1>5

\* A request that is not counted keeps the blanks of a new one.
LEMMA BlankRequest ==
  ASSUME NEW p \in States, NEW w \in BOOLEAN, NEW x,
         x = [NewRequest EXCEPT !.pc = p, !.welcome = w]
  PROVE  x \in RequestRecord /\ x.pc = p /\ x.welcome = w
<1>1. NewRequest \in RequestRecord
  BY LimiterBounds DEF NewRequest, RequestRecord, States, Times
<1> DEFINE n == NewRequest
<1> HIDE DEF n
<1>2. n \in RequestRecord /\ x = [n EXCEPT !.pc = p, !.welcome = w]
  BY <1>1 DEF n
<1> QED
  BY <1>2 DEF RequestRecord

\* An arrival is not counted yet; the record it makes is all right.
LEMMA ArriveEffect ==
  ASSUME BaseInv, NEW r \in Requests, Arrive(r)
  PROVE  /\ BaseInv'
         /\ request[r].pc = "new"
         /\ request'[r].pc \in {"uncounted", "forbidden", "counting"}
         /\ \A q \in Requests : q # r => request'[q] = request[q]
         /\ UNCHANGED <<redis, config, hits, now, lost, dropped>>
<1>1. /\ request \in [Requests -> RequestRecord] /\ LimiterTypeOK /\ now \in Times
      /\ \A q \in Requests : RequestOK(q)
  BY DEF BaseInv, LimiterTypeOK
<1>2. request[r].pc = "new" /\ UNCHANGED <<redis, config, hits, now, lost, dropped>>
  BY DEF Arrive
<1> DEFINE fits(x) == /\ x \in RequestRecord
                      /\ x.pc \in {"uncounted", "forbidden", "counting"}
                      /\ x.welcome = (x.pc # "forbidden")
                      /\ x.pc = "counting" => /\ x.from \in Clients /\ x.client = x.from
                                              /\ x.at <= now /\ now <= x.at + MaxDelay
<1>3. \E x : fits(x) /\ request' = [request EXCEPT ![r] = x]
  <2>1. ASSUME request' = [request EXCEPT ![r].pc = "uncounted"]
        PROVE  <1>3
    <3> DEFINE x == [request[r] EXCEPT !.pc = "uncounted"]
    <3>1. request' = [request EXCEPT ![r] = x]
      BY <2>1
    <3>2. request[r] \in RequestRecord /\ request[r].welcome = TRUE
      BY <1>1, <1>2 DEF RequestOK
    <3>3. fits(x)
      BY <3>2 DEF RequestRecord, States
    <3> QED
      BY <3>1, <3>3
  <2>2. ASSUME NEW c \in Clients, NEW origin \in Origins, NEW h \in Headers(c),
               request' = [request EXCEPT ![r] =
                 IF origin # "" /\ ~SameSite(origin, h) /\ ~OriginListed(origin)
                 THEN [NewRequest EXCEPT !.pc = "forbidden", !.welcome = MayWrite(origin)]
                 ELSE IF config.limiter = "none"
                 THEN [NewRequest EXCEPT !.pc = "uncounted", !.welcome = MayWrite(origin)]
                 ELSE [pc |-> "counting", client |-> ClientIP(h), from |-> c,
                       welcome |-> MayWrite(origin), at |-> now]]
        PROVE  <1>3
    <3> DEFINE out == origin # "" /\ ~SameSite(origin, h) /\ ~OriginListed(origin)
               w == MayWrite(origin)
               x == [NewRequest EXCEPT !.pc = "forbidden", !.welcome = w]
               y == [NewRequest EXCEPT !.pc = "uncounted", !.welcome = w]
               z == [pc |-> "counting", client |-> ClientIP(h), from |-> c, welcome |-> w, at |-> now]
    <3>2. out <=> ~ w
      BY <1>1, TurnedAwayIfForeign
    <3>3. w \in BOOLEAN
      BY DEF MayWrite
    <3>4. ClientIP(h) = c
      BY <1>1, ClientIsSender
    <3>5. request' = [request EXCEPT ![r] = IF out THEN x ELSE IF config.limiter = "none" THEN y ELSE z]
      BY <2>2
    <3> HIDE DEF out, w, x, y
    <3>6. CASE out
      <4>1. x \in RequestRecord /\ x.pc = "forbidden" /\ x.welcome = w
        BY <3>3, BlankRequest DEF x, States
      <4>2. fits(x)
        BY <3>2, <3>3, <3>6, <4>1
      <4> QED
        BY <3>5, <3>6, <4>2
    <3>7. CASE ~ out /\ config.limiter = "none"
      <4>1. y \in RequestRecord /\ y.pc = "uncounted" /\ y.welcome = w
        BY <3>3, BlankRequest DEF y, States
      <4>2. fits(y)
        BY <3>2, <3>3, <3>7, <4>1
      <4> QED
        BY <3>5, <3>7, <4>2
    <3>8. CASE ~ out /\ config.limiter # "none"
      <4>1. now <= now + MaxDelay /\ now <= now
        BY <1>1, LimiterBounds DEF Times
      <4>2. z.from = c /\ z.client = c /\ z.at = now /\ z.pc = "counting" /\ z.welcome = w
        BY <3>4
      <4>3. z \in RequestRecord
        BY <1>1, <3>3, <3>4 DEF RequestRecord, States
      <4> HIDE DEF z
      <4>4. fits(z)
        BY <3>2, <3>3, <3>8, <4>1, <4>2, <4>3
      <4> QED
        BY <3>5, <3>8, <4>4
    <3> QED
      BY <3>6, <3>7, <3>8
  <2> QED
    BY <2>1, <2>2 DEF Arrive
<1>4. PICK x : fits(x) /\ request' = [request EXCEPT ![r] = x]
  BY <1>3
<1>5. /\ request' \in [Requests -> RequestRecord] /\ request'[r] = x
      /\ \A q \in Requests : q # r => request'[q] = request[q]
  BY <1>1, <1>4
<1>6. ASSUME NEW q \in Requests PROVE RequestOK(q)'
  <2>1. CASE q = r
    BY <1>2, <1>4, <1>5, <2>1 DEF RequestOK
  <2>2. CASE q # r
    BY <1>1, <1>2, <1>5, <2>2 DEF RequestOK
  <2> QED
    BY <2>1, <2>2
<1>7. LimiterTypeOK'
  BY <1>1, <1>2, <1>5 DEF LimiterTypeOK
<1> QED
  BY <1>2, <1>4, <1>5, <1>6, <1>7 DEF BaseInv
-----------------------------------------------------------------------------
(* How many writes of a key have passed. *)

\* Those that have passed, and those that will once their EXPIRE is made.
Used(K) == Cardinality(Writes(K, "passed")) + Cardinality(Writes(K, "expire"))

\* The number of writes is a number.
LEMMA WritesAreFinite ==
  ASSUME NEW K, NEW p
  PROVE  IsFiniteSet(Writes(K, p)) /\ Cardinality(Writes(K, p)) \in Nat
<1>1. Writes(K, p) \in SUBSET Requests
  BY DEF Writes
<1> QED
  BY <1>1, LimiterBounds, FS_Subset, FS_CardinalityType

\* What a client has used of its limit is a number.
LEMMA UsedIsNat == ASSUME NEW K PROVE Used(K) \in Nat
  BY WritesAreFinite DEF Used

\* Nothing is used of a key that no request has.
LEMMA UsedByNobody ==
  ASSUME BaseInv, NEW K, K \notin Keys
  PROVE  Used(K) = 0
<1>1. ASSUME NEW p \in {"passed", "expire"} PROVE Cardinality(Writes(K, p)) = 0
  <2>1. Writes(K, p) = {}
    BY OwnKey DEF Writes
  <2> QED
    BY <2>1, FS_EmptySet
<1> QED
  BY <1>1 DEF Used

\* The sets of writes, when one request moves.
LEMMA WritesMove ==
  ASSUME BaseInv, NEW r \in Requests, NEW to \in {"expire", "passed", "refused"},
         request[r].pc \in {"counting", "expire"}, Moves(r, to), now' = now,
         NEW K, NEW p
  PROVE  /\ KeyOf(r) # K => Writes(K, p)' = Writes(K, p)
         /\ KeyOf(r) = K /\ p = to => Writes(K, p)' = Writes(K, p) \cup {r}
         /\ KeyOf(r) = K /\ p # to => Writes(K, p)' = Writes(K, p) \ {r}
<1>1. /\ request'[r].pc = to /\ \A q \in Requests : KeyOf(q)' = KeyOf(q)
      /\ \A q \in Requests : q # r => request'[q] = request[q]
  BY MoveEffect
<1>2. \A q \in Requests : q \in Writes(K, p)' <=> request'[q].pc = p /\ KeyOf(q) = K
  BY <1>1 DEF Writes
<1>3. \A q \in Requests : q \in Writes(K, p) <=> request[q].pc = p /\ KeyOf(q) = K
  BY DEF Writes
<1>4. Writes(K, p) \subseteq Requests /\ Writes(K, p)' \subseteq Requests
  BY DEF Writes
<1> QED
  BY <1>1, <1>2, <1>3, <1>4

\* A write that passes, or is about to, is one more of its key, and of no other; one
\* that is refused is none.
LEMMA CountedOnce ==
  ASSUME BaseInv, NEW r \in Requests, NEW to \in {"expire", "passed", "refused"},
         request[r].pc = "counting", Moves(r, to), now' = now, NEW K
  PROVE  Used(K)' = IF KeyOf(r) = K /\ to # "refused" THEN Used(K) + 1 ELSE Used(K)
<1> DEFINE a == Writes(K, "passed")
           b == Writes(K, "expire")
<1>1. r \notin a /\ r \notin b
  BY DEF Writes
<1>2. /\ IsFiniteSet(a) /\ Cardinality(a) \in Nat
      /\ IsFiniteSet(b) /\ Cardinality(b) \in Nat
  BY WritesAreFinite
<1>3. /\ a' = IF KeyOf(r) = K /\ to = "passed" THEN a \cup {r} ELSE a
      /\ b' = IF KeyOf(r) = K /\ to = "expire" THEN b \cup {r} ELSE b
  <2>1. a' = IF KeyOf(r) = K /\ to = "passed" THEN a \cup {r} ELSE a
    <3>1. /\ KeyOf(r) # K => a' = a
          /\ KeyOf(r) = K /\ "passed" = to => a' = a \cup {r}
          /\ KeyOf(r) = K /\ "passed" # to => a' = a \ {r}
      BY WritesMove
    <3> QED
      BY <1>1, <3>1
  <2>2. b' = IF KeyOf(r) = K /\ to = "expire" THEN b \cup {r} ELSE b
    <3>1. /\ KeyOf(r) # K => b' = b
          /\ KeyOf(r) = K /\ "expire" = to => b' = b \cup {r}
          /\ KeyOf(r) = K /\ "expire" # to => b' = b \ {r}
      BY WritesMove
    <3> QED
      BY <1>1, <3>1
  <2> QED
    BY <2>1, <2>2
<1>4. Cardinality(a \cup {r}) = Cardinality(a) + 1 /\ Cardinality(b \cup {r}) = Cardinality(b) + 1
  BY <1>1, <1>2, FS_AddElement
<1>5. Used(K) = Cardinality(a) + Cardinality(b) /\ Used(K)' = Cardinality(a') + Cardinality(b')
  BY DEF Used
<1> HIDE DEF a, b
<1> QED
  BY <1>2, <1>3, <1>4, <1>5

\* A write was counted before its EXPIRE, and is not counted again.
LEMMA CountedBefore ==
  ASSUME BaseInv, NEW r \in Requests, request[r].pc = "expire", Moves(r, "passed"), now' = now,
         NEW K
  PROVE  Used(K)' = Used(K)
<1> DEFINE a == Writes(K, "passed")
           b == Writes(K, "expire")
<1>1. r \notin a /\ (r \in b <=> KeyOf(r) = K)
  BY DEF Writes
<1>2. /\ IsFiniteSet(a) /\ Cardinality(a) \in Nat
      /\ IsFiniteSet(b) /\ Cardinality(b) \in Nat
  BY WritesAreFinite
<1>3. /\ KeyOf(r) # K => a' = a
      /\ KeyOf(r) = K => a' = a \cup {r}
  BY WritesMove
<1>4. /\ KeyOf(r) # K => b' = b
      /\ KeyOf(r) = K => b' = b \ {r}
  BY WritesMove
<1>5. /\ Cardinality(a \cup {r}) = Cardinality(a) + 1
      /\ r \in b => Cardinality(b \ {r}) = Cardinality(b) - 1
  BY <1>1, <1>2, FS_AddElement, FS_RemoveElement
<1>6. Used(K) = Cardinality(a) + Cardinality(b) /\ Used(K)' = Cardinality(a') + Cardinality(b')
  BY DEF Used
<1> HIDE DEF a, b
<1>7. CASE KeyOf(r) = K
  <2>1. Cardinality(a') = Cardinality(a) + 1 /\ Cardinality(b') = Cardinality(b) - 1
    BY <1>1, <1>3, <1>4, <1>5, <1>7
  <2> QED
    BY <1>2, <1>6, <2>1
<1>8. CASE KeyOf(r) # K
  BY <1>3, <1>4, <1>6, <1>8
<1> QED
  BY <1>7, <1>8

\* An arrival leaves the writes that were counted alone.
LEMMA ArriveCountsNothing ==
  ASSUME BaseInv, NEW r \in Requests, Arrive(r), NEW K
  PROVE  Used(K)' = Used(K) /\ Writes(K, "refused")' = Writes(K, "refused")
<1>1. /\ request[r].pc = "new" /\ request'[r].pc \in {"uncounted", "forbidden", "counting"}
      /\ \A q \in Requests : q # r => request'[q] = request[q]
  BY ArriveEffect
<1>2. ASSUME NEW p \in {"passed", "expire", "refused"} PROVE Writes(K, p)' = Writes(K, p)
  <2>1. ASSUME NEW q \in Requests
        PROVE  (request'[q].pc = p /\ KeyOf(q)' = K) <=> (request[q].pc = p /\ KeyOf(q) = K)
    <3>1. CASE q = r
      BY <1>1, <3>1
    <3>2. CASE q # r
      BY <1>1, <3>2 DEF KeyOf, WindowOf
    <3> QED
      BY <3>1, <3>2
  <2> QED
    BY <2>1 DEF Writes
<1> QED
  BY <1>2 DEF Used
-----------------------------------------------------------------------------
(* What the limiters do, by the keys of their entries. *)

KeyIn(k) == [client |-> k.client, window |-> k.window]

KeyOn(h) == [client |-> h.client, window |-> h.start]

Named(K, n, e) == [client |-> K.client, window |-> K.window, n |-> n, expires |-> e]

RedisWith(K, n, e) == {k \in redis : KeyIn(k) # K} \cup {Named(K, n, e)}

\* INCR makes n of n - 1, or 1 of nothing.
Continues(K, n, e) ==
    \/ n = 1 /\ e = 0 /\ \A k \in redis : KeyIn(k) # K
    \/ \E k \in redis : KeyIn(k) = K /\ n = k.n + 1 /\ e = k.expires

\* Where a write goes that is the nth of its key.
Verdict(n) == IF n > Limit THEN "refused" ELSE "passed"

IncrCounts(r, n, e) ==
    /\ redis' = RedisWith(Key(r), n, e)
    /\ Moves(r, IF n = 1 THEN "expire" ELSE Verdict(n))
    /\ lost' = lost

IncrFails(r, n, e) ==
    /\ redis' \in {RedisWith(Key(r), n, e), redis}
    /\ Moves(r, "passed")
    /\ lost' = lost \cup {Key(r)}

\* Keys are the same if their parts are.
LEMMA SameKey ==
  ASSUME NEW k, NEW r
  PROVE  /\ IsKey(k, r) <=> KeyIn(k) = Key(r)
         /\ Key(r).client = request[r].client /\ Key(r).window = WindowOf(request[r].at)
  BY DEF IsKey, RedisKey, KeyIn, Key

\* An entry by its parts.
LEMMA EntryParts ==
  ASSUME NEW K \in AllKeys, NEW n, NEW e
  PROVE  /\ KeyIn(Named(K, n, e)) = K
         /\ Named(K, n, e).n = n /\ Named(K, n, e).expires = e
         /\ n \in Nat \ {0} /\ e \in Nat =>
              Named(K, n, e) \in [client : Clients, window : Times, n : Nat \ {0}, expires : Nat]
  BY DEF KeyIn, Named, AllKeys

\* INCR counts the write, and may fail before or after that.
LEMMA IncrEffect ==
  ASSUME BaseInv, NEW r \in Requests, Incr(r)
  PROVE  /\ request[r].pc = "counting" /\ config.limiter = "redis"
         /\ UNCHANGED <<config, hits, now, dropped>>
         /\ \E n \in Nat \ {0}, e \in Nat :
              /\ Continues(Key(r), n, e)
              /\ IncrCounts(r, n, e) \/ IncrFails(r, n, e)
<1> DEFINE mine == {k \in redis : IsKey(k, r)}
           old == IF mine = {} THEN [n |-> 0, expires |-> 0] ELSE CHOOSE k \in mine : TRUE
           n == old.n + 1
           e == old.expires
           counted == (redis \ mine) \cup
                        {[client |-> RedisKey(r).client, window |-> RedisKey(r).window,
                          n |-> n, expires |-> e]}
<1>1. /\ config.limiter = "redis" /\ request[r].pc = "counting"
      /\ \/ /\ redis' = counted
            /\ IF n = 1 THEN request' = [request EXCEPT ![r].pc = "expire"]
                        ELSE Answered(r, n)
            /\ UNCHANGED lost
         \/ /\ redis' \in {counted, redis}
            /\ request' = [request EXCEPT ![r].pc = "passed"]
            /\ lost' = lost \cup {Key(r)}
      /\ UNCHANGED <<config, hits, now, dropped>>
  BY DEF Incr
<1>2. counted = RedisWith(Key(r), n, e)
  <2>1. mine = {k \in redis : KeyIn(k) = Key(r)}
    BY SameKey
  <2>2. redis \ mine = {k \in redis : KeyIn(k) # Key(r)}
    BY <2>1
  <2> HIDE DEF mine, n, e
  <2> QED
    BY <2>2 DEF RedisWith, Named, RedisKey
<1>3. n \in Nat \ {0} /\ e \in Nat /\ Continues(Key(r), n, e)
  <2>1. CASE mine = {}
    <3>1. \A k \in redis : KeyIn(k) # Key(r)
      BY <2>1, SameKey
    <3>2. old.n = 0 /\ old.expires = 0
      BY <2>1
    <3> HIDE DEF old
    <3> QED
      BY <3>1, <3>2 DEF Continues
  <2>2. CASE mine # {}
    <3>1. old \in mine
      BY <2>2
    <3> HIDE DEF old
    <3>2. old \in redis /\ KeyIn(old) = Key(r)
      BY <3>1, SameKey
    <3>3. old.n \in Nat \ {0} /\ old.expires \in Nat
      BY <3>2 DEF BaseInv, LimiterTypeOK
    <3> QED
      BY <3>2, <3>3 DEF Continues
  <2> QED
    BY <2>1, <2>2
<1> HIDE DEF n, e, counted
<1>4. IncrCounts(r, n, e) \/ IncrFails(r, n, e)
  BY <1>1, <1>2 DEF IncrCounts, IncrFails, Moves, Answered, Verdict
<1> QED
  BY <1>1, <1>3, <1>4

\* EXPIRE changes the expiry of the request's key, or nothing.
LEMMA ExpireEffect ==
  ASSUME BaseInv, NEW r \in Requests, Expire(r)
  PROVE  /\ request[r].pc = "expire" /\ Moves(r, "passed")
         /\ UNCHANGED <<config, hits, now, lost, dropped>>
         /\ \A k \in redis' : \E j \in redis :
              /\ KeyIn(k) = KeyIn(j) /\ k.n = j.n
              /\ k.expires = j.expires \/ (KeyIn(j) = Key(r) /\ k.expires = Expires)
              /\ k \in [client : Clients, window : Times, n : Nat \ {0}, expires : Nat]
         /\ \A j \in redis : \E k \in redis' : KeyIn(k) = KeyIn(j)
<1> DEFINE Rec == [client : Clients, window : Times, n : Nat \ {0}, expires : Nat]
           set(k) == IF IsKey(k, r) THEN [k EXCEPT !.expires = Expires] ELSE k
<1>1. request[r].pc = "expire" /\ UNCHANGED <<config, hits, now, lost, dropped>>
  BY DEF Expire
<1>2. Moves(r, "passed")
  <2>1. ~ (1 > Limit) /\ Answered(r, 1)
    BY LimiterBounds DEF Expire
  <2> QED
    BY <2>1 DEF Answered, Moves
<1>3. redis' = redis \/ redis' = {set(k) : k \in redis}
  BY DEF Expire
<1>4. ASSUME NEW j \in redis
      PROVE  /\ set(j) \in Rec /\ KeyIn(set(j)) = KeyIn(j) /\ set(j).n = j.n /\ j \in Rec
             /\ set(j).expires = j.expires \/ (KeyIn(j) = Key(r) /\ set(j).expires = Expires)
  <2>1. j \in Rec /\ Expires \in Nat
    BY LimiterBounds DEF BaseInv, LimiterTypeOK, Expires, Times
  <2>2. /\ [j EXCEPT !.expires = Expires] \in Rec
        /\ [j EXCEPT !.expires = Expires].expires = Expires
        /\ [j EXCEPT !.expires = Expires].n = j.n
        /\ [j EXCEPT !.expires = Expires].client = j.client
        /\ [j EXCEPT !.expires = Expires].window = j.window
    BY <2>1
  <2>3. IsKey(j, r) <=> KeyIn(j) = Key(r)
    BY SameKey
  <2> QED
    BY <2>1, <2>2, <2>3 DEF KeyIn
<1> HIDE DEF set
<1>5. \A k \in redis' : \E j \in redis : k = j \/ k = set(j)
  BY <1>3
<1>6. \A j \in redis : j \in redis' \/ set(j) \in redis'
  BY <1>3
<1>7. \A k \in redis' : \E j \in redis :
        /\ KeyIn(k) = KeyIn(j) /\ k.n = j.n
        /\ k.expires = j.expires \/ (KeyIn(j) = Key(r) /\ k.expires = Expires)
        /\ k \in Rec
  BY <1>4, <1>5
<1>8. \A j \in redis : \E k \in redis' : KeyIn(k) = KeyIn(j)
  BY <1>4, <1>6
<1> QED
  BY <1>1, <1>2, <1>7, <1>8

\* The entry of the map for the nth write of a key.
Entered(K, n) == [client |-> K.client, start |-> K.window, count |-> n]

\* The map counts the write, in place of whatever entry the client had, and what is gone
\* for it is remembered as dropped, unless its minute is that of the write.
LEMMA CountEffect ==
  ASSUME BaseInv, NEW r \in Requests, Count(r)
  PROVE  /\ request[r].pc = "counting" /\ config.limiter = "memory"
         /\ UNCHANGED <<redis, config, now, lost>> /\ dropped \subseteq dropped'
         /\ \E n \in Nat \ {0} :
              /\ \/ n = 1 /\ (\A h \in hits : KeyOn(h) # Key(r))
                 \/ \E h \in hits : KeyOn(h) = Key(r) /\ n = h.count + 1
              /\ Moves(r, Verdict(n))
              /\ Entered(Key(r), n) \in hits'
              /\ \A h \in hits' : h = Entered(Key(r), n) \/ (h \in hits /\ KeyOn(h) # Key(r))
         /\ \A h \in hits : KeyOn(h) = Key(r) \/ h \in hits' \/ KeyOn(h) \in dropped'
<1> DEFINE W == Key(r).window
           kept == Purge(W)
           mine == {h \in kept : Mine(h, r)}
           same == {h \in mine : h.start = W}
           n == IF same = {} THEN 1 ELSE (CHOOSE h \in same : TRUE).count + 1
           gone == {h \in hits \ (kept \ mine) : h.start < W \/ (h.start > W /\ Mine(h, r))}
<1>1. /\ config.limiter = "memory" /\ request[r].pc = "counting"
      /\ hits' = (kept \ mine) \cup {[client |-> Key(r).client, start |-> W, count |-> n]}
      /\ Answered(r, n)
      /\ dropped' = dropped \cup {[client |-> h.client, window |-> h.start] : h \in gone}
      /\ UNCHANGED <<redis, config, now, lost>>
  BY DEF Count
<1>2. /\ W \in Times /\ W \in Int /\ kept \subseteq hits
      /\ \A h \in hits : h.start \in Int /\ h.count \in Nat \ {0}
      /\ \A h \in hits : h.start >= W => h \in kept
  <2>1. W \in Times /\ W \in Int
    BY <1>1, OwnKey DEF AllKeys, Times
  <2>2. \A h \in hits : h.start \in Int /\ h.count \in Nat \ {0}
    BY DEF BaseInv, LimiterTypeOK, Times
  <2> QED
    BY <2>1, <2>2 DEF Purge
<1>3. \A h : KeyOn(h) = Key(r) <=> Mine(h, r) /\ h.start = W
  BY DEF KeyOn, Key, Mine
<1>4. \A h \in hits : KeyOn(h) = Key(r) => h \in same
  BY <1>2, <1>3
<1>5. n \in Nat \ {0} /\ (\/ n = 1 /\ (\A h \in hits : KeyOn(h) # Key(r))
                         \/ \E h \in hits : KeyOn(h) = Key(r) /\ n = h.count + 1)
  <2>1. CASE same = {}
    BY <1>4, <2>1
  <2>2. CASE same # {}
    <3> DEFINE g == CHOOSE h \in same : TRUE
    <3>1. g \in same
      BY <2>2
    <3>2. n = g.count + 1
      BY <2>2
    <3> HIDE DEF g
    <3>3. g \in hits /\ KeyOn(g) = Key(r) /\ g.count \in Nat
      BY <1>2, <1>3, <3>1
    <3> HIDE DEF n
    <3> QED
      BY <3>2, <3>3
  <2> QED
    BY <2>1, <2>2
<1> HIDE DEF n
<1>6. hits' = (kept \ mine) \cup {Entered(Key(r), n)} /\ Moves(r, Verdict(n))
  BY <1>1 DEF Entered, Answered, Moves, Verdict
<1>7. \A h \in kept \ mine : h \in hits /\ KeyOn(h) # Key(r)
  BY <1>2, <1>3
<1>8. ASSUME NEW h \in hits, KeyOn(h) # Key(r), h \notin kept \ mine
      PROVE  KeyOn(h) \in dropped'
  <2>1. h.start < W \/ (h.start > W /\ Mine(h, r))
    BY <1>2, <1>3, <1>8
  <2>2. h \in gone
    BY <1>8, <2>1
  <2> HIDE DEF gone
  <2> QED
    BY <1>1, <2>2 DEF KeyOn
<1>9. dropped \subseteq dropped'
  BY <1>1
<1> HIDE DEF W, kept, mine, same, gone
<1> QED
  BY <1>1, <1>5, <1>6, <1>7, <1>8, <1>9
-----------------------------------------------------------------------------
(* The requests, always. *)

\* An entry of Redis and one of the map have the fields they should.
LEMMA NewEntries ==
  ASSUME NEW K \in AllKeys, NEW n \in Nat \ {0}, NEW e \in Nat
  PROVE  /\ Named(K, n, e) \in [client : Clients, window : Times, n : Nat \ {0}, expires : Nat]
         /\ Entered(K, n) \in [client : Clients, start : Times, count : Nat \ {0}]
         /\ KeyIn(Named(K, n, e)) = K /\ KeyOn(Entered(K, n)) = K
         /\ Named(K, n, e).n = n /\ Named(K, n, e).expires = e /\ Entered(K, n).count = n
  BY DEF Named, Entered, AllKeys, KeyIn, KeyOn

\* The tick of the clock drops what has expired.
LEMMA AdvanceEffect ==
  ASSUME BaseInv, Advance
  PROVE  /\ BaseInv' /\ redis' \subseteq redis /\ now' = now + 1 /\ now \in Nat
         /\ UNCHANGED <<request, config, hits, lost, dropped>>
         /\ \A k \in redis : k \in redis' \/ (k.expires # 0 /\ k.expires <= now + 1)
<1> DEFINE later == now + 1
<1>1. /\ UNCHANGED <<request, config, hits, lost, dropped>>
      /\ redis' = {k \in redis : k.expires = 0 \/ now + 1 < k.expires}
      /\ now' = later /\ now < MaxTime /\ now \in Nat /\ MaxTime \in Nat /\ MaxDelay \in Nat
      /\ \A r \in Requests : request[r].pc \in {"counting", "expire"} =>
                               now < request[r].at + MaxDelay
      /\ LimiterTypeOK /\ \A r \in Requests : RequestOK(r)
  BY LimiterBounds DEF Advance, BaseInv, LimiterTypeOK, Times
<1>2. later \in Times
  BY <1>1 DEF Times
<1>3. ASSUME NEW r \in Requests, request[r].pc \in {"counting", "expire"}
      PROVE  request[r].at <= later /\ later <= request[r].at + MaxDelay
  <2>1. request[r].at \in Nat
    BY <1>1 DEF LimiterTypeOK, RequestRecord, Times
  <2> QED
    BY <1>1, <1>3, <2>1 DEF RequestOK
<1>4. \A k \in redis : k \in redis' \/ (k.expires # 0 /\ k.expires <= now + 1)
  <2> SUFFICES ASSUME NEW k \in redis, k \notin redis'
               PROVE  k.expires # 0 /\ k.expires <= now + 1
    OBVIOUS
  <2>1. k.expires \in Nat
    BY <1>1 DEF LimiterTypeOK
  <2> QED
    BY <1>1, <2>1
<1> HIDE DEF later
<1>5. \A r \in Requests : RequestOK(r)'
  BY <1>1, <1>3 DEF RequestOK
<1>6. LimiterTypeOK'
  BY <1>1, <1>2 DEF LimiterTypeOK
<1> QED
  BY <1>1, <1>4, <1>5, <1>6 DEF BaseInv, later

\* Whatever request moves, and whatever the limiters write, all is well formed.
LEMMA BaseStep ==
  ASSUME BaseInv, [LimiterNext]_limiterVars
  PROVE  BaseInv'
<1>1. CASE UNCHANGED limiterVars
  <2>1. UNCHANGED <<request, redis, config, hits, now>>
    BY <1>1 DEF limiterVars
  <2> QED
    BY <2>1 DEF BaseInv, LimiterTypeOK, RequestOK
<1>2. CASE Advance
  BY <1>2, AdvanceEffect
<1>3. ASSUME NEW r \in Requests, Arrive(r) PROVE BaseInv'
  BY <1>3, ArriveEffect
<1>4. ASSUME NEW r \in Requests, Incr(r) PROVE BaseInv'
  <2>1. /\ request[r].pc = "counting" /\ UNCHANGED <<config, hits, now>>
    BY <1>4, IncrEffect
  <2>2. PICK n \in Nat \ {0}, e \in Nat : IncrCounts(r, n, e) \/ IncrFails(r, n, e)
    BY <1>4, IncrEffect
  <2>3. PICK to \in {"expire", "passed", "refused"} : Moves(r, to)
    BY <2>2 DEF IncrCounts, IncrFails, Verdict
  <2>4. request' \in [Requests -> RequestRecord] /\ \A q \in Requests : RequestOK(q)'
    BY <2>1, <2>3, MoveEffect
  <2>5. Key(r) \in AllKeys
    BY <2>1, OwnKey
  <2>6. redis' \subseteq redis \cup {Named(Key(r), n, e)}
    BY <2>2 DEF IncrCounts, IncrFails, RedisWith
  <2>7. LimiterTypeOK'
    BY <2>1, <2>4, <2>5, <2>6, NewEntries DEF BaseInv, LimiterTypeOK
  <2> QED
    BY <2>4, <2>7 DEF BaseInv
<1>5. ASSUME NEW r \in Requests, Expire(r) PROVE BaseInv'
  <2>1. /\ request[r].pc = "expire" /\ Moves(r, "passed") /\ UNCHANGED <<config, hits, now>>
        /\ redis' \subseteq [client : Clients, window : Times, n : Nat \ {0}, expires : Nat]
    BY <1>5, ExpireEffect
  <2>2. request' \in [Requests -> RequestRecord] /\ \A q \in Requests : RequestOK(q)'
    BY <2>1, MoveEffect
  <2>3. LimiterTypeOK'
    BY <2>1, <2>2 DEF BaseInv, LimiterTypeOK
  <2> QED
    BY <2>2, <2>3 DEF BaseInv
<1>6. ASSUME NEW r \in Requests, Count(r) PROVE BaseInv'
  <2>1. request[r].pc = "counting" /\ UNCHANGED <<redis, config, now>>
    BY <1>6, CountEffect
  <2>2. PICK n \in Nat \ {0} :
          /\ Moves(r, Verdict(n))
          /\ \A h \in hits' : h = Entered(Key(r), n) \/ (h \in hits /\ KeyOn(h) # Key(r))
    BY <1>6, CountEffect
  <2>3. Verdict(n) \in {"expire", "passed", "refused"}
    BY DEF Verdict
  <2>4. request' \in [Requests -> RequestRecord] /\ \A q \in Requests : RequestOK(q)'
    BY <2>1, <2>2, <2>3, MoveEffect
  <2>5. Key(r) \in AllKeys /\ 0 \in Nat
    BY <2>1, OwnKey
  <2>6. Entered(Key(r), n) \in [client : Clients, start : Times, count : Nat \ {0}]
    BY <2>5, NewEntries
  <2>7. LimiterTypeOK'
    BY <2>1, <2>2, <2>4, <2>6 DEF BaseInv, LimiterTypeOK
  <2> QED
    BY <2>4, <2>7 DEF BaseInv
<1> QED
  BY <1>1, <1>2, <1>3, <1>4, <1>5, <1>6 DEF LimiterNext

\* Types hold all along.
LEMMA BaseAlways == LimiterSpec => []BaseInv
  BY BaseInit, BaseStep, PTL DEF LimiterSpec

\* guardWrites turns away the writes of foreign pages and no others, whatever is
\* configured and whatever headers the proxy, or a client without one, sends.
THEOREM OnlyForeignPages == LimiterSpec => []ForeignPagesOnlyTurnedAway
<1>1. BaseInv => ForeignPagesOnlyTurnedAway
  <2> SUFFICES ASSUME BaseInv, NEW r \in Requests
               PROVE  /\ request[r].pc = "forbidden" => ~ request[r].welcome
                      /\ ~ request[r].welcome => request[r].pc = "forbidden"
    BY DEF ForeignPagesOnlyTurnedAway
  <2>1. request[r].welcome = (request[r].pc # "forbidden")
    BY DEF BaseInv, RequestOK
  <2> QED
    BY <2>1
<1> QED
  BY <1>1, BaseAlways, PTL
-----------------------------------------------------------------------------
(* Nobody is refused too early. *)

\* As many writes of a key as its entry counts have passed, up to the limit.
Tallied(K, n) == IF n <= Limit THEN n <= Used(K) ELSE Limit <= Used(K)

RefusedInv ==
    /\ BaseInv
    /\ \A k \in redis : Tallied(KeyIn(k), k.n)
    /\ \A h \in hits : Tallied(KeyOn(h), h.count)
    /\ \A K \in AllKeys : Writes(K, "refused") # {} => Limit <= Used(K)

\* What has passed has passed.
LEMMA TallyGrows ==
  ASSUME NEW K, NEW n \in Nat, Tallied(K, n), Used(K) <= Used(K)',
         Used(K) \in Nat, Used(K)' \in Nat
  PROVE  Tallied(K, n)'
  BY LimiterBounds DEF Tallied

\* The answer to the nth write of a key keeps the tally: it passes, or n - 1 is the limit
\* already, or more.
LEMMA AnswerIsTallied ==
  ASSUME BaseInv, NEW r \in Requests, request[r].pc = "counting", now' = now,
         NEW n \in Nat \ {0}, NEW to \in {"expire", "passed", "refused"}, Moves(r, to),
         to = "refused" => n > Limit,
         NEW K, K = KeyOf(r),
         n = 1 \/ Tallied(K, n - 1)
  PROVE  Tallied(K, n)' /\ (to = "refused" => Limit <= Used(K)')
<1>1. Used(K) \in Nat /\ Limit \in Nat /\ 1 <= Limit
  BY UsedIsNat, LimiterBounds
<1>2. Used(K)' = IF to # "refused" THEN Used(K) + 1 ELSE Used(K)
  BY CountedOnce
<1> DEFINE u == Used(K)
           v == Used(K)'
<1>3. /\ v = IF to # "refused" THEN u + 1 ELSE u
      /\ n = 1 \/ (IF n - 1 <= Limit THEN n - 1 <= u ELSE Limit <= u)
      /\ u \in Nat
  BY <1>1, <1>2 DEF Tallied
<1> HIDE DEF u, v
<1>4. (IF n <= Limit THEN n <= v ELSE Limit <= v) /\ (to = "refused" => Limit <= v)
  BY <1>1, <1>3
<1> QED
  BY <1>4 DEF v, Tallied

\* The tallies and the refusals that were right stay so while nothing that was used is
\* given back.
LEMMA RefusedKeeps ==
  ASSUME RefusedInv, BaseInv',
         \A K \in AllKeys : Used(K) <= Used(K)' /\ Used(K)' \in Nat,
         \A k \in redis' : \/ \E j \in redis : KeyIn(k) = KeyIn(j) /\ k.n = j.n
                          \/ Tallied(KeyIn(k), k.n)',
         \A h \in hits' : h \in hits \/ Tallied(KeyOn(h), h.count)',
         \A K \in AllKeys : Writes(K, "refused")' \subseteq Writes(K, "refused") \/ Limit <= Used(K)'
  PROVE  RefusedInv'
<1>1. \A K \in AllKeys : Used(K) \in Nat /\ Used(K)' \in Nat /\ Used(K) <= Used(K)'
  BY UsedIsNat
<1>2. ASSUME NEW k \in redis' PROVE Tallied(KeyIn(k), k.n)'
  <2>1. CASE \E j \in redis : KeyIn(k) = KeyIn(j) /\ k.n = j.n
    <3>1. PICK j \in redis : KeyIn(k) = KeyIn(j) /\ k.n = j.n
      BY <2>1
    <3>2. Tallied(KeyIn(k), k.n)
      BY <3>1 DEF RefusedInv
    <3>3. k.n \in Nat /\ KeyIn(k) \in AllKeys
      BY <3>1 DEF RefusedInv, BaseInv, LimiterTypeOK, KeyIn, AllKeys
    <3>4. PICK K : K = KeyIn(k)
      OBVIOUS
    <3>5. PICK n : n = k.n
      OBVIOUS
    <3>6. Tallied(K, n)'
      BY <1>1, <3>2, <3>3, <3>4, <3>5, TallyGrows
    <3> QED
      BY <3>4, <3>5, <3>6
  <2> QED
    BY <2>1
<1>3. ASSUME NEW h \in hits' PROVE Tallied(KeyOn(h), h.count)'
  <2>1. CASE h \in hits
    <3>1. Tallied(KeyOn(h), h.count) /\ h.count \in Nat /\ KeyOn(h) \in AllKeys
      BY <2>1 DEF RefusedInv, BaseInv, LimiterTypeOK, KeyOn, AllKeys
    <3>2. PICK K : K = KeyOn(h)
      OBVIOUS
    <3>3. PICK n : n = h.count
      OBVIOUS
    <3>4. Tallied(K, n)'
      BY <1>1, <3>1, <3>2, <3>3, TallyGrows
    <3> QED
      BY <3>2, <3>3, <3>4
  <2> QED
    BY <2>1
<1>4. ASSUME NEW K \in AllKeys, Writes(K, "refused")' # {} PROVE Limit <= Used(K)'
  <2>1. CASE Writes(K, "refused") # {}
    <3>1. Limit <= Used(K)
      BY <2>1 DEF RefusedInv
    <3> QED
      BY <1>1, <3>1, LimiterBounds
  <2> QED
    BY <1>4, <2>1
<1> QED
  BY <1>2, <1>3, <1>4 DEF RefusedInv

\* A write that moves uses its key up, or is refused for it, and leaves the others alone.
LEMMA MoveUses ==
  ASSUME BaseInv, NEW r \in Requests, request[r].pc = "counting", now' = now,
         NEW to \in {"expire", "passed", "refused"}, Moves(r, to), NEW K
  PROVE  /\ Used(K) \in Nat /\ Used(K)' \in Nat /\ Used(K) <= Used(K)'
         /\ (KeyOf(r) # K \/ to # "refused") =>
              Writes(K, "refused")' \subseteq Writes(K, "refused")
<1>1. Used(K) \in Nat /\ Used(K)' = IF KeyOf(r) = K /\ to # "refused" THEN Used(K) + 1 ELSE Used(K)
  BY UsedIsNat, CountedOnce
<1>2. /\ KeyOf(r) # K => Writes(K, "refused")' = Writes(K, "refused")
      /\ KeyOf(r) = K /\ "refused" # to => Writes(K, "refused")' = Writes(K, "refused") \ {r}
  BY WritesMove
<1>3. Used(K)' \in Nat /\ Used(K) <= Used(K)'
  BY <1>1
<1> QED
  BY <1>1, <1>2, <1>3

\* Every step keeps the tallies right.
LEMMA RefusedStep ==
  ASSUME RefusedInv, [LimiterNext]_limiterVars
  PROVE  RefusedInv'
<1>1. BaseInv /\ BaseInv'
  BY BaseStep DEF RefusedInv
<1>2. ASSUME \A K \in AllKeys : Used(K)' = Used(K) /\ Writes(K, "refused")' = Writes(K, "refused"),
             \A k \in redis' : \E j \in redis : KeyIn(k) = KeyIn(j) /\ k.n = j.n,
             hits' = hits
      PROVE  RefusedInv'
  <2>1. \A K \in AllKeys : Used(K) <= Used(K)' /\ Used(K)' \in Nat
    BY <1>2, UsedIsNat
  <2> QED
    BY <1>1, <1>2, <2>1, RefusedKeeps
<1>3. CASE UNCHANGED limiterVars
  <2>1. UNCHANGED <<request, redis, hits>>
    BY <1>3 DEF limiterVars
  <2>2. \A K \in AllKeys : Used(K)' = Used(K) /\ Writes(K, "refused")' = Writes(K, "refused")
    BY <2>1 DEF Used, Writes, KeyOf, WindowOf
  <2> QED
    BY <1>2, <2>1, <2>2
<1>4. CASE Advance
  <2>1. UNCHANGED <<request, hits>> /\ redis' \subseteq redis
    BY <1>1, <1>4, AdvanceEffect
  <2>2. \A K \in AllKeys : Used(K)' = Used(K) /\ Writes(K, "refused")' = Writes(K, "refused")
    BY <2>1 DEF Used, Writes, KeyOf, WindowOf
  <2> QED
    BY <1>2, <2>1, <2>2
<1>5. ASSUME NEW r \in Requests, Arrive(r) PROVE RefusedInv'
  <2>1. UNCHANGED <<redis, hits>>
    BY <1>1, <1>5, ArriveEffect
  <2>2. \A K \in AllKeys : Used(K)' = Used(K) /\ Writes(K, "refused")' = Writes(K, "refused")
    BY <1>1, <1>5, ArriveCountsNothing
  <2> QED
    BY <1>2, <2>1, <2>2
<1>6. ASSUME NEW r \in Requests, Incr(r) PROVE RefusedInv'
  <2>1. /\ request[r].pc = "counting" /\ now' = now /\ hits' = hits
    BY <1>1, <1>6, IncrEffect
  <2>2. PICK n \in Nat \ {0}, e \in Nat :
          Continues(Key(r), n, e) /\ (IncrCounts(r, n, e) \/ IncrFails(r, n, e))
    BY <1>1, <1>6, IncrEffect
  <2>3. PICK K \in AllKeys : K = Key(r) /\ K = KeyOf(r)
    BY <1>1, <2>1, OwnKey
  <2>4. n = 1 \/ Tallied(K, n - 1)
    <3>1. CASE \E k \in redis : KeyIn(k) = K /\ n = k.n + 1
      <4>1. PICK k \in redis : KeyIn(k) = K /\ n = k.n + 1
        BY <3>1
      <4>2. k.n \in Nat /\ Tallied(K, k.n)
        BY <1>1, <4>1 DEF RefusedInv, BaseInv, LimiterTypeOK
      <4>3. k.n = n - 1
        BY <4>1, <4>2
      <4> QED
        BY <4>2, <4>3
    <3> QED
      BY <2>2, <2>3, <3>1 DEF Continues
  <2>5. PICK to \in {"expire", "passed", "refused"} :
          Moves(r, to) /\ (to = "refused" => n > Limit)
    BY <2>2 DEF IncrCounts, IncrFails, Verdict
  <2>6. Tallied(K, n)' /\ (to = "refused" => Limit <= Used(K)')
    BY <1>1, <2>1, <2>3, <2>4, <2>5, AnswerIsTallied
  <2>7. \A J \in AllKeys : /\ Used(J) <= Used(J)' /\ Used(J)' \in Nat
                          /\ \/ Writes(J, "refused")' \subseteq Writes(J, "refused")
                             \/ Limit <= Used(J)'
    <3> SUFFICES ASSUME NEW J \in AllKeys
                 PROVE  /\ Used(J) <= Used(J)' /\ Used(J)' \in Nat
                        /\ \/ Writes(J, "refused")' \subseteq Writes(J, "refused")
                           \/ Limit <= Used(J)'
      OBVIOUS
    <3>1. /\ Used(J)' \in Nat /\ Used(J) <= Used(J)'
          /\ (KeyOf(r) # J \/ to # "refused") =>
               Writes(J, "refused")' \subseteq Writes(J, "refused")
      BY <1>1, <2>1, <2>5, MoveUses
    <3> QED
      BY <2>3, <2>6, <3>1
  <2>8. ASSUME NEW k \in redis'
        PROVE  \/ \E j \in redis : KeyIn(k) = KeyIn(j) /\ k.n = j.n
               \/ Tallied(KeyIn(k), k.n)'
    <3>1. k \in redis \/ k = Named(K, n, e)
      BY <2>2, <2>3 DEF IncrCounts, IncrFails, RedisWith
    <3>2. CASE k = Named(K, n, e)
      <4>1. KeyIn(k) = K /\ k.n = n
        BY <3>2, NewEntries
      <4> QED
        BY <2>6, <4>1
    <3> QED
      BY <3>1, <3>2
  <2> QED
    BY <1>1, <2>1, <2>7, <2>8, RefusedKeeps
<1>7. ASSUME NEW r \in Requests, Expire(r) PROVE RefusedInv'
  <2>1. /\ request[r].pc = "expire" /\ Moves(r, "passed") /\ now' = now /\ hits' = hits
        /\ \A k \in redis' : \E j \in redis : KeyIn(k) = KeyIn(j) /\ k.n = j.n
    BY <1>1, <1>7, ExpireEffect
  <2>2. \A K \in AllKeys : Used(K)' = Used(K)
    BY <1>1, <2>1, CountedBefore
  <2>3. \A K \in AllKeys : Writes(K, "refused")' \subseteq Writes(K, "refused")
    <3> SUFFICES ASSUME NEW K \in AllKeys PROVE Writes(K, "refused")' \subseteq Writes(K, "refused")
      OBVIOUS
    <3>1. /\ KeyOf(r) # K => Writes(K, "refused")' = Writes(K, "refused")
          /\ KeyOf(r) = K /\ "refused" # "passed" => Writes(K, "refused")' = Writes(K, "refused") \ {r}
      BY <1>1, <2>1, WritesMove
    <3> QED
      BY <3>1
  <2>4. \A K \in AllKeys : Used(K) <= Used(K)' /\ Used(K)' \in Nat
    BY <2>2, UsedIsNat
  <2> QED
    BY <1>1, <2>1, <2>3, <2>4, RefusedKeeps
<1>8. ASSUME NEW r \in Requests, Count(r) PROVE RefusedInv'
  <2>1. request[r].pc = "counting" /\ UNCHANGED <<redis, config, now, lost>>
    BY <1>1, <1>8, CountEffect
  <2>2. PICK n \in Nat \ {0} :
          /\ \/ n = 1 /\ (\A h \in hits : KeyOn(h) # Key(r))
             \/ \E h \in hits : KeyOn(h) = Key(r) /\ n = h.count + 1
          /\ Moves(r, Verdict(n))
          /\ \A h \in hits' : h = Entered(Key(r), n) \/ (h \in hits /\ KeyOn(h) # Key(r))
    BY <1>1, <1>8, CountEffect
  <2>3. PICK K \in AllKeys : K = Key(r) /\ K = KeyOf(r)
    BY <1>1, <2>1, OwnKey
  <2>4. n = 1 \/ Tallied(K, n - 1)
    <3>1. CASE \E h \in hits : KeyOn(h) = K /\ n = h.count + 1
      <4>1. PICK h \in hits : KeyOn(h) = K /\ n = h.count + 1
        BY <3>1
      <4>2. h.count \in Nat /\ Tallied(K, h.count)
        BY <1>1, <4>1 DEF RefusedInv, BaseInv, LimiterTypeOK
      <4>3. h.count = n - 1
        BY <4>1, <4>2
      <4> QED
        BY <4>2, <4>3
    <3> QED
      BY <2>2, <2>3, <3>1
  <2>5. PICK to \in {"expire", "passed", "refused"} :
          Moves(r, to) /\ (to = "refused" => n > Limit)
    BY <2>2 DEF Verdict
  <2>6. Tallied(K, n)' /\ (to = "refused" => Limit <= Used(K)')
    BY <1>1, <2>1, <2>3, <2>4, <2>5, AnswerIsTallied
  <2>7. \A J \in AllKeys : /\ Used(J) <= Used(J)' /\ Used(J)' \in Nat
                          /\ \/ Writes(J, "refused")' \subseteq Writes(J, "refused")
                             \/ Limit <= Used(J)'
    <3> SUFFICES ASSUME NEW J \in AllKeys
                 PROVE  /\ Used(J) <= Used(J)' /\ Used(J)' \in Nat
                        /\ \/ Writes(J, "refused")' \subseteq Writes(J, "refused")
                           \/ Limit <= Used(J)'
      OBVIOUS
    <3>1. /\ Used(J)' \in Nat /\ Used(J) <= Used(J)'
          /\ (KeyOf(r) # J \/ to # "refused") =>
               Writes(J, "refused")' \subseteq Writes(J, "refused")
      BY <1>1, <2>1, <2>5, MoveUses
    <3> QED
      BY <2>3, <2>6, <3>1
  <2>8. ASSUME NEW h \in hits' PROVE h \in hits \/ Tallied(KeyOn(h), h.count)'
    <3>1. h \in hits \/ h = Entered(K, n)
      BY <2>2, <2>3
    <3>2. CASE h = Entered(K, n)
      <4>1. KeyOn(h) = K /\ h.count = n
        BY <3>2, NewEntries
      <4> QED
        BY <2>6, <4>1
    <3> QED
      BY <3>1, <3>2
  <2> QED
    BY <1>1, <2>1, <2>7, <2>8, RefusedKeeps
<1> QED
  BY <1>3, <1>4, <1>5, <1>6, <1>7, <1>8 DEF LimiterNext

\* At first there is nothing to tally.
LEMMA RefusedInit == LimiterInit => RefusedInv
<1> SUFFICES ASSUME LimiterInit PROVE RefusedInv
  OBVIOUS
<1>1. BaseInv /\ redis = {} /\ hits = {} /\ request = [r \in Requests |-> NewRequest]
  BY BaseInit DEF LimiterInit
<1>2. NewRequest.pc = "new"
  BY DEF NewRequest
<1>3. \A K \in AllKeys : Writes(K, "refused") = {}
  BY <1>1, <1>2 DEF Writes
<1> QED
  BY <1>1, <1>3 DEF RefusedInv

\* No client is refused before its own minute's writes are used up: not for what another
\* client did, nor for an earlier minute, in Redis or in memory, with INCR or EXPIRE
\* failing as they may.
THEOREM NobodyPaysForAnother == LimiterSpec => []RefusedOnlyOverLimit
<1>1. RefusedInv => RefusedOnlyOverLimit
  <2> SUFFICES ASSUME RefusedInv, NEW key \in Keys, Writes(key, "refused") # {}
               PROVE  Cardinality(Writes(key, "passed")) + Cardinality(Writes(key, "expire")) >= Limit
    BY DEF RefusedOnlyOverLimit
  <2>1. key \in AllKeys
    BY KeysAreKeys DEF RefusedInv
  <2>2. Limit <= Used(key)
    BY <2>1 DEF RefusedInv
  <2>3. Used(key) \in Nat /\ Limit \in Nat
    BY UsedIsNat, LimiterBounds
  <2> QED
    BY <2>2, <2>3 DEF Used
<1> QED
  BY <1>1, RefusedInit, RefusedStep, PTL DEF LimiterSpec
-----------------------------------------------------------------------------
(* No more pass than the limit. *)

\* A key of Redis that expires does so when nobody counts for its minute any more.
ExpiryInv ==
    \A k \in redis : k.expires = 0 \/ KeyIn(k).window + 2 * Minute <= k.expires

\* Redis has an entry for every key of which something is used, until its time is over,
\* and it counts all of that.
RedisInv ==
    /\ ExpiryInv
    /\ \A k \in redis : KeyIn(k) \notin lost => Used(KeyIn(k)) <= k.n
    /\ \A K \in AllKeys \ lost :
         \/ Used(K) = 0
         \/ \E k \in redis : KeyIn(k) = K
         \/ K.window + 2 * Minute <= now

\* So has the map, but for the keys that were dropped.
MemoryInv ==
    /\ \A h \in hits : KeyOn(h) \notin dropped => Used(KeyOn(h)) <= h.count
    /\ \A K \in AllKeys \ dropped :
         Used(K) = 0 \/ \E h \in hits : KeyOn(h) = K

LimitInv ==
    /\ BaseInv
    /\ \A K \in AllKeys \ (lost \cup dropped) : Used(K) <= Limit
    /\ config.limiter = "redis" => RedisInv
    /\ config.limiter = "memory" => MemoryInv

\* The map is as right as it was if it has not changed, nor what is used.
LEMMA MemoryKeeps ==
  ASSUME BaseInv, MemoryInv, UNCHANGED <<hits, dropped>>,
         \A K \in AllKeys : Used(K)' = Used(K)
  PROVE  MemoryInv'
<1>1. \A h \in hits : KeyOn(h) \in AllKeys
  BY DEF BaseInv, LimiterTypeOK, KeyOn, AllKeys
<1>2. ASSUME NEW h \in hits', KeyOn(h) \notin dropped' PROVE Used(KeyOn(h))' <= h.count
  <2>1. Used(KeyOn(h)) <= h.count
    BY <1>2 DEF MemoryInv
  <2>2. PICK K \in AllKeys : K = KeyOn(h)
    BY <1>1
  <2>3. Used(K)' <= h.count
    BY <2>1, <2>2
  <2> QED
    BY <2>2, <2>3
<1>3. \A K \in AllKeys \ dropped' : Used(K)' = 0 \/ \E h \in hits' : KeyOn(h) = K
  BY DEF MemoryInv
<1> QED
  BY <1>2, <1>3 DEF MemoryInv

\* Nothing moves but the clock, which may have dropped what nobody counts for any more.
LEMMA LimitKeeps ==
  ASSUME LimitInv, BaseInv', UNCHANGED <<config, hits, lost, dropped>>,
         \A K \in AllKeys : Used(K)' = Used(K),
         redis' \subseteq redis, now <= now',
         \A k \in redis : k \in redis' \/ (k.expires # 0 /\ k.expires <= now')
  PROVE  LimitInv'
<1>1. \A K \in AllKeys \ (lost' \cup dropped') : Used(K)' <= Limit
  BY DEF LimitInv
<1>2. ASSUME config.limiter = "redis" PROVE RedisInv'
  <2>1. RedisInv
    BY <1>2 DEF LimitInv
  <2>2. ExpiryInv'
    BY <2>1 DEF RedisInv, ExpiryInv
  <2>3. \A k \in redis' : KeyIn(k) \in AllKeys
    BY DEF LimitInv, BaseInv, LimiterTypeOK, KeyIn, AllKeys
  <2>4. ASSUME NEW k \in redis', KeyIn(k) \notin lost' PROVE Used(KeyIn(k))' <= k.n
    <3>1. Used(KeyIn(k)) <= k.n
      BY <2>1, <2>4 DEF RedisInv
    <3>2. PICK K \in AllKeys : K = KeyIn(k)
      BY <2>3
    <3>3. Used(K)' <= k.n
      BY <3>1, <3>2
    <3> QED
      BY <3>2, <3>3
  <2>5. ASSUME NEW K \in AllKeys \ lost'
        PROVE  Used(K)' = 0 \/ (\E k \in redis' : KeyIn(k) = K) \/ K.window + 2 * Minute <= now'
    <3>1. /\ K.window \in Int /\ Minute \in Int /\ now \in Int /\ now' \in Int
      BY LimiterBounds DEF AllKeys, Times, LimitInv, BaseInv, LimiterTypeOK
    <3> DEFINE later == now'
    <3>2. \/ Used(K) = 0
          \/ \E k \in redis : KeyIn(k) = K
          \/ K.window + 2 * Minute <= now
      BY <2>1, <2>5 DEF RedisInv
    <3>3. later \in Int /\ now <= later
      BY <3>1
    <3> HIDE DEF later
    <3>4. K.window + 2 * Minute <= now => K.window + 2 * Minute <= later
      BY <3>1, <3>3
    <3>5. ASSUME NEW k \in redis, KeyIn(k) = K, k \notin redis' PROVE K.window + 2 * Minute <= later
      <4>1. k.expires # 0 /\ k.expires <= later
        BY <3>5 DEF later
      <4>2. K.window + 2 * Minute <= k.expires
        BY <2>1, <3>5, <4>1 DEF RedisInv, ExpiryInv
      <4>3. k.expires \in Int
        BY DEF LimitInv, BaseInv, LimiterTypeOK
      <4> QED
        BY <3>1, <3>3, <4>1, <4>2, <4>3
    <3>6. Used(K)' = Used(K)
      BY <2>5
    <3> QED
      BY <3>2, <3>4, <3>5, <3>6 DEF later
  <2> QED
    BY <2>2, <2>4, <2>5 DEF RedisInv
<1>3. config.limiter = "memory" => MemoryInv'
  BY MemoryKeeps DEF LimitInv
<1> QED
  BY <1>1, <1>2, <1>3 DEF LimitInv

\* While a write is to be counted, its minute is not over.
LEMMA InItsTime ==
  ASSUME BaseInv, MaxDelay <= Minute, NEW r \in Requests,
         request[r].pc \in {"counting", "expire"}
  PROVE  /\ Key(r).window <= now
         /\ ~ (Key(r).window + 2 * Minute <= now)
<1>1. /\ request[r].at \in Times /\ request[r].at <= now /\ now <= request[r].at + MaxDelay
      /\ now \in Times
  BY DEF BaseInv, LimiterTypeOK, RequestOK, RequestRecord
<1>2. Key(r).window = WindowOf(request[r].at)
  BY DEF Key
<1>3. /\ WindowOf(request[r].at) \in Times
      /\ WindowOf(request[r].at) <= request[r].at /\ request[r].at < WindowOf(request[r].at) + Minute
  BY <1>1, WindowBounds
<1> QED
  BY <1>1, <1>2, <1>3, LimiterBounds DEF Times

\* How much of a key has been used after the answer to its nth write.
LEMMA AnswerHolds ==
  ASSUME BaseInv, NEW r \in Requests, request[r].pc = "counting", now' = now,
         NEW n \in Nat \ {0}, NEW to \in {"expire", "passed", "refused"}, Moves(r, to),
         n > Limit => to = "refused",
         NEW K, K = KeyOf(r),
         Used(K) <= n - 1
  PROVE  /\ Used(K)' <= n
         /\ Used(K) <= Limit => Used(K)' <= Limit
<1>1. Used(K) \in Nat /\ Limit \in Nat /\ 1 <= Limit
  BY UsedIsNat, LimiterBounds
<1>2. Used(K)' = IF to # "refused" THEN Used(K) + 1 ELSE Used(K)
  BY CountedOnce
<1> DEFINE u == Used(K)
           v == Used(K)'
<1>3. v = (IF to # "refused" THEN u + 1 ELSE u) /\ u \in Nat /\ u <= n - 1
  BY <1>1, <1>2
<1> HIDE DEF u, v
<1>4. v <= n /\ (u <= Limit => v <= Limit)
  BY <1>1, <1>3
<1> QED
  BY <1>4 DEF u, v

\* INCR gives the write a number past all that was used of its key; a failure makes the
\* key one that was lost.
LEMMA IncrKeepsLimit ==
  ASSUME LimitInv, MaxDelay <= Minute, NEW r \in Requests, Incr(r), BaseInv'
  PROVE  LimitInv'
<1>1. /\ BaseInv /\ request[r].pc = "counting" /\ config.limiter = "redis" /\ RedisInv
      /\ UNCHANGED <<config, hits, now, dropped>>
  BY IncrEffect DEF LimitInv
<1>2. PICK n \in Nat \ {0}, e \in Nat :
        Continues(Key(r), n, e) /\ (IncrCounts(r, n, e) \/ IncrFails(r, n, e))
  BY <1>1, IncrEffect
<1>3. PICK K \in AllKeys : K = Key(r) /\ K = KeyOf(r)
  BY <1>1, OwnKey
<1>4. PICK to \in {"expire", "passed", "refused"} :
        Moves(r, to) /\ (IncrCounts(r, n, e) => (n > Limit => to = "refused"))
  <2>1. CASE IncrCounts(r, n, e)
    <3>1. n > Limit => n # 1
      BY LimiterBounds
    <3> QED
      BY <2>1, <3>1 DEF IncrCounts, Verdict
  <2>2. CASE IncrFails(r, n, e) /\ ~ IncrCounts(r, n, e)
    BY <2>2 DEF IncrFails
  <2> QED
    BY <1>2, <2>1, <2>2
<1>5. ASSUME NEW J \in AllKeys, J # K PROVE Used(J)' = Used(J)
  BY <1>1, <1>3, <1>4, <1>5, CountedOnce
<1>6. /\ redis' \subseteq redis \cup {Named(K, n, e)}
      /\ \A k \in redis : KeyIn(k) # K => k \in redis'
  BY <1>2, <1>3 DEF IncrCounts, IncrFails, RedisWith
<1>named. KeyIn(Named(K, n, e)) = K /\ Named(K, n, e).n = n /\ Named(K, n, e).expires = e
  BY NewEntries
<1>7. ASSUME K \notin lost PROVE Used(K) <= n - 1
  <2>1. CASE n = 1 /\ \A k \in redis : KeyIn(k) # K
    <3>1. Used(K) = 0
      BY <1>1, <1>3, <1>7, <2>1, InItsTime DEF RedisInv
    <3> QED
      BY <2>1, <3>1
  <2>2. CASE \E k \in redis : KeyIn(k) = K /\ n = k.n + 1
    <3>1. PICK k \in redis : KeyIn(k) = K /\ n = k.n + 1
      BY <2>2
    <3>2. Used(K) <= k.n /\ k.n \in Nat
      BY <1>1, <1>7, <3>1 DEF RedisInv, BaseInv, LimiterTypeOK
    <3>3. k.n = n - 1
      BY <3>1, <3>2
    <3> QED
      BY <3>2, <3>3
  <2> QED
    BY <1>2, <1>3, <2>1, <2>2 DEF Continues
<1>8. (lost' = lost /\ IncrCounts(r, n, e)) \/ lost' = lost \cup {K}
  BY <1>2, <1>3 DEF IncrCounts, IncrFails
<1>9. ASSUME K \notin lost'
      PROVE  /\ K \notin lost /\ Used(K)' <= n
             /\ Used(K) <= Limit => Used(K)' <= Limit
             /\ Named(K, n, e) \in redis'
             /\ \A k \in redis' : KeyIn(k) = K => k = Named(K, n, e)
  <2>1. K \notin lost /\ IncrCounts(r, n, e)
    BY <1>8, <1>9
  <2>2. redis' = RedisWith(K, n, e)
    BY <1>3, <2>1 DEF IncrCounts
  <2>3. Used(K)' <= n /\ (Used(K) <= Limit => Used(K)' <= Limit)
    BY <1>1, <1>3, <1>4, <1>7, <2>1, AnswerHolds
  <2> QED
    BY <2>1, <2>2, <2>3 DEF RedisWith
<1>10. lost \subseteq lost'
  BY <1>8
<1>11. \A J \in AllKeys \ (lost' \cup dropped') : Used(J)' <= Limit
  BY <1>1, <1>5, <1>9, <1>10 DEF LimitInv
<1>12. RedisInv'
  <2>1. ExpiryInv'
    <3>1. e = 0 \/ K.window + 2 * Minute <= e
      BY <1>1, <1>2, <1>3 DEF Continues, RedisInv, ExpiryInv
    <3> QED
      BY <1>1, <1>6, <1>named, <3>1 DEF RedisInv, ExpiryInv
  <2>2. ASSUME NEW k \in redis', KeyIn(k) \notin lost' PROVE Used(KeyIn(k))' <= k.n
    <3>1. CASE KeyIn(k) = K
      <4>1. k.n = n /\ Used(K)' <= n
        BY <1>9, <1>named, <2>2, <3>1
      <4> QED
        BY <3>1, <4>1
    <3>2. CASE KeyIn(k) # K
      <4>1. k \in redis /\ KeyIn(k) \notin lost
        BY <1>6, <1>10, <1>named, <2>2, <3>2
      <4>2. PICK J \in AllKeys : J = KeyIn(k)
        BY <1>1, <4>1 DEF BaseInv, LimiterTypeOK, KeyIn, AllKeys
      <4>3. Used(J) <= k.n
        BY <1>1, <4>1, <4>2 DEF RedisInv
      <4>4. Used(J)' <= k.n
        BY <1>5, <3>2, <4>2, <4>3
      <4> QED
        BY <4>2, <4>4
    <3> QED
      BY <3>1, <3>2
  <2>3. ASSUME NEW J \in AllKeys \ lost'
        PROVE  Used(J)' = 0 \/ (\E k \in redis' : KeyIn(k) = J) \/ J.window + 2 * Minute <= now'
    <3>1. CASE J = K
      BY <1>9, <1>named, <2>3, <3>1
    <3>2. CASE J # K
      <4>1. Used(J) = 0 \/ (\E k \in redis : KeyIn(k) = J) \/ J.window + 2 * Minute <= now
        BY <1>1, <1>10, <2>3 DEF RedisInv
      <4> QED
        BY <1>1, <1>5, <1>6, <3>2, <4>1
    <3> QED
      BY <3>1, <3>2
  <2> QED
    BY <2>1, <2>2, <2>3 DEF RedisInv
<1> QED
  BY <1>1, <1>11, <1>12 DEF LimitInv

\* EXPIRE counts from a moment of the key's minute or later.
LEMMA ExpireKeepsLimit ==
  ASSUME LimitInv, MaxDelay <= Minute, NEW r \in Requests, Expire(r), BaseInv'
  PROVE  LimitInv'
<1>1. /\ BaseInv /\ request[r].pc = "expire" /\ Moves(r, "passed")
      /\ UNCHANGED <<config, hits, now, lost, dropped>>
      /\ \A j \in redis : \E k \in redis' : KeyIn(k) = KeyIn(j)
  BY ExpireEffect DEF LimitInv
<1>2. \A k \in redis' : \E j \in redis :
        /\ KeyIn(k) = KeyIn(j) /\ k.n = j.n
        /\ k.expires = j.expires \/ (KeyIn(j) = Key(r) /\ k.expires = Expires)
  BY <1>1, ExpireEffect
<1>3. \A K \in AllKeys : Used(K)' = Used(K)
  BY <1>1, CountedBefore
<1>4. \A K \in AllKeys \ (lost' \cup dropped') : Used(K)' <= Limit
  BY <1>1, <1>3 DEF LimitInv
<1>5. ASSUME config.limiter = "redis" PROVE RedisInv'
  <2>1. RedisInv
    BY <1>5 DEF LimitInv
  <2>2. Key(r).window + 2 * Minute <= Expires
    <3>1. Key(r).window <= now
      BY <1>1, InItsTime
    <3>2. Key(r) \in AllKeys
      BY <1>1, OwnKey
    <3>3. Key(r).window \in Int /\ now \in Int /\ Minute \in Int
      BY <1>1, <3>2, LimiterBounds DEF AllKeys, Times, BaseInv, LimiterTypeOK
    <3> QED
      BY <3>1, <3>3 DEF Expires
  <2>3. ExpiryInv'
    <3>1. ASSUME NEW k \in redis' PROVE k.expires = 0 \/ KeyIn(k).window + 2 * Minute <= k.expires
      <4>1. PICK j \in redis :
              /\ KeyIn(k) = KeyIn(j) /\ k.n = j.n
              /\ k.expires = j.expires \/ (KeyIn(j) = Key(r) /\ k.expires = Expires)
        BY <1>2
      <4>2. j.expires = 0 \/ KeyIn(j).window + 2 * Minute <= j.expires
        BY <2>1 DEF RedisInv, ExpiryInv
      <4> QED
        BY <2>2, <4>1, <4>2
    <3> QED
      BY <3>1 DEF ExpiryInv
  <2>4. ASSUME NEW k \in redis', KeyIn(k) \notin lost' PROVE Used(KeyIn(k))' <= k.n
    <3>1. PICK j \in redis : KeyIn(k) = KeyIn(j) /\ k.n = j.n
      BY <1>2
    <3>2. PICK J \in AllKeys : J = KeyIn(j)
      BY <1>1 DEF BaseInv, LimiterTypeOK, KeyIn, AllKeys
    <3>3. Used(J) <= k.n
      BY <1>1, <2>1, <2>4, <3>1, <3>2 DEF RedisInv
    <3>4. Used(J)' <= k.n
      BY <1>3, <3>3
    <3> QED
      BY <3>1, <3>2, <3>4
  <2>5. ASSUME NEW J \in AllKeys \ lost'
        PROVE  Used(J)' = 0 \/ (\E k \in redis' : KeyIn(k) = J) \/ J.window + 2 * Minute <= now'
    <3>1. Used(J) = 0 \/ (\E k \in redis : KeyIn(k) = J) \/ J.window + 2 * Minute <= now
      BY <1>1, <2>1, <2>5 DEF RedisInv
    <3> QED
      BY <1>1, <1>3, <3>1
  <2> QED
    BY <2>3, <2>4, <2>5 DEF RedisInv
<1>6. config.limiter = "memory" => MemoryInv'
  BY <1>1, <1>3, MemoryKeeps DEF LimitInv
<1> QED
  BY <1>1, <1>4, <1>5, <1>6 DEF LimitInv

\* The map gives the write a number past all that was used of its key, unless a write of
\* another minute has taken the place of its entry.
LEMMA CountKeepsLimit ==
  ASSUME LimitInv, NEW r \in Requests, Count(r), BaseInv'
  PROVE  LimitInv'
<1>1. /\ BaseInv /\ request[r].pc = "counting" /\ config.limiter = "memory" /\ MemoryInv
      /\ UNCHANGED <<redis, config, now, lost>> /\ dropped \subseteq dropped'
      /\ \A h \in hits : KeyOn(h) = Key(r) \/ h \in hits' \/ KeyOn(h) \in dropped'
  BY CountEffect DEF LimitInv
<1>2. PICK n \in Nat \ {0} :
        /\ \/ n = 1 /\ (\A h \in hits : KeyOn(h) # Key(r))
           \/ \E h \in hits : KeyOn(h) = Key(r) /\ n = h.count + 1
        /\ Moves(r, Verdict(n))
        /\ Entered(Key(r), n) \in hits'
        /\ \A h \in hits' : h = Entered(Key(r), n) \/ (h \in hits /\ KeyOn(h) # Key(r))
  BY <1>1, CountEffect
<1>3. PICK K \in AllKeys : K = Key(r) /\ K = KeyOf(r)
  BY <1>1, OwnKey
<1>4. PICK to \in {"expire", "passed", "refused"} : Moves(r, to) /\ (n > Limit => to = "refused")
  BY <1>2 DEF Verdict
<1>5. ASSUME NEW J \in AllKeys, J # K PROVE Used(J)' = Used(J)
  BY <1>1, <1>3, <1>4, <1>5, CountedOnce
<1>entered. KeyOn(Entered(K, n)) = K /\ Entered(K, n).count = n
  BY NewEntries
<1>6. ASSUME K \notin dropped PROVE Used(K) <= n - 1
  <2>1. CASE n = 1 /\ \A h \in hits : KeyOn(h) # K
    <3>1. Used(K) = 0
      BY <1>1, <1>6, <2>1 DEF MemoryInv
    <3> QED
      BY <2>1, <3>1
  <2>2. CASE \E h \in hits : KeyOn(h) = K /\ n = h.count + 1
    <3>1. PICK h \in hits : KeyOn(h) = K /\ n = h.count + 1
      BY <2>2
    <3>2. Used(K) <= h.count /\ h.count \in Nat
      BY <1>1, <1>6, <3>1 DEF MemoryInv, BaseInv, LimiterTypeOK
    <3>3. h.count = n - 1
      BY <3>1, <3>2
    <3> QED
      BY <3>2, <3>3
  <2> QED
    BY <1>2, <1>3, <2>1, <2>2
<1>7. ASSUME K \notin dropped'
      PROVE  Used(K)' <= n /\ (Used(K) <= Limit => Used(K)' <= Limit)
  BY <1>1, <1>3, <1>4, <1>6, <1>7, AnswerHolds
<1>8. \A J \in AllKeys \ (lost' \cup dropped') : Used(J)' <= Limit
  BY <1>1, <1>5, <1>7 DEF LimitInv
<1>9. MemoryInv'
  <2>1. ASSUME NEW h \in hits', KeyOn(h) \notin dropped' PROVE Used(KeyOn(h))' <= h.count
    <3>1. CASE h = Entered(K, n)
      <4>1. Used(K)' <= h.count
        BY <1>7, <1>entered, <2>1, <3>1
      <4> QED
        BY <1>entered, <3>1, <4>1
    <3>2. CASE h # Entered(K, n)
      <4>1. h \in hits /\ KeyOn(h) # K /\ KeyOn(h) \notin dropped
        BY <1>1, <1>2, <1>3, <2>1, <3>2
      <4>2. PICK J \in AllKeys : J = KeyOn(h)
        BY <1>1, <4>1 DEF BaseInv, LimiterTypeOK, KeyOn, AllKeys
      <4>3. Used(J) <= h.count
        BY <1>1, <4>1, <4>2 DEF MemoryInv
      <4>4. Used(J)' <= h.count
        BY <1>5, <4>1, <4>2, <4>3
      <4> QED
        BY <4>2, <4>4
    <3> QED
      BY <3>1, <3>2
  <2>2. ASSUME NEW J \in AllKeys \ dropped'
        PROVE  Used(J)' = 0 \/ \E h \in hits' : KeyOn(h) = J
    <3>1. CASE J = K
      BY <1>2, <1>3, <1>entered, <3>1
    <3>2. CASE J # K
      <4>1. Used(J) = 0 \/ \E h \in hits : KeyOn(h) = J
        BY <1>1, <2>2 DEF MemoryInv
      <4>2. ASSUME NEW h \in hits, KeyOn(h) = J PROVE h \in hits'
        BY <1>1, <1>3, <2>2, <3>2, <4>2
      <4> QED
        BY <1>5, <3>2, <4>1, <4>2
    <3> QED
      BY <3>1, <3>2
  <2> QED
    BY <2>1, <2>2 DEF MemoryInv
<1> QED
  BY <1>1, <1>8, <1>9 DEF LimitInv

\* Every step keeps to the limit.
LEMMA LimitStep ==
  ASSUME MaxDelay <= Minute, LimitInv, [LimiterNext]_limiterVars
  PROVE  LimitInv'
<1>1. BaseInv /\ BaseInv' /\ now \in Nat
  BY BaseStep DEF LimitInv, BaseInv, LimiterTypeOK, Times
<1>2. CASE UNCHANGED limiterVars
  <2>1. UNCHANGED <<request, redis, config, hits, now, lost, dropped>>
    BY <1>2 DEF limiterVars
  <2>2. \A K \in AllKeys : Used(K)' = Used(K)
    BY <2>1 DEF Used, Writes, KeyOf, WindowOf
  <2>3. now <= now'
    BY <1>1, <2>1
  <2> QED
    BY <1>1, <2>1, <2>2, <2>3, LimitKeeps
<1>3. CASE Advance
  <2>1. /\ UNCHANGED <<request, config, hits, lost, dropped>> /\ redis' \subseteq redis
        /\ now' = now + 1
        /\ \A k \in redis : k \in redis' \/ (k.expires # 0 /\ k.expires <= now + 1)
    BY <1>1, <1>3, AdvanceEffect
  <2>2. \A K \in AllKeys : Used(K)' = Used(K)
    BY <2>1 DEF Used, Writes, KeyOf, WindowOf
  <2>3. /\ now <= now'
        /\ \A k \in redis : k \in redis' \/ (k.expires # 0 /\ k.expires <= now')
    BY <1>1, <2>1
  <2> QED
    BY <1>1, <2>1, <2>2, <2>3, LimitKeeps
<1>4. ASSUME NEW r \in Requests, Arrive(r) PROVE LimitInv'
  <2>1. UNCHANGED <<redis, config, hits, now, lost, dropped>>
    BY <1>1, <1>4, ArriveEffect
  <2>2. \A K \in AllKeys : Used(K)' = Used(K)
    BY <1>1, <1>4, ArriveCountsNothing
  <2>3. now <= now'
    BY <1>1, <2>1
  <2> QED
    BY <1>1, <2>1, <2>2, <2>3, LimitKeeps
<1>5. ASSUME NEW r \in Requests, Incr(r) \/ Expire(r) \/ Count(r) PROVE LimitInv'
  BY <1>1, <1>5, IncrKeepsLimit, ExpireKeepsLimit, CountKeepsLimit
<1> QED
  BY <1>2, <1>3, <1>4, <1>5 DEF LimiterNext

\* At first nothing is used.
LEMMA LimitInit == LimiterInit => LimitInv
<1> SUFFICES ASSUME LimiterInit PROVE LimitInv
  OBVIOUS
<1>1. BaseInv /\ redis = {} /\ hits = {} /\ request = [r \in Requests |-> NewRequest]
  BY BaseInit DEF LimiterInit
<1>2. \A K \in AllKeys : Used(K) = 0
  <2> SUFFICES ASSUME NEW K \in AllKeys PROVE Used(K) = 0
    OBVIOUS
  <2>1. Writes(K, "passed") = {} /\ Writes(K, "expire") = {}
    BY <1>1 DEF Writes, NewRequest
  <2> QED
    BY <2>1, FS_EmptySet DEF Used
<1>3. 0 <= Limit
  BY LimiterBounds
<1> QED
  BY <1>1, <1>2, <1>3 DEF LimitInv, RedisInv, ExpiryInv, MemoryInv

\* A request is counted, or its client gives up on Redis, within a minute of its coming.
CountedWithinMinute == MaxDelay <= Minute

\* A client gets no more than its limit of writes through in a minute, whatever headers it
\* sends and however its requests, those of others and the end of the minute interleave,
\* but for the minutes in which an INCR failed or, in memory, an entry was dropped.
THEOREM NoMoreThanTheLimit == CountedWithinMinute /\ LimiterSpec => []LimitHolds
<1> SUFFICES ASSUME CountedWithinMinute PROVE LimiterSpec => []LimitHolds
  OBVIOUS
<1>1. LimitInv => LimitHolds
  <2> SUFFICES ASSUME LimitInv, NEW key \in Keys \ (lost \cup dropped)
               PROVE  Cardinality(Writes(key, "passed")) <= Limit
    BY DEF LimitHolds
  <2>1. key \in AllKeys
    BY KeysAreKeys DEF LimitInv
  <2>2. Used(key) <= Limit
    BY <2>1 DEF LimitInv
  <2>3. /\ Cardinality(Writes(key, "passed")) \in Nat /\ Cardinality(Writes(key, "expire")) \in Nat
        /\ Limit \in Nat
    BY WritesAreFinite, LimiterBounds
  <2> QED
    BY <2>2, <2>3 DEF Used
<1>2. LimitInv /\ [LimiterNext]_limiterVars => LimitInv'
  BY LimitStep DEF CountedWithinMinute
<1> QED
  BY <1>1, <1>2, LimitInit, PTL DEF LimiterSpec
=============================================================================
