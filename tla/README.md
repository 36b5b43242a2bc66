# GreenCycle: specifications and proofs

GreenCycle finds the cleanest hours of the electricity grid for an appliance, stores the
result as a *scheduled run*, and when the run is due calls a webhook and writes a
notification. These TLA+ modules say what the service does between and around its SQL
statements, HTTP calls and channel operations. TLC checks them on small instances; TLAPS
proves the most important statements for every value of the constants.

Run `tlc -config X.cfg M.tla` for a row of the table of runs, and `tlapm M.tla` for the
modules ending in `Proofs`.

## The system

| part (source) | state | operations | interacts with |
|---|---|---|---|
| scheduler engine (`internal/scheduler/engine.go`, `webhook.go`) | the goroutines of `fire` and their locals | `Run`, `RunOnce`, `dispatch`, `fire`, `dispatchWebhook` | the run repository by one SQL statement at a time; the webhook's receiver by POST; other passes, in this process or another, only through the rows |
| scheduled runs (`internal/repository/scheduledrun_repo.go`, `migrations/`) | tables `scheduled_run`, `notifications` | INSERT, cancel, find due, claim, retry, fail, notify | called by engine and API |
| appliance catalog (`appliance_repo.go`, `handlers_appliance.go`) | table `appliance` | create, find by name, delete with cascade | its cascade takes runs and notifications along |
| schedule and cron endpoints (`handlers_schedule.go`, `handlers_cron.go`) | none | create, cancel; one pass per tick | catalog, window pipeline, run repository, engine |
| calculate endpoints (`handlers_calculate.go`, `validate.go`) | none | one zone, several zones | catalog, race, pool, window algorithm |
| window algorithm (`internal/algorithm`) | none | `UpcomingSlots`, `FindOptimalWindow` | pure |
| provider race and worker pool (`internal/grid/race.go`) | channels, a map under a mutex, a context | `RaceProviders`, `FetchMultiZone` | providers |
| forecast cache (`internal/grid/cache.go`) | keys in Redis | `GetForecast` | shared by all instances |
| WattTime provider (`internal/grid/watttime.go`) | a token under a mutex | `authToken`, `GetForecast`, `hourlyAverage` | shared by all requests of a process |
| outbound limiter (`internal/grid/ratelimit.go`) | the limiter's next free slot | `GetForecast` | between the cache and each provider |
| write guard (`internal/httpapi/security.go`) | its configuration; counters in Redis, or a map under a mutex | `ConfigureSecurity`, `guardWrites`, `Allow` | shared by all requests |
| process (`cmd/server/main.go`) | the context that SIGTERM ends; the provider chain | start, `buildProviders`, shutdown | everything |

What makes it hard:

- **Concurrency.** A ticker, a cron endpoint and any number of instances run passes over the
  same rows; a pass fires all its runs in parallel; users cancel and delete in between.
- **Failure.** A process may die, its context may end, a statement may fail, or take effect
  and fail to say so, between any two statements of `fire`. A receiver may accept a POST and
  its answer be lost.
- **Time.** A claim is dated with the time of the tick on one instance's clock and its lease
  is judged by another's. Tokens, cached forecasts and rate-limit windows are judged by a
  clock that was read a while before they are used.
- **Stopping.** SIGTERM ends the context of the engine's loop at once; the exit waits for HTTP
  handlers, the cron endpoint's among them, and not for the loop. The process may be gone for
  longer than an abandoned claim is worth taking over.
- **Ordering.** SETs overtake each other, goroutines wait for mutexes, selects choose.

What makes each part correct: a claim has one owner, an outcome is final and is told once,
every run comes to an end (engine); a restart catches up (process); a name and a run mean one
appliance (catalog); the window is the cleanest there is and lies ahead (algorithm); an answer
is borne out by a call and an error by as many (race); each zip is fetched once and none is
lost (pool); a request is answered with the status that says whose fault it was (calculate);
nothing older than its TTL is served (cache); no expired token is sent and nobody waits for
ever (token); the limit holds for each client and minute (guard).

## The modules

| module | what it is |
|---|---|
| `RunRepository` | the tables and one operator per SQL statement; extended by `Scheduler` and `Catalog` |
| `Scheduler` | passes, goroutines, receiver, API calls and the environment |
| `RunContract` | what the service promises of a run, without passes, clocks or leases |
| `SchedulerContract` | the mapping from `Scheduler` to `RunContract` |
| `SchedulerLive` | `Scheduler` with the cadence of its polls and fairness |
| `Process` | `main`, `Engine.Run` and the cron endpoint over `Scheduler` |
| `Catalog` | appliances and the requests about them, statement by statement |
| `CarbonWindow`, `WindowCheck` | the window algorithm; its inputs and the reference |
| `ProviderRace` | `RaceProviders`, any number of races under one context |
| `MultiZone` | `FetchMultiZone`: the pool, each of whose workers runs a race |
| `Calculate` | `/calculate` and `/calculate/multi` over both |
| `ForecastCache`, `OutboundLimiter`, `WattTimeToken` | one cached forecast; the slots of outbound calls; the shared token and its mutex |
| `ProviderChain` | `buildProviders`: a request through cache, limiter, token and call, and back |
| `WriteLimiter` | `guardWrites` and both of its rate limiters |
| `MCScheduler`, `MCCatalog`, `MCLimiter` | symmetry and constants for TLC |
| `RepositoryProofs` | proofs about the statements, for the two modules that use them |
| `SchedulerProofs` | proofs about `Scheduler` and `Process`: owners of claims, the contract, outcomes, the catch-up pass |
| `CatalogProofs`, `CalculateProofs`, `ChainProofs`, `LimiterProofs`, `WindowProofs` | proofs about the other parts |
| `Loops` | lemmas about recursive functions that stand for loops |

Each module of the system contains a section "Slips": wrong forms of its definitions, each a
bug the code could plausibly have had. No specification uses them. `PROJECT.json` pairs each
property with a slip that breaks it, so that no property holds for want of trying.

### Runs and passes

A row of `scheduled_run` is a record of its columns that matter (`Row`); ids never come back,
so a row that is not there yet is "absent" and one the cascade took is "deleted". A statement
is one step, as PostgreSQL makes it, with one exception: `DELETE FROM appliance` evaluates
its `NOT EXISTS` in a snapshot and cascades later, and under READ COMMITTED an INSERT or an
UPDATE of a run may commit in between (`BeginDelete`, `FinishDelete`).

A pass (`Passes`) is one call of `dispatch`, whoever makes it. `Dispatch` reads the clock once
and spawns a goroutine for every run the query returned; in each, `pc` names the statement or
call that comes next:

    claim --> send --> notify                 (delivered)
                  \--> retry                  (MarkRetry, and back to 'pending')
                  \--> fail --> notify        (the last attempt: MarkFailed)
    claim --> notify                          (no webhook)

`live` is the context: once false, every further statement of that pass fails and the POST
does. `MaxFire` bounds how long a goroutine lives and `Skew` how far a clock is off; they are
parameters because the correctness of the lease rests on them.

The refinement maps a row and its notifications to the phase its owner sees: `pending` is
waiting; `fired` or `failed` without a notification is delivering; with one it is notified.
A retry, a takeover of an abandoned claim, a crash: each must show as a step of that simple
life cycle, or not at all.

### The catalog

`Catalog` extends `RunRepository` by what it leaves out: names, durations, the id sequence,
and the requests, each with the statement it is about to make. `POST /schedules` finds its
appliance, races the providers (any number of steps of others) and then INSERTs with the id,
the name and the window of what it found. The history variable `seen` records what was so
about a request's id while it lasted; answers are judged by it.

### The process

`Process` puts `main` around `Scheduler`. `phase` is whether the process is up, stopping (the
context of `NotifyContext` is done, and `Shutdown` waits) or down, `since` when that began,
and `loop` where `Engine.Run` is: at `e.tick`, in its `select`, in `e.wg.Wait()`, or gone.
`ticker` is the one tick that `ticker.C` can hold. The passes of the loop (`TickPasses`) run
under the context that `Sigterm` ends; those of the cron endpoint under a context of their
own, which neither SIGTERM nor `HangUp` touches and only its timeout ends. `Exit` comes when
no handler is left or `Grace` is over, whatever the loop is doing; `Die` is any other death;
`Boot` follows after one of `DownTimes`. The model's `select` may still take a tick when the
context is done, as Go's may; a query under a context that is done finds nothing. A `Request`
creates no run that begins before it, since `UpcomingSlots` drops the slots of the past.

### The grid side

`ProviderRace` has, for each race, a goroutine per provider, the buffered channel and the
racer; `expired` is the context they share. Its `select` is the free choice between `Receive`
and `Cancelled`. `MultiZone` adds the pool: an unbuffered channel (`Hand` is both ends of it),
workers that each hold a race in full, the map under its mutex, `close` and `wg.Wait`.
`Calculate` is the handler before and behind them: it parses, looks up the appliance, races by
itself or starts the pool, and turns what came back into a status and a comparison. What a
window emits on average, or that none fits, is chosen freely for each forecast that won, since
`CarbonWindow` says how it is computed.

`ProviderChain` puts one request after another through `Cached(RateLimited(base))`. A request
looks into the cache, reserves the limiter's next slot and waits for it, or is turned away at
once if its deadline is before the slot, or leaves when its context ends, which gives the slot
back; then it needs the token and its mutex, if the base is WattTime's, makes the call, reads
the clock and SETs. `Limiter`, `Cache` and `Token` are instances of the three modules over the
same variables; each step of the chain is one step of up to three of them. `ForecastCache` and
`WattTimeToken` separate reading a clock from acting on it, and so does `WriteLimiter`.

`CarbonWindow` counts time in half hours and carbon in integers; the sum of a window stands
for its average, whose rounding and formatting are left out. Its forecasts are what the three
providers make: the mock's from the next hour on, the first slots of Electricity Maps' body,
and WattTime's points made hourly, of which those whose time cannot be read are skipped. Loops
that add up are recursive functions of how far they are (`Slide`, `Bucket`).

### The write guard

`WriteLimiter` begins with a configuration of `ConfigureSecurity`: a proxy that is trusted or
not, listed origins, and a limiter in Redis, in memory or none. `Headers` is what can arrive
from a client: with a trusted proxy the headers are the proxy's, without one they are whatever
the client wrote. `SameSite`, `OriginListed` and `ClientIP` decide as the code does, and
`Allow` counts under the key they give.

## The runs

| run | module | instance | what it shows |
|---|---|---|---|
| `SchedulerFaults` | `MCScheduler` | one run, two passes, two faults of any kind, clocks off by one, lease 4, reclaim window 7, up to time 9 | a claim keeps one owner and the owner's knowledge of the row stays right (`Ownership`); one notification, final; a cancelled run is never delivered; attempts arrive in order; `delivered` is never claimed falsely; the budget is overdrawn only by faults; claims are apart by backoff or lease; `RunContract` is implemented |
| `SchedulerHealthy` | `SchedulerLive` | two runs, two passes, batches of one, no faults | status and notification agree, no failure is silent and no claim left behind, one delivery, and every run that is not cancelled or deleted is notified, though batches are smaller than what is due |
| `Process` | `Process` | one run, the loop and one cron call, one fault of any kind, one SIGTERM, pauses of 1 and 7 polls, lease 3, reclaim window 6 | every pending run comes to an end, or is forgotten, and that only by a pause; a cron pass outlives its caller and an orderly exit |
| `CatchUp` | `Process` | two runs that start at times 1 and 2, batches of one, the loop and one cron call, one SIGTERM, a pause of 3, no faults | what the catch-up pass leaves over comes behind a full batch, and nothing younger is taken up before it, by that pass or any later one |
| `ShutdownAbandons` | `Process` | one SIGTERM, no faults | **violated**: see the findings |
| `DeleteRace` | `MCScheduler` | no faults | **violated**: see the findings |
| `Catalog` | `MCCatalog` | two clients, one run, three ids, two names in two spellings, two durations | names are unique however spelt, a run keeps the appliance it was made for, and every answer was true at some time of its request |
| `Window` | `WindowCheck` | forecasts of three slots, cut from bodies of up to four, two points, readable or not, in each of four hours, every duration and time of day | the window is the cleanest block of as many slots as the duration needs, none of them in the past, and of those the first; refused only if nothing fits, which the mock never does to an appliance of a day; `hourlyAverage` is faithful |
| `Calculate` | `Calculate` | both endpoints, lists of up to three pieces of which at most two zips are allowed, two providers, pools of 2 and of a configured 0 | answers are borne out by the calls; each zip once, none lost; the greenest is; `/calculate` answers 503 exactly when no forecast was won, and 200 or 400 as the winner's own fits; every request is answered though providers hang; no goroutine of a race is left behind |
| `ProviderChain` | `ProviderChain` | two requests, both kinds of base, TTLs 0, 2 and 4 with hours of 3, tokens of 2 | no entry without expiry, none too old; a started slot is served only if the hour struck under way; no expired token is sent and good ones are not replaced; without a token, calls are throttled; every request ends |
| `LimiterBurst` | `ProviderChain` | the base with a token | **violated**: see the findings |
| `WriteLimiter` | `MCLimiter` | three requests, two clients, limit 1, every configuration | the limit holds for each client and minute, nobody pays for another, and of the writes with an origin none is turned away that should pass, nor the other way round |

**Bounds.** Every bound is a constant with the word *bound* behind it (`MaxTime`, `MaxFaults`,
`MaxFire`, `MaxDelay`, `MaxRaw`, ...). Time is scaled: what matters is the order of the
constants (backoff < lease < reclaim window; TTL below and above an hour; refresh + login +
send <= validity), and each instance keeps the order of the code's values. `SchedulerFaults`
ends late enough for a claim, its takeover and a retry behind it, and for the reclaim window
to close; two faults allow, for instance, a lost reply and then a crash under the takeover. Two
passes suffice for any race for a claim, whose row knows nothing of the others; the proofs
below are for any number. In the liveness runs no schedule is created after `LastCreate`, so
that the clock does not run out before the last possible retry. Symmetry is used for safety
only. In `Catalog`, three ids allow a seeded appliance and one that is deleted and created
again under the same name.

In `Process` the unit of time is a poll interval, and a fire, the grace of `Shutdown` and the
timeout of a cron pass are one each; a pause of 7 is longer than the reclaim window, one of 1
shorter than the lease. `CatchUp` drops the faults, since what a failing query leaves over is no
question of batches, and takes two runs and batches of one instead: more is due than one query
returns, in either order of the starts, while a cron call fires beside the loop. One fault and one SIGTERM give up to three lives. The clock stops when
no run is left to watch (`Watched`), and ends far behind the last event otherwise. In
`Calculate`, zips are numbered as they first appear, since no step depends on which is which;
two races, a repetition and one zip too many are within three pieces. In `ProviderChain`
timers fire on time and code that need not wait takes no time (`Advance`): only slots, calls,
the SET and a held mutex let time pass. It keeps
`Interval < Patience` (a request may wait for a slot, or find it too far) and
`Refresh + MaxLogin + MaxSend <= Validity`.

**Deadlock** is not checked (`CHECK_DEADLOCK FALSE`): every model stops at the end of its
clock or of its requests, as the program does when nobody calls. That nothing is stuck before
that is what the liveness properties say.

**Fairness.** *Scheduler*: a poll is made in every minute (the ticker, or the workflow that
calls the cron endpoint), goroutines are scheduled, time passes; nothing is assumed of faults,
users or answers of the receiver. *Process*: goroutines are scheduled, time passes, and a
process that is gone comes back; that a poll is made follows from the ticker. *Calculate*:
goroutines are scheduled, queries return, and the race's timeout passes; providers need never
answer. *Chain*: time passes and what can run runs, which ends calls by their timeouts; a context
need not end before its deadline. A mutex is weakly fair for each caller: with calls spaced by
the limiter a free one is not taken again and again by newcomers.

## What is proved

For all sets of runs, passes, instances, appliances, clients, providers and requests and all
values of the other constants, within the assumptions named `...Assumption` in the modules
(types, and the order of a few lengths of time), and where a row says so within one more:

| theorem | statement | needs |
|---|---|---|
| *engine* (`SchedulerProofs`) | | |
| `TypeCorrect` | rows, goroutines and inboxes are always well formed | |
| `OwnershipHolds` | the owner of a claim works on the row as its claim left it | lease |
| `SingleOwner`, `NotifiedOnce` | so a claim has one owner, and a run one notification | lease |
| `NotifiedStays`, `CancelledStays` | so an outcome is final, and what was cancelled in time is not delivered | lease |
| `PostsInOrder` | so the receiver sees rising attempt numbers | lease |
| `SchedulerImplementsContract` | so every behaviour of the scheduler is one of `RunContract` | lease |
| `ReportsAreTrue` | a notification of a delivery names an attempt the receiver accepted | |
| `BudgetKept` | a run is claimed at most `maxAttempts` times, and once more per fault | lease |
| `BackoffHolds` | claims of a run are a backoff or a lease apart | lease |
| `ClaimsAreSettled`, `StatusIsHonest` | a claimed run has an owner or a notification, with which its status agrees | lease, no faults |
| `AcceptedOnce` | a run is accepted at most once | lease, no faults, no lost answers |
| *process* (`SchedulerProofs`) | | |
| `OwnedOverLives` | over stops, deaths and restarts, too, a claim has one owner and a run one notification | lease |
| `CronPassesSurvive` | a cron pass is ended by its timeout, the grace period of an exit, or a death, and nothing else | |
| `CatchesUp` | the catch-up pass covers the untried runs that fell due while the process was down: what it leaves over comes behind a full batch and is not overtaken | one clock |
| *catalog* (`CatalogProofs`) | | |
| `NamesUnique`, `RunsKeepTheirAppliance` | a name means one appliance and a run keeps its own | |
| `AnswersAreTrue` | every answer was true at some time of its request | |
| *window* (`WindowProofs`) | | |
| `WindowIsCleanest` | the window is the first of the cleanest blocks that lie ahead | |
| `RefusalsAreRight` | a request is refused exactly when no block ahead is long enough | |
| `AveragesAreFaithful` | `hourlyAverage` invents no value and skips no hour | |
| *calculate* (`CalculateProofs`) | | |
| `AnswersAreJustified` | a race returns what its goroutines bear out | |
| `ZipsAreAnsweredOnce` | each zip of a list is answered once, by its own race | |
| `TheGreenestIsNamed` | `greenest` is the first zip whose window no other undercuts | |
| `BlameIsJust` | `/calculate` answers 503 exactly when no forecast was won, and else as the winner's fits | |
| *chain* (`ChainProofs`) | | |
| `TokensInUseAreValid`, `LoginsHappenOnExpiry` | no expired token is under way, no good one replaced | |
| `CachedForecastsAreFresh`, `StartedSlotsAreDropped` | nothing cached is too old, nor past its hour unless that struck under way | |
| `DirectCallsAreSpaced` | without a token, calls are an interval apart | |
| *write guard* (`LimiterProofs`) | | |
| `OnlyForeignPages` | writes of foreign pages are turned away and no others | |
| `NobodyPaysForAnother` | who is refused has used up the limit himself, in that minute | |
| `NoMoreThanTheLimit` | the limit holds | `CountedWithinMinute` |

*Lease* is `LeaseOutlastsFire` (`MaxFire + 2 * Skew < ClaimLease`): a fire is over before its
claim can be taken over. `claimLease` is five minutes, and its comment asks for "far longer
than one fire takes". *No faults* (`FaultKinds = {}`): statements succeed, processes live and
contexts do not end; the findings below say what happens otherwise. `CountedWithinMinute`
(`MaxDelay <= Minute`): a request reaches Redis at most a minute after it read the clock, or
the key of its minute may have expired and begin to count anew. *One clock* (`Skew = 0`):
a clock that is off could see a run due a little later than another does. That a pause lasts
(`DownTimes`, in `ProcessAssumption`) tells claims of one life of the process from those of the
one before.

**Owners.** That a claim has one owner is not inductive. A second pass may claim a row that
is `fired`, un-notified and older than the lease; that this pass is alone follows only from
what any owner knows: that `fired_at` is its tick's time, that the tick was within `Skew` of
its beginning, and that it began at most `MaxFire` ago. So `Ownership` says of every goroutine
that it is timely, and of every holder of a claim that the row's `firedAt`, `attemptCount`,
status and notifications are as it left them; with `LeaseOutlastsFire`, a claimer's clock
cannot be a lease past `firedAt` while the owner lives. The proof takes each action in turn: a
statement of a fire changes one row (`StepFrame`), so other rows keep `Owned` by a frame lemma;
the API changes only rows that nobody owns, or removes them; time only moves inside `Timely`.
`PostsInv` adds that posts carry numbers of earlier claims. The refinement then takes each
action to the contract step of the same name, or to a stutter, row by row.

**Outcomes.** Each theorem has an invariant of its own, all of the same make: what the row and
the inbox say, and what the goroutine that is between the two knows. For `DeliveredIsTrue` that
is the answer it holds, which no other step can take back, so that even overlapping owners
report truly and no lease is needed. For the budget it is that a row whose attempts are used up
is neither waiting nor abandoned, nor in the hands of a goroutine whose context is over
(`Budgeted`), but for attempts a fault has paid for. For the spacing it is that the row says when
it was claimed, and until when the backoff holds (`Dated`). Without faults, a claimed run is in someone's hands,
back in `pending`, or told of (`Told`), and an accepted one is never put back (`Once`).

**Process.** Every step of `Process` is one of the scheduler, a query that fails, or a stop that
takes goroutines or their contexts away (`ProcessSteps`), so what `Ownership` says survives it. A
call of the cron endpoint that is not firing has no goroutines (`CallsWait`), so `HandlersDone`
means that all its fires are over. `CatchUpInv` follows a life of the process: it begins with
nothing running (`Stopped`), and with no claim of its own time yet (`NotAhead`). As long as
nothing fails, its goroutines are live and their ticks lie in it (`OfThisLife`), and each has
its run in hand because this life has claimed it, or is about to and will not miss it
(`Reasoned`). So what is taken up stays so (`TakenStays`). A pass takes the oldest of what is
due, as many as one query returns (`DispatchFinds`), and a run that waits untried from before
this life is due at each (`WaitingIsDue`, since no retry waits for it, says `Tried`); hence it
is picked, or nothing younger has been taken up (`InOrder`). Until the catch-up pass the clock
stands still (`FirstTick`), and behind it such a run is picked, or a full batch of older ones has
been taken up or cancelled (`AllCovered`). Requests add none, as windows begin no earlier than
they are asked for.

**Catalog.** `CatalogInv` says that ids are given out once, so that what a request read of
a row before its race is still what that id means, or means nothing. `AnswersInv` ties each
answer, and each step on the way to it, to what was seen while the request lasted.

**Window.** `FindOptimalWindow` is related to sums of blocks through sums of prefixes:
`P[n]` is what the first `n` slots emit, a block is a difference of two of them
(`BlockIsDifference`), and behind each iteration the running sum is the block's and the minimum
the first of the least so far (`Kept`, `SlideOne`). A forecast in order is cut where the slots
ahead begin (`UpcomingIs`), so blocks of the rest are blocks of the whole (`BlockOfRest`). For
`hourlyAverage`, compare a bucket with any number `q`: when all its points lie on one side of
`q`, so does its sum of `q` times their number (`Tallied`); no value below all points, or above
them, can then be the quotient. These lemmas are about every ordered forecast and every list of
points, not only the ones the runs enumerate. A loop has values at all, and keeps what each
iteration keeps, by the least number at which that would fail (`Loops`).

**Calculate.** `RacesSound` accounts for every goroutine of a race: its result is in the
channel, or received, once, or yet to be sent; errors received are of as many providers, so
when as many have come as there are providers, each has failed. `RequestInv` follows the
list: zips are distinct and those named (`Listed`), a race was begun for none but those handed
out, each of which is with one worker or in the map (`HandedOut`), and the response says what
the races brought (`Replied`).

**Chain.** `TokenInv`: a call begins with a token that was issued less than
`MaxLogin + Refresh` ago, and takes `MaxSend`, which is why `Refresh + MaxLogin + MaxSend <=
Validity` is asked for; who logs in holds the mutex, and found the token over. `CacheInv`: an entry's TTL is
capped by the hour of some time between the making of its forecast and its SET, and a SET is
applied at most `MaxDelay` after the making. `ThrottleInv`: the slots people wait for are an
interval apart, and each, as well as the next to be given out, an interval from the last
request that was sent, whichever of them are given back.

**Write guard.** The counters are compared with tallies over the requests. That nobody is
refused too early: of the writes an entry counts, the first up to the limit have passed
(`RefusedInv`). That no more pass than the limit: an entry counts at least what has passed under
its key, and is there while anyone may still count for its minute, since EXPIRE gives it two
(`LimitInv`); but for minutes in which an INCR failed in Redis, or a window in memory was
dropped for another.

**Model-checked only.** The liveness properties (`EventuallyNotified`, `EventuallySettled`,
`EveryRequestAnswered`, `NoneLeftBehind`, `EveryRequestEnds`), which the prover does not handle;
and `ForgottenOnlyByPause`, see the plan.

## Findings

Each is shown by a run that TLC ends with a counterexample.

1. **Shutdown abandons fires** (`ShutdownAbandons`, `engine.go:79-90`, `main.go:106-114`). `Run`
   promises to wait for the tick in flight "so a fire in progress isn't abandoned
   mid-webhook", and it does wait; but the fire works under the same context, whose end cancels
   the POST and every statement behind it, and nobody waits for `Run`. The run stays `fired`
   with neither outcome nor notification until a later pass takes it over.
2. **Delete drops waiting runs** (`DeleteRace`, `appliance_repo.go:85-92`). The check that no run
   is pending and the cascade are not one step, so a run created in between is deleted
   silently, which the check is there to prevent.
3. **Throttled calls leave together** (`LimiterBurst`, `ratelimit.go:11-12`, `watttime.go:57`). The
   limiter spaces calls of `GetForecast`; WattTime's then wait for one mutex, which is held
   across a login, and are sent together when it is freed. For providers without a token
   the promise holds (`DirectCallsAreThrottled`).

Where a comment or the repository's README promises more than the code does, without a run of
its own (the model does what the code does, and the property named holds of that):

- *The catch-up pass covers "any run"* (`engine.go:77-79`, README 213-214; `CaughtUp`). The pass is one
  query of at most `batchLimit` (50) rows like every other. What is due beyond that is not lost:
  it waits for the ticks that follow, and is taken up oldest first.
- *"All endpoints [...] answer 503 (not 400) when every forecast provider is down"* (README 162-163;
  `BlameIsRight`). `/calculate` does, and `POST /schedules` goes through the same
  `writeWindowError`. `/calculate/multi` answers 200, with an error for each zip and `greenest` null
  (`handlers_calculate.go:138-161`).
- *The "contiguous block of hours"* (`slidingwindow.go:12`; `CleanestWindow`). Blocks are of slots, and
  an hour without readable points has none (`watttime.go:143-147`): a window that reaches over such
  an hour ends later than the appliance needs, and nothing is known of the hour in between.
  `HourlyIsFaithful` says that only such hours are skipped.
- *"The failure is never silent"* (`scheduledrun_repo.go:138-139`; `NoAbandonedClaim`, while statements
  succeed). `failed` is terminal and the notification a statement of its own: if that fails,
  or the process dies before it, the error is at most logged, and nothing tells of the failure.
  When it is `MarkFailed` that fails, the run is told of as not delivered, stays `fired`, and is not
  taken over again (`OneNotification`, `NotifiedIsFinal`, under faults).
- *"FiredLate is true when the process was down at StartTime"* (`webhook.go:19-20`, `engine.go:144`).
  It is true of every claim more than a poll after the start: of retries whose backoff is
  longer, of takeovers, and of late passes, in a process that was up all the time.

What holds only within limits, with the property that says so:

- *One owner* needs `LeaseOutlastsFire`, but `SCHEDULER_WEBHOOK_TIMEOUT` has no upper bound; with
  a timeout beyond five minutes a fire that still runs is taken over.
- *The delivery budget* (`AttemptBudget`): a takeover counts an attempt but is not refused at
  `maxAttempts`, so each crash can add one.
- *No run is forgotten* (`ForgottenOnlyByPause`): a process that is gone for longer than the reclaim
  window (24 h) leaves an abandoned claim `fired` for ever.
- *A day's appliance finds a window* (`RefusedOnlyIfTooLong`): with the mock. Forecasts of the other
  two begin with the current hour and are cut at 24 slots, so 23 are ahead.
- *A provider that answers* (`BlameIsRight`): an empty or short forecast that arrives first wins
  the race, and the request fails with 400, although another provider may have had a longer one.
- *Forecasts end at their hour* (`StartedSlotNeedsCrossing`): the TTL is computed after the
  fetch; if the hour strikes in between, a forecast of the old hour lives on in the new one.
- *The limit per minute* (`LimitHolds`): in memory, a request that waited for the mutex across the
  end of a minute replaces the new minute's count with its own.
- *Whichever provider succeeds first*: when the deadline passes, the race may be given up
  although a forecast lies in the channel (`AnswerJustified` allows it).
- *A 409 for DELETE* names waiting runs; for an id that is given out between the two
  queries there need never have been one (`AnswersWereTrue`).

## What is left out

- The address guard, routing, health, JSON, configuration and migrations: no state of their
  own, or a library's. The internals of Redis, PostgreSQL, `x/time/rate` and `net/http` are
  taken from how the code uses them.
- Of the providers: URLs, decoding, unit conversion, zip tables, the mock's numbers, and timestamps
  of Electricity Maps that cannot be read, which fail its call. A token the API revokes before its time is used until it expires, and the
  race falls back on other providers; no document says what should happen.
- The dashboard, a client of the API.
- Wording, logging, formatting, rounding and floating point.

## Plan

What is left is the proof of `ForgottenOnlyByPause`. Half of it is within reach of `Tried` and
`Timely`: a claim too old for the reclaim window stays so, since clocks do not go back. The
other half needs an account of ticks: in a process that has been up for long enough, a claim
that is abandoned is found by some tick between its lease and its reclaim window, which takes
bounds that relate the two to `PollInterval` and `MaxFire`, and counts the ticks lost to faults.
