----------------------------- MODULE Scheduler -----------------------------
(***************************************************************************)
(* The scheduler engine (internal/scheduler) over the tables of            *)
(* RunRepository: passes that look for due runs, one goroutine per run     *)
(* found, the webhook receiver, API calls that race with them, and an      *)
(* environment that lets time pass, kills processes, cancels contexts and  *)
(* fails statements.                                                       *)
(*                                                                         *)
(* A pass is one call of dispatch, whoever makes it: the ticker of Run, a  *)
(* RunOnce behind the cron endpoint, another instance on the same          *)
(* database.  Passes overlap freely.  Times are in minutes.                *)
(***************************************************************************)
EXTENDS RunRepository, Sequences

CONSTANTS
    Passes,       \* dispatches whose goroutines may be alive together
    MaxAttempts,  \* Engine.maxAttempts
    DefaultHook,  \* Engine.defaultWebhookURL is set
    Minute,       \* time.Minute
    StartTimes,   \* window starts the API may compute
    MaxFire,      \* bound: how long after the pass began its goroutines live
    Skew,         \* bound: how far a process's clock is from true time
    Outcomes,     \* what may come of a POST: "ok", "refused", "lost"
    FaultKinds,   \* "crash", "cancel", "dberror", "lostreply"
    MaxFaults,    \* bound on the number of faults
    MaxTime       \* bound on the clock

ASSUME SchedulerAssumption ==
    /\ MaxAttempts \in Nat \ {0}
    /\ DefaultHook \in BOOLEAN
    /\ Minute \in Nat \ {0}
    /\ StartTimes \subseteq Nat
    /\ MaxFire \in Nat /\ Skew \in Nat
    /\ MaxFaults \in Nat /\ MaxTime \in Nat

VARIABLES
    fire,    \* fire[p][r]: the goroutine of pass p that fires run r
    inbox,   \* inbox[r]: attempt numbers the receiver accepted, in order
    now,     \* true time
    faults   \* faults so far

vars == <<runs, notifications, appliances, deleting, fire, inbox, now, faults>>
-----------------------------------------------------------------------------
(* Goroutines: the next statement, and the locals that are still needed.   *)
(* "live" is false once the context passed to the engine is done.          *)

Goroutine ==
    [pc : {"idle", "claim", "send", "retry", "fail", "notify"},
     began : Int, tickTime : Int, live : BOOLEAN,
     attempt : Nat, next : Int, delivered : BOOLEAN]

Idle == [pc |-> "idle", began |-> 0, tickTime |-> 0, live |-> FALSE,
         attempt |-> 0, next |-> 0, delivered |-> FALSE]

Active(p, r) == fire[p][r].pc # "idle"

\* The claim of r has been won by this goroutine, and not yet given up.
Holds(p, r) == fire[p][r].pc \in {"send", "retry", "fail", "notify"}

Held(r) == \E p \in Passes : Holds(p, r)

Init ==
    /\ RepoInit
    /\ fire = [p \in Passes |-> [r \in Runs |-> Idle]]
    /\ inbox = [r \in Runs |-> <<>>]
    /\ now = 0
    /\ faults = 0

TypeOK ==
    /\ RepoTypeOK
    /\ fire \in [Passes -> [Runs -> Goroutine]]
    /\ inbox \in [Runs -> Seq(Nat)]
    /\ now \in Nat
    /\ faults \in Nat
-----------------------------------------------------------------------------
(* Helpers. *)

\* time.Now() on some instance.
Clock == (now - Skew) .. (now + Skew)

\* 1m, 2m, 4m, ... capped at an hour.
RetryDelay(attempt) ==
    IF attempt >= 7 THEN 60 * Minute
    ELSE CASE attempt = 1 -> Minute
           [] attempt = 2 -> 2 * Minute
           [] attempt = 3 -> 4 * Minute
           [] attempt = 4 -> 8 * Minute
           [] attempt = 5 -> 16 * Minute
           [] OTHER       -> 32 * Minute

Fault(kind) ==
    /\ kind \in FaultKinds
    /\ faults < MaxFaults
    /\ faults' = faults + 1

\* A statement of goroutine g reaches the database.
Succeeds(g) == g.live /\ UNCHANGED faults

\* It does not: its context is done, or the database is away.
Fails(g) == IF g.live THEN Fault("dberror") ELSE UNCHANGED faults

\* "go e.fire(ctx, run, now)" in a pass whose clock reads t.
Spawned(t) == [pc |-> "claim", began |-> now, tickTime |-> t, live |-> TRUE,
               attempt |-> 0, next |-> 0, delivered |-> FALSE]

Set(p, r, g) == fire' = [fire EXCEPT ![p][r] = g]
Return(p, r) == Set(p, r, Idle)
-----------------------------------------------------------------------------
(* Slips: wrong forms of actions below, in no specification.               *)

\* One attempt too many: "attempt <= e.maxAttempts".
NotDeliveredLate(p, r) ==
    LET g == fire[p][r]
    IN  /\ g.pc = "send"
        /\ UNCHANGED inbox
        /\ IF g.attempt <= MaxAttempts
           THEN Set(p, r, [g EXCEPT !.pc = "retry", !.next = now + RetryDelay(g.attempt)])
           ELSE Set(p, r, [g EXCEPT !.pc = "fail"])
        /\ UNCHANGED <<runs, notifications, appliances, deleting, now, faults>>

\* The status code of the answer is not looked at.
NotDeliveredUnseen(p, r) ==
    LET g == fire[p][r]
    IN  /\ g.pc = "send" /\ g.live
        /\ UNCHANGED inbox
        /\ Set(p, r, [g EXCEPT !.pc = "notify", !.delivered = TRUE])
        /\ UNCHANGED <<runs, notifications, appliances, deleting, now, faults>>

\* A return after MarkFailed.
GiveUpSilently(p, r) ==
    LET g == fire[p][r]
    IN  /\ g.pc = "fail"
        /\ \/ Succeeds(g) /\ MarkFailed(r)
           \/ Fails(g) /\ UNCHANGED repoVars
        /\ Return(p, r)
        /\ UNCHANGED <<inbox, now>>
-----------------------------------------------------------------------------
(* The API, running beside the engine. *)

CreateSchedule(r) ==
    /\ \E a \in Appliances, s \in StartTimes, h \in BOOLEAN : Create(r, a, s, h)
    /\ UNCHANGED <<fire, inbox, now, faults>>

CancelSchedule(r) == Cancel(r) /\ UNCHANGED <<fire, inbox, now, faults>>

DeleteAppliance(a) ==
    /\ BeginDelete(a) \/ FinishDelete(a)
    /\ UNCHANGED <<fire, inbox, now, faults>>
-----------------------------------------------------------------------------
(* The engine. *)

\* dispatch: one clock reading and one query, then a goroutine per run found.
\* A query that fails or finds nothing changes nothing.
Dispatch(p) ==
    /\ \A r \in Runs : ~Active(p, r)
    /\ \E t \in Clock : \E batch \in FindDuePending(t) \ {{}} :
         fire' = [fire EXCEPT ![p] =
                    [r \in Runs |-> IF r \in batch THEN Spawned(t) ELSE Idle]]
    /\ UNCHANGED <<runs, notifications, appliances, deleting, inbox, now, faults>>

\* The claim is won: deliver if there is somewhere to deliver to.
Claim(p, r) ==
    LET g == fire[p][r]
        hook == runs[r].hook \/ DefaultHook
    IN  /\ g.pc = "claim"
        /\ Succeeds(g)
        /\ ClaimForFiring(r, g.tickTime)
        /\ Set(p, r, [g EXCEPT !.pc = IF hook THEN "send" ELSE "notify",
                               !.attempt = runs[r].attemptCount + 1])
        /\ UNCHANGED <<inbox, now>>

\* Another pass was faster (ErrNotFound), or the statement failed.
ClaimMissed(p, r) ==
    LET g == fire[p][r]
    IN  /\ g.pc = "claim"
        /\ \/ Succeeds(g) /\ ~Claimable(r, g.tickTime)
           \/ Fails(g)
        /\ Return(p, r)
        /\ UNCHANGED <<runs, notifications, appliances, deleting, inbox, now>>

\* The claim commits, but the goroutine is told it failed.
ClaimReplyLost(p, r) ==
    LET g == fire[p][r]
    IN  /\ g.pc = "claim" /\ g.live
        /\ Fault("lostreply")
        /\ ClaimForFiring(r, g.tickTime)
        /\ Return(p, r)
        /\ UNCHANGED <<inbox, now>>

\* The receiver accepts the payload and answers below 300.
Delivered(p, r) ==
    LET g == fire[p][r]
    IN  /\ g.pc = "send" /\ g.live /\ "ok" \in Outcomes
        /\ inbox' = [inbox EXCEPT ![r] = Append(@, g.attempt)]
        /\ Set(p, r, [g EXCEPT !.pc = "notify", !.delivered = TRUE])
        /\ UNCHANGED <<runs, notifications, appliances, deleting, now, faults>>

\* dispatchWebhook returns an error: try again later, or give up.  The receiver
\* refused or was never reached; or it accepted, and the answer did not arrive
\* before the timeout or the end of the context.
NotDelivered(p, r) ==
    LET g == fire[p][r]
    IN  /\ g.pc = "send"
        /\ \/ ("refused" \in Outcomes \/ ~g.live) /\ UNCHANGED inbox
           \/ /\ "lost" \in Outcomes \/ ~g.live
              /\ inbox' = [inbox EXCEPT ![r] = Append(@, g.attempt)]
        /\ IF g.attempt < MaxAttempts
           THEN \E t \in Clock :
                  Set(p, r, [g EXCEPT !.pc = "retry",
                                      !.next = t + RetryDelay(g.attempt)])
           ELSE Set(p, r, [g EXCEPT !.pc = "fail"])
        /\ UNCHANGED <<runs, notifications, appliances, deleting, now, faults>>

\* MarkRetry; the goroutine returns whether or not it worked.
ScheduleRetry(p, r) ==
    LET g == fire[p][r]
    IN  /\ g.pc = "retry"
        /\ \/ Succeeds(g) /\ MarkRetry(r, g.next)
           \/ Fails(g) /\ UNCHANGED repoVars
        /\ Return(p, r)
        /\ UNCHANGED <<inbox, now>>

\* MarkFailed; the goroutine goes on to notify whether or not it worked.
GiveUp(p, r) ==
    LET g == fire[p][r]
    IN  /\ g.pc = "fail"
        /\ \/ Succeeds(g) /\ MarkFailed(r)
           \/ Fails(g) /\ UNCHANGED repoVars
        /\ Set(p, r, [g EXCEPT !.pc = "notify"])
        /\ UNCHANGED <<inbox, now>>

Notify(p, r) ==
    LET g == fire[p][r]
    IN  /\ g.pc = "notify"
        /\ \/ /\ Succeeds(g)
              /\ CreateNotification(r, [attempt |-> g.attempt, delivered |-> g.delivered])
           \/ Fails(g) /\ UNCHANGED repoVars
        /\ Return(p, r)
        /\ UNCHANGED <<inbox, now>>
-----------------------------------------------------------------------------
(* The environment. *)

\* A goroutine does not outlive MaxFire.
Advance ==
    /\ now < MaxTime
    /\ \A p \in Passes, r \in Runs : Active(p, r) => now < fire[p][r].began + MaxFire
    /\ now' = now + 1
    /\ UNCHANGED <<runs, notifications, appliances, deleting, fire, inbox, faults>>

\* The process dies, or the platform cuts the function off.
Crash(p) ==
    /\ \E r \in Runs : Active(p, r)
    /\ Fault("crash")
    /\ fire' = [fire EXCEPT ![p] = [r \in Runs |-> Idle]]
    /\ UNCHANGED <<runs, notifications, appliances, deleting, inbox, now>>

\* SIGTERM cancels the context of Run; 60 s end the context of a cron pass.
CancelContext(p) ==
    /\ \E r \in Runs : fire[p][r].live
    /\ Fault("cancel")
    /\ fire' = [fire EXCEPT ![p] = [r \in Runs |-> [fire[p][r] EXCEPT !.live = FALSE]]]
    /\ UNCHANGED <<runs, notifications, appliances, deleting, inbox, now>>
-----------------------------------------------------------------------------
Step(p, r) ==
    \/ Claim(p, r) \/ ClaimMissed(p, r) \/ ClaimReplyLost(p, r)
    \/ Delivered(p, r) \/ NotDelivered(p, r)
    \/ ScheduleRetry(p, r) \/ GiveUp(p, r) \/ Notify(p, r)

Next ==
    \/ \E r \in Runs : CreateSchedule(r) \/ CancelSchedule(r)
    \/ \E a \in Appliances : DeleteAppliance(a)
    \/ \E p \in Passes : Dispatch(p) \/ Crash(p) \/ CancelContext(p)
    \/ \E p \in Passes, r \in Runs : Step(p, r)
    \/ Advance

Spec == Init /\ [][Next]_vars
-----------------------------------------------------------------------------
(* What must hold of every run, whatever fails, as long as a fire cannot   *)
(* outlast the lease on its claim (claimLease: "far longer than one fire   *)
(* takes").                                                                *)

LeaseOutlastsFire == MaxFire + 2 * Skew < ClaimLease

\* A claim has one owner: however passes, instances and reclaims interleave,
\* no two goroutines are between claiming a run and letting go of it
\* (ClaimForFiring's compare-and-swap, and the lease on an abandoned claim).
AtMostOneHolder ==
    \A r \in Runs, p, q \in Passes : Holds(p, r) /\ Holds(q, r) => p = q

\* A run is notified at most once, with one outcome: the reclaim of an abandoned
\* claim never adds a second row beside the one its first owner wrote.
OneNotification == \A r \in Runs : \A m, n \in notifications[r] : m = n

\* The notification is the end: once it is written no late MarkRetry, MarkFailed
\* or claim touches the run again.  Only the cascade of a DELETE removes it.
NotifiedIsFinal ==
    [][\A r \in Runs : notifications[r] # {} =>
          runs'[r] = runs[r] \/ runs'[r].status = "deleted"]_vars

\* A cancelled run stays cancelled and is never delivered afterwards: Cancel and
\* ClaimForFiring cannot both win, and no goroutine of an earlier attempt is
\* still about to post or to write the row.
CancelIsFinal ==
    [][\A r \in Runs : runs[r].status = "cancelled" =>
          /\ runs'[r].status \in {"cancelled", "deleted"}
          /\ inbox'[r] = inbox[r]]_vars

\* The receiver sees the attempts of a run in increasing order and never the same
\* number twice ("Attempt numbers deliveries of the same run (1, 2, ...)").
AttemptsInOrder ==
    \A r \in Runs : \A i, j \in DOMAIN inbox[r] : i < j => inbox[r][i] < inbox[r][j]

\* delivered_webhook is never claimed falsely: the attempt the notification is
\* about is one the receiver accepted.
DeliveredIsTrue ==
    \A r \in Runs : \A note \in notifications[r] :
        note.delivered => note.attempt \in {inbox[r][i] : i \in DOMAIN inbox[r]}

\* A run is claimed at most maxAttempts times and once more for every fault: the
\* reclaim of an abandoned claim is the only way past the delivery budget.
AttemptBudget == \A r \in Runs : runs[r].attemptCount <= MaxAttempts + faults

\* Two claims of a run are apart by the backoff after the first, or by the lease
\* when the first was abandoned, whichever clocks the claimers read.
ClaimsAreSpaced ==
    [][\A r \in Runs :
          runs'[r].attemptCount # runs[r].attemptCount /\ runs[r].attemptCount > 0 =>
            \/ runs'[r].firedAt >= runs[r].firedAt + ClaimLease
            \/ runs'[r].firedAt >= runs[r].firedAt
                                     + RetryDelay(runs[r].attemptCount) - 2 * Skew]_vars

(* The invariant behind these: what the owner of a claim knows.            *)

\* A goroutine is no older than MaxFire, and its tick was close to true time.
Timely(p, r) ==
    LET g == fire[p][r]
    IN  Active(p, r) =>
          /\ g.began <= now /\ now <= g.began + MaxFire
          /\ g.began - Skew <= g.tickTime /\ g.tickTime <= g.began + Skew

\* The row is as the owner's claim (and nobody since) wrote it, or gone.
KnowsRow(p, r) ==
    LET g == fire[p][r]
    IN  /\ runs[r].firedAt = g.tickTime
        /\ runs[r].attemptCount = g.attempt
        /\ notifications[r] = {}
        /\ \/ runs[r].status \in {"fired", "deleted"}
           \/ runs[r].status = "failed" /\ g.pc = "notify"

Owned(r) ==
    /\ \A p \in Passes : Holds(p, r) => KnowsRow(p, r)
    /\ \A p, q \in Passes : Holds(p, r) /\ Holds(q, r) => p = q
    /\ notifications[r] # {} => runs[r].status \in {"fired", "failed"} /\ ~Held(r)
    /\ \A m, n \in notifications[r] : m = n

\* From its claim to its last statement, a goroutine works on a row no other
\* goroutine and no API call has changed, except by deleting it.
Ownership ==
    /\ \A p \in Passes, r \in Runs : Timely(p, r)
    /\ \A r \in Runs : Owned(r)

\* The posts of a run so far carry the numbers of earlier claims.
PostsAreOld(r) ==
    /\ runs[r].status = "absent" => runs[r].attemptCount = 0
    /\ \A i \in DOMAIN inbox[r] :
         /\ inbox[r][i] <= runs[r].attemptCount
         /\ \A p \in Passes :
              fire[p][r].pc = "send" => inbox[r][i] < runs[r].attemptCount

(* What must hold as well while nothing fails but the receiver.            *)

\* A claimed run is either being fired or has been notified, and a run that failed
\* is told about, unless its owner is just about to.
NoAbandonedClaim ==
    \A r \in Runs :
        runs[r].status \in {"fired", "failed"} => notifications[r] # {} \/ Held(r)

\* A run with a webhook that ended as 'fired' was delivered: 'failed' is what
\* the others say.
StatusTellsOutcome ==
    \A r \in Runs : \A note \in notifications[r] :
        runs[r].hook \/ DefaultHook => (runs[r].status = "fired") = note.delivered

\* The receiver accepts a run once.
DeliveredOnce == \A r \in Runs : Len(inbox[r]) <= 1

\* Deleting an appliance never takes a run that is waiting to fire with it.
PendingNeverDropped ==
    [][\A r \in Runs : runs[r].status = "pending" => runs'[r].status # "deleted"]_vars
=============================================================================
