------------------------------ MODULE Process ------------------------------
(***************************************************************************)
(* The server process (cmd/server/main.go) over its lives: boot, the loop  *)
(* of Engine.Run with its ticker, the cron endpoint beside it, SIGTERM,    *)
(* and an exit that waits for HTTP handlers but not for the loop.  What    *)
(* a pass does is that of Scheduler.                                       *)
(***************************************************************************)
EXTENDS Scheduler

CONSTANTS
    TickPasses,        \* passes of Run's loop; the others are made by RunOnce
    SchedulerEnabled,  \* SCHEDULER_ENABLED
    PollInterval,      \* SCHEDULER_POLL_INTERVAL
    Grace,             \* how long main waits in Shutdown
    CronTimeout,       \* cronTickTimeout
    DownTimes,         \* how long a process may be gone
    MaxStops,          \* bound on the number of SIGTERMs
    LastCreate         \* bound: no schedule is created later, so that the
                       \* clock does not run out on one

ASSUME ProcessAssumption ==
    /\ TickPasses \subseteq Passes
    /\ SchedulerEnabled \in BOOLEAN
    /\ PollInterval \in Nat \ {0}
    /\ {Grace, CronTimeout, MaxStops, LastCreate} \subseteq Nat
    /\ DownTimes \subseteq Nat \ {0} /\ DownTimes # {}

VARIABLES
    phase,  \* "up", "stopping" once the context of main is done, or "down"
    since,  \* when the phase began
    loop,   \* Run: about to "tick", in "select", in "drain", or "off"
    ticker, \* there is a tick in ticker.C
    call,   \* requests of the cron endpoint, by the pass each of them makes
    stops   \* SIGTERMs so far

processVars == <<phase, since, loop, ticker, call, stops>>
allVars == <<vars, processVars>>

CronPasses == Passes \ TickPasses

Call == [pc : {"none", "accepted", "firing"}, at : Nat]
NoCall == [pc |-> "none", at |-> 0]

Free(p) == \A r \in Runs : ~Active(p, r)

\* A query that finds nothing, or fails; the pass returns 0.
FindsNothing(live) ==
    \/ live /\ (\A r \in Runs : ~Claimable(r, now)) /\ UNCHANGED faults
    \/ live /\ Fault("dberror")
    \/ ~live /\ UNCHANGED faults

-----------------------------------------------------------------------------
(* Slips: wrong forms of definitions here, used by none of them.           *)

\* No pass before the first tick.
StartWithTicker == IF SchedulerEnabled THEN "select" ELSE "off"

\* "return" where the query fails, which ends the loop with the pass.
TickOrReturn ==
    /\ loop = "tick"
    /\ \/ phase = "up" /\ loop' = "select" /\ \E p \in TickPasses : Dispatch(p)
       \/ /\ FindsNothing(phase = "up")
          /\ loop' = IF faults' = faults THEN "select" ELSE "off"
          /\ UNCHANGED <<runs, notifications, appliances, deleting, fire, inbox, now>>
    /\ UNCHANGED <<phase, since, ticker, call, stops>>

\* The request's context handed on to the pass.
HangUpCancels(c) ==
    /\ call[c].pc # "none"
    /\ fire' = [fire EXCEPT ![c] = [r \in Runs |-> [@[r] EXCEPT !.live = FALSE]]]
    /\ UNCHANGED <<runs, notifications, appliances, deleting, inbox, now, faults>>
    /\ UNCHANGED processVars
-----------------------------------------------------------------------------
StartLoop == IF SchedulerEnabled THEN "tick" ELSE "off"

ProcessInit ==
    /\ Init
    /\ phase = "up" /\ since = 0
    /\ loop = StartLoop
    /\ ticker = FALSE
    /\ call = [c \in CronPasses |-> NoCall]
    /\ stops = 0
-----------------------------------------------------------------------------
(* Engine.Run. *)

\* e.tick(ctx): the catch-up pass at the start, and one for every tick.
Tick ==
    /\ loop = "tick" /\ loop' = "select"
    /\ \/ phase = "up" /\ \E p \in TickPasses : Dispatch(p)
       \/ /\ FindsNothing(phase = "up")
          /\ UNCHANGED <<runs, notifications, appliances, deleting, fire, inbox, now>>
    /\ UNCHANGED <<phase, since, ticker, call, stops>>

\* case <-ticker.C, which select may choose although the context is done.
ReceiveTick ==
    /\ loop = "select" /\ ticker
    /\ loop' = "tick" /\ ticker' = FALSE
    /\ UNCHANGED <<vars, phase, since, call, stops>>

\* case <-ctx.Done(), and wg.Wait() until the last fire of a tick is over.
Drain ==
    /\ loop = "select" /\ phase = "stopping"
    /\ loop' = "drain"
    /\ UNCHANGED <<vars, phase, since, ticker, call, stops>>

RunReturns ==
    /\ loop = "drain" /\ \A p \in TickPasses : Free(p)
    /\ loop' = "off"
    /\ UNCHANGED <<vars, phase, since, ticker, call, stops>>
-----------------------------------------------------------------------------
(* The cron endpoint. *)

CronCall(c) ==
    /\ phase = "up" /\ call[c].pc = "none"
    /\ call' = [call EXCEPT ![c] = [pc |-> "accepted", at |-> now]]
    /\ UNCHANGED <<vars, phase, since, loop, ticker, stops>>

InTime(c) == now < call[c].at + CronTimeout

\* RunOnce, even in a process that is about to stop: its context knows neither
\* of the caller nor of SIGTERM.
CronPass(c) ==
    /\ call[c].pc = "accepted"
    /\ \/ InTime(c) /\ Dispatch(c) /\ call' = [call EXCEPT ![c].pc = "firing"]
       \/ /\ FindsNothing(InTime(c))
          /\ call' = [call EXCEPT ![c] = NoCall]
          /\ UNCHANGED <<runs, notifications, appliances, deleting, fire, inbox, now>>
    /\ UNCHANGED <<phase, since, loop, ticker, stops>>

\* wg.Wait() of RunOnce, and the answer.
CronReply(c) ==
    /\ call[c].pc = "firing" /\ Free(c)
    /\ call' = [call EXCEPT ![c] = NoCall]
    /\ UNCHANGED <<vars, phase, since, loop, ticker, stops>>

\* A pass this slow counts as a fault.
CronTimesOut(c) ==
    /\ call[c].pc = "firing" /\ ~InTime(c)
    /\ CancelContext(c)
    /\ UNCHANGED processVars

\* The caller hangs up, which ends the request's own context: WithoutCancel keeps
\* that from the pass, and the handler from returning before its fires.
HangUp(c) == call[c].pc # "none" /\ UNCHANGED allVars
-----------------------------------------------------------------------------
(* main. *)

\* Connect, migrate (either of them failing is a longer pause), wire, and serve.
Boot ==
    /\ phase = "down" /\ now - since \in DownTimes
    /\ phase' = "up" /\ since' = now
    /\ loop' = StartLoop
    /\ UNCHANGED <<vars, ticker, call, stops>>

\* The signal's context is that of Run, of its statements and of its webhooks.
Sigterm ==
    /\ phase = "up" /\ stops < MaxStops
    /\ phase' = "stopping" /\ since' = now
    /\ stops' = stops + 1
    /\ fire' = [p \in Passes |-> [r \in Runs |->
                  [fire[p][r] EXCEPT !.live = @ /\ p \notin TickPasses]]]
    /\ UNCHANGED <<runs, notifications, appliances, deleting, inbox, now, faults>>
    /\ UNCHANGED <<loop, ticker, call>>

Gone ==
    /\ phase' = "down" /\ since' = now
    /\ loop' = "off" /\ ticker' = FALSE
    /\ call' = [c \in CronPasses |-> NoCall]
    /\ fire' = [p \in Passes |-> [r \in Runs |-> Idle]]
    /\ UNCHANGED <<runs, notifications, appliances, deleting, inbox, now, stops>>

\* Shutdown waits for the handlers or for its own timeout, and main returns.
HandlersDone == \A c \in CronPasses : call[c].pc = "none"

Exit ==
    /\ phase = "stopping"
    /\ HandlersDone \/ now >= since + Grace
    /\ Gone
    /\ UNCHANGED faults

\* Killed, out of memory, or log.Fatalf in the goroutine that listens.
Die == phase # "down" /\ Fault("crash") /\ Gone
-----------------------------------------------------------------------------
(* Requests, fires and time. *)

\* A window never begins before it is asked for (UpcomingSlots).
Request ==
    /\ phase # "down"
    /\ \E r \in Runs :
         \/ /\ now <= LastCreate
            /\ \E a \in Appliances, s \in StartTimes : s >= now /\ Create(r, a, s, TRUE)
         \/ Cancel(r)
    /\ UNCHANGED <<fire, inbox, now, faults, processVars>>

Fires(p, r) == Step(p, r) /\ UNCHANGED processVars

Settled(r) ==
    \/ runs[r].status \in {"cancelled", "deleted", "failed"}
    \/ notifications[r] # {}

\* An abandoned claim that is too old for reclaimWindow, and that no pass found
\* while it was not.
Forgotten(r) ==
    /\ runs[r].status = "fired" /\ notifications[r] = {}
    /\ \A p \in Passes : ~Active(p, r)
    /\ runs[r].firedAt <= now - ReclaimWindow

\* Bound: the clock stops when every run has come to its end, or will not begin.
Watched(r) ==
    CASE runs[r].status = "absent" -> now <= LastCreate
      [] Forgotten(r) -> now <= runs[r].firedAt + ReclaimWindow + PollInterval
      [] OTHER -> ~Settled(r)

\* Ticks are taken up and calls are answered at once, as far as these clocks can
\* tell.
Prompt ==
    /\ loop # "tick" /\ ~(loop = "select" /\ ticker)
    /\ \A c \in CronPasses : /\ call[c].pc = "accepted" => InTime(c)
                            /\ call[c].pc = "firing" => ~Free(c)
    /\ phase = "stopping" => now < since + Grace
    /\ phase = "down" => \E d \in DownTimes : now < since + d

PassTime ==
    /\ (\E r \in Runs : Watched(r)) /\ Prompt /\ Advance
    /\ ticker' = (loop = "select" /\ (now' - since) % PollInterval = 0)
    /\ UNCHANGED <<phase, since, loop, call, stops>>

ProcessNext ==
    \/ Tick \/ ReceiveTick \/ Drain \/ RunReturns
    \/ \E c \in CronPasses : \/ CronCall(c) \/ CronPass(c) \/ CronReply(c)
                             \/ CronTimesOut(c) \/ HangUp(c)
    \/ Boot \/ Sigterm \/ Exit \/ Die
    \/ Request \/ PassTime
    \/ \E p \in Passes, r \in Runs : Fires(p, r)

\* Goroutines are scheduled, time passes, and a process that is gone comes back.
\* Nothing is assumed of callers, faults, signals or answers of the receiver.
ProcessFairness ==
    /\ WF_allVars(Tick) /\ WF_allVars(ReceiveTick)
    /\ \A c \in CronPasses : WF_allVars(CronPass(c)) /\ WF_allVars(CronReply(c))
    /\ WF_allVars(Exit) /\ WF_allVars(Boot) /\ WF_allVars(PassTime)
    /\ \A p \in Passes, r \in Runs : WF_allVars(Fires(p, r))

ProcessSpec == ProcessInit /\ [][ProcessNext]_allVars /\ ProcessFairness
-----------------------------------------------------------------------------
\* Every scheduled run comes to an end: whatever statement fails, reply is lost,
\* and however the process is stopped or dies, its catch-up pass and its ticks
\* retry it or take over its abandoned claim, until it is notified, failed or
\* cancelled; or the process was gone for so long that it is forgotten.
EventuallySettled ==
    \A r \in Runs : runs[r].status = "pending" ~> Settled(r) \/ Forgotten(r)

\* Only a pause brings reclaimWindow into play: no claim is forgotten under a
\* process that has been up for as long as a poll and its fires take, or as often
\* as long as statements failed; and what was forgotten is never resurrected.
ForgottenOnlyByPause ==
    [][\A r \in Runs :
          /\ Forgotten(r)' /\ ~Forgotten(r) =>
               phase # "up" \/ now' - since <= (1 + faults) * (PollInterval + MaxFire)
          /\ Forgotten(r) => Forgotten(r)' \/ runs'[r].status = "deleted"]_allVars

\* A pass behind the cron endpoint is not abandoned: hanging up does not end its
\* context, and an orderly exit waits for its fires as long as Shutdown may.
CronPassSurvives ==
    [][\A c \in CronPasses, r \in Runs :
          /\ fire[c][r].live /\ Active(c, r)' /\ ~fire'[c][r].live =>
               now >= call[c].at + CronTimeout
          /\ phase = "stopping" /\ phase' = "down" /\ Active(c, r) =>
               now >= since + Grace \/ faults' # faults]_allVars

\* An untried run from before this life of the process that no pass has in hand.
LeftOver(r) ==
    /\ runs[r].status = "pending" /\ runs[r].attemptCount = 0
    /\ runs[r].startTime < since
    /\ \A p \in Passes : ~Active(p, r)

\* A run that this life has in hand or has claimed, whatever became of it since.
TakenUp(r) ==
    \/ \E p \in Passes : Active(p, r)
    \/ runs[r].status # "absent" /\ runs[r].firedAt # NULL /\ runs[r].firedAt >= since

\* The catch-up pass covers what fell due while the process was down, "any run" of it
\* as far as one query goes (batchLimit): if it leaves an untried run over, then it was a full batch of runs
\* that start no later (of which some may have been cancelled under its nose), and
\* nobody has taken up one that starts later: neither that pass, nor the ticks and
\* cron calls since (unless a statement failed).
CaughtUp ==
    phase = "up" /\ SchedulerEnabled /\ now > since /\ faults = 0 =>
      \A r \in Runs : LeftOver(r) =>
         /\ \E batch \in SUBSET Runs :
              /\ Cardinality(batch) = BatchLimit
              /\ \A q \in batch : /\ TakenUp(q) \/ runs[q].status = "cancelled"
                                  /\ runs[q].startTime <= runs[r].startTime
         /\ \A q \in Runs : TakenUp(q) => runs[q].startTime <= runs[r].startTime
=============================================================================
