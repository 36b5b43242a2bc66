--------------------------- MODULE SchedulerLive ---------------------------
(***************************************************************************)
(* Scheduler with the cadence of its polls, while nothing fails but the    *)
(* receiver.  Somebody polls in every minute that passes: the ticker of    *)
(* Run does (every 15 seconds by default), or whoever calls the cron       *)
(* endpoint of a host without a ticker.  Process has the ticker itself,    *)
(* and the failures.                                                       *)
(***************************************************************************)
EXTENDS Scheduler

CONSTANT LastCreate  \* bound: no schedule is created later, so that the
                     \* clock does not run out on one

VARIABLE polled      \* a poll was made in this minute

liveVars == <<vars, polled>>

LiveInit == Init /\ polled = FALSE

\* A poll that finds nothing due: RunOnce returns 0.
IdlePoll ==
    /\ \E t \in Clock : \A r \in Runs : ~Claimable(r, t)
    /\ polled' = TRUE
    /\ UNCHANGED vars

Poll == \/ IdlePoll
        \/ (\E p \in Passes : Dispatch(p)) /\ polled' = TRUE

Tick == polled /\ Advance /\ polled' = FALSE

Other ==
    /\ \/ \E r \in Runs : now <= LastCreate /\ CreateSchedule(r)
       \/ \E r \in Runs : CancelSchedule(r)
       \/ \E a \in Appliances : DeleteAppliance(a)
    /\ UNCHANGED polled

Fires(p, r) == Step(p, r) /\ UNCHANGED polled

LiveNext ==
    \/ Poll \/ Tick \/ Other
    \/ \E p \in Passes, r \in Runs : Fires(p, r)

\* Goroutines are scheduled, polls are made and time passes; nothing is assumed
\* of the API, or of what the receiver answers.
Fairness ==
    /\ WF_liveVars(Poll /\ ~polled)
    /\ WF_liveVars(Tick)
    /\ \A p \in Passes, r \in Runs : WF_liveVars(Fires(p, r))

LiveSpec == LiveInit /\ [][LiveNext]_liveVars /\ Fairness
-----------------------------------------------------------------------------
\* While nothing but the receiver fails, the end of a run that was neither
\* cancelled nor deleted is a notification.
EventuallyNotified ==
    \A r \in Runs : runs[r].status = "pending" ~>
        runs[r].status \in {"cancelled", "deleted"} \/ notifications[r] # {}
=============================================================================
