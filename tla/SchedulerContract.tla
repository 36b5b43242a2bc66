------------------------- MODULE SchedulerContract -------------------------
(* Scheduler as an implementation of RunContract. *)
EXTENDS Scheduler

\* The phase a run's row and its notifications amount to.
PhaseOf(r) ==
    CASE runs[r].status = "pending" -> "waiting"
      [] runs[r].status \in {"fired", "failed"} /\ notifications[r] = {} -> "delivering"
      [] runs[r].status \in {"fired", "failed"} /\ notifications[r] # {} -> "notified"
      [] OTHER -> runs[r].status

Contract == INSTANCE RunContract
            WITH phase <- [r \in Runs |-> PhaseOf(r)],
                 attempt <- [r \in Runs |-> runs[r].attemptCount],
                 posts <- inbox

\* Every step of the scheduler is one the contract allows, or invisible in it:
\* no late statement, reclaim, crash or lost reply shows as anything else.
ImplementsContract == Contract!Spec
=============================================================================
