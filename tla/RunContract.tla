---------------------------- MODULE RunContract ----------------------------
(***************************************************************************)
(* What the service promises of a scheduled run, without passes, clocks,   *)
(* leases or contexts: the lifecycle of GET /schedules/{id} as its caller  *)
(* and the webhook's receiver see it.                                      *)
(***************************************************************************)
EXTENDS Naturals, Sequences

CONSTANT Runs

VARIABLES
    phase,    \* where each run is in its life
    attempt,  \* how often its delivery was started
    posts     \* attempt numbers the receiver accepted, in order

contractVars == <<phase, attempt, posts>>

Phase == {"absent", "waiting", "cancelled", "delivering", "notified", "deleted"}

Init ==
    /\ phase = [r \in Runs |-> "absent"]
    /\ attempt = [r \in Runs |-> 0]
    /\ posts = [r \in Runs |-> <<>>]

Move(r, from, to) == phase[r] = from /\ phase' = [phase EXCEPT ![r] = to]

Accept(r) == Move(r, "absent", "waiting") /\ UNCHANGED <<attempt, posts>>

\* Only a waiting run can be cancelled.
Cancel(r) == Move(r, "waiting", "cancelled") /\ UNCHANGED <<attempt, posts>>

\* Delivery starts when the run is due, and again when it was abandoned.
Deliver(r) ==
    /\ Move(r, "waiting", "delivering") \/ Move(r, "delivering", "delivering")
    /\ attempt' = [attempt EXCEPT ![r] = @ + 1]
    /\ UNCHANGED posts

\* The receiver accepts the attempt being made, once.  A run deleted under its
\* delivery may still arrive.
Receive(r) ==
    /\ phase[r] \in {"delivering", "deleted"}
    /\ \A i \in DOMAIN posts[r] : posts[r][i] < attempt[r]
    /\ posts' = [posts EXCEPT ![r] = Append(@, attempt[r])]
    /\ UNCHANGED <<phase, attempt>>

PutOff(r) == Move(r, "delivering", "waiting") /\ UNCHANGED <<attempt, posts>>

\* The end, told once and for all.
Notify(r) == Move(r, "delivering", "notified") /\ UNCHANGED <<attempt, posts>>

\* Deleting an appliance takes all its runs.
Drop(S) ==
    /\ \A r \in S : phase[r] # "absent"
    /\ phase' = [r \in Runs |-> IF r \in S THEN "deleted" ELSE phase[r]]
    /\ UNCHANGED <<attempt, posts>>

Next ==
    \/ \E r \in Runs : \/ Accept(r) \/ Cancel(r) \/ Deliver(r) \/ Receive(r)
                       \/ PutOff(r) \/ Notify(r)
    \/ \E S \in SUBSET Runs : Drop(S)

Spec == Init /\ [][Next]_contractVars
=============================================================================
