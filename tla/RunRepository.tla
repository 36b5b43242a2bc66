--------------------------- MODULE RunRepository ---------------------------
(***************************************************************************)
(* The three tables behind the scheduler and the SQL statements run on     *)
(* them (internal/repository, migrations/).  Each operator below is the    *)
(* effect of ONE statement, atomic as PostgreSQL makes it; the modules     *)
(* that extend this one say who runs it, when, and what happens if it      *)
(* fails.  DELETE is the exception: its snapshot and its cascade are two   *)
(* steps, because under READ COMMITTED other statements commit in between. *)
(***************************************************************************)
EXTENDS Integers, FiniteSets

CONSTANTS
    Runs,           \* ids a scheduled_run row may get
    Appliances,     \* appliances in the catalog at the start
    Seeded,         \* the ones inserted by the migrations (is_seed)
    NULL,           \* SQL NULL
    ClaimLease,     \* claimLease
    ReclaimWindow,  \* reclaimWindow
    BatchLimit      \* batchLimit

ASSUME RepositoryAssumption ==
    /\ NULL \notin Int
    /\ Seeded \subseteq Appliances
    /\ ClaimLease \in Nat /\ ReclaimWindow \in Nat
    /\ BatchLimit \in Nat

VARIABLES
    runs,           \* scheduled_run, by id; "absent" before INSERT
    notifications,  \* rows of notifications, by scheduled_run_id
    appliances,     \* rows of appliance
    deleting        \* DELETEs past their snapshot, not yet at their cascade

repoVars == <<runs, notifications, appliances, deleting>>
-----------------------------------------------------------------------------
(* Rows. *)

Status == {"absent", "pending", "fired", "failed", "cancelled", "deleted"}

\* firedAt, nextAttemptAt: minutes, or NULL; hook: the row has a webhook_url.
Row == [status : Status, app : Appliances \cup {NULL}, startTime : Int,
        firedAt : Int \cup {NULL}, nextAttemptAt : Int \cup {NULL},
        attemptCount : Nat, hook : BOOLEAN]

\* The message of a notification names the attempt it is about.
Notification == [attempt : Nat, delivered : BOOLEAN]

AbsentRow == [status |-> "absent", app |-> NULL, startTime |-> 0,
              firedAt |-> NULL, nextAttemptAt |-> NULL,
              attemptCount |-> 0, hook |-> FALSE]

Exists(r) == runs[r].status \notin {"absent", "deleted"}

RepoInit ==
    /\ runs = [r \in Runs |-> AbsentRow]
    /\ notifications = [r \in Runs |-> {}]
    /\ appliances = Appliances
    /\ deleting = {}

RepoTypeOK ==
    /\ runs \in [Runs -> Row]
    /\ notifications \in [Runs -> SUBSET Notification]
    /\ appliances \subseteq Appliances
    /\ deleting \subseteq Appliances \ Seeded
-----------------------------------------------------------------------------
(* Slips: wrong forms of statements below, each a bug the statement could  *)
(* have had.  They are in no specification; putting one in the place of    *)
(* the real statement must break a property.                               *)

\* A status the CHECK constraint does not know.
CancelMisspelt(r) ==
    /\ runs[r].status = "pending"
    /\ runs' = [runs EXCEPT ![r].status = "canceled"]
    /\ UNCHANGED <<notifications, appliances, deleting>>

\* Cancelling a run that is being fired, too.
CancelFired(r) ==
    /\ runs[r].status \in {"pending", "fired"}
    /\ runs' = [runs EXCEPT ![r].status = "cancelled"]
    /\ UNCHANGED <<notifications, appliances, deleting>>

\* The backoff forgotten.
WaitIsOverAtStart(row, t) == row.status = "pending" /\ row.startTime <= t

\* NOT EXISTS (notification) forgotten.
ClaimAbandonedThoughNotified(row, notes, t) ==
    /\ row.status = "fired"
    /\ row.firedAt <= t - ClaimLease
    /\ row.firedAt > t - ReclaimWindow

\* The lease forgotten.
ClaimAbandonedAtOnce(row, notes, t) ==
    /\ row.status = "fired"
    /\ row.firedAt <= t
    /\ row.firedAt > t - ReclaimWindow
    /\ notes = {}

\* dueCondition without its second half: an abandoned claim is nobody's.
ClaimableOnlyPending(r, t) ==
    /\ runs[r].status = "pending" /\ runs[r].startTime <= t
    /\ runs[r].nextAttemptAt # NULL => runs[r].nextAttemptAt <= t

\* UPDATE by id alone: what the query found is not checked again.
ClaimUnconditionally(r, t) ==
    /\ Exists(r)
    /\ runs' = [runs EXCEPT ![r].status = "fired", ![r].firedAt = t,
                            ![r].attemptCount = @ + 1]
    /\ UNCHANGED <<notifications, appliances, deleting>>

MarkFailedPending(r) ==
    /\ runs' = IF runs[r].status = "pending"
               THEN [runs EXCEPT ![r].status = "failed"] ELSE runs
    /\ UNCHANGED <<notifications, appliances, deleting>>
-----------------------------------------------------------------------------
(* Statements of the API. *)

\* INSERT a pending run; its foreign key needs the appliance.
Create(r, a, s, h) ==
    /\ runs[r].status = "absent"
    /\ a \in appliances
    /\ runs' = [runs EXCEPT ![r] =
                  [AbsentRow EXCEPT !.status = "pending", !.app = a,
                                    !.startTime = s, !.hook = h]]
    /\ UNCHANGED <<notifications, appliances, deleting>>

\* UPDATE ... WHERE status = 'pending'; matching no row is ErrNotFound.
Cancel(r) ==
    /\ runs[r].status = "pending"
    /\ runs' = [runs EXCEPT ![r].status = "cancelled"]
    /\ UNCHANGED <<notifications, appliances, deleting>>

HasPendingRun(a) == \E r \in Runs : runs[r].status = "pending" /\ runs[r].app = a

\* The DELETE's WHERE clause holds in its snapshot...
BeginDelete(a) ==
    /\ a \in appliances \ (deleting \cup Seeded)
    /\ ~HasPendingRun(a)
    /\ deleting' = deleting \cup {a}
    /\ UNCHANGED <<runs, notifications, appliances>>

\* ...and the row goes, with every run of it (ON DELETE CASCADE) there is by now.
FinishDelete(a) ==
    /\ a \in deleting
    /\ deleting' = deleting \ {a}
    /\ appliances' = appliances \ {a}
    /\ runs' = [r \in Runs |-> IF Exists(r) /\ runs[r].app = a
                               THEN [runs[r] EXCEPT !.status = "deleted"]
                               ELSE runs[r]]
    /\ notifications' = [r \in Runs |-> IF Exists(r) /\ runs[r].app = a
                                        THEN {} ELSE notifications[r]]
-----------------------------------------------------------------------------
(* Statements of the engine. *)

WaitIsOver(row, t) ==
    /\ row.status = "pending"
    /\ row.startTime <= t
    /\ row.nextAttemptAt # NULL => row.nextAttemptAt <= t

ClaimAbandoned(row, notes, t) ==
    /\ row.status = "fired"
    /\ row.firedAt <= t - ClaimLease
    /\ row.firedAt > t - ReclaimWindow
    /\ notes = {}

\* dueCondition, for a caller whose clock reads t.
Claimable(r, t) ==
    \/ WaitIsOver(runs[r], t)
    \/ ClaimAbandoned(runs[r], notifications[r], t)

\* What FindDuePending may return: the BatchLimit oldest claimable runs.
\* SQL leaves the order among equal start times open.
FindDuePending(t) ==
    LET due == {r \in Runs : Claimable(r, t)}
    IN  {batch \in SUBSET due :
           /\ \/ Cardinality(batch) = BatchLimit
              \/ Cardinality(batch) < BatchLimit /\ batch = due
           /\ \A r \in batch, q \in due \ batch :
                runs[r].startTime <= runs[q].startTime}

\* The claim of an abandoned run keeps its fired_at, or its attempt_count.
ClaimWithoutRefresh(r, t) ==
    /\ Claimable(r, t)
    /\ runs' = [runs EXCEPT ![r].status = "fired",
                            ![r].firedAt = IF @ = NULL THEN t ELSE @,
                            ![r].attemptCount = @ + 1]
    /\ UNCHANGED <<notifications, appliances, deleting>>

ClaimWithoutCount(r, t) ==
    /\ Claimable(r, t)
    /\ runs' = [runs EXCEPT ![r].status = "fired", ![r].firedAt = t]
    /\ UNCHANGED <<notifications, appliances, deleting>>

ClaimForFiring(r, t) ==
    /\ Claimable(r, t)
    /\ runs' = [runs EXCEPT ![r].status = "fired", ![r].firedAt = t,
                            ![r].attemptCount = @ + 1]
    /\ UNCHANGED <<notifications, appliances, deleting>>

MarkRetry(r, next) ==
    /\ runs' = IF runs[r].status = "fired"
               THEN [runs EXCEPT ![r].status = "pending", ![r].nextAttemptAt = next]
               ELSE runs
    /\ UNCHANGED <<notifications, appliances, deleting>>

MarkFailed(r) ==
    /\ runs' = IF Exists(r) THEN [runs EXCEPT ![r].status = "failed"] ELSE runs
    /\ UNCHANGED <<notifications, appliances, deleting>>

\* The foreign key refuses a notification for a run that is gone.
CreateNotification(r, note) ==
    /\ notifications' = IF Exists(r)
                        THEN [notifications EXCEPT ![r] = @ \cup {note}]
                        ELSE notifications
    /\ UNCHANGED <<runs, appliances, deleting>>
=============================================================================
