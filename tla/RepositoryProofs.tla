-------------------------- MODULE RepositoryProofs --------------------------
(***************************************************************************)
(* Every statement of RunRepository keeps the tables well formed.  The     *)
(* proofs about its callers rest on these lemmas.                          *)
(***************************************************************************)
EXTENDS RunRepository, TLAPS

\* An INSERT of a pending run.
LEMMA CreateType ==
  ASSUME RepoTypeOK, NEW r \in Runs, NEW a \in Appliances, NEW s \in Int,
         NEW h \in BOOLEAN, Create(r, a, s, h)
  PROVE  RepoTypeOK'
  <1>1. [AbsentRow EXCEPT !.status = "pending", !.app = a,
                          !.startTime = s, !.hook = h] \in Row
    BY DEF AbsentRow, Row, Status
  <1> QED
    BY <1>1 DEF Create, RepoTypeOK

\* Cancelling one.
LEMMA CancelType ==
  ASSUME RepoTypeOK, NEW r \in Runs, Cancel(r)
  PROVE  RepoTypeOK'
  <1>1. [runs[r] EXCEPT !.status = "cancelled"] \in Row
    BY DEF RepoTypeOK, Row, Status
  <1> QED
    BY <1>1 DEF Cancel, RepoTypeOK

\* A DELETE at its snapshot: no seeded appliance is ever on its way out.
LEMMA BeginDeleteType ==
  ASSUME RepoTypeOK, NEW a \in Appliances, BeginDelete(a)
  PROVE  RepoTypeOK'
  BY DEF BeginDelete, RepoTypeOK

\* A DELETE at its cascade.
LEMMA FinishDeleteType ==
  ASSUME RepoTypeOK, NEW a \in Appliances, FinishDelete(a)
  PROVE  RepoTypeOK'
  <1>1. \A r \in Runs : [runs[r] EXCEPT !.status = "deleted"] \in Row
    BY DEF RepoTypeOK, Row, Status
  <1> QED
    BY <1>1 DEF FinishDelete, RepoTypeOK

\* The claim writes a row that is one.
LEMMA ClaimType ==
  ASSUME RepoTypeOK, NEW r \in Runs, NEW t \in Int, ClaimForFiring(r, t)
  PROVE  RepoTypeOK'
  BY DEF RepoTypeOK, ClaimForFiring, Row, Status

\* So does MarkRetry, whether or not it matches,
LEMMA MarkRetryType ==
  ASSUME RepoTypeOK, NEW r \in Runs, NEW t \in Int, MarkRetry(r, t)
  PROVE  RepoTypeOK'
  <1>1. [runs[r] EXCEPT !.status = "pending", !.nextAttemptAt = t] \in Row
    BY DEF RepoTypeOK, Row, Status
  <1> QED
    BY <1>1 DEF RepoTypeOK, MarkRetry

\* and MarkFailed,
LEMMA MarkFailedType ==
  ASSUME RepoTypeOK, NEW r \in Runs, MarkFailed(r)
  PROVE  RepoTypeOK'
  BY DEF RepoTypeOK, MarkFailed, Row, Status

\* and the INSERT of a notification.
LEMMA CreateNotificationType ==
  ASSUME RepoTypeOK, NEW r \in Runs, NEW note \in Notification,
         CreateNotification(r, note)
  PROVE  RepoTypeOK'
  BY DEF RepoTypeOK, CreateNotification

\* A statement that did not happen leaves the tables typed.
LEMMA UnchangedType == ASSUME RepoTypeOK, UNCHANGED repoVars PROVE RepoTypeOK'
  BY DEF RepoTypeOK, repoVars
=============================================================================
