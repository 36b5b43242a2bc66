-------------------------- MODULE SchedulerProofs --------------------------
(***************************************************************************)
(* What TLAPS proves of Scheduler for every set of runs, passes and        *)
(* appliances and every value of the other constants.  First that a claim  *)
(* keeps one owner, and what follows from that; then that the scheduler    *)
(* implements RunContract, and the order of the posts, which the contract  *)
(* relies on; and last what becomes of a run: what its notification says,  *)
(* how often and how fast it is claimed, and, while nothing fails but the  *)
(* receiver, that it is delivered once and told about.  At the end, what   *)
(* Process adds: passes that are not abandoned, and the catch-up pass.     *)
(***************************************************************************)
EXTENDS Process, SchedulerContract, RepositoryProofs, FiniteSetTheorems, TLAPS

-----------------------------------------------------------------------------
(* Helpers of the actions. *)

\* The zero goroutine is one.
LEMMA IdleType == Idle \in Goroutine
  BY DEF Idle, Goroutine

\* A goroutine that died with its process is one too: the zero goroutine, or the
\* row it leaves behind in the claimed state.
LEMMA DeadType ==
  ASSUME NEW g \in Goroutine PROVE [g EXCEPT !.live = FALSE] \in Goroutine
  <1> DEFINE h == [g EXCEPT !.live = FALSE]
  <1>1. h \in Goroutine
    BY DEF Goroutine
  <1> QED
    BY <1>1

\* What Set does to fire, pointwise.
LEMMA SetFacts ==
  ASSUME NEW p \in Passes, NEW r \in Runs, NEW g \in Goroutine,
         fire \in [Passes -> [Runs -> Goroutine]], Set(p, r, g)
  PROVE  /\ fire' \in [Passes -> [Runs -> Goroutine]]
         /\ fire'[p][r] = g
         /\ \A q \in Passes, s \in Runs :
              q # p \/ s # r => fire'[q][s] = fire[q][s]
  BY DEF Set

\* Every backoff is a number of minutes, and at least one.
LEMMA RetryDelayType ==
  ASSUME NEW n \in Nat PROVE RetryDelay(n) \in Nat /\ RetryDelay(n) >= Minute
  BY SchedulerAssumption DEF RetryDelay

\* A clock on any instance is within Skew of true time.
LEMMA ClockType ==
  ASSUME now \in Nat, NEW t \in Clock
  PROVE  t \in Int /\ now - Skew <= t /\ t <= now + Skew
  BY SchedulerAssumption DEF Clock

\* The count of faults stays a number.
LEMMA FaultType ==
  ASSUME faults \in Nat,
         UNCHANGED faults \/ \E k \in FaultKinds : Fault(k)
  PROVE  faults' \in Nat /\ faults' >= faults
  BY DEF Fault
-----------------------------------------------------------------------------
(* Type correctness. *)

\* An empty database and no passes.
LEMMA InitType == Init => TypeOK
  <1> SUFFICES ASSUME Init PROVE TypeOK
    OBVIOUS
  <1>1. RepoTypeOK
    BY RepositoryAssumption
       DEF Init, RepoInit, RepoTypeOK, AbsentRow, Row, Status
  <1> QED
    BY <1>1, IdleType DEF Init, TypeOK

\* Every statement of a fire keeps the types.
LEMMA StepType ==
  ASSUME TypeOK, NEW p \in Passes, NEW r \in Runs, Step(p, r)
  PROVE  TypeOK'
  <1> DEFINE g == fire[p][r]
  <1>0. g \in Goroutine
    BY DEF TypeOK
  <1>1. CASE Claim(p, r)
    <2> DEFINE h == [g EXCEPT !.pc = IF runs[r].hook \/ DefaultHook
                                     THEN "send" ELSE "notify",
                              !.attempt = runs[r].attemptCount + 1]
    <2>1. h \in Goroutine
      <3>1. runs[r].attemptCount + 1 \in Nat
        BY DEF TypeOK, RepoTypeOK, Row
      <3>2. \A pc \in {"send", "notify"}, n \in Nat :
              [g EXCEPT !.pc = pc, !.attempt = n] \in Goroutine
        BY <1>0 DEF Goroutine
      <3> HIDE DEF g
      <3>3. CASE runs[r].hook \/ DefaultHook
        BY <3>1, <3>2, <3>3
      <3>4. CASE ~(runs[r].hook \/ DefaultHook)
        BY <3>1, <3>2, <3>4
      <3> QED
        BY <3>3, <3>4
    <2>2. Set(p, r, h) /\ UNCHANGED <<inbox, now, faults>>
      BY <1>1 DEF Claim, Succeeds
    <2>3. RepoTypeOK'
      BY <1>0, <1>1, ClaimType DEF Claim, TypeOK, Goroutine
    <2> QED
      BY <2>1, <2>2, <2>3, SetFacts DEF TypeOK
  <1>2. CASE ClaimMissed(p, r)
    <2>1. faults' \in Nat
      BY <1>2, FaultType DEF ClaimMissed, Succeeds, Fails, Fault, TypeOK
    <2>2. Set(p, r, Idle)
          /\ UNCHANGED <<runs, notifications, appliances, deleting, inbox, now>>
      BY <1>2 DEF ClaimMissed, Return
    <2> QED
      BY <2>1, <2>2, IdleType, SetFacts DEF TypeOK, RepoTypeOK
  <1>3. CASE ClaimReplyLost(p, r)
    <2>1. faults' \in Nat
      BY <1>3 DEF ClaimReplyLost, Fault, TypeOK
    <2>2. Set(p, r, Idle) /\ UNCHANGED <<inbox, now>>
      BY <1>3 DEF ClaimReplyLost, Return
    <2>3. RepoTypeOK'
      BY <1>0, <1>3, ClaimType DEF ClaimReplyLost, TypeOK, Goroutine
    <2> QED
      BY <2>1, <2>2, <2>3, IdleType, SetFacts DEF TypeOK
  <1>4. CASE Delivered(p, r)
    <2> DEFINE h == [g EXCEPT !.pc = "notify", !.delivered = TRUE]
    <2>1. h \in Goroutine
      BY <1>0 DEF Goroutine
    <2>2. /\ Set(p, r, h)
          /\ inbox' = [inbox EXCEPT ![r] = Append(@, g.attempt)]
          /\ UNCHANGED <<runs, notifications, appliances, deleting, now, faults>>
      BY <1>4 DEF Delivered
    <2>3. inbox' \in [Runs -> Seq(Nat)]
      BY <1>0, <2>2 DEF TypeOK, Goroutine
    <2> QED
      BY <2>1, <2>2, <2>3, SetFacts DEF TypeOK, RepoTypeOK
  <1>5. CASE NotDelivered(p, r)
    <2>1. PICK h \in Goroutine : Set(p, r, h)
      <3>1. CASE g.attempt < MaxAttempts
        <4>1. PICK t \in Clock :
                Set(p, r, [g EXCEPT !.pc = "retry", !.next = t + RetryDelay(g.attempt)])
          BY <1>5, <3>1 DEF NotDelivered
        <4>2. t + RetryDelay(g.attempt) \in Int
          BY <1>0, ClockType, RetryDelayType DEF TypeOK, Goroutine
        <4> QED
          BY <1>0, <4>1, <4>2 DEF Goroutine
      <3>2. CASE ~(g.attempt < MaxAttempts)
        <4>1. [g EXCEPT !.pc = "fail"] \in Goroutine
          BY <1>0 DEF Goroutine
        <4> QED
          BY <1>5, <3>2, <4>1 DEF NotDelivered
      <3> QED
        BY <3>1, <3>2
    <2>2. /\ inbox' = inbox \/ inbox' = [inbox EXCEPT ![r] = Append(@, g.attempt)]
          /\ UNCHANGED <<runs, notifications, appliances, deleting, now, faults>>
      BY <1>5 DEF NotDelivered
    <2>3. inbox' \in [Runs -> Seq(Nat)]
      <3>1. g.attempt \in Nat /\ inbox[r] \in Seq(Nat)
        BY <1>0 DEF TypeOK, Goroutine
      <3>2. Append(inbox[r], g.attempt) \in Seq(Nat)
        BY <3>1
      <3> HIDE DEF g
      <3> QED
        BY <2>2, <3>2 DEF TypeOK
    <2> QED
      BY <2>1, <2>2, <2>3, SetFacts DEF TypeOK, RepoTypeOK
  <1>6. CASE ScheduleRetry(p, r)
    <2>1. faults' \in Nat
      BY <1>6, FaultType DEF ScheduleRetry, Succeeds, Fails, Fault, TypeOK
    <2>2. Set(p, r, Idle) /\ UNCHANGED <<inbox, now>>
      BY <1>6 DEF ScheduleRetry, Return
    <2>3. RepoTypeOK'
      BY <1>0, <1>6, MarkRetryType, UnchangedType
         DEF ScheduleRetry, TypeOK, Goroutine
    <2> QED
      BY <2>1, <2>2, <2>3, IdleType, SetFacts DEF TypeOK
  <1>7. CASE GiveUp(p, r)
    <2>1. faults' \in Nat
      BY <1>7, FaultType DEF GiveUp, Succeeds, Fails, Fault, TypeOK
    <2>2. Set(p, r, [g EXCEPT !.pc = "notify"]) /\ UNCHANGED <<inbox, now>>
      BY <1>7 DEF GiveUp
    <2>3. RepoTypeOK'
      BY <1>7, MarkFailedType, UnchangedType DEF GiveUp, TypeOK
    <2>4. [g EXCEPT !.pc = "notify"] \in Goroutine
      BY <1>0 DEF Goroutine
    <2> QED
      BY <2>1, <2>2, <2>3, <2>4, SetFacts DEF TypeOK
  <1>8. CASE Notify(p, r)
    <2>1. faults' \in Nat
      BY <1>8, FaultType DEF Notify, Succeeds, Fails, Fault, TypeOK
    <2>2. Set(p, r, Idle) /\ UNCHANGED <<inbox, now>>
      BY <1>8 DEF Notify, Return
    <2>3. RepoTypeOK'
      <3>1. [attempt |-> g.attempt, delivered |-> g.delivered] \in Notification
        BY <1>0 DEF Goroutine, Notification
      <3> QED
        BY <1>8, <3>1, CreateNotificationType, UnchangedType DEF Notify, TypeOK
    <2> QED
      BY <2>1, <2>2, <2>3, IdleType, SetFacts DEF TypeOK
  <1> QED
    BY <1>1, <1>2, <1>3, <1>4, <1>5, <1>6, <1>7, <1>8 DEF Step

\* So does everything else.
LEMMA NextType == TypeOK /\ [Next]_vars => TypeOK'
  <1> SUFFICES ASSUME TypeOK, [Next]_vars PROVE TypeOK'
    OBVIOUS
  <1>1. CASE \E r \in Runs : CreateSchedule(r)
    <2>1. PICK r \in Runs, a \in Appliances, s \in StartTimes, h \in BOOLEAN :
            Create(r, a, s, h) /\ UNCHANGED <<fire, inbox, now, faults>>
      BY <1>1 DEF CreateSchedule
    <2>2. s \in Int
      BY SchedulerAssumption
    <2>3. RepoTypeOK'
      BY <2>1, <2>2, CreateType DEF TypeOK
    <2> QED
      BY <2>1, <2>3 DEF TypeOK
  <1>2. CASE \E r \in Runs : CancelSchedule(r)
    <2>1. PICK r \in Runs : CancelSchedule(r)
      BY <1>2
    <2>2. RepoTypeOK'
      BY <2>1, CancelType DEF CancelSchedule, TypeOK
    <2> QED
      BY <2>1, <2>2 DEF CancelSchedule, TypeOK
  <1>3. CASE \E a \in Appliances : DeleteAppliance(a)
    <2>1. PICK a \in Appliances : BeginDelete(a) \/ FinishDelete(a)
      BY <1>3 DEF DeleteAppliance
    <2>2. UNCHANGED <<fire, inbox, now, faults>>
      BY <1>3 DEF DeleteAppliance
    <2>3. RepoTypeOK'
      BY <2>1, BeginDeleteType, FinishDeleteType DEF TypeOK
    <2> QED
      BY <2>2, <2>3 DEF TypeOK
  <1>4. CASE \E p \in Passes : Dispatch(p)
    <2>1. PICK p \in Passes, t \in Clock, batch \in SUBSET Runs :
            /\ fire' = [fire EXCEPT ![p] =
                          [r \in Runs |-> IF r \in batch THEN Spawned(t) ELSE Idle]]
            /\ UNCHANGED <<runs, notifications, appliances, deleting, inbox, now, faults>>
      BY <1>4 DEF Dispatch, FindDuePending
    <2>2. Spawned(t) \in Goroutine
      BY ClockType DEF Spawned, Goroutine, TypeOK
    <2> QED
      BY <2>1, <2>2, IdleType DEF TypeOK, RepoTypeOK
  <1>5. CASE \E p \in Passes : Crash(p)
    BY <1>5, IdleType DEF Crash, Fault, TypeOK, RepoTypeOK
  <1>6. CASE \E p \in Passes : CancelContext(p)
    <2>1. \A p \in Passes, r \in Runs : [fire[p][r] EXCEPT !.live = FALSE] \in Goroutine
      BY DeadType DEF TypeOK
    <2> QED
      BY <1>6, <2>1 DEF CancelContext, Fault, TypeOK, RepoTypeOK
  <1>7. CASE \E p \in Passes, r \in Runs : Step(p, r)
    BY <1>7, StepType
  <1>8. CASE Advance
    BY <1>8 DEF Advance, TypeOK, RepoTypeOK
  <1>9. CASE UNCHANGED vars
    BY <1>9 DEF vars, TypeOK, RepoTypeOK
  <1> QED
    BY <1>1, <1>2, <1>3, <1>4, <1>5, <1>6, <1>7, <1>8, <1>9 DEF Next

\* Every row, goroutine and delivery stays well formed: in particular a status is
\* always one the CHECK constraint of migration 0001 admits.
THEOREM TypeCorrect == Spec => []TypeOK
  <1> QED
    BY InitType, NextType, PTL DEF Spec
-----------------------------------------------------------------------------
(* Ownership of claims. *)

\* A step of the goroutine (p, r) leaves other goroutines and other rows alone.
Frame(p, r) ==
  /\ now' = now
  /\ \A q \in Passes, s \in Runs :
       q # p \/ s # r => fire'[q][s] = fire[q][s]
  /\ \A s \in Runs \ {r} :
       /\ runs'[s] = runs[s]
       /\ notifications'[s] = notifications[s]
       /\ inbox'[s] = inbox[s]

\* Step(p, r) changes nothing that belongs to another run or another pass.
LEMMA StepFrame ==
  ASSUME TypeOK, NEW p \in Passes, NEW r \in Runs, Step(p, r)
  PROVE  Frame(p, r)
  <1>1. now' = now
    BY DEF Step, Claim, ClaimMissed, ClaimReplyLost, Delivered, NotDelivered,
           ScheduleRetry, GiveUp, Notify
  <1>2. \E g : Set(p, r, g)
    <2>1. CASE NotDelivered(p, r)
      <3>1. CASE fire[p][r].attempt < MaxAttempts
        BY <2>1, <3>1 DEF NotDelivered
      <3>2. CASE ~(fire[p][r].attempt < MaxAttempts)
        BY <2>1, <3>2 DEF NotDelivered
      <3> QED
        BY <3>1, <3>2
    <2>2. CASE ~NotDelivered(p, r)
      BY <2>2 DEF Step, Claim, ClaimMissed, ClaimReplyLost, Delivered,
                  ScheduleRetry, GiveUp, Notify, Return
    <2> QED
      BY <2>1, <2>2
  <1>3. \A q \in Passes, s \in Runs : q # p \/ s # r => fire'[q][s] = fire[q][s]
    BY <1>2 DEF Set, TypeOK
  <1>4. \A s \in Runs \ {r} : runs'[s] = runs[s]
    BY DEF Step, Claim, ClaimMissed, ClaimReplyLost, Delivered, NotDelivered,
           ScheduleRetry, GiveUp, Notify, ClaimForFiring, MarkRetry, MarkFailed,
           CreateNotification, repoVars, TypeOK, RepoTypeOK
  <1>5. \A s \in Runs \ {r} : notifications'[s] = notifications[s]
    BY DEF Step, Claim, ClaimMissed, ClaimReplyLost, Delivered, NotDelivered,
           ScheduleRetry, GiveUp, Notify, ClaimForFiring, MarkRetry, MarkFailed,
           CreateNotification, repoVars, TypeOK, RepoTypeOK
  <1>6. \A s \in Runs \ {r} : inbox'[s] = inbox[s]
    BY DEF Step, Claim, ClaimMissed, ClaimReplyLost, Delivered, NotDelivered,
           ScheduleRetry, GiveUp, Notify, TypeOK
  <1> QED
    BY <1>1, <1>3, <1>4, <1>5, <1>6 DEF Frame

\* So it keeps Ownership if it keeps it at (p, r).
LEMMA OwnershipByFrame ==
  ASSUME Ownership, NEW p \in Passes, NEW r \in Runs, Frame(p, r),
         Timely(p, r)', Owned(r)'
  PROVE  Ownership'
  <1>1. \A q \in Passes, s \in Runs : Timely(q, s)'
    BY DEF Ownership, Frame, Timely, Active
  <1>2. ASSUME NEW s \in Runs \ {r} PROVE Owned(s)'
    BY <1>2 DEF Ownership, Frame, Owned, Holds, Held, KnowsRow
  <1> QED
    BY <1>1, <1>2 DEF Ownership

\* Nobody fires a run that is claimable: the holder of an abandoned claim has
\* been gone for longer than the lease.
LEMMA ClaimableIsFree ==
  ASSUME LeaseOutlastsFire, TypeOK, Ownership,
         NEW p \in Passes, NEW r \in Runs, Active(p, r),
         Claimable(r, fire[p][r].tickTime)
  PROVE  ~Held(r) /\ notifications[r] = {}
  <1>1. CASE WaitIsOver(runs[r], fire[p][r].tickTime)
    BY <1>1 DEF WaitIsOver, Ownership, Owned, KnowsRow, Held
  <1>2. CASE ClaimAbandoned(runs[r], notifications[r], fire[p][r].tickTime)
    <2> SUFFICES ASSUME NEW q \in Passes, Holds(q, r) PROVE FALSE
      BY <1>2 DEF ClaimAbandoned, Held
    <2>1. runs[r].firedAt = fire[q][r].tickTime
      BY DEF Ownership, Owned, KnowsRow
    <2>2. /\ fire[p][r].tickTime \in Int /\ fire[p][r].began \in Int
          /\ fire[q][r].tickTime \in Int /\ fire[q][r].began \in Int
          /\ now \in Int
      BY DEF TypeOK, Goroutine
    <2>3. fire[p][r].tickTime <= now + Skew
      BY <2>2, SchedulerAssumption DEF Ownership, Timely
    <2>4. fire[q][r].tickTime >= now - MaxFire - Skew
      BY <2>2, SchedulerAssumption DEF Ownership, Timely, Active, Holds
    <2>5. fire[q][r].tickTime <= fire[p][r].tickTime - ClaimLease
      BY <1>2, <2>1 DEF ClaimAbandoned
    <2> QED
      BY <2>2, <2>3, <2>4, <2>5, SchedulerAssumption, RepositoryAssumption
         DEF LeaseOutlastsFire
  <1> QED
    BY <1>1, <1>2 DEF Claimable

\* Each statement of a fire keeps the claim with its owner: a claim finds the run
\* free, and the others are made by the owner.
LEMMA StepOwnership ==
  ASSUME LeaseOutlastsFire, TypeOK, TypeOK', Ownership,
         NEW p \in Passes, NEW r \in Runs, Step(p, r)
  PROVE  Ownership'
  <1> DEFINE g == fire[p][r]
  <1>f. Frame(p, r)
    BY StepFrame
  <1>g. g \in Goroutine /\ runs[r] \in Row
    BY DEF TypeOK, RepoTypeOK
  <1>o. Owned(r) /\ Timely(p, r)
    BY DEF Ownership
  \* A step that only ends the goroutine.
  <1>q. ASSUME fire'[p][r] = Idle, runs'[r] = runs[r], notifications'[r] = notifications[r]
        PROVE  Ownership'
    <2>1. Timely(p, r)'
      BY <1>q DEF Timely, Active, Idle
    <2>2. Owned(r)'
      BY <1>q, <1>f, <1>o DEF Frame, Owned, Held, Holds, KnowsRow, Idle
    <2> QED
      BY <1>f, <2>1, <2>2, OwnershipByFrame
  <1>1. CASE Claim(p, r)
    <2>1. ~Held(r) /\ notifications[r] = {}
      BY <1>1, ClaimableIsFree DEF Claim, ClaimForFiring, Active
    <2>2. fire'[p][r] = [g EXCEPT !.pc = IF runs[r].hook \/ DefaultHook
                                         THEN "send" ELSE "notify",
                                  !.attempt = runs[r].attemptCount + 1]
      BY <1>1 DEF Claim, Set, TypeOK
    <2>3. /\ runs'[r].firedAt = g.tickTime
          /\ runs'[r].attemptCount = runs[r].attemptCount + 1
          /\ runs'[r].status = "fired"
          /\ notifications' = notifications
      BY <1>1, <1>g DEF Claim, ClaimForFiring, TypeOK, RepoTypeOK, Row
    <2>4. /\ fire'[p][r].began = g.began /\ fire'[p][r].tickTime = g.tickTime
          /\ fire'[p][r].attempt = runs[r].attemptCount + 1
      BY <1>g, <2>2 DEF Goroutine
    <2>5. Timely(p, r)'
      BY <1>1, <1>f, <1>o, <2>4 DEF Frame, Timely, Active, Claim
    <2>6. KnowsRow(p, r)'
      BY <2>1, <2>3, <2>4 DEF KnowsRow
    <2>7. \A q \in Passes : Holds(q, r)' => q = p
      BY <1>f, <2>1 DEF Frame, Held, Holds
    <2>8. Owned(r)'
      BY <2>1, <2>3, <2>6, <2>7 DEF Owned
    <2> QED
      BY <1>f, <2>5, <2>8, OwnershipByFrame
  <1>2. CASE ClaimMissed(p, r)
    <2>1. fire'[p][r] = Idle /\ ~Holds(p, r) /\ runs' = runs
          /\ notifications' = notifications
      BY <1>2 DEF ClaimMissed, Return, Set, Holds, TypeOK
    <2> QED
      BY <1>q, <2>1
  <1>3. CASE ClaimReplyLost(p, r)
    <2>1. ~Held(r) /\ notifications[r] = {}
      BY <1>3, ClaimableIsFree DEF ClaimReplyLost, ClaimForFiring, Active
    <2>2. fire'[p][r] = Idle /\ notifications' = notifications
      BY <1>3 DEF ClaimReplyLost, ClaimForFiring, Return, Set, TypeOK
    <2>3. Timely(p, r)'
      BY <2>2 DEF Timely, Active, Idle
    <2>4. ~Held(r)'
      BY <1>f, <2>1, <2>2 DEF Frame, Held, Holds, Idle
    <2>5. Owned(r)'
      BY <2>1, <2>2, <2>4 DEF Owned, Held
    <2> QED
      BY <1>f, <2>3, <2>5, OwnershipByFrame
  \* A step of the owner that goes on, with the row at most marked failed.
  <1>c. ASSUME Holds(p, r), Holds(p, r)', notifications' = notifications,
               /\ fire'[p][r].began = g.began
               /\ fire'[p][r].tickTime = g.tickTime
               /\ fire'[p][r].attempt = g.attempt,
               /\ runs'[r].firedAt = runs[r].firedAt
               /\ runs'[r].attemptCount = runs[r].attemptCount,
               \/ runs'[r].status = runs[r].status /\ runs[r].status # "failed"
               \/ runs'[r].status = "failed" /\ fire'[p][r].pc = "notify"
        PROVE  Ownership'
    <2>1. KnowsRow(p, r)
      BY <1>c, <1>o DEF Owned
    <2>2. Timely(p, r)'
      BY <1>c, <1>f, <1>o DEF Frame, Timely, Active, Holds
    <2>3. KnowsRow(p, r)'
      BY <1>c, <2>1 DEF KnowsRow
    <2>4. \A q \in Passes : Holds(q, r)' => q = p
      BY <1>c, <1>f, <1>o DEF Frame, Owned, Holds
    <2>5. Owned(r)'
      BY <1>c, <2>1, <2>3, <2>4 DEF Owned, KnowsRow
    <2> QED
      BY <1>f, <2>2, <2>5, OwnershipByFrame
  <1>4. CASE Delivered(p, r)
    <2>1. fire'[p][r] = [g EXCEPT !.pc = "notify", !.delivered = TRUE]
      BY <1>4 DEF Delivered, Set, TypeOK
    <2>2. Holds(p, r) /\ runs[r].status # "failed"
      BY <1>4, <1>o DEF Delivered, Owned, Holds, KnowsRow
    <2> QED
      BY <1>4, <1>g, <1>c, <2>1, <2>2 DEF Delivered, Holds, Goroutine
  <1>5. CASE NotDelivered(p, r)
    <2>1. /\ fire'[p][r].pc \in {"retry", "fail"}
          /\ fire'[p][r].began = g.began /\ fire'[p][r].tickTime = g.tickTime
          /\ fire'[p][r].attempt = g.attempt
      <3>1. CASE g.attempt < MaxAttempts
        <4>1. PICK n \in Int :
                fire'[p][r] = [g EXCEPT !.pc = "retry", !.next = n]
          <5>1. PICK t \in Clock :
                  Set(p, r, [g EXCEPT !.pc = "retry", !.next = t + RetryDelay(g.attempt)])
            BY <1>5, <3>1 DEF NotDelivered
          <5>2. g.attempt \in Nat /\ now \in Nat
            BY <1>g DEF TypeOK, Goroutine
          <5>3. t + RetryDelay(g.attempt) \in Int
            BY <5>2, ClockType, RetryDelayType
          <5> QED
            BY <5>1, <5>3 DEF Set, TypeOK
        <4> QED
          BY <1>g, <4>1 DEF Goroutine
      <3>2. CASE ~(g.attempt < MaxAttempts)
        BY <1>5, <1>g, <3>2 DEF NotDelivered, Set, TypeOK, Goroutine
      <3> QED
        BY <3>1, <3>2
    <2>2. Holds(p, r) /\ runs[r].status # "failed"
      BY <1>5, <1>o DEF NotDelivered, Owned, Holds, KnowsRow
    <2> QED
      BY <1>5, <1>c, <2>1, <2>2 DEF NotDelivered, Holds
  <1>6. CASE ScheduleRetry(p, r)
    <2>1. Holds(p, r) /\ KnowsRow(p, r)
      BY <1>6, <1>o DEF ScheduleRetry, Holds, Owned
    <2>2. fire'[p][r] = Idle /\ notifications' = notifications
      BY <1>6 DEF ScheduleRetry, MarkRetry, repoVars, Return, Set, TypeOK
    <2>3. notifications'[r] = {} /\ ~Held(r)'
      BY <1>f, <1>o, <2>1, <2>2 DEF Frame, Owned, KnowsRow, Held, Holds, Idle
    <2>4. Timely(p, r)'
      BY <2>2 DEF Timely, Active, Idle
    <2>5. Owned(r)'
      BY <2>3 DEF Owned, Held
    <2> QED
      BY <1>f, <2>4, <2>5, OwnershipByFrame
  <1>7. CASE GiveUp(p, r)
    <2>1. fire'[p][r] = [g EXCEPT !.pc = "notify"] /\ notifications' = notifications
      BY <1>7 DEF GiveUp, MarkFailed, repoVars, Set, TypeOK
    <2>2. Holds(p, r) /\ runs[r].status # "failed"
      BY <1>7, <1>o DEF GiveUp, Owned, Holds, KnowsRow
    <2>3. \/ runs'[r] = runs[r]
          \/ runs'[r] = [runs[r] EXCEPT !.status = "failed"]
      BY <1>7 DEF GiveUp, MarkFailed, repoVars, TypeOK, RepoTypeOK
    <2> QED
      BY <1>g, <1>c, <2>1, <2>2, <2>3 DEF Holds, Goroutine, Row
  <1>8. CASE Notify(p, r)
    <2>1. Holds(p, r) /\ KnowsRow(p, r)
      BY <1>8, <1>o DEF Notify, Holds, Owned
    <2>2. fire'[p][r] = Idle /\ runs' = runs
      BY <1>8 DEF Notify, CreateNotification, repoVars, Return, Set, TypeOK
    <2>3. \/ notifications'[r] = {}
          \/ /\ \E note : notifications'[r] = {note}
             /\ runs[r].status \in {"fired", "failed"}
      <3>1. notifications[r] = {}
        BY <2>1 DEF KnowsRow
      <3>2. CASE UNCHANGED repoVars
        BY <3>1, <3>2 DEF repoVars
      <3>3. CASE CreateNotification(r, [attempt |-> g.attempt, delivered |-> g.delivered])
        <4>1. CASE Exists(r)
          BY <2>1, <3>1, <3>3, <4>1
             DEF CreateNotification, Exists, KnowsRow, TypeOK, RepoTypeOK
        <4>2. CASE ~Exists(r)
          BY <3>1, <3>3, <4>2 DEF CreateNotification
        <4> QED
          BY <4>1, <4>2
      <3> QED
        BY <1>8, <3>2, <3>3 DEF Notify
    <2>4. ~Held(r)'
      BY <1>f, <1>o, <2>1, <2>2 DEF Frame, Owned, Held, Holds, Idle
    <2>5. Timely(p, r)'
      BY <2>2 DEF Timely, Active, Idle
    <2>6. Owned(r)'
      BY <2>2, <2>3, <2>4 DEF Owned, Held
    <2> QED
      BY <1>f, <2>5, <2>6, OwnershipByFrame
  <1> QED
    BY <1>1, <1>2, <1>3, <1>4, <1>5, <1>6, <1>7, <1>8 DEF Step

\* Nobody owns anything at first.
LEMMA InitOwnership == Init => Ownership
  BY DEF Init, RepoInit, Ownership, Timely, Owned, Held, Holds, Active, Idle

\* Actions that leave the rows alone and give no goroutine a claim.
LEMMA OwnershipKept ==
  ASSUME Ownership, UNCHANGED <<runs, notifications>>,
         \A p \in Passes, r \in Runs : Timely(p, r)',
         \A p \in Passes, r \in Runs : Holds(p, r)' =>
           /\ Holds(p, r)
           /\ fire'[p][r].pc = fire[p][r].pc
           /\ fire'[p][r].tickTime = fire[p][r].tickTime
           /\ fire'[p][r].attempt = fire[p][r].attempt
  PROVE  Ownership'
  <1>1. ASSUME NEW r \in Runs PROVE Owned(r)'
    <2>1. Owned(r)
      BY DEF Ownership
    <2>2. \A p \in Passes : Holds(p, r)' => KnowsRow(p, r)'
      BY <2>1 DEF Owned, KnowsRow
    <2>3. Held(r)' => Held(r)
      BY DEF Held
    <2> QED
      BY <2>1, <2>2, <2>3 DEF Owned
  <1> QED
    BY <1>1 DEF Ownership

\* Statements of the API change rows nobody owns, or take them away.
LEMMA OwnershipOfRows ==
  ASSUME Ownership, UNCHANGED <<fire, now>>,
         \A r \in Runs :
           \/ runs'[r] = runs[r] /\ notifications'[r] = notifications[r]
           \/ runs[r].status \in {"absent", "pending"} /\ notifications'[r] = notifications[r]
           \/ /\ notifications'[r] = {} /\ runs'[r].status = "deleted"
              /\ runs'[r].firedAt = runs[r].firedAt
              /\ runs'[r].attemptCount = runs[r].attemptCount
  PROVE  Ownership'
  <1>1. \A p \in Passes, r \in Runs : Timely(p, r)'
    BY DEF Ownership, Timely, Active
  <1>2. ASSUME NEW r \in Runs PROVE Owned(r)'
    <2>0. Owned(r)
      BY DEF Ownership
    <2>1. CASE runs'[r] = runs[r] /\ notifications'[r] = notifications[r]
      BY <2>0, <2>1 DEF Owned, KnowsRow, Held, Holds
    <2>2. CASE /\ runs[r].status \in {"absent", "pending"}
               /\ notifications'[r] = notifications[r]
      <3>1. ~Held(r) /\ notifications[r] = {}
        BY <2>0, <2>2 DEF Owned, KnowsRow, Held
      <3> QED
        BY <2>2, <3>1 DEF Owned, Held, Holds
    <2>3. CASE /\ notifications'[r] = {} /\ runs'[r].status = "deleted"
               /\ runs'[r].firedAt = runs[r].firedAt
               /\ runs'[r].attemptCount = runs[r].attemptCount
      BY <2>0, <2>3 DEF Owned, KnowsRow, Held, Holds
    <2> QED
      BY <1>2, <2>1, <2>2, <2>3
  <1> QED
    BY <1>1, <1>2 DEF Ownership

\* Ownership is inductive.
LEMMA NextOwnership ==
  ASSUME LeaseOutlastsFire, TypeOK, TypeOK', Ownership, [Next]_vars
  PROVE  Ownership'
  <1>1. CASE \E r \in Runs : CreateSchedule(r)
    BY <1>1, OwnershipOfRows DEF CreateSchedule, Create, TypeOK, RepoTypeOK
  <1>2. CASE \E r \in Runs : CancelSchedule(r)
    BY <1>2, OwnershipOfRows DEF CancelSchedule, Cancel, TypeOK, RepoTypeOK
  <1>3. CASE \E a \in Appliances : DeleteAppliance(a)
    <2>1. UNCHANGED <<fire, now>>
      BY <1>3 DEF DeleteAppliance
    <2>2. PICK a \in Appliances : BeginDelete(a) \/ FinishDelete(a)
      BY <1>3 DEF DeleteAppliance
    <2>3. CASE BeginDelete(a)
      BY <2>1, <2>3, OwnershipOfRows DEF BeginDelete
    <2>4. CASE FinishDelete(a)
      <3>1. \A r \in Runs : runs[r] \in Row
        BY DEF TypeOK, RepoTypeOK
      <3>2. ASSUME NEW r \in Runs
            PROVE  \/ runs'[r] = runs[r] /\ notifications'[r] = notifications[r]
                   \/ /\ notifications'[r] = {} /\ runs'[r].status = "deleted"
                      /\ runs'[r].firedAt = runs[r].firedAt
                      /\ runs'[r].attemptCount = runs[r].attemptCount
        <4> DEFINE row == [runs[r] EXCEPT !.status = "deleted"]
        <4>1. \/ runs'[r] = runs[r] /\ notifications'[r] = notifications[r]
              \/ runs'[r] = row /\ notifications'[r] = {}
          BY <2>4 DEF FinishDelete
        <4>2. /\ row.status = "deleted" /\ row.firedAt = runs[r].firedAt
              /\ row.attemptCount = runs[r].attemptCount
          BY <3>1 DEF Row
        <4> QED
          BY <4>1, <4>2
      <3> QED
        BY <2>1, <3>2, OwnershipOfRows
    <2> QED
      BY <2>2, <2>3, <2>4
  <1>4. CASE \E p \in Passes : Dispatch(p)
    <2>1. PICK p \in Passes, t \in Clock, batch \in SUBSET Runs :
            /\ fire' = [fire EXCEPT ![p] =
                          [r \in Runs |-> IF r \in batch THEN Spawned(t) ELSE Idle]]
            /\ UNCHANGED <<runs, notifications, appliances, deleting, inbox, now, faults>>
      BY <1>4 DEF Dispatch, FindDuePending
    <2>2. \A r \in Runs : fire'[p][r] \in {Spawned(t), Idle}
      BY <2>1 DEF TypeOK
    <2>3. \A q \in Passes \ {p}, r \in Runs : fire'[q][r] = fire[q][r]
      BY <2>1 DEF TypeOK
    <2>4. \A r \in Runs : ~Holds(p, r)'
      BY <2>2 DEF Holds, Spawned, Idle
    <2>5. ASSUME NEW r \in Runs PROVE Timely(p, r)'
      <3>1. now \in Nat /\ now' = now /\ now - Skew <= t /\ t <= now + Skew
        BY <2>1, ClockType DEF TypeOK
      <3> QED
        BY <2>2, <3>1, SchedulerAssumption DEF Timely, Active, Spawned, Idle
    <2>6. \A q \in Passes, r \in Runs : Timely(q, r)'
      BY <2>1, <2>3, <2>5 DEF Ownership, Timely, Active
    <2>7. \A q \in Passes, r \in Runs : Holds(q, r)' =>
            Holds(q, r) /\ fire'[q][r] = fire[q][r]
      BY <2>3, <2>4 DEF Holds
    <2> QED
      BY <2>1, <2>6, <2>7, OwnershipKept
  <1>5. CASE \E p \in Passes : Crash(p)
    <2>1. \A q \in Passes, r \in Runs : fire'[q][r] \in {fire[q][r], Idle}
      BY <1>5 DEF Crash, TypeOK
    <2>2. \A q \in Passes, r \in Runs : Timely(q, r)'
      BY <1>5, <2>1 DEF Crash, Ownership, Timely, Active, Idle
    <2>3. \A q \in Passes, r \in Runs : Holds(q, r)' =>
            Holds(q, r) /\ fire'[q][r] = fire[q][r]
      BY <2>1 DEF Holds, Idle
    <2> QED
      BY <1>5, <2>2, <2>3, OwnershipKept DEF Crash
  <1>6. CASE \E p \in Passes : CancelContext(p)
    <2>1. ASSUME NEW q \in Passes, NEW r \in Runs
          PROVE  /\ fire'[q][r].pc = fire[q][r].pc
                 /\ fire'[q][r].began = fire[q][r].began
                 /\ fire'[q][r].tickTime = fire[q][r].tickTime
                 /\ fire'[q][r].attempt = fire[q][r].attempt
      <3>1. fire[q][r] \in Goroutine
        BY DEF TypeOK
      <3>2. PICK p \in Passes :
              fire' = [fire EXCEPT ![p] =
                         [s \in Runs |-> [fire[p][s] EXCEPT !.live = FALSE]]]
        BY <1>6 DEF CancelContext
      <3>3. \/ fire'[q][r] = fire[q][r]
            \/ fire'[q][r] = [fire[q][r] EXCEPT !.live = FALSE]
        BY <3>2 DEF TypeOK
      <3> QED
        BY <3>1, <3>3 DEF Goroutine
    <2>2. \A q \in Passes, r \in Runs : Timely(q, r)'
      BY <1>6, <2>1 DEF CancelContext, Ownership, Timely, Active
    <2>3. \A q \in Passes, r \in Runs : Holds(q, r)' => Holds(q, r)
      BY <2>1 DEF Holds
    <2> QED
      BY <1>6, <2>1, <2>2, <2>3, OwnershipKept DEF CancelContext
  <1>7. CASE \E p \in Passes, r \in Runs : Step(p, r)
    BY <1>7, StepOwnership
  <1>8. CASE Advance
    <2>1. ASSUME NEW p \in Passes, NEW r \in Runs PROVE Timely(p, r)'
      <3>1. fire[p][r] \in Goroutine /\ now \in Nat
        BY DEF TypeOK
      <3>2. Timely(p, r)
        BY DEF Ownership
      <3> QED
        BY <1>8, <3>1, <3>2, SchedulerAssumption
           DEF Advance, Timely, Active, Goroutine
    <2> QED
      BY <1>8, <2>1, OwnershipKept DEF Advance, Holds
  <1>9. CASE UNCHANGED vars
    BY <1>9, OwnershipKept DEF vars, Ownership, Timely, Active, Holds
  <1> QED
    BY <1>1, <1>2, <1>3, <1>4, <1>5, <1>6, <1>7, <1>8, <1>9 DEF Next

\* Under the one assumption that a fire cannot outlast the lease on its claim,
\* the owner of a claim works on a row that is still as its claim left it.
THEOREM OwnershipHolds ==
  ASSUME LeaseOutlastsFire PROVE Spec => []Ownership
  <1>1. TypeOK /\ TypeOK' /\ Ownership /\ [Next]_vars => Ownership'
    BY NextOwnership
  <1> QED
    BY <1>1, InitOwnership, TypeCorrect, PTL DEF Spec

\* ClaimForFiring's compare-and-swap and lease give every claim one owner,
\* whatever number of passes and instances run.
THEOREM SingleOwner ==
  ASSUME LeaseOutlastsFire PROVE Spec => []AtMostOneHolder
  <1>1. Ownership => AtMostOneHolder
    BY DEF Ownership, Owned, AtMostOneHolder
  <1> QED
    BY <1>1, OwnershipHolds, PTL

\* No run is ever notified twice.
THEOREM NotifiedOnce ==
  ASSUME LeaseOutlastsFire PROVE Spec => []OneNotification
  <1>1. Ownership => OneNotification
    BY DEF Ownership, Owned, OneNotification
  <1> QED
    BY <1>1, OwnershipHolds, PTL

\* What a statement of the engine may do to a row nobody owns and nobody may claim.
LEMMA StepNeedsOwner ==
  ASSUME TypeOK, NEW p \in Passes, NEW r \in Runs, Step(p, r),
         ~Held(r), ~Claimable(r, fire[p][r].tickTime)
  PROVE  runs'[r] = runs[r] /\ inbox'[r] = inbox[r]
  BY DEF Step, Claim, ClaimMissed, ClaimReplyLost, Delivered, NotDelivered,
         ScheduleRetry, GiveUp, Notify, Held, Holds, ClaimForFiring

\* Once a run is notified, only the cascade of a DELETE changes it.
THEOREM NotifiedStays ==
  ASSUME LeaseOutlastsFire PROVE Spec => NotifiedIsFinal
  <1> DEFINE Stays == \A r \in Runs : notifications[r] # {} =>
                        runs'[r] = runs[r] \/ runs'[r].status = "deleted"
  <1>1. ASSUME TypeOK, Ownership, [Next]_vars PROVE Stays
    <2> SUFFICES ASSUME NEW r \in Runs, notifications[r] # {}
                 PROVE  runs'[r] = runs[r] \/ runs'[r].status = "deleted"
      OBVIOUS
    <2>0. runs[r].status \in {"fired", "failed"} /\ ~Held(r)
      BY <1>1 DEF Ownership, Owned
    <2>1. CASE \E s \in Runs : CreateSchedule(s)
      BY <1>1, <2>0, <2>1 DEF CreateSchedule, Create, TypeOK, RepoTypeOK
    <2>2. CASE \E s \in Runs : CancelSchedule(s)
      BY <1>1, <2>0, <2>2 DEF CancelSchedule, Cancel, TypeOK, RepoTypeOK
    <2>3. CASE \E a \in Appliances : DeleteAppliance(a)
      <3>1. runs'[r] \in {runs[r], [runs[r] EXCEPT !.status = "deleted"]}
            /\ inbox' = inbox
        BY <2>3 DEF DeleteAppliance, BeginDelete, FinishDelete
      <3>2. [runs[r] EXCEPT !.status = "deleted"].status = "deleted"
        BY <1>1 DEF TypeOK, RepoTypeOK, Row
      <3> QED
        BY <3>1, <3>2
    <2>4. CASE \E p \in Passes, s \in Runs : Step(p, s)
      <3>1. PICK p \in Passes, s \in Runs : Step(p, s)
        BY <2>4
      <3>2. CASE s # r
        BY <1>1, <3>1, <3>2, StepFrame DEF Frame
      <3>3. CASE s = r
        <4>1. ~Claimable(r, fire[p][r].tickTime)
          BY <2>0 DEF Claimable, WaitIsOver, ClaimAbandoned
        <4> QED
          BY <1>1, <2>0, <3>1, <3>3, <4>1, StepNeedsOwner
      <3> QED
        BY <3>2, <3>3
    <2> QED
      BY <1>1, <2>1, <2>2, <2>3, <2>4
         DEF Next, Dispatch, Crash, CancelContext, Advance, vars
  <1>2. TypeOK /\ Ownership /\ [Next]_vars => [Stays]_vars
    BY <1>1
  <1> QED
    BY <1>2, TypeCorrect, OwnershipHolds, PTL DEF Spec, NotifiedIsFinal

\* A run that was cancelled in time is not delivered, by anyone, ever.
THEOREM CancelledStays ==
  ASSUME LeaseOutlastsFire PROVE Spec => CancelIsFinal
  <1> DEFINE Stays == \A r \in Runs : runs[r].status = "cancelled" =>
                        /\ runs'[r].status \in {"cancelled", "deleted"}
                        /\ inbox'[r] = inbox[r]
  <1>1. ASSUME TypeOK, Ownership, [Next]_vars PROVE Stays
    <2> SUFFICES ASSUME NEW r \in Runs, runs[r].status = "cancelled"
                 PROVE  /\ runs'[r].status \in {"cancelled", "deleted"}
                        /\ inbox'[r] = inbox[r]
      OBVIOUS
    <2>0. ~Held(r)
      BY <1>1 DEF Ownership, Owned, KnowsRow, Held
    <2>1. CASE \E s \in Runs : CreateSchedule(s)
      BY <1>1, <2>1 DEF CreateSchedule, Create, TypeOK, RepoTypeOK
    <2>2. CASE \E s \in Runs : CancelSchedule(s)
      BY <1>1, <2>2 DEF CancelSchedule, Cancel, TypeOK, RepoTypeOK
    <2>3. CASE \E a \in Appliances : DeleteAppliance(a)
      <3>1. runs'[r] \in {runs[r], [runs[r] EXCEPT !.status = "deleted"]}
            /\ inbox' = inbox
        BY <2>3 DEF DeleteAppliance, BeginDelete, FinishDelete
      <3>2. [runs[r] EXCEPT !.status = "deleted"].status = "deleted"
        BY <1>1 DEF TypeOK, RepoTypeOK, Row
      <3> QED
        BY <3>1, <3>2
    <2>4. CASE \E p \in Passes, s \in Runs : Step(p, s)
      <3>1. PICK p \in Passes, s \in Runs : Step(p, s)
        BY <2>4
      <3>2. CASE s # r
        BY <1>1, <3>1, <3>2, StepFrame DEF Frame
      <3>3. CASE s = r
        <4>1. ~Claimable(r, fire[p][r].tickTime)
          BY DEF Claimable, WaitIsOver, ClaimAbandoned
        <4> QED
          BY <1>1, <2>0, <3>1, <3>3, <4>1, StepNeedsOwner
      <3> QED
        BY <3>2, <3>3
    <2> QED
      BY <1>1, <2>1, <2>2, <2>3, <2>4
         DEF Next, Dispatch, Crash, CancelContext, Advance, vars
  <1>2. TypeOK /\ Ownership /\ [Next]_vars => [Stays]_vars
    BY <1>1
  <1> QED
    BY <1>2, TypeCorrect, OwnershipHolds, PTL DEF Spec, CancelIsFinal
-----------------------------------------------------------------------------
(***************************************************************************)
(* Scheduler implements RunContract, for every value of the constants that *)
(* keeps a fire shorter than the lease.                                    *)
(***************************************************************************)

PostsInv == \A r \in Runs : PostsAreOld(r)
-----------------------------------------------------------------------------
(* The order of posts. *)

\* The effect of a goroutine's step on what the posts of its run depend on.
LEMMA StepOnPosts ==
  ASSUME LeaseOutlastsFire, TypeOK, Ownership,
         NEW p \in Passes, NEW r \in Runs, Step(p, r)
  PROVE  \/ /\ inbox'[r] = inbox[r]
            /\ runs'[r].attemptCount = runs[r].attemptCount
            /\ fire'[p][r].pc # "send"
         \/ /\ inbox'[r] = Append(inbox[r], runs[r].attemptCount)
            /\ runs' = runs /\ notifications' = notifications
            /\ fire[p][r].pc = "send" /\ fire'[p][r].pc # "send"
            /\ runs[r].status \in {"fired", "deleted"}
         \/ /\ inbox'[r] = inbox[r] /\ ~Held(r)
            /\ runs'[r].attemptCount = runs[r].attemptCount + 1
            /\ runs[r].status \in {"pending", "fired"}
            /\ notifications[r] = {} /\ notifications' = notifications
            /\ runs'[r].status = "fired"
  <1> DEFINE g == fire[p][r]
  <1>g. g \in Goroutine /\ runs[r] \in Row /\ inbox[r] \in Seq(Nat)
    BY DEF TypeOK, RepoTypeOK
  <1>o. Holds(p, r) => KnowsRow(p, r)
    BY DEF Ownership, Owned
  <1>c. ASSUME ClaimForFiring(r, g.tickTime), Active(p, r)
        PROVE  /\ ~Held(r)
               /\ runs'[r].attemptCount = runs[r].attemptCount + 1
               /\ runs[r].status \in {"pending", "fired"}
               /\ notifications[r] = {} /\ notifications' = notifications
               /\ runs'[r].status = "fired"
    <2>1. ~Held(r) /\ notifications[r] = {}
      BY <1>c, ClaimableIsFree DEF ClaimForFiring
    <2>2. runs[r].status \in {"pending", "fired"}
      BY <1>c DEF ClaimForFiring, Claimable, WaitIsOver, ClaimAbandoned
    <2> QED
      BY <1>c, <1>g, <2>1, <2>2 DEF ClaimForFiring, TypeOK, RepoTypeOK, Row
  <1>1. CASE Claim(p, r)
    BY <1>1, <1>c DEF Claim, Active
  <1>2. CASE ClaimMissed(p, r)
    BY <1>2 DEF ClaimMissed, Return, Set, TypeOK, Idle
  <1>3. CASE ClaimReplyLost(p, r)
    BY <1>3, <1>c DEF ClaimReplyLost, Active
  <1>4. CASE Delivered(p, r)
    <2>1. fire'[p][r].pc = "notify"
      BY <1>4, <1>g DEF Delivered, Set, TypeOK, Goroutine
    <2>2. inbox'[r] = Append(inbox[r], g.attempt)
      BY <1>4 DEF Delivered, TypeOK
    <2> QED
      BY <1>4, <1>o, <2>1, <2>2 DEF Delivered, Holds, KnowsRow
  <1>5. CASE NotDelivered(p, r)
    <2>1. fire'[p][r].pc \in {"retry", "fail"}
      <3>1. CASE g.attempt < MaxAttempts
        <4>1. PICK t \in Clock :
                Set(p, r, [g EXCEPT !.pc = "retry", !.next = t + RetryDelay(g.attempt)])
          BY <1>5, <3>1 DEF NotDelivered
        <4>2. g.attempt \in Nat /\ now \in Nat
          BY <1>g DEF TypeOK, Goroutine
        <4>3. t + RetryDelay(g.attempt) \in Int
          BY <4>2, ClockType, RetryDelayType
        <4>4. PICK n \in Int : fire'[p][r] = [g EXCEPT !.pc = "retry", !.next = n]
          BY <4>1, <4>3 DEF Set, TypeOK
        <4> QED
          BY <1>g, <4>4 DEF Goroutine
      <3>2. CASE ~(g.attempt < MaxAttempts)
        BY <1>5, <1>g, <3>2 DEF NotDelivered, Set, TypeOK, Goroutine
      <3> QED
        BY <3>1, <3>2
    <2>2. inbox'[r] = inbox[r] \/ inbox'[r] = Append(inbox[r], g.attempt)
      BY <1>5 DEF NotDelivered, TypeOK
    <2> QED
      BY <1>5, <1>o, <2>1, <2>2 DEF NotDelivered, Holds, KnowsRow
  <1>6. CASE ScheduleRetry(p, r)
    <2>1. fire'[p][r].pc # "send" /\ inbox' = inbox
      BY <1>6 DEF ScheduleRetry, Return, Set, TypeOK, Idle
    <2>2. \/ runs'[r] = runs[r]
          \/ runs'[r] = [runs[r] EXCEPT !.status = "pending", !.nextAttemptAt = g.next]
      BY <1>6 DEF ScheduleRetry, MarkRetry, repoVars, TypeOK, RepoTypeOK
    <2> QED
      BY <1>g, <2>1, <2>2 DEF Row
  <1>7. CASE GiveUp(p, r)
    <2>1. fire'[p][r].pc # "send" /\ inbox' = inbox
      BY <1>7, <1>g DEF GiveUp, Set, TypeOK, Goroutine
    <2>2. \/ runs'[r] = runs[r]
          \/ runs'[r] = [runs[r] EXCEPT !.status = "failed"]
      BY <1>7 DEF GiveUp, MarkFailed, repoVars, TypeOK, RepoTypeOK
    <2> QED
      BY <1>g, <2>1, <2>2 DEF Row
  <1>8. CASE Notify(p, r)
    BY <1>8 DEF Notify, CreateNotification, repoVars, Return, Set, TypeOK, Idle
  <1> QED
    BY <1>1, <1>2, <1>3, <1>4, <1>5, <1>6, <1>7, <1>8 DEF Step

\* The other actions post nothing, count nothing, and let nobody send.
LEMMA OthersOnPosts ==
  ASSUME TypeOK, PostsInv, [Next]_vars,
         ~(\E p \in Passes, r \in Runs : Step(p, r))
  PROVE  /\ inbox' = inbox
         /\ \A r \in Runs : runs'[r].attemptCount = runs[r].attemptCount
         /\ \A r \in Runs : runs'[r].status = "absent" => runs[r].status = "absent"
         /\ \A p \in Passes, r \in Runs :
              fire'[p][r].pc = "send" => fire[p][r].pc = "send"
  <1>0. \A r \in Runs : runs[r] \in Row
    BY DEF TypeOK, RepoTypeOK
  <1>1. CASE \E r \in Runs : CreateSchedule(r)
    <2>1. PICK r \in Runs, a \in Appliances, s \in StartTimes, h \in BOOLEAN :
            Create(r, a, s, h) /\ UNCHANGED <<fire, inbox, now, faults>>
      BY <1>1 DEF CreateSchedule
    <2>2. runs'[r].attemptCount = 0 /\ runs'[r].status = "pending"
      BY <2>1 DEF Create, AbsentRow, TypeOK, RepoTypeOK
    <2>3. runs[r].attemptCount = 0
      BY <2>1 DEF Create, PostsInv, PostsAreOld
    <2>4. \A s2 \in Runs \ {r} : runs'[s2] = runs[s2]
      BY <2>1 DEF Create, TypeOK, RepoTypeOK
    <2> QED
      BY <2>1, <2>2, <2>3, <2>4
  <1>2. CASE \E r \in Runs : CancelSchedule(r)
    <2>1. PICK r \in Runs : CancelSchedule(r)
      BY <1>2
    <2>2. \A s \in Runs : \/ runs'[s] = runs[s]
                          \/ runs'[s] = [runs[s] EXCEPT !.status = "cancelled"]
      BY <2>1 DEF CancelSchedule, Cancel, TypeOK, RepoTypeOK
    <2> QED
      BY <1>0, <2>1, <2>2 DEF CancelSchedule, Row
  <1>3. CASE \E a \in Appliances : DeleteAppliance(a)
    <2>1. \A s \in Runs : \/ runs'[s] = runs[s]
                          \/ runs'[s] = [runs[s] EXCEPT !.status = "deleted"]
      BY <1>3 DEF DeleteAppliance, BeginDelete, FinishDelete
    <2> QED
      BY <1>0, <1>3, <2>1 DEF DeleteAppliance, Row
  <1>4. CASE \E p \in Passes : Dispatch(p)
    BY <1>4 DEF Dispatch, Spawned, Idle, TypeOK
  <1>5. CASE \E p \in Passes : Crash(p)
    BY <1>5 DEF Crash, Idle, TypeOK
  <1>6. CASE \E p \in Passes : CancelContext(p)
    <2>1. \A q \in Passes, r \in Runs : fire'[q][r].pc = fire[q][r].pc
      <3>1. \A q \in Passes, r \in Runs : fire[q][r] \in Goroutine
        BY DEF TypeOK
      <3>2. PICK p \in Passes :
              fire' = [fire EXCEPT ![p] =
                         [s \in Runs |-> [fire[p][s] EXCEPT !.live = FALSE]]]
        BY <1>6 DEF CancelContext
      <3>3. ASSUME NEW q \in Passes, NEW r \in Runs
            PROVE  fire'[q][r].pc = fire[q][r].pc
        <4>1. \/ fire'[q][r] = fire[q][r]
              \/ fire'[q][r] = [fire[q][r] EXCEPT !.live = FALSE]
          BY <3>2 DEF TypeOK
        <4>2. fire[q][r] \in Goroutine
          BY <3>1
        <4> QED
          BY <4>1, <4>2 DEF Goroutine
      <3> QED
        BY <3>3
    <2> QED
      BY <1>6, <2>1 DEF CancelContext
  <1>7. CASE Advance \/ UNCHANGED vars
    BY <1>7 DEF Advance, vars
  <1> QED
    BY <1>1, <1>2, <1>3, <1>4, <1>5, <1>6, <1>7 DEF Next

\* No step of the system disturbs the account of the posts: what a row counts, what
\* its goroutine is about to send, and what the receiver saw, stay in step.
LEMMA NextPosts ==
  ASSUME LeaseOutlastsFire, TypeOK, TypeOK', Ownership, PostsInv, [Next]_vars
  PROVE  PostsInv' /\ (AttemptsInOrder => AttemptsInOrder')
  <1>t. \A r \in Runs : /\ runs[r].attemptCount \in Nat
                        /\ runs'[r].attemptCount \in Nat
                        /\ inbox[r] \in Seq(Nat) /\ inbox'[r] \in Seq(Nat)
    BY DEF TypeOK, RepoTypeOK, Row
  <1>1. CASE \E p \in Passes, r \in Runs : Step(p, r)
    <2>1. PICK p \in Passes, r \in Runs : Step(p, r)
      BY <1>1
    <2>f. Frame(p, r)
      BY <2>1, StepFrame
    <2>2. ASSUME NEW s \in Runs \ {r}
          PROVE  PostsAreOld(s)' /\ inbox'[s] = inbox[s]
      BY <2>f DEF Frame, PostsInv, PostsAreOld
    <2>3. \A q \in Passes : fire[q][r].pc = "send" => Holds(q, r)
      BY DEF Holds
    <2>4. \A q, u \in Passes : Holds(q, r) /\ Holds(u, r) => q = u
      BY DEF Ownership, Owned
    <2>5. PostsAreOld(r)
      BY DEF PostsInv
    <2>6. /\ PostsAreOld(r)'
          /\ AttemptsInOrder =>
               \A i, j \in DOMAIN inbox'[r] : i < j => inbox'[r][i] < inbox'[r][j]
      <3>1. CASE /\ inbox'[r] = inbox[r]
                 /\ runs'[r].attemptCount = runs[r].attemptCount
                 /\ fire'[p][r].pc # "send"
        <4>1. \A q \in Passes : fire'[q][r].pc = "send" => fire[q][r].pc = "send"
          BY <2>f, <3>1 DEF Frame
        <4>2. runs'[r].status = "absent" => runs[r].status = "absent"
          <5> SUFFICES ASSUME runs'[r] # runs[r] PROVE runs'[r].status # "absent"
            OBVIOUS
          <5>1. \/ ClaimForFiring(r, fire[p][r].tickTime)
                \/ MarkRetry(r, fire[p][r].next)
                \/ MarkFailed(r)
            BY <2>1 DEF Step, Claim, ClaimMissed, ClaimReplyLost, Delivered,
               NotDelivered, ScheduleRetry, GiveUp, Notify, CreateNotification, repoVars
          <5>2. runs[r] \in Row
            BY DEF TypeOK, RepoTypeOK
          <5>3. CASE ClaimForFiring(r, fire[p][r].tickTime)
            BY <5>2, <5>3 DEF ClaimForFiring, TypeOK, RepoTypeOK, Row
          <5>4. CASE MarkRetry(r, fire[p][r].next)
            <6>1. runs'[r] = [runs[r] EXCEPT !.status = "pending",
                                             !.nextAttemptAt = fire[p][r].next]
              BY <5>4 DEF MarkRetry, TypeOK, RepoTypeOK
            <6> QED
              BY <5>2, <6>1 DEF Row
          <5>5. CASE MarkFailed(r)
            <6>1. runs'[r] = [runs[r] EXCEPT !.status = "failed"]
              BY <5>5 DEF MarkFailed, TypeOK, RepoTypeOK
            <6> QED
              BY <5>2, <6>1 DEF Row
          <5> QED
            BY <5>1, <5>3, <5>4, <5>5
        <4> QED
          BY <2>5, <3>1, <4>1, <4>2 DEF PostsAreOld, AttemptsInOrder
      <3>2. CASE /\ inbox'[r] = Append(inbox[r], runs[r].attemptCount)
                 /\ runs' = runs
                 /\ fire[p][r].pc = "send" /\ fire'[p][r].pc # "send"
        <4>1. \A q \in Passes : fire'[q][r].pc # "send"
          BY <2>f, <2>3, <2>4, <3>2 DEF Frame
        <4>2. \A i \in DOMAIN inbox[r] : inbox[r][i] < runs[r].attemptCount
          BY <2>5, <3>2 DEF PostsAreOld
        <4>3. /\ DOMAIN inbox[r] = 1 .. Len(inbox[r])
              /\ DOMAIN inbox'[r] = 1 .. Len(inbox[r]) + 1
              /\ Len(inbox[r]) \in Nat
              /\ \A i \in 1 .. Len(inbox[r]) : inbox'[r][i] = inbox[r][i]
              /\ inbox'[r][Len(inbox[r]) + 1] = runs[r].attemptCount
          BY <1>t, <3>2
        <4>4. \A i \in DOMAIN inbox[r] : inbox[r][i] \in Nat
          BY <1>t
        <4>5. \A i \in DOMAIN inbox'[r] : inbox'[r][i] <= runs'[r].attemptCount
          BY <1>t, <3>2, <4>2, <4>3, <4>4
        <4>6. PostsAreOld(r)'
          BY <2>5, <3>2, <4>1, <4>5 DEF PostsAreOld
        <4>7. AttemptsInOrder =>
                \A i, j \in DOMAIN inbox'[r] : i < j => inbox'[r][i] < inbox'[r][j]
          <5> SUFFICES ASSUME AttemptsInOrder,
                              NEW i \in DOMAIN inbox'[r], NEW j \in DOMAIN inbox'[r],
                              i < j
                       PROVE  inbox'[r][i] < inbox'[r][j]
            OBVIOUS
          <5>1. CASE j \in DOMAIN inbox[r]
            <6>1. i \in DOMAIN inbox[r]
              BY <4>3, <5>1
            <6> QED
              BY <4>3, <5>1, <6>1 DEF AttemptsInOrder
          <5>2. CASE j = Len(inbox[r]) + 1
            <6>1. i \in DOMAIN inbox[r]
              BY <4>3, <5>2
            <6> QED
              BY <4>2, <4>3, <5>2, <6>1
          <5> QED
            BY <4>3, <5>1, <5>2
        <4> QED
          BY <4>6, <4>7
      <3>3. CASE /\ inbox'[r] = inbox[r] /\ ~Held(r)
                 /\ runs'[r].attemptCount = runs[r].attemptCount + 1
                 /\ runs'[r].status = "fired"
        <4>1. \A i \in DOMAIN inbox[r] : inbox[r][i] \in Nat
          BY <1>t
        <4> QED
          BY <1>t, <2>5, <3>3, <4>1 DEF PostsAreOld, AttemptsInOrder
      <3> QED
        BY <2>1, <3>1, <3>2, <3>3, StepOnPosts
    <2>7. PostsInv'
      BY <2>2, <2>6 DEF PostsInv
    <2> QED
      BY <2>2, <2>6, <2>7 DEF AttemptsInOrder
  <1>2. CASE ~(\E p \in Passes, r \in Runs : Step(p, r))
    BY <1>2, OthersOnPosts DEF PostsInv, PostsAreOld, AttemptsInOrder
  <1> QED
    BY <1>1, <1>2

\* Before the first pass nothing is posted and nothing is counted.
LEMMA InitPosts == Init => PostsInv /\ AttemptsInOrder
  BY DEF Init, RepoInit, AbsentRow, Idle, PostsInv, PostsAreOld, AttemptsInOrder

\* The webhook posts of a run never run ahead of the attempts its claims counted.
THEOREM PostsHold == ASSUME LeaseOutlastsFire PROVE Spec => []PostsInv
  <1>1. TypeOK /\ TypeOK' /\ Ownership /\ PostsInv /\ [Next]_vars => PostsInv'
    BY NextPosts
  <1> QED
    BY <1>1, InitPosts, TypeCorrect, OwnershipHolds, PTL DEF Spec

\* The receiver of a webhook sees the attempts of a run in increasing order.
THEOREM PostsInOrder == ASSUME LeaseOutlastsFire PROVE Spec => []AttemptsInOrder
  <1>1. TypeOK /\ TypeOK' /\ Ownership /\ PostsInv /\ AttemptsInOrder /\ [Next]_vars
          => AttemptsInOrder'
    BY NextPosts
  <1> QED
    BY <1>1, InitPosts, TypeCorrect, OwnershipHolds, PostsHold, PTL DEF Spec
-----------------------------------------------------------------------------
(* Refinement. *)

PhaseMap == [r \in Runs |-> PhaseOf(r)]
AttemptMap == [r \in Runs |-> runs[r].attemptCount]

\* A change to one run, seen through the mapping.
LEMMA MapFrame ==
  ASSUME NEW r \in Runs,
         \A s \in Runs \ {r} : runs'[s] = runs[s] /\ notifications'[s] = notifications[s]
  PROVE  /\ PhaseMap' = [PhaseMap EXCEPT ![r] = PhaseOf(r)']
         /\ AttemptMap' = [AttemptMap EXCEPT ![r] = runs'[r].attemptCount]
         /\ PhaseMap[r] = PhaseOf(r) /\ AttemptMap[r] = runs[r].attemptCount
  <1>1. \A s \in Runs \ {r} : PhaseOf(s)' = PhaseOf(s)
    BY DEF PhaseOf
  <1>2. PhaseMap' = [PhaseMap EXCEPT ![r] = PhaseOf(r)']
    BY <1>1 DEF PhaseMap
  <1>3. AttemptMap' = [AttemptMap EXCEPT ![r] = runs'[r].attemptCount]
    BY DEF AttemptMap
  <1> QED
    BY <1>2, <1>3 DEF PhaseMap, AttemptMap

\* A change to one run that leaves phase, attempt and posts as they were.
LEMMA MapStutters ==
  ASSUME NEW r \in Runs,
         \A s \in Runs \ {r} : runs'[s] = runs[s] /\ notifications'[s] = notifications[s],
         PhaseOf(r)' = PhaseOf(r), runs'[r].attemptCount = runs[r].attemptCount
  PROVE  PhaseMap' = PhaseMap /\ AttemptMap' = AttemptMap
  BY MapFrame DEF PhaseMap, AttemptMap

\* An empty table maps to a contract whose runs are not yet created.
LEMMA InitRefines == Init => Contract!Init
  BY DEF Init, RepoInit, AbsentRow, Contract!Init, PhaseOf

\* A statement or call of one fire is a step of the contract, or none.
LEMMA StepRefines ==
  ASSUME LeaseOutlastsFire, TypeOK, TypeOK', Ownership, PostsInv,
         NEW p \in Passes, NEW r \in Runs, Step(p, r)
  PROVE  \/ Contract!Next
         \/ PhaseMap' = PhaseMap /\ AttemptMap' = AttemptMap /\ inbox' = inbox
  <1> DEFINE g == fire[p][r]
  <1>f. Frame(p, r)
    BY StepFrame
  <1>m. \A s \in Runs \ {r} : runs'[s] = runs[s] /\ notifications'[s] = notifications[s]
    BY <1>f DEF Frame
  <1>g. runs[r] \in Row /\ inbox[r] \in Seq(Nat) /\ inbox \in [Runs -> Seq(Nat)]
        /\ inbox' \in [Runs -> Seq(Nat)]
    BY DEF TypeOK, RepoTypeOK
  <1>i. inbox'[r] = inbox[r] => inbox' = inbox
    BY <1>f, <1>g DEF Frame
  <1>1. CASE /\ inbox'[r] = Append(inbox[r], runs[r].attemptCount)
             /\ runs' = runs /\ notifications' = notifications
             /\ fire[p][r].pc = "send"
             /\ runs[r].status \in {"fired", "deleted"}
    <2>1. PhaseOf(r) \in {"delivering", "deleted"}
      <3>1. notifications[r] = {}
        BY <1>1 DEF Ownership, Owned, Holds, KnowsRow
      <3> QED
        BY <1>1, <3>1 DEF PhaseOf
    <2>2. \A i \in DOMAIN inbox[r] : inbox[r][i] < runs[r].attemptCount
      BY <1>1 DEF PostsInv, PostsAreOld
    <2>3. inbox' = [inbox EXCEPT ![r] = Append(@, runs[r].attemptCount)]
      BY <1>1, <1>f, <1>g DEF Frame
    <2>4. PhaseMap' = PhaseMap /\ AttemptMap' = AttemptMap
      BY <1>1 DEF PhaseMap, AttemptMap, PhaseOf
    <2>5. Contract!Receive(r)
      BY <2>1, <2>2, <2>3, <2>4 DEF Contract!Receive, PhaseMap, AttemptMap
    <2> QED
      BY <2>5 DEF Contract!Next
  <1>2. CASE /\ inbox'[r] = inbox[r]
             /\ runs'[r].attemptCount = runs[r].attemptCount + 1
             /\ runs[r].status \in {"pending", "fired"}
             /\ notifications[r] = {} /\ notifications' = notifications
             /\ runs'[r].status = "fired"
    <2>1. PhaseOf(r) \in {"waiting", "delivering"} /\ PhaseOf(r)' = "delivering"
      BY <1>2 DEF PhaseOf
    <2>2. /\ PhaseMap' = [PhaseMap EXCEPT ![r] = "delivering"]
          /\ AttemptMap' = [AttemptMap EXCEPT ![r] = AttemptMap[r] + 1]
          /\ PhaseMap[r] \in {"waiting", "delivering"}
      BY <1>2, <1>m, <2>1, MapFrame
    <2>3. Contract!Deliver(r)
      BY <1>2, <1>i, <2>2 DEF Contract!Deliver, Contract!Move, PhaseMap, AttemptMap
    <2> QED
      BY <2>3 DEF Contract!Next
  <1>3. CASE /\ inbox'[r] = inbox[r]
             /\ runs'[r].attemptCount = runs[r].attemptCount
    <2>1. CASE ScheduleRetry(p, r)
      <3>1. Holds(p, r) /\ KnowsRow(p, r)
        BY <2>1 DEF ScheduleRetry, Holds, Ownership, Owned
      <3>2. notifications' = notifications /\ notifications[r] = {}
        BY <2>1, <3>1 DEF ScheduleRetry, MarkRetry, repoVars, KnowsRow
      <3>3. CASE runs'[r] = runs[r]
        BY <1>3, <1>i, <1>m, <3>2, <3>3, MapStutters DEF PhaseOf
      <3>4. CASE runs'[r] # runs[r]
        <4>1. runs[r].status = "fired" /\ MarkRetry(r, g.next)
          BY <2>1, <3>4 DEF ScheduleRetry, MarkRetry, repoVars
        <4>2. runs'[r].status = "pending"
          <5>1. runs'[r] = [runs[r] EXCEPT !.status = "pending",
                                           !.nextAttemptAt = g.next]
            BY <4>1 DEF MarkRetry, TypeOK, RepoTypeOK
          <5> QED
            BY <1>g, <5>1 DEF Row
        <4>3. PhaseOf(r) = "delivering" /\ PhaseOf(r)' = "waiting"
          BY <3>2, <4>1, <4>2 DEF PhaseOf
        <4>4. /\ PhaseMap' = [PhaseMap EXCEPT ![r] = "waiting"]
              /\ AttemptMap' = AttemptMap /\ PhaseMap[r] = "delivering"
          BY <1>3, <1>m, <4>3, MapFrame DEF AttemptMap
        <4>5. Contract!PutOff(r)
          BY <1>3, <1>i, <4>4 DEF Contract!PutOff, Contract!Move, PhaseMap, AttemptMap
        <4> QED
          BY <4>5 DEF Contract!Next
      <3> QED
        BY <3>3, <3>4
    <2>2. CASE GiveUp(p, r)
      <3>1. KnowsRow(p, r) /\ runs[r].status \in {"fired", "deleted"}
        BY <2>2 DEF GiveUp, Holds, Ownership, Owned, KnowsRow
      <3>2. notifications' = notifications /\ notifications[r] = {}
        BY <2>2, <3>1 DEF GiveUp, MarkFailed, repoVars, KnowsRow
      <3>3. \/ runs'[r] = runs[r]
            \/ runs[r].status = "fired" /\ runs'[r].status = "failed"
        BY <2>2, <3>1, <1>g DEF GiveUp, MarkFailed, Exists, repoVars,
                                TypeOK, RepoTypeOK, Row
      <3>4. PhaseOf(r)' = PhaseOf(r)
        BY <3>2, <3>3 DEF PhaseOf
      <3> QED
        BY <1>3, <1>i, <1>m, <3>4, MapStutters
    <2>3. CASE Notify(p, r)
      <3>1. KnowsRow(p, r)
        BY <2>3 DEF Notify, Holds, Ownership, Owned
      <3>2. runs' = runs /\ notifications[r] = {}
        BY <2>3, <3>1 DEF Notify, CreateNotification, repoVars, KnowsRow
      <3>3. CASE notifications'[r] = {}
        BY <1>3, <1>i, <1>m, <3>2, <3>3, MapStutters DEF PhaseOf
      <3>4. CASE notifications'[r] # {}
        <4>1. Exists(r)
          BY <2>3, <3>2, <3>4 DEF Notify, CreateNotification, repoVars
        <4>2. PhaseOf(r) = "delivering" /\ PhaseOf(r)' = "notified"
          BY <3>1, <3>2, <3>4, <4>1 DEF PhaseOf, KnowsRow, Exists
        <4>3. /\ PhaseMap' = [PhaseMap EXCEPT ![r] = "notified"]
              /\ AttemptMap' = AttemptMap /\ PhaseMap[r] = "delivering"
          BY <1>3, <1>m, <4>2, MapFrame DEF AttemptMap
        <4>4. Contract!Notify(r)
          BY <1>3, <1>i, <4>3 DEF Contract!Notify, Contract!Move, PhaseMap, AttemptMap
        <4> QED
          BY <4>4 DEF Contract!Next
      <3> QED
        BY <3>3, <3>4
    <2>4. CASE ClaimMissed(p, r) \/ Delivered(p, r) \/ NotDelivered(p, r)
      <3>1. runs' = runs /\ notifications' = notifications
        BY <2>4 DEF ClaimMissed, Delivered, NotDelivered
      <3> QED
        BY <1>3, <1>i, <3>1 DEF PhaseMap, AttemptMap, PhaseOf
    <2>5. CASE Claim(p, r) \/ ClaimReplyLost(p, r)
      <3>1. runs'[r].attemptCount = runs[r].attemptCount + 1
        BY <2>5, <1>g DEF Claim, ClaimReplyLost, ClaimForFiring, TypeOK, RepoTypeOK, Row
      <3>2. runs[r].attemptCount \in Nat
        BY <1>g DEF Row
      <3> QED
        BY <1>3, <3>1, <3>2
    <2> QED
      BY <2>1, <2>2, <2>3, <2>4, <2>5 DEF Step
  <1> QED
    BY <1>1, <1>2, <1>3, StepOnPosts

\* Every step of the system is a step of the contract, or none.
LEMMA NextRefines ==
  ASSUME LeaseOutlastsFire, TypeOK, TypeOK', Ownership, PostsInv, [Next]_vars
  PROVE  \/ Contract!Next
         \/ PhaseMap' = PhaseMap /\ AttemptMap' = AttemptMap /\ inbox' = inbox
  <1>0. \A r \in Runs : runs[r] \in Row
    BY DEF TypeOK, RepoTypeOK
  <1>1. CASE \E r \in Runs : CreateSchedule(r)
    <2>1. PICK r \in Runs, a \in Appliances, s \in StartTimes, h \in BOOLEAN :
            Create(r, a, s, h) /\ UNCHANGED <<fire, inbox, now, faults>>
      BY <1>1 DEF CreateSchedule
    <2>2. \A s2 \in Runs \ {r} :
            runs'[s2] = runs[s2] /\ notifications'[s2] = notifications[s2]
      BY <2>1 DEF Create, TypeOK, RepoTypeOK
    <2>3. runs'[r].attemptCount = 0 /\ runs'[r].status = "pending"
      BY <2>1 DEF Create, AbsentRow, TypeOK, RepoTypeOK
    <2>4. runs[r].attemptCount = 0 /\ runs[r].status = "absent"
      BY <2>1 DEF Create, PostsInv, PostsAreOld
    <2>5. PhaseOf(r) = "absent" /\ PhaseOf(r)' = "waiting"
      BY <2>3, <2>4 DEF PhaseOf
    <2>6. /\ PhaseMap' = [PhaseMap EXCEPT ![r] = "waiting"]
          /\ AttemptMap' = AttemptMap /\ PhaseMap[r] = "absent"
      <3>1. /\ PhaseMap' = [PhaseMap EXCEPT ![r] = "waiting"]
            /\ PhaseMap[r] = "absent"
        BY <2>2, <2>5, MapFrame
      <3>2. \A s2 \in Runs : runs'[s2].attemptCount = runs[s2].attemptCount
        BY <2>2, <2>3, <2>4
      <3> QED
        BY <3>1, <3>2 DEF AttemptMap
    <2>7. Contract!Accept(r)
      BY <2>1, <2>6 DEF Contract!Accept, Contract!Move, PhaseMap, AttemptMap
    <2> QED
      BY <2>7 DEF Contract!Next
  <1>2. CASE \E r \in Runs : CancelSchedule(r)
    <2>1. PICK r \in Runs : CancelSchedule(r)
      BY <1>2
    <2>2. \A s \in Runs \ {r} :
            runs'[s] = runs[s] /\ notifications'[s] = notifications[s]
      BY <2>1 DEF CancelSchedule, Cancel, TypeOK, RepoTypeOK
    <2>3. runs'[r] = [runs[r] EXCEPT !.status = "cancelled"]
      BY <2>1 DEF CancelSchedule, Cancel, TypeOK, RepoTypeOK
    <2>4. runs'[r].status = "cancelled" /\ runs'[r].attemptCount = runs[r].attemptCount
      BY <1>0, <2>3 DEF Row
    <2>5. PhaseOf(r) = "waiting" /\ PhaseOf(r)' = "cancelled"
      BY <2>1, <2>4 DEF CancelSchedule, Cancel, PhaseOf
    <2>6. /\ PhaseMap' = [PhaseMap EXCEPT ![r] = "cancelled"]
          /\ AttemptMap' = AttemptMap /\ PhaseMap[r] = "waiting"
      BY <2>2, <2>4, <2>5, MapFrame DEF AttemptMap
    <2>7. Contract!Cancel(r)
      BY <2>1, <2>6 DEF CancelSchedule, Contract!Cancel, Contract!Move,
                        PhaseMap, AttemptMap
    <2> QED
      BY <2>7 DEF Contract!Next
  <1>3. CASE \E a \in Appliances : DeleteAppliance(a)
    <2>1. PICK a \in Appliances : BeginDelete(a) \/ FinishDelete(a)
      BY <1>3 DEF DeleteAppliance
    <2>2. inbox' = inbox
      BY <1>3 DEF DeleteAppliance
    <2>3. CASE BeginDelete(a)
      BY <2>2, <2>3 DEF BeginDelete, PhaseMap, AttemptMap, PhaseOf
    <2>4. CASE FinishDelete(a)
      <3> DEFINE S == {r \in Runs : Exists(r) /\ runs[r].app = a}
      <3>1. ASSUME NEW r \in S
            PROVE  /\ PhaseOf(r)' = "deleted" /\ PhaseOf(r) # "absent"
                   /\ runs'[r].attemptCount = runs[r].attemptCount
        <4>1. runs'[r] = [runs[r] EXCEPT !.status = "deleted"]
          BY <2>4 DEF FinishDelete
        <4>2. runs'[r].status = "deleted" /\ runs'[r].attemptCount = runs[r].attemptCount
          BY <1>0, <4>1 DEF Row
        <4> QED
          BY <4>2 DEF PhaseOf, Exists
      <3>2. ASSUME NEW r \in Runs \ S
            PROVE  /\ PhaseOf(r)' = PhaseOf(r)
                   /\ runs'[r].attemptCount = runs[r].attemptCount
        BY <2>4 DEF FinishDelete, PhaseOf
      <3>3. PhaseMap' = [r \in Runs |-> IF r \in S THEN "deleted" ELSE PhaseMap[r]]
        BY <3>1, <3>2 DEF PhaseMap
      <3>4. AttemptMap' = AttemptMap
        BY <3>1, <3>2 DEF AttemptMap
      <3>5. \A r \in S : PhaseMap[r] # "absent"
        BY <3>1 DEF PhaseMap
      <3>6. Contract!Drop(S)
        BY <2>2, <3>3, <3>4, <3>5 DEF Contract!Drop, PhaseMap, AttemptMap
      <3> QED
        BY <3>6 DEF Contract!Next
    <2> QED
      BY <2>1, <2>3, <2>4
  <1>4. CASE \E p \in Passes : Dispatch(p) \/ Crash(p) \/ CancelContext(p)
    BY <1>4 DEF Dispatch, Crash, CancelContext, PhaseMap, AttemptMap, PhaseOf
  <1>5. CASE \E p \in Passes, r \in Runs : Step(p, r)
    BY <1>5, StepRefines
  <1>6. CASE Advance \/ UNCHANGED vars
    BY <1>6 DEF Advance, vars, PhaseMap, AttemptMap, PhaseOf
  <1> QED
    BY <1>1, <1>2, <1>3, <1>4, <1>5, <1>6 DEF Next

\* The scheduler implements the contract of a scheduled run, as long as a fire
\* cannot outlast the lease: with any number of passes, faults and deletions.
THEOREM SchedulerImplementsContract ==
  ASSUME LeaseOutlastsFire PROVE Spec => ImplementsContract
  <1>1. TypeOK /\ TypeOK' /\ Ownership /\ PostsInv /\ [Next]_vars
          => [Contract!Next]_(Contract!contractVars)
    BY NextRefines DEF PhaseMap, AttemptMap, Contract!contractVars
  <1> QED
    BY <1>1, InitRefines, TypeCorrect, OwnershipHolds, PostsHold, PTL
       DEF Spec, ImplementsContract, Contract!Spec
-----------------------------------------------------------------------------
(***************************************************************************)
(* What becomes of a run.                                                  *)
(***************************************************************************)

(* The effect of each statement of a fire on its row and its goroutine,    *)
(* field by field.                                                         *)

\* There is at least one attempt.
LEMMA BudgetType == MaxAttempts \in Nat /\ MaxAttempts >= 1
  <1>1. MaxAttempts \in Nat /\ MaxAttempts # 0
    BY SchedulerAssumption
  <1> QED
    BY <1>1

\* A statement fails only when its context is done, or it is a fault.
LEMMA FailsFact ==
  ASSUME faults \in Nat, NEW g, Fails(g)
  PROVE  \/ ~g.live /\ faults' = faults
         \/ faults' = faults + 1 /\ FaultKinds # {}
  BY DEF Fails, Fault

\* The claim is counted, dated with the clock of the tick and told to the goroutine.
LEMMA ClaimWritten ==
  ASSUME TypeOK, NEW r \in Runs, NEW t \in Int, ClaimForFiring(r, t)
  PROVE  /\ runs'[r].status = "fired" /\ runs'[r].firedAt = t
         /\ runs'[r].attemptCount = runs[r].attemptCount + 1
         /\ runs'[r].hook = runs[r].hook
         /\ notifications' = notifications
         /\ runs[r].status \in {"pending", "fired"}
  BY DEF ClaimForFiring, Claimable, WaitIsOver, ClaimAbandoned, TypeOK, RepoTypeOK, Row

\* A claim whose reply arrives: the goroutine goes on to the webhook, or to the
\* notification if there is none.
LEMMA ClaimEffect ==
  ASSUME TypeOK, NEW p \in Passes, NEW r \in Runs, Claim(p, r)
  PROVE  /\ fire[p][r].pc = "claim" /\ fire'[p][r].live
         /\ fire'[p][r].pc = IF runs[r].hook \/ DefaultHook THEN "send" ELSE "notify"
         /\ fire'[p][r].delivered = fire[p][r].delivered
         /\ ClaimForFiring(r, fire[p][r].tickTime)
         /\ inbox' = inbox /\ faults' = faults
  <1> DEFINE g == fire[p][r]
  <1>1. g \in Goroutine
    BY DEF TypeOK
  <1>2. fire'[p][r] = [g EXCEPT !.pc = IF runs[r].hook \/ DefaultHook
                                       THEN "send" ELSE "notify",
                                !.attempt = runs[r].attemptCount + 1]
    BY DEF Claim, Set, TypeOK
  <1>3. /\ fire'[p][r].pc = IF runs[r].hook \/ DefaultHook THEN "send" ELSE "notify"
        /\ fire'[p][r].live = g.live
        /\ fire'[p][r].delivered = g.delivered
    BY <1>1, <1>2 DEF Goroutine
  <1> QED
    BY <1>3 DEF Claim, Succeeds

\* A claim that matches no row, or fails: the goroutine is done, and the tables are as
\* they were.
LEMMA ClaimMissedEffect ==
  ASSUME TypeOK, NEW p \in Passes, NEW r \in Runs, ClaimMissed(p, r)
  PROVE  /\ fire[p][r].pc = "claim" /\ fire'[p][r] = Idle
         /\ runs' = runs /\ notifications' = notifications /\ inbox' = inbox
         /\ faults' = faults \/ faults' = faults + 1
  BY FailsFact DEF ClaimMissed, Return, Set, Succeeds, TypeOK

\* A claim whose reply is lost: the row is claimed, and nobody works on it.
LEMMA ClaimReplyLostEffect ==
  ASSUME TypeOK, NEW p \in Passes, NEW r \in Runs, ClaimReplyLost(p, r)
  PROVE  /\ fire[p][r].pc = "claim" /\ fire'[p][r] = Idle
         /\ ClaimForFiring(r, fire[p][r].tickTime)
         /\ inbox' = inbox /\ faults' = faults + 1 /\ FaultKinds # {}
  BY DEF ClaimReplyLost, Return, Set, Fault, TypeOK

\* A POST whose answer arrives: the receiver has accepted the goroutine's attempt.
LEMMA DeliveredEffect ==
  ASSUME TypeOK, NEW p \in Passes, NEW r \in Runs, Delivered(p, r)
  PROVE  /\ fire[p][r].pc = "send" /\ fire'[p][r].pc = "notify"
         /\ fire'[p][r].live = fire[p][r].live
         /\ fire'[p][r].attempt = fire[p][r].attempt /\ fire'[p][r].delivered
         /\ inbox'[r] = Append(inbox[r], fire[p][r].attempt)
         /\ runs' = runs /\ notifications' = notifications /\ faults' = faults
  <1>1. fire[p][r] \in Goroutine
    BY DEF TypeOK
  <1>2. fire'[p][r] = [fire[p][r] EXCEPT !.pc = "notify", !.delivered = TRUE]
    BY DEF Delivered, Set, TypeOK
  <1>3. inbox'[r] = Append(inbox[r], fire[p][r].attempt)
    BY DEF Delivered, TypeOK
  <1> QED
    BY <1>1, <1>2, <1>3 DEF Delivered, Goroutine

\* A POST without a good answer: a retry after the backoff while attempts are left,
\* else the failure; the receiver has accepted it only if its answer was lost.
LEMMA NotDeliveredEffect ==
  ASSUME TypeOK, NEW p \in Passes, NEW r \in Runs, NotDelivered(p, r)
  PROVE  /\ fire[p][r].pc = "send"
         /\ \/ /\ fire'[p][r].pc = "retry" /\ fire[p][r].attempt < MaxAttempts
               /\ fire'[p][r].next >= now - Skew + RetryDelay(fire[p][r].attempt)
            \/ fire'[p][r].pc = "fail"
         /\ fire'[p][r].live = fire[p][r].live
         /\ fire'[p][r].attempt = fire[p][r].attempt
         /\ fire'[p][r].tickTime = fire[p][r].tickTime
         /\ fire'[p][r].delivered = fire[p][r].delivered
         /\ \/ inbox'[r] = inbox[r]
            \/ /\ "lost" \in Outcomes \/ ~fire[p][r].live
               /\ inbox'[r] = Append(inbox[r], fire[p][r].attempt)
         /\ runs' = runs /\ notifications' = notifications /\ faults' = faults
  <1> DEFINE g == fire[p][r]
  <1>1. g \in Goroutine /\ g.attempt \in Nat /\ now \in Nat
    BY DEF TypeOK, Goroutine
  <1>2. \/ inbox'[r] = inbox[r]
        \/ /\ "lost" \in Outcomes \/ ~g.live
           /\ inbox'[r] = Append(inbox[r], g.attempt)
    BY DEF NotDelivered, TypeOK
  <1>3. CASE g.attempt < MaxAttempts
    <2>1. PICK t \in Clock :
            Set(p, r, [g EXCEPT !.pc = "retry", !.next = t + RetryDelay(g.attempt)])
      BY <1>3 DEF NotDelivered
    <2>2. /\ t + RetryDelay(g.attempt) \in Int
          /\ t + RetryDelay(g.attempt) >= now - Skew + RetryDelay(g.attempt)
      BY <1>1, ClockType, RetryDelayType, SchedulerAssumption
    <2>3. PICK n \in Int : /\ n >= now - Skew + RetryDelay(g.attempt)
                           /\ fire'[p][r] = [g EXCEPT !.pc = "retry", !.next = n]
      BY <2>1, <2>2 DEF Set, TypeOK
    <2>4. /\ fire'[p][r].pc = "retry" /\ fire'[p][r].next = n
          /\ fire'[p][r].live = g.live /\ fire'[p][r].attempt = g.attempt
          /\ fire'[p][r].tickTime = g.tickTime /\ fire'[p][r].delivered = g.delivered
      BY <1>1, <2>3 DEF Goroutine
    <2> QED
      BY <1>2, <1>3, <2>3, <2>4 DEF NotDelivered
  <1>4. CASE ~(g.attempt < MaxAttempts)
    <2>1. fire'[p][r] = [g EXCEPT !.pc = "fail"]
      BY <1>4 DEF NotDelivered, Set, TypeOK
    <2>2. /\ fire'[p][r].pc = "fail"
          /\ fire'[p][r].live = g.live /\ fire'[p][r].attempt = g.attempt
          /\ fire'[p][r].tickTime = g.tickTime /\ fire'[p][r].delivered = g.delivered
      BY <1>1, <2>1 DEF Goroutine
    <2> QED
      BY <1>2, <2>2 DEF NotDelivered
  <1> QED
    BY <1>3, <1>4

\* MarkRetry: the row waits again, unless it is no longer fired or the statement fails.
LEMMA ScheduleRetryEffect ==
  ASSUME TypeOK, NEW p \in Passes, NEW r \in Runs, ScheduleRetry(p, r)
  PROVE  /\ fire[p][r].pc = "retry" /\ fire'[p][r] = Idle
         /\ inbox' = inbox /\ notifications' = notifications
         /\ \/ /\ runs[r].status = "fired" /\ runs'[r].status = "pending"
               /\ runs'[r].nextAttemptAt = fire[p][r].next
               /\ runs'[r].firedAt = runs[r].firedAt
               /\ runs'[r].attemptCount = runs[r].attemptCount
               /\ runs'[r].hook = runs[r].hook
               /\ faults' = faults
            \/ /\ runs'[r] = runs[r]
               /\ \/ runs[r].status # "fired" /\ faults' = faults
                  \/ ~fire[p][r].live /\ faults' = faults
                  \/ faults' = faults + 1 /\ FaultKinds # {}
  <1> DEFINE g == fire[p][r]
  <1>1. g \in Goroutine /\ g.next \in Int /\ runs[r] \in Row /\ faults \in Nat
    BY DEF TypeOK, RepoTypeOK, Goroutine
  <1>2. fire'[p][r] = Idle
    BY DEF ScheduleRetry, Return, Set, TypeOK
  <1>3. CASE Succeeds(g) /\ MarkRetry(r, g.next)
    <2>1. CASE runs[r].status = "fired"
      <3>1. runs'[r] = [runs[r] EXCEPT !.status = "pending", !.nextAttemptAt = g.next]
        BY <1>3, <2>1 DEF MarkRetry, TypeOK, RepoTypeOK
      <3>2. /\ runs'[r].status = "pending" /\ runs'[r].nextAttemptAt = g.next
            /\ runs'[r].firedAt = runs[r].firedAt
            /\ runs'[r].attemptCount = runs[r].attemptCount
            /\ runs'[r].hook = runs[r].hook
        BY <1>1, <3>1 DEF Row
      <3> QED
        BY <1>2, <1>3, <2>1, <3>2 DEF ScheduleRetry, Succeeds, MarkRetry
    <2>2. CASE runs[r].status # "fired"
      BY <1>2, <1>3, <2>2 DEF ScheduleRetry, Succeeds, MarkRetry
    <2> QED
      BY <2>1, <2>2
  <1>4. CASE Fails(g) /\ UNCHANGED repoVars
    BY <1>1, <1>2, <1>4, FailsFact DEF ScheduleRetry, repoVars
  <1> QED
    BY <1>3, <1>4 DEF ScheduleRetry

\* MarkFailed: the row has failed, unless it is gone or the statement fails; the
\* notification comes next either way.
LEMMA GiveUpEffect ==
  ASSUME TypeOK, NEW p \in Passes, NEW r \in Runs, GiveUp(p, r)
  PROVE  /\ fire[p][r].pc = "fail" /\ fire'[p][r].pc = "notify"
         /\ fire'[p][r].live = fire[p][r].live
         /\ fire'[p][r].attempt = fire[p][r].attempt
         /\ fire'[p][r].delivered = fire[p][r].delivered
         /\ inbox' = inbox /\ notifications' = notifications
         /\ runs'[r].firedAt = runs[r].firedAt
         /\ runs'[r].attemptCount = runs[r].attemptCount
         /\ runs'[r].hook = runs[r].hook
         /\ \/ Exists(r) /\ runs'[r].status = "failed" /\ faults' = faults
            \/ /\ runs'[r].status = runs[r].status
               /\ \/ ~Exists(r) /\ faults' = faults
                  \/ ~fire[p][r].live /\ faults' = faults
                  \/ faults' = faults + 1 /\ FaultKinds # {}
  <1> DEFINE g == fire[p][r]
  <1>1. g \in Goroutine /\ runs[r] \in Row /\ faults \in Nat
    BY DEF TypeOK, RepoTypeOK
  <1>2. fire'[p][r] = [g EXCEPT !.pc = "notify"]
    BY DEF GiveUp, Set, TypeOK
  <1>3. /\ fire'[p][r].pc = "notify" /\ fire'[p][r].live = g.live
        /\ fire'[p][r].attempt = g.attempt /\ fire'[p][r].delivered = g.delivered
    BY <1>1, <1>2 DEF Goroutine
  <1>4. CASE Succeeds(g) /\ MarkFailed(r)
    <2>1. CASE Exists(r)
      <3>1. runs'[r] = [runs[r] EXCEPT !.status = "failed"]
        BY <1>4, <2>1 DEF MarkFailed, TypeOK, RepoTypeOK
      <3>2. /\ runs'[r].status = "failed" /\ runs'[r].firedAt = runs[r].firedAt
            /\ runs'[r].attemptCount = runs[r].attemptCount
            /\ runs'[r].hook = runs[r].hook
        BY <1>1, <3>1 DEF Row
      <3> QED
        BY <1>3, <1>4, <2>1, <3>2 DEF GiveUp, Succeeds, MarkFailed
    <2>2. CASE ~Exists(r)
      BY <1>3, <1>4, <2>2 DEF GiveUp, Succeeds, MarkFailed
    <2> QED
      BY <2>1, <2>2
  <1>5. CASE Fails(g) /\ UNCHANGED repoVars
    BY <1>1, <1>3, <1>5, FailsFact DEF GiveUp, repoVars
  <1> QED
    BY <1>4, <1>5 DEF GiveUp

\* The notification names the goroutine's attempt and outcome; it is missing only if
\* the run is gone or the statement fails.
LEMMA NotifyEffect ==
  ASSUME TypeOK, NEW p \in Passes, NEW r \in Runs, Notify(p, r)
  PROVE  /\ fire[p][r].pc = "notify" /\ fire'[p][r] = Idle
         /\ inbox' = inbox /\ runs' = runs
         /\ \/ /\ Exists(r) /\ faults' = faults
               /\ notifications'[r] = notifications[r] \cup
                    {[attempt |-> fire[p][r].attempt, delivered |-> fire[p][r].delivered]}
               /\ notifications'[r] # {}
            \/ /\ notifications'[r] = notifications[r]
               /\ \/ ~Exists(r) /\ faults' = faults
                  \/ ~fire[p][r].live /\ faults' = faults
                  \/ faults' = faults + 1 /\ FaultKinds # {}
  <1> DEFINE g == fire[p][r]
             note == [attempt |-> g.attempt, delivered |-> g.delivered]
  <1>1. faults \in Nat
    BY DEF TypeOK
  <1>2. fire'[p][r] = Idle
    BY DEF Notify, Return, Set, TypeOK
  <1>3. CASE Succeeds(g) /\ CreateNotification(r, note)
    <2>1. Exists(r) => /\ notifications'[r] = notifications[r] \cup {note}
                       /\ notifications'[r] # {}
      BY <1>3 DEF CreateNotification, TypeOK, RepoTypeOK
    <2> QED
      BY <1>2, <1>3, <2>1 DEF Notify, Succeeds, CreateNotification
  <1>4. CASE Fails(g) /\ UNCHANGED repoVars
    BY <1>1, <1>2, <1>4, FailsFact DEF Notify, repoVars
  <1> QED
    BY <1>3, <1>4 DEF Notify
-----------------------------------------------------------------------------
(* The effect of everything else. *)

\* What a row may become by the hand of the API.
RowByAPI(r) ==
  \/ runs'[r] = runs[r] /\ notifications'[r] = notifications[r]
  \/ /\ runs[r].status = "absent" /\ runs'[r].status = "pending"
     /\ runs'[r].attemptCount = 0 /\ notifications'[r] = notifications[r]
  \/ /\ runs[r].status = "pending" /\ runs'[r].status = "cancelled"
     /\ runs'[r].attemptCount = runs[r].attemptCount
     /\ notifications'[r] = notifications[r]
  \/ /\ Exists(r) /\ runs'[r].status = "deleted"
     /\ runs'[r].attemptCount = runs[r].attemptCount
     /\ notifications'[r] = {}

\* What a goroutine may become without a statement of its own.
GoroutineByOthers(p, r) ==
  \/ fire'[p][r] = fire[p][r]
  \/ /\ fire[p][r].pc = "idle" /\ fire'[p][r].pc \in {"idle", "claim"}
     /\ ~fire'[p][r].delivered /\ (Active(p, r)' => fire'[p][r].live)
  \/ fire'[p][r] = Idle /\ faults' = faults + 1 /\ FaultKinds # {}
  \/ /\ faults' = faults + 1 /\ FaultKinds # {}
     /\ fire'[p][r].pc = fire[p][r].pc /\ ~fire'[p][r].live
     /\ fire'[p][r].tickTime = fire[p][r].tickTime
     /\ fire'[p][r].attempt = fire[p][r].attempt
     /\ fire'[p][r].next = fire[p][r].next
     /\ fire'[p][r].delivered = fire[p][r].delivered

\* A step that is no statement of a fire touches rows and goroutines in these ways
\* only.
LEMMA OthersEffect ==
  ASSUME TypeOK, [Next]_vars, ~(\E p \in Passes, r \in Runs : Step(p, r))
  PROVE  /\ inbox' = inbox /\ faults' \in {faults, faults + 1}
         /\ \A r \in Runs : RowByAPI(r)
         /\ \A p \in Passes, r \in Runs : GoroutineByOthers(p, r)
  <1>0. /\ \A r \in Runs : runs[r] \in Row
        /\ \A p \in Passes, r \in Runs : fire[p][r] \in Goroutine
    BY DEF TypeOK, RepoTypeOK
  <1>1. CASE \E r \in Runs : CreateSchedule(r)
    <2>1. PICK r \in Runs, a \in Appliances, s \in StartTimes, h \in BOOLEAN :
            Create(r, a, s, h) /\ UNCHANGED <<fire, inbox, now, faults>>
      BY <1>1 DEF CreateSchedule
    <2>2. runs'[r].attemptCount = 0 /\ runs'[r].status = "pending"
      BY <2>1 DEF Create, AbsentRow, TypeOK, RepoTypeOK
    <2>3. \A q \in Runs \ {r} : runs'[q] = runs[q]
      BY <2>1 DEF Create, TypeOK, RepoTypeOK
    <2> QED
      BY <2>1, <2>2, <2>3 DEF Create, RowByAPI, GoroutineByOthers
  <1>2. CASE \E r \in Runs : CancelSchedule(r)
    <2>1. PICK r \in Runs : CancelSchedule(r)
      BY <1>2
    <2>2. runs'[r] = [runs[r] EXCEPT !.status = "cancelled"]
      BY <2>1 DEF CancelSchedule, Cancel, TypeOK, RepoTypeOK
    <2>3. /\ runs'[r].status = "cancelled"
          /\ runs'[r].attemptCount = runs[r].attemptCount
      BY <1>0, <2>2 DEF Row
    <2>4. \A q \in Runs \ {r} : runs'[q] = runs[q]
      BY <2>1 DEF CancelSchedule, Cancel, TypeOK, RepoTypeOK
    <2> QED
      BY <2>1, <2>3, <2>4 DEF CancelSchedule, Cancel, RowByAPI, GoroutineByOthers
  <1>3. CASE \E a \in Appliances : DeleteAppliance(a)
    <2>1. PICK a \in Appliances : BeginDelete(a) \/ FinishDelete(a)
      BY <1>3 DEF DeleteAppliance
    <2>2. UNCHANGED <<fire, inbox, now, faults>>
      BY <1>3 DEF DeleteAppliance
    <2>3. ASSUME NEW r \in Runs PROVE RowByAPI(r)
      <3>1. CASE BeginDelete(a)
        BY <3>1 DEF BeginDelete, RowByAPI
      <3>2. CASE FinishDelete(a)
        <4>1. \/ runs'[r] = runs[r] /\ notifications'[r] = notifications[r]
              \/ /\ Exists(r) /\ runs'[r] = [runs[r] EXCEPT !.status = "deleted"]
                 /\ notifications'[r] = {}
          BY <3>2 DEF FinishDelete
        <4> QED
          BY <1>0, <4>1 DEF RowByAPI, Row
      <3> QED
        BY <2>1, <3>1, <3>2
    <2> QED
      BY <2>2, <2>3 DEF GoroutineByOthers
  <1>4. CASE \E p \in Passes : Dispatch(p)
    <2>1. PICK p \in Passes, t \in Clock, batch \in SUBSET Runs :
            /\ \A r \in Runs : ~Active(p, r)
            /\ fire' = [fire EXCEPT ![p] =
                          [r \in Runs |-> IF r \in batch THEN Spawned(t) ELSE Idle]]
            /\ UNCHANGED <<runs, notifications, appliances, deleting, inbox, now, faults>>
      BY <1>4 DEF Dispatch, FindDuePending
    <2>2. \A r \in Runs : fire'[p][r] \in {Spawned(t), Idle}
      BY <2>1 DEF TypeOK
    <2>3. \A q \in Passes \ {p}, r \in Runs : fire'[q][r] = fire[q][r]
      BY <2>1 DEF TypeOK
    <2>4. ASSUME NEW r \in Runs PROVE GoroutineByOthers(p, r)
      <3>1. fire[p][r].pc = "idle"
        BY <2>1 DEF Active
      <3>2. CASE fire'[p][r] = Spawned(t)
        BY <3>1, <3>2 DEF GoroutineByOthers, Spawned
      <3>3. CASE fire'[p][r] = Idle
        BY <3>1, <3>3 DEF GoroutineByOthers, Active, Idle
      <3> QED
        BY <2>2, <3>2, <3>3
    <2>5. \A q \in Passes, r \in Runs : GoroutineByOthers(q, r)
      BY <2>3, <2>4 DEF GoroutineByOthers
    <2> QED
      BY <2>1, <2>5 DEF RowByAPI
  <1>5. CASE \E p \in Passes : Crash(p)
    <2>1. \A q \in Passes, r \in Runs : fire'[q][r] \in {fire[q][r], Idle}
      BY <1>5 DEF Crash, TypeOK
    <2> QED
      BY <1>5, <2>1 DEF Crash, Fault, RowByAPI, GoroutineByOthers
  <1>6. CASE \E p \in Passes : CancelContext(p)
    <2>1. PICK p \in Passes :
            fire' = [fire EXCEPT ![p] =
                       [s \in Runs |-> [fire[p][s] EXCEPT !.live = FALSE]]]
      BY <1>6 DEF CancelContext
    <2>2. faults' = faults + 1 /\ FaultKinds # {}
          /\ UNCHANGED <<runs, notifications, appliances, deleting, inbox, now>>
      BY <1>6 DEF CancelContext, Fault
    <2>3. ASSUME NEW q \in Passes, NEW r \in Runs PROVE GoroutineByOthers(q, r)
      <3>1. \/ fire'[q][r] = fire[q][r]
            \/ fire'[q][r] = [fire[q][r] EXCEPT !.live = FALSE]
        BY <2>1 DEF TypeOK
      <3>2. CASE fire'[q][r] = [fire[q][r] EXCEPT !.live = FALSE]
        <4>1. fire[q][r] \in Goroutine
          BY <1>0
        <4> QED
          BY <2>2, <3>2, <4>1 DEF GoroutineByOthers, Goroutine
      <3> QED
        BY <3>1, <3>2 DEF GoroutineByOthers
    <2> QED
      BY <2>2, <2>3 DEF RowByAPI
  <1>7. CASE Advance \/ UNCHANGED vars
    BY <1>7 DEF Advance, vars, RowByAPI, GoroutineByOthers
  <1> QED
    BY <1>1, <1>2, <1>3, <1>4, <1>5, <1>6, <1>7 DEF Next
-----------------------------------------------------------------------------
(* The invariants. *)

\* The attempts of a run the receiver accepted.
Accepted(r) == {inbox[r][i] : i \in DOMAIN inbox[r]}

\* A goroutine about to report a delivery has made it.
ReportsTruly(r) ==
  \A p \in Passes : fire[p][r].delivered =>
    fire[p][r].pc = "notify" /\ fire[p][r].attempt \in Accepted(r)

\* An attempt beyond the budget, now or later, is one some fault has paid for.
Budgeted(r) ==
  LET count == runs[r].attemptCount
      paid == MaxAttempts + faults
  IN  /\ count <= paid
      /\ runs[r].status = "pending" => count < paid
      /\ runs[r].status = "fired" /\ notifications[r] = {} /\ ~Held(r) => count < paid
      /\ \A p \in Passes :
           /\ Holds(p, r) /\ ~fire[p][r].live => count < paid
           /\ fire[p][r].pc = "retry" => fire[p][r].attempt < MaxAttempts

\* What a claimed row tells the next claimer: when it was claimed, and until when
\* the backoff holds.
Dated(r) ==
  LET row == runs[r]
  IN  /\ row.status = "fired" => row.firedAt # NULL
      /\ row.status = "pending" /\ row.attemptCount > 0 =>
           /\ row.firedAt # NULL /\ row.nextAttemptAt # NULL
           /\ row.nextAttemptAt >= row.firedAt + RetryDelay(row.attemptCount) - 2 * Skew
      /\ \A p \in Passes :
           LET g == fire[p][r]
           IN  g.pc = "retry" => g.next >= g.tickTime + RetryDelay(g.attempt) - 2 * Skew

\* While nothing fails: every goroutine has its context, no claim is lost, and the
\* row says what its owner is about to report, and has reported.
Told(r) ==
  LET row == runs[r]
      hook == row.hook \/ DefaultHook
  IN  /\ \A p \in Passes : Active(p, r) => fire[p][r].live
      /\ row.status \in {"fired", "failed"} => notifications[r] # {} \/ Held(r)
      /\ hook =>
           /\ \A p \in Passes : fire[p][r].pc = "notify" /\ Exists(r) =>
                (row.status = "fired") = fire[p][r].delivered
           /\ \A note \in notifications[r] : (row.status = "fired") = note.delivered

\* While the answer of the receiver arrives, too: what it has once accepted is not
\* posted again.
Once(r) ==
  /\ Len(inbox[r]) <= 1
  /\ runs[r].status \in {"absent", "pending"} => inbox[r] = <<>>
  /\ \A p \in Passes : fire[p][r].pc \in {"send", "retry", "fail"} => inbox[r] = <<>>
-----------------------------------------------------------------------------
(* Reports are true. *)

\* What one more post adds to what the receiver accepted.
LEMMA AcceptedAfter ==
  ASSUME NEW r \in Runs, NEW n \in Nat, inbox[r] \in Seq(Nat),
         inbox'[r] = inbox[r] \/ inbox'[r] = Append(inbox[r], n)
  PROVE  /\ Accepted(r) \subseteq Accepted(r)'
         /\ inbox'[r] = Append(inbox[r], n) => n \in Accepted(r)'
  <1>1. CASE inbox'[r] = inbox[r] /\ inbox'[r] # Append(inbox[r], n)
    BY <1>1 DEF Accepted
  <1>2. CASE inbox'[r] = Append(inbox[r], n)
    <2>1. /\ DOMAIN inbox[r] = 1 .. Len(inbox[r]) /\ Len(inbox[r]) \in Nat
          /\ DOMAIN inbox'[r] = 1 .. Len(inbox[r]) + 1
          /\ \A i \in 1 .. Len(inbox[r]) : inbox'[r][i] = inbox[r][i]
          /\ inbox'[r][Len(inbox[r]) + 1] = n
      BY <1>2
    <2>2. ASSUME NEW m \in Accepted(r) PROVE m \in Accepted(r)'
      <3>1. PICK i \in DOMAIN inbox[r] : m = inbox[r][i]
        BY <2>2 DEF Accepted
      <3>2. i \in DOMAIN inbox'[r] /\ inbox'[r][i] = m
        BY <2>1, <3>1
      <3> QED
        BY <3>2 DEF Accepted
    <2>3. n \in Accepted(r)'
      <3>1. Len(inbox[r]) + 1 \in DOMAIN inbox'[r]
        BY <2>1
      <3> QED
        BY <2>1, <3>1 DEF Accepted
    <2> QED
      BY <2>2, <2>3
  <1> QED
    BY <1>1, <1>2

\* The reports of a run, under way and written, are about posts it made.
Truthful(r) ==
  /\ ReportsTruly(r)
  /\ \A note \in notifications[r] : note.delivered => note.attempt \in Accepted(r)

\* A goroutine that speaks for its own run keeps them so.
LEMMA StepTruthful ==
  ASSUME TypeOK, NEW p \in Passes, NEW r \in Runs, Step(p, r), Truthful(r)
  PROVE  Truthful(r)'
  <1> DEFINE g == fire[p][r]
  <1>t. g \in Goroutine /\ g.attempt \in Nat /\ inbox[r] \in Seq(Nat)
    BY DEF TypeOK, Goroutine
  <1>f. \A q \in Passes \ {p} : fire'[q][r] = fire[q][r]
    BY StepFrame DEF Frame
  <1>o. /\ \A q \in Passes : fire[q][r].delivered =>
             fire[q][r].pc = "notify" /\ fire[q][r].attempt \in Accepted(r)
        /\ \A note \in notifications[r] : note.delivered => note.attempt \in Accepted(r)
    BY DEF Truthful, ReportsTruly
  <1>b. Idle.delivered = FALSE
    BY DEF Idle
  \* It is enough that what was accepted stays, that this goroutine reports nothing
  \* else, and that no note is added that is not its own.
  <1>q. ASSUME Accepted(r) \subseteq Accepted(r)',
               fire'[p][r].delivered =>
                 fire'[p][r].pc = "notify" /\ fire'[p][r].attempt \in Accepted(r)',
               \A note \in notifications'[r] :
                 \/ note \in notifications[r]
                 \/ note.delivered => note.attempt \in Accepted(r)
        PROVE  Truthful(r)'
    <2>1. ASSUME NEW q \in Passes, fire'[q][r].delivered
          PROVE  fire'[q][r].pc = "notify" /\ fire'[q][r].attempt \in Accepted(r)'
      BY <1>f, <1>o, <1>q, <2>1
    <2>2. \A note \in notifications'[r] : note.delivered => note.attempt \in Accepted(r)'
      BY <1>o, <1>q
    <2> QED
      BY <2>1, <2>2 DEF Truthful, ReportsTruly
  <1>1. CASE Claim(p, r)
    <2>1. /\ g.pc = "claim" /\ fire'[p][r].delivered = g.delivered
          /\ notifications' = notifications /\ inbox' = inbox
      BY <1>1, ClaimEffect DEF ClaimForFiring
    <2> QED
      BY <1>o, <1>q, <2>1 DEF Accepted
  <1>2. CASE ClaimMissed(p, r)
    BY <1>2, <1>b, <1>q, ClaimMissedEffect DEF Accepted
  <1>3. CASE ClaimReplyLost(p, r)
    BY <1>3, <1>b, <1>q, ClaimReplyLostEffect DEF ClaimForFiring, Accepted
  <1>4. CASE Delivered(p, r)
    <2>1. Accepted(r) \subseteq Accepted(r)' /\ g.attempt \in Accepted(r)'
      BY <1>4, <1>t, DeliveredEffect, AcceptedAfter
    <2> QED
      BY <1>4, <1>q, <2>1, DeliveredEffect
  <1>5. CASE NotDelivered(p, r)
    <2>1. Accepted(r) \subseteq Accepted(r)'
      BY <1>5, <1>t, NotDeliveredEffect, AcceptedAfter
    <2>2. ~g.delivered
      BY <1>5, <1>o, NotDeliveredEffect
    <2> QED
      BY <1>5, <1>q, <2>1, <2>2, NotDeliveredEffect
  <1>6. CASE ScheduleRetry(p, r)
    BY <1>6, <1>b, <1>q, ScheduleRetryEffect DEF Accepted
  <1>7. CASE GiveUp(p, r)
    <2>1. ~g.delivered
      BY <1>7, <1>o, GiveUpEffect
    <2> QED
      BY <1>7, <1>q, <2>1, GiveUpEffect DEF Accepted
  <1>8. CASE Notify(p, r)
    <2> DEFINE note == [attempt |-> g.attempt, delivered |-> g.delivered]
    <2>1. note.delivered => note.attempt \in Accepted(r)
      BY <1>o
    <2>2. notifications'[r] \in {notifications[r], notifications[r] \cup {note}}
      BY <1>8, NotifyEffect
    <2>3. fire'[p][r] = Idle /\ Accepted(r) \subseteq Accepted(r)'
      BY <1>8, NotifyEffect DEF Accepted
    <2> HIDE DEF note
    <2> QED
      BY <1>b, <1>q, <2>1, <2>2, <2>3
  <1> QED
    BY <1>1, <1>2, <1>3, <1>4, <1>5, <1>6, <1>7, <1>8 DEF Step

\* So do the others.
LEMMA NextTruthful ==
  ASSUME TypeOK, [Next]_vars, \A r \in Runs : Truthful(r)
  PROVE  \A r \in Runs : Truthful(r)'
  <1>1. CASE \E p \in Passes, r \in Runs : Step(p, r)
    <2>1. PICK p \in Passes, r \in Runs : Step(p, r)
      BY <1>1
    <2>2. Truthful(r)'
      BY <2>1, StepTruthful
    <2>3. ASSUME NEW s \in Runs \ {r} PROVE Truthful(s)'
      <3>1. /\ \A q \in Passes : fire'[q][s] = fire[q][s]
            /\ notifications'[s] = notifications[s] /\ inbox'[s] = inbox[s]
        BY <2>1, StepFrame DEF Frame
      <3> QED
        BY <3>1 DEF Truthful, ReportsTruly, Accepted
    <2> QED
      BY <2>2, <2>3
  <1>2. CASE ~(\E p \in Passes, r \in Runs : Step(p, r))
    <2> SUFFICES ASSUME NEW r \in Runs PROVE Truthful(r)'
      OBVIOUS
    <2>1. /\ inbox' = inbox /\ RowByAPI(r)
          /\ \A p \in Passes : GoroutineByOthers(p, r)
      BY <1>2, OthersEffect
    <2>2. Accepted(r)' = Accepted(r)
      BY <2>1 DEF Accepted
    <2>3. \A note \in notifications'[r] : note \in notifications[r]
      BY <2>1 DEF RowByAPI
    <2>4. \A p \in Passes : fire'[p][r].delivered =>
            /\ fire[p][r].delivered
            /\ fire'[p][r].pc = fire[p][r].pc /\ fire'[p][r].attempt = fire[p][r].attempt
      BY <2>1 DEF GoroutineByOthers, Idle
    <2> QED
      BY <2>2, <2>3, <2>4 DEF Truthful, ReportsTruly
  <1> QED
    BY <1>1, <1>2

\* delivered_webhook is true of the attempt the notification names: whatever
\* crashes, races and faults come between the POST and the row, nobody reports a
\* delivery the receiver did not accept.
THEOREM ReportsAreTrue == Spec => []DeliveredIsTrue
  <1> DEFINE Inv == \A r \in Runs : Truthful(r)
  <1>1. Init => Inv
    BY DEF Init, RepoInit, Truthful, ReportsTruly, Idle
  <1>2. TypeOK /\ Inv /\ [Next]_vars => Inv'
    BY NextTruthful
  <1>3. Inv => DeliveredIsTrue
    BY DEF Truthful, DeliveredIsTrue, Accepted
  <1> HIDE DEF Inv
  <1> QED
    BY <1>1, <1>2, <1>3, TypeCorrect, PTL DEF Spec
-----------------------------------------------------------------------------
(* The budget of attempts. *)

\* No statement of a fire takes an attempt that is not paid for.
LEMMA StepBudgeted ==
  ASSUME LeaseOutlastsFire, TypeOK, TypeOK', Ownership, Ownership',
         NEW p \in Passes, NEW r \in Runs, Step(p, r), Budgeted(r)
  PROVE  Budgeted(r)' /\ faults' >= faults
  <1> DEFINE g == fire[p][r]
             count == runs[r].attemptCount
             paid == MaxAttempts + faults
  <1>t. /\ g \in Goroutine /\ g.tickTime \in Int /\ count \in Nat
        /\ faults \in Nat /\ faults' \in Nat /\ MaxAttempts \in Nat
        /\ fire'[p][r].attempt \in Nat
    BY SchedulerAssumption DEF TypeOK, RepoTypeOK, Row, Goroutine
  <1>f. \A q \in Passes \ {p} : fire'[q][r] = fire[q][r]
    BY StepFrame DEF Frame
  <1>o. Holds(p, r) => /\ runs[r].attemptCount = g.attempt
                       /\ \A q \in Passes : Holds(q, r) => q = p
    BY DEF Ownership, Owned, KnowsRow
  <1>b. /\ count <= paid
        /\ runs[r].status = "pending" => count < paid
        /\ runs[r].status = "fired" /\ notifications[r] = {} /\ ~Held(r) => count < paid
        /\ \A q \in Passes : /\ Holds(q, r) /\ ~fire[q][r].live => count < paid
                             /\ fire[q][r].pc = "retry" => fire[q][r].attempt < MaxAttempts
    BY DEF Budgeted
  <1>i. Idle.pc = "idle"
    BY DEF Idle
  \* The goroutine keeps its claim, or its unclaimed state.
  <1>k. ASSUME Holds(p, r), Holds(p, r)', faults' >= faults,
               runs'[r].attemptCount = count,
               runs'[r].status \in {"failed", runs[r].status},
               fire'[p][r].live = g.live,
               fire'[p][r].pc = "retry" => fire'[p][r].attempt < MaxAttempts
        PROVE  Budgeted(r)' /\ faults' >= faults
    <2>1. runs'[r].status # "pending"
      BY <1>k DEF Ownership, Owned, KnowsRow
    <2>2. Held(r)'
      BY <1>k DEF Held
    <2>3. \A q \in Passes : /\ Holds(q, r)' => q = p
                            /\ fire'[q][r].pc = "retry" => q = p
      BY <1>f, <1>k, <1>o DEF Holds
    <2>4. count <= MaxAttempts + faults'
      BY <1>b, <1>k, <1>t
    <2>5. \A q \in Passes :
            /\ Holds(q, r)' /\ ~fire'[q][r].live => count < MaxAttempts + faults'
            /\ fire'[q][r].pc = "retry" => fire'[q][r].attempt < MaxAttempts
      BY <1>b, <1>k, <1>t, <2>3
    <2>6. /\ runs'[r].attemptCount <= MaxAttempts + faults'
          /\ \A q \in Passes :
               Holds(q, r)' /\ ~fire'[q][r].live
                 => runs'[r].attemptCount < MaxAttempts + faults'
      BY <1>k, <2>4, <2>5
    <2>7. runs'[r].status # "pending" /\ Held(r)'
      BY <2>1, <2>2
    <2> QED
      BY <1>k, <2>5, <2>6, <2>7 DEF Budgeted
  \* The goroutine is gone, and the run has no owner: the next attempt has to be
  \* paid for.
  <1>e. ASSUME fire'[p][r] = Idle, \A q \in Passes \ {p} : ~Holds(q, r),
               faults' >= faults,
               runs'[r].attemptCount <= MaxAttempts + faults',
               runs'[r].status = "pending" \/
                 (runs'[r].status = "fired" /\ notifications'[r] = {})
                 => runs'[r].attemptCount < MaxAttempts + faults'
        PROVE  Budgeted(r)' /\ faults' >= faults
    <2>1. \A q \in Passes : ~Holds(q, r)' /\ fire'[q][r].pc # "retry"
      BY <1>e, <1>f, <1>i DEF Holds
    <2> QED
      BY <1>e, <2>1 DEF Budgeted
  <1>c. ASSUME ClaimForFiring(r, g.tickTime), Active(p, r)
        PROVE  /\ ~Held(r) /\ count < paid
               /\ runs'[r].attemptCount = count + 1 /\ runs'[r].status = "fired"
    <2>1. ~Held(r) /\ notifications[r] = {}
      BY <1>c, ClaimableIsFree DEF ClaimForFiring
    <2>2. /\ runs'[r].attemptCount = count + 1 /\ runs'[r].status = "fired"
          /\ runs[r].status \in {"pending", "fired"}
      BY <1>c, <1>t, ClaimWritten
    <2> QED
      BY <1>b, <2>1, <2>2
  <1>1. CASE Claim(p, r)
    <2>1. /\ ~Held(r) /\ count < paid
          /\ runs'[r].attemptCount = count + 1 /\ runs'[r].status = "fired"
      BY <1>1, <1>c, ClaimEffect DEF Active
    <2>2. /\ fire'[p][r].pc \in {"send", "notify"} /\ fire'[p][r].live
          /\ faults' = faults
      BY <1>1, ClaimEffect
    <2>3. \A q \in Passes : /\ Holds(q, r)' => q = p
                            /\ fire'[q][r].pc # "retry"
      BY <1>f, <2>1, <2>2 DEF Held, Holds
    <2>4. Held(r)'
      BY <2>2 DEF Held, Holds
    <2>5. count + 1 <= MaxAttempts + faults'
      BY <1>t, <2>1, <2>2
    <2> QED
      BY <1>t, <2>1, <2>2, <2>3, <2>4, <2>5 DEF Budgeted
  <1>2. CASE ClaimMissed(p, r)
    <2>1. /\ g.pc = "claim" /\ fire'[p][r] = Idle
          /\ runs' = runs /\ notifications' = notifications
          /\ faults' >= faults
      BY <1>2, <1>t, ClaimMissedEffect
    <2>2. \A q \in Passes : /\ Holds(q, r)' <=> Holds(q, r)
                            /\ Holds(q, r) => fire'[q][r] = fire[q][r]
                            /\ fire'[q][r].pc = "retry" => Holds(q, r)
      BY <1>f, <1>i, <2>1 DEF Holds
    <2>3. Held(r)' <=> Held(r)
      BY <2>2 DEF Held
    <2>4. \A q \in Passes : Holds(q, r) /\ ~fire[q][r].live => count < MaxAttempts + faults'
      BY <1>b, <1>t, <2>1
    <2>5. /\ count <= MaxAttempts + faults'
          /\ count < paid => count < MaxAttempts + faults'
      BY <1>b, <1>t, <2>1
    <2> QED
      BY <1>b, <2>1, <2>2, <2>3, <2>4, <2>5 DEF Budgeted
  <1>3. CASE ClaimReplyLost(p, r)
    <2>1. fire'[p][r] = Idle /\ faults' = faults + 1
      BY <1>3, ClaimReplyLostEffect
    <2>2. /\ ~Held(r) /\ count < paid
          /\ runs'[r].attemptCount = count + 1 /\ runs'[r].status = "fired"
      BY <1>3, <1>c, ClaimReplyLostEffect DEF Active
    <2> QED
      BY <1>e, <1>t, <2>1, <2>2 DEF Held
  <1>4. CASE Delivered(p, r)
    BY <1>4, <1>k, <1>t, DeliveredEffect DEF Holds
  <1>5. CASE NotDelivered(p, r)
    BY <1>5, <1>k, <1>t, NotDeliveredEffect DEF Holds
  <1>6. CASE ScheduleRetry(p, r)
    <2>1. /\ g.pc = "retry" /\ fire'[p][r] = Idle
          /\ faults' >= faults /\ runs'[r].attemptCount = count
      BY <1>6, <1>t, ScheduleRetryEffect
    <2>2. Holds(p, r)
      BY <2>1 DEF Holds
    <2>3. count < MaxAttempts
      BY <1>b, <1>o, <2>1, <2>2
    <2> QED
      BY <1>e, <1>o, <1>t, <2>1, <2>2, <2>3
  <1>7. CASE GiveUp(p, r)
    BY <1>7, <1>k, <1>t, GiveUpEffect DEF Holds
  <1>8. CASE Notify(p, r)
    <2>1. /\ g.pc = "notify" /\ fire'[p][r] = Idle
          /\ faults' >= faults /\ runs' = runs
      BY <1>8, <1>t, NotifyEffect
    <2>2. Holds(p, r)
      BY <2>1 DEF Holds
    <2>3. runs[r].status # "pending"
      BY <2>1, <2>2 DEF Ownership, Owned, KnowsRow
    <2>4. runs[r].status = "fired" /\ notifications'[r] = {} => count < MaxAttempts + faults'
      <3> SUFFICES ASSUME runs[r].status = "fired", notifications'[r] = {}
                   PROVE  count < MaxAttempts + faults'
        OBVIOUS
      <3>1. Exists(r)
        BY DEF Exists
      <3>2. (~g.live /\ faults' = faults) \/ faults' = faults + 1
        BY <1>8, <3>1, NotifyEffect
      <3> QED
        BY <1>b, <1>t, <2>2, <3>2
    <2>5. count <= MaxAttempts + faults'
      BY <1>b, <1>t, <2>1
    <2> QED
      BY <1>e, <1>o, <2>1, <2>2, <2>3, <2>4, <2>5
  <1> QED
    BY <1>1, <1>2, <1>3, <1>4, <1>5, <1>6, <1>7, <1>8 DEF Step

\* Nor does anything else: a lost owner is a fault, which pays for the reclaim.
LEMMA OthersBudgeted ==
  ASSUME TypeOK, TypeOK', [Next]_vars, ~(\E p \in Passes, r \in Runs : Step(p, r)),
         NEW r \in Runs, Budgeted(r)
  PROVE  Budgeted(r)'
  <1> DEFINE count == runs[r].attemptCount
             paid == MaxAttempts + faults
             after == MaxAttempts + faults'
  <1>t. /\ count \in Nat /\ faults \in Nat /\ MaxAttempts \in Nat
        /\ after \in Nat /\ 0 < after
    <2>1. count \in Nat /\ faults \in Nat
      BY DEF TypeOK, RepoTypeOK, Row
    <2>2. after = MaxAttempts + faults \/ after = MaxAttempts + (faults + 1)
      BY OthersEffect
    <2> HIDE DEF after
    <2> QED
      BY <2>1, <2>2, BudgetType
  <1>b. /\ count <= paid
        /\ runs[r].status = "pending" => count < paid
        /\ runs[r].status = "fired" /\ notifications[r] = {} /\ ~Held(r) => count < paid
        /\ \A q \in Passes : /\ Holds(q, r) /\ ~fire[q][r].live => count < paid
                             /\ fire[q][r].pc = "retry" => fire[q][r].attempt < MaxAttempts
    BY DEF Budgeted
  <1>o. /\ faults' \in {faults, faults + 1} /\ RowByAPI(r)
        /\ \A p \in Passes : GoroutineByOthers(p, r)
    BY OthersEffect
  <1>p. (count <= paid => count <= after) /\ (count < paid => count < after)
    BY <1>o, <1>t
  <1>n. faults' = faults + 1 => count < after
    BY <1>b, <1>t
  <1>g. ASSUME NEW q \in Passes
        PROVE  /\ Holds(q, r)' /\ ~fire'[q][r].live => count < after
               /\ fire'[q][r].pc = "retry" => fire'[q][r].attempt < MaxAttempts
               /\ Holds(q, r) /\ ~Holds(q, r)' => faults' = faults + 1
               /\ Holds(q, r)' => Holds(q, r)
    <2>1. GoroutineByOthers(q, r)
      BY <1>o
    <2> QED
      BY <1>b, <1>n, <1>p, <2>1 DEF GoroutineByOthers, Holds, Idle
  <1>h. Held(r) /\ ~Held(r)' => faults' = faults + 1
    BY <1>g DEF Held
  <1>z. ~(runs'[r] = runs[r] /\ notifications'[r] = notifications[r]) =>
          \/ /\ runs'[r].attemptCount = 0 /\ runs'[r].status = "pending"
             /\ runs[r].status = "absent"
          \/ runs'[r].attemptCount = count /\ runs'[r].status \in {"cancelled", "deleted"}
    BY <1>o DEF RowByAPI
  <1> HIDE DEF count, paid, after
  <1>1. CASE runs'[r] = runs[r] /\ notifications'[r] = notifications[r]
    <2>1. /\ runs'[r].attemptCount = count
          /\ count <= after
          /\ runs'[r].status = "pending" => count < after
          /\ runs'[r].status = "fired" /\ notifications'[r] = {} /\ ~Held(r)' => count < after
      BY <1>1, <1>b, <1>h, <1>n, <1>p DEF count
    <2> QED
      BY <1>g, <2>1 DEF Budgeted, after
  <1>2. CASE /\ runs'[r].attemptCount = 0 /\ runs'[r].status = "pending"
             /\ runs[r].status = "absent"
    <2>1. 0 <= after /\ (count < after => 0 < after)
      BY <1>t
    <2> QED
      BY <1>2, <1>g, <1>t, <2>1 DEF Budgeted, after
  <1>3. CASE runs'[r].attemptCount = count /\ runs'[r].status \in {"cancelled", "deleted"}
    BY <1>3, <1>b, <1>g, <1>p DEF Budgeted, after
  <1> QED
    BY <1>1, <1>2, <1>3, <1>z

\* However passes, instances, reclaims and crashes interleave, the engine claims a
\* run at most maxAttempts times, and once more for each fault.
THEOREM BudgetKept ==
  ASSUME LeaseOutlastsFire PROVE Spec => []AttemptBudget
  <1> DEFINE Inv == \A r \in Runs : Budgeted(r)
  <1>1. Init => Inv
    BY SchedulerAssumption
       DEF Init, RepoInit, AbsentRow, Budgeted, Holds, Idle
  <1>2. TypeOK /\ TypeOK' /\ Ownership /\ Ownership' /\ Inv /\ [Next]_vars => Inv'
    <2> SUFFICES ASSUME TypeOK, TypeOK', Ownership, Ownership', Inv, [Next]_vars,
                        NEW s \in Runs
                 PROVE  Budgeted(s)'
      OBVIOUS
    <2>1. CASE \E p \in Passes, r \in Runs : Step(p, r)
      <3>1. PICK p \in Passes, r \in Runs : Step(p, r)
        BY <2>1
      <3>2. Budgeted(r)' /\ faults' >= faults
        BY <3>1, StepBudgeted
      <3>3. CASE s # r
        <4>1. /\ runs'[s] = runs[s] /\ notifications'[s] = notifications[s]
              /\ \A q \in Passes : fire'[q][s] = fire[q][s]
          BY <3>1, <3>3, StepFrame DEF Frame
        <4>2. \A q \in Passes : Holds(q, s)' <=> Holds(q, s)
          BY <4>1 DEF Holds
        <4>3. Held(s)' <=> Held(s)
          BY <4>2 DEF Held
        <4>4. \A n \in Nat :
                /\ n <= MaxAttempts + faults => n <= MaxAttempts + faults'
                /\ n < MaxAttempts + faults => n < MaxAttempts + faults'
          <5> DEFINE after == faults'
          <5>1. faults \in Nat /\ after \in Nat /\ after >= faults
            BY <3>2 DEF TypeOK
          <5> HIDE DEF after
          <5>2. \A n \in Nat :
                  /\ n <= MaxAttempts + faults => n <= MaxAttempts + after
                  /\ n < MaxAttempts + faults => n < MaxAttempts + after
            BY <5>1, BudgetType
          <5> QED
            BY <5>2 DEF after
        <4>5. Budgeted(s) /\ runs[s].attemptCount \in Nat
          BY DEF TypeOK, RepoTypeOK, Row
        <4> QED
          BY <4>1, <4>2, <4>3, <4>4, <4>5 DEF Budgeted
      <3> QED
        BY <3>2, <3>3
    <2>2. CASE ~(\E p \in Passes, r \in Runs : Step(p, r))
      BY <2>2, OthersBudgeted
    <2> QED
      BY <2>1, <2>2
  <1>3. Inv => AttemptBudget
    BY DEF Budgeted, AttemptBudget
  <1> HIDE DEF Inv
  <1> QED
    BY <1>1, <1>2, <1>3, TypeCorrect, OwnershipHolds, PTL DEF Spec
-----------------------------------------------------------------------------
(* The spacing of claims. *)

\* The statements of a fire leave behind what the next claimer has to know.
LEMMA StepDated ==
  ASSUME TypeOK, Ownership,
         NEW p \in Passes, NEW r \in Runs, Step(p, r), Dated(r)
  PROVE  Dated(r)'
  <1> DEFINE g == fire[p][r]
             row == runs[r]
             Waits(q) == fire[q][r].next
                           >= fire[q][r].tickTime + RetryDelay(fire[q][r].attempt) - 2 * Skew
  <1>t. /\ g \in Goroutine /\ row \in Row /\ now \in Nat /\ Skew \in Nat /\ NULL \notin Int
        /\ g.tickTime \in Int /\ g.attempt \in Nat /\ g.next \in Int /\ g.began \in Int
    BY SchedulerAssumption, RepositoryAssumption DEF TypeOK, RepoTypeOK, Goroutine
  <1>f. \A q \in Passes \ {p} : fire'[q][r] = fire[q][r]
    BY StepFrame DEF Frame
  <1>o. Holds(p, r) => /\ row.firedAt = g.tickTime /\ row.attemptCount = g.attempt
                       /\ row.status # "pending"
    BY DEF Ownership, Owned, KnowsRow
  <1>b. /\ row.status = "fired" => row.firedAt # NULL
        /\ row.status = "pending" /\ row.attemptCount > 0 =>
             /\ row.firedAt # NULL /\ row.nextAttemptAt # NULL
             /\ row.nextAttemptAt >= row.firedAt + RetryDelay(row.attemptCount) - 2 * Skew
        /\ \A q \in Passes : fire[q][r].pc = "retry" => Waits(q)
    BY DEF Dated
  \* The row is dated, and this goroutine goes on to anything but a retry.
  <1>q. ASSUME fire'[p][r].pc # "retry",
               \/ runs' = runs
               \/ runs'[r].status = "fired" /\ runs'[r].firedAt # NULL
               \/ runs'[r].status = "failed"
        PROVE  Dated(r)'
    <2>1. \A q \in Passes : fire'[q][r].pc = "retry" => Waits(q)'
      BY <1>b, <1>f, <1>q
    <2>2. CASE runs' = runs
      BY <1>b, <2>1, <2>2 DEF Dated
    <2>3. CASE runs' # runs
      BY <1>q, <2>1, <2>3 DEF Dated
    <2> QED
      BY <2>2, <2>3
  <1>1. CASE Claim(p, r)
    <2>1. runs'[r].status = "fired" /\ runs'[r].firedAt = g.tickTime
      BY <1>1, <1>t, ClaimEffect, ClaimWritten
    <2>2. fire'[p][r].pc \in {"send", "notify"}
      BY <1>1, ClaimEffect
    <2> QED
      BY <1>q, <1>t, <2>1, <2>2
  <1>2. CASE ClaimMissed(p, r)
    BY <1>2, <1>q, ClaimMissedEffect DEF Idle
  <1>3. CASE ClaimReplyLost(p, r)
    <2>1. runs'[r].status = "fired" /\ runs'[r].firedAt = g.tickTime
      BY <1>3, <1>t, ClaimReplyLostEffect, ClaimWritten
    <2>2. fire'[p][r].pc = "idle"
      BY <1>3, ClaimReplyLostEffect DEF Idle
    <2> QED
      BY <1>q, <1>t, <2>1, <2>2
  <1>4. CASE Delivered(p, r)
    BY <1>4, <1>q, DeliveredEffect
  <1>5. CASE NotDelivered(p, r)
    <2>1. CASE fire'[p][r].pc # "retry"
      BY <1>5, <1>q, <2>1, NotDeliveredEffect
    <2>2. CASE fire'[p][r].pc = "retry"
      <3>1. /\ fire'[p][r].next >= now - Skew + RetryDelay(g.attempt)
            /\ fire'[p][r].attempt = g.attempt /\ fire'[p][r].tickTime = g.tickTime
            /\ runs' = runs
        BY <1>5, <2>2, NotDeliveredEffect
      <3>2. g.tickTime <= now + Skew
        <4>1. g.began <= now /\ g.tickTime <= g.began + Skew
          BY <1>5 DEF NotDelivered, Ownership, Timely, Active
        <4> QED
          BY <1>t, <4>1
      <3>3. RetryDelay(g.attempt) \in Nat
        BY <1>t, RetryDelayType
      <3>4. fire'[p][r].next \in Int
        <4>1. g.attempt < MaxAttempts
          BY <1>5, <2>2, NotDeliveredEffect
        <4>2. PICK t \in Clock :
                Set(p, r, [g EXCEPT !.pc = "retry", !.next = t + RetryDelay(g.attempt)])
          BY <1>5, <4>1 DEF NotDelivered
        <4>3. t + RetryDelay(g.attempt) \in Int
          BY <1>t, <3>3, ClockType
        <4>4. PICK n \in Int : fire'[p][r] = [g EXCEPT !.pc = "retry", !.next = n]
          BY <4>2, <4>3 DEF Set, TypeOK
        <4> QED
          BY <1>t, <4>4 DEF Goroutine
      <3>5. ASSUME NEW n \in Int, n >= now - Skew + RetryDelay(g.attempt)
            PROVE  n >= g.tickTime + RetryDelay(g.attempt) - 2 * Skew
        BY <1>t, <3>2, <3>3, <3>5
      <3>6. Waits(p)'
        BY <3>1, <3>4, <3>5
      <3>7. \A q \in Passes : fire'[q][r].pc = "retry" => Waits(q)'
        BY <1>b, <1>f, <3>6
      <3> QED
        BY <1>b, <3>1, <3>7 DEF Dated
    <2> QED
      BY <2>1, <2>2
  <1>6. CASE ScheduleRetry(p, r)
    <2>1. g.pc = "retry" /\ fire'[p][r].pc = "idle"
      BY <1>6, ScheduleRetryEffect DEF Idle
    <2>2. row.firedAt = g.tickTime /\ row.attemptCount = g.attempt /\ Waits(p)
      BY <1>b, <1>o, <2>1 DEF Holds
    <2>3. \A q \in Passes : fire'[q][r].pc = "retry" => Waits(q)'
      BY <1>b, <1>f, <2>1
    <2>4. CASE runs'[r] = row
      BY <1>b, <2>3, <2>4 DEF Dated
    <2>5. CASE /\ row.status = "fired" /\ runs'[r].status = "pending"
               /\ runs'[r].nextAttemptAt = g.next
               /\ runs'[r].firedAt = row.firedAt
               /\ runs'[r].attemptCount = row.attemptCount
      BY <1>t, <2>2, <2>3, <2>5 DEF Dated
    <2> QED
      BY <1>6, <2>4, <2>5, ScheduleRetryEffect
  <1>7. CASE GiveUp(p, r)
    <2>1. /\ g.pc = "fail" /\ fire'[p][r].pc = "notify"
          /\ runs'[r].firedAt = row.firedAt
          /\ runs'[r].status = "failed" \/ runs'[r].status = row.status
      BY <1>7, GiveUpEffect
    <2>2. row.status # "pending" /\ row.firedAt # NULL
      BY <1>o, <1>t, <2>1 DEF Holds
    <2>3. \A q \in Passes : fire'[q][r].pc = "retry" => Waits(q)'
      BY <1>b, <1>f, <2>1
    <2> QED
      BY <2>1, <2>2, <2>3 DEF Dated
  <1>8. CASE Notify(p, r)
    BY <1>8, <1>q, NotifyEffect DEF Idle
  <1> QED
    BY <1>1, <1>2, <1>3, <1>4, <1>5, <1>6, <1>7, <1>8 DEF Step

\* Nobody else dates a row or changes a wait.
LEMMA NextDated ==
  ASSUME TypeOK, Ownership, [Next]_vars, \A r \in Runs : Dated(r)
  PROVE  \A r \in Runs : Dated(r)'
  <1> SUFFICES ASSUME NEW s \in Runs PROVE Dated(s)'
    OBVIOUS
  <1>1. CASE \E p \in Passes, r \in Runs : Step(p, r)
    <2>1. PICK p \in Passes, r \in Runs : Step(p, r)
      BY <1>1
    <2>2. CASE s # r
      <3>1. runs'[s] = runs[s] /\ \A q \in Passes : fire'[q][s] = fire[q][s]
        BY <2>1, <2>2, StepFrame DEF Frame
      <3>2. Dated(s)
        OBVIOUS
      <3> QED
        BY <3>1, <3>2 DEF Dated
    <2> QED
      BY <2>1, <2>2, StepDated
  <1>2. CASE ~(\E p \in Passes, r \in Runs : Step(p, r))
    <2>1. RowByAPI(s) /\ \A p \in Passes : GoroutineByOthers(p, s)
      BY <1>2, OthersEffect
    <2>2. \A p \in Passes : fire'[p][s].pc = "retry" =>
            /\ fire[p][s].pc = "retry" /\ fire'[p][s].next = fire[p][s].next
            /\ fire'[p][s].tickTime = fire[p][s].tickTime
            /\ fire'[p][s].attempt = fire[p][s].attempt
      BY <2>1 DEF GoroutineByOthers, Idle
    <2>3. \/ runs'[s] = runs[s]
          \/ runs'[s].status = "pending" /\ runs'[s].attemptCount = 0
          \/ runs'[s].status \in {"cancelled", "deleted"}
      BY <2>1 DEF RowByAPI
    <2>4. Dated(s)
      OBVIOUS
    <2> QED
      BY <2>2, <2>3, <2>4 DEF Dated
  <1> QED
    BY <1>1, <1>2

\* Two claims of a run, whoever makes them and whichever clock each reads, are apart
\* by the backoff, or by the lease if the first was abandoned.
THEOREM BackoffHolds ==
  ASSUME LeaseOutlastsFire PROVE Spec => ClaimsAreSpaced
  <1> DEFINE Inv == \A r \in Runs : Dated(r)
             Apart(r) ==
               runs'[r].attemptCount # runs[r].attemptCount /\ runs[r].attemptCount > 0 =>
                 \/ runs'[r].firedAt >= runs[r].firedAt + ClaimLease
                 \/ runs'[r].firedAt >= runs[r].firedAt
                                          + RetryDelay(runs[r].attemptCount) - 2 * Skew
  <1>1. Init => Inv
    BY DEF Init, RepoInit, AbsentRow, Dated, Idle
  <1>2. TypeOK /\ Ownership /\ Inv /\ [Next]_vars => Inv'
    BY NextDated
  <1>3. ASSUME TypeOK, PostsInv, Inv, [Next]_vars, NEW s \in Runs PROVE Apart(s)
    <2>t. /\ runs[s] \in Row /\ runs[s].attemptCount \in Nat /\ NULL \notin Int
          /\ ClaimLease \in Nat /\ Skew \in Nat
      BY <1>3, SchedulerAssumption, RepositoryAssumption DEF TypeOK, RepoTypeOK, Row
    <2>1. CASE \E p \in Passes, r \in Runs : Step(p, r)
      <3>1. PICK p \in Passes, r \in Runs : Step(p, r)
        BY <2>1
      <3>2. CASE s # r
        BY <1>3, <3>1, <3>2, StepFrame DEF Frame
      <3>3. CASE ClaimForFiring(s, fire[p][s].tickTime)
        <4> DEFINE t == fire[p][s].tickTime
        <4>1. t \in Int /\ runs'[s].firedAt = t
          BY <1>3, <3>3, ClaimWritten DEF TypeOK, Goroutine
        <4>2. \/ WaitIsOver(runs[s], t) \/ ClaimAbandoned(runs[s], notifications[s], t)
          BY <3>3 DEF ClaimForFiring, Claimable
        <4>3. Dated(s)
          BY <1>3
        <4> HIDE DEF t
        <4>4. CASE WaitIsOver(runs[s], t)
          <5>1. SUFFICES ASSUME runs[s].attemptCount > 0
                         PROVE  t >= runs[s].firedAt
                                       + RetryDelay(runs[s].attemptCount) - 2 * Skew
            BY <4>1
          <5>2. /\ runs[s].firedAt \in Int /\ runs[s].nextAttemptAt \in Int
                /\ runs[s].nextAttemptAt >= runs[s].firedAt
                     + RetryDelay(runs[s].attemptCount) - 2 * Skew
                /\ runs[s].nextAttemptAt <= t
            BY <2>t, <4>3, <4>4, <5>1 DEF Dated, WaitIsOver, Row
          <5> QED
            BY <2>t, <4>1, <5>2, RetryDelayType
        <4>5. CASE ClaimAbandoned(runs[s], notifications[s], t)
          <5>1. runs[s].firedAt \in Int /\ runs[s].firedAt <= t - ClaimLease
            BY <2>t, <4>3, <4>5 DEF Dated, ClaimAbandoned, Row
          <5>2. t >= runs[s].firedAt + ClaimLease
            BY <2>t, <4>1, <5>1
          <5> QED
            BY <4>1, <5>2
        <4> QED
          BY <4>2, <4>4, <4>5
      <3>4. CASE s = r /\ ~ClaimForFiring(r, fire[p][r].tickTime)
        <4>1. runs'[r].attemptCount = runs[r].attemptCount
          BY <1>3, <3>1, <3>4, ClaimEffect, ClaimMissedEffect, ClaimReplyLostEffect,
             DeliveredEffect, NotDeliveredEffect, ScheduleRetryEffect, GiveUpEffect,
             NotifyEffect DEF Step
        <4> QED
          BY <3>4, <4>1
      <3> QED
        BY <3>2, <3>3, <3>4
    <2>2. CASE ~(\E p \in Passes, r \in Runs : Step(p, r))
      <3>1. RowByAPI(s)
        BY <1>3, <2>2, OthersEffect
      <3>2. runs[s].status = "absent" => runs[s].attemptCount = 0
        BY <1>3 DEF PostsInv, PostsAreOld
      <3>3. runs'[s].attemptCount = runs[s].attemptCount
        BY <3>1, <3>2 DEF RowByAPI
      <3> QED
        BY <3>3
    <2> QED
      BY <2>1, <2>2
  <1>4. TypeOK /\ PostsInv /\ Inv /\ [Next]_vars => [\A r \in Runs : Apart(r)]_vars
    BY <1>3
  <1> HIDE DEF Inv
  <1> QED
    BY <1>1, <1>2, <1>4, TypeCorrect, OwnershipHolds, PostsHold, PTL
       DEF Spec, ClaimsAreSpaced
-----------------------------------------------------------------------------
(* While nothing fails but the receiver. *)

\* Each statement then succeeds, and passes on what the notification has to say.
LEMMA StepTold ==
  ASSUME LeaseOutlastsFire, FaultKinds = {}, TypeOK, TypeOK', Ownership,
         NEW p \in Passes, NEW r \in Runs, Step(p, r), Truthful(r), Told(r)
  PROVE  Told(r)'
  <1> DEFINE g == fire[p][r]
             h == fire'[p][r]
             row == runs[r]
  <1>t. g.delivered \in BOOLEAN /\ h.delivered \in BOOLEAN /\ g.tickTime \in Int
    BY DEF TypeOK, Goroutine
  <1>f. \A q \in Passes \ {p} : fire'[q][r] = fire[q][r]
    BY StepFrame DEF Frame
  <1>o. Holds(p, r) => /\ \A q \in Passes : Holds(q, r) => q = p
                       /\ notifications[r] = {}
                       /\ row.status \in {"fired", "failed", "deleted"}
                       /\ row.status = "failed" => g.pc = "notify"
    BY DEF Ownership, Owned, KnowsRow
  <1>b. /\ \A q \in Passes : Active(q, r) => fire[q][r].live
        /\ row.status \in {"fired", "failed"} => notifications[r] # {} \/ Held(r)
        /\ row.hook \/ DefaultHook =>
             /\ \A q \in Passes : fire[q][r].pc = "notify" /\ Exists(r) =>
                  (row.status = "fired") = fire[q][r].delivered
             /\ \A note \in notifications[r] : (row.status = "fired") = note.delivered
    BY DEF Told
  <1>d. g.pc # "notify" => g.delivered = FALSE
    BY <1>t DEF Truthful, ReportsTruly
  <1>i. Idle.pc = "idle"
    BY DEF Idle
  \* The run is this goroutine's own, before or behind the step.
  <1>q. ASSUME \A q \in Passes : Holds(q, r) => q = p,
               h.pc # "idle" => h.live,
               runs'[r].hook = row.hook,
               runs'[r].status \in {"fired", "failed"} =>
                 notifications'[r] # {} \/ Holds(p, r)',
               row.hook \/ DefaultHook =>
                 /\ h.pc = "notify" /\ runs'[r].status \notin {"absent", "deleted"} =>
                      (runs'[r].status = "fired") = h.delivered
                 /\ \A note \in notifications'[r] :
                      (runs'[r].status = "fired") = note.delivered
        PROVE  Told(r)'
    <2>1. \A q \in Passes : Active(q, r)' => fire'[q][r].live
      BY <1>b, <1>f, <1>q DEF Active
    <2>2. runs'[r].status \in {"fired", "failed"} => notifications'[r] # {} \/ Held(r)'
      BY <1>q DEF Held
    <2>3. \A q \in Passes \ {p} : fire'[q][r].pc # "notify"
      BY <1>f, <1>q DEF Holds
    <2>4. row.hook \/ DefaultHook =>
            \A q \in Passes : fire'[q][r].pc = "notify" /\ Exists(r)' =>
              (runs'[r].status = "fired") = fire'[q][r].delivered
      BY <1>q, <2>3 DEF Exists
    <2> QED
      BY <1>q, <2>1, <2>2, <2>4 DEF Told
  <1>1. CASE Claim(p, r)
    <2>1. ~Held(r) /\ notifications'[r] = {}
      BY <1>1, ClaimEffect, ClaimableIsFree DEF ClaimForFiring, Active
    <2>2. /\ h.live /\ h.pc = IF row.hook \/ DefaultHook THEN "send" ELSE "notify"
          /\ runs'[r].status = "fired" /\ runs'[r].hook = row.hook
      BY <1>1, <1>t, ClaimEffect, ClaimWritten
    <2> QED
      BY <1>q, <2>1, <2>2 DEF Held, Holds
  <1>2. CASE ClaimMissed(p, r)
    <2>1. /\ g.pc = "claim" /\ h = Idle
          /\ runs' = runs /\ notifications' = notifications
      BY <1>2, ClaimMissedEffect
    <2>2. \A q \in Passes : /\ Active(q, r)' => fire'[q][r].live
                            /\ Holds(q, r)' <=> Holds(q, r)
                            /\ fire'[q][r].pc = "notify" => fire'[q][r] = fire[q][r]
      BY <1>b, <1>f, <1>i, <2>1 DEF Active, Holds
    <2>3. Held(r)' <=> Held(r)
      BY <2>2 DEF Held
    <2>4. Exists(r)' <=> Exists(r)
      BY <2>1 DEF Exists
    <2> QED
      BY <1>b, <2>1, <2>2, <2>3, <2>4 DEF Told
  <1>3. CASE ClaimReplyLost(p, r)
    BY <1>3, ClaimReplyLostEffect
  <1>4. CASE Delivered(p, r)
    <2>1. /\ g.pc = "send" /\ h.pc = "notify" /\ h.live = g.live /\ h.delivered
          /\ runs' = runs /\ notifications' = notifications
      BY <1>4, DeliveredEffect
    <2>2. Holds(p, r) /\ Active(p, r)
      BY <2>1 DEF Holds, Active
    <2> QED
      BY <1>b, <1>o, <1>q, <1>t, <2>1, <2>2 DEF Holds
  <1>5. CASE NotDelivered(p, r)
    <2>1. /\ g.pc = "send" /\ h.pc \in {"retry", "fail"} /\ h.live = g.live
          /\ runs' = runs /\ notifications' = notifications
      BY <1>5, NotDeliveredEffect
    <2>2. Holds(p, r) /\ Active(p, r)
      BY <2>1 DEF Holds, Active
    <2> QED
      BY <1>b, <1>o, <1>q, <2>1, <2>2 DEF Holds
  <1>6. CASE ScheduleRetry(p, r)
    <2>1. /\ g.pc = "retry" /\ h = Idle /\ notifications' = notifications
      BY <1>6, ScheduleRetryEffect
    <2>2. Holds(p, r) /\ g.live
      BY <1>b, <2>1 DEF Holds, Active
    <2>3. \/ runs'[r].status = "pending" /\ runs'[r].hook = row.hook
          \/ runs'[r] = row /\ row.status = "deleted"
      BY <1>6, <1>o, <2>1, <2>2, ScheduleRetryEffect
    <2> QED
      BY <1>i, <1>o, <1>q, <2>1, <2>2, <2>3
  <1>7. CASE GiveUp(p, r)
    <2>1. /\ g.pc = "fail" /\ h.pc = "notify" /\ h.live = g.live
          /\ h.delivered = g.delivered
          /\ notifications' = notifications /\ runs'[r].hook = row.hook
      BY <1>7, GiveUpEffect
    <2>2. Holds(p, r) /\ g.live
      BY <1>b, <2>1 DEF Holds, Active
    <2>3. \/ runs'[r].status = "failed"
          \/ runs'[r].status = row.status /\ ~Exists(r)
      BY <1>7, <2>2, GiveUpEffect
    <2>4. h.delivered = FALSE
      BY <1>d, <2>1
    <2> QED
      BY <1>o, <1>q, <2>1, <2>2, <2>3, <2>4 DEF Holds, Exists
  <1>8. CASE Notify(p, r)
    <2> DEFINE note == [attempt |-> g.attempt, delivered |-> g.delivered]
    <2>1. g.pc = "notify" /\ h = Idle /\ runs' = runs
      BY <1>8, NotifyEffect
    <2>2. Holds(p, r) /\ g.live
      BY <1>b, <2>1 DEF Holds, Active
    <2>3. CASE Exists(r)
      <3>1. notifications'[r] = {note}
        BY <1>8, <1>o, <2>2, <2>3, NotifyEffect
      <3>2. row.hook \/ DefaultHook => (row.status = "fired") = note.delivered
        BY <1>b, <2>1, <2>3
      <3> HIDE DEF note
      <3> QED
        BY <1>i, <1>o, <1>q, <2>1, <2>2, <3>1, <3>2
    <2>4. CASE ~Exists(r)
      <3>1. notifications'[r] = {} /\ row.status \notin {"fired", "failed"}
        BY <1>8, <1>o, <2>2, <2>4, NotifyEffect DEF Exists
      <3> QED
        BY <1>i, <1>o, <1>q, <2>1, <2>2, <3>1
    <2> QED
      BY <2>3, <2>4
  <1> QED
    BY <1>1, <1>2, <1>3, <1>4, <1>5, <1>6, <1>7, <1>8 DEF Step

\* And none posts what was accepted already.
LEMMA StepOnce ==
  ASSUME LeaseOutlastsFire, FaultKinds = {}, "lost" \notin Outcomes,
         TypeOK, Ownership, NEW p \in Passes, NEW r \in Runs, Step(p, r),
         Told(r), Once(r)
  PROVE  Once(r)'
  <1> DEFINE g == fire[p][r]
             h == fire'[p][r]
             unsettled == {"send", "retry", "fail"}
  <1>t. inbox[r] \in Seq(Nat) /\ g.attempt \in Nat /\ g.tickTime \in Int
    BY DEF TypeOK, Goroutine
  <1>f. \A q \in Passes \ {p} : fire'[q][r] = fire[q][r]
    BY StepFrame DEF Frame
  <1>o. Holds(p, r) => /\ \A q \in Passes : Holds(q, r) => q = p
                       /\ runs[r].status \notin {"absent", "pending"}
    BY DEF Ownership, Owned, KnowsRow
  <1>b. /\ Len(inbox[r]) <= 1
        /\ runs[r].status \in {"absent", "pending"} => inbox[r] = <<>>
        /\ \A q \in Passes : fire[q][r].pc \in unsettled => inbox[r] = <<>>
    BY DEF Once
  <1>l. Active(p, r) => g.live
    BY DEF Told
  <1>i. Idle.pc = "idle"
    BY DEF Idle
  \* Nothing new is accepted.
  <1>q. ASSUME inbox'[r] = inbox[r],
               h.pc \in unsettled => inbox[r] = <<>>,
               runs'[r].status \in {"absent", "pending"} => inbox[r] = <<>>
        PROVE  Once(r)'
    <2>1. \A q \in Passes : fire'[q][r].pc \in unsettled => inbox[r] = <<>>
      BY <1>b, <1>f, <1>q
    <2> QED
      BY <1>b, <1>q, <2>1 DEF Once
  <1>1. CASE Claim(p, r)
    <2>1. ~Held(r) /\ notifications[r] = {}
      BY <1>1, ClaimEffect, ClaimableIsFree DEF ClaimForFiring, Active
    <2>2. runs[r].status = "pending"
      BY <1>1, <1>t, <2>1, ClaimEffect, ClaimWritten DEF Told
    <2> QED
      BY <1>1, <1>b, <1>q, <2>2, ClaimEffect
  <1>2. CASE ClaimMissed(p, r)
    BY <1>2, <1>b, <1>i, <1>q, ClaimMissedEffect
  <1>3. CASE ClaimReplyLost(p, r)
    BY <1>3, ClaimReplyLostEffect
  <1>4. CASE Delivered(p, r)
    <2>1. /\ g.pc = "send" /\ h.pc = "notify"
          /\ inbox'[r] = Append(inbox[r], g.attempt) /\ runs' = runs
      BY <1>4, DeliveredEffect
    <2>2. inbox[r] = <<>>
      BY <1>b, <2>1
    <2>3. Len(inbox'[r]) <= 1
      BY <1>t, <2>1, <2>2
    <2>4. \A q \in Passes : fire'[q][r].pc \notin unsettled
      BY <1>f, <1>o, <2>1 DEF Holds
    <2> QED
      BY <1>o, <2>1, <2>3, <2>4 DEF Once, Holds
  <1>5. CASE NotDelivered(p, r)
    <2>1. g.pc = "send" /\ runs' = runs /\ g.live
      BY <1>5, <1>l, NotDeliveredEffect DEF Active
    <2> QED
      BY <1>5, <1>b, <1>q, <2>1, NotDeliveredEffect
  <1>6. CASE ScheduleRetry(p, r)
    BY <1>6, <1>b, <1>q, ScheduleRetryEffect
  <1>7. CASE GiveUp(p, r)
    BY <1>7, <1>b, <1>q, GiveUpEffect
  <1>8. CASE Notify(p, r)
    BY <1>8, <1>b, <1>i, <1>q, NotifyEffect
  <1> QED
    BY <1>1, <1>2, <1>3, <1>4, <1>5, <1>6, <1>7, <1>8 DEF Step

\* Without faults the other actions take no goroutine away and no context.
LEMMA OthersHealthy ==
  ASSUME FaultKinds = {}, TypeOK, Ownership, [Next]_vars,
         ~(\E p \in Passes, r \in Runs : Step(p, r)), NEW r \in Runs
  PROVE  Told(r) => Told(r)' /\ (Once(r) => Once(r)')
  <1> SUFFICES ASSUME Told(r) PROVE Told(r)' /\ (Once(r) => Once(r)')
    OBVIOUS
  <1>1. /\ inbox' = inbox /\ RowByAPI(r)
        /\ \A p \in Passes : GoroutineByOthers(p, r)
    BY OthersEffect
  <1>2. \A p \in Passes : /\ Holds(p, r)' <=> Holds(p, r)
                          /\ Holds(p, r) => fire'[p][r] = fire[p][r]
                          /\ Active(p, r)' => fire'[p][r].live
    BY <1>1 DEF GoroutineByOthers, Holds, Active, Told
  <1>3. Held(r)' <=> Held(r)
    BY <1>2 DEF Held
  <1>4. \A p \in Passes : /\ fire'[p][r].pc = "notify" => fire[p][r] = fire'[p][r]
                          /\ fire'[p][r].pc \in {"send", "retry", "fail"} =>
                               fire[p][r] = fire'[p][r]
    BY <1>2 DEF Holds
  <1>5. runs[r].status = "absent" => ~Held(r) /\ notifications[r] = {}
    BY DEF Ownership, Owned, KnowsRow, Held
  <1>6. runs[r].status = "pending" => ~Held(r) /\ notifications[r] = {}
    BY DEF Ownership, Owned, KnowsRow, Held
  <1>7. Told(r)'
    <2>1. CASE runs'[r] = runs[r] /\ notifications'[r] = notifications[r]
      BY <1>2, <1>3, <1>4, <2>1 DEF Told, Exists
    <2>2. CASE /\ runs[r].status \in {"absent", "pending"}
               /\ runs'[r].status \in {"pending", "cancelled"}
               /\ notifications'[r] = notifications[r]
      <3>1. ~Held(r)' /\ notifications'[r] = {}
        BY <1>3, <1>5, <1>6, <2>2
      <3>2. \A p \in Passes : fire'[p][r].pc # "notify"
        BY <3>1 DEF Held, Holds
      <3> QED
        BY <1>2, <2>2, <3>1, <3>2 DEF Told
    <2>3. CASE runs'[r].status = "deleted" /\ notifications'[r] = {}
      BY <1>2, <2>3 DEF Told, Exists
    <2> QED
      BY <1>1, <2>1, <2>2, <2>3 DEF RowByAPI
  <1>8. ASSUME Once(r) PROVE Once(r)'
    <2>1. runs'[r].status \in {"absent", "pending"} =>
            runs[r].status \in {"absent", "pending"}
      BY <1>1 DEF RowByAPI
    <2> QED
      BY <1>1, <1>4, <1>8, <2>1 DEF Once
  <1> QED
    BY <1>7, <1>8

\* Of every run, as long as nothing but the receiver fails.
LEMMA HealthyHolds ==
  ASSUME LeaseOutlastsFire, FaultKinds = {}
  PROVE  /\ Spec => [](\A r \in Runs : Told(r))
         /\ "lost" \notin Outcomes => (Spec => [](\A r \in Runs : Once(r)))
  <1> DEFINE True == \A r \in Runs : Truthful(r)
             Inv == \A r \in Runs : Told(r)
             Least == \A r \in Runs : Once(r)
  <1>1. Init => True /\ Inv /\ Least
    BY DEF Init, RepoInit, AbsentRow, Truthful, ReportsTruly, Told, Once, Active, Idle
  <1>2. TypeOK /\ True /\ [Next]_vars => True'
    BY NextTruthful
  <1>3. ASSUME TypeOK, TypeOK', Ownership, True, Inv, [Next]_vars, NEW s \in Runs
        PROVE  Told(s)' /\ ("lost" \notin Outcomes /\ Once(s) => Once(s)')
    <2>1. CASE \E p \in Passes, r \in Runs : Step(p, r)
      <3>1. PICK p \in Passes, r \in Runs : Step(p, r)
        BY <2>1
      <3>2. CASE s = r
        BY <1>3, <3>1, <3>2, StepTold, StepOnce
      <3>3. CASE s # r
        <4>1. /\ runs'[s] = runs[s] /\ notifications'[s] = notifications[s]
              /\ inbox'[s] = inbox[s]
              /\ \A q \in Passes : fire'[q][s] = fire[q][s]
          BY <1>3, <3>1, <3>3, StepFrame DEF Frame
        <4>2. Held(s)' <=> Held(s)
          BY <4>1 DEF Held, Holds
        <4>3. Told(s)
          BY <1>3
        <4> QED
          BY <4>1, <4>2, <4>3 DEF Told, Once, Active, Exists
      <3> QED
        BY <3>2, <3>3
    <2>2. CASE ~(\E p \in Passes, r \in Runs : Step(p, r))
      BY <1>3, <2>2, OthersHealthy
    <2> QED
      BY <2>1, <2>2
  <1>4. TypeOK /\ TypeOK' /\ Ownership /\ True /\ Inv /\ [Next]_vars => Inv'
    BY <1>3
  <1>5. /\ "lost" \notin Outcomes
        /\ TypeOK /\ TypeOK' /\ Ownership /\ True /\ Inv /\ Least /\ [Next]_vars
        => Least'
    BY <1>3
  <1> HIDE DEF True, Inv, Least
  <1>6. Spec => []Inv
    BY <1>1, <1>2, <1>4, TypeCorrect, OwnershipHolds, PTL DEF Spec
  <1>7. ASSUME "lost" \notin Outcomes PROVE Spec => []Least
    <2>1. TypeOK /\ TypeOK' /\ Ownership /\ True /\ Inv /\ Least /\ [Next]_vars => Least'
      BY <1>5, <1>7
    <2>2. Spec => []True
      BY <1>1, <1>2, TypeCorrect, PTL DEF Spec
    <2> QED
      BY <1>1, <1>6, <2>1, <2>2, TypeCorrect, OwnershipHolds, PTL DEF Spec
  <1> QED
    BY <1>6, <1>7 DEF Inv, Least

\* While statements and processes do not fail, no claim is lost: who claims a run
\* puts it back, or tells what came of it.
THEOREM ClaimsAreSettled ==
  ASSUME LeaseOutlastsFire, FaultKinds = {} PROVE Spec => []NoAbandonedClaim
  <1> DEFINE Inv == \A r \in Runs : Told(r)
  <1>1. Inv => NoAbandonedClaim
    BY DEF Told, NoAbandonedClaim
  <1>2. Spec => []Inv
    BY HealthyHolds
  <1> HIDE DEF Inv
  <1> QED
    BY <1>1, <1>2, PTL

\* The status and the notification then agree: 'fired' stays on a run with a webhook
\* only if it was delivered.
THEOREM StatusIsHonest ==
  ASSUME LeaseOutlastsFire, FaultKinds = {} PROVE Spec => []StatusTellsOutcome
  <1> DEFINE Inv == \A r \in Runs : Told(r)
  <1>1. Inv => StatusTellsOutcome
    BY DEF Told, StatusTellsOutcome
  <1>2. Spec => []Inv
    BY HealthyHolds
  <1> HIDE DEF Inv
  <1> QED
    BY <1>1, <1>2, PTL

\* And a receiver whose answers arrive accepts a run once at most, whatever passes
\* overlap: a retry follows a refusal only.
THEOREM AcceptedOnce ==
  ASSUME LeaseOutlastsFire, FaultKinds = {}, "lost" \notin Outcomes
  PROVE  Spec => []DeliveredOnce
  <1> DEFINE Inv == \A r \in Runs : Once(r)
  <1>1. Inv => DeliveredOnce
    BY DEF Once, DeliveredOnce
  <1>2. Spec => []Inv
    BY HealthyHolds
  <1> HIDE DEF Inv
  <1> QED
    BY <1>1, <1>2, PTL
-----------------------------------------------------------------------------
(* The process around the scheduler. *)

\* The variables of Process are typed.
ProcessTypeOK ==
    /\ TypeOK
    /\ phase \in {"up", "stopping", "down"}
    /\ since \in Nat
    /\ call \in [CronPasses -> Call]

\* A query that finds nothing, or fails, counts at most one fault.
LEMMA FindsNothingType ==
  ASSUME faults \in Nat, NEW live, FindsNothing(live)
  PROVE  faults' \in Nat /\ (faults' = faults \/ faults' = faults + 1)
  BY DEF FindsNothing, Fault

\* Two goroutines that differ in whether their context is done, if in anything.
SameButLive(g, h) ==
    /\ h.pc = g.pc /\ h.began = g.began /\ h.tickTime = g.tickTime
    /\ h.attempt = g.attempt

\* A goroutine whose context may end at SIGTERM is one still.
LEMMA StoppedType ==
  ASSUME NEW g \in Goroutine, NEW b \in BOOLEAN
  PROVE  /\ [g EXCEPT !.live = @ /\ b] \in Goroutine
         /\ [g EXCEPT !.live = @ /\ b].live = (g.live /\ b)
         /\ SameButLive(g, [g EXCEPT !.live = @ /\ b])
  <1> DEFINE h == [g EXCEPT !.live = @ /\ b]
  <1>1. h \in Goroutine /\ h.live = (g.live /\ b) /\ SameButLive(g, h)
    BY DEF Goroutine, SameButLive
  <1> QED
    BY <1>1

\* SIGTERM ends the context of the loop's fires, and of no other.
LEMMA SigtermEffect ==
  ASSUME TypeOK, Sigterm
  PROVE  /\ fire' \in [Passes -> [Runs -> Goroutine]]
         /\ \A p \in Passes, r \in Runs :
              /\ fire'[p][r].pc = fire[p][r].pc
              /\ fire'[p][r].live = (fire[p][r].live /\ p \notin TickPasses)
              /\ SameButLive(fire[p][r], fire'[p][r])
<1> DEFINE Stop(p, r) == [fire[p][r] EXCEPT !.live = @ /\ p \notin TickPasses]
<1>1. fire' = [p \in Passes |-> [r \in Runs |-> Stop(p, r)]]
  BY DEF Sigterm
<1>2. ASSUME NEW p \in Passes, NEW r \in Runs
      PROVE  /\ Stop(p, r) \in Goroutine /\ SameButLive(fire[p][r], Stop(p, r))
             /\ Stop(p, r).live = (fire[p][r].live /\ p \notin TickPasses)
  <2> DEFINE g == fire[p][r]
             b == p \notin TickPasses
  <2>1. g \in Goroutine /\ b \in BOOLEAN
    BY DEF TypeOK
  <2> HIDE DEF g, b
  <2>2. /\ [g EXCEPT !.live = @ /\ b] \in Goroutine
        /\ [g EXCEPT !.live = @ /\ b].live = (g.live /\ b)
        /\ SameButLive(g, [g EXCEPT !.live = @ /\ b])
    BY <2>1, StoppedType
  <2> QED
    BY <2>2 DEF g, b
<1> HIDE DEF Stop
<1>3. \A p \in Passes, r \in Runs : fire'[p][r] = Stop(p, r)
  BY <1>1
<1>4. fire' \in [Passes -> [Runs -> Goroutine]]
  BY <1>1, <1>2
<1>5. \A p \in Passes, r \in Runs :
        /\ SameButLive(fire[p][r], fire'[p][r])
        /\ fire'[p][r].live = (fire[p][r].live /\ p \notin TickPasses)
  BY <1>2, <1>3
<1>6. \A p \in Passes, r \in Runs : fire'[p][r].pc = fire[p][r].pc
  BY <1>5 DEF SameButLive
<1> QED
  BY <1>4, <1>5, <1>6

\* The step of a pass that starts its goroutines is one of the scheduler.
LEMMA ProcessDispatchType ==
  ASSUME TypeOK, NEW p \in Passes, Dispatch(p) PROVE TypeOK'
  BY NextType DEF Next

\* What the process does keeps the types.
LEMMA ProcessNextType ==
  ASSUME ProcessTypeOK, [ProcessNext]_allVars
  PROVE  ProcessTypeOK'
<1>0. TypeOK /\ now \in Nat /\ faults \in Nat /\ TickPasses \subseteq Passes
      /\ CronPasses \subseteq Passes
  BY ProcessAssumption DEF ProcessTypeOK, TypeOK, CronPasses
<1>1. CASE Tick
  <2>1. UNCHANGED <<phase, since, call>>
    BY <1>1 DEF Tick
  <2>2. CASE \E p \in TickPasses : Dispatch(p)
    BY <2>1, <2>2, <1>0, ProcessDispatchType DEF ProcessTypeOK
  <2>3. CASE ~ (\E p \in TickPasses : Dispatch(p))
    <3>1. /\ FindsNothing(phase = "up")
          /\ UNCHANGED <<runs, notifications, appliances, deleting, fire, inbox, now>>
      BY <1>1, <2>3 DEF Tick
    <3>2. faults' \in Nat
      BY <3>1, <1>0, FindsNothingType
    <3> QED
      BY <2>1, <3>1, <3>2 DEF ProcessTypeOK, TypeOK, RepoTypeOK
  <2> QED
    BY <2>2, <2>3
<1>2. CASE ReceiveTick \/ Drain \/ RunReturns
  BY <1>2 DEF ReceiveTick, Drain, RunReturns, vars, ProcessTypeOK, TypeOK, RepoTypeOK
<1>3. ASSUME NEW c \in CronPasses, CronCall(c) PROVE ProcessTypeOK'
  <2>1. [pc |-> "accepted", at |-> now] \in Call
    BY <1>0 DEF Call
  <2>2. UNCHANGED vars /\ UNCHANGED <<phase, since>>
    BY <1>3 DEF CronCall
  <2>3. call' \in [CronPasses -> Call]
    BY <1>3, <2>1 DEF CronCall, ProcessTypeOK
  <2> QED
    BY <2>2, <2>3 DEF vars, ProcessTypeOK, TypeOK, RepoTypeOK
<1>4. ASSUME NEW c \in CronPasses, CronPass(c) PROVE ProcessTypeOK'
  <2>1. UNCHANGED <<phase, since>>
    BY <1>4 DEF CronPass
  <2>2. NoCall \in Call /\ \A k \in Call : [k EXCEPT !.pc = "firing"] \in Call
    BY DEF NoCall, Call
  <2>3. call' \in [CronPasses -> Call]
    BY <1>4, <2>2 DEF CronPass, ProcessTypeOK
  <2>4. CASE Dispatch(c)
    BY <2>1, <2>3, <2>4, <1>0, ProcessDispatchType DEF ProcessTypeOK
  <2>5. CASE ~Dispatch(c)
    <3>1. /\ FindsNothing(InTime(c))
          /\ UNCHANGED <<runs, notifications, appliances, deleting, fire, inbox, now>>
      BY <1>4, <2>5 DEF CronPass
    <3>2. faults' \in Nat
      BY <3>1, <1>0, FindsNothingType
    <3> QED
      BY <2>1, <2>3, <3>1, <3>2 DEF ProcessTypeOK, TypeOK, RepoTypeOK
  <2> QED
    BY <2>4, <2>5
<1>5. ASSUME NEW c \in CronPasses, CronReply(c) PROVE ProcessTypeOK'
  <2>1. call' \in [CronPasses -> Call]
    BY <1>5 DEF CronReply, NoCall, Call, ProcessTypeOK
  <2> QED
    BY <1>5, <2>1 DEF CronReply, vars, ProcessTypeOK, TypeOK, RepoTypeOK
<1>6. ASSUME NEW c \in CronPasses, CronTimesOut(c) PROVE ProcessTypeOK'
  <2>1. CancelContext(c) /\ UNCHANGED <<phase, since, call>>
    BY <1>6 DEF CronTimesOut, processVars
  <2>2. TypeOK'
    BY <2>1, <1>0, NextType DEF Next
  <2> QED
    BY <2>1, <2>2 DEF ProcessTypeOK
<1>7. CASE Boot
  BY <1>7, <1>0 DEF Boot, vars, ProcessTypeOK, TypeOK, RepoTypeOK
<1>8. CASE Sigterm
  <2>2. fire' \in [Passes -> [Runs -> Goroutine]]
    BY <1>8, <1>0, SigtermEffect
  <2> QED
    BY <1>8, <2>2, <1>0 DEF Sigterm, ProcessTypeOK, TypeOK, RepoTypeOK
<1>9. ASSUME Gone, faults' \in Nat PROVE ProcessTypeOK'
  <2>1. fire' \in [Passes -> [Runs -> Goroutine]]
    BY <1>9, IdleType DEF Gone
  <2>2. call' \in [CronPasses -> Call]
    BY <1>9 DEF Gone, NoCall, Call
  <2> QED
    BY <1>9, <2>1, <2>2, <1>0 DEF Gone, ProcessTypeOK, TypeOK, RepoTypeOK
<1>10. CASE Exit
  BY <1>9, <1>10, <1>0 DEF Exit
<1>11. CASE Die
  BY <1>9, <1>11, <1>0 DEF Die, Fault
<1>12. CASE Request
  <2>1. UNCHANGED <<fire, inbox, now, faults>> /\ UNCHANGED processVars
    BY <1>12 DEF Request, processVars
  <2>2. PICK r \in Runs : \/ \E a \in Appliances, s \in StartTimes : Create(r, a, s, TRUE)
                          \/ Cancel(r)
    BY <1>12 DEF Request
  <2>3. CreateSchedule(r) \/ CancelSchedule(r)
    BY <2>1, <2>2 DEF CreateSchedule, CancelSchedule
  <2>4. TypeOK'
    BY <2>3, <1>0, NextType DEF Next
  <2> QED
    BY <2>1, <2>4 DEF processVars, ProcessTypeOK
<1>13. CASE PassTime
  <2>1. Advance /\ UNCHANGED <<phase, since, call>>
    BY <1>13 DEF PassTime
  <2> QED
    BY <2>1, <1>0, NextType DEF Next, ProcessTypeOK
<1>14. ASSUME NEW p \in Passes, NEW r \in Runs, Fires(p, r) PROVE ProcessTypeOK'
  BY <1>14, <1>0, StepType DEF Fires, processVars, ProcessTypeOK
<1>15. CASE UNCHANGED allVars
  BY <1>15 DEF allVars, vars, processVars, ProcessTypeOK, TypeOK, RepoTypeOK
<1>16. ASSUME NEW c \in CronPasses, HangUp(c) PROVE ProcessTypeOK'
  BY <1>16, <1>15 DEF HangUp
<1> QED
  BY <1>1, <1>2, <1>3, <1>4, <1>5, <1>6, <1>7, <1>8, <1>10, <1>11, <1>12, <1>13, <1>14,
     <1>15, <1>16 DEF ProcessNext

\* Where a statement of a fire leaves its own goroutine: it has returned, or goes on
\* past the claim, under the same context.
LEMMA StepFire ==
  ASSUME TypeOK, NEW p \in Passes, NEW r \in Runs, Step(p, r)
  PROVE  /\ Active(p, r)
         /\ \/ fire'[p][r] = Idle
            \/ /\ fire'[p][r].pc # "claim"
               /\ fire'[p][r].live = fire[p][r].live
               /\ fire'[p][r].tickTime = fire[p][r].tickTime
<1> DEFINE g == fire[p][r]
<1>0. g \in Goroutine
  BY DEF TypeOK
<1>1. Active(p, r)
  BY DEF Step, Claim, ClaimMissed, ClaimReplyLost, Delivered, NotDelivered,
         ScheduleRetry, GiveUp, Notify, Active
<1>2. CASE Claim(p, r)
  <2>1. PICK w \in {"send", "notify"}, n \in Nat :
          fire'[p][r] = [g EXCEPT !.pc = w, !.attempt = n]
    <3>1. runs[r].attemptCount + 1 \in Nat
      BY DEF TypeOK, RepoTypeOK, Row
    <3>2. \E w \in {"send", "notify"} :
            fire'[p][r] = [g EXCEPT !.pc = w, !.attempt = runs[r].attemptCount + 1]
      BY <1>2 DEF Claim, Set, TypeOK
    <3> QED
      BY <3>1, <3>2
  <2> QED
    BY <1>0, <1>1, <2>1 DEF Goroutine
<1>3. CASE Delivered(p, r)
  BY <1>1, <1>3, <1>0 DEF Delivered, Set, TypeOK, Goroutine
<1>4. CASE NotDelivered(p, r)
  <2>1. CASE g.attempt < MaxAttempts
    <3>1. PICK t \in Clock :
            Set(p, r, [g EXCEPT !.pc = "retry", !.next = t + RetryDelay(g.attempt)])
      BY <1>4, <2>1 DEF NotDelivered
    <3> DEFINE n == t + RetryDelay(g.attempt)
    <3>2. Set(p, r, [g EXCEPT !.pc = "retry", !.next = n])
      BY <3>1
    <3> HIDE DEF n
    <3>3. fire'[p][r] = [g EXCEPT !.pc = "retry", !.next = n]
      BY <3>2 DEF Set, TypeOK
    <3> QED
      BY <1>0, <1>1, <3>3 DEF Goroutine
  <2>2. CASE ~ (g.attempt < MaxAttempts)
    <3>1. fire'[p][r] = [g EXCEPT !.pc = "fail"]
      BY <1>4, <2>2 DEF NotDelivered, Set, TypeOK
    <3> QED
      BY <1>0, <1>1, <3>1 DEF Goroutine
  <2> QED
    BY <2>1, <2>2
<1>5. CASE GiveUp(p, r)
  <2>1. fire'[p][r] = [g EXCEPT !.pc = "notify"]
    BY <1>5 DEF GiveUp, Set, TypeOK
  <2> QED
    BY <1>0, <1>1, <2>1 DEF Goroutine
<1>6. CASE ClaimMissed(p, r) \/ ClaimReplyLost(p, r) \/ ScheduleRetry(p, r) \/ Notify(p, r)
  <2>1. fire'[p][r] = Idle
    BY <1>6 DEF ClaimMissed, ClaimReplyLost, ScheduleRetry, Notify, Return, Set, TypeOK
  <2> QED
    BY <1>1, <2>1
<1> QED
  BY <1>2, <1>3, <1>4, <1>5, <1>6 DEF Step

\* What a pass that begins leaves: its own goroutines, live and about to claim.
LEMMA DispatchFire ==
  ASSUME TypeOK, NEW p \in Passes, Dispatch(p)
  PROVE  /\ Free(p) /\ faults' = faults /\ now' = now /\ runs' = runs
         /\ \A q \in Passes \ {p}, r \in Runs : fire'[q][r] = fire[q][r]
         /\ \A r \in Runs : \/ fire'[p][r] = Idle
                            \/ /\ fire'[p][r].pc = "claim" /\ fire'[p][r].live
                               /\ fire'[p][r].tickTime \in Clock
<1>1. PICK t \in Clock, batch \in SUBSET Runs :
        fire' = [fire EXCEPT ![p] = [r \in Runs |-> IF r \in batch THEN Spawned(t) ELSE Idle]]
  BY DEF Dispatch, FindDuePending
<1>2. \A q \in Passes \ {p}, r \in Runs : fire'[q][r] = fire[q][r]
  BY <1>1 DEF TypeOK
<1>3. \A r \in Runs : fire'[p][r] = IF r \in batch THEN Spawned(t) ELSE Idle
  BY <1>1 DEF TypeOK
<1>4. Spawned(t).pc = "claim" /\ Spawned(t).live /\ Spawned(t).tickTime = t
  BY DEF Spawned
<1> QED
  BY <1>2, <1>3, <1>4 DEF Dispatch, Free

\* What the end of a context leaves of its pass, and of the others.
LEMMA CancelFire ==
  ASSUME TypeOK, NEW p \in Passes, CancelContext(p)
  PROVE  /\ faults' = faults + 1
         /\ \A q \in Passes, r \in Runs : fire'[q][r].pc = fire[q][r].pc
         /\ \A q \in Passes \ {p}, r \in Runs : fire'[q][r] = fire[q][r]
<1>1. \A r \in Runs : fire[p][r] \in Goroutine
  BY DEF TypeOK
<1>2. fire' = [fire EXCEPT ![p] = [r \in Runs |-> [fire[p][r] EXCEPT !.live = FALSE]]]
  BY DEF CancelContext
<1>3. \A r \in Runs : fire'[p][r] = [fire[p][r] EXCEPT !.live = FALSE]
  BY <1>2 DEF TypeOK
<1>4. \A q \in Passes \ {p}, r \in Runs : fire'[q][r] = fire[q][r]
  BY <1>2 DEF TypeOK
<1> QED
  BY <1>1, <1>3, <1>4 DEF CancelContext, Fault, Goroutine

\* A pass of the cron endpoint has goroutines only while its call waits for them.
CallsWait == \A c \in CronPasses : call[c].pc # "firing" => Free(c)

\* No step leaves goroutines behind a call that is over.
LEMMA NextCallsWait ==
  ASSUME ProcessTypeOK, CallsWait, [ProcessNext]_allVars
  PROVE  CallsWait'
<1>0. /\ TypeOK /\ TickPasses \subseteq Passes /\ CronPasses \subseteq Passes
      /\ CronPasses \cap TickPasses = {} /\ Idle.pc = "idle"
      /\ call \in [CronPasses -> Call]
  BY ProcessAssumption DEF ProcessTypeOK, CronPasses, Idle
<1>1. ASSUME UNCHANGED <<fire, call>> PROVE CallsWait'
  BY <1>1 DEF CallsWait, Free, Active
<1>2. ASSUME NEW c \in CronPasses, UNCHANGED fire, NEW k,
             call' = [call EXCEPT ![c] = k], k.pc # "firing" => Free(c)
      PROVE  CallsWait'
  BY <1>0, <1>2 DEF CallsWait, Free, Active
<1>3. CASE Tick
  <2>1. CASE \E p \in TickPasses : Dispatch(p)
    <3>1. PICK p \in TickPasses : Dispatch(p)
      BY <2>1
    <3>2. p \in Passes /\ \A c \in CronPasses : c \in Passes \ {p}
      BY <1>0
    <3>3. \A c \in CronPasses, r \in Runs : fire'[c][r] = fire[c][r]
      BY <3>1, <3>2, <1>0, DispatchFire
    <3>4. call' = call
      BY <1>3 DEF Tick
    <3> QED
      BY <3>3, <3>4 DEF CallsWait, Free, Active
  <2>2. CASE ~ (\E p \in TickPasses : Dispatch(p))
    BY <1>1, <1>3, <2>2 DEF Tick
  <2> QED
    BY <2>1, <2>2
<1>4. CASE ReceiveTick \/ Drain \/ RunReturns \/ UNCHANGED allVars
  BY <1>1, <1>4 DEF ReceiveTick, Drain, RunReturns, allVars, processVars, vars
<1>5. ASSUME NEW c \in CronPasses, CronCall(c) PROVE CallsWait'
  <2>1. Free(c)
    BY <1>5 DEF CronCall, CallsWait
  <2> QED
    BY <1>2, <1>5, <2>1 DEF CronCall, vars
<1>6. ASSUME NEW c \in CronPasses, CronPass(c) PROVE CallsWait'
  <2>1. Free(c)
    BY <1>6 DEF CronPass, CallsWait
  <2>2. CASE Dispatch(c) /\ call' = [call EXCEPT ![c].pc = "firing"]
    <3>1. call[c] \in Call /\ call'[c] = [call[c] EXCEPT !.pc = "firing"]
      BY <1>0, <2>2
    <3>2. call'[c].pc = "firing"
      BY <3>1 DEF Call
    <3>3. \A d \in CronPasses \ {c} : call'[d] = call[d]
      BY <1>0, <2>2
    <3>4. \A d \in CronPasses \ {c}, r \in Runs : fire'[d][r] = fire[d][r]
      BY <1>0, <2>2, DispatchFire
    <3> QED
      BY <3>2, <3>3, <3>4 DEF CallsWait, Free, Active
  <2>3. CASE call' = [call EXCEPT ![c] = NoCall] /\ UNCHANGED fire
    BY <1>2, <2>1, <2>3
  <2> QED
    BY <1>6, <2>2, <2>3 DEF CronPass
<1>7. ASSUME NEW c \in CronPasses, CronReply(c) PROVE CallsWait'
  BY <1>2, <1>7 DEF CronReply, vars
<1>8. ASSUME NEW c \in CronPasses, CronTimesOut(c) PROVE CallsWait'
  <2>1. CancelContext(c) /\ call' = call
    BY <1>8 DEF CronTimesOut, processVars
  <2>2. \A q \in Passes, r \in Runs : fire'[q][r].pc = fire[q][r].pc
    BY <1>0, <2>1, CancelFire
  <2> QED
    BY <1>0, <2>1, <2>2 DEF CallsWait, Free, Active
<1>9. CASE Boot
  BY <1>1, <1>9 DEF Boot, vars
<1>10. CASE Sigterm
  <2>1. \A q \in Passes, r \in Runs : fire'[q][r].pc = fire[q][r].pc
    BY <1>0, <1>10, SigtermEffect
  <2>2. call' = call
    BY <1>10 DEF Sigterm
  <2> QED
    BY <1>0, <2>1, <2>2 DEF CallsWait, Free, Active
<1>11. CASE Exit \/ Die
  <2>1. \A p \in Passes, r \in Runs : fire'[p][r] = Idle
    BY <1>11 DEF Exit, Die, Gone
  <2> QED
    BY <1>0, <2>1 DEF CallsWait, Free, Active
<1>12. CASE Request
  BY <1>1, <1>12 DEF Request, processVars
<1>13. CASE PassTime
  BY <1>1, <1>13 DEF PassTime, Advance
<1>14. ASSUME NEW p \in Passes, NEW r \in Runs, Fires(p, r) PROVE CallsWait'
  <2>1. Step(p, r) /\ call' = call
    BY <1>14 DEF Fires, processVars
  <2>2. Active(p, r) /\ \A q \in Passes, s \in Runs :
                          q # p \/ s # r => fire'[q][s] = fire[q][s]
    BY <1>0, <2>1, StepFire, StepFrame DEF Frame
  <2> QED
    BY <1>0, <2>1, <2>2 DEF CallsWait, Free, Active
<1>15. ASSUME NEW c \in CronPasses, HangUp(c) PROVE CallsWait'
  BY <1>4, <1>15 DEF HangUp
<1> QED
  BY <1>3, <1>4, <1>5, <1>6, <1>7, <1>8, <1>9, <1>10, <1>11, <1>12, <1>13, <1>14, <1>15
     DEF ProcessNext

\* A process that comes up for the first time has nothing running.
LEMMA ProcessInitType == ProcessInit => ProcessTypeOK /\ CallsWait
  <1> SUFFICES ASSUME ProcessInit PROVE ProcessTypeOK /\ CallsWait
    OBVIOUS
  <1>1. TypeOK /\ \A p \in Passes, r \in Runs : fire[p][r].pc = "idle"
    BY InitType DEF ProcessInit, Init, Idle
  <1>2. call \in [CronPasses -> Call]
    BY DEF ProcessInit, NoCall, Call
  <1> QED
    BY <1>1, <1>2 DEF ProcessInit, ProcessTypeOK, CallsWait, Free, Active, CronPasses

\* The process takes a step of the scheduler, or a query of it fails, or it stops.
LEMMA ProcessSteps ==
  ASSUME [ProcessNext]_allVars
  PROVE  \/ [Next]_vars
         \/ Sigterm
         \/ UNCHANGED <<runs, notifications, inbox, now>> /\ (Gone \/ UNCHANGED fire)
<1>1. CASE Tick
  <2>1. CASE \E p \in TickPasses : Dispatch(p)
    BY <2>1, ProcessAssumption DEF Next
  <2>2. CASE ~ \E p \in TickPasses : Dispatch(p)
    BY <1>1, <2>2 DEF Tick
  <2> QED
    BY <2>1, <2>2
<1>2. ASSUME NEW c \in CronPasses, CronPass(c)
      PROVE  [Next]_vars \/ UNCHANGED <<runs, notifications, inbox, now, fire>>
  <2>1. CASE Dispatch(c)
    BY <2>1 DEF Next, CronPasses
  <2>2. CASE ~Dispatch(c)
    BY <1>2, <2>2 DEF CronPass
  <2> QED
    BY <2>1, <2>2
<1>3. ASSUME NEW c \in CronPasses, CronCall(c) \/ CronReply(c) \/ CronTimesOut(c) \/ HangUp(c)
      PROVE  [Next]_vars
  BY <1>3 DEF CronCall, CronReply, CronTimesOut, HangUp, CronPasses, Next, allVars
<1>4. CASE ReceiveTick \/ Drain \/ RunReturns \/ Boot \/ UNCHANGED allVars
  BY <1>4 DEF ReceiveTick, Drain, RunReturns, Boot, allVars
<1>5. CASE Exit \/ Die
  BY <1>5 DEF Exit, Die, Gone
<1>6. CASE Request
  <2>1. PICK r \in Runs : \/ \E a \in Appliances, s \in StartTimes : Create(r, a, s, TRUE)
                          \/ Cancel(r)
    BY <1>6 DEF Request
  <2>2. CreateSchedule(r) \/ CancelSchedule(r)
    BY <1>6, <2>1 DEF Request, CreateSchedule, CancelSchedule
  <2> QED
    BY <2>2 DEF Next
<1>7. CASE PassTime
  BY <1>7 DEF PassTime, Next
<1>8. ASSUME NEW p \in Passes, NEW r \in Runs, Fires(p, r) PROVE [Next]_vars
  BY <1>8 DEF Fires, Next
<1> QED
  BY <1>1, <1>2, <1>3, <1>4, <1>5, <1>6, <1>7, <1>8 DEF ProcessNext

\* A signal, an exit or a death takes claims away and gives none.
LEMMA ProcessOwnership ==
  ASSUME LeaseOutlastsFire, ProcessTypeOK, ProcessTypeOK', Ownership, [ProcessNext]_allVars
  PROVE  Ownership'
<1>0. TypeOK /\ TypeOK'
  BY DEF ProcessTypeOK
<1>1. CASE [Next]_vars
  BY <1>0, <1>1, NextOwnership
<1>2. CASE Sigterm
  <2>1. \A p \in Passes, r \in Runs : SameButLive(fire[p][r], fire'[p][r])
    BY <1>0, <1>2, SigtermEffect
  <2>2. UNCHANGED <<runs, notifications, now>>
    BY <1>2 DEF Sigterm
  <2>3. \A p \in Passes, r \in Runs : Timely(p, r)'
    BY <2>1, <2>2 DEF Ownership, Timely, Active, SameButLive
  <2>4. \A p \in Passes, r \in Runs : Holds(p, r)' => Holds(p, r)
    BY <2>1 DEF Holds, SameButLive
  <2> QED
    BY <2>1, <2>2, <2>3, <2>4, OwnershipKept DEF SameButLive
<1>3. CASE UNCHANGED <<runs, notifications, inbox, now>> /\ (Gone \/ UNCHANGED fire)
  <2>1. \A p \in Passes, r \in Runs : fire'[p][r] \in {fire[p][r], Idle}
    BY <1>3 DEF Gone
  <2>2. \A p \in Passes, r \in Runs : Timely(p, r)'
    BY <1>3, <2>1 DEF Ownership, Timely, Active, Idle
  <2>3. \A p \in Passes, r \in Runs : Holds(p, r)' =>
          Holds(p, r) /\ fire'[p][r] = fire[p][r]
    BY <2>1 DEF Holds, Idle
  <2> QED
    BY <1>3, <2>2, <2>3, OwnershipKept
<1> QED
  BY <1>1, <1>2, <1>3, ProcessSteps

\* However often the process is stopped, dies and comes back, with a catch-up pass and
\* cron calls beside it: a claim has one owner, and no run is notified twice.
THEOREM OwnedOverLives ==
  ASSUME LeaseOutlastsFire
  PROVE  ProcessSpec => [](AtMostOneHolder /\ OneNotification)
<1>1. ProcessInit => ProcessTypeOK /\ Ownership
  BY ProcessInitType, InitOwnership DEF ProcessInit
<1>2. ProcessTypeOK /\ [ProcessNext]_allVars => ProcessTypeOK'
  BY ProcessNextType
<1>3. ProcessTypeOK /\ ProcessTypeOK' /\ Ownership /\ [ProcessNext]_allVars => Ownership'
  BY ProcessOwnership
<1>4. Ownership => AtMostOneHolder /\ OneNotification
  BY DEF Ownership, Owned, AtMostOneHolder, OneNotification
<1> QED
  BY <1>1, <1>2, <1>3, <1>4, PTL DEF ProcessSpec

\* The two clauses of CronPassSurvives about one goroutine of the endpoint.
Survives(c, r) ==
    /\ fire[c][r].live /\ Active(c, r)' /\ ~fire'[c][r].live =>
         now >= call[c].at + CronTimeout
    /\ phase = "stopping" /\ phase' = "down" /\ Active(c, r) =>
         now >= since + Grace \/ faults' # faults

\* Only its own timeout ends the context of a pass, and only the grace period of
\* Shutdown or the death of the process cuts it off.
LEMMA NextSurvives ==
  ASSUME ProcessTypeOK, CallsWait, [ProcessNext]_allVars,
         NEW c \in CronPasses, NEW r \in Runs
  PROVE  Survives(c, r)
<1>0. /\ TypeOK /\ TickPasses \subseteq Passes /\ CronPasses \subseteq Passes
      /\ CronPasses \cap TickPasses = {} /\ c \in Passes /\ c \notin TickPasses
      /\ Idle.pc = "idle" /\ faults \in Nat /\ now \in Nat
      /\ call[c].at \in Nat /\ CronTimeout \in Nat
  BY ProcessAssumption DEF ProcessTypeOK, TypeOK, CronPasses, Idle, Call
<1>1. ASSUME fire'[c][r] = fire[c][r], phase' = phase \/ phase' # "down"
      PROVE  Survives(c, r)
  BY <1>1 DEF Survives, Active
<1>2. ASSUME NEW p \in Passes, Dispatch(p), phase' = phase PROVE Survives(c, r)
  <2>1. CASE p = c
    <3>1. fire'[c][r] = Idle \/ fire'[c][r].live
      BY <1>0, <1>2, <2>1, DispatchFire
    <3> QED
      BY <1>0, <1>2, <3>1 DEF Survives, Active
  <2>2. CASE p # c
    <3>1. fire'[c][r] = fire[c][r]
      BY <1>0, <1>2, <2>2, DispatchFire
    <3> QED
      BY <1>1, <1>2, <3>1
  <2> QED
    BY <2>1, <2>2
<1>3. CASE Tick
  <2>1. phase' = phase
    BY <1>3 DEF Tick
  <2>2. CASE \E p \in TickPasses : Dispatch(p)
    BY <1>0, <1>2, <2>1, <2>2
  <2>3. CASE ~ (\E p \in TickPasses : Dispatch(p))
    BY <1>1, <1>3, <2>1, <2>3 DEF Tick
  <2> QED
    BY <2>2, <2>3
<1>4. CASE ReceiveTick \/ Drain \/ RunReturns \/ UNCHANGED allVars
  BY <1>1, <1>4 DEF ReceiveTick, Drain, RunReturns, allVars, processVars, vars
<1>5. ASSUME NEW d \in CronPasses, CronCall(d) \/ CronReply(d) \/ HangUp(d)
      PROVE  Survives(c, r)
  BY <1>1, <1>5 DEF CronCall, CronReply, HangUp, allVars, processVars, vars
<1>6. ASSUME NEW d \in CronPasses, CronPass(d) PROVE Survives(c, r)
  <2>1. phase' = phase
    BY <1>6 DEF CronPass
  <2>2. CASE Dispatch(d)
    BY <1>0, <1>2, <2>1, <2>2
  <2>3. CASE ~Dispatch(d)
    BY <1>1, <1>6, <2>1, <2>3 DEF CronPass
  <2> QED
    BY <2>2, <2>3
<1>7. ASSUME NEW d \in CronPasses, CronTimesOut(d) PROVE Survives(c, r)
  <2>1. CancelContext(d) /\ phase' = phase /\ ~InTime(d)
    BY <1>7 DEF CronTimesOut, processVars
  <2>2. CASE d = c
    <3>1. now >= call[c].at + CronTimeout
      BY <1>0, <2>1, <2>2 DEF InTime
    <3> QED
      BY <2>1, <3>1 DEF Survives
  <2>3. CASE d # c
    <3>1. fire'[c][r] = fire[c][r]
      BY <1>0, <2>1, <2>3, CancelFire
    <3> QED
      BY <1>1, <2>1, <3>1
  <2> QED
    BY <2>2, <2>3
<1>8. CASE Boot
  BY <1>1, <1>8 DEF Boot, vars
<1>9. CASE Sigterm
  <2>1. fire[c][r].live => fire'[c][r].live
    BY <1>0, <1>9, SigtermEffect
  <2> QED
    BY <1>9, <2>1 DEF Sigterm, Survives
<1>10. CASE Exit
  <2>1. fire'[c][r] = Idle
    BY <1>0, <1>10 DEF Exit, Gone
  <2>2. CASE HandlersDone
    BY <1>0, <2>1, <2>2 DEF HandlersDone, CallsWait, Free, Survives, Active
  <2>3. CASE now >= since + Grace
    BY <1>0, <2>1, <2>3 DEF Survives, Active
  <2> QED
    BY <1>10, <2>2, <2>3 DEF Exit
<1>11. CASE Die
  <2>1. fire'[c][r] = Idle /\ faults' # faults
    BY <1>0, <1>11 DEF Die, Gone, Fault
  <2> QED
    BY <1>0, <2>1 DEF Survives, Active
<1>12. CASE Request
  BY <1>1, <1>12 DEF Request, processVars
<1>13. CASE PassTime
  BY <1>1, <1>13 DEF PassTime, Advance
<1>14. ASSUME NEW p \in Passes, NEW q \in Runs, Fires(p, q) PROVE Survives(c, r)
  <2>1. Step(p, q) /\ phase' = phase
    BY <1>14 DEF Fires, processVars
  <2>2. CASE p = c /\ q = r
    <3>1. fire'[c][r] = Idle \/ fire'[c][r].live = fire[c][r].live
      BY <1>0, <2>1, <2>2, StepFire
    <3> QED
      BY <1>0, <2>1, <3>1 DEF Survives, Active
  <2>3. CASE p # c \/ q # r
    <3>1. fire'[c][r] = fire[c][r]
      BY <1>0, <2>1, <2>3, StepFrame DEF Frame
    <3> QED
      BY <1>1, <2>1, <3>1
  <2> QED
    BY <2>2, <2>3
<1> QED
  BY <1>3, <1>4, <1>5, <1>6, <1>7, <1>8, <1>9, <1>10, <1>11, <1>12, <1>13, <1>14
     DEF ProcessNext

\* A pass behind the cron endpoint is not abandoned, for any number of calls beside
\* any number of ticks, restarts and signals: hanging up does not end its context, and an
\* orderly exit waits for its fires as long as Shutdown may.
THEOREM CronPassesSurvive == ProcessSpec => CronPassSurvives
<1>1. ProcessTypeOK /\ CallsWait /\ [ProcessNext]_allVars => (ProcessTypeOK /\ CallsWait)'
  BY ProcessNextType, NextCallsWait
<1>2. ProcessTypeOK /\ CallsWait /\ [ProcessNext]_allVars =>
        [\A c \in CronPasses, r \in Runs :
          /\ fire[c][r].live /\ Active(c, r)' /\ ~fire'[c][r].live =>
               now >= call[c].at + CronTimeout
          /\ phase = "stopping" /\ phase' = "down" /\ Active(c, r) =>
               now >= since + Grace \/ faults' # faults]_allVars
  BY NextSurvives DEF Survives
<1> QED
  BY <1>1, <1>2, ProcessInitType, PTL DEF ProcessSpec, CronPassSurvives
-----------------------------------------------------------------------------
(* The catch-up pass. *)

\* A run nobody has tried to fire.
Fresh(r) == runs[r].status = "pending" /\ runs[r].attemptCount = 0

\* A claim is an attempt, and a run waits for a retry only after one.
Tried(r) ==
    /\ runs[r].status = "fired" => runs[r].attemptCount >= 1
    /\ Fresh(r) => runs[r].nextAttemptAt = NULL

\* A process that is down runs nothing.
Stopped ==
    phase = "down" =>
      /\ loop = "off" /\ \A c \in CronPasses : call[c].pc = "none"
      /\ \A p \in Passes : Free(p)

\* One that is up has only passes of its own life, and all of them are live as long as
\* nothing has failed.
OfThisLife ==
    phase = "up" /\ faults = 0 =>
      \A p \in Passes, r \in Runs :
        Active(p, r) => fire[p][r].live /\ fire[p][r].tickTime >= since

\* A run that waits untried since before this life of the process; and one that a pass
\* is about to claim.
Waiting(r) == Fresh(r) /\ runs[r].startTime < since
Picked(r) == \E p \in Passes : fire[p][r].pc = "claim"

\* A run whose last claim is of this life.
ClaimedNow(r) ==
    runs[r].status # "absent" /\ runs[r].firedAt # NULL /\ runs[r].firedAt >= since

\* dueCondition, of a row and its notifications.
DueAt(row, notes, t) == WaitIsOver(row, t) \/ ClaimAbandoned(row, notes, t)

\* Why a goroutine has its run in hand: it claimed it; or it found it due, and then it
\* is so still, if it has not been cancelled, or claimed by another.
InHand(p, r) ==
    \/ ClaimedNow(r)
    \/ /\ fire[p][r].pc = "claim"
       /\ \/ DueAt(runs[r], notifications[r], fire[p][r].tickTime)
          \/ runs[r].status = "cancelled"

Reasoned ==
    phase = "up" /\ faults = 0 =>
      \A p \in Passes, r \in Runs : Active(p, r) => InHand(p, r)

\* No tick and no claim is of a time to come; nor is a claim, in a process that is down,
\* of a time when it was.
NotAhead ==
    faults = 0 =>
      /\ \A p \in Passes, r \in Runs : Active(p, r) => fire[p][r].tickTime <= now
      /\ \A r \in Runs : runs[r].firedAt # NULL =>
           runs[r].firedAt <= IF phase = "down" THEN since ELSE now

\* What a run that waits and is not picked can say of those that are.
Behind(r) == \A q \in Runs : TakenUp(q) => runs[q].startTime <= runs[r].startTime
Full(r) ==
    \E batch \in SUBSET Runs :
      /\ Cardinality(batch) = BatchLimit
      /\ \A q \in batch : /\ TakenUp(q) \/ runs[q].status = "cancelled"
                          /\ runs[q].startTime <= runs[r].startTime

InOrder ==
    phase = "up" /\ faults = 0 => \A r \in Runs : Waiting(r) => Picked(r) \/ Behind(r)

\* From its first pass on.
AllCovered ==
    phase = "up" /\ faults = 0 /\ SchedulerEnabled =>
      (loop = "tick" /\ now = since) \/ \A r \in Runs : Waiting(r) => Picked(r) \/ Full(r)

CatchUpInv ==
    /\ since <= now
    /\ \A r \in Runs : Tried(r)
    /\ Stopped /\ OfThisLife /\ Reasoned /\ NotAhead
    /\ InOrder /\ AllCovered

\* A statement of a fire leaves a fresh run fresh only by losing its claim.
LEMMA StepRow ==
  ASSUME TypeOK, NEW p \in Passes, NEW r \in Runs, Step(p, r), Tried(r)
  PROVE  /\ Tried(r)'
         /\ Fresh(r)' =>
              /\ runs'[r] = runs[r]
              /\ fire[p][r].pc = "claim" /\ fire[p][r].live
                   /\ runs[r].startTime <= fire[p][r].tickTime => faults' # faults
<1> DEFINE g == fire[p][r]
<1>0. /\ runs[r].attemptCount \in Nat /\ g.tickTime \in Int /\ faults \in Nat
  BY DEF TypeOK, RepoTypeOK, Row, Goroutine
<1>1. ASSUME runs'[r] = runs[r], g.pc # "claim"
      PROVE  Tried(r)' /\ (Fresh(r)' => runs'[r] = runs[r])
  BY <1>1 DEF Tried, Fresh
<1>2. CASE Claim(p, r) \/ ClaimReplyLost(p, r)
  <2>1. ClaimForFiring(r, g.tickTime)
    BY <1>2, ClaimEffect, ClaimReplyLostEffect
  <2>2. runs'[r].status = "fired" /\ runs'[r].attemptCount >= 1
    BY <1>0, <2>1, ClaimWritten
  <2> QED
    BY <2>2 DEF Tried, Fresh
<1>3. CASE ClaimMissed(p, r)
  <2>1. runs'[r] = runs[r]
    BY <1>3, ClaimMissedEffect
  <2>2. ASSUME Fresh(r), g.live, runs[r].startTime <= g.tickTime PROVE faults' # faults
    <3>1. Claimable(r, g.tickTime)
      BY <2>2 DEF Tried, Fresh, Claimable, WaitIsOver
    <3>2. Fails(g)
      BY <1>3, <3>1 DEF ClaimMissed
    <3> QED
      BY <1>0, <2>2, <3>2 DEF Fails, Fault
  <2> QED
    BY <2>1, <2>2 DEF Tried, Fresh
<1>4. CASE Delivered(p, r) \/ NotDelivered(p, r) \/ Notify(p, r)
  <2>1. runs'[r] = runs[r] /\ g.pc # "claim"
    BY <1>4, DeliveredEffect, NotDeliveredEffect, NotifyEffect
  <2> QED
    BY <1>1, <2>1
<1>5. CASE ScheduleRetry(p, r)
  <2>1. /\ g.pc # "claim"
        /\ \/ /\ runs[r].status = "fired" /\ runs'[r].status = "pending"
              /\ runs'[r].attemptCount = runs[r].attemptCount
           \/ runs'[r] = runs[r]
    BY <1>5, ScheduleRetryEffect
  <2> QED
    BY <1>0, <1>1, <2>1 DEF Tried, Fresh
<1>6. CASE GiveUp(p, r)
  <2>1. g.pc # "claim" /\ (runs'[r] = runs[r] \/ runs'[r].status = "failed")
    BY <1>6 DEF GiveUp, MarkFailed, repoVars, TypeOK, RepoTypeOK, Row
  <2> QED
    BY <1>1, <2>1 DEF Tried, Fresh
<1> QED
  BY <1>2, <1>3, <1>4, <1>5, <1>6 DEF Step

\* A request adds fresh runs that start no earlier, and changes no fresh run but by
\* cancelling it.
LEMMA RequestRow ==
  ASSUME TypeOK, Request, NEW r \in Runs, Tried(r)
  PROVE  Tried(r)' /\ (Fresh(r)' => runs'[r] = runs[r] \/ runs'[r].startTime >= now)
<1>0. runs \in [Runs -> Row]
  BY DEF TypeOK, RepoTypeOK
<1>1. PICK q \in Runs : \/ \E a \in Appliances, s \in StartTimes : s >= now /\ Create(q, a, s, TRUE)
                        \/ Cancel(q)
  BY DEF Request
<1>2. CASE Cancel(q)
  <2>1. runs'[r] = runs[r] \/ runs'[r].status = "cancelled"
    BY <1>0, <1>2 DEF Cancel, Row
  <2> QED
    BY <2>1 DEF Tried, Fresh
<1>3. CASE \E a \in Appliances, s \in StartTimes : s >= now /\ Create(q, a, s, TRUE)
  <2>1. PICK a \in Appliances, s \in StartTimes : s >= now /\ Create(q, a, s, TRUE)
    BY <1>3
  <2>2. \/ runs'[r] = runs[r]
        \/ /\ runs'[r].status = "pending" /\ runs'[r].startTime = s
           /\ runs'[r].nextAttemptAt = NULL
    BY <1>0, <2>1 DEF Create, AbsentRow
  <2> QED
    BY <2>1, <2>2 DEF Tried, Fresh
<1> QED
  BY <1>1, <1>2, <1>3

\* Nothing else touches a row.
LEMMA ProcessRows ==
  ASSUME [ProcessNext]_allVars, ~Request, ~ \E p \in Passes, r \in Runs : Step(p, r)
  PROVE  runs' = runs
<1>1. CASE Tick
  BY <1>1 DEF Tick, Dispatch
<1>2. ASSUME NEW c \in CronPasses,
             CronCall(c) \/ CronPass(c) \/ CronReply(c) \/ CronTimesOut(c) \/ HangUp(c)
      PROVE  runs' = runs
  BY <1>2 DEF CronCall, CronPass, CronReply, CronTimesOut, HangUp, CancelContext, Dispatch,
              allVars, vars
<1>3. CASE ReceiveTick \/ Drain \/ RunReturns \/ Boot \/ UNCHANGED allVars
  BY <1>3 DEF ReceiveTick, Drain, RunReturns, Boot, allVars, vars
<1>4. CASE Sigterm \/ Exit \/ Die \/ PassTime
  BY <1>4 DEF Sigterm, Exit, Die, Gone, PassTime, Advance
<1> QED
  BY <1>1, <1>2, <1>3, <1>4 DEF ProcessNext, Fires

\* How the clock, the phase and the faults move.
LEMMA ProcessClock ==
  ASSUME ProcessTypeOK, [ProcessNext]_allVars
  PROVE  /\ now' \in {now, now + 1} /\ faults' \in {faults, faults + 1}
         /\ \/ since' = since /\ phase' = phase
            \/ since' = now /\ now' = now
<1>0. faults \in Nat /\ now \in Nat
  BY DEF ProcessTypeOK, TypeOK
<1>1. ASSUME NEW live, FindsNothing(live) PROVE faults' \in {faults, faults + 1}
  BY <1>1 DEF FindsNothing, Fault
<1>2. CASE Tick
  <2>1. now' = now /\ since' = since /\ phase' = phase
    BY <1>2 DEF Tick, Dispatch
  <2>2. faults' \in {faults, faults + 1}
    BY <1>1, <1>2 DEF Tick, Dispatch
  <2> QED
    BY <2>1, <2>2
<1>3. ASSUME NEW c \in CronPasses, CronPass(c)
      PROVE  now' = now /\ since' = since /\ phase' = phase /\ faults' \in {faults, faults + 1}
  <2>1. now' = now /\ since' = since /\ phase' = phase
    BY <1>3 DEF CronPass, Dispatch
  <2>2. faults' \in {faults, faults + 1}
    BY <1>1, <1>3 DEF CronPass, Dispatch
  <2> QED
    BY <2>1, <2>2
<1>4. ASSUME NEW c \in CronPasses, CronCall(c) \/ CronReply(c) \/ CronTimesOut(c) \/ HangUp(c)
      PROVE  now' = now /\ since' = since /\ phase' = phase /\ faults' \in {faults, faults + 1}
  BY <1>4 DEF CronCall, CronReply, CronTimesOut, HangUp, CancelContext, Fault, allVars,
              processVars, vars
<1>5. CASE ReceiveTick \/ Drain \/ RunReturns \/ UNCHANGED allVars \/ Boot \/ Request
  BY <1>5 DEF ReceiveTick, Drain, RunReturns, Boot, Request, allVars, processVars, vars
<1>6. CASE Sigterm \/ Exit \/ Die
  BY <1>6 DEF Sigterm, Exit, Die, Gone, Fault
<1>7. CASE PassTime
  BY <1>7 DEF PassTime, Advance
<1>8. ASSUME NEW p \in Passes, NEW r \in Runs, Fires(p, r)
      PROVE  now' = now /\ since' = since /\ phase' = phase /\ faults' \in {faults, faults + 1}
  <2>1. Step(p, r) /\ since' = since /\ phase' = phase
    BY <1>8 DEF Fires, processVars
  <2>2. now' = now
    BY <2>1, StepFrame DEF ProcessTypeOK, Frame
  <2>3. faults' \in {faults, faults + 1}
    BY <2>1 DEF Step, Claim, ClaimMissed, ClaimReplyLost, Delivered, NotDelivered,
                ScheduleRetry, GiveUp, Notify, Succeeds, Fails, Fault
  <2> QED
    BY <2>1, <2>2, <2>3
<1> QED
  BY <1>2, <1>3, <1>4, <1>5, <1>6, <1>7, <1>8 DEF ProcessNext

\* Rows stay tried, and a run fresh behind a step was so before it, or starts later.
LEMMA NextRows ==
  ASSUME ProcessTypeOK, [ProcessNext]_allVars, NEW r \in Runs, Tried(r)
  PROVE  /\ Tried(r)'
         /\ Fresh(r)' => runs'[r] = runs[r] \/ (Request /\ runs'[r].startTime >= now)
<1>0. TypeOK
  BY DEF ProcessTypeOK
<1>1. CASE Request
  BY <1>0, <1>1, RequestRow
<1>2. CASE \E p \in Passes, q \in Runs : Step(p, q)
  <2>1. PICK p \in Passes, q \in Runs : Step(p, q)
    BY <1>2
  <2>2. CASE q = r
    BY <1>0, <2>1, <2>2, StepRow
  <2>3. CASE q # r
    <3>1. runs'[r] = runs[r]
      BY <1>0, <2>1, <2>3, StepFrame DEF Frame
    <3> QED
      BY <3>1 DEF Tried, Fresh
  <2> QED
    BY <2>2, <2>3
<1>3. CASE ~Request /\ ~ \E p \in Passes, q \in Runs : Step(p, q)
  BY <1>3, ProcessRows DEF Tried, Fresh
<1> QED
  BY <1>1, <1>2, <1>3

\* No step starts anything in a process that is down.
LEMMA NextStopped ==
  ASSUME ProcessTypeOK, Stopped, [ProcessNext]_allVars PROVE Stopped'
<1>0. TypeOK /\ Idle.pc = "idle" /\ CronPasses \subseteq Passes /\ TickPasses \subseteq Passes
  BY ProcessAssumption DEF ProcessTypeOK, CronPasses, Idle
<1>1. CASE phase' # "down"
  BY <1>1 DEF Stopped
<1>2. CASE Exit \/ Die
  <2>1. /\ loop' = "off" /\ \A p \in Passes, r \in Runs : fire'[p][r] = Idle
        /\ \A c \in CronPasses : call'[c].pc = "none"
    BY <1>2 DEF Exit, Die, Gone, NoCall
  <2> QED
    BY <1>0, <2>1 DEF Stopped, Free, Active
<1>3. CASE phase = "down" /\ ~Exit /\ ~Die
  <2>1. /\ loop = "off" /\ \A c \in CronPasses : call[c].pc = "none"
        /\ \A p \in Passes, r \in Runs : ~Active(p, r)
    BY <1>3 DEF Stopped, Free
  <2>2. ~Tick /\ ~ReceiveTick /\ ~Drain /\ ~RunReturns
    BY <2>1 DEF Tick, ReceiveTick, Drain, RunReturns
  <2>3. \A c \in CronPasses : ~CronCall(c) /\ ~CronPass(c) /\ ~CronReply(c)
                               /\ ~CronTimesOut(c) /\ ~HangUp(c)
    BY <1>3, <2>1 DEF CronCall, CronPass, CronReply, CronTimesOut, HangUp
  <2>4. \A p \in Passes, r \in Runs : ~Fires(p, r)
    BY <1>0, <2>1, StepFire DEF Fires
  <2>5. Boot \/ PassTime \/ UNCHANGED allVars
    BY <1>3, <2>2, <2>3, <2>4 DEF ProcessNext, Sigterm, Request
  <2>6. phase' # "down" \/ UNCHANGED <<loop, call, fire>>
    BY <2>5 DEF Boot, PassTime, Advance, allVars, processVars, vars
  <2> QED
    BY <2>1, <2>6 DEF Stopped, Free, Active
<1>4. CASE phase # "down" /\ phase' = "down" /\ ~Exit /\ ~Die
  <2>1. phase' = phase \/ Boot \/ Sigterm
    BY <1>4 DEF ProcessNext, Tick, ReceiveTick, Drain, RunReturns, CronCall, CronPass,
       CronReply, CronTimesOut, HangUp, Request, PassTime, Fires, allVars, processVars
  <2> QED
    BY <1>4, <2>1 DEF Boot, Sigterm
<1> QED
  BY <1>1, <1>2, <1>3, <1>4

\* What a statement of a fire writes: a claim, nothing, or something into a row that
\* its goroutine has claimed.
LEMMA StepWrites ==
  ASSUME TypeOK, NEW p \in Passes, NEW r \in Runs, Step(p, r)
  PROVE  /\ runs'[r].startTime = runs[r].startTime
         /\ runs[r].status # "absent" => runs'[r].status # "absent"
         /\ \/ /\ fire[p][r].pc = "claim" /\ runs'[r].status = "fired"
               /\ runs'[r].firedAt = fire[p][r].tickTime
            \/ runs'[r] = runs[r] /\ notifications'[r] = notifications[r]
            \/ Active(p, r) /\ fire[p][r].pc # "claim" /\ runs'[r].firedAt = runs[r].firedAt
         /\ fire[p][r].pc = "claim" /\ Active(p, r)' =>
              runs'[r].status = "fired" /\ runs'[r].firedAt = fire[p][r].tickTime
<1>0. fire[p][r].tickTime \in Int /\ runs \in [Runs -> Row] /\ Idle.pc = "idle"
  BY DEF TypeOK, RepoTypeOK, Goroutine, Idle
<1>1. CASE Claim(p, r) \/ ClaimReplyLost(p, r)
  <2>1. fire[p][r].pc = "claim" /\ ClaimForFiring(r, fire[p][r].tickTime)
    BY <1>1, ClaimEffect, ClaimReplyLostEffect
  <2>2. runs'[r].status = "fired" /\ runs'[r].firedAt = fire[p][r].tickTime
    BY <1>0, <2>1, ClaimWritten
  <2>3. runs'[r].startTime = runs[r].startTime
    BY <1>0, <2>1 DEF ClaimForFiring, Row
  <2> QED
    BY <2>1, <2>2, <2>3
<1>2. CASE ClaimMissed(p, r)
  <2>1. runs' = runs /\ notifications' = notifications /\ fire'[p][r] = Idle
    BY <1>2, ClaimMissedEffect
  <2> QED
    BY <1>0, <2>1 DEF Active
<1>3. CASE Delivered(p, r) \/ NotDelivered(p, r)
  <2>1. runs' = runs /\ notifications' = notifications /\ fire[p][r].pc = "send"
    BY <1>3, DeliveredEffect, NotDeliveredEffect
  <2> QED
    BY <2>1
<1>4. CASE ScheduleRetry(p, r)
  <2>1. fire[p][r].pc = "retry"
    BY <1>4 DEF ScheduleRetry
  <2>2. \/ runs' = [runs EXCEPT ![r].status = "pending", ![r].nextAttemptAt = fire[p][r].next]
        \/ runs' = runs
    BY <1>4 DEF ScheduleRetry, MarkRetry, repoVars
  <2>3. runs'[r].startTime = runs[r].startTime /\ runs'[r].firedAt = runs[r].firedAt
        /\ (runs[r].status # "absent" => runs'[r].status # "absent")
    BY <1>0, <2>2 DEF Row
  <2> QED
    BY <2>1, <2>3 DEF Active
<1>5. CASE GiveUp(p, r)
  <2>1. fire[p][r].pc = "fail"
    BY <1>5 DEF GiveUp
  <2>2. runs' = [runs EXCEPT ![r].status = "failed"] \/ runs' = runs
    BY <1>5 DEF GiveUp, MarkFailed, repoVars
  <2>3. runs'[r].startTime = runs[r].startTime /\ runs'[r].firedAt = runs[r].firedAt
        /\ (runs[r].status # "absent" => runs'[r].status # "absent")
    BY <1>0, <2>2 DEF Row
  <2> QED
    BY <2>1, <2>3 DEF Active
<1>6. CASE Notify(p, r)
  <2>1. fire[p][r].pc = "notify" /\ runs' = runs
    BY <1>6, NotifyEffect
  <2> QED
    BY <2>1 DEF Active
<1> QED
  BY <1>1, <1>2, <1>3, <1>4, <1>5, <1>6 DEF Step

\* What a request writes: a new row, or a cancellation.
LEMMA RequestWrites ==
  ASSUME TypeOK, Request, NEW r \in Runs
  PROVE  /\ notifications' = notifications
         /\ \/ runs'[r] = runs[r]
            \/ runs[r].status = "absent" /\ runs'[r].firedAt = NULL
            \/ /\ runs[r].status = "pending" /\ runs'[r].status = "cancelled"
               /\ runs'[r].firedAt = runs[r].firedAt /\ runs'[r].startTime = runs[r].startTime
<1>0. runs \in [Runs -> Row]
  BY DEF TypeOK, RepoTypeOK
<1>1. PICK q \in Runs : \/ \E a \in Appliances, s \in StartTimes : s >= now /\ Create(q, a, s, TRUE)
                        \/ Cancel(q)
  BY DEF Request
<1>2. CASE Cancel(q)
  <2>1. \/ runs'[r] = runs[r]
        \/ /\ runs[r].status = "pending" /\ runs'[r].status = "cancelled"
           /\ runs'[r].firedAt = runs[r].firedAt /\ runs'[r].startTime = runs[r].startTime
    BY <1>0, <1>2 DEF Cancel, Row
  <2> QED
    BY <1>2, <2>1 DEF Cancel
<1>3. CASE \E a \in Appliances, s \in StartTimes : s >= now /\ Create(q, a, s, TRUE)
  <2>1. PICK a \in Appliances, s \in StartTimes : s >= now /\ Create(q, a, s, TRUE)
    BY <1>3
  <2>2. runs'[r] = runs[r] \/ (runs[r].status = "absent" /\ runs'[r].firedAt = NULL)
    BY <1>0, <2>1 DEF Create, AbsentRow
  <2> QED
    BY <2>1, <2>2 DEF Create
<1> QED
  BY <1>1, <1>2, <1>3

\* Nothing else touches a notification.
LEMMA ProcessNotes ==
  ASSUME [ProcessNext]_allVars, ~Request, ~ \E p \in Passes, r \in Runs : Step(p, r)
  PROVE  notifications' = notifications
<1>1. CASE Tick
  BY <1>1 DEF Tick, Dispatch
<1>2. ASSUME NEW c \in CronPasses,
             CronCall(c) \/ CronPass(c) \/ CronReply(c) \/ CronTimesOut(c) \/ HangUp(c)
      PROVE  notifications' = notifications
  BY <1>2 DEF CronCall, CronPass, CronReply, CronTimesOut, HangUp, CancelContext, Dispatch,
              allVars, vars
<1>3. CASE ReceiveTick \/ Drain \/ RunReturns \/ Boot \/ UNCHANGED allVars
  BY <1>3 DEF ReceiveTick, Drain, RunReturns, Boot, allVars, vars
<1>4. CASE Sigterm \/ Exit \/ Die \/ PassTime
  BY <1>4 DEF Sigterm, Exit, Die, Gone, PassTime, Advance
<1> QED
  BY <1>1, <1>2, <1>3, <1>4 DEF ProcessNext, Fires

\* A row within a life: what is claimed stays so, what is cancelled or due stays so but
\* for being claimed, or cancelled.
RowKept(q) ==
    /\ runs[q].status # "absent" =>
         runs'[q].status # "absent" /\ runs'[q].startTime = runs[q].startTime
    /\ ClaimedNow(q) => ClaimedNow(q)'
    /\ runs[q].status = "cancelled" => runs'[q].status = "cancelled" \/ ClaimedNow(q)'
    /\ \A t \in Int : DueAt(runs[q], notifications[q], t) =>
         \/ DueAt(runs'[q], notifications'[q], t)
         \/ runs'[q].status = "cancelled" \/ ClaimedNow(q)'

LEMMA RowsKept ==
  ASSUME ProcessTypeOK, OfThisLife, Reasoned, [ProcessNext]_allVars,
         phase = "up", faults = 0, since' = since, NEW q \in Runs
  PROVE  RowKept(q)
<1>0. /\ TypeOK /\ runs[q].firedAt \in Int \cup {NULL} /\ since \in Int
      /\ \A p \in Passes : fire[p][q].tickTime \in Int
      /\ NULL \notin Int
  BY RepositoryAssumption DEF ProcessTypeOK, TypeOK, RepoTypeOK, Row, Goroutine
<1>1. ASSUME runs'[q] = runs[q], notifications'[q] = notifications[q] PROVE RowKept(q)
  BY <1>1 DEF RowKept, ClaimedNow
<1>2. CASE Request
  <2>1. CASE runs'[q] = runs[q]
    BY <1>0, <1>1, <1>2, <2>1, RequestWrites
  <2>2. CASE runs[q].status = "absent"
    BY <2>2 DEF RowKept, ClaimedNow, DueAt, WaitIsOver, ClaimAbandoned
  <2>3. CASE /\ runs[q].status = "pending" /\ runs'[q].status = "cancelled"
             /\ runs'[q].firedAt = runs[q].firedAt /\ runs'[q].startTime = runs[q].startTime
    BY <2>3 DEF RowKept, ClaimedNow
  <2> QED
    BY <1>0, <1>2, <2>1, <2>2, <2>3, RequestWrites
<1>3. CASE \E p \in Passes, s \in Runs : Step(p, s)
  <2>1. PICK p \in Passes, s \in Runs : Step(p, s)
    BY <1>3
  <2>2. CASE s # q
    <3>1. runs'[q] = runs[q] /\ notifications'[q] = notifications[q]
      BY <1>0, <2>1, <2>2, StepFrame DEF Frame
    <3> QED
      BY <1>1, <3>1
  <2>3. CASE s = q
    <3>0. /\ runs'[q].startTime = runs[q].startTime
          /\ runs[q].status # "absent" => runs'[q].status # "absent"
      BY <1>0, <2>1, <2>3, StepWrites
    <3>1. CASE fire[p][q].pc = "claim" /\ runs'[q].status = "fired"
               /\ runs'[q].firedAt = fire[p][q].tickTime
      <4>1. fire[p][q].tickTime >= since /\ fire[p][q].tickTime # NULL
        BY <1>0, <3>1 DEF OfThisLife, Active
      <4>2. ClaimedNow(q)'
        BY <3>1, <4>1 DEF ClaimedNow
      <4> QED
        BY <3>0, <4>2 DEF RowKept
    <3>2. CASE runs'[q] = runs[q] /\ notifications'[q] = notifications[q]
      BY <1>1, <3>2
    <3>3. CASE Active(p, q) /\ fire[p][q].pc # "claim" /\ runs'[q].firedAt = runs[q].firedAt
      <4>1. ClaimedNow(q)
        BY <3>3 DEF Reasoned, InHand
      <4>2. ClaimedNow(q)'
        BY <3>0, <3>3, <4>1 DEF ClaimedNow
      <4> QED
        BY <3>0, <4>2 DEF RowKept
    <3> QED
      BY <1>0, <2>1, <2>3, <3>1, <3>2, <3>3, StepWrites
  <2> QED
    BY <2>2, <2>3
<1>4. CASE ~Request /\ ~ \E p \in Passes, s \in Runs : Step(p, s)
  BY <1>1, <1>4, ProcessRows, ProcessNotes
<1> QED
  BY <1>2, <1>3, <1>4

\* What a pass finds, with one clock: runs that are due now, all of them or as many as
\* one query returns, the oldest.
LEMMA DispatchFinds ==
  ASSUME Skew = 0, TypeOK, NEW p \in Passes, Dispatch(p)
  PROVE  \E batch \in SUBSET Runs :
           /\ \A r \in Runs :
                /\ r \in batch => /\ fire'[p][r].pc = "claim" /\ fire'[p][r].tickTime = now
                                  /\ DueAt(runs[r], notifications[r], now)
                /\ r \notin batch => fire'[p][r] = Idle
           /\ \A r \in Runs \ batch : DueAt(runs[r], notifications[r], now) =>
                /\ Cardinality(batch) = BatchLimit
                /\ \A q \in batch : runs[q].startTime <= runs[r].startTime
<1>1. PICK t \in Clock : \E batch \in FindDuePending(t) :
        fire' = [fire EXCEPT ![p] = [r \in Runs |-> IF r \in batch THEN Spawned(t) ELSE Idle]]
  BY DEF Dispatch
<1>2. t = now
  BY DEF Clock, TypeOK
<1>3. PICK batch \in FindDuePending(now) :
        fire' = [fire EXCEPT ![p] = [r \in Runs |-> IF r \in batch THEN Spawned(now) ELSE Idle]]
  BY <1>1, <1>2
<1>4. \A r \in Runs : fire'[p][r] = IF r \in batch THEN Spawned(now) ELSE Idle
  BY <1>3 DEF TypeOK
<1>5. Spawned(now).pc = "claim" /\ Spawned(now).tickTime = now
  BY DEF Spawned
<1> DEFINE due == {r \in Runs : DueAt(runs[r], notifications[r], now)}
<1>6. /\ batch \subseteq due
      /\ Cardinality(batch) = BatchLimit \/ batch = due
      /\ \A r \in batch, q \in due \ batch : runs[r].startTime <= runs[q].startTime
  BY DEF FindDuePending, DueAt, Claimable
<1>7. batch \in SUBSET Runs /\ \A r \in Runs : r \in due <=> DueAt(runs[r], notifications[r], now)
  BY <1>6
<1> HIDE DEF due
<1> QED
  BY <1>4, <1>5, <1>6, <1>7

\* While nothing fails a goroutine moves by its own statements, as its pass begins, or
\* with its process.
LEMMA FireMoves ==
  ASSUME ProcessTypeOK, [ProcessNext]_allVars, faults' = 0
  PROVE  /\ faults = 0 /\ ~Die /\ \A c \in CronPasses : ~CronTimesOut(c)
         /\ \A p \in Passes, r \in Runs :
              \/ fire'[p][r] = fire[p][r] \/ Step(p, r) \/ Dispatch(p)
              \/ Sigterm \/ Exit
<1>0. /\ TypeOK /\ CronPasses \subseteq Passes /\ TickPasses \subseteq Passes /\ faults \in Nat
  BY ProcessAssumption DEF ProcessTypeOK, TypeOK, CronPasses
<1>1. faults = 0
  BY <1>0, ProcessClock
<1>2. ~Die /\ \A c \in CronPasses : ~CronTimesOut(c)
  BY <1>0, <1>1 DEF Die, Fault, CronTimesOut, CancelContext
<1>3. ASSUME NEW p \in Passes, NEW r \in Runs, ~Sigterm, ~Exit
      PROVE  fire'[p][r] = fire[p][r] \/ Step(p, r) \/ Dispatch(p)
  <2>1. ASSUME NEW q \in Passes, Dispatch(q) PROVE fire'[p][r] = fire[p][r] \/ Dispatch(p)
    BY <1>0, <2>1, DispatchFire
  <2>2. CASE Tick
    BY <1>0, <2>1, <2>2 DEF Tick
  <2>3. ASSUME NEW c \in CronPasses, CronPass(c) PROVE fire'[p][r] = fire[p][r] \/ Dispatch(p)
    BY <1>0, <2>1, <2>3 DEF CronPass
  <2>4. ASSUME NEW q \in Passes, NEW s \in Runs, Fires(q, s)
        PROVE  fire'[p][r] = fire[p][r] \/ Step(p, r)
    BY <1>0, <2>4, StepFrame DEF Fires, Frame
  <2>5. CASE ReceiveTick \/ Drain \/ RunReturns \/ Request \/ PassTime \/ Boot \/ UNCHANGED allVars
    BY <2>5 DEF ReceiveTick, Drain, RunReturns, Request, PassTime, Advance, Boot, allVars, vars
  <2>6. ASSUME NEW c \in CronPasses, CronCall(c) \/ CronReply(c) \/ HangUp(c)
        PROVE  fire'[p][r] = fire[p][r]
    BY <2>6 DEF CronCall, CronReply, HangUp, allVars, vars
  <2> QED
    BY <1>2, <1>3, <2>2, <2>3, <2>4, <2>5, <2>6 DEF ProcessNext
<1> QED
  BY <1>1, <1>2, <1>3

\* A life goes on from its boot, in the same phase.
LEMMA LifeMoves ==
  ASSUME ProcessTypeOK, [ProcessNext]_allVars, phase' = "up", faults' = 0
  PROVE  /\ faults = 0
         /\ Boot \/ (phase = "up" /\ since' = since)
         /\ \A p \in Passes, r \in Runs :
              fire'[p][r] = fire[p][r] \/ Step(p, r) \/ Dispatch(p)
<1>1. ~Exit /\ ~Sigterm
  BY DEF Exit, Gone, Sigterm
<1>2. Boot \/ (phase = "up" /\ since' = since)
  BY <1>1, FireMoves DEF ProcessNext, Tick, ReceiveTick, Drain, RunReturns, CronCall,
     CronPass, CronReply, HangUp, Request, PassTime, Fires, allVars, processVars
<1> QED
  BY <1>1, <1>2, FireMoves

\* A process boots with nothing running.
LEMMA BootsFree ==
  ASSUME Boot, Stopped, NEW p \in Passes, NEW r \in Runs PROVE ~Active(p, r)'
  BY DEF Boot, Stopped, Free, Active, vars

\* A pass takes its goroutines' context and clock reading from the life it begins in.
LEMMA NextOfThisLife ==
  ASSUME Skew = 0, ProcessTypeOK, since <= now, Stopped, OfThisLife, [ProcessNext]_allVars
  PROVE  OfThisLife'
<1> SUFFICES ASSUME phase' = "up", faults' = 0, NEW p \in Passes, NEW r \in Runs, Active(p, r)'
             PROVE  fire'[p][r].live /\ fire'[p][r].tickTime >= since'
  BY DEF OfThisLife
<1>0. TypeOK /\ Idle.pc = "idle" /\ now \in Nat /\ since \in Nat
  BY DEF ProcessTypeOK, TypeOK, Idle
<1>1. phase = "up" /\ faults = 0 /\ since' = since
  BY LifeMoves, BootsFree
<1>2. CASE fire'[p][r] = fire[p][r]
  BY <1>1, <1>2 DEF OfThisLife, Active
<1>3. CASE Step(p, r)
  <2>1. /\ Active(p, r) /\ fire'[p][r].live = fire[p][r].live
        /\ fire'[p][r].tickTime = fire[p][r].tickTime
    BY <1>0, <1>3, StepFire DEF Active
  <2> QED
    BY <1>1, <2>1 DEF OfThisLife
<1>4. CASE Dispatch(p)
  <2>1. fire'[p][r].live /\ fire'[p][r].tickTime \in Clock
    BY <1>0, <1>4, DispatchFire DEF Active
  <2>2. \A t \in Clock : t >= since
    BY <1>0 DEF Clock
  <2> QED
    BY <1>1, <2>1, <2>2
<1> QED
  BY <1>2, <1>3, <1>4, LifeMoves

\* Goroutines have a reason to hold what they hold.
LEMMA NextReasoned ==
  ASSUME Skew = 0, ProcessTypeOK, Stopped, OfThisLife, Reasoned, [ProcessNext]_allVars
  PROVE  Reasoned'
<1> SUFFICES ASSUME phase' = "up", faults' = 0, NEW p \in Passes, NEW r \in Runs, Active(p, r)'
             PROVE  InHand(p, r)'
  BY DEF Reasoned
<1>0. TypeOK /\ Idle.pc = "idle" /\ fire[p][r].tickTime \in Int
  BY DEF ProcessTypeOK, TypeOK, Goroutine, Idle
<1>1. phase = "up" /\ faults = 0 /\ since' = since
  BY LifeMoves, BootsFree
<1>2. RowKept(r)
  BY <1>1, RowsKept
<1>3. CASE fire'[p][r] = fire[p][r]
  <2>1. InHand(p, r)
    BY <1>1, <1>3 DEF Reasoned, Active
  <2> QED
    BY <1>0, <1>2, <1>3, <2>1 DEF InHand, RowKept
<1>4. CASE Dispatch(p)
  <2>1. /\ fire'[p][r].pc = "claim" /\ fire'[p][r].tickTime = now
        /\ DueAt(runs[r], notifications[r], now)
    BY <1>0, <1>4, DispatchFinds DEF Active
  <2>2. runs' = runs /\ notifications' = notifications
    BY <1>4 DEF Dispatch
  <2> QED
    BY <2>1, <2>2 DEF InHand
<1>5. CASE Step(p, r)
  <2>1. Active(p, r)
    BY <1>0, <1>5, StepFire
  <2>2. CASE fire[p][r].pc = "claim"
    <3>1. runs'[r].firedAt = fire[p][r].tickTime /\ runs'[r].status = "fired"
      BY <1>0, <1>5, <2>2, StepWrites
    <3>2. fire[p][r].tickTime >= since /\ fire[p][r].tickTime # NULL
      BY <1>0, <1>1, <2>1, RepositoryAssumption DEF OfThisLife
    <3> QED
      BY <1>1, <3>1, <3>2 DEF InHand, ClaimedNow
  <2>3. CASE fire[p][r].pc # "claim"
    BY <1>1, <1>2, <2>1, <2>3 DEF Reasoned, InHand, RowKept
  <2> QED
    BY <2>2, <2>3
<1> QED
  BY <1>3, <1>4, <1>5, LifeMoves

\* Nothing gets ahead of the clock.
LEMMA NextNotAhead ==
  ASSUME Skew = 0, ProcessTypeOK, Stopped, since <= now, NotAhead, [ProcessNext]_allVars
  PROVE  NotAhead'
<1> SUFFICES ASSUME faults' = 0
             PROVE  /\ \A p \in Passes, r \in Runs : Active(p, r)' => fire'[p][r].tickTime <= now'
                    /\ \A r \in Runs : runs'[r].firedAt # NULL =>
                         runs'[r].firedAt <= IF phase' = "down" THEN since' ELSE now'
  BY DEF NotAhead
<1>0. TypeOK /\ Idle.pc = "idle" /\ now \in Nat /\ since \in Nat /\ faults = 0
  BY FireMoves DEF ProcessTypeOK, TypeOK, Idle
<1>1. now' \in {now, now + 1}
  BY ProcessClock
<1>2. ASSUME NEW p \in Passes, NEW r \in Runs, Active(p, r)' PROVE fire'[p][r].tickTime <= now'
  <2>0. fire[p][r].tickTime \in Int
    BY <1>0 DEF TypeOK, Goroutine
  <2>1. CASE Active(p, r) /\ fire'[p][r].tickTime = fire[p][r].tickTime
    BY <1>0, <1>1, <2>0, <2>1 DEF NotAhead
  <2>2. CASE fire'[p][r] = fire[p][r]
    BY <1>2, <2>1, <2>2 DEF Active
  <2>3. CASE Step(p, r)
    <3>1. Active(p, r) /\ fire'[p][r].tickTime = fire[p][r].tickTime
      BY <1>0, <1>2, <2>3, StepFire DEF Active
    <3> QED
      BY <2>1, <3>1
  <2>4. CASE Dispatch(p)
    <3>1. fire'[p][r].tickTime = now
      BY <1>0, <1>2, <2>4, DispatchFinds DEF Active
    <3> QED
      BY <1>0, <1>1, <3>1
  <2>5. CASE Sigterm
    <3>1. Active(p, r) /\ fire'[p][r].tickTime = fire[p][r].tickTime
      BY <1>0, <1>2, <2>5, SigtermEffect DEF SameButLive, Active
    <3> QED
      BY <2>1, <3>1
  <2>6. CASE Exit
    <3>1. fire'[p][r] = Idle
      BY <2>6 DEF Exit, Gone
    <3> QED
      BY <1>0, <1>2, <3>1 DEF Active
  <2> QED
    BY <2>2, <2>3, <2>4, <2>5, <2>6, FireMoves
<1>3. ASSUME NEW r \in Runs, runs'[r].firedAt # NULL
      PROVE  runs'[r].firedAt <= IF phase' = "down" THEN since' ELSE now'
  <2>0. runs[r].firedAt \in Int \cup {NULL}
    BY <1>0 DEF TypeOK, RepoTypeOK, Row
  <2>1. CASE runs'[r].firedAt = runs[r].firedAt
    <3>1. runs[r].firedAt <= IF phase = "down" THEN since ELSE now
      BY <1>0, <1>3, <2>1 DEF NotAhead
    <3>2. \/ since' = since /\ phase' = phase
          \/ since' = now /\ now' = now
      BY ProcessClock
    <3> QED
      BY <1>0, <1>1, <1>3, <2>0, <2>1, <3>1, <3>2
  <2>2. CASE Request
    BY <1>0, <1>3, <2>1, <2>2, RequestWrites
  <2>3. CASE \E p \in Passes, s \in Runs : Step(p, s)
    <3>1. PICK p \in Passes, s \in Runs : Step(p, s)
      BY <2>3
    <3>2. CASE s # r
      BY <1>0, <2>1, <3>1, <3>2, StepFrame DEF Frame
    <3>3. CASE s = r /\ fire[p][r].pc = "claim" /\ runs'[r].firedAt = fire[p][r].tickTime
      <4>1. Active(p, r) /\ phase # "down" /\ fire[p][r].tickTime <= now
        BY <1>0, <3>3 DEF Active, Stopped, Free, NotAhead
      <4>2. phase' # "down" \/ since' = now
        BY <4>1, ProcessClock
      <4>3. fire[p][r].tickTime \in Int
        BY <1>0 DEF TypeOK, Goroutine
      <4> QED
        BY <1>0, <1>1, <3>3, <4>1, <4>2, <4>3
    <3> QED
      BY <1>0, <2>1, <3>1, <3>2, <3>3, StepWrites
  <2>4. CASE ~Request /\ ~ \E p \in Passes, s \in Runs : Step(p, s)
    BY <2>1, <2>4, ProcessRows
  <2> QED
    BY <2>2, <2>3, <2>4
<1> QED
  BY <1>2, <1>3

\* A live claim that finds its run due takes it, unless something fails.
LEMMA ClaimTaken ==
  ASSUME TypeOK, NEW p \in Passes, NEW r \in Runs, Step(p, r), fire[p][r].pc = "claim",
         fire[p][r].live, DueAt(runs[r], notifications[r], fire[p][r].tickTime),
         faults' = faults
  PROVE  runs'[r].status = "fired" /\ runs'[r].firedAt = fire[p][r].tickTime
<1>0. fire[p][r].tickTime \in Int /\ faults + 1 # faults
  BY DEF TypeOK, Goroutine
<1>1. Claim(p, r) \/ ClaimMissed(p, r) \/ ClaimReplyLost(p, r)
  BY DEF Step, Delivered, NotDelivered, ScheduleRetry, GiveUp, Notify
<1>2. ~ClaimMissed(p, r)
  BY <1>0 DEF ClaimMissed, Claimable, DueAt, Fails, Fault
<1>3. ClaimForFiring(r, fire[p][r].tickTime)
  BY <1>1, <1>2, ClaimEffect, ClaimReplyLostEffect
<1> QED
  BY <1>0, <1>3, ClaimWritten

\* Within a life and while nothing fails, what is taken up stays so, unless it is
\* cancelled before its claim.
LEMMA TakenStays ==
  ASSUME ProcessTypeOK, OfThisLife, Reasoned, [ProcessNext]_allVars,
         phase = "up", phase' = "up", faults' = 0, since' = since,
         NEW q \in Runs, TakenUp(q) \/ runs[q].status = "cancelled"
  PROVE  /\ TakenUp(q)' \/ runs'[q].status = "cancelled"
         /\ runs'[q].startTime = runs[q].startTime
<1>0. faults = 0 /\ TypeOK /\ RowKept(q)
  BY LifeMoves, RowsKept DEF ProcessTypeOK
<1>1. CASE ClaimedNow(q) \/ runs[q].status = "cancelled"
  BY <1>0, <1>1 DEF RowKept, ClaimedNow, TakenUp
<1>2. CASE ~ClaimedNow(q) /\ runs[q].status # "cancelled"
  <2>1. PICK p \in Passes : Active(p, q)
    BY <1>2 DEF TakenUp, ClaimedNow
  <2>2. /\ fire[p][q].pc = "claim" /\ fire[p][q].live /\ fire[p][q].tickTime >= since
        /\ DueAt(runs[q], notifications[q], fire[p][q].tickTime)
    BY <1>0, <1>2, <2>1 DEF Reasoned, InHand, OfThisLife
  <2>3. runs[q].status # "absent"
    BY <2>2 DEF DueAt, WaitIsOver, ClaimAbandoned
  <2>4. CASE fire'[p][q] = fire[p][q]
    BY <1>0, <2>1, <2>3, <2>4 DEF RowKept, TakenUp, Active
  <2>5. CASE Step(p, q)
    <3>1. runs'[q].status = "fired" /\ runs'[q].firedAt = fire[p][q].tickTime
      BY <1>0, <2>2, <2>5, ClaimTaken
    <3>2. fire[p][q].tickTime # NULL
      BY <1>0, RepositoryAssumption DEF TypeOK, Goroutine
    <3> QED
      BY <1>0, <2>2, <2>3, <3>1, <3>2 DEF RowKept, TakenUp
  <2>6. ~Dispatch(p)
    BY <2>1 DEF Dispatch
  <2> QED
    BY <2>4, <2>5, <2>6, LifeMoves
<1> QED
  BY <1>1, <1>2

\* Only a pass that begins takes up a run that was not.
LEMMA NewlyTaken ==
  ASSUME ProcessTypeOK, [ProcessNext]_allVars, phase = "up", phase' = "up", faults' = 0,
         since' = since, NEW q \in Runs, TakenUp(q)', ~TakenUp(q)
  PROVE  \E p \in Passes : Dispatch(p) /\ Active(p, q)'
<1>0. TypeOK
  BY DEF ProcessTypeOK
<1>1. (\A p \in Passes : ~Active(p, q)) /\ ~ClaimedNow(q)
  BY DEF TakenUp, ClaimedNow
<1>2. CASE \E p \in Passes : Active(p, q)'
  <2>1. PICK p \in Passes : Active(p, q)'
    BY <1>2
  <2>2. fire'[p][q] # fire[p][q] /\ ~Step(p, q)
    BY <1>0, <1>1, <2>1, StepFire DEF Active
  <2> QED
    BY <2>1, <2>2, LifeMoves
<1>3. CASE ClaimedNow(q)'
  <2>1. runs'[q] # runs[q]
    BY <1>1, <1>3 DEF ClaimedNow
  <2>2. ~Request
    BY <1>0, <1>1, <1>3, <2>1, RequestWrites DEF ClaimedNow
  <2>3. ASSUME NEW p \in Passes, NEW s \in Runs, Step(p, s) PROVE FALSE
    <3>1. s # q
      BY <1>0, <1>1, <2>3, StepFire
    <3> QED
      BY <1>0, <2>1, <2>3, <3>1, StepFrame DEF Frame
  <2> QED
    BY <2>1, <2>2, <2>3, ProcessRows
<1> QED
  BY <1>2, <1>3 DEF TakenUp, ClaimedNow

\* A run that waits has waited all along, and is not let go of.
LEMMA WaitingStays ==
  ASSUME ProcessTypeOK, OfThisLife, [ProcessNext]_allVars, since <= now,
         phase = "up", phase' = "up", faults' = 0, since' = since,
         NEW r \in Runs, Tried(r), Waiting(r)'
  PROVE  Waiting(r) /\ runs'[r] = runs[r] /\ (Picked(r) => Picked(r)')
<1>0. TypeOK /\ faults = 0 /\ since \in Nat /\ now \in Nat
  BY LifeMoves DEF ProcessTypeOK, TypeOK
<1>1. runs'[r].startTime \in Int /\ runs'[r].startTime < since /\ Fresh(r)'
  BY ProcessNextType DEF ProcessTypeOK, TypeOK, RepoTypeOK, Row, Waiting
<1>2. runs'[r] = runs[r]
  BY <1>0, <1>1, NextRows
<1>3. ASSUME NEW p \in Passes, fire[p][r].pc = "claim" PROVE fire'[p][r].pc = "claim"
  <2>1. Active(p, r)
    BY <1>3 DEF Active
  <2>2. fire[p][r].live /\ fire[p][r].tickTime >= since /\ fire[p][r].tickTime \in Int
    BY <1>0, <2>1 DEF OfThisLife, TypeOK, Goroutine
  <2>3. ~Step(p, r)
    <3>1. runs[r].startTime <= fire[p][r].tickTime
      BY <1>0, <1>1, <1>2, <2>2
    <3> QED
      BY <1>0, <1>1, <1>3, <2>2, <3>1, StepRow
  <2>4. ~Dispatch(p)
    BY <2>1 DEF Dispatch
  <2> QED
    BY <1>3, <2>3, <2>4, LifeMoves
<1> QED
  BY <1>1, <1>2, <1>3 DEF Waiting, Fresh, Picked

\* A run that waits is due at every pass of this life.
LEMMA WaitingIsDue ==
  ASSUME ProcessTypeOK, since <= now, NEW r \in Runs, Tried(r), Waiting(r)
  PROVE  DueAt(runs[r], notifications[r], now)
<1>1. runs[r].startTime \in Int /\ since \in Nat /\ now \in Nat
  BY DEF ProcessTypeOK, TypeOK, RepoTypeOK, Row
<1> QED
  BY <1>1 DEF Tried, Waiting, Fresh, DueAt, WaitIsOver

\* Runs are taken up oldest first.
LEMMA NextInOrder ==
  ASSUME Skew = 0, ProcessTypeOK, since <= now, \A r \in Runs : Tried(r),
         Stopped, OfThisLife, Reasoned, NotAhead, InOrder, [ProcessNext]_allVars
  PROVE  InOrder'
<1> SUFFICES ASSUME phase' = "up", faults' = 0, NEW r \in Runs, Waiting(r)', ~Picked(r)',
                    NEW q \in Runs, TakenUp(q)'
             PROVE  runs'[q].startTime <= runs'[r].startTime
  BY DEF InOrder, Behind
<1>0. TypeOK /\ faults = 0 /\ since \in Nat /\ now \in Nat
  BY LifeMoves DEF ProcessTypeOK, TypeOK
<1>1. CASE Boot
  <2>1. /\ runs' = runs /\ since' = now /\ phase = "down"
        /\ now - since \in Nat \ {0}
    BY <1>1, ProcessAssumption DEF Boot, vars
  <2>2. runs[q].firedAt # NULL /\ runs[q].firedAt >= now
    BY <1>1, <2>1, BootsFree DEF TakenUp
  <2>3. runs[q].firedAt <= since /\ runs[q].firedAt \in Int
    BY <1>0, <2>1, <2>2 DEF NotAhead, TypeOK, RepoTypeOK, Row
  <2> QED
    BY <1>0, <2>1, <2>2, <2>3
<1>2. CASE phase = "up" /\ since' = since
  <2>1. Waiting(r) /\ runs'[r] = runs[r] /\ ~Picked(r)
    BY <1>2, WaitingStays
  <2>2. CASE TakenUp(q)
    <3>1. runs[q].startTime <= runs[r].startTime
      BY <1>0, <1>2, <2>1, <2>2 DEF InOrder, Behind
    <3>2. runs'[q].startTime = runs[q].startTime
      BY <1>2, <2>2, TakenStays
    <3> QED
      BY <2>1, <3>1, <3>2
  <2>3. CASE ~TakenUp(q)
    <3>1. PICK p \in Passes : Dispatch(p) /\ Active(p, q)'
      BY <1>2, <2>3, NewlyTaken
    <3>2. PICK batch \in SUBSET Runs :
            /\ \A s \in Runs :
                 /\ s \in batch => fire'[p][s].pc = "claim"
                 /\ s \notin batch => fire'[p][s] = Idle
            /\ \A s \in Runs \ batch : DueAt(runs[s], notifications[s], now) =>
                 \A t \in batch : runs[t].startTime <= runs[s].startTime
      BY <1>0, <3>1, DispatchFinds
    <3>3. r \notin batch /\ q \in batch
      BY <3>1, <3>2 DEF Picked, Active, Idle
    <3>4. runs[q].startTime <= runs[r].startTime
      BY <2>1, <3>2, <3>3, WaitingIsDue
    <3> QED
      BY <3>1, <3>4 DEF Dispatch
  <2> QED
    BY <2>2, <2>3
<1> QED
  BY <1>1, <1>2, LifeMoves

\* Only a tick ends the wait for the first pass.
LEMMA FirstTick ==
  ASSUME ProcessTypeOK, [ProcessNext]_allVars, phase = "up", phase' = "up", faults' = 0,
         since' = since, loop = "tick", ~Tick
  PROVE  loop' = "tick" /\ now' = now
<1>0. TypeOK
  BY DEF ProcessTypeOK
<1>1. ~ReceiveTick /\ ~Drain /\ ~RunReturns /\ ~PassTime /\ ~Boot /\ ~Sigterm /\ ~Exit
  BY DEF ReceiveTick, Drain, RunReturns, PassTime, Prompt, Boot, Sigterm, Exit
<1>2. ASSUME NEW p \in Passes, NEW q \in Runs, Fires(p, q) PROVE loop' = loop /\ now' = now
  BY <1>0, <1>2, StepFrame DEF Fires, Frame, processVars
<1>3. ASSUME NEW c \in CronPasses, CronCall(c) \/ CronPass(c) \/ CronReply(c) \/ HangUp(c)
      PROVE  loop' = loop /\ now' = now
  BY <1>3 DEF CronCall, CronPass, CronReply, HangUp, Dispatch, allVars, processVars, vars
<1>4. CASE Request \/ UNCHANGED allVars
  BY <1>4 DEF Request, allVars, processVars, vars
<1> QED
  BY <1>1, <1>2, <1>3, <1>4, FireMoves DEF ProcessNext

\* The first pass of a life leaves over only what comes behind a full batch.
LEMMA NextAllCovered ==
  ASSUME Skew = 0, ProcessTypeOK, since <= now, \A r \in Runs : Tried(r),
         Stopped, OfThisLife, Reasoned, AllCovered, [ProcessNext]_allVars
  PROVE  AllCovered'
<1> SUFFICES ASSUME phase' = "up", faults' = 0, SchedulerEnabled,
                    ~ (loop' = "tick" /\ now' = since'),
                    NEW r \in Runs, Waiting(r)', ~Picked(r)'
             PROVE  Full(r)'
  BY DEF AllCovered
<1>0. TypeOK /\ faults = 0 /\ since \in Nat /\ now \in Nat /\ TickPasses \subseteq Passes
  BY LifeMoves, ProcessAssumption DEF ProcessTypeOK, TypeOK
<1>1. phase = "up" /\ since' = since
  <2>1. ~Boot
    BY DEF Boot, StartLoop, vars
  <2> QED
    BY <2>1, LifeMoves
<1>2. Waiting(r) /\ runs'[r] = runs[r] /\ ~Picked(r)
  BY <1>1, WaitingStays
<1>3. CASE Full(r)
  <2>1. PICK batch \in SUBSET Runs :
          /\ Cardinality(batch) = BatchLimit
          /\ \A q \in batch : /\ TakenUp(q) \/ runs[q].status = "cancelled"
                              /\ runs[q].startTime <= runs[r].startTime
    BY <1>3 DEF Full
  <2>2. \A q \in batch : /\ TakenUp(q)' \/ runs'[q].status = "cancelled"
                         /\ runs'[q].startTime <= runs'[r].startTime
    BY <1>1, <1>2, <2>1, TakenStays
  <2> QED
    BY <2>1, <2>2 DEF Full
<1>4. CASE ~Full(r)
  <2>1. loop = "tick" /\ now = since
    BY <1>0, <1>1, <1>2, <1>4 DEF AllCovered
  <2>2. Tick
    BY <1>1, <2>1, FirstTick
  <2>3. DueAt(runs[r], notifications[r], now)
    BY <1>2, WaitingIsDue
  <2>4. PICK p \in TickPasses : Dispatch(p)
    <3>1. ~FindsNothing(TRUE)
      BY <1>0, <2>3 DEF FindsNothing, Fault, Claimable, DueAt
    <3> QED
      BY <1>1, <2>2, <3>1 DEF Tick
  <2>5. PICK batch \in SUBSET Runs :
          /\ \A s \in Runs :
               /\ s \in batch => fire'[p][s].pc = "claim"
               /\ s \notin batch => fire'[p][s] = Idle
          /\ \A s \in Runs \ batch : DueAt(runs[s], notifications[s], now) =>
               /\ Cardinality(batch) = BatchLimit
               /\ \A t \in batch : runs[t].startTime <= runs[s].startTime
    BY <1>0, <2>4, DispatchFinds
  <2>6. r \notin batch /\ \A q \in batch : TakenUp(q)'
    BY <1>0, <2>5 DEF Picked, TakenUp, Active
  <2>7. /\ Cardinality(batch) = BatchLimit
        /\ \A q \in batch : runs'[q].startTime <= runs'[r].startTime
    BY <2>3, <2>4, <2>5, <2>6 DEF Dispatch
  <2> QED
    BY <2>6, <2>7 DEF Full
<1> QED
  BY <1>3, <1>4

\* The catch-up pass of every life of the process covers what fell due while it was
\* down, however long that was and however much it is: what it leaves over comes
\* behind a full batch, and is not overtaken.
THEOREM CatchesUp ==
  ASSUME Skew = 0
  PROVE  ProcessSpec => []CaughtUp
<1>1. ProcessInit => CatchUpInv
  <2> SUFFICES ASSUME ProcessInit PROVE CatchUpInv
    OBVIOUS
  <2>1. /\ \A p \in Passes, r \in Runs : ~Active(p, r)
        /\ \A r \in Runs : runs[r].status = "absent" /\ runs[r].firedAt = NULL
    BY DEF ProcessInit, Init, RepoInit, AbsentRow, Idle, Active
  <2>2. \A r \in Runs : Tried(r) /\ ~Waiting(r)
    BY <2>1 DEF Tried, Waiting, Fresh
  <2>3. since <= now /\ phase = "up"
    BY DEF ProcessInit, Init
  <2> QED
    BY <2>1, <2>2, <2>3
       DEF CatchUpInv, Stopped, OfThisLife, Reasoned, NotAhead, InOrder, AllCovered
<1>2. ProcessTypeOK /\ CatchUpInv /\ [ProcessNext]_allVars => CatchUpInv'
  <2> SUFFICES ASSUME ProcessTypeOK, CatchUpInv, [ProcessNext]_allVars PROVE CatchUpInv'
    OBVIOUS
  <2>1. (since <= now)'
    BY ProcessClock DEF ProcessTypeOK, TypeOK, CatchUpInv
  <2>2. \A r \in Runs : Tried(r)'
    BY NextRows DEF CatchUpInv
  <2>3. Stopped' /\ OfThisLife' /\ Reasoned' /\ NotAhead'
    BY NextStopped, NextOfThisLife, NextReasoned, NextNotAhead DEF CatchUpInv
  <2>4. InOrder' /\ AllCovered'
    BY NextInOrder, NextAllCovered DEF CatchUpInv
  <2> QED
    BY <2>1, <2>2, <2>3, <2>4 DEF CatchUpInv
<1>3. ProcessTypeOK /\ CatchUpInv => CaughtUp
  <2> SUFFICES ASSUME ProcessTypeOK, CatchUpInv, phase = "up", SchedulerEnabled,
                      now > since, faults = 0, NEW r \in Runs, LeftOver(r)
               PROVE  Full(r) /\ Behind(r)
    BY DEF CaughtUp, Full, Behind
  <2>1. now # since
    BY DEF ProcessTypeOK, TypeOK
  <2>2. Waiting(r) /\ ~Picked(r)
    BY DEF LeftOver, Waiting, Fresh, Picked, Active
  <2> QED
    BY <2>1, <2>2 DEF CatchUpInv, InOrder, AllCovered
<1>4. ProcessInit => ProcessTypeOK
  BY ProcessInitType
<1>5. ProcessTypeOK /\ [ProcessNext]_allVars => ProcessTypeOK'
  BY ProcessNextType
<1> QED
  BY <1>1, <1>2, <1>3, <1>4, <1>5, PTL DEF ProcessSpec
=============================================================================
