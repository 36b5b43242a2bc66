----------------------------- MODULE MultiZone -----------------------------
(***************************************************************************)
(* FetchMultiZone (internal/grid/race.go): the worker pool that holds a    *)
(* race (ProviderRace) for every zip of a request.  A race is known by the *)
(* place of its zip in the list; it is the worker that receives for it.    *)
(***************************************************************************)
EXTENDS ProviderRace, FiniteSetsExt

CONSTANTS
    PoolSizes,  \* values of MULTIZONE_WORKERS
    NoJob       \* a worker that holds no zip

VARIABLES
    zips,    \* the list
    sent,    \* how many zips have gone into the jobs channel
    closed,  \* close(jobs)
    worker,  \* the pool: what each worker does, and with which job
    out      \* the map under the mutex: what each zip's race returned

poolVars == <<zips, sent, closed, worker, out>>
zoneVars == <<raceVars, poolVars>>

MostWorkers == Max(PoolSizes \cup {1})

Ready == [pc |-> "ready", job |-> NoJob]
-----------------------------------------------------------------------------
(* Slips: wrong forms of definitions below, used by none of them.          *)

\* MULTIZONE_WORKERS=0 taken at its word.
PoolSizeUnclamped(workers) == workers

\* wg.Done() before the result is in the map.
WaitForFetches ==
    /\ closed
    /\ \A w \in DOMAIN worker : worker[w].pc \in {"exited", "storing"}
-----------------------------------------------------------------------------

PoolSize(workers) == IF workers < 1 THEN 1 ELSE workers

\* No pool yet: its goroutines are spawned by StartPool.
PoolInit ==
    /\ sent = 0 /\ closed = FALSE
    /\ worker = << >> /\ out = << >>

StartPool ==
    /\ \E n \in PoolSizes : worker' = [w \in 1 .. PoolSize(n) |-> Ready]
    /\ UNCHANGED <<raceVars, zips, sent, closed, out>>

\* jobs <- zip meets "for zip := range jobs": the channel has no buffer.  The
\* worker calls fetch, which begins a race.
Hand(w) ==
    /\ sent < Len(zips) /\ worker[w].pc = "ready"
    /\ sent' = sent + 1
    /\ worker' = [worker EXCEPT ![w] = [pc |-> "racing", job |-> sent + 1]]
    /\ BeginRace(sent + 1)
    /\ UNCHANGED <<expired, zips, closed, out>>

Close ==
    /\ sent = Len(zips) /\ ~closed
    /\ closed' = TRUE
    /\ UNCHANGED <<raceVars, zips, sent, worker, out>>

\* fetch returns.
RaceIsOver(w) ==
    /\ worker[w].pc = "racing" /\ ~Racing(worker[w].job)
    /\ worker' = [worker EXCEPT ![w].pc = "storing"]
    /\ UNCHANGED <<raceVars, zips, sent, closed, out>>

\* out[zip] = ..., under the mutex.
Store(w) ==
    /\ worker[w].pc = "storing"
    /\ LET zip == zips[worker[w].job]
       IN  out' = [z \in DOMAIN out \cup {zip} |->
                     IF z = zip THEN race[worker[w].job].answer ELSE out[z]]
    /\ worker' = [worker EXCEPT ![w] = Ready]
    /\ UNCHANGED <<raceVars, zips, sent, closed>>

\* The range loop ends and the worker is done.
Exit(w) ==
    /\ worker[w].pc = "ready" /\ closed
    /\ worker' = [worker EXCEPT ![w].pc = "exited"]
    /\ UNCHANGED <<raceVars, zips, sent, closed, out>>

\* wg.Wait().
AllDone == closed /\ \A w \in DOMAIN worker : worker[w].pc = "exited"

Work(w) == Hand(w) \/ RaceIsOver(w) \/ Store(w) \/ Exit(w)
=============================================================================
