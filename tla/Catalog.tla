------------------------------ MODULE Catalog ------------------------------
(***************************************************************************)
(* The appliance catalog (internal/repository/appliance_repo.go) and the   *)
(* requests that use it, each a few statements with other requests and the *)
(* engine in between: POST /appliances, DELETE /appliances/{id}, and POST  *)
(* /schedules, which finds the appliance, races the providers for as long  *)
(* as that takes, and only then INSERTs a run that refers to it.           *)
(*                                                                         *)
(* The tables are those of RunRepository; the columns it leaves out (name  *)
(* and duration of an appliance, and what a run copied of them) are added. *)
(* Time stands still: every run is due at once.                            *)
(***************************************************************************)
EXTENDS RunRepository

CONSTANTS
    Clients,      \* requests served at the same time
    Words,        \* names, case and blanks apart
    Spellings,    \* ways to write a word
    Hours,        \* durations
    SeedRows,     \* name and duration of the seeded ones (migration 0002)
    MaxAttempts   \* bound on the claims of a run

ASSUME CatalogAssumption ==
    /\ Appliances \subseteq Nat \ {0}
    /\ Words # {} /\ Spellings # {} /\ Hours # {}
    /\ ClaimLease > 0
    /\ MaxAttempts \in Nat
    /\ SeedRows \in [Seeded -> [name : Words \X Spellings, hours : Hours]]
    /\ \A a, b \in Seeded : a # b => SeedRows[a].name[1] # SeedRows[b].name[1]

VARIABLES
    catalog,  \* name and duration of every id given out so far
    lastId,   \* the sequence behind appliance.id
    booked,   \* appliance_name and the length of the window of every run
    request,  \* what each client's request is about to do, and its answer
    seen      \* history: what was so at some time of a request about its id

catalogVars == <<runs, notifications, appliances, deleting,
                 catalog, lastId, booked, request, seen>>

Name == Words \X Spellings
Appliance == [name : Name, hours : Hours]

\* LOWER(TRIM(name)), on both sides of every comparison.
Fold(name) == name[1]

Answer == {"none", "created", "conflict", "deleted", "notfound", "protected",
           "haspending", "unknown", "unavailable", "scheduled",
           "refused", "error"}

\* id: the path parameter of DELETE, or the appliance that was found.
Request == [pc : {"done", "deleting", "explain", "race"}, id : Nat,
            found : Appliance, answer : Answer]

NoAppliance == [name |-> CHOOSE n \in Name : TRUE, hours |-> CHOOSE h \in Hours : TRUE]

NoRequest == [pc |-> "done", id |-> 0,
              found |-> NoAppliance, answer |-> "none"]

CatalogInit ==
    /\ runs = [r \in Runs |-> AbsentRow]
    /\ notifications = [r \in Runs |-> {}]
    /\ appliances = Seeded /\ deleting = {}
    /\ catalog = [a \in Appliances |-> IF a \in Seeded THEN SeedRows[a] ELSE NoAppliance]
    /\ lastId \in Appliances \cup {0} /\ \A a \in Seeded : a <= lastId
    /\ booked = [r \in Runs |-> NoAppliance]
    /\ request = [c \in Clients |-> NoRequest]
    /\ seen = [c \in Clients |-> {}]

CatalogTypeOK ==
    /\ RepoTypeOK
    /\ catalog \in [Appliances -> Appliance]
    /\ lastId \in Nat
    /\ booked \in [Runs -> Appliance]
    /\ request \in [Clients -> Request]
    /\ seen \in [Clients -> SUBSET {"absent", "present", "pending"}]
-----------------------------------------------------------------------------
(* Helpers. *)

Named(name) == {a \in appliances : Fold(catalog[a].name) = Fold(name)}

\* ORDER BY id LIMIT 1.
FirstNamed(name) == CHOOSE a \in Named(name) : \A b \in Named(name) : a <= b

Idle(c) == request[c].pc = "done"
Becomes(c, g) == request' = [request EXCEPT ![c] = g]
Replies(c, a) == Becomes(c, [request[c] EXCEPT !.pc = "done", !.answer = a])

\* What is so about the id of a request.
Facts(c) ==
    (IF request[c].id \in appliances THEN {"present"} ELSE {"absent"})
        \cup (IF HasPendingRun(request[c].id) THEN {"pending"} ELSE {})

\* From a request's first statement to its answer, both included.
Observe ==
    seen' = [c \in Clients |->
               IF Idle(c) /\ Idle(c)'
               THEN IF request'[c] = request[c] THEN seen[c] ELSE {}
               ELSE (IF Idle(c) THEN {} ELSE seen[c]) \cup Facts(c)']
-----------------------------------------------------------------------------
(* Slips: wrong forms of actions below, in no specification.               *)

\* The index of migration 0001 alone: names unique as they are spelt.
CreateIfNotSpelt(c, a) ==
    /\ Idle(c)
    /\ lastId + 1 \in Appliances
    /\ lastId' = lastId + 1
    /\ \A b \in appliances : catalog[b].name # a.name
    /\ appliances' = appliances \cup {lastId'}
    /\ catalog' = [catalog EXCEPT ![lastId'] = a]
    /\ Becomes(c, [NoRequest EXCEPT !.answer = "created"])
    /\ UNCHANGED <<runs, notifications, deleting, booked>>

\* The id is looked up again, behind the race.
InsertRunByName(c) ==
    LET g == request[c]
    IN  /\ g.pc = "race"
        /\ \E r \in Runs :
             /\ Named(g.found.name) # {} /\ Create(r, FirstNamed(g.found.name), 0, FALSE)
             /\ booked' = [booked EXCEPT ![r] = g.found]
        /\ Replies(c, "scheduled")
        /\ UNCHANGED <<catalog, lastId>>

\* is_seed is not asked for.
ExplainUnprotected(c) ==
    LET g == request[c]
    IN  /\ g.pc = "explain"
        /\ Replies(c, IF g.id \notin appliances THEN "notfound" ELSE "haspending")
        /\ UNCHANGED <<runs, notifications, appliances, deleting, catalog, lastId, booked>>
-----------------------------------------------------------------------------
(* POST /appliances. *)

\* The name is unique as FindByNameIgnoreCase compares.  A refused INSERT has
\* used up an id all the same: ids are given out once.
CreateAppliance(c, a) ==
    /\ Idle(c)
    /\ lastId + 1 \in Appliances
    /\ lastId' = lastId + 1
    /\ \/ /\ Named(a.name) # {}
          /\ Becomes(c, [NoRequest EXCEPT !.answer = "conflict"])
          /\ UNCHANGED <<appliances, catalog>>
       \/ /\ Named(a.name) = {}
          /\ appliances' = appliances \cup {lastId'}
          /\ catalog' = [catalog EXCEPT ![lastId'] = a]
          /\ Becomes(c, [NoRequest EXCEPT !.answer = "created"])
    /\ UNCHANGED <<runs, notifications, deleting, booked>>
-----------------------------------------------------------------------------
(* DELETE /appliances/{id}. *)

StartDelete(c, id) ==
    /\ Idle(c)
    /\ BeginDelete(id)
    /\ Becomes(c, [NoRequest EXCEPT !.pc = "deleting", !.id = id])
    /\ UNCHANGED <<catalog, lastId, booked>>

EndDelete(c) ==
    /\ request[c].pc = "deleting"
    /\ FinishDelete(request[c].id)
    /\ Replies(c, "deleted")
    /\ UNCHANGED <<catalog, lastId, booked>>

\* The statement is undone: the database failed, or the client went away.
AbortDelete(c) ==
    /\ request[c].pc = "deleting"
    /\ deleting' = deleting \ {request[c].id}
    /\ Replies(c, "error")
    /\ UNCHANGED <<runs, notifications, appliances, catalog, lastId, booked>>

\* No row is affected...
DeleteNothing(c, id) ==
    /\ Idle(c)
    /\ id \notin appliances \/ id \in Seeded \/ HasPendingRun(id)
    /\ Becomes(c, [NoRequest EXCEPT !.pc = "explain", !.id = id])
    /\ UNCHANGED <<runs, notifications, appliances, deleting, catalog, lastId, booked>>

\* ...and a second query finds out why.
Explain(c) ==
    LET id == request[c].id
    IN  /\ request[c].pc = "explain"
        /\ Replies(c, IF id \notin appliances THEN "notfound"
                      ELSE IF id \in Seeded THEN "protected" ELSE "haspending")
        /\ UNCHANGED <<runs, notifications, appliances, deleting, catalog, lastId, booked>>
-----------------------------------------------------------------------------
(* POST /schedules. *)

FindAppliance(c, name) ==
    /\ Idle(c)
    /\ Becomes(c, IF Named(name) = {}
                  THEN [NoRequest EXCEPT !.answer = "unknown"]
                  ELSE [NoRequest EXCEPT !.pc = "race", !.id = FirstNamed(name),
                                         !.found = catalog[FirstNamed(name)]])
    /\ UNCHANGED <<runs, notifications, appliances, deleting, catalog, lastId, booked>>

\* windowFor fails: no forecast, or none long enough.
NoWindow(c) ==
    /\ request[c].pc = "race"
    /\ Replies(c, "unavailable")
    /\ UNCHANGED <<runs, notifications, appliances, deleting, catalog, lastId, booked>>

\* The run copies the name and the length found before the race.
InsertRun(c) ==
    LET g == request[c]
    IN  /\ g.pc = "race"
        /\ \E r \in Runs :
             /\ Create(r, g.id, 0, FALSE)
             /\ booked' = [booked EXCEPT ![r] = g.found]
        /\ Replies(c, "scheduled")
        /\ UNCHANGED <<catalog, lastId>>

\* The foreign key: the appliance is gone, and the answer is a 500.
InsertRefused(c) ==
    /\ request[c].pc = "race"
    /\ request[c].id \notin appliances
    /\ Replies(c, "refused")
    /\ UNCHANGED <<runs, notifications, appliances, deleting, catalog, lastId, booked>>
-----------------------------------------------------------------------------

\* What the engine and DELETE /schedules/{id} do to a run meanwhile.
RunMoves(r) ==
    /\ \/ Cancel(r)
       \/ runs[r].attemptCount < MaxAttempts /\ ClaimForFiring(r, 0)
       \/ runs[r].status = "fired" /\ (MarkRetry(r, 0) \/ MarkFailed(r))
    /\ UNCHANGED <<catalog, lastId, booked, request>>

Serve(c) ==
    \/ \E a \in Appliance : CreateAppliance(c, a)
    \/ \E id \in Appliances : StartDelete(c, id) \/ DeleteNothing(c, id)
    \/ EndDelete(c) \/ AbortDelete(c) \/ Explain(c)
    \/ \E name \in Name : FindAppliance(c, name)
    \/ NoWindow(c) \/ InsertRun(c) \/ InsertRefused(c)

CatalogNext ==
    /\ (\E c \in Clients : Serve(c)) \/ (\E r \in Runs : RunMoves(r))
    /\ Observe

CatalogSpec == CatalogInit /\ [][CatalogNext]_catalogVars
-----------------------------------------------------------------------------

\* A name means one appliance, however it is spelt: FindByNameIgnoreCase never
\* has to choose (appliance_name_ci_key), though names come, go and come back.
NamesAreUnique ==
    \A a, b \in appliances : a # b => Fold(catalog[a].name) # Fold(catalog[b].name)

\* A run always refers to the very appliance its name and window were made for:
\* one that is deleted during the race and created anew under the same name, with
\* another duration, never gets the run of its predecessor.
RunKeepsItsAppliance ==
    \A r \in Runs : Exists(r) =>
        /\ runs[r].app \in appliances
        /\ booked[r] = catalog[runs[r].app]

(* The invariant behind the two: an id is given out once, so what a request  *)
(* has read of a row is never wrong, only perhaps gone.                     *)

CatalogInv ==
    /\ \A a \in appliances : a <= lastId
    /\ \A c \in Clients : request[c].pc = "race" =>
          /\ request[c].id \in Appliances /\ request[c].id <= lastId
          /\ request[c].found = catalog[request[c].id]
    /\ NamesAreUnique
    /\ RunKeepsItsAppliance

\* An answer was true at some time of its request, though the row and its runs
\* changed between the DELETE and the query that explains it, or while providers
\* were raced.  A 409 says that a run was waiting; or else the appliance did not
\* exist yet when it was to be deleted.
AnswersWereTrue ==
    \A c \in Clients :
        CASE request[c].answer = "deleted"    -> "present" \in seen[c]
          [] request[c].answer = "notfound"   -> "absent" \in seen[c]
          [] request[c].answer = "protected"  -> request[c].id \in Seeded
          [] request[c].answer = "haspending" -> "pending" \in seen[c] \/ "absent" \in seen[c]
          [] request[c].answer = "refused"    -> "absent" \in seen[c]
          [] OTHER                            -> TRUE
=============================================================================
