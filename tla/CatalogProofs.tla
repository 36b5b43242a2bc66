--------------------------- MODULE CatalogProofs ---------------------------
(***************************************************************************)
(* Catalog for any number of clients, runs, names and ids: a name means    *)
(* one appliance, a run keeps the appliance it was made for, and answers   *)
(* were true.                                                              *)
(***************************************************************************)
EXTENDS Catalog, RepositoryProofs, TLAPS
-----------------------------------------------------------------------------
(* Types. *)

\* There is an appliance to stand for none, and so a request that asks nothing.
LEMMA NoRequestType ==
  NoAppliance \in Appliance /\ NoRequest \in Request
  <1>1. NoAppliance \in Appliance
    <2>1. Name # {}
      <3>1. PICK w \in Words, v \in Spellings : TRUE
        BY CatalogAssumption
      <3>2. <<w, v>> \in Words \X Spellings
        BY <3>1
      <3> QED
        BY <3>2 DEF Name
    <2> QED
      BY <2>1, CatalogAssumption DEF NoAppliance, Appliance
  <1> QED
    BY <1>1 DEF NoRequest, Request, Answer

\* The history has its type by the shape of Facts.
LEMMA ObserveType ==
  ASSUME CatalogTypeOK, Observe
  PROVE  seen' \in [Clients -> SUBSET {"absent", "present", "pending"}]
  <1>1. \A c \in Clients : Facts(c)' \subseteq {"absent", "present", "pending"}
    BY DEF Facts
  <1> QED
    BY <1>1 DEF CatalogTypeOK, Observe

\* An answer leaves a request that is one.
LEMMA RepliesType ==
  ASSUME CatalogTypeOK, NEW c \in Clients, NEW a \in Answer, Replies(c, a)
  PROVE  request' \in [Clients -> Request]
  <1>1. [request[c] EXCEPT !.pc = "done", !.answer = a] \in Request
    BY DEF CatalogTypeOK, Request
  <1> QED
    BY <1>1 DEF CatalogTypeOK, Replies, Becomes

\* FindByNameIgnoreCase returns a row of that name, if there is one: there are
\* never two to choose from.
LEMMA FirstNamedIsNamed ==
  ASSUME CatalogTypeOK, NamesAreUnique, NEW n \in Name, Named(n) # {}
  PROVE  FirstNamed(n) \in Named(n)
  <1>1. Named(n) \subseteq appliances /\ appliances \subseteq Nat
    BY CatalogAssumption DEF Named, CatalogTypeOK, RepoTypeOK
  <1>2. \A a, b \in Named(n) : a = b
    BY <1>1 DEF Named, NamesAreUnique
  <1>3. \E a \in Named(n) : \A b \in Named(n) : a <= b
    <2>1. PICK a \in Named(n) : TRUE
      OBVIOUS
    <2>2. \A b \in Named(n) : a <= b
      <3> SUFFICES ASSUME NEW b \in Named(n) PROVE a <= b
        OBVIOUS
      <3>1. a = b /\ a \in Nat
        BY <2>1, <1>1, <1>2
      <3> QED
        BY <3>1
    <2> QED
      BY <2>1, <2>2
  <1> QED
    BY <1>3 DEF FirstNamed
-----------------------------------------------------------------------------
(* The invariant. *)

\* At the start there are the seeded appliances, and nothing else.
LEMMA InitInvariant == CatalogInit => CatalogTypeOK /\ CatalogInv
  <1> SUFFICES ASSUME CatalogInit PROVE CatalogTypeOK /\ CatalogInv
    OBVIOUS
  <1>1. RepoTypeOK
    BY RepositoryAssumption DEF CatalogInit, RepoTypeOK, AbsentRow, Row, Status
  <1>2. catalog \in [Appliances -> Appliance]
    BY NoRequestType, CatalogAssumption DEF CatalogInit, Appliance, Name
  <1>3. CatalogTypeOK
    BY <1>1, <1>2, NoRequestType, CatalogAssumption DEF CatalogInit, CatalogTypeOK
  <1>4. NamesAreUnique
    BY RepositoryAssumption, CatalogAssumption DEF CatalogInit, NamesAreUnique, Fold
  <1>5. RunKeepsItsAppliance
    BY DEF CatalogInit, RunKeepsItsAppliance, Exists, AbsentRow
  <1> QED
    BY <1>3, <1>4, <1>5 DEF CatalogInit, CatalogInv, NoRequest

\* POST /appliances: the new id is no row's, no run's and no request's yet.
LEMMA CreateApplianceInvariant ==
  ASSUME CatalogTypeOK, CatalogInv, NEW c \in Clients, NEW a \in Appliance,
         CreateAppliance(c, a), Observe
  PROVE  CatalogTypeOK' /\ CatalogInv'
  <1> USE DEF CreateAppliance
  <1>1. lastId' = lastId + 1 /\ lastId \in Nat /\ lastId' \in Appliances
    BY DEF CatalogTypeOK
  <1>2. \A b \in appliances : b \in Nat /\ b < lastId'
    BY <1>1, CatalogAssumption DEF CatalogInv, CatalogTypeOK, RepoTypeOK
  <1>3. request' \in [Clients -> Request]
    <2>1. [NoRequest EXCEPT !.answer = "conflict"] \in Request
          /\ [NoRequest EXCEPT !.answer = "created"] \in Request
      BY NoRequestType DEF Request, Answer
    <2> QED
      BY <2>1 DEF Becomes, CatalogTypeOK
  <1>4. RepoTypeOK'
    BY <1>1 DEF CatalogTypeOK, RepoTypeOK
  <1>5. catalog' \in [Appliances -> Appliance]
    BY <1>1 DEF CatalogTypeOK
  <1>6. CatalogTypeOK'
    BY <1>1, <1>3, <1>4, <1>5, ObserveType DEF CatalogTypeOK
  <1>7. \A b \in Appliances : b # lastId' => catalog'[b] = catalog[b]
    BY <1>1 DEF CatalogTypeOK
  <1>8. \A b \in appliances' : b <= lastId'
    BY <1>1, <1>2
  <1>9. \A d \in Clients : request'[d].pc = "race" =>
          request[d].pc = "race" /\ request'[d] = request[d]
    BY DEF Becomes, NoRequest, CatalogTypeOK
  <1>10. \A d \in Clients : request'[d].pc = "race" =>
           /\ request'[d].id \in Appliances /\ request'[d].id <= lastId'
           /\ request'[d].found = catalog'[request'[d].id]
    <2> SUFFICES ASSUME NEW d \in Clients, request'[d].pc = "race"
                 PROVE  /\ request[d].id \in Appliances /\ request[d].id <= lastId'
                        /\ request[d].found = catalog'[request[d].id]
      BY <1>9
    <2>1. /\ request[d].id \in Appliances /\ request[d].id <= lastId
          /\ request[d].found = catalog[request[d].id]
      BY <1>9 DEF CatalogInv
    <2>2. request[d].id \in Nat
      BY <2>1, CatalogAssumption
    <2> QED
      BY <2>1, <2>2, <1>1, <1>7
  <1>11. NamesAreUnique'
    <2>1. CASE Named(a.name) # {} /\ UNCHANGED <<appliances, catalog>>
      BY <2>1 DEF NamesAreUnique, CatalogInv
    <2>2. CASE /\ Named(a.name) = {}
               /\ appliances' = appliances \cup {lastId'}
               /\ catalog' = [catalog EXCEPT ![lastId'] = a]
      <3>1. \A b \in appliances : Fold(catalog[b].name) # Fold(a.name)
        BY <2>2 DEF Named
      <3>2. \A b \in appliances : catalog'[b] = catalog[b]
        BY <1>2, <1>7, <1>1 DEF CatalogTypeOK, RepoTypeOK
      <3>3. catalog'[lastId'] = a
        BY <2>2, <1>1 DEF CatalogTypeOK
      <3> QED
        BY <2>2, <3>1, <3>2, <3>3 DEF NamesAreUnique, CatalogInv, Fold
    <2> QED
      BY <2>1, <2>2
  <1>12. RunKeepsItsAppliance'
    <2> SUFFICES ASSUME NEW r \in Runs, Exists(r)
                 PROVE  /\ runs[r].app \in appliances'
                        /\ booked[r] = catalog'[runs[r].app]
      BY DEF RunKeepsItsAppliance, Exists
    <2>1. runs[r].app \in appliances /\ booked[r] = catalog[runs[r].app]
      BY DEF CatalogInv, RunKeepsItsAppliance
    <2> QED
      BY <2>1, <1>1, <1>2, <1>7 DEF CatalogTypeOK, RepoTypeOK
  <1> QED
    BY <1>6, <1>8, <1>10, <1>11, <1>12 DEF CatalogInv

\* A step that leaves the catalog alone, gives nobody a new id, and takes no
\* appliance away from a run, keeps the invariant.
LEMMA QuietInvariant ==
  ASSUME CatalogTypeOK, CatalogInv, CatalogTypeOK',
         UNCHANGED <<catalog, lastId>>, appliances' \subseteq appliances,
         \A d \in Clients : request'[d].pc = "race" =>
            request[d].pc = "race" /\ request'[d] = request[d],
         RunKeepsItsAppliance'
  PROVE  CatalogInv'
  <1>1. NamesAreUnique'
    BY DEF CatalogInv, NamesAreUnique
  <1> QED
    BY <1>1 DEF CatalogInv

\* Runs that move without changing their appliance still have it.
LEMMA RunsMoveInvariant ==
  ASSUME RunKeepsItsAppliance, UNCHANGED <<appliances, catalog, booked>>,
         \A r \in Runs : Exists(r)' => Exists(r) /\ runs'[r].app = runs[r].app
  PROVE  RunKeepsItsAppliance'
  BY DEF RunKeepsItsAppliance

\* DELETE, both of its statements, and the failure of the first.
LEMMA DeleteInvariant ==
  ASSUME CatalogTypeOK, CatalogInv, NEW c \in Clients, Observe,
         \/ \E id \in Appliances : StartDelete(c, id) \/ DeleteNothing(c, id)
         \/ EndDelete(c) \/ AbortDelete(c) \/ Explain(c)
  PROVE  CatalogTypeOK' /\ CatalogInv'
  <1>1. CASE \E id \in Appliances : StartDelete(c, id)
    <2>1. PICK id \in Appliances : StartDelete(c, id)
      BY <1>1
    <2>2. RepoTypeOK'
      BY <2>1, BeginDeleteType DEF StartDelete, CatalogTypeOK
    <2>3. [NoRequest EXCEPT !.pc = "deleting", !.id = id] \in Request
      BY NoRequestType, CatalogAssumption DEF Request
    <2>4. CatalogTypeOK'
      BY <2>1, <2>2, <2>3, ObserveType DEF StartDelete, Becomes, CatalogTypeOK
    <2>5. RunKeepsItsAppliance'
      BY <2>1 DEF StartDelete, BeginDelete, CatalogInv, RunKeepsItsAppliance, Exists
    <2>6. \A d \in Clients : request'[d].pc = "race" =>
            request[d].pc = "race" /\ request'[d] = request[d]
      BY <2>1 DEF StartDelete, Becomes, NoRequest, CatalogTypeOK
    <2> QED
      BY <2>1, <2>4, <2>5, <2>6, QuietInvariant DEF StartDelete, BeginDelete
  <1>2. CASE \E id \in Appliances : DeleteNothing(c, id)
    <2>1. PICK id \in Appliances : DeleteNothing(c, id)
      BY <1>2
    <2>2. [NoRequest EXCEPT !.pc = "explain", !.id = id] \in Request
      BY NoRequestType, CatalogAssumption DEF Request
    <2>3. CatalogTypeOK'
      BY <2>1, <2>2, ObserveType DEF DeleteNothing, Becomes, CatalogTypeOK, RepoTypeOK
    <2>4. RunKeepsItsAppliance'
      BY <2>1 DEF DeleteNothing, CatalogInv, RunKeepsItsAppliance, Exists
    <2>5. \A d \in Clients : request'[d].pc = "race" =>
            request[d].pc = "race" /\ request'[d] = request[d]
      BY <2>1 DEF DeleteNothing, Becomes, NoRequest, CatalogTypeOK
    <2> QED
      BY <2>1, <2>3, <2>4, <2>5, QuietInvariant DEF DeleteNothing
  <1>3. CASE EndDelete(c)
    <2> DEFINE id == request[c].id
    <2>1. id \in Appliances
      BY <1>3 DEF EndDelete, FinishDelete, CatalogTypeOK, RepoTypeOK
    <2>2. RepoTypeOK'
      BY <1>3, <2>1, FinishDeleteType DEF EndDelete, CatalogTypeOK
    <2>3. CatalogTypeOK'
      BY <1>3, <2>2, RepliesType, ObserveType DEF EndDelete, Answer, CatalogTypeOK
    <2>4. RunKeepsItsAppliance'
      BY <1>3 DEF EndDelete, FinishDelete, CatalogInv, RunKeepsItsAppliance, Exists,
                  CatalogTypeOK, RepoTypeOK, Row
    <2>5. \A d \in Clients : request'[d].pc = "race" =>
            request[d].pc = "race" /\ request'[d] = request[d]
      BY <1>3 DEF EndDelete, Replies, Becomes, CatalogTypeOK
    <2> QED
      BY <1>3, <2>3, <2>4, <2>5, QuietInvariant DEF EndDelete, FinishDelete
  <1>4. CASE AbortDelete(c)
    <2>1. CatalogTypeOK'
      BY <1>4, RepliesType, ObserveType DEF AbortDelete, Answer, CatalogTypeOK, RepoTypeOK
    <2>2. RunKeepsItsAppliance'
      BY <1>4 DEF AbortDelete, CatalogInv, RunKeepsItsAppliance, Exists
    <2>3. \A d \in Clients : request'[d].pc = "race" =>
            request[d].pc = "race" /\ request'[d] = request[d]
      BY <1>4 DEF AbortDelete, Replies, Becomes, CatalogTypeOK
    <2> QED
      BY <1>4, <2>1, <2>2, <2>3, QuietInvariant DEF AbortDelete
  <1>5. CASE Explain(c)
    <2>1. CatalogTypeOK'
      BY <1>5, RepliesType, ObserveType DEF Explain, Answer, CatalogTypeOK, RepoTypeOK
    <2>2. RunKeepsItsAppliance'
      BY <1>5 DEF Explain, CatalogInv, RunKeepsItsAppliance, Exists
    <2>3. \A d \in Clients : request'[d].pc = "race" =>
            request[d].pc = "race" /\ request'[d] = request[d]
      BY <1>5 DEF Explain, Replies, Becomes, CatalogTypeOK
    <2> QED
      BY <1>5, <2>1, <2>2, <2>3, QuietInvariant DEF Explain
  <1> QED
    BY <1>1, <1>2, <1>3, <1>4, <1>5

\* POST /schedules, from the lookup to the INSERT.
LEMMA ScheduleInvariant ==
  ASSUME CatalogTypeOK, CatalogInv, NEW c \in Clients, Observe,
         \/ \E name \in Name : FindAppliance(c, name)
         \/ NoWindow(c) \/ InsertRun(c) \/ InsertRefused(c)
  PROVE  CatalogTypeOK' /\ CatalogInv'
  <1>1. CASE \E name \in Name : FindAppliance(c, name)
    <2>1. PICK name \in Name : FindAppliance(c, name)
      BY <1>1
    <2> DEFINE a == FirstNamed(name)
    <2>2. Named(name) # {} => a \in appliances /\ a \in Appliances /\ a \in Nat
      BY FirstNamedIsNamed, CatalogAssumption
         DEF CatalogInv, CatalogTypeOK, RepoTypeOK, Named
    <2>3. Named(name) # {} =>
            [NoRequest EXCEPT !.pc = "race", !.id = a, !.found = catalog[a]] \in Request
      BY <2>2, NoRequestType DEF Request, CatalogTypeOK
    <2>4. [NoRequest EXCEPT !.answer = "unknown"] \in Request
      BY NoRequestType DEF Request, Answer
    <2>5. CatalogTypeOK'
      BY <2>1, <2>3, <2>4, ObserveType DEF FindAppliance, Becomes, CatalogTypeOK, RepoTypeOK
    <2>6. \A d \in Clients : request'[d].pc = "race" =>
            \/ request[d].pc = "race" /\ request'[d] = request[d]
            \/ /\ d = c /\ Named(name) # {}
               /\ request'[d].id = a /\ request'[d].found = catalog[a]
      BY <2>1 DEF FindAppliance, Becomes, NoRequest, CatalogTypeOK
    <2>7. \A d \in Clients : request'[d].pc = "race" =>
            /\ request'[d].id \in Appliances /\ request'[d].id <= lastId'
            /\ request'[d].found = catalog'[request'[d].id]
      BY <2>1, <2>2, <2>6 DEF FindAppliance, CatalogInv
    <2> QED
      BY <2>1, <2>5, <2>7
         DEF FindAppliance, CatalogInv, NamesAreUnique, RunKeepsItsAppliance, Exists
  <1>2. CASE NoWindow(c)
    <2>1. CatalogTypeOK'
      BY <1>2, RepliesType, ObserveType DEF NoWindow, Answer, CatalogTypeOK, RepoTypeOK
    <2>2. RunKeepsItsAppliance'
      BY <1>2 DEF NoWindow, CatalogInv, RunKeepsItsAppliance, Exists
    <2>3. \A d \in Clients : request'[d].pc = "race" =>
            request[d].pc = "race" /\ request'[d] = request[d]
      BY <1>2 DEF NoWindow, Replies, Becomes, CatalogTypeOK
    <2> QED
      BY <1>2, <2>1, <2>2, <2>3, QuietInvariant DEF NoWindow
  <1>3. CASE InsertRun(c)
    <2>1. PICK r \in Runs : /\ Create(r, request[c].id, 0, FALSE)
                            /\ booked' = [booked EXCEPT ![r] = request[c].found]
      BY <1>3 DEF InsertRun
    <2>2. request[c].id \in appliances /\ request[c].id \in Appliances
      BY <2>1 DEF Create, CatalogTypeOK, RepoTypeOK
    <2>3. RepoTypeOK'
      <3>1. 0 \in Int /\ FALSE \in BOOLEAN /\ RepoTypeOK
        BY DEF CatalogTypeOK
      <3> QED
        BY <3>1, <2>1, <2>2, CreateType
    <2>4. request[c].found = catalog[request[c].id] /\ request[c].found \in Appliance
      BY <1>3, <2>2 DEF InsertRun, CatalogInv, CatalogTypeOK
    <2>5. CatalogTypeOK'
      BY <1>3, <2>1, <2>3, <2>4, RepliesType, ObserveType DEF InsertRun, Answer, CatalogTypeOK
    <2>6. RunKeepsItsAppliance'
      <3>1. runs'[r].app = request[c].id
        BY <2>1 DEF Create, CatalogTypeOK, RepoTypeOK, AbsentRow
      <3>2. \A s \in Runs \ {r} : runs'[s] = runs[s] /\ booked'[s] = booked[s]
        BY <2>1 DEF Create, CatalogTypeOK, RepoTypeOK
      <3>3. booked'[r] = request[c].found
        BY <2>1 DEF CatalogTypeOK
      <3>4. UNCHANGED <<appliances, catalog>>
        BY <1>3, <2>1 DEF InsertRun, Create
      <3> QED
        BY <2>2, <2>4, <3>1, <3>2, <3>3, <3>4
           DEF RunKeepsItsAppliance, CatalogInv, Exists
    <2>7. \A d \in Clients : request'[d].pc = "race" =>
            request[d].pc = "race" /\ request'[d] = request[d]
      BY <1>3 DEF InsertRun, Replies, Becomes, CatalogTypeOK
    <2> QED
      BY <1>3, <2>1, <2>5, <2>6, <2>7, QuietInvariant DEF InsertRun, Create
  <1>4. CASE InsertRefused(c)
    <2>1. CatalogTypeOK'
      BY <1>4, RepliesType, ObserveType DEF InsertRefused, Answer, CatalogTypeOK, RepoTypeOK
    <2>2. RunKeepsItsAppliance'
      BY <1>4 DEF InsertRefused, CatalogInv, RunKeepsItsAppliance, Exists
    <2>3. \A d \in Clients : request'[d].pc = "race" =>
            request[d].pc = "race" /\ request'[d] = request[d]
      BY <1>4 DEF InsertRefused, Replies, Becomes, CatalogTypeOK
    <2> QED
      BY <1>4, <2>1, <2>2, <2>3, QuietInvariant DEF InsertRefused
  <1> QED
    BY <1>1, <1>2, <1>3, <1>4

\* The engine, and cancellation.
LEMMA RunMovesInvariant ==
  ASSUME CatalogTypeOK, CatalogInv, NEW r \in Runs, RunMoves(r), Observe
  PROVE  CatalogTypeOK' /\ CatalogInv'
  <1>1. RepoTypeOK'
    BY CancelType, ClaimType, MarkRetryType, MarkFailedType DEF RunMoves, CatalogTypeOK
  <1>2. CatalogTypeOK'
    BY <1>1, ObserveType DEF RunMoves, CatalogTypeOK
  <1>3. UNCHANGED appliances
    BY DEF RunMoves, Cancel, ClaimForFiring, MarkRetry, MarkFailed
  <1>4. \A s \in Runs : Exists(s)' => Exists(s) /\ runs'[s].app = runs[s].app
    BY DEF RunMoves, Cancel, ClaimForFiring, Claimable, WaitIsOver, ClaimAbandoned,
           MarkRetry, MarkFailed, Exists, CatalogTypeOK, RepoTypeOK, Row
  <1>5. RunKeepsItsAppliance'
    BY <1>3, <1>4, RunsMoveInvariant DEF RunMoves, CatalogInv
  <1> QED
    BY <1>2, <1>3, <1>5, QuietInvariant DEF RunMoves

\* Every step keeps the types and the invariant.
LEMMA NextInvariant ==
  CatalogTypeOK /\ CatalogInv /\ [CatalogNext]_catalogVars => CatalogTypeOK' /\ CatalogInv'
  <1> SUFFICES ASSUME CatalogTypeOK, CatalogInv, [CatalogNext]_catalogVars
               PROVE  CatalogTypeOK' /\ CatalogInv'
    OBVIOUS
  <1>1. CASE CatalogNext /\ \E c \in Clients : Serve(c)
    <2>1. PICK c \in Clients : Serve(c) /\ Observe
      BY <1>1 DEF CatalogNext
    <2> QED
      BY <2>1, CreateApplianceInvariant, DeleteInvariant, ScheduleInvariant DEF Serve
  <1>2. CASE CatalogNext /\ \E r \in Runs : RunMoves(r)
    BY <1>2, RunMovesInvariant DEF CatalogNext
  <1>3. CASE UNCHANGED catalogVars
    BY <1>3 DEF catalogVars, CatalogTypeOK, RepoTypeOK, CatalogInv, NamesAreUnique,
                RunKeepsItsAppliance, Exists
  <1> QED
    BY <1>1, <1>2, <1>3 DEF CatalogNext
-----------------------------------------------------------------------------

\* A lookup by name never has two appliances to choose from.
THEOREM NamesUnique == CatalogSpec => []NamesAreUnique
  <1>1. CatalogTypeOK /\ CatalogInv => NamesAreUnique
    BY DEF CatalogInv
  <1> QED
    BY <1>1, InitInvariant, NextInvariant, PTL DEF CatalogSpec

\* A run's name and window are those of the appliance it refers to, whatever is
\* deleted, or created again, while the providers are raced for it.
THEOREM RunsKeepTheirAppliance == CatalogSpec => []RunKeepsItsAppliance
  <1>1. CatalogTypeOK /\ CatalogInv => RunKeepsItsAppliance
    BY DEF CatalogInv
  <1> QED
    BY <1>1, InitInvariant, NextInvariant, PTL DEF CatalogSpec
-----------------------------------------------------------------------------
(* Answers. *)

\* What the service knows of a client's answer, and what it has seen on the way to it:
\* a DELETE that found its row; one that found none to delete, and so the row seeded,
\* missing or with a run that waits.
AnswerOK(c) ==
  /\ request[c].answer = "deleted" => "present" \in seen[c]
  /\ request[c].answer = "notfound" => "absent" \in seen[c]
  /\ request[c].answer = "protected" => request[c].id \in Seeded
  /\ request[c].answer = "haspending" => "pending" \in seen[c] \/ "absent" \in seen[c]
  /\ request[c].answer = "refused" => "absent" \in seen[c]
  /\ request[c].pc = "deleting" => "present" \in seen[c]
  /\ request[c].pc = "explain" =>
       \/ request[c].id \in Seeded
       \/ "absent" \in seen[c] \/ "pending" \in seen[c]

AnswersInv == \A c \in Clients : AnswerOK(c)

\* What was seen stays seen while a request is left alone.
LEMMA OthersKeepAnswer ==
  ASSUME Observe, NEW d \in Clients, AnswerOK(d), request'[d] = request[d]
  PROVE  AnswerOK(d)'
  <1>1. seen[d] \subseteq seen'[d]
    BY DEF Observe, Idle
  <1> QED
    BY <1>1 DEF AnswerOK

\* A step from or to a request under way sees what is so behind it, and forgets nothing
\* of that request.
LEMMA UnderWaySees ==
  ASSUME Observe, NEW c \in Clients, ~ (Idle(c) /\ Idle(c)')
  PROVE  /\ Facts(c)' \subseteq seen'[c]
         /\ ~ Idle(c) => seen[c] \subseteq seen'[c]
  BY DEF Observe, Idle

\* A request that is answered keeps its id, and what it has seen.
LEMMA RepliesEffect ==
  ASSUME CatalogTypeOK, Observe, NEW c \in Clients, NEW a \in Answer, ~ Idle(c), Replies(c, a)
  PROVE  /\ request'[c].pc = "done" /\ request'[c].answer = a
         /\ request'[c].id = request[c].id
         /\ seen[c] \subseteq seen'[c] /\ Facts(c)' \subseteq seen'[c]
         /\ \A d \in Clients \ {c} : request'[d] = request[d]
  <1>1. request[c] \in Request
    BY DEF CatalogTypeOK
  <1>2. /\ request'[c] = [request[c] EXCEPT !.pc = "done", !.answer = a]
        /\ \A d \in Clients \ {c} : request'[d] = request[d]
    BY DEF Replies, Becomes, CatalogTypeOK
  <1>3. /\ request'[c].pc = "done" /\ request'[c].answer = a
        /\ request'[c].id = request[c].id
    BY <1>1, <1>2 DEF Request
  <1> QED
    BY <1>2, <1>3, UnderWaySees

\* A new request: what it is about and what is so is seen.
LEMMA BecomesEffect ==
  ASSUME CatalogTypeOK, Observe, NEW c \in Clients, NEW g, Becomes(c, g)
  PROVE  /\ request'[c] = g
         /\ g.pc # "done" => Facts(c)' \subseteq seen'[c]
         /\ \A d \in Clients \ {c} : request'[d] = request[d]
  <1>1. request'[c] = g /\ \A d \in Clients \ {c} : request'[d] = request[d]
    BY DEF Becomes, CatalogTypeOK
  <1>2. g.pc # "done" => ~ Idle(c)'
    BY <1>1 DEF Idle
  <1> QED
    BY <1>1, <1>2, UnderWaySees

\* Every request is served so that its answer will have been true.
LEMMA ServeKeepsAnswer ==
  ASSUME CatalogTypeOK, CatalogInv, AnswersInv, Observe, NEW c \in Clients, Serve(c)
  PROVE  AnswerOK(c)' /\ \A d \in Clients \ {c} : request'[d] = request[d]
  <1>0. AnswerOK(c) /\ NoRequest.pc = "done" /\ NoRequest.answer = "none"
    BY DEF AnswersInv, NoRequest
  <1>1. ASSUME NEW a \in Appliance, CreateAppliance(c, a)
        PROVE  AnswerOK(c)' /\ \A d \in Clients \ {c} : request'[d] = request[d]
    <2>1. PICK g : /\ Becomes(c, g) /\ g.pc = "done"
                   /\ g.answer \in {"created", "conflict"}
      <3>1. ASSUME NEW x \in {"created", "conflict"}
            PROVE  /\ [NoRequest EXCEPT !.answer = x].pc = "done"
                   /\ [NoRequest EXCEPT !.answer = x].answer = x
        BY DEF NoRequest
      <3> QED
        BY <1>1, <3>1 DEF CreateAppliance
    <2> QED
      BY <2>1, BecomesEffect DEF AnswerOK
  <1>2. ASSUME NEW id \in Appliances, StartDelete(c, id)
        PROVE  AnswerOK(c)' /\ \A d \in Clients \ {c} : request'[d] = request[d]
    <2> DEFINE g == [NoRequest EXCEPT !.pc = "deleting", !.id = id]
    <2>1. g.pc = "deleting" /\ g.id = id /\ g.answer = "none"
      BY DEF NoRequest
    <2>2. Becomes(c, g) /\ id \in appliances'
      BY <1>2 DEF StartDelete, BeginDelete
    <2> HIDE DEF g
    <2>3. "present" \in Facts(c)'
      BY <2>1, <2>2, BecomesEffect DEF Facts
    <2> QED
      BY <2>1, <2>2, <2>3, BecomesEffect DEF AnswerOK
  <1>3. ASSUME NEW id \in Appliances, DeleteNothing(c, id)
        PROVE  AnswerOK(c)' /\ \A d \in Clients \ {c} : request'[d] = request[d]
    <2> DEFINE g == [NoRequest EXCEPT !.pc = "explain", !.id = id]
    <2>1. g.pc = "explain" /\ g.id = id /\ g.answer = "none"
      BY DEF NoRequest
    <2>2. Becomes(c, g)
      BY <1>3 DEF DeleteNothing
    <2> HIDE DEF g
    <2>3. request'[c] = g
      BY <2>2, BecomesEffect
    <2>4. id \in Seeded \/ "absent" \in Facts(c)' \/ "pending" \in Facts(c)'
      BY <1>3, <2>1, <2>3 DEF DeleteNothing, Facts, HasPendingRun
    <2> QED
      BY <2>1, <2>2, <2>4, BecomesEffect DEF AnswerOK
  <1>4. CASE EndDelete(c)
    <2>1. ~ Idle(c) /\ Replies(c, "deleted") /\ "present" \in seen[c]
      BY <1>0, <1>4 DEF EndDelete, Idle, AnswerOK
    <2> QED
      BY <2>1, RepliesEffect DEF AnswerOK, Answer
  <1>5. CASE AbortDelete(c)
    <2>1. ~ Idle(c) /\ Replies(c, "error")
      BY <1>5 DEF AbortDelete, Idle
    <2> QED
      BY <2>1, RepliesEffect DEF AnswerOK, Answer
  <1>6. CASE Explain(c)
    <2> DEFINE id == request[c].id
    <2>1. PICK a \in {"notfound", "protected", "haspending"} :
            /\ Replies(c, a)
            /\ a = "notfound" => id \notin appliances
            /\ a = "protected" => id \in Seeded
            /\ a = "haspending" => id \notin Seeded
      BY <1>6 DEF Explain
    <2>2. ~ Idle(c) /\ appliances' = appliances
      BY <1>6 DEF Explain, Idle
    <2>3. /\ request'[c].pc = "done" /\ request'[c].answer = a /\ request'[c].id = id
          /\ seen[c] \subseteq seen'[c] /\ Facts(c)' \subseteq seen'[c]
          /\ \A d \in Clients \ {c} : request'[d] = request[d]
      BY <2>1, <2>2, RepliesEffect DEF Answer
    <2>4. id \notin appliances => "absent" \in Facts(c)'
      BY <2>2, <2>3 DEF Facts
    <2>5. id \in Seeded \/ "absent" \in seen[c] \/ "pending" \in seen[c]
      BY <1>0, <1>6 DEF Explain, AnswerOK
    <2> QED
      BY <2>1, <2>3, <2>4, <2>5 DEF AnswerOK
  <1>7. ASSUME NEW name \in Name, FindAppliance(c, name)
        PROVE  AnswerOK(c)' /\ \A d \in Clients \ {c} : request'[d] = request[d]
    <2>1. PICK g : Becomes(c, g) /\ g.pc \in {"done", "race"} /\ g.answer \in {"none", "unknown"}
      <3>1. /\ [NoRequest EXCEPT !.answer = "unknown"].pc = "done"
            /\ [NoRequest EXCEPT !.answer = "unknown"].answer = "unknown"
        BY DEF NoRequest
      <3>2. ASSUME NEW a, NEW f
            PROVE  /\ [NoRequest EXCEPT !.pc = "race", !.id = a, !.found = f].pc = "race"
                   /\ [NoRequest EXCEPT !.pc = "race", !.id = a, !.found = f].answer = "none"
        BY DEF NoRequest
      <3>3. CASE Named(name) = {}
        BY <1>7, <3>1, <3>3 DEF FindAppliance
      <3>4. CASE Named(name) # {}
        <4> DEFINE a == FirstNamed(name)
                   g == [NoRequest EXCEPT !.pc = "race", !.id = a, !.found = catalog[a]]
        <4>1. Becomes(c, g)
          BY <1>7, <3>4 DEF FindAppliance
        <4>2. g.pc = "race" /\ g.answer = "none"
          BY <3>2
        <4> QED
          BY <4>1, <4>2
      <3> QED
        BY <3>3, <3>4
    <2> QED
      BY <2>1, BecomesEffect DEF AnswerOK
  <1>8. CASE NoWindow(c)
    <2>1. ~ Idle(c) /\ Replies(c, "unavailable")
      BY <1>8 DEF NoWindow, Idle
    <2> QED
      BY <2>1, RepliesEffect DEF AnswerOK, Answer
  <1>9. CASE InsertRun(c)
    <2>1. ~ Idle(c) /\ Replies(c, "scheduled")
      BY <1>9 DEF InsertRun, Idle
    <2> QED
      BY <2>1, RepliesEffect DEF AnswerOK, Answer
  <1>10. CASE InsertRefused(c)
    <2>1. ~ Idle(c) /\ Replies(c, "refused") /\ request[c].id \notin appliances'
      BY <1>10 DEF InsertRefused, Idle
    <2>2. "absent" \in Facts(c)'
      BY <2>1, RepliesEffect DEF Facts, Answer
    <2> QED
      BY <2>1, <2>2, RepliesEffect DEF AnswerOK, Answer
  <1> QED
    BY <1>1, <1>2, <1>3, <1>4, <1>5, <1>6, <1>7, <1>8, <1>9, <1>10 DEF Serve

\* Every answer was true at some time of its request, however appliances and runs come
\* and go between the statements of a DELETE or behind a race.
THEOREM AnswersAreTrue == CatalogSpec => []AnswersWereTrue
  <1>1. AnswersInv => AnswersWereTrue
    BY DEF AnswersInv, AnswerOK, AnswersWereTrue
  <1>2. CatalogInit => AnswersInv
    BY DEF CatalogInit, AnswersInv, AnswerOK, NoRequest
  <1>3. CatalogTypeOK /\ CatalogInv /\ AnswersInv /\ [CatalogNext]_catalogVars => AnswersInv'
    <2> SUFFICES ASSUME CatalogTypeOK, CatalogInv, AnswersInv, [CatalogNext]_catalogVars
                 PROVE  AnswersInv'
      OBVIOUS
    <2>1. ASSUME NEW c \in Clients, Serve(c), Observe PROVE AnswersInv'
      BY <2>1, ServeKeepsAnswer, OthersKeepAnswer DEF AnswersInv
    <2>2. ASSUME NEW r \in Runs, RunMoves(r), Observe PROVE AnswersInv'
      BY <2>2, OthersKeepAnswer DEF AnswersInv, RunMoves
    <2>3. CASE UNCHANGED catalogVars
      BY <2>3 DEF catalogVars, AnswersInv, AnswerOK
    <2> QED
      BY <2>1, <2>2, <2>3 DEF CatalogNext
  <1> QED
    BY <1>1, <1>2, <1>3, InitInvariant, NextInvariant, PTL DEF CatalogSpec
=============================================================================
