----------------------------- MODULE Calculate -----------------------------
(***************************************************************************)
(* GET /calculate and GET /calculate/multi                                 *)
(* (internal/httpapi/handlers_calculate.go): one request, from its         *)
(* parameters over the lookup of the appliance and the races, held by the  *)
(* handler itself or by the pool (MultiZone), to its response.             *)
(*                                                                         *)
(* What bestWindow makes of a forecast is CarbonWindow's matter: here it   *)
(* is how dirty the window is on average, or that nothing fits.            *)
(***************************************************************************)
EXTENDS MultiZone, SequencesExt

CONSTANTS
    Zips,          \* well-formed zip codes, numbered from 1
    Blank,         \* nothing, or nothing between two commas
    Malformed,     \* not five digits
    MaxRaw,        \* bound on the pieces of the zips parameter
    MaxMultiZips,  \* maxMultiZips
    Averages       \* what a window may emit on average

ASSUME CalculateAssumption ==
    /\ MaxMultiZips \in Nat \ {0} /\ MaxRaw \in Nat
    /\ Races = 1 .. MaxMultiZips
    /\ Zips = 1 .. Cardinality(Zips)
    /\ Averages \subseteq Int

VARIABLES
    endpoint,  \* "calculate" or "multi"
    named,     \* history: the zips the request named
    stage,     \* of the handler
    response

calcVars == <<zoneVars, endpoint, named, stage, response>>

Window == [ok : {TRUE}, average : Averages] \cup [ok : {FALSE}]
NoWindow == [ok |-> FALSE]

NoResponse == [status |-> 0]
Answered == response # NoResponse
-----------------------------------------------------------------------------
(* Slips: wrong forms of definitions below, used by none of them.          *)

\* "<=", which lets a later zip win a tie.
GreenestOfTies(window) ==
    LET best[n \in 0 .. Len(window)] ==
          IF n = 0 THEN 0
          ELSE IF /\ window[n].ok
                  /\ best[n - 1] = 0 \/ window[n].average <= window[best[n - 1]].average
               THEN n ELSE best[n - 1]
    IN  best[Len(window)]

\* errUpstream not told from the algorithm's errors.
StatusOfCaller(answer, window) == IF window.ok THEN 200 ELSE 400
-----------------------------------------------------------------------------
(* Pure parts. *)

\* Blanks and repetitions dropped, the first one kept: upTo[n] is the list after
\* n pieces.
Distinct(raw) ==
    LET upTo[n \in 0 .. Len(raw)] ==
          IF n = 0 THEN <<>>
          ELSE IF raw[n] = Blank \/ Contains(upTo[n - 1], raw[n])
               THEN upTo[n - 1] ELSE Append(upTo[n - 1], raw[n])
    IN  upTo[Len(raw)]

\* <<>> is an error.
ParseZipList(raw) ==
    LET list == Distinct(raw)
    IN  IF Contains(list, Malformed) \/ Len(list) > MaxMultiZips THEN <<>> ELSE list

\* The one zip of /calculate.
ParseZip(raw) == IF raw[1] \in Zips THEN raw ELSE <<>>

\* best: the place of the first window with the lowest average, or 0; best[n] is
\* what it is after n windows.
Greenest(window) ==
    LET best[n \in 0 .. Len(window)] ==
          IF n = 0 THEN 0
          ELSE IF /\ window[n].ok
                  /\ best[n - 1] = 0 \/ window[n].average < window[best[n - 1]].average
               THEN n ELSE best[n - 1]
    IN  best[Len(window)]

\* writeWindowError, behind windowFor.
StatusOf(answer, window) ==
    CASE answer.kind # "won" -> 503
      [] window.ok           -> 200
      [] OTHER               -> 400

\* fetchResults[zip].
Found(z) == IF z \in DOMAIN out THEN out[z] ELSE NoForecast("unasked")

\* What bestWindow may make of what a race returned.
WindowsOf(answer) == IF answer.kind = "won" THEN Window ELSE {NoWindow}
-----------------------------------------------------------------------------
(* The handlers. *)

CalcInit ==
    /\ RaceInit /\ PoolInit
    /\ endpoint \in {"calculate", "multi"}
    /\ zips = <<>> /\ named = {}
    /\ stage = "parse"
    /\ response = NoResponse

Respond(status) == response' = [status |-> status] /\ stage' = "answered"

Pieces == Zips \cup {Blank, Malformed}

\* Bound: zips are numbered as they first appear, since which is which is nothing
\* to any step.
Numbered(raw) ==
    \A i \in DOMAIN raw : raw[i] \in Zips \ {1} => \E j \in 1 .. i - 1 : raw[j] = raw[i] - 1

\* A blank appliance and zips that do not parse are refused before any lookup.
Parse ==
    /\ stage = "parse"
    /\ \/ Respond(400) /\ UNCHANGED <<zips, named>>
       \/ \E raw \in IF endpoint = "multi" THEN BoundedSeq(Pieces, MaxRaw) ELSE [{1} -> Pieces] :
            /\ Numbered(raw)
            /\ zips' = IF endpoint = "multi" THEN ParseZipList(raw) ELSE ParseZip(raw)
            /\ IF zips' = <<>> THEN Respond(400) /\ UNCHANGED named
               ELSE /\ named' = ToSet(raw) \ {Blank}
                    /\ stage' = "lookup"
                    /\ UNCHANGED response
    /\ UNCHANGED <<raceVars, sent, closed, worker, out, endpoint>>

\* findAppliance: no such name, or a query that fails.
LookupFails ==
    /\ stage = "lookup"
    /\ \E status \in {400, 500} : Respond(status)
    /\ UNCHANGED <<zoneVars, endpoint, named>>

\* Found.  The handler races by itself, or starts the pool.
StartRace ==
    /\ stage = "lookup" /\ endpoint = "calculate"
    /\ BeginRace(1)
    /\ stage' = "race"
    /\ UNCHANGED <<expired, poolVars, endpoint, named, response>>

StartRaces ==
    /\ stage = "lookup" /\ endpoint = "multi"
    /\ StartPool
    /\ stage' = "race"
    /\ UNCHANGED <<endpoint, named, response>>

\* defer cancel(): calls still under way may end at once, or not.
HandlerReturns == stage' = "answered" /\ expired' = TRUE

\* windowFor returns.
ReplyOne ==
    /\ stage = "race" /\ endpoint = "calculate" /\ ~Racing(1)
    /\ \E window \in WindowsOf(race[1].answer) :
         response' = [status |-> StatusOf(race[1].answer, window),
                      from |-> race[1].answer, window |-> window]
    /\ HandlerReturns
    /\ UNCHANGED <<race, poolVars, endpoint, named>>

\* The map is read, in the order of the request.
Reply ==
    /\ stage = "race" /\ endpoint = "multi" /\ AllDone
    /\ \E window \in [DOMAIN zips -> Window] :
         /\ \A i \in DOMAIN zips : window[i] \in WindowsOf(Found(zips[i]))
         /\ response' = [status |-> 200,
                         results |-> [i \in DOMAIN zips |->
                            [zip |-> zips[i], from |-> Found(zips[i]), window |-> window[i]]],
                         greenest |-> Greenest(window)]
    /\ HandlerReturns
    /\ UNCHANGED <<race, poolVars, endpoint, named>>

Pool == stage = "race" /\ worker # << >> /\ (Close \/ \E w \in DOMAIN worker : Work(w))

Handle == Parse \/ LookupFails \/ StartRace \/ StartRaces \/ ReplyOne \/ Reply

Quiet == UNCHANGED <<endpoint, named, stage, response>>

CalcNext ==
    \/ Handle
    \/ Pool /\ Quiet
    \/ (Expire \/ \E r \in Races : RaceStep(r)) /\ UNCHANGED poolVars /\ Quiet

CalcSpec == CalcInit /\ [][CalcNext]_calcVars

\* context.WithTimeout(r.Context(), s.raceTimeout): it runs from the lookup on.
RaceTimeout == stage = "race" /\ Expire /\ UNCHANGED poolVars /\ Quiet

\* Goroutines run, queries return and the race's time runs out.  That a provider
\* ever answers is not assumed.
CalcLiveSpec ==
    /\ CalcSpec
    /\ WF_calcVars(Handle) /\ WF_calcVars(RaceTimeout)
    /\ WF_calcVars(Close /\ Pool /\ Quiet)
    /\ \A w \in 1 .. MostWorkers : WF_calcVars(w \in DOMAIN worker /\ Work(w) /\ Quiet)
    /\ \A r \in Races :
         /\ WF_calcVars(Receive(r) /\ UNCHANGED poolVars /\ Quiet)
         /\ \A p \in Providers : WF_calcVars(Send(r, p) /\ UNCHANGED poolVars /\ Quiet)
-----------------------------------------------------------------------------

Zoned == "results" \in DOMAIN response

\* The answer has, for every distinct zip of the request and in its order, what
\* the one race for that zip brought: no zip is raced twice, none is lost between
\* the workers, and the map is read behind the last write to it.
EachZipOnce ==
    Zoned =>
      /\ \A i, j \in DOMAIN zips : i # j => zips[i] # zips[j]
      /\ ToSet(zips) = named
      /\ Len(response.results) = Len(zips)
      /\ \A i \in DOMAIN zips :
           /\ response.results[i].zip = zips[i]
           /\ response.results[i].from = race[i].answer
           /\ ~Racing(i)

\* "greenest" is a zip with a window no other zip's undercuts, and the first of
\* those in the request; there is none only if no zip has a window.
GreenestIsBest ==
    Zoned =>
      LET windows == {i \in DOMAIN zips : response.results[i].window.ok}
          Average(i) == response.results[i].window.average
      IN  IF windows = {} THEN response.greenest = 0
          ELSE /\ response.greenest \in windows
               /\ \A j \in windows :
                    LET i == response.greenest
                    IN  Average(j) > Average(i) \/ (Average(j) = Average(i) /\ j >= i)

ByRace == "from" \in DOMAIN response
EveryProviderFailed(r) == \A p \in Providers : race[r].call[p].pc = "exited" /\ ~race[r].call[p].ok

\* The status of /calculate says whose fault it was.  503 exactly if no forecast was
\* won: every provider failed, or the time was over first; and if every provider
\* failed it is 503, never the caller's 400.  Otherwise it is the winner's own
\* forecast that decides: 200 if the appliance fits, 400 if it does not.  (Behind the
\* pool /calculate/multi is 200 whatever failed, although the README promises the
\* 503 of "all endpoints".)
BlameIsRight ==
    /\ response.status = 503 =>
         ByRace /\ (race[1].answer.kind = "cancelled" \/ EveryProviderFailed(1))
    /\ ByRace =>
         /\ EveryProviderFailed(1) => response.status = 503
         /\ response.status # 503 =>
              /\ response.from.kind = "won" /\ race[1].call[response.from.provider].ok
              /\ response.status = IF response.window.ok THEN 200 ELSE 400

\* Every request is answered, whatever MULTIZONE_WORKERS is set to, and though no
\* provider should ever answer.
EveryRequestAnswered == <>Answered
=============================================================================
