---------------------------- MODULE ProviderRace ----------------------------
(***************************************************************************)
(* RaceProviders (internal/grid/race.go): one goroutine per provider, a    *)
(* channel with room for all their results, and the racer that selects     *)
(* between that channel and the end of its context.  A request may hold    *)
(* several races, one per zip, under one context.                          *)
(*                                                                         *)
(* What a forecast says is left out: a result is its provider and whether  *)
(* it has an error.                                                        *)
(***************************************************************************)
EXTENDS Integers, Sequences, FiniteSets

CONSTANTS
    Races,      \* the races of a request
    Providers,  \* configured providers; main.go falls back to the mock
    NoOne       \* no provider

ASSUME RaceAssumption ==
    /\ IsFiniteSet(Providers) /\ Providers # {}
    /\ NoOne \notin Providers

VARIABLES
    race,    \* of each: the goroutines' calls, the channel, who has failed so far
             \* in the racer's order, and what RaceProviders returned
    expired  \* the caller's context: raceTimeout is over, or the client is gone

raceVars == <<race, expired>>

Result == [provider : Providers, ok : BOOLEAN]
Answer == [kind : {"won"}, provider : Providers] \cup
          [kind : {"unasked", "open", "failed", "cancelled"}, provider : {NoOne}]

NoForecast(kind) == [kind |-> kind, provider |-> NoOne]

Unasked == [call    |-> [p \in Providers |-> [pc |-> "unborn", ok |-> FALSE]],
            results |-> <<>>,
            errs    |-> <<>>,
            answer  |-> NoForecast("unasked")]

RaceInit ==
    /\ race = [r \in Races |-> Unasked]
    /\ expired = FALSE

Racing(r) == race[r].answer.kind = "open"
Arrived(r) == race[r].results # <<>>
Received(r) == Head(race[r].results)

RaceTypeOK ==
    /\ race \in [Races ->
         [call : [Providers -> [pc : {"unborn", "fetching", "sending", "exited"}, ok : BOOLEAN]],
          results : Seq(Result), errs : Seq(Providers), answer : Answer]]
    /\ expired \in BOOLEAN
-----------------------------------------------------------------------------
(* Slips: wrong forms of actions below, in no specification.               *)

\* make(chan raceResult, 1).
SendToSmallBuffer(r, p) ==
    /\ race[r].call[p].pc = "sending"
    /\ ~Arrived(r)
    /\ race' = [race EXCEPT
         ![r].results = Append(@, [provider |-> p, ok |-> race[r].call[p].ok]),
         ![r].call[p].pc = "exited"]
    /\ UNCHANGED expired

\* An error ends the race.
ReceiveErrorAsLast(r) ==
    /\ Racing(r) /\ Arrived(r) /\ ~Received(r).ok
    /\ race' = [race EXCEPT ![r].results = Tail(@),
                            ![r].errs = Append(@, Received(r).provider),
                            ![r].answer = NoForecast("failed")]
    /\ UNCHANGED expired
-----------------------------------------------------------------------------

\* The goroutines are spawned.
BeginRace(r) ==
    /\ race[r] = Unasked
    /\ race' = [race EXCEPT
         ![r].call = [p \in Providers |-> [pc |-> "fetching", ok |-> FALSE]],
         ![r].answer = NoForecast("open")]

\* GetForecast returns: with a forecast, or with an error of its own or because
\* its context is done.  A provider may answer well even after that.
GetForecast(r, p) ==
    /\ race[r].call[p].pc = "fetching"
    /\ \E ok \in BOOLEAN : race' = [race EXCEPT ![r].call[p] = [pc |-> "sending", ok |-> ok]]
    /\ UNCHANGED expired

\* results <- raceResult{...}, which blocks while the buffer is full.
Send(r, p) ==
    /\ race[r].call[p].pc = "sending"
    /\ Len(race[r].results) < Cardinality(Providers)
    /\ race' = [race EXCEPT
         ![r].results = Append(@, [provider |-> p, ok |-> race[r].call[p].ok]),
         ![r].call[p].pc = "exited"]
    /\ UNCHANGED expired

\* case res := <-results, with a forecast.
ReceiveForecast(r) ==
    /\ Racing(r) /\ Arrived(r) /\ Received(r).ok
    /\ race' = [race EXCEPT ![r].results = Tail(@),
                            ![r].answer = [kind |-> "won", provider |-> Received(r).provider]]
    /\ UNCHANGED expired

\* ...with an error; the last one ends the loop.
ReceiveError(r) ==
    /\ Racing(r) /\ Arrived(r) /\ ~Received(r).ok
    /\ race' = [race EXCEPT
         ![r].results = Tail(@),
         ![r].errs = Append(@, Received(r).provider),
         ![r].answer = IF Len(race[r].errs) + 1 = Cardinality(Providers)
                       THEN NoForecast("failed") ELSE @]
    /\ UNCHANGED expired

\* case <-ctx.Done(), which select may choose beside a result that is ready.
Cancelled(r) ==
    /\ Racing(r) /\ expired
    /\ race' = [race EXCEPT ![r].answer = NoForecast("cancelled")]
    /\ UNCHANGED expired

Expire ==
    /\ ~expired
    /\ expired' = TRUE
    /\ UNCHANGED race

Receive(r) == ReceiveForecast(r) \/ ReceiveError(r) \/ Cancelled(r)

RaceStep(r) == Receive(r) \/ \E p \in Providers : GetForecast(r, p) \/ Send(r, p)
-----------------------------------------------------------------------------

\* The answer is one the calls bear out: the winner's call succeeded; "all grid
\* providers failed" is said only when each of them did, each named once in the
\* joined error; "cancelled" only when the caller's time was over.
AnswerJustified ==
    \A r \in Races :
        LET answer == race[r].answer
            call == race[r].call
            errs == race[r].errs
        IN  /\ answer.kind = "won" => call[answer.provider].ok
            /\ answer.kind = "failed" =>
                 /\ \A p \in Providers : call[p].pc = "exited" /\ ~call[p].ok
                 /\ \A p \in Providers : \E i \in DOMAIN errs : errs[i] = p
                 /\ Len(errs) = Cardinality(Providers)
            /\ answer.kind = "cancelled" => expired

\* No provider's goroutine stays behind, blocked on the channel of a race that is
\* over: once no provider keeps its call for ever, they all exit.
NoneLeftBehind ==
    <>[](\A r \in Races, p \in Providers : race[r].call[p].pc # "fetching")
        => <>[](\A r \in Races, p \in Providers : race[r].call[p].pc \in {"unborn", "exited"})
=============================================================================
