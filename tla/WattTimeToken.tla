--------------------------- MODULE WattTimeToken ---------------------------
(***************************************************************************)
(* The token of the WattTime provider (internal/grid/watttime.go): one per *)
(* process, shared by every request under a mutex that is held across the  *)
(* login call.                                                             *)
(*                                                                         *)
(* The WattTime API is external: it issues tokens that expire, refuses     *)
(* logins, and may answer a login with an empty token.                     *)
(***************************************************************************)
EXTENDS Integers

CONSTANTS
    Callers,   \* goroutines in GetForecast together
    Nobody,    \* the mutex is free
    NoToken,   \* the empty string
    Refresh,   \* how long the process uses a token, 25 minutes
    Validity,  \* how long the API accepts it, about 30 minutes
    MaxLogin,  \* bound on a login call, ten seconds
    MaxSend    \* bound on the request for a forecast, ten seconds

TokenParameters ==
    /\ Nobody \notin Callers
    /\ {Refresh, Validity, MaxLogin, MaxSend} \subseteq Nat
    /\ 0 < Refresh /\ Refresh + MaxLogin + MaxSend <= Validity

VARIABLES
    mu,      \* who holds the mutex
    token,   \* token and tokenExp, and when the API issued it
    caller,  \* the goroutines; at: when the step they are in began
    now

tokenVars == <<mu, token, caller>>

Outside == [pc |-> "outside", at |-> 0, token |-> NoToken]

TokenInit ==
    /\ mu = Nobody
    /\ token = NoToken
    /\ caller = [c \in Callers |-> Outside]

\* w.token != "" && time.Now().Before(w.tokenExp)
Cached == token # NoToken /\ now < token.exp
-----------------------------------------------------------------------------
(* Slips: wrong forms of definitions below, used by none of them.          *)

\* tokenExp is the end of the token's life.
ExpiryWithoutMargin == now + Validity

\* The token is not looked at again once the mutex is held.
LockBlindly(c) ==
    /\ caller[c].pc = "lock" /\ mu = Nobody
    /\ mu' = c
    /\ caller' = [caller EXCEPT ![c] = [@ EXCEPT !.pc = "login", !.at = now]]
    /\ UNCHANGED token

\* Unlock() on the last line instead of a defer.
LoginFailsLocked(c) ==
    /\ caller[c].pc = "login"
    /\ caller' = [caller EXCEPT ![c] = Outside]
    /\ UNCHANGED <<mu, token>>
-----------------------------------------------------------------------------

\* GetForecast calls authToken, which waits for the mutex, whatever its context.
Call(c) ==
    /\ caller[c].pc = "outside"
    /\ caller' = [caller EXCEPT ![c].pc = "lock"]
    /\ UNCHANGED <<mu, token>>

\* The request for the forecast is made.
Sending(c, t) == caller' = [caller EXCEPT ![c] = [pc |-> "send", at |-> now, token |-> t]]

\* The mutex is acquired; with a cached token it is released at once.
Lock(c) ==
    /\ caller[c].pc = "lock" /\ mu = Nobody
    /\ IF Cached
       THEN /\ Sending(c, token)
            /\ UNCHANGED mu
       ELSE /\ caller' = [caller EXCEPT ![c] = [@ EXCEPT !.pc = "login", !.at = now]]
            /\ mu' = c
    /\ UNCHANGED token

\* Counted from the answer, not from the token's issue.
Expiry == now + Refresh

\* The login is answered, with a token issued since it was sent, or an empty one.
LoginSucceeds(c) ==
    /\ caller[c].pc = "login"
    /\ token' \in {NoToken} \cup {[issued |-> i, exp |-> Expiry] : i \in caller[c].at .. now}
    /\ Sending(c, token')
    /\ mu' = Nobody

\* No answer, a status that is not 200, a body that does not parse, or a context
\* that is done: the error is GetForecast's.
LoginFails(c) ==
    /\ caller[c].pc = "login"
    /\ caller' = [caller EXCEPT ![c] = Outside]
    /\ mu' = Nobody
    /\ UNCHANGED token

\* The request is over; whatever came of it, the token is kept.
Sent(c) ==
    /\ caller[c].pc = "send"
    /\ caller' = [caller EXCEPT ![c] = Outside]
    /\ UNCHANGED <<mu, token>>

CallsInTime(c) ==
    /\ caller[c].pc = "lock" => mu # Nobody
    /\ caller[c].pc = "login" => now < caller[c].at + MaxLogin
    /\ caller[c].pc = "send" => now < caller[c].at + MaxSend
-----------------------------------------------------------------------------

\* No request is under way with a token the API has let expire, though the token
\* is checked before the request and dated after its issue.
SentTokenIsValid ==
    \A c \in Callers :
        caller[c].pc = "send" /\ caller[c].token # NoToken =>
            now < caller[c].token.issued + Validity

\* Callers that wait for the same login share its token: a good token is never
\* replaced before its time.
LoginsAreSpaced ==
    [][token # NoToken /\ token' # token => now >= token.exp]_<<tokenVars, now>>
=============================================================================
