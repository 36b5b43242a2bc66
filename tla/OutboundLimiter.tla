-------------------------- MODULE OutboundLimiter --------------------------
(***************************************************************************)
(* The wait of RateLimited.GetForecast (internal/grid/ratelimit.go) for    *)
(* the limiter of its provider.                                            *)
(*                                                                         *)
(* The limiter is external: golang.org/x/time/rate with a burst of one.    *)
(* It gives out slots, Interval apart; a wait that could not end before    *)
(* the deadline of its context fails at once, and one that is cancelled    *)
(* gives its slot back, unless a later one is taken.                       *)
(***************************************************************************)
EXTENDS Integers

CONSTANTS
    Callers,   \* goroutines in GetForecast together
    Interval,  \* one second divided by GRID_RATE_LIMIT_RPS, in ticks
    Patience   \* raceTimeout, the life of a caller's context

LimiterParameters == Interval \in Nat \ {0} /\ Patience \in Nat

VARIABLES
    next,    \* the first free slot
    waiter,  \* the callers: their slot and the deadline of their context
    now

waitVars == <<next, waiter, now>>

Out == [pc |-> "out", slot |-> 0, deadline |-> 0]

LimiterInit == next = 0 /\ waiter = [c \in Callers |-> Out]

FreeSlot == IF next > now THEN next ELSE now

\* The context is made and the slot reserved.
Reserve(c) ==
    /\ FreeSlot <= now + Patience
    /\ next' = FreeSlot + Interval
    /\ waiter' = [waiter EXCEPT ![c] = [pc |-> "waiting", slot |-> FreeSlot,
                                        deadline |-> now + Patience]]

\* "would exceed context deadline"
WouldExceed(c) == FreeSlot > now + Patience /\ UNCHANGED <<next, waiter>>

SlotIsHere(c) == waiter[c].pc = "waiting" /\ now >= waiter[c].slot

\* Wait returns nil.
GoOn(c) ==
    /\ SlotIsHere(c)
    /\ waiter' = [waiter EXCEPT ![c].pc = "through", ![c].slot = 0]
    /\ UNCHANGED next

\* Wait returns the error of a context that is done.
Cancel(c) ==
    /\ waiter[c].pc = "waiting"
    /\ next' = IF next = waiter[c].slot + Interval THEN waiter[c].slot ELSE next
    /\ waiter' = [waiter EXCEPT ![c] = Out]

\* The base has answered.
Leave(c) == waiter' = [waiter EXCEPT ![c] = Out] /\ UNCHANGED next

InTime(c) == now <= waiter[c].deadline
=============================================================================
