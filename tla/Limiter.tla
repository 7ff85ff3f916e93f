------------------------------- MODULE Limiter -------------------------------
(***************************************************************************)
(* delivery.Limiter for one destination: at most limit deliveries run at   *)
(* once. Destinations share nothing but the mutex. A section under the     *)
(* mutex is one step. The channel capacity.changed is a generation of      *)
(* waiters: closing it wakes everyone who took it, and whoever waits later *)
(* takes the new one, so a waiter is "waiting" while its channel is open   *)
(* and "woken" once it is closed.                                          *)
(***************************************************************************)
EXTENDS Integers, FiniteSets

CONSTANTS
    Caller,    \* goroutines that call Acquire
    Limits     \* concurrency limits they ask for

ASSUME CallerAssumption == IsFiniteSet(Caller)

ASSUME LimitsAssumption == Limits \subseteq Nat \ {0}

VARIABLES
    limit,       \* capacity.limit, 0 while the destination has no record
    active,      \* capacity.active
    pc,          \* where each caller is
    wants,       \* the limit each caller asks for
    cancelled    \* callers whose context is done

limiterVars == <<limit, active, pc, wants, cancelled>>

LimiterInit ==
    /\ limit = 0
    /\ active = 0
    /\ pc = [c \in Caller |-> "idle"]
    /\ wants = [c \in Caller |-> 0]
    /\ cancelled = {}

(* close(capacity.changed) and a new channel. *)
Notify(state) == [c \in Caller |-> IF state[c] = "waiting" THEN "woken" ELSE state[c]]

CallAcquire(c) ==
    /\ pc[c] = "idle"
    /\ \E asked \in Limits : wants' = [wants EXCEPT ![c] = asked]
    /\ pc' = [pc EXCEPT ![c] = "loop"]
    /\ cancelled' = cancelled \ {c}
    /\ UNCHANGED <<limit, active>>

ContextDone(c) ==
    /\ pc[c] # "idle"
    /\ c \notin cancelled
    /\ cancelled' = cancelled \cup {c}
    /\ UNCHANGED <<limit, active, pc, wants>>

(* ctx.Err() at the head of the loop. *)
CheckContext(c) ==
    /\ pc[c] = "loop"
    /\ pc' = [pc EXCEPT ![c] = IF c \in cancelled THEN "idle" ELSE "lock"]
    /\ UNCHANGED <<limit, active, wants, cancelled>>

(* The smallest limit asked for so far. *)
NewLimit(c) == IF limit = 0 \/ wants[c] < limit THEN wants[c] ELSE limit

(* Mutant: off by one. *)
HasSlotOffByOne(c) == active <= NewLimit(c)

HasSlot(c) == active < NewLimit(c)

(* The section under the mutex. A lowered limit wakes the waiters. *)
TryAcquire(c) ==
    LET lowered == limit # 0 /\ wants[c] < limit
        others == IF lowered THEN Notify(pc) ELSE pc
    IN  /\ pc[c] = "lock"
        /\ limit' = NewLimit(c)
        /\ active' = IF HasSlot(c) THEN active + 1 ELSE active
        /\ pc' = [others EXCEPT ![c] = IF HasSlot(c) THEN "holding" ELSE "waiting"]
        /\ UNCHANGED <<wants, cancelled>>

(* select on ctx.Done() and the channel. *)
GiveUp(c) ==
    /\ pc[c] \in {"waiting", "woken"}
    /\ c \in cancelled
    /\ pc' = [pc EXCEPT ![c] = "idle"]
    /\ UNCHANGED <<limit, active, wants, cancelled>>

Wake(c) ==
    /\ pc[c] = "woken"
    /\ pc' = [pc EXCEPT ![c] = "loop"]
    /\ UNCHANGED <<limit, active, wants, cancelled>>

(* Mutant: the slot is given back without notify(). *)
ReleaseSilently(c) ==
    /\ pc[c] = "holding"
    /\ active' = active - 1
    /\ pc' = [pc EXCEPT ![c] = "idle"]
    /\ UNCHANGED <<limit, wants, cancelled>>

(* Mutant: the release function has no sync.Once and runs again. *)
ReleaseTwice(c) ==
    /\ pc[c] = "holding"
    /\ active' = active - 1
    /\ \/ pc' = [Notify(pc) EXCEPT ![c] = "idle"]
       \/ pc' = Notify(pc)
    /\ UNCHANGED <<limit, wants, cancelled>>

Release(c) ==
    /\ pc[c] = "holding"
    /\ active' = active - 1
    /\ pc' = [Notify(pc) EXCEPT ![c] = "idle"]
    /\ UNCHANGED <<limit, wants, cancelled>>

Advance(c) == CheckContext(c) \/ TryAcquire(c) \/ GiveUp(c) \/ Wake(c) \/ Release(c)

LimiterNext == \E c \in Caller : CallAcquire(c) \/ ContextDone(c) \/ Advance(c)

LimiterSpec == LimiterInit /\ [][LimiterNext]_limiterVars

(* A runnable goroutine runs and a delivery ends: its HTTP call has a      *)
(* timeout. Nothing is assumed of new calls or of cancellation.            *)
LimiterFairness == \A c \in Caller : WF_limiterVars(Advance(c))

-----------------------------------------------------------------------------
(* Properties. *)

(* Counters are natural numbers and callers are at a known place.          *)
LimiterTypeOK ==
    /\ limit \in Nat
    /\ active \in Nat
    /\ pc \in [Caller -> {"idle", "loop", "lock", "waiting", "woken", "holding"}]
    /\ wants \in [Caller -> Nat]
    /\ cancelled \subseteq Caller

Holders == {c \in Caller : pc[c] = "holding"}

(* No slot leaks: active counts exactly the callers that hold a slot,      *)
(* through cancellation, lowered limits and wake-ups.                      *)
ActiveCountsHolders == active = Cardinality(Holders)

(* No lost wake-up: whoever sleeps on an open channel sleeps because every *)
(* slot of the current limit is taken.                                     *)
NoLostWakeup == (\E c \in Caller : pc[c] = "waiting") => active >= limit

(* Deliveries exceed the limit only because the limit was lowered under    *)
(* them: once within it, the number of holders stays within it.            *)
StaysWithinLimit ==
    [][active <= limit => active' <= limit' \/ limit' < limit]_limiterVars

(* The limiter never seizes up: when no new calls arrive, everyone who     *)
(* asked has had a slot and returned it, or has given up.                  *)
AllServed ==
    <>[][\A c \in Caller : ~CallAcquire(c)]_limiterVars
        => <>[](\A c \in Caller : pc[c] = "idle")
=============================================================================
