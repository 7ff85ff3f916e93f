---------------------------- MODULE RetryPolicy ----------------------------
(***************************************************************************)
(* The decisions about one answer of a supplier: its class, the moment a   *)
(* Retry-After header names, and when, if ever, the next attempt is due.   *)
(* Times and durations are integers in one unit. A *time.Time is <<>> for  *)
(* nil and <<t>> otherwise.                                                *)
(***************************************************************************)
EXTENDS Integers, Sequences

CONSTANTS
    Second,        \* units of time in time.Second
    DurationBits   \* width of time.Duration (64 in the code)

ASSUME SecondAssumption == Second \in Nat \ {0}
ASSUME DurationBitsAssumption == DurationBits \in Nat \ {0}

(* Integer arithmetic of time.Duration wraps around. *)
Duration(n) ==
    LET half == 2 ^ (DurationBits - 1) IN ((n + half) % (2 * half)) - half

ClassifyResult(status) ==
    CASE status \in 200 .. 299 -> "delivered"
      [] status \in {408, 425, 429} \cup 500 .. 599 -> "retryable"
      [] OTHER -> "permanent"

(* A header holds a number of seconds, a date, or nothing that parses. *)
ParseRetryAfter(header, now) ==
    CASE header.kind = "seconds" /\ header.value >= 0 ->
            <<now + Duration(header.value * Second)>>
      [] header.kind = "date" /\ header.value > now -> <<header.value>>
      [] OTHER -> <<>>

(* What BoundedJitter.Apply may return: 80 to 120 percent, at least 1. *)
Jittered(delay) ==
    IF delay <= 0 THEN {delay}
    ELSE {IF d < 1 THEN 1 ELSE d : d \in (4 * delay) \div 5 .. (6 * delay) \div 5}

DelayAfter(policy, attempt) ==
    policy.delays[IF attempt > Len(policy.delays) THEN Len(policy.delays) ELSE attempt]

(* Mutants: the last attempt is not used; the delays are off by one. *)
NextAttemptOneShort(policy, attempt, retryAfter, now) ==
    IF attempt + 1 >= policy.maxAttempts THEN {<<>>}
    ELSE {<<now + d>> : d \in Jittered(DelayAfter(policy, attempt))}

NextAttemptOneBehind(policy, attempt, retryAfter, now) ==
    IF attempt >= policy.maxAttempts THEN {<<>>}
    ELSE {<<now + d>> : d \in Jittered(policy.delays[IF attempt = 1 THEN 1 ELSE attempt - 1])}

(* The moments NextAttempt may name for the attempt after this one, or nil. *)
NextAttempt(policy, attempt, retryAfter, now) ==
    IF attempt >= policy.maxAttempts \/ attempt <= 0 \/ policy.delays = <<>> THEN {<<>>}
    ELSE IF retryAfter # <<>> /\ retryAfter[1] > now
    THEN {IF retryAfter[1] - now > policy.lifetime THEN <<>> ELSE retryAfter}
    ELSE {IF d > policy.lifetime THEN <<>> ELSE <<now + d>> :
             d \in Jittered(DelayAfter(policy, attempt))}
=============================================================================
