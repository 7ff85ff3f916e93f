--------------------------- MODULE DeliveryTiming ---------------------------
(***************************************************************************)
(* One task against the clock: leases, timeouts and due times as numbers,  *)
(* where NotificationStore has timers that pass in any order. Workers read *)
(* the clock, claim, call the supplier and store the result in steps that  *)
(* may take any time; only the call itself is bounded, by the timeout of   *)
(* the destination. Outbox and queue are left out: a pending task may be   *)
(* claimed at once. The attempt counted by a claim stands for its token.   *)
(***************************************************************************)
EXTENDS RetryPolicy

CONSTANTS
    Worker,              \* delivery worker processes
    Policies,            \* destinations as validated at start
    LeaseTTL,            \* lease of a claim
    StatusCodes,         \* answers of the supplier
    RetryAfterSeconds,   \* seconds its Retry-After header may hold
    Horizon              \* bound: last moment of the clock

(* parseDestination: delays lie within the lifetime, there are some if     *)
(* there is a second attempt, and a duration holds every lifetime.         *)
ASSUME PoliciesAssumption ==
    \A p \in Policies :
        /\ p.maxAttempts \in Nat \ {0} /\ p.timeout \in Nat \ {0}
        /\ p.lifetime \in 1 .. 2 ^ (DurationBits - 1) - 1
        /\ p.delays \in Seq(1 .. p.lifetime)
        /\ p.maxAttempts > 1 => p.delays # <<>>

(* time.Duration and the int of strconv.Atoi. *)
ASSUME TimingAssumption == LeaseTTL \in Int /\ RetryAfterSeconds \subseteq Int

VARIABLES
    now,      \* the clock all processes read
    policy,   \* the task's snapshot of its destination
    task,     \* the row, created at 0
    worker,   \* local state of Handle, per process
    last,     \* history: the last result the row took
    heard     \* history: the last answer, whether the row took it or not

timingVars == <<now, policy, task, worker, last, heard>>

(* A result: its outcome, the next attempt, when it was answered, until    *)
(* when the supplier is to be left alone and the moment it named itself.   *)
NoResult == [outcome |-> "none", next |-> <<>>, completed |-> 0, quiet |-> 0,
             meant |-> 0]

(* An answer: to which attempt, until when the supplier is to be left      *)
(* alone and until when that attempt has its lease.                        *)
NoAnswer == [attempt |-> 0, quiet |-> 0, until |-> 0]

Idle == [pc |-> "idle", clock |-> 0, attempt |-> 0, started |-> 0, result |-> NoResult]

TimingInit ==
    /\ now = 0
    /\ policy \in Policies
    /\ task = [status |-> "pending", attempts |-> 0, nextAt |-> <<>>,
               lease |-> 0, leaseUntil |-> <<>>, deadAt |-> <<>>]
    /\ worker = [w \in Worker |-> Idle]
    /\ last = NoResult
    /\ heard = NoAnswer

ReadClock(w) ==
    /\ worker[w].pc = "idle"
    /\ task.status = "pending"
    /\ worker' = [worker EXCEPT ![w].pc = "claim", ![w].clock = now]
    /\ UNCHANGED <<now, policy, task, last, heard>>

Claim(w) ==
    /\ worker[w].pc = "claim"
    /\ IF task.status = "pending"
       THEN /\ task' = [task EXCEPT !.status = "delivering", !.attempts = @ + 1,
                                    !.lease = task.attempts + 1,
                                    !.leaseUntil = <<worker[w].clock + LeaseTTL>>]
            /\ worker' = [worker EXCEPT ![w].pc = "acquire", ![w].attempt = task.attempts + 1]
       ELSE /\ worker' = [worker EXCEPT ![w] = Idle]
            /\ UNCHANGED task
    /\ UNCHANGED <<now, policy, last, heard>>

(* Limiter.Acquire has returned and the request is sent. *)
StartCall(w) ==
    /\ worker[w].pc = "acquire"
    /\ worker' = [worker EXCEPT ![w].pc = "call", ![w].started = now]
    /\ UNCHANGED <<now, policy, task, last, heard>>

(* Mutant: the request has no deadline. *)
NoDeadline(w) == Horizon + 1

Deadline(w) == worker[w].started + policy.timeout

RetryAfterHeaders ==
    [kind : {"seconds"}, value : RetryAfterSeconds] \cup
    [kind : {"date"}, value : {now, now + Second}] \cup
    {[kind |-> "none"]}

(* The moment the supplier meant, if it named one. *)
Meant(header) ==
    CASE header.kind = "seconds" -> now + header.value * Second
      [] header.kind = "date" -> header.value
      [] OTHER -> now

(* A duration holds the wait it asks for. *)
Fits(header) == header.kind = "seconds" => header.value * Second < 2 ^ (DurationBits - 1)

(* Until when the supplier is to be left alone. *)
QuietUntil(attempt, header) ==
    CASE Meant(header) > now /\ Fits(header) -> Meant(header)
      [] Meant(header) <= now /\ policy.delays # <<>> ->
             now + (4 * DelayAfter(policy, attempt)) \div 5
      [] OTHER -> now

(* The call answers, its result is classified and the next attempt chosen. *)
Complete(w, outcome, header) ==
    \E next \in IF outcome = "retryable"
                THEN NextAttempt(policy, worker[w].attempt, ParseRetryAfter(header, now), now)
                ELSE {<<>>} :
        /\ worker' = [worker EXCEPT ![w] =
            [Idle EXCEPT !.pc = "apply", !.attempt = worker[w].attempt, !.result =
               [outcome |-> IF outcome = "retryable" /\ next = <<>> THEN "exhausted"
                            ELSE outcome,
                next |-> next,
                completed |-> now,
                meant |-> Meant(header),
                quiet |-> QuietUntil(worker[w].attempt, header)]]]
        /\ heard' = [attempt |-> worker[w].attempt,
                     quiet |-> QuietUntil(worker[w].attempt, header),
                     until |-> worker[w].clock + LeaseTTL]

Answer(w) ==
    /\ worker[w].pc = "call"
    /\ now <= Deadline(w)
    /\ \E status \in StatusCodes, header \in RetryAfterHeaders :
          /\ status \notin {429, 503} => header.kind = "none"
          /\ Complete(w, ClassifyResult(status), header)
    /\ UNCHANGED <<now, policy, task, last>>

(* No answer: the transport failed or the deadline passed. *)
TransportError(w) ==
    /\ worker[w].pc = "call"
    /\ Complete(w, "retryable", [kind |-> "none"])
    /\ UNCHANGED <<now, policy, task, last>>

StatusAfter(outcome) ==
    CASE outcome = "delivered" -> "delivered"
      [] outcome = "retryable" -> "retry_wait"
      [] OTHER -> "dead"

(* The result reaches the row, unless the lease was taken over. *)
Apply(w) ==
    /\ worker[w].pc = "apply"
    /\ IF task.status = "delivering" /\ task.lease = worker[w].attempt
       THEN LET result == worker[w].result IN
            /\ task' = [task EXCEPT
                 !.status = StatusAfter(result.outcome), !.nextAt = result.next,
                 !.lease = 0, !.leaseUntil = <<>>,
                 !.deadAt = IF result.outcome \in {"permanent", "exhausted"}
                            THEN <<result.completed>> ELSE <<>>]
            /\ last' = result
       ELSE UNCHANGED <<task, last>>
    /\ worker' = [worker EXCEPT ![w] = Idle]
    /\ UNCHANGED <<now, policy, heard>>

Crash(w) ==
    /\ worker[w].pc # "idle"
    /\ worker' = [worker EXCEPT ![w] = Idle]
    /\ UNCHANGED <<now, policy, task, last, heard>>

Due ==
    \/ task.status = "retry_wait" /\ task.nextAt[1] <= now
    \/ task.status = "delivering" /\ task.leaseUntil[1] < now

Exhausted == task.attempts >= policy.maxAttempts \/ now >= policy.lifetime

ScheduleDue ==
    /\ Due
    /\ task' = [task EXCEPT !.status = IF Exhausted THEN "dead" ELSE "pending",
                            !.deadAt = IF Exhausted THEN <<now>> ELSE @,
                            !.nextAt = <<>>, !.lease = 0, !.leaseUntil = <<>>]
    /\ UNCHANGED <<now, policy, worker, last, heard>>

(* The clock moves on, but not past the deadline of a call under way. *)
Tick ==
    /\ now < Horizon
    /\ \A w \in Worker : worker[w].pc = "call" => now < Deadline(w)
    /\ now' = now + 1
    /\ UNCHANGED <<policy, task, worker, last, heard>>

TimingNext ==
    \/ \E w \in Worker :
          \/ ReadClock(w) \/ Claim(w) \/ StartCall(w) \/ Answer(w)
          \/ TransportError(w) \/ Apply(w) \/ Crash(w)
    \/ ScheduleDue
    \/ Tick

TimingSpec == TimingInit /\ [][TimingNext]_timingVars

-----------------------------------------------------------------------------
(* A supplier is called twice at the same time for one task only if the    *)
(* worker of the older call stalled, between reading the clock for its     *)
(* lease and sending the request, for longer than a lease exceeds a call.  *)
(* Handle takes the lease before it waits for the claim and the limiter,   *)
(* so that this can happen at all.                                         *)
OverlapNeedsStall ==
    \A v, w \in Worker :
        /\ worker[v].pc = "call"
        /\ worker[w].pc = "call"
        /\ worker[v].attempt < worker[w].attempt
        => worker[v].started - worker[v].clock > LeaseTTL - policy.timeout

(* The supplier is left alone as long as it asked for, or for at least 80  *)
(* percent of the configured delay, before the next attempt calls it. The  *)
(* wait of the result that is stored is kept; a wait whose result got lost *)
(* (the worker died, its UPDATE failed, the lease was taken over) ends at  *)
(* the latest with the lease of the attempt that heard of it. Two things   *)
(* are excused: a worker that has lost its lease may still call, and a     *)
(* Retry-After that no duration can hold is not honoured (see Fits).       *)
SupplierLeftAlone ==
    [][\A w \in Worker :
          worker[w].pc = "acquire" /\ worker'[w].pc = "call" =>
             /\ worker[w].attempt = task.attempts => now >= last.quiet
             /\ worker[w].attempt > heard.attempt =>
                   now >= heard.quiet \/ now > heard.until]_timingVars

(* A task dies early only if it is hopeless: without a permanent answer it *)
(* has used its attempts up, or the wait before the next attempt, the one  *)
(* the supplier meant even if no duration holds it, would have ended after *)
(* its lifetime.                                                           *)
DeadOnlyWhenHopeless ==
    task.status = "dead" =>
        \/ last.outcome = "permanent"
        \/ task.attempts = policy.maxAttempts
        \/ task.deadAt[1] >= policy.lifetime
        \/ IF last.meant > last.completed THEN last.meant > policy.lifetime
           ELSE task.deadAt[1] + (6 * DelayAfter(policy, task.attempts)) \div 5
                    > policy.lifetime
=============================================================================
