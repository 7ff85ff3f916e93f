-------------------------- MODULE NotificationStore --------------------------
(***************************************************************************)
(* The two PostgreSQL tables of the service, notification_tasks and        *)
(* outbox_events, and the statements internal/store/postgres runs on them. *)
(* Every statement, or explicit transaction, is one atomic step: rows are  *)
(* locked FOR UPDATE SKIP LOCKED and their WHERE clauses are re-evaluated  *)
(* on the locked version.                                                  *)
(*                                                                         *)
(* A table is a partial function: its domain is the set of primary keys.   *)
(* An outbox row is keyed by <<aggregate_id, generation>>, which is UNIQUE.*)
(* A timestamp that is only ever compared with the current time is a timer *)
(* that is "null" (SQL NULL), "running" or "passed".                       *)
(***************************************************************************)
EXTENDS Integers, FiniteSets

CONSTANTS
    Notification,        \* ids that newID() returns for tasks
    Request,             \* pairs of caller_id and idempotency_key
    Hash,                \* values of request_hash
    MaxAttemptsValues,   \* max_attempts of the configured destinations
    ClaimToken,          \* tokens newID() returns for outbox claims
    LeaseToken,          \* tokens newID() returns for delivery leases
    NoToken,             \* a NULL claim_token or lease_token
    OutboxBatchSize,     \* LIMIT of ClaimOutbox
    ScheduleBatchSize,   \* LIMIT of ScheduleDue
    RetentionBatchSize,  \* LIMIT of DeleteTerminalBefore
    MaxReplays           \* bound: replays an administrator asks for per task

(* CHECK (max_attempts BETWEEN 1 AND 32): at least one attempt. *)
ASSUME MaxAttemptsAssumption == MaxAttemptsValues \subseteq Nat \ {0}

ASSUME TokenAssumption == NoToken \notin ClaimToken \cup LeaseToken

ASSUME MaxReplaysAssumption == MaxReplays \in Nat

VARIABLES
    tasks,     \* notification_tasks: id -> row
    outbox,    \* outbox_events: <<aggregate_id, generation>> -> row
    replays    \* history: every id ever inserted -> replays of its task

storeVars == <<tasks, outbox, replays>>

-----------------------------------------------------------------------------
(* The rows. *)

Status == {"pending", "delivering", "retry_wait", "delivered", "dead"}
Terminal == {"delivered", "dead"}
Outcome == {"delivered", "retryable", "permanent"}
Timestamp == {"null", "set"}
Timer == {"null", "running", "passed"}

TaskRow == [request : Request, hash : Hash, status : Status, attempts : Nat,
            maxAttempts : MaxAttemptsValues, generation : Nat,
            nextAttempt : Timer, leaseToken : LeaseToken \cup {NoToken},
            lease : Timer, lifetime : {"running", "passed"},
            updated : {"recent", "aged"}, deliveredAt : Timestamp,
            deadAt : Timestamp]

EventRow == [publishedAt : Timestamp, claimToken : ClaimToken \cup {NoToken},
             claim : Timer]

NewTask(request, hash, max) ==
    [request |-> request, hash |-> hash, status |-> "pending",
     attempts |-> 0, maxAttempts |-> max, generation |-> 0,
     nextAttempt |-> "null", leaseToken |-> NoToken, lease |-> "null",
     lifetime |-> "running", updated |-> "recent",
     deliveredAt |-> "null", deadAt |-> "null"]

NewEvent == [publishedAt |-> "null", claimToken |-> NoToken, claim |-> "null"]

(* INSERT ... ON CONFLICT (aggregate_id, generation) DO NOTHING for a set  *)
(* of keys.                                                                *)
InsertEvents(keys) ==
    [k \in DOMAIN outbox \cup keys |->
        IF k \in DOMAIN outbox THEN outbox[k] ELSE NewEvent]

StoreInit ==
    /\ tasks = [id \in {} |-> 0]
    /\ outbox = [k \in {} |-> 0]
    /\ replays = [id \in {} |-> 0]

-----------------------------------------------------------------------------
(* Intake: one transaction inserts the task and its first outbox event.    *)

(* Mutant: no UNIQUE (caller_id, idempotency_key). *)
RequestNeverTaken(request) == FALSE

RequestTaken(request) == \E id \in DOMAIN tasks : tasks[id].request = request

CreateNotification(id, request, hash, max) ==
    /\ id \notin DOMAIN replays
    /\ ~RequestTaken(request)
    /\ <<id, 0>> \notin DOMAIN outbox
    /\ tasks' = [i \in DOMAIN tasks \cup {id} |->
                    IF i = id THEN NewTask(request, hash, max) ELSE tasks[i]]
    /\ outbox' = InsertEvents({<<id, 0>>})
    /\ replays' = [i \in DOMAIN replays \cup {id} |->
                    IF i = id THEN 0 ELSE replays[i]]

-----------------------------------------------------------------------------
(* Publisher side of the outbox.                                           *)

Claimable(k) ==
    /\ outbox[k].publishedAt = "null"
    /\ outbox[k].claim \in {"null", "passed"}

Claimed(event, token) == [event EXCEPT !.claimToken = token, !.claim = "running"]

ClaimOutbox(batch, token) ==
    /\ Cardinality(batch) <= OutboxBatchSize
    /\ \A k \in batch : Claimable(k)
    /\ outbox' = [k \in DOMAIN outbox |->
                    IF k \in batch THEN Claimed(outbox[k], token) ELSE outbox[k]]
    /\ UNCHANGED <<tasks, replays>>

ClaimStillHeld(k, token) ==
    /\ k \in DOMAIN outbox
    /\ outbox[k].claimToken = token
    /\ outbox[k].publishedAt = "null"

Published == [publishedAt |-> "set", claimToken |-> NoToken, claim |-> "null"]

MarkPublished(k, token) ==
    /\ ClaimStillHeld(k, token)
    /\ outbox' = [outbox EXCEPT ![k] = Published]
    /\ UNCHANGED <<tasks, replays>>

-----------------------------------------------------------------------------
(* Delivery worker.                                                        *)

(* Mutant: attempt_count + 1 dropped. *)
LeasedUncounted(row, token) ==
    [row EXCEPT !.status = "delivering", !.leaseToken = token,
                !.lease = "running", !.updated = "recent"]

Leased(row, token) ==
    [row EXCEPT !.status = "delivering", !.leaseToken = token,
                !.lease = "running", !.attempts = @ + 1, !.updated = "recent"]

(* Mutant: status = 'pending' dropped. *)
ClaimDeliveryAnyStatus(id, token) ==
    /\ id \in DOMAIN tasks
    /\ tasks' = [tasks EXCEPT ![id] = Leased(tasks[id], token)]
    /\ UNCHANGED <<outbox, replays>>

ClaimDelivery(id, token) ==
    /\ id \in DOMAIN tasks
    /\ tasks[id].status = "pending"
    /\ tasks' = [tasks EXCEPT ![id] = Leased(tasks[id], token)]
    /\ UNCHANGED <<outbox, replays>>

(* Mutant: lease_token = $2 dropped. *)
LeaseHeldBySomeone(id, token) ==
    /\ id \in DOMAIN tasks
    /\ tasks[id].status = "delivering"

LeaseStillHeld(id, token) ==
    /\ id \in DOMAIN tasks
    /\ tasks[id].status = "delivering"
    /\ tasks[id].leaseToken = token

StatusAfter(outcome) ==
    CASE outcome = "delivered" -> "delivered"
      [] outcome = "retryable" -> "retry_wait"
      [] OTHER -> "dead"

Settled(row, outcome) ==
    [row EXCEPT
        !.status = StatusAfter(outcome),
        !.nextAttempt = IF outcome = "retryable" THEN "running" ELSE "null",
        !.leaseToken = NoToken,
        !.lease = "null",
        !.updated = "recent",
        !.deliveredAt = IF outcome = "delivered" THEN "set" ELSE "null",
        !.deadAt = IF outcome \in {"delivered", "retryable"} THEN "null" ELSE "set"]

ApplyDeliveryResult(id, token, outcome) ==
    /\ LeaseStillHeld(id, token)
    /\ tasks' = [tasks EXCEPT ![id] = Settled(tasks[id], outcome)]
    /\ UNCHANGED <<outbox, replays>>

-----------------------------------------------------------------------------
(* Scheduler: due retries and expired leases become pending again under a  *)
(* new generation with a new event, or dead when the task is exhausted.    *)

(* Mutant: expired leases are not scanned. *)
DueRetriesOnly(id) ==
    tasks[id].status = "retry_wait" /\ tasks[id].nextAttempt = "passed"

Due(id) ==
    \/ tasks[id].status = "retry_wait" /\ tasks[id].nextAttempt = "passed"
    \/ tasks[id].status = "delivering" /\ tasks[id].lease = "passed"

(* Mutant: off by one. *)
ExhaustedLate(row) == row.attempts > row.maxAttempts \/ row.lifetime = "passed"

Exhausted(row) == row.attempts >= row.maxAttempts \/ row.lifetime = "passed"

Buried(row) ==
    [row EXCEPT !.status = "dead", !.deadAt = "set", !.updated = "recent",
                !.leaseToken = NoToken, !.lease = "null", !.nextAttempt = "null"]

(* Mutant: the lease columns are not reset. *)
RescheduledKeepingLease(row) ==
    [row EXCEPT !.status = "pending", !.generation = @ + 1, !.updated = "recent",
                !.nextAttempt = "null"]

Rescheduled(row) ==
    [row EXCEPT !.status = "pending", !.generation = @ + 1, !.updated = "recent",
                !.nextAttempt = "null", !.leaseToken = NoToken, !.lease = "null"]

AfterDue(row) == IF Exhausted(row) THEN Buried(row) ELSE Rescheduled(row)

ScheduleDue(batch) ==
    /\ Cardinality(batch) <= ScheduleBatchSize
    /\ \A id \in batch : Due(id)
    /\ tasks' = [id \in DOMAIN tasks |->
                    IF id \in batch THEN AfterDue(tasks[id]) ELSE tasks[id]]
    /\ outbox' = InsertEvents({<<id, tasks[id].generation + 1>> :
                                id \in {i \in batch : ~Exhausted(tasks[i])}})
    /\ UNCHANGED replays

-----------------------------------------------------------------------------
(* Administration: replay of a dead task, retention.                       *)

(* Mutant: the generation moved the wrong way. *)
ReplayedBackwards(row) ==
    [row EXCEPT !.status = "pending", !.generation = @ - 1, !.deadAt = "null",
                !.updated = "recent"]

Replayed(row) ==
    [row EXCEPT !.status = "pending", !.generation = @ + 1,
                !.nextAttempt = "null", !.leaseToken = NoToken, !.lease = "null",
                !.deadAt = "null", !.updated = "recent"]

(* Mutants: the store's other, non-atomic ReplayDead, which inserts no     *)
(* event; status = 'dead' loosened.                                        *)
ReplayDead(id) ==
    /\ id \in DOMAIN tasks
    /\ tasks[id].status = "dead"
    /\ replays[id] < MaxReplays
    /\ tasks' = [tasks EXCEPT ![id] = Replayed(tasks[id])]
    /\ replays' = [replays EXCEPT ![id] = @ + 1]
    /\ UNCHANGED outbox

ReplaySettled(id) ==
    /\ id \in DOMAIN tasks
    /\ tasks[id].status \in Terminal
    /\ replays[id] < MaxReplays
    /\ tasks' = [tasks EXCEPT ![id] = Replayed(tasks[id])]
    /\ outbox' = InsertEvents({<<id, tasks[id].generation + 1>>})
    /\ replays' = [replays EXCEPT ![id] = @ + 1]

ReplayDeadAtomic(id) ==
    /\ id \in DOMAIN tasks
    /\ tasks[id].status = "dead"
    /\ replays[id] < MaxReplays
    /\ <<id, tasks[id].generation + 1>> \notin DOMAIN outbox
    /\ tasks' = [tasks EXCEPT ![id] = Replayed(tasks[id])]
    /\ outbox' = InsertEvents({<<id, tasks[id].generation + 1>>})
    /\ replays' = [replays EXCEPT ![id] = @ + 1]

Deletable(id) ==
    /\ tasks[id].status \in Terminal
    /\ tasks[id].updated = "aged"
    /\ \A k \in DOMAIN outbox : k[1] = id => outbox[k].publishedAt = "set"

(* ON DELETE CASCADE takes the events of a task with it. *)
DeleteTerminalBefore(batch) ==
    /\ Cardinality(batch) <= RetentionBatchSize
    /\ \A id \in batch : Deletable(id)
    /\ tasks' = [id \in DOMAIN tasks \ batch |-> tasks[id]]
    /\ outbox' = [k \in {e \in DOMAIN outbox : e[1] \notin batch} |-> outbox[k]]
    /\ UNCHANGED replays

-----------------------------------------------------------------------------
(* Time. A terminal row ages past the retention cutoff; other rows age too,*)
(* but every statement that makes a row terminal refreshes updated_at.     *)

ClaimElapses(k) ==
    /\ outbox[k].claim = "running"
    /\ outbox' = [outbox EXCEPT ![k].claim = "passed"]
    /\ UNCHANGED <<tasks, replays>>

LeaseElapses(id) ==
    /\ tasks[id].lease = "running"
    /\ tasks' = [tasks EXCEPT ![id].lease = "passed"]
    /\ UNCHANGED <<outbox, replays>>

RetryFallsDue(id) ==
    /\ tasks[id].nextAttempt = "running"
    /\ tasks' = [tasks EXCEPT ![id].nextAttempt = "passed"]
    /\ UNCHANGED <<outbox, replays>>

LifetimeElapses(id) ==
    /\ tasks[id].lifetime = "running"
    /\ tasks' = [tasks EXCEPT ![id].lifetime = "passed"]
    /\ UNCHANGED <<outbox, replays>>

RowAges(id) ==
    /\ tasks[id].status \in Terminal
    /\ tasks[id].updated = "recent"
    /\ tasks' = [tasks EXCEPT ![id].updated = "aged"]
    /\ UNCHANGED <<outbox, replays>>

TimePasses ==
    \/ \E k \in DOMAIN outbox : ClaimElapses(k)
    \/ \E id \in DOMAIN tasks :
          \/ LeaseElapses(id)
          \/ RetryFallsDue(id)
          \/ LifetimeElapses(id)
          \/ RowAges(id)

-----------------------------------------------------------------------------
(* Any client may run any statement at any time. *)

StoreNext ==
    \/ \E id \in Notification, request \in Request, hash \in Hash,
          max \in MaxAttemptsValues : CreateNotification(id, request, hash, max)
    \/ \E batch \in (SUBSET DOMAIN outbox) \ {{}}, token \in ClaimToken :
          ClaimOutbox(batch, token)
    \/ \E k \in DOMAIN outbox, token \in ClaimToken : MarkPublished(k, token)
    \/ \E id \in DOMAIN tasks, token \in LeaseToken : ClaimDelivery(id, token)
    \/ \E id \in DOMAIN tasks, token \in LeaseToken, outcome \in Outcome :
          ApplyDeliveryResult(id, token, outcome)
    \/ \E batch \in (SUBSET DOMAIN tasks) \ {{}} : ScheduleDue(batch)
    \/ \E id \in DOMAIN tasks : ReplayDeadAtomic(id)
    \/ \E batch \in (SUBSET DOMAIN tasks) \ {{}} : DeleteTerminalBefore(batch)
    \/ TimePasses

StoreSpec == StoreInit /\ [][StoreNext]_storeVars

-----------------------------------------------------------------------------
(* Properties. *)

(* Every row has the columns and the column types of the migration.        *)
StoreTypeOK ==
    /\ DOMAIN tasks \subseteq Notification
    /\ tasks \in [DOMAIN tasks -> TaskRow]
    /\ DOMAIN outbox \subseteq Notification \X Nat
    /\ outbox \in [DOMAIN outbox -> EventRow]
    /\ DOMAIN replays \subseteq Notification
    /\ replays \in [DOMAIN replays -> Nat]

WellFormed(row) ==
    /\ row.status = "delivering" <=> row.lease # "null"
    /\ row.status = "delivering" <=> row.leaseToken # NoToken
    /\ row.status = "retry_wait" <=> row.nextAttempt # "null"
    /\ row.status = "delivered" <=> row.deliveredAt = "set"
    /\ row.status = "dead" <=> row.deadAt = "set"

(* No row is stranded: the scheduler finds a row only through              *)
(* next_attempt_at or lease_until, both of which are compared with "<" and *)
(* so skip NULL. A delivering row always has a lease that will pass, a     *)
(* retry_wait row always a due time, and a settled or pending row neither. *)
RowShape == \A id \in DOMAIN tasks : WellFormed(tasks[id])

(* The outbox holds one event for every generation a task has had and no   *)
(* other: the ON CONFLICT DO NOTHING of ScheduleDue never swallows the only *)
(* event of a new generation, InsertOutbox never meets a generation        *)
(* conflict, and the cascade of retention leaves no orphan.                *)
EventLedger ==
    /\ \A k \in DOMAIN outbox :
          k[1] \in DOMAIN tasks /\ k[2] <= tasks[k[1]].generation
    /\ \A id \in DOMAIN tasks : \A g \in 0 .. tasks[id].generation :
          <<id, g>> \in DOMAIN outbox

Counted(row) ==
    row.attempts = IF row.status = "pending" THEN row.generation
                   ELSE row.generation + 1

(* attempt_count and generation move in lockstep: a generation is claimed  *)
(* at most once, however many copies of its message are delivered.         *)
AttemptLedger == \A id \in DOMAIN tasks : Counted(tasks[id])

WithinBudget(row, replayed) ==
    /\ row.attempts <= row.maxAttempts + replayed
    /\ row.status = "pending" => row.attempts < row.maxAttempts + replayed

(* The supplier is called within the attempt budget: max_attempts claims,  *)
(* and one more for every replay an administrator asked for, although      *)
(* neither ClaimDelivery nor ReplayDeadAtomic looks at max_attempts. A     *)
(* pending task has a claim left.                                          *)
RetryBudget ==
    \A id \in DOMAIN tasks :
        id \in DOMAIN replays /\ WithinBudget(tasks[id], replays[id])

(* What no statement may do to a row that survives it: take a delivered    *)
(* task out of its final state, move attempt_count or generation backwards *)
(* or by more than one, or change the request it answers.                  *)
RowProgress ==
    [][\A id \in DOMAIN tasks \cap DOMAIN tasks' :
          /\ tasks[id].status = "delivered" => tasks'[id].status = "delivered"
          /\ tasks'[id].attempts - tasks[id].attempts \in {0, 1}
          /\ tasks'[id].generation - tasks[id].generation \in {0, 1}
          /\ tasks'[id].request = tasks[id].request]_storeVars
=============================================================================
