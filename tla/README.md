# TLA+ model of the notification service

The service accepts notifications over HTTP, stores each one with an outbox
event in one PostgreSQL transaction, publishes the event to RabbitMQ, and has
workers deliver it to an external supplier with leases, retries and dead
letters. These modules model its store, the processes around it and what they
promise their callers, the times and durations involved, the calls of a
supplier, the operations of clients and administrators, the destination file
and the life of a process. Paths below are relative to the repository; Go files
are under `internal/`.

## 1. Inventory

| Component | State | Operations | Talks to |
|---|---|---|---|
| Store, `store/postgres` + `migrations` | tables `notification_tasks`, `outbox_events` | `CreateOrGet`, `ClaimOutbox`, `MarkPublished`, `ClaimDelivery`, `ApplyDeliveryResult`, `ScheduleDue`, `ReplayDeadAtomic`, `DeleteTerminalBefore` | everyone calls it |
| Outbox publisher, `outbox/service.go` | claim token and claimed batch of the running `RunOnce` | claim, publish, mark, poll | store, broker |
| Publisher channel, `messaging/rabbitmq/publisher.go` | AMQP channel, Go channels `confirms` and `returns` | `Publish` | broker |
| Queue and consumer, `messaging/rabbitmq/consumer.go`, `topology.go` | durable quorum queue, unacknowledged messages | deliver, ack, nack | publisher, worker |
| Delivery worker, `delivery/service.go` | message, lease token and result of the running `Handle` | claim, acquire, send, apply | queue, store, limiter, supplier |
| HTTP sender, `delivery/http_sender.go` | connections, the running request | `Send`: secrets, resolve, dial, redirect, classify, sanitize | supplier, resolver |
| Limiter, `delivery/limiter.go` | per destination: limit, active, channel of waiters | `Acquire`, release | worker |
| Retry policy, `notification/retry.go`, `state.go`, `jitter.go` | none (pure) | `NextAttempt`, `ClassifyResult`, `Apply` | worker |
| Scheduler, `retry/service.go` | none | poll `ScheduleDue` | store |
| Retention, `retention/service.go` | none | hourly `DeleteTerminalBefore` | store |
| Intake, `intake/service.go`, `transport/httpapi/create.go` | the running request | `Create` | store, registry, clients |
| Query and replay, `notification/query.go`, `transport/httpapi/query.go` | the running request | `Get`, `Replay` | store, clients, administrators |
| Registry, `destination/*` | destinations, read-only after `Load` | `Load`, `Get` | intake; secrets in the environment |
| Process, `cmd/notifier/main.go`, `config/config.go`, `app/bootstrap.go`, `observability/health.go` | role, open connections, goroutines, error channel, deferred closes | configure, start, select, close, readiness | all |
| Supervisor, `app/app.go` | roles, error channel, contexts | `Run` | only its test |

What is hard here is not any one function but the combination:

* every call may fail before or after its effect, and the process then exits
  or requeues without knowing which;
* claims and leases expire while their holders are merely slow;
* the queue duplicates, redelivers, reorders and in the end gives up, and a
  message carries no generation;
* the scheduler never looks at *pending* rows, so a pending task lives by its
  outbox event and its message alone;
* the attempt budget is counted in one statement and enforced in another;
* the outcome of a call and the text that describes it are stored together;
* what a role needs is written down in three files;
* shutdown closes connections under goroutines that go on using them.

What makes each component correct:

* store: no row becomes invisible to the scheduler, one event per generation,
  attempts within the budget, delivered is final;
* publisher and queue: no pending task without an event or a message;
* worker: late results are fenced off, one send per attempt number, overlapping
  calls of a supplier only after a stall;
* the whole: every accepted notification is settled in the end, and callers see
  nothing but the steps of a simple abstract service;
* sender: only validated addresses of the registered host, clean diagnostics;
* retry policy: the supplier is left alone as long as it asked, no task dies
  while an attempt was still possible;
* channel: a nil error of `Publish` means the queue stored this message;
* limiter: no leaked slot, no lost wake-up, nobody above the limit;
* intake: one task per idempotency key, answers that agree with it;
* query and replay: reads move forward, every granted replay revives once;
* registry: whole file or nothing, the same after every restart, policies the
  worker and tasks the table can take;
* process: opens what is configured, is ready when it serves, ends after the
  first report, never blocks a reporter.

`PROJECT.json` lists the hazards with their lines and the properties that
cover them.

## 2. Modules

| Module | Models |
|---|---|
| `NotificationStore` | both tables and all transactions on them; the abstract specification `StoreSpec` of what the processes may do to the data |
| `DeliveryPipeline` | publishers, queue and workers over the store; composes with scheduler, intake, replay and retention |
| `NotificationService` | abstract specification of what callers are promised |
| `PipelineRefinement` | the mapping under which `DeliveryPipeline` implements `NotificationService` |
| `BoundedRedelivery` | `DeliveryPipeline` over a queue with a delivery limit |
| `RetryPolicy` | `ClassifyResult`, `parseRetryAfter`, jitter, `NextAttempt` as operators |
| `DeliveryTiming` | one task, its workers and the scheduler against a clock |
| `Diagnostics` | the limit reader and `sanitize` on any bytes, as operators |
| `HTTPSender` | the calls of `Send` for one task and the storing of their results |
| `Limiter` | `delivery.Limiter` |
| `PublisherChannel` | `rabbitmq.Client.Publish` against confirms and returns |
| `AppRun` | `app.Run` |
| `Intake` | concurrent `POST /v1/notifications` with idempotency keys over the store |
| `Operations` | concurrent `GET` and replay over the store |
| `Registry` | `destination.Load`, restarts, and intake from what was loaded |
| `Lifecycle` | a process from `main` to its exit code |
| `NotificationStoreProofs` | proofs about the store |
| `DeliveryPipelineProofs` | proofs that the pipeline implements the store and forgets no task |
| `RefinementProofs` | proofs of the fencing of workers and of the refinement of `NotificationService`, over a broker that drops messages too |
| `IntakeProofs` | proofs about `Intake` and `Registry` |
| `OperationsProofs` | proofs about `Operations` |
| `TimingProofs` | proofs about `DeliveryTiming` and the operators of `RetryPolicy` |
| `PrimitivesProofs` | proofs about `Limiter`, `PublisherChannel`, `HTTPSender`, and about the recursive operators of `Diagnostics` |
| `LifecycleProofs` | proofs about `Lifecycle` |
| `MC...` | instances for TLC |

Operators under a `Mutant:` comment are not part of the specification: each is
a plausible bug in the definition that follows it, kept to show that a property
notices it.

### NotificationStore

`tasks` and `outbox` are partial functions from primary keys to rows; an event
is keyed by its UNIQUE pair `<<aggregate_id, generation>>`. One action is one
statement or explicit transaction: all of them lock the rows they change and
re-evaluate their WHERE clause on the locked version, so a transaction is
atomic. A timestamp that is only ever compared with the current time
(`next_attempt_at`, `lease_until`, `claim_until`, the end of the lifetime, the
retention cutoff against `updated_at`) is a timer `"null"`, `"running"` or
`"passed"`, and `TimePasses` lets any of them pass in any order: clocks of
different processes are not compared. `ORDER BY ... LIMIT` with `SKIP LOCKED`
is "any batch up to the limit", since locked rows are skipped. `StatusAfter`,
`Settled`, `Rescheduled`, `Buried`, `Replayed` are the SET clauses.
`max_attempts` is at least 1 as the CHECK constraint says. `replays` is a
history variable: the ids ever inserted (ids are never reused) and how often
each was replayed; `MaxReplays` bounds what administrators ask for.

Columns nothing reads back (`last_http_status`, `publish_attempts`, the
delivery snapshot) are left out; `last_error_message` is in `HTTPSender`.

### DeliveryPipeline

Every publisher is at one of the calls of `RunOnce` (`idle`, `publish`,
`mark`), every worker at one of the calls of `Handle` (`idle`, `claim`, `send`,
`apply`). For each database or broker call there is an action for its answer
and one for its failure, in which the call took effect or did not
(`ClaimBatchLost`, `PublishFails`, `MarkEventFails`, `ClaimTaskFails`,
`ApplyResultFails`); a failed claim without effect is no step. `CrashPublisher`
and `CrashWorker` end a process between any two calls, and the broker requeues
the worker's message. `Ack` may be lost, since the loop in `bootstrap.go`
ignores its error. The queue is a bag of messages: reordering is free,
duplicates come from lost confirms and lost acknowledgements. `NextAttempt`
appears as the set of outcomes it lets the worker apply (`AppliedOutcomes`):
never a retry once `max_attempts` is reached, possibly none before.

`newID()` draws tokens that are never equal. The model reuses a token once no
process remembers it; this loses nothing because a row is compared only with
the token of a process that claimed that row and because a claim overwrites
the token of the row.

### NotificationService and PipelineRefinement

The abstract service knows which notifications were accepted, whether each is
open, delivered or dead, how many calls it may still cost, and the calls that
were made. Its steps: accept, one call of the supplier with a fresh attempt
number within the budget, deliver (only after a call that was answered so),
bury, reopen (an administrator, one call more), forget (only what is settled).

`PhaseOf` maps `pending`, `delivering` and `retry_wait` to open; the budget is
`max_attempts` plus the number of replays, which no column holds and the
history variable supplies; the calls are `sends`. A call may come late, from a
worker that stalled, after the notification was settled or removed: the code
does not prevent it and the abstract service allows it.

### BoundedRedelivery

`declare()` asks for a quorum queue without `x-delivery-limit`, so that the
broker's own limit applies. The module counts, beside the bag of messages, how
often each came back, and drops one that comes back too often. This is the
broker's behaviour and marked external; that `Handle` gives messages back at
once on every error is the code's.

### RetryPolicy and DeliveryTiming

Where the store has timers that pass in any order, `DeliveryTiming` has one
clock and numbers: the lease read from the clock *before* the claim, the
timeout of a call, due times with jitter between 80 and 120 percent, and
`Retry-After` as seconds or as a date. `RetryPolicy` computes in durations of
`DurationBits` bits that wrap. Steps between two calls take any time; only the
call of the supplier is bounded, by the timeout of its destination. Outbox and
queue are left out: a pending task may be claimed at once. The attempt number
stands for the lease token. Two history variables hold the last result the row
took (`last`) and the last answer a worker got, stored or not (`heard`).

### HTTPSender and Diagnostics

A call of `Send` looks its secrets up, resolves and validates for every
connection it opens, follows the redirects `CheckRedirect` allows and ends with
an outcome, an error code and a text; that of a transport error may quote what
the supplier sent and goes through `sanitize` as a body does. `Diagnostics`
represents a byte by its role in UTF-8, which is what the limit reader,
`strings.Map` and the cut in `sanitize` tell apart. A body is any sequence of
bytes, valid or not: `ValidUTF8` and `Mapped` decode it character by character,
as recursive functions of the position. The result is one UPDATE, and
PostgreSQL refuses a text that is not valid UTF-8.

Left out: proxies, TLS, the method a redirect turns a request into, and
net/http's own repetition of a request on a connection that went away;
`AllowPrivateNetworks` is off, as `RunConfigured` has it.

### Limiter, PublisherChannel, AppRun

*Limiter*: one destination; sections under the mutex are one step. A waiter on
the current `changed` channel is `"waiting"`, one whose channel was closed is
`"woken"`. Contexts may be cancelled at any point. `bootstrap.go` runs one
`Handle` at a time per process, so in today's deployment the limiter is never
contended; the model checks the contract it offers.

*PublisherChannel*: the n-th `Publish` sends message n; broker and client
library are external: the broker answers in order, with `basic.return` before
the `ack` of an unroutable message, and the library copies frames in order into
two Go channels of capacity one. An error ends the process (`Run` returns it),
which is what keeps a late confirm from being read by the next call.

*AppRun*: roles that work, return and ignore their context at will; the select,
`StopClaims` of one role after the other, the cancel, the wait and its
deadline. `RunConfigured` does not use it.

The three share no state. `MCPrimitives` puts them into one run, in which one
of them takes steps while the other two have not started.

### Intake and Operations

A client's `POST` inserts both rows, or meets the unique key and looks the row
up in a separate statement; anything the rest of the service does to the task,
removal by retention included, may happen in between. A commit may take effect
although the client sees 500.

In `Operations` a client is its bearer token. A `GET` or a replay runs its
statement and is answered some time later, by when the row may have moved on;
the answer may be lost. `seen`, `granted` and `unsure` are what clients
remember of their answers.

### Registry

`Load` takes the declarations of the file one by one, with every check of
`parseDestination`, and refuses the file at the first that fails. Text is
abstract: present or blank, parsed or not, its length where a length counts.
Header maps are walked in the random order of a Go map, so that of two
spellings of one header either may win. A restart reads the same file under a
changed environment. `Create` is the insert of a task against the CHECKs of the
table: those of the first migration and the one on `concurrency_limit` that the
second adds. `TEXT` and `JSONB` refuse a zero byte besides, which YAML can write
and validation does not look for.

### Lifecycle

`Needs`, `RunsIn` and `Ready` are the role tables of `config.go`,
`bootstrap.go` and `health.go`. `Steps` is the sequence of parts in which
`RunConfigured` opens and starts what the role has and passes over what it has
not, `deferred` the stack of closes it runs in reverse,
`errors` the channel every goroutine reports to. A goroutine is idle, in a
database call (it then holds a connection of the pool) or, the worker, in the
call of a supplier. Calls fail, connections go and the signal comes at any
time; `pool.Close` refuses new queries and waits for those under way. `lost`
holds the connections the broker or the network closed, not those the process
closes itself at its end.

## 3. Runs

| Run | Instance | Shows |
|---|---|---|
| `intake` | 2 clients, 1 key, 2 contents, 2 ids, 2 attempts, 1 replay | idempotency, and all store invariants and `RowProgress` under it |
| `pipeline` | 2 workers, 1 publisher, 1 attempt, 1 replay, retention | `PendingHasWakeup`, fencing, one send per attempt, `ImplementsService` |
| `pipeline_liveness` | 1 task, 2 attempts, fairness | `EventuallySettled` |
| `stranded_task` | 1 task, delivery limit 2 | *violation* (section 6) |
| `primitives` | 3 callers with limits 1 and 2; 8 messages; 3 roles | limiter, publisher channel and supervisor, safety and liveness |
| `operations` | 1 task, 1 attempt, 2 replays, its owner and 2 administrators, 1 lost answer | `EveryGrantRevives`, `ReadsAdvance` |
| `delivery_timing` | 2 workers, 3 destinations, lease 3, 10 units of time | `OverlapNeedsStall`, `DeadOnlyWhenHopeless`, `SupplierLeftAlone` |
| `http_sender` | 2 public addresses, 1 disallowed, 2 hosts, all bodies of up to 5 bytes, cut at 4, 2 attempts | `StaysWithDestination`, `MessageIsClean` |
| `accepted_is_not_dead` | the same with valid UTF-8 of up to 6 bytes and 1 attempt | *violation* (section 6) |
| `lifecycle` | 5 roles, environment complete or one setting missing | role tables agree, reports fit, exit codes, `EndsAfterReport` |
| `drains_in_flight` | a worker process | *violation* (section 6) |
| `registry` | files of 2 out of some 120 declarations, 1 restart, 2 secrets | `ServesWholeFile`, `BudgetIsUsable`, `SameAfterRestart`, `OnlyTextsRefused` |

Bounds. Two of a kind is what a race needs: two workers, two tokens, two
clients on one key, two administrators on one task. Two attempts reach both the
retry and the exhausted branch; in `pipeline` one attempt and a replay give the
two workers two attempts to race over and the scheduler a lease to bury. Two
ids in `intake` are one before and one after retention. Three callers put one
holder and two waiters, or two holders and a waiter, on the limiter. Two
publishers, batches of two and four callers are beyond these runs. That one
publisher takes the claim of another over is therefore in no run;
`PendingHasWakeup`, which it bears on, is proved for every number of publishers,
as the other safety properties are for every number of processes (section 5).

In `delivery_timing` the unit is a quarter of a second and a duration has five
bits; the lease is one unit longer than the longest call, so that a stall of
one unit matters; the three destinations have delays that grow, a delay as long
as the lifetime, and no retry; ten units let the longest lifetime, seven, end
while a call is under way. `Retry-After` is 0 or 1 second, or 9, which five
bits hold as one second, or a date. In `http_sender` five bytes cut at four let
a character of two or three bytes, or the replacement of a byte that is in
none, be cut at every place. In `registry` every check of `parseDestination`
has declarations on both sides of it, and the limits are scaled down (a
lifetime of 6, 3 attempts, ids of 2 and URLs of 4 characters); some pass it
with a text too long, or with a zero byte in it, for the table. `lifecycle` has
the real capacity, five, and all five roles.

CHECK_DEADLOCK is FALSE where the system may rightly stop: tasks settled, a
process exited, a file refused, and the bounded ids, calls or clock used up.

## 4. Fairness

`FairPipelineSpec` assumes what loops, supervisors and clocks give:

* publisher and scheduler poll for ever and exited processes are restarted: a
  step that stays possible is taken (weak fairness of marking, of a worker's
  step, of the scheduler for each due task);
* time passes: weak fairness of the expiry of claims, leases and retry delays;
* a database or broker call that is retried for ever does not fail for ever:
  strong fairness of a successful claim, publish, receive and delivery claim.

Nothing is assumed of crashes, failures, replays, retention, the supplier's
answers or the lifetime. The supplier may answer "retryable" for ever; the
attempt budget ends it.

`LimiterFairness` is weak fairness of every runnable goroutine and of release
(the HTTP call has a timeout); nothing is assumed of cancellation or new calls.
`AppFairness` is weak fairness of the supervisor's own steps, which its
deadline never lets block; roles may go on for ever. `FairLifecycleSpec` has
weak fairness of `main`, which is blocked only by what it waits for, and of the
return of each database call, with an answer or an error; nothing is assumed of
signals, failures, the broker or the supplier.

## 5. Proofs

`NotificationStoreProofs` proves `StoreTypeOK`, `RowShape`, `EventLedger`,
`AttemptLedger`, `RetryBudget` as invariants of `StoreSpec` and the action
property `RowProgress`, for every set of ids, requests, hashes and tokens, all
batch sizes, attempt limits and replay bounds, from `MaxAttemptsAssumption`
(limits are positive), `TokenAssumption` (NULL is no token) and
`MaxReplaysAssumption`.

The inductive invariant `StoreInv` is the conjunction of the five. None is
inductive alone: that a rescheduled row's event is new follows from
`EventLedger`'s upper bound on generations; that a fresh id has neither row nor
events follows from `RetryBudget`, which ties every row to the history;
`RetryBudget` for a pending row needs `Exhausted` to have been false of a typed
row. The argument goes row by row: one lemma per SET clause (`LeasedGood`,
`SettledGood`, `AfterDueGood`, `ReplayedGood`) shows that a good row stays
good, one per statement lifts it to the tables, `LedgerExtended` moves a row to
its next generation together with its event.

The proofs about `DeliveryPipeline` hold for every set of workers, publishers,
tasks and tokens and need no further assumption.

* `DeliveryPipelineProofs`: `PipelineTypeOK`, and `PipelineSpec => StoreSpec`
  (`PipelineImplementsStore`). Each step of a process is a transaction of the
  store or leaves the tables alone (`PipelineStepOnStore`), because a process
  at a call holds a token, a message and an outcome of the right kind
  (`ProcessInv`). So `StoreInv` holds of the pipeline too (`PipelineTyped`).
* `PendingHasWakeup`, in the same module. The property alone is not inductive:
  a publisher marks an event long after its message was stored, and nothing in
  the property says that the message still waits. `WakeupInv` adds
  `MarkJustified` (the message a publisher is about to mark still waits if its
  generation is still pending) and `EventsKnown` (a publisher holds only events
  of generations the task has already had, so they cannot become the pending
  one later). A worker that uses up the message of a pending generation claims
  it or finds it no longer pending; every generation that becomes pending
  brings a new unpublished event, by `EventLedger`.
* `RefinementProofs`: `ResultIsOfLastAttempt` and `OneSendPerAttempt`.
  `FencingInv` adds what a lease token means: a worker whose token is still in
  the row has the attempt number the row counted last (`LeaseMeansLast`), every
  number held or sent was counted by the row (`AttemptsSpent`), and a result
  that is applied was answered (`ResultWasAnswered`). A claim draws a token no
  worker remembers and a number above all spent ones, which keeps the three.
* `PipelineSpec => ImplementsService`, in the same module. Every step of the
  pipeline is a step of the abstract service or is not seen by callers
  (`SameView`). A send is a fresh call within the budget by `OneSendPerAttempt`
  and `RetryBudget`, as long as a worker's number is one the abstract service
  has (`RangeInv`: replays are bounded, so numbers are); a row becomes delivered
  only after an answered call by `FencingInv`; one that is buried or reopened
  was open or dead, by the WHERE clauses.
* `BoundedRedelivery`, in the same module, at any delivery limit: the tables
  (`DroppingKeepsTables`), the fence (`DroppingKeepsFence`), one send per
  attempt (`DroppingSendsNothingTwice`) and the promises to callers
  (`DroppingImplementsService`) survive dropped messages, since a worker whose
  message is dropped forgets its claim as a crashed one does (`DropForgets`)
  and counting changes nothing else (`DropOrPipeline`). And the drop is the
  only cause of the finding `stranded_task`: while none happens,
  `PendingHasWakeup` holds (`OnlyDropsForget`).

`IntakeProofs` proves `AcceptedIsTheTask` and `AnswersAgree` for any clients,
keys, contents and ids, and `IntakeSpec => StoreSpec`. Insert and lookup are
two statements, so what justifies an answer is not what the call saw but three
facts about rows (`IntakeInv`): a key has one row at most, a row keeps key and
content, and an id that was removed never comes back. The history of 409s is
related to the rows as well, because a later 202 compares with the row.

The same module proves `ServesWholeFile`, `OnlyTextsRefused`,
`BudgetIsUsable` and `SameAfterRestart` of the registry, for files of any
length and any limits. `RegistryInv` says that the map holds exactly the
declarations read so far, each valid, under as many ids as declarations, and
that every value in it was computed from the file and not from the environment.
`DeclarationAssumption` gives the fields of a declaration their types,
`LengthsAssumption` makes the limits numbers. `BudgetIsUsable` needs what
`NextAttempt` computes for every policy that passes `RetryAllowed`.

`OperationsProofs` proves `EveryGrantRevives` and `ReadsAdvance` for any
callers, administrators and tasks, and `OperationsSpec => StoreSpec`.
`GrantInv` balances the replays of a task against the answers given, on their
way and lost; it is inductive once a running call is known to be about an
accepted task. The bearers are finitely many (`TokensAssumption`; they are
listed in the configuration), so that calls under way can be counted. A read is
two steps: `ReadInv` keeps the answer on its way later than the last one given
and earlier than the row, in an order `After` that is transitive because it
also counts replays.

`TimingProofs` proves `OverlapNeedsStall`, `DeadOnlyWhenHopeless` and the
action property `SupplierLeftAlone` for any workers, lease, destinations and
answers. A worker that has not applied its result holds the lease, or the lease
has run out by the clock (`LeaseOrLate`); since no call outlives its timeout
(`CallsInTime`), a second call at the same time shows how late the first one
was. `QuietKept` says that nothing brings a task back before the moment the
last stored result named. An answer may also get lost between the call and its
UPDATE; `HeardKept` says that then the task stays delivering until the lease of
that attempt has run out, so that the wait is cut short by nothing else.
`PoliciesAssumption` is what `parseDestination` checks, `TimingAssumption`
makes lease and header values numbers. `SupplierLeftAlone` asks nothing for a
`Retry-After` that no duration can hold (section 6); `DeadOnlyWhenHopeless`
holds for such values too, because they can only make the wait shorter.

`PrimitivesProofs` proves

* of the limiter `LimiterTypeOK`, `ActiveCountsHolders`, `NoLostWakeup` and
  `StaysWithinLimit` for every finite set of callers and all positive limits.
  `NoLostWakeup` needs two facts more: nobody sleeps before the first call has
  set a limit, and callers ask for positive limits, which `Acquire` checks;
* of the channel `ConfirmedMeansStored` and `NoAnswerLeftOver` for any number of
  messages: `ChannelInv` lists what can be on its way while a call waits, which
  is only ever the answer to that call;
* of the sender `StaysWithDestination` for any hosts, addresses, answers and
  attempts: `SenderInv` adds that a request is prepared only after fewer than
  three;
* of the sender's texts `MessageIsClean`, for bodies of any length and any bytes
  (`BodyAssumption`) and any positive limit (`LimitAssumption`). `TextInv` says
  that the text of the row and the text on its way to it are what `sanitize`
  returns, or empty; the rest is about what `sanitize` computes (below). The
  last part of the property bounds the finding of `accepted_is_not_dead`: a
  result can be refused only if its text fills the limit;
* `OnlySpoiltTextsLoseDeliveries`: if the cut spoils no answer's text
  (`NoTextSpoilt`, which holds as soon as texts stay below the limit,
  `ShortTextsUnspoilt`), then `AcceptedIsNotDead` holds. So the cut is the only
  way in which this code loses an accepted delivery.

`Sanitize` is made of two recursive functions of the position, and the prover
has no induction over data. The proof gets by with sets: a non-empty set of
numbers has a least one (`LeastNumber`, from the library's theorem that `<` is
well-founded), so a set of positions that holds the last one, and each one
behind which it holds all, holds every position (`CountDown`). By it a
definition that looks up what is behind a position defines something
(`RecursionExists`), decoding behind a printable character goes on as without
it (`CharacterKeepsValid`), and what `strings.Map` returns is printable and
valid UTF-8 for every input (`MappedIsPrintable`); the cut then leaves it as it
was or fills the limit (`SanitizeCleans`).

`LifecycleProofs` proves `OpensOnlyConfigured`, `ReadyWhenServing` and
`SuccessExplained` for any of the roles `ParseRole` knows (`RolesAssumption`)
and every environment, and `ReportsFit` for a channel with room for five, the
capacity `RunConfigured` gives it. `LifecycleInv` says that parts are started in
order and each at most once (`StartsInOrder`), so that a goroutine that has
ended is not started again and reports are at most as many as goroutines that
have ended (`OneReportEach`), why each report was made, and that before the
closes a connection is gone only if it was lost (`OpenWhileServing`): that is
what makes the worker's nil report mean a lost connection.

Only model-checked: liveness (`EventuallySettled`, `AllServed`, `RunReturns`,
`EndsAfterReport`), since fairness is out of the prover's reach. Every other
property of a passing run is a theorem.

## 6. Findings

Three runs show the program doing otherwise than its documents say. The design
document is `docs/superpowers/specs/2026-09-23-notification-service-design.md`.

* `accepted_is_not_dead` (`delivery/http_sender.go:144`): `sanitize` cuts at a
  byte after it has replaced invalid bytes. A body whose limit falls inside a
  character gives a text PostgreSQL refuses, the UPDATE with the outcome fails,
  and a task the supplier answered 2xx is delivered again or ends dead. The
  README says "HTTP `2xx` is delivered". Only a text that fills the limit is
  exposed to this, and nothing else is (section 5).
* `stranded_task` (`app/bootstrap.go:131`, `messaging/rabbitmq/topology.go:19`):
  every error of `Handle` gives the message back at once, and a quorum queue
  drops a message that came back too often (20 times by default). A short
  outage of the database then leaves a pending task with a published event and
  no message, which neither publisher nor scheduler looks for. The design
  document, line 389, promises recovery "without leaving tasks permanently
  stuck". With a queue that keeps its messages the property holds and is
  proved; with one that drops them every other promise still is (section 5).
* `drains_in_flight` (`app/bootstrap.go:158`): on a signal `RunConfigured` runs
  its closes and waits for no goroutine, so that a process exits in the middle
  of a delivery. The design document, line 280, says that it "waits for
  in-flight work up to a configured deadline". The lease recovers the task, at
  the price of a repeated call.

Met while reading, without a run of their own:

* `ScheduleDue` (`store/postgres/retry.go:81`) takes a row whose lease expired
  from `delivering` straight to `pending`; `notification.CanTransition` and
  lines 230 and 234 of the design document do not allow it. Nothing calls
  `CanTransition`.
* `NextAttempt` (`notification/retry.go:15`) compares a wait with the whole
  lifetime and not with what is left of it; line 253 of the design document
  says "within the task lifetime". A retry may be granted for a moment at which
  the scheduler can only bury the task; `DeadOnlyWhenHopeless` shows that the
  error is only in this direction.
* `parseRetryAfter` (`delivery/http_sender.go:127`) multiplies seconds into a
  64-bit duration that wraps: the header then counts as a shorter wait or as
  absent, and the supplier is called before the moment it named. Line 84 of the
  README says "an explicit supplier `Retry-After` value is honored".
* `CheckRedirect` (`delivery/http_sender.go:66`) follows every same-host
  redirect, as a GET where net/http turns it into one; line 182 of the design
  document has redirects disabled unless a destination allows them.
* `parseDestination` (`destination/validate.go:18`) does not bound the length
  of id and URL, and lets a zero byte in id, header names and header values
  pass; the table takes neither: every request for such a destination is
  answered 500. `OnlyTextsRefused` shows that these are the only disagreements.
* A replay discards the administrator's identity, and no audit record is
  written; line 166 of the design document asks for one.

## 7. Not modelled

* The request hash (`notification/hash.go`): a pure conversion to canonical
  JSON and SHA-256; distinct contents are distinct `Hash` values.
* JSON decoding and encoding, routing beyond who may call what, metrics and
  logs: stateless, or read by no decision.
* The consumer sets no prefetch limit and may be handed the whole backlog: a
  matter of throughput; in `DeliveryPipeline` messages are handed out one by
  one and no property depends on who holds them.
* Proxies, TLS and the connection pool of net/http.
* `NewRegistry`, `CanTransition`, `ScheduleRetry`: called by tests at most.
  `ReplayDead` appears as a mutant of `ReplayDeadAtomic`.
* Test doubles, container and migration tooling.

## 8. Plan

1. `NotificationStore`, proofs: done.
2. `DeliveryPipeline`, refinement of `StoreSpec`, safety, liveness, proofs: done.
3. `Limiter` with proofs, `PublisherChannel`, `Intake`: done.
4. `RetryPolicy`, `DeliveryTiming`, `HTTPSender`, `Diagnostics`: done.
5. `Lifecycle`, `AppRun`, `Registry`, `Operations`: done.
6. `NotificationService` and the refinement: done.
7. Proofs of every safety property and refinement that a run checks: done.
8. Proofs that the causes of `stranded_task` and `accepted_is_not_dead` are the
   only ones, and that no other promise falls with them: done.
