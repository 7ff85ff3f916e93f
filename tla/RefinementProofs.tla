-------------------------- MODULE RefinementProofs --------------------------
(***************************************************************************)
(* Proof that late results are fenced off (ResultIsOfLastAttempt), that an *)
(* attempt is sent at most once (OneSendPerAttempt) and, resting on both,  *)
(* that the pipeline implements the abstract service, for any number of    *)
(* workers, tasks, tokens and attempts.                                    *)
(*                                                                         *)
(* The fence rests on what a worker's lease token means: a worker whose    *)
(* token is still in the row has the attempt number the row counted last,  *)
(* and no worker and no send has a higher one. A new claim draws a token   *)
(* that no worker remembers, so it takes this away from everyone else.     *)
(*                                                                         *)
(* All of this holds over a broker that drops a message that came back too *)
(* often, too: nothing but the wake-up is lost with it.                    *)
(***************************************************************************)
EXTENDS DeliveryPipelineProofs, PipelineRefinement, BoundedRedelivery

Busy(w) == worker[w].pc \in {"send", "apply"}

(* A number that was counted by the row of id while it existed. *)
Spent(id, attempt) ==
    /\ id \in DOMAIN replays
    /\ id \in DOMAIN tasks => attempt \in 1 .. tasks[id].attempts

AttemptsSpent ==
    /\ \A w \in Worker, id \in Notification :
          Busy(w) /\ worker[w].message[1] = id => Spent(id, worker[w].attempt)
    /\ \A s \in sends : Spent(s.id, s.attempt)

LeaseMeansLast ==
    \A w \in Worker, id \in Notification :
        Busy(w) /\ worker[w].message[1] = id /\ LeaseStillHeld(id, worker[w].token)
            => worker[w].attempt = tasks[id].attempts

(* A result other than "dead" was answered by the supplier. *)
ResultWasAnswered ==
    \A w \in Worker :
        worker[w].pc = "apply" /\ worker[w].outcome \in {"delivered", "retryable"} =>
            [id |-> worker[w].message[1], attempt |-> worker[w].attempt,
             outcome |-> worker[w].outcome] \in sends

FencingInv ==
    /\ AttemptsSpent
    /\ LeaseMeansLast
    /\ ResultWasAnswered
    /\ ResultIsOfLastAttempt
    /\ OneSendPerAttempt

-----------------------------------------------------------------------------
(* The store. *)

(* What was spent stays spent. *)
LEMMA SpentStays ==
    ASSUME StoreInv, [StoreNext]_storeVars, NEW id, NEW attempt \in Nat, Spent(id, attempt)
    PROVE  Spent(id, attempt)'
  <1>1. id \in DOMAIN replays' /\ (id \in DOMAIN tasks' => id \in DOMAIN tasks)
    BY RemovedForGood DEF Spent
  <1>2. ASSUME id \in DOMAIN tasks' PROVE attempt \in 1 .. tasks'[id].attempts
    <2>1. id \in DOMAIN tasks /\ attempt \in 1 .. tasks[id].attempts
      BY <1>1, <1>2 DEF Spent
    <2>2. tasks[id].attempts <= tasks'[id].attempts
      BY <1>2, <2>1, CountersGrow
    <2>3. tasks[id].attempts \in Nat /\ tasks'[id].attempts \in Nat
      BY <1>2, <2>1, StoreNextInv DEF StoreInv, StoreTypeOK, TaskRow
    <2> QED
      BY <2>1, <2>2, <2>3
  <1> QED
    BY <1>1, <1>2 DEF Spent

Reported == {"delivering", "retry_wait", "delivered"}

(* A row keeps status, attempt and token. *)
SameDelivery(id) ==
    /\ id \in DOMAIN tasks
    /\ tasks'[id].status = tasks[id].status
    /\ tasks'[id].attempts = tasks[id].attempts
    /\ tasks'[id].leaseToken = tasks[id].leaseToken

(* Intake, scheduler, replay, retention and time put no row into a state   *)
(* of delivery.                                                            *)
LEMMA EnvironmentReportsNothing ==
    ASSUME StoreInv, Environment, NEW id \in DOMAIN tasks', tasks'[id].status \in Reported
    PROVE  SameDelivery(id)
  <1>1. CASE \E i \in Notification, request \in Request, hash \in Hash,
                max \in MaxAttemptsValues : CreateNotification(i, request, hash, max)
    BY <1>1 DEF CreateNotification, NewTask, Reported, SameDelivery
  <1>2. CASE \E batch \in (SUBSET DOMAIN tasks) \ {{}} : ScheduleDue(batch)
    <2>1. PICK batch \in SUBSET DOMAIN tasks : ScheduleDue(batch)
      BY <1>2
    <2>2. id \in DOMAIN tasks /\ tasks'[id] = IF id \in batch THEN AfterDue(tasks[id])
                                              ELSE tasks[id]
      BY <2>1 DEF ScheduleDue
    <2>3. tasks[id] \in TaskRow
      BY <2>2 DEF StoreInv, StoreTypeOK
    <2>4. AfterDue(tasks[id]).status \notin Reported
      BY <2>3 DEF AfterDue, Buried, Rescheduled, TaskRow, Reported
    <2> QED
      BY <2>2, <2>4 DEF SameDelivery
  <1>3. CASE \E i \in DOMAIN tasks : ReplayDeadAtomic(i)
    <2>1. PICK i \in DOMAIN tasks : ReplayDeadAtomic(i)
      BY <1>3
    <2>2. id \in DOMAIN tasks /\ tasks'[id] = IF id = i THEN Replayed(tasks[id]) ELSE tasks[id]
      BY <2>1 DEF ReplayDeadAtomic
    <2>3. tasks[id] \in TaskRow
      BY <2>2 DEF StoreInv, StoreTypeOK
    <2>4. Replayed(tasks[id]).status \notin Reported
      BY <2>3 DEF Replayed, TaskRow, Reported
    <2> QED
      BY <2>2, <2>4 DEF SameDelivery
  <1>4. CASE \/ \E batch \in (SUBSET DOMAIN tasks) \ {{}} : DeleteTerminalBefore(batch)
             \/ \E k \in DOMAIN outbox : ClaimElapses(k)
    BY <1>4 DEF DeleteTerminalBefore, ClaimElapses, SameDelivery
  <1>5. CASE \E i \in DOMAIN tasks :
                LeaseElapses(i) \/ RetryFallsDue(i) \/ LifetimeElapses(i) \/ RowAges(i)
    <2>1. id \in DOMAIN tasks
      BY <1>5 DEF LeaseElapses, RetryFallsDue, LifetimeElapses, RowAges
    <2>2. tasks[id] \in TaskRow
      BY <2>1 DEF StoreInv, StoreTypeOK
    <2> QED
      BY <1>5, <2>1, <2>2
      DEF LeaseElapses, RetryFallsDue, LifetimeElapses, RowAges, TaskRow, SameDelivery
  <1> QED
    BY <1>1, <1>2, <1>3, <1>4, <1>5 DEF Environment, TimePasses

(* A publisher never writes to the tasks. *)
LEMMA PublisherReportsNothing ==
    ASSUME NEW p \in Publisher, PublisherStep(p)
    PROVE  tasks' = tasks /\ worker' = worker /\ sends' = sends
  BY DEF PublisherStep, ClaimBatch, ClaimBatchLost, PublishConfirmed, PublishFails, MarkEvent,
         MarkEventFails, CrashPublisher, ClaimOutbox, MarkPublished, storeVars

-----------------------------------------------------------------------------
(* Steps that leave workers and sends alone. *)

(* They cannot break the fence. *)
LEMMA QuietStep ==
    ASSUME StoreInv, ProcessInv, FencingInv, [StoreNext]_storeVars,
           worker' = worker, sends' = sends,
           \A id \in DOMAIN tasks' : tasks'[id].status \in Reported => SameDelivery(id)
    PROVE  FencingInv'
  <1>1. AttemptsSpent'
    <2>1. ASSUME NEW w \in Worker, NEW id \in Notification, Busy(w), worker[w].message[1] = id
          PROVE  Spent(id, worker[w].attempt)'
      <3>1. PICK attempt \in Nat : attempt = worker[w].attempt
        BY DEF ProcessInv, WorkersGood, WorkerState
      <3>2. Spent(id, attempt)
        BY <2>1, <3>1 DEF FencingInv, AttemptsSpent
      <3>3. Spent(id, attempt)'
        BY <3>1, <3>2, SpentStays
      <3> QED
        BY <3>1, <3>3 DEF Spent
    <2>2. ASSUME NEW s \in sends PROVE Spent(s.id, s.attempt)'
      BY <2>2, SpentStays DEF FencingInv, AttemptsSpent, ProcessInv, GoodSends
    <2> QED
      BY <2>1, <2>2 DEF AttemptsSpent, Busy
  <1>2. LeaseMeansLast'
    <2>1. ASSUME NEW id \in DOMAIN tasks', tasks'[id].status = "delivering"
          PROVE  SameDelivery(id)
      BY <2>1 DEF Reported
    <2> QED
      BY <2>1 DEF FencingInv, LeaseMeansLast, LeaseStillHeld, SameDelivery, Busy
  <1>3. ResultWasAnswered'
    BY DEF FencingInv, ResultWasAnswered
  <1>4. ResultIsOfLastAttempt'
    <2>1. ASSUME NEW id \in DOMAIN tasks', tasks'[id].status \in {"retry_wait", "delivered"}
          PROVE  SameDelivery(id)
      BY <2>1 DEF Reported
    <2> QED
      BY <2>1 DEF FencingInv, ResultIsOfLastAttempt, SameDelivery
  <1>5. OneSendPerAttempt'
    <2>1. \A s \in sends' : s.id \in DOMAIN tasks' => s.attempt \in 1 .. tasks'[s.id].attempts
      BY <1>1 DEF AttemptsSpent, Spent
    <2> QED
      BY <2>1 DEF FencingInv, OneSendPerAttempt
  <1> QED
    BY <1>1, <1>2, <1>3, <1>4, <1>5 DEF FencingInv

-----------------------------------------------------------------------------
(* Steps of a worker. *)

(* What the sends and the other workers spent stays spent. *)
LEMMA OthersStaySpent ==
    ASSUME StoreInv, ProcessInv, FencingInv, [StoreNext]_storeVars
    PROVE  /\ \A v \in Worker : worker'[v] = worker[v] =>
                 \A id \in Notification :
                    Busy(v)' /\ worker'[v].message[1] = id => Spent(id, worker[v].attempt)'
           /\ \A s \in sends : Spent(s.id, s.attempt)'
  <1>1. ASSUME NEW v \in Worker, worker'[v] = worker[v], NEW id \in Notification,
               Busy(v)', worker'[v].message[1] = id
        PROVE  Spent(id, worker[v].attempt)'
    <2>1. PICK attempt \in Nat : attempt = worker[v].attempt
      BY DEF ProcessInv, WorkersGood, WorkerState
    <2>2. Busy(v)
      BY <1>1 DEF Busy
    <2>3. Spent(id, attempt)
      BY <1>1, <2>1, <2>2 DEF FencingInv, AttemptsSpent
    <2>4. Spent(id, attempt)'
      BY <2>1, <2>3, SpentStays
    <2> QED
      BY <1>1, <2>1, <2>4 DEF Spent
  <1>2. ASSUME NEW s \in sends PROVE Spent(s.id, s.attempt)'
    BY <1>2, SpentStays DEF FencingInv, AttemptsSpent, ProcessInv, GoodSends
  <1> QED
    BY <1>1, <1>2

(* A worker that gives up its claim leaves the others fenced off, provided *)
(* every row still being delivered is so under its old or under a new      *)
(* token.                                                                  *)
LEMMA WorkerGivesUp ==
    ASSUME StoreInv, ProcessInv, FencingInv, [StoreNext]_storeVars,
           NEW w \in Worker, NEW state, state.pc \notin {"send", "apply"},
           worker' = [worker EXCEPT ![w] = state], sends' = sends,
           ResultIsOfLastAttempt',
           \A id \in DOMAIN tasks' : tasks'[id].status = "delivering" =>
               SameDelivery(id) \/ tasks'[id].leaseToken \in FreshLeaseTokens
    PROVE  FencingInv'
  <1>0. /\ worker'[w] = state
        /\ \A v \in Worker \ {w} : worker'[v] = worker[v]
        /\ ~Busy(w)'
    BY DEF ProcessInv, WorkersGood, Busy
  <1>1. AttemptsSpent'
    BY <1>0, OthersStaySpent DEF AttemptsSpent, Spent
  <1>2. LeaseMeansLast'
    <2>1. ASSUME NEW v \in Worker, NEW id \in Notification, Busy(v)',
                 worker'[v].message[1] = id, id \in DOMAIN tasks',
                 tasks'[id].status = "delivering", tasks'[id].leaseToken = worker'[v].token
          PROVE  worker'[v].attempt = tasks'[id].attempts
      <3>1. v # w /\ worker'[v] = worker[v] /\ Busy(v)
        BY <1>0, <2>1 DEF Busy
      <3>2. tasks'[id].leaseToken \notin FreshLeaseTokens
        BY <2>1, <3>1 DEF FreshLeaseTokens
      <3>3. SameDelivery(id)
        BY <2>1, <3>2
      <3>4. LeaseStillHeld(id, worker[v].token)
        BY <2>1, <3>1, <3>3 DEF SameDelivery, LeaseStillHeld
      <3>5. worker[v].attempt = tasks[id].attempts
        BY <2>1, <3>1, <3>4 DEF FencingInv, LeaseMeansLast
      <3> QED
        BY <3>1, <3>3, <3>5 DEF SameDelivery
    <2> QED
      BY <2>1 DEF LeaseMeansLast, LeaseStillHeld
  <1>3. ResultWasAnswered'
    <2>1. ASSUME NEW v \in Worker, worker'[v].pc = "apply"
          PROVE  worker'[v] = worker[v]
      BY <1>0, <2>1 DEF Busy
    <2> QED
      BY <2>1 DEF FencingInv, ResultWasAnswered
  <1>4. OneSendPerAttempt'
    <2>1. \A s \in sends' : s.id \in DOMAIN tasks' => s.attempt \in 1 .. tasks'[s.id].attempts
      BY <1>1 DEF AttemptsSpent, Spent
    <2>2. ASSUME NEW v \in Worker, worker'[v].pc = "send"
          PROVE  worker'[v] = worker[v]
      BY <1>0, <2>2 DEF Busy
    <2> QED
      BY <2>1, <2>2 DEF FencingInv, OneSendPerAttempt
  <1> QED
    BY <1>1, <1>2, <1>3, <1>4 DEF FencingInv

(* Receiving a message, and giving up without a call of the store. *)
LEMMA HandOver ==
    ASSUME StoreInv, ProcessInv, FencingInv, NEW w \in Worker,
           \/ \E m \in DOMAIN ready : Receive(w, m)
           \/ ClaimNotAcquired(w) \/ AcquireCancelled(w) \/ CrashWorker(w)
    PROVE  FencingInv'
  <1>1. storeVars' = storeVars /\ tasks' = tasks /\ sends' = sends
    BY DEF Receive, ClaimNotAcquired, AcquireCancelled, CrashWorker, storeVars
  <1>2. PICK state : state.pc \notin {"send", "apply"} /\ worker' = [worker EXCEPT ![w] = state]
    <2>1. CASE \E m \in DOMAIN ready : Receive(w, m)
      <3>1. PICK m \in DOMAIN ready : Receive(w, m)
        BY <2>1
      <3>2. worker' = [worker EXCEPT ![w] = [worker[w] EXCEPT !.pc = "claim", !.message = m]]
        BY <3>1 DEF Receive, ProcessInv, WorkersGood
      <3>3. [worker[w] EXCEPT !.pc = "claim", !.message = m].pc = "claim"
        BY DEF ProcessInv, WorkersGood, WorkerState
      <3> QED
        BY <3>2, <3>3
    <2>2. CASE ClaimNotAcquired(w) \/ AcquireCancelled(w) \/ CrashWorker(w)
      BY <2>2 DEF ClaimNotAcquired, AcquireCancelled, CrashWorker, Ack, Requeue, IdleWorker
    <2> QED
      BY <2>1, <2>2
  <1>3. ResultIsOfLastAttempt'
    BY <1>1 DEF FencingInv, ResultIsOfLastAttempt
  <1>4. \A id \in DOMAIN tasks' : SameDelivery(id)
    BY <1>1 DEF SameDelivery
  <1> QED
    BY <1>1, <1>2, <1>3, <1>4, WorkerGivesUp

(* What the store's claim does to the rows. *)
LEMMA ClaimedRow ==
    ASSUME StoreInv, NEW id, NEW token, ClaimDelivery(id, token)
    PROVE  /\ DOMAIN tasks' = DOMAIN tasks /\ id \in DOMAIN tasks
           /\ replays' = replays /\ id \in DOMAIN replays
           /\ tasks[id].attempts \in Nat
           /\ tasks'[id].status = "delivering" /\ tasks'[id].leaseToken = token
           /\ tasks'[id].attempts = tasks[id].attempts + 1
           /\ \A i \in DOMAIN tasks \ {id} : tasks'[i] = tasks[i]
  <1>1. id \in DOMAIN tasks /\ tasks[id] \in TaskRow /\ id \in DOMAIN replays
    BY DEF ClaimDelivery, StoreInv, StoreTypeOK, RetryBudget
  <1>2. tasks' = [tasks EXCEPT ![id] = Leased(tasks[id], token)] /\ replays' = replays
    BY DEF ClaimDelivery
  <1>3. /\ Leased(tasks[id], token).status = "delivering"
        /\ Leased(tasks[id], token).leaseToken = token
        /\ Leased(tasks[id], token).attempts = tasks[id].attempts + 1
        /\ tasks[id].attempts \in Nat
    BY <1>1 DEF Leased, TaskRow
  <1>4. tasks'[id] = Leased(tasks[id], token)
    BY <1>1, <1>2
  <1> QED
    BY <1>1, <1>2, <1>3, <1>4

(* A claim puts no result into a row. *)
LEMMA ClaimReportsNothing ==
    ASSUME StoreInv, FencingInv, NEW id, NEW token, ClaimDelivery(id, token), sends \subseteq sends'
    PROVE  ResultIsOfLastAttempt'
  BY ClaimedRow DEF FencingInv, ResultIsOfLastAttempt

(* A claim whose answer is lost leaves the row under a token no worker has. *)
LEMMA ClaimLost ==
    ASSUME StoreInv, ProcessInv, FencingInv, NEW w \in Worker, ClaimTaskFails(w),
           [StoreNext]_storeVars
    PROVE  FencingInv'
  <1>1. /\ worker' = [worker EXCEPT ![w] = IdleWorker] /\ sends' = sends
        /\ IdleWorker.pc \notin {"send", "apply"}
    BY DEF ClaimTaskFails, Requeue, IdleWorker
  <1>2. CASE UNCHANGED storeVars
    <2>1. tasks' = tasks
      BY <1>2 DEF storeVars
    <2>2. ResultIsOfLastAttempt' /\ \A id \in DOMAIN tasks' : SameDelivery(id)
      BY <1>1, <2>1 DEF FencingInv, ResultIsOfLastAttempt, SameDelivery
    <2> QED
      BY <1>1, <2>2, WorkerGivesUp
  <1>3. CASE FreshLeaseTokens # {} /\ ClaimDelivery(worker[w].message[1], NewLeaseToken)
    <2>1. PICK id, token : /\ id = worker[w].message[1] /\ token = NewLeaseToken
                           /\ ClaimDelivery(id, token) /\ token \in FreshLeaseTokens
      BY <1>3, LeaseTokenDrawn
    <2>2. ResultIsOfLastAttempt'
      BY <1>1, <2>1, ClaimReportsNothing
    <2>3. \A i \in DOMAIN tasks' : SameDelivery(i) \/ tasks'[i].leaseToken \in FreshLeaseTokens
      BY <2>1, ClaimedRow DEF SameDelivery
    <2> QED
      BY <1>1, <2>2, <2>3, WorkerGivesUp
  <1> QED
    BY <1>2, <1>3 DEF ClaimTaskFails

(* ApplyDeliveryResult settles the attempt the row counts last, with what  *)
(* the supplier answered to it.                                            *)
LEMMA ResultApplied ==
    ASSUME StoreInv, ProcessInv, FencingInv, NEW w \in Worker, worker[w].pc = "apply",
           ApplyDeliveryResult(worker[w].message[1], worker[w].token, worker[w].outcome),
           sends' = sends
    PROVE  /\ ResultIsOfLastAttempt'
           /\ \A id \in DOMAIN tasks' : tasks'[id].status = "delivering" => SameDelivery(id)
  <1> DEFINE id == worker[w].message[1]
             row == Settled(tasks[id], worker[w].outcome)
             answer(outcome) == [id |-> id, attempt |-> tasks[id].attempts, outcome |-> outcome]
  <1>1. LeaseStillHeld(id, worker[w].token) /\ tasks' = [tasks EXCEPT ![id] = row]
    BY DEF ApplyDeliveryResult
  <1>2. id \in DOMAIN tasks /\ tasks[id] \in TaskRow /\ id \in Notification
    BY <1>1 DEF LeaseStillHeld, StoreInv, StoreTypeOK
  <1>3. worker[w].attempt = tasks[id].attempts
    BY <1>1, <1>2 DEF FencingInv, LeaseMeansLast, Busy
  <1>4. worker[w].outcome \in Outcome
    BY DEF ProcessInv, WorkersGood, GoodWorker
  <1>5. /\ row.attempts = tasks[id].attempts /\ row.status # "delivering"
        /\ row.status = "delivered" => worker[w].outcome = "delivered"
        /\ row.status = "retry_wait" => worker[w].outcome = "retryable"
    BY <1>2, <1>4 DEF Settled, StatusAfter, TaskRow, Outcome
  <1>6. worker[w].outcome \in {"delivered", "retryable"} => answer(worker[w].outcome) \in sends
    BY <1>3 DEF FencingInv, ResultWasAnswered
  <1>7. /\ row.status = "delivered" => answer("delivered") \in sends
        /\ row.status = "retry_wait" => answer("retryable") \in sends
    BY <1>5, <1>6
  <1>8. DOMAIN tasks' = DOMAIN tasks /\ tasks'[id] = row
    BY <1>1, <1>2
  <1>9. \A i \in DOMAIN tasks \ {id} : tasks'[i] = tasks[i]
    BY <1>1, <1>2
  <1>10. ResultIsOfLastAttempt'
    <2>1. ASSUME NEW i \in DOMAIN tasks'
          PROVE  /\ tasks'[i].status = "delivered" =>
                       [id |-> i, attempt |-> tasks'[i].attempts, outcome |-> "delivered"] \in sends
                 /\ tasks'[i].status = "retry_wait" =>
                       [id |-> i, attempt |-> tasks'[i].attempts, outcome |-> "retryable"] \in sends
      <3>1. CASE i = id
        BY <1>5, <1>7, <1>8, <3>1
      <3>2. CASE i # id
        BY <1>8, <1>9, <2>1, <3>2 DEF FencingInv, ResultIsOfLastAttempt
      <3> QED
        BY <3>1, <3>2
    <2> QED
      BY <2>1 DEF ResultIsOfLastAttempt
  <1>11. ASSUME NEW i \in DOMAIN tasks', tasks'[i].status = "delivering" PROVE SameDelivery(i)
    <2>1. i # id /\ i \in DOMAIN tasks /\ tasks'[i] = tasks[i]
      BY <1>5, <1>8, <1>9, <1>11
    <2> QED
      BY <2>1 DEF SameDelivery
  <1> QED
    BY <1>10, <1>11

(* Handle reports its result, or finds that its lease is gone. *)
LEMMA ResultReported ==
    ASSUME StoreInv, ProcessInv, FencingInv, NEW w \in Worker,
           ApplyResult(w) \/ ApplyResultFails(w), [StoreNext]_storeVars
    PROVE  FencingInv'
  <1>1. /\ worker' = [worker EXCEPT ![w] = IdleWorker] /\ sends' = sends
        /\ IdleWorker.pc \notin {"send", "apply"} /\ worker[w].pc = "apply"
    BY DEF ApplyResult, ApplyResultFails, Ack, Requeue, IdleWorker
  <1>2. CASE UNCHANGED storeVars
    <2>1. tasks' = tasks
      BY <1>2 DEF storeVars
    <2>2. ResultIsOfLastAttempt' /\ \A id \in DOMAIN tasks' : SameDelivery(id)
      BY <1>1, <2>1 DEF FencingInv, ResultIsOfLastAttempt, SameDelivery
    <2> QED
      BY <1>1, <2>2, WorkerGivesUp
  <1>3. CASE ApplyDeliveryResult(worker[w].message[1], worker[w].token, worker[w].outcome)
    BY <1>1, <1>3, ResultApplied, WorkerGivesUp
  <1> QED
    BY <1>2, <1>3 DEF ApplyResult, ApplyResultFails

(* A claim takes the fence over: its token is new to every worker and its  *)
(* attempt number is above every one spent so far.                         *)
LEMMA ClaimWon ==
    ASSUME StoreInv, ProcessInv, FencingInv, NEW w \in Worker, ClaimTask(w),
           [StoreNext]_storeVars
    PROVE  FencingInv'
  <1>1. PICK id, token : /\ id = worker[w].message[1] /\ token = NewLeaseToken
                         /\ ClaimDelivery(id, token) /\ token \in FreshLeaseTokens
    BY LeaseTokenDrawn DEF ClaimTask
  <1>2. PICK attempt : attempt = tasks[id].attempts + 1
    OBVIOUS
  <1>3. /\ DOMAIN tasks' = DOMAIN tasks /\ id \in DOMAIN tasks
        /\ replays' = replays /\ id \in DOMAIN replays
        /\ tasks[id].attempts \in Nat /\ attempt \in Nat
        /\ tasks'[id].status = "delivering" /\ tasks'[id].leaseToken = token
        /\ tasks'[id].attempts = attempt
        /\ \A i \in DOMAIN tasks \ {id} : tasks'[i] = tasks[i]
    BY <1>1, <1>2, ClaimedRow
  <1>4. id \in Notification
    BY <1>3 DEF StoreInv, StoreTypeOK
  <1>5. /\ worker'[w].pc = "send" /\ worker'[w].message[1] = id
        /\ worker'[w].token = token /\ worker'[w].attempt = attempt
        /\ \A v \in Worker \ {w} : worker'[v] = worker[v]
        /\ sends' = sends
    BY <1>1, <1>2 DEF ClaimTask, ProcessInv, WorkersGood, WorkerState
  <1>6. AttemptsSpent'
    <2>1. (id \in DOMAIN replays) /\ attempt \in 1 .. tasks'[id].attempts
      BY <1>2, <1>3
    <2>2. ASSUME NEW v \in Worker, NEW i \in Notification, Busy(v)', worker'[v].message[1] = i
          PROVE  Spent(i, worker[v].attempt)'
      <3>1. CASE v = w
        BY <1>3, <1>5, <2>1, <2>2, <3>1 DEF Spent
      <3>2. CASE v # w
        BY <1>5, <2>2, <3>2, OthersStaySpent
      <3> QED
        BY <3>1, <3>2
    <2> QED
      BY <1>5, <2>2, OthersStaySpent DEF AttemptsSpent, Spent
  <1>7. LeaseMeansLast'
    <2>1. ASSUME NEW v \in Worker, NEW i \in Notification, Busy(v)',
                 worker'[v].message[1] = i, i \in DOMAIN tasks',
                 tasks'[i].status = "delivering", tasks'[i].leaseToken = worker'[v].token
          PROVE  worker'[v].attempt = tasks'[i].attempts
      <3>1. CASE v = w
        BY <1>3, <1>5, <2>1, <3>1
      <3>2. CASE v # w
        <4>1. worker'[v] = worker[v] /\ Busy(v)
          BY <1>5, <2>1, <3>2 DEF Busy
        <4>2. i # id
          BY <1>1, <1>3, <2>1, <4>1 DEF FreshLeaseTokens
        <4>3. i \in DOMAIN tasks /\ tasks'[i] = tasks[i]
          BY <1>3, <2>1, <4>2
        <4> QED
          BY <2>1, <4>1, <4>3 DEF FencingInv, LeaseMeansLast, LeaseStillHeld
      <3> QED
        BY <3>1, <3>2
    <2> QED
      BY <2>1 DEF LeaseMeansLast, LeaseStillHeld
  <1>8. ResultWasAnswered'
    <2>1. ASSUME NEW v \in Worker, worker'[v].pc = "apply"
          PROVE  worker'[v] = worker[v]
      BY <1>5, <2>1
    <2> QED
      BY <1>5, <2>1 DEF FencingInv, ResultWasAnswered
  <1>9. ResultIsOfLastAttempt'
    BY <1>1, <1>5, ClaimReportsNothing
  <1>10. OneSendPerAttempt'
    <2>1. \A s \in sends : s.id = id => s.attempt # attempt
      BY <1>2, <1>3 DEF FencingInv, AttemptsSpent, Spent
    <2>2. ASSUME NEW v \in Worker \ {w}, worker[v].pc = "send", worker[v].message[1] = id
          PROVE  worker[v].attempt # attempt
      <3>1. worker[v].attempt \in 1 .. tasks[id].attempts
        BY <1>3, <1>4, <2>2 DEF FencingInv, AttemptsSpent, Spent, Busy
      <3> QED
        BY <1>2, <1>3, <3>1
    <2>3. \A s \in sends' : s.id \in DOMAIN tasks' => s.attempt \in 1 .. tasks'[s.id].attempts
      BY <1>6 DEF AttemptsSpent, Spent
    <2>4. \A v \in Worker : worker'[v].pc = "send" =>
             \A s \in sends' : ~(s.id = worker'[v].message[1] /\ s.attempt = worker'[v].attempt)
      BY <1>5, <2>1 DEF FencingInv, OneSendPerAttempt
    <2>5. \A u, v \in Worker :
             /\ u # v
             /\ worker'[u].pc = "send"
             /\ worker'[v].pc = "send"
             /\ worker'[u].message[1] = worker'[v].message[1]
             => worker'[u].attempt # worker'[v].attempt
      BY <1>5, <2>2 DEF FencingInv, OneSendPerAttempt
    <2> QED
      BY <2>3, <2>4, <2>5 DEF OneSendPerAttempt
  <1> QED
    BY <1>6, <1>7, <1>8, <1>9, <1>10 DEF FencingInv

(* The call of the supplier uses its attempt number up. *)
LEMMA AttemptSent ==
    ASSUME StoreInv, ProcessInv, FencingInv, NEW w \in Worker, Send(w), [StoreNext]_storeVars
    PROVE  FencingInv'
  <1>1. PICK id, attempt : id = worker[w].message[1] /\ attempt = worker[w].attempt
    OBVIOUS
  <1>2. PICK outcome \in Outcome, applied \in Outcome :
           /\ applied \in AppliedOutcomes(outcome, attempt, worker[w].max)
           /\ sends' = sends \cup {[id |-> id, attempt |-> attempt, outcome |-> outcome]}
           /\ worker' = [worker EXCEPT ![w].pc = "apply", ![w].outcome = applied]
    BY <1>1 DEF Send, AppliedOutcomes, Outcome
  <1>3. applied \in {"delivered", "retryable"} => applied = outcome
    BY <1>2 DEF AppliedOutcomes
  <1>4. tasks' = tasks /\ replays' = replays /\ worker[w].pc = "send"
    BY DEF Send, storeVars
  <1>5. /\ worker'[w].pc = "apply" /\ worker'[w].message = worker[w].message
        /\ worker'[w].attempt = attempt /\ worker'[w].token = worker[w].token
        /\ worker'[w].outcome = applied
        /\ \A v \in Worker \ {w} : worker'[v] = worker[v]
    BY <1>1, <1>2 DEF ProcessInv, WorkersGood, WorkerState
  <1>6. id \in Notification /\ Spent(id, attempt)
    BY <1>1, <1>4 DEF ProcessInv, WorkersGood, GoodWorker, Message, FencingInv, AttemptsSpent, Busy
  <1>7. AttemptsSpent'
    <2>1. \A s \in sends' : s.id \in DOMAIN replays /\
             (s.id \in DOMAIN tasks => s.attempt \in 1 .. tasks[s.id].attempts)
      BY <1>2, <1>6 DEF FencingInv, AttemptsSpent, Spent
    <2>2. ASSUME NEW v \in Worker, NEW i \in Notification, Busy(v)', worker'[v].message[1] = i
          PROVE  /\ i \in DOMAIN replays
                 /\ i \in DOMAIN tasks => worker'[v].attempt \in 1 .. tasks[i].attempts
      <3>1. CASE v = w
        BY <1>1, <1>5, <1>6, <2>2, <3>1 DEF Spent
      <3>2. CASE v # w
        BY <1>5, <2>2, <3>2 DEF FencingInv, AttemptsSpent, Spent, Busy
      <3> QED
        BY <3>1, <3>2
    <2> QED
      BY <1>4, <2>1, <2>2 DEF AttemptsSpent, Spent
  <1>8. LeaseMeansLast'
    <2>1. ASSUME NEW v \in Worker, Busy(v)'
          PROVE  /\ Busy(v) /\ worker'[v].message = worker[v].message
                 /\ worker'[v].token = worker[v].token /\ worker'[v].attempt = worker[v].attempt
      BY <1>1, <1>4, <1>5, <2>1 DEF Busy
    <2> QED
      BY <1>4, <2>1 DEF FencingInv, LeaseMeansLast, LeaseStillHeld
  <1>9. ResultWasAnswered'
    <2>1. applied \in {"delivered", "retryable"} =>
             [id |-> id, attempt |-> attempt, outcome |-> applied] \in sends'
      BY <1>2, <1>3
    <2>2. ASSUME NEW v \in Worker, worker'[v].pc = "apply",
                 worker'[v].outcome \in {"delivered", "retryable"}
          PROVE  [id |-> worker'[v].message[1], attempt |-> worker'[v].attempt,
                  outcome |-> worker'[v].outcome] \in sends'
      <3>1. CASE v = w
        BY <1>1, <1>5, <2>1, <2>2, <3>1
      <3>2. CASE v # w
        <4>1. worker'[v] = worker[v] /\ sends \subseteq sends'
          BY <1>2, <1>5, <3>2
        <4>2. [id |-> worker[v].message[1], attempt |-> worker[v].attempt,
               outcome |-> worker[v].outcome] \in sends
          BY <2>2, <4>1 DEF FencingInv, ResultWasAnswered
        <4> QED
          BY <4>1, <4>2
      <3> QED
        BY <3>1, <3>2
    <2> QED
      BY <2>2 DEF ResultWasAnswered
  <1>10. ResultIsOfLastAttempt'
    BY <1>2, <1>4 DEF FencingInv, ResultIsOfLastAttempt
  <1>11. OneSendPerAttempt'
    <2>1. \A s \in sends' : s.id \in DOMAIN tasks' => s.attempt \in 1 .. tasks'[s.id].attempts
      BY <1>7 DEF AttemptsSpent, Spent
    <2>2. ASSUME NEW v \in Worker, worker'[v].pc = "send"
          PROVE  v # w /\ worker'[v] = worker[v]
      BY <1>5, <2>2
    <2>3. \A v \in Worker : worker'[v].pc = "send" =>
             \A s \in sends' : ~(s.id = worker'[v].message[1] /\ s.attempt = worker'[v].attempt)
      <3>1. ASSUME NEW v \in Worker, worker'[v].pc = "send", NEW s \in sends',
                   s.id = worker'[v].message[1], s.attempt = worker'[v].attempt
            PROVE  FALSE
        <4>1. v # w /\ worker'[v] = worker[v]
          BY <2>2, <3>1
        <4>2. CASE s \in sends
          BY <3>1, <4>1, <4>2 DEF FencingInv, OneSendPerAttempt
        <4>3. CASE s = [id |-> id, attempt |-> attempt, outcome |-> outcome]
          <5>1. worker[v].message[1] = worker[w].message[1] /\ worker[v].attempt = worker[w].attempt
            BY <1>1, <3>1, <4>1, <4>3
          <5> QED
            BY <1>4, <3>1, <4>1, <5>1 DEF FencingInv, OneSendPerAttempt
        <4> QED
          BY <1>2, <4>2, <4>3
      <3> QED
        BY <3>1
    <2> QED
      BY <2>1, <2>2, <2>3 DEF FencingInv, OneSendPerAttempt
  <1> QED
    BY <1>7, <1>8, <1>9, <1>10, <1>11 DEF FencingInv

-----------------------------------------------------------------------------
(* The specification. *)

(* Every step of the service keeps the fence. *)
LEMMA FencingNextInv ==
    StoreInv /\ ProcessInv /\ FencingInv /\ [PipelineNext]_pipelineVars => FencingInv'
  <1> SUFFICES ASSUME StoreInv, ProcessInv, FencingInv, [PipelineNext]_pipelineVars
               PROVE  FencingInv'
    OBVIOUS
  <1>1. [StoreNext]_storeVars
    BY PipelineStepOnStore
  <1>2. CASE UNCHANGED pipelineVars
    <2>1. /\ worker' = worker /\ sends' = sends
          /\ \A id \in DOMAIN tasks' : SameDelivery(id)
      BY <1>2 DEF pipelineVars, SameDelivery
    <2> QED
      BY <1>1, <2>1, QuietStep
  <1>3. CASE Environment
    <2>1. worker' = worker /\ sends' = sends
      BY <1>3 DEF Environment
    <2> QED
      BY <1>1, <1>3, <2>1, EnvironmentReportsNothing, QuietStep
  <1>4. CASE \E p \in Publisher : PublisherStep(p)
    <2>1. /\ worker' = worker /\ sends' = sends
          /\ \A id \in DOMAIN tasks' : SameDelivery(id)
      BY <1>4, PublisherReportsNothing DEF SameDelivery
    <2> QED
      BY <1>1, <2>1, QuietStep
  <1>5. ASSUME NEW w \in Worker, WorkerStep(w) PROVE FencingInv'
    BY <1>1, <1>5, HandOver, ClaimWon, ClaimLost, AttemptSent, ResultReported DEF WorkerStep
  <1> QED
    BY <1>2, <1>3, <1>4, <1>5 DEF PipelineNext

(* Nothing is sent or claimed at the start. *)
LEMMA FencingInitInv == PipelineInit => FencingInv
  <1> SUFFICES ASSUME PipelineInit PROVE FencingInv
    OBVIOUS
  <1>1. \A w \in Worker : worker[w].pc = "idle"
    BY DEF PipelineInit, IdleWorker
  <1>2. sends = {} /\ DOMAIN tasks = {}
    BY DEF PipelineInit, StoreInit
  <1> QED
    BY <1>1, <1>2 DEF FencingInv, AttemptsSpent, LeaseMeansLast, ResultWasAnswered,
                      ResultIsOfLastAttempt, OneSendPerAttempt, Busy

(* The fence holds throughout. *)
LEMMA FenceHolds == PipelineSpec => []FencingInv
  <1>1. PipelineSpec => [](StoreInv /\ ProcessInv)
    BY PipelineTyped
  <1> QED
    BY <1>1, FencingInitInv, FencingNextInv, PTL DEF PipelineSpec

(* ApplyDeliveryResult writes only what the supplier answered to the       *)
(* attempt counted last: a late worker never settles a newer attempt.      *)
THEOREM LateResultsFenced == PipelineSpec => []ResultIsOfLastAttempt
  <1>1. FencingInv => ResultIsOfLastAttempt
    BY DEF FencingInv
  <1> QED
    BY <1>1, FenceHolds, PTL

(* Handle sends every counted attempt at most once, whatever is            *)
(* redelivered, lost or restarted.                                         *)
THEOREM AttemptSentOnce == PipelineSpec => []OneSendPerAttempt
  <1>1. FencingInv => OneSendPerAttempt
    BY DEF FencingInv
  <1> QED
    BY <1>1, FenceHolds, PTL

-----------------------------------------------------------------------------
(***************************************************************************)
(* The pipeline implements the abstract service: every step of a           *)
(* publisher, worker, scheduler, intake, administrator or retention is one *)
(* step of NotificationService for its callers, or none.                   *)
(*                                                                         *)
(* A call of the supplier is a step of the abstract service because of the *)
(* fence (FencingInv): its number is within the budget and never used      *)
(* before. A removed task has no row left to bound a late worker's number, *)
(* so the bound is kept with the worker (SendsInRange).                    *)
(***************************************************************************)
ReplaysBounded == \A id \in DOMAIN replays : replays[id] <= MaxReplays

SendsInRange ==
    \A w \in Worker : worker[w].pc = "send" => worker[w].attempt \in Service!AttemptNumbers

RangeInv == ReplaysBounded /\ SendsInRange

-----------------------------------------------------------------------------
(* The range of the attempt numbers. *)

(* ReplayDeadAtomic is the only statement that counts a replay. *)
LEMMA ReplaysStayBounded ==
    ASSUME StoreInv, ReplaysBounded, [StoreNext]_storeVars
    PROVE  ReplaysBounded'
  <1>1. replays \in [DOMAIN replays -> Nat]
    BY DEF StoreInv, StoreTypeOK
  <1>2. CASE \E id \in Notification, request \in Request, hash \in Hash,
                max \in MaxAttemptsValues : CreateNotification(id, request, hash, max)
    BY <1>2, MaxReplaysAssumption DEF ReplaysBounded, CreateNotification
  <1>3. CASE \E id \in DOMAIN tasks : ReplayDeadAtomic(id)
    BY <1>1, <1>3, MaxReplaysAssumption DEF ReplaysBounded, ReplayDeadAtomic
  <1>4. CASE replays' = replays
    BY <1>4 DEF ReplaysBounded
  <1> QED
    BY <1>2, <1>3, <1>4
    DEF storeVars, StoreNext, ClaimOutbox, MarkPublished, ClaimDelivery, ApplyDeliveryResult,
        ScheduleDue, DeleteTerminalBefore, TimePasses, ClaimElapses, LeaseElapses,
        RetryFallsDue, LifetimeElapses, RowAges

(* The number a claim hands out is within the budget of its row. *)
LEMMA ClaimInRange ==
    ASSUME StoreInv, ReplaysBounded, NEW id, NEW token, ClaimDelivery(id, token)
    PROVE  tasks[id].attempts + 1 \in Service!AttemptNumbers
  <1>1. /\ id \in DOMAIN tasks /\ id \in DOMAIN replays
        /\ replays[id] \in Nat /\ tasks[id] \in TaskRow
        /\ tasks[id].attempts < tasks[id].maxAttempts + replays[id]
    BY RowsAreGood DEF ClaimDelivery, GoodRow, WithinBudget
  <1>2. PICK max \in MaxAttemptsValues : max = tasks[id].maxAttempts
    BY <1>1 DEF TaskRow
  <1>3. max \in Nat /\ replays[id] <= MaxReplays /\ tasks[id].attempts \in Nat
    BY <1>1, MaxAttemptsAssumption DEF ReplaysBounded, TaskRow
  <1>4. tasks[id].attempts + 1 \in 1 .. max + MaxReplays
    BY <1>1, <1>2, <1>3, MaxReplaysAssumption
  <1> QED
    BY <1>4 DEF Service!AttemptNumbers

(* Only a claim makes a worker send, and it brings its number. *)
LEMMA RangeNextInv ==
    StoreInv /\ ProcessInv /\ RangeInv /\ [PipelineNext]_pipelineVars => RangeInv'
  <1> SUFFICES ASSUME StoreInv, ProcessInv, RangeInv, [PipelineNext]_pipelineVars
               PROVE  RangeInv'
    OBVIOUS
  <1>1. ReplaysBounded'
    BY PipelineStepOnStore, ReplaysStayBounded DEF RangeInv
  <1>2. CASE worker' = worker
    BY <1>1, <1>2 DEF RangeInv, SendsInRange
  <1>3. ASSUME NEW w \in Worker, WorkerStep(w) PROVE SendsInRange'
    <2>1. CASE ClaimTask(w)
      <3>1. tasks[worker[w].message[1]].attempts + 1 \in Service!AttemptNumbers
        BY <2>1, ClaimInRange DEF ClaimTask, RangeInv
      <3>2. /\ worker'[w].attempt = tasks[worker[w].message[1]].attempts + 1
            /\ \A v \in Worker \ {w} : worker'[v] = worker[v]
        BY <2>1 DEF ClaimTask, ProcessInv, WorkersGood, WorkerState
      <3> QED
        BY <3>1, <3>2 DEF RangeInv, SendsInRange
    <2>2. CASE ~ClaimTask(w)
      <3>1. worker'[w].pc # "send" /\ \A v \in Worker \ {w} : worker'[v] = worker[v]
        BY <1>3, <2>2
        DEF WorkerStep, Receive, ClaimNotAcquired, ClaimTaskFails, AcquireCancelled, Send,
            ApplyResult, ApplyResultFails, CrashWorker, Ack, Requeue, IdleWorker,
            ProcessInv, WorkersGood, WorkerState
      <3> QED
        BY <3>1 DEF RangeInv, SendsInRange
    <2> QED
      BY <2>1, <2>2
  <1>4. CASE UNCHANGED pipelineVars \/ Environment \/ \E p \in Publisher : PublisherStep(p)
    BY <1>2, <1>4, PublisherReportsNothing DEF pipelineVars, Environment
  <1> QED
    BY <1>1, <1>3, <1>4 DEF PipelineNext, RangeInv

-----------------------------------------------------------------------------
(* What a caller sees of the tables. *)

(* Two rows a caller cannot tell apart, while no replay is counted. *)
SameView(old, new) ==
    PhaseOf(new) = PhaseOf(old) /\ new.maxAttempts = old.maxAttempts

(* A step that keeps the view of every row shows the caller nothing. *)
LEMMA NothingSeen ==
    ASSUME DOMAIN tasks' = DOMAIN tasks, replays' = replays, sends' = sends,
           \A id \in DOMAIN tasks : SameView(tasks[id], tasks'[id])
    PROVE  UNCHANGED Service!serviceVars
  <1>1. VisibleTasks' = VisibleTasks
    BY DEF VisibleTasks, SameView, PhaseOf
  <1> QED
    BY <1>1 DEF Service!serviceVars

(* A claim and a timer show nothing of a row. *)
LEMMA QuietView ==
    ASSUME NEW row \in TaskRow, NEW token
    PROVE  /\ row.status = "pending" => SameView(row, Leased(row, token))
           /\ SameView(row, [row EXCEPT !.lease = "passed"])
           /\ SameView(row, [row EXCEPT !.nextAttempt = "passed"])
           /\ SameView(row, [row EXCEPT !.lifetime = "passed"])
           /\ SameView(row, [row EXCEPT !.updated = "aged"])
  BY DEF SameView, PhaseOf, Terminal, Leased, TaskRow

(* A result shows its phase, unless it only delays the task. *)
LEMMA ResultView ==
    ASSUME NEW row \in TaskRow, NEW outcome \in Outcome
    PROVE  /\ Settled(row, outcome).maxAttempts = row.maxAttempts
           /\ PhaseOf(Settled(row, outcome)) = CASE outcome = "delivered" -> "delivered"
                                                [] outcome = "retryable" -> "open"
                                                [] OTHER -> "dead"
  BY DEF PhaseOf, Terminal, Settled, StatusAfter, TaskRow, Outcome

(* The scheduler shows its burials, an administrator his replays. *)
LEMMA MovedView ==
    ASSUME NEW row \in TaskRow
    PROVE  /\ row.status \in {"retry_wait", "delivering"} => SameView(row, Rescheduled(row))
           /\ PhaseOf(Buried(row)) = "dead" /\ Buried(row).maxAttempts = row.maxAttempts
           /\ PhaseOf(Replayed(row)) = "open" /\ Replayed(row).maxAttempts = row.maxAttempts
  BY DEF SameView, PhaseOf, Terminal, Rescheduled, Buried, Replayed, TaskRow

-----------------------------------------------------------------------------
(* The steps of intake, scheduler, administrator, retention and time. *)

(* Create accepts a notification. *)
LEMMA CreateAccepts ==
    ASSUME StoreInv, sends' = sends, NEW id \in Notification, NEW request, NEW hash,
           NEW max \in MaxAttemptsValues, CreateNotification(id, request, hash, max)
    PROVE  Service!ServiceNext
  <1>1. DOMAIN tasks \subseteq DOMAIN replays /\ id \notin DOMAIN replays /\ max + 0 = max
    BY RowsAreGood, MaxAttemptsAssumption DEF CreateNotification
  <1>2. /\ DOMAIN tasks' = DOMAIN tasks \cup {id} /\ DOMAIN replays' = DOMAIN replays \cup {id}
        /\ tasks'[id] = NewTask(request, hash, max) /\ replays'[id] = 0
        /\ \A i \in DOMAIN tasks : tasks'[i] = tasks[i] /\ replays'[i] = replays[i]
    BY <1>1 DEF CreateNotification
  <1>3. PhaseOf(tasks'[id]) = "open" /\ tasks'[id].maxAttempts = max
    BY <1>2 DEF NewTask, PhaseOf, Terminal
  <1>4. VisibleTasks' = [i \in DOMAIN VisibleTasks \cup {id} |->
                           IF i = id THEN [phase |-> "open", budget |-> max]
                           ELSE VisibleTasks[i]]
    <2>1. ASSUME NEW i \in DOMAIN tasks \cup {id}
          PROVE  [phase |-> PhaseOf(tasks'[i]), budget |-> tasks'[i].maxAttempts + replays'[i]]
                 = IF i = id THEN [phase |-> "open", budget |-> max] ELSE VisibleTasks[i]
      <3>1. CASE i = id
        BY <1>1, <1>2, <1>3, <3>1
      <3>2. CASE i # id
        BY <1>2, <2>1, <3>2 DEF VisibleTasks, PhaseOf
      <3> QED
        BY <3>1, <3>2
    <2>2. DOMAIN VisibleTasks = DOMAIN tasks
      BY DEF VisibleTasks
    <2>3. VisibleTasks' =
            [i \in DOMAIN tasks \cup {id} |->
               [phase |-> PhaseOf(tasks'[i]), budget |-> tasks'[i].maxAttempts + replays'[i]]]
      BY <1>2 DEF VisibleTasks, PhaseOf
    <2> QED
      BY <2>1, <2>2, <2>3
  <1>5. Service!Accept(id, max)
    BY <1>1, <1>2, <1>4 DEF Service!Accept
  <1> QED
    BY <1>5 DEF Service!ServiceNext

(* Burying some open rows and keeping the view of all others. *)
LEMMA RowsBuried ==
    ASSUME DOMAIN tasks' = DOMAIN tasks, replays' = replays, sends' = sends,
           NEW ids \in SUBSET DOMAIN tasks,
           \A id \in ids : /\ PhaseOf(tasks[id]) = "open" /\ PhaseOf(tasks'[id]) = "dead"
                           /\ tasks'[id].maxAttempts = tasks[id].maxAttempts,
           \A id \in DOMAIN tasks \ ids : SameView(tasks[id], tasks'[id])
    PROVE  Service!ServiceNext
  <1>1. DOMAIN VisibleTasks = DOMAIN tasks
    BY DEF VisibleTasks
  <1>2. \A id \in ids : VisibleTasks[id].phase = "open"
    BY DEF VisibleTasks
  <1>3. ASSUME NEW id \in DOMAIN tasks
        PROVE  [phase |-> PhaseOf(tasks'[id]), budget |-> tasks'[id].maxAttempts + replays[id]]
               = IF id \in ids THEN [VisibleTasks[id] EXCEPT !.phase = "dead"]
                 ELSE VisibleTasks[id]
    <2>1. VisibleTasks[id] =
            [phase |-> PhaseOf(tasks[id]), budget |-> tasks[id].maxAttempts + replays[id]]
      BY DEF VisibleTasks
    <2> QED
      BY <2>1 DEF SameView
  <1>4. VisibleTasks' =
          [id \in DOMAIN tasks |->
             [phase |-> PhaseOf(tasks'[id]), budget |-> tasks'[id].maxAttempts + replays[id]]]
    BY DEF VisibleTasks, PhaseOf
  <1>5. VisibleTasks' = [id \in DOMAIN VisibleTasks |->
                           IF id \in ids THEN [VisibleTasks[id] EXCEPT !.phase = "dead"]
                           ELSE VisibleTasks[id]]
    BY <1>1, <1>3, <1>4
  <1>6. Service!Bury(ids)
    BY <1>2, <1>5 DEF Service!Bury
  <1> QED
    BY <1>1, <1>6 DEF Service!ServiceNext

(* The scheduler buries what is exhausted; what it sends out again was and *)
(* stays open.                                                             *)
LEMMA ScheduleBuries ==
    ASSUME StoreInv, sends' = sends, NEW batch \in SUBSET DOMAIN tasks, ScheduleDue(batch)
    PROVE  Service!ServiceNext
  <1> DEFINE ids == {i \in batch : Exhausted(tasks[i])}
  <1>1. /\ DOMAIN tasks' = DOMAIN tasks /\ replays' = replays
        /\ \A i \in DOMAIN tasks : tasks'[i] = IF i \in batch THEN AfterDue(tasks[i])
                                               ELSE tasks[i]
    BY DEF ScheduleDue
  <1>2. \A i \in batch : tasks[i].status \in {"retry_wait", "delivering"}
    BY DEF ScheduleDue, Due
  <1>3. \A i \in DOMAIN tasks : tasks[i] \in TaskRow
    BY RowsAreGood DEF GoodRow
  <1>4. ASSUME NEW i \in ids
        PROVE  /\ PhaseOf(tasks[i]) = "open" /\ PhaseOf(tasks'[i]) = "dead"
               /\ tasks'[i].maxAttempts = tasks[i].maxAttempts
    <2>1. tasks'[i] = Buried(tasks[i])
      BY <1>1 DEF AfterDue
    <2>2. PhaseOf(tasks[i]) = "open"
      BY <1>2 DEF PhaseOf, Terminal
    <2> QED
      BY <1>3, <2>1, <2>2, MovedView
  <1>5. ASSUME NEW i \in DOMAIN tasks \ ids PROVE SameView(tasks[i], tasks'[i])
    <2>1. CASE i \in batch
      <3>1. tasks'[i] = Rescheduled(tasks[i])
        BY <1>1, <2>1 DEF AfterDue
      <3> QED
        BY <1>2, <1>3, <2>1, <3>1, MovedView
    <2>2. CASE i \notin batch
      BY <1>1, <2>2 DEF SameView
    <2> QED
      BY <2>1, <2>2
  <1>6. ids \in SUBSET DOMAIN tasks
    OBVIOUS
  <1> HIDE DEF ids
  <1> QED
    BY <1>1, <1>4, <1>5, <1>6, RowsBuried

(* A replay reopens a dead task with one attempt more. *)
LEMMA ReplayReopens ==
    ASSUME StoreInv, sends' = sends, NEW id \in DOMAIN tasks, ReplayDeadAtomic(id)
    PROVE  Service!ServiceNext
  <1>1. /\ \A i \in DOMAIN tasks : i \in DOMAIN replays /\ replays[i] \in Nat
        /\ tasks[id] \in TaskRow /\ tasks[id].maxAttempts \in Nat
    BY RowsAreGood, MaxAttemptsAssumption DEF GoodRow, TaskRow
  <1>2. /\ DOMAIN tasks' = DOMAIN tasks /\ DOMAIN replays' = DOMAIN replays
        /\ tasks'[id] = Replayed(tasks[id]) /\ replays'[id] = replays[id] + 1
        /\ \A i \in DOMAIN tasks \ {id} : tasks'[i] = tasks[i] /\ replays'[i] = replays[i]
    BY <1>1 DEF ReplayDeadAtomic
  <1>3. DOMAIN VisibleTasks = DOMAIN tasks
    BY DEF VisibleTasks
  <1>4. VisibleTasks[id] = [phase |-> "dead", budget |-> tasks[id].maxAttempts + replays[id]]
    BY DEF VisibleTasks, PhaseOf, Terminal, ReplayDeadAtomic
  <1>5. [phase |-> PhaseOf(tasks'[id]), budget |-> tasks'[id].maxAttempts + replays'[id]]
        = [phase |-> "open", budget |-> VisibleTasks[id].budget + 1]
    <2>1. PhaseOf(tasks'[id]) = "open" /\ tasks'[id].maxAttempts = tasks[id].maxAttempts
      BY <1>1, <1>2, MovedView
    <2>2. tasks'[id].maxAttempts + replays'[id] = (tasks[id].maxAttempts + replays[id]) + 1
      BY <1>1, <1>2, <2>1
    <2> QED
      BY <1>4, <2>1, <2>2
  <1>6. \A i \in DOMAIN tasks \ {id} :
           [phase |-> PhaseOf(tasks'[i]), budget |-> tasks'[i].maxAttempts + replays'[i]]
           = VisibleTasks[i]
    BY <1>2 DEF VisibleTasks
  <1>7. VisibleTasks' =
          [i \in DOMAIN tasks |->
             [phase |-> PhaseOf(tasks'[i]), budget |-> tasks'[i].maxAttempts + replays'[i]]]
    BY <1>2 DEF VisibleTasks, PhaseOf
  <1>8. VisibleTasks' = [VisibleTasks EXCEPT ![id] =
                           [phase |-> "open", budget |-> @.budget + 1]]
    <2>1. VisibleTasks = [i \in DOMAIN tasks |-> VisibleTasks[i]]
      BY DEF VisibleTasks
    <2> QED
      BY <1>3, <1>5, <1>6, <1>7, <2>1
  <1>9. Service!Reopen(id)
    BY <1>2, <1>4, <1>8 DEF Service!Reopen
  <1> QED
    BY <1>3, <1>9 DEF Service!ServiceNext

(* Retention forgets settled tasks only. *)
LEMMA RetentionForgets ==
    ASSUME sends' = sends, NEW batch \in SUBSET DOMAIN tasks, DeleteTerminalBefore(batch)
    PROVE  Service!ServiceNext
  <1>1. DOMAIN VisibleTasks = DOMAIN tasks
    BY DEF VisibleTasks
  <1>2. \A id \in batch : VisibleTasks[id].phase # "open"
    BY DEF VisibleTasks, PhaseOf, Terminal, DeleteTerminalBefore, Deletable
  <1>3. VisibleTasks' = [id \in DOMAIN VisibleTasks \ batch |-> VisibleTasks[id]]
    BY <1>1 DEF VisibleTasks, PhaseOf, DeleteTerminalBefore
  <1>4. Service!Forget(batch)
    BY <1>2, <1>3 DEF Service!Forget, DeleteTerminalBefore
  <1> QED
    BY <1>1, <1>4 DEF Service!ServiceNext

(* Time shows the caller nothing. *)
LEMMA TimeUnseen ==
    ASSUME StoreInv, sends' = sends, TimePasses
    PROVE  UNCHANGED Service!serviceVars
  <1>1. CASE \E k \in DOMAIN outbox : ClaimElapses(k)
    BY <1>1, NothingSeen DEF ClaimElapses, SameView
  <1>2. ASSUME NEW id \in DOMAIN tasks,
               LeaseElapses(id) \/ RetryFallsDue(id) \/ LifetimeElapses(id) \/ RowAges(id)
        PROVE  UNCHANGED Service!serviceVars
    <2>1. tasks[id] \in TaskRow /\ tasks \in [DOMAIN tasks -> TaskRow]
      BY DEF StoreInv, StoreTypeOK
    <2>2. /\ DOMAIN tasks' = DOMAIN tasks /\ replays' = replays
          /\ \A i \in DOMAIN tasks \ {id} : tasks'[i] = tasks[i]
          /\ tasks'[id] \in {[tasks[id] EXCEPT !.lease = "passed"],
                             [tasks[id] EXCEPT !.nextAttempt = "passed"],
                             [tasks[id] EXCEPT !.lifetime = "passed"],
                             [tasks[id] EXCEPT !.updated = "aged"]}
      BY <1>2, <2>1 DEF LeaseElapses, RetryFallsDue, LifetimeElapses, RowAges
    <2>3. SameView(tasks[id], tasks'[id])
      BY <2>1, <2>2, QuietView
    <2>4. \A i \in DOMAIN tasks : SameView(tasks[i], tasks'[i])
      BY <2>2, <2>3 DEF SameView
    <2> QED
      BY <2>2, <2>4, NothingSeen
  <1> QED
    BY <1>1, <1>2 DEF TimePasses

(* Everything the processes without memory do. *)
LEMMA EnvironmentStep ==
    ASSUME StoreInv, Environment
    PROVE  [Service!ServiceNext]_(Service!serviceVars)
  <1>0. sends' = sends
    BY DEF Environment
  <1>1. CASE \E id \in Notification, request \in Request, hash \in Hash,
                max \in MaxAttemptsValues : CreateNotification(id, request, hash, max)
    BY <1>0, <1>1, CreateAccepts
  <1>2. CASE \E batch \in (SUBSET DOMAIN tasks) \ {{}} : ScheduleDue(batch)
    BY <1>0, <1>2, ScheduleBuries
  <1>3. CASE \E id \in DOMAIN tasks : ReplayDeadAtomic(id)
    BY <1>0, <1>3, ReplayReopens
  <1>4. CASE \E batch \in (SUBSET DOMAIN tasks) \ {{}} : DeleteTerminalBefore(batch)
    BY <1>0, <1>4, RetentionForgets
  <1>5. CASE TimePasses
    BY <1>0, <1>5, TimeUnseen
  <1> QED
    BY <1>1, <1>2, <1>3, <1>4, <1>5 DEF Environment

-----------------------------------------------------------------------------
(* The steps of publishers and workers. *)

(* A publisher shows the caller nothing. *)
LEMMA PublisherUnseen ==
    ASSUME NEW p \in Publisher, PublisherStep(p)
    PROVE  UNCHANGED Service!serviceVars
  <1>1. replays' = replays
    BY DEF PublisherStep, ClaimBatch, ClaimBatchLost, PublishConfirmed, PublishFails, MarkEvent,
           MarkEventFails, CrashPublisher, ClaimOutbox, MarkPublished, storeVars
  <1> QED
    BY <1>1, PublisherReportsNothing, NothingSeen DEF SameView

(* A claim, answered or lost, shows the caller nothing. *)
LEMMA ClaimUnseen ==
    ASSUME StoreInv, sends' = sends, NEW id, NEW token, ClaimDelivery(id, token)
    PROVE  UNCHANGED Service!serviceVars
  <1>1. /\ tasks[id] \in TaskRow /\ tasks[id].status = "pending"
        /\ DOMAIN tasks' = DOMAIN tasks /\ replays' = replays
        /\ tasks'[id] = Leased(tasks[id], token)
        /\ \A i \in DOMAIN tasks \ {id} : tasks'[i] = tasks[i]
    BY RowsAreGood DEF ClaimDelivery, GoodRow
  <1>2. SameView(tasks[id], tasks'[id])
    BY <1>1, QuietView
  <1>3. \A i \in DOMAIN tasks : SameView(tasks[i], tasks'[i])
    BY <1>1, <1>2 DEF SameView
  <1> QED
    BY <1>1, <1>3, NothingSeen

(* A send is one call within the budget, under a number never used before. *)
LEMMA SendCalls ==
    ASSUME StoreInv, ProcessInv, FencingInv, RangeInv, NEW w \in Worker, Send(w)
    PROVE  Service!ServiceNext
  <1>1. PICK id, attempt : id = worker[w].message[1] /\ attempt = worker[w].attempt
    OBVIOUS
  <1>2. PICK outcome \in Outcome :
           sends' = sends \cup {[id |-> id, attempt |-> attempt, outcome |-> outcome]}
    BY <1>1 DEF Send
  <1>3. tasks' = tasks /\ replays' = replays /\ worker[w].pc = "send"
    BY DEF Send, storeVars
  <1>4. id \in Notification /\ Spent(id, attempt) /\ attempt \in Nat
    BY <1>1, <1>3 DEF ProcessInv, WorkersGood, GoodWorker, WorkerState, Message,
                      FencingInv, AttemptsSpent, Busy
  <1>5. VisibleTasks' = VisibleTasks /\ DOMAIN VisibleTasks = DOMAIN tasks
    BY <1>3 DEF VisibleTasks, PhaseOf
  <1>6. ASSUME id \in DOMAIN tasks PROVE attempt <= VisibleTasks[id].budget
    <2>1. VisibleTasks[id].budget = tasks[id].maxAttempts + replays[id]
      BY <1>6 DEF VisibleTasks
    <2>2. /\ tasks[id].attempts <= tasks[id].maxAttempts + replays[id]
          /\ tasks[id].attempts \in Nat /\ tasks[id].maxAttempts \in Nat /\ replays[id] \in Nat
      BY <1>6, RowsAreGood, MaxAttemptsAssumption DEF GoodRow, WithinBudget, TaskRow
    <2>3. attempt <= tasks[id].attempts
      BY <1>4, <1>6, <2>2 DEF Spent
    <2> QED
      BY <1>4, <2>1, <2>2, <2>3
  <1>7. \A c \in sends : ~(c.id = id /\ c.attempt = attempt)
    BY <1>1, <1>3 DEF FencingInv, OneSendPerAttempt
  <1>8. Service!Call(id, attempt, outcome)
    BY <1>2, <1>3, <1>4, <1>5, <1>6, <1>7 DEF Service!Call, Spent
  <1>9. attempt \in Service!AttemptNumbers
    BY <1>1, <1>3 DEF RangeInv, SendsInRange
  <1> QED
    BY <1>4, <1>8, <1>9 DEF Service!ServiceNext, Outcome, Spent

(* A result that is applied settles the open task, or delays it unseen. It *)
(* settles it as delivered only on the supplier's answer.                  *)
LEMMA ResultShown ==
    ASSUME StoreInv, ProcessInv, FencingInv, sends' = sends, NEW w \in Worker,
           worker[w].pc = "apply",
           ApplyDeliveryResult(worker[w].message[1], worker[w].token, worker[w].outcome)
    PROVE  [Service!ServiceNext]_(Service!serviceVars)
  <1>1. PICK id, outcome : id = worker[w].message[1] /\ outcome = worker[w].outcome
    OBVIOUS
  <1>2. outcome \in Outcome
    BY <1>1 DEF ProcessInv, WorkersGood, GoodWorker
  <1>3. /\ id \in DOMAIN tasks /\ tasks[id].status = "delivering" /\ replays' = replays
        /\ tasks' = [tasks EXCEPT ![id] = Settled(tasks[id], outcome)]
    BY <1>1 DEF ApplyDeliveryResult, LeaseStillHeld
  <1>4. tasks[id] \in TaskRow /\ PhaseOf(tasks[id]) = "open"
    BY <1>3, RowsAreGood DEF GoodRow, PhaseOf, Terminal
  <1>5. /\ DOMAIN tasks' = DOMAIN tasks /\ tasks'[id] = Settled(tasks[id], outcome)
        /\ \A i \in DOMAIN tasks \ {id} : tasks'[i] = tasks[i]
    BY <1>3
  <1>6. CASE outcome = "retryable"
    <2>0. SameView(tasks[id], tasks'[id])
      BY <1>2, <1>4, <1>5, <1>6, ResultView DEF SameView
    <2>1. \A i \in DOMAIN tasks : SameView(tasks[i], tasks'[i])
      BY <1>5, <2>0 DEF SameView
    <2> QED
      BY <1>3, <1>5, <2>1, NothingSeen
  <1>7. CASE outcome = "permanent"
    <2>1. PhaseOf(tasks'[id]) = "dead" /\ tasks'[id].maxAttempts = tasks[id].maxAttempts
      BY <1>2, <1>4, <1>5, <1>7, ResultView
    <2>2. \A i \in DOMAIN tasks \ {id} : SameView(tasks[i], tasks'[i])
      BY <1>5 DEF SameView
    <2>3. {id} \in SUBSET DOMAIN tasks
      BY <1>3
    <2>4. \A i \in {id} : /\ PhaseOf(tasks[i]) = "open" /\ PhaseOf(tasks'[i]) = "dead"
                          /\ tasks'[i].maxAttempts = tasks[i].maxAttempts
      BY <1>4, <2>1
    <2> QED
      BY <1>3, <1>5, <2>2, <2>3, <2>4, RowsBuried
  <1>8. CASE outcome = "delivered"
    <2>1. PhaseOf(tasks'[id]) = "delivered" /\ tasks'[id].maxAttempts = tasks[id].maxAttempts
      BY <1>2, <1>4, <1>5, <1>8, ResultView
    <2>2. DOMAIN VisibleTasks = DOMAIN tasks
      BY DEF VisibleTasks
    <2>3. VisibleTasks[id] =
            [phase |-> "open", budget |-> tasks[id].maxAttempts + replays[id]]
      BY <1>3, <1>4 DEF VisibleTasks
    <2>4. \A i \in DOMAIN tasks \ {id} :
             [phase |-> PhaseOf(tasks'[i]), budget |-> tasks'[i].maxAttempts + replays[i]]
             = VisibleTasks[i]
      BY <1>5 DEF VisibleTasks
    <2>5. VisibleTasks' =
            [i \in DOMAIN tasks |->
               [phase |-> PhaseOf(tasks'[i]), budget |-> tasks'[i].maxAttempts + replays[i]]]
      BY <1>3, <1>5 DEF VisibleTasks, PhaseOf
    <2>6. VisibleTasks' = [VisibleTasks EXCEPT ![id].phase = "delivered"]
      <3>1. VisibleTasks = [i \in DOMAIN tasks |-> VisibleTasks[i]]
        BY DEF VisibleTasks
      <3>2. [VisibleTasks[id] EXCEPT !.phase = "delivered"] =
              [phase |-> PhaseOf(tasks'[id]),
               budget |-> tasks'[id].maxAttempts + replays[id]]
        BY <2>1, <2>3
      <3> QED
        BY <2>4, <2>5, <3>1, <3>2
    <2>7. \E c \in sends : c.id = id /\ c.outcome = "delivered"
      BY <1>1, <1>8 DEF FencingInv, ResultWasAnswered
    <2>8. Service!Deliver(id)
      BY <1>3, <2>3, <2>6, <2>7 DEF Service!Deliver
    <2> QED
      BY <1>3, <2>2, <2>8 DEF Service!ServiceNext
  <1> QED
    BY <1>2, <1>6, <1>7, <1>8 DEF Outcome

(* Everything a worker does. *)
LEMMA WorkerShown ==
    ASSUME StoreInv, ProcessInv, FencingInv, RangeInv, NEW w \in Worker, WorkerStep(w)
    PROVE  [Service!ServiceNext]_(Service!serviceVars)
  <1>1. CASE tasks' = tasks /\ replays' = replays /\ sends' = sends
    BY <1>1, NothingSeen DEF SameView
  <1>2. CASE ClaimTask(w) \/ ClaimTaskFails(w)
    <2>1. /\ sends' = sends
          /\ \/ UNCHANGED storeVars
             \/ ClaimDelivery(worker[w].message[1], NewLeaseToken)
      BY <1>2 DEF ClaimTask, ClaimTaskFails
    <2> QED
      BY <1>1, <2>1, ClaimUnseen DEF storeVars
  <1>3. CASE Send(w)
    BY <1>3, SendCalls
  <1>4. CASE ApplyResult(w) \/ ApplyResultFails(w)
    <2>1. /\ sends' = sends /\ worker[w].pc = "apply"
          /\ \/ UNCHANGED storeVars
             \/ ApplyDeliveryResult(worker[w].message[1], worker[w].token, worker[w].outcome)
      BY <1>4 DEF ApplyResult, ApplyResultFails
    <2> QED
      BY <1>1, <2>1, ResultShown DEF storeVars
  <1> QED
    BY <1>1, <1>2, <1>3, <1>4
    DEF WorkerStep, Receive, ClaimNotAcquired, AcquireCancelled, CrashWorker, storeVars

-----------------------------------------------------------------------------
(* The specification. *)

(* At the start nothing is accepted and nothing was called. *)
LEMMA InitShown == PipelineInit => Service!ServiceInit /\ RangeInv
  <1> SUFFICES ASSUME PipelineInit PROVE Service!ServiceInit /\ RangeInv
    OBVIOUS
  <1>1. DOMAIN tasks = {} /\ DOMAIN replays = {} /\ sends = {}
    BY DEF PipelineInit, StoreInit
  <1>2. \A w \in Worker : worker[w].pc = "idle"
    BY DEF PipelineInit, IdleWorker
  <1>3. VisibleTasks = [id \in {} |-> 0]
    BY <1>1 DEF VisibleTasks
  <1> QED
    BY <1>1, <1>2, <1>3 DEF Service!ServiceInit, RangeInv, ReplaysBounded, SendsInRange

(* Every step of the pipeline is a step of the service or a stutter. *)
LEMMA NextShown ==
    StoreInv /\ ProcessInv /\ FencingInv /\ RangeInv /\ [PipelineNext]_pipelineVars
        => [Service!ServiceNext]_(Service!serviceVars)
  <1> SUFFICES ASSUME StoreInv, ProcessInv, FencingInv, RangeInv, [PipelineNext]_pipelineVars
               PROVE  [Service!ServiceNext]_(Service!serviceVars)
    OBVIOUS
  <1>1. CASE UNCHANGED pipelineVars
    BY <1>1, NothingSeen DEF pipelineVars, SameView
  <1> QED
    BY <1>1, EnvironmentStep, PublisherUnseen, WorkerShown DEF PipelineNext

(* The service with its workers, publishers, crashes, duplicates, expiring *)
(* leases and lost answers shows its callers only what NotificationService *)
(* allows: settled once, called within the budget, delivered only on a     *)
(* supplier's answer, reopened only by an administrator.                   *)
THEOREM PipelineImplementsService == PipelineSpec => ImplementsService
  <1>1. PipelineSpec => [](StoreInv /\ ProcessInv)
    BY PipelineTyped
  <1>2. PipelineSpec => []FencingInv
    BY FenceHolds
  <1>3. PipelineInit => RangeInv
    BY InitShown
  <1>4. PipelineSpec => []RangeInv
    BY <1>1, <1>3, RangeNextInv, PTL DEF PipelineSpec
  <1>5. PipelineInit => Service!ServiceInit
    BY InitShown
  <1> QED
    BY <1>1, <1>2, <1>4, <1>5, NextShown, PTL
    DEF PipelineSpec, ImplementsService, Service!ServiceSpec

-----------------------------------------------------------------------------
(***************************************************************************)
(* A broker that drops messages (BoundedRedelivery). Its delivery limit    *)
(* ends PendingHasWakeup. It ends no other promise: a worker whose message *)
(* is dropped forgets its claim as one that crashes does, the row keeps    *)
(* token and count, and counting messages changes no table.                *)
(***************************************************************************)
ServiceInv == StoreInv /\ ProcessInv /\ FencingInv /\ RangeInv

(* Counting aside, a step drops a message or is a step of the pipeline. *)
LEMMA DropOrPipeline ==
    [BoundedNext]_boundedVars => [PipelineNext]_pipelineVars \/ \E w \in Worker : Drop(w)
  <1>1. UNCHANGED boundedVars => UNCHANGED pipelineVars
    BY DEF boundedVars
  <1>2. Environment /\ UNCHANGED <<counted, held>> => PipelineNext
    BY DEF PipelineNext
  <1>3. \A p \in Publisher : PublisherStep(p) => PipelineNext
    BY DEF PipelineNext
  <1>4. \A w \in Worker : WorkerStep(w) => PipelineNext
    BY DEF PipelineNext
  <1> QED
    BY <1>1, <1>2, <1>3, <1>4, Zenon DEF BoundedNext

(* A dropped message leaves an idle worker behind, and all else as it was. *)
LEMMA DropForgets ==
    ASSUME ServiceInv, NEW w \in Worker, Drop(w)
    PROVE  ServiceInv' /\ UNCHANGED storeVars /\ UNCHANGED Service!serviceVars
  <1>1. /\ UNCHANGED <<tasks, outbox, replays, ready, publisher, sends>>
        /\ worker' = [worker EXCEPT ![w] = IdleWorker]
    BY DEF Drop, storeVars
  <1>2. UNCHANGED storeVars
    BY <1>1 DEF storeVars
  <1>3. StoreInv'
    BY <1>2, StoreNextInv DEF ServiceInv
  <1>4. ProcessInv'
    <2>1. worker' \in [Worker -> WorkerState] /\ \A v \in Worker : GoodWorker(worker'[v])
      BY <1>1, IdleGood DEF ServiceInv, ProcessInv, WorkersGood, GoodWorker
    <2> QED
      BY <1>1, <2>1 DEF ServiceInv, ProcessInv, GoodQueue, PublishersGood, WorkersGood, GoodSends
  <1>5. FencingInv'
    <2>1. IdleWorker.pc \notin {"send", "apply"}
      BY DEF IdleWorker
    <2>2. ResultIsOfLastAttempt'
      BY <1>1 DEF ServiceInv, FencingInv, ResultIsOfLastAttempt
    <2>3. \A id \in DOMAIN tasks' : SameDelivery(id)
      BY <1>1 DEF SameDelivery
    <2> QED
      BY <1>1, <1>2, <2>1, <2>2, <2>3, WorkerGivesUp DEF ServiceInv
  <1>6. RangeInv'
    <2>1. ReplaysBounded'
      BY <1>1 DEF ServiceInv, RangeInv, ReplaysBounded
    <2>2. ASSUME NEW v \in Worker, worker'[v].pc = "send"
          PROVE  worker'[v] = worker[v]
      BY <1>1, <2>2 DEF IdleWorker, ServiceInv, ProcessInv, WorkersGood
    <2> QED
      BY <2>1, <2>2 DEF ServiceInv, RangeInv, SendsInRange
  <1>7. UNCHANGED Service!serviceVars
    BY <1>1, NothingSeen DEF SameView
  <1> QED
    BY <1>2, <1>3, <1>4, <1>5, <1>6, <1>7 DEF ServiceInv

(* With and without the limit, a step keeps the invariants and shows the   *)
(* tables a transaction and the callers a step of the service, or nothing. *)
LEMMA BoundedStep ==
    ServiceInv /\ [BoundedNext]_boundedVars =>
        /\ ServiceInv'
        /\ [StoreNext]_storeVars
        /\ [Service!ServiceNext]_(Service!serviceVars)
  <1> SUFFICES ASSUME ServiceInv, [BoundedNext]_boundedVars
               PROVE  /\ ServiceInv'
                      /\ [StoreNext]_storeVars
                      /\ [Service!ServiceNext]_(Service!serviceVars)
    OBVIOUS
  <1>1. CASE [PipelineNext]_pipelineVars
    BY <1>1, PipelineNextTyped, FencingNextInv, RangeNextInv, PipelineStepOnStore, NextShown
    DEF ServiceInv
  <1>2. CASE \E w \in Worker : Drop(w)
    BY <1>2, DropForgets
  <1> QED
    BY <1>1, <1>2, DropOrPipeline

(* The invariants of the pipeline hold at every delivery limit. *)
LEMMA BoundedKeepsInv == BoundedSpec => []ServiceInv
  <1>1. BoundedInit => ServiceInv
    BY PipelineInitTyped, FencingInitInv, InitShown DEF BoundedInit, ServiceInv
  <1> QED
    BY <1>1, BoundedStep, PTL DEF BoundedSpec

(* A dropped message changes no table. *)
THEOREM DroppingKeepsTables == BoundedSpec => StoreSpec
  <1>1. BoundedInit => StoreInit
    BY DEF BoundedInit, PipelineInit
  <1> QED
    BY <1>1, BoundedStep, BoundedKeepsInv, PTL DEF BoundedSpec, StoreSpec

(* The late result of a worker whose message was dropped, or came back to  *)
(* another one, settles no newer attempt.                                  *)
THEOREM DroppingKeepsFence == BoundedSpec => []ResultIsOfLastAttempt
  <1>1. ServiceInv => ResultIsOfLastAttempt
    BY DEF ServiceInv, FencingInv
  <1> QED
    BY <1>1, BoundedKeepsInv, PTL

(* However often messages come back before they are dropped, an attempt is *)
(* sent at most once.                                                      *)
THEOREM DroppingSendsNothingTwice == BoundedSpec => []OneSendPerAttempt
  <1>1. ServiceInv => OneSendPerAttempt
    BY DEF ServiceInv, FencingInv
  <1> QED
    BY <1>1, BoundedKeepsInv, PTL

(* What callers see of the service over a broker that drops messages is    *)
(* what NotificationService allows: a stranded task stays open, and is     *)
(* never reported delivered, sent beyond its budget or settled twice.      *)
THEOREM DroppingImplementsService == BoundedSpec => ImplementsService
  <1>1. BoundedInit => Service!ServiceInit
    BY InitShown DEF BoundedInit
  <1> QED
    BY <1>1, BoundedStep, BoundedKeepsInv, PTL
    DEF BoundedSpec, ImplementsService, Service!ServiceSpec

(* The drop is the only cause of a forgotten task: while the broker drops  *)
(* nothing, no number of requeues, crashes or lost answers takes a pending *)
(* task its wake-up.                                                       *)
THEOREM OnlyDropsForget ==
    BoundedSpec /\ [][\A w \in Worker : ~Drop(w)]_boundedVars => []PendingHasWakeup
  <1>1. BoundedInit => PipelineInit
    BY DEF BoundedInit
  <1>2. [BoundedNext]_boundedVars /\ [\A w \in Worker : ~Drop(w)]_boundedVars
            => [PipelineNext]_pipelineVars
    BY DropOrPipeline DEF boundedVars
  <1> QED
    BY <1>1, <1>2, NoTaskForgotten, PTL DEF BoundedSpec, PipelineSpec
=============================================================================
