----------------------- MODULE DeliveryPipelineProofs -----------------------
(***************************************************************************)
(* Proofs about the service around the store, for any number of workers,   *)
(* publishers, tasks, tokens and attempts: the processes only change the   *)
(* tables by the store's transactions, so the store's invariants are       *)
(* theirs too; and no pending task is forgotten (PendingHasWakeup).        *)
(***************************************************************************)
EXTENDS DeliveryPipeline, NotificationStoreProofs

(* What a process holds at each of its calls. *)
GoodPublisher(state) ==
    /\ state \in PublisherState
    /\ state.pc # "idle" => state.token \in ClaimToken
    /\ state.pc = "mark" => state.event \in Message

GoodWorker(state) ==
    /\ state \in WorkerState
    /\ state.pc # "idle" => state.message \in Message
    /\ state.pc \in {"send", "apply"} => state.token \in LeaseToken
    /\ state.pc = "apply" => state.outcome \in Outcome

GoodQueue == IsABag(ready) /\ DOMAIN ready \subseteq Message

GoodSends == sends \subseteq [id : Notification, attempt : Nat, outcome : Outcome]

PublishersGood ==
    /\ publisher \in [Publisher -> PublisherState]
    /\ \A p \in Publisher : GoodPublisher(publisher[p])

WorkersGood ==
    /\ worker \in [Worker -> WorkerState]
    /\ \A w \in Worker : GoodWorker(worker[w])

ProcessInv == GoodQueue /\ PublishersGood /\ WorkersGood /\ GoodSends

-----------------------------------------------------------------------------
(* The queue. *)

(* Enqueue adds a message to the queue and removes none. *)
LEMMA EnqueueAdds ==
    ASSUME IsABag(ready), NEW m
    PROVE  IsABag(Enqueue(m)) /\ DOMAIN Enqueue(m) = DOMAIN ready \cup {m}
  BY DEF IsABag, Enqueue, SetToBag, (+)

(* Dequeue removes one copy of a message and no other message. *)
LEMMA DequeueRemoves ==
    ASSUME IsABag(ready), NEW m \in DOMAIN ready
    PROVE  /\ IsABag(Dequeue(m))
           /\ DOMAIN Dequeue(m) \subseteq DOMAIN ready
           /\ DOMAIN ready \ {m} \subseteq DOMAIN Dequeue(m)
  BY DEF IsABag, Dequeue, SetToBag, (-)

(* An unchanged queue, or one with a message more, is a queue of messages. *)
LEMMA QueueGrows ==
    ASSUME GoodQueue, NEW m \in Message, ready' = ready \/ ready' = Enqueue(m)
    PROVE  GoodQueue'
  BY EnqueueAdds DEF GoodQueue

-----------------------------------------------------------------------------
(* The processes draw their tokens from the constants. *)

(* newID() returns a token for a claim. *)
LEMMA ClaimTokenDrawn ==
    ASSUME FreshClaimTokens # {}
    PROVE  NewClaimToken \in FreshClaimTokens /\ NewClaimToken \in ClaimToken
  BY DEF NewClaimToken, FreshClaimTokens

(* newID() returns a token for a lease. *)
LEMMA LeaseTokenDrawn ==
    ASSUME FreshLeaseTokens # {}
    PROVE  NewLeaseToken \in FreshLeaseTokens /\ NewLeaseToken \in LeaseToken
  BY DEF NewLeaseToken, FreshLeaseTokens

-----------------------------------------------------------------------------
(* Every step of a process is a transaction of the store or leaves it.     *)

(* RunOnce changes the store by ClaimOutbox and MarkPublished only. *)
LEMMA PublisherStepOnStore ==
    ASSUME ProcessInv, NEW p \in Publisher, PublisherStep(p)
    PROVE  [StoreNext]_storeVars
  <1>1. CASE ClaimBatch(p) \/ ClaimBatchLost(p)
    <2>1. NewClaimToken \in ClaimToken
      BY <1>1, ClaimTokenDrawn DEF ClaimBatch, ClaimBatchLost
    <2>2. \E batch \in (SUBSET DOMAIN outbox) \ {{}} : ClaimOutbox(batch, NewClaimToken)
      BY <1>1 DEF ClaimBatch, ClaimBatchLost
    <2> QED
      BY <2>1, <2>2 DEF StoreNext
  <1>2. CASE PublishConfirmed(p) \/ PublishFails(p) \/ CrashPublisher(p)
    BY <1>2 DEF PublishConfirmed, PublishFails, CrashPublisher
  <1>3. CASE MarkEvent(p) \/ MarkEventFails(p)
    <2>1. publisher[p].token \in ClaimToken
      BY <1>3 DEF ProcessInv, PublishersGood, GoodPublisher, MarkEvent, MarkEventFails
    <2>2. \/ MarkPublished(publisher[p].event, publisher[p].token)
          \/ UNCHANGED storeVars
      BY <1>3 DEF MarkEvent, MarkEventFails
    <2>3. ASSUME MarkPublished(publisher[p].event, publisher[p].token)
          PROVE  publisher[p].event \in DOMAIN outbox
      BY <2>3 DEF MarkPublished, ClaimStillHeld
    <2> QED
      BY <2>1, <2>2, <2>3 DEF StoreNext
  <1> QED
    BY <1>1, <1>2, <1>3 DEF PublisherStep

(* Handle changes the store by ClaimDelivery and ApplyDeliveryResult only. *)
LEMMA WorkerStepOnStore ==
    ASSUME ProcessInv, NEW w \in Worker, WorkerStep(w)
    PROVE  [StoreNext]_storeVars
  <1>1. CASE \/ \E m \in DOMAIN ready : Receive(w, m)
             \/ ClaimNotAcquired(w) \/ AcquireCancelled(w) \/ Send(w) \/ CrashWorker(w)
    BY <1>1 DEF Receive, ClaimNotAcquired, AcquireCancelled, Send, CrashWorker
  <1>2. CASE ClaimTask(w) \/ ClaimTaskFails(w)
    <2>1. \/ FreshLeaseTokens # {} /\ ClaimDelivery(worker[w].message[1], NewLeaseToken)
          \/ UNCHANGED storeVars
      BY <1>2 DEF ClaimTask, ClaimTaskFails
    <2>2. ASSUME FreshLeaseTokens # {}, ClaimDelivery(worker[w].message[1], NewLeaseToken)
          PROVE  worker[w].message[1] \in DOMAIN tasks /\ NewLeaseToken \in LeaseToken
      BY <2>2, LeaseTokenDrawn DEF ClaimDelivery
    <2> QED
      BY <2>1, <2>2 DEF StoreNext
  <1>3. CASE ApplyResult(w) \/ ApplyResultFails(w)
    <2> DEFINE id == worker[w].message[1]
    <2>1. worker[w].token \in LeaseToken /\ worker[w].outcome \in Outcome
      BY <1>3 DEF ProcessInv, WorkersGood, GoodWorker, ApplyResult, ApplyResultFails
    <2>2. \/ ApplyDeliveryResult(id, worker[w].token, worker[w].outcome)
          \/ UNCHANGED storeVars
      BY <1>3 DEF ApplyResult, ApplyResultFails
    <2>3. ASSUME ApplyDeliveryResult(id, worker[w].token, worker[w].outcome)
          PROVE  id \in DOMAIN tasks
      BY <2>3 DEF ApplyDeliveryResult, LeaseStillHeld
    <2> QED
      BY <2>1, <2>2, <2>3 DEF StoreNext
  <1> QED
    BY <1>1, <1>2, <1>3 DEF WorkerStep

(* Every step of the service is a step of the store or a stutter of it. *)
LEMMA PipelineStepOnStore ==
    ProcessInv /\ [PipelineNext]_pipelineVars => [StoreNext]_storeVars
  <1> SUFFICES ASSUME ProcessInv, [PipelineNext]_pipelineVars
               PROVE  [StoreNext]_storeVars
    OBVIOUS
  <1>1. CASE UNCHANGED pipelineVars
    BY <1>1 DEF pipelineVars, storeVars
  <1>2. CASE Environment
    BY <1>2 DEF Environment, StoreNext
  <1> QED
    BY <1>1, <1>2, PublisherStepOnStore, WorkerStepOnStore DEF PipelineNext

-----------------------------------------------------------------------------
(* The processes keep their types. *)

(* One publisher moves to a good state. *)
LEMMA PublisherMoves ==
    ASSUME PublishersGood, NEW p \in Publisher, NEW state, GoodPublisher(state),
           publisher' = [publisher EXCEPT ![p] = state]
    PROVE  PublishersGood'
  BY DEF PublishersGood, GoodPublisher

(* One worker moves to a good state. *)
LEMMA WorkerMoves ==
    ASSUME WorkersGood, NEW w \in Worker, NEW state, GoodWorker(state),
           worker' = [worker EXCEPT ![w] = state]
    PROVE  WorkersGood'
  BY DEF WorkersGood, GoodWorker

(* A process without memory is in a good state. *)
LEMMA IdleGood == GoodPublisher(IdlePublisher) /\ GoodWorker(IdleWorker)
  BY DEF GoodPublisher, IdlePublisher, PublisherState, GoodWorker, IdleWorker, WorkerState

(* RunOnce keeps the types of the processes. *)
LEMMA PublisherStepTyped ==
    ASSUME StoreInv, ProcessInv, NEW p \in Publisher, PublisherStep(p)
    PROVE  ProcessInv'
  <1>0. GoodPublisher(publisher[p]) /\ publisher[p] \in PublisherState
    BY DEF ProcessInv, PublishersGood, GoodPublisher
  <1>1. WorkersGood' /\ GoodSends'
    BY DEF PublisherStep, ClaimBatch, ClaimBatchLost, PublishConfirmed, PublishFails,
           MarkEvent, MarkEventFails, CrashPublisher, ProcessInv, WorkersGood, GoodSends
  <1>2. CASE ClaimBatch(p)
    <2>1. PICK batch \in SUBSET DOMAIN outbox :
             publisher' = [publisher EXCEPT ![p] =
                [pc |-> "publish", token |-> NewClaimToken, batch |-> batch,
                 event |-> NoMessage]]
      BY <1>2 DEF ClaimBatch
    <2>2. batch \subseteq Message
      BY DEF StoreInv, StoreTypeOK, Message
    <2>3. NewClaimToken \in ClaimToken
      BY <1>2, ClaimTokenDrawn DEF ClaimBatch
    <2>4. GoodPublisher([pc |-> "publish", token |-> NewClaimToken, batch |-> batch,
                         event |-> NoMessage])
      BY <2>2, <2>3 DEF GoodPublisher, PublisherState
    <2>5. GoodQueue'
      BY <1>2 DEF ClaimBatch, ProcessInv, GoodQueue
    <2> QED
      BY <1>1, <2>1, <2>4, <2>5, PublisherMoves DEF ProcessInv
  <1>3. CASE ClaimBatchLost(p)
    BY <1>1, <1>3 DEF ClaimBatchLost, ProcessInv, GoodQueue, PublishersGood
  <1>4. CASE PublishConfirmed(p)
    <2>1. PICK k \in publisher[p].batch :
             /\ ready' = Enqueue(k)
             /\ publisher' = [publisher EXCEPT ![p].pc = "mark", ![p].event = k]
      BY <1>4 DEF PublishConfirmed
    <2>2. k \in Message
      BY <1>0 DEF PublisherState
    <2> DEFINE state == [publisher[p] EXCEPT !.pc = "mark", !.event = k]
    <2>3. publisher' = [publisher EXCEPT ![p] = state]
      BY <2>1 DEF ProcessInv, PublishersGood
    <2>4. GoodPublisher(state)
      BY <1>0, <1>4, <2>2 DEF GoodPublisher, PublisherState, PublishConfirmed
    <2>5. GoodQueue'
      BY <2>1, <2>2, QueueGrows DEF ProcessInv
    <2> HIDE DEF state
    <2> QED
      BY <1>1, <2>3, <2>4, <2>5, PublisherMoves DEF ProcessInv
  <1>5. CASE PublishFails(p)
    <2>1. \E k \in Message : ready' = ready \/ ready' = Enqueue(k)
      BY <1>0, <1>5 DEF PublishFails, PublisherState
    <2>2. GoodQueue'
      BY <2>1, QueueGrows DEF ProcessInv
    <2>3. PublishersGood'
      BY <1>5, IdleGood, PublisherMoves DEF PublishFails, ProcessInv
    <2> QED
      BY <1>1, <2>2, <2>3 DEF ProcessInv
  <1>6. CASE MarkEvent(p)
    <2>1. GoodPublisher(AfterMark(publisher[p]))
      BY <1>0, <1>6, IdleGood DEF AfterMark, GoodPublisher, PublisherState, MarkEvent
    <2>2. PublishersGood'
      BY <1>6, <2>1, PublisherMoves DEF MarkEvent, ProcessInv
    <2> QED
      BY <1>1, <1>6, <2>2 DEF MarkEvent, ProcessInv, GoodQueue
  <1>7. CASE MarkEventFails(p) \/ CrashPublisher(p)
    <2>1. PublishersGood'
      BY <1>7, IdleGood, PublisherMoves DEF MarkEventFails, CrashPublisher, ProcessInv
    <2> QED
      BY <1>1, <1>7, <2>1 DEF MarkEventFails, CrashPublisher, ProcessInv, GoodQueue
  <1> QED
    BY <1>2, <1>3, <1>4, <1>5, <1>6, <1>7 DEF PublisherStep

(* Handle and the consumer loop keep the types of the processes. *)
LEMMA WorkerStepTyped ==
    ASSUME StoreInv, ProcessInv, NEW w \in Worker, WorkerStep(w)
    PROVE  ProcessInv'
  <1>0. GoodWorker(worker[w]) /\ worker[w] \in WorkerState
    BY DEF ProcessInv, WorkersGood, GoodWorker
  <1>1. PublishersGood'
    BY DEF WorkerStep, Receive, ClaimTask, ClaimNotAcquired, ClaimTaskFails, AcquireCancelled,
           Send, ApplyResult, ApplyResultFails, CrashWorker, ProcessInv, PublishersGood
  <1>2. CASE \E m \in DOMAIN ready : Receive(w, m)
    <2>1. PICK m \in DOMAIN ready : Receive(w, m)
      BY <1>2
    <2> DEFINE state == [worker[w] EXCEPT !.pc = "claim", !.message = m]
    <2>2. m \in Message
      BY DEF ProcessInv, GoodQueue
    <2>3. worker' = [worker EXCEPT ![w] = state]
      BY <2>1 DEF Receive, ProcessInv, WorkersGood
    <2>4. GoodWorker(state)
      BY <1>0, <2>2 DEF GoodWorker, WorkerState
    <2>5. GoodQueue'
      BY <2>1, DequeueRemoves DEF Receive, ProcessInv, GoodQueue
    <2>6. GoodSends'
      BY <2>1 DEF Receive, ProcessInv, GoodSends
    <2> HIDE DEF state
    <2> QED
      BY <1>1, <2>3, <2>4, <2>5, <2>6, WorkerMoves DEF ProcessInv
  <1>3. CASE ClaimTask(w)
    <2> DEFINE id == worker[w].message[1]
               state == [worker[w] EXCEPT !.pc = "send", !.token = NewLeaseToken,
                            !.attempt = tasks[id].attempts + 1, !.max = tasks[id].maxAttempts]
    <2>1. NewLeaseToken \in LeaseToken /\ id \in DOMAIN tasks
      BY <1>3, LeaseTokenDrawn DEF ClaimTask, ClaimDelivery
    <2>2. tasks[id].attempts + 1 \in Nat /\ tasks[id].maxAttempts \in Nat
      BY <2>1, MaxAttemptsAssumption DEF StoreInv, StoreTypeOK, TaskRow
    <2>3. worker' = [worker EXCEPT ![w] = state]
      BY <1>3 DEF ClaimTask, ProcessInv, WorkersGood
    <2>4. GoodWorker(state)
      BY <1>0, <1>3, <2>1, <2>2 DEF GoodWorker, WorkerState, ClaimTask
    <2>5. GoodQueue' /\ GoodSends'
      BY <1>3 DEF ClaimTask, ProcessInv, GoodQueue, GoodSends
    <2> HIDE DEF state
    <2> QED
      BY <1>1, <2>3, <2>4, <2>5, WorkerMoves DEF ProcessInv
  <1>4. CASE Send(w)
    <2> DEFINE id == worker[w].message[1]
    <2>1. PICK outcome \in Outcome : \E applied \in
                AppliedOutcomes(outcome, worker[w].attempt, worker[w].max) :
             /\ sends' = sends \cup
                  {[id |-> id, attempt |-> worker[w].attempt, outcome |-> outcome]}
             /\ worker' = [worker EXCEPT ![w].pc = "apply", ![w].outcome = applied]
      BY <1>4 DEF Send
    <2>2. PICK applied \in AppliedOutcomes(outcome, worker[w].attempt, worker[w].max) :
             worker' = [worker EXCEPT ![w].pc = "apply", ![w].outcome = applied]
      BY <2>1
    <2> DEFINE state == [worker[w] EXCEPT !.pc = "apply", !.outcome = applied]
    <2>3. applied \in Outcome
      BY <2>2 DEF AppliedOutcomes, Outcome
    <2>4. worker' = [worker EXCEPT ![w] = state]
      BY <2>2 DEF ProcessInv, WorkersGood
    <2>5. GoodWorker(state)
      BY <1>0, <1>4, <2>3 DEF GoodWorker, WorkerState, Send
    <2>6. id \in Notification /\ worker[w].attempt \in Nat
      BY <1>0, <1>4 DEF GoodWorker, WorkerState, Send, Message
    <2>7. GoodSends'
      BY <2>1, <2>6 DEF ProcessInv, GoodSends
    <2>8. GoodQueue'
      BY <1>4 DEF Send, ProcessInv, GoodQueue
    <2> HIDE DEF state
    <2> QED
      BY <1>1, <2>4, <2>5, <2>7, <2>8, WorkerMoves DEF ProcessInv
  <1>5. CASE \/ ClaimNotAcquired(w) \/ ClaimTaskFails(w) \/ AcquireCancelled(w)
             \/ ApplyResult(w) \/ ApplyResultFails(w) \/ CrashWorker(w)
    <2>1. worker[w].pc # "idle" /\ sends' = sends
      BY <1>5 DEF ClaimNotAcquired, ClaimTaskFails, AcquireCancelled, ApplyResult,
                  ApplyResultFails, CrashWorker
    <2>2. Ack(w) \/ Requeue(w)
      BY <1>5 DEF ClaimNotAcquired, ClaimTaskFails, AcquireCancelled, ApplyResult,
                  ApplyResultFails, CrashWorker
    <2>3. worker[w].message \in Message
      BY <1>0, <2>1 DEF GoodWorker
    <2>4. GoodQueue'
      BY <2>2, <2>3, QueueGrows DEF Ack, Requeue, ProcessInv
    <2>5. WorkersGood'
      BY <2>2, IdleGood, WorkerMoves DEF Ack, Requeue, ProcessInv
    <2> QED
      BY <1>1, <2>1, <2>4, <2>5 DEF ProcessInv, GoodSends
  <1> QED
    BY <1>2, <1>3, <1>4, <1>5 DEF WorkerStep

(* Every step of the service keeps the store's invariant and the types. *)
LEMMA PipelineNextTyped ==
    StoreInv /\ ProcessInv /\ [PipelineNext]_pipelineVars => StoreInv' /\ ProcessInv'
  <1> SUFFICES ASSUME StoreInv, ProcessInv, [PipelineNext]_pipelineVars
               PROVE  StoreInv' /\ ProcessInv'
    OBVIOUS
  <1>1. StoreInv'
    BY PipelineStepOnStore, StoreNextInv
  <1>2. CASE UNCHANGED pipelineVars \/ Environment
    BY <1>1, <1>2 DEF pipelineVars, Environment, ProcessInv, GoodQueue, PublishersGood,
                      WorkersGood, GoodSends
  <1> QED
    BY <1>1, <1>2, PublisherStepTyped, WorkerStepTyped DEF PipelineNext

(* The service starts with empty tables and idle processes. *)
LEMMA PipelineInitTyped == PipelineInit => StoreInv /\ ProcessInv
  <1> SUFFICES ASSUME PipelineInit PROVE StoreInv /\ ProcessInv
    OBVIOUS
  <1>1. StoreInv
    BY StoreInitInv DEF PipelineInit
  <1>2. GoodQueue
    BY DEF PipelineInit, GoodQueue, IsABag, EmptyBag, SetToBag
  <1>3. PublishersGood /\ WorkersGood
    BY IdleGood DEF PipelineInit, PublishersGood, WorkersGood, GoodPublisher, GoodWorker
  <1> QED
    BY <1>1, <1>2, <1>3 DEF PipelineInit, ProcessInv, GoodSends

(* Every reachable state of the service is typed and keeps StoreInv. *)
LEMMA PipelineTyped == PipelineSpec => [](StoreInv /\ ProcessInv)
  BY PipelineInitTyped, PipelineNextTyped, PTL DEF PipelineSpec

(* Queue, processes and tables keep their types in the whole service.      *)
THEOREM PipelineTypeCorrect == PipelineSpec => []PipelineTypeOK
  <1>1. StoreInv /\ ProcessInv => PipelineTypeOK
    BY DEF StoreInv, ProcessInv, PipelineTypeOK, GoodQueue, PublishersGood, WorkersGood,
           GoodSends
  <1> QED
    BY <1>1, PipelineTyped, PTL

(* The service implements the store's specification: publishers, workers,  *)
(* failed calls and crashes change the tables only by the transactions of  *)
(* internal/store/postgres.                                                *)
THEOREM PipelineImplementsStore == PipelineSpec => StoreSpec
  <1>1. PipelineInit => StoreInit
    BY DEF PipelineInit
  <1>2. StoreInv /\ ProcessInv /\ [PipelineNext]_pipelineVars => [StoreNext]_storeVars
    BY PipelineStepOnStore
  <1> QED
    BY <1>1, <1>2, PipelineTyped, PTL DEF PipelineSpec, StoreSpec

-----------------------------------------------------------------------------
(***************************************************************************)
(* No pending task is forgotten. An event may be marked long after its     *)
(* message was stored, so the invariant has to remember why marking is     *)
(* safe: MarkJustified says that the message a publisher is about to mark  *)
(* still waits if its generation is still pending. That it stays so over   *)
(* other steps needs EventsKnown: the event a publisher holds belongs to a *)
(* generation the task has already had, so it cannot become the pending    *)
(* one later.                                                              *)
(***************************************************************************)
(* k is the event of the generation that is pending. *)
Wakes(k) ==
    /\ k[1] \in DOMAIN tasks
    /\ tasks[k[1]].status = "pending"
    /\ tasks[k[1]].generation = k[2]

Unpublished(k) == k \in DOMAIN outbox /\ outbox[k].publishedAt = "null"

(* The task of k was inserted and has had the generation of k. *)
KnownEvent(k) ==
    /\ k[1] \in DOMAIN replays
    /\ k[1] \in DOMAIN tasks => k[2] <= tasks[k[1]].generation

EventsKnown ==
    \A p \in Publisher : publisher[p].pc # "idle" =>
        /\ \A k \in publisher[p].batch : KnownEvent(k)
        /\ publisher[p].pc = "mark" => publisher[p].event \in publisher[p].batch

MarkJustified ==
    \A p \in Publisher, k \in Message :
        publisher[p].pc = "mark" /\ publisher[p].event = k /\ Wakes(k) => Waiting(k)

WakeupPending == \A k \in Message : Wakes(k) => Unpublished(k) \/ Waiting(k)

WakeupInv == EventsKnown /\ MarkJustified /\ WakeupPending

-----------------------------------------------------------------------------
(* The store. *)

(* An event the service knows of stays known. *)
LEMMA KnownStays ==
    ASSUME StoreInv, [StoreNext]_storeVars, NEW k \in Message, KnownEvent(k)
    PROVE  KnownEvent(k)'
  <1>1. k[1] \in DOMAIN replays' /\ (k[1] \in DOMAIN tasks' => k[1] \in DOMAIN tasks)
    BY RemovedForGood DEF KnownEvent
  <1>2. ASSUME k[1] \in DOMAIN tasks' PROVE k[2] <= tasks'[k[1]].generation
    <2>1. k[1] \in DOMAIN tasks /\ k[2] <= tasks[k[1]].generation
      BY <1>1, <1>2 DEF KnownEvent
    <2>2. tasks[k[1]].generation <= tasks'[k[1]].generation
      BY <1>2, <2>1, CountersGrow
    <2>3. /\ k[2] \in Nat
          /\ tasks[k[1]].generation \in Nat /\ tasks'[k[1]].generation \in Nat
      BY <1>2, <2>1, StoreNextInv DEF StoreInv, StoreTypeOK, TaskRow, Message
    <2> QED
      BY <2>1, <2>2, <2>3
  <1> QED
    BY <1>1, <1>2 DEF KnownEvent

(* Insertion gives a new event an unpublished row. *)
LEMMA InsertedUnpublished ==
    ASSUME NEW keys, NEW k \in keys, k \notin DOMAIN outbox, outbox' = InsertEvents(keys)
    PROVE  Unpublished(k)'
  BY DEF InsertEvents, NewEvent, Unpublished

(* A generation becomes pending only together with a new event, which      *)
(* nobody can have known.                                                  *)
LEMMA NewlyPending ==
    ASSUME StoreInv, [StoreNext]_storeVars, NEW k \in Message, ~Wakes(k), Wakes(k)'
    PROVE  Unpublished(k)' /\ ~KnownEvent(k)
  <1> DEFINE id == k[1]
  <1>0. k = <<id, k[2]>> /\ k[2] \in Nat
    BY DEF Message
  <1>1. CASE \E i \in Notification, request \in Request, hash \in Hash,
                max \in MaxAttemptsValues : CreateNotification(i, request, hash, max)
    <2>1. PICK i \in Notification, request \in Request, hash \in Hash,
               max \in MaxAttemptsValues : CreateNotification(i, request, hash, max)
      BY <1>1
    <2>2. id = i /\ i \notin DOMAIN replays
      BY <2>1 DEF CreateNotification, Wakes
    <2>3. k = <<i, 0>>
      BY <1>0, <2>1, <2>2 DEF CreateNotification, NewTask, Wakes
    <2>4. Unpublished(k)'
      BY <2>1, <2>3, InsertedUnpublished DEF CreateNotification
    <2> QED
      BY <2>2, <2>4 DEF KnownEvent
  <1>2. ASSUME id \in DOMAIN tasks, tasks'[id].generation = tasks[id].generation + 1,
               k \in DOMAIN outbox' /\ outbox'[k] = IF k \in DOMAIN outbox THEN outbox[k]
                                                   ELSE NewEvent
        PROVE  Unpublished(k)' /\ ~KnownEvent(k)
    <2>1. k[2] = tasks[id].generation + 1 /\ tasks[id].generation \in Nat
      BY <1>2 DEF Wakes, StoreInv, StoreTypeOK, TaskRow
    <2>2. k \notin DOMAIN outbox
      BY <1>2, <2>1 DEF StoreInv, EventLedger
    <2> QED
      BY <1>2, <2>1, <2>2 DEF KnownEvent, Unpublished, NewEvent
  <1>3. CASE \E batch \in (SUBSET DOMAIN tasks) \ {{}} : ScheduleDue(batch)
    <2>1. PICK batch \in SUBSET DOMAIN tasks : ScheduleDue(batch)
      BY <1>3
    <2>2. id \in batch /\ ~Exhausted(tasks[id])
      BY <2>1, ZenonT(60) DEF ScheduleDue, Wakes, AfterDue, Buried, StoreInv, StoreTypeOK, TaskRow
    <2>3. tasks'[id].generation = tasks[id].generation + 1
      BY <2>1, <2>2, ZenonT(60)
      DEF ScheduleDue, AfterDue, Rescheduled, StoreInv, StoreTypeOK, TaskRow
    <2>4. k \in {<<i, tasks[i].generation + 1>> : i \in {j \in batch : ~Exhausted(tasks[j])}}
      BY <1>0, <2>2, <2>3 DEF Wakes
    <2> QED
      BY <1>2, <2>1, <2>2, <2>3, <2>4 DEF ScheduleDue, InsertEvents
  <1>4. CASE \E i \in DOMAIN tasks : ReplayDeadAtomic(i)
    <2>1. PICK i \in DOMAIN tasks : ReplayDeadAtomic(i)
      BY <1>4
    <2>2. id = i
      BY <2>1 DEF ReplayDeadAtomic, Wakes
    <2>3. tasks'[id].generation = tasks[id].generation + 1
      <3>1. tasks'[id] = Replayed(tasks[id])
        BY <2>1, <2>2 DEF ReplayDeadAtomic
      <3>2. tasks[id] \in TaskRow
        BY <2>1, <2>2 DEF StoreInv, StoreTypeOK
      <3> QED
        BY <3>1, <3>2 DEF Replayed, TaskRow
    <2>4. k = <<id, tasks[id].generation + 1>>
      BY <1>0, <2>3 DEF Wakes
    <2> QED
      BY <1>2, <2>1, <2>2, <2>3, <2>4 DEF ReplayDeadAtomic, InsertEvents
  <1>5. CASE \/ \E i \in DOMAIN tasks, token \in LeaseToken : ClaimDelivery(i, token)
             \/ \E i \in DOMAIN tasks, token \in LeaseToken, outcome \in Outcome :
                   ApplyDeliveryResult(i, token, outcome)
    <2>1. /\ id \in DOMAIN tasks
          /\ \/ tasks'[id] = tasks[id]
             \/ \E token : tasks'[id] = Leased(tasks[id], token)
             \/ \E outcome \in Outcome : tasks'[id] = Settled(tasks[id], outcome)
      BY <1>5 DEF ClaimDelivery, ApplyDeliveryResult, Wakes
    <2>2. tasks[id] \in TaskRow
      BY <2>1 DEF StoreInv, StoreTypeOK
    <2>3. \A token : Leased(tasks[id], token).status = "delivering"
      BY <2>2 DEF Leased, TaskRow
    <2>4. \A outcome \in Outcome : Settled(tasks[id], outcome).status # "pending"
      BY <2>2 DEF Settled, StatusAfter, Outcome, TaskRow
    <2> QED
      BY <2>1, <2>3, <2>4 DEF Wakes
  <1>6. CASE \E i \in DOMAIN tasks :
                LeaseElapses(i) \/ RetryFallsDue(i) \/ LifetimeElapses(i) \/ RowAges(i)
    <2>1. id \in DOMAIN tasks
      BY <1>6 DEF LeaseElapses, RetryFallsDue, LifetimeElapses, RowAges, Wakes
    <2>2. tasks[id] \in TaskRow
      BY <2>1 DEF StoreInv, StoreTypeOK
    <2>3. /\ tasks'[id].status = tasks[id].status
          /\ tasks'[id].generation = tasks[id].generation
      BY <1>6, <2>1, <2>2
      DEF LeaseElapses, RetryFallsDue, LifetimeElapses, RowAges, TaskRow
    <2> QED
      BY <2>1, <2>3 DEF Wakes
  <1>7. CASE \/ UNCHANGED storeVars
             \/ \E batch \in (SUBSET DOMAIN outbox) \ {{}}, token \in ClaimToken :
                   ClaimOutbox(batch, token)
             \/ \E e \in DOMAIN outbox, token \in ClaimToken : MarkPublished(e, token)
             \/ \E e \in DOMAIN outbox : ClaimElapses(e)
             \/ \E batch \in (SUBSET DOMAIN tasks) \ {{}} : DeleteTerminalBefore(batch)
    BY <1>7 DEF storeVars, ClaimOutbox, MarkPublished, ClaimElapses, DeleteTerminalBefore, Wakes
  <1> QED
    BY <1>1, <1>3, <1>4, <1>5, <1>6, <1>7 DEF StoreNext, TimePasses

-----------------------------------------------------------------------------
(* Who may take the unpublished event of a pending task away: only marking *)
(* this event.                                                             *)

(* Intake, scheduler, replay, retention and time publish nothing. *)
LEMMA EnvironmentPublishesNothing ==
    ASSUME Environment, NEW k, Unpublished(k), k[1] \in DOMAIN tasks'
    PROVE  Unpublished(k)'
  <1>1. CASE \E id \in Notification, request \in Request, hash \in Hash,
                max \in MaxAttemptsValues : CreateNotification(id, request, hash, max)
    BY <1>1 DEF CreateNotification, InsertEvents, Unpublished
  <1>2. CASE \/ \E batch \in (SUBSET DOMAIN tasks) \ {{}} : ScheduleDue(batch)
             \/ \E id \in DOMAIN tasks : ReplayDeadAtomic(id)
    BY <1>2 DEF ScheduleDue, ReplayDeadAtomic, InsertEvents, Unpublished
  <1>3. CASE \E batch \in (SUBSET DOMAIN tasks) \ {{}} : DeleteTerminalBefore(batch)
    BY <1>3 DEF DeleteTerminalBefore, Unpublished
  <1>4. CASE \E e \in DOMAIN outbox : ClaimElapses(e)
    BY <1>4 DEF ClaimElapses, Unpublished
  <1>5. CASE \E id \in DOMAIN tasks :
                LeaseElapses(id) \/ RetryFallsDue(id) \/ LifetimeElapses(id) \/ RowAges(id)
    BY <1>5 DEF LeaseElapses, RetryFallsDue, LifetimeElapses, RowAges, Unpublished
  <1> QED
    BY <1>1, <1>2, <1>3, <1>4, <1>5 DEF Environment, TimePasses

(* A worker never writes to the outbox. *)
LEMMA WorkerPublishesNothing ==
    ASSUME NEW w \in Worker, WorkerStep(w)
    PROVE  outbox' = outbox
  BY DEF WorkerStep, Receive, ClaimTask, ClaimNotAcquired, ClaimTaskFails, AcquireCancelled,
         Send, ApplyResult, ApplyResultFails, CrashWorker, ClaimDelivery,
         ApplyDeliveryResult, storeVars

(* A publisher marks the one event it is at. *)
LEMMA PublisherMarksItsEvent ==
    ASSUME StoreInv, NEW p \in Publisher, PublisherStep(p), NEW k, Unpublished(k)
    PROVE  Unpublished(k)' \/ (publisher[p].pc = "mark" /\ publisher[p].event = k)
  <1>1. CASE ClaimBatch(p) \/ ClaimBatchLost(p)
    <2>1. PICK batch \in SUBSET DOMAIN outbox : ClaimOutbox(batch, NewClaimToken)
      BY <1>1 DEF ClaimBatch, ClaimBatchLost
    <2>2. outbox[k] \in EventRow
      BY DEF Unpublished, StoreInv, StoreTypeOK
    <2>3. Claimed(outbox[k], NewClaimToken).publishedAt = "null"
      BY <2>2 DEF Claimed, EventRow, Unpublished
    <2> QED
      BY <2>1, <2>3 DEF ClaimOutbox, Unpublished
  <1>2. CASE PublishConfirmed(p) \/ PublishFails(p) \/ CrashPublisher(p)
    BY <1>2 DEF PublishConfirmed, PublishFails, CrashPublisher, storeVars, Unpublished
  <1>3. CASE MarkEvent(p) \/ MarkEventFails(p)
    BY <1>3 DEF MarkEvent, MarkEventFails, MarkPublished, storeVars, Unpublished
  <1> QED
    BY <1>1, <1>2, <1>3 DEF PublisherStep

-----------------------------------------------------------------------------
(* Who may take a waiting message away: only a worker that claims its task *)
(* or finds that there is nothing to claim.                                *)

(* A publisher only adds messages. *)
LEMMA PublisherKeepsMessages ==
    ASSUME ProcessInv, NEW p \in Publisher, PublisherStep(p), NEW k, Waiting(k)
    PROVE  Waiting(k)'
  <1>1. worker' = worker /\ (ready' = ready \/ \E m : ready' = Enqueue(m))
    BY DEF PublisherStep, ClaimBatch, ClaimBatchLost, PublishConfirmed, PublishFails,
           MarkEvent, MarkEventFails, CrashPublisher
  <1>2. DOMAIN ready \subseteq DOMAIN ready'
    BY <1>1, EnqueueAdds DEF ProcessInv, GoodQueue
  <1> QED
    BY <1>1, <1>2 DEF Waiting, BagIn, BagToSet

(* The message of a task that is pending after a worker's step still waits. *)
LEMMA WorkerKeepsMessages ==
    ASSUME StoreInv, ProcessInv, NEW w \in Worker, WorkerStep(w), NEW k \in Message,
           Waiting(k), Wakes(k)'
    PROVE  Waiting(k)'
  <1> USE DEF Waiting, BagIn, BagToSet
  <1>0. worker \in [Worker -> WorkerState] /\ IsABag(ready)
    BY DEF ProcessInv, WorkersGood, GoodQueue
  <1>1. CASE \E m \in DOMAIN ready : Receive(w, m)
    <2>1. PICK m \in DOMAIN ready : Receive(w, m)
      BY <1>1
    <2>2. CASE m = k
      <3>1. worker'[w].pc = "claim" /\ worker'[w].message = k
        BY <1>0, <2>1, <2>2 DEF Receive, WorkerState
      <3> QED
        BY <3>1
    <2>3. CASE m # k
      <3>1. k \in DOMAIN ready => k \in DOMAIN ready'
        BY <1>0, <2>1, <2>3, DequeueRemoves DEF Receive
      <3>2. \A v \in Worker : worker[v].pc = "claim" => worker'[v] = worker[v]
        BY <1>0, <2>1 DEF Receive
      <3> QED
        BY <3>1, <3>2
    <2> QED
      BY <2>2, <2>3
  <1>2. CASE ClaimTask(w)
    <2>1. worker[w].message # k
      <3>1. ASSUME worker[w].message = k PROVE FALSE
        <4>1. tasks'[k[1]] = Leased(tasks[k[1]], NewLeaseToken) /\ tasks[k[1]] \in TaskRow
          BY <1>2, <3>1 DEF ClaimTask, ClaimDelivery, StoreInv, StoreTypeOK
        <4> QED
          BY <4>1 DEF Leased, TaskRow, Wakes
      <3> QED
        BY <3>1
    <2>2. ready' = ready /\ \A v \in Worker : v # w => worker'[v] = worker[v]
      BY <1>0, <1>2 DEF ClaimTask
    <2> QED
      BY <2>1, <2>2
  <1>3. CASE ClaimNotAcquired(w)
    <2>1. worker[w].message # k
      BY <1>3 DEF ClaimNotAcquired, storeVars, Wakes
    <2>2. /\ DOMAIN ready \subseteq DOMAIN ready'
          /\ \A v \in Worker : v # w => worker'[v] = worker[v]
      BY <1>0, <1>3, EnqueueAdds DEF ClaimNotAcquired, Ack
    <2> QED
      BY <2>1, <2>2
  <1>4. CASE ClaimTaskFails(w) \/ AcquireCancelled(w) \/ ApplyResultFails(w) \/ CrashWorker(w)
    <2>1. Requeue(w)
      BY <1>4 DEF ClaimTaskFails, AcquireCancelled, ApplyResultFails, CrashWorker
    <2>2. /\ DOMAIN ready' = DOMAIN ready \cup {worker[w].message}
          /\ \A v \in Worker : v # w => worker'[v] = worker[v]
      BY <1>0, <2>1, EnqueueAdds DEF Requeue
    <2> QED
      BY <2>2
  <1>5. CASE Send(w) \/ ApplyResult(w)
    <2>1. worker[w].pc # "claim" /\ \A v \in Worker : v # w => worker'[v] = worker[v]
      BY <1>0, <1>5 DEF Send, ApplyResult, Ack
    <2>2. DOMAIN ready \subseteq DOMAIN ready'
      BY <1>0, <1>5, EnqueueAdds DEF Send, ApplyResult, Ack
    <2> QED
      BY <2>1, <2>2
  <1> QED
    BY <1>1, <1>2, <1>3, <1>4, <1>5 DEF WorkerStep

-----------------------------------------------------------------------------
(* The invariant. *)

(* An event in the outbox is of a generation its task has had. *)
LEMMA StoredIsKnown ==
    ASSUME StoreInv, NEW k \in DOMAIN outbox
    PROVE  KnownEvent(k)
  BY DEF StoreInv, EventLedger, RetryBudget, KnownEvent

(* After a mark the rest of the batch is left. *)
LEMMA AfterMarkRest ==
    ASSUME NEW state \in PublisherState
    PROVE  AfterMark(state).pc # "mark" /\ AfterMark(state).batch \subseteq state.batch
  <1>1. CASE state.batch \ {state.event} = {}
    BY <1>1 DEF AfterMark, IdlePublisher
  <1>2. CASE state.batch \ {state.event} # {}
    <2>1. AfterMark(state) = [state EXCEPT !.pc = "publish",
                                !.batch = state.batch \ {state.event}, !.event = NoMessage]
      BY <1>2 DEF AfterMark
    <2> QED
      BY <2>1 DEF PublisherState
  <1> QED
    BY <1>1, <1>2

(* A publisher's step puts only events of the outbox into its hands, and   *)
(* the event it is going to mark is one of its batch.                      *)
LEMMA PublisherKnowsEvents ==
    ASSUME StoreInv, ProcessInv, EventsKnown, NEW p \in Publisher, PublisherStep(p),
           publisher'[p].pc # "idle"
    PROVE  /\ \A k \in publisher'[p].batch : KnownEvent(k) /\ k \in Message
           /\ publisher'[p].pc = "mark" => publisher'[p].event \in publisher'[p].batch
  <1>0. publisher \in [Publisher -> PublisherState]
    BY DEF ProcessInv, PublishersGood
  <1>1. CASE ClaimBatch(p)
    <2>1. publisher'[p].pc = "publish" /\ publisher'[p].batch \subseteq DOMAIN outbox
      BY <1>0, <1>1 DEF ClaimBatch
    <2> QED
      BY <2>1, StoredIsKnown DEF StoreInv, StoreTypeOK, Message
  <1>2. CASE ~ClaimBatch(p)
    <2>1. /\ publisher[p].pc # "idle"
          /\ publisher'[p].batch \subseteq publisher[p].batch
          /\ publisher'[p].pc = "mark" => publisher'[p].event \in publisher'[p].batch
      <3>1. CASE ClaimBatchLost(p) \/ PublishFails(p) \/ MarkEventFails(p) \/ CrashPublisher(p)
        BY <1>0, <3>1 DEF ClaimBatchLost, PublishFails, MarkEventFails, CrashPublisher, IdlePublisher
      <3>2. CASE PublishConfirmed(p)
        BY <1>0, <3>2 DEF PublishConfirmed, PublisherState
      <3>3. CASE MarkEvent(p)
        <4>1. publisher'[p] = AfterMark(publisher[p]) /\ publisher[p] \in PublisherState
          BY <1>0, <3>3 DEF MarkEvent
        <4> QED
          BY <3>3, <4>1, AfterMarkRest DEF MarkEvent
      <3> QED
        BY <1>2, <3>1, <3>2, <3>3 DEF PublisherStep
    <2>2. publisher[p].batch \subseteq Message
      BY <1>0 DEF PublisherState
    <2> QED
      BY <2>1, <2>2 DEF EventsKnown
  <1> QED
    BY <1>1, <1>2

(* A step changes the publisher that takes it and no other. *)
LEMMA OthersUntouched ==
    ASSUME ProcessInv, NEW p \in Publisher, PublisherStep(p), NEW q \in Publisher, q # p
    PROVE  publisher'[q] = publisher[q]
  BY DEF ProcessInv, PublishersGood, PublisherStep, ClaimBatch, ClaimBatchLost,
         PublishConfirmed, PublishFails, MarkEvent, MarkEventFails, CrashPublisher

(* Steps of others leave the publishers alone. *)
LEMMA PublishersUntouched ==
    ASSUME Environment \/ \E w \in Worker : WorkerStep(w)
    PROVE  publisher' = publisher
  BY DEF Environment, WorkerStep, Receive, ClaimTask, ClaimNotAcquired, ClaimTaskFails,
         AcquireCancelled, Send, ApplyResult, ApplyResultFails, CrashWorker

(* What publishers hold stays known. *)
LEMMA EventsKnownStep ==
    ASSUME StoreInv, ProcessInv, EventsKnown, PipelineNext
    PROVE  EventsKnown'
  <1>0. [StoreNext]_storeVars
    BY PipelineStepOnStore
  <1>1. ASSUME NEW q \in Publisher, publisher'[q] = publisher[q], publisher'[q].pc # "idle"
        PROVE  /\ \A k \in publisher'[q].batch : KnownEvent(k)'
               /\ publisher'[q].pc = "mark" => publisher'[q].event \in publisher'[q].batch
    <2>1. publisher[q].batch \subseteq Message
      BY DEF ProcessInv, PublishersGood, PublisherState
    <2> QED
      BY <1>0, <1>1, <2>1, KnownStays DEF EventsKnown
  <1>2. CASE \E p \in Publisher : PublisherStep(p)
    <2>1. PICK p \in Publisher : PublisherStep(p)
      BY <1>2
    <2>2. ASSUME publisher'[p].pc # "idle"
          PROVE  /\ \A k \in publisher'[p].batch : KnownEvent(k)'
                 /\ publisher'[p].pc = "mark" => publisher'[p].event \in publisher'[p].batch
      BY <1>0, <2>1, <2>2, PublisherKnowsEvents, KnownStays
    <2> QED
      BY <1>1, <2>1, <2>2, OthersUntouched DEF EventsKnown
  <1>3. CASE Environment \/ \E w \in Worker : WorkerStep(w)
    BY <1>1, <1>3, PublishersUntouched DEF EventsKnown
  <1> QED
    BY <1>2, <1>3 DEF PipelineNext

(* A waiting message of a task that is still pending goes on waiting. *)
LEMMA WaitingStep ==
    ASSUME StoreInv, ProcessInv, PipelineNext, NEW k \in Message, Waiting(k), Wakes(k)'
    PROVE  Waiting(k)'
  <1>1. CASE Environment
    BY <1>1 DEF Environment, Waiting
  <1> QED
    BY <1>1, PublisherKeepsMessages, WorkerKeepsMessages DEF PipelineNext

(* What a publisher is about to mark is still justified after any step. *)
LEMMA MarkJustifiedStep ==
    ASSUME StoreInv, ProcessInv, EventsKnown, MarkJustified, PipelineNext
    PROVE  MarkJustified'
  <1>0. [StoreNext]_storeVars
    BY PipelineStepOnStore
  <1>1. ASSUME NEW q \in Publisher, publisher'[q] = publisher[q], NEW k \in Message,
               publisher[q].pc = "mark", publisher[q].event = k, Wakes(k)'
        PROVE  Waiting(k)'
    <2>1. KnownEvent(k)
      BY <1>1 DEF EventsKnown
    <2>2. Wakes(k)
      BY <1>0, <1>1, <2>1, NewlyPending
    <2>3. Waiting(k)
      BY <1>1, <2>2 DEF MarkJustified
    <2> QED
      BY <1>1, <2>3, WaitingStep
  <1>2. ASSUME NEW p \in Publisher, PublisherStep(p), publisher'[p].pc = "mark",
               NEW k, publisher'[p].event = k
        PROVE  Waiting(k)'
    <2>0. publisher \in [Publisher -> PublisherState] /\ IsABag(ready)
      BY DEF ProcessInv, PublishersGood, GoodQueue
    <2>1. PublishConfirmed(p)
      <3>1. CASE ClaimBatch(p) \/ PublishFails(p) \/ MarkEventFails(p) \/ CrashPublisher(p)
        BY <1>2, <2>0, <3>1
        DEF ClaimBatch, PublishFails, MarkEventFails, CrashPublisher, IdlePublisher
      <3>2. CASE ClaimBatchLost(p)
        BY <1>2, <2>0, <3>2 DEF ClaimBatchLost
      <3>3. CASE MarkEvent(p)
        <4>1. publisher'[p] = AfterMark(publisher[p]) /\ publisher[p] \in PublisherState
          BY <2>0, <3>3 DEF MarkEvent
        <4> QED
          BY <1>2, <4>1, AfterMarkRest
      <3> QED
        BY <1>2, <3>1, <3>2, <3>3 DEF PublisherStep
    <2>2. PICK m \in publisher[p].batch :
             /\ ready' = Enqueue(m)
             /\ publisher' = [publisher EXCEPT ![p].pc = "mark", ![p].event = m]
      BY <2>1 DEF PublishConfirmed
    <2>3. m = k
      BY <1>2, <2>0, <2>2 DEF PublisherState
    <2>4. k \in DOMAIN ready'
      BY <2>0, <2>2, <2>3, EnqueueAdds
    <2> QED
      BY <2>4 DEF Waiting, BagIn, BagToSet
  <1>3. ASSUME NEW q \in Publisher, NEW k \in Message, publisher'[q].pc = "mark",
               publisher'[q].event = k, Wakes(k)'
        PROVE  Waiting(k)'
    <2>1. publisher'[q] = publisher[q] \/ PublisherStep(q)
      BY OthersUntouched, PublishersUntouched DEF PipelineNext
    <2> QED
      BY <1>1, <1>2, <1>3, <2>1
  <1> QED
    BY <1>3 DEF MarkJustified

(* Every pending task has its event or its message after any step. *)
LEMMA WakeupPendingStep ==
    ASSUME StoreInv, ProcessInv, WakeupInv, PipelineNext
    PROVE  WakeupPending'
  <1> SUFFICES ASSUME NEW k \in Message, Wakes(k)'
               PROVE  Unpublished(k)' \/ Waiting(k)'
    BY DEF WakeupPending
  <1>1. CASE ~Wakes(k)
    BY <1>1, PipelineStepOnStore, NewlyPending
  <1>2. CASE Waiting(k)
    BY <1>2, WaitingStep
  <1>3. CASE Wakes(k) /\ Unpublished(k)
    <2>1. k[1] \in DOMAIN tasks'
      BY DEF Wakes
    <2>2. CASE Environment
      BY <1>3, <2>1, <2>2, EnvironmentPublishesNothing
    <2>3. CASE \E w \in Worker : WorkerStep(w)
      BY <1>3, <2>3, WorkerPublishesNothing DEF Unpublished
    <2>4. CASE \E p \in Publisher : PublisherStep(p)
      <3>1. PICK p \in Publisher : PublisherStep(p)
        BY <2>4
      <3>2. CASE publisher[p].pc = "mark" /\ publisher[p].event = k
        <4>1. Waiting(k)
          BY <1>3, <3>2 DEF WakeupInv, MarkJustified
        <4> QED
          BY <4>1, WaitingStep
      <3> QED
        BY <1>3, <3>1, <3>2, PublisherMarksItsEvent
    <2> QED
      BY <2>2, <2>3, <2>4 DEF PipelineNext
  <1> QED
    BY <1>1, <1>2, <1>3 DEF WakeupInv, WakeupPending

(* Every step of the service keeps the invariant. *)
LEMMA WakeupNextInv ==
    StoreInv /\ ProcessInv /\ WakeupInv /\ [PipelineNext]_pipelineVars => WakeupInv'
  <1> SUFFICES ASSUME StoreInv, ProcessInv, WakeupInv, [PipelineNext]_pipelineVars
               PROVE  WakeupInv'
    OBVIOUS
  <1>1. CASE PipelineNext
    BY <1>1, EventsKnownStep, MarkJustifiedStep, WakeupPendingStep DEF WakeupInv
  <1>2. CASE UNCHANGED pipelineVars
    BY <1>2 DEF pipelineVars, WakeupInv, EventsKnown, KnownEvent, MarkJustified, WakeupPending,
                Wakes, Unpublished, Waiting
  <1> QED
    BY <1>1, <1>2

(* No task and no event to begin with. *)
LEMMA WakeupInitInv == PipelineInit => WakeupInv
  <1> SUFFICES ASSUME PipelineInit PROVE WakeupInv
    OBVIOUS
  <1>1. \A k \in Message : ~Wakes(k)
    BY DEF PipelineInit, StoreInit, Wakes
  <1>2. \A p \in Publisher : publisher[p].pc = "idle"
    BY DEF PipelineInit, IdlePublisher
  <1> QED
    BY <1>1, <1>2 DEF WakeupInv, EventsKnown, MarkJustified, WakeupPending

(* No pending task is forgotten: in every reachable state its event is     *)
(* unpublished or its message is still to be handled, however publishers,  *)
(* workers, failed calls, lost confirms and crashes interleave.            *)
THEOREM NoTaskForgotten == PipelineSpec => []PendingHasWakeup
  <1>1. StoreInv /\ WakeupInv => PendingHasWakeup
    <2> SUFFICES ASSUME StoreInv, WakeupInv, NEW id \in DOMAIN tasks,
                        tasks[id].status = "pending"
                 PROVE  LET k == <<id, tasks[id].generation>> IN
                            \/ k \in DOMAIN outbox /\ outbox[k].publishedAt = "null"
                            \/ Waiting(k)
      BY DEF PendingHasWakeup
    <2> DEFINE k == <<id, tasks[id].generation>>
    <2>1. k \in Message
      BY DEF StoreInv, StoreTypeOK, TaskRow, Message
    <2>2. Wakes(k)
      BY DEF Wakes
    <2> QED
      BY <2>1, <2>2 DEF WakeupInv, WakeupPending, Unpublished
  <1> QED
    BY <1>1, WakeupInitInv, WakeupNextInv, PipelineTyped, PTL DEF PipelineSpec
=============================================================================
