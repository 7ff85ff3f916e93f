-------------------------- MODULE DeliveryPipeline --------------------------
(***************************************************************************)
(* The service around the store: outbox publishers, the RabbitMQ queue,    *)
(* delivery workers, and the scheduler, intake, replay and retention whose *)
(* steps are the store's own transactions.                                 *)
(*                                                                         *)
(* A call of the database or of the broker returns its answer, or an error *)
(* before it took effect, or an error although it took effect. An error    *)
(* makes a publisher's Run return, which ends the process; it is restarted *)
(* with no memory. Workers and publishers also crash between any two calls.*)
(***************************************************************************)
EXTENDS NotificationStore, Bags

CONSTANTS
    Worker,       \* delivery worker processes, one message at a time each
    Publisher,    \* outbox publisher processes
    MaxCopies     \* bound: copies of one message waiting in the queue

VARIABLES
    ready,        \* bag of messages the queue may deliver
    publisher,    \* local state of outbox.Service.RunOnce, per process
    worker,       \* local state of delivery.Service.Handle, per process
    sends         \* history: what every call of Sender.Send answered

pipelineVars == <<tasks, outbox, replays, ready, publisher, worker, sends>>

(* A message names its event and its notification; an event is identified  *)
(* by <<notification, generation>>, so that pair is the message.           *)
Message == Notification \X Nat
NoMessage == <<>>

IdlePublisher == [pc |-> "idle", token |-> NoToken, batch |-> {},
                  event |-> NoMessage]
IdleWorker == [pc |-> "idle", message |-> NoMessage, token |-> NoToken,
               attempt |-> 0, max |-> 0, outcome |-> "none"]

PipelineInit ==
    /\ StoreInit
    /\ ready = EmptyBag
    /\ publisher = [p \in Publisher |-> IdlePublisher]
    /\ worker = [w \in Worker |-> IdleWorker]
    /\ sends = {}

(* newID() never returns a token twice. A token that no process remembers  *)
(* can be drawn again unnoticed, though: a row is only ever compared with  *)
(* the token of a process that claimed this very row.                      *)
FreshClaimTokens == ClaimToken \ {publisher[p].token : p \in Publisher}
FreshLeaseTokens == LeaseToken \ {worker[w].token : w \in Worker}
NewClaimToken == CHOOSE token \in FreshClaimTokens : TRUE
NewLeaseToken == CHOOSE token \in FreshLeaseTokens : TRUE

Copies(m) == IF BagIn(m, ready) THEN ready[m] ELSE 0
Enqueue(m) == ready (+) SetToBag({m})
Dequeue(m) == ready (-) SetToBag({m})

-----------------------------------------------------------------------------
(* outbox.Service.RunOnce *)

(* The claim is answered with the claimed rows, or the answer is lost and  *)
(* the rows stay claimed by a token nobody remembers.                      *)
ClaimBatch(p) ==
    /\ publisher[p].pc = "idle"
    /\ FreshClaimTokens # {}
    /\ \E batch \in (SUBSET DOMAIN outbox) \ {{}} :
          /\ ClaimOutbox(batch, NewClaimToken)
          /\ publisher' = [publisher EXCEPT ![p] =
                [pc |-> "publish", token |-> NewClaimToken, batch |-> batch,
                 event |-> NoMessage]]
    /\ UNCHANGED <<ready, worker, sends>>

ClaimBatchLost(p) ==
    /\ publisher[p].pc = "idle"
    /\ FreshClaimTokens # {}
    /\ \E batch \in (SUBSET DOMAIN outbox) \ {{}} : ClaimOutbox(batch, NewClaimToken)
    /\ UNCHANGED <<ready, publisher, worker, sends>>

(* The broker stored the message and confirmed it. *)
PublishConfirmed(p) ==
    /\ publisher[p].pc = "publish"
    /\ \E k \in publisher[p].batch :
          /\ Copies(k) < MaxCopies
          /\ ready' = Enqueue(k)
          /\ publisher' = [publisher EXCEPT ![p].pc = "mark", ![p].event = k]
    /\ UNCHANGED <<storeVars, worker, sends>>

(* The message was returned, refused or never sent, or it was stored and   *)
(* its confirm was lost.                                                   *)
PublishFails(p) ==
    /\ publisher[p].pc = "publish"
    /\ \E k \in publisher[p].batch :
          \/ ready' = ready
          \/ Copies(k) < MaxCopies /\ ready' = Enqueue(k)
    /\ publisher' = [publisher EXCEPT ![p] = IdlePublisher]
    /\ UNCHANGED <<storeVars, worker, sends>>

AfterMark(state) ==
    LET rest == state.batch \ {state.event}
    IN  IF rest = {} THEN IdlePublisher
        ELSE [state EXCEPT !.pc = "publish", !.batch = rest, !.event = NoMessage]

(* MarkPublished is answered: it applied, or another publisher has taken   *)
(* the claim over or published the event.                                  *)
MarkEvent(p) ==
    /\ publisher[p].pc = "mark"
    /\ IF ClaimStillHeld(publisher[p].event, publisher[p].token)
       THEN MarkPublished(publisher[p].event, publisher[p].token)
       ELSE UNCHANGED storeVars
    /\ publisher' = [publisher EXCEPT ![p] = AfterMark(publisher[p])]
    /\ UNCHANGED <<ready, worker, sends>>

MarkEventFails(p) ==
    /\ publisher[p].pc = "mark"
    /\ \/ MarkPublished(publisher[p].event, publisher[p].token)
       \/ UNCHANGED storeVars
    /\ publisher' = [publisher EXCEPT ![p] = IdlePublisher]
    /\ UNCHANGED <<ready, worker, sends>>

CrashPublisher(p) ==
    /\ publisher[p].pc # "idle"
    /\ publisher' = [publisher EXCEPT ![p] = IdlePublisher]
    /\ UNCHANGED <<storeVars, ready, worker, sends>>

-----------------------------------------------------------------------------
(* delivery.Service.Handle and the consumer loop around it *)

Receive(w, m) ==
    /\ worker[w].pc = "idle"
    /\ BagIn(m, ready)
    /\ ready' = Dequeue(m)
    /\ worker' = [worker EXCEPT ![w].pc = "claim", ![w].message = m]
    /\ UNCHANGED <<storeVars, publisher, sends>>

(* The consumer loop acknowledges the message; the acknowledgement is lost *)
(* with the process or its connection, and the broker redelivers.          *)
Ack(w) ==
    /\ ready' = ready \/ ready' = Enqueue(worker[w].message)
    /\ worker' = [worker EXCEPT ![w] = IdleWorker]

(* Mutant: the message is refused without requeue. *)
NackDiscarding(w) ==
    /\ ready' = ready
    /\ worker' = [worker EXCEPT ![w] = IdleWorker]

(* Nack with requeue, or the broker's own requeue when the process dies or *)
(* loses its connection.                                                   *)
Requeue(w) ==
    /\ ready' = Enqueue(worker[w].message)
    /\ worker' = [worker EXCEPT ![w] = IdleWorker]

(* Mutant: the claimed attempt is numbered from the row before it. *)
ClaimTaskMiscounted(w) == LET id == worker[w].message[1] IN
    /\ worker[w].pc = "claim"
    /\ FreshLeaseTokens # {}
    /\ ClaimDelivery(id, NewLeaseToken)
    /\ worker' = [worker EXCEPT ![w].pc = "send", ![w].token = NewLeaseToken,
                                ![w].attempt = tasks[id].attempts - 1,
                                ![w].max = tasks[id].maxAttempts]
    /\ UNCHANGED <<ready, publisher, sends>>

(* The message only names a notification: whatever generation is pending   *)
(* is claimed.                                                             *)
ClaimTask(w) == LET id == worker[w].message[1] IN
    /\ worker[w].pc = "claim"
    /\ FreshLeaseTokens # {}
    /\ ClaimDelivery(id, NewLeaseToken)
    /\ worker' = [worker EXCEPT ![w].pc = "send", ![w].token = NewLeaseToken,
                                ![w].attempt = tasks[id].attempts + 1,
                                ![w].max = tasks[id].maxAttempts]
    /\ UNCHANGED <<ready, publisher, sends>>

ClaimNotAcquired(w) == LET id == worker[w].message[1] IN
    /\ worker[w].pc = "claim"
    /\ id \in DOMAIN tasks => tasks[id].status # "pending"
    /\ Ack(w)
    /\ UNCHANGED <<storeVars, publisher, sends>>

ClaimTaskFails(w) ==
    /\ worker[w].pc = "claim"
    /\ \/ FreshLeaseTokens # {} /\ ClaimDelivery(worker[w].message[1], NewLeaseToken)
       \/ UNCHANGED storeVars
    /\ Requeue(w)
    /\ UNCHANGED <<publisher, sends>>

(* Limiter.Acquire fails because the context was cancelled. That it grants *)
(* a slot changes nothing here and is part of Send.                        *)
AcquireCancelled(w) ==
    /\ worker[w].pc = "send"
    /\ Requeue(w)
    /\ UNCHANGED <<storeVars, publisher, sends>>

(* NextAttempt grants no retry once max_attempts is reached, and may grant *)
(* none before that (no delays, a delay beyond the lifetime).              *)
AppliedOutcomes(outcome, attempt, max) ==
    IF outcome # "retryable" THEN {outcome}
    ELSE IF attempt >= max THEN {"permanent"}
    ELSE {"retryable", "permanent"}

(* One call of Sender.Send, from the request to its classified answer.     *)
Send(w) == LET id == worker[w].message[1] IN
    /\ worker[w].pc = "send"
    /\ \E outcome \in Outcome :
          /\ sends' = sends \cup
                {[id |-> id, attempt |-> worker[w].attempt, outcome |-> outcome]}
          /\ \E applied \in AppliedOutcomes(outcome, worker[w].attempt, worker[w].max) :
                worker' = [worker EXCEPT ![w].pc = "apply", ![w].outcome = applied]
    /\ UNCHANGED <<storeVars, ready, publisher>>

ApplyResult(w) == LET id == worker[w].message[1] IN
    /\ worker[w].pc = "apply"
    /\ IF LeaseStillHeld(id, worker[w].token)
       THEN ApplyDeliveryResult(id, worker[w].token, worker[w].outcome)
       ELSE UNCHANGED storeVars
    /\ Ack(w)
    /\ UNCHANGED <<publisher, sends>>

ApplyResultFails(w) ==
    /\ worker[w].pc = "apply"
    /\ \/ ApplyDeliveryResult(worker[w].message[1], worker[w].token, worker[w].outcome)
       \/ UNCHANGED storeVars
    /\ Requeue(w)
    /\ UNCHANGED <<publisher, sends>>

CrashWorker(w) ==
    /\ worker[w].pc # "idle"
    /\ Requeue(w)
    /\ UNCHANGED <<storeVars, publisher, sends>>

-----------------------------------------------------------------------------
(* The steps of intake, scheduler, replay and retention. Each is a single  *)
(* transaction of a process that remembers nothing, so an error without    *)
(* effect is no step and an error with effect is the step itself.          *)

Environment ==
    /\ \/ \E id \in Notification, request \in Request, hash \in Hash,
             max \in MaxAttemptsValues : CreateNotification(id, request, hash, max)
       \/ \E batch \in (SUBSET DOMAIN tasks) \ {{}} : ScheduleDue(batch)
       \/ \E id \in DOMAIN tasks : ReplayDeadAtomic(id)
       \/ \E batch \in (SUBSET DOMAIN tasks) \ {{}} : DeleteTerminalBefore(batch)
       \/ TimePasses
    /\ UNCHANGED <<ready, publisher, worker, sends>>

PublisherStep(p) ==
    \/ ClaimBatch(p) \/ ClaimBatchLost(p)
    \/ PublishConfirmed(p) \/ PublishFails(p)
    \/ MarkEvent(p) \/ MarkEventFails(p)
    \/ CrashPublisher(p)

WorkerStep(w) ==
    \/ \E m \in DOMAIN ready : Receive(w, m)
    \/ ClaimTask(w) \/ ClaimNotAcquired(w) \/ ClaimTaskFails(w)
    \/ AcquireCancelled(w) \/ Send(w)
    \/ ApplyResult(w) \/ ApplyResultFails(w)
    \/ CrashWorker(w)

PipelineNext ==
    \/ \E p \in Publisher : PublisherStep(p)
    \/ \E w \in Worker : WorkerStep(w)
    \/ Environment

PipelineSpec == PipelineInit /\ [][PipelineNext]_pipelineVars

-----------------------------------------------------------------------------
(* Fairness. The loops poll for ever and processes are restarted: a step   *)
(* of a loop that stays possible is taken (WF). A database or broker call  *)
(* that is retried for ever does not fail for ever (SF on its success).    *)
(* Nothing is assumed of crashes, failures, replays, retention or of the   *)
(* end of a lifetime.                                                      *)

Unchanged(action) == action /\ UNCHANGED <<ready, publisher, worker, sends>>

ReceiveFor(w, id) == \E m \in DOMAIN ready : m[1] = id /\ Receive(w, m)

ScheduleFor(id) ==
    \E batch \in SUBSET DOMAIN tasks : id \in batch /\ ScheduleDue(batch)

Fairness ==
    /\ \A p \in Publisher :
          /\ SF_pipelineVars(ClaimBatch(p))
          /\ SF_pipelineVars(PublishConfirmed(p))
          /\ WF_pipelineVars(MarkEvent(p))
    /\ \A w \in Worker :
          /\ \A id \in Notification : SF_pipelineVars(ReceiveFor(w, id))
          /\ SF_pipelineVars(ClaimTask(w))
          /\ WF_pipelineVars(WorkerStep(w))
    /\ WF_pipelineVars(Unchanged(\E k \in DOMAIN outbox : ClaimElapses(k)))
    /\ \A id \in Notification :
          /\ WF_pipelineVars(Unchanged(id \in DOMAIN tasks /\ LeaseElapses(id)))
          /\ WF_pipelineVars(Unchanged(id \in DOMAIN tasks /\ RetryFallsDue(id)))
          /\ WF_pipelineVars(Unchanged(ScheduleFor(id)))

FairPipelineSpec == PipelineSpec /\ Fairness

-----------------------------------------------------------------------------
(* Properties. *)

PublisherState ==
    [pc : {"idle", "publish", "mark"}, token : ClaimToken \cup {NoToken},
     batch : SUBSET Message, event : Message \cup {NoMessage}]

WorkerState ==
    [pc : {"idle", "claim", "send", "apply"},
     message : Message \cup {NoMessage}, token : LeaseToken \cup {NoToken},
     attempt : Nat, max : Nat, outcome : Outcome \cup {"none"}]

(* The queue holds positive counts of messages; processes hold messages,   *)
(* tokens and outcomes.                                                    *)
PipelineTypeOK ==
    /\ StoreTypeOK
    /\ IsABag(ready) /\ DOMAIN ready \subseteq Message
    /\ publisher \in [Publisher -> PublisherState]
    /\ worker \in [Worker -> WorkerState]
    /\ sends \subseteq [id : Notification, attempt : Nat, outcome : Outcome]

(* Message m will still be handled: it is in the queue, or a worker holds  *)
(* it that has not claimed the task with it.                               *)
Waiting(m) ==
    \/ BagIn(m, ready)
    \/ \E w \in Worker : worker[w].pc = "claim" /\ worker[w].message = m

(* No task is forgotten: the scheduler never looks at pending rows, so a   *)
(* pending task lives by its message alone. Its event is still unpublished *)
(* or its message is still to be handled, whatever confirm, answer,        *)
(* acknowledgement or process was lost on the way.                         *)
PendingHasWakeup ==
    \A id \in DOMAIN tasks : tasks[id].status = "pending" =>
        LET k == <<id, tasks[id].generation>> IN
            \/ k \in DOMAIN outbox /\ outbox[k].publishedAt = "null"
            \/ Waiting(k)

(* Fencing: what a row says of its delivery was answered to the attempt it *)
(* counts last. The late result of a worker whose lease expired never      *)
(* settles or delays a newer attempt.                                      *)
ResultIsOfLastAttempt ==
    \A id \in DOMAIN tasks :
        /\ tasks[id].status = "delivered" =>
              [id |-> id, attempt |-> tasks[id].attempts, outcome |-> "delivered"] \in sends
        /\ tasks[id].status = "retry_wait" =>
              [id |-> id, attempt |-> tasks[id].attempts, outcome |-> "retryable"] \in sends

(* An attempt is sent at most once: however often a message is duplicated  *)
(* or redelivered and whichever worker died, a worker about to send is the *)
(* only one that ever does for its attempt number, and every send was      *)
(* counted by the row.                                                     *)
OneSendPerAttempt ==
    /\ \A w \in Worker : worker[w].pc = "send" =>
          \A s \in sends : ~ ( /\ s.id = worker[w].message[1]
                              /\ s.attempt = worker[w].attempt )
    /\ \A v, w \in Worker :
          /\ v # w
          /\ worker[v].pc = "send"
          /\ worker[w].pc = "send"
          /\ worker[v].message[1] = worker[w].message[1]
          => worker[v].attempt # worker[w].attempt
    /\ \A s \in sends : s.id \in DOMAIN tasks =>
          s.attempt \in 1 .. tasks[s.id].attempts

(* Every accepted notification is settled in the end (delivered or dead,   *)
(* or already removed by retention), and again after every replay, although *)
(* calls fail, leases and claims expire and processes crash.               *)
EventuallySettled ==
    \A id \in Notification :
        id \in DOMAIN tasks ~>
            (id \in DOMAIN tasks => tasks[id].status \in Terminal)
=============================================================================
