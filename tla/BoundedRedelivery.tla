------------------------- MODULE BoundedRedelivery -------------------------
(***************************************************************************)
(* DeliveryPipeline over a queue that counts. declare() asks for a quorum  *)
(* queue and sets neither x-delivery-limit nor a dead-letter exchange: the *)
(* broker counts how often it got a message back and drops the message     *)
(* when it comes back once more than its own limit (20 by default in the   *)
(* RabbitMQ 4.1 of deployments/compose.yaml). DeliveryPipeline itself has  *)
(* a queue that keeps a message for ever, and there PendingHasWakeup       *)
(* holds. Here it does not: Handle requeues at once on every error, so     *)
(* that a short outage of the database uses the whole limit up.            *)
(***************************************************************************)
EXTENDS DeliveryPipeline

CONSTANT DeliveryLimit    \* times a message may come back to the queue

VARIABLES
    counted,   \* bag of <<message, times it came back>> waiting in the queue
    held       \* worker -> times the message it holds had come back

boundedVars == <<pipelineVars, counted, held>>

BoundedInit ==
    /\ PipelineInit
    /\ counted = EmptyBag
    /\ held = [w \in Worker |-> 0]

(* A published message starts at zero. *)
CountPublished ==
    /\ counted' = IF BagCardinality(ready') > BagCardinality(ready)
                  THEN counted (+) SetToBag({<<m, 0>> : m \in
                                       {n \in DOMAIN ready' : Copies(n)' > Copies(n)}})
                  ELSE counted
    /\ UNCHANGED held

(* The message a worker receives brings its count along. *)
CountReceived(w) ==
    /\ worker[w].pc = "idle"
    /\ \E n \in 0 .. DeliveryLimit :
          LET entry == <<worker'[w].message, n>> IN
              /\ BagIn(entry, counted)
              /\ counted' = counted (-) SetToBag({entry})
              /\ held' = [held EXCEPT ![w] = n]

(* It is kept, acknowledged, or comes back while the limit allows it. *)
CountReturned(w) ==
    /\ worker[w].pc # "idle"
    /\ \/ ready' = ready /\ UNCHANGED counted
       \/ /\ ready' # ready
          /\ held[w] < DeliveryLimit
          /\ counted' = counted (+) SetToBag({<<worker[w].message, held[w] + 1>>})
    /\ held' = [held EXCEPT ![w] = IF worker'[w].pc = "idle" THEN 0 ELSE @]

(* One return more: Nack with requeue, a lost connection or a crash. *)
Drop(w) ==
    /\ worker[w].pc # "idle"
    /\ held[w] >= DeliveryLimit
    /\ worker' = [worker EXCEPT ![w] = IdleWorker]
    /\ held' = [held EXCEPT ![w] = 0]
    /\ UNCHANGED <<storeVars, ready, publisher, sends, counted>>

BoundedNext ==
    \/ \E p \in Publisher : PublisherStep(p) /\ CountPublished
    \/ \E w \in Worker : WorkerStep(w) /\ (CountReceived(w) \/ CountReturned(w))
    \/ \E w \in Worker : Drop(w)
    \/ Environment /\ UNCHANGED <<counted, held>>

BoundedSpec == BoundedInit /\ [][BoundedNext]_boundedVars
=============================================================================
