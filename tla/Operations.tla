----------------------------- MODULE Operations -----------------------------
(***************************************************************************)
(* The two operations on tasks that already exist: a caller reads its task *)
(* (GET /v1/notifications/{id}) and an administrator replays a dead one    *)
(* (POST /v1/admin/notifications/{id}/replay). Several clients call at     *)
(* once while the rest of the service works on the same rows. A call runs  *)
(* one statement or transaction and answers some time later, by when the   *)
(* row may have moved on; the answer may also be lost.                     *)
(***************************************************************************)
EXTENDS NotificationStore

CONSTANTS
    Identity,      \* caller and administrator identities
    CallerOf,      \* Request -> the caller_id of the pair
    CallerTokens,  \* CALLER_TOKENS: bearer token -> identity
    AdminTokens,   \* ADMIN_TOKENS: bearer token -> identity
    MaxLost        \* bound: replays of a task whose answer is lost

Bearer == DOMAIN CallerTokens \cup DOMAIN AdminTokens

ASSUME CallerAssumption == CallerOf \in [Request -> Identity]
(* Both are Go maps, read from the environment at start. *)
ASSUME TokensAssumption ==
    /\ CallerTokens \in [DOMAIN CallerTokens -> Identity]
    /\ AdminTokens \in [DOMAIN AdminTokens -> Identity]
    /\ IsFiniteSet(Bearer)
ASSUME MaxLostAssumption == MaxLost \in Nat

VARIABLES
    call,      \* the running call of each client, a client being its token
    seen,      \* history: the last answer each client got to a GET of an id
    granted,   \* history: 202 answers to the replay of each id
    unsure     \* history: replays of each id that were not answered 202 or 409

callVars == <<call, seen, granted, unsure>>
operationsVars == <<storeVars, callVars>>

NoCall == [pc |-> "idle"]
Unread == [status |-> "unread", attempts |-> 0, replays |-> 0]
NotFound == [status |-> "not_found", attempts |-> 0, replays |-> 0]

OperationsInit ==
    /\ StoreInit
    /\ call = [b \in Bearer |-> NoCall]
    /\ seen = [b \in Bearer |-> [id \in Notification |-> Unread]]
    /\ granted = [id \in Notification |-> 0]
    /\ unsure = [id \in Notification |-> 0]

(* authenticate: a token that is not in the route's map is answered 401. *)
Authenticated(tokens, b) == b \in DOMAIN tokens

-----------------------------------------------------------------------------
(* GET. A client knows an id from the 202 that accepted the task. *)

Get(b, id) ==
    /\ call[b].pc = "idle"
    /\ Authenticated(CallerTokens, b)
    /\ call' = [call EXCEPT ![b] =
                   [pc |-> "get", id |-> id, caller |-> CallerTokens[b]]]
    /\ UNCHANGED <<storeVars, seen, granted, unsure>>

Owned(id, caller) == id \in DOMAIN tasks /\ CallerOf[tasks[id].request] = caller

(* What the answer tells of the row; the number of replays the row has had *)
(* is not part of it and only kept for the properties.                     *)
View(id) == [status |-> tasks[id].status, attempts |-> tasks[id].attempts,
             replays |-> replays[id]]

(* The missing task and the task of another caller are both ErrTaskNotFound. *)
GetForCaller(b) ==
    /\ call[b].pc = "get"
    /\ call' = [call EXCEPT ![b] =
                   [pc |-> "read", id |-> call[b].id,
                    view |-> IF Owned(call[b].id, call[b].caller)
                             THEN View(call[b].id) ELSE NotFound]]
    /\ UNCHANGED <<storeVars, seen, granted, unsure>>

AnswerGet(b) ==
    /\ call[b].pc = "read"
    /\ seen' = [seen EXCEPT ![b][call[b].id] = call[b].view]
    /\ call' = [call EXCEPT ![b] = NoCall]
    /\ UNCHANGED <<storeVars, granted, unsure>>

(* The query fails (500), or the client goes away before its answer. *)
GetLost(b) ==
    /\ call[b].pc \in {"get", "read"}
    /\ call' = [call EXCEPT ![b] = NoCall]
    /\ UNCHANGED <<storeVars, seen, granted, unsure>>

-----------------------------------------------------------------------------
(* Replay. *)

Replay(b, id) ==
    /\ call[b].pc = "idle"
    /\ Authenticated(AdminTokens, b)
    /\ call' = [call EXCEPT ![b] = [pc |-> "replay", id |-> id]]
    /\ UNCHANGED <<storeVars, seen, granted, unsure>>

Applied(b) ==
    /\ call[b].pc = "replay"
    /\ ReplayDeadAtomic(call[b].id)
    /\ call' = [call EXCEPT ![b].pc = "replayed"]
    /\ UNCHANGED <<seen, granted, unsure>>

AnswerReplay(b) ==
    /\ call[b].pc = "replayed"
    /\ granted' = [granted EXCEPT ![call[b].id] = @ + 1]
    /\ call' = [call EXCEPT ![b] = NoCall]
    /\ UNCHANGED <<storeVars, seen, unsure>>

(* Mutant: Replay does not look at applied and answers 202. *)
NotAppliedUnnoticed(b) ==
    /\ call[b].pc = "replay"
    /\ ~(call[b].id \in DOMAIN tasks /\ tasks[call[b].id].status = "dead")
    /\ call' = [call EXCEPT ![b].pc = "replayed"]
    /\ UNCHANGED <<storeVars, seen, granted, unsure>>

(* No row is updated, as the task is missing or not dead: ErrNotDead, 409. *)
NotApplied(b) ==
    /\ call[b].pc = "replay"
    /\ ~(call[b].id \in DOMAIN tasks /\ tasks[call[b].id].status = "dead")
    /\ call' = [call EXCEPT ![b] = NoCall]
    /\ UNCHANGED <<storeVars, seen, granted, unsure>>

(* The transaction fails, or its commit takes effect and reports an error  *)
(* (both 500), or the client goes away before its answer.                  *)
ReplayLost(b) ==
    /\ call[b].pc \in {"replay", "replayed"}
    /\ unsure[call[b].id] < MaxLost
    /\ unsure' = [unsure EXCEPT ![call[b].id] = @ + 1]
    /\ call' = [call EXCEPT ![b] = NoCall]
    /\ UNCHANGED <<storeVars, seen, granted>>

-----------------------------------------------------------------------------
(* The rest of the service: intake, publisher, workers, scheduler,         *)
(* retention and the clock. An outbox claim that passes only makes the     *)
(* publisher repeat itself, which neither operation can tell.              *)
Elsewhere ==
    /\ \/ \E id \in Notification, request \in Request, hash \in Hash,
             max \in MaxAttemptsValues : CreateNotification(id, request, hash, max)
       \/ \E k \in DOMAIN outbox, token \in ClaimToken :
             ClaimOutbox({k}, token) \/ MarkPublished(k, token)
       \/ \E id \in DOMAIN tasks, token \in LeaseToken :
             \/ ClaimDelivery(id, token)
             \/ \E outcome \in Outcome : ApplyDeliveryResult(id, token, outcome)
       \/ \E id \in DOMAIN tasks : ScheduleDue({id}) \/ DeleteTerminalBefore({id})
       \/ \E id \in DOMAIN tasks :
             LeaseElapses(id) \/ RetryFallsDue(id) \/ LifetimeElapses(id) \/ RowAges(id)
    /\ UNCHANGED callVars

OperationsNext ==
    \/ \E b \in Bearer, id \in DOMAIN replays : Get(b, id) \/ Replay(b, id)
    \/ \E b \in Bearer :
          \/ GetForCaller(b) \/ AnswerGet(b) \/ GetLost(b)
          \/ Applied(b) \/ NotApplied(b) \/ AnswerReplay(b) \/ ReplayLost(b)
    \/ Elsewhere

OperationsSpec == OperationsInit /\ [][OperationsNext]_operationsVars

-----------------------------------------------------------------------------
(* Properties. *)

(* Replays that took effect and whose answer is still on its way. *)
Unanswered(id) == {b \in Bearer : call[b].pc = "replayed" /\ call[b].id = id}

(* Every 202 to a replay stands for a revival of its own: of the           *)
(* administrators who race for one dead task one is told 202 and the       *)
(* others 409, and a task is revived without a 202 only as often as an     *)
(* administrator was left without an answer. One who repeats a replay      *)
(* after losing its answer can revive the task twice only if it died       *)
(* again in between.                                                       *)
EveryGrantRevives ==
    \A id \in DOMAIN replays :
        LET settled == replays[id] - Cardinality(Unanswered(id))
        IN  /\ granted[id] <= settled
            /\ settled <= granted[id] + unsure[id]

Later(before, after) ==
    \/ before.status = "unread"
    \/ after.status = "not_found"
    \/ /\ {before.status, after.status} \subseteq Status
       /\ after.attempts >= before.attempts
       /\ before.status = "delivered" => after = before
       /\ before.status = "dead" /\ after.status # "dead" =>
             after.replays > before.replays

(* What a client reads of a task only moves forward, however its answers   *)
(* are delayed or lost: the attempt count never falls, delivered stays     *)
(* delivered until the task is gone, a task that was read as dead is read  *)
(* as anything else only after an administrator replayed it, and a task    *)
(* that was not found is never found afterwards.                           *)
ReadsAdvance ==
    [][\A b \in Bearer, id \in Notification :
          seen'[b][id] # seen[b][id] => Later(seen[b][id], seen'[b][id])]_operationsVars
=============================================================================
