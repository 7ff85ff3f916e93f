------------------------ MODULE NotificationService ------------------------
(***************************************************************************)
(* What the service promises its callers, without tables, queue, leases or *)
(* processes: an accepted notification is open until it is settled, the    *)
(* supplier is called a bounded number of times, only a supplier's answer  *)
(* makes it delivered, and only an administrator reopens a dead one.       *)
(***************************************************************************)
EXTENDS Naturals

CONSTANTS
    Notification,       \* ids of notifications
    MaxAttemptsValues,  \* attempts a destination may grant
    MaxReplays          \* bound: times a notification is reopened

VARIABLES
    accepted,   \* ids the caller was promised a delivery for
    current,    \* accepted id that retention has not removed -> its record
    calls       \* calls of suppliers and what they answered

serviceVars == <<accepted, current, calls>>

ServiceInit ==
    /\ accepted = {}
    /\ current = [id \in {} |-> 0]
    /\ calls = {}

(* A new notification: an id is used once, even after its removal. *)
Accept(id, budget) ==
    /\ id \notin accepted
    /\ accepted' = accepted \cup {id}
    /\ current' = [i \in DOMAIN current \cup {id} |->
                     IF i = id THEN [phase |-> "open", budget |-> budget]
                     ELSE current[i]]
    /\ UNCHANGED calls

AttemptNumbers == UNION {1 .. max + MaxReplays : max \in MaxAttemptsValues}

(* One call of the supplier. It may come late, from a worker that was      *)
(* stalled: after the notification was settled or even removed. No attempt *)
(* number is used twice or beyond the budget.                              *)
Call(id, attempt, outcome) ==
    /\ id \in accepted
    /\ id \in DOMAIN current => attempt <= current[id].budget
    /\ \A c \in calls : ~(c.id = id /\ c.attempt = attempt)
    /\ calls' = calls \cup {[id |-> id, attempt |-> attempt, outcome |-> outcome]}
    /\ UNCHANGED <<accepted, current>>

(* A notification is delivered because a supplier said so. *)
Deliver(id) ==
    /\ current[id].phase = "open"
    /\ \E c \in calls : c.id = id /\ c.outcome = "delivered"
    /\ current' = [current EXCEPT ![id].phase = "delivered"]
    /\ UNCHANGED <<accepted, calls>>

(* The service gives up on some open notifications. *)
Bury(ids) ==
    /\ \A id \in ids : current[id].phase = "open"
    /\ current' = [id \in DOMAIN current |->
                     IF id \in ids THEN [current[id] EXCEPT !.phase = "dead"]
                     ELSE current[id]]
    /\ UNCHANGED <<accepted, calls>>

(* An administrator grants a dead notification one more attempt. *)
Reopen(id) ==
    /\ current[id].phase = "dead"
    /\ current' = [current EXCEPT ![id] = [phase |-> "open", budget |-> @.budget + 1]]
    /\ UNCHANGED <<accepted, calls>>

(* Only settled notifications are forgotten. *)
Forget(ids) ==
    /\ \A id \in ids : current[id].phase # "open"
    /\ current' = [id \in DOMAIN current \ ids |-> current[id]]
    /\ UNCHANGED <<accepted, calls>>

ServiceNext ==
    \/ \E id \in Notification, budget \in MaxAttemptsValues : Accept(id, budget)
    \/ \E id \in accepted, attempt \in AttemptNumbers,
          outcome \in {"delivered", "retryable", "permanent"} : Call(id, attempt, outcome)
    \/ \E id \in DOMAIN current : Deliver(id) \/ Reopen(id)
    \/ \E ids \in SUBSET DOMAIN current : Bury(ids) \/ Forget(ids)

ServiceSpec == ServiceInit /\ [][ServiceNext]_serviceVars
=============================================================================
