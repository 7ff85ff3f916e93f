------------------------------- MODULE AppRun -------------------------------
(***************************************************************************)
(* app.Run, the supervisor of roles with a graceful shutdown. Roles run    *)
(* under a context of their own; the parent's end or the first report      *)
(* stops the claims of every role, cancels that context and waits for the  *)
(* roles until a deadline. Run is exercised by its test; RunConfigured     *)
(* does not use it.                                                        *)
(***************************************************************************)
EXTENDS Sequences

CONSTANT Roles    \* the roles to run

VARIABLES
    supervisor,      \* select, stop, wait, returned
    parent,          \* the parent context is done
    rolesCancelled,  \* the context of the roles is cancelled
    claiming,        \* roles that may take new work
    state,           \* role -> idle, working or ended
    errors,          \* errorsChannel
    failure,         \* the report that ended the select
    result           \* what Run returned

appVars == <<supervisor, parent, rolesCancelled, claiming, state, errors, failure, result>>

AppInit ==
    /\ supervisor = "select"
    /\ parent = FALSE
    /\ rolesCancelled = FALSE
    /\ claiming = Roles
    /\ state = [r \in Roles |-> "idle"]
    /\ errors = <<>>
    /\ failure = "none"
    /\ result = "none"

Work(r) ==
    /\ state[r] \in {"idle", "working"}
    /\ r \in claiming \/ state[r] = "working"
    /\ state' = [state EXCEPT ![r] = IF @ = "idle" THEN "working" ELSE "idle"]
    /\ UNCHANGED <<supervisor, parent, rolesCancelled, claiming, errors, failure, result>>

(* A role returns: nil or cancelled between two pieces of work, or with an *)
(* error at any time.                                                      *)
RoleReturns(r, err) ==
    /\ state[r] # "ended"
    /\ err # "error" => state[r] = "idle"
    /\ err = "canceled" => rolesCancelled
    /\ state' = [state EXCEPT ![r] = "ended"]
    /\ errors' = Append(errors, err)
    /\ UNCHANGED <<supervisor, parent, rolesCancelled, claiming, failure, result>>

ParentEnds ==
    /\ ~parent
    /\ parent' = TRUE
    /\ UNCHANGED <<supervisor, rolesCancelled, claiming, state, errors, failure, result>>

Select ==
    /\ supervisor = "select"
    /\ \/ parent /\ failure' = "none" /\ UNCHANGED errors
       \/ errors # <<>> /\ failure' = Head(errors) /\ errors' = Tail(errors)
    /\ supervisor' = "stop"
    /\ UNCHANGED <<parent, rolesCancelled, claiming, state, result>>

(* StopClaims of one role after the other. *)
StopClaims(r) ==
    /\ supervisor = "stop"
    /\ r \in claiming
    /\ claiming' = claiming \ {r}
    /\ UNCHANGED <<supervisor, parent, rolesCancelled, state, errors, failure, result>>

Cancel ==
    /\ supervisor = "stop"
    /\ claiming = {}
    /\ rolesCancelled' = TRUE
    /\ IF failure = "error" THEN supervisor' = "returned" /\ result' = "role failed"
       ELSE supervisor' = "wait" /\ UNCHANGED result
    /\ UNCHANGED <<parent, claiming, state, errors, failure>>

Done ==
    /\ supervisor = "wait"
    /\ \A r \in Roles : state[r] = "ended"
    /\ supervisor' = "returned" /\ result' = "nil"
    /\ UNCHANGED <<parent, rolesCancelled, claiming, state, errors, failure>>

Deadline ==
    /\ supervisor = "wait"
    /\ supervisor' = "returned" /\ result' = "graceful shutdown exceeded"
    /\ UNCHANGED <<parent, rolesCancelled, claiming, state, errors, failure>>

AppNext ==
    \/ \E r \in Roles : Work(r) \/ StopClaims(r)
                        \/ \E err \in {"nil", "canceled", "error"} : RoleReturns(r, err)
    \/ ParentEnds \/ Select \/ Cancel \/ Done \/ Deadline

AppSpec == AppInit /\ [][AppNext]_appVars

(* Run itself is never blocked: the deadline ends its wait. *)
AppFairness ==
    WF_appVars(Select \/ (\E r \in Roles : StopClaims(r)) \/ Cancel \/ Done \/ Deadline)

-----------------------------------------------------------------------------
(* Run returns after the parent's end or the first report of a role,       *)
(* although other roles never return.                                      *)
RunReturns == (parent \/ errors # <<>>) ~> (supervisor = "returned")
=============================================================================
