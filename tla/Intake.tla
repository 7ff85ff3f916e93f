------------------------------- MODULE Intake -------------------------------
(***************************************************************************)
(* POST /v1/notifications: intake.Service.Create over Store.CreateOrGet,   *)
(* called by several clients at once, who may repeat a call whose answer   *)
(* they lost. The insert and the lookup after a conflict are two separate  *)
(* statements; everything else the store does may happen between them.     *)
(* A call that is refused before it reaches the store (unknown destination,*)
(* invalid payload or key) changes nothing and is left out.                *)
(***************************************************************************)
EXTENDS NotificationStore

CONSTANT Client

VARIABLES
    call,       \* the running call of each client
    accepted,   \* history: 202 answers
    refused     \* history: 409 answers

intakeVars == <<tasks, outbox, replays, call, accepted, refused>>

NoCall == [pc |-> "idle"]

IntakeInit ==
    /\ StoreInit
    /\ call = [c \in Client |-> NoCall]
    /\ accepted = {}
    /\ refused = {}

FreshIds == Notification \ DOMAIN replays

Post(c) ==
    /\ call[c].pc = "idle"
    /\ \E request \in Request, hash \in Hash :
          call' = [call EXCEPT ![c] =
                      [pc |-> "insert", request |-> request, hash |-> hash]]
    /\ UNCHANGED <<storeVars, accepted, refused>>

Answer(c) == call' = [call EXCEPT ![c] = NoCall]

Accept(c, id) ==
    accepted' = accepted \cup
        {[request |-> call[c].request, hash |-> call[c].hash, id |-> id]}

(* WithTx commits both rows; or it fails, before or after the commit took  *)
(* effect, and the client gets a 500.                                      *)
Insert(c) ==
    /\ call[c].pc = "insert"
    /\ \E id \in FreshIds, max \in MaxAttemptsValues :
          /\ CreateNotification(id, call[c].request, call[c].hash, max)
          /\ Accept(c, id) \/ UNCHANGED accepted
    /\ Answer(c)
    /\ UNCHANGED refused

InsertFails(c) ==
    /\ call[c].pc = "insert"
    /\ Answer(c)
    /\ UNCHANGED <<storeVars, accepted, refused>>

InsertConflicts(c) ==
    /\ call[c].pc = "insert"
    /\ RequestTaken(call[c].request)
    /\ call' = [call EXCEPT ![c].pc = "lookup"]
    /\ UNCHANGED <<storeVars, accepted, refused>>

(* Mutant: the stored hash is not compared. *)
LookupAnyHash(c) ==
    /\ call[c].pc = "lookup"
    /\ \E id \in DOMAIN tasks :
          tasks[id].request = call[c].request /\ Accept(c, id)
    /\ Answer(c)
    /\ UNCHANGED <<storeVars, refused>>

(* GetByCallerAndKey finds the row and its hash decides; or retention has  *)
(* removed it since the conflict (ErrNotFound), or the query fails, which  *)
(* are both a 500.                                                         *)
Lookup(c) ==
    /\ call[c].pc = "lookup"
    /\ \E id \in DOMAIN tasks :
          /\ tasks[id].request = call[c].request
          /\ IF tasks[id].hash = call[c].hash
             THEN Accept(c, id) /\ UNCHANGED refused
             ELSE /\ refused' = refused \cup
                       {[request |-> call[c].request, hash |-> call[c].hash, id |-> id]}
                  /\ UNCHANGED accepted
    /\ Answer(c)
    /\ UNCHANGED storeVars

LookupFails(c) ==
    /\ call[c].pc = "lookup"
    /\ Answer(c)
    /\ UNCHANGED <<storeVars, accepted, refused>>

(* The rest of the service works on accepted tasks meanwhile. *)
Elsewhere ==
    /\ \/ \E k \in DOMAIN outbox, token \in ClaimToken :
             ClaimOutbox({k}, token) \/ MarkPublished(k, token)
       \/ \E id \in DOMAIN tasks, token \in LeaseToken :
             \/ ClaimDelivery(id, token)
             \/ \E outcome \in Outcome : ApplyDeliveryResult(id, token, outcome)
       \/ \E batch \in (SUBSET DOMAIN tasks) \ {{}} :
             ScheduleDue(batch) \/ DeleteTerminalBefore(batch)
       \/ \E id \in DOMAIN tasks : ReplayDeadAtomic(id)
       \/ TimePasses
    /\ UNCHANGED <<call, accepted, refused>>

IntakeNext ==
    \/ \E c \in Client :
          Post(c) \/ Insert(c) \/ InsertFails(c) \/ InsertConflicts(c)
          \/ Lookup(c) \/ LookupFails(c)
    \/ Elsewhere

IntakeSpec == IntakeInit /\ [][IntakeNext]_intakeVars

-----------------------------------------------------------------------------
(* Properties. *)

(* A 202 names a task that was committed with its first event, and for as  *)
(* long as that task exists it is the one and only task of this key and    *)
(* has the content this client sent, whoever inserted it.                  *)
AcceptedIsTheTask ==
    \A a \in accepted :
        /\ a.id \in DOMAIN replays
        /\ a.id \in DOMAIN tasks =>
              /\ tasks[a.id].hash = a.hash
              /\ \A id \in DOMAIN tasks : tasks[id].request = a.request <=> id = a.id

(* The same key never answers with two tasks: two 202s that name different *)
(* tasks are separated by the removal of the first, and a 409 is only      *)
(* given for content that differs from what the named task was accepted    *)
(* with.                                                                   *)
AnswersAgree ==
    /\ \A a, b \in accepted :
          a.request = b.request /\ a.id # b.id => {a.id, b.id} \ DOMAIN tasks # {}
    /\ \A a \in accepted, r \in refused : a.id = r.id => a.hash # r.hash
=============================================================================
