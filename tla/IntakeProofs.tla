---------------------------- MODULE IntakeProofs ----------------------------
(***************************************************************************)
(* Proofs that intake is idempotent, for any number of clients, keys,      *)
(* contents and ids: AcceptedIsTheTask and AnswersAgree; and, at the end,  *)
(* about the registry of destinations that intake answers from.            *)
(*                                                                         *)
(* Insert and lookup are two statements with anything in between, so       *)
(* neither answer is justified by what the call itself has seen. Both rest *)
(* on three facts about rows: a key has one row at most, a row keeps key   *)
(* and content for as long as it exists, and an id that was removed never  *)
(* comes back. The history of 409s has to be related to the rows as well:  *)
(* a 202 that is given later compares with the row and not with them.      *)
(***************************************************************************)
EXTENDS Intake, NotificationStoreProofs, Registry, FiniteSetTheorems, SequenceTheorems

Call == {NoCall} \cup [pc : {"insert", "lookup"}, request : Request, hash : Hash]

(* UNIQUE (caller_id, idempotency_key). *)
OneRowPerRequest ==
    \A i, j \in DOMAIN tasks : tasks[i].request = tasks[j].request => i = j

AcceptedIsStored ==
    \A a \in accepted :
        /\ a.id \in DOMAIN replays
        /\ a.id \in DOMAIN tasks =>
              tasks[a.id].hash = a.hash /\ tasks[a.id].request = a.request

RefusedDiffers ==
    \A r \in refused :
        /\ r.id \in DOMAIN replays
        /\ r.id \in DOMAIN tasks => tasks[r.id].hash # r.hash

NeverBoth == \A a \in accepted, r \in refused : a.id = r.id => a.hash # r.hash

IntakeInv ==
    /\ StoreInv
    /\ call \in [Client -> Call]
    /\ OneRowPerRequest
    /\ AcceptedIsStored
    /\ RefusedDiffers
    /\ NeverBoth

-----------------------------------------------------------------------------
(* The store. *)

(* No statement rewrites the content of a row. *)
LEMMA TransformersKeepHash ==
    ASSUME NEW row \in TaskRow
    PROVE  /\ \A token : Leased(row, token).hash = row.hash
           /\ \A result : Settled(row, result).hash = row.hash
           /\ AfterDue(row).hash = row.hash
           /\ Replayed(row).hash = row.hash
           /\ [row EXCEPT !.lease = "passed"].hash = row.hash
           /\ [row EXCEPT !.nextAttempt = "passed"].hash = row.hash
           /\ [row EXCEPT !.lifetime = "passed"].hash = row.hash
           /\ [row EXCEPT !.updated = "aged"].hash = row.hash
  BY DEF TaskRow, Leased, Settled, AfterDue, Buried, Rescheduled, Replayed

(* A row that survives a statement keeps its key and its content. *)
LEMMA ContentKept ==
    ASSUME StoreInv, StoreNext, NEW id \in DOMAIN tasks, id \in DOMAIN tasks'
    PROVE  tasks'[id].hash = tasks[id].hash /\ tasks'[id].request = tasks[id].request
  <1>0. tasks[id] \in TaskRow /\ id \in DOMAIN replays
    BY RowsAreGood DEF GoodRow
  <1>1. tasks'[id].request = tasks[id].request
    BY StepAdvancesRows DEF Advances
  <1>2. CASE \E i \in Notification, request \in Request, hash \in Hash,
                max \in MaxAttemptsValues : CreateNotification(i, request, hash, max)
    BY <1>0, <1>1, <1>2 DEF CreateNotification
  <1>3. CASE \/ \E batch \in (SUBSET DOMAIN outbox) \ {{}}, token \in ClaimToken :
                   ClaimOutbox(batch, token)
             \/ \E k \in DOMAIN outbox, token \in ClaimToken : MarkPublished(k, token)
             \/ \E k \in DOMAIN outbox : ClaimElapses(k)
             \/ \E batch \in (SUBSET DOMAIN tasks) \ {{}} : DeleteTerminalBefore(batch)
    BY <1>1, <1>3 DEF ClaimOutbox, MarkPublished, ClaimElapses, DeleteTerminalBefore
  <1>4. CASE \E i \in DOMAIN tasks, token \in LeaseToken : ClaimDelivery(i, token)
    <2>1. \E token : tasks'[id] \in {tasks[id], Leased(tasks[id], token)}
      BY <1>4 DEF ClaimDelivery
    <2> QED
      BY <1>0, <1>1, <2>1, TransformersKeepHash
  <1>5. CASE \E i \in DOMAIN tasks, token \in LeaseToken, result \in Outcome :
                ApplyDeliveryResult(i, token, result)
    <2>1. \E result : tasks'[id] \in {tasks[id], Settled(tasks[id], result)}
      BY <1>5 DEF ApplyDeliveryResult
    <2> QED
      BY <1>0, <1>1, <2>1, TransformersKeepHash
  <1>6. CASE \E batch \in (SUBSET DOMAIN tasks) \ {{}} : ScheduleDue(batch)
    <2>1. tasks'[id] \in {tasks[id], AfterDue(tasks[id])}
      BY <1>6 DEF ScheduleDue
    <2> QED
      BY <1>0, <1>1, <2>1, TransformersKeepHash
  <1>7. CASE \E i \in DOMAIN tasks : ReplayDeadAtomic(i)
    <2>1. tasks'[id] \in {tasks[id], Replayed(tasks[id])}
      BY <1>7 DEF ReplayDeadAtomic
    <2> QED
      BY <1>0, <1>1, <2>1, TransformersKeepHash
  <1>8. CASE \E i \in DOMAIN tasks :
                LeaseElapses(i) \/ RetryFallsDue(i) \/ LifetimeElapses(i) \/ RowAges(i)
    <2>1. \/ tasks'[id] = tasks[id]
          \/ tasks'[id] = [tasks[id] EXCEPT !.lease = "passed"]
          \/ tasks'[id] = [tasks[id] EXCEPT !.nextAttempt = "passed"]
          \/ tasks'[id] = [tasks[id] EXCEPT !.lifetime = "passed"]
          \/ tasks'[id] = [tasks[id] EXCEPT !.updated = "aged"]
      BY <1>8 DEF LeaseElapses, RetryFallsDue, LifetimeElapses, RowAges
    <2> QED
      BY <1>0, <1>1, <2>1, TransformersKeepHash
  <1> QED
    BY <1>2, <1>3, <1>4, <1>5, <1>6, <1>7, <1>8 DEF StoreNext, TimePasses

(* The rest of the service runs the store's statements and inserts no row. *)
LEMMA ElsewhereOnStore ==
    ASSUME Elsewhere
    PROVE  StoreNext /\ DOMAIN tasks' \subseteq DOMAIN tasks /\ DOMAIN replays' = DOMAIN replays
  <1>1. StoreNext
    <2>1. ASSUME NEW k \in DOMAIN outbox
          PROVE  {k} \in (SUBSET DOMAIN outbox) \ {{}}
      OBVIOUS
    <2> QED
      BY <2>1 DEF Elsewhere, StoreNext
  <1>2. DOMAIN tasks' \subseteq DOMAIN tasks
    BY DEF Elsewhere, ClaimOutbox, MarkPublished, ClaimDelivery, ApplyDeliveryResult,
           ScheduleDue, DeleteTerminalBefore, ReplayDeadAtomic, TimePasses, ClaimElapses,
           LeaseElapses, RetryFallsDue, LifetimeElapses, RowAges
  <1>3. DOMAIN replays' = DOMAIN replays
    BY DEF Elsewhere, ClaimOutbox, MarkPublished, ClaimDelivery, ApplyDeliveryResult,
           ScheduleDue, DeleteTerminalBefore, ReplayDeadAtomic, TimePasses, ClaimElapses,
           LeaseElapses, RetryFallsDue, LifetimeElapses, RowAges
  <1> QED
    BY <1>1, <1>2, <1>3

-----------------------------------------------------------------------------
(* One lemma per step. *)

(* Whatever else happens to the rows, the answers given stay true. *)
LEMMA ElsewhereStep ==
    ASSUME IntakeInv, Elsewhere
    PROVE  IntakeInv'
  <1>1. StoreNext /\ DOMAIN tasks' \subseteq DOMAIN tasks /\ DOMAIN replays' = DOMAIN replays
    BY ElsewhereOnStore
  <1>2. UNCHANGED <<call, accepted, refused>>
    BY DEF Elsewhere
  <1>3. StoreInv'
    BY <1>1, StoreNextInv DEF IntakeInv
  <1>4. \A id \in DOMAIN tasks' :
           tasks'[id].hash = tasks[id].hash /\ tasks'[id].request = tasks[id].request
    BY <1>1, ContentKept DEF IntakeInv
  <1>5. OneRowPerRequest'
    BY <1>1, <1>4 DEF IntakeInv, OneRowPerRequest
  <1>6. AcceptedIsStored' /\ RefusedDiffers' /\ NeverBoth'
    BY <1>1, <1>2, <1>4 DEF IntakeInv, AcceptedIsStored, RefusedDiffers, NeverBoth
  <1> QED
    BY <1>2, <1>3, <1>5, <1>6 DEF IntakeInv

(* A call that starts, meets a conflict or fails answers nothing. *)
LEMMA SilentStep ==
    ASSUME IntakeInv, NEW c \in Client,
           Post(c) \/ InsertFails(c) \/ InsertConflicts(c) \/ LookupFails(c)
    PROVE  IntakeInv'
  <1>1. UNCHANGED <<storeVars, accepted, refused>>
    BY DEF Post, InsertFails, InsertConflicts, LookupFails
  <1>2. call' \in [Client -> Call]
    <2>1. CASE Post(c)
      BY <2>1 DEF IntakeInv, Post, Call
    <2>2. CASE InsertFails(c) \/ LookupFails(c)
      BY <2>2 DEF IntakeInv, InsertFails, LookupFails, Answer, Call
    <2>3. CASE InsertConflicts(c)
      <3>1. call[c] \in [pc : {"insert", "lookup"}, request : Request, hash : Hash]
        BY <2>3 DEF IntakeInv, Call, InsertConflicts, NoCall
      <3>2. [call[c] EXCEPT !.pc = "lookup"] \in Call
        BY <3>1 DEF Call
      <3> QED
        BY <2>3, <3>2 DEF IntakeInv, InsertConflicts
    <2> QED
      BY <2>1, <2>2, <2>3
  <1> QED
    BY <1>1, <1>2 DEF IntakeInv, storeVars, StoreInv, StoreTypeOK, RowShape, EventLedger,
       AttemptLedger, RetryBudget, OneRowPerRequest, AcceptedIsStored, RefusedDiffers, NeverBoth

(* A call under way carries a request and a content. *)
LEMMA CallTyped ==
    ASSUME IntakeInv, NEW c \in Client, call[c].pc # "idle"
    PROVE  call[c].request \in Request /\ call[c].hash \in Hash
  BY DEF IntakeInv, Call, NoCall

(* The transaction commits a row under an id nobody was told before. *)
LEMMA InsertStep ==
    ASSUME IntakeInv, NEW c \in Client, Insert(c)
    PROVE  IntakeInv' /\ StoreNext
  <1>1. PICK id \in FreshIds, max \in MaxAttemptsValues :
           /\ CreateNotification(id, call[c].request, call[c].hash, max)
           /\ Accept(c, id) \/ UNCHANGED accepted
    BY DEF Insert
  <1> DEFINE request == call[c].request
             hash == call[c].hash
             new == [request |-> request, hash |-> hash, id |-> id]
  <1>2. request \in Request /\ hash \in Hash /\ id \in Notification
    BY CallTyped DEF Insert, FreshIds
  <1>3. StoreNext
    BY <1>1, <1>2 DEF StoreNext
  <1>4. StoreInv'
    BY <1>3, StoreNextInv DEF IntakeInv
  <1>5. /\ DOMAIN tasks' = DOMAIN tasks \cup {id} /\ id \notin DOMAIN replays
        /\ DOMAIN replays' = DOMAIN replays \cup {id}
        /\ tasks'[id].request = request /\ tasks'[id].hash = hash
        /\ \A i \in DOMAIN tasks : i # id => tasks'[i] = tasks[i]
        /\ \A i \in DOMAIN tasks : tasks[i].request # request
    BY <1>1 DEF CreateNotification, RequestTaken, NewTask
  <1>6. id \notin DOMAIN tasks
    BY <1>5, RowsAreGood DEF IntakeInv
  <1>7. accepted' \subseteq accepted \cup {new} /\ refused' = refused
    BY <1>1 DEF Accept, Insert
  <1>8. OneRowPerRequest'
    BY <1>5, <1>6 DEF IntakeInv, OneRowPerRequest
  <1>9. AcceptedIsStored' /\ RefusedDiffers'
    BY <1>5, <1>6, <1>7 DEF IntakeInv, AcceptedIsStored, RefusedDiffers
  <1>10. NeverBoth'
    <2>1. \A r \in refused : r.id # id
      BY <1>5 DEF IntakeInv, RefusedDiffers
    <2> QED
      BY <1>7, <2>1 DEF IntakeInv, NeverBoth
  <1>11. call' \in [Client -> Call]
    BY DEF IntakeInv, Insert, Answer, Call
  <1> QED
    BY <1>3, <1>4, <1>8, <1>9, <1>10, <1>11 DEF IntakeInv

(* The lookup answers by the row it finds now. *)
LEMMA LookupStep ==
    ASSUME IntakeInv, NEW c \in Client, Lookup(c)
    PROVE  IntakeInv'
  <1>1. PICK id \in DOMAIN tasks :
           /\ tasks[id].request = call[c].request
           /\ IF tasks[id].hash = call[c].hash
              THEN Accept(c, id) /\ UNCHANGED refused
              ELSE /\ refused' = refused \cup
                        {[request |-> call[c].request, hash |-> call[c].hash, id |-> id]}
                   /\ UNCHANGED accepted
    BY DEF Lookup
  <1> DEFINE new == [request |-> call[c].request, hash |-> call[c].hash, id |-> id]
  <1>2. tasks' = tasks /\ outbox' = outbox /\ replays' = replays
    BY DEF Lookup, storeVars
  <1>3. id \in DOMAIN replays
    BY RowsAreGood DEF IntakeInv
  <1>4. call' \in [Client -> Call]
    BY DEF IntakeInv, Lookup, Answer, Call
  <1>5. StoreInv' /\ OneRowPerRequest'
    BY <1>2 DEF IntakeInv, StoreInv, StoreTypeOK, RowShape, EventLedger, AttemptLedger,
                RetryBudget, OneRowPerRequest
  <1>6. CASE tasks[id].hash = call[c].hash
    <2>1. accepted' = accepted \cup {new} /\ refused' = refused
      BY <1>1, <1>6 DEF Accept
    <2>2. AcceptedIsStored' /\ RefusedDiffers'
      BY <1>1, <1>2, <1>3, <1>6, <2>1 DEF IntakeInv, AcceptedIsStored, RefusedDiffers
    <2>3. \A r \in refused : r.id = id => r.hash # call[c].hash
      BY <1>6 DEF IntakeInv, RefusedDiffers
    <2>4. NeverBoth'
      BY <2>1, <2>3 DEF IntakeInv, NeverBoth
    <2> QED
      BY <1>4, <1>5, <2>2, <2>4 DEF IntakeInv
  <1>7. CASE tasks[id].hash # call[c].hash
    <2>1. refused' = refused \cup {new} /\ accepted' = accepted
      BY <1>1, <1>7
    <2>2. AcceptedIsStored' /\ RefusedDiffers'
      BY <1>2, <1>3, <1>7, <2>1 DEF IntakeInv, AcceptedIsStored, RefusedDiffers
    <2>3. \A a \in accepted : a.id = id => a.hash # call[c].hash
      BY <1>7 DEF IntakeInv, AcceptedIsStored
    <2>4. NeverBoth'
      BY <2>1, <2>3 DEF IntakeInv, NeverBoth
    <2> QED
      BY <1>4, <1>5, <2>2, <2>4 DEF IntakeInv
  <1> QED
    BY <1>6, <1>7

-----------------------------------------------------------------------------
(* The specification. *)

(* Every step of clients and service keeps the invariant. *)
LEMMA IntakeNextInv == IntakeInv /\ [IntakeNext]_intakeVars => IntakeInv'
  <1> SUFFICES ASSUME IntakeInv, [IntakeNext]_intakeVars PROVE IntakeInv'
    OBVIOUS
  <1>1. CASE IntakeNext
    BY <1>1, SilentStep, InsertStep, LookupStep, ElsewhereStep DEF IntakeNext
  <1>2. CASE UNCHANGED intakeVars
    BY <1>2 DEF intakeVars, IntakeInv, StoreInv, StoreTypeOK, RowShape, EventLedger,
       AttemptLedger, RetryBudget, OneRowPerRequest, AcceptedIsStored, RefusedDiffers, NeverBoth
  <1> QED
    BY <1>1, <1>2

(* Every reachable state of intake satisfies the invariant. *)
LEMMA IntakeSafety == IntakeSpec => []IntakeInv
  <1>1. IntakeInit => IntakeInv
    <2> SUFFICES ASSUME IntakeInit PROVE IntakeInv
      OBVIOUS
    <2>1. StoreInv /\ DOMAIN tasks = {}
      BY StoreInitInv DEF IntakeInit, StoreInit
    <2> QED
      BY <2>1 DEF IntakeInit, IntakeInv, Call, OneRowPerRequest, AcceptedIsStored,
                  RefusedDiffers, NeverBoth
  <1> QED
    BY <1>1, IntakeNextInv, PTL DEF IntakeSpec

(* A 202 of Service.Create names a committed task which is, for as long as *)
(* it exists, the only one of its key and has the content the client sent, *)
(* whichever of the racing calls inserted it.                              *)
THEOREM AcceptanceIsKept == IntakeSpec => []AcceptedIsTheTask
  <1>1. IntakeInv => AcceptedIsTheTask
    BY DEF IntakeInv, AcceptedIsTheTask, AcceptedIsStored, OneRowPerRequest
  <1> QED
    BY <1>1, IntakeSafety, PTL

(* Retried and racing calls of one key are told the same task, and a 409   *)
(* is only given for content other than the task was accepted with.        *)
THEOREM RetriesAgree == IntakeSpec => []AnswersAgree
  <1>1. IntakeInv => AnswersAgree
    <2> SUFFICES ASSUME IntakeInv PROVE AnswersAgree
      OBVIOUS
    <2>1. ASSUME NEW a \in accepted, NEW b \in accepted, a.request = b.request, a.id # b.id
          PROVE  {a.id, b.id} \ DOMAIN tasks # {}
      BY <2>1 DEF IntakeInv, AcceptedIsStored, OneRowPerRequest
    <2> QED
      BY <2>1 DEF IntakeInv, AnswersAgree, NeverBoth
  <1> QED
    BY <1>1, IntakeSafety, PTL

(* Create and everything that runs beside it change the tables by the      *)
(* store's transactions only, so that the theorems about StoreSpec hold of *)
(* intake too.                                                             *)
THEOREM IntakeImplementsStore == IntakeSpec => StoreSpec
  <1>1. IntakeInit => StoreInit
    BY DEF IntakeInit
  <1>2. IntakeInv /\ [IntakeNext]_intakeVars => [StoreNext]_storeVars
    <2> SUFFICES ASSUME IntakeInv, [IntakeNext]_intakeVars PROVE [StoreNext]_storeVars
      OBVIOUS
    <2>1. ASSUME NEW c \in Client,
                 \/ Post(c) \/ InsertFails(c) \/ InsertConflicts(c)
                 \/ Lookup(c) \/ LookupFails(c)
          PROVE  UNCHANGED storeVars
      BY <2>1 DEF Post, InsertFails, InsertConflicts, Lookup, LookupFails
    <2>2. CASE UNCHANGED intakeVars
      BY <2>2 DEF intakeVars, storeVars
    <2> QED
      BY <2>1, <2>2, InsertStep, ElsewhereOnStore DEF IntakeNext
  <1> QED
    BY <1>1, <1>2, IntakeSafety, PTL DEF IntakeSpec, StoreSpec

-----------------------------------------------------------------------------
(***************************************************************************)
(* The registry, for any file of well-typed declarations and any           *)
(* environment: ServesWholeFile, BudgetIsUsable, SameAfterRestart and      *)
(* OnlyTextsRefused.                                                       *)
(*                                                                         *)
(* At every moment of the loop the registry holds the declarations read so *)
(* far, each of them sound, and as many ids as declarations; what an entry *)
(* was made of is in the file and not in the environment. So everything    *)
(* that validation has checked can be said of the entries later, and what  *)
(* they were made of of the process before a restart as well.              *)
(***************************************************************************)

Sound(raw) == raw \in Declaration /\ Parses(raw)

Ids(n) == {file[i].id : i \in 1 .. n}

(* map holds the first n declarations. *)
Holds(map, n) ==
    /\ map = [id \in Ids(n) |-> map[id]]
    /\ \A i \in 1 .. n : map[file[i].id] \in Destinations(file[i])

LoadsInOrder ==
    /\ file \in Seq(Declaration)
    /\ outcome \in {"loading", "loaded", "refused"}
    /\ next \in 1 .. Len(file) + 1
    /\ outcome = "loaded" => next = Len(file) + 1
    /\ Holds(items, next - 1)
    /\ \A i \in 1 .. next - 1 : Sound(file[i])
    /\ IsFiniteSet(Ids(next - 1)) /\ Cardinality(Ids(next - 1)) = next - 1

BeforeHeld ==
    before = <<>> \/ before = <<NoItems>> \/ \E map : before = <<map>> /\ Holds(map, Len(file))

AnswerTrue ==
    /\ outcome # "loaded" => answer = NoAnswer
    /\ answer # NoAnswer => (answer.status = 422 <=> answer.id \notin DOMAIN items)
    /\ answer.status = 500 =>
          answer.id \in DOMAIN items /\ ~Storable(answer.id, items[answer.id])

RegistryInv == LoadsInOrder /\ BeforeHeld /\ AnswerTrue

-----------------------------------------------------------------------------
(* Loading. *)

LEMMA NothingHeld ==
    ASSUME file \in Seq(Declaration)
    PROVE  Ids(0) = {} /\ Holds(NoItems, 0)
           /\ IsFiniteSet(Ids(0)) /\ Cardinality(Ids(0)) = 0
  <1>1. Ids(0) = {}
    BY DEF Ids
  <1>2. Holds(NoItems, 0)
    BY <1>1 DEF Holds, NoItems
  <1> QED
    BY <1>1, <1>2, FS_EmptySet

(* What the registry is to hold is in the file, and only there. *)
LEMMA FileDecides ==
    ASSUME UNCHANGED file
    PROVE  /\ \A n : Ids(n)' = Ids(n)
           /\ UNCHANGED env => \A raw : Sound(raw)' <=> Sound(raw)
           /\ \A map, n : Holds(map, n)' <=> Holds(map, n)
  <1>1. \A n : Ids(n)' = Ids(n)
    BY DEF Ids
  <1>2. UNCHANGED env => \A raw : Sound(raw)' <=> Sound(raw)
    BY DEF Sound, Parses, HeadersAllowed
  <1>3. ASSUME NEW map, NEW n PROVE Holds(map, n)' <=> Holds(map, n)
    BY <1>1 DEF Holds
  <1> QED
    BY <1>1, <1>2, <1>3

LEMMA RegistryInitially ==
    ASSUME RegistryInit
    PROVE  RegistryInv
  <1>1. file \in Seq(Declaration)
    <2>1. PICK n \in 0 .. MaxDeclarations : file \in [1 .. n -> Declaration]
      BY DEF RegistryInit
    <2>2. n \in Nat
      BY <2>1, MaxDeclarationsAssumption
    <2> QED
      BY <2>1, <2>2, SeqDef
  <1>2. Len(file) \in Nat
    BY <1>1
  <1>3. next - 1 = 0 /\ items = NoItems /\ outcome = "loading" /\ next \in 1 .. Len(file) + 1
    BY <1>2 DEF RegistryInit
  <1>4. LoadsInOrder
    BY <1>1, <1>3, NothingHeld DEF LoadsInOrder
  <1>5. before = <<>> /\ answer = NoAnswer /\ answer.status = 0
    BY DEF RegistryInit, NoAnswer
  <1>6. BeforeHeld /\ AnswerTrue
    BY <1>5 DEF BeforeHeld, AnswerTrue
  <1> QED
    BY <1>4, <1>6 DEF RegistryInv

LEMMA RegisterKeeps ==
    ASSUME RegistryInv, Register
    PROVE  RegistryInv'
  <1>1. /\ file \in Seq(Declaration) /\ Len(file) \in Nat /\ next \in 1 .. Len(file)
        /\ outcome = "loading" /\ next' = next + 1
        /\ UNCHANGED <<file, env, outcome, before, answer>>
    BY DEF RegistryInv, LoadsInOrder, Register
  <1> DEFINE raw == file[next]
  <1>2. raw \in Declaration /\ raw.id \notin DOMAIN items /\ Sound(raw)
    <2>1. raw \in Declaration
      BY <1>1
    <2>2. raw.id \notin DOMAIN items /\ Parses(raw)
      BY DEF Register
    <2> QED
      BY <2>1, <2>2 DEF Sound
  <1>3. PICK d \in Destinations(raw) :
           items' = [id \in DOMAIN items \cup {raw.id} |-> IF id = raw.id THEN d ELSE items[id]]
    BY DEF Register
  <1>4. DOMAIN items = Ids(next - 1)
    BY DEF RegistryInv, LoadsInOrder, Holds
  <1>6. Ids(next) = Ids(next - 1) \cup {raw.id}
    BY <1>1 DEF Ids
  <1>7. \A i \in 1 .. next - 1 : file[i].id \in Ids(next - 1) /\ file[i].id # raw.id
    BY <1>2, <1>4 DEF Ids
  <1>8. /\ items' = [id \in Ids(next) |-> items'[id]]
        /\ \A i \in 1 .. next : items'[file[i].id] \in Destinations(file[i])
    <2>1. DOMAIN items' = Ids(next) /\ items'[raw.id] = d
          /\ \A id \in Ids(next - 1) : id # raw.id => items'[id] = items[id]
      BY <1>3, <1>4, <1>6
    <2>2. \A i \in 1 .. next - 1 : items'[file[i].id] \in Destinations(file[i])
      BY <1>7, <2>1 DEF RegistryInv, LoadsInOrder, Holds
    <2>3. \A i \in 1 .. next : i = next \/ i \in 1 .. next - 1
      BY <1>1
    <2>4. \A i \in 1 .. next : items'[file[i].id] \in Destinations(file[i])
      BY <1>3, <2>1, <2>2, <2>3
    <2>5. items' = [id \in Ids(next) |-> items'[id]]
      BY <1>3, <2>1
    <2> QED
      BY <2>4, <2>5
  <1>9. Holds(items', next) /\ next' - 1 = next /\ next' \in 1 .. Len(file) + 1
    BY <1>1, <1>8 DEF Holds
  <1>10. IsFiniteSet(Ids(next)) /\ Cardinality(Ids(next)) = next
    <2>1. /\ IsFiniteSet(Ids(next - 1)) /\ Cardinality(Ids(next - 1)) = next - 1
          /\ raw.id \notin Ids(next - 1)
      BY <1>2, <1>4 DEF RegistryInv, LoadsInOrder
    <2>2. /\ IsFiniteSet(Ids(next - 1) \cup {raw.id})
          /\ Cardinality(Ids(next - 1) \cup {raw.id}) = (next - 1) + 1
      BY <2>1, FS_AddElement
    <2> QED
      BY <1>1, <1>6, <2>2
  <1>11. LoadsInOrder'
    <2>1. \A i \in 1 .. next : Sound(file[i])
      BY <1>1, <1>2 DEF RegistryInv, LoadsInOrder
    <2>2. \A i \in 1 .. next : Sound(file[i])'
      BY <1>1, <2>1, FileDecides
    <2>3. Ids(next - 1)' = Ids(next)
      BY <1>1, <1>9 DEF Ids
    <2>4. Holds(items, next - 1)'
      BY <1>1, <1>9, FileDecides DEF Holds
    <2> QED
      BY <1>1, <1>9, <1>10, <2>2, <2>3, <2>4 DEF LoadsInOrder
  <1>12. BeforeHeld'
    BY <1>1, FileDecides DEF RegistryInv, BeforeHeld
  <1>13. AnswerTrue'
    <2>1. answer' = NoAnswer
      BY <1>1 DEF RegistryInv, AnswerTrue
    <2>2. NoAnswer.status = 0
      BY DEF NoAnswer
    <2> QED
      BY <2>1, <2>2 DEF AnswerTrue
  <1> QED
    BY <1>11, <1>12, <1>13 DEF RegistryInv

(* Steps that leave what is loaded alone. *)
LEMMA LoadedKept ==
    ASSUME RegistryInv, UNCHANGED <<file, env, next, items, before>>,
           outcome' \in {"loading", "loaded", "refused"},
           outcome' = "loaded" => next = Len(file) + 1
    PROVE  LoadsInOrder' /\ BeforeHeld'
  <1>1. \A i : Sound(file[i])' <=> Sound(file[i])
    BY FileDecides
  <1>2. Ids(next - 1)' = Ids(next - 1) /\ (Holds(items, next - 1)' <=> Holds(items, next - 1))
    <2>1. Ids(next - 1)' = Ids(next - 1)
      BY DEF Ids
    <2> QED
      BY <2>1 DEF Holds
  <1>3. LoadsInOrder'
    BY <1>1, <1>2 DEF RegistryInv, LoadsInOrder
  <1>4. BeforeHeld'
    BY FileDecides DEF RegistryInv, BeforeHeld
  <1> QED
    BY <1>3, <1>4

LEMMA RestartKeeps ==
    ASSUME RegistryInv, Restart
    PROVE  RegistryInv'
  <1>1. /\ file \in Seq(Declaration) /\ Len(file) \in Nat /\ UNCHANGED file
        /\ outcome' = "loading" /\ next' = 1 /\ items' = NoItems /\ answer' = NoAnswer
    BY DEF RegistryInv, LoadsInOrder, Restart
  <1>2. LoadsInOrder'
    <2>1. next' - 1 = 0 /\ next' \in 1 .. Len(file) + 1
      BY <1>1
    <2>2. Ids(next - 1)' = Ids(0) /\ (Holds(items, next - 1)' <=> Holds(NoItems, 0))
      BY <1>1, <2>1 DEF Holds, Ids
    <2> QED
      BY <1>1, <2>1, <2>2, NothingHeld DEF LoadsInOrder
  <1>3. BeforeHeld'
    <2>1. CASE outcome = "loaded"
      <3>1. next - 1 = Len(file) /\ Holds(items, next - 1)
        BY <1>1, <2>1 DEF RegistryInv, LoadsInOrder
      <3>2. before' = <<items>> /\ Holds(items, Len(file))
        BY <2>1, <3>1 DEF Restart
      <3>3. \E map : before' = <<map>> /\ Holds(map, Len(file))
        BY <3>2
      <3> QED
        BY <1>1, <3>3, FileDecides DEF BeforeHeld
    <2>2. CASE outcome # "loaded"
      BY <2>2 DEF Restart, BeforeHeld, NoItems
    <2> QED
      BY <2>1, <2>2
  <1>4. AnswerTrue'
    <2>1. answer' = NoAnswer /\ answer'.status = 0
      BY <1>1 DEF NoAnswer
    <2> QED
      BY <2>1 DEF AnswerTrue
  <1> QED
    BY <1>2, <1>3, <1>4 DEF RegistryInv

LEMMA CreateKeeps ==
    ASSUME RegistryInv, NEW id, Create(id)
    PROVE  RegistryInv'
  <1>1. UNCHANGED <<file, env, outcome, next, items, before>> /\ outcome = "loaded"
    BY DEF Create
  <1>2. LoadsInOrder' /\ BeforeHeld'
    BY <1>1, LoadedKept DEF RegistryInv, LoadsInOrder
  <1>3. /\ answer'.id = id
        /\ answer'.status = IF id \notin DOMAIN items THEN 422
                            ELSE IF Storable(id, items[id]) THEN 202 ELSE 500
    BY DEF Create
  <1>4. AnswerTrue'
    BY <1>1, <1>3 DEF AnswerTrue, Storable, HeaderTexts
  <1> QED
    BY <1>2, <1>4 DEF RegistryInv

LEMMA RegistryStep ==
    ASSUME RegistryInv, [RegistryNext]_registryVars
    PROVE  RegistryInv'
  <1>1. CASE Refuse
    <2>1. /\ UNCHANGED <<file, env, next, items, before, answer>>
          /\ outcome = "loading" /\ outcome' = "refused"
      BY <1>1 DEF Refuse
    <2>2. LoadsInOrder' /\ BeforeHeld'
      BY <2>1, LoadedKept
    <2>3. AnswerTrue'
      BY <2>1 DEF RegistryInv, AnswerTrue, NoAnswer
    <2> QED
      BY <2>2, <2>3 DEF RegistryInv
  <1>2. CASE Loaded
    <2>1. /\ UNCHANGED <<file, env, next, items, before, answer>>
          /\ outcome = "loading" /\ outcome' = "loaded" /\ next > Len(file)
      BY <1>2 DEF Loaded
    <2>2. next = Len(file) + 1
      BY <2>1 DEF RegistryInv, LoadsInOrder
    <2>3. LoadsInOrder' /\ BeforeHeld'
      BY <2>1, <2>2, LoadedKept
    <2>4. AnswerTrue'
      BY <2>1 DEF RegistryInv, AnswerTrue, NoAnswer
    <2> QED
      BY <2>3, <2>4 DEF RegistryInv
  <1>3. CASE UNCHANGED registryVars
    <2>1. UNCHANGED <<file, env, outcome, next, items, before, answer>>
      BY <1>3 DEF registryVars
    <2>2. LoadsInOrder' /\ BeforeHeld'
      BY <2>1, LoadedKept DEF RegistryInv, LoadsInOrder
    <2>3. AnswerTrue'
      BY <2>1 DEF RegistryInv, AnswerTrue, Storable, HeaderTexts
    <2> QED
      BY <2>2, <2>3 DEF RegistryInv
  <1> QED
    BY <1>1, <1>2, <1>3, RegisterKeeps, RestartKeeps, CreateKeeps DEF RegistryNext

LEMMA RegistryInvariant == RegistrySpec => []RegistryInv
  BY RegistryInitially, RegistryStep, PTL DEF RegistrySpec

(* What validation has made sure of. *)
LEMMA SoundFields ==
    ASSUME NEW raw, Sound(raw)
    PROVE  /\ raw.idLength \in Nat \ {0} /\ raw.url.length \in Nat \ {0}
           /\ raw.timeout[1] \in Nat \ {0} /\ raw.lifetime[1] \in Nat \ {0}
           /\ raw.maxAttempts \in 1 .. MaxMaxAttempts /\ raw.maxAttempts \in Int
           /\ raw.concurrency > 0
           /\ raw.delays \in Seq(Seq(Int))
           /\ \A i \in 1 .. Len(raw.delays) : raw.delays[i][1] \in 1 .. raw.lifetime[1]
           /\ raw.maxAttempts > 1 => raw.delays # <<>>
  <1>1. raw \in Declaration /\ raw.id # "" /\ raw.url.host # ""
    BY DEF Sound, Parses, URLAllowed
  <1>2. raw.idLength \in Nat \ {0} /\ raw.url.length \in Nat \ {0}
    <2>1. raw.idLength \in Nat /\ raw.idLength > 0
      BY <1>1, DeclarationAssumption, Zenon
    <2>2. raw.url.length \in Nat /\ raw.url.length > 0
      BY <1>1, DeclarationAssumption, Zenon
    <2> QED
      BY <2>1, <2>2
  <1>3. raw.timeout \in Seq(Int) /\ raw.lifetime \in Seq(Int) /\ raw.delays \in Seq(Seq(Int))
        /\ raw.maxAttempts \in Int
    BY <1>1, DeclarationAssumption
  <1>4. \A limit : \A t \in Seq(Int) : Within(t, limit) => t[1] \in Nat \ {0} /\ t[1] <= limit
    <2> SUFFICES ASSUME NEW t \in Seq(Int), NEW limit, t # <<>>, t[1] > 0, t[1] <= limit
                 PROVE  t[1] \in Nat \ {0} /\ t[1] <= limit
      BY DEF Within
    <2>1. 1 \in 1 .. Len(t)
      BY EmptySeq
    <2>2. t[1] \in Int
      BY <2>1
    <2> QED
      BY <2>2
  <1>5. Within(raw.timeout, MaxTimeout) /\ Within(raw.lifetime, MaxLifetime)
    BY DEF Sound, Parses, RetryAllowed
  <1>6. raw.timeout[1] \in Nat \ {0} /\ raw.lifetime[1] \in Nat \ {0}
    BY <1>3, <1>4, <1>5
  <1>7. ASSUME NEW i \in 1 .. Len(raw.delays) PROVE raw.delays[i][1] \in 1 .. raw.lifetime[1]
    <2>1. i \in DOMAIN raw.delays /\ raw.delays[i] \in Seq(Int)
      BY <1>3
    <2>2. Within(raw.delays[i], raw.lifetime[1])
      BY <2>1 DEF Sound, Parses, RetryAllowed
    <2>3. raw.delays[i][1] \in Nat \ {0} /\ raw.delays[i][1] <= raw.lifetime[1]
      BY <1>4, <2>1, <2>2
    <2> QED
      BY <1>6, <2>3
  <1>8. raw.concurrency > 0
    <2>1. raw.concurrency \in 1 .. MaxConcurrency
      BY DEF Sound, Parses
    <2> QED
      BY <2>1, MaxConcurrencyAssumption
  <1> QED
    BY <1>2, <1>3, <1>6, <1>7, <1>8 DEF Sound, Parses, RetryAllowed

LEMMA DestinationFields ==
    ASSUME NEW raw, NEW d \in Destinations(raw)
    PROVE  /\ d.method = ToUpper(raw.method) /\ d.url = raw.url /\ d.idLength = raw.idLength
           /\ d.timeout = raw.timeout[1] /\ d.concurrency = raw.concurrency
           /\ d.retry = [maxAttempts |-> raw.maxAttempts, lifetime |-> raw.lifetime[1],
                         delays |-> [i \in DOMAIN raw.delays |-> raw.delays[i][1]]]
  BY DEF Destinations

(* Each entry stems from a sound declaration. *)
LEMMA EntryOf ==
    ASSUME RegistryInv, NEW id \in DOMAIN items
    PROVE  \E i \in 1 .. Len(file) :
              file[i].id = id /\ Sound(file[i]) /\ items[id] \in Destinations(file[i])
  <1>1. /\ DOMAIN items = Ids(next - 1) /\ Len(file) \in Nat /\ next \in 1 .. Len(file) + 1
        /\ \A i \in 1 .. next - 1 : Sound(file[i]) /\ items[file[i].id] \in Destinations(file[i])
    BY DEF RegistryInv, LoadsInOrder, Holds
  <1>2. PICK i \in 1 .. next - 1 : file[i].id = id
    BY <1>1 DEF Ids
  <1> QED
    BY <1>1, <1>2

-----------------------------------------------------------------------------
(* destination.Load: a process that serves has read the whole file, each   *)
(* declaration in it is sound and served as declared, and the process      *)
(* refuses exactly the ids that are not in it.                             *)
THEOREM WholeFileServed == RegistrySpec => []ServesWholeFile
  <1>1. RegistryInv => ServesWholeFile
    <2> DEFINE declared == {file[i].id : i \in DOMAIN file}
    <2> SUFFICES ASSUME RegistryInv, outcome = "loaded"
                 PROVE  /\ Cardinality(declared) = Len(file)
                        /\ DOMAIN items = declared
                        /\ \A i \in DOMAIN file :
                              Parses(file[i]) /\ items[file[i].id] \in Destinations(file[i])
                        /\ answer # NoAnswer =>
                              (answer.status = 422 <=> answer.id \notin declared)
      BY DEF ServesWholeFile
    <2>1. /\ file \in Seq(Declaration) /\ Len(file) \in Nat /\ next - 1 = Len(file)
          /\ DOMAIN file = 1 .. Len(file)
      BY DEF RegistryInv, LoadsInOrder
    <2>2. Ids(Len(file)) = declared
      BY <2>1 DEF Ids
    <2>3. Cardinality(Ids(Len(file))) = Len(file) /\ DOMAIN items = Ids(Len(file))
      BY <2>1 DEF RegistryInv, LoadsInOrder, Holds
    <2>4. \A i \in DOMAIN file :
             Parses(file[i]) /\ items[file[i].id] \in Destinations(file[i])
      BY <2>1 DEF RegistryInv, LoadsInOrder, Holds, Sound
    <2>5. answer # NoAnswer => (answer.status = 422 <=> answer.id \notin declared)
      BY <2>2, <2>3 DEF RegistryInv, AnswerTrue
    <2> QED
      BY <2>2, <2>3, <2>4, <2>5
  <1> QED
    BY <1>1, RegistryInvariant, PTL

(* parseDestination and the CHECKs of notification_tasks in both           *)
(* migrations: validation lets nothing through that the insert refuses,    *)
(* but for the length of a text and the zero bytes in it.                  *)
THEOREM RefusedForItsText == RegistrySpec => []OnlyTextsRefused
  <1>1. RegistryInv => OnlyTextsRefused
    <2> SUFFICES ASSUME RegistryInv, answer.status = 500
                 PROVE  \/ items[answer.id].idLength > MaxIdLength
                        \/ items[answer.id].url.length > MaxURLLength
                        \/ ZeroByte \in {answer.id} \cup HeaderTexts(items[answer.id])
      BY DEF OnlyTextsRefused
    <2>1. answer.id \in DOMAIN items /\ ~Storable(answer.id, items[answer.id])
      BY DEF RegistryInv, AnswerTrue
    <2>2. PICK i \in 1 .. Len(file) :
             Sound(file[i]) /\ items[answer.id] \in Destinations(file[i])
      BY <2>1, EntryOf
    <2> DEFINE raw == file[i]
               d == items[answer.id]
    <2>3. /\ d.method = ToUpper(raw.method) /\ d.url = raw.url /\ d.idLength = raw.idLength
          /\ d.timeout = raw.timeout[1] /\ d.concurrency = raw.concurrency
          /\ d.retry = [maxAttempts |-> raw.maxAttempts, lifetime |-> raw.lifetime[1],
                        delays |-> [k \in DOMAIN raw.delays |-> raw.delays[k][1]]]
      BY <2>2, DestinationFields
    <2>4. d.retry.lifetime = raw.lifetime[1] /\ d.retry.maxAttempts = raw.maxAttempts
      BY <2>3
    <2>5. /\ raw.idLength \in Nat \ {0} /\ raw.url.length \in Nat \ {0}
          /\ raw.timeout[1] \in Nat \ {0} /\ raw.lifetime[1] \in Nat \ {0}
          /\ raw.maxAttempts \in 1 .. MaxMaxAttempts /\ raw.concurrency > 0
      BY <2>2, SoundFields
    <2>6. ToUpper(raw.method) \in {"POST", "PUT", "PATCH"}
      BY <2>2 DEF Sound, Parses
    <2> HIDE DEF raw, d
    <2>7. /\ d.timeout > 0 /\ d.retry.lifetime > 0 /\ d.concurrency > 0
          /\ d.retry.maxAttempts \in 1 .. MaxMaxAttempts
      BY <2>3, <2>4, <2>5
    <2>8. d.idLength \in Nat \ {0} /\ d.url.length \in Nat \ {0}
      BY <2>3, <2>5
    <2>9. \/ d.idLength \notin 1 .. MaxIdLength \/ d.url.length \notin 1 .. MaxURLLength
          \/ ZeroByte \in {answer.id} \cup HeaderTexts(d)
      BY <2>1, <2>3, <2>6, <2>7 DEF Storable, d
    <2>10. \/ d.idLength > MaxIdLength \/ d.url.length > MaxURLLength
           \/ ZeroByte \in {answer.id} \cup HeaderTexts(d)
      BY <2>8, <2>9, LengthsAssumption
    <2> QED
      BY <2>10 DEF d
  <1> QED
    BY <1>1, RegistryInvariant, PTL

(* The configured delay is one that BoundedJitter.Apply may return. *)
LEMMA DelayIsJittered ==
    ASSUME NEW delay \in Nat \ {0}
    PROVE  delay \in Jittered(delay)
  <1>1. delay \in (4 * delay) \div 5 .. (6 * delay) \div 5
    OBVIOUS
  <1>2. delay = IF delay < 1 THEN 1 ELSE delay
    OBVIOUS
  <1> QED
    BY <1>1, <1>2 DEF Jittered

(* parseDestination and NextAttempt: every attempt a registered policy     *)
(* promises can be made within its lifetime.                               *)
THEOREM BudgetsAreUsable == RegistrySpec => []BudgetIsUsable
  <1>1. RegistryInv => BudgetIsUsable
    <2> SUFFICES ASSUME RegistryInv, NEW id \in DOMAIN items,
                        NEW attempt \in 1 .. items[id].retry.maxAttempts - 1
                 PROVE  \E moment \in NextAttempt(items[id].retry, attempt, <<>>, 0) :
                           moment # <<>> /\ moment[1] <= items[id].retry.lifetime
      BY DEF BudgetIsUsable
    <2> DEFINE policy == items[id].retry
    <2>1. PICK i \in 1 .. Len(file) : Sound(file[i]) /\ items[id] \in Destinations(file[i])
      BY EntryOf
    <2>2. PICK raw : raw = file[i] /\ Sound(raw) /\ items[id] \in Destinations(raw)
      BY <2>1
    <2>3. policy = [maxAttempts |-> raw.maxAttempts, lifetime |-> raw.lifetime[1],
                    delays |-> [k \in DOMAIN raw.delays |-> raw.delays[k][1]]]
      BY <2>2, DestinationFields
    <2>4. /\ policy.maxAttempts = raw.maxAttempts /\ policy.lifetime = raw.lifetime[1]
          /\ policy.delays = [k \in DOMAIN raw.delays |-> raw.delays[k][1]]
      BY <2>3
    <2>5. /\ raw.maxAttempts \in Int /\ raw.lifetime[1] \in Nat \ {0}
          /\ raw.delays \in Seq(Seq(Int))
          /\ \A k \in 1 .. Len(raw.delays) : raw.delays[k][1] \in 1 .. raw.lifetime[1]
          /\ raw.maxAttempts > 1 => raw.delays # <<>>
      BY <2>2, SoundFields
    <2>6. attempt \in Nat \ {0} /\ attempt < policy.maxAttempts /\ raw.maxAttempts > 1
      BY <2>4, <2>5
    <2>7. Len(raw.delays) \in Nat \ {0} /\ DOMAIN raw.delays = 1 .. Len(raw.delays)
      BY <2>5, <2>6, EmptySeq
    <2>8. policy.delays \in Seq(1 .. raw.lifetime[1]) /\ Len(policy.delays) = Len(raw.delays)
      <3>1. policy.delays \in [1 .. Len(raw.delays) -> 1 .. raw.lifetime[1]]
        BY <2>4, <2>5, <2>7
      <3>2. policy.delays \in Seq(1 .. raw.lifetime[1])
        BY <2>7, <3>1, SeqDef, ZenonT(60)
      <3> QED
        BY <2>7, <3>1, <3>2
    <2>9. policy.delays # <<>>
      BY <2>7, <2>8
    <2>10. PICK delay \in 1 .. raw.lifetime[1] : delay = DelayAfter(policy, attempt)
      <3>1. PICK k \in 1 .. Len(policy.delays) :
               k = IF attempt > Len(policy.delays) THEN Len(policy.delays) ELSE attempt
        BY <2>6, <2>7, <2>8
      <3>2. policy.delays[k] \in 1 .. raw.lifetime[1]
        BY <2>8, ElementOfSeq
      <3> HIDE DEF policy
      <3> QED
        BY <3>1, <3>2 DEF DelayAfter
    <2>11. delay \in Nat \ {0} /\ delay <= policy.lifetime
      BY <2>4, <2>5, <2>10
    <2>12. delay \in Jittered(DelayAfter(policy, attempt))
      BY <2>10, <2>11, DelayIsJittered
    <2>13. ~(delay > policy.lifetime) /\ 0 + delay = delay
      BY <2>4, <2>5, <2>11
    <2> HIDE DEF policy
    <2>14. /\ ~(attempt >= policy.maxAttempts \/ attempt <= 0 \/ policy.delays = <<>>)
      BY <2>4, <2>5, <2>6, <2>9
    <2>15. <<delay>> \in NextAttempt(policy, attempt, <<>>, 0)
      BY <2>12, <2>13, <2>14 DEF NextAttempt
    <2>16. <<delay>> # <<>> /\ <<delay>>[1] <= policy.lifetime
      BY <2>11
    <2> QED
      BY <2>15, <2>16 DEF policy
  <1> QED
    BY <1>1, RegistryInvariant, PTL

(* Headers that are written in one way each are stored in one way. *)
LEMMA StoredOnce ==
    ASSUME NEW headers, \A a, b \in DOMAIN headers : Canonical[a] = Canonical[b] => a = b,
           NEW f \in Stored(headers), NEW g \in Stored(headers)
    PROVE  f = g
  <1> DEFINE names == {Canonical[name] : name \in DOMAIN headers}
             values == {headers[name] : name \in DOMAIN headers}
  <1>1. /\ f \in [names -> values] /\ g \in [names -> values]
        /\ \A c \in names : \E name \in DOMAIN headers : Canonical[name] = c /\ f[c] = headers[name]
        /\ \A c \in names : \E name \in DOMAIN headers : Canonical[name] = c /\ g[c] = headers[name]
    BY DEF Stored
  <1>2. \A c \in names : f[c] = g[c]
    BY <1>1
  <1> HIDE DEF names, values
  <1> QED
    BY <1>1, <1>2

LEMMA OneDestination ==
    ASSUME NEW raw, NEW d \in Destinations(raw), NEW e \in Destinations(raw),
           \A headers \in {raw.static, raw.secret} :
              \A a, b \in DOMAIN headers : Canonical[a] = Canonical[b] => a = b
    PROVE  d = e
  <1>1. \A f, g \in Stored(raw.static) : f = g
    BY StoredOnce
  <1>2. \A f, g \in Stored(raw.secret) : f = g
    BY StoredOnce
  <1> QED
    BY <1>1, <1>2 DEF Destinations, SecretReferences

(* destination.Load: what a process holds is decided by the file, not by   *)
(* the values of the secrets, if no header is written in two ways.         *)
THEOREM RestartsAgree == RegistrySpec => []SameAfterRestart
  <1>1. RegistryInv => SameAfterRestart
    <2> SUFFICES ASSUME RegistryInv, outcome = "loaded", before # <<>>, HeadersDistinct,
                        before # <<NoItems>>
                 PROVE  before[1] = items
      BY DEF SameAfterRestart
    <2>1. PICK map : before = <<map>> /\ Holds(map, Len(file))
      BY DEF RegistryInv, BeforeHeld
    <2>2. Holds(items, Len(file)) /\ DOMAIN file = 1 .. Len(file)
      <3>1. next = Len(file) + 1 /\ Len(file) \in Nat /\ DOMAIN file = 1 .. Len(file)
        BY DEF RegistryInv, LoadsInOrder
      <3>2. next - 1 = Len(file)
        BY <3>1
      <3> QED
        BY <3>1, <3>2 DEF RegistryInv, LoadsInOrder
    <2>3. ASSUME NEW id \in Ids(Len(file)) PROVE map[id] = items[id]
      <3>1. PICK i \in 1 .. Len(file) : file[i].id = id
        BY DEF Ids
      <3>2. map[id] \in Destinations(file[i]) /\ items[id] \in Destinations(file[i])
        BY <2>1, <2>2, <3>1 DEF Holds
      <3>3. \A headers \in {file[i].static, file[i].secret} :
               \A a, b \in DOMAIN headers : Canonical[a] = Canonical[b] => a = b
        BY <2>2 DEF HeadersDistinct
      <3> QED
        BY <3>2, <3>3, OneDestination
    <2>4. map = items
      BY <2>1, <2>2, <2>3 DEF Holds
    <2> QED
      BY <2>1, <2>4
  <1> QED
    BY <1>1, RegistryInvariant, PTL
=============================================================================
