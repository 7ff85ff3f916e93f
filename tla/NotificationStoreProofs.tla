----------------------- MODULE NotificationStoreProofs -----------------------
(***************************************************************************)
(* Proofs that StoreSpec keeps the invariants of NotificationStore for all *)
(* ids, requests, tokens, batch sizes and attempt limits.                  *)
(*                                                                         *)
(* The invariants are inductive only together: a new event is new because  *)
(* EventLedger bounds the generations of a task, the ledgers need the      *)
(* types, and CreateNotification meets a fresh id because RetryBudget says *)
(* that every row has a replay counter.                                    *)
(***************************************************************************)
EXTENDS NotificationStore, TLAPS

StoreInv == StoreTypeOK /\ RowShape /\ EventLedger /\ AttemptLedger /\ RetryBudget

(* What StoreInv says of one row. *)
GoodRow(row, replayed) ==
    /\ row \in TaskRow
    /\ WellFormed(row)
    /\ Counted(row)
    /\ WithinBudget(row, replayed)

-----------------------------------------------------------------------------
(* The row transformers keep a row good. *)

(* The row CreateNotification inserts. *)
LEMMA NewTaskGood ==
    ASSUME NEW request \in Request, NEW hash \in Hash, NEW max \in MaxAttemptsValues
    PROVE  GoodRow(NewTask(request, hash, max), 0)
  <1>1. max \in Nat \ {0}
    BY MaxAttemptsAssumption
  <1>2. NewTask(request, hash, max) \in TaskRow
    BY <1>1 DEF NewTask, TaskRow, Status, Timer, Timestamp
  <1> QED
    BY <1>1, <1>2 DEF GoodRow, NewTask, WellFormed, Counted, WithinBudget

(* ClaimDelivery on a pending row. *)
LEMMA LeasedGood ==
    ASSUME NEW row, NEW r \in Nat, GoodRow(row, r), row.status = "pending",
           NEW token \in LeaseToken
    PROVE  GoodRow(Leased(row, token), r)
  <1>0. row \in TaskRow /\ row.attempts + 1 \in Nat
    BY DEF GoodRow, TaskRow
  <1>1. Leased(row, token) \in TaskRow
    BY <1>0 DEF Leased, TaskRow, Status, Timer
  <1>2. row.maxAttempts \in Nat
    BY MaxAttemptsAssumption DEF GoodRow, TaskRow
  <1>3. WellFormed(Leased(row, token))
    BY TokenAssumption DEF GoodRow, Leased, TaskRow, WellFormed
  <1> QED
    BY <1>1, <1>2, <1>3 DEF GoodRow, Leased, TaskRow, Counted, WithinBudget

(* ApplyDeliveryResult on a delivering row. *)
LEMMA SettledGood ==
    ASSUME NEW row, NEW r \in Nat, GoodRow(row, r), row.status = "delivering",
           NEW outcome \in Outcome
    PROVE  GoodRow(Settled(row, outcome), r)
  <1>1. Settled(row, outcome) \in TaskRow
    BY ZenonT(60) DEF GoodRow, Settled, StatusAfter, TaskRow, Status, Timer, Timestamp, Outcome
  <1>2. row.maxAttempts \in Nat
    BY MaxAttemptsAssumption DEF GoodRow, TaskRow
  <1>3. WellFormed(Settled(row, outcome))
    BY TokenAssumption DEF GoodRow, Settled, StatusAfter, TaskRow, WellFormed, Outcome
  <1> QED
    BY <1>1, <1>2, <1>3
    DEF GoodRow, Settled, StatusAfter, TaskRow, Counted, WithinBudget, Outcome

(* ScheduleDue on a due row: buried or rescheduled within the budget. *)
LEMMA AfterDueGood ==
    ASSUME NEW row, NEW r \in Nat, GoodRow(row, r),
           row.status \in {"retry_wait", "delivering"}
    PROVE  GoodRow(AfterDue(row), r)
  <1>2. row.maxAttempts \in Nat
    BY MaxAttemptsAssumption DEF GoodRow, TaskRow
  <1>3. CASE Exhausted(row)
    <2>1. Buried(row) \in TaskRow
      BY ZenonT(60) DEF GoodRow, Buried, TaskRow, Status, Timer, Timestamp
    <2>2. WellFormed(Buried(row))
      BY DEF GoodRow, Buried, TaskRow, WellFormed
    <2> QED
      BY <1>2, <1>3, <2>1, <2>2
      DEF GoodRow, AfterDue, Buried, TaskRow, Counted, WithinBudget
  <1>4. CASE ~Exhausted(row)
    <2>0. row \in TaskRow /\ row.generation + 1 \in Nat
      BY DEF GoodRow, TaskRow
    <2>1. Rescheduled(row) \in TaskRow
      BY <2>0 DEF Rescheduled, TaskRow, Status, Timer
    <2>2. WellFormed(Rescheduled(row))
      BY DEF GoodRow, Rescheduled, TaskRow, WellFormed
    <2> QED
      BY <1>2, <1>4, <2>1, <2>2
      DEF GoodRow, AfterDue, Exhausted, Rescheduled, TaskRow, Counted, WithinBudget
  <1> QED
    BY <1>3, <1>4

(* ReplayDeadAtomic on a dead row earns it one more claim. *)
LEMMA ReplayedGood ==
    ASSUME NEW row, NEW r \in Nat, GoodRow(row, r), row.status = "dead"
    PROVE  GoodRow(Replayed(row), r + 1)
  <1>0. row \in TaskRow /\ row.generation + 1 \in Nat
    BY DEF GoodRow, TaskRow
  <1>1. Replayed(row) \in TaskRow
    BY <1>0 DEF Replayed, TaskRow, Status, Timer, Timestamp
  <1>2. row.maxAttempts \in Nat
    BY MaxAttemptsAssumption DEF GoodRow, TaskRow
  <1>3. WellFormed(Replayed(row))
    BY DEF GoodRow, Replayed, TaskRow, WellFormed
  <1> QED
    BY <1>1, <1>2, <1>3 DEF GoodRow, Replayed, TaskRow, Counted, WithinBudget

-----------------------------------------------------------------------------
(* From rows to tables. *)

(* StoreInv seen row by row. *)
LEMMA RowsAreGood ==
    ASSUME StoreInv, NEW id \in DOMAIN tasks
    PROVE  /\ id \in Notification
           /\ id \in DOMAIN replays
           /\ replays[id] \in Nat
           /\ GoodRow(tasks[id], replays[id])
  BY DEF StoreInv, StoreTypeOK, RowShape, AttemptLedger, RetryBudget, GoodRow

(* What a statement has to establish for StoreInv in the next state. *)
LEMMA GoodTablesSuffice ==
    ASSUME DOMAIN tasks' \subseteq Notification,
           tasks' = [id \in DOMAIN tasks' |-> tasks'[id]],
           \A id \in DOMAIN tasks' :
               id \in DOMAIN replays' /\ GoodRow(tasks'[id], replays'[id]),
           DOMAIN outbox' \subseteq Notification \X Nat,
           outbox' \in [DOMAIN outbox' -> EventRow],
           DOMAIN replays' \subseteq Notification,
           replays' \in [DOMAIN replays' -> Nat],
           EventLedger'
    PROVE  StoreInv'
  BY DEF StoreInv, StoreTypeOK, RowShape, AttemptLedger, RetryBudget, GoodRow

(* InsertEvents adds exactly the keys and well-typed rows. *)
LEMMA EventsInserted ==
    ASSUME StoreInv, NEW keys \in SUBSET (Notification \X Nat),
           outbox' = InsertEvents(keys)
    PROVE  /\ DOMAIN outbox' = DOMAIN outbox \cup keys
           /\ DOMAIN outbox' \subseteq Notification \X Nat
           /\ outbox' \in [DOMAIN outbox' -> EventRow]
  <1>1. NewEvent \in EventRow
    BY DEF NewEvent, EventRow, Timer, Timestamp
  <1> QED
    BY <1>1 DEF StoreInv, StoreTypeOK, InsertEvents

(* A statement that only rewrites events keeps StoreInv. *)
LEMMA EventsRewritten ==
    ASSUME StoreInv, DOMAIN outbox' = DOMAIN outbox,
           outbox' \in [DOMAIN outbox -> EventRow], UNCHANGED <<tasks, replays>>
    PROVE  StoreInv'
  BY DEF StoreInv, StoreTypeOK, RowShape, EventLedger, AttemptLedger, RetryBudget

(* A statement that replaces one row by a good one of the same generation  *)
(* keeps StoreInv.                                                         *)
LEMMA RowRewritten ==
    ASSUME StoreInv, NEW id \in DOMAIN tasks, NEW row,
           GoodRow(row, replays[id]), row.generation = tasks[id].generation,
           tasks' = [tasks EXCEPT ![id] = row], UNCHANGED <<outbox, replays>>
    PROVE  StoreInv'
  <1>1. /\ DOMAIN tasks' = DOMAIN tasks
        /\ \A i \in DOMAIN tasks : tasks'[i] = IF i = id THEN row ELSE tasks[i]
        /\ tasks' = [i \in DOMAIN tasks |-> tasks'[i]]
    BY DEF StoreInv, StoreTypeOK
  <1>2. \A i \in DOMAIN tasks : i \in DOMAIN replays /\ GoodRow(tasks'[i], replays[i])
    BY <1>1, RowsAreGood
  <1>3. \A i \in DOMAIN tasks : tasks'[i].generation = tasks[i].generation
    BY <1>1
  <1>4. EventLedger'
    <2>1. EventLedger
      BY DEF StoreInv
    <2> QED
      BY <1>1, <1>3, <2>1 DEF EventLedger
  <1>5. StoreTypeOK
    BY DEF StoreInv
  <1> QED
    BY <1>1, <1>2, <1>4, <1>5
    DEF StoreInv, StoreTypeOK, RowShape, AttemptLedger, RetryBudget, GoodRow

-----------------------------------------------------------------------------
(* One lemma per statement. *)

(* ClaimOutbox rewrites events only. *)
LEMMA ClaimOutboxStep ==
    ASSUME StoreInv, NEW batch \in SUBSET DOMAIN outbox, NEW token \in ClaimToken,
           ClaimOutbox(batch, token)
    PROVE  StoreInv'
  <1>1. \A k \in DOMAIN outbox : Claimed(outbox[k], token) \in EventRow
    BY ZenonT(60) DEF StoreInv, StoreTypeOK, EventRow, Claimed, Timer
  <1>2. outbox' \in [DOMAIN outbox -> EventRow]
    BY <1>1 DEF ClaimOutbox, StoreInv, StoreTypeOK
  <1> QED
    BY <1>2, EventsRewritten DEF ClaimOutbox

(* MarkPublished rewrites one event only. *)
LEMMA MarkPublishedStep ==
    ASSUME StoreInv, NEW k \in DOMAIN outbox, NEW token, MarkPublished(k, token)
    PROVE  StoreInv'
  <1>1. Published \in EventRow
    BY DEF Published, EventRow, Timer, Timestamp
  <1>2. outbox' \in [DOMAIN outbox -> EventRow]
    BY <1>1 DEF MarkPublished, StoreInv, StoreTypeOK
  <1> QED
    BY <1>2, EventsRewritten DEF MarkPublished

(* The expiry of a claim rewrites one event only. *)
LEMMA ClaimElapsesStep ==
    ASSUME StoreInv, NEW k \in DOMAIN outbox, ClaimElapses(k)
    PROVE  StoreInv'
  <1>1. [outbox[k] EXCEPT !.claim = "passed"] \in EventRow
    BY DEF StoreInv, StoreTypeOK, EventRow, Timer
  <1>2. outbox' \in [DOMAIN outbox -> EventRow]
    BY <1>1 DEF ClaimElapses, StoreInv, StoreTypeOK
  <1> QED
    BY <1>2, EventsRewritten DEF ClaimElapses

(* ClaimDelivery rewrites one row in place. *)
LEMMA ClaimDeliveryStep ==
    ASSUME StoreInv, NEW id, NEW token \in LeaseToken, ClaimDelivery(id, token)
    PROVE  StoreInv'
  <1>1. id \in DOMAIN tasks /\ GoodRow(Leased(tasks[id], token), replays[id])
    BY RowsAreGood, LeasedGood DEF ClaimDelivery
  <1>2. Leased(tasks[id], token).generation = tasks[id].generation
    BY <1>1, RowsAreGood DEF Leased, GoodRow, TaskRow
  <1> QED
    BY <1>1, <1>2, RowRewritten DEF ClaimDelivery

(* ApplyDeliveryResult rewrites one row in place. *)
LEMMA ApplyDeliveryResultStep ==
    ASSUME StoreInv, NEW id, NEW token, NEW outcome \in Outcome,
           ApplyDeliveryResult(id, token, outcome)
    PROVE  StoreInv'
  <1>1. id \in DOMAIN tasks /\ GoodRow(Settled(tasks[id], outcome), replays[id])
    BY RowsAreGood, SettledGood DEF ApplyDeliveryResult, LeaseStillHeld
  <1>2. Settled(tasks[id], outcome).generation = tasks[id].generation
    BY <1>1, RowsAreGood DEF Settled, GoodRow, TaskRow
  <1> QED
    BY <1>1, <1>2, RowRewritten DEF ApplyDeliveryResult

(* The passing of time rewrites one row in place. *)
LEMMA RowTimerStep ==
    ASSUME StoreInv, NEW id \in DOMAIN tasks,
           LeaseElapses(id) \/ RetryFallsDue(id) \/ LifetimeElapses(id) \/ RowAges(id)
    PROVE  StoreInv'
  <1> DEFINE row == tasks[id]
  <1>1. GoodRow(row, replays[id]) /\ row \in TaskRow
    BY RowsAreGood DEF GoodRow
  <1>2. CASE LeaseElapses(id)
    <2> DEFINE new == [row EXCEPT !.lease = "passed"]
    <2>1. new \in TaskRow /\ new.generation = row.generation
      BY <1>1 DEF TaskRow, Timer
    <2>2. GoodRow(new, replays[id])
      BY <1>1, <1>2, <2>1 DEF GoodRow, TaskRow, WellFormed, Counted, WithinBudget, LeaseElapses
    <2>3. tasks' = [tasks EXCEPT ![id] = new]
      BY <1>2 DEF LeaseElapses
    <2> HIDE DEF new
    <2> QED
      BY <1>2, <2>1, <2>2, <2>3, RowRewritten DEF LeaseElapses
  <1>3. CASE RetryFallsDue(id)
    <2> DEFINE new == [row EXCEPT !.nextAttempt = "passed"]
    <2>1. new \in TaskRow /\ new.generation = row.generation
      BY <1>1 DEF TaskRow, Timer
    <2>2. GoodRow(new, replays[id])
      BY <1>1, <1>3, <2>1 DEF GoodRow, TaskRow, WellFormed, Counted, WithinBudget, RetryFallsDue
    <2>3. tasks' = [tasks EXCEPT ![id] = new]
      BY <1>3 DEF RetryFallsDue
    <2> HIDE DEF new
    <2> QED
      BY <1>3, <2>1, <2>2, <2>3, RowRewritten DEF RetryFallsDue
  <1>4. CASE LifetimeElapses(id)
    <2> DEFINE new == [row EXCEPT !.lifetime = "passed"]
    <2>1. new \in TaskRow /\ new.generation = row.generation
      BY <1>1 DEF TaskRow
    <2>2. GoodRow(new, replays[id])
      BY <1>1, <2>1 DEF GoodRow, TaskRow, WellFormed, Counted, WithinBudget
    <2>3. tasks' = [tasks EXCEPT ![id] = new]
      BY <1>4 DEF LifetimeElapses
    <2> HIDE DEF new
    <2> QED
      BY <1>4, <2>1, <2>2, <2>3, RowRewritten DEF LifetimeElapses
  <1>5. CASE RowAges(id)
    <2> DEFINE new == [row EXCEPT !.updated = "aged"]
    <2>1. new \in TaskRow /\ new.generation = row.generation
      BY <1>1 DEF TaskRow
    <2>2. GoodRow(new, replays[id])
      BY <1>1, <2>1 DEF GoodRow, TaskRow, WellFormed, Counted, WithinBudget
    <2>3. tasks' = [tasks EXCEPT ![id] = new]
      BY <1>5 DEF RowAges
    <2> HIDE DEF new
    <2> QED
      BY <1>5, <2>1, <2>2, <2>3, RowRewritten DEF RowAges
  <1> QED
    BY <1>2, <1>3, <1>4, <1>5

(* CreateNotification adds a row together with its first event. *)
LEMMA CreateNotificationStep ==
    ASSUME StoreInv, NEW id \in Notification, NEW request \in Request,
           NEW hash \in Hash, NEW max \in MaxAttemptsValues,
           CreateNotification(id, request, hash, max)
    PROVE  StoreInv'
  <1> DEFINE new == NewTask(request, hash, max)
  <1>1. id \notin DOMAIN tasks
    BY RowsAreGood DEF CreateNotification
  <1>2. /\ DOMAIN tasks' = DOMAIN tasks \cup {id}
        /\ \A i \in DOMAIN tasks' : tasks'[i] = IF i = id THEN new ELSE tasks[i]
        /\ tasks' = [i \in DOMAIN tasks' |-> tasks'[i]]
    BY DEF CreateNotification
  <1>3. /\ DOMAIN replays' = DOMAIN replays \cup {id}
        /\ \A i \in DOMAIN replays' : replays'[i] = IF i = id THEN 0 ELSE replays[i]
        /\ replays' \in [DOMAIN replays' -> Nat]
    BY DEF CreateNotification, StoreInv, StoreTypeOK
  <1>4. GoodRow(new, 0) /\ new.generation = 0
    BY NewTaskGood DEF NewTask
  <1> HIDE DEF new
  <1>5. \A i \in DOMAIN tasks' : i \in DOMAIN replays' /\ GoodRow(tasks'[i], replays'[i])
    BY <1>1, <1>2, <1>3, <1>4, RowsAreGood DEF CreateNotification
  <1>6. /\ DOMAIN outbox' = DOMAIN outbox \cup {<<id, 0>>}
        /\ DOMAIN outbox' \subseteq Notification \X Nat
        /\ outbox' \in [DOMAIN outbox' -> EventRow]
    <2>1. {<<id, 0>>} \in SUBSET (Notification \X Nat)
      OBVIOUS
    <2>2. outbox' = InsertEvents({<<id, 0>>})
      BY DEF CreateNotification
    <2> QED
      BY <2>1, <2>2, EventsInserted
  <1>7. EventLedger'
    <2>1. \A k \in DOMAIN outbox' :
             k[1] \in DOMAIN tasks' /\ k[2] <= tasks'[k[1]].generation
      BY <1>1, <1>2, <1>4, <1>6 DEF StoreInv, EventLedger
    <2>2. ASSUME NEW i \in DOMAIN tasks', NEW g \in 0 .. tasks'[i].generation
          PROVE  <<i, g>> \in DOMAIN outbox'
      <3>1. CASE i = id
        BY <1>2, <1>4, <1>6, <3>1
      <3>2. CASE i # id
        BY <1>2, <1>6, <3>2 DEF StoreInv, EventLedger
      <3> QED
        BY <3>1, <3>2
    <2> QED
      BY <2>1, <2>2 DEF EventLedger
  <1>8. DOMAIN tasks' \subseteq Notification /\ DOMAIN replays' \subseteq Notification
    BY <1>2, <1>3 DEF StoreInv, StoreTypeOK
  <1> QED
    BY <1>2, <1>3, <1>5, <1>6, <1>7, <1>8, GoodTablesSuffice

(* A row moves to the next generation together with its event. *)
LEMMA LedgerExtended ==
    ASSUME StoreInv, NEW moved \in SUBSET DOMAIN tasks,
           DOMAIN tasks' = DOMAIN tasks,
           \A i \in DOMAIN tasks : tasks'[i].generation =
               IF i \in moved THEN tasks[i].generation + 1 ELSE tasks[i].generation,
           DOMAIN outbox' = DOMAIN outbox
               \cup {<<i, tasks[i].generation + 1>> : i \in moved}
    PROVE  EventLedger'
  <1>0. \A i \in DOMAIN tasks : tasks[i].generation \in Nat
    BY DEF StoreInv, StoreTypeOK, TaskRow
  <1>1. ASSUME NEW k \in DOMAIN outbox'
        PROVE  k[1] \in DOMAIN tasks' /\ k[2] <= tasks'[k[1]].generation
    <2>1. CASE k \in DOMAIN outbox
      <3>1. /\ k[1] \in DOMAIN tasks /\ k[2] <= tasks[k[1]].generation
            /\ k[2] \in Nat
        BY <2>1 DEF StoreInv, StoreTypeOK, EventLedger
      <3> QED
        BY <1>0, <3>1
    <2>2. CASE k \notin DOMAIN outbox
      <3>1. PICK i \in moved : k = <<i, tasks[i].generation + 1>>
        BY <2>2
      <3> QED
        BY <1>0, <3>1
    <2> QED
      BY <2>1, <2>2
  <1>2. ASSUME NEW i \in DOMAIN tasks', NEW g \in 0 .. tasks'[i].generation
        PROVE  <<i, g>> \in DOMAIN outbox'
    <2>1. i \in DOMAIN tasks
      OBVIOUS
    <2>2. CASE g \in 0 .. tasks[i].generation
      BY <2>1, <2>2 DEF StoreInv, EventLedger
    <2>3. CASE g \notin 0 .. tasks[i].generation
      <3>1. i \in moved /\ g = tasks[i].generation + 1
        BY <1>0, <2>1, <2>3
      <3> QED
        BY <3>1
    <2> QED
      BY <2>2, <2>3
  <1> QED
    BY <1>1, <1>2 DEF EventLedger

(* ScheduleDue extends the ledger of every row it reschedules. *)
LEMMA ScheduleDueStep ==
    ASSUME StoreInv, NEW batch \in SUBSET DOMAIN tasks, ScheduleDue(batch)
    PROVE  StoreInv'
  <1> DEFINE moved == {i \in batch : ~Exhausted(tasks[i])}
             keys == {<<i, tasks[i].generation + 1>> : i \in moved}
  <1>1. /\ DOMAIN tasks' = DOMAIN tasks
        /\ \A i \in DOMAIN tasks :
              tasks'[i] = IF i \in batch THEN AfterDue(tasks[i]) ELSE tasks[i]
        /\ tasks' = [i \in DOMAIN tasks |-> tasks'[i]]
        /\ replays' = replays
    BY DEF ScheduleDue
  <1>2. \A i \in batch : tasks[i].status \in {"retry_wait", "delivering"}
    BY DEF ScheduleDue, Due
  <1>3. \A i \in DOMAIN tasks : i \in DOMAIN replays /\ GoodRow(tasks'[i], replays[i])
    BY <1>1, <1>2, RowsAreGood, AfterDueGood
  <1>4. \A i \in DOMAIN tasks : tasks'[i].generation =
           IF i \in moved THEN tasks[i].generation + 1 ELSE tasks[i].generation
    <2> TAKE i \in DOMAIN tasks
    <2>1. tasks[i] \in TaskRow
      BY RowsAreGood DEF GoodRow
    <2> QED
      BY <1>1, <2>1, ZenonT(60) DEF AfterDue, Buried, Rescheduled, TaskRow
  <1>5. keys \in SUBSET (Notification \X Nat)
    BY DEF StoreInv, StoreTypeOK, TaskRow
  <1>6. outbox' = InsertEvents(keys)
    BY DEF ScheduleDue
  <1>7. /\ DOMAIN outbox' = DOMAIN outbox \cup keys
        /\ DOMAIN outbox' \subseteq Notification \X Nat
        /\ outbox' \in [DOMAIN outbox' -> EventRow]
    <2> HIDE DEF keys
    <2> QED BY <1>5, <1>6, EventsInserted
  <1>8. moved \in SUBSET DOMAIN tasks
    OBVIOUS
  <1>9. EventLedger'
    <2> HIDE DEF moved
    <2> QED BY <1>1, <1>4, <1>7, <1>8, LedgerExtended
  <1> QED
    BY <1>1, <1>3, <1>7, <1>9, GoodTablesSuffice DEF StoreInv, StoreTypeOK

(* ReplayDeadAtomic extends the ledger of one row. *)
LEMMA ReplayDeadAtomicStep ==
    ASSUME StoreInv, NEW id \in DOMAIN tasks, ReplayDeadAtomic(id)
    PROVE  StoreInv'
  <1> DEFINE new == Replayed(tasks[id])
             key == <<id, tasks[id].generation + 1>>
  <1>1. /\ DOMAIN tasks' = DOMAIN tasks
        /\ \A i \in DOMAIN tasks : tasks'[i] = IF i = id THEN new ELSE tasks[i]
        /\ tasks' = [i \in DOMAIN tasks |-> tasks'[i]]
    BY DEF ReplayDeadAtomic, StoreInv, StoreTypeOK
  <1>2. /\ DOMAIN replays' = DOMAIN replays
        /\ \A i \in DOMAIN replays :
              replays'[i] = IF i = id THEN replays[id] + 1 ELSE replays[i]
        /\ replays' \in [DOMAIN replays -> Nat]
    BY RowsAreGood DEF ReplayDeadAtomic, StoreInv, StoreTypeOK
  <1>3. GoodRow(new, replays[id] + 1)
    BY RowsAreGood, ReplayedGood DEF ReplayDeadAtomic
  <1>4. new.generation = tasks[id].generation + 1
    BY RowsAreGood DEF GoodRow, Replayed, TaskRow
  <1> HIDE DEF new
  <1>5. \A i \in DOMAIN tasks' : i \in DOMAIN replays' /\ GoodRow(tasks'[i], replays'[i])
    BY <1>1, <1>2, <1>3, RowsAreGood
  <1>6. key \in Notification \X Nat
    BY DEF StoreInv, StoreTypeOK, TaskRow
  <1>7. /\ DOMAIN outbox' = DOMAIN outbox \cup {key}
        /\ DOMAIN outbox' \subseteq Notification \X Nat
        /\ outbox' \in [DOMAIN outbox' -> EventRow]
    BY <1>6, EventsInserted DEF ReplayDeadAtomic
  <1>8. EventLedger'
    <2>1. {key} = {<<i, tasks[i].generation + 1>> : i \in {id}}
      OBVIOUS
    <2>2. \A i \in DOMAIN tasks : tasks'[i].generation =
             IF i \in {id} THEN tasks[i].generation + 1 ELSE tasks[i].generation
      BY <1>1, <1>4
    <2> QED
      BY <1>1, <1>7, <2>1, <2>2, LedgerExtended
  <1> QED
    BY <1>1, <1>2, <1>5, <1>7, <1>8, GoodTablesSuffice DEF StoreInv, StoreTypeOK

(* DeleteTerminalBefore takes whole tasks with all their events. *)
LEMMA DeleteTerminalBeforeStep ==
    ASSUME StoreInv, NEW batch \in SUBSET DOMAIN tasks, DeleteTerminalBefore(batch)
    PROVE  StoreInv'
  <1>1. /\ DOMAIN tasks' = DOMAIN tasks \ batch
        /\ \A i \in DOMAIN tasks' : tasks'[i] = tasks[i]
        /\ tasks' = [i \in DOMAIN tasks' |-> tasks'[i]]
        /\ replays' = replays
    BY DEF DeleteTerminalBefore
  <1>2. /\ DOMAIN outbox' = {k \in DOMAIN outbox : k[1] \notin batch}
        /\ outbox' \in [DOMAIN outbox' -> EventRow]
    BY DEF DeleteTerminalBefore, StoreInv, StoreTypeOK
  <1>3. \A i \in DOMAIN tasks' : i \in DOMAIN replays /\ GoodRow(tasks'[i], replays[i])
    BY <1>1, RowsAreGood
  <1>4. EventLedger'
    BY <1>1, <1>2 DEF StoreInv, EventLedger
  <1> QED
    BY <1>1, <1>2, <1>3, <1>4, GoodTablesSuffice DEF StoreInv, StoreTypeOK

-----------------------------------------------------------------------------

(* The empty tables satisfy the invariant. *)
LEMMA StoreInitInv == StoreInit => StoreInv
  BY DEF StoreInit, StoreInv, StoreTypeOK, RowShape, EventLedger, AttemptLedger,
         RetryBudget

(* Every statement of the store keeps the invariant. *)
LEMMA StoreNextInv == StoreInv /\ [StoreNext]_storeVars => StoreInv'
  <1> SUFFICES ASSUME StoreInv, [StoreNext]_storeVars
               PROVE  StoreInv'
    OBVIOUS
  <1>1. CASE \E id \in Notification, request \in Request, hash \in Hash,
                max \in MaxAttemptsValues : CreateNotification(id, request, hash, max)
    BY <1>1, CreateNotificationStep
  <1>2. CASE \E batch \in (SUBSET DOMAIN outbox) \ {{}}, token \in ClaimToken :
                ClaimOutbox(batch, token)
    BY <1>2, ClaimOutboxStep
  <1>3. CASE \E k \in DOMAIN outbox, token \in ClaimToken : MarkPublished(k, token)
    BY <1>3, MarkPublishedStep
  <1>4. CASE \E id \in DOMAIN tasks, token \in LeaseToken : ClaimDelivery(id, token)
    BY <1>4, ClaimDeliveryStep
  <1>5. CASE \E id \in DOMAIN tasks, token \in LeaseToken, outcome \in Outcome :
                ApplyDeliveryResult(id, token, outcome)
    BY <1>5, ApplyDeliveryResultStep
  <1>6. CASE \E batch \in (SUBSET DOMAIN tasks) \ {{}} : ScheduleDue(batch)
    BY <1>6, ScheduleDueStep
  <1>7. CASE \E id \in DOMAIN tasks : ReplayDeadAtomic(id)
    BY <1>7, ReplayDeadAtomicStep
  <1>8. CASE \E batch \in (SUBSET DOMAIN tasks) \ {{}} : DeleteTerminalBefore(batch)
    BY <1>8, DeleteTerminalBeforeStep
  <1>9. CASE TimePasses
    BY <1>9, ClaimElapsesStep, RowTimerStep DEF TimePasses
  <1>10. CASE UNCHANGED storeVars
    BY <1>10 DEF storeVars, StoreInv, StoreTypeOK, RowShape, EventLedger,
                 AttemptLedger, RetryBudget
  <1> QED
    BY <1>1, <1>2, <1>3, <1>4, <1>5, <1>6, <1>7, <1>8, <1>9, <1>10 DEF StoreNext

(* Every reachable state of the store satisfies all five invariants. *)
LEMMA StoreSafety == StoreSpec => []StoreInv
  <1>1. StoreInit => StoreInv
    BY StoreInitInv
  <1>2. StoreInv /\ [StoreNext]_storeVars => StoreInv'
    BY StoreNextInv
  <1> QED
    BY <1>1, <1>2, PTL DEF StoreSpec

(* The tables keep the column types of the migration under any sequence of *)
(* statements of internal/store/postgres.                                  *)
THEOREM StoreTypeCorrect == StoreSpec => []StoreTypeOK
  BY StoreSafety, PTL DEF StoreInv

(* A delivering row always has a lease that will pass and a retry_wait row *)
(* always a due time, so ScheduleDue never overlooks a row for a NULL.     *)
THEOREM NoRowStranded == StoreSpec => []RowShape
  BY StoreSafety, PTL DEF StoreInv

(* The outbox holds exactly one event per generation of every task: the    *)
(* ON CONFLICT DO NOTHING of ScheduleDue never swallows an event.          *)
THEOREM OneEventPerGeneration == StoreSpec => []EventLedger
  BY StoreSafety, PTL DEF StoreInv

(* Every generation is claimed at most once by ClaimDelivery.              *)
THEOREM OneClaimPerGeneration == StoreSpec => []AttemptLedger
  BY StoreSafety, PTL DEF StoreInv

(* attempt_count never exceeds max_attempts plus the replays of the task.  *)
THEOREM AttemptsBounded == StoreSpec => []RetryBudget
  BY StoreSafety, PTL DEF StoreInv

-----------------------------------------------------------------------------
(* What a row keeps over one statement. *)

Advances(old, new) ==
    /\ old.status = "delivered" => new.status = "delivered"
    /\ new.attempts - old.attempts \in {0, 1}
    /\ new.generation - old.generation \in {0, 1}
    /\ new.request = old.request

(* The row rewrites of the statements only move a row forward. *)
LEMMA TransformersAdvance ==
    ASSUME NEW row \in TaskRow
    PROVE  /\ Advances(row, row)
           /\ \A token : row.status = "pending" => Advances(row, Leased(row, token))
           /\ \A outcome : row.status = "delivering" => Advances(row, Settled(row, outcome))
           /\ row.status \in {"retry_wait", "delivering"} => Advances(row, AfterDue(row))
           /\ row.status = "dead" => Advances(row, Replayed(row))
           /\ Advances(row, [row EXCEPT !.lease = "passed"])
           /\ Advances(row, [row EXCEPT !.nextAttempt = "passed"])
           /\ Advances(row, [row EXCEPT !.lifetime = "passed"])
           /\ Advances(row, [row EXCEPT !.updated = "aged"])
  <1>1. /\ row.attempts \in Nat /\ row.generation \in Nat
        /\ row.attempts - row.attempts = 0 /\ row.generation - row.generation = 0
        /\ (row.attempts + 1) - row.attempts = 1
        /\ (row.generation + 1) - row.generation = 1
    BY DEF TaskRow
  <1>2. Advances(row, row)
    BY <1>1 DEF Advances
  <1>3. \A token : row.status = "pending" => Advances(row, Leased(row, token))
    BY <1>1 DEF Advances, Leased, TaskRow
  <1>4. \A outcome : row.status = "delivering" => Advances(row, Settled(row, outcome))
    BY <1>1 DEF Advances, Settled, TaskRow
  <1>5. row.status \in {"retry_wait", "delivering"} => Advances(row, AfterDue(row))
    BY <1>1 DEF Advances, AfterDue, Buried, Rescheduled, TaskRow
  <1>6. row.status = "dead" => Advances(row, Replayed(row))
    BY <1>1 DEF Advances, Replayed, TaskRow
  <1>7. /\ Advances(row, [row EXCEPT !.lease = "passed"])
        /\ Advances(row, [row EXCEPT !.nextAttempt = "passed"])
        /\ Advances(row, [row EXCEPT !.lifetime = "passed"])
        /\ Advances(row, [row EXCEPT !.updated = "aged"])
    BY <1>1 DEF Advances, TaskRow
  <1> QED
    BY <1>2, <1>3, <1>4, <1>5, <1>6, <1>7

(* Every statement of the store only moves surviving rows forward. *)
LEMMA StepAdvancesRows ==
    ASSUME StoreInv, StoreNext, NEW id \in DOMAIN tasks, id \in DOMAIN tasks'
    PROVE  Advances(tasks[id], tasks'[id])
  <1>0. tasks[id] \in TaskRow /\ id \in DOMAIN replays
    BY RowsAreGood DEF GoodRow
  <1>1. CASE \E i \in Notification, request \in Request, hash \in Hash,
                max \in MaxAttemptsValues : CreateNotification(i, request, hash, max)
    <2>1. tasks'[id] = tasks[id]
      BY <1>0, <1>1 DEF CreateNotification
    <2> QED
      BY <1>0, <2>1, TransformersAdvance
  <1>2. CASE \/ \E batch \in (SUBSET DOMAIN outbox) \ {{}}, token \in ClaimToken :
                   ClaimOutbox(batch, token)
             \/ \E k \in DOMAIN outbox, token \in ClaimToken : MarkPublished(k, token)
             \/ \E k \in DOMAIN outbox : ClaimElapses(k)
    <2>1. tasks'[id] = tasks[id]
      BY <1>2 DEF ClaimOutbox, MarkPublished, ClaimElapses
    <2> QED
      BY <1>0, <2>1, TransformersAdvance
  <1>3. CASE \E i \in DOMAIN tasks, token \in LeaseToken : ClaimDelivery(i, token)
    <2>1. PICK i \in DOMAIN tasks, token \in LeaseToken : ClaimDelivery(i, token)
      BY <1>3
    <2>2. tasks'[id] = IF id = i THEN Leased(tasks[id], token) ELSE tasks[id]
      BY <2>1 DEF ClaimDelivery
    <2>3. id = i => tasks[id].status = "pending"
      BY <2>1 DEF ClaimDelivery
    <2> QED
      BY <1>0, <2>2, <2>3, TransformersAdvance
  <1>4. CASE \E i \in DOMAIN tasks, token \in LeaseToken, outcome \in Outcome :
                ApplyDeliveryResult(i, token, outcome)
    <2>1. PICK i \in DOMAIN tasks, token \in LeaseToken, outcome \in Outcome :
                ApplyDeliveryResult(i, token, outcome)
      BY <1>4
    <2>2. tasks'[id] = IF id = i THEN Settled(tasks[id], outcome) ELSE tasks[id]
      BY <2>1 DEF ApplyDeliveryResult
    <2>3. id = i => tasks[id].status = "delivering"
      BY <2>1 DEF ApplyDeliveryResult, LeaseStillHeld
    <2> QED
      BY <1>0, <2>2, <2>3, TransformersAdvance
  <1>5. CASE \E batch \in (SUBSET DOMAIN tasks) \ {{}} : ScheduleDue(batch)
    <2>1. PICK batch \in SUBSET DOMAIN tasks : ScheduleDue(batch)
      BY <1>5
    <2>2. tasks'[id] = IF id \in batch THEN AfterDue(tasks[id]) ELSE tasks[id]
      BY <2>1 DEF ScheduleDue
    <2>3. id \in batch => tasks[id].status \in {"retry_wait", "delivering"}
      BY <2>1 DEF ScheduleDue, Due
    <2> QED
      BY <1>0, <2>2, <2>3, TransformersAdvance
  <1>6. CASE \E i \in DOMAIN tasks : ReplayDeadAtomic(i)
    <2>1. PICK i \in DOMAIN tasks : ReplayDeadAtomic(i)
      BY <1>6
    <2>2. tasks'[id] = IF id = i THEN Replayed(tasks[id]) ELSE tasks[id]
      BY <2>1 DEF ReplayDeadAtomic
    <2>3. id = i => tasks[id].status = "dead"
      BY <2>1 DEF ReplayDeadAtomic
    <2> QED
      BY <1>0, <2>2, <2>3, TransformersAdvance
  <1>7. CASE \E batch \in (SUBSET DOMAIN tasks) \ {{}} : DeleteTerminalBefore(batch)
    <2>1. tasks'[id] = tasks[id]
      BY <1>7 DEF DeleteTerminalBefore
    <2> QED
      BY <1>0, <2>1, TransformersAdvance
  <1>8. CASE \E i \in DOMAIN tasks :
                LeaseElapses(i) \/ RetryFallsDue(i) \/ LifetimeElapses(i) \/ RowAges(i)
    <2>1. \/ tasks'[id] = tasks[id]
          \/ tasks'[id] = [tasks[id] EXCEPT !.lease = "passed"]
          \/ tasks'[id] = [tasks[id] EXCEPT !.nextAttempt = "passed"]
          \/ tasks'[id] = [tasks[id] EXCEPT !.lifetime = "passed"]
          \/ tasks'[id] = [tasks[id] EXCEPT !.updated = "aged"]
      BY <1>8 DEF LeaseElapses, RetryFallsDue, LifetimeElapses, RowAges
    <2> QED
      BY <1>0, <2>1, TransformersAdvance
  <1> QED
    BY <1>1, <1>2, <1>3, <1>4, <1>5, <1>6, <1>7, <1>8 DEF StoreNext, TimePasses

(* No statement takes a delivered task back, moves attempt_count or        *)
(* generation backwards or by more than one, or gives a row to another     *)
(* request.                                                                *)
THEOREM RowsOnlyAdvance == StoreSpec => RowProgress
  <1>1. StoreInv /\ [StoreNext]_storeVars =>
          [\A id \in DOMAIN tasks \cap DOMAIN tasks' :
              /\ tasks[id].status = "delivered" => tasks'[id].status = "delivered"
              /\ tasks'[id].attempts - tasks[id].attempts \in {0, 1}
              /\ tasks'[id].generation - tasks[id].generation \in {0, 1}
              /\ tasks'[id].request = tasks[id].request]_storeVars
    BY StepAdvancesRows DEF Advances
  <1> QED
    BY <1>1, StoreSafety, PTL DEF StoreSpec, RowProgress

-----------------------------------------------------------------------------
(* What a step of the store means for those who remember a task.           *)

(* A task that was removed does not come back: ids are not reused.         *)
LEMMA RemovedForGood ==
    ASSUME StoreInv, [StoreNext]_storeVars, NEW id \in DOMAIN replays
    PROVE  id \in DOMAIN replays' /\ (id \in DOMAIN tasks' => id \in DOMAIN tasks)
  BY DEF storeVars, StoreNext, CreateNotification, ClaimOutbox, MarkPublished, ClaimDelivery,
         ApplyDeliveryResult, ScheduleDue, ReplayDeadAtomic, DeleteTerminalBefore,
         TimePasses, ClaimElapses, LeaseElapses, RetryFallsDue, LifetimeElapses, RowAges

(* The counters of a surviving row do not go back. *)
LEMMA CountersGrow ==
    ASSUME StoreInv, [StoreNext]_storeVars, NEW id \in DOMAIN tasks, id \in DOMAIN tasks'
    PROVE  /\ tasks[id].generation <= tasks'[id].generation
           /\ tasks[id].attempts <= tasks'[id].attempts
  <1>1. tasks[id] \in TaskRow /\ tasks'[id] \in TaskRow
    BY StoreNextInv DEF StoreInv, StoreTypeOK
  <1>2. CASE StoreNext
    BY <1>1, <1>2, StepAdvancesRows DEF Advances, TaskRow
  <1>3. CASE UNCHANGED storeVars
    BY <1>1, <1>3 DEF storeVars, TaskRow
  <1> QED
    BY <1>2, <1>3
=============================================================================
