-------------------------- MODULE OperationsProofs --------------------------
(***************************************************************************)
(* Proofs that an administrator's 202 stands for a revival of its own      *)
(* (EveryGrantRevives) and that what a caller reads only moves forward     *)
(* (ReadsAdvance), for any number of callers, administrators and tasks.    *)
(*                                                                         *)
(* The balance of replays against answers is inductive once every running  *)
(* call is known to be about an accepted task. A read is two steps with    *)
(* anything in between: the answer on its way has to be later than the     *)
(* last one given and earlier than the row, and both orders have to        *)
(* survive every statement, which they do because the order on views is    *)
(* transitive. The order of the property is not; it needs the count of     *)
(* replays that a dead task keeps.                                         *)
(***************************************************************************)
EXTENDS Operations, NotificationStoreProofs, FiniteSetTheorems

TaskView == [status : Status, attempts : Nat, replays : Nat]
GetView == TaskView \cup {NotFound}

(* A running call is about a task that was accepted. *)
GoodCall(b) ==
    \/ call[b] = NoCall
    \/ call[b] \in [pc : {"get"}, id : DOMAIN replays, caller : {CallerTokens[b]}]
    \/ call[b] \in [pc : {"read"}, id : DOMAIN replays, view : GetView]
    \/ call[b] \in [pc : {"replay", "replayed"}, id : DOMAIN replays]

CallsGood ==
    /\ call = [b \in Bearer |-> call[b]]
    /\ \A b \in Bearer : GoodCall(b)

(* The replays of id are balanced against the answers to them. *)
Balanced(id) ==
    LET pending == Cardinality(Unanswered(id))
        count == IF id \in DOMAIN replays THEN replays[id] ELSE 0
    IN  /\ granted[id] + pending <= count
        /\ count <= granted[id] + pending + unsure[id]

ReplaysBalanced ==
    /\ granted \in [Notification -> Nat]
    /\ unsure \in [Notification -> Nat]
    /\ \A id \in Notification : Balanced(id)

GrantInv == StoreInv /\ CallsGood /\ ReplaysBalanced

-----------------------------------------------------------------------------
(* Steps of the store. *)

(* The rest of the service runs the store's statements. *)
LEMMA ElsewhereOnStore ==
    ASSUME Elsewhere
    PROVE  StoreNext
  <1>1. ASSUME NEW k \in DOMAIN outbox PROVE {k} \in (SUBSET DOMAIN outbox) \ {{}}
    OBVIOUS
  <1>2. ASSUME NEW id \in DOMAIN tasks PROVE {id} \in (SUBSET DOMAIN tasks) \ {{}}
    OBVIOUS
  <1> QED
    BY <1>1, <1>2 DEF Elsewhere, StoreNext, TimePasses

(* So does every step of a call. *)
LEMMA OperationsStepOnStore ==
    ASSUME CallsGood, [OperationsNext]_operationsVars
    PROVE  [StoreNext]_storeVars
  <1>1. CASE \E b \in Bearer : Applied(b)
    BY <1>1 DEF Applied, ReplayDeadAtomic, StoreNext
  <1>2. CASE Elsewhere
    BY <1>2, ElsewhereOnStore
  <1> QED
    BY <1>1, <1>2 DEF OperationsNext, operationsVars, Get, Replay, GetForCaller, AnswerGet,
                      GetLost, NotApplied, AnswerReplay, ReplayLost

(* A statement forgets no id, and the rest of the service replays nothing. *)
LEMMA ReplaysElsewhere ==
    ASSUME StoreInv, Elsewhere
    PROVE  /\ DOMAIN replays \subseteq DOMAIN replays'
           /\ \A id \in DOMAIN replays : replays'[id] = replays[id]
           /\ \A id \in DOMAIN replays' \ DOMAIN replays : replays'[id] = 0
  BY DEF Elsewhere, CreateNotification, ClaimOutbox, MarkPublished, ClaimDelivery,
         ApplyDeliveryResult, ScheduleDue, DeleteTerminalBefore, LeaseElapses, RetryFallsDue,
         LifetimeElapses, RowAges

-----------------------------------------------------------------------------
(* The calls. *)

(* The replays under way are finitely many. *)
LEMMA UnansweredFinite ==
    ASSUME NEW id
    PROVE  IsFiniteSet(Unanswered(id)) /\ Cardinality(Unanswered(id)) \in Nat
  BY TokensAssumption, FS_Subset, FS_CardinalityType DEF Unanswered

(* A call that moves on leaves the others as they are. *)
LEMMA CallMoves ==
    ASSUME CallsGood, NEW b \in Bearer, NEW state, call' = [call EXCEPT ![b] = state],
           DOMAIN replays \subseteq DOMAIN replays',
           \/ state = NoCall
           \/ state \in [pc : {"get"}, id : DOMAIN replays', caller : {CallerTokens[b]}]
           \/ state \in [pc : {"read"}, id : DOMAIN replays', view : GetView]
           \/ state \in [pc : {"replay", "replayed"}, id : DOMAIN replays']
    PROVE  /\ CallsGood'
           /\ call'[b] = state
           /\ \A a \in Bearer \ {b} : call'[a] = call[a]
  <1>1. call'[b] = state /\ \A a \in Bearer \ {b} : call'[a] = call[a]
    BY DEF CallsGood
  <1>2. GoodCall(b)'
    BY <1>1 DEF GoodCall
  <1>3. ASSUME NEW a \in Bearer \ {b} PROVE GoodCall(a)'
    <2>1. GoodCall(a)
      BY DEF CallsGood
    <2> QED
      BY <1>1, <2>1 DEF GoodCall
  <1>4. call' = [a \in Bearer |-> call'[a]]
    BY DEF CallsGood
  <1> QED
    BY <1>1, <1>2, <1>3, <1>4 DEF CallsGood

(* Calls that neither apply a replay nor answer one keep the balance. *)
LEMMA BalanceKept ==
    ASSUME ReplaysBalanced, NEW id \in Notification, granted' = granted, unsure' = unsure,
           Unanswered(id)' = Unanswered(id),
           id \in DOMAIN replays => id \in DOMAIN replays' /\ replays'[id] = replays[id],
           id \in DOMAIN replays' \ DOMAIN replays => replays'[id] = 0
    PROVE  Balanced(id)'
  <1>1. Balanced(id)
    BY DEF ReplaysBalanced
  <1> QED
    BY <1>1 DEF Balanced

(* The shape of a call by where it is. *)
LEMMA CallShapes ==
    ASSUME CallsGood, NEW b \in Bearer
    PROVE  /\ call[b].pc = "get" =>
                 call[b].id \in DOMAIN replays /\ call[b].caller = CallerTokens[b]
           /\ call[b].pc = "read" => call[b].id \in DOMAIN replays /\ call[b].view \in GetView
           /\ call[b].pc \in {"replay", "replayed"} =>
                 /\ call[b].id \in DOMAIN replays
                 /\ [call[b] EXCEPT !.pc = "replayed"] = [pc |-> "replayed", id |-> call[b].id]
  BY DEF CallsGood, GoodCall, NoCall

(* What GetForCaller returns is a view. *)
LEMMA ViewTyped ==
    ASSUME StoreInv, NEW id \in DOMAIN tasks
    PROVE  View(id) \in TaskView
  BY RowsAreGood DEF View, TaskView, GoodRow, TaskRow

(* A step of a call that has nothing to do with a replay in effect. *)
LEMMA QuietCall ==
    ASSUME GrantInv, NEW b \in Bearer, UNCHANGED storeVars, granted' = granted, unsure' = unsure,
           call[b].pc # "replayed",
           NEW state, call' = [call EXCEPT ![b] = state], state.pc # "replayed",
           \/ state = NoCall
           \/ state \in [pc : {"get"}, id : DOMAIN replays, caller : {CallerTokens[b]}]
           \/ state \in [pc : {"read"}, id : DOMAIN replays, view : GetView]
           \/ state \in [pc : {"replay", "replayed"}, id : DOMAIN replays]
    PROVE  GrantInv'
  <1>1. replays' = replays /\ StoreInv'
    BY StoreNextInv DEF storeVars, GrantInv
  <1>2. CallsGood' /\ call'[b] = state /\ \A a \in Bearer \ {b} : call'[a] = call[a]
    BY <1>1, CallMoves DEF GrantInv
  <1>3. \A id \in Notification : Unanswered(id)' = Unanswered(id)
    BY <1>2 DEF Unanswered
  <1>4. \A id \in Notification : Balanced(id)'
    BY <1>1, <1>3, BalanceKept DEF GrantInv
  <1> QED
    BY <1>1, <1>2, <1>4 DEF GrantInv, ReplaysBalanced

(* A call that ends. *)
LEMMA CallEnds ==
    ASSUME CallsGood, NEW b \in Bearer, call' = [call EXCEPT ![b] = NoCall], replays' = replays,
           NEW id, id = call[b].id
    PROVE  /\ CallsGood'
           /\ call[b].pc = "replayed" => b \in Unanswered(id)
           /\ Unanswered(id)' = Unanswered(id) \ {b}
           /\ \A i : i # id => Unanswered(i)' = Unanswered(i)
  <1>1. CallsGood' /\ call'[b] = NoCall /\ \A a \in Bearer \ {b} : call'[a] = call[a]
    BY CallMoves
  <1> QED
    BY <1>1 DEF Unanswered, NoCall

(* ReplayDeadAtomic took effect: one replay more, one answer to give. *)
LEMMA AppliedKeepsBalance ==
    ASSUME GrantInv, NEW b \in Bearer, Applied(b)
    PROVE  GrantInv'
  <1>1. PICK id : id = call[b].id
    OBVIOUS
  <1>2. /\ id \in DOMAIN replays /\ id \in Notification
        /\ call' = [call EXCEPT ![b] = [pc |-> "replayed", id |-> id]]
    BY <1>1, CallShapes DEF Applied, GrantInv, CallsGood, StoreInv, StoreTypeOK
  <1>3. /\ DOMAIN replays' = DOMAIN replays /\ replays'[id] = replays[id] + 1
        /\ \A i \in DOMAIN replays \ {id} : replays'[i] = replays[i]
        /\ replays[id] \in Nat
    BY <1>1, <1>2 DEF Applied, ReplayDeadAtomic, GrantInv, StoreInv, StoreTypeOK
  <1>4. /\ CallsGood' /\ call'[b] = [pc |-> "replayed", id |-> id]
        /\ \A a \in Bearer \ {b} : call'[a] = call[a]
    BY <1>2, <1>3, CallMoves DEF GrantInv
  <1>5. StoreInv'
    <2>1. StoreNext
      BY DEF Applied, ReplayDeadAtomic, StoreNext
    <2> QED
      BY <2>1, StoreNextInv DEF GrantInv
  <1>6. granted' = granted /\ unsure' = unsure
    BY DEF Applied
  <1>7. Balanced(id)'
    <2>1. b \notin Unanswered(id) /\ Unanswered(id)' = Unanswered(id) \cup {b}
      BY <1>4 DEF Unanswered, Applied
    <2>2. /\ Cardinality(Unanswered(id)') = Cardinality(Unanswered(id)) + 1
          /\ Cardinality(Unanswered(id)) \in Nat
      BY <2>1, UnansweredFinite, FS_AddElement
    <2>3. Balanced(id) /\ granted[id] \in Nat /\ unsure[id] \in Nat
      BY <1>2 DEF GrantInv, ReplaysBalanced
    <2> QED
      BY <1>2, <1>3, <1>6, <2>2, <2>3 DEF Balanced
  <1>8. ASSUME NEW i \in Notification \ {id} PROVE Balanced(i)'
    <2>1. Unanswered(i)' = Unanswered(i)
      BY <1>1, <1>4 DEF Unanswered, Applied
    <2> QED
      BY <1>3, <1>6, <2>1, BalanceKept DEF GrantInv
  <1> QED
    BY <1>4, <1>5, <1>6, <1>7, <1>8 DEF GrantInv, ReplaysBalanced

(* A replay in effect is answered 202. *)
LEMMA AnswerKeepsBalance ==
    ASSUME GrantInv, NEW b \in Bearer, AnswerReplay(b)
    PROVE  GrantInv'
  <1>1. PICK id : id = call[b].id
    OBVIOUS
  <1>2. id \in DOMAIN replays /\ id \in Notification
    BY <1>1, CallShapes DEF AnswerReplay, GrantInv, StoreInv, StoreTypeOK
  <1>3. replays' = replays /\ unsure' = unsure /\ StoreInv'
    BY StoreNextInv DEF AnswerReplay, storeVars, GrantInv
  <1>4. /\ CallsGood' /\ b \in Unanswered(id) /\ Unanswered(id)' = Unanswered(id) \ {b}
        /\ \A i : i # id => Unanswered(i)' = Unanswered(i)
    BY <1>1, <1>3, CallEnds DEF AnswerReplay, GrantInv
  <1>5. /\ granted \in [Notification -> Nat] /\ granted' \in [Notification -> Nat]
        /\ granted'[id] = granted[id] + 1
        /\ \A i \in Notification \ {id} : granted'[i] = granted[i]
    BY <1>1, <1>2 DEF AnswerReplay, GrantInv, ReplaysBalanced
  <1>6. Balanced(id)'
    <2>1. /\ Cardinality(Unanswered(id)') = Cardinality(Unanswered(id)) - 1
          /\ Cardinality(Unanswered(id)) \in Nat
      BY <1>4, UnansweredFinite, FS_RemoveElement
    <2>2. Balanced(id) /\ granted[id] \in Nat /\ unsure[id] \in Nat /\ replays[id] \in Nat
      BY <1>2 DEF GrantInv, ReplaysBalanced, StoreInv, StoreTypeOK
    <2> QED
      BY <1>2, <1>3, <1>5, <2>1, <2>2 DEF Balanced
  <1>7. ASSUME NEW i \in Notification \ {id} PROVE Balanced(i)'
    <2>1. Balanced(i)
      BY DEF GrantInv, ReplaysBalanced
    <2> QED
      BY <1>3, <1>4, <1>5, <2>1 DEF Balanced
  <1> QED
    BY <1>3, <1>4, <1>5, <1>6, <1>7 DEF GrantInv, ReplaysBalanced

(* The answer to a replay is lost, whether it took effect or not. *)
LEMMA LostKeepsBalance ==
    ASSUME GrantInv, NEW b \in Bearer, ReplayLost(b)
    PROVE  GrantInv'
  <1>1. PICK id : id = call[b].id
    OBVIOUS
  <1>2. id \in DOMAIN replays /\ id \in Notification
    BY <1>1, CallShapes DEF ReplayLost, GrantInv, StoreInv, StoreTypeOK
  <1>3. replays' = replays /\ granted' = granted /\ StoreInv'
    BY StoreNextInv DEF ReplayLost, storeVars, GrantInv
  <1>4. /\ CallsGood' /\ Unanswered(id)' = Unanswered(id) \ {b}
        /\ \A i : i # id => Unanswered(i)' = Unanswered(i)
    BY <1>1, <1>3, CallEnds DEF ReplayLost, GrantInv
  <1>5. /\ unsure \in [Notification -> Nat] /\ unsure' \in [Notification -> Nat]
        /\ unsure'[id] = unsure[id] + 1
        /\ \A i \in Notification \ {id} : unsure'[i] = unsure[i]
    BY <1>1, <1>2 DEF ReplayLost, GrantInv, ReplaysBalanced
  <1>6. Balanced(id)'
    <2>1. /\ Cardinality(Unanswered(id)') \in {Cardinality(Unanswered(id)) - 1,
                                               Cardinality(Unanswered(id))}
          /\ Cardinality(Unanswered(id)) \in Nat
      <3>1. CASE b \in Unanswered(id)
        BY <1>4, <3>1, UnansweredFinite, FS_RemoveElement
      <3>2. CASE b \notin Unanswered(id)
        <4>1. Unanswered(id)' = Unanswered(id)
          BY <1>4, <3>2
        <4> QED
          BY <4>1, UnansweredFinite
      <3> QED
        BY <3>1, <3>2
    <2>2. Balanced(id) /\ granted[id] \in Nat /\ unsure[id] \in Nat /\ replays[id] \in Nat
      BY <1>2 DEF GrantInv, ReplaysBalanced, StoreInv, StoreTypeOK
    <2> QED
      BY <1>2, <1>3, <1>5, <2>1, <2>2 DEF Balanced
  <1>7. ASSUME NEW i \in Notification \ {id} PROVE Balanced(i)'
    <2>1. Balanced(i)
      BY DEF GrantInv, ReplaysBalanced
    <2> QED
      BY <1>3, <1>4, <1>5, <2>1 DEF Balanced
  <1> QED
    BY <1>3, <1>4, <1>5, <1>6, <1>7 DEF GrantInv, ReplaysBalanced

(* The rest of the service replays nothing. *)
LEMMA ElsewhereKeepsBalance ==
    ASSUME GrantInv, Elsewhere
    PROVE  GrantInv'
  <1>1. call' = call /\ granted' = granted /\ unsure' = unsure
    BY DEF Elsewhere, callVars
  <1>2. StoreInv'
    BY ElsewhereOnStore, StoreNextInv DEF GrantInv
  <1>3. CallsGood'
    BY <1>1, ReplaysElsewhere DEF GrantInv, CallsGood, GoodCall
  <1>4. \A id \in Notification : Unanswered(id)' = Unanswered(id)
    BY <1>1 DEF Unanswered
  <1>5. \A id \in Notification : Balanced(id)'
    BY <1>1, <1>4, ReplaysElsewhere, BalanceKept DEF GrantInv
  <1> QED
    BY <1>1, <1>2, <1>3, <1>5 DEF GrantInv, ReplaysBalanced

(* Every step keeps the balance. *)
LEMMA GrantNextInv == GrantInv /\ [OperationsNext]_operationsVars => GrantInv'
  <1> SUFFICES ASSUME GrantInv, [OperationsNext]_operationsVars PROVE GrantInv'
    OBVIOUS
  <1>1. CASE UNCHANGED operationsVars
    BY <1>1 DEF operationsVars, storeVars, callVars, GrantInv, StoreInv, StoreTypeOK, RowShape,
                EventLedger, AttemptLedger, RetryBudget, CallsGood, GoodCall, ReplaysBalanced,
                Balanced, Unanswered
  <1>2. ASSUME NEW b \in Bearer, NEW id \in DOMAIN replays, Get(b, id) \/ Replay(b, id)
        PROVE  GrantInv'
    <2>1. CASE Get(b, id)
      <3> DEFINE state == [pc |-> "get", id |-> id, caller |-> CallerTokens[b]]
      <3>1. /\ state \in [pc : {"get"}, id : DOMAIN replays, caller : {CallerTokens[b]}]
            /\ state.pc # "replayed"
        OBVIOUS
      <3>2. /\ call' = [call EXCEPT ![b] = state] /\ call[b].pc # "replayed"
            /\ UNCHANGED storeVars /\ granted' = granted /\ unsure' = unsure
        BY <2>1 DEF Get
      <3> HIDE DEF state
      <3> QED
        BY <3>1, <3>2, QuietCall
    <2>2. CASE Replay(b, id)
      <3> DEFINE state == [pc |-> "replay", id |-> id]
      <3>1. /\ state \in [pc : {"replay", "replayed"}, id : DOMAIN replays]
            /\ state.pc # "replayed"
        OBVIOUS
      <3>2. /\ call' = [call EXCEPT ![b] = state] /\ call[b].pc # "replayed"
            /\ UNCHANGED storeVars /\ granted' = granted /\ unsure' = unsure
        BY <2>2 DEF Replay
      <3> HIDE DEF state
      <3> QED
        BY <3>1, <3>2, QuietCall
    <2> QED
      BY <1>2, <2>1, <2>2
  <1>3. ASSUME NEW b \in Bearer, GetForCaller(b) PROVE GrantInv'
    <2> DEFINE view == IF Owned(call[b].id, call[b].caller) THEN View(call[b].id) ELSE NotFound
    <2>1. view \in GetView
      BY ViewTyped DEF Owned, GetView, GrantInv
    <2>2. call[b].id \in DOMAIN replays
      BY <1>3, CallShapes DEF GetForCaller, GrantInv
    <2>3. [pc |-> "read", id |-> call[b].id, view |-> view]
             \in [pc : {"read"}, id : DOMAIN replays, view : GetView]
      BY <2>1, <2>2
    <2>4. call' = [call EXCEPT ![b] = [pc |-> "read", id |-> call[b].id, view |-> view]]
      BY <1>3 DEF GetForCaller
    <2>5. /\ [pc |-> "read", id |-> call[b].id, view |-> view].pc # "replayed"
          /\ UNCHANGED storeVars /\ granted' = granted /\ unsure' = unsure
          /\ call[b].pc # "replayed"
      BY <1>3 DEF GetForCaller
    <2> HIDE DEF view
    <2> QED
      BY <2>3, <2>4, <2>5, QuietCall
  <1>4. ASSUME NEW b \in Bearer, AnswerGet(b) \/ GetLost(b) \/ NotApplied(b) PROVE GrantInv'
    BY <1>4, QuietCall DEF AnswerGet, GetLost, NotApplied, NoCall
  <1> QED
    BY <1>1, <1>2, <1>3, <1>4, AppliedKeepsBalance, AnswerKeepsBalance, LostKeepsBalance,
       ElsewhereKeepsBalance DEF OperationsNext

(* At the start nothing was replayed or asked for. *)
LEMMA GrantInitInv == OperationsInit => GrantInv
  <1> SUFFICES ASSUME OperationsInit PROVE GrantInv
    OBVIOUS
  <1>1. StoreInv
    BY StoreInitInv DEF OperationsInit
  <1>2. CallsGood
    BY DEF OperationsInit, CallsGood, GoodCall
  <1>3. \A id \in Notification : Unanswered(id) = {}
    BY DEF OperationsInit, Unanswered, NoCall
  <1>4. Cardinality({}) = 0
    BY FS_EmptySet
  <1>5. ReplaysBalanced
    <2>1. /\ granted = [id \in Notification |-> 0] /\ unsure = [id \in Notification |-> 0]
          /\ DOMAIN replays = {}
      BY DEF OperationsInit, StoreInit
    <2>2. ASSUME NEW id \in Notification PROVE Balanced(id)
      <3>1. Cardinality(Unanswered(id)) = 0
        <4>1. Unanswered(id) = {}
          BY <1>3
        <4> QED
          BY <1>4, <4>1
      <3>2. granted[id] = 0 /\ unsure[id] = 0
        BY <2>1
      <3> QED
        BY <2>1, <3>1, <3>2 DEF Balanced
    <2> QED
      BY <2>1, <2>2 DEF ReplaysBalanced
  <1> QED
    BY <1>1, <1>2, <1>5 DEF GrantInv

(* The balance holds throughout. *)
LEMMA GrantsHold == OperationsSpec => []GrantInv
  BY GrantInitInv, GrantNextInv, PTL DEF OperationsSpec

(* Of the administrators who race for a dead task each 202 stands for a    *)
(* replay of its own, and a replay without a 202 for a lost answer: the    *)
(* status check and the update of ReplayDeadAtomic are one statement.      *)
THEOREM GrantsRevive == OperationsSpec => []EveryGrantRevives
  <1>1. GrantInv => EveryGrantRevives
    <2> SUFFICES ASSUME GrantInv, NEW id \in DOMAIN replays
                 PROVE  LET settled == replays[id] - Cardinality(Unanswered(id))
                        IN  granted[id] <= settled /\ settled <= granted[id] + unsure[id]
      BY DEF EveryGrantRevives
    <2>1. id \in Notification /\ replays[id] \in Nat
      BY DEF GrantInv, StoreInv, StoreTypeOK
    <2>2. Balanced(id) /\ granted[id] \in Nat /\ unsure[id] \in Nat
      BY <2>1 DEF GrantInv, ReplaysBalanced
    <2>3. Cardinality(Unanswered(id)) \in Nat
      BY UnansweredFinite
    <2> QED
      BY <2>1, <2>2, <2>3 DEF Balanced
  <1> QED
    BY <1>1, GrantsHold, PTL

(* Reads and replays change the tables only by the store's transactions.   *)
THEOREM OperationsImplementStore == OperationsSpec => StoreSpec
  <1>1. OperationsInit => StoreInit
    BY DEF OperationsInit
  <1>2. GrantInv /\ [OperationsNext]_operationsVars => [StoreNext]_storeVars
    BY OperationsStepOnStore DEF GrantInv
  <1> QED
    BY <1>1, <1>2, GrantsHold, PTL DEF OperationsSpec, StoreSpec

-----------------------------------------------------------------------------
(* Reads. *)

(* The order of the property, with the count of replays. *)
After(before, after) ==
    \/ before.status = "unread"
    \/ after = NotFound
    \/ /\ before \in TaskView /\ after \in TaskView
       /\ after.attempts >= before.attempts
       /\ after.replays >= before.replays
       /\ before.status = "delivered" => after = before
       /\ before.status = "dead" /\ after.status # "dead" => after.replays > before.replays

(* What a client would read now. *)
Current(b, id) == IF Owned(id, CallerTokens[b]) THEN View(id) ELSE NotFound

ReadsTyped ==
    /\ seen \in [Bearer -> [Notification -> GetView \cup {Unread}]]
    /\ \A b \in Bearer, id \in Notification : seen[b][id] # Unread => id \in DOMAIN replays

ReadsInOrder ==
    \A b \in Bearer, id \in Notification :
        /\ After(seen[b][id], Current(b, id))
        /\ call[b].pc = "read" /\ call[b].id = id =>
              After(seen[b][id], call[b].view) /\ After(call[b].view, Current(b, id))

ReadInv == ReadsTyped /\ ReadsInOrder

(* It is an order. *)
LEMMA AfterTransitive ==
    ASSUME NEW x \in GetView \cup {Unread}, NEW y \in GetView, NEW z \in GetView,
           After(x, y), After(y, z)
    PROVE  After(x, z)
  <1>1. y.status # "unread" /\ NotFound \notin TaskView
    BY DEF GetView, TaskView, Status, NotFound
  <1>2. CASE y = NotFound
    <2>1. z = NotFound
      BY <1>1, <1>2 DEF After, NotFound
    <2> QED
      BY <2>1 DEF After
  <1>3. CASE y # NotFound
    BY <1>1, <1>3 DEF After, TaskView
  <1> QED
    BY <1>2, <1>3

(* It is at least as strict as the order of the property. *)
LEMMA AfterIsLater ==
    ASSUME NEW x \in GetView \cup {Unread}, NEW y \in GetView, After(x, y)
    PROVE  Later(x, y)
  BY DEF After, Later, GetView, TaskView, NotFound

(* Every view is followed by itself. *)
LEMMA AfterReflexive ==
    ASSUME NEW x \in GetView
    PROVE  After(x, x)
  BY DEF After, GetView, TaskView

(* A client reads a view. *)
LEMMA CurrentTyped ==
    ASSUME StoreInv, NEW b, NEW id
    PROVE  Current(b, id) \in GetView
  BY ViewTyped DEF Current, Owned, GetView

-----------------------------------------------------------------------------
(* What a statement does to the view of a row. *)

Follows(row, r, new, s) ==
    /\ s >= r
    /\ row.status = "delivered" =>
          new.status = "delivered" /\ new.attempts = row.attempts /\ s = r
    /\ row.status = "dead" /\ new.status # "dead" => s > r

(* The statements that end or restart a delivery leave settled rows alone, *)
(* all but the replay, which is counted.                                   *)
LEMMA RowFollows ==
    ASSUME StoreInv, StoreNext, NEW id \in DOMAIN tasks, id \in DOMAIN tasks'
    PROVE  Follows(tasks[id], replays[id], tasks'[id], replays'[id])
  <1>0. tasks[id] \in TaskRow /\ id \in DOMAIN replays /\ replays[id] \in Nat
    BY RowsAreGood DEF GoodRow
  <1>1. CASE tasks'[id] = tasks[id] /\ replays'[id] = replays[id]
    BY <1>0, <1>1 DEF Follows
  <1>2. CASE tasks[id].status \notin Terminal /\ replays'[id] = replays[id]
    BY <1>0, <1>2 DEF Follows, Terminal
  <1>3. CASE \E i \in Notification, request \in Request, hash \in Hash,
                max \in MaxAttemptsValues : CreateNotification(i, request, hash, max)
    BY <1>0, <1>1, <1>3 DEF CreateNotification
  <1>4. CASE \/ \E batch \in (SUBSET DOMAIN outbox) \ {{}}, token \in ClaimToken :
                   ClaimOutbox(batch, token)
             \/ \E k \in DOMAIN outbox, token \in ClaimToken : MarkPublished(k, token)
             \/ \E k \in DOMAIN outbox : ClaimElapses(k)
             \/ \E batch \in (SUBSET DOMAIN tasks) \ {{}} : DeleteTerminalBefore(batch)
    BY <1>1, <1>4 DEF ClaimOutbox, MarkPublished, ClaimElapses, DeleteTerminalBefore
  <1>5. CASE \/ \E i \in DOMAIN tasks, token \in LeaseToken : ClaimDelivery(i, token)
             \/ \E i \in DOMAIN tasks, token \in LeaseToken, outcome \in Outcome :
                   ApplyDeliveryResult(i, token, outcome)
             \/ \E batch \in (SUBSET DOMAIN tasks) \ {{}} : ScheduleDue(batch)
    <2>1. replays' = replays /\ (tasks'[id] = tasks[id] \/ tasks[id].status \notin Terminal)
      BY <1>5 DEF ClaimDelivery, ApplyDeliveryResult, LeaseStillHeld, ScheduleDue, Due, Terminal
    <2> QED
      BY <1>1, <1>2, <2>1
  <1>6. CASE \E i \in DOMAIN tasks : ReplayDeadAtomic(i)
    <2>1. PICK i \in DOMAIN tasks : ReplayDeadAtomic(i)
      BY <1>6
    <2>2. CASE i = id
      BY <1>0, <2>1, <2>2 DEF ReplayDeadAtomic, Follows
    <2>3. CASE i # id
      BY <1>0, <1>1, <2>1, <2>3 DEF ReplayDeadAtomic
    <2> QED
      BY <2>2, <2>3
  <1>7. CASE \E i \in DOMAIN tasks :
                LeaseElapses(i) \/ RetryFallsDue(i) \/ LifetimeElapses(i) \/ RowAges(i)
    <2>1. /\ replays' = replays
          /\ \/ tasks'[id] = tasks[id]
             \/ tasks'[id] = [tasks[id] EXCEPT !.lease = "passed"]
             \/ tasks'[id] = [tasks[id] EXCEPT !.nextAttempt = "passed"]
             \/ tasks'[id] = [tasks[id] EXCEPT !.lifetime = "passed"]
             \/ tasks'[id] = [tasks[id] EXCEPT !.updated = "aged"]
      BY <1>7 DEF LeaseElapses, RetryFallsDue, LifetimeElapses, RowAges
    <2> QED
      BY <1>0, <2>1 DEF Follows, TaskRow
  <1> QED
    BY <1>3, <1>4, <1>5, <1>6, <1>7 DEF StoreNext, TimePasses

(* What a client would read only moves forward. *)
LEMMA CurrentAdvances ==
    ASSUME StoreInv, [StoreNext]_storeVars, NEW b, NEW id \in DOMAIN replays
    PROVE  After(Current(b, id), Current(b, id)')
  <1>1. CASE UNCHANGED storeVars
    <2>1. Current(b, id)' = Current(b, id)
      BY <1>1 DEF storeVars, Current, Owned, View
    <2> QED
      BY <2>1, CurrentTyped, AfterReflexive
  <1>2. CASE StoreNext
    <2>1. CASE id \notin DOMAIN tasks'
      <3>1. Current(b, id)' = NotFound
        BY <2>1 DEF Current, Owned
      <3> QED
        BY <3>1 DEF After
    <2>2. CASE id \in DOMAIN tasks'
      <3>1. id \in DOMAIN tasks
        BY <2>2, RemovedForGood
      <3>2. tasks'[id].request = tasks[id].request
        BY <1>2, <2>2, <3>1, StepAdvancesRows DEF Advances
      <3>3. tasks[id].attempts <= tasks'[id].attempts
        BY <2>2, <3>1, CountersGrow
      <3>4. Follows(tasks[id], replays[id], tasks'[id], replays'[id])
        BY <1>2, <2>2, <3>1, RowFollows
      <3>5. StoreInv'
        BY StoreNextInv
      <3>6. View(id) \in TaskView /\ View(id)' \in TaskView
        <4>1. View(id) \in TaskView
          BY <3>1, ViewTyped
        <4>2. /\ tasks'[id] \in TaskRow /\ id \in DOMAIN replays' /\ replays'[id] \in Nat
          BY <2>2, <3>5 DEF StoreInv, StoreTypeOK, RetryBudget
        <4> QED
          BY <4>1, <4>2 DEF View, TaskView, TaskRow
      <3>7. After(View(id), View(id)')
        BY <3>3, <3>4, <3>6 DEF After, View, Follows
      <3>8. CASE Owned(id, CallerTokens[b])
        <4>1. Current(b, id) = View(id) /\ Current(b, id)' = View(id)'
          BY <2>2, <3>1, <3>2, <3>8 DEF Current, Owned, View
        <4> QED
          BY <3>7, <4>1
      <3>9. CASE ~Owned(id, CallerTokens[b])
        <4>1. Current(b, id)' = NotFound
          BY <2>2, <3>1, <3>2, <3>9 DEF Current, Owned
        <4> QED
          BY <4>1 DEF After
      <3> QED
        BY <3>8, <3>9
    <2> QED
      BY <2>1, <2>2
  <1> QED
    BY <1>1, <1>2

(* What was before the current view stays before it. *)
LEMMA StaysBefore ==
    ASSUME StoreInv, [StoreNext]_storeVars, NEW b, NEW id, NEW x \in GetView \cup {Unread},
           x # Unread => id \in DOMAIN replays, After(x, Current(b, id))
    PROVE  After(x, Current(b, id)')
  <1>1. CASE x = Unread
    BY <1>1 DEF After, Unread
  <1>2. CASE x # Unread
    <2>1. StoreInv'
      BY StoreNextInv
    <2>2. Current(b, id) \in GetView
      BY CurrentTyped
    <2>3. Current(b, id)' \in GetView
      <3>1. id \in DOMAIN tasks' =>
               tasks'[id] \in TaskRow /\ id \in DOMAIN replays' /\ replays'[id] \in Nat
        BY <2>1 DEF StoreInv, StoreTypeOK, RetryBudget
      <3> QED
        BY <3>1 DEF Current, Owned, View, GetView, TaskView, TaskRow
    <2>4. After(Current(b, id), Current(b, id)')
      BY <1>2, CurrentAdvances
    <2> QED
      BY <2>2, <2>3, <2>4, AfterTransitive
  <1> QED
    BY <1>1, <1>2

(* Steps that start no read and give no answer to one. *)
LEMMA QuietRead ==
    ASSUME GrantInv, ReadInv, [StoreNext]_storeVars, seen' = seen,
           \A b \in Bearer : call'[b].pc = "read" => call'[b] = call[b]
    PROVE  ReadInv'
  <1>1. ASSUME NEW b \in Bearer, NEW id \in Notification
        PROVE  seen[b][id] \in GetView \cup {Unread} /\ (seen[b][id] # Unread => id \in DOMAIN replays)
    BY DEF ReadInv, ReadsTyped
  <1>2. ReadsTyped'
    BY <1>1, RemovedForGood DEF ReadInv, ReadsTyped, GrantInv
  <1>3. ASSUME NEW b \in Bearer, NEW id \in Notification
        PROVE  After(seen[b][id], Current(b, id)')
    BY <1>1, StaysBefore DEF ReadInv, ReadsInOrder, GrantInv
  <1>4. ASSUME NEW b \in Bearer, NEW id \in Notification, call'[b].pc = "read", call'[b].id = id
        PROVE  After(seen[b][id], call'[b].view) /\ After(call'[b].view, Current(b, id)')
    <2>1. call'[b] = call[b]
      BY <1>4
    <2>2. call[b].view \in GetView /\ id \in DOMAIN replays
      BY <1>4, <2>1, CallShapes DEF GrantInv
    <2>3. After(seen[b][id], call[b].view) /\ After(call[b].view, Current(b, id))
      BY <1>4, <2>1 DEF ReadInv, ReadsInOrder
    <2>4. After(call[b].view, Current(b, id)')
      BY <2>2, <2>3, StaysBefore DEF GrantInv
    <2> QED
      BY <2>1, <2>3, <2>4
  <1>5. ReadsInOrder'
    BY <1>3, <1>4 DEF ReadsInOrder
  <1> QED
    BY <1>2, <1>5 DEF ReadInv

(* GetForCaller reads the current view. *)
LEMMA ReadCurrent ==
    ASSUME GrantInv, ReadInv, NEW b \in Bearer, GetForCaller(b)
    PROVE  ReadInv'
  <1>1. PICK id \in DOMAIN replays : id = call[b].id
    BY CallShapes DEF GetForCaller, GrantInv
  <1>2. call[b].caller = CallerTokens[b]
    BY CallShapes DEF GetForCaller, GrantInv
  <1>3. /\ call'[b] = [pc |-> "read", id |-> id, view |-> Current(b, id)]
        /\ \A a \in Bearer \ {b} : call'[a] = call[a]
    BY <1>1, <1>2 DEF GetForCaller, Current, GrantInv, CallsGood
  <1>4. seen' = seen /\ \A a, i : Current(a, i)' = Current(a, i)
    BY DEF GetForCaller, Current, Owned, View, storeVars
  <1>5. ReadsTyped'
    BY DEF GetForCaller, storeVars, ReadInv, ReadsTyped
  <1>6. After(Current(b, id), Current(b, id))
    BY CurrentTyped, AfterReflexive DEF GrantInv
  <1>7. ReadsInOrder'
    <2>1. ASSUME NEW a \in Bearer, NEW i \in Notification
          PROVE  /\ After(seen[a][i], Current(a, i))
                 /\ call'[a].pc = "read" /\ call'[a].id = i =>
                       After(seen[a][i], call'[a].view) /\ After(call'[a].view, Current(a, i))
      <3>1. CASE a = b
        BY <1>3, <1>6, <3>1 DEF ReadInv, ReadsInOrder
      <3>2. CASE a # b
        BY <1>3, <3>2 DEF ReadInv, ReadsInOrder
      <3> QED
        BY <3>1, <3>2
    <2> QED
      BY <1>4, <2>1 DEF ReadsInOrder
  <1> QED
    BY <1>5, <1>7 DEF ReadInv

(* The answer is later than the last one and no later than the row. *)
LEMMA ReadAnswered ==
    ASSUME GrantInv, ReadInv, NEW b \in Bearer, AnswerGet(b)
    PROVE  /\ ReadInv'
           /\ \A a \in Bearer, i \in Notification :
                 seen'[a][i] # seen[a][i] => Later(seen[a][i], seen'[a][i])
  <1>1. PICK id \in DOMAIN replays, view \in GetView : id = call[b].id /\ view = call[b].view
    BY CallShapes DEF AnswerGet, GrantInv
  <1>2. id \in Notification /\ After(seen[b][id], view) /\ After(view, Current(b, id))
    BY <1>1 DEF AnswerGet, GrantInv, StoreInv, StoreTypeOK, ReadInv, ReadsInOrder
  <1>3. seen \in [Bearer -> [Notification -> GetView \cup {Unread}]]
    BY DEF ReadInv, ReadsTyped
  <1>4. /\ seen' \in [Bearer -> [Notification -> GetView \cup {Unread}]]
        /\ seen'[b][id] = view
        /\ \A a \in Bearer, i \in Notification : a # b \/ i # id => seen'[a][i] = seen[a][i]
    BY <1>1, <1>2, <1>3 DEF AnswerGet
  <1>5. call'[b] = NoCall /\ \A a \in Bearer \ {b} : call'[a] = call[a]
    BY DEF AnswerGet, GrantInv, CallsGood
  <1>6. replays' = replays /\ \A a, i : Current(a, i)' = Current(a, i)
    BY DEF AnswerGet, Current, Owned, View, storeVars
  <1>7. ReadsTyped'
    BY <1>4, <1>6 DEF ReadInv, ReadsTyped
  <1>8. ReadsInOrder'
    <2>1. ASSUME NEW a \in Bearer, NEW i \in Notification
          PROVE  /\ After(seen'[a][i], Current(a, i))
                 /\ call'[a].pc = "read" /\ call'[a].id = i =>
                       After(seen'[a][i], call'[a].view) /\ After(call'[a].view, Current(a, i))
      <3>1. CASE a = b
        BY <1>2, <1>4, <1>5, <3>1 DEF ReadInv, ReadsInOrder, NoCall
      <3>2. CASE a # b
        BY <1>4, <1>5, <3>2 DEF ReadInv, ReadsInOrder
      <3> QED
        BY <3>1, <3>2
    <2> QED
      BY <1>6, <2>1 DEF ReadsInOrder
  <1>9. ASSUME NEW a \in Bearer, NEW i \in Notification, seen'[a][i] # seen[a][i]
        PROVE  Later(seen[a][i], seen'[a][i])
    <2>1. a = b /\ i = id
      BY <1>4, <1>9
    <2>2. seen[b][id] \in GetView \cup {Unread}
      BY <1>2, <1>3
    <2> QED
      BY <1>2, <1>4, <2>1, <2>2, AfterIsLater
  <1> QED
    BY <1>7, <1>8, <1>9 DEF ReadInv

(* Every step keeps the order of reads and only AnswerGet adds to it. *)
LEMMA ReadNextInv ==
    GrantInv /\ ReadInv /\ [OperationsNext]_operationsVars =>
        /\ ReadInv'
        /\ \A b \in Bearer, id \in Notification :
              seen'[b][id] # seen[b][id] => Later(seen[b][id], seen'[b][id])
  <1> SUFFICES ASSUME GrantInv, ReadInv, [OperationsNext]_operationsVars
               PROVE  /\ ReadInv'
                      /\ \A b \in Bearer, id \in Notification :
                            seen'[b][id] # seen[b][id] => Later(seen[b][id], seen'[b][id])
    OBVIOUS
  <1>1. [StoreNext]_storeVars
    BY OperationsStepOnStore DEF GrantInv
  <1>2. CASE \E b \in Bearer : AnswerGet(b)
    BY <1>2, ReadAnswered
  <1>3. CASE \E b \in Bearer : GetForCaller(b)
    <2>1. seen' = seen
      BY <1>3 DEF GetForCaller
    <2> QED
      BY <1>3, <2>1, ReadCurrent
  <1>4. CASE UNCHANGED operationsVars \/ Elsewhere
    <2>1. seen' = seen /\ call' = call
      BY <1>4 DEF operationsVars, Elsewhere, callVars
    <2> QED
      BY <1>1, <2>1, QuietRead
  <1>5. ASSUME NEW b \in Bearer,
               \/ \E id \in DOMAIN replays : Get(b, id) \/ Replay(b, id)
               \/ GetLost(b) \/ Applied(b) \/ NotApplied(b) \/ AnswerReplay(b) \/ ReplayLost(b)
        PROVE  /\ seen' = seen
               /\ \A a \in Bearer : call'[a].pc = "read" => call'[a] = call[a]
    <2>1. seen' = seen
      BY <1>5 DEF Get, Replay, GetLost, Applied, NotApplied, AnswerReplay, ReplayLost
    <2>2. call'[b].pc # "read" /\ \A a \in Bearer \ {b} : call'[a] = call[a]
      <3>1. CASE Applied(b)
        <4>1. call' = [call EXCEPT ![b] = [pc |-> "replayed", id |-> call[b].id]]
          BY <3>1, CallShapes DEF Applied, GrantInv, CallsGood
        <4> QED
          BY <4>1 DEF GrantInv, CallsGood
      <3>2. CASE ~Applied(b)
        BY <1>5, <3>2 DEF Get, Replay, GetLost, NotApplied, AnswerReplay, ReplayLost, NoCall,
                          GrantInv, CallsGood
      <3> QED
        BY <3>1, <3>2
    <2> QED
      BY <2>1, <2>2
  <1>6. CASE \E b \in Bearer :
                \/ \E id \in DOMAIN replays : Get(b, id) \/ Replay(b, id)
                \/ GetLost(b) \/ Applied(b) \/ NotApplied(b) \/ AnswerReplay(b) \/ ReplayLost(b)
    BY <1>1, <1>5, <1>6, QuietRead
  <1> QED
    BY <1>2, <1>3, <1>4, <1>6 DEF OperationsNext

(* At the start nothing was read. *)
LEMMA ReadInitInv == OperationsInit => ReadInv
  BY DEF OperationsInit, ReadInv, ReadsTyped, ReadsInOrder, After, Unread, NoCall

(* However its answers to GET are delayed or lost, what a caller reads of  *)
(* its task only moves forward: GetForCaller reads one row version, the    *)
(* statements move a row forward, and a removed id never comes back.       *)
THEOREM ReadsOnlyAdvance == OperationsSpec => ReadsAdvance
  <1>1. OperationsSpec => []ReadInv
    BY GrantsHold, ReadInitInv, ReadNextInv, PTL DEF OperationsSpec
  <1>2. GrantInv /\ ReadInv /\ [OperationsNext]_operationsVars =>
          [\A b \in Bearer, id \in Notification :
              seen'[b][id] # seen[b][id] => Later(seen[b][id], seen'[b][id])]_operationsVars
    BY ReadNextInv
  <1> QED
    BY <1>1, <1>2, GrantsHold, PTL DEF OperationsSpec, ReadsAdvance
=============================================================================
