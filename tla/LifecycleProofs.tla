--------------------------- MODULE LifecycleProofs ---------------------------
(***************************************************************************)
(* Proofs about one process from main to its exit, for any set of roles,   *)
(* any environment and any capacity of errChannel that has room for every  *)
(* goroutine: ReportsFit, OpensOnlyConfigured, ReadyWhenServing and        *)
(* SuccessExplained.                                                       *)
(*                                                                         *)
(* RunConfigured starts its parts in one order and each of them once. So a *)
(* goroutine that has ended is never started again, and the reports are at *)
(* most as many as the goroutines that have ended. And until RunConfigured *)
(* closes anything, a connection it has opened is gone only if it is lost. *)
(***************************************************************************)
EXTENDS Lifecycle, TLAPS

(* The step that starts a goroutine. *)
StartedAt ==
    [g \in Goroutine |-> CASE g = "server" -> 5 [] g = "publisher" -> 6
                           [] g = "worker" -> 7 [] OTHER -> 8]

States == {"off", "idle", "query", "claim", "sending", "store", "ended"}

LifecycleTypeOK ==
    /\ role \in Roles
    /\ env \subseteq Settings
    /\ pc \in {"config", "starting", "serving", "closing", "exited"}
    /\ step \in 1 .. 9
    /\ running \in [Goroutine -> States]
    /\ errors \in Seq({"error", "canceled", "nil"})
    /\ ctx \in BOOLEAN
    /\ lost \subseteq {"publisherRabbit", "workerRabbit"}
    /\ poolOpen \in BOOLEAN
    /\ code \in {0, 1, 2}

(* The parts are started in order, after the configuration was checked. *)
StartsInOrder ==
    /\ pc = "config" => step = 1
    /\ pc = "serving" => step = 9
    /\ pc = "starting" \/ step > 1 => LoadRuntime
    /\ pc \in {"starting", "serving"} /\ step > 1 => poolOpen
    /\ \A g \in Goroutine : running[g] # "off" => StartedAt[g] < step

EndedOne(g) == IF running[g] = "ended" THEN 1 ELSE 0

EndedCount ==
    EndedOne("server") + EndedOne("publisher") + EndedOne("worker")
        + EndedOne("scheduler") + EndedOne("cleaner")

OneReportEach == Len(errors) <= EndedCount

BeforeClosing == pc \in {"config", "starting", "serving"}

(* Nothing that was opened is closed before the end; and a worker runs on  *)
(* a connection.                                                           *)
OpenWhileServing ==
    /\ BeforeClosing =>
          /\ deferred \in Seq(Closable)
          /\ \A part \in {"publisherRabbit", "workerRabbit"} :
                Started(part) => part \in ToSet(deferred)
    /\ running["worker"] # "off" => Started("workerRabbit")

(* A report that is no error has its reason. *)
ReportsExplained ==
    \A i \in 1 .. Len(errors) :
        /\ errors[i] = "canceled" => ctx
        /\ errors[i] = "nil" => /\ running["worker"] = "ended"
                                /\ BeforeClosing => "workerRabbit" \in lost

LifecycleInv ==
    /\ LifecycleTypeOK /\ StartsInOrder /\ OpenWhileServing
    /\ OneReportEach /\ ReportsExplained /\ SuccessExplained

-----------------------------------------------------------------------------
LEMMA LifecycleInitially ==
    ASSUME LifecycleInit
    PROVE  LifecycleInv
  <1>1. LifecycleTypeOK
    <2>1. env \subseteq Settings /\ role \in Roles
      BY DEF LifecycleInit
    <2>2. errors \in Seq({"error", "canceled", "nil"}) /\ lost \subseteq {"publisherRabbit", "workerRabbit"}
      BY DEF LifecycleInit
    <2>3. running \in [Goroutine -> States]
      BY DEF LifecycleInit, States
    <2>4. ctx \in BOOLEAN /\ poolOpen \in BOOLEAN
      BY DEF LifecycleInit
    <2>5. pc = "config" /\ step \in 1 .. 9 /\ code = 0
      BY DEF LifecycleInit
    <2> QED
      BY <2>1, <2>2, <2>3, <2>4, <2>5 DEF LifecycleTypeOK
  <1>2. StartsInOrder
    BY DEF LifecycleInit, StartsInOrder
  <1>3. OneReportEach
    BY DEF LifecycleInit, OneReportEach, EndedCount, EndedOne, Goroutine
  <1>4. ReportsExplained /\ SuccessExplained
    BY DEF LifecycleInit, ReportsExplained, SuccessExplained
  <1>5. OpenWhileServing
    BY DEF LifecycleInit, OpenWhileServing, Started, Goroutine
  <1> QED
    BY <1>1, <1>2, <1>3, <1>4, <1>5 DEF LifecycleInv

(* A goroutine that is started and has not ended goes on. *)
LEMMA GoesOn ==
    ASSUME LifecycleInv, NEW g \in Goroutine, NEW state \in States \ {"off"},
           running[g] \notin {"off", "ended"}, Become(g, state),
           UNCHANGED <<role, env, pc, step, deferred, errors, ctx, lost, poolOpen, code>>
    PROVE  LifecycleInv'
  <1>1. running \in [Goroutine -> States] /\ running' = [running EXCEPT ![g] = state]
    BY DEF LifecycleInv, LifecycleTypeOK, Become
  <1>2. LifecycleTypeOK'
    BY <1>1 DEF LifecycleInv, LifecycleTypeOK
  <1>3. StartsInOrder'
    BY <1>1 DEF LifecycleInv, StartsInOrder, LoadRuntime
  <1>4. \A h \in Goroutine : /\ EndedOne(h) \in Nat /\ EndedOne(h)' \in Nat
                             /\ EndedOne(h)' >= EndedOne(h)
    BY <1>1 DEF EndedOne
  <1>5. OneReportEach'
    <2>1. EndedCount' >= EndedCount /\ EndedCount \in Nat /\ EndedCount' \in Nat
      BY <1>4 DEF EndedCount, Goroutine
    <2>2. Len(errors) \in Nat /\ errors' = errors
      BY DEF LifecycleInv, LifecycleTypeOK
    <2> QED
      BY <2>1, <2>2 DEF LifecycleInv, OneReportEach
  <1>6. running["worker"] = "ended" => running'["worker"] = "ended"
    BY <1>1
  <1>7. ReportsExplained' /\ SuccessExplained'
    BY <1>6 DEF LifecycleInv, ReportsExplained, SuccessExplained, BeforeClosing
  <1>8. OpenWhileServing'
    BY <1>1 DEF LifecycleInv, OpenWhileServing, BeforeClosing, Started
  <1> QED
    BY <1>2, <1>3, <1>5, <1>7, <1>8 DEF LifecycleInv

(* A goroutine ends with one report. *)
LEMMA EndsReporting ==
    ASSUME LifecycleInv, NEW g \in Goroutine, NEW err \in {"error", "canceled", "nil"},
           running[g] \notin {"off", "ended"}, Report(g, err),
           err = "canceled" => ctx,
           err = "nil" => g = "worker" /\ (BeforeClosing => "workerRabbit" \in lost),
           UNCHANGED <<role, env, pc, step, deferred, ctx, lost, poolOpen, code>>
    PROVE  LifecycleInv'
  <1>1. /\ running \in [Goroutine -> States] /\ running' = [running EXCEPT ![g] = "ended"]
        /\ errors \in Seq({"error", "canceled", "nil"}) /\ errors' = Append(errors, err)
    BY DEF LifecycleInv, LifecycleTypeOK, Report, Become
  <1>2. LifecycleTypeOK'
    BY <1>1 DEF LifecycleInv, LifecycleTypeOK, States
  <1>3. StartsInOrder'
    BY <1>1 DEF LifecycleInv, StartsInOrder, LoadRuntime
  <1>4. OneReportEach'
    <2>1. \A h \in Goroutine : /\ EndedOne(h) \in Nat
                               /\ EndedOne(h)' = IF h = g THEN 1 ELSE EndedOne(h)
      BY <1>1 DEF EndedOne
    <2>2. EndedOne(g) = 0
      BY DEF EndedOne
    <2>3. EndedCount' = EndedCount + 1 /\ EndedCount \in Nat
      BY <2>1, <2>2 DEF EndedCount, Goroutine
    <2>4. Len(errors') = Len(errors) + 1 /\ Len(errors) \in Nat
      BY <1>1
    <2> QED
      BY <2>3, <2>4 DEF LifecycleInv, OneReportEach
  <1>5. ReportsExplained'
    BY <1>1 DEF LifecycleInv, ReportsExplained, BeforeClosing
  <1>6. SuccessExplained'
    BY <1>1 DEF LifecycleInv, SuccessExplained
  <1>7. OpenWhileServing'
    BY <1>1 DEF LifecycleInv, OpenWhileServing, BeforeClosing, Started
  <1> QED
    BY <1>2, <1>3, <1>4, <1>5, <1>6, <1>7 DEF LifecycleInv

LEMMA GoroutineStep ==
    ASSUME LifecycleInv,
           \/ \E g \in Goroutine : Begin(g) \/ QueryDone(g) \/ QueryFails(g) \/ NoticeCancel(g)
           \/ SendDone \/ ListenFails \/ DeliveriesEnd
    PROVE  LifecycleInv'
  <1>0. "server" \in Goroutine /\ "worker" \in Goroutine
    BY DEF Goroutine
  <1>1. ASSUME NEW g \in Goroutine, Begin(g) PROVE LifecycleInv'
    BY <1>1, GoesOn DEF Begin, States
  <1>2. ASSUME NEW g \in Goroutine, QueryDone(g) PROVE LifecycleInv'
    BY <1>2, GoesOn DEF QueryDone, Querying, States
  <1>3. ASSUME NEW g \in Goroutine, QueryFails(g) PROVE LifecycleInv'
    <2>1. running[g] \notin {"off", "ended"}
      BY <1>3 DEF QueryFails, Querying
    <2>2. CASE g \in {"publisher", "scheduler"}
      <3>1. PICK err \in {"error", "canceled"} : Report(g, err) /\ (err = "canceled" => ctx)
        BY <1>3, <2>2 DEF QueryFails
      <3> QED
        BY <1>3, <2>1, <3>1, EndsReporting DEF QueryFails
    <2>3. CASE g \notin {"publisher", "scheduler"}
      BY <1>3, <2>1, <2>3, GoesOn DEF QueryFails, States
    <2> QED
      BY <2>2, <2>3
  <1>4. ASSUME NEW g \in Goroutine, NoticeCancel(g) PROVE LifecycleInv'
    BY <1>4, EndsReporting DEF NoticeCancel
  <1>5. CASE SendDone
    BY <1>0, <1>5, GoesOn DEF SendDone, States
  <1>6. CASE ListenFails
    BY <1>0, <1>6, EndsReporting DEF ListenFails
  <1>7. CASE DeliveriesEnd
    <2>1. BeforeClosing => "workerRabbit" \in ToSet(deferred)
      BY <1>7 DEF DeliveriesEnd, LifecycleInv, OpenWhileServing
    <2>2. ctx \/ (BeforeClosing => "workerRabbit" \in lost)
      BY <1>7, <2>1 DEF DeliveriesEnd, Connected
    <2> QED
      BY <1>0, <1>7, <2>2, EndsReporting DEF DeliveriesEnd
  <1> QED
    BY <1>1, <1>2, <1>3, <1>4, <1>5, <1>6, <1>7

-----------------------------------------------------------------------------
LEMMA StartNextKeeps ==
    ASSUME LifecycleInv, StartNext
    PROVE  LifecycleInv'
  <1>1. /\ step \in 1 .. 8 /\ step' = step + 1 /\ pc = "starting"
        /\ pc' = IF step = 8 THEN "serving" ELSE "starting"
        /\ UNCHANGED <<role, env, errors, ctx, lost, code>>
    BY DEF LifecycleInv, LifecycleTypeOK, StartNext, Steps
  <1>2. \A g \in Goroutine : g \in Spawned(Steps[step]) => StartedAt[g] = step
    BY <1>1 DEF Spawned, Steps, StartedAt, Goroutine
  <1>3. \A g \in Goroutine : g \in Spawned(Steps[step]) => running[g] = "off"
    BY <1>1, <1>2 DEF LifecycleInv, StartsInOrder
  <1>4. /\ running \in [Goroutine -> States] /\ running' \in [Goroutine -> States]
        /\ \A g \in Goroutine :
              \/ running'[g] = running[g]
              \/ running'[g] = "idle" /\ running[g] = "off" /\ StartedAt[g] = step
    BY <1>2, <1>3 DEF LifecycleInv, LifecycleTypeOK, StartNext, States
  <1>5. poolOpen' \in BOOLEAN /\ poolOpen'
    <2>1. CASE step = 1
      BY <2>1, RolesAssumption DEF StartNext, Steps, RunsIn, LifecycleInv, LifecycleTypeOK
    <2>2. CASE step > 1
      <3>1. poolOpen
        BY <1>1, <2>2 DEF LifecycleInv, StartsInOrder
      <3> QED
        BY <3>1 DEF StartNext
    <2> QED
      BY <1>1, <2>1, <2>2
  <1>6. LifecycleTypeOK'
    BY <1>1, <1>4, <1>5 DEF LifecycleInv, LifecycleTypeOK
  <1>7. StartsInOrder'
    <2>1. \A g \in Goroutine : StartedAt[g] \in Nat
      BY DEF StartedAt
    <2>2. \A g \in Goroutine : running'[g] # "off" => StartedAt[g] < step'
      BY <1>1, <1>4, <2>1 DEF LifecycleInv, StartsInOrder
    <2>3. LoadRuntime'
      BY <1>1 DEF LifecycleInv, StartsInOrder, LoadRuntime
    <2> QED
      BY <1>1, <1>5, <2>2, <2>3 DEF StartsInOrder
  <1>8. OneReportEach'
    <2>1. \A g \in Goroutine : EndedOne(g)' = EndedOne(g)
      BY <1>4 DEF EndedOne
    <2> QED
      BY <1>1, <2>1 DEF LifecycleInv, OneReportEach, EndedCount, Goroutine
  <1>9. ReportsExplained' /\ SuccessExplained'
    <2>1. running["worker"] = "ended" => running'["worker"] = "ended"
      BY <1>4 DEF Goroutine
    <2> QED
      BY <1>1, <2>1 DEF LifecycleInv, ReportsExplained, SuccessExplained, BeforeClosing
  <1>10. OpenWhileServing'
    <2>1. /\ deferred \in Seq(Closable)
          /\ \A part \in {"publisherRabbit", "workerRabbit"} :
                Started(part) => part \in ToSet(deferred)
      BY <1>1 DEF LifecycleInv, OpenWhileServing, BeforeClosing
    <2>2. /\ deferred' \in Seq(Closable)
          /\ ToSet(deferred) \subseteq ToSet(deferred')
          /\ role \in RunsIn(Steps[step]) /\ Steps[step] \in Closable =>
                Steps[step] \in ToSet(deferred')
      <3>1. CASE role \in RunsIn(Steps[step]) /\ Steps[step] \in Closable
        <4>1. deferred' = Append(deferred, Steps[step])
          BY <3>1 DEF StartNext
        <4> QED
          BY <2>1, <3>1, <4>1 DEF ToSet
      <3>2. CASE ~(role \in RunsIn(Steps[step]) /\ Steps[step] \in Closable)
        BY <2>1, <3>2 DEF StartNext
      <3> QED
        BY <3>1, <3>2
    <2>3. \A part : Started(part)' =>
             Started(part) \/ (part = Steps[step] /\ role \in RunsIn(part))
      BY <1>1 DEF Started
    <2>4. \A part : Started(part) => Started(part)'
      BY <1>1 DEF Started
    <2>5. \A part \in {"publisherRabbit", "workerRabbit"} :
             Started(part)' => part \in ToSet(deferred')
      BY <2>1, <2>2, <2>3 DEF Closable
    <2>6. running'["worker"] # "off" => Started("workerRabbit")'
      <3>1. CASE running["worker"] # "off"
        BY <2>4, <3>1 DEF LifecycleInv, OpenWhileServing
      <3>2. CASE running["worker"] = "off" /\ running'["worker"] # "off"
        <4>1. StartedAt["worker"] = step /\ StartedAt["worker"] = 7
          BY <1>4, <3>2 DEF Goroutine, StartedAt
        <4>2. role \in RunsIn("worker")
          BY <3>2, <4>1 DEF StartNext, Steps
        <4>3. Steps[4] = "workerRabbit" /\ 4 \in 1 .. step' - 1
          BY <1>1, <4>1 DEF Steps
        <4> QED
          BY <1>1, <4>2, <4>3 DEF Started, RunsIn
      <3> QED
        BY <3>1, <3>2
    <2> QED
      BY <2>2, <2>5, <2>6 DEF OpenWhileServing
  <1> QED
    BY <1>6, <1>7, <1>8, <1>9, <1>10 DEF LifecycleInv

(* Steps of main that leave goroutines and reports alone. *)
LEMMA MainMovesOn ==
    ASSUME LifecycleInv, UNCHANGED <<role, env, step, running, errors>>,
           pc' \in {"config", "starting", "closing", "exited"}, pc' = "config" => pc = "config",
           pc' = "starting" => pc \in {"config", "starting"} /\ LoadRuntime /\ UNCHANGED poolOpen,
           pc' \in {"config", "starting"} => UNCHANGED deferred,
           code' \in {0, 1, 2}, poolOpen' \in BOOLEAN, ctx' \in BOOLEAN,
           lost' \in SUBSET {"publisherRabbit", "workerRabbit"},
           ctx => ctx', lost \subseteq lost',
           pc' \in {"closing", "exited"} /\ code' = 0 =>
              ctx' \/ ("workerRabbit" \in lost' /\ running["worker"] = "ended")
    PROVE  LifecycleInv'
  <1>1. LifecycleTypeOK'
    BY DEF LifecycleInv, LifecycleTypeOK
  <1>2. StartsInOrder'
    BY DEF LifecycleInv, StartsInOrder, LoadRuntime
  <1>3. OneReportEach'
    BY DEF LifecycleInv, OneReportEach, EndedCount, EndedOne
  <1>4. ReportsExplained' /\ SuccessExplained'
    BY DEF LifecycleInv, ReportsExplained, SuccessExplained, BeforeClosing
  <1>5. OpenWhileServing'
    BY DEF LifecycleInv, OpenWhileServing, BeforeClosing, Started
  <1> QED
    BY <1>1, <1>2, <1>3, <1>4, <1>5 DEF LifecycleInv

LEMMA SelectKeeps ==
    ASSUME LifecycleInv, Select
    PROVE  LifecycleInv'
  <1>1. /\ pc = "serving" /\ pc' = "closing"
        /\ UNCHANGED <<role, env, step, deferred, running, ctx, lost, poolOpen>>
    BY DEF Select
  <1>2. CASE ctx /\ code' = 0 /\ UNCHANGED errors
    BY <1>1, <1>2, MainMovesOn DEF LifecycleInv, LifecycleTypeOK
  <1>3. CASE /\ errors # <<>>
             /\ code' = IF Head(errors) = "error" THEN 1 ELSE 0
             /\ errors' = Tail(errors)
    <2>1. /\ errors \in Seq({"error", "canceled", "nil"}) /\ errors # <<>>
          /\ Len(errors) \in Nat \ {0} /\ Head(errors) = errors[1]
          /\ errors[1] \in {"error", "canceled", "nil"}
      BY <1>3 DEF LifecycleInv, LifecycleTypeOK
    <2>2. /\ errors' \in Seq({"error", "canceled", "nil"})
          /\ Len(errors') = Len(errors) - 1
          /\ \A i \in 1 .. Len(errors) - 1 : errors'[i] = errors[i + 1]
      BY <1>3, <2>1
    <2>3. LifecycleTypeOK'
      BY <1>1, <1>3, <2>2 DEF LifecycleInv, LifecycleTypeOK
    <2>4. StartsInOrder'
      BY <1>1 DEF LifecycleInv, StartsInOrder, LoadRuntime
    <2>5. OneReportEach'
      <3>1. EndedCount' = EndedCount /\ EndedCount \in Nat
        BY <1>1 DEF EndedCount, EndedOne
      <3> QED
        BY <2>1, <2>2, <3>1 DEF LifecycleInv, OneReportEach
    <2>6. ReportsExplained'
      BY <1>1, <2>1, <2>2 DEF LifecycleInv, ReportsExplained, BeforeClosing
    <2>7. SuccessExplained'
      BY <1>1, <1>3, <2>1 DEF LifecycleInv, ReportsExplained, SuccessExplained, BeforeClosing
    <2>8. OpenWhileServing'
      BY <1>1 DEF LifecycleInv, OpenWhileServing, BeforeClosing, Started
    <2> QED
      BY <2>3, <2>4, <2>5, <2>6, <2>7, <2>8 DEF LifecycleInv
  <1> QED
    BY <1>2, <1>3 DEF Select

LEMMA CloseServerKeeps ==
    ASSUME LifecycleInv, CloseServer
    PROVE  LifecycleInv'
  <1>1. /\ pc = "closing"
        /\ UNCHANGED <<role, env, pc, step, errors, ctx, lost, poolOpen, code>>
        /\ "server" \in Goroutine /\ running \in [Goroutine -> States]
    BY DEF CloseServer, Goroutine, LifecycleInv, LifecycleTypeOK
  <1>2. CASE UNCHANGED running
    BY <1>1, <1>2, MainMovesOn DEF LifecycleInv, LifecycleTypeOK, SuccessExplained
  <1>3. CASE running["server"] \in {"idle", "ended"} /\ Become("server", "ended")
    <2>1. running' = [running EXCEPT !["server"] = "ended"]
      BY <1>3 DEF Become
    <2>2. LifecycleTypeOK'
      BY <1>1, <2>1 DEF LifecycleInv, LifecycleTypeOK, States
    <2>3. StartsInOrder'
      BY <1>1, <1>3, <2>1 DEF LifecycleInv, StartsInOrder, LoadRuntime
    <2>4. OneReportEach'
      <3>1. \A h \in Goroutine : /\ EndedOne(h) \in Nat /\ EndedOne(h)' \in Nat
                                 /\ EndedOne(h)' >= EndedOne(h)
        BY <1>1, <2>1 DEF EndedOne
      <3>2. EndedCount' >= EndedCount /\ EndedCount \in Nat /\ EndedCount' \in Nat
        BY <3>1 DEF EndedCount, Goroutine
      <3>3. Len(errors) \in Nat
        BY DEF LifecycleInv, LifecycleTypeOK
      <3> QED
        BY <1>1, <3>2, <3>3 DEF LifecycleInv, OneReportEach
    <2>5. running'["worker"] = running["worker"]
      BY <1>1, <2>1 DEF Goroutine
    <2>6. ReportsExplained' /\ SuccessExplained'
      BY <1>1, <2>5 DEF LifecycleInv, ReportsExplained, SuccessExplained, BeforeClosing
    <2>7. OpenWhileServing'
      BY <1>1, <2>5 DEF LifecycleInv, OpenWhileServing, BeforeClosing, Started
    <2> QED
      BY <2>2, <2>3, <2>4, <2>6, <2>7 DEF LifecycleInv
  <1> QED
    BY <1>2, <1>3 DEF CloseServer

LEMMA LifecycleStep ==
    ASSUME LifecycleInv, [LifecycleNext]_lifecycleVars
    PROVE  LifecycleInv'
  <1>0. /\ LifecycleTypeOK /\ SuccessExplained /\ StartsInOrder
    BY DEF LifecycleInv
  <1>1. CASE Configure
    BY <1>0, <1>1, MainMovesOn DEF Configure, LifecycleTypeOK
  <1>2. CASE StartFails
    <2>1. /\ pc' = "closing" /\ code' = 1 /\ poolOpen' \in BOOLEAN
          /\ UNCHANGED <<role, env, step, running, errors, ctx, lost>>
      BY <1>0, <1>2 DEF StartFails, LifecycleTypeOK
    <2> QED
      BY <1>0, <2>1, MainMovesOn DEF LifecycleTypeOK
  <1>3. CASE CloseRabbit
    BY <1>0, <1>3, MainMovesOn DEF CloseRabbit, LifecycleTypeOK, SuccessExplained
  <1>4. CASE ClosePool
    BY <1>0, <1>4, MainMovesOn DEF ClosePool, LifecycleTypeOK, SuccessExplained
  <1>5. CASE Exit
    BY <1>0, <1>5, MainMovesOn DEF Exit, LifecycleTypeOK, SuccessExplained
  <1>6. ASSUME /\ UNCHANGED <<role, env, pc, step, deferred, running, errors, poolOpen, code>>
               /\ ctx' \in BOOLEAN /\ (ctx => ctx')
               /\ lost' \in SUBSET {"publisherRabbit", "workerRabbit"} /\ lost \subseteq lost'
        PROVE  LifecycleInv'
    <2>1. LifecycleTypeOK'
      BY <1>0, <1>6 DEF LifecycleTypeOK
    <2>2. StartsInOrder'
      BY <1>0, <1>6 DEF StartsInOrder, LoadRuntime
    <2>3. OneReportEach'
      BY <1>6 DEF LifecycleInv, OneReportEach, EndedCount, EndedOne
    <2>4. ReportsExplained' /\ SuccessExplained'
      BY <1>6 DEF LifecycleInv, ReportsExplained, SuccessExplained, BeforeClosing
    <2>5. OpenWhileServing'
      BY <1>6 DEF LifecycleInv, OpenWhileServing, BeforeClosing, Started
    <2> QED
      BY <2>1, <2>2, <2>3, <2>4, <2>5 DEF LifecycleInv
  <1>7. ASSUME NEW part \in {"publisherRabbit", "workerRabbit"}, ConnectionLost(part)
        PROVE  LifecycleInv'
    BY <1>0, <1>6, <1>7 DEF ConnectionLost, LifecycleTypeOK
  <1>8. CASE Signal
    BY <1>0, <1>6, <1>8 DEF Signal, LifecycleTypeOK
  <1>9. CASE UNCHANGED lifecycleVars
    BY <1>0, <1>6, <1>9 DEF lifecycleVars, LifecycleTypeOK
  <1> QED
    BY <1>1, <1>2, <1>3, <1>4, <1>5, <1>7, <1>8, <1>9, StartNextKeeps, SelectKeeps,
       CloseServerKeeps, GoroutineStep DEF LifecycleNext, Main

LEMMA LifecycleInvariant == LifecycleSpec => []LifecycleInv
  BY LifecycleInitially, LifecycleStep, PTL DEF LifecycleSpec

-----------------------------------------------------------------------------
(* errChannel of RunConfigured: with room for one report of each goroutine *)
(* no goroutine ever blocks on it.                                         *)
THEOREM EveryReportFits ==
    ASSUME Capacity >= 5
    PROVE  LifecycleSpec => []ReportsFit
  <1>1. LifecycleInv => ReportsFit
    <2> SUFFICES ASSUME LifecycleInv PROVE ReportsFit
      OBVIOUS
    <2>1. \A g : EndedOne(g) \in 0 .. 1
      BY DEF EndedOne
    <2>2. EndedCount \in 0 .. 5
      BY <2>1 DEF EndedCount
    <2>3. Len(errors) \in Nat
      BY DEF LifecycleInv, LifecycleTypeOK
    <2> QED
      BY <2>2, <2>3, CapacityAssumption DEF LifecycleInv, OneReportEach, ReportsFit
  <1> QED
    BY <1>1, LifecycleInvariant, PTL

(* LoadRuntime and RunConfigured: every role is asked for all it opens. *)
THEOREM OpenedIsConfigured == LifecycleSpec => []OpensOnlyConfigured
  <1>1. LifecycleInv => OpensOnlyConfigured
    <2> SUFFICES ASSUME LifecycleInv,
                        NEW part \in {"pool", "registry", "publisherRabbit", "workerRabbit", "server"},
                        Started(part)
                 PROVE  SettingOf(part) \in env
      BY DEF OpensOnlyConfigured
    <2>1. step > 1 /\ role \in RunsIn(part) /\ role \in Roles
      BY DEF Started, LifecycleInv, LifecycleTypeOK
    <2>2. LoadRuntime
      BY <2>1 DEF LifecycleInv, StartsInOrder
    <2>3. SettingOf(part) \in Settings /\ role \in Needs(SettingOf(part))
      BY <2>1, RolesAssumption DEF SettingOf, Settings, Needs, RunsIn
    <2> QED
      BY <2>2, <2>3 DEF LoadRuntime
  <1> QED
    BY <1>1, LifecycleInvariant, PTL

(* RunConfigured and the health handler: a role that requires RabbitMQ has *)
(* a check of it.                                                          *)
THEOREM StartedIsReady == LifecycleSpec => []ReadyWhenServing
  <1>1. LifecycleInv => ReadyWhenServing
    <2> SUFFICES ASSUME LifecycleInv, pc = "serving", lost = {}
                 PROVE  Ready
      BY DEF ReadyWhenServing
    <2>1. step = 9 /\ poolOpen
      BY DEF LifecycleInv, StartsInOrder
    <2>2. /\ role \in {"publisher", "all"} => Started("publisherRabbit")
          /\ role = "worker" => Started("workerRabbit")
      <3>1. Steps[3] = "publisherRabbit" /\ Steps[4] = "workerRabbit"
        BY DEF Steps
      <3>2. 3 \in 1 .. step - 1 /\ 4 \in 1 .. step - 1
        BY <2>1
      <3> QED
        BY <3>1, <3>2 DEF Started, RunsIn
    <2>3. role \in {"publisher", "worker", "all"} => CheckedRabbit # {}
      BY <2>2 DEF CheckedRabbit
    <2>4. \A part \in CheckedRabbit : Connected(part)
      BY DEF CheckedRabbit, Connected, LifecycleInv, OpenWhileServing, BeforeClosing
    <2> QED
      BY <2>1, <2>3, <2>4 DEF Ready
  <1> QED
    BY <1>1, LifecycleInvariant, PTL

(* The select of RunConfigured and the exit code of main: in every role, 0 *)
(* answers a signal or hides that the worker lost its connection to the    *)
(* broker, nothing else.                                                   *)
THEOREM SuccessIsExplained == LifecycleSpec => []SuccessExplained
  <1>1. LifecycleInv => SuccessExplained
    BY DEF LifecycleInv
  <1> QED
    BY <1>1, LifecycleInvariant, PTL
=============================================================================
