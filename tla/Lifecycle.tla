----------------------------- MODULE Lifecycle -----------------------------
(***************************************************************************)
(* One process from main to its exit: configuration by role, RunConfigured *)
(* opening what the role needs and starting its goroutines, the select on  *)
(* signal and first report, and the deferred closes in reverse order.      *)
(* Goroutines go on polling, delivering and answering while it closes; a   *)
(* report does not cancel their context. Loss of a broker connection, a    *)
(* failing call and the signal may come at any time.                       *)
(***************************************************************************)
EXTENDS Naturals, Sequences, FiniteSets, SequencesExt

CONSTANTS
    Roles,      \* roles processes are started with
    Capacity    \* of errChannel

ASSUME CapacityAssumption == Capacity \in Nat

(* ParseRole knows no others. *)
ASSUME RolesAssumption == Roles \subseteq {"api", "publisher", "worker", "scheduler", "all"}

VARIABLES
    role,       \* the role of the process
    env,        \* settings its environment holds
    pc,         \* main: config, starting, serving, closing, exited
    step,       \* next step of RunConfigured
    deferred,   \* deferred closes, last one first to run
    running,    \* goroutine -> what it does
    errors,     \* errChannel
    ctx,        \* the signal has cancelled the context
    lost,       \* connections that ended without this process closing them
    poolOpen,   \* pool.Close has not been called
    code        \* exit code

lifecycleVars ==
    <<role, env, pc, step, deferred, running, errors, ctx, lost, poolOpen, code>>

Goroutine == {"server", "publisher", "worker", "scheduler", "cleaner"}

(* A goroutine holds a connection of the pool in these states. *)
Querying == {"query", "claim", "store"}

-----------------------------------------------------------------------------
(* The role tables of LoadRuntime, RunConfigured and the health handler.   *)

Needs(setting) ==
    CASE setting = "DATABASE_URL" -> {"api", "publisher", "worker", "scheduler", "all"}
      [] setting = "RABBITMQ_URL" -> {"publisher", "worker", "all"}
      [] setting = "DESTINATIONS_FILE" -> {"api", "worker", "all"}
      [] setting = "TOKENS" -> {"api", "all"}

Settings == {"DATABASE_URL", "RABBITMQ_URL", "DESTINATIONS_FILE", "TOKENS"}

(* Mutant: a publisher is not asked for its broker. *)
LoadRuntimeLax == \A s \in Settings : role \in Needs(s) \ {"publisher"} => s \in env

LoadRuntime == \A s \in Settings : role \in Needs(s) => s \in env

RunsIn(part) ==
    CASE part \in {"pool", "server"} -> {"api", "publisher", "worker", "scheduler", "all"}
      [] part = "registry" -> {"api", "worker", "all"}
      [] part \in {"publisherRabbit", "publisher"} -> {"publisher", "all"}
      [] part \in {"workerRabbit", "worker"} -> {"worker", "all"}
      [] part = "schedulers" -> {"scheduler", "all"}

(* What RunConfigured opens and starts, in this order, if the role has it. *)
Steps == <<"pool", "registry", "publisherRabbit", "workerRabbit", "server",
           "publisher", "worker", "schedulers">>

Closable == {"pool", "publisherRabbit", "workerRabbit", "server"}

SettingOf(part) ==
    CASE part = "pool" -> "DATABASE_URL"
      [] part \in {"publisherRabbit", "workerRabbit"} -> "RABBITMQ_URL"
      [] part = "registry" -> "DESTINATIONS_FILE"
      [] part = "server" -> IF role \in Needs("TOKENS") THEN "TOKENS" ELSE "DATABASE_URL"

Started(part) == role \in RunsIn(part) /\ \E i \in 1 .. step - 1 : Steps[i] = part

(* The check of RabbitMQ is wired to one connection, or to none. *)
CheckedRabbit ==
    IF Started("publisherRabbit") THEN {"publisherRabbit"}
    ELSE IF Started("workerRabbit") THEN {"workerRabbit"} ELSE {}

(* A connection is open: not closed by its deferred function, not lost. *)
Connected(part) == part \in ToSet(deferred) \ lost

(* Mutant: every role requires RabbitMQ. *)
ReadyWithRabbit == poolOpen /\ CheckedRabbit # {} /\ \A part \in CheckedRabbit : Connected(part)

Ready ==
    /\ poolOpen
    /\ role \in {"publisher", "worker", "all"} =>
          CheckedRabbit # {} /\ \A part \in CheckedRabbit : Connected(part)

-----------------------------------------------------------------------------
LifecycleInit ==
    /\ role \in Roles
    /\ env \in {Settings} \cup {Settings \ {s} : s \in Settings}
    /\ pc = "config"
    /\ step = 1
    /\ deferred = <<>>
    /\ running = [g \in Goroutine |-> "off"]
    /\ errors = <<>>
    /\ ctx = FALSE
    /\ lost = {}
    /\ poolOpen = FALSE
    /\ code = 0

Configure ==
    /\ pc = "config"
    /\ IF LoadRuntime THEN pc' = "starting" /\ code' = 0 ELSE pc' = "exited" /\ code' = 2
    /\ UNCHANGED <<role, env, step, deferred, running, errors, ctx, lost, poolOpen>>

Spawned(part) ==
    IF part = "schedulers" THEN {"scheduler", "cleaner"} ELSE {part} \cap Goroutine

(* The next part is opened or started, or skipped if the role has none. *)
StartNext ==
    /\ pc = "starting"
    /\ step <= Len(Steps)
    /\ LET part == Steps[step] IN
          IF role \in RunsIn(part)
          THEN /\ deferred' = IF part \in Closable THEN Append(deferred, part) ELSE deferred
               /\ poolOpen' = (poolOpen \/ part = "pool")
               /\ running' = [g \in Goroutine |->
                                 IF g \in Spawned(part) THEN "idle" ELSE running[g]]
          ELSE UNCHANGED <<deferred, poolOpen, running>>
    /\ step' = step + 1
    /\ pc' = IF step = Len(Steps) THEN "serving" ELSE "starting"
    /\ UNCHANGED <<role, env, errors, ctx, lost, code>>

(* Opening fails; the worker's step fails when it cannot seed its jitter   *)
(* or consume. A pool whose first ping fails is closed again.              *)
StartFails ==
    /\ pc = "starting"
    /\ step <= Len(Steps)
    /\ Steps[step] \notin {"server", "publisher", "schedulers"}
    /\ role \in RunsIn(Steps[step])
    /\ pc' = "closing"
    /\ code' = 1
    /\ \/ UNCHANGED <<deferred, poolOpen>>
       \/ Steps[step] = "pool" /\ deferred' = <<"pool">> /\ poolOpen' = TRUE
    /\ UNCHANGED <<role, env, step, running, errors, ctx, lost>>

-----------------------------------------------------------------------------
(* The goroutines. *)

Alive == pc \in {"starting", "serving", "closing"}

Become(g, state) == running' = [running EXCEPT ![g] = state]

(* The goroutine ends with its one report. *)
Report(g, err) ==
    /\ Become(g, "ended")
    /\ errors' = Append(errors, err)

Listening == "server" \in ToSet(deferred)

(* A poll, a request or a message: the next database call. *)
Begin(g) ==
    /\ Alive
    /\ running[g] = "idle"
    /\ poolOpen
    /\ g = "server" => Listening
    /\ Become(g, IF g = "worker" THEN "claim" ELSE "query")
    /\ UNCHANGED <<role, env, pc, step, deferred, errors, ctx, lost, poolOpen, code>>

QueryDone(g) ==
    /\ Alive
    /\ running[g] \in Querying
    /\ \/ Become(g, "idle")
       \/ running[g] = "claim" /\ Become(g, "sending")
    /\ UNCHANGED <<role, env, pc, step, deferred, errors, ctx, lost, poolOpen, code>>

(* Send returns, at the latest when the context is cancelled. *)
SendDone ==
    /\ Alive
    /\ running["worker"] = "sending"
    /\ Become("worker", IF poolOpen THEN "store" ELSE "idle")
    /\ UNCHANGED <<role, env, pc, step, deferred, errors, ctx, lost, poolOpen, code>>

(* Mutant: a failed cleanup is reported, and the cleaner goes on. *)
QueryFailsReporting(g) ==
    /\ Alive
    /\ running[g] \in Querying \/ (running[g] = "idle" /\ ~poolOpen)
    /\ errors' = Append(errors, "error")
    /\ Become(g, IF g = "cleaner" THEN "idle" ELSE "ended")
    /\ UNCHANGED <<role, env, pc, step, deferred, ctx, lost, poolOpen, code>>

(* A failed call, of a closed pool or a lost publisher connection too,     *)
(* ends publisher and scheduler with the error; the cleaner ignores it,    *)
(* the worker requeues and the server answers 500.                         *)
QueryFails(g) ==
    /\ Alive
    /\ running[g] \in Querying \/ (running[g] = "idle" /\ ~poolOpen)
    /\ IF g \in {"publisher", "scheduler"}
       THEN \E err \in IF ctx THEN {"error", "canceled"} ELSE {"error"} : Report(g, err)
       ELSE Become(g, "idle") /\ UNCHANGED errors
    /\ UNCHANGED <<role, env, pc, step, deferred, ctx, lost, poolOpen, code>>

ListenFails ==
    /\ Alive
    /\ running["server"] = "idle"
    /\ Listening
    /\ Report("server", "error")
    /\ UNCHANGED <<role, env, pc, step, deferred, ctx, lost, poolOpen, code>>

NoticeCancel(g) ==
    /\ Alive
    /\ g \in {"publisher", "scheduler", "cleaner"}
    /\ ctx
    /\ running[g] = "idle"
    /\ Report(g, "canceled")
    /\ UNCHANGED <<role, env, pc, step, deferred, ctx, lost, poolOpen, code>>

(* The deliveries end with the context or with the connection, whoever     *)
(* closed it, and the worker reports ctx.Err(), which may be nil.          *)
DeliveriesEnd ==
    /\ Alive
    /\ running["worker"] = "idle"
    /\ ctx \/ ~Connected("workerRabbit")
    /\ Report("worker", IF ctx THEN "canceled" ELSE "nil")
    /\ UNCHANGED <<role, env, pc, step, deferred, ctx, lost, poolOpen, code>>

ConnectionLost(part) ==
    /\ Alive
    /\ part \in {"publisherRabbit", "workerRabbit"} \cap ToSet(deferred)
    /\ lost' = lost \cup {part}
    /\ UNCHANGED <<role, env, pc, step, deferred, running, errors, ctx, poolOpen, code>>

Signal ==
    /\ Alive
    /\ ~ctx
    /\ ctx' = TRUE
    /\ UNCHANGED <<role, env, pc, step, deferred, running, errors, lost, poolOpen, code>>

-----------------------------------------------------------------------------
(* The select of RunConfigured and its deferred functions. *)

(* Mutants: only the signal is waited for; errors are swallowed. *)
SelectSignal ==
    /\ pc = "serving"
    /\ ctx
    /\ code' = 0
    /\ pc' = "closing"
    /\ UNCHANGED <<role, env, step, deferred, running, errors, ctx, lost, poolOpen>>

SelectSwallowing ==
    /\ pc = "serving"
    /\ ctx \/ errors # <<>>
    /\ code' = 0
    /\ pc' = "closing"
    /\ UNCHANGED <<role, env, step, deferred, running, errors, ctx, lost, poolOpen>>

Select ==
    /\ pc = "serving"
    /\ \/ ctx /\ code' = 0 /\ UNCHANGED errors
       \/ /\ errors # <<>>
          /\ code' = IF Head(errors) = "error" THEN 1 ELSE 0
          /\ errors' = Tail(errors)
    /\ pc' = "closing"
    /\ UNCHANGED <<role, env, step, deferred, running, ctx, lost, poolOpen>>

Popped == deferred' = Front(deferred)

(* Shutdown waits for handlers until its deadline; ListenAndServe returns  *)
(* ErrServerClosed, which is not reported. A handler still at work after   *)
(* the deadline goes on.                                                   *)
CloseServer ==
    /\ pc = "closing" /\ deferred # <<>> /\ Last(deferred) = "server"
    /\ \/ running["server"] \in {"idle", "ended"} /\ Become("server", "ended")
       \/ running["server"] = "query" /\ UNCHANGED running
    /\ Popped
    /\ UNCHANGED <<role, env, pc, step, errors, ctx, lost, poolOpen, code>>

CloseRabbit ==
    /\ pc = "closing" /\ deferred # <<>>
    /\ Last(deferred) \in {"publisherRabbit", "workerRabbit"}
    /\ Popped
    /\ UNCHANGED <<role, env, pc, step, running, errors, ctx, lost, poolOpen, code>>

(* pool.Close refuses new queries and waits for those under way. *)
ClosePool ==
    /\ pc = "closing" /\ deferred = <<"pool">>
    /\ IF poolOpen THEN poolOpen' = FALSE /\ UNCHANGED deferred
       ELSE /\ \A g \in Goroutine : running[g] \notin Querying
            /\ Popped
            /\ UNCHANGED poolOpen
    /\ UNCHANGED <<role, env, pc, step, running, errors, ctx, lost, code>>

Exit ==
    /\ pc = "closing"
    /\ deferred = <<>>
    /\ pc' = "exited"
    /\ UNCHANGED <<role, env, step, deferred, running, errors, ctx, lost, poolOpen, code>>

Main == Configure \/ StartNext \/ StartFails \/ Select
        \/ CloseServer \/ CloseRabbit \/ ClosePool \/ Exit

LifecycleNext ==
    \/ Main
    \/ \E g \in Goroutine : Begin(g) \/ QueryDone(g) \/ QueryFails(g) \/ NoticeCancel(g)
    \/ SendDone \/ ListenFails \/ DeliveriesEnd
    \/ \E part \in {"publisherRabbit", "workerRabbit"} : ConnectionLost(part)
    \/ Signal

LifecycleSpec == LifecycleInit /\ [][LifecycleNext]_lifecycleVars

(* Main is never blocked but by what it waits for, and a database call     *)
(* returns, with its answer or an error. Nothing is assumed of signals,    *)
(* failures or the supplier.                                               *)
FairLifecycleSpec ==
    /\ LifecycleSpec
    /\ WF_lifecycleVars(Main)
    /\ \A g \in Goroutine : WF_lifecycleVars(QueryDone(g) \/ QueryFails(g))

-----------------------------------------------------------------------------
(* errChannel is read once, so every report of every goroutine has to fit  *)
(* in it: one more would block its sender for ever, with what it holds.    *)
ReportsFit == Len(errors) <= Capacity

(* A process opens only what LoadRuntime has made sure is configured: the  *)
(* role tables of config.go and bootstrap.go agree.                        *)
OpensOnlyConfigured ==
    \A part \in {"pool", "registry", "publisherRabbit", "workerRabbit", "server"} :
        Started(part) => SettingOf(part) \in env

(* A process that has started and lost nothing is ready: the role tables   *)
(* of bootstrap.go and health.go agree, and no required check is nil.      *)
ReadyWhenServing == pc = "serving" /\ lost = {} => Ready

(* A process ends with exit code 0 only after a signal, or because its     *)
(* worker came to an end when it lost its connection to the broker: no     *)
(* other failure of any goroutine, in any role, is swallowed. The loss is  *)
(* a failure after all, which only a supervisor that restarts on success   *)
(* repairs. What the deferred functions close is not lost.                 *)
SuccessExplained ==
    pc \in {"closing", "exited"} /\ code = 0 =>
        ctx \/ ("workerRabbit" \in lost /\ running["worker"] = "ended")

(* A signal, and the first failure of any goroutine, end the process,      *)
(* although the other goroutines go on polling and no context is cancelled *)
(* after a failure.                                                        *)
EndsAfterReport == (pc = "serving" /\ (ctx \/ errors # <<>>)) ~> (pc = "exited")

(* "Graceful shutdown [...] waits for in-flight work up to a configured    *)
(* deadline, and then closes dependencies": a process that was told to end *)
(* does not exit in the middle of a delivery. RunConfigured waits for no   *)
(* goroutine.                                                              *)
DrainsInFlight == pc = "exited" /\ ctx => running["worker"] # "sending"
=============================================================================
