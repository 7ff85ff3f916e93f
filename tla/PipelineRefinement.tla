------------------------- MODULE PipelineRefinement -------------------------
(***************************************************************************)
(* DeliveryPipeline implements NotificationService. A caller sees of a row *)
(* whether it is settled; pending, delivering and retry_wait are open. The *)
(* replays asked for, which no row records, add to the attempt budget.     *)
(***************************************************************************)
EXTENDS DeliveryPipeline

PhaseOf(row) == IF row.status \in Terminal THEN row.status ELSE "open"

VisibleTasks ==
    [id \in DOMAIN tasks |->
        [phase |-> PhaseOf(tasks[id]), budget |-> tasks[id].maxAttempts + replays[id]]]

Service == INSTANCE NotificationService WITH
    accepted <- DOMAIN replays, current <- VisibleTasks, calls <- sends

(* The whole pipeline, with its crashes, duplicates, expiring leases and   *)
(* lost answers, shows its callers nothing but steps of the abstract       *)
(* service.                                                                *)
ImplementsService == Service!ServiceSpec
=============================================================================
