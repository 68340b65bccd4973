---------------------------- MODULE TaskContract ----------------------------
(***************************************************************************)
(* What a delivery batch relies on of the task it created, whoever executes *)
(* it: the statuses move as DispatchTask, DisableProvider, ReportTask and   *)
(* StopTask of DeliveryRun say, work starts only after a dispatch that the  *)
(* run allowed, and the end of the task is reported after the end of the    *)
(* work.  DeliveryJob, ExternalPipeline and, for agents, ExecutionTask       *)
(* implement it; DeliverySystem puts a batch on top of it.                   *)
(***************************************************************************)
EXTENDS DeliveryTask

VARIABLES
    status,   \* of the row
    open,     \* the run still dispatches
    working   \* the executor works for the task

vars == <<status, open, working>>

Init == status = "queued" /\ open = TRUE /\ working = FALSE

Close == open /\ open' = FALSE /\ UNCHANGED <<status, working>>

Dispatch ==
    /\ status = "queued" /\ open
    /\ status' = "dispatching"
    /\ UNCHANGED <<open, working>>

Disable ==
    /\ status = "queued"
    /\ status' = "failed"
    /\ UNCHANGED <<open, working>>

Stop == status' = RequestStop(status) /\ UNCHANGED <<open, working>>

Report(result) ==
    /\ status \in TaskLive
    /\ result \in TaskTerminal => ~working
    /\ status' = StoredStatus(status, result)
    /\ UNCHANGED <<open, working>>

StartWork == status \in TaskLive /\ working' = TRUE /\ UNCHANGED <<status, open>>
EndWork == working' = FALSE /\ UNCHANGED <<status, open>>

(* What happens to the task; the run only closes. *)
TaskStep ==
    \/ Dispatch \/ Disable \/ Stop \/ StartWork \/ EndWork
    \/ \E result \in TaskReports : Report(result)

Next == Close \/ TaskStep

Spec == Init /\ [][Next]_vars
=============================================================================
