----------------------------- MODULE DeliveryJob -----------------------------
(***************************************************************************)
(* A delivery task of the k8s_job_runner provider and its Kubernetes Job.  *)
(*                                                                         *)
(* Several controllers act on the task at once: monitor sweeps of every    *)
(* server process, and requests that stop the batch.  A controller reads   *)
(* the row, calls the Kubernetes API and writes the row, and may stop      *)
(* between any two of these; a Create whose caller gave up may still reach *)
(* the API server later.  The Job keeps its name (it is derived from the   *)
(* task) and is retained, so the API server's "already exists" is the only *)
(* thing that keeps a second Job, or a Job after the cancellation, away.   *)
(*                                                                         *)
(* The Job controller and the kubelet are external: they are modelled by   *)
(* what the code relies on.                                                *)
(***************************************************************************)
EXTENDS Integers, DeliveryTask

CONSTANTS
    Controllers,  \* sweeps and requests that may be in flight at once
    MaxFaults     \* bound on the controllers that stop half way

ASSUME MaxFaultsAssumption == MaxFaults \in Nat

VARIABLES
    task,        \* the execution_tasks row
    runOpen,     \* the batch's run still dispatches
    job,         \* the Job object
    pod,         \* its Pod
    late,        \* an abandoned Create may still arrive
    controller,  \* [Controllers -> what it is doing]
    faults

vars == <<task, runOpen, job, pod, late, controller, faults>>

JobStates == {"absent", "active", "complete", "failed"}
PodStates == {"none", "running", "terminating", "succeeded", "failed"}
PodActive == {"running", "terminating"}
Reasons == {"none", "requested", "execution_timeout"}

(* runnable: k8sJobRunnerDisabledReason finds commands and a cluster for the   *)
(* frozen payload.  ref: the identity of the Job is stored in the row.         *)
Tasks == [status : TaskStatuses, attempt : {0, 1}, ref : BOOLEAN,
          reason : Reasons, runnable : BOOLEAN]

(* suspend is the spec's field, suspended the condition set once the Job       *)
(* controller has seen it; open: some version of the Job was not suspended;    *)
(* expired: activeDeadlineSeconds are over and the Job is going to fail.       *)
Jobs == [state : JobStates, suspend : BOOLEAN, suspended : BOOLEAN, open : BOOLEAN,
         expired : BOOLEAN]

Idle == [step |-> "idle"]
Controlling ==
    [step : {"idle"}]
        \cup [step : {"prepare", "create", "inspect", "expire", "stop"}, copy : Tasks]
        \cup [step : {"write"}, copy : Tasks, status : TaskStatuses]

At(c, step) == controller[c].step = step
Copy(c) == controller[c].copy
Become(c, what) == controller' = [controller EXCEPT ![c] = what]
ToWrite(copy, status) == [step |-> "write", copy |-> copy, status |-> status]

NoJob == [state |-> "absent", suspend |-> FALSE, suspended |-> FALSE, open |-> FALSE,
          expired |-> FALSE]
NewJob(suspend) ==
    [state |-> "active", suspend |-> suspend, suspended |-> FALSE, open |-> ~suspend,
     expired |-> FALSE]

Init ==
    /\ task \in [status : {"queued"}, attempt : {0}, ref : {FALSE},
                reason : {"none"}, runnable : BOOLEAN]
    /\ runOpen = TRUE
    /\ job = NoJob
    /\ pod = "none"
    /\ late = FALSE
    /\ controller = [c \in Controllers |-> Idle]
    /\ faults = 0

-----------------------------------------------------------------------------
(* The row *)

(* updateDeliveryTask: a write that knows of fewer attempts is refused, and   *)
(* the Job's identity and the reason of the stop are kept.                    *)
Updated(copy, status) ==
    IF task.attempt > copy.attempt THEN task
    ELSE [task EXCEPT !.status = StoredStatus(task.status, status),
                      !.attempt = copy.attempt]

(* RequestDeliveryTaskStop: the first reason is kept. *)
Asked(reason) ==
    IF RequestStop(task.status) = task.status THEN task
    ELSE [task EXCEPT !.status = RequestStop(@), !.reason = reason]

(* dispatchExecutionTask, after it has read the row again. *)
Dispatching ==
    IF task.status \notin {"queued", "dispatching"} THEN Idle
    ELSE IF task.runnable THEN [step |-> "prepare", copy |-> task]
    ELSE ToWrite([task EXCEPT !.attempt = 1], "failed")

-----------------------------------------------------------------------------
(* The sweep over the unfinished tasks, recoverStaleTasks *)

SweepQueued(c) ==
    /\ At(c, "idle") /\ task.status = "queued"
    /\ Become(c, Dispatching)
    /\ UNCHANGED <<task, runOpen, job, pod, late, faults>>

SweepDispatched(c) ==
    /\ At(c, "idle") /\ task.status \in {"dispatching", "running"} /\ task.ref
    /\ Become(c, [step |-> "inspect", copy |-> task])
    /\ UNCHANGED <<task, runOpen, job, pod, late, faults>>

(* cancelDeliveryTask, for a task that is being canceled, for one whose      *)
(* execution time is over, and for the user or the batch.                    *)
Cancel(c, reason) ==
    /\ task' = Asked(reason)
    /\ Become(c, IF task'.status = "canceling"
                 THEN [step |-> "stop", copy |-> task'] ELSE Idle)
    /\ UNCHANGED <<runOpen, job, pod, late, faults>>

SweepCanceling(c) == At(c, "idle") /\ task.status = "canceling" /\ Cancel(c, "requested")
ExpireExecution(c) == At(c, "expire") /\ Cancel(c, "execution_timeout")
CancelExecutionTask(c) ==
    At(c, "idle") /\ task.status \notin TaskTerminal /\ Cancel(c, "requested")

-----------------------------------------------------------------------------
(* Dispatch *)

BugPrepareDeliveryJob(c) ==   \* mutant: the run is not looked at
    /\ At(c, "prepare")
    /\ task' = IF task.status # "queued" THEN task
               ELSE [task EXCEPT !.status = "dispatching", !.attempt = 1, !.ref = TRUE]
    /\ Become(c, IF task'.status = "dispatching"
                 THEN [step |-> "create", copy |-> task'] ELSE Idle)
    /\ UNCHANGED <<runOpen, job, pod, late, faults>>

(* Task -> Run lock order: the run must still be open. *)
PrepareDeliveryJob(c) ==
    /\ At(c, "prepare")
    /\ task' = IF task.status # "queued" \/ ~runOpen THEN task
               ELSE [task EXCEPT !.status = "dispatching", !.attempt = 1, !.ref = TRUE]
    /\ Become(c, IF task'.status = "dispatching" /\ runOpen
                 THEN [step |-> "create", copy |-> task'] ELSE Idle)
    /\ UNCHANGED <<runOpen, job, pod, late, faults>>

(* The API server's Create: the name decides. *)
Created(suspend) == IF job.state = "absent" THEN NewJob(suspend) ELSE job

(* CreateExecutionJob, and "running" is stored when it has answered. *)
CreateExecutionJob(c) ==
    /\ At(c, "create")
    /\ job' = Created(FALSE)
    /\ Become(c, ToWrite(Copy(c), "running"))
    /\ UNCHANGED <<task, runOpen, pod, late, faults>>

(* The call fails: the request was lost, or will arrive later. *)
CreateTimesOut(c) ==
    /\ At(c, "create")
    /\ faults < MaxFaults
    /\ faults' = faults + 1
    /\ late' \in {late, TRUE}
    /\ Become(c, Idle)
    /\ UNCHANGED <<task, runOpen, job, pod>>

-----------------------------------------------------------------------------
(* Reconciliation *)

(* What the inspection of the Job makes of a copy; a finished build may turn  *)
(* out to have no usable artifact.                                            *)
BugJudged(copy) ==   \* mutant: a Job that ended counts as done
    IF job.state = "active" THEN {copy.status} ELSE {"completed"}
Judged(copy) ==
    CASE job.state = "complete" -> {"completed", "failed"}
      [] job.state \in {"failed", "absent"} -> {"failed"}
      [] OTHER -> {IF copy.status = "dispatching" THEN "running" ELSE copy.status}

(* reconcileK8sJobExecution: a Job that was never created is dispatched       *)
(* again, a Job that runs too long is stopped.                                *)
Reconcile(c) ==
    /\ At(c, "inspect")
    /\ IF job.state = "absent" /\ Copy(c).status = "dispatching"
       THEN Become(c, Dispatching)
       ELSE \E status \in Judged(Copy(c)) : Become(c, ToWrite(Copy(c), status))
    /\ UNCHANGED <<task, runOpen, job, pod, late, faults>>

FindExpired(c) ==
    /\ At(c, "inspect")
    /\ job.state = "active" /\ Copy(c).status \in {"dispatching", "running"}
    /\ Become(c, [controller[c] EXCEPT !.step = "expire"])
    /\ UNCHANGED <<task, runOpen, job, pod, late, faults>>

-----------------------------------------------------------------------------
(* Cancellation *)

(* deliveryJobStopped: the Job controller has seen the suspension and no Pod *)
(* of the Job is left running.                                               *)
BugDeliveryJobStopped == job.suspend        \* mutant: the request is taken for the fact
DeliveryJobStopped == job.suspended /\ pod \notin PodActive

(* StopDeliveryJob: a suspended Job of the same name keeps a delayed Create   *)
(* from starting anything; an existing one is suspended (an update refused    *)
(* because the Job changed in between is tried again by the next sweep).      *)
BugSuspended ==   \* mutant: nothing is put in the place of a missing Job
    IF job.state = "absent" THEN job ELSE [job EXCEPT !.suspend = TRUE]

Suspended ==
    IF job.state = "active" THEN [job EXCEPT !.suspend = TRUE] ELSE Created(TRUE)

StopDeliveryJob(c) ==
    /\ At(c, "stop")
    /\ job' = Suspended
    /\ Become(c, CASE job.state \in {"complete", "failed"} ->
                        [step |-> "inspect", copy |-> Copy(c)]
                   [] job.state = "active" /\ job.suspend /\ DeliveryJobStopped ->
                        ToWrite(Copy(c), IF Copy(c).reason = "execution_timeout"
                                         THEN "failed" ELSE "canceled")
                   [] OTHER -> Idle)
    /\ UNCHANGED <<task, runOpen, pod, late, faults>>

-----------------------------------------------------------------------------
Write(c) ==
    /\ At(c, "write")
    /\ task' = Updated(Copy(c), controller[c].status)
    /\ Become(c, Idle)
    /\ UNCHANGED <<runOpen, job, pod, late, faults>>

(* The process stops or a call fails; a Create it had posted may arrive. *)
Abandon(c) ==
    /\ ~At(c, "idle") /\ ~At(c, "create")
    /\ faults < MaxFaults
    /\ faults' = faults + 1
    /\ Become(c, Idle)
    /\ UNCHANGED <<task, runOpen, job, pod, late>>

(* The run is stopped or over (StopManagedRun). *)
CloseRun ==
    /\ runOpen
    /\ runOpen' = FALSE
    /\ UNCHANGED <<task, job, pod, late, controller, faults>>

ControllerStep(c) ==
    \/ SweepQueued(c) \/ SweepDispatched(c) \/ SweepCanceling(c)
    \/ PrepareDeliveryJob(c) \/ CreateExecutionJob(c) \/ CreateTimesOut(c)
    \/ Reconcile(c) \/ FindExpired(c) \/ ExpireExecution(c)
    \/ StopDeliveryJob(c) \/ Write(c) \/ CancelExecutionTask(c) \/ Abandon(c)

-----------------------------------------------------------------------------
(* Kubernetes *)

CreateArrives ==
    /\ late
    /\ late' = FALSE
    /\ job' = Created(FALSE)
    /\ UNCHANGED <<task, runOpen, pod, controller, faults>>

(* The Job controller works on what it has seen: a Job whose suspension it has *)
(* not observed may still get its Pod.                                         *)
StartPod ==
    /\ job.state = "active" /\ job.open /\ ~job.suspended /\ ~job.expired
    /\ pod = "none"
    /\ pod' = "running"
    /\ UNCHANGED <<task, runOpen, job, late, controller, faults>>

ObserveSuspension ==
    /\ job.state = "active" /\ job.suspend /\ ~job.suspended /\ ~job.expired
    /\ job' = [job EXCEPT !.suspended = TRUE]
    /\ pod' = IF pod = "running" THEN "terminating" ELSE pod
    /\ UNCHANGED <<task, runOpen, late, controller, faults>>

(* The deadline counts while the Job is not suspended. *)
ExceedDeadline ==
    /\ job.state = "active" /\ ~job.suspended /\ ~job.expired
    /\ job' = [job EXCEPT !.expired = TRUE]
    /\ pod' = IF pod = "running" THEN "terminating" ELSE pod
    /\ UNCHANGED <<task, runOpen, late, controller, faults>>

PodEnds ==
    /\ pod \in PodActive
    /\ pod' \in {"succeeded", "failed"} \cup (IF pod = "terminating" THEN {"none"} ELSE {})
    /\ UNCHANGED <<task, runOpen, job, late, controller, faults>>

(* A Job gets its final condition once its Pod is gone or has ended. *)
JobEnds ==
    /\ job.state = "active"
    /\ pod \in {"succeeded", "failed"} \/ (job.expired /\ pod = "none")
    /\ job' = [job EXCEPT !.state = IF pod = "succeeded" /\ ~job.expired
                                    THEN "complete" ELSE "failed"]
    /\ UNCHANGED <<task, runOpen, pod, late, controller, faults>>

Kubernetes == StartPod \/ ObserveSuspension \/ ExceedDeadline \/ PodEnds \/ JobEnds

(* Only the failure of a Pod whose Job is suspended need not end the Job. *)
KubernetesWorks ==
    StartPod \/ ObserveSuspension \/ PodEnds \/ (~job.suspended /\ JobEnds)

Next ==
    \/ \E c \in Controllers : ControllerStep(c)
    \/ CloseRun
    \/ CreateArrives
    \/ Kubernetes

Spec == Init /\ [][Next]_vars

(* Every sweep comes round, and a call that is not abandoned returns; the      *)
(* batch of a stopped run cancels its tasks (StopConverges of DeliveryRun),    *)
(* in a request of its own, so that it does not wait for the sweeps;           *)
(* Kubernetes runs, suspends and ends Jobs.                                    *)
CallStep(c) ==
    \/ SweepDispatched(c) \/ SweepCanceling(c)
    \/ PrepareDeliveryJob(c) \/ CreateExecutionJob(c) \/ Reconcile(c)
    \/ ExpireExecution(c) \/ StopDeliveryJob(c) \/ Write(c)

Fairness ==
    /\ \A c \in Controllers : WF_vars(CallStep(c))
    /\ SF_vars(\E c \in Controllers : ~runOpen /\ CancelExecutionTask(c))
    /\ WF_vars(KubernetesWorks)

FairSpec == Spec /\ Fairness

-----------------------------------------------------------------------------
(* Properties *)

TypeOK ==
    /\ task \in Tasks
    /\ runOpen \in BOOLEAN
    /\ job \in Jobs
    /\ pod \in PodStates
    /\ late \in BOOLEAN
    /\ controller \in [Controllers -> Controlling]
    /\ faults \in 0 .. MaxFaults

(* A task whose end is recorded does nothing any more: no Pod of its Job is   *)
(* running, now or later, whatever Create was still on its way and whichever  *)
(* controllers were at work.  (cancelDeliveryTask, StopDeliveryJob,           *)
(* dispatchDeliveryJob.)                                                      *)
EndedIsQuiet == task.status \in TaskTerminal => pod \notin PodActive

(* A completed task had a Job that completed, a canceled one never shows as   *)
(* completed later.  (reconcileK8sJobExecution, updateDeliveryTask.)          *)
CompletedRan == task.status = "completed" => job.state = "complete" /\ job.open

(* A run that is stopped before the task was dispatched starts no Pod for it. *)
(* (PrepareDeliveryJob under the task and run locks, against sweeps that read *)
(* the row before.)                                                           *)
ClosedStartsNothing ==
    [][~runOpen /\ ~task.ref => pod' = "none" /\ ~task'.ref]_vars

(* To the batch the task is what TaskContract says: it starts no work before  *)
(* the dispatch or after its end, and reports its end after the work.         *)
Contract == INSTANCE TaskContract WITH
    status <- task.status, open <- runOpen, working <- pod \in PodActive

(* The Job task keeps the contract DeliveryRun relies on.                     *)
(* (dispatchDeliveryJob, reconcileK8sJobExecution, cancelDeliveryTask.)       *)
ContractSpec == Contract!Spec

(* A task that was dispatched ends.  (recoverStaleTasks.) *)
DispatchedEnds == task.ref ~> task.status \in TaskTerminal

-----------------------------------------------------------------------------
(* The inductive invariant behind these properties. *)

(* No Pod of the Job is running and none will be started. *)
JobIsOver ==
    \/ job.state \in {"complete", "failed"}
    \/ job.state = "active" /\ job.suspended /\ pod \notin PodActive

(* The row knows of a Job before there is one, and of its end after it. *)
RowLeads ==
    /\ task.ref => task.runnable /\ task.status # "queued"
    /\ ~task.ref => /\ job.state = "absent" /\ pod = "none" /\ ~late
                    /\ task.status \in {"queued", "failed", "canceled"}
    /\ task.status = "running" => job.state # "absent"
    /\ task.ref /\ task.status \in TaskTerminal => JobIsOver
    /\ task.status = "completed" => job.state = "complete"

(* A Pod belongs to a Job that was not suspended from the start, and ends     *)
(* before it.                                                                 *)
PodInJob ==
    /\ pod # "none" => job.state # "absent" /\ job.open
    /\ job.state \in {"complete", "failed"} => pod \notin PodActive
    /\ job.state = "complete" => job.open

StopAsked == task.status \in {"canceling"} \cup TaskTerminal

(* What a controller holds is still true when it acts on it. *)
HoldsTruth(c) ==
    /\ At(c, "prepare") => task.runnable
    /\ controller[c].step \in {"create", "inspect", "expire", "stop"} => task.ref
    /\ At(c, "stop") => Copy(c).status = "canceling" /\ StopAsked
    /\ At(c, "inspect") => /\ Copy(c).status \in TaskLive
                           /\ Copy(c).status # "dispatching" => job.state # "absent"
                           /\ Copy(c).status = "canceling" => StopAsked
    /\ At(c, "write") =>
          \/ ~task.runnable /\ controller[c].status = "failed"
          \/ /\ task.ref /\ job.state # "absent"
             /\ controller[c].status \notin {"queued", "dispatching", "callback_timeout"}
             /\ controller[c].status \in {"canceling", "canceled"} => StopAsked
             /\ controller[c].status \in TaskTerminal => JobIsOver
             /\ controller[c].status = "completed" => job.state = "complete"

(* Together: the row leads the Job on the way up, follows it on the way down, *)
(* and no delayed request or stale copy undoes either.  (PrepareDeliveryJob,  *)
(* CreateExecutionJob, StopDeliveryJob, updateDeliveryTask.)                  *)
IInv ==
    /\ TypeOK
    /\ RowLeads
    /\ PodInJob
    /\ \A c \in Controllers : HoldsTruth(c)

=============================================================================
