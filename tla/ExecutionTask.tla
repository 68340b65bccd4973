---------------------------- MODULE ExecutionTask ----------------------------
(***************************************************************************)
(* One execution task of a runner provider: its execution_tasks row, the   *)
(* agents that claim it and report back with a callback token, the user    *)
(* who cancels and retries it, the monitor that times it out, and the      *)
(* release bundle its result is copied to.                                 *)
(*                                                                         *)
(* Every handler reads the row, decides, and writes the whole row back, so *)
(* a handler is two steps ("read" and Write) and a third that copies the   *)
(* result to the bundle.  What the write does depends on the task's kind:  *)
(* "build" tasks are overwritten, the others are compared with the stored  *)
(* row under a lock first.  "delivery_batch" is the build of a batch.      *)
(*                                                                         *)
(* A callback token is a uuid, numbered here in the order of creation; an  *)
(* attempt is the life of one token.                                       *)
(***************************************************************************)
EXTENDS Integers, DeliveryTask

CONSTANTS
    Kinds,       \* the values of ExecutionTask.TaskKind to look at
    Handlers,    \* requests and monitor sweeps that may be in flight at once
    MaxTokens,   \* bound on the attempts
    MaxFaults    \* bound on the handlers that die half way

Attempts == 1 .. MaxTokens

ASSUME KindsAssumption ==
    Kinds \subseteq {"build", "vm_ssh_command", "helm_apply", "delivery_batch"}
ASSUME LimitsAssumption == MaxTokens \in Nat \ {0} /\ MaxFaults \in Nat

VARIABLES
    row,        \* the execution_tasks row
    issued,     \* callback tokens generated so far
    executor,   \* [Attempts -> what the agent that was handed the attempt does]
    bundle,     \* status of the release bundle
    call,       \* [Handlers -> what the handler is doing]
    runOpen,    \* the batch that a "delivery_batch" task belongs to dispatches
    faults

vars == <<row, issued, executor, bundle, call, runOpen, faults>>

Rows == [kind : Kinds, status : TaskStatuses, token : Attempts, attempt : Nat]
ExecutorStates == {"absent", "working", "succeeded", "failed", "stopped", "expired"}
BundleStatuses == {"building", "ready", "failed"}
Calls == [step : {"idle"}] \cup [step : {"claimed", "write", "sync"}, item : Rows]

Idle == [step |-> "idle"]

Larger(a, b) == IF a < b THEN b ELSE a

-----------------------------------------------------------------------------
(* RequiresStopConfirmation, for the tasks that agents claim. *)
Confirmed == {"helm_apply", "delivery_batch"}

(* The predicates of the service on a status. *)

isCancelableTaskStatus(status) == status \in {"queued", "dispatching", "running"}
isRetryableTaskStatus(status) == status \in {"failed", "callback_timeout", "canceled"}
taskHeartbeatExpired(status) == status \in {"dispatching", "running"}

(* What an agent may report: a "running" heartbeat may be delivered late, and *)
(* the final report may be repeated.  Helm and SSH results that claim an end   *)
(* are only accepted from an executor that says it stopped.                    *)
Reports(state) ==
    CASE state = "absent" -> {}
      [] state = "working" -> {"running"}
      [] state = "succeeded" -> {"running", "completed"}
      [] state = "failed" -> {"running", "failed"}
      [] state = "stopped" -> {"running", "canceled"}
      [] state = "expired" -> {"running", "callback_timeout"}

(* The service's updateExecutionTask: a build that completed without an     *)
(* immutable image in the selected repository is stored as failed.          *)
Validated(item) ==
    {item} \cup (IF item.kind \in {"build", "delivery_batch"} /\ item.status = "completed"
                 THEN {[item EXCEPT !.status = "failed"]} ELSE {})

(* The repository's UpdateExecutionTask: the row after a handler wrote item. *)
BugUpdateExecutionTask(item) == item   \* mutant: no comparison with the stored row

UpdateExecutionTask(item) ==
    CASE item.kind = "vm_ssh_command" ->
            IF \/ row.status \in TaskTerminal
               \/ /\ item.status = "failed" /\ item.attempt = 0
                  /\ row.status # "queued"
            THEN row
            ELSE [item EXCEPT !.attempt = Larger(@, row.attempt)]
      [] item.kind \in Confirmed ->
            IF row.token # item.token \/ row.attempt > item.attempt
            THEN row
            ELSE [item EXCEPT !.status = StoredStatus(row.status, item.status)]
      [] OTHER -> item

(* applyTaskResultToBundle and prepareBundleForRetry, for a build. *)
BundleStatus(status) ==
    CASE status = "completed" -> "ready"
      [] status \in {"failed", "callback_timeout", "canceled"} -> "failed"
      [] OTHER -> "building"

-----------------------------------------------------------------------------
(* A task is created with its bundle, and waits for an agent. *)
Init ==
    /\ row \in [kind : Kinds, status : {"queued"}, token : {1}, attempt : {0}]
    /\ issued = 1
    /\ executor = [t \in Attempts |-> "absent"]
    /\ bundle = "building"
    /\ call = [h \in Handlers |-> Idle]
    /\ runOpen = TRUE
    /\ faults = 0

(* The handler has decided to store item. *)
Decide(h, item) ==
    /\ call[h].step = "idle"
    /\ call' = [call EXCEPT ![h] = [step |-> "write", item |-> item]]
    /\ UNCHANGED <<row, executor, bundle, runOpen, faults>>

(* ClaimExecutionTask: the row is locked, so two agents never claim it, and    *)
(* then the run of its batch (LockDeliveryDispatch).                           *)
ClaimExecutionTask(h) ==
    /\ call[h].step = "idle"
    /\ row.status = "queued"
    /\ runOpen
    /\ row' = [row EXCEPT !.status = "dispatching", !.attempt = @ + 1]
    /\ call' = [call EXCEPT ![h] = [step |-> "claimed", item |-> row']]
    /\ UNCHANGED <<issued, executor, bundle, runOpen, faults>>

(* The claimed task, its secrets and frozen inputs go to the agent. *)
HandOver(h) ==
    /\ call[h].step = "claimed"
    /\ executor' = [executor EXCEPT ![call[h].item.token] = "working"]
    /\ call' = [call EXCEPT ![h] = Idle]
    /\ UNCHANGED <<row, issued, bundle, runOpen, faults>>

(* The row of a callback is looked up by its token; a row that is terminal   *)
(* only logs the callback.                                                   *)
BugAccepts(token) == row.status \notin TaskTerminal   \* mutant: looked up by task
Accepts(token) == row.token = token /\ row.status \notin TaskTerminal

Reported(status) ==
    [row EXCEPT !.status = status, !.attempt = Larger(@, 1)]

(* HydrateExecutionTask: the kinds whose authorization and frozen inputs are  *)
(* looked at again when they are claimed.                                     *)
Hydrated == {"vm_ssh_command", "helm_apply"}

(* The inputs of a claimed task are gone: the service reports the failure    *)
(* itself, through the callback.                                             *)
RejectClaim(h) ==
    /\ call[h].step = "claimed"
    /\ call[h].item.kind \in Hydrated
    /\ call' = [call EXCEPT ![h] =
          IF Accepts(call[h].item.token)
          THEN [step |-> "write", item |-> Reported("failed")]
          ELSE Idle]
    /\ UNCHANGED <<row, issued, executor, bundle, runOpen, faults>>

RecordCallback(h) ==
    \E t \in Attempts : \E status \in Reports(executor[t]) :
        /\ Accepts(t)
        /\ Decide(h, Reported(status))
        /\ UNCHANGED issued

CancelExecutionTask(h) ==
    /\ row.kind \notin Confirmed
    /\ isCancelableTaskStatus(row.status)
    /\ Decide(h, [row EXCEPT !.status = "canceled",
                    !.attempt = IF row.kind = "build" THEN Larger(@, 1) ELSE @])
    /\ UNCHANGED issued

(* markTaskTimedOut, found by the sweep over the claimed tasks. *)
MarkTaskTimedOut(h) ==
    /\ row.kind \notin Confirmed
    /\ taskHeartbeatExpired(row.status)
    /\ Decide(h, [row EXCEPT !.status = "callback_timeout",
                    !.attempt = IF row.kind = "build" THEN Larger(@, 1) ELSE @])
    /\ UNCHANGED issued

(* An SSH command that no agent claimed in 30 minutes. *)
ExpireSSHCommand(h) ==
    /\ row.kind = "vm_ssh_command"
    /\ row.status = "queued"
    /\ Decide(h, [row EXCEPT !.status = "failed"])
    /\ UNCHANGED issued

(* RequestDeliveryTaskStop: Helm and batch tasks are asked to stop, by the     *)
(* user, the batch or the sweep; the row is read and written in one            *)
(* transaction.  finishDeliveryTaskStop copies an end to the bundle.           *)
RequestDeliveryTaskStop(h) ==
    /\ call[h].step = "idle"
    /\ row.kind \in Confirmed
    /\ row' = [row EXCEPT !.status = RequestStop(@)]
    /\ call' = [call EXCEPT ![h] =
          IF row.kind = "delivery_batch" /\ row'.status \in TaskTerminal
          THEN [step |-> "sync", item |-> row'] ELSE Idle]
    /\ UNCHANGED <<issued, executor, bundle, runOpen, faults>>

(* StopManagedRun, or the end of the run. *)
CloseRun ==
    /\ row.kind = "delivery_batch"
    /\ runOpen
    /\ runOpen' = FALSE
    /\ UNCHANGED <<row, issued, executor, bundle, call, faults>>

BugRetryToken == row.token   \* mutant: the retry keeps the token
RetryToken == issued + 1

RetryExecutionTask(h) ==
    /\ row.kind = "build"
    /\ isRetryableTaskStatus(row.status)
    /\ issued < MaxTokens
    /\ issued' = issued + 1
    /\ Decide(h, [row EXCEPT !.status = "queued", !.token = RetryToken])

(* The row is written.  A build copies the terminal result that was stored,  *)
(* or the retry, to its bundle afterwards; Helm and SSH have no bundle.      *)
Write(h) ==
    /\ call[h].step = "write"
    /\ \E item \in Validated(call[h].item) :
          /\ row' = UpdateExecutionTask(item)
          /\ call' = [call EXCEPT ![h] =
                IF /\ item.kind \in {"build", "delivery_batch"}
                   /\ row'.status \in TaskTerminal \cup {"queued"}
                THEN [step |-> "sync", item |-> row']
                ELSE Idle]
    /\ UNCHANGED <<issued, executor, bundle, runOpen, faults>>

(* updateTaskReleaseBundle, or the bundle update of a retry. *)
SyncBundle(h) ==
    /\ call[h].step = "sync"
    /\ bundle' = BundleStatus(call[h].item.status)
    /\ call' = [call EXCEPT ![h] = Idle]
    /\ UNCHANGED <<row, issued, executor, runOpen, faults>>

(* The process stops, or a statement fails, and the handler goes no further;  *)
(* a failed bundle update is ignored by the callers.                          *)
Abandon(h) ==
    /\ call[h].step # "idle"
    /\ faults < MaxFaults
    /\ call' = [call EXCEPT ![h] = Idle]
    /\ faults' = faults + 1
    /\ UNCHANGED <<row, issued, executor, bundle, runOpen>>

(* The agent's work ends, by itself, because it was told to stop, or at its   *)
(* deadline; the result of an SSH command cannot say that it was canceled     *)
(* (validateSSHResult).                                                       *)
EndWork(t) ==
    /\ executor[t] = "working"
    /\ \E result \in {"succeeded", "failed", "stopped", "expired"} :
          /\ row.kind = "vm_ssh_command" => result # "stopped"
          /\ executor' = [executor EXCEPT ![t] = result]
    /\ UNCHANGED <<row, issued, bundle, call, runOpen, faults>>

HandlerStep(h) ==
    \/ ClaimExecutionTask(h) \/ HandOver(h) \/ RejectClaim(h)
    \/ RecordCallback(h) \/ CancelExecutionTask(h) \/ MarkTaskTimedOut(h)
    \/ ExpireSSHCommand(h) \/ RetryExecutionTask(h) \/ RequestDeliveryTaskStop(h)
    \/ Write(h) \/ SyncBundle(h) \/ Abandon(h)

Next ==
    \/ \E h \in Handlers : HandlerStep(h)
    \/ CloseRun
    \/ \E t \in Attempts : EndWork(t)

Spec == Init /\ [][Next]_vars

-----------------------------------------------------------------------------
(* Properties *)

TypeOK ==
    /\ row \in Rows
    /\ issued \in Attempts
    /\ executor \in [Attempts -> ExecutorStates]
    /\ bundle \in BundleStatuses
    /\ call \in [Handlers -> Calls]
    /\ runOpen \in BOOLEAN
    /\ faults \in 0 .. MaxFaults

(* A task is completed only by the attempt it is at: the agent that holds    *)
(* the row's token succeeded.  (RecordCallback: lookup by token, rotation by *)
(* RetryExecutionTask.)                                                      *)
CompletedIsEarned ==
    row.status = "completed" => executor[row.token] = "succeeded"

(* A task recorded as failed has no agent at work on it: "failed" means that *)
(* it was never handed over or that its agent ended.  (RecordCallback,       *)
(* expireSSHCommand against a concurrent claim, RejectClaim.)                *)
FailedIsHonest ==
    row.status = "failed" => executor[row.token] # "working"

(* One attempt is worked on once: no sequence of retries, timeouts and stale *)
(* writes puts a token that an agent already used back into the queue.       *)
(* (ClaimExecutionTask with RetryExecutionTask.)                             *)
AttemptRunsOnce ==
    [][\A t \in Attempts : executor[t] \notin {"absent", "working"}
                              => executor'[t] = executor[t]]_vars

(* A terminal task rejects every update but a retry, which queues it under a *)
(* token that was never used.  (RecordCallback, CancelExecutionTask,         *)
(* markTaskTimedOut with UpdateExecutionTask.)                               *)
TerminalIsFinal ==
    [][row.status \in TaskTerminal /\ row'.status # row.status
          => row'.status = "queued" /\ row'.token > row.token]_vars

(* Where the repository compares with the stored row, that is for every kind  *)
(* but "build", a terminal task never changes again, whatever copies of it    *)
(* are still to be written.  (updateDeliveryTask, UpdateExecutionTask.)       *)
GuardedIsFinal ==
    [][row.kind # "build" /\ row.status \in TaskTerminal => row'.status = row.status]_vars

(* Once a retry is stored, nothing of an older attempt overwrites it: the    *)
(* row never goes back to an earlier token.  (RetryExecutionTask against     *)
(* callbacks and sweeps that read the row before it.)                        *)
RetryIsolates == [][row'.token >= row.token]_vars

(* When nothing is in flight, the bundle of a task that is completed, which  *)
(* only its agent's callback makes it, is ready, and no other one is.        *)
(* (updateTaskReleaseBundle after the write of RecordCallback.)              *)
BundleInStep ==
    (\A h \in Handlers : call[h].step = "idle") =>
        (row.status = "completed" <=> bundle = "ready")

(* A Helm operation or a build of a batch is never reported over while its   *)
(* executor may still be changing the world.  (RequestDeliveryTaskStop,      *)
(* updateDeliveryTask.)                                                      *)
StopIsConfirmed ==
    row.kind \in Confirmed /\ row.status \in TaskTerminal => executor[row.token] # "working"

(* The bundle of a batch's build says nothing but how its task ended, unlike *)
(* that of a build outside batches: what ended is not overwritten, so every  *)
(* copy of the end is a copy of the same one.  (finishDeliveryTaskStop,      *)
(* updateTaskReleaseBundle.)                                                 *)
BundleFollows == row.kind = "delivery_batch" /\ bundle # "building" =>
    row.status \in TaskTerminal /\ bundle = BundleStatus(row.status)

(* An agent that claims a Helm operation or a task of a batch keeps the      *)
(* batch's contract with it, as Jobs and pipelines do; tasks of other kinds  *)
(* are mapped to one that nobody dispatches.                                 *)
Contract == INSTANCE TaskContract WITH
    status <- IF row.kind \in Confirmed THEN row.status ELSE "queued",
    open <- runOpen,
    working <- row.kind \in Confirmed /\ executor[row.token] = "working"

ContractSpec == Contract!Spec

-----------------------------------------------------------------------------
(* The inductive invariant behind these properties. *)

Claiming(h, t) == call[h].step = "claimed" /\ call[h].item.token = t
Writing(h) == call[h].step = "write"
Retrying(h) == Writing(h) /\ call[h].item.status = "queued"

(* No agent works on the attempt, and none will be given it. *)
Spent(t) ==
    /\ executor[t] # "working"
    /\ ~(row.token = t /\ row.status = "queued")
    /\ \A h \in Handlers : ~Claiming(h, t) /\ ~(Retrying(h) /\ call[h].item.token = t)

(* Whatever holds a token was given one; only builds get a second one. *)
TokensAreIssued ==
    /\ row.token <= issued
    /\ row.kind # "build" => issued = 1
    /\ \A t \in Attempts : executor[t] # "absent" => t <= issued
    /\ \A h \in Handlers : call[h].step # "idle" =>
          call[h].item.token <= issued /\ call[h].item.kind = row.kind

(* Until a retry is written nobody else knows its token. *)
RetryIsFresh(h) == Retrying(h) =>
    /\ row.kind = "build"
    /\ executor[call[h].item.token] = "absent"
    /\ row.token # call[h].item.token
    /\ \A v \in Handlers \ {h} : call[v].step \in {"claimed", "write"} =>
          call[v].item.token # call[h].item.token

(* A queued attempt was never claimed. *)
QueuedIsFresh == row.status = "queued" =>
    /\ executor[row.token] = "absent"
    /\ \A h \in Handlers : ~Claiming(h, row.token)
    /\ row.kind = "vm_ssh_command" => row.attempt = 0

(* A claimed attempt is with one handler and no agent yet. *)
ClaimIsExclusive(h) == call[h].step = "claimed" =>
    /\ executor[call[h].item.token] = "absent"
    /\ \A v \in Handlers \ {h} : ~Claiming(v, call[h].item.token)

(* What is about to be written of an attempt is still true of it; the expiry  *)
(* of an SSH command (attempt 0) is the one that must look again.             *)
WriteIsHonest(h) == Writing(h) =>
    /\ call[h].item.status = "completed" => executor[call[h].item.token] = "succeeded"
    /\ call[h].item.status = "failed" =>
          \/ Spent(call[h].item.token)
          \/ call[h].item.kind = "vm_ssh_command" /\ call[h].item.attempt = 0
    /\ call[h].item.kind \in Confirmed =>
          /\ row.status # "queued"
          /\ call[h].item.status \in TaskReports
          /\ call[h].item.status \in TaskTerminal => Spent(call[h].item.token)

RowIsHonest ==
    /\ row.status = "completed" => executor[row.token] = "succeeded"
    /\ row.status = "failed" => Spent(row.token)
    /\ row.kind \in Confirmed /\ row.status \in TaskTerminal => Spent(row.token)

(* What is copied to the bundle of a batch's build is how the task ended. *)
SyncIsTrue(h) == call[h].step = "sync" /\ call[h].item.kind = "delivery_batch" =>
    row.status \in TaskTerminal /\ call[h].item.status = row.status

(* Together: a handler's copy may be stale, but what it is about to store of  *)
(* an attempt cannot become false while it waits.  (UpdateExecutionTask,      *)
(* RecordCallback, ClaimExecutionTask, RetryExecutionTask.)                   *)
IInv ==
    /\ TypeOK
    /\ TokensAreIssued
    /\ QueuedIsFresh
    /\ RowIsHonest
    /\ BundleFollows
    /\ \A h \in Handlers :
          RetryIsFresh(h) /\ ClaimIsExclusive(h) /\ WriteIsHonest(h) /\ SyncIsTrue(h)

=============================================================================
