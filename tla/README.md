# A TLA+ verification of Soha's delivery and task engines

Soha is a control plane for application delivery: it builds, plans, deploys and
checks applications on Kubernetes clusters, Docker hosts and virtual machines,
through agents, Kubernetes Jobs and external CI, with an AI gateway, a network
control plane and an identity provider around it. It is one Go program
(`cmd/server`, a few satellites) over PostgreSQL. Several server processes may
run against one database, and everything that takes long is a row that some
process picks up, works on and writes back. That is where it is hard to get
right, and what this project is about.

## Inventory

State is kept in PostgreSQL; a component is a service in `internal/application`,
its repository in `internal/repository`, and background goroutines started by
`internal/bootstrap`. `PROJECT.json` lists every component with its sources.

| component | state | operations | interacts with | hard |
|---|---|---|---|---|
| delivery batch engine (`application/workflow/delivery_*.go`, `application/delivery/batch_*.go`, `repository/workflow/delivery.go`) | `workflow_runs` row: node runs, status, stop reason, version, lease owner and time, fencing token | create, claim, tick (check, select, execute, save), stop on failure, cancel, read | creates and reads execution tasks through the stage runtime | lease loss under a live worker, stale snapshots, stop against dispatch, crash between task and save |
| execution tasks (`application/execution`, `repository/delivery`) | `execution_tasks` row: status, callback token, attempt, result; release bundle, build and release records | claim, callback, cancel, retry, time-out sweep, stop request | agents (callbacks), the batch engine, bundles | read-decide-write handlers that overlap, late and repeated callbacks, retries against the old attempt |
| delivery Jobs (`execution/delivery_job.go`, `delivery_cancel.go`, `infrastructure/executionbackend`) | the task row with the Job's identity; the Job and its Pod in the cluster | prepare, create, inspect, expire, suspend, confirm | Kubernetes API, Job controller | Creates that arrive late, suspension against start and completion, several controllers |
| external CI pipelines (`execution/external_pipeline.go`, `repository/delivery/pipeline_tasks.go`, `infrastructure/gitlab`) | the task row with the remote run's identity | one POST, find, inspect, cancel, record | GitLab | lost answers, duplicate runs, overlapping records |
| capability tasks (`workflow/capability_*.go`, `aigateway/capability_*.go`) | managed run of another scope: steps with their call, approval and child; archived plans | claim, prepare, advance, cancel, recover, approve, revise, stop | virtualization, Docker, AI gateway approvals | a call that took effect under a worker that died, approvals against a stop, revised plans, a row taken over from another worker |
| application DAG workflows (`workflow/dag_*.go`) | `application` scope runs | run, approve, callback | execution tasks | callbacks against the running goroutine |
| delivery triggers | trigger and receipt rows | webhook, schedule | batch engine | duplicates |
| governance, freezing, approval | drafts, assessments, receipts | assess, freeze, approve | batch engine | stale approvals |
| applications, catalog, builds, releases, registries, manifests, Helm | records | CRUD, sync from tasks | execution tasks | records left behind |
| Docker operations (`application/docker`, `repository/docker`) | `docker_operations` row, hosts, projects, ports | claim, answer, poll, heartbeat, report, cancel, retry | Docker runners, delivery batches | stale copies, late reports of an earlier attempt, two claims on one project |
| virtualization tasks, personal guests | task rows, capacity, guests | worker pool, create recovery, SSH | hypervisors | crash between the remote create and the record |
| secret leases | lease rows | issue, resolve, revoke | execution tasks | revocation against use |
| AI gateway, copilot, agent harness | conversations, tool calls, approvals, runs | approve, execute, cancel | all of the above | approvals used twice, cancellation |
| knowledge, memory, retrieval | documents, ingestion jobs, graphs | ingest, search | models | job leases |
| directory synchronisation | runs, mappings | plan, apply | LDAP, OIDC | one run at a time |
| network control, gateway, access, RADIUS, proxy, ingest | leases, sessions, commands | admit, renew, revoke | gateways, devices | revocation, command queues |
| sessions, second factors, identity provider | sessions, codes, refresh tokens | login, refresh, authorize | browsers, clients | single use of codes, token rotation |
| access control, settings, menus, plugins, monitoring, audit | records | CRUD | all | none of its own |

What makes each of the modelled components correct:

* batch engine: a stage is handed to an executor at most once and never after a
  stop; the row tells the truth about the executors; a batch ends once and only
  when nothing of it is at work; dependencies and the concurrency limit hold
  through restarts; a stopped batch ends;
* execution tasks: what the row says of an attempt is what that attempt's agent
  did; one attempt runs once; terminal rows stay; a retry is isolated from the
  attempt before it; the bundle follows the task;
* delivery Jobs: an ended task has no running Pod, now or later; a completed one
  had a Job that completed; a closed batch starts nothing; a dispatched task ends;
* external pipelines: one POST; an ended task has no pipeline at work; a completed
  one names the pipeline whose artifact was verified; what is known of the remote
  run is not lost to an overlapping record; what reached GitLab ends;
* Docker operations: one operation of a project at a time; no commands behind an
  ended operation; its end is what its own runner reported; a cancellation ends;
* capability tasks: a child at work is never forgotten; a stop lets nothing start;
  steps wait for what they depend on; a completed goal was verified under its own
  plan; a stopped task ends or blocks.

## Modules

| module | models | built on |
|---|---|---|
| `DeliveryTask` | what the two transactions on a stop-confirmed task row store | |
| `DeliveryContract` | the abstract specification of a batch | |
| `DeliveryRun` | the batch engine: row, tasks, workers | `DeliveryTask`, implements `DeliveryContract` |
| `TaskContract` | the abstract specification of one task of a batch | `DeliveryTask` |
| `DeliverySystem` | a batch and the executors of its tasks | `DeliveryRun`, an instance of `TaskContract` per node |
| `ExecutionTask` | an agent's task: row, attempts, handlers, bundle | `DeliveryTask`, implements `TaskContract` |
| `DeliveryJob` | a delivery task of the `k8s_job_runner` and its Job | `DeliveryTask`, implements `TaskContract` |
| `ExternalPipeline` | a delivery task of the GitLab provider, its POST and its pipeline | `DeliveryTask`, implements `TaskContract` |
| `WorkspaceContract` | the abstract specification of a project's workspace: a lock with work under it | |
| `DockerOperation` | the operations of one Compose project, runners, requests | implements `WorkspaceContract` |
| `CapabilityRun` | a capability task: row, workers, steps, approvals, children | |
| `DeliveryRunProofs`, `DeliverySystemProofs`, `ExecutionTaskProofs`, `DeliveryJobProofs`, `ExternalPipelineProofs`, `DockerOperationProofs`, `CapabilityRunProofs` | proofs about these modules | |
| `MCDeliveryRun`, `MCDeliverySystem`, `MCExecutionTask`, `MCDeliveryJob`, `MCExternalPipeline`, `MCDockerOperation`, `MCCapabilityRun` | the DAGs and symmetries of the runs | |

The modules share `DeliveryTask`, the row protocol of a task that confirms its stop,
and meet at `TaskContract`. Its actions are what the row of a task may do
(`Dispatch`, `Disable`, `Stop`, `Report`) and the work beside it (`StartWork`,
`EndWork`); it lets work start only after a dispatch that the run allowed, and an end
be reported only after the work. From below, `DeliveryJob`, `ExternalPipeline` and
`ExecutionTask` are shown to implement it, each with its own meaning of `working`: a
Pod, a pipeline or a job of one, an agent. From above, `DeliverySystem` puts
`DeliveryRun` on executors of which it knows nothing but the contract. So what is
proved of `DeliverySystem` (no build or deploy of a finished batch goes on anywhere)
is said of executors of each of these kinds, without one module that
holds them all. The assumptions go both ways: that the batch keeps its half of each
task's contract (it creates a task once, asks for a stop instead of writing one, never
reopens a run) is a property of `DeliverySystem` as well, `TaskContracts`. What joins
the halves is argued here and not proved as one formula: the steps of different
tasks are disjoint, and `open` is the row lock of `LockDeliveryDispatch` in both.

### DeliveryRun

`row` is one `workflow_runs` row (batches share nothing, so one is enough);
`tasks[n]` the status of the execution task of node `n`, or that there is none;
`worker[w]` what a goroutine of a server process is doing with its snapshot;
`faults` a bound on what goes wrong.

| code | actions |
|---|---|
| `claimDeliveryRun`, `ClaimManagedRun` | `ClaimManagedRun`, `BeginTick` |
| `advanceDeliveryRun` and its passes | `AdoptStopped`, `CheckFailed`, `CancelPending`, `SelectReady`, `NextPass`, `FinishTick` |
| `executeDeliveryNode`, `reconcileDeliveryNode`, the stages of `batch_runtime.go` and `batch_plan.go` | `CheckNode`, `CreateTask`, `ObserveTask`, `ObserveHealth`, `RejectStage`, `CancelStage`, `CancelNode`, `NodeError` |
| `persistDeliveryRun`, `SaveManagedRun` | `Persist`, `SaveResults` |
| `CancelDeliveryBatch`, `StopManagedRun` | `UserStop`, and inside `CheckFailed` |
| the executors and `updateDeliveryTask`, `RequestDeliveryTaskStop` | `DispatchTask`, `DisableProvider`, `ReportTask`, `StopTask`, `ConfirmStop` |
| a dying process, an expired lease | `AbandonTick`, `ExpireLease` |

Abstractions. `version` and `fencing_token` are compared only for equality in the
code; the model takes a token that nobody holds instead of counting, which keeps
the state space finite and is what a fresh number means to the code. The lease
owner is a process: goroutines of one process share it, so that only the fencing
token separates them. The runs use that harder case (`OneProcess`). A tick has
45 of the lease's 60 seconds; nothing enforces that a slow tick has ended when the
lease is over, so `ExpireLease` may hit a live worker (a fault), and is free once
nobody holds the lease. A plan stage may fail and leave its preflight task behind,
so statements about tasks are about builds and deploys (`MutatingStages`). Reading
the task and requesting its stop in `CancelDeliveryStage` are one step: the request
repeats the read under the lock. Docker deploy targets (an operation row instead of
a task) are not modelled.

In `DeliveryRun` a task is its status, and its executor may do to it what the row
protocol allows (`ExecutorStep`): besides progress it may report any end,
`callback_timeout` included (`TaskReports`), which the batch reads as a failure. `DeliverySystem` adds `working[n]`, whether somebody
works for the task of node `n`, and replaces these actions by the contract's
(`TaskStep`); everything else is `BatchStep`, the same actions as in `DeliveryRun`.

### ExecutionTask

`row` has kind, status, callback token and attempt count; `executor[t]` says what
the agent with token `t` does; `call[h]` is a handler between its read and its
write, or between the write and the bundle; tokens are numbered in the order they
are made. One handler action per service method (`ClaimExecutionTask`, `HandOver`,
`RejectClaim`, `RecordCallback`, `CancelExecutionTask`, `MarkTaskTimedOut`,
`ExpireSSHCommand`, `RetryExecutionTask`, `RequestDeliveryTaskStop`), then `Write` (the
repository's `UpdateExecutionTask`, with its three rules) and `SyncBundle`.
Callbacks may be late and repeated; a callback on a terminal row only logs and is
not a step. Time is left out: a time-out may fire whenever the status allows it,
because a clock may be arbitrarily late. An agent's work ends by itself, because it
was told to stop, or at its own deadline (`"expired"`), which the Helm and manifest
workers report as `callback_timeout`. Only SSH and Helm tasks are hydrated when they
are claimed (`Hydrated`), so only their claims can be rejected (`RejectClaim`). Four kinds stand for the three write
rules: `build` (also release and manifest tasks) is overwritten, `vm_ssh_command`
compared under an advisory lock, `helm_apply` and `delivery_batch` under the row lock.
`delivery_batch` is the build task of a batch that an agent claims: it has a bundle,
`runOpen` is whether its batch still dispatches (`CloseRun` ends that), and its claim
takes that lock. The last two kinds are those of `RequiresStopConfirmation` that agents
execute (`Confirmed`), and the ones that implement `TaskContract`. `helm_apply` is
the Helm kind of the model; `AttemptRunsOnce` is about it and not about
`helm_preflight` and `helm_observe`, which recovery runs again under the same token by
design. An executor that ends its task although it could not confirm the stop
(`manifest/runtime.go:384`, a manifest task whose Argo or rollout operation goes on) is
outside the contract and not modelled. Not modelled either:
the follow-up of a release (`CompleteReleaseExecution`), the Jobs of tasks outside
batches (`dispatchK8sJobExecution`).

### DeliveryJob

`task` is the row (status, attempt, whether the Job's identity is stored, cancel
reason, and whether the frozen payload can run at all), `runOpen` whether the
batch still dispatches, `job` and `pod` the cluster, `late` an abandoned Create on
its way, `controller[c]` a sweep or request between two of its calls. The
Kubernetes side is external and is modelled by what the code relies on: a name
is created once; the Job controller may start the Pod until it has observed the
suspension; a suspended or expired Job's Pod is terminated; a Job gets its final
condition after its Pod has ended (Kubernetes since 1.31; hazard list). Retained
Jobs have no TTL and nobody else deletes them. Processes of one fleet agree on the
configuration that makes a task runnable.

### ExternalPipeline

`task` is the row (status, the run's id, whether the wrong run was found, cancel
reason), `run` what GitLab made of the POST and of a duplicate of it, `posts` how
often it was sent, `controller[c]` a sweep or request between two of its calls with
its copy of the row. `BeginExternalPipelineDispatch` grants the POST in the
transaction that leaves `queued`; `StartPipeline`, `Answered`, `Unanswered` are the
call; `FindPipeline` and `InspectPipeline` the reconciliation, with `Judged` for the
artifact and `CancelRuns` for `stopPipelineGraph`; `RecordExternalPipeline` writes
through `Merged` (`mergeExternalPipelineTask`). GitLab and the network are
external: a POST may be delivered, refused, lost or delivered twice, a pipeline may
have ended while jobs of it have not. Abstractions: the two readings of a
pipeline's graph in one inspection are one; nobody retries the jobs of a pipeline
that has ended. A POST that was really lost leaves the task waiting by design (the
code cannot know, and does not send it again); a duplicate that appears after the
first run was recorded is looked for by nothing, so the contract and `EndedIsQuiet`
say what they say of the run the task names.

### DockerOperation

`op[o]` is a row (status, worker, token, attempt), `job[o][a]` what the runner that
was answered for attempt `a` does, `allowed` whether the requester is still
authorized, `runOpen` the batch, `project` the project's row, `call[h]` a request
between its read and its write. `SelectOperation` and `ClaimOperation` are the two
halves of the repository's claim, before and after the project's lock;
`AnswerClaim` authorizes and answers or denies; `PollOperation`, `Heartbeat`,
`RecordOperationCallback` are the runner's requests; `CancelOperation`,
`RetryOperation` the users'; `UpdateOperation` the write with `WHERE updated_at = ?`
and `ApplyRuntimeState` the project. `updated_at` is compared for equality only, so
a copy is `fresh` or it is not; two writes in the same microsecond are left out. An
idempotent repetition of a request changes nothing and is a stutter. The workspace of
`WorkspaceContract` is held by the operations with an active row; its work is what
runners with callback tokens do, in whatever attempt. Runners
without callback tokens are modelled, and the properties about attempts are stated
of those with tokens: without one a late report of an earlier claim by the same
worker cannot be told apart. Not modelled: host provisioning and its virtual
machine task, port reservations, the order of queued operations that no run may
claim (a delivery operation of a closed batch at the head of the queue).

### CapabilityRun

`row` is the run (status, stop reason, steps, plan version, whether it has a parent
conversation, the archived steps), `worker[w]` where a tick is, `domain[n]` the
child of step `n` and the approvals of its call and of its cancel call, `seen[n]`
the plan under which its outcome was recorded (a history variable).

| code | actions |
|---|---|
| `ClaimManagedRun`, `SaveManagedRun` | `ClaimManagedRun`, `SaveManagedRun`, `Conflict` |
| `runCapabilityTick` | `Overdue`, `Unauthorized`, `Proceed` |
| `advanceCapabilityRun` | `StopOnFailure`, `CancelCapabilityNode`, and the choice `Chosen` |
| `PrepareCapabilityNode`, `AdvanceCapabilityNode` with what they call | the actions of these names; `Forward`, `Observed`, `Invoked`, `Cancel`, `Recovered`, `CancelTask` |
| `CancelCapabilityTask`, `ResumeCapabilityTask` | the actions of these names; `Revisable`, `Revised`, `Archived` |
| `approveApprovalRequest`, `executeApprovedCapability`, `resolveApprovalRequest` | `Approve`, `ApproveCancel`, `Refuse` |
| a dying process, an expired lease, a failed call | `Crash`, `CrashAfterCall`, `ApprovedCallFails`, `ApprovedCancelFails`, `Expire` |
| the domain's task | `ChildEnds` (external) |

The row's repository functions are those of `DeliveryRun`, where copies, versions
and fencing tokens are modelled and `CurrentCopyIsFaithful` is proved; here a copy
is therefore `fresh`, and equal to the row, or its writes are refused. A worker with
an old copy can still do one thing, call `StopManagedRun` and go on with the row
that returns, whoever's lease that row carries. Tool calls are made under the row's
lock, so a call and its record are one action unless the worker dies in between; a
database connection that drops under a live worker is left out. Domains answer a
repeated call with the child they have (the request id is frozen with the step).
Whether a call needs approval is a constant of the step; the code asks the policy
again at every call.
Left out: the poll interval, damaged intents, several votes per approval, the
parent conversation beyond its stop.

## Runs

All runs say `CHECK_DEADLOCK FALSE`: a finished batch or task really stops.

| run | instance | checks | shows |
|---|---|---|---|
| `batch` | `SystemSpec`: two builds and their barriers, limit 1, 2 workers of one process, 1 fault, an executor per task | `FinishedRunIsIdle`, `WorkIsLicensed`, `CurrentCopyIsFaithful`, `SystemInv`, `PrerequisitesFirst`, `WithinConcurrency`, `TaskContracts`, `SettlesOnce`, `ContractSpec` | nothing builds that an open batch does not wait for; the row is truthful, ordered, limited and final under every interleaving of claims, saves, stops and callbacks; the batch keeps its tasks' contracts and implements `DeliveryContract` |
| `stop` | plan, deploy, health, barrier; stop on failure; 1 fault; with fairness | `StopConverges` | a stopped batch ends |
| `kinds` | build, SSH, Helm and batch tasks, 3 handlers, 2 attempts, 2 faults | `CompletedIsEarned`, `FailedIsHonest`, `IInv`, `AttemptRunsOnce`, `GuardedIsFinal`, `ContractSpec` | stale handlers may overwrite a build's row, but never with a lie about its token's agent; the comparison under the lock keeps the other kinds' ends; an agent's Helm or batch task implements `TaskContract` |
| `late`, `retry`, `bundle` | build | `TerminalIsFinal`, `RetryIsolates`, `BundleInStep` | three rules of the repository's own guidelines that build tasks do not keep (findings) |
| `job` | 2 controllers, 2 faults, with fairness | `EndedIsQuiet`, `CompletedRan`, `IInv`, `ClosedStartsNothing`, `ContractSpec`, `DispatchedEnds` | ended tasks are quiet whatever is still on its way; dispatched tasks end; the task implements `TaskContract` |
| `pipeline` | 2 controllers, 1 fault, with fairness | `EndedIsQuiet`, `CompletedIsBuilt`, `IInv`, `PostedOnce`, `ContractSpec`, `NothingForgotten`, `StartedEnds` | one POST through every loss and crash; what reached GitLab ends in the row too; the task implements `TaskContract` |
| `docker` | 2 operations (one of a batch), runners with and without tokens, 2 requests, 1 retry, 1 fault | `EndedIsQuiet`, `EndedIsEarned`, `IInv`, `ContractSpec` | the workspace has one holder and only its commands; claims, reports, cancellations and retries never contradict the runner at work |
| `docker_cancel` | 1 operation, with fairness | `CancelEnds` | an answered operation's cancellation is confirmed |
| `docker_retry` | 1 delivery operation | `DeliveryEndsOnce` | it is run again although it was stored with no retries (finding) |
| `capability` | a guarded asynchronous step, its verification, a step for the second plan; 2 workers, 2 plans, 1 fault; with fairness | `NothingForgotten`, `CompletedIsVerified`, `IInv`, `StoppedStartsNothing`, `PrerequisitesFirst`, `StopEnds` | stops, approvals, revisions, takeovers and one fault leave no child behind and start nothing that should not |

Bounds. Two workers are enough for every race on one row here: what a third could
do is what the second can do after it gives up, and tokens (3) allow each of them
to hold a stale one while the row has another. `MaxFaults` bounds crashes, lost
leases and failed calls per behaviour; one is the least that makes a stale worker,
two make a crash during recovery. Two controllers or requests let one hold a stale
copy while the other completes a dispatch and a cancellation. Two attempts let a
handler of the first meet the retry. In `capability` step 1 needs approvals for its
call and for its cancel call and step 2 has no cancel call, so both ways to stop a
child occur; two plan versions let a revision drop, keep and add steps. The proofs
remove these bounds for the properties they cover: `batch` works on one node at a
time, does not stop on failure and has edges into barriers only (the `stop` run has
the failure stop and an edge between tasks), and the theorems hold for any limit,
with or without the failure stop, and for every DAG.

Fairness. `DeliveryRun`: each worker goes on with its tick (a goroutine is
scheduled), leases run out (a clock), executors that were asked to stop confirm
(the contract of agents and Jobs; `DispatchedEnds` and `StartedEnds` show it for
Jobs and pipelines). No fairness for users, failures or executors that were not
asked. `DeliveryJob`: the monitor's ticker repeats the sweeps and calls return; a
closed batch repeats its cancel request, which is `StopConverges` seen from the task
(strong fairness, because the request is a handler of its own that does not wait
for the sweeps); the cluster works, and accepts the Create in the end (a Create that
the API refuses for ever would be retried for ever, `service.go:1159`), except that a suspended Job whose Pod failed
need not end. `ExternalPipeline`: the same sweeps; a canceled pipeline ends, one
that is not canceled need not, but its task's execution time runs out.
`DockerOperation`: requests that are not lost go on, a runner's commands end, and a
runner repeats its last report until it is taken (strong fairness: other requests
may win the row in between, but not for ever). `CapabilityRun`: workers poll,
leases and pending approvals run out, a child that was asked to stop ends, and so
does one that nobody can ask.

## Findings

Three statements of the repository's own engineering rules
(`.agents/skills/soha-backend`) do not hold of build tasks: see `findings` in
`PROJECT.json` with the runs `late`, `retry` and `bundle`. In short: handlers of
build tasks compare the status of a copy and then overwrite the row, including its
callback token, and the bundle is written after the task with its error dropped.
SSH, Helm and delivery tasks are compared under a lock and keep the first two.

A fourth is about Docker (`docker_retry`): the operations of a batch are stored with
`MaxRetries` 0, which a test insists on, and `retryOperation` reads 0 as the default
of 1, so one that ended can be queued and run again while its batch is open.

## Proofs

The theorems hold for every value of the constants that satisfies the modules'
assumptions: any DAG, any number of workers, handlers and controllers, any number
of attempts and faults. Each proof has one lemma per action that can disturb the
invariant, and each invariant is also an invariant of a run, so TLC has seen it
first.

**DeliveryRun** (`NodesAssumption`, `OwnerAssumption`, `BoundsAssumption`,
`TokensAssumption`: the nodes form a graph with known stages, an owner per worker,
and there is always a token that no worker's copy holds).

| theorem | states |
|---|---|
| `TypeCorrect`, `Invariant` | `TypeOK`, `IInv` |
| `FinishedIsIdle`, `HonestNodes`, `FaithfulCopy` | `FinishedRunIsIdle`, `NodesAreHonest` (a node's recorded status agrees with its task), `CurrentCopyIsFaithful` |
| `StartedInOrder`, `LimitKept` | `PrerequisitesFirst`, `WithinConcurrency` |
| `SettledForGood` | the action property `SettlesOnce` |
| `Refinement` | `ContractSpec`: a batch with its workers implements `DeliveryContract` |

The properties are not inductive as they stand: whether a save is harmless depends
on the snapshot that is saved. `IInv` adds that fencing tokens are apart
(`FencesApart`), that the holder of the row's token owns the lease and its copy
differs from the row only by what its own tick did (`HolderOwns`, `HolderCopy`),
that a copy which has begun to stop has no node left to start (`StopIsThorough`),
and that a finished row has no active node (`EndIsFinal`). A worker that lost its
lease holds an old token, fails `SaveAccepted`, and so needs no statement about its
copy. The order of the nodes and the limit are then inductive beside it: a tick's
results put no node to work (`TickNarrows`), and what `collectReadyNodes` chose on
the holder's copy it chose on the row (`NodesStep`); that the first `limit` ready
nodes are at most `limit` follows from the ranks of the nodes being distinct
(`FirstOfBound`). In the refinement the row's status and stop reason map to the contract's
outcome and stop, the builds and deploys with an executor and those that ended to
its live and done items; a tick's internal steps are stutters.

**DeliverySystem** (the assumptions of `DeliveryRun`).

| theorem | states |
|---|---|
| `SystemInvariant` | `SystemInv`: `IInv`, work is for a task that was dispatched and is not over, only a stop cancels a run |
| `BatchOnContracts` | `SystemSpec => Spec`: a batch on contracts is a batch, so every theorem about `DeliveryRun` holds here |
| `BatchKeepsContracts` | `TaskContracts`: for every task, each step of the system is one its contract allows, or a stutter |
| `LicensedWork`, `OrderedWork` | `WorkIsLicensed`, and `WorkInOrder`: what builds or deploys now had its prerequisites settled |

A contract step of the executor of `n` is a step of `DeliveryRun` (`DispatchTask`,
`DisableProvider`, `ReportTask`, `StopTask`) or leaves the rows alone, which is what
`BatchOnContracts` and the preservation of `IInv` rest on. The other direction needs to
know what a worker does to a task: it creates it, queued, where there was none, or asks
for its stop, and it never opens a run again. `RowStep` in `DeliveryRunProofs` supplies
the last part: a save by the holder, the only one that is accepted, keeps a stop, and a
run gets the status `canceling` only with a stop recorded. `WorkIsLicensed` joins three
facts: work has a live task, a live task of a build or deploy has an active node in an
open run (`NodesAreHonest`, `FinishedRunIsIdle`), and active nodes are within the limit.
`WorkInOrder` follows from `PrerequisitesFirst` in the same way; the run's DAG has no
edge into a build, so there it would say nothing, and it is only proved.

**ExecutionTask** (`KindsAssumption`, `LimitsAssumption`).

| theorem | states |
|---|---|
| `TypeCorrect`, `Invariant` | `TypeOK`, `IInv` |
| `CompletedByItsAgent`, `FailedHasNoAgent` | `CompletedIsEarned`, `FailedIsHonest` |
| `StopConfirmed` | `StopIsConfirmed`: a Helm or batch task is terminal only when its agent has stopped (also a consequence of the contract, so no run checks it apart) |
| `BatchBundleFollows` | `BundleFollows`: the bundle of a batch's build is never anything but how its task ended |
| `AttemptsRunOnce` | the action property `AttemptRunsOnce` |
| `GuardedKindsEnd` | the action property `GuardedIsFinal` |
| `Refinement` | `ContractSpec`: an agent's Helm or batch task, with all handlers in flight, implements `TaskContract` |

A handler may write long after it read, so the row alone says nothing about the
next row. What makes its write harmless is that it is a statement about one attempt
which cannot become false: an attempt that is `Spent` (no agent works on it, and no
queue, claim or retry can hand it out) stays spent, and an agent that succeeded has
succeeded for good (`Steady`). `IInv` says that every pending write is such a
statement, that a queued or retried token is fresh, and that a claim is exclusive.
One write is exempt, the expiry of an SSH command, and there the comparison under
the lock supplies the fact. For builds `GuardedIsFinal` says nothing: run `late`.
For the refinement, the contract must not notice that a report was decided on an older
row: such a task has one attempt (`OneAttempt`), a report of an end is about an attempt
that is already `Spent`, so whenever it is written nobody works, and `StoredStatus`
turns what arrives after a stop request into what the contract allows
(`HandlerKeepsContract`, one step per handler action). `BundleFollows` is inductive
with `SyncIsTrue`: every copy in flight is of the end that the row keeps.

**DeliveryJob** (`MaxFaultsAssumption`).

| theorem | states |
|---|---|
| `TypeCorrect`, `Invariant` | `TypeOK`, `IInv` |
| `EndedQuiet`, `CompletedDidRun` | `EndedIsQuiet`, `CompletedRan` |
| `ClosedIsQuiet` | the action property `ClosedStartsNothing` |
| `Refinement` | `ContractSpec`: the Job and its controllers implement `TaskContract` |

The row leads the cluster on the way up (no Job without its stored identity) and
follows it on the way down (no terminal status before `JobIsOver`): `RowLeads`.
`JobIsOver` is stable because a Job's name is taken once, so a delayed Create
cannot replace a suspended or ended Job, and a suspension that was observed starts
nothing. `HoldsTruth` says what a controller remembers between two calls and why it
is still so.

**ExternalPipeline** (`MaxFaultsAssumption`).

| theorem | states |
|---|---|
| `TypeCorrect`, `Invariant` | `TypeOK`, `IInv` |
| `EndedQuiet`, `CompletedBuilt` | `EndedIsQuiet`, `CompletedIsBuilt` |
| `OnePost`, `Remembered` | the action properties `PostedOnce`, `NothingForgotten` |
| `Refinement` | `ContractSpec`: the pipeline and its controllers implement `TaskContract` |

The row alone does not say whether a POST may still be sent: the permission is with
one controller. `OnePermit` says it is unique and used up by the POST, `RowFollows`
that the row ends after the run it names, and `HoldsTruth` that a copy may be stale
but what it says of stops and failures (`CopyIsPast`), and what a controller saw of
the pipeline (`SeenIsTrue`), is still so when it is recorded. The contract's
`working` is that the pipeline, or a job of it, runs.

**DockerOperation** (`OpsAssumption`, `WorkersAssumption`, `LimitsAssumption`).

| theorem | states |
|---|---|
| `TypeCorrect`, `Invariant` | `TypeOK`, `IInv` |
| `OneAtATime` | `OneActive`: no two operations of a project are with runners at once (the contract's lock, so no run checks it apart) |
| `EndedQuiet`, `Honest` | `EndedIsQuiet`, `EndedIsEarned` |
| `Refinement` | `ContractSpec`: the operations of a project implement `WorkspaceContract` |

`OneActive` is kept by the second look under the project's lock. The others need
to know what a request may write after the row changed: `Writing` says that a copy
that would still be accepted ends nothing that works, `Answering` that a claim which
is being answered belongs to nobody else, and `AtWorkOwns` that commands with a token
run under the row's attempt. The refinement uses the invariant before and after a step:
one holder and no work but the holder's on both sides leaves only the contract's four
steps, as soon as a step is known to change one operation's row or commands and not both.

**CapabilityRun** (`NodesAssumption`, `PlanAssumption`, `LimitsAssumption`: steps are
numbered, the submitted plan is closed under dependencies).

| theorem | states |
|---|---|
| `TypeCorrect`, `Invariant` | `TypeOK`, `IInv` |
| `ChildrenRemembered`, `GoalVerified` | `NothingForgotten`, `CompletedIsVerified` |
| `StopStartsNothing`, `DependenciesFirst` | the action properties `StoppedStartsNothing`, `PrerequisitesFirst` |

The child changes on its own and a call's effect may precede its record, so what
relates the two has to survive both: `NodeInv` bounds a node's status by its child and
approval from one side only, and holds of the old node with the new child as well as
of the new node (`Sound`, the shape of every lemma about an attempt to advance or
cancel). `NodesSound` adds that prerequisites of a dispatched step are completed and
that a verification was recorded under the current plan; revisions keep it because
they keep unresolved steps and refuse archived verifications. `WorkerInv` says that
what a worker is about to write is true of the row, although it may have taken the
row over from another worker's stop. Both action properties follow from one fact
about steps, `Starts`: a call that takes effect was dispatched by a run that was not
stopped.

What is outside the proofs: liveness under fairness, the statements listed in the
next section, and everything marked external in `PROJECT.json`, which is assumed.

## Only model-checked

Liveness (`StopConverges`, `DispatchedEnds`, `StartedEnds`, `CancelEnds`, `StopEnds`)
and everything with `ENABLED` is out of the proof system's reach. Every other
property of a passing run is a theorem.

## Not modelled, and the plan

1. Proofs: the composition of `DeliveryRun` with `DeliveryJob` as one specification that
   implements `DeliverySystem`; an abstract specification of `CapabilityRun` (effects in
   order, none after a stop) in place of its two action properties.
2. `VirtualizationTask`: the worker pool, recovery of creates, capacity.
3. `RefreshTokens`, `SecretLease`: rotation and revocation.
4. `DagWorkflow`: the in-process application workflows and their approvals.

The repository has some 300,000 lines of Go. The modules take the parts in which
several actors write the same rows and where an order of steps decides whether work
is lost, repeated or left running. Retrieval, protocol codecs, Kubernetes client
code, CRUD services and the HTTP layer stay out: they are I/O or single statements.
