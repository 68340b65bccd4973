----------------------------- MODULE DeliveryRun -----------------------------
(***************************************************************************)
(* A delivery batch's root Run: the workflow_runs row, the pool of worker  *)
(* goroutines that claim it under a lease and advance its DAG, the         *)
(* execution tasks its nodes create, and the executors of those tasks.     *)
(*                                                                         *)
(* One row is modelled; runs share nothing.  A worker works on a copy of   *)
(* the row (its snapshot) and every database statement is one step, so     *)
(* the steps of several workers, of the user who stops the run, and of the *)
(* executors interleave between any two of them.                           *)
(*                                                                         *)
(* version and fencing_token are counters in the code.  They are only ever *)
(* compared for equality with a worker's copy, so a bumped counter is      *)
(* modelled by a token that no other worker's copy holds; any number of    *)
(* ticks is then finitely many states.                                     *)
(***************************************************************************)
EXTENDS Integers, FiniteSets, DeliveryTask

CONSTANTS
    Nodes,          \* DAG nodes, numbered in definition order
    Edges,          \* records [source, target, condition]
    Stage,          \* [Nodes -> Stages]
    Last,           \* the node that decides each target's outcome
    Workers,        \* goroutines of the workflow worker pools
    Owner,          \* [Workers -> Owners]: goroutines of one process share it
    Owners,         \* lease owners, one per process
    Tokens,         \* values of version and fencing_token
    MaxConcurrency, \* min(batch concurrency, node parallelism)
    StopOnFailure,  \* DeliveryWorkflowDefinition.StopsOnFailure
    MaxFaults       \* bound on crashes, lease losses and failed calls

Stages == {"build", "plan", "deploy", "health", "barrier"}
Conditions == {"success", "settled"}

(* Stages that create an execution task; the first two change the world.   *)
MutatingStages == {"build", "deploy"}
TaskStages == MutatingStages \cup {"plan"}

NoOwner == "none"

ASSUME NodesAssumption ==
    /\ Nodes \subseteq Nat
    /\ IsFiniteSet(Nodes)
    /\ Stage \in [Nodes -> Stages]
    /\ Edges \subseteq [source : Nodes, target : Nodes, condition : Conditions]
    /\ Last \subseteq Nodes
ASSUME OwnerAssumption == Owner \in [Workers -> Owners] /\ NoOwner \notin Owners
ASSUME BoundsAssumption ==
    /\ MaxConcurrency \in Nat
    /\ StopOnFailure \in BOOLEAN
    /\ MaxFaults \in Nat

(* A counter always has a next value that no worker's copy holds. *)
ASSUME TokensAssumption ==
    /\ Tokens # {}
    /\ \A held \in [Workers -> Tokens] :
          \E t \in Tokens : \A w \in Workers : held[w] # t

VARIABLES
    row,      \* the workflow_runs row
    tasks,    \* status of each node's execution_tasks row
    worker,   \* [Workers -> what the goroutine is doing]
    faults    \* failures so far

vars == <<row, tasks, worker, faults>>

-----------------------------------------------------------------------------
(* Types *)

NodeTerminal == {"completed", "failed", "skipped", "canceled"}
NodeActive == {"running", "waiting_execution", "waiting_approval", "canceling"}
NodeStatuses == {"pending"} \cup NodeActive \cup NodeTerminal

RunTerminal == {"completed", "partially_completed", "failed", "canceled"}
RunStatuses == RunTerminal \cup
    {"queued", "running", "waiting_execution", "waiting_approval", "canceling"}

Runs == [status : RunStatuses, stop : {"", "user", "failure"},
         version : Tokens, fencing : Tokens, owner : Owners \cup {NoOwner},
         leased : BOOLEAN, nodes : [Nodes -> NodeStatuses]]

NoTask == "none"

(* The points of runDeliveryTick at which a worker waits for the database:  *)
(* the entry check, stopFailedDeliveryRun, the selection of ready nodes,    *)
(* the execution of nodes and the final save; phase says which of           *)
(* advanceDeliveryRun's passes it is in.                                    *)
Phases == {"active", "ready", "last", "cancel"}
Activities == [pc : {"idle", "claimed", "check", "select", "execute", "finish"},
               phase : Phases, run : Runs,
               todo : SUBSET Nodes, checked : SUBSET Nodes]

TypeOK ==
    /\ row \in Runs
    /\ tasks \in [Nodes -> TaskStatuses \cup {NoTask}]
    /\ worker \in [Workers -> Activities]
    /\ faults \in 0..MaxFaults

-----------------------------------------------------------------------------
(* Helpers *)

(* version + 1 and fencing_token + 1, told apart from the copies in others. *)
NextVersion(others) == CHOOSE t \in Tokens :
    \A w \in others : worker[w].pc # "idle" => t # worker[w].run.version
BugNextFencing(others) == row.fencing   \* mutant: a claim keeps the token
NextFencing(others) == CHOOSE t \in Tokens :
    \A w \in others : worker[w].pc # "idle" => t # worker[w].run.fencing

(* activeDeliveryNodes *)
Active(nodes) == {n \in Nodes : nodes[n] \in NodeActive}

(* sameDeliveryLease *)
SameLease(expected, actual) ==
    /\ expected.version = actual.version
    /\ expected.fencing = actual.fencing
    /\ expected.owner # NoOwner
    /\ expected.owner = actual.owner

(* deliveryNodeReadiness over the edges into n. *)
Incoming(n) == {e \in Edges : e.target = n}
BugBlocked(n, nodes) == \E e \in Incoming(n) :   \* mutant: a failed node does not block
    e.condition # "settled" /\ nodes[e.source] \in {"skipped", "canceled"}
Settled(n, nodes) == \A e \in Incoming(n) : nodes[e.source] \in NodeTerminal
Blocked(n, nodes) == \E e \in Incoming(n) :
    e.condition # "settled" /\ nodes[e.source] # "completed"

(* What collectReadyNodes sees when it reaches n: it walks the nodes in      *)
(* definition order and a node skipped earlier in the walk already counts.   *)
SeenAt(n, skipped, nodes) ==
    [m \in Nodes |-> IF m \in skipped /\ m < n THEN "skipped" ELSE nodes[m]]

(* The nodes one walk of collectReadyNodes skips, and those it finds ready.  *)
IsSkipped(skipped, nodes) == \A n \in Nodes :
    n \in skipped <=> /\ nodes[n] = "pending"
                      /\ Settled(n, SeenAt(n, skipped, nodes))
                      /\ Blocked(n, SeenAt(n, skipped, nodes))
Ready(skipped, nodes) == {n \in Nodes \ skipped :
    /\ nodes[n] = "pending"
    /\ Settled(n, SeenAt(n, skipped, nodes))}

BugFree(nodes) == MaxConcurrency

(* The concurrency limit of advanceDeliveryRun. *)
Free(nodes) == MaxConcurrency - Cardinality(Active(nodes))

(* ready[:limit]: the first ones in definition order. *)
FirstOf(ready, limit) ==
    {n \in ready : Cardinality({m \in ready : m < n}) < limit}

BugRunStatus(run) ==
    CASE run.stop = "failure" -> "failed"
      [] run.stop = "user" -> "canceled"
      [] OTHER -> "waiting_execution"

(* deliveryRunStatus *)
RunStatus(run) ==
    LET nodes == run.nodes
        completed == {n \in Last : nodes[n] = "completed"}
    IN  CASE run.stop # "" /\ Active(nodes) # {} -> "canceling"
          [] run.stop = "failure" /\ Active(nodes) = {} -> "failed"
          [] run.stop = "user" /\ Active(nodes) = {} -> "canceled"
          [] run.stop = "" /\ \E n \in Active(nodes) : nodes[n] = "waiting_approval"
                -> "waiting_approval"
          [] run.stop = "" /\ Active(nodes) # {}
                /\ ~ \E n \in Active(nodes) : nodes[n] = "waiting_approval"
                -> "waiting_execution"
          [] run.stop = "" /\ Active(nodes) = {}
                /\ \E n \in Nodes : nodes[n] \notin NodeTerminal -> "running"
          [] OTHER -> IF completed = Last THEN "completed"
                      ELSE IF completed # {} THEN "partially_completed" ELSE "failed"

-----------------------------------------------------------------------------
(* The database statements *)

NoToken == CHOOSE t \in Tokens : TRUE

NewRun == [status |-> "queued", stop |-> "", version |-> NoToken,
           fencing |-> NoToken, owner |-> NoOwner, leased |-> FALSE,
           nodes |-> [n \in Nodes |-> "pending"]]

Idle == [pc |-> "idle", phase |-> "active", run |-> NewRun,
         todo |-> {}, checked |-> {}]

BugSaveAccepted(run) == row.owner = run.owner /\ row.leased

(* The WHERE clause of SaveManagedRun. *)
SaveAccepted(run) ==
    /\ row.version = run.version
    /\ row.fencing = run.fencing
    /\ row.owner = run.owner
    /\ row.leased

Saved(w, run, release) ==
    [row EXCEPT !.status = run.status, !.nodes = run.nodes,
                !.version = NextVersion(Workers \ {w}),
                !.owner = IF release THEN NoOwner ELSE @,
                !.leased = IF release THEN FALSE ELSE @]

(* persistDeliveryRun: a refused save ends the tick, and the lease is left   *)
(* to expire.                                                                *)
Persist(w, run, release, next) ==
    IF SaveAccepted(run)
    THEN /\ row' = Saved(w, run, release)
         /\ worker' = [worker EXCEPT ![w] = [next EXCEPT !.run = Saved(w, run, release)]]
    ELSE /\ row' = row
         /\ worker' = [worker EXCEPT ![w] = Idle]

BugStopManagedRun(reason) ==
    IF row.stop = "" /\ row.status \notin RunTerminal
    THEN [row EXCEPT !.stop = reason, !.status = "canceling"]
    ELSE row

(* StopManagedRun: the first cause stays, a terminal run is left alone. *)
StopManagedRun(reason) ==
    IF row.stop = "" /\ row.status \notin RunTerminal
    THEN [row EXCEPT !.stop = reason, !.status = "canceling", !.version = NextVersion(Workers)]
    ELSE row

(* LockDeliveryNode: held while a node's task is inserted. *)
LockDeliveryNode(run, n) ==
    /\ SameLease(run, row)
    /\ row.leased
    /\ row.stop = ""
    /\ row.status \notin RunTerminal \cup {"canceling"}
    /\ row.nodes[n] \in {"running", "waiting_execution", "waiting_approval"}

BugLockDeliveryDispatch == row.status \notin RunTerminal

(* LockDeliveryDispatch: held while an executor takes a task. *)
LockDeliveryDispatch ==
    /\ row.stop = ""
    /\ row.status \notin RunTerminal \cup {"canceling"}

-----------------------------------------------------------------------------
Init ==
    /\ row = NewRun
    /\ tasks = [n \in Nodes |-> NoTask]
    /\ worker = [w \in Workers |-> Idle]
    /\ faults = 0

-----------------------------------------------------------------------------
(* Worker pool: claimDeliveryRun and runDeliveryTick *)

Claimed(w) ==
    [row EXCEPT !.owner = Owner[w], !.leased = TRUE,
                !.version = NextVersion(Workers), !.fencing = NextFencing(Workers)]

BugClaimManagedRun(w) ==
    /\ worker[w].pc = "idle"
    /\ row.status \notin RunTerminal \cup {"canceling"}
    /\ ~ row.leased
    /\ row' = Claimed(w)
    /\ worker' = [worker EXCEPT ![w] = [Idle EXCEPT !.pc = "claimed", !.run = Claimed(w)]]
    /\ UNCHANGED <<tasks, faults>>

ClaimManagedRun(w) ==
    /\ worker[w].pc = "idle"
    /\ row.status \notin RunTerminal
    /\ ~ row.leased
    /\ row' = Claimed(w)
    /\ worker' = [worker EXCEPT ![w] = [Idle EXCEPT !.pc = "claimed", !.run = Claimed(w)]]
    /\ UNCHANGED <<tasks, faults>>

BeginTick(w) ==
    /\ worker[w].pc = "claimed"
    /\ worker' = [worker EXCEPT ![w] =
                     IF SameLease(worker[w].run, row) THEN [@ EXCEPT !.pc = "check"] ELSE Idle]
    /\ UNCHANGED <<row, tasks, faults>>

(* What advanceDeliveryRun does once stopFailedDeliveryRun has returned:      *)
(* cancelDeliveryNodes if the run is stopped, else the pass it was about to   *)
(* make.                                                                      *)
CancelPending(run) ==
    [run EXCEPT !.nodes = [n \in Nodes |-> IF @[n] = "pending" THEN "canceled" ELSE @[n]]]

AfterCheck(activity, run) ==
    LET todo == Active(run.nodes)
        execute == [activity EXCEPT !.pc = "execute", !.run = run, !.todo = todo]
    IN  CASE run.stop # "" /\ todo # {} ->
                [execute EXCEPT !.phase = "cancel", !.run = CancelPending(run)]
          [] run.stop # "" /\ todo = {} ->
                [activity EXCEPT !.pc = "finish", !.run = CancelPending(run)]
          [] run.stop = "" /\ activity.phase = "active" /\ todo # {} -> execute
          [] run.stop = "" /\ activity.phase = "active" /\ todo = {} ->
                [activity EXCEPT !.phase = "ready", !.run = run]
          [] run.stop = "" /\ activity.phase = "ready" ->
                [activity EXCEPT !.pc = "select", !.run = run]
          [] OTHER -> [activity EXCEPT !.pc = "finish", !.run = run]

FailureStops(run) ==
    /\ StopOnFailure
    /\ run.stop = ""
    /\ \E n \in Nodes : run.nodes[n] = "failed"

(* stopFailedDeliveryRun: the stopped row replaces the snapshot only if it is *)
(* still this worker's.                                                       *)
AdoptStopped(activity, stopped) ==
    IF stopped.fencing = activity.run.fencing /\ stopped.owner = activity.run.owner
    THEN AfterCheck(activity, [stopped EXCEPT !.nodes = activity.run.nodes])
    ELSE Idle

CheckFailed(w) ==
    /\ worker[w].pc = "check"
    /\ IF FailureStops(worker[w].run)
       THEN /\ row' = StopManagedRun("failure")
            /\ worker' = [worker EXCEPT ![w] = AdoptStopped(@, StopManagedRun("failure"))]
       ELSE /\ row' = row
            /\ worker' = [worker EXCEPT ![w] = AfterCheck(@, @.run)]
    /\ UNCHANGED <<tasks, faults>>

(* collectReadyNodes, the concurrency limit, markNodesRunning and its save. *)
SelectReady(w) ==
    /\ worker[w].pc = "select"
    /\ \E skipped \in SUBSET Nodes :
        LET run == worker[w].run
            chosen == FirstOf(Ready(skipped, run.nodes), Free(run.nodes))
            marked == [run EXCEPT !.nodes = [n \in Nodes |->
                         IF n \in skipped THEN "skipped"
                         ELSE IF n \in chosen THEN "running" ELSE @[n]]]
        IN  /\ IsSkipped(skipped, run.nodes)
            /\ IF chosen = {}
               THEN /\ row' = row
                    /\ worker' = [worker EXCEPT ![w].pc = "finish", ![w].run = marked]
               ELSE Persist(w, marked, FALSE,
                            [worker[w] EXCEPT !.pc = "execute", !.todo = chosen])
    /\ UNCHANGED <<tasks, faults>>

-----------------------------------------------------------------------------
(* Nodes: executeDeliveryNodes runs the nodes in todo side by side.  Each    *)
(* first re-reads the run (reconcileDeliveryNode) and then acts.             *)

Executing(w, n) == worker[w].pc = "execute" /\ n \in worker[w].todo

(* The node's result is kept in the snapshot, or its error drops it. *)
NodeResult(w, n, status) ==
    worker' = [worker EXCEPT ![w].run.nodes[n] = status,
                             ![w].todo = @ \ {n}, ![w].checked = @ \ {n}]
NodeDropped(w, n) ==
    worker' = [worker EXCEPT ![w].todo = @ \ {n}, ![w].checked = @ \ {n}]

CheckNode(w, n) ==
    /\ Executing(w, n)
    /\ n \notin worker[w].checked
    /\ IF ~ SameLease(worker[w].run, row) THEN NodeDropped(w, n)
       ELSE IF Stage[n] = "barrier" THEN NodeResult(w, n, "completed")
       ELSE worker' = [worker EXCEPT ![w].checked = @ \cup {n}]
    /\ UNCHANGED <<row, tasks, faults>>

Stopping(w, n) == worker[w].run.stop # "" \/ worker[w].run.nodes[n] = "canceling"

Working(w, n) ==
    /\ Executing(w, n)
    /\ n \in worker[w].checked
    /\ ~ Stopping(w, n)

(* createDeliveryTask; a refused lock is an error the next tick retries. *)
CreateTask(w, n) ==
    /\ Working(w, n)
    /\ Stage[n] \in TaskStages
    /\ tasks[n] = NoTask
    /\ IF LockDeliveryNode(worker[w].run, n)
       THEN tasks' = [tasks EXCEPT ![n] = "queued"] /\ worker' = worker
       ELSE NodeDropped(w, n) /\ tasks' = tasks
    /\ UNCHANGED <<row, faults>>

(* projectBatchTask *)
Projected(status) ==
    CASE status = "completed" -> "completed"
      [] status \in {"failed", "callback_timeout"} -> "failed"
      [] status \in {"canceled", "canceling"} -> status
      [] OTHER -> "waiting_execution"

(* A finished preflight still has to be valid and approved, and a finished    *)
(* build must have left a verified image.                                     *)
TaskOutcomes(n) ==
    LET status == tasks[n]
    IN  CASE Stage[n] = "plan" /\ status = "completed" ->
                {"completed", "waiting_approval", "failed"}
          [] Stage[n] = "build" /\ status = "completed" -> {"completed", "failed"}
          [] OTHER -> {Projected(status)}

ObserveTask(w, n) ==
    /\ Working(w, n)
    /\ Stage[n] \in TaskStages
    /\ tasks[n] # NoTask
    /\ \E status \in TaskOutcomes(n) : NodeResult(w, n, status)
    /\ UNCHANGED <<row, tasks, faults>>

(* observeBatchHealth, with its own deadline. *)
ObserveHealth(w, n) ==
    /\ Working(w, n)
    /\ Stage[n] = "health"
    /\ \E status \in {"waiting_execution", "completed", "failed"} : NodeResult(w, n, status)
    /\ UNCHANGED <<row, tasks, faults>>

(* ExecuteDeliveryStage turns invalid configuration into a failed node; a    *)
(* build or deploy whose task exists is projected instead.                   *)
RejectStage(w, n) ==
    /\ Working(w, n)
    /\ \/ Stage[n] = "plan"
       \/ Stage[n] \in MutatingStages /\ tasks[n] = NoTask
    /\ NodeResult(w, n, "failed")
    /\ UNCHANGED <<row, tasks, faults>>

(* CancelDeliveryStage *)
Unstoppable(n) == Stage[n] = "plan" /\ tasks[n] = "completed"
BugCancelStage(n) == IF tasks[n] = NoTask THEN NoTask ELSE "canceled"   \* mutant: no confirmation
CancelStage(n) ==
    IF tasks[n] = NoTask \/ Unstoppable(n) THEN tasks[n]
    ELSE RequestStop(tasks[n])
BugCanceledAs(n) == "canceled"
CanceledAs(n) ==
    IF tasks[n] = NoTask \/ Unstoppable(n) THEN "canceled"
    ELSE Projected(RequestStop(tasks[n]))

(* cancelDeliveryNode, for a stopped run, a node already canceling, or an     *)
(* actor who may no longer deliver this target.                               *)
CancelNode(w, n) ==
    /\ Executing(w, n)
    /\ n \in worker[w].checked
    /\ tasks' = [tasks EXCEPT ![n] = CancelStage(n)]
    /\ NodeResult(w, n, IF CanceledAs(n) \notin NodeTerminal THEN "canceling"
                        ELSE IF CanceledAs(n) = "canceled" /\ worker[w].run.stop = "" THEN "failed"
                        ELSE CanceledAs(n))
    /\ UNCHANGED <<row, faults>>

(* A read of the provider, the actor or the task failed: the node keeps its   *)
(* old state until the next tick.                                             *)
NodeError(w, n) ==
    /\ Executing(w, n)
    /\ n \in worker[w].checked
    /\ faults < MaxFaults
    /\ faults' = faults + 1
    /\ NodeDropped(w, n)
    /\ UNCHANGED <<row, tasks>>

NextPass(activity) ==
    CASE activity.phase = "active" -> [activity EXCEPT !.pc = "check", !.phase = "ready"]
      [] activity.phase = "ready" -> [activity EXCEPT !.pc = "check", !.phase = "last"]
      [] OTHER -> [activity EXCEPT !.pc = "finish"]

SaveResults(w) ==
    /\ worker[w].pc = "execute"
    /\ worker[w].todo = {}
    /\ Persist(w, worker[w].run, FALSE, NextPass(worker[w]))
    /\ UNCHANGED <<tasks, faults>>

FinishTick(w) ==
    /\ worker[w].pc = "finish"
    /\ LET run == [worker[w].run EXCEPT !.status = RunStatus(worker[w].run)]
       IN  IF SaveAccepted(run) THEN row' = Saved(w, run, TRUE) ELSE row' = row
    /\ worker' = [worker EXCEPT ![w] = Idle]
    /\ UNCHANGED <<tasks, faults>>

(* The process dies, or the tick's context ends: nothing is released. *)
AbandonTick(w) ==
    /\ worker[w].pc # "idle"
    /\ faults < MaxFaults
    /\ faults' = faults + 1
    /\ worker' = [worker EXCEPT ![w] = Idle]
    /\ UNCHANGED <<row, tasks>>

-----------------------------------------------------------------------------
(* Everything else *)

(* The lease runs out: under a worker that is too slow (a fault), or after    *)
(* its worker is gone.                                                        *)
LeaseHeld == \E w \in Workers :
    worker[w].pc # "idle" /\ worker[w].run.fencing = row.fencing

ExpireLease ==
    /\ row.leased
    /\ LeaseHeld => faults < MaxFaults
    /\ faults' = IF LeaseHeld THEN faults + 1 ELSE faults
    /\ row' = [row EXCEPT !.leased = FALSE]
    /\ UNCHANGED <<tasks, worker>>

(* CancelDeliveryBatch *)
UserStop ==
    /\ row.stop = ""
    /\ row.status \notin RunTerminal
    /\ row' = StopManagedRun("user")
    /\ UNCHANGED <<tasks, worker, faults>>

(* ClaimExecutionTask, PrepareDeliveryJob or BeginExternalPipelineDispatch. *)
DispatchTask(n) ==
    /\ tasks[n] = "queued"
    /\ LockDeliveryDispatch
    /\ tasks' = [tasks EXCEPT ![n] = "dispatching"]
    /\ UNCHANGED <<row, worker, faults>>

(* markTaskProviderDisabled *)
DisableProvider(n) ==
    /\ tasks[n] = "queued"
    /\ tasks' = [tasks EXCEPT ![n] = "failed"]
    /\ UNCHANGED <<row, worker, faults>>

(* RecordCallback and the reconcilers, through updateDeliveryTask. *)
ReportTask(n, status) ==
    /\ tasks[n] \in TaskLive
    /\ StoredStatus(tasks[n], status) # tasks[n]
    /\ tasks' = [tasks EXCEPT ![n] = StoredStatus(@, status)]
    /\ UNCHANGED <<row, worker, faults>>

(* CancelExecutionTask on the task itself, or a timeout found by the monitor. *)
StopTask(n) ==
    /\ tasks[n] \in {"queued", "dispatching", "running"}
    /\ tasks' = [tasks EXCEPT ![n] = RequestStop(@)]
    /\ UNCHANGED <<row, worker, faults>>

-----------------------------------------------------------------------------
NodeStep(w, n) ==
    \/ CheckNode(w, n)
    \/ CreateTask(w, n)
    \/ ObserveTask(w, n)
    \/ ObserveHealth(w, n)
    \/ RejectStage(w, n)
    \/ CancelNode(w, n)
    \/ NodeError(w, n)

WorkerStep(w) ==
    \/ ClaimManagedRun(w)
    \/ BeginTick(w)
    \/ CheckFailed(w)
    \/ SelectReady(w)
    \/ \E n \in Nodes : NodeStep(w, n)
    \/ SaveResults(w)
    \/ FinishTick(w)

ExecutorStep(n) ==
    \/ DispatchTask(n)
    \/ DisableProvider(n)
    \/ \E status \in TaskReports : ReportTask(n, status)
    \/ StopTask(n)

Next ==
    \/ \E w \in Workers : WorkerStep(w) \/ AbandonTick(w)
    \/ ExpireLease
    \/ UserStop
    \/ \E n \in Nodes : ExecutorStep(n)

Spec == Init /\ [][Next]_vars

(* Worker goroutines poll every second and run their ticks; a dead worker's   *)
(* lease runs out; an executor that was asked to stop ends in some final      *)
(* status.  Nothing is assumed of users, approvals or healthy executors.      *)
ConfirmStop(n) == tasks[n] = "canceling" /\ ReportTask(n, "canceled")

Fairness ==
    /\ \A w \in Workers : WF_vars(WorkerStep(w))
    /\ WF_vars(ExpireLease)
    /\ \A n \in Nodes : WF_vars(ConfirmStop(n))

FairSpec == Spec /\ Fairness

-----------------------------------------------------------------------------
(* Correctness *)

Mutating == {n \in Nodes : Stage[n] \in MutatingStages}
AtWork == TaskLive \cup {"queued"}

(* A batch that has ended, for whatever reason, left no build or deploy       *)
(* queued or with an executor: deliveryRunStatus reports "canceling" until    *)
(* the last executor has confirmed, and no worker creates a task afterwards.  *)
FinishedRunIsIdle ==
    row.status \in RunTerminal => \A n \in Mutating : tasks[n] \notin AtWork

(* What the row says of a build or deploy node is what its executor did: a    *)
(* settled node has no task at work, a completed one a completed task, a      *)
(* skipped or not yet started one no task at all.                             *)
NodesAreHonest == \A n \in Mutating :
    /\ row.nodes[n] \in NodeTerminal => tasks[n] \notin AtWork
    /\ row.nodes[n] = "completed" => tasks[n] = "completed"
    /\ row.nodes[n] \in {"pending", "skipped"} => tasks[n] = NoTask

(* A node starts only after every node it needs has completed, and those it   *)
(* merely follows have settled (deliveryNodeReadiness), although workers      *)
(* decide on copies of the row; and it stays so.                              *)
Started(n) ==
    row.nodes[n] \in NodeActive \cup {"completed", "failed"} \/ tasks[n] # NoTask
PrerequisitesFirst == \A e \in Edges : Started(e.target) =>
    /\ row.nodes[e.source] \in NodeTerminal
    /\ e.condition = "success" => row.nodes[e.source] = "completed"

(* Restarts and lost leases never put more nodes to work than the batch       *)
(* allows (advanceDeliveryRun's limit).                                       *)
WithinConcurrency == Cardinality(Active(row.nodes)) <= MaxConcurrency

(* The lease fences: at most one worker's copy passes sameDeliveryLease, and  *)
(* that copy has everything the row says.                                     *)
Current(w) == worker[w].pc # "idle" /\ SameLease(worker[w].run, row)

CurrentCopyIsFaithful == \A w \in Workers : Current(w) =>
    /\ \A v \in Workers : Current(v) => v = w
    /\ worker[w].run.stop = row.stop
    /\ worker[w].run.status = row.status
    /\ \A n \in Nodes : row.nodes[n] \in NodeTerminal =>
          worker[w].run.nodes[n] = row.nodes[n]

(* A settled node keeps its status and a finished run is never written again, *)
(* whatever a worker with an old copy tries to save.                          *)
SettlesOnce == [][
    /\ \A n \in Nodes : row.nodes[n] \in NodeTerminal => row'.nodes[n] = row.nodes[n]
    /\ row.status \in RunTerminal => row' = row]_vars

(* A batch that was stopped ends, however its workers crash (a bounded number *)
(* of times) and executors delay their confirmation.                          *)
StopConverges == row.stop # "" ~> row.status \in RunTerminal

(* The batch implements DeliveryContract. *)
Contract == INSTANCE DeliveryContract WITH
    Items <- Mutating,
    outcome <- IF row.status \in RunTerminal THEN row.status ELSE "open",
    stop <- row.stop,
    live <- {n \in Mutating : tasks[n] \in TaskLive},
    done <- {n \in Mutating : tasks[n] \in TaskTerminal}

ContractSpec == Contract!Spec

-----------------------------------------------------------------------------
(* The inductive invariant behind these properties.  The worker whose fencing *)
(* token is the row's (the holder) is the only one that can save.             *)

Holder(w) == worker[w].pc # "idle" /\ worker[w].run.fencing = row.fencing

(* No two workers at work have the same fencing token. *)
FencesApart == \A v, w \in Workers :
    v # w /\ worker[v].pc # "idle" /\ worker[w].pc # "idle" =>
        worker[v].run.fencing # worker[w].run.fencing

(* The holder owns the lease, and while its version is the row's nobody has   *)
(* stopped the run behind its back.                                           *)
HolderOwns(w) ==
    /\ worker[w].run.status \notin RunTerminal
    /\ Holder(w) =>
        /\ row.owner = worker[w].run.owner
        /\ row.owner # NoOwner
        /\ worker[w].run.version = row.version =>
              worker[w].run.stop = row.stop /\ worker[w].run.status = row.status

(* The holder's copy differs from the row only in what this tick did. *)
Changed(w, n) ==
    \/ row.nodes[n] = "pending" /\ worker[w].run.nodes[n] \in {"skipped", "canceled"}
    \/ /\ row.nodes[n] \in NodeActive
       /\ n \notin worker[w].todo
       /\ worker[w].run.nodes[n] \notin {"pending", "skipped"}

HolderCopy(w) == Holder(w) =>
    /\ worker[w].pc \in {"claimed", "check", "select"} => worker[w].run.nodes = row.nodes
    /\ worker[w].pc = "execute" => worker[w].todo \subseteq Active(row.nodes)
    /\ \A n \in Nodes : worker[w].run.nodes[n] # row.nodes[n] => Changed(w, n)
    /\ \A n \in Mutating :
          /\ worker[w].run.nodes[n] \in NodeTerminal => tasks[n] \notin AtWork
          /\ worker[w].run.nodes[n] = "completed" => tasks[n] = "completed"

(* A worker that gives up a stopped run has left no node to start. *)
NothingPending(nodes) == \A n \in Nodes : nodes[n] # "pending"

StopIsThorough(w) ==
    /\ worker[w].pc = "execute" => worker[w].phase # "last"
    /\ worker[w].pc = "select" => worker[w].run.stop = "" /\ worker[w].phase = "ready"
    /\ \/ worker[w].pc = "execute" /\ worker[w].phase = "cancel"
       \/ worker[w].pc = "finish" /\ worker[w].run.stop # ""
       => NothingPending(worker[w].run.nodes)

(* A finished run is nobody's, and all of its nodes are settled. *)
EndIsFinal == row.status \in RunTerminal =>
    /\ row.owner = NoOwner /\ ~ row.leased
    /\ \A n \in Nodes : row.nodes[n] \in NodeTerminal

(* Together: what every statement of every worker, user and executor leaves   *)
(* true, and from which the properties above follow.                          *)
IInv ==
    /\ TypeOK
    /\ NodesAreHonest
    /\ FencesApart
    /\ \A w \in Workers : HolderOwns(w) /\ HolderCopy(w) /\ StopIsThorough(w)
    /\ EndIsFinal
=============================================================================
