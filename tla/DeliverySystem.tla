--------------------------- MODULE DeliverySystem ---------------------------
(***************************************************************************)
(* A delivery batch and the executors of its tasks.  The batch is           *)
(* DeliveryRun; an executor is anything that keeps TaskContract, as Jobs     *)
(* (DeliveryJob), pipelines (ExternalPipeline) and agents (ExecutionTask)    *)
(* do.  What DeliveryRun says about the rows of the tasks becomes here what  *)
(* is going on in the clusters and on the runners.                           *)
(***************************************************************************)
EXTENDS DeliveryRun

VARIABLE working   \* [Nodes -> an executor works for the node's task]

systemVars == <<row, tasks, worker, faults, working>>

(* The executor of node n: the row of its task, the lock that a dispatch     *)
(* takes on the run, and its work.                                           *)
Executor(n) == INSTANCE TaskContract WITH
    status <- IF tasks[n] = NoTask THEN "queued" ELSE tasks[n],
    open <- LockDeliveryDispatch,
    working <- working[n]

-----------------------------------------------------------------------------
SystemInit == Init /\ working = [n \in Nodes |-> FALSE]

(* The worker pool, the lease and the user; executors go on meanwhile. *)
BatchStep ==
    /\ \/ \E w \in Workers : WorkerStep(w) \/ AbandonTick(w)
       \/ ExpireLease
       \/ UserStop
    /\ UNCHANGED working

(* Whatever an executor's contract lets it do to its own task. *)
TaskStep(n) ==
    /\ tasks[n] # NoTask
    /\ UNCHANGED <<row, worker, faults>>
    /\ \E status \in TaskStatuses, atWork \in BOOLEAN :
          /\ tasks' = [tasks EXCEPT ![n] = status]
          /\ working' = [working EXCEPT ![n] = atWork]
    /\ Executor(n)!TaskStep

SystemNext == BatchStep \/ \E n \in Nodes : TaskStep(n)

SystemSpec == SystemInit /\ [][SystemNext]_systemVars

-----------------------------------------------------------------------------
(* Correctness *)

WorkingNodes == {n \in Mutating : working[n]}

(* Whatever is building or deploying now, wherever it runs, the batch that    *)
(* started it still is open, waits for it, and counts it within its limit:    *)
(* when a batch says that it ended, nothing of it goes on.  (deliveryRunStatus *)
(* with the executors' stop confirmation, advanceDeliveryRun's limit.)         *)
WorkIsLicensed ==
    /\ \A n \in WorkingNodes : row.nodes[n] \in NodeActive /\ row.status \notin RunTerminal
    /\ Cardinality(WorkingNodes) <= MaxConcurrency

(* What is building or deploying now had its prerequisites done before.       *)
(* (deliveryNodeReadiness)                                                    *)
WorkInOrder == \A e \in Edges : e.target \in WorkingNodes =>
    /\ row.nodes[e.source] \in NodeTerminal
    /\ e.condition = "success" => row.nodes[e.source] = "completed"

(* The batch keeps the contract of every task too: it never creates a task    *)
(* twice, asks for a stop instead of writing one, and a run that is closed to  *)
(* dispatch stays closed.  (createDeliveryTask, CancelDeliveryStage,           *)
(* StopManagedRun, LockDeliveryDispatch.)                                      *)
TaskContracts ==
    /\ \A n \in Nodes : Executor(n)!Init
    /\ [][\A n \in Nodes : [Executor(n)!Next]_(Executor(n)!vars)]_systemVars

-----------------------------------------------------------------------------
(* What these properties need besides the batch's own invariant: work is for   *)
(* a task that was dispatched and is not over, and only a stop cancels a run.  *)
WorkIsDispatched ==
    /\ working \in [Nodes -> BOOLEAN]
    /\ \A n \in Nodes : working[n] => tasks[n] \in TaskLive

CancelingIsStopped == row.status = "canceling" => row.stop # ""

SystemInv == IInv /\ WorkIsDispatched /\ CancelingIsStopped
=============================================================================
