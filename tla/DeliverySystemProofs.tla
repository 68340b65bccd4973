------------------------ MODULE DeliverySystemProofs ------------------------
(* A batch and its executors, for every DAG, worker pool and executor that    *)
(* keeps the contract.                                                        *)
EXTENDS DeliverySystem, DeliveryRunProofs

-----------------------------------------------------------------------------
(* What an executor's step is to the batch *)

(* The contract's step on the task of n, in terms of the batch's variables. *)
LEMMA TaskStepFacts ==
    ASSUME IInv, WorkIsDispatched, NEW n \in Nodes, TaskStep(n)
    PROVE  /\ row' = row /\ worker' = worker /\ faults' = faults
           /\ tasks[n] # NoTask /\ tasks' = [tasks EXCEPT ![n] = tasks'[n]]
           /\ tasks'[n] \in TaskStatuses
           /\ working' = [working EXCEPT ![n] = working'[n]] /\ working'[n] \in BOOLEAN
           /\ \/ tasks[n] = "queued" /\ LockDeliveryDispatch /\ tasks'[n] = "dispatching"
                 /\ working'[n] = working[n]
              \/ tasks[n] = "queued" /\ tasks'[n] = "failed" /\ working'[n] = working[n]
              \/ tasks'[n] = RequestStop(tasks[n]) /\ working'[n] = working[n]
              \/ tasks[n] \in TaskLive /\ tasks'[n] = tasks[n]
              \/ ~working'[n] /\ tasks'[n] = tasks[n]
              \/ /\ tasks[n] \in TaskLive /\ working'[n] = working[n]
                 /\ \E result \in TaskReports :
                       /\ result \in TaskTerminal => ~working[n]
                       /\ tasks'[n] = StoredStatus(tasks[n], result)
<1>1. /\ row' = row /\ worker' = worker /\ faults' = faults /\ tasks[n] # NoTask
      /\ Executor(n)!TaskStep
  BY DEF TaskStep
<1>2. PICK status \in TaskStatuses, atWork \in BOOLEAN :
        tasks' = [tasks EXCEPT ![n] = status] /\ working' = [working EXCEPT ![n] = atWork]
  BY DEF TaskStep
<1>3. tasks'[n] = status /\ working'[n] = atWork /\ status # NoTask
  BY <1>2 DEF IInv, TypeOK, WorkIsDispatched, TaskStatuses, NoTask
<1>4. CASE Executor(n)!Dispatch
  BY <1>1, <1>2, <1>3, <1>4 DEF Executor!Dispatch
<1>5. CASE Executor(n)!Disable
  BY <1>1, <1>2, <1>3, <1>5 DEF Executor!Disable
<1>6. CASE Executor(n)!Stop
  BY <1>1, <1>2, <1>3, <1>6 DEF Executor!Stop, Executor!RequestStop, RequestStop
<1>7. CASE Executor(n)!StartWork
  BY <1>1, <1>2, <1>3, <1>7 DEF Executor!StartWork, Executor!TaskLive, TaskLive
<1>8. CASE Executor(n)!EndWork
  BY <1>1, <1>2, <1>3, <1>8 DEF Executor!EndWork
<1>9. ASSUME NEW result \in TaskReports,
             Executor(n)!Report(result)
      PROVE  /\ tasks[n] \in TaskLive /\ working'[n] = working[n]
             /\ result \in TaskTerminal => ~working[n]
             /\ tasks'[n] = StoredStatus(tasks[n], result)
  BY <1>1, <1>2, <1>3, <1>9
  DEF Executor!Report, Executor!TaskLive, TaskLive, Executor!TaskTerminal, TaskTerminal,
      Executor!StoredStatus, StoredStatus
<1>10. \/ Executor(n)!Dispatch \/ Executor(n)!Disable \/ Executor(n)!Stop
       \/ Executor(n)!StartWork \/ Executor(n)!EndWork
       \/ \E result \in TaskReports : Executor(n)!Report(result)
  BY <1>1 DEF Executor!TaskStep, Executor!TaskReports, TaskReports, Executor!TaskTerminal, TaskTerminal
<1> QED BY <1>1, <1>2, <1>3, <1>4, <1>5, <1>6, <1>7, <1>8, <1>9, <1>10

(* It is a step of the batch's own executors, or none. *)
LEMMA TaskStepIsExecutorStep ==
    ASSUME IInv, WorkIsDispatched, NEW n \in Nodes, TaskStep(n)
    PROVE  [Next]_vars
<1>0. /\ tasks \in [Nodes -> TaskStatuses \cup {NoTask}]
      /\ row' = row /\ worker' = worker /\ faults' = faults
      /\ tasks[n] # NoTask /\ tasks' = [tasks EXCEPT ![n] = tasks'[n]]
  BY TaskStepFacts DEF IInv, TypeOK
<1>1. CASE tasks'[n] = tasks[n]
  BY <1>0, <1>1 DEF vars
<1>2. CASE tasks'[n] # tasks[n]
  <2>1. CASE tasks[n] = "queued" /\ LockDeliveryDispatch /\ tasks'[n] = "dispatching"
    <3>1. DispatchTask(n)
      BY <1>0, <2>1 DEF DispatchTask
    <3> QED BY <3>1 DEF Next, ExecutorStep
  <2>2. CASE tasks[n] = "queued" /\ tasks'[n] = "failed"
    <3>1. DisableProvider(n)
      BY <1>0, <2>2 DEF DisableProvider
    <3> QED BY <3>1 DEF Next, ExecutorStep
  <2>3. CASE tasks'[n] = RequestStop(tasks[n])
    <3>1. tasks[n] \in {"queued", "dispatching", "running"}
      BY <1>2, <2>3 DEF RequestStop
    <3>2. StopTask(n)
      BY <1>0, <2>3, <3>1 DEF StopTask
    <3> QED BY <3>2 DEF Next, ExecutorStep
  <2>4. ASSUME tasks[n] \in TaskLive,
               NEW result \in TaskReports,
               tasks'[n] = StoredStatus(tasks[n], result)
        PROVE  Next
    <3>1. ReportTask(n, result)
      BY <1>0, <1>2, <2>4 DEF ReportTask
    <3> QED BY <3>1 DEF Next, ExecutorStep
  <2> QED BY <1>2, <2>1, <2>2, <2>3, <2>4, TaskStepFacts
<1> QED BY <1>1, <1>2

LEMMA SystemStepIsBatchStep ==
    ASSUME IInv, WorkIsDispatched, [SystemNext]_systemVars
    PROVE  [Next]_vars
<1>1. CASE BatchStep
  BY <1>1 DEF BatchStep, Next
<1>2. CASE \E n \in Nodes : TaskStep(n)
  BY <1>2, TaskStepIsExecutorStep
<1>3. CASE UNCHANGED systemVars
  BY <1>3 DEF systemVars, vars
<1> QED BY <1>1, <1>2, <1>3 DEF SystemNext

-----------------------------------------------------------------------------
(* What the batch does to a task *)

(* It creates one where there was none, or asks for its stop; and it does not  *)
(* write the run in the same step.                                             *)
LEMMA BatchTouchesTask ==
    ASSUME IInv, BatchStep, NEW n \in Nodes
    PROVE  /\ \/ tasks'[n] = tasks[n]
              \/ tasks[n] = NoTask /\ tasks'[n] = "queued"
              \/ tasks[n] # NoTask /\ tasks'[n] = RequestStop(tasks[n])
           /\ tasks' = tasks \/ row' = row
           /\ working' = working
<1>0. tasks \in [Nodes -> TaskStatuses \cup {NoTask}] /\ working' = working
  BY DEF IInv, TypeOK, BatchStep
<1>1. ASSUME NEW w \in Workers, NEW m \in Nodes, CreateTask(w, m)
      PROVE  /\ \/ tasks'[n] = tasks[n]
                \/ tasks[n] = NoTask /\ tasks'[n] = "queued"
             /\ row' = row
  BY <1>0, <1>1 DEF CreateTask
<1>2. ASSUME NEW w \in Workers, NEW m \in Nodes, CancelNode(w, m)
      PROVE  /\ \/ tasks'[n] = tasks[n]
                \/ tasks[n] # NoTask /\ tasks'[n] = RequestStop(tasks[n])
             /\ row' = row
  BY <1>0, <1>2 DEF CancelNode, CancelStage
<1>3. ASSUME NEW w \in Workers, NEW m \in Nodes, NodeStep(w, m),
             ~CreateTask(w, m), ~CancelNode(w, m)
      PROVE  tasks' = tasks
  BY <1>3 DEF NodeStep, CheckNode, ObserveTask, ObserveHealth, RejectStage, NodeError
<1>4. ASSUME NEW w \in Workers, WorkerStep(w), ~ \E m \in Nodes : NodeStep(w, m)
      PROVE  tasks' = tasks
  BY <1>4 DEF WorkerStep, ClaimManagedRun, BeginTick, CheckFailed, SelectReady, SaveResults, FinishTick
<1>5. ASSUME ExpireLease \/ UserStop \/ \E w \in Workers : AbandonTick(w)
      PROVE  tasks' = tasks
  BY <1>5 DEF ExpireLease, UserStop, AbandonTick
<1>6. CASE tasks' = tasks
  BY <1>0, <1>6
<1>7. CASE \E w \in Workers, m \in Nodes : CreateTask(w, m)
  BY <1>0, <1>1, <1>7
<1>8. CASE \E w \in Workers, m \in Nodes : CancelNode(w, m)
  BY <1>0, <1>2, <1>8
<1> QED BY <1>3, <1>4, <1>5, <1>6, <1>7, <1>8 DEF BatchStep

(* A run that is closed to dispatch stays closed: a stop has no way back, and   *)
(* a run that ended is not written.                                             *)
LEMMA ClosedStaysClosed ==
    ASSUME IInv, CancelingIsStopped, [Next]_vars
    PROVE  /\ CancelingIsStopped'
           /\ LockDeliveryDispatch' => LockDeliveryDispatch
<1>1. RowStep
  BY AllRowSteps
<1> QED BY <1>1 DEF RowStep, CancelingIsStopped, LockDeliveryDispatch

-----------------------------------------------------------------------------
(* The invariant *)

LEMMA SystemInitInductive == SystemInit => SystemInv
<1> SUFFICES ASSUME SystemInit PROVE SystemInv
  OBVIOUS
<1>1. IInv
  BY InitInductive DEF SystemInit
<1>2. row.status = "queued"
  BY DEF SystemInit, Init, NewRun
<1> QED BY <1>1, <1>2 DEF SystemInv, SystemInit, WorkIsDispatched, CancelingIsStopped

LEMMA DispatchedInductive ==
    ASSUME IInv, WorkIsDispatched, [SystemNext]_systemVars
    PROVE  WorkIsDispatched'
<1>0. tasks \in [Nodes -> TaskStatuses \cup {NoTask}] /\ working \in [Nodes -> BOOLEAN]
  BY DEF IInv, TypeOK, WorkIsDispatched
<1>1. CASE BatchStep
  <2>1. working' = working
    BY <1>1 DEF BatchStep
  <2>2. ASSUME NEW n \in Nodes, tasks[n] \in TaskLive
        PROVE  tasks'[n] \in TaskLive
    BY <1>1, <2>2, BatchTouchesTask DEF RequestStop, TaskLive, NoTask
  <2> QED BY <2>1, <2>2 DEF WorkIsDispatched
<1>2. ASSUME NEW n \in Nodes, TaskStep(n)
      PROVE  WorkIsDispatched'
  <2>1. /\ tasks' = [tasks EXCEPT ![n] = tasks'[n]]
        /\ working' = [working EXCEPT ![n] = working'[n]] /\ working'[n] \in BOOLEAN
    BY <1>2, TaskStepFacts
  <2>2. working' \in [Nodes -> BOOLEAN]
    BY <1>0, <2>1
  <2>3. ASSUME working'[n]
        PROVE  tasks'[n] \in TaskLive
    <3>1. CASE tasks'[n] = tasks[n]
      BY <1>2, <2>3, <3>1, TaskStepFacts DEF WorkIsDispatched
    <3>2. CASE tasks'[n] # tasks[n]
      <4>1. working[n] /\ tasks[n] \in TaskLive
        BY <1>2, <2>3, <3>2, TaskStepFacts DEF WorkIsDispatched
      <4>2. CASE tasks'[n] = RequestStop(tasks[n])
        BY <4>1, <4>2 DEF RequestStop, TaskLive
      <4>3. ASSUME NEW result \in TaskReports,
                   result \in TaskTerminal => ~working[n],
                   tasks'[n] = StoredStatus(tasks[n], result)
            PROVE  tasks'[n] \in TaskLive
        BY <4>1, <4>3 DEF StoredStatus, TaskReports, TaskLive, TaskTerminal
      <4> QED BY <1>2, <3>2, <4>1, <4>2, <4>3, TaskStepFacts DEF TaskLive
    <3> QED BY <3>1, <3>2
  <2>4. ASSUME NEW m \in Nodes, m # n
        PROVE  working'[m] = working[m] /\ tasks'[m] = tasks[m]
    BY <1>0, <2>1, <2>4
  <2> QED BY <2>2, <2>3, <2>4 DEF WorkIsDispatched
<1>3. CASE UNCHANGED systemVars
  BY <1>3 DEF systemVars, WorkIsDispatched
<1> QED BY <1>1, <1>2, <1>3 DEF SystemNext

LEMMA SystemInductive ==
    ASSUME SystemInv, [SystemNext]_systemVars
    PROVE  SystemInv'
<1>1. IInv /\ WorkIsDispatched /\ CancelingIsStopped
  BY DEF SystemInv
<1>2. [Next]_vars
  BY <1>1, SystemStepIsBatchStep
<1>3. IInv' /\ CancelingIsStopped'
  BY <1>1, <1>2, Inductive, ClosedStaysClosed
<1> QED BY <1>1, <1>3, DispatchedInductive DEF SystemInv

(* Nothing works for a task that was not dispatched or is over, whatever the   *)
(* batch, its workers and the other executors do.                              *)
THEOREM SystemInvariant == SystemSpec => []SystemInv
BY SystemInitInductive, SystemInductive, PTL DEF SystemSpec

-----------------------------------------------------------------------------
(* The two sides of the contract *)

(* On executors that keep the contract the batch behaves as DeliveryRun says,  *)
(* so that every theorem about DeliveryRun holds of the system.                *)
THEOREM BatchOnContracts == SystemSpec => Spec
<1>1. SystemInit => Init
  BY DEF SystemInit
<1>2. SystemInv /\ [SystemNext]_systemVars => [Next]_vars
  BY SystemStepIsBatchStep DEF SystemInv
<1> QED BY <1>1, <1>2, SystemInvariant, PTL DEF SystemSpec, Spec

LEMMA ContractStep ==
    ASSUME SystemInv, [SystemNext]_systemVars, NEW n \in Nodes
    PROVE  [Executor(n)!Next]_(Executor(n)!vars)
<1>0. /\ IInv /\ WorkIsDispatched /\ CancelingIsStopped
      /\ tasks \in [Nodes -> TaskStatuses \cup {NoTask}] /\ working \in [Nodes -> BOOLEAN]
  BY DEF SystemInv, IInv, TypeOK, WorkIsDispatched
<1>1. LockDeliveryDispatch' => LockDeliveryDispatch
  BY <1>0, SystemStepIsBatchStep, ClosedStaysClosed
<1>2. CASE BatchStep
  <2>1. /\ \/ tasks'[n] = tasks[n]
           \/ tasks[n] = NoTask /\ tasks'[n] = "queued"
           \/ tasks[n] # NoTask /\ tasks'[n] = RequestStop(tasks[n])
        /\ tasks' = tasks \/ row' = row
        /\ working'[n] = working[n]
    BY <1>0, <1>2, BatchTouchesTask
  <2>2. CASE row' = row
    <3>1. LockDeliveryDispatch' <=> LockDeliveryDispatch
      BY <2>2 DEF LockDeliveryDispatch
    <3>2. CASE tasks'[n] = tasks[n] \/ (tasks[n] = NoTask /\ tasks'[n] = "queued")
      BY <2>1, <3>1, <3>2 DEF Executor!vars, NoTask
    <3>3. CASE tasks[n] # NoTask /\ tasks'[n] = RequestStop(tasks[n])
      <4>1. tasks'[n] # NoTask
        BY <1>0, <3>3 DEF RequestStop, NoTask
      <4>2. Executor(n)!Stop
        BY <2>1, <3>1, <3>3, <4>1 DEF Executor!Stop, Executor!RequestStop, RequestStop
      <4> QED BY <4>2 DEF Executor!Next, Executor!TaskStep
    <3> QED BY <2>1, <3>2, <3>3
  <2>3. CASE tasks' = tasks
    <3>1. CASE LockDeliveryDispatch' <=> LockDeliveryDispatch
      BY <2>1, <2>3, <3>1 DEF Executor!vars
    <3>2. CASE LockDeliveryDispatch /\ ~LockDeliveryDispatch'
      <4>1. Executor(n)!Close
        BY <2>1, <2>3, <3>2 DEF Executor!Close
      <4> QED BY <4>1 DEF Executor!Next
    <3> QED BY <1>1, <3>1, <3>2
  <2> QED BY <2>1, <2>2, <2>3
<1>3. ASSUME NEW m \in Nodes, TaskStep(m)
      PROVE  [Executor(n)!Next]_(Executor(n)!vars)
  <2>1. CASE m = n
    <3>1. Executor(n)!TaskStep
      BY <1>3, <2>1 DEF TaskStep
    <3> QED BY <3>1 DEF Executor!Next
  <2>2. CASE m # n
    <3>1. tasks'[n] = tasks[n] /\ working'[n] = working[n] /\ row' = row
      BY <1>0, <1>3, <2>2, TaskStepFacts
    <3>2. LockDeliveryDispatch' <=> LockDeliveryDispatch
      BY <3>1 DEF LockDeliveryDispatch
    <3> QED BY <3>1, <3>2 DEF Executor!vars
  <2> QED BY <2>1, <2>2
<1>4. CASE UNCHANGED systemVars
  <2>1. LockDeliveryDispatch' <=> LockDeliveryDispatch
    BY <1>4 DEF LockDeliveryDispatch, systemVars
  <2> QED BY <1>4, <2>1 DEF Executor!vars, systemVars
<1> QED BY <1>2, <1>3, <1>4 DEF SystemNext

LEMMA ContractInit ==
    ASSUME SystemInit, NEW n \in Nodes
    PROVE  Executor(n)!Init
<1>1. tasks[n] = NoTask /\ working[n] = FALSE
  BY DEF SystemInit, Init
<1>2. LockDeliveryDispatch
  BY DEF SystemInit, Init, NewRun, LockDeliveryDispatch, RunTerminal
<1> QED BY <1>1, <1>2 DEF Executor!Init

(* The batch keeps the contract of each of its tasks: its executor sees the    *)
(* task created once, asked to stop at most, and the run closed for good.      *)
(* (createDeliveryTask, CancelDeliveryStage, StopManagedRun)                   *)
THEOREM BatchKeepsContracts == SystemSpec => TaskContracts
<1> DEFINE Kept == \A n \in Nodes : [Executor(n)!Next]_(Executor(n)!vars)
<1>1. SystemInit => \A n \in Nodes : Executor(n)!Init
  BY ContractInit
<1>2. SystemInv /\ [SystemNext]_systemVars => [Kept]_systemVars
  BY ContractStep
<1> QED BY <1>1, <1>2, SystemInvariant, PTL DEF SystemSpec, TaskContracts

-----------------------------------------------------------------------------
(* What is really going on *)

(* An executor at work belongs to a node that the row shows active. *)
LEMMA WorkIsActive ==
    ASSUME SystemInv, NEW n \in WorkingNodes
    PROVE  /\ n \in Mutating /\ n \in Nodes /\ tasks[n] \in TaskLive
           /\ row.nodes[n] \in NodeActive /\ row.status \notin RunTerminal
<1>1. /\ n \in Mutating /\ n \in Nodes /\ tasks[n] \in TaskLive /\ IInv
  BY DEF WorkingNodes, Mutating, SystemInv, WorkIsDispatched
<1>2. tasks[n] \in AtWork /\ tasks[n] # NoTask
  BY <1>1 DEF AtWork, TaskLive, NoTask
<1>3. row.nodes[n] \notin NodeTerminal \cup {"pending"}
  BY <1>1, <1>2 DEF IInv, NodesAreHonest
<1>4. row.nodes[n] \in NodeStatuses
  BY <1>1 DEF IInv, TypeOK, Runs
<1> QED BY <1>1, <1>2, <1>3, <1>4, AtWorkIsOpen DEF NodeStatuses

(* Whatever is building or deploying, wherever it runs, its batch is open,     *)
(* waits for it and counts it within its limit; a batch that says it ended     *)
(* left nothing going on.  (deliveryRunStatus, advanceDeliveryRun)             *)
THEOREM LicensedWork == SystemSpec => []WorkIsLicensed
<1>1. SystemInv /\ WithinConcurrency => WorkIsLicensed
  <2> SUFFICES ASSUME SystemInv, WithinConcurrency
               PROVE  Cardinality(WorkingNodes) <= MaxConcurrency
    BY WorkIsActive DEF WorkIsLicensed
  <2>1. WorkingNodes \subseteq Active(row.nodes) /\ Active(row.nodes) \subseteq Nodes
    BY WorkIsActive DEF Active
  <2>2. IsFiniteSet(Active(row.nodes))
    BY <2>1, NodesAssumption, FS_Subset
  <2>3. /\ IsFiniteSet(WorkingNodes)
        /\ Cardinality(WorkingNodes) <= Cardinality(Active(row.nodes))
    BY <2>1, <2>2, FS_Subset
  <2>4. Cardinality(WorkingNodes) \in Nat /\ Cardinality(Active(row.nodes)) \in Nat
    BY <2>2, <2>3, FS_CardinalityType
  <2> QED BY <2>3, <2>4, BoundsAssumption DEF WithinConcurrency
<1> QED BY <1>1, SystemInvariant, BatchOnContracts, LimitKept, PTL

(* Nothing is built or deployed before what it depends on is done.             *)
(* (deliveryNodeReadiness)                                                     *)
THEOREM OrderedWork == SystemSpec => []WorkInOrder
<1>1. SystemInv /\ PrerequisitesFirst => WorkInOrder
  BY WorkIsActive DEF PrerequisitesFirst, Started, WorkInOrder
<1> QED BY <1>1, SystemInvariant, BatchOnContracts, StartedInOrder, PTL
=============================================================================
