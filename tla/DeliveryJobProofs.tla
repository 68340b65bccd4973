------------------------- MODULE DeliveryJobProofs -------------------------
(***************************************************************************)
(* DeliveryJob for any number of controllers and faults: an ended task is  *)
(* quiet, a completed one ran, and a closed run starts nothing.            *)
(***************************************************************************)
EXTENDS DeliveryJob, TLAPS

(* What no step undoes. *)
Steady ==
    /\ task'.runnable = task.runnable
    /\ task.ref => task'.ref
    /\ StopAsked => StopAsked'
    /\ job.state # "absent" => job'.state # "absent"
    /\ JobIsOver => JobIsOver'
    /\ job.state = "complete" => job'.state = "complete"

(* The shapes of a controller's state. *)
LEMMA ControlTypes ==
    /\ Idle \in Controlling
    /\ \A copy \in Tasks :
          /\ \A step \in {"prepare", "create", "inspect", "expire", "stop"} :
                [step |-> step, copy |-> copy] \in Controlling
          /\ \A status \in TaskStatuses : ToWrite(copy, status) \in Controlling
BY DEF Idle, Controlling, ToWrite

LEMMA CopyType ==
    ASSUME TypeOK, NEW c \in Controllers, ~At(c, "idle")
    PROVE  /\ Copy(c) \in Tasks
           /\ At(c, "write") => controller[c].status \in TaskStatuses
BY DEF TypeOK, Controlling, At, Copy

(* A row that a controller writes back keeps its type. *)
LEMMA RowTypes ==
    ASSUME TypeOK
    PROVE  /\ \A copy \in Tasks, status \in TaskStatuses : Updated(copy, status) \in Tasks
           /\ \A reason \in Reasons : Asked(reason) \in Tasks
           /\ Dispatching \in Controlling
<1>1. \A copy \in Tasks, status \in TaskStatuses : Updated(copy, status) \in Tasks
  BY DEF TypeOK, Updated, StoredStatus, Tasks, TaskStatuses, TaskTerminal
<1>2. \A reason \in Reasons : Asked(reason) \in Tasks
  BY DEF TypeOK, Asked, RequestStop, Tasks, TaskStatuses, Reasons
<1>3. [task EXCEPT !.attempt = 1] \in Tasks /\ "failed" \in TaskStatuses /\ task \in Tasks
  BY DEF TypeOK, Tasks, TaskStatuses
<1>4. Dispatching \in Controlling
  BY <1>3, ControlTypes DEF Dispatching
<1> QED BY <1>1, <1>2, <1>4

LEMMA JobTypes ==
    ASSUME TypeOK
    PROVE  /\ \A suspend \in BOOLEAN : Created(suspend) \in Jobs
           /\ Suspended \in Jobs
BY DEF TypeOK, Created, Suspended, NewJob, Jobs, JobStates

LEMMA InitInductive == Init => IInv
<1> SUFFICES ASSUME Init PROVE IInv
  OBVIOUS
<1>1. TypeOK
  <2>1. task \in Tasks
    BY DEF Init, Tasks, TaskStatuses, Reasons
  <2>2. job \in Jobs /\ pod \in PodStates
    BY DEF Init, Jobs, NoJob, JobStates, PodStates
  <2>3. controller \in [Controllers -> Controlling]
    BY ControlTypes DEF Init
  <2>4. faults \in 0 .. MaxFaults
    BY MaxFaultsAssumption DEF Init
  <2> QED BY <2>1, <2>2, <2>3, <2>4 DEF Init, TypeOK
<1>2. RowLeads /\ PodInJob
  BY DEF Init, RowLeads, PodInJob, NoJob, JobIsOver, TaskTerminal
<1>3. \A c \in Controllers : HoldsTruth(c)
  BY DEF Init, HoldsTruth, At, Idle
<1> QED BY <1>1, <1>2, <1>3 DEF IInv

(* A controller that does nothing keeps a truth that is steady. *)
LEMMA HeldStays ==
    ASSUME Steady, NEW c \in Controllers, HoldsTruth(c), controller'[c] = controller[c]
    PROVE  HoldsTruth(c)'
BY DEF Steady, HoldsTruth, At, Copy

LEMMA OneMoves ==
    ASSUME IInv, NEW c \in Controllers, NEW what \in Controlling, Become(c, what),
           Steady, TypeOK', RowLeads', PodInJob', HoldsTruth(c)'
    PROVE  IInv'
<1>1. ASSUME NEW v \in Controllers, v # c
      PROVE  HoldsTruth(v)'
  <2>1. controller'[v] = controller[v]
    BY <1>1 DEF IInv, TypeOK, Become
  <2> QED BY <2>1, HeldStays DEF IInv
<1> QED BY <1>1 DEF IInv

LEMMA NobodyMoves ==
    ASSUME IInv, controller' = controller, Steady, TypeOK', RowLeads', PodInJob'
    PROVE  IInv'
BY HeldStays DEF IInv

(* A step of a controller that leaves the row and the cluster alone. *)
LEMMA OnlyControl ==
    ASSUME IInv, NEW c \in Controllers, NEW what \in Controlling, Become(c, what),
           UNCHANGED <<task, runOpen, job, pod>>, late' \in BOOLEAN, late' => late \/ task.ref,
           faults' \in 0 .. MaxFaults, HoldsTruth(c)'
    PROVE  IInv'
<1>1. TypeOK'
  BY DEF IInv, TypeOK, Become
<1>2. Steady /\ RowLeads' /\ PodInJob'
  BY DEF IInv, Steady, RowLeads, PodInJob, JobIsOver, StopAsked
<1> QED BY <1>1, <1>2, OneMoves

(* What dispatchExecutionTask decides is true of the row it has read. *)
LEMMA DispatchTruth ==
    ASSUME IInv, NEW c \in Controllers, Become(c, Dispatching), task' = task
    PROVE  HoldsTruth(c)'
<1>1. controller'[c] = Dispatching
  BY DEF IInv, TypeOK, Become
<1> QED BY <1>1 DEF Dispatching, HoldsTruth, At, Copy, Idle, ToWrite

LEMMA SweepKeeps ==
    ASSUME IInv, NEW c \in Controllers, SweepQueued(c) \/ SweepDispatched(c)
    PROVE  IInv'
<1>0. TypeOK
  BY DEF IInv
<1>1. CASE SweepQueued(c)
  <2>1. Dispatching \in Controlling
    BY <1>0, RowTypes
  <2>2. HoldsTruth(c)'
    BY <1>1, DispatchTruth DEF SweepQueued
  <2> QED BY <1>1, <2>1, <2>2, <1>0, OnlyControl DEF SweepQueued, TypeOK
<1>2. CASE SweepDispatched(c)
  <2> DEFINE what == [step |-> "inspect", copy |-> task]
  <2>1. what \in Controlling
    BY <1>0, ControlTypes DEF TypeOK
  <2>2. controller'[c] = what
    BY <1>0, <1>2 DEF SweepDispatched, TypeOK, Become
  <2>3. HoldsTruth(c)'
    BY <2>2, <1>2 DEF IInv, RowLeads, SweepDispatched, HoldsTruth, At, Copy, TaskLive
  <2> QED BY <1>2, <2>1, <2>3, <1>0, OnlyControl DEF SweepDispatched, TypeOK
<1> QED BY <1>1, <1>2

LEMMA CancelKeeps ==
    ASSUME IInv, NEW c \in Controllers, NEW reason \in Reasons, Cancel(c, reason)
    PROVE  IInv'
<1>0. TypeOK /\ task \in Tasks
  BY DEF IInv, TypeOK
<1>1. task' \in Tasks
  BY <1>0, RowTypes DEF Cancel
<1> DEFINE what == IF task'.status = "canceling" THEN [step |-> "stop", copy |-> task'] ELSE Idle
<1>2. what \in Controlling /\ controller'[c] = what /\ Become(c, what)
  BY <1>0, <1>1, ControlTypes DEF Cancel, TypeOK, Become
<1>3. TypeOK'
  BY <1>0, <1>1, <1>2 DEF Cancel, TypeOK, Become
<1>4. /\ task'.ref = task.ref /\ task'.runnable = task.runnable
      /\ task'.status = RequestStop(task.status)
  BY <1>0 DEF Cancel, Asked, Tasks
<1>5. Steady
  BY <1>4 DEF Cancel, Steady, JobIsOver, StopAsked, RequestStop, TaskTerminal
<1>6. RowLeads'
  BY <1>4 DEF IInv, RowLeads, Cancel, RequestStop, TaskTerminal, JobIsOver
<1>7. PodInJob'
  BY DEF IInv, PodInJob, Cancel
<1>8. task'.status = "canceling" => task'.ref
  BY <1>6 DEF RowLeads
<1>9. HoldsTruth(c)'
  BY <1>2, <1>8 DEF HoldsTruth, At, Copy, Idle, StopAsked
<1> QED BY <1>2, <1>3, <1>5, <1>6, <1>7, <1>9, OneMoves

LEMMA PrepareKeeps ==
    ASSUME IInv, NEW c \in Controllers, PrepareDeliveryJob(c)
    PROVE  IInv'
<1>0. TypeOK /\ task \in Tasks
  BY DEF IInv, TypeOK
<1>1. task' \in Tasks
  BY <1>0 DEF PrepareDeliveryJob, Tasks, TaskStatuses
<1> DEFINE what == IF task'.status = "dispatching" /\ runOpen
                   THEN [step |-> "create", copy |-> task'] ELSE Idle
<1>2. what \in Controlling /\ controller'[c] = what /\ Become(c, what)
  BY <1>0, <1>1, ControlTypes DEF PrepareDeliveryJob, TypeOK, Become
<1>3. TypeOK'
  BY <1>0, <1>1, <1>2 DEF PrepareDeliveryJob, TypeOK, Become
<1>4. \/ task' = task
      \/ /\ task.status = "queued" /\ task.runnable /\ task'.runnable
         /\ task'.status = "dispatching" /\ task'.ref
  BY <1>0 DEF PrepareDeliveryJob, Tasks, IInv, HoldsTruth
<1>5. Steady
  BY <1>4 DEF PrepareDeliveryJob, Steady, JobIsOver, StopAsked, TaskTerminal
<1>6. RowLeads'
  BY <1>4 DEF IInv, RowLeads, PrepareDeliveryJob, TaskTerminal, JobIsOver
<1>7. PodInJob'
  BY DEF IInv, PodInJob, PrepareDeliveryJob
<1>8. task'.status = "dispatching" => task'.ref
  BY <1>6 DEF RowLeads
<1>9. HoldsTruth(c)'
  BY <1>2, <1>8 DEF HoldsTruth, At, Copy, Idle
<1> QED BY <1>2, <1>3, <1>5, <1>6, <1>7, <1>9, OneMoves

(* The name decides: a Create changes nothing once there is a Job, and a task *)
(* whose end is recorded has one.                                             *)
LEMMA CreateIsHarmless ==
    ASSUME IInv, task.ref, NEW suspend \in BOOLEAN, job' = Created(suspend),
           UNCHANGED <<task, runOpen, pod>>
    PROVE  Steady /\ RowLeads' /\ PodInJob' /\ job'.state # "absent"
<1>1. job \in Jobs
  BY DEF IInv, TypeOK
<1>2. CASE job.state = "absent"
  <2>1. job' = NewJob(suspend) /\ job'.state = "active"
    BY <1>2 DEF Created, NewJob
  <2>2. task.status \notin TaskTerminal /\ pod = "none" /\ ~JobIsOver
    BY <1>2 DEF IInv, RowLeads, PodInJob, JobIsOver
  <2>3. Steady
    BY <1>2, <2>1, <2>2 DEF Steady, StopAsked
  <2>4. RowLeads'
    BY <1>2, <2>1, <2>2 DEF IInv, RowLeads, TaskTerminal
  <2>5. PodInJob'
    BY <2>1, <2>2 DEF PodInJob
  <2> QED BY <2>1, <2>3, <2>4, <2>5
<1>3. CASE job.state # "absent"
  <2>1. job' = job
    BY <1>3 DEF Created
  <2> QED BY <1>3, <2>1 DEF IInv, Steady, RowLeads, PodInJob, JobIsOver, StopAsked
<1> QED BY <1>2, <1>3

LEMMA CreateKeeps ==
    ASSUME IInv, NEW c \in Controllers, CreateExecutionJob(c)
    PROVE  IInv'
<1>0. TypeOK /\ task.ref /\ Copy(c) \in Tasks
  BY CopyType DEF IInv, HoldsTruth, CreateExecutionJob, At
<1> DEFINE what == ToWrite(Copy(c), "running")
<1>1. what \in Controlling /\ controller'[c] = what /\ Become(c, what)
  BY <1>0, ControlTypes DEF CreateExecutionJob, TypeOK, Become, TaskStatuses
<1>2. TypeOK'
  BY <1>0, <1>1, JobTypes DEF CreateExecutionJob, TypeOK, Become
<1>3. Steady /\ RowLeads' /\ PodInJob' /\ job'.state # "absent"
  BY <1>0, CreateIsHarmless DEF CreateExecutionJob
<1>4. controller'[c].step = "write" /\ controller'[c].status = "running"
  BY <1>1 DEF ToWrite
<1>5. task' = task
  BY DEF CreateExecutionJob
<1>6. HoldsTruth(c)'
  BY <1>0, <1>3, <1>4, <1>5 DEF HoldsTruth, At, TaskTerminal
<1> QED BY <1>1, <1>2, <1>3, <1>6, OneMoves

(* Steps that end a controller's work without a trace. *)
LEMMA GiveUpKeeps ==
    ASSUME IInv, NEW c \in Controllers, CreateTimesOut(c) \/ Abandon(c)
    PROVE  IInv'
<1>0. TypeOK /\ Idle \in Controlling /\ Become(c, Idle)
  BY ControlTypes DEF IInv, CreateTimesOut, Abandon
<1>1. faults' \in 0 .. MaxFaults
  <2>1. faults < MaxFaults /\ faults' = faults + 1
    BY DEF CreateTimesOut, Abandon
  <2> QED BY <1>0, <2>1, MaxFaultsAssumption DEF TypeOK
<1>2. HoldsTruth(c)'
  BY <1>0 DEF TypeOK, Become, HoldsTruth, At, Idle
<1>3. late' \in BOOLEAN /\ (late' => late \/ task.ref)
  <2>1. CASE CreateTimesOut(c)
    <3>1. task.ref
      BY <2>1 DEF IInv, HoldsTruth, CreateTimesOut, At
    <3>2. late \in BOOLEAN /\ late' \in {late, TRUE}
      BY <1>0, <2>1 DEF CreateTimesOut, TypeOK
    <3> QED BY <3>1, <3>2
  <2>2. CASE Abandon(c)
    BY <1>0, <2>2 DEF Abandon, TypeOK
  <2> QED BY <2>1, <2>2
<1> QED BY <1>0, <1>1, <1>2, <1>3, OnlyControl DEF CreateTimesOut, Abandon

LEMMA ReconcileKeeps ==
    ASSUME IInv, NEW c \in Controllers, Reconcile(c)
    PROVE  IInv'
<1>0. TypeOK /\ Copy(c) \in Tasks /\ task.ref /\ At(c, "inspect") /\ Copy(c).status \in TaskLive
  BY CopyType DEF IInv, HoldsTruth, Reconcile, At
<1>1. CASE job.state = "absent" /\ Copy(c).status = "dispatching"
  <2>1. Become(c, Dispatching) /\ Dispatching \in Controlling
    BY <1>0, <1>1, RowTypes DEF Reconcile
  <2>2. HoldsTruth(c)'
    BY <2>1, DispatchTruth DEF Reconcile
  <2> QED BY <1>0, <2>1, <2>2, OnlyControl DEF Reconcile, TypeOK
<1>2. CASE ~(job.state = "absent" /\ Copy(c).status = "dispatching")
  <2>1. job.state # "absent"
    BY <1>0, <1>2 DEF IInv, HoldsTruth
  <2>2. PICK status \in Judged(Copy(c)) : Become(c, ToWrite(Copy(c), status))
    BY <1>2 DEF Reconcile
  <2>3. job.state \in JobStates
    BY <1>0 DEF TypeOK, Jobs
  <2>4. /\ status \in TaskStatuses
        /\ status \notin {"queued", "dispatching", "callback_timeout"}
        /\ status \in {"canceling", "canceled"} => Copy(c).status = "canceling"
        /\ status \in TaskTerminal => job.state \in {"complete", "failed"}
        /\ status = "completed" => job.state = "complete"
    BY <1>0, <2>1, <2>2, <2>3 DEF Judged, TaskStatuses, TaskTerminal, TaskLive, JobStates
  <2>5. ToWrite(Copy(c), status) \in Controlling
    BY <1>0, <2>4, ControlTypes
  <2>6. controller'[c] = ToWrite(Copy(c), status)
    BY <1>0, <2>2 DEF TypeOK, Become
  <2>7. HoldsTruth(c)'
    <3>1. status \in {"canceling", "canceled"} => StopAsked
      BY <1>0, <2>4 DEF IInv, HoldsTruth
    <3>2. StopAsked' = StopAsked /\ JobIsOver' = JobIsOver
      BY DEF Reconcile, StopAsked, JobIsOver
    <3>3. status \in TaskTerminal => JobIsOver
      BY <1>0, <2>4 DEF IInv, RowLeads, JobIsOver, TaskTerminal
    <3> QED BY <1>0, <2>1, <2>4, <2>6, <3>1, <3>2, <3>3 DEF Reconcile, HoldsTruth, At, ToWrite
  <2> QED BY <1>0, <2>2, <2>5, <2>7, OnlyControl DEF Reconcile, TypeOK
<1> QED BY <1>1, <1>2

LEMMA FindExpiredKeeps ==
    ASSUME IInv, NEW c \in Controllers, FindExpired(c)
    PROVE  IInv'
<1>0. TypeOK /\ Copy(c) \in Tasks /\ task.ref
  BY CopyType DEF IInv, HoldsTruth, FindExpired, At
<1> DEFINE what == [step |-> "expire", copy |-> Copy(c)]
<1>1. [controller[c] EXCEPT !.step = "expire"] = what
  BY <1>0 DEF FindExpired, TypeOK, Controlling, At, Copy
<1>2. what \in Controlling /\ controller'[c] = what /\ Become(c, what)
  BY <1>0, <1>1, ControlTypes DEF FindExpired, TypeOK, Become
<1>3. HoldsTruth(c)'
  BY <1>0, <1>2 DEF FindExpired, HoldsTruth, At
<1> QED BY <1>0, <1>2, <1>3, OnlyControl DEF FindExpired, TypeOK

LEMMA StopKeeps ==
    ASSUME IInv, NEW c \in Controllers, StopDeliveryJob(c)
    PROVE  IInv'
<1>0. TypeOK /\ Copy(c) \in Tasks /\ task.ref /\ Copy(c).status = "canceling" /\ StopAsked
  BY CopyType DEF IInv, HoldsTruth, StopDeliveryJob, At
<1> DEFINE status == IF Copy(c).reason = "execution_timeout" THEN "failed" ELSE "canceled"
           what == CASE job.state \in {"complete", "failed"} ->
                          [step |-> "inspect", copy |-> Copy(c)]
                     [] job.state = "active" /\ job.suspend /\ DeliveryJobStopped ->
                          ToWrite(Copy(c), status)
                     [] OTHER -> Idle
<1>1. status \in TaskStatuses
  BY DEF TaskStatuses
<1>2. what \in Controlling
  BY <1>0, <1>1, ControlTypes
<1>3. controller'[c] = what /\ Become(c, what)
  BY <1>0 DEF StopDeliveryJob, TypeOK, Become
<1>4. TypeOK'
  BY <1>0, <1>2, <1>3, JobTypes DEF StopDeliveryJob, TypeOK, Become
<1>5. Steady /\ RowLeads' /\ PodInJob' /\ job'.state # "absent"
  <2>1. CASE job.state = "active"
    <3>1. /\ job'.state = job.state /\ job'.suspended = job.suspended
          /\ job'.open = job.open /\ job'.suspend
      BY <1>0, <2>1 DEF StopDeliveryJob, Suspended, TypeOK, Jobs
    <3> QED BY <2>1, <3>1 DEF IInv, StopDeliveryJob, Steady, RowLeads, PodInJob, JobIsOver, StopAsked
  <2>2. CASE job.state # "active"
    BY <1>0, <2>2, CreateIsHarmless DEF StopDeliveryJob, Suspended
  <2> QED BY <2>1, <2>2
<1>6. HoldsTruth(c)'
  <2>1. CASE job.state \in {"complete", "failed"}
    <3>1. controller'[c] = [step |-> "inspect", copy |-> Copy(c)]
      BY <1>3, <2>1
    <3> QED BY <1>0, <1>5, <3>1 DEF StopDeliveryJob, HoldsTruth, At, Copy, TaskLive, StopAsked
  <2>2. CASE job.state = "active" /\ job.suspend /\ DeliveryJobStopped
    <3>1. controller'[c] = ToWrite(Copy(c), status)
      BY <1>3, <2>2
    <3>2. JobIsOver'
      BY <1>5, <2>2 DEF JobIsOver, DeliveryJobStopped, Steady
    <3> QED BY <1>0, <1>5, <3>1, <3>2 DEF StopDeliveryJob, HoldsTruth, At, ToWrite, StopAsked
  <2>3. CASE /\ job.state \notin {"complete", "failed"}
             /\ ~(job.state = "active" /\ job.suspend /\ DeliveryJobStopped)
    <3>1. controller'[c] = Idle
      BY <1>3, <2>3
    <3> QED BY <3>1 DEF HoldsTruth, At, Idle
  <2> QED BY <2>1, <2>2, <2>3
<1> QED BY <1>2, <1>3, <1>4, <1>5, <1>6, OneMoves

LEMMA WriteKeeps ==
    ASSUME IInv, NEW c \in Controllers, Write(c)
    PROVE  IInv'
<1> DEFINE status == controller[c].status
<1>0. TypeOK /\ task \in Tasks /\ Copy(c) \in Tasks /\ status \in TaskStatuses
  BY CopyType DEF IInv, TypeOK, Write, At
<1>1. task' \in Tasks
  BY <1>0, RowTypes DEF Write
<1>2. Idle \in Controlling /\ controller'[c] = Idle /\ Become(c, Idle)
  BY <1>0, ControlTypes DEF Write, TypeOK, Become
<1>3. TypeOK'
  BY <1>0, <1>1, <1>2 DEF Write, TypeOK, Become
<1>4. /\ task'.ref = task.ref /\ task'.runnable = task.runnable
      /\ task'.status \in {task.status, StoredStatus(task.status, status)}
  BY <1>0 DEF Write, Updated, Tasks
<1>5. Steady
  <2>1. StopAsked => StopAsked'
    BY <1>0, <1>4 DEF StopAsked, StoredStatus, TaskStatuses, TaskTerminal
  <2> QED BY <1>4, <2>1 DEF Write, Steady, JobIsOver
<1>6. RowLeads'
  <2>1. CASE task'.status = task.status
    BY <1>4, <2>1 DEF IInv, RowLeads, Write, JobIsOver
  <2>2. CASE task'.status # task.status
    <3>1. task'.status = status /\ task.status \notin TaskTerminal
      BY <1>4, <2>2 DEF StoredStatus
    <3>2. \/ ~task.runnable /\ status = "failed"
          \/ /\ task.ref /\ job.state # "absent"
             /\ status # "queued"
             /\ status \in TaskTerminal => JobIsOver
             /\ status = "completed" => job.state = "complete"
      BY DEF IInv, HoldsTruth, Write
    <3> QED BY <1>4, <3>1, <3>2 DEF IInv, RowLeads, Write, JobIsOver
  <2> QED BY <2>1, <2>2
<1>7. PodInJob'
  BY DEF IInv, PodInJob, Write
<1>8. HoldsTruth(c)'
  BY <1>2 DEF HoldsTruth, At, Idle
<1> QED BY <1>2, <1>3, <1>5, <1>6, <1>7, <1>8, OneMoves

LEMMA ControllerKeeps ==
    ASSUME IInv, NEW c \in Controllers, ControllerStep(c)
    PROVE  IInv'
<1>1. CASE SweepCanceling(c) \/ ExpireExecution(c) \/ CancelExecutionTask(c)
  <2>1. \E reason \in Reasons : Cancel(c, reason)
    BY <1>1 DEF SweepCanceling, ExpireExecution, CancelExecutionTask, Reasons
  <2> QED BY <2>1, CancelKeeps
<1> QED BY <1>1, SweepKeeps, PrepareKeeps, CreateKeeps, GiveUpKeeps, ReconcileKeeps,
           FindExpiredKeeps, StopKeeps, WriteKeeps DEF ControllerStep

(* The cluster: a Job that is over stays over. *)
LEMMA KubernetesKeeps ==
    ASSUME IInv, Kubernetes
    PROVE  IInv'
<1>0. TypeOK /\ job \in Jobs /\ pod \in PodStates
  BY DEF IInv, TypeOK
<1>1. CASE StartPod
  <2>1. TypeOK'
    BY <1>0, <1>1 DEF StartPod, TypeOK, PodStates
  <2>2. ~JobIsOver /\ job.state = "active" /\ job.open /\ task.ref
    BY <1>1 DEF IInv, RowLeads, StartPod, JobIsOver
  <2>3. Steady /\ RowLeads' /\ PodInJob'
    BY <1>1, <2>2 DEF IInv, StartPod, Steady, RowLeads, PodInJob, StopAsked
  <2> QED BY <1>1, <2>1, <2>3, NobodyMoves DEF StartPod
<1>2. CASE ObserveSuspension \/ ExceedDeadline
  <2>1. /\ job' \in Jobs /\ job.state = "active" /\ job'.state = "active"
        /\ job'.open = job.open /\ ~job.suspended
    BY <1>0, <1>2 DEF ObserveSuspension, ExceedDeadline, Jobs
  <2>2. pod' = IF pod = "running" THEN "terminating" ELSE pod
    BY <1>2 DEF ObserveSuspension, ExceedDeadline
  <2>3. UNCHANGED <<task, runOpen, late, controller, faults>>
    BY <1>2 DEF ObserveSuspension, ExceedDeadline
  <2>4. TypeOK'
    BY <1>0, <2>1, <2>2, <2>3 DEF TypeOK, PodStates
  <2>5. ~JobIsOver
    BY <2>1 DEF JobIsOver
  <2>6. Steady /\ RowLeads' /\ PodInJob'
    BY <2>1, <2>2, <2>3, <2>5 DEF IInv, Steady, RowLeads, PodInJob, StopAsked
  <2> QED BY <2>3, <2>4, <2>6, NobodyMoves
<1>3. CASE PodEnds
  <2>1. pod' \in {"none", "succeeded", "failed"} /\ job' = job /\ pod # "none"
    BY <1>3 DEF PodEnds, PodActive
  <2>2. UNCHANGED <<task, runOpen, late, controller, faults>>
    BY <1>3 DEF PodEnds
  <2>3. TypeOK'
    BY <1>0, <2>1, <2>2 DEF TypeOK, PodStates
  <2>4. Steady
    BY <2>1, <2>2 DEF Steady, JobIsOver, PodActive, StopAsked
  <2>5. RowLeads'
    BY <2>1, <2>2, <2>4 DEF IInv, RowLeads, Steady
  <2>6. PodInJob'
    BY <2>1 DEF IInv, PodInJob, PodActive
  <2> QED BY <2>2, <2>3, <2>4, <2>5, <2>6, NobodyMoves
<1>4. CASE JobEnds
  <2>1. /\ job' \in Jobs /\ job.state = "active" /\ job'.state \in {"complete", "failed"}
        /\ job'.open = job.open /\ pod \notin PodActive
        /\ job'.state = "complete" => pod = "succeeded"
    BY <1>0, <1>4 DEF JobEnds, Jobs, JobStates, PodActive
  <2>2. UNCHANGED <<task, runOpen, pod, late, controller, faults>>
    BY <1>4 DEF JobEnds
  <2>3. TypeOK'
    BY <1>0, <2>1, <2>2 DEF TypeOK
  <2>4. Steady /\ RowLeads' /\ PodInJob'
    BY <2>1, <2>2 DEF IInv, Steady, RowLeads, PodInJob, JobIsOver, StopAsked
  <2> QED BY <2>2, <2>3, <2>4, NobodyMoves
<1> QED BY <1>1, <1>2, <1>3, <1>4 DEF Kubernetes

LEMMA Inductive ==
    ASSUME IInv, [Next]_vars
    PROVE  IInv'
<1>0. TypeOK
  BY DEF IInv
<1>1. CASE CloseRun
  <2>1. TypeOK' /\ Steady /\ RowLeads' /\ PodInJob'
    BY <1>1 DEF CloseRun, IInv, TypeOK, Steady, RowLeads, PodInJob, JobIsOver, StopAsked
  <2> QED BY <1>1, <2>1, NobodyMoves DEF CloseRun
<1>2. CASE CreateArrives
  <2>1. task.ref
    BY <1>2 DEF IInv, RowLeads, CreateArrives
  <2>2. TypeOK'
    BY <1>0, <1>2, JobTypes DEF CreateArrives, TypeOK
  <2>3. Steady /\ RowLeads' /\ PodInJob'
    BY <1>2, <2>1, CreateIsHarmless DEF CreateArrives
  <2> QED BY <1>2, <2>2, <2>3, NobodyMoves DEF CreateArrives
<1>3. CASE UNCHANGED vars
  <2>1. TypeOK' /\ Steady /\ RowLeads' /\ PodInJob'
    BY <1>3 DEF vars, IInv, TypeOK, Steady, RowLeads, PodInJob, JobIsOver, StopAsked
  <2> QED BY <1>3, <2>1, NobodyMoves DEF vars
<1> QED BY <1>1, <1>2, <1>3, ControllerKeeps, KubernetesKeeps DEF Next

(* The inductive invariant holds, however many controllers work on the task   *)
(* and however often they fail half way.                                      *)
THEOREM Invariant == Spec => []IInv
BY InitInductive, Inductive, PTL DEF Spec

(* The row, the Job and the controllers keep their types. *)
THEOREM TypeCorrect == Spec => []TypeOK
<1>1. IInv => TypeOK
  BY DEF IInv
<1> QED BY <1>1, Invariant, PTL

(* A task whose end is recorded has no running Pod: StopDeliveryJob confirms   *)
(* only what the Job controller has seen, and its suspended Job keeps a late   *)
(* Create from starting anything.                                              *)
THEOREM EndedQuiet == Spec => []EndedIsQuiet
<1>1. IInv => EndedIsQuiet
  <2> SUFFICES ASSUME IInv, task.status \in TaskTerminal PROVE pod \notin PodActive
    BY DEF EndedIsQuiet
  <2>1. CASE task.ref
    BY <2>1 DEF IInv, RowLeads, PodInJob, JobIsOver
  <2>2. CASE ~task.ref
    BY <2>2 DEF IInv, RowLeads, PodActive
  <2> QED BY <2>1, <2>2
<1> QED BY <1>1, Invariant, PTL

(* A task is completed only by a Job that ran and completed. *)
THEOREM CompletedDidRun == Spec => []CompletedRan
<1>1. IInv => CompletedRan
  BY DEF IInv, RowLeads, PodInJob, CompletedRan
<1> QED BY <1>1, Invariant, PTL

(* A run that closes before the task's dispatch starts no Pod for it: the      *)
(* dispatch looks at the run under its lock.                                   *)
THEOREM ClosedIsQuiet == Spec => ClosedStartsNothing
<1>1. ASSUME IInv, [Next]_vars, ~runOpen, ~task.ref
      PROVE  pod' = "none" /\ ~task'.ref
  <2>0. TypeOK /\ task \in Tasks /\ job.state = "absent" /\ pod = "none" /\ ~late
    BY <1>1 DEF IInv, TypeOK, RowLeads
  <2>1. ASSUME NEW c \in Controllers, ControllerStep(c)
        PROVE  pod' = pod /\ task'.ref = task.ref
    <3>1. CASE SweepCanceling(c) \/ ExpireExecution(c) \/ CancelExecutionTask(c)
      BY <2>0, <3>1
      DEF SweepCanceling, ExpireExecution, CancelExecutionTask, Cancel, Asked, Tasks
    <3>2. CASE PrepareDeliveryJob(c)
      BY <1>1, <3>2 DEF PrepareDeliveryJob
    <3>3. CASE Write(c)
      BY <2>0, <3>3 DEF Write, Updated, Tasks
    <3>4. CASE \/ SweepQueued(c) \/ SweepDispatched(c) \/ CreateExecutionJob(c)
               \/ CreateTimesOut(c) \/ Reconcile(c) \/ FindExpired(c)
               \/ StopDeliveryJob(c) \/ Abandon(c)
      BY <3>4 DEF SweepQueued, SweepDispatched, CreateExecutionJob, CreateTimesOut,
                  Reconcile, FindExpired, StopDeliveryJob, Abandon
    <3> QED BY <2>1, <3>1, <3>2, <3>3, <3>4 DEF ControllerStep
  <2>2. CASE Kubernetes
    BY <2>0, <2>2 DEF Kubernetes, StartPod, ObserveSuspension, ExceedDeadline, PodEnds,
                      JobEnds, PodActive
  <2>3. CASE CloseRun \/ CreateArrives \/ UNCHANGED vars
    BY <1>1, <2>0, <2>3 DEF CloseRun, CreateArrives, vars
  <2> QED BY <1>1, <2>0, <2>1, <2>2, <2>3 DEF Next
<1>2. IInv /\ [Next]_vars =>
          [~runOpen /\ ~task.ref => pod' = "none" /\ ~task'.ref]_vars
  BY <1>1
<1> QED BY <1>2, Invariant, PTL DEF Spec, ClosedStartsNothing

(* The Job task keeps the contract the batch relies on: its end is reported   *)
(* after the end of its Pod, and no Pod starts before the dispatch or after   *)
(* the end.                                                                   *)
THEOREM Refinement == Spec => ContractSpec
<1> DEFINE Working == pod \in PodActive
<1>1. Init => Contract!Init
  <2> SUFFICES ASSUME Init PROVE Contract!Init
    OBVIOUS
  <2>1. ~Working /\ task.status = "queued" /\ runOpen = TRUE
    BY DEF Init, PodActive
  <2> QED BY <2>1 DEF Contract!Init
<1>2. ASSUME IInv, [Next]_vars
      PROVE  [Contract!Next]_(Contract!vars)
  <2>0. TypeOK /\ task \in Tasks
    BY <1>2 DEF IInv, TypeOK
  <2>1. ASSUME NEW c \in Controllers, ControllerStep(c)
        PROVE  [Contract!Next]_(Contract!vars)
    <3>0. pod' = pod /\ runOpen' = runOpen
      BY <2>1
      DEF ControllerStep, SweepQueued, SweepDispatched, SweepCanceling, PrepareDeliveryJob,
          CreateExecutionJob, CreateTimesOut, Reconcile, FindExpired, ExpireExecution,
          StopDeliveryJob, Write, CancelExecutionTask, Cancel, Abandon
    <3>1. CASE task'.status = task.status
      BY <3>0, <3>1 DEF Contract!vars
    <3>2. CASE SweepCanceling(c) \/ ExpireExecution(c) \/ CancelExecutionTask(c)
      <4>1. PICK reason : task' = Asked(reason)
        BY <3>2 DEF SweepCanceling, ExpireExecution, CancelExecutionTask, Cancel
      <4>2. task'.status = RequestStop(task.status)
        BY <2>0, <4>1 DEF Asked, Tasks
      <4>3. Contract!Stop
        BY <3>0, <4>2 DEF Contract!Stop, Contract!RequestStop, RequestStop
      <4> QED BY <4>3 DEF Contract!Next, Contract!TaskStep
    <3>3. CASE PrepareDeliveryJob(c) /\ task'.status # task.status
      <4>1. task.status = "queued" /\ runOpen /\ task'.status = "dispatching"
        BY <2>0, <3>3 DEF PrepareDeliveryJob, Tasks
      <4>2. Contract!Dispatch
        BY <3>0, <4>1 DEF Contract!Dispatch
      <4> QED BY <4>2 DEF Contract!Next, Contract!TaskStep
    <3>4. CASE Write(c) /\ task'.status # task.status
      <4>1. PICK result : result = controller[c].status
        OBVIOUS
      <4>2. /\ result \in TaskStatuses /\ HoldsTruth(c) /\ At(c, "write")
            /\ task'.status = StoredStatus(task.status, result)
        BY <1>2, <2>0, <3>4, <4>1, CopyType DEF Write, Updated, Tasks, IInv, At
      <4>3. task.status \notin TaskTerminal /\ result # task.status /\ result = task'.status
        BY <3>4, <4>2 DEF StoredStatus
      <4>4. CASE task.status = "queued"
        <5>1. ~task.ref
          BY <1>2, <4>4 DEF IInv, RowLeads
        <5>2. result = "failed"
          BY <4>1, <4>2, <5>1 DEF HoldsTruth
        <5>3. Contract!Disable
          BY <3>0, <4>3, <4>4, <5>2 DEF Contract!Disable
        <5> QED BY <5>3 DEF Contract!Next, Contract!TaskStep
      <4>5. CASE task.status \in TaskLive
        <5>1. task.ref /\ task.runnable
          BY <1>2, <4>5 DEF IInv, RowLeads, TaskLive
        <5>2. result # "queued" /\ (result \in TaskTerminal => JobIsOver)
          BY <4>1, <4>2, <5>1 DEF HoldsTruth
        <5>3. result \in TaskTerminal => ~Working
          BY <1>2, <5>2 DEF IInv, PodInJob, JobIsOver
        <5>4. result \in TaskReports
          BY <4>1, <4>2, <4>3, <4>5, <5>1
          DEF HoldsTruth, StopAsked, StoredStatus, TaskStatuses, TaskReports, TaskLive, TaskTerminal
        <5>5. Contract!Report(result)
          BY <3>0, <4>2, <4>5, <5>3, <5>4
          DEF Contract!Report, Contract!TaskLive, TaskLive, Contract!TaskTerminal, TaskTerminal,
              Contract!StoredStatus, StoredStatus
        <5> QED BY <5>4, <5>5
                DEF Contract!Next, Contract!TaskStep, Contract!TaskReports, TaskReports,
                    Contract!TaskTerminal, TaskTerminal
      <4> QED BY <2>0, <4>3, <4>4, <4>5 DEF Tasks, TaskStatuses, TaskTerminal, TaskLive
    <3>5. CASE \/ SweepQueued(c) \/ SweepDispatched(c) \/ CreateExecutionJob(c)
               \/ CreateTimesOut(c) \/ Reconcile(c) \/ FindExpired(c)
               \/ StopDeliveryJob(c) \/ Abandon(c)
      <4>1. task' = task
        BY <3>5 DEF SweepQueued, SweepDispatched, CreateExecutionJob, CreateTimesOut,
                    Reconcile, FindExpired, StopDeliveryJob, Abandon
      <4> QED BY <3>1, <4>1
    <3> QED BY <2>1, <3>1, <3>2, <3>3, <3>4, <3>5 DEF ControllerStep
  <2>2. CASE CloseRun \/ CreateArrives \/ UNCHANGED vars
    <3>1. task' = task /\ pod' = pod /\ (runOpen' = runOpen \/ (runOpen /\ runOpen' = FALSE))
      BY <2>2 DEF CloseRun, CreateArrives, vars
    <3> QED BY <3>1 DEF Contract!Next, Contract!TaskStep, Contract!Close, Contract!vars
  <2>3. CASE Kubernetes
    <3>1. task' = task /\ runOpen' = runOpen
      BY <2>3 DEF Kubernetes, StartPod, ObserveSuspension, ExceedDeadline, PodEnds, JobEnds
    <3>2. CASE ~Working'
      <4>1. Contract!EndWork
        BY <3>1, <3>2 DEF Contract!EndWork
      <4> QED BY <4>1 DEF Contract!Next, Contract!TaskStep
    <3>3. CASE Working /\ Working'
      BY <3>1, <3>3 DEF Contract!vars
    <3>4. CASE ~Working /\ Working'
      <4>1. StartPod
        BY <2>3, <3>4 DEF Kubernetes, ObserveSuspension, ExceedDeadline, PodEnds, JobEnds, PodActive
      <4>2. job.state = "active" /\ ~job.suspended
        BY <4>1 DEF StartPod
      <4>3. task.status \in TaskLive
        BY <1>2, <2>0, <4>2
        DEF IInv, RowLeads, JobIsOver, Tasks, TaskStatuses, TaskLive, TaskTerminal
      <4>4. Contract!StartWork
        BY <3>1, <3>4, <4>3 DEF Contract!StartWork, Contract!TaskLive, TaskLive
      <4> QED BY <4>4 DEF Contract!Next, Contract!TaskStep
    <3> QED BY <3>2, <3>3, <3>4
  <2> QED BY <1>2, <2>1, <2>2, <2>3 DEF Next
<1> QED BY <1>1, <1>2, Invariant, PTL DEF Spec, ContractSpec, Contract!Spec
=============================================================================
