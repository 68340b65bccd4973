------------------------- MODULE DeliveryRunProofs -------------------------
(* Theorems about DeliveryRun, for every batch, worker pool and bound. *)
EXTENDS DeliveryRun, FiniteSetTheorems, TLAPS

-----------------------------------------------------------------------------
(* The operators the actions are built from *)

(* A bumped counter differs from every other worker's copy (version + 1 and   *)
(* fencing_token + 1).                                                        *)
LEMMA FreshTokens ==
    ASSUME TypeOK, NEW S \in SUBSET Workers
    PROVE  /\ NextVersion(S) \in Tokens
           /\ NextFencing(S) \in Tokens
           /\ \A w \in S : worker[w].pc # "idle" =>
                /\ NextVersion(S) # worker[w].run.version
                /\ NextFencing(S) # worker[w].run.fencing
<1>1. \E t \in Tokens : \A w \in S : worker[w].pc # "idle" => t # worker[w].run.version
  <2>1. [w \in Workers |-> worker[w].run.version] \in [Workers -> Tokens]
    BY DEF TypeOK, Activities, Runs
  <2>2. PICK t \in Tokens : \A w \in Workers :
          [v \in Workers |-> worker[v].run.version][w] # t
    BY <2>1, TokensAssumption
  <2> QED BY <2>2
<1>2. \E t \in Tokens : \A w \in S : worker[w].pc # "idle" => t # worker[w].run.fencing
  <2>1. [w \in Workers |-> worker[w].run.fencing] \in [Workers -> Tokens]
    BY DEF TypeOK, Activities, Runs
  <2>2. PICK t \in Tokens : \A w \in Workers :
          [v \in Workers |-> worker[v].run.fencing][w] # t
    BY <2>1, TokensAssumption
  <2> QED BY <2>2
<1> QED BY <1>1, <1>2 DEF NextVersion, NextFencing

LEMMA NewRunType == NewRun \in Runs /\ Idle \in Activities
<1>1. NoToken \in Tokens
  BY TokensAssumption DEF NoToken
<1>2. NewRun \in Runs
  BY <1>1 DEF NewRun, Runs, RunStatuses, NodeStatuses
<1> QED BY <1>2 DEF Idle, Activities, Phases

LEMMA IdleFacts == Idle.pc = "idle" /\ Idle.run.status = "queued"
BY DEF Idle, NewRun

LEMMA InitType == Init => TypeOK
BY NewRunType, BoundsAssumption DEF Init, TypeOK, NoTask

-----------------------------------------------------------------------------
(* Type correctness *)

LEMMA SavedType ==
    ASSUME TypeOK, NEW w \in Workers, NEW run \in Runs, NEW release \in BOOLEAN
    PROVE  Saved(w, run, release) \in Runs
<1>1. NextVersion(Workers \ {w}) \in Tokens
  BY FreshTokens
<1> QED BY <1>1 DEF Saved, TypeOK, Runs

LEMMA PersistType ==
    ASSUME TypeOK, NEW w \in Workers, NEW run \in Runs, NEW release \in BOOLEAN,
           NEW next \in Activities, Persist(w, run, release, next)
    PROVE  row' \in Runs /\ worker' \in [Workers -> Activities]
<1>1. Saved(w, run, release) \in Runs
  BY SavedType
<1>2. [next EXCEPT !.run = Saved(w, run, release)] \in Activities
  BY <1>1 DEF Activities
<1> QED BY <1>1, <1>2, NewRunType DEF Persist, TypeOK

LEMMA StoppedType ==
    ASSUME TypeOK, NEW reason \in {"user", "failure"}
    PROVE  StopManagedRun(reason) \in Runs
<1>1. NextVersion(Workers) \in Tokens
  BY FreshTokens
<1> QED BY <1>1 DEF StopManagedRun, TypeOK, Runs, RunStatuses

LEMMA CancelPendingType ==
    ASSUME NEW run \in Runs
    PROVE  CancelPending(run) \in Runs
BY DEF CancelPending, Runs, NodeStatuses, NodeTerminal

LEMMA AfterCheckType ==
    ASSUME NEW activity \in Activities, NEW run \in Runs
    PROVE  AfterCheck(activity, run) \in Activities
<1>1. CancelPending(run) \in Runs
  BY CancelPendingType
<1>2. Active(run.nodes) \in SUBSET Nodes
  BY DEF Active
<1> QED BY <1>1, <1>2 DEF AfterCheck, Activities, Phases

LEMMA ClaimType ==
    ASSUME TypeOK, NEW w \in Workers
    PROVE  Claimed(w) \in Runs
<1>1. NextVersion(Workers) \in Tokens /\ NextFencing(Workers) \in Tokens
  BY FreshTokens
<1> QED BY <1>1, OwnerAssumption DEF Claimed, TypeOK, Runs

LEMMA ProjectedType ==
    ASSUME NEW status \in TaskStatuses
    PROVE  Projected(status) \in NodeStatuses \ {"pending", "skipped"}
BY DEF Projected, TaskStatuses, NodeStatuses, NodeActive, NodeTerminal

LEMMA RunStatusType ==
    ASSUME NEW run \in Runs
    PROVE  RunStatus(run) \in RunStatuses
BY DEF RunStatus, Runs, RunStatuses, RunTerminal

LEMMA ResultType ==
    ASSUME TypeOK, NEW w \in Workers, NEW n \in Nodes
    PROVE  /\ NodeDropped(w, n) => worker' \in [Workers -> Activities]
           /\ \A status \in NodeStatuses :
                NodeResult(w, n, status) => worker' \in [Workers -> Activities]
<1>1. /\ worker[w] \in Activities
      /\ worker[w].run \in Runs
      /\ worker[w].run.nodes \in [Nodes -> NodeStatuses]
  BY DEF TypeOK, Activities, Runs
<1> DEFINE dropped == [worker[w] EXCEPT !.todo = @ \ {n}, !.checked = @ \ {n}]
<1>2. dropped \in Activities
  BY <1>1 DEF Activities
<1>3. ASSUME NEW status \in NodeStatuses
      PROVE  [dropped EXCEPT !.run.nodes[n] = status] \in Activities
  <2>1. [worker[w].run.nodes EXCEPT ![n] = status] \in [Nodes -> NodeStatuses]
    BY <1>1
  <2>2. [worker[w].run EXCEPT !.nodes[n] = status] \in Runs
    BY <1>1, <2>1 DEF Runs
  <2> QED BY <1>1, <2>2 DEF Activities
<1>4. NodeDropped(w, n) => worker' \in [Workers -> Activities]
  BY <1>2 DEF NodeDropped, TypeOK, Activities
<1>5. ASSUME NEW status \in NodeStatuses, NodeResult(w, n, status)
      PROVE  worker' \in [Workers -> Activities]
  <2>1. worker' = [worker EXCEPT ![w] = [dropped EXCEPT !.run.nodes[n] = status]]
    BY <1>1, <1>5 DEF NodeResult, TypeOK, Activities, Runs
  <2> QED BY <1>3, <2>1 DEF TypeOK
<1> QED BY <1>4, <1>5

LEMMA NodeStepType ==
    ASSUME TypeOK, NEW w \in Workers, NEW n \in Nodes, NodeStep(w, n)
    PROVE  TypeOK'
<1>1. /\ worker[w] \in Activities
      /\ worker[w].run \in Runs
      /\ tasks[n] \in TaskStatuses \cup {NoTask}
      /\ worker \in [Workers -> Activities]
      /\ tasks \in [Nodes -> TaskStatuses \cup {NoTask}]
  BY DEF TypeOK, Activities
<1>2. /\ "completed" \in NodeStatuses /\ "failed" \in NodeStatuses
      /\ "canceled" \in NodeStatuses /\ "canceling" \in NodeStatuses
      /\ "waiting_execution" \in NodeStatuses /\ "waiting_approval" \in NodeStatuses
  BY DEF NodeStatuses, NodeActive, NodeTerminal
<1>3. /\ NodeDropped(w, n) => worker' \in [Workers -> Activities]
      /\ \A status \in NodeStatuses :
           NodeResult(w, n, status) => worker' \in [Workers -> Activities]
  BY ResultType
<1>4. CASE CheckNode(w, n)
  <2>1. [worker[w] EXCEPT !.checked = @ \cup {n}] \in Activities
    BY <1>1 DEF Activities
  <2>2. worker' \in [Workers -> Activities]
    BY <1>1, <1>2, <1>3, <1>4, <2>1 DEF CheckNode, Activities
  <2> QED BY <1>4, <2>2 DEF CheckNode, TypeOK
<1>5. CASE CreateTask(w, n)
  BY <1>1, <1>3, <1>5 DEF CreateTask, TypeOK, TaskStatuses
<1>6. CASE ObserveTask(w, n)
  <2>1. TaskOutcomes(n) \subseteq NodeStatuses
    BY <1>1, <1>2, <1>6, ProjectedType DEF ObserveTask, TaskOutcomes
  <2> QED BY <1>3, <1>6, <2>1 DEF ObserveTask, TypeOK
<1>7. CASE ObserveHealth(w, n)
  BY <1>2, <1>3, <1>7 DEF ObserveHealth, TypeOK
<1>8. CASE RejectStage(w, n)
  BY <1>2, <1>3, <1>8 DEF RejectStage, TypeOK
<1>9. CASE CancelNode(w, n)
  <2>1. tasks[n] # NoTask => RequestStop(tasks[n]) \in TaskStatuses
    BY <1>1 DEF RequestStop, TaskStatuses
  <2>2. CancelStage(n) \in TaskStatuses \cup {NoTask}
    BY <1>1, <2>1 DEF CancelStage
  <2>3. CanceledAs(n) \in NodeStatuses
    BY <1>1, <1>2, <2>1, ProjectedType DEF CanceledAs
  <2>4. worker' \in [Workers -> Activities]
    BY <1>2, <1>3, <1>9, <2>3 DEF CancelNode
  <2> QED BY <1>1, <1>9, <2>2, <2>4 DEF CancelNode, TypeOK
<1>10. CASE NodeError(w, n)
  BY <1>3, <1>10, BoundsAssumption DEF NodeError, TypeOK
<1> QED BY <1>4, <1>5, <1>6, <1>7, <1>8, <1>9, <1>10 DEF NodeStep

LEMMA WorkerStepType ==
    ASSUME TypeOK, NEW w \in Workers, WorkerStep(w)
    PROVE  TypeOK'
<1>1. /\ worker[w] \in Activities
      /\ worker[w].run \in Runs
      /\ worker[w].run.nodes \in [Nodes -> NodeStatuses]
      /\ worker \in [Workers -> Activities]
      /\ row \in Runs
  BY DEF TypeOK, Activities, Runs
<1>2. Idle \in Activities
  BY NewRunType
<1>3. CASE ClaimManagedRun(w)
  <2>1. [Idle EXCEPT !.pc = "claimed", !.run = Claimed(w)] \in Activities
    BY <1>2, ClaimType DEF Activities
  <2> QED BY <1>1, <1>3, <2>1, ClaimType DEF ClaimManagedRun, TypeOK
<1>4. CASE BeginTick(w)
  <2>1. [worker[w] EXCEPT !.pc = "check"] \in Activities
    BY <1>1 DEF Activities
  <2> QED BY <1>1, <1>2, <1>4, <2>1 DEF BeginTick, TypeOK
<1>5. CASE CheckFailed(w)
  <2>1. StopManagedRun("failure") \in Runs
    BY StoppedType
  <2>2. [StopManagedRun("failure") EXCEPT !.nodes = worker[w].run.nodes] \in Runs
    BY <1>1, <2>1 DEF Runs
  <2>3. AdoptStopped(worker[w], StopManagedRun("failure")) \in Activities
    BY <1>1, <1>2, <2>2, AfterCheckType DEF AdoptStopped
  <2>4. AfterCheck(worker[w], worker[w].run) \in Activities
    BY <1>1, AfterCheckType
  <2> QED BY <1>1, <1>5, <2>1, <2>3, <2>4 DEF CheckFailed, TypeOK
<1>6. CASE SelectReady(w)
  <2>1. PICK skipped \in SUBSET Nodes :
          SelectReady(w)!2!(skipped)
    BY <1>6 DEF SelectReady
  <2> DEFINE chosen == FirstOf(Ready(skipped, worker[w].run.nodes), Free(worker[w].run.nodes))
             marked == [worker[w].run EXCEPT !.nodes = [n \in Nodes |->
                          IF n \in skipped THEN "skipped"
                          ELSE IF n \in chosen THEN "running" ELSE @[n]]]
  <2>2. chosen \in SUBSET Nodes
    BY DEF FirstOf, Ready
  <2>3. marked \in Runs
    BY <1>1 DEF Runs, NodeStatuses, NodeActive, NodeTerminal
  <2>4. CASE chosen = {}
    <3>1. [worker[w] EXCEPT !.pc = "finish", !.run = marked] \in Activities
      BY <1>1, <2>3 DEF Activities
    <3>2. worker' = [worker EXCEPT ![w].pc = "finish", ![w].run = marked] /\ row' = row
      BY <2>1, <2>4
    <3>3. worker' = [worker EXCEPT ![w] = [worker[w] EXCEPT !.pc = "finish", !.run = marked]]
      BY <1>1, <3>2 DEF Activities
    <3> HIDE DEF marked
    <3> QED BY <1>1, <1>6, <3>1, <3>2, <3>3 DEF SelectReady, TypeOK
  <2>5. CASE chosen # {}
    <3>1. [worker[w] EXCEPT !.pc = "execute", !.todo = chosen] \in Activities
      BY <1>1, <2>2 DEF Activities
    <3>2. Persist(w, marked, FALSE, [worker[w] EXCEPT !.pc = "execute", !.todo = chosen])
      BY <2>1, <2>5
    <3> HIDE DEF marked, chosen
    <3>3. row' \in Runs /\ worker' \in [Workers -> Activities]
      BY <2>3, <3>1, <3>2, PersistType
    <3> QED BY <1>6, <3>3 DEF SelectReady, TypeOK
  <2> QED BY <2>4, <2>5
<1>7. CASE \E n \in Nodes : NodeStep(w, n)
  BY <1>7, NodeStepType
<1>8. CASE SaveResults(w)
  <2>1. NextPass(worker[w]) \in Activities
    BY <1>1 DEF NextPass, Activities, Phases
  <2>2. row' \in Runs /\ worker' \in [Workers -> Activities]
    BY <1>1, <1>8, <2>1, PersistType DEF SaveResults
  <2> QED BY <1>8, <2>2 DEF SaveResults, TypeOK
<1>9. CASE FinishTick(w)
  <2> DEFINE run == [worker[w].run EXCEPT !.status = RunStatus(worker[w].run)]
  <2>1. run \in Runs
    BY <1>1, RunStatusType DEF Runs
  <2>2. Saved(w, run, TRUE) \in Runs
    BY <2>1, SavedType
  <2>3. row' \in Runs
    BY <1>1, <1>9, <2>2 DEF FinishTick
  <2> QED BY <1>1, <1>2, <1>9, <2>3 DEF FinishTick, TypeOK
<1> QED BY <1>3, <1>4, <1>5, <1>6, <1>7, <1>8, <1>9 DEF WorkerStep

LEMMA TypeInductive ==
    ASSUME TypeOK, [Next]_vars
    PROVE  TypeOK'
<1>1. CASE \E w \in Workers : WorkerStep(w)
  BY <1>1, WorkerStepType
<1>2. CASE \E w \in Workers : AbandonTick(w)
  BY <1>2, NewRunType, BoundsAssumption DEF AbandonTick, TypeOK
<1>3. CASE ExpireLease
  <2>1. row' \in Runs
    BY <1>3 DEF ExpireLease, TypeOK, Runs
  <2>2. CASE LeaseHeld
    BY <1>3, <2>1, <2>2, BoundsAssumption DEF ExpireLease, TypeOK
  <2>3. CASE ~ LeaseHeld
    BY <1>3, <2>1, <2>3 DEF ExpireLease, TypeOK
  <2> QED BY <2>2, <2>3
<1>4. CASE UserStop
  BY <1>4, StoppedType DEF UserStop, TypeOK
<1>5. ASSUME NEW n \in Nodes, ExecutorStep(n)
      PROVE  TypeOK'
  <2>1. tasks' \in [Nodes -> TaskStatuses \cup {NoTask}]
    BY <1>5 DEF ExecutorStep, DispatchTask, DisableProvider, ReportTask, StopTask, TypeOK,
                StoredStatus, RequestStop, TaskStatuses, TaskReports, TaskTerminal
  <2> QED BY <1>5, <2>1 DEF ExecutorStep, DispatchTask, DisableProvider, ReportTask, StopTask, TypeOK
<1>6. CASE UNCHANGED vars
  BY <1>6 DEF vars, TypeOK
<1> QED BY <1>1, <1>2, <1>3, <1>4, <1>5, <1>6 DEF Next

(* Type correctness: every status, lease, copy and task stays in its set,     *)
(* whatever the batch and however many workers and failures.                  *)
THEOREM TypeCorrect == Spec => []TypeOK
BY InitType, TypeInductive, PTL DEF Spec

-----------------------------------------------------------------------------
(* The inductive invariant: steps that leave the row alone *)

LEMMA OnlyHolder ==
    ASSUME FencesApart, NEW v \in Workers, NEW w \in Workers, v # w, Holder(w)
    PROVE  ~ Holder(v)
BY DEF FencesApart, Holder

LEMMA InitInductive == Init => IInv
<1> SUFFICES ASSUME Init PROVE IInv
  OBVIOUS
<1>1. TypeOK
  BY InitType
<1>2. \A n \in Nodes : row.nodes[n] = "pending" /\ tasks[n] = NoTask
  BY DEF Init, NewRun
<1>3. NodesAreHonest
  BY <1>2 DEF NodesAreHonest, Mutating, NodeTerminal
<1>4. \A w \in Workers : worker[w].pc = "idle" /\ worker[w].run.status = "queued"
  BY DEF Init, Idle, NewRun
<1>5. FencesApart
  BY <1>4 DEF FencesApart
<1>6. \A w \in Workers : HolderOwns(w) /\ HolderCopy(w) /\ StopIsThorough(w)
  BY <1>4 DEF HolderOwns, HolderCopy, StopIsThorough, Holder, RunTerminal
<1>7. EndIsFinal
  BY DEF Init, NewRun, EndIsFinal, RunTerminal
<1> QED BY <1>1, <1>3, <1>5, <1>6, <1>7 DEF IInv

(* A step that changes neither the row nor another worker, and changes a task *)
(* only if an executor has it or the holder is at its node.                   *)
LEMMA Frame ==
    ASSUME IInv, TypeOK', row' = row, NEW w \in Workers,
           \A v \in Workers : v # w => worker'[v] = worker[v],
           worker'[w].pc # "idle" =>
               worker[w].pc # "idle" /\ worker'[w].run.fencing = worker[w].run.fencing,
           \A m \in Nodes : tasks'[m] # tasks[m] =>
               tasks[m] \in AtWork \/ (Holder(w) /\ row.nodes[m] \in NodeActive),
           HolderOwns(w)', HolderCopy(w)', StopIsThorough(w)'
    PROVE  IInv'
<1>1. NodesAreHonest'
  <2> SUFFICES ASSUME NEW n \in Mutating
               PROVE  /\ row.nodes[n] \in NodeTerminal => tasks'[n] \notin AtWork
                      /\ row.nodes[n] = "completed" => tasks'[n] = "completed"
                      /\ row.nodes[n] \in {"pending", "skipped"} => tasks'[n] = NoTask
    BY DEF NodesAreHonest
  <2>1. n \in Nodes
    BY DEF Mutating
  <2>2. /\ row.nodes[n] \in NodeTerminal => tasks[n] \notin AtWork
        /\ row.nodes[n] = "completed" => tasks[n] = "completed"
        /\ row.nodes[n] \in {"pending", "skipped"} => tasks[n] = NoTask
    BY DEF IInv, NodesAreHonest
  <2>3. NoTask \notin AtWork /\ "completed" \notin AtWork
    BY DEF AtWork, TaskLive, NoTask
  <2> QED BY <2>1, <2>2, <2>3 DEF NodeActive, NodeTerminal
<1>2. FencesApart'
  BY DEF IInv, FencesApart
<1>3. ASSUME NEW v \in Workers
      PROVE  (HolderOwns(v) /\ HolderCopy(v) /\ StopIsThorough(v))'
  <2>1. CASE v = w
    BY <2>1
  <2>2. CASE v # w
    <3>1. worker'[v] = worker[v]
      BY <2>2
    <3>2. HolderOwns(v) /\ HolderCopy(v) /\ StopIsThorough(v)
      BY DEF IInv
    <3>3. Holder(v)' <=> Holder(v)
      BY <3>1 DEF Holder
    <3>4. HolderOwns(v)' /\ StopIsThorough(v)'
      BY <3>1, <3>2, <3>3 DEF HolderOwns, StopIsThorough
    <3>5. HolderCopy(v)'
      <4> SUFFICES ASSUME Holder(v)'
                   PROVE  HolderCopy(v)'
        BY DEF HolderCopy
      <4>1. Holder(v) /\ ~ Holder(w)
        BY <2>2, <3>3, OnlyHolder DEF IInv
      <4>2. ASSUME NEW n \in Mutating
            PROVE  /\ worker[v].run.nodes[n] \in NodeTerminal => tasks'[n] \notin AtWork
                   /\ worker[v].run.nodes[n] = "completed" => tasks'[n] = "completed"
        <5>1. /\ worker[v].run.nodes[n] \in NodeTerminal => tasks[n] \notin AtWork
              /\ worker[v].run.nodes[n] = "completed" => tasks[n] = "completed"
          BY <3>2, <4>1 DEF HolderCopy
        <5>2. tasks'[n] # tasks[n] => tasks[n] \in AtWork
          BY <4>1 DEF Mutating
        <5> QED BY <5>1, <5>2 DEF NodeTerminal
      <4> QED BY <3>1, <3>2, <4>1, <4>2 DEF HolderCopy, Changed
    <3> QED BY <3>4, <3>5
  <2> QED BY <2>1, <2>2
<1>4. EndIsFinal'
  BY DEF IInv, EndIsFinal
<1> QED BY <1>1, <1>2, <1>3, <1>4 DEF IInv

(* A worker that gives up (persistence refused, conflict, crash). *)
LEMMA GiveUpKeeps ==
    ASSUME IInv, TypeOK', NEW w \in Workers, row' = row, tasks' = tasks,
           worker' = [worker EXCEPT ![w] = Idle]
    PROVE  IInv'
<1>1. worker'[w].pc = "idle" /\ worker'[w].run.status = "queued"
  BY DEF IInv, TypeOK, Idle, NewRun
<1>2. HolderOwns(w)' /\ HolderCopy(w)' /\ StopIsThorough(w)'
  BY <1>1 DEF HolderOwns, HolderCopy, StopIsThorough, Holder, RunTerminal
<1>3. \A v \in Workers : v # w => worker'[v] = worker[v]
  BY DEF IInv, TypeOK
<1> QED BY <1>1, <1>2, <1>3, Frame

(* A node's result (executeDeliveryNode): the copy is changed at a node that  *)
(* is at work in the row.                                                     *)
LEMMA ResultKeeps ==
    ASSUME IInv, TypeOK', NEW w \in Workers, NEW n \in Nodes, Executing(w, n), row' = row,
           NEW status \in NodeStatuses \ {"pending", "skipped"}, NodeResult(w, n, status),
           \A m \in Nodes : tasks'[m] # tasks[m] => m = n /\ tasks[m] \in AtWork,
           n \in Mutating =>
               /\ status \in NodeTerminal => tasks'[n] \notin AtWork
               /\ status = "completed" => tasks'[n] = "completed"
    PROVE  IInv'
<1>1. /\ worker' = [worker EXCEPT ![w].run.nodes[n] = status,
                                  ![w].todo = @ \ {n}, ![w].checked = @ \ {n}]
      /\ worker \in [Workers -> Activities]
      /\ worker[w] \in Activities
      /\ worker[w].run \in Runs
      /\ worker[w].run.nodes \in [Nodes -> NodeStatuses]
      /\ HolderOwns(w) /\ HolderCopy(w) /\ StopIsThorough(w)
  BY DEF NodeResult, IInv, TypeOK, Activities, Runs
<1>2. /\ worker'[w].pc = worker[w].pc
      /\ worker'[w].phase = worker[w].phase
      /\ worker'[w].todo = worker[w].todo \ {n}
      /\ worker'[w].run.status = worker[w].run.status
      /\ worker'[w].run.stop = worker[w].run.stop
      /\ worker'[w].run.version = worker[w].run.version
      /\ worker'[w].run.fencing = worker[w].run.fencing
      /\ worker'[w].run.owner = worker[w].run.owner
      /\ worker'[w].run.nodes = [worker[w].run.nodes EXCEPT ![n] = status]
  BY <1>1 DEF Activities, Runs
<1>3. \A v \in Workers : v # w => worker'[v] = worker[v]
  BY <1>1
<1>4. Holder(w)' <=> Holder(w)
  BY <1>2 DEF Holder
<1>5. HolderOwns(w)'
  BY <1>1, <1>2, <1>4 DEF HolderOwns
<1>6. StopIsThorough(w)'
  <2>1. NothingPending(worker[w].run.nodes) => NothingPending(worker'[w].run.nodes)
    BY <1>1, <1>2 DEF NothingPending
  <2> QED BY <1>1, <1>2, <2>1 DEF StopIsThorough
<1>7. HolderCopy(w)'
  <2> SUFFICES ASSUME Holder(w) PROVE HolderCopy(w)'
    BY <1>4 DEF HolderCopy
  <2>1. worker[w].pc = "execute" /\ worker[w].todo \subseteq Active(row.nodes)
    BY <1>1 DEF HolderCopy, Executing
  <2>2. row.nodes[n] \in NodeActive
    BY <2>1 DEF Executing, Active
  <2>3. ASSUME NEW m \in Nodes, worker'[w].run.nodes[m] # row.nodes[m]
        PROVE  Changed(w, m)'
    <3>1. CASE m = n
      <4>1. worker'[w].run.nodes[n] = status /\ n \notin worker'[w].todo
        BY <1>1, <1>2
      <4> QED BY <2>2, <3>1, <4>1 DEF Changed
    <3>2. CASE m # n
      BY <1>1, <1>2, <2>3, <3>2 DEF HolderCopy, Changed
    <3> QED BY <3>1, <3>2
  <2>4. ASSUME NEW m \in Mutating
        PROVE  /\ worker'[w].run.nodes[m] \in NodeTerminal => tasks'[m] \notin AtWork
               /\ worker'[w].run.nodes[m] = "completed" => tasks'[m] = "completed"
    BY <1>1, <1>2 DEF HolderCopy, Mutating
  <2> QED BY <1>2, <2>1, <2>3, <2>4 DEF HolderCopy
<1>8. ASSUME NEW m \in Nodes, tasks'[m] # tasks[m]
      PROVE  tasks[m] \in AtWork \/ (Holder(w) /\ row.nodes[m] \in NodeActive)
  BY <1>8
<1>9. worker'[w].pc # "idle" =>
        worker[w].pc # "idle" /\ worker'[w].run.fencing = worker[w].run.fencing
  BY <1>2
<1> QED BY <1>3, <1>5, <1>6, <1>7, <1>8, <1>9, Frame

LEMMA DroppedKeeps ==
    ASSUME IInv, TypeOK', NEW w \in Workers, NEW n \in Nodes, Executing(w, n), row' = row,
           NodeDropped(w, n), tasks' = tasks
    PROVE  IInv'
<1>1. /\ worker' = [worker EXCEPT ![w].todo = @ \ {n}, ![w].checked = @ \ {n}]
      /\ worker \in [Workers -> Activities]
      /\ worker[w] \in Activities
      /\ HolderOwns(w) /\ HolderCopy(w) /\ StopIsThorough(w)
  BY DEF NodeDropped, IInv, TypeOK
<1>2. /\ worker'[w].pc = worker[w].pc
      /\ worker'[w].phase = worker[w].phase
      /\ worker'[w].todo = worker[w].todo \ {n}
      /\ worker'[w].run = worker[w].run
  BY <1>1 DEF Activities
<1>3. \A v \in Workers : v # w => worker'[v] = worker[v]
  BY <1>1
<1>4. Holder(w)' <=> Holder(w)
  BY <1>2 DEF Holder
<1>5. HolderOwns(w)' /\ StopIsThorough(w)'
  BY <1>1, <1>2, <1>4 DEF HolderOwns, StopIsThorough
<1>6. HolderCopy(w)'
  BY <1>1, <1>2, <1>4 DEF HolderCopy, Changed
<1> QED BY <1>2, <1>3, <1>5, <1>6, Frame

LEMMA NodeStepKeeps ==
    ASSUME IInv, TypeOK', NEW w \in Workers, NEW n \in Nodes, NodeStep(w, n)
    PROVE  IInv'
<1>1. /\ tasks \in [Nodes -> TaskStatuses \cup {NoTask}]
      /\ worker \in [Workers -> Activities]
      /\ worker[w] \in Activities
      /\ HolderOwns(w) /\ HolderCopy(w) /\ StopIsThorough(w)
      /\ FencesApart
  BY DEF IInv, TypeOK
<1>2. /\ {"completed", "failed", "canceled", "canceling", "waiting_execution",
          "waiting_approval"} \subseteq NodeStatuses \ {"pending", "skipped"}
      /\ NoTask \notin AtWork
      /\ \A status \in TaskTerminal : status \notin AtWork
  BY DEF NodeStatuses, NodeActive, NodeTerminal, AtWork, TaskLive, TaskTerminal, NoTask
<1>3. CASE CheckNode(w, n)
  <2>1. CASE ~ SameLease(worker[w].run, row)
    BY <1>3, <2>1, DroppedKeeps DEF CheckNode
  <2>2. CASE SameLease(worker[w].run, row) /\ Stage[n] = "barrier"
    <3>1. NodeResult(w, n, "completed") /\ n \notin Mutating
      BY <1>3, <2>2 DEF CheckNode, Mutating, MutatingStages
    <3> QED BY <1>2, <1>3, <3>1, ResultKeeps DEF CheckNode
  <2>3. CASE SameLease(worker[w].run, row) /\ Stage[n] # "barrier"
    <3>1. worker' = [worker EXCEPT ![w].checked = @ \cup {n}] /\ row' = row /\ tasks' = tasks
      BY <1>3, <2>3 DEF CheckNode
    <3>2. /\ worker'[w].pc = worker[w].pc
          /\ worker'[w].phase = worker[w].phase
          /\ worker'[w].todo = worker[w].todo
          /\ worker'[w].run = worker[w].run
      BY <1>1, <3>1 DEF Activities
    <3>3. \A v \in Workers : v # w => worker'[v] = worker[v]
      BY <1>1, <3>1
    <3>4. HolderOwns(w)' /\ HolderCopy(w)' /\ StopIsThorough(w)'
      BY <1>1, <3>1, <3>2 DEF HolderOwns, HolderCopy, StopIsThorough, Holder, Changed
    <3> QED BY <3>1, <3>2, <3>3, <3>4, Frame
  <2> QED BY <2>1, <2>2, <2>3
<1>4. CASE CreateTask(w, n)
  <2>1. CASE ~ LockDeliveryNode(worker[w].run, n)
    BY <1>4, <2>1, DroppedKeeps DEF CreateTask, Working
  <2>2. CASE LockDeliveryNode(worker[w].run, n)
    <3>1. /\ tasks' = [tasks EXCEPT ![n] = "queued"]
          /\ worker' = worker
          /\ row' = row
          /\ worker[w].pc = "execute"
          /\ n \in worker[w].todo
      BY <1>4, <2>2 DEF CreateTask, Working, Executing
    <3>2. Holder(w) /\ row.nodes[n] \in NodeActive
      BY <2>2, <3>1 DEF LockDeliveryNode, SameLease, Holder, NodeActive
    <3>3. worker[w].run.nodes[n] = row.nodes[n]
      BY <1>1, <3>1, <3>2 DEF HolderCopy, Changed, NodeActive
    <3>4. HolderCopy(w)'
      <4>1. \A m \in Nodes : m # n => tasks'[m] = tasks[m]
        BY <1>1, <3>1
      <4>2. ASSUME NEW m \in Mutating
            PROVE  /\ worker[w].run.nodes[m] \in NodeTerminal => tasks'[m] \notin AtWork
                   /\ worker[w].run.nodes[m] = "completed" => tasks'[m] = "completed"
        BY <1>1, <3>2, <3>3, <4>1 DEF HolderCopy, Mutating, NodeActive, NodeTerminal
      <4> QED BY <1>1, <3>1, <3>2, <4>2 DEF HolderCopy, Holder, Changed
    <3>5. HolderOwns(w)' /\ StopIsThorough(w)'
      BY <1>1, <3>1 DEF HolderOwns, StopIsThorough, Holder
    <3>6. \A m \in Nodes : tasks'[m] # tasks[m] =>
            tasks[m] \in AtWork \/ (Holder(w) /\ row.nodes[m] \in NodeActive)
      BY <1>1, <3>1, <3>2
    <3> QED BY <3>1, <3>4, <3>5, <3>6, Frame
  <2> QED BY <2>1, <2>2
<1>5. CASE ObserveTask(w, n)
  <2>1. PICK status \in TaskOutcomes(n) : NodeResult(w, n, status)
    BY <1>5 DEF ObserveTask
  <2>2. tasks[n] \in TaskStatuses
    BY <1>1, <1>5 DEF ObserveTask
  <2>3. status \in NodeStatuses \ {"pending", "skipped"}
    BY <1>2, <2>1, <2>2, ProjectedType DEF TaskOutcomes
  <2>4. n \in Mutating => /\ status \in NodeTerminal => tasks[n] \notin AtWork
                          /\ status = "completed" => tasks[n] = "completed"
    BY <2>1, <2>2 DEF TaskOutcomes, Projected, Mutating, MutatingStages, NodeTerminal,
                      AtWork, TaskLive, TaskStatuses
  <2> QED BY <1>5, <2>1, <2>3, <2>4, ResultKeeps DEF ObserveTask, Working
<1>6. CASE ObserveHealth(w, n)
  <2>1. n \notin Mutating
    BY <1>6 DEF ObserveHealth, Mutating, MutatingStages
  <2> QED BY <1>2, <1>6, <2>1, ResultKeeps DEF ObserveHealth, Working
<1>7. CASE RejectStage(w, n)
  <2>1. n \in Mutating => tasks[n] = NoTask
    BY <1>7 DEF RejectStage, Mutating, MutatingStages
  <2> QED BY <1>2, <1>7, <2>1, ResultKeeps DEF RejectStage, Working
<1>8. CASE CancelNode(w, n)
  <2> DEFINE status == IF CanceledAs(n) \notin NodeTerminal THEN "canceling"
                       ELSE IF CanceledAs(n) = "canceled" /\ worker[w].run.stop = "" THEN "failed"
                       ELSE CanceledAs(n)
  <2>1. NodeResult(w, n, status) /\ tasks' = [tasks EXCEPT ![n] = CancelStage(n)]
        /\ row' = row /\ Executing(w, n)
    BY <1>8 DEF CancelNode
  <2>2. status \in NodeStatuses \ {"pending", "skipped"}
    <3>1. tasks[n] # NoTask => RequestStop(tasks[n]) \in TaskStatuses
      BY <1>1 DEF RequestStop, TaskStatuses
    <3>2. CanceledAs(n) \in NodeStatuses \ {"pending", "skipped"}
      BY <1>1, <1>2, <3>1, ProjectedType DEF CanceledAs
    <3> QED BY <1>2, <3>2
  <2>3. tasks'[n] = CancelStage(n) /\ \A m \in Nodes : m # n => tasks'[m] = tasks[m]
    BY <1>1, <2>1
  <2>4. CancelStage(n) # tasks[n] => tasks[n] \in AtWork
    BY DEF CancelStage, RequestStop, AtWork, TaskLive
  <2>5. n \in Mutating => /\ status \in NodeTerminal => CancelStage(n) \notin AtWork
                          /\ status = "completed" => CancelStage(n) = "completed"
    BY <1>1, <1>2 DEF CancelStage, CanceledAs, Unstoppable, RequestStop, Projected, Mutating,
          MutatingStages, NodeTerminal, AtWork, TaskLive, TaskStatuses
  <2> HIDE DEF status
  <2> QED BY <2>1, <2>2, <2>3, <2>4, <2>5, ResultKeeps
<1>9. CASE NodeError(w, n)
  BY <1>9, DroppedKeeps DEF NodeError
<1> QED BY <1>3, <1>4, <1>5, <1>6, <1>7, <1>8, <1>9 DEF NodeStep

(* Executors change only tasks they have. *)
LEMMA ExecutorStepKeeps ==
    ASSUME IInv, TypeOK', NEW n \in Nodes, ExecutorStep(n)
    PROVE  IInv'
<1>1. /\ row' = row /\ worker' = worker
      /\ \A m \in Nodes : tasks'[m] # tasks[m] => tasks[m] \in AtWork
  BY DEF ExecutorStep, DispatchTask, DisableProvider, ReportTask, StopTask, AtWork, TaskLive,
         IInv, TypeOK
<1>2. NodesAreHonest'
  <2>1. NoTask \notin AtWork /\ "completed" \notin AtWork
    BY DEF AtWork, TaskLive, NoTask
  <2>2. NodesAreHonest /\ Mutating \subseteq Nodes
    BY DEF IInv, Mutating
  <2> QED BY <1>1, <2>1, <2>2 DEF NodesAreHonest, NodeTerminal
<1>3. ASSUME NEW w \in Workers
      PROVE  (HolderOwns(w) /\ HolderCopy(w) /\ StopIsThorough(w))'
  <2>1. HolderOwns(w) /\ HolderCopy(w) /\ StopIsThorough(w)
    BY DEF IInv
  <2>2. HolderOwns(w)' /\ StopIsThorough(w)'
    BY <1>1, <2>1 DEF HolderOwns, StopIsThorough, Holder
  <2>3. ASSUME NEW m \in Mutating, Holder(w)
        PROVE  /\ worker[w].run.nodes[m] \in NodeTerminal => tasks'[m] \notin AtWork
               /\ worker[w].run.nodes[m] = "completed" => tasks'[m] = "completed"
    BY <1>1, <2>1, <2>3 DEF HolderCopy, Mutating, NodeTerminal
  <2> QED BY <1>1, <2>1, <2>2, <2>3 DEF HolderCopy, Holder, Changed
<1> QED BY <1>1, <1>2, <1>3 DEF IInv, FencesApart, EndIsFinal

-----------------------------------------------------------------------------
(* The inductive invariant: steps that write the row *)

(* Only the holder's save is accepted, and it is accepted only if nobody      *)
(* stopped the run since the copy was taken.                                  *)
LEMMA AcceptedIsHolder ==
    ASSUME IInv, NEW w \in Workers, worker[w].pc # "idle", NEW run, SaveAccepted(run),
           run.fencing = worker[w].run.fencing, run.version = worker[w].run.version
    PROVE  /\ Holder(w)
           /\ worker[w].run.stop = row.stop
           /\ worker[w].run.status = row.status
           /\ row.owner # NoOwner
           /\ \A v \in Workers : v # w => ~ Holder(v)
<1>1. Holder(w)
  BY DEF SaveAccepted, Holder
<1>2. worker[w].run.version = row.version
  BY DEF SaveAccepted
<1>3. HolderOwns(w)
  BY DEF IInv
<1>4. \A v \in Workers : v # w => ~ Holder(v)
  BY <1>1, OnlyHolder DEF IInv
<1> QED BY <1>1, <1>2, <1>3, <1>4 DEF HolderOwns

(* persistDeliveryRun, accepted, without releasing the lease. *)
LEMMA SaveKeeps ==
    ASSUME IInv, TypeOK', NEW w \in Workers, worker[w].pc # "idle",
           NEW run \in Runs, NEW next \in Activities, SaveAccepted(run),
           run.fencing = worker[w].run.fencing, run.version = worker[w].run.version,
           run.status = worker[w].run.status,
           row' = Saved(w, run, FALSE), tasks' = tasks,
           worker' = [worker EXCEPT ![w] = [next EXCEPT !.run = Saved(w, run, FALSE)]],
           \A n \in Mutating :
               /\ run.nodes[n] \in NodeTerminal => tasks[n] \notin AtWork
               /\ run.nodes[n] = "completed" => tasks[n] = "completed"
               /\ run.nodes[n] \in {"pending", "skipped"} => tasks[n] = NoTask,
           next.pc \in {"check", "execute", "finish"},
           next.pc = "execute" => next.todo \subseteq Active(run.nodes) /\ next.phase = "ready",
           next.pc = "finish" => NothingPending(run.nodes)
    PROVE  IInv'
<1>1. /\ Holder(w)
      /\ worker[w].run.status = row.status
      /\ row.owner # NoOwner
      /\ \A v \in Workers : v # w => ~ Holder(v)
  BY AcceptedIsHolder
<1>2. worker \in [Workers -> Activities] /\ row \in Runs /\ HolderOwns(w)
  BY DEF IInv, TypeOK
<1>3. /\ row'.status = run.status
      /\ row'.nodes = run.nodes
      /\ row'.stop = row.stop
      /\ row'.fencing = row.fencing
      /\ row'.owner = row.owner
  BY <1>2 DEF Saved, Runs
<1>4. /\ worker'[w].run = row'
      /\ worker'[w].pc = next.pc
      /\ worker'[w].phase = next.phase
      /\ worker'[w].todo = next.todo
      /\ \A v \in Workers : v # w => worker'[v] = worker[v]
  BY <1>2 DEF Activities
<1>5. NodesAreHonest'
  BY <1>3 DEF NodesAreHonest
<1>6. row.fencing = worker[w].run.fencing
  BY <1>1 DEF Holder
<1>7. FencesApart'
  <2>1. \A v \in Workers : worker'[v].pc # "idle" =>
          worker[v].pc # "idle" /\ worker'[v].run.fencing = worker[v].run.fencing
    BY <1>3, <1>4, <1>6
  <2>2. FencesApart
    BY DEF IInv
  <2>3. ASSUME NEW u \in Workers, NEW v \in Workers, u # v,
               worker'[u].pc # "idle", worker'[v].pc # "idle"
        PROVE  worker'[u].run.fencing # worker'[v].run.fencing
    BY <2>1, <2>2, <2>3 DEF FencesApart
  <2> QED BY <2>3 DEF FencesApart
<1>8. row.status \notin RunTerminal
  BY <1>1, <1>2 DEF HolderOwns
<1>9. HolderOwns(w)'
  BY <1>1, <1>3, <1>4, <1>8 DEF HolderOwns
<1>10. HolderCopy(w)'
  <2>1. next.pc = "execute" => worker'[w].todo \subseteq Active(row'.nodes)
    BY <1>3, <1>4
  <2>2. worker'[w].run.nodes = row'.nodes
    BY <1>4
  <2>3. ASSUME NEW n \in Mutating
        PROVE  /\ worker'[w].run.nodes[n] \in NodeTerminal => tasks'[n] \notin AtWork
               /\ worker'[w].run.nodes[n] = "completed" => tasks'[n] = "completed"
    BY <1>3, <2>2
  <2> QED BY <1>4, <2>1, <2>2, <2>3 DEF HolderCopy
<1>11. StopIsThorough(w)'
  BY <1>3, <1>4 DEF StopIsThorough
<1>12. ASSUME NEW v \in Workers, v # w
       PROVE  (HolderOwns(v) /\ HolderCopy(v) /\ StopIsThorough(v))'
  <2>1. ~ Holder(v)' /\ worker'[v] = worker[v]
    BY <1>1, <1>3, <1>4, <1>12 DEF Holder
  <2>2. HolderOwns(v) /\ StopIsThorough(v)
    BY DEF IInv
  <2> QED BY <2>1, <2>2 DEF HolderOwns, HolderCopy, StopIsThorough
<1>13. EndIsFinal'
  BY <1>1, <1>3, <1>8 DEF EndIsFinal
<1> QED BY <1>5, <1>7, <1>9, <1>10, <1>11, <1>12, <1>13 DEF IInv

LEMMA ClaimKeeps ==
    ASSUME IInv, TypeOK', NEW w \in Workers, ClaimManagedRun(w)
    PROVE  IInv'
<1>1. worker \in [Workers -> Activities] /\ row \in Runs /\ TypeOK
  BY DEF IInv, TypeOK
<1>2. \A v \in Workers : worker[v].pc # "idle" =>
        NextFencing(Workers) # worker[v].run.fencing
  BY <1>1, FreshTokens
<1>3. /\ row'.status = row.status
      /\ row'.stop = row.stop
      /\ row'.nodes = row.nodes
      /\ row'.owner = Owner[w]
      /\ row'.fencing = NextFencing(Workers)
  BY <1>1 DEF ClaimManagedRun, Claimed, Runs
<1>4. Owner[w] # NoOwner /\ row.status \notin RunTerminal /\ tasks' = tasks
  BY OwnerAssumption DEF ClaimManagedRun
<1>5. /\ worker'[w].run = row'
      /\ worker'[w].pc = "claimed"
      /\ \A v \in Workers : v # w => worker'[v] = worker[v]
  BY <1>1 DEF ClaimManagedRun, Idle
<1>6. FencesApart'
  <2> SUFFICES ASSUME NEW u \in Workers, NEW v \in Workers, u # v,
                      worker'[u].pc # "idle", worker'[v].pc # "idle"
               PROVE  worker'[u].run.fencing # worker'[v].run.fencing
    BY DEF FencesApart
  <2>1. CASE u = w
    BY <1>2, <1>3, <1>5, <2>1
  <2>2. CASE v = w
    BY <1>2, <1>3, <1>5, <2>2
  <2>3. CASE u # w /\ v # w
    BY <1>5, <2>3 DEF IInv, FencesApart
  <2> QED BY <2>1, <2>2, <2>3
<1>7. NodesAreHonest'
  BY <1>3, <1>4 DEF IInv, NodesAreHonest
<1>8. HolderOwns(w)' /\ StopIsThorough(w)'
  BY <1>3, <1>4, <1>5 DEF HolderOwns, StopIsThorough
<1>9. HolderCopy(w)'
  BY <1>3, <1>4, <1>5, <1>7 DEF HolderCopy, NodesAreHonest
<1>10. ASSUME NEW v \in Workers, v # w
       PROVE  (HolderOwns(v) /\ HolderCopy(v) /\ StopIsThorough(v))'
  <2>1. ~ Holder(v)' /\ worker'[v] = worker[v]
    BY <1>2, <1>3, <1>5, <1>10 DEF Holder
  <2>2. HolderOwns(v) /\ StopIsThorough(v)
    BY DEF IInv
  <2> QED BY <2>1, <2>2 DEF HolderOwns, HolderCopy, StopIsThorough
<1>11. EndIsFinal'
  BY <1>3, <1>4 DEF EndIsFinal
<1> QED BY <1>6, <1>7, <1>8, <1>9, <1>10, <1>11 DEF IInv

(* The copy a worker is about to save is as honest as the row. *)
LEMMA CopyIsHonest ==
    ASSUME IInv, NEW w \in Workers, Holder(w), NEW n \in Mutating
    PROVE  /\ worker[w].run.nodes[n] \in NodeTerminal => tasks[n] \notin AtWork
           /\ worker[w].run.nodes[n] = "completed" => tasks[n] = "completed"
           /\ worker[w].run.nodes[n] \in {"pending", "skipped"} => tasks[n] = NoTask
<1>1. HolderCopy(w) /\ n \in Nodes
  BY DEF IInv, Mutating
<1>2. row.nodes[n] \in {"pending", "skipped"} => tasks[n] = NoTask
  BY DEF IInv, NodesAreHonest
<1>3. worker[w].run.nodes[n] \in {"pending", "skipped"} => row.nodes[n] \in {"pending", "skipped"}
  BY <1>1 DEF HolderCopy, Changed
<1> QED BY <1>1, <1>2, <1>3 DEF HolderCopy

(* deliveryRunStatus ends the run only when every node has settled. *)
LEMMA EndsSettled ==
    ASSUME NEW run \in Runs, RunStatus(run) \in RunTerminal,
           run.stop # "" => NothingPending(run.nodes)
    PROVE  \A n \in Nodes : run.nodes[n] \in NodeTerminal
<1>1. run.nodes \in [Nodes -> NodeStatuses] /\ run.stop \in {"", "user", "failure"}
  BY DEF Runs
<1>2. Active(run.nodes) = {}
  BY <1>1 DEF RunStatus, RunTerminal
<1>3. \A n \in Nodes : run.nodes[n] \notin NodeActive
  BY <1>2 DEF Active
<1>4. CASE run.stop # ""
  BY <1>1, <1>3, <1>4 DEF NothingPending, NodeStatuses
<1>5. CASE run.stop = ""
  <2>1. ~ \E n \in Nodes : run.nodes[n] \notin NodeTerminal
    BY <1>2, <1>3, <1>5 DEF RunStatus, RunTerminal
  <2> QED BY <2>1
<1> QED BY <1>4, <1>5

LEMMA FinishKeeps ==
    ASSUME IInv, TypeOK', NEW w \in Workers, FinishTick(w)
    PROVE  IInv'
<1> DEFINE run == [worker[w].run EXCEPT !.status = RunStatus(worker[w].run)]
<1>1. /\ worker \in [Workers -> Activities] /\ row \in Runs /\ worker[w].run \in Runs
      /\ HolderOwns(w) /\ HolderCopy(w) /\ StopIsThorough(w)
  BY DEF IInv, TypeOK, Activities
<1>2. /\ worker[w].pc = "finish"
      /\ row' = IF SaveAccepted(run) THEN Saved(w, run, TRUE) ELSE row
      /\ worker' = [worker EXCEPT ![w] = Idle]
      /\ tasks' = tasks
  BY DEF FinishTick
<1>3. /\ run.status = RunStatus(worker[w].run)
      /\ run.nodes = worker[w].run.nodes
      /\ run.fencing = worker[w].run.fencing
      /\ run.version = worker[w].run.version
  BY <1>1 DEF Runs
<1> HIDE DEF run
<1>4. CASE ~ SaveAccepted(run)
  BY <1>2, <1>4, GiveUpKeeps
<1>5. CASE SaveAccepted(run)
  <2>1. Holder(w) /\ \A v \in Workers : v # w => ~ Holder(v)
    BY <1>2, <1>3, <1>5, AcceptedIsHolder
  <2>2. /\ row'.status = run.status
        /\ row'.nodes = run.nodes
        /\ row'.fencing = row.fencing
        /\ row'.owner = NoOwner /\ ~ row'.leased
    BY <1>1, <1>2, <1>5 DEF Saved, Runs
  <2>3. /\ worker'[w].pc = "idle"
        /\ worker'[w].run.status = "queued"
        /\ \A v \in Workers : v # w => worker'[v] = worker[v]
    BY <1>1, <1>2 DEF Idle, NewRun
  <2>4. NodesAreHonest'
    <3> SUFFICES ASSUME NEW n \in Mutating
                 PROVE  /\ run.nodes[n] \in NodeTerminal => tasks[n] \notin AtWork
                        /\ run.nodes[n] = "completed" => tasks[n] = "completed"
                        /\ run.nodes[n] \in {"pending", "skipped"} => tasks[n] = NoTask
      BY <1>2, <2>2 DEF NodesAreHonest
    <3> QED BY <1>3, <2>1, CopyIsHonest
  <2>5. FencesApart'
    <3>1. FencesApart
      BY DEF IInv
    <3> QED BY <2>3, <3>1 DEF FencesApart
  <2>6. HolderOwns(w)' /\ HolderCopy(w)' /\ StopIsThorough(w)'
    BY <2>3 DEF HolderOwns, HolderCopy, StopIsThorough, Holder, RunTerminal
  <2>7. ASSUME NEW v \in Workers, v # w
        PROVE  (HolderOwns(v) /\ HolderCopy(v) /\ StopIsThorough(v))'
    <3>1. ~ Holder(v)' /\ worker'[v] = worker[v]
      BY <2>1, <2>2, <2>3, <2>7 DEF Holder
    <3>2. HolderOwns(v) /\ StopIsThorough(v)
      BY DEF IInv
    <3> QED BY <3>1, <3>2 DEF HolderOwns, HolderCopy, StopIsThorough
  <2>8. EndIsFinal'
    <3>1. RunStatus(worker[w].run) \in RunTerminal =>
            \A n \in Nodes : worker[w].run.nodes[n] \in NodeTerminal
      BY <1>1, <1>2, EndsSettled DEF StopIsThorough
    <3> QED BY <1>3, <2>2, <3>1 DEF EndIsFinal
  <2> QED BY <2>4, <2>5, <2>6, <2>7, <2>8 DEF IInv
<1> QED BY <1>4, <1>5

LEMMA SaveResultsKeeps ==
    ASSUME IInv, TypeOK', NEW w \in Workers, SaveResults(w)
    PROVE  IInv'
<1>1. /\ worker[w] \in Activities /\ worker[w].run \in Runs
      /\ HolderOwns(w) /\ HolderCopy(w) /\ StopIsThorough(w)
  BY DEF IInv, TypeOK, Activities
<1>2. /\ worker[w].pc = "execute" /\ worker[w].todo = {} /\ tasks' = tasks
      /\ Persist(w, worker[w].run, FALSE, NextPass(worker[w]))
  BY DEF SaveResults
<1>3. CASE ~ SaveAccepted(worker[w].run)
  BY <1>2, <1>3, GiveUpKeeps DEF Persist
<1>4. CASE SaveAccepted(worker[w].run)
  <2>1. Holder(w)
    BY <1>2, <1>4, AcceptedIsHolder
  <2>2. ASSUME NEW n \in Mutating
        PROVE  /\ worker[w].run.nodes[n] \in NodeTerminal => tasks[n] \notin AtWork
               /\ worker[w].run.nodes[n] = "completed" => tasks[n] = "completed"
               /\ worker[w].run.nodes[n] \in {"pending", "skipped"} => tasks[n] = NoTask
    BY <2>1, CopyIsHonest
  <2>3. /\ NextPass(worker[w]) \in Activities
        /\ NextPass(worker[w]).pc \in {"check", "finish"}
        /\ NextPass(worker[w]).pc = "finish" => worker[w].phase = "cancel"
    BY <1>1, <1>2 DEF NextPass, Activities, Phases, StopIsThorough
  <2>4. NextPass(worker[w]).pc = "finish" => NothingPending(worker[w].run.nodes)
    BY <1>1, <1>2, <2>3 DEF StopIsThorough
  <2> QED BY <1>1, <1>2, <1>4, <2>2, <2>3, <2>4, SaveKeeps DEF Persist
<1> QED BY <1>3, <1>4

LEMMA SelectKeeps ==
    ASSUME IInv, TypeOK', NEW w \in Workers, SelectReady(w)
    PROVE  IInv'
<1>1. /\ worker \in [Workers -> Activities]
      /\ worker[w] \in Activities /\ worker[w].run \in Runs
      /\ worker[w].run.nodes \in [Nodes -> NodeStatuses]
      /\ HolderOwns(w) /\ HolderCopy(w) /\ StopIsThorough(w)
      /\ worker[w].pc = "select" /\ tasks' = tasks
      /\ Mutating \subseteq Nodes
  BY DEF IInv, TypeOK, Activities, Runs, SelectReady, Mutating
<1>2. PICK skipped \in SUBSET Nodes :
        SelectReady(w)!2!(skipped)
  BY DEF SelectReady
<1> DEFINE chosen == FirstOf(Ready(skipped, worker[w].run.nodes), Free(worker[w].run.nodes))
           marked == [worker[w].run EXCEPT !.nodes = [n \in Nodes |->
                        IF n \in skipped THEN "skipped"
                        ELSE IF n \in chosen THEN "running" ELSE @[n]]]
           nodes == worker[w].run.nodes
<1>3. /\ chosen \in SUBSET Nodes
      /\ \A n \in skipped \cup chosen : nodes[n] = "pending"
      /\ \A n \in chosen : n \notin skipped
  BY <1>2 DEF FirstOf, Ready, IsSkipped
<1>4. /\ marked \in Runs
      /\ marked.fencing = worker[w].run.fencing
      /\ marked.version = worker[w].run.version
      /\ marked.status = worker[w].run.status
      /\ marked.stop = worker[w].run.stop
      /\ marked.owner = worker[w].run.owner
  BY <1>1, <1>3 DEF Runs, NodeStatuses, NodeActive, NodeTerminal
<1>5. \A n \in Nodes : marked.nodes[n] =
        IF n \in skipped THEN "skipped" ELSE IF n \in chosen THEN "running" ELSE nodes[n]
  BY <1>1 DEF Runs
<1>6. /\ chosen = {} => /\ row' = row
                        /\ worker' = [worker EXCEPT ![w].pc = "finish", ![w].run = marked]
      /\ chosen # {} => Persist(w, marked, FALSE,
                                [worker[w] EXCEPT !.pc = "execute", !.todo = chosen])
  BY <1>2
<1>7. Holder(w) => nodes = row.nodes
  BY <1>1 DEF HolderCopy
<1>8. ASSUME NEW n \in Mutating, Holder(w)
      PROVE  /\ marked.nodes[n] \in NodeTerminal => tasks[n] \notin AtWork
             /\ marked.nodes[n] = "completed" => tasks[n] = "completed"
             /\ marked.nodes[n] \in {"pending", "skipped"} => tasks[n] = NoTask
  <2>1. /\ nodes[n] \in NodeTerminal => tasks[n] \notin AtWork
        /\ nodes[n] = "completed" => tasks[n] = "completed"
        /\ nodes[n] \in {"pending", "skipped"} => tasks[n] = NoTask
    BY <1>8, CopyIsHonest
  <2>2. NoTask \notin AtWork
    BY DEF AtWork, TaskLive, NoTask
  <2> HIDE DEF marked, chosen, nodes
  <2> QED BY <1>1, <1>3, <1>5, <2>1, <2>2 DEF NodeTerminal
<1>9. CASE chosen = {}
  <2> HIDE DEF marked, chosen
  <2>1. /\ worker'[w].pc = "finish"
        /\ worker'[w].run = marked
        /\ worker'[w].todo = worker[w].todo
        /\ \A v \in Workers : v # w => worker'[v] = worker[v]
    BY <1>1, <1>6, <1>9 DEF Activities
  <2>2. Holder(w)' <=> Holder(w)
    BY <1>1, <1>4, <1>6, <1>9, <2>1 DEF Holder
  <2>3. HolderOwns(w)' /\ StopIsThorough(w)'
    BY <1>1, <1>4, <1>6, <1>9, <2>1, <2>2 DEF HolderOwns, StopIsThorough
  <2>4. HolderCopy(w)'
    <3> SUFFICES ASSUME Holder(w) PROVE HolderCopy(w)'
      BY <2>2 DEF HolderCopy
    <3>1. ASSUME NEW n \in Nodes, worker'[w].run.nodes[n] # row'.nodes[n]
          PROVE  Changed(w, n)'
      BY <1>3, <1>5, <1>6, <1>7, <1>9, <2>1, <3>1 DEF Changed
    <3>2. ASSUME NEW n \in Mutating
          PROVE  /\ worker'[w].run.nodes[n] \in NodeTerminal => tasks'[n] \notin AtWork
                 /\ worker'[w].run.nodes[n] = "completed" => tasks'[n] = "completed"
      BY <1>1, <1>8, <2>1
    <3> QED BY <2>1, <3>1, <3>2 DEF HolderCopy
  <2>5. worker'[w].run.fencing = worker[w].run.fencing
    BY <1>4, <2>1
  <2> QED BY <1>1, <1>6, <1>9, <2>1, <2>3, <2>4, <2>5, Frame
<1>10. CASE chosen # {} /\ ~ SaveAccepted(marked)
  BY <1>1, <1>6, <1>10, GiveUpKeeps DEF Persist
<1>11. CASE chosen # {} /\ SaveAccepted(marked)
  <2> DEFINE next == [worker[w] EXCEPT !.pc = "execute", !.todo = chosen]
  <2>1. /\ next \in Activities /\ next.pc = "execute"
        /\ next.todo = chosen /\ next.phase = worker[w].phase
    BY <1>1, <1>3 DEF Activities
  <2> HIDE DEF marked, chosen
  <2>2. /\ row' = Saved(w, marked, FALSE)
        /\ worker' = [worker EXCEPT ![w] = [next EXCEPT !.run = Saved(w, marked, FALSE)]]
    BY <1>6, <1>11 DEF Persist
  <2>3. chosen \subseteq Active(marked.nodes)
    BY <1>3, <1>5 DEF Active, NodeActive
  <2>4. worker[w].phase = "ready"
    BY <1>1 DEF StopIsThorough
  <2>5. Holder(w)
    BY <1>1, <1>4, <1>11, AcceptedIsHolder
  <2> HIDE DEF next
  <2> QED BY <1>1, <1>4, <1>8, <1>11, <2>1, <2>2, <2>3, <2>4, <2>5, SaveKeeps
<1> QED BY <1>9, <1>10, <1>11

(* Where advanceDeliveryRun goes after stopFailedDeliveryRun. *)
LEMMA AfterCheckFacts ==
    ASSUME NEW activity \in Activities, activity.pc = "check", NEW run \in Runs,
           NEW next, next = AfterCheck(activity, run)
    PROVE  /\ next.pc \in {"check", "select", "execute", "finish"}
           /\ next.run.status = run.status /\ next.run.stop = run.stop
           /\ next.run.version = run.version /\ next.run.fencing = run.fencing
           /\ next.run.owner = run.owner
           /\ next.pc \in {"check", "select"} => next.run.nodes = run.nodes
           /\ \A n \in Nodes : next.run.nodes[n] # run.nodes[n] =>
                run.nodes[n] = "pending" /\ next.run.nodes[n] = "canceled"
           /\ next.pc = "execute" => next.todo = Active(run.nodes) /\ next.phase # "last"
           /\ next.pc = "select" => run.stop = "" /\ next.phase = "ready"
           /\ next.pc = "execute" /\ next.phase = "cancel" => NothingPending(next.run.nodes)
           /\ next.pc = "finish" /\ run.stop # "" => NothingPending(next.run.nodes)
<1> DEFINE canceled == CancelPending(run)
           todo == Active(run.nodes)
<1>1. /\ canceled.status = run.status /\ canceled.stop = run.stop
      /\ canceled.version = run.version /\ canceled.fencing = run.fencing
      /\ canceled.owner = run.owner
      /\ \A n \in Nodes : canceled.nodes[n] =
           IF run.nodes[n] = "pending" THEN "canceled" ELSE run.nodes[n]
  BY DEF CancelPending, Runs
<1>2. NothingPending(canceled.nodes)
  BY <1>1 DEF NothingPending
<1> HIDE DEF canceled, todo
<1>3. CASE run.stop # "" /\ todo # {}
  <2>1. next = [[activity EXCEPT !.pc = "execute", !.run = run, !.todo = todo]
                  EXCEPT !.phase = "cancel", !.run = canceled]
    BY <1>3 DEF AfterCheck, canceled, todo
  <2>2. next.pc = "execute" /\ next.run = canceled /\ next.todo = todo /\ next.phase = "cancel"
    BY <2>1 DEF Activities
  <2> QED BY <1>1, <1>2, <2>2 DEF todo
<1>4. CASE run.stop # "" /\ todo = {}
  <2>1. next = [activity EXCEPT !.pc = "finish", !.run = canceled]
    BY <1>4 DEF AfterCheck, canceled, todo
  <2>2. next.pc = "finish" /\ next.run = canceled
    BY <2>1 DEF Activities
  <2> QED BY <1>1, <1>2, <2>2
<1>5. CASE run.stop = ""
  <2>1. /\ next.run = run
        /\ \/ next.pc = "execute" /\ next.todo = todo /\ next.phase = "active"
           \/ next.pc = "check"
           \/ next.pc = "select" /\ next.phase = "ready"
           \/ next.pc = "finish"
    BY <1>5 DEF AfterCheck, Activities, todo
  <2> QED BY <1>5, <2>1 DEF todo
<1> QED BY <1>3, <1>4, <1>5

LEMMA AfterCheckFencing ==
    ASSUME NEW activity \in Activities, activity.pc = "check", NEW run \in Runs
    PROVE  AfterCheck(activity, run).run.fencing = run.fencing
<1>1. CancelPending(run).fencing = run.fencing
  BY DEF CancelPending, Runs
<1> QED BY <1>1 DEF AfterCheck, Activities

(* What a stop leaves of the other workers' claims on the run. *)
LEMMA StopFacts ==
    ASSUME IInv, NEW reason \in {"user", "failure"}, NEW stopped,
           stopped = StopManagedRun(reason)
    PROVE  /\ stopped.fencing = row.fencing /\ stopped.owner = row.owner
           /\ stopped.nodes = row.nodes
           /\ row.status \in RunTerminal => stopped = row
           /\ row.status \notin RunTerminal => stopped.status \notin RunTerminal
           /\ stopped = row \/ \A w \in Workers : worker[w].pc # "idle" =>
                stopped.version # worker[w].run.version
<1>1. row \in Runs /\ TypeOK
  BY DEF IInv, TypeOK
<1>2. \A w \in Workers : worker[w].pc # "idle" => NextVersion(Workers) # worker[w].run.version
  BY <1>1, FreshTokens
<1>3. CASE row.stop = "" /\ row.status \notin RunTerminal
  <2>1. stopped = [row EXCEPT !.stop = reason, !.status = "canceling", !.version = NextVersion(Workers)]
    BY <1>3 DEF StopManagedRun
  <2>2. /\ stopped.fencing = row.fencing /\ stopped.owner = row.owner
        /\ stopped.nodes = row.nodes /\ stopped.status = "canceling"
        /\ stopped.version = NextVersion(Workers)
    BY <1>1, <2>1 DEF Runs
  <2> QED BY <1>2, <1>3, <2>2 DEF RunTerminal
<1>4. CASE ~ (row.stop = "" /\ row.status \notin RunTerminal)
  BY <1>4 DEF StopManagedRun
<1> QED BY <1>3, <1>4

(* A stop, whoever asks for it: other workers' copies are no longer current.  *)
LEMMA StopKeepsOthers ==
    ASSUME IInv, NEW reason \in {"user", "failure"}, row' = StopManagedRun(reason), tasks' = tasks,
           NEW v \in Workers, worker'[v] = worker[v]
    PROVE  HolderOwns(v)' /\ HolderCopy(v)' /\ StopIsThorough(v)'
<1>1. /\ row'.fencing = row.fencing /\ row'.owner = row.owner
      /\ row'.nodes = row.nodes
      /\ row' = row \/ \A w \in Workers : worker[w].pc # "idle" =>
           row'.version # worker[w].run.version
  BY StopFacts
<1>2. HolderOwns(v) /\ HolderCopy(v) /\ StopIsThorough(v)
  BY DEF IInv
<1>3. Holder(v)' <=> Holder(v)
  BY <1>1 DEF Holder
<1>4. HolderOwns(v)'
  <2>1. CASE row' = row
    BY <1>2, <1>3, <2>1 DEF HolderOwns
  <2>2. CASE \A w \in Workers : worker[w].pc # "idle" => row'.version # worker[w].run.version
    BY <1>1, <1>2, <1>3, <2>2 DEF HolderOwns, Holder
  <2> QED BY <1>1, <2>1, <2>2
<1>5. HolderCopy(v)' /\ StopIsThorough(v)'
  BY <1>1, <1>2, <1>3 DEF HolderCopy, StopIsThorough, Changed
<1> QED BY <1>4, <1>5

LEMMA StopKeepsRow ==
    ASSUME IInv, NEW reason \in {"user", "failure"}, row' = StopManagedRun(reason), tasks' = tasks
    PROVE  NodesAreHonest' /\ EndIsFinal'
<1>1. /\ row'.owner = row.owner
      /\ row'.nodes = row.nodes
      /\ row.status \notin RunTerminal => row'.status \notin RunTerminal
      /\ row.status \in RunTerminal => row' = row
  BY StopFacts
<1>2. NodesAreHonest'
  BY <1>1 DEF IInv, NodesAreHonest
<1>3. EndIsFinal'
  BY <1>1 DEF IInv, EndIsFinal
<1> QED BY <1>2, <1>3

(* The worker's own copy after the check, whether or not it has just stopped  *)
(* the run: run is what advanceDeliveryRun goes on with.                      *)
LEMMA AfterCheckKeeps ==
    ASSUME IInv, NEW w \in Workers, worker[w].pc = "check", NEW run \in Runs,
           worker'[w] = AfterCheck(worker[w], run), tasks' = tasks,
           row'.nodes = row.nodes, row'.fencing = row.fencing, row'.owner = row.owner,
           run.fencing = worker[w].run.fencing, run.owner = worker[w].run.owner,
           run.nodes = worker[w].run.nodes, run.status \notin RunTerminal,
           Holder(w) /\ run.version = row'.version =>
               run.stop = row'.stop /\ run.status = row'.status
    PROVE  HolderOwns(w)' /\ HolderCopy(w)' /\ StopIsThorough(w)'
<1>1. /\ worker[w] \in Activities
      /\ HolderOwns(w) /\ HolderCopy(w)
  BY DEF IInv, TypeOK
<1> DEFINE next == AfterCheck(worker[w], run)
<1>2. /\ next.pc \in {"check", "select", "execute", "finish"}
      /\ next.run.status = run.status /\ next.run.stop = run.stop
      /\ next.run.version = run.version /\ next.run.fencing = run.fencing
      /\ next.run.owner = run.owner
      /\ next.pc \in {"check", "select"} => next.run.nodes = run.nodes
      /\ \A n \in Nodes : next.run.nodes[n] # run.nodes[n] =>
           run.nodes[n] = "pending" /\ next.run.nodes[n] = "canceled"
      /\ next.pc = "execute" => next.todo = Active(run.nodes) /\ next.phase # "last"
      /\ next.pc = "select" => run.stop = "" /\ next.phase = "ready"
      /\ next.pc = "execute" /\ next.phase = "cancel" => NothingPending(next.run.nodes)
      /\ next.pc = "finish" /\ run.stop # "" => NothingPending(next.run.nodes)
  BY <1>1, AfterCheckFacts
<1>3. worker'[w] = next
  OBVIOUS
<1> HIDE DEF next
<1>4. Holder(w)' <=> Holder(w)
  BY <1>2, <1>3 DEF Holder
<1>5. HolderOwns(w)'
  BY <1>1, <1>2, <1>3, <1>4 DEF HolderOwns
<1>6. StopIsThorough(w)'
  BY <1>2, <1>3 DEF StopIsThorough
<1>7. HolderCopy(w)'
  <2> SUFFICES ASSUME Holder(w) PROVE HolderCopy(w)'
    BY <1>4 DEF HolderCopy
  <2>1. run.nodes = row.nodes
    BY <1>1 DEF HolderCopy
  <2>2. ASSUME NEW n \in Nodes, next.run.nodes[n] # row.nodes[n]
        PROVE  row.nodes[n] = "pending" /\ next.run.nodes[n] = "canceled"
    BY <1>2, <2>1, <2>2
  <2>3. ASSUME NEW n \in Mutating
        PROVE  /\ next.run.nodes[n] \in NodeTerminal => tasks[n] \notin AtWork
               /\ next.run.nodes[n] = "completed" => tasks[n] = "completed"
    <3>1. /\ run.nodes[n] \in NodeTerminal => tasks[n] \notin AtWork
          /\ run.nodes[n] = "completed" => tasks[n] = "completed"
          /\ run.nodes[n] \in {"pending", "skipped"} => tasks[n] = NoTask
      BY CopyIsHonest
    <3>2. NoTask \notin AtWork /\ n \in Nodes
      BY DEF AtWork, TaskLive, NoTask, Mutating
    <3> QED BY <1>2, <3>1, <3>2
  <2>4. ASSUME NEW n \in Nodes, worker'[w].run.nodes[n] # row'.nodes[n]
        PROVE  Changed(w, n)'
    BY <1>3, <2>2, <2>4 DEF Changed
  <2>5. worker'[w].pc \in {"claimed", "check", "select"} => worker'[w].run.nodes = row'.nodes
    BY <1>2, <1>3, <2>1
  <2>6. worker'[w].pc = "execute" => worker'[w].todo \subseteq Active(row'.nodes)
    BY <1>2, <1>3, <2>1
  <2> QED BY <1>3, <2>3, <2>4, <2>5, <2>6 DEF HolderCopy
<1> QED BY <1>5, <1>6, <1>7

LEMMA CheckKeeps ==
    ASSUME IInv, TypeOK', NEW w \in Workers, CheckFailed(w)
    PROVE  IInv'
<1>1. /\ worker \in [Workers -> Activities] /\ row \in Runs
      /\ worker[w] \in Activities /\ worker[w].run \in Runs
      /\ worker[w].run.nodes \in [Nodes -> NodeStatuses]
      /\ HolderOwns(w) /\ HolderCopy(w) /\ StopIsThorough(w)
      /\ worker[w].pc = "check" /\ tasks' = tasks
  BY DEF IInv, TypeOK, Activities, Runs, CheckFailed
<1>2. CASE ~ FailureStops(worker[w].run)
  <2>1. row' = row /\ worker' = [worker EXCEPT ![w] = AfterCheck(worker[w], worker[w].run)]
    BY <1>2 DEF CheckFailed
  <2>2. /\ worker'[w] = AfterCheck(worker[w], worker[w].run)
        /\ \A v \in Workers : v # w => worker'[v] = worker[v]
    BY <1>1, <2>1
  <2>3. HolderOwns(w)' /\ HolderCopy(w)' /\ StopIsThorough(w)'
    BY <1>1, <2>1, <2>2, AfterCheckKeeps DEF HolderOwns
  <2>4. worker'[w].run.fencing = worker[w].run.fencing
    <3>1. AfterCheck(worker[w], worker[w].run).run.fencing = worker[w].run.fencing
      BY <1>1, AfterCheckFencing
    <3> QED BY <2>2, <3>1
  <2> QED BY <1>1, <2>1, <2>2, <2>3, <2>4, Frame
<1>3. CASE FailureStops(worker[w].run)
  <2> DEFINE stopped == StopManagedRun("failure")
  <2>1. /\ row' = stopped
        /\ worker' = [worker EXCEPT ![w] = AdoptStopped(worker[w], stopped)]
    BY <1>3 DEF CheckFailed
  <2>2. stopped \in Runs
    BY StoppedType DEF IInv
  <2>3. /\ stopped.fencing = row.fencing /\ stopped.owner = row.owner
        /\ stopped.nodes = row.nodes
        /\ row.status \in RunTerminal => stopped = row
        /\ row.status \notin RunTerminal => stopped.status \notin RunTerminal
    BY StopFacts
  <2>4. NodesAreHonest' /\ EndIsFinal'
    BY <1>1, <2>1, StopKeepsRow
  <2> HIDE DEF stopped
  <2>5. /\ worker'[w] = AdoptStopped(worker[w], stopped)
        /\ \A v \in Workers : v # w => worker'[v] = worker[v]
    BY <1>1, <2>1
  <2>6. ASSUME NEW v \in Workers, v # w
        PROVE  HolderOwns(v)' /\ HolderCopy(v)' /\ StopIsThorough(v)'
    BY <1>1, <2>1, <2>5, <2>6, StopKeepsOthers DEF stopped
  <2>7. /\ HolderOwns(w)' /\ HolderCopy(w)' /\ StopIsThorough(w)'
        /\ worker'[w].pc # "idle" => worker'[w].run.fencing = worker[w].run.fencing
    <3>1. CASE stopped.fencing = worker[w].run.fencing /\ stopped.owner = worker[w].run.owner
      <4> DEFINE run == [stopped EXCEPT !.nodes = worker[w].run.nodes]
      <4>1. /\ run \in Runs /\ run.nodes = worker[w].run.nodes
            /\ run.fencing = stopped.fencing /\ run.owner = stopped.owner
            /\ run.stop = stopped.stop /\ run.status = stopped.status
        BY <1>1, <2>2 DEF Runs
      <4>2. worker'[w] = AfterCheck(worker[w], run)
        BY <2>5, <3>1 DEF AdoptStopped
      <4>3. Holder(w)
        BY <1>1, <2>3, <3>1 DEF Holder
      <4>4. row.status \notin RunTerminal
        BY <1>1, <4>3 DEF HolderOwns, IInv, EndIsFinal
      <4> HIDE DEF run
      <4>5. worker'[w].run.fencing = run.fencing
        <5>1. AfterCheck(worker[w], run).run.fencing = run.fencing
          BY <1>1, <4>1, AfterCheckFencing
        <5> QED BY <4>2, <5>1
      <4> QED BY <1>1, <2>1, <2>3, <3>1, <4>1, <4>2, <4>4, <4>5, AfterCheckKeeps
    <3>2. CASE ~ (stopped.fencing = worker[w].run.fencing /\ stopped.owner = worker[w].run.owner)
      <4>1. worker'[w] = Idle
        BY <2>5, <3>2 DEF AdoptStopped
      <4>2. worker'[w].pc = "idle" /\ worker'[w].run.status = "queued"
        BY <4>1, IdleFacts
      <4> QED BY <4>2 DEF HolderOwns, HolderCopy, StopIsThorough, Holder, RunTerminal
    <3> QED BY <3>1, <3>2
  <2>8. FencesApart'
    <3>1. FencesApart
      BY DEF IInv
    <3>2. \A v \in Workers : worker'[v].pc # "idle" =>
            worker[v].pc # "idle" /\ worker'[v].run.fencing = worker[v].run.fencing
      BY <1>1, <2>5, <2>7
    <3> QED BY <3>1, <3>2 DEF FencesApart
  <2> QED BY <2>4, <2>6, <2>7, <2>8 DEF IInv
<1> QED BY <1>2, <1>3

LEMMA BeginTickKeeps ==
    ASSUME IInv, TypeOK', NEW w \in Workers, BeginTick(w)
    PROVE  IInv'
<1>1. /\ worker \in [Workers -> Activities] /\ worker[w] \in Activities
      /\ HolderOwns(w) /\ HolderCopy(w) /\ StopIsThorough(w)
      /\ worker[w].pc = "claimed" /\ row' = row /\ tasks' = tasks
  BY DEF IInv, TypeOK, BeginTick
<1>2. CASE ~ SameLease(worker[w].run, row)
  BY <1>1, <1>2, GiveUpKeeps DEF BeginTick
<1>3. CASE SameLease(worker[w].run, row)
  <2>1. /\ worker'[w].pc = "check" /\ worker'[w].run = worker[w].run
        /\ worker'[w].todo = worker[w].todo
        /\ \A v \in Workers : v # w => worker'[v] = worker[v]
    BY <1>1, <1>3 DEF BeginTick, Activities
  <2>2. Holder(w)' <=> Holder(w)
    BY <1>1, <2>1 DEF Holder
  <2>3. HolderOwns(w)' /\ HolderCopy(w)' /\ StopIsThorough(w)'
    BY <1>1, <2>1, <2>2 DEF HolderOwns, HolderCopy, StopIsThorough, Changed
  <2> QED BY <1>1, <2>1, <2>3, Frame
<1> QED BY <1>2, <1>3

LEMMA UserStopKeeps ==
    ASSUME IInv, TypeOK', UserStop
    PROVE  IInv'
<1>1. row' = StopManagedRun("user") /\ tasks' = tasks /\ worker' = worker
  BY DEF UserStop
<1>2. NodesAreHonest' /\ EndIsFinal'
  BY <1>1, StopKeepsRow
<1>3. ASSUME NEW v \in Workers
      PROVE  HolderOwns(v)' /\ HolderCopy(v)' /\ StopIsThorough(v)'
  BY <1>1, StopKeepsOthers
<1>4. FencesApart'
  BY <1>1 DEF IInv, FencesApart
<1> QED BY <1>2, <1>3, <1>4 DEF IInv

LEMMA ExpireKeeps ==
    ASSUME IInv, TypeOK', ExpireLease
    PROVE  IInv'
<1>1. /\ row'.status = row.status /\ row'.stop = row.stop /\ row'.version = row.version
      /\ row'.fencing = row.fencing /\ row'.owner = row.owner /\ row'.nodes = row.nodes
      /\ tasks' = tasks /\ worker' = worker
  BY DEF ExpireLease, IInv, TypeOK, Runs
<1>2. NodesAreHonest' /\ EndIsFinal' /\ FencesApart'
  BY <1>1 DEF IInv, NodesAreHonest, EndIsFinal, FencesApart, ExpireLease
<1>3. ASSUME NEW v \in Workers
      PROVE  HolderOwns(v)' /\ HolderCopy(v)' /\ StopIsThorough(v)'
  <2>1. HolderOwns(v) /\ HolderCopy(v) /\ StopIsThorough(v)
    BY DEF IInv
  <2> QED BY <1>1, <2>1 DEF HolderOwns, HolderCopy, StopIsThorough, Holder, Changed
<1> QED BY <1>2, <1>3 DEF IInv

LEMMA Inductive ==
    ASSUME IInv, [Next]_vars
    PROVE  IInv'
<1>1. TypeOK'
  BY TypeInductive DEF IInv
<1>2. CASE \E w \in Workers : WorkerStep(w)
  BY <1>1, <1>2, ClaimKeeps, BeginTickKeeps, CheckKeeps, SelectKeeps, NodeStepKeeps,
     SaveResultsKeeps, FinishKeeps DEF WorkerStep
<1>3. CASE \E w \in Workers : AbandonTick(w)
  BY <1>1, <1>3, GiveUpKeeps DEF AbandonTick
<1>4. CASE ExpireLease
  BY <1>1, <1>4, ExpireKeeps
<1>5. CASE UserStop
  BY <1>1, <1>5, UserStopKeeps
<1>6. CASE \E n \in Nodes : ExecutorStep(n)
  BY <1>1, <1>6, ExecutorStepKeeps
<1>7. CASE UNCHANGED vars
  <2>1. row' = row /\ tasks' = tasks /\ worker' = worker
    BY <1>7 DEF vars
  <2>2. NodesAreHonest' /\ EndIsFinal' /\ FencesApart'
    BY <2>1 DEF IInv, NodesAreHonest, EndIsFinal, FencesApart
  <2>3. \A w \in Workers : (HolderOwns(w) /\ HolderCopy(w) /\ StopIsThorough(w))'
    BY <2>1 DEF IInv, HolderOwns, HolderCopy, StopIsThorough, Holder, Changed
  <2> QED BY <1>1, <2>2, <2>3 DEF IInv
<1> QED BY <1>2, <1>3, <1>4, <1>5, <1>6, <1>7 DEF Next

(* The lease protocol keeps its inductive invariant: fencing tokens are       *)
(* apart, the holder's copy differs from the row only by what its tick did,   *)
(* and nodes are honest about their tasks.                                    *)
THEOREM Invariant == Spec => []IInv
BY InitInductive, Inductive, PTL DEF Spec

-----------------------------------------------------------------------------
(* What follows from the invariant *)

LEMMA AtWorkIsOpen ==
    ASSUME IInv, NEW n \in Mutating, tasks[n] \in AtWork
    PROVE  row.status \notin RunTerminal
BY DEF IInv, NodesAreHonest, EndIsFinal, Mutating

(* A batch that has ended left no build or deploy queued or with an executor. *)
THEOREM FinishedIsIdle == Spec => []FinishedRunIsIdle
<1>1. IInv => FinishedRunIsIdle
  BY AtWorkIsOpen DEF FinishedRunIsIdle
<1> QED BY <1>1, Invariant, PTL

(* The row never claims more than the executors did. *)
THEOREM HonestNodes == Spec => []NodesAreHonest
<1>1. IInv => NodesAreHonest
  BY DEF IInv
<1> QED BY <1>1, Invariant, PTL

(* The lease fences: one current copy at most, and no update of the row is    *)
(* missing from it.                                                           *)
THEOREM FaithfulCopy == Spec => []CurrentCopyIsFaithful
<1>1. ASSUME IInv PROVE CurrentCopyIsFaithful
  <2> SUFFICES ASSUME NEW w \in Workers, Current(w)
               PROVE  /\ \A v \in Workers : Current(v) => v = w
                      /\ worker[w].run.stop = row.stop
                      /\ worker[w].run.status = row.status
                      /\ \A n \in Nodes : row.nodes[n] \in NodeTerminal =>
                            worker[w].run.nodes[n] = row.nodes[n]
    BY DEF CurrentCopyIsFaithful
  <2>1. Holder(w) /\ worker[w].run.version = row.version
    BY DEF Current, SameLease, Holder
  <2>2. HolderOwns(w) /\ HolderCopy(w)
    BY <1>1 DEF IInv
  <2>3. \A v \in Workers : Current(v) => v = w
    BY <1>1, <2>1, OnlyHolder DEF IInv, Current, SameLease, Holder
  <2>4. worker[w].run.stop = row.stop /\ worker[w].run.status = row.status
    BY <2>1, <2>2 DEF HolderOwns
  <2>5. \A n \in Nodes : row.nodes[n] \in NodeTerminal => worker[w].run.nodes[n] = row.nodes[n]
    BY <2>1, <2>2 DEF HolderCopy, Changed, NodeTerminal, NodeActive
  <2> QED BY <2>3, <2>4, <2>5
<1> QED BY <1>1, Invariant, PTL

(* What an accepted save may change. *)
LEMMA SaveSettlesOnce ==
    ASSUME IInv, NEW w \in Workers, Holder(w), NEW n \in Nodes, row.nodes[n] \in NodeTerminal
    PROVE  /\ worker[w].run.nodes[n] = row.nodes[n]
           /\ row.status \notin RunTerminal
<1>1. HolderCopy(w) /\ HolderOwns(w) /\ EndIsFinal
  BY DEF IInv
<1>2. row.status \notin RunTerminal
  BY <1>1 DEF HolderOwns, EndIsFinal
<1> QED BY <1>1, <1>2 DEF HolderCopy, Changed, NodeTerminal, NodeActive

(* What one step can do to the row: see SettlesOnce and DeliveryContract. *)
RowStep ==
    /\ row.status \in RunTerminal => row' = row
    /\ \A n \in Nodes : row.nodes[n] \in NodeTerminal => row'.nodes[n] = row.nodes[n]
    /\ row'.stop # row.stop =>
          /\ row.stop = "" /\ row'.stop \in {"user", "failure"}
          /\ row.status \notin RunTerminal /\ row'.status \notin RunTerminal
          /\ tasks' = tasks
    /\ row.status \notin RunTerminal /\ row'.status \in RunTerminal =>
          /\ row'.stop = row.stop
          /\ row'.status \in Contract!Outcomes(row.stop)
          /\ tasks' = tasks
    /\ row'.status = "canceling" => row.status = "canceling" \/ row'.stop # ""

LEMMA RunStatusOutcome ==
    ASSUME NEW run \in Runs, RunStatus(run) \in RunTerminal
    PROVE  RunStatus(run) \in Contract!Outcomes(run.stop)
<1>1. run.stop \in {"", "user", "failure"}
  BY DEF Runs
<1> QED BY <1>1 DEF RunStatus, RunTerminal, Contract!Outcomes

LEMMA SaveRowStep ==
    ASSUME IInv, NEW w \in Workers, worker[w].pc # "idle", NEW run \in Runs, NEW release \in BOOLEAN,
           SaveAccepted(run), run.fencing = worker[w].run.fencing,
           run.version = worker[w].run.version, row' = Saved(w, run, release), tasks' = tasks,
           \A n \in Nodes : worker[w].run.nodes[n] \in NodeTerminal =>
               run.nodes[n] = worker[w].run.nodes[n],
           run.status \in RunTerminal => run.status \in Contract!Outcomes(worker[w].run.stop),
           run.status = "canceling" => worker[w].run.status = "canceling" \/ worker[w].run.stop # ""
    PROVE  RowStep
<1>1. Holder(w) /\ worker[w].run.status = row.status /\ worker[w].run.stop = row.stop
  BY AcceptedIsHolder
<1>2. HolderOwns(w) /\ row \in Runs
  BY DEF IInv, TypeOK
<1>3. row.status \notin RunTerminal
  BY <1>1, <1>2 DEF HolderOwns
<1>4. row'.stop = row.stop /\ row'.nodes = run.nodes /\ row'.status = run.status
  BY <1>2 DEF Saved, Runs
<1>5. ASSUME NEW n \in Nodes, row.nodes[n] \in NodeTerminal
      PROVE  row'.nodes[n] = row.nodes[n]
  BY <1>1, <1>4, <1>5, SaveSettlesOnce
<1> QED BY <1>1, <1>3, <1>4, <1>5 DEF RowStep

LEMMA StopRowStep ==
    ASSUME IInv, NEW reason \in {"user", "failure"}, row' = StopManagedRun(reason), tasks' = tasks
    PROVE  RowStep
<1>1. row \in Runs
  BY DEF IInv, TypeOK
<1>2. CASE row.stop = "" /\ row.status \notin RunTerminal
  <2>1. row'.stop = reason /\ row'.status = "canceling" /\ row'.nodes = row.nodes
    BY <1>1, <1>2 DEF StopManagedRun, Runs
  <2> QED BY <1>2, <2>1 DEF RowStep, RunTerminal
<1>3. CASE ~ (row.stop = "" /\ row.status \notin RunTerminal)
  BY <1>3 DEF StopManagedRun, RowStep
<1> QED BY <1>2, <1>3

LEMMA AllRowSteps ==
    ASSUME IInv, [Next]_vars
    PROVE  RowStep
<1>1. row \in Runs /\ EndIsFinal
  BY DEF IInv, TypeOK
<1>2. ASSUME row' = row PROVE RowStep
  BY <1>2 DEF RowStep
<1>3. ASSUME NEW w \in Workers, WorkerStep(w) PROVE RowStep
  <2>1. worker[w].run \in Runs /\ worker[w] \in Activities
    BY DEF IInv, TypeOK, Activities
  <2>2. CASE ClaimManagedRun(w)
    <3>1. /\ row'.stop = row.stop /\ row'.nodes = row.nodes /\ row'.status = row.status
          /\ row.status \notin RunTerminal
      BY <1>1, <2>2 DEF ClaimManagedRun, Claimed, Runs
    <3> QED BY <3>1 DEF RowStep
  <2>3. CASE BeginTick(w) \/ \E n \in Nodes : NodeStep(w, n)
    BY <1>2, <2>3 DEF BeginTick, NodeStep, CheckNode, CreateTask, ObserveTask, ObserveHealth,
                      RejectStage, CancelNode, NodeError
  <2>4. CASE CheckFailed(w)
    BY <1>2, <2>4, StopRowStep DEF CheckFailed
  <2>5. CASE SelectReady(w)
    <3>1. PICK skipped \in SUBSET Nodes :
            SelectReady(w)!2!(skipped)
      BY <2>5 DEF SelectReady
    <3> DEFINE chosen == FirstOf(Ready(skipped, worker[w].run.nodes), Free(worker[w].run.nodes))
               marked == [worker[w].run EXCEPT !.nodes = [n \in Nodes |->
                            IF n \in skipped THEN "skipped"
                            ELSE IF n \in chosen THEN "running" ELSE @[n]]]
    <3>2. \A n \in skipped \cup chosen : worker[w].run.nodes[n] = "pending"
      BY <3>1 DEF FirstOf, Ready, IsSkipped
    <3>3. /\ marked \in Runs
          /\ marked.fencing = worker[w].run.fencing
          /\ marked.version = worker[w].run.version
          /\ marked.status = worker[w].run.status
          /\ \A n \in Nodes : marked.nodes[n] =
               IF n \in skipped THEN "skipped"
               ELSE IF n \in chosen THEN "running" ELSE worker[w].run.nodes[n]
      BY <2>1 DEF Runs, NodeStatuses, NodeActive, NodeTerminal
    <3>4. row' = row \/ (SaveAccepted(marked) /\ row' = Saved(w, marked, FALSE))
      BY <3>1 DEF Persist
    <3>5. worker[w].pc # "idle" /\ tasks' = tasks /\ worker[w].run.status \notin RunTerminal
      BY <2>5 DEF SelectReady, IInv, HolderOwns
    <3> HIDE DEF marked, chosen
    <3>6. \A n \in Nodes : worker[w].run.nodes[n] \in NodeTerminal =>
            marked.nodes[n] = worker[w].run.nodes[n]
      BY <3>2, <3>3 DEF NodeTerminal
    <3> QED BY <1>2, <3>3, <3>4, <3>5, <3>6, SaveRowStep
  <2>6. CASE SaveResults(w)
    <3>1. worker[w].pc # "idle" /\ tasks' = tasks /\ worker[w].run.status \notin RunTerminal
      BY <2>6 DEF SaveResults, IInv, HolderOwns
    <3>2. row' = row \/ (SaveAccepted(worker[w].run) /\ row' = Saved(w, worker[w].run, FALSE))
      BY <2>6 DEF SaveResults, Persist
    <3> QED BY <1>2, <2>1, <3>1, <3>2, SaveRowStep
  <2>7. CASE FinishTick(w)
    <3> DEFINE run == [worker[w].run EXCEPT !.status = RunStatus(worker[w].run)]
    <3>1. /\ run \in Runs /\ run.fencing = worker[w].run.fencing
          /\ run.version = worker[w].run.version /\ run.nodes = worker[w].run.nodes
          /\ run.status = RunStatus(worker[w].run)
      BY <2>1, RunStatusType DEF Runs
    <3>2. /\ row' = row \/ (SaveAccepted(run) /\ row' = Saved(w, run, TRUE))
          /\ worker[w].pc # "idle" /\ tasks' = tasks
      BY <2>7 DEF FinishTick
    <3> HIDE DEF run
    <3>3. run.status \in RunTerminal => run.status \in Contract!Outcomes(worker[w].run.stop)
      BY <2>1, <3>1, RunStatusOutcome
    <3>4. run.status = "canceling" => worker[w].run.stop # ""
      BY <3>1 DEF RunStatus
    <3> QED BY <1>2, <3>1, <3>2, <3>3, <3>4, SaveRowStep
  <2> QED BY <1>3, <2>2, <2>3, <2>4, <2>5, <2>6, <2>7 DEF WorkerStep
<1>4. CASE \E w \in Workers : AbandonTick(w)
  BY <1>2, <1>4 DEF AbandonTick
<1>5. CASE ExpireLease
  <2>1. row'.stop = row.stop /\ row'.nodes = row.nodes /\ row'.status = row.status /\ row.leased
    BY <1>1, <1>5 DEF ExpireLease, Runs
  <2> QED BY <1>1, <2>1 DEF RowStep, EndIsFinal
<1>6. CASE UserStop
  BY <1>6, StopRowStep DEF UserStop
<1>7. CASE \E n \in Nodes : ExecutorStep(n)
  BY <1>2, <1>7 DEF ExecutorStep, DispatchTask, DisableProvider, ReportTask, StopTask
<1>8. CASE UNCHANGED vars
  BY <1>2, <1>8 DEF vars
<1> QED BY <1>3, <1>4, <1>5, <1>6, <1>7, <1>8 DEF Next

(* A settled node keeps its status and a finished run is never written again. *)
THEOREM SettledForGood == Spec => SettlesOnce
<1>1. ASSUME IInv, [Next]_vars
      PROVE  [/\ \A n \in Nodes : row.nodes[n] \in NodeTerminal => row'.nodes[n] = row.nodes[n]
              /\ row.status \in RunTerminal => row' = row]_vars
  BY <1>1, AllRowSteps DEF RowStep
<1> QED BY <1>1, Invariant, PTL DEF Spec, SettlesOnce

-----------------------------------------------------------------------------
(* The order of the nodes, and how many are at work *)

(* markNodesRunning *)
Marked(skipped, chosen, nodes) ==
    [n \in Nodes |-> IF n \in skipped THEN "skipped" ELSE IF n \in chosen THEN "running" ELSE nodes[n]]
Selected(skipped) == FirstOf(Ready(skipped, row.nodes), Free(row.nodes))

(* What a step writes to the row's nodes: nothing, what the holder's tick did, or *)
(* the nodes that collectReadyNodes found.                                        *)
Rewrites(w) == Holder(w) /\ row'.nodes = worker[w].run.nodes
Selects(skipped) ==
    IsSkipped(skipped, row.nodes) /\ row'.nodes = Marked(skipped, Selected(skipped), row.nodes)

LEMMA SaveNodes ==
    ASSUME IInv, NEW w \in Workers, worker[w].pc # "idle", NEW run \in Runs, NEW release,
           SaveAccepted(run), run.fencing = worker[w].run.fencing,
           run.version = worker[w].run.version, row' = Saved(w, run, release)
    PROVE  Holder(w) /\ row'.nodes = run.nodes
<1>1. row \in Runs
  BY DEF IInv, TypeOK
<1> QED BY <1>1, AcceptedIsHolder DEF Saved, Runs

LEMMA NodesStep ==
    ASSUME IInv, [Next]_vars
    PROVE  \/ row'.nodes = row.nodes
           \/ tasks' = tasks /\ \E w \in Workers : Rewrites(w)
           \/ tasks' = tasks /\ \E skipped \in SUBSET Nodes : Selects(skipped)
<1>1. row \in Runs
  BY DEF IInv, TypeOK
<1>2. ASSUME NEW reason, row' = StopManagedRun(reason) PROVE row'.nodes = row.nodes
  BY <1>1, <1>2 DEF StopManagedRun, Runs
<1>3. ASSUME NEW w \in Workers, WorkerStep(w)
      PROVE  \/ row'.nodes = row.nodes
             \/ tasks' = tasks /\ Rewrites(w)
             \/ tasks' = tasks /\ \E skipped \in SUBSET Nodes : Selects(skipped)
  <2>1. worker[w].run \in Runs /\ worker[w] \in Activities
    BY DEF IInv, TypeOK, Activities
  <2>2. CASE ClaimManagedRun(w)
    BY <1>1, <2>2 DEF ClaimManagedRun, Claimed, Runs
  <2>3. CASE BeginTick(w) \/ \E n \in Nodes : NodeStep(w, n)
    <3>1. row' = row
      BY <2>3 DEF BeginTick, NodeStep, CheckNode, CreateTask, ObserveTask, ObserveHealth,
                  RejectStage, CancelNode, NodeError
    <3> QED BY <3>1
  <2>4. CASE CheckFailed(w)
    <3>1. row' = row \/ row' = StopManagedRun("failure")
      BY <2>4 DEF CheckFailed
    <3> QED BY <1>2, <3>1
  <2>5. CASE SelectReady(w)
    <3>1. PICK skipped \in SUBSET Nodes :
            SelectReady(w)!2!(skipped)
      BY <2>5 DEF SelectReady
    <3> DEFINE chosen == FirstOf(Ready(skipped, worker[w].run.nodes), Free(worker[w].run.nodes))
               marked == [worker[w].run EXCEPT !.nodes = [n \in Nodes |->
                            IF n \in skipped THEN "skipped"
                            ELSE IF n \in chosen THEN "running" ELSE @[n]]]
    <3>2. /\ marked \in Runs
          /\ marked.fencing = worker[w].run.fencing
          /\ marked.version = worker[w].run.version
          /\ marked.nodes = Marked(skipped, chosen, worker[w].run.nodes)
      BY <2>1 DEF Runs, NodeStatuses, NodeActive, NodeTerminal, Marked
    <3>3. row' = row \/ (SaveAccepted(marked) /\ row' = Saved(w, marked, FALSE))
      BY <3>1 DEF Persist
    <3>4. worker[w].pc = "select" /\ tasks' = tasks /\ HolderCopy(w) /\ IsSkipped(skipped, worker[w].run.nodes)
      BY <2>5, <3>1 DEF SelectReady, IInv
    <3> HIDE DEF marked
    <3>5. CASE SaveAccepted(marked) /\ row' = Saved(w, marked, FALSE)
      <4>1. Holder(w) /\ row'.nodes = marked.nodes
        BY <3>2, <3>4, <3>5, SaveNodes
      <4>2. worker[w].run.nodes = row.nodes
        BY <3>4, <4>1 DEF HolderCopy
      <4> QED BY <3>2, <3>4, <4>1, <4>2 DEF Selects, Selected
    <3> QED BY <3>3, <3>5
  <2>6. CASE SaveResults(w)
    <3>1. worker[w].pc # "idle" /\ tasks' = tasks
      BY <2>6 DEF SaveResults
    <3>2. row' = row \/ (SaveAccepted(worker[w].run) /\ row' = Saved(w, worker[w].run, FALSE))
      BY <2>6 DEF SaveResults, Persist
    <3> QED BY <2>1, <3>1, <3>2, SaveNodes DEF Rewrites
  <2>7. CASE FinishTick(w)
    <3> DEFINE run == [worker[w].run EXCEPT !.status = RunStatus(worker[w].run)]
    <3>1. /\ run \in Runs /\ run.fencing = worker[w].run.fencing
          /\ run.version = worker[w].run.version /\ run.nodes = worker[w].run.nodes
      BY <2>1, RunStatusType DEF Runs
    <3>2. /\ row' = row \/ (SaveAccepted(run) /\ row' = Saved(w, run, TRUE))
          /\ worker[w].pc # "idle" /\ tasks' = tasks
      BY <2>7 DEF FinishTick
    <3> HIDE DEF run
    <3> QED BY <3>1, <3>2, SaveNodes DEF Rewrites
  <2> QED BY <1>3, <2>2, <2>3, <2>4, <2>5, <2>6, <2>7 DEF WorkerStep
<1>4. CASE \E w \in Workers : AbandonTick(w)
  BY <1>4 DEF AbandonTick
<1>5. CASE ExpireLease
  BY <1>1, <1>5 DEF ExpireLease, Runs
<1>6. CASE UserStop
  BY <1>2, <1>6 DEF UserStop
<1>7. CASE \E n \in Nodes : ExecutorStep(n)
  BY <1>7 DEF ExecutorStep, DispatchTask, DisableProvider, ReportTask, StopTask
<1>8. CASE UNCHANGED vars
  BY <1>8 DEF vars
<1> QED BY <1>3, <1>4, <1>5, <1>6, <1>7, <1>8 DEF Next

(* What the holder's tick did to the nodes: it put none to work, and kept the     *)
(* settled ones.                                                                  *)
LEMMA TickNarrows ==
    ASSUME IInv, NEW w \in Workers, Holder(w), NEW n \in Nodes
    PROVE  /\ row.nodes[n] \in NodeTerminal => worker[w].run.nodes[n] = row.nodes[n]
           /\ worker[w].run.nodes[n] \in NodeActive => row.nodes[n] \in NodeActive
           /\ worker[w].run.nodes[n] \in NodeActive \cup {"completed", "failed"} =>
                 row.nodes[n] \in NodeActive \cup {"completed", "failed"}
<1>1. worker[w].run.nodes[n] # row.nodes[n] => Changed(w, n)
  BY DEF IInv, HolderCopy
<1> QED BY <1>1 DEF Changed, NodeActive, NodeTerminal

(* Tasks are created for nodes that are at work. *)
LEMMA TaskCreated ==
    ASSUME IInv, [Next]_vars, NEW n \in Nodes, tasks[n] = NoTask, tasks'[n] # NoTask
    PROVE  row.nodes[n] \in NodeActive /\ row' = row
<1>0. tasks \in [Nodes -> TaskStatuses \cup {NoTask}]
  BY DEF IInv, TypeOK
<1>1. ASSUME NEW w \in Workers, NEW m \in Nodes, NodeStep(w, m)
      PROVE  row.nodes[n] \in NodeActive /\ row' = row
  <2>1. CASE CreateTask(w, m)
    <3>1. m = n /\ LockDeliveryNode(worker[w].run, m) /\ row' = row
      BY <1>0, <2>1 DEF CreateTask
    <3> QED BY <3>1 DEF LockDeliveryNode, NodeActive
  <2>2. CASE CancelNode(w, m)
    <3>1. tasks' = [tasks EXCEPT ![m] = CancelStage(m)]
      BY <2>2 DEF CancelNode
    <3>2. m = n /\ tasks'[n] = CancelStage(n)
      BY <1>0, <3>1
    <3> QED BY <3>2 DEF CancelStage
  <2>3. CASE ~ CreateTask(w, m) /\ ~ CancelNode(w, m)
    <3>1. tasks' = tasks
      BY <1>1, <2>3 DEF NodeStep, CheckNode, ObserveTask, ObserveHealth, RejectStage, NodeError
    <3> QED BY <3>1
  <2> QED BY <2>1, <2>2, <2>3
<1>2. CASE \E w \in Workers : WorkerStep(w) \/ AbandonTick(w)
  <2>1. tasks' # tasks
    OBVIOUS
  <2> QED BY <1>1, <1>2, <2>1 DEF WorkerStep, AbandonTick, ClaimManagedRun, BeginTick, CheckFailed,
                                  SelectReady, SaveResults, FinishTick
<1>3. CASE \E m \in Nodes : ExecutorStep(m)
  <2>1. NoTask \notin TaskLive \cup {"queued", "dispatching", "running"}
    BY DEF NoTask, TaskLive
  <2> QED BY <1>0, <1>3, <2>1 DEF ExecutorStep, DispatchTask, DisableProvider, ReportTask, StopTask
<1>4. CASE ExpireLease \/ UserStop \/ UNCHANGED vars
  BY <1>4 DEF ExpireLease, UserStop, vars
<1> QED BY <1>2, <1>3, <1>4 DEF Next

(* A node that collectReadyNodes chose has its prerequisites, and keeps them when *)
(* the skipped and the chosen nodes are marked.                                   *)
LEMMA ReadyHasPrerequisites ==
    ASSUME NEW nodes \in [Nodes -> NodeStatuses], NEW skipped \in SUBSET Nodes, IsSkipped(skipped, nodes),
           NEW chosen \in SUBSET Ready(skipped, nodes), NEW e \in Edges
    PROVE  /\ e.target \in chosen =>
                 /\ Marked(skipped, chosen, nodes)[e.source] \in NodeTerminal
                 /\ e.condition = "success" => Marked(skipped, chosen, nodes)[e.source] = "completed"
           /\ nodes[e.source] \in NodeTerminal =>
                 Marked(skipped, chosen, nodes)[e.source] = nodes[e.source]
<1> DEFINE M == Marked(skipped, chosen, nodes)
           s == e.source
           n == e.target
<1>1. s \in Nodes /\ n \in Nodes
  BY NodesAssumption
<1>2. M[s] = IF s \in skipped THEN "skipped" ELSE IF s \in chosen THEN "running" ELSE nodes[s]
  BY <1>1 DEF Marked
<1>3. s \in skipped \cup chosen => nodes[s] = "pending"
  BY <1>1 DEF IsSkipped, Ready
<1>4. "pending" \notin NodeTerminal
  BY DEF NodeTerminal
<1>5. nodes[s] \in NodeTerminal => M[s] = nodes[s]
  BY <1>2, <1>3, <1>4
<1>6. ASSUME n \in chosen
      PROVE  M[s] \in NodeTerminal /\ (e.condition = "success" => M[s] = "completed")
  <2> DEFINE S == SeenAt(n, skipped, nodes)
  <2>1. Settled(n, S) /\ ~ Blocked(n, S)
    BY <1>1, <1>6 DEF Ready, IsSkipped
  <2>2. S[s] \in NodeTerminal /\ (e.condition = "success" => S[s] = "completed")
    BY <2>1 DEF Settled, Blocked, Incoming
  <2>3. S[s] = IF s \in skipped /\ s < n THEN "skipped" ELSE nodes[s]
    BY <1>1 DEF SeenAt
  <2>4. CASE s \in skipped /\ s < n
    BY <1>2, <2>2, <2>3, <2>4
  <2>5. CASE ~ (s \in skipped /\ s < n)
    BY <1>5, <2>2, <2>3, <2>5
  <2> QED BY <2>4, <2>5
<1> QED BY <1>5, <1>6

LEMMA PrerequisitesInductive ==
    ASSUME IInv, PrerequisitesFirst, [Next]_vars
    PROVE  PrerequisitesFirst'
<1> SUFFICES ASSUME NEW e \in Edges, Started(e.target)'
             PROVE  /\ row'.nodes[e.source] \in NodeTerminal
                    /\ e.condition = "success" => row'.nodes[e.source] = "completed"
  BY DEF PrerequisitesFirst
<1> DEFINE s == e.source
           n == e.target
<1>1. s \in Nodes /\ n \in Nodes
  BY NodesAssumption
<1>2. row.nodes \in [Nodes -> NodeStatuses]
  BY DEF IInv, TypeOK, Runs
<1>3. row.nodes[s] \in NodeTerminal => row'.nodes[s] = row.nodes[s]
  BY <1>1, AllRowSteps DEF RowStep
<1>4. CASE Started(n)
  BY <1>3, <1>4 DEF PrerequisitesFirst
<1>5. CASE ~ Started(n)
  <2>1. tasks[n] = NoTask /\ row.nodes[n] \notin NodeActive \cup {"completed", "failed"}
    BY <1>5 DEF Started
  <2>2. tasks'[n] = NoTask
    BY <1>1, <2>1, TaskCreated
  <2>3. row'.nodes[n] \in NodeActive \cup {"completed", "failed"}
    BY <2>2 DEF Started
  <2>4. ASSUME NEW w \in Workers, Rewrites(w) PROVE FALSE
    BY <1>1, <2>1, <2>3, <2>4, TickNarrows DEF Rewrites
  <2>5. PICK skipped \in SUBSET Nodes : Selects(skipped)
    BY <2>1, <2>3, <2>4, NodesStep
  <2> DEFINE chosen == Selected(skipped)
  <2>6. chosen \in SUBSET Ready(skipped, row.nodes)
    BY DEF Selected, FirstOf
  <2>7. row'.nodes = Marked(skipped, chosen, row.nodes) /\ IsSkipped(skipped, row.nodes)
    BY <2>5 DEF Selects
  <2> HIDE DEF chosen
  <2>8. row'.nodes[n] = IF n \in skipped THEN "skipped" ELSE IF n \in chosen THEN "running" ELSE row.nodes[n]
    BY <1>1, <2>7 DEF Marked
  <2>9. n \in chosen
    BY <2>1, <2>3, <2>8 DEF NodeActive
  <2> QED BY <1>2, <2>6, <2>7, <2>9, ReadyHasPrerequisites
<1> QED BY <1>4, <1>5

(* A node starts only after every node it needs has completed and those it        *)
(* follows have settled, for every DAG: although workers decide on copies, the    *)
(* copy that is saved is the row (deliveryNodeReadiness, collectReadyNodes).      *)
THEOREM StartedInOrder == Spec => []PrerequisitesFirst
<1>1. Init => PrerequisitesFirst
  <2> SUFFICES ASSUME Init, NEW e \in Edges PROVE ~ Started(e.target)
    BY DEF PrerequisitesFirst
  <2>1. e.target \in Nodes
    BY NodesAssumption
  <2> QED BY <2>1 DEF Init, NewRun, Started, NodeActive
<1>2. IInv /\ PrerequisitesFirst /\ [Next]_vars => PrerequisitesFirst'
  BY PrerequisitesInductive
<1> QED BY <1>1, <1>2, Invariant, PTL DEF Spec

(* ready[:limit] has at most limit elements. *)
LEMMA FirstOfBound ==
    ASSUME NEW S \in SUBSET Nodes, NEW k \in Nat
    PROVE  IsFiniteSet(FirstOf(S, k)) /\ Cardinality(FirstOf(S, k)) <= k
<1> DEFINE F == FirstOf(S, k)
           Below(n) == {m \in S : m < n}
           f == [n \in F |-> Cardinality(Below(n))]
<1>1. IsFiniteSet(S) /\ S \subseteq Nat
  BY NodesAssumption, FS_Subset
<1>2. F \subseteq S
  BY DEF FirstOf
<1>3. ASSUME NEW n \in F PROVE f[n] \in 0 .. (k - 1) /\ IsFiniteSet(Below(n)) /\ Cardinality(Below(n)) \in Nat
  <2>1. Below(n) \in SUBSET S
    OBVIOUS
  <2>2. IsFiniteSet(Below(n))
    BY <1>1, <2>1, FS_Subset
  <2>3. Cardinality(Below(n)) \in Nat
    BY <2>2, FS_CardinalityType
  <2>4. Cardinality(Below(n)) < k
    BY DEF FirstOf
  <2> QED BY <2>2, <2>3, <2>4
<1>4. ASSUME NEW m \in F, NEW n \in F, m < n PROVE f[m] # f[n]
  <2>1. m \in Nat /\ n \in Nat
    BY <1>1, <1>2
  <2>2. Below(m) \in SUBSET Below(n)
    <3> SUFFICES ASSUME NEW j \in Below(m) PROVE j < n
      OBVIOUS
    <3>1. j \in Nat /\ j < m
      BY <1>1
    <3> QED BY <1>4, <2>1, <3>1
  <2>3. m \in Below(n) /\ m \notin Below(m)
    BY <1>2, <1>4, <2>1
  <2>4. IsFiniteSet(Below(n))
    BY <1>3
  <2> HIDE DEF Below
  <2>5. Cardinality(Below(n)) # Cardinality(Below(m))
    BY <2>2, <2>3, <2>4, FS_Subset
  <2> QED BY <2>5
<1>5. f \in Injection(F, 0 .. (k - 1))
  <2>1. f \in [F -> 0 .. (k - 1)]
    BY <1>3
  <2>2. ASSUME NEW m \in F, NEW n \in F, f[m] = f[n] PROVE m = n
    <3>1. m \in Nat /\ n \in Nat
      BY <1>1, <1>2
    <3>2. ~ (m < n) /\ ~ (n < m)
      BY <1>4, <2>2
    <3> HIDE DEF f, F
    <3> QED BY <3>1, <3>2
  <2> QED BY <2>1, <2>2 DEF Injection, IsInjective
<1> HIDE DEF F, f
<1>6. IsFiniteSet(0 .. (k - 1)) /\ Cardinality(0 .. (k - 1)) = k
  <2>1. 0 \in Int /\ k - 1 \in Int
    OBVIOUS
  <2> QED BY <2>1, FS_Interval
<1>7. IsFiniteSet(F) /\ Cardinality(F) <= k
  BY <1>5, <1>6, FS_Injection
<1> QED BY <1>7 DEF F

LEMMA ConcurrencyInductive ==
    ASSUME IInv, WithinConcurrency, [Next]_vars
    PROVE  WithinConcurrency'
<1> DEFINE A == Active(row.nodes)
           B == Active(row'.nodes)
<1>1. A \in SUBSET Nodes /\ IsFiniteSet(A) /\ Cardinality(A) \in Nat
  <2>1. A \in SUBSET Nodes
    BY DEF Active
  <2>2. IsFiniteSet(A)
    BY <2>1, NodesAssumption, FS_Subset
  <2> QED BY <2>1, <2>2, FS_CardinalityType
<1>2. Cardinality(A) <= MaxConcurrency /\ MaxConcurrency \in Nat
  BY BoundsAssumption DEF WithinConcurrency
<1>3. CASE row'.nodes = row.nodes
  BY <1>2, <1>3 DEF WithinConcurrency
<1>4. CASE \E w \in Workers : Rewrites(w)
  <2>1. B \in SUBSET A
    BY <1>4, TickNarrows DEF Rewrites, Active
  <2> HIDE DEF A, B
  <2>2. IsFiniteSet(B) /\ Cardinality(B) <= Cardinality(A) /\ Cardinality(B) \in Nat
    BY <1>1, <2>1, FS_Subset, FS_CardinalityType
  <2>3. Cardinality(B) <= MaxConcurrency
    BY <1>1, <1>2, <2>2
  <2> QED BY <2>3 DEF B, WithinConcurrency
<1>5. CASE \E skipped \in SUBSET Nodes : Selects(skipped)
  <2>1. PICK skipped \in SUBSET Nodes : Selects(skipped)
    BY <1>5
  <2> DEFINE C == Selected(skipped)
             k == Free(row.nodes)
  <2>2. k \in Nat /\ k = MaxConcurrency - Cardinality(A)
    BY <1>1, <1>2 DEF Free
  <2>3. Ready(skipped, row.nodes) \in SUBSET Nodes
    BY DEF Ready
  <2>4. IsFiniteSet(C) /\ Cardinality(C) <= k
    BY <2>2, <2>3, FirstOfBound DEF Selected
  <2>5. B \in SUBSET (A \cup C)
    <3>1. \A n \in Nodes : row'.nodes[n] =
            IF n \in skipped THEN "skipped" ELSE IF n \in C THEN "running" ELSE row.nodes[n]
      BY <2>1 DEF Selects, Marked
    <3> QED BY <3>1 DEF Active, NodeActive
  <2> HIDE DEF A, B, C, k
  <2>6. IsFiniteSet(A \cup C) /\ Cardinality(A \cup C) <= Cardinality(A) + Cardinality(C)
    <3>1. /\ IsFiniteSet(A \cup C)
          /\ Cardinality(A \cup C) = Cardinality(A) + Cardinality(C) - Cardinality(A \cap C)
      BY <1>1, <2>4, FS_Union
    <3>2. A \cap C \in SUBSET A
      OBVIOUS
    <3>3. Cardinality(A \cap C) \in Nat /\ Cardinality(C) \in Nat
      BY <1>1, <2>4, <3>2, FS_Subset, FS_CardinalityType
    <3> QED BY <1>1, <3>1, <3>3
  <2>7. IsFiniteSet(B) /\ Cardinality(B) <= Cardinality(A \cup C)
    BY <2>5, <2>6, FS_Subset
  <2>8. Cardinality(B) \in Nat /\ Cardinality(A \cup C) \in Nat /\ Cardinality(C) \in Nat
    BY <2>4, <2>6, <2>7, FS_CardinalityType
  <2>9. Cardinality(B) <= MaxConcurrency
    BY <1>1, <1>2, <2>2, <2>4, <2>6, <2>7, <2>8
  <2> QED BY <2>9 DEF B, WithinConcurrency
<1> QED BY <1>3, <1>4, <1>5, NodesStep

(* Never more nodes at work than the batch allows, for any limit and however      *)
(* often workers lose their leases (advanceDeliveryRun).                          *)
THEOREM LimitKept == Spec => []WithinConcurrency
<1>1. Init => WithinConcurrency
  <2> SUFFICES ASSUME Init PROVE WithinConcurrency
    OBVIOUS
  <2>1. Active(row.nodes) = {}
    BY DEF Init, NewRun, Active, NodeActive
  <2> QED BY <2>1, FS_EmptySet, BoundsAssumption DEF WithinConcurrency
<1>2. IInv /\ WithinConcurrency /\ [Next]_vars => WithinConcurrency'
  BY ConcurrencyInductive
<1> QED BY <1>1, <1>2, Invariant, PTL DEF Spec

-----------------------------------------------------------------------------
(* Refinement of DeliveryContract *)

(* A step that changes one task and not the row. *)
LEMMA TaskRefines ==
    ASSUME IInv, row' = row, NEW n \in Nodes, NEW status \in TaskStatuses,
           tasks' = [tasks EXCEPT ![n] = status],
           \/ status = tasks[n]
           \/ tasks[n] = NoTask /\ status = "queued"
           \/ tasks[n] \in AtWork /\ status \in TaskTerminal
           \/ tasks[n] \in TaskLive /\ status \in TaskLive
           \/ tasks[n] = "queued" /\ status = "dispatching" /\ LockDeliveryDispatch
    PROVE  [Contract!Next]_(Contract!vars)
<1> DEFINE live == {m \in Mutating : tasks[m] \in TaskLive}
           done == {m \in Mutating : tasks[m] \in TaskTerminal}
<1>1. tasks \in [Nodes -> TaskStatuses \cup {NoTask}] /\ Mutating \subseteq Nodes
  BY DEF IInv, TypeOK, Mutating
<1>2. /\ tasks'[n] = status
      /\ \A m \in Mutating : m # n => tasks'[m] = tasks[m]
  BY <1>1
<1>3. /\ NoTask \notin TaskLive \cup TaskTerminal \cup {"queued"}
      /\ "queued" \notin TaskLive \cup TaskTerminal
      /\ "dispatching" \in TaskLive
      /\ TaskLive \cap TaskTerminal = {}
      /\ AtWork = TaskLive \cup {"queued"}
  BY DEF TaskLive, TaskTerminal, NoTask, AtWork
<1>4. CASE \/ n \notin Mutating
           \/ status = tasks[n]
           \/ tasks[n] = NoTask /\ status = "queued"
           \/ tasks[n] \in TaskLive /\ status \in TaskLive
  <2>1. live' = live /\ done' = done
    BY <1>1, <1>2, <1>3, <1>4
  <2> QED BY <2>1 DEF Contract!vars
<1>5. CASE n \in Mutating /\ tasks[n] \in AtWork /\ status \in TaskTerminal
  <2>1. row.status \notin RunTerminal
    BY <1>5, AtWorkIsOpen
  <2>2. live' = live \ {n} /\ done' = done \cup {n} /\ n \notin done
    BY <1>1, <1>2, <1>3, <1>5
  <2>3. Contract!Settle(n)
    BY <2>1, <2>2 DEF Contract!Settle
  <2> QED BY <1>5, <2>3 DEF Contract!Next
<1>6. CASE n \in Mutating /\ tasks[n] = "queued" /\ status = "dispatching" /\ LockDeliveryDispatch
  <2>1. row.status \notin RunTerminal /\ row.stop = ""
    BY <1>6 DEF LockDeliveryDispatch
  <2>2. live' = live \cup {n} /\ done' = done /\ n \notin live \cup done
    BY <1>1, <1>2, <1>3, <1>6
  <2>3. Contract!Dispatch(n)
    BY <2>1, <2>2 DEF Contract!Dispatch
  <2> QED BY <1>6, <2>3 DEF Contract!Next
<1> QED BY <1>4, <1>5, <1>6

(* A step that leaves the tasks alone. *)
LEMMA RowRefines ==
    ASSUME IInv, IInv', RowStep, tasks' = tasks
    PROVE  [Contract!Next]_(Contract!vars)
<1> DEFINE live == {m \in Mutating : tasks[m] \in TaskLive}
           done == {m \in Mutating : tasks[m] \in TaskTerminal}
           outcome == IF row.status \in RunTerminal THEN row.status ELSE "open"
<1>1. live' = live /\ done' = done
  OBVIOUS
<1>2. CASE row.status \in RunTerminal
  BY <1>1, <1>2 DEF RowStep, Contract!vars
<1>3. CASE row'.stop # row.stop
  <2>1. /\ outcome = "open" /\ outcome' = "open" /\ row.stop = ""
        /\ row'.stop \in {"user", "failure"}
    BY <1>3 DEF RowStep
  <2>2. Contract!Stop(row'.stop)
    BY <1>1, <2>1 DEF Contract!Stop
  <2> QED BY <2>1, <2>2 DEF Contract!Next
<1>4. CASE row'.stop = row.stop /\ row.status \notin RunTerminal /\ row'.status \notin RunTerminal
  BY <1>1, <1>4 DEF Contract!vars
<1>5. CASE row.status \notin RunTerminal /\ row'.status \in RunTerminal
  <2>1. row'.stop = row.stop /\ row'.status \in Contract!Outcomes(row.stop)
    BY <1>5 DEF RowStep
  <2>2. live = {}
    BY <1>5 DEF IInv, EndIsFinal, NodesAreHonest, AtWork, Mutating
  <2>3. Contract!Finish(row'.status)
    BY <1>1, <1>5, <2>1, <2>2 DEF Contract!Finish
  <2> QED BY <2>1, <2>3 DEF Contract!Next
<1> QED BY <1>2, <1>3, <1>4, <1>5

LEMMA StepRefines ==
    ASSUME IInv, [Next]_vars
    PROVE  [Contract!Next]_(Contract!vars)
<1>1. IInv' /\ RowStep
  BY Inductive, AllRowSteps
<1>2. tasks \in [Nodes -> TaskStatuses \cup {NoTask}]
  BY DEF IInv, TypeOK
<1>3. ASSUME tasks' = tasks PROVE [Contract!Next]_(Contract!vars)
  BY <1>1, <1>3, RowRefines
<1>4. ASSUME NEW w \in Workers, NEW n \in Nodes, CreateTask(w, n)
      PROVE  [Contract!Next]_(Contract!vars)
  <2>1. row' = row /\ (tasks' = tasks \/ (tasks[n] = NoTask /\ tasks' = [tasks EXCEPT ![n] = "queued"]))
    BY <1>4 DEF CreateTask
  <2>2. "queued" \in TaskStatuses
    BY DEF TaskStatuses
  <2> QED BY <1>3, <2>1, <2>2, TaskRefines
<1>5. ASSUME NEW w \in Workers, NEW n \in Nodes, CancelNode(w, n)
      PROVE  [Contract!Next]_(Contract!vars)
  <2>1. row' = row /\ tasks' = [tasks EXCEPT ![n] = CancelStage(n)]
    BY <1>5 DEF CancelNode
  <2>2. CASE CancelStage(n) = tasks[n]
    <3>1. tasks' = tasks
      BY <1>2, <2>1, <2>2
    <3> QED BY <1>3, <3>1
  <2>3. CASE CancelStage(n) # tasks[n]
    <3>1. \/ tasks[n] = "queued" /\ CancelStage(n) = "canceled"
          \/ tasks[n] \in TaskLive /\ CancelStage(n) = "canceling"
      BY <2>3 DEF CancelStage, RequestStop, TaskLive
    <3>2. /\ CancelStage(n) \in TaskStatuses
          /\ "queued" \in AtWork /\ "canceled" \in TaskTerminal /\ "canceling" \in TaskLive
      BY <3>1 DEF TaskStatuses, AtWork, TaskTerminal, TaskLive
    <3> QED BY <2>1, <3>1, <3>2, TaskRefines
  <2> QED BY <2>2, <2>3
<1>6. ASSUME NEW n \in Nodes, ExecutorStep(n)
      PROVE  [Contract!Next]_(Contract!vars)
  <2>1. CASE DispatchTask(n)
    <3>1. "dispatching" \in TaskStatuses
      BY DEF TaskStatuses
    <3> QED BY <2>1, <3>1, TaskRefines DEF DispatchTask
  <2>2. CASE DisableProvider(n)
    <3>1. "failed" \in TaskStatuses \cap TaskTerminal /\ "queued" \in AtWork
      BY DEF TaskStatuses, TaskTerminal, AtWork
    <3> QED BY <2>2, <3>1, TaskRefines DEF DisableProvider
  <2>3. ASSUME NEW status \in TaskReports, ReportTask(n, status)
        PROVE  [Contract!Next]_(Contract!vars)
    <3> DEFINE stored == StoredStatus(tasks[n], status)
    <3>1. row' = row /\ tasks' = [tasks EXCEPT ![n] = stored] /\ tasks[n] \in TaskLive
      BY <2>3 DEF ReportTask
    <3>2. stored \in TaskStatuses /\ (stored \in TaskTerminal \/ stored \in TaskLive)
      BY <3>1 DEF StoredStatus, TaskStatuses, TaskReports, TaskTerminal, TaskLive
    <3>3. tasks[n] \in AtWork
      BY <3>1 DEF AtWork
    <3> HIDE DEF stored
    <3> QED BY <3>1, <3>2, <3>3, TaskRefines
  <2>4. CASE StopTask(n)
    <3> DEFINE stored == RequestStop(tasks[n])
    <3>1. row' = row /\ tasks' = [tasks EXCEPT ![n] = stored]
      BY <2>4 DEF StopTask
    <3>2. /\ stored \in TaskStatuses /\ tasks[n] \in AtWork
          /\ (stored \in TaskTerminal \/ (tasks[n] \in TaskLive /\ stored \in TaskLive))
      BY <2>4 DEF StopTask, RequestStop, TaskStatuses, TaskTerminal, TaskLive, AtWork
    <3> HIDE DEF stored
    <3> QED BY <3>1, <3>2, TaskRefines
  <2> QED BY <1>6, <2>1, <2>2, <2>3, <2>4 DEF ExecutorStep
<1>7. ASSUME NEW w \in Workers, WorkerStep(w)
      PROVE  [Contract!Next]_(Contract!vars)
  <2>1. \/ tasks' = tasks
        \/ \E n \in Nodes : CreateTask(w, n) \/ CancelNode(w, n)
    BY <1>7 DEF WorkerStep, NodeStep, ClaimManagedRun, BeginTick, CheckFailed, SelectReady,
                CheckNode, ObserveTask, ObserveHealth, RejectStage, NodeError, SaveResults, FinishTick
  <2> QED BY <1>3, <1>4, <1>5, <2>1
<1>8. CASE \E w \in Workers : AbandonTick(w)
  BY <1>3, <1>8 DEF AbandonTick
<1>9. CASE ExpireLease \/ UserStop \/ UNCHANGED vars
  BY <1>3, <1>9 DEF ExpireLease, UserStop, vars
<1> QED BY <1>6, <1>7, <1>8, <1>9 DEF Next

(* The worker pool, its leases and its crashes implement DeliveryContract: no *)
(* stage is handed out twice or after a stop, the first cause decides, and    *)
(* the batch ends once, when nothing is left at work.                         *)
THEOREM Refinement == Spec => ContractSpec
<1>1. Init => Contract!Init
  <2> SUFFICES ASSUME Init PROVE Contract!Init
    OBVIOUS
  <2>1. row.status = "queued" /\ row.stop = "" /\ \A n \in Nodes : tasks[n] = NoTask
    BY DEF Init, NewRun
  <2>2. NoTask \notin TaskLive \cup TaskTerminal /\ "queued" \notin RunTerminal
    BY DEF NoTask, TaskLive, TaskTerminal, RunTerminal
  <2> QED BY <2>1, <2>2 DEF Contract!Init, Mutating
<1> QED BY <1>1, StepRefines, Invariant, PTL DEF Spec, ContractSpec, Contract!Spec
=============================================================================
