----------------------- MODULE ExternalPipelineProofs -----------------------
(***************************************************************************)
(* ExternalPipeline for any number of controllers and faults: one POST, an *)
(* ended task without a run at work, and nothing found out is forgotten.   *)
(***************************************************************************)
EXTENDS ExternalPipeline, TLAPS

(* What no step undoes. *)
RunsSteady ==
    /\ \A r \in Runs : run[r].state \in Created =>
          run'[r].state \in Created /\ run'[r].valid = run[r].valid
    /\ \A r \in Runs : run[r].state \in Ended => run'[r].state = run[r].state
RowSteady ==
    /\ task.status # "queued" => task'.status # "queued"
    /\ task.failure => task'.failure
    /\ task.reason # "none" => task'.reason = task.reason
    /\ task.status = "canceling" => task'.status \in {"canceling", "canceled", "failed"}
    /\ task.status \in TaskTerminal => task'.status = task.status
Steady ==
    /\ RunsSteady
    /\ RowSteady
    /\ task.status # "queued" /\ NothingLeft => NothingLeft'

(* The shapes of a controller's state. *)
LEMMA ControlTypes ==
    /\ Idle \in Controlling
    /\ [step |-> "begin"] \in Controlling
    /\ \A copy \in Tasks :
          /\ \A step \in {"post", "await", "expire", "find"} :
                [step |-> step, copy |-> copy] \in Controlling
          /\ \A r \in Runs : [step |-> "inspect", copy |-> copy, id |-> r] \in Controlling
          /\ \A r \in RunIds, found \in Findings, confirmed \in BOOLEAN :
                ToRecord(copy, r, found, confirmed) \in Controlling
          /\ Follow(copy) \in Controlling
BY DEF Idle, Controlling, ToRecord, Seen, Follow, Tasks, RunIds

LEMMA CopyType ==
    ASSUME TypeOK, NEW c \in Controllers
    PROVE  /\ controller[c].step \notin {"idle", "begin"} => Copy(c) \in Tasks
           /\ At(c, "inspect") => controller[c].id \in Runs
           /\ At(c, "record") => controller[c].seen \in Seen
BY DEF TypeOK, Controlling, At, Copy

LEMMA AskedType ==
    ASSUME TypeOK, NEW reason \in Reasons
    PROVE  Asked(reason) \in Tasks
BY DEF TypeOK, Asked, RequestStop, Tasks, TaskStatuses, Reasons

LEMMA InitInductive == Init => IInv
<1> SUFFICES ASSUME Init PROVE IInv
  OBVIOUS
<1>1. TypeOK
  <2>1. task \in Tasks
    BY DEF Init, Tasks, TaskStatuses, Reasons, RunIds
  <2>2. run \in [Runs -> Pipelines]
    BY DEF Init, Unsent, Pipelines, RunStates
  <2>3. controller \in [Controllers -> Controlling]
    BY ControlTypes DEF Init
  <2>4. faults \in 0 .. MaxFaults /\ posts \in 0 .. 1
    BY MaxFaultsAssumption DEF Init
  <2> QED BY <2>1, <2>2, <2>3, <2>4 DEF Init, TypeOK
<1>2. OnePermit
  BY DEF Init, OnePermit, Idle, At, Unsent, Runs
<1>3. RowFollows
  BY DEF Init, RowFollows, CompletedIsBuilt, TaskTerminal, NoRun
<1>4. \A c \in Controllers : HoldsTruth(c)
  BY DEF Init, HoldsTruth, At, Idle
<1> QED BY <1>1, <1>2, <1>3, <1>4 DEF IInv

(* A controller that does nothing keeps a truth that is steady. *)
LEMMA HeldStays ==
    ASSUME IInv, Steady, NEW c \in Controllers, controller'[c] = controller[c]
    PROVE  HoldsTruth(c)'
<1>0. TypeOK /\ HoldsTruth(c)
  BY DEF IInv
<1>1. CASE controller[c].step \in {"idle", "begin"}
  BY <1>1 DEF HoldsTruth, At
<1>2. CASE controller[c].step \notin {"idle", "begin"}
  <2>1. task.status # "queued"
    BY <1>2 DEF IInv, OnePermit
  <2>2. CopyIsPast(Copy(c))'
    BY <1>0, <1>2, <2>1 DEF HoldsTruth, Copy, CopyIsPast, Steady, RowSteady, TaskTerminal
  <2>3. At(c, "inspect") => run'[controller[c].id].state \in Created
    BY <1>0, CopyType DEF HoldsTruth, Steady, RunsSteady
  <2>4. ASSUME At(c, "record")
        PROVE  SeenIsTrue(Copy(c), controller[c].seen)'
    <3>0. SeenIsTrue(Copy(c), controller[c].seen) /\ controller[c].seen \in Seen
      BY <1>0, <2>4, CopyType DEF HoldsTruth
    <3>1. controller[c].seen.run # NoRun => controller[c].seen.run \in Runs
      BY <3>0 DEF Seen, RunIds
    <3>2. \A r \in Runs : run[r].state = "built" => run[r].state \in Ended /\ run[r].state \in Created
      BY DEF Ended, Created
    <3> QED BY <3>0, <3>1, <3>2, <2>1
            DEF SeenIsTrue, Steady, RunsSteady, Copy
  <2> QED BY <1>0, <2>2, <2>3, <2>4 DEF HoldsTruth, At, Copy
<1> QED BY <1>1, <1>2

LEMMA OneMoves ==
    ASSUME IInv, NEW c \in Controllers, NEW what \in Controlling, Become(c, what),
           Steady, TypeOK', OnePermit', RowFollows', HoldsTruth(c)'
    PROVE  IInv'
<1>1. ASSUME NEW v \in Controllers, v # c
      PROVE  HoldsTruth(v)'
  <2>1. controller'[v] = controller[v]
    BY <1>1 DEF IInv, TypeOK, Become
  <2> QED BY <2>1, HeldStays
<1> QED BY <1>1 DEF IInv

LEMMA NobodyMoves ==
    ASSUME IInv, controller' = controller, Steady, TypeOK', OnePermit', RowFollows'
    PROVE  IInv'
BY HeldStays DEF IInv

(* A controller that takes no permission leaves the other ones as they are. *)
LEMMA PermitsStay ==
    ASSUME IInv, NEW c \in Controllers, NEW what \in Controlling, Become(c, what),
           what.step # "post"
    PROVE  /\ controller'[c] = what
           /\ \A v \in Controllers : v # c => controller'[v] = controller[v]
           /\ \A v \in Controllers : At(v, "post")' => At(v, "post") /\ v # c
           /\ NothingLeft /\ run' = run => NothingLeft'
<1>1. controller'[c] = what /\ \A v \in Controllers : v # c => controller'[v] = controller[v]
  BY DEF IInv, TypeOK, Become
<1>2. \A v \in Controllers : At(v, "post")' => At(v, "post") /\ v # c
  BY <1>1 DEF At
<1> QED BY <1>1, <1>2 DEF NothingLeft, AtWork

(* A step of a controller that leaves the row and the runs alone. *)
LEMMA OnlyControl ==
    ASSUME IInv, NEW c \in Controllers, NEW what \in Controlling, Become(c, what),
           UNCHANGED <<task, runOpen, overdue, run, posts>>, faults' \in 0 .. MaxFaults,
           what.step \notin {"post", "await"},
           task.status = "queued" => what.step \in {"idle", "begin"},
           HoldsTruth(c)'
    PROVE  IInv'
<1>1. TypeOK'
  BY DEF IInv, TypeOK, Become
<1>2. /\ controller'[c] = what
      /\ \A v \in Controllers : v # c => controller'[v] = controller[v]
      /\ \A v \in Controllers : At(v, "post")' => At(v, "post") /\ v # c
      /\ NothingLeft => NothingLeft'
  BY PermitsStay
<1>3. Steady
  BY <1>2 DEF Steady, RunsSteady, RowSteady
<1>4. OnePermit'
  BY <1>2 DEF IInv, OnePermit, At
<1>5. RowFollows'
  BY <1>2 DEF IInv, RowFollows, CompletedIsBuilt
<1> QED BY <1>1, <1>3, <1>4, <1>5, OneMoves

(* What a controller has just read is true. *)
LEMMA FreshCopy ==
    ASSUME IInv, task.status # "queued"
    PROVE  CopyIsPast(task)
BY DEF CopyIsPast, TaskTerminal

LEMMA FollowTruth ==
    ASSUME IInv, NEW c \in Controllers, NEW copy \in Tasks, controller'[c] = Follow(copy),
           CopyIsPast(copy)', run' = run, copy.ref # NoRun => run[copy.ref].state \in Created,
           copy.status = "running" => copy.ref # NoRun
    PROVE  HoldsTruth(c)'
BY DEF HoldsTruth, Follow, At, Copy

LEMMA SweepKeeps ==
    ASSUME IInv, NEW c \in Controllers, SweepQueued(c) \/ SweepDispatched(c)
    PROVE  IInv'
<1>0. TypeOK /\ task \in Tasks /\ faults \in 0 .. MaxFaults
  BY DEF IInv, TypeOK
<1>1. CASE SweepQueued(c)
  <2>1. controller'[c] = [step |-> "begin"]
    BY <1>0, <1>1 DEF SweepQueued, TypeOK, Become
  <2>2. HoldsTruth(c)'
    BY <2>1 DEF HoldsTruth, At
  <2> QED BY <1>0, <1>1, <2>2, ControlTypes, OnlyControl DEF SweepQueued
<1>2. CASE SweepDispatched(c)
  <2>1. PICK what : what = IF Expired THEN [step |-> "expire", copy |-> task] ELSE Follow(task)
    OBVIOUS
  <2>2. /\ what \in Controlling /\ Become(c, what) /\ what.step \notin {"post", "await"}
        /\ task.status # "queued"
    BY <1>0, <1>2, <2>1, ControlTypes DEF SweepDispatched, Follow, TaskLive
  <2>3. controller'[c] = what /\ task' = task /\ run' = run
    BY <1>0, <1>2, <2>2 DEF SweepDispatched, TypeOK, Become
  <2>4. CopyIsPast(task)'
    BY <2>2, <2>3, FreshCopy DEF CopyIsPast
  <2>5. HoldsTruth(c)'
    <3>1. CASE Expired
      BY <3>1, <2>1, <2>3, <2>4 DEF HoldsTruth, At, Copy
    <3>2. CASE ~Expired
      <4>1. task.ref # NoRun => run[task.ref].state \in Created
        BY DEF IInv, RowFollows
      <4>2. task.status = "running" => task.ref # NoRun
        BY DEF IInv, RowFollows
      <4>3. PICK copy \in Tasks : copy = task
        BY <1>0
      <4>4. CopyIsPast(copy)'
        BY <4>3, <2>4, <2>3 DEF CopyIsPast
      <4> QED BY <3>2, <4>1, <4>2, <4>3, <4>4, <2>1, <2>3, FollowTruth
    <3> QED BY <3>1, <3>2
  <2> QED BY <1>0, <1>2, <2>2, <2>5, OnlyControl DEF SweepDispatched
<1> QED BY <1>1, <1>2

(* A request to stop changes the row, whoever makes it. *)
LEMMA AskedKeeps ==
    ASSUME IInv, NEW c \in Controllers, NEW what \in Controlling, NEW reason \in Reasons,
           Become(c, what), task' = Asked(reason),
           UNCHANGED <<runOpen, overdue, run, posts, faults>>,
           what = IF task'.status \in TaskTerminal /\ reason = "requested" THEN Idle
                  ELSE Follow(task'),
           task.status # "queued" \/ reason = "requested", reason # "none"
    PROVE  IInv'
<1>0. TypeOK /\ task \in Tasks
  BY DEF IInv, TypeOK
<1>1. /\ task' \in Tasks /\ task'.ref = task.ref /\ task'.failure = task.failure
      /\ task'.status # "queued"
      /\ task.status = "queued" => task'.status = "canceled"
      /\ task.status \in {"dispatching", "running"} => task'.status = "canceling"
      /\ task.status \in TaskTerminal \cup {"canceling"} => task' = task
  BY <1>0, AskedType DEF Asked, RequestStop, Tasks, TaskStatuses, TaskTerminal
<1>1a. task.status \in {"queued", "dispatching", "running", "canceling"} \cup TaskTerminal
  BY <1>0 DEF Tasks, TaskStatuses, TaskTerminal
<1>2. TypeOK'
  BY <1>0, <1>1 DEF TypeOK, Become
<1>3. what.step \in {"idle", "find", "inspect"}
  BY DEF Idle, Follow
<1>4. /\ controller'[c] = what
      /\ \A v \in Controllers : v # c => controller'[v] = controller[v]
      /\ \A v \in Controllers : At(v, "post")' => At(v, "post") /\ v # c
      /\ NothingLeft => NothingLeft'
  BY <1>3, PermitsStay
<1>5. RowSteady
  <2>1. task.reason # "none" => task'.reason = task.reason
    BY <1>1 DEF IInv, RowFollows
  <2> QED BY <1>1, <1>1a, <2>1 DEF RowSteady, TaskTerminal
<1>6. Steady
  BY <1>4, <1>5 DEF Steady, RunsSteady
<1>7. OnePermit'
  <2>1. \A v \in Controllers : At(v, "await")' => At(v, "await")
    BY <1>3, <1>4 DEF At
  <2>2. ASSUME NEW v \in Controllers, At(v, "post")'
        PROVE  task'.status \in {"dispatching", "canceling"} /\ posts = 0 /\ task'.ref = NoRun
    BY <1>1, <1>4, <2>2 DEF IInv, OnePermit
  <2> QED BY <1>1, <1>4, <2>1, <2>2 DEF IInv, OnePermit, At
<1>8. RowFollows'
  <2>1. task.status = "queued" => NothingLeft' /\ task'.ref = NoRun
    <3>1. task.status = "queued" => NothingLeft
      BY DEF IInv, OnePermit, NothingLeft, At, AtWork
    <3> QED BY <1>1, <1>4, <3>1 DEF IInv, OnePermit
  <2>2. task'.status \in TaskTerminal => task.status \in TaskTerminal \cup {"queued"}
    BY <1>1, <1>1a DEF TaskTerminal
  <2>3. task.failure => task.status \in {"canceling", "failed"}
    BY DEF IInv, RowFollows
  <2>4. CompletedIsBuilt'
    <3>1. task'.status = "completed" => task' = task
      BY <1>1, <1>1a, <2>2 DEF TaskTerminal
    <3> QED BY <3>1 DEF IInv, RowFollows, CompletedIsBuilt
  <2>5. task'.status \in TaskTerminal =>
            IF task'.ref = NoRun THEN NothingLeft' ELSE run'[task'.ref].state \in Ended
    BY <1>1, <1>4, <2>1, <2>2 DEF IInv, RowFollows
  <2>6. task'.status = "running" => task'.ref # NoRun
    BY <1>1, <1>1a DEF IInv, RowFollows
  <2>7. task'.failure => task'.status \in {"canceling", "failed"}
    BY <1>1, <2>3 DEF TaskTerminal
  <2>8. task'.status \in {"canceling"} \cup TaskTerminal
    BY <1>1, <1>1a DEF TaskTerminal
  <2> QED BY <1>1, <2>4, <2>5, <2>6, <2>7, <2>8 DEF IInv, RowFollows
<1>9. HoldsTruth(c)'
  <2>1. CASE what = Idle
    BY <2>1, <1>4 DEF HoldsTruth, At, Idle
  <2>2. CASE what = Follow(task')
    <3>1. PICK copy \in Tasks : copy = task'
      BY <1>1
    <3>2. CopyIsPast(copy)'
      BY <3>1, <1>1 DEF CopyIsPast, TaskTerminal
    <3>3. /\ copy.ref # NoRun => run[copy.ref].state \in Created
          /\ copy.status = "running" => copy.ref # NoRun
      BY <3>1, <1>8 DEF RowFollows
    <3> QED BY <1>4, <2>2, <3>1, <3>2, <3>3, FollowTruth
  <2> QED BY <2>1, <2>2
<1> QED BY <1>2, <1>6, <1>7, <1>8, <1>9, OneMoves

LEMMA StopKeeps ==
    ASSUME IInv, NEW c \in Controllers, CancelExecutionTask(c) \/ Expire(c)
    PROVE  IInv'
<1>0. TypeOK
  BY DEF IInv
<1>1. CASE CancelExecutionTask(c)
  <2>1. PICK what : what = IF task'.status \in TaskTerminal THEN Idle ELSE Follow(task')
    OBVIOUS
  <2>2. "requested" \in Reasons
    BY DEF Reasons
  <2>3. task' \in Tasks
    BY <1>0, <1>1, <2>2, AskedType DEF CancelExecutionTask
  <2>4. what \in Controlling
    BY <2>1, <2>3, ControlTypes
  <2>5. /\ Become(c, what) /\ task' = Asked("requested")
        /\ UNCHANGED <<runOpen, overdue, run, posts, faults>>
    BY <1>1, <2>1 DEF CancelExecutionTask
  <2> QED BY <2>1, <2>2, <2>4, <2>5, AskedKeeps
<1>2. CASE Expire(c)
  <2>1. PICK what : what = Follow(task')
    OBVIOUS
  <2>2. "execution_timeout" \in Reasons
    BY DEF Reasons
  <2>3. task' \in Tasks
    BY <1>0, <1>2, <2>2, AskedType DEF Expire
  <2>4. what \in Controlling
    BY <2>1, <2>3, ControlTypes
  <2>5. /\ Become(c, what) /\ task' = Asked("execution_timeout")
        /\ UNCHANGED <<runOpen, overdue, run, posts, faults>>
    BY <1>2, <2>1 DEF Expire
  <2>6. task.status # "queued"
    BY <1>2 DEF IInv, OnePermit, Expire, At
  <2> QED BY <2>1, <2>2, <2>4, <2>5, <2>6, AskedKeeps
<1> QED BY <1>1, <1>2

LEMMA IdleTruth ==
    ASSUME IInv, NEW c \in Controllers, controller'[c] = Idle
    PROVE  HoldsTruth(c)'
BY DEF HoldsTruth, At, Idle

LEMMA BeginKeeps ==
    ASSUME IInv, NEW c \in Controllers, BeginExternalPipelineDispatch(c)
    PROVE  IInv'
<1>0. TypeOK /\ task \in Tasks /\ faults \in 0 .. MaxFaults
  BY DEF IInv, TypeOK
<1>1. CASE ~(task.status = "queued" /\ runOpen)
  <2>1. Become(c, Idle) /\ task' = task /\ UNCHANGED <<runOpen, overdue, run, posts, faults>>
    BY <1>1 DEF BeginExternalPipelineDispatch
  <2>2. controller'[c] = Idle
    BY <1>0, <2>1 DEF TypeOK, Become
  <2> QED BY <1>0, <2>1, <2>2, IdleTruth, ControlTypes, OnlyControl DEF Idle
<1>2. CASE task.status = "queued" /\ runOpen
  <2>1. /\ task' \in Tasks /\ task'.status = "dispatching"
        /\ task'.ref = task.ref /\ task'.failure = task.failure /\ task'.reason = task.reason
    BY <1>0, <1>2 DEF BeginExternalPipelineDispatch, Tasks, TaskStatuses
  <2>2. PICK what : what = [step |-> "post", copy |-> task']
    OBVIOUS
  <2>3. /\ what \in Controlling /\ Become(c, what)
        /\ UNCHANGED <<runOpen, overdue, run, posts, faults>>
    BY <1>2, <2>1, <2>2, ControlTypes DEF BeginExternalPipelineDispatch
  <2>4. controller'[c] = what /\ \A v \in Controllers : v # c => controller'[v] = controller[v]
    BY <1>0, <2>3 DEF TypeOK, Become
  <2>5. TypeOK'
    BY <1>0, <2>1, <2>3 DEF TypeOK, Become
  <2>6. /\ posts = 0 /\ task.ref = NoRun /\ ~task.failure
        /\ \A v \in Controllers : controller[v].step \in {"idle", "begin"}
    BY <1>2 DEF IInv, OnePermit
  <2>7. Steady
    <3>1. task.reason = "none"
      BY <1>2 DEF IInv, RowFollows, TaskTerminal
    <3> QED BY <1>2, <2>3, <2>6, <3>1 DEF Steady, RunsSteady, RowSteady, TaskTerminal
  <2>8. OnePermit'
    BY <2>1, <2>2, <2>3, <2>4, <2>6 DEF IInv, OnePermit, At
  <2>9. RowFollows'
    <3>1. task.reason = "none"
      BY <1>2 DEF IInv, RowFollows, TaskTerminal
    <3> QED BY <2>1, <2>6, <3>1 DEF RowFollows, CompletedIsBuilt, TaskTerminal
  <2>10. HoldsTruth(c)'
    BY <2>1, <2>2, <2>4, <2>6 DEF HoldsTruth, At, Copy, CopyIsPast, TaskTerminal
  <2> QED BY <2>3, <2>5, <2>7, <2>8, <2>9, <2>10, OneMoves
<1> QED BY <1>1, <1>2

(* A controller that has seen something and goes on to record it. *)
LEMMA SeenKeeps ==
    ASSUME IInv, NEW c \in Controllers, NEW r \in RunIds, NEW found \in Findings,
           NEW confirmed \in BOOLEAN, controller[c].step \notin {"idle", "begin"},
           Become(c, ToRecord(Copy(c), r, found, confirmed)),
           UNCHANGED <<task, runOpen, overdue, run, posts>>, faults' \in 0 .. MaxFaults,
           r # NoRun => run[r].state \in Created,
           confirmed => IF r = NoRun THEN NothingLeft' ELSE run[r].state \in Ended,
           found = "built" => r # NoRun /\ run[r].state = "built" /\ run[r].valid,
           r = NoRun => Copy(c).status # "running"
    PROVE  IInv'
<1>0. TypeOK /\ HoldsTruth(c) /\ Copy(c) \in Tasks
  BY CopyType DEF IInv
<1>1. PICK what : what = ToRecord(Copy(c), r, found, confirmed)
  OBVIOUS
<1>2. what \in Controlling /\ Become(c, what)
  BY <1>0, <1>1, ControlTypes
<1>3. controller'[c] = what
  BY <1>0, <1>2 DEF TypeOK, Become
<1>4. what.step = "record" /\ what.copy = Copy(c)
      /\ what.seen = [run |-> r, found |-> found, confirmed |-> confirmed]
  BY <1>1 DEF ToRecord
<1>5. task.status # "queued"
  BY DEF IInv, OnePermit
<1>6. CopyIsPast(Copy(c))
  BY <1>0 DEF HoldsTruth
<1>7. HoldsTruth(c)'
  BY <1>3, <1>4, <1>6 DEF HoldsTruth, At, Copy, CopyIsPast, SeenIsTrue
<1> QED BY <1>2, <1>4, <1>5, <1>7, OnlyControl

LEMMA DispatchKeeps ==
    ASSUME IInv, NEW c \in Controllers,
           DispatchImpossible(c) \/ Answered(c) \/ Unanswered(c)
    PROVE  IInv'
<1>0. TypeOK /\ faults \in 0 .. MaxFaults /\ HoldsTruth(c)
  BY DEF IInv, TypeOK
<1>1. controller[c].step \in {"post", "await"} /\ Copy(c).status = "dispatching"
  BY <1>0 DEF DispatchImpossible, Answered, Unanswered, At, HoldsTruth
<1>2. /\ NoRun \in RunIds /\ NoRun \notin Runs /\ Runs \subseteq RunIds
      /\ {"unknown", "identity_mismatch"} \subseteq Findings
  BY DEF RunIds, Findings, NoRun, Runs
<1>3. ASSUME NEW confirmed \in BOOLEAN, NEW r \in RunIds, NEW found \in Findings,
             Become(c, ToRecord(Copy(c), r, found, confirmed))
      PROVE  \A v \in Controllers : At(v, "post")' => At(v, "post") /\ v # c
  <2>1. PICK what : what = ToRecord(Copy(c), r, found, confirmed)
    OBVIOUS
  <2>2. what \in Controlling /\ what.step = "record"
    BY <1>0, <1>1, <2>1, CopyType, ControlTypes DEF ToRecord
  <2> QED BY <1>3, <2>1, <2>2, PermitsStay
<1>4. CASE DispatchImpossible(c)
  <2>1. posts = 0 /\ \A v \in Controllers : At(v, "post") => v = c
    BY <1>4 DEF DispatchImpossible, IInv, OnePermit
  <2>2. \A r \in Runs : run[r].state = "unsent"
    BY <2>1 DEF IInv, OnePermit
  <2>3. NothingLeft'
    BY <1>2, <1>3, <1>4, <2>1, <2>2 DEF DispatchImpossible, NothingLeft, AtWork
  <2> QED BY <1>0, <1>1, <1>2, <1>4, <2>3, SeenKeeps DEF DispatchImpossible
<1>5. CASE Unanswered(c)
  BY <1>0, <1>1, <1>2, <1>5, SeenKeeps DEF Unanswered
<1>6. ASSUME NEW r \in Runs, run[r].state \in Created,
             Become(c, ToRecord(Copy(c), r, IF run[r].valid THEN "unknown"
                                            ELSE "identity_mismatch", FALSE)),
             UNCHANGED <<task, runOpen, overdue, run, posts, faults>>
      PROVE  IInv'
  <2>1. PICK found \in Findings : /\ found # "built"
                                  /\ found = IF run[r].valid THEN "unknown"
                                             ELSE "identity_mismatch"
    BY <1>2
  <2> QED BY <1>0, <1>1, <1>2, <1>6, <2>1, SeenKeeps
<1>7. CASE /\ At(c, "await") /\ run["first"].state = "refused"
           /\ Become(c, ToRecord(Copy(c), NoRun, "unknown", TRUE))
           /\ UNCHANGED <<task, runOpen, overdue, run, posts, faults>>
  <2>1. \A v \in Controllers : ~At(v, "post")
    BY <1>7 DEF IInv, OnePermit
  <2>2. \A r \in Runs : ~AtWork(r)
    BY <1>7 DEF IInv, OnePermit, AtWork, Runs
  <2>3. NothingLeft'
    BY <1>2, <1>3, <1>7, <2>1, <2>2 DEF NothingLeft, AtWork
  <2> QED BY <1>0, <1>1, <1>2, <1>7, <2>3, SeenKeeps
<1> QED BY <1>4, <1>5, <1>6, <1>7 DEF Answered

LEMMA StartKeeps ==
    ASSUME IInv, NEW c \in Controllers, StartPipeline(c)
    PROVE  IInv'
<1>0. TypeOK /\ HoldsTruth(c) /\ Copy(c) \in Tasks
  BY CopyType DEF IInv, StartPipeline, At
<1>1. /\ posts = 0 /\ task.ref = NoRun /\ task.status \in {"dispatching", "canceling"}
      /\ \A d \in Controllers : At(d, "post") => d = c
      /\ \A r \in Runs : run[r].state = "unsent"
  BY DEF IInv, OnePermit, StartPipeline
<1>2. PICK what : what = [step |-> "await", copy |-> Copy(c)]
  OBVIOUS
<1>3. what \in Controlling /\ controller'[c] = what /\ Become(c, what)
  <2>1. controller[c] = [step |-> "post", copy |-> Copy(c)]
    BY <1>0 DEF StartPipeline, TypeOK, Controlling, At, Copy
  <2>2. [controller[c] EXCEPT !.step = "await"] = what
    BY <1>2, <2>1
  <2> QED BY <1>0, <1>2, <2>2, ControlTypes DEF StartPipeline, TypeOK, Become
<1>4. /\ \A v \in Controllers : v # c => controller'[v] = controller[v]
      /\ \A v \in Controllers : ~At(v, "post")'
  BY <1>1, <1>2, <1>3, PermitsStay
<1>5. /\ posts' = 1 /\ run' \in [Runs -> Pipelines]
      /\ run'["first"].state = "sent" /\ run'["copy"].state = "unsent"
      /\ UNCHANGED <<task, runOpen, overdue, faults>>
  <2>1. run' \in [Runs -> Pipelines]
    BY <1>0 DEF StartPipeline, TypeOK, Pipelines, RunStates, Runs
  <2>2. run'["first"].state = "sent" /\ run'["copy"].state = "unsent"
    BY <1>0, <1>1 DEF StartPipeline, TypeOK, Pipelines, Runs
  <2> QED BY <1>1, <2>1, <2>2 DEF StartPipeline
<1>6. TypeOK'
  <2>1. controller' \in [Controllers -> Controlling]
    BY <1>0, <1>3 DEF TypeOK, Become
  <2>2. posts' \in 0 .. 1
    BY <1>5
  <2> QED BY <1>0, <1>5, <2>1, <2>2 DEF TypeOK
<1>7. Steady
  <2>1. RunsSteady
    BY <1>1 DEF RunsSteady, Created, Ended
  <2>2. ~NothingLeft
    BY DEF StartPipeline, NothingLeft
  <2> QED BY <1>5, <2>1, <2>2 DEF Steady, RowSteady
<1>8. OnePermit'
  BY <1>1, <1>4, <1>5 DEF OnePermit
<1>9. RowFollows'
  BY <1>1, <1>5 DEF IInv, RowFollows, CompletedIsBuilt, TaskTerminal
<1>10. HoldsTruth(c)'
  <2>1. CopyIsPast(Copy(c)) /\ Copy(c).status = "dispatching"
    BY <1>0 DEF HoldsTruth, StartPipeline, At
  <2> QED BY <1>2, <1>3, <1>5, <2>1 DEF HoldsTruth, At, Copy, CopyIsPast
<1> QED BY <1>3, <1>6, <1>7, <1>8, <1>9, <1>10, OneMoves

(* Cancelling runs changes nothing that the row or a controller knows of them. *)
LEMMA CancelRunsIsHarmless ==
    ASSUME TypeOK, NEW stop, run' = CancelRuns(stop)
    PROVE  /\ run' \in [Runs -> Pipelines]
           /\ \A r \in Runs : run'[r].state = run[r].state /\ run'[r].valid = run[r].valid
BY DEF TypeOK, CancelRuns, Pipelines

(* The same for a controller that cancels runs as it looks at them. *)
LEMMA LookedKeeps ==
    ASSUME IInv, NEW c \in Controllers, NEW r \in RunIds, NEW found \in Findings,
           NEW confirmed \in BOOLEAN, controller[c].step \in {"find", "inspect"},
           Become(c, ToRecord(Copy(c), r, found, confirmed)),
           UNCHANGED <<task, runOpen, overdue, posts, faults>>,
           NEW stop, run' = CancelRuns(stop),
           r # NoRun => run[r].state \in Created,
           confirmed => IF r = NoRun THEN NothingLeft ELSE run[r].state \in Ended,
           found = "built" => r # NoRun /\ run[r].state = "built" /\ run[r].valid,
           r = NoRun => Copy(c).status # "running"
    PROVE  IInv'
<1>0. TypeOK /\ HoldsTruth(c) /\ Copy(c) \in Tasks /\ task.status # "queued"
  BY CopyType DEF IInv, OnePermit
<1>1. /\ run' \in [Runs -> Pipelines]
      /\ \A x \in Runs : run'[x].state = run[x].state /\ run'[x].valid = run[x].valid
  BY <1>0, CancelRunsIsHarmless
<1>2. PICK what : what = ToRecord(Copy(c), r, found, confirmed)
  OBVIOUS
<1>3. /\ what \in Controlling /\ Become(c, what) /\ what.step = "record"
      /\ what.copy = Copy(c)
      /\ what.seen = [run |-> r, found |-> found, confirmed |-> confirmed]
  BY <1>0, <1>2, ControlTypes DEF ToRecord
<1>4. /\ controller'[c] = what
      /\ \A v \in Controllers : v # c => controller'[v] = controller[v]
      /\ \A v \in Controllers : At(v, "post")' => At(v, "post") /\ v # c
  BY <1>3, PermitsStay
<1>5. NothingLeft => NothingLeft'
  BY <1>1, <1>4 DEF NothingLeft, AtWork
<1>6. TypeOK'
  BY <1>0, <1>1, <1>3 DEF TypeOK, Become
<1>7. Steady
  BY <1>1, <1>5 DEF Steady, RunsSteady, RowSteady
<1>8. OnePermit'
  <2>1. "first" \in Runs /\ "copy" \in Runs
    BY DEF Runs
  <2>2. \A v \in Controllers : At(v, "await")' => At(v, "await")
    BY <1>3, <1>4 DEF At
  <2> QED BY <1>0, <1>1, <1>4, <2>1, <2>2 DEF IInv, OnePermit
<1>9. RowFollows'
  <2>1. task.ref # NoRun => task.ref \in Runs
    BY <1>0 DEF TypeOK, Tasks, RunIds
  <2> QED BY <1>1, <1>5, <2>1 DEF IInv, RowFollows, CompletedIsBuilt
<1>10. HoldsTruth(c)'
  <2>1. CopyIsPast(Copy(c))
    BY <1>0 DEF HoldsTruth
  <2>2. r # NoRun => run'[r].state = run[r].state /\ run'[r].valid = run[r].valid
    BY <1>1 DEF RunIds
  <2>3. SeenIsTrue(what.copy, what.seen)'
    BY <1>3, <1>5, <2>2 DEF SeenIsTrue
  <2> QED BY <1>3, <1>4, <2>1, <2>3 DEF HoldsTruth, At, Copy, CopyIsPast
<1> QED BY <1>3, <1>6, <1>7, <1>8, <1>9, <1>10, OneMoves

LEMMA FindKeeps ==
    ASSUME IInv, NEW c \in Controllers, FindPipeline(c)
    PROVE  IInv'
<1>0. TypeOK /\ HoldsTruth(c) /\ Copy(c) \in Tasks /\ task.status # "queued"
      /\ Copy(c).status # "running" /\ At(c, "find") /\ faults \in 0 .. MaxFaults
  BY CopyType DEF IInv, OnePermit, FindPipeline, At, HoldsTruth, TypeOK
<1> DEFINE matches == {r \in Runs : run[r].state \in Created}
<1>1. /\ NoRun \in RunIds /\ NoRun \notin Runs /\ Runs \subseteq RunIds
      /\ {"unknown", "identity_mismatch", "duplicate_runs"} \subseteq Findings
  BY DEF RunIds, Findings, NoRun, Runs
<1>2. UNCHANGED <<task, runOpen, overdue, posts, faults>>
  BY DEF FindPipeline
<1>3. CASE /\ matches = {} /\ UNCHANGED run
           /\ Become(c, ToRecord(Copy(c), NoRun, "unknown", FALSE))
  BY <1>0, <1>1, <1>2, <1>3, SeenKeeps DEF At
<1>4. ASSUME NEW r \in Runs, matches = {r}, UNCHANGED run,
             Become(c, IF run[r].valid THEN [step |-> "inspect", copy |-> Copy(c), id |-> r]
                       ELSE ToRecord(Copy(c), r, "identity_mismatch", FALSE))
      PROVE  IInv'
  <2>1. run[r].state \in Created
    BY <1>4
  <2>2. CASE ~run[r].valid
    BY <1>0, <1>1, <1>2, <1>4, <2>1, <2>2, SeenKeeps DEF At
  <2>3. CASE run[r].valid
    <3>1. PICK what : what = [step |-> "inspect", copy |-> Copy(c), id |-> r]
      OBVIOUS
    <3>2. what \in Controlling /\ Become(c, what)
      BY <1>0, <1>4, <2>3, <3>1, ControlTypes
    <3>3. controller'[c] = what
      BY <1>0, <3>2 DEF TypeOK, Become
    <3>4. CopyIsPast(Copy(c))
      BY <1>0 DEF HoldsTruth, At
    <3>5. HoldsTruth(c)'
      BY <1>2, <1>4, <2>1, <3>1, <3>3, <3>4 DEF HoldsTruth, At, Copy, CopyIsPast
    <3> QED BY <1>0, <1>2, <1>4, <3>1, <3>2, <3>5, OnlyControl
  <2> QED BY <2>2, <2>3
<1>5. CASE /\ matches = Runs /\ run' = CancelRuns(Runs)
           /\ Become(c, ToRecord(Copy(c), NoRun, "duplicate_runs", \A r \in Runs : Stopped(r)))
  <2>1. PICK confirmed \in BOOLEAN : confirmed = (\A r \in Runs : Stopped(r))
    OBVIOUS
  <2>2. confirmed => NothingLeft
    <3>1. \A r \in Runs : run[r].state \in Created
      BY <1>5
    <3>2. \A v \in Controllers : ~At(v, "post")
      BY <3>1 DEF IInv, OnePermit, Created, Ended, Runs
    <3> QED BY <2>1, <3>2 DEF NothingLeft, AtWork, Stopped, Ended
  <2> QED BY <1>0, <1>1, <1>2, <1>5, <2>1, <2>2, LookedKeeps DEF At
<1> QED BY <1>3, <1>4, <1>5 DEF FindPipeline

LEMMA InspectKeeps ==
    ASSUME IInv, NEW c \in Controllers, InspectPipeline(c)
    PROVE  IInv'
<1>0. TypeOK /\ HoldsTruth(c) /\ Copy(c) \in Tasks
  BY CopyType DEF IInv, InspectPipeline, At
<1>1. PICK r \in Runs : r = controller[c].id
  BY <1>0, CopyType DEF InspectPipeline
<1>2. run[r].state \in Created /\ r \in RunIds /\ r # NoRun
  BY <1>0, <1>1 DEF InspectPipeline, HoldsTruth, RunIds, Runs, NoRun
<1>3. PICK found \in Findings : found = Judged(Copy(c), r)
  BY DEF Judged, Findings
<1>4. PICK confirmed \in BOOLEAN : confirmed = Stopped(r)
  <2>1. Stopped(r) \in BOOLEAN
    BY DEF Stopped
  <2> QED BY <2>1
<1>5. PICK stop : stop = IF Cancels(Copy(c), r) THEN {r} ELSE {}
  OBVIOUS
<1>6. /\ run' = CancelRuns(stop) /\ Become(c, ToRecord(Copy(c), r, found, confirmed))
      /\ UNCHANGED <<task, runOpen, overdue, posts, faults>>
  BY <1>1, <1>3, <1>4, <1>5 DEF InspectPipeline
<1>7. found = "built" => run[r].state = "built" /\ run[r].valid
  BY <1>3 DEF Judged
<1>8. confirmed => run[r].state \in Ended
  BY <1>4 DEF Stopped
<1> QED BY <1>0, <1>2, <1>6, <1>7, <1>8, LookedKeeps DEF InspectPipeline, At

LEMMA FailKeeps ==
    ASSUME IInv, NEW c \in Controllers, ReconcileFails(c) \/ Crash(c)
    PROVE  IInv'
<1>0. TypeOK /\ HoldsTruth(c) /\ faults' \in 0 .. MaxFaults
  <2>1. TypeOK /\ HoldsTruth(c) /\ faults \in 0 .. MaxFaults
    BY DEF IInv, TypeOK
  <2>2. faults < MaxFaults /\ faults' = faults + 1
    BY DEF ReconcileFails, Crash
  <2> QED BY <2>1, <2>2, MaxFaultsAssumption
<1>1. NoRun \in RunIds /\ NoRun \notin Runs /\ Runs \subseteq RunIds /\ "unknown" \in Findings
  BY DEF RunIds, Findings, NoRun, Runs
<1>2. CASE Crash(c)
  <2>1. Become(c, Idle) /\ UNCHANGED <<task, runOpen, overdue, run, posts>>
    BY <1>2 DEF Crash
  <2>2. controller'[c] = Idle
    BY <1>0, <2>1 DEF TypeOK, Become
  <2> QED BY <1>0, <2>1, <2>2, IdleTruth, ControlTypes, OnlyControl DEF Idle
<1>3. CASE ReconcileFails(c) /\ At(c, "find")
  <2>1. Copy(c).status # "running"
    BY <1>0, <1>3 DEF HoldsTruth
  <2> QED BY <1>0, <1>1, <1>3, <2>1, SeenKeeps DEF ReconcileFails, At
<1>4. CASE ReconcileFails(c) /\ At(c, "inspect")
  <2>1. PICK r \in Runs : r = controller[c].id
    BY <1>0, <1>4, CopyType
  <2>2. run[r].state \in Created
    BY <1>0, <1>4, <2>1 DEF HoldsTruth
  <2> QED BY <1>0, <1>1, <1>4, <2>1, <2>2, SeenKeeps DEF ReconcileFails, At
<1> QED BY <1>2, <1>3, <1>4 DEF ReconcileFails

(* What recordExternalPipeline writes, by the status of the row. *)
LEMMA StoredCases ==
    ASSUME TypeOK, NEW copy \in Tasks, NEW seen \in Seen,
           NEW stored, stored = Stored(Recorded(copy, seen), seen.confirmed)
    PROVE  /\ stored \in Tasks
           /\ \/ stored = task
              \/ /\ task.status \notin TaskTerminal
                 /\ task.ref # NoRun => seen.run = task.ref
                 /\ stored.ref = seen.run
                 /\ task.failure => stored.failure
                 /\ task.reason # "none" => stored.reason = task.reason
                 /\ task.reason = "none" => stored.reason = copy.reason
                 /\ stored.failure => \/ task.failure \/ copy.failure
                                      \/ seen.found \in {"identity_mismatch", "duplicate_runs"}
                 /\ task.status = "canceling" =>
                       /\ ~seen.confirmed => stored.status = "canceling"
                       /\ seen.confirmed => stored.status \in {"failed", "canceled"}
                       /\ stored.failure /\ seen.confirmed => stored.status = "failed"
                 /\ task.status # "canceling" => stored.status = Recorded(copy, seen).status
                 /\ stored.status \in TaskTerminal => seen.confirmed
<1> DEFINE item == Recorded(copy, seen)
<1>1. /\ item \in Tasks /\ item.ref = seen.run /\ item.reason = copy.reason
      /\ item.failure = (copy.failure \/ seen.found \in {"identity_mismatch", "duplicate_runs"})
  BY DEF Recorded, Tasks, Seen, TaskStatuses, TerminalStatus
<1>2. seen.confirmed \in BOOLEAN /\ task \in Tasks
  BY DEF Seen, TypeOK
<1> HIDE DEF item
<1>3. CASE stored = task
  BY <1>2, <1>3
<1>4. CASE stored # task
  <2>1. /\ task.status \notin TaskTerminal
        /\ ~(task.ref # NoRun /\ item.ref # task.ref)
        /\ ~(item.status \in TaskTerminal /\ ~seen.confirmed)
    BY <1>4 DEF Stored, Merged, item
  <2>2. stored = [item EXCEPT
            !.failure = task.failure \/ item.failure,
            !.reason = IF task.reason # "none" THEN task.reason ELSE item.reason,
            !.status = IF task.status # "canceling" THEN item.status
                       ELSE IF ~seen.confirmed THEN "canceling"
                       ELSE IF \/ task.reason = "execution_timeout"
                               \/ task.failure \/ item.failure THEN "failed"
                       ELSE "canceled"]
    BY <2>1 DEF Stored, Merged, item
  <2>3. stored \in Tasks
    BY <1>1, <1>2, <2>2 DEF Tasks, TaskStatuses
  <2>4. /\ stored.ref = item.ref /\ stored.failure = (task.failure \/ item.failure)
        /\ stored.reason = IF task.reason # "none" THEN task.reason ELSE item.reason
        /\ stored.status = IF task.status # "canceling" THEN item.status
                           ELSE IF ~seen.confirmed THEN "canceling"
                           ELSE IF \/ task.reason = "execution_timeout"
                                   \/ task.failure \/ item.failure THEN "failed"
                           ELSE "canceled"
    BY <1>1, <2>2 DEF Tasks
  <2>5. "canceling" \notin TaskTerminal
    BY DEF TaskTerminal
  <2> QED BY <1>1, <1>2, <2>1, <2>3, <2>4, <2>5 DEF item
<1> QED BY <1>3, <1>4

(* What a copy that is still queued to be recorded can turn into. *)
LEMMA RecordedStatus ==
    ASSUME NEW copy \in Tasks, NEW seen \in Seen
    PROVE  /\ seen.confirmed /\ Recorded(copy, seen).status = "completed" =>
                 seen.found = "built" /\ ~copy.failure /\ copy.status # "canceling"
           /\ seen.confirmed => Recorded(copy, seen).status \in {"completed", "failed", "canceled"}
           /\ seen.confirmed /\ Recorded(copy, seen).status = "canceled" =>
                 /\ copy.status = "canceling" /\ ~copy.failure
                 /\ seen.found \notin {"identity_mismatch", "duplicate_runs"}
           /\ ~seen.confirmed => Recorded(copy, seen).status \in {"canceling", "running", copy.status}
           /\ ~seen.confirmed /\ Recorded(copy, seen).status = "running" =>
                 seen.run # NoRun \/ copy.status = "running"
           /\ ~seen.confirmed /\ Recorded(copy, seen).status = "canceling" =>
                 \/ copy.status = "canceling"
                 \/ seen.found \in {"identity_mismatch", "duplicate_runs"}
           /\ ~seen.confirmed /\ seen.found \in {"identity_mismatch", "duplicate_runs"} =>
                 Recorded(copy, seen).status = "canceling"
           /\ seen.confirmed /\ seen.found \in {"identity_mismatch", "duplicate_runs"} =>
                 Recorded(copy, seen).status = "failed"
           /\ ~seen.confirmed /\ seen.run # NoRun =>
                 Recorded(copy, seen).status \in {"canceling", "running"}
<1> DEFINE mismatch == seen.found \in {"identity_mismatch", "duplicate_runs"}
           item == [copy EXCEPT !.ref = seen.run,
                                !.failure = copy.failure \/ mismatch,
                                !.status = IF mismatch THEN "canceling" ELSE copy.status]
<1>1. /\ item.failure = (copy.failure \/ mismatch) /\ item.reason = copy.reason
      /\ item.status = IF mismatch THEN "canceling" ELSE copy.status
      /\ item.ref = seen.run
  BY DEF Tasks
<1>2. Recorded(copy, seen) = [item EXCEPT !.status =
            IF seen.confirmed THEN TerminalStatus(item, seen.found)
            ELSE IF item.status # "canceling" /\ seen.run # NoRun THEN "running" ELSE item.status]
  BY DEF Recorded
<1>3. Recorded(copy, seen).status =
            IF seen.confirmed THEN TerminalStatus(item, seen.found)
            ELSE IF item.status # "canceling" /\ seen.run # NoRun THEN "running" ELSE item.status
  BY <1>2 DEF Tasks
<1>4. seen.confirmed \in BOOLEAN /\ copy.failure \in BOOLEAN
  BY DEF Seen, Tasks
<1>5. TerminalStatus(item, seen.found) \in {"completed", "failed", "canceled"}
  BY DEF TerminalStatus
<1>6. TerminalStatus(item, seen.found) = "completed" =>
          seen.found = "built" /\ ~item.failure /\ item.status # "canceling"
  BY DEF TerminalStatus
<1>7. TerminalStatus(item, seen.found) = "canceled" => item.status = "canceling" /\ ~item.failure
  BY DEF TerminalStatus
<1>8. item.failure => TerminalStatus(item, seen.found) = "failed"
  BY DEF TerminalStatus
<1> HIDE DEF item
<1> QED BY <1>1, <1>3, <1>4, <1>5, <1>6, <1>7, <1>8

(* Everything the write of a controller's record does to the row. *)
LEMMA RecordMoves ==
    ASSUME IInv, NEW c \in Controllers, RecordExternalPipeline(c), task' # task
    PROVE  /\ task' \in Tasks
           /\ task.status \in {"dispatching", "running", "canceling"}
           /\ task.ref # NoRun => task'.ref = task.ref
           /\ task'.ref # NoRun => task'.ref \in Runs /\ run[task'.ref].state \in Created
           /\ task.failure => task'.failure
           /\ task'.failure => task'.status \in {"canceling", "failed"}
           /\ task.reason # "none" => task'.reason = task.reason
           /\ task'.reason = task.reason
           /\ task.status = "canceling" => task'.status \in {"canceling", "canceled", "failed"}
           /\ task.status # "canceling" =>
                 task'.status \in {"canceling", "running", "dispatching", "completed", "failed"}
           /\ task'.status = "running" => task'.ref # NoRun
           /\ task'.status = "dispatching" => task.status = "dispatching"
           /\ task'.status \in TaskTerminal =>
                 IF task'.ref = NoRun THEN NothingLeft ELSE run[task'.ref].state \in Ended
           /\ task'.status = "completed" =>
                 /\ task'.ref # NoRun /\ ~task'.failure
                 /\ run[task'.ref].state = "built" /\ run[task'.ref].valid
<1> DEFINE copy == Copy(c)
           seen == controller[c].seen
<1>0. TypeOK /\ copy \in Tasks /\ seen \in Seen /\ CopyIsPast(copy) /\ SeenIsTrue(copy, seen)
  BY CopyType DEF IInv, RecordExternalPipeline, HoldsTruth, At
<1>1. task' = Stored(Recorded(copy, seen), seen.confirmed)
  BY DEF RecordExternalPipeline
<1>2. /\ task.status \notin TaskTerminal /\ task.status # "queued" /\ task \in Tasks
      /\ seen.confirmed \in BOOLEAN /\ (seen.run # NoRun => seen.run \in Runs)
  BY <1>0, <1>1 DEF IInv, OnePermit, Stored, RecordExternalPipeline, At, TypeOK, Seen, RunIds
<1>3. task.status \in {"dispatching", "running", "canceling"}
  BY <1>2 DEF Tasks, TaskStatuses, TaskTerminal
<1> HIDE DEF copy, seen
<1>4. /\ task' \in Tasks
      /\ task.ref # NoRun => seen.run = task.ref
      /\ task'.ref = seen.run
      /\ task.failure => task'.failure
      /\ task.reason # "none" => task'.reason = task.reason
      /\ task.reason = "none" => task'.reason = copy.reason
      /\ task'.failure => \/ task.failure \/ copy.failure
                          \/ seen.found \in {"identity_mismatch", "duplicate_runs"}
      /\ task.status = "canceling" =>
            /\ ~seen.confirmed => task'.status = "canceling"
            /\ seen.confirmed => task'.status \in {"failed", "canceled"}
            /\ task'.failure /\ seen.confirmed => task'.status = "failed"
      /\ task.status # "canceling" => task'.status = Recorded(copy, seen).status
      /\ task'.status \in TaskTerminal => seen.confirmed
  BY <1>0, <1>1, StoredCases
<1>5. task'.reason = task.reason
  BY <1>0, <1>4 DEF CopyIsPast
<1>6. copy.failure => task.failure
  BY <1>0 DEF CopyIsPast
<1>7. task.failure => task.status = "canceling"
  BY <1>3 DEF IInv, RowFollows
<1>8. task.status # "canceling" =>
          copy.status \in {"dispatching", "running"}
  BY <1>0, <1>2, <1>3 DEF CopyIsPast, Tasks, TaskStatuses, TaskTerminal
<1>9. task'.ref # NoRun => task'.ref \in Runs /\ run[task'.ref].state \in Created
  BY <1>0, <1>2, <1>4 DEF SeenIsTrue
<1>10. task'.failure => task'.status \in {"canceling", "failed"}
  <2>1. CASE task.status = "canceling"
    BY <1>2, <1>4, <2>1
  <2>2. CASE task.status # "canceling"
    BY <1>0, <1>2, <1>4, <1>6, <1>7, <2>2, RecordedStatus
  <2> QED BY <2>1, <2>2
<1>11. task.status # "canceling" =>
           task'.status \in {"canceling", "running", "dispatching", "completed", "failed"}
  <2> SUFFICES ASSUME task.status # "canceling"
               PROVE  Recorded(copy, seen).status \in
                        {"canceling", "running", "dispatching", "completed", "failed"}
    BY <1>4
  <2>1. CASE seen.confirmed
    BY <1>0, <1>8, <2>1, RecordedStatus
  <2>2. CASE ~seen.confirmed
    BY <1>0, <1>8, <2>2, RecordedStatus
  <2> QED BY <2>1, <2>2
<1>12. task'.status = "running" => task'.ref # NoRun
  <2> SUFFICES ASSUME task'.status = "running" PROVE seen.run # NoRun
    BY <1>4
  <2>1. task.status # "canceling" /\ Recorded(copy, seen).status = "running"
    BY <1>2, <1>4
  <2>2. ~seen.confirmed
    BY <1>0, <2>1, RecordedStatus
  <2> QED BY <1>0, <2>1, <2>2, RecordedStatus DEF SeenIsTrue
<1>13. task'.status = "dispatching" => task.status = "dispatching"
  <2> SUFFICES ASSUME task'.status = "dispatching" PROVE task.status # "running"
    BY <1>2, <1>3, <1>4
  <2>1. task.status # "canceling" /\ Recorded(copy, seen).status = "dispatching"
    BY <1>2, <1>4
  <2>2. ~seen.confirmed
    BY <1>0, <2>1, RecordedStatus
  <2>3. seen.run = NoRun
    BY <1>0, <2>1, <2>2, RecordedStatus
  <2>4. task.ref = NoRun
    BY <1>4, <2>3
  <2> QED BY <2>4 DEF IInv, RowFollows
<1>14. task'.status \in TaskTerminal =>
           IF task'.ref = NoRun THEN NothingLeft ELSE run[task'.ref].state \in Ended
  BY <1>0, <1>4 DEF SeenIsTrue
<1>15. task'.status = "completed" =>
           /\ task'.ref # NoRun /\ ~task'.failure
           /\ run[task'.ref].state = "built" /\ run[task'.ref].valid
  <2> SUFFICES ASSUME task'.status = "completed"
               PROVE  /\ task'.ref # NoRun /\ ~task'.failure
                      /\ run[task'.ref].state = "built" /\ run[task'.ref].valid
    OBVIOUS
  <2>1. seen.confirmed /\ task.status # "canceling" /\ Recorded(copy, seen).status = "completed"
    BY <1>2, <1>4 DEF TaskTerminal
  <2>2. seen.found = "built"
    BY <1>0, <2>1, RecordedStatus
  <2> QED BY <1>0, <1>4, <1>10, <2>2 DEF SeenIsTrue
<1>16. task.status = "canceling" => task'.status \in {"canceling", "canceled", "failed"}
  BY <1>2, <1>4
<1>17. task.ref # NoRun => task'.ref = task.ref
  BY <1>4
<1> QED BY <1>3, <1>4, <1>5, <1>9, <1>10, <1>11, <1>12, <1>13, <1>14, <1>15, <1>16, <1>17

LEMMA RecordKeeps ==
    ASSUME IInv, NEW c \in Controllers, RecordExternalPipeline(c)
    PROVE  IInv'
<1>0. TypeOK /\ task.status # "queued" /\ faults \in 0 .. MaxFaults
  BY DEF IInv, OnePermit, RecordExternalPipeline, At, TypeOK
<1>1. Become(c, Idle) /\ UNCHANGED <<runOpen, overdue, run, posts, faults>>
  BY DEF RecordExternalPipeline
<1>2. Idle \in Controlling /\ controller'[c] = Idle /\ Idle.step = "idle"
  BY <1>0, <1>1, ControlTypes DEF TypeOK, Become, Idle
<1>3. HoldsTruth(c)'
  BY <1>2, IdleTruth
<1>4. CASE task' = task
  BY <1>0, <1>1, <1>2, <1>3, <1>4, OnlyControl
<1>5. CASE task' # task
  <2>1. /\ \A v \in Controllers : v # c => controller'[v] = controller[v]
        /\ \A v \in Controllers : At(v, "post")' => At(v, "post") /\ v # c
        /\ NothingLeft => NothingLeft'
    BY <1>1, <1>2, PermitsStay
  <2>2. TypeOK'
    BY <1>0, <1>1, <1>2, <1>5, RecordMoves DEF TypeOK, Become
  <2>3. Steady
    BY <1>1, <1>5, <2>1, RecordMoves DEF Steady, RunsSteady, RowSteady, TaskTerminal
  <2>4. OnePermit'
    <3>1. task'.status # "queued"
      BY <2>3, <1>0 DEF Steady, RowSteady
    <3>2. \A v \in Controllers : At(v, "await")' => At(v, "await")
      BY <1>2, <2>1 DEF At
    <3>3. ASSUME NEW v \in Controllers, At(v, "post")'
          PROVE  task'.ref = NoRun /\ task'.status \in {"dispatching", "canceling"}
      <4>1. At(v, "post") /\ posts = 0 /\ \A r \in Runs : run[r].state = "unsent"
        BY <2>1, <3>3 DEF IInv, OnePermit
      <4>2. task'.ref = NoRun
        BY <1>5, <4>1, RecordMoves DEF Created, Ended
      <4>3. ~NothingLeft
        BY <4>1 DEF NothingLeft
      <4>4. task'.status \notin TaskTerminal
        BY <1>5, <4>2, <4>3, RecordMoves
      <4> QED BY <1>5, <4>2, <4>4, RecordMoves DEF TaskTerminal
    <3> QED BY <1>1, <2>1, <3>1, <3>2, <3>3 DEF IInv, OnePermit
  <2>5. RowFollows'
    <3>1. task.reason # "none" => task.status = "canceling"
      BY <1>5, RecordMoves DEF IInv, RowFollows, TaskTerminal
    <3>2. task'.reason # "none" => task'.status \in {"canceling"} \cup TaskTerminal
      BY <1>5, <3>1, RecordMoves DEF TaskTerminal
    <3>3. CompletedIsBuilt'
      BY <1>1, <1>5, RecordMoves DEF CompletedIsBuilt
    <3> QED BY <1>1, <1>5, <2>1, <3>2, <3>3, RecordMoves DEF RowFollows
  <2> QED BY <1>1, <1>2, <1>3, <2>2, <2>3, <2>4, <2>5, OneMoves
<1> QED BY <1>4, <1>5


(* What a step of GitLab or of the network does to the runs. *)
RunsMove ==
    /\ run' \in [Runs -> Pipelines]
    /\ RunsSteady
    /\ (\A r \in Runs : run[r].state = "unsent") => run' = run
    /\ (\A r \in Runs : ~AtWork(r)) => run' = run
    /\ run'["first"].state = "unsent" => run'["copy"].state = "unsent"
    /\ run'["first"].state = "refused" => run'["copy"].state = "refused"

LEMMA RemoteMoves ==
    ASSUME IInv, Remote
    PROVE  RunsMove
<1>0. /\ run \in [Runs -> Pipelines]
      /\ run["first"].state = "unsent" => run["copy"].state = "unsent"
      /\ run["first"].state = "refused" => run["copy"].state = "refused"
  BY DEF IInv, TypeOK, OnePermit
<1>1. CASE Refuse
  <2>1. \A r \in Runs : run'[r] = [state |-> "refused", valid |-> FALSE, cancel |-> FALSE]
    BY <1>1 DEF Refuse, Unsent
  <2>2. run' \in [Runs -> Pipelines]
    BY <1>1, <2>1 DEF Refuse, Pipelines, RunStates
  <2>3. \A r \in Runs : run[r].state \notin Created \cup Ended
    BY <1>1 DEF Refuse, Runs, Created, Ended
  <2> QED BY <1>1, <2>1, <2>2, <2>3 DEF Refuse, RunsMove, RunsSteady, AtWork, Runs
<1>1a. CASE Duplicate
  BY <1>0, <1>1a DEF Duplicate, RunsMove, RunsSteady, AtWork, Pipelines, RunStates,
                     Created, Ended, Runs
<1>2. ASSUME NEW r \in Runs, Lose(r)
      PROVE  RunsMove
  BY <1>0, <1>2 DEF Lose, RunsMove, RunsSteady, AtWork, Pipelines, RunStates,
                    Created, Ended, Runs
<1>2a. ASSUME NEW r \in Runs, Deliver(r)
       PROVE  RunsMove
  <2>1. PICK valid \in BOOLEAN :
            run' = [run EXCEPT ![r].state = "active", ![r].valid = valid]
    BY <1>2a DEF Deliver
  <2>2. run[r].state = "sent"
    BY <1>2a DEF Deliver
  <2>3. /\ run' \in [Runs -> Pipelines] /\ run'[r].state = "active"
        /\ \A x \in Runs : x # r => run'[x] = run[x]
    BY <1>0, <2>1 DEF Pipelines, RunStates, Created
  <2> QED BY <1>0, <2>2, <2>3 DEF RunsMove, RunsSteady, AtWork, Created, Ended, Runs
<1>3. ASSUME NEW r \in Runs, PipelineEnds(r)
      PROVE  RunsMove
  <2>1. PICK state \in {"closing"} \cup Ended : run' = [run EXCEPT ![r].state = state]
    BY <1>3 DEF PipelineEnds
  <2>2. run[r].state \in {"active", "closing"}
    BY <1>3 DEF PipelineEnds
  <2> QED BY <1>0, <2>1, <2>2 DEF RunsMove, RunsSteady, AtWork, Pipelines, RunStates,
                                  Created, Ended, Runs
<1> QED BY <1>1, <1>1a, <1>2, <1>2a, <1>3 DEF Remote

LEMMA RemoteKeeps ==
    ASSUME IInv, Remote
    PROVE  IInv'
<1>0. TypeOK /\ "first" \in Runs /\ "copy" \in Runs
  BY DEF IInv, Runs
<1>1. UNCHANGED <<task, runOpen, overdue, posts, controller>> /\ faults' \in 0 .. MaxFaults
  <2>1. UNCHANGED <<task, runOpen, overdue, posts, controller>>
    BY DEF Remote, Deliver, Refuse, Lose, Duplicate, PipelineEnds
  <2>2. faults \in 0 .. MaxFaults
    BY <1>0 DEF TypeOK
  <2>3. faults' = faults \/ (faults < MaxFaults /\ faults' = faults + 1)
    BY DEF Remote, Deliver, Refuse, Lose, Duplicate, PipelineEnds
  <2> QED BY <2>1, <2>2, <2>3, MaxFaultsAssumption
<1>2. RunsMove
  BY RemoteMoves
<1>3. TypeOK'
  BY <1>0, <1>1, <1>2 DEF TypeOK, RunsMove
<1>4. NothingLeft => NothingLeft'
  BY <1>1, <1>2 DEF NothingLeft, RunsMove, At, AtWork
<1>5. Steady
  BY <1>1, <1>2, <1>4 DEF Steady, RowSteady, RunsMove
<1>6. OnePermit'
  BY <1>1, <1>2 DEF IInv, OnePermit, RunsMove, At
<1>7. RowFollows'
  <2>1. task.ref # NoRun => task.ref \in Runs
    BY <1>0 DEF TypeOK, Tasks, RunIds
  <2>2. CompletedIsBuilt'
    BY <1>1, <1>2, <2>1 DEF IInv, RowFollows, CompletedIsBuilt, RunsMove, RunsSteady, Ended, Created
  <2> QED BY <1>1, <1>2, <1>4, <2>1, <2>2 DEF IInv, RowFollows, RunsMove, RunsSteady
<1> QED BY <1>1, <1>3, <1>5, <1>6, <1>7, NobodyMoves

LEMMA ControllerKeeps ==
    ASSUME IInv, NEW c \in Controllers, ControllerStep(c)
    PROVE  IInv'
BY SweepKeeps, StopKeeps, BeginKeeps, DispatchKeeps, StartKeeps, FindKeeps, InspectKeeps,
   FailKeeps, RecordKeeps DEF ControllerStep

LEMMA Inductive ==
    ASSUME IInv, [Next]_vars
    PROVE  IInv'
<1>1. CASE CloseRun \/ TimePasses \/ UNCHANGED vars
  <2>1. UNCHANGED <<task, run, posts, controller, faults>> /\ TypeOK'
    BY <1>1 DEF CloseRun, TimePasses, vars, IInv, TypeOK
  <2>2. NothingLeft => NothingLeft'
    BY <2>1 DEF NothingLeft, At, AtWork
  <2>3. Steady /\ OnePermit' /\ RowFollows'
    BY <2>1, <2>2 DEF IInv, Steady, RunsSteady, RowSteady, OnePermit, RowFollows,
                      CompletedIsBuilt, At
  <2> QED BY <2>1, <2>3, NobodyMoves
<1> QED BY <1>1, ControllerKeeps, RemoteKeeps DEF Next

(* The inductive invariant holds, however many controllers work on the task,  *)
(* whatever fails and whatever the network does to the POST.                  *)
THEOREM Invariant == Spec => []IInv
BY InitInductive, Inductive, PTL DEF Spec

(* The row, the runs and the controllers keep their types. *)
THEOREM TypeCorrect == Spec => []TypeOK
<1>1. IInv => TypeOK
  BY DEF IInv
<1> QED BY <1>1, Invariant, PTL

(* A task whose end is recorded has no run at work that it names, and none at *)
(* all when it names none: a missing answer is never taken for a refusal.     *)
THEOREM EndedQuiet == Spec => []EndedIsQuiet
<1>1. IInv => EndedIsQuiet
  <2> SUFFICES ASSUME IInv, task.status \in TaskTerminal PROVE EndedIsQuiet
    BY DEF EndedIsQuiet
  <2>1. \A c \in Controllers : ~At(c, "post")
    BY DEF IInv, OnePermit, TaskTerminal
  <2>2. CASE task.ref = NoRun
    BY <2>1, <2>2 DEF IInv, RowFollows, NothingLeft, EndedIsQuiet
  <2>3. CASE task.ref # NoRun
    BY <2>1, <2>3 DEF IInv, RowFollows, EndedIsQuiet, AtWork, Ended
  <2> QED BY <2>2, <2>3
<1> QED BY <1>1, Invariant, PTL

(* A completed build names a verified run of the frozen definition. *)
THEOREM CompletedBuilt == Spec => []CompletedIsBuilt
<1>1. IInv => CompletedIsBuilt
  BY DEF IInv, RowFollows
<1> QED BY <1>1, Invariant, PTL

(* The POST is sent at most once, for a task that was dispatched and has not  *)
(* ended: the transaction of the dispatch hands out one permission.           *)
THEOREM OnePost == Spec => PostedOnce
<1>1. ASSUME IInv, [Next]_vars, posts' # posts
      PROVE  posts = 0 /\ task.status \in {"dispatching", "canceling"}
  <2>1. PICK c \in Controllers : StartPipeline(c)
    BY <1>1
    DEF Next, ControllerStep, SweepQueued, SweepDispatched, CancelExecutionTask,
        BeginExternalPipelineDispatch, DispatchImpossible, Answered, Unanswered, Expire,
        FindPipeline, InspectPipeline, ReconcileFails, RecordExternalPipeline, Crash, CloseRun,
        TimePasses, Remote, Refuse, Duplicate, Deliver, Lose, PipelineEnds, vars
  <2> QED BY <1>1, <2>1 DEF IInv, OnePermit, StartPipeline
<1>2. IInv /\ [Next]_vars =>
          [posts' # posts => posts = 0 /\ task.status \in {"dispatching", "canceling"}]_vars
  BY <1>1
<1> QED BY <1>2, Invariant, PTL DEF Spec, PostedOnce

(* How a step changes the row. *)
LEMMA RowMoves ==
    ASSUME IInv, [Next]_vars, task' # task
    PROVE  /\ task'.ref = task.ref \/ task.ref = NoRun
           /\ task.failure => task'.failure
           /\ task'.failure => task'.status \in {"canceling", "failed"}
           /\ task.status = "canceling" => task'.status \in {"canceling", "canceled", "failed"}
           /\ run' = run /\ runOpen' = runOpen
           /\ \/ task'.status = RequestStop(task.status)
              \/ task.status = "queued" /\ runOpen /\ task'.status = "dispatching"
              \/ \E c \in Controllers : RecordExternalPipeline(c)
<1>0. TypeOK /\ task \in Tasks
  BY DEF IInv, TypeOK
<1>1. PICK c \in Controllers : \/ CancelExecutionTask(c) \/ Expire(c)
                               \/ BeginExternalPipelineDispatch(c) \/ RecordExternalPipeline(c)
  BY DEF Next, ControllerStep, SweepQueued, SweepDispatched, DispatchImpossible, StartPipeline,
         Answered, Unanswered, FindPipeline, InspectPipeline, ReconcileFails, Crash, CloseRun,
         TimePasses, Remote, Refuse, Duplicate, Deliver, Lose, PipelineEnds, vars
<1>2. CASE CancelExecutionTask(c) \/ Expire(c)
  <2>1. PICK reason \in Reasons : task' = Asked(reason)
    BY <1>2 DEF CancelExecutionTask, Expire, Reasons
  <2>2. /\ RequestStop(task.status) # task.status
        /\ task' = [task EXCEPT !.status = RequestStop(task.status), !.reason = reason]
    BY <2>1 DEF Asked
  <2>3. /\ task'.ref = task.ref /\ task'.failure = task.failure
        /\ task'.status = RequestStop(task.status)
    BY <1>0, <2>2 DEF Tasks
  <2>4. task.status \in {"queued", "dispatching", "running"}
    BY <2>2 DEF RequestStop
  <2>5. ~task.failure
    BY <2>4 DEF IInv, RowFollows
  <2>6. run' = run /\ runOpen' = runOpen
    BY <1>2 DEF CancelExecutionTask, Expire
  <2> QED BY <2>3, <2>4, <2>5, <2>6
<1>3. CASE BeginExternalPipelineDispatch(c)
  <2>1. /\ task.status = "queued" /\ runOpen
        /\ task' = [task EXCEPT !.status = "dispatching"] /\ run' = run /\ runOpen' = runOpen
    BY <1>3 DEF BeginExternalPipelineDispatch
  <2>2. ~task.failure
    BY <2>1 DEF IInv, RowFollows
  <2> QED BY <1>0, <2>1, <2>2 DEF Tasks
<1>4. CASE RecordExternalPipeline(c)
  <2>1. run' = run /\ runOpen' = runOpen
    BY <1>4 DEF RecordExternalPipeline
  <2> QED BY <1>4, <2>1, RecordMoves
<1> QED BY <1>1, <1>2, <1>3, <1>4

(* The identity of the run, its failure and a request to stop are never lost. *)
THEOREM Remembered == Spec => NothingForgotten
<1>1. ASSUME IInv, [Next]_vars
      PROVE  /\ task.ref # NoRun => task'.ref = task.ref
             /\ task.failure => task'.failure
             /\ task.status = "canceling" => task'.status \in {"canceling", "canceled", "failed"}
             /\ task'.failure => task'.status \in {"canceling", "failed"}
  <2>1. CASE task' = task
    BY <1>1, <2>1 DEF IInv, RowFollows
  <2>2. CASE task' # task
    BY <1>1, <2>2, RowMoves
  <2> QED BY <2>1, <2>2
<1>2. IInv /\ [Next]_vars =>
          [/\ task.ref # NoRun => task'.ref = task.ref
           /\ task.failure => task'.failure
           /\ task.status = "canceling" => task'.status \in {"canceling", "canceled", "failed"}
           /\ task'.failure => task'.status \in {"canceling", "failed"}]_vars
  BY <1>1
<1> QED BY <1>2, Invariant, PTL DEF Spec, NothingForgotten

(* What the runs do is work the contract allows. *)
LEMMA WorkIsAllowed ==
    ASSUME IInv, Remote, task.status \notin TaskLive,
           run["copy"].state = "unsent" => run["first"].state \notin {"active", "closing"}
    PROVE  run'["copy"].state = "unsent" => run'["first"].state \notin {"active", "closing"}
<1> SUFFICES ASSUME run'["copy"].state = "unsent", run'["first"].state \in {"active", "closing"}
             PROVE  FALSE
  OBVIOUS
<1>0. RunsMove /\ task \in Tasks /\ run \in [Runs -> Pipelines]
  BY RemoteMoves DEF IInv, TypeOK
<1>1. run["copy"].state = "unsent"
  <2>1. run["copy"].state \in Created => run'["copy"].state \in Created
    BY <1>0 DEF RunsMove, RunsSteady, Runs
  <2>2. ASSUME NEW r \in Runs, Deliver(r) \/ Lose(r) \/ PipelineEnds(r)
        PROVE  run["copy"].state = "unsent"
    BY <1>0, <2>2 DEF Deliver, Lose, PipelineEnds, Pipelines, Created, Ended, Runs
  <2>3. CASE Refuse \/ Duplicate
    BY <1>0, <2>3 DEF Refuse, Duplicate, Unsent, Pipelines, Runs
  <2> QED BY <2>2, <2>3 DEF Remote
<1>2. AtWork("first")
  <2>1. ~AtWork("copy")
    BY <1>1 DEF AtWork
  <2>2. run' # run
    BY <1>1
  <2> QED BY <1>0, <2>1, <2>2 DEF RunsMove, Runs
<1>3. CASE task.status = "queued"
  BY <1>2, <1>3 DEF IInv, OnePermit, AtWork, Runs
<1>4. CASE task.status \in TaskTerminal
  <2>1. task.ref = NoRun => ~AtWork("first")
    BY <1>4 DEF IInv, RowFollows, NothingLeft, Runs
  <2>2. task.ref = "first" => ~AtWork("first")
    BY <1>4 DEF IInv, RowFollows, AtWork, Ended, NoRun
  <2>3. task.ref # "copy"
    BY <1>1 DEF IInv, RowFollows, Created, Ended, NoRun
  <2> QED BY <1>0, <1>2, <2>1, <2>2, <2>3 DEF Tasks, RunIds, Runs
<1> QED BY <1>0, <1>3, <1>4 DEF Tasks, TaskStatuses, TaskTerminal, TaskLive

(* The pipeline task keeps the contract the batch relies on: its end is       *)
(* reported after the end of the work, and no work starts before the dispatch *)
(* or after the end.                                                          *)
THEOREM Refinement == Spec => ContractSpec
<1> DEFINE Working == run["copy"].state = "unsent" /\ run["first"].state \in {"active", "closing"}
<1>1. Init => Contract!Init
  BY DEF Init, Contract!Init, Unsent, Runs
<1>2. ASSUME IInv, [Next]_vars
      PROVE  [Contract!Next]_(Contract!vars)
  <2>0. task \in Tasks /\ run \in [Runs -> Pipelines]
    BY <1>2 DEF IInv, TypeOK
  <2>1. CASE task' = task /\ run' = run
    <3>1. runOpen' = runOpen \/ (runOpen /\ runOpen' = FALSE)
      BY <1>2
      DEF Next, ControllerStep, SweepQueued, SweepDispatched, CancelExecutionTask,
          BeginExternalPipelineDispatch, DispatchImpossible, StartPipeline, Answered, Unanswered,
          Expire, FindPipeline, InspectPipeline, ReconcileFails, RecordExternalPipeline, Crash,
          CloseRun, TimePasses, Remote, Refuse, Duplicate, Deliver, Lose, PipelineEnds, vars
    <3> QED BY <2>1, <3>1 DEF Contract!Next, Contract!TaskStep, Contract!Close, Contract!vars
  <2>2. CASE task' # task
    <3>1. run' = run /\ runOpen' = runOpen
      BY <1>2, <2>2, RowMoves
    <3>2. CASE task'.status = RequestStop(task.status)
      <4>1. Contract!Stop
        BY <3>1, <3>2 DEF Contract!Stop, Contract!RequestStop, RequestStop
      <4> QED BY <4>1 DEF Contract!Next, Contract!TaskStep
    <3>3. CASE task.status = "queued" /\ runOpen /\ task'.status = "dispatching"
      BY <3>1, <3>3 DEF Contract!Next, Contract!TaskStep, Contract!Dispatch
    <3>4. ASSUME NEW c \in Controllers, RecordExternalPipeline(c)
          PROVE  [Contract!Next]_(Contract!vars)
      <4>1. task.status \in TaskLive
        BY <1>2, <2>2, <3>4, RecordMoves DEF TaskLive
      <4>2. CASE task'.status = task.status
        BY <3>1, <4>2 DEF Contract!vars
      <4>3. CASE task'.status = "canceling" /\ task.status # "canceling"
        <5>1. task'.status = RequestStop(task.status)
          BY <4>1, <4>3 DEF TaskLive, RequestStop
        <5>2. Contract!Stop
          BY <3>1, <5>1 DEF Contract!Stop, Contract!RequestStop, RequestStop
        <5> QED BY <5>2 DEF Contract!Next, Contract!TaskStep
      <4>4. CASE task'.status \in TaskReports
                 /\ task'.status # task.status
        <5>1. PICK result \in TaskReports :
                 result = task'.status
          BY <4>4
        <5>2. StoredStatus(task.status, result) = result
          BY <1>2, <2>2, <3>4, <4>1, <4>4, <5>1, RecordMoves
          DEF StoredStatus, TaskLive, TaskTerminal
        <5>3. result \in TaskTerminal => ~Working
          <6> SUFFICES ASSUME result \in TaskTerminal, Working PROVE FALSE
            OBVIOUS
          <6>1. IF task'.ref = NoRun THEN NothingLeft ELSE run[task'.ref].state \in Ended
            BY <1>2, <2>2, <3>4, <5>1, RecordMoves
          <6>2. AtWork("first") /\ "first" \in Runs
            BY DEF AtWork, Runs
          <6>3. task'.ref # NoRun => task'.ref \in Runs
            BY <1>2, <2>2, <3>4, RecordMoves
          <6> QED BY <6>1, <6>2, <6>3 DEF NothingLeft, Ended, Runs
        <5>4. Contract!Report(result)
          BY <3>1, <4>1, <5>1, <5>2, <5>3
          DEF Contract!Report, Contract!TaskLive, TaskLive, Contract!TaskTerminal, TaskTerminal,
              Contract!StoredStatus, StoredStatus
        <5> QED BY <5>4
                DEF Contract!Next, Contract!TaskStep, Contract!TaskReports, TaskReports,
                    Contract!TaskTerminal, TaskTerminal
      <4>5. task'.status \in {"canceling", "canceled", "failed", "running", "dispatching",
                              "completed"}
        BY <1>2, <2>2, <3>4, RecordMoves
      <4>6. task'.status = "dispatching" => task.status = "dispatching"
        BY <1>2, <2>2, <3>4, RecordMoves
      <4> QED BY <4>2, <4>3, <4>4, <4>5, <4>6 DEF TaskReports, TaskTerminal
    <3> QED BY <1>2, <2>2, <3>2, <3>3, <3>4, RowMoves
  <2>3. CASE task' = task /\ run' # run
    <3>1. runOpen' = runOpen
      BY <1>2, <2>3
      DEF Next, ControllerStep, SweepQueued, SweepDispatched, CancelExecutionTask,
          BeginExternalPipelineDispatch, DispatchImpossible, StartPipeline, Answered, Unanswered,
          Expire, FindPipeline, InspectPipeline, ReconcileFails, RecordExternalPipeline, Crash,
          CloseRun, TimePasses, Remote, Refuse, Duplicate, Deliver, Lose, PipelineEnds, vars
    <3>2. CASE task.status \in TaskLive \/ ~Working' \/ Working' = Working
      <4>1. CASE ~Working'
        <5>1. Contract!EndWork
          BY <2>3, <3>1, <4>1 DEF Contract!EndWork
        <5> QED BY <5>1 DEF Contract!Next, Contract!TaskStep
      <4>2. CASE task.status \in TaskLive /\ Working'
        <5>1. Contract!StartWork
          BY <2>3, <3>1, <4>2 DEF Contract!StartWork, Contract!TaskLive, TaskLive
        <5> QED BY <5>1 DEF Contract!Next, Contract!TaskStep
      <4>3. CASE Working' = Working
        BY <2>3, <3>1, <4>3 DEF Contract!vars
      <4> QED BY <3>2, <4>1, <4>2, <4>3
    <3>3. CASE Remote /\ task.status \notin TaskLive /\ ~Working
      <4>1. ~Working'
        BY <1>2, <3>3, WorkIsAllowed
      <4> QED BY <3>2, <4>1
    <3>4. CASE Remote /\ Working
      <4>1. CASE ~Working'
        BY <3>2, <4>1
      <4>2. CASE Working'
        <5>1. Working' = Working
          BY <3>4, <4>2
        <5> QED BY <3>2, <5>1
      <4> QED BY <4>1, <4>2
    <3>5. ASSUME NEW c \in Controllers,
                 StartPipeline(c) \/ FindPipeline(c) \/ InspectPipeline(c)
          PROVE  task.status \in TaskLive \/ ~Working' \/ Working' = Working
      <4>1. CASE StartPipeline(c)
        BY <1>2, <4>1 DEF StartPipeline, IInv, OnePermit, TaskLive
      <4>2. ASSUME NEW stop, run' = CancelRuns(stop)
            PROVE  Working' = Working
        <5>1. run'["first"].state = run["first"].state /\ run'["copy"].state = run["copy"].state
          BY <1>2, <4>2, CancelRunsIsHarmless DEF IInv, Runs
        <5> QED BY <5>1
      <4>3. CASE FindPipeline(c)
        BY <2>3, <4>2, <4>3 DEF FindPipeline
      <4>4. CASE InspectPipeline(c)
        BY <4>2, <4>4 DEF InspectPipeline
      <4> QED BY <3>5, <4>1, <4>3, <4>4
    <3>6. Remote \/ \E c \in Controllers :
                        StartPipeline(c) \/ FindPipeline(c) \/ InspectPipeline(c)
      BY <1>2, <2>3
      DEF Next, ControllerStep, SweepQueued, SweepDispatched, CancelExecutionTask,
          BeginExternalPipelineDispatch, DispatchImpossible, Answered, Unanswered,
          Expire, ReconcileFails, RecordExternalPipeline, Crash, CloseRun, TimePasses, vars
    <3> QED BY <3>2, <3>3, <3>4, <3>5, <3>6
  <2> QED BY <2>1, <2>2, <2>3
<1> QED BY <1>1, <1>2, Invariant, PTL DEF Spec, ContractSpec, Contract!Spec
=============================================================================
