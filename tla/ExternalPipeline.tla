-------------------------- MODULE ExternalPipeline --------------------------
(***************************************************************************)
(* A build task of the external_pipeline.gitlab provider and the GitLab    *)
(* pipeline that works for it.                                             *)
(*                                                                         *)
(* GitLab has no idempotency key for "create pipeline", so the code grants *)
(* one POST per task, in the transaction that moves the row from queued to *)
(* dispatching, and finds out afterwards, by the variables of the runs,    *)
(* what became of it.  Sweeps of several processes and requests that stop  *)
(* the task do this at once, each on its own copy of the row; the POST may *)
(* be refused, lost, answered too late or delivered twice.                 *)
(*                                                                         *)
(* GitLab and the network are external: they are modelled by what the code *)
(* relies on.  A run that has ended stays ended (nobody retries its jobs). *)
(***************************************************************************)
EXTENDS Integers, DeliveryTask

CONSTANTS
    Controllers,  \* sweeps and requests that may be in flight at once
    MaxFaults     \* bound on what goes wrong: failed calls, crashes, messages

ASSUME MaxFaultsAssumption == MaxFaults \in Nat

VARIABLES
    task,        \* the execution_tasks row
    runOpen,     \* the batch's run still dispatches
    overdue,     \* the task's execution time is over
    run,         \* [Runs -> what GitLab made of a copy of the POST]
    posts,       \* how many times the POST was sent
    controller,  \* [Controllers -> what it is doing]
    faults

vars == <<task, runOpen, overdue, run, posts, controller, faults>>

Runs == {"first", "copy"}   \* of the POST and of its duplicate on the way
NoRun == "none"
RunIds == Runs \cup {NoRun}
Reasons == {"none", "requested", "execution_timeout"}

(* ref: RunID of the stored ExternalPipelineRun; failure: pipelineFailure. *)
Tasks == [status : TaskStatuses, ref : RunIds, failure : BOOLEAN, reason : Reasons]

(* "closing": the pipeline has ended, a job or a child pipeline of it has not;  *)
(* "built": a success whose report and image pass pipelineArtifact and          *)
(* VerifyBuildImage, "unproven": one whose do not.  valid: the run has the      *)
(* frozen tag, commit and source.  cancel: its cancellation was posted.         *)
Ended == {"built", "unproven", "failed"}
Created == {"active", "closing"} \cup Ended
RunStates == {"unsent", "sent", "lost", "refused"} \cup Created
Pipelines == [state : RunStates, valid : BOOLEAN, cancel : BOOLEAN]

(* PipelineInspection: which run, what was found, and whether its whole graph  *)
(* has stopped.                                                                *)
Findings == {"unknown", "identity_mismatch", "duplicate_runs", "built", "ended"}
Seen == [run : RunIds, found : Findings, confirmed : BOOLEAN]

Idle == [step |-> "idle"]
Controlling ==
    [step : {"idle", "begin"}]
        \cup [step : {"post", "await", "expire", "find"}, copy : Tasks]
        \cup [step : {"inspect"}, copy : Tasks, id : Runs]
        \cup [step : {"record"}, copy : Tasks, seen : Seen]

At(c, step) == controller[c].step = step
Copy(c) == controller[c].copy
Become(c, what) == controller' = [controller EXCEPT ![c] = what]
ToRecord(copy, id, found, confirmed) ==
    [step |-> "record", copy |-> copy,
     seen |-> [run |-> id, found |-> found, confirmed |-> confirmed]]

Unsent == [state |-> "unsent", valid |-> FALSE, cancel |-> FALSE]

Init ==
    /\ task = [status |-> "queued", ref |-> NoRun, failure |-> FALSE, reason |-> "none"]
    /\ runOpen = TRUE
    /\ overdue = FALSE
    /\ run = [r \in Runs |-> Unsent]
    /\ posts = 0
    /\ controller = [c \in Controllers |-> Idle]
    /\ faults = 0

-----------------------------------------------------------------------------
(* The row *)

(* RequestDeliveryTaskStop: the first reason is kept. *)
Asked(reason) ==
    IF RequestStop(task.status) = task.status THEN task
    ELSE [task EXCEPT !.status = RequestStop(@), !.reason = reason]

(* externalPipelineTerminalStatus *)
TerminalStatus(item, found) ==
    IF item.failure \/ item.reason = "execution_timeout" THEN "failed"
    ELSE IF item.status = "canceling" THEN "canceled"
    ELSE IF found = "built" THEN "completed" ELSE "failed"

(* recordExternalPipeline, up to the write: what it makes of its copy. *)
Recorded(copy, seen) ==
    LET mismatch == seen.found \in {"identity_mismatch", "duplicate_runs"}
        item == [copy EXCEPT !.ref = seen.run,
                             !.failure = @ \/ mismatch,
                             !.status = IF mismatch THEN "canceling" ELSE @]
    IN  [item EXCEPT !.status =
            IF seen.confirmed THEN TerminalStatus(item, seen.found)
            ELSE IF @ # "canceling" /\ seen.run # NoRun THEN "running" ELSE @]

(* mergeExternalPipelineTask, under the row lock: the identity of the run, its *)
(* failure and a request to stop outlive a stale copy.                         *)
BugMerged(item, confirmed) ==   \* mutant: the copy replaces the row
    IF item.status \in TaskTerminal /\ ~confirmed THEN task ELSE item

Merged(item, confirmed) ==
    IF \/ task.ref # NoRun /\ item.ref # task.ref
       \/ item.status \in TaskTerminal /\ ~confirmed
    THEN task
    ELSE LET failure == task.failure \/ item.failure IN
         [item EXCEPT
            !.failure = failure,
            !.reason = IF task.reason # "none" THEN task.reason ELSE @,
            !.status = IF task.status # "canceling" THEN @
                       ELSE IF ~confirmed THEN "canceling"
                       ELSE IF task.reason = "execution_timeout" \/ failure THEN "failed"
                       ELSE "canceled"]

(* updateDeliveryTask *)
Stored(item, confirmed) ==
    IF task.status \in TaskTerminal THEN task ELSE Merged(item, confirmed)

-----------------------------------------------------------------------------
(* Sweeps (recoverStaleTasks) and requests *)

SweepQueued(c) ==
    /\ At(c, "idle") /\ task.status = "queued"
    /\ Become(c, [step |-> "begin"])
    /\ UNCHANGED <<task, runOpen, overdue, run, posts, faults>>

(* reconcileExternalPipeline: the run is known, or must be found. *)
Follow(copy) ==
    IF copy.ref = NoRun THEN [step |-> "find", copy |-> copy]
    ELSE [step |-> "inspect", copy |-> copy, id |-> copy.ref]

(* deliveryTaskExecutionExpired, at the time of the sweep *)
Expired == overdue /\ task.status \in {"dispatching", "running"}

SweepDispatched(c) ==
    /\ At(c, "idle") /\ task.status \in TaskLive
    /\ Become(c, IF Expired THEN [step |-> "expire", copy |-> task] ELSE Follow(task))
    /\ UNCHANGED <<task, runOpen, overdue, run, posts, faults>>

(* cancelDeliveryTask *)
CancelExecutionTask(c) ==
    /\ At(c, "idle") /\ task.status \notin TaskTerminal
    /\ task' = Asked("requested")
    /\ Become(c, IF task'.status \in TaskTerminal THEN Idle
                 ELSE Follow(task'))
    /\ UNCHANGED <<runOpen, overdue, run, posts, faults>>

-----------------------------------------------------------------------------
(* Dispatch *)

BugBegin(c) ==   \* mutant: a task whose POST was granted is dispatched again
    /\ At(c, "begin")
    /\ IF task.status \in {"queued", "dispatching"} /\ runOpen
       THEN /\ task' = [task EXCEPT !.status = "dispatching"]
            /\ Become(c, [step |-> "post", copy |-> task'])
       ELSE UNCHANGED task /\ Become(c, Idle)
    /\ UNCHANGED <<runOpen, overdue, run, posts, faults>>

(* Task -> Run lock order: one controller moves the row out of queued. *)
BeginExternalPipelineDispatch(c) ==
    /\ At(c, "begin")
    /\ IF task.status = "queued" /\ runOpen
       THEN /\ task' = [task EXCEPT !.status = "dispatching"]
            /\ Become(c, [step |-> "post", copy |-> task'])
       ELSE UNCHANGED task /\ Become(c, Idle)
    /\ UNCHANGED <<runOpen, overdue, run, posts, faults>>

(* invalid_configuration, connection_unavailable, definition_changed or       *)
(* invalid_request: nothing was sent.                                         *)
DispatchImpossible(c) ==
    /\ At(c, "post")
    /\ Become(c, ToRecord(Copy(c), NoRun, "unknown", TRUE))
    /\ UNCHANGED <<task, runOpen, overdue, run, posts, faults>>

StartPipeline(c) ==
    /\ At(c, "post")
    /\ posts' = posts + 1
    /\ run' = [run EXCEPT !["first"].state = "sent"]
    /\ Become(c, [controller[c] EXCEPT !.step = "await"])
    /\ UNCHANGED <<task, runOpen, overdue, faults>>

(* The answer; the identity of the run is kept even when it is not the one    *)
(* that was asked for.  A refusal (400, 401, 403, 404, 405, 422) is final.    *)
Answered(c) ==
    /\ At(c, "await")
    /\ \/ \E r \in Runs :
             /\ run[r].state \in Created
             /\ Become(c, ToRecord(Copy(c), r, IF run[r].valid THEN "unknown"
                                               ELSE "identity_mismatch", FALSE))
       \/ /\ run["first"].state = "refused"
          /\ Become(c, ToRecord(Copy(c), NoRun, "unknown", TRUE))
    /\ UNCHANGED <<task, runOpen, overdue, run, posts, faults>>

(* writePipeline gives up: whether there is a run is not known. *)
Unanswered(c) ==
    /\ At(c, "await")
    /\ Become(c, ToRecord(Copy(c), NoRun, "unknown", FALSE))
    /\ UNCHANGED <<task, runOpen, overdue, run, posts, faults>>

-----------------------------------------------------------------------------
(* Reconciliation, reconcileExternalPipeline *)

Expire(c) ==
    /\ At(c, "expire")
    /\ task' = Asked("execution_timeout")
    /\ Become(c, Follow(task'))
    /\ UNCHANGED <<runOpen, overdue, run, posts, faults>>

(* pipelineGraphStopped, on two equal readings of the whole graph *)
BugStopped(r) == run[r].state \in {"closing"} \cup Ended   \* mutant: jobs are not looked at
Stopped(r) == run[r].state \in Ended

(* stopPipelineGraph, for the runs that have not stopped *)
BugCancelRuns(stop) == run   \* mutant: a pipeline that is not wanted is left alone
CancelRuns(stop) ==
    [r \in Runs |-> IF r \in stop /\ ~Stopped(r) THEN [run[r] EXCEPT !.cancel = TRUE]
                    ELSE run[r]]

(* FindPipeline, by the task's variables; runs that should not be there are   *)
(* all canceled (matchedPipeline).                                            *)
FindPipeline(c) ==
    LET matches == {r \in Runs : run[r].state \in Created} IN
    /\ At(c, "find")
    /\ \/ /\ matches = {}
          /\ Become(c, ToRecord(Copy(c), NoRun, "unknown", FALSE))
          /\ UNCHANGED run
       \/ \E r \in Runs :
             /\ matches = {r}
             /\ Become(c, IF run[r].valid
                          THEN [step |-> "inspect", copy |-> Copy(c), id |-> r]
                          ELSE ToRecord(Copy(c), r, "identity_mismatch", FALSE))
             /\ UNCHANGED run
       \/ /\ matches = Runs
          /\ run' = CancelRuns(Runs)
          /\ Become(c, ToRecord(Copy(c), NoRun, "duplicate_runs", \A r \in Runs : Stopped(r)))
    /\ UNCHANGED <<task, runOpen, overdue, posts, faults>>

(* InspectPipeline; the acknowledgement of a cancel is no confirmation. *)
BugJudged(copy, r) ==   \* mutant: the artifact is not verified
    IF ~run[r].valid THEN "identity_mismatch"
    ELSE IF ~Stopped(r) THEN "unknown"
    ELSE IF run[r].state # "failed" /\ copy.status # "canceling" THEN "built" ELSE "ended"
Judged(copy, r) ==
    IF ~run[r].valid THEN "identity_mismatch"
    ELSE IF ~Stopped(r) THEN "unknown"
    ELSE IF run[r].state = "built" /\ copy.status # "canceling" THEN "built" ELSE "ended"

Cancels(copy, r) == copy.status = "canceling" \/ ~run[r].valid

InspectPipeline(c) ==
    /\ At(c, "inspect")
    /\ LET r == controller[c].id IN
       /\ run' = CancelRuns(IF Cancels(Copy(c), r) THEN {r} ELSE {})
       /\ Become(c, ToRecord(Copy(c), r, Judged(Copy(c), r), Stopped(r)))
    /\ UNCHANGED <<task, runOpen, overdue, posts, faults>>

(* A call fails: the connection is not available, or GitLab does not answer. *)
ReconcileFails(c) ==
    /\ faults < MaxFaults
    /\ faults' = faults + 1
    /\ \/ /\ At(c, "find")
          /\ Become(c, ToRecord(Copy(c), NoRun, "unknown", FALSE))
       \/ /\ At(c, "inspect")
          /\ Become(c, ToRecord(Copy(c), controller[c].id, "unknown", FALSE))
    /\ UNCHANGED <<task, runOpen, overdue, run, posts>>

-----------------------------------------------------------------------------
RecordExternalPipeline(c) ==
    /\ At(c, "record")
    /\ LET seen == controller[c].seen IN
       task' = Stored(Recorded(Copy(c), seen), seen.confirmed)
    /\ Become(c, Idle)
    /\ UNCHANGED <<runOpen, overdue, run, posts, faults>>

(* The process stops; in the other steps nothing but its turn is lost. *)
Crash(c) ==
    /\ controller[c].step \in {"post", "await", "inspect", "record"}
    /\ faults < MaxFaults
    /\ faults' = faults + 1
    /\ Become(c, Idle)
    /\ UNCHANGED <<task, runOpen, overdue, run, posts>>

(* The run is stopped or over (StopManagedRun); only the dispatch asks. *)
CloseRun ==
    /\ runOpen /\ task.status = "queued"
    /\ runOpen' = FALSE
    /\ UNCHANGED <<task, overdue, run, posts, controller, faults>>

(* deliveryTaskExecutionExpired: time passes. *)
TimePasses ==
    /\ ~overdue /\ task.status \in {"dispatching", "running"}
    /\ overdue' = TRUE
    /\ UNCHANGED <<task, runOpen, run, posts, controller, faults>>

ControllerStep(c) ==
    \/ SweepQueued(c) \/ SweepDispatched(c) \/ CancelExecutionTask(c)
    \/ BeginExternalPipelineDispatch(c) \/ DispatchImpossible(c) \/ StartPipeline(c)
    \/ Answered(c) \/ Unanswered(c)
    \/ Expire(c) \/ FindPipeline(c) \/ InspectPipeline(c)
    \/ ReconcileFails(c) \/ RecordExternalPipeline(c) \/ Crash(c)

-----------------------------------------------------------------------------
(* The network and GitLab *)

Deliver(r) ==
    /\ run[r].state = "sent"
    /\ \E valid \in BOOLEAN :
          run' = [run EXCEPT ![r].state = "active", ![r].valid = valid]
    /\ UNCHANGED <<task, runOpen, overdue, posts, controller, faults>>

(* Every copy of a POST is refused, or none. *)
Refuse ==
    /\ run["first"].state = "sent" /\ run["copy"].state \in {"unsent", "sent"}
    /\ run' = [r \in Runs |-> [Unsent EXCEPT !.state = "refused"]]
    /\ UNCHANGED <<task, runOpen, overdue, posts, controller, faults>>

Lose(r) ==
    /\ run[r].state = "sent"
    /\ faults < MaxFaults
    /\ faults' = faults + 1
    /\ run' = [run EXCEPT ![r].state = "lost"]
    /\ UNCHANGED <<task, runOpen, overdue, posts, controller>>

Duplicate ==
    /\ run["first"].state = "sent" /\ run["copy"].state = "unsent"
    /\ faults < MaxFaults
    /\ faults' = faults + 1
    /\ run' = [run EXCEPT !["copy"].state = "sent"]
    /\ UNCHANGED <<task, runOpen, overdue, posts, controller>>

PipelineEnds(r) ==
    /\ run[r].state \in {"active", "closing"}
    /\ \E state \in Ended \cup ({"closing"} \ {run[r].state}) :
          run' = [run EXCEPT ![r].state = state]
    /\ UNCHANGED <<task, runOpen, overdue, posts, controller, faults>>

Remote == Refuse \/ Duplicate
          \/ \E r \in Runs : Deliver(r) \/ Lose(r) \/ PipelineEnds(r)

Next ==
    \/ \E c \in Controllers : ControllerStep(c)
    \/ CloseRun
    \/ TimePasses
    \/ Remote

Spec == Init /\ [][Next]_vars

(* Every sweep comes round and a call returns or fails; time passes; what was *)
(* canceled at GitLab stops, what was not may go on for ever.                 *)
CallStep(c) ==
    \/ SweepDispatched(c) \/ Answered(c) \/ Unanswered(c)
    \/ Expire(c) \/ FindPipeline(c) \/ InspectPipeline(c)
    \/ RecordExternalPipeline(c) \/ BeginExternalPipelineDispatch(c) \/ StartPipeline(c)

CanceledEnds(r) == run[r].cancel /\ PipelineEnds(r)

Fairness ==
    /\ \A c \in Controllers : WF_vars(CallStep(c))
    /\ WF_vars(TimePasses)
    /\ \A r \in Runs : WF_vars(CanceledEnds(r))

FairSpec == Spec /\ Fairness

-----------------------------------------------------------------------------
(* Properties *)

TypeOK ==
    /\ task \in Tasks
    /\ runOpen \in BOOLEAN
    /\ overdue \in BOOLEAN
    /\ run \in [Runs -> Pipelines]
    /\ posts \in 0 .. 1
    /\ controller \in [Controllers -> Controlling]
    /\ faults \in 0 .. MaxFaults

(* The POST that starts the build is sent at most once, whatever was lost,    *)
(* crashed or swept again, and not at all once the task has ended or its run  *)
(* was closed while it was queued.  (BeginExternalPipelineDispatch: "grants   *)
(* exactly one POST attempt".)                                                *)
PostedOnce ==
    [][posts' # posts => posts = 0 /\ task.status \in {"dispatching", "canceling"}]_vars

(* A task whose end is recorded has no run at work: not the one it names, and *)
(* none at all, not even on its way, when it names none.  A second run made   *)
(* by the network is unknown to a task that already had one.  (InspectPipeline, *)
(* matchedPipeline, StartPipeline's refusals, mergeExternalPipelineTask.)     *)
AtWork(r) == run[r].state \in {"sent", "active", "closing"}

EndedIsQuiet ==
    task.status \in TaskTerminal =>
        /\ \A c \in Controllers : ~At(c, "post")
        /\ \A r \in Runs : AtWork(r) => task.ref \notin {NoRun, r}

(* A completed build names the run that made its image: a successful run of   *)
(* the frozen definition whose artifact was verified.  (recordExternalPipeline, *)
(* externalPipelineTerminalStatus, against copies made stale by other sweeps.) *)
CompletedIsBuilt ==
    task.status = "completed" =>
        /\ task.ref # NoRun /\ ~task.failure
        /\ run[task.ref].state = "built" /\ run[task.ref].valid

(* What was found out once is not forgotten: the identity of the run, that it *)
(* was not the run asked for, and that a stop was requested; a delayed poll   *)
(* or a late answer cannot undo it.  (mergeExternalPipelineTask.)             *)
NothingForgotten ==
    [][/\ task.ref # NoRun => task'.ref = task.ref
       /\ task.failure => task'.failure
       /\ task.status = "canceling" => task'.status \in {"canceling", "canceled", "failed"}
       /\ task'.failure => task'.status \in {"canceling", "failed"}]_vars

(* To the batch the task is what TaskContract says, as long as the network    *)
(* does not deliver the POST twice.                                           *)
Contract == INSTANCE TaskContract WITH
    status <- task.status, open <- runOpen,
    working <- run["copy"].state = "unsent" /\ run["first"].state \in {"active", "closing"}

(* The pipeline task keeps the contract DeliveryRun relies on.                *)
(* (dispatchExternalPipeline, reconcileExternalPipeline.)                     *)
ContractSpec == Contract!Spec

(* A build that reached GitLab ends in the row as well: it is found by its    *)
(* variables when the answer was lost, stopped when it takes too long, and    *)
(* its stop confirmed.  A POST that vanished leaves the task waiting.         *)
(* (recoverStaleTasks, reconcileExternalPipeline.)                            *)
StartedEnds == (\E r \in Runs : run[r].state \in Created) ~> task.status \in TaskTerminal

-----------------------------------------------------------------------------
(* The inductive invariant behind these properties. *)

(* No POST is granted or on its way and no run works. *)
NothingLeft ==
    /\ \A c \in Controllers : ~At(c, "post")
    /\ \A r \in Runs : ~AtWork(r)

(* The permission to POST is unique and is used up by the POST. *)
OnePermit ==
    /\ task.status = "queued" =>
          /\ posts = 0 /\ task.ref = NoRun /\ ~task.failure
          /\ \A c \in Controllers : controller[c].step \in {"idle", "begin"}
    /\ \A c \in Controllers : At(c, "post") =>
          /\ posts = 0 /\ task.ref = NoRun
          /\ task.status \in {"dispatching", "canceling"}
          /\ \A d \in Controllers : At(d, "post") => d = c
    /\ \A c \in Controllers : At(c, "await") => posts = 1
    /\ posts = 0 => \A r \in Runs : run[r].state = "unsent"
    /\ run["first"].state = "unsent" => run["copy"].state = "unsent"
    /\ run["first"].state = "refused" => run["copy"].state = "refused"

(* The row names a run that exists, and ends after it. *)
RowFollows ==
    /\ task.ref # NoRun => run[task.ref].state \in Created
    /\ task.status = "running" => task.ref # NoRun
    /\ task.failure => task.status \in {"canceling", "failed"}
    /\ task.reason # "none" => task.status \in {"canceling"} \cup TaskTerminal
    /\ task.status \in TaskTerminal =>
          IF task.ref = NoRun THEN NothingLeft ELSE run[task.ref].state \in Ended
    /\ CompletedIsBuilt

(* A copy may be stale, but what it says of stops and failures is still true. *)
CopyIsPast(copy) ==
    /\ copy.status # "queued"
    /\ copy.failure => task.failure
    /\ copy.reason # "none" => task.reason = copy.reason
    /\ copy.status = "canceling" => task.status \in {"canceling", "canceled", "failed"}
    /\ copy.status \in TaskTerminal => task.status = copy.status

(* What a controller is about to record stays true while it waits. *)
SeenIsTrue(copy, seen) ==
    /\ seen.run # NoRun => run[seen.run].state \in Created
    /\ seen.confirmed =>
          IF seen.run = NoRun THEN NothingLeft ELSE run[seen.run].state \in Ended
    /\ seen.found = "built" =>
          seen.run # NoRun /\ run[seen.run].state = "built" /\ run[seen.run].valid
    /\ seen.run = NoRun => copy.status # "running"

HoldsTruth(c) ==
    /\ ~(controller[c].step \in {"idle", "begin"}) => CopyIsPast(Copy(c))
    /\ controller[c].step \in {"post", "await"} => Copy(c).status = "dispatching"
    /\ At(c, "find") => Copy(c).status # "running"
    /\ At(c, "inspect") => run[controller[c].id].state \in Created
    /\ At(c, "record") => SeenIsTrue(Copy(c), controller[c].seen)

(* One permission, one POST; the row never ends before the run it names, and  *)
(* no stale copy or late answer brings back what was superseded.              *)
(* (BeginExternalPipelineDispatch, recordExternalPipeline,                    *)
(* mergeExternalPipelineTask.)                                                *)
IInv ==
    /\ TypeOK
    /\ OnePermit
    /\ RowFollows
    /\ \A c \in Controllers : HoldsTruth(c)

=============================================================================
