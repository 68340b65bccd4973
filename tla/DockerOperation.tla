-------------------------- MODULE DockerOperation --------------------------
(***************************************************************************)
(* The queued operations of one Docker Compose project: the rows of        *)
(* docker_operations, the runners that claim them and report back, the     *)
(* users who cancel and retry them, and the project's own row, which is    *)
(* brought up to date after a report was stored.                           *)
(*                                                                         *)
(* Every handler reads a row, decides, and writes the whole row back under *)
(* "WHERE updated_at = ?".  All writes change updated_at, so the write of  *)
(* a handler succeeds if and only if nobody wrote the row since it was     *)
(* read: "fresh" says so, and times need no numbers.  Two writes in the    *)
(* same microsecond are left out.                                          *)
(*                                                                         *)
(* An attempt is the life of one claim.  A runner that supports callback   *)
(* tokens gets one per attempt; it is numbered by the attempt, and 0 is    *)
(* the empty token of the others.  "failed" stands for callback_timeout    *)
(* too, which the code treats alike.                                       *)
(***************************************************************************)
EXTENDS Integers

CONSTANTS
    Ops,             \* operations, numbered by created_at
    Delivery,        \* those of a delivery batch (deliveryPlanId)
    Retryable,       \* those of a kind that may be retried (BuildOperationState)
    Revocable,       \* those whose requester may lose the authorization
    Workers,         \* runners
    TokenWorkers,    \* those that support callback tokens
    Handlers,        \* requests that may be in flight at once
    DefaultRetries,  \* defaultOperationMaxRetries
    MaxFaults        \* bound on the requests that die half way

ASSUME OpsAssumption == Ops \subseteq Nat /\ Delivery \cup Retryable \cup Revocable \subseteq Ops
ASSUME WorkersAssumption == TokenWorkers \subseteq Workers
ASSUME LimitsAssumption == DefaultRetries \in Nat \ {0} /\ MaxFaults \in Nat

VARIABLES
    op,        \* [Ops -> the docker_operations row]
    job,       \* [Ops -> [Attempts -> what the runner that was answered does]]
    allowed,   \* [Ops -> the requester is still authorized]
    runOpen,   \* the delivery batch still dispatches
    project,   \* status of the docker_projects row
    call,      \* [Handlers -> what the request is doing]
    faults

vars == <<op, job, allowed, runOpen, project, call, faults>>

Attempts == 1 .. DefaultRetries + 1
Tokens == {0} \cup Attempts
NoWorker == "none"

OpTerminal == {"completed", "failed", "canceled"}
OpActive == {"running", "canceling"}
Rows == [status : {"queued"} \cup OpActive \cup OpTerminal,
         worker : Workers \cup {NoWorker}, token : Tokens, attempt : Tokens]

(* "stopping": the runner has seen the cancellation, its commands still run. *)
JobAtWork == {"working", "stopping"}
JobEnded == {"succeeded", "failed", "stopped"}
Jobs == [state : {"none"} \cup JobAtWork \cup JobEnded,
         worker : Workers \cup {NoWorker}, token : Tokens]
ProjectStatuses == {"created", "running", "failed", "stopped"}

Idle == [step |-> "idle"]
Calls ==
    [step : {"idle"}]
        \cup [step : {"claim"}, op : Ops, worker : Workers]
        \cup [step : {"authorize"}, op : Ops, item : Rows, fresh : BOOLEAN]
        \cup [step : {"write"}, op : Ops, item : Rows, fresh : BOOLEAN,
              then : {"end", "touch", "apply"}]
        \cup [step : {"apply"}, status : OpTerminal]

At(h, step) == call[h].step = step
Become(h, what) == call' = [call EXCEPT ![h] = what]
ToWrite(o, item, then) ==
    [step |-> "write", op |-> o, item |-> item, fresh |-> TRUE, then |-> then]

(* The row of o is written by h: every other copy of it is out of date. *)
Holds(g, o) == call[g].step \in {"authorize", "write"} /\ call[g].op = o
Stored(h, o, item, what) ==
    /\ op' = [op EXCEPT ![o] = item]
    /\ call' = [g \in Handlers |->
                  IF g = h THEN what
                  ELSE IF Holds(g, o) THEN [call[g] EXCEPT !.fresh = FALSE]
                  ELSE call[g]]

(* SELECT ... FOR UPDATE keeps the row for the claim that selected it. *)
Locked(o) == \E g \in Handlers : At(g, "claim") /\ call[g].op = o

Init ==
    /\ op = [o \in Ops |-> [status |-> "queued", worker |-> NoWorker,
                            token |-> 0, attempt |-> 0]]
    /\ job = [o \in Ops |-> [a \in Attempts |->
                [state |-> "none", worker |-> NoWorker, token |-> 0]]]
    /\ allowed = [o \in Ops |-> TRUE]
    /\ runOpen = TRUE
    /\ project = "created"
    /\ call = [h \in Handlers |-> Idle]
    /\ faults = 0

-----------------------------------------------------------------------------
(* Claims *)

Free(o) == \A p \in Ops : p # o => op[p].status \notin OpActive

Claimable(o, w) ==
    /\ op[o].status = "queued" /\ Free(o) /\ ~Locked(o)
    /\ o \in Delivery => w \in TokenWorkers

(* ClaimOperation selects and locks the oldest row it may claim. *)
SelectOperation(h, w) ==
    \E o \in Ops :
        /\ At(h, "idle")
        /\ Claimable(o, w) /\ \A p \in Ops : Claimable(p, w) => o <= p
        /\ Become(h, [step |-> "claim", op |-> o, worker |-> w])
        /\ UNCHANGED <<op, job, allowed, runOpen, project, faults>>

(* lockOperationDispatch: the project is looked at again under its lock, and  *)
(* the batch must still dispatch.                                             *)
BugDispatchAllowed(o) == o \in Delivery => runOpen   \* mutant: no second look
DispatchAllowed(o) == Free(o) /\ (o \in Delivery => runOpen)

ClaimOperation(h) ==
    /\ At(h, "claim")
    /\ LET o == call[h].op
           attempt == op[o].attempt + 1
           item == [status |-> "running", worker |-> call[h].worker, attempt |-> attempt,
                    token |-> IF call[h].worker \in TokenWorkers THEN attempt ELSE 0]
       IN  IF DispatchAllowed(o)
           THEN Stored(h, o, item,
                       [step |-> "authorize", op |-> o, item |-> item, fresh |-> TRUE])
           ELSE Become(h, Idle) /\ UNCHANGED op
    /\ UNCHANGED <<job, allowed, runOpen, project, faults>>

(* authorizeQueuedOperation decides whether the runner gets the claimed row   *)
(* or denyClaimedOperation fails it.                                          *)
AnswerClaim(h) ==
    /\ At(h, "authorize")
    /\ LET o == call[h].op
           item == call[h].item
       IN  IF allowed[o]
           THEN /\ job' = [job EXCEPT ![o][item.attempt] =
                             [state |-> "working", worker |-> item.worker,
                              token |-> item.token]]
                /\ Become(h, Idle)
           ELSE /\ Become(h, [ToWrite(o, [item EXCEPT !.status = "failed"], "end")
                                EXCEPT !.fresh = call[h].fresh])
                /\ UNCHANGED job
    /\ UNCHANGED <<op, allowed, runOpen, project, faults>>

-----------------------------------------------------------------------------
(* Users *)

BugCanceled(row) ==   \* mutant: the claim is forgotten
    [row EXCEPT !.status = IF row.status = "queued" THEN "canceled" ELSE "canceling",
                !.worker = NoWorker]
Canceled(row) ==
    [row EXCEPT !.status = IF row.status = "queued" /\ row.worker = NoWorker
                           THEN "canceled" ELSE "canceling"]

(* cancelOperation; without a runner nobody has to acknowledge. *)
CancelOperation(h, o) ==
    /\ At(h, "idle") /\ op[o].status \in {"queued", "running"}
    /\ Become(h, ToWrite(o, Canceled(op[o]), "end"))
    /\ UNCHANGED <<op, job, allowed, runOpen, project, faults>>

(* CreateOperation stores 0 for a delivery, which retryOperation reads as the *)
(* default.                                                                   *)
MaxRetries(o) == IF o \in Delivery THEN 0 ELSE DefaultRetries
RetryLimit(o) == IF MaxRetries(o) = 0 THEN DefaultRetries ELSE MaxRetries(o)

RetryOperation(h, o) ==
    /\ At(h, "idle") /\ o \in Retryable /\ op[o].status \in {"failed", "canceled"}
    /\ op[o].attempt <= RetryLimit(o)
    /\ allowed[o]
    /\ Become(h, ToWrite(o, [op[o] EXCEPT !.status = "queued", !.worker = NoWorker,
                                          !.token = 0], "end"))
    /\ UNCHANGED <<op, job, allowed, runOpen, project, faults>>

-----------------------------------------------------------------------------
(* Runners' requests *)

(* stopUnauthorizedOperation *)
Unauthorized(o) == op[o].status = "running" /\ ~allowed[o]
ToStop(o, then) == ToWrite(o, [op[o] EXCEPT !.status = "canceling"], then)

(* GetOperationForRunner, the runner's poll. *)
PollOperation(h, o) ==
    /\ At(h, "idle") /\ Unauthorized(o)
    /\ Become(h, ToStop(o, "end"))
    /\ UNCHANGED <<op, job, allowed, runOpen, project, faults>>

(* validateDockerOperationCallback: is this the runner of the claim? *)
BugAccepts(o, a) == op[o].worker = job[o][a].worker   \* mutant: the token is not compared
Accepts(o, a) ==
    /\ op[o].worker = job[o][a].worker
    /\ op[o].token = 0 \/ op[o].token = job[o][a].token

(* RecordOperationCallback of a heartbeat: an operation that may not go on is *)
(* stopped first.                                                             *)
Heartbeat(h, o, a) ==
    /\ At(h, "idle")
    /\ job[o][a].state \in JobAtWork /\ Accepts(o, a) /\ op[o].status \notin OpTerminal
    /\ Become(h, IF Unauthorized(o) THEN ToStop(o, "touch")
                 ELSE ToWrite(o, op[o], "end"))
    /\ UNCHANGED <<op, job, allowed, runOpen, project, faults>>

(* What a runner reports of its commands.  A runner may answer a cancellation *)
(* before they have stopped; it says so (CancellationAcknowledged).           *)
BugAcknowledged(o, a) == TRUE   \* mutant: the acknowledgement is not asked for
Acknowledged(o, a) == op[o].status # "canceling" \/ job[o][a].state # "stopping"

Reported(state) ==
    IF state = "succeeded" THEN "completed"
    ELSE IF state = "failed" THEN "failed" ELSE "canceled"

(* RecordOperationCallback of an end: the row, then the project. *)
RecordOperationCallback(h, o, a) ==
    /\ At(h, "idle")
    /\ job[o][a].state \in {"stopping"} \cup JobEnded
    /\ Accepts(o, a) /\ op[o].status \notin OpTerminal
    /\ Acknowledged(o, a)
    /\ Become(h, ToWrite(o, [op[o] EXCEPT !.status = Reported(job[o][a].state)], "apply"))
    /\ UNCHANGED <<op, job, allowed, runOpen, project, faults>>

-----------------------------------------------------------------------------
(* projectStatusForOperation, of a deployment *)
ProjectStatus(status) ==
    IF status = "completed" THEN "running"
    ELSE IF status = "failed" THEN "failed" ELSE "stopped"

(* UpdateOperation: the row as it was read, or nothing. *)
BugUpdateAccepted(h) == TRUE   \* mutant: updated_at is not compared
UpdateAccepted(h) == call[h].fresh

UpdateOperation(h) ==
    /\ At(h, "write") /\ ~Locked(call[h].op)
    /\ LET item == call[h].item
           then == call[h].then
       IN  IF UpdateAccepted(h)
           THEN Stored(h, call[h].op, item,
                  IF then = "touch" THEN ToWrite(call[h].op, item, "end")
                  ELSE IF then = "apply" THEN [step |-> "apply", status |-> item.status]
                  ELSE Idle)
           ELSE Become(h, Idle) /\ UNCHANGED op
    /\ UNCHANGED <<job, allowed, runOpen, project, faults>>

(* applyCallbackRuntimeState, in a statement of its own *)
ApplyRuntimeState(h) ==
    /\ At(h, "apply")
    /\ project' = ProjectStatus(call[h].status)
    /\ Become(h, Idle)
    /\ UNCHANGED <<op, job, allowed, runOpen, faults>>

(* The process stops, or the answer to the runner is lost. *)
Crash(h) ==
    /\ ~At(h, "idle")
    /\ faults < MaxFaults
    /\ faults' = faults + 1
    /\ Become(h, Idle)
    /\ UNCHANGED <<op, job, allowed, runOpen, project>>

HandlerStep(h) ==
    \/ \E w \in Workers : SelectOperation(h, w)
    \/ ClaimOperation(h) \/ AnswerClaim(h)
    \/ \E o \in Ops :
          \/ CancelOperation(h, o) \/ RetryOperation(h, o) \/ PollOperation(h, o)
          \/ \E a \in Attempts : Heartbeat(h, o, a) \/ RecordOperationCallback(h, o, a)
    \/ UpdateOperation(h) \/ ApplyRuntimeState(h) \/ Crash(h)

-----------------------------------------------------------------------------
(* The authorization of the requester is withdrawn; the batch is stopped. *)
Revoke(o) ==
    /\ o \in Revocable /\ allowed[o]
    /\ allowed' = [allowed EXCEPT ![o] = FALSE]
    /\ UNCHANGED <<op, job, runOpen, project, call, faults>>

CloseRun ==
    /\ runOpen /\ Delivery # {}
    /\ runOpen' = FALSE
    /\ UNCHANGED <<op, job, allowed, project, call, faults>>

(* The runner's commands, external: it reports an end after they have ended,  *)
(* and stops them when it finds its operation canceling.                      *)
SeeCancellation(o, a) ==
    /\ job[o][a].state = "working" /\ op[o].status = "canceling"
    /\ job' = [job EXCEPT ![o][a].state = "stopping"]
    /\ UNCHANGED <<op, allowed, runOpen, project, call, faults>>

CommandsEnd(o, a) ==
    /\ job[o][a].state \in JobAtWork
    /\ \E state \in {"succeeded", "failed"}
                       \cup (IF job[o][a].state = "stopping" THEN {"stopped"} ELSE {}) :
          job' = [job EXCEPT ![o][a].state = state]
    /\ UNCHANGED <<op, allowed, runOpen, project, call, faults>>

Runner(o, a) == SeeCancellation(o, a) \/ CommandsEnd(o, a)

Next ==
    \/ \E h \in Handlers : HandlerStep(h)
    \/ \E o \in Ops : Revoke(o) \/ \E a \in Attempts : Runner(o, a)
    \/ CloseRun

Spec == Init /\ [][Next]_vars

(* A request that is not lost goes on; a runner's commands end or are         *)
(* stopped, and it repeats its last report until it is taken.                 *)
Fairness ==
    /\ \A h \in Handlers :
          WF_vars(ClaimOperation(h) \/ AnswerClaim(h) \/ UpdateOperation(h) \/ ApplyRuntimeState(h))
    /\ \A o \in Ops : \A a \in Attempts :
          /\ WF_vars(Runner(o, a))
          /\ SF_vars(\E h \in Handlers : /\ job[o][a].state \in JobEnded
                                         /\ RecordOperationCallback(h, o, a))

FairSpec == Spec /\ Fairness

-----------------------------------------------------------------------------
(* Properties *)

TypeOK ==
    /\ op \in [Ops -> Rows]
    /\ job \in [Ops -> [Attempts -> Jobs]]
    /\ allowed \in [Ops -> BOOLEAN]
    /\ runOpen \in BOOLEAN
    /\ project \in ProjectStatuses
    /\ call \in [Handlers -> Calls]
    /\ faults \in 0 .. MaxFaults

(* Compose actions share one workspace: no two operations of the project are  *)
(* with runners at once, although claims lock different rows.                 *)
(* (ClaimOperation, lockOperationDispatch.)                                   *)
OneActive ==
    \A o, p \in Ops : op[o].status \in OpActive /\ op[p].status \in OpActive => o = p

(* Commands of an attempt with a token run only while its operation is        *)
(* running or canceling under that attempt: never after a cancellation was    *)
(* confirmed, a failure recorded or a retry queued.  (UpdateOperation's       *)
(* updated_at, validateDockerOperationCallback, cancelOperation.)             *)
EndedIsQuiet ==
    \A o \in Ops : \A a \in Attempts :
        job[o][a].state \in JobAtWork /\ job[o][a].token # 0 =>
            op[o].attempt = a /\ op[o].status \in OpActive

(* An operation that ended under a token shows what the runner of that        *)
(* attempt reported of its commands, unless it was denied before the runner   *)
(* was answered: no late report of an earlier attempt and no old copy of the  *)
(* row decides it.  (RecordOperationCallback, denyClaimedOperation,           *)
(* retryOperation's new token.)                                               *)
Earned(o, status, attempt) ==
    \/ job[o][attempt].state = "none" /\ status = "failed"
    \/ job[o][attempt].state \in JobEnded /\ status = Reported(job[o][attempt].state)
EndedIsEarned ==
    \A o \in Ops : op[o].status \in OpTerminal /\ op[o].token # 0 =>
        Earned(o, op[o].status, op[o].attempt)

(* The project's workspace has one operation at a time, and passes to the     *)
(* next only when the commands of the last have ended: the rows, claimed and   *)
(* written by many requests, are a lock.  (ClaimOperation,                     *)
(* lockOperationDispatch, RecordOperationCallback, UpdateOperation.)           *)
Contract == INSTANCE WorkspaceContract WITH
    holders <- {o \in Ops : op[o].status \in OpActive},
    atWork <- {o \in Ops : \E a \in Attempts :
                  job[o][a].state \in JobAtWork /\ job[o][a].token # 0}

ContractSpec == Contract!Spec

(* A cancellation whose runner was answered is confirmed in the end, however  *)
(* its report races heartbeats, polls and users.  (cancelOperation,           *)
(* RecordOperationCallback.)                                                  *)
AtCancel(o) ==
    /\ op[o].status = "canceling"
    /\ op[o].token # 0 /\ job[o][op[o].attempt].state # "none"
CancelEnds == \A o \in Ops : AtCancel(o) ~> op[o].status \in OpTerminal

(* The operations of a delivery batch are created with no retries             *)
(* (CreateOperation stores MaxRetries = 0): once ended, one stays as the      *)
(* batch has recorded it.                                                     *)
DeliveryEndsOnce ==
    [][\A o \in Delivery : op[o].status \in OpTerminal => op'[o].status = op[o].status]_vars

-----------------------------------------------------------------------------
(* The inductive invariant behind these properties. *)

RowsAreSound ==
    \A o \in Ops :
        /\ op[o].status = "queued" => op[o].worker = NoWorker /\ op[o].token = 0
        /\ op[o].status = "queued" => op[o].attempt <= DefaultRetries
        /\ op[o].status \in OpActive => op[o].worker \in Workers /\ op[o].attempt \in Attempts
        /\ op[o].token # 0 => op[o].token = op[o].attempt
        /\ \A a \in Attempts : job[o][a].state # "none" =>
              a <= op[o].attempt /\ job[o][a].worker \in Workers

(* The row still belongs to an attempt that holds a token. *)
Owns(o, a, worker) ==
    /\ op[o].attempt = a /\ op[o].token = a /\ op[o].worker = worker
    /\ op[o].status \in OpActive

AtWorkOwns ==
    \A o \in Ops : \A a \in Attempts :
        /\ job[o][a].token \in {0, a}
        /\ job[o][a].state \in JobAtWork /\ job[o][a].token # 0 => Owns(o, a, job[o][a].worker)
        /\ job[o][a].state = "stopping" /\ job[o][a].token # 0 => op[o].status = "canceling"

(* A claim in progress has its row for itself. *)
Claiming(h) ==
    At(h, "claim") =>
        /\ op[call[h].op].status = "queued"
        /\ \A g \in Handlers : At(g, "claim") /\ call[g].op = call[h].op => g = h

(* A claim that is being answered: nobody else will, and nobody works yet. *)
Answering(h) ==
    At(h, "authorize") =>
        LET o == call[h].op
            item == call[h].item
        IN  /\ item.attempt \in Attempts /\ item.worker \in Workers
            /\ item.token \in {0, item.attempt} /\ item.status = "running"
            /\ item.attempt <= op[o].attempt
            /\ call[h].fresh => op[o] = item
            /\ job[o][item.attempt].state = "none"
            /\ item.token # 0 => Owns(o, item.attempt, item.worker)
            /\ op[o].attempt = item.attempt => op[o].token \in {0, item.token}
            /\ \A g \in Handlers : At(g, "authorize") /\ call[g].op = o
                                     /\ call[g].item.attempt = item.attempt => g = h

(* Nobody with a token works on o or is about to. *)
NoOwner(o) ==
    /\ \A a \in Attempts : job[o][a].token # 0 => job[o][a].state \notin JobAtWork
    /\ \A h \in Handlers : At(h, "authorize") /\ call[h].op = o => call[h].item.token = 0

(* A write that will be accepted is still right. *)
Writing(h) ==
    At(h, "write") =>
        LET o == call[h].op
            item == call[h].item
        IN  /\ item.status = "queued" => /\ item.worker = NoWorker /\ item.token = 0
                                         /\ item.attempt <= DefaultRetries
            /\ call[h].then = "touch" => item.status = "canceling"
            /\ call[h].then = "apply" => item.status \in OpTerminal
            /\ call[h].fresh =>
                  /\ item.attempt = op[o].attempt
                  /\ item.status # "queued" => item.worker = op[o].worker /\ item.token = op[o].token
                  /\ item.status \in OpActive => op[o].status \in {"running", item.status}
                  /\ item.status \notin OpActive => NoOwner(o)
                  /\ item.status \in OpTerminal /\ item.token # 0 =>
                        Earned(o, item.status, item.attempt)

(* Rows, tokens and copies agree: who works holds the row, and a copy that    *)
(* would be accepted ends nothing that works.  (UpdateOperation,              *)
(* ClaimOperation, validateDockerOperationCallback.)                          *)
IInv ==
    /\ TypeOK
    /\ OneActive
    /\ RowsAreSound
    /\ AtWorkOwns
    /\ EndedIsEarned
    /\ \A h \in Handlers : Claiming(h) /\ Answering(h) /\ Writing(h)
=============================================================================
