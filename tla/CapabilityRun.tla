--------------------------- MODULE CapabilityRun ---------------------------
(***************************************************************************)
(* A capability task: a plan of tool calls that workers carry out one by   *)
(* one.  The workflow keeps the run's row; each call starts at most one    *)
(* child (a task of the domain that owns the tool, or an effect applied at *)
(* once), and may first need an approval.                                  *)
(*                                                                         *)
(* A worker claims the row under a lease and then works on its copy.       *)
(* Every write increments the version and every write of a worker checks   *)
(* version, fencing token and owner: it succeeds if and only if nobody     *)
(* wrote the row since the worker read it ("fresh") and the lease is       *)
(* alive ("leased").  A fresh copy is the row (DeliveryRun has the copies, *)
(* and the theorem that says so).  A worker with an outdated copy can do   *)
(* one thing only, call StopManagedRun, if that copy makes it; once it is  *)
(* to write, the write is refused and its tick over.                       *)
(*                                                                         *)
(* Tool calls run while the row is locked, so a call and the write that    *)
(* records it are one action, unless the worker dies in between: then the  *)
(* call has had its effect and the row does not show it.  A call has the   *)
(* same request id whenever it is repeated, and the domain answers with    *)
(* the child it already has.                                               *)
(***************************************************************************)
EXTENDS Integers

CONSTANTS
    Nodes,        \* ids of steps, ordered as in the plan
    FirstPlan,    \* the steps of the plan that is submitted
    Deps,         \* [Nodes -> DependsOn]
    Async,        \* steps whose tool starts a task (Execution.Mode "async")
    Guarded,      \* steps whose call needs an approval
    HardToCancel, \* asynchronous steps whose cancel call needs an approval
    NoCancel,     \* asynchronous steps whose task has no cancel call
    Verifies,     \* steps that verify the goal (VerificationSteps)
    Workers,
    MaxPlan,      \* the last plan version (20 in the code)
    MaxFaults     \* bound on crashes and on calls without an answer

ASSUME NodesAssumption ==
    /\ Nodes \subseteq Nat /\ FirstPlan \subseteq Nodes
    /\ Deps \in [Nodes -> SUBSET Nodes]
    /\ Guarded \cup Async \cup Verifies \subseteq Nodes
    /\ HardToCancel \cup NoCancel \subseteq Async
ASSUME PlanAssumption == \A n \in FirstPlan : Deps[n] \subseteq FirstPlan
ASSUME LimitsAssumption == MaxPlan \in Nat \ {0} /\ MaxFaults \in Nat

VARIABLES
    row,      \* the workflow_runs row
    leased,   \* lease_until > NOW()
    worker,   \* [Workers -> where its tick is, and its copy of the row]
    domain,   \* [Nodes -> the child and the approvals, outside the workflow]
    seen,     \* [Nodes -> plan version under which the outcome was recorded]
    faults

vars == <<row, leased, worker, domain, seen, faults>>

NodeTerminal == {"completed", "failed", "canceled", "blocked"}
NodeStatuses == {"absent", "pending", "running", "waiting_approval", "waiting_execution"} \cup NodeTerminal
RunEnded == {"completed", "failed", "canceled", "inconclusive"}
RunStatuses == {"queued", "running", "waiting_approval", "canceling", "blocked"} \cup RunEnded
Verdicts == {"satisfied", "unsatisfied", "inconclusive"}

(* A node's Invocation: "held" has no success, "open" and "closed" refer to a
   task that was not terminal, or was; "done" is a result without a task.  The
   prepared call and DispatchAttempted are one: "sent". *)
NodeRuns == [st : NodeStatuses, sent : BOOLEAN, inv : {"none", "held", "open", "closed", "done"},
             control : BOOLEAN, verdict : Verdicts]
Fresh(st) == [st |-> st, sent |-> FALSE, inv |-> "none", control |-> FALSE, verdict |-> "inconclusive"]
HasTask(e) == e.inv \in {"open", "closed"}

Rows == [status : RunStatuses, stop : {"none", "user", "failure"}, nodes : [Nodes -> NodeRuns],
         plan : 1 .. MaxPlan, native : BOOLEAN, archive : SUBSET Nodes]
Plan(r) == {n \in Nodes : r.nodes[n].st # "absent"}

ChildAtWork == {"running", "stopping"}
ChildEnded == {"succeeded", "failed", "canceled", "unknown"}
Approvals == {"none", "pending", "approved", "executed", "refused"}
Domains == [child : {"none"} \cup ChildAtWork \cup ChildEnded, call : Approvals, cancel : Approvals]

Idle == [step |-> "idle"]
Decides(x) == x.step \in {"check", "advance"}
Writes(x) == x.step \in {"prepare", "step", "stop", "save"}
Ticks ==
    [step : {"idle"}]
        \cup [step : {"check", "advance"}, fresh : BOOLEAN, stopped : BOOLEAN, failed : BOOLEAN]
        \cup [step : {"stop"}, todo : (SUBSET Nodes) \ {{}}]
        \cup [step : {"prepare", "step"}, node : Nodes]
        \cup [step : {"save"}, status : RunStatuses]

At(w, step) == worker[w].step = step
Become(w, what) == worker' = [worker EXCEPT ![w] = what]
First(S) == CHOOSE n \in S : \A m \in S : n <= m

(* mutant: the version is not compared *)
BugOutdated(x) == IF Decides(x) THEN [x EXCEPT !.fresh = FALSE] ELSE x
(* The row becomes r: every copy is out of date but the one just written, and a
   worker that was to write is refused. *)
Outdated(x) ==
    IF Decides(x) THEN [x EXCEPT !.fresh = FALSE] ELSE Idle
Stored(r) == row' = r /\ worker' = [v \in Workers |-> Outdated(worker[v])]
StoredBy(w, r, what) ==
    /\ row' = r
    /\ worker' = [v \in Workers |-> IF v = w THEN what ELSE Outdated(worker[v])]

-----------------------------------------------------------------------------
(* The domains and the approvals (capability_runtime.go) *)

(* The call takes effect, unless it already has. *)
Effect(n, d) ==
    IF d.child # "none" THEN d
    ELSE [d EXCEPT !.child = IF n \in Async THEN "running" ELSE "succeeded"]

(* capabilityNodeResult on a success whose child is c *)
Results(n, e, c) ==
    IF n \notin Async
    THEN {[e EXCEPT !.inv = "done", !.st = "completed", !.verdict = v] :
            v \in IF n \in Verifies THEN Verdicts ELSE {"inconclusive"}}
    ELSE IF c \in ChildAtWork
    THEN {[e EXCEPT !.inv = "open", !.st = "waiting_execution"]}
    ELSE IF c = "succeeded"
    THEN {[e EXCEPT !.inv = "closed", !.st = "completed", !.verdict = v] :
            v \in IF n \in Verifies THEN Verdicts ELSE {"inconclusive"}}
    ELSE {[e EXCEPT !.inv = "closed", !.st = IF c = "unknown" THEN "blocked" ELSE "failed"]}

(* canceledCapabilityNodeResult *)
CanceledResults(n, e, c) ==
    {IF c \in ChildEnded \ {"unknown"} THEN [r EXCEPT !.st = "canceled"] ELSE r : r \in Results(n, e, c)}

Outcome(e, d) == [node |-> e, dom |-> d]
Blocked(e, d) == Outcome([e EXCEPT !.st = "blocked"], d)

(* InvokeTool on the frozen call: it is held for approval, or takes effect. *)
Invoked(n, e, d) ==
    IF n \in Guarded
    THEN {Outcome([e EXCEPT !.inv = "held", !.st = "waiting_approval"], [d EXCEPT !.call = "pending"])}
    ELSE {Outcome(r, Effect(n, d)) : r \in Results(n, e, Effect(n, d).child)}

(* observeCapabilityApproval; the output kept with an executed approval is the
   child as it was when the call returned. *)
Observed(n, e, d) ==
    IF d.call = "pending"
    THEN {Outcome([e EXCEPT !.st = s], d) : s \in {"waiting_approval", "failed"}}
    ELSE IF d.call = "approved"
    THEN {Outcome(r, [Effect(n, d) EXCEPT !.call = "executed"]) : r \in Results(n, e, Effect(n, d).child)}
    ELSE IF d.call = "executed" THEN {Outcome(r, d) : r \in Results(n, e, "running")}
    ELSE {Outcome([e EXCEPT !.st = "failed"], d)}

(* AdvanceCapabilityNode while the run is not stopped *)
Forward(n, e, d) ==
    {Blocked(e, d)}
        \cup IF HasTask(e) THEN {Outcome(r, d) : r \in Results(n, e, d.child)}
             ELSE IF d.call # "none" THEN Observed(n, e, d)
             ELSE Invoked(n, e, d)

StopAsked(d) == IF d.child = "running" THEN [d EXCEPT !.child = "stopping"] ELSE d
(* cancelCapabilityDomainTask *)
CancelTask(n, e0, d) ==
    LET e == [e0 EXCEPT !.control = TRUE] IN
    {Blocked(e, d)}
        \cup IF d.cancel = "pending" \/ (d.cancel = "none" /\ n \in HardToCancel)
             THEN {Outcome([e EXCEPT !.st = "waiting_approval"], [d EXCEPT !.cancel = "pending"])}
             ELSE IF d.cancel = "none"
             THEN {Outcome(r, StopAsked(d)) : r \in CanceledResults(n, e, StopAsked(d).child)}
             ELSE IF d.cancel = "approved"
             THEN {Outcome(r, [StopAsked(d) EXCEPT !.cancel = "executed"]) :
                     r \in CanceledResults(n, e, StopAsked(d).child)}
             ELSE IF d.cancel = "executed"
             THEN {Outcome(r, d) : r \in CanceledResults(n, e, d.child)}
             ELSE {}

(* recoverCapabilityNodeOnStop: what is known of the call.  A provider may be
   unable to find it again. *)
Recovered(n, e, d) ==
    IF HasTask(e) \/ e.inv = "done" THEN {e}
    ELSE IF d.call = "executed" THEN Results(n, e, "running")
    ELSE {e} \cup IF d.child = "none" THEN {}
                  ELSE {[e EXCEPT !.inv = IF n \notin Async THEN "done"
                                          ELSE IF d.child \in ChildAtWork THEN "open" ELSE "closed"]}

(* AdvanceCapabilityNode, cancelCapabilityNode while the run is stopped *)
Cancel(n, e, d) ==
    {Blocked(e, d)}
        \cup UNION {IF x.inv = "done" \/ (~HasTask(x) /\ d.call = "pending")
                    THEN {Outcome([x EXCEPT !.st = "canceled"], d)}
                    ELSE IF ~HasTask(x) THEN {Blocked(x, d)}
                    ELSE IF x.inv = "closed" \/ n \in NoCancel
                    THEN {Outcome(r, d) : r \in CanceledResults(n, x, d.child)}
                    ELSE CancelTask(n, x, d) : x \in Recovered(n, e, d)}

Advanced(r, n) ==
    IF r.nodes[n].st \in NodeTerminal THEN {Outcome(r.nodes[n], domain[n])}
    ELSE IF r.stop = "none" THEN Forward(n, r.nodes[n], domain[n])
    ELSE Cancel(n, r.nodes[n], domain[n])

-----------------------------------------------------------------------------
(* The run's status (capabilityRunStatus, AssessCapabilityRun) *)

Verdict(r) ==
    LET V == Plan(r) \cap Verifies
        Of(n) == IF r.nodes[n].st = "completed" THEN r.nodes[n].verdict ELSE "inconclusive"
    IN  IF \E n \in V : Of(n) = "unsatisfied" THEN "unsatisfied"
        ELSE IF V = {} \/ \E n \in V : Of(n) # "satisfied" THEN "inconclusive"
        ELSE "satisfied"

Some(r, st) == \E n \in Nodes : r.nodes[n].st = st
Unfinished(r) == {n \in Plan(r) : r.nodes[n].st \notin NodeTerminal}

RunStatus(r) ==
    IF Some(r, "blocked") THEN "blocked"
    ELSE IF Unfinished(r) # {}
    THEN IF r.stop # "none" THEN "canceling"
         ELSE IF Some(r, "waiting_approval") THEN "waiting_approval" ELSE "running"
    ELSE IF Some(r, "failed") \/ r.stop = "failure" THEN "failed"
    ELSE IF r.stop = "user" THEN "canceled"
    ELSE IF Verdict(r) = "satisfied" THEN "completed"
    ELSE IF Verdict(r) = "unsatisfied" THEN "failed" ELSE "inconclusive"

-----------------------------------------------------------------------------
(* The row's operations (repository/workflow) *)

Stoppable == row.status \notin RunEnded /\ (row.stop = "none" \/ row.status = "blocked")
StoppedFor(reason) ==
    [row EXCEPT !.stop = IF @ = "none" THEN reason ELSE @, !.status = "canceling"]

-----------------------------------------------------------------------------
(* A worker's tick (capability_executor.go) *)

Reading(step, r) ==
    [step |-> step, fresh |-> TRUE, stopped |-> r.stop # "none", failed |-> Some(r, "failed")]
OnNode(step, n) == [step |-> step, node |-> n]
Saving(status) == [step |-> "save", status |-> status]
Stopping(r, todo) ==
    IF todo = {} THEN Saving(RunStatus(r)) ELSE [step |-> "stop", todo |-> todo]

(* mutant: a prerequisite only has to have ended *)
BugReady(r) ==
    {n \in Nodes : r.nodes[n].st = "pending" /\ \A d \in Deps[n] : r.nodes[d].st \in NodeTerminal}
(* collectReadyNodes, deliveryNodeReadiness *)
Ready(r) ==
    {n \in Nodes : r.nodes[n].st = "pending" /\ \A d \in Deps[n] : r.nodes[d].st = "completed"}
Active(r) == {n \in Unfinished(r) : r.nodes[n].st # "pending"}

(* advanceCapabilityRun once failed nodes have stopped the run *)
Chosen(r) ==
    IF r.stop # "none" THEN Stopping(r, Unfinished(r))
    ELSE IF Active(r) # {} THEN OnNode("step", First(Active(r)))
    ELSE IF Ready(r) # {} THEN OnNode("prepare", First(Ready(r)))
    ELSE Saving(RunStatus(r))

(* mutant: a canceling run has no work left *)
BugClaimable == row.status \notin RunEnded \cup {"blocked", "canceling"}
Claimable == row.status \notin RunEnded \cup {"blocked"}

ClaimManagedRun(w) ==
    /\ At(w, "idle") /\ ~leased /\ Claimable
    /\ leased' = TRUE
    /\ StoredBy(w, row, Reading("check", row))
    /\ UNCHANGED <<domain, seen, faults>>

(* StopManagedRun: the worker goes on with the row it returns, whoever's lease
   that row carries, unless the identity of the task is refused next. *)
GoesOn(r, authorized) == IF authorized THEN Chosen(r) ELSE Saving("blocked")
StopManagedRun(w, reason, authorized) ==
    /\ IF Stoppable THEN StoredBy(w, StoppedFor(reason), GoesOn(StoppedFor(reason), authorized))
       ELSE Become(w, GoesOn(row, authorized)) /\ UNCHANGED row
    /\ UNCHANGED <<leased, domain, seen, faults>>

(* runCapabilityTick: the parent stopped or the deadline passed; then the identity
   of the task is authorized, or not. *)
Overdue(w) ==
    /\ At(w, "check") /\ ~worker[w].stopped
    /\ \E reason \in {"user", "failure"}, authorized \in BOOLEAN :
         /\ reason = "user" => row.native
         /\ StopManagedRun(w, reason, authorized)

(* The parent or the identity of the task cannot be authorized. *)
Unauthorized(w) ==
    /\ At(w, "check")
    /\ Become(w, IF worker[w].fresh THEN Saving("blocked") ELSE Idle)
    /\ UNCHANGED <<row, leased, domain, seen, faults>>

Proceed(w) ==
    /\ At(w, "check")
    /\ Become(w, IF worker[w].failed /\ ~worker[w].stopped THEN [worker[w] EXCEPT !.step = "advance"]
                 ELSE IF worker[w].fresh THEN Chosen(row)
                 ELSE Idle)
    /\ UNCHANGED <<row, leased, domain, seen, faults>>

StopOnFailure(w) == At(w, "advance") /\ StopManagedRun(w, "failure", TRUE)

(* UpdateCapabilityNode: one node of the locked row is replaced. *)
WithNode(e, n) == [row EXCEPT !.nodes[n] = e]
Resolved(e) == e.inv \in {"closed", "done"}
Recorded(n, e) ==
    seen' = IF Resolved(e) /\ ~Resolved(row.nodes[n]) THEN [seen EXCEPT ![n] = row.plan] ELSE seen

PrepareCapabilityNode(w) ==
    /\ At(w, "prepare") /\ leased /\ row.stop = "none"
    /\ LET n == worker[w].node
           e == row.nodes[n]
       IN  \E x \in {[e EXCEPT !.st = "running", !.sent = TRUE], [e EXCEPT !.st = "blocked"]} :
             StoredBy(w, WithNode(x, n), OnNode("step", n))
    /\ UNCHANGED <<leased, domain, seen, faults>>

AdvanceCapabilityNode(w) ==
    /\ At(w, "step") /\ leased
    /\ LET n == worker[w].node IN
       \E o \in Advanced(row, n) :
         LET r == WithNode(o.node, n) IN
         /\ StoredBy(w, r, Saving(RunStatus(r)))
         /\ domain' = [domain EXCEPT ![n] = o.dom]
         /\ Recorded(n, o.node)
    /\ UNCHANGED <<leased, faults>>

CancelCapabilityNode(w) ==
    /\ At(w, "stop") /\ leased
    /\ LET n == First(worker[w].todo)
           e == row.nodes[n]
       IN  \E o \in IF ~e.sent THEN {Outcome([e EXCEPT !.st = "canceled"], domain[n])}
                    ELSE Advanced(row, n) :
             LET r == WithNode(o.node, n) IN
             /\ StoredBy(w, r, Stopping(r, worker[w].todo \ {n}))
             /\ domain' = [domain EXCEPT ![n] = o.dom]
             /\ Recorded(n, o.node)
    /\ UNCHANGED <<leased, faults>>

SaveManagedRun(w) ==
    /\ At(w, "save") /\ leased
    /\ leased' = FALSE
    /\ StoredBy(w, [row EXCEPT !.status = worker[w].status], Idle)
    /\ UNCHANGED <<domain, seen, faults>>

(* The lease is over: the write is refused and the tick ends. *)
Conflict(w) ==
    /\ Writes(worker[w]) /\ ~leased
    /\ Become(w, Idle)
    /\ UNCHANGED <<row, leased, domain, seen, faults>>

-----------------------------------------------------------------------------
(* What goes wrong *)

(* The lease of a worker that is gone ends by itself; that of a tick, which gives
   up after three quarters of it, only if the worker was held up. *)
AtLarge(w) == Writes(worker[w]) \/ (Decides(worker[w]) /\ worker[w].fresh)
Expire ==
    /\ leased /\ leased' = FALSE
    /\ IF \E w \in Workers : AtLarge(w) THEN faults < MaxFaults /\ faults' = faults + 1
       ELSE UNCHANGED faults
    /\ UNCHANGED <<row, worker, domain, seen>>

(* The worker dies, or defers the run because of an error. *)
Crash(w) ==
    /\ ~At(w, "idle") /\ faults < MaxFaults
    /\ Become(w, Idle)
    /\ faults' = faults + 1
    /\ UNCHANGED <<row, leased, domain, seen>>

Target(w) == IF At(w, "step") THEN worker[w].node ELSE First(worker[w].todo)

(* The calls were made, the row is not written. *)
CrashAfterCall(w) ==
    /\ At(w, "step") \/ (At(w, "stop") /\ row.nodes[Target(w)].sent)
    /\ leased /\ faults < MaxFaults
    /\ \E o \in Advanced(row, Target(w)) : domain' = [domain EXCEPT ![Target(w)] = o.dom]
    /\ Become(w, Idle)
    /\ faults' = faults + 1
    /\ UNCHANGED <<row, leased, seen>>

(* executeApprovedCapability fails (failApprovedApprovalRequest): it was denied,
   or the call's answer was an error whether it had its effect or not. *)
Failures(n, d) ==
    (IF d.call \in {"pending", "approved"}
     THEN {[d EXCEPT !.call = "refused"], [Effect(n, d) EXCEPT !.call = "refused"]} ELSE {})

ApprovedCallFails(w) ==
    /\ At(w, "step") /\ leased
    /\ LET n == worker[w].node IN
       /\ row.nodes[n].st \notin NodeTerminal /\ ~HasTask(row.nodes[n])
       /\ domain[n].call = "approved"
       /\ \E d \in Failures(n, domain[n]) : domain' = [domain EXCEPT ![n] = d]
    /\ Become(w, Idle)
    /\ UNCHANGED <<row, leased, seen, faults>>

(* The same of an approved cancel call: the tick is deferred, and the next one
   finds an approval that did not execute. *)
ApprovedCancelFails(w) ==
    /\ At(w, "stop") /\ leased
    /\ LET n == First(worker[w].todo)
           e == row.nodes[n]
           d == domain[n]
       IN  /\ e.sent /\ e.st \notin NodeTerminal /\ n \notin NoCancel
           /\ d.cancel = "approved" /\ \E x \in Recovered(n, e, d) : x.inv = "open"
           /\ \E x \in {d, StopAsked(d)} : domain' = [domain EXCEPT ![n] = [x EXCEPT !.cancel = "refused"]]
    /\ Become(w, Idle)
    /\ UNCHANGED <<row, leased, seen, faults>>

-----------------------------------------------------------------------------
(* Users and approvers *)

CancelCapabilityTask ==
    /\ Stoppable
    /\ Stored(StoppedFor("user"))
    /\ UNCHANGED <<leased, domain, seen, faults>>

(* mutant: the approver does not look at the stop reason *)
BugApprovable(n) ==
    /\ row.status \notin RunEnded \cup {"blocked"}
    /\ row.nodes[n].sent /\ row.nodes[n].st \in {"waiting_approval", "running"}
(* WithCapabilityApproval, matchingCapabilityApprovalNode *)
Approvable(n) ==
    /\ row.stop = "none" /\ row.status \notin RunEnded \cup {"blocked"}
    /\ row.nodes[n].sent /\ row.nodes[n].st \in {"waiting_approval", "running"}

(* approveApprovalRequest: approved, called and executed under the row's lock; it
   may die after the approval, or after the call. *)
Approve(n) ==
    /\ domain[n].call = "pending" /\ Approvable(n)
    /\ \/ /\ \E d \in {[Effect(n, domain[n]) EXCEPT !.call = "executed"],
                       [domain[n] EXCEPT !.call = "refused"]} :
               domain' = [domain EXCEPT ![n] = d]
          /\ UNCHANGED faults
       \/ /\ faults < MaxFaults /\ faults' = faults + 1
          /\ \E d \in {[domain[n] EXCEPT !.call = "approved"], [Effect(n, domain[n]) EXCEPT !.call = "approved"]}
                        \cup Failures(n, domain[n]) :
               domain' = [domain EXCEPT ![n] = d]
    /\ UNCHANGED <<row, leased, worker, seen>>

ApproveCancel(n) ==
    /\ domain[n].cancel = "pending"
    /\ row.stop # "none" /\ row.status \notin RunEnded
    /\ row.nodes[n].control /\ HasTask(row.nodes[n])
    /\ \/ /\ \E d \in {[StopAsked(domain[n]) EXCEPT !.cancel = "executed"],
                       [domain[n] EXCEPT !.cancel = "refused"]} :
               domain' = [domain EXCEPT ![n] = d]
          /\ UNCHANGED faults
       \/ /\ faults < MaxFaults /\ faults' = faults + 1
          /\ \E d \in {domain[n], StopAsked(domain[n])}, a \in {"approved", "refused"} :
               domain' = [domain EXCEPT ![n] = [d EXCEPT !.cancel = a]]
    /\ UNCHANGED <<row, leased, worker, seen>>

(* Rejected, canceled, or not decided in time *)
Refuse(n) ==
    /\ \/ /\ domain[n].call = "pending" /\ domain' = [domain EXCEPT ![n].call = "refused"]
       \/ /\ domain[n].cancel = "pending" /\ domain' = [domain EXCEPT ![n].cancel = "refused"]
    /\ UNCHANGED <<row, leased, worker, seen, faults>>

(* The domain's task goes on by itself. *)
ChildEnds(n) ==
    /\ domain[n].child \in ChildAtWork
    /\ \E c \in ChildEnded :
         /\ c = "canceled" => domain[n].child = "stopping"
         /\ domain' = [domain EXCEPT ![n].child = c]
    /\ UNCHANGED <<row, leased, worker, seen, faults>>

(* capabilityChildUnresolved *)
Pending(e) == e.sent /\ ~Resolved(e)
(* mutant: only earlier plans are archived *)
BugArchived == row.archive
Archived == row.archive \cup {n \in Plan(row) : row.nodes[n].sent /\ Resolved(row.nodes[n])}

(* mutant: an unresolved step may be left out *)
BugRevisable(P) ==
    /\ P # {} /\ \A n \in P : Deps[n] \subseteq P
    /\ P \cap Verifies \cap Archived = {}
(* validateCapabilityRevision: unresolved steps stay, and are not being canceled;
   verification needs new evidence *)
Revisable(P) ==
    /\ P # {} /\ \A n \in P : Deps[n] \subseteq P
    /\ \A n \in Plan(row) : Pending(row.nodes[n]) => n \in P /\ ~row.nodes[n].control
    /\ P \cap Verifies \cap Archived = {}

(* reviseCapabilityRun *)
Revised(P) ==
    [n \in Nodes |->
        IF n \notin P THEN Fresh("absent")
        ELSE IF n \notin Plan(row) THEN Fresh("pending")
        ELSE IF row.nodes[n].st = "blocked"
        THEN [row.nodes[n] EXCEPT !.st = IF row.nodes[n].sent THEN "running" ELSE "pending"]
        ELSE row.nodes[n]]

ResumeCapabilityTask ==
    /\ row.status \in RunEnded \cup {"blocked"} /\ ~leased
    /\ ~row.native /\ row.plan < MaxPlan
    /\ \E P \in SUBSET Nodes :
         /\ Revisable(P)
         /\ Stored([row EXCEPT !.status = "queued", !.stop = "none", !.nodes = Revised(P),
                               !.plan = row.plan + 1, !.archive = Archived])
    /\ UNCHANGED <<leased, domain, seen, faults>>

-----------------------------------------------------------------------------
(* createCapabilityTask *)
Init ==
    /\ \E b \in BOOLEAN :
         row = [status |-> "queued", stop |-> "none", plan |-> 1, native |-> b, archive |-> {},
                nodes |-> [n \in Nodes |-> Fresh(IF n \in FirstPlan THEN "pending" ELSE "absent")]]
    /\ leased = FALSE
    /\ worker = [w \in Workers |-> Idle]
    /\ domain = [n \in Nodes |-> [child |-> "none", call |-> "none", cancel |-> "none"]]
    /\ seen = [n \in Nodes |-> 0]
    /\ faults = 0

Tick(w) ==
    \/ Overdue(w) \/ Unauthorized(w) \/ Proceed(w) \/ StopOnFailure(w)
    \/ PrepareCapabilityNode(w) \/ AdvanceCapabilityNode(w) \/ CancelCapabilityNode(w)
    \/ SaveManagedRun(w) \/ Conflict(w)

Next ==
    \/ \E w \in Workers :
         \/ ClaimManagedRun(w) \/ Tick(w) \/ Crash(w) \/ CrashAfterCall(w)
         \/ ApprovedCallFails(w) \/ ApprovedCancelFails(w)
    \/ \E n \in Nodes : Approve(n) \/ ApproveCancel(n) \/ Refuse(n) \/ ChildEnds(n)
    \/ Expire \/ CancelCapabilityTask \/ ResumeCapabilityTask

Spec == Init /\ [][Next]_vars

(* Workers poll; leases and pending approvals run out; a task that was asked to
   stop ends, and so does one that nobody can ask.  Any other may run for ever. *)
Fairness ==
    /\ \A w \in Workers : WF_vars(ClaimManagedRun(w)) /\ WF_vars(Tick(w))
    /\ WF_vars(Expire)
    /\ \A n \in Nodes :
         /\ WF_vars(Refuse(n))
         /\ WF_vars((domain[n].child = "stopping" \/ n \in NoCancel) /\ ChildEnds(n))

FairSpec == Spec /\ Fairness

-----------------------------------------------------------------------------
TypeOK ==
    /\ row \in Rows /\ leased \in BOOLEAN
    /\ worker \in [Workers -> Ticks]
    /\ domain \in [Nodes -> Domains]
    /\ seen \in [Nodes -> 0 .. MaxPlan]
    /\ faults \in 0 .. MaxFaults

(* An approved call that was carried out and answered with an error: the approval
   says failed, and so does the node. *)
AnswerLost(n) == domain[n].call = "refused"

(* A child that is at work is never forgotten: the plan still has its step, the
   step is marked as dispatched, and it has not ended, or is blocked.  So an ended
   run has no child at work, whoever stopped, revised or took over the run
   (advanceCapabilityRun, recoverCapabilityNodeOnStop, validateCapabilityRevision). *)
NothingForgotten ==
    \A n \in Nodes :
        domain[n].child \in ChildAtWork /\ ~AnswerLost(n) =>
            /\ row.nodes[n].sent
            /\ row.nodes[n].st \notin {"absent", "pending", "completed", "failed", "canceled"}
            /\ row.status \notin RunEnded

(* A completed run was verified by every verification step of its plan, each with
   a result recorded under that plan, and nothing in it failed
   (capabilityRunStatus, AssessCapabilityRun, validateCapabilityRevision). *)
CompletedIsVerified ==
    row.status = "completed" =>
        LET V == Plan(row) \cap Verifies IN
        /\ V # {}
        /\ \A n \in V : domain[n].child = "succeeded" /\ seen[n] = row.plan
        /\ \A n \in Plan(row) : row.nodes[n].st \in {"completed", "canceled"}

(* A node and its child: no result without an effect, no end without the child's. *)
NodeInv(n, e, d) ==
    /\ ~e.sent => e.inv = "none" /\ e.st \in {"absent", "pending", "blocked", "canceled"}
    /\ e.sent => e.st \notin {"absent", "pending"}
    /\ n \notin Async => d.child \in {"none", "succeeded"}
    /\ d.call # "none" => n \in Guarded
    /\ n \in Guarded /\ d.call \in {"none", "pending"} => d.child = "none"
    /\ d.call = "executed" => d.child # "none"
    /\ e.inv = "open" => n \in Async /\ d.child # "none"
    /\ e.inv = "closed" => n \in Async /\ d.child \in ChildEnded
    /\ e.inv = "done" => n \notin Async /\ d.child = "succeeded"
    /\ e.st = "completed" => Resolved(e) /\ d.child = "succeeded"
    /\ d.child \in ChildAtWork /\ d.call # "refused" =>
          e.sent /\ e.st \notin {"completed", "failed", "canceled"}

(* What a worker goes by is true of the row r. *)
WorkerInv(x, r) ==
    /\ Decides(x) /\ x.fresh => x.stopped = (r.stop # "none") /\ x.failed = Some(r, "failed")
    /\ x.step \in {"prepare", "step"} => r.stop = "none"
    /\ x.step = "prepare" => x.node \in Ready(r)
    /\ x.step = "step" => r.nodes[x.node].st \notin {"absent", "pending"}
    /\ x.step = "stop" => r.stop # "none" /\ x.todo \subseteq Unfinished(r)
    /\ x.step = "save" => x.status \in {RunStatus(r), "blocked"}

(* A dispatched node's prerequisites are completed, and stay so: revised plans keep
   what a kept step depends on. *)
NodesSound ==
    \A n \in Nodes :
        /\ NodeInv(n, row.nodes[n], domain[n])
        /\ row.nodes[n].sent => \A d \in Deps[n] : row.nodes[d].st = "completed"
        /\ row.nodes[n].st # "absent" => \A d \in Deps[n] : row.nodes[d].st # "absent"
        /\ n \in Verifies /\ Resolved(row.nodes[n]) => seen[n] = row.plan

StatusSound ==
    /\ leased => Claimable
    /\ row.status \in RunEnded => row.status = RunStatus(row)

(* The inductive invariant. *)
IInv == TypeOK /\ NodesSound /\ StatusSound /\ \A w \in Workers : WorkerInv(worker[w], row)

(* Once a stop is recorded no call of the plan takes effect for the first time,
   through a worker or through an approval (UpdateCapabilityNode,
   WithCapabilityApproval, recoverCapabilityNodeOnStop). *)
StoppedStartsNothing ==
    [][row.stop # "none" =>
         \A n \in Nodes : domain[n].child = "none" => domain'[n].child = "none"]_vars

(* A call takes effect only when all steps it depends on are completed
   (collectReadyNodes; the approver checks no prerequisite). *)
PrerequisitesFirst ==
    [][\A n \in Nodes : domain[n].child = "none" /\ domain'[n].child # "none" =>
         \A d \in Deps[n] : row.nodes[d].st = "completed"]_vars

(* A stopped run ends, blocks, or is resumed. *)
StopEnds ==
    row.stop # "none" ~> (row.status \in RunEnded \cup {"blocked"} \/ row.stop = "none")

=============================================================================
