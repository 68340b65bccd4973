----------------------- MODULE DockerOperationProofs -----------------------
(***************************************************************************)
(* DockerOperation for any operations, runners, requests and retries: one  *)
(* active operation per project, no commands of a token behind an ended    *)
(* row, and no end that the attempt did not earn.                          *)
(***************************************************************************)
EXTENDS DockerOperation, TLAPS

(* The shapes of a request's state. *)
LEMMA CallTypes ==
    /\ Idle \in Calls
    /\ \A o \in Ops, w \in Workers : [step |-> "claim", op |-> o, worker |-> w] \in Calls
    /\ \A o \in Ops, item \in Rows, fresh \in BOOLEAN :
          [step |-> "authorize", op |-> o, item |-> item, fresh |-> fresh] \in Calls
    /\ \A o \in Ops, item \in Rows, fresh \in BOOLEAN, then \in {"end", "touch", "apply"} :
          [step |-> "write", op |-> o, item |-> item, fresh |-> fresh, then |-> then] \in Calls
    /\ \A status \in OpTerminal : [step |-> "apply", status |-> status] \in Calls
BY DEF Idle, Calls

LEMMA ReadCalls ==
    ASSUME TypeOK, NEW h \in Handlers
    PROVE  /\ call[h] \in Calls
           /\ At(h, "claim") => call[h].op \in Ops /\ call[h].worker \in Workers
           /\ At(h, "authorize") => /\ call[h].op \in Ops /\ call[h].item \in Rows
                                    /\ call[h].fresh \in BOOLEAN
           /\ At(h, "write") => /\ call[h].op \in Ops /\ call[h].item \in Rows
                                /\ call[h].fresh \in BOOLEAN
                                /\ call[h].then \in {"end", "touch", "apply"}
           /\ At(h, "apply") => call[h].status \in OpTerminal
BY DEF TypeOK, Calls, At

LEMMA ReadRows ==
    ASSUME TypeOK, NEW o \in Ops
    PROVE  /\ op[o] \in Rows
           /\ op[o].attempt \in Nat /\ op[o].token \in Nat
           /\ \A a \in Attempts : a \in Nat \ {0} /\ job[o][a] \in Jobs /\ job[o][a].token \in Nat
BY LimitsAssumption DEF TypeOK, Rows, Jobs, Tokens, Attempts

LEMMA ToWriteType ==
    ASSUME NEW o \in Ops, NEW item \in Rows, NEW then \in {"end", "touch", "apply"}
    PROVE  ToWrite(o, item, then) \in Calls
BY CallTypes DEF ToWrite

(* Whose row is it?  Nobody's with a token, unless it is active under one. *)
LEMMA Unowned ==
    ASSUME IInv, NEW o \in Ops, op[o].status \notin OpActive \/ op[o].token = 0
    PROVE  NoOwner(o)
<1>1. ASSUME NEW a \in Attempts, job[o][a].token # 0
      PROVE  job[o][a].state \notin JobAtWork
  BY <1>1, ReadRows DEF IInv, AtWorkOwns, Owns
<1>2. ASSUME NEW h \in Handlers, At(h, "authorize"), call[h].op = o
      PROVE  call[h].item.token = 0
  BY <1>2, ReadRows, ReadCalls DEF IInv, Answering, Owns, Attempts
<1> QED BY <1>1, <1>2 DEF NoOwner

LEMMA InitInductive == Init => IInv
<1> SUFFICES ASSUME Init PROVE IInv
  OBVIOUS
<1>1. TypeOK
  <2>1. 0 \in Tokens /\ 0 \in 0 .. MaxFaults
    BY LimitsAssumption DEF Tokens
  <2>2. op \in [Ops -> Rows]
    BY <2>1 DEF Init, Rows
  <2>3. job \in [Ops -> [Attempts -> Jobs]]
    BY <2>1 DEF Init, Jobs
  <2>4. call \in [Handlers -> Calls]
    BY CallTypes DEF Init
  <2> QED BY <2>1, <2>2, <2>3, <2>4 DEF Init, TypeOK, ProjectStatuses
<1>2. OneActive /\ EndedIsEarned
  BY DEF Init, OneActive, EndedIsEarned, OpActive, OpTerminal
<1>3. RowsAreSound
  <2>1. \A o \in Ops : \A a \in Attempts : job[o][a].state = "none"
    BY DEF Init
  <2>2. \A o \in Ops : op[o] = [status |-> "queued", worker |-> NoWorker, token |-> 0, attempt |-> 0]
    BY DEF Init
  <2>3. 0 <= DefaultRetries /\ "queued" \notin OpActive
    BY LimitsAssumption DEF OpActive
  <2> SUFFICES ASSUME NEW o \in Ops
               PROVE  /\ op[o].worker = NoWorker /\ op[o].token = 0
                      /\ op[o].attempt <= DefaultRetries /\ op[o].status \notin OpActive
                      /\ \A a \in Attempts : job[o][a].state = "none"
    BY DEF RowsAreSound
  <2> QED BY <2>1, <2>2, <2>3
<1>4. AtWorkOwns
  BY DEF Init, AtWorkOwns, JobAtWork
<1>5. \A h \in Handlers : Claiming(h) /\ Answering(h) /\ Writing(h)
  BY DEF Init, Claiming, Answering, Writing, At, Idle
<1> QED BY <1>1, <1>2, <1>3, <1>4, <1>5 DEF IInv

-----------------------------------------------------------------------------
(* A step in which one request moves and the rows and the runners stay. *)
LEMMA CallMoves ==
    ASSUME IInv, NEW h \in Handlers, NEW what \in Calls, Become(h, what),
           UNCHANGED <<op, job>>, TypeOK',
           what.step # "authorize", Claiming(h)', Writing(h)',
           what.step = "claim" => ~Locked(what.op)
    PROVE  IInv'
<1>1. call'[h] = what /\ \A g \in Handlers : g # h => call'[g] = call[g]
  BY DEF IInv, TypeOK, Become
<1>2. (OneActive /\ EndedIsEarned /\ RowsAreSound /\ AtWorkOwns)'
  BY DEF IInv, OneActive, EndedIsEarned, Earned, RowsAreSound, AtWorkOwns, Owns
<1>3. \A g \in Handlers : At(g, "authorize")' => g # h /\ At(g, "authorize") /\ call'[g] = call[g]
  BY <1>1 DEF At
<1>4. ASSUME NEW g \in Handlers, g # h
      PROVE  (Claiming(g) /\ Answering(g) /\ Writing(g))'
  <2>0. Claiming(g) /\ Answering(g) /\ Writing(g) /\ call'[g] = call[g]
    BY <1>1, <1>4 DEF IInv
  <2>1. Claiming(g)'
    <3> SUFFICES ASSUME At(g, "claim"), At(h, "claim")', what.op = call[g].op
                 PROVE  FALSE
      BY <1>1, <2>0 DEF Claiming, At
    <3> QED BY <1>1 DEF At, Locked
  <2>2. Answering(g)'
    BY <1>3, <2>0 DEF Answering, At, Owns
  <2>3. \A o \in Ops : NoOwner(o) => NoOwner(o)'
    BY <1>3 DEF NoOwner
  <2>4. Writing(g)'
    <3> SUFFICES ASSUME At(g, "write") PROVE Writing(g)'
      BY <2>0 DEF Writing, At
    <3>1. call[g].op \in Ops
      BY ReadCalls DEF IInv
    <3> QED BY <2>0, <2>3, <3>1 DEF Writing, At, Earned
  <2> QED BY <2>1, <2>2, <2>4
<1>5. Answering(h)'
  BY <1>1 DEF Answering, At
<1> QED BY <1>2, <1>4, <1>5 DEF IInv

(* A handler reads a row and prepares its write: who may write what. *)
LEMMA ReadKeeps ==
    ASSUME IInv, NEW h \in Handlers, NEW o \in Ops, NEW item \in Rows,
           NEW then \in {"end", "touch", "apply"},
           Become(h, ToWrite(o, item, then)),
           UNCHANGED <<op, job, allowed, runOpen, project, faults>>,
           item.attempt = op[o].attempt,
           item.status = "queued" => /\ item.worker = NoWorker /\ item.token = 0
                                     /\ item.attempt <= DefaultRetries,
           then = "touch" => item.status = "canceling",
           then = "apply" => item.status \in OpTerminal,
           item.status # "queued" => item.worker = op[o].worker /\ item.token = op[o].token,
           item.status \in OpActive => op[o].status \in {"running", item.status},
           item.status \notin OpActive => NoOwner(o),
           item.status \in OpTerminal /\ item.token # 0 => Earned(o, item.status, item.attempt)
    PROVE  IInv'
<1> DEFINE what == ToWrite(o, item, then)
<1>1. what \in Calls /\ what.step = "write" /\ call'[h] = what
  BY ToWriteType DEF ToWrite, Become, IInv, TypeOK
<1>2. TypeOK'
  BY <1>1 DEF IInv, TypeOK, Become
<1>3. Claiming(h)'
  BY <1>1 DEF Claiming, At
<1>4. NoOwner(o) => NoOwner(o)'
  BY <1>1 DEF NoOwner, At, Become, IInv, TypeOK
<1>5. Writing(h)'
  BY <1>1, <1>4 DEF Writing, At, ToWrite, Earned
<1> QED BY <1>1, <1>2, <1>3, <1>5, CallMoves

(* CancelOperation *)
LEMMA CancelKeeps ==
    ASSUME IInv, NEW h \in Handlers, NEW o \in Ops, CancelOperation(h, o)
    PROVE  IInv'
<1>1. op[o] \in Rows /\ RowsAreSound
  BY ReadRows DEF IInv
<1>2. Canceled(op[o]) \in Rows
  BY <1>1 DEF Canceled, Rows, OpActive, OpTerminal
<1>3. Canceled(op[o]).status = "canceled" => NoOwner(o) /\ op[o].token = 0
  BY <1>1, Unowned DEF Canceled, Rows, OpActive, RowsAreSound
<1> QED
  BY <1>1, <1>2, <1>3, ReadKeeps DEF CancelOperation, Canceled, Rows, OpActive, OpTerminal, RowsAreSound

(* RetryOperation *)
LEMMA RetryKeeps ==
    ASSUME IInv, NEW h \in Handlers, NEW o \in Ops, RetryOperation(h, o)
    PROVE  IInv'
<1> DEFINE item == [op[o] EXCEPT !.status = "queued", !.worker = NoWorker, !.token = 0]
<1>1. op[o] \in Rows /\ op[o].status \notin OpActive
  BY ReadRows DEF IInv, RetryOperation, OpActive
<1>2. item \in Rows /\ item.status = "queued" /\ item.worker = NoWorker /\ item.token = 0
        /\ item.attempt = op[o].attempt
  BY <1>1 DEF Rows, Tokens
<1>3. op[o].attempt <= DefaultRetries
  BY LimitsAssumption DEF RetryOperation, RetryLimit, MaxRetries
<1>4. NoOwner(o)
  BY <1>1, Unowned
<1> HIDE DEF item
<1>5. Become(h, ToWrite(o, item, "end")) /\ UNCHANGED <<op, job, allowed, runOpen, project, faults>>
  BY DEF RetryOperation, item
<1> QED BY <1>2, <1>3, <1>4, <1>5, ReadKeeps DEF OpActive, OpTerminal

(* stopUnauthorizedOperation prepares a stop. *)
LEMMA ToStopKeeps ==
    ASSUME IInv, NEW h \in Handlers, NEW o \in Ops, NEW then \in {"end", "touch"},
           Unauthorized(o), Become(h, ToStop(o, then)),
           UNCHANGED <<op, job, allowed, runOpen, project, faults>>
    PROVE  IInv'
<1> DEFINE item == [op[o] EXCEPT !.status = "canceling"]
<1>1. op[o] \in Rows /\ op[o].status = "running"
  BY ReadRows DEF IInv, Unauthorized
<1>2. item \in Rows /\ item.status = "canceling" /\ item.worker = op[o].worker
        /\ item.token = op[o].token /\ item.attempt = op[o].attempt
  BY <1>1 DEF Rows, OpActive
<1> HIDE DEF item
<1>3. Become(h, ToWrite(o, item, then))
  BY DEF ToStop, item
<1> QED BY <1>1, <1>2, <1>3, ReadKeeps DEF OpActive, OpTerminal

(* A heartbeat that changes nothing writes the row as it read it. *)
LEMMA SameKeeps ==
    ASSUME IInv, NEW h \in Handlers, NEW o \in Ops, op[o].status \notin OpTerminal,
           Become(h, ToWrite(o, op[o], "end")),
           UNCHANGED <<op, job, allowed, runOpen, project, faults>>
    PROVE  IInv'
<1>1. op[o] \in Rows /\ RowsAreSound
  BY ReadRows DEF IInv
<1>2. op[o].status \notin OpActive => NoOwner(o)
  BY Unowned
<1> QED BY <1>1, <1>2, ReadKeeps DEF Rows, OpActive, OpTerminal, RowsAreSound

(* RecordOperationCallback of an end *)
LEMMA CallbackKeeps ==
    ASSUME IInv, NEW h \in Handlers, NEW o \in Ops, NEW a \in Attempts,
           RecordOperationCallback(h, o, a)
    PROVE  IInv'
<1> DEFINE item == [op[o] EXCEPT !.status = Reported(job[o][a].state)]
<1>1. op[o] \in Rows /\ RowsAreSound /\ AtWorkOwns /\ op[o].status \notin OpTerminal
  BY ReadRows DEF IInv, RecordOperationCallback
<1>2. Reported(job[o][a].state) \in OpTerminal
  BY DEF Reported, OpTerminal
<1>3. item \in Rows /\ item.status = Reported(job[o][a].state) /\ item.worker = op[o].worker
        /\ item.token = op[o].token /\ item.attempt = op[o].attempt
  BY <1>1, <1>2 DEF Rows
<1>4. NoOwner(o) /\ (op[o].token # 0 => Earned(o, item.status, op[o].attempt))
  <2>1. CASE op[o].token = 0
    BY <2>1, Unowned
  <2>2. CASE op[o].token # 0
    <3>1. a = op[o].attempt /\ job[o][a].token # 0
      BY <1>1, <2>2 DEF RecordOperationCallback, Accepts, AtWorkOwns, RowsAreSound
    <3>2. job[o][a].state \in JobEnded
      BY <1>1, <2>2, <3>1
         DEF RecordOperationCallback, Acknowledged, AtWorkOwns, JobAtWork, Rows, OpTerminal, OpActive
    <3>3. ASSUME NEW b \in Attempts, job[o][b].token # 0
          PROVE  job[o][b].state \notin JobAtWork
      BY <1>1, <3>1, <3>2, <3>3 DEF AtWorkOwns, Owns, JobEnded, JobAtWork
    <3>4. ASSUME NEW g \in Handlers, At(g, "authorize"), call[g].op = o
          PROVE  call[g].item.token = 0
      BY <3>1, <3>2, <3>4 DEF IInv, Answering, Owns, JobEnded
    <3> QED BY <1>3, <3>1, <3>2, <3>3, <3>4 DEF NoOwner, Earned
  <2> QED BY <2>1, <2>2
<1> HIDE DEF item
<1>5. Become(h, ToWrite(o, item, "apply")) /\ UNCHANGED <<op, job, allowed, runOpen, project, faults>>
  BY DEF RecordOperationCallback, item
<1> QED BY <1>2, <1>3, <1>4, <1>5, ReadKeeps DEF OpActive, OpTerminal

(* A request ends, or goes on to something that is no copy of a row. *)
LEMMA EndKeeps ==
    ASSUME IInv, NEW h \in Handlers, Become(h, Idle), UNCHANGED <<op, job>>, TypeOK'
    PROVE  IInv'
<1>1. Idle \in Calls /\ Idle.step = "idle" /\ call'[h] = Idle
  BY CallTypes DEF Idle, Become, IInv, TypeOK
<1>2. Claiming(h)' /\ Writing(h)'
  BY <1>1 DEF Claiming, Writing, At
<1> QED BY <1>1, <1>2, CallMoves

LEMMA SelectKeeps ==
    ASSUME IInv, NEW h \in Handlers, NEW w \in Workers, SelectOperation(h, w)
    PROVE  IInv'
<1>1. PICK o \in Ops : /\ Claimable(o, w)
                       /\ Become(h, [step |-> "claim", op |-> o, worker |-> w])
  BY DEF SelectOperation
<1> DEFINE what == [step |-> "claim", op |-> o, worker |-> w]
<1>2. what \in Calls /\ what.step = "claim" /\ what.op = o
  BY CallTypes
<1> HIDE DEF what
<1>3. call'[h] = what /\ \A g \in Handlers : g # h => call'[g] = call[g]
  BY <1>1 DEF Become, IInv, TypeOK, what
<1>4. Become(h, what) /\ UNCHANGED <<op, job, allowed, runOpen, project, faults>>
  BY <1>1 DEF what, SelectOperation
<1>5. TypeOK'
  BY <1>2, <1>4 DEF IInv, TypeOK, Become
<1>6. Claiming(h)'
  BY <1>1, <1>2, <1>3, <1>4 DEF Claiming, At, Claimable, Locked
<1>7. Writing(h)'
  BY <1>2, <1>3 DEF Writing, At
<1> QED BY <1>1, <1>2, <1>4, <1>5, <1>6, <1>7, CallMoves DEF Claimable

(* The row of o was written: what becomes of the other requests. *)
LEMMA StoredCalls ==
    ASSUME IInv, NEW h \in Handlers, NEW o \in Ops, NEW item \in Rows, NEW what \in Calls,
           Stored(h, o, item, what)
    PROVE  /\ op' \in [Ops -> Rows] /\ op'[o] = item /\ \A p \in Ops : p # o => op'[p] = op[p]
           /\ call'[h] = what
           /\ call' \in [Handlers -> Calls]
           /\ \A g \in Handlers : g # h =>
                 /\ call'[g].step = call[g].step
                 /\ call[g].step \notin {"authorize", "write"} => call'[g] = call[g]
                 /\ Holds(g, o) => /\ ~call'[g].fresh /\ call'[g].op = o
                                   /\ call'[g].item = call[g].item
                                   /\ At(g, "write") => call'[g].then = call[g].then
                 /\ ~Holds(g, o) => call'[g] = call[g]
<1>1. op' \in [Ops -> Rows] /\ op'[o] = item /\ \A p \in Ops : p # o => op'[p] = op[p]
  BY DEF Stored, IInv, TypeOK
<1>2. call'[h] = what
  BY DEF Stored
<1>3. ASSUME NEW g \in Handlers, g # h
      PROVE  /\ call'[g] \in Calls
             /\ call'[g].step = call[g].step
             /\ call[g].step \notin {"authorize", "write"} => call'[g] = call[g]
             /\ Holds(g, o) => /\ ~call'[g].fresh /\ call'[g].op = o
                               /\ call'[g].item = call[g].item
                               /\ At(g, "write") => call'[g].then = call[g].then
             /\ ~Holds(g, o) => call'[g] = call[g]
  <2>1. CASE ~Holds(g, o)
    <3>1. call'[g] = call[g]
      BY <1>3, <2>1 DEF Stored
    <3> QED BY <2>1, <3>1, ReadCalls DEF IInv
  <2>2. CASE Holds(g, o) /\ At(g, "authorize")
    <3>1. call'[g] = [call[g] EXCEPT !.fresh = FALSE]
      BY <1>3, <2>2 DEF Stored
    <3>2. call[g] \in [step : {"authorize"}, op : Ops, item : Rows, fresh : BOOLEAN]
      BY <2>2, ReadCalls DEF IInv, At, Calls
    <3> QED BY <2>2, <3>1, <3>2 DEF Calls, Holds, At
  <2>3. CASE Holds(g, o) /\ At(g, "write")
    <3>1. call'[g] = [call[g] EXCEPT !.fresh = FALSE]
      BY <1>3, <2>3 DEF Stored
    <3>2. call[g] \in [step : {"write"}, op : Ops, item : Rows, fresh : BOOLEAN,
                       then : {"end", "touch", "apply"}]
      BY <2>3, ReadCalls DEF IInv, At, Calls
    <3> QED BY <2>3, <3>1, <3>2 DEF Calls, Holds, At
  <2> QED BY <2>1, <2>2, <2>3 DEF Holds, At
<1>4. call' \in [Handlers -> Calls]
  <2>1. \A g \in Handlers : call'[g] \in Calls
    BY <1>2, <1>3
  <2> QED BY <2>1 DEF Stored
<1> QED BY <1>1, <1>2, <1>3, <1>4

(* The requests of others survive a write: a row that is no longer active had *)
(* no owner, and attempts only grow.                                          *)
LEMMA OthersKeep ==
    ASSUME IInv, NEW h \in Handlers, NEW o \in Ops, NEW item \in Rows, NEW what \in Calls,
           Stored(h, o, item, what), job' = job,
           NEW g \in Handlers, g # h,
           op[o].attempt <= item.attempt,
           NoOwner(o) \/ /\ item.status \in OpActive /\ item.attempt = op[o].attempt
                         /\ item.worker = op[o].worker /\ item.token = op[o].token,
           item.attempt = op[o].attempt => item.token \in {0, op[o].token},
           what.step = "authorize" => what.op = o /\ what.item.attempt > op[o].attempt
                                        /\ what.item.token \in {0, what.item.attempt}
    PROVE  Answering(g)' /\ Writing(g)'
<1>0. Answering(g) /\ Writing(g) /\ TypeOK
  BY DEF IInv
<1>1. /\ op'[o] = item /\ \A p \in Ops : p # o => op'[p] = op[p]
      /\ call'[h] = what
      /\ \A f \in Handlers : f # h =>
            /\ call'[f].step = call[f].step
            /\ Holds(f, o) => /\ ~call'[f].fresh /\ call'[f].op = o
                              /\ call'[f].item = call[f].item
                              /\ At(f, "write") => call'[f].then = call[f].then
            /\ ~Holds(f, o) => call'[f] = call[f]
  BY StoredCalls
<1>2. Answering(g)'
  <2> SUFFICES ASSUME At(g, "authorize") PROVE Answering(g)'
    BY <1>1 DEF Answering, At
  <2> DEFINE p == call[g].op
             mine == call[g].item
  <2>1. p \in Ops /\ mine \in Rows
    BY <1>0, ReadCalls
  <2>2. call'[g].step = "authorize" /\ call'[g].op = p /\ call'[g].item = mine
    BY <1>1 DEF Holds, At
  <2>3. /\ mine.attempt \in Attempts /\ mine.worker \in Workers
        /\ mine.token \in {0, mine.attempt} /\ mine.status = "running"
        /\ mine.attempt <= op[p].attempt
        /\ call[g].fresh => op[p] = mine
        /\ job[p][mine.attempt].state = "none"
        /\ mine.token # 0 => Owns(p, mine.attempt, mine.worker)
        /\ op[p].attempt = mine.attempt => op[p].token \in {0, mine.token}
        /\ \A f \in Handlers : At(f, "authorize") /\ call[f].op = p
                                 /\ call[f].item.attempt = mine.attempt => f = g
    BY <1>0 DEF Answering
  <2>4. op[p].attempt \in Nat /\ item.attempt \in Nat /\ mine.attempt \in Nat
    BY <1>0, <2>1, ReadRows, LimitsAssumption DEF Rows, Tokens, Attempts
  <2>5. ASSUME NEW f \in Handlers, (At(f, "authorize") /\ call[f].op = p)',
               call'[f].item.attempt = mine.attempt
        PROVE  f = g
    <3>1. CASE f = h
      <4>1. what.step = "authorize" /\ what.op = p /\ what.item.attempt = mine.attempt
        BY <1>1, <2>2, <2>5, <3>1 DEF At
      <4>2. p = o /\ mine.attempt > op[p].attempt
        BY <4>1
      <4> QED BY <2>3, <2>4, <4>2
    <3>2. CASE f # h
      BY <1>1, <2>3, <2>5, <3>2 DEF At, Holds
    <3> QED BY <3>1, <3>2
  <2>6. CASE p = o
    <3>1. ~call'[g].fresh
      BY <1>1, <2>6 DEF Holds, At
    <3>2. mine.attempt <= item.attempt
      BY <2>3, <2>4, <2>6
    <3>3. mine.token # 0 => Owns(o, mine.attempt, mine.worker)'
      BY <1>1, <2>3, <2>6 DEF Owns, NoOwner, At
    <3>4. item.attempt = mine.attempt => item.token \in {0, mine.token}
      BY <2>3, <2>4, <2>6
    <3> QED BY <1>1, <2>2, <2>3, <2>5, <2>6, <3>1, <3>2, <3>3, <3>4 DEF Answering, At
  <2>7. CASE p # o
    <3>1. call'[g] = call[g] /\ op'[p] = op[p]
      BY <1>1, <2>1, <2>7 DEF Holds
    <3> QED BY <2>2, <2>3, <2>5, <3>1 DEF Answering, At, Owns
  <2> QED BY <2>6, <2>7
<1>3. Writing(g)'
  <2> SUFFICES ASSUME At(g, "write") PROVE Writing(g)'
    BY <1>1 DEF Writing, At
  <2>1. call[g].op \in Ops
    BY <1>0, ReadCalls
  <2>2. CASE call[g].op = o
    BY <1>0, <1>1, <2>2 DEF Writing, At, Holds
  <2>3. CASE call[g].op # o
    <3>1. call'[g] = call[g] /\ op'[call[g].op] = op[call[g].op]
      BY <1>1, <2>1, <2>3 DEF Holds
    <3>2. NoOwner(call[g].op) => NoOwner(call[g].op)'
      BY <1>1, <2>3 DEF NoOwner, At, Holds
    <3> QED BY <1>0, <3>1, <3>2 DEF Writing, At, Earned
  <2> QED BY <2>2, <2>3
<1> QED BY <1>2, <1>3

-----------------------------------------------------------------------------
(* ClaimOperation *)
LEMMA ClaimKeeps ==
    ASSUME IInv, NEW h \in Handlers, ClaimOperation(h)
    PROVE  IInv'
<1> DEFINE o == call[h].op
           attempt == op[o].attempt + 1
           item == [status |-> "running", worker |-> call[h].worker, attempt |-> attempt,
                    token |-> IF call[h].worker \in TokenWorkers THEN attempt ELSE 0]
           what == [step |-> "authorize", op |-> o, item |-> item, fresh |-> TRUE]
<1>0. TypeOK /\ At(h, "claim") /\ o \in Ops /\ call[h].worker \in Workers
  BY ReadCalls DEF IInv, ClaimOperation
<1>1. CASE ~DispatchAllowed(o)
  <2>1. Become(h, Idle) /\ UNCHANGED <<op, job, allowed, runOpen, project, faults>>
    BY <1>1 DEF ClaimOperation
  <2>2. TypeOK'
    BY <2>1, <1>0, CallTypes DEF TypeOK, Become
  <2> QED BY <2>1, <2>2, EndKeeps
<1>2. CASE DispatchAllowed(o)
  <2>1. op[o].status = "queued" /\ op[o].token = 0 /\ op[o].attempt \in Nat
          /\ op[o].attempt <= DefaultRetries
    BY <1>0, ReadRows DEF IInv, Claiming, RowsAreSound
  <2>2. attempt \in Attempts /\ attempt \in Tokens /\ 0 \in Tokens /\ attempt > op[o].attempt /\ attempt # 0
    BY <2>1, LimitsAssumption DEF Attempts, Tokens
  <2>3. /\ item \in Rows /\ item.status = "running" /\ item.worker = call[h].worker
        /\ item.attempt = attempt /\ item.token \in {0, attempt}
    BY <1>0, <2>2 DEF Rows, OpActive
  <2>4. /\ what \in Calls /\ what.step = "authorize" /\ what.op = o /\ what.item = item
        /\ what.fresh = TRUE
    BY <1>0, <2>3, CallTypes
  <2>5. Stored(h, o, item, what) /\ UNCHANGED <<job, allowed, runOpen, project, faults>>
    BY <1>2 DEF ClaimOperation
  <2> HIDE DEF item, what
  <2>6. NoOwner(o)
    BY <1>0, <2>1, Unowned DEF OpActive
  <2>7. /\ op' \in [Ops -> Rows] /\ op'[o] = item /\ \A p \in Ops : p # o => op'[p] = op[p]
        /\ call'[h] = what
        /\ call' \in [Handlers -> Calls]
        /\ \A g \in Handlers : g # h =>
              /\ call'[g].step = call[g].step
              /\ call[g].step \notin {"authorize", "write"} => call'[g] = call[g]
              /\ Holds(g, o) => call'[g].op = o /\ call'[g].item = call[g].item
              /\ ~Holds(g, o) => call'[g] = call[g]
    BY <1>0, <2>3, <2>4, <2>5, StoredCalls
  <2>8. TypeOK'
    BY <1>0, <2>5, <2>7 DEF TypeOK
  <2>9. OneActive'
    <3>1. \A p \in Ops : p # o => op'[p].status \notin OpActive
      BY <1>2, <2>7 DEF DispatchAllowed, Free
    <3> QED BY <3>1 DEF OneActive
  <2>10. RowsAreSound'
    <3>1. ASSUME NEW a \in Attempts, job[o][a].state # "none"
          PROVE  a <= attempt /\ job[o][a].worker \in Workers
      <4>1. a <= op[o].attempt /\ job[o][a].worker \in Workers
        BY <1>0, <3>1 DEF IInv, RowsAreSound
      <4> QED BY <4>1, <2>1, <2>2, <1>0, ReadRows
    <3>2. ASSUME NEW p \in Ops, p # o
          PROVE  /\ op'[p].status = "queued" => op'[p].worker = NoWorker /\ op'[p].token = 0
                 /\ op'[p].status = "queued" => op'[p].attempt <= DefaultRetries
                 /\ op'[p].status \in OpActive => op'[p].worker \in Workers /\ op'[p].attempt \in Attempts
                 /\ op'[p].token # 0 => op'[p].token = op'[p].attempt
                 /\ \A a \in Attempts : job[p][a].state # "none" =>
                       a <= op'[p].attempt /\ job[p][a].worker \in Workers
      BY <2>7, <3>2 DEF IInv, RowsAreSound
    <3> QED BY <1>0, <2>2, <2>3, <2>5, <2>7, <3>1, <3>2 DEF RowsAreSound
  <2>11. AtWorkOwns'
    <3>1. ASSUME NEW p \in Ops, NEW a \in Attempts
          PROVE  /\ job[p][a].token \in {0, a}
                 /\ job[p][a].state \in JobAtWork /\ job[p][a].token # 0 => p # o
      BY <2>6 DEF NoOwner, IInv, AtWorkOwns
    <3>2. ASSUME NEW p \in Ops, NEW a \in Attempts, p # o
          PROVE  /\ job[p][a].state \in JobAtWork /\ job[p][a].token # 0 =>
                       Owns(p, a, job[p][a].worker)'
                 /\ job[p][a].state = "stopping" /\ job[p][a].token # 0 => op'[p].status = "canceling"
      BY <2>5, <2>7, <3>2 DEF IInv, AtWorkOwns, Owns
    <3> QED BY <2>5, <3>1, <3>2 DEF AtWorkOwns, Owns, JobAtWork
  <2>12. EndedIsEarned'
    BY <2>3, <2>5, <2>7 DEF IInv, EndedIsEarned, Earned, OpTerminal
  <2>13. Answering(h)'
    <3>1. job[o][attempt].state = "none"
      <4> SUFFICES ASSUME job[o][attempt].state # "none" PROVE FALSE
        OBVIOUS
      <4>1. attempt <= op[o].attempt
        BY <1>0, <2>2 DEF IInv, RowsAreSound
      <4> QED BY <4>1, <2>1
    <3>2. ASSUME NEW g \in Handlers, g # h, At(g, "authorize")', call'[g].op = o
          PROVE  call'[g].item.attempt # attempt
      <4>1. At(g, "authorize") /\ call[g].op = o /\ call'[g].item = call[g].item
        BY <2>7, <3>2 DEF At, Holds
      <4>2. call[g].item.attempt <= op[o].attempt /\ call[g].item.attempt \in Nat
        BY <4>1, LimitsAssumption DEF IInv, Answering, Attempts
      <4> QED BY <4>1, <4>2, <2>1
    <3>3. item.token # 0 => /\ op'[o].attempt = item.attempt /\ op'[o].token = item.attempt
                            /\ op'[o].worker = item.worker /\ op'[o].status \in OpActive
      BY <2>3, <2>7 DEF OpActive
    <3>4. call'[h].op = o /\ call'[h].item = item
      BY <2>4, <2>7
    <3>5. item.attempt \in Attempts /\ item.worker \in Workers /\ item.attempt <= op'[o].attempt
      BY <1>0, <2>1, <2>2, <2>3, <2>7
    <3>6. job'[o][item.attempt].state = "none" /\ op'[o] = item
      BY <2>3, <2>5, <2>7, <3>1
    <3>7. \A g \in Handlers : At(g, "authorize")' /\ call'[g].op = o
                                 /\ call'[g].item.attempt = item.attempt => g = h
      BY <2>3, <3>2
    <3> HIDE DEF o, attempt
    <3> QED BY <2>3, <3>3, <3>4, <3>5, <3>6, <3>7 DEF Answering, Owns, At
  <2>14. Claiming(h)' /\ Writing(h)'
    BY <2>4, <2>7 DEF Claiming, Writing, At
  <2>15. ASSUME NEW g \in Handlers, g # h
         PROVE  (Claiming(g) /\ Answering(g) /\ Writing(g))'
    <3>1. Answering(g)' /\ Writing(g)'
      BY <1>0, <2>1, <2>2, <2>3, <2>4, <2>5, <2>6, <2>15, OthersKeep
    <3>2. Claiming(g)'
      <4> SUFFICES ASSUME At(g, "claim") PROVE Claiming(g)'
        BY <2>7, <2>15 DEF Claiming, At
      <4>1. call'[g] = call[g] /\ call[g].op \in Ops /\ call[g].op # o
        BY <1>0, <2>7, <2>15, ReadCalls DEF At, IInv, Claiming
      <4>2. \A f \in Handlers : At(f, "claim")' => At(f, "claim") /\ call'[f] = call[f]
        BY <2>4, <2>7 DEF At
      <4> QED BY <2>7, <4>1, <4>2 DEF IInv, Claiming, At
    <3> QED BY <3>1, <3>2
  <2> QED BY <2>8, <2>9, <2>10, <2>11, <2>12, <2>13, <2>14, <2>15 DEF IInv
<1> QED BY <1>1, <1>2

(* AnswerClaim: the runner starts, or the claim is denied. *)
LEMMA AnswerKeeps ==
    ASSUME IInv, NEW h \in Handlers, AnswerClaim(h)
    PROVE  IInv'
<1>0. PICK o \in Ops, item \in Rows, fresh \in BOOLEAN :
         /\ call[h].op = o /\ call[h].item = item /\ call[h].fresh = fresh
  BY ReadCalls DEF AnswerClaim, IInv
<1>1. /\ item.attempt \in Attempts /\ item.worker \in Workers
      /\ item.token \in {0, item.attempt} /\ item.status = "running"
      /\ item.attempt <= op[o].attempt
      /\ fresh => op[o] = item
      /\ job[o][item.attempt].state = "none"
      /\ item.token # 0 => Owns(o, item.attempt, item.worker)
      /\ op[o].attempt = item.attempt => op[o].token \in {0, item.token}
      /\ \A g \in Handlers : At(g, "authorize") /\ call[g].op = o
                               /\ call[g].item.attempt = item.attempt => g = h
  BY <1>0 DEF AnswerClaim, IInv, Answering
<1>2. CASE ~allowed[o]
  <2> DEFINE denied == [item EXCEPT !.status = "failed"]
             what == [ToWrite(o, denied, "end") EXCEPT !.fresh = fresh]
  <2>1. /\ denied \in Rows /\ denied.status = "failed" /\ denied.worker = item.worker
        /\ denied.token = item.token /\ denied.attempt = item.attempt
    BY DEF Rows, OpTerminal
  <2> HIDE DEF denied
  <2>2. /\ what \in Calls /\ what.step = "write" /\ what.op = o /\ what.item = denied
        /\ what.fresh = fresh /\ what.then = "end"
    <3>1. what = [step |-> "write", op |-> o, item |-> denied, fresh |-> fresh, then |-> "end"]
      BY DEF ToWrite
    <3> HIDE DEF what
    <3>2. what \in Calls
      BY <2>1, <3>1, CallTypes
    <3> QED BY <3>1, <3>2
  <2> HIDE DEF what
  <2>3. Become(h, what) /\ UNCHANGED <<op, job, allowed, runOpen, project, faults>>
    BY <1>0, <1>2 DEF AnswerClaim, what, denied
  <2>4. TypeOK' /\ call'[h] = what /\ \A g \in Handlers : g # h => call'[g] = call[g]
    BY <2>2, <2>3 DEF IInv, TypeOK, Become
  <2>5. fresh => NoOwner(o)'
    <3>1. ASSUME fresh, NEW a \in Attempts, job[o][a].token # 0
          PROVE  job[o][a].state \notin JobAtWork
      BY <1>1, <3>1 DEF IInv, AtWorkOwns, Owns, JobAtWork
    <3>2. ASSUME fresh, NEW g \in Handlers, At(g, "authorize")', call'[g].op = o
          PROVE  call'[g].item.token = 0
      <4>1. g # h /\ At(g, "authorize") /\ call'[g] = call[g]
        BY <2>2, <2>4, <3>2 DEF At
      <4>2. call[g].item.token # 0 => Owns(o, call[g].item.attempt, call[g].item.worker)
        BY <3>2, <4>1 DEF IInv, Answering
      <4>3. call[g].item.attempt # item.attempt
        BY <1>1, <3>2, <4>1
      <4> QED BY <1>1, <3>2, <4>1, <4>2, <4>3 DEF Owns
    <3> QED BY <2>3, <3>1, <3>2 DEF NoOwner
  <2>6. Writing(h)'
    BY <1>1, <2>1, <2>2, <2>3, <2>4, <2>5 DEF Writing, At, Earned, OpActive, OpTerminal
  <2>7. Claiming(h)'
    BY <2>2, <2>4 DEF Claiming, At
  <2> QED BY <2>2, <2>3, <2>4, <2>6, <2>7, CallMoves
<1>3. CASE allowed[o]
  <2> DEFINE started == [state |-> "working", worker |-> item.worker, token |-> item.token]
  <2>1. started \in Jobs /\ started.state = "working" /\ started.worker = item.worker
          /\ started.token = item.token
    BY <1>1 DEF Jobs, JobAtWork, Rows
  <2> HIDE DEF started
  <2>2. /\ job' = [job EXCEPT ![o][item.attempt] = started]
        /\ Become(h, Idle) /\ UNCHANGED <<op, allowed, runOpen, project, faults>>
    BY <1>0, <1>3 DEF AnswerClaim, started
  <2>3. /\ job' \in [Ops -> [Attempts -> Jobs]]
        /\ job'[o][item.attempt] = started
        /\ \A p \in Ops, a \in Attempts : p # o \/ a # item.attempt => job'[p][a] = job[p][a]
    BY <1>1, <2>1, <2>2 DEF IInv, TypeOK
  <2>4. /\ call' \in [Handlers -> Calls] /\ call'[h] = Idle
        /\ \A g \in Handlers : g # h => call'[g] = call[g]
    BY <2>2, CallTypes DEF IInv, TypeOK, Become
  <2>5. TypeOK'
    BY <2>2, <2>3, <2>4 DEF IInv, TypeOK
  <2>6. OneActive'
    BY <2>2 DEF IInv, OneActive
  <2>7. RowsAreSound'
    <3>1. ASSUME NEW p \in Ops, NEW a \in Attempts, job'[p][a].state # "none"
          PROVE  a <= op[p].attempt /\ job'[p][a].worker \in Workers
      BY <1>1, <2>1, <2>3, <3>1 DEF IInv, RowsAreSound
    <3> QED BY <2>2, <3>1 DEF IInv, RowsAreSound
  <2>8. AtWorkOwns'
    <3>1. ASSUME NEW p \in Ops, NEW a \in Attempts
          PROVE  /\ job'[p][a].token \in {0, a}
                 /\ job'[p][a].state \in JobAtWork /\ job'[p][a].token # 0 =>
                       /\ op[p].attempt = a /\ op[p].token = a /\ op[p].worker = job'[p][a].worker
                       /\ op[p].status \in OpActive
                 /\ job'[p][a].state = "stopping" /\ job'[p][a].token # 0 =>
                       op[p].status = "canceling"
      <4>1. CASE p = o /\ a = item.attempt
        BY <1>1, <2>1, <2>3, <4>1 DEF Owns
      <4>2. CASE p # o \/ a # item.attempt
        BY <2>3, <4>2 DEF IInv, AtWorkOwns, Owns
      <4> QED BY <4>1, <4>2
    <3> QED BY <2>2, <3>1 DEF AtWorkOwns, Owns
  <2>9. ASSUME NEW p \in Ops, NEW a \in Attempts, NEW status, Earned(p, status, a),
               p # o \/ a # item.attempt
        PROVE  Earned(p, status, a)'
    BY <2>3, <2>9 DEF Earned
  <2>10. EndedIsEarned'
    <3> SUFFICES ASSUME NEW p \in Ops, op[p].status \in OpTerminal, op[p].token # 0
                 PROVE  Earned(p, op[p].status, op[p].attempt)'
      BY <2>2 DEF EndedIsEarned
    <3>1. Earned(p, op[p].status, op[p].attempt)
      BY DEF IInv, EndedIsEarned
    <3>2. op[p].attempt \in Attempts
      <4>1. op[p].token = op[p].attempt /\ op[p].token \in Tokens
        BY ReadRows DEF IInv, RowsAreSound, Rows
      <4> QED BY <4>1 DEF Tokens
    <3>3. p # o \/ op[p].attempt # item.attempt
      BY <1>1 DEF Owns, OpActive, OpTerminal
    <3> QED BY <2>2, <2>3, <3>1, <3>2, <3>3 DEF Earned
  <2>11. \A g \in Handlers : At(g, "authorize")' =>
             g # h /\ At(g, "authorize") /\ call'[g] = call[g]
    BY <2>4 DEF At, Idle
  <2>12. ASSUME NEW g \in Handlers, g # h
         PROVE  Claiming(g)'
    <3>1. Claiming(g) /\ call'[g] = call[g]
      BY <2>4, <2>12 DEF IInv
    <3>2. \A f \in Handlers : At(f, "claim")' => At(f, "claim") /\ call'[f] = call[f]
      BY <2>4 DEF At, Idle
    <3> QED BY <2>2, <3>1, <3>2 DEF Claiming, At
  <2>13. ASSUME NEW g \in Handlers, g # h
         PROVE  Answering(g)'
    <3> SUFFICES ASSUME At(g, "authorize") PROVE Answering(g)'
      BY <2>4, <2>13 DEF Answering, At
    <3>0. Answering(g) /\ call'[g] = call[g] /\ call[g].op \in Ops
      BY <2>4, <2>13, ReadCalls DEF IInv
    <3>1. call[g].op # o \/ call[g].item.attempt # item.attempt
      BY <1>1, <2>13
    <3>2. job'[call[g].op][call[g].item.attempt].state = "none"
      BY <2>3, <3>0, <3>1 DEF Answering
    <3> QED BY <2>2, <2>11, <3>0, <3>2 DEF Answering, At, Owns
  <2>14. ASSUME NEW g \in Handlers, g # h
         PROVE  Writing(g)'
    <3> SUFFICES ASSUME At(g, "write") PROVE Writing(g)'
      BY <2>4, <2>14 DEF Writing, At
    <3>0. Writing(g) /\ call'[g] = call[g] /\ call[g].op \in Ops /\ call[g].item \in Rows
      BY <2>4, <2>14, ReadCalls DEF IInv
    <3>1. ASSUME NoOwner(call[g].op) PROVE NoOwner(call[g].op)'
      <4>1. call[g].op = o => item.token = 0
        BY <1>0, <3>1 DEF AnswerClaim, NoOwner
      <4> QED BY <2>1, <2>3, <2>11, <3>0, <3>1, <4>1 DEF NoOwner
    <3>2. ASSUME call[g].fresh, call[g].item.status \in OpTerminal, call[g].item.token # 0
          PROVE  Earned(call[g].op, call[g].item.status, call[g].item.attempt)'
      <4>1. /\ Earned(call[g].op, call[g].item.status, call[g].item.attempt)
            /\ call[g].item.attempt = op[call[g].op].attempt
            /\ call[g].item.token = op[call[g].op].token
            /\ NoOwner(call[g].op)
        BY <3>0, <3>2 DEF Writing, OpTerminal, OpActive
      <4>2. call[g].item.attempt \in Attempts
        <5>1. op[call[g].op].token = op[call[g].op].attempt /\ op[call[g].op].token \in Tokens
          BY <3>0, <3>2, <4>1, ReadRows DEF IInv, RowsAreSound, Rows
        <5> QED BY <3>2, <4>1, <5>1 DEF Tokens
      <4>3. call[g].op # o \/ call[g].item.attempt # item.attempt
        BY <1>0, <1>1, <3>2, <4>1 DEF AnswerClaim, NoOwner
      <4> QED BY <2>3, <3>0, <4>1, <4>2, <4>3 DEF Earned
    <3> QED BY <2>2, <3>0, <3>1, <3>2 DEF Writing, At
  <2>15. (Claiming(h) /\ Answering(h) /\ Writing(h))'
    BY <2>4 DEF Claiming, Answering, Writing, At, Idle
  <2> QED BY <2>5, <2>6, <2>7, <2>8, <2>10, <2>12, <2>13, <2>14, <2>15 DEF IInv
<1> QED BY <1>2, <1>3

(* UpdateOperation *)
LEMMA UpdateKeeps ==
    ASSUME IInv, NEW h \in Handlers, UpdateOperation(h)
    PROVE  IInv'
<1>0. PICK o \in Ops, item \in Rows, then \in {"end", "touch", "apply"} :
         /\ call[h].op = o /\ call[h].item = item /\ call[h].then = then
  BY ReadCalls DEF UpdateOperation, IInv
<1>1. CASE ~UpdateAccepted(h)
  <2>1. Become(h, Idle) /\ UNCHANGED <<op, job, allowed, runOpen, project, faults>>
    BY <1>1 DEF UpdateOperation
  <2>2. TypeOK'
    BY <2>1, CallTypes DEF IInv, TypeOK, Become
  <2> QED BY <2>1, <2>2, EndKeeps
<1>2. CASE UpdateAccepted(h)
  <2> DEFINE what == IF then = "touch" THEN ToWrite(o, item, "end")
                     ELSE IF then = "apply" THEN [step |-> "apply", status |-> item.status]
                     ELSE Idle
  <2>1. /\ item.status = "queued" => /\ item.worker = NoWorker /\ item.token = 0
                                     /\ item.attempt <= DefaultRetries
        /\ then = "touch" => item.status = "canceling"
        /\ then = "apply" => item.status \in OpTerminal
        /\ item.attempt = op[o].attempt
        /\ item.status # "queued" => item.worker = op[o].worker /\ item.token = op[o].token
        /\ item.status \in OpActive => op[o].status \in {"running", item.status}
        /\ item.status \notin OpActive => NoOwner(o)
        /\ item.status \in OpTerminal /\ item.token # 0 => Earned(o, item.status, item.attempt)
    BY <1>0, <1>2 DEF UpdateOperation, UpdateAccepted, IInv, Writing
  <2>2. what \in Calls /\ what.step \in {"write", "apply", "idle"}
    BY <2>1, ToWriteType, CallTypes DEF ToWrite, Idle
  <2>3. what.step = "write" => what = ToWrite(o, item, "end") /\ item.status = "canceling"
    BY <2>1 DEF Idle
  <2>4. Stored(h, o, item, what) /\ UNCHANGED <<job, allowed, runOpen, project, faults>>
    BY <1>0, <1>2 DEF UpdateOperation
  <2> HIDE DEF what
  <2>5. /\ op' \in [Ops -> Rows] /\ op'[o] = item /\ \A p \in Ops : p # o => op'[p] = op[p]
        /\ call'[h] = what
        /\ call' \in [Handlers -> Calls]
        /\ \A g \in Handlers : g # h =>
              /\ call'[g].step = call[g].step
              /\ call[g].step \notin {"authorize", "write"} => call'[g] = call[g]
    BY <2>2, <2>4, StoredCalls
  <2>6. TypeOK'
    BY <2>4, <2>5 DEF IInv, TypeOK
  <2>7. OneActive'
    <3>1. item.status \in OpActive => op[o].status \in OpActive
      BY <2>1 DEF OpActive
    <3> QED BY <2>5, <3>1 DEF IInv, OneActive
  <2>8. RowsAreSound'
    <3>0. RowsAreSound /\ "queued" \notin OpActive
      BY DEF IInv, OpActive
    <3>1. /\ item.status \in OpActive => item.worker \in Workers /\ item.attempt \in Attempts
          /\ item.token # 0 => item.token = item.attempt
      BY <2>1, <3>0 DEF RowsAreSound, OpActive
    <3>2. \A a \in Attempts : job[o][a].state # "none" =>
              a <= item.attempt /\ job[o][a].worker \in Workers
      BY <2>1, <3>0 DEF RowsAreSound
    <3>3. ASSUME NEW p \in Ops, p # o
          PROVE  /\ op'[p].status = "queued" => op'[p].worker = NoWorker /\ op'[p].token = 0
                 /\ op'[p].status = "queued" => op'[p].attempt <= DefaultRetries
                 /\ op'[p].status \in OpActive => op'[p].worker \in Workers /\ op'[p].attempt \in Attempts
                 /\ op'[p].token # 0 => op'[p].token = op'[p].attempt
                 /\ \A a \in Attempts : job[p][a].state # "none" =>
                       a <= op'[p].attempt /\ job[p][a].worker \in Workers
      BY <2>5, <3>0, <3>3 DEF RowsAreSound
    <3> QED BY <2>1, <2>4, <2>5, <3>1, <3>2, <3>3 DEF RowsAreSound
  <2>9. AtWorkOwns'
    <3>0. AtWorkOwns
      BY DEF IInv
    <3>1. ASSUME NEW a \in Attempts, job[o][a].state \in JobAtWork, job[o][a].token # 0
          PROVE  /\ item.attempt = a /\ item.token = a /\ item.worker = job[o][a].worker
                 /\ item.status \in OpActive
                 /\ job[o][a].state = "stopping" => item.status = "canceling"
      <4>1. item.status \in OpActive
        BY <2>1, <3>1 DEF NoOwner
      <4>2. Owns(o, a, job[o][a].worker)
              /\ (job[o][a].state = "stopping" => op[o].status = "canceling")
        BY <3>0, <3>1 DEF AtWorkOwns
      <4> QED BY <2>1, <4>1, <4>2 DEF Owns, OpActive
    <3>2. ASSUME NEW p \in Ops, NEW a \in Attempts
          PROVE  /\ job[p][a].token \in {0, a}
                 /\ job[p][a].state \in JobAtWork /\ job[p][a].token # 0 =>
                       /\ op'[p].attempt = a /\ op'[p].token = a /\ op'[p].worker = job[p][a].worker
                       /\ op'[p].status \in OpActive
                 /\ job[p][a].state = "stopping" /\ job[p][a].token # 0 => op'[p].status = "canceling"
      <4>1. CASE p = o
        BY <2>5, <3>0, <3>1, <4>1 DEF AtWorkOwns, JobAtWork
      <4>2. CASE p # o
        BY <2>5, <3>0, <4>2 DEF AtWorkOwns, Owns
      <4> QED BY <4>1, <4>2
    <3> QED BY <2>4, <3>2 DEF AtWorkOwns, Owns
  <2>10. EndedIsEarned'
    BY <2>1, <2>4, <2>5 DEF IInv, EndedIsEarned, Earned
  <2>11. Claiming(h)' /\ Answering(h)'
    BY <2>2, <2>5 DEF Claiming, Answering, At
  <2>12. Writing(h)'
    BY <2>2, <2>3, <2>5 DEF Writing, At, ToWrite, OpActive, OpTerminal
  <2>13. ASSUME NEW g \in Handlers, g # h
         PROVE  Claiming(g)'
    <3> SUFFICES ASSUME At(g, "claim") PROVE Claiming(g)'
      BY <2>5, <2>13 DEF Claiming, At
    <3>1. call'[g] = call[g] /\ call[g].op \in Ops /\ call[g].op # o
      BY <1>0, <2>5, <2>13, ReadCalls DEF At, IInv, UpdateOperation, Locked
    <3>2. \A f \in Handlers : At(f, "claim")' => At(f, "claim") /\ call'[f] = call[f]
      BY <2>2, <2>5 DEF At
    <3> QED BY <2>5, <3>1, <3>2 DEF IInv, Claiming, At
  <2>14. ASSUME NEW g \in Handlers, g # h
         PROVE  Answering(g)' /\ Writing(g)'
    <3>1. op[o].attempt <= item.attempt
      BY <2>1, ReadRows DEF IInv
    <3>2. item.token \in {0, op[o].token}
      BY <2>1
    <3> QED BY <2>1, <2>2, <2>4, <2>14, <3>1, <3>2, OthersKeep DEF OpActive
  <2> QED BY <2>6, <2>7, <2>8, <2>9, <2>10, <2>11, <2>12, <2>13, <2>14 DEF IInv
<1> QED BY <1>1, <1>2

-----------------------------------------------------------------------------
(* The runner's commands move on. *)
LEMMA RunnerKeeps ==
    ASSUME IInv, NEW o \in Ops, NEW a \in Attempts, Runner(o, a)
    PROVE  IInv'
<1>1. PICK state \in JobEnded \cup {"stopping"} :
         /\ job' = [job EXCEPT ![o][a].state = state]
         /\ job[o][a].state \in JobAtWork
         /\ state = "stopping" => op[o].status = "canceling"
  BY DEF Runner, SeeCancellation, CommandsEnd, JobEnded, JobAtWork
<1>2. UNCHANGED <<op, allowed, runOpen, project, call, faults>>
  BY DEF Runner, SeeCancellation, CommandsEnd
<1>3. /\ job' \in [Ops -> [Attempts -> Jobs]]
      /\ job'[o][a].state = state /\ job'[o][a].worker = job[o][a].worker
      /\ job'[o][a].token = job[o][a].token
      /\ \A p \in Ops, b \in Attempts : p # o \/ b # a => job'[p][b] = job[p][b]
  <2>1. job'[o][a] = [job[o][a] EXCEPT !.state = state] /\ job[o][a] \in Jobs
    BY <1>1 DEF IInv, TypeOK
  <2>2. [job[o][a] EXCEPT !.state = state] \in Jobs
    BY <2>1 DEF Jobs, JobAtWork, JobEnded
  <2>3. job' \in [Ops -> [Attempts -> Jobs]]
          /\ \A p \in Ops, b \in Attempts : p # o \/ b # a => job'[p][b] = job[p][b]
    BY <1>1, <2>2 DEF IInv, TypeOK
  <2> QED BY <2>1, <2>3 DEF Jobs
<1>4. ASSUME NEW p \in Ops, NEW b \in Attempts
      PROVE  /\ job'[p][b].worker = job[p][b].worker /\ job'[p][b].token = job[p][b].token
             /\ job'[p][b].state = "none" <=> job[p][b].state = "none"
             /\ job'[p][b].state \in JobAtWork => job[p][b].state \in JobAtWork
             /\ job[p][b].state \in {"none"} \cup JobEnded => job'[p][b].state = job[p][b].state
             /\ job'[p][b].state = "stopping" =>
                   job[p][b].state = "stopping" \/ op[p].status = "canceling"
  BY <1>1, <1>3 DEF JobAtWork, JobEnded
<1>5. TypeOK' /\ OneActive'
  BY <1>2, <1>3 DEF IInv, TypeOK, OneActive
<1>6. RowsAreSound'
  BY <1>2, <1>4 DEF IInv, RowsAreSound
<1>7. AtWorkOwns'
  BY <1>2, <1>4 DEF IInv, AtWorkOwns, Owns
<1>8. ASSUME NEW p \in Ops, NEW b \in Attempts, NEW status, Earned(p, status, b)
      PROVE  Earned(p, status, b)'
  BY <1>4, <1>8 DEF Earned
<1>9. EndedIsEarned'
  <2> SUFFICES ASSUME NEW p \in Ops, op[p].status \in OpTerminal, op[p].token # 0
               PROVE  Earned(p, op[p].status, op[p].attempt)'
    BY <1>2 DEF EndedIsEarned
  <2>1. op[p].token = op[p].attempt /\ op[p].token \in Tokens
    BY ReadRows DEF IInv, RowsAreSound, Rows
  <2>2. op[p].attempt \in Attempts
    BY <2>1 DEF Tokens
  <2>3. Earned(p, op[p].status, op[p].attempt)
    BY DEF IInv, EndedIsEarned
  <2> QED BY <1>2, <1>4, <2>2, <2>3 DEF Earned
<1>10. ASSUME NEW h \in Handlers
       PROVE  (Claiming(h) /\ Answering(h) /\ Writing(h))'
  <2>0. Claiming(h) /\ Answering(h) /\ Writing(h) /\ TypeOK /\ RowsAreSound
    BY DEF IInv
  <2>1. Claiming(h)'
    BY <1>2, <2>0 DEF Claiming, At
  <2>2. Answering(h)'
    <3> SUFFICES ASSUME At(h, "authorize") PROVE Answering(h)'
      BY <1>2 DEF Answering, At
    <3>1. call[h].op \in Ops
      BY <2>0, ReadCalls
    <3> QED BY <1>2, <1>4, <2>0, <3>1 DEF Answering, At, Owns
  <2>3. Writing(h)'
    <3> SUFFICES ASSUME At(h, "write") PROVE Writing(h)'
      BY <1>2 DEF Writing, At
    <3>1. call[h].op \in Ops /\ call[h].item \in Rows
      BY <2>0, ReadCalls
    <3>2. NoOwner(call[h].op) => NoOwner(call[h].op)'
      BY <1>2, <1>4, <3>1 DEF NoOwner, At
    <3>3. ASSUME call[h].fresh, call[h].item.status \in OpTerminal, call[h].item.token # 0
          PROVE  Earned(call[h].op, call[h].item.status, call[h].item.attempt)'
      <4>1. /\ Earned(call[h].op, call[h].item.status, call[h].item.attempt)
            /\ call[h].item.attempt = op[call[h].op].attempt
            /\ call[h].item.token = op[call[h].op].token
        BY <2>0, <3>3 DEF Writing, OpTerminal, OpActive
      <4>2. op[call[h].op].token = op[call[h].op].attempt /\ op[call[h].op].token \in Tokens
        BY <2>0, <3>1, <3>3, <4>1, ReadRows DEF RowsAreSound, Rows
      <4>3. call[h].item.attempt \in Attempts
        BY <3>3, <4>1, <4>2 DEF Tokens
      <4> QED BY <1>2, <1>4, <3>1, <4>1, <4>3 DEF Earned
    <3> QED BY <1>2, <2>0, <3>2, <3>3 DEF Writing, At
  <2> QED BY <2>1, <2>2, <2>3
<1> QED BY <1>5, <1>6, <1>7, <1>9, <1>10 DEF IInv

(* The invariant is inductive. *)
LEMMA HandlerKeeps ==
    ASSUME IInv, NEW h \in Handlers, HandlerStep(h)
    PROVE  IInv'
<1>1. CASE \E w \in Workers : SelectOperation(h, w)
  BY <1>1, SelectKeeps
<1>2. CASE ClaimOperation(h) \/ AnswerClaim(h) \/ UpdateOperation(h)
  BY <1>2, ClaimKeeps, AnswerKeeps, UpdateKeeps
<1>3. CASE \E o \in Ops : CancelOperation(h, o) \/ RetryOperation(h, o)
  BY <1>3, CancelKeeps, RetryKeeps
<1>4. ASSUME NEW o \in Ops, PollOperation(h, o)
      PROVE  IInv'
  BY <1>4, ToStopKeeps DEF PollOperation
<1>5. ASSUME NEW o \in Ops, NEW a \in Attempts, Heartbeat(h, o, a)
      PROVE  IInv'
  BY <1>5, ToStopKeeps, SameKeeps DEF Heartbeat
<1>6. CASE \E o \in Ops : \E a \in Attempts : RecordOperationCallback(h, o, a)
  BY <1>6, CallbackKeeps
<1>7. CASE ApplyRuntimeState(h)
  <2>1. TypeOK'
    BY <1>7, CallTypes DEF IInv, TypeOK, Become, ApplyRuntimeState, ProjectStatus, ProjectStatuses
  <2> QED BY <1>7, <2>1, EndKeeps DEF ApplyRuntimeState
<1>8. CASE Crash(h)
  <2>1. TypeOK'
    BY <1>8, CallTypes, LimitsAssumption DEF IInv, TypeOK, Become, Crash
  <2> QED BY <1>8, <2>1, EndKeeps DEF Crash
<1> QED BY <1>1, <1>2, <1>3, <1>4, <1>5, <1>6, <1>7, <1>8 DEF HandlerStep

(* What a request cannot see does not matter to it. *)
LEMMA OutsideKeeps ==
    ASSUME IInv, UNCHANGED <<op, job, call>>, TypeOK'
    PROVE  IInv'
BY DEF IInv, OneActive, EndedIsEarned, Earned, RowsAreSound, AtWorkOwns, Owns,
       Claiming, Answering, Writing, NoOwner, At

LEMMA Inductive ==
    ASSUME IInv, [Next]_vars
    PROVE  IInv'
<1>1. CASE \E h \in Handlers : HandlerStep(h)
  BY <1>1, HandlerKeeps
<1>2. CASE \E o \in Ops : \E a \in Attempts : Runner(o, a)
  BY <1>2, RunnerKeeps
<1>3. CASE \E o \in Ops : Revoke(o)
  BY <1>3, OutsideKeeps DEF Revoke, IInv, TypeOK
<1>4. CASE CloseRun
  BY <1>4, OutsideKeeps DEF CloseRun, IInv, TypeOK
<1>5. CASE UNCHANGED vars
  BY <1>5, OutsideKeeps DEF vars, IInv, TypeOK
<1> QED BY <1>1, <1>2, <1>3, <1>4, <1>5 DEF Next

(* Every reachable state satisfies the inductive invariant: rows, tokens and  *)
(* pending writes agree.  (UpdateOperation, ClaimOperation,                   *)
(* validateDockerOperationCallback.)                                          *)
THEOREM Invariant == Spec => []IInv
BY InitInductive, Inductive, PTL DEF Spec

(* At most one operation of a project is with a runner, for any number of     *)
(* concurrent claims.  (lockOperationDispatch.)                               *)
THEOREM OneAtATime == Spec => []OneActive
<1>1. IInv => OneActive
  BY DEF IInv
<1> QED BY <1>1, Invariant, PTL

(* No commands of an attempt with a token run behind an ended, requeued or    *)
(* reclaimed row.  (UpdateOperation, RecordOperationCallback.)                *)
THEOREM EndedQuiet == Spec => []EndedIsQuiet
<1>1. IInv => EndedIsQuiet
  BY DEF IInv, AtWorkOwns, Owns, EndedIsQuiet
<1> QED BY <1>1, Invariant, PTL

(* An operation that ended under a token shows what that attempt earned.      *)
(* (RecordOperationCallback, denyClaimedOperation.)                           *)
THEOREM Honest == Spec => []EndedIsEarned
<1>1. IInv => EndedIsEarned
  BY DEF IInv
<1> QED BY <1>1, Invariant, PTL

(* Every variable keeps its type.  (The docker_operations rows, the runners'   *)
(* jobs and the requests in flight.)                                           *)
THEOREM TypeCorrect == Spec => []TypeOK
<1>1. IInv => TypeOK
  BY DEF IInv
<1> QED BY <1>1, Invariant, PTL

-----------------------------------------------------------------------------
(* The workspace as a lock *)

Holding == {o \in Ops : op[o].status \in OpActive}
Working == {o \in Ops : \E a \in Attempts :
               job[o][a].state \in JobAtWork /\ job[o][a].token # 0}

LEMMA OneHolds ==
    ASSUME IInv, NEW o \in Holding
    PROVE  o \in Ops /\ Holding = {o} /\ Working \in {{}, {o}}
<1>1. o \in Ops /\ Holding = {o}
  BY DEF Holding, IInv, OneActive
<1>2. Working \subseteq Holding
  BY DEF Holding, Working, IInv, AtWorkOwns, Owns
<1> QED BY <1>1, <1>2

LEMMA NoneHolds ==
    ASSUME IInv, Holding = {}
    PROVE  Working = {}
BY DEF Holding, Working, IInv, AtWorkOwns, Owns

(* The invariant before and after says how the lock moved. *)
LEMMA RowMovesLock ==
    ASSUME IInv, IInv', job' = job, NEW o \in Ops, \A p \in Ops : p # o => op'[p] = op[p]
    PROVE  [Contract!Next]_(Contract!vars)
<1>0. Working' = Working
  BY DEF Working
<1>1. CASE o \in Holding <=> o \in Holding'
  <2>1. Holding' = Holding
    BY <1>1 DEF Holding
  <2> QED BY <1>0, <2>1 DEF Contract!vars, Holding, Working
<1>2. CASE o \notin Holding /\ o \in Holding'
  <2>1. Holding' = {o}
    BY <1>2 DEF Holding, IInv, OneActive
  <2>2. Holding = {}
    BY <1>2, <2>1 DEF Holding
  <2>3. Contract!Take(o)
    BY <1>0, <2>1, <2>2 DEF Contract!Take, Holding, Working
  <2> QED BY <2>3 DEF Contract!Next
<1>3. CASE o \in Holding /\ o \notin Holding'
  <2>1. Holding = {o}
    BY <1>3, OneHolds
  <2>2. Holding' = {}
    BY <1>3, <2>1 DEF Holding
  <2>3. Working' = {}
    BY <2>2 DEF Holding, Working, IInv, AtWorkOwns, Owns
  <2>4. Contract!Release(o)
    BY <1>0, <2>1, <2>2, <2>3 DEF Contract!Release, Holding, Working
  <2> QED BY <2>4 DEF Contract!Next
<1> QED BY <1>1, <1>2, <1>3

LEMMA JobMovesLock ==
    ASSUME IInv, IInv', op' = op
    PROVE  [Contract!Next]_(Contract!vars)
<1>0. Holding' = Holding
  BY DEF Holding
<1>1. CASE Working' = Working
  BY <1>0, <1>1 DEF Contract!vars, Holding, Working
<1>2. CASE Working' # Working
  <2>1. Working' \subseteq Holding
    BY <1>0 DEF Holding, Working, IInv, AtWorkOwns, Owns
  <2>2. PICK o \in Ops : Holding = {o} /\ Working \in {{}, {o}}
    BY <1>2, <2>1, OneHolds, NoneHolds
  <2>3. CASE Working = {} /\ Working' = {o}
    <3>1. Contract!Start(o)
      BY <1>0, <2>2, <2>3 DEF Contract!Start, Holding, Working
    <3> QED BY <3>1 DEF Contract!Next
  <2>4. CASE Working = {o} /\ Working' = {}
    <3>1. Contract!End(o)
      BY <1>0, <2>2, <2>4 DEF Contract!End, Holding, Working
    <3> QED BY <3>1 DEF Contract!Next
  <2> QED BY <1>2, <2>1, <2>2, <2>3, <2>4
<1> QED BY <1>1, <1>2

(* No step writes two rows, and none writes a row and moves a runner. *)
LEMMA OneRowAtATime ==
    ASSUME IInv, [Next]_vars
    PROVE  \/ op' = op
           \/ job' = job /\ \E o \in Ops : \A p \in Ops : p # o => op'[p] = op[p]
<1>1. ASSUME NEW h \in Handlers, ClaimOperation(h) \/ UpdateOperation(h)
      PROVE  \/ op' = op
             \/ job' = job /\ \E o \in Ops : \A p \in Ops : p # o => op'[p] = op[p]
  <2>1. call[h].op \in Ops
    BY <1>1, ReadCalls DEF ClaimOperation, UpdateOperation, IInv
  <2>2. op' = op \/ \E item : op' = [op EXCEPT ![call[h].op] = item]
    BY <1>1 DEF ClaimOperation, UpdateOperation, Stored
  <2>3. job' = job
    BY <1>1 DEF ClaimOperation, UpdateOperation
  <2> QED BY <2>1, <2>2, <2>3 DEF IInv, TypeOK
<1>2. ASSUME NEW h \in Handlers, HandlerStep(h), ~(ClaimOperation(h) \/ UpdateOperation(h))
      PROVE  op' = op
  BY <1>2 DEF HandlerStep, SelectOperation, AnswerClaim, CancelOperation, RetryOperation,
     PollOperation, Heartbeat, RecordOperationCallback, ApplyRuntimeState, Crash
<1>3. CASE (\E o \in Ops : Revoke(o) \/ \E a \in Attempts : Runner(o, a)) \/ CloseRun \/ UNCHANGED vars
  BY <1>3 DEF Revoke, Runner, SeeCancellation, CommandsEnd, CloseRun, vars
<1> QED BY <1>1, <1>2, <1>3 DEF Next

(* The rows are a lock on the workspace, for any number of operations,         *)
(* runners, requests and faults: a claim takes it from nobody, commands under  *)
(* a token run for its holder alone, and it is released when they have ended.  *)
(* (lockOperationDispatch, UpdateOperation, RecordOperationCallback.)          *)
THEOREM Refinement == Spec => ContractSpec
<1>1. Init => Contract!Init
  <2> SUFFICES ASSUME Init PROVE Contract!Init
    OBVIOUS
  <2>1. \A o \in Ops : op[o].status = "queued" /\ \A a \in Attempts : job[o][a].state = "none"
    BY DEF Init
  <2> QED BY <2>1 DEF Contract!Init, OpActive, JobAtWork
<1>2. IInv /\ IInv' /\ [Next]_vars => [Contract!Next]_(Contract!vars)
  BY OneRowAtATime, RowMovesLock, JobMovesLock
<1> QED BY <1>1, <1>2, Invariant, PTL DEF Spec, ContractSpec, Contract!Spec
=============================================================================
