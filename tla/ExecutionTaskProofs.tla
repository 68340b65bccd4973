------------------------ MODULE ExecutionTaskProofs ------------------------
(***************************************************************************)
(* ExecutionTask for any number of handlers, attempts and faults: although *)
(* stale handlers may overwrite the row, what it says of an attempt is     *)
(* what that attempt's agent did.                                          *)
(***************************************************************************)
EXTENDS ExecutionTask, TLAPS

(* What no step undoes. *)
Steady ==
    /\ row'.kind = row.kind
    /\ \A t \in Attempts : t <= issued /\ Spent(t) => Spent(t)'
    /\ \A t \in Attempts : executor[t] = "succeeded" => executor'[t] = "succeeded"
    /\ row.kind \in Confirmed /\ row.status # "queued" => row'.status # "queued"
    /\ row.kind \in Confirmed /\ row.status \in TaskTerminal => row'.status = row.status

Parts == TokensAreIssued /\ QueuedIsFresh /\ RowIsHonest /\ BundleFollows

-----------------------------------------------------------------------------
(* Types *)

LEMMA CallTypes ==
    /\ Idle \in Calls /\ Idle.step = "idle"
    /\ \A item \in Rows, step \in {"claimed", "write", "sync"} :
          [step |-> step, item |-> item] \in Calls
BY DEF Idle, Calls

LEMMA ItemType ==
    ASSUME TypeOK, NEW h \in Handlers, call[h].step # "idle"
    PROVE  /\ call[h].item \in Rows /\ call[h].item.token \in Attempts
           /\ call[h].step \in {"claimed", "write", "sync"}
BY DEF TypeOK, Calls, Rows

LEMMA RowFacts ==
    ASSUME TypeOK
    PROVE  /\ row.token \in Attempts /\ row.kind \in Kinds /\ row.status \in TaskStatuses
           /\ row.attempt \in Nat /\ issued \in Attempts
           /\ \A status \in TaskStatuses, token \in Attempts, attempt \in Nat :
                 [row EXCEPT !.status = status, !.token = token, !.attempt = attempt] \in Rows
BY DEF TypeOK, Rows

(* Attempts are numbers. *)
LEMMA AttemptsAreNumbers ==
    /\ Attempts \subseteq Int
    /\ 1 \in Attempts
    /\ \A t \in Attempts : t < MaxTokens => t + 1 \in Attempts
BY LimitsAssumption DEF Attempts

LEMMA UpdateType ==
    ASSUME TypeOK, NEW item \in Rows
    PROVE  /\ UpdateExecutionTask(item) \in Rows
           /\ UpdateExecutionTask(item).kind \in {row.kind, item.kind}
<1>1. row \in Rows
  BY DEF TypeOK
<1>2. CASE item.kind = "vm_ssh_command"
  <2>1. item.kind \notin Confirmed
    BY <1>2 DEF Confirmed
  <2> QED BY <1>1, <1>2, <2>1 DEF UpdateExecutionTask, Larger, Rows
<1>3. CASE item.kind \in Confirmed
  <2>1. item.kind # "vm_ssh_command"
    BY <1>3 DEF Confirmed
  <2> QED BY <1>1, <1>3, <2>1 DEF UpdateExecutionTask, StoredStatus, Rows
<1>4. CASE item.kind # "vm_ssh_command" /\ item.kind \notin Confirmed
  BY <1>1, <1>4 DEF UpdateExecutionTask
<1> QED BY <1>2, <1>3, <1>4

-----------------------------------------------------------------------------
LEMMA InitInductive == Init => IInv
<1> SUFFICES ASSUME Init PROVE IInv
  OBVIOUS
<1>1. row \in Rows /\ row.token = 1 /\ row.attempt = 0 /\ row.status = "queued"
  BY AttemptsAreNumbers DEF Init, Rows, TaskStatuses
<1>2. \A h \in Handlers : call[h] = Idle /\ call[h].step = "idle"
  BY CallTypes DEF Init
<1>3. \A t \in Attempts : executor[t] = "absent"
  BY DEF Init
<1>4. TypeOK
  <2>1. issued \in Attempts /\ faults \in 0 .. MaxFaults
    BY AttemptsAreNumbers, LimitsAssumption DEF Init
  <2>2. executor \in [Attempts -> ExecutorStates]
    BY DEF Init, ExecutorStates
  <2>3. call \in [Handlers -> Calls]
    BY CallTypes DEF Init
  <2> QED BY <1>1, <2>1, <2>2, <2>3 DEF Init, TypeOK, BundleStatuses
<1>5. TokensAreIssued
  BY <1>1, <1>2, <1>3 DEF Init, TokensAreIssued
<1>6. QueuedIsFresh /\ RowIsHonest
  BY <1>1, <1>2, <1>3, AttemptsAreNumbers DEF QueuedIsFresh, RowIsHonest, Claiming, TaskTerminal
<1>7. \A h \in Handlers :
          RetryIsFresh(h) /\ ClaimIsExclusive(h) /\ WriteIsHonest(h) /\ SyncIsTrue(h)
  BY <1>2 DEF RetryIsFresh, ClaimIsExclusive, WriteIsHonest, SyncIsTrue, Retrying, Writing
<1>8. BundleFollows
  BY DEF Init, BundleFollows
<1> QED BY <1>4, <1>5, <1>6, <1>7, <1>8 DEF IInv

(* An attempt whose agent has ended is spent: nobody who could still hand it  *)
(* over exists.                                                               *)
LEMMA EndedIsSpent ==
    ASSUME IInv, NEW t \in Attempts, executor[t] \notin {"absent", "working"}
    PROVE  Spent(t)
BY DEF IInv, Spent, QueuedIsFresh, ClaimIsExclusive, RetryIsFresh, Claiming

(* What a handler holds stays true while it does nothing. *)
LEMMA HoldingStays ==
    ASSUME IInv, Steady, NEW h \in Handlers, call'[h] = call[h]
    PROVE  WriteIsHonest(h)' /\ SyncIsTrue(h)'
<1>1. ASSUME Writing(h)' PROVE WriteIsHonest(h)'
  <2>1. Writing(h) /\ call[h].step # "idle"
    BY <1>1 DEF Writing
  <2>2. /\ call[h].item.token \in Attempts /\ call[h].item.token <= issued
        /\ call[h].item.kind = row.kind
    BY <2>1, ItemType DEF IInv, TokensAreIssued
  <2>3. WriteIsHonest(h)
    BY DEF IInv
  <2> QED BY <2>1, <2>2, <2>3 DEF WriteIsHonest, Steady
<1>2. SyncIsTrue(h)'
  <2> SUFFICES ASSUME call[h].step = "sync", call[h].item.kind = "delivery_batch"
               PROVE  row'.status \in TaskTerminal /\ call[h].item.status = row'.status
    BY DEF SyncIsTrue
  <2>1. row.kind \in Confirmed /\ SyncIsTrue(h)
    BY DEF IInv, TokensAreIssued, Confirmed
  <2> QED BY <2>1 DEF SyncIsTrue, Steady
<1> QED BY <1>1, <1>2 DEF WriteIsHonest

(* A bundle that is left alone stays right. *)
LEMMA BundleStays ==
    ASSUME IInv, Steady, UNCHANGED bundle
    PROVE  BundleFollows'
<1>1. BundleFollows /\ "delivery_batch" \in Confirmed
  BY DEF IInv, Confirmed
<1> QED BY <1>1 DEF BundleFollows, Steady

LEMMA OneMoves ==
    ASSUME IInv, NEW h \in Handlers, NEW what, call' = [call EXCEPT ![h] = what],
           Steady, TypeOK', Parts', WriteIsHonest(h)', SyncIsTrue(h)',
           \A v \in Handlers : RetryIsFresh(v)' /\ ClaimIsExclusive(v)'
    PROVE  IInv'
<1>1. ASSUME NEW v \in Handlers, v # h
      PROVE  WriteIsHonest(v)' /\ SyncIsTrue(v)'
  <2>1. call'[v] = call[v]
    BY <1>1 DEF IInv, TypeOK
  <2> QED BY <2>1, HoldingStays
<1> QED BY <1>1 DEF IInv, Parts

(* A handler ends, or goes on without a claim or a write: what others hold    *)
(* can only become truer.                                                     *)
LEMMA LettingGoKeeps ==
    ASSUME IInv, NEW h \in Handlers, NEW what \in Calls, what.step = "idle",
           call' = [call EXCEPT ![h] = what],
           UNCHANGED <<row, issued, executor, runOpen>>, bundle' \in BundleStatuses,
           faults' \in 0 .. MaxFaults, BundleFollows'
    PROVE  IInv'
<1>0. TypeOK /\ call'[h].step = "idle" /\ (\A v \in Handlers : v # h => call'[v] = call[v])
  BY DEF IInv, TypeOK
<1>1. TypeOK'
  BY <1>0 DEF TypeOK
<1>2. \A v \in Handlers : call'[v] = call[v] \/ call'[v].step = "idle"
  BY <1>0
<1>3. \A t : Spent(t) => Spent(t)'
  BY <1>2 DEF Spent, Claiming, Retrying, Writing
<1>4. Steady
  BY <1>3 DEF Steady
<1>5. TokensAreIssued'
  BY <1>2 DEF IInv, TokensAreIssued
<1>6. QueuedIsFresh'
  BY <1>2 DEF IInv, QueuedIsFresh, Claiming
<1>7. RowIsHonest'
  BY <1>3 DEF IInv, RowIsHonest
<1>8. ASSUME NEW v \in Handlers
      PROVE  RetryIsFresh(v)' /\ ClaimIsExclusive(v)'
  <2>1. RetryIsFresh(v) /\ ClaimIsExclusive(v)
    BY DEF IInv
  <2> QED BY <1>2, <2>1 DEF RetryIsFresh, ClaimIsExclusive, Retrying, Writing, Claiming
<1>9. WriteIsHonest(h)' /\ SyncIsTrue(h)'
  BY <1>0 DEF WriteIsHonest, Writing, SyncIsTrue
<1> QED BY <1>1, <1>4, <1>5, <1>6, <1>7, <1>8, <1>9, OneMoves DEF Parts

(* A handler has read the row and is about to write what it made of it. *)
LEMMA DecideKeeps ==
    ASSUME IInv, NEW h \in Handlers, NEW item \in Rows,
           call[h].step \in {"idle", "claimed"},
           call' = [call EXCEPT ![h] = [step |-> "write", item |-> item]],
           UNCHANGED <<row, issued, executor, bundle, runOpen, faults>>,
           item.token = row.token, item.kind = row.kind, item.status # "queued",
           item.status = "completed" => executor[item.token] = "succeeded",
           item.status = "failed" => \/ Spent(item.token)'
                                     \/ item.kind = "vm_ssh_command" /\ item.attempt = 0,
           item.kind \in Confirmed =>
              /\ row.status # "queued"
              /\ item.status \in TaskReports
              /\ item.status \in TaskTerminal => Spent(item.token)'
    PROVE  IInv'
<1> DEFINE what == [step |-> "write", item |-> item]
<1>0. /\ TypeOK /\ what \in Calls /\ call'[h] = what
      /\ what.step = "write" /\ what.item = item
      /\ \A v \in Handlers : v # h => call'[v] = call[v]
  BY CallTypes DEF IInv, TypeOK
<1>1. TypeOK'
  BY <1>0 DEF TypeOK
<1>2. \A v \in Handlers : call'[v] = call[v] \/ (v = h /\ call'[v] = what)
  BY <1>0
<1>3. \A v \in Handlers : (Retrying(v)' => v # h /\ Retrying(v)) /\ (\A t : Claiming(v, t)' => v # h /\ Claiming(v, t))
  BY <1>0 DEF Retrying, Writing, Claiming
<1>4. \A t : Spent(t) => Spent(t)'
  BY <1>0, <1>3 DEF Spent
<1>5. Steady
  BY <1>4 DEF Steady
<1>6. TokensAreIssued'
  BY <1>0, <1>2 DEF IInv, TokensAreIssued
<1>7. QueuedIsFresh'
  BY <1>3 DEF IInv, QueuedIsFresh
<1>8. RowIsHonest'
  BY <1>4 DEF IInv, RowIsHonest
<1>9. ASSUME NEW v \in Handlers
      PROVE  RetryIsFresh(v)' /\ ClaimIsExclusive(v)'
  <2>1. RetryIsFresh(v) /\ ClaimIsExclusive(v)
    BY DEF IInv
  <2>2. CASE v = h
    BY <1>0, <2>2 DEF RetryIsFresh, ClaimIsExclusive, Retrying, Writing
  <2>3. CASE v # h
    <3>1. call'[v] = call[v]
      BY <1>0, <2>3
    <3>2. ClaimIsExclusive(v)'
      BY <1>3, <2>1, <3>1 DEF ClaimIsExclusive
    <3>3. RetryIsFresh(v)'
      BY <1>0, <1>2, <2>1, <3>1 DEF RetryIsFresh, Retrying, Writing
    <3> QED BY <3>2, <3>3
  <2> QED BY <2>2, <2>3
<1>10. WriteIsHonest(h)' /\ SyncIsTrue(h)'
  <2>1. SyncIsTrue(h)'
    BY <1>0 DEF SyncIsTrue
  <2>2. call'[h].item = item /\ row' = row /\ executor' = executor
    BY <1>0
  <2> HIDE DEF what
  <2>3. Spent(item.token)' => Spent(call[h].item.token)'
    BY <2>2 DEF Spent, Claiming, Retrying, Writing
  <2>4. WriteIsHonest(h)'
    BY <2>2, <2>3 DEF WriteIsHonest
  <2> QED BY <2>1, <2>4
<1> QED BY <1>1, <1>5, <1>6, <1>7, <1>8, <1>9, <1>10, BundleStays, OneMoves DEF Parts

-----------------------------------------------------------------------------
(* The handlers *)

LEMMA ClaimKeeps ==
    ASSUME IInv, NEW h \in Handlers, ClaimExecutionTask(h)
    PROVE  IInv'
<1> DEFINE what == [step |-> "claimed", item |-> row']
<1>0. TypeOK /\ row \in Rows /\ row.status = "queued"
  BY DEF IInv, TypeOK, ClaimExecutionTask
<1>1. /\ row' \in Rows /\ row'.token = row.token /\ row'.kind = row.kind
      /\ row'.status = "dispatching"
  <2>1. row' = [row EXCEPT !.status = "dispatching", !.attempt = row.attempt + 1]
    BY DEF ClaimExecutionTask
  <2>2. row.attempt + 1 \in Nat
    BY <1>0 DEF Rows
  <2> HIDE DEF what
  <2>3. "dispatching" \in TaskStatuses
    BY DEF TaskStatuses
  <2> QED BY <1>0, <2>1, <2>2, <2>3 DEF Rows
<1>2. /\ what \in Calls /\ call'[h] = what /\ call' = [call EXCEPT ![h] = what]
      /\ what.step = "claimed" /\ what.item = row'
      /\ \A v \in Handlers : v # h => call'[v] = call[v]
  BY <1>0, <1>1, CallTypes DEF ClaimExecutionTask, TypeOK
<1>3. UNCHANGED <<issued, executor, bundle, runOpen, faults>>
  BY DEF ClaimExecutionTask
<1>4. TypeOK'
  BY <1>0, <1>1, <1>2, <1>3 DEF TypeOK
<1>5. /\ executor[row.token] = "absent"
      /\ \A v \in Handlers : ~Claiming(v, row.token)
  BY <1>0 DEF IInv, QueuedIsFresh
<1>6. \A v \in Handlers : Retrying(v)' => v # h /\ Retrying(v) /\ call'[v] = call[v]
  BY <1>2 DEF Retrying, Writing
<1>7. \A t : Spent(t) => Spent(t)'
  <2> SUFFICES ASSUME NEW t, Spent(t) PROVE Spent(t)'
    OBVIOUS
  <2>1. t # row.token
    BY <1>0 DEF Spent
  <2>2. \A v \in Handlers : ~Claiming(v, t)'
    BY <1>1, <1>2, <2>1 DEF Spent, Claiming
  <2>3. \A v \in Handlers : ~(Retrying(v)' /\ call'[v].item.token = t)
    BY <1>6 DEF Spent
  <2> QED BY <1>1, <1>3, <2>2, <2>3 DEF Spent
<1>8. Steady
  BY <1>0, <1>1, <1>3, <1>7 DEF Steady, TaskTerminal
<1>9. TokensAreIssued'
  BY <1>1, <1>2, <1>3 DEF IInv, TokensAreIssued
<1>10. QueuedIsFresh' /\ RowIsHonest'
  BY <1>1 DEF QueuedIsFresh, RowIsHonest, TaskTerminal
<1>11. ASSUME NEW v \in Handlers
       PROVE  RetryIsFresh(v)' /\ ClaimIsExclusive(v)'
  <2>1. RetryIsFresh(v) /\ ClaimIsExclusive(v)
    BY DEF IInv
  <2>2. CASE v = h
    <3>1. RetryIsFresh(v)'
      BY <1>2, <2>2 DEF RetryIsFresh, Retrying, Writing
    <3>2. ClaimIsExclusive(v)'
      BY <1>1, <1>2, <1>3, <1>5, <2>2 DEF ClaimIsExclusive, Claiming
    <3> QED BY <3>1, <3>2
  <2>3. CASE v # h
    <3>1. call'[v] = call[v]
      BY <1>2, <2>3
    <3>2. ClaimIsExclusive(v)'
      BY <1>1, <1>2, <1>3, <1>5, <2>1, <3>1 DEF ClaimIsExclusive, Claiming
    <3>3. RetryIsFresh(v)'
      BY <1>1, <1>2, <1>3, <2>1, <3>1 DEF RetryIsFresh, Retrying, Writing
    <3> QED BY <3>2, <3>3
  <2> QED BY <2>2, <2>3
<1>12. WriteIsHonest(h)' /\ SyncIsTrue(h)'
  BY <1>2 DEF WriteIsHonest, Writing, SyncIsTrue
<1>13. BundleFollows'
  BY <1>3, <1>8, BundleStays
<1> HIDE DEF what
<1> QED BY <1>2, <1>4, <1>8, <1>9, <1>10, <1>11, <1>12, <1>13, OneMoves DEF Parts

LEMMA HandOverKeeps ==
    ASSUME IInv, NEW h \in Handlers, HandOver(h)
    PROVE  IInv'
<1> DEFINE t == call[h].item.token
<1>0. TypeOK /\ call[h].step = "claimed" /\ t \in Attempts /\ t <= issued
  BY ItemType DEF IInv, TokensAreIssued, HandOver
<1>1. /\ executor[t] = "absent"
      /\ \A v \in Handlers : v # h => ~Claiming(v, t)
  BY <1>0 DEF IInv, ClaimIsExclusive
<1>2. /\ Claiming(h, t) /\ ~Spent(t)
      /\ ~(row.status = "queued" /\ row.token = t)
      /\ \A v \in Handlers : Retrying(v) => call[v].item.token # t
  BY <1>0 DEF IInv, Claiming, Spent, QueuedIsFresh, RetryIsFresh, Retrying, Writing
<1>3. /\ UNCHANGED <<row, issued, bundle, runOpen, faults>>
      /\ call' = [call EXCEPT ![h] = Idle] /\ call'[h] = Idle
      /\ \A v \in Handlers : v # h => call'[v] = call[v]
      /\ executor' = [executor EXCEPT ![t] = "working"]
  BY <1>0 DEF HandOver, TypeOK
<1>4. \A s \in Attempts : s # t => executor'[s] = executor[s]
  BY <1>0, <1>3 DEF TypeOK
<1>5. TypeOK'
  BY <1>0, <1>3, CallTypes DEF TypeOK, ExecutorStates
<1>6. \A v \in Handlers : call'[v] = call[v] \/ call'[v].step = "idle"
  BY <1>3, CallTypes
<1>7. \A s \in Attempts : Spent(s) => Spent(s)'
  BY <1>2, <1>3, <1>4, <1>6 DEF Spent, Claiming, Retrying, Writing
<1>8. Steady
  BY <1>1, <1>3, <1>4, <1>7 DEF Steady
<1>9. TokensAreIssued'
  BY <1>0, <1>3, <1>4, <1>6 DEF IInv, TokensAreIssued
<1>10. QueuedIsFresh'
  BY <1>0, <1>2, <1>3, <1>4, <1>6, RowFacts DEF IInv, QueuedIsFresh, Claiming
<1>11. RowIsHonest'
  BY <1>0, <1>3, <1>7, <1>8, RowFacts DEF IInv, RowIsHonest, Steady
<1>12. ASSUME NEW v \in Handlers
       PROVE  RetryIsFresh(v)' /\ ClaimIsExclusive(v)'
  <2>1. RetryIsFresh(v) /\ ClaimIsExclusive(v)
    BY DEF IInv
  <2>2. CASE call'[v].step = "idle"
    BY <2>2 DEF RetryIsFresh, ClaimIsExclusive, Retrying, Writing
  <2>3. CASE call'[v].step # "idle"
    <3>1. v # h /\ call'[v] = call[v] /\ call[v].item.token \in Attempts
      BY <1>0, <1>3, <2>3, CallTypes, ItemType
    <3>2. ClaimIsExclusive(v)'
      BY <1>1, <1>4, <1>6, <2>1, <3>1 DEF ClaimIsExclusive, Claiming
    <3>3. RetryIsFresh(v)'
      BY <1>2, <1>3, <1>4, <1>6, <2>1, <3>1 DEF RetryIsFresh, Retrying, Writing
    <3> QED BY <3>2, <3>3
  <2> QED BY <2>2, <2>3
<1>13. WriteIsHonest(h)' /\ SyncIsTrue(h)'
  BY <1>3, CallTypes DEF WriteIsHonest, Writing, SyncIsTrue
<1> QED BY <1>3, <1>5, <1>8, <1>9, <1>10, <1>11, <1>12, <1>13, BundleStays, OneMoves DEF Parts

(* What a callback makes of the row. *)
LEMMA ReportedFacts ==
    ASSUME TypeOK, NEW status \in TaskStatuses
    PROVE  /\ Reported(status) \in Rows /\ Reported(status).status = status
           /\ Reported(status).token = row.token /\ Reported(status).kind = row.kind
           /\ Reported(status).attempt # 0
<1>1. row \in Rows /\ row.attempt \in Nat
  BY DEF TypeOK, Rows
<1>2. Larger(row.attempt, 1) \in Nat /\ Larger(row.attempt, 1) # 0
  BY <1>1 DEF Larger
<1>3. Reported(status) = [row EXCEPT !.status = status, !.attempt = Larger(row.attempt, 1)]
  BY DEF Reported
<1> QED BY <1>1, <1>2, <1>3 DEF Rows

LEMMA RejectKeeps ==
    ASSUME IInv, NEW h \in Handlers, RejectClaim(h)
    PROVE  IInv'
<1>0. TypeOK /\ call[h].step = "claimed" /\ call[h].item.token \in Attempts
  BY ItemType DEF IInv, RejectClaim
<1>t. PICK t \in Attempts : t = call[h].item.token
  BY <1>0
<1>1. UNCHANGED <<row, issued, executor, bundle, runOpen, faults>>
  BY DEF RejectClaim
<1>2. CASE ~Accepts(t)
  <2>1. call' = [call EXCEPT ![h] = Idle]
    BY <1>2, <1>t DEF RejectClaim
  <2>2. BundleFollows'
    BY <1>1 DEF IInv, BundleFollows
  <2> QED BY <1>0, <1>1, <2>1, <2>2, CallTypes, LettingGoKeeps DEF TypeOK
<1>3. CASE Accepts(t)
  <2>0. PICK item : item = Reported("failed")
    OBVIOUS
  <2>1. call' = [call EXCEPT ![h] = [step |-> "write", item |-> item]]
    BY <1>3, <1>t, <2>0 DEF RejectClaim
  <2>2. "failed" \in TaskStatuses
    BY DEF TaskStatuses
  <2>3. item \in Rows /\ item.status = "failed" /\ item.token = row.token /\ item.kind = row.kind
    BY <1>0, <2>0, <2>2, ReportedFacts
  <2>4. row.token = t /\ row.status \notin TaskTerminal
    BY <1>3 DEF Accepts
  <2>5. /\ executor[t] = "absent" /\ row.status # "queued"
        /\ \A v \in Handlers : v # h => ~Claiming(v, t)
        /\ \A v \in Handlers : Retrying(v) => call[v].item.token # t
    BY <1>0, <1>t, <2>4 DEF IInv, ClaimIsExclusive, QueuedIsFresh, RetryIsFresh, Claiming
  <2>6. call'[h] = [step |-> "write", item |-> item] /\ (\A v \in Handlers : v # h => call'[v] = call[v])
    BY <1>0, <2>1 DEF TypeOK
  <2>7. Spent(t)'
    BY <1>1, <2>3, <2>5, <2>6 DEF Spent, Claiming, Retrying, Writing
  <2>8. Spent(item.token)'
    BY <2>3, <2>4, <2>7
  <2>9. item.status \in TaskReports
    BY <2>3 DEF TaskReports, TaskTerminal
  <2> QED BY <1>0, <1>1, <2>1, <2>3, <2>4, <2>5, <2>8, <2>9, DecideKeeps
<1> QED BY <1>2, <1>3

LEMMA CallbackKeeps ==
    ASSUME IInv, NEW h \in Handlers, RecordCallback(h)
    PROVE  IInv'
<1>0. TypeOK
  BY DEF IInv
<1>1. PICK t \in Attempts : \E status \in Reports(executor[t]) :
          Accepts(t) /\ Decide(h, Reported(status)) /\ UNCHANGED issued
  BY DEF RecordCallback
<1>2. PICK status \in Reports(executor[t]) :
          Accepts(t) /\ Decide(h, Reported(status)) /\ UNCHANGED issued
  BY <1>1
<1>item. PICK item : item = Reported(status)
  OBVIOUS
<1>3. executor[t] \in ExecutorStates
  BY <1>0 DEF TypeOK
<1>4. /\ status \in TaskStatuses /\ status # "queued"
      /\ status = "completed" => executor[t] = "succeeded"
      /\ status \in TaskTerminal => executor[t] \notin {"absent", "working"}
      /\ executor[t] # "absent"
      /\ row.kind # "vm_ssh_command" => status \in TaskReports
  BY <1>2, <1>3 DEF Reports, TaskReports, TaskStatuses, TaskTerminal, ExecutorStates
<1>5. item \in Rows /\ item.status = status /\ item.token = row.token /\ item.kind = row.kind
  BY <1>0, <1>4, <1>item, ReportedFacts
<1>6. row.token = t
  BY <1>2 DEF Accepts
<1>7. /\ call[h].step = "idle"
      /\ call' = [call EXCEPT ![h] = [step |-> "write", item |-> item]]
      /\ UNCHANGED <<row, issued, executor, bundle, runOpen, faults>>
  BY <1>2, <1>item DEF Decide
<1>8. status \in TaskTerminal => Spent(t)
  BY <1>4, EndedIsSpent
<1>9. status \in TaskTerminal => Spent(t)'
  <2>1. \A v \in Handlers : call'[v] = call[v] \/ call'[v] = [step |-> "write", item |-> item]
    BY <1>0, <1>7 DEF TypeOK
  <2> QED BY <1>4, <1>5, <1>7, <1>8, <2>1 DEF Spent, Claiming, Retrying, Writing
<1>10. (status = "failed" => status \in TaskTerminal) /\ "vm_ssh_command" \notin Confirmed
  BY DEF TaskTerminal, Confirmed
<1>11. row.status # "queued"
  BY <1>4, <1>6 DEF IInv, QueuedIsFresh
<1> QED BY <1>4, <1>5, <1>6, <1>7, <1>9, <1>10, <1>11, DecideKeeps

(* Cancellation, time-out and expiry, for which a copy is enough. *)
LEMMA OverwriteKeeps ==
    ASSUME IInv, NEW h \in Handlers,
           CancelExecutionTask(h) \/ MarkTaskTimedOut(h) \/ ExpireSSHCommand(h)
    PROVE  IInv'
<1>0. TypeOK /\ row \in Rows /\ row.attempt \in Nat
  BY DEF IInv, TypeOK, Rows
<1>1. CASE CancelExecutionTask(h) \/ MarkTaskTimedOut(h)
  <2>1. PICK status \in {"canceled", "callback_timeout"}, attempt \in Nat :
            /\ Decide(h, [row EXCEPT !.status = status, !.attempt = attempt])
            /\ UNCHANGED issued /\ row.kind \notin Confirmed
    <3>1. Larger(row.attempt, 1) \in Nat
      BY <1>0 DEF Larger
    <3> QED BY <1>0, <1>1, <3>1 DEF CancelExecutionTask, MarkTaskTimedOut
  <2>item. PICK item : item = [row EXCEPT !.status = status, !.attempt = attempt]
    OBVIOUS
  <2>2. item \in Rows /\ item.status = status /\ item.token = row.token /\ item.kind = row.kind
    BY <1>0, <2>item DEF Rows, TaskStatuses
  <2>3. /\ call[h].step = "idle"
        /\ call' = [call EXCEPT ![h] = [step |-> "write", item |-> item]]
        /\ UNCHANGED <<row, issued, executor, bundle, runOpen, faults>>
    BY <2>1, <2>item DEF Decide
  <2> QED BY <2>1, <2>2, <2>3, DecideKeeps
<1>2. CASE ExpireSSHCommand(h)
  <2>item. PICK item : item = [row EXCEPT !.status = "failed"]
    OBVIOUS
  <2>1. row.kind = "vm_ssh_command" /\ row.attempt = 0
    BY <1>2 DEF IInv, ExpireSSHCommand, QueuedIsFresh
  <2>2. /\ item \in Rows /\ item.status = "failed" /\ item.token = row.token
        /\ item.kind = row.kind /\ item.attempt = 0
    BY <1>0, <2>1, <2>item DEF Rows, TaskStatuses
  <2>3. /\ call[h].step = "idle"
        /\ call' = [call EXCEPT ![h] = [step |-> "write", item |-> item]]
        /\ UNCHANGED <<row, issued, executor, bundle, runOpen, faults>>
    BY <1>2, <2>item DEF ExpireSSHCommand, Decide
  <2> QED BY <2>1, <2>2, <2>3, DecideKeeps DEF Confirmed
<1> QED BY <1>1, <1>2

LEMMA RetryKeeps ==
    ASSUME IInv, NEW h \in Handlers, RetryExecutionTask(h)
    PROVE  IInv'
<1>item. PICK item : item = [row EXCEPT !.status = "queued", !.token = RetryToken]
  OBVIOUS
<1> DEFINE what == [step |-> "write", item |-> item]
<1>0. TypeOK /\ row \in Rows /\ row.kind = "build" /\ row.status # "queued"
  BY DEF IInv, TypeOK, RetryExecutionTask, isRetryableTaskStatus
<1>1. issued \in Attempts /\ issued < MaxTokens /\ issued' = issued + 1 /\ RetryToken = issued'
  BY <1>0 DEF RetryExecutionTask, TypeOK, RetryToken
<1>2. issued' \in Attempts
  BY <1>1, AttemptsAreNumbers
<1>3. item \in Rows /\ item.token = issued' /\ item.kind = "build" /\ item.status = "queued"
  BY <1>0, <1>1, <1>2, <1>item DEF Rows, TaskStatuses
<1>4. /\ call[h].step = "idle" /\ call' = [call EXCEPT ![h] = what]
      /\ UNCHANGED <<row, executor, bundle, runOpen, faults>>
  BY <1>item DEF RetryExecutionTask, Decide
<1>5. what \in Calls /\ what.step = "write" /\ what.item = item
  BY <1>3, CallTypes
<1>6. call'[h] = what /\ (\A v \in Handlers : v # h => call'[v] = call[v])
  BY <1>0, <1>4 DEF TypeOK
<1>7. TypeOK'
  BY <1>0, <1>2, <1>4, <1>5, <1>6 DEF TypeOK
<1>8. \A t \in Attempts : t <= issued => t <= issued' /\ t # issued'
  BY <1>1, AttemptsAreNumbers
<1>9. \A t \in Attempts : t <= issued /\ Spent(t) => Spent(t)'
  BY <1>3, <1>4, <1>5, <1>6, <1>8 DEF Spent, Claiming, Retrying, Writing
<1>10. Steady
  BY <1>4, <1>9 DEF Steady
<1>11. row.token \in Attempts /\ row.token <= issued
  BY <1>0, RowFacts DEF IInv, TokensAreIssued
<1>12. TokensAreIssued'
  <2>1. row'.token <= issued' /\ (row'.kind # "build" => issued' = 1)
    BY <1>0, <1>4, <1>8, <1>11
  <2>2. \A t \in Attempts : executor'[t] # "absent" => t <= issued'
    BY <1>4, <1>8 DEF IInv, TokensAreIssued
  <2>3. ASSUME NEW v \in Handlers, call'[v].step # "idle"
        PROVE  call'[v].item.token <= issued' /\ call'[v].item.kind = row'.kind
    <3>1. CASE v = h
      BY <1>0, <1>2, <1>3, <1>4, <1>5, <1>6, <3>1, AttemptsAreNumbers
    <3>2. CASE v # h
      <4>1. call'[v] = call[v] /\ call[v].item.token \in Attempts
        BY <1>0, <1>6, <2>3, <3>2, ItemType
      <4> QED BY <1>4, <1>8, <2>3, <4>1 DEF IInv, TokensAreIssued
    <3> QED BY <3>1, <3>2
  <2> QED BY <2>1, <2>2, <2>3 DEF TokensAreIssued
<1>13. QueuedIsFresh'
  BY <1>0, <1>4 DEF QueuedIsFresh
<1>14. RowIsHonest'
  BY <1>4, <1>9, <1>11 DEF IInv, RowIsHonest
<1>15. executor[issued'] = "absent"
  BY <1>1, <1>2, AttemptsAreNumbers DEF IInv, TokensAreIssued
<1>16. ASSUME NEW v \in Handlers
       PROVE  RetryIsFresh(v)' /\ ClaimIsExclusive(v)'
  <2>1. RetryIsFresh(v) /\ ClaimIsExclusive(v)
    BY DEF IInv
  <2>2. \A u \in Handlers : u # h /\ call[u].step # "idle" =>
            call[u].item.token # issued'
    BY <1>0, <1>8, ItemType DEF IInv, TokensAreIssued
  <2>3. CASE v = h
    <3>1. RetryIsFresh(v)'
      BY <1>0, <1>3, <1>4, <1>5, <1>6, <1>8, <1>11, <1>15, <2>2, <2>3
      DEF RetryIsFresh, Retrying, Writing
    <3>2. ClaimIsExclusive(v)'
      BY <1>5, <1>6, <2>3 DEF ClaimIsExclusive
    <3> QED BY <3>1, <3>2
  <2>4. CASE v # h
    <3>1. call'[v] = call[v]
      BY <1>6, <2>4
    <3>2. ClaimIsExclusive(v)'
      BY <1>4, <1>5, <1>6, <2>1, <3>1 DEF ClaimIsExclusive, Claiming
    <3>3. RetryIsFresh(v)'
      BY <1>3, <1>4, <1>5, <1>6, <2>1, <2>2, <2>4, <3>1 DEF RetryIsFresh, Retrying, Writing
    <3> QED BY <3>2, <3>3
  <2> QED BY <2>3, <2>4
<1>17. WriteIsHonest(h)' /\ SyncIsTrue(h)'
  BY <1>3, <1>5, <1>6 DEF WriteIsHonest, TaskTerminal, SyncIsTrue, Confirmed
<1> QED BY <1>4, <1>7, <1>10, <1>12, <1>13, <1>14, <1>16, <1>17, BundleStays, OneMoves DEF Parts

-----------------------------------------------------------------------------
(* The write *)

(* A write that queues the row does it for the retry it was decided for, and  *)
(* records an end only of an attempt that is spent.                           *)
LEMMA StoredKeeps ==
    ASSUME IInv, NEW h \in Handlers, Writing(h),
           NEW what \in Calls, what.step \in {"idle", "sync"},
           what.step = "sync" => /\ what.item.token <= issued /\ what.item.kind = row.kind
                                 /\ row.kind = "delivery_batch" =>
                                       row'.status \in TaskTerminal /\ what.item.status = row'.status,
           call' = [call EXCEPT ![h] = what],
           UNCHANGED <<issued, executor, bundle, runOpen, faults>>,
           NEW new \in Rows, row' = new, new.kind = row.kind, new.token <= issued,
           new.token \in {row.token, call[h].item.token},
           new.status = "queued" =>
               \/ new = row
               \/ Retrying(h) /\ new.token = call[h].item.token,
           new.status = "completed" => executor[new.token] = "succeeded",
           new.status = "failed" => Spent(new.token) \/ Spent(new.token)',
           new.kind \in Confirmed /\ new.status \in TaskTerminal => Spent(new.token),
           row.kind \in Confirmed /\ row.status \in TaskTerminal => new.status = row.status
    PROVE  IInv'
<1>0. /\ TypeOK /\ call'[h] = what /\ call[h].step = "write"
      /\ \A v \in Handlers : v # h => call'[v] = call[v]
  BY DEF IInv, TypeOK, Writing
<1>1. TypeOK'
  BY <1>0 DEF TypeOK
<1>2. \A v \in Handlers : call'[v].step \in {"claimed", "write"} => v # h /\ call'[v] = call[v]
  BY <1>0
<1>3. \A v \in Handlers : Retrying(v)' => v # h /\ Retrying(v) /\ call'[v] = call[v]
  BY <1>2 DEF Retrying, Writing
<1>4. \A v \in Handlers : \A t : Claiming(v, t)' => v # h /\ Claiming(v, t)
  BY <1>2 DEF Claiming
<1>5. \A t : Spent(t) => Spent(t)'
  BY <1>3, <1>4 DEF Spent
<1>6. Steady
  <2>1. Retrying(h) => row.kind \notin Confirmed
    BY DEF IInv, RetryIsFresh, Confirmed
  <2> QED BY <1>5, <2>1 DEF Steady
<1>7. TokensAreIssued'
  BY <1>0 DEF IInv, TokensAreIssued
<1>8. QueuedIsFresh'
  <2>1. CASE new = row
    BY <1>4, <2>1 DEF IInv, QueuedIsFresh
  <2>2. CASE Retrying(h) /\ new.token = call[h].item.token
    <3>1. /\ row.kind = "build" /\ executor[new.token] = "absent"
          /\ \A v \in Handlers \ {h} : call[v].step = "claimed" => call[v].item.token # new.token
      BY <2>2 DEF IInv, RetryIsFresh
    <3>2. \A v \in Handlers : ~Claiming(v, new.token)'
      BY <1>4, <3>1 DEF Claiming
    <3> QED BY <3>1, <3>2 DEF QueuedIsFresh
  <2> QED BY <2>1, <2>2 DEF QueuedIsFresh
<1>9. RowIsHonest'
  BY <1>5 DEF RowIsHonest
<1>10. ASSUME NEW v \in Handlers
       PROVE  RetryIsFresh(v)' /\ ClaimIsExclusive(v)'
  <2>1. RetryIsFresh(v) /\ ClaimIsExclusive(v)
    BY DEF IInv
  <2>2. ClaimIsExclusive(v)'
    BY <1>2, <1>4, <2>1 DEF ClaimIsExclusive
  <2>3. RetryIsFresh(v)'
    <3> SUFFICES ASSUME Retrying(v)' PROVE RetryIsFresh(v)'
      BY DEF RetryIsFresh
    <3>1. v # h /\ Retrying(v) /\ call'[v] = call[v]
      BY <1>3
    <3>2. call[h].item.token # call[v].item.token /\ row.token # call[v].item.token
      BY <1>0, <2>1, <3>1 DEF RetryIsFresh
    <3>3. \A u \in Handlers \ {v} : call'[u].step \in {"claimed", "write"} =>
              call'[u].item.token # call[v].item.token
      BY <1>2, <2>1, <3>1 DEF RetryIsFresh
    <3> QED BY <2>1, <3>1, <3>2, <3>3 DEF RetryIsFresh
  <2> QED BY <2>2, <2>3
<1>11. WriteIsHonest(h)' /\ SyncIsTrue(h)'
  BY <1>0 DEF WriteIsHonest, Writing, SyncIsTrue
<1> QED BY <1>1, <1>6, <1>7, <1>8, <1>9, <1>10, <1>11, BundleStays, OneMoves DEF Parts

(* What is written, after the service looked at it once more. *)
LEMMA ItemFacts ==
    ASSUME IInv, NEW h \in Handlers, Writing(h), NEW item \in Validated(call[h].item)
    PROVE  /\ item \in Rows /\ item.kind = row.kind /\ item.token \in Attempts
           /\ item.token = call[h].item.token /\ item.token <= issued
           /\ item.status = "queued" => Retrying(h)
           /\ item.status = "completed" => executor[item.token] = "succeeded"
           /\ item.status = "failed" => \/ Spent(item.token)
                                        \/ item.kind = "vm_ssh_command" /\ item.attempt = 0
           /\ item.kind \in Confirmed =>
                 /\ row.status # "queued"
                 /\ item.status \in TaskReports
                 /\ item.status \in TaskTerminal => Spent(item.token)
<1> DEFINE old == call[h].item
<1>0. /\ TypeOK /\ old \in Rows /\ old.token \in Attempts
      /\ old.token <= issued /\ old.kind = row.kind
  BY ItemType DEF IInv, TokensAreIssued, Writing
<1>1. WriteIsHonest(h)
  BY DEF IInv
<1>2. CASE item = old
  BY <1>0, <1>1, <1>2 DEF WriteIsHonest, Retrying
<1>3. CASE item # old
  <2>1. item = [old EXCEPT !.status = "failed"] /\ old.status = "completed"
    BY <1>3 DEF Validated
  <2>2. executor[old.token] = "succeeded"
    BY <1>1, <2>1 DEF WriteIsHonest
  <2>3. Spent(old.token)
    BY <1>0, <2>2, EndedIsSpent
  <2>4. /\ item \in Rows /\ item.token = old.token /\ item.kind = old.kind
        /\ item.status = "failed"
    BY <1>0, <2>1 DEF Rows, TaskStatuses
  <2>5. item.kind \in Confirmed => row.status # "queued"
    BY <1>1, <2>4 DEF WriteIsHonest
  <2> QED BY <1>0, <2>1, <2>3, <2>4, <2>5 DEF TaskReports, TaskTerminal
<1> QED BY <1>2, <1>3

(* Only builds are retried, so other kinds have one token. *)
LEMMA OneToken ==
    ASSUME IInv, row.kind # "build", NEW t \in Attempts, t <= issued
    PROVE  t = row.token
<1>1. issued = 1 /\ row.token \in Attempts /\ row.token <= 1
  BY RowFacts DEF IInv, TokensAreIssued
<1> QED BY <1>1, AttemptsAreNumbers DEF Attempts

LEMMA WriteKeeps ==
    ASSUME IInv, NEW h \in Handlers, Write(h)
    PROVE  IInv'
<1>0. Writing(h) /\ UNCHANGED <<issued, executor, bundle, runOpen, faults>>
  BY DEF Write, Writing
<1>1. PICK item \in Validated(call[h].item) :
          /\ row' = UpdateExecutionTask(item)
          /\ call' = [call EXCEPT ![h] =
                IF /\ item.kind \in {"build", "delivery_batch"}
                   /\ row'.status \in TaskTerminal \cup {"queued"}
                THEN [step |-> "sync", item |-> row']
                ELSE Idle]
  BY DEF Write
<1>2. /\ item \in Rows /\ item.kind = row.kind /\ item.token \in Attempts
      /\ item.token = call[h].item.token /\ item.token <= issued
      /\ item.status = "queued" => Retrying(h)
      /\ item.status = "completed" => executor[item.token] = "succeeded"
      /\ item.status = "failed" => \/ Spent(item.token)
                                   \/ item.kind = "vm_ssh_command" /\ item.attempt = 0
      /\ item.kind \in Confirmed =>
            /\ row.status # "queued"
            /\ item.status \in TaskReports
            /\ item.status \in TaskTerminal => Spent(item.token)
  BY <1>0, ItemFacts
<1>4. /\ TypeOK /\ row \in Rows /\ RowIsHonest
      /\ row.token \in Attempts /\ row.token <= issued
  BY RowFacts DEF IInv, TypeOK, TokensAreIssued
<1>5. PICK new \in Rows : new = UpdateExecutionTask(item)
  BY <1>2, <1>4, UpdateType
<1>6. row' = new /\ new.kind = row.kind /\ new.token \in {row.token, item.token}
  <2>1. new.token \in {row.token, item.token} /\ new.kind = row.kind
    BY <1>2, <1>4, <1>5 DEF UpdateExecutionTask, Rows
  <2> QED BY <1>1, <1>5, <2>1
<1>3. PICK what \in Calls :
          /\ what.step \in {"idle", "sync"}
          /\ what.step = "sync" =>
                /\ what.item.token <= issued /\ what.item.kind = row.kind
                /\ row.kind = "delivery_batch" =>
                      row'.status \in TaskTerminal /\ what.item.status = row'.status
          /\ call' = [call EXCEPT ![h] = what]
  <2>1. CASE /\ item.kind \in {"build", "delivery_batch"}
             /\ row'.status \in TaskTerminal \cup {"queued"}
    <3> DEFINE w == [step |-> "sync", item |-> new]
    <3>1. w \in Calls /\ w.step = "sync" /\ w.item = new /\ call' = [call EXCEPT ![h] = w]
      BY <1>1, <1>6, <2>1, CallTypes
    <3>2. new.token <= issued
      BY <1>2, <1>4, <1>6
    <3>3. ASSUME row.kind = "delivery_batch" PROVE new.status # "queued"
      <4>1. row.kind \in Confirmed /\ row.kind # "vm_ssh_command"
        BY <3>3 DEF Confirmed
      <4>2. item.status # "queued" /\ row.status # "queued"
        BY <1>2, <4>1 DEF TaskReports, TaskTerminal
      <4>3. new.status \in {row.status, item.status}
        BY <1>2, <1>4, <1>5, <4>1 DEF UpdateExecutionTask, StoredStatus, Rows
      <4> QED BY <4>2, <4>3
    <3> HIDE DEF w
    <3> QED BY <1>6, <2>1, <3>1, <3>2, <3>3
  <2>2. CASE ~(/\ item.kind \in {"build", "delivery_batch"}
               /\ row'.status \in TaskTerminal \cup {"queued"})
    <3>1. call' = [call EXCEPT ![h] = Idle]
      BY <1>1, <2>2
    <3> QED BY <3>1, CallTypes
  <2> QED BY <2>1, <2>2
<1>7. Retrying(h) => row.kind = "build"
  BY DEF IInv, RetryIsFresh
<1>8. CASE new = row
  BY <1>0, <1>3, <1>4, <1>6, <1>8, StoredKeeps DEF RowIsHonest
<1>9. CASE item.kind = "build" /\ new # row
  <2>1. new = item /\ row.kind \notin Confirmed
    BY <1>2, <1>5, <1>9 DEF UpdateExecutionTask, Confirmed
  <2> QED BY <1>0, <1>2, <1>3, <1>6, <1>9, <2>1, StoredKeeps
<1>10. CASE item.kind = "vm_ssh_command" /\ new # row
  <2>1. /\ item.status = "failed" /\ item.attempt = 0 => row.status = "queued"
        /\ new = [item EXCEPT !.attempt = Larger(item.attempt, row.attempt)]
    BY <1>5, <1>10 DEF UpdateExecutionTask, Confirmed
  <2>2. new.status = item.status /\ new.token = item.token /\ new.kind = item.kind
    BY <1>2, <2>1 DEF Rows
  <2>3. item.token = row.token
    BY <1>2, <1>10, OneToken
  <2>4. new.status = "failed" /\ ~Spent(new.token) => Spent(new.token)'
    <3> SUFFICES ASSUME new.status = "failed", ~Spent(new.token)
                 PROVE  Spent(new.token)'
      OBVIOUS
    <3>1. row.status = "queued"
      BY <1>2, <2>1, <2>2
    <3>2. executor[row.token] = "absent" /\ \A v \in Handlers : ~Claiming(v, row.token)
      BY <3>1 DEF IInv, QueuedIsFresh
    <3>3. \A v \in Handlers : ~Retrying(v)
      BY <1>2, <1>10 DEF IInv, RetryIsFresh
    <3>4. \A v \in Handlers : call'[v] = call[v] \/ call'[v] = what
      BY <1>3, <1>4 DEF TypeOK
    <3>5. \A v \in Handlers : ~Claiming(v, new.token)' /\ ~Retrying(v)'
      BY <1>3, <2>2, <2>3, <3>2, <3>3, <3>4 DEF Claiming, Retrying, Writing
    <3> QED BY <1>0, <1>6, <2>2, <2>3, <3>2, <3>5 DEF Spent
  <2>5. row.kind \notin Confirmed
    BY <1>2, <1>10 DEF Confirmed
  <2> QED BY <1>0, <1>2, <1>3, <1>6, <1>7, <1>10, <2>2, <2>4, <2>5, StoredKeeps
<1>11. CASE item.kind \in Confirmed /\ new # row
  <2>0. item.kind # "vm_ssh_command" /\ item.kind # "build"
    BY <1>11 DEF Confirmed
  <2>1. new = [item EXCEPT !.status = StoredStatus(row.status, item.status)]
    BY <1>5, <1>11, <2>0 DEF UpdateExecutionTask
  <2>2. new.status = StoredStatus(row.status, item.status) /\ new.token = item.token
        /\ new.kind = item.kind
    BY <1>2, <2>1 DEF Rows
  <2>3. item.token = row.token
    BY <1>2, <2>0, OneToken
  <2>4. item.status # "queued"
    BY <1>2, <1>11 DEF TaskReports, TaskTerminal
  <2>5. \/ new.status = item.status
        \/ new.status = row.status /\ row.status \in TaskTerminal \cup {"canceling"}
    BY <2>2 DEF StoredStatus
  <2>6. new.status # "queued"
    BY <2>4, <2>5 DEF TaskTerminal
  <2>7. new.status = "completed" => executor[new.token] = "succeeded"
    BY <1>2, <1>4, <2>2, <2>3, <2>5 DEF RowIsHonest
  <2>8. new.status \in TaskTerminal => Spent(new.token)
    BY <1>2, <1>4, <1>11, <2>2, <2>3, <2>5 DEF RowIsHonest
  <2>9. new.status = "failed" => Spent(new.token)
    BY <2>8 DEF TaskTerminal
  <2>10. row.status \in TaskTerminal => new.status = row.status
    BY <2>2 DEF StoredStatus
  <2> QED BY <1>0, <1>2, <1>3, <1>6, <2>2, <2>6, <2>7, <2>8, <2>9, <2>10, StoredKeeps
<1>12. item.kind \in {"build", "vm_ssh_command"} \cup Confirmed
  BY <1>2, KindsAssumption DEF Rows, Confirmed
<1> QED BY <1>8, <1>9, <1>10, <1>11, <1>12

-----------------------------------------------------------------------------
(* The steps without a decision *)

LEMMA StopKeeps ==
    ASSUME IInv, NEW h \in Handlers, RequestDeliveryTaskStop(h)
    PROVE  IInv'
<1>0. /\ TypeOK /\ row \in Rows /\ row.kind \in Confirmed /\ row.token \in Attempts
      /\ row.kind # "build"
  BY RowFacts DEF IInv, TypeOK, RequestDeliveryTaskStop, Confirmed
<1>1. /\ row' = [row EXCEPT !.status = RequestStop(row.status)]
      /\ UNCHANGED <<issued, executor, bundle, runOpen, faults>>
  BY DEF RequestDeliveryTaskStop
<1>2. RequestStop(row.status) \in TaskStatuses
  BY <1>0 DEF RequestStop, Rows, TaskStatuses
<1>3. /\ row' \in Rows /\ row'.token = row.token /\ row'.kind = row.kind
      /\ row'.status = RequestStop(row.status)
  BY <1>0, <1>1, <1>2 DEF Rows
<1>4. /\ row'.status # "queued"
      /\ row.status \in TaskTerminal => row'.status = row.status
      /\ row'.status \in TaskTerminal =>
             \/ row.status = row'.status
             \/ row.status = "queued" /\ row'.status = "canceled"
  BY <1>3 DEF RequestStop, TaskTerminal
<1>w. PICK what \in Calls :
          /\ what.step \in {"idle", "sync"}
          /\ what.step = "sync" => what.item = row' /\ row'.status \in TaskTerminal
          /\ call' = [call EXCEPT ![h] = what]
  <2>1. CASE row.kind = "delivery_batch" /\ row'.status \in TaskTerminal
    <3> DEFINE w == [step |-> "sync", item |-> row']
    <3>1. w \in Calls /\ w.step = "sync" /\ w.item = row' /\ call' = [call EXCEPT ![h] = w]
      BY <1>3, <2>1, CallTypes DEF RequestDeliveryTaskStop
    <3> HIDE DEF w
    <3> QED BY <2>1, <3>1
  <2>2. CASE ~(row.kind = "delivery_batch" /\ row'.status \in TaskTerminal)
    <3>1. call' = [call EXCEPT ![h] = Idle]
      BY <2>2 DEF RequestDeliveryTaskStop
    <3> QED BY <3>1, CallTypes
  <2> QED BY <2>1, <2>2
<1>c. /\ call'[h] = what
      /\ \A v \in Handlers : v # h => call'[v] = call[v]
  BY <1>0, <1>w DEF TypeOK
<1>5. TypeOK'
  BY <1>0, <1>1, <1>3, <1>w DEF TypeOK
<1>p. \A v \in Handlers : /\ Retrying(v)' => Retrying(v) /\ call'[v] = call[v]
                          /\ \A t : Claiming(v, t)' => Claiming(v, t)
  BY <1>w, <1>c DEF Retrying, Writing, Claiming
<1>6. \A t : Spent(t) => Spent(t)'
  BY <1>1, <1>4, <1>p DEF Spent
<1>7. Steady
  BY <1>1, <1>3, <1>4, <1>6 DEF Steady
<1>8. TokensAreIssued' /\ QueuedIsFresh'
  <2>1. row.token <= issued
    BY DEF IInv, TokensAreIssued
  <2>2. \A v \in Handlers : call'[v].step # "idle" =>
            call'[v].item.token <= issued /\ call'[v].item.kind = row.kind
    BY <1>3, <1>w, <1>c, <2>1 DEF IInv, TokensAreIssued
  <2> QED BY <1>1, <1>3, <1>4, <2>2 DEF IInv, TokensAreIssued, QueuedIsFresh
<1>9. RowIsHonest'
  <2>t. PICK t \in Attempts : t = row.token
    BY <1>0
  <2>1. \A v \in Handlers : ~Retrying(v)
    BY <1>0 DEF IInv, RetryIsFresh
  <2>2. row.status = "queued" => Spent(t)'
    BY <1>1, <1>4, <1>p, <2>1, <2>t DEF IInv, QueuedIsFresh, Spent
  <2>3. row.status \in TaskTerminal => Spent(t)
    BY <1>0, <2>t DEF IInv, RowIsHonest
  <2>4. row'.status \in TaskTerminal => Spent(t)'
    BY <1>4, <1>6, <2>2, <2>3
  <2>5. row'.status = "completed" => executor'[row'.token] = "succeeded"
    BY <1>1, <1>3, <1>4 DEF IInv, RowIsHonest, TaskTerminal
  <2>6. row'.token = t /\ (row'.status = "failed" => row'.status \in TaskTerminal)
    BY <1>3, <2>t DEF TaskTerminal
  <2> QED BY <2>4, <2>5, <2>6 DEF RowIsHonest
<1>10. ASSUME NEW v \in Handlers
       PROVE  RetryIsFresh(v)' /\ ClaimIsExclusive(v)'
  <2>1. RetryIsFresh(v) /\ ClaimIsExclusive(v)
    BY DEF IInv
  <2>2. RetryIsFresh(v)'
    BY <1>0, <1>p, <2>1 DEF RetryIsFresh
  <2>3. call'[v].step = "claimed" => call'[v] = call[v]
    BY <1>w, <1>c
  <2>4. ClaimIsExclusive(v)'
    BY <1>1, <1>p, <2>1, <2>3 DEF ClaimIsExclusive
  <2> QED BY <2>2, <2>4
<1>11. WriteIsHonest(h)' /\ SyncIsTrue(h)'
  BY <1>w, <1>c DEF WriteIsHonest, SyncIsTrue, Writing
<1> QED BY <1>1, <1>5, <1>7, <1>8, <1>9, <1>10, <1>11, <1>w, BundleStays, OneMoves DEF Parts

LEMMA EndWorkKeeps ==
    ASSUME IInv, NEW t \in Attempts, EndWork(t)
    PROVE  IInv'
<1>0. TypeOK /\ executor[t] = "working"
  BY DEF IInv, EndWork
<1>1. PICK result \in {"succeeded", "failed", "stopped", "expired"} : executor' = [executor EXCEPT ![t] = result]
  BY DEF EndWork
<1>2. UNCHANGED <<row, issued, bundle, call, runOpen, faults>>
  BY DEF EndWork
<1>3. /\ executor'[t] = result
      /\ \A s \in Attempts : s # t => executor'[s] = executor[s]
  BY <1>0, <1>1 DEF TypeOK
<1>4. TypeOK'
  BY <1>0, <1>1, <1>2 DEF TypeOK, ExecutorStates
<1>5. \A s \in Attempts : (executor[s] = "absent" => executor'[s] = "absent")
          /\ (executor[s] = "succeeded" => executor'[s] = "succeeded")
          /\ (executor[s] # "working" => executor'[s] # "working")
          /\ (executor'[s] # "absent" => executor[s] # "absent")
  BY <1>0, <1>3
<1>6. \A s \in Attempts : Spent(s) => Spent(s)'
  BY <1>2, <1>5 DEF Spent, Claiming, Retrying, Writing
<1>7. Steady
  BY <1>2, <1>5, <1>6 DEF Steady
<1>8. row.token \in Attempts
  BY <1>0, RowFacts
<1>9. TokensAreIssued' /\ QueuedIsFresh'
  BY <1>2, <1>5, <1>8 DEF IInv, TokensAreIssued, QueuedIsFresh, Claiming
<1>10. RowIsHonest'
  BY <1>2, <1>5, <1>6, <1>8 DEF IInv, RowIsHonest
<1>11. ASSUME NEW v \in Handlers
       PROVE  /\ RetryIsFresh(v)' /\ ClaimIsExclusive(v)'
              /\ WriteIsHonest(v)' /\ SyncIsTrue(v)'
  <2>1. call' = call /\ RetryIsFresh(v) /\ ClaimIsExclusive(v)
    BY <1>2 DEF IInv
  <2>2. WriteIsHonest(v)' /\ SyncIsTrue(v)'
    BY <1>7, <2>1, HoldingStays
  <2>3. call[v].step # "idle" => call[v].item.token \in Attempts
    BY <1>0, ItemType
  <2> QED BY <1>2, <1>5, <2>1, <2>2, <2>3
          DEF RetryIsFresh, ClaimIsExclusive, Retrying, Writing, Claiming
<1> QED BY <1>2, <1>4, <1>7, <1>9, <1>10, <1>11, BundleStays DEF IInv

(* The invariant is about everything but the run. *)
LEMMA FrameKeeps ==
    ASSUME IInv, UNCHANGED <<row, issued, executor, bundle, call, faults>>, runOpen' \in BOOLEAN
    PROVE  IInv'
<1>1. TypeOK'
  BY DEF IInv, TypeOK
<1>2. TokensAreIssued' /\ QueuedIsFresh' /\ BundleFollows'
  BY DEF IInv, TokensAreIssued, QueuedIsFresh, BundleFollows, Claiming
<1>3. \A t : Spent(t)' <=> Spent(t)
  BY DEF Spent, Claiming, Retrying, Writing
<1>4. RowIsHonest'
  BY <1>3 DEF IInv, RowIsHonest
<1>5. ASSUME NEW h \in Handlers
      PROVE  RetryIsFresh(h)' /\ ClaimIsExclusive(h)' /\ WriteIsHonest(h)' /\ SyncIsTrue(h)'
  <2>1. RetryIsFresh(h) /\ ClaimIsExclusive(h) /\ WriteIsHonest(h) /\ SyncIsTrue(h)
    BY DEF IInv
  <2>2. RetryIsFresh(h)' /\ ClaimIsExclusive(h)' /\ SyncIsTrue(h)'
    BY <2>1 DEF RetryIsFresh, ClaimIsExclusive, SyncIsTrue, Claiming, Retrying, Writing
  <2>3. WriteIsHonest(h)'
    BY <1>3, <2>1 DEF WriteIsHonest, Writing
  <2> QED BY <2>2, <2>3
<1> QED BY <1>1, <1>2, <1>4, <1>5 DEF IInv

LEMMA Inductive ==
    ASSUME IInv, [Next]_vars
    PROVE  IInv'
<1>0. bundle \in BundleStatuses /\ faults \in 0 .. MaxFaults
  BY DEF IInv, TypeOK
<1>1. ASSUME NEW h \in Handlers, HandlerStep(h)
      PROVE  IInv'
  <2>1. CASE ClaimExecutionTask(h)
    BY <2>1, ClaimKeeps
  <2>2. CASE HandOver(h)
    BY <2>2, HandOverKeeps
  <2>3. CASE RejectClaim(h)
    BY <2>3, RejectKeeps
  <2>4. CASE RecordCallback(h)
    BY <2>4, CallbackKeeps
  <2>5. CASE CancelExecutionTask(h) \/ MarkTaskTimedOut(h) \/ ExpireSSHCommand(h)
    BY <2>5, OverwriteKeeps
  <2>6. CASE RetryExecutionTask(h)
    BY <2>6, RetryKeeps
  <2>7. CASE Write(h)
    BY <2>7, WriteKeeps
  <2>8. CASE SyncBundle(h)
    <3>1. bundle' \in BundleStatuses
      BY <2>8 DEF SyncBundle, BundleStatus, BundleStatuses
    <3>2. BundleFollows'
      <4>1. /\ call[h].step = "sync" /\ UNCHANGED row
            /\ bundle' = BundleStatus(call[h].item.status)
        BY <2>8 DEF SyncBundle
      <4>2. call[h].item.kind = row.kind /\ SyncIsTrue(h)
        BY <4>1 DEF IInv, TokensAreIssued
      <4> QED BY <4>1, <4>2 DEF BundleFollows, SyncIsTrue, BundleStatus
    <3> QED BY <1>0, <2>8, <3>1, <3>2, CallTypes, LettingGoKeeps DEF SyncBundle
  <2>9. CASE Abandon(h)
    <3>1. faults' \in 0 .. MaxFaults
      BY <1>0, <2>9, LimitsAssumption DEF Abandon
    <3>2. BundleFollows'
      BY <2>9 DEF IInv, BundleFollows, Abandon
    <3> QED BY <1>0, <2>9, <3>1, <3>2, CallTypes, LettingGoKeeps DEF Abandon
  <2>10. CASE RequestDeliveryTaskStop(h)
    BY <2>10, StopKeeps
  <2> QED BY <1>1, <2>1, <2>2, <2>3, <2>4, <2>5, <2>6, <2>7, <2>8, <2>9, <2>10 DEF HandlerStep
<1>2. CASE CloseRun
  BY <1>2, FrameKeeps DEF CloseRun
<1>3. ASSUME NEW t \in Attempts, EndWork(t)
      PROVE  IInv'
  BY <1>3, EndWorkKeeps
<1>4. CASE UNCHANGED vars
  BY <1>4, FrameKeeps DEF vars, IInv, TypeOK
<1> QED BY <1>1, <1>2, <1>3, <1>4 DEF Next

-----------------------------------------------------------------------------
(* Theorems *)

(* Fresh tokens, exclusive claims and honest copies are kept by every step of *)
(* every handler, whatever the others did since it read the row.              *)
THEOREM Invariant == Spec => []IInv
<1>1. IInv /\ [Next]_vars => IInv'
  BY Inductive
<1> QED BY InitInductive, <1>1, PTL DEF Spec

(* Every variable keeps its type.  (ExecutionTask row and its handlers.) *)
THEOREM TypeCorrect == Spec => []TypeOK
<1>1. IInv => TypeOK
  BY DEF IInv
<1> QED BY <1>1, Invariant, PTL

(* A task is completed only by the agent that holds the row's token, whatever *)
(* callbacks of older attempts arrive.  (RecordCallback, RetryExecutionTask)  *)
THEOREM CompletedByItsAgent == Spec => []CompletedIsEarned
<1>1. IInv => CompletedIsEarned
  BY DEF IInv, RowIsHonest, CompletedIsEarned
<1> QED BY <1>1, Invariant, PTL

(* A task recorded as failed has no agent at work on it, even when a claim    *)
(* raced the expiry of the command.  (UpdateExecutionTask, RejectClaim)       *)
THEOREM FailedHasNoAgent == Spec => []FailedIsHonest
<1>1. IInv => FailedIsHonest
  BY DEF IInv, RowIsHonest, FailedIsHonest, Spent
<1> QED BY <1>1, Invariant, PTL

(* A Helm operation or a batch's build is over only when its executor is.     *)
(* (RequestDeliveryTaskStop, updateDeliveryTask)                              *)
THEOREM StopConfirmed == Spec => []StopIsConfirmed
<1>1. IInv => StopIsConfirmed
  BY DEF IInv, RowIsHonest, StopIsConfirmed, Spent
<1> QED BY <1>1, Invariant, PTL

(* No attempt is worked on twice.  (ClaimExecutionTask, RetryExecutionTask)   *)
THEOREM AttemptsRunOnce == Spec => AttemptRunsOnce
<1> DEFINE Once == \A t \in Attempts : executor[t] \notin {"absent", "working"}
                                          => executor'[t] = executor[t]
<1>1. IInv /\ [Next]_vars => [Once]_vars
  <2> SUFFICES ASSUME IInv, Next PROVE Once
    OBVIOUS
  <2>0. TypeOK
    BY DEF IInv
  <2>1. ASSUME NEW h \in Handlers, HandOver(h)
        PROVE  Once
    <3>1. call[h].item.token \in Attempts /\ executor[call[h].item.token] = "absent"
      BY <2>0, <2>1, ItemType DEF IInv, HandOver, ClaimIsExclusive
    <3> QED BY <2>0, <2>1, <3>1 DEF HandOver, TypeOK
  <2>2. ASSUME NEW h \in Handlers, HandlerStep(h), ~HandOver(h)
        PROVE  UNCHANGED executor
    BY <2>2 DEF HandlerStep, ClaimExecutionTask, RejectClaim, RecordCallback, CancelExecutionTask,
            MarkTaskTimedOut, ExpireSSHCommand, RetryExecutionTask, RequestDeliveryTaskStop,
            Write, SyncBundle, Abandon, Decide
  <2>3. ASSUME CloseRun
        PROVE  UNCHANGED executor
    BY <2>3 DEF CloseRun
  <2>4. ASSUME NEW t \in Attempts, EndWork(t)
        PROVE  Once
    BY <2>0, <2>4 DEF EndWork, TypeOK
  <2> QED BY <2>1, <2>2, <2>3, <2>4 DEF Next
<1>2. [][Once]_vars => AttemptRunsOnce
  BY PTL DEF AttemptRunsOnce
<1> QED BY <1>1, <1>2, Invariant, PTL DEF Spec

(* Where the repository compares with the stored row, that is for every kind  *)
(* but "build", a terminal task never changes again.  (UpdateExecutionTask,   *)
(* updateDeliveryTask; the overwriting of builds breaks it.)                  *)
THEOREM GuardedKindsEnd == Spec => GuardedIsFinal
<1> DEFINE Final == row.kind # "build" /\ row.status \in TaskTerminal => row'.status = row.status
<1>1. IInv /\ [Next]_vars => [Final]_vars
  <2> SUFFICES ASSUME IInv, Next, row.kind # "build", row.status \in TaskTerminal
               PROVE  row'.status = row.status
    OBVIOUS
  <2>0. TypeOK /\ row \in Rows /\ row.kind \in {"vm_ssh_command"} \cup Confirmed
    BY KindsAssumption DEF IInv, TypeOK, Rows, Confirmed
  <2>1. ASSUME NEW h \in Handlers, Write(h)
        PROVE  row'.status = row.status
    <3>1. PICK item \in Validated(call[h].item) : row' = UpdateExecutionTask(item)
      BY <2>1 DEF Write
    <3>2. item \in Rows /\ item.kind = row.kind
      BY <2>1, ItemFacts DEF Write, Writing
    <3>3. CASE item.kind = "vm_ssh_command"
      BY <3>1, <3>3 DEF UpdateExecutionTask, Confirmed
    <3>4. CASE item.kind \in Confirmed
      <4>0. item.kind # "vm_ssh_command"
        BY <3>4 DEF Confirmed
      <4>1. StoredStatus(row.status, item.status) = row.status
        BY DEF StoredStatus
      <4>2. row' = row \/ row' = [item EXCEPT !.status = row.status]
        BY <3>1, <3>4, <4>0, <4>1 DEF UpdateExecutionTask
      <4> QED BY <3>2, <4>2 DEF Rows
    <3> QED BY <2>0, <3>2, <3>3, <3>4
  <2>2. ASSUME NEW h \in Handlers, HandlerStep(h), ~Write(h), ~RequestDeliveryTaskStop(h)
        PROVE  UNCHANGED row
    <3>1. ~ClaimExecutionTask(h)
      BY DEF ClaimExecutionTask, TaskTerminal
    <3> QED BY <2>2, <3>1 DEF HandlerStep, HandOver, RejectClaim, RecordCallback, CancelExecutionTask,
            MarkTaskTimedOut, ExpireSSHCommand, RetryExecutionTask, SyncBundle, Abandon, Decide
  <2>3. ASSUME NEW h \in Handlers, RequestDeliveryTaskStop(h)
        PROVE  row'.status = row.status
    <3>1. RequestStop(row.status) = row.status
      BY DEF RequestStop, TaskTerminal
    <3>2. row' = [row EXCEPT !.status = RequestStop(row.status)]
      BY <2>3 DEF RequestDeliveryTaskStop
    <3> QED BY <2>0, <3>1, <3>2 DEF Rows
  <2>4. ASSUME CloseRun
        PROVE  UNCHANGED row
    BY <2>4 DEF CloseRun
  <2>5. ASSUME NEW t \in Attempts, EndWork(t)
        PROVE  UNCHANGED row
    BY <2>5 DEF EndWork
  <2> QED BY <2>1, <2>2, <2>3, <2>4, <2>5 DEF Next
<1>2. [][Final]_vars => GuardedIsFinal
  BY PTL DEF GuardedIsFinal
<1> QED BY <1>1, <1>2, Invariant, PTL DEF Spec

(* The bundle of a batch's build shows nothing but the end its task came to,  *)
(* however many handlers copy that end, late or twice.  (UpdateExecutionTask, *)
(* finishDeliveryTaskStop, updateTaskReleaseBundle)                           *)
THEOREM BatchBundleFollows == Spec => []BundleFollows
<1>1. IInv => BundleFollows
  BY DEF IInv
<1> QED BY <1>1, Invariant, PTL

-----------------------------------------------------------------------------
(* The contract *)

(* No step changes a task's kind. *)
LEMMA KindStays ==
    ASSUME IInv, [Next]_vars
    PROVE  row'.kind = row.kind
<1>0. TypeOK /\ row \in Rows
  BY DEF IInv, TypeOK
<1>1. ASSUME NEW h \in Handlers, Write(h)
      PROVE  row'.kind = row.kind
  <2>1. PICK item \in Validated(call[h].item) : row' = UpdateExecutionTask(item)
    BY <1>1 DEF Write
  <2>2. item \in Rows /\ item.kind = row.kind
    BY <1>1, <2>1, ItemFacts DEF Write, Writing
  <2> QED BY <1>0, <2>1, <2>2, UpdateType
<1>2. ASSUME NEW h \in Handlers, ClaimExecutionTask(h) \/ RequestDeliveryTaskStop(h)
      PROVE  row'.kind = row.kind
  BY <1>0, <1>2 DEF ClaimExecutionTask, RequestDeliveryTaskStop, Rows
<1>3. ASSUME NEW h \in Handlers, HandlerStep(h), ~Write(h), ~ClaimExecutionTask(h),
             ~RequestDeliveryTaskStop(h)
      PROVE  UNCHANGED row
  BY <1>3 DEF HandlerStep, HandOver, RejectClaim, RecordCallback, CancelExecutionTask,
      MarkTaskTimedOut, ExpireSSHCommand, RetryExecutionTask, SyncBundle, Abandon, Decide
<1>4. ASSUME CloseRun \/ UNCHANGED vars \/ \E t \in Attempts : EndWork(t)
      PROVE  UNCHANGED row
  BY <1>4 DEF CloseRun, EndWork, vars
<1> QED BY <1>1, <1>2, <1>3, <1>4 DEF Next

(* A task whose stop is confirmed has one attempt, which keeps its token. *)
LEMMA OneAttempt ==
    ASSUME IInv, row.kind \in Confirmed
    PROVE  /\ row.token = 1
           /\ \A h \in Handlers : call[h].step # "idle" => call[h].item.token = 1
<1>1. issued = 1 /\ row.token \in Attempts /\ row.token <= 1
  BY RowFacts DEF IInv, TokensAreIssued, Confirmed
<1>2. ASSUME NEW h \in Handlers, call[h].step # "idle"
      PROVE  call[h].item.token = 1
  <2>1. call[h].item.token \in Attempts /\ call[h].item.token <= 1
    BY <1>1, <1>2, ItemType DEF IInv, TokensAreIssued
  <2> QED BY <2>1, AttemptsAreNumbers DEF Attempts
<1> QED BY <1>1, <1>2, AttemptsAreNumbers DEF Attempts

(* The steps of the contract that handlers of such a task take. *)
LEMMA HandlerKeepsContract ==
    ASSUME IInv, row.kind \in Confirmed, row'.kind = row.kind,
           NEW h \in Handlers, HandlerStep(h)
    PROVE  [Contract!Next]_(Contract!vars)
<1> DEFINE Status == IF row.kind \in Confirmed THEN row.status ELSE "queued"
           Working == row.kind \in Confirmed /\ executor[row.token] = "working"
<1>0. TypeOK /\ row \in Rows /\ row.status \in TaskStatuses /\ runOpen' = runOpen
  BY DEF IInv, TypeOK, Rows, HandlerStep, ClaimExecutionTask, HandOver, RejectClaim,
     RecordCallback, CancelExecutionTask, MarkTaskTimedOut, ExpireSSHCommand,
     RetryExecutionTask, RequestDeliveryTaskStop, Write, SyncBundle, Abandon, Decide
<1>1. Status = row.status /\ Status' = row'.status
  OBVIOUS
<1>2. row.token = 1 /\ (call[h].step # "idle" => call[h].item.token = 1)
  BY OneAttempt
<1>3. CASE ClaimExecutionTask(h)
  <2>1. /\ row.status = "queued" /\ runOpen
        /\ row'.status = "dispatching" /\ row'.token = row.token /\ executor' = executor
    BY <1>0, <1>3 DEF ClaimExecutionTask, Rows
  <2>2. Contract!Dispatch
    BY <1>0, <2>1 DEF Contract!Dispatch
  <2> QED BY <2>2 DEF Contract!Next, Contract!TaskStep
<1>4. CASE HandOver(h)
  <2>1. call[h].step = "claimed" /\ row' = row
    BY <1>4 DEF HandOver
  <2>2. executor[1] = "absent" /\ executor' = [executor EXCEPT ![1] = "working"]
    BY <1>2, <1>4, <2>1 DEF IInv, ClaimIsExclusive, HandOver
  <2>3. executor'[1] = "working"
    BY <1>0, <2>2, AttemptsAreNumbers DEF TypeOK
  <2>4. Claiming(h, row.token)
    BY <1>2, <2>1 DEF Claiming
  <2>5. row.status # "queued" /\ row.status \notin TaskTerminal
    BY <2>4 DEF IInv, QueuedIsFresh, RowIsHonest, Spent
  <2>6. row.status \in TaskLive
    BY <1>0, <2>5 DEF TaskStatuses, TaskLive, TaskTerminal
  <2>7. Contract!StartWork
    BY <1>0, <1>2, <2>1, <2>3, <2>6 DEF Contract!StartWork, Contract!TaskLive, TaskLive
  <2> QED BY <2>7 DEF Contract!Next, Contract!TaskStep
<1>5. CASE RequestDeliveryTaskStop(h)
  <2>1. row'.status = RequestStop(row.status) /\ row'.token = row.token /\ executor' = executor
    BY <1>0, <1>5 DEF RequestDeliveryTaskStop, Rows
  <2>2. Contract!Stop
    BY <1>0, <2>1 DEF Contract!Stop, Contract!RequestStop, RequestStop
  <2> QED BY <2>2 DEF Contract!Next, Contract!TaskStep
<1>6. CASE Write(h)
  <2>1. PICK item \in Validated(call[h].item) : row' = UpdateExecutionTask(item)
    BY <1>6 DEF Write
  <2>2. executor' = executor /\ call[h].step = "write"
    BY <1>6 DEF Write
  <2>3. item \in Rows /\ item.kind = row.kind /\ item.token = call[h].item.token
    BY <2>1, <2>2, ItemFacts DEF Writing
  <2>4. item.token = 1
    BY <1>2, <2>2, <2>3
  <2>5. /\ row.status # "queued"
        /\ item.status \in TaskReports
        /\ item.status \in TaskTerminal => Spent(item.token)
    BY <2>1, <2>2, <2>3, ItemFacts DEF Writing
  <2>6. item.kind # "vm_ssh_command"
    BY <2>3 DEF Confirmed
  <2>7. row' = row \/ row' = [item EXCEPT !.status = StoredStatus(row.status, item.status)]
    BY <2>1, <2>3, <2>6 DEF UpdateExecutionTask
  <2>8. /\ row'.token = row.token
        /\ row'.status \in {row.status, StoredStatus(row.status, item.status)}
    BY <1>2, <2>3, <2>4, <2>7 DEF Rows
  <2>9. CASE row'.status = row.status
    BY <1>0, <1>1, <2>2, <2>8, <2>9 DEF Contract!vars
  <2>10. CASE row'.status # row.status
    <3>1. row.status \notin TaskTerminal /\ row'.status = StoredStatus(row.status, item.status)
      BY <2>8, <2>10 DEF StoredStatus
    <3>2. row.status \in TaskLive
      BY <1>0, <2>5, <3>1 DEF TaskStatuses, TaskLive, TaskTerminal
    <3>3. item.status \in TaskTerminal => executor[row.token] # "working"
      BY <1>2, <2>4, <2>5 DEF Spent
    <3>4. Contract!Report(item.status)
      BY <1>0, <2>2, <2>8, <3>1, <3>2, <3>3
      DEF Contract!Report, Contract!TaskLive, TaskLive, Contract!TaskTerminal, TaskTerminal,
          Contract!StoredStatus, StoredStatus
    <3> QED BY <2>5, <3>4
            DEF Contract!Next, Contract!TaskStep, Contract!TaskReports, TaskReports,
                Contract!TaskTerminal, TaskTerminal
  <2> QED BY <2>9, <2>10
<1>7. CASE UNCHANGED <<row, executor>>
  BY <1>0, <1>7 DEF Contract!vars
<1> QED BY <1>3, <1>4, <1>5, <1>6, <1>7
        DEF HandlerStep, RejectClaim, RecordCallback, CancelExecutionTask,
            MarkTaskTimedOut, ExpireSSHCommand, RetryExecutionTask, SyncBundle, Abandon, Decide

(* An agent that claims a Helm operation or a batch's build keeps the contract *)
(* the batch relies on, as Jobs and pipelines do: it is given the task after a *)
(* dispatch that the run allowed, and the end of the task is stored after the  *)
(* end of its work, whatever stale callbacks and stop requests are in flight.  *)
(* (ClaimExecutionTask, RecordCallback, updateDeliveryTask)                    *)
THEOREM Refinement == Spec => ContractSpec
<1> DEFINE Status == IF row.kind \in Confirmed THEN row.status ELSE "queued"
           Working == row.kind \in Confirmed /\ executor[row.token] = "working"
<1>1. Init => Contract!Init
  <2> SUFFICES ASSUME Init PROVE Contract!Init
    OBVIOUS
  <2>1. row.status = "queued" /\ row.token = 1 /\ executor[1] = "absent" /\ runOpen = TRUE
    BY AttemptsAreNumbers DEF Init
  <2>2. ~Working /\ Status = "queued"
    BY <2>1
  <2> QED BY <2>1, <2>2 DEF Contract!Init
<1>2. ASSUME IInv, [Next]_vars
      PROVE  [Contract!Next]_(Contract!vars)
  <2>0. row'.kind = row.kind /\ TypeOK
    BY <1>2, KindStays DEF IInv
  <2>1. CASE row.kind \notin Confirmed
    <3>1. Status' = Status /\ ~Working /\ ~Working'
      BY <2>0, <2>1
    <3>2. runOpen' = runOpen
      BY <1>2, <2>1 DEF Next, vars, CloseRun, EndWork, Confirmed,
         HandlerStep, ClaimExecutionTask, HandOver, RejectClaim,
         RecordCallback, CancelExecutionTask, MarkTaskTimedOut, ExpireSSHCommand,
         RetryExecutionTask, RequestDeliveryTaskStop, Write, SyncBundle, Abandon, Decide
    <3> QED BY <3>1, <3>2 DEF Contract!vars
  <2>2. ASSUME row.kind \in Confirmed, NEW h \in Handlers, HandlerStep(h)
        PROVE  [Contract!Next]_(Contract!vars)
    BY <1>2, <2>0, <2>2, HandlerKeepsContract
  <2>3. CASE row.kind \in Confirmed /\ (CloseRun \/ UNCHANGED vars)
    <3>1. /\ row' = row /\ executor' = executor
          /\ runOpen' = runOpen \/ (runOpen /\ runOpen' = FALSE)
      BY <2>3 DEF CloseRun, vars
    <3> QED BY <3>1 DEF Contract!Next, Contract!TaskStep, Contract!Close, Contract!vars
  <2>4. ASSUME row.kind \in Confirmed, NEW t \in Attempts, EndWork(t)
        PROVE  [Contract!Next]_(Contract!vars)
    <3>1. row' = row /\ runOpen' = runOpen
      BY <2>4 DEF EndWork
    <3>2. executor'[row.token] = executor[row.token] \/ executor'[row.token] # "working"
      BY <2>0, <2>4 DEF EndWork, TypeOK
    <3>3. CASE executor'[row.token] = executor[row.token]
      BY <3>1, <3>3 DEF Contract!vars
    <3>4. CASE executor'[row.token] # "working"
      <4>1. ~Working'
        BY <3>1, <3>4
      <4>2. Contract!EndWork
        BY <3>1, <4>1 DEF Contract!EndWork
      <4> QED BY <4>2 DEF Contract!Next, Contract!TaskStep
    <3> QED BY <3>2, <3>3, <3>4
  <2> QED BY <1>2, <2>1, <2>2, <2>3, <2>4 DEF Next
<1> QED BY <1>1, <1>2, Invariant, PTL DEF Spec, ContractSpec, Contract!Spec
=============================================================================
