------------------------ MODULE CapabilityRunProofs ------------------------
(***************************************************************************)
(* CapabilityRun for any plan, workers, revisions and faults: a child at   *)
(* work is never forgotten, a stopped run starts nothing, prerequisites    *)
(* come first and a completed run was verified under its own plan.         *)
(***************************************************************************)
EXTENDS CapabilityRun, WellFoundedInduction, TLAPS

(* A plan's steps are in order, so there is a first one. *)
LEMMA FirstIn ==
    ASSUME NEW S \in SUBSET Nodes, S # {}
    PROVE  First(S) \in S
<1>1. IsWellFoundedOn(OpToRel(<, Nat), Nat)
  BY NatLessThanWellFounded
<1>2. S \subseteq Nat
  BY NodesAssumption
<1>3. PICK x \in S : \A y \in S : ~(<<y, x>> \in OpToRel(<, Nat))
  BY <1>1, <1>2, WFMin
<1>4. ASSUME NEW y \in S PROVE x <= y
  <2>1. x \in Nat /\ y \in Nat
    BY <1>2
  <2>2. OpToRel(<, Nat) = {p \in Nat \X Nat : p[1] < p[2]}
    BY DEF OpToRel
  <2>3. ~(y < x)
    BY <1>3, <2>1, <2>2
  <2> QED BY <2>1, <2>3
<1> QED BY <1>4 DEF First

-----------------------------------------------------------------------------
(* One node and its child *)

Live(e) == e.sent /\ e.st \in {"running", "waiting_approval", "waiting_execution"}
ChildStates == {"none"} \cup ChildAtWork \cup ChildEnded

(* The call's effect: there is a child, and nothing else changes. *)
LEMMA EffectIs ==
    ASSUME NEW n \in Nodes, NEW d \in Domains
    PROVE  /\ Effect(n, d) \in Domains
           /\ Effect(n, d).call = d.call /\ Effect(n, d).cancel = d.cancel
           /\ d.child # "none" => Effect(n, d).child = d.child
           /\ d.child = "none" /\ n \in Async => Effect(n, d).child = "running"
           /\ d.child = "none" /\ n \notin Async => Effect(n, d).child = "succeeded"
<1>1. CASE d.child # "none"
  BY <1>1 DEF Effect
<1>2. CASE d.child = "none" /\ n \in Async
  <2>1. "running" \in ChildStates /\ Effect(n, d) = [d EXCEPT !.child = "running"]
    BY <1>2 DEF Effect, ChildStates, ChildAtWork
  <2> QED BY <1>2, <2>1 DEF Domains, ChildStates
<1>3. CASE d.child = "none" /\ n \notin Async
  <2>1. "succeeded" \in ChildStates /\ Effect(n, d) = [d EXCEPT !.child = "succeeded"]
    BY <1>3 DEF Effect, ChildStates, ChildEnded
  <2> QED BY <1>3, <2>1 DEF Domains, ChildStates
<1> QED BY <1>1, <1>2, <1>3

(* A live node's call takes effect once it needs no approval or was approved. *)
LEMMA EffectSound ==
    ASSUME NEW n \in Nodes, NEW e \in NodeRuns, NEW d \in Domains, NEW a \in Approvals,
           Live(e), NodeInv(n, e, d),
           n \in Guarded => a \notin {"none", "pending"}, n \notin Guarded => a = d.call
    PROVE  /\ [Effect(n, d) EXCEPT !.call = a] \in Domains
           /\ NodeInv(n, e, [Effect(n, d) EXCEPT !.call = a])
           /\ [Effect(n, d) EXCEPT !.call = a].child = Effect(n, d).child
           /\ Effect(n, d).child # "none"
           /\ n \notin Async => Effect(n, d).child = "succeeded"
<1> DEFINE D == [Effect(n, d) EXCEPT !.call = a]
<1>1. D \in Domains /\ D.child = Effect(n, d).child /\ D.call = a
  BY EffectIs DEF Domains
<1>2. Effect(n, d).child # "none" /\ (n \notin Async => Effect(n, d).child = "succeeded")
  BY EffectIs DEF NodeInv
<1>3. NodeInv(n, e, D)
  <2> HIDE DEF D
  <2>1. /\ e.inv = "open" => n \in Async
        /\ e.inv = "closed" => n \in Async /\ Effect(n, d).child \in ChildEnded
        /\ e.inv = "done" => n \notin Async
    BY EffectIs DEF NodeInv, ChildEnded
  <2> QED BY <1>1, <1>2, <2>1 DEF NodeInv, Live
<1> QED BY <1>1, <1>2, <1>3

(* What a call's answer makes of a node *)
LEMMA ResultsAre ==
    ASSUME NEW n \in Nodes, NEW e \in NodeRuns, NEW c \in ChildStates, c # "none",
           NEW r \in Results(n, e, c)
    PROVE  /\ r \in NodeRuns /\ r.sent = e.sent
           /\ n \notin Async => r.inv = "done" /\ r.st = "completed"
           /\ n \in Async /\ c \in ChildAtWork => r.inv = "open" /\ r.st = "waiting_execution"
           /\ n \in Async /\ c \in ChildEnded =>
                 /\ r.inv = "closed"
                 /\ r.st = IF c = "succeeded" THEN "completed"
                           ELSE IF c = "unknown" THEN "blocked" ELSE "failed"
<1>0. {"completed", "waiting_execution", "blocked", "failed"} \subseteq NodeStatuses
  BY DEF NodeStatuses, NodeTerminal
<1>1. CASE n \notin Async
  <2>1. PICK v \in Verdicts : r = [e EXCEPT !.inv = "done", !.st = "completed", !.verdict = v]
    BY <1>1 DEF Results, Verdicts
  <2> QED BY <1>0, <1>1, <2>1 DEF NodeRuns
<1>2. CASE n \in Async /\ c \in ChildAtWork
  <2>1. r = [e EXCEPT !.inv = "open", !.st = "waiting_execution"]
    BY <1>2 DEF Results
  <2>2. c \notin ChildEnded
    BY <1>2 DEF ChildAtWork, ChildEnded
  <2> QED BY <1>0, <1>2, <2>1, <2>2 DEF NodeRuns
<1>3. CASE n \in Async /\ c = "succeeded"
  <2>1. c \notin ChildAtWork
    BY <1>3 DEF ChildAtWork
  <2>2. PICK v \in Verdicts : r = [e EXCEPT !.inv = "closed", !.st = "completed", !.verdict = v]
    BY <1>3, <2>1 DEF Results, Verdicts
  <2> QED BY <1>0, <1>3, <2>1, <2>2 DEF NodeRuns
<1>4. CASE n \in Async /\ c \in ChildEnded \ {"succeeded"}
  <2>1. c \notin ChildAtWork
    BY <1>4 DEF ChildAtWork, ChildEnded
  <2>2. r = [e EXCEPT !.inv = "closed", !.st = IF c = "unknown" THEN "blocked" ELSE "failed"]
    BY <1>4, <2>1 DEF Results
  <2> QED BY <1>0, <1>4, <2>1, <2>2 DEF NodeRuns
<1> QED BY <1>1, <1>2, <1>3, <1>4 DEF ChildStates

(* The outcome of an attempt to advance e: sound with the call recorded, and also
   if the worker dies before that. *)
Sound(n, e, o) ==
    /\ o.node \in NodeRuns /\ o.dom \in Domains
    /\ o.node.sent /\ NodeInv(n, o.node, o.dom)
    /\ NodeInv(n, e, o.dom)

LEMMA OutcomeFields ==
    ASSUME NEW e, NEW d
    PROVE  Outcome(e, d).node = e /\ Outcome(e, d).dom = d
BY DEF Outcome

LEMMA ResultsSound ==
    ASSUME NEW n \in Nodes, NEW e \in NodeRuns, NEW D \in Domains, NEW c \in ChildStates,
           Live(e), NodeInv(n, e, D), D.child # "none", n \notin Async => D.child = "succeeded",
           c # "none", n \in Async => c = D.child \/ c \in ChildAtWork,
           NEW r \in Results(n, e, c)
    PROVE  Sound(n, e, Outcome(r, D)) /\ r.sent
<1>1. r.sent /\ r \in NodeRuns
  BY ResultsAre DEF Live
<1>2. NodeInv(n, r, D)
  <2>1. CASE n \notin Async
    BY <1>1, <2>1, ResultsAre DEF NodeInv, Resolved, ChildAtWork
  <2>2. CASE n \in Async /\ c \in ChildAtWork
    BY <1>1, <2>2, ResultsAre DEF NodeInv
  <2>3. CASE n \in Async /\ c \in ChildEnded
    <3>1. c = D.child /\ c \notin ChildAtWork
      BY <2>3 DEF ChildEnded, ChildAtWork
    <3> QED BY <1>1, <2>3, <3>1, ResultsAre DEF NodeInv, Resolved
  <2> QED BY <2>1, <2>2, <2>3 DEF ChildStates
<1> QED BY <1>1, <1>2, OutcomeFields DEF Sound

LEMMA CanceledResultsSound ==
    ASSUME NEW n \in Nodes, NEW e \in NodeRuns, NEW D \in Domains,
           Live(e), NodeInv(n, e, D), D.child # "none",
           NEW r \in CanceledResults(n, e, D.child)
    PROVE  Sound(n, e, Outcome(r, D))
<1>0. D.child \in ChildStates
  BY DEF Domains, ChildStates
<1>1. PICK x \in Results(n, e, D.child) :
        r = IF D.child \in ChildEnded \ {"unknown"} THEN [x EXCEPT !.st = "canceled"] ELSE x
  BY DEF CanceledResults
<1>2. Sound(n, e, Outcome(x, D)) /\ x.sent
  BY <1>0, ResultsSound DEF NodeInv
<1>3. CASE D.child \in ChildEnded \ {"unknown"}
  <2>1. D.child \notin ChildAtWork
    BY <1>3 DEF ChildAtWork, ChildEnded
  <2>2. x \in NodeRuns /\ NodeInv(n, x, D)
    BY <1>2, OutcomeFields DEF Sound
  <2>3. r \in NodeRuns /\ r.sent /\ r.inv = x.inv /\ r.st = "canceled"
    BY <1>1, <1>2, <1>3, <2>2 DEF NodeRuns, NodeStatuses, NodeTerminal
  <2>4. NodeInv(n, r, D)
    BY <2>1, <2>2, <2>3 DEF NodeInv
  <2> QED BY <2>3, <2>4, OutcomeFields DEF Sound
<1>4. CASE D.child \notin ChildEnded \ {"unknown"}
  BY <1>1, <1>2, <1>4
<1> QED BY <1>3, <1>4

(* A change of status alone, to one that ends nothing or that no child contradicts *)
LEMMA StatusSoundStep ==
    ASSUME NEW n \in Nodes, NEW e \in NodeRuns, NEW d \in Domains, NodeInv(n, e, d), e.sent,
           NEW s \in {"blocked", "waiting_approval", "failed", "canceled"},
           s \in {"failed", "canceled"} => d.child \notin ChildAtWork \/ d.call = "refused"
    PROVE  /\ [e EXCEPT !.st = s] \in NodeRuns /\ [e EXCEPT !.st = s].sent
           /\ NodeInv(n, [e EXCEPT !.st = s], d)
<1>1. /\ [e EXCEPT !.st = s] \in NodeRuns /\ [e EXCEPT !.st = s].sent
      /\ [e EXCEPT !.st = s].inv = e.inv /\ [e EXCEPT !.st = s].st = s
  BY DEF NodeRuns, NodeStatuses, NodeTerminal
<1> QED BY <1>1 DEF NodeInv

LEMMA SoundOutcome ==
    ASSUME NEW n \in Nodes, NEW e, NEW x \in NodeRuns, NEW d \in Domains,
           NodeInv(n, e, d), NodeInv(n, x, d), x.sent
    PROVE  Sound(n, e, Outcome(x, d))
BY OutcomeFields DEF Sound

LEMMA BlockedSound ==
    ASSUME NEW n \in Nodes, NEW e, NEW x \in NodeRuns, NEW d \in Domains,
           NodeInv(n, e, d), NodeInv(n, x, d), x.sent
    PROVE  Sound(n, e, Blocked(x, d))
<1> DEFINE y == [x EXCEPT !.st = "blocked"]
<1>1. y \in NodeRuns /\ y.sent /\ NodeInv(n, y, d)
  BY StatusSoundStep
<1>2. Blocked(x, d) = Outcome(y, d)
  BY DEF Blocked
<1> HIDE DEF y
<1> QED BY <1>1, <1>2, SoundOutcome

(* The call is made, or its approval observed: what it leads to is sound. *)
LEMMA ObservedSound ==
    ASSUME NEW n \in Nodes, NEW e \in NodeRuns, NEW d \in Domains,
           Live(e), NodeInv(n, e, d), d.call # "none", NEW o \in Observed(n, e, d)
    PROVE  Sound(n, e, o)
<1>0. n \in Guarded /\ e.sent
  BY DEF NodeInv, Live
<1>1. CASE d.call = "pending"
  <2>1. d.child = "none" /\ d.child \notin ChildAtWork
    BY <1>0, <1>1 DEF NodeInv, ChildAtWork
  <2>2. PICK s \in {"waiting_approval", "failed"} : o = Outcome([e EXCEPT !.st = s], d)
    BY <1>1 DEF Observed
  <2>3. [e EXCEPT !.st = s] \in NodeRuns /\ [e EXCEPT !.st = s].sent /\ NodeInv(n, [e EXCEPT !.st = s], d)
    BY <1>0, <2>1, StatusSoundStep
  <2> QED BY <2>2, <2>3, SoundOutcome
<1>2. CASE d.call = "approved"
  <2> DEFINE D == [Effect(n, d) EXCEPT !.call = "executed"]
  <2>1. "executed" \in Approvals
    BY DEF Approvals
  <2>2. /\ D \in Domains /\ NodeInv(n, e, D) /\ D.child = Effect(n, d).child
        /\ Effect(n, d).child # "none" /\ (n \notin Async => Effect(n, d).child = "succeeded")
    BY <1>0, <2>1, EffectSound
  <2>3. PICK r \in Results(n, e, Effect(n, d).child) : o = Outcome(r, D)
    BY <1>2 DEF Observed
  <2>4. Effect(n, d).child \in ChildStates
    BY EffectIs DEF Domains, ChildStates
  <2> HIDE DEF D
  <2> QED BY <2>2, <2>3, <2>4, ResultsSound
<1>3. CASE d.call = "executed"
  <2>1. d.child # "none" /\ (n \notin Async => d.child = "succeeded")
    BY <1>3 DEF NodeInv
  <2>2. PICK r \in Results(n, e, "running") : o = Outcome(r, d)
    BY <1>3 DEF Observed
  <2>3. "running" \in ChildStates /\ "running" \in ChildAtWork
    BY DEF ChildStates, ChildAtWork
  <2> QED BY <2>1, <2>2, <2>3, ResultsSound
<1>4. CASE d.call = "refused"
  <2>1. o = Outcome([e EXCEPT !.st = "failed"], d)
    BY <1>4 DEF Observed
  <2>2. /\ [e EXCEPT !.st = "failed"] \in NodeRuns /\ [e EXCEPT !.st = "failed"].sent
        /\ NodeInv(n, [e EXCEPT !.st = "failed"], d)
    BY <1>0, <1>4, StatusSoundStep
  <2> QED BY <2>1, <2>2, SoundOutcome
<1>5. d.call \in Approvals
  BY DEF Domains
<1> QED BY <1>1, <1>2, <1>3, <1>4, <1>5 DEF Approvals

LEMMA InvokedSound ==
    ASSUME NEW n \in Nodes, NEW e \in NodeRuns, NEW d \in Domains,
           Live(e), NodeInv(n, e, d), d.call = "none", NEW o \in Invoked(n, e, d)
    PROVE  Sound(n, e, o)
<1>1. CASE n \in Guarded
  <2> DEFINE y == [e EXCEPT !.inv = "held", !.st = "waiting_approval"]
             D == [d EXCEPT !.call = "pending"]
  <2>1. o = Outcome(y, D)
    BY <1>1 DEF Invoked
  <2>2. y \in NodeRuns /\ y.sent /\ y.inv = "held" /\ y.st = "waiting_approval"
    BY DEF Live, NodeRuns, NodeStatuses
  <2>3. D \in Domains /\ D.child = d.child /\ D.call = "pending"
    BY DEF Domains, Approvals
  <2>4. d.child = "none"
    BY <1>1 DEF NodeInv
  <2> HIDE DEF y, D
  <2>5. NodeInv(n, y, D)
    BY <1>1, <2>2, <2>3, <2>4 DEF NodeInv, ChildAtWork
  <2>6. NodeInv(n, e, D)
    BY <1>1, <2>3, <2>4 DEF NodeInv, ChildAtWork
  <2> QED BY <2>1, <2>2, <2>3, <2>5, <2>6, SoundOutcome
<1>2. CASE n \notin Guarded
  <2> DEFINE D == [Effect(n, d) EXCEPT !.call = d.call]
  <2>0. d.call \in Approvals
    BY DEF Domains
  <2>1. D = Effect(n, d)
    BY EffectIs DEF Domains
  <2>2. /\ D \in Domains /\ NodeInv(n, e, D) /\ D.child = Effect(n, d).child
        /\ Effect(n, d).child # "none" /\ (n \notin Async => Effect(n, d).child = "succeeded")
    BY <1>2, <2>0, EffectSound
  <2>3. PICK r \in Results(n, e, Effect(n, d).child) : o = Outcome(r, Effect(n, d))
    BY <1>2 DEF Invoked
  <2>4. Effect(n, d).child \in ChildStates
    BY EffectIs DEF Domains, ChildStates
  <2> HIDE DEF D
  <2> QED BY <2>1, <2>2, <2>3, <2>4, ResultsSound
<1> QED BY <1>1, <1>2

LEMMA ForwardSound ==
    ASSUME NEW n \in Nodes, NEW e \in NodeRuns, NEW d \in Domains,
           Live(e), NodeInv(n, e, d), NEW o \in Forward(n, e, d)
    PROVE  Sound(n, e, o)
<1>0. e.sent /\ d.child \in ChildStates
  BY DEF Live, Domains, ChildStates
<1>1. CASE o = Blocked(e, d)
  BY <1>0, <1>1, BlockedSound
<1>2. CASE o # Blocked(e, d) /\ HasTask(e)
  <2>1. PICK r \in Results(n, e, d.child) : o = Outcome(r, d)
    BY <1>2 DEF Forward
  <2>2. n \in Async /\ d.child # "none"
    BY <1>2 DEF HasTask, NodeInv, ChildEnded
  <2> QED BY <1>0, <2>1, <2>2, ResultsSound
<1>3. CASE o # Blocked(e, d) /\ ~HasTask(e) /\ d.call # "none"
  BY <1>3, ObservedSound DEF Forward
<1>4. CASE o # Blocked(e, d) /\ ~HasTask(e) /\ d.call = "none"
  BY <1>4, InvokedSound DEF Forward
<1> QED BY <1>1, <1>2, <1>3, <1>4

-----------------------------------------------------------------------------
(* Canceling a node *)

(* The child is asked to stop, or the approval of that call changes. *)
LEMMA StopAskedSound ==
    ASSUME NEW n \in Nodes, NEW e, NEW d \in Domains, NodeInv(n, e, d), NEW a \in Approvals
    PROVE  /\ [StopAsked(d) EXCEPT !.cancel = a] \in Domains
           /\ NodeInv(n, e, [StopAsked(d) EXCEPT !.cancel = a])
           /\ [StopAsked(d) EXCEPT !.cancel = a].child = StopAsked(d).child
           /\ StopAsked(d).child = "none" <=> d.child = "none"
           /\ StopAsked(d) \in Domains
<1>0. "stopping" \in ChildStates /\ "stopping" \in ChildAtWork /\ "running" \in ChildAtWork
      /\ "running" \notin ChildEnded
  BY DEF ChildStates, ChildAtWork, ChildEnded
<1>1. StopAsked(d) \in Domains /\ StopAsked(d).call = d.call
  <2>1. CASE d.child = "running"
    BY <1>0, <2>1 DEF StopAsked, Domains, ChildStates
  <2>2. CASE d.child # "running"
    BY <2>2 DEF StopAsked
  <2> QED BY <2>1, <2>2
<1>2. StopAsked(d).child = IF d.child = "running" THEN "stopping" ELSE d.child
  BY DEF StopAsked, Domains
<1> DEFINE D == [StopAsked(d) EXCEPT !.cancel = a]
<1>3. D \in Domains /\ D.child = StopAsked(d).child /\ D.call = d.call
  BY <1>1 DEF Domains
<1>4. NodeInv(n, e, D)
  <2> HIDE DEF D
  <2>1. CASE d.child = "running"
    BY <1>0, <1>2, <1>3, <2>1 DEF NodeInv
  <2>2. CASE d.child # "running"
    BY <1>2, <1>3, <2>2 DEF NodeInv
  <2> QED BY <2>1, <2>2
<1> QED BY <1>1, <1>2, <1>3, <1>4

LEMMA CancelFieldSound ==
    ASSUME NEW n \in Nodes, NEW e, NEW d \in Domains, NodeInv(n, e, d), NEW a \in Approvals
    PROVE  /\ [d EXCEPT !.cancel = a] \in Domains /\ NodeInv(n, e, [d EXCEPT !.cancel = a])
           /\ [d EXCEPT !.cancel = a].child = d.child
<1> DEFINE D == [d EXCEPT !.cancel = a]
<1>1. D \in Domains /\ D.child = d.child /\ D.call = d.call
  BY DEF Domains
<1>2. NodeInv(n, e, D)
  <2> HIDE DEF D
  <2> QED BY <1>1 DEF NodeInv
<1> QED BY <1>1, <1>2

(* The results of a cancel call answered with the child of D *)
LEMMA CancelResultsSound ==
    ASSUME NEW n \in Nodes, NEW e, NEW x \in NodeRuns, NEW D \in Domains,
           Live(x), NodeInv(n, x, D), NodeInv(n, e, D), D.child # "none",
           NEW r \in CanceledResults(n, x, D.child)
    PROVE  Sound(n, e, Outcome(r, D))
<1>1. Sound(n, x, Outcome(r, D))
  BY CanceledResultsSound
<1> QED BY <1>1, OutcomeFields DEF Sound

LEMMA CancelTaskSound ==
    ASSUME NEW n \in Nodes, NEW e, NEW x \in NodeRuns, NEW d \in Domains,
           Live(x), NodeInv(n, x, d), NodeInv(n, e, d), d.child # "none",
           NEW o \in CancelTask(n, x, d)
    PROVE  Sound(n, e, o)
<1> DEFINE y == [x EXCEPT !.control = TRUE]
<1>1. y \in NodeRuns /\ y.sent = x.sent /\ y.st = x.st /\ y.inv = x.inv
  BY DEF NodeRuns
<1>2. Live(y) /\ NodeInv(n, y, d) /\ y.sent
  <2> HIDE DEF y
  <2> QED BY <1>1 DEF Live, NodeInv, Resolved
<1>3. {"pending", "executed"} \subseteq Approvals /\ d.cancel \in Approvals
  BY DEF Approvals, Domains
<1>4. CASE o = Blocked(y, d)
  <2> HIDE DEF y
  <2> QED BY <1>1, <1>2, <1>4, BlockedSound
<1>5. CASE o = Outcome([y EXCEPT !.st = "waiting_approval"], [d EXCEPT !.cancel = "pending"])
  <2> HIDE DEF y
  <2> DEFINE D == [d EXCEPT !.cancel = "pending"]
  <2>1. D \in Domains /\ NodeInv(n, y, D) /\ NodeInv(n, e, D)
    BY <1>2, <1>3, CancelFieldSound
  <2> HIDE DEF D
  <2>2. /\ [y EXCEPT !.st = "waiting_approval"] \in NodeRuns
        /\ [y EXCEPT !.st = "waiting_approval"].sent
        /\ NodeInv(n, [y EXCEPT !.st = "waiting_approval"], D)
    BY <1>1, <1>2, <2>1, StatusSoundStep
  <2>3. o = Outcome([y EXCEPT !.st = "waiting_approval"], D)
    BY <1>5 DEF D
  <2> QED BY <2>1, <2>2, <2>3, SoundOutcome
<1>6. CASE \E r \in CanceledResults(n, y, StopAsked(d).child) : o = Outcome(r, StopAsked(d))
  <2> HIDE DEF y
  <2> DEFINE D == [StopAsked(d) EXCEPT !.cancel = StopAsked(d).cancel]
  <2>0. StopAsked(d).cancel \in Approvals /\ StopAsked(d) \in Domains
    BY <1>3, StopAskedSound DEF Domains
  <2>1. D = StopAsked(d)
    BY <2>0 DEF Domains
  <2>2. /\ D \in Domains /\ NodeInv(n, y, D) /\ NodeInv(n, e, D)
        /\ D.child = StopAsked(d).child /\ D.child # "none"
    BY <1>2, <2>0, StopAskedSound
  <2> HIDE DEF D
  <2> QED BY <1>1, <1>2, <1>6, <2>1, <2>2, CancelResultsSound
<1>7. CASE \E r \in CanceledResults(n, y, StopAsked(d).child) :
             o = Outcome(r, [StopAsked(d) EXCEPT !.cancel = "executed"])
  <2> HIDE DEF y
  <2> DEFINE D == [StopAsked(d) EXCEPT !.cancel = "executed"]
  <2>2. /\ D \in Domains /\ NodeInv(n, y, D) /\ NodeInv(n, e, D)
        /\ D.child = StopAsked(d).child /\ D.child # "none"
    BY <1>2, <1>3, StopAskedSound
  <2>3. PICK r \in CanceledResults(n, y, StopAsked(d).child) : o = Outcome(r, D)
    BY <1>7
  <2> HIDE DEF D
  <2> QED BY <1>1, <1>2, <2>2, <2>3, CancelResultsSound
<1>8. CASE \E r \in CanceledResults(n, y, d.child) : o = Outcome(r, d)
  <2> HIDE DEF y
  <2> QED BY <1>1, <1>2, <1>8, CancelResultsSound
<1> QED BY <1>4, <1>5, <1>6, <1>7, <1>8 DEF CancelTask

(* What recoverCapabilityNodeOnStop makes of a node *)
LEMMA RecoveredSound ==
    ASSUME NEW n \in Nodes, NEW e \in NodeRuns, NEW d \in Domains,
           Live(e), NodeInv(n, e, d), NEW x \in Recovered(n, e, d)
    PROVE  /\ x \in NodeRuns /\ x.sent /\ NodeInv(n, x, d)
           /\ HasTask(x) => Live(x) /\ d.child # "none"
<1>0. d.child \in ChildStates
  BY DEF Domains, ChildStates
<1>1. CASE x = e
  <2>1. HasTask(e) => d.child # "none"
    BY DEF HasTask, NodeInv, ChildEnded
  <2> QED BY <1>1, <2>1 DEF Live
<1>2. CASE x # e /\ d.call = "executed"
  <2>1. x \in Results(n, e, "running")
    BY <1>2 DEF Recovered
  <2>2. "running" \in ChildStates /\ "running" \in ChildAtWork
    BY DEF ChildStates, ChildAtWork
  <2>3. d.child # "none" /\ (n \notin Async => d.child = "succeeded")
    BY <1>2 DEF NodeInv
  <2>4. Sound(n, e, Outcome(x, d)) /\ x.sent
    BY <2>1, <2>2, <2>3, ResultsSound
  <2>5. x \in NodeRuns /\ NodeInv(n, x, d)
    BY <2>4, OutcomeFields DEF Sound
  <2>6. HasTask(x) => Live(x)
    BY <2>1, <2>2, <2>4, ResultsAre DEF HasTask, Live
  <2> QED BY <2>3, <2>4, <2>5, <2>6
<1>3. CASE x # e /\ d.call # "executed"
  <2>1. PICK i \in {"done", "open", "closed"} :
          /\ x = [e EXCEPT !.inv = i] /\ d.child # "none"
          /\ i = "done" => n \notin Async
          /\ i = "open" => n \in Async
          /\ i = "closed" => n \in Async /\ d.child \notin ChildAtWork
    BY <1>3 DEF Recovered
  <2>2. x \in NodeRuns /\ x.sent /\ x.inv = i /\ x.st = e.st
    BY <2>1 DEF Live, NodeRuns
  <2>3. i = "closed" => d.child \in ChildEnded
    BY <1>0, <2>1 DEF ChildStates
  <2>4. NodeInv(n, x, d)
    BY <2>1, <2>2, <2>3 DEF NodeInv, Live
  <2> QED BY <2>1, <2>2, <2>4 DEF Live
<1> QED BY <1>1, <1>2, <1>3

(* Canceling is sound, and starts no child. *)
LEMMA CancelSound ==
    ASSUME NEW n \in Nodes, NEW e \in NodeRuns, NEW d \in Domains,
           Live(e), NodeInv(n, e, d), NEW o \in Cancel(n, e, d)
    PROVE  Sound(n, e, o) /\ (d.child = "none" => o.dom = d)
<1>0. e.sent
  BY DEF Live
<1>1. CASE o = Blocked(e, d)
  BY <1>0, <1>1, BlockedSound, OutcomeFields DEF Blocked
<1>2. CASE o # Blocked(e, d)
  <2>1. PICK x \in Recovered(n, e, d) :
          o \in IF x.inv = "done" \/ (~HasTask(x) /\ d.call = "pending")
                THEN {Outcome([x EXCEPT !.st = "canceled"], d)}
                ELSE IF ~HasTask(x) THEN {Blocked(x, d)}
                ELSE IF x.inv = "closed" \/ n \in NoCancel
                THEN {Outcome(r, d) : r \in CanceledResults(n, x, d.child)}
                ELSE CancelTask(n, x, d)
    BY <1>2 DEF Cancel
  <2>2. /\ x \in NodeRuns /\ x.sent /\ NodeInv(n, x, d)
        /\ HasTask(x) => Live(x) /\ d.child # "none"
    BY RecoveredSound
  <2>3. CASE x.inv = "done" \/ (~HasTask(x) /\ d.call = "pending")
    <3>1. d.child \notin ChildAtWork
      BY <2>2, <2>3 DEF NodeInv, ChildAtWork
    <3>2. o = Outcome([x EXCEPT !.st = "canceled"], d)
      BY <2>1, <2>3
    <3>3. /\ [x EXCEPT !.st = "canceled"] \in NodeRuns /\ [x EXCEPT !.st = "canceled"].sent
          /\ NodeInv(n, [x EXCEPT !.st = "canceled"], d)
      BY <2>2, <3>1, StatusSoundStep
    <3> QED BY <3>2, <3>3, SoundOutcome, OutcomeFields
  <2>4. CASE ~(x.inv = "done" \/ (~HasTask(x) /\ d.call = "pending")) /\ ~HasTask(x)
    <3>1. o = Blocked(x, d)
      BY <2>1, <2>4
    <3> QED BY <2>2, <3>1, BlockedSound, OutcomeFields DEF Blocked
  <2>5. CASE ~(x.inv = "done" \/ (~HasTask(x) /\ d.call = "pending")) /\ HasTask(x)
             /\ (x.inv = "closed" \/ n \in NoCancel)
    <3>1. PICK r \in CanceledResults(n, x, d.child) : o = Outcome(r, d)
      BY <2>1, <2>5
    <3> QED BY <2>2, <2>5, <3>1, CancelResultsSound
  <2>6. CASE ~(x.inv = "done" \/ (~HasTask(x) /\ d.call = "pending")) /\ HasTask(x)
             /\ ~(x.inv = "closed" \/ n \in NoCancel)
    <3>1. o \in CancelTask(n, x, d)
      BY <2>1, <2>6
    <3> QED BY <2>2, <2>6, <3>1, CancelTaskSound
  <2> QED BY <2>3, <2>4, <2>5, <2>6
<1> QED BY <1>1, <1>2

(* A node that has been dispatched and has not ended is live. *)
LEMMA LiveNode ==
    ASSUME NEW n \in Nodes, NEW e \in NodeRuns, NEW d, NodeInv(n, e, d),
           e.st \notin {"absent", "pending"}, e.st \notin NodeTerminal
    PROVE  Live(e)
<1>1. e.st \in NodeStatuses
  BY DEF NodeRuns
<1>2. e.sent
  BY DEF NodeInv, NodeTerminal, NodeRuns
<1> QED BY <1>1, <1>2 DEF Live, NodeStatuses, NodeTerminal

(* AdvanceCapabilityNode, whatever the run's state *)
LEMMA AdvancedSound ==
    ASSUME TypeOK, NodesSound, NEW n \in Nodes, row.nodes[n].st \notin {"absent", "pending"},
           NEW o \in Advanced(row, n)
    PROVE  /\ o.node \in NodeRuns /\ o.dom \in Domains
           /\ NodeInv(n, o.node, o.dom) /\ NodeInv(n, row.nodes[n], o.dom)
           /\ o.node.sent = row.nodes[n].sent
           /\ row.nodes[n].st \in NodeTerminal => o.node = row.nodes[n] /\ o.dom = domain[n]
           /\ ~row.nodes[n].sent => o.dom = domain[n]
           /\ row.stop # "none" /\ domain[n].child = "none" => o.dom = domain[n]
<1> DEFINE e == row.nodes[n]
           d == domain[n]
<1>1. e \in NodeRuns /\ d \in Domains /\ NodeInv(n, e, d)
  BY DEF TypeOK, NodesSound, Rows
<1>2. CASE e.st \in NodeTerminal
  <2>1. o = Outcome(e, d)
    BY <1>2 DEF Advanced
  <2> QED BY <1>1, <2>1, OutcomeFields
<1>3. CASE e.st \notin NodeTerminal /\ row.stop = "none"
  <2>1. o \in Forward(n, e, d)
    BY <1>3 DEF Advanced
  <2>2. Live(e)
    BY <1>1, <1>3, LiveNode
  <2>3. Sound(n, e, o)
    BY <1>1, <2>1, <2>2, ForwardSound
  <2> QED BY <1>3, <2>2, <2>3, <1>1 DEF Sound, Live, NodeRuns
<1>4. CASE e.st \notin NodeTerminal /\ row.stop # "none"
  <2>1. o \in Cancel(n, e, d)
    BY <1>4 DEF Advanced
  <2>2. Live(e)
    BY <1>1, <1>4, LiveNode
  <2>3. Sound(n, e, o) /\ (d.child = "none" => o.dom = d)
    BY <1>1, <2>1, <2>2, CancelSound
  <2> QED BY <1>4, <2>2, <2>3, <1>1 DEF Sound, Live, NodeRuns
<1> QED BY <1>2, <1>3, <1>4

-----------------------------------------------------------------------------
(* The row and the workers *)

(* Before and after a change that leaves the nodes and the stop alone *)
LEMMA RunStatusSame ==
    ASSUME NEW r, NEW q, r.nodes = q.nodes, r.stop = q.stop
    PROVE  RunStatus(r) = RunStatus(q)
<1>1. Plan(r) = Plan(q) /\ Unfinished(r) = Unfinished(q)
  BY DEF Plan, Unfinished
<1>2. \A st : Some(r, st) = Some(q, st)
  BY DEF Some
<1>3. Verdict(r) = Verdict(q)
  BY <1>1 DEF Verdict
<1> QED BY <1>1, <1>2, <1>3 DEF RunStatus

LEMMA RunStatusType == ASSUME NEW r PROVE RunStatus(r) \in RunStatuses
BY DEF RunStatus, RunStatuses, RunEnded

LEMMA TickTypes ==
    /\ Idle \in Ticks
    /\ \A step \in {"check", "advance"} : \A a, b, c \in BOOLEAN :
          [step |-> step, fresh |-> a, stopped |-> b, failed |-> c] \in Ticks
    /\ \A S \in SUBSET Nodes : S # {} => [step |-> "stop", todo |-> S] \in Ticks
    /\ \A n \in Nodes : OnNode("prepare", n) \in Ticks /\ OnNode("step", n) \in Ticks
    /\ \A st \in RunStatuses : Saving(st) \in Ticks
<1>1. Idle \in Ticks
  BY DEF Idle, Ticks
<1>2. ASSUME NEW step \in {"check", "advance"}, NEW a \in BOOLEAN, NEW b \in BOOLEAN, NEW c \in BOOLEAN
      PROVE  [step |-> step, fresh |-> a, stopped |-> b, failed |-> c] \in Ticks
  BY DEF Ticks
<1>3. ASSUME NEW S \in SUBSET Nodes, S # {} PROVE [step |-> "stop", todo |-> S] \in Ticks
  <2> DEFINE T == (SUBSET Nodes) \ {{}}
  <2>1. S \in T
    BY <1>3
  <2> HIDE DEF T
  <2>2. [step |-> "stop", todo |-> S] \in [step : {"stop"}, todo : T]
    BY <2>1
  <2> QED BY <2>2 DEF Ticks, T
<1>4. ASSUME NEW n \in Nodes PROVE OnNode("prepare", n) \in Ticks /\ OnNode("step", n) \in Ticks
  BY DEF Ticks, OnNode
<1>5. ASSUME NEW st \in RunStatuses PROVE Saving(st) \in Ticks
  BY DEF Ticks, Saving
<1> QED BY <1>1, <1>2, <1>3, <1>4, <1>5

(* The fields of a tick, by its step *)
LEMMA TickFields ==
    ASSUME NEW x \in Ticks
    PROVE  /\ x.step \in {"idle", "check", "advance", "stop", "prepare", "step", "save"}
           /\ Decides(x) => x = [step |-> x.step, fresh |-> x.fresh, stopped |-> x.stopped, failed |-> x.failed]
                            /\ x.fresh \in BOOLEAN /\ x.stopped \in BOOLEAN /\ x.failed \in BOOLEAN
           /\ x.step = "stop" => x.todo \in SUBSET Nodes /\ x.todo # {}
           /\ x.step \in {"prepare", "step"} => x.node \in Nodes
           /\ x.step = "save" => x.status \in RunStatuses
<1>1. CASE x \in [step : {"idle"}]
  BY <1>1 DEF Decides
<1>2. CASE x \in [step : {"check", "advance"}, fresh : BOOLEAN, stopped : BOOLEAN, failed : BOOLEAN]
  BY <1>2 DEF Decides
<1>3. CASE x \in [step : {"stop"}, todo : (SUBSET Nodes) \ {{}}]
  <2> DEFINE T == (SUBSET Nodes) \ {{}}
  <2>1. x \in [step : {"stop"}, todo : T]
    BY <1>3
  <2> HIDE DEF T
  <2>2. x.step = "stop" /\ x.todo \in T
    BY <2>1
  <2>3. x.todo \in SUBSET Nodes /\ x.todo # {}
    BY <2>2 DEF T
  <2> QED BY <2>2, <2>3 DEF Decides
<1>4. CASE x \in [step : {"prepare", "step"}, node : Nodes]
  BY <1>4 DEF Decides
<1>5. CASE x \in [step : {"save"}, status : RunStatuses]
  BY <1>5 DEF Decides
<1> QED BY <1>1, <1>2, <1>3, <1>4, <1>5 DEF Ticks

LEMMA IdleInv == ASSUME NEW r PROVE WorkerInv(Idle, r)
BY DEF WorkerInv, Idle, Decides

LEMMA SavingInv ==
    ASSUME NEW r, NEW st, st \in {RunStatus(r), "blocked"}
    PROVE  WorkerInv(Saving(st), r) /\ Saving(st) \in Ticks
<1>1. st \in RunStatuses
  BY RunStatusType DEF RunStatuses
<1> QED BY <1>1, TickTypes DEF WorkerInv, Saving, Decides

LEMMA OutdatedInv ==
    ASSUME NEW x \in Ticks, NEW r
    PROVE  Outdated(x) \in Ticks /\ WorkerInv(Outdated(x), r)
<1>1. CASE Decides(x)
  <2> DEFINE R == [step : {"check", "advance"}, fresh : BOOLEAN, stopped : BOOLEAN, failed : BOOLEAN]
             y == [x EXCEPT !.fresh = FALSE]
  <2>1. x \in R
    BY <1>1, TickFields DEF Decides
  <2>2. y \in R /\ y.fresh = FALSE /\ y.step \in {"check", "advance"}
    BY <2>1
  <2>3. y \in Ticks
    BY <2>2 DEF Ticks
  <2>4. Outdated(x) = y
    BY <1>1 DEF Outdated
  <2> HIDE DEF y
  <2> QED BY <2>2, <2>3, <2>4 DEF WorkerInv, Decides
<1>2. CASE ~Decides(x)
  BY <1>2, IdleInv, TickTypes DEF Outdated
<1> QED BY <1>1, <1>2

LEMMA StoppingInv ==
    ASSUME NEW r, NEW S \in SUBSET Unfinished(r), r.stop # "none"
    PROVE  Stopping(r, S) \in Ticks /\ WorkerInv(Stopping(r, S), r)
<1>1. CASE S = {}
  BY <1>1, SavingInv DEF Stopping
<1>2. CASE S # {}
  <2>1. S \in SUBSET Nodes
    BY DEF Unfinished, Plan
  <2>2. Stopping(r, S) = [step |-> "stop", todo |-> S]
    BY <1>2 DEF Stopping
  <2> QED BY <1>2, <2>1, <2>2, TickTypes DEF WorkerInv, Decides
<1> QED BY <1>1, <1>2

(* What advanceCapabilityRun decides to do is true of the row it looked at. *)
LEMMA ChosenInv ==
    ASSUME NEW r
    PROVE  Chosen(r) \in Ticks /\ WorkerInv(Chosen(r), r)
<1>1. CASE r.stop # "none"
  BY <1>1, StoppingInv DEF Chosen
<1>2. CASE r.stop = "none" /\ Active(r) # {}
  <2> DEFINE n == First(Active(r))
  <2>1. Active(r) \in SUBSET Nodes
    BY DEF Active, Unfinished, Plan
  <2>2. n \in Active(r)
    BY <1>2, <2>1, FirstIn
  <2>3. Chosen(r) = OnNode("step", n)
    BY <1>2 DEF Chosen
  <2> HIDE DEF n
  <2>4. n \in Nodes /\ r.nodes[n].st \notin {"absent", "pending"}
    BY <2>1, <2>2 DEF Active, Unfinished, Plan
  <2>5. OnNode("step", n) \in Ticks
    BY <2>4, TickTypes
  <2>6. WorkerInv(OnNode("step", n), r)
    BY <1>2, <2>4 DEF WorkerInv, Decides, OnNode
  <2> QED BY <2>3, <2>5, <2>6
<1>3. CASE r.stop = "none" /\ Active(r) = {} /\ Ready(r) # {}
  <2> DEFINE n == First(Ready(r))
  <2>1. Ready(r) \in SUBSET Nodes
    BY DEF Ready
  <2>2. n \in Ready(r)
    BY <1>3, <2>1, FirstIn
  <2>3. Chosen(r) = OnNode("prepare", n)
    BY <1>3 DEF Chosen
  <2> HIDE DEF n
  <2>4. OnNode("prepare", n) \in Ticks
    BY <2>1, <2>2, TickTypes
  <2>5. WorkerInv(OnNode("prepare", n), r)
    BY <1>3, <2>2 DEF WorkerInv, Decides, OnNode
  <2> QED BY <2>3, <2>4, <2>5
<1>4. CASE r.stop = "none" /\ Active(r) = {} /\ Ready(r) = {}
  BY <1>4, SavingInv DEF Chosen
<1> QED BY <1>1, <1>2, <1>3, <1>4

LEMMA ReadingInv ==
    ASSUME NEW r
    PROVE  Reading("check", r) \in Ticks /\ WorkerInv(Reading("check", r), r)
<1>1. Some(r, "failed") \in BOOLEAN /\ (r.stop # "none") \in BOOLEAN
  BY DEF Some
<1>2. Reading("check", r) \in Ticks
  BY <1>1, TickTypes DEF Reading
<1> QED BY <1>2 DEF WorkerInv, Decides, Reading

WorkersSound == worker \in [Workers -> Ticks] /\ \A w \in Workers : WorkerInv(worker[w], row)

LEMMA StoredBySound ==
    ASSUME worker \in [Workers -> Ticks], NEW w \in Workers, NEW r, NEW what \in Ticks,
           WorkerInv(what, r), StoredBy(w, r, what)
    PROVE  WorkersSound'
<1>1. row' = r /\ worker' = [v \in Workers |-> IF v = w THEN what ELSE Outdated(worker[v])]
  BY DEF StoredBy
<1>2. ASSUME NEW v \in Workers PROVE worker'[v] \in Ticks /\ WorkerInv(worker'[v], row')
  BY <1>1, OutdatedInv
<1> QED BY <1>1, <1>2 DEF WorkersSound

LEMMA StoredSound ==
    ASSUME worker \in [Workers -> Ticks], NEW r, Stored(r)
    PROVE  WorkersSound'
<1>1. row' = r /\ worker' = [v \in Workers |-> Outdated(worker[v])]
  BY DEF Stored
<1>2. ASSUME NEW v \in Workers PROVE worker'[v] \in Ticks /\ WorkerInv(worker'[v], row')
  BY <1>1, OutdatedInv
<1> QED BY <1>1, <1>2 DEF WorkersSound

LEMMA BecomeSound ==
    ASSUME WorkersSound, NEW w \in Workers, NEW what \in Ticks, WorkerInv(what, row),
           Become(w, what), row' = row
    PROVE  WorkersSound'
<1>1. worker' = [worker EXCEPT ![w] = what]
  BY DEF Become
<1>2. ASSUME NEW v \in Workers PROVE worker'[v] \in Ticks /\ WorkerInv(worker'[v], row')
  BY <1>1 DEF WorkersSound
<1> QED BY <1>1, <1>2 DEF WorkersSound

-----------------------------------------------------------------------------
(* The nodes of a plan, with their children *)

(* NodesSound for nodes N, children D, plan version p and recorded versions s *)
NodesOf(N, D, p, s) ==
    \A n \in Nodes :
        /\ NodeInv(n, N[n], D[n])
        /\ N[n].sent => \A m \in Deps[n] : N[m].st = "completed"
        /\ N[n].st # "absent" => \A m \in Deps[n] : N[m].st # "absent"
        /\ n \in Verifies /\ Resolved(N[n]) => s[n] = p

LEMMA NodesOfRow == NodesSound <=> NodesOf(row.nodes, domain, row.plan, seen)
BY DEF NodesSound, NodesOf

SeenAfter(s, p, n, old, new) ==
    IF Resolved(new) /\ ~Resolved(old) THEN [s EXCEPT ![n] = p] ELSE s

(* One node changes, with its child: prerequisites of others stay completed. *)
LEMMA NodeStored ==
    ASSUME NEW N \in [Nodes -> NodeRuns], NEW D \in [Nodes -> Domains], NEW p \in 1 .. MaxPlan,
           NEW s \in [Nodes -> 0 .. MaxPlan], NodesOf(N, D, p, s),
           NEW n \in Nodes, NEW e \in NodeRuns, NEW d \in Domains, NodeInv(n, e, d),
           N[n].st # "absent", e.st # "absent", N[n].st = "completed" => e.st = "completed",
           e.sent => N[n].sent \/ \A m \in Deps[n] : N[m].st = "completed"
    PROVE  /\ [N EXCEPT ![n] = e] \in [Nodes -> NodeRuns]
           /\ [D EXCEPT ![n] = d] \in [Nodes -> Domains]
           /\ SeenAfter(s, p, n, N[n], e) \in [Nodes -> 0 .. MaxPlan]
           /\ NodesOf([N EXCEPT ![n] = e], [D EXCEPT ![n] = d], p, SeenAfter(s, p, n, N[n], e))
<1> DEFINE M == [N EXCEPT ![n] = e]
           E == [D EXCEPT ![n] = d]
           t == SeenAfter(s, p, n, N[n], e)
<1>1. /\ M \in [Nodes -> NodeRuns] /\ E \in [Nodes -> Domains]
      /\ M[n] = e /\ E[n] = d
      /\ \A k \in Nodes : k # n => M[k] = N[k] /\ E[k] = D[k]
  OBVIOUS
<1>2. p \in 0 .. MaxPlan
  BY LimitsAssumption
<1>3. /\ t \in [Nodes -> 0 .. MaxPlan]
      /\ t[n] = IF Resolved(e) /\ ~Resolved(N[n]) THEN p ELSE s[n]
      /\ \A k \in Nodes : k # n => t[k] = s[k]
  BY <1>2 DEF SeenAfter
<1> HIDE DEF M, E, t
<1>4. \A k \in Nodes : Deps[k] \subseteq Nodes
  BY NodesAssumption
<1>5. ASSUME NEW k \in Nodes PROVE N[k].st = "completed" => M[k].st = "completed"
  BY <1>1
<1>6. ASSUME NEW k \in Nodes PROVE M[k].st = "absent" <=> N[k].st = "absent"
  BY <1>1
<1>7. ASSUME NEW k \in Nodes
      PROVE  /\ NodeInv(k, M[k], E[k])
             /\ M[k].sent => \A m \in Deps[k] : M[m].st = "completed"
             /\ M[k].st # "absent" => \A m \in Deps[k] : M[m].st # "absent"
             /\ k \in Verifies /\ Resolved(M[k]) => t[k] = p
  <2>1. NodeInv(k, M[k], E[k])
    BY <1>1 DEF NodesOf
  <2>2. M[k].sent => N[k].sent \/ \A m \in Deps[k] : N[m].st = "completed"
    BY <1>1
  <2>3. M[k].sent => \A m \in Deps[k] : N[m].st = "completed"
    BY <2>2 DEF NodesOf
  <2>4. M[k].sent => \A m \in Deps[k] : M[m].st = "completed"
    BY <1>4, <1>5, <2>3
  <2>5. M[k].st # "absent" => \A m \in Deps[k] : M[m].st # "absent"
    BY <1>4, <1>6 DEF NodesOf
  <2>6. k \in Verifies /\ Resolved(M[k]) => t[k] = p
    BY <1>1, <1>3 DEF NodesOf
  <2> QED BY <2>1, <2>4, <2>5, <2>6
<1>8. NodesOf(M, E, p, t)
  BY <1>7 DEF NodesOf
<1> QED BY <1>1, <1>3, <1>8 DEF M, E, t

(* One child changes. *)
LEMMA ChildChanged ==
    ASSUME NEW N, NEW D \in [Nodes -> Domains], NEW p, NEW s, NodesOf(N, D, p, s),
           NEW n \in Nodes, NEW d \in Domains, NodeInv(n, N[n], d)
    PROVE  /\ [D EXCEPT ![n] = d] \in [Nodes -> Domains]
           /\ NodesOf(N, [D EXCEPT ![n] = d], p, s)
<1> DEFINE E == [D EXCEPT ![n] = d]
<1>1. E \in [Nodes -> Domains] /\ E[n] = d /\ \A k \in Nodes : k # n => E[k] = D[k]
  OBVIOUS
<1> HIDE DEF E
<1>2. NodesOf(N, E, p, s)
  BY <1>1 DEF NodesOf
<1> QED BY <1>1, <1>2 DEF E

LEMMA WithNodeIs ==
    ASSUME row \in Rows, NEW n \in Nodes, NEW e \in NodeRuns
    PROVE  /\ WithNode(e, n) \in Rows
           /\ WithNode(e, n).nodes = [row.nodes EXCEPT ![n] = e]
           /\ WithNode(e, n).plan = row.plan
           /\ WithNode(e, n).stop = row.stop
           /\ WithNode(e, n).status = row.status
BY DEF WithNode, Rows

-----------------------------------------------------------------------------
(* Steps *)

(* A call that takes effect was dispatched by a run that was not stopped. *)
Starts ==
    \A n \in Nodes : domain[n].child = "none" /\ domain'[n].child # "none" =>
        row.stop = "none" /\ row.nodes[n].sent

LEMMA Facts ==
    ASSUME IInv
    PROVE  /\ TypeOK /\ NodesSound /\ StatusSound /\ WorkersSound
           /\ row \in Rows /\ row.nodes \in [Nodes -> NodeRuns] /\ row.plan \in 1 .. MaxPlan
           /\ leased \in BOOLEAN /\ domain \in [Nodes -> Domains]
           /\ seen \in [Nodes -> 0 .. MaxPlan] /\ faults \in 0 .. MaxFaults
           /\ worker \in [Workers -> Ticks]
           /\ NodesOf(row.nodes, domain, row.plan, seen)
           /\ \A n \in Nodes : row.nodes[n] \in NodeRuns /\ domain[n] \in Domains
                                 /\ NodeInv(n, row.nodes[n], domain[n])
           /\ \A w \in Workers : worker[w] \in Ticks /\ WorkerInv(worker[w], row)
<1>1. /\ TypeOK /\ NodesSound /\ StatusSound /\ WorkersSound
      /\ row \in Rows /\ leased \in BOOLEAN /\ domain \in [Nodes -> Domains]
      /\ seen \in [Nodes -> 0 .. MaxPlan] /\ faults \in 0 .. MaxFaults
      /\ worker \in [Workers -> Ticks]
      /\ \A w \in Workers : WorkerInv(worker[w], row)
  BY DEF IInv, TypeOK, WorkersSound
<1>2. row.nodes \in [Nodes -> NodeRuns] /\ row.plan \in 1 .. MaxPlan
  BY <1>1 DEF Rows
<1>3. NodesOf(row.nodes, domain, row.plan, seen)
  BY <1>1, NodesOfRow
<1> QED BY <1>1, <1>2, <1>3 DEF NodesOf

LEMMA Assembled ==
    ASSUME row' \in Rows, leased' \in BOOLEAN, domain' \in [Nodes -> Domains],
           seen' \in [Nodes -> 0 .. MaxPlan], faults' \in 0 .. MaxFaults, WorkersSound',
           NodesOf(row'.nodes, domain', row'.plan, seen'), StatusSound'
    PROVE  IInv'
<1>1. NodesSound'
  BY DEF NodesOf, NodesSound
<1> QED BY <1>1 DEF IInv, TypeOK, WorkersSound

(* Nothing but the lease, the workers and the count of faults changes. *)
LEMMA WorkersOnly ==
    ASSUME IInv, WorkersSound', row' = row, domain' = domain, seen' = seen,
           leased' \in BOOLEAN, leased' => leased, faults' \in 0 .. MaxFaults
    PROVE  IInv' /\ Starts
<1>1. StatusSound'
  <2>1. RunStatus(row') = RunStatus(row)
    BY RunStatusSame
  <2> QED BY <2>1, Facts DEF StatusSound, Claimable
<1> QED BY <1>1, Facts, Assembled DEF Starts

(* Nothing but one child and the count of faults changes, and a worker may stop. *)
LEMMA ChildOnly ==
    ASSUME IInv, WorkersSound', row' = row, seen' = seen, leased' = leased,
           faults' \in 0 .. MaxFaults, NEW n \in Nodes, NEW d \in Domains,
           domain' = [domain EXCEPT ![n] = d], NodeInv(n, row.nodes[n], d),
           domain[n].child = "none" /\ d.child # "none" => row.stop = "none" /\ row.nodes[n].sent
    PROVE  IInv' /\ Starts
<1>1. domain' \in [Nodes -> Domains] /\ NodesOf(row.nodes, domain', row.plan, seen)
  BY Facts, ChildChanged
<1>2. StatusSound'
  <2>1. RunStatus(row') = RunStatus(row)
    BY RunStatusSame
  <2> QED BY <2>1, Facts DEF StatusSound, Claimable
<1>3. Starts
  BY Facts DEF Starts
<1> QED BY <1>1, <1>2, <1>3, Facts, Assembled

(* A worker under the lease writes one node, with its child. *)
LEMMA NodeWritten ==
    ASSUME IInv, leased, NEW n \in Nodes, NEW e \in NodeRuns, NEW d \in Domains, NodeInv(n, e, d),
           WorkersSound', row' = WithNode(e, n), domain' = [domain EXCEPT ![n] = d],
           Recorded(n, e), leased' = leased, faults' = faults,
           row.nodes[n].st # "absent", e.st # "absent",
           row.nodes[n].st = "completed" => e.st = "completed",
           e.sent => row.nodes[n].sent \/ \A m \in Deps[n] : row.nodes[m].st = "completed",
           domain[n].child = "none" /\ d.child # "none" => row.stop = "none" /\ row.nodes[n].sent
    PROVE  IInv' /\ Starts
<1>1. /\ row' \in Rows /\ row'.nodes = [row.nodes EXCEPT ![n] = e]
      /\ row'.plan = row.plan /\ row'.status = row.status
  BY Facts, WithNodeIs
<1>2. seen' = SeenAfter(seen, row.plan, n, row.nodes[n], e)
  BY DEF Recorded, SeenAfter
<1>3. /\ domain' \in [Nodes -> Domains] /\ seen' \in [Nodes -> 0 .. MaxPlan]
      /\ NodesOf(row'.nodes, domain', row'.plan, seen')
  <2>1. /\ row.nodes \in [Nodes -> NodeRuns] /\ domain \in [Nodes -> Domains]
        /\ row.plan \in 1 .. MaxPlan /\ seen \in [Nodes -> 0 .. MaxPlan]
        /\ NodesOf(row.nodes, domain, row.plan, seen)
    BY Facts
  <2>2. /\ [domain EXCEPT ![n] = d] \in [Nodes -> Domains]
        /\ SeenAfter(seen, row.plan, n, row.nodes[n], e) \in [Nodes -> 0 .. MaxPlan]
        /\ NodesOf([row.nodes EXCEPT ![n] = e], [domain EXCEPT ![n] = d], row.plan,
                   SeenAfter(seen, row.plan, n, row.nodes[n], e))
    BY <2>1, NodeStored
  <2> QED BY <1>1, <1>2, <2>2
<1>4. StatusSound'
  BY <1>1, Facts DEF StatusSound, Claimable
<1>5. Starts
  BY Facts DEF Starts
<1> QED BY <1>1, <1>3, <1>4, <1>5, Facts, Assembled

-----------------------------------------------------------------------------
(* A worker's tick *)

LEMMA ClaimStep ==
    ASSUME IInv, NEW w \in Workers, ClaimManagedRun(w)
    PROVE  IInv' /\ Starts
<1>1. WorkersSound'
  BY Facts, ReadingInv, StoredBySound DEF ClaimManagedRun
<1>2. /\ row' = row /\ leased' = TRUE /\ Claimable
      /\ domain' = domain /\ seen' = seen /\ faults' = faults
  BY DEF ClaimManagedRun, StoredBy
<1>3. StatusSound'
  <2>1. RunStatus(row') = RunStatus(row)
    BY <1>2, RunStatusSame
  <2> QED BY <1>2, <2>1, Facts DEF StatusSound, Claimable
<1> QED BY <1>1, <1>2, <1>3, Facts, Assembled DEF Starts

LEMMA StoppedForIs ==
    ASSUME row \in Rows, NEW reason \in {"user", "failure"}
    PROVE  /\ StoppedFor(reason) \in Rows
           /\ StoppedFor(reason).nodes = row.nodes /\ StoppedFor(reason).plan = row.plan
           /\ StoppedFor(reason).status = "canceling"
<1>1. "canceling" \in RunStatuses
  BY DEF RunStatuses
<1> QED BY <1>1 DEF StoppedFor, Rows

(* A stop changes the reason and the status of the row. *)
LEMMA StopRecorded ==
    ASSUME IInv, NEW reason \in {"user", "failure"}, row' = StoppedFor(reason), WorkersSound',
           leased' = leased, domain' = domain, seen' = seen, faults' = faults
    PROVE  IInv' /\ Starts
<1>1. row' \in Rows /\ row'.nodes = row.nodes /\ row'.plan = row.plan /\ row'.status = "canceling"
  BY Facts, StoppedForIs
<1>2. StatusSound'
  BY <1>1 DEF StatusSound, Claimable, RunEnded
<1> QED BY <1>1, <1>2, Facts, Assembled DEF Starts

LEMMA GoesOnInv ==
    ASSUME NEW r, NEW authorized \in BOOLEAN
    PROVE  GoesOn(r, authorized) \in Ticks /\ WorkerInv(GoesOn(r, authorized), r)
BY ChosenInv, SavingInv DEF GoesOn

LEMMA StopManagedRunStep ==
    ASSUME IInv, NEW w \in Workers, NEW reason \in {"user", "failure"}, NEW authorized \in BOOLEAN,
           StopManagedRun(w, reason, authorized)
    PROVE  IInv' /\ Starts
<1>1. leased' = leased /\ domain' = domain /\ seen' = seen /\ faults' = faults
  BY DEF StopManagedRun
<1>2. CASE Stoppable
  <2>1. StoredBy(w, StoppedFor(reason), GoesOn(StoppedFor(reason), authorized))
    BY <1>2 DEF StopManagedRun
  <2>2. WorkersSound'
    BY <2>1, Facts, GoesOnInv, StoredBySound
  <2>3. row' = StoppedFor(reason)
    BY <2>1 DEF StoredBy
  <2> QED BY <1>1, <2>2, <2>3, StopRecorded
<1>3. CASE ~Stoppable
  <2>1. Become(w, GoesOn(row, authorized)) /\ row' = row
    BY <1>3 DEF StopManagedRun
  <2>2. WorkersSound'
    BY <2>1, Facts, GoesOnInv, BecomeSound
  <2> QED BY <1>1, <2>1, <2>2, Facts, WorkersOnly
<1> QED BY <1>2, <1>3

LEMMA OverdueStep ==
    ASSUME IInv, NEW w \in Workers, Overdue(w) PROVE IInv' /\ Starts
BY StopManagedRunStep DEF Overdue

LEMMA StopOnFailureStep ==
    ASSUME IInv, NEW w \in Workers, StopOnFailure(w) PROVE IInv' /\ Starts
BY StopManagedRunStep DEF StopOnFailure

(* A worker changes what it is to do, and nothing else happens. *)
LEMMA BecomeStep ==
    ASSUME IInv, NEW w \in Workers, NEW what \in Ticks, WorkerInv(what, row), Become(w, what),
           row' = row, leased' = leased, domain' = domain, seen' = seen, faults' \in 0 .. MaxFaults
    PROVE  IInv' /\ Starts
<1>1. WorkersSound'
  BY Facts, BecomeSound
<1> QED BY <1>1, Facts, WorkersOnly

LEMMA UnauthorizedStep ==
    ASSUME IInv, NEW w \in Workers, Unauthorized(w) PROVE IInv' /\ Starts
<1> DEFINE what == IF worker[w].fresh THEN Saving("blocked") ELSE Idle
<1>1. what \in Ticks /\ WorkerInv(what, row)
  BY SavingInv, IdleInv, TickTypes
<1>2. /\ Become(w, what) /\ row' = row /\ leased' = leased /\ domain' = domain
      /\ seen' = seen /\ faults' = faults
  BY DEF Unauthorized
<1> HIDE DEF what
<1> QED BY <1>1, <1>2, Facts, BecomeStep

LEMMA ProceedStep ==
    ASSUME IInv, NEW w \in Workers, Proceed(w) PROVE IInv' /\ Starts
<1> DEFINE x == worker[w]
           adv == [x EXCEPT !.step = "advance"]
           what == IF x.failed /\ ~x.stopped THEN adv ELSE IF x.fresh THEN Chosen(row) ELSE Idle
<1>1. x \in Ticks /\ WorkerInv(x, row) /\ x.step = "check"
  BY Facts DEF Proceed, At
<1>2. adv \in Ticks /\ WorkerInv(adv, row)
  <2>1. /\ x = [step |-> x.step, fresh |-> x.fresh, stopped |-> x.stopped, failed |-> x.failed]
        /\ x.fresh \in BOOLEAN /\ x.stopped \in BOOLEAN /\ x.failed \in BOOLEAN
    BY <1>1, TickFields DEF Decides
  <2>2. adv = [step |-> "advance", fresh |-> x.fresh, stopped |-> x.stopped, failed |-> x.failed]
    BY <2>1
  <2>3. adv \in Ticks
    BY <2>1, <2>2, TickTypes
  <2>4. x.fresh => x.stopped = (row.stop # "none") /\ x.failed = Some(row, "failed")
    BY <1>1 DEF WorkerInv, Decides
  <2>5. WorkerInv(adv, row)
    BY <2>2, <2>4 DEF WorkerInv, Decides
  <2> QED BY <2>3, <2>5
<1>3. what \in Ticks /\ WorkerInv(what, row)
  BY <1>2, ChosenInv, IdleInv, TickTypes
<1>4. /\ Become(w, what) /\ row' = row /\ leased' = leased /\ domain' = domain
      /\ seen' = seen /\ faults' = faults
  BY DEF Proceed
<1> HIDE DEF what
<1> QED BY <1>3, <1>4, Facts, BecomeStep

(* The prerequisites of a step that is prepared are completed, and it has not
   been dispatched before. *)
LEMMA PrepareStep ==
    ASSUME IInv, NEW w \in Workers, PrepareCapabilityNode(w) PROVE IInv' /\ Starts
<1> DEFINE n == worker[w].node
           e == row.nodes[n]
           d == domain[n]
<1>1. PICK x \in {[e EXCEPT !.st = "running", !.sent = TRUE], [e EXCEPT !.st = "blocked"]} :
        StoredBy(w, WithNode(x, n), OnNode("step", n))
  BY DEF PrepareCapabilityNode
<1>2. /\ worker[w].step = "prepare" /\ leased /\ row.stop = "none"
      /\ leased' = leased /\ domain' = domain /\ seen' = seen /\ faults' = faults
  BY DEF PrepareCapabilityNode, At
<1>3. worker[w] \in Ticks /\ WorkerInv(worker[w], row)
  BY Facts
<1>4. n \in Ready(row) /\ n \in Nodes
  BY <1>2, <1>3, TickFields DEF WorkerInv
<1> HIDE DEF n
<1>5. /\ e \in NodeRuns /\ d \in Domains /\ NodeInv(n, e, d)
      /\ e.st = "pending" /\ \A m \in Deps[n] : row.nodes[m].st = "completed"
  BY <1>4, Facts DEF Ready
<1> HIDE DEF e, d
<1>6. ~e.sent /\ e.inv = "none" /\ e.sent \in BOOLEAN
  BY <1>5 DEF NodeInv, NodeRuns
<1>7. /\ x \in NodeRuns /\ x.inv = "none"
      /\ (x.sent /\ x.st = "running") \/ (~x.sent /\ x.st = "blocked")
  BY <1>1, <1>5, <1>6 DEF NodeRuns, NodeStatuses, NodeTerminal
<1>8. NodeInv(n, x, d)
  BY <1>5, <1>6, <1>7 DEF NodeInv
<1>9. /\ row' = WithNode(x, n) /\ WithNode(x, n).stop = "none"
      /\ WithNode(x, n).nodes[n] = x
  <2>1. row' = WithNode(x, n)
    BY <1>1 DEF StoredBy
  <2>2. row \in Rows /\ row.nodes \in [Nodes -> NodeRuns]
    BY Facts
  <2>3. /\ WithNode(x, n).stop = row.stop
        /\ WithNode(x, n).nodes = [row.nodes EXCEPT ![n] = x]
    BY <1>4, <1>7, <2>2, WithNodeIs
  <2>4. WithNode(x, n).nodes[n] = x
    BY <1>4, <2>2, <2>3
  <2> QED BY <1>2, <2>1, <2>3, <2>4
<1>10. OnNode("step", n) \in Ticks /\ WorkerInv(OnNode("step", n), WithNode(x, n))
  <2>1. OnNode("step", n) \in Ticks
    BY <1>4, TickTypes
  <2>2. x.st \notin {"absent", "pending"}
    BY <1>7
  <2> QED BY <1>9, <2>1, <2>2 DEF WorkerInv, Decides, OnNode
<1>11. WorkersSound'
  BY <1>1, <1>10, Facts, StoredBySound
<1>12. Recorded(n, x)
  BY <1>2, <1>7 DEF Recorded, Resolved
<1>13. domain' = [domain EXCEPT ![n] = d]
  BY <1>2, <1>4, Facts DEF d
<1>14. row.nodes[n].st = "pending"
  BY <1>5 DEF e
<1>15. domain[n] = d
  BY DEF d
<1> QED BY <1>2, <1>4, <1>5, <1>7, <1>8, <1>9, <1>11, <1>12, <1>13, <1>14, <1>15, NodeWritten

(* What AdvanceCapabilityNode makes of a dispatched node can be written. *)
LEMMA AdvancedFields ==
    ASSUME IInv, NEW n \in Nodes, row.nodes[n].st \notin {"absent", "pending"}, NEW o \in Advanced(row, n)
    PROVE  /\ o.node \in NodeRuns /\ o.dom \in Domains
           /\ NodeInv(n, o.node, o.dom) /\ NodeInv(n, row.nodes[n], o.dom)
           /\ o.node.st # "absent" /\ (o.node.sent => row.nodes[n].sent)
           /\ row.nodes[n].st = "completed" => o.node.st = "completed"
           /\ domain[n].child = "none" /\ o.dom.child # "none" => row.stop = "none" /\ row.nodes[n].sent
<1>1. /\ o.node \in NodeRuns /\ o.dom \in Domains
      /\ NodeInv(n, o.node, o.dom) /\ NodeInv(n, row.nodes[n], o.dom)
      /\ o.node.sent = row.nodes[n].sent
      /\ row.nodes[n].st \in NodeTerminal => o.node = row.nodes[n] /\ o.dom = domain[n]
      /\ ~row.nodes[n].sent => o.dom = domain[n]
      /\ row.stop # "none" /\ domain[n].child = "none" => o.dom = domain[n]
  BY Facts, AdvancedSound
<1>2. ~row.nodes[n].sent => row.nodes[n].st \in NodeTerminal
  BY Facts DEF NodeInv, NodeTerminal
<1>3. o.node.st # "absent"
  BY <1>1, <1>2 DEF NodeInv
<1>4. row.nodes[n].st = "completed" => o.node.st = "completed"
  BY <1>1 DEF NodeTerminal
<1> QED BY <1>1, <1>3, <1>4

LEMMA AdvanceStep ==
    ASSUME IInv, NEW w \in Workers, AdvanceCapabilityNode(w) PROVE IInv' /\ Starts
<1> DEFINE n == worker[w].node
<1>1. PICK o \in Advanced(row, n) :
        /\ StoredBy(w, WithNode(o.node, n), Saving(RunStatus(WithNode(o.node, n))))
        /\ domain' = [domain EXCEPT ![n] = o.dom]
        /\ Recorded(n, o.node)
  BY DEF AdvanceCapabilityNode
<1>2. worker[w].step = "step" /\ leased /\ leased' = leased /\ faults' = faults
  BY DEF AdvanceCapabilityNode, At
<1>3. worker[w] \in Ticks /\ WorkerInv(worker[w], row)
  BY Facts
<1>4. n \in Nodes /\ row.nodes[n].st \notin {"absent", "pending"}
  BY <1>2, <1>3, TickFields DEF WorkerInv
<1> HIDE DEF n
<1>5. WorkersSound'
  BY <1>1, Facts, SavingInv, StoredBySound
<1>6. row' = WithNode(o.node, n)
  BY <1>1 DEF StoredBy
<1> QED BY <1>1, <1>2, <1>4, <1>5, <1>6, AdvancedFields, NodeWritten

LEMMA CancelNodeStep ==
    ASSUME IInv, NEW w \in Workers, CancelCapabilityNode(w) PROVE IInv' /\ Starts
<1> DEFINE S == worker[w].todo
           n == First(S)
           e == row.nodes[n]
           C == IF ~e.sent THEN {Outcome([e EXCEPT !.st = "canceled"], domain[n])} ELSE Advanced(row, n)
<1>1. PICK o \in C :
        /\ StoredBy(w, WithNode(o.node, n), Stopping(WithNode(o.node, n), S \ {n}))
        /\ domain' = [domain EXCEPT ![n] = o.dom]
        /\ Recorded(n, o.node)
  BY DEF CancelCapabilityNode
<1>2. worker[w].step = "stop" /\ leased /\ leased' = leased /\ faults' = faults
  BY DEF CancelCapabilityNode, At
<1>3. worker[w] \in Ticks /\ WorkerInv(worker[w], row)
  BY Facts
<1>4. S \in SUBSET Nodes /\ S # {} /\ S \subseteq Unfinished(row) /\ row.stop # "none"
  BY <1>2, <1>3, TickFields DEF WorkerInv
<1> HIDE DEF S
<1>5. n \in S /\ n \in Nodes
  BY <1>4, FirstIn
<1>6. row.nodes[n].st # "absent" /\ row.nodes[n].st \notin NodeTerminal
  BY <1>4, <1>5 DEF Unfinished, Plan
<1>7. /\ o.node \in NodeRuns /\ o.dom \in Domains /\ NodeInv(n, o.node, o.dom)
      /\ o.node.st # "absent" /\ (o.node.sent => row.nodes[n].sent)
      /\ domain[n].child = "none" => o.dom.child = "none"
  <2>1. CASE ~e.sent
    <3>1. o.node = [e EXCEPT !.st = "canceled"] /\ o.dom = domain[n]
      BY <1>1, <2>1, OutcomeFields
    <3>2. e \in NodeRuns /\ domain[n] \in Domains /\ NodeInv(n, e, domain[n])
      BY <1>5, Facts
    <3> HIDE DEF e
    <3>3. o.node \in NodeRuns /\ o.node.sent = e.sent /\ o.node.inv = e.inv /\ o.node.st = "canceled"
      BY <3>1, <3>2 DEF NodeRuns, NodeStatuses, NodeTerminal
    <3>4. NodeInv(n, o.node, domain[n])
      BY <2>1, <3>2, <3>3 DEF NodeInv
    <3> QED BY <2>1, <3>1, <3>2, <3>3, <3>4
  <2>2. CASE e.sent
    <3>1. row.nodes[n].st \notin {"absent", "pending"}
      BY <1>5, <2>2, Facts DEF NodeInv
    <3>2. o \in Advanced(row, n)
      BY <1>1, <2>2
    <3> HIDE DEF n
    <3> QED BY <1>4, <1>5, <3>1, <3>2, AdvancedFields
  <2> QED BY <2>1, <2>2
<1> HIDE DEF n, C
<1>8. row' = WithNode(o.node, n)
  BY <1>1 DEF StoredBy
<1>9. /\ WithNode(o.node, n).nodes = [row.nodes EXCEPT ![n] = o.node]
      /\ WithNode(o.node, n).stop # "none"
  BY <1>4, <1>5, <1>7, Facts, WithNodeIs
<1>10. S \ {n} \in SUBSET Unfinished(WithNode(o.node, n))
  BY <1>4, <1>5, <1>9, Facts DEF Unfinished, Plan
<1>11. WorkersSound'
  BY <1>1, <1>9, <1>10, Facts, StoppingInv, StoredBySound
<1>12. row.nodes[n].st # "completed"
  BY <1>6 DEF NodeTerminal
<1> QED BY <1>1, <1>2, <1>5, <1>6, <1>7, <1>8, <1>11, <1>12, NodeWritten

LEMMA SaveStep ==
    ASSUME IInv, NEW w \in Workers, SaveManagedRun(w) PROVE IInv' /\ Starts
<1> DEFINE st == worker[w].status
           r == [row EXCEPT !.status = st]
<1>1. /\ worker[w].step = "save" /\ StoredBy(w, r, Idle) /\ leased' = FALSE
      /\ domain' = domain /\ seen' = seen /\ faults' = faults
  BY DEF SaveManagedRun, At
<1>2. worker[w] \in Ticks /\ WorkerInv(worker[w], row)
  BY Facts
<1>3. st \in RunStatuses /\ st \in {RunStatus(row), "blocked"}
  BY <1>1, <1>2, TickFields DEF WorkerInv
<1> HIDE DEF st
<1>4. r \in Rows /\ r.status = st /\ r.nodes = row.nodes /\ r.plan = row.plan /\ r.stop = row.stop
  BY <1>3, Facts DEF Rows
<1>5. row' = r
  BY <1>1 DEF StoredBy
<1> HIDE DEF r
<1>6. RunStatus(row') = RunStatus(row)
  BY <1>4, <1>5, RunStatusSame
<1>7. StatusSound'
  BY <1>1, <1>3, <1>4, <1>5, <1>6 DEF StatusSound, RunEnded
<1>8. WorkersSound'
  BY <1>1, Facts, IdleInv, TickTypes, StoredBySound
<1> QED BY <1>1, <1>4, <1>5, <1>7, <1>8, Facts, Assembled DEF Starts

LEMMA ConflictStep ==
    ASSUME IInv, NEW w \in Workers, Conflict(w) PROVE IInv' /\ Starts
BY Facts, IdleInv, TickTypes, BecomeStep DEF Conflict

-----------------------------------------------------------------------------
(* What goes wrong *)

LEMMA OneMoreFault ==
    ASSUME IInv, faults < MaxFaults, faults' = faults + 1
    PROVE  faults' \in 0 .. MaxFaults
BY Facts, LimitsAssumption

LEMMA ExpireStep ==
    ASSUME IInv, Expire PROVE IInv' /\ Starts
<1>1. leased' = FALSE /\ row' = row /\ worker' = worker /\ domain' = domain /\ seen' = seen
  BY DEF Expire
<1>2. faults' \in 0 .. MaxFaults
  BY Facts, OneMoreFault DEF Expire
<1>3. WorkersSound'
  BY <1>1, Facts DEF WorkersSound
<1> QED BY <1>1, <1>2, <1>3, WorkersOnly

LEMMA CrashStep ==
    ASSUME IInv, NEW w \in Workers, Crash(w) PROVE IInv' /\ Starts
BY OneMoreFault, IdleInv, TickTypes, BecomeStep DEF Crash

(* The child is there although the row does not say so: the node is still the
   one that was dispatched. *)
LEMMA CrashAfterCallStep ==
    ASSUME IInv, NEW w \in Workers, CrashAfterCall(w) PROVE IInv' /\ Starts
<1> DEFINE n == Target(w)
<1>1. PICK o \in Advanced(row, n) : domain' = [domain EXCEPT ![n] = o.dom]
  BY DEF CrashAfterCall
<1>2. /\ worker[w].step = "step" \/ (worker[w].step = "stop" /\ row.nodes[n].sent)
      /\ Become(w, Idle) /\ row' = row /\ leased' = leased /\ seen' = seen
      /\ faults < MaxFaults /\ faults' = faults + 1
  BY DEF CrashAfterCall, At
<1>3. worker[w] \in Ticks /\ WorkerInv(worker[w], row)
  BY Facts
<1>4. n \in Nodes /\ row.nodes[n].st \notin {"absent", "pending"}
  <2>1. CASE worker[w].step = "step"
    <3>1. n = worker[w].node
      BY <2>1 DEF Target, At
    <3> QED BY <1>3, <2>1, <3>1, TickFields DEF WorkerInv
  <2>2. CASE worker[w].step = "stop"
    <3>1. n = First(worker[w].todo)
      BY <2>2 DEF Target, At
    <3>2. worker[w].todo \in SUBSET Nodes /\ worker[w].todo # {}
      BY <1>3, <2>2, TickFields
    <3>3. n \in Nodes
      BY <3>1, <3>2, FirstIn
    <3> QED BY <1>2, <2>2, <3>3, Facts DEF NodeInv
  <2> QED BY <1>2, <2>1, <2>2
<1> HIDE DEF n
<1>5. WorkersSound'
  BY <1>2, Facts, IdleInv, TickTypes, BecomeSound
<1>6. faults' \in 0 .. MaxFaults
  BY <1>2, OneMoreFault
<1> QED BY <1>1, <1>2, <1>4, <1>5, <1>6, AdvancedFields, ChildOnly

(* The approval changes and the child does not. *)
LEMMA CallFieldSound ==
    ASSUME NEW n \in Nodes, NEW e, NEW d \in Domains, NodeInv(n, e, d), d.call \in {"pending", "approved"},
           NEW a \in {"approved", "refused"}
    PROVE  /\ [d EXCEPT !.call = a] \in Domains /\ NodeInv(n, e, [d EXCEPT !.call = a])
           /\ [d EXCEPT !.call = a].child = d.child
<1> DEFINE D == [d EXCEPT !.call = a]
<1>1. D \in Domains /\ D.child = d.child /\ D.call = a
  BY DEF Domains, Approvals
<1>2. NodeInv(n, e, D)
  <2> HIDE DEF D
  <2> QED BY <1>1 DEF NodeInv
<1> QED BY <1>1, <1>2

(* Whether an approved call is answered with an error, and had its effect or not *)
LEMMA DecidedSound ==
    ASSUME NEW n \in Nodes, NEW e \in NodeRuns, NEW d \in Domains, Live(e), NodeInv(n, e, d),
           d.call \in {"pending", "approved"}, NEW a \in {"approved", "executed", "refused"},
           NEW x, x = [Effect(n, d) EXCEPT !.call = a] \/ (a # "executed" /\ x = [d EXCEPT !.call = a])
    PROVE  x \in Domains /\ NodeInv(n, e, x)
<1>1. n \in Guarded /\ a \in Approvals
  BY DEF NodeInv, Approvals
<1>2. CASE x = [Effect(n, d) EXCEPT !.call = a]
  <2>1. n \in Guarded => a \notin {"none", "pending"}
    OBVIOUS
  <2>2. /\ [Effect(n, d) EXCEPT !.call = a] \in Domains
        /\ NodeInv(n, e, [Effect(n, d) EXCEPT !.call = a])
    BY <1>1, <2>1, EffectSound
  <2> QED BY <1>2, <2>2
<1>3. CASE a # "executed" /\ x = [d EXCEPT !.call = a]
  <2>1. a \in {"approved", "refused"}
    BY <1>3
  <2>2. [d EXCEPT !.call = a] \in Domains /\ NodeInv(n, e, [d EXCEPT !.call = a])
    BY <2>1, CallFieldSound
  <2> QED BY <1>3, <2>2
<1> QED BY <1>2, <1>3

LEMMA ApprovedCallFailsStep ==
    ASSUME IInv, NEW w \in Workers, ApprovedCallFails(w) PROVE IInv' /\ Starts
<1> DEFINE n == worker[w].node
           d == domain[n]
<1>1. PICK x \in Failures(n, d) : domain' = [domain EXCEPT ![n] = x]
  BY DEF ApprovedCallFails
<1>2. /\ worker[w].step = "step" /\ row.nodes[n].st \notin NodeTerminal /\ d.call = "approved"
      /\ Become(w, Idle) /\ row' = row /\ leased' = leased /\ seen' = seen
      /\ faults' = faults
  BY DEF ApprovedCallFails, At
<1>3. worker[w] \in Ticks /\ WorkerInv(worker[w], row)
  BY Facts
<1>4. n \in Nodes /\ row.nodes[n].st \notin {"absent", "pending"} /\ row.stop = "none"
  BY <1>2, <1>3, TickFields DEF WorkerInv
<1> HIDE DEF n, d
<1>5. d \in Domains /\ NodeInv(n, row.nodes[n], d) /\ row.nodes[n] \in NodeRuns
  BY <1>4, Facts DEF d
<1>6. Live(row.nodes[n])
  BY <1>2, <1>4, <1>5, LiveNode
<1>7. x = [Effect(n, d) EXCEPT !.call = "refused"] \/ x = [d EXCEPT !.call = "refused"]
  BY <1>1, <1>2 DEF Failures
<1>8. x \in Domains /\ NodeInv(n, row.nodes[n], x)
  BY <1>2, <1>4, <1>5, <1>6, <1>7, DecidedSound
<1>9. WorkersSound'
  BY <1>2, Facts, IdleInv, TickTypes, BecomeSound
<1>10. faults' \in 0 .. MaxFaults
  BY <1>2, Facts
<1>11. row.nodes[n].sent
  BY <1>6 DEF Live
<1> QED BY <1>1, <1>2, <1>4, <1>8, <1>9, <1>10, <1>11, ChildOnly

(* An attempt to cancel that was decided one way or the other keeps the node and its
   child in step: at most the child was asked to stop. *)
LEMMA CancelDecidedSound ==
    ASSUME NEW n \in Nodes, NEW e, NEW d \in Domains, NodeInv(n, e, d), NEW a \in Approvals, NEW x,
           x = [StopAsked(d) EXCEPT !.cancel = a] \/ x = [d EXCEPT !.cancel = a]
    PROVE  x \in Domains /\ NodeInv(n, e, x) /\ (d.child = "none" => x.child = "none")
<1>1. /\ [StopAsked(d) EXCEPT !.cancel = a] \in Domains
      /\ NodeInv(n, e, [StopAsked(d) EXCEPT !.cancel = a])
      /\ [StopAsked(d) EXCEPT !.cancel = a].child = "none" <=> d.child = "none"
  BY StopAskedSound
<1>2. /\ [d EXCEPT !.cancel = a] \in Domains /\ NodeInv(n, e, [d EXCEPT !.cancel = a])
      /\ [d EXCEPT !.cancel = a].child = d.child
  BY CancelFieldSound
<1> QED BY <1>1, <1>2

LEMMA ApprovedCancelFailsStep ==
    ASSUME IInv, NEW w \in Workers, ApprovedCancelFails(w) PROVE IInv' /\ Starts
<1> DEFINE S == worker[w].todo
           n == First(S)
           d == domain[n]
<1>1. PICK x : /\ domain' = [domain EXCEPT ![n] = x]
               /\ x = [StopAsked(d) EXCEPT !.cancel = "refused"] \/ x = [d EXCEPT !.cancel = "refused"]
  BY DEF ApprovedCancelFails
<1>2. /\ worker[w].step = "stop" /\ Become(w, Idle) /\ row' = row /\ leased' = leased
      /\ seen' = seen /\ faults' = faults
  BY DEF ApprovedCancelFails, At
<1>3. S \in SUBSET Nodes /\ S # {}
  BY <1>2, Facts, TickFields
<1> HIDE DEF S
<1>4. n \in Nodes
  BY <1>3, FirstIn
<1> HIDE DEF n, d
<1>5. d \in Domains /\ NodeInv(n, row.nodes[n], d) /\ d = domain[n]
  BY <1>4, Facts DEF d
<1>6. "refused" \in Approvals
  BY DEF Approvals
<1>7. x \in Domains /\ NodeInv(n, row.nodes[n], x) /\ (d.child = "none" => x.child = "none")
  BY <1>1, <1>4, <1>5, <1>6, CancelDecidedSound
<1>8. WorkersSound'
  BY <1>2, Facts, IdleInv, TickTypes, BecomeSound
<1>9. faults' \in 0 .. MaxFaults
  BY <1>2, Facts
<1> QED BY <1>1, <1>2, <1>4, <1>5, <1>7, <1>8, <1>9, ChildOnly

-----------------------------------------------------------------------------
(* Users and approvers *)

LEMMA CancelTaskStep ==
    ASSUME IInv, CancelCapabilityTask PROVE IInv' /\ Starts
<1>1. /\ Stored(StoppedFor("user")) /\ leased' = leased /\ domain' = domain
      /\ seen' = seen /\ faults' = faults
  BY DEF CancelCapabilityTask
<1>2. WorkersSound' /\ row' = StoppedFor("user")
  BY <1>1, Facts, StoredSound DEF Stored
<1> QED BY <1>1, <1>2, StopRecorded

(* Only a dispatched node of a run that was not stopped is called by an approver. *)
LEMMA ApproveStep ==
    ASSUME IInv, NEW n \in Nodes, Approve(n) PROVE IInv' /\ Starts
<1> DEFINE d == domain[n]
<1>1. /\ d.call = "pending" /\ row.stop = "none" /\ row.nodes[n].sent
      /\ row.nodes[n].st \in {"waiting_approval", "running"}
      /\ row' = row /\ leased' = leased /\ worker' = worker /\ seen' = seen
  BY DEF Approve, Approvable
<1>2. faults' \in 0 .. MaxFaults
  BY Facts, OneMoreFault DEF Approve
<1>3. PICK x : /\ domain' = [domain EXCEPT ![n] = x]
               /\ \E a \in {"approved", "executed", "refused"} :
                     x = [Effect(n, d) EXCEPT !.call = a] \/ (a # "executed" /\ x = [d EXCEPT !.call = a])
  BY <1>1 DEF Approve, Failures
<1> HIDE DEF d
<1>4. d \in Domains /\ NodeInv(n, row.nodes[n], d) /\ row.nodes[n] \in NodeRuns
  BY Facts DEF d
<1>5. Live(row.nodes[n])
  BY <1>1 DEF Live
<1>6. x \in Domains /\ NodeInv(n, row.nodes[n], x)
  BY <1>1, <1>3, <1>4, <1>5, DecidedSound
<1>7. WorkersSound'
  BY <1>1, Facts DEF WorkersSound
<1> QED BY <1>1, <1>2, <1>3, <1>6, <1>7, ChildOnly

LEMMA ApproveCancelStep ==
    ASSUME IInv, NEW n \in Nodes, ApproveCancel(n) PROVE IInv' /\ Starts
<1> DEFINE d == domain[n]
<1>1. row' = row /\ leased' = leased /\ worker' = worker /\ seen' = seen
  BY DEF ApproveCancel
<1>2. faults' \in 0 .. MaxFaults
  BY Facts, OneMoreFault DEF ApproveCancel
<1>3. PICK x : /\ domain' = [domain EXCEPT ![n] = x]
               /\ \E a \in Approvals : x = [StopAsked(d) EXCEPT !.cancel = a] \/ x = [d EXCEPT !.cancel = a]
  BY DEF ApproveCancel, Approvals
<1> HIDE DEF d
<1>4. d \in Domains /\ NodeInv(n, row.nodes[n], d) /\ d = domain[n]
  BY Facts DEF d
<1>6. x \in Domains /\ NodeInv(n, row.nodes[n], x) /\ (d.child = "none" => x.child = "none")
  BY <1>3, <1>4, CancelDecidedSound
<1>7. WorkersSound'
  BY <1>1, Facts DEF WorkersSound
<1> QED BY <1>1, <1>2, <1>3, <1>4, <1>6, <1>7, ChildOnly

LEMMA RefuseStep ==
    ASSUME IInv, NEW n \in Nodes, Refuse(n) PROVE IInv' /\ Starts
<1> DEFINE d == domain[n]
<1>1. row' = row /\ leased' = leased /\ worker' = worker /\ seen' = seen /\ faults' = faults
  BY DEF Refuse
<1>2. d \in Domains /\ NodeInv(n, row.nodes[n], d) /\ domain \in [Nodes -> Domains]
  BY Facts
<1>3. PICK x \in {[d EXCEPT !.call = "refused"], [d EXCEPT !.cancel = "refused"]} :
        /\ domain' = [domain EXCEPT ![n] = x]
        /\ x = [d EXCEPT !.cancel = "refused"] \/ (d.call = "pending" /\ x = [d EXCEPT !.call = "refused"])
  BY DEF Refuse
<1> HIDE DEF d
<1>4. "refused" \in Approvals
  BY DEF Approvals
<1>5. x \in Domains /\ NodeInv(n, row.nodes[n], x) /\ x.child = d.child
  <2>1. CASE x = [d EXCEPT !.cancel = "refused"]
    <3>1. /\ [d EXCEPT !.cancel = "refused"] \in Domains
          /\ NodeInv(n, row.nodes[n], [d EXCEPT !.cancel = "refused"])
          /\ [d EXCEPT !.cancel = "refused"].child = d.child
      BY <1>2, <1>4, CancelFieldSound
    <3> QED BY <2>1, <3>1
  <2>2. CASE d.call = "pending" /\ x = [d EXCEPT !.call = "refused"]
    <3>1. /\ [d EXCEPT !.call = "refused"] \in Domains
          /\ NodeInv(n, row.nodes[n], [d EXCEPT !.call = "refused"])
          /\ [d EXCEPT !.call = "refused"].child = d.child
      BY <1>2, <2>2, CallFieldSound
    <3> QED BY <2>2, <3>1
  <2> QED BY <1>3, <2>1, <2>2
<1>6. WorkersSound'
  BY <1>1, Facts DEF WorkersSound
<1>7. d = domain[n]
  BY DEF d
<1> QED BY <1>1, <1>3, <1>5, <1>6, <1>7, Facts, ChildOnly

LEMMA ChildEndsStep ==
    ASSUME IInv, NEW n \in Nodes, ChildEnds(n) PROVE IInv' /\ Starts
<1> DEFINE d == domain[n]
<1>1. /\ d.child \in ChildAtWork
      /\ row' = row /\ leased' = leased /\ worker' = worker /\ seen' = seen /\ faults' = faults
  BY DEF ChildEnds
<1>2. PICK c \in ChildEnded : domain' = [domain EXCEPT ![n] = [d EXCEPT !.child = c]]
  BY DEF ChildEnds
<1> DEFINE x == [d EXCEPT !.child = c]
<1>3. d \in Domains /\ NodeInv(n, row.nodes[n], d)
  BY Facts
<1>4. d.child = domain[n].child
  OBVIOUS
<1> HIDE DEF d
<1>5. c \in ChildStates
  BY DEF ChildStates
<1>6. x \in Domains /\ x.child = c /\ x.call = d.call
  BY <1>3, <1>5 DEF Domains, ChildStates
<1> HIDE DEF x
<1>7. d.child \notin ChildEnded /\ d.child # "none" /\ c \notin ChildAtWork
  BY <1>1 DEF ChildAtWork, ChildEnded
<1>8. d.child # "succeeded"
  BY <1>1 DEF ChildAtWork
<1>9. c # "none"
  BY DEF ChildEnded
<1>10. NodeInv(n, row.nodes[n], x)
  BY <1>3, <1>6, <1>7, <1>8, <1>9 DEF NodeInv
<1>11. WorkersSound'
  BY <1>1, Facts DEF WorkersSound
<1>12. domain' = [domain EXCEPT ![n] = x]
  BY <1>2 DEF x
<1> QED BY <1>1, <1>4, <1>6, <1>7, <1>10, <1>11, <1>12, Facts, ChildOnly

(* What a revision makes of a node *)
LEMMA RevisedNode ==
    ASSUME row.nodes \in [Nodes -> NodeRuns], NEW P \in SUBSET Nodes, NEW n \in Nodes
    PROVE  /\ Revised(P)[n] \in NodeRuns
           /\ n \notin P => Revised(P)[n] = Fresh("absent")
           /\ n \in P /\ n \notin Plan(row) => Revised(P)[n] = Fresh("pending")
           /\ n \in P /\ n \in Plan(row) =>
                 /\ Revised(P)[n].sent = row.nodes[n].sent
                 /\ Revised(P)[n].inv = row.nodes[n].inv
                 /\ Revised(P)[n].st = IF row.nodes[n].st = "blocked"
                                       THEN IF row.nodes[n].sent THEN "running" ELSE "pending"
                                       ELSE row.nodes[n].st
<1> DEFINE e == row.nodes[n]
<1>0. e \in NodeRuns
  OBVIOUS
<1>1. CASE n \notin P
  <2>1. Revised(P)[n] = Fresh("absent")
    BY <1>1 DEF Revised
  <2>2. Fresh("absent") \in NodeRuns
    BY DEF Fresh, NodeRuns, NodeStatuses, Verdicts
  <2> QED BY <1>1, <2>1, <2>2
<1>2. CASE n \in P /\ n \notin Plan(row)
  <2>1. Revised(P)[n] = Fresh("pending")
    BY <1>2 DEF Revised
  <2>2. Fresh("pending") \in NodeRuns
    BY DEF Fresh, NodeRuns, NodeStatuses, Verdicts
  <2> QED BY <1>2, <2>1, <2>2
<1>3. CASE n \in P /\ n \in Plan(row) /\ e.st = "blocked"
  <2>1. PICK st \in {"running", "pending"} :
          Revised(P)[n] = [e EXCEPT !.st = st] /\ st = IF e.sent THEN "running" ELSE "pending"
    BY <1>3 DEF Revised
  <2>2. st \in NodeStatuses
    BY DEF NodeStatuses
  <2>3. /\ Revised(P)[n] \in NodeRuns /\ Revised(P)[n].sent = e.sent
        /\ Revised(P)[n].inv = e.inv /\ Revised(P)[n].st = st
    BY <1>0, <2>1, <2>2 DEF NodeRuns
  <2> QED BY <1>3, <2>1, <2>3
<1>4. CASE n \in P /\ n \in Plan(row) /\ e.st # "blocked"
  <2>1. Revised(P)[n] = e
    BY <1>4 DEF Revised
  <2> QED BY <1>0, <1>4, <2>1
<1> QED BY <1>1, <1>2, <1>3, <1>4

LEMMA FreshIs ==
    ASSUME NEW st PROVE Fresh(st).st = st /\ ~Fresh(st).sent /\ Fresh(st).inv = "none"
BY DEF Fresh

(* The revised plan: what has a child at work is kept, what a kept step depends on
   too, and what verifies the goal starts afresh. *)
LEMMA RevisedSound ==
    ASSUME IInv, NEW P \in SUBSET Nodes, Revisable(P)
    PROVE  /\ Revised(P) \in [Nodes -> NodeRuns]
           /\ NodesOf(Revised(P), domain, row.plan + 1, seen)
<1>0. row.nodes \in [Nodes -> NodeRuns]
  BY Facts
<1> DEFINE N == Revised(P)
<1>1. N \in [Nodes -> NodeRuns]
  <2>1. N = [n \in Nodes |-> N[n]]
    BY DEF Revised
  <2> QED BY <1>0, <2>1, RevisedNode
<1>2. ASSUME NEW n \in Nodes PROVE NodeInv(n, N[n], domain[n])
  <2> DEFINE e == row.nodes[n]
             d == domain[n]
  <2>1. NodeInv(n, e, d) /\ e \in NodeRuns
    BY Facts
  <2>2. ~(e.sent) => ~(d.child \in ChildAtWork /\ d.call # "refused")
    BY <2>1 DEF NodeInv
  <2>3. CASE n \notin P
    <3>1. ~(d.child \in ChildAtWork /\ d.call # "refused")
      <4>1. SUFFICES ASSUME d.child \in ChildAtWork, d.call # "refused" PROVE FALSE
        OBVIOUS
      <4>2. d.child \notin ChildEnded
        BY <4>1 DEF ChildAtWork, ChildEnded
      <4>3. d.child # "succeeded"
        BY <4>1 DEF ChildAtWork
      <4>4. e.sent /\ ~Resolved(e) /\ e.st # "absent"
        BY <2>1, <4>1, <4>2, <4>3 DEF NodeInv, Resolved
      <4>5. n \in P
        BY <4>4 DEF Revisable, Pending, Plan
      <4> QED BY <2>3, <4>5
    <3>2. N[n] = Fresh("absent")
      BY <1>0, <2>3, RevisedNode
    <3> HIDE DEF N
    <3> QED BY <2>1, <3>1, <3>2, FreshIs DEF NodeInv
  <2>4. CASE n \in P /\ n \notin Plan(row)
    <3>1. ~e.sent
      BY <2>1, <2>4 DEF Plan, NodeInv
    <3>2. N[n] = Fresh("pending")
      BY <1>0, <2>4, RevisedNode
    <3> HIDE DEF N
    <3> QED BY <2>1, <2>2, <3>1, <3>2, FreshIs DEF NodeInv
  <2>5. CASE n \in P /\ n \in Plan(row)
    <3>1. /\ N[n].sent = e.sent /\ N[n].inv = e.inv
          /\ N[n].st = IF e.st = "blocked" THEN IF e.sent THEN "running" ELSE "pending" ELSE e.st
      BY <1>0, <2>5, RevisedNode
    <3> HIDE DEF N
    <3>2. Resolved(N[n]) = Resolved(e)
      BY <3>1 DEF Resolved
    <3> QED BY <2>1, <3>1, <3>2 DEF NodeInv
  <2> QED BY <2>3, <2>4, <2>5
<1>3. ASSUME NEW n \in Nodes, N[n].sent, NEW m \in Deps[n] PROVE N[m].st = "completed"
  <2>0. m \in Nodes
    BY NodesAssumption
  <2>1. n \in P /\ n \in Plan(row) /\ row.nodes[n].sent
    BY <1>0, <1>3, RevisedNode, FreshIs
  <2>2. row.nodes[m].st = "completed"
    BY <2>1, Facts DEF NodesOf
  <2>3. m \in P /\ m \in Plan(row)
    BY <2>0, <2>1, <2>2 DEF Revisable, Plan
  <2> QED BY <1>0, <2>0, <2>2, <2>3, RevisedNode
<1>4. ASSUME NEW n \in Nodes, N[n].st # "absent", NEW m \in Deps[n] PROVE N[m].st # "absent"
  <2>0. m \in Nodes
    BY NodesAssumption
  <2>1. m \in P
    BY <1>0, <1>4, RevisedNode, FreshIs DEF Revisable
  <2>2. CASE m \in Plan(row)
    <3>1. row.nodes[m].st # "absent"
      BY <2>2 DEF Plan
    <3> QED BY <1>0, <2>0, <2>1, <2>2, <3>1, RevisedNode
  <2>3. CASE m \notin Plan(row)
    BY <1>0, <2>0, <2>1, <2>3, RevisedNode, FreshIs
  <2> QED BY <2>2, <2>3
<1>5. ASSUME NEW n \in Nodes, n \in Verifies, Resolved(N[n]) PROVE FALSE
  <2>1. n \in P /\ n \in Plan(row) /\ N[n].inv = row.nodes[n].inv
    BY <1>0, <1>5, RevisedNode, FreshIs DEF Resolved
  <2>2. Resolved(row.nodes[n])
    BY <1>5, <2>1 DEF Resolved
  <2>3. row.nodes[n].sent
    BY <2>2, Facts DEF NodeInv, Resolved
  <2>4. n \in Archived
    BY <2>1, <2>2, <2>3 DEF Archived
  <2> QED BY <1>5, <2>1, <2>4 DEF Revisable
<1> HIDE DEF N
<1>6. NodesOf(N, domain, row.plan + 1, seen)
  BY <1>2, <1>3, <1>4, <1>5 DEF NodesOf
<1> QED BY <1>1, <1>6 DEF N

LEMMA ResumeStep ==
    ASSUME IInv, ResumeCapabilityTask PROVE IInv' /\ Starts
<1>1. PICK P \in SUBSET Nodes :
        /\ Revisable(P)
        /\ Stored([row EXCEPT !.status = "queued", !.stop = "none", !.nodes = Revised(P),
                              !.plan = row.plan + 1, !.archive = Archived])
  BY DEF ResumeCapabilityTask
<1>2. /\ ~leased /\ row.plan < MaxPlan /\ leased' = leased /\ domain' = domain
      /\ seen' = seen /\ faults' = faults
  BY DEF ResumeCapabilityTask
<1>3. Revised(P) \in [Nodes -> NodeRuns] /\ NodesOf(Revised(P), domain, row.plan + 1, seen)
  BY <1>1, RevisedSound
<1>4. row.plan + 1 \in 1 .. MaxPlan
  BY <1>2, Facts, LimitsAssumption
<1>5. Archived \in SUBSET Nodes /\ "queued" \in RunStatuses
  BY Facts DEF Archived, Plan, Rows, RunStatuses
<1>6. row' = [row EXCEPT !.status = "queued", !.stop = "none", !.nodes = Revised(P),
                         !.plan = row.plan + 1, !.archive = Archived]
  BY <1>1 DEF Stored
<1>7. row' \in Rows /\ row'.nodes = Revised(P) /\ row'.plan = row.plan + 1 /\ row'.status = "queued"
  BY <1>3, <1>4, <1>5, <1>6, Facts DEF Rows
<1>8. StatusSound'
  BY <1>2, <1>7 DEF StatusSound, RunEnded
<1>9. WorkersSound'
  BY <1>1, Facts, StoredSound
<1> QED BY <1>2, <1>3, <1>7, <1>8, <1>9, Facts, Assembled DEF Starts

-----------------------------------------------------------------------------
(* The theorems *)

LEMMA InitInductive == Init => IInv
<1> SUFFICES ASSUME Init PROVE IInv
  OBVIOUS
<1>1. PICK b \in BOOLEAN :
        row = [status |-> "queued", stop |-> "none", plan |-> 1, native |-> b, archive |-> {},
               nodes |-> [n \in Nodes |-> Fresh(IF n \in FirstPlan THEN "pending" ELSE "absent")]]
  BY DEF Init
<1>2. ASSUME NEW n \in Nodes
      PROVE  /\ row.nodes[n] \in NodeRuns /\ ~row.nodes[n].sent /\ row.nodes[n].inv = "none"
             /\ row.nodes[n].st = IF n \in FirstPlan THEN "pending" ELSE "absent"
  <2>1. row.nodes[n] = Fresh(IF n \in FirstPlan THEN "pending" ELSE "absent")
    BY <1>1
  <2> QED BY <2>1 DEF Fresh, NodeRuns, NodeStatuses, Verdicts
<1>3. row.nodes \in [Nodes -> NodeRuns]
  <2>1. row.nodes = [n \in Nodes |-> row.nodes[n]]
    BY <1>1
  <2> QED BY <1>2, <2>1
<1>4. 1 \in 1 .. MaxPlan /\ 0 \in 0 .. MaxPlan /\ 0 \in 0 .. MaxFaults
  BY LimitsAssumption
<1>5. row \in Rows
  <2>1. /\ row = [status |-> "queued", stop |-> "none", plan |-> 1, native |-> b, archive |-> {},
                  nodes |-> row.nodes]
        /\ "queued" \in RunStatuses /\ {} \in SUBSET Nodes
    BY <1>1 DEF RunStatuses
  <2> QED BY <1>3, <1>4, <2>1 DEF Rows
<1>6. ASSUME NEW n \in Nodes
      PROVE  domain[n] \in Domains /\ domain[n].child = "none" /\ domain[n].call = "none"
  BY DEF Init, Domains, Approvals
<1>7. domain \in [Nodes -> Domains]
  <2>1. domain = [n \in Nodes |-> domain[n]]
    BY DEF Init
  <2> QED BY <1>6, <2>1
<1>8. NodesSound
  <2>1. ASSUME NEW n \in Nodes PROVE NodeInv(n, row.nodes[n], domain[n])
    BY <1>2, <1>6 DEF NodeInv, ChildAtWork
  <2>2. ASSUME NEW n \in Nodes, row.nodes[n].st # "absent", NEW m \in Deps[n]
        PROVE  row.nodes[m].st # "absent"
    <3>1. n \in FirstPlan
      BY <1>2, <2>2
    <3>2. m \in FirstPlan /\ m \in Nodes
      BY <3>1, PlanAssumption, NodesAssumption
    <3> QED BY <1>2, <3>2
  <2> QED BY <1>2, <2>1, <2>2 DEF NodesSound, Resolved
<1>9. StatusSound
  BY <1>1 DEF Init, StatusSound, RunEnded
<1>10. WorkersSound
  BY IdleInv, TickTypes DEF Init, WorkersSound
<1>11. leased \in BOOLEAN /\ seen \in [Nodes -> 0 .. MaxPlan] /\ faults \in 0 .. MaxFaults
  BY <1>4 DEF Init
<1> QED BY <1>5, <1>7, <1>8, <1>9, <1>10, <1>11 DEF IInv, TypeOK, WorkersSound

LEMMA NextInductive ==
    ASSUME IInv, [Next]_vars PROVE IInv' /\ Starts
<1>1. CASE UNCHANGED vars
  <2>1. WorkersSound'
    BY <1>1, Facts DEF vars, WorkersSound
  <2> QED BY <1>1, <2>1, Facts, WorkersOnly DEF vars
<1>2. CASE \E w \in Workers : Tick(w)
  BY <1>2, OverdueStep, UnauthorizedStep, ProceedStep, StopOnFailureStep, PrepareStep, AdvanceStep,
     CancelNodeStep, SaveStep, ConflictStep DEF Tick
<1>3. CASE \E w \in Workers : \/ ClaimManagedRun(w) \/ Crash(w) \/ CrashAfterCall(w)
                            \/ ApprovedCallFails(w) \/ ApprovedCancelFails(w)
  BY <1>3, ClaimStep, CrashStep, CrashAfterCallStep, ApprovedCallFailsStep, ApprovedCancelFailsStep
<1>4. CASE \E n \in Nodes : Approve(n) \/ ApproveCancel(n) \/ Refuse(n) \/ ChildEnds(n)
  BY <1>4, ApproveStep, ApproveCancelStep, RefuseStep, ChildEndsStep
<1>5. CASE Expire \/ CancelCapabilityTask \/ ResumeCapabilityTask
  BY <1>5, ExpireStep, CancelTaskStep, ResumeStep
<1> QED BY <1>1, <1>2, <1>3, <1>4, <1>5 DEF Next

(* The inductive invariant holds of every plan, however often it is revised, and
   whatever the workers, the approvers and the children do. *)
THEOREM Invariant == Spec => []IInv
<1>1. Init => IInv
  BY InitInductive
<1>2. IInv /\ [Next]_vars => IInv'
  BY NextInductive
<1> QED BY <1>1, <1>2, PTL DEF Spec

(* A row that says the run has ended has only ended nodes. *)
LEMMA EndedNodes ==
    ASSUME IInv, row.status \in RunEnded, NEW n \in Nodes, row.nodes[n].st # "absent"
    PROVE  row.nodes[n].st \in NodeTerminal /\ row.nodes[n].st # "blocked"
<1>1. RunStatus(row) \in RunEnded
  BY Facts DEF StatusSound
<1>2. ~Some(row, "blocked") /\ Unfinished(row) = {}
  BY <1>1 DEF RunStatus, RunEnded
<1> QED BY <1>2 DEF Some, Unfinished, Plan

(* The row, its archived plans, the workers, the children and their approvals keep
   their types, whoever takes the row over (runCapabilityTick, reviseCapabilityRun). *)
THEOREM TypeCorrect == Spec => []TypeOK
<1>1. IInv => TypeOK
  BY DEF IInv
<1> QED BY <1>1, Invariant, PTL

(* A child at work has its step in the plan, dispatched and not ended, and its run
   has not ended: neither a stop, a revision, a lost lease nor a crash after the
   call forgets it (advanceCapabilityRun, recoverCapabilityNodeOnStop,
   validateCapabilityRevision). *)
THEOREM ChildrenRemembered == Spec => []NothingForgotten
<1>1. ASSUME IInv PROVE NothingForgotten
  <2>1. ASSUME NEW n \in Nodes, domain[n].child \in ChildAtWork, ~AnswerLost(n)
        PROVE  /\ row.nodes[n].sent
               /\ row.nodes[n].st \notin {"absent", "pending", "completed", "failed", "canceled"}
               /\ row.status \notin RunEnded
    <3>1. /\ row.nodes[n].sent
          /\ row.nodes[n].st \notin {"absent", "pending", "completed", "failed", "canceled"}
      BY <1>1, <2>1, Facts DEF NodeInv, AnswerLost
    <3>2. row.status \notin RunEnded
      BY <1>1, <3>1, EndedNodes DEF NodeTerminal
    <3> QED BY <3>1, <3>2
  <2> QED BY <2>1 DEF NothingForgotten
<1> QED BY <1>1, Invariant, PTL

(* A run that is completed was verified under its last plan, by steps whose effects
   were there, and nothing of that plan failed (capabilityRunStatus,
   AssessCapabilityRun, validateCapabilityRevision). *)
THEOREM GoalVerified == Spec => []CompletedIsVerified
<1>1. ASSUME IInv, row.status = "completed"
      PROVE  /\ Plan(row) \cap Verifies # {}
             /\ \A n \in Plan(row) \cap Verifies : domain[n].child = "succeeded" /\ seen[n] = row.plan
             /\ \A n \in Plan(row) : row.nodes[n].st \in {"completed", "canceled"}
  <2>1. RunStatus(row) = "completed" /\ row.status \in RunEnded
    BY <1>1, Facts DEF StatusSound, RunEnded
  <2>2. Verdict(row) = "satisfied" /\ ~Some(row, "failed")
    BY <2>1 DEF RunStatus
  <2>3. Plan(row) \cap Verifies # {} /\ \A n \in Plan(row) \cap Verifies : row.nodes[n].st = "completed"
    BY <2>2 DEF Verdict
  <2>4. ASSUME NEW n \in Plan(row) \cap Verifies PROVE domain[n].child = "succeeded" /\ seen[n] = row.plan
    <3>1. n \in Nodes /\ n \in Verifies
      BY DEF Plan
    <3>2. Resolved(row.nodes[n]) /\ domain[n].child = "succeeded"
      BY <1>1, <2>3, <3>1, Facts DEF NodeInv
    <3> QED BY <1>1, <3>1, <3>2, Facts DEF NodesOf
  <2>5. ASSUME NEW n \in Plan(row) PROVE row.nodes[n].st \in {"completed", "canceled"}
    <3>1. n \in Nodes /\ row.nodes[n].st # "absent"
      BY DEF Plan
    <3>2. row.nodes[n].st \in NodeTerminal /\ row.nodes[n].st # "blocked"
      BY <1>1, <2>1, <3>1, EndedNodes
    <3>3. row.nodes[n].st # "failed"
      BY <2>2, <3>1 DEF Some
    <3> QED BY <3>2, <3>3 DEF NodeTerminal
  <2> QED BY <2>3, <2>4, <2>5
<1>2. IInv => CompletedIsVerified
  BY <1>1 DEF CompletedIsVerified
<1> QED BY <1>2, Invariant, PTL

(* Once a stop is recorded no call takes effect for the first time, whoever makes it
   (UpdateCapabilityNode, WithCapabilityApproval, recoverCapabilityNodeOnStop). *)
THEOREM StopStartsNothing == Spec => StoppedStartsNothing
<1>1. IInv /\ [Next]_vars =>
        [row.stop # "none" => \A n \in Nodes : domain[n].child = "none" => domain'[n].child = "none"]_vars
  BY NextInductive DEF Starts
<1> QED BY <1>1, Invariant, PTL DEF Spec, StoppedStartsNothing

(* A call takes effect only when the steps it depends on are completed, in the plan
   as it then is (collectReadyNodes, reviseCapabilityRun). *)
THEOREM DependenciesFirst == Spec => PrerequisitesFirst
<1>1. ASSUME IInv, [Next]_vars, NEW n \in Nodes, domain[n].child = "none", domain'[n].child # "none",
             NEW d \in Deps[n]
      PROVE  row.nodes[d].st = "completed"
  <2>1. row.nodes[n].sent
    BY <1>1, NextInductive DEF Starts
  <2> QED BY <1>1, <2>1, Facts DEF NodesOf
<1>2. IInv /\ [Next]_vars =>
        [\A n \in Nodes : domain[n].child = "none" /\ domain'[n].child # "none" =>
           \A d \in Deps[n] : row.nodes[d].st = "completed"]_vars
  BY <1>1
<1> QED BY <1>2, Invariant, PTL DEF Spec, PrerequisitesFirst

=============================================================================
