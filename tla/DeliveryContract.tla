-------------------------- MODULE DeliveryContract --------------------------
(***************************************************************************)
(* What a delivery batch promises to the one who started it, without       *)
(* leases, workers, polling or lost messages:                              *)
(*   - a stage is handed to an executor at most once, and never after the  *)
(*     batch was stopped or has ended;                                     *)
(*   - the first cause of a stop decides how the batch ends;               *)
(*   - the batch ends once, and not before its executors have.             *)
(***************************************************************************)
CONSTANT Items      \* the stages that change the world

VARIABLES
    outcome,    \* "open" or the final status
    stop,       \* "" or the first cause of the stop
    live,       \* items an executor may be working on
    done        \* items whose executor has ended or that will never get one

vars == <<outcome, stop, live, done>>

Outcomes(cause) ==
    CASE cause = "user" -> {"canceled"}
      [] cause = "failure" -> {"failed"}
      [] OTHER -> {"completed", "partially_completed", "failed"}

Init == outcome = "open" /\ stop = "" /\ live = {} /\ done = {}

Dispatch(i) ==
    /\ outcome = "open"
    /\ stop = ""
    /\ i \notin live \cup done
    /\ live' = live \cup {i}
    /\ UNCHANGED <<outcome, stop, done>>

Settle(i) ==
    /\ outcome = "open"
    /\ i \notin done
    /\ live' = live \ {i}
    /\ done' = done \cup {i}
    /\ UNCHANGED <<outcome, stop>>

Stop(cause) ==
    /\ outcome = "open"
    /\ stop = ""
    /\ stop' = cause
    /\ UNCHANGED <<outcome, live, done>>

Finish(result) ==
    /\ outcome = "open"
    /\ live = {}
    /\ result \in Outcomes(stop)
    /\ outcome' = result
    /\ UNCHANGED <<stop, live, done>>

Next ==
    \/ \E i \in Items : Dispatch(i) \/ Settle(i)
    \/ \E cause \in {"user", "failure"} : Stop(cause)
    \/ \E result \in Outcomes(stop) : Finish(result)

Spec == Init /\ [][Next]_vars
=============================================================================
