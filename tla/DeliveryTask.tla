---------------------------- MODULE DeliveryTask ----------------------------
(***************************************************************************)
(* The row protocol of an execution task that "requires stop confirmation" *)
(* (delivery batch tasks, Helm tasks and GitLab pipelines): what the two    *)
(* transactions that write such a row store, as functions of the status     *)
(* read under the row lock.  Every module about these tasks uses them.      *)
(***************************************************************************)

TaskStatuses == {"queued", "dispatching", "running", "canceling",
                 "completed", "failed", "canceled", "callback_timeout"}

(* isStrictTerminalTaskStatus *)
TaskTerminal == {"completed", "failed", "canceled", "callback_timeout"}

(* What an executor may report.  Workers that gave up at their deadline say    *)
(* callback_timeout, which the row keeps like any other end.                  *)
TaskReports == {"running"} \cup TaskTerminal

(* Statuses under which the executor may be working on the task. *)
TaskLive == {"dispatching", "running", "canceling"}

(* RequestDeliveryTaskStop: an unclaimed task is canceled on the spot, a     *)
(* dispatched one must wait for its executor to confirm.                     *)
RequestStop(status) ==
    CASE status = "queued" -> "canceled"
      [] status \in {"dispatching", "running"} -> "canceling"
      [] OTHER -> status

(* updateDeliveryTask: a terminal row absorbs every write, and a row whose   *)
(* stop was requested never goes back to a working status.                   *)
StoredStatus(current, incoming) ==
    IF \/ current \in TaskTerminal
       \/ current = "canceling" /\ incoming \in {"queued", "dispatching", "running"}
    THEN current
    ELSE incoming

=============================================================================
