------------------------------ MODULE RunRecord ------------------------------
(***************************************************************************)
(* The status of a Run and how one recorded event changes it               *)
(* (RunStore.record_event), and the state of the product Task that follows *)
(* the Run (ProductTaskStore.sync_from_run).  Stage, message, timestamps   *)
(* and the event log are left out: no status depends on them, because a    *)
(* status event that carries a status overwrites the stage before the      *)
(* stage is read.                                                          *)
(***************************************************************************)

RunStatuses == {"created", "running", "waiting_confirmation", "paused",
                "success", "failure", "partial", "stopped"}

\* The statuses after which _pause and _stop refuse to act.
FinishedStatuses == {"success", "failure", "partial", "stopped"}

\* The statuses that make a conversation busy (_ACTIVE_CONVERSATION_RUN_STATUSES).
ActiveStatuses == {"running", "waiting_confirmation", "paused"}

-----------------------------------------------------------------------------
(* Events.  kind is the event type; status is the word it carries. *)

StatusEvent(word)  == [kind |-> "status", status |-> word]
ToolEvent(outcome) == [kind |-> "tool", status |-> outcome]
ConfirmEvent       == [kind |-> "confirm", status |-> ""]
RecoverableError   == [kind |-> "error", status |-> "recoverable"]
TerminalError      == [kind |-> "error", status |-> "terminal"]
DoneEvent(word)    == [kind |-> "done", status |-> word]

\* A status event.  A paused run keeps the stage "paused" whatever the word,
\* unless the word resumes, stops-in-progress or cancels it.
AfterStatus(s, word) ==
    LET stage == IF s = "paused" /\ word \notin {"resumed", "stopping", "cancelled"}
                 THEN "paused" ELSE word
    IN  CASE stage = "paused"                                   -> "paused"
          [] stage = "resumed"                                  -> "running"
          [] stage \in {"tool_contract_failed", "error"}        -> "failure"
          [] stage \in {"max_tool_rounds", "stopped", "cancelled"} -> "stopped"
          [] s = "waiting_confirmation" /\ stage = "stopping"   -> "running"
          [] OTHER -> IF s \in {"failure", "success", "stopped",
                                "waiting_confirmation", "paused"}
                      THEN s ELSE "running"

\* record_event: the status of a run in status s once event e is recorded.
RecordEvent(s, e) ==
    CASE e.kind = "status"  -> AfterStatus(s, e.status)
      [] e.kind = "tool"    -> IF e.status = "failure" THEN "running" ELSE s
      [] e.kind = "confirm" -> "waiting_confirmation"
      [] e.kind = "error"   -> IF e.status = "terminal" THEN "failure"
                               ELSE IF s \in {"waiting_confirmation", "paused"}
                               THEN s ELSE "running"
      [] e.kind = "done"    -> e.status

\* Variant for mutation: a run that waits for a confirmation is overlooked.
RecoverRunPartly(s) == IF s \in {"running", "paused"} THEN "stopped" ELSE s

\* RunStore._recover_interrupted, at startup.
RecoverRun(s) == IF s \in ActiveStatuses THEN "stopped" ELSE s

-----------------------------------------------------------------------------
(* The product Task. *)

TaskStates == {"created", "running", "waiting_confirmation", "paused",
               "completed", "failed"}

\* sync_from_run: the task state that goes with a run status.
TaskStateOf(s) ==
    CASE s = "success"                -> "completed"
      [] s = "failure"                -> "failed"
      [] s \in {"stopped", "partial"} -> "paused"
      [] OTHER                        -> s

\* Variant for mutation: a task that waits for a confirmation is overlooked.
RecoverTaskPartly(state) == IF state = "running" THEN "paused" ELSE state

\* Variant for mutation: every task that has not ended was interrupted.
RecoverTaskAll(state) == IF state \in {"completed", "failed", "absent"} THEN state ELSE "paused"

\* ProductTaskStore._recover_interrupted, at startup.
RecoverTask(state) ==
    IF state \in {"running", "waiting_confirmation"} THEN "paused" ELSE state
=============================================================================
