----------------------------- MODULE RunLifecycle -----------------------------
(***************************************************************************)
(* The life of the Runs of one conversation: the streaming HTTP handler    *)
(* that starts a Run, the executor coroutine that carries it out, the      *)
(* pause / resume / stop / replay actions, the confirmation prompt, and a  *)
(* restart of the process.                                                 *)
(*                                                                         *)
(* Everything runs on one asyncio event loop, so an action of this module  *)
(* is what the code does between two awaits: the code of a coroutine from  *)
(* the point where it resumes to the point where it suspends again.  An    *)
(* executor's own flush() returns without suspending; the executor         *)
(* suspends only in the places named by Awaiting below.                    *)
(*                                                                         *)
(* Left out: the text of messages, model output, tool arguments, the       *)
(* delivery of events to subscribers and retention.                        *)
(***************************************************************************)
EXTENDS RunRecord, Naturals, FiniteSets

CONSTANTS
    Runs,          \* run ids
    Requests,      \* POST /conversations/{id}/messages/stream requests
    None,          \* no run
    MaxRounds,     \* the round budget of a run
    MaxBatch,      \* the most tool calls one model round asks for
    Controls,      \* what users, clients and the machine may do, see below
    LegacyWaitFor  \* asyncio.wait_for of Python <= 3.11

AllControls == {"pause", "resume", "stop", "prepare", "disconnect",
                "badRequest", "restart"}

ASSUME NoneAssumption     == None \notin Runs /\ "pending" \notin Runs
                             /\ None # "pending"
ASSUME ControlsAssumption == Controls \subseteq AllControls
ASSUME BoundsAssumption   == MaxRounds \in Nat \ {0} /\ MaxBatch \in Nat \ {0}
ASSUME LegacyAssumption   == LegacyWaitFor \in BOOLEAN

VARIABLES
    status,      \* RunStore: status of each run, "absent" before it is created
    taskOf,      \* RunStore: the product task of a run, named by its first run
    task,        \* ProductTaskStore: state and current_run_id of each task
    pc,          \* where the executor of a run is suspended
    rounds,      \* RunExecutionState.round_number
    todo,        \* tool calls of the batch not finished yet
    pauseReg,    \* paused_runs holds the event the executor waits for
    pauseSet,    \* that event is set
    pending,     \* pending_confirms: the run whose prompt can be answered
    response,    \* confirm_responses of the conversation
    active,      \* active_stream_conversation_runs of the conversation
    registered,  \* active_run_tasks holds the executor's task
    reqPc,       \* where each stream request is
    reqRun,      \* the run a request started
    closed       \* the request's client has gone (_client_stream_closed)

recordVars  == <<status, taskOf, task>>
pauseVars   == <<pauseReg, pauseSet>>
confirmVars == <<pending, response>>
requestVars == <<reqPc, reqRun, closed>>
vars == <<recordVars, pc, rounds, todo, pauseVars, confirmVars, active,
          registered, requestVars>>

-----------------------------------------------------------------------------
(* Where an executor can be suspended. *)

Awaiting == {"prep",         \* preparing: compression, contract, plan, ...
             "aux",          \* judging late guidance, then the next round
             "rejudge",      \* judging guidance, then the model round
             "model",        \* streaming a model round
             "parkedRound",  \* paused before a model round
             "parkedTool",   \* paused before a tool call
             "confirm",      \* waiting for the user's confirmation
             "tool",         \* polling a tool task
             "final"}        \* finalizing

Alive(r)    == pc[r] \in Awaiting
Starting(r) == \E q \in Requests : reqPc[q] = "starting" /\ reqRun[q] = r
Owned(r)    == Alive(r) \/ Starting(r)

NoTask == [state |-> "absent", run |-> None]

-----------------------------------------------------------------------------
(* RunEventHub.emit: record the event, then let the run's task follow.  s  *)
(* is the run's status after the events of this step.                      *)

Emit(r, s) ==
    /\ status' = [status EXCEPT ![r] = s]
    /\ task' = [task EXCEPT ![taskOf[r]] = [state |-> TaskStateOf(s), run |-> r]]
    /\ UNCHANGED taskOf

\* RunStore.create then ProductTaskStore.attach_run.
CreateRun(r, s, t) ==
    /\ status' = [status EXCEPT ![r] = s]
    /\ taskOf' = [taskOf EXCEPT ![r] = t]
    /\ task' = [task EXCEPT ![t] = [state |-> s, run |-> r]]

GoTo(r, label) == pc' = [pc EXCEPT ![r] = label]

Noise == StatusEvent("thinking")   \* any status word with no meaning of its own

-----------------------------------------------------------------------------
(* Pieces of executor steps.  s is the run's status when the piece begins. *)

\* _wait_if_paused, when the run is paused.
Park(r, label) ==
    GoTo(r, label) /\ Emit(r, RecordEvent("paused", StatusEvent("paused")))

\* The round after its pause gate: pending guidance is judged first.
EnterModel(r, s) ==
    \/ GoTo(r, "rejudge") /\ Emit(r, s)
    \/ GoTo(r, "model") /\ Emit(r, RecordEvent(s, Noise))

\* The head of the round loop, and its else branch when the budget is spent.
BeginRound(r, s) ==
    \/ /\ rounds[r] >= MaxRounds
       /\ GoTo(r, "final")
       /\ Emit(r, RecordEvent(s, StatusEvent("max_tool_rounds")))
       /\ UNCHANGED rounds
    \/ /\ rounds[r] < MaxRounds
       /\ rounds' = [rounds EXCEPT ![r] = @ + 1]
       /\ \/ s = "paused" /\ Park(r, "parkedRound")
          \/ s # "paused" /\ EnterModel(r, s)

\* n tool calls to go, after a pause gate.  The first k are skipped by a
\* guard, which records a failed tool; the next one asks for confirmation or
\* is submitted; when none is left a round begins.
StartTools(r, s, n) ==
    \E k \in 0..n :
      LET left == n - k
          t    == IF k = 0 THEN s ELSE RecordEvent(s, ToolEvent("failure"))
      IN  /\ todo' = [todo EXCEPT ![r] = left]
          /\ \/ left = 0 /\ BeginRound(r, t)
             \/ /\ left > 0 /\ UNCHANGED rounds
                /\ \/ GoTo(r, "tool") /\ Emit(r, RecordEvent(t, ToolEvent("running")))
                   \/ GoTo(r, "confirm") /\ Emit(r, RecordEvent(t, ConfirmEvent))

\* The pause gate before the next tool call, or the end of the batch.
NextTool(r, s, n) ==
    \/ n = 0 /\ todo' = [todo EXCEPT ![r] = 0] /\ BeginRound(r, s)
    \/ /\ n > 0 /\ s = "paused"
       /\ todo' = [todo EXCEPT ![r] = n]
       /\ Park(r, "parkedTool") /\ UNCHANGED rounds
    \/ n > 0 /\ s # "paused" /\ StartTools(r, s, n)

\* A step that parks registers the pause event, clear.
Gate(r) ==
    IF pc'[r] \in {"parkedRound", "parkedTool"}
    THEN /\ pauseReg' = [pauseReg EXCEPT ![r] = TRUE]
         /\ pauseSet' = [pauseSet EXCEPT ![r] = FALSE]
    ELSE UNCHANGED pauseVars

\* Variant for mutation: the second prompt of a batch is registered before the
\* first one is forgotten.
PromptForgotten(r, p, a) ==
    pending' = (IF pc'[r] = "confirm" /\ pc[r] # "confirm" THEN r ELSE p)
    /\ response' = (IF pc'[r] = "confirm" THEN "none" ELSE a)

\* A step that reaches the prompt registers its event and drops any stale
\* answer; another leaves the registry at p and the answer at a.
Prompt(r, p, a) ==
    IF pc'[r] = "confirm" THEN pending' = r /\ response' = "none"
                          ELSE pending' = p /\ response' = a

ExecutorRest == UNCHANGED <<active, registered, requestVars>>

-----------------------------------------------------------------------------
(* The executor. *)

\* Preparation done, or late guidance judged: the next thing is a round.
Prepared(r) ==
    /\ pc[r] \in {"prep", "aux"}
    /\ BeginRound(r, RecordEvent(status[r], Noise)) /\ UNCHANGED todo
    /\ Gate(r) /\ UNCHANGED confirmVars /\ ExecutorRest

\* Guidance judged: the model round begins with no second look at the pause.
Rejudged(r) ==
    /\ pc[r] = "rejudge"
    /\ GoTo(r, "model") /\ Emit(r, RecordEvent(status[r], Noise))
    /\ UNCHANGED <<rounds, todo, pauseVars, confirmVars>> /\ ExecutorRest

\* The model round ends.  A final answer or a recoverable error leads to
\* finalization, an idle timeout or a malformed call to another round, late
\* guidance to its judgement, and tool calls to their execution.
ModelAnswered(r) ==
    /\ pc[r] = "model"
    /\ \/ /\ Emit(r, status[r]) /\ GoTo(r, "final")
          /\ UNCHANGED <<rounds, todo>>
       \/ /\ Emit(r, RecordEvent(status[r], RecoverableError)) /\ GoTo(r, "final")
          /\ UNCHANGED <<rounds, todo>>
       \/ BeginRound(r, RecordEvent(status[r], Noise)) /\ UNCHANGED todo
       \/ Emit(r, status[r]) /\ GoTo(r, "aux") /\ UNCHANGED <<rounds, todo>>
       \/ \E n \in 1..MaxBatch : NextTool(r, status[r], n)
    /\ Gate(r) /\ Prompt(r, pending, response) /\ ExecutorRest

\* The tool task has ended and its outcome is recorded.
ToolFinished(r) ==
    /\ pc[r] = "tool"
    /\ \E outcome \in {"success", "failure"} :
          NextTool(r, RecordEvent(status[r], ToolEvent(outcome)), todo[r] - 1)
    /\ Gate(r) /\ Prompt(r, pending, response) /\ ExecutorRest

\* Variant for mutation: the prompt has no timeout.
ConfirmNeverTimesOut(r) ==
    /\ pc[r] = "confirm" /\ response # "none"
    /\ \/ /\ response = "continue"
          /\ GoTo(r, "tool") /\ Emit(r, RecordEvent(status[r], ToolEvent("running")))
          /\ UNCHANGED <<rounds, todo>>
       \/ /\ response # "continue"
          /\ NextTool(r, RecordEvent(status[r], ToolEvent("failure")), todo[r] - 1)
    /\ Gate(r) /\ Prompt(r, None, "none") /\ ExecutorRest

\* _confirm_runtime_tool_call returns, answered or after 300 s.  It forgets the
\* conversation's prompt and takes the conversation's answer, whoever they
\* belong to.
ConfirmReturned(r) ==
    /\ pc[r] = "confirm"
    /\ \/ /\ response = "continue"
          /\ GoTo(r, "tool") /\ Emit(r, RecordEvent(status[r], ToolEvent("running")))
          /\ UNCHANGED <<rounds, todo>>
       \/ /\ response # "continue"
          /\ NextTool(r, RecordEvent(status[r], ToolEvent("failure")), todo[r] - 1)
    /\ Gate(r) /\ Prompt(r, None, "none") /\ ExecutorRest

\* The pause event is set: clear it and look at the status again.
Woken(r) ==
    /\ pc[r] \in {"parkedRound", "parkedTool"} /\ pauseSet[r]
    /\ pauseSet' = [pauseSet EXCEPT ![r] = FALSE] /\ UNCHANGED pauseReg
    /\ \/ /\ status[r] = "paused"
          /\ UNCHANGED <<recordVars, pc, rounds, todo>>
       \/ /\ status[r] # "paused" /\ pc[r] = "parkedRound"
          /\ EnterModel(r, status[r]) /\ UNCHANGED <<rounds, todo>>
       \/ /\ status[r] # "paused" /\ pc[r] = "parkedTool"
          /\ StartTools(r, status[r], todo[r])
    /\ Prompt(r, pending, response) /\ ExecutorRest

\* RunFinalizer.finalize after its last await: result, checkpoint, done.
Finalized(r) ==
    /\ pc[r] = "final"
    /\ GoTo(r, "ended")
    /\ \E outcome \in FinishedStatuses : Emit(r, RecordEvent(status[r], DoneEvent(outcome)))
    /\ UNCHANGED <<rounds, todo, pauseVars, confirmVars>> /\ ExecutorRest

\* Variant for mutation: the fatal error is recorded as a recoverable one.
ExecutorFailedSoftly(r) ==
    /\ pc[r] \in {"prep", "aux", "rejudge", "model", "tool", "final"}
    /\ GoTo(r, "ended") /\ Emit(r, RecordEvent(status[r], RecoverableError))
    /\ UNCHANGED <<rounds, todo, pauseVars, confirmVars>> /\ ExecutorRest

\* A fatal model error, or an exception that escapes the executor.
ExecutorFailed(r) ==
    /\ pc[r] \in {"prep", "aux", "rejudge", "model", "tool", "final"}
    /\ GoTo(r, "ended") /\ Emit(r, RecordEvent(status[r], TerminalError))
    /\ UNCHANGED <<rounds, todo, pauseVars, confirmVars>> /\ ExecutorRest

ExecutorStep(r) ==
    \/ Prepared(r) \/ Rejudged(r) \/ ModelAnswered(r) \/ ToolFinished(r)
    \/ ConfirmReturned(r) \/ Woken(r) \/ Finalized(r) \/ ExecutorFailed(r)

-----------------------------------------------------------------------------
(* The stream request. *)

\* Variant for mutation: the check forgets the requests still in memory.
AcceptUnreserved(q) ==
    /\ reqPc[q] = "idle"
    /\ \A r \in Runs : status[r] \notin ActiveStatuses
    /\ active' = "pending"
    /\ reqPc' = [reqPc EXCEPT ![q] = "reserved"]
    /\ UNCHANGED <<recordVars, pc, rounds, todo, pauseVars, confirmVars,
                   registered, reqRun, closed>>

\* From the request to its first flush: 409 while the conversation is busy,
\* otherwise the conversation is reserved.
Accept(q) ==
    /\ reqPc[q] = "idle"
    /\ active = None
    /\ \A r \in Runs : status[r] \notin ActiveStatuses
    /\ active' = "pending"
    /\ reqPc' = [reqPc EXCEPT ![q] = "reserved"]
    /\ UNCHANGED <<recordVars, pc, rounds, todo, pauseVars, confirmVars,
                   registered, reqRun, closed>>

\* Variant for mutation: a closed request is abandoned.
StartRunUnlessClosed(q, r) ==
    /\ reqPc[q] = "reserved" /\ ~closed[q] /\ status[r] = "absent"
    /\ CreateRun(r, "running", r)
    /\ active' = r
    /\ reqPc' = [reqPc EXCEPT ![q] = "starting"]
    /\ reqRun' = [reqRun EXCEPT ![q] = r]
    /\ UNCHANGED <<pc, rounds, todo, pauseVars, confirmVars, registered, closed>>

\* From there to the second flush, for a run created here (in a new task or
\* in an existing one) or for a prepared run.
StartRun(q, r) ==
    /\ reqPc[q] = "reserved"
    /\ \/ /\ status[r] = "absent"
          /\ \E t \in {r} \cup {taskOf[o] : o \in {x \in Runs : status[x] # "absent"}} :
                CreateRun(r, "running", t)
       \/ status[r] = "created" /\ Emit(r, RecordEvent("created", StatusEvent("resumed")))
    /\ active' = r
    /\ reqPc' = [reqPc EXCEPT ![q] = "starting"]
    /\ reqRun' = [reqRun EXCEPT ![q] = r]
    /\ UNCHANGED <<pc, rounds, todo, pauseVars, confirmVars, registered, closed>>

\* The same stretch, for a request that names a run that cannot be started or
\* a task that does not exist: it answers 404 or 409.
Reject(q) ==
    /\ "badRequest" \in Controls
    /\ reqPc[q] = "reserved"
    /\ reqPc' = [reqPc EXCEPT ![q] = "rejected"]
    /\ UNCHANGED <<recordVars, pc, rounds, todo, pauseVars, confirmVars, active,
                   registered, reqRun, closed>>

\* From there to the first wait for an event: the executor's task is created.
Launch(q) ==
    /\ reqPc[q] = "starting"
    /\ reqPc' = [reqPc EXCEPT ![q] = "streaming"]
    /\ pc' = [pc EXCEPT ![reqRun[q]] = "prep"]
    /\ registered' = [registered EXCEPT ![reqRun[q]] = TRUE]
    /\ UNCHANGED <<recordVars, rounds, todo, pauseVars, confirmVars, active,
                   reqRun, closed>>

\* Variant for mutation: any error or status event ends the stream loop.
FinishEarly(q) ==
    /\ reqPc[q] = "streaming"
    /\ reqPc' = [reqPc EXCEPT ![q] = "done"]
    /\ registered' = [registered EXCEPT ![reqRun[q]] = FALSE]
    /\ active' = IF active \in {reqRun[q], "pending"} THEN None ELSE active
    /\ UNCHANGED <<recordVars, pc, rounds, todo, pauseVars, confirmVars, reqRun,
                   closed>>

\* The stream loop ends, because the executor has or because the client has
\* gone, and the finally block tidies up.
Finish(q) ==
    /\ reqPc[q] = "streaming"
    /\ closed[q] \/ pc[reqRun[q]] = "ended"
    /\ reqPc' = [reqPc EXCEPT ![q] = "done"]
    /\ registered' = [registered EXCEPT ![reqRun[q]] = FALSE]
    /\ active' = IF active \in {reqRun[q], "pending"} THEN None ELSE active
    /\ UNCHANGED <<recordVars, pc, rounds, todo, pauseVars, confirmVars, reqRun,
                   closed>>

\* The client goes away; the handler notices at its next turn of the loop.
Disconnect(q) ==
    /\ "disconnect" \in Controls
    /\ reqPc[q] \in {"reserved", "starting", "streaming"} /\ ~closed[q]
    /\ closed' = [closed EXCEPT ![q] = TRUE]
    /\ UNCHANGED <<recordVars, pc, rounds, todo, pauseVars, confirmVars, active,
                   registered, reqPc, reqRun>>

RequestStep(q) ==
    \/ Accept(q) \/ Reject(q) \/ Launch(q) \/ Finish(q) \/ Disconnect(q)
    \/ \E r \in Runs : StartRun(q, r)

-----------------------------------------------------------------------------
(* The user's actions on a run, and the answer to a prompt. *)

\* Variant for mutation: the pause does not look whether the run is finished.
PauseAnything(r) ==
    /\ "pause" \in Controls
    /\ status[r] \notin {"absent", "paused"}
    /\ Emit(r, RecordEvent(status[r], StatusEvent("paused")))
    /\ UNCHANGED <<pc, rounds, todo, pauseVars, confirmVars, active, registered,
                   requestVars>>

Pause(r) ==
    /\ "pause" \in Controls
    /\ status[r] \notin FinishedStatuses \cup {"absent", "paused"}
    /\ Emit(r, RecordEvent(status[r], StatusEvent("paused")))
    /\ UNCHANGED <<pc, rounds, todo, pauseVars, confirmVars, active, registered,
                   requestVars>>

\* _resume of a paused run: pop the pause event, if it is there, and set it.
Resume(r) ==
    /\ "resume" \in Controls
    /\ status[r] = "paused"
    /\ Emit(r, RecordEvent(status[r], StatusEvent("resumed")))
    /\ pauseReg' = [pauseReg EXCEPT ![r] = FALSE]
    /\ pauseSet' = [pauseSet EXCEPT ![r] = @ \/ pauseReg[r]]
    /\ UNCHANGED <<pc, rounds, todo, confirmVars, active, registered, requestVars>>

\* replay of any run, and _resume of a stopped, failed or partial one.
Prepare(source, r) ==
    /\ "prepare" \in Controls
    /\ status[source] # "absent" /\ status[r] = "absent"
    /\ CreateRun(r, "created", taskOf[source])
    /\ UNCHANGED <<pc, rounds, todo, pauseVars, confirmVars, active, registered,
                   requestVars>>

\* Variant for mutation: an executor at a prompt is answered, not cancelled.
CancelledUnlessPrompting(r) ==
    IF registered[r] /\ Alive(r) /\ pc[r] # "confirm"
    THEN GoTo(r, "ended") /\ UNCHANGED pending
    ELSE UNCHANGED <<pc, pending>>

\* task.cancel() as the executor receives it.  wait_for of Python <= 3.11
\* drops the cancellation when the prompt's event was set just before it.
Cancelled(r) ==
    IF registered[r] /\ Alive(r) /\ ~(LegacyWaitFor /\ pc[r] = "confirm" /\ pending = r)
    THEN /\ GoTo(r, "ended")
         /\ pending' = IF pc[r] = "confirm" THEN None ELSE pending
    ELSE UNCHANGED <<pc, pending>>

Stop(r) ==
    /\ "stop" \in Controls
    /\ status[r] \notin FinishedStatuses \cup {"absent"}
    /\ Emit(r, RecordEvent(status[r], StatusEvent("stopped")))
    /\ pauseReg' = [pauseReg EXCEPT ![r] = FALSE]
    /\ pauseSet' = [pauseSet EXCEPT ![r] = @ \/ pauseReg[r]]
    /\ response' = IF pending # None THEN "cancel" ELSE "none"
    /\ active' = IF active = r THEN None ELSE active
    /\ Cancelled(r)
    /\ registered' = [registered EXCEPT ![r] = FALSE]
    /\ UNCHANGED <<rounds, todo, requestVars>>

\* ConversationConfirmHandler: the answer is kept whether or not a prompt waits.
Answer(a) ==
    /\ response' = a
    /\ UNCHANGED <<recordVars, pc, rounds, todo, pauseVars, pending, active,
                   registered, requestVars>>

\* The process dies and starts again: memory is lost, the stores recover.
Restart ==
    /\ "restart" \in Controls
    /\ status' = [r \in Runs |-> RecoverRun(status[r])]
    /\ task' = [t \in Runs |-> [task[t] EXCEPT !.state = RecoverTask(@)]]
    /\ pc' = [r \in Runs |-> IF Alive(r) THEN "ended" ELSE pc[r]]
    /\ rounds' = [r \in Runs |-> 0] /\ todo' = [r \in Runs |-> 0]
    /\ pauseReg' = [r \in Runs |-> FALSE] /\ pauseSet' = [r \in Runs |-> FALSE]
    /\ pending' = None /\ response' = "none" /\ active' = None
    /\ registered' = [r \in Runs |-> FALSE]
    /\ reqPc' = [q \in Requests |-> IF reqPc[q] = "idle" THEN "idle" ELSE "done"]
    /\ UNCHANGED <<taskOf, reqRun, closed>>

-----------------------------------------------------------------------------
Init ==
    /\ status = [r \in Runs |-> "absent"]
    /\ taskOf = [r \in Runs |-> r]
    /\ task = [r \in Runs |-> NoTask]
    /\ pc = [r \in Runs |-> "none"]
    /\ rounds = [r \in Runs |-> 0]
    /\ todo = [r \in Runs |-> 0]
    /\ pauseReg = [r \in Runs |-> FALSE]
    /\ pauseSet = [r \in Runs |-> FALSE]
    /\ pending = None
    /\ response = "none"
    /\ active = None
    /\ registered = [r \in Runs |-> FALSE]
    /\ reqPc = [q \in Requests |-> "idle"]
    /\ reqRun = [q \in Requests |-> None]
    /\ closed = [q \in Requests |-> FALSE]

Next ==
    \/ \E r \in Runs : ExecutorStep(r)
    \/ \E q \in Requests : RequestStep(q)
    \/ \E r \in Runs : Pause(r) \/ Resume(r) \/ Stop(r)
    \/ \E source, r \in Runs : Prepare(source, r)
    \/ \E a \in {"continue", "cancel"} : Answer(a)
    \/ Restart

Spec == Init /\ [][Next]_vars

\* The event loop runs every ready coroutine and a handler runs to its end. An
\* executor waits for the pause gate, for a prompt (300 s), for the model (bounded by
\* its timeouts) and for tools, whose poll has no limit: that a tool ends is assumed.
Fairness ==
    /\ \A r \in Runs : WF_vars(ExecutorStep(r))
    /\ \A q \in Requests :
          /\ WF_vars(Launch(q)) /\ WF_vars(Finish(q))
          /\ WF_vars(Reject(q) \/ \E r \in Runs : StartRun(q, r))

FairSpec == Spec /\ Fairness

-----------------------------------------------------------------------------
(* Properties. *)

\* Every variable holds a value of its kind.
TypeOK ==
    /\ status \in [Runs -> RunStatuses \cup {"absent"}]
    /\ taskOf \in [Runs -> Runs]
    /\ task \in [Runs -> [state : TaskStates \cup {"absent"}, run : Runs \cup {None}]]
    /\ pc \in [Runs -> Awaiting \cup {"none", "ended"}]
    /\ rounds \in [Runs -> 0..MaxRounds]
    /\ todo \in [Runs -> 0..MaxBatch]
    /\ pauseReg \in [Runs -> BOOLEAN] /\ pauseSet \in [Runs -> BOOLEAN]
    /\ pending \in Runs \cup {None}
    /\ response \in {"none", "continue", "cancel"}
    /\ active \in Runs \cup {None, "pending"}
    /\ registered \in [Runs -> BOOLEAN]
    /\ reqPc \in [Requests -> {"idle", "reserved", "starting", "streaming",
                               "rejected", "done"}]
    /\ reqRun \in [Requests -> Runs \cup {None}]
    /\ closed \in [Requests -> BOOLEAN]

\* The 409 of the stream handler promises that a conversation has one active
\* run: never are two executors at work, or about to be, in one conversation.
ExclusiveExecution ==
    \A r, o \in Runs : Owned(r) /\ Owned(o) => r = o

\* An executor that waits for a confirmation is the one the conversation's
\* confirm endpoint would answer: no other prompt has taken its place and
\* nobody has thrown it away.
PromptIsAnswerable ==
    \A r \in Runs : pc[r] = "confirm" => pending = r

\* Nothing of a run goes on once its executor has ended, so the record of the
\* run must then be finished, or nothing will ever finish it.
EndedRunIsFinished ==
    \A r \in Runs : pc[r] = "ended" => status[r] \in FinishedStatuses

\* A run recorded as going on has an executor, or a handler about to create it.
RunningRunIsOwned ==
    \A r \in Runs : status[r] \in {"running", "waiting_confirmation"} => Owned(r)

\* The product task shows the state of its current run, whatever the order in
\* which the runs of the task record their events, and across a restart.
TaskMirrorsCurrentRun ==
    \A t \in Runs : task[t].run # None =>
        /\ taskOf[task[t].run] = t
        /\ task[t].state = TaskStateOf(status[task[t].run])

\* What the conversation promises (module ConversationContract): its runs go
\* through their phases once and execute one at a time.
PhaseOf(r) ==
    IF Owned(r) THEN "executing"
    ELSE IF pc[r] = "ended" \/ status[r] \in FinishedStatuses THEN "over"
    ELSE IF status[r] = "absent" THEN "unborn"
    ELSE "prepared"

Contract == INSTANCE ConversationContract WITH phase <- [r \in Runs |-> PhaseOf(r)]

ImplementsContract == Contract!Spec

\* A run is launched at most once, however many requests name it: prepared
\* runs are claimed by the status change that comes with the check.
LaunchedOnce ==
    [][\A q \in Requests : reqPc[q] = "starting" /\ reqPc'[q] = "streaming" =>
          pc[reqRun[q]] = "none"]_vars

\* A finished run that nothing executes keeps its status for ever.
FinishedIsFinal ==
    [][\A r \in Runs : status[r] \in FinishedStatuses /\ ~Owned(r) =>
          status'[r] = status[r]]_vars

\* The client of the request that started the run still listens.
Attended(r) == \E q \in Requests : reqRun[q] = r /\ ~closed[q]

\* Stopping a run that waits for a confirmation ends its executor: none stays at
\* its prompt with a record that says stopped.  A run whose client has gone is out
\* of reach, its executor is no longer registered.
StopEndsPrompt ==
    \A r \in Runs : pc[r] = "confirm" /\ Attended(r) => status[r] # "stopped"

\* A run that was executing or about to ends finished, or waits for the user.
RunComesToRest ==
    \A r \in Runs : Owned(r) ~> (status[r] \in FinishedStatuses \cup {"paused"})

\* A reservation of the conversation is given back, or becomes a run.
ReservationEnds == active = "pending" ~> active # "pending"
=============================================================================
