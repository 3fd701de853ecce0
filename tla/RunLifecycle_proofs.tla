------------------------- MODULE RunLifecycle_proofs -------------------------
(***************************************************************************)
(* Proofs about RunLifecycle, for any number of runs and requests and any  *)
(* bounds: its type invariant, the agreement between a task and its        *)
(* current run, that finished runs stay as they are and none is launched   *)
(* twice; as long as nobody stops a run and no client goes away, exclusive *)
(* execution and the conversation contract; and, each under its own        *)
(* assumption on the controls, what is recorded of a run whose executor    *)
(* has ended, goes on, or waits at a prompt; and what is known of a run    *)
(* that waits at a pause gate and of a conversation that is reserved.      *)
(***************************************************************************)
EXTENDS RunLifecycle, Integers, TLAPS

Recorded == RunStatuses \cup {"absent"}

-----------------------------------------------------------------------------
(* The status machine. *)

\* A status event yields a status, and never one of before the start.
LEMMA AfterStatusType ==
    ASSUME NEW s \in Recorded, NEW word
    PROVE  AfterStatus(s, word) \in RunStatuses \ {"created"}
BY DEF AfterStatus, Recorded, RunStatuses

\* The other events of an executor: what each makes of the status.
LEMMA RecordStatus ==
    ASSUME NEW s \in Recorded, NEW word
    PROVE  RecordEvent(s, StatusEvent(word)) \in RunStatuses \ {"created"}
<1>1. RecordEvent(s, StatusEvent(word)) = AfterStatus(s, word)
  BY DEF RecordEvent, StatusEvent
<1>2. QED
  BY <1>1, AfterStatusType

LEMMA RecordTool ==
    ASSUME NEW s \in Recorded, NEW outcome
    PROVE  RecordEvent(s, ToolEvent(outcome)) \in {s, "running"}
BY DEF RecordEvent, ToolEvent

LEMMA RecordConfirm ==
    ASSUME NEW s \in Recorded
    PROVE  RecordEvent(s, ConfirmEvent) = "waiting_confirmation"
BY DEF RecordEvent, ConfirmEvent

LEMMA RecordErrors ==
    ASSUME NEW s \in Recorded
    PROVE  /\ RecordEvent(s, RecoverableError) \in {s, "running"}
           /\ RecordEvent(s, TerminalError) = "failure"
BY DEF RecordEvent, RecoverableError, TerminalError

LEMMA RecordDone ==
    ASSUME NEW s \in Recorded, NEW word
    PROVE  RecordEvent(s, DoneEvent(word)) = word
BY DEF RecordEvent, DoneEvent

LEMMA TaskStateOfType ==
    ASSUME NEW s \in Recorded
    PROVE  TaskStateOf(s) \in TaskStates \cup {"absent"}
BY DEF TaskStateOf, TaskStates, Recorded, RunStatuses

-----------------------------------------------------------------------------
(* What one step of an executor can do to the state, in one formula. *)

\* An event of run r is recorded; only a run that has not started keeps a
\* status of before the start.
Records(r) ==
    \E s \in Recorded :
        Emit(r, s) /\ (s \in {"absent", "created"} => s = status[r])

\* An executor's step moves it to another suspension point ...
Moves(r) == \E label \in Awaiting : GoTo(r, label)

\* ... or to its end, with a finished record.
Ends(r) == GoTo(r, "ended") /\ \E s \in FinishedStatuses : Emit(r, s)

LEMMA RecordsStatus ==
    ASSUME NEW r, NEW s \in Recorded,
           s \in {"absent", "created"} => s = status[r], Emit(r, s)
    PROVE  Records(r)
BY DEF Records

LEMMA RecordsStarted ==
    ASSUME NEW r, NEW s \in RunStatuses \ {"created"}, Emit(r, s)
    PROVE  Records(r)
<1>1. s \in Recorded /\ s \notin {"absent", "created"}
  BY DEF Recorded, RunStatuses
<1>2. QED
  BY <1>1, RecordsStatus

LEMMA MovesTo ==
    ASSUME NEW r, NEW label \in Awaiting, GoTo(r, label)
    PROVE  Moves(r)
BY DEF Moves

LEMMA ParkEffect ==
    ASSUME TypeOK, NEW r \in Runs, NEW label \in {"parkedRound", "parkedTool"}, Park(r, label)
    PROVE  Moves(r) /\ Records(r) /\ pc'[r] # "confirm"
<1>1. RecordEvent("paused", StatusEvent("paused")) \in RunStatuses \ {"created"}
  BY RecordStatus DEF Recorded, RunStatuses
<1>2. Records(r)
  BY <1>1, RecordsStarted DEF Park
<1>3. label \in Awaiting
  BY DEF Awaiting
<1>4. pc'[r] # "confirm"
  BY DEF Park, GoTo, TypeOK
<1>5. QED
  BY <1>2, <1>3, <1>4, MovesTo DEF Park

LEMMA EnterModelEffect ==
    ASSUME TypeOK, NEW r \in Runs, NEW s \in Recorded,
           s \in {"absent", "created"} => s = status[r],
           EnterModel(r, s)
    PROVE  Moves(r) /\ Records(r) /\ pc'[r] # "confirm"
<1>1. RecordEvent(s, Noise) \in RunStatuses \ {"created"}
  BY RecordStatus DEF Noise
<1>2. "rejudge" \in Awaiting /\ "model" \in Awaiting
  BY DEF Awaiting
<1>3. Records(r)
  BY <1>1, RecordsStarted, RecordsStatus DEF EnterModel
<1>4. Moves(r)
  BY <1>2, MovesTo DEF EnterModel
<1>5. pc'[r] # "confirm"
  BY DEF EnterModel, GoTo, TypeOK
<1>6. QED
  BY <1>3, <1>4, <1>5

\* The head of the round loop keeps the round number within the budget.
LEMMA BeginRoundEffect ==
    ASSUME TypeOK, NEW r \in Runs, NEW s \in Recorded,
           s \in {"absent", "created"} => s = status[r],
           BeginRound(r, s)
    PROVE  /\ Moves(r) /\ Records(r) /\ pc'[r] # "confirm"
           /\ rounds' \in [Runs -> 0..MaxRounds]
<1>1. CASE rounds[r] >= MaxRounds /\ GoTo(r, "final")
           /\ Emit(r, RecordEvent(s, StatusEvent("max_tool_rounds"))) /\ UNCHANGED rounds
  <2>1. RecordEvent(s, StatusEvent("max_tool_rounds")) \in RunStatuses \ {"created"}
    BY RecordStatus
  <2>2. QED
    BY <1>1, <2>1, RecordsStarted, MovesTo DEF Awaiting, TypeOK, GoTo
<1>2. CASE /\ rounds[r] < MaxRounds
           /\ rounds' = [rounds EXCEPT ![r] = @ + 1]
           /\ Park(r, "parkedRound") \/ EnterModel(r, s)
  <2>1. rounds' \in [Runs -> 0..MaxRounds]
    BY <1>2, BoundsAssumption DEF TypeOK
  <2>2. Moves(r) /\ Records(r) /\ pc'[r] # "confirm"
    BY <1>2, ParkEffect, EnterModelEffect
  <2>3. QED
    BY <2>1, <2>2
<1>3. QED
  BY <1>1, <1>2 DEF BeginRound

LEMMA StartToolsEffect ==
    ASSUME TypeOK, NEW r \in Runs, NEW s \in Recorded,
           s \in {"absent", "created"} => s = status[r],
           NEW n \in 0..MaxBatch, StartTools(r, s, n)
    PROVE  /\ Moves(r) /\ Records(r)
           /\ rounds' \in [Runs -> 0..MaxRounds]
           /\ todo' \in [Runs -> 0..MaxBatch]
<1>1. PICK k \in 0..n :
        LET left == n - k
            t    == IF k = 0 THEN s ELSE RecordEvent(s, ToolEvent("failure"))
        IN  /\ todo' = [todo EXCEPT ![r] = left]
            /\ \/ left = 0 /\ BeginRound(r, t)
               \/ /\ left > 0 /\ UNCHANGED rounds
                  /\ \/ GoTo(r, "tool") /\ Emit(r, RecordEvent(t, ToolEvent("running")))
                     \/ GoTo(r, "confirm") /\ Emit(r, RecordEvent(t, ConfirmEvent))
  BY DEF StartTools
<1> DEFINE t == IF k = 0 THEN s ELSE RecordEvent(s, ToolEvent("failure"))
<1>2. t \in {s, "running"}
  BY RecordTool
<1>3. t \in Recorded /\ (t \in {"absent", "created"} => t = status[r])
  BY <1>2 DEF Recorded, RunStatuses
<1>4. todo' \in [Runs -> 0..MaxBatch]
  <2>1. n - k \in 0..MaxBatch
    BY BoundsAssumption
  <2>2. QED
    BY <1>1, <2>1 DEF TypeOK
<1>5. CASE BeginRound(r, t)
  <2> HIDE DEF t
  <2>1. QED
    BY <1>3, <1>4, <1>5, BeginRoundEffect
<1>6. CASE UNCHANGED rounds /\ GoTo(r, "tool") /\ Emit(r, RecordEvent(t, ToolEvent("running")))
  <2> HIDE DEF t
  <2>1. RecordEvent(t, ToolEvent("running")) \in {t, "running"}
    BY <1>3, RecordTool
  <2>2. RecordEvent(t, ToolEvent("running")) \in Recorded
    BY <1>3, <2>1 DEF Recorded, RunStatuses
  <2>3. QED
    BY <1>3, <1>4, <1>6, <2>1, <2>2, RecordsStatus, MovesTo DEF Awaiting, TypeOK
<1>7. CASE UNCHANGED rounds /\ GoTo(r, "confirm") /\ Emit(r, RecordEvent(t, ConfirmEvent))
  <2> HIDE DEF t
  <2>1. RecordEvent(t, ConfirmEvent) = "waiting_confirmation"
    BY <1>3, RecordConfirm
  <2>2. RecordEvent(t, ConfirmEvent) \in RunStatuses \ {"created"}
    BY <2>1 DEF RunStatuses
  <2>3. QED
    BY <1>4, <1>7, <2>1, <2>2, RecordsStarted, MovesTo DEF Awaiting, TypeOK
<1>8. QED
  BY <1>1, <1>5, <1>6, <1>7

\* The next tool call, the pause before it or the round after the batch.
LEMMA NextToolEffect ==
    ASSUME TypeOK, NEW r \in Runs, NEW s \in Recorded,
           s \in {"absent", "created"} => s = status[r],
           NEW n \in Int, n <= MaxBatch, NextTool(r, s, n)
    PROVE  /\ Moves(r) /\ Records(r)
           /\ rounds' \in [Runs -> 0..MaxRounds]
           /\ todo' \in [Runs -> 0..MaxBatch]
<1>1. CASE n = 0 /\ todo' = [todo EXCEPT ![r] = 0] /\ BeginRound(r, s)
  <2>1. todo' \in [Runs -> 0..MaxBatch]
    BY <1>1, BoundsAssumption DEF TypeOK
  <2>2. QED
    BY <1>1, <2>1, BeginRoundEffect
<1>2. CASE n > 0 /\ todo' = [todo EXCEPT ![r] = n] /\ Park(r, "parkedTool") /\ UNCHANGED rounds
  <2>1. n \in 0..MaxBatch
    BY <1>2, BoundsAssumption
  <2>2. QED
    BY <1>2, <2>1, ParkEffect DEF TypeOK
<1>3. CASE n > 0 /\ StartTools(r, s, n)
  <2>1. n \in 0..MaxBatch
    BY <1>3, BoundsAssumption
  <2>2. QED
    BY <1>3, <2>1, StartToolsEffect
<1>4. QED
  BY <1>1, <1>2, <1>3 DEF NextTool

\* What any step of the executor of run r may do.
ExecutorEffect(r) ==
    /\ Alive(r)
    /\ UNCHANGED recordVars \/ Records(r)
    /\ UNCHANGED pc \/ Moves(r) \/ Ends(r)
    /\ pc'[r] = "confirm" => pending' = r
    /\ rounds' \in [Runs -> 0..MaxRounds] /\ todo' \in [Runs -> 0..MaxBatch]
    /\ pauseReg' \in [Runs -> BOOLEAN] /\ pauseSet' \in [Runs -> BOOLEAN]
    /\ pending' \in Runs \cup {None} /\ response' \in {"none", "continue", "cancel"}
    /\ UNCHANGED <<active, registered, requestVars>>

LEMMA GateEffect ==
    ASSUME TypeOK, NEW r \in Runs, Gate(r)
    PROVE  pauseReg' \in [Runs -> BOOLEAN] /\ pauseSet' \in [Runs -> BOOLEAN]
BY DEF Gate, TypeOK, pauseVars

LEMMA PromptEffect ==
    ASSUME NEW r \in Runs, NEW p \in Runs \cup {None},
           NEW a \in {"none", "continue", "cancel"}, Prompt(r, p, a)
    PROVE  /\ pending' \in Runs \cup {None} /\ response' \in {"none", "continue", "cancel"}
           /\ pc'[r] = "confirm" => pending' = r
BY DEF Prompt

LEMMA ExecutorStepEffect ==
    ASSUME TypeOK, NEW r \in Runs, ExecutorStep(r)
    PROVE  ExecutorEffect(r)
<1> DEFINE s == status[r]
<1>1. s \in Recorded /\ (s \in {"absent", "created"} => s = status[r])
  BY DEF TypeOK, Recorded
<1>2. Alive(r)
  BY DEF ExecutorStep, Prepared, Rejudged, ModelAnswered, ToolFinished, ConfirmReturned,
     Woken, Finalized, ExecutorFailed, Alive, Awaiting
<1>3. pending \in Runs \cup {None} /\ response \in {"none", "continue", "cancel"}
  BY DEF TypeOK
<1>4. /\ rounds \in [Runs -> 0..MaxRounds] /\ todo \in [Runs -> 0..MaxBatch]
      /\ pauseReg \in [Runs -> BOOLEAN] /\ pauseSet \in [Runs -> BOOLEAN]
  BY DEF TypeOK
<1>5. "final" \in Awaiting /\ "model" \in Awaiting /\ "aux" \in Awaiting /\ "tool" \in Awaiting
  BY DEF Awaiting
<1> HIDE DEF s
<1>6. CASE Prepared(r)
  <2> DEFINE t == RecordEvent(s, Noise)
  <2>1. t \in RunStatuses \ {"created"}
    BY <1>1, RecordStatus DEF Noise
  <2>2. t \in Recorded /\ (t \in {"absent", "created"} => t = status[r])
    BY <2>1 DEF Recorded, RunStatuses
  <2>3. BeginRound(r, t)
    BY <1>6 DEF Prepared, s
  <2> HIDE DEF t
  <2>4. /\ Moves(r) /\ Records(r) /\ pc'[r] # "confirm"
        /\ rounds' \in [Runs -> 0..MaxRounds]
    BY <2>2, <2>3, BeginRoundEffect
  <2>5. QED
    BY <1>2, <1>3, <1>4, <1>6, <2>4, GateEffect
    DEF Prepared, ExecutorEffect, ExecutorRest, confirmVars
<1>7. CASE Rejudged(r)
  <2>1. RecordEvent(s, Noise) \in RunStatuses \ {"created"}
    BY <1>1, RecordStatus DEF Noise
  <2>2. Moves(r) /\ Records(r) /\ pc'[r] # "confirm"
    BY <1>5, <1>7, <2>1, RecordsStarted, MovesTo DEF Rejudged, s, GoTo, TypeOK
  <2>3. QED
    BY <1>2, <1>3, <1>4, <1>7, <2>2
    DEF Rejudged, ExecutorEffect, ExecutorRest, confirmVars, pauseVars
<1>8. CASE ModelAnswered(r)
  <2>1. /\ Moves(r) /\ Records(r)
        /\ rounds' \in [Runs -> 0..MaxRounds] /\ todo' \in [Runs -> 0..MaxBatch]
    <3>1. CASE Emit(r, s) /\ GoTo(r, "final") /\ UNCHANGED <<rounds, todo>>
      BY <1>1, <1>4, <1>5, <3>1, RecordsStatus, MovesTo
    <3>2. CASE /\ Emit(r, RecordEvent(s, RecoverableError)) /\ GoTo(r, "final")
               /\ UNCHANGED <<rounds, todo>>
      <4> DEFINE t == RecordEvent(s, RecoverableError)
      <4>1. t \in {s, "running"}
        BY <1>1, RecordErrors
      <4>2. t \in Recorded /\ (t \in {"absent", "created"} => t = status[r])
        BY <1>1, <4>1 DEF Recorded, RunStatuses
      <4>3. QED
        BY <1>4, <1>5, <3>2, <4>2, RecordsStatus, MovesTo
    <3>3. CASE BeginRound(r, RecordEvent(s, Noise)) /\ UNCHANGED todo
      <4> DEFINE t == RecordEvent(s, Noise)
      <4>1. t \in RunStatuses \ {"created"}
        BY <1>1, RecordStatus DEF Noise
      <4>2. t \in Recorded /\ (t \in {"absent", "created"} => t = status[r])
        BY <4>1 DEF Recorded, RunStatuses
      <4>3. BeginRound(r, t)
        BY <3>3
      <4> HIDE DEF t
      <4>4. QED
        BY <1>4, <3>3, <4>2, <4>3, BeginRoundEffect
    <3>4. CASE Emit(r, s) /\ GoTo(r, "aux") /\ UNCHANGED <<rounds, todo>>
      BY <1>1, <1>4, <1>5, <3>4, RecordsStatus, MovesTo
    <3>5. ASSUME NEW n \in 1..MaxBatch, NextTool(r, s, n)
          PROVE  /\ Moves(r) /\ Records(r)
                 /\ rounds' \in [Runs -> 0..MaxRounds] /\ todo' \in [Runs -> 0..MaxBatch]
      <4>1. n \in Int /\ n <= MaxBatch
        BY BoundsAssumption
      <4>2. QED
        BY <1>1, <3>5, <4>1, NextToolEffect
    <3>6. QED
      BY <1>8, <3>1, <3>2, <3>3, <3>4, <3>5 DEF ModelAnswered, s
  <2>2. QED
    BY <1>2, <1>3, <1>8, <2>1, GateEffect, PromptEffect
    DEF ModelAnswered, ExecutorEffect, ExecutorRest
<1>9. CASE ToolFinished(r)
  <2>1. PICK outcome \in {"success", "failure"} :
          NextTool(r, RecordEvent(s, ToolEvent(outcome)), todo[r] - 1)
    BY <1>9 DEF ToolFinished, s
  <2>2. /\ Moves(r) /\ Records(r)
        /\ rounds' \in [Runs -> 0..MaxRounds] /\ todo' \in [Runs -> 0..MaxBatch]
    <3> DEFINE t == RecordEvent(s, ToolEvent(outcome))
    <3>1. t \in {s, "running"}
      BY <1>1, RecordTool
    <3>2. t \in Recorded /\ (t \in {"absent", "created"} => t = status[r])
      BY <1>1, <3>1 DEF Recorded, RunStatuses
    <3>3. todo[r] - 1 \in Int /\ todo[r] - 1 <= MaxBatch
      BY <1>4, BoundsAssumption
    <3>4. NextTool(r, t, todo[r] - 1)
      BY <2>1
    <3> HIDE DEF t
    <3>5. QED
      BY <3>2, <3>3, <3>4, NextToolEffect
  <2>3. QED
    BY <1>2, <1>3, <1>9, <2>2, GateEffect, PromptEffect
    DEF ToolFinished, ExecutorEffect, ExecutorRest
<1>10. CASE ConfirmReturned(r)
  <2>1. /\ Moves(r) /\ Records(r)
        /\ rounds' \in [Runs -> 0..MaxRounds] /\ todo' \in [Runs -> 0..MaxBatch]
    <3>1. CASE /\ GoTo(r, "tool") /\ Emit(r, RecordEvent(s, ToolEvent("running")))
               /\ UNCHANGED <<rounds, todo>>
      <4> DEFINE t == RecordEvent(s, ToolEvent("running"))
      <4>1. t \in {s, "running"}
        BY <1>1, RecordTool
      <4>2. t \in Recorded /\ (t \in {"absent", "created"} => t = status[r])
        BY <1>1, <4>1 DEF Recorded, RunStatuses
      <4>3. QED
        BY <1>4, <1>5, <3>1, <4>2, RecordsStatus, MovesTo
    <3>2. CASE NextTool(r, RecordEvent(s, ToolEvent("failure")), todo[r] - 1)
      <4> DEFINE t == RecordEvent(s, ToolEvent("failure"))
      <4>1. t \in {s, "running"}
        BY <1>1, RecordTool
      <4>2. t \in Recorded /\ (t \in {"absent", "created"} => t = status[r])
        BY <1>1, <4>1 DEF Recorded, RunStatuses
      <4>3. todo[r] - 1 \in Int /\ todo[r] - 1 <= MaxBatch
        BY <1>4, BoundsAssumption
      <4>4. NextTool(r, t, todo[r] - 1)
        BY <3>2
      <4> HIDE DEF t
      <4>5. QED
        BY <4>2, <4>3, <4>4, NextToolEffect
    <3>3. QED
      BY <1>10, <3>1, <3>2 DEF ConfirmReturned, s
  <2>2. QED
    BY <1>2, <1>10, <2>1, GateEffect, PromptEffect
    DEF ConfirmReturned, ExecutorEffect, ExecutorRest
<1>11. CASE Woken(r)
  <2>1. pauseReg' \in [Runs -> BOOLEAN] /\ pauseSet' \in [Runs -> BOOLEAN]
    BY <1>4, <1>11 DEF Woken
  <2>2. /\ UNCHANGED recordVars \/ Records(r)
        /\ UNCHANGED pc \/ Moves(r)
        /\ rounds' \in [Runs -> 0..MaxRounds] /\ todo' \in [Runs -> 0..MaxBatch]
    <3>1. CASE UNCHANGED <<recordVars, pc, rounds, todo>>
      BY <1>4, <3>1
    <3>2. CASE EnterModel(r, s) /\ UNCHANGED <<rounds, todo>>
      BY <1>1, <1>4, <3>2, EnterModelEffect
    <3>3. CASE StartTools(r, s, todo[r])
      <4>1. todo[r] \in 0..MaxBatch
        BY <1>4
      <4>2. QED
        BY <1>1, <3>3, <4>1, StartToolsEffect
    <3>4. QED
      BY <1>11, <3>1, <3>2, <3>3 DEF Woken, s
  <2>3. QED
    BY <1>2, <1>3, <1>11, <2>1, <2>2, PromptEffect
    DEF Woken, ExecutorEffect, ExecutorRest
<1>12. CASE Finalized(r)
  <2>1. PICK outcome \in FinishedStatuses : Emit(r, RecordEvent(s, DoneEvent(outcome)))
    BY <1>12 DEF Finalized, s
  <2>2. RecordEvent(s, DoneEvent(outcome)) \in RunStatuses \ {"created"}
    BY <1>1, RecordDone DEF FinishedStatuses, RunStatuses
  <2>3. Ends(r) /\ Records(r) /\ pc'[r] # "confirm"
    BY <1>1, <1>12, <2>1, <2>2, RecordDone, RecordsStarted DEF Finalized, Ends, GoTo, TypeOK
  <2>4. QED
    BY <1>2, <1>3, <1>4, <1>12, <2>3
    DEF Finalized, ExecutorEffect, ExecutorRest, confirmVars, pauseVars
<1>13. CASE ExecutorFailed(r)
  <2>1. RecordEvent(s, TerminalError) = "failure"
    BY <1>1, RecordErrors
  <2>2. "failure" \in RunStatuses \ {"created"} /\ "failure" \in FinishedStatuses
    BY DEF RunStatuses, FinishedStatuses
  <2>3. Emit(r, "failure") /\ GoTo(r, "ended")
    BY <1>13, <2>1 DEF ExecutorFailed, s
  <2>4. Ends(r) /\ Records(r) /\ pc'[r] # "confirm"
    BY <2>2, <2>3, RecordsStarted DEF Ends, GoTo, TypeOK
  <2>5. QED
    BY <1>2, <1>3, <1>4, <1>13, <2>4
    DEF ExecutorFailed, ExecutorEffect, ExecutorRest, confirmVars, pauseVars
<1>14. QED
  BY <1>6, <1>7, <1>8, <1>9, <1>10, <1>11, <1>12, <1>13 DEF ExecutorStep

-----------------------------------------------------------------------------
(* Type correctness. *)

TaskRecords == [state : TaskStates \cup {"absent"}, run : Runs \cup {None}]

RecordsTyped ==
    /\ status \in [Runs -> Recorded]
    /\ taskOf \in [Runs -> Runs]
    /\ task \in [Runs -> TaskRecords]

LEMMA EmitType ==
    ASSUME TypeOK, NEW r \in Runs, NEW s \in Recorded, Emit(r, s)
    PROVE  RecordsTyped'
<1>1. TaskStateOf(s) \in TaskStates \cup {"absent"}
  BY TaskStateOfType
<1>2. [state |-> TaskStateOf(s), run |-> r] \in TaskRecords
  BY <1>1 DEF TaskRecords
<1>3. task \in [Runs -> TaskRecords]
  BY DEF TypeOK, TaskRecords
<1>4. QED
  BY <1>2, <1>3 DEF Emit, RecordsTyped, TypeOK, Recorded

LEMMA RecordsType ==
    ASSUME TypeOK, NEW r \in Runs, Records(r)
    PROVE  RecordsTyped'
BY EmitType DEF Records

LEMMA CreateRunType ==
    ASSUME TypeOK, NEW r \in Runs, NEW s \in {"created", "running"}, NEW t \in Runs,
           CreateRun(r, s, t)
    PROVE  RecordsTyped'
<1>1. [state |-> s, run |-> r] \in TaskRecords
  BY DEF TaskRecords, TaskStates
<1>2. task \in [Runs -> TaskRecords]
  BY DEF TypeOK, TaskRecords
<1>3. QED
  BY <1>1, <1>2 DEF CreateRun, RecordsTyped, TypeOK, Recorded, RunStatuses

LEMMA InitType == Init => TypeOK
<1>1. NoTask \in TaskRecords
  BY DEF NoTask, TaskRecords
<1>2. Init => RecordsTyped
  BY <1>1 DEF Init, RecordsTyped, Recorded
<1>3. QED
  BY <1>2, BoundsAssumption DEF TypeOK, RecordsTyped, TaskRecords, Recorded, Init

LEMMA ExecutorType ==
    ASSUME TypeOK, NEW r \in Runs, ExecutorStep(r)
    PROVE  TypeOK'
<1>1. ExecutorEffect(r)
  BY ExecutorStepEffect
<1>2. RecordsTyped'
  BY <1>1, RecordsType DEF TypeOK, RecordsTyped, TaskRecords, Recorded, ExecutorEffect, recordVars
<1>3. pc' \in [Runs -> Awaiting \cup {"none", "ended"}]
  BY <1>1 DEF ExecutorEffect, Moves, Ends, GoTo, TypeOK
<1>4. QED
  BY <1>1, <1>2, <1>3 DEF TypeOK, RecordsTyped, TaskRecords, Recorded, ExecutorEffect, requestVars

LEMMA StartRunType ==
    ASSUME TypeOK, NEW q \in Requests, NEW r \in Runs, StartRun(q, r)
    PROVE  RecordsTyped'
<1>1. CASE \E t \in {r} \cup {taskOf[o] : o \in {x \in Runs : status[x] # "absent"}} :
             CreateRun(r, "running", t)
  <2>1. PICK t \in Runs : CreateRun(r, "running", t)
    BY <1>1 DEF TypeOK
  <2>2. QED
    BY <2>1, CreateRunType
<1>2. CASE Emit(r, RecordEvent("created", StatusEvent("resumed")))
  <2>1. RecordEvent("created", StatusEvent("resumed")) \in Recorded
    BY RecordStatus DEF Recorded, RunStatuses
  <2>2. QED
    BY <1>2, <2>1, EmitType
<1>3. QED
  BY <1>1, <1>2 DEF StartRun

LEMMA RequestType ==
    ASSUME TypeOK, NEW q \in Requests, RequestStep(q)
    PROVE  TypeOK'
<1>1. CASE Accept(q)
  BY <1>1 DEF Accept, TypeOK, recordVars, pauseVars, confirmVars
<1>2. CASE Reject(q)
  BY <1>2 DEF Reject, TypeOK, recordVars, pauseVars, confirmVars
<1>3. CASE Launch(q)
  BY <1>3 DEF Launch, TypeOK, recordVars, pauseVars, confirmVars, Awaiting
<1>4. CASE Finish(q)
  BY <1>4 DEF Finish, TypeOK, recordVars, pauseVars, confirmVars
<1>5. CASE Disconnect(q)
  BY <1>5 DEF Disconnect, TypeOK, recordVars, pauseVars, confirmVars
<1>6. ASSUME NEW r \in Runs, StartRun(q, r)
      PROVE  TypeOK'
  <2>1. RecordsTyped'
    BY <1>6, StartRunType
  <2>2. QED
    BY <1>6, <2>1 DEF TypeOK, RecordsTyped, TaskRecords, Recorded, StartRun, pauseVars, confirmVars
<1>7. QED
  BY <1>1, <1>2, <1>3, <1>4, <1>5, <1>6 DEF RequestStep

\* The events with which the user's actions change a status.
LEMMA ControlType ==
    ASSUME TypeOK, NEW r \in Runs, NEW word,
           Emit(r, RecordEvent(status[r], StatusEvent(word)))
    PROVE  RecordsTyped'
<1>1. RecordEvent(status[r], StatusEvent(word)) \in Recorded
  BY RecordStatus DEF TypeOK, Recorded
<1>2. QED
  BY <1>1, EmitType

LEMMA UserType ==
    ASSUME TypeOK, NEW r \in Runs, Pause(r) \/ Resume(r) \/ Stop(r)
    PROVE  TypeOK'
<1>1. RecordsTyped'
  BY ControlType DEF Pause, Resume, Stop
<1>2. CASE Pause(r)
  BY <1>1, <1>2 DEF TypeOK, RecordsTyped, TaskRecords, Recorded, Pause, pauseVars, confirmVars, requestVars
<1>3. CASE Resume(r)
  BY <1>1, <1>3 DEF TypeOK, RecordsTyped, TaskRecords, Recorded, Resume, confirmVars, requestVars
<1>4. CASE Stop(r)
  <2>1. pc' \in [Runs -> Awaiting \cup {"none", "ended"}] /\ pending' \in Runs \cup {None}
    BY <1>4 DEF Stop, Cancelled, GoTo, TypeOK
  <2>2. QED
    BY <1>1, <1>4, <2>1 DEF TypeOK, RecordsTyped, TaskRecords, Recorded, Stop, requestVars
<1>5. QED
  BY <1>2, <1>3, <1>4

LEMMA RestartType ==
    ASSUME TypeOK, Restart
    PROVE  TypeOK'
<1>1. status' \in [Runs -> Recorded]
  BY DEF Restart, TypeOK, RecoverRun, Recorded, RunStatuses
<1>2. task' \in [Runs -> TaskRecords]
  <2>1. \A t \in Runs : [task[t] EXCEPT !.state = RecoverTask(@)] \in TaskRecords
    <3>1. \A t \in Runs : RecoverTask(task[t].state) \in TaskStates \cup {"absent"}
      BY DEF RecoverTask, TaskStates, TypeOK
    <3>2. QED
      BY SMTT(40), <3>1 DEF TaskRecords, TypeOK
  <2>2. QED
    BY <2>1 DEF Restart
<1>3. RecordsTyped'
  BY <1>1, <1>2 DEF RecordsTyped, Restart, TypeOK
<1>4. pc' \in [Runs -> Awaiting \cup {"none", "ended"}]
  BY DEF Restart, TypeOK
<1>5. QED
  BY <1>3, <1>4, BoundsAssumption DEF TypeOK, RecordsTyped, TaskRecords, Recorded, Restart

LEMMA NextType == TypeOK /\ [Next]_vars => TypeOK'
<1> SUFFICES ASSUME TypeOK, [Next]_vars PROVE TypeOK'
  OBVIOUS
<1>1. ASSUME NEW source \in Runs, NEW r \in Runs, Prepare(source, r)
      PROVE  TypeOK'
  <2>1. RecordsTyped'
    BY <1>1, CreateRunType DEF Prepare, TypeOK
  <2>2. QED
    BY <1>1, <2>1 DEF TypeOK, RecordsTyped, TaskRecords, Recorded, Prepare, pauseVars, confirmVars, requestVars
<1>2. ASSUME NEW a \in {"continue", "cancel"}, Answer(a)
      PROVE  TypeOK'
  BY <1>2 DEF Answer, TypeOK, recordVars, pauseVars, requestVars
<1>3. CASE UNCHANGED vars
  BY <1>3 DEF TypeOK, vars, recordVars, pauseVars, confirmVars, requestVars
<1>4. QED
  BY <1>1, <1>2, <1>3, ExecutorType, RequestType, UserType, RestartType DEF Next

\* Every variable holds a value of its kind, whatever the users, the clients
\* and the machine do: in particular the round loop never exceeds its budget
\* and a batch never has more calls left than it had.
THEOREM TypeCorrect == Spec => []TypeOK
<1>1. QED
  BY InitType, NextType, PTL DEF Spec

-----------------------------------------------------------------------------
(* The task and its current run, under every control. *)

\* TaskMirrorsCurrentRun is not inductive: a run about to be created must not
\* be some task's current run already, and an executor must not record events
\* of a run that was never created.
TaskInv ==
    /\ \A q \in Requests : reqPc[q] = "starting" =>
          reqRun[q] \in Runs /\ status[reqRun[q]] # "absent"
    /\ \A r \in Runs : pc[r] # "none" => status[r] # "absent"
    /\ \A t \in Runs : task[t].run # None => status[task[t].run] # "absent"
    /\ TaskMirrorsCurrentRun

\* What a recorded event of a created run keeps of the invariant.
LEMMA EmitKeepsTasks ==
    ASSUME TypeOK, TaskInv, NEW r \in Runs, status[r] # "absent",
           NEW s \in Recorded \ {"absent"}, Emit(r, s)
    PROVE  /\ \A t \in Runs : task'[t].run # None => status'[task'[t].run] # "absent"
           /\ TaskMirrorsCurrentRun'
           /\ \A o \in Runs : status[o] # "absent" => status'[o] # "absent"
<1>1. r # None /\ taskOf[r] \in Runs
  BY NoneAssumption DEF TypeOK
<1>2. status' = [status EXCEPT ![r] = s] /\ taskOf' = taskOf
  BY DEF Emit
<1>3. \A o \in Runs : status'[o] = IF o = r THEN s ELSE status[o]
  BY <1>2 DEF TypeOK
<1>4. \A t \in Runs : task'[t] = IF t = taskOf[r] THEN [state |-> TaskStateOf(s), run |-> r]
                                 ELSE task[t]
  BY <1>1 DEF Emit, TypeOK
<1>5. ASSUME NEW t \in Runs, task'[t].run # None
      PROVE  /\ status'[task'[t].run] # "absent"
             /\ taskOf'[task'[t].run] = t
             /\ task'[t].state = TaskStateOf(status'[task'[t].run])
  <2>1. CASE t = taskOf[r]
    BY <1>2, <1>3, <1>4, <2>1
  <2>2. CASE t # taskOf[r]
    <3>1. task'[t] = task[t] /\ task[t].run \in Runs
      BY <1>4, <1>5, <2>2 DEF TypeOK
    <3>2. task[t].run # r
      BY <1>5, <2>2, <3>1 DEF TaskInv, TaskMirrorsCurrentRun
    <3>3. QED
      BY <1>2, <1>3, <1>5, <3>1, <3>2 DEF TaskInv, TaskMirrorsCurrentRun
  <2>3. QED
    BY <2>1, <2>2
<1>6. QED
  BY <1>3, <1>5 DEF TaskMirrorsCurrentRun

LEMMA CreateKeepsTasks ==
    ASSUME TypeOK, TaskInv, NEW r \in Runs, status[r] = "absent",
           NEW s \in {"created", "running"}, NEW t \in Runs, CreateRun(r, s, t)
    PROVE  /\ \A u \in Runs : task'[u].run # None => status'[task'[u].run] # "absent"
           /\ TaskMirrorsCurrentRun'
           /\ \A o \in Runs : status[o] # "absent" => status'[o] # "absent"
<1>1. TaskStateOf(s) = s
  BY DEF TaskStateOf
<1>2. \A o \in Runs : status'[o] = IF o = r THEN s ELSE status[o]
  BY DEF CreateRun, TypeOK
<1>3. \A o \in Runs : taskOf'[o] = IF o = r THEN t ELSE taskOf[o]
  BY DEF CreateRun, TypeOK
<1>4. \A u \in Runs : task'[u] = IF u = t THEN [state |-> s, run |-> r] ELSE task[u]
  BY DEF CreateRun, TypeOK
<1>5. ASSUME NEW u \in Runs, task'[u].run # None
      PROVE  /\ status'[task'[u].run] # "absent"
             /\ taskOf'[task'[u].run] = u
             /\ task'[u].state = TaskStateOf(status'[task'[u].run])
  <2>1. CASE u = t
    BY <1>1, <1>2, <1>3, <1>4, <2>1
  <2>2. CASE u # t
    <3>1. task'[u] = task[u] /\ task[u].run \in Runs
      BY <1>4, <1>5, <2>2 DEF TypeOK
    <3>2. task[u].run # r
      BY <1>5, <3>1 DEF TaskInv
    <3>3. QED
      BY <1>2, <1>3, <1>5, <3>1, <3>2 DEF TaskInv, TaskMirrorsCurrentRun
  <2>3. QED
    BY <2>1, <2>2
<1>6. QED
  BY <1>2, <1>5 DEF TaskMirrorsCurrentRun

\* Recovery of the records and of the tasks agree.
LEMMA RecoveryAgrees ==
    ASSUME NEW s \in Recorded
    PROVE  /\ RecoverTask(TaskStateOf(s)) = TaskStateOf(RecoverRun(s))
           /\ s # "absent" => RecoverRun(s) # "absent"
BY DEF RecoverTask, TaskStateOf, RecoverRun, ActiveStatuses, Recorded, RunStatuses

\* The part of the invariant that is about requests and executors, when a step
\* moves at most run r's executor, which has a record.
LEMMA ControlKeepsTasks ==
    ASSUME TypeOK, TaskInv, NEW r \in Runs, status[r] # "absent", NEW word,
           Emit(r, RecordEvent(status[r], StatusEvent(word))),
           pc' = pc \/ pc' = [pc EXCEPT ![r] = "ended"],
           UNCHANGED <<reqPc, reqRun>>
    PROVE  TaskInv'
<1> DEFINE s == RecordEvent(status[r], StatusEvent(word))
<1>1. s \in Recorded \ {"absent"}
  BY RecordStatus DEF TypeOK, Recorded, RunStatuses
<1> HIDE DEF s
<1>2. Emit(r, s)
  BY DEF s
<1>3. QED
  BY <1>1, <1>2, EmitKeepsTasks DEF TaskInv, TypeOK

LEMMA InitTask == Init => TaskInv
BY DEF Init, TaskInv, TaskMirrorsCurrentRun, NoTask

LEMMA ExecutorTask ==
    ASSUME TypeOK, TaskInv, NEW r \in Runs, ExecutorStep(r)
    PROVE  TaskInv'
<1>1. ExecutorEffect(r) /\ status[r] # "absent"
  BY ExecutorStepEffect DEF ExecutorEffect, TaskInv, Alive, Awaiting
<1>2. \A o \in Runs : pc'[o] # "none" => o = r \/ pc[o] # "none"
  BY <1>1 DEF ExecutorEffect, Moves, Ends, GoTo, TypeOK
<1>3. CASE UNCHANGED recordVars
  BY <1>1, <1>2, <1>3 DEF TaskInv, TaskMirrorsCurrentRun, ExecutorEffect, recordVars, requestVars
<1>4. CASE Records(r)
  <2>1. PICK s \in Recorded \ {"absent"} : Emit(r, s)
    BY <1>1, <1>4 DEF Records
  <2>2. QED
    BY <1>1, <1>2, <2>1, EmitKeepsTasks DEF TaskInv, ExecutorEffect, requestVars, TypeOK
<1>5. QED
  BY <1>1, <1>3, <1>4 DEF ExecutorEffect

LEMMA RequestTask ==
    ASSUME TypeOK, TaskInv, NEW q \in Requests, RequestStep(q)
    PROVE  TaskInv'
<1>1. CASE Accept(q) \/ Reject(q) \/ Finish(q) \/ Disconnect(q)
  BY <1>1 DEF Accept, Reject, Finish, Disconnect, TypeOK, TaskInv, TaskMirrorsCurrentRun, recordVars
<1>2. CASE Launch(q)
  BY <1>2 DEF Launch, TypeOK, TaskInv, TaskMirrorsCurrentRun, recordVars
<1>3. ASSUME NEW r \in Runs, StartRun(q, r)
      PROVE  TaskInv'
  <2>1. /\ \A t \in Runs : task'[t].run # None => status'[task'[t].run] # "absent"
        /\ TaskMirrorsCurrentRun'
        /\ \A o \in Runs : status[o] # "absent" => status'[o] # "absent"
        /\ status'[r] # "absent"
    <3>1. ASSUME NEW t \in Runs, CreateRun(r, "running", t), status[r] = "absent"
          PROVE  <2>1
      BY <3>1, CreateKeepsTasks DEF CreateRun, TypeOK
    <3>2. CASE status[r] = "created" /\ Emit(r, RecordEvent("created", StatusEvent("resumed")))
      <4>1. RecordEvent("created", StatusEvent("resumed")) \in Recorded \ {"absent"}
        BY RecordStatus DEF Recorded, RunStatuses
      <4>2. QED
        BY <3>2, <4>1, EmitKeepsTasks DEF Emit, TypeOK
    <3>3. QED
      BY <1>3, <3>1, <3>2 DEF StartRun, TypeOK
  <2>2. QED
    BY <1>3, <2>1 DEF StartRun, TaskInv, TypeOK
<1>4. QED
  BY <1>1, <1>2, <1>3 DEF RequestStep

LEMMA NextTask == TypeOK /\ TaskInv /\ [Next]_vars => TaskInv'
<1> SUFFICES ASSUME TypeOK, TaskInv, [Next]_vars PROVE TaskInv'
  OBVIOUS
<1>1. ASSUME NEW r \in Runs, Pause(r) \/ Resume(r)
      PROVE  TaskInv'
  BY <1>1, ControlKeepsTasks DEF Pause, Resume, requestVars
<1>2. ASSUME NEW r \in Runs, Stop(r)
      PROVE  TaskInv'
  BY <1>2, ControlKeepsTasks DEF Stop, Cancelled, GoTo, requestVars
<1>3. ASSUME NEW source \in Runs, NEW r \in Runs, Prepare(source, r)
      PROVE  TaskInv'
  BY <1>3, CreateKeepsTasks DEF Prepare, requestVars, TaskInv, TypeOK
<1>4. ASSUME NEW a \in {"continue", "cancel"}, Answer(a)
      PROVE  TaskInv'
  BY <1>4 DEF Answer, TaskInv, TaskMirrorsCurrentRun, recordVars, requestVars
<1>5. CASE Restart
  <2>1. \A r \in Runs : status'[r] = RecoverRun(status[r])
    BY <1>5 DEF Restart
  <2>2. \A t \in Runs : task'[t].run = task[t].run /\ task'[t].state = RecoverTask(task[t].state)
    BY <1>5 DEF Restart, TypeOK
  <2>3. \A r \in Runs : status[r] \in Recorded
    BY DEF TypeOK, Recorded
  <2>4. \A r \in Runs : status[r] # "absent" => status'[r] # "absent"
    BY <2>1, <2>3, RecoveryAgrees
  <2>5. TaskMirrorsCurrentRun'
    <3>1. ASSUME NEW t \in Runs, task'[t].run # None
          PROVE  /\ taskOf'[task'[t].run] = t
                 /\ task'[t].state = TaskStateOf(status'[task'[t].run])
      <4>1. task[t].run \in Runs /\ taskOf' = taskOf
        BY <1>5, <2>2, <3>1 DEF TypeOK, Restart
      <4>2. task[t].state = TaskStateOf(status[task[t].run]) /\ taskOf[task[t].run] = t
        BY <2>2, <3>1 DEF TaskInv, TaskMirrorsCurrentRun
      <4>3. QED
        BY <2>1, <2>2, <2>3, <4>1, <4>2, RecoveryAgrees
    <3>2. QED
      BY <3>1 DEF TaskMirrorsCurrentRun
  <2>6. \A q \in Requests : reqPc'[q] # "starting"
    BY <1>5 DEF Restart
  <2>7. \A r \in Runs : pc'[r] # "none" => pc[r] # "none"
    BY <1>5 DEF Restart, Alive, Awaiting
  <2>8. \A t \in Runs : task[t].run \in Runs \cup {None}
    BY DEF TypeOK
  <2>9. QED
    BY <2>2, <2>4, <2>5, <2>6, <2>7, <2>8 DEF TaskInv
<1>6. CASE UNCHANGED vars
  BY <1>6 DEF TaskInv, TaskMirrorsCurrentRun, vars, recordVars, requestVars
<1>7. QED
  BY <1>1, <1>2, <1>3, <1>4, <1>5, <1>6, ExecutorTask, RequestTask DEF Next

\* The product task shows its current run's state, under every interleaving of
\* the runs of the task, every control and every restart.
THEOREM TaskFollowsRun == Spec => []TaskMirrorsCurrentRun
<1>1. TaskInv => TaskMirrorsCurrentRun
  BY DEF TaskInv
<1>2. QED
  BY <1>1, InitType, NextType, InitTask, NextTask, PTL DEF Spec

-----------------------------------------------------------------------------
(* One executor at a time, and the conversation contract, while nobody     *)
(* stops a run and no client goes away.  Both are needed: a stop during    *)
(* the start of a run, and the early "stopped" of a run that has spent its *)
(* rounds after its client has gone, let a second executor in.             *)

Undisturbed == "stop" \notin Controls /\ "disconnect" \notin Controls

InFlight(q) == reqPc[q] \in {"reserved", "starting", "streaming"}

\* The entry of active_stream_conversation_runs follows the one request in
\* flight, and nothing executes without a request in flight.
OwnerInv ==
    /\ \A q \in Requests : reqPc[q] = "reserved" => active = "pending"
    /\ \A q \in Requests : reqPc[q] \in {"starting", "streaming"} =>
          reqRun[q] \in Runs /\ active = reqRun[q]
    /\ \A q, p \in Requests : InFlight(q) /\ InFlight(p) => q = p
    /\ \A r \in Runs : Alive(r) =>
          \E q \in Requests : reqPc[q] = "streaming" /\ reqRun[q] = r
    /\ \A q \in Requests : ~closed[q]

\* A run about to be launched has not executed and is recorded as going on; a
\* run that has not started has no executor.
StartInv ==
    /\ \A q \in Requests : reqPc[q] = "starting" =>
          pc[reqRun[q]] = "none" /\ status[reqRun[q]] \in ActiveStatuses
    /\ \A r \in Runs : status[r] \in {"absent", "created"} => pc[r] = "none"

LEMMA InitOwner == Init => OwnerInv /\ StartInv
BY DEF Init, OwnerInv, StartInv, InFlight, Alive, Awaiting

\* A step of run r's executor touches the record and the program counter of r only.
LEMMA ExecutorFrame ==
    ASSUME TypeOK, NEW r \in Runs, ExecutorEffect(r)
    PROVE  \A o \in Runs \ {r} : status'[o] = status[o] /\ pc'[o] = pc[o]
<1>1. \A o \in Runs \ {r} : status'[o] = status[o]
  BY DEF ExecutorEffect, Records, Emit, TypeOK, recordVars
<1>2. \A o \in Runs \ {r} : pc'[o] = pc[o]
  BY DEF ExecutorEffect, Moves, Ends, GoTo, TypeOK
<1>3. QED
  BY <1>1, <1>2

LEMMA ExecutorOwner ==
    ASSUME TypeOK, OwnerInv, StartInv, NEW r \in Runs, ExecutorStep(r)
    PROVE  OwnerInv' /\ StartInv'
<1>1. ExecutorEffect(r)
  BY ExecutorStepEffect
<1>2. Alive(r) /\ UNCHANGED <<active, reqPc, reqRun, closed>>
  BY <1>1 DEF ExecutorEffect, requestVars
<1>3. \A o \in Runs : Alive(o)' => Alive(o)
  BY <1>1, <1>2, ExecutorFrame DEF Alive
<1>4. OwnerInv'
  BY <1>2, <1>3 DEF OwnerInv, InFlight
<1>5. ASSUME NEW q \in Requests, reqPc[q] = "starting"
      PROVE  reqRun[q] \in Runs \ {r}
  BY <1>2, <1>5 DEF OwnerInv, InFlight
<1>6. ASSUME status'[r] \in {"absent", "created"}
      PROVE  FALSE
  <2>1. status'[r] = status[r]
    BY <1>1, <1>6 DEF ExecutorEffect, Records, Emit, TypeOK, recordVars
  <2>2. pc[r] = "none"
    BY <1>6, <2>1 DEF StartInv
  <2>3. QED
    BY <1>2, <2>2 DEF Alive, Awaiting
<1>7. StartInv'
  BY <1>1, <1>2, <1>5, <1>6, ExecutorFrame DEF StartInv
<1>8. QED
  BY <1>4, <1>7

LEMMA RequestOwner ==
    ASSUME Undisturbed, TypeOK, OwnerInv, StartInv, NEW q \in Requests, RequestStep(q)
    PROVE  OwnerInv' /\ StartInv'
<1>1. CASE Accept(q)
  <2>1. \A p \in Requests : ~InFlight(p)
    BY <1>1, NoneAssumption DEF Accept, OwnerInv, InFlight
  <2>2. pc' = pc /\ status' = status /\ reqRun' = reqRun /\ closed' = closed
    BY <1>1 DEF Accept, recordVars
  <2>3. \A r \in Runs : ~Alive(r)
    BY <2>1 DEF OwnerInv, InFlight
  <2>4. \A p \in Requests : reqPc'[p] = IF p = q THEN "reserved" ELSE reqPc[p]
    BY <1>1 DEF Accept, TypeOK
  <2>5. active' = "pending"
    BY <1>1 DEF Accept
  <2>6. QED
    BY <2>1, <2>2, <2>3, <2>4, <2>5 DEF OwnerInv, StartInv, InFlight, Alive
<1>2. CASE Reject(q)
  BY <1>2 DEF Reject, OwnerInv, StartInv, InFlight, Alive, TypeOK, recordVars
<1>3. CASE Launch(q)
  <2>1. reqRun[q] \in Runs /\ reqPc[q] = "starting"
    BY <1>3 DEF Launch, OwnerInv
  <2>2. \A p \in Requests : reqPc'[p] = IF p = q THEN "streaming" ELSE reqPc[p]
    BY <1>3 DEF Launch, TypeOK
  <2>3. \A r \in Runs : pc'[r] = IF r = reqRun[q] THEN "prep" ELSE pc[r]
    BY <1>3 DEF Launch, TypeOK
  <2>4. UNCHANGED <<status, active, reqRun, closed>>
    BY <1>3 DEF Launch, recordVars
  <2>5. OwnerInv'
    BY <2>1, <2>2, <2>3, <2>4 DEF OwnerInv, InFlight, Alive
  <2>6. status[reqRun[q]] \notin {"absent", "created"}
    BY <2>1 DEF StartInv, ActiveStatuses
  <2>7. \A p \in Requests : reqPc'[p] # "starting"
    BY <2>1, <2>2 DEF OwnerInv, InFlight
  <2>8. StartInv'
    BY <2>1, <2>3, <2>4, <2>6, <2>7 DEF StartInv
  <2>9. QED
    BY <2>5, <2>8
<1>4. CASE Finish(q)
  <2>1. reqPc[q] = "streaming" /\ pc[reqRun[q]] = "ended"
    BY <1>4 DEF Finish, OwnerInv
  <2>2. \A p \in Requests : reqPc'[p] = IF p = q THEN "done" ELSE reqPc[p]
    BY <1>4 DEF Finish, TypeOK
  <2>3. UNCHANGED <<status, pc, reqRun, closed>>
    BY <1>4 DEF Finish, recordVars
  <2>4. \A p \in Requests : ~InFlight(p)'
    BY <2>1, <2>2 DEF OwnerInv, InFlight
  <2>5. \A r \in Runs : ~Alive(r)
    BY <2>1 DEF OwnerInv, InFlight, Alive, Awaiting
  <2>6. QED
    BY <2>3, <2>4, <2>5 DEF OwnerInv, StartInv, InFlight, Alive
<1>5. CASE Disconnect(q)
  BY <1>5 DEF Disconnect, Undisturbed
<1>6. ASSUME NEW r \in Runs, StartRun(q, r)
      PROVE  OwnerInv' /\ StartInv'
  <2>1. reqPc[q] = "reserved" /\ status[r] \in {"absent", "created"} /\ pc' = pc
    BY <1>6 DEF StartRun
  <2>2. pc[r] = "none"
    BY <2>1 DEF StartInv
  <2>3. \A o \in Runs : status'[o] = IF o = r THEN status'[r] ELSE status[o]
    BY <1>6 DEF StartRun, CreateRun, Emit, TypeOK
  <2>4. status'[r] = "running"
    <3>1. RecordEvent("created", StatusEvent("resumed")) = "running"
      BY DEF RecordEvent, StatusEvent, AfterStatus
    <3>2. QED
      BY <1>6, <3>1 DEF StartRun, CreateRun, Emit, TypeOK
  <2>5. /\ \A p \in Requests : reqPc'[p] = IF p = q THEN "starting" ELSE reqPc[p]
        /\ \A p \in Requests : reqRun'[p] = IF p = q THEN r ELSE reqRun[p]
        /\ active' = r /\ closed' = closed
    BY <1>6 DEF StartRun, TypeOK
  <2>6. \A o \in Runs : ~Alive(o)
    BY <2>1 DEF OwnerInv, InFlight
  <2>7. \A p \in Requests \ {q} : ~InFlight(p)
    BY <2>1 DEF OwnerInv, InFlight
  <2>8. OwnerInv'
    BY <2>1, <2>5, <2>6, <2>7 DEF OwnerInv, InFlight, Alive
  <2>9. StartInv'
    BY <2>1, <2>2, <2>3, <2>4, <2>5, <2>7 DEF StartInv, InFlight, ActiveStatuses
  <2>10. QED
    BY <2>8, <2>9
<1>7. QED
  BY <1>1, <1>2, <1>3, <1>4, <1>5, <1>6 DEF RequestStep

\* What the two controls that are left write into the record.
LEMMA PauseRecords ==
    ASSUME NEW s \in RunStatuses
    PROVE  RecordEvent(s, StatusEvent("paused")) = "paused"
BY DEF RecordEvent, StatusEvent, AfterStatus

LEMMA ResumeRecords == RecordEvent("paused", StatusEvent("resumed")) = "running"
BY DEF RecordEvent, StatusEvent, AfterStatus

LEMMA ControlStatus ==
    ASSUME TypeOK, NEW r \in Runs, Pause(r) \/ Resume(r)
    PROVE  /\ status[r] \notin FinishedStatuses \cup {"absent"}
           /\ status'[r] \in {"paused", "running"}
           /\ \A o \in Runs \ {r} : status'[o] = status[o]
           /\ UNCHANGED <<pc, active, requestVars>>
<1>1. CASE Pause(r)
  <2>1. status[r] \in RunStatuses
    BY <1>1 DEF Pause, TypeOK
  <2>2. RecordEvent(status[r], StatusEvent("paused")) = "paused"
    BY <2>1, PauseRecords
  <2>3. QED
    BY <1>1, <2>2 DEF Pause, Emit, TypeOK
<1>2. CASE Resume(r)
  <2>1. RecordEvent(status[r], StatusEvent("resumed")) = "running"
    BY <1>2, ResumeRecords DEF Resume
  <2>2. QED
    BY <1>2, <2>1 DEF Resume, Emit, TypeOK, FinishedStatuses
<1>3. QED
  BY <1>1, <1>2

LEMMA ControlOwner ==
    ASSUME TypeOK, OwnerInv, StartInv, NEW r \in Runs, Pause(r) \/ Resume(r)
    PROVE  OwnerInv' /\ StartInv'
<1>1. UNCHANGED <<pc, active, reqPc, reqRun, closed>>
  BY ControlStatus DEF requestVars
<1>2. OwnerInv'
  BY <1>1 DEF OwnerInv, InFlight, Alive
<1>3. ASSUME NEW q \in Requests, reqPc[q] = "starting"
      PROVE  pc[reqRun[q]] = "none" /\ status'[reqRun[q]] \in ActiveStatuses
  <2>1. reqRun[q] \in Runs /\ pc[reqRun[q]] = "none" /\ status[reqRun[q]] \in ActiveStatuses
    BY <1>3 DEF OwnerInv, StartInv
  <2>2. QED
    BY <2>1, ControlStatus DEF ActiveStatuses
<1>4. \A o \in Runs : status'[o] \in {"absent", "created"} => pc[o] = "none"
  BY ControlStatus DEF StartInv
<1>5. QED
  BY <1>1, <1>2, <1>3, <1>4 DEF StartInv

LEMMA PrepareOwner ==
    ASSUME TypeOK, OwnerInv, StartInv, NEW source \in Runs, NEW r \in Runs, Prepare(source, r)
    PROVE  OwnerInv' /\ StartInv'
<1>1. UNCHANGED <<pc, active, reqPc, reqRun, closed>>
  BY DEF Prepare, requestVars
<1>2. \A o \in Runs : status'[o] = IF o = r THEN "created" ELSE status[o]
  BY DEF Prepare, CreateRun, TypeOK
<1>3. status[r] = "absent" /\ pc[r] = "none"
  BY DEF Prepare, StartInv
<1>4. OwnerInv'
  BY <1>1 DEF OwnerInv, InFlight, Alive
<1>5. StartInv'
  BY <1>1, <1>2, <1>3 DEF OwnerInv, StartInv, ActiveStatuses
<1>6. QED
  BY <1>4, <1>5

LEMMA RestartOwner ==
    ASSUME TypeOK, OwnerInv, StartInv, Restart
    PROVE  OwnerInv' /\ StartInv'
<1>1. /\ \A q \in Requests : reqPc'[q] \in {"idle", "done"}
      /\ reqRun' = reqRun /\ closed' = closed
  BY DEF Restart
<1>2. \A r \in Runs : pc'[r] = IF Alive(r) THEN "ended" ELSE pc[r]
  BY DEF Restart
<1>3. \A r \in Runs : ~Alive(r)'
  BY <1>2 DEF Alive, Awaiting
<1>4. OwnerInv'
  BY <1>1, <1>3 DEF OwnerInv, InFlight
<1>5. \A r \in Runs : status'[r] \in {"absent", "created"} => status[r] = status'[r]
  BY DEF Restart, RecoverRun
<1>6. StartInv'
  BY <1>1, <1>2, <1>5 DEF StartInv, Alive, Awaiting
<1>7. QED
  BY <1>4, <1>6

LEMMA NextOwner ==
    ASSUME Undisturbed, TypeOK, OwnerInv, StartInv, [Next]_vars
    PROVE  OwnerInv' /\ StartInv'
<1>1. ASSUME NEW r \in Runs PROVE ~Stop(r)
  BY DEF Stop, Undisturbed
<1>2. ASSUME NEW a \in {"continue", "cancel"}, Answer(a)
      PROVE  OwnerInv' /\ StartInv'
  BY <1>2 DEF Answer, OwnerInv, StartInv, InFlight, Alive, recordVars, requestVars
<1>3. CASE UNCHANGED vars
  BY <1>3 DEF OwnerInv, StartInv, InFlight, Alive, vars, recordVars, requestVars
<1>4. QED
  BY <1>1, <1>2, <1>3, ExecutorOwner, RequestOwner, ControlOwner, PrepareOwner, RestartOwner
  DEF Next

LEMMA OwnerExclusive == TypeOK /\ OwnerInv => ExclusiveExecution
<1> SUFFICES ASSUME TypeOK, OwnerInv, NEW r \in Runs, NEW o \in Runs, Owned(r), Owned(o)
             PROVE  r = o
  BY DEF ExclusiveExecution
<1>1. PICK q \in Requests : InFlight(q) /\ reqRun[q] = r
  BY DEF OwnerInv, Owned, Starting, InFlight
<1>2. PICK p \in Requests : InFlight(p) /\ reqRun[p] = o
  BY DEF OwnerInv, Owned, Starting, InFlight
<1>3. QED
  BY <1>1, <1>2 DEF OwnerInv

\* Never are two executors of a conversation at work or about to be, however
\* the requests of its clients, the pauses, replays and restarts interleave.
THEOREM OneExecutorAtATime ==
    ASSUME Undisturbed
    PROVE  Spec => []ExclusiveExecution
<1>1. Init => TypeOK /\ OwnerInv /\ StartInv
  BY InitType, InitOwner
<1>2. TypeOK /\ OwnerInv /\ StartInv /\ [Next]_vars => (TypeOK /\ OwnerInv /\ StartInv)'
  BY NextType, NextOwner
<1>3. TypeOK /\ OwnerInv /\ StartInv => ExclusiveExecution
  BY OwnerExclusive
<1>4. QED
  BY <1>1, <1>2, <1>3, PTL DEF Spec

-----------------------------------------------------------------------------
(* The conversation contract. *)

Phases == [r \in Runs |-> PhaseOf(r)]

\* A run whose record, executor and launch stay as they are keeps its phase.
LEMMA SamePhase ==
    ASSUME NEW r \in Runs, status'[r] = status[r], pc'[r] = pc[r], Starting(r)' <=> Starting(r)
    PROVE  PhaseOf(r)' = PhaseOf(r)
BY DEF PhaseOf, Owned, Alive

LEMMA ExecutorPhase ==
    ASSUME TypeOK, OwnerInv, NEW r \in Runs, ExecutorStep(r)
    PROVE  Contract!End(r) \/ UNCHANGED Phases
<1>1. ExecutorEffect(r)
  BY ExecutorStepEffect
<1>2. Alive(r) /\ UNCHANGED <<reqPc, reqRun>>
  BY <1>1 DEF ExecutorEffect, requestVars
<1>3. \A o \in Runs : Starting(o)' <=> Starting(o)
  BY <1>2 DEF Starting
<1>4. ~Starting(r)
  BY <1>2 DEF Starting, OwnerInv, InFlight
<1>5. \A o \in Runs \ {r} : PhaseOf(o)' = PhaseOf(o)
  BY <1>1, <1>3, ExecutorFrame, SamePhase
<1>6. PhaseOf(r) = "executing"
  BY <1>2 DEF PhaseOf, Owned
<1>7. Alive(r)' \/ pc'[r] = "ended"
  BY <1>1, <1>2 DEF ExecutorEffect, Moves, Ends, GoTo, TypeOK, Alive
<1>8. CASE Alive(r)'
  <2>1. PhaseOf(r)' = PhaseOf(r)
    BY <1>6, <1>8 DEF PhaseOf, Owned
  <2>2. QED
    BY <1>5, <2>1 DEF Phases
<1>9. CASE pc'[r] = "ended"
  <2>1. PhaseOf(r)' = "over"
    BY <1>3, <1>4, <1>9 DEF PhaseOf, Owned, Alive, Awaiting
  <2>2. Phases' = [Phases EXCEPT ![r] = "over"]
    BY <1>5, <2>1 DEF Phases
  <2>3. Phases[r] = "executing"
    BY <1>6 DEF Phases
  <2>4. QED
    BY <2>2, <2>3 DEF Contract!End, Phases
<1>10. QED
  BY <1>7, <1>8, <1>9

LEMMA RequestPhase ==
    ASSUME Undisturbed, TypeOK, OwnerInv, StartInv, NEW q \in Requests, RequestStep(q)
    PROVE  (\E r \in Runs : Contract!Begin(r)) \/ UNCHANGED Phases
<1>1. CASE Accept(q) \/ Reject(q) \/ Finish(q)
  <2>1. UNCHANGED <<status, pc, reqRun>>
    BY <1>1 DEF Accept, Reject, Finish, recordVars
  <2>2. \A p \in Requests : reqPc'[p] = "starting" <=> reqPc[p] = "starting"
    BY <1>1 DEF Accept, Reject, Finish, TypeOK
  <2>3. \A r \in Runs : PhaseOf(r)' = PhaseOf(r)
    BY <2>1, <2>2, SamePhase DEF Starting
  <2>4. QED
    BY <2>3 DEF Phases
<1>2. CASE Launch(q)
  <2>1. reqRun[q] \in Runs /\ reqPc[q] = "starting"
    BY <1>2 DEF Launch, OwnerInv
  <2>2. \A p \in Requests : reqPc'[p] = IF p = q THEN "streaming" ELSE reqPc[p]
    BY <1>2 DEF Launch, TypeOK
  <2>3. \A r \in Runs : pc'[r] = IF r = reqRun[q] THEN "prep" ELSE pc[r]
    BY <1>2 DEF Launch, TypeOK
  <2>4. UNCHANGED <<status, reqRun>>
    BY <1>2 DEF Launch, recordVars
  <2>5. PhaseOf(reqRun[q]) = "executing"
    BY <2>1 DEF PhaseOf, Owned, Starting
  <2>6. PhaseOf(reqRun[q])' = "executing"
    BY <2>1, <2>3, <2>4 DEF PhaseOf, Owned, Alive, Awaiting
  <2>7. ASSUME NEW r \in Runs, r # reqRun[q]
        PROVE  PhaseOf(r)' = PhaseOf(r)
    <3>1. Starting(r)' <=> Starting(r)
      BY <2>1, <2>2, <2>4, <2>7 DEF Starting
    <3>2. QED
      BY <2>3, <2>4, <2>7, <3>1, SamePhase
  <2>8. \A r \in Runs : PhaseOf(r)' = PhaseOf(r)
    BY <2>1, <2>4, <2>5, <2>6, <2>7
  <2>9. QED
    BY <2>8 DEF Phases
<1>3. CASE Disconnect(q)
  BY <1>3 DEF Disconnect, Undisturbed
<1>4. ASSUME NEW r \in Runs, StartRun(q, r)
      PROVE  Contract!Begin(r)
  <2>1. reqPc[q] = "reserved" /\ status[r] \in {"absent", "created"} /\ pc' = pc
    BY <1>4 DEF StartRun
  <2>2. \A o \in Runs \ {r} : status'[o] = status[o]
    BY <1>4 DEF StartRun, CreateRun, Emit, TypeOK
  <2>3. /\ \A p \in Requests : reqPc'[p] = IF p = q THEN "starting" ELSE reqPc[p]
        /\ \A p \in Requests : reqRun'[p] = IF p = q THEN r ELSE reqRun[p]
    BY <1>4 DEF StartRun, TypeOK
  <2>4. \A o \in Runs : ~Owned(o)
    BY <2>1 DEF OwnerInv, InFlight, Owned, Starting
  <2>5. \A o \in Runs \ {r} : Starting(o)' <=> Starting(o)
    BY <2>1, <2>3 DEF Starting
  <2>6. \A o \in Runs \ {r} : PhaseOf(o)' = PhaseOf(o)
    BY <2>1, <2>2, <2>5, SamePhase
  <2>7. PhaseOf(r)' = "executing"
    BY <2>3 DEF PhaseOf, Owned, Starting
  <2>8. PhaseOf(r) \in {"unborn", "prepared"}
    <3>1. pc[r] = "none" /\ status[r] \notin FinishedStatuses
      BY <2>1 DEF StartInv, FinishedStatuses
    <3>2. QED
      BY <2>4, <3>1 DEF PhaseOf
  <2>9. \A o \in Runs : PhaseOf(o) # "executing"
    BY <2>4 DEF PhaseOf
  <2>10. Phases' = [Phases EXCEPT ![r] = "executing"]
    BY <2>6, <2>7 DEF Phases
  <2>11. QED
    BY <2>8, <2>9, <2>10 DEF Contract!Begin, Phases
<1>5. QED
  BY <1>1, <1>2, <1>3, <1>4 DEF RequestStep

LEMMA ControlPhase ==
    ASSUME TypeOK, NEW r \in Runs, Pause(r) \/ Resume(r)
    PROVE  UNCHANGED Phases
<1>1. \A o \in Runs : (Starting(o)' <=> Starting(o)) /\ pc'[o] = pc[o]
  BY ControlStatus DEF Starting, requestVars
<1>2. \A o \in Runs \ {r} : PhaseOf(o)' = PhaseOf(o)
  BY <1>1, ControlStatus, SamePhase
<1>3. PhaseOf(r)' = PhaseOf(r)
  <2>1. status[r] \notin FinishedStatuses \cup {"absent"}
    BY ControlStatus
  <2>2. status'[r] \notin FinishedStatuses \cup {"absent"}
    BY ControlStatus DEF FinishedStatuses
  <2>3. QED
    BY <1>1, <2>1, <2>2 DEF PhaseOf, Owned, Alive
<1>4. QED
  BY <1>2, <1>3 DEF Phases

LEMMA PreparePhase ==
    ASSUME TypeOK, StartInv, NEW source \in Runs, NEW r \in Runs, Prepare(source, r)
    PROVE  Contract!Prepare(r)
<1>1. status[r] = "absent" /\ pc[r] = "none" /\ UNCHANGED <<pc, reqPc, reqRun>>
  BY DEF Prepare, StartInv, requestVars
<1>2. \A o \in Runs : status'[o] = IF o = r THEN "created" ELSE status[o]
  BY DEF Prepare, CreateRun, TypeOK
<1>3. ~Starting(r) /\ \A o \in Runs : Starting(o)' <=> Starting(o)
  BY <1>1 DEF Starting, StartInv, ActiveStatuses
<1>4. \A o \in Runs \ {r} : PhaseOf(o)' = PhaseOf(o)
  BY <1>1, <1>2, <1>3, SamePhase
<1>5. PhaseOf(r) = "unborn"
  BY <1>1, <1>3 DEF PhaseOf, Owned, Alive, Awaiting, FinishedStatuses
<1>6. PhaseOf(r)' = "prepared"
  BY <1>1, <1>2, <1>3 DEF PhaseOf, Owned, Alive, Awaiting, FinishedStatuses
<1>7. Phases' = [Phases EXCEPT ![r] = "prepared"]
  BY <1>4, <1>6 DEF Phases
<1>8. QED
  BY <1>5, <1>7 DEF Contract!Prepare, Phases

LEMMA RestartPhase ==
    ASSUME TypeOK, OwnerInv, StartInv, Restart
    PROVE  Contract!Restart
<1> DEFINE gone == {r \in Runs : Phases[r] = "prepared" /\ PhaseOf(r)' = "over"}
<1>1. \A r \in Runs : status'[r] = RecoverRun(status[r])
                      /\ pc'[r] = IF Alive(r) THEN "ended" ELSE pc[r]
  BY DEF Restart
<1>2. \A r \in Runs : ~Owned(r)'
  BY <1>1 DEF Restart, Owned, Alive, Awaiting, Starting
<1>3. ASSUME NEW r \in Runs
      PROVE  PhaseOf(r)' = IF PhaseOf(r) = "executing" \/ r \in gone THEN "over" ELSE PhaseOf(r)
  <2>1. CASE Alive(r)
    BY <1>1, <1>2, <2>1 DEF PhaseOf, Owned
  <2>2. CASE Starting(r)
    <3>1. status[r] \in ActiveStatuses
      BY <2>2 DEF Starting, StartInv
    <3>2. status'[r] \in FinishedStatuses
      BY <1>1, <3>1 DEF RecoverRun, FinishedStatuses
    <3>3. QED
      BY <1>2, <2>2, <3>2 DEF PhaseOf, Owned
  <2>3. CASE ~Owned(r)
    <3>1. pc'[r] = pc[r]
      BY <1>1, <2>3 DEF Owned
    <3>2. status'[r] = status[r] \/ (status'[r] = "stopped" /\ status[r] \in ActiveStatuses)
      BY <1>1 DEF RecoverRun
    <3>3. CASE status'[r] = status[r]
      <4>1. PhaseOf(r)' = PhaseOf(r) /\ PhaseOf(r) # "executing"
        BY <1>2, <2>3, <3>1, <3>3 DEF PhaseOf
      <4>2. QED
        BY <4>1 DEF Phases
    <3>4. CASE status'[r] = "stopped" /\ status[r] \in ActiveStatuses
      <4>1. PhaseOf(r)' = "over"
        BY <1>2, <3>4 DEF PhaseOf, FinishedStatuses
      <4>2. PhaseOf(r) \in {"prepared", "over"}
        BY <2>3, <3>4 DEF PhaseOf, ActiveStatuses
      <4>3. QED
        BY <4>1, <4>2 DEF Phases
    <3>5. QED
      BY <3>2, <3>3, <3>4
  <2>4. QED
    BY <2>1, <2>2, <2>3 DEF Owned
<1>4. gone \in SUBSET {r \in Runs : Phases[r] = "prepared"}
  OBVIOUS
<1>5. Phases' = [r \in Runs |-> IF Phases[r] = "executing" \/ r \in gone
                               THEN "over" ELSE Phases[r]]
  <2> HIDE DEF gone
  <2>1. QED
    BY <1>3 DEF Phases
<1>6. QED
  BY <1>4, <1>5 DEF Contract!Restart, Phases

LEMMA InitPhase == Init => Contract!Init
<1> SUFFICES ASSUME Init PROVE Contract!Init
  OBVIOUS
<1>1. \A r \in Runs : PhaseOf(r) = "unborn"
  BY DEF Init, PhaseOf, Owned, Alive, Awaiting, Starting, FinishedStatuses
<1>2. QED
  BY <1>1 DEF Contract!Init

LEMMA NextPhase ==
    ASSUME Undisturbed, TypeOK, OwnerInv, StartInv, [Next]_vars
    PROVE  Contract!Next \/ UNCHANGED Phases
<1>1. ASSUME NEW r \in Runs PROVE ~Stop(r)
  BY DEF Stop, Undisturbed
<1>2. ASSUME UNCHANGED <<status, pc, reqPc, reqRun>>
      PROVE  UNCHANGED Phases
  <2>1. \A r \in Runs : PhaseOf(r)' = PhaseOf(r)
    BY <1>2, SamePhase DEF Starting
  <2>2. QED
    BY <2>1 DEF Phases
<1>3. ASSUME NEW a \in {"continue", "cancel"}, Answer(a)
      PROVE  UNCHANGED Phases
  BY <1>2, <1>3 DEF Answer, recordVars, requestVars
<1>4. CASE UNCHANGED vars
  BY <1>2, <1>4 DEF vars, recordVars, requestVars
<1>5. QED
  BY <1>1, <1>3, <1>4, ExecutorPhase, RequestPhase, ControlPhase, PreparePhase, RestartPhase
  DEF Next, Contract!Next

\* The handlers, the executors and the records together implement the contract
\* of the conversation: every run is born, executes at most once, alone, and is
\* over, and a restart leaves nothing executing.
THEOREM ContractImplemented ==
    ASSUME Undisturbed
    PROVE  Spec => ImplementsContract
<1>1. Init => TypeOK /\ OwnerInv /\ StartInv
  BY InitType, InitOwner
<1>2. TypeOK /\ OwnerInv /\ StartInv /\ [Next]_vars => (TypeOK /\ OwnerInv /\ StartInv)'
  BY NextType, NextOwner
<1>3. TypeOK /\ OwnerInv /\ StartInv /\ [Next]_vars => [Contract!Next]_Phases
  BY NextPhase
<1>4. QED
  BY <1>1, <1>2, <1>3, InitPhase, PTL DEF Spec, ImplementsContract, Contract!Spec, Phases

\* The prompt of an executor stays the conversation's prompt: in the absence of
\* a second executor nobody registers another one, and only its end removes it.
THEOREM PromptStaysAnswerable ==
    ASSUME Undisturbed
    PROVE  Spec => []PromptIsAnswerable
<1> DEFINE Inv == TypeOK /\ OwnerInv /\ StartInv /\ PromptIsAnswerable
<1>1. Init => Inv
  <2>1. Init => PromptIsAnswerable
    BY DEF Init, PromptIsAnswerable
  <2>2. QED
    BY <2>1, InitType, InitOwner
<1>2. Inv /\ [Next]_vars => Inv'
  <2> SUFFICES ASSUME Inv, [Next]_vars PROVE PromptIsAnswerable'
    BY NextType, NextOwner
  <2>1. ASSUME NEW r \in Runs, ExecutorStep(r)
        PROVE  PromptIsAnswerable'
    <3>1. ExecutorEffect(r)
      BY <2>1, ExecutorStepEffect
    <3>2. ASSUME NEW o \in Runs, o # r
          PROVE  pc'[o] # "confirm"
      <4>1. ~Alive(o)
        BY <3>1, <3>2, OwnerExclusive DEF ExclusiveExecution, ExecutorEffect, Owned
      <4>2. QED
        BY <3>1, <3>2, <4>1, ExecutorFrame DEF Alive, Awaiting
    <3>3. QED
      BY <3>1, <3>2 DEF PromptIsAnswerable, ExecutorEffect
  <2>2. ASSUME NEW q \in Requests, RequestStep(q)
        PROVE  PromptIsAnswerable'
    <3>1. pending' = pending
      BY <2>2 DEF RequestStep, Accept, Reject, Launch, Finish, Disconnect, StartRun, confirmVars
    <3>2. \A r \in Runs : pc'[r] \in {pc[r], "prep"}
      BY <2>2 DEF RequestStep, Accept, Reject, Launch, Finish, Disconnect, StartRun, TypeOK
    <3>3. QED
      BY <3>1, <3>2 DEF PromptIsAnswerable
  <2>3. ASSUME UNCHANGED <<pc, pending>> PROVE PromptIsAnswerable'
    BY <2>3 DEF PromptIsAnswerable
  <2>4. ASSUME NEW r \in Runs, Pause(r) \/ Resume(r) \/ Stop(r)
        PROVE  PromptIsAnswerable'
    BY <2>3, <2>4 DEF Pause, Resume, Stop, Undisturbed, confirmVars
  <2>5. ASSUME NEW source \in Runs, NEW r \in Runs, Prepare(source, r)
        PROVE  PromptIsAnswerable'
    BY <2>3, <2>5 DEF Prepare, confirmVars
  <2>6. ASSUME NEW a \in {"continue", "cancel"}, Answer(a)
        PROVE  PromptIsAnswerable'
    BY <2>3, <2>6 DEF Answer
  <2>7. CASE Restart
    BY <2>7 DEF Restart, PromptIsAnswerable, Alive, Awaiting
  <2>8. CASE UNCHANGED vars
    BY <2>3, <2>8 DEF vars, confirmVars
  <2>9. QED
    BY <2>1, <2>2, <2>4, <2>5, <2>6, <2>7, <2>8 DEF Next
<1>3. Inv => PromptIsAnswerable
  OBVIOUS
<1>4. QED
  BY <1>1, <1>2, <1>3, PTL DEF Spec

-----------------------------------------------------------------------------
(* The launch of a run and its end, under every control. *)

\* A request that is about to launch a run has it for itself, and the run has
\* never executed: the status it was claimed with never comes back.
LaunchInv ==
    /\ \A q \in Requests : reqPc[q] = "starting" =>
          /\ reqRun[q] \in Runs /\ pc[reqRun[q]] = "none"
          /\ status[reqRun[q]] \notin {"absent", "created"}
    /\ \A q, p \in Requests :
          reqPc[q] = "starting" /\ reqPc[p] = "starting" /\ reqRun[q] = reqRun[p] => q = p
    /\ \A r \in Runs : status[r] \in {"absent", "created"} => pc[r] = "none"

LEMMA InitLaunch == Init => LaunchInv
BY DEF Init, LaunchInv

LEMMA ExecutorLaunch ==
    ASSUME TypeOK, LaunchInv, NEW r \in Runs, ExecutorStep(r)
    PROVE  LaunchInv'
<1>1. ExecutorEffect(r)
  BY ExecutorStepEffect
<1>2. Alive(r) /\ UNCHANGED <<reqPc, reqRun>>
  BY <1>1 DEF ExecutorEffect, requestVars
<1>3. ASSUME NEW q \in Requests, reqPc[q] = "starting"
      PROVE  reqRun[q] \in Runs \ {r}
  BY <1>2, <1>3 DEF LaunchInv, Alive, Awaiting
<1>4. status'[r] \notin {"absent", "created"}
  <2>1. status[r] \notin {"absent", "created"}
    BY <1>2 DEF LaunchInv, Alive, Awaiting
  <2>2. QED
    BY <1>1, <2>1 DEF ExecutorEffect, Records, Emit, TypeOK, recordVars
<1>5. QED
  BY <1>1, <1>2, <1>3, <1>4, ExecutorFrame DEF LaunchInv

LEMMA RequestLaunch ==
    ASSUME TypeOK, LaunchInv, NEW q \in Requests, RequestStep(q)
    PROVE  LaunchInv'
<1>1. CASE Accept(q) \/ Reject(q) \/ Finish(q) \/ Disconnect(q)
  <2>1. UNCHANGED <<status, pc, reqRun>>
    BY <1>1 DEF Accept, Reject, Finish, Disconnect, recordVars
  <2>2. \A p \in Requests : reqPc'[p] = "starting" => reqPc[p] = "starting"
    BY <1>1 DEF Accept, Reject, Finish, Disconnect, TypeOK
  <2>3. QED
    BY <2>1, <2>2 DEF LaunchInv
<1>2. CASE Launch(q)
  <2>1. reqRun[q] \in Runs /\ reqPc[q] = "starting"
    BY <1>2 DEF Launch, LaunchInv
  <2>2. \A p \in Requests : reqPc'[p] = IF p = q THEN "streaming" ELSE reqPc[p]
    BY <1>2 DEF Launch, TypeOK
  <2>3. \A r \in Runs : pc'[r] = IF r = reqRun[q] THEN "prep" ELSE pc[r]
    BY <1>2 DEF Launch, TypeOK
  <2>4. UNCHANGED <<status, reqRun>>
    BY <1>2 DEF Launch, recordVars
  <2>5. QED
    BY <2>1, <2>2, <2>3, <2>4 DEF LaunchInv
<1>3. ASSUME NEW r \in Runs, StartRun(q, r)
      PROVE  LaunchInv'
  <2>1. status[r] \in {"absent", "created"} /\ pc[r] = "none" /\ pc' = pc
    BY <1>3 DEF StartRun, LaunchInv
  <2>2. \A o \in Runs \ {r} : status'[o] = status[o]
    BY <1>3 DEF StartRun, CreateRun, Emit, TypeOK
  <2>3. status'[r] = "running"
    <3>1. RecordEvent("created", StatusEvent("resumed")) = "running"
      BY DEF RecordEvent, StatusEvent, AfterStatus
    <3>2. QED
      BY <1>3, <3>1 DEF StartRun, CreateRun, Emit, TypeOK
  <2>4. /\ \A p \in Requests : reqPc'[p] = IF p = q THEN "starting" ELSE reqPc[p]
        /\ \A p \in Requests : reqRun'[p] = IF p = q THEN r ELSE reqRun[p]
    BY <1>3 DEF StartRun, TypeOK
  <2>5. \A p \in Requests : reqPc[p] = "starting" => reqRun[p] # r
    BY <2>1 DEF LaunchInv
  <2>6. QED
    BY <2>1, <2>2, <2>3, <2>4, <2>5 DEF LaunchInv
<1>4. QED
  BY <1>1, <1>2, <1>3 DEF RequestStep

LEMMA UserLaunch ==
    ASSUME TypeOK, LaunchInv, NEW r \in Runs, Pause(r) \/ Resume(r) \/ Stop(r)
    PROVE  LaunchInv'
<1>1. /\ status'[r] \notin {"absent", "created"}
      /\ \A o \in Runs \ {r} : status'[o] = status[o]
  <2>1. PICK word : Emit(r, RecordEvent(status[r], StatusEvent(word)))
    BY DEF Pause, Resume, Stop
  <2>2. RecordEvent(status[r], StatusEvent(word)) \in RunStatuses \ {"created"}
    BY RecordStatus DEF TypeOK, Recorded
  <2>3. QED
    BY <2>1, <2>2 DEF Emit, TypeOK, RunStatuses
<1>2. UNCHANGED <<reqPc, reqRun>>
  BY DEF Pause, Resume, Stop, requestVars
<1>3. \A o \in Runs : pc'[o] = pc[o] \/ (o = r /\ Alive(r))
  BY DEF Pause, Resume, Stop, Cancelled, GoTo, TypeOK
<1>4. \A o \in Runs : pc[o] = "none" => pc'[o] = "none"
  BY <1>3 DEF Alive, Awaiting
<1>5. QED
  BY <1>1, <1>2, <1>4 DEF LaunchInv

LEMMA NextLaunch == TypeOK /\ LaunchInv /\ [Next]_vars => LaunchInv'
<1> SUFFICES ASSUME TypeOK, LaunchInv, [Next]_vars PROVE LaunchInv'
  OBVIOUS
<1>1. ASSUME NEW source \in Runs, NEW r \in Runs, Prepare(source, r)
      PROVE  LaunchInv'
  <2>1. \A o \in Runs : status'[o] = IF o = r THEN "created" ELSE status[o]
    BY <1>1 DEF Prepare, CreateRun, TypeOK
  <2>2. status[r] = "absent" /\ UNCHANGED <<pc, reqPc, reqRun>>
    BY <1>1 DEF Prepare, requestVars
  <2>3. QED
    BY <2>1, <2>2 DEF LaunchInv
<1>2. ASSUME NEW a \in {"continue", "cancel"}, Answer(a)
      PROVE  LaunchInv'
  BY <1>2 DEF Answer, LaunchInv, recordVars, requestVars
<1>3. CASE Restart
  <2>1. \A q \in Requests : reqPc'[q] # "starting"
    BY <1>3 DEF Restart
  <2>2. \A r \in Runs : status'[r] \in {"absent", "created"} => status[r] = status'[r]
    BY <1>3 DEF Restart, RecoverRun
  <2>3. \A r \in Runs : pc[r] = "none" => pc'[r] = "none"
    BY <1>3 DEF Restart, Alive, Awaiting
  <2>4. QED
    BY <2>1, <2>2, <2>3 DEF LaunchInv
<1>4. CASE UNCHANGED vars
  BY <1>4 DEF LaunchInv, vars, recordVars, requestVars
<1>5. QED
  BY <1>1, <1>2, <1>3, <1>4, ExecutorLaunch, RequestLaunch, UserLaunch DEF Next

\* No run is launched twice, however many requests name it and whatever else
\* happens: of two requests that name a prepared run the second finds it started.
THEOREM NoSecondLaunch == Spec => LaunchedOnce
<1>1. TypeOK /\ LaunchInv /\ [Next]_vars =>
        [\A q \in Requests : reqPc[q] = "starting" /\ reqPc'[q] = "streaming" =>
            pc[reqRun[q]] = "none"]_vars
  BY DEF LaunchInv
<1>2. QED
  BY <1>1, InitType, NextType, InitLaunch, NextLaunch, PTL DEF Spec, LaunchedOnce

-----------------------------------------------------------------------------
(* The record of a run once nothing executes it.                           *)

\* A user's action: the record it finds and the one it leaves.
LEMMA UserRecords ==
    ASSUME TypeOK, NEW r \in Runs, Pause(r) \/ Resume(r) \/ Stop(r)
    PROVE  /\ status[r] \notin FinishedStatuses \cup {"absent"}
           /\ status'[r] \in RunStatuses \ {"created"}
           /\ \A o \in Runs \ {r} : status'[o] = status[o]
<1>1. PICK word : Emit(r, RecordEvent(status[r], StatusEvent(word)))
  BY DEF Pause, Resume, Stop
<1>2. RecordEvent(status[r], StatusEvent(word)) \in RunStatuses \ {"created"}
  BY RecordStatus DEF TypeOK, Recorded
<1>3. status[r] \notin FinishedStatuses \cup {"absent"}
  BY DEF Pause, Resume, Stop, FinishedStatuses
<1>4. QED
  BY <1>1, <1>2, <1>3 DEF Emit, TypeOK

\* A request changes the record of a run only when it starts it.
LEMMA RequestRecords ==
    ASSUME TypeOK, NEW q \in Requests, RequestStep(q), NEW o \in Runs, status'[o] # status[o]
    PROVE  status[o] \in {"absent", "created"} /\ StartRun(q, o) /\ status'[o] = "running"
<1>1. PICK r \in Runs : StartRun(q, r)
  BY DEF RequestStep, Accept, Reject, Launch, Finish, Disconnect, recordVars
<1>2. status[r] \in {"absent", "created"} /\ status'[r] = "running"
  <2>1. RecordEvent("created", StatusEvent("resumed")) = "running"
    BY DEF RecordEvent, StatusEvent, AfterStatus
  <2>2. QED
    BY <1>1, <2>1 DEF StartRun, CreateRun, Emit, TypeOK
<1>3. o = r
  BY <1>1 DEF StartRun, CreateRun, Emit, TypeOK
<1>4. QED
  BY <1>1, <1>2, <1>3

\* No step changes the record of a finished run that has no executor.
LEMMA FinishedStays ==
    ASSUME TypeOK, [Next]_vars, NEW o \in Runs, status[o] \in FinishedStatuses, ~Owned(o)
    PROVE  status'[o] = status[o]
<1>1. ASSUME NEW r \in Runs, ExecutorStep(r)
      PROVE  status'[o] = status[o]
  <2>1. ExecutorEffect(r)
    BY <1>1, ExecutorStepEffect
  <2>2. o \in Runs \ {r}
    BY <2>1 DEF ExecutorEffect, Owned
  <2>3. QED
    BY <2>1, <2>2, ExecutorFrame
<1>2. ASSUME NEW q \in Requests, RequestStep(q)
      PROVE  status'[o] = status[o]
  BY <1>2, RequestRecords DEF FinishedStatuses
<1>3. ASSUME NEW r \in Runs, Pause(r) \/ Resume(r) \/ Stop(r)
      PROVE  status'[o] = status[o]
  BY <1>3, UserRecords
<1>4. ASSUME NEW source \in Runs, NEW r \in Runs, Prepare(source, r)
      PROVE  status'[o] = status[o]
  BY <1>4 DEF Prepare, CreateRun, TypeOK, FinishedStatuses
<1>5. ASSUME NEW a \in {"continue", "cancel"}, Answer(a)
      PROVE  status'[o] = status[o]
  BY <1>5 DEF Answer, recordVars
<1>6. CASE Restart
  BY <1>6 DEF Restart, RecoverRun, FinishedStatuses, ActiveStatuses
<1>7. CASE UNCHANGED vars
  BY <1>7 DEF vars, recordVars
<1>8. QED
  BY <1>1, <1>2, <1>3, <1>4, <1>5, <1>6, <1>7 DEF Next

\* The record of a finished run that nothing executes is never written again,
\* whatever users, clients and crashes do (record_event, _pause, _stop, _resume).
THEOREM FinishedStaysFinished == Spec => FinishedIsFinal
<1>1. TypeOK /\ [Next]_vars =>
        [\A r \in Runs : status[r] \in FinishedStatuses /\ ~Owned(r) =>
            status'[r] = status[r]]_vars
  BY FinishedStays
<1>2. QED
  BY <1>1, InitType, NextType, PTL DEF Spec, FinishedIsFinal

-----------------------------------------------------------------------------
(* The end of an executor, while nobody stops a run.                       *)

\* A crash ends an executor too, and recovery then finishes its record.
LEMMA RestartFinishes ==
    ASSUME TypeOK, LaunchInv, EndedRunIsFinished, Restart
    PROVE  EndedRunIsFinished'
<1> SUFFICES ASSUME NEW o \in Runs, pc'[o] = "ended"
             PROVE  status'[o] \in FinishedStatuses
  BY DEF EndedRunIsFinished
<1>1. status'[o] = RecoverRun(status[o]) /\ status[o] \in Recorded
  BY DEF Restart, TypeOK, Recorded
<1>2. status[o] \notin {"absent", "created"}
  <2>1. pc[o] # "none"
    BY DEF Restart, Alive, Awaiting
  <2>2. QED
    BY <2>1 DEF LaunchInv
<1>3. QED
  BY <1>1, <1>2 DEF RecoverRun, Recorded, RunStatuses, ActiveStatuses, FinishedStatuses

LEMMA NextEnded ==
    ASSUME "stop" \notin Controls, TypeOK, LaunchInv, EndedRunIsFinished, [Next]_vars
    PROVE  EndedRunIsFinished'
<1>1. ASSUME NEW r \in Runs, ExecutorStep(r)
      PROVE  EndedRunIsFinished'
  <2>1. ExecutorEffect(r)
    BY <1>1, ExecutorStepEffect
  <2>2. pc'[r] = "ended" => status'[r] \in FinishedStatuses
    <3>1. CASE Ends(r)
      BY <3>1 DEF Ends, Emit, TypeOK
    <3>2. CASE Moves(r) \/ UNCHANGED pc
      BY <2>1, <3>2 DEF Moves, GoTo, TypeOK, ExecutorEffect, Alive, Awaiting
    <3>3. QED
      BY <2>1, <3>1, <3>2 DEF ExecutorEffect
  <2>3. QED
    BY <2>1, <2>2, ExecutorFrame DEF EndedRunIsFinished
<1>2. ASSUME \A o \in Runs : pc'[o] = "ended" => pc[o] = "ended",
             \A o \in Runs : status[o] \in FinishedStatuses => status'[o] = status[o]
      PROVE  EndedRunIsFinished'
  BY <1>2 DEF EndedRunIsFinished
<1>3. ASSUME NEW q \in Requests, RequestStep(q)
      PROVE  EndedRunIsFinished'
  <2>1. \A o \in Runs : status[o] \in FinishedStatuses => status'[o] = status[o]
    BY <1>3, RequestRecords DEF FinishedStatuses
  <2>2. \A o \in Runs : pc'[o] \in {pc[o], "prep"}
    BY <1>3 DEF RequestStep, Accept, Reject, Launch, Finish, Disconnect, StartRun, TypeOK
  <2>3. QED
    BY <1>2, <2>1, <2>2
<1>4. ASSUME NEW r \in Runs, Pause(r) \/ Resume(r) \/ Stop(r)
      PROVE  EndedRunIsFinished'
  <2>1. pc' = pc
    BY <1>4 DEF Pause, Resume, Stop
  <2>2. \A o \in Runs : status[o] \in FinishedStatuses => status'[o] = status[o]
    BY <1>4, UserRecords
  <2>3. QED
    BY <1>2, <2>1, <2>2
<1>5. ASSUME NEW source \in Runs, NEW r \in Runs, Prepare(source, r)
      PROVE  EndedRunIsFinished'
  BY <1>2, <1>5 DEF Prepare, CreateRun, TypeOK, FinishedStatuses
<1>6. ASSUME NEW a \in {"continue", "cancel"}, Answer(a)
      PROVE  EndedRunIsFinished'
  BY <1>2, <1>6 DEF Answer, recordVars
<1>7. CASE UNCHANGED vars
  BY <1>2, <1>7 DEF vars, recordVars
<1>8. QED
  BY <1>1, <1>3, <1>4, <1>5, <1>6, <1>7, RestartFinishes DEF Next

\* A run whose executor has ended is recorded as finished, also when its client has
\* gone or the process has died.  A stop breaks it: record_event leaves a paused run
\* paused when it is stopped.
THEOREM EndFinishes ==
    ASSUME "stop" \notin Controls
    PROVE  Spec => []EndedRunIsFinished
<1>1. Init => EndedRunIsFinished
  BY DEF Init, EndedRunIsFinished
<1>2. TypeOK /\ LaunchInv /\ EndedRunIsFinished /\ [Next]_vars => EndedRunIsFinished'
  BY NextEnded
<1>3. QED
  BY <1>1, <1>2, InitType, NextType, InitLaunch, NextLaunch, PTL DEF Spec

-----------------------------------------------------------------------------
(* Runs recorded as going on.                                              *)

\* Either nobody resumes a run, or nobody prepares and nobody stops one: a prepared
\* run, or one stopped while it is paused, would be resumed without an executor.
ResumesAreOwned == "resume" \notin Controls \/ Controls \cap {"prepare", "stop"} = {}

\* RunningRunIsOwned is not inductive when runs are resumed: then a paused run must
\* have its executor too, and no run may be there to be paused before it starts.
GoingInv ==
    /\ RunningRunIsOwned
    /\ "resume" \in Controls =>
          \A r \in Runs : (status[r] = "paused" => Owned(r)) /\ status[r] # "created"

\* A request leaves every executor, and every start of one, in existence.
LEMMA RequestKeepsOwned ==
    ASSUME TypeOK, LaunchInv, NEW q \in Requests, RequestStep(q), NEW o \in Runs, Owned(o)
    PROVE  Owned(o)'
<1>1. CASE Alive(o)
  <2>1. pc'[o] \in {pc[o], "prep"}
    BY DEF RequestStep, Accept, Reject, Launch, Finish, Disconnect, StartRun, TypeOK
  <2>2. QED
    BY <1>1, <2>1 DEF Owned, Alive, Awaiting
<1>2. ASSUME NEW p \in Requests, reqPc[p] = "starting", reqRun[p] = o
      PROVE  Owned(o)'
  <2>1. CASE p = q /\ Launch(q)
    BY <1>2, <2>1 DEF Launch, TypeOK, Owned, Alive, Awaiting
  <2>2. CASE ~(p = q /\ Launch(q))
    <3>1. reqPc'[p] = "starting" /\ reqRun'[p] = o
      BY <1>2, <2>2 DEF RequestStep, Accept, Reject, Launch, Finish, Disconnect, StartRun, TypeOK
    <3>2. QED
      BY <3>1 DEF Owned, Starting
  <2>3. QED
    BY <2>1, <2>2
<1>3. QED
  BY <1>1, <1>2 DEF Owned, Starting

LEMMA ExecutorGoing ==
    ASSUME TypeOK, LaunchInv, GoingInv, NEW r \in Runs, ExecutorStep(r)
    PROVE  GoingInv'
<1>1. ExecutorEffect(r)
  BY ExecutorStepEffect
<1>2. UNCHANGED <<reqPc, reqRun>>
  BY <1>1 DEF ExecutorEffect, requestVars
<1>3. status'[r] \in FinishedStatuses \/ Owned(r)'
  <2>1. CASE Ends(r)
    BY <2>1 DEF Ends, Emit, TypeOK
  <2>2. CASE Moves(r) \/ UNCHANGED pc
    BY <1>1, <2>2 DEF Moves, GoTo, TypeOK, ExecutorEffect, Alive, Owned
  <2>3. QED
    BY <1>1, <2>1, <2>2 DEF ExecutorEffect
<1>4. \A o \in Runs \ {r} : status'[o] = status[o] /\ (Owned(o) => Owned(o)')
  BY <1>1, <1>2, ExecutorFrame DEF Owned, Alive, Starting
<1>5. status'[r] # "created"
  <2>1. status[r] \notin {"absent", "created"}
    BY <1>1 DEF ExecutorEffect, LaunchInv, Alive, Awaiting
  <2>2. QED
    BY <1>1, <2>1 DEF ExecutorEffect, Records, Emit, TypeOK, recordVars
<1>6. QED
  BY <1>3, <1>4, <1>5 DEF GoingInv, RunningRunIsOwned, FinishedStatuses

LEMMA RequestGoing ==
    ASSUME TypeOK, LaunchInv, GoingInv, NEW q \in Requests, RequestStep(q)
    PROVE  GoingInv'
<1>1. \A o \in Runs : Owned(o) => Owned(o)'
  BY RequestKeepsOwned
<1>2. ASSUME NEW o \in Runs, status'[o] # status[o]
      PROVE  status'[o] = "running" /\ Owned(o)'
  <2>1. StartRun(q, o) /\ status'[o] = "running"
    BY <1>2, RequestRecords
  <2>2. QED
    BY <2>1 DEF StartRun, TypeOK, Owned, Starting
<1>3. QED
  BY <1>1, <1>2 DEF GoingInv, RunningRunIsOwned

\* A stop leaves no record that says the run is going on.
LEMMA StopRecords ==
    ASSUME TypeOK, NEW r \in Runs, Stop(r)
    PROVE  status'[r] \in {"stopped", "paused"}
<1>1. status[r] \in RunStatuses
  BY DEF Stop, TypeOK
<1>2. RecordEvent(status[r], StatusEvent("stopped")) \in {"stopped", "paused"}
  BY <1>1 DEF RecordEvent, StatusEvent, AfterStatus, RunStatuses
<1>3. QED
  BY <1>2 DEF Stop, Emit, TypeOK

LEMMA UserGoing ==
    ASSUME ResumesAreOwned, TypeOK, GoingInv, NEW r \in Runs, Pause(r) \/ Resume(r) \/ Stop(r)
    PROVE  GoingInv'
<1>1. /\ \A o \in Runs \ {r} : status'[o] = status[o] /\ pc'[o] = pc[o]
      /\ UNCHANGED <<reqPc, reqRun>>
  BY UserRecords DEF Pause, Resume, Stop, Cancelled, GoTo, TypeOK, requestVars
<1>2. \A o \in Runs \ {r} : status'[o] = status[o] /\ (Owned(o) => Owned(o)')
  BY <1>1 DEF Owned, Alive, Starting
<1>3. status'[r] # "created"
  BY UserRecords
<1>4. CASE Pause(r) \/ Resume(r)
  <2>1. pc' = pc /\ status'[r] \in {"paused", "running"}
    BY <1>4, ControlStatus
  <2>2. Owned(r) => Owned(r)'
    BY <1>1, <2>1 DEF Owned, Alive, Starting
  <2>3. CASE Pause(r)
    <3>1. status'[r] = "paused"
      <4>1. status[r] \in RunStatuses
        BY <2>3 DEF Pause, TypeOK
      <4>2. QED
        BY <2>3, <4>1, PauseRecords DEF Pause, Emit, TypeOK
    <3>2. "resume" \in Controls => status[r] \in {"running", "waiting_confirmation"}
      BY <2>3 DEF Pause, TypeOK, GoingInv, RunStatuses, FinishedStatuses
    <3>3. QED
      BY <1>2, <2>2, <3>1, <3>2 DEF GoingInv, RunningRunIsOwned
  <2>4. CASE Resume(r)
    <3>1. Owned(r)
      BY <2>4 DEF Resume, GoingInv
    <3>2. QED
      BY <1>2, <1>3, <2>2, <3>1 DEF GoingInv, RunningRunIsOwned
  <2>5. QED
    BY <1>4, <2>3, <2>4
<1>5. CASE Stop(r)
  <2>1. "resume" \notin Controls
    BY <1>5 DEF Stop, ResumesAreOwned
  <2>2. status'[r] \in {"stopped", "paused"}
    BY <1>5, StopRecords
  <2>3. QED
    BY <1>2, <2>1, <2>2 DEF GoingInv, RunningRunIsOwned
<1>6. QED
  BY <1>4, <1>5

LEMMA NextGoing ==
    ASSUME ResumesAreOwned, TypeOK, LaunchInv, GoingInv, [Next]_vars
    PROVE  GoingInv'
<1>1. ASSUME NEW source \in Runs, NEW r \in Runs, Prepare(source, r)
      PROVE  GoingInv'
  <2>1. "resume" \notin Controls
    BY <1>1 DEF Prepare, ResumesAreOwned
  <2>2. \A o \in Runs : status'[o] = IF o = r THEN "created" ELSE status[o]
    BY <1>1 DEF Prepare, CreateRun, TypeOK
  <2>3. UNCHANGED <<pc, reqPc, reqRun>>
    BY <1>1 DEF Prepare, requestVars
  <2>4. QED
    BY <2>1, <2>2, <2>3 DEF GoingInv, RunningRunIsOwned, Owned, Alive, Starting
<1>2. ASSUME NEW a \in {"continue", "cancel"}, Answer(a)
      PROVE  GoingInv'
  BY <1>2 DEF Answer, GoingInv, RunningRunIsOwned, Owned, Alive, Starting, recordVars, requestVars
<1>3. CASE Restart
  <2>1. \A o \in Runs : status'[o] \notin ActiveStatuses /\ (status'[o] = "created" => status[o] = "created")
    BY <1>3 DEF Restart, RecoverRun, ActiveStatuses
  <2>2. QED
    BY <2>1 DEF GoingInv, RunningRunIsOwned, ActiveStatuses
<1>4. CASE UNCHANGED vars
  BY <1>4 DEF vars, GoingInv, RunningRunIsOwned, Owned, Alive, Starting, recordVars, requestVars
<1>5. QED
  BY <1>1, <1>2, <1>3, <1>4, ExecutorGoing, RequestGoing, UserGoing DEF Next

\* A run recorded as going on has an executor or is about to get one, when its
\* client leaves and after a crash as well.
THEOREM GoingRunsHaveExecutors ==
    ASSUME ResumesAreOwned
    PROVE  Spec => []RunningRunIsOwned
<1>1. Init => GoingInv
  BY DEF Init, GoingInv, RunningRunIsOwned
<1>2. TypeOK /\ LaunchInv /\ GoingInv /\ [Next]_vars => GoingInv'
  BY NextGoing
<1>3. GoingInv => RunningRunIsOwned
  BY DEF GoingInv
<1>4. QED
  BY <1>1, <1>2, <1>3, InitType, NextType, InitLaunch, NextLaunch, PTL DEF Spec

-----------------------------------------------------------------------------
(* A stop at a prompt, where a cancellation is never dropped.              *)

\* An executor that comes to a prompt has just recorded that it waits there.
LEMMA BatchPrompts ==
    ASSUME TypeOK, NEW r \in Runs, pc'[r] = "confirm",
           NEW s, NEW n, BeginRound(r, s) \/ StartTools(r, s, n) \/ NextTool(r, s, n)
    PROVE  status'[r] = "waiting_confirmation"
<1>1. ASSUME NEW t, BeginRound(r, t)
      PROVE  FALSE
  BY <1>1 DEF BeginRound, Park, EnterModel, GoTo, TypeOK
<1>2. ASSUME StartTools(r, s, n)
      PROVE  status'[r] = "waiting_confirmation"
  <2>1. PICK t : GoTo(r, "tool") \/ Emit(r, RecordEvent(t, ConfirmEvent))
    BY <1>1, <1>2 DEF StartTools
  <2>2. Emit(r, RecordEvent(t, ConfirmEvent))
    BY <2>1 DEF GoTo, TypeOK
  <2>3. RecordEvent(t, ConfirmEvent) = "waiting_confirmation"
    BY DEF RecordEvent, ConfirmEvent
  <2>4. QED
    BY <2>2, <2>3 DEF Emit, TypeOK
<1>3. QED
  BY <1>1, <1>2 DEF NextTool, Park, GoTo, TypeOK

LEMMA PromptRecords ==
    ASSUME TypeOK, NEW r \in Runs, ExecutorStep(r), pc'[r] = "confirm"
    PROVE  status'[r] = "waiting_confirmation"
<1>1. ASSUME NEW label, label # "confirm", GoTo(r, label)
      PROVE  FALSE
  BY <1>1 DEF GoTo, TypeOK
<1>2. CASE Prepared(r)
  BY <1>2, BatchPrompts DEF Prepared
<1>3. CASE Rejudged(r) \/ Finalized(r) \/ ExecutorFailed(r)
  BY <1>1, <1>3 DEF Rejudged, Finalized, ExecutorFailed
<1>4. CASE ModelAnswered(r)
  BY <1>1, <1>4, BatchPrompts DEF ModelAnswered
<1>5. CASE ToolFinished(r)
  BY <1>5, BatchPrompts DEF ToolFinished
<1>6. CASE ConfirmReturned(r)
  BY <1>1, <1>6, BatchPrompts DEF ConfirmReturned
<1>7. CASE Woken(r)
  BY <1>1, <1>7, BatchPrompts DEF Woken, EnterModel
<1>8. QED
  BY <1>2, <1>3, <1>4, <1>5, <1>6, <1>7 DEF ExecutorStep

\* What a stop relies on.  A run is started by one request, which has it registered
\* until the request's client leaves; so an executor that a client attends is found
\* and cancelled.
AttendInv ==
    /\ \A q \in Requests : reqRun[q] \in Runs => status[reqRun[q]] \notin {"absent", "created"}
    /\ \A q, p \in Requests : reqRun[q] \in Runs /\ reqRun[q] = reqRun[p] => q = p
    /\ \A r \in Runs : Alive(r) /\ Attended(r) => registered[r]
    /\ StopEndsPrompt

LEMMA ExecutorAttend ==
    ASSUME TypeOK, LaunchInv, AttendInv, NEW r \in Runs, ExecutorStep(r)
    PROVE  AttendInv'
<1>1. ExecutorEffect(r)
  BY ExecutorStepEffect
<1>2. Alive(r) /\ UNCHANGED <<registered, reqRun, closed>>
  BY <1>1 DEF ExecutorEffect, requestVars
<1>3. \A o \in Runs \ {r} : status'[o] = status[o] /\ pc'[o] = pc[o]
  BY <1>1, ExecutorFrame
<1>4. status'[r] \notin {"absent", "created"}
  <2>1. status[r] \notin {"absent", "created"}
    BY <1>2 DEF LaunchInv, Alive, Awaiting
  <2>2. QED
    BY <1>1, <2>1 DEF ExecutorEffect, Records, Emit, TypeOK, recordVars
<1>5. \A o \in Runs : (Alive(o)' => Alive(o)) /\ (Attended(o)' => Attended(o))
  BY <1>2, <1>3 DEF Alive, Attended
<1>6. StopEndsPrompt'
  <2>1. pc'[r] = "confirm" => status'[r] = "waiting_confirmation"
    BY PromptRecords
  <2>2. QED
    BY <1>3, <1>5, <2>1 DEF AttendInv, StopEndsPrompt
<1>7. /\ \A q \in Requests : reqRun'[q] \in Runs => status'[reqRun'[q]] \notin {"absent", "created"}
      /\ \A q, p \in Requests : reqRun'[q] \in Runs /\ reqRun'[q] = reqRun'[p] => q = p
  BY <1>2, <1>3, <1>4 DEF AttendInv
<1>8. QED
  BY <1>2, <1>5, <1>6, <1>7 DEF AttendInv

LEMMA RequestAttend ==
    ASSUME TypeOK, LaunchInv, AttendInv, NEW q \in Requests, RequestStep(q)
    PROVE  AttendInv'
<1>1. ASSUME UNCHANGED <<status, pc, registered, reqRun>>,
             \A p \in Requests : closed[p] => closed'[p]
      PROVE  AttendInv'
  <2>1. \A o \in Runs : (Alive(o)' => Alive(o)) /\ (Attended(o)' => Attended(o))
    BY <1>1 DEF Alive, Attended
  <2>2. QED
    BY <1>1, <2>1 DEF AttendInv, StopEndsPrompt
<1>2. CASE Accept(q) \/ Reject(q) \/ Disconnect(q)
  BY <1>1, <1>2 DEF Accept, Reject, Disconnect, TypeOK, recordVars
<1>3. CASE Launch(q)
  <2>1. reqRun[q] \in Runs
    BY <1>3 DEF Launch, LaunchInv
  <2>2. /\ \A o \in Runs : pc'[o] = IF o = reqRun[q] THEN "prep" ELSE pc[o]
        /\ \A o \in Runs : registered'[o] = IF o = reqRun[q] THEN TRUE ELSE registered[o]
        /\ UNCHANGED <<status, reqRun, closed>>
    BY <1>3, <2>1 DEF Launch, TypeOK, recordVars
  <2>3. QED
    BY <2>1, <2>2 DEF AttendInv, StopEndsPrompt, Alive, Attended
<1>4. CASE Finish(q)
  <2>1. UNCHANGED <<status, pc, reqRun, closed>>
    BY <1>4 DEF Finish, recordVars
  <2>2. ASSUME NEW o \in Runs, Alive(o), Attended(o)
        PROVE  registered'[o]
    <3>1. registered[o]
      BY <2>2 DEF AttendInv
    <3>2. reqRun[q] # o
      BY <1>4, <2>2 DEF Finish, AttendInv, Attended, Alive, Awaiting
    <3>3. QED
      BY <1>4, <3>1, <3>2 DEF Finish, TypeOK
  <2>3. QED
    BY <2>1, <2>2 DEF AttendInv, StopEndsPrompt, Alive, Attended
<1>5. ASSUME NEW r \in Runs, StartRun(q, r)
      PROVE  AttendInv'
  <2>1. /\ UNCHANGED <<pc, registered, closed>>
        /\ \A p \in Requests : reqRun'[p] = IF p = q THEN r ELSE reqRun[p]
    BY <1>5 DEF StartRun, TypeOK
  <2>2. status[r] \in {"absent", "created"} /\ status'[r] = "running"
        /\ \A o \in Runs \ {r} : status'[o] = status[o]
    <3>1. RecordEvent("created", StatusEvent("resumed")) = "running"
      BY DEF RecordEvent, StatusEvent, AfterStatus
    <3>2. QED
      BY <1>5, <3>1 DEF StartRun, CreateRun, Emit, TypeOK
  <2>3. pc[r] = "none" /\ \A p \in Requests : reqRun[p] # r
    BY <2>2 DEF LaunchInv, AttendInv
  <2>4. \A o \in Runs \ {r} : Attended(o)' => Attended(o)
    BY <2>1 DEF Attended
  <2>5. \A o \in Runs : Alive(o)' => Alive(o) /\ o # r
    BY <2>1, <2>3 DEF Alive, Awaiting
  <2>6. StopEndsPrompt'
    BY <2>1, <2>2, <2>3, <2>4 DEF AttendInv, StopEndsPrompt
  <2>7. QED
    BY <2>1, <2>2, <2>3, <2>4, <2>5, <2>6 DEF AttendInv
<1>6. QED
  BY <1>2, <1>3, <1>4, <1>5 DEF RequestStep

LEMMA UserAttend ==
    ASSUME ~LegacyWaitFor, TypeOK, LaunchInv, AttendInv, NEW r \in Runs,
           Pause(r) \/ Resume(r) \/ Stop(r)
    PROVE  AttendInv'
<1>1. UNCHANGED <<reqRun, closed>>
  BY DEF Pause, Resume, Stop, requestVars
<1>2. /\ status'[r] \notin {"absent", "created"}
      /\ \A o \in Runs \ {r} : status'[o] = status[o]
  BY UserRecords DEF RunStatuses
<1>3. \A o \in Runs : Attended(o)' <=> Attended(o)
  BY <1>1 DEF Attended
<1>4. /\ \A q \in Requests : reqRun'[q] \in Runs => status'[reqRun'[q]] \notin {"absent", "created"}
      /\ \A q, p \in Requests : reqRun'[q] \in Runs /\ reqRun'[q] = reqRun'[p] => q = p
  BY <1>1, <1>2 DEF AttendInv
<1>5. CASE Pause(r) \/ Resume(r)
  <2>1. pc' = pc /\ registered' = registered /\ status'[r] \in {"paused", "running"}
    BY <1>5, ControlStatus DEF Pause, Resume
  <2>2. QED
    BY <1>2, <1>3, <1>4, <2>1 DEF AttendInv, StopEndsPrompt, Alive
<1>6. CASE Stop(r)
  <2>1. /\ \A o \in Runs \ {r} : pc'[o] = pc[o] /\ registered'[o] = registered[o]
        /\ registered[r] /\ Alive(r) => pc'[r] = "ended"
        /\ ~(registered[r] /\ Alive(r)) => pc'[r] = pc[r]
    BY <1>6 DEF Stop, Cancelled, GoTo, TypeOK
  <2>2. Attended(r) => ~Alive(r)'
    BY <2>1 DEF AttendInv, Alive, Awaiting
  <2>3. \A o \in Runs : Alive(o)' /\ Attended(o) => o # r /\ registered'[o]
    BY <2>1, <2>2 DEF AttendInv, Alive
  <2>4. StopEndsPrompt'
    BY <1>2, <1>3, <2>1, <2>2 DEF AttendInv, StopEndsPrompt, Alive, Awaiting
  <2>5. QED
    BY <1>3, <1>4, <2>3, <2>4 DEF AttendInv
<1>7. QED
  BY <1>5, <1>6

LEMMA NextAttend ==
    ASSUME ~LegacyWaitFor, TypeOK, LaunchInv, AttendInv, [Next]_vars
    PROVE  AttendInv'
<1>1. ASSUME NEW source \in Runs, NEW r \in Runs, Prepare(source, r)
      PROVE  AttendInv'
  <2>1. \A o \in Runs : status'[o] = IF o = r THEN "created" ELSE status[o]
    BY <1>1 DEF Prepare, CreateRun, TypeOK
  <2>2. status[r] = "absent" /\ UNCHANGED <<pc, registered, reqRun, closed>>
    BY <1>1 DEF Prepare, requestVars
  <2>3. QED
    BY <2>1, <2>2 DEF AttendInv, StopEndsPrompt, Alive, Attended
<1>2. ASSUME NEW a \in {"continue", "cancel"}, Answer(a)
      PROVE  AttendInv'
  BY <1>2 DEF Answer, AttendInv, StopEndsPrompt, Alive, Attended, recordVars, requestVars
<1>3. CASE Restart
  <2>1. \A o \in Runs : ~Alive(o)'
    BY <1>3 DEF Restart, Alive, Awaiting
  <2>2. \A o \in Runs : status'[o] \in {"absent", "created"} => status[o] = status'[o]
    BY <1>3 DEF Restart, RecoverRun
  <2>3. reqRun' = reqRun
    BY <1>3 DEF Restart
  <2>4. QED
    BY <2>1, <2>2, <2>3 DEF AttendInv, StopEndsPrompt, Alive, Awaiting
<1>4. CASE UNCHANGED vars
  BY <1>4 DEF vars, AttendInv, StopEndsPrompt, Alive, Attended, recordVars, requestVars
<1>5. QED
  BY <1>1, <1>2, <1>3, <1>4, ExecutorAttend, RequestAttend, UserAttend DEF Next

\* A stop ends an executor at its prompt, under every interleaving with other
\* requests, answers, pauses and crashes, on a Python whose asyncio.wait_for does
\* not drop the cancellation (3.12 and later).
THEOREM StopReachesPrompt ==
    ASSUME ~LegacyWaitFor
    PROVE  Spec => []StopEndsPrompt
<1>1. Init => AttendInv
  BY NoneAssumption DEF Init, AttendInv, StopEndsPrompt, Alive, Awaiting
<1>2. TypeOK /\ LaunchInv /\ AttendInv /\ [Next]_vars => AttendInv'
  BY NextAttend
<1>3. AttendInv => StopEndsPrompt
  BY DEF AttendInv
<1>4. QED
  BY <1>1, <1>2, <1>3, InitType, NextType, InitLaunch, NextLaunch, PTL DEF Spec

-----------------------------------------------------------------------------
(* The pause gate and the reservation.                                     *)

Parked(r) == pc[r] \in {"parkedRound", "parkedTool"}

\* A parked executor whose wait event can still be found sleeps, and its record
\* says so; where nobody resumes, the record of every parked executor does.
ParkInv ==
    \A r \in Runs : Parked(r) =>
        /\ pauseReg[r] => status[r] = "paused" /\ ~pauseSet[r]
        /\ "resume" \notin Controls => status[r] = "paused"

\* An executor that comes to a pause gate and waits there has recorded the pause.
LEMMA ParkRecords ==
    ASSUME TypeOK, NEW r \in Runs, NEW label, Park(r, label)
    PROVE  status'[r] = "paused"
<1>1. RecordEvent("paused", StatusEvent("paused")) = "paused"
  BY PauseRecords DEF RunStatuses
<1>2. QED
  BY <1>1 DEF Park, Emit, TypeOK

LEMMA RoundParks ==
    ASSUME TypeOK, NEW r \in Runs, NEW s, BeginRound(r, s), Parked(r)'
    PROVE  s = "paused" /\ status'[r] = "paused"
<1>1. s = "paused" /\ Park(r, "parkedRound")
  BY DEF BeginRound, EnterModel, GoTo, Parked, TypeOK
<1>2. QED
  BY <1>1, ParkRecords

\* Tool calls that begin do not park, unless the run was paused before them.
LEMMA ToolsPark ==
    ASSUME TypeOK, NEW r \in Runs, NEW s \in Recorded, NEW n, StartTools(r, s, n), Parked(r)'
    PROVE  s = "paused" /\ status'[r] = "paused"
<1>1. PICK k \in 0..n :
        LET t == IF k = 0 THEN s ELSE RecordEvent(s, ToolEvent("failure"))
        IN  BeginRound(r, t) \/ GoTo(r, "tool") \/ GoTo(r, "confirm")
  BY DEF StartTools
<1> DEFINE t == IF k = 0 THEN s ELSE RecordEvent(s, ToolEvent("failure"))
<1>2. t \in {s, "running"}
  BY RecordTool
<1>3. BeginRound(r, t)
  BY <1>1 DEF GoTo, Parked, TypeOK
<1> HIDE DEF t
<1>4. t = "paused" /\ status'[r] = "paused"
  BY <1>3, RoundParks
<1>5. QED
  BY <1>2, <1>4

LEMMA BatchParks ==
    ASSUME TypeOK, NEW r \in Runs, NEW s \in Recorded, NEW n, NextTool(r, s, n), Parked(r)'
    PROVE  status'[r] = "paused"
BY RoundParks, ToolsPark, ParkRecords DEF NextTool

\* A step of an executor ends at the gate with the event there and clear, or the
\* executor was there and found the run paused again.
ComesToPark(r) ==
    /\ status'[r] = "paused" /\ ~pauseSet'[r]
    /\ pauseReg'[r] \/ Parked(r)

LEMMA GateParks ==
    ASSUME TypeOK, NEW r \in Runs, Gate(r), Parked(r)'
    PROVE  pauseReg'[r] /\ ~pauseSet'[r]
BY DEF Gate, Parked, TypeOK

LEMMA ExecutorParks ==
    ASSUME TypeOK, NEW r \in Runs, ExecutorStep(r), Parked(r)'
    PROVE  ComesToPark(r)
<1>1. ASSUME NEW label \in {"final", "model", "aux", "tool", "rejudge", "ended"}, GoTo(r, label)
      PROVE  FALSE
  BY <1>1 DEF GoTo, TypeOK, Parked
<1>2. status[r] \in Recorded
  BY DEF TypeOK, Recorded
<1>3. ASSUME Gate(r), NEW s,
             BeginRound(r, s) \/ (s \in Recorded /\ \E n \in Int : NextTool(r, s, n))
      PROVE  ComesToPark(r)
  BY <1>3, RoundParks, BatchParks, GateParks DEF ComesToPark
<1>4. CASE Prepared(r)
  BY <1>3, <1>4 DEF Prepared
<1>5. CASE Rejudged(r) \/ Finalized(r) \/ ExecutorFailed(r)
  BY <1>1, <1>5 DEF Rejudged, Finalized, ExecutorFailed
<1>6. CASE ModelAnswered(r)
  <2>1. ASSUME NEW n \in 1..MaxBatch, NextTool(r, status[r], n)
        PROVE  \E m \in Int : NextTool(r, status[r], m)
    BY <2>1, BoundsAssumption
  <2>2. \/ BeginRound(r, RecordEvent(status[r], Noise))
        \/ \E m \in Int : NextTool(r, status[r], m)
    BY <1>1, <1>6, <2>1 DEF ModelAnswered
  <2>3. QED
    BY <1>2, <1>3, <1>6, <2>2 DEF ModelAnswered
<1>7. \A outcome : RecordEvent(status[r], ToolEvent(outcome)) \in Recorded
  BY <1>2, RecordTool DEF Recorded, RunStatuses
<1>8. todo[r] - 1 \in Int
  BY BoundsAssumption DEF TypeOK
<1>9. CASE ToolFinished(r)
  BY <1>3, <1>7, <1>8, <1>9 DEF ToolFinished
<1>10. CASE ConfirmReturned(r)
  BY <1>1, <1>3, <1>7, <1>8, <1>10 DEF ConfirmReturned
<1>11. CASE Woken(r)
  <2>1. ~(status[r] # "paused" /\ EnterModel(r, status[r]))
    BY <1>1 DEF EnterModel
  <2>2. ~(status[r] # "paused" /\ StartTools(r, status[r], todo[r]))
    BY <1>2, ToolsPark
  <2>3. status[r] = "paused" /\ status'[r] = status[r]
    BY <1>11, <2>1, <2>2 DEF Woken, recordVars
  <2>4. Parked(r) /\ ~pauseSet'[r]
    BY <1>11 DEF Woken, Parked, TypeOK
  <2>5. QED
    BY <2>3, <2>4 DEF ComesToPark
<1>12. QED
  BY <1>4, <1>5, <1>6, <1>9, <1>10, <1>11 DEF ExecutorStep

LEMMA ExecutorPark ==
    ASSUME TypeOK, ParkInv, NEW r \in Runs, ExecutorStep(r)
    PROVE  ParkInv'
<1>1. \A o \in Runs \ {r} : status'[o] = status[o] /\ pc'[o] = pc[o]
  BY ExecutorStepEffect, ExecutorFrame
<1>2. \A o \in Runs \ {r} : pauseReg'[o] = pauseReg[o] /\ pauseSet'[o] = pauseSet[o]
  BY DEF ExecutorStep, Prepared, Rejudged, ModelAnswered, ToolFinished, ConfirmReturned,
     Woken, Finalized, ExecutorFailed, Gate, pauseVars, TypeOK
<1>3. Parked(r)' => status'[r] = "paused" /\ ~pauseSet'[r]
  BY ExecutorParks DEF ComesToPark
<1>4. ASSUME NEW o \in Runs, Parked(o)'
      PROVE  /\ pauseReg'[o] => status'[o] = "paused" /\ ~pauseSet'[o]
             /\ "resume" \notin Controls => status'[o] = "paused"
  <2>1. CASE o = r
    BY <1>3, <1>4, <2>1
  <2>2. CASE o # r
    BY <1>1, <1>2, <1>4, <2>2 DEF ParkInv, Parked
  <2>3. QED
    BY <2>1, <2>2
<1>5. QED
  BY <1>4 DEF ParkInv, Parked

LEMMA RequestPark ==
    ASSUME TypeOK, LaunchInv, ParkInv, NEW q \in Requests, RequestStep(q)
    PROVE  ParkInv'
<1>1. UNCHANGED pauseVars
  BY DEF RequestStep, Accept, Reject, Launch, Finish, Disconnect, StartRun
<1>2. \A o \in Runs : Parked(o)' => pc'[o] = pc[o]
  BY DEF RequestStep, Accept, Reject, Launch, Finish, Disconnect, StartRun, TypeOK, Parked
<1>3. \A o \in Runs : Parked(o) => status'[o] = status[o]
  BY RequestRecords DEF LaunchInv, Parked
<1>4. QED
  BY <1>1, <1>2, <1>3 DEF ParkInv, Parked, pauseVars

LEMMA UserPark ==
    ASSUME TypeOK, ParkInv, NEW r \in Runs, Pause(r) \/ Resume(r) \/ Stop(r)
    PROVE  ParkInv'
<1>1. \A o \in Runs \ {r} : status'[o] = status[o]
  BY UserRecords
<1>2. \A o \in Runs \ {r} : pauseReg'[o] = pauseReg[o] /\ pauseSet'[o] = pauseSet[o]
  BY DEF Pause, Resume, Stop, pauseVars, TypeOK
<1>3. \A o \in Runs : Parked(o)' => pc'[o] = pc[o]
  BY DEF Pause, Resume, Stop, Cancelled, GoTo, Parked, TypeOK
<1>4. ASSUME Parked(r)'
      PROVE  /\ pauseReg'[r] => status'[r] = "paused" /\ ~pauseSet'[r]
             /\ "resume" \notin Controls => status'[r] = "paused"
  <2>1. Parked(r)
    BY <1>3, <1>4 DEF Parked
  <2>2. CASE Pause(r)
    <3>1. status[r] \in RunStatuses
      BY <2>2 DEF Pause, TypeOK
    <3>2. status'[r] = "paused"
      BY <2>2, <3>1, PauseRecords DEF Pause, Emit, TypeOK
    <3>3. QED
      BY <2>1, <2>2, <3>2 DEF Pause, pauseVars, ParkInv
  <2>3. CASE Resume(r)
    BY <2>3 DEF Resume, TypeOK
  <2>4. CASE Stop(r)
    <3>1. ~pauseReg'[r]
      BY <2>4 DEF Stop, TypeOK
    <3>2. RecordEvent("paused", StatusEvent("stopped")) = "paused"
      BY DEF RecordEvent, StatusEvent, AfterStatus
    <3>3. "resume" \notin Controls => status'[r] = "paused"
      BY <2>1, <2>4, <3>2 DEF Stop, Emit, TypeOK, ParkInv
    <3>4. QED
      BY <3>1, <3>3
  <2>5. QED
    BY <2>2, <2>3, <2>4
<1>5. ASSUME NEW o \in Runs \ {r}, Parked(o)'
      PROVE  /\ pauseReg'[o] => status'[o] = "paused" /\ ~pauseSet'[o]
             /\ "resume" \notin Controls => status'[o] = "paused"
  BY <1>1, <1>2, <1>3, <1>5 DEF ParkInv, Parked
<1>6. QED
  BY <1>4, <1>5 DEF ParkInv, Parked

LEMMA NextPark ==
    ASSUME TypeOK, LaunchInv, ParkInv, [Next]_vars
    PROVE  ParkInv'
<1>1. ASSUME NEW source \in Runs, NEW r \in Runs, Prepare(source, r)
      PROVE  ParkInv'
  <2>1. \A o \in Runs \ {r} : status'[o] = status[o]
    BY <1>1 DEF Prepare, CreateRun, TypeOK
  <2>2. ~Parked(r)
    BY <1>1 DEF Prepare, LaunchInv, Parked
  <2>3. QED
    BY <1>1, <2>1, <2>2 DEF Prepare, ParkInv, Parked, pauseVars
<1>2. ASSUME NEW a \in {"continue", "cancel"}, Answer(a)
      PROVE  ParkInv'
  BY <1>2 DEF Answer, ParkInv, Parked, recordVars, pauseVars
<1>3. CASE Restart
  BY <1>3 DEF Restart, ParkInv, Parked, Alive, Awaiting
<1>4. CASE UNCHANGED vars
  BY <1>4 DEF vars, ParkInv, Parked, recordVars, pauseVars
<1>5. QED
  BY <1>1, <1>2, <1>3, <1>4, ExecutorPark, RequestPark, UserPark DEF Next

\* An executor waits at a pause gate with its pause event clear and its record
\* paused as long as resume can find the event, so the resume of _resume wakes it.
\* Only the event that a resume has taken can go missing (a second pause before
\* the executor looks leaves it parked with none).  Where nobody resumes, an
\* executor never waits at the gate behind a record that says anything but paused.
THEOREM ParkedRunsArePaused == Spec => []ParkInv
<1>1. Init => ParkInv
  BY DEF Init, ParkInv, Parked
<1>2. TypeOK /\ LaunchInv /\ ParkInv /\ [Next]_vars => ParkInv'
  BY NextPark
<1>3. QED
  BY <1>1, <1>2, InitType, NextType, InitLaunch, NextLaunch, PTL DEF Spec

\* A conversation is reserved for a request that is about to start its run.
ReservedFor == active = "pending" => \E q \in Requests : reqPc[q] = "reserved"

LEMMA NextReserved ==
    ASSUME "badRequest" \notin Controls, TypeOK, ReservedFor, [Next]_vars
    PROVE  ReservedFor'
<1>1. ASSUME NEW r \in Runs, ExecutorStep(r)
      PROVE  UNCHANGED <<active, reqPc>>
  BY <1>1, ExecutorStepEffect DEF ExecutorEffect, requestVars
<1>2. ASSUME NEW q \in Requests, RequestStep(q)
      PROVE  ReservedFor'
  <2>1. CASE Accept(q)
    BY <2>1 DEF Accept, ReservedFor, TypeOK
  <2>2. CASE Reject(q)
    BY <2>2 DEF Reject
  <2>3. CASE Launch(q) \/ Finish(q)
    <3>1. reqPc[q] # "reserved" /\ \A p \in Requests \ {q} : reqPc'[p] = reqPc[p]
      BY <2>3 DEF Launch, Finish, TypeOK
    <3>2. active' = "pending" => active = "pending"
      BY <2>3, NoneAssumption DEF Launch, Finish
    <3>3. QED
      BY <3>1, <3>2 DEF ReservedFor
  <2>4. CASE Disconnect(q)
    BY <2>4 DEF Disconnect, ReservedFor
  <2>5. ASSUME NEW r \in Runs, StartRun(q, r)
        PROVE  ReservedFor'
    BY <2>5, NoneAssumption DEF StartRun, ReservedFor
  <2>6. QED
    BY <1>2, <2>1, <2>2, <2>3, <2>4, <2>5 DEF RequestStep
<1>3. ASSUME NEW r \in Runs, Pause(r) \/ Resume(r) \/ Stop(r)
      PROVE  reqPc' = reqPc /\ (active' = "pending" => active = "pending")
  BY <1>3, NoneAssumption DEF Pause, Resume, Stop, requestVars
<1>4. ASSUME NEW source \in Runs, NEW r \in Runs, Prepare(source, r)
      PROVE  UNCHANGED <<active, reqPc>>
  BY <1>4 DEF Prepare, requestVars
<1>5. ASSUME NEW a \in {"continue", "cancel"}, Answer(a)
      PROVE  UNCHANGED <<active, reqPc>>
  BY <1>5 DEF Answer, requestVars
<1>6. CASE Restart
  BY <1>6, NoneAssumption DEF Restart, ReservedFor
<1>7. CASE UNCHANGED vars
  BY <1>7 DEF vars, requestVars, ReservedFor
<1>8. QED
  BY <1>1, <1>2, <1>3, <1>4, <1>5, <1>6, <1>7 DEF Next, ReservedFor

\* A reservation of the conversation always has its request, which is on the way
\* to its run, unless a request is answered 404 or 409 once it has reserved
\* (active_stream_conversation_runs): then the reservation stays with nobody to
\* give it back.
THEOREM ReservationsAreHeld ==
    ASSUME "badRequest" \notin Controls
    PROVE  Spec => []ReservedFor
<1>1. Init => ReservedFor
  BY NoneAssumption DEF Init, ReservedFor
<1>2. TypeOK /\ ReservedFor /\ [Next]_vars => ReservedFor'
  BY NextReserved
<1>3. QED
  BY <1>1, <1>2, InitType, NextType, PTL DEF Spec
=============================================================================
