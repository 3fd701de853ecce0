--------------------------- MODULE RunPersistence ---------------------------
(***************************************************************************)
(* Runs, their events and product tasks in runtime.db: SqliteRunRepository  *)
(* under RunStore, ProductTaskStore, and RunEventHub.emit, which writes to   *)
(* both.  An action is one transaction, and between two of them the process *)
(* may die; a startup, which recovers what was interrupted, may die as well.*)
(* RunLifecycle has the same stores with a restart in one step.             *)
(*                                                                          *)
(* A run is its place in the order of creation, which is the order of       *)
(* created_at; a task has the number of the run it was created for.  Left    *)
(* out: columns that no decision depends on, checkpoints and snapshots,     *)
(* tasks that users create without a run, the schema's migration, and       *)
(* JsonRunRepository, which the program does not use.                       *)
(***************************************************************************)
EXTENDS Integers, FiniteSets, RunRecord

CONSTANTS
    Old,         \* runs in the legacy document
    MaxRuns,     \* bound on the runs, those included
    KeepRuns,    \* keep_runs
    KeepEvents,  \* keep_events
    MaxEvents    \* bound on the events of a run

ASSUME BoundsAssumption == Old \in Nat /\ MaxRuns \in Nat /\ Old <= MaxRuns /\ MaxEvents \in Nat
ASSUME KeepAssumption == KeepRuns \in Nat \ {0} /\ KeepEvents \in Nat \ {0}

Run   == 1..MaxRuns
Legacy == 1..Old

VARIABLES
    phase,      \* startup: "import", "runs", "tasks"; then "up"
    commit,     \* the transaction that the handler at work makes next
    executing,  \* runs with an executor
    document,   \* the legacy document, which is never written
    imported,   \* LEGACY_RUNS_IMPORT_KEY is in runtime_metadata
    status,     \* table runs: status, "absent" without a row
    taskOf,     \* table runs: task_id, 0 for none
    events,     \* table run_events: sequence and payload
    task,       \* table product_tasks: state and current_run_id
    made,       \* (history) number of runs created
    recorded,   \* (history) number of events recorded for each run
    gone,       \* (history) runs that were deleted
    cut,        \* (history) tasks whose update a crash has prevented
    touched     \* (history) runs created or given an event since the process started

runVars == <<status, taskOf, events, made, recorded, gone>>
vars == <<phase, commit, executing, document, imported, runVars, task, cut, touched>>

Nothing == [do |-> "nothing", run |-> 0, task |-> 0, status |-> "absent"]

Finals == {DoneEvent("success"), DoneEvent("partial"), TerminalError, StatusEvent("stopped")}
Steps  == {StatusEvent("thinking"), ConfirmEvent}

Kept == {r \in Run : status[r] # "absent"}
Tasks == {t \in Run : task[t].state # "absent"}

-----------------------------------------------------------------------------
(* The repository. *)

\* Variant for mutation: the order is turned round.
Oldest(S) == {r \in S : Cardinality({o \in S : o < r}) < KeepRuns}

\* The runs that _prune_runs keeps of S.
Newest(S) == {r \in S : Cardinality({o \in S : o > r}) < KeepRuns}

\* A transaction that leaves the rows st and ev and ends with _prune_runs, whose
\* deletions reach the events.
Store(st, ev) ==
    LET rows == {r \in Run : st[r] # "absent"}
        kept == Newest(rows)
    IN  /\ status' = [r \in Run |-> IF r \in kept THEN st[r] ELSE "absent"]
        /\ events' = [r \in Run |-> IF r \in kept THEN ev[r] ELSE {}]
        /\ gone' = gone \cup (rows \ kept)

\* Variant for mutation: the next sequence is how many there are.
CountSequence(es) == Cardinality(es)

\* The next sequence: COALESCE(MAX(sequence), -1) + 1.
NextSequence(es) ==
    IF es = {} THEN 0 ELSE 1 + (CHOOSE e \in es : \A o \in es : o.sequence <= e.sequence).sequence

\* append_event for run r in status s, with the n-th event.
AppendEvent(r, s, n) ==
    LET next == NextSequence(events[r])
        es   == events[r] \cup {[sequence |-> next, payload |-> n]}
    IN  Store([status EXCEPT ![r] = s],
              [events EXCEPT ![r] = {e \in es : e.sequence >= next - KeepEvents + 1}])

\* The last n events of a document's run, as they are imported.
Imported(n) ==
    LET skip == IF n > KeepEvents THEN n - KeepEvents ELSE 0
    IN  {[sequence |-> i - skip - 1, payload |-> i] : i \in skip + 1..n}

-----------------------------------------------------------------------------
(* Startup. *)

\* import_legacy_document: the newest runs of the document, if it can be read and
\* was not imported before.
Import ==
    /\ phase = "import" /\ ~imported
    /\ LET fresh == {r \in Legacy : Old - r < KeepRuns} \ Kept
       IN  Store([r \in Run |-> IF r \in fresh THEN document[r].status ELSE status[r]],
                 [r \in Run |-> IF r \in fresh THEN Imported(document[r].events) ELSE events[r]])
    /\ imported' = TRUE /\ phase' = "runs"
    /\ UNCHANGED <<commit, executing, document, taskOf, task, made, recorded, cut, touched>>

\* It was imported, or it cannot be read.
ImportNothing ==
    /\ phase = "import"
    /\ phase' = "runs"
    /\ UNCHANGED <<commit, executing, document, imported, runVars, task, cut, touched>>

\* Variant for mutation: only runs that were at work are looked for.
WasRunning(r) == status[r] = "running"

\* A run that _recover_interrupted looks for.
WasActive(r) == status[r] \in ActiveStatuses

\* RunStore._recover_interrupted updates one run.
RecoverOneRun ==
    /\ phase = "runs"
    /\ \E r \in Run : WasActive(r) /\ status' = [status EXCEPT ![r] = RecoverRun(@)]
    /\ UNCHANGED <<phase, commit, executing, document, imported, taskOf, events, made, recorded,
                   gone, task, cut, touched>>

RunsRecovered ==
    /\ phase = "runs" /\ \A r \in Run : ~WasActive(r)
    /\ phase' = "tasks"
    /\ UNCHANGED <<commit, executing, document, imported, runVars, task, cut, touched>>

\* ProductTaskStore._recover_interrupted; then the server is up.
RecoverTasks ==
    /\ phase = "tasks"
    /\ phase' = "up"
    /\ task' = [t \in Run |-> [state |-> RecoverTask(task[t].state), run |-> task[t].run]]
    /\ UNCHANGED <<commit, executing, document, imported, runVars, cut, touched>>

-----------------------------------------------------------------------------
(* Handlers.  Nothing comes between the transactions of one of them. *)

Free == phase = "up" /\ commit = Nothing

\* A request, a replay or an automation begins a run, in a task that there is or in a
\* new one.
BeginRun ==
    /\ Free /\ made < MaxRuns
    /\ \E word \in {"running", "created"} :
          \/ \E t \in Tasks :
                /\ commit' = [do |-> "create", run |-> made + 1, task |-> t, status |-> word]
                /\ UNCHANGED task
          \/ /\ commit' = [do |-> "create", run |-> made + 1, task |-> made + 1, status |-> word]
             /\ task' = [task EXCEPT ![made + 1] = [state |-> "created", run |-> 0]]
    /\ UNCHANGED <<phase, executing, document, imported, runVars, cut, touched>>

\* RunStore.create.
CreateRun ==
    /\ commit.do = "create"
    /\ made' = made + 1
    /\ taskOf' = [taskOf EXCEPT ![commit.run] = commit.task]
    /\ Store([status EXCEPT ![commit.run] = commit.status], events)
    /\ commit' = [commit EXCEPT !.do = "attach"]
    /\ touched' = touched \cup {commit.run}
    /\ UNCHANGED <<phase, executing, document, imported, recorded, task, cut>>

\* ProductTaskStore.attach_run; a run that was not only prepared is executed.
AttachRun ==
    /\ commit.do = "attach"
    /\ task' = [task EXCEPT ![commit.task] = [state |-> commit.status, run |-> commit.run]]
    /\ cut' = cut \ {commit.task}
    /\ executing' = IF commit.status = "running" THEN executing \cup {commit.run} ELSE executing
    /\ commit' = Nothing
    /\ UNCHANGED <<phase, document, imported, runVars, touched>>

\* record_event in emit: nothing is recorded for a run that was deleted.
Record(r, e) ==
    IF status[r] = "absent" THEN UNCHANGED <<status, events, gone, recorded, commit, touched>>
    ELSE /\ AppendEvent(r, RecordEvent(status[r], e), recorded[r] + 1)
         /\ recorded' = [recorded EXCEPT ![r] = @ + 1]
         /\ touched' = touched \cup {r}
         /\ commit' = [do |-> "sync", run |-> r, task |-> taskOf[r],
                       status |-> RecordEvent(status[r], e)]

\* The executor of a run emits an event, its last one or another.
Emit ==
    /\ Free
    /\ \E r \in executing, e \in Finals \cup Steps :
          /\ recorded[r] < MaxEvents
          /\ Record(r, e)
          /\ executing' = IF e \in Finals THEN executing \ {r} ELSE executing
    /\ UNCHANGED <<phase, document, imported, taskOf, made, task, cut>>

\* A prepared run is started.
Launch ==
    /\ Free
    /\ \E r \in Run :
          /\ status[r] = "created" /\ recorded[r] < MaxEvents
          /\ Record(r, StatusEvent("resumed"))
          /\ executing' = executing \cup {r}
    /\ UNCHANGED <<phase, document, imported, taskOf, made, task, cut>>

\* A user pauses, stops or resumes a run: _pause, _stop and _resume, which ask its
\* status only, not whether it has an executor.
Act ==
    /\ Free
    /\ \E r \in Kept :
          /\ recorded[r] < MaxEvents
          /\ \/ /\ status[r] \notin FinishedStatuses \cup {"paused"}
                /\ Record(r, StatusEvent("paused"))
                /\ UNCHANGED executing
             \/ /\ status[r] \notin FinishedStatuses
                /\ Record(r, StatusEvent("stopped"))
                /\ executing' = executing \ {r}
             \/ /\ status[r] = "paused"
                /\ Record(r, StatusEvent("resumed"))
                /\ UNCHANGED executing
    /\ UNCHANGED <<phase, document, imported, taskOf, made, task, cut>>

\* sync_from_run in emit.
Sync ==
    /\ commit.do = "sync"
    /\ task' = IF commit.task \in Tasks
               THEN [task EXCEPT ![commit.task] = [state |-> TaskStateOf(commit.status),
                                                   run   |-> commit.run]]
               ELSE task
    /\ cut' = cut \ {commit.task}
    /\ commit' = Nothing
    /\ UNCHANGED <<phase, executing, document, imported, runVars, touched>>

\* The process dies and is started again.
Die ==
    /\ phase' = "import" /\ commit' = Nothing /\ executing' = {} /\ touched' = {}
    /\ cut' = IF commit.do = "sync" THEN cut \cup {commit.task} ELSE cut
    /\ UNCHANGED <<document, imported, runVars, task>>

-----------------------------------------------------------------------------
Init ==
    /\ phase = "import" /\ commit = Nothing /\ executing = {}
    /\ document \in [Legacy -> [status : {"running", "success"}, events : {MaxEvents}]]
    /\ imported = FALSE
    /\ status = [r \in Run |-> "absent"] /\ taskOf = [r \in Run |-> 0]
    /\ events = [r \in Run |-> {}]
    /\ task = [t \in Run |-> [state |-> "absent", run |-> 0]]
    /\ made = Old
    /\ recorded = [r \in Run |-> IF r \in Legacy THEN document[r].events ELSE 0]
    /\ gone = {} /\ cut = {} /\ touched = {}

Next == \/ Import \/ ImportNothing \/ RecoverOneRun \/ RunsRecovered \/ RecoverTasks
        \/ BeginRun \/ CreateRun \/ AttachRun \/ Emit \/ Launch \/ Act \/ Sync \/ Die

Spec == Init /\ [][Next]_vars

-----------------------------------------------------------------------------
TypeOK ==
    /\ phase \in {"import", "runs", "tasks", "up"}
    /\ commit \in [do : {"nothing", "create", "attach", "sync"}, run : Run \cup {0},
                   task : Run \cup {0}, status : RunStatuses \cup {"absent"}]
    /\ executing \subseteq Run
    /\ document \in [Legacy -> [status : {"running", "success"}, events : {MaxEvents}]]
    /\ imported \in BOOLEAN
    /\ status \in [Run -> RunStatuses \cup {"absent"}] /\ taskOf \in [Run -> Run \cup {0}]
    /\ events \in [Run -> SUBSET [sequence : Nat, payload : Nat]]
    /\ task \in [Run -> [state : TaskStates \cup {"absent"}, run : Run \cup {0}]]
    /\ made \in Old..MaxRuns /\ recorded \in [Run -> 0..MaxEvents]
    /\ gone \subseteq Run /\ cut \subseteq Run \cup {0} /\ touched \subseteq Run

\* A run that is kept has its latest events, all of them up to the limit, numbered
\* without gaps in the order in which they were recorded, imported or not.
EventsAreLatest ==
    \A r \in Kept :
        /\ {e.payload : e \in events[r]} = {n \in 1..recorded[r] : recorded[r] - n < KeepEvents}
        /\ \A e, f \in events[r] : e.payload - f.payload = e.sequence - f.sequence

\* The runs kept are the newest, at most the limit and as many when any was deleted, and
\* a deleted run does not come back: neither with a late event of its executor nor from
\* the legacy document.
KeptAreNewest ==
    /\ Cardinality(Kept) <= KeepRuns
    /\ gone # {} => Cardinality(Kept) = KeepRuns
    /\ \A r \in Kept, g \in gone : g < r

\* Once the server is up, after crashes at any point, in the startup too, no run is
\* active, and no task shows one at work, that is left from an earlier process.
RecoveryIsComplete ==
    phase = "up" =>
        /\ \A r \in Kept : status[r] \in ActiveStatuses => r \in touched
        /\ \A t \in Tasks : task[t].state \in {"running", "waiting_confirmation"} =>
                            task[t].run \in touched

\* A task shows the state of its current run unless a crash came between their
\* updates, and then it does not show it as going on.  Runs that were deleted are
\* excepted: nothing updates their task any more.
TasksAgree ==
    Free => \A t \in Tasks : task[t].run \in Kept =>
        \/ task[t].state = TaskStateOf(status[task[t].run])
        \/ t \in cut /\ task[t].state \notin {"running", "waiting_confirmation"}
=============================================================================
