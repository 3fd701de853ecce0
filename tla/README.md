# A verification development for YuntaoCode

YuntaoCode is a local agent runtime: a Tornado server (one asyncio event loop)
that keeps conversations, starts *Runs* for the user's messages, lets a model
work in rounds and call tools, asks the user for confirmation, and records
everything so that a run can be paused, stopped, resumed, replayed and explained.
This directory holds TLA+ models of that runtime, the TLC runs that check them
and TLAPS proofs about them.

All source paths below are relative to `src/runtime/` unless they start with
another directory. `PROJECT.json` lists components, runs, hazards, the map from
definitions to source lines, and the theorems.

## 1. Inventory

What makes the code hard is always the same: a coroutine reads some state,
awaits (a flush, a model call, a tool, a user), and acts on what it read; in
between, other requests have run. *Atomic step* therefore means *from one await
to the next*. Only the tools' own work runs in threads, which share the user's
files and the backups with the loop (section 6).

| Component | State | Operations | Interacts with | Hard behaviour | Correct when |
|---|---|---|---|---|---|
| Run records (`run_store.py`) | status, stage, events, task id of each run | create, record_event, recovery at startup | every component reports through it | events in any order move the status; recovery after a crash | an ended run is finished; a finished run stays finished; a pause holds |
| Run executor (`conversation_runner.py`, `run_execution_state.py`, `tool_execution_batch.py`) | round number, batch, pause event | round loop, tool batch, pause gates, guidance, finalization | run records, model, tool tasks, prompt | every await is a point where the user may pause or stop | one executor per conversation; each run comes to rest |
| Stream request handler (`api/conversations.py`) | `active_stream_conversation_runs`, `active_run_tasks` | reserve, start, launch, stream, tidy up | executor, run records | check-then-await, clients that go away, errors between reservation and release | reservation always returned, never two runs |
| Confirmation (`api/conversations.py`, `conversation_interactions.py`) | `pending_confirms`, `confirm_responses` per conversation | ask, answer, time out | executor, stop | late, stale and missing answers | the prompt shown is the one answered |
| Run actions (`api/runs.py`) | `paused_runs` | pause, resume, stop, replay | executor, prompt, records | lost wake-ups; cancel against answer | stop ends, resume releases |
| Product tasks (`product_task_store.py`, `core/task.py`) | state, current run | create, attach, sync, recovery | follows run events | two runs of one task | task shows its current run |
| Run repository (`run_repository.py`) | tables of runs and events, the legacy document | create, update, append, prune, import | run records, product tasks | crash between two transactions; retention of active runs | logs are the latest events, the newest runs are kept, recovery is complete |
| Event hub and streams (`run_events.py`, `api/runs.py`) | subscriber queues | emit, subscribe, replay | run records, panel | bounded queue that drops; gap between replay and subscription | a stream sees each event once, and ends |
| Tool tasks (`task_store.py`, `task_runner.py`) | record, active coroutine | submit, run, cancel, load | executor, backups | cancel before the first step; crash while running | every task ends with its true outcome |
| Automations (`automation_*.py`) | trigger, next run, counters | tick, run now, pause, archive, delete | run records, product tasks | overlapping runs, missed and repeated triggers | concurrency policy respected |
| User guidance (`user_guidance.py`) | bounded list per conversation | add, pop, clear | executor | overflow; guidance left by an ended run | each guidance used by the run it was meant for |
| Finalization and outcome (`run_finalizer.py`, `run_completion.py`, `run_recovery.py`, ...) | none (functions of the event list) | derive status, result, recovery | executor | precedence of failure, partial and success | the outcome agrees with the events |
| Agent strategy (`agent_strategy/*`) | convergence counters, plan | note_*, decisions | executor | counters that reset at the wrong time | thresholds reached exactly when said |
| MCP services (`mcp_service_manager.py`, `mcp_protocol.py`) | process, session, connection, tool bindings, ids and futures of requests | start, stop, restart, check, edit, delete, call | tools, runs that need a service | operations that overlap, late answers, a server that dies | an answer goes to who asked; tools follow the connection; no process is lost |
| CLI providers | probe results | probe | tools | - | - |
| Backups, attachments, memories | files and indexes | begin/finish/restore, upload/bind, extract | tool tasks, conversations | crash in the middle, background work against deletion | no restore point lost or resurrected |
| Stores of conversations, workspaces, settings, capability packs | one JSON document each | CRUD | all | none beyond whole-file writes | - |
| Context (`context_manager.py`, `agent_strategy/context_hygiene.py`) | the cached summary of a conversation and the digest of its source | clean the list, cut the window, summarise, continue a summary | executor, compress request, conversation store | compressions that overlap at their await; a list that changes under a cached summary | a summary stands for what the window leaves out; the current request is in the window |
| Model round, skills, tool registry, path guard, panel, reports, source update | data | text, file and network I/O | executor | - | outside a model checker's reach |

The hazards of this code, each at its line, are in `PROJECT.json` under
`hazards`.

## 2. Plan

Order, most important first; `RunLifecycle` is the core and everything else
hangs on it.

1. `RunRecord` (status machine), `RunLifecycle` (executor, handler, prompt,
   actions, restart), `ConversationContract` (abstract). **done, proved**
2. `EventStream`: emit, bounded queues, replay by cursor, end of stream. **done, proved**
3. `Automation`: scheduler tick, trigger policies, prepared runs, user operations.
   **done, proved**
4. `ToolTasks`: submission, cancellation, startup recovery, with the backup
   sessions, the retention and restores. **done, proved**
5. `McpService`: start, stop, check, edit, handshake, calls, death of the server.
   **done, proved**
6. `RoundLoop`: rounds, budget, guidance, notices, plan and convergence inside one
   run. **done, proved**
7. `RunPersistence`: the tables of runs, events and tasks, their retention and
   recovery. **done, proved**
8. `ContextWindow`: what a model is told of a conversation, and the summary that is
   kept with it. **done, proved**
9. The outcome of a run, `Memory`, `Attachments`.

*Proved* means: every safety property and action property that a passing run checks is
stated by a theorem, for every value of the constants or under the assumption on them that the
section names. The eight liveness properties of the runs stay with TLC: their fairness speaks of
what is ENABLED, which the provers cannot reason about. For most of them the safety
part of the argument is proved (`RoundsRunOut`, `EndReachesWatchers`, `NobodyDiesUnwatched`,
`StopsAreObeyed`, `ParkedRunsArePaused`, `ReservationsAreHeld`).

## 3. Run lifecycle

### Modules

* **`RunRecord`** translates `RunStore.record_event`: `AfterStatus` is the
  status branch with the sticky *paused* stage, `RecordEvent` the other event
  kinds, `RecoverRun` the recovery at startup; `TaskStateOf` and `RecoverTask`
  are the product task's `sync_from_run` and recovery.
* **`RunLifecycle`** is one conversation: its runs (`status`, `taskOf`, `task`,
  and where the executor is suspended, `pc`), its stream requests (`reqPc`,
  `reqRun`, `closed`), and the shared dictionaries (`active`, `registered`,
  `pending`, `response`, `pauseReg`, `pauseSet`).
  One action is one stretch of code between two awaits:
  * requests: `Accept` (check and reservation), `StartRun` or `Reject` (up to the
    second flush), `Launch`, `Finish` (loop end and `finally`), `Disconnect`;
  * executor: `Prepared`, `Rejudged`, `ModelAnswered`, `ToolFinished`,
    `ConfirmReturned`, `Woken`, `Finalized`, `ExecutorFailed`. The pieces they
    share (`BeginRound`, `NextTool`, `StartTools`, `Park`) are the loop heads of
    `conversation_runner.execute` and of `tool_execution_batch.execute`; the
    batch, its skipped calls and the else branch of the round loop are inside
    the step that reaches them;
  * users: `Pause`, `Resume`, `Stop`, `Prepare` (replay), `Answer`;
  * the machine: `Restart`.
* **`ConversationContract`** is what the API promises: a run is unborn, prepared,
  executing, over; only one executes. `RunLifecycle` implements it through the
  refinement mapping `PhaseOf`.
* **`MCRunLifecycle`** adds the symmetry set for TLC.

`Controls` says which things users, clients and the machine do in an instance.
`LegacyWaitFor` selects `asyncio.wait_for` of Python 3.11 and earlier (which
returns a result that is already there and drops the cancellation) or of 3.12.

### Runs

| Run | Shows | Bounds and controls |
|---|---|---|
| `lifecycle_core` | one executor, answerable prompt, ended runs are finished, refinement of the contract | 3 runs, 2 requests, 2 rounds, batches of 2; pause, resume, replay, restart |
| `lifecycle_full` | task mirrors its run, nobody waits at a prompt of a stopped run, finished is final | 2 runs, 2 requests, 1 round, batch 1; **every** control |
| `lifecycle_live` | running runs are owned, runs come to rest, reservations end | 2 runs, 2 requests, 2 rounds; pause, disconnect, restart; fair |

Two requests are needed to race for the reservation, three runs to have a
finished, a prepared and an executing one together; two rounds reach the round
limit and stay below it, a batch of two leaves a call behind the one that waits.

Controls are left out of a run because the code does *not* keep the run's
properties when they happen, and this is shown or explained:

* `stop` is out of `lifecycle_core`: stopping a paused run leaves it paused
  (`record_event` lets only `resumed`, `stopping` and `cancelled` change it, and `_stop`
  records `stopped`, `api/runs.py:209`), stopping at a prompt may not end it on Python 3.11
  (`asyncio.wait_for` drops a cancellation that comes after the prompt's event was
  set, and a stop sets it first), and stopping between the creation of the run and of its
  executor finds nothing to cancel, while it clears the conversation's entry.
* `disconnect` is out of `lifecycle_core`: the `finally` block frees the
  conversation although the executor goes on, and a run whose rounds are spent is
  recorded as stopped before its finalization
  (`conversation_runner.py:937`), so that a second run may start beside it.
* `badRequest` is out of `lifecycle_core` and `lifecycle_live`: a request refused
  after the reservation (`api/conversations.py:611-628`) leaves `"pending"` behind.
  `ReservationEnds` says nothing of it.
* `resume` is out of `lifecycle_live`: `_resume` pops the pause event, and a second
  pause and resume before the waiter has woken set nothing, so the executor
  sleeps on. `prepare` is out too: a prepared run can be paused and resumed,
  which records it as running with no executor. `RunningRunIsOwned` is checked in that
  run and says nothing of either.

### Fairness

`FairSpec` assumes weak fairness of each executor's step, and of the steps of a
handler that has begun. The event loop runs every ready coroutine. Of what an
executor waits for, a prompt (300 s) and the model (the idle timeout of its
stream) are bounded by a timeout. The loop that polls a tool has no limit as a
whole: that the tool *ends* is an assumption of `RunComesToRest`, which section 6
does not make, and a run whose tool never returns does not come to rest. At the
pause gate `Woken` is disabled until the event is set, so fairness promises
nothing of a paused run. No user action is fair.

### Proofs (`RunLifecycle_proofs`)

TLAPS proves, for every number of runs and requests and every bound:

* `TypeCorrect`: `Spec => []TypeOK`, whatever the controls.
* `TaskFollowsRun`: `Spec => []TaskMirrorsCurrentRun`, whatever the controls. The
  strengthening `TaskInv` adds that whatever refers to a run (a starting request,
  an executor, a task) refers to one that has been created: an event of a run
  that does not exist could not move its task.
* `OneExecutorAtATime`: `Spec => []ExclusiveExecution` under `Undisturbed` (nobody
  stops, no client leaves). It is not inductive: nothing in it says that the
  check of `Accept` fails while an executor works. `OwnerInv` says what the
  conversation's entry means: at most one request is in flight, the entry is
  `"pending"` while it is reserved and its run afterwards, and an executor only
  works under a request that streams; `StartInv` adds that a run about to be
  launched has no executor yet and is recorded as going on.
* `ContractImplemented`: `Spec => ImplementsContract`, same assumption: the initial
  state maps to the initial state and each action to one of the contract or to a
  stutter.
* `PromptStaysAnswerable`: `Spec => []PromptIsAnswerable`, same assumption.
* `NoSecondLaunch`: `Spec => LaunchedOnce`, whatever the controls, from `LaunchInv`
  (a starting request's run has no executor yet and nobody else starts it).
* `FinishedStaysFinished`: `Spec => FinishedIsFinal`, whatever the controls. The argument
  is by what each kind of step records: an executor writes only about its own run,
  a request only about one that is created, `Pause`, `Stop` and `Resume` refuse a
  finished one.
* `EndFinishes`: `Spec => []EndedRunIsFinished` if nobody stops a run. `LaunchInv` is needed
  for the restart: an executor that dies with the process has a run that was begun,
  and recovery finishes that.
* `GoingRunsHaveExecutors`: `Spec => []RunningRunIsOwned` under `ResumesAreOwned`: nobody
  resumes a run, or nobody prepares and nobody stops one. With resumes it is not
  inductive, and `GoingInv` adds that then a paused run has its executor too.
* `StopReachesPrompt`: `Spec => []StopEndsPrompt` if `wait_for` is that of Python 3.12,
  whatever the controls. A stop ends a prompt only if it finds the executor, so
  `AttendInv` says that a run is started by one request only and that its
  executor stays registered until that request's client leaves.

None of these assumptions is a convenience: when a client leaves, `ExclusiveExecution`
is false, after a stop of a paused run `EndedRunIsFinished` is, when a prepared or
stopped run is resumed `RunningRunIsOwned` is, and with the `wait_for` of Python 3.11
`StopEndsPrompt` is, each for the reason given above.

Two more are about what liveness rests on:

* `ParkedRunsArePaused`: `Spec => []ParkInv`, whatever the controls. As long as a resume
  can find the event of an executor at a pause gate, the event is clear and the
  record says paused, so that the user may resume and the executor then wakes.
  Only an event that a resume has taken can go missing: that is the hazard of a second pause
  before the executor has looked. Where nobody resumes, no executor waits at a
  gate behind a record that says anything but paused, which is the case
  `RunComesToRest` allows to last for ever.
* `ReservationsAreHeld`: while the conversation is reserved there is a request on the way
  to its run, if no request is refused after it has reserved; a refused one
  leaves the reservation with nobody to give it back. `ReservationEnds` then only needs
  that this request goes on.

Only model-checked: liveness (`RunComesToRest`, `ReservationEnds`).

### Left out

Message text, model output, tool arguments, prompts, plans, evidence, usage;
the delivery of events to subscribers (section 4); the non-streaming message handler (section 10); runs
of other conversations (nothing is shared between conversations but the stores);
retention. A failing write to disk is not modelled.

## 4. Event streams

`EventStream` is one run, seen by those who read its events. `Emit` is
`RunEventHub.emit`: record (`Recorded` kinds only, the log cut to `KeepEvents`),
then broadcast to the bounded queue of every subscriber, where a full queue
loses its oldest event. `Progress` and `Close` are the executor's events, told
apart by whether it goes on afterwards. Two kinds of handler read: a *follower*
is the handler that started the run (`api/conversations.py`), subscribed before
the executor's first step; a *watcher* is `RunEventsStreamHandler`, whose steps
`Open`, `Replayed`, `Take`, `Flushed`, `WatcherFails` are the code between its
awaits. The state of a run is the `RunRecord` of section 3.

`event_stream` checks it with one handler of each kind, a queue and a log of two
events and a run of four: both overflow, and a watcher can open before, while
and after anything happens. Handlers do not interact, so one of each kind is enough.

* `SentInOrder`: nobody is told an event twice or after a later one, although
  queues drop events and the replay and the subscription are not one step.
* `FollowerSeesTheEnd`: the policy of dropping the *oldest* is what keeps the last
  event; dropping the new one loses it (the mutant).
* `FollowersEnd`, `WatchersEnd`: handlers end. A watcher only under conditions: it
  must have subscribed while the executor worked, and the run must not be
  stopped, because a stop emits no `done`. A watcher that opened before the last
  event and subscribed after it reads heartbeats for ever (a hazard of the list).

`EventStream_proofs` proves `ClientsReadInOrder` (`SentInOrder` for any number of
handlers, any sizes, any run). The property is not inductive: what a client
reads next comes from the log or from its queue, so `OrderInv` says that both are
in order and no later than the latest event, that a queue lies after all that
was sent, and that only a subscriber has one. The lemmas say what `Append`,
`SubSeq`, `Offer` and taking the head do to an increasing sequence.

It also proves `FollowersHearTheEnd` (`FollowerSeesTheEnd`). `EndInv` follows a reading
follower (`Hears`): the latest event is the last in its queue or, when that is empty, the last
it was told, and an event that closes the run is the last of all. `OfferEnds` is why
a full queue does no harm: what is offered always stands at the end.

`TypeCorrect` states the limits: the log never holds more than `KeepEvents` events, a queue never
more than `QueueSize`. `EndReachesWatchers` is about a step: a watcher that is
subscribed when the run completes or fails has its end in the queue, and keeps it
there until it has gone, however many events are dropped. `ClosingInv` says why: nothing is
emitted after the end, so nothing can push it out. `FollowersEnd` and `WatchersEnd` are
liveness and only model-checked, but no event can be lost on which they wait; what they add is that
handlers go on reading.

Fairness: each handler's step, since a wait for an event is bounded by the 15 s
heartbeat and every flush returns or raises. The executor is not fair: the
liveness properties are about what follows its end.

## 5. Automations

`Automation` is one automation, its clock and its runs. `NextRunAt`,
`CurrentNextRun`, `Due` and `MayTrigger` are the functions of
`core/automation.py` and `automation_store.py`; `EnsureNextRun`, `Skip` and `Fire`
are the three branches of the scheduler's tick, `TriggerByHand` the API's, and
`Prepare` is `prepare_automation_run`, which both share. None of them awaits, so
each is one action; but a run and its automation are saved in different files,
and `FireCutShort` is the process dying between the two. `RunMoves`, `Restart`
and `Replay` are what section 3 does to a run, seen from here: a run that has
been stopped does not come back (the exception, a cancellation dropped at a prompt, is left out).
`Policy` is a constant, not a field that an edit changes: two runs prepared under
`allow_parallel` stay active after an edit to another policy, so `RunsDoNotOverlap`
is about an automation that keeps its policy.

`automation` checks `skip_if_running` with two runs, a period and a day of two
units and four units of time: a time can fire, be skipped, and come round
again, and an edited one-time trigger can lie before, at and after the present. The
time of a trigger may also be one that cannot be read (`runAt = Never`): nothing
checks a trigger when it is saved.

* `RunsDoNotOverlap` counts the runs the automation has prepared, at whatever hand;
  replays hold back the automation but the user may ask for any number of them.
* `EachTimeFiresOnce` and `RecordedOnce` claim nothing of a run whose preparation
  was cut short: after the restart its time is still due, and under `queue_next`
  a one-time automation prepares a second run once the first is over.
* `RepeatingIsScheduled` needs the fairness of `Tick`: the loop of
  `AutomationScheduler.start` catches every exception and ticks again. It excepts
  a daily trigger without a readable `time_of_day`, which no tick ever gives a next
  time (`core/automation.py:230`); a weekly one is the same.

`Automation_proofs` proves, for any number of runs, policy, period and length of
day: `NoOverlap` (`RunsDoNotOverlap`, inductive together with the types) and
`FiresOnce` (`EachTimeFiresOnce`). The latter needs `TimesPass`: a recorded
scheduled run was fired for a time that has passed, and the next time, if there
is one, lies beyond all of those. That is why `NextRunAtType` shows that a
computed time is in the future. `OnceFiresOnce` (`RecordedOnce`) needs `OnceInv`: an
automation that has recorded a run remembers it, and as long as its trigger is a one-time
one it then has no next time, however it is edited and disabled. `MissedTimesFireOnce` is an
action property: a run of the scheduler is prepared for the one time that was kept, when it has
come and nothing of the automation is active (unless the policy allows it), and the time
that follows is later than now. So a process that was down for many periods catches up
with one run. `RepeatingIsScheduled` is liveness and only model-checked. The step lemma divides the actions into those
that leave the runs alone, those that only let runs proceed, and the three that
create one.

## 6. Tool tasks and backups

`ToolTasks` is all tool tasks, the files they write and the backup store. Two
kinds of process share them. On the event loop, `Submit`, `Begin`, `Return` and
`Cancel` are the coroutine of `task_runner.py` between its awaits, with the end
of the backup session (`Finish`: `BackupSession.finish`, `BackupStore.add_record`
and `_enforce_retention`, whose parts are `Newest`, `Expired` and `Pruned`) inside
`Return`; `Clear`, `ClearFails` (something cannot be deleted, and the index stays as it
was), `StartRestore`, `RestoreFile`, `EndRestore` and `FailRestore` are
the API's. In a worker thread, `BackUp` and `WriteFile` alternate until
`ToolEnds`, as the tools of `skills/` do: copy, then write. A thread does not
stop when its coroutine is cancelled, and goes on between the files of a restore.
`Restart`, `ReturnCutShort` and `ClearCutShort` are the process dying: at any
point, and between the deletion of directories and the index that says so.

Files hold `"original"`, nothing, or the name of the last task that wrote them;
that is all the properties tell apart. `before`, `disturbed`, `damaged` and
`since` are history variables: what a task found, which copies another one made
stale before the write, which directories were deleted, wholly or in part, otherwise
than with their record, and when the index was last
emptied. No action of the code depends on them.

`tool_tasks` has two tasks and two files, three writes between them, keeps one
record, and allows everything of `Controls`. Three writes let one tool write a
file, another file and the first again, which is not copied again, or let the
other tool write in between; one record kept makes the retention delete the other,
and fail to. Tasks and files are symmetric.

* `RestoreUndoes`: two tools overlapping on a file, a
  restore of one while the other writes, restores of restored files. Between
  the copy and the write there is no lock, so a file that others write there is
  excepted, and so is one that a thread writes while it is restored.
* `ReturnedIsRestorable`: the record of a tool that returns has every file, and
  is not deleted by its own retention. A tool that is cancelled leaves none,
  although it has written files: `Cancel` drops its session.
* `RestorePointsAreWhole`: a record goes with its copies, whichever sessions are open,
  end and are pruned meanwhile. It excepts `damaged`, the ways in which a directory
  goes without its record: a clear deletes those of sessions that are still open; a
  clear that fails half-way leaves every record listed, those of the directories it has
  deleted too; a retention may delete a directory in part; and the process may die
  while either deletes. `RestoreUndoes` makes no such exception: a restore of a record
  whose copies are gone must fail, and not end as if it had undone its task.

There are no liveness properties: a tool may take for ever, and nothing here
waits for another.

`ToolTasks_proofs` proves all three, the types, and three more: that a copy is what
its task found (`CopiesAreOriginals`), that no record is deleted too early or kept too
long except after the index was lost (`RetentionIsExact`), and that copies do not
outlive their record (`CopiesHaveRecord`), for any tasks, files, retention
and controls. `IInv` is the inductive invariant. What each part is needed for:
`LifeInv`, that a task with a record has no thread any more, so that the record
being restored does not change; `SessionInv`, that a session has seen whatever its
tool writes and lists a file once, so that an entry that is put back is not
overwritten by the next; `CopyInv`, that before the write the copy is the file as
it is; `ProgressInv`, that the entries behind the restore's place are put back;
`WholeInv` extends `RestorePointsAreWhole` to open sessions. For the retention,
`CountInv` says that the `created_at` of the records leave no gaps, so that the
records newer than one can be counted. Without it the records still in the index
say nothing of those that are gone, and one that is not among the newest of all
could be among the newest of those that are left. The lemmas named `...Facts` say
what an action does to the variables, once, for all the parts.

Left out: awaited submissions (nothing can happen to them before they start),
tools that write with backups switched off or that copy only files that exist
(see the hazards), logs, and the order in which records of tasks are saved.

## 7. MCP services

`McpService` is one service that speaks over stdio, with everybody who uses it.
Its state is the configuration, the runtime of `mcp_service_manager.py`
(`process`, `session`, `connected`, `binding`, `state`), the tool registry, and
for each process the session of `mcp_protocol.py` (`nextId`, `pending`, the reader
task in `reading`). A client (a request, a run that needs the service, a caller
of the tool) is a coroutine: `pc` says what it awaits, `ask` and `fut` the request
and the outcome of its future.

* Operations are cut at their awaits: `Start`, `Prerequisites`, `Spawned` or
  `SpawnFails`, then `Initialized` and `Listed` for each answer of the handshake
  (with the second attempt of `connect` and the further pages of `list_tools`);
  `Stop`, `Terminated`; `Check`, `CheckEnds`; `Edit` and `Delete` do not await.
  `Connect` and `HandshakeFails` end a start, `Disconnect` is
  `_disconnect_session`, which takes whatever session the service has *now*.
* `Request` writes a request and awaits its future; `Answer` is what the server
  says, in any order, late or never; `Wakes` is `asyncio.wait_for`, where time may
  be up at any moment. `Call` and `CallEnds` are `call_tool` with the health it
  records.
* `Exits` is the process, `ReaderEnds` the reader, `Watch` the watcher after the
  exit; the three come in any order. The reader ends with the output or breaks on
  it (a line beyond the limit of its stream) while the process may live on; then all
  requests under way fail, and the handshake makes no second attempt.

`untidy` is a history variable that becomes true when operations have
overlapped, when a process was started in the place of one whose end had not been
handled, and when a watcher overtook a handshake's answer. Nothing in the code
prevents those, and `NoOrphan` and `ConnectedIsServed` are false after them:
`v_mcp_ghost` is the third, and violates what `docs/mcp-services.md` says
of tools (`findings` in `PROJECT.json` quotes the lines). The other invariants hold in all cases.

| Run | Shows | Bounds |
|---|---|---|
| `mcp_service` | answers are one's own, tools follow the connection, no orphans, a connection is served | a user, a run, a caller; 2 processes, 3 requests a session; edits, missing prerequisites |
| `mcp_live` | what is under way ends, a death is noticed | a user, a caller; 2 processes, 3 requests; checks, automatic starts |

Two processes are needed for one to follow the other, three requests for a
handshake with a second attempt or a further page and a call. A user and a run are
enough to overlap in any way two operations can.

Fairness (`mcp_live`): the steps of operations and calls, whose requests have a
timeout; the watchers; and the exit of a process that was told to terminate,
since `stop` kills it after its grace period. Servers answer or not. Nothing bounds
the pages of `tools/list` (`mcp_protocol.py:107`): a server that always names a next
one keeps a start going for ever, and `EverythingEnds` excepts a client that asks for
page after page (`AsksForPage`). In the model `MaxRequests` bounds them, which is a
bound of the model only and no part of the argument. `ConnectedIsServed` says that
the session is set; its reader may have ended, and then its calls fail or time out.

`McpService_proofs` proves the types, the four invariants of `mcp_service`,
`WaitingIsKnown` and `HealthIsDiagnosed` for any clients, processes, requests and controls. `AnswerInv` says that the id of a
request is its number, so that an entry is never used twice, and `KnownInv` that
no two clients await one entry: a client that pops an entry takes it from
nobody. `ToolsFollowConnection` and `HealthIsDiagnosed` are inductive once it is
known that a deleted service has neither connection nor binding (`LinkInv`).
`TidyInv` is the long one: while nothing has overlapped, at most one operation is
under way (`Exclusive`), every process is the service's, doomed or dead
(`Owned`), a start that has not yet spawned finds no process (`Opening`), a stop waits
for the process it doomed (`Closing`), a connection has its session (`Served`), and a
handshake speaks to the service's own process and session, or is lost
(`Shaking`).

Two theorems hold whatever overlaps and are what the liveness of `mcp_live` rests on.
`NobodyDiesUnwatched`: a process that runs is watched, and so is the one that the service has,
running or not; `DeathIsNoticed` then needs only that the watcher goes on.
`StopsAreObeyed`: a stop or restart waits for a process that has been told to terminate, or
has exited (`EndIsUnderWay`). `EverythingEnds` and `DeathIsNoticed` themselves are only
model-checked.

Left out: services reached by URL, what tools and answers contain, log lines,
requests and notifications of the server, `probe` (a sequence of calls), a
deleted service that is created again under its old id, and a server that does not
read its input, for which the write before the timeout would wait for ever.

## 8. The rounds of a run

`RoundLoop` is the loop of `conversation_runner.py` (`execute`) from inside: the
`messages` the model is shown, its answers, the batches of `tool_execution_batch.py`,
the guidance of `user_guidance.py`, the plan of `plan_tracker.py`, the decisions
of `convergence.py` and the budget of `run_execution_state.py`. To `RunLifecycle`
all of that is one choice per round. A step is a stretch between two awaits; pauses and
stops are `RunLifecycle`'s, and only `Guide`, a user who adds guidance, interleaves.

* `StartRound` counts the round and pops guidance, which is judged (`Judged`)
  before the model is asked. `Exhausted` is the `else` of the loop.
* What comes of a request to the model: `ModelFails`, `IdleTimeout` (twice in a
  row ends the run), `Malformed` (told once), `Overtaken` by guidance that came
  meanwhile, `Answers`, `CallsTools`. All but the first two consume the transient
  notices that the request showed (`Consume`).
* `SkipCall` is a call of a truncated response; `StartCall` and `EndCall` a tool, with
  its step of the plan; `CallRaises` a tool that was disabled meanwhile. `EndBatch` adds
  the answers, the advice and the context pack, extends the budget, and adds the notice
  about a failing route or about files read. `Finalize` closes the plan.

`read`, `broken` and `gained` are history variables.

`round_loop` (one round, up to four with extensions by two, a plan of two steps,
two calls, a queue of two for three items of guidance) shows:

* `CallsAreAnswered`: each request is one that providers accept, although notices,
  packs and guidance are put in and taken out between the calls and their answers'
  neighbours. An `AdviceFirst` would be refused.
* `NoticesLastUntilRead`: a timeout keeps the notices for the next request, a
  response ends them, whichever of the five paths it takes.
* `GuidanceIsKept`: in order, once, oldest dropped only when the queue is full.
  It says *kept*, not *read*: guidance taken in the last round, or given during
  the finalization, is never shown to a model.
* `BudgetFollowsProgress`, `PlanFollowsTools`, `AnswerIsLast`, `RunEnds`. `AnswerIsLast` excepts the text of rounds that broke off, which is
  streamed before the error and stays in the answer. `PlanFollowsTools` excepts runs
  that end in an exception, whose plan stays as it was.

Two calls are enough for a failure to repeat, for a batch of two and for two
batches of one; three items for a full queue to lose one; four rounds for an
extension that is cut at the hard limit.

`RoundLoop_proofs` proves all six invariants, for any budget and extension, any plan,
any number of calls, and any amount of guidance and size of its queue. They rest on one inductive
invariant, `IInv` (theorem `Invariant`), whose parts are:

* `TypeOK` and `ControlInv`: where the executor is says which of the loop's variables mean
  something; two timeouts in a row have left the loop, a tool at work has a call that
  is not answered, the round under way has neither gained nor broken off.
* `CallsInv`, for `CallsAreAnswered`, which only speaks of requests: between rounds every call is
  followed by its answers, and while a batch is at work all but its own, which are
  the last message. The step from one to the other is `EndBatch`.
* `NoticeInv`: the notices in the messages are the ones that the executor remembers as
  transient, so that taking those out takes out all.
* `GuidanceInv`: guidance in the messages comes before what is being judged, and that before
  what is queued; the queue is without a gap, and each item is in one of the
  three or older than the queue is long.
* `BudgetInv`: a round with progress has extended the budget when the loop comes to its head.
* `AnswerInv`: text of a round that did not break off is the last in the answer.
* `PlanFollowsTools`, which is inductive together with the types.

The lemmas before them say what `\o`, `Append`, `SubSeq` and `Picked` (the elements of a
sequence that are kept) do to a list of messages. `Picked` finds each element by the rank of
its position and not with `SelectSeq`, which is recursive: of a recursion over data
nothing can be proved here. `PickedFacts` says that it keeps exactly the chosen elements, in order.

`RunEnds` is liveness and only model-checked. What makes it true is proved: `RoundsRunOut` says that
each step of the executor makes `Left` less and that guidance leaves it as it is, and
`NoEndlessDescent` that this cannot go on for ever. `Left` is, in lexicographic order, the rounds
to the limit that no extension passes (`HardLimit`), the stage of the round, and the calls of the
batch not done yet. Rounds that extend the budget, an empty answer that is retried and guidance that
sends the loop round again all take a round from it. Left to TLC is that some step is
possible until the run is over, which is about ENABLED.

Fairness: the steps of the executor. A model that is silent is an `IdleTimeout`, and
a tool that does not return is a case that section 6 leaves to it.

Left out: the context before the first round (section 10), texts, reasoning, images, usage, the
completion review (which nothing begins) and what the finalization asks the model.

## 9. Runs in the database

`RunPersistence` has many runs in `runtime.db`: `SqliteRunRepository` under
`RunStore`, `ProductTaskStore`, and `RunEventHub.emit`, which writes to both. Where
`RunLifecycle` asks what happens between awaits, here an action is one
transaction, and `Die` may come after any of them. `commit` is the transaction
that the handler at work makes next: nothing but the end of the process comes
between the two of one handler (`CreateRun`, `AttachRun`; `Emit`, `Launch` or `Act`
and `Sync`).

* The repository: `Store` is a transaction that ends with `_prune_runs`,
  `AppendEvent` is `append_event`, `NextSequence` its `MAX(sequence) + 1`.
* Startup, in the order of `build_runtime`: `Import` or `ImportNothing`;
  `RecoverOneRun`, one transaction each, and `RunsRecovered`; `RecoverTasks`.
* A run is its place in the order of creation, an event its number. `made`,
  `recorded`, `gone`, `cut` and `touched` are history variables.

`run_persistence` has two runs in the legacy document and two more, keeps one run and
two of its events, and lets a run have four. So the retention deletes runs at
work, imported runs, and runs before the import (the document may be readable
only at a later start); three events reach the limit and the fourth is cut
against a cut log.

* `EventsAreLatest`: the number of an event comes from the table and not from a
  counter, through cuts, imports and restarts. `CountSequence` repeats a number
  as soon as a log has been cut.
* `KeptAreNewest`: a run is deleted for a newer one only, whatever its status,
  and comes back neither with its executor's next event, for which
  `record_event` finds no run, nor with the document.
* `RecoveryIsComplete` after startups that died on their way, also for runs that were
  paused, and for tasks.
* `TasksAgree`: the two transactions of `emit` are not one. A crash between them
  leaves a task with the state before, for instance `completed` for a run whose
  replay has just been started; the startup then pauses it if it was at work, and no later
  step compares the two. The task of a deleted run is excepted: it stays as it was.

`RunPersistence_proofs` proves the types and the four invariants for any number
of runs, any limits, and any document of the two statuses. `NewestFacts` counts: `Newest`
keeps `KeepRuns` of them when there are as many, from the existence of a least and of a greatest
element. `StoreKeepsNewest` is the retention: what a transaction adds is
newer than all that is gone or older than all that is kept. The latter is the import, and
is why `RowsInv` must say that nothing of the document is there before it.
`LatestEvent` turns the log into its last row, from which `AppendLatest` follows.
`CommitInv` relates a handler's second transaction to its first, `LinkInv` the
run of a task to the task of the run, `AgreeInv` is `TasksAgree` inside a handler
and inside a startup.

Left out: columns no decision depends on, checkpoints and snapshots, the
migration of the schema, `JsonRunRepository`, a failing transaction, and two
runs with the same `created_at`.

## 10. What a model is told

`ContextWindow` is one conversation from its messages to the list that a run
works with. `ModelMessages` is `_build_model_messages` with
`sanitize_model_context`: guidance is skipped, turns that ended in a task are folded
into one marker where the first of them was (`Folded`, `Shown`), noise is condensed
(`Noisy`), and if anything was changed a notice stands at the head and the boundary before
the current request. `Lines` is the loop over the messages: the n-th line is that of the
message with n of those shown up to it.
`Compress` and `Summarized` are `compress_context` before and after its await:
`Older` and `Recent` cut the list, `Durable` takes the runtime's own messages out,
`Continues` is the check of the digest. Who compresses is the run (`Begin` makes the list,
`Fit` compresses it after the flushes between) or a request by hand (`CompressNow`), which may overlap; `Compressed` is what both
do with the result. `Ask`, `Answer`, `Post`, `Reply` and `Guide` add messages, `End` is
a run without an answer, and `Restart` leaves what is saved.

A summary is the set of messages its writer was given. That abstracts from what
a model makes of them, and is what continuing a summary can get wrong: a digest
that stands for other messages than the summary, messages told twice or not at all.
Two lists have the same digest when the messages and their forms are the same, so
`Continues` asks whether the stored messages are the first of the source.

`context_window`: a window of four (six in the code), up to seven messages, users that
quote process output, answers that are plain, failed or a task, one request by hand
beside the run. Seven messages and a window of four allow a summary to be made,
continued, overtaken and invalidated by a fold or by a request that is no longer
current.

* `SummaryIsExact`: whatever was cached, the run goes on with a summary of exactly
  what its window leaves out. Without the digest (`ContinuesAny`) a turn folded away
  would come back, or a message be forgotten. A model that answers with blanks leaves
  no summary, which the code accepts.
* `CurrentRequestStands`: the request is in the window as written, is the last
  one, and the boundary is before it. It depends on the window: a
  late answer of the non-streaming handler, which makes no reservation, is put behind
  the request, and as many of them as the window is long would push the request
  out. `MaxPosts` says how many such answers may be under way (one here). The window needs
  room for them, the request, its boundary and the recovery note of a resumed run:
  `Keep = MaxPosts + 3`, which the run takes exactly; with a window of four and two such
  answers TLC finds the request gone. The code's window of six allows three.

`ContextWindow_proofs` proves `SummaryStaysExact` for any window, kinds, number of
requests by hand and length. `SummaryIsExact` is not inductive, since a summary is
continued long after it was made: `StoredIsCoherent` says that the stored
summary is empty or made of exactly the messages behind its digest, and `JobsAreExact` that
what an awaiting compression will write is made of the source it will store with it,
which is what its list leaves out. The stored pair is replaced as a whole, so it
does not matter which of two compressions ends last.

`RequestStays` proves `CurrentRequestStands` for any kinds, length and compressions, with
`Keep >= MaxPosts + 3` as its only hypothesis. Two bounds make it inductive. `RequestInv`
is about the conversation: what stands behind the request of a run is neither a request nor
a task, and is guidance or one of at most `MaxPosts` answers, those still under way counted in.
`ListInv` is about the list made of it when the run began: `Stands` says that the request is there as
written, followed by at most `MaxPosts + 1` entries, all of later messages or of the runtime, and directly
behind the boundary if anything was changed, and a compression under way for the run works on that same list. `BeginStands` leads from the
one to the other through `ModelMessages`: guidance leaves no line, and no request behind the
current one is folded, since the last request has no task behind it. `RecentStands` says
that a window which leaves the first entries out keeps all this.

Left out: token counts (whether a list is too long is a choice), texts, the
system prompt at the head of every list, memories, the Context Pack, the
catalogue of attachments (a past message loses some of its text there, which
invalidates a digest as `"condensed"` does), and images. Of those the code says
that a request's images are attached if the *last* message of the list is the
user's (`conversation_runner.py:131`); a resumed run has its `Recovery` there, so its
images are not sent. A second run that begins while the first is being finalized
(section 3) is left out too.

## 11. Not modelled

See `components` with status `not_modelled`: pure I/O (skills, model HTTP
streams, file guards), text processing (classifiers, the Context Pack,
presenters), read-only reports, the panel and the desktop shell, and the parts
that the plan has left.
