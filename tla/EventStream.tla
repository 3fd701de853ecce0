----------------------------- MODULE EventStream -----------------------------
(***************************************************************************)
(* How the events of one Run reach its readers: RunEventHub records an     *)
(* event and offers it to a bounded queue per subscriber; the handler of   *)
(* the message stream (a follower) is subscribed before the executor       *)
(* starts, the handler of /runs/{id}/events/stream (a watcher) first       *)
(* replays the recorded events and subscribes afterwards.  Every flush of  *)
(* a handler is a point where the run goes on.                             *)
(*                                                                         *)
(* Left out: the payload of events, heartbeats, and the cursor's text.     *)
(***************************************************************************)
EXTENDS RunRecord, Naturals, Sequences

CONSTANTS
    Followers,   \* POST /conversations/{id}/messages/stream handlers
    Watchers,    \* GET /runs/{id}/events/stream handlers
    KeepEvents,  \* RunStore.keep_events
    QueueSize,   \* RunEventHub.queue_size
    MaxEvents    \* bound on the events of the run

ASSUME StreamsAssumption == Followers \cap Watchers = {}
ASSUME LimitsAssumption  == /\ KeepEvents \in Nat \ {0} /\ QueueSize \in Nat \ {0}
                            /\ MaxEvents \in Nat \ {0}

VARIABLES
    status,   \* recorded status of the run
    log,      \* ids of the recorded events that are kept
    emitted,  \* events emitted so far; the id of the latest
    working,  \* the executor's task is not done
    where,    \* where each stream handler is
    seen,     \* status in the copy of the record a watcher opened with
    last,     \* kind of the event a handler has just written
    queue,    \* subscriber queues
    sent,     \* ids written to each client
    closed    \* the client has gone

vars == <<status, log, emitted, working, where, seen, last, queue, sent, closed>>

Streams       == Followers \cup Watchers
Subscribed(s) == where[s] \in {"waiting", "flushing"}

-----------------------------------------------------------------------------
(* Events of the run, by kind. *)

RecordOf == [ status  |-> StatusEvent("thinking"),
              stopped |-> StatusEvent("stopped"),
              retry   |-> RecoverableError,
              error   |-> TerminalError,
              done    |-> DoneEvent("success") ]

\* Model tokens and tool logs are broadcast and not recorded.
Recorded(kind) == kind \in DOMAIN RecordOf

\* Variant for mutation: a full queue drops the new event.
OfferIfRoom(q, e) == IF Len(q) < QueueSize THEN Append(q, e) ELSE q

\* _broadcast: a full queue drops its oldest event.
Offer(q, e) == Append(IF Len(q) < QueueSize THEN q ELSE Tail(q), e)

Kept(events) ==
    SubSeq(events, 1 + (IF Len(events) > KeepEvents THEN Len(events) - KeepEvents ELSE 0),
           Len(events))

\* RunEventHub.emit.
Emit(kind) ==
    LET id == emitted + 1 IN
    /\ emitted' = id
    /\ IF Recorded(kind)
       THEN /\ log' = Kept(Append(log, id))
            /\ status' = RecordEvent(status, RecordOf[kind])
       ELSE UNCHANGED <<log, status>>
    /\ queue' = [s \in Streams |->
                   IF Subscribed(s) THEN Offer(queue[s], [id |-> id, kind |-> kind])
                                    ELSE queue[s]]
    /\ UNCHANGED <<where, seen, last, sent, closed>>

\* The executor reports progress, or a model error it will retry.
Progress(kind) ==
    /\ working /\ emitted + 1 < MaxEvents
    /\ Emit(kind) /\ UNCHANGED working

\* The last event: the executor completes or fails, or a stop is recorded and
\* the executor cancelled; the flush before it returns changes nothing here.
Close(kind) ==
    /\ working /\ emitted < MaxEvents
    /\ Emit(kind) /\ working' = FALSE

-----------------------------------------------------------------------------
(* Stream handlers. *)

runVars == <<status, log, emitted, working>>

Leave(s) ==
    /\ where' = [where EXCEPT ![s] = "gone"]
    /\ queue' = [queue EXCEPT ![s] = << >>]

\* A watcher takes a copy of the record and writes its events from the cursor.
Open(s, cursor) ==
    /\ s \in Watchers /\ where[s] = "idle"
    /\ sent' = [sent EXCEPT ![s] = SubSeq(log, cursor + 1, Len(log))]
    /\ seen' = [seen EXCEPT ![s] = status]
    /\ where' = [where EXCEPT ![s] = "replaying"]
    /\ UNCHANGED <<runVars, last, queue, closed>>

\* Variant for mutation: the events are read again after the flush, to catch up.
ReplayedTwice(s) ==
    /\ where[s] = "replaying" /\ ~closed[s]
    /\ IF seen[s] \in FinishedStatuses
       THEN where' = [where EXCEPT ![s] = "gone"] /\ UNCHANGED sent
       ELSE /\ where' = [where EXCEPT ![s] = "waiting"]
            /\ sent' = [sent EXCEPT ![s] = @ \o log]
    /\ UNCHANGED <<runVars, seen, last, queue, closed>>

\* The flush of the replay is over: the status of the copy decides whether the
\* watcher ends or subscribes.
Replayed(s) ==
    /\ where[s] = "replaying" /\ ~closed[s]
    /\ where' = [where EXCEPT ![s] = IF seen[s] \in FinishedStatuses THEN "gone"
                                                                     ELSE "waiting"]
    /\ UNCHANGED <<runVars, seen, last, queue, sent, closed>>

\* The next event of the queue is written, and the handler awaits the flush.
Take(s) ==
    /\ where[s] = "waiting" /\ queue[s] # << >>
    /\ sent' = [sent EXCEPT ![s] = Append(@, Head(queue[s]).id)]
    /\ last' = [last EXCEPT ![s] = Head(queue[s]).kind]
    /\ queue' = [queue EXCEPT ![s] = Tail(@)]
    /\ where' = [where EXCEPT ![s] = "flushing"]
    /\ UNCHANGED <<runVars, seen, closed>>

\* Variant for mutation: only a completed run closes a watcher.
EndsOnDone(s, kind) == kind = "done"

\* The kinds after which a handler ends: a watcher takes every error for the
\* end, a follower only a terminal one.
Ends(s, kind) ==
    \/ kind \in {"done", "error"}
    \/ kind = "retry" /\ s \in Watchers

Flushed(s) ==
    /\ where[s] = "flushing" /\ ~(closed[s] /\ s \in Watchers)
    /\ IF Ends(s, last[s])
       THEN Leave(s)
       ELSE where' = [where EXCEPT ![s] = "waiting"] /\ UNCHANGED queue
    /\ UNCHANGED <<runVars, seen, last, sent, closed>>

\* Variant for mutation: the follower does not look at the executor's task.
FollowerEndsIfClosed(s) ==
    /\ s \in Followers /\ where[s] = "waiting"
    /\ closed[s]
    /\ Leave(s)
    /\ UNCHANGED <<runVars, seen, last, sent, closed>>

\* The head of the follower's loop, after an event or a heartbeat.
FollowerEnds(s) ==
    /\ s \in Followers /\ where[s] = "waiting"
    /\ closed[s] \/ (~working /\ queue[s] = << >>)
    /\ Leave(s)
    /\ UNCHANGED <<runVars, seen, last, sent, closed>>

\* A flush of a watcher, of its replay, an event or a heartbeat, fails.
WatcherFails(s) ==
    /\ s \in Watchers /\ where[s] \in {"replaying", "waiting", "flushing"} /\ closed[s]
    /\ Leave(s)
    /\ UNCHANGED <<runVars, seen, last, sent, closed>>

Disconnect(s) ==
    /\ where[s] \notin {"idle", "gone"} /\ ~closed[s]
    /\ closed' = [closed EXCEPT ![s] = TRUE]
    /\ UNCHANGED <<runVars, where, seen, last, queue, sent>>

HandlerStep(s) ==
    Replayed(s) \/ Take(s) \/ Flushed(s) \/ FollowerEnds(s) \/ WatcherFails(s)

-----------------------------------------------------------------------------
Init ==
    /\ status = "running" /\ log = << >> /\ emitted = 0 /\ working = TRUE
    /\ where = [s \in Streams |-> IF s \in Followers THEN "waiting" ELSE "idle"]
    /\ seen = [s \in Streams |-> "running"]
    /\ last = [s \in Streams |-> "none"]
    /\ queue = [s \in Streams |-> << >>]
    /\ sent = [s \in Streams |-> << >>]
    /\ closed = [s \in Streams |-> FALSE]

Next ==
    \/ \E kind \in {"token", "status", "retry"} : Progress(kind)
    \/ \E kind \in {"done", "error", "stopped"} : Close(kind)
    \/ \E s \in Streams : HandlerStep(s) \/ Disconnect(s)
    \/ \E s \in Watchers, cursor \in 0..KeepEvents : Open(s, cursor)

Spec == Init /\ [][Next]_vars

\* A handler runs to its next await whenever it can; a wait for an event ends
\* with a heartbeat after 15 seconds, and the loop looks around.
FairSpec == Spec /\ \A s \in Streams : WF_vars(HandlerStep(s))

-----------------------------------------------------------------------------
(* Properties. *)

Kinds == {"token", "status", "retry", "done", "error", "stopped"}
Event == [id : Nat, kind : Kinds]

\* Every variable has its type; the log and the queues stay within their limits.
TypeOK ==
    /\ status \in {"running", "success", "failure", "stopped"} /\ working \in BOOLEAN
    /\ emitted \in 0..MaxEvents
    /\ log \in Seq(Nat) /\ Len(log) <= KeepEvents
    /\ where \in [Streams -> {"idle", "replaying", "waiting", "flushing", "gone"}]
    /\ seen \in [Streams -> {"running", "success", "failure", "stopped"}]
    /\ last \in [Streams -> Kinds \cup {"none"}]
    /\ queue \in [Streams -> Seq(Event)]
    /\ \A s \in Streams : Len(queue[s]) <= QueueSize
    /\ sent \in [Streams -> Seq(Nat)]
    /\ closed \in [Streams -> BOOLEAN]

\* A client is never told an event twice or before an earlier one, whatever
\* the queue drops and wherever the replay began.
SentInOrder ==
    \A s \in Streams : \A i, j \in 1..Len(sent[s]) : i < j => sent[s][i] < sent[s][j]

\* A follower whose client stays is told how the run ended: a full queue may
\* cost it progress, never the last event.
FollowerSeesTheEnd ==
    \A s \in Followers : where[s] = "gone" /\ ~closed[s] =>
        /\ ~working
        /\ sent[s] # << >> /\ sent[s][Len(sent[s])] = emitted

\* Once the executor's task is done, however it ended, every follower ends and
\* with it its reservation of the conversation.
FollowersEnd ==
    \A s \in Followers : ~working ~> where[s] = "gone"

\* A watcher that had subscribed before the run completed or failed ends.
WatchersEnd ==
    \A s \in Watchers :
        Subscribed(s) /\ working ~>
            (where[s] = "gone" \/ status = "stopped" \/ []working)
=============================================================================
