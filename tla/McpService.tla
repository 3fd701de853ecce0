----------------------------- MODULE McpService -----------------------------
(***************************************************************************)
(* One MCP service that speaks over stdio: its configuration, its runtime   *)
(* (process, session, connection), the protocol session that matches        *)
(* answers with requests, and the tool calls that use it.                   *)
(*                                                                          *)
(* Operations (start, stop, restart, check) are coroutines of the requests  *)
(* that asked for them, of a run that needs the service, or of the start of *)
(* the Runtime; nothing keeps two from going on together.  A step is one    *)
(* stretch between two awaits.  The server answers in any order, late or    *)
(* never, and may die at any time.                                          *)
(* Left out: services reached by URL, what tools and answers contain, log   *)
(* lines, requests and notifications of the server, probe (a sequence of    *)
(* calls), and a deleted service that is created again under its old id.    *)
(* The service has one tool, which stands for each of its tools.  Servers   *)
(* read their input, so that writing a request does not block.              *)
(***************************************************************************)
EXTENDS Naturals, FiniteSets

CONSTANTS
    Users,         \* who starts, stops, restarts and checks the service
    Runs,          \* runs that need the service, and start it
    Callers,       \* who calls its tool
    MaxProcesses,  \* bound on the processes started
    MaxRequests,   \* bound on the calls and further pages of one session; the
                   \* code has none on the pages
    Controls       \* what else happens: "edit" (the service is enabled,
                   \* disabled or deleted), "check", "unready" (prerequisites
                   \* are missing, programs do not start), "auto" (starts that
                   \* nobody waits for)

ASSUME BoundsAssumption == MaxProcesses \in Nat /\ MaxRequests \in Nat
ASSUME ClientsAssumption == Users \cap Runs = {} /\ (Users \cup Runs) \cap Callers = {}

Operators == Users \cup Runs
Clients   == Operators \cup Callers
Processes == 1..MaxProcesses

VARIABLES
    config,      \* "enabled", "disabled", or "absent" once it is deleted
    diagnostic,  \* health of the tool in tool_diagnostics of the configuration
    process,     \* runtime.process, 0 if it is None
    session,     \* runtime.session: the process it talks to, 0 if it is None
    connected,   \* runtime.protocol_connected
    binding,     \* health of the tool in capability_bindings, "none" if unbound
    state,       \* runtime.state
    registered,  \* the tool is in the tool registry
    spawned,     \* number of processes started
    alive,       \* processes that run
    doomed,      \* processes that were told to terminate
    watched,     \* processes whose _watch_process still waits
    reading,     \* sessions whose reader task still reads
    nextId,      \* _next_id of the sessions
    pending,     \* keys of their _pending
    outstanding, \* requests that the server may still answer
    pc,          \* what clients do
    job,         \* the operation of an operator
    saw,         \* the configuration that a check read
    stopping,    \* the process that a stop waits for
    ask,         \* the request a client awaits
    fut,         \* outcome of its future
    got,         \* (history) the request whose answer the future holds
    untidy       \* (history) operations have overlapped; a process was started in
                 \* the place of one whose end had not been handled; or a process
                 \* ended before the handshake had gone on to its last answer

configVars   == <<config, diagnostic>>
runtimeVars  == <<process, session, connected, binding, state, registered>>
processVars  == <<spawned, alive, doomed, watched>>
protocolVars == <<reading, nextId, pending, outstanding>>
jobVars      == <<job, saw, stopping>>
askVars      == <<ask, fut, got>>
vars == <<configVars, runtimeVars, processVars, protocolVars, pc, jobVars, askVars, untidy>>

NoAsk     == [session |-> 0, id |-> 0, no |-> 0]
Handshake == {"initialize", "fallback", "list"}
Asking    == Handshake \cup {"call"}
Failures  == {"failure", "broken"}   \* McpProtocolError, or another exception
Outcomes  == {"result", "timeout"} \cup Failures
Jobs      == {"none", "start", "auto", "stop", "restart", "check"}
States    == {"disabled", "stopped", "starting", "running", "connected",
              "protocol_disconnected", "failed"}

\* The service has a process, and it has not exited.
Running == process \in alive

-----------------------------------------------------------------------------
(* The protocol session. *)

\* Variant for mutation: the ids of finished requests are used again.
ReusedId(p) == Cardinality(pending[p]) + 1

NewId(p) == nextId[p]

\* request up to its await, on a session whose process runs; entries is _pending.
Request(c, p, phase, entries) ==
    LET r == [session |-> p, id |-> NewId(p), no |-> nextId[p]]
    IN  /\ nextId' = [nextId EXCEPT ![p] = @ + 1]
        /\ pending' = [entries EXCEPT ![p] = @ \cup {r.id}]
        /\ outstanding' = outstanding \cup {x \in {r} : p \in reading'}
        /\ ask' = [ask EXCEPT ![c] = r]
        /\ fut' = [fut EXCEPT ![c] = "none"]
        /\ got' = [got EXCEPT ![c] = 0]
        /\ pc' = [pc EXCEPT ![c] = phase]

\* c awaits the entry id of session p.
Awaits(c, p, id) ==
    pc[c] \in Asking /\ ask[c].session = p /\ ask[c].id = id /\ fut[c] = "none"

\* Every future in _pending of session p gets an exception; gone have gone on.
FailAll(p, gone, how) == [c \in Clients |->
                            IF c \in gone THEN "none"
                            ELSE IF \E id \in pending[p] : Awaits(c, p, id) THEN how
                            ELSE fut[c]]

\* The session p reads no more; answers that nobody will read are dropped.
EndSession(p) ==
    /\ reading' = reading \ {p}
    /\ pending' = [q \in Processes |-> IF q = p THEN {} ELSE pending[q]]
    /\ outstanding' = {r \in outstanding : r.session # p}

\* _read_messages: an answer whose id is not pending is dropped.
Answer(r, outcome) ==
    /\ r.session \in reading
    /\ outstanding' = outstanding \ {r}
    /\ pending' = [pending EXCEPT ![r.session] = @ \ {r.id}]
    /\ LET mine == {c \in Clients : r.id \in pending[r.session]
                                       /\ Awaits(c, r.session, r.id)}
       IN  /\ fut' = [c \in Clients |-> IF c \in mine THEN outcome ELSE fut[c]]
           /\ got' = [c \in Clients |-> IF c \in mine /\ outcome = "result" THEN r.no ELSE got[c]]
    /\ UNCHANGED <<configVars, runtimeVars, processVars, reading, nextId, pc, jobVars,
                   ask, untidy>>

\* The reader fails what waits and stops, at the end of the output, or at a line
\* that is too long for it while the server goes on.
ReaderEnds(p, how) ==
    /\ p \in reading
    /\ fut' = FailAll(p, {}, how)
    /\ EndSession(p)
    /\ UNCHANGED <<configVars, runtimeVars, processVars, nextId, pc, jobVars, ask, got, untidy>>

\* Variant for mutation: requests have no time limit.
WakesWhenDone(c, outcome) == fut[c] # "none" /\ outcome = fut[c]

\* A client that awaits goes on: its future is done, or the time is up (which
\* wait_for may find even when the future is done).
Wakes(c, outcome) ==
    \/ fut[c] # "none" /\ outcome = fut[c]
    \/ outcome = "timeout"

\* pending once the client has gone on.
Popped(c, outcome) ==
    IF outcome = "timeout" THEN [pending EXCEPT ![ask[c].session] = @ \ {ask[c].id}]
    ELSE pending

-----------------------------------------------------------------------------
(* The connection. *)

\* Variant for mutation: the tools of a closed session stay registered.
DisconnectRuntime == /\ session' = 0
                     /\ connected' = FALSE
                     /\ binding' = "none"
                     /\ UNCHANGED registered

\* Variant for mutation: the connection outlives its session.
CloseOnly == session' = 0 /\ UNCHANGED <<connected, binding, registered>>

\* _disconnect_session, the runtime's part.
UnbindRuntime == /\ session' = 0
                 /\ connected' = FALSE
                 /\ binding' = "none"
                 /\ registered' = FALSE

\* _disconnect_session: whatever session the service has now is closed.
Disconnect(gone) ==
    IF config = "absent"
    THEN /\ registered' = FALSE
         /\ fut' = [c \in Clients |-> IF c \in gone THEN "none" ELSE fut[c]]
         /\ UNCHANGED <<session, connected, binding, reading, pending, outstanding>>
    ELSE /\ UnbindRuntime
         /\ IF session # 0
            THEN fut' = FailAll(session, gone, "failure") /\ EndSession(session)
            ELSE /\ fut' = [c \in Clients |-> IF c \in gone THEN "none" ELSE fut[c]]
                 /\ UNCHANGED <<reading, pending, outstanding>>

\* The client has its result.
Idle(c) == /\ pc' = [pc EXCEPT ![c] = "idle"]
           /\ ask' = [ask EXCEPT ![c] = NoAsk]
           /\ got' = [got EXCEPT ![c] = 0]

\* The operation is over, in the given state of the service; the loop that
\* starts services at the beginning notes an exception as a failure.
Over(o, s) == /\ Idle(o)
              /\ job' = [job EXCEPT ![o] = "none"]
              /\ saw' = [saw EXCEPT ![o] = "none"]
              /\ stopping' = [stopping EXCEPT ![o] = 0]
              /\ state' = s

Raised(o, s) == Over(o, IF job[o] = "auto" THEN "failed" ELSE s)

-----------------------------------------------------------------------------
(* start. *)

\* _bind_tools and the end of _connect_stdio.
Connect(o) ==
    /\ registered' = (config # "absent")
    /\ fut' = [fut EXCEPT ![o] = "none"]
    /\ IF config = "absent"
       THEN Raised(o, state) /\ UNCHANGED <<connected, binding>>
       ELSE Over(o, "connected") /\ binding' = diagnostic /\ connected' = TRUE
    /\ UNCHANGED <<configVars, process, session, processVars, protocolVars, untidy>>

\* Starts that may still start a process.
Claims == {o \in Operators : \/ pc[o] \in {"prerequisites", "spawn"}
                             \/ pc[o] = "terminating" /\ job[o] = "restart"}

\* Operations that change the connection.
Busy == {o \in Operators : pc[o] \notin {"idle", "checking"}}

Begin(o, j, phase) == /\ pc' = [pc EXCEPT ![o] = phase]
                      /\ job' = [job EXCEPT ![o] = j]
                      /\ saw' = [saw EXCEPT ![o] = IF phase = "checking" THEN config ELSE "none"]

\* Variant for mutation: it is the connection that counts.
NotConnected == ~connected

\* start may start a process.
Startable == ~Running

\* start up to its first await; a service that is not enabled raises at once.
Start(o, j) ==
    /\ pc[o] = "idle" /\ config = "enabled"
    /\ j = "auto" => "auto" \in Controls
    /\ untidy' = (untidy \/ Busy # {})
    /\ \/ /\ Startable
          /\ spawned + Cardinality(Claims) < MaxProcesses
          /\ Begin(o, j, "prerequisites")
          /\ UNCHANGED state
       \/ /\ Running /\ connected
          /\ Begin(o, j, "checking")
          /\ UNCHANGED state
       \/ /\ Running /\ ~connected
          /\ state' = IF j = "auto" THEN "failed" ELSE "protocol_disconnected"
          /\ UNCHANGED <<pc, job, saw>>
    /\ UNCHANGED <<configVars, process, session, connected, binding, registered, processVars,
                   protocolVars, stopping, askVars>>

\* Prerequisites are checked.
Prerequisites(o) ==
    /\ pc[o] = "prerequisites"
    /\ \/ /\ pc' = [pc EXCEPT ![o] = "spawn"]
          /\ state' = "starting"
          /\ UNCHANGED <<jobVars, ask, got>>
       \/ "unready" \in Controls /\ Raised(o, "failed")
    /\ UNCHANGED <<configVars, process, session, connected, binding, registered, processVars,
                   protocolVars, fut, untidy>>

\* create_subprocess_exec returns: the process is watched, and _connect_stdio
\* goes on to the first request.  A service deleted meanwhile has another
\* runtime, without a process.
Spawned(o) ==
    LET p == spawned + 1
    IN  /\ pc[o] = "spawn" /\ p \in Processes
        /\ spawned' = p
        /\ alive' = alive \cup {p}
        /\ watched' = watched \cup {p}
        /\ process' = p
        /\ untidy' = (untidy \/ process \notin alive \cup {0})
        /\ IF config = "absent"
           THEN Raised(o, "running") /\ UNCHANGED <<session, fut, protocolVars>>
           ELSE /\ session' = p
                /\ state' = "running"
                /\ reading' = reading \cup {p}
                /\ Request(o, p, "initialize", pending)
                /\ UNCHANGED jobVars
        /\ UNCHANGED <<configVars, connected, binding, registered, doomed>>

SpawnFails(o) ==
    /\ pc[o] = "spawn" /\ "unready" \in Controls
    /\ Raised(o, "failed")
    /\ UNCHANGED <<configVars, process, session, connected, binding, registered, processVars,
                   protocolVars, fut, untidy>>

\* The handshake goes on with another request, on the session it began with.
Ask(o, phase, outcome) ==
    /\ ask[o].session \in alive
    /\ UNCHANGED reading
    /\ Request(o, ask[o].session, phase, Popped(o, outcome))
    /\ UNCHANGED <<configVars, runtimeVars, processVars, jobVars, untidy>>

\* The handler of _connect_stdio disconnects whatever the service has now.
HandshakeFails(o) ==
    /\ Disconnect({o})
    /\ Raised(o, IF Running THEN "protocol_disconnected" ELSE "failed")
    /\ UNCHANGED <<configVars, process, processVars, nextId, untidy>>

\* connect, at the answer to initialize: on to the list of tools, or to a second
\* attempt with the older protocol version, unless the reader broke; nothing can be
\* sent to a dead process.
Initialized(o) ==
    \E outcome \in Outcomes :
        /\ pc[o] \in {"initialize", "fallback"} /\ Wakes(o, outcome)
        /\ \/ outcome = "result" /\ Ask(o, "list", outcome)
           \/ /\ outcome \in {"failure", "timeout"} /\ pc[o] = "initialize"
              /\ Ask(o, "fallback", outcome)
           \/ /\ \/ ask[o].session \notin alive
                 \/ outcome # "result" /\ pc[o] = "fallback"
                 \/ outcome = "broken"
              /\ HandshakeFails(o)

\* list_tools, at a page of the list: on to the next (for as long as the server
\* names one: only the model has a bound), or to the end of the handshake.  The
\* tools of a service deleted meanwhile cannot be bound.
Listed(o) ==
    \E outcome \in Outcomes :
        /\ pc[o] = "list" /\ Wakes(o, outcome)
        /\ \/ outcome = "result" /\ nextId[ask[o].session] <= MaxRequests /\ Ask(o, "list", outcome)
           \/ outcome = "result" /\ Connect(o)
           \/ /\ \/ ask[o].session \notin alive
                 \/ outcome # "result"
              /\ HandshakeFails(o)

-----------------------------------------------------------------------------
(* stop, restart, check. *)

\* The end of stop; a restart goes on with start, which needs an enabled service.
Stopped(o) ==
    IF job[o] = "restart" /\ config = "enabled"
    THEN /\ Begin(o, "restart", "prerequisites")
         /\ state' = "stopped"
         /\ stopping' = [stopping EXCEPT ![o] = 0]
         /\ UNCHANGED <<ask, got>>
    ELSE Over(o, IF config = "enabled" THEN "stopped" ELSE "disabled")

\* stop up to its wait: the session is closed first.
Stop(o, j) ==
    /\ pc[o] = "idle" /\ config # "absent"
    /\ j = "restart" => spawned + Cardinality(Claims) < MaxProcesses
    /\ untidy' = (untidy \/ Busy # {})
    /\ Disconnect({o})
    /\ \/ /\ Running
          /\ doomed' = doomed \cup {process}
          /\ Begin(o, j, "terminating")
          /\ stopping' = [stopping EXCEPT ![o] = process]
          /\ UNCHANGED <<process, state, ask, got>>
       \/ /\ ~Running
          /\ process' = 0
          /\ IF j = "restart" /\ config = "enabled"
             THEN /\ Begin(o, "restart", "prerequisites")
                  /\ state' = "stopped"
                  /\ UNCHANGED <<stopping, ask, got>>
             ELSE Over(o, IF config = "enabled" THEN "stopped" ELSE "disabled")
          /\ UNCHANGED doomed
    /\ UNCHANGED <<configVars, spawned, alive, watched, nextId>>

\* Its process has exited (the watcher has waited longer and goes first).
Terminated(o) ==
    /\ pc[o] = "terminating" /\ stopping[o] \notin alive \cup watched
    /\ process' = 0
    /\ IF config = "absent" THEN Over(o, state) ELSE Stopped(o)
    /\ UNCHANGED <<configVars, session, connected, binding, registered, processVars,
                   protocolVars, fut, untidy>>

\* check up to its first await.
Check(o) ==
    /\ "check" \in Controls /\ pc[o] = "idle" /\ config # "absent"
    /\ Begin(o, "check", "checking")
    /\ UNCHANGED <<configVars, runtimeVars, processVars, protocolVars, stopping, askVars, untidy>>

\* The state of a service whose configuration was read as c.
Checked(c) ==
    IF c = "disabled" THEN "disabled"
    ELSE IF Running THEN IF connected THEN "connected" ELSE "protocol_disconnected"
    ELSE IF process # 0 THEN "failed" ELSE "stopped"

\* Prerequisites are checked, and the configuration may have changed since.
CheckEnds(o) ==
    /\ pc[o] = "checking"
    /\ Over(o, Checked(saw[o]))
    /\ UNCHANGED <<configVars, process, session, connected, binding, registered, processVars,
                   protocolVars, fut, untidy>>

-----------------------------------------------------------------------------
(* The configuration. *)

\* upsert: what the configuration does not say is kept, the diagnostics too.
Edit ==
    /\ "edit" \in Controls /\ config # "absent"
    /\ \E c \in {"enabled", "disabled"} :
          /\ config' = c
          /\ state' = IF c = "disabled" /\ process = 0 THEN "disabled" ELSE state
    /\ UNCHANGED <<diagnostic, process, session, connected, binding, registered, processVars,
                   protocolVars, pc, jobVars, askVars, untidy>>

\* delete refuses a service that runs or is connected.
Deletable == ~Running /\ ~connected

Delete ==
    /\ "edit" \in Controls /\ config # "absent" /\ Deletable
    /\ config' = "absent"
    /\ registered' = FALSE
    /\ UNCHANGED <<diagnostic, process, session, connected, binding, state, processVars,
                   protocolVars, pc, jobVars, askVars, untidy>>

-----------------------------------------------------------------------------
(* Tool calls. *)

\* _update_binding_health: the tool as it is bound now, and the diagnostic cache.
Health(health) ==
    /\ binding' = IF binding = "none" THEN "none" ELSE health
    /\ diagnostic' = IF config = "absent" THEN diagnostic ELSE health

\* call_tool up to its await; the process may be gone.
Call(c) ==
    /\ pc[c] = "idle" /\ config # "absent" /\ connected /\ session # 0
    /\ nextId[session] <= MaxRequests
    /\ \/ /\ session \in alive
          /\ UNCHANGED reading
          /\ Request(c, session, "call", pending)
          /\ UNCHANGED <<binding, diagnostic>>
       \/ /\ session \notin alive
          /\ Health("degraded")
          /\ UNCHANGED <<protocolVars, pc, askVars>>
    /\ UNCHANGED <<config, process, session, connected, state, registered, processVars,
                   jobVars, untidy>>

\* The call has its answer, or fails.
CallEnds(c) ==
    \E outcome \in Outcomes :
        /\ pc[c] = "call" /\ Wakes(c, outcome)
        /\ pending' = Popped(c, outcome)
        /\ Health(IF outcome = "result" THEN "available" ELSE "degraded")
        /\ Idle(c)
        /\ fut' = [fut EXCEPT ![c] = "none"]
        /\ UNCHANGED <<config, process, session, connected, state, registered, processVars,
                       reading, nextId, outstanding, jobVars, untidy>>

-----------------------------------------------------------------------------
(* The process. *)

\* It exits, told to or not.
Exits(p) ==
    /\ p \in alive
    /\ alive' = alive \ {p}
    /\ doomed' = doomed \ {p}
    /\ UNCHANGED <<configVars, runtimeVars, spawned, watched, protocolVars, pc, jobVars,
                   askVars, untidy>>

\* Variant for mutation: the condition is the wrong way round.
IsReplaced(p) == config # "absent" /\ process # p

\* The watcher's process is still the service's.
IsCurrent(p) == config # "absent" /\ process = p

\* (history) A handshake has its answer and has not gone on.
Overtaken == \E o \in Operators : pc[o] \in Handshake /\ fut[o] = "result"

\* _watch_process after the exit.
Watch(p) ==
    /\ p \in watched \ alive
    /\ untidy' = (untidy \/ Overtaken)
    /\ watched' = watched \ {p}
    /\ \/ /\ IsCurrent(p)
          /\ process' = 0
          /\ Disconnect({})
          /\ state' \in {"stopped", "failed"}
       \/ /\ ~IsCurrent(p)
          /\ UNCHANGED <<runtimeVars, reading, pending, outstanding, fut>>
    /\ UNCHANGED <<configVars, spawned, alive, doomed, nextId, pc, jobVars, ask, got>>

-----------------------------------------------------------------------------
Init ==
    /\ config \in {"enabled", "disabled"} /\ diagnostic \in {"available", "degraded"}
    /\ process = 0 /\ session = 0 /\ connected = FALSE /\ binding = "none"
    /\ state = IF config = "enabled" THEN "stopped" ELSE "disabled"
    /\ registered = FALSE
    /\ spawned = 0 /\ alive = {} /\ doomed = {} /\ watched = {} /\ reading = {}
    /\ nextId = [p \in Processes |-> 1] /\ pending = [p \in Processes |-> {}]
    /\ outstanding = {}
    /\ pc = [c \in Clients |-> "idle"]
    /\ job = [o \in Operators |-> "none"] /\ saw = [o \in Operators |-> "none"]
    /\ stopping = [o \in Operators |-> 0]
    /\ ask = [c \in Clients |-> NoAsk] /\ fut = [c \in Clients |-> "none"]
    /\ got = [c \in Clients |-> 0]
    /\ untidy = FALSE

Operate(u) == \/ \E j \in {"start", "auto"} : Start(u, j)
              \/ \E j \in {"stop", "restart"} : Stop(u, j)
              \/ Check(u)

GoesOn(o) == \/ Prerequisites(o) \/ Spawned(o) \/ SpawnFails(o) \/ Initialized(o)
             \/ Listed(o) \/ Terminated(o) \/ CheckEnds(o)

Next == \/ \E u \in Users : Operate(u)
        \/ \E r \in Runs : ~connected /\ Start(r, "start")
        \/ \E o \in Operators : GoesOn(o)
        \/ \E c \in Callers : Call(c) \/ CallEnds(c)
        \/ \E r \in outstanding, outcome \in {"result", "failure"} : Answer(r, outcome)
        \/ \E p \in Processes : Exits(p) \/ Watch(p) \/ \E how \in Failures : ReaderEnds(p, how)
        \/ Edit \/ Delete

Spec == Init /\ [][Next]_vars

\* Everything that is under way goes on; a process that was told to terminate
\* is killed in the end, and no request lasts longer than its time.
Fairness ==
    /\ \A o \in Operators : WF_vars(GoesOn(o))
    /\ \A c \in Callers : WF_vars(CallEnds(c))
    /\ \A p \in Processes : WF_vars(Watch(p)) /\ WF_vars(p \in doomed /\ Exits(p))

FairSpec == Spec /\ Fairness

-----------------------------------------------------------------------------
Requests == [session : Processes \cup {0}, id : Nat, no : Nat]

TypeOK ==
    /\ config \in {"enabled", "disabled", "absent"}
    /\ diagnostic \in {"available", "degraded"}
    /\ process \in Processes \cup {0} /\ session \in Processes \cup {0}
    /\ connected \in BOOLEAN /\ registered \in BOOLEAN
    /\ binding \in {"none", "available", "degraded"}
    /\ state \in States
    /\ spawned \in 0..MaxProcesses
    /\ alive \subseteq 1..spawned /\ doomed \subseteq alive
    /\ watched \subseteq 1..spawned /\ reading \subseteq 1..spawned
    /\ nextId \in [Processes -> Nat] /\ pending \in [Processes -> SUBSET Nat]
    /\ outstanding \subseteq Requests
    /\ pc \in [Clients -> {"idle", "prerequisites", "spawn", "terminating", "checking"} \cup Asking]
    /\ job \in [Operators -> Jobs]
    /\ saw \in [Operators -> {"none", "enabled", "disabled"}]
    /\ stopping \in [Operators -> Processes \cup {0}]
    /\ ask \in [Clients -> Requests]
    /\ fut \in [Clients -> {"none", "result"} \cup Failures]
    /\ got \in [Clients -> Nat]
    /\ untidy \in BOOLEAN

\* Whatever times out, is answered late or is closed, the answer a client gets is
\* the one to the request it awaits.
AnswerIsOwn ==
    \A c \in Clients : fut[c] = "result" => got[c] = ask[c].no

\* The tool is in the registry, and its binding known, exactly while the protocol
\* is connected.
ToolsFollowConnection ==
    config # "absent" => (registered <=> connected) /\ (binding # "none" <=> connected)

\* The health of the bound tool is what the diagnostic cache says, across calls
\* that fail on an old connection, reconnects and edits.
HealthIsDiagnosed == binding # "none" => binding = diagnostic

\* A process that runs is the one the service knows, or was told to terminate, as
\* long as operations do not overlap and nothing is deleted.
NoOrphan ==
    ~untidy /\ config # "absent" => \A p \in alive : p = process \/ p \in doomed

\* As long as operations do not overlap, a connected service has a session with
\* the process it knows, and the handshake on it is over. The session is set: its
\* reader may have broken off, and then its requests fail or time out.
ConnectedIsServed ==
    ~untidy /\ connected => /\ session # 0 /\ session = process
                            /\ \A o \in Operators : pc[o] \notin Handshake

\* A client whose request can still be answered is known to the session.
WaitingIsKnown ==
    \A r \in outstanding, c \in Clients :
        ask[c] = r /\ pc[c] \in Asking /\ fut[c] = "none" => r.id \in pending[r.session]

\* Tools are registered while a process may serve them, as the documentation has
\* it: "A disconnected MCP service must not leave apparently callable tools".
ToolsHaveAServer == registered => process # 0

AsksForPage(c) == pc'[c] = "list" /\ ask'[c] # ask[c]

\* Whatever the server answers or leaves unanswered, operations and calls end.  The
\* exception is a start whose server names a next page of its tools for ever: it
\* asks for page after page.
EverythingEnds ==
    \A c \in Clients : []<>(pc[c] = "idle") \/ []<><<AsksForPage(c)>>_vars

\* When the process that serves the connection is gone, the service notices.
DeathIsNoticed == \A p \in Processes : connected /\ process = p /\ p \notin alive
                                          ~> process # p \/ config = "absent"

=============================================================================
