-------------------------- MODULE McpService_proofs --------------------------
(***************************************************************************)
(* Proofs about McpService, for any clients, bounds and controls: types,    *)
(* answers that are one's own, tools that follow the connection, health     *)
(* that is the one diagnosed, and requests that stay known while they can   *)
(* be answered; no orphans and a connection that is served as long as       *)
(* operations do not overlap; processes that are watched until they are     *)
(* taken away.                                                              *)
(***************************************************************************)
EXTENDS McpService, TLAPS

-----------------------------------------------------------------------------
(* Types. *)

Phases == {"idle", "prerequisites", "spawn", "terminating", "checking"} \cup Asking

AskTyped == /\ pc \in [Clients -> Phases]
            /\ ask \in [Clients -> Requests]
            /\ got \in [Clients -> Nat]

JobTyped == /\ job \in [Operators -> Jobs]
            /\ saw \in [Operators -> {"none", "enabled", "disabled"}]
            /\ stopping \in [Operators -> Processes \cup {0}]
            /\ state \in States

LinkTyped == /\ session \in Processes \cup {0}
             /\ connected \in BOOLEAN /\ registered \in BOOLEAN
             /\ binding \in {"none", "available", "degraded"}

WireTyped == /\ reading \subseteq 1..spawned
             /\ pending \in [Processes -> SUBSET Nat]
             /\ outstanding \subseteq Requests

\* The reader ends, and what waits fails in one way or the other.
ReaderStops(p) == \E how \in Failures : ReaderEnds(p, how)

FutTyped == fut \in [Clients -> {"none", "result", "failure", "broken"}]

RestTyped == /\ config \in {"enabled", "disabled", "absent"}
             /\ diagnostic \in {"available", "degraded"}
             /\ process \in Processes \cup {0}
             /\ spawned \in 0..MaxProcesses
             /\ alive \subseteq 1..spawned /\ doomed \subseteq alive
             /\ watched \subseteq 1..spawned
             /\ nextId \in [Processes -> Nat]
             /\ untidy \in BOOLEAN

LEMMA FutOutcomes == {"none", "result"} \cup Failures = {"none", "result", "failure", "broken"}
BY DEF Failures

LEMMA TypeParts ==
    TypeOK <=> AskTyped /\ JobTyped /\ LinkTyped /\ WireTyped /\ FutTyped /\ RestTyped
BY FutOutcomes DEF TypeOK, AskTyped, JobTyped, LinkTyped, WireTyped, FutTyped, RestTyped, Phases

LEMMA TypePartsNext ==
    TypeOK' <=> AskTyped' /\ JobTyped' /\ LinkTyped' /\ WireTyped' /\ FutTyped' /\ RestTyped'
BY FutOutcomes DEF TypeOK, AskTyped, JobTyped, LinkTyped, WireTyped, FutTyped, RestTyped, Phases

LEMMA OperatorIsClient == Operators \subseteq Clients
BY DEF Clients

LEMMA CallerIsClient == Callers \subseteq Clients
BY DEF Clients

LEMMA NoAskTyped == NoAsk \in Requests
BY DEF NoAsk, Requests

LEMMA IdleTyped == ASSUME NEW c \in Clients, AskTyped, Idle(c) PROVE AskTyped'
BY NoAskTyped DEF AskTyped, Idle, Phases

LEMMA OverTyped ==
    ASSUME AskTyped, JobTyped, NEW o \in Operators, NEW s \in States, Over(o, s)
    PROVE  AskTyped' /\ JobTyped'
<1>1. AskTyped' BY IdleTyped, OperatorIsClient DEF Over
<1>2. JobTyped' BY DEF Over, JobTyped, Jobs
<1> QED BY <1>1, <1>2

LEMMA RaisedTyped ==
    ASSUME AskTyped, JobTyped, NEW o \in Operators, NEW s \in States, Raised(o, s)
    PROVE  AskTyped' /\ JobTyped'
<1>1. CASE job[o] = "auto"
  <2>1. Over(o, "failed") /\ "failed" \in States BY <1>1 DEF Raised, States
  <2> QED BY <2>1, OverTyped
<1>2. CASE job[o] # "auto"
  <2>1. Over(o, s) BY <1>2 DEF Raised
  <2> QED BY <2>1, OverTyped
<1> QED BY <1>1, <1>2

LEMMA BeginTyped ==
    ASSUME AskTyped, RestTyped, JobTyped, NEW o \in Operators, NEW j \in Jobs,
           NEW phase \in Phases, Begin(o, j, phase),
           phase = "checking" => config # "absent"
    PROVE  /\ pc' \in [Clients -> Phases]
           /\ job' \in [Operators -> Jobs]
           /\ saw' \in [Operators -> {"none", "enabled", "disabled"}]
BY OperatorIsClient DEF Begin, AskTyped, RestTyped, JobTyped

LEMMA FailAllTyped ==
    ASSUME FutTyped, NEW p, NEW gone, NEW how \in Failures
    PROVE  FailAll(p, gone, how) \in [Clients -> {"none", "result", "failure", "broken"}]
BY DEF FailAll, FutTyped, Failures

LEMMA EndSessionTyped ==
    ASSUME WireTyped, NEW p, EndSession(p), spawned' = spawned
    PROVE  WireTyped'
BY DEF WireTyped, EndSession

LEMMA DisconnectTyped ==
    ASSUME LinkTyped, WireTyped, FutTyped, NEW gone, Disconnect(gone), spawned' = spawned
    PROVE  LinkTyped' /\ WireTyped' /\ FutTyped'
<1>1. LinkTyped' BY DEF Disconnect, UnbindRuntime, LinkTyped
<1>2. CASE config # "absent" /\ session # 0
  <2>1. fut' = FailAll(session, gone, "failure") /\ EndSession(session) BY <1>2 DEF Disconnect
  <2> QED BY <1>1, <2>1, FailAllTyped, EndSessionTyped DEF FutTyped, Failures
<1>3. CASE config = "absent" \/ session = 0
  <2>1. /\ fut' = [c \in Clients |-> IF c \in gone THEN "none" ELSE fut[c]]
        /\ UNCHANGED <<reading, pending, outstanding>>
    BY <1>3 DEF Disconnect
  <2> QED BY <1>1, <2>1 DEF WireTyped, FutTyped
<1> QED BY <1>2, <1>3

LEMMA RequestTyped ==
    ASSUME AskTyped, WireTyped, FutTyped, nextId \in [Processes -> Nat],
           NEW c \in Clients, NEW p \in Processes, NEW phase \in Phases,
           NEW entries \in [Processes -> SUBSET Nat],
           Request(c, p, phase, entries)
    PROVE  /\ AskTyped' /\ FutTyped'
           /\ nextId' \in [Processes -> Nat]
           /\ pending' \in [Processes -> SUBSET Nat]
           /\ outstanding' \subseteq Requests
<1> DEFINE r == [session |-> p, id |-> nextId[p], no |-> nextId[p]]
<1>1. r \in Requests BY DEF Requests
<1>2. /\ nextId' = [nextId EXCEPT ![p] = @ + 1]
      /\ pending' = [entries EXCEPT ![p] = @ \cup {nextId[p]}]
      /\ outstanding' = outstanding \cup {x \in {r} : p \in reading'}
      /\ ask' = [ask EXCEPT ![c] = r]
      /\ fut' = [fut EXCEPT ![c] = "none"]
      /\ got' = [got EXCEPT ![c] = 0]
      /\ pc' = [pc EXCEPT ![c] = phase]
  BY DEF Request, NewId
<1> HIDE DEF r
<1>3. nextId' \in [Processes -> Nat] BY <1>2
<1>4. pending' \in [Processes -> SUBSET Nat] BY <1>2
<1>5. outstanding' \subseteq Requests BY <1>1, <1>2 DEF WireTyped
<1>6. AskTyped' BY <1>1, <1>2 DEF AskTyped
<1>7. FutTyped' BY <1>2 DEF FutTyped
<1> QED BY <1>3, <1>4, <1>5, <1>6, <1>7

LEMMA PoppedTyped ==
    ASSUME WireTyped, NEW c, NEW outcome
    PROVE  Popped(c, outcome) \in [Processes -> SUBSET Nat]
BY DEF WireTyped, Popped

LEMMA HealthTyped ==
    ASSUME LinkTyped, RestTyped, NEW health \in {"available", "degraded"}, Health(health)
    PROVE  /\ binding' \in {"none", "available", "degraded"}
           /\ diagnostic' \in {"available", "degraded"}
BY DEF LinkTyped, RestTyped, Health

LEMMA TypeInit == ASSUME Init PROVE TypeOK
<1> USE BoundsAssumption DEF Init
<1>1. AskTyped BY NoAskTyped DEF AskTyped, Phases
<1>2. JobTyped BY DEF JobTyped, Jobs, States
<1>3. LinkTyped /\ WireTyped /\ FutTyped BY DEF LinkTyped, WireTyped, FutTyped
<1>4. nextId \in [Processes -> Nat] OBVIOUS
<1>5. 0 \in 0..MaxProcesses OBVIOUS
<1>6. RestTyped BY <1>4, <1>5 DEF RestTyped
<1> QED BY <1>1, <1>2, <1>3, <1>6, TypeParts

\* start, up to the first request of the handshake.
LEMMA TypeStart ==
    ASSUME TypeOK, NEW o \in Operators,
           (\E j \in {"start", "auto"} : Start(o, j)) \/ Prerequisites(o) \/ SpawnFails(o)
    PROVE  TypeOK'
<1> USE TypeParts, TypePartsNext
<1>1. ASSUME NEW j \in {"start", "auto"}, Start(o, j) PROVE TypeOK'
  <2>1. /\ LinkTyped' /\ WireTyped' /\ FutTyped'
        /\ stopping' = stopping /\ ask' = ask /\ got' = got
    BY <1>1 DEF Start, LinkTyped, WireTyped, FutTyped, processVars, protocolVars, askVars
  <2>2. RestTyped' BY <1>1 DEF Start, RestTyped, configVars, processVars, protocolVars
  <2>3. j \in Jobs /\ state' \in States
    BY <1>1 DEF Start, Jobs, JobTyped, States
  <2>4. /\ pc' \in [Clients -> Phases]
        /\ job' \in [Operators -> Jobs]
        /\ saw' \in [Operators -> {"none", "enabled", "disabled"}]
    <3>1. CASE UNCHANGED <<pc, job, saw>> BY <3>1 DEF AskTyped, JobTyped
    <3>2. ASSUME NEW phase \in {"prerequisites", "checking"}, Begin(o, j, phase)
          PROVE  /\ pc' \in [Clients -> Phases]
                 /\ job' \in [Operators -> Jobs]
                 /\ saw' \in [Operators -> {"none", "enabled", "disabled"}]
      <4>1. phase \in Phases /\ config # "absent" BY <1>1 DEF Start, Phases
      <4> QED BY <3>2, <4>1, <2>3, BeginTyped
    <3> QED BY <1>1, <3>1, <3>2 DEF Start
  <2> QED BY <2>1, <2>2, <2>3, <2>4 DEF AskTyped, JobTyped
<1>2. CASE Prerequisites(o)
  <2>1. LinkTyped' /\ WireTyped' /\ FutTyped' /\ RestTyped'
    BY <1>2 DEF Prerequisites, LinkTyped, WireTyped, FutTyped, RestTyped, configVars,
                processVars, protocolVars
  <2>2. CASE Raised(o, "failed")
    <3>1. "failed" \in States BY DEF States
    <3> QED BY <2>1, <2>2, <3>1, RaisedTyped
  <2>3. CASE ~Raised(o, "failed")
    <3>1. /\ pc' = [pc EXCEPT ![o] = "spawn"] /\ state' = "starting"
          /\ UNCHANGED <<jobVars, ask, got>>
      BY <1>2, <2>3 DEF Prerequisites
    <3>2. AskTyped' BY <3>1, OperatorIsClient DEF AskTyped, Phases
    <3>3. JobTyped' BY <3>1 DEF JobTyped, States, jobVars
    <3> QED BY <2>1, <3>2, <3>3
  <2> QED BY <2>2, <2>3
<1>3. CASE SpawnFails(o)
  <2>1. LinkTyped' /\ WireTyped' /\ FutTyped' /\ RestTyped'
    BY <1>3 DEF SpawnFails, LinkTyped, WireTyped, FutTyped, RestTyped, configVars,
                processVars, protocolVars
  <2>2. Raised(o, "failed") /\ "failed" \in States BY <1>3 DEF SpawnFails, States
  <2> QED BY <2>1, <2>2, RaisedTyped
<1> QED BY <1>1, <1>2, <1>3

LEMMA TypeSpawned ==
    ASSUME TypeOK, NEW o \in Operators, Spawned(o) PROVE TypeOK'
<1> USE TypeParts, TypePartsNext
<1> DEFINE p == spawned + 1
<1>1. /\ p \in Processes /\ spawned' = p /\ process' = p
      /\ alive' = alive \cup {p} /\ watched' = watched \cup {p}
      /\ UNCHANGED <<configVars, connected, binding, registered, doomed>>
  BY DEF Spawned
<1>2. spawned' \in 0..MaxProcesses /\ 1..spawned \subseteq 1..spawned' /\ p \in 1..spawned'
  BY <1>1, BoundsAssumption DEF RestTyped, Processes
<1>3. untidy' \in BOOLEAN BY DEF Spawned, RestTyped
<1>4. nextId' \in [Processes -> Nat] => RestTyped'
  BY <1>1, <1>2, <1>3 DEF RestTyped, configVars
<1>5. CASE config = "absent"
  <2>1. Raised(o, "running") /\ UNCHANGED <<session, fut, protocolVars>> /\ "running" \in States
    BY <1>5 DEF Spawned, States
  <2>2. AskTyped' /\ JobTyped' BY <2>1, RaisedTyped
  <2>3. LinkTyped' /\ FutTyped' BY <1>1, <2>1 DEF LinkTyped, FutTyped
  <2>4. WireTyped' /\ nextId' \in [Processes -> Nat]
    BY <1>2, <2>1 DEF WireTyped, RestTyped, protocolVars
  <2> QED BY <1>4, <2>2, <2>3, <2>4
<1>6. CASE config # "absent"
  <2>1. /\ session' = p /\ state' = "running" /\ reading' = reading \cup {p}
        /\ Request(o, p, "initialize", pending) /\ UNCHANGED jobVars
    BY <1>6 DEF Spawned
  <2>2. nextId \in [Processes -> Nat] /\ pending \in [Processes -> SUBSET Nat]
    BY DEF RestTyped, WireTyped
  <2>3. "initialize" \in Phases /\ o \in Clients
    BY OperatorIsClient DEF Phases, Asking, Handshake
  <2> HIDE DEF p
  <2>4. /\ AskTyped' /\ FutTyped' /\ nextId' \in [Processes -> Nat]
        /\ pending' \in [Processes -> SUBSET Nat] /\ outstanding' \subseteq Requests
    BY <1>1, <2>1, <2>2, <2>3, RequestTyped
  <2>5. LinkTyped' /\ JobTyped'
    BY <1>1, <2>1 DEF LinkTyped, JobTyped, jobVars, States
  <2>6. WireTyped' BY <1>2, <2>1, <2>4 DEF WireTyped
  <2> QED BY <1>4, <2>4, <2>5, <2>6
<1> QED BY <1>5, <1>6

\* The handshake.
LEMMA AskTypes ==
    ASSUME TypeOK, NEW o \in Operators, NEW phase \in Phases, NEW outcome, Ask(o, phase, outcome)
    PROVE  TypeOK'
<1> USE TypeParts, TypePartsNext
<1>1. /\ ask[o].session \in alive /\ reading' = reading
      /\ Request(o, ask[o].session, phase, Popped(o, outcome))
      /\ UNCHANGED <<configVars, runtimeVars, processVars, jobVars, untidy>>
  BY DEF Ask
<1>2. ask[o].session \in Processes /\ o \in Clients
  BY <1>1, OperatorIsClient, BoundsAssumption DEF RestTyped, Processes
<1>3. /\ AskTyped' /\ FutTyped' /\ nextId' \in [Processes -> Nat]
      /\ pending' \in [Processes -> SUBSET Nat] /\ outstanding' \subseteq Requests
  BY <1>1, <1>2, RequestTyped, PoppedTyped DEF RestTyped
<1>4. LinkTyped' /\ JobTyped'
  BY <1>1 DEF LinkTyped, JobTyped, runtimeVars, jobVars
<1>5. RestTyped' BY <1>1, <1>3 DEF RestTyped, configVars, runtimeVars, processVars
<1>6. WireTyped' BY <1>1, <1>3 DEF WireTyped, processVars
<1> QED BY <1>3, <1>4, <1>5, <1>6

LEMMA HandshakeFailsTypes ==
    ASSUME TypeOK, NEW o \in Operators, HandshakeFails(o) PROVE TypeOK'
<1> USE TypeParts, TypePartsNext
<1>1. /\ Disconnect({o}) /\ Raised(o, IF Running THEN "protocol_disconnected" ELSE "failed")
      /\ UNCHANGED <<configVars, process, processVars, nextId, untidy>>
  BY DEF HandshakeFails
<1>2. (IF Running THEN "protocol_disconnected" ELSE "failed") \in States BY DEF States
<1>3. AskTyped' /\ JobTyped' BY <1>1, <1>2, RaisedTyped
<1>4. LinkTyped' /\ WireTyped' /\ FutTyped' BY <1>1, DisconnectTyped DEF processVars
<1>5. RestTyped' BY <1>1 DEF RestTyped, configVars, processVars
<1> QED BY <1>3, <1>4, <1>5

LEMMA ConnectTypes ==
    ASSUME TypeOK, NEW o \in Operators, Connect(o) PROVE TypeOK'
<1> USE TypeParts, TypePartsNext
<1>1. /\ registered' = (config # "absent")
      /\ fut' = [fut EXCEPT ![o] = "none"]
      /\ UNCHANGED <<configVars, process, session, processVars, protocolVars, untidy>>
  BY DEF Connect
<1>2. FutTyped' BY <1>1 DEF FutTyped
<1>3. RestTyped' /\ WireTyped' BY <1>1 DEF RestTyped, WireTyped, configVars, processVars, protocolVars
<1>4. AskTyped' /\ JobTyped'
  <2>1. CASE config = "absent"
    <3>1. Raised(o, state) /\ state \in States BY <2>1 DEF Connect, JobTyped
    <3> QED BY <3>1, RaisedTyped
  <2>2. CASE config # "absent"
    <3>1. Over(o, "connected") /\ "connected" \in States BY <2>2 DEF Connect, States
    <3> QED BY <3>1, OverTyped
  <2> QED BY <2>1, <2>2
<1>5. LinkTyped' BY <1>1 DEF Connect, LinkTyped, RestTyped
<1> QED BY <1>2, <1>3, <1>4, <1>5

LEMMA TypeHandshake ==
    ASSUME TypeOK, NEW o \in Operators, Initialized(o) \/ Listed(o) PROVE TypeOK'
<1>1. "list" \in Phases /\ "fallback" \in Phases BY DEF Phases, Asking, Handshake
<1>2. PICK outcome \in Outcomes : \/ Ask(o, "list", outcome) \/ Ask(o, "fallback", outcome)
                                  \/ HandshakeFails(o) \/ Connect(o)
  BY DEF Initialized, Listed
<1> QED BY <1>1, <1>2, AskTypes, HandshakeFailsTypes, ConnectTypes

\* stop, restart, check.
LEMMA TypeStop ==
    ASSUME TypeOK, NEW o \in Operators, NEW j \in {"stop", "restart"}, Stop(o, j)
    PROVE  TypeOK'
<1> USE TypeParts, TypePartsNext
<1>1. Disconnect({o}) /\ UNCHANGED <<configVars, spawned, alive, watched, nextId>> BY DEF Stop
<1>2. LinkTyped' /\ WireTyped' /\ FutTyped' BY <1>1, DisconnectTyped
<1>3. untidy' \in BOOLEAN BY DEF Stop, RestTyped
<1>4. RestTyped'
  <2>1. process' \in Processes \cup {0} BY DEF Stop, RestTyped
  <2>2. doomed' \subseteq alive BY DEF Stop, RestTyped, Running
  <2> QED BY <1>1, <1>3, <2>1, <2>2 DEF RestTyped, configVars
<1>5. j \in Jobs /\ "restart" \in Jobs /\ "terminating" \in Phases /\ "prerequisites" \in Phases
  BY DEF Jobs, Phases
<1>6. CASE Running
  <2>1. /\ Begin(o, j, "terminating") /\ stopping' = [stopping EXCEPT ![o] = process]
        /\ UNCHANGED <<process, state, ask, got>>
    BY <1>6 DEF Stop
  <2>2. /\ pc' \in [Clients -> Phases]
        /\ job' \in [Operators -> Jobs]
        /\ saw' \in [Operators -> {"none", "enabled", "disabled"}]
    BY <2>1, <1>5, BeginTyped
  <2>3. AskTyped' /\ JobTyped' BY <2>1, <2>2 DEF AskTyped, JobTyped, RestTyped
  <2> QED BY <1>2, <1>4, <2>3
<1>7. CASE ~Running /\ j = "restart" /\ config = "enabled"
  <2>1. /\ Begin(o, "restart", "prerequisites") /\ state' = "stopped"
        /\ UNCHANGED <<stopping, ask, got>>
    BY <1>7 DEF Stop
  <2>2. /\ pc' \in [Clients -> Phases]
        /\ job' \in [Operators -> Jobs]
        /\ saw' \in [Operators -> {"none", "enabled", "disabled"}]
    BY <2>1, <1>5, BeginTyped
  <2>3. AskTyped' /\ JobTyped' BY <2>1, <2>2 DEF AskTyped, JobTyped, States
  <2> QED BY <1>2, <1>4, <2>3
<1>8. CASE ~Running /\ ~(j = "restart" /\ config = "enabled")
  <2>1. Over(o, IF config = "enabled" THEN "stopped" ELSE "disabled") BY <1>8 DEF Stop
  <2>2. (IF config = "enabled" THEN "stopped" ELSE "disabled") \in States BY DEF States
  <2>3. AskTyped' /\ JobTyped' BY <2>1, <2>2, OverTyped
  <2> QED BY <1>2, <1>4, <2>3
<1> QED BY <1>6, <1>7, <1>8

LEMMA TypeOperation ==
    ASSUME TypeOK, NEW o \in Operators, Terminated(o) \/ Check(o) \/ CheckEnds(o)
    PROVE  TypeOK'
<1> USE TypeParts, TypePartsNext
<1>1. CASE Terminated(o)
  <2>1. LinkTyped' /\ WireTyped' /\ FutTyped' /\ RestTyped'
    BY <1>1 DEF Terminated, LinkTyped, WireTyped, FutTyped, RestTyped, configVars,
                processVars, protocolVars
  <2>2. ASSUME NEW s \in States, Over(o, s) PROVE TypeOK'
    BY <2>1, <2>2, OverTyped
  <2>3. CASE config # "absent" /\ job[o] = "restart" /\ config = "enabled"
    <3>1. /\ Begin(o, "restart", "prerequisites") /\ state' = "stopped"
          /\ stopping' = [stopping EXCEPT ![o] = 0] /\ UNCHANGED <<ask, got>>
      BY <1>1, <2>3 DEF Terminated, Stopped
    <3>2. "restart" \in Jobs /\ "prerequisites" \in Phases BY DEF Jobs, Phases
    <3>3. /\ pc' \in [Clients -> Phases]
          /\ job' \in [Operators -> Jobs]
          /\ saw' \in [Operators -> {"none", "enabled", "disabled"}]
      BY <3>1, <3>2, BeginTyped
    <3>4. AskTyped' /\ JobTyped' BY <3>1, <3>3 DEF AskTyped, JobTyped, States
    <3> QED BY <2>1, <3>4
  <2>4. CASE config # "absent" /\ ~(job[o] = "restart" /\ config = "enabled")
    <3>1. Over(o, IF config = "enabled" THEN "stopped" ELSE "disabled")
      BY <1>1, <2>4 DEF Terminated, Stopped
    <3>2. (IF config = "enabled" THEN "stopped" ELSE "disabled") \in States BY DEF States
    <3> QED BY <2>2, <3>1, <3>2
  <2>5. CASE config = "absent"
    <3>1. Over(o, state) /\ state \in States BY <1>1, <2>5 DEF Terminated, JobTyped
    <3> QED BY <2>2, <3>1
  <2> QED BY <2>3, <2>4, <2>5
<1>2. CASE Check(o)
  <2>1. /\ Begin(o, "check", "checking") /\ config # "absent"
        /\ UNCHANGED <<configVars, runtimeVars, processVars, protocolVars, stopping, askVars, untidy>>
    BY <1>2 DEF Check
  <2>2. "check" \in Jobs /\ "checking" \in Phases BY DEF Jobs, Phases
  <2>3. /\ pc' \in [Clients -> Phases]
        /\ job' \in [Operators -> Jobs]
        /\ saw' \in [Operators -> {"none", "enabled", "disabled"}]
    BY <2>1, <2>2, BeginTyped
  <2>4. AskTyped' /\ JobTyped' BY <2>1, <2>3 DEF AskTyped, JobTyped, runtimeVars, askVars
  <2>5. LinkTyped' /\ FutTyped' BY <2>1 DEF LinkTyped, FutTyped, runtimeVars, askVars
  <2>6. WireTyped' /\ RestTyped'
    BY <2>1 DEF WireTyped, RestTyped, configVars, runtimeVars, processVars, protocolVars
  <2> QED BY <2>4, <2>5, <2>6
<1>3. CASE CheckEnds(o)
  <2>1. LinkTyped' /\ WireTyped' /\ FutTyped' /\ RestTyped'
    BY <1>3 DEF CheckEnds, LinkTyped, WireTyped, FutTyped, RestTyped, configVars,
                processVars, protocolVars
  <2>2. Over(o, Checked(saw[o])) /\ Checked(saw[o]) \in States
    BY <1>3 DEF CheckEnds, Checked, States
  <2> QED BY <2>1, <2>2, OverTyped
<1> QED BY <1>1, <1>2, <1>3

\* Tool calls.
LEMMA TypeCall ==
    ASSUME TypeOK, NEW c \in Callers, Call(c) \/ CallEnds(c) PROVE TypeOK'
<1> USE TypeParts, TypePartsNext
<1>1. CASE Call(c)
  <2>1. /\ UNCHANGED <<config, process, session, connected, state, registered, processVars,
                       jobVars, untidy>>
        /\ session # 0
    BY <1>1 DEF Call
  <2>2. JobTyped' BY <2>1 DEF JobTyped, jobVars
  <2>3. CASE session \in alive
    <3>1. reading' = reading /\ Request(c, session, "call", pending)
          /\ UNCHANGED <<binding, diagnostic>>
      BY <1>1, <2>3 DEF Call
    <3>2. /\ session \in Processes /\ c \in Clients /\ "call" \in Phases
          /\ pending \in [Processes -> SUBSET Nat] /\ nextId \in [Processes -> Nat]
      BY <2>1, CallerIsClient DEF Phases, Asking, LinkTyped, WireTyped, RestTyped
    <3>3. /\ AskTyped' /\ FutTyped' /\ nextId' \in [Processes -> Nat]
          /\ pending' \in [Processes -> SUBSET Nat] /\ outstanding' \subseteq Requests
      BY <3>1, <3>2, RequestTyped
    <3>4. LinkTyped' /\ WireTyped' /\ RestTyped'
      BY <2>1, <3>1, <3>3 DEF LinkTyped, WireTyped, RestTyped, processVars
    <3> QED BY <2>2, <3>3, <3>4
  <2>4. CASE session \notin alive
    <3>1. Health("degraded") /\ UNCHANGED <<protocolVars, pc, askVars>>
      BY <1>1, <2>4 DEF Call
    <3>2. /\ binding' \in {"none", "available", "degraded"}
          /\ diagnostic' \in {"available", "degraded"}
      BY <3>1, HealthTyped
    <3>3. AskTyped' /\ FutTyped' BY <3>1 DEF AskTyped, FutTyped, askVars
    <3>4. LinkTyped' /\ WireTyped' BY <2>1, <3>1, <3>2 DEF LinkTyped, WireTyped, protocolVars, processVars
    <3>5. RestTyped' BY <2>1, <3>1, <3>2 DEF RestTyped, protocolVars, processVars
    <3> QED BY <2>2, <3>3, <3>4, <3>5
  <2> QED BY <2>3, <2>4
<1>2. CASE CallEnds(c)
  <2>1. PICK outcome \in Outcomes :
          /\ pending' = Popped(c, outcome)
          /\ Health(IF outcome = "result" THEN "available" ELSE "degraded")
          /\ Idle(c)
          /\ fut' = [fut EXCEPT ![c] = "none"]
          /\ UNCHANGED <<config, process, session, connected, state, registered, processVars,
                         reading, nextId, outstanding, jobVars, untidy>>
    BY <1>2 DEF CallEnds
  <2>2. (IF outcome = "result" THEN "available" ELSE "degraded") \in {"available", "degraded"}
    OBVIOUS
  <2>3. /\ binding' \in {"none", "available", "degraded"}
        /\ diagnostic' \in {"available", "degraded"}
    BY <2>1, <2>2, HealthTyped
  <2>4. AskTyped' /\ pending' \in [Processes -> SUBSET Nat]
    BY <2>1, IdleTyped, CallerIsClient, PoppedTyped
  <2>5. FutTyped' BY <2>1 DEF FutTyped
  <2>6. LinkTyped' /\ WireTyped' BY <2>1, <2>3, <2>4 DEF LinkTyped, WireTyped, processVars
  <2>7. RestTyped' /\ JobTyped' BY <2>1, <2>3 DEF RestTyped, JobTyped, processVars, jobVars
  <2> QED BY <2>4, <2>5, <2>6, <2>7
<1> QED BY <1>1, <1>2

\* The server's answers, the end of its output and of its process.
LEMMA TypeServer ==
    ASSUME TypeOK,
           \/ \E r \in outstanding, outcome \in {"result", "failure"} : Answer(r, outcome)
           \/ \E p \in Processes : ReaderStops(p) \/ Exits(p) \/ Watch(p)
    PROVE  TypeOK'
<1> USE TypeParts, TypePartsNext
<1>1. ASSUME NEW r \in outstanding, NEW outcome \in {"result", "failure"}, Answer(r, outcome)
      PROVE  TypeOK'
  <2>1. r.session \in Processes \cup {0} /\ r.id \in Nat /\ r.no \in Nat
    BY DEF WireTyped, Requests
  <2>2. fut' \in [Clients -> {"none", "result", "failure", "broken"}] BY <1>1 DEF Answer, FutTyped
  <2>3. got' \in [Clients -> Nat] BY <1>1, <2>1 DEF Answer, AskTyped
  <2>4. pending' \in [Processes -> SUBSET Nat] BY <1>1 DEF Answer, WireTyped
  <2>5. FutTyped' /\ AskTyped' BY <1>1, <2>2, <2>3 DEF Answer, FutTyped, AskTyped
  <2>6. WireTyped' BY <1>1, <2>4 DEF Answer, WireTyped, processVars
  <2>7. LinkTyped' /\ JobTyped' BY <1>1 DEF Answer, LinkTyped, JobTyped, runtimeVars, jobVars
  <2>8. RestTyped' BY <1>1 DEF Answer, RestTyped, configVars, runtimeVars, processVars
  <2> QED BY <2>5, <2>6, <2>7, <2>8
<1>2. ASSUME NEW p \in Processes, ReaderStops(p) PROVE TypeOK'
  <2>1. WireTyped' BY <1>2, EndSessionTyped DEF ReaderStops, ReaderEnds, processVars
  <2>2. FutTyped' BY <1>2, FailAllTyped DEF ReaderStops, ReaderEnds, FutTyped
  <2>3. AskTyped' /\ LinkTyped' BY <1>2 DEF ReaderStops, ReaderEnds, AskTyped, LinkTyped, runtimeVars
  <2>4. JobTyped' BY <1>2 DEF ReaderStops, ReaderEnds, JobTyped, runtimeVars, jobVars
  <2>5. RestTyped' BY <1>2 DEF ReaderStops, ReaderEnds, RestTyped, configVars, runtimeVars, processVars
  <2> QED BY <2>1, <2>2, <2>3, <2>4, <2>5
<1>3. ASSUME NEW p \in Processes, Exits(p) PROVE TypeOK'
  <2>1. AskTyped' /\ LinkTyped' /\ FutTyped'
    BY <1>3 DEF Exits, AskTyped, LinkTyped, FutTyped, runtimeVars, askVars
  <2>2. JobTyped' /\ WireTyped'
    BY <1>3 DEF Exits, JobTyped, WireTyped, runtimeVars, jobVars, protocolVars
  <2>3. RestTyped' BY <1>3 DEF Exits, RestTyped, configVars, runtimeVars, protocolVars
  <2> QED BY <2>1, <2>2, <2>3
<1>4. ASSUME NEW p \in Processes, Watch(p) PROVE TypeOK'
  <2>1. /\ untidy' = (untidy \/ Overtaken) /\ watched' = watched \ {p}
        /\ UNCHANGED <<configVars, spawned, alive, doomed, nextId, pc, jobVars, ask, got>>
    BY <1>4 DEF Watch
  <2>2. AskTyped' BY <2>1 DEF AskTyped
  <2>3. process' \in Processes \cup {0} BY <1>4 DEF Watch, RestTyped, runtimeVars
  <2>4. untidy' \in BOOLEAN BY <2>1 DEF RestTyped
  <2>5. RestTyped' BY <2>1, <2>3, <2>4 DEF RestTyped, configVars
  <2>6. JobTyped' BY <1>4, <2>1 DEF Watch, JobTyped, jobVars, runtimeVars, States
  <2>7. CASE IsCurrent(p)
    <3>1. Disconnect({}) BY <1>4, <2>7 DEF Watch
    <3> QED BY <2>1, <2>2, <2>5, <2>6, <3>1, DisconnectTyped
  <2>8. CASE ~IsCurrent(p)
    <3>1. UNCHANGED <<runtimeVars, reading, pending, outstanding, fut>> BY <1>4, <2>8 DEF Watch
    <3>2. LinkTyped' /\ WireTyped' /\ FutTyped'
      BY <2>1, <3>1 DEF LinkTyped, WireTyped, FutTyped, runtimeVars
    <3> QED BY <2>2, <2>5, <2>6, <3>2
  <2> QED BY <2>7, <2>8
<1> QED BY <1>1, <1>2, <1>3, <1>4

LEMMA TypeConfig == ASSUME TypeOK, Edit \/ Delete PROVE TypeOK'
<1> USE TypeParts, TypePartsNext
<1>1. /\ AskTyped' /\ FutTyped' /\ WireTyped'
      /\ UNCHANGED <<diagnostic, process, session, connected, binding, processVars,
                     protocolVars, jobVars, untidy>>
  BY DEF Edit, Delete, AskTyped, FutTyped, WireTyped, askVars, protocolVars, processVars
<1>2. registered' \in BOOLEAN BY DEF Edit, Delete, LinkTyped
<1>3. state' \in States BY DEF Edit, Delete, JobTyped, States
<1>4. LinkTyped' /\ JobTyped' BY <1>1, <1>2, <1>3 DEF LinkTyped, JobTyped, jobVars
<1>5. config' \in {"enabled", "disabled", "absent"} BY DEF Edit, Delete, RestTyped
<1>6. RestTyped' BY <1>1, <1>5 DEF RestTyped, processVars, protocolVars
<1> QED BY <1>1, <1>4, <1>6

LEMMA TypeStutter == ASSUME TypeOK, UNCHANGED vars PROVE TypeOK'
<1> USE TypeParts, TypePartsNext
<1>1. AskTyped' /\ FutTyped' /\ LinkTyped'
  BY DEF AskTyped, FutTyped, LinkTyped, vars, runtimeVars, askVars
<1>2. WireTyped' /\ JobTyped'
  BY DEF WireTyped, JobTyped, vars, runtimeVars, jobVars, protocolVars, processVars
<1>3. RestTyped'
  BY DEF RestTyped, vars, configVars, runtimeVars, processVars, protocolVars
<1> QED BY <1>1, <1>2, <1>3

\* What the steps of operators are.
LEMMA OperatorSteps ==
    ASSUME \/ \E u \in Users : Operate(u)
           \/ \E r \in Runs : ~connected /\ Start(r, "start")
           \/ \E o \in Operators : GoesOn(o)
    PROVE  \E o \in Operators :
              \/ (\E j \in {"start", "auto"} : Start(o, j)) \/ Prerequisites(o) \/ SpawnFails(o)
              \/ Spawned(o)
              \/ Initialized(o) \/ Listed(o)
              \/ \E j \in {"stop", "restart"} : Stop(o, j)
              \/ Terminated(o) \/ Check(o) \/ CheckEnds(o)
<1>1. Users \subseteq Operators /\ Runs \subseteq Operators BY DEF Operators
<1> QED BY <1>1 DEF Operate, GoesOn

LEMMA TypeNext == ASSUME TypeOK, [Next]_vars PROVE TypeOK'
<1>1. CASE \/ \E u \in Users : Operate(u)
           \/ \E r \in Runs : ~connected /\ Start(r, "start")
           \/ \E o \in Operators : GoesOn(o)
  BY <1>1, OperatorSteps, TypeStart, TypeSpawned, TypeHandshake, TypeStop, TypeOperation
<1>2. CASE \E c \in Callers : Call(c) \/ CallEnds(c)
  BY <1>2, TypeCall
<1>3. CASE \/ \E r \in outstanding, outcome \in {"result", "failure"} : Answer(r, outcome)
           \/ \E p \in Processes : ReaderStops(p) \/ Exits(p) \/ Watch(p)
  BY <1>3, TypeServer
<1>4. CASE Edit \/ Delete
  BY <1>4, TypeConfig
<1>5. CASE UNCHANGED vars
  BY <1>5, TypeStutter
<1> QED BY <1>1, <1>2, <1>3, <1>4, <1>5 DEF Next, ReaderStops

\* The variables keep their types: runtimes, sessions, requests and operations.
THEOREM TypeCorrect == Spec => []TypeOK
<1>1. Init => TypeOK BY TypeInit
<1>2. TypeOK /\ [Next]_vars => TypeOK' BY TypeNext
<1> QED BY <1>1, <1>2, PTL DEF Spec

-----------------------------------------------------------------------------
(* Requests and answers. *)

\* Requests are known by their numbers, outstanding or awaited.
AnswerInv == /\ AnswerIsOwn
             /\ \A r \in outstanding : r.id = r.no
             /\ \A c \in Clients : ask[c].id = ask[c].no

\* No two clients await the same entry, and no entry is used again.
KnownInv == /\ WaitingIsKnown
            /\ \A c \in Clients : pc[c] \in Asking => ask[c].session # 0
            /\ \A c \in Clients : ask[c].session # 0 => ask[c].id < nextId[ask[c].session]
            /\ \A c, d \in Clients :
                  pc[c] \in Asking /\ pc[d] \in Asking /\ c # d
                     /\ ask[c].session = ask[d].session => ask[c].id # ask[d].id
            /\ \A r \in outstanding : r.session # 0 /\ r.id < nextId[r.session]

\* A client that asks nothing new.
Same(c) == /\ ask'[c] = ask[c] /\ got'[c] = got[c]
           /\ pc'[c] \in Asking => pc[c] \in Asking
           /\ \/ fut'[c] \in {fut[c], "failure", "broken"}
              \/ fut'[c] = "none" /\ pc'[c] \notin Asking

\* A client whose operation is over.
Gone(c) == ask'[c] = NoAsk /\ got'[c] = 0 /\ pc'[c] = "idle"

\* A step without a new request or an answer: what is forgotten is of a client
\* that is gone.
Quiet == /\ nextId' = nextId /\ outstanding' \subseteq outstanding
         /\ \A c \in Clients : Same(c) \/ Gone(c)
         /\ \A r \in outstanding' :
               r.id \in pending[r.session] =>
                  \/ r.id \in pending'[r.session]
                  \/ \E c \in Clients : /\ Gone(c) /\ pc[c] \in Asking
                                        /\ ask[c].session = r.session /\ ask[c].id = r.id

LEMMA QuietKeeps ==
    ASSUME TypeOK, AnswerInv, KnownInv, Quiet PROVE AnswerInv' /\ KnownInv'
<1> USE DEF Quiet
<1>1. NoAsk.session = 0 /\ NoAsk.id = 0 /\ NoAsk.no = 0 BY DEF NoAsk
<1>2. "idle" \notin Asking BY DEF Asking, Handshake
<1>3. AnswerIsOwn'
  <2> SUFFICES ASSUME NEW c \in Clients, fut'[c] = "result" PROVE got'[c] = ask'[c].no
    BY DEF AnswerIsOwn
  <2>1. CASE Same(c) BY <2>1 DEF Same, AnswerInv, AnswerIsOwn
  <2>2. CASE Gone(c) BY <2>2, <1>1 DEF Gone
  <2> QED BY <2>1, <2>2
<1>4. \A r \in outstanding' : r.id = r.no BY DEF AnswerInv
<1>5. \A c \in Clients : ask'[c].id = ask'[c].no BY <1>1 DEF AnswerInv, Same, Gone
<1>6. \A c \in Clients : pc'[c] \in Asking => Same(c) /\ pc[c] \in Asking
  BY <1>2 DEF Same, Gone
<1>7. WaitingIsKnown'
  <2> SUFFICES ASSUME NEW r \in outstanding', NEW c \in Clients,
                      ask'[c] = r, pc'[c] \in Asking, fut'[c] = "none"
               PROVE  r.id \in pending'[r.session]
    BY DEF WaitingIsKnown
  <2>1. Same(c) /\ pc[c] \in Asking BY <1>6
  <2>2. ask[c] = r /\ fut[c] = "none" BY <2>1 DEF Same
  <2>3. r.id \in pending[r.session] BY <2>1, <2>2 DEF KnownInv, WaitingIsKnown
  <2>4. ASSUME NEW d \in Clients, Gone(d), pc[d] \in Asking, ask[d].session = r.session,
               ask[d].id = r.id
        PROVE  FALSE
    <3>1. d # c BY <2>4, <1>2 DEF Gone
    <3> QED BY <3>1, <2>1, <2>2, <2>4 DEF KnownInv
  <2> QED BY <2>3, <2>4
<1>8. \A c \in Clients : pc'[c] \in Asking => ask'[c].session # 0
  BY <1>6 DEF Same, KnownInv
<1>9. \A c \in Clients : ask'[c].session # 0 => ask'[c].id < nextId'[ask'[c].session]
  BY <1>1 DEF Same, Gone, KnownInv
<1>10. \A c, d \in Clients :
          pc'[c] \in Asking /\ pc'[d] \in Asking /\ c # d
             /\ ask'[c].session = ask'[d].session => ask'[c].id # ask'[d].id
  BY <1>6 DEF Same, KnownInv
<1>11. \A r \in outstanding' : r.session # 0 /\ r.id < nextId'[r.session]
  BY DEF KnownInv
<1>12. AnswerInv' BY <1>3, <1>4, <1>5 DEF AnswerInv
<1>13. KnownInv' BY <1>7, <1>8, <1>9, <1>10, <1>11 DEF KnownInv
<1> QED BY <1>12, <1>13

\* A new request, which takes the place of the one its client awaited.
LEMMA RequestKeeps ==
    ASSUME TypeOK, AnswerInv, KnownInv, NEW c \in Clients, NEW p \in Processes,
           NEW phase \in Asking, NEW entries \in [Processes -> SUBSET Nat],
           Request(c, p, phase, entries),
           \A q \in Processes : \A i \in pending[q] :
              i \in entries[q] \/ (pc[c] \in Asking /\ ask[c].session = q /\ ask[c].id = i)
    PROVE  AnswerInv' /\ KnownInv'
<1> DEFINE n == nextId[p]
           r == [session |-> p, id |-> n, no |-> n]
<1>1. /\ nextId' = [nextId EXCEPT ![p] = @ + 1]
      /\ pending' = [entries EXCEPT ![p] = @ \cup {n}]
      /\ outstanding' = outstanding \cup {x \in {r} : p \in reading'}
      /\ ask' = [ask EXCEPT ![c] = r]
      /\ fut' = [fut EXCEPT ![c] = "none"]
      /\ got' = [got EXCEPT ![c] = 0]
      /\ pc' = [pc EXCEPT ![c] = phase]
  BY DEF Request, NewId
<1>2. /\ nextId \in [Processes -> Nat] /\ outstanding \subseteq Requests
      /\ ask \in [Clients -> Requests] /\ p # 0
      /\ fut \in [Clients -> {"none", "result", "failure", "broken"}] /\ got \in [Clients -> Nat]
      /\ pc \in [Clients -> Phases]
  BY BoundsAssumption, FutOutcomes DEF TypeOK, Processes, Phases
<1>3. r.session = p /\ r.id = n /\ r.no = n /\ n \in Nat BY <1>2
<1>4. \A d \in Clients : ask[d].session \in Processes \cup {0} /\ ask[d].id \in Nat
  BY <1>2 DEF Requests
<1>5. \A x \in outstanding : x.session \in Processes \cup {0} /\ x.id \in Nat
  BY <1>2 DEF Requests
<1> HIDE DEF n, r
<1>6. ask'[c] = r /\ fut'[c] = "none" /\ pc'[c] = phase /\ got'[c] = 0
  BY <1>1, <1>2
<1>7. \A d \in Clients \ {c} : /\ ask'[d] = ask[d] /\ fut'[d] = fut[d]
                               /\ pc'[d] = pc[d] /\ got'[d] = got[d]
  BY <1>1, <1>2
<1>8. outstanding' \subseteq outstanding \cup {r} BY <1>1
<1>9. nextId'[p] = n + 1 /\ \A q \in Processes : nextId[q] \in Nat /\ nextId[q] <= nextId'[q]
  BY <1>1, <1>2, <1>3 DEF n
<1>10. AnswerInv'
  <2>1. AnswerIsOwn' BY <1>6, <1>7 DEF AnswerInv, AnswerIsOwn
  <2>2. \A x \in outstanding' : x.id = x.no BY <1>3, <1>8 DEF AnswerInv
  <2>3. \A d \in Clients : ask'[d].id = ask'[d].no BY <1>3, <1>6, <1>7 DEF AnswerInv
  <2> QED BY <2>1, <2>2, <2>3 DEF AnswerInv
<1>11. WaitingIsKnown'
  <2> SUFFICES ASSUME NEW x \in outstanding', NEW d \in Clients,
                      ask'[d] = x, pc'[d] \in Asking, fut'[d] = "none"
               PROVE  x.id \in pending'[x.session]
    BY DEF WaitingIsKnown
  <2>1. CASE d = c
    <3>1. x = r BY <1>6, <2>1
    <3>2. pending'[p] = entries[p] \cup {n} BY <1>1
    <3> QED BY <1>3, <3>1, <3>2
  <2>2. CASE d # c
    <3>1. ask[d] = x /\ pc[d] \in Asking /\ fut[d] = "none" BY <1>7, <2>2
    <3>2. x \in outstanding
      <4>1. CASE x = r
        <5>1. ask[d].id < nextId[p] BY <1>2, <1>3, <3>1, <4>1 DEF KnownInv
        <5> QED BY <5>1, <1>3, <3>1, <4>1 DEF n
      <4> QED BY <4>1, <1>8
    <3>3. x.id \in pending[x.session] /\ x.session \in Processes
      BY <1>5, <3>1, <3>2 DEF KnownInv, WaitingIsKnown
    <3>4. x.id \in entries[x.session] BY <2>2, <3>1, <3>3 DEF KnownInv
    <3>5. entries[x.session] \subseteq pending'[x.session] BY <1>1, <3>3
    <3> QED BY <3>4, <3>5
  <2> QED BY <2>1, <2>2
<1>12. \A d \in Clients : pc'[d] \in Asking => ask'[d].session # 0
  BY <1>2, <1>3, <1>6, <1>7 DEF KnownInv
<1>13. \A d \in Clients : ask'[d].session # 0 => ask'[d].id < nextId'[ask'[d].session]
  <2> SUFFICES ASSUME NEW d \in Clients, ask'[d].session # 0
               PROVE  ask'[d].id < nextId'[ask'[d].session]
    OBVIOUS
  <2>1. CASE d = c BY <2>1, <1>3, <1>6, <1>9
  <2>2. CASE d # c
    <3>1. /\ ask[d].session \in Processes /\ ask[d].id \in Nat
          /\ ask[d].id < nextId[ask[d].session]
      BY <2>2, <1>4, <1>7 DEF KnownInv
    <3>2. nextId'[ask[d].session] \in Nat BY <1>1, <1>2, <3>1
    <3> QED BY <2>2, <3>1, <3>2, <1>7, <1>9
  <2> QED BY <2>1, <2>2
<1>14. \A d, e \in Clients :
          pc'[d] \in Asking /\ pc'[e] \in Asking /\ d # e
             /\ ask'[d].session = ask'[e].session => ask'[d].id # ask'[e].id
  <2>1. \A d \in Clients \ {c} : ask'[d].session = p => ask'[d].id # n
    BY <1>2, <1>3, <1>4, <1>7 DEF KnownInv, n
  <2> QED BY <2>1, <1>3, <1>6, <1>7 DEF KnownInv
<1>15. \A x \in outstanding' : x.session # 0 /\ x.id < nextId'[x.session]
  <2> SUFFICES ASSUME NEW x \in outstanding' PROVE x.session # 0 /\ x.id < nextId'[x.session]
    OBVIOUS
  <2>1. CASE x = r BY <2>1, <1>2, <1>3, <1>9
  <2>2. CASE x # r
    <3>1. x \in outstanding BY <2>2, <1>8
    <3>2. /\ x.session # 0 /\ x.id < nextId[x.session]
          /\ x.session \in Processes /\ x.id \in Nat
      BY <3>1, <1>5 DEF KnownInv
    <3>3. nextId'[x.session] \in Nat BY <1>1, <1>2, <3>2
    <3> QED BY <3>2, <3>3, <1>9
  <2> QED BY <2>1, <2>2
<1>16. KnownInv' BY <1>11, <1>12, <1>13, <1>14, <1>15 DEF KnownInv
<1> QED BY <1>10, <1>16

LEMMA AnswerKeeps ==
    ASSUME TypeOK, AnswerInv, KnownInv,
           NEW r \in outstanding, NEW outcome \in {"result", "failure"}, Answer(r, outcome)
    PROVE  AnswerInv' /\ KnownInv'
<1> DEFINE mine == {c \in Clients : r.id \in pending[r.session] /\ Awaits(c, r.session, r.id)}
<1>1. /\ outstanding' = outstanding \ {r}
      /\ pending' = [pending EXCEPT ![r.session] = @ \ {r.id}]
      /\ fut' = [c \in Clients |-> IF c \in mine THEN outcome ELSE fut[c]]
      /\ got' = [c \in Clients |-> IF c \in mine /\ outcome = "result" THEN r.no ELSE got[c]]
      /\ UNCHANGED <<nextId, pc, ask>>
  BY DEF Answer
<1>2. pending \in [Processes -> SUBSET Nat] /\ r.session \in Processes
  BY DEF TypeOK, KnownInv, Requests
<1>3. \A c \in mine : ask[c].session = r.session /\ ask[c].id = r.id BY DEF Awaits
<1>4. AnswerInv'
  <2>1. \A c \in mine : r.no = ask[c].no BY <1>3 DEF AnswerInv
  <2> HIDE DEF mine
  <2>2. AnswerIsOwn' BY <1>1, <2>1 DEF AnswerInv, AnswerIsOwn
  <2> QED BY <1>1, <2>2 DEF AnswerInv
<1>5. WaitingIsKnown'
  <2> SUFFICES ASSUME NEW x \in outstanding', NEW c \in Clients,
                      ask'[c] = x, pc'[c] \in Asking, fut'[c] = "none"
               PROVE  x.id \in pending'[x.session]
    BY DEF WaitingIsKnown
  <2>1. x \in outstanding /\ ask[c] = x /\ pc[c] \in Asking /\ fut[c] = "none" /\ c \notin mine
    BY <1>1
  <2>2. x.id \in pending[x.session] BY <2>1 DEF KnownInv, WaitingIsKnown
  <2>3. ~(x.session = r.session /\ x.id = r.id) BY <2>1, <2>2 DEF Awaits
  <2> QED BY <1>1, <1>2, <2>2, <2>3
<1>6. KnownInv' BY <1>1, <1>5 DEF KnownInv
<1> QED BY <1>4, <1>6

\* What clients do in a step, and what happens to the entries.
Still == \A c \in Clients : Same(c) \/ Gone(c)

LEMMA IdleIsGone ==
    ASSUME TypeOK, NEW o \in Clients, Idle(o),
           \A c \in Clients \ {o} : fut'[c] \in {fut[c], "failure", "broken"}
    PROVE  Still /\ Gone(o)
BY DEF Still, Same, Gone, Idle, TypeOK

LEMMA BeginIsSame ==
    ASSUME TypeOK, NEW o \in Operators, NEW j, NEW phase, phase \notin Asking,
           Begin(o, j, phase), UNCHANGED <<ask, got>>,
           fut'[o] \in {fut[o], "none"},
           \A c \in Clients \ {o} : fut'[c] \in {fut[c], "failure", "broken"}
    PROVE  Still
BY OperatorIsClient DEF Still, Same, Begin, TypeOK

LEMMA SameWhenUnchanged ==
    ASSUME TypeOK, UNCHANGED <<pc, ask, got>>,
           \A c \in Clients : fut'[c] \in {fut[c], "failure", "broken"}
    PROVE  Still
BY DEF Still, Same

\* The entries of a session that has ended are all that is forgotten.
Kept == /\ nextId' = nextId /\ outstanding' \subseteq outstanding
        /\ \A r \in outstanding' :
              r.id \in pending[r.session] => r.id \in pending'[r.session]

LEMMA KeptIsQuiet == ASSUME Kept, Still PROVE Quiet
BY DEF Kept, Still, Quiet

LEMMA UnchangedIsKept == ASSUME UNCHANGED <<nextId, pending, outstanding>> PROVE Kept
BY DEF Kept

LEMMA FailAllEffect ==
    ASSUME TypeOK, NEW p, NEW gone, NEW how \in Failures, fut' = FailAll(p, gone, how)
    PROVE  \A c \in Clients : /\ c \in gone => fut'[c] = "none"
                              /\ c \notin gone => fut'[c] \in {fut[c], "failure", "broken"}
BY DEF FailAll, Failures

LEMMA EndSessionIsKept ==
    ASSUME TypeOK, KnownInv, NEW p, EndSession(p), nextId' = nextId PROVE Kept
<1>1. \A r \in outstanding : r.session \in Processes BY DEF TypeOK, Requests, KnownInv
<1> QED BY <1>1 DEF EndSession, Kept, TypeOK

LEMMA DisconnectEffect ==
    ASSUME TypeOK, KnownInv, NEW gone, Disconnect(gone), nextId' = nextId
    PROVE  /\ Kept
           /\ \A c \in Clients : /\ c \in gone => fut'[c] = "none"
                                 /\ c \notin gone => fut'[c] \in {fut[c], "failure", "broken"}
<1>1. CASE config # "absent" /\ session # 0
  <2>1. fut' = FailAll(session, gone, "failure") /\ EndSession(session) BY <1>1 DEF Disconnect
  <2> QED BY <2>1, FailAllEffect, EndSessionIsKept DEF Failures
<1>2. CASE config = "absent" \/ session = 0
  <2>1. /\ fut' = [c \in Clients |-> IF c \in gone THEN "none" ELSE fut[c]]
        /\ UNCHANGED <<pending, outstanding>>
    BY <1>2 DEF Disconnect
  <2> QED BY <2>1, UnchangedIsKept
<1> QED BY <1>1, <1>2

LEMMA RequestStep ==
    ASSUME TypeOK, AnswerInv, KnownInv, NEW c \in Clients, NEW outcome,
           NEW p \in Processes, NEW phase \in Asking,
           NEW entries, entries \in {pending, Popped(c, outcome)}, pc[c] \in Asking \/ entries = pending,
           Request(c, p, phase, entries)
    PROVE  AnswerInv' /\ KnownInv'
<1>1. pending \in [Processes -> SUBSET Nat] BY DEF TypeOK
<1>2. entries \in [Processes -> SUBSET Nat] BY <1>1 DEF Popped
<1>3. \A q \in Processes : \A i \in pending[q] :
         i \in entries[q] \/ (pc[c] \in Asking /\ ask[c].session = q /\ ask[c].id = i)
  BY <1>1 DEF Popped
<1> QED BY <1>2, <1>3, RequestKeeps

LEMMA NotAskingPhases ==
    /\ "prerequisites" \notin Asking /\ "spawn" \notin Asking /\ "terminating" \notin Asking
    /\ "checking" \notin Asking /\ "idle" \notin Asking
BY DEF Asking, Handshake

LEMMA MatchStart ==
    ASSUME TypeOK, NEW o \in Operators,
           (\E j \in {"start", "auto"} : Start(o, j)) \/ Prerequisites(o) \/ SpawnFails(o)
    PROVE  Quiet
<1>1. Kept
  BY UnchangedIsKept DEF Start, Prerequisites, SpawnFails, protocolVars
<1>2. fut' = fut BY DEF Start, Prerequisites, SpawnFails, askVars
<1>3. CASE UNCHANGED <<pc, ask, got>> BY <1>1, <1>2, <1>3, SameWhenUnchanged, KeptIsQuiet
<1>4. CASE Idle(o) BY <1>1, <1>2, <1>4, IdleIsGone, KeptIsQuiet, OperatorIsClient
<1>5. ASSUME NEW j, NEW phase \in {"prerequisites", "checking"}, Begin(o, j, phase),
             UNCHANGED <<ask, got>>
      PROVE  Quiet
  BY <1>1, <1>2, <1>5, BeginIsSame, KeptIsQuiet, NotAskingPhases
<1>6. ASSUME pc' = [pc EXCEPT ![o] = "spawn"], UNCHANGED <<ask, got>> PROVE Quiet
  <2>1. Still BY <1>2, <1>6, NotAskingPhases DEF Still, Same, TypeOK
  <2> QED BY <1>1, <2>1, KeptIsQuiet
<1>7. CASE \E j \in {"start", "auto"} : Start(o, j)
  <2>1. UNCHANGED <<ask, got>> BY <1>7 DEF Start, askVars
  <2> QED BY <1>3, <1>5, <1>7, <2>1 DEF Start
<1>8. CASE Prerequisites(o) BY <1>4, <1>6, <1>8 DEF Prerequisites, Raised, Over
<1>9. CASE SpawnFails(o) BY <1>4, <1>9 DEF SpawnFails, Raised, Over
<1> QED BY <1>7, <1>8, <1>9

LEMMA MatchSpawned ==
    ASSUME TypeOK, AnswerInv, KnownInv, NEW o \in Operators, Spawned(o)
    PROVE  AnswerInv' /\ KnownInv'
<1>1. CASE config = "absent"
  <2>1. Idle(o) /\ UNCHANGED <<fut, protocolVars>> BY <1>1 DEF Spawned, Raised, Over
  <2>2. Kept BY <2>1, UnchangedIsKept DEF protocolVars
  <2>3. Still BY <2>1, IdleIsGone, OperatorIsClient
  <2> QED BY <2>2, <2>3, KeptIsQuiet, QuietKeeps
<1>2. CASE config # "absent"
  <2>1. /\ spawned + 1 \in Processes
        /\ Request(o, spawned + 1, "initialize", pending)
    BY <1>2 DEF Spawned
  <2>2. "initialize" \in Asking /\ o \in Clients BY OperatorIsClient DEF Asking, Handshake
  <2> QED BY <2>1, <2>2, RequestStep
<1> QED BY <1>1, <1>2

LEMMA MatchHandshake ==
    ASSUME TypeOK, AnswerInv, KnownInv, NEW o \in Operators, Initialized(o) \/ Listed(o)
    PROVE  AnswerInv' /\ KnownInv'
<1>1. pc[o] \in Asking /\ o \in Clients /\ "list" \in Asking /\ "fallback" \in Asking
  BY OperatorIsClient DEF Initialized, Listed, Asking, Handshake
<1>2. PICK outcome \in Outcomes : \/ Ask(o, "list", outcome) \/ Ask(o, "fallback", outcome)
                                  \/ HandshakeFails(o) \/ Connect(o)
  BY DEF Initialized, Listed
<1>3. ASSUME NEW phase \in Asking, Ask(o, phase, outcome) PROVE AnswerInv' /\ KnownInv'
  <2>1. Request(o, ask[o].session, phase, Popped(o, outcome)) /\ ask[o].session \in alive
    BY <1>3 DEF Ask
  <2>2. alive \subseteq 1..spawned /\ spawned \in 0..MaxProcesses BY DEF TypeOK
  <2>3. 1..spawned \subseteq Processes BY <2>2, BoundsAssumption DEF Processes
  <2>4. ask[o].session \in Processes BY <2>1, <2>2, <2>3
  <2> QED BY <1>1, <2>1, <2>4, RequestStep
<1>4. CASE HandshakeFails(o)
  <2>1. Disconnect({o}) /\ Idle(o) /\ nextId' = nextId BY <1>4 DEF HandshakeFails, Raised, Over
  <2> QED BY <1>1, <2>1, DisconnectEffect, IdleIsGone, KeptIsQuiet, QuietKeeps
<1>5. CASE Connect(o)
  <2>1. Idle(o) /\ fut' = [fut EXCEPT ![o] = "none"] /\ UNCHANGED <<nextId, pending, outstanding>>
    BY <1>5 DEF Connect, Raised, Over, protocolVars
  <2>2. \A c \in Clients \ {o} : fut'[c] = fut[c] BY <2>1 DEF TypeOK
  <2> QED BY <1>1, <2>1, <2>2, UnchangedIsKept, IdleIsGone, KeptIsQuiet, QuietKeeps
<1> QED BY <1>1, <1>2, <1>3, <1>4, <1>5

LEMMA MatchStop ==
    ASSUME TypeOK, KnownInv, NEW o \in Operators, NEW j \in {"stop", "restart"}, Stop(o, j)
    PROVE  Quiet
<1>1. Disconnect({o}) /\ nextId' = nextId BY DEF Stop
<1>2. CASE Idle(o)
  BY <1>1, <1>2, DisconnectEffect, IdleIsGone, KeptIsQuiet, OperatorIsClient
<1>3. ASSUME NEW phase \in {"terminating", "prerequisites"}, NEW k, Begin(o, k, phase),
             UNCHANGED <<ask, got>>
      PROVE  Quiet
  <2>1. phase \notin Asking /\ o \in Clients BY OperatorIsClient, NotAskingPhases
  <2>2. /\ Kept /\ fut'[o] = "none"
        /\ \A c \in Clients \ {o} : fut'[c] \in {fut[c], "failure", "broken"}
    BY <1>1, <2>1, DisconnectEffect
  <2>3. Still BY <1>3, <2>1, <2>2, BeginIsSame
  <2> QED BY <2>2, <2>3, KeptIsQuiet
<1> QED BY <1>2, <1>3 DEF Stop, Over

LEMMA MatchOperation ==
    ASSUME TypeOK, NEW o \in Operators, Terminated(o) \/ Check(o) \/ CheckEnds(o)
    PROVE  Quiet
<1>1. Kept /\ fut' = fut
  BY UnchangedIsKept DEF Terminated, Check, CheckEnds, protocolVars, askVars
<1>2. CASE Idle(o) BY <1>1, <1>2, IdleIsGone, KeptIsQuiet, OperatorIsClient
<1>3. ASSUME NEW j, NEW phase \in {"prerequisites", "checking"}, Begin(o, j, phase),
             UNCHANGED <<ask, got>>
      PROVE  Quiet
  BY <1>1, <1>3, BeginIsSame, KeptIsQuiet, NotAskingPhases
<1>4. CASE Terminated(o) BY <1>2, <1>3, <1>4 DEF Terminated, Stopped, Over
<1>5. CASE Check(o) BY <1>3, <1>5 DEF Check, askVars
<1>6. CASE CheckEnds(o) BY <1>2, <1>6 DEF CheckEnds, Over
<1> QED BY <1>4, <1>5, <1>6

LEMMA MatchCall ==
    ASSUME TypeOK, AnswerInv, KnownInv, NEW c \in Callers, Call(c) \/ CallEnds(c)
    PROVE  AnswerInv' /\ KnownInv'
<1>1. c \in Clients /\ "call" \in Asking BY CallerIsClient DEF Asking
<1>2. CASE Call(c)
  <2>1. CASE session \in alive
    <3>1. Request(c, session, "call", pending) /\ session \in Processes
      BY <1>2, <2>1 DEF Call, TypeOK
    <3> QED BY <1>1, <3>1, RequestStep
  <2>2. CASE session \notin alive
    <3>1. UNCHANGED <<protocolVars, pc, askVars>> BY <1>2, <2>2 DEF Call
    <3> QED BY <3>1, UnchangedIsKept, SameWhenUnchanged, KeptIsQuiet, QuietKeeps
        DEF protocolVars, askVars
  <2> QED BY <2>1, <2>2
<1>3. CASE CallEnds(c)
  <2>1. PICK outcome \in Outcomes : pending' = Popped(c, outcome)
    BY <1>3 DEF CallEnds
  <2>2. /\ Idle(c) /\ fut' = [fut EXCEPT ![c] = "none"] /\ pc[c] \in Asking
        /\ UNCHANGED <<nextId, outstanding>>
    BY <1>1, <1>3 DEF CallEnds
  <2>3. \A d \in Clients \ {c} : fut'[d] = fut[d] BY <2>2 DEF TypeOK
  <2>4. Still /\ Gone(c) BY <1>1, <2>2, <2>3, IdleIsGone
  <2>5. \A r \in outstanding : r.session \in Processes \cup {0} BY DEF TypeOK, Requests
  <2>6. ASSUME NEW r \in outstanding, r.id \in pending[r.session], r.id \notin pending'[r.session]
        PROVE  ask[c].session = r.session /\ ask[c].id = r.id
    <3>1. r.session \in Processes BY <2>5 DEF KnownInv
    <3> QED BY <2>1, <2>6, <3>1 DEF Popped, TypeOK
  <2>7. Quiet BY <1>1, <2>2, <2>4, <2>6 DEF Quiet, Still
  <2> QED BY <2>7, QuietKeeps
<1> QED BY <1>2, <1>3

LEMMA MatchServer ==
    ASSUME TypeOK, KnownInv, NEW p \in Processes, ReaderStops(p) \/ Exits(p) \/ Watch(p)
    PROVE  Quiet
<1>1. nextId' = nextId /\ UNCHANGED <<pc, ask, got>>
  BY DEF ReaderStops, ReaderEnds, Exits, Watch, protocolVars, askVars
<1>2. CASE ReaderStops(p)
  <2>1. (\E how \in Failures : fut' = FailAll(p, {}, how)) /\ EndSession(p)
    BY <1>2 DEF ReaderStops, ReaderEnds
  <2>2. \A c \in Clients : fut'[c] \in {fut[c], "failure", "broken"} BY <2>1, FailAllEffect
  <2> QED BY <1>1, <2>1, <2>2, EndSessionIsKept, SameWhenUnchanged, KeptIsQuiet
<1>3. CASE Watch(p) /\ IsCurrent(p)
  <2>1. Disconnect({}) BY <1>3 DEF Watch
  <2>2. Kept /\ \A c \in Clients : fut'[c] \in {fut[c], "failure", "broken"}
    BY <1>1, <2>1, DisconnectEffect
  <2> QED BY <1>1, <2>2, SameWhenUnchanged, KeptIsQuiet
<1>4. CASE Exits(p) \/ (Watch(p) /\ ~IsCurrent(p))
  <2>1. fut' = fut /\ UNCHANGED <<pending, outstanding>>
    BY <1>4 DEF Exits, Watch, protocolVars, askVars
  <2> QED BY <1>1, <2>1, UnchangedIsKept, SameWhenUnchanged, KeptIsQuiet
<1> QED BY <1>2, <1>3, <1>4

LEMMA MatchOthers == ASSUME TypeOK, Edit \/ Delete \/ UNCHANGED vars PROVE Quiet
<1>1. UNCHANGED <<nextId, pending, outstanding, pc, ask, got, fut>>
  BY DEF Edit, Delete, vars, protocolVars, askVars
<1> QED BY <1>1, UnchangedIsKept, SameWhenUnchanged, KeptIsQuiet

LEMMA RequestsNext ==
    ASSUME TypeOK, AnswerInv, KnownInv, [Next]_vars PROVE AnswerInv' /\ KnownInv'
<1>1. CASE \/ \E u \in Users : Operate(u)
           \/ \E r \in Runs : ~connected /\ Start(r, "start")
           \/ \E o \in Operators : GoesOn(o)
  BY <1>1, OperatorSteps, MatchStart, MatchSpawned, MatchHandshake, MatchStop, MatchOperation,
     QuietKeeps
<1>2. CASE \E c \in Callers : Call(c) \/ CallEnds(c)
  BY <1>2, MatchCall
<1>3. CASE \E r \in outstanding, outcome \in {"result", "failure"} : Answer(r, outcome)
  BY <1>3, AnswerKeeps
<1>4. CASE \E p \in Processes : ReaderStops(p) \/ Exits(p) \/ Watch(p)
  BY <1>4, MatchServer, QuietKeeps
<1>5. CASE Edit \/ Delete \/ UNCHANGED vars
  BY <1>5, MatchOthers, QuietKeeps
<1> QED BY <1>1, <1>2, <1>3, <1>4, <1>5 DEF Next, ReaderStops

LEMMA RequestsInit == ASSUME Init PROVE AnswerInv /\ KnownInv
<1>1. \A c \in Clients : ask[c].session = 0 /\ ask[c].id = 0 /\ ask[c].no = 0
                         /\ pc[c] = "idle" /\ fut[c] = "none"
  BY DEF Init, NoAsk
<1>2. outstanding = {} BY DEF Init
<1> QED BY <1>1, <1>2, NotAskingPhases DEF AnswerInv, AnswerIsOwn, KnownInv, WaitingIsKnown

\* Whatever times out, is answered late or is closed, a client gets the answer to
\* the request it awaits.
THEOREM AnswersAreOwn == Spec => []AnswerIsOwn
<1>1. Init => TypeOK /\ AnswerInv /\ KnownInv BY TypeInit, RequestsInit
<1>2. TypeOK /\ AnswerInv /\ KnownInv /\ [Next]_vars => (TypeOK /\ AnswerInv /\ KnownInv)'
  BY TypeNext, RequestsNext
<1>3. AnswerInv => AnswerIsOwn BY DEF AnswerInv
<1> QED BY <1>1, <1>2, <1>3, PTL DEF Spec

\* A request that can still be answered is known to its session while its client
\* waits, so that the answer is not dropped.
THEOREM WaitingRequestsAreKnown == Spec => []WaitingIsKnown
<1>1. Init => TypeOK /\ AnswerInv /\ KnownInv BY TypeInit, RequestsInit
<1>2. TypeOK /\ AnswerInv /\ KnownInv /\ [Next]_vars => (TypeOK /\ AnswerInv /\ KnownInv)'
  BY TypeNext, RequestsNext
<1>3. KnownInv => WaitingIsKnown BY DEF KnownInv
<1> QED BY <1>1, <1>2, <1>3, PTL DEF Spec

-----------------------------------------------------------------------------
(* The connection and its tools. *)

\* A service is deleted only without a connection.
LinkInv == /\ ToolsFollowConnection
           /\ HealthIsDiagnosed
           /\ config = "absent" => ~connected /\ binding = "none"

LEMMA LinkInit == ASSUME Init PROVE LinkInv
BY DEF Init, LinkInv, ToolsFollowConnection, HealthIsDiagnosed

LEMMA LinkUnchanged ==
    ASSUME LinkInv, UNCHANGED <<config, diagnostic, connected, binding, registered>>
    PROVE  LinkInv'
BY DEF LinkInv, ToolsFollowConnection, HealthIsDiagnosed

LEMMA LinkDisconnect ==
    ASSUME LinkInv, NEW gone, Disconnect(gone), UNCHANGED <<config, diagnostic>>
    PROVE  LinkInv'
BY DEF LinkInv, ToolsFollowConnection, HealthIsDiagnosed, Disconnect, UnbindRuntime

LEMMA LinkHealth ==
    ASSUME TypeOK, LinkInv, NEW health \in {"available", "degraded"}, Health(health),
           UNCHANGED <<config, connected, registered>>
    PROVE  LinkInv'
BY DEF TypeOK, LinkInv, ToolsFollowConnection, HealthIsDiagnosed, Health

LEMMA LinkNext == ASSUME TypeOK, LinkInv, [Next]_vars PROVE LinkInv'
<1>1. ASSUME NEW o \in Operators, \E j \in {"start", "auto"} : Start(o, j) PROVE LinkInv'
  BY <1>1, LinkUnchanged DEF Start, configVars
<1>2. ASSUME NEW o \in Operators, Prerequisites(o) \/ SpawnFails(o) \/ Spawned(o) PROVE LinkInv'
  BY <1>2, LinkUnchanged DEF Prerequisites, SpawnFails, Spawned, configVars
<1>3. ASSUME NEW o \in Operators, Terminated(o) \/ CheckEnds(o) PROVE LinkInv'
  BY <1>3, LinkUnchanged DEF Terminated, CheckEnds, configVars
<1>4. ASSUME NEW o \in Operators, Check(o) PROVE LinkInv'
  BY <1>4, LinkUnchanged DEF Check, configVars, runtimeVars
<1>5. ASSUME NEW o \in Operators, \E j \in {"stop", "restart"} : Stop(o, j) PROVE LinkInv'
  BY <1>5, LinkDisconnect DEF Stop, configVars
<1>6. ASSUME NEW o \in Operators, Initialized(o) \/ Listed(o) PROVE LinkInv'
  <2>1. \/ \E phase \in Phases, outcome \in Outcomes : Ask(o, phase, outcome)
        \/ HandshakeFails(o) \/ Connect(o)
    BY <1>6 DEF Initialized, Listed, Phases, Asking, Handshake
  <2>2. ASSUME NEW phase, NEW outcome, Ask(o, phase, outcome) PROVE LinkInv'
    BY <2>2, LinkUnchanged DEF Ask, configVars, runtimeVars
  <2>3. CASE HandshakeFails(o) BY <2>3, LinkDisconnect DEF HandshakeFails, configVars
  <2>4. CASE Connect(o)
    BY <2>4 DEF Connect, configVars, TypeOK, LinkInv, ToolsFollowConnection, HealthIsDiagnosed
  <2> QED BY <2>1, <2>2, <2>3, <2>4
<1>7. ASSUME NEW c \in Callers, Call(c) \/ CallEnds(c) PROVE LinkInv'
  <2>1. \/ UNCHANGED <<config, diagnostic, connected, binding, registered>>
        \/ /\ \E health \in {"available", "degraded"} : Health(health)
           /\ UNCHANGED <<config, connected, registered>>
    BY <1>7 DEF Call, CallEnds
  <2> QED BY <2>1, LinkUnchanged, LinkHealth
<1>8. CASE \E r \in outstanding, outcome \in {"result", "failure"} : Answer(r, outcome)
  BY <1>8, LinkUnchanged DEF Answer, configVars, runtimeVars
<1>9. ASSUME NEW p \in Processes, ReaderStops(p) \/ Exits(p) \/ Watch(p) PROVE LinkInv'
  <2>1. CASE Watch(p) /\ IsCurrent(p) BY <2>1, LinkDisconnect DEF Watch, configVars
  <2>2. CASE ReaderStops(p) \/ Exits(p) \/ (Watch(p) /\ ~IsCurrent(p))
    BY <2>2, LinkUnchanged DEF ReaderStops, ReaderEnds, Exits, Watch, configVars, runtimeVars
  <2> QED BY <1>9, <2>1, <2>2
<1>10. CASE Edit BY <1>10 DEF Edit, LinkInv, ToolsFollowConnection, HealthIsDiagnosed
<1>11. CASE Delete
  BY <1>11 DEF Delete, Deletable, TypeOK, LinkInv, ToolsFollowConnection, HealthIsDiagnosed
<1>12. CASE UNCHANGED vars BY <1>12, LinkUnchanged DEF vars, configVars, runtimeVars
<1>13. CASE \/ \E u \in Users : Operate(u)
            \/ \E r \in Runs : ~connected /\ Start(r, "start")
            \/ \E o \in Operators : GoesOn(o)
  BY <1>13, OperatorSteps, <1>1, <1>2, <1>3, <1>4, <1>5, <1>6
<1> QED BY <1>7, <1>8, <1>9, <1>10, <1>11, <1>12, <1>13 DEF Next, ReaderStops

\* The tool is registered and bound exactly while the protocol is connected,
\* whatever operations overlap.
THEOREM ToolsFollow == Spec => []ToolsFollowConnection
<1>1. Init => TypeOK /\ LinkInv BY TypeInit, LinkInit
<1>2. TypeOK /\ LinkInv /\ [Next]_vars => (TypeOK /\ LinkInv)' BY TypeNext, LinkNext
<1>3. LinkInv => ToolsFollowConnection BY DEF LinkInv
<1> QED BY <1>1, <1>2, <1>3, PTL DEF Spec

\* The health of the bound tool is the one of the diagnostic cache, across calls
\* that fail late, reconnects, edits and deletion.
THEOREM HealthFollows == Spec => []HealthIsDiagnosed
<1>1. Init => TypeOK /\ LinkInv BY TypeInit, LinkInit
<1>2. TypeOK /\ LinkInv /\ [Next]_vars => (TypeOK /\ LinkInv)' BY TypeNext, LinkNext
<1>3. LinkInv => HealthIsDiagnosed BY DEF LinkInv
<1> QED BY <1>1, <1>2, <1>3, PTL DEF Spec

-----------------------------------------------------------------------------
(* As long as operations do not overlap. *)

\* A handshake speaks to the service's process and session, or is lost: its
\* process is gone and no answer can come.
Shaken(o) == \/ session = ask[o].session /\ process = session
             \/ /\ ask[o].session \notin alive \cup reading
                /\ fut[o] # "result"
                /\ \A r \in outstanding : r.session # ask[o].session

Exclusive == \A o, q \in Busy : o = q
Owned     == config # "absent" => \A p \in alive : p = process \/ p \in doomed
Opening   == \A o \in Operators : pc[o] \in {"prerequisites", "spawn"} => process \notin alive
Closing   == \A o \in Operators : pc[o] = "terminating" =>
                process \in {0, stopping[o]} /\ session = 0 /\ ~connected
Served    == (session # 0 => session = process) /\ (connected => session # 0)
Shaking   == \A o \in Operators : pc[o] \in Handshake => ~connected /\ Shaken(o)

Tidy    == Exclusive /\ Owned /\ Opening /\ Closing /\ Served /\ Shaking
TidyInv == ~untidy => Tidy

LEMMA TidyInit == ASSUME Init PROVE TidyInv
<1>1. \A o \in Operators : pc[o] = "idle" BY OperatorIsClient DEF Init
<1>2. "idle" \notin Handshake BY DEF Handshake
<1> QED BY <1>1, <1>2 DEF Init, TidyInv, Tidy, Exclusive, Busy, Owned, Opening, Closing, Served,
                          Shaking

LEMMA TidyMeans == ASSUME TidyInv PROVE NoOrphan /\ ConnectedIsServed
BY DEF TidyInv, Tidy, NoOrphan, Owned, ConnectedIsServed, Served, Shaking

\* An operator that goes on as before, is over, or only checks.
Steady(o) ==
    \/ pc'[o] \in {"idle", "checking"}
    \/ pc[o] = "prerequisites" /\ pc'[o] = "spawn"
    \/ /\ pc'[o] = pc[o] /\ ask'[o].session = ask[o].session /\ stopping'[o] = stopping[o]
       /\ \/ fut'[o] = "result" => fut[o] = "result"
          \/ \E r \in outstanding : r.session = ask[o].session

Framed == /\ untidy => untidy'
          /\ UNCHANGED <<process, session, connected>>
          /\ alive' \subseteq alive /\ doomed \cap alive' \subseteq doomed'
          /\ reading' \subseteq reading /\ outstanding' \subseteq outstanding
          /\ config = "absent" => config' = "absent"
          /\ \A o \in Operators : Steady(o)

LEMMA PhaseFacts ==
    /\ "idle" \notin Handshake /\ "checking" \notin Handshake /\ "spawn" \notin Handshake
    /\ "prerequisites" \notin Handshake /\ "terminating" \notin Handshake
    /\ "call" \notin Handshake
BY DEF Handshake

LEMMA FrameKeeps == ASSUME TypeOK, TidyInv, Framed PROVE TidyInv'
<1> SUFFICES ASSUME ~untidy' PROVE Tidy' BY DEF TidyInv
<1> USE DEF Framed
<1>1. Tidy BY DEF TidyInv, TypeOK
<1>2. Busy' \subseteq Busy BY DEF Busy, Steady
<1>3. Exclusive' BY <1>1, <1>2 DEF Tidy, Exclusive
<1>4. Owned' BY <1>1 DEF Tidy, Owned
<1>5. Opening' BY <1>1 DEF Tidy, Opening, Steady
<1>6. Closing' BY <1>1 DEF Tidy, Closing, Steady
<1>7. Served' BY <1>1 DEF Tidy, Served
<1>8. Shaking'
  <2> SUFFICES ASSUME NEW o \in Operators, pc'[o] \in Handshake PROVE ~connected' /\ Shaken(o)'
    BY DEF Shaking
  <2>1. /\ pc'[o] = pc[o] /\ ask'[o].session = ask[o].session
        /\ \/ fut'[o] = "result" => fut[o] = "result"
           \/ \E r \in outstanding : r.session = ask[o].session
    BY PhaseFacts DEF Steady
  <2>2. ~connected /\ Shaken(o) BY <1>1, <2>1 DEF Tidy, Shaking
  <2> QED BY <2>1, <2>2 DEF Shaken
<1> QED BY <1>3, <1>4, <1>5, <1>6, <1>7, <1>8 DEF Tidy

LEMMA BeginEffect ==
    ASSUME TypeOK, NEW o \in Operators, NEW j, NEW phase, Begin(o, j, phase)
    PROVE  pc'[o] = phase /\ \A q \in Operators \ {o} : pc'[q] = pc[q]
BY OperatorIsClient DEF Begin, TypeOK

LEMMA OverEffect ==
    ASSUME TypeOK, NEW o \in Operators, NEW s, Over(o, s)
    PROVE  /\ pc'[o] = "idle"
           /\ \A q \in Operators \ {o} : /\ pc'[q] = pc[q] /\ ask'[q] = ask[q]
                                         /\ stopping'[q] = stopping[q]
BY OperatorIsClient DEF Over, Idle, TypeOK

\* An operator that starts alone: no other is in the way.
LEMMA TidyStart ==
    ASSUME TypeOK, TidyInv, NEW o \in Operators, NEW j \in {"start", "auto"}, Start(o, j)
    PROVE  TidyInv'
<1>1. /\ untidy' = (untidy \/ Busy # {})
      /\ UNCHANGED <<config, process, session, connected, alive, doomed, reading, outstanding,
                     stopping, ask, fut>>
  BY DEF Start, configVars, processVars, protocolVars, askVars
<1>2. CASE Startable /\ Begin(o, j, "prerequisites")
  <2> SUFFICES ASSUME ~untidy' PROVE Tidy' BY DEF TidyInv
  <2>1. Tidy /\ Busy = {} BY <1>1 DEF TidyInv, TypeOK
  <2>2. pc'[o] = "prerequisites" /\ \A q \in Operators \ {o} : pc'[q] = pc[q]
    BY <1>2, BeginEffect
  <2>3. \A q \in Operators \ {o} : pc'[q] \in {"idle", "checking"} BY <2>1, <2>2 DEF Busy
  <2>4. Exclusive' BY <2>3 DEF Exclusive, Busy
  <2>5. Owned' /\ Served' BY <1>1, <2>1 DEF Tidy, Owned, Served
  <2>6. Opening' BY <1>1, <1>2 DEF Opening, Startable, Running
  <2>7. Closing' /\ Shaking' BY <2>2, <2>3, PhaseFacts DEF Closing, Shaking
  <2> QED BY <2>4, <2>5, <2>6, <2>7 DEF Tidy
<1>3. CASE Begin(o, j, "checking") \/ UNCHANGED pc
  <2>1. \A q \in Operators : pc'[q] = "checking" \/ pc'[q] = pc[q] BY <1>3, BeginEffect
  <2>2. Framed BY <1>1, <2>1 DEF Framed, Steady
  <2> QED BY <2>2, FrameKeeps
<1> QED BY <1>2, <1>3 DEF Start

LEMMA TidySpawned ==
    ASSUME TypeOK, TidyInv, NEW o \in Operators, Spawned(o) PROVE TidyInv'
<1> SUFFICES ASSUME ~untidy' PROVE Tidy' BY DEF TidyInv
<1> DEFINE p == spawned + 1
<1>1. /\ pc[o] = "spawn" /\ p \in Processes /\ process' = p /\ alive' = alive \cup {p}
      /\ untidy' = (untidy \/ process \notin alive \cup {0})
      /\ UNCHANGED <<config, connected, doomed>>
  BY DEF Spawned, configVars
<1>2. Tidy BY <1>1 DEF TidyInv, TypeOK
<1>3. process = 0 BY <1>1, <1>2 DEF Tidy, Opening
<1>4. session = 0 /\ ~connected BY <1>2, <1>3 DEF Tidy, Served
<1>5. o \in Busy /\ \A q \in Operators \ {o} : pc[q] \in {"idle", "checking"}
  BY <1>1, <1>2 DEF Tidy, Exclusive, Busy
<1>6. p # 0 /\ 0 \notin alive BY <1>1 DEF TypeOK, Processes
<1> HIDE DEF p
<1>7. Owned' BY <1>1, <1>2, <1>3, <1>6 DEF Tidy, Owned
<1>8. CASE config = "absent"
  <2>1. Raised(o, "running") /\ session' = session BY <1>8 DEF Spawned
  <2>2. pc'[o] = "idle" /\ \A q \in Operators \ {o} : pc'[q] = pc[q]
    BY <2>1, OverEffect DEF Raised
  <2>3. \A q \in Operators : pc'[q] \in {"idle", "checking"} BY <1>5, <2>2
  <2>4. Exclusive' /\ Opening' /\ Closing' /\ Shaking'
    BY <2>3, PhaseFacts DEF Exclusive, Busy, Opening, Closing, Shaking
  <2>5. Served' BY <1>1, <1>4, <2>1 DEF Served
  <2> QED BY <1>7, <2>4, <2>5 DEF Tidy
<1>9. CASE config # "absent"
  <2>1. session' = p /\ Request(o, p, "initialize", pending) BY <1>9 DEF Spawned, p
  <2>2. o \in Clients /\ pc' = [pc EXCEPT ![o] = "initialize"]
        /\ ask' = [ask EXCEPT ![o] = [session |-> p, id |-> nextId[p], no |-> nextId[p]]]
    BY <2>1, OperatorIsClient DEF Request, NewId
  <2>3. ask'[o].session = p /\ pc'[o] = "initialize"
    BY <2>2 DEF TypeOK
  <2>4. \A q \in Operators \ {o} : pc'[q] \in {"idle", "checking"}
    BY <1>5, <2>2, OperatorIsClient DEF TypeOK
  <2>5. Exclusive' BY <2>4 DEF Exclusive, Busy
  <2>6. Opening' /\ Closing' BY <2>3, <2>4 DEF Opening, Closing
  <2>7. Served' BY <1>1, <1>4, <2>1 DEF Served
  <2>8. Shaking' BY <1>1, <1>4, <2>1, <2>3, <2>4, PhaseFacts DEF Shaking, Shaken
  <2> QED BY <1>7, <2>5, <2>6, <2>7, <2>8 DEF Tidy
<1> QED BY <1>8, <1>9

LEMMA OthersRest ==
    ASSUME Tidy, NEW o \in Busy
    PROVE  \A q \in Operators \ {o} : pc[q] \in {"idle", "checking"}
BY DEF Tidy, Exclusive, Busy

LEMMA HandshakeIsBusy ==
    ASSUME NEW o \in Operators, pc[o] \in Handshake \cup {"terminating"} PROVE o \in Busy
BY PhaseFacts DEF Busy

\* Once an operator is over and all others rest, only the service matters.
LEMMA AllRest ==
    ASSUME \A q \in Operators : pc'[q] \in {"idle", "checking"}, Owned', Served'
    PROVE  Tidy'
<1>1. Exclusive' /\ Opening' /\ Closing' /\ Shaking'
  BY PhaseFacts DEF Exclusive, Busy, Opening, Closing, Shaking
<1> QED BY <1>1 DEF Tidy

LEMMA TidyHandshake ==
    ASSUME TypeOK, KnownInv, TidyInv, NEW o \in Operators, Initialized(o) \/ Listed(o)
    PROVE  TidyInv'
<1> SUFFICES ASSUME ~untidy' PROVE Tidy' BY DEF TidyInv
<1>1. pc[o] \in Handshake /\ o \in Busy /\ o \in Clients
  BY HandshakeIsBusy, OperatorIsClient DEF Initialized, Listed, Handshake
<1>2. PICK outcome \in Outcomes :
         \/ Ask(o, "list", outcome) \/ Ask(o, "fallback", outcome)
         \/ HandshakeFails(o) \/ (Connect(o) /\ (fut[o] = "result"))
  BY DEF Initialized, Listed, Wakes
<1>3. untidy' = untidy BY <1>2 DEF Ask, HandshakeFails, Connect
<1>4. Tidy BY <1>3 DEF TidyInv, TypeOK
<1>5. \A q \in Operators \ {o} : pc[q] \in {"idle", "checking"} BY <1>1, <1>4, OthersRest
<1>6. ~connected /\ Shaken(o) BY <1>1, <1>4 DEF Tidy, Shaking
<1>7. ASSUME NEW phase \in Handshake, Ask(o, phase, outcome) PROVE Tidy'
  <2>1. /\ ask[o].session \in alive
        /\ UNCHANGED <<config, process, session, connected, alive, doomed>>
        /\ Request(o, ask[o].session, phase, Popped(o, outcome))
    BY <1>7 DEF Ask, configVars, runtimeVars, processVars
  <2>2. /\ pc' = [pc EXCEPT ![o] = phase]
        /\ ask' = [ask EXCEPT ![o] = [session |-> ask[o].session,
                      id |-> nextId[ask[o].session], no |-> nextId[ask[o].session]]]
    BY <2>1 DEF Request, NewId
  <2>3. pc'[o] = phase /\ ask'[o].session = ask[o].session BY <1>1, <2>2 DEF TypeOK
  <2>4. \A q \in Operators \ {o} : pc'[q] \in {"idle", "checking"}
    BY <1>5, <2>2, OperatorIsClient DEF TypeOK
  <2>5. Exclusive' BY <2>4 DEF Exclusive, Busy
  <2>6. Opening' /\ Closing' BY <1>7, <2>3, <2>4, PhaseFacts DEF Opening, Closing
  <2>7. Owned' /\ Served' BY <1>4, <2>1 DEF Tidy, Owned, Served
  <2>8. Shaking'
    BY <1>6, <2>1, <2>3, <2>4, PhaseFacts DEF Shaking, Shaken
  <2> QED BY <2>5, <2>6, <2>7, <2>8 DEF Tidy
<1>8. CASE HandshakeFails(o)
  <2>1. /\ Disconnect({o}) /\ UNCHANGED <<config, process, alive, doomed>>
        /\ Raised(o, IF Running THEN "protocol_disconnected" ELSE "failed")
    BY <1>8 DEF HandshakeFails, configVars, processVars
  <2>2. \A q \in Operators : pc'[q] \in {"idle", "checking"}
    BY <1>5, <2>1, OverEffect DEF Raised
  <2>3. Owned' BY <1>4, <2>1 DEF Tidy, Owned
  <2>4. Served' BY <1>4, <2>1 DEF Tidy, Served, Disconnect, UnbindRuntime
  <2> QED BY <2>2, <2>3, <2>4, AllRest
<1>9. CASE Connect(o) /\ fut[o] = "result"
  <2>1. /\ UNCHANGED <<config, process, session, alive, doomed>>
        /\ \E s : Over(o, s)
    BY <1>9 DEF Connect, Raised, configVars, processVars
  <2>2. \A q \in Operators : pc'[q] \in {"idle", "checking"} BY <1>5, <2>1, OverEffect
  <2>3. Owned' BY <1>4, <2>1 DEF Tidy, Owned
  <2>4. session = ask[o].session /\ process = session BY <1>6, <1>9 DEF Shaken
  <2>5. session # 0 BY <1>1, <2>4 DEF KnownInv, Asking
  <2>6. Served' BY <2>1, <2>4, <2>5 DEF Served
  <2> QED BY <2>2, <2>3, <2>6, AllRest
<1> QED BY <1>2, <1>7, <1>8, <1>9 DEF Handshake

LEMMA TidyStop ==
    ASSUME TypeOK, TidyInv, NEW o \in Operators, NEW j \in {"stop", "restart"}, Stop(o, j)
    PROVE  TidyInv'
<1> SUFFICES ASSUME ~untidy' PROVE Tidy' BY DEF TidyInv
<1>1. /\ untidy' = (untidy \/ Busy # {}) /\ config # "absent"
      /\ Disconnect({o}) /\ UNCHANGED <<config, alive>>
  BY DEF Stop, configVars
<1>2. Tidy /\ Busy = {} BY <1>1 DEF TidyInv, TypeOK
<1>3. session' = 0 /\ ~connected' BY <1>1 DEF Disconnect, UnbindRuntime
<1>4. 0 \notin alive BY DEF TypeOK
<1>5. Served' BY <1>3 DEF Served
<1>6. \A q \in Operators : pc[q] \in {"idle", "checking"} BY <1>2 DEF Busy
<1>7. CASE Running
  <2>1. /\ doomed' = doomed \cup {process} /\ Begin(o, j, "terminating")
        /\ stopping' = [stopping EXCEPT ![o] = process] /\ process' = process
    BY <1>7 DEF Stop
  <2>2. pc'[o] = "terminating" /\ \A q \in Operators \ {o} : pc'[q] \in {"idle", "checking"}
    BY <1>6, <2>1, BeginEffect
  <2>3. stopping'[o] = process BY <2>1 DEF TypeOK
  <2>4. Exclusive' /\ Opening' /\ Shaking'
    BY <2>2, PhaseFacts DEF Exclusive, Busy, Opening, Shaking
  <2>5. Closing' BY <1>3, <2>1, <2>2, <2>3 DEF Closing
  <2>6. Owned' BY <1>1, <1>2, <2>1 DEF Tidy, Owned
  <2> QED BY <1>5, <2>4, <2>5, <2>6 DEF Tidy
<1>8. CASE ~Running
  <2>1. process' = 0 /\ doomed' = doomed BY <1>8 DEF Stop
  <2>2. Owned' BY <1>1, <1>2, <1>8, <2>1 DEF Tidy, Owned, Running
  <2>3. CASE Begin(o, "restart", "prerequisites")
    <3>1. /\ pc'[o] = "prerequisites"
          /\ \A q \in Operators \ {o} : pc'[q] \in {"idle", "checking"}
      BY <1>6, <2>3, BeginEffect
    <3>2. Exclusive' /\ Closing' /\ Shaking'
      BY <3>1, PhaseFacts DEF Exclusive, Busy, Closing, Shaking
    <3>3. Opening' BY <1>1, <1>4, <2>1 DEF Opening
    <3> QED BY <1>5, <2>2, <3>2, <3>3 DEF Tidy
  <2>4. CASE \E s : Over(o, s)
    <3>1. \A q \in Operators : pc'[q] \in {"idle", "checking"} BY <1>6, <2>4, OverEffect
    <3> QED BY <1>5, <2>2, <3>1, AllRest
  <2> QED BY <1>8, <2>3, <2>4 DEF Stop
<1> QED BY <1>7, <1>8

LEMMA TidyTerminated ==
    ASSUME TypeOK, TidyInv, NEW o \in Operators, Terminated(o) PROVE TidyInv'
<1> SUFFICES ASSUME ~untidy' PROVE Tidy' BY DEF TidyInv
<1>1. /\ pc[o] = "terminating" /\ stopping[o] \notin alive /\ process' = 0
      /\ UNCHANGED <<config, session, connected, alive, doomed, untidy>>
  BY DEF Terminated, configVars, processVars
<1>2. Tidy BY <1>1 DEF TidyInv, TypeOK
<1>3. \A q \in Operators \ {o} : pc[q] \in {"idle", "checking"}
  BY <1>1, <1>2, HandshakeIsBusy, OthersRest
<1>4. process \in {0, stopping[o]} /\ session = 0 /\ ~connected
  BY <1>1, <1>2 DEF Tidy, Closing
<1>5. 0 \notin alive BY DEF TypeOK
<1>6. Owned' BY <1>1, <1>2, <1>4, <1>5 DEF Tidy, Owned
<1>7. Served' BY <1>1, <1>4 DEF Served
<1>8. CASE Begin(o, "restart", "prerequisites")
  <2>1. /\ pc'[o] = "prerequisites"
        /\ \A q \in Operators \ {o} : pc'[q] \in {"idle", "checking"}
    BY <1>3, <1>8, BeginEffect
  <2>2. Exclusive' /\ Closing' /\ Shaking'
    BY <2>1, PhaseFacts DEF Exclusive, Busy, Closing, Shaking
  <2>3. Opening' BY <1>1, <1>5 DEF Opening
  <2> QED BY <1>6, <1>7, <2>2, <2>3 DEF Tidy
<1>9. CASE \E s : Over(o, s)
  <2>1. \A q \in Operators : pc'[q] \in {"idle", "checking"} BY <1>3, <1>9, OverEffect
  <2> QED BY <1>6, <1>7, <2>1, AllRest
<1> QED BY <1>8, <1>9 DEF Terminated, Stopped

\* The watcher finds its process gone: a handshake that has not its answer yet is
\* lost with it.
LEMMA TidyWatch ==
    ASSUME TypeOK, KnownInv, TidyInv, NEW p \in Processes, Watch(p), IsCurrent(p)
    PROVE  TidyInv'
<1> SUFFICES ASSUME ~untidy' PROVE Tidy' BY DEF TidyInv
<1>1. /\ untidy' = (untidy \/ Overtaken) /\ p \notin alive /\ process' = 0
      /\ Disconnect({}) /\ nextId' = nextId
      /\ UNCHANGED <<config, alive, doomed, pc, stopping, ask>>
  BY DEF Watch, configVars, jobVars
<1>2. Tidy /\ ~Overtaken BY <1>1 DEF TidyInv, TypeOK
<1>3. process = p /\ config # "absent" /\ p # 0 BY BoundsAssumption DEF IsCurrent, Processes
<1>4. session' = 0 /\ ~connected' BY <1>1, <1>3 DEF Disconnect, UnbindRuntime
<1>5. Exclusive' BY <1>1, <1>2 DEF Tidy, Exclusive, Busy
<1>6. Owned' BY <1>1, <1>2, <1>3 DEF Tidy, Owned
<1>7. Opening' BY <1>1 DEF Opening, TypeOK
<1>8. Closing' BY <1>1, <1>4 DEF Closing
<1>9. Served' BY <1>4 DEF Served
<1>10. Shaking'
  <2> SUFFICES ASSUME NEW o \in Operators, pc[o] \in Handshake PROVE Shaken(o)'
    BY <1>1, <1>4 DEF Shaking
  <2>1. Shaken(o) /\ fut[o] # "result" BY <1>2 DEF Tidy, Shaking, Overtaken
  <2>2. fut'[o] # "result" /\ ask'[o] = ask[o]
    BY <1>1, <2>1, DisconnectEffect, OperatorIsClient
  <2>3. reading' \subseteq reading /\ outstanding' \subseteq outstanding
    BY <1>1, <1>3 DEF Disconnect, EndSession
  <2>4. CASE session = ask[o].session /\ process = session
    <3>1. EndSession(session) BY <1>1, <1>3, <2>4 DEF Disconnect
    <3> QED BY <1>1, <1>3, <2>2, <2>4, <3>1 DEF Shaken, EndSession
  <2>5. CASE ~(session = ask[o].session /\ process = session)
    BY <1>1, <2>1, <2>2, <2>3, <2>5 DEF Shaken
  <2> QED BY <2>4, <2>5
<1> QED BY <1>5, <1>6, <1>7, <1>8, <1>9, <1>10 DEF Tidy

LEMMA TidyCall ==
    ASSUME TypeOK, TidyInv, NEW c \in Callers, Call(c) \/ CallEnds(c) PROVE TidyInv'
<1> SUFFICES ASSUME ~untidy' PROVE Tidy' BY DEF TidyInv
<1>1. /\ untidy' = untidy
      /\ UNCHANGED <<config, process, session, connected, alive, doomed, stopping>>
  BY DEF Call, CallEnds, processVars, jobVars
<1>2. Tidy BY <1>1 DEF TidyInv, TypeOK
<1>3. \A o \in Operators : o # c BY ClientsAssumption DEF Operators
<1>4. \A o \in Operators : pc'[o] = pc[o] /\ ask'[o] = ask[o] /\ fut'[o] = fut[o]
  BY <1>3, OperatorIsClient DEF Call, CallEnds, Request, Idle, askVars, TypeOK
<1>5. Exclusive' /\ Owned' /\ Opening' /\ Closing' /\ Served'
  BY <1>1, <1>2, <1>4 DEF Tidy, Exclusive, Busy, Owned, Opening, Closing, Served
<1>6. CASE connected
  <2>1. \A o \in Operators : pc'[o] \notin Handshake BY <1>2, <1>4, <1>6 DEF Tidy, Shaking
  <2> QED BY <1>5, <2>1 DEF Tidy, Shaking
<1>7. CASE ~connected
  <2>1. UNCHANGED <<reading, outstanding>> BY <1>7 DEF Call, CallEnds
  <2>2. Shaking' BY <1>1, <1>2, <1>4, <2>1 DEF Tidy, Shaking, Shaken
  <2> QED BY <1>5, <2>2 DEF Tidy
<1> QED BY <1>6, <1>7

\* Everything else leaves handshakes and operations as they are.
LEMMA TidyOthers ==
    ASSUME TypeOK, KnownInv, TidyInv,
           \/ \E o \in Operators :
                 Prerequisites(o) \/ SpawnFails(o) \/ Check(o) \/ CheckEnds(o)
           \/ \E r \in outstanding, outcome \in {"result", "failure"} : Answer(r, outcome)
           \/ \E p \in Processes : ReaderStops(p) \/ Exits(p) \/ (Watch(p) /\ ~IsCurrent(p))
           \/ Edit \/ Delete \/ UNCHANGED vars
    PROVE  TidyInv'
<1>1. ASSUME NEW o \in Operators,
             Prerequisites(o) \/ SpawnFails(o) \/ Check(o) \/ CheckEnds(o)
      PROVE  TidyInv'
  <2>1. /\ UNCHANGED <<config, process, session, connected, alive, doomed, reading,
                       outstanding, fut, untidy>>
    BY <1>1 DEF Prerequisites, SpawnFails, Check, CheckEnds, configVars, runtimeVars,
                processVars, protocolVars, askVars
  <2>2. \/ (\E s : Over(o, s)) \/ (\E j : Begin(o, j, "checking") /\ UNCHANGED <<ask, stopping>>)
        \/ (/\ pc[o] = "prerequisites" /\ pc' = [pc EXCEPT ![o] = "spawn"]
            /\ UNCHANGED <<ask, stopping>>)
    BY <1>1 DEF Prerequisites, SpawnFails, Check, CheckEnds, Raised, jobVars, askVars
  <2>3. \A q \in Operators \ {o} : /\ pc'[q] = pc[q] /\ ask'[q] = ask[q]
                                   /\ stopping'[q] = stopping[q]
    BY <2>2, OverEffect, BeginEffect, OperatorIsClient DEF TypeOK
  <2>4. \/ pc'[o] \in {"idle", "checking"}
        \/ pc[o] = "prerequisites" /\ pc'[o] = "spawn"
    BY <2>2, OverEffect, BeginEffect, OperatorIsClient DEF TypeOK
  <2>5. Framed BY <2>1, <2>3, <2>4 DEF Framed, Steady
  <2> QED BY <2>5, FrameKeeps
<1>2. ASSUME NEW r \in outstanding, NEW outcome \in {"result", "failure"}, Answer(r, outcome)
      PROVE  TidyInv'
  <2>1. UNCHANGED <<config, process, session, connected, alive, doomed, reading, pc, ask,
                    stopping, untidy>>
    BY <1>2 DEF Answer, configVars, runtimeVars, processVars, jobVars
  <2>2. outstanding' \subseteq outstanding BY <1>2 DEF Answer
  <2>3. \A o \in Operators : fut'[o] = fut[o] \/ ask[o].session = r.session
    BY <1>2, OperatorIsClient DEF Answer, Awaits
  <2>4. Framed BY <2>1, <2>2, <2>3 DEF Framed, Steady
  <2> QED BY <2>4, FrameKeeps
<1>3. ASSUME NEW p \in Processes, ReaderStops(p) PROVE TidyInv'
  <2>1. /\ UNCHANGED <<config, process, session, connected, alive, doomed, pc, ask,
                       stopping, untidy>>
        /\ reading' \subseteq reading /\ outstanding' \subseteq outstanding
        /\ \E how \in Failures : fut' = FailAll(p, {}, how)
    BY <1>3 DEF ReaderStops, ReaderEnds, EndSession, configVars, runtimeVars, processVars, jobVars
  <2>2. \A o \in Operators : fut'[o] \in {fut[o], "failure", "broken"}
    BY <2>1, FailAllEffect, OperatorIsClient
  <2>3. Framed BY <2>1, <2>2 DEF Framed, Steady
  <2> QED BY <2>3, FrameKeeps
<1>4. ASSUME NEW p \in Processes, Exits(p) PROVE TidyInv'
  <2>1. Framed
    BY <1>4 DEF Exits, Framed, Steady, configVars, runtimeVars, protocolVars, jobVars, askVars
  <2> QED BY <2>1, FrameKeeps
<1>5. ASSUME NEW p \in Processes, Watch(p), ~IsCurrent(p) PROVE TidyInv'
  <2>1. Framed BY <1>5 DEF Watch, Framed, Steady, configVars, runtimeVars, jobVars
  <2> QED BY <2>1, FrameKeeps
<1>6. CASE Edit \/ Delete \/ UNCHANGED vars
  <2>1. Framed
    BY <1>6 DEF Edit, Delete, vars, Framed, Steady, configVars, runtimeVars, processVars,
                protocolVars, jobVars, askVars
  <2> QED BY <2>1, FrameKeeps
<1> QED BY <1>1, <1>2, <1>3, <1>4, <1>5, <1>6

LEMMA TidyNext == ASSUME TypeOK, KnownInv, TidyInv, [Next]_vars PROVE TidyInv'
<1>1. CASE \/ \E u \in Users : Operate(u)
           \/ \E r \in Runs : ~connected /\ Start(r, "start")
           \/ \E o \in Operators : GoesOn(o)
  BY <1>1, OperatorSteps, TidyStart, TidySpawned, TidyHandshake, TidyStop, TidyTerminated,
     TidyOthers
<1>2. CASE \E c \in Callers : Call(c) \/ CallEnds(c)
  BY <1>2, TidyCall
<1>3. CASE \E p \in Processes : ReaderStops(p) \/ Exits(p) \/ Watch(p)
  BY <1>3, TidyWatch, TidyOthers
<1>4. CASE \/ \E r \in outstanding, outcome \in {"result", "failure"} : Answer(r, outcome)
           \/ Edit \/ Delete \/ UNCHANGED vars
  BY <1>4, TidyOthers
<1> QED BY <1>1, <1>2, <1>3, <1>4 DEF Next, ReaderStops

LEMMA TidyAlways == Spec => [](TypeOK /\ TidyInv)
<1>1. Init => TypeOK /\ AnswerInv /\ KnownInv /\ TidyInv BY TypeInit, RequestsInit, TidyInit
<1>2. TypeOK /\ AnswerInv /\ KnownInv /\ TidyInv /\ [Next]_vars
         => (TypeOK /\ AnswerInv /\ KnownInv /\ TidyInv)'
  BY TypeNext, RequestsNext, TidyNext
<1> QED BY <1>1, <1>2, PTL DEF Spec

\* As long as operations do not overlap, no process runs that the service does not
\* know and that was not told to terminate.
THEOREM NoProcessIsOrphaned == Spec => []NoOrphan
<1>1. TypeOK /\ TidyInv => NoOrphan BY TidyMeans
<1> QED BY <1>1, TidyAlways, PTL

\* As long as operations do not overlap, a connected service has a session with
\* the process it knows, and no handshake is under way.
THEOREM ConnectionIsServed == Spec => []ConnectedIsServed
<1>1. TypeOK /\ TidyInv => ConnectedIsServed BY TidyMeans
<1> QED BY <1>1, TidyAlways, PTL

-----------------------------------------------------------------------------
(* The processes that are watched. *)

\* Every process that runs is watched, and so is the one the service has, running
\* or not, until its watcher has taken it away.
EveryProcessIsWatched ==
    /\ alive \subseteq watched
    /\ config # "absent" /\ process # 0 => process \in watched

LEMMA WatchedKeeps ==
    ASSUME EveryProcessIsWatched, UNCHANGED <<alive, watched>>, process' \in {process, 0},
           config' = "absent" \/ config # "absent"
    PROVE  EveryProcessIsWatched'
BY DEF EveryProcessIsWatched

LEMMA WatchedNext == ASSUME TypeOK, EveryProcessIsWatched, [Next]_vars PROVE EveryProcessIsWatched'
<1> DEFINE Stays == /\ UNCHANGED <<alive, watched>>
                    /\ process' \in {process, 0}
                    /\ config' = "absent" \/ config # "absent"
<1>1. Stays => EveryProcessIsWatched' BY WatchedKeeps
<1>2. ASSUME NEW o \in Operators, \E j \in {"start", "auto"} : Start(o, j) PROVE Stays
  BY <1>2 DEF Start, configVars, processVars
<1>3. ASSUME NEW o \in Operators, Prerequisites(o) \/ SpawnFails(o) PROVE Stays
  BY <1>3 DEF Prerequisites, SpawnFails, configVars, processVars
<1>4. ASSUME NEW o \in Operators, Spawned(o) PROVE EveryProcessIsWatched'
  BY <1>4 DEF Spawned, EveryProcessIsWatched
<1>5. ASSUME NEW o \in Operators, Terminated(o) \/ CheckEnds(o) PROVE Stays
  BY <1>5 DEF Terminated, CheckEnds, configVars, processVars
<1>6. ASSUME NEW o \in Operators, Check(o) PROVE Stays
  BY <1>6 DEF Check, configVars, runtimeVars, processVars
<1>7. ASSUME NEW o \in Operators, \E j \in {"stop", "restart"} : Stop(o, j) PROVE Stays
  BY <1>7 DEF Stop, configVars
<1>8. ASSUME NEW o \in Operators, Initialized(o) \/ Listed(o) PROVE Stays
  <2>1. \/ \E phase \in Phases, outcome \in Outcomes : Ask(o, phase, outcome)
        \/ HandshakeFails(o) \/ Connect(o)
    BY <1>8 DEF Initialized, Listed, Phases, Asking, Handshake
  <2> QED BY <2>1 DEF Ask, HandshakeFails, Connect, configVars, runtimeVars, processVars
<1>9. ASSUME NEW c \in Callers, Call(c) \/ CallEnds(c) PROVE Stays
  BY <1>9 DEF Call, CallEnds, processVars
<1>10. CASE \E r \in outstanding, outcome \in {"result", "failure"} : Answer(r, outcome)
  BY <1>1, <1>10 DEF Answer, configVars, runtimeVars, processVars
<1>11. ASSUME NEW p \in Processes, ReaderStops(p) \/ Exits(p) \/ Watch(p)
       PROVE  EveryProcessIsWatched'
  <2>1. CASE ReaderStops(p)
    BY <1>1, <2>1 DEF ReaderStops, ReaderEnds, configVars, runtimeVars, processVars
  <2>2. CASE Exits(p)
    BY <2>2 DEF Exits, EveryProcessIsWatched, configVars, runtimeVars
  <2>3. CASE Watch(p) /\ IsCurrent(p)
    BY <2>3 DEF Watch, EveryProcessIsWatched, configVars
  <2>4. CASE Watch(p) /\ ~IsCurrent(p)
    BY <2>4 DEF Watch, IsCurrent, EveryProcessIsWatched, configVars, runtimeVars
  <2> QED BY <1>11, <2>1, <2>2, <2>3, <2>4
<1>12. CASE Edit \/ Delete \/ UNCHANGED vars
  BY <1>1, <1>12 DEF Edit, Delete, vars, configVars, runtimeVars, processVars
<1>13. CASE \/ \E u \in Users : Operate(u)
            \/ \E r \in Runs : ~connected /\ Start(r, "start")
            \/ \E o \in Operators : GoesOn(o)
  BY <1>13, OperatorSteps, <1>1, <1>2, <1>3, <1>4, <1>5, <1>6, <1>7, <1>8
<1> HIDE DEF Stays
<1> QED BY <1>1, <1>9, <1>10, <1>11, <1>12, <1>13 DEF Next, ReaderStops

\* Whatever operations overlap: when the process of a service is gone, the watcher
\* that takes it away has still to run (_watch_process), so that DeathIsNoticed needs
\* nothing but that it does.
THEOREM NobodyDiesUnwatched == Spec => []EveryProcessIsWatched
<1>1. Init => TypeOK /\ EveryProcessIsWatched
  BY TypeInit DEF Init, EveryProcessIsWatched
<1>2. TypeOK /\ EveryProcessIsWatched /\ [Next]_vars => (TypeOK /\ EveryProcessIsWatched)'
  BY TypeNext, WatchedNext
<1> QED BY <1>1, <1>2, PTL DEF Spec

\* A stop waits for a process that was told to terminate, as long as it runs.
EndIsUnderWay ==
    \A o \in Operators : pc[o] = "terminating" =>
        stopping[o] \in 1..spawned /\ (stopping[o] \in alive => stopping[o] \in doomed)

LEMMA StoppingKeeps ==
    ASSUME EndIsUnderWay, spawned' = spawned, alive' \subseteq alive, doomed \cap alive' \subseteq doomed',
           \A o \in Operators :
              pc'[o] = "terminating" => pc[o] = "terminating" /\ stopping'[o] = stopping[o]
    PROVE  EndIsUnderWay'
BY DEF EndIsUnderWay

LEMMA StoppingNext == ASSUME TypeOK, EndIsUnderWay, [Next]_vars PROVE EndIsUnderWay'
<1> DEFINE Calm == /\ spawned' = spawned /\ alive' \subseteq alive
                   /\ doomed \cap alive' \subseteq doomed'
                   /\ \A o \in Operators : pc'[o] = "terminating" =>
                          pc[o] = "terminating" /\ stopping'[o] = stopping[o]
<1>0. /\ DOMAIN pc = Clients /\ pc = [c \in Clients |-> pc[c]]
      /\ DOMAIN stopping = Operators /\ stopping = [o \in Operators |-> stopping[o]]
      /\ Operators \subseteq Clients
  BY OperatorIsClient DEF TypeOK
<1>1. Calm => EndIsUnderWay' BY StoppingKeeps
<1>2. ASSUME NEW o \in Operators, \E j \in {"start", "auto"} : Start(o, j) PROVE Calm
  BY <1>0, <1>2 DEF Start, Begin, processVars
<1>3. ASSUME NEW o \in Operators, Prerequisites(o) \/ SpawnFails(o) PROVE Calm
  BY <1>0, <1>3 DEF Prerequisites, SpawnFails, Raised, Over, Idle, processVars, jobVars
<1>4. ASSUME NEW o \in Operators, Spawned(o) PROVE EndIsUnderWay'
  <2>1. /\ spawned' = spawned + 1 /\ alive' = alive \cup {spawned + 1} /\ doomed' = doomed
        /\ spawned \in Nat
    BY <1>4, BoundsAssumption DEF Spawned, TypeOK
  <2>2. \A q \in Operators : pc'[q] = "terminating" =>
           pc[q] = "terminating" /\ stopping'[q] = stopping[q]
    BY <1>0, <1>4 DEF Spawned, Raised, Over, Idle, Request, jobVars
  <2> QED BY <2>1, <2>2 DEF EndIsUnderWay
<1>5. ASSUME NEW o \in Operators, Terminated(o) \/ CheckEnds(o) PROVE Calm
  BY <1>0, <1>5 DEF Terminated, Stopped, Begin, CheckEnds, Over, Idle, processVars
<1>6. ASSUME NEW o \in Operators, Check(o) PROVE Calm
  BY <1>0, <1>6 DEF Check, Begin, processVars
<1>7. ASSUME NEW o \in Operators, \E j \in {"stop", "restart"} : Stop(o, j) PROVE EndIsUnderWay'
  <2>1. PICK j \in {"stop", "restart"} : Stop(o, j)
    BY <1>7
  <2>2. CASE Running
    <3>1. /\ doomed' = doomed \cup {process} /\ spawned' = spawned /\ alive' = alive
          /\ stopping' = [stopping EXCEPT ![o] = process]
          /\ pc' = [pc EXCEPT ![o] = "terminating"]
      BY <2>1, <2>2 DEF Stop, Begin
    <3>2. process \in 1..spawned
      BY <2>2 DEF Running, TypeOK
    <3> QED BY <1>0, <3>1, <3>2 DEF EndIsUnderWay
  <2>3. CASE ~Running
    BY <1>0, <1>1, <2>1, <2>3 DEF Stop, Begin, Over, Idle
  <2> QED BY <2>2, <2>3
<1>8. ASSUME NEW o \in Operators, Initialized(o) \/ Listed(o) PROVE Calm
  <2>1. \/ \E phase \in Asking, outcome \in Outcomes : Ask(o, phase, outcome)
        \/ HandshakeFails(o) \/ Connect(o)
    BY <1>8 DEF Initialized, Listed, Asking, Handshake
  <2>2. ASSUME NEW phase \in Asking, NEW outcome, Ask(o, phase, outcome) PROVE Calm
    <3>1. /\ pc' = [pc EXCEPT ![o] = phase] /\ UNCHANGED <<processVars, stopping>>
      BY <2>2 DEF Ask, Request, jobVars
    <3>2. phase # "terminating"
      BY DEF Asking, Handshake
    <3> QED BY <1>0, <3>1, <3>2 DEF processVars
  <2>3. CASE HandshakeFails(o) \/ Connect(o)
    BY <1>0, <2>3 DEF HandshakeFails, Connect, Raised, Over, Idle, processVars
  <2> QED BY <2>1, <2>2, <2>3
<1>9. ASSUME NEW c \in Callers, Call(c) \/ CallEnds(c) PROVE Calm
  BY <1>0, <1>9 DEF Call, CallEnds, Request, Idle, processVars, protocolVars, jobVars
<1>10. CASE \E r \in outstanding, outcome \in {"result", "failure"} : Answer(r, outcome)
  BY <1>1, <1>10 DEF Answer, processVars, jobVars
<1>11. ASSUME NEW p \in Processes, ReaderStops(p) \/ Exits(p) \/ Watch(p) PROVE Calm
  BY <1>11 DEF ReaderStops, ReaderEnds, Exits, Watch, processVars, jobVars
<1>12. CASE Edit \/ Delete \/ UNCHANGED vars
  BY <1>1, <1>12 DEF Edit, Delete, vars, processVars, jobVars
<1>13. CASE \/ \E u \in Users : Operate(u)
            \/ \E r \in Runs : ~connected /\ Start(r, "start")
            \/ \E o \in Operators : GoesOn(o)
  BY <1>13, OperatorSteps, <1>1, <1>2, <1>3, <1>4, <1>5, <1>6, <1>7, <1>8
<1> HIDE DEF Calm
<1> QED BY <1>1, <1>9, <1>10, <1>11, <1>12, <1>13 DEF Next, ReaderStops

\* Whatever operations overlap: a stop or a restart that waits for the end of a
\* process waits for one that has been told to terminate and is watched, or is gone
\* (stop: terminate, and kill after a while); so no stop waits for a process that
\* nobody ends.
THEOREM StopsAreObeyed == Spec => [](EndIsUnderWay /\ EveryProcessIsWatched)
<1>1. Init => EndIsUnderWay
  BY DEF Init, EndIsUnderWay, Clients
<1>2. TypeOK /\ EndIsUnderWay /\ [Next]_vars => EndIsUnderWay'
  BY StoppingNext
<1> QED BY <1>1, <1>2, TypeInit, TypeNext, NobodyDiesUnwatched, PTL DEF Spec
=============================================================================
