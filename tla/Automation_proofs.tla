-------------------------- MODULE Automation_proofs --------------------------
(***************************************************************************)
(* Proofs about Automation, for every set of runs, policy and period.      *)
(*                                                                         *)
(* RunsDoNotOverlap is inductive together with the types.  That no time    *)
(* fires twice is not: it needs TimesPass, which says that a recorded run  *)
(* was fired for a time in the past, and that the next time lies beyond    *)
(* all of those.  RecordedOnce needs OnceInv, about one-time triggers.     *)
(***************************************************************************)
EXTENDS Automation, Integers, FiniteSetTheorems, TLAPS

RunRecords == [phase : {"absent", "prepared", "going", "over"},
               by : {"user", "scheduler"}, kind : Kinds, due : Nat,
               recorded : BOOLEAN]

Typed ==
    /\ now \in Nat /\ next \in Nat /\ runAt \in Nat
    /\ kind \in Kinds
    /\ run \in [Runs -> RunRecords]

Fired(r) == Scheduled(r) /\ run[r].recorded

TimesPass ==
    \A r \in Runs : Fired(r) =>
        run[r].due <= now /\ (next = Never \/ run[r].due < next)

-----------------------------------------------------------------------------
(* Times. *)

\* A daily trigger fires strictly after now.
LEMMA NextDay == ASSUME NEW d \in Nat \ {0}, NEW t \in Nat
                 PROVE  d * (t \div d + 1) \in Nat /\ d * (t \div d + 1) > t
<1>1. t \div d \in Nat /\ t % d \in 0..(d-1) /\ t = d * (t \div d) + (t % d)
  BY Z3
<1>2. d * (t \div d + 1) = d * (t \div d) + d
  BY <1>1, Z3
<1> QED BY <1>1, <1>2, Z3

LEMMA NextRunAtType ==
    ASSUME Typed, NEW st, NEW k \in Kinds, NEW at \in Nat, NEW ran
    PROVE  /\ NextRunAt(st, k, at, ran) \in Nat
           /\ NextRunAt(st, k, at, ran) = Never \/ NextRunAt(st, k, at, ran) > now
<1> DEFINE t == NextRunAt(st, k, at, ran)
<1>1. CASE st \notin {"active", "draft"}
  BY <1>1 DEF NextRunAt, Never
<1>2. CASE st \in {"active", "draft"} /\ k = "manual"
  <2>1. t = Never
    BY <1>2, Zenon DEF NextRunAt
  <2> QED BY <2>1 DEF Never
<1>3. CASE st \in {"active", "draft"} /\ k = "once"
  <2>1. t = IF ran \/ at <= now THEN Never ELSE at
    BY <1>3, Zenon DEF NextRunAt
  <2> QED BY <2>1 DEF Never, Typed
<1>4. CASE st \in {"active", "draft"} /\ k = "interval"
  <2>1. t = now + Period
    BY <1>4, Zenon DEF NextRunAt
  <2> QED BY <2>1, TimesAssumption DEF Typed
<1>5. CASE st \in {"active", "draft"} /\ k = "daily"
  <2>1. t = IF at = Never THEN Never ELSE Day * (now \div Day + 1)
    BY <1>5, Zenon DEF NextRunAt
  <2>2. Day * (now \div Day + 1) \in Nat /\ Day * (now \div Day + 1) > now
    BY NextDay, TimesAssumption DEF Typed
  <2> QED BY <2>1, <2>2 DEF Never
<1> QED BY <1>1, <1>2, <1>3, <1>4, <1>5 DEF Kinds

-----------------------------------------------------------------------------
(* Types. *)

\* The record of a run that has just been prepared.
New(who, time, saved) ==
    [phase |-> "prepared", by |-> who, kind |-> kind, due |-> time, recorded |-> saved]

LEMMA PrepareEffect ==
    ASSUME Typed, NEW r \in Runs, NEW who \in {"user", "scheduler"}, NEW time \in Nat,
           Prepare(r, who, time)
    PROVE  /\ Typed' /\ MayTrigger /\ run[r] = NoRun
           /\ run' = [run EXCEPT ![r] = New(who, time, TRUE)]
           /\ next' = Never \/ next' > now
           /\ now' = now
<1>1. New(who, time, TRUE) \in RunRecords
  BY DEF New, RunRecords, Typed
<1>2. run' = [run EXCEPT ![r] = New(who, time, TRUE)]
  BY DEF Prepare, Prepared, New
<1>3. next' \in Nat /\ (next' = Never \/ next' > now)
  BY NextRunAtType DEF Prepare, Typed
<1> QED BY <1>1, <1>2, <1>3 DEF Prepare, Prepared, Typed

LEMMA CutEffect ==
    ASSUME Typed, NEW r \in Runs, FireCutShort(r)
    PROVE  /\ Typed' /\ MayTrigger
           /\ run' = [o \in Runs |-> IF o = r THEN New("scheduler", next, FALSE)
                                               ELSE Recovered(run[o])]
           /\ next' = next /\ now' = now
<1>1. New("scheduler", next, FALSE) \in RunRecords
  BY DEF New, RunRecords, Typed
<1>2. \A o \in Runs : Recovered(run[o]) \in RunRecords
  BY DEF Recovered, RunRecords, Typed
<1>3. run' = [o \in Runs |-> IF o = r THEN New("scheduler", next, FALSE)
                                       ELSE Recovered(run[o])]
  BY DEF FireCutShort, New
<1> QED BY <1>1, <1>2, <1>3 DEF FireCutShort, Typed, autoVars

\* The other steps keep the clock or move it on, and choose as next time one that
\* was there, none, or one in the future.
Quiet ==
    /\ Typed' /\ now' >= now
    /\ next' = next \/ next' = Never \/ next' > now

LEMMA SchedulerQuiet ==
    ASSUME Typed, EnsureNextRun \/ Skip
    PROVE  Quiet /\ run' = run
BY NextRunAtType DEF EnsureNextRun, Skip, Quiet, Typed

LEMMA UserQuiet ==
    ASSUME Typed, Delete \/ Advance \/ (\E st \in States : EditState(st) \/ SetState(st))
                  \/ (\E st \in States, k \in Kinds, at \in Times :
                        Create(st, k, at) \/ EditTrigger(st, k, at))
    PROVE  Quiet /\ run' = run
<1>1. ASSUME Delete \/ Advance PROVE Quiet /\ run' = run
  BY <1>1 DEF Delete, Advance, Quiet, Typed, autoVars
<1>2. ASSUME NEW st \in States, EditState(st) \/ SetState(st) PROVE Quiet /\ run' = run
  BY <1>2, NextRunAtType DEF EditState, SetState, CurrentNextRun, Quiet, Typed
<1>3. ASSUME NEW st \in States, NEW k \in Kinds, NEW at \in Times,
             Create(st, k, at) \/ EditTrigger(st, k, at)
      PROVE  Quiet /\ run' = run
  <2>1. at \in Nat
    BY TimesAssumption DEF Times, Never
  <2>2. next' = NextRunAt(st, k, at, FALSE) \/ next' = NextRunAt(st, k, at, last)
    BY <1>3 DEF Create, EditTrigger, CurrentNextRun
  <2>3. next' \in Nat /\ (next' = Never \/ next' > now)
    BY <2>1, <2>2, NextRunAtType
  <2>4. now' = now /\ run' = run /\ kind' = k /\ runAt' = at
    BY <1>3 DEF Create, EditTrigger
  <2> QED BY <2>1, <2>3, <2>4 DEF Quiet, Typed
<1> QED BY <1>1, <1>2, <1>3

\* The life of runs touches their phase only, and never makes one active again.
Calmer ==
    \A r \in Runs :
        /\ run'[r].due = run[r].due /\ run'[r].by = run[r].by
        /\ run'[r].recorded = run[r].recorded /\ run'[r].kind = run[r].kind
        /\ run'[r].phase \in {"prepared", "going"} => run[r].phase \in {"prepared", "going"}

LEMMA RestartEffect ==
    ASSUME Typed, Restart
    PROVE  Typed' /\ Calmer /\ now' = now /\ next' = next
<1>1. \A o \in Runs : Recovered(run[o]) \in RunRecords
  BY DEF Recovered, RunRecords, Typed
<1>2. \A o \in Runs : run'[o] = Recovered(run[o])
  BY DEF Restart
<1>3. Calmer
  BY ZenonT(40), <1>2 DEF Calmer, Recovered, Typed, RunRecords
<1> QED BY <1>1, <1>2, <1>3 DEF Restart, Typed, autoVars

LEMMA RunMovesEffect ==
    ASSUME Typed, NEW r \in Runs, RunMoves(r)
    PROVE  Typed' /\ Calmer /\ now' = now /\ next' = next
<1>1. PICK step \in {<<"prepared", "going">>, <<"prepared", "over">>, <<"going", "over">>} :
         run[r].phase = step[1] /\ run' = [run EXCEPT ![r].phase = step[2]]
  BY DEF RunMoves
<1>2. run[r].phase \in {"prepared", "going"} /\ step[2] \in {"going", "over"}
  BY <1>1
<1>3. Typed'
  BY <1>1, <1>2 DEF RunMoves, Typed, autoVars, RunRecords
<1>4. Calmer
  BY <1>1, <1>2 DEF Calmer, Typed, RunRecords
<1> QED BY <1>3, <1>4 DEF RunMoves, autoVars

LEMMA ReplayEffect ==
    ASSUME Typed, NEW r \in Runs, NEW source \in Runs, Replay(source, r)
    PROVE  /\ Typed' /\ run' = [run EXCEPT ![r] = [NoRun EXCEPT !.phase = "prepared"]]
           /\ now' = now /\ next' = next
<1>1. [NoRun EXCEPT !.phase = "prepared"] \in RunRecords
  BY DEF NoRun, RunRecords, Kinds, Never
<1> QED BY <1>1 DEF Replay, Typed, autoVars

\* Every step, told by what it does to the runs.
LEMMA StepKinds ==
    ASSUME Typed, Next
    PROVE  \/ Quiet /\ run' = run
           \/ Typed' /\ Calmer /\ now' = now /\ next' = next
           \/ \E r \in Runs, who \in {"user", "scheduler"}, time \in Nat :
                /\ Prepare(r, who, time)
                /\ who = "scheduler" => time = next /\ Due
           \/ \E r \in Runs : FireCutShort(r)
           \/ \E source, r \in Runs : Replay(source, r)
<1>1. CASE EnsureNextRun \/ Skip
  BY <1>1, SchedulerQuiet
<1>2. CASE \E r \in Runs : Fire(r)
  BY <1>2 DEF Fire, Typed
<1>3. CASE Delete \/ Advance \/ (\E st \in States : EditState(st) \/ SetState(st))
           \/ (\E st \in States, k \in Kinds, at \in Times :
                 Create(st, k, at) \/ EditTrigger(st, k, at))
  BY <1>3, UserQuiet
<1>4. CASE Restart
  BY <1>4, RestartEffect
<1>5. CASE \E r \in Runs : RunMoves(r)
  BY <1>5, RunMovesEffect
<1>6. CASE \E r \in Runs : TriggerByHand(r)
  <2>1. Never \in Nat
    BY DEF Never
  <2> QED BY <1>6, <2>1 DEF TriggerByHand
<1>7. CASE \E r \in Runs : FireCutShort(r)
  BY <1>7
<1>8. CASE \E source, r \in Runs : Replay(source, r)
  BY <1>8
<1> QED BY <1>1, <1>2, <1>3, <1>4, <1>5, <1>6, <1>7, <1>8 DEF Next, Tick

\* The types hold in every reachable state.
LEMMA InitTyped == Init => Typed
BY DEF Init, Typed, RunRecords, NoRun, Kinds, Never

LEMMA NextTyped == Typed /\ [Next]_vars => Typed'
<1> SUFFICES ASSUME Typed, [Next]_vars PROVE Typed'
  OBVIOUS
<1>1. CASE Next
  BY <1>1, StepKinds, PrepareEffect, CutEffect, ReplayEffect DEF Quiet
<1>2. CASE UNCHANGED vars
  BY <1>2 DEF vars, autoVars, Typed
<1> QED BY <1>1, <1>2

-----------------------------------------------------------------------------
(* Runs of the automation do not overlap. *)

\* A second active run of its own would have to appear in a step; the steps that
\* prepare one find none active.
LEMMA RunsDoNotOverlapStep ==
    ASSUME Typed, RunsDoNotOverlap, [Next]_vars
    PROVE  RunsDoNotOverlap'
<1> SUFFICES ASSUME Policy # "allow_parallel",
                    NEW r \in Runs, NEW o \in Runs,
                    r \in ActiveRuns', o \in ActiveRuns', Own(r)', Own(o)'
             PROVE  r = o
  BY DEF RunsDoNotOverlap, ActiveRuns
<1>1. CASE UNCHANGED vars
  BY <1>1 DEF vars, ActiveRuns, Own, RunsDoNotOverlap
<1>2. CASE Quiet /\ run' = run
  BY <1>2 DEF ActiveRuns, Own, RunsDoNotOverlap
<1>3. CASE Calmer
  <2>2. \A x \in Runs : Own(x)' => Own(x)
    BY <1>3 DEF Calmer, Own
  <2>3. \A x \in Runs : x \in ActiveRuns' => x \in ActiveRuns
    BY <1>3 DEF Calmer, ActiveRuns
  <2> QED BY <2>2, <2>3 DEF RunsDoNotOverlap
<1>4. ASSUME NEW p \in Runs, NEW who \in {"user", "scheduler"}, NEW time \in Nat,
             Prepare(p, who, time)
      PROVE  r = o
  <2>1. ActiveRuns = {} /\ run' = [run EXCEPT ![p] = New(who, time, TRUE)]
    BY ZenonT(40), <1>4, PrepareEffect DEF MayTrigger
  <2>2. \A x \in Runs : x \in ActiveRuns' => x = p
    BY <2>1 DEF ActiveRuns, Typed
  <2> QED BY <2>2
<1>5. ASSUME NEW p \in Runs, FireCutShort(p) PROVE r = o
  <2>1. /\ ActiveRuns = {}
        /\ run' = [x \in Runs |-> IF x = p THEN New("scheduler", next, FALSE)
                                           ELSE Recovered(run[x])]
    BY <1>5, CutEffect DEF MayTrigger
  <2>2. \A x \in Runs \ {p} : run'[x].phase = Recovered(run[x]).phase
    BY <2>1
  <2>3. \A x \in Runs \ {p} : run'[x].phase \in {"prepared", "going"} => x \in ActiveRuns
    BY <2>2 DEF ActiveRuns, Recovered, Typed, RunRecords
  <2>4. \A x \in Runs : x \in ActiveRuns' => x = p
    BY <2>1, <2>3 DEF ActiveRuns
  <2> QED BY <2>4
<1>6. ASSUME NEW source \in Runs, NEW p \in Runs, Replay(source, p) PROVE r = o
  <2>1. run' = [run EXCEPT ![p] = [NoRun EXCEPT !.phase = "prepared"]]
    BY <1>6, ReplayEffect
  <2>2. ~Own(p)'
    BY <2>1 DEF Own, NoRun, Typed
  <2>3. \A x \in Runs \ {p} : run'[x] = run[x]
    BY <2>1 DEF Typed
  <2>4. run'[r] = run[r] /\ run'[o] = run[o]
    BY <2>2, <2>3
  <2>5. r \in ActiveRuns /\ o \in ActiveRuns /\ Own(r) /\ Own(o)
    BY <2>4 DEF ActiveRuns, Own
  <2> QED BY <2>5 DEF RunsDoNotOverlap
<1> QED BY <1>1, <1>2, <1>3, <1>4, <1>5, <1>6, StepKinds

\* Unless its policy allows parallel runs, an automation never has two active
\* runs of its own, whoever triggers it and wherever the process dies
\* (active_runs_for_automation and can_trigger_automation).
THEOREM NoOverlap == Spec => []RunsDoNotOverlap
<1>1. Init => RunsDoNotOverlap
  BY DEF Init, RunsDoNotOverlap, ActiveRuns, NoRun
<1> QED BY <1>1, InitTyped, NextTyped, RunsDoNotOverlapStep, PTL DEF Spec

-----------------------------------------------------------------------------
(* No time fires twice. *)

LEMMA FiresOnceStep ==
    ASSUME Typed, TimesPass, EachTimeFiresOnce, [Next]_vars
    PROVE  TimesPass' /\ EachTimeFiresOnce'
<1>1. CASE UNCHANGED vars
  BY <1>1 DEF vars, autoVars, TimesPass, EachTimeFiresOnce, Fired, Scheduled
<1>2. CASE Quiet /\ run' = run
  <2>1. TimesPass'
    BY <1>2 DEF Quiet, TimesPass, Fired, Scheduled, Typed, RunRecords, Never
  <2> QED BY <1>2, <2>1 DEF EachTimeFiresOnce, Scheduled
<1>3. CASE Calmer /\ now' = now /\ next' = next
  <2>1. \A r \in Runs : /\ run'[r].due = run[r].due /\ run'[r].by = run[r].by
                         /\ run'[r].recorded = run[r].recorded
    BY <1>3 DEF Calmer
  <2>2. \A r \in Runs : (Fired(r)' => Fired(r)) /\ (Scheduled(r)' => Scheduled(r))
    BY <2>1 DEF Fired, Scheduled
  <2>3. TimesPass'
    BY <1>3, <2>1, <2>2 DEF TimesPass
  <2> QED BY <2>1, <2>2, <2>3 DEF EachTimeFiresOnce
<1>4. ASSUME NEW p \in Runs, NEW who \in {"user", "scheduler"}, NEW time \in Nat,
             Prepare(p, who, time), who = "scheduler" => time = next /\ Due
      PROVE  TimesPass' /\ EachTimeFiresOnce'
  <2>1. /\ run' = [run EXCEPT ![p] = New(who, time, TRUE)]
        /\ next' = Never \/ next' > now
        /\ now' = now /\ Typed'
    BY <1>4, PrepareEffect
  <2>2. \A r \in Runs \ {p} : run'[r] = run[r]
    BY <2>1 DEF Typed
  <2>3. run'[p].by = who /\ run'[p].due = time
    BY <2>1 DEF New, Typed
  <2>4. who = "scheduler" => time <= now /\ time = next /\ next # Never
    BY <1>4 DEF Due
  <2>5. \A r \in Runs \ {p} : Fired(r)' => Fired(r) /\ run'[r].due <= now /\
                                 (who = "scheduler" => run'[r].due < time)
    BY <2>2, <2>4 DEF TimesPass, Fired, Scheduled
  <2>6. TimesPass'
    <3>1. \A r \in Runs : Fired(r)' => run'[r].due <= now
      BY <2>3, <2>4, <2>5 DEF Fired, Scheduled
    <3>2. now \in Nat /\ next' \in Nat /\ \A r \in Runs : run'[r].due \in Nat
      BY <2>1 DEF Typed, RunRecords
    <3>3. \A r \in Runs : Fired(r)' =>
             run'[r].due <= now' /\ (next' = Never \/ run'[r].due < next')
      <4> TAKE r \in Runs
      <4> HAVE Fired(r)'
      <4>1. run'[r].due <= now /\ run'[r].due \in Nat
        BY <3>1, <3>2
      <4>2. now' = now /\ (next' = Never \/ next' > now)
        BY <2>1
      <4> QED BY <4>1, <4>2, <3>2
    <3> QED BY <3>3 DEF TimesPass
  <2>7. EachTimeFiresOnce'
    <3> SUFFICES ASSUME NEW r \in Runs, NEW o \in Runs, Fired(r)', Fired(o)',
                        run'[r].due = run'[o].due
                 PROVE  r = o
      BY DEF EachTimeFiresOnce, Fired
    <3>1. CASE r # p /\ o # p
      BY <3>1, <2>2 DEF EachTimeFiresOnce, Fired, Scheduled
    <3>2. \A x \in Runs \ {p} : Fired(p)' /\ Fired(x)' => run'[x].due # run'[p].due
      <4>1. Fired(p)' => who = "scheduler"
        BY <2>3 DEF Fired, Scheduled
      <4> QED BY <4>1, <2>3, <2>5
    <3> QED BY <3>1, <3>2
  <2> QED BY <2>6, <2>7
<1>5. ASSUME NEW p \in Runs, FireCutShort(p) PROVE TimesPass' /\ EachTimeFiresOnce'
  <2>1. /\ run' = [x \in Runs |-> IF x = p THEN New("scheduler", next, FALSE)
                                           ELSE Recovered(run[x])]
        /\ next' = next /\ now' = now
    BY <1>5, CutEffect
  <2>2. ~Fired(p)'
    BY <2>1 DEF Fired, New
  <2>3. \A r \in Runs \ {p} : /\ run'[r].due = run[r].due /\ run'[r].by = run[r].by
                               /\ run'[r].recorded = run[r].recorded
    BY <2>1 DEF Recovered, Typed, RunRecords
  <2>4. \A r \in Runs : Fired(r)' => r # p /\ Fired(r) /\ run'[r].due = run[r].due
    BY <2>2, <2>3 DEF Fired, Scheduled
  <2> QED BY <2>1, <2>4 DEF TimesPass, EachTimeFiresOnce, Fired
<1>6. ASSUME NEW source \in Runs, NEW p \in Runs, Replay(source, p)
      PROVE  TimesPass' /\ EachTimeFiresOnce'
  <2>1. /\ run' = [run EXCEPT ![p] = [NoRun EXCEPT !.phase = "prepared"]]
        /\ next' = next /\ now' = now
    BY <1>6, ReplayEffect
  <2>2. ~Fired(p)'
    BY <2>1 DEF Fired, Scheduled, NoRun, Typed
  <2>3. \A r \in Runs : Fired(r)' => r # p /\ Fired(r) /\ run'[r] = run[r]
    BY <2>1, <2>2 DEF Fired, Scheduled, Typed
  <2> QED BY <2>1, <2>3 DEF TimesPass, EachTimeFiresOnce, Fired
<1> QED BY <1>1, <1>2, <1>3, <1>4, <1>5, <1>6, StepKinds

\* No scheduled time prepares two recorded runs, for any period and length of
\* day: the next time is always computed past the present
\* (record_prepared_run and automation_next_run_at).
THEOREM FiresOnce == Spec => []EachTimeFiresOnce
<1>1. Init => TimesPass /\ EachTimeFiresOnce
  BY DEF Init, TimesPass, EachTimeFiresOnce, Fired, Scheduled, NoRun
<1> QED BY <1>1, InitTyped, NextTyped, FiresOnceStep, PTL DEF Spec

-----------------------------------------------------------------------------
(* A one-time trigger fires once. *)

OnceDone(r) == Fired(r) /\ run[r].kind = "once"

\* RecordedOnce is not inductive: what keeps a one-time trigger from firing again,
\* edited or not, is that an automation which has recorded a run remembers it and
\* then has no next time.
OnceInv ==
    /\ last \in BOOLEAN
    /\ state = "absent" => ~last
    /\ last /\ kind = "once" => next = Never
    /\ \A r \in Runs : OnceDone(r) => last
    /\ \A r, o \in Runs : OnceDone(r) /\ OnceDone(o) => r = o

\* There is no next time for a one-time trigger that has run.
LEMMA NoSecondTime ==
    ASSUME NEW st, NEW at
    PROVE  /\ NextRunAt(st, "once", at, TRUE) = Never
           /\ CurrentNextRun(st, "once", at, TRUE, Never) = Never
<1>1. CASE st \notin {"active", "draft"}
  BY <1>1 DEF NextRunAt, CurrentNextRun
<1>2. CASE st \in {"active", "draft"}
  <2>1. NextRunAt(st, "once", at, TRUE) = IF TRUE \/ at <= now THEN Never ELSE at
    BY <1>2, Zenon DEF NextRunAt
  <2> QED BY <2>1 DEF CurrentNextRun
<1> QED BY <1>1, <1>2

\* The steps that leave the runs alone.
LEMMA QuietOnce ==
    ASSUME Typed, OnceInv,
           \/ EnsureNextRun \/ Skip \/ Delete \/ Advance
           \/ \E st \in States : EditState(st) \/ SetState(st)
           \/ \E st \in States, k \in Kinds, at \in Times : Create(st, k, at) \/ EditTrigger(st, k, at)
    PROVE  OnceInv'
<1>1. run' = run /\ last' = last
  BY DEF EnsureNextRun, Skip, Delete, Advance, EditState, SetState, Create, EditTrigger, autoVars
<1>2. state' = "absent" => state = "absent"
  BY DEF EnsureNextRun, Skip, Delete, Advance, EditState, SetState, Create, EditTrigger, autoVars, States
<1>3. ASSUME last, kind' = "once"
      PROVE  next' = Never
  <2>1. last = TRUE
    BY <1>3 DEF OnceInv
  <2>2. CASE EnsureNextRun \/ Skip
    BY <1>3, <2>1, <2>2, NoSecondTime DEF EnsureNextRun, Skip
  <2>3. ASSUME NEW st \in States, EditState(st)
        PROVE  next' = Never
    BY <1>3, <2>1, <2>3, NoSecondTime DEF EditState, OnceInv
  <2>4. ASSUME NEW st \in States, NEW k \in Kinds, NEW at \in Times, EditTrigger(st, k, at)
        PROVE  next' = Never
    BY <1>3, <2>1, <2>4, NoSecondTime DEF EditTrigger
  <2>5. CASE Delete \/ Advance \/ \E st \in States : SetState(st)
    BY <1>3, <2>5 DEF Delete, Advance, SetState, OnceInv, autoVars
  <2>6. ASSUME NEW st \in States, NEW k \in Kinds, NEW at \in Times, Create(st, k, at)
        PROVE  FALSE
    BY <1>3, <2>6 DEF Create, OnceInv
  <2> QED BY <2>2, <2>3, <2>4, <2>5, <2>6
<1> QED BY <1>1, <1>2, <1>3 DEF OnceInv, OnceDone, Fired, Scheduled

\* The steps that let runs proceed.
LEMMA CalmerOnce ==
    ASSUME OnceInv, Calmer, UNCHANGED autoVars
    PROVE  OnceInv'
<1>1. \A r \in Runs : OnceDone(r)' => OnceDone(r)
  BY DEF Calmer, OnceDone, Fired, Scheduled
<1> QED BY <1>1 DEF OnceInv, autoVars

LEMMA PrepareOnce ==
    ASSUME Typed, OnceInv, NEW p \in Runs, NEW who \in {"user", "scheduler"}, NEW time \in Nat,
           Prepare(p, who, time), who = "scheduler" => time = next /\ Due
    PROVE  OnceInv'
<1>1. /\ run' = [run EXCEPT ![p] = New(who, time, TRUE)]
      /\ last' = TRUE /\ next' = NextRunAt(state, kind, runAt, TRUE)
      /\ kind' = kind /\ state' = state /\ state = "active"
  BY PrepareEffect DEF Prepare, MayTrigger
<1>2. kind = "once" => next' = Never
  BY <1>1, NoSecondTime
<1>3. /\ \A r \in Runs \ {p} : run'[r] = run[r]
      /\ run'[p].by = who /\ run'[p].kind = kind
  BY <1>1 DEF New, Typed
<1>4. \A r \in Runs \ {p} : OnceDone(r)' => OnceDone(r)
  BY <1>3 DEF OnceDone, Fired, Scheduled
<1>5. OnceDone(p)' => ~last
  BY <1>3 DEF OnceDone, Fired, Scheduled, Due, OnceInv
<1>6. \A r, o \in Runs : OnceDone(r)' /\ OnceDone(o)' => r = o
  BY <1>4, <1>5 DEF OnceInv
<1> QED BY <1>1, <1>2, <1>6 DEF OnceInv

LEMMA NextOnce ==
    ASSUME Typed, OnceInv, [Next]_vars
    PROVE  OnceInv'
<1>1. CASE UNCHANGED vars
  BY <1>1 DEF vars, autoVars, OnceInv, OnceDone, Fired, Scheduled
<1>2. CASE EnsureNextRun \/ Skip \/ Delete \/ Advance
           \/ (\E st \in States : EditState(st) \/ SetState(st))
           \/ (\E st \in States, k \in Kinds, at \in Times :
                 Create(st, k, at) \/ EditTrigger(st, k, at))
  BY <1>2, QuietOnce
<1>3. ASSUME NEW p \in Runs, Fire(p) \/ TriggerByHand(p)
      PROVE  OnceInv'
  BY <1>3, PrepareOnce DEF Fire, TriggerByHand, Typed, Never
<1>4. CASE Restart
  BY <1>4, RestartEffect, CalmerOnce DEF Restart
<1>5. ASSUME NEW r \in Runs, RunMoves(r)
      PROVE  OnceInv'
  BY <1>5, RunMovesEffect, CalmerOnce DEF RunMoves
<1>6. ASSUME NEW p \in Runs, FireCutShort(p)
      PROVE  OnceInv'
  <2>1. /\ run' = [x \in Runs |-> IF x = p THEN New("scheduler", next, FALSE)
                                           ELSE Recovered(run[x])]
        /\ UNCHANGED autoVars
    BY <1>6, CutEffect DEF FireCutShort
  <2>2. ~OnceDone(p)'
    BY <2>1 DEF OnceDone, Fired, New
  <2>3. \A r \in Runs \ {p} : /\ run'[r].kind = run[r].kind /\ run'[r].by = run[r].by
                               /\ run'[r].recorded = run[r].recorded
    BY <2>1 DEF Recovered, Typed, RunRecords
  <2>4. \A r \in Runs : OnceDone(r)' => OnceDone(r)
    BY <2>2, <2>3 DEF OnceDone, Fired, Scheduled
  <2> QED BY <2>1, <2>4 DEF OnceInv, autoVars
<1>7. ASSUME NEW source \in Runs, NEW p \in Runs, Replay(source, p)
      PROVE  OnceInv'
  <2>1. run' = [run EXCEPT ![p] = [NoRun EXCEPT !.phase = "prepared"]] /\ UNCHANGED autoVars
    BY <1>7, ReplayEffect DEF Replay
  <2>2. ~OnceDone(p)'
    BY <2>1 DEF OnceDone, Fired, Scheduled, NoRun, Typed
  <2>3. \A r \in Runs : OnceDone(r)' => OnceDone(r)
    BY <2>1, <2>2 DEF OnceDone, Fired, Scheduled, Typed
  <2> QED BY <2>1, <2>3 DEF OnceInv, autoVars
<1> QED BY <1>1, <1>2, <1>3, <1>4, <1>5, <1>6, <1>7 DEF Next, Tick

\* A one-time trigger prepares at most one recorded run, whatever is edited, paused,
\* resumed or triggered by hand around it (automation_next_run_at looks at last_run_id).
THEOREM OnceFiresOnce == Spec => []RecordedOnce
<1>1. Init => OnceInv
  <2> SUFFICES ASSUME Init PROVE OnceInv
    OBVIOUS
  <2>1. \A r \in Runs : ~OnceDone(r)
    BY DEF Init, OnceDone, Fired, Scheduled, NoRun
  <2>2. last = FALSE
    BY DEF Init
  <2> QED BY <2>1, <2>2 DEF OnceInv
<1>2. OnceInv => RecordedOnce
  <2> SUFFICES ASSUME OnceInv PROVE RecordedOnce
    OBVIOUS
  <2> DEFINE S == {r \in OnceRuns : run[r].recorded}
  <2>1. \A r, o \in S : r = o
    BY DEF OnceInv, OnceRuns, OnceDone, Fired
  <2> HIDE DEF S
  <2>2. S = {} \/ \E r : S = {r}
    BY <2>1
  <2>3. Cardinality(S) = 0 \/ Cardinality(S) = 1
    BY <2>2, FS_EmptySet, FS_Singleton
  <2> QED BY <2>3 DEF RecordedOnce, S
<1> QED BY <1>1, <1>2, InitTyped, NextTyped, NextOnce, PTL DEF Spec

-----------------------------------------------------------------------------
(* The scheduler fires when a time has come, and never catches up with more  *)
(* than one run.                                                             *)

\* What the scheduler prepares: its time has come, nothing stands in the way, and
\* once the automation is saved the next time lies in the future.
FiredWhenDue(r) ==
    /\ Due /\ run'[r].due = next
    /\ Policy = "allow_parallel" \/ ActiveRuns = {}
    /\ Fired(r)' => next' = Never \/ next' > now

LEMMA FiresStep ==
    ASSUME Typed, [Next]_vars, NEW r \in Runs, run[r] = NoRun, Scheduled(r)'
    PROVE  FiredWhenDue(r)
<1>1. ~Scheduled(r)
  BY DEF Scheduled, NoRun
<1>2. ASSUME run' = run PROVE FALSE
  BY <1>1, <1>2 DEF Scheduled
<1>3. ASSUME Calmer PROVE FALSE
  BY <1>1, <1>3 DEF Scheduled, Calmer
<1>4. ASSUME NEW o \in Runs, NEW who \in {"user", "scheduler"}, NEW time \in Nat,
             Prepare(o, who, time), who = "scheduler" => time = next /\ Due
      PROVE  FiredWhenDue(r)
  <2>1. /\ MayTrigger /\ run' = [run EXCEPT ![o] = New(who, time, TRUE)]
        /\ next' = Never \/ next' > now
    BY <1>4, PrepareEffect
  <2>2. o = r
    BY <1>1, <2>1 DEF Scheduled, Typed
  <2>3. who = "scheduler" /\ run'[r].due = time
    BY <2>1, <2>2 DEF Scheduled, New, Typed
  <2> QED BY <1>4, <2>1, <2>3 DEF FiredWhenDue, MayTrigger
<1>5. ASSUME NEW o \in Runs, FireCutShort(o)
      PROVE  FiredWhenDue(r)
  <2>1. /\ MayTrigger
        /\ run'[r] = IF r = o THEN New("scheduler", next, FALSE) ELSE Recovered(run[r])
    BY <1>5, CutEffect
  <2>2. r = o
    <3>1. Recovered(run[r]).by = run[r].by
      BY DEF Recovered, NoRun
    <3> QED BY <1>1, <2>1, <3>1 DEF Scheduled
  <2>3. run'[r].due = next /\ ~run'[r].recorded
    BY <2>1, <2>2 DEF New
  <2> QED BY <1>5, <2>1, <2>3 DEF FireCutShort, FiredWhenDue, MayTrigger, Fired
<1>6. ASSUME NEW source \in Runs, NEW o \in Runs, Replay(source, o)
      PROVE  FALSE
  <2>1. run' = [run EXCEPT ![o] = [NoRun EXCEPT !.phase = "prepared"]]
    BY <1>6, ReplayEffect
  <2>2. run'[r].by = "user"
    BY <2>1 DEF NoRun, Typed
  <2> QED BY <2>2 DEF Scheduled
<1>7. CASE UNCHANGED vars
  BY <1>2, <1>7 DEF vars
<1>8. CASE Next
  BY <1>2, <1>3, <1>4, <1>5, <1>6, <1>8, StepKinds
<1> QED BY <1>7, <1>8

\* However long the process was down, and however often the automation is edited,
\* paused or triggered by hand meanwhile: a run of the scheduler is prepared for the
\* one time that was kept, that time has come, and what follows it is later than now
\* (next_run_at is computed from the clock, not from the time that was missed).
THEOREM MissedTimesFireOnce ==
    Spec => [][\A r \in Runs : run[r] = NoRun /\ Scheduled(r)' => FiredWhenDue(r)]_vars
<1>1. Typed /\ [Next]_vars =>
        [\A r \in Runs : run[r] = NoRun /\ Scheduled(r)' => FiredWhenDue(r)]_vars
  BY FiresStep
<1> QED BY <1>1, InitTyped, NextTyped, PTL DEF Spec
=============================================================================
