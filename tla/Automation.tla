----------------------------- MODULE Automation -----------------------------
(***************************************************************************)
(* One automation: a saved task whose trigger, manual or by the scheduler's *)
(* tick, prepares an ordinary Run that the user starts.  The tick, and each *)
(* handler, runs without awaiting anything, so each is one step; the one    *)
(* thing that can come between is the death of the process, because a Run   *)
(* and its automation are saved in different files.                         *)
(*                                                                          *)
(* Automations share nothing but the scheduler, which looks at each in      *)
(* turn, so one is enough.  Left out: the task template, time zones and     *)
(* the calendar (a day is Day units long), a failing template, weekly       *)
(* triggers (daily ones with another period), a next_run_at given by the    *)
(* client, and of a run all but whether it waits to be started, is going on *)
(* or is over; the states disabled and archived behave as paused does.      *)
(***************************************************************************)
EXTENDS Naturals, FiniteSets

CONSTANTS
    Runs,      \* run ids
    Policy,    \* concurrency_policy
    Period,    \* interval_seconds
    Day,       \* a daily trigger fires at the multiples of Day
    MaxTime    \* bound on the clock

Policies == {"skip_if_running", "queue_next", "allow_parallel"}

ASSUME PolicyAssumption == Policy \in Policies
ASSUME TimesAssumption  == /\ Period \in Nat \ {0} /\ Day \in Nat \ {0}
                           /\ MaxTime \in Nat \ {0}

VARIABLES
    now,       \* the clock
    state,     \* state of the automation, "absent" before and "deleted" after
    kind,      \* trigger.kind
    runAt,     \* trigger.run_at, or Never if no time can be read from it; of a
               \* daily trigger, only whether time_of_day holds a time counts
    last,      \* last_run_id is set
    next,      \* next_run_at
    run        \* the runs of the automation

autoVars == <<state, kind, runAt, last, next>>
vars     == <<now, autoVars, run>>

States == {"draft", "active", "paused"}
Kinds  == {"manual", "once", "interval", "daily"}
Never  == 0      \* no time, the empty next_run_at
Times  == {Never} \cup 1..MaxTime

\* A run is prepared (status created), going (running, waiting_confirmation,
\* paused) or over.
NoRun == [phase |-> "absent", by |-> "user", kind |-> "manual",
          due |-> Never, recorded |-> FALSE]

-----------------------------------------------------------------------------
(* Times. *)

\* Variant for mutation: a one-time trigger does not look at earlier runs.
NextRunAtAgain(st, k, at, ran) ==
    IF st \notin {"active", "draft"} THEN Never
    ELSE CASE k = "manual"   -> Never
           [] k = "once"     -> IF at <= now THEN Never ELSE at
           [] k = "interval" -> now + Period
           [] k = "daily"    -> IF at = Never THEN Never ELSE Day * (now \div Day + 1)

\* automation_next_run_at: strictly after now, or none.  Nothing checks a trigger
\* when it is saved: a daily one without a time of day has no next time either.
NextRunAt(st, k, at, ran) ==
    IF st \notin {"active", "draft"} THEN Never
    ELSE CASE k = "manual"   -> Never
           [] k = "once"     -> IF ran \/ at <= now THEN Never ELSE at
           [] k = "interval" -> now + Period
           [] k = "daily"    -> IF at = Never THEN Never ELSE Day * (now \div Day + 1)

\* _with_current_next_run: a time that is there is kept.
CurrentNextRun(st, k, at, ran, scheduled) ==
    IF k # "manual" /\ scheduled # Never THEN scheduled
                                         ELSE NextRunAt(st, k, at, ran)

Due == state = "active" /\ kind # "manual" /\ next # Never /\ next <= now

-----------------------------------------------------------------------------
(* Runs. *)

\* Variant for mutation: a run nobody has started yet is not counted.
ActiveRunsStarted == {r \in Runs : run[r].phase = "going"}

\* active_runs_for_automation.
ActiveRuns == {r \in Runs : run[r].phase \in {"prepared", "going"}}

MayTrigger ==
    state = "active" /\ (Policy = "allow_parallel" \/ ActiveRuns = {})

Prepared(r, who, time, saved) ==
    /\ run[r] = NoRun
    /\ run' = [run EXCEPT ![r] = [phase |-> "prepared", by |-> who, kind |-> kind,
                                  due |-> time, recorded |-> saved]]

\* Variant for mutation: the next time is not computed again.
PrepareKeepingTime(r, who, time) ==
    /\ MayTrigger
    /\ Prepared(r, who, time, TRUE)
    /\ last' = TRUE
    /\ UNCHANGED <<now, state, kind, runAt, next>>

\* prepare_automation_run: task and run are created, then the automation is saved.
Prepare(r, who, time) ==
    /\ MayTrigger
    /\ Prepared(r, who, time, TRUE)
    /\ last' = TRUE
    /\ next' = NextRunAt(state, kind, runAt, TRUE)
    /\ UNCHANGED <<now, state, kind, runAt>>

\* Its life, as far as the automation can tell: module RunLifecycle.
RunMoves(r) ==
    /\ \E step \in {<<"prepared", "going">>, <<"prepared", "over">>, <<"going", "over">>} :
          /\ run[r].phase = step[1]
          /\ run' = [run EXCEPT ![r].phase = step[2]]
    /\ UNCHANGED <<now, autoVars>>

\* RunStore._recover_interrupted stops what was going on.
Recovered(rec) == [rec EXCEPT !.phase = IF @ = "going" THEN "over" ELSE @]

\* A replay belongs to the task of its source, and so to the automation.
Replay(source, r) ==
    /\ run[source] # NoRun /\ run[r] = NoRun
    /\ run' = [run EXCEPT ![r] = [NoRun EXCEPT !.phase = "prepared"]]
    /\ UNCHANGED <<now, autoVars>>

-----------------------------------------------------------------------------
(* The scheduler. *)

\* Variant for mutation: only a one-time trigger is given a time.
EnsureNextRunOnce ==
    /\ state = "active" /\ kind = "once" /\ next = Never
    /\ next' = NextRunAt(state, kind, runAt, last)
    /\ UNCHANGED <<now, state, kind, runAt, last, run>>

\* The tick meets an active automation without a time.
EnsureNextRun ==
    /\ state = "active" /\ kind # "manual" /\ next = Never
    /\ next' = NextRunAt(state, kind, runAt, last)
    /\ UNCHANGED <<now, state, kind, runAt, last, run>>

\* It is due and busy: the time is given up, except under queue_next.
Skip ==
    /\ Due /\ ActiveRuns # {} /\ Policy = "skip_if_running"
    /\ next' = NextRunAt(state, kind, runAt, last)
    /\ UNCHANGED <<now, state, kind, runAt, last, run>>

Fire(r) == Due /\ Prepare(r, "scheduler", next)

\* The process dies after the run has been saved and before the automation is,
\* and starts again.
FireCutShort(r) ==
    /\ Due /\ MayTrigger /\ run[r] = NoRun
    /\ run' = [o \in Runs |->
                 IF o = r THEN [phase |-> "prepared", by |-> "scheduler", kind |-> kind,
                                due |-> next, recorded |-> FALSE]
                 ELSE Recovered(run[o])]
    /\ UNCHANGED <<now, autoVars>>

Tick == EnsureNextRun \/ Skip \/ \E r \in Runs : Fire(r)

-----------------------------------------------------------------------------
(* The user, the clock and the machine. *)

Create(st, k, at) ==
    /\ state = "absent"
    /\ state' = st /\ kind' = k /\ runAt' = at
    /\ next' = NextRunAt(st, k, at, FALSE)
    /\ UNCHANGED <<now, last, run>>

\* update with a new trigger forgets the time, without one keeps it.
EditTrigger(st, k, at) ==
    /\ state \in States
    /\ state' = st /\ kind' = k /\ runAt' = at
    /\ next' = CurrentNextRun(st, k, at, last, Never)
    /\ UNCHANGED <<now, last, run>>

EditState(st) ==
    /\ state \in States
    /\ state' = st
    /\ next' = CurrentNextRun(st, kind, runAt, last, next)
    /\ UNCHANGED <<now, kind, runAt, last, run>>

\* pause and resume leave the time as it is.
SetState(st) ==
    /\ state \in States /\ st \in {"active", "paused"}
    /\ state' = st
    /\ UNCHANGED <<now, kind, runAt, last, next, run>>

TriggerByHand(r) == Prepare(r, "user", Never)

Delete ==
    /\ state \in States
    /\ state' = "deleted"
    /\ UNCHANGED <<now, kind, runAt, last, next, run>>

Restart ==
    /\ run' = [r \in Runs |-> Recovered(run[r])]
    /\ UNCHANGED <<now, autoVars>>

Advance ==
    /\ now < MaxTime /\ now' = now + 1
    /\ UNCHANGED <<autoVars, run>>

-----------------------------------------------------------------------------
Init ==
    /\ now = 1 /\ state = "absent" /\ kind = "manual" /\ runAt = 1
    /\ last = FALSE /\ next = Never
    /\ run = [r \in Runs |-> NoRun]

Next ==
    \/ Tick \/ Delete \/ Restart \/ Advance
    \/ \E r \in Runs : RunMoves(r) \/ TriggerByHand(r) \/ FireCutShort(r)
    \/ \E source, r \in Runs : Replay(source, r)
    \/ \E st \in States : EditState(st) \/ SetState(st)
    \/ \E st \in States, k \in Kinds, at \in Times : Create(st, k, at) \/ EditTrigger(st, k, at)

Spec == Init /\ [][Next]_vars

\* The scheduler's loop survives every exception and ticks for ever.
FairSpec == Spec /\ WF_vars(Tick)

-----------------------------------------------------------------------------
(* Properties. *)

Own(r)       == run[r].due # Never \/ run[r].recorded
Scheduled(r) == run[r].by = "scheduler"

\* Unless the policy allows it, the automation never has two runs of its own
\* that are prepared, at work or waiting; replays count as activity, but the
\* user may ask for any number of them.
RunsDoNotOverlap ==
    Policy # "allow_parallel" =>
        \A r, o \in ActiveRuns : Own(r) /\ Own(o) => r = o

\* No time fires twice, whatever is edited, paused and resumed in between,
\* provided the run it fired was recorded.
EachTimeFiresOnce ==
    \A r, o \in Runs :
        Scheduled(r) /\ Scheduled(o) /\ run[r].recorded /\ run[o].recorded
        /\ run[r].due = run[o].due => r = o

OnceRuns == {r \in Runs : Scheduled(r) /\ run[r].kind = "once"}

\* A one-time trigger prepares at most one recorded run, even if it is edited.
RecordedOnce == Cardinality({r \in OnceRuns : run[r].recorded}) <= 1

Repeating == kind = "interval" \/ (kind = "daily" /\ runAt # Never)

\* An active automation that repeats always gets a next time, also after it was
\* created or edited while paused or draft.  The exception is a daily trigger
\* without a readable time of day: the store takes it, and no tick gives it a time.
RepeatingIsScheduled ==
    state = "active" /\ Repeating ~> (next # Never \/ state # "active" \/ ~Repeating)
=============================================================================
