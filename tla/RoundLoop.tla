----------------------------- MODULE RoundLoop -----------------------------
(***************************************************************************)
(* The rounds of one run, from the first model round to the end: what the   *)
(* model is shown, what it may answer, the tools it calls, the guidance     *)
(* users give meanwhile, the plan, and the budget of rounds.  RunLifecycle  *)
(* has the same loop seen from outside, where a round is one choice.        *)
(*                                                                          *)
(* A step is one stretch between two awaits at which something else may     *)
(* happen: here only guidance arrives.  Pauses and stops are RunLifecycle's.*)
(* Left out: what the model is sent before the first round, the text of     *)
(* messages, reasoning (streamed and discarded like text), images, usage    *)
(* and prompts of the finalization, the completion review (nothing begins   *)
(* it), and the wording of notices.  A message with several items of        *)
(* guidance is several entries.                                             *)
(***************************************************************************)
EXTENDS Naturals, Sequences, FiniteSets

CONSTANTS
    MaxRounds,     \* rounds of the run's budget at first
    Multiplier,    \* how many times that is the hard limit
    Increment,     \* rounds that an extension adds
    QueueLimit,    \* guidance kept while nobody reads it
    ReadsToSum,    \* files read before the model is reminded of them
    Plan,          \* the tools that the steps of the plan are about
    Paths,         \* what a call is about
    MaxCalls,      \* bound on the calls of the run
    MaxGuidance    \* bound on the guidance given

ASSUME BudgetAssumption ==
    /\ MaxRounds \in Nat \ {0} /\ Multiplier \in Nat \ {0} /\ Increment \in Nat \ {0}
ASSUME QueueAssumption == QueueLimit \in Nat \ {0} /\ MaxGuidance \in Nat
ASSUME CallsAssumption == ReadsToSum \in Nat /\ MaxCalls \in Nat
Tools == {"read", "write"}
ASSUME PlanAssumption == Plan \in Seq(Tools)

HardLimit == MaxRounds * Multiplier
Calls     == [tool : Tools, path : Paths]
Statuses  == {"success", "partial", "failure", "cancelled"}
Events    == [call : Calls, status : Statuses]
Kinds     == {"calls", "tool", "notice", "guidance", "contract", "orientation", "pack"}
Messages  == [kind : Kinds, n : Nat]
Steps     == DOMAIN Plan

VARIABLES
    pc,         \* where the executor is suspended
    round,      \* round_number
    limit,      \* round_limit
    timeouts,   \* consecutive_idle_timeouts
    retries,    \* malformed_tool_call_retries
    strict,     \* the task contract requires a write
    messages,   \* messages
    transient,  \* transient_model_context: the notices in it
    notices,    \* number of notices made
    queue,      \* _pending_guidance of the conversation
    taken,      \* guidance popped and being judged
    guided,     \* number of items of guidance given
    events,     \* tool_events
    batch,      \* the calls of the response that are being executed
    plan,       \* status of each step
    state,      \* tool_execution_state
    answer,     \* content_parts: the rounds whose text is in it
    outcome,    \* how the loop ended
    read,       \* (history) notices that were in a request with a usable response
    broken,     \* (history) rounds that broke off without one
    gained      \* (history) rounds with progress

guidanceVars == <<queue, taken, guided>>
budgetVars   == <<round, limit, gained>>
noticeVars   == <<transient, notices, read>>
toolVars     == <<events, batch, plan, state>>
vars == <<pc, budgetVars, timeouts, retries, strict, messages, noticeVars, guidanceVars,
          toolVars, answer, outcome, broken>>

NoBatch == [calls |-> <<>>, truncated |-> FALSE, done |-> <<>>, advice |-> 0, step |-> 0]

\* The elements of s at the positions in K, in their order: what SelectSeq gives,
\* without a recursion.
Picked(s, K) ==
    [n \in 1..Cardinality(K) |-> s[CHOOSE i \in K : Cardinality({j \in K : j <= i}) = n]]

Of(kind, ms) == Picked(ms, {i \in DOMAIN ms : ms[i].kind = kind})
NoticesIn(ms) == {m.n : m \in {ms[i] : i \in {j \in DOMAIN ms : ms[j].kind = "notice"}}}

-----------------------------------------------------------------------------
(* Facts about tool events. *)

IsProgress(e) == e.status \in {"success", "partial"}

\* _events_since_last_progress, as positions.
Window(es) == {i \in DOMAIN es : \A j \in i..Len(es) : ~IsProgress(es[j])}

\* Failures of the last event's route in the window.
Attempts(es) == {i \in Window(es) : es[i].status = "failure" /\ es[i].call = es[Len(es)].call}

\* build_execution_convergence_decision acts: the last event is a failure, and not
\* the first of its route since there was progress.
Repeated(es) ==
    /\ es # <<>> /\ es[Len(es)].status = "failure"
    /\ 2 <= Cardinality(Attempts(es))

\* round_budget_progress_observed.
ProgressObserved(es) ==
    \E i \in DOMAIN es : IsProgress(es[i]) /\ (strict => es[i].call.tool = "write")

-----------------------------------------------------------------------------
(* The plan. *)

Running == {s \in Steps : plan[s] = "running"}

\* The first pending step that a tool matches, 0 if there is none.
Matching(tool) ==
    LET fits == {s \in Steps : plan[s] = "pending" /\ Plan[s] = tool}
    IN  IF fits = {} THEN 0 ELSE CHOOSE s \in fits : \A t \in fits : s <= t

\* interrupt_execution_plan: the first running step is pending again.
Interrupted ==
    [s \in Steps |-> IF s \in Running /\ \A t \in Running : s <= t THEN "pending" ELSE plan[s]]

\* Variant for mutation: steps that no tool has begun stay pending.
SettledRunning == [s \in Steps |-> IF plan[s] = "running" THEN "skipped" ELSE plan[s]]

\* complete_remaining_plan_steps.
Settled == [s \in Steps |-> IF plan[s] \in {"pending", "running"} THEN "skipped" ELSE plan[s]]

-----------------------------------------------------------------------------
(* Guidance. *)

\* Variant for mutation: a full queue takes nothing more.
First(s, n) == SubSeq(s, 1, IF Len(s) > n THEN n ELSE Len(s))

\* The last n items.
Last(s, n) == SubSeq(s, IF Len(s) > n THEN Len(s) - n + 1 ELSE 1, Len(s))

\* add_user_guidance: a full queue loses its oldest item.
Guide ==
    /\ pc # "over" /\ guided < MaxGuidance
    /\ guided' = guided + 1
    /\ queue' = Last(Append(queue, guided + 1), QueueLimit)
    /\ UNCHANGED <<pc, budgetVars, timeouts, retries, strict, messages, noticeVars, taken,
                   toolVars, answer, outcome, broken>>

Pop == taken' = queue /\ queue' = <<>> /\ UNCHANGED guided

\* What is put before the model once guidance has been judged.
Reoriented ==
    <<[kind |-> "contract", n |-> 0], [kind |-> "orientation", n |-> 0]>>
      \o [i \in DOMAIN taken |-> [kind |-> "guidance", n |-> taken[i]]]

-----------------------------------------------------------------------------
(* Rounds. *)

\* can_start_round.
MayStart == round < limit

\* start_round, and the guidance that has come meanwhile.
StartRound ==
    /\ pc = "head" /\ MayStart
    /\ round' = round + 1
    /\ Pop
    /\ pc' = IF queue = <<>> THEN "model" ELSE "judging"
    /\ UNCHANGED <<limit, gained, timeouts, retries, strict, messages, noticeVars, toolVars,
                   answer, outcome, broken>>

\* Variant for mutation: one round more is waited for.
SpentLate == round > limit

\* The condition of the loop is false.
Spent == ~MayStart

\* The else of the loop.
Exhausted ==
    /\ pc = "head" /\ Spent
    /\ pc' = "finalize" /\ outcome' = "max_rounds"
    /\ UNCHANGED <<budgetVars, timeouts, retries, strict, messages, noticeVars, guidanceVars,
                   toolVars, answer, broken>>

\* Variant for mutation: text that was overtaken is kept.
Kept == answer

\* _discard_parts of the round's text, which is the last.
Discarded == IF answer # <<>> /\ answer[Len(answer)] = round
             THEN SubSeq(answer, 1, Len(answer) - 1) ELSE answer

\* rejudge_guidance_contract returns: the guidance is put before the model, and
\* text that it has overtaken is discarded.
Judged ==
    /\ pc \in {"judging", "late"}
    /\ strict' \in BOOLEAN
    /\ messages' = messages \o Reoriented
    /\ taken' = <<>>
    /\ plan' = Interrupted
    /\ pc' = IF pc = "judging" THEN "model" ELSE "head"
    /\ answer' = IF pc = "late" THEN Discarded ELSE answer
    /\ UNCHANGED <<budgetVars, timeouts, retries, noticeVars, queue, guided, events, batch,
                   state, outcome, broken>>

\* The round streams text, or something else (reasoning, parts of calls), or nothing.
Streams(what) == /\ answer' = IF what = "text" THEN Append(answer, round) ELSE answer
                 /\ timeouts' = IF what = "nothing" THEN timeouts ELSE 0

Streamed == {"text", "other", "nothing"}

\* The loop is left with an error: without tool facts there is nothing to finalize.
GivesUp == /\ pc' = IF events = <<>> THEN "over" ELSE "finalize"
           /\ outcome' = IF events = <<>> THEN "aborted" ELSE "model_error"

\* The model fails, before or during its response.
ModelFails ==
    /\ pc = "model"
    /\ \E what \in Streamed : Streams(what)
    /\ broken' = broken \cup {round}
    /\ GivesUp
    /\ UNCHANGED <<budgetVars, retries, strict, messages, noticeVars, guidanceVars, toolVars>>

\* The stream is silent for too long; the second time in a row ends the run.
IdleTimeout ==
    /\ pc = "model"
    /\ \E what \in Streamed :
          /\ answer' = IF what = "text" THEN Append(answer, round) ELSE answer
          /\ timeouts' = IF what = "nothing" THEN timeouts + 1 ELSE 1
    /\ broken' = broken \cup {round}
    /\ \/ timeouts' < 2 /\ pc' = "head" /\ UNCHANGED outcome
       \/ timeouts' >= 2 /\ pc' = "over" /\ outcome' = "aborted"
    /\ UNCHANGED <<budgetVars, retries, strict, messages, noticeVars, guidanceVars, toolVars>>

\* Variant for mutation: notices become part of the history.
Remembered == messages

\* consume_from: a usable response has come; the notices it was shown are done.
Consumed ==
    Picked(messages, {i \in DOMAIN messages :
                         messages[i].kind # "notice" \/ messages[i].n \notin transient})

Consume == /\ read' = read \cup NoticesIn(messages)
           /\ messages' = Consumed /\ transient' = {} /\ UNCHANGED notices

\* Guidance has come while the model answered: the response is overtaken, cut
\* short or complete.
Overtaken ==
    /\ pc = "model" /\ queue # <<>>
    /\ \E what \in Streamed : Streams(what)
    /\ Consume
    /\ Pop
    /\ pc' = "late"
    /\ UNCHANGED <<budgetVars, retries, strict, toolVars, outcome, broken>>

\* The response has no calls: it is the answer.
Answers ==
    /\ pc = "model" /\ queue = <<>>
    /\ \E what \in Streamed : Streams(what)
    /\ Consume
    /\ pc' = "finalize" /\ outcome' = "answered"
    /\ UNCHANGED <<budgetVars, retries, strict, guidanceVars, toolVars, broken>>

\* The response has a call that cannot be parsed: once, the model is told.
Malformed ==
    /\ pc = "model" /\ queue = <<>> /\ retries < 1
    /\ retries' = retries + 1
    /\ timeouts' = 0
    /\ read' = read \cup NoticesIn(messages)
    /\ notices' = notices + 1
    /\ messages' = Append(Consumed, [kind |-> "notice", n |-> notices + 1])
    /\ transient' = {notices + 1}
    /\ pc' = "head"
    /\ UNCHANGED <<budgetVars, strict, guidanceVars, toolVars, answer, outcome, broken>>

\* The response has calls; truncated, when it stopped at its output limit.  Text
\* that came with them is discarded.
CallsTools ==
    /\ pc = "model" /\ queue = <<>>
    /\ \E n \in 1..(MaxCalls - Len(events)) : \E calls \in [1..n -> Calls], truncated \in BOOLEAN :
          /\ batch' = [NoBatch EXCEPT !.calls = calls, !.truncated = truncated]
          /\ read' = read \cup NoticesIn(messages)
          /\ messages' = Append(Consumed, [kind |-> "calls", n |-> n])
    /\ transient' = {} /\ timeouts' = 0
    /\ pc' = "batch"
    /\ UNCHANGED <<budgetVars, retries, strict, notices, guidanceVars, events, plan, state,
                   answer, outcome, broken>>

-----------------------------------------------------------------------------
(* Tools. *)

Call == batch.calls[Len(batch.done) + 1]

\* The call is done with a status, and advice for the model if there is some.
Done(status, advised) ==
    batch' = [batch EXCEPT !.done = Append(@, [call |-> Call, status |-> status]),
                           !.advice = IF advised THEN @ + 1 ELSE @,
                           !.step = 0]

\* A call of a truncated response is skipped.
SkipCall ==
    /\ pc = "batch" /\ Len(batch.done) < Len(batch.calls) /\ batch.truncated
    /\ Done("failure", Call.tool = "write")
    /\ state' = [state EXCEPT !.repair = @ \/ Call.tool = "write"]
    /\ UNCHANGED <<pc, budgetVars, timeouts, retries, strict, messages, noticeVars, guidanceVars,
                   events, plan, answer, outcome, broken>>

\* A tool is called; the step of the plan that it matches begins.
StartCall ==
    /\ pc = "batch" /\ Len(batch.done) < Len(batch.calls) /\ ~batch.truncated
    /\ LET s == Matching(Call.tool)
       IN  /\ plan' = IF s = 0 THEN plan ELSE [plan EXCEPT ![s] = "running"]
           /\ batch' = [batch EXCEPT !.step = s]
    /\ pc' = "tool"
    /\ UNCHANGED <<budgetVars, timeouts, retries, strict, messages, noticeVars, guidanceVars,
                   events, state, answer, outcome, broken>>

\* It returns, is refused or cancelled; repairable, when a write can be tried again.
EndCall ==
    /\ pc = "tool"
    /\ \E status \in Statuses, repairable \in BOOLEAN :
          LET write == Call.tool = "write"
              fresh == ~write /\ ~state.repair
              again == fresh /\ Call \in state.seen
          IN  /\ repairable => write /\ status # "success"
              /\ Done(status, repairable \/ (again /\ status = "success"))
              /\ state' = [repair |-> IF repairable THEN TRUE
                                      ELSE state.repair /\ ~(write /\ status = "success"),
                           seen   |-> IF fresh /\ status = "success"
                                      THEN state.seen \cup {Call} ELSE state.seen,
                           reads  |-> IF ~write /\ status = "success"
                                      THEN state.reads + 1 ELSE state.reads,
                           summed |-> state.summed]
              /\ plan' = IF batch.step = 0 THEN plan
                         ELSE [plan EXCEPT ![batch.step] =
                                  IF status = "success" THEN "completed" ELSE "failed"]
    /\ pc' = "batch"
    /\ UNCHANGED <<budgetVars, timeouts, retries, strict, messages, noticeVars, guidanceVars,
                   events, answer, outcome, broken>>

\* submit raises, for a tool that has been disabled: the run fails.
CallRaises ==
    /\ pc = "tool"
    /\ pc' = "over" /\ outcome' = "failed"
    /\ UNCHANGED <<budgetVars, timeouts, retries, strict, messages, noticeVars, guidanceVars,
                   toolVars, answer, broken>>

Notices(k) == [i \in 1..k |-> [kind |-> "notice", n |-> notices + i]]

\* Variant for mutation: advice comes first.
AdviceFirst == Notices(batch.advice) \o [i \in DOMAIN batch.done |-> [kind |-> "tool", n |-> i]]

\* What the batch adds to the messages: answers to its calls, then advice.
Answered == [i \in DOMAIN batch.done |-> [kind |-> "tool", n |-> i]] \o Notices(batch.advice)

WithoutPack(ms) == Picked(ms, {i \in DOMAIN ms : ms[i].kind # "pack"})

\* Variant for mutation: any tool event counts as progress.
ExtendedAnyway(es) ==
    IF round >= limit /\ limit < HardLimit
    THEN IF limit + Increment < HardLimit THEN limit + Increment ELSE HardLimit
    ELSE limit

\* The budget after a round with these events: extended at its end, if there was
\* progress and the hard limit allows it.
Extended(es) ==
    IF round >= limit /\ limit < HardLimit /\ ProgressObserved(es)
    THEN IF limit + Increment < HardLimit THEN limit + Increment ELSE HardLimit
    ELSE limit

\* The batch is done: its events and messages are added, the context pack is
\* renewed, and repeated failures or many files read are put before the model.
EndBatch ==
    /\ pc = "batch" /\ Len(batch.done) = Len(batch.calls)
    /\ events' = events \o batch.done
    /\ limit' = Extended(batch.done)
    /\ gained' = IF ProgressObserved(batch.done) THEN gained \cup {round} ELSE gained
    /\ LET repeated == Repeated(events')
           sums == /\ ~repeated /\ strict /\ ~state.summed
                   /\ state.reads >= ReadsToSum
           more == batch.advice + IF repeated \/ sums THEN 1 ELSE 0
       IN  /\ messages' = WithoutPack(messages \o Answered) \o <<[kind |-> "pack", n |-> 0]>>
                            \o SubSeq(Notices(more), batch.advice + 1, more)
           /\ transient' = transient \cup (notices + 1)..(notices + more)
           /\ notices' = notices + more
           /\ state' = [state EXCEPT !.summed = @ \/ sums]
    /\ batch' = NoBatch
    /\ pc' = "head"
    /\ UNCHANGED <<round, timeouts, retries, strict, read, guidanceVars, plan, answer, outcome,
                   broken>>

\* RunFinalizer.finalize.
Finalize ==
    /\ pc = "finalize"
    /\ pc' = "over"
    /\ plan' = Settled
    /\ UNCHANGED <<budgetVars, timeouts, retries, strict, messages, noticeVars, guidanceVars,
                   events, batch, state, answer, outcome, broken>>

-----------------------------------------------------------------------------
Init ==
    /\ pc = "head" /\ round = 0 /\ limit = MaxRounds
    /\ timeouts = 0 /\ retries = 0 /\ strict \in BOOLEAN
    /\ messages = <<>> /\ transient = {} /\ notices = 0
    /\ queue = <<>> /\ taken = <<>> /\ guided = 0
    /\ events = <<>> /\ batch = NoBatch
    /\ plan = [s \in Steps |-> "pending"]
    /\ state = [repair |-> FALSE, seen |-> {}, reads |-> 0, summed |-> FALSE]
    /\ answer = <<>> /\ outcome = "none"
    /\ read = {} /\ broken = {} /\ gained = {}

Step == \/ StartRound \/ Exhausted \/ Judged
        \/ ModelFails \/ IdleTimeout \/ Overtaken \/ Answers \/ Malformed \/ CallsTools
        \/ SkipCall \/ StartCall \/ EndCall \/ CallRaises \/ EndBatch \/ Finalize

Next == Step \/ Guide

Spec == Init /\ [][Next]_vars

FairSpec == Spec /\ WF_vars(Step)

-----------------------------------------------------------------------------
TypeOK ==
    /\ pc \in {"head", "judging", "model", "late", "batch", "tool", "finalize", "over"}
    /\ round \in 0..limit /\ limit \in MaxRounds..HardLimit
    /\ timeouts \in 0..2 /\ retries \in 0..1 /\ strict \in BOOLEAN
    /\ messages \in Seq(Messages)
    /\ notices \in Nat /\ transient \subseteq 1..notices /\ read \subseteq 1..notices
    /\ guided \in 0..MaxGuidance
    /\ queue \in Seq(1..guided) /\ taken \in Seq(1..guided)
    /\ events \in Seq(Events)
    /\ batch \in [calls : Seq(Calls), truncated : BOOLEAN, done : Seq(Events),
                  advice : Nat, step : Steps \cup {0}]
    /\ Len(batch.done) <= Len(batch.calls)
    /\ plan \in [Steps -> {"pending", "running", "completed", "failed", "skipped"}]
    /\ state \in [repair : BOOLEAN, seen : SUBSET Calls, reads : Nat, summed : BOOLEAN]
    /\ answer \in Seq(1..round)
    /\ outcome \in {"none", "answered", "model_error", "max_rounds", "aborted", "failed"}
    /\ broken \subseteq 1..round /\ gained \subseteq 1..round

\* What providers demand of a request: every call is followed at once by its
\* answers, all of them and in order, and there are no others.
CallsAreAnswered ==
    pc = "model" =>
        /\ \A i \in DOMAIN messages : messages[i].kind = "calls" =>
              \A k \in 1..messages[i].n :
                  /\ i + k \in DOMAIN messages
                  /\ messages[i + k] = [kind |-> "tool", n |-> k]
        /\ \A j \in DOMAIN messages : messages[j].kind = "tool" =>
              \E i \in DOMAIN messages : /\ messages[i].kind = "calls"
                                        /\ j = i + messages[j].n
                                        /\ messages[j].n <= messages[i].n

\* A notice stays, across timeouts, until a usable response has come to a request
\* that showed it, and is gone then.
NoticesLastUntilRead == NoticesIn(messages) = (1..notices) \ read

Guidance == [i \in DOMAIN Of("guidance", messages) |-> Of("guidance", messages)[i].n]
              \o taken \o queue

\* Guidance reaches the model in the order in which it was given and once, and
\* all of it, unless the queue had as many later ones.
GuidanceIsKept ==
    /\ \A i, j \in DOMAIN Guidance : i < j => Guidance[i] < Guidance[j]
    /\ \A g \in 1..guided : (\E i \in DOMAIN Guidance : Guidance[i] = g)
                               \/ guided - g >= QueueLimit

\* The run gives up for want of rounds only when its last round brought no
\* progress or the hard limit is reached, and rounds beyond the first budget are
\* owed to rounds with progress.
BudgetFollowsProgress ==
    /\ outcome = "max_rounds" => round = limit /\ (limit = HardLimit \/ round \notin gained)
    /\ limit <= MaxRounds + Increment * Cardinality(gained)

\* A step of the plan runs only while its tool does, one at a time, and a run that
\* was finalized leaves none open.
PlanFollowsTools ==
    /\ outcome # "failed" => Running = {batch.step} \ {0}
    /\ pc # "tool" /\ outcome # "failed" => batch.step = 0
    /\ pc = "over" /\ outcome \notin {"aborted", "failed"} =>
          \A s \in Steps : plan[s] \notin {"pending", "running"}

\* The text of the answer comes from the last round and from rounds that broke off:
\* what a round said before it called tools or was overtaken is discarded.
AnswerIsLast ==
    pc = "finalize" /\ outcome = "answered" =>
        \A i \in DOMAIN answer : answer[i] \in broken \cup {round}

\* Every run ends.
RunEnds == <>(pc = "over")
=============================================================================
