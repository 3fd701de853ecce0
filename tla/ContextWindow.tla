---------------------------- MODULE ContextWindow ----------------------------
(***************************************************************************)
(* What of a conversation a model is told.  A run lists the conversation's *)
(* messages, cleans the list of earlier tasks and of noise (context        *)
(* hygiene), and, when it is too long, replaces all but its last messages  *)
(* by a summary that a model writes.  The summary is kept with the         *)
(* conversation and continued by later compressions, so that it must go on *)
(* standing for the messages it was made of while other requests add       *)
(* messages, the cleaning folds some of them away, compressions overlap at *)
(* their await, and the process restarts.                                  *)
(*                                                                         *)
(* A message is its place in the conversation; a summary is the set of     *)
(* messages that its writer was given, told directly or by the summary it  *)
(* continues.  Left out: texts, token counts, the system prompt at the     *)
(* head of every list, attachments and memories.                           *)
(***************************************************************************)
EXTENDS Naturals, Sequences, FiniteSets, FiniteSetsExt

CONSTANTS
    Keep,         \* RECENT_MESSAGES_KEEP
    UserKinds,    \* what users say, see AllUserKinds
    AnswerKinds,  \* what runs and models answer, see AllAnswerKinds
    Compressors,  \* requests to compress the conversation by hand
    MaxPosts,     \* bound: requests that do not stream and await their answer at once
    MaxMessages   \* bound: the length of the conversation

\* "request", or "log" when it quotes the output of a process.
AllUserKinds   == {"request", "log"}
\* "answer"; "failure", with traces of a failed run; "task", a run's, with its contract.
AllAnswerKinds == {"answer", "failure", "task"}

ASSUME KeepAssumption == Keep \in Nat \ {0}
ASSUME KindsAssumption == UserKinds \subseteq AllUserKinds /\ AnswerKinds \subseteq AllAnswerKinds
ASSUME CompressorsAssumption == "run" \notin Compressors
ASSUME BoundAssumption == MaxPosts \in Nat /\ MaxMessages \in Nat

VARIABLES
    conversation,  \* ConversationRecord.messages, the kind of each
    stored,        \* its metadata: the cached summary and the messages behind its digest
    run,           \* the stream request and its executor
    request,       \* the message it added, 0 when idle
    sent,          \* the list the run works with
    job,           \* compressions that await their summary
    posted         \* how many requests that do not stream await their answer

vars == <<conversation, stored, run, request, sent, job, posted>>

Who == Compressors \cup {"run"}

-----------------------------------------------------------------------------
(* The list: _build_model_messages and sanitize_model_context. *)

Item(kind) == [kind |-> kind, id |-> 0]
Notice   == Item("notice")     \* "some earlier messages were compacted"
Boundary == Item("boundary")   \* "the next user message is the current request"
Marker   == Item("marker")     \* historical task turns, moved to the Context Pack
Recovery == Item("recovery")   \* the checkpoint a run resumes from

Scaffold == {"notice", "boundary", "marker"}

Users(c)   == {i \in DOMAIN c : c[i] \in AllUserKinds}
Latest(S)  == Max(S \cup {0})

\* Variant for mutation: the last message is taken for the current request.
CurrentAtEnd(c) == Len(c)

Current(c) == Latest(Users(c))

Tasks(c) == {i \in DOMAIN c : c[i] = "task"}

\* The answers that report a task and the requests they answer, but for the
\* current one.
Folded(c) ==
    Tasks(c) \cup ({Latest({u \in Users(c) : u < a}) : a \in Tasks(c)} \ {0, Current(c)})

Noisy(c, i) == c[i] = "failure" \/ (c[i] = "log" /\ i # Current(c))

Changed(c) == Folded(c) # {} \/ \E i \in DOMAIN c : Noisy(c, i)

Message(c, i) == [kind |-> IF Noisy(c, i) THEN "condensed" ELSE "exact", id |-> i]

\* The messages that have a place in the list: guidance has had its round, and the
\* folded turns leave one marker where the first of them was.
Shown(c) == {i \in DOMAIN c : c[i] # "guidance" /\ (i \in Folded(c) => i = Min(Folded(c)))}

Line(c, i) == IF i \in Folded(c) THEN Marker ELSE Message(c, i)

\* The lines of the messages in K, in their order.
Lines(c, K) ==
    [n \in 1..Cardinality(K) |-> Line(c, CHOOSE i \in K : Cardinality({j \in K : j <= i}) = n)]

\* The notice heads a list that was changed, the boundary its current request.
ModelMessages(c) ==
    (IF Changed(c) THEN <<Notice>> ELSE <<>>)
        \o Lines(c, {i \in Shown(c) : i < Current(c)})
        \o (IF Changed(c) /\ Current(c) # 0 THEN <<Boundary>> ELSE <<>>)
        \o Lines(c, {i \in Shown(c) : i >= Current(c)})

-----------------------------------------------------------------------------
(* compress_context. *)

Older(l)  == SubSeq(l, 1, Len(l) - Keep)
Recent(l) == IF Len(l) <= Keep THEN l ELSE SubSeq(l, Len(l) - Keep + 1, Len(l))

Told(l)    == {l[i] : i \in DOMAIN l}
Durable(l) == {x \in Told(l) : x.kind \notin Scaffold}

\* Variant for mutation: a summary is continued without a look at its digest.
ContinuesAny(source) == stored.summary # {}

\* The cached summary was made of the first of these messages, in the form they
\* have now: the digest of as many of them is the one stored.
Continues(source) ==
    /\ stored.summary # {}
    /\ stored.source \subseteq source
    /\ \A x \in stored.source, y \in source \ stored.source : x.id < y.id

Seed(source) == IF Continues(source) THEN stored.summary ELSE {}
New(source)  == IF Continues(source) THEN source \ stored.source ELSE source

\* The extract that stands in for the model's summary when the call fails.
Fallback(seed, new) == seed \cup new

NoRequest == [built |-> <<>>, form |-> "none", summary |-> {}]
NoJob     == [built |-> <<>>, seed |-> {}, new |-> {}, source |-> {}]
Busy(a)   == job[a] # NoJob

\* The summary text is there: save it, and let the run go on with it.
Compressed(a, l, source, text, form) ==
    /\ stored' = [summary |-> text, source |-> source]
    /\ IF a = "run"
       THEN /\ sent' = [built |-> l, form |-> form, summary |-> text]
            /\ run' = "going"
       ELSE UNCHANGED <<sent, run>>

\* A list with more than the recent messages.  Without new messages the cached
\* summary, if any, is used again; otherwise the model is asked.
Compress(a, l) ==
    LET source == Durable(Older(l))
    IN  IF New(source) = {}
        THEN Compressed(a, l, source, Seed(source), "compressed") /\ UNCHANGED job
        ELSE /\ job' = [job EXCEPT ![a] = [built |-> l, seed |-> Seed(source),
                                           new |-> New(source), source |-> source]]
             /\ run' = IF a = "run" THEN "compressing" ELSE run
             /\ UNCHANGED <<stored, sent>>

\* _generate_summary returns: the model's text, the extract, or, when all that
\* the model said was blank, nothing.
Summarized(a) ==
    /\ Busy(a)
    /\ LET j == job[a] IN
       \/ Compressed(a, j.built, j.source, j.seed \cup j.new, "compressed")
       \/ Compressed(a, j.built, j.source, Fallback(j.seed, j.new), "compressed")
       \/ Compressed(a, j.built, j.source, {}, "blank")
    /\ job' = [job EXCEPT ![a] = NoJob]
    /\ UNCHANGED <<conversation, request, posted>>

-----------------------------------------------------------------------------
Add(kind) ==
    /\ Len(conversation) < MaxMessages
    /\ conversation' = Append(conversation, kind)

\* POST messages/stream: one run at a time; the request is added.
Ask(kind) ==
    /\ run = "idle"
    /\ Add(kind)
    /\ request' = Len(conversation) + 1
    /\ run' = "asked"
    /\ UNCHANGED <<stored, sent, job, posted>>

\* execute, to the flush before the length is checked.
Begin(resumed) ==
    /\ run = "asked"
    /\ LET l == ModelMessages(conversation) \o (IF resumed THEN <<Recovery>> ELSE <<>>)
       IN  sent' = [built |-> l, form |-> "listed", summary |-> {}]
    /\ run' = "listed"
    /\ UNCHANGED <<conversation, stored, request, job, posted>>

\* The length is checked: too long, or not.
Fit(long) ==
    /\ run = "listed"
    /\ LET l == sent.built
       IN  IF long /\ Len(l) > Keep
           THEN Compress("run", l)
           ELSE /\ sent' = [built |-> l, form |-> "whole", summary |-> {}]
                /\ run' = "going"
                /\ UNCHANGED <<stored, job>>
    /\ UNCHANGED <<conversation, request, posted>>

\* POST compress, at any time.
CompressNow(a) ==
    /\ ~Busy(a)
    /\ LET l == ModelMessages(conversation) IN Len(l) > Keep /\ Compress(a, l)
    /\ UNCHANGED <<conversation, request, posted>>

\* The finalizer adds the run's answer.
Answer(kind) ==
    /\ run = "going"
    /\ Add(kind)
    /\ run' = "idle" /\ request' = 0 /\ sent' = NoRequest
    /\ UNCHANGED <<stored, job, posted>>

\* The request is refused after its message was added, or the run fails or is
\* stopped: there is no answer.
End ==
    /\ run # "idle"
    /\ run' = "idle" /\ request' = 0 /\ sent' = NoRequest
    /\ job' = [job EXCEPT !["run"] = NoJob]
    /\ UNCHANGED <<conversation, stored, posted>>

\* POST messages, without a stream: refused while a run is active, but it makes
\* no reservation, so a run may begin before it is answered.
Post(kind) ==
    /\ run = "idle" /\ posted < MaxPosts
    /\ Add(kind)
    /\ posted' = posted + 1
    /\ UNCHANGED <<stored, run, request, sent, job>>

Reply(kind) ==
    /\ posted > 0
    /\ Add(kind)
    /\ posted' = posted - 1
    /\ UNCHANGED <<stored, run, request, sent, job>>

\* POST guidance, at any time.
Guide ==
    /\ Add("guidance")
    /\ UNCHANGED <<stored, run, request, sent, job, posted>>

\* The process dies: the conversation, saved at every change, is what is left.
Restart ==
    /\ run' = "idle" /\ request' = 0 /\ sent' = NoRequest /\ posted' = 0
    /\ job' = [a \in Who |-> NoJob]
    /\ UNCHANGED <<conversation, stored>>

Init ==
    /\ conversation = <<>>
    /\ stored = [summary |-> {}, source |-> {}]
    /\ run = "idle" /\ request = 0 /\ sent = NoRequest
    /\ job = [a \in Who |-> NoJob]
    /\ posted = 0

Next ==
    \/ \E kind \in UserKinds : Ask(kind) \/ Post(kind)
    \/ \E resumed \in BOOLEAN : Begin(resumed)
    \/ \E long \in BOOLEAN : Fit(long)
    \/ \E a \in Who : Summarized(a)
    \/ \E a \in Compressors : CompressNow(a)
    \/ \E kind \in AnswerKinds : Answer(kind)
    \/ \E kind \in AnswerKinds \ {"task"} : Reply(kind)
    \/ Guide \/ End \/ Restart

Spec == Init /\ [][Next]_vars

-----------------------------------------------------------------------------
(* Properties. *)

\* A run whose list was compressed goes on with a summary of exactly the messages
\* that its window leaves out: none is forgotten, none that was folded away or is
\* told in full comes back, however often the summary was continued.  A model
\* that answers with blanks gives no summary.
SummaryIsExact ==
    /\ sent.form = "compressed" => sent.summary = Durable(Older(sent.built))
    /\ sent.form # "compressed" => sent.summary = {}

SentList == IF sent.form = "whole" THEN sent.built ELSE Recent(sent.built)

\* The request that a run works on stands in the list as the user wrote it, no
\* other request follows it, and where anything was cleaned the boundary that
\* announces the current request is right before it.
CurrentRequestStands ==
    run = "going" =>
        \E i \in DOMAIN SentList :
            /\ SentList[i] = [kind |-> "exact", id |-> request]
            /\ \A j \in i + 1..Len(SentList) :
                  SentList[j].id # 0 => conversation[SentList[j].id] \notin AllUserKinds
            /\ Notice \in Told(sent.built) => i > 1 /\ SentList[i - 1] = Boundary
=============================================================================
