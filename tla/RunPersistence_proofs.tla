------------------------ MODULE RunPersistence_proofs ------------------------
(***************************************************************************)
(* Proofs about RunPersistence, for any number of runs, any retention and   *)
(* any legacy document: the runs and events that are kept are the newest,   *)
(* and after a crash at any point runs and tasks say what is true of them.  *)
(***************************************************************************)
EXTENDS RunPersistence, FiniteSetTheorems, WellFoundedInduction, TLAPS

-----------------------------------------------------------------------------
(* Finite sets of numbers, and the newest of them. *)

\* A finite set of numbers that is not empty has a least one.
LEMMA LeastExists ==
    ASSUME NEW S, S \subseteq Nat, IsFiniteSet(S), S # {}
    PROVE  \E x \in S : \A y \in S : x <= y
<1> DEFINE Below(x) == {y \in S : y <= x}
           T == {Below(x) : x \in S}
<1>1. IsWellFoundedOn(StrictSubsetOrdering(S), FiniteSubsetsOf(S))
  BY FS_StrictSubsetOrderingWellFounded
<1>2. T \subseteq FiniteSubsetsOf(S) /\ T # {}
  <2>1. \A x \in S : Below(x) \in SUBSET S OBVIOUS
  <2>2. \A x \in S : IsFiniteSet(Below(x)) BY <2>1, FS_Subset
  <2> QED BY <2>1, <2>2 DEF FiniteSubsetsOf
<1>3. PICK b \in T : \A c \in T : ~(<<c, b>> \in StrictSubsetOrdering(S))
  BY <1>1, <1>2, WFMin
<1>4. PICK x \in S : b = Below(x) OBVIOUS
<1>5. ASSUME NEW y \in S PROVE x <= y
  <2>1. SUFFICES ASSUME y < x PROVE FALSE BY <1>5
  <2>2. Below(y) \in T /\ Below(y) \subseteq Below(x)
    <3>1. Below(y) \in T BY <1>5
    <3>2. \A z \in S : z \in Nat OBVIOUS
    <3>3. ASSUME NEW z \in S, z <= y PROVE z <= x BY <1>5, <2>1, <3>2, <3>3
    <3>4. Below(y) \subseteq Below(x) BY <3>3
    <3> QED BY <3>1, <3>4
  <2>3. x \in Below(x) /\ x \notin Below(y) BY <2>1
  <2>4. <<Below(y), b>> \in StrictSubsetOrdering(S)
    <3>1. Below(y) \in SUBSET S /\ b \in SUBSET S BY <1>4
    <3>2. Below(y) \subseteq b /\ Below(y) # b BY <1>4, <2>2, <2>3
    <3> HIDE DEF Below
    <3> QED BY <3>1, <3>2 DEF StrictSubsetOrdering
  <2> QED BY <1>3, <2>2, <2>4
<1> QED BY <1>5

\* And a greatest one.
LEMMA GreatestExists ==
    ASSUME NEW S, S \subseteq Nat, IsFiniteSet(S), S # {}
    PROVE  \E x \in S : \A y \in S : y <= x
<1> DEFINE Above(x) == {y \in S : y >= x}
           T == {Above(x) : x \in S}
<1>1. IsWellFoundedOn(StrictSubsetOrdering(S), FiniteSubsetsOf(S))
  BY FS_StrictSubsetOrderingWellFounded
<1>2. T \subseteq FiniteSubsetsOf(S) /\ T # {}
  <2>1. \A x \in S : Above(x) \in SUBSET S OBVIOUS
  <2>2. \A x \in S : IsFiniteSet(Above(x)) BY <2>1, FS_Subset
  <2> QED BY <2>1, <2>2 DEF FiniteSubsetsOf
<1>3. PICK b \in T : \A c \in T : ~(<<c, b>> \in StrictSubsetOrdering(S))
  BY <1>1, <1>2, WFMin
<1>4. PICK x \in S : b = Above(x) OBVIOUS
<1>5. ASSUME NEW y \in S PROVE y <= x
  <2>1. SUFFICES ASSUME y > x PROVE FALSE BY <1>5
  <2>2. Above(y) \in T /\ Above(y) \subseteq Above(x)
    <3>1. Above(y) \in T BY <1>5
    <3>2. \A z \in S : z \in Nat OBVIOUS
    <3>3. ASSUME NEW z \in S, z >= y PROVE z >= x BY <1>5, <2>1, <3>2, <3>3
    <3>4. Above(y) \subseteq Above(x) BY <3>3
    <3> QED BY <3>1, <3>4
  <2>3. x \in Above(x) /\ x \notin Above(y) BY <2>1
  <2>4. <<Above(y), b>> \in StrictSubsetOrdering(S)
    <3>1. Above(y) \in SUBSET S /\ b \in SUBSET S BY <1>4
    <3>2. Above(y) \subseteq b /\ Above(y) # b BY <1>4, <2>2, <2>3
    <3> HIDE DEF Above
    <3> QED BY <3>1, <3>2 DEF StrictSubsetOrdering
  <2> QED BY <1>3, <2>2, <2>4
<1> QED BY <1>5

Later(S, r) == {o \in S : o > r}

\* Newest keeps, with a run, all later ones; KeepRuns of them at most, and as many
\* when there are as many.
LEMMA NewestFacts ==
    ASSUME NEW S, S \subseteq Nat, IsFiniteSet(S)
    PROVE  /\ Newest(S) \subseteq S
           /\ \A r \in Newest(S), o \in S : o > r => o \in Newest(S)
           /\ Cardinality(Newest(S)) <= KeepRuns
           /\ Cardinality(S) >= KeepRuns => Cardinality(Newest(S)) = KeepRuns
           /\ Newest(S) # S => Cardinality(Newest(S)) = KeepRuns
<1> DEFINE N == Newest(S)
<1>0. \A y \in S : y \in Nat OBVIOUS
<1>1. \A r : r \in N <=> r \in S /\ Cardinality(Later(S, r)) < KeepRuns
  BY DEF Newest, Later
<1> HIDE DEF N
<1>2. \A r : IsFiniteSet(Later(S, r)) /\ Cardinality(Later(S, r)) \in Nat
  <2>1. \A r : Later(S, r) \in SUBSET S BY DEF Later
  <2> QED BY <2>1, FS_Subset, FS_CardinalityType
<1>3. N \subseteq S BY <1>1
<1>4. IsFiniteSet(N) /\ Cardinality(N) \in Nat BY <1>3, FS_Subset, FS_CardinalityType
<1>5. ASSUME NEW r \in N, NEW o \in S, o > r PROVE o \in N
  <2>1. Later(S, o) \subseteq Later(S, r)
    <3>1. r \in Nat /\ o \in Nat BY <1>0, <1>3, <1>5
    <3>2. ASSUME NEW z \in S, z > o PROVE z > r BY <1>0, <1>5, <3>1, <3>2
    <3> QED BY <3>2 DEF Later
  <2>2. Cardinality(Later(S, o)) <= Cardinality(Later(S, r)) BY <1>2, <2>1, FS_Subset
  <2> QED BY <1>1, <1>2, <2>2, KeepAssumption
<1>6. Cardinality(N) <= KeepRuns
  <2>1. CASE N = {} BY <2>1, FS_EmptySet, KeepAssumption
  <2>2. CASE N # {}
    <3>1. PICK m \in N : \A y \in N : m <= y BY <1>3, <1>4, <2>2, LeastExists
    <3>2. N \subseteq Later(S, m) \cup {m} BY <1>0, <1>3, <3>1 DEF Later
    <3>3. m \notin Later(S, m) BY <1>0, <1>3, <3>1 DEF Later
    <3>4. Cardinality(Later(S, m) \cup {m}) = Cardinality(Later(S, m)) + 1
          /\ IsFiniteSet(Later(S, m) \cup {m})
      BY <1>2, <3>3, FS_AddElement
    <3>5. Cardinality(N) <= Cardinality(Later(S, m)) + 1 BY <3>2, <3>4, FS_Subset
    <3>6. Cardinality(Later(S, m)) < KeepRuns BY <1>1, <3>1
    <3> QED BY <1>2, <1>4, <3>5, <3>6, KeepAssumption
  <2> QED BY <2>1, <2>2
<1>7. N # S => Cardinality(N) >= KeepRuns
  <2>1. SUFFICES ASSUME N # S PROVE Cardinality(N) >= KeepRuns OBVIOUS
  <2>2. S \ N # {} /\ IsFiniteSet(S \ N) /\ S \ N \subseteq Nat BY <1>3, <2>1, FS_Difference
  <2>3. PICK x \in S \ N : \A y \in S \ N : y <= x BY <2>2, GreatestExists
  <2>4. Later(S, x) \subseteq N
    <3>1. ASSUME NEW z \in S, z > x, z \notin N PROVE FALSE BY <1>0, <2>3, <3>1
    <3> QED BY <3>1 DEF Later
  <2>5. Cardinality(Later(S, x)) <= Cardinality(N) BY <1>4, <2>4, FS_Subset
  <2>6. ~(Cardinality(Later(S, x)) < KeepRuns) BY <1>1, <2>3
  <2> QED BY <1>2, <1>4, <2>5, <2>6, KeepAssumption
<1>8. Cardinality(S) >= KeepRuns => Cardinality(N) >= KeepRuns BY <1>7
<1>9. Cardinality(N) >= KeepRuns => Cardinality(N) = KeepRuns
  BY <1>4, <1>6, KeepAssumption
<1> USE DEF N
<1> QED BY <1>3, <1>5, <1>6, <1>7, <1>8, <1>9

-----------------------------------------------------------------------------
(* The inductive invariant. *)

Going == {"running", "waiting_confirmation"}

\* What has not been created, and what has not been imported, is not there.
RowsInv ==
    /\ \A r \in Run : r > made =>
          /\ status[r] = "absent" /\ events[r] = {} /\ recorded[r] = 0
          /\ r \notin gone /\ r \notin executing
    /\ ~imported => \A r \in Legacy : /\ status[r] = "absent" /\ r \notin gone
                                      /\ recorded[r] = document[r].events

\* What a handler is about to write follows from what it has written.
CommitInv ==
    /\ phase # "up" => commit = Nothing /\ executing = {}
    /\ commit.do = "nothing" => commit = Nothing
    /\ commit.do = "create" => commit.run = made + 1 /\ made < MaxRuns
    /\ commit.do = "attach" => commit.run = made /\ Old < made
                               /\ status[commit.run] \in {commit.status, "absent"}
    /\ commit.do \in {"create", "attach"} => commit.task \in Tasks
                                             /\ commit.status \in {"running", "created"}
    /\ commit.do = "sync" => commit.run \in Run /\ commit.status # "absent"
                             /\ status[commit.run] \in {commit.status, "absent"}
    /\ commit.do \in {"attach", "sync"} => commit.task = taskOf[commit.run]
                                          /\ commit.run \in touched

\* The tasks that runs name, and the runs that tasks show.
LinkInv ==
    /\ \A r \in Run : taskOf[r] # 0 => Old < r /\ r <= made
    /\ \A t \in Run : task[t].run # 0 => Old < task[t].run /\ task[t].run <= made
                                         /\ taskOf[task[t].run] = t

\* RecoveryIsComplete, and the startup that leads to it.
RecoveryInv ==
    /\ RecoveryIsComplete
    /\ phase = "tasks" => \A r \in Run : status[r] \notin ActiveStatuses

\* TasksAgree between the transactions and during a startup, when the runs may have
\* been recovered already.
Agrees(t) ==
    \/ task[t].state = TaskStateOf(status[task[t].run])
    \/ phase = "up" /\ commit.do = "sync" /\ commit.task = t
    \/ t \in cut /\ (phase = "up" => task[t].state \notin Going)
    \/ phase # "up" /\ status[task[t].run] = "stopped" /\ task[t].state \in ActiveStatuses
AgreeInv == \A t \in Tasks : task[t].run \in Kept => Agrees(t)

IInv == /\ TypeOK /\ RowsInv /\ CommitInv /\ LinkInv
        /\ EventsAreLatest /\ KeptAreNewest /\ RecoveryInv /\ AgreeInv

-----------------------------------------------------------------------------
(* What an event makes of a status. *)

Recorded == RunStatuses \cup {"absent"}

\* The events that leave an executor at work, its own and those of the user's actions.
Others == Steps \cup {StatusEvent("paused"), StatusEvent("resumed")}

\* Every event yields a status, and one that ends the executor none that goes on.
LEMMA RecordFacts ==
    ASSUME NEW s \in Recorded, NEW e \in Finals \cup Others
    PROVE  /\ RecordEvent(s, e) \in RunStatuses
           /\ e \in Finals => RecordEvent(s, e) \notin Going
<1>1. ASSUME NEW word PROVE RecordEvent(s, StatusEvent(word)) = AfterStatus(s, word)
  BY DEF RecordEvent, StatusEvent
<1>2. ASSUME NEW word PROVE AfterStatus(s, word) \in RunStatuses
  BY DEF AfterStatus, RunStatuses, Recorded
<1>3. AfterStatus(s, "stopped") \notin Going
  BY DEF AfterStatus, Going
<1>4. ASSUME NEW word PROVE RecordEvent(s, DoneEvent(word)) = word
  BY DEF RecordEvent, DoneEvent
<1>5. RecordEvent(s, TerminalError) = "failure" BY DEF RecordEvent, TerminalError
<1>6. RecordEvent(s, ConfirmEvent) = "waiting_confirmation" BY DEF RecordEvent, ConfirmEvent
<1>7. CASE e \in Finals
  <2>1. CASE e = DoneEvent("success") BY <1>4, <2>1 DEF RunStatuses, Going
  <2>2. CASE e = DoneEvent("partial") BY <1>4, <2>2 DEF RunStatuses, Going
  <2>3. CASE e = TerminalError BY <1>5, <2>3 DEF RunStatuses, Going
  <2>4. CASE e = StatusEvent("stopped") BY <1>1, <1>2, <1>3, <2>4
  <2> QED BY <1>7, <2>1, <2>2, <2>3, <2>4 DEF Finals
<1>8. CASE e \in Others /\ e \notin Finals
  <2>1. CASE e = ConfirmEvent BY <1>6, <1>8, <2>1 DEF RunStatuses
  <2>2. CASE e # ConfirmEvent
    <3>1. \E word : e = StatusEvent(word) BY <1>8, <2>2 DEF Others, Steps
    <3> QED BY <1>1, <1>2, <1>8, <3>1
  <2> QED BY <2>1, <2>2
<1> QED BY <1>7, <1>8

LEMMA TaskStateFacts ==
    /\ \A s \in RunStatuses : TaskStateOf(s) \in TaskStates
    /\ TaskStateOf("stopped") = "paused"
    /\ TaskStateOf("running") = "running" /\ TaskStateOf("created") = "created"
    /\ \A s \in RunStatuses \ ActiveStatuses : TaskStateOf(s) \notin Going
<1>1. ASSUME NEW s \in RunStatuses
      PROVE  /\ TaskStateOf(s) \in TaskStates
             /\ s \notin ActiveStatuses => TaskStateOf(s) \notin Going
  BY DEF TaskStateOf, TaskStates, RunStatuses, ActiveStatuses, Going
<1>2. TaskStateOf("stopped") = "paused" BY DEF TaskStateOf
<1>3. TaskStateOf("running") = "running" BY DEF TaskStateOf
<1>4. TaskStateOf("created") = "created" BY DEF TaskStateOf
<1> QED BY <1>1, <1>2, <1>3, <1>4

-----------------------------------------------------------------------------
(* What a transaction of the repository does. *)

\* The runs and events it leaves are those it was given, for the newest runs.
LEMMA StoreFacts ==
    ASSUME NEW st, NEW ev, Store(st, ev)
    PROVE  /\ \A r \in Kept' : st[r] # "absent" /\ status'[r] = st[r] /\ events'[r] = ev[r]
           /\ \A r \in Run \ Kept' : status'[r] = "absent" /\ events'[r] = {}
           /\ Kept' = Newest({r \in Run : st[r] # "absent"})
           /\ gone' = gone \cup ({r \in Run : st[r] # "absent"} \ Kept')
<1> DEFINE rows == {r \in Run : st[r] # "absent"}
           kept == Newest(rows)
<1>1. kept \subseteq rows BY DEF Newest
<1>2. /\ status' = [r \in Run |-> IF r \in kept THEN st[r] ELSE "absent"]
      /\ events' = [r \in Run |-> IF r \in kept THEN ev[r] ELSE {}]
      /\ gone' = gone \cup (rows \ kept)
  BY DEF Store
<1> HIDE DEF kept
<1>3. Kept' = kept BY <1>1, <1>2 DEF Kept
<1> USE DEF kept
<1> QED BY <1>1, <1>2, <1>3

\* It keeps the newest if what is new is newer than all that was deleted, or older than
\* all that is kept.
LEMMA StoreKeepsNewest ==
    ASSUME NEW st, NEW ev, Store(st, ev), KeptAreNewest, gone \subseteq Run,
           \A r \in Kept : st[r] # "absent",
           \A r \in Run \ Kept : st[r] # "absent" =>
               (\A g \in gone : g < r) \/ (\A k \in Kept : r < k)
    PROVE  KeptAreNewest'
<1> DEFINE rows == {r \in Run : st[r] # "absent"}
           kept == Newest(rows)
<1>1. /\ Kept' = kept /\ gone' = gone \cup (rows \ kept) BY StoreFacts
<1>2. rows \subseteq Run /\ Run \subseteq Nat /\ IsFiniteSet(Run)
  BY FS_Interval, BoundsAssumption DEF Run
<1>3. IsFiniteSet(rows) /\ rows \subseteq Nat /\ Cardinality(rows) \in Nat
  <2>1. rows \in SUBSET Run OBVIOUS
  <2> QED BY <1>2, <2>1, FS_Subset, FS_CardinalityType
<1>4. Kept \subseteq rows /\ Cardinality(Kept) <= Cardinality(rows)
  <2>1. Kept \subseteq rows BY DEF Kept
  <2>2. Kept \in SUBSET rows BY <2>1
  <2> QED BY <1>3, <2>1, <2>2, FS_Subset
<1>5. /\ kept \subseteq rows
      /\ \A r \in kept, o \in rows : o > r => o \in kept
      /\ Cardinality(kept) <= KeepRuns
      /\ Cardinality(rows) >= KeepRuns => Cardinality(kept) = KeepRuns
      /\ kept # rows => Cardinality(kept) = KeepRuns
  BY <1>3, NewestFacts
<1>6. gone # {} => Cardinality(Kept) = KeepRuns BY DEF KeptAreNewest
<1> HIDE DEF kept, rows
<1>7. gone' # {} => Cardinality(kept) = KeepRuns
  <2>1. CASE kept # rows BY <1>5, <2>1
  <2>2. CASE gone # {}
    BY <1>3, <1>4, <1>5, <1>6, <2>2, KeepAssumption
  <2> QED BY <1>1, <1>5, <2>1, <2>2
<1>8. ASSUME NEW r \in kept, NEW g \in gone' PROVE g < r
  <2>0. r \in Run /\ r \in Nat /\ r \in rows BY <1>2, <1>5
  <2>1. CASE g \in rows \ kept
    <3>1. g \in Nat BY <1>3, <2>1
    <3>2. g # r /\ ~(g > r) BY <1>5, <2>1
    <3> QED BY <2>0, <3>1, <3>2
  <2>2. CASE g \in gone /\ r \in Kept BY <2>2 DEF KeptAreNewest
  <2>3. CASE g \in gone /\ r \notin Kept
    <3>1. SUFFICES ASSUME \A k \in Kept : r < k PROVE FALSE
      BY <2>0, <2>3 DEF rows
    <3>2. Kept \subseteq {o \in rows : o > r} BY <1>2, <1>4, <2>0, <3>1 DEF Kept
    <3>3. {o \in rows : o > r} \in SUBSET rows OBVIOUS
    <3>4. IsFiniteSet({o \in rows : o > r}) /\ Cardinality({o \in rows : o > r}) \in Nat
      BY <1>3, <3>3, FS_Subset, FS_CardinalityType
    <3>5. Kept \in SUBSET {o \in rows : o > r} BY <3>2
    <3>6. Cardinality(Kept) <= Cardinality({o \in rows : o > r}) BY <3>4, <3>5, FS_Subset
    <3>7. Cardinality({o \in rows : o > r}) < KeepRuns BY DEF kept, Newest
    <3> QED BY <1>6, <2>3, <3>4, <3>6, <3>7, KeepAssumption
  <2> QED BY <1>1, <2>1, <2>2, <2>3
<1>9. Cardinality(Kept') <= KeepRuns BY <1>1, <1>5
<1>10. gone' # {} => Cardinality(Kept') = KeepRuns BY <1>1, <1>7
<1>11. \A r \in Kept', g \in gone' : g < r BY <1>1, <1>8
<1> QED BY <1>9, <1>10, <1>11 DEF KeptAreNewest

-----------------------------------------------------------------------------
(* Types. *)

Rows == [sequence : Nat, payload : Nat]

LEMMA StoreType ==
    ASSUME NEW st \in [Run -> Recorded], NEW ev \in [Run -> SUBSET Rows], Store(st, ev),
           gone \subseteq Run
    PROVE  /\ status' \in [Run -> Recorded] /\ events' \in [Run -> SUBSET Rows]
           /\ gone' \subseteq Run
BY DEF Store, Recorded

LEMMA NextSequenceFacts ==
    ASSUME NEW es \in SUBSET Rows, es # {},
           \E e \in es : \A o \in es : o.sequence <= e.sequence
    PROVE  \E e \in es : /\ \A o \in es : o.sequence <= e.sequence
                         /\ NextSequence(es) = 1 + e.sequence
BY DEF NextSequence

\* The row with the latest payload has the last sequence.
LEMMA LatestEvent ==
    ASSUME TypeOK, EventsAreLatest, NEW r \in Kept
    PROVE  /\ events[r] = {} <=> recorded[r] = 0
           /\ \A e \in events[r] : /\ e.payload \in 1..recorded[r]
                                   /\ recorded[r] - e.payload < KeepEvents
           /\ \A n \in 1..recorded[r] : recorded[r] - n < KeepEvents =>
                 \E e \in events[r] : e.payload = n
           /\ \A e, f \in events[r] : e.payload - f.payload = e.sequence - f.sequence
           /\ recorded[r] # 0 => \E e \in events[r] : /\ e.payload = recorded[r]
                                                     /\ NextSequence(events[r]) = 1 + e.sequence
           /\ recorded[r] = 0 => NextSequence(events[r]) = 0
<1> DEFINE es == events[r]
           n == recorded[r]
<1>1. r \in Run /\ es \in SUBSET Rows /\ n \in Nat BY DEF Kept, TypeOK, Rows
<1>2. {e.payload : e \in es} = {i \in 1..n : n - i < KeepEvents} BY DEF EventsAreLatest
<1>3. \A e, f \in es : e.payload - f.payload = e.sequence - f.sequence BY DEF EventsAreLatest
<1>4. \A e \in es : e.sequence \in Nat /\ e.payload \in Nat BY <1>1 DEF Rows
<1> HIDE DEF es, n
<1>5. \A e \in es : e.payload \in 1..n /\ n - e.payload < KeepEvents
  <2>1. \A e \in es : e.payload \in {i \in 1..n : n - i < KeepEvents} BY <1>2
  <2> QED BY <2>1
<1>6. \A i \in 1..n : n - i < KeepEvents => \E e \in es : e.payload = i
  <2>1. \A i \in {j \in 1..n : n - j < KeepEvents} : i \in {e.payload : e \in es} BY <1>2
  <2> QED BY <2>1
<1>7. n # 0 => \E e \in es : e.payload = n
  <2>1. n # 0 => n \in 1..n /\ n - n < KeepEvents BY <1>1, KeepAssumption
  <2> QED BY <1>6, <2>1
<1>8. es = {} <=> n = 0 BY <1>1, <1>5, <1>7
<1>9. n # 0 => \E e \in es : e.payload = n /\ NextSequence(es) = 1 + e.sequence
  <2>1. SUFFICES ASSUME n # 0 PROVE \E e \in es : e.payload = n /\ NextSequence(es) = 1 + e.sequence
    OBVIOUS
  <2>2. PICK e \in es : e.payload = n BY <1>7, <2>1
  <2>3. ASSUME NEW o \in es PROVE o.sequence <= e.sequence
    <3>1. o.payload <= e.payload BY <1>1, <1>5, <2>2
    <3>2. e.payload - o.payload = e.sequence - o.sequence BY <1>3
    <3>3. e.sequence \in Nat /\ o.sequence \in Nat /\ e.payload \in Nat /\ o.payload \in Nat BY <1>4
    <3> QED BY <3>1, <3>2, <3>3
  <2>4. PICK f \in es : /\ \A o \in es : o.sequence <= f.sequence
                        /\ NextSequence(es) = 1 + f.sequence
    BY <1>1, <2>2, <2>3, NextSequenceFacts
  <2>5. f.sequence = e.sequence BY <1>4, <2>3, <2>4
  <2> QED BY <2>2, <2>4, <2>5
<1>10. n = 0 => NextSequence(es) = 0 BY <1>8 DEF NextSequence
<1> USE DEF es, n
<1> QED BY <1>3, <1>5, <1>6, <1>8, <1>9, <1>10

LEMMA NextSequenceType ==
    ASSUME TypeOK, EventsAreLatest, NEW r \in Kept
    PROVE  NextSequence(events[r]) \in Nat
<1>1. \A e \in events[r] : e.sequence \in Nat BY DEF TypeOK, Kept
<1>2. r \in Run /\ recorded[r] \in Nat BY DEF TypeOK, Kept
<1> QED BY <1>1, <1>2, LatestEvent

\* The state the repository is left in when an event is recorded.
LEMMA RecordType ==
    ASSUME TypeOK, EventsAreLatest, NEW r \in Run, NEW e \in Finals \cup Others, Record(r, e),
           recorded[r] < MaxEvents, taskOf[r] \in Run \cup {0}
    PROVE  /\ status' \in [Run -> Recorded] /\ events' \in [Run -> SUBSET Rows]
           /\ gone' \subseteq Run /\ recorded' \in [Run -> 0..MaxEvents]
           /\ touched' \subseteq Run
           /\ commit' \in [do : {"nothing", "create", "attach", "sync"}, run : Run \cup {0},
                           task : Run \cup {0}, status : RunStatuses \cup {"absent"}]
<1>1. CASE status[r] = "absent" BY <1>1 DEF Record, TypeOK, Recorded, Rows
<1>2. CASE status[r] # "absent"
  <2> DEFINE s == RecordEvent(status[r], e)
             next == NextSequence(events[r])
             row == [sequence |-> next, payload |-> recorded[r] + 1]
             es == {x \in events[r] \cup {row} : x.sequence >= next - KeepEvents + 1}
             st == [status EXCEPT ![r] = s]
             ev == [events EXCEPT ![r] = es]
  <2>1. status[r] \in Recorded BY DEF TypeOK, Recorded
  <2>2. s \in RunStatuses BY <2>1, RecordFacts
  <2>3. next \in Nat BY <1>2, NextSequenceType DEF Kept
  <2>4. /\ AppendEvent(r, s, recorded[r] + 1)
        /\ recorded' = [recorded EXCEPT ![r] = @ + 1] /\ touched' = touched \cup {r}
        /\ commit' = [do |-> "sync", run |-> r, task |-> taskOf[r], status |-> s]
    BY <1>2 DEF Record
  <2>5. Store(st, ev) BY <2>4 DEF AppendEvent
  <2>6. row \in Rows BY <2>3 DEF Rows, TypeOK
  <2> HIDE DEF s, next, row
  <2>7. st \in [Run -> Recorded] BY <2>2 DEF TypeOK, Recorded
  <2>8. ev \in [Run -> SUBSET Rows] BY <2>6 DEF TypeOK, Rows
  <2> HIDE DEF st, ev
  <2>9. gone \subseteq Run BY DEF TypeOK
  <2>10. /\ status' \in [Run -> Recorded] /\ events' \in [Run -> SUBSET Rows]
         /\ gone' \subseteq Run
    BY <2>5, <2>7, <2>8, <2>9, StoreType
  <2>11. recorded' \in [Run -> 0..MaxEvents] BY <2>4, BoundsAssumption DEF TypeOK
  <2> QED BY <2>2, <2>4, <2>10, <2>11 DEF TypeOK
<1> QED BY <1>1, <1>2

\* The steps that record an event.
LEMMA RecordingStep ==
    ASSUME TypeOK, Emit \/ Launch \/ Act
    PROVE  /\ Free /\ UNCHANGED <<phase, document, imported, taskOf, made, task, cut>>
           /\ \E r \in Run, e \in Finals \cup Others :
                 /\ Record(r, e) /\ recorded[r] < MaxEvents
                 /\ executing' \subseteq executing \cup {r}
                 /\ r \in executing \/ status[r] # "absent"
<1>1. CASE Emit
  <2>1. PICK r \in executing, e \in Finals \cup Steps :
           /\ recorded[r] < MaxEvents /\ Record(r, e) /\ executing' \subseteq executing
    BY <1>1 DEF Emit
  <2>2. r \in Run /\ e \in Finals \cup Others BY DEF TypeOK, Others
  <2> QED BY <1>1, <2>1, <2>2 DEF Emit
<1>2. CASE Launch
  <2>1. StatusEvent("resumed") \in Finals \cup Others BY DEF Others
  <2> QED BY <1>2, <2>1 DEF Launch
<1>3. CASE Act
  <2>1. PICK r \in Kept :
           /\ recorded[r] < MaxEvents /\ executing' \subseteq executing
           /\ \/ Record(r, StatusEvent("paused")) \/ Record(r, StatusEvent("stopped"))
              \/ Record(r, StatusEvent("resumed"))
    BY <1>3 DEF Act
  <2>2. /\ StatusEvent("paused") \in Finals \cup Others
        /\ StatusEvent("stopped") \in Finals \cup Others
        /\ StatusEvent("resumed") \in Finals \cup Others
    BY DEF Others, Finals
  <2>3. r \in Run /\ status[r] # "absent" BY DEF Kept
  <2> QED BY <1>3, <2>1, <2>2, <2>3 DEF Act
<1> QED BY <1>1, <1>2, <1>3

LEMMA TypeInit == Init => TypeOK
<1> SUFFICES ASSUME Init PROVE TypeOK OBVIOUS
<1>1. commit \in [do : {"nothing", "create", "attach", "sync"}, run : Run \cup {0},
                 task : Run \cup {0}, status : RunStatuses \cup {"absent"}]
  BY DEF Init, Nothing
<1>2. recorded \in [Run -> 0..MaxEvents]
  <2>1. \A r \in Legacy : document[r].events \in 0..MaxEvents BY BoundsAssumption DEF Init
  <2> QED BY <2>1, BoundsAssumption DEF Init
<1>3. task \in [Run -> [state : TaskStates \cup {"absent"}, run : Run \cup {0}]] BY DEF Init
<1>4. events \in [Run -> SUBSET [sequence : Nat, payload : Nat]] BY DEF Init
<1>5. made \in Old..MaxRuns BY BoundsAssumption DEF Init
<1> QED BY <1>1, <1>2, <1>3, <1>4, <1>5 DEF Init, TypeOK

LEMMA TypeNext == TypeOK /\ EventsAreLatest /\ CommitInv /\ Next => TypeOK'
<1> SUFFICES ASSUME TypeOK, EventsAreLatest, CommitInv, Next PROVE TypeOK' OBVIOUS
<1>1. \A t \in Run : taskOf[t] \in Run \cup {0} BY DEF TypeOK
<1>2. CASE Import
  <2> DEFINE fresh == {r \in Legacy : Old - r < KeepRuns} \ Kept
             st == [r \in Run |-> IF r \in fresh THEN document[r].status ELSE status[r]]
             ev == [r \in Run |-> IF r \in fresh THEN Imported(document[r].events) ELSE events[r]]
  <2>1. Store(st, ev) BY <1>2 DEF Import
  <2>2. \A r \in Legacy : document[r].status \in Recorded /\ document[r].events \in Nat
    BY BoundsAssumption DEF TypeOK, Recorded, RunStatuses
  <2>3. ASSUME NEW n \in Nat PROVE Imported(n) \in SUBSET Rows
    <3> DEFINE skip == IF n > KeepEvents THEN n - KeepEvents ELSE 0
    <3>1. skip \in Nat BY KeepAssumption
    <3>2. \A i \in skip + 1..n : i - skip - 1 \in Nat /\ i \in Nat BY <3>1
    <3>3. Imported(n) = {[sequence |-> i - skip - 1, payload |-> i] : i \in skip + 1..n}
      BY DEF Imported
    <3> HIDE DEF skip
    <3> QED BY <3>2, <3>3 DEF Rows
  <2>4. fresh \subseteq Legacy OBVIOUS
  <2> HIDE DEF fresh
  <2>5. st \in [Run -> Recorded] BY <2>2, <2>4 DEF TypeOK, Recorded
  <2>6. ev \in [Run -> SUBSET Rows] BY <2>2, <2>3, <2>4 DEF TypeOK, Rows
  <2> HIDE DEF st, ev
  <2>7. gone \subseteq Run BY DEF TypeOK
  <2>8. /\ status' \in [Run -> Recorded] /\ events' \in [Run -> SUBSET Rows]
        /\ gone' \subseteq Run
    BY <2>1, <2>5, <2>6, <2>7, StoreType
  <2> QED BY <1>2, <2>8 DEF Import, TypeOK, Recorded, Rows
<1>3. CASE ImportNothing BY <1>3 DEF ImportNothing, TypeOK, runVars
<1>4. CASE RecoverOneRun
  BY <1>4 DEF RecoverOneRun, TypeOK, RecoverRun, RunStatuses, WasActive
<1>5. CASE RunsRecovered BY <1>5 DEF RunsRecovered, TypeOK, runVars
<1>6. CASE RecoverTasks
  <2>1. \A t \in Run : RecoverTask(task[t].state) \in TaskStates \cup {"absent"}
    BY DEF TypeOK, RecoverTask, TaskStates
  <2> QED BY <1>6, <2>1 DEF RecoverTasks, TypeOK, runVars
<1>7. CASE BeginRun
  <2>1. made + 1 \in Run BY <1>7, BoundsAssumption DEF BeginRun, TypeOK, Run
  <2>2. commit' \in [do : {"nothing", "create", "attach", "sync"}, run : Run \cup {0},
                    task : Run \cup {0}, status : RunStatuses \cup {"absent"}]
    BY <1>7, <2>1 DEF BeginRun, Tasks, RunStatuses
  <2>3. task' \in [Run -> [state : TaskStates \cup {"absent"}, run : Run \cup {0}]]
    BY <1>7 DEF BeginRun, TypeOK, TaskStates
  <2> QED BY <1>7, <2>2, <2>3 DEF BeginRun, TypeOK, runVars
<1>8. CASE CreateRun
  <2> DEFINE st == [status EXCEPT ![commit.run] = commit.status]
  <2>1. Store(st, events) BY <1>8 DEF CreateRun
  <2>2. st \in [Run -> Recorded] /\ events \in [Run -> SUBSET Rows]
    BY DEF TypeOK, Recorded, Rows
  <2> HIDE DEF st
  <2>3. gone \subseteq Run BY DEF TypeOK
  <2>4. /\ status' \in [Run -> Recorded] /\ events' \in [Run -> SUBSET Rows]
        /\ gone' \subseteq Run
    BY <2>1, <2>2, <2>3, StoreType
  <2>5. made' \in Old..MaxRuns BY <1>8, BoundsAssumption DEF CreateRun, TypeOK, CommitInv
  <2>6. taskOf' \in [Run -> Run \cup {0}] BY <1>8 DEF CreateRun, TypeOK
  <2>7. touched' \subseteq Run
    <3>1. commit.run \in Run BY <1>8, BoundsAssumption DEF CreateRun, CommitInv, TypeOK, Run
    <3> QED BY <1>8, <3>1 DEF CreateRun, TypeOK
  <2> QED BY <1>8, <2>4, <2>5, <2>6, <2>7 DEF CreateRun, TypeOK, Recorded, Rows
<1>9. CASE AttachRun
  <2>1. /\ commit.status \in TaskStates /\ commit.task \in Run /\ commit.run \in Run \cup {0}
    BY <1>9 DEF AttachRun, CommitInv, TypeOK, TaskStates, Tasks
  <2>2. commit.run \in Run BY <1>9, BoundsAssumption DEF AttachRun, CommitInv, TypeOK, Run
  <2> QED BY <1>9, <2>1, <2>2 DEF AttachRun, TypeOK, runVars, Nothing
<1>10. CASE Emit \/ Launch \/ Act
  <2>1. PICK r \in Run, e \in Finals \cup Others :
           Record(r, e) /\ recorded[r] < MaxEvents /\ executing' \subseteq executing \cup {r}
    BY <1>10, RecordingStep
  <2>2. UNCHANGED <<phase, document, imported, taskOf, made, task, cut>>
    BY <1>10, RecordingStep
  <2>3. /\ status' \in [Run -> Recorded] /\ events' \in [Run -> SUBSET Rows]
        /\ gone' \subseteq Run /\ recorded' \in [Run -> 0..MaxEvents]
        /\ touched' \subseteq Run
        /\ commit' \in [do : {"nothing", "create", "attach", "sync"}, run : Run \cup {0},
                        task : Run \cup {0}, status : RunStatuses \cup {"absent"}]
    BY <1>1, <2>1, RecordType
  <2> QED BY <2>1, <2>2, <2>3 DEF TypeOK, Recorded, Rows
<1>12. CASE Sync
  <2>1. commit.status \in RunStatuses /\ commit.run \in Run
    BY <1>12 DEF Sync, CommitInv, TypeOK
  <2>2. TaskStateOf(commit.status) \in TaskStates BY <2>1, TaskStateFacts
  <2> QED BY <1>12, <2>1, <2>2 DEF Sync, TypeOK, runVars, Nothing
<1>13. CASE Die BY <1>13 DEF Die, TypeOK, runVars, Nothing
<1> QED BY <1>2, <1>3, <1>4, <1>5, <1>6, <1>7, <1>8, <1>9, <1>10, <1>12, <1>13 DEF Next

-----------------------------------------------------------------------------
(* What the recording of an event changes. *)

LEMMA RecordEffect ==
    ASSUME NEW r \in Run, NEW e, Record(r, e), TypeOK
    PROVE  \/ /\ status[r] = "absent"
              /\ UNCHANGED <<status, events, gone, recorded, commit, touched>>
           \/ /\ status[r] # "absent"
              /\ commit' = [do |-> "sync", run |-> r, task |-> taskOf[r],
                            status |-> RecordEvent(status[r], e)]
              /\ recorded' = [recorded EXCEPT ![r] = @ + 1] /\ touched' = touched \cup {r}
              /\ \A o \in Run : status'[o] \in
                     {IF o = r THEN RecordEvent(status[r], e) ELSE status[o], "absent"}
              /\ Store([status EXCEPT ![r] = RecordEvent(status[r], e)],
                       [events EXCEPT ![r] =
                           {x \in events[r] \cup {[sequence |-> NextSequence(events[r]),
                                                   payload  |-> recorded[r] + 1]} :
                               x.sequence >= NextSequence(events[r]) - KeepEvents + 1}])
<1>1. CASE status[r] = "absent" BY <1>1 DEF Record
<1>2. CASE status[r] # "absent"
  <2> DEFINE st == [status EXCEPT ![r] = RecordEvent(status[r], e)]
             ev == [events EXCEPT ![r] =
                           {x \in events[r] \cup {[sequence |-> NextSequence(events[r]),
                                                   payload  |-> recorded[r] + 1]} :
                               x.sequence >= NextSequence(events[r]) - KeepEvents + 1}]
  <2>1. /\ commit' = [do |-> "sync", run |-> r, task |-> taskOf[r],
                      status |-> RecordEvent(status[r], e)]
        /\ recorded' = [recorded EXCEPT ![r] = @ + 1] /\ touched' = touched \cup {r}
        /\ AppendEvent(r, RecordEvent(status[r], e), recorded[r] + 1)
    BY <1>2 DEF Record
  <2>2. Store(st, ev) BY <2>1 DEF AppendEvent
  <2>3. \A o \in Run : st[o] = IF o = r THEN RecordEvent(status[r], e) ELSE status[o]
    BY DEF TypeOK
  <2> HIDE DEF st, ev
  <2>4. \A o \in Run : status'[o] \in {st[o], "absent"} BY <2>2, StoreFacts DEF Kept
  <2> USE DEF st, ev
  <2> QED BY <1>2, <2>1, <2>2, <2>3, <2>4
<1> QED BY <1>1, <1>2

-----------------------------------------------------------------------------
(* The runs kept are the newest. *)

LEMMA NewestInit == Init => KeptAreNewest
<1> SUFFICES ASSUME Init PROVE KeptAreNewest OBVIOUS
<1>1. Kept = {} BY DEF Init, Kept
<1> QED BY <1>1, FS_EmptySet, KeepAssumption DEF Init, KeptAreNewest

LEMMA NewestSame ==
    ASSUME KeptAreNewest, Kept' = Kept, gone' = gone
    PROVE  KeptAreNewest'
<1>1. Cardinality(Kept') <= KeepRuns BY DEF KeptAreNewest
<1>2. gone' # {} => Cardinality(Kept') = KeepRuns BY DEF KeptAreNewest
<1>3. \A r \in Kept', g \in gone' : g < r BY DEF KeptAreNewest
<1> QED BY <1>1, <1>2, <1>3 DEF KeptAreNewest

LEMMA NewestRecord ==
    ASSUME TypeOK, KeptAreNewest, NEW r \in Run, NEW e \in Finals \cup Others, Record(r, e)
    PROVE  KeptAreNewest'
<1>1. CASE status[r] = "absent"
  <2>1. UNCHANGED <<status, gone>> BY <1>1 DEF Record
  <2> QED BY <2>1, NewestSame DEF Kept
<1>2. CASE status[r] # "absent"
  <2> DEFINE st == [status EXCEPT ![r] = RecordEvent(status[r], e)]
  <2>1. AppendEvent(r, RecordEvent(status[r], e), recorded[r] + 1) BY <1>2 DEF Record
  <2>2. PICK ev : Store(st, ev) BY <2>1 DEF AppendEvent
  <2>3. RecordEvent(status[r], e) \in RunStatuses
    BY RecordFacts DEF TypeOK, Recorded
  <2>4. \A o \in Run : st[o] # "absent" <=> o \in Kept
    BY <1>2, <2>3 DEF TypeOK, Kept, RunStatuses
  <2>5. Kept \subseteq Run /\ gone \subseteq Run BY DEF Kept, TypeOK
  <2> HIDE DEF st
  <2> QED BY <2>2, <2>4, <2>5, StoreKeepsNewest
<1> QED BY <1>1, <1>2

LEMMA NewestNext == TypeOK /\ RowsInv /\ CommitInv /\ KeptAreNewest /\ Next => KeptAreNewest'
<1> SUFFICES ASSUME TypeOK, RowsInv, CommitInv, KeptAreNewest, Next PROVE KeptAreNewest'
  OBVIOUS
<1>0. Kept \subseteq Run /\ gone \subseteq Run BY DEF Kept, TypeOK
<1>1. CASE Import
  <2> DEFINE fresh == {r \in Legacy : Old - r < KeepRuns} \ Kept
             st == [r \in Run |-> IF r \in fresh THEN document[r].status ELSE status[r]]
  <2>1. PICK ev : Store(st, ev) BY <1>1 DEF Import
  <2>2. \A r \in Legacy : document[r].status # "absent" BY DEF TypeOK
  <2>3. \A r \in Kept : st[r] # "absent" BY <1>0, <2>2 DEF Kept
  <2>4. ASSUME NEW r \in Run \ Kept, st[r] # "absent" PROVE \A k \in Kept : r < k
    <3>1. r \in Legacy BY <2>4 DEF Kept
    <3>2. ~imported BY <1>1 DEF Import
    <3>3. \A k \in Kept : k \notin Legacy BY <3>2 DEF RowsInv, Kept
    <3> QED BY <1>0, <3>1, <3>3, BoundsAssumption DEF Legacy, Run
  <2> HIDE DEF st
  <2> QED BY <1>0, <2>1, <2>3, <2>4, StoreKeepsNewest
<1>2. CASE CreateRun
  <2> DEFINE st == [status EXCEPT ![commit.run] = commit.status]
  <2>1. Store(st, events) BY <1>2 DEF CreateRun
  <2>2. commit.run = made + 1 /\ made < MaxRuns /\ commit.status \in {"running", "created"}
    BY <1>2 DEF CreateRun, CommitInv
  <2>3. commit.run \in Run BY <2>2, BoundsAssumption DEF TypeOK, Run
  <2>4. \A r \in Kept : st[r] # "absent" BY <1>0, <2>2, <2>3 DEF Kept, TypeOK
  <2>5. ASSUME NEW r \in Run \ Kept, st[r] # "absent" PROVE \A g \in gone : g < r
    <3>1. r = made + 1 BY <2>2, <2>3, <2>5 DEF Kept, TypeOK
    <3>2. \A g \in gone : ~(g > made) BY <1>0 DEF RowsInv
    <3> QED BY <1>0, <3>1, <3>2, BoundsAssumption DEF TypeOK, Run
  <2> HIDE DEF st
  <2> QED BY <1>0, <2>1, <2>4, <2>5, StoreKeepsNewest
<1>3. CASE Emit \/ Launch \/ Act
  <2>1. PICK r \in Run, e \in Finals \cup Others : Record(r, e) BY <1>3, RecordingStep
  <2> QED BY <2>1, NewestRecord
<1>5. CASE RecoverOneRun
  <2>1. PICK r \in Run : WasActive(r) /\ status' = [status EXCEPT ![r] = RecoverRun(@)]
    BY <1>5 DEF RecoverOneRun
  <2>2. status'[r] # "absent" /\ status[r] # "absent"
    BY <2>1 DEF WasActive, RecoverRun, TypeOK, ActiveStatuses
  <2>3. Kept' = Kept BY <2>1, <2>2 DEF Kept, TypeOK
  <2>4. gone' = gone BY <1>5 DEF RecoverOneRun
  <2> QED BY <2>3, <2>4, NewestSame
<1>6. CASE UNCHANGED runVars
  BY <1>6, NewestSame DEF runVars, Kept
<1> QED BY <1>1, <1>2, <1>3, <1>5, <1>6
        DEF Next, ImportNothing, RunsRecovered, RecoverTasks, BeginRun, AttachRun, Sync, Die

-----------------------------------------------------------------------------
(* Rows, commits and links. *)

LEMMA StructureInit == Init => RowsInv /\ CommitInv /\ LinkInv
<1> SUFFICES ASSUME Init PROVE RowsInv /\ CommitInv /\ LinkInv OBVIOUS
<1>1. RowsInv BY BoundsAssumption DEF Init, RowsInv, Run, Legacy
<1>2. CommitInv BY DEF Init, CommitInv, Nothing
<1>3. LinkInv BY DEF Init, LinkInv
<1> QED BY <1>1, <1>2, <1>3

\* A transaction that makes no run beyond those created leaves the others as they were.
LEMMA RowsStore ==
    ASSUME TypeOK, RowsInv, NEW st, NEW ev, Store(st, ev), made' \in Old..MaxRuns, made <= made',
           \A r \in Run : r > made' => st[r] = "absent" /\ recorded'[r] = 0 /\ r \notin executing',
           ~imported' => /\ \A r \in Legacy : st[r] = "absent" /\ recorded'[r] = recorded[r]
                         /\ ~imported /\ document' = document
    PROVE  RowsInv'
<1>1. \A r \in Run : st[r] = "absent" => r \notin Kept'
  BY StoreFacts
<1>2. \A r \in Run : r \notin Kept' => status'[r] = "absent" /\ events'[r] = {}
  BY StoreFacts
<1>3. \A r \in Run : r \in gone' => r \in gone \/ st[r] # "absent"
  <2>1. gone' = gone \cup ({r \in Run : st[r] # "absent"} \ Kept') BY StoreFacts
  <2> QED BY <2>1
<1>4. ASSUME NEW r \in Run, r > made'
      PROVE  /\ status'[r] = "absent" /\ events'[r] = {} /\ recorded'[r] = 0
             /\ r \notin gone' /\ r \notin executing'
  <2>1. r > made BY <1>4, BoundsAssumption DEF TypeOK, Run
  <2> QED BY <1>1, <1>2, <1>3, <1>4, <2>1 DEF RowsInv
<1>5. ASSUME ~imported', NEW r \in Legacy
      PROVE  status'[r] = "absent" /\ r \notin gone' /\ recorded'[r] = document'[r].events
  <2>1. r \in Run BY BoundsAssumption DEF Legacy, Run
  <2> QED BY <1>1, <1>2, <1>3, <1>5, <2>1 DEF RowsInv
<1> QED BY <1>4, <1>5 DEF RowsInv

LEMMA RowsRecord ==
    ASSUME TypeOK, RowsInv, NEW r \in Run, r <= made, NEW e, Record(r, e), made' = made,
           executing' \subseteq executing \cup {r}, UNCHANGED <<document, imported>>
    PROVE  RowsInv'
<1>1. \A o \in Run : o > made => o \notin executing' BY BoundsAssumption DEF RowsInv, TypeOK, Run
<1>2. CASE status[r] = "absent" BY <1>1, <1>2 DEF Record, RowsInv
<1>3. CASE status[r] # "absent"
  <2> DEFINE st == [status EXCEPT ![r] = RecordEvent(status[r], e)]
  <2>1. PICK ev : Store(st, ev) BY <1>3 DEF Record, AppendEvent
  <2>2. recorded' = [recorded EXCEPT ![r] = @ + 1] BY <1>3 DEF Record
  <2>3. \A o \in Run : o # r => st[o] = status[o] /\ recorded'[o] = recorded[o]
    BY <2>2 DEF TypeOK
  <2> HIDE DEF st
  <2>4. ASSUME NEW o \in Run, o > made
        PROVE  st[o] = "absent" /\ recorded'[o] = 0 /\ o \notin executing'
    <3>1. o # r BY <2>4, BoundsAssumption DEF TypeOK, Run
    <3> QED BY <1>1, <2>3, <2>4, <3>1 DEF RowsInv
  <2>5. ASSUME ~imported, NEW o \in Legacy PROVE st[o] = "absent" /\ recorded'[o] = recorded[o]
    <3>1. o # r /\ o \in Run BY <1>3, <2>5, BoundsAssumption DEF RowsInv, Legacy, Run
    <3> QED BY <2>3, <2>5, <3>1 DEF RowsInv
  <2>6. made' \in Old..MaxRuns /\ made <= made' BY BoundsAssumption DEF TypeOK
  <2> QED BY <2>1, <2>4, <2>5, <2>6, RowsStore
<1> QED BY <1>2, <1>3

LEMMA RowsNext == TypeOK /\ RowsInv /\ CommitInv /\ Next => RowsInv'
<1> SUFFICES ASSUME TypeOK, RowsInv, CommitInv, Next PROVE RowsInv' OBVIOUS
<1>1. CASE Import
  <2> DEFINE fresh == {r \in Legacy : Old - r < KeepRuns} \ Kept
             st == [r \in Run |-> IF r \in fresh THEN document[r].status ELSE status[r]]
  <2>1. PICK ev : Store(st, ev) BY <1>1 DEF Import
  <2>2. \A r \in Run : r > made => r \notin Legacy BY BoundsAssumption DEF TypeOK, Legacy, Run
  <2>3. \A r \in Run : r > made => st[r] = "absent" BY <2>2 DEF RowsInv
  <2> HIDE DEF st
  <2>4. imported' /\ UNCHANGED <<made, executing, recorded>> BY <1>1 DEF Import
  <2>5. made' \in Old..MaxRuns /\ made <= made' BY <2>4, BoundsAssumption DEF TypeOK
  <2>6. \A r \in Run : r > made' => st[r] = "absent" /\ recorded'[r] = 0 /\ r \notin executing'
    BY <2>3, <2>4 DEF RowsInv
  <2> QED BY <2>1, <2>4, <2>5, <2>6, RowsStore
<1>2. CASE CreateRun
  <2> DEFINE st == [status EXCEPT ![commit.run] = commit.status]
  <2>1. Store(st, events) BY <1>2 DEF CreateRun
  <2>2. commit.run = made + 1 /\ made < MaxRuns BY <1>2 DEF CreateRun, CommitInv
  <2>3. made' = made + 1 /\ UNCHANGED <<document, imported, executing, recorded>>
    BY <1>2 DEF CreateRun
  <2>4. made' \in Old..MaxRuns /\ made <= made' BY <2>2, <2>3, BoundsAssumption DEF TypeOK
  <2>5. \A r \in Run : r # made + 1 => st[r] = status[r] BY <2>2 DEF TypeOK
  <2> HIDE DEF st
  <2>6. ASSUME NEW r \in Run, r > made'
        PROVE  st[r] = "absent" /\ recorded'[r] = 0 /\ r \notin executing'
    <3>1. r > made /\ r # made + 1 BY <2>3, <2>6, BoundsAssumption DEF TypeOK, Run
    <3> QED BY <2>3, <2>5, <3>1 DEF RowsInv
  <2>7. ASSUME ~imported', NEW r \in Legacy PROVE st[r] = "absent"
    <3>1. r # made + 1 /\ r \in Run BY BoundsAssumption DEF TypeOK, Legacy, Run
    <3> QED BY <2>3, <2>5, <2>7, <3>1 DEF RowsInv
  <2> QED BY <2>1, <2>3, <2>4, <2>6, <2>7, RowsStore
<1>3. CASE Emit \/ Launch \/ Act
  <2>1. PICK r \in Run, e \in Finals \cup Others :
           /\ Record(r, e) /\ executing' \subseteq executing \cup {r}
           /\ r \in executing \/ status[r] # "absent"
    BY <1>3, RecordingStep
  <2>2. UNCHANGED <<made, document, imported>> BY <1>3, RecordingStep
  <2>3. r <= made BY <2>1, BoundsAssumption DEF TypeOK, RowsInv, Run
  <2> QED BY <2>1, <2>2, <2>3, RowsRecord
<1>5. CASE RecoverOneRun
  <2>1. PICK r \in Run : WasActive(r) /\ status' = [status EXCEPT ![r] = RecoverRun(@)]
    BY <1>5 DEF RecoverOneRun
  <2>2. status[r] # "absent" BY <2>1 DEF WasActive, ActiveStatuses
  <2>3. \A o \in Run : status[o] = "absent" => status'[o] = "absent" BY <2>1, <2>2 DEF TypeOK
  <2>4. Legacy \subseteq Run BY BoundsAssumption DEF Legacy, Run
  <2> QED BY <1>5, <2>3, <2>4 DEF RecoverOneRun, RowsInv
<1>6. CASE UNCHANGED <<runVars, document, imported>> /\ executing' \subseteq executing
  BY <1>6 DEF RowsInv, runVars
<1>7. CASE AttachRun
  <2>1. commit.run = made /\ executing' \subseteq executing \cup {commit.run}
        /\ UNCHANGED <<runVars, document, imported>>
    BY <1>7 DEF AttachRun, CommitInv
  <2>2. \A r \in Run : r > made => r \notin executing'
    BY <2>1, BoundsAssumption DEF TypeOK, RowsInv, Run
  <2> QED BY <2>1, <2>2 DEF RowsInv, runVars
<1> QED BY <1>1, <1>2, <1>3, <1>5, <1>6, <1>7
        DEF Next, ImportNothing, RunsRecovered, RecoverTasks, BeginRun, Sync, Die

LEMMA CommitRecord ==
    ASSUME TypeOK, CommitInv, NEW r \in Run, NEW e \in Finals \cup Others, Record(r, e), Free,
           UNCHANGED <<phase, taskOf, made, task>>
    PROVE  CommitInv'
<1>1. CASE status[r] = "absent"
  <2>1. commit' = commit /\ commit = Nothing BY <1>1 DEF Record, Free
  <2> QED BY <2>1 DEF CommitInv, Free, Nothing
<1>2. CASE status[r] # "absent"
  <2>1. commit' = [do |-> "sync", run |-> r, task |-> taskOf[r],
                   status |-> RecordEvent(status[r], e)] /\ touched' = touched \cup {r}
    BY <1>2 DEF Record
  <2>2. RecordEvent(status[r], e) # "absent"
    BY RecordFacts DEF TypeOK, Recorded, RunStatuses
  <2>3. status'[r] \in {RecordEvent(status[r], e), "absent"} BY <1>2, RecordEffect
  <2> QED BY <2>1, <2>2, <2>3 DEF CommitInv, Free
<1> QED BY <1>1, <1>2

LEMMA CommitNext == TypeOK /\ CommitInv /\ Next => CommitInv'
<1> SUFFICES ASSUME TypeOK, CommitInv, Next PROVE CommitInv' OBVIOUS
<1>1. CASE commit' = Nothing /\ (phase' = "up" \/ executing' = {})
  BY <1>1 DEF CommitInv, Nothing
<1>2. CASE phase # "up" /\ UNCHANGED <<commit, executing>>
  <2>1. commit' = Nothing /\ executing' = {} BY <1>2 DEF CommitInv
  <2> QED BY <1>1, <2>1
<1>3. CASE BeginRun
  <2>1. /\ commit'.do = "create" /\ commit'.run = made + 1 /\ made < MaxRuns
        /\ commit'.status \in {"running", "created"} /\ commit'.task \in Run
        /\ task'[commit'.task].state # "absent" /\ phase' = "up" /\ made' = made
    <3>1. made + 1 \in Run BY <1>3, BoundsAssumption DEF BeginRun, TypeOK, Run
    <3> QED BY <1>3, <3>1 DEF BeginRun, Free, Tasks, TypeOK, runVars
  <2> QED BY <2>1 DEF CommitInv, Tasks
<1>4. CASE CreateRun
  <2> DEFINE st == [status EXCEPT ![commit.run] = commit.status]
  <2>1. Store(st, events) BY <1>4 DEF CreateRun
  <2>2. commit.do = "create" /\ commit.run = made + 1 /\ made < MaxRuns /\ commit.task \in Tasks
        /\ commit.status \in {"running", "created"}
    BY <1>4 DEF CreateRun, CommitInv
  <2>3. phase = "up" BY <2>2 DEF CommitInv, Nothing
  <2>4. commit.run \in Run /\ Old < made + 1 BY <2>2, BoundsAssumption DEF TypeOK, Run
  <2>5. /\ commit' = [commit EXCEPT !.do = "attach"] /\ made' = made + 1
        /\ taskOf' = [taskOf EXCEPT ![commit.run] = commit.task] /\ UNCHANGED <<phase, task>>
        /\ touched' = touched \cup {commit.run}
    BY <1>4 DEF CreateRun
  <2>6. st[commit.run] = commit.status BY <2>4 DEF TypeOK
  <2> HIDE DEF st
  <2>7. status'[commit.run] \in {commit.status, "absent"} BY <2>1, <2>4, <2>6, StoreFacts DEF Kept
  <2>8. /\ commit'.do = "attach" /\ commit'.run = commit.run /\ commit'.task = commit.task
        /\ commit'.status = commit.status
    BY <2>5 DEF TypeOK
  <2>9. taskOf'[commit.run] = commit.task BY <2>4, <2>5 DEF TypeOK
  <2>10. Tasks' = Tasks BY <2>5 DEF Tasks
  <2> QED BY <2>2, <2>3, <2>4, <2>5, <2>7, <2>8, <2>9, <2>10 DEF CommitInv
<1>5. CASE AttachRun
  BY <1>1, <1>5 DEF AttachRun, CommitInv, Nothing
<1>6. CASE Emit \/ Launch \/ Act
  <2>1. PICK r \in Run, e \in Finals \cup Others : Record(r, e) BY <1>6, RecordingStep
  <2>2. Free /\ UNCHANGED <<phase, taskOf, made, task>> BY <1>6, RecordingStep
  <2> QED BY <2>1, <2>2, CommitRecord
<1>8. CASE Sync
  BY <1>1, <1>8 DEF Sync, CommitInv, Nothing
<1>9. CASE Die BY <1>1, <1>9 DEF Die
<1> QED BY <1>2, <1>3, <1>4, <1>5, <1>6, <1>8, <1>9
        DEF Next, Import, ImportNothing, RecoverOneRun, RunsRecovered, RecoverTasks

LEMMA LinkNext == TypeOK /\ CommitInv /\ LinkInv /\ Next => LinkInv'
<1> SUFFICES ASSUME TypeOK, CommitInv, LinkInv, Next PROVE LinkInv' OBVIOUS
<1>1. CASE UNCHANGED <<taskOf, task, made>> BY <1>1 DEF LinkInv
<1>2. CASE RecoverTasks
  <2>1. \A t \in Run : task'[t].run = task[t].run BY <1>2 DEF RecoverTasks
  <2> QED BY <1>2, <2>1 DEF RecoverTasks, LinkInv, runVars
<1>3. CASE BeginRun
  <2>1. \A t \in Run : task'[t].run \in {task[t].run, 0} BY <1>3 DEF BeginRun, TypeOK
  <2> QED BY <1>3, <2>1 DEF BeginRun, LinkInv, runVars
<1>4. CASE CreateRun
  <2>1. commit.run = made + 1 /\ made < MaxRuns BY <1>4 DEF CreateRun, CommitInv
  <2>2. commit.run \in Run /\ Old < made + 1 BY <2>1, BoundsAssumption DEF TypeOK, Run
  <2>3. made' = made + 1 /\ task' = task
        /\ taskOf' = [taskOf EXCEPT ![commit.run] = commit.task]
    BY <1>4 DEF CreateRun
  <2>4. ASSUME NEW r \in Run, taskOf'[r] # 0 PROVE Old < r /\ r <= made'
    <3>1. CASE r = commit.run BY <2>1, <2>2, <2>3, <3>1, BoundsAssumption DEF TypeOK
    <3>2. CASE r # commit.run
      <4>1. taskOf[r] # 0 BY <2>3, <2>4, <3>2 DEF TypeOK
      <4> QED BY <2>3, <4>1, BoundsAssumption DEF LinkInv, TypeOK, Run
    <3> QED BY <3>1, <3>2
  <2>5. ASSUME NEW t \in Run, task[t].run # 0
        PROVE  Old < task[t].run /\ task[t].run <= made' /\ taskOf'[task[t].run] = t
    <3>1. Old < task[t].run /\ task[t].run <= made /\ taskOf[task[t].run] = t
      BY <2>5 DEF LinkInv
    <3>2. task[t].run \in Run BY <2>5 DEF TypeOK
    <3>3. made \in Nat /\ task[t].run \in Nat BY <3>2, BoundsAssumption DEF TypeOK, Run
    <3>4. task[t].run # commit.run BY <2>1, <3>1, <3>3
    <3> QED BY <2>3, <3>1, <3>2, <3>3, <3>4 DEF TypeOK
  <2> QED BY <2>3, <2>4, <2>5 DEF LinkInv
<1>5. CASE AttachRun
  <2>1. commit.run = made /\ Old < made /\ commit.task = taskOf[commit.run]
    BY <1>5 DEF AttachRun, CommitInv
  <2>2. commit.task \in Run BY <1>5 DEF AttachRun, CommitInv, Tasks
  <2>3. \A t \in Run : task'[t].run = IF t = commit.task THEN commit.run ELSE task[t].run
    BY <1>5, <2>2 DEF AttachRun, TypeOK
  <2>4. UNCHANGED <<taskOf, made>> BY <1>5 DEF AttachRun, runVars
  <2> QED BY <2>1, <2>3, <2>4, BoundsAssumption DEF LinkInv, TypeOK
<1>6. CASE Sync
  <2>1. commit.run \in Run /\ commit.task = taskOf[commit.run] BY <1>6 DEF Sync, CommitInv
  <2>2. UNCHANGED <<taskOf, made>> BY <1>6 DEF Sync, runVars
  <2>3. CASE commit.task \in Tasks
    <3>1. commit.task # 0 BY <2>3, BoundsAssumption DEF Tasks, Run
    <3>2. Old < commit.run /\ commit.run <= made BY <2>1, <3>1 DEF LinkInv
    <3>3. \A t \in Run : task'[t].run = IF t = commit.task THEN commit.run ELSE task[t].run
      BY <1>6, <2>3 DEF Sync, TypeOK
    <3> QED BY <2>1, <2>2, <3>2, <3>3 DEF LinkInv
  <2>4. CASE commit.task \notin Tasks BY <1>1, <1>6, <2>2, <2>4 DEF Sync
  <2> QED BY <2>3, <2>4
<1> QED BY <1>1, <1>2, <1>3, <1>4, <1>5, <1>6
        DEF Next, Import, ImportNothing, RunsRecovered, RecoverOneRun, Emit, Launch, Act, Die, runVars

-----------------------------------------------------------------------------
(* The events kept are the latest. *)

LatestOf(es, n) ==
    /\ {e.payload : e \in es} = {i \in 1..n : n - i < KeepEvents}
    /\ \A e, f \in es : e.payload - f.payload = e.sequence - f.sequence

LEMMA LatestOfKept == EventsAreLatest <=> \A r \in Kept : LatestOf(events[r], recorded[r])
BY DEF EventsAreLatest, LatestOf

LEMMA LatestOfIntro ==
    ASSUME NEW es, NEW n \in Nat,
           \A e \in es : e.payload \in 1..n /\ n - e.payload < KeepEvents,
           \A i \in 1..n : n - i < KeepEvents => \E e \in es : e.payload = i,
           \A e, f \in es : e.payload - f.payload = e.sequence - f.sequence
    PROVE  LatestOf(es, n)
<1>1. {e.payload : e \in es} = {i \in 1..n : n - i < KeepEvents}
  <2>1. ASSUME NEW i \in {e.payload : e \in es}
        PROVE  i \in {j \in 1..n : n - j < KeepEvents}
    OBVIOUS
  <2>2. ASSUME NEW i \in {j \in 1..n : n - j < KeepEvents}
        PROVE  i \in {e.payload : e \in es}
    <3>1. i \in 1..n /\ n - i < KeepEvents BY <2>2
    <3> QED BY <3>1
  <2> QED BY <2>1, <2>2
<1> QED BY <1>1 DEF LatestOf

\* An append numbers the event after the last one and cuts off what has become too old.
LEMMA AppendLatest ==
    ASSUME TypeOK, EventsAreLatest, NEW r \in Kept
    PROVE  LatestOf({x \in events[r] \cup {[sequence |-> NextSequence(events[r]),
                                            payload  |-> recorded[r] + 1]} :
                        x.sequence >= NextSequence(events[r]) - KeepEvents + 1},
                    recorded[r] + 1)
<1> DEFINE es == events[r]
           n == recorded[r]
           next == NextSequence(es)
           row == [sequence |-> next, payload |-> n + 1]
           all == es \cup {row}
           new == {x \in all : x.sequence >= next - KeepEvents + 1}
<1>1. r \in Run /\ n \in Nat /\ es \in SUBSET Rows /\ next \in Nat
  BY NextSequenceType DEF Kept, TypeOK, Rows
<1>2. \A x \in all : x.sequence \in Nat /\ x.payload \in Nat BY <1>1 DEF Rows
<1>3. /\ \A e \in es : e.payload \in 1..n
      /\ \A i \in 1..n : n - i < KeepEvents => \E e \in es : e.payload = i
      /\ \A e, f \in es : e.payload - f.payload = e.sequence - f.sequence
      /\ n # 0 => \E e \in es : e.payload = n /\ next = 1 + e.sequence
  BY LatestEvent
<1>4. row.sequence = next /\ row.payload = n + 1 OBVIOUS
<1> HIDE DEF es, n, next, row
<1>5. ASSUME NEW x \in all PROVE next - x.sequence = n + 1 - x.payload
  <2>1. CASE x = row BY <1>1, <1>4, <2>1
  <2>2. CASE x \in es
    <3>1. n # 0 BY <1>1, <1>3, <2>2
    <3>2. PICK e \in es : e.payload = n /\ next = 1 + e.sequence BY <1>3, <3>1
    <3>3. e.payload - x.payload = e.sequence - x.sequence BY <1>3, <2>2
    <3>4. /\ e.sequence \in Nat /\ e.payload \in Nat
          /\ x.sequence \in Nat /\ x.payload \in Nat
      BY <1>2
    <3> HIDE DEF all, new
    <3> QED BY <1>1, <3>2, <3>3, <3>4
  <2> QED BY <2>1, <2>2
<1>6. \A x \in all : x.payload \in 1..n + 1 BY <1>1, <1>3, <1>4
<1>7. \A x \in new : x \in all /\ x.sequence >= next - KeepEvents + 1 OBVIOUS
<1>8. \A x \in all : x.sequence >= next - KeepEvents + 1 => x \in new OBVIOUS
<1>9. \A i \in 1..n + 1 : n + 1 - i < KeepEvents => \E x \in all : x.payload = i
  <2>1. row \in all OBVIOUS
  <2>2. ASSUME NEW i \in 1..n + 1, n + 1 - i < KeepEvents PROVE \E x \in all : x.payload = i
    <3>1. CASE i = n + 1 BY <1>4, <2>1, <3>1
    <3>2. CASE i # n + 1
      <4>1. i \in 1..n /\ n - i < KeepEvents BY <1>1, <2>2, <3>2, KeepAssumption
      <4> QED BY <1>3, <4>1
    <3> QED BY <3>1, <3>2
  <2> QED BY <2>2
<1> HIDE DEF all, new
<1>10. \A x \in new : n + 1 - x.payload < KeepEvents
  BY <1>1, <1>2, <1>5, <1>7, KeepAssumption
<1>11. \A i \in 1..n + 1 : n + 1 - i < KeepEvents => \E x \in new : x.payload = i
  <2>1. ASSUME NEW x \in all, n + 1 - x.payload < KeepEvents PROVE x \in new
    <3>1. next - x.sequence < KeepEvents BY <1>5, <2>1
    <3>2. x.sequence >= next - KeepEvents + 1 BY <1>1, <1>2, <3>1, KeepAssumption
    <3> QED BY <1>8, <3>2
  <2>2. ASSUME NEW i \in 1..n + 1, n + 1 - i < KeepEvents PROVE \E x \in new : x.payload = i
    <3>1. PICK x \in all : x.payload = i BY <1>9, <2>2
    <3>2. x \in new BY <2>1, <2>2, <3>1
    <3> QED BY <3>1, <3>2
  <2> QED BY <2>2
<1>12. \A x \in new : x.payload \in 1..n + 1 BY <1>6, <1>7
<1>13. \A e, f \in new : e.payload - f.payload = e.sequence - f.sequence
  <2>1. ASSUME NEW e \in new, NEW f \in new PROVE e.payload - f.payload = e.sequence - f.sequence
    <3>1. next - e.sequence = n + 1 - e.payload /\ next - f.sequence = n + 1 - f.payload
      BY <1>5, <1>7
    <3>2. /\ e.sequence \in Nat /\ e.payload \in Nat
          /\ f.sequence \in Nat /\ f.payload \in Nat
      BY <1>2, <1>7
    <3> QED BY <1>1, <3>1, <3>2
  <2> QED BY <2>1
<1>14. LatestOf(new, n + 1) BY <1>1, <1>10, <1>11, <1>12, <1>13, LatestOfIntro
<1> QED BY <1>14 DEF new, all, row, next, es, n

LEMMA ImportedLatest ==
    ASSUME NEW n \in Nat
    PROVE  LatestOf(Imported(n), n)
<1> DEFINE skip == IF n > KeepEvents THEN n - KeepEvents ELSE 0
           es == {[sequence |-> i - skip - 1, payload |-> i] : i \in skip + 1..n}
<1>1. Imported(n) = es BY DEF Imported
<1>2. skip \in Nat /\ \A i \in 1..n : i >= skip + 1 <=> n - i < KeepEvents BY KeepAssumption
<1> HIDE DEF skip
<1>3. \A e \in es : \E i \in skip + 1..n : e.sequence = i - skip - 1 /\ e.payload = i OBVIOUS
<1>4. \A i \in skip + 1..n : \E e \in es : e.payload = i
  <2>1. ASSUME NEW i \in skip + 1..n PROVE \E e \in es : e.payload = i
    <3>1. [sequence |-> i - skip - 1, payload |-> i] \in es OBVIOUS
    <3> QED BY <3>1
  <2> QED BY <2>1
<1> HIDE DEF es
<1>5. /\ \A e \in es : e.payload \in 1..n /\ n - e.payload < KeepEvents
      /\ \A i \in 1..n : n - i < KeepEvents => \E e \in es : e.payload = i
  <2>1. \A i \in skip + 1..n : i \in 1..n /\ i >= skip + 1 BY <1>2
  <2>2. \A i \in 1..n : n - i < KeepEvents => i \in skip + 1..n BY <1>2
  <2> QED BY <1>2, <1>3, <1>4, <2>1, <2>2
<1>6. ASSUME NEW e \in es, NEW f \in es PROVE e.payload - f.payload = e.sequence - f.sequence
  <2>1. PICK i \in skip + 1..n : e.sequence = i - skip - 1 /\ e.payload = i BY <1>3
  <2>2. PICK j \in skip + 1..n : f.sequence = j - skip - 1 /\ f.payload = j BY <1>3
  <2> QED BY <1>2, <2>1, <2>2
<1> QED BY <1>1, <1>5, <1>6, LatestOfIntro

LEMMA EventsInit == Init => EventsAreLatest
BY DEF Init, EventsAreLatest, Kept

LEMMA EventsRecord ==
    ASSUME TypeOK, EventsAreLatest, NEW r \in Run, NEW e, Record(r, e)
    PROVE  \A o \in Kept' : LatestOf(events'[o], recorded'[o])
<1>1. CASE status[r] = "absent"
  <2>1. UNCHANGED <<status, events, recorded>> BY <1>1 DEF Record
  <2>2. Kept' = Kept BY <2>1 DEF Kept
  <2> QED BY <2>1, <2>2, LatestOfKept
<1>2. CASE status[r] # "absent"
  <2> DEFINE st == [status EXCEPT ![r] = RecordEvent(status[r], e)]
             es == {x \in events[r] \cup {[sequence |-> NextSequence(events[r]),
                                           payload  |-> recorded[r] + 1]} :
                       x.sequence >= NextSequence(events[r]) - KeepEvents + 1}
             ev == [events EXCEPT ![r] = es]
  <2>1. Store(st, ev) /\ recorded' = [recorded EXCEPT ![r] = @ + 1] BY <1>2, RecordEffect
  <2>2. LatestOf(es, recorded[r] + 1) BY <1>2, AppendLatest DEF Kept
  <2> HIDE DEF es
  <2>3. ev[r] = es /\ \A o \in Run : o # r => ev[o] = events[o] /\ st[o] = status[o]
    BY DEF TypeOK
  <2>4. recorded'[r] = recorded[r] + 1 /\ \A o \in Run : o # r => recorded'[o] = recorded[o]
    BY <2>1 DEF TypeOK
  <2> HIDE DEF st, ev
  <2>5. \A o \in Kept' : o \in Run /\ st[o] # "absent" /\ events'[o] = ev[o]
    BY <2>1, StoreFacts DEF Kept
  <2>6. ASSUME NEW o \in Kept' PROVE LatestOf(events'[o], recorded'[o])
    <3>1. CASE o = r BY <2>2, <2>3, <2>4, <2>5, <3>1
    <3>2. CASE o # r
      <4>1. o \in Kept BY <2>3, <2>5, <3>2 DEF Kept
      <4>2. events'[o] = events[o] /\ recorded'[o] = recorded[o] BY <2>3, <2>4, <2>5, <3>2
      <4> QED BY <4>1, <4>2, LatestOfKept
    <3> QED BY <3>1, <3>2
  <2> QED BY <2>6
<1> QED BY <1>1, <1>2

LEMMA EventsNext == TypeOK /\ RowsInv /\ CommitInv /\ EventsAreLatest /\ Next => EventsAreLatest'
<1> SUFFICES ASSUME TypeOK, RowsInv, CommitInv, EventsAreLatest, Next
             PROVE  \A r \in Kept' : LatestOf(events'[r], recorded'[r])
  BY DEF EventsAreLatest, LatestOf
<1>1. CASE Import
  <2> DEFINE fresh == {r \in Legacy : Old - r < KeepRuns} \ Kept
             st == [r \in Run |-> IF r \in fresh THEN document[r].status ELSE status[r]]
             ev == [r \in Run |-> IF r \in fresh THEN Imported(document[r].events) ELSE events[r]]
  <2>1. Store(st, ev) /\ recorded' = recorded BY <1>1 DEF Import
  <2>2. \A r \in Run : r \in fresh => ev[r] = Imported(document[r].events) OBVIOUS
  <2>3. \A r \in Run : r \notin fresh => ev[r] = events[r] /\ st[r] = status[r] OBVIOUS
  <2>4. \A r \in Legacy : recorded[r] = document[r].events /\ document[r].events \in Nat
    BY <1>1, BoundsAssumption DEF Import, RowsInv, TypeOK
  <2>5. fresh \subseteq Legacy OBVIOUS
  <2> HIDE DEF fresh, st, ev
  <2>6. \A r \in Kept' : r \in Run /\ st[r] # "absent" /\ events'[r] = ev[r]
    BY <2>1, StoreFacts DEF Kept
  <2>7. ASSUME NEW r \in Kept' PROVE LatestOf(events'[r], recorded'[r])
    <3>1. CASE r \in fresh
      <4>1. events'[r] = Imported(document[r].events) BY <2>2, <2>6, <3>1
      <4>2. recorded'[r] = document[r].events /\ document[r].events \in Nat
        BY <2>1, <2>4, <2>5, <3>1
      <4> QED BY <4>1, <4>2, ImportedLatest
    <3>2. CASE r \notin fresh
      <4>1. r \in Kept BY <2>3, <2>6, <3>2 DEF Kept
      <4> QED BY <2>1, <2>3, <2>6, <3>2, <4>1, LatestOfKept
    <3> QED BY <3>1, <3>2
  <2> QED BY <2>7
<1>2. CASE CreateRun
  <2> DEFINE st == [status EXCEPT ![commit.run] = commit.status]
  <2>1. Store(st, events) /\ recorded' = recorded BY <1>2 DEF CreateRun
  <2>2. commit.run = made + 1 BY <1>2 DEF CreateRun, CommitInv
  <2>3. \A r \in Run : r # made + 1 => st[r] = status[r] BY <2>2 DEF TypeOK
  <2> HIDE DEF st
  <2>4. \A r \in Kept' : r \in Run /\ st[r] # "absent" /\ events'[r] = events[r]
    BY <2>1, StoreFacts DEF Kept
  <2>5. ASSUME NEW r \in Kept' PROVE LatestOf(events'[r], recorded'[r])
    <3>1. CASE r = made + 1
      <4>1. r \in Run /\ r > made BY <2>4, <3>1, BoundsAssumption DEF TypeOK
      <4>2. events'[r] = {} /\ recorded'[r] = 0 BY <2>1, <2>4, <4>1 DEF RowsInv
      <4>3. LatestOf({}, 0) BY DEF LatestOf
      <4> QED BY <4>2, <4>3
    <3>2. CASE r # made + 1
      <4>1. r \in Kept BY <2>3, <2>4, <3>2 DEF Kept
      <4> QED BY <2>1, <2>4, <4>1, LatestOfKept
    <3> QED BY <3>1, <3>2
  <2> QED BY <2>5
<1>3. CASE Emit \/ Launch \/ Act
  <2>1. PICK r \in Run, e \in Finals \cup Others : Record(r, e) BY <1>3, RecordingStep
  <2> QED BY <2>1, EventsRecord
<1>5. CASE UNCHANGED <<events, recorded>> /\ Kept' = Kept
  BY <1>5, LatestOfKept
<1>6. CASE RecoverOneRun
  <2>1. PICK r \in Run : WasActive(r) /\ status' = [status EXCEPT ![r] = RecoverRun(@)]
    BY <1>6 DEF RecoverOneRun
  <2>2. status'[r] # "absent" /\ status[r] # "absent"
    BY <2>1 DEF WasActive, RecoverRun, TypeOK, ActiveStatuses
  <2>3. Kept' = Kept BY <2>1, <2>2 DEF Kept, TypeOK
  <2> QED BY <1>5, <1>6, <2>3 DEF RecoverOneRun
<1>7. CASE UNCHANGED runVars BY <1>5, <1>7 DEF runVars, Kept
<1> QED BY <1>1, <1>2, <1>3, <1>6, <1>7
        DEF Next, ImportNothing, RunsRecovered, RecoverTasks, BeginRun, AttachRun, Sync, Die

-----------------------------------------------------------------------------
(* Recovery. *)

LEMMA RecoveryInit == Init => RecoveryInv
BY DEF Init, RecoveryInv, RecoveryIsComplete

LEMMA RecoveryNext == TypeOK /\ CommitInv /\ RecoveryInv /\ Next => RecoveryInv'
<1> SUFFICES ASSUME TypeOK, CommitInv, RecoveryInv, Next PROVE RecoveryInv' OBVIOUS
<1>a. ASSUME phase = "up", phase' = "up", touched \subseteq touched',
             \A r \in Run : status'[r] \in {status[r], "absent"} \/ r \in touched',
             \A t \in Run : task'[t] = task[t] \/ task'[t].state \notin Going
                            \/ task'[t].run \in touched'
      PROVE  RecoveryInv'
  <2>1. ASSUME NEW r \in Run, status'[r] \in ActiveStatuses PROVE r \in touched'
    <3>1. r \in touched' \/ status'[r] = status[r] BY <1>a, <2>1 DEF ActiveStatuses
    <3> QED BY <1>a, <2>1, <3>1 DEF RecoveryInv, RecoveryIsComplete, Kept, ActiveStatuses
  <2>2. ASSUME NEW t \in Run, task'[t].state \in Going PROVE task'[t].run \in touched'
    <3>1. task'[t] = task[t] => t \in Tasks BY <2>2 DEF Tasks, Going
    <3> QED BY <1>a, <2>2, <3>1 DEF RecoveryInv, RecoveryIsComplete, Going
  <2> QED BY <1>a, <2>1, <2>2 DEF RecoveryInv, RecoveryIsComplete, Kept, Tasks, Going
<1>1. CASE phase' \in {"import", "runs"} BY <1>1 DEF RecoveryInv, RecoveryIsComplete
<1>2. CASE RunsRecovered
  <2>1. phase' = "tasks" /\ \A r \in Run : status'[r] \notin ActiveStatuses
    BY <1>2 DEF RunsRecovered, WasActive, runVars
  <2> QED BY <2>1 DEF RecoveryInv, RecoveryIsComplete
<1>3. CASE RecoverTasks
  <2>1. phase' = "up" /\ \A r \in Run : status'[r] \notin ActiveStatuses
    BY <1>3 DEF RecoverTasks, RecoveryInv, runVars
  <2>2. \A t \in Run : task'[t].state \notin Going
    BY <1>3 DEF RecoverTasks, RecoverTask, Going
  <2> QED BY <2>1, <2>2 DEF RecoveryInv, RecoveryIsComplete, Tasks, Kept, Going
<1>4. CASE BeginRun
  <2>1. phase = "up" /\ UNCHANGED <<phase, status, touched>>
    BY <1>4 DEF BeginRun, Free, runVars
  <2>2. \A t \in Run : task'[t] = task[t] \/ task'[t].state = "created"
    BY <1>4 DEF BeginRun, TypeOK
  <2> QED BY <1>a, <2>1, <2>2 DEF Going
<1>5. CASE CreateRun
  <2> DEFINE st == [status EXCEPT ![commit.run] = commit.status]
  <2>1. Store(st, events) /\ commit.do = "create" BY <1>5 DEF CreateRun
  <2>2. phase = "up" BY <2>1 DEF CommitInv, Nothing
  <2>3. touched' = touched \cup {commit.run} /\ UNCHANGED <<phase, task>> BY <1>5 DEF CreateRun
  <2>4. \A r \in Run : r # commit.run => st[r] = status[r] BY DEF TypeOK
  <2> HIDE DEF st
  <2>5. \A r \in Run : status'[r] \in {st[r], "absent"} BY <2>1, StoreFacts DEF Kept
  <2>6. \A r \in Run : status'[r] \in {status[r], "absent"} \/ r \in touched'
    BY <2>3, <2>4, <2>5
  <2> QED BY <1>a, <2>2, <2>3, <2>6
<1>6. CASE AttachRun
  <2>1. commit.do = "attach" /\ UNCHANGED <<phase, status, touched>>
        /\ task' = [task EXCEPT ![commit.task] = [state |-> commit.status, run |-> commit.run]]
    BY <1>6 DEF AttachRun, runVars
  <2>2. phase = "up" /\ commit.run \in touched BY <2>1 DEF CommitInv, Nothing
  <2>3. \A t \in Run : task'[t] = task[t] \/ task'[t].run = commit.run BY <2>1 DEF TypeOK
  <2> QED BY <1>a, <2>1, <2>2, <2>3
<1>7. CASE Emit \/ Launch \/ Act
  <2>1. PICK r \in Run, e \in Finals \cup Others : Record(r, e) BY <1>7, RecordingStep
  <2>2. phase = "up" /\ UNCHANGED <<phase, task>> BY <1>7, RecordingStep DEF Free
  <2>3. CASE status[r] = "absent"
    <3>1. UNCHANGED <<status, touched>> BY <2>1, <2>3 DEF Record
    <3> QED BY <1>a, <2>2, <3>1
  <2>4. CASE status[r] # "absent"
    <3>1. touched' = touched \cup {r} /\ \A o \in Run : status'[o] \in
             {IF o = r THEN RecordEvent(status[r], e) ELSE status[o], "absent"}
      BY <2>1, <2>4, RecordEffect
    <3>2. \A o \in Run : status'[o] \in {status[o], "absent"} \/ o \in touched' BY <3>1
    <3> QED BY <1>a, <2>2, <3>1, <3>2
  <2> QED BY <2>3, <2>4
<1>8. CASE Sync
  <2>1. commit.do = "sync" /\ UNCHANGED <<phase, status, touched>> BY <1>8 DEF Sync, runVars
  <2>2. phase = "up" /\ commit.run \in touched BY <2>1 DEF CommitInv, Nothing
  <2>3. \A t \in Run : task'[t] = task[t] \/ task'[t].run = commit.run
    BY <1>8 DEF Sync, TypeOK
  <2> QED BY <1>a, <2>1, <2>2, <2>3
<1> QED BY <1>1, <1>2, <1>3, <1>4, <1>5, <1>6, <1>7, <1>8
        DEF Next, Import, ImportNothing, RecoverOneRun, Die

-----------------------------------------------------------------------------
(* Tasks and runs agree. *)

LEMMA AgreeInit == Init => AgreeInv
BY DEF Init, AgreeInv, Tasks

\* A step that touches neither the task nor the run that it shows.
LEMMA AgreeSame ==
    ASSUME AgreeInv, NEW t \in Run, task'[t] = task[t], task[t].state # "absent",
           task[t].run \in Kept, status'[task[t].run] = status[task[t].run],
           ~(commit.do = "sync" /\ commit.task = t), t \in cut => t \in cut',
           phase' = "up" <=> phase = "up"
    PROVE  Agrees(t)'
<1>1. Agrees(t) BY DEF AgreeInv, Tasks
<1> QED BY <1>1 DEF Agrees

LEMMA AgreeNext ==
    TypeOK /\ CommitInv /\ LinkInv /\ RecoveryInv /\ AgreeInv /\ Next => AgreeInv'
<1> SUFFICES ASSUME TypeOK, CommitInv, LinkInv, RecoveryInv, AgreeInv, Next,
                    NEW t \in Run, task'[t].state # "absent", task'[t].run \in Kept'
             PROVE  Agrees(t)'
  BY DEF AgreeInv, Tasks
<1>1. CASE Import
  <2> DEFINE fresh == {r \in Legacy : Old - r < KeepRuns} \ Kept
             st == [r \in Run |-> IF r \in fresh THEN document[r].status ELSE status[r]]
  <2>1. PICK ev : Store(st, ev) BY <1>1 DEF Import
  <2>2. task' = task /\ cut' = cut /\ phase = "import" /\ phase' = "runs" BY <1>1 DEF Import
  <2>3. commit.do # "sync" BY <2>2 DEF CommitInv, Nothing
  <2>4. Old < task[t].run /\ task[t].run \in Run
    BY <2>2, BoundsAssumption DEF LinkInv, Kept, Run
  <2>5. st[task[t].run] = status[task[t].run] BY <2>4, BoundsAssumption DEF Legacy, Run
  <2> HIDE DEF st
  <2>6. status'[task[t].run] = status[task[t].run] /\ status[task[t].run] # "absent"
    <3>1. \A r \in Kept' : st[r] # "absent" /\ status'[r] = st[r] BY <2>1, StoreFacts
    <3>2. task[t].run \in Kept' BY <2>2
    <3> QED BY <2>5, <3>1, <3>2
  <2> QED BY <2>2, <2>3, <2>4, <2>6, AgreeSame DEF Kept
<1>2. CASE ImportNothing \/ RunsRecovered
  <2>1. UNCHANGED <<task, cut, status>> /\ phase # "up" /\ phase' # "up"
    BY <1>2 DEF ImportNothing, RunsRecovered, runVars
  <2>2. commit.do # "sync" BY <2>1 DEF CommitInv, Nothing
  <2>3. Kept' = Kept BY <2>1 DEF Kept
  <2> QED BY <2>1, <2>2, <2>3, AgreeSame
<1>3. CASE RecoverOneRun
  <2>1. PICK r \in Run : WasActive(r) /\ status' = [status EXCEPT ![r] = RecoverRun(@)]
    BY <1>3 DEF RecoverOneRun
  <2>2. UNCHANGED <<task, cut>> /\ phase = "runs" /\ phase' = "runs"
    BY <1>3 DEF RecoverOneRun
  <2>3. commit.do # "sync" BY <2>2 DEF CommitInv, Nothing
  <2>4. task[t].run \in Kept
    BY <2>1, <2>2 DEF Kept, TypeOK, WasActive, ActiveStatuses
  <2>5. CASE task[t].run # r
    <3>1. status'[task[t].run] = status[task[t].run] BY <2>1, <2>5 DEF TypeOK
    <3> QED BY <2>2, <2>3, <2>4, <3>1, AgreeSame
  <2>6. CASE task[t].run = r
    <3>1. status'[r] = "stopped" /\ status[r] \in ActiveStatuses
      BY <2>1 DEF TypeOK, RecoverRun, WasActive
    <3>2. TaskStateOf(status[r]) = status[r] BY <3>1 DEF TaskStateOf, ActiveStatuses
    <3>3. Agrees(t) BY <2>2, <2>4 DEF AgreeInv, Tasks
    <3>4. t \in cut \/ task[t].state \in ActiveStatuses
      BY <2>2, <2>6, <3>1, <3>2, <3>3 DEF Agrees
    <3> QED BY <2>2, <2>6, <3>1, <3>4 DEF Agrees
  <2> QED BY <2>5, <2>6
<1>4. CASE RecoverTasks
  <2>1. /\ task'[t].state = RecoverTask(task[t].state) /\ task'[t].run = task[t].run
        /\ UNCHANGED <<cut, status>> /\ phase = "tasks" /\ phase' = "up"
    BY <1>4 DEF RecoverTasks, runVars
  <2>2. task[t].run \in Kept BY <2>1 DEF Kept
  <2>3. task[t].state # "absent" BY <2>1 DEF RecoverTask
  <2>4. Agrees(t) BY <2>2, <2>3 DEF AgreeInv, Tasks
  <2>5. status[task[t].run] \in RunStatuses \ ActiveStatuses
    BY <2>1, <2>2 DEF RecoveryInv, Kept, TypeOK
  <2>6. TaskStateOf(status[task[t].run]) \notin Going BY <2>5, TaskStateFacts
  <2>7. CASE task[t].state = TaskStateOf(status[task[t].run])
    <3>1. task'[t].state = task[t].state BY <2>1, <2>6, <2>7 DEF RecoverTask, Going
    <3> QED BY <2>1, <2>7, <3>1 DEF Agrees
  <2>8. CASE t \in cut
    <3>1. task'[t].state \notin Going BY <2>1 DEF RecoverTask, Going
    <3> QED BY <2>1, <2>8, <3>1 DEF Agrees
  <2>9. CASE status[task[t].run] = "stopped" /\ task[t].state \in ActiveStatuses
    <3>1. task'[t].state = "paused" BY <2>1, <2>9 DEF RecoverTask, ActiveStatuses
    <3> QED BY <2>1, <2>9, <3>1, TaskStateFacts DEF Agrees
  <2> QED BY <2>1, <2>4, <2>7, <2>8, <2>9 DEF Agrees
<1>5. CASE BeginRun
  <2>1. UNCHANGED <<phase, cut, status>> /\ commit.do # "sync"
    BY <1>5 DEF BeginRun, runVars, Free, Nothing
  <2>2. task'[t] = task[t]
    <3>1. task'[t].run # 0 BY BoundsAssumption DEF Kept, Run
    <3> QED BY <1>5, <3>1 DEF BeginRun, TypeOK
  <2>3. Kept' = Kept BY <2>1 DEF Kept
  <2> QED BY <2>1, <2>2, <2>3, AgreeSame
<1>6. CASE CreateRun
  <2> DEFINE st == [status EXCEPT ![commit.run] = commit.status]
  <2>1. Store(st, events) BY <1>6 DEF CreateRun
  <2>2. UNCHANGED <<phase, task, cut>> /\ commit.do = "create" /\ commit.run = made + 1
    BY <1>6 DEF CreateRun, CommitInv
  <2>3. task[t].run \in Run /\ task[t].run <= made
    BY <2>2, BoundsAssumption DEF LinkInv, Kept, Run
  <2>4. task[t].run # commit.run BY <2>2, <2>3, BoundsAssumption DEF TypeOK, Run
  <2>5. st[task[t].run] = status[task[t].run] BY <2>3, <2>4 DEF TypeOK
  <2> HIDE DEF st
  <2>6. status'[task[t].run] = status[task[t].run] /\ status[task[t].run] # "absent"
    <3>1. \A r \in Kept' : st[r] # "absent" /\ status'[r] = st[r] BY <2>1, StoreFacts
    <3>2. task[t].run \in Kept' BY <2>2
    <3> QED BY <2>5, <3>1, <3>2
  <2> QED BY <2>2, <2>3, <2>6, AgreeSame DEF Kept
<1>7. CASE AttachRun
  <2>1. /\ task' = [task EXCEPT ![commit.task] = [state |-> commit.status, run |-> commit.run]]
        /\ cut' = cut \ {commit.task} /\ commit.do = "attach" /\ UNCHANGED <<phase, status>>
    BY <1>7 DEF AttachRun, runVars
  <2>2. Kept' = Kept BY <2>1 DEF Kept
  <2>3. CASE t = commit.task
    <3>1. task'[t].state = commit.status /\ task'[t].run = commit.run
      BY <2>1, <2>3 DEF TypeOK
    <3>2. status'[commit.run] = commit.status /\ commit.status \in {"running", "created"}
      BY <2>1, <3>1 DEF CommitInv, Kept
    <3>3. TaskStateOf(commit.status) = commit.status BY <3>2, TaskStateFacts
    <3> QED BY <3>1, <3>2, <3>3 DEF Agrees
  <2>4. CASE t # commit.task
    <3>1. task'[t] = task[t] BY <2>1, <2>4 DEF TypeOK
    <3> QED BY <2>1, <2>2, <2>4, <3>1, AgreeSame
  <2> QED BY <2>3, <2>4
<1>8. ASSUME NEW r \in Run, NEW e, Record(r, e), Free, UNCHANGED <<phase, task, cut>>
      PROVE  Agrees(t)'
  <2>1. phase = "up" /\ commit.do # "sync" BY <1>8 DEF Free, Nothing
  <2>2. CASE status[r] = "absent"
    <3>1. status' = status BY <1>8, <2>2 DEF Record
    <3>2. Kept' = Kept BY <3>1 DEF Kept
    <3> QED BY <1>8, <2>1, <3>1, <3>2, AgreeSame
  <2>3. CASE status[r] # "absent"
    <3>1. /\ commit' = [do |-> "sync", run |-> r, task |-> taskOf[r],
                        status |-> RecordEvent(status[r], e)]
          /\ \A o \in Run : status'[o] \in
                 {IF o = r THEN RecordEvent(status[r], e) ELSE status[o], "absent"}
      BY <1>8, <2>3, RecordEffect
    <3>2. CASE task[t].run = r
      <4>1. r # 0 BY BoundsAssumption DEF Run
      <4>2. taskOf[r] = t BY <3>2, <4>1 DEF LinkInv
      <4> QED BY <1>8, <2>1, <3>1, <4>2 DEF Agrees
    <3>3. CASE task[t].run # r
      <4>1. task[t].run \in Run /\ status'[task[t].run] # "absent" BY <1>8 DEF Kept
      <4>2. status'[task[t].run] = status[task[t].run] BY <3>1, <3>3, <4>1
      <4>3. task[t].run \in Kept BY <4>1, <4>2 DEF Kept
      <4> QED BY <1>8, <2>1, <4>2, <4>3, AgreeSame
    <3> QED BY <3>2, <3>3
  <2> QED BY <2>2, <2>3
<1>9. CASE Emit \/ Launch \/ Act
  <2>1. PICK r \in Run, e \in Finals \cup Others : Record(r, e) BY <1>9, RecordingStep
  <2>2. Free /\ UNCHANGED <<phase, task, cut>> BY <1>9, RecordingStep
  <2> QED BY <1>8, <2>1, <2>2
<1>11. CASE Sync
  <2>1. cut' = cut \ {commit.task} /\ commit.do = "sync" /\ UNCHANGED <<phase, status>>
    BY <1>11 DEF Sync, runVars
  <2>2. Kept' = Kept BY <2>1 DEF Kept
  <2>3. CASE t = commit.task
    <3>1. commit.task \in Tasks
      <4>1. SUFFICES ASSUME commit.task \notin Tasks PROVE FALSE OBVIOUS
      <4>2. task' = task BY <1>11, <4>1 DEF Sync
      <4> QED BY <2>3, <4>1, <4>2 DEF Tasks
    <3>2. task'[t].state = TaskStateOf(commit.status) /\ task'[t].run = commit.run
      BY <1>11, <2>3, <3>1 DEF Sync, TypeOK
    <3>3. status'[commit.run] = commit.status BY <2>1, <3>2 DEF CommitInv, Kept
    <3> QED BY <3>2, <3>3 DEF Agrees
  <2>4. CASE t # commit.task
    <3>1. task'[t] = task[t] BY <1>11, <2>4 DEF Sync, TypeOK
    <3> QED BY <2>1, <2>2, <2>4, <3>1, AgreeSame
  <2> QED BY <2>3, <2>4
<1>12. CASE Die
  <2>1. /\ UNCHANGED <<task, status>> /\ phase' = "import" /\ cut \subseteq cut'
        /\ commit.do = "sync" => commit.task \in cut'
    BY <1>12 DEF Die, runVars
  <2>2. Kept' = Kept BY <2>1 DEF Kept
  <2>3. Agrees(t) BY <2>1, <2>2 DEF AgreeInv, Tasks
  <2> QED BY <2>1, <2>3 DEF Agrees
<1> QED BY <1>1, <1>2, <1>3, <1>4, <1>5, <1>6, <1>7, <1>9, <1>11, <1>12 DEF Next

-----------------------------------------------------------------------------
(* The theorems. *)

LEMMA InvInit == Init => IInv
BY TypeInit, StructureInit, EventsInit, NewestInit, RecoveryInit, AgreeInit DEF IInv

LEMMA InvNext == IInv /\ [Next]_vars => IInv'
<1> SUFFICES ASSUME IInv, [Next]_vars PROVE IInv' OBVIOUS
<1>1. CASE Next
  BY <1>1, TypeNext, RowsNext, CommitNext, LinkNext, EventsNext, NewestNext, RecoveryNext,
     AgreeNext
  DEF IInv
<1>2. CASE UNCHANGED vars
  <2>1. TypeOK' BY <1>2 DEF IInv, TypeOK, vars, runVars
  <2>2. RowsInv' /\ CommitInv' /\ LinkInv'
    BY <1>2 DEF IInv, RowsInv, CommitInv, LinkInv, vars, runVars, Tasks
  <2>3. Kept' = Kept BY <1>2 DEF Kept, vars, runVars
  <2>4. EventsAreLatest' BY <1>2, <2>3 DEF IInv, EventsAreLatest, vars, runVars
  <2>5. KeptAreNewest' BY <1>2, <2>3, NewestSame DEF IInv, vars, runVars
  <2>6. RecoveryInv'
    BY <1>2, <2>3 DEF IInv, RecoveryInv, RecoveryIsComplete, Tasks, vars, runVars
  <2>7. AgreeInv' BY <1>2, <2>3 DEF IInv, AgreeInv, Agrees, Tasks, vars, runVars
  <2> QED BY <2>1, <2>2, <2>4, <2>5, <2>6, <2>7 DEF IInv
<1> QED BY <1>1, <1>2

LEMMA Invariant == Spec => []IInv
BY InvInit, InvNext, PTL DEF Spec

\* Rows, events, tasks and the state of a startup always have their types.
THEOREM TypeCorrect == Spec => []TypeOK
<1>1. IInv => TypeOK BY DEF IInv
<1> QED BY <1>1, Invariant, PTL

\* A run that is kept has its latest events, numbered without gaps (append_event and
\* import_legacy_document), whatever the limits and the length of its log.
THEOREM EventLogs == Spec => []EventsAreLatest
<1>1. IInv => EventsAreLatest BY DEF IInv
<1> QED BY <1>1, Invariant, PTL

\* Retention keeps the newest runs and no deleted one comes back (_prune_runs).
THEOREM Retention == Spec => []KeptAreNewest
<1>1. IInv => KeptAreNewest BY DEF IInv
<1> QED BY <1>1, Invariant, PTL

\* After any crashes, in the startup too, no run is active and no task shows one at work
\* that an earlier process left (both _recover_interrupted).
THEOREM Recovery == Spec => []RecoveryIsComplete
<1>1. IInv => RecoveryIsComplete BY DEF IInv, RecoveryInv
<1> QED BY <1>1, Invariant, PTL

\* A task disagrees with its run only after a crash between their updates, and then it
\* does not show it as going on (sync_from_run, ProductTaskStore._recover_interrupted).
THEOREM Agreement == Spec => []TasksAgree
<1>1. IInv => TasksAgree
  <2> SUFFICES ASSUME IInv, Free, NEW t \in Tasks, task[t].run \in Kept
               PROVE  \/ task[t].state = TaskStateOf(status[task[t].run])
                      \/ t \in cut /\ task[t].state \notin {"running", "waiting_confirmation"}
    BY DEF TasksAgree
  <2>1. Agrees(t) BY DEF IInv, AgreeInv
  <2>2. phase = "up" /\ commit.do # "sync" BY DEF Free, Nothing
  <2> QED BY <2>1, <2>2 DEF Agrees, Going
<1> QED BY <1>1, Invariant, PTL
=============================================================================
