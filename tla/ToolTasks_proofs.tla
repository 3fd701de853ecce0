--------------------------- MODULE ToolTasks_proofs ---------------------------
(***************************************************************************)
(* Proofs about ToolTasks, for any tasks, files, retention and controls:    *)
(* copies are originals, a restore undoes its task, what a tool has written *)
(* when it returns can be restored, records have their copies and the store *)
(* keeps the newest ones.                                                   *)
(***************************************************************************)
EXTENDS ToolTasks, FiniteSetTheorems, TLAPS

-----------------------------------------------------------------------------
(* The inductive invariant. *)

Unstarted == {"none", "waiting_confirmation", "queued"}

\* A record belongs to a task that is over; one that has not begun has nothing.
LifeInv ==
    \A t \in Tasks :
        /\ status[t] \in Unstarted => thread[t] = "none" /\ entries[t] = <<>>
        /\ t \in index => created[t] # 0
        /\ created[t] # 0 => status[t] \in {"returned", "interrupted"} /\ thread[t] = "none"

\* What a session has seen: its entries, warnings, and all that its tool writes.
SessionInv ==
    \A t \in Tasks :
        /\ \A n \in DOMAIN entries[t] : entries[t][n].path \in seen[t]
        /\ \A m, n \in DOMAIN entries[t] :
              entries[t][m].path = entries[t][n].path => m = n
        /\ \A f \in Files : Wrote(t, f) \/ thread[t] = f => f \in seen[t]
        /\ \A f \in seen[t] : f \in warned[t] \/ Listed(t, f)

\* A copy is the original once the file is written, and the file as it is before.
CopyInv ==
    \A t \in Tasks : \A n \in DOMAIN entries[t] :
        LET e == entries[t][n] IN
        e.path \notin disturbed[t] =>
            e.was = IF Wrote(t, e.path) THEN before[t][e.path] ELSE file[e.path]

\* A restore of a record has put back all files behind the ones that are left.
ProgressInv ==
    \/ restoring = NoRestore
    \/ /\ restoring.of \in index
       /\ restoring.left <= Len(entries[restoring.of])
       /\ \A n \in DOMAIN entries[restoring.of] :
             LET e == entries[restoring.of][n] IN
             n > restoring.left /\ e.path \notin restoring.dirty => file[e.path] = e.was

\* Records, and the sessions that will become records, have their copies.
WholeInv ==
    \A t \in Tasks :
        t \notin damaged /\ (t \in index \/ status[t] = "running") =>
            \A n \in DOMAIN entries[t] :
                entries[t][n].was = "absent" \/ n \in stored[t]

\* No record is later than the clock.
ClockInv == \A t \in Tasks : created[t] <= Clock

\* The created_at of the records are 1, 2, ... with no gap, so that the records
\* newer than one can be counted from its own.
Since(c) == {t \in Tasks : created[t] > c}
CountInv == \A c \in 0..Clock : Cardinality(Since(c)) = Clock - c

IInv == /\ TypeOK /\ LifeInv /\ SessionInv /\ CopyInv /\ ProgressInv /\ WholeInv
        /\ ClockInv /\ CountInv /\ CopiesHaveRecord /\ RetentionIsExact

-----------------------------------------------------------------------------
(* The clock and the end of a session. *)

\* The clock is a number.
LEMMA ClockType == ASSUME TypeOK PROVE Clock \in Nat
  <1>1. IsFiniteSet({t \in Tasks : created[t] # 0})
    BY BoundsAssumption, FS_Subset
  <1> QED BY <1>1, FS_CardinalityType DEF Clock

\* A task that has no record yet is filed one later than the latest.
LEMMA ClockGrows ==
    ASSUME TypeOK, NEW t \in Tasks, created[t] = 0, created' = Filing(t)
    PROVE  Clock' = Clock + 1
  <1> DEFINE S == {u \in Tasks : created[u] # 0}
  <1>1. Clock \in Nat BY ClockType
  <1>2. \A u \in Tasks : created'[u] = IF u = t THEN Clock + 1 ELSE created[u]
    BY DEF Filing, TypeOK
  <1>3. {u \in Tasks : created'[u] # 0} = S \cup {t}
    BY <1>1, <1>2
  <1>4. IsFiniteSet(S) /\ t \notin S
    BY BoundsAssumption, FS_Subset
  <1>5. Cardinality(S \cup {t}) = Cardinality(S) + 1
    BY <1>4, FS_AddElement
  <1>6. Clock' = Cardinality({u \in Tasks : created'[u] # 0})
    BY DEF Clock
  <1> QED BY <1>3, <1>5, <1>6 DEF Clock

\* The latest record is never expired at once.
LEMMA NotExpired ==
    ASSUME TypeOK, ClockInv, NEW t \in Tasks
    PROVE  t \notin Expired(t)
  <1>1. Clock \in Nat BY ClockType
  <1>2. \A u \in Tasks : Filing(t)[u] <= Clock + 1 /\ Filing(t)[u] \in Nat
    BY <1>1 DEF Filing, TypeOK, ClockInv
  <1>3. Filing(t)[t] = Clock + 1
    BY DEF Filing, TypeOK
  <1>4. Newer(t, index \cup {t}, Filing(t)) = {}
    BY <1>1, <1>2, <1>3 DEF Newer, TypeOK
  <1>5. t \in Newest(index \cup {t}, Filing(t))
    BY <1>4, FS_EmptySet, BoundsAssumption DEF Newest
  <1> QED BY <1>5 DEF Expired

\* finish: the session becomes a record, or leaves nothing; no other record is
\* touched but those that leave the index, and those whose deletion fails.
LEMMA FinishFacts ==
    ASSUME TypeOK, ClockInv, NEW t \in Tasks, Finish(t)
    PROVE  /\ index' \subseteq index \cup {t} /\ damaged \subseteq damaged'
           /\ damaged' \subseteq Tasks
           /\ since' = since /\ stored' \in [Tasks -> SUBSET Nat]
           /\ entries[t] = <<>> => (index' = index /\ created' = created)
           /\ entries[t] # <<>> => (t \in index' /\ created' = Filing(t))
           /\ \A u \in Tasks : stored'[u] \subseteq stored[u]
           /\ \A u \in index' \ damaged' :
                 (u = t /\ entries[t] = <<>>) \/ stored'[u] = stored[u]
           /\ \A u \in index : u \notin index' => stored'[u] = {}
           /\ \A u \in Tasks \ (index \cup {t}) : stored'[u] = stored[u]
  <1>1. CASE entries[t] = <<>>
    BY <1>1 DEF Finish, storeVars, TypeOK
  <1>2. CASE entries[t] # <<>>
    <2>1. PICK stuck \in SUBSET Expired(t) :
             /\ Pruned(Expired(t), stuck)
             /\ index' = (index \cup {t}) \ (Expired(t) \ stuck)
             /\ created' = Filing(t)
             /\ damaged' = damaged \cup stuck
             /\ since' = since
      BY <1>2 DEF Finish
    <2>2. PICK rest \in [stuck -> SUBSET (1..MaxWrites)] :
             /\ \A u \in stuck : rest[u] \subseteq stored[u]
             /\ stored' = [u \in Tasks |-> IF u \in Expired(t) \ stuck THEN {}
                                           ELSE IF u \in stuck THEN rest[u] ELSE stored[u]]
      BY <2>1 DEF Pruned
    <2>3. t \notin Expired(t) BY NotExpired
    <2>4. Expired(t) \subseteq index /\ index \subseteq Tasks
      BY <2>3 DEF Expired, TypeOK
    <2>5. \A u \in Tasks : stored'[u] = IF u \in Expired(t) \ stuck THEN {}
                                        ELSE IF u \in stuck THEN rest[u] ELSE stored[u]
      BY <2>2
    <2>6. \A u \in Tasks : stored'[u] \subseteq stored[u]
      BY <2>1, <2>2, <2>5
    <2>7. stored' \in [Tasks -> SUBSET Nat]
      BY <2>2, <2>5, <2>6 DEF TypeOK
    <2>8. \A u \in index' \ damaged' : stored'[u] = stored[u]
      BY <2>1, <2>4, <2>5
    <2>9. \A u \in index : u \notin index' => stored'[u] = {}
      BY <2>1, <2>4, <2>5
    <2>10. t \in index' BY <2>1, <2>3
    <2>11. damaged' \subseteq Tasks BY <2>1, <2>4 DEF TypeOK
    <2>12. \A u \in Tasks \ (index \cup {t}) : stored'[u] = stored[u]
      BY <2>4, <2>5
    <2> QED BY <1>2, <2>1, <2>4, <2>6, <2>7, <2>8, <2>9, <2>10, <2>11, <2>12
  <1> QED BY <1>1, <1>2

-----------------------------------------------------------------------------
(* Types. *)

LEMMA TypeInit == Init => TypeOK
  BY BoundsAssumption DEF Init, TypeOK, Statuses, Pending, Contents, Entries, NoRestore

LEMMA TypeBackUp ==
    ASSUME TypeOK, NEW t \in Tasks, NEW f \in Files, BackUp(t, f)
    PROVE  TypeOK'
  <1> DEFINE e == [path |-> f, was |-> file[f]]
  <1>1. e \in Entries BY DEF Entries, TypeOK
  <1>2. Append(entries[t], e) \in Seq(Entries) /\ Len(entries[t]) + 1 \in Nat
    BY <1>1 DEF TypeOK
  <1>3. entries' \in [Tasks -> Seq(Entries)]
    BY <1>2 DEF BackUp, TypeOK
  <1>4. stored' \in [Tasks -> SUBSET Nat]
    BY <1>2 DEF BackUp, TypeOK
  <1>5. /\ thread' \in [Tasks -> {"none", "ready", "done"} \cup Files]
        /\ seen' \in [Tasks -> SUBSET Files]
    BY DEF BackUp, TypeOK
  <1>6. warned' \in [Tasks -> SUBSET Files]
    <2>1. warned' = warned \/ warned' = [warned EXCEPT ![t] = @ \cup {f}]
      BY DEF BackUp
    <2>2. warned \in [Tasks -> SUBSET Files] BY DEF TypeOK
    <2> QED BY <2>1, <2>2
  <1>7. writes' \in 0..MaxWrites
    BY BoundsAssumption DEF BackUp, TypeOK
  <1>8. UNCHANGED <<status, index, created, since, file, disturbed, before, damaged, restoring>>
    BY DEF BackUp, storeVars, fileVars
  <1> QED BY <1>3, <1>4, <1>5, <1>6, <1>7, <1>8 DEF TypeOK

LEMMA TypeWriteFile ==
    ASSUME TypeOK, NEW t \in Tasks, NEW f \in Files, WriteFile(t, f)
    PROVE  TypeOK'
  <1>1. UNCHANGED <<status, writes, seen, warned, entries, stored, index, created, damaged, since>>
    BY DEF WriteFile, sessionVars, storeVars
  <1>2. thread' \in [Tasks -> {"none", "ready", "done"} \cup Files]
    BY DEF WriteFile, TypeOK
  <1>3. CASE UNCHANGED <<fileVars, restoring>>
    BY <1>1, <1>2, <1>3 DEF TypeOK, fileVars
  <1>4. CASE /\ Overwritten(f, t, t)
             /\ before' = [before EXCEPT ![t][f] = IF @ = "unwritten" THEN file[f] ELSE @]
             /\ restoring' = IF LoopIsFree THEN restoring
                             ELSE [restoring EXCEPT !.dirty = @ \cup {f}]
    <2>1. file' \in [Files -> Contents] /\ disturbed' \in [Tasks -> SUBSET Files]
      BY <1>4 DEF Overwritten, TypeOK, Contents
    <2>2. before' \in [Tasks -> [Files -> Contents \cup {"unwritten"}]]
      BY <1>4 DEF TypeOK
    <2>3. restoring' \in [of : Tasks \cup {"none"}, left : Nat, dirty : SUBSET Files]
      BY <1>4 DEF TypeOK
    <2> QED BY <1>1, <1>2, <2>1, <2>2, <2>3 DEF TypeOK
  <1> QED BY <1>3, <1>4 DEF WriteFile

LEMMA TypeRebooted ==
    ASSUME TypeOK, Rebooted
    PROVE  /\ status' \in [Tasks -> Statuses]
           /\ thread' \in [Tasks -> {"none", "ready", "done"} \cup Files]
           /\ restoring' \in [of : Tasks \cup {"none"}, left : Nat, dirty : SUBSET Files]
           /\ UNCHANGED <<writes, seen, warned, entries, file, before, disturbed>>
  <1>1. status' \in [Tasks -> Statuses]
    BY DEF Rebooted, TypeOK, Statuses, Pending
  <1>2. NoRestore \in [of : Tasks \cup {"none"}, left : Nat, dirty : SUBSET Files]
    BY DEF NoRestore
  <1> QED BY <1>1, <1>2 DEF Rebooted, sessionVars, fileVars

\* While a restore goes on, it is of a record and not behind its first entry.
LEMMA RestoredEntry ==
    ASSUME TypeOK, ProgressInv, restoring # NoRestore
    PROVE  /\ restoring.of \in index /\ restoring.of \in Tasks
           /\ restoring.left \in 0..Len(entries[restoring.of])
           /\ restoring.left > 0 => /\ restoring.left \in DOMAIN entries[restoring.of]
                                    /\ Restored \in Entries
                                    /\ restoring.left - 1 \in Nat
  <1>1. restoring.of \in index /\ restoring.left <= Len(entries[restoring.of])
    BY DEF ProgressInv
  <1>2. restoring.of \in Tasks /\ restoring.left \in Nat
    BY <1>1 DEF TypeOK
  <1>3. entries[restoring.of] \in Seq(Entries)
    BY <1>2 DEF TypeOK
  <1>4. restoring.left > 0 => restoring.left \in DOMAIN entries[restoring.of]
    BY <1>1, <1>2, <1>3
  <1>5. restoring.left > 0 => entries[restoring.of][restoring.left] \in Entries
    BY <1>3, <1>4
  <1> QED BY <1>1, <1>2, <1>3, <1>4, <1>5 DEF Restored

\* What finish changes keeps its type.
LEMMA TypeFinish ==
    ASSUME TypeOK, ClockInv, NEW t \in Tasks, Finish(t)
    PROVE  /\ index' \subseteq Tasks /\ created' \in [Tasks -> Nat]
           /\ stored' \in [Tasks -> SUBSET Nat] /\ damaged' \subseteq Tasks /\ since' \in Nat
  <1>1. Filing(t) \in [Tasks -> Nat] BY ClockType DEF Filing, TypeOK
  <1>2. created' = created \/ created' = Filing(t) BY FinishFacts
  <1>3. created' \in [Tasks -> Nat] BY <1>1, <1>2 DEF TypeOK
  <1>4. index' \subseteq index \cup {t} /\ since' = since /\ damaged' \subseteq Tasks
        /\ stored' \in [Tasks -> SUBSET Nat]
    BY FinishFacts
  <1> QED BY <1>3, <1>4 DEF TypeOK

\* A crash loses the index or leaves it, and deletes directories.
LEMMA CutShortFacts ==
    ASSUME TypeOK, NEW gone \in SUBSET Tasks, CutShort(gone)
    PROVE  /\ (index' = index /\ since' = since) \/ (index' = {} /\ since' = Clock)
           /\ created' = created /\ since' \in Nat
           /\ damaged' = damaged \cup gone /\ damaged' \subseteq Tasks
           /\ stored' \in [Tasks -> SUBSET Nat]
           /\ \A u \in Tasks : stored'[u] \subseteq stored[u]
           /\ \A u \in Tasks \ damaged' : stored'[u] = stored[u]
  BY ClockType DEF CutShort, TypeOK

\* A clear that fails loses copies, and marks their tasks.
LEMMA ClearFailsFacts ==
    ASSUME TypeOK, ClearFails
    PROVE  /\ LoopIsFree
           /\ UNCHANGED <<status, threadVars, sessionVars, index, created, since, fileVars, restoring>>
           /\ damaged \subseteq damaged' /\ damaged' \subseteq Tasks
           /\ stored' \in [Tasks -> SUBSET Nat]
           /\ \A u \in Tasks : stored'[u] \subseteq stored[u]
           /\ \A u \in Tasks \ damaged' : stored'[u] = stored[u]
  <1>1. PICK gone \in SUBSET Directories, stuck \in Directories :
           Pruned(gone, {stuck}) /\ damaged' = damaged \cup gone \cup {stuck}
    BY DEF ClearFails
  <1>2. PICK rest \in [{stuck} -> SUBSET (1..MaxWrites)] :
           /\ rest[stuck] \subseteq stored[stuck]
           /\ stored' = [u \in Tasks |-> IF u \in gone \ {stuck} THEN {}
                                         ELSE IF u \in {stuck} THEN rest[u] ELSE stored[u]]
    BY <1>1 DEF Pruned
  <1>3. gone \subseteq Tasks /\ stuck \in Tasks BY DEF Directories
  <1>4. \A u \in Tasks : stored'[u] = IF u \in gone \ {stuck} THEN {}
                                      ELSE IF u = stuck THEN rest[u] ELSE stored[u]
    BY <1>2
  <1>5. \A u \in Tasks : stored'[u] \subseteq stored[u]
    BY <1>2, <1>4
  <1>6. stored' \in [Tasks -> SUBSET Nat]
    BY <1>2, <1>5 DEF TypeOK
  <1>7. \A u \in Tasks \ damaged' : stored'[u] = stored[u]
    BY <1>1, <1>4
  <1>8. damaged \subseteq damaged' /\ damaged' \subseteq Tasks
    BY <1>1, <1>3 DEF TypeOK
  <1> QED BY <1>5, <1>6, <1>7, <1>8 DEF ClearFails

LEMMA TypeNext == ASSUME TypeOK, ClockInv, ProgressInv, [Next]_vars PROVE TypeOK'
  <1>1. ASSUME NEW t \in Tasks, Submit(t) PROVE TypeOK'
    BY <1>1 DEF Submit, TypeOK, threadVars, sessionVars, storeVars, fileVars, Statuses, Pending
  <1>2. ASSUME NEW t \in Tasks, Begin(t) PROVE TypeOK'
    BY <1>2 DEF Begin, TypeOK, sessionVars, storeVars, fileVars, Statuses, Pending
  <1>3. ASSUME NEW t \in Tasks, ToolEnds(t) PROVE TypeOK'
    BY <1>3 DEF ToolEnds, TypeOK, sessionVars, storeVars, fileVars
  <1>4. ASSUME NEW t \in Tasks, Return(t) PROVE TypeOK'
    <2>1. /\ status' \in [Tasks -> Statuses]
          /\ thread' \in [Tasks -> {"none", "ready", "done"} \cup Files]
          /\ UNCHANGED <<writes, seen, warned, entries, file, before, disturbed, restoring>>
          /\ Finish(t)
      BY <1>4 DEF Return, TypeOK, Statuses, sessionVars, fileVars
    <2> QED BY <1>4, <2>1, TypeFinish DEF TypeOK
  <1>5. ASSUME NEW t \in Tasks, Cancel(t) PROVE TypeOK'
    BY <1>5 DEF Cancel, TypeOK, threadVars, sessionVars, storeVars, fileVars, Statuses
  <1>6. ASSUME NEW t \in Tasks, StartRestore(t) PROVE TypeOK'
    <2>1. Len(entries[t]) \in Nat BY DEF TypeOK
    <2> QED BY <1>6, <2>1 DEF StartRestore, TypeOK, threadVars, sessionVars, storeVars, fileVars
  <1>7. ASSUME NEW t \in Tasks, ReturnCutShort(t) PROVE TypeOK'
    <2>1. Expired(t) \ {t} \in SUBSET Tasks BY <1>7 DEF Expired, TypeOK
    <2>2. CASE Finish(t)
      BY <1>7, <2>2, TypeFinish, TypeRebooted DEF TypeOK, ReturnCutShort
    <2>3. CASE \E gone \in SUBSET (Expired(t) \ {t}) : CutShort(gone)
      <3>1. PICK gone \in SUBSET Tasks : CutShort(gone) BY <2>1, <2>3
      <3> QED BY <1>7, <3>1, CutShortFacts, TypeRebooted DEF TypeOK, ReturnCutShort
    <2> QED BY <1>7, <2>2, <2>3 DEF ReturnCutShort
  <1>8. ASSUME RestoreFile PROVE TypeOK'
    <2>1. Restored \in Entries /\ restoring.left - 1 \in Nat
      BY <1>8, RestoredEntry DEF RestoreFile, NoRestore
    <2>2. file' \in [Files -> Contents] /\ disturbed' \in [Tasks -> SUBSET Files]
      BY <1>8, <2>1 DEF RestoreFile, Overwritten, TypeOK, Entries
    <2>3. restoring' \in [of : Tasks \cup {"none"}, left : Nat, dirty : SUBSET Files]
      BY <1>8, <2>1 DEF RestoreFile, TypeOK
    <2> QED BY <1>8, <2>2, <2>3 DEF RestoreFile, TypeOK, threadVars, sessionVars, storeVars
  <1>9. ASSUME EndRestore \/ FailRestore PROVE TypeOK'
    BY <1>9 DEF EndRestore, FailRestore, NoRestore, TypeOK, threadVars, sessionVars, storeVars, fileVars
  <1>10. ASSUME Clear PROVE TypeOK'
    BY <1>10, ClockType DEF Clear, Directories, TypeOK, threadVars, sessionVars, fileVars
  <1>11. ASSUME Restart PROVE TypeOK'
    BY <1>11, TypeRebooted DEF Restart, TypeOK, storeVars
  <1>12. ASSUME ClearCutShort PROVE TypeOK'
    <2>1. PICK gone \in SUBSET Tasks : CutShort(gone)
      BY <1>12 DEF ClearCutShort, Directories
    <2>2. Rebooted BY <1>12 DEF ClearCutShort
    <2> QED BY <2>1, <2>2, CutShortFacts, TypeRebooted DEF TypeOK
  <1>13. CASE UNCHANGED vars
    BY <1>13 DEF vars, TypeOK, threadVars, sessionVars, storeVars, fileVars
  <1>14. ASSUME ClearFails PROVE TypeOK'
    BY <1>14, ClearFailsFacts DEF TypeOK, threadVars, sessionVars, fileVars
  <1> QED
    BY <1>1, <1>2, <1>3, <1>4, <1>5, <1>6, <1>7, <1>8, <1>9, <1>10, <1>11, <1>12, <1>13,
       <1>14, TypeBackUp, TypeWriteFile DEF Next, ThreadStep, RestoreStep

-----------------------------------------------------------------------------
(* The life of a task, and its clock. *)

\* backup_file appends one entry with its copy, or a warning, or nothing.
LEMMA BackUpFacts ==
    ASSUME TypeOK, NEW t \in Tasks, NEW f \in Files, BackUp(t, f)
    PROVE  /\ thread[t] = "ready" /\ thread' = [thread EXCEPT ![t] = f]
           /\ seen' = [seen EXCEPT ![t] = @ \cup {f}]
           /\ UNCHANGED <<status, index, created, damaged, since, file, before, disturbed, restoring>>
           /\ \A u \in Tasks \ {t} : /\ entries'[u] = entries[u] /\ stored'[u] = stored[u]
                                     /\ warned'[u] = warned[u]
           /\ \/ /\ f \notin seen[t] /\ warned'[t] = warned[t]
                 /\ entries'[t] = Append(entries[t], [path |-> f, was |-> file[f]])
                 /\ stored[t] \subseteq stored'[t]
                 /\ file[f] # "absent" => Len(entries[t]) + 1 \in stored'[t]
              \/ /\ entries'[t] = entries[t] /\ stored'[t] = stored[t]
                 /\ warned[t] \subseteq warned'[t] /\ f \in warned'[t] \cup seen[t]
  <1>1. /\ thread[t] = "ready" /\ thread' = [thread EXCEPT ![t] = f]
        /\ seen' = [seen EXCEPT ![t] = @ \cup {f}]
        /\ UNCHANGED <<status, index, created, damaged, since, file, before, disturbed, restoring>>
    BY DEF BackUp, storeVars, fileVars
  <1>2. CASE /\ f \notin seen[t] /\ UNCHANGED warned
             /\ entries' = [entries EXCEPT ![t] = Append(@, [path |-> f, was |-> file[f]])]
             /\ stored' = [stored EXCEPT ![t] =
                              @ \cup {n \in {Len(entries[t]) + 1} : file[f] # "absent"}]
    BY <1>1, <1>2 DEF TypeOK
  <1>3. CASE /\ warned' = [warned EXCEPT ![t] = @ \cup {f}]
             /\ UNCHANGED <<entries, stored>>
    <2>1. warned'[t] = warned[t] \cup {f} /\ \A u \in Tasks \ {t} : warned'[u] = warned[u]
      BY <1>3 DEF TypeOK
    <2> QED BY <1>1, <1>3, <2>1
  <1>4. CASE f \in seen[t] /\ UNCHANGED <<warned, entries, stored>>
    BY <1>1, <1>4 DEF TypeOK
  <1> QED BY <1>2, <1>3, <1>4 DEF BackUp

LEMMA LifeNext ==
    ASSUME TypeOK, LifeInv, ClockInv, ProgressInv, [Next]_vars
    PROVE  LifeInv' /\ ClockInv'
  <1>1. ASSUME NEW t \in Tasks, Submit(t) PROVE LifeInv' /\ ClockInv'
    BY <1>1 DEF Submit, LifeInv, ClockInv, Clock, TypeOK, Unstarted, threadVars, sessionVars, storeVars
  <1>2. ASSUME NEW t \in Tasks, Begin(t) PROVE LifeInv' /\ ClockInv'
    BY <1>2 DEF Begin, LifeInv, ClockInv, Clock, TypeOK, Unstarted, sessionVars, storeVars
  <1>3. ASSUME NEW t \in Tasks, NEW f \in Files, BackUp(t, f) PROVE LifeInv' /\ ClockInv'
    <2>1. /\ thread[t] = "ready" /\ UNCHANGED <<status, index, created>>
          /\ \A u \in Tasks \ {t} : entries'[u] = entries[u]
      BY <1>3, BackUpFacts
    <2>2. \A u \in Tasks \ {t} : thread'[u] = thread[u]
      <3>1. thread' = [thread EXCEPT ![t] = f] BY <1>3, BackUpFacts
      <3> QED BY <3>1 DEF TypeOK
    <2>3. ClockInv' BY <2>1 DEF ClockInv, Clock
    <2>4. LifeInv' BY <2>1, <2>2 DEF LifeInv, Unstarted
    <2> QED BY <2>3, <2>4
  <1>4. ASSUME NEW t \in Tasks, NEW f \in Files, WriteFile(t, f) PROVE LifeInv' /\ ClockInv'
    <2>1. UNCHANGED <<status, entries, index, created>> /\ thread[t] = f
          /\ \A u \in Tasks \ {t} : thread'[u] = thread[u]
      BY <1>4 DEF WriteFile, TypeOK, sessionVars, storeVars
    <2>2. f # "none" BY NamesAssumption DEF Reserved
    <2> QED BY <2>1, <2>2 DEF LifeInv, ClockInv, Clock, Unstarted
  <1>5. ASSUME NEW t \in Tasks, ToolEnds(t) PROVE LifeInv' /\ ClockInv'
    BY <1>5 DEF ToolEnds, LifeInv, ClockInv, Clock, TypeOK, Unstarted, sessionVars, storeVars
  <1>6. ASSUME NEW t \in Tasks, status[t] = "running", thread[t] = "done", Finish(t),
               UNCHANGED entries,
               status'[t] \in {"returned", "interrupted"}, thread'[t] = "none",
               \A u \in Tasks \ {t} :
                  /\ \/ status'[u] = status[u]
                     \/ status[u] \in Pending /\ status'[u] = "interrupted"
                  /\ thread'[u] \in {thread[u], "none"}
        PROVE  LifeInv' /\ ClockInv'
    <2>1. created[t] = 0 BY <1>6 DEF LifeInv
    <2>2. CASE entries[t] = <<>>
      <3>1. index' = index /\ created' = created BY <1>6, <2>2, FinishFacts
      <3> QED BY <1>6, <3>1 DEF LifeInv, ClockInv, Clock, Unstarted, Pending
    <2>3. CASE entries[t] # <<>>
      <3>1. index' \subseteq index \cup {t} /\ created' = Filing(t)
        BY <1>6, <2>3, FinishFacts
      <3>2. Clock \in Nat /\ Clock' = Clock + 1
        BY <2>1, <3>1, ClockType, ClockGrows
      <3>3. \A u \in Tasks : created'[u] = IF u = t THEN Clock + 1 ELSE created[u]
        BY <3>1 DEF Filing, TypeOK
      <3>4. ClockInv'
        <4>1. \A u \in Tasks : created[u] <= Clock /\ created[u] \in Nat
          BY DEF ClockInv, TypeOK
        <4>2. \A u \in Tasks : created'[u] <= Clock'
          BY <3>2, <3>3, <4>1
        <4> QED BY <4>2 DEF ClockInv
      <3>5. LifeInv'
        BY <1>6, <3>1, <3>2, <3>3 DEF LifeInv, Unstarted, Pending
      <3> QED BY <3>4, <3>5
    <2> QED BY <2>2, <2>3
  <1>7. ASSUME NEW t \in Tasks, Return(t) PROVE LifeInv' /\ ClockInv'
    <2>1. /\ status[t] = "running" /\ thread[t] = "done" /\ Finish(t) /\ UNCHANGED entries
          /\ status'[t] = "returned" /\ thread'[t] = "none"
          /\ \A u \in Tasks \ {t} : status'[u] = status[u] /\ thread'[u] = thread[u]
      BY <1>7 DEF Return, TypeOK, sessionVars
    <2> QED BY <1>6, <2>1
  <1>8. ASSUME NEW t \in Tasks, Cancel(t) PROVE LifeInv' /\ ClockInv'
    BY <1>8 DEF Cancel, LifeInv, ClockInv, Clock, TypeOK, Unstarted, threadVars, sessionVars, storeVars
  <1>9. ASSUME Rebooted PROVE /\ UNCHANGED entries
                              /\ \A u \in Tasks : /\ thread'[u] = "none"
                                   /\ \/ status'[u] = status[u]
                                      \/ status[u] \in Pending /\ status'[u] = "interrupted"
    BY <1>9 DEF Rebooted, TypeOK, sessionVars
  <1>10. ASSUME Rebooted, index' \subseteq index, UNCHANGED created PROVE LifeInv' /\ ClockInv'
    BY <1>9, <1>10 DEF LifeInv, ClockInv, Clock, Unstarted, Pending
  <1>11. ASSUME NEW t \in Tasks, ReturnCutShort(t) PROVE LifeInv' /\ ClockInv'
    <2>1. CASE Finish(t)
      <3>1. status'[t] = "interrupted"
        BY <1>11 DEF ReturnCutShort, Rebooted, Pending, TypeOK
      <3> QED BY <1>6, <1>9, <1>11, <2>1, <3>1 DEF ReturnCutShort
    <2>2. CASE \E gone \in SUBSET (Expired(t) \ {t}) : CutShort(gone)
      BY <1>10, <1>11, <2>2 DEF ReturnCutShort, CutShort
    <2> QED BY <1>11, <2>1, <2>2 DEF ReturnCutShort
  <1>12. ASSUME Restart PROVE LifeInv' /\ ClockInv'
    BY <1>10, <1>12 DEF Restart, storeVars
  <1>13. ASSUME ClearCutShort PROVE LifeInv' /\ ClockInv'
    BY <1>10, <1>13 DEF ClearCutShort, CutShort
  <1>14. ASSUME NEW t \in Tasks, StartRestore(t) PROVE LifeInv' /\ ClockInv'
    BY <1>14 DEF StartRestore, LifeInv, ClockInv, Clock, threadVars, sessionVars, storeVars
  <1>15. ASSUME RestoreStep PROVE LifeInv' /\ ClockInv'
    BY <1>15 DEF RestoreStep, RestoreFile, EndRestore, FailRestore, LifeInv, ClockInv, Clock,
                 threadVars, sessionVars, storeVars
  <1>16. ASSUME Clear PROVE LifeInv' /\ ClockInv'
    BY <1>16 DEF Clear, LifeInv, ClockInv, Clock, threadVars, sessionVars
  <1>17. CASE UNCHANGED vars
    BY <1>17 DEF vars, LifeInv, ClockInv, Clock, threadVars, sessionVars, storeVars
  <1>18. ASSUME ClearFails PROVE LifeInv' /\ ClockInv'
    BY <1>18 DEF ClearFails, LifeInv, ClockInv, Clock, threadVars, sessionVars
  <1> QED
    BY <1>1, <1>2, <1>3, <1>4, <1>5, <1>7, <1>8, <1>11, <1>12, <1>13, <1>14, <1>15, <1>16,
       <1>17, <1>18 DEF Next, ThreadStep

-----------------------------------------------------------------------------
(* Sessions and copies. *)

\* A step that touches neither sessions nor files.
Quiet == /\ UNCHANGED <<seen, warned, entries, file, before, disturbed>>
         /\ \A u \in Tasks : thread'[u] \in {thread[u], "none", "ready", "done"}

LEMMA QuietSteps ==
    ASSUME TypeOK, [Next]_vars
    PROVE  \/ \E t \in Tasks, f \in Files : BackUp(t, f) \/ WriteFile(t, f)
           \/ RestoreFile
           \/ Quiet
  <1>1. ASSUME NEW t \in Tasks, Submit(t) \/ Begin(t) \/ ToolEnds(t) PROVE Quiet
    BY <1>1 DEF Submit, Begin, ToolEnds, Quiet, TypeOK, threadVars, sessionVars, fileVars
  <1>2. ASSUME NEW t \in Tasks, Return(t) \/ Cancel(t) \/ StartRestore(t) PROVE Quiet
    BY <1>2 DEF Return, Cancel, StartRestore, Quiet, TypeOK, threadVars, sessionVars, fileVars
  <1>3. ASSUME Rebooted PROVE Quiet
    BY <1>3 DEF Rebooted, Quiet, sessionVars, fileVars
  <1>4. ASSUME NEW t \in Tasks, ReturnCutShort(t) PROVE Quiet
    BY <1>3, <1>4 DEF ReturnCutShort
  <1>5. ASSUME Restart \/ ClearCutShort PROVE Quiet
    BY <1>3, <1>5 DEF Restart, ClearCutShort
  <1>6. ASSUME EndRestore \/ FailRestore \/ Clear \/ ClearFails PROVE Quiet
    BY <1>6 DEF EndRestore, FailRestore, Clear, ClearFails, Quiet, threadVars, sessionVars, fileVars
  <1>7. CASE UNCHANGED vars
    BY <1>7 DEF vars, Quiet, threadVars, sessionVars, fileVars
  <1> QED BY <1>1, <1>2, <1>4, <1>5, <1>6, <1>7 DEF Next, ThreadStep, RestoreStep

\* The three fields that a write changes, or a tool that fails before it.
LEMMA WriteFileFacts ==
    ASSUME TypeOK, NEW t \in Tasks, NEW f \in Files, WriteFile(t, f)
    PROVE  /\ thread[t] = f /\ thread' \in {[thread EXCEPT ![t] = "ready"], [thread EXCEPT ![t] = "done"]}
           /\ UNCHANGED <<status, seen, warned, entries, stored, index, created, damaged, since>>
           /\ \/ UNCHANGED <<file, before, disturbed, restoring>>
              \/ /\ Overwritten(f, t, t)
                 /\ \A u \in Tasks, g \in Files :
                       before'[u][g] = IF u = t /\ g = f /\ ~Wrote(t, f) THEN file[f] ELSE before[u][g]
                 /\ restoring = NoRestore => restoring' = NoRestore
                 /\ restoring # NoRestore =>
                       restoring' = [restoring EXCEPT !.dirty = @ \cup {f}]
  <1>1. /\ thread[t] = f
        /\ thread' \in {[thread EXCEPT ![t] = "ready"], [thread EXCEPT ![t] = "done"]}
        /\ UNCHANGED <<status, seen, warned, entries, stored, index, created, damaged, since>>
    BY DEF WriteFile, sessionVars, storeVars
  <1>2. CASE UNCHANGED <<fileVars, restoring>>
    BY <1>1, <1>2 DEF fileVars
  <1>3. CASE /\ Overwritten(f, t, t)
             /\ before' = [before EXCEPT ![t][f] = IF @ = "unwritten" THEN file[f] ELSE @]
             /\ restoring' = IF LoopIsFree THEN restoring
                             ELSE [restoring EXCEPT !.dirty = @ \cup {f}]
    <2>1. \A u \in Tasks, g \in Files :
             before'[u][g] = IF u = t /\ g = f /\ ~Wrote(t, f) THEN file[f] ELSE before[u][g]
      BY <1>3 DEF TypeOK, Wrote
    <2> QED BY <1>1, <1>3, <2>1 DEF LoopIsFree
  <1> QED BY <1>2, <1>3 DEF WriteFile

LEMMA SessionNext ==
    ASSUME TypeOK, SessionInv, [Next]_vars
    PROVE  SessionInv'
  <1> USE DEF Wrote, Listed
  <1>1. ASSUME NEW t \in Tasks, NEW f \in Files, BackUp(t, f) PROVE SessionInv'
    <2> DEFINE e == [path |-> f, was |-> file[f]]
    <2>1. /\ thread' = [thread EXCEPT ![t] = f] /\ seen' = [seen EXCEPT ![t] = @ \cup {f}]
          /\ UNCHANGED before
          /\ \A u \in Tasks \ {t} : entries'[u] = entries[u] /\ warned'[u] = warned[u]
      BY <1>1, BackUpFacts
    <2>2. /\ thread'[t] = f /\ seen'[t] = seen[t] \cup {f}
          /\ \A u \in Tasks \ {t} : thread'[u] = thread[u] /\ seen'[u] = seen[u]
      BY <2>1 DEF TypeOK
    <2>3. CASE /\ f \notin seen[t] /\ warned'[t] = warned[t]
               /\ entries'[t] = Append(entries[t], e)
      <3>1. entries[t] \in Seq(Entries) BY DEF TypeOK
      <3>2. e \in Entries BY DEF Entries, TypeOK
      <3>3. /\ DOMAIN entries'[t] = 1..(Len(entries[t]) + 1) /\ Len(entries[t]) \in Nat
            /\ DOMAIN entries[t] = 1..Len(entries[t])
            /\ entries'[t][Len(entries[t]) + 1].path = f
            /\ \A n \in DOMAIN entries[t] : entries'[t][n] = entries[t][n]
        BY <2>3, <3>1, <3>2
      <3>4. \A n \in DOMAIN entries'[t] : entries'[t][n].path \in seen'[t]
        BY <2>2, <3>3 DEF SessionInv
      <3>5. \A m, n \in DOMAIN entries'[t] :
               entries'[t][m].path = entries'[t][n].path => m = n
        BY <2>3, <3>3 DEF SessionInv
      <3>6. \A g \in seen'[t] : g \in warned'[t] \/ \E n \in DOMAIN entries'[t] : entries'[t][n].path = g
        BY <2>2, <2>3, <3>3 DEF SessionInv
      <3> QED BY <2>1, <2>2, <3>4, <3>5, <3>6 DEF SessionInv
    <2>4. CASE /\ entries'[t] = entries[t] /\ warned[t] \subseteq warned'[t]
               /\ f \in warned'[t] \cup seen[t]
      BY <2>1, <2>2, <2>4 DEF SessionInv
    <2> QED BY <1>1, <2>3, <2>4, BackUpFacts
  <1>2. ASSUME NEW t \in Tasks, NEW f \in Files, WriteFile(t, f) PROVE SessionInv'
    <2>1. thread[t] = f /\ UNCHANGED <<seen, warned, entries>>
      BY <1>2, WriteFileFacts
    <2>2. \A u \in Tasks : thread'[u] \in {thread[u], "ready", "done"}
      <3>1. thread' \in {[thread EXCEPT ![t] = "ready"], [thread EXCEPT ![t] = "done"]}
        BY <1>2, WriteFileFacts
      <3> QED BY <3>1 DEF TypeOK
    <2>3. \A u \in Tasks, g \in Files : before'[u][g] = before[u][g] \/ (u = t /\ g = f)
      BY <1>2, WriteFileFacts
    <2>4. \A g \in Files : g \notin {"ready", "done"} BY NamesAssumption DEF Reserved
    <2> QED BY <2>1, <2>2, <2>3, <2>4 DEF SessionInv
  <1>3. CASE RestoreFile
    BY <1>3 DEF RestoreFile, SessionInv, threadVars, sessionVars
  <1>4. CASE Quiet
    <2>1. \A g \in Files : g \notin {"none", "ready", "done"} BY NamesAssumption DEF Reserved
    <2> QED BY <1>4, <2>1 DEF Quiet, SessionInv
  <1> QED BY <1>1, <1>2, <1>3, <1>4, QuietSteps

\* Somebody's write changes one file, and disturbs the sessions that have copied
\* it and not written it yet.
LEMMA OverwrittenFacts ==
    ASSUME TypeOK, NEW f \in Files, NEW c, NEW who, Overwritten(f, c, who)
    PROVE  /\ file'[f] = c /\ \A g \in Files \ {f} : file'[g] = file[g]
           /\ \A u \in Tasks : disturbed[u] \subseteq disturbed'[u]
           /\ \A u \in Tasks \ {who} :
                 f \in seen[u] /\ ~Wrote(u, f) => f \in disturbed'[u]
  BY DEF Overwritten, TypeOK, Wrote

LEMMA CopyNext ==
    ASSUME TypeOK, SessionInv, ProgressInv, CopyInv, [Next]_vars
    PROVE  CopyInv'
  <1>1. ASSUME NEW t \in Tasks, NEW f \in Files, BackUp(t, f) PROVE CopyInv'
    <2> DEFINE e == [path |-> f, was |-> file[f]]
    <2>1. /\ UNCHANGED <<file, before, disturbed>>
          /\ \A u \in Tasks \ {t} : entries'[u] = entries[u]
      BY <1>1, BackUpFacts
    <2>2. CASE f \notin seen[t] /\ entries'[t] = Append(entries[t], e)
      <3>1. entries[t] \in Seq(Entries) /\ e \in Entries
        BY DEF Entries, TypeOK
      <3>2. /\ DOMAIN entries'[t] = 1..(Len(entries[t]) + 1) /\ Len(entries[t]) \in Nat
            /\ DOMAIN entries[t] = 1..Len(entries[t])
            /\ entries'[t][Len(entries[t]) + 1] = e
            /\ \A n \in DOMAIN entries[t] : entries'[t][n] = entries[t][n]
        BY <2>2, <3>1
      <3>3. ~Wrote(t, f) BY <2>2 DEF SessionInv
      <3>4. \A n \in DOMAIN entries'[t] : n \in DOMAIN entries[t] \/ entries'[t][n] = e
        BY <3>2
      <3> QED BY <2>1, <3>2, <3>3, <3>4 DEF CopyInv, Wrote
    <2>3. CASE entries'[t] = entries[t]
      BY <2>1, <2>3 DEF CopyInv, Wrote
    <2> QED BY <1>1, <2>2, <2>3, BackUpFacts
  <1>2. ASSUME NEW u \in Tasks, NEW n \in DOMAIN entries[u]
        PROVE  entries[u][n] \in Entries
    BY DEF TypeOK
  <1>3. ASSUME NEW t \in Tasks, NEW f \in Files, WriteFile(t, f) PROVE CopyInv'
    <2>1. UNCHANGED entries BY <1>3, WriteFileFacts
    <2>2. CASE UNCHANGED <<file, before, disturbed>>
      BY <2>1, <2>2 DEF CopyInv, Wrote
    <2>3. CASE /\ Overwritten(f, t, t)
               /\ \A u \in Tasks, g \in Files :
                     before'[u][g] = IF u = t /\ g = f /\ ~Wrote(t, f) THEN file[f]
                                     ELSE before[u][g]
      <3>1. file[f] # "unwritten"
        BY NamesAssumption DEF TypeOK, Contents, Reserved
      <3>2. SUFFICES ASSUME NEW u \in Tasks, NEW n \in DOMAIN entries[u],
                            entries[u][n].path \notin disturbed'[u]
                     PROVE  entries[u][n].was =
                               IF before'[u][entries[u][n].path] # "unwritten"
                               THEN before'[u][entries[u][n].path]
                               ELSE file'[entries[u][n].path]
        BY <2>1 DEF CopyInv, Wrote
      <3> DEFINE p == entries[u][n].path
      <3>3. p \in Files /\ p \in seen[u]
        BY <1>2 DEF Entries, SessionInv
      <3>4. p \notin disturbed[u] BY <2>3, <3>2, OverwrittenFacts
      <3>5. entries[u][n].was = IF Wrote(u, p) THEN before[u][p] ELSE file[p]
        BY <3>4 DEF CopyInv
      <3>6. CASE p = f /\ ~Wrote(u, f)
        <4>1. u = t BY <2>3, <3>2, <3>3, <3>6, OverwrittenFacts
        <4> QED BY <2>3, <3>1, <3>5, <3>6, <4>1 DEF Wrote
      <3>7. CASE ~(p = f /\ ~Wrote(u, f))
        <4>1. before'[u][p] = before[u][p] BY <2>3, <3>3, <3>7
        <4>2. Wrote(u, p) \/ file'[p] = file[p] BY <2>3, <3>3, <3>7, OverwrittenFacts
        <4> QED BY <3>5, <4>1, <4>2 DEF Wrote
      <3> QED BY <3>6, <3>7
    <2> QED BY <1>3, <2>2, <2>3, WriteFileFacts
  <1>4. CASE RestoreFile
    <2>1. /\ UNCHANGED <<entries, before>>
          /\ Overwritten(Restored.path, Restored.was, "none")
      BY <1>4 DEF RestoreFile, sessionVars
    <2>2. Restored.path \in Files
      BY <1>4, RestoredEntry DEF RestoreFile, NoRestore, Entries
    <2>3. "none" \notin Tasks BY NamesAssumption DEF Reserved
    <2>4. SUFFICES ASSUME NEW u \in Tasks, NEW n \in DOMAIN entries[u],
                          entries[u][n].path \notin disturbed'[u]
                   PROVE  entries[u][n].was = IF Wrote(u, entries[u][n].path)
                                              THEN before[u][entries[u][n].path]
                                              ELSE file'[entries[u][n].path]
      BY <2>1 DEF CopyInv, Wrote
    <2> DEFINE p == entries[u][n].path
    <2>5. p \in Files /\ p \in seen[u]
      BY <1>2 DEF Entries, SessionInv
    <2>6. p \notin disturbed[u] BY <2>1, <2>2, <2>4, OverwrittenFacts
    <2>7. entries[u][n].was = IF Wrote(u, p) THEN before[u][p] ELSE file[p]
      BY <2>6 DEF CopyInv
    <2>8. Wrote(u, p) \/ file'[p] = file[p]
      BY <2>1, <2>2, <2>3, <2>4, <2>5, OverwrittenFacts
    <2> QED BY <2>7, <2>8
  <1>5. CASE Quiet
    BY <1>5 DEF Quiet, CopyInv, Wrote
  <1> QED BY <1>1, <1>3, <1>4, <1>5, QuietSteps

-----------------------------------------------------------------------------
(* Restores. *)

\* Entries are numbered, and are entries of files.
LEMMA EntryType ==
    ASSUME TypeOK, NEW t \in Tasks, NEW n \in DOMAIN entries[t]
    PROVE  n \in Nat /\ entries[t][n].path \in Files
  <1>1. entries[t] \in Seq(Entries) BY DEF TypeOK
  <1>2. n \in Nat /\ entries[t][n] \in Entries BY <1>1
  <1> QED BY <1>2 DEF Entries

LEMMA ProgressNext ==
    ASSUME TypeOK, LifeInv, SessionInv, ProgressInv, [Next]_vars
    PROVE  ProgressInv'
  <1>1. ASSUME restoring' = NoRestore PROVE ProgressInv'
    BY <1>1 DEF ProgressInv, NoRestore
  <1>2. ASSUME UNCHANGED <<index, entries, file, restoring>> PROVE ProgressInv'
    BY <1>2 DEF ProgressInv, NoRestore
  <1>3. ASSUME NEW t \in Tasks, NEW f \in Files, BackUp(t, f) PROVE ProgressInv'
    <2>1. /\ thread[t] = "ready" /\ UNCHANGED <<index, file, restoring>>
          /\ \A u \in Tasks \ {t} : entries'[u] = entries[u]
      BY <1>3, BackUpFacts
    <2>2. CASE restoring # NoRestore
      <3>1. restoring.of \in Tasks \ {t}
        BY <2>1, <2>2, RestoredEntry DEF LifeInv
      <3> QED BY <2>1, <2>2, <3>1 DEF ProgressInv
    <2> QED BY <1>1, <2>1, <2>2
  <1>4. ASSUME NEW t \in Tasks, NEW f \in Files, WriteFile(t, f) PROVE ProgressInv'
    <2>1. UNCHANGED <<index, entries>> BY <1>4, WriteFileFacts
    <2>2. CASE UNCHANGED <<file, restoring>> BY <1>2, <2>1, <2>2
    <2>3. CASE restoring # NoRestore /\ Overwritten(f, t, t)
                 /\ restoring' = [restoring EXCEPT !.dirty = @ \cup {f}]
      <3>1. /\ restoring'.of = restoring.of /\ restoring'.left = restoring.left
            /\ restoring'.dirty = restoring.dirty \cup {f}
        BY <2>3 DEF TypeOK
      <3>2. \A g \in Files \ {f} : file'[g] = file[g]
        BY <2>3, OverwrittenFacts
      <3>3. \A n \in DOMAIN entries[restoring.of] : entries[restoring.of][n].path \in Files
        BY <2>3, RestoredEntry, EntryType
      <3> QED BY <2>1, <2>3, <3>1, <3>2, <3>3 DEF ProgressInv
    <2> QED BY <1>1, <1>4, <2>2, <2>3, WriteFileFacts
  <1>5. CASE RestoreFile
    <2>1. /\ UNCHANGED <<index, entries>> /\ restoring # NoRestore
          /\ restoring.left > 0
          /\ Overwritten(Restored.path, Restored.was, "none")
          /\ restoring' = [restoring EXCEPT !.left = @ - 1, !.dirty = @ \ {Restored.path}]
      BY <1>5 DEF RestoreFile, sessionVars, storeVars, NoRestore
    <2> DEFINE r == restoring.of
               l == restoring.left
    <2>2. /\ r \in index /\ r \in Tasks /\ l \in Nat /\ l \in DOMAIN entries[r]
          /\ l <= Len(entries[r]) /\ Len(entries[r]) \in Nat
          /\ Restored = entries[r][l] /\ Restored \in Entries
      <3>1. r \in Tasks /\ r \in index BY <2>1, RestoredEntry
      <3>2. Len(entries[r]) \in Nat /\ l \in Nat BY <3>1 DEF TypeOK
      <3> QED BY <2>1, <3>1, <3>2, RestoredEntry DEF Restored
    <2>3. /\ restoring'.of = r /\ restoring'.left = l - 1
          /\ restoring'.dirty = restoring.dirty \ {Restored.path}
      BY <2>1 DEF TypeOK
    <2>4. /\ file'[Restored.path] = Restored.was
          /\ \A g \in Files \ {Restored.path} : file'[g] = file[g]
      BY <2>1, <2>2, OverwrittenFacts DEF Entries
    <2>5. ASSUME NEW n \in DOMAIN entries[r], n > l - 1,
                 entries[r][n].path \notin restoring.dirty \ {Restored.path}
          PROVE  file'[entries[r][n].path] = entries[r][n].was
      <3>1. n \in Nat /\ entries[r][n].path \in Files
        BY <2>2, EntryType
      <3>2. CASE n = l BY <2>2, <2>4, <3>2
      <3>3. CASE n > l
        <4>1. entries[r][n].path # Restored.path
          BY <2>2, <3>1, <3>3 DEF SessionInv
        <4>2. file[entries[r][n].path] = entries[r][n].was
          BY <2>1, <2>5, <3>3, <4>1 DEF ProgressInv
        <4> QED BY <2>4, <3>1, <4>1, <4>2
      <3> QED BY <2>2, <2>5, <3>1, <3>2, <3>3
    <2>6. l - 1 <= Len(entries[r]) BY <2>2
    <2> HIDE DEF r, l
    <2> QED BY <2>1, <2>2, <2>3, <2>5, <2>6 DEF ProgressInv
  <1>6. ASSUME NEW t \in Tasks, Submit(t) \/ Begin(t) \/ ToolEnds(t) \/ Cancel(t)
        PROVE  ProgressInv'
    BY <1>2, <1>6 DEF Submit, Begin, ToolEnds, Cancel, sessionVars, storeVars, fileVars
  <1>7. ASSUME NEW t \in Tasks, StartRestore(t) PROVE ProgressInv'
    <2>1. /\ restoring'.of = t /\ restoring'.left = Len(entries[t]) /\ restoring'.dirty = {}
          /\ t \in index /\ UNCHANGED <<index, entries, file>>
      BY <1>7 DEF StartRestore, sessionVars, storeVars, fileVars
    <2>2. Len(entries[t]) \in Nat /\ \A n \in DOMAIN entries[t] : ~(n > Len(entries[t]))
      BY DEF TypeOK
    <2> QED BY <2>1, <2>2 DEF ProgressInv
  <1>8. ASSUME NEW t \in Tasks, Return(t) \/ ReturnCutShort(t) PROVE ProgressInv'
    BY <1>1, <1>8 DEF Return, ReturnCutShort, Rebooted, LoopIsFree
  <1>9. ASSUME \/ EndRestore \/ FailRestore \/ Clear \/ ClearFails
               \/ Restart \/ ClearCutShort
        PROVE  ProgressInv'
    BY <1>1, <1>9 DEF EndRestore, FailRestore, Clear, ClearFails, Restart, ClearCutShort,
                      Rebooted, LoopIsFree
  <1>10. CASE UNCHANGED vars
    BY <1>2, <1>10 DEF vars, sessionVars, storeVars, fileVars
  <1> QED
    BY <1>3, <1>4, <1>5, <1>6, <1>7, <1>8, <1>9, <1>10 DEF Next, ThreadStep, RestoreStep

-----------------------------------------------------------------------------
(* Records and their copies. *)

LEMMA WholeNext ==
    ASSUME TypeOK, LifeInv, ClockInv, WholeInv, [Next]_vars
    PROVE  WholeInv'
  <1>1. ASSUME UNCHANGED <<index, entries, stored, damaged>>,
               \A u \in Tasks : status'[u] = "running" =>
                                  status[u] = "running" \/ entries[u] = <<>>
        PROVE  WholeInv'
    BY <1>1 DEF WholeInv
  <1>2. ASSUME NEW t \in Tasks, Submit(t) \/ Begin(t) \/ Cancel(t) PROVE WholeInv'
    <2>1. UNCHANGED <<index, entries, stored, damaged>>
      BY <1>2 DEF Submit, Begin, Cancel, sessionVars, storeVars
    <2>2. \A u \in Tasks : status'[u] = "running" =>
                              status[u] \in {"running", "queued"}
      BY <1>2 DEF Submit, Begin, Cancel, TypeOK
    <2> QED BY <1>1, <2>1, <2>2 DEF LifeInv, Unstarted
  <1>3. ASSUME NEW t \in Tasks, NEW f \in Files, BackUp(t, f) PROVE WholeInv'
    <2> DEFINE e == [path |-> f, was |-> file[f]]
    <2>1. /\ thread[t] = "ready" /\ UNCHANGED <<status, index, damaged>>
          /\ \A u \in Tasks \ {t} : entries'[u] = entries[u] /\ stored'[u] = stored[u]
      BY <1>3, BackUpFacts
    <2>2. CASE /\ entries'[t] = Append(entries[t], e) /\ stored[t] \subseteq stored'[t]
               /\ file[f] # "absent" => Len(entries[t]) + 1 \in stored'[t]
      <3>1. entries[t] \in Seq(Entries) /\ e \in Entries
        BY DEF Entries, TypeOK
      <3>2. /\ entries'[t][Len(entries[t]) + 1].was = file[f]
            /\ \A n \in DOMAIN entries[t] : entries'[t][n] = entries[t][n]
            /\ \A n \in DOMAIN entries'[t] : n \in DOMAIN entries[t] \/ n = Len(entries[t]) + 1
        BY <2>2, <3>1
      <3>3. t \notin damaged /\ (t \in index \/ status[t] = "running") =>
               \A n \in DOMAIN entries'[t] :
                  entries'[t][n].was = "absent" \/ n \in stored'[t]
        BY <2>2, <3>2 DEF WholeInv
      <3> QED BY <2>1, <3>3 DEF WholeInv
    <2>3. CASE entries'[t] = entries[t] /\ stored'[t] = stored[t]
      BY <2>1, <2>3 DEF WholeInv
    <2> QED BY <1>3, <2>2, <2>3, BackUpFacts
  <1>4. ASSUME NEW t \in Tasks, StartRestore(t) \/ ToolEnds(t) \/ \E f \in Files : WriteFile(t, f)
        PROVE  WholeInv'
    BY <1>1, <1>4 DEF ToolEnds, StartRestore, WriteFile, threadVars, sessionVars, storeVars
  <1>5. ASSUME NEW t \in Tasks, status[t] = "running", Finish(t), UNCHANGED entries,
               \A u \in Tasks : status'[u] = "running" => u # t /\ status[u] = "running"
        PROVE  WholeInv'
    <2>1. \A u \in Tasks : status[u] = "running" => u \notin index
      BY DEF LifeInv
    <2>2. /\ index' \subseteq index \cup {t} /\ damaged \subseteq damaged'
          /\ \A u \in index' \ damaged' :
                (u = t /\ entries[t] = <<>>) \/ stored'[u] = stored[u]
          /\ \A u \in Tasks \ (index \cup {t}) : stored'[u] = stored[u]
      BY <1>5, FinishFacts
    <2>3. ASSUME NEW u \in Tasks \ damaged', u \in index' \/ status'[u] = "running",
                 NEW n \in DOMAIN entries[u]
          PROVE  entries[u][n].was = "absent" \/ n \in stored'[u]
      <3>1. stored'[u] = stored[u]
        BY <1>5, <2>1, <2>2, <2>3
      <3>2. u \in index \/ status[u] = "running"
        BY <1>5, <2>2, <2>3
      <3> QED BY <2>2, <2>3, <3>1, <3>2 DEF WholeInv
    <2> QED BY <1>5, <2>3 DEF WholeInv
  <1>6. ASSUME NEW t \in Tasks, Return(t) PROVE WholeInv'
    <2>1. \A u \in Tasks : status'[u] = "running" => u # t /\ status[u] = "running"
      BY <1>6 DEF Return, TypeOK
    <2> QED BY <1>5, <1>6, <2>1 DEF Return, sessionVars
  <1>7. ASSUME Rebooted PROVE UNCHANGED entries /\ \A u \in Tasks : status'[u] # "running"
    BY <1>7 DEF Rebooted, sessionVars, Pending
  <1>8. ASSUME Rebooted, NEW gone \in SUBSET Tasks, CutShort(gone) PROVE WholeInv'
    BY <1>7, <1>8, CutShortFacts DEF WholeInv
  <1>9. ASSUME NEW t \in Tasks, ReturnCutShort(t) PROVE WholeInv'
    <2>1. Expired(t) \ {t} \in SUBSET Tasks BY <1>9 DEF Expired, TypeOK
    <2>2. CASE Finish(t)
      BY <1>5, <1>7, <1>9, <2>2 DEF ReturnCutShort
    <2> QED BY <1>8, <1>9, <2>1, <2>2 DEF ReturnCutShort
  <1>10. CASE Restart
    BY <1>1, <1>7, <1>10 DEF Restart, storeVars
  <1>11. CASE RestoreStep
    BY <1>1, <1>11 DEF RestoreStep, RestoreFile, EndRestore, FailRestore, threadVars, sessionVars, storeVars
  <1>12. CASE Clear
    <2>1. /\ index' = {} /\ UNCHANGED <<status, entries>>
          /\ stored' = [t \in Tasks |-> {}] /\ damaged' = damaged \cup Directories
      BY <1>12 DEF Clear, sessionVars
    <2>2. \A u \in Tasks \ damaged' : u \notin damaged /\ stored[u] = {}
      BY <2>1 DEF Directories
    <2>3. \A u \in Tasks \ damaged' : stored'[u] = stored[u]
      BY <2>1, <2>2
    <2> QED BY <2>1, <2>2, <2>3 DEF WholeInv
  <1>13. CASE ClearCutShort
    BY <1>8, <1>13 DEF ClearCutShort, Directories
  <1>14. CASE ClearFails
    BY <1>14, ClearFailsFacts DEF WholeInv, threadVars, sessionVars
  <1>15. CASE UNCHANGED vars
    BY <1>1, <1>15 DEF vars, sessionVars, storeVars
  <1> QED
    BY <1>2, <1>3, <1>4, <1>6, <1>9, <1>10, <1>11, <1>12, <1>13, <1>14, <1>15 DEF Next, ThreadStep

LEMMA RecordNext ==
    ASSUME TypeOK, LifeInv, ClockInv, CopiesHaveRecord, [Next]_vars
    PROVE  CopiesHaveRecord'
  <1>1. ASSUME UNCHANGED storeVars, \A u \in Tasks : stored'[u] = stored[u] \/ created[u] = 0
        PROVE  CopiesHaveRecord'
    <2>1. \A u \in Tasks : created[u] > since => created[u] # 0
      BY DEF TypeOK
    <2> QED BY <1>1, <2>1 DEF storeVars, CopiesHaveRecord
  <1>2. ASSUME NEW t \in Tasks, NEW f \in Files, BackUp(t, f) PROVE CopiesHaveRecord'
    <2>1. /\ thread[t] = "ready" /\ UNCHANGED <<index, created, damaged, since>>
          /\ \A u \in Tasks \ {t} : stored'[u] = stored[u]
      BY <1>2, BackUpFacts
    <2>2. created[t] = 0 BY <2>1 DEF LifeInv
    <2> QED BY <1>1, <2>1, <2>2 DEF storeVars
  <1>3. ASSUME NEW t \in Tasks, status[t] = "running", Finish(t) PROVE CopiesHaveRecord'
    <2>1. created[t] = 0 BY <1>3 DEF LifeInv
    <2>2. /\ since' = since /\ index' \subseteq index \cup {t}
          /\ entries[t] = <<>> => created' = created
          /\ entries[t] # <<>> => (t \in index' /\ created' = Filing(t))
          /\ \A u \in Tasks : stored'[u] \subseteq stored[u]
          /\ \A u \in index : u \notin index' => stored'[u] = {}
      BY <1>3, FinishFacts
    <2>3. \A u \in Tasks : created'[u] = created[u] \/ (u = t /\ t \in index')
      BY <2>2 DEF Filing, TypeOK
    <2> QED BY <2>1, <2>2, <2>3 DEF CopiesHaveRecord, TypeOK
  <1>4. ASSUME NEW gone \in SUBSET Tasks, CutShort(gone) PROVE CopiesHaveRecord'
    <2>1. /\ (index' = index /\ since' = since) \/ since' = Clock
          /\ created' = created /\ \A u \in Tasks : stored'[u] \subseteq stored[u]
      BY <1>4, CutShortFacts
    <2>2. \A u \in Tasks : ~(created[u] > Clock)
      BY ClockType DEF ClockInv, TypeOK
    <2> QED BY <2>1, <2>2 DEF CopiesHaveRecord
  <1>5. ASSUME NEW t \in Tasks, Return(t) \/ ReturnCutShort(t) PROVE CopiesHaveRecord'
    <2>1. Expired(t) \ {t} \in SUBSET Tasks BY <1>5 DEF Expired, TypeOK
    <2> QED BY <1>3, <1>4, <1>5, <2>1 DEF Return, ReturnCutShort
  <1>6. ASSUME NEW t \in Tasks, Submit(t) \/ Begin(t) \/ Cancel(t) \/ StartRestore(t)
        PROVE  CopiesHaveRecord'
    BY <1>1, <1>6 DEF Submit, Begin, Cancel, StartRestore
  <1>7. ASSUME NEW t \in Tasks, ToolEnds(t) \/ \E f \in Files : WriteFile(t, f)
        PROVE  CopiesHaveRecord'
    BY <1>1, <1>7 DEF ToolEnds, WriteFile
  <1>8. ASSUME RestoreStep \/ Restart PROVE CopiesHaveRecord'
    BY <1>1, <1>8 DEF RestoreStep, RestoreFile, EndRestore, FailRestore, Restart
  <1>9. ASSUME Clear PROVE CopiesHaveRecord'
    BY <1>9 DEF Clear, CopiesHaveRecord
  <1>10. ASSUME ClearCutShort PROVE CopiesHaveRecord'
    BY <1>4, <1>10 DEF ClearCutShort, Directories
  <1>11. ASSUME ClearFails PROVE CopiesHaveRecord'
    BY <1>11, ClearFailsFacts DEF CopiesHaveRecord
  <1>12. CASE UNCHANGED vars
    BY <1>1, <1>12 DEF vars
  <1> QED
    BY <1>2, <1>5, <1>6, <1>7, <1>8, <1>9, <1>10, <1>11, <1>12 DEF Next, ThreadStep

-----------------------------------------------------------------------------
(* The retention. *)

LEMMA RecentIsCounted ==
    ASSUME TypeOK, ClockInv, CountInv, NEW t \in Tasks
    PROVE  Recent(t) <=> Clock - created[t] < KeepRounds
  <1>1. created[t] \in 0..Clock BY ClockType DEF TypeOK, ClockInv
  <1>2. Newer(t, Tasks, created) = Since(created[t])
    BY DEF Newer, Since
  <1> QED BY <1>1, <1>2 DEF Recent, CountInv

LEMMA CountFiled ==
    ASSUME TypeOK, ClockInv, CountInv, NEW t \in Tasks,
           created[t] = 0, created' = Filing(t)
    PROVE  CountInv'
  <1>1. Clock \in Nat /\ Clock' = Clock + 1 BY ClockType, ClockGrows
  <1>2. \A u \in Tasks : /\ created'[u] = IF u = t THEN Clock + 1 ELSE created[u]
                         /\ created[u] \in Nat /\ created[u] <= Clock
    BY DEF Filing, TypeOK, ClockInv
  <1>3. SUFFICES ASSUME NEW c \in 0..(Clock + 1)
                 PROVE  Cardinality({u \in Tasks : created'[u] > c}) = Clock + 1 - c
    BY <1>1 DEF CountInv, Since
  <1>4. CASE c = Clock + 1
    <2>1. {u \in Tasks : created'[u] > c} = {} BY <1>1, <1>2, <1>4
    <2> QED BY <1>1, <1>4, <2>1, FS_EmptySet
  <1>5. CASE c \in 0..Clock
    <2>1. {u \in Tasks : created'[u] > c} = Since(c) \cup {t} /\ t \notin Since(c)
      BY <1>1, <1>2, <1>5 DEF Since
    <2>2. IsFiniteSet(Since(c)) BY BoundsAssumption, FS_Subset DEF Since
    <2>3. Cardinality(Since(c) \cup {t}) = Cardinality(Since(c)) + 1
      BY <2>1, <2>2, FS_AddElement
    <2>4. Cardinality(Since(c)) = Clock - c BY <1>5 DEF CountInv
    <2>5. c \in Nat /\ Clock - c + 1 = Clock + 1 - c BY <1>1, <1>5
    <2> HIDE DEF Since
    <2> QED BY <2>1, <2>3, <2>4, <2>5
  <1> QED BY <1>1, <1>4, <1>5

\* When a record is made, the others that are kept are the newest of all that
\* were ever made, not only of those that are still there.
LEMMA RetentionFiled ==
    ASSUME TypeOK, ClockInv, CountInv, RetentionIsExact, NEW t \in Tasks,
           created[t] = 0, entries[t] # <<>>, Finish(t), CountInv'
    PROVE  RetentionIsExact'
  <1>1. PICK stuck \in SUBSET Expired(t) :
           /\ index' = (index \cup {t}) \ (Expired(t) \ stuck)
           /\ created' = Filing(t) /\ damaged' = damaged \cup stuck /\ since' = since
    BY DEF Finish
  <1>2. Clock \in Nat /\ Clock' = Clock + 1 BY <1>1, ClockType, ClockGrows
  <1>3. \A u \in Tasks : /\ created'[u] = IF u = t THEN Clock + 1 ELSE created[u]
                         /\ created[u] \in Nat /\ created'[u] \in 0..(Clock + 1)
    <2>1. \A u \in Tasks : created'[u] = IF u = t THEN Clock + 1 ELSE created[u]
      BY <1>1 DEF Filing, TypeOK
    <2>2. \A u \in Tasks : created[u] \in Nat /\ created[u] <= Clock
      BY DEF TypeOK, ClockInv
    <2> QED BY <1>2, <2>1, <2>2
  <1>4. KeepRounds \in Nat \ {0} /\ since \in Nat BY BoundsAssumption DEF TypeOK
  <1>5. \A u \in Tasks : Recent(u) <=> Clock - created[u] < KeepRounds
    BY RecentIsCounted
  <1> DEFINE kept == index \cup {t}
             S(c) == {v \in Tasks : created'[v] > c}
  <1>6. \A c \in 0..(Clock + 1) : Cardinality(S(c)) = Clock + 1 - c
    <2>1. \A c : Since(c)' = S(c) BY DEF Since
    <2>2. \A c \in 0..Clock' : Cardinality(Since(c)') = Clock' - c BY DEF CountInv
    <2> HIDE DEF S
    <2> QED BY <1>2, <2>1, <2>2
  <1>7. \A c : IsFiniteSet(S(c)) BY BoundsAssumption, FS_Subset
  <1>8. kept \subseteq Tasks BY DEF TypeOK
  <1> HIDE DEF kept
  <1>9. \A u \in Tasks : Recent(u)' <=> Clock + 1 - created'[u] < KeepRounds
    <2>1. \A u \in Tasks : Newer(u, Tasks, created)' = S(created'[u])
      BY DEF Newer
    <2> HIDE DEF S
    <2> QED BY <1>2, <1>3, <1>4, <1>6, <2>1 DEF Recent
  <1>10. \A u \in kept : u \in Newest(kept, created') <=>
                            Cardinality(Newer(u, kept, created')) < KeepRounds
    BY DEF Newest
  <1>11. \A v \in Tasks \ {t} : created[v] > since /\ Clock - created[v] < KeepRounds
                                   => v \in kept
    BY <1>5 DEF RetentionIsExact, kept
  <1>12. ASSUME NEW u \in Tasks, created'[u] > since, Recent(u)'
         PROVE  u \in index'
    <2>1. Clock + 1 - created'[u] < KeepRounds BY <1>9, <1>12
    <2>2. u \in kept
      BY <1>2, <1>3, <1>4, <1>11, <1>12, <2>1 DEF kept
    <2>3. Newer(u, kept, created') \subseteq S(created'[u])
      BY <1>8 DEF Newer
    <2>4. Cardinality(Newer(u, kept, created')) <= Cardinality(S(created'[u]))
          /\ Cardinality(Newer(u, kept, created')) \in Nat
      BY <1>7, <2>3, FS_Subset, FS_CardinalityType
    <2>5. Cardinality(Newer(u, kept, created')) < KeepRounds
      <3> HIDE DEF S
      <3>1. Cardinality(S(created'[u])) = Clock + 1 - created'[u] BY <1>3, <1>6
      <3> QED BY <1>2, <1>3, <1>4, <2>1, <2>4, <3>1
    <2>6. u \notin Expired(t)
      BY <1>1, <1>10, <2>2, <2>5 DEF Expired, kept
    <2> QED BY <1>1, <2>2, <2>6 DEF kept
  <1>13. ASSUME NEW u \in Tasks, created'[u] > since, u \in index', u \notin damaged'
         PROVE  Recent(u)'
    <2>1. u \in kept /\ u \in Newest(kept, created')
      BY <1>1, <1>13 DEF Expired, kept
    <2>2. Cardinality(Newer(u, kept, created')) < KeepRounds BY <1>10, <2>1
    <2>3. SUFFICES ASSUME ~(Clock + 1 - created'[u] < KeepRounds) PROVE FALSE
      BY <1>9
    <2> DEFINE c == Clock + 1 - KeepRounds
    <2>4. c \in 0..(Clock + 1) /\ created'[u] <= c /\ since < c
      BY <1>2, <1>3, <1>4, <1>13, <2>3
    <2>5. Cardinality(S(c)) = KeepRounds
      <3> HIDE DEF S
      <3>1. Cardinality(S(c)) = Clock + 1 - c BY <1>6, <2>4
      <3> QED BY <1>2, <1>4, <3>1
    <2>6. S(c) \subseteq Newer(u, kept, created')
      <3>1. ASSUME NEW v \in Tasks, created'[v] > c PROVE v \in kept /\ created'[v] > created'[u]
        <4>1. created'[v] > created'[u] /\ created'[v] > since
          BY <1>2, <1>3, <1>4, <2>4, <3>1
        <4>2. CASE v = t BY <4>1, <4>2 DEF kept
        <4>3. CASE v # t
          BY <1>2, <1>3, <1>4, <1>11, <2>4, <3>1, <4>1, <4>3
        <4> QED BY <4>1, <4>2, <4>3
      <3> QED BY <3>1 DEF Newer
    <2>7. IsFiniteSet(Newer(u, kept, created'))
      BY <1>8, BoundsAssumption, FS_Subset DEF Newer
    <2>8. Cardinality(S(c)) <= Cardinality(Newer(u, kept, created'))
          /\ Cardinality(Newer(u, kept, created')) \in Nat
      BY <2>6, <2>7, FS_Subset, FS_CardinalityType
    <2> HIDE DEF c, S
    <2> QED BY <1>4, <2>2, <2>5, <2>8
  <1> QED BY <1>1, <1>12, <1>13 DEF RetentionIsExact

LEMMA RetentionNext ==
    ASSUME TypeOK, LifeInv, ClockInv, CountInv, RetentionIsExact, [Next]_vars
    PROVE  CountInv' /\ RetentionIsExact'
  <1>1. ASSUME UNCHANGED storeVars PROVE CountInv' /\ RetentionIsExact'
    BY <1>1 DEF storeVars, CountInv, Clock, Since, RetentionIsExact, Recent, Newer
  <1>2. ASSUME NEW t \in Tasks, status[t] = "running", Finish(t)
        PROVE  CountInv' /\ RetentionIsExact'
    <2>1. CASE entries[t] = <<>>
      BY <1>1, <1>2, <2>1 DEF Finish
    <2>2. CASE entries[t] # <<>>
      <3>1. created[t] = 0 /\ created' = Filing(t)
        BY <1>2, <2>2, FinishFacts DEF LifeInv
      <3>2. CountInv' BY <3>1, CountFiled
      <3> QED BY <1>2, <2>2, <3>1, <3>2, RetentionFiled
    <2> QED BY <2>1, <2>2
  <1>3. ASSUME UNCHANGED created, damaged \subseteq damaged',
               \/ index' = index /\ since' = since
               \/ since' = Clock
        PROVE  CountInv' /\ RetentionIsExact'
    <2>1. CountInv' BY <1>3 DEF CountInv, Clock, Since
    <2>2. \A u \in Tasks : ~(created[u] > Clock)
      BY ClockType DEF ClockInv, TypeOK
    <2>3. \A u \in Tasks : Recent(u)' = Recent(u) BY <1>3 DEF Recent, Newer
    <2>4. RetentionIsExact' BY <1>3, <2>2, <2>3 DEF RetentionIsExact
    <2> QED BY <2>1, <2>4
  <1>4. ASSUME NEW t \in Tasks, Return(t) \/ ReturnCutShort(t)
        PROVE  CountInv' /\ RetentionIsExact'
    BY <1>2, <1>3, <1>4 DEF Return, ReturnCutShort, CutShort
  <1>5. ASSUME NEW t \in Tasks, Submit(t) \/ Begin(t) \/ Cancel(t) \/ StartRestore(t)
        PROVE  CountInv' /\ RetentionIsExact'
    BY <1>1, <1>5 DEF Submit, Begin, Cancel, StartRestore
  <1>6. ASSUME NEW t \in Tasks, ThreadStep(t) PROVE CountInv' /\ RetentionIsExact'
    BY <1>1, <1>6 DEF ThreadStep, ToolEnds, BackUp, WriteFile
  <1>7. ASSUME RestoreStep \/ Restart PROVE CountInv' /\ RetentionIsExact'
    BY <1>1, <1>7 DEF RestoreStep, RestoreFile, EndRestore, FailRestore, Restart
  <1>8. ASSUME Clear \/ ClearFails \/ ClearCutShort PROVE CountInv' /\ RetentionIsExact'
    BY <1>3, <1>8 DEF Clear, ClearFails, ClearCutShort, CutShort
  <1>9. CASE UNCHANGED vars
    BY <1>1, <1>9 DEF vars
  <1> QED BY <1>4, <1>5, <1>6, <1>7, <1>8, <1>9 DEF Next

-----------------------------------------------------------------------------
(* The theorems. *)

LEMMA InitIInv == Init => IInv
  <1> SUFFICES ASSUME Init PROVE IInv OBVIOUS
  <1>1. TypeOK BY TypeInit
  <1>2. \A t \in Tasks : /\ status[t] = "none" /\ thread[t] = "none" /\ seen[t] = {}
                         /\ entries[t] = <<>> /\ stored[t] = {} /\ created[t] = 0
                         /\ \A f \in Files : before[t][f] = "unwritten"
    BY DEF Init
  <1>3. index = {} /\ restoring = NoRestore BY DEF Init
  <1>4. "none" \notin Files BY NamesAssumption DEF Reserved
  <1>5. LifeInv BY <1>2, <1>3 DEF LifeInv, Unstarted
  <1>6. SessionInv BY <1>2, <1>4 DEF SessionInv, Wrote
  <1>7. CopyInv /\ WholeInv /\ CopiesHaveRecord
    BY <1>2 DEF CopyInv, WholeInv, CopiesHaveRecord
  <1>8. ProgressInv BY <1>3 DEF ProgressInv
  <1>9. ClockInv BY <1>1, <1>2, ClockType DEF ClockInv
  <1>10. CountInv /\ RetentionIsExact
    <2>1. Clock = 0 /\ Since(0) = {}
      <3>1. {t \in Tasks : created[t] # 0} = {} BY <1>2
      <3>2. {t \in Tasks : created[t] > 0} = {} BY <1>2
      <3> QED BY <3>1, <3>2, FS_EmptySet DEF Clock, Since
    <2>2. since = 0 BY DEF Init
    <2>3. RetentionIsExact BY <1>2, <2>2 DEF RetentionIsExact
    <2>4. Cardinality(Since(0)) = Clock - 0 BY <2>1, FS_EmptySet
    <2>5. 0..Clock = {0} BY <2>1
    <2>6. CountInv BY <2>4, <2>5 DEF CountInv
    <2> QED BY <2>3, <2>6
  <1> QED BY <1>1, <1>5, <1>6, <1>7, <1>8, <1>9, <1>10 DEF IInv

LEMMA IInvNext == IInv /\ [Next]_vars => IInv'
  <1> SUFFICES ASSUME IInv, [Next]_vars PROVE IInv' OBVIOUS
  <1> USE DEF IInv
  <1>1. TypeOK' BY TypeNext
  <1>2. LifeInv' /\ ClockInv' BY LifeNext
  <1>3. SessionInv' /\ CopyInv' BY SessionNext, CopyNext
  <1>4. ProgressInv' BY ProgressNext
  <1>5. WholeInv' /\ CopiesHaveRecord' BY WholeNext, RecordNext
  <1>6. CountInv' /\ RetentionIsExact' BY RetentionNext
  <1> QED BY <1>1, <1>2, <1>3, <1>4, <1>5, <1>6

LEMMA Inductive == Spec => []IInv
  BY InitIInv, IInvNext, PTL DEF Spec

\* Types, for any tasks and files and every choice of controls.
THEOREM TypeCorrect == Spec => []TypeOK
  <1>1. IInv => TypeOK BY DEF IInv
  <1> QED BY Inductive, <1>1, PTL

\* backup_file: what a session copies is what its task then finds, unless others
\* write the file in between.
THEOREM CopiesTrue == Spec => []CopiesAreOriginals
  <1>1. IInv => CopiesAreOriginals
    BY DEF IInv, CopyInv, CopiesAreOriginals
  <1> QED BY Inductive, <1>1, PTL

\* restore: whatever the other tools and threads do, a restore that ends has put
\* back what its task had found.
THEOREM RestoreSound == Spec => []RestoreUndoes
  <1>1. ASSUME IInv PROVE RestoreUndoes
    <2>1. SUFFICES ASSUME restoring.of # "none", restoring.left = 0,
                          NEW f \in Files, NEW n \in DOMAIN entries[restoring.of],
                          f \notin restoring.dirty \cup disturbed[restoring.of],
                          entries[restoring.of][n].path = f, Wrote(restoring.of, f)
                   PROVE  file[f] = before[restoring.of][f]
      BY DEF RestoreUndoes, Listed
    <2> DEFINE t == restoring.of
    <2>2. t \in Tasks /\ restoring # NoRestore
      BY <1>1, <2>1 DEF IInv, TypeOK, NoRestore
    <2>3. n > restoring.left
      <3>1. entries[t] \in Seq(Entries) BY <1>1, <2>2 DEF IInv, TypeOK
      <3> QED BY <2>1, <3>1
    <2>4. file[f] = entries[t][n].was
      BY <1>1, <2>1, <2>2, <2>3 DEF IInv, ProgressInv
    <2>5. entries[t][n].was = before[t][f]
      BY <1>1, <2>1, <2>2 DEF IInv, CopyInv
    <2> QED BY <2>4, <2>5
  <1> QED BY Inductive, <1>1, PTL

\* A record has all its copies, unless a clear met its open session, a clear or a
\* retention could not delete a directory, or the process died while one of them did.
THEOREM RecordsWhole == Spec => []RestorePointsAreWhole
  <1>1. IInv => RestorePointsAreWhole
    BY DEF IInv, TypeOK, WholeInv, RestorePointsAreWhole
  <1> QED BY Inductive, <1>1, PTL

\* _enforce_retention: however tools end and directories fail to be deleted, the
\* store holds the newest keep_rounds of all records made since it was emptied,
\* and else only records that could not be deleted.
THEOREM RetentionExact == Spec => []RetentionIsExact
  <1>1. IInv => RetentionIsExact BY DEF IInv
  <1> QED BY Inductive, <1>1, PTL

\* finish, the retention and clear: copies do not outlive their record.
THEOREM RecordsOwnCopies == Spec => []CopiesHaveRecord
  <1>1. IInv => CopiesHaveRecord BY DEF IInv
  <1> QED BY Inductive, <1>1, PTL

\* A tool that returns leaves a restore point with every file it wrote, or has
\* warned that there is none; the retention never takes the record just made.
THEOREM ReturnRestorable == Spec => ReturnedIsRestorable
  <1>1. ASSUME IInv, [Next]_vars, NEW t \in Tasks, NEW f \in Files,
               status[t] = "running", status'[t] = "returned", Wrote(t, f)
        PROVE  Restorable(t, f)
    <2>1. Return(t)
      <3>1. ~Rebooted BY <1>1 DEF Rebooted, Pending
      <3>2. status' # status BY <1>1
      <3>3. ASSUME NEW u \in Tasks, Submit(u) \/ Begin(u) \/ Cancel(u) PROVE FALSE
        BY <1>1, <3>3 DEF Submit, Begin, Cancel, IInv, TypeOK
      <3>4. ASSUME NEW u \in Tasks, ThreadStep(u) \/ StartRestore(u) PROVE FALSE
        BY <3>2, <3>4 DEF ThreadStep, ToolEnds, BackUp, WriteFile, StartRestore
      <3>5. ~(RestoreStep \/ Clear \/ ClearFails \/ UNCHANGED vars)
        BY <3>2 DEF RestoreStep, RestoreFile, EndRestore, FailRestore, Clear, ClearFails, vars
      <3>6. ASSUME NEW u \in Tasks, Return(u) PROVE u = t
        BY <1>1, <3>6 DEF Return, IInv, TypeOK
      <3> QED
        BY <1>1, <3>1, <3>3, <3>4, <3>5, <3>6 DEF Next, Restart, ClearCutShort, ReturnCutShort
    <2>2. f \in warned[t] \/ Listed(t, f)
      BY <1>1 DEF IInv, SessionInv
    <2>3. Listed(t, f) => entries[t] # <<>>
      BY DEF Listed
    <2>4. Finish(t) BY <2>1 DEF Return
    <2>5. entries[t] # <<>> => t \in index'
      BY <1>1, <2>4, FinishFacts DEF IInv
    <2> QED BY <2>2, <2>3, <2>5 DEF Restorable
  <1>2. IInv /\ [Next]_vars =>
           [\A t \in Tasks, f \in Files :
               status[t] = "running" /\ status'[t] = "returned" /\ Wrote(t, f)
                  => Restorable(t, f)]_vars
    BY <1>1
  <1> QED BY InitIInv, IInvNext, <1>2, PTL DEF Spec, ReturnedIsRestorable
=============================================================================
