------------------------------ MODULE ToolTasks ------------------------------
(***************************************************************************)
(* Tool tasks and their restore points: a task's coroutine runs on the      *)
(* event loop, the tool's own work in a worker thread that copies each file *)
(* to the task's backup session before it writes it; when the tool returns  *)
(* the session becomes a record of the backup store, older records are      *)
(* deleted, and the user may restore or clear them.                         *)
(*                                                                          *)
(* A step of the loop is one stretch between two awaits; the threads go on  *)
(* in between, and also while the loop is busy restoring file after file.   *)
(* Left out: tools that do not write, or write with backups switched off,   *)
(* the tool's arguments and output, logs, refused submissions, and those    *)
(* that are awaited (they start at once and nobody can cancel them).  The   *)
(* content of a file is what it was at first or the name of the last task   *)
(* that wrote it; a deletion counts as a write.                             *)
(***************************************************************************)
EXTENDS Naturals, Sequences, FiniteSets

CONSTANTS
    Tasks,       \* tool task ids
    Files,       \* paths
    KeepRounds,  \* keep_rounds
    MaxWrites,   \* bound on the writes of all tools
    Controls     \* what users and the machine do: "cancel", "clear", "restart",
                 \* "unreadable" (files that cannot be copied), "locked"
                 \* (directories that cannot be deleted)

Reserved == {"original", "absent", "unwritten", "none", "ready", "done"}

ASSUME NamesAssumption  == (Tasks \cup Files) \cap Reserved = {}
ASSUME BoundsAssumption == /\ IsFiniteSet(Tasks) /\ KeepRounds \in Nat \ {0}
                           /\ MaxWrites \in Nat

VARIABLES
    status,     \* status of the records; success, partial and failure are
                \* "returned", the failure that recovery writes is "interrupted"
    thread,     \* what the worker thread does, or the file it is about to write
    writes,     \* writes that the threads have made or are about to make
    seen,       \* _seen of the session
    warned,     \* backup_warnings: files that could not be copied
    entries,    \* files of the session: path, and the content that was copied
    stored,     \* the entries whose copy is in the session's directory
    index,      \* the tasks with a record in the backup store
    created,    \* created_at of the records, 0 if there never was one
    file,       \* the user's files
    restoring,  \* the restore that goes on: record, entries left, and the files
                \* that threads have written since it began
    before,     \* (history) the content a task found when it first wrote a file
    disturbed,  \* (history) files that others wrote between a task's copy and write
    damaged,    \* (history) tasks whose directory was deleted, or partly, and not
                \* together with their record
    since       \* (history) created_at of the last record when the index was emptied

threadVars  == <<thread, writes>>
sessionVars == <<seen, warned, entries>>
storeVars   == <<index, created, damaged, since>>
fileVars    == <<file, before, disturbed>>
vars == <<status, threadVars, sessionVars, stored, storeVars, fileVars, restoring>>

Contents  == {"original", "absent"} \cup Tasks
Entries   == [path : Files, was : Contents]
Pending   == {"queued", "running", "waiting_confirmation"}
Statuses  == {"none", "returned", "cancelled", "interrupted"} \cup Pending
NoRestore == [of |-> "none", left |-> 0, dirty |-> {}]

\* The event loop does one thing at a time.
LoopIsFree == restoring = NoRestore

-----------------------------------------------------------------------------
(* Submission and start. *)

\* submit: the task waits to be confirmed, or is queued.
Submit(t) ==
    /\ LoopIsFree /\ status[t] = "none"
    /\ \E first \in {"waiting_confirmation", "queued"} :
          status' = [status EXCEPT ![t] = first]
    /\ UNCHANGED <<threadVars, sessionVars, stored, storeVars, fileVars, restoring>>

\* _run up to the await of the handler.
Begin(t) ==
    /\ LoopIsFree /\ status[t] = "queued"
    /\ status' = [status EXCEPT ![t] = "running"]
    /\ thread' = [thread EXCEPT ![t] = "ready"]
    /\ UNCHANGED <<writes, sessionVars, stored, storeVars, fileVars, restoring>>

-----------------------------------------------------------------------------
(* The worker thread. *)

\* BackupSession.backup_file copies a file once; if that fails it is not tried
\* again, and the task writes the file all the same.
BackUp(t, f) ==
    /\ thread[t] = "ready" /\ writes < MaxWrites
    /\ thread' = [thread EXCEPT ![t] = f]
    /\ writes' = writes + 1
    /\ seen' = [seen EXCEPT ![t] = @ \cup {f}]
    /\ \/ /\ f \notin seen[t]
          /\ entries' = [entries EXCEPT ![t] = Append(@, [path |-> f, was |-> file[f]])]
          /\ stored' = [stored EXCEPT ![t] =
                           @ \cup {n \in {Len(entries[t]) + 1} : file[f] # "absent"}]
          /\ UNCHANGED warned
       \/ /\ f \notin seen[t] /\ "unreadable" \in Controls
          /\ warned' = [warned EXCEPT ![t] = @ \cup {f}]
          /\ UNCHANGED <<entries, stored>>
       \/ f \in seen[t] /\ UNCHANGED <<warned, entries, stored>>
    /\ UNCHANGED <<status, storeVars, fileVars, restoring>>

\* Somebody writes f.
Overwritten(f, c, who) ==
    /\ file' = [file EXCEPT ![f] = c]
    /\ disturbed' = [t \in Tasks |->
                       IF t # who /\ f \in seen[t] /\ before[t][f] = "unwritten"
                       THEN disturbed[t] \cup {f} ELSE disturbed[t]]

WriteFile(t, f) ==
    /\ thread[t] = f
    /\ \/ /\ thread' = [thread EXCEPT ![t] = "done"]
          /\ UNCHANGED <<fileVars, restoring>>
       \/ /\ thread' = [thread EXCEPT ![t] = "ready"]
          /\ Overwritten(f, t, t)
          /\ before' = [before EXCEPT ![t][f] = IF @ = "unwritten" THEN file[f] ELSE @]
          /\ restoring' = IF LoopIsFree THEN restoring
                          ELSE [restoring EXCEPT !.dirty = @ \cup {f}]
    /\ UNCHANGED <<status, writes, sessionVars, stored, storeVars>>

\* It returns or raises.
ToolEnds(t) ==
    /\ thread[t] = "ready"
    /\ thread' = [thread EXCEPT ![t] = "done"]
    /\ UNCHANGED <<status, writes, sessionVars, stored, storeVars, fileVars, restoring>>

-----------------------------------------------------------------------------
(* The end of a task. *)

\* Variant for mutation: the records are sorted the other way round.
NewerReversed(t, records, at) == {u \in records : at[u] < at[t]}

Newer(t, records, at) == {u \in records : at[u] > at[t]}

\* The records that _enforce_retention keeps.
Newest(records, at) == {t \in records : Cardinality(Newer(t, records, at)) < KeepRounds}

Clock == Cardinality({t \in Tasks : created[t] # 0})

Filing(t)   == [created EXCEPT ![t] = Clock + 1]
Expired(t)  == (index \cup {t}) \ Newest(index \cup {t}, Filing(t))

\* The directories in gone are deleted, but those in stuck cannot be and keep some
\* of their copies.
Pruned(gone, stuck) ==
    \E rest \in [stuck -> SUBSET (1..MaxWrites)] :
        /\ \A u \in stuck : rest[u] \subseteq stored[u]
        /\ stored' = [u \in Tasks |-> IF u \in gone \ stuck THEN {}
                                      ELSE IF u \in stuck THEN rest[u] ELSE stored[u]]

\* Variant for mutation: expired records are not taken from the index.
FinishKeeping(t) ==
    IF entries[t] = <<>>
    THEN /\ stored' = [stored EXCEPT ![t] = {}]
         /\ UNCHANGED storeVars
    ELSE \E stuck \in SUBSET Expired(t) :
            /\ stuck # {} => "locked" \in Controls
            /\ Pruned(Expired(t), stuck)
            /\ index' = index \cup {t}
            /\ created' = Filing(t)
            /\ damaged' = damaged \cup stuck
            /\ UNCHANGED since

\* BackupSession.finish: a session without files leaves nothing behind; an expired
\* record goes with its directory, unless that cannot be deleted.
Finish(t) ==
    IF entries[t] = <<>>
    THEN /\ stored' = [stored EXCEPT ![t] = {}]
         /\ UNCHANGED storeVars
    ELSE \E stuck \in SUBSET Expired(t) :
            /\ stuck # {} => "locked" \in Controls
            /\ Pruned(Expired(t), stuck)
            /\ index' = (index \cup {t}) \ (Expired(t) \ stuck)
            /\ created' = Filing(t)
            /\ damaged' = damaged \cup stuck
            /\ UNCHANGED since

\* The handler has returned or raised, and _run goes on to its end.
Return(t) ==
    /\ LoopIsFree /\ status[t] = "running" /\ thread[t] = "done"
    /\ status' = [status EXCEPT ![t] = "returned"]
    /\ thread' = [thread EXCEPT ![t] = "none"]
    /\ Finish(t)
    /\ UNCHANGED <<writes, sessionVars, fileVars, restoring>>

\* cancel: the coroutine ends, its thread does not, its session is dropped.
Cancel(t) ==
    /\ "cancel" \in Controls
    /\ LoopIsFree /\ status[t] = "running"
    /\ status' = [status EXCEPT ![t] = "cancelled"]
    /\ UNCHANGED <<threadVars, sessionVars, stored, storeVars, fileVars, restoring>>

-----------------------------------------------------------------------------
(* Restoring and clearing. *)

StartRestore(t) ==
    /\ LoopIsFree /\ t \in index
    /\ restoring' = [of |-> t, left |-> Len(entries[t]), dirty |-> {}]
    /\ UNCHANGED <<status, threadVars, sessionVars, stored, storeVars, fileVars>>

\* The next entry, the last one first.
Restored == entries[restoring.of][restoring.left]

\* Variant for mutation: files that the task created are not removed.
RestoreOldFiles ==
    /\ restoring.left > 0
    /\ Restored.was = "absent" \/ restoring.left \in stored[restoring.of]
    /\ IF Restored.was = "absent" THEN UNCHANGED <<file, disturbed>>
                                  ELSE Overwritten(Restored.path, Restored.was, "none")
    /\ restoring' = [restoring EXCEPT !.left = @ - 1, !.dirty = @ \ {Restored.path}]
    /\ UNCHANGED <<status, threadVars, sessionVars, stored, storeVars, before>>

\* restore copies one file back, or removes it.
RestoreFile ==
    /\ restoring.left > 0
    /\ Restored.was = "absent" \/ restoring.left \in stored[restoring.of]
    /\ Overwritten(Restored.path, Restored.was, "none")
    /\ restoring' = [restoring EXCEPT !.left = @ - 1, !.dirty = @ \ {Restored.path}]
    /\ UNCHANGED <<status, threadVars, sessionVars, stored, storeVars, before>>

EndRestore ==
    /\ ~LoopIsFree /\ restoring.left = 0
    /\ restoring' = NoRestore
    /\ UNCHANGED <<status, threadVars, sessionVars, stored, storeVars, fileVars>>

\* The copy is not there: restore raises, and the files it has restored stay so.
FailRestore ==
    /\ restoring.left > 0
    /\ Restored.was # "absent" /\ restoring.left \notin stored[restoring.of]
    /\ restoring' = NoRestore
    /\ UNCHANGED <<status, threadVars, sessionVars, stored, storeVars, fileVars>>

Directories == {t \in Tasks : stored[t] # {}}

\* clear deletes the directories of open sessions too.
Clear ==
    /\ "clear" \in Controls /\ LoopIsFree
    /\ index' = {} /\ stored' = [t \in Tasks |-> {}]
    /\ damaged' = damaged \cup Directories
    /\ since' = Clock
    /\ UNCHANGED <<status, threadVars, sessionVars, created, fileVars, restoring>>

\* It meets something that cannot be deleted, and raises: the directories it has met
\* before are gone, the one it is at has lost some or all of its copies, and the index
\* still lists all records.
ClearFails ==
    /\ {"clear", "locked"} \subseteq Controls /\ LoopIsFree
    /\ \E gone \in SUBSET Directories, stuck \in Directories :
          /\ Pruned(gone, {stuck})
          /\ damaged' = damaged \cup gone \cup {stuck}
    /\ UNCHANGED <<status, threadVars, sessionVars, index, created, since, fileVars, restoring>>

-----------------------------------------------------------------------------
(* The process dies and starts again: threads are gone, records recovered. *)

Rebooted ==
    /\ "restart" \in Controls
    /\ status' = [t \in Tasks |-> IF status[t] \in Pending THEN "interrupted" ELSE status[t]]
    /\ thread' = [t \in Tasks |-> "none"]
    /\ restoring' = NoRestore
    /\ UNCHANGED <<writes, sessionVars, fileVars>>

Restart == Rebooted /\ UNCHANGED <<stored, storeVars>>

\* It dies after directories are deleted: the index still lists them, or, as its
\* file is not replaced but rewritten, is lost with all records.
CutShort(gone) ==
    /\ stored' = [t \in Tasks |-> IF t \in gone THEN {} ELSE stored[t]]
    /\ \/ UNCHANGED <<index, since>>
       \/ index' = {} /\ since' = Clock
    /\ damaged' = damaged \cup gone
    /\ UNCHANGED created

\* It dies in Return, before the task's record is saved.
ReturnCutShort(t) ==
    /\ LoopIsFree /\ status[t] = "running" /\ thread[t] = "done" /\ entries[t] # <<>>
    /\ Finish(t) \/ \E gone \in SUBSET (Expired(t) \ {t}) : CutShort(gone)
    /\ Rebooted

ClearCutShort ==
    /\ "clear" \in Controls /\ LoopIsFree
    /\ \E gone \in SUBSET Directories : CutShort(gone)
    /\ Rebooted

-----------------------------------------------------------------------------
Init ==
    /\ status = [t \in Tasks |-> "none"]
    /\ thread = [t \in Tasks |-> "none"] /\ writes = 0
    /\ seen = [t \in Tasks |-> {}] /\ warned = [t \in Tasks |-> {}]
    /\ entries = [t \in Tasks |-> <<>>] /\ stored = [t \in Tasks |-> {}]
    /\ index = {} /\ created = [t \in Tasks |-> 0]
    /\ file \in [Files -> {"original", "absent"}] /\ restoring = NoRestore
    /\ before = [t \in Tasks |-> [f \in Files |-> "unwritten"]]
    /\ disturbed = [t \in Tasks |-> {}] /\ damaged = {} /\ since = 0

ThreadStep(t) == ToolEnds(t) \/ \E f \in Files : BackUp(t, f) \/ WriteFile(t, f)
RestoreStep   == RestoreFile \/ EndRestore \/ FailRestore

Next ==
    \/ \E t \in Tasks : \/ Submit(t) \/ Begin(t) \/ ThreadStep(t) \/ Return(t)
                        \/ Cancel(t) \/ StartRestore(t) \/ ReturnCutShort(t)
    \/ RestoreStep \/ Clear \/ ClearFails \/ Restart \/ ClearCutShort

Spec == Init /\ [][Next]_vars

-----------------------------------------------------------------------------
(* Properties. *)

TypeOK ==
    /\ status \in [Tasks -> Statuses]
    /\ thread \in [Tasks -> {"none", "ready", "done"} \cup Files]
    /\ writes \in 0..MaxWrites
    /\ seen \in [Tasks -> SUBSET Files] /\ warned \in [Tasks -> SUBSET Files]
    /\ entries \in [Tasks -> Seq(Entries)] /\ stored \in [Tasks -> SUBSET Nat]
    /\ index \in SUBSET Tasks /\ created \in [Tasks -> Nat] /\ since \in Nat
    /\ file \in [Files -> Contents] /\ disturbed \in [Tasks -> SUBSET Files]
    /\ before \in [Tasks -> [Files -> Contents \cup {"unwritten"}]]
    /\ damaged \in SUBSET Tasks
    /\ restoring \in [of : Tasks \cup {"none"}, left : Nat, dirty : SUBSET Files]

Wrote(t, f)  == before[t][f] # "unwritten"
Listed(t, f) == \E n \in DOMAIN entries[t] : entries[t][n].path = f

\* A copy is what the file was when its task first wrote it, however the tools
\* overlap, unless another one wrote it between the copy and the write.
CopiesAreOriginals ==
    \A t \in Tasks : \A n \in DOMAIN entries[t] :
        LET e == entries[t][n] IN
        Wrote(t, e.path) /\ e.path \notin disturbed[t] => e.was = before[t][e.path]

\* A restore that comes to its end has undone the task: every file of the record
\* is as the task found it, even if the task wrote it several times and others
\* wrote it since; only a thread that writes it during the restore spoils it.
RestoreUndoes ==
    restoring.of # "none" /\ restoring.left = 0 =>
        LET t == restoring.of IN
        \A f \in Files \ (restoring.dirty \cup disturbed[t]) :
            Listed(t, f) /\ Wrote(t, f) => file[f] = before[t][f]

Restorable(t, f) == f \in warned[t] \/ (t \in index' /\ Listed(t, f))

\* A tool that returns or raises leaves a restore point with every file it wrote,
\* or a warning that there is none for that file.
ReturnedIsRestorable ==
    [][\A t \in Tasks, f \in Files :
          status[t] = "running" /\ status'[t] = "returned" /\ Wrote(t, f)
             => Restorable(t, f)]_vars

\* A record has all its copies, whichever tools end, are cancelled and are pruned
\* meanwhile.  The exceptions are the ways in which a directory goes without its
\* record: a clear while its tool runs, a clear that fails half-way, a retention that
\* cannot delete the directory, and the death of the process while either deletes.
RestorePointsAreWhole ==
    \A t \in index \ damaged : \A n \in DOMAIN entries[t] :
        entries[t][n].was = "absent" \/ n \in stored[t]

Recent(t) == Cardinality(Newer(t, Tasks, created)) < KeepRounds

\* The store keeps the newest records, and of the others only those whose
\* directory could not be deleted; after a clear it begins anew.
RetentionIsExact ==
    \A t \in Tasks : created[t] > since =>
        /\ Recent(t) => t \in index
        /\ t \in index => Recent(t) \/ t \in damaged

\* No copies stay behind without their record, unless the index was lost.
CopiesHaveRecord ==
    \A t \in Tasks : created[t] > since /\ stored[t] # {} => t \in index
=============================================================================
