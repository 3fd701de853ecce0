------------------------- MODULE ConversationContract -------------------------
(***************************************************************************)
(* What the runtime promises about the Runs of one conversation, without   *)
(* handlers, executors or records.  A run is born, perhaps waits to be     *)
(* started, executes once and is over; while one executes no other begins. *)
(***************************************************************************)
CONSTANT Runs

VARIABLE phase

Phases == {"unborn", "prepared", "executing", "over"}

Init == phase = [r \in Runs |-> "unborn"]

\* A replay or a recovery prepares a run and leaves its start to the user.
Prepare(r) ==
    /\ phase[r] = "unborn"
    /\ phase' = [phase EXCEPT ![r] = "prepared"]

\* A user message starts a new run or a prepared one.
Begin(r) ==
    /\ phase[r] \in {"unborn", "prepared"}
    /\ \A o \in Runs : phase[o] # "executing"
    /\ phase' = [phase EXCEPT ![r] = "executing"]

\* The run completes, fails, or is interrupted.
End(r) ==
    /\ phase[r] = "executing"
    /\ phase' = [phase EXCEPT ![r] = "over"]

\* The process starts again: what executed is over, and so are the prepared
\* runs in some set.
Restart ==
    \E gone \in SUBSET {r \in Runs : phase[r] = "prepared"} :
        phase' = [r \in Runs |-> IF phase[r] = "executing" \/ r \in gone
                                 THEN "over" ELSE phase[r]]

Next == (\E r \in Runs : Prepare(r) \/ Begin(r) \/ End(r)) \/ Restart

Spec == Init /\ [][Next]_phase
=============================================================================
