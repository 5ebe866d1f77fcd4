------------------------------ MODULE RunRecord ------------------------------
(***************************************************************************)
(* What the daemon promises about the record of a supervised run, whatever *)
(* happens inside it: abandoned is final, a pause survives the exit of its *)
(* process, and an outcome is only ever written for a process that is dead.*)
(* Supervisor implements this specification.                               *)
(***************************************************************************)
CONSTANT Runs

VARIABLES status,   \* the recorded status, "none" while there is no record
          proc      \* the process of the run

Init ==
    /\ status = [r \in Runs |-> "none"]
    /\ proc = [r \in Runs |-> "none"]

SetStatus(r, s) == status' = [status EXCEPT ![r] = s]

Spawn(r) ==
    /\ proc[r] = "none"
    /\ proc' = [proc EXCEPT ![r] = "alive"]
    /\ UNCHANGED status \/ SetStatus(r, "running")

\* A record of a process that never was.
SpawnFails(r) ==
    /\ proc[r] = "none" /\ status[r] = "none"
    /\ SetStatus(r, "running")
    /\ proc' = [proc EXCEPT ![r] = "failed"]

Dies(r) ==
    /\ proc[r] = "alive"
    /\ proc' = [proc EXCEPT ![r] = "dead"]
    /\ UNCHANGED status

Pause(r) ==
    /\ status[r] = "running"
    /\ SetStatus(r, "paused")
    /\ UNCHANGED proc

Finish(r) ==
    /\ status[r] = "running" /\ proc[r] = "dead"
    /\ SetStatus(r, "completed") \/ SetStatus(r, "failed")
    /\ UNCHANGED proc

\* Stop, one run at a time; the reconciliation at boot, any number of them at once.
Abandon(S) ==
    /\ \A r \in S : status[r] # "none"
    /\ status' = [r \in Runs |-> IF r \in S THEN "abandoned" ELSE status[r]]
    /\ UNCHANGED proc

Next ==
    \/ \E r \in Runs : Spawn(r) \/ SpawnFails(r) \/ Dies(r) \/ Pause(r) \/ Finish(r)
    \/ \E S \in SUBSET Runs : Abandon(S)

Spec == Init /\ [][Next]_<<status, proc>>
=============================================================================
