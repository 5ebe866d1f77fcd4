----------------------------- MODULE Supervisor -----------------------------
(***************************************************************************)
(* The control plane's supervisor of runs (packages/server/src/            *)
(* supervisor.ts) with its store (state-store.ts) and the activity tailers *)
(* (flow-event-tailer.ts).                                                 *)
(*                                                                         *)
(* The daemon is one event loop.  A handler is one step, except stop(),    *)
(* which awaits the exit of the child or its five-second timer: the answer *)
(* of that race (`settled`) is resumed as a microtask, before the loop     *)
(* turns to any other event.  Runs are processes of their own: they exit   *)
(* by themselves at any moment, outlive a crash of the daemon, and their   *)
(* exit is an event the daemon hears later, or never.                      *)
(***************************************************************************)
EXTENDS Naturals

CONSTANTS Runs,        \* run ids; every start takes a fresh one
          StopCalls,   \* bound: stop() calls in flight at once
          NoRun,       \* an idle stop call
          MaxCrashes   \* bound: crashes of the daemon

ASSUME SupervisorAssumption == NoRun \notin Runs /\ MaxCrashes \in Nat

VARIABLES
    status, pid, activity,          \* StateStore: fields of each record, durable
    proc, killed,                   \* the processes, and those sent SIGKILL
    up,                             \* the daemon runs
    children, tailers,              \* Supervisor.children, Supervisor.tailers
    grace, settled,                 \* the run each stop() awaits; the run it resumes with
    crashes

store == <<status, pid, activity>>
daemon == <<up, children, tailers, grace, settled>>
vars == <<store, proc, killed, daemon, crashes>>

Recorded == {r \in Runs : status[r] # "none"}

\* The types of all variables.
TypeOK ==
    /\ status \in [Runs -> {"none", "running", "paused", "completed", "failed", "abandoned"}]
    /\ pid \in [Runs -> BOOLEAN] /\ activity \in [Runs -> BOOLEAN]
    /\ proc \in [Runs -> {"none", "failed", "alive", "dead"}] /\ killed \subseteq Runs
    /\ up \in BOOLEAN /\ children \subseteq Runs /\ tailers \subseteq Runs
    /\ grace \in [StopCalls -> Runs \cup {NoRun}]
    /\ settled \in [StopCalls -> Runs \cup {NoRun}]
    /\ crashes \in Nat

Init ==
    /\ status = [r \in Runs |-> "none"]
    /\ pid = [r \in Runs |-> FALSE]
    /\ activity = [r \in Runs |-> FALSE]
    /\ proc = [r \in Runs |-> "none"] /\ killed = {}
    /\ up = TRUE /\ children = {} /\ tailers = {}
    /\ grace = [s \in StopCalls |-> NoRun]
    /\ settled = [s \in StopCalls |-> NoRun]
    /\ crashes = 0

\* The event loop takes a new event.
Turn == up /\ \A s \in StopCalls : settled[s] = NoRun

\* What survives in memory when the daemon dies: nothing.
Down ==
    /\ up' = FALSE /\ children' = {} /\ tailers' = {}
    /\ grace' = [s \in StopCalls |-> NoRun]
    /\ settled' = [s \in StopCalls |-> NoRun]

CanCrash == crashes < MaxCrashes /\ crashes' = crashes + 1

\* upsert of a record whose run is over, or given up.
Close(r, s, hasPid) ==
    /\ status' = [status EXCEPT ![r] = s]
    /\ pid' = [pid EXCEPT ![r] = hasPid]
    /\ activity' = [activity EXCEPT ![r] = FALSE]

NewRecord(r, hasPid) ==
    /\ status' = [status EXCEPT ![r] = "running"]
    /\ pid' = [pid EXCEPT ![r] = hasPid]
    /\ activity' = [activity EXCEPT ![r] = TRUE]

-----------------------------------------------------------------------------
\* start(), and resume(), which starts a new run from the launch policy of any record,
\* whatever its status.  The child lives before the record does, so a crash between the
\* two leaves a process nobody knows.
Start(r) ==
    /\ Turn /\ proc[r] = "none"
    /\ proc' = [proc EXCEPT ![r] = "alive"]
    /\ \/ /\ NewRecord(r, TRUE)
          /\ children' = children \cup {r} /\ tailers' = tailers \cup {r}
          /\ UNCHANGED <<up, grace, settled, crashes>>
       \/ CanCrash /\ Down /\ UNCHANGED store
    /\ UNCHANGED killed

\* The command cannot be spawned: the record is written with no pid, and the child's
\* `error` event, which has no listener, ends the daemon.
StartFails(r) ==
    /\ Turn /\ proc[r] = "none"
    /\ proc' = [proc EXCEPT ![r] = "failed"]
    /\ NewRecord(r, FALSE)
    /\ CanCrash /\ Down
    /\ UNCHANGED killed

\* Mutant: the tailer does not look at the status.
ActivityAnyStatus(r) ==
    /\ Turn /\ r \in tailers
    /\ activity' = [activity EXCEPT ![r] = TRUE]
    /\ UNCHANGED <<status, pid, proc, killed, daemon, crashes>>

\* A poll of the flow-event segment found a lifecycle event.
Activity(r) ==
    /\ Turn /\ r \in tailers
    /\ status[r] \in {"running", "paused"}
    /\ activity' = [activity EXCEPT ![r] = TRUE]
    /\ UNCHANGED <<status, pid, proc, killed, daemon, crashes>>

\* pause(): SIGUSR2, which the run answers by exiting at its next step boundary.
Pause(r) ==
    /\ Turn /\ status[r] = "running" /\ r \in children
    /\ status' = [status EXCEPT ![r] = "paused"]
    /\ UNCHANGED <<pid, activity, proc, killed, daemon, crashes>>

\* stop() of any record: with no child to signal it is abandoned at once, otherwise
\* SIGINT and wait.
Stop(s, r) ==
    /\ Turn /\ r \in Recorded /\ grace[s] = NoRun
    /\ IF r \in children
       THEN grace' = [grace EXCEPT ![s] = r] /\ UNCHANGED store
       ELSE Close(r, "abandoned", pid[r]) /\ UNCHANGED grace
    /\ UNCHANGED <<proc, killed, up, children, tailers, settled, crashes>>

\* Mutant: the timer gives up without the SIGKILL.
StopTimesOutGently(s) ==
    /\ Turn /\ grace[s] # NoRun
    /\ settled' = [settled EXCEPT ![s] = grace[s]]
    /\ grace' = [grace EXCEPT ![s] = NoRun]
    /\ UNCHANGED <<store, proc, killed, up, children, tailers, crashes>>

\* The five seconds are over: SIGKILL, and do not wait for the exit.
StopTimesOut(s) ==
    /\ Turn /\ grace[s] # NoRun
    /\ killed' = killed \cup {grace[s]}
    /\ settled' = [settled EXCEPT ![s] = grace[s]]
    /\ grace' = [grace EXCEPT ![s] = NoRun]
    /\ UNCHANGED <<store, proc, up, children, tailers, crashes>>

\* Mutants: the exit code overwrites a pause and an abandonment; the exit leaves the
\* status alone; a child that a signal ended gets a status the store does not know.
outcomeOverwriting(r) == {"completed", "failed"}
outcomeKept(r) == {status[r]}
outcomeBySignal(r) == {"completed", "failed", "killed"}

\* The status of a run whose exit is heard: paused and abandoned stay.
outcome(r) ==
    IF status[r] \in {"paused", "abandoned"} THEN {status[r]} ELSE {"completed", "failed"}

\* handleExit(), and the exit listeners of the stop() calls that wait for this child.
HandleExit(r) ==
    /\ Turn /\ r \in children /\ proc[r] = "dead"
    /\ children' = children \ {r} /\ tailers' = tailers \ {r}
    /\ \E o \in outcome(r) : Close(r, o, FALSE)
    /\ settled' = [s \in StopCalls |-> IF grace[s] = r THEN r ELSE settled[s]]
    /\ grace' = [s \in StopCalls |-> IF grace[s] = r THEN NoRun ELSE grace[s]]
    /\ UNCHANGED <<proc, killed, up, crashes>>

\* stop() resumes.
StopReturns(s) ==
    /\ up /\ settled[s] # NoRun
    /\ tailers' = tailers \ {settled[s]}
    /\ Close(settled[s], "abandoned", pid[settled[s]])
    /\ settled' = [settled EXCEPT ![s] = NoRun]
    /\ UNCHANGED <<proc, killed, up, children, grace, crashes>>

-----------------------------------------------------------------------------
\* A process exits: done, failed, told to pause or stop, or killed.
Dies(r) ==
    /\ proc[r] = "alive"
    /\ proc' = [proc EXCEPT ![r] = "dead"]
    /\ UNCHANGED <<store, killed, daemon, crashes>>

Crash ==
    /\ up /\ CanCrash
    /\ Down
    /\ UNCHANGED <<store, proc, killed>>

\* bootReattach(): a live pid, or a dead one the system has given to another process
\* since, keeps its record and gets a tailer; the others are abandoned.
Boot ==
    /\ ~up /\ up' = TRUE
    /\ \E recycled \in SUBSET {r \in Runs : proc[r] = "dead"} :
          LET live == {r \in Runs : status[r] \in {"running", "paused"}}
              found == {r \in live : pid[r] /\ (proc[r] = "alive" \/ r \in recycled)}
              Lost(r) == r \in live \ found
          IN  /\ status' = [r \in Runs |-> IF Lost(r) THEN "abandoned" ELSE status[r]]
              /\ activity' = [r \in Runs |-> activity[r] /\ ~Lost(r)]
              /\ tailers' = found
    /\ UNCHANGED <<pid, proc, killed, children, grace, settled, crashes>>

Next ==
    \/ \E r \in Runs : \/ Start(r) \/ StartFails(r) \/ Activity(r) \/ Pause(r)
                       \/ HandleExit(r) \/ Dies(r)
                       \/ \E s \in StopCalls : Stop(s, r)
    \/ \E s \in StopCalls : StopTimesOut(s) \/ StopReturns(s)
    \/ Crash \/ Boot

Spec == Init /\ [][Next]_vars

\* The event loop serves its queues in order, so an exit or a timer that waits gets its
\* turn between the microtasks of other calls (strong fairness); SIGKILL kills; the
\* service manager restarts the daemon.  A run, left alone, may go on for ever.
Fairness ==
    /\ \A r \in Runs : SF_vars(HandleExit(r)) /\ WF_vars(r \in killed /\ Dies(r))
    /\ \A s \in StopCalls : SF_vars(StopTimesOut(s)) /\ WF_vars(StopReturns(s))
    /\ WF_vars(Boot)

FairSpec == Spec /\ Fairness

-----------------------------------------------------------------------------
\* The daemon keeps the promises of RunRecord over every interleaving of requests, exits,
\* timers and restarts: abandoned is final although the exit of a killed child is heard
\* after the stop, a pause is not overwritten by the exit it causes, and completed or
\* failed is only written for a dead process.
Record == INSTANCE RunRecord
ImplementsRunRecord == Record!Spec

\* Terminal statuses carry no live activity, although a tailer that was reattached at
\* boot still polls after its run was stopped.
NoGhostActivity ==
    \A r \in Runs : status[r] \in {"completed", "failed", "abandoned"} => ~activity[r]

\* stop() of a run with a child ends with the record abandoned and the process dead,
\* unless the daemon dies first.
StopStops ==
    \A s \in StopCalls, r \in Runs :
        grace[s] = r ~> ~up \/ (status[r] = "abandoned" /\ proc[r] = "dead")

\* A child that exits does not stay `running` while its daemon is up.
ExitIsRecorded ==
    \A r \in Runs : r \in children /\ proc[r] = "dead" ~> ~up \/ status[r] # "running"
=============================================================================
