---------------------------- MODULE RunLifecycle ----------------------------
(***************************************************************************)
(* lifecycle.ts of the local autopilot: the transition table of a run and  *)
(* the invariants of its snapshots, as what anybody may believe of a run   *)
(* whatever happens to the processes that drive it.                        *)
(***************************************************************************)
CONSTANT Runs
VARIABLE run    \* of each run: its state, pauseReason and disposition

Paused == {"interrupted", "verification_budget", "decision_required"}

Ended == {"ready_for_review", "failed", "cancelled"}

Init == run = [r \in Runs |-> [state |-> "queued", pauseReason |-> "none", disposition |-> "none"]]

Becomes(r, state, pauseReason, disposition) ==
    run' = [run EXCEPT ![r] = [state |-> state, pauseReason |-> pauseReason, disposition |-> disposition]]

\* TRANSITIONS: a paused run does not complete without being continued, unless it is
\* cancelled, and nothing happens to a completed one.
Transition(r) ==
    \/ run[r].state = "queued" /\ Becomes(r, "running", "none", "none")
    \/ run[r].state = "running" /\ \E why \in Paused : Becomes(r, "paused", why, "none")
    \/ run[r].state = "running" /\ \E how \in Ended : Becomes(r, "completed", "none", how)
    \/ run[r].state = "paused" /\ Becomes(r, "running", "none", "none")
    \/ run[r].state = "paused" /\ Becomes(r, "completed", "none", "cancelled")

Next == \E r \in Runs : Transition(r)

Spec == Init /\ [][Next]_run
=============================================================================
