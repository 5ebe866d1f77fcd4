------------------------------ MODULE Attempt ------------------------------
(***************************************************************************)
(* What every step of an attempt at one roadmap item works with: the claim *)
(* branch in its worktree (git.ts), the cycle log that a later attempt     *)
(* resumes from (detectResumeStep of cycle-support.ts), the park signal,   *)
(* and the ways runPipeline (pipeline.ts) has to end an attempt.  The      *)
(* steps are in the modules AuthoringReview, PrShip and DirectShip; module *)
(* Cycle composes them.                                                    *)
(*                                                                         *)
(* HEAD has no number.  What the program knows of HEAD is the set facts of *)
(* the branch and the escalation esc bound to it, and a commit takes away  *)
(* what does not hold of the new HEAD.                                     *)
(***************************************************************************)
EXTENDS Naturals, FiniteSets

CONSTANTS Targets,         \* the ship targets an attempt may have
          MaxMain,         \* bound: the commits that peers land on origin/main
          MaxAttempts,     \* the attempts of one step, 2 in the code
          MaxTransient     \* TRANSIENT_MAX_ATTEMPTS, 3 in the code

ASSUME AttemptAssumption ==
    /\ Targets \subseteq {"direct-push", "pull-request", "auto-merge-pr"}
    /\ MaxMain \in Nat /\ MaxAttempts \in Nat \ {0} /\ MaxTransient \in Nat \ {0}

VARIABLES
    target,          \* opts.shipTarget
    pc,              \* the step, or what the step awaits
    try, flaky,      \* runStepWithRetry: the attempt, transient errors so far
    park,            \* parkSignal.parked
    steps, log,      \* where the steps logged by this attempt, and by the item's last entry, lead
    out,             \* how the last attempt ended
    br,              \* the claim branch and its worktree
    ref, upstream    \* the ref origin/main that all worktrees share, and main at the remote

attemptVars == <<target, pc, try, flaky, park, steps, log, out, br,
                 ref, upstream>>

Pipeline == {"pick", "plan", "shakedown-plan", "implement", "shakedown-code", "ship"}
Seat == "seat"                           \* pr-review and pr-verify, which are not in STEPS
Facts == {"typechecked",  \* typecheck:ratchet was green in this HEAD's worktree
          "recorded",     \* and this process remembers that its gates completed
          "preflighted",  \* the pre-flight ran on it and left HEAD alone
          "gated",        \* it is the gatedHeadOid of the ship gate binding
          "pushed"}       \* it is what the remote claim branch holds
Escalations == {"none", "active", "proceed", "block", "invalid"}

NoEsc == [state |-> "none", safety |-> FALSE]
NoBranch == [made |-> FALSE, plan |-> FALSE, deliver |-> FALSE, dirty |-> {}, base |-> 0,
             merge |-> "none", incoming |-> 0, marked |-> FALSE, markers |-> "none",
             bare |-> FALSE, facts |-> {}, esc |-> NoEsc]

-----------------------------------------------------------------------------
(* The branch. *)

Dirty(b) == b.dirty # {} \/ b.merge # "none"
HasDeliverableCommits(b) == b.deliver /\ ~b.bare
HasCommits(b) == ~b.bare /\ (b.deliver \/ (b.plan /\ "plan" \notin b.dirty))

\* A commit of everything in the tree, by the author or the harness.  The decision log is
\* not part of the artifact: a commit of it alone moves HEAD, not the artifact HEAD.
Commit(b, by) ==
    IF ~Dirty(b) THEN b
    ELSE LET artifact == b.merge # "none" \/ b.dirty # {"log"} IN
         [b EXCEPT !.deliver = HasDeliverableCommits(b) \/ "code" \in b.dirty,
                   !.dirty = {},
                   !.base = IF b.merge = "none" THEN @ ELSE b.incoming,
                   !.merge = "none", !.incoming = 0, !.marked = FALSE,
                   !.markers = IF b.marked THEN by ELSE @,
                   !.bare = FALSE,
                   !.facts = IF artifact THEN {} ELSE @ \cap {"typechecked", "preflighted"},
                   !.esc = IF artifact THEN NoEsc ELSE @]

\* checkpoint refuses unmerged paths, and conflict markers in a merge it would conclude;
\* the commit may fail as well.
\* Mutant: only the unmerged paths are looked at, which git add clears.
ConcludesUnread(b) == b.merge # "unmerged"
MayConclude(b) == b.merge # "unmerged" /\ ~(b.merge = "added" /\ b.marked)
Checkpoint(b) == IF MayConclude(b) THEN {b, Commit(b, "harness")} ELSE {b}

\* verifyConflictRepairComplete: the listed files are scanned, whether committed or not,
\* and none is listed when the merge was found already staged.
RepairComplete(b, listed) ==
    b.merge # "unmerged" /\ ~(listed /\ (b.marked \/ b.markers # "none"))

\* What an agent may leave behind: nothing new, edits, or a commit of its own; in an open
\* merge also a merge resolved, or staged with its markers.  (It keeps to the prompt's
\* "Do NOT run git merge --abort, git reset, or git clean".)
Edited(b, what) == [b EXCEPT !.dirty = @ \cup {what}, !.plan = @ \/ what = "plan"]
Works(b, what) ==
    LET trees == IF b.merge = "none" THEN {Edited(b, what)}
                 ELSE {[b EXCEPT !.merge = "added", !.marked = m] : m \in {b.marked, FALSE}}
    IN  {b} \cup trees \cup {Commit(t, "author") : t \in trees}

-----------------------------------------------------------------------------
(* The cycle log.  Of the steps of an attempt only the one is kept that detectResumeStep *)
(* would go on at: the one after the last that was ok, or an implement that was not. *)

AfterStep(name) ==
    CASE name = "pick" -> "plan"
      [] name = "plan" -> "shakedown-plan"
      [] name = "shakedown-plan" -> "implement"
      [] name = "implement" -> "shakedown-code"
      [] OTHER -> "ship"   \* shakedown-code, ship, and every name that is not in STEPS

Ran(name, ok) == IF ok THEN AfterStep(name) ELSE IF name = "implement" THEN name ELSE steps
Rethought == "plan"

Heuristic(b) == IF ~b.plan THEN "plan"
                ELSE IF ~HasCommits(b) THEN "shakedown-plan" ELSE "shakedown-code"

\* The step an attempt resumes at, from the item's last log entry or else from the branch.
detectResumeStep(b, entry) == IF entry = "none" THEN Heuristic(b) ELSE entry

-----------------------------------------------------------------------------
(* How a step goes on, and how an attempt ends. *)

Goto(where, ran) ==
    /\ pc' = where /\ try' = 1 /\ flaky' = 0 /\ steps' = ran
    /\ UNCHANGED <<log, out>>

\* finish: the attempt is logged, and the process is done with its park signal.
Finish(outcome, ran, shipFailed) ==
    /\ pc' = "idle" /\ try' = 1 /\ flaky' = 0 /\ steps' = "none"
    /\ park' = FALSE /\ out' = outcome
    /\ log' = IF shipFailed THEN "ship" ELSE ran

Failed(ran) == Finish("failed", ran, FALSE)
ShipFailed(ran) == Finish("failed", ran, TRUE)

\* parkExit: parked, or held, which is parked with the disposition halt-campaign.
ParkExit(outcome, ran, b) == br' \in Checkpoint(b) /\ Finish(outcome, ran, FALSE)

QuarantineExit(ran, b) ==
    /\ br' \in Checkpoint(b)
    /\ Finish(IF Dirty(br') THEN "halted" ELSE "blocked", ran, FALSE)

-----------------------------------------------------------------------------
(* runStepWithRetry. *)

\* A forbidden root changed: the tree is left as it is.
Confinement(name, b) == br' = b /\ Failed(Ran(name, FALSE))

\* Mutant: a transient error is retried without being counted.
RetriesForEver(ran) ==
    /\ \/ try < MaxAttempts /\ try' = try + 1 /\ UNCHANGED flaky
       \/ UNCHANGED <<try, flaky>>
    /\ steps' = ran /\ UNCHANGED <<pc, park, log, out>>

\* Mutant: one attempt too many.
RetriesOnceMore(ran) ==
    /\ \/ try <= MaxAttempts /\ try' = try + 1 /\ UNCHANGED flaky
       \/ flaky + 1 < MaxTransient /\ flaky' = flaky + 1 /\ UNCHANGED try
    /\ steps' = ran /\ UNCHANGED <<pc, park, log, out>>

\* Turns are up or the agent loops on a file, or the provider has a transient error.
Retry(ran) ==
    /\ \/ try < MaxAttempts /\ try' = try + 1 /\ UNCHANGED flaky
       \/ flaky + 1 < MaxTransient /\ flaky' = flaky + 1 /\ UNCHANGED try
    /\ steps' = ran /\ UNCHANGED <<pc, park, log, out>>

\* The agent was not ok, and left b.  A rate limit of its own parks as a peer's does.
NotOk(name, b) ==
    LET ran == Ran(name, FALSE) IN
    \/ ParkExit("parked", ran, b)
    \/ ~park /\ QuarantineExit(ran, b)
    \/ ~park /\ br' = b /\ (Failed(ran) \/ Retry(ran))

GoesOn(name, c, where) == br' = c /\ Goto(where, Ran(name, TRUE)) /\ UNCHANGED park

At(step) == pc = step /\ UNCHANGED <<ref, upstream>>

\* All but the end of a step that is ok: the agent left b, and c is b with its checkpoint.
\* A park ends the attempt at the head of the loop, but may also come while the agent runs.
runStepWithRetry(name, b, c) ==
    \/ park /\ ParkExit("parked", steps, br)
    \/ Confinement(name, b)
    \/ NotOk(name, c)

\* Nobody may write, or review what this author wrote.
AssignmentFails ==
    /\ pc \in {"plan", "shakedown-plan", "implement", "shakedown-code", "repair", "revision"}
    /\ try = 1 /\ flaky = 0
    /\ Failed(steps) /\ UNCHANGED <<br, ref, upstream>>

-----------------------------------------------------------------------------
(* The steps pick, plan, shakedown-plan and implement, and the head of ship. *)

\* Only the pick step knows no item yet: how it ends is not logged under the item.
Unclaimed(outcome) ==
    /\ pc' = "idle" /\ steps' = "none" /\ park' = FALSE
    /\ out' = outcome /\ UNCHANGED <<try, flaky, log>>

Pick ==
    /\ pc = "pick"
    /\ \/ park /\ Unclaimed("parked") /\ UNCHANGED br
       \/ Unclaimed("failed") /\ br' \in {br, [br EXCEPT !.made = TRUE]}
       \/ /\ br' = [br EXCEPT !.made = TRUE]
          /\ \/ Goto("plan", Ran("pick", TRUE)) /\ UNCHANGED park
             \/ Goto("implement", Ran("pick", TRUE)) /\ UNCHANGED park   \* the quick profile
             \/ Failed(Ran("pick", TRUE))             \* the worktree is missing or ambiguous
    /\ UNCHANGED <<ref, upstream>>

\* A plan file that is there, from whatever earlier attempt, is not written again.
PlanExists == pc = "plan" /\ try = 1 /\ flaky = 0 /\ br.plan

PlanSkipped ==
    /\ PlanExists
    /\ Goto("shakedown-plan", steps) /\ UNCHANGED <<park, br, ref, upstream>>

Plan ==
    /\ At("plan") /\ ~PlanExists
    /\ \E b \in Works(br, "plan") : \E c \in Checkpoint(b) :
          runStepWithRetry("plan", b, c) \/ GoesOn("plan", c, "shakedown-plan")

\* There is no checkpoint after a shakedown of the plan.
ShakedownPlan ==
    /\ At("shakedown-plan")
    /\ \E b \in Works(br, "plan") :
          \/ runStepWithRetry("shakedown-plan", b, b)
          \/ GoesOn("shakedown-plan", b, "implement")
          \/ br' = b /\ Failed(Rethought)

Implement ==
    /\ At("implement")
    /\ \E b \in Works(br, "code") : \E c \in Checkpoint(b) :
          runStepWithRetry("implement", b, c) \/ GoesOn("implement", c, "shakedown-code")

\* The head of runShip.
EnterShip ==
    /\ pc = "ship"
    /\ \/ park /\ ParkExit("parked", steps, br)
       \/ ~park /\ ~HasDeliverableCommits(br) /\ Failed(steps) /\ UNCHANGED br
       \/ /\ ~park /\ HasDeliverableCommits(br)
          /\ Goto(IF target = "direct-push" THEN "capture" ELSE "fresh", steps)
          /\ UNCHANGED <<park, br>>
    /\ UNCHANGED <<ref, upstream>>

AttemptStep ==
    \/ AssignmentFails
    \/ Pick
    \/ PlanSkipped
    \/ Plan
    \/ ShakedownPlan
    \/ Implement
    \/ EnterShip

-----------------------------------------------------------------------------
(* The processes around the attempt. *)

\* A peer of the same process hits a rate limit, or an operator pauses it.
PeerParks ==
    /\ pc # "idle" /\ ~park /\ park' = TRUE
    /\ UNCHANGED <<pc, try, flaky, steps, log, out, br, ref, upstream>>

UpstreamMoves ==
    /\ upstream < MaxMain /\ upstream' = upstream + 1
    /\ UNCHANGED <<pc, try, flaky, park, steps, log, out, br, ref>>

PeerFetches ==
    /\ ref < upstream /\ ref' = upstream
    /\ UNCHANGED <<pc, try, flaky, park, steps, log, out, br, upstream>>
=============================================================================
