------------------------------- MODULE Revise -------------------------------
(***************************************************************************)
(* revise-sweep.ts, revise-cli.ts and the revision paths of                *)
(* orchestrator.ts: one pull request whose review is red, and the local    *)
(* processes that may revise it in the claim worktree of its item.  A      *)
(* campaign sweeps, an operator calls `revise --pr`, and either may park   *)
(* and resume; somebody may type the `--resume` that a parked process      *)
(* printed.  The label autopilot:revised admits one pass, the per-item     *)
(* execution lease excludes concurrent ones, the findings file carries the *)
(* task.  The critical sections of the two short locks are single steps.   *)
(***************************************************************************)
EXTENDS Naturals

CONSTANTS Sweepers,    \* campaigns with revise.local
          Operators,   \* invocations of `pelaggio revise --pr`
          Resumers,    \* invocations of `pelaggio --resume <id>`
          None,
          ReleaseFails, \* whether the lock of a release may be out of reach
          MaxHead,     \* bound: heads of the pull request
          MaxCleared,  \* bound: removals of the label by a human
          MaxCrashes   \* bound: processes that die

Procs == Sweepers \cup Operators \cup Resumers

ASSUME ReviseAssumption ==
    /\ Sweepers \cap Operators = {} /\ Sweepers \cap Resumers = {} /\ Operators \cap Resumers = {}
    /\ None \notin Procs /\ ReleaseFails \in BOOLEAN
    /\ MaxHead \in Nat \ {0} /\ MaxCleared \in Nat /\ MaxCrashes \in Nat

VARIABLES pr,        \* the pull request on GitHub
          local,     \* the claim worktree and its branch on this host
          findings,  \* the canonical findings file: the head its review was of, 0 if absent
          lease,     \* <item>.lease under .dev/revise-exec
          pc,        \* where each process is
          own,       \* what each process has in memory
          orphans,   \* dead processes whose provider children still run
          passes,    \* first passes admitted by the label
          cleared, crashes

vars == <<pr, local, findings, lease, pc, own, orphans, passes, cleared, crashes>>

Heads == 0..MaxHead

\* Pipeline steps: "implement" reads its input, "coding" runs, "later" is the rest.
Executing == {"implement", "coding", "later"}

Leased == {"claim", "audit", "fetch", "restore", "bind"}

Pcs == {"idle", "acquire", "handoff", "reacquire", "parked", "handed", "done", "dead"} \cup Leased \cup Executing

\* head, seen: of the operator's lookup; flag: --review-findings is set; task: the
\* findings implement was given; consumed: consumedReviewFindingsItems has the item.
Fresh == [head |-> 0, seen |-> FALSE, flag |-> FALSE, task |-> 0, consumed |-> FALSE]

TypeOK ==
    /\ pr \in [head : 1..MaxHead, red : BOOLEAN, review : Heads, label : BOOLEAN, handoff : BOOLEAN]
    /\ local \in [tree : BOOLEAN, base : 1..MaxHead, at : {"base", "applied"}]
    /\ findings \in Heads
    /\ lease \in Procs \cup {None}
    /\ pc \in [Procs -> Pcs]
    /\ own \in [Procs -> [head : Heads, seen : BOOLEAN, flag : BOOLEAN, task : Heads, consumed : BOOLEAN]]
    /\ orphans \subseteq Procs
    /\ passes \in 0..(MaxCleared + 1) /\ cleared \in 0..MaxCleared /\ crashes \in 0..MaxCrashes

Init ==
    /\ pr = [head |-> 1, red |-> TRUE, review |-> 1, label |-> FALSE, handoff |-> FALSE]
    /\ local = [tree |-> TRUE, base |-> 1, at |-> "base"]
    /\ findings = 0 /\ lease = None
    /\ pc = [p \in Procs |-> "idle"] /\ own = [p \in Procs |-> Fresh]
    /\ orphans = {} /\ passes = 0 /\ cleared = 0 /\ crashes = 0

Goto(p, where) == pc' = [pc EXCEPT ![p] = where]

\* Mutant: the lease file is removed whoever's token is in it.
ReleaseUncompared(p) == lease' = None

\* release(): the lease file is removed if the token in it is the caller's; without
\* the lock it is left behind.
Release(p) ==
    lease' \in {IF lease = p THEN None ELSE lease} \cup (IF ReleaseFails THEN {lease} ELSE {})

\* A sweep goes on to its next candidate, a command returns 1.
Leave(p) == Goto(p, IF p \in Sweepers THEN "idle" ELSE "done")

GiveUp(p) == Leave(p) /\ Release(p)

\* A process that has ended has nothing in memory.
Forget(p) == own' = [own EXCEPT ![p] = Fresh]

\* The idempotent hand-over comment; gh may fail.
postParkComment == pr' = pr \/ pr' = [pr EXCEPT !.handoff = TRUE]

-----------------------------------------------------------------------------
(* The way to a revision.                                                  *)

\* Mutant: a labelled pull request is passed over.
ListUnlabelled(p) ==
    /\ p \in Sweepers /\ pc[p] = "idle" /\ pr.red /\ ~pr.label
    /\ Goto(p, "acquire")
    /\ own' = [own EXCEPT ![p] = Fresh]
    /\ UNCHANGED <<pr, local, findings, lease, orphans, passes, cleared, crashes>>

\* findRevisablePrs: an unlabelled red pull request is a candidate, a labelled one
\* has spent its pass and is handed to a human.
List(p) ==
    /\ p \in Sweepers /\ pc[p] = "idle" /\ pr.red
    /\ IF pr.label THEN postParkComment /\ UNCHANGED pc
                   ELSE Goto(p, "acquire") /\ UNCHANGED pr
    /\ own' = [own EXCEPT ![p] = Fresh]
    /\ UNCHANGED <<local, findings, lease, orphans, passes, cleared, crashes>>

\* resolveReviseTarget and the one-pass check of the command.
resolveReviseTarget(p) ==
    /\ p \in Operators /\ pc[p] = "idle" /\ pr.red
    /\ own' = [own EXCEPT ![p] = [Fresh EXCEPT !.head = pr.head, !.seen = pr.label, !.flag = TRUE]]
    /\ \E allowRepeat \in BOOLEAN : Goto(p, IF pr.label /\ ~allowRepeat THEN "done" ELSE "acquire")
    /\ UNCHANGED <<pr, local, findings, lease, orphans, passes, cleared, crashes>>

\* Mutant: the lease of a dead process is reclaimed.
acquireReclaiming(p) ==
    /\ pc[p] = "acquire"
    /\ \/ /\ lease = None \/ \E q \in Procs : lease = q /\ pc[q] = "dead"
          /\ lease' = p /\ Goto(p, IF own[p].seen THEN "audit" ELSE "claim") /\ UNCHANGED own
       \/ Leave(p) /\ Forget(p) /\ UNCHANGED lease
    /\ UNCHANGED <<pr, local, findings, orphans, passes, cleared, crashes>>

\* acquireReviseExecution: an absent lease is written, any other refuses, and so
\* does a lock that cannot be had.
acquireReviseExecution(p) ==
    /\ pc[p] = "acquire"
    /\ \/ /\ lease = None /\ lease' = p
          /\ Goto(p, IF own[p].seen THEN "audit" ELSE "claim") /\ UNCHANGED own
       \/ Leave(p) /\ Forget(p) /\ UNCHANGED lease
    /\ UNCHANGED <<pr, local, findings, orphans, passes, cleared, crashes>>

\* Mutant: a failed add counts as a claim.
claimUnchecked(p) ==
    /\ pc[p] = "claim"
    /\ \/ /\ ~pr.label /\ pr' \in {pr, [pr EXCEPT !.label = TRUE]} /\ passes' = passes + 1
          /\ Goto(p, IF p \in Operators THEN "audit" ELSE "fetch") /\ UNCHANGED <<lease, own>>
       \/ UNCHANGED pr /\ GiveUp(p) /\ Forget(p) /\ UNCHANGED passes
    /\ UNCHANGED <<local, findings, orphans, cleared, crashes>>

\* claimRevisionExclusive: the label is read again and added under the claim lock.
\* The add may fail, or succeed with its answer lost.
claimRevisionExclusive(p) ==
    /\ pc[p] = "claim"
    /\ \/ /\ ~pr.label /\ pr' = [pr EXCEPT !.label = TRUE] /\ passes' = passes + 1
          /\ Goto(p, IF p \in Operators THEN "audit" ELSE "fetch") /\ UNCHANGED <<lease, own>>
       \/ /\ pr' = pr \/ pr' = [pr EXCEPT !.label = TRUE]
          /\ GiveUp(p) /\ Forget(p) /\ UNCHANGED passes
    /\ UNCHANGED <<local, findings, orphans, cleared, crashes>>

\* recordReviseInvocation: without its audit comment an accepted pass does not run.
recordReviseInvocation(p) ==
    /\ pc[p] = "audit"
    /\ \/ Goto(p, "fetch") /\ UNCHANGED <<lease, own>>
       \/ GiveUp(p) /\ Forget(p)
    /\ UNCHANGED <<pr, local, findings, orphans, passes, cleared, crashes>>

\* fetchReviewFindings: the latest trusted review comment becomes the findings file.
fetchReviewFindings(p) ==
    /\ pc[p] = "fetch"
    /\ \/ pr.review # 0 /\ findings' = pr.review /\ Goto(p, "restore") /\ UNCHANGED <<pr, lease, own>>
       \/ /\ IF p \in Sweepers THEN postParkComment ELSE UNCHANGED pr
          /\ GiveUp(p) /\ Forget(p) /\ UNCHANGED findings
    /\ UNCHANGED <<local, orphans, passes, cleared, crashes>>

\* ensureReviseWorktree: an existing directory is taken as it is; a missing one is
\* recreated from the branch, which a best-effort fetch may fast-forward first.
ensureReviseWorktree(p) ==
    /\ pc[p] = "restore"
    /\ \/ /\ \E base \in {local.base} \cup IF local.tree \/ local.at = "applied" THEN {} ELSE {pr.head} :
                local' = [local EXCEPT !.tree = TRUE, !.base = base]
          /\ Goto(p, IF p \in Operators THEN "bind" ELSE "implement")
          /\ own' = [own EXCEPT ![p].flag = TRUE] /\ UNCHANGED lease
       \/ ~local.tree /\ GiveUp(p) /\ Forget(p) /\ UNCHANGED local
    /\ UNCHANGED <<pr, findings, orphans, passes, cleared, crashes>>

\* The checkout is at the head that the lookup saw.
Bound(p) == local.at = "base" /\ local.base = own[p].head

\* verifyReviseWorktreeBinding, and the hand-over of the lease to the orchestrator.
verifyReviseWorktreeBinding(p) ==
    /\ pc[p] = "bind"
    /\ IF Bound(p) THEN Goto(p, "handoff") /\ own' = [own EXCEPT ![p] = [Fresh EXCEPT !.flag = TRUE]]
                   ELSE Leave(p) /\ Forget(p)
    /\ Release(p)
    /\ UNCHANGED <<pr, local, findings, orphans, passes, cleared, crashes>>

-----------------------------------------------------------------------------
(* The orchestrator: resumes, the revision and its end.                    *)

\* The continuation that a process printed when it ended: a campaign names the item,
\* the command also its findings file while there is one.
Resume(p) ==
    /\ p \in Resumers /\ pc[p] = "idle"
    /\ \E withFile \in {FALSE : q \in {q \in Sweepers : pc[q] = "handed"}}
                       \cup {findings # 0 : q \in {q \in Operators : pc[q] = "handed"}} :
          /\ own' = [own EXCEPT ![p] = [Fresh EXCEPT !.flag = withFile]]
          /\ Goto(p, IF withFile THEN "handoff" ELSE IF local.at = "base" THEN "implement" ELSE "later")
    /\ UNCHANGED <<pr, local, findings, lease, orphans, passes, cleared, crashes>>

\* Resume mode refuses a findings file that cannot be read.
ReadFindings(p) ==
    /\ pc[p] = "handoff"
    /\ Goto(p, IF findings = 0 THEN "done" ELSE "reacquire")
    /\ UNCHANGED <<pr, local, findings, lease, own, orphans, passes, cleared, crashes>>

acquireRevisionResumeLease(p) ==
    /\ pc[p] = "reacquire"
    /\ \/ /\ lease = None /\ lease' = p
          /\ Goto(p, IF own[p].flag \/ local.at = "base" THEN "implement" ELSE "later")
       \/ Goto(p, "done") /\ UNCHANGED lease
    /\ UNCHANGED <<pr, local, findings, own, orphans, passes, cleared, crashes>>

\* runImplement reads its findings: without the file it was told of it fails.
StartImplement(p) ==
    /\ pc[p] = "implement"
    /\ IF own[p].flag /\ findings = 0
       THEN GiveUp(p) /\ Forget(p)
       ELSE /\ own' = [own EXCEPT ![p].task = IF own[p].flag THEN findings ELSE 0]
            /\ Goto(p, "coding") /\ UNCHANGED lease
    /\ UNCHANGED <<pr, local, findings, orphans, passes, cleared, crashes>>

\* The pipeline returns parked: the lease goes, whatever step parked.
Park(p) ==
    /\ pc[p] \in Executing /\ Goto(p, "parked") /\ Release(p)
    /\ own' = [own EXCEPT ![p].task = 0]
    /\ UNCHANGED <<pr, local, findings, orphans, passes, cleared, crashes>>

Fail(p) ==
    /\ pc[p] \in Executing \ {"implement"} /\ GiveUp(p) /\ Forget(p)
    /\ UNCHANGED <<pr, local, findings, orphans, passes, cleared, crashes>>

\* archiveReviewFindingsAfterImplement: applied findings are moved away and the
\* process remembers it.  The rename may fail, as it does when the file is gone.
EndImplement(p) ==
    /\ pc[p] = "coding"
    /\ local' = [local EXCEPT !.at = "applied"]
    /\ \/ own[p].task = 0 /\ Goto(p, "later") /\ UNCHANGED <<findings, own, lease>>
       \/ /\ own[p].task # 0 /\ findings # 0 /\ findings' = 0
          /\ own' = [own EXCEPT ![p].flag = FALSE, ![p].task = 0, ![p].consumed = TRUE]
          /\ Goto(p, "later") /\ UNCHANGED lease
       \/ own[p].task # 0 /\ GiveUp(p) /\ Forget(p) /\ UNCHANGED findings
    /\ UNCHANGED <<pr, orphans, passes, cleared, crashes>>

\* The push is refused when the branch is not built on the head of the pull request.
Ship(p) ==
    /\ pc[p] = "later" /\ local.at = "applied" /\ local.base = pr.head /\ pr.head < MaxHead
    /\ pr' = [pr EXCEPT !.head = @ + 1, !.red = FALSE]
    /\ local' = [local EXCEPT !.base = pr.head + 1, !.at = "base"]
    /\ GiveUp(p) /\ Forget(p)
    /\ UNCHANGED <<findings, orphans, passes, cleared, crashes>>

\* resumeOne, after the reset: the findings file is injected if it is there, and the
\* attempt is leased if it has findings, had them, or is the operator's.
resumeOne(p) ==
    /\ pc[p] = "parked" /\ p \notin Resumers
    /\ LET flag == (own[p].flag /\ p \in Operators) \/ findings # 0
       IN  /\ own' = [own EXCEPT ![p].flag = flag]
           /\ Goto(p, IF flag \/ own[p].consumed \/ p \in Operators THEN "reacquire"
                      ELSE IF local.at = "base" THEN "implement" ELSE "later")
    /\ UNCHANGED <<pr, local, findings, lease, orphans, passes, cleared, crashes>>

\* No reset time, a wait beyond --max-wait, or the round cap; a plain resume ends here.
HandBack(p) ==
    /\ pc[p] = "parked" /\ Goto(p, "handed") /\ Forget(p)
    /\ UNCHANGED <<pr, local, findings, lease, orphans, passes, cleared, crashes>>

\* A campaign is started anew.
Start(p) ==
    /\ p \in Sweepers /\ pc[p] \in {"done", "handed", "dead"} /\ lease # p /\ p \notin orphans
    /\ Goto(p, "idle") /\ own' = [own EXCEPT ![p] = Fresh]
    /\ UNCHANGED <<pr, local, findings, lease, orphans, passes, cleared, crashes>>

-----------------------------------------------------------------------------
(* Death, and the world outside.                                           *)

\* A dead holder keeps its lease, and its providers may live on in the worktree.
Crash(p) ==
    /\ crashes < MaxCrashes /\ pc[p] \notin {"idle", "done", "handed", "dead"}
    /\ Goto(p, "dead") /\ Forget(p) /\ crashes' = crashes + 1
    /\ orphans' \in {orphans, orphans \cup IF pc[p] \in Executing THEN {p} ELSE {}}
    /\ UNCHANGED <<pr, local, findings, lease, passes, cleared>>

OrphanEnds(p) ==
    /\ p \in orphans /\ orphans' = orphans \ {p}
    /\ UNCHANGED <<pr, local, findings, lease, pc, own, passes, cleared, crashes>>

\* Recovery is manual: a human verifies that nothing of the pass runs, then removes it.
RemoveLease(p) ==
    /\ lease = p /\ pc[p] \notin Leased \cup Executing /\ p \notin orphans /\ lease' = None
    /\ UNCHANGED <<pr, local, findings, pc, own, orphans, passes, cleared, crashes>>

\* The gate reviews a head that it has not reviewed.
Review ==
    /\ pr.review # pr.head /\ \E red \in BOOLEAN : pr' = [pr EXCEPT !.review = pr.head, !.red = red]
    /\ UNCHANGED <<local, findings, lease, pc, own, orphans, passes, cleared, crashes>>

PushByHand ==
    /\ pr.head < MaxHead /\ pr' = [pr EXCEPT !.head = @ + 1, !.red = FALSE]
    /\ UNCHANGED <<local, findings, lease, pc, own, orphans, passes, cleared, crashes>>

ClearLabel ==
    /\ pr.label /\ cleared < MaxCleared
    /\ pr' = [pr EXCEPT !.label = FALSE] /\ cleared' = cleared + 1
    /\ UNCHANGED <<local, findings, lease, pc, own, orphans, passes, crashes>>

\* A worktree without work of its own is tidied away.
Tidy ==
    /\ local.tree /\ local.at = "base" /\ lease = None /\ \A p \in Procs : pc[p] \notin Executing
    /\ local' = [local EXCEPT !.tree = FALSE]
    /\ UNCHANGED <<pr, findings, lease, pc, own, orphans, passes, cleared, crashes>>

Step(p) ==
    \/ List(p) \/ resolveReviseTarget(p) \/ acquireReviseExecution(p) \/ claimRevisionExclusive(p)
    \/ recordReviseInvocation(p) \/ fetchReviewFindings(p) \/ ensureReviseWorktree(p)
    \/ verifyReviseWorktreeBinding(p) \/ ReadFindings(p) \/ acquireRevisionResumeLease(p)
    \/ StartImplement(p) \/ Park(p) \/ Fail(p) \/ EndImplement(p) \/ Ship(p) \/ resumeOne(p) \/ HandBack(p)

Environment ==
    \/ \E p \in Procs : Resume(p) \/ Start(p) \/ Crash(p) \/ OrphanEnds(p) \/ RemoveLease(p)
    \/ Review \/ PushByHand \/ ClearLabel \/ Tidy

Next == Environment \/ \E p \in Procs : Step(p)

Spec == Init /\ [][Next]_vars

\* A campaign goes on, and campaigns follow each other; the lease of a dead one is
\* cleared by hand; the round cap ends a series of parks (MAX_RESUME_ROUNDS); gh does
\* not fail for ever.  Nothing is assumed of the other processes.
FairSpec ==
    /\ Spec
    /\ \A p \in Sweepers :
         /\ WF_vars(Step(p)) /\ WF_vars(Start(p)) /\ WF_vars(OrphanEnds(p))
         /\ WF_vars(pc[p] = "dead" /\ RemoveLease(p))
         /\ SF_vars(HandBack(p)) /\ SF_vars(List(p) /\ pr'.handoff)

-----------------------------------------------------------------------------
(* Properties.                                                             *)

\* The lease is given up only when nothing works under it any more: not while its
\* holder revises, and not while providers that outlived the holder do.
LeaseOutlivesWork ==
    [][\A p \in Procs : lease = p /\ lease' # p => pc'[p] \notin Leased \cup Executing /\ p \notin orphans']_vars

\* Two processes are never both past the acquisition and before their attempt, and
\* none of them is where another one revises under the lease: claims, audits,
\* findings and worktrees of one item are not interleaved.
PreflightAlone ==
    \A p, q \in Procs : p # q /\ pc[p] \in Leased => pc[q] \notin Leased /\ lease # q

\* However many processes see the pull request unlabelled, the label admits one first
\* pass, and one more each time a human takes it off.
OnePass == passes <= cleared + 1

\* A pull request that has spent its pass and stays red is handed to a human,
\* whatever became of the pass: refused, failed, crashed, or claimed and not run.
HandedOver == (pr.red /\ pr.label) ~> (pr.handoff \/ ~pr.red \/ ~pr.label)

\* docs/pr-review.md:1024-1030: two passes never revise the same claim worktree
\* concurrently.
TwoPassesNeverTogether ==
    \A p, q \in Procs : p # q /\ pc[p] \in Executing => pc[q] \notin Executing

\* docs/pr-review.md:1048-1052: the continuation that a park prints, with or without
\* findings, has the lease before it touches the worktree.
ContinuationIsLeased == \A p \in Resumers : pc[p] \in Executing => lease = p

\* docs/pr-review.md:1017-1021: a process whose implement applied the findings of a head
\* and archived them does not inject findings of that head into implement again.
AppliedStaysApplied ==
    \A p \in Procs : pc[p] = "coding" /\ own[p].consumed /\ local.at = "applied" => own[p].task # local.base
=============================================================================
