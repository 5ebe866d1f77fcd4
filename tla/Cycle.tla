------------------------------- MODULE Cycle -------------------------------
(***************************************************************************)
(* The attempts at one roadmap item, as orchestrator.ts makes them: picked *)
(* at first, then resumed where detectResumeStep says (resumeOne), by the  *)
(* same process after a park or by a later one with --resume, until one of *)
(* them completes.  A process may crash at any time, and peers work in     *)
(* other worktrees of the same checkout.                                   *)
(***************************************************************************)
EXTENDS AuthoringReview, PrShip, DirectShip

CONSTANTS MaxTries,     \* bound: the attempts at the item
          FromSteps     \* bound: the steps that --from names

ASSUME CycleAssumption == MaxTries \in Nat \ {0} /\ FromSteps \subseteq Pipeline \ {"pick"}

VARIABLE tries

vars == <<attemptVars, reviewVars, prVars, main, tries>>

RunPcs ==
    Pipeline \cup ReviewPcs
    \cup {"fresh", "repair", "gates", "preflight", "revision", "retype", "agent", "squash",
          "commit", "push", "upsert", "auto-merge", "receipt"}
    \cup {"capture", "merge", "wreck", "tail", "push-main", "cleanup", "delete", "unclaim", "cleaned"}

Planning == {"plan", "shakedown-plan"}
Merging == {"merge", "wreck"}
Agents == Planning \cup Merging \cup {"implement", "shakedown-code", "revise", "repair", "revision", "agent"}

Results == {"none", "parked", "held", "blocked", "halted", "failed", "completed", "crashed"}

TypeOK ==
    /\ target \in Targets /\ authoring \in BOOLEAN
    /\ pc \in {"idle"} \cup RunPcs
    /\ try \in 1..MaxAttempts \cup {2} /\ flaky \in 0..(MaxTransient - 1) /\ park \in BOOLEAN
    /\ {steps, log} \subseteq {"none"} \cup Pipeline
    /\ out \in Results
    /\ br.dirty \subseteq {"plan", "code", "log"} /\ br.facts \subseteq Facts
    /\ br.merge \in {"none", "unmerged", "added"} /\ br.markers \in {"none", "author", "harness"}
    /\ br.base \in 0..upstream /\ br.incoming \in 0..upstream
    /\ br.esc.state \in Escalations
    /\ ref \in 0..upstream /\ upstream \in 0..MaxMain
    /\ rv.pass \in 0..MaxPasses /\ rv.revisions \in 0..MaxRevisions
    /\ rv.carried \subseteq Findings /\ rv.outcome \in Outcomes
    /\ fresh.fetched \in 0..upstream /\ fresh.pass \in 1..2
    /\ main.moved \subseteq {"ship", "peer"}
    /\ tries \in 0..MaxTries

-----------------------------------------------------------------------------
(* The attempts. *)

Enter(where) ==
    /\ pc = "idle" /\ tries < MaxTries /\ tries' = tries + 1
    /\ pc' = where /\ out' = "none"
    /\ fresh' = NotFresh /\ main' = [NoMain EXCEPT !.unclaimed = main.unclaimed]
    /\ UNCHANGED <<try, flaky, park, steps, log, ref, upstream, rv, remote>>

Start == ~br.made /\ Enter("pick") /\ UNCHANGED br

\* An item whose worktree is there.  A completed attempt ends it.
MayResume == br.made /\ ~main.removed /\ out # "completed"

\* The process waits out a park of its own and goes on at the step it detects.
WaitOut ==
    /\ MayResume /\ out = "parked"
    /\ Enter(detectResumeStep(br, log)) /\ UNCHANGED br

\* Another process, with --from or not: it knows nothing of the gates that completed.
Resume ==
    /\ MayResume
    /\ br' = [br EXCEPT !.facts = @ \ {"recorded"}]
    /\ \E from \in {detectResumeStep(br, log)} \cup FromSteps : Enter(from)

\* The process dies: its agents with it, whatever the one left behind, and with no log entry.
Crash ==
    /\ pc # "idle"
    /\ \E b \in IF pc \in Agents THEN Works(br, IF pc \in Planning THEN "plan" ELSE "code") ELSE {br} :
          br' \in {[b EXCEPT !.facts = @ \ {"recorded"}]} \cup (IF pc \in Merging THEN {Landed(b)} ELSE {})
    /\ pc' = "idle" /\ try' = 1 /\ flaky' = 0 /\ park' = FALSE /\ steps' = "none"
    /\ out' = "crashed" /\ rv' = NoReview /\ fresh' = NotFresh
    /\ UNCHANGED <<log, ref, upstream, remote, main, tries>>

-----------------------------------------------------------------------------

Work ==
    \/ AttemptStep /\ UNCHANGED <<reviewVars, prVars, main>>
    \/ ReviewStep /\ UNCHANGED <<prVars, main>>
    \/ PrStep /\ UNCHANGED <<reviewVars, main>>
    \/ DirectStep /\ UNCHANGED <<reviewVars, prVars>>

Environment ==
    \/ PeerParks /\ UNCHANGED <<reviewVars, prVars, main>>
    \/ UpstreamMoves /\ UNCHANGED <<reviewVars, prVars, main>>
    \/ PeerFetches /\ UNCHANGED <<reviewVars, prVars, main>>
    \/ PeerMovesMain /\ UNCHANGED <<reviewVars, prVars>>
    \/ OperatorResolves /\ ~main.removed /\ UNCHANGED <<reviewVars, prVars, main>>

Init ==
    /\ target \in Targets /\ authoring \in BOOLEAN
    /\ pc = "idle" /\ try = 1 /\ flaky = 0 /\ park = FALSE
    /\ steps = "none" /\ log = "none" /\ out = "none" /\ br = NoBranch
    /\ ref = 0 /\ upstream = 0 /\ rv = NoReview
    /\ fresh = NotFresh /\ remote = NoRemote /\ main = NoMain /\ tries = 0

Next ==
    /\ UNCHANGED <<target, authoring>>
    /\ \/ Start \/ WaitOut \/ Resume \/ Crash
       \/ (Work \/ Environment) /\ UNCHANGED tries

\* What a step awaits returns: an agent has its turns and its timeouts.
Spec == Init /\ [][Next]_vars /\ WF_vars(Work /\ UNCHANGED <<target, authoring, tries>>)
-----------------------------------------------------------------------------
(* Properties. *)

\* What is pushed for a pull request is deliverable, clean and fresh, and this very tree was
\* typechecked and pre-flighted: through merges, repairs, the revision and its recheck, an
\* agent that commits, and gates remembered from an attempt before (steps/ship.ts).
PushIsGated ==
    pc = "push" =>
        /\ HasDeliverableCommits(br) /\ ~Dirty(br) /\ br.base >= fresh.fetched
        /\ {"typechecked", "preflighted"} \subseteq br.facts

\* The harness never concludes a merge with its conflict markers, whichever of its
\* checkpoints meets the open merge, so none of its making reaches the forge (git.ts).
PushedMarkersAreTheAuthors == remote.markers # "harness"

\* A completed attempt has delivered: the PR is open, and set to merge if the target says
\* so; or main was pushed with the work.  (For the sha of main the commit of a peer cannot be
\* told from the merge.)
CompletedIsDelivered ==
    out = "completed" =>
        IF target = "direct-push" THEN main.pushed \/ "peer" \in main.moved
        ELSE remote.pushed /\ remote.pr /\ (target = "auto-merge-pr" => remote.auto)

\* What is left of an attempt is taken away only after its delivery (runShipBookkeeping).
\* The local branch, the last copy of the work, goes only when origin has the work and the
\* item is marked done, even where a peer's commit was taken for the merge; in that case
\* alone the worktree, and the claim at origin, may go before.  The claim at origin, which
\* keeps the item from being picked again, stays until the item is marked done.
BranchOutlivesDelivery ==
    [][LET delivered == main.pushed \/ "peer" \in main.moved IN
       /\ main'.removed /\ ~main.removed => delivered
       /\ main'.gone /\ ~main.gone => main.pushed /\ main.done
       /\ main'.unclaimed /\ ~main.unclaimed => delivered /\ main.done]_vars

\* A finding of a safety class stays for as long as the loop runs, whatever the Judge decides
\* and whichever reviewer omits it (review/loop.ts).
SafetyFindingsStay ==
    [][(pc \in ReviewPcs /\ pc' \in ReviewPcs) => rv.carried \cap Safety \subseteq (rv.carried)']_vars

\* The review lets an attempt on to ship only without a safety finding, for a direct push
\* without any finding, and after a split only on a committed resolution that says proceed
\* (steps/shakedown-code.ts).
ReviewStandsBeforeShip ==
    [][authoring /\ pc' = "ship" =>
        /\ pc \in ReviewPcs =>
              /\ rv.carried \cap Safety = {}
              /\ target = "direct-push" => rv.carried = {}
              /\ rv.split => lookupReviewEscalation(br) = "proceed"
        /\ pc = "shakedown-code" => lookupReviewEscalation(br) = "proceed" /\ ~br.esc.safety]_vars

\* Every attempt ends: retries, revisions and rechecks are all bounded (pipeline.ts).
AttemptEnds == []<>(pc = "idle")

\* docs/config.md: "resume without `--acknowledge-escalation`, or with a mismatched
\* fingerprint, parks again", and a safety class or `resolved-block` record is never passed.
\* So no attempt gets to ship over such a record, unless it is told to with --from ship.
EscalationHolds ==
    [][pc # "ship" /\ pc' = "ship" /\ (pc = "idle" => detectResumeStep(br, log) = "ship") =>
        \/ lookupReviewEscalation(br') = "none"
        \/ lookupReviewEscalation(br') = "proceed" /\ ~(br.esc.safety)']_vars
=============================================================================
