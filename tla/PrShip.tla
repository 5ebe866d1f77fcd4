------------------------------- MODULE PrShip -------------------------------
(***************************************************************************)
(* The ship step of the pull-request targets (steps/ship.ts): the          *)
(* freshness merge of origin/main, its repair and its gates                *)
(* (ship/freshness.ts), the cold pre-flight review, the ship agent, and    *)
(* the effects of its decision on the forge (ship/pr-effects.ts).          *)
(***************************************************************************)
EXTENDS Attempt

VARIABLES
    fresh,      \* fetchedOriginMainOid, whether files are listed as conflicted, the pre-flight pass
    remote      \* the claim branch at the forge: pushed, with whose markers, its PR, auto-merge

prVars == <<fresh, remote>>

NotFresh == [fetched |-> 0, listed |-> FALSE, pass |-> 1]
NoRemote == [pushed |-> FALSE, markers |-> "none", pr |-> FALSE, auto |-> FALSE]

-----------------------------------------------------------------------------
(* Freshness. *)

\* git merge of the fetched OID: clean, or stopped by conflicts.
Merged(b) == [b EXCEPT !.base = upstream, !.facts = {}, !.esc = NoEsc]
Conflicted(b) == [b EXCEPT !.merge = "unmerged", !.incoming = upstream, !.marked = TRUE]

\* A merge that was left open is repaired as it stands: nothing is fetched.
MergeStillOpen ==
    /\ br.merge # "none"
    /\ fresh' = [fetched |-> ref, listed |-> br.merge = "unmerged", pass |-> 1]
    /\ Goto("repair", steps) /\ UNCHANGED <<park, br, ref>>

Fetched ==
    /\ ~Dirty(br) /\ ref' = upstream /\ UNCHANGED park
    /\ \/ /\ br.base >= upstream
          /\ fresh' = [NotFresh EXCEPT !.fetched = upstream]
          /\ Goto(IF "recorded" \in br.facts THEN "preflight" ELSE "gates", steps)
          /\ UNCHANGED br
       \/ /\ br.base < upstream /\ br' \in {Merged(br), Conflicted(br)}
          /\ fresh' = [fetched |-> upstream, listed |-> br' = Conflicted(br), pass |-> 1]
          /\ Goto("repair", steps)

\* The tree is dirty, origin/main does not resolve, or the fetch or the merge fails.
NotFetched == Failed(steps) /\ ref' \in {ref, upstream} /\ UNCHANGED <<br, fresh>>

preparePrShipFreshness ==
    /\ pc = "fresh"
    /\ MergeStillOpen \/ Fetched \/ NotFetched
    /\ UNCHANGED <<upstream, remote>>

-----------------------------------------------------------------------------
(* runImplementationAuthorRepair, which is a retried shakedown-code step. *)

RepairCheckpoint(b) == IF RepairComplete(b, fresh.listed) THEN Checkpoint(b) ELSE {b}

Repair ==
    /\ At("repair")
    /\ \E b \in Works(br, "code") : \E c \in RepairCheckpoint(b) :
          \/ runStepWithRetry("shakedown-code", b, c)
          \/ RepairComplete(c, fresh.listed) /\ GoesOn("shakedown-code", c, "gates")
          \/ ~RepairComplete(c, fresh.listed) /\ br' = c /\ Failed(Ran("shakedown-code", TRUE))
    /\ UNCHANGED prVars

\* The main checkout's links are verified, the branch typechecked.
LinksHold == ParkExit("held", steps, br)

verifyPrShipFreshness == ~Dirty(br) /\ ref = fresh.fetched /\ br.base >= fresh.fetched

runFreshnessGates ==
    /\ pc = "gates"
    /\ \/ LinksHold
       \/ Failed(steps) /\ UNCHANGED br
       \/ /\ verifyPrShipFreshness
          /\ br' = [br EXCEPT !.facts = @ \cup {"typechecked", "recorded"}]
          /\ Goto("preflight", steps) /\ UNCHANGED park
    /\ UNCHANGED <<ref, upstream, prVars>>

-----------------------------------------------------------------------------
(* runColdPrReviewPreflight. *)

\* HEAD is compared before anything the gate says is used: a seat may have committed.
HeadMoved ==
    /\ Failed(steps) /\ br' \in {br, Commit(Edited(br, "code"), "author")}
    /\ UNCHANGED fresh

isAuthorActionablePreflight(verdict) == verdict = "block" /\ fresh.pass = 1

\* What the gate said: a block the author can act on, or any other answer, also an error of
\* the gate, which leaves the block to the required gate of the PR.
Reviewed ==
    \E ok \in BOOLEAN, verdict \in {"block", "other"} :
       LET passed == br.facts \cup {"preflighted"} IN
       /\ UNCHANGED park
       /\ \/ /\ isAuthorActionablePreflight(verdict)
             /\ Goto("revision", Ran(Seat, ok)) /\ br' = [br EXCEPT !.facts = passed]
          \/ /\ ~isAuthorActionablePreflight(verdict)
             /\ Goto("agent", Ran(Seat, ok)) /\ br' = [br EXCEPT !.facts = passed \cup {"gated"}]
       /\ fresh' = [fresh EXCEPT !.pass = 1 + (IF pc' = "revision" THEN 1 ELSE 0)]

runColdPrReviewPreflight ==
    /\ pc = "preflight"
    /\ \/ HeadMoved
       \/ LinksHold /\ UNCHANGED fresh
       \/ \E ok \in BOOLEAN : ParkExit("parked", Ran(Seat, ok), br) /\ UNCHANGED fresh
       \/ \E ok \in BOOLEAN : ShipFailed(Ran(Seat, ok)) /\ UNCHANGED <<br, fresh>>
       \/ Reviewed
    /\ UNCHANGED <<ref, upstream, remote>>

\* The author revises once, and the backstop runs on the tree as it is.
Revision ==
    /\ At("revision")
    /\ \E b \in Works(br, "code") : \E c \in Checkpoint(b) :
          runStepWithRetry("shakedown-code", b, c) \/ GoesOn("shakedown-code", c, "retype")
    /\ UNCHANGED prVars

\* Mutant: the revision is reviewed without a typecheck.
ReviewsUntyped(b) == b
Retyped(b) == IF Dirty(b) THEN b ELSE [b EXCEPT !.facts = @ \cup {"typechecked"}]

Retype ==
    /\ pc = "retype"
    /\ \/ LinksHold
       \/ Failed(steps) /\ UNCHANGED br
       \/ br' = Retyped(br) /\ Goto("preflight", steps) /\ UNCHANGED park
    /\ UNCHANGED <<ref, upstream, prVars>>

-----------------------------------------------------------------------------
(* The ship agent, which decides, and the effects of its decision. *)

\* The one retry of an unreadable decision, unless parked by now.
DecideAgain(ran) == try = 1 /\ try' = 2 /\ steps' = ran /\ UNCHANGED <<pc, flaky, park, log, out>>

\* A body of an earlier run that cannot be removed refuses the ship before the agent starts,
\* and the attempt has logged a step or not by then.
BodyStays ==
    /\ try = 1
    /\ \/ park /\ ParkExit("parked", steps, br)
       \/ ~park /\ UNCHANGED br /\ ShipFailed(steps)
       \/ ~park /\ UNCHANGED br /\ steps = "none" /\ Failed(steps)

\* Neither a retried step nor checkpointed.  Effects are skipped by a step that ends parked.
ShipAgent ==
    /\ pc = "agent" /\ UNCHANGED <<ref, upstream, prVars>>
    /\ \/ BodyStays
       \/ \E b \in Works(br, "code") :
             \/ br' = b /\ ShipFailed(Ran("ship", FALSE))
             \/ \E ok \in BOOLEAN : (park \/ ~ok) /\ ParkExit("parked", Ran("ship", ok), b)
             \/ ~park /\ QuarantineExit(Ran("ship", FALSE), b)
             \/ ~park /\ br' = b /\ DecideAgain(Ran("ship", FALSE))
             \/ ~park /\ br' = b /\ Goto("squash", steps) /\ UNCHANGED park

\* runShipPrEffects threw.  The step is not ok; with a park meanwhile it resumes.
EffectFails ==
    \/ park /\ ParkExit("parked", Ran("ship", FALSE), br)
    \/ ~park /\ ShipFailed(Ran("ship", FALSE)) /\ UNCHANGED br

Effect(at) == pc = at /\ UNCHANGED <<ref, upstream, fresh>>

BoundToGate == ~Dirty(br) /\ "gated" \in br.facts /\ ref = fresh.fetched /\ br.base >= fresh.fetched

\* git reset --soft to the merge base: the work is in the index only, until the commit.
Squash ==
    /\ Effect("squash")
    /\ \/ EffectFails
       \/ /\ BoundToGate
          /\ br' = [br EXCEPT !.dirty = {"code"}, !.bare = TRUE, !.esc = NoEsc]
          /\ Goto("commit", steps) /\ UNCHANGED park
    /\ UNCHANGED remote

CommitSquash ==
    /\ Effect("commit")
    /\ \/ EffectFails
       \/ /\ br' = [Commit(br, "harness") EXCEPT !.facts = br.facts \cap {"typechecked", "preflighted"}]
          /\ Goto("push", steps) /\ UNCHANGED park
    /\ UNCHANGED remote

PushBranch ==
    /\ Effect("push")
    /\ \/ EffectFails /\ UNCHANGED remote
       \/ /\ br' = [br EXCEPT !.facts = @ \cup {"pushed"}]
          /\ remote' = [remote EXCEPT !.pushed = TRUE, !.markers = br.markers]
          /\ Goto("upsert", steps) /\ UNCHANGED park

UpsertPr ==
    /\ Effect("upsert")
    /\ \/ EffectFails /\ UNCHANGED remote
       \/ /\ remote' = [remote EXCEPT !.pr = TRUE] /\ UNCHANGED <<park, br>>
          /\ Goto(IF target = "auto-merge-pr" THEN "auto-merge" ELSE "receipt", steps)

\* Refused on a red check.
AutoMerge ==
    /\ Effect("auto-merge")
    /\ \/ EffectFails /\ UNCHANGED remote
       \/ remote' = [remote EXCEPT !.auto = TRUE] /\ Goto("receipt", steps) /\ UNCHANGED <<park, br>>

\* The receipt is written, and the step returns to runShip, where a park still parks.
Shipped ==
    /\ Effect("receipt")
    /\ \/ EffectFails
       \/ park /\ ParkExit("parked", Ran("ship", TRUE), br)
       \/ ~park /\ Finish("completed", Ran("ship", TRUE), FALSE) /\ UNCHANGED br
    /\ UNCHANGED remote

PrStep ==
    \/ preparePrShipFreshness
    \/ Repair
    \/ runFreshnessGates
    \/ runColdPrReviewPreflight
    \/ Revision
    \/ Retype
    \/ ShipAgent
    \/ Squash
    \/ CommitSquash
    \/ PushBranch
    \/ UpsertPr
    \/ AutoMerge
    \/ Shipped
=============================================================================
