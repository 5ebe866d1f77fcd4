----------------------------- MODULE DirectShip -----------------------------
(***************************************************************************)
(* The ship step of the direct-push target: the agent merges into local    *)
(* main, the pipeline verifies that the merge landed (ship/freshness.ts),  *)
(* a shipwreck agent recovers, and the bookkeeping tail pushes main and    *)
(* cleans up (ship/bookkeeping.ts).  That main has the branch is br.bare:  *)
(* the branch has nothing beyond main.                                     *)
(***************************************************************************)
EXTENDS Attempt

VARIABLE main       \* local main, its push, and what is left of the claim

NoMain == [moved |-> {},         \* who moved main since its sha was captured
           claim |-> FALSE,      \* the ship agent was ok, or the merge landed
           done |-> FALSE,       \* this attempt marked the item done
           pushed |-> FALSE,     \* its push of main brought the work to origin
           removed |-> FALSE,    \* the worktree was removed, by force
           gone |-> FALSE,       \* the local claim branch was deleted
           unclaimed |-> FALSE]  \* the claim branch at origin was deleted

-----------------------------------------------------------------------------
(* The merge. *)

\* Stray changes of main are committed before the sha is read, so they do not move it later.
captureShipState ==
    /\ pc = "capture"
    /\ \/ Failed(steps) /\ UNCHANGED <<br, main>>
       \/ /\ main' = [main EXCEPT !.moved = {}]
          /\ Goto("merge", steps) /\ UNCHANGED <<park, br>>
    /\ UNCHANGED <<ref, upstream>>

MovesMain == [main EXCEPT !.moved = @ \cup {"ship"}]
Landed(b) == [b EXCEPT !.bare = TRUE, !.facts = {}, !.esc = NoEsc]

\* Mutant: the word of the agent is taken.
TrustsAgent(m) == TRUE
verifyShipLanded(m) == m.moved # {}

\* The agent left m of main and the tree b.  It is reported with its marker, and verified;
\* or left to /shipwreck.  Reading main may fail, which counts as not landed.  After a
\* violation of confinement, or a rate limit that set no park signal, the ship has failed.
Merges(m, b, ok, marker) ==
    \/ main' = m /\ br' = b /\ ShipFailed(Ran("ship", FALSE))
    \/ main' = m /\ (park \/ ~ok) /\ ParkExit("parked", Ran("ship", ok), b)
    \/ main' = m /\ ~park /\ QuarantineExit(Ran("ship", FALSE), b)
    \/ /\ ~park /\ ok /\ marker /\ verifyShipLanded(m) /\ main' = m
       /\ br' = b /\ Goto("tail", Ran("ship", TRUE)) /\ UNCHANGED park
    \/ /\ ~park /\ main' = [m EXCEPT !.claim = ok \/ verifyShipLanded(m)]
       /\ br' = b /\ Goto("wreck", Ran("ship", ok)) /\ UNCHANGED park

Merge ==
    /\ pc = "merge" /\ UNCHANGED <<ref, upstream>>
    /\ \E b \in Works(br, "code"), ok \in BOOLEAN, marker \in BOOLEAN :
          Merges(main, b, ok, marker) \/ Merges(MovesMain, Landed(b), ok, marker)

\* /shipwreck completes the merge, does nothing, or rolls back, which it does not report as
\* merged.
Shipwreck ==
    /\ pc = "wreck" /\ UNCHANGED <<ref, upstream>>
    /\ \E ok \in BOOLEAN, marker \in BOOLEAN :
       /\ \/ UNCHANGED br /\ main' = main
          \/ br' = Landed(br) /\ main' = MovesMain
          \/ /\ ~marker /\ br' = [br EXCEPT !.bare = FALSE]
             /\ main' \in {MovesMain, [main EXCEPT !.moved = @ \ {"ship"}]}
       /\ \/ /\ ok /\ marker /\ verifyShipLanded(main')
             /\ Goto("tail", Ran("shipwreck", TRUE)) /\ UNCHANGED park
          \/ Finish("failed", Ran("shipwreck", ok), ~main.claim)

-----------------------------------------------------------------------------
(* runShipBookkeeping. *)

Tail(at) == pc = at /\ UNCHANGED <<ref, upstream>>

\* Mark-done and the archive of the plan are commits to main that may fail.
MarkDone ==
    /\ Tail("tail") /\ main' \in {main, [main EXCEPT !.done = TRUE]}
    /\ Goto("push-main", steps) /\ UNCHANGED <<park, br>>

\* One pull and retry; after that, or with a conflict, the branch stays.
\* Mutant: a push that failed is only a warning.
WarnsOnly == Goto("cleanup", steps) /\ UNCHANGED park
PushRejected == Failed(steps)

PushMain ==
    /\ Tail("push-main") /\ UNCHANGED br
    /\ \/ PushRejected /\ UNCHANGED main
       \/ main' = [main EXCEPT !.pushed = br.bare] /\ Goto("cleanup", steps) /\ UNCHANGED park

\* The cleanup: every step of it is best effort.
RemoveWorktree ==
    /\ Tail("cleanup") /\ main' \in {main, [main EXCEPT !.removed = TRUE]}
    /\ Goto("delete", steps) /\ UNCHANGED <<park, br>>

\* git branch -d refuses a branch that main does not have, or that a worktree has out.
Deletable == main.done /\ main.removed /\ br.bare
DeleteBranch ==
    /\ Tail("delete") /\ main' \in {main, [main EXCEPT !.gone = Deletable]}
    /\ Goto("unclaim", steps) /\ UNCHANGED <<park, br>>

\* Nothing is asked of the branch at origin, only that the item was marked done.
DeleteClaim ==
    /\ Tail("unclaim") /\ main' \in {main, [main EXCEPT !.unclaimed = @ \/ main.done]}
    /\ Goto("cleaned", steps) /\ UNCHANGED <<park, br>>

CleanedUp == Tail("cleaned") /\ Finish("completed", steps, FALSE) /\ UNCHANGED <<br, main>>

\* A peer of the same checkout ships or does bookkeeping.
PeerMovesMain ==
    /\ pc \in {"merge", "wreck"} /\ main' = [main EXCEPT !.moved = @ \cup {"peer"}]
    /\ main' # main
    /\ UNCHANGED attemptVars

DirectStep ==
    \/ captureShipState
    \/ Merge
    \/ Shipwreck
    \/ MarkDone
    \/ PushMain
    \/ RemoveWorktree
    \/ DeleteBranch
    \/ DeleteClaim
    \/ CleanedUp
=============================================================================
