-------------------------- MODULE AuthoringReview --------------------------
(***************************************************************************)
(* The shakedown-code step (steps/shakedown-code.ts): with the authoring   *)
(* review off, one agent; with it on, the cold review loop of              *)
(* review/loop.ts, and the escalation of a reviewer split to the operator  *)
(* (decisions.ts).                                                         *)
(*                                                                         *)
(* The findings are the must-fix ones: a note or a nice-to-have only tells *)
(* the outcomes converged-clean, converged-with-notes and ceiling apart,   *)
(* which all ship and are "converged" here.                                *)
(***************************************************************************)
EXTENDS Attempt

CONSTANTS Reviewers,                 \* the reviewer seats
          Findings, Safety,          \* must-fix findings, and those of a safety class
          MaxPasses, MaxRevisions    \* the policy of the loop

ASSUME ReviewAssumption ==
    /\ IsFiniteSet(Reviewers) /\ Safety \subseteq Findings
    /\ MaxPasses \in Nat \ {0} /\ MaxRevisions \in Nat

VARIABLES
    authoring,     \* review.authoring.enabled is not off
    rv             \* the state of runReviewLoop, then its result

reviewVars == <<authoring, rv>>

ReviewPcs == {"seats", "judge", "revise", "teardown", "escalate", "record", "notify"}
Outcomes == {"none", "converged", "dissent", "hard-block", "budget", "threw"}

NoReview == [pass |-> 0, revisions |-> 0, carried |-> {}, outcome |-> "none",
             split |-> FALSE, writeFailed |-> FALSE]

-----------------------------------------------------------------------------
(* The step before the loop. *)

\* The step as one agent.
ShakedownCode ==
    /\ At("shakedown-code") /\ ~authoring
    /\ \E b \in Works(br, "code") : \E c \in Checkpoint(b) :
          runStepWithRetry("shakedown-code", b, c) \/ GoesOn("shakedown-code", c, "ship")
    /\ UNCHANGED reviewVars

\* lookupReviewEscalation, which reads only what HEAD has committed.
lookupReviewEscalation(b) == IF "log" \in b.dirty THEN "none" ELSE b.esc.state

Acknowledges(ack) == ack /\ ~br.esc.safety

Admit ==
    /\ authoring /\ pc = "shakedown-code"
    /\ \E acknowledged \in BOOLEAN :     \* --acknowledge-escalation names this record
       LET found == lookupReviewEscalation(br) IN
       \/ ParkExit("parked", steps, br) /\ UNCHANGED rv      \* HEAD does not resolve
       \/ /\ found \in {"active", "block", "invalid"}
          /\ ParkExit("parked", steps, br) /\ UNCHANGED rv
       \/ /\ found = "proceed" /\ ~Acknowledges(acknowledged)
          /\ ParkExit("parked", steps, br) /\ UNCHANGED rv
       \/ /\ found = "proceed" /\ Acknowledges(acknowledged)
          /\ Goto("ship", steps) /\ UNCHANGED <<park, br, rv>>
       \/ /\ found = "none"
          /\ Goto("seats", steps) /\ rv' = [NoReview EXCEPT !.pass = 1]
          /\ UNCHANGED <<park, br>>
       \/ /\ found \in {"none", "proceed"}                    \* no seating, no execution context
          /\ Failed(steps) /\ UNCHANGED <<br, rv>>
    /\ UNCHANGED <<ref, upstream>>

-----------------------------------------------------------------------------
(* runReviewLoop. *)

\* An agent's own rate limit parks the process, unless it is parked by then.
Limits == {FALSE, ~park}

LoopEnds(ran, r) == Goto("teardown", ran) /\ rv' = r

\* What is left of a pass is too dear.
BudgetEnds ==
    /\ pc = "seats" /\ LoopEnds(steps, [rv EXCEPT !.outcome = "budget"])
    /\ UNCHANGED <<park, br, ref, upstream>>

\* A seat that is not ok may still have reported findings; its verdict is not used.
SeatResults == [ok : BOOLEAN, found : SUBSET Findings]

Discovered(seat) == rv.carried \cup UNION {seat[r].found : r \in DOMAIN seat}

\* classifyReviewDisagreement: among two or more ok seats, one passes and one blocks.
Splits(seat) ==
    LET drivers == {r \in DOMAIN seat : seat[r].ok} IN
    (\E r \in drivers : seat[r].found = {}) /\ (\E r \in drivers : seat[r].found # {})

\* classifyReviewOutcome over the surviving must-fix findings and the Judge's rulings.
classifyReviewOutcome(survivors, unfixable, dissent) ==
    IF survivors \cap Safety # {} \/ survivors \cap unfixable # {} THEN "hard-block"
    ELSE IF survivors \cap dissent # {} THEN "dissent"
    ELSE IF survivors # {} THEN "hard-block" ELSE "converged"

\* All seats of a pass have settled; none starts once the process is parked, and a seat's
\* own rate limit parks it.
SeatsSettle ==
    /\ pc = "seats"
    /\ \E seat \in [Reviewers -> SeatResults], limited \in Limits :
       LET cands == Discovered(seat)
           anyOk == \E r \in Reviewers : seat[r].ok
           ran == Ran(Seat, anyOk)
           parks == park \/ limited IN
       /\ limited => \E r \in Reviewers : ~seat[r].ok
       /\ park' = parks
       /\ \/ /\ ~anyOk
             /\ LoopEnds(ran, [rv EXCEPT !.outcome = IF parks THEN "budget" ELSE "hard-block",
                                         !.carried = IF parks THEN cands ELSE @])
          \/ /\ Splits(seat)
             /\ LoopEnds(ran, [rv EXCEPT !.outcome = IF cands \cap Safety # {} THEN "hard-block" ELSE "dissent",
                                         !.carried = cands, !.split = TRUE])
          \/ /\ anyOk /\ ~Splits(seat)
             /\ Goto("judge", ran) /\ rv' = [rv EXCEPT !.carried = cands]
    /\ UNCHANGED <<br, ref, upstream>>

\* Mutant: the Judge's decision alone clears a finding.
KeptByDecision(cands, survive) == survive
KeptByJudge(cands, survive) == survive \cup (cands \cap Safety)

\* What was kept and found unfixable ends the loop, or the author gets to revise.
Ruled(kept, outcome, unfixable, valid, limited) ==
    LET stops == \/ outcome # "hard-block" \/ rv.pass = MaxPasses \/ ~valid
                 \/ kept \cap (Safety \cup unfixable) # {} \/ rv.revisions >= MaxRevisions IN
    \/ stops /\ LoopEnds(Ran(Seat, valid /\ ~limited), [rv EXCEPT !.outcome = outcome, !.carried = kept])
    \/ ~stops /\ Goto("revise", Ran(Seat, TRUE)) /\ rv' = [rv EXCEPT !.carried = kept]

\* The Judge throws, its report is unreadable or incomplete or lowers a safety class, or
\* it decides every candidate.
Judge ==
    /\ pc = "judge"
    /\ \E limited \in Limits, valid \in BOOLEAN, survive \in SUBSET rv.carried :
       \E unfixable \in SUBSET survive : \E dissent \in SUBSET (survive \ unfixable) :
       LET kept == IF valid THEN KeptByJudge(rv.carried, survive) ELSE rv.carried
           outcome == IF park \/ limited THEN "budget"
                      ELSE classifyReviewOutcome(kept, unfixable, dissent) IN
       /\ ~valid => survive = rv.carried /\ unfixable = {} /\ dissent = {}
       /\ park' = (park \/ limited)
       /\ Ruled(kept, outcome, unfixable, valid, limited)
    /\ UNCHANGED <<br, ref, upstream>>

\* The author revises in the claim worktree, and the next pass reads the new HEAD.
Revise ==
    /\ pc = "revise"
    /\ \E b \in Works(br, "code") : \E c \in Checkpoint(b), limited \in Limits :
       /\ park' = (park \/ limited)
       /\ \/ br' = b /\ LoopEnds(steps, [rv EXCEPT !.outcome = "threw"])
          \/ br' = b /\ LoopEnds(Ran("shakedown-code", FALSE),        \* a forbidden root changed
                                 [rv EXCEPT !.outcome = IF park' THEN "budget" ELSE "hard-block"])
          \/ /\ br' = c
             /\ \/ LoopEnds(Ran("shakedown-code", FALSE),
                            [rv EXCEPT !.outcome = IF park' THEN "budget" ELSE "hard-block"])
                \/ /\ Goto("seats", Ran("shakedown-code", TRUE))
                   /\ rv' = [rv EXCEPT !.pass = @ + 1, !.revisions = @ + 1]
                \/ LoopEnds(Ran("shakedown-code", TRUE), [rv EXCEPT !.outcome = "budget"])
    /\ UNCHANGED <<ref, upstream>>

-----------------------------------------------------------------------------
(* The verdict. *)

EscapesLoop(outcome) == ParkExit(outcome, steps, br) /\ rv' = NoReview

\* The seats are torn down; a seat teardown that cannot restore MAIN's links holds the
\* campaign, and so does a loop that threw.
Teardown ==
    /\ pc = "teardown"
    /\ \/ EscapesLoop("held")
       \/ rv.outcome # "threw" /\ EscapesLoop("parked")      \* HEAD does not resolve
       \/ /\ rv.outcome # "threw"
          /\ Goto(IF rv.split THEN "escalate" ELSE "notify", steps)
          /\ UNCHANGED <<park, br, rv>>
    /\ UNCHANGED <<ref, upstream>>

\* appendReviewEscalation writes the record.  A record of an earlier split of this very
\* artifact, which no commit took in, makes the two ambiguous.
Escalate ==
    /\ pc = "escalate"
    /\ \/ Goto("notify", steps) /\ rv' = [rv EXCEPT !.writeFailed = TRUE] /\ UNCHANGED br
       \/ /\ br' = [br EXCEPT !.dirty = @ \cup {"log"},
                      !.esc = [state |-> IF @.state = "none" THEN "active" ELSE "invalid",
                               safety |-> @.safety \/ rv.carried \cap Safety # {}]]
          /\ Goto("record", steps) /\ UNCHANGED rv
    /\ UNCHANGED <<park, ref, upstream>>

\* It commits the record, and only that; git refuses a partial commit in a merge.
CommitsLog(b) == [b EXCEPT !.dirty = @ \ {"log"}, !.facts = @ \cap {"typechecked", "preflighted"}]

Record ==
    /\ pc = "record"
    /\ \/ rv' = [rv EXCEPT !.writeFailed = TRUE] /\ UNCHANGED br
       \/ br.merge = "none" /\ br' = CommitsLog(br) /\ UNCHANGED rv
    /\ Goto("notify", steps) /\ UNCHANGED <<park, ref, upstream>>

\* Mutant: a split whose record could not be written goes the Judge's way.
ParksWhenActive == rv.split /\ ~rv.writeFailed /\ (lookupReviewEscalation(br) # "proceed" \/ br.esc.safety)
EscalationParks == rv.split /\ (rv.writeFailed \/ lookupReviewEscalation(br) # "proceed" \/ rv.carried \cap Safety # {})

OutcomeParks == rv.outcome \in {"budget", "hard-block"} \/ (rv.outcome = "dissent" /\ target = "direct-push")

\* The operator has been told, and may have answered; the attestation effects may fail.
Decide ==
    /\ pc = "notify"
    /\ \/ rv.split /\ EscapesLoop("parked")
       \/ ~rv.split /\ Failed(steps) /\ rv' = NoReview /\ UNCHANGED br
       \/ (EscalationParks \/ OutcomeParks) /\ EscapesLoop("parked")
       \/ /\ ~EscalationParks /\ ~OutcomeParks
          /\ Goto("ship", steps) /\ rv' = NoReview /\ UNCHANGED <<park, br>>
    /\ UNCHANGED <<ref, upstream>>

ReviewStep ==
    \/ ShakedownCode
    \/ Admit
    \/ BudgetEnds
    \/ SeatsSettle
    \/ Judge
    \/ Revise
    \/ Teardown
    \/ Escalate
    \/ Record
    \/ Decide

\* decision resolve: the operator disposes of an active record, and its commit takes in an
\* uncommitted one.
OperatorResolves ==
    /\ br.esc.state = "active" /\ br.merge = "none" /\ ~br.bare
    /\ \E how \in {"proceed", "block"} : br' = [CommitsLog(br) EXCEPT !.esc.state = how]
    /\ UNCHANGED <<pc, try, flaky, park, steps, log, out, ref, upstream>>
=============================================================================
