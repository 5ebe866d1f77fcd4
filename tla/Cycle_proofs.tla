---------------------------- MODULE Cycle_proofs ----------------------------
(***************************************************************************)
(* For any findings, reviewers and bounds: conflict markers of the         *)
(* harness's making never reach the forge; a completed attempt has         *)
(* delivered, by either ship, and only after that are its worktree and its *)
(* claim taken away; a safety finding stays through the review loop, which *)
(* lets an attempt on to ship only over what was disposed of; and every    *)
(* count stays within its bound.                                           *)
(***************************************************************************)
EXTENDS Cycle, TLAPS

Branch == [made : BOOLEAN, plan : BOOLEAN, deliver : BOOLEAN,
           dirty : SUBSET {"plan", "code", "log"}, base : Nat,
           merge : {"none", "unmerged", "added"}, incoming : Nat, marked : BOOLEAN,
           markers : {"none", "author", "harness"}, bare : BOOLEAN, facts : SUBSET Facts,
           esc : [state : Escalations, safety : BOOLEAN]]
Remote == [pushed : BOOLEAN, markers : {"none", "author", "harness"}, pr : BOOLEAN, auto : BOOLEAN]
Main == [moved : SUBSET {"ship", "peer"}, claim : BOOLEAN, done : BOOLEAN, pushed : BOOLEAN,
         removed : BOOLEAN, gone : BOOLEAN, unclaimed : BOOLEAN]
Entries == {"none"} \cup Pipeline

\* The harness has committed no markers; those in the tree belong to an open merge.  What is
\* remembered of HEAD is backed by the gates that ran, or the tree has been edited since.
Good(b) == /\ b \in Branch
           /\ b.markers # "harness"
           /\ b.marked = TRUE => b.merge # "none"
           /\ "recorded" \in b.facts => "typechecked" \in b.facts
           /\ "gated" \in b.facts => /\ "preflighted" \in b.facts
                                     /\ "typechecked" \in b.facts \/ "code" \in b.dirty

TypeInv ==
    /\ br \in Branch /\ remote \in Remote /\ main \in Main
    /\ steps \in Entries /\ log \in Entries
    /\ ref \in Nat /\ upstream \in Nat

MarkersInv ==
    /\ Good(br) /\ remote.markers # "harness"

Checked(b) == {"typechecked", "preflighted"} \subseteq b.facts

\* From the pre-flight on, a tree that is not typechecked shows it by an edit, which the
\* squash refuses; and the squash is of the tree that was checked.
GateInv ==
    /\ pc \in {"preflight", "revision", "retype"} => br.merge = "none" /\ br.dirty \subseteq {"code"}
    /\ pc = "preflight" => "typechecked" \in br.facts \/ "code" \in br.dirty
    /\ pc = "commit" => /\ br.merge = "none" /\ br.dirty = {"code"} /\ br.bare = TRUE
                        /\ Checked(br) /\ br.base >= fresh.fetched
    /\ pc = "push" => /\ br.merge = "none" /\ br.dirty = {} /\ br.bare = FALSE /\ br.deliver = TRUE
                      /\ Checked(br) /\ br.base >= fresh.fetched

\* From the pick on there is a branch.
MadeInv == pc \notin {"idle", "pick"} => br.made = TRUE

IInv == TypeInv /\ MarkersInv /\ GateInv /\ MadeInv

\* The steps that GateInv speaks of.
Late == {"preflight", "revision", "retype", "commit", "push"}
USE DEF Late

-----------------------------------------------------------------------------
(* The operators on branches. *)

\* A commit by the author, or one of a tree without markers, leaves a good branch.
LEMMA CommitGood ==
  ASSUME NEW b, Good(b), NEW by \in {"author", "harness"}, by = "author" \/ b.marked = FALSE
  PROVE  Good(Commit(b, by)) /\ Commit(b, by).made = b.made
  <1>1. CASE ~Dirty(b)
    BY <1>1 DEF Commit
  <1>2. CASE Dirty(b)
    <2> DEFINE artifact == b.merge # "none" \/ b.dirty # {"log"}
               d == HasDeliverableCommits(b) \/ "code" \in b.dirty
               n == IF b.merge = "none" THEN b.base ELSE b.incoming
               k == IF b.marked THEN by ELSE b.markers
               F == IF artifact THEN {} ELSE b.facts \cap {"typechecked", "preflighted"}
               e == IF artifact THEN NoEsc ELSE b.esc
    <2>1. d \in BOOLEAN
      OBVIOUS
    <2>2. n \in Nat
      BY DEF Good, Branch
    <2>3. k \in {"none", "author"}
      BY DEF Good, Branch
    <2>4. F \in SUBSET Facts
      BY DEF Good, Branch
    <2>5. e \in [state : Escalations, safety : BOOLEAN]
      BY DEF Good, Branch, NoEsc, Escalations
    <2>6. Commit(b, by) = [b EXCEPT !.deliver = d, !.dirty = {}, !.base = n, !.merge = "none",
                !.incoming = 0, !.marked = FALSE, !.markers = k, !.bare = FALSE, !.facts = F, !.esc = e]
      BY <1>2 DEF Commit
    <2> HIDE DEF d, n, k, F, e
    <2>7. Commit(b, by) \in Branch
      <3> DEFINE c == [made |-> b.made, plan |-> b.plan, deliver |-> d, dirty |-> {}, base |-> n,
                       merge |-> "none", incoming |-> 0, marked |-> FALSE, markers |-> k,
                       bare |-> FALSE, facts |-> F, esc |-> e]
      <3>1. Commit(b, by) = c
        BY <2>6 DEF Good, Branch
      <3>2. b.made \in BOOLEAN /\ b.plan \in BOOLEAN
        BY DEF Good, Branch
      <3>3. c \in Branch
        BY <2>1, <2>2, <2>3, <2>4, <2>5, <3>2 DEF Branch
      <3> QED
        BY <3>1, <3>3
    <2>8. Commit(b, by).markers = k /\ Commit(b, by).marked = FALSE /\ Commit(b, by).made = b.made
      BY <2>6 DEF Good, Branch
    <2>9. Commit(b, by).facts = F /\ "recorded" \notin F /\ "gated" \notin F
      BY <2>6 DEF F, Good, Branch
    <2> QED
      BY <2>3, <2>7, <2>8, <2>9 DEF Good
  <1> QED
    BY <1>1, <1>2

\* A checkpoint leaves a good branch: it concludes no merge with its markers.
LEMMA CheckpointGood ==
  ASSUME NEW b, Good(b), NEW c \in Checkpoint(b)
  PROVE  Good(c) /\ c.made = b.made
  <1>1. CASE MayConclude(b)
    <2>1. b.marked = FALSE
      BY <1>1 DEF MayConclude, Good, Branch
    <2> QED
      BY <1>1, <2>1, CommitGood DEF Checkpoint
  <1>2. CASE ~MayConclude(b)
    BY <1>2 DEF Checkpoint
  <1> QED
    BY <1>1, <1>2

\* An agent leaves a good branch: the markers it commits are its own.
LEMMA WorksGood ==
  ASSUME NEW b, Good(b), NEW what \in {"plan", "code"}, NEW c \in Works(b, what)
  PROVE  Good(c) /\ c.made = b.made
  <1>1. CASE b.merge = "none"
    <2>1. Good(Edited(b, what)) /\ Edited(b, what).made = b.made
      BY <1>1 DEF Edited, Good, Branch
    <2> QED
      BY <1>1, <2>1, CommitGood DEF Works
  <1>2. CASE b.merge # "none"
    <2> DEFINE t(m) == [b EXCEPT !.merge = "added", !.marked = m]
    <2>1. ASSUME NEW m \in {b.marked, FALSE} PROVE Good(t(m)) /\ t(m).made = b.made
      BY <1>2, <2>1 DEF Good, Branch
    <2>2. PICK m \in {b.marked, FALSE} : c = b \/ c = t(m) \/ c = Commit(t(m), "author")
      BY <1>2 DEF Works
    <2> HIDE DEF t
    <2> QED
      BY <2>1, <2>2, CommitGood
  <1> QED
    BY <1>1, <1>2

\* The commit of a decision record takes nothing else in.
LEMMA CommitsLogGood ==
  ASSUME NEW b, Good(b)
  PROVE  /\ Good(CommitsLog(b)) /\ CommitsLog(b).made = b.made
         /\ CommitsLog(b).merge = b.merge /\ CommitsLog(b).bare = b.bare
         /\ CommitsLog(b).deliver = b.deliver /\ CommitsLog(b).base = b.base
         /\ CommitsLog(b).dirty = b.dirty \ {"log"}
         /\ CommitsLog(b).facts = b.facts \cap {"typechecked", "preflighted"}
  BY DEF CommitsLog, Good, Branch

\* The author of a revision, and the checkpoint after it, leave edits of code or none.
LEMMA RevisionEdits ==
  ASSUME NEW b, Good(b), b.merge = "none", b.dirty \subseteq {"code"},
         NEW c \in Works(b, "code"), NEW d \in Checkpoint(c)
  PROVE  c.merge = "none" /\ c.dirty \subseteq {"code"} /\ d.merge = "none" /\ d.dirty \subseteq {"code"}
  <1>1. ASSUME NEW t, Good(t), t.merge = "none", t.dirty \subseteq {"code"},
               NEW by
        PROVE  Commit(t, by).merge = "none" /\ Commit(t, by).dirty \subseteq {"code"}
    BY <1>1 DEF Commit, Good, Branch
  <1>2. Good(Edited(b, "code")) /\ Edited(b, "code").merge = "none" /\ Edited(b, "code").dirty \subseteq {"code"}
    BY DEF Edited, Good, Branch
  <1>3. c \in {b, Edited(b, "code"), Commit(b, "author"), Commit(Edited(b, "code"), "author")}
    BY DEF Works
  <1>4. c.merge = "none" /\ c.dirty \subseteq {"code"}
    BY <1>1, <1>2, <1>3
  <1>5. Good(c) /\ d \in {c, Commit(c, "harness")}
    BY WorksGood DEF Checkpoint
  <1> QED
    BY <1>1, <1>4, <1>5

-----------------------------------------------------------------------------
(* How a step goes on, and how an attempt ends. *)

\* What nearly every step of an attempt leaves behind.
Kept == /\ Good(br') /\ steps' \in Entries /\ log' \in Entries
        /\ pc' \notin Late
        /\ pc' \notin {"idle", "pick"} => br'.made = TRUE

\* What a step leaves behind that enters, or stays in, the gates of a pull request.
GateKept == /\ Good(br') /\ br'.made = TRUE /\ steps' \in Entries /\ log' \in Entries
            /\ pc' \in Late /\ GateInv'

\* A step that is run is logged as a step of the pipeline, or leaves the log as it was.
LEMMA RanType == ASSUME steps \in Entries, NEW name, NEW ok PROVE Ran(name, ok) \in Entries
  BY DEF Ran, AfterStep, Entries, Pipeline

\* A branch that is there, and good, goes on good.
LEMMA GotoKept ==
  ASSUME IInv, NEW ran \in Entries, NEW where, where \notin Late,
         Goto(where, ran), Good(br'), br'.made = TRUE
  PROVE  Kept
  BY DEF IInv, TypeInv, Goto, Kept

\* An attempt that ends leaves the branch good.
LEMMA FinishKept ==
  ASSUME IInv, NEW ran \in Entries, NEW outcome, NEW shipFailed,
         Finish(outcome, ran, shipFailed), Good(br')
  PROVE  Kept
  BY DEF IInv, TypeInv, Finish, Kept, Entries, Pipeline

LEMMA GotoGate ==
  ASSUME IInv, NEW ran \in Entries, NEW where \in Late,
         Goto(where, ran), Good(br'), br'.made = TRUE, pc' = where => GateInv'
  PROVE  GateKept
  BY DEF IInv, TypeInv, Goto, GateKept

LEMMA FailedKept ==
  ASSUME IInv, NEW ran \in Entries, Failed(ran) \/ ShipFailed(ran), Good(br')
  PROVE  Kept
  BY FinishKept DEF Failed, ShipFailed

LEMMA ParkKept ==
  ASSUME IInv, NEW ran \in Entries, NEW outcome, NEW b, Good(b), ParkExit(outcome, ran, b)
  PROVE  Kept
  BY FinishKept, CheckpointGood DEF ParkExit

LEMMA QuarantineKept ==
  ASSUME IInv, NEW ran \in Entries, NEW b, Good(b), QuarantineExit(ran, b)
  PROVE  Kept
  BY FinishKept, CheckpointGood DEF QuarantineExit

\* Whatever ends a step that is not ok, or has it tried again.
LEMMA StepKept ==
  ASSUME IInv, NEW name, NEW b, Good(b), NEW c, Good(c), c.made = TRUE,
         pc \notin {"idle", "pick"}, runStepWithRetry(name, b, c),
         pc \in Late => pc = "revision" /\ c.merge = "none" /\ c.dirty \subseteq {"code"}
  PROVE  Kept \/ (pc = "revision" /\ GateKept)
  <1> DEFINE ran == Ran(name, FALSE)
  <1>0. ran \in Entries /\ steps \in Entries
    BY RanType DEF IInv, TypeInv
  <1> HIDE DEF ran
  <1>1. CASE ParkExit("parked", steps, br)
    BY <1>0, <1>1, ParkKept DEF IInv, MarkersInv
  <1>2. CASE Confinement(name, b)
    BY <1>0, <1>2, FailedKept DEF Confinement, ran
  <1>3. CASE NotOk(name, c)
    <2>1. CASE ParkExit("parked", ran, c) \/ QuarantineExit(ran, c)
      BY <1>0, <2>1, ParkKept, QuarantineKept
    <2>2. CASE br' = c /\ Failed(ran)
      BY <1>0, <2>2, FailedKept
    <2>3. CASE br' = c /\ Retry(ran)
      BY <1>0, <2>3 DEF Retry, Kept, GateKept, GateInv, IInv, TypeInv
    <2> QED
      BY <1>3, <2>1, <2>2, <2>3 DEF NotOk, ran
  <1> QED
    BY <1>1, <1>2, <1>3 DEF runStepWithRetry

\* A step that is ok.
LEMMA GoesOnKept ==
  ASSUME IInv, NEW name, NEW c, Good(c), c.made = TRUE, NEW where,
         where \notin Late, GoesOn(name, c, where)
  PROVE  Kept
  BY RanType, GotoKept DEF GoesOn, IInv, TypeInv

\* Where a retried step leads.
LEMMA StepLeads ==
  ASSUME NEW name, NEW b, NEW c, runStepWithRetry(name, b, c)
  PROVE  pc' \in {"idle", pc}
  BY DEF runStepWithRetry, Confinement, NotOk, ParkExit, QuarantineExit, Failed, Finish, Retry

-----------------------------------------------------------------------------
(* The steps of each module. *)

LEMMA AttemptKept == ASSUME IInv, AttemptStep PROVE Kept
  <1>0. /\ Good(br) /\ steps \in Entries
        /\ pc \notin {"idle", "pick"} => br.made = TRUE
    BY DEF IInv, TypeInv, MarkersInv, GateInv, Checked, MadeInv
  <1>1. CASE AssignmentFails
    BY <1>0, <1>1, FailedKept DEF AssignmentFails
  <1>2. CASE Pick
    <2>1. Good([br EXCEPT !.made = TRUE]) /\ [br EXCEPT !.made = TRUE].made = TRUE
      BY <1>0 DEF Good, Branch
    <2>2. Good(br') /\ (br' = br \/ br'.made = TRUE)
      BY <1>0, <1>2, <2>1 DEF Pick
    <2>3. ASSUME NEW outcome, Unclaimed(outcome) PROVE Kept
      BY <2>2, <2>3 DEF Unclaimed, Kept, IInv, TypeInv, Entries
    <2>4. CASE Failed(Ran("pick", TRUE))
      BY <1>0, <2>2, <2>4, RanType, FailedKept
    <2>5. ASSUME NEW where \in {"plan", "implement"}, Goto(where, Ran("pick", TRUE)),
                 br' = [br EXCEPT !.made = TRUE]
          PROVE  Kept
      BY <1>0, <2>1, <2>5, RanType, GotoKept
    <2> QED
      BY <1>2, <2>3, <2>4, <2>5 DEF Pick
  <1>3. CASE PlanSkipped
    BY <1>0, <1>3, GotoKept DEF PlanSkipped, PlanExists
  <1>4. CASE Plan
    <2>1. PICK b \in Works(br, "plan") : \E c \in Checkpoint(b) :
             runStepWithRetry("plan", b, c) \/ GoesOn("plan", c, "shakedown-plan")
      BY <1>4 DEF Plan
    <2>2. PICK c \in Checkpoint(b) :
             runStepWithRetry("plan", b, c) \/ GoesOn("plan", c, "shakedown-plan")
      BY <2>1
    <2>3. pc = "plan"
      BY <1>4 DEF Plan, At
    <2> QED
      BY <1>0, <2>2, <2>3, WorksGood, CheckpointGood, StepKept, GoesOnKept
  <1>5. CASE ShakedownPlan
    <2>1. PICK b \in Works(br, "plan") : \/ runStepWithRetry("shakedown-plan", b, b)
                                         \/ GoesOn("shakedown-plan", b, "implement")
                                         \/ br' = b /\ Failed(Rethought)
      BY <1>5 DEF ShakedownPlan
    <2>2. pc = "shakedown-plan" /\ Rethought \in Entries
      BY <1>5 DEF ShakedownPlan, At, Rethought, Entries, Pipeline
    <2> QED
      BY <1>0, <2>1, <2>2, WorksGood, StepKept, GoesOnKept, FailedKept
  <1>6. CASE Implement
    <2>1. PICK b \in Works(br, "code") : \E c \in Checkpoint(b) :
             runStepWithRetry("implement", b, c) \/ GoesOn("implement", c, "shakedown-code")
      BY <1>6 DEF Implement
    <2>2. PICK c \in Checkpoint(b) :
             runStepWithRetry("implement", b, c) \/ GoesOn("implement", c, "shakedown-code")
      BY <2>1
    <2>3. pc = "implement"
      BY <1>6 DEF Implement, At
    <2> QED
      BY <1>0, <2>2, <2>3, WorksGood, CheckpointGood, StepKept, GoesOnKept
  <1>7. CASE EnterShip
    BY <1>0, <1>7, ParkKept, FailedKept, GotoKept DEF EnterShip
  <1> QED
    BY <1>1, <1>2, <1>3, <1>4, <1>5, <1>6, <1>7 DEF AttemptStep

LEMMA ReviewKept == ASSUME IInv, ReviewStep PROVE Kept
  <1>0. /\ Good(br) /\ steps \in Entries
        /\ pc \notin {"idle", "pick"} => br.made = TRUE
    BY DEF IInv, TypeInv, MarkersInv, GateInv, Checked, MadeInv
  <1>1. CASE ShakedownCode
    <2>1. PICK b \in Works(br, "code") : \E c \in Checkpoint(b) :
             runStepWithRetry("shakedown-code", b, c) \/ GoesOn("shakedown-code", c, "ship")
      BY <1>1 DEF ShakedownCode
    <2>2. PICK c \in Checkpoint(b) :
             runStepWithRetry("shakedown-code", b, c) \/ GoesOn("shakedown-code", c, "ship")
      BY <2>1
    <2>3. pc = "shakedown-code"
      BY <1>1 DEF ShakedownCode, At
    <2> QED
      BY <1>0, <2>2, <2>3, WorksGood, CheckpointGood, StepKept, GoesOnKept
  <1>2. CASE Admit
    <2>1. pc = "shakedown-code"
      BY <1>2 DEF Admit
    <2>2. \/ ParkExit("parked", steps, br)
          \/ (Goto("ship", steps) \/ Goto("seats", steps)) /\ br' = br
          \/ Failed(steps) /\ br' = br
      BY <1>2 DEF Admit
    <2> QED
      BY <1>0, <2>1, <2>2, ParkKept, GotoKept, FailedKept
  <1>3. CASE BudgetEnds
    BY <1>0, <1>3, GotoKept DEF BudgetEnds, LoopEnds
  <1>4. CASE SeatsSettle
    <2>1. pc = "seats" /\ br' = br
      BY <1>4 DEF SeatsSettle
    <2>2. \E ok : Goto("teardown", Ran(Seat, ok)) \/ Goto("judge", Ran(Seat, ok))
      BY <1>4 DEF SeatsSettle, LoopEnds
    <2> QED
      BY <1>0, <2>1, <2>2, RanType, GotoKept
  <1>5. CASE Judge
    <2>1. pc = "judge" /\ br' = br
      BY <1>5 DEF Judge
    <2>2. \E kept, outcome, unfixable, valid, limited :
             Ruled(kept, outcome, unfixable, valid, limited)
      BY <1>5 DEF Judge
    <2>3. \E ok : Goto("teardown", Ran(Seat, ok)) \/ Goto("revise", Ran(Seat, ok))
      BY <2>2 DEF Ruled, LoopEnds
    <2> QED
      BY <1>0, <2>1, <2>3, RanType, GotoKept
  <1>6. CASE Revise
    <2>1. PICK b \in Works(br, "code") : \E c \in Checkpoint(b) : br' \in {b, c}
      BY <1>6 DEF Revise
    <2>2. pc = "revise" /\ Good(br') /\ br'.made = TRUE
      BY <1>0, <1>6, <2>1, WorksGood, CheckpointGood DEF Revise
    <2>3. \E ran \in {steps, Ran("shakedown-code", TRUE), Ran("shakedown-code", FALSE)} :
             Goto("teardown", ran) \/ Goto("seats", ran)
      BY <1>6 DEF Revise, LoopEnds
    <2> QED
      BY <1>0, <2>2, <2>3, RanType, GotoKept
  <1>7. CASE Teardown
    <2>1. pc = "teardown"
      BY <1>7 DEF Teardown
    <2>2. \/ ParkExit("held", steps, br) \/ ParkExit("parked", steps, br)
          \/ (Goto("escalate", steps) \/ Goto("notify", steps)) /\ br' = br
      BY <1>7 DEF Teardown, EscapesLoop
    <2> QED
      BY <1>0, <2>1, <2>2, ParkKept, GotoKept
  <1>8. CASE Escalate
    <2>1. pc = "escalate" /\ (Goto("notify", steps) \/ Goto("record", steps))
      BY <1>8 DEF Escalate
    <2>2. Good(br') /\ br'.made = TRUE
      <3> DEFINE e == [state |-> IF br.esc.state = "none" THEN "active" ELSE "invalid",
                       safety |-> br.esc.safety \/ rv.carried \cap Safety # {}]
                 b == [br EXCEPT !.dirty = @ \cup {"log"}, !.esc = e]
      <3>1. e \in [state : Escalations, safety : BOOLEAN]
        BY DEF Escalations
      <3>2. br' = br \/ br' = b
        BY <1>8 DEF Escalate
      <3> HIDE DEF e
      <3>3. Good(b) /\ b.made = br.made
        BY <1>0, <3>1 DEF Good, Branch
      <3> QED
        BY <1>0, <2>1, <3>2, <3>3
    <2> QED
      BY <1>0, <2>1, <2>2, GotoKept
  <1>9. CASE Record
    <2>1. pc = "record" /\ Goto("notify", steps) /\ br' \in {br, CommitsLog(br)}
      BY <1>9 DEF Record
    <2>2. Good(CommitsLog(br)) /\ CommitsLog(br).made = br.made
      BY <1>0, CommitsLogGood
    <2> QED
      BY <1>0, <2>1, <2>2, GotoKept
  <1>10. CASE Decide
    <2>1. pc = "notify"
      BY <1>10 DEF Decide
    <2>2. \/ ParkExit("parked", steps, br)
          \/ Failed(steps) /\ br' = br
          \/ Goto("ship", steps) /\ br' = br
      BY <1>10 DEF Decide, EscapesLoop
    <2> QED
      BY <1>0, <2>1, <2>2, ParkKept, FailedKept, GotoKept
  <1> QED
    BY <1>1, <1>2, <1>3, <1>4, <1>5, <1>6, <1>7, <1>8, <1>9, <1>10 DEF ReviewStep

\* A failed effect ends the attempt.
LEMMA EffectFailsKept ==
  ASSUME IInv, EffectFails
  PROVE  Kept
  BY RanType, ParkKept, FailedKept DEF EffectFails, IInv, TypeInv, MarkersInv

\* Whatever the ship agent did with the tree.
LEMMA ShipAgentKept == ASSUME IInv, ShipAgent PROVE Kept
  <1>0. Good(br) /\ br.made = TRUE /\ pc = "agent" /\ steps \in Entries /\ log \in Entries
    BY DEF IInv, TypeInv, MarkersInv, GateInv, Checked, MadeInv, ShipAgent
  <1>1. CASE BodyStays
    BY <1>0, <1>1, ParkKept, FailedKept DEF BodyStays
  <1>2. ASSUME NEW b \in Works(br, "code"),
               \/ br' = b /\ ShipFailed(Ran("ship", FALSE))
               \/ \E ok \in BOOLEAN : (park \/ ~ok) /\ ParkExit("parked", Ran("ship", ok), b)
               \/ ~park /\ QuarantineExit(Ran("ship", FALSE), b)
               \/ ~park /\ br' = b /\ DecideAgain(Ran("ship", FALSE))
               \/ ~park /\ br' = b /\ Goto("squash", steps) /\ UNCHANGED park
        PROVE  Kept
    <2>1. Good(b) /\ b.made = TRUE
      BY <1>0, WorksGood
    <2>2. CASE br' = b /\ ShipFailed(Ran("ship", FALSE))
      BY <1>0, <2>1, <2>2, RanType, FailedKept
    <2>3. CASE \E ok \in BOOLEAN : (park \/ ~ok) /\ ParkExit("parked", Ran("ship", ok), b)
      BY <1>0, <2>1, <2>3, RanType, ParkKept
    <2>4. CASE QuarantineExit(Ran("ship", FALSE), b)
      BY <1>0, <2>1, <2>4, RanType, QuarantineKept
    <2>5. CASE br' = b /\ DecideAgain(Ran("ship", FALSE))
      BY <1>0, <2>1, <2>5, RanType DEF DecideAgain, Kept
    <2>6. CASE br' = b /\ Goto("squash", steps)
      BY <1>0, <2>1, <2>6, GotoKept
    <2> QED
      BY <1>2, <2>2, <2>3, <2>4, <2>5, <2>6
  <1> QED
    BY <1>1, <1>2 DEF ShipAgent

\* The squash is of a clean branch that this attempt has gated, so it was checked.
LEMMA SquashKept == ASSUME IInv, Squash PROVE Kept \/ GateKept
  <1>0. Good(br) /\ br.made = TRUE /\ steps \in Entries /\ log \in Entries
    BY DEF IInv, TypeInv, MarkersInv, MadeInv, Squash, Effect
  <1>1. CASE EffectFails
    BY <1>1, EffectFailsKept
  <1>2. CASE /\ BoundToGate
             /\ br' = [br EXCEPT !.dirty = {"code"}, !.bare = TRUE, !.esc = NoEsc]
             /\ Goto("commit", steps)
    <2>1. br.merge = "none" /\ Checked(br) /\ br.base >= fresh.fetched
      BY <1>0, <1>2 DEF BoundToGate, Dirty, Good, Checked
    <2>2. NoEsc \in [state : Escalations, safety : BOOLEAN]
      BY DEF NoEsc, Escalations
    <2>3. /\ Good(br') /\ br'.made = TRUE /\ br'.merge = "none" /\ br'.dirty = {"code"}
          /\ br'.bare = TRUE /\ br'.facts = br.facts /\ br'.base = br.base
      BY <1>0, <1>2, <2>1, <2>2 DEF Good, Branch
    <2> QED
      BY <1>0, <1>2, <2>1, <2>3 DEF Goto, GateKept, GateInv, Checked, Squash, Effect
  <1> QED
    BY <1>1, <1>2 DEF Squash

\* The commit of the squash is what is pushed.
LEMMA CommitSquashKept == ASSUME IInv, CommitSquash PROVE Kept \/ GateKept
  <1>0. /\ Good(br) /\ br.made = TRUE /\ steps \in Entries /\ log \in Entries
        /\ br.merge = "none" /\ br.dirty = {"code"} /\ Checked(br) /\ br.base >= fresh.fetched
        /\ br.marked = FALSE
    BY DEF IInv, TypeInv, MarkersInv, GateInv, MadeInv, CommitSquash, Effect, Good, Branch
  <1>1. CASE EffectFails
    BY <1>1, EffectFailsKept
  <1>2. CASE /\ br' = [Commit(br, "harness") EXCEPT !.facts = br.facts \cap {"typechecked", "preflighted"}]
             /\ Goto("push", steps)
    <2>1. Good(Commit(br, "harness")) /\ Commit(br, "harness").made = TRUE
      BY <1>0, CommitGood
    <2>2. /\ Commit(br, "harness").merge = "none" /\ Commit(br, "harness").dirty = {}
          /\ Commit(br, "harness").bare = FALSE /\ Commit(br, "harness").deliver = TRUE
          /\ Commit(br, "harness").base = br.base
      BY <1>0 DEF Commit, Dirty, Good, Branch
    <2>3. /\ Good(br') /\ br'.made = TRUE /\ br'.merge = "none" /\ br'.dirty = {}
          /\ br'.bare = FALSE /\ br'.deliver = TRUE /\ br'.base = br.base /\ Checked(br')
      BY <1>0, <1>2, <2>1, <2>2 DEF Good, Branch, Checked
    <2> QED
      BY <1>0, <1>2, <2>3 DEF Goto, GateKept, GateInv, CommitSquash, Effect
  <1> QED
    BY <1>1, <1>2 DEF CommitSquash

\* The revision leaves edits, or a commit that is typechecked next.
LEMMA RevisionKept == ASSUME IInv, Revision PROVE Kept \/ GateKept
  <1>0. /\ Good(br) /\ br.made = TRUE /\ steps \in Entries /\ log \in Entries /\ pc = "revision"
        /\ br.merge = "none" /\ br.dirty \subseteq {"code"}
    BY DEF IInv, TypeInv, MarkersInv, GateInv, MadeInv, Revision, At
  <1>1. PICK b \in Works(br, "code") : \E c \in Checkpoint(b) :
           runStepWithRetry("shakedown-code", b, c) \/ GoesOn("shakedown-code", c, "retype")
    BY DEF Revision
  <1>2. PICK c \in Checkpoint(b) :
           runStepWithRetry("shakedown-code", b, c) \/ GoesOn("shakedown-code", c, "retype")
    BY <1>1
  <1>3. Good(b) /\ Good(c) /\ c.made = TRUE /\ c.merge = "none" /\ c.dirty \subseteq {"code"}
    BY <1>0, <1>2, WorksGood, CheckpointGood, RevisionEdits
  <1>4. CASE runStepWithRetry("shakedown-code", b, c)
    BY <1>0, <1>3, <1>4, StepKept
  <1>5. CASE GoesOn("shakedown-code", c, "retype")
    BY <1>0, <1>3, <1>5, RanType, GotoGate DEF GoesOn, GateInv
  <1> QED
    BY <1>2, <1>4, <1>5

\* The typecheck after the revision, on a tree that is clean or else shows its edits.
LEMMA RetypeKept == ASSUME IInv, Retype PROVE Kept \/ GateKept
  <1>0. /\ Good(br) /\ br.made = TRUE /\ steps \in Entries /\ pc = "retype"
        /\ br.merge = "none" /\ br.dirty \subseteq {"code"}
    BY DEF IInv, TypeInv, MarkersInv, GateInv, MadeInv, Retype
  <1>1. CASE LinksHold \/ (Failed(steps) /\ br' = br)
    BY <1>0, <1>1, ParkKept, FailedKept DEF LinksHold
  <1>2. CASE br' = Retyped(br) /\ Goto("preflight", steps)
    <2>1. /\ Good(Retyped(br)) /\ Retyped(br).made = TRUE /\ Retyped(br).merge = "none"
          /\ Retyped(br).dirty = br.dirty
          /\ "typechecked" \in Retyped(br).facts \/ "code" \in br.dirty
      BY <1>0 DEF Retyped, Dirty, Good, Branch, Facts
    <2>2. /\ br'.merge = "none" /\ br'.dirty \subseteq {"code"}
          /\ "typechecked" \in br'.facts \/ "code" \in br'.dirty
          /\ Good(br') /\ br'.made = TRUE
      BY <1>0, <1>2, <2>1
    <2>3. pc' = "preflight" => GateInv'
      BY <2>2 DEF GateInv
    <2> QED
      BY <1>0, <1>2, <2>2, <2>3, GotoGate
  <1> QED
    BY <1>1, <1>2 DEF Retype

LEMMA PrKept == ASSUME IInv, PrStep PROVE Kept \/ GateKept
  <1>0. /\ Good(br) /\ steps \in Entries /\ upstream \in Nat
        /\ pc \notin {"idle", "pick"} => br.made = TRUE
    BY DEF IInv, TypeInv, MarkersInv, GateInv, Checked, MadeInv
  <1>1. CASE preparePrShipFreshness
    <2>1. pc = "fresh"
      BY <1>1 DEF preparePrShipFreshness
    <2>2. CASE MergeStillOpen
      BY <1>0, <2>1, <2>2, GotoKept DEF MergeStillOpen
    <2>3. CASE NotFetched
      BY <1>0, <2>1, <2>3, FailedKept DEF NotFetched
    <2>4. CASE Fetched
      <3>1. ~Dirty(br) /\ br' \in {br, Merged(br), Conflicted(br)}
        BY <2>4 DEF Fetched
      <3>2. NoEsc \in [state : Escalations, safety : BOOLEAN]
        BY DEF NoEsc, Escalations
      <3>3. Good(Merged(br)) /\ Merged(br).made = br.made
        BY <1>0, <3>2 DEF Merged, Good, Branch
      <3>4. Good(Conflicted(br)) /\ Conflicted(br).made = br.made
        BY <1>0 DEF Conflicted, Good, Branch
      <3>5. CASE \E where \in {"gates", "repair"} : Goto(where, steps)
        BY <1>0, <2>1, <3>1, <3>3, <3>4, <3>5, GotoKept
      <3>6. CASE Goto("preflight", steps) /\ br' = br /\ "recorded" \in br.facts
        <4>1. br.merge = "none" /\ br.dirty = {} /\ "typechecked" \in br.facts
          BY <1>0, <3>1, <3>6 DEF Dirty, Good
        <4> QED
          BY <1>0, <2>1, <3>6, <4>1, GotoGate DEF GateInv
      <3> QED
        BY <2>4, <3>5, <3>6 DEF Fetched
    <2> QED
      BY <1>1, <2>2, <2>3, <2>4 DEF preparePrShipFreshness
  <1>2. CASE Repair
    <2>1. PICK b \in Works(br, "code") : \E c \in RepairCheckpoint(b) :
             \/ runStepWithRetry("shakedown-code", b, c)
             \/ GoesOn("shakedown-code", c, "gates")
             \/ br' = c /\ Failed(Ran("shakedown-code", TRUE))
      BY <1>2 DEF Repair
    <2>2. PICK c \in RepairCheckpoint(b) :
             \/ runStepWithRetry("shakedown-code", b, c)
             \/ GoesOn("shakedown-code", c, "gates")
             \/ br' = c /\ Failed(Ran("shakedown-code", TRUE))
      BY <2>1
    <2>3. pc = "repair" /\ c \in {b} \cup Checkpoint(b)
      BY <1>2, <2>2 DEF Repair, At, RepairCheckpoint
    <2> QED
      BY <1>0, <2>2, <2>3, WorksGood, CheckpointGood, StepKept, GoesOnKept, RanType, FailedKept
  <1>3. CASE runFreshnessGates
    <2>1. Good([br EXCEPT !.facts = @ \cup {"typechecked", "recorded"}])
      BY <1>0 DEF Good, Branch, Facts
    <2>2. [br EXCEPT !.facts = @ \cup {"typechecked", "recorded"}].made = br.made
      BY <1>0 DEF Good, Branch
    <2>3. pc = "gates"
      BY <1>3 DEF runFreshnessGates
    <2>4. CASE LinksHold \/ (Failed(steps) /\ br' = br)
      BY <1>0, <2>4, ParkKept, FailedKept DEF LinksHold
    <2>5. CASE /\ ~Dirty(br) /\ br' = [br EXCEPT !.facts = @ \cup {"typechecked", "recorded"}]
               /\ Goto("preflight", steps)
      <3>1. /\ br'.merge = "none" /\ br'.dirty = {} /\ "typechecked" \in br'.facts
            /\ Good(br') /\ br'.made = TRUE
        BY <1>0, <2>1, <2>2, <2>3, <2>5 DEF Dirty, Good, Branch
      <3> QED
        BY <1>0, <2>5, <3>1, GotoGate DEF GateInv, Goto
    <2> QED
      BY <1>3, <2>4, <2>5 DEF runFreshnessGates, verifyPrShipFreshness
  <1>4. CASE runColdPrReviewPreflight
    <2>1. pc = "preflight"
      BY <1>4 DEF runColdPrReviewPreflight
    <2>2. CASE HeadMoved
      <3>1. Edited(br, "code") \in Branch /\ Good(Edited(br, "code"))
        BY <1>0 DEF Edited, Good, Branch
      <3> QED
        BY <1>0, <2>2, <3>1, CommitGood, FailedKept DEF HeadMoved
    <2>3. CASE LinksHold
      BY <1>0, <2>3, ParkKept DEF LinksHold
    <2>4. ASSUME NEW ok \in BOOLEAN, ParkExit("parked", Ran(Seat, ok), br) PROVE Kept
      BY <1>0, <2>4, RanType, ParkKept
    <2>5. ASSUME NEW ok \in BOOLEAN, ShipFailed(Ran(Seat, ok)), br' = br PROVE Kept
      BY <1>0, <2>5, RanType, FailedKept
    <2>6. CASE Reviewed
      <3> DEFINE passed == br.facts \cup {"preflighted"}
                 b == [br EXCEPT !.facts = passed]
                 g == [br EXCEPT !.facts = passed \cup {"gated"}]
      <3>1. br.merge = "none" /\ br.dirty \subseteq {"code"} /\ ("typechecked" \in br.facts \/ "code" \in br.dirty)
        BY <2>1 DEF IInv, GateInv
      <3>2. Good(b) /\ b.made = br.made /\ b.merge = br.merge /\ b.dirty = br.dirty
        BY <1>0 DEF Good, Branch, Facts
      <3>3. Good(g) /\ g.made = br.made
        BY <1>0, <3>1 DEF Good, Branch, Facts
      <3>4. PICK ok \in BOOLEAN : \/ Goto("revision", Ran(Seat, ok)) /\ br' = b
                                  \/ Goto("agent", Ran(Seat, ok)) /\ br' = g
        BY <2>6 DEF Reviewed
      <3> HIDE DEF b, g
      <3>5. CASE Goto("revision", Ran(Seat, ok)) /\ br' = b
        BY <1>0, <2>1, <3>1, <3>2, <3>5, RanType, GotoGate DEF GateInv
      <3>6. CASE Goto("agent", Ran(Seat, ok)) /\ br' = g
        BY <1>0, <2>1, <3>3, <3>6, RanType, GotoKept
      <3> QED
        BY <3>4, <3>5, <3>6
    <2> QED
      BY <1>4, <2>2, <2>3, <2>4, <2>5, <2>6 DEF runColdPrReviewPreflight
  <1>5. CASE Revision \/ Retype
    BY <1>5, RevisionKept, RetypeKept
  <1>7. CASE ShipAgent
    BY <1>0, <1>7, ShipAgentKept
  <1>8. CASE Squash \/ CommitSquash
    BY <1>8, SquashKept, CommitSquashKept
  <1>9. CASE PushBranch
    <2>1. Good([br EXCEPT !.facts = @ \cup {"pushed"}])
      BY <1>0 DEF Good, Branch, Facts
    <2>2. [br EXCEPT !.facts = @ \cup {"pushed"}].made = br.made
      BY <1>0 DEF Good, Branch
    <2> QED
      BY <1>0, <1>9, <2>1, <2>2, EffectFailsKept, GotoKept DEF PushBranch, Effect
  <1>10. CASE UpsertPr
    <2>1. EffectFails \/ (\E where \in {"auto-merge", "receipt"} : Goto(where, steps) /\ br' = br)
      BY <1>10 DEF UpsertPr
    <2> QED
      BY <1>0, <1>10, <2>1, EffectFailsKept, GotoKept DEF UpsertPr, Effect
  <1>11. CASE AutoMerge
    BY <1>0, <1>11, EffectFailsKept, GotoKept DEF AutoMerge, Effect
  <1>12. CASE Shipped
    BY <1>0, <1>12, EffectFailsKept, RanType, ParkKept, FinishKept DEF Shipped, Effect
  <1> QED
    BY <1>1, <1>2, <1>3, <1>4, <1>5, <1>7, <1>8, <1>9, <1>10, <1>11, <1>12 DEF PrStep

\* A merge of the branch into main, or its rollback, leaves the branch good.
LEMMA LandedGood ==
  ASSUME NEW b, Good(b)
  PROVE  /\ Good(Landed(b)) /\ Landed(b).made = b.made
         /\ Good([b EXCEPT !.bare = FALSE]) /\ [b EXCEPT !.bare = FALSE].made = b.made
  <1>1. NoEsc \in [state : Escalations, safety : BOOLEAN]
    BY DEF NoEsc, Escalations
  <1> QED
    BY <1>1 DEF Landed, Good, Branch

LEMMA DirectKept == ASSUME IInv, DirectStep PROVE Kept
  <1>0. /\ Good(br) /\ steps \in Entries
        /\ pc \notin {"idle", "pick"} => br.made = TRUE
    BY DEF IInv, TypeInv, MarkersInv, GateInv, Checked, MadeInv
  <1>1. CASE captureShipState
    BY <1>0, <1>1, FailedKept, GotoKept DEF captureShipState
  <1>2. CASE Merge
    <2>1. pc = "merge"
      BY <1>2 DEF Merge
    <2>2. PICK b \in Works(br, "code") :
             \E tree \in {b, Landed(b)} : \E m, ok, marker : Merges(m, tree, ok, marker)
      BY <1>2 DEF Merge
    <2>3a. PICK tree \in {b, Landed(b)} : \E m, ok, marker : Merges(m, tree, ok, marker)
      BY <2>2
    <2>3. PICK m, ok, marker : Merges(m, tree, ok, marker)
      BY <2>3a
    <2>4. Good(tree) /\ tree.made = TRUE
      BY <1>0, <2>1, <2>3a, WorksGood, LandedGood
    <2>5. CASE br' = tree /\ ShipFailed(Ran("ship", FALSE))
      BY <1>0, <2>4, <2>5, RanType, FailedKept
    <2>6. CASE ParkExit("parked", Ran("ship", ok), tree) \/ QuarantineExit(Ran("ship", FALSE), tree)
      BY <1>0, <2>4, <2>6, RanType, ParkKept, QuarantineKept
    <2>7. CASE br' = tree /\ (Goto("tail", Ran("ship", TRUE)) \/ Goto("wreck", Ran("ship", ok)))
      BY <1>0, <2>4, <2>7, RanType, GotoKept
    <2> QED
      BY <2>3, <2>5, <2>6, <2>7 DEF Merges
  <1>3. CASE Shipwreck
    <2>1. pc = "wreck" /\ br' \in {br, Landed(br), [br EXCEPT !.bare = FALSE]}
      BY <1>3 DEF Shipwreck
    <2>2. \E ok \in BOOLEAN : \E f : \/ Goto("tail", Ran("shipwreck", TRUE))
                                   \/ Finish("failed", Ran("shipwreck", ok), f)
      BY <1>3 DEF Shipwreck
    <2> QED
      BY <1>0, <2>1, <2>2, LandedGood, RanType, GotoKept, FinishKept
  <1>4. CASE MarkDone \/ RemoveWorktree \/ DeleteBranch \/ DeleteClaim
    BY <1>0, <1>4, GotoKept DEF MarkDone, RemoveWorktree, DeleteBranch, DeleteClaim, Tail
  <1>5. CASE PushMain
    BY <1>0, <1>5, FailedKept, GotoKept DEF PushMain, PushRejected, Tail
  <1>6. CASE CleanedUp
    BY <1>0, <1>6, FinishKept DEF CleanedUp
  <1> QED
    BY <1>1, <1>2, <1>3, <1>4, <1>5, <1>6 DEF DirectStep

-----------------------------------------------------------------------------
(* The inductive invariant. *)

\* The initial states satisfy the inductive invariant.
LEMMA InitIInv == Init => IInv
  <1> SUFFICES ASSUME Init PROVE IInv
    OBVIOUS
  <1>1. NoBranch \in Branch /\ Good(NoBranch)
    BY DEF NoBranch, NoEsc, Branch, Good, Escalations, Facts
  <1>2. NoRemote \in Remote /\ NoMain \in Main
    BY DEF NoRemote, NoMain, Remote, Main
  <1>3. NoRemote.markers # "harness"
    BY DEF NoRemote
  <1> QED
    BY <1>1, <1>2, <1>3 DEF Init, IInv, TypeInv, MarkersInv, GateInv, Checked, MadeInv, Entries

\* A step of an attempt that keeps what nearly every one keeps.
LEMMA KeptInv ==
  ASSUME IInv, Kept \/ GateKept, pc # "idle", remote' \in Remote, remote'.markers # "harness",
         main' \in Main, ref' \in Nat, upstream' \in Nat
  PROVE  IInv'
  BY DEF IInv, TypeInv, MarkersInv, GateInv, MadeInv, Kept, GateKept, Good, Main

\* The steps of a direct push leave a record of main.
LEMMA MainType == ASSUME main \in Main, br.bare \in BOOLEAN, DirectStep PROVE main' \in Main
  <1>1. CASE captureShipState
    BY <1>1 DEF captureShipState, Main
  <1>2. CASE Merge
    <2>1. MovesMain \in Main
      BY DEF MovesMain, Main
    <2>2. \E m \in {main, MovesMain} : \E b, ok, marker : Merges(m, b, ok, marker)
      BY <1>2 DEF Merge
    <2>3. \E m \in {main, MovesMain}, c \in BOOLEAN : main' = m \/ main' = [m EXCEPT !.claim = c]
      BY <2>2 DEF Merges
    <2> QED
      BY <2>1, <2>3 DEF Main
  <1>3. CASE Shipwreck
    <2>1. main' \in {main, MovesMain, [main EXCEPT !.moved = @ \ {"ship"}]}
      BY <1>3 DEF Shipwreck
    <2> QED
      BY <2>1 DEF MovesMain, Main
  <1>4. CASE MarkDone \/ PushMain
    BY <1>4 DEF MarkDone, PushMain, Main
  <1>5. CASE RemoveWorktree \/ DeleteClaim \/ CleanedUp
    BY <1>5 DEF RemoveWorktree, DeleteClaim, CleanedUp, Main
  <1>6. CASE DeleteBranch
    BY <1>6 DEF DeleteBranch, Deletable, Main
  <1> QED
    BY <1>1, <1>2, <1>3, <1>4, <1>5, <1>6 DEF DirectStep

\* The steps of an attempt preserve the invariant.
LEMMA WorkInv == ASSUME IInv, Work PROVE IInv'
  <1>0. /\ remote \in Remote /\ remote.markers # "harness" /\ main \in Main
        /\ ref \in Nat /\ upstream \in Nat /\ Good(br)
    BY DEF IInv, TypeInv, MarkersInv
  <1>1. CASE AttemptStep /\ UNCHANGED <<reviewVars, prVars, main>>
    <2>1. pc # "idle" /\ UNCHANGED <<ref, upstream>>
      BY <1>1 DEF AttemptStep, AssignmentFails, Pick, PlanSkipped, PlanExists, Plan, ShakedownPlan,
                  Implement, EnterShip, At
    <2> QED
      BY <1>0, <1>1, <2>1, AttemptKept, KeptInv DEF prVars
  <1>2. CASE ReviewStep /\ UNCHANGED <<prVars, main>>
    <2>1. pc # "idle" /\ UNCHANGED <<ref, upstream>>
      BY <1>2 DEF ReviewStep, ShakedownCode, Admit, BudgetEnds, SeatsSettle, Judge, Revise,
                  Teardown, Escalate, Record, Decide, At
    <2> QED
      BY <1>0, <1>2, <2>1, ReviewKept, KeptInv DEF prVars
  <1>3. CASE PrStep /\ UNCHANGED <<reviewVars, main>>
    <2>1. pc # "idle" /\ upstream' = upstream /\ ref' \in {ref, upstream}
      BY <1>3 DEF PrStep, preparePrShipFreshness, MergeStillOpen, Fetched, NotFetched, Repair,
                  runFreshnessGates, runColdPrReviewPreflight, Revision, Retype, ShipAgent, Squash,
                  CommitSquash, PushBranch, UpsertPr, AutoMerge, Shipped, Effect, At
    <2>2. \/ remote' = remote
          \/ remote' = [remote EXCEPT !.pushed = TRUE, !.markers = br.markers]
          \/ remote' = [remote EXCEPT !.pr = TRUE]
          \/ remote' = [remote EXCEPT !.auto = TRUE]
      BY <1>3 DEF PrStep, preparePrShipFreshness, Repair, prVars,
                  runFreshnessGates, runColdPrReviewPreflight, Revision, Retype, ShipAgent, Squash,
                  CommitSquash, PushBranch, UpsertPr, AutoMerge, Shipped
    <2>3. remote' \in Remote /\ remote'.markers # "harness"
      BY <1>0, <2>2 DEF Remote, Good, Branch
    <2> QED
      BY <1>0, <1>3, <2>1, <2>3, PrKept, KeptInv
  <1>4. CASE DirectStep /\ UNCHANGED <<reviewVars, prVars>>
    <2>1. pc # "idle" /\ UNCHANGED <<ref, upstream, remote>>
      BY <1>4 DEF DirectStep, captureShipState, Merge, Shipwreck, MarkDone, PushMain, RemoveWorktree,
                  DeleteBranch, DeleteClaim, CleanedUp, Tail, prVars
    <2>2. main' \in Main
      BY <1>0, <1>4, MainType DEF Good, Branch
    <2> QED
      BY <1>0, <1>4, <2>1, <2>2, DirectKept, KeptInv
  <1> QED
    BY <1>1, <1>2, <1>3, <1>4 DEF Work

\* A peer or the operator preserves the invariant: main is only seen to move, and a
\* resolution changes nothing of the branch that it speaks of.
LEMMA EnvironmentInv == ASSUME IInv, Environment PROVE IInv'
  <1>1. CASE PeerMovesMain /\ UNCHANGED <<reviewVars, prVars>>
    <2>1. main' \in Main
      BY <1>1 DEF PeerMovesMain, IInv, TypeInv, Main
    <2>2. UNCHANGED <<pc, steps, log, out, br, ref, upstream, remote, fresh>>
      BY <1>1 DEF PeerMovesMain, attemptVars, prVars
    <2> QED
      BY <2>1, <2>2 DEF IInv, TypeInv, MarkersInv, GateInv, Checked, MadeInv
  <1>2. CASE OperatorResolves /\ UNCHANGED <<reviewVars, prVars, main>>
    <2>1. PICK how \in {"proceed", "block"} : br' = [CommitsLog(br) EXCEPT !.esc.state = how]
      BY <1>2 DEF OperatorResolves
    <2>2. /\ Good(CommitsLog(br)) /\ CommitsLog(br).made = br.made
          /\ CommitsLog(br).merge = br.merge /\ CommitsLog(br).bare = br.bare
          /\ CommitsLog(br).deliver = br.deliver /\ CommitsLog(br).base = br.base
          /\ CommitsLog(br).dirty = br.dirty \ {"log"}
          /\ CommitsLog(br).facts = br.facts \cap {"typechecked", "preflighted"}
      BY CommitsLogGood DEF IInv, MarkersInv
    <2>3. /\ Good(br') /\ br'.made = br.made /\ br'.merge = br.merge /\ br'.bare = br.bare
          /\ br'.deliver = br.deliver /\ br'.base = br.base /\ br'.dirty = br.dirty \ {"log"}
          /\ br'.facts = br.facts \cap {"typechecked", "preflighted"}
      BY <2>1, <2>2 DEF Good, Branch, Escalations
    <2>4. UNCHANGED <<pc, steps, log, out, ref, upstream, remote, main, fresh>>
      BY <1>2 DEF OperatorResolves, prVars
    <2> QED
      BY <2>3, <2>4 DEF IInv, TypeInv, MarkersInv, GateInv, Checked, MadeInv, Good
  <1>3. CASE (PeerParks \/ UpstreamMoves \/ PeerFetches) /\ UNCHANGED <<reviewVars, prVars, main>>
    <2>1. /\ UNCHANGED <<pc, steps, log, out, br, remote, main, fresh>>
          /\ ref' \in Nat /\ upstream' \in Nat
      BY <1>3 DEF PeerParks, UpstreamMoves, PeerFetches, prVars, IInv, TypeInv
    <2> QED
      BY <2>1 DEF IInv, TypeInv, MarkersInv, GateInv, Checked, MadeInv
  <1> QED
    BY <1>1, <1>2, <1>3 DEF Environment

\* An attempt resumes at a step.
LEMMA ResumesAtStep == ASSUME IInv PROVE detectResumeStep(br, log) \in Pipeline
  BY DEF IInv, TypeInv, detectResumeStep, Heuristic, Entries, Pipeline

\* A new attempt, and the death of one, preserve the invariant.
LEMMA AttemptsInv == ASSUME IInv, Start \/ WaitOut \/ Resume \/ Crash PROVE IInv'
  <1>0. Good(br) /\ main \in Main /\ steps \in Entries /\ log \in Entries
    BY DEF IInv, TypeInv, MarkersInv
  <1>1. ASSUME NEW where, Enter(where), where \notin Late, Good(br'),
               where # "pick" => br'.made = TRUE
        PROVE  IInv'
    <2>1. main' \in Main
      BY <1>0, <1>1 DEF Enter, NoMain, Main
    <2>2. pc' = where /\ UNCHANGED <<steps, log, ref, upstream, remote>>
      BY <1>1 DEF Enter
    <2> QED
      BY <1>0, <1>1, <2>1, <2>2 DEF IInv, TypeInv, MarkersInv, GateInv, Checked, MadeInv, Good
  <1>2. detectResumeStep(br, log) \in Pipeline
    BY ResumesAtStep
  <1>3. CASE Start
    BY <1>0, <1>1, <1>3 DEF Start
  <1>4. MayResume => br.made = TRUE
    BY <1>0 DEF MayResume, Good, Branch
  <1>5. CASE WaitOut
    BY <1>0, <1>1, <1>2, <1>4, <1>5 DEF WaitOut, Pipeline
  <1>6. CASE Resume
    <2>1. PICK from \in {detectResumeStep(br, log)} \cup FromSteps : Enter(from)
      BY <1>6 DEF Resume
    <2>2. from \notin Late
      BY <1>2, <2>1, CycleAssumption DEF Pipeline
    <2>3. Good(br') /\ br'.made = br.made
      BY <1>0, <1>6 DEF Resume, Good, Branch
    <2> QED
      BY <1>1, <1>4, <1>6, <2>1, <2>2, <2>3 DEF Resume
  <1>7. CASE Crash
    <2>1. PICK b \in {br} \cup Works(br, "plan") \cup Works(br, "code") :
             br' \in {[b EXCEPT !.facts = @ \ {"recorded"}], Landed(b)}
      BY <1>7 DEF Crash
    <2>2. Good(b)
      BY <1>0, <2>1, WorksGood
    <2>3. Good([b EXCEPT !.facts = @ \ {"recorded"}])
      BY <2>2 DEF Good, Branch
    <2>4. Good(br')
      BY <2>1, <2>2, <2>3, LandedGood
    <2>5. /\ pc # "idle" /\ pc' = "idle" /\ steps' \in Entries
          /\ UNCHANGED <<log, ref, upstream, remote, main>>
      BY <1>7 DEF Crash, Entries
    <2> QED
      BY <2>4, <2>5 DEF IInv, TypeInv, MarkersInv, GateInv, Checked, MadeInv, Good
  <1> QED
    BY <1>3, <1>5, <1>6, <1>7

\* Every step preserves the inductive invariant.
LEMMA NextIInv == IInv /\ [Next]_vars => IInv'
  <1>1. ASSUME IInv, UNCHANGED vars PROVE IInv'
    BY <1>1 DEF vars, attemptVars, reviewVars, prVars, IInv, TypeInv, MarkersInv, GateInv, Checked, MadeInv
  <1> QED
    BY <1>1, AttemptsInv, WorkInv, EnvironmentInv DEF Next

LEMMA SpecIInv == Spec => []IInv
  BY InitIInv, NextIInv, PTL DEF Spec

\* No conflict markers of the harness's making ever reach the forge.
THEOREM MarkersSafe == Spec => []PushedMarkersAreTheAuthors
  <1>1. IInv => PushedMarkersAreTheAuthors
    BY DEF IInv, MarkersInv, PushedMarkersAreTheAuthors
  <1> QED
    BY <1>1, SpecIInv, PTL

\* What is pushed for a pull request is deliverable, clean, fresh and checked.
THEOREM PushSafe == Spec => []PushIsGated
  <1>1. IInv => PushIsGated
    BY DEF IInv, TypeInv, GateInv, Checked, PushIsGated, HasDeliverableCommits, Dirty, Branch
  <1> QED
    BY <1>1, SpecIInv, PTL

-----------------------------------------------------------------------------
(* The delivery of a completed attempt. *)

PrPcs == {"fresh", "repair", "gates", "preflight", "revision", "retype", "agent", "squash", "commit",
          "push", "upsert", "auto-merge", "receipt"}
Cleaning == {"cleanup", "delete", "unclaim", "cleaned"}
DirectPcs == {"capture", "merge", "wreck", "tail", "push-main"} \cup Cleaning
USE DEF Cleaning

\* The effects on the forge that are done at a step of a pull-request ship.
PrInv ==
    /\ pc \in {"upsert", "auto-merge", "receipt"} => remote.pushed = TRUE
    /\ pc \in {"auto-merge", "receipt"} => remote.pr = TRUE
    /\ pc = "receipt" /\ target = "auto-merge-pr" => remote.auto = TRUE

\* Where main moved by the agent alone, it has the branch.  The push of main brings to
\* origin what main has, and the cleanup comes after it.
MainInv ==
    /\ pc = "merge" => "ship" \notin main.moved
    /\ pc = "wreck" /\ "ship" \in main.moved => br.bare = TRUE
    /\ pc \in {"tail", "push-main"} => br.bare = TRUE \/ "peer" \in main.moved
    /\ pc \in Cleaning => main.pushed = TRUE \/ "peer" \in main.moved
    /\ pc \in {"cleanup", "delete"} => main.pushed = br.bare

FlowInv ==
    /\ pc \in PrPcs => target # "direct-push"
    /\ pc \in DirectPcs => target = "direct-push"
    /\ PrInv /\ MainInv
    /\ out = "completed" => pc = "idle" /\ br.made = TRUE /\ CompletedIsDelivered

\* An attempt that ends without an error of its own making is not completed by that.
LEMMA StepEnds ==
  ASSUME NEW name, NEW b, NEW c, runStepWithRetry(name, b, c), out # "completed"
  PROVE  out' # "completed"
  BY DEF runStepWithRetry, Confinement, NotOk, ParkExit, QuarantineExit, Failed, Finish, Retry

\* Neither the steps before the ship nor the review complete an attempt, and they enter the
\* ship of their target.
Before == /\ pc # "idle" /\ out' # "completed"
          /\ pc' \in PrPcs => pc' = "fresh" /\ target # "direct-push"
          /\ pc' \in DirectPcs => pc' = "capture" /\ target = "direct-push"

LEMMA AttemptBefore == ASSUME AttemptStep, out # "completed" PROVE Before
  <1> USE DEF Before, PrPcs, DirectPcs, Goto, Failed, Finish, ParkExit
  <1>1. CASE Plan \/ ShakedownPlan \/ Implement
    BY <1>1, StepLeads, StepEnds DEF Plan, ShakedownPlan, Implement, At, GoesOn
  <1>2. CASE AssignmentFails \/ Pick \/ PlanSkipped
    BY <1>2 DEF AssignmentFails, Pick, Unclaimed, PlanSkipped, PlanExists
  <1>3. CASE EnterShip
    BY <1>3 DEF EnterShip
  <1> QED
    BY <1>1, <1>2, <1>3 DEF AttemptStep

LEMMA ReviewBefore == ASSUME ReviewStep, out # "completed" PROVE Before
  <1> USE DEF Before, PrPcs, DirectPcs, Goto, Failed, Finish, ParkExit, LoopEnds, EscapesLoop
  <1>1. CASE ShakedownCode
    BY <1>1, StepLeads, StepEnds DEF ShakedownCode, At, GoesOn
  <1>2. CASE Admit
    BY <1>2 DEF Admit
  <1>3. CASE SeatsSettle
    BY <1>3 DEF SeatsSettle
  <1>4. CASE Judge
    <2>1. pc = "judge" /\ \E kept, outcome, unfixable, valid, limited :
                             Ruled(kept, outcome, unfixable, valid, limited)
      BY <1>4 DEF Judge
    <2> QED
      BY <2>1 DEF Ruled
  <1>5. CASE Revise
    BY <1>5 DEF Revise
  <1>6. CASE BudgetEnds \/ Teardown \/ Escalate \/ Record \/ Decide
    BY <1>6 DEF BudgetEnds, Teardown, Escalate, Record, Decide
  <1> QED
    BY <1>1, <1>2, <1>3, <1>4, <1>5, <1>6 DEF ReviewStep

\* The ship of a pull request goes through its effects one by one.
LEMMA PrFlow ==
  ASSUME IInv, FlowInv, PrStep, target' = target, UNCHANGED main
  PROVE  FlowInv'
  <1>0. /\ pc # "idle" => out # "completed"
        /\ remote \in Remote
    BY DEF FlowInv, IInv, TypeInv
  <1> DEFINE Effects == {"upsert", "auto-merge", "receipt"}
  <1>1. ASSUME pc \in PrPcs, pc' \in (PrPcs \ Effects) \cup {"idle"}, out' # "completed" PROVE FlowInv'
    BY <1>1 DEF FlowInv, PrInv, MainInv, PrPcs, DirectPcs
  <1>2. ASSUME EffectFails, pc # "idle" PROVE pc' = "idle" /\ out' # "completed"
    BY <1>2 DEF EffectFails, ParkExit, ShipFailed, Finish
  <1>3. CASE Repair \/ Revision
    <2>1. pc \in {"repair", "revision"} /\ pc' \in {"idle", pc, "gates", "retype"} /\ out' # "completed"
      BY <1>0, <1>3, StepLeads, StepEnds DEF Repair, Revision, At, GoesOn, Goto, Failed, Finish
    <2> QED
      BY <1>1, <2>1 DEF PrPcs
  <1>4. CASE preparePrShipFreshness \/ runFreshnessGates \/ Retype
    <2>1. /\ pc \in {"fresh", "gates", "retype"} /\ pc' \in {"idle", "repair", "gates", "preflight"}
          /\ out' # "completed"
      BY <1>0, <1>4 DEF preparePrShipFreshness, MergeStillOpen, Fetched, NotFetched, runFreshnessGates,
                        Retype, LinksHold, Goto, Failed, ParkExit, Finish
    <2> QED
      BY <1>1, <2>1 DEF PrPcs
  <1>5. CASE runColdPrReviewPreflight
    <2>1. pc = "preflight" /\ pc' \in {"idle", "revision", "agent"} /\ out' # "completed"
      BY <1>0, <1>5 DEF runColdPrReviewPreflight, HeadMoved, LinksHold, Reviewed, Goto, Failed, ShipFailed,
                        ParkExit, Finish
    <2> QED
      BY <1>1, <2>1 DEF PrPcs
  <1>6. CASE ShipAgent
    <2>1. pc = "agent" /\ pc' \in {"idle", "agent", "squash"} /\ out' # "completed"
      BY <1>0, <1>6 DEF ShipAgent, BodyStays, DecideAgain, Goto, Failed, ShipFailed, ParkExit,
                        QuarantineExit, Finish
    <2> QED
      BY <1>1, <2>1 DEF PrPcs
  <1>7. CASE Squash \/ CommitSquash
    <2>1. pc \in {"squash", "commit"} /\ pc' \in {"idle", "commit", "push"} /\ out' # "completed"
      BY <1>0, <1>2, <1>7 DEF Squash, CommitSquash, Effect, Goto
    <2> QED
      BY <1>1, <2>1 DEF PrPcs
  <1>8. CASE PushBranch
    <2>1. pc = "push" /\ out # "completed" /\ target # "direct-push"
      BY <1>0, <1>8 DEF PushBranch, Effect, FlowInv, PrPcs
    <2>2. CASE remote' = [remote EXCEPT !.pushed = TRUE, !.markers = br.markers] /\ Goto("upsert", steps)
      BY <1>0, <2>1, <2>2 DEF Goto, FlowInv, PrInv, MainInv, Remote, PrPcs, DirectPcs
    <2> QED
      BY <1>1, <1>2, <1>8, <2>1, <2>2 DEF PushBranch, PrPcs
  <1>9. CASE UpsertPr
    <2>1. pc = "upsert" /\ out # "completed" /\ target # "direct-push" /\ remote.pushed = TRUE
      BY <1>0, <1>9 DEF UpsertPr, Effect, FlowInv, PrInv, PrPcs
    <2>2. CASE /\ remote' = [remote EXCEPT !.pr = TRUE]
               /\ Goto(IF target = "auto-merge-pr" THEN "auto-merge" ELSE "receipt", steps)
      BY <1>0, <2>1, <2>2 DEF Goto, FlowInv, PrInv, MainInv, Remote, PrPcs, DirectPcs
    <2> QED
      BY <1>1, <1>2, <1>9, <2>1, <2>2 DEF UpsertPr, PrPcs
  <1>10. CASE AutoMerge
    <2>1. pc = "auto-merge" /\ out # "completed" /\ target # "direct-push" /\ remote.pushed = TRUE /\ remote.pr = TRUE
      BY <1>0, <1>10 DEF AutoMerge, Effect, FlowInv, PrInv, PrPcs
    <2>2. CASE remote' = [remote EXCEPT !.auto = TRUE] /\ Goto("receipt", steps)
      BY <1>0, <2>1, <2>2 DEF Goto, FlowInv, PrInv, MainInv, Remote, PrPcs, DirectPcs
    <2> QED
      BY <1>1, <1>2, <1>10, <2>1, <2>2 DEF AutoMerge, PrPcs
  <1>11. CASE Shipped
    <2>1. /\ pc = "receipt" /\ out # "completed" /\ target # "direct-push" /\ remote' = remote
          /\ remote.pushed = TRUE /\ remote.pr = TRUE /\ (target = "auto-merge-pr" => remote.auto = TRUE)
          /\ br.made = TRUE
      BY <1>0, <1>11 DEF Shipped, Effect, FlowInv, PrInv, PrPcs, IInv, MadeInv
    <2>2. CASE Finish("completed", Ran("ship", TRUE), FALSE) /\ br' = br
      BY <2>1, <2>2 DEF Finish, FlowInv, PrInv, MainInv, CompletedIsDelivered, PrPcs, DirectPcs
    <2>3. CASE EffectFails
      BY <1>1, <1>2, <2>1, <2>3 DEF PrPcs
    <2>4. CASE ParkExit("parked", Ran("ship", TRUE), br)
      BY <1>1, <2>1, <2>4 DEF ParkExit, Finish, PrPcs
    <2> QED
      BY <1>11, <2>2, <2>3, <2>4 DEF Shipped
  <1> QED
    BY <1>3, <1>4, <1>5, <1>6, <1>7, <1>8, <1>9, <1>10, <1>11 DEF PrStep

\* The direct push: what the agent moved is in main, and then at origin.
LEMMA DirectFlow ==
  ASSUME IInv, FlowInv, DirectStep, target' = target, UNCHANGED remote
  PROVE  FlowInv'
  <1>0. /\ pc # "idle" => out # "completed"
        /\ main \in Main /\ br \in Branch /\ Good(br)
    BY DEF FlowInv, IInv, TypeInv, MarkersInv
  <1>1. ASSUME pc \in DirectPcs, pc' \in DirectPcs \cup {"idle"}, out' # "completed", MainInv' PROVE FlowInv'
    BY <1>1 DEF FlowInv, PrInv, PrPcs, DirectPcs
  <1>2. ASSUME pc' = "idle" PROVE MainInv'
    BY <1>2 DEF MainInv
  <1>3. CASE captureShipState
    <2>1. CASE main' = [main EXCEPT !.moved = {}] /\ Goto("merge", steps) /\ pc = "capture"
      <3>1. main'.moved = {} /\ pc' = "merge" /\ out' = out
        BY <1>0, <2>1 DEF Main, Goto
      <3>2. MainInv'
        BY <3>1 DEF MainInv
      <3> QED
        BY <1>0, <1>1, <2>1, <3>1, <3>2 DEF DirectPcs
    <2>2. CASE Failed(steps) /\ pc = "capture"
      BY <1>1, <1>2, <2>2 DEF Failed, Finish, DirectPcs
    <2> QED
      BY <1>3, <2>1, <2>2 DEF captureShipState
  <1>4. CASE Merge
    <2>1. pc = "merge" /\ "ship" \notin main.moved /\ out # "completed"
      BY <1>0, <1>4 DEF Merge, FlowInv, MainInv
    <2>2. PICK b \in Works(br, "code"), ok \in BOOLEAN, marker \in BOOLEAN :
             Merges(main, b, ok, marker) \/ Merges(MovesMain, Landed(b), ok, marker)
      BY <1>4 DEF Merge
    <2>3. Landed(b).bare = TRUE
      BY <1>0, WorksGood DEF Landed, Good, Branch
    <2>4. ASSUME NEW m \in Main, NEW c, Merges(m, c, ok, marker),
                 "ship" \in m.moved => c.bare = TRUE
          PROVE  FlowInv'
      <3>1. m.moved # {} => c.bare = TRUE \/ "peer" \in m.moved
        BY <2>4 DEF Main
      <3>2. CASE \/ ShipFailed(Ran("ship", FALSE))
                 \/ ParkExit("parked", Ran("ship", ok), c)
                 \/ QuarantineExit(Ran("ship", FALSE), c)
        <4>1. pc' = "idle" /\ out' # "completed"
          BY <3>2 DEF ShipFailed, ParkExit, QuarantineExit, Finish
        <4> QED
          BY <1>1, <1>2, <2>1, <4>1 DEF DirectPcs
      <3>3. CASE verifyShipLanded(m) /\ main' = m /\ br' = c /\ Goto("tail", Ran("ship", TRUE))
        <4>1. pc' = "tail" /\ out' = out /\ MainInv'
          BY <3>1, <3>3 DEF Goto, verifyShipLanded, MainInv
        <4> QED
          BY <1>1, <2>1, <4>1 DEF DirectPcs
      <3>4. CASE /\ main' = [m EXCEPT !.claim = ok \/ verifyShipLanded(m)]
                 /\ br' = c /\ Goto("wreck", Ran("ship", ok))
        <4>1. main'.moved = m.moved
          BY <3>4 DEF Main
        <4>2. pc' = "wreck" /\ out' = out /\ MainInv'
          BY <2>4, <3>4, <4>1 DEF Goto, MainInv
        <4> QED
          BY <1>1, <2>1, <4>2 DEF DirectPcs
      <3> QED
        BY <2>4, <3>2, <3>3, <3>4 DEF Merges
    <2>5. MovesMain \in Main
      BY <1>0 DEF MovesMain, Main
    <2> QED
      BY <1>0, <2>1, <2>2, <2>3, <2>4, <2>5
  <1>5. CASE Shipwreck
    <2>1. pc = "wreck" /\ out # "completed" /\ ("ship" \in main.moved => br.bare = TRUE)
      BY <1>0, <1>5 DEF Shipwreck, FlowInv, MainInv
    <2>2. \/ pc' = "idle" /\ out' = "failed"
          \/ /\ pc' = "tail" /\ out' = out /\ main'.moved # {}
             /\ (br' = br /\ main' = main) \/ br' = Landed(br)
      BY <1>5 DEF Shipwreck, verifyShipLanded, Goto, Finish
    <2>3. Landed(br).bare = TRUE
      BY <1>0 DEF Landed, Branch
    <2>4. main.moved \subseteq {"ship", "peer"}
      BY <1>0 DEF Main
    <2>5. MainInv' /\ out' # "completed" /\ pc' \in {"idle", "tail"}
      BY <2>1, <2>2, <2>3, <2>4 DEF MainInv
    <2> QED
      BY <1>1, <2>1, <2>5 DEF DirectPcs
  <1>6. CASE MarkDone
    <2>1. /\ pc = "tail" /\ pc' = "push-main" /\ out' = out /\ br' = br /\ main'.moved = main.moved
      BY <1>0, <1>6 DEF MarkDone, Tail, Goto, Main
    <2>2. MainInv'
      BY <2>1 DEF FlowInv, MainInv
    <2> QED
      BY <1>0, <1>1, <2>1, <2>2 DEF DirectPcs
  <1>7. CASE PushMain
    <2>1. pc = "push-main" /\ (br.bare = TRUE \/ "peer" \in main.moved)
      BY <1>7 DEF PushMain, Tail, FlowInv, MainInv
    <2>2. CASE PushRejected
      BY <1>1, <1>2, <2>1, <2>2 DEF PushRejected, Failed, Finish, DirectPcs
    <2>3. CASE main' = [main EXCEPT !.pushed = br.bare] /\ Goto("cleanup", steps)
      <3>1. /\ pc' = "cleanup" /\ out' = out /\ br' = br
            /\ main'.pushed = br.bare /\ main'.moved = main.moved
        BY <1>0, <1>7, <2>3 DEF Goto, PushMain, Main
      <3>2. MainInv'
        BY <2>1, <3>1 DEF MainInv
      <3> QED
        BY <1>0, <1>1, <2>1, <3>1, <3>2 DEF DirectPcs
    <2> QED
      BY <1>7, <2>2, <2>3 DEF PushMain
  <1>8. CASE RemoveWorktree \/ DeleteBranch \/ DeleteClaim
    <2>1. /\ pc \in Cleaning /\ pc' \in Cleaning /\ out' = out /\ br' = br
          /\ pc' = "delete" => pc = "cleanup"
          /\ pc' # "cleanup"
      BY <1>8 DEF RemoveWorktree, DeleteBranch, DeleteClaim, Tail, Goto
    <2>2. main'.pushed = main.pushed /\ main'.moved = main.moved
      BY <1>0, <1>8 DEF RemoveWorktree, DeleteBranch, DeleteClaim, Main
    <2>3. MainInv'
      BY <2>1, <2>2 DEF FlowInv, MainInv
    <2> QED
      BY <1>0, <1>1, <2>1, <2>3 DEF DirectPcs
  <1>9. CASE CleanedUp
    <2>1. /\ pc = "cleaned" /\ pc' = "idle" /\ out' = "completed" /\ br' = br /\ br.made = TRUE
          /\ main.pushed = TRUE \/ "peer" \in main.moved
          /\ target = "direct-push" /\ main' = main
      BY <1>9 DEF CleanedUp, Tail, Finish, FlowInv, MainInv, IInv, MadeInv, DirectPcs
    <2> QED
      BY <2>1 DEF FlowInv, PrInv, MainInv, CompletedIsDelivered, PrPcs, DirectPcs
  <1> QED
    BY <1>3, <1>4, <1>5, <1>6, <1>7, <1>8, <1>9 DEF DirectStep

\* Every step preserves what has been delivered.
LEMMA FlowStep == ASSUME IInv, FlowInv, [Next]_vars PROVE FlowInv'
  <1>1. CASE UNCHANGED vars
    BY <1>1 DEF vars, attemptVars, prVars, FlowInv, PrInv, MainInv, CompletedIsDelivered
  <1>2. ASSUME NEW where, Enter(where), where \in Pipeline, target' = target, UNCHANGED remote
        PROVE  FlowInv'
    BY <1>2 DEF Enter, FlowInv, PrInv, MainInv, PrPcs, DirectPcs, Pipeline
  <1>3. CASE (Start \/ WaitOut \/ Resume) /\ target' = target
    BY <1>2, <1>3, ResumesAtStep, CycleAssumption DEF Start, WaitOut, Resume, Enter, Pipeline
  <1>4. CASE Crash
    BY <1>4 DEF Crash, FlowInv, PrInv, MainInv, PrPcs, DirectPcs
  <1>5. CASE (AttemptStep \/ ReviewStep) /\ UNCHANGED <<prVars, main>> /\ target' = target
    <2>1. Before
      <3>1. pc # "idle"
        BY <1>5 DEF AttemptStep, AssignmentFails, Pick, PlanSkipped, PlanExists, Plan, ShakedownPlan,
                    Implement, EnterShip, At, ReviewStep, ShakedownCode, Admit, BudgetEnds, SeatsSettle,
                    Judge, Revise, Teardown, Escalate, Record, Decide
      <3> QED
        BY <1>5, <3>1, AttemptBefore, ReviewBefore DEF FlowInv
    <2> QED
      BY <1>5, <2>1 DEF Before, FlowInv, PrInv, MainInv, PrPcs, DirectPcs, prVars
  <1>6. CASE PrStep /\ UNCHANGED main /\ target' = target
    BY <1>6, PrFlow
  <1>7. CASE DirectStep /\ UNCHANGED prVars /\ target' = target
    BY <1>7, DirectFlow DEF prVars
  <1>8. CASE Environment /\ target' = target
    <2>1. CASE PeerMovesMain
      <3>1. /\ UNCHANGED <<pc, out, br>> /\ pc \in {"merge", "wreck"}
            /\ main'.moved = main.moved \cup {"peer"}
        BY <2>1 DEF PeerMovesMain, attemptVars, IInv, TypeInv, Main
      <3> QED
        BY <1>8, <3>1 DEF FlowInv, PrInv, MainInv, PrPcs, DirectPcs
    <2>2. CASE OperatorResolves /\ UNCHANGED <<prVars, main>>
      <3>1. PICK how \in {"proceed", "block"} : br' = [CommitsLog(br) EXCEPT !.esc.state = how]
        BY <2>2 DEF OperatorResolves
      <3>2. /\ Good(CommitsLog(br)) /\ CommitsLog(br).made = br.made /\ CommitsLog(br).bare = br.bare
        BY CommitsLogGood DEF IInv, MarkersInv
      <3>3. br'.made = br.made /\ br'.bare = br.bare
        BY <3>1, <3>2 DEF Good, Branch
      <3>4. UNCHANGED <<pc, out, remote, main>>
        BY <2>2 DEF OperatorResolves, prVars
      <3> QED
        BY <1>8, <3>3, <3>4 DEF FlowInv, PrInv, MainInv, CompletedIsDelivered
    <2>3. CASE (PeerParks \/ UpstreamMoves \/ PeerFetches) /\ UNCHANGED <<prVars, main>>
      <3>1. UNCHANGED <<pc, out, br, remote, main>>
        BY <2>3 DEF PeerParks, UpstreamMoves, PeerFetches, prVars
      <3> QED
        BY <1>8, <3>1 DEF FlowInv, PrInv, MainInv, CompletedIsDelivered
    <2> QED
      BY <1>8, <2>1, <2>2, <2>3 DEF Environment
  <1> QED
    BY <1>1, <1>3, <1>4, <1>5, <1>6, <1>7, <1>8 DEF Next, Work

LEMMA SpecFlowInv == Spec => []FlowInv
  <1>1. Init => FlowInv
    BY DEF Init, FlowInv, PrInv, MainInv, PrPcs, DirectPcs
  <1> QED
    BY <1>1, FlowStep, SpecIInv, PTL DEF Spec

\* A completed attempt has delivered.
THEOREM CompletedSafe == Spec => []CompletedIsDelivered
  <1>1. FlowInv => CompletedIsDelivered
    BY DEF FlowInv, CompletedIsDelivered
  <1> QED
    BY <1>1, SpecFlowInv, PTL

\* What the steps of a direct push take away is taken by the cleanup.
Takes(field) == main'[field] /\ ~main[field]

LEMMA OnlyCleanupTakes ==
  ASSUME main \in Main, DirectStep
  PROVE  /\ Takes("removed") => pc = "cleanup"
         /\ Takes("gone") => pc = "delete" /\ main.done = TRUE /\ br.bare = TRUE
         /\ Takes("unclaimed") => pc = "unclaim" /\ main.done = TRUE
  <1> USE DEF Takes
  <1>1. CASE captureShipState \/ MarkDone \/ PushMain \/ CleanedUp
    BY <1>1 DEF captureShipState, MarkDone, PushMain, CleanedUp, Main
  <1>2. CASE Merge
    <2>1. \E m \in {main, MovesMain} : \E b, ok, marker : Merges(m, b, ok, marker)
      BY <1>2 DEF Merge
    <2>2. \E m \in {main, MovesMain} : \E c : main' = m \/ main' = [m EXCEPT !.claim = c]
      BY <2>1 DEF Merges
    <2> QED
      BY <2>2 DEF MovesMain, Main
  <1>3. CASE Shipwreck
    <2>1. main' \in {main, MovesMain, [main EXCEPT !.moved = @ \ {"ship"}]}
      BY <1>3 DEF Shipwreck
    <2> QED
      BY <2>1 DEF MovesMain, Main
  <1>4. CASE RemoveWorktree
    BY <1>4 DEF RemoveWorktree, Tail, Main
  <1>5. CASE DeleteBranch
    BY <1>5 DEF DeleteBranch, Deletable, Tail, Main
  <1>6. CASE DeleteClaim
    BY <1>6 DEF DeleteClaim, Tail, Main
  <1> QED
    BY <1>1, <1>2, <1>3, <1>4, <1>5, <1>6 DEF DirectStep

\* The worktree, the local branch and the claim at origin are taken away only after delivery:
\* the branch, the last copy, only when origin has the work, and the claims of the item only
\* when it is marked done.
THEOREM DeliverySafe == Spec => BranchOutlivesDelivery
  <1> DEFINE Delivered == main.pushed \/ "peer" \in main.moved
             After == /\ main'.removed /\ ~main.removed => Delivered
                      /\ main'.gone /\ ~main.gone => main.pushed /\ main.done
                      /\ main'.unclaimed /\ ~main.unclaimed => Delivered /\ main.done
  <1>1. ASSUME IInv, FlowInv, [Next]_vars PROVE [After]_vars
    <2>1. CASE UNCHANGED vars
      BY <2>1
    <2>2. main \in Main
      BY <1>1 DEF IInv, TypeInv
    <2>3. CASE DirectStep
      <3>1. MainInv
        BY <1>1 DEF FlowInv
      <3> QED
        BY <2>2, <2>3, <3>1, OnlyCleanupTakes DEF Takes, MainInv
    <2>4. ASSUME NEW where, Enter(where) PROVE After
      BY <2>2, <2>4 DEF Enter, NoMain, Main
    <2>5. CASE PeerMovesMain
      BY <2>2, <2>5 DEF PeerMovesMain, Main
    <2>6. CASE UNCHANGED main
      BY <2>6
    <2> QED
      BY <1>1, <2>1, <2>3, <2>4, <2>5, <2>6
      DEF Next, Start, WaitOut, Resume, Crash, Work, Environment
  <1> HIDE DEF After
  <1>2. [][After]_vars => BranchOutlivesDelivery
    BY PTL DEF After, BranchOutlivesDelivery
  <1> QED
    BY <1>1, <1>2, SpecIInv, SpecFlowInv, PTL DEF Spec

-----------------------------------------------------------------------------
(* The review loop. *)

Review == [pass : Nat, revisions : Nat, carried : SUBSET Findings, outcome : Outcomes,
           split : BOOLEAN, writeFailed : BOOLEAN]

\* What the outcome of a loop that has ended says of the findings that are left.
OutcomeInv ==
    pc \in {"teardown", "escalate", "record", "notify"} =>
        /\ rv.outcome # "none"
        /\ rv.outcome = "converged" => rv.carried = {}
        /\ rv.outcome = "dissent" => rv.carried \cap Safety = {}
        /\ rv.split = TRUE => rv.outcome \in {"hard-block", "dissent"}
        /\ rv.outcome = "threw" => pc = "teardown"

LoopInv == /\ rv \in Review
           /\ OutcomeInv
           /\ pc \in {"seats", "judge", "revise"} => rv.split = FALSE

LEMMA NoReviewType == NoReview \in Review
  BY DEF NoReview, Review, Outcomes

\* The steps of the other modules neither start in the review nor lead into it, and none of
\* them goes on from shakedown-code to ship.
Elsewhere == /\ pc \notin ReviewPcs /\ pc' \notin ReviewPcs
             /\ pc = "shakedown-code" => pc' # "ship"

LEMMA AttemptLeads == ASSUME AttemptStep PROVE Elsewhere
  <1>1. ASSUME Plan \/ ShakedownPlan \/ Implement PROVE Elsewhere
    BY <1>1, StepLeads DEF Elsewhere, Plan, ShakedownPlan, Implement, At, GoesOn, Goto, Failed, Finish, ReviewPcs
  <1>2. ASSUME AssignmentFails \/ Pick \/ PlanSkipped \/ EnterShip
        PROVE  Elsewhere
    BY <1>2 DEF Elsewhere, AssignmentFails, Pick, Unclaimed, PlanSkipped, PlanExists, EnterShip, ParkExit, Goto,
                Failed, Finish, ReviewPcs
  <1> QED
    BY <1>1, <1>2 DEF AttemptStep

LEMMA PrLeads == ASSUME PrStep PROVE Elsewhere
  <1> USE DEF Goto, Failed, ShipFailed, Finish, ParkExit, QuarantineExit, ReviewPcs
  <1>1. ASSUME preparePrShipFreshness PROVE Elsewhere
    BY <1>1 DEF Elsewhere, preparePrShipFreshness, MergeStillOpen, Fetched, NotFetched
  <1>2. ASSUME Repair \/ Revision PROVE Elsewhere
    BY <1>2, StepLeads DEF Elsewhere, Repair, Revision, At, GoesOn
  <1>3. ASSUME runFreshnessGates \/ Retype PROVE Elsewhere
    BY <1>3 DEF Elsewhere, runFreshnessGates, Retype, LinksHold
  <1>4. ASSUME runColdPrReviewPreflight PROVE Elsewhere
    BY <1>4 DEF Elsewhere, runColdPrReviewPreflight, HeadMoved, LinksHold, Reviewed
  <1>5. ASSUME ShipAgent PROVE Elsewhere
    BY <1>5 DEF Elsewhere, ShipAgent, BodyStays, DecideAgain
  <1>6. ASSUME Squash \/ CommitSquash \/ PushBranch \/ UpsertPr \/ AutoMerge \/ Shipped
        PROVE  Elsewhere
    BY <1>6 DEF Elsewhere, Squash, CommitSquash, PushBranch, UpsertPr, AutoMerge, Shipped, Effect, EffectFails
  <1> QED
    BY <1>1, <1>2, <1>3, <1>4, <1>5, <1>6 DEF PrStep

LEMMA DirectLeads == ASSUME DirectStep PROVE Elsewhere
  <1> USE DEF Elsewhere, Failed, ReviewPcs
  <1>1. CASE Merge
    <2>1. pc = "merge"
      BY <1>1 DEF Merge
    <2>2. \E m, b, ok, marker : Merges(m, b, ok, marker)
      BY <1>1 DEF Merge
    <2> QED
      BY <2>1, <2>2 DEF Merges, ShipFailed, ParkExit, QuarantineExit, Finish, Goto
  <1>2. CASE Shipwreck
    BY <1>2 DEF Shipwreck, Finish, Goto
  <1>3. CASE captureShipState \/ MarkDone \/ PushMain
    BY <1>3 DEF Finish, Goto, captureShipState, MarkDone, PushMain, PushRejected, Tail
  <1>4. CASE RemoveWorktree \/ DeleteBranch \/ DeleteClaim \/ CleanedUp
    BY <1>4 DEF Finish, Goto, RemoveWorktree, DeleteBranch, DeleteClaim, CleanedUp, Tail
  <1> QED
    BY <1>1, <1>2, <1>3, <1>4 DEF DirectStep

\* The Judge's ruling, or its failure, is an outcome that says what is left.
LEMMA RulingOutcome ==
  ASSUME NEW survivors \in SUBSET Findings, NEW unfixable, NEW dissent
  PROVE  LET o == classifyReviewOutcome(survivors, unfixable, dissent)
         IN  /\ o \in Outcomes \ {"none", "threw"}
             /\ o = "converged" => survivors = {}
             /\ o = "dissent" => survivors \cap Safety = {}
  BY DEF classifyReviewOutcome, Outcomes

\* The steps of the review preserve its invariant and keep the safety findings.
LEMMA ReviewLoop ==
  ASSUME LoopInv, ReviewStep
  PROVE  LoopInv' /\ (pc \in ReviewPcs /\ pc' \in ReviewPcs => rv.carried \cap Safety \subseteq (rv.carried)')
  <1> DEFINE Stay == pc \in ReviewPcs /\ pc' \in ReviewPcs => rv.carried \cap Safety \subseteq (rv.carried)'
  <1>0. rv \in Review
    BY DEF LoopInv
  <1>1. CASE ShakedownCode
    <2>1. pc = "shakedown-code" /\ rv' = rv
      BY <1>1 DEF ShakedownCode, At, reviewVars
    <2>2. pc' \in {"idle", "shakedown-code", "ship"}
      BY <1>1, <2>1, StepLeads DEF ShakedownCode, GoesOn, Goto
    <2> QED
      BY <1>0, <2>1, <2>2 DEF LoopInv, OutcomeInv, ReviewPcs
  <1>2. CASE Admit
    <2>1. pc = "shakedown-code"
      BY <1>2 DEF Admit
    <2>2. \/ pc' \in {"idle", "ship"} /\ rv' = rv
          \/ pc' = "seats" /\ rv' = [NoReview EXCEPT !.pass = 1]
      BY <1>2 DEF Admit, ParkExit, Failed, Finish, Goto
    <2>3. [NoReview EXCEPT !.pass = 1] \in Review /\ [NoReview EXCEPT !.pass = 1].split = FALSE
      BY DEF NoReview, Review, Outcomes
    <2> QED
      BY <1>0, <2>1, <2>2, <2>3 DEF LoopInv, OutcomeInv, ReviewPcs
  <1>3. CASE BudgetEnds
    <2>1. pc = "seats" /\ pc' = "teardown" /\ rv' = [rv EXCEPT !.outcome = "budget"]
      BY <1>3 DEF BudgetEnds, LoopEnds, Goto
    <2>2. rv.split = FALSE
      BY <2>1 DEF LoopInv
    <2>3. rv' \in Review /\ rv'.outcome = "budget" /\ rv'.split = FALSE /\ rv'.carried = rv.carried
      BY <1>0, <2>1, <2>2 DEF Review, Outcomes
    <2> QED
      BY <2>1, <2>3 DEF LoopInv, OutcomeInv
  <1>4. CASE SeatsSettle
    <2>1. pc = "seats" /\ rv.split = FALSE
      BY <1>4 DEF SeatsSettle, LoopInv
    <2>2. PICK seat \in [Reviewers -> SeatResults] :
            \/ /\ pc' = "teardown"
               /\ \E parks : rv' = [rv EXCEPT !.outcome = IF parks THEN "budget" ELSE "hard-block",
                                             !.carried = IF parks THEN Discovered(seat) ELSE @]
            \/ /\ pc' = "teardown"
               /\ rv' = [rv EXCEPT !.outcome = IF Discovered(seat) \cap Safety # {} THEN "hard-block" ELSE "dissent",
                                   !.carried = Discovered(seat), !.split = TRUE]
            \/ pc' = "judge" /\ rv' = [rv EXCEPT !.carried = Discovered(seat)]
      BY <1>4 DEF SeatsSettle, LoopEnds, Goto
    <2>3. Discovered(seat) \in SUBSET Findings /\ rv.carried \subseteq Discovered(seat)
      BY <1>0 DEF Discovered, SeatResults, Review
    <2>4. CASE /\ pc' = "teardown"
               /\ \E parks : rv' = [rv EXCEPT !.outcome = IF parks THEN "budget" ELSE "hard-block",
                                             !.carried = IF parks THEN Discovered(seat) ELSE @]
      <3>1. PICK o \in {"budget", "hard-block"}, cands \in {rv.carried, Discovered(seat)} :
               rv' = [rv EXCEPT !.outcome = o, !.carried = cands]
        BY <2>4
      <3>2. /\ rv' \in Review /\ rv'.outcome = o /\ rv'.split = FALSE
            /\ rv.carried \subseteq rv'.carried
        BY <1>0, <2>1, <2>3, <3>1 DEF Review, Outcomes
      <3> QED
        BY <2>1, <2>4, <3>2 DEF LoopInv, OutcomeInv
    <2>5. CASE /\ pc' = "teardown"
               /\ rv' = [rv EXCEPT !.outcome = IF Discovered(seat) \cap Safety # {} THEN "hard-block" ELSE "dissent",
                                   !.carried = Discovered(seat), !.split = TRUE]
      BY <1>0, <2>1, <2>3, <2>5 DEF LoopInv, OutcomeInv, Review, Outcomes
    <2>6. CASE pc' = "judge" /\ rv' = [rv EXCEPT !.carried = Discovered(seat)]
      BY <1>0, <2>1, <2>3, <2>6 DEF LoopInv, OutcomeInv, Review
    <2> QED
      BY <2>2, <2>4, <2>5, <2>6
  <1>5. CASE Judge
    <2>1. pc = "judge" /\ rv.split = FALSE
      BY <1>5 DEF Judge, LoopInv
    <2>2. \E survive \in SUBSET rv.carried : \E valid, limited, unfixable, dissent, busy :
             LET kept == IF valid THEN KeptByJudge(rv.carried, survive) ELSE rv.carried
             IN  Ruled(kept, IF busy THEN "budget" ELSE classifyReviewOutcome(kept, unfixable, dissent),
                       unfixable, valid, limited)
      BY <1>5 DEF Judge
    <2>3. ASSUME NEW survive \in SUBSET rv.carried, NEW valid
          PROVE  LET kept == IF valid THEN KeptByJudge(rv.carried, survive) ELSE rv.carried
                 IN  kept \in SUBSET rv.carried /\ rv.carried \cap Safety \subseteq kept
      BY DEF KeptByJudge
    <2>4. PICK kept \in SUBSET rv.carried :
             /\ rv.carried \cap Safety \subseteq kept
             /\ \E valid, limited, unfixable, dissent, busy :
                   Ruled(kept, IF busy THEN "budget" ELSE classifyReviewOutcome(kept, unfixable, dissent),
                         unfixable, valid, limited)
      BY <2>2, <2>3
    <2>4a. PICK valid, limited, unfixable, dissent, busy :
             Ruled(kept, IF busy THEN "budget" ELSE classifyReviewOutcome(kept, unfixable, dissent),
                   unfixable, valid, limited)
      BY <2>4
    <2> DEFINE o == IF busy THEN "budget" ELSE classifyReviewOutcome(kept, unfixable, dissent)
    <2>5. /\ o \in Outcomes \ {"none", "threw"}
          /\ o = "converged" => kept = {}
          /\ o = "dissent" => kept \cap Safety = {}
      BY <1>0, RulingOutcome DEF Outcomes, Review
    <2> HIDE DEF o
    <2>6. \/ pc' = "teardown" /\ rv' = [rv EXCEPT !.outcome = o, !.carried = kept]
          \/ pc' = "revise" /\ rv' = [rv EXCEPT !.carried = kept]
      BY <2>4a DEF o, Ruled, LoopEnds, Goto
    <2> QED
      BY <1>0, <2>1, <2>4, <2>5, <2>6 DEF LoopInv, OutcomeInv, Review
  <1>6. CASE Revise
    <2>1. pc = "revise" /\ rv.split = FALSE
      BY <1>6 DEF Revise, LoopInv
    <2>2. \/ /\ pc' = "teardown"
             /\ \E o \in {"threw", "budget", "hard-block"} : rv' = [rv EXCEPT !.outcome = o]
          \/ pc' = "seats" /\ rv' = [rv EXCEPT !.pass = @ + 1, !.revisions = @ + 1]
      BY <1>6 DEF Revise, LoopEnds, Goto
    <2>3. CASE pc' = "seats" /\ rv' = [rv EXCEPT !.pass = @ + 1, !.revisions = @ + 1]
      <3>1. rv' \in Review /\ rv'.carried = rv.carried /\ rv'.split = FALSE
        <4> DEFINE p == rv.pass + 1
                   n == rv.revisions + 1
        <4>1. p \in Nat /\ n \in Nat
          BY <1>0 DEF Review
        <4>2. rv' = [rv EXCEPT !.pass = p, !.revisions = n]
          BY <2>3
        <4> HIDE DEF p, n
        <4> QED
          BY <1>0, <2>1, <4>1, <4>2 DEF Review
      <3> QED
        BY <2>1, <2>3, <3>1 DEF LoopInv, OutcomeInv
    <2>4. ASSUME NEW o \in {"threw", "budget", "hard-block"}, pc' = "teardown",
                 rv' = [rv EXCEPT !.outcome = o]
          PROVE  LoopInv' /\ Stay
      <3>1. rv' \in Review /\ rv'.carried = rv.carried /\ rv'.split = FALSE /\ rv'.outcome = o
        BY <1>0, <2>1, <2>4 DEF Review, Outcomes
      <3> QED
        BY <2>1, <2>4, <3>1 DEF LoopInv, OutcomeInv
    <2> QED
      BY <2>2, <2>3, <2>4
  <1>7. CASE Teardown
    <2>1. pc = "teardown"
      BY <1>7 DEF Teardown
    <2>2. \/ pc' = "idle" /\ rv' = NoReview
          \/ pc' \in {"escalate", "notify"} /\ rv' = rv /\ rv.outcome # "threw"
      BY <1>7 DEF Teardown, EscapesLoop, ParkExit, Finish, Goto
    <2> QED
      BY <1>0, <2>1, <2>2, NoReviewType DEF LoopInv, OutcomeInv, ReviewPcs
  <1>8. CASE Escalate \/ Record
    <2>1. /\ pc \in {"escalate", "record"} /\ pc' \in {"notify", "record"}
          /\ rv' = rv \/ rv' = [rv EXCEPT !.writeFailed = TRUE]
      BY <1>8 DEF Escalate, Record, Goto
    <2>2. /\ rv' \in Review /\ rv'.outcome = rv.outcome /\ rv'.carried = rv.carried
          /\ rv'.split = rv.split
      BY <1>0, <2>1 DEF Review
    <2> QED
      BY <2>1, <2>2 DEF LoopInv, OutcomeInv
  <1>9. CASE Decide
    <2>1. pc = "notify" /\ pc' \in {"idle", "ship"} /\ rv' = NoReview
      BY <1>9 DEF Decide, EscapesLoop, ParkExit, Failed, Finish, Goto
    <2> QED
      BY <2>1, NoReviewType DEF LoopInv, OutcomeInv, ReviewPcs
  <1> QED
    BY <1>1, <1>2, <1>3, <1>4, <1>5, <1>6, <1>7, <1>8, <1>9 DEF ReviewStep

\* Every step preserves the invariant of the loop, and what stands before the ship is what
\* it says.
LEMMA LoopStep ==
  ASSUME IInv, LoopInv, [Next]_vars
  PROVE  /\ LoopInv'
         /\ pc \in ReviewPcs /\ pc' \in ReviewPcs => rv.carried \cap Safety \subseteq (rv.carried)'
  <1>1. CASE UNCHANGED vars
    BY <1>1 DEF vars, attemptVars, reviewVars, LoopInv, OutcomeInv
  <1>2. CASE Start \/ WaitOut \/ Resume
    <2>1. pc = "idle" /\ rv' = rv
      BY <1>2 DEF Start, WaitOut, Resume, Enter
    <2>2. pc' \in Pipeline
      BY <1>2, ResumesAtStep, CycleAssumption DEF Start, WaitOut, Resume, Enter, Pipeline
    <2> QED
      BY <2>1, <2>2 DEF LoopInv, OutcomeInv, ReviewPcs, Pipeline
  <1>3. CASE Crash
    BY <1>3, NoReviewType DEF Crash, LoopInv, OutcomeInv, ReviewPcs
  <1>4. CASE Environment
    <2>1. pc' = pc /\ rv' = rv
      BY <1>4 DEF Environment, PeerParks, UpstreamMoves, PeerFetches, PeerMovesMain, OperatorResolves,
                  attemptVars, reviewVars
    <2> QED
      BY <2>1 DEF LoopInv, OutcomeInv
  <1>5. CASE Work
    <2>1. CASE ReviewStep
      BY <2>1, ReviewLoop
    <2>2. CASE (AttemptStep \/ PrStep \/ DirectStep) /\ UNCHANGED reviewVars
      BY <2>2, AttemptLeads, PrLeads, DirectLeads DEF Elsewhere, LoopInv, OutcomeInv, ReviewPcs, reviewVars
    <2> QED
      BY <1>5, <2>1, <2>2 DEF Work
  <1> QED
    BY <1>1, <1>2, <1>3, <1>4, <1>5 DEF Next

LEMMA SpecLoopInv == Spec => []LoopInv
  <1>1. Init => LoopInv
    BY NoReviewType DEF Init, LoopInv, OutcomeInv
  <1> QED
    BY <1>1, LoopStep, SpecIInv, PTL DEF Spec

\* A safety finding stays for as long as the loop runs.
THEOREM SafetyStays == Spec => SafetyFindingsStay
  <1>1. IInv /\ LoopInv /\ [Next]_vars =>
           [(pc \in ReviewPcs /\ pc' \in ReviewPcs) => rv.carried \cap Safety \subseteq (rv.carried)']_vars
    BY LoopStep
  <1> QED
    BY <1>1, SpecIInv, SpecLoopInv, PTL DEF Spec, SafetyFindingsStay

\* The two ways that the review lets an attempt on to ship.
LEMMA LetOn ==
  ASSUME LoopInv, ReviewStep, authoring = TRUE, pc' = "ship"
  PROVE  /\ pc \in ReviewPcs =>
              /\ rv.carried \cap Safety = {}
              /\ target = "direct-push" => rv.carried = {}
              /\ rv.split => lookupReviewEscalation(br) = "proceed"
         /\ pc = "shakedown-code" => lookupReviewEscalation(br) = "proceed" /\ ~br.esc.safety
  <1>1. CASE Admit
    BY <1>1 DEF Admit, Acknowledges, ParkExit, Failed, Finish, Goto, ReviewPcs
  <1>2. CASE Decide
    <2>1. pc = "notify" /\ ~EscalationParks /\ ~OutcomeParks
      BY <1>2 DEF Decide, EscapesLoop, ParkExit, Failed, Finish
    <2>2. rv \in Review /\ rv.outcome \in {"converged", "dissent"}
      BY <2>1 DEF LoopInv, OutcomeInv, OutcomeParks, Review, Outcomes
    <2>3. rv.carried \cap Safety = {} /\ (target = "direct-push" => rv.carried = {})
      BY <2>1, <2>2 DEF LoopInv, OutcomeInv, OutcomeParks
    <2>4. rv.split => lookupReviewEscalation(br) = "proceed"
      BY <2>1 DEF EscalationParks
    <2> QED
      BY <2>1, <2>3, <2>4
  <1>3. ASSUME ~Admit, ~Decide PROVE FALSE
    BY <1>3 DEF ReviewStep, ShakedownCode, BudgetEnds, SeatsSettle, Judge, Ruled, Revise, Teardown,
                Escalate, Record, LoopEnds, EscapesLoop, ParkExit, Finish, Goto
  <1> QED
    BY <1>1, <1>2, <1>3

\* The review lets an attempt on to ship only over what the operator or the Judge disposed of.
THEOREM ReviewStands == Spec => ReviewStandsBeforeShip
  <1>1. ASSUME IInv, LoopInv, Next, authoring, pc' = "ship"
        PROVE  /\ pc \in ReviewPcs =>
                    /\ rv.carried \cap Safety = {}
                    /\ target = "direct-push" => rv.carried = {}
                    /\ rv.split => lookupReviewEscalation(br) = "proceed"
               /\ pc = "shakedown-code" => lookupReviewEscalation(br) = "proceed" /\ ~br.esc.safety
    <2>1. CASE ReviewStep
      BY <1>1, <2>1, LetOn
    <2>2. CASE AttemptStep \/ PrStep \/ DirectStep
      BY <1>1, <2>2, AttemptLeads, PrLeads, DirectLeads DEF Elsewhere
    <2>3. CASE Start \/ WaitOut \/ Resume \/ Crash
      BY <1>1, <2>3 DEF Start, WaitOut, Resume, Enter, Crash, ReviewPcs
    <2>4. CASE Environment
      <3>1. pc' = pc
        BY <2>4 DEF Environment, PeerParks, UpstreamMoves, PeerFetches, PeerMovesMain,
                    OperatorResolves, attemptVars
      <3> QED
        BY <1>1, <3>1 DEF ReviewPcs
    <2> QED
      BY <1>1, <2>1, <2>2, <2>3, <2>4 DEF Next, Work
  <1>2. IInv /\ LoopInv /\ [Next]_vars =>
           [authoring /\ pc' = "ship" =>
              /\ pc \in ReviewPcs =>
                    /\ rv.carried \cap Safety = {}
                    /\ target = "direct-push" => rv.carried = {}
                    /\ rv.split => lookupReviewEscalation(br) = "proceed"
              /\ pc = "shakedown-code" => lookupReviewEscalation(br) = "proceed" /\ ~br.esc.safety]_vars
    BY <1>1
  <1> QED
    BY <1>2, SpecIInv, SpecLoopInv, PTL DEF Spec, ReviewStandsBeforeShip

-----------------------------------------------------------------------------
(* The types.                                                              *)

\* Where an attempt is, and how often its step was tried.
Counts ==
    /\ pc \in {"idle"} \cup RunPcs /\ out \in Results /\ park \in BOOLEAN
    /\ try \in 1..MaxAttempts \cup {2} /\ flaky \in 0..(MaxTransient - 1)

\* A step goes on at a step, with its counts reset.
LEMMA GotoCounts ==
  ASSUME Counts, NEW where \in RunPcs, NEW ran, Goto(where, ran), park' \in BOOLEAN
  PROVE  Counts'
  BY AttemptAssumption DEF Goto, Counts

\* An attempt that ends, whichever way.
LEMMA FinishCounts ==
  ASSUME Counts, NEW outcome \in Results, NEW ran, NEW shipFailed, Finish(outcome, ran, shipFailed)
  PROVE  Counts'
  <1>1. 1 \in 1..MaxAttempts /\ 0 \in 0..(MaxTransient - 1)
    BY AttemptAssumption
  <1>2. pc' = "idle" /\ try' = 1 /\ flaky' = 0 /\ park' = FALSE /\ out' = outcome
    BY DEF Finish
  <1> QED
    BY <1>1, <1>2 DEF Counts

LEMMA EndCounts ==
  ASSUME Counts, NEW ran, NEW b,
         \/ Failed(ran) \/ ShipFailed(ran) \/ QuarantineExit(ran, b)
         \/ ParkExit("parked", ran, b) \/ ParkExit("held", ran, b)
  PROVE  Counts'
  <1>1. {"failed", "parked", "held", "halted", "blocked"} \subseteq Results
    BY DEF Results
  <1>2. CASE Failed(ran) \/ ShipFailed(ran)
    BY <1>1, <1>2, FinishCounts DEF Failed, ShipFailed
  <1>3. CASE ParkExit("parked", ran, b) \/ ParkExit("held", ran, b)
    BY <1>1, <1>3, FinishCounts DEF ParkExit
  <1>4. CASE QuarantineExit(ran, b)
    <2>1. PICK outcome \in {"halted", "blocked"} : Finish(outcome, ran, FALSE)
      BY <1>4 DEF QuarantineExit
    <2> QED
      BY <1>1, <2>1, FinishCounts
  <1> QED
    BY <1>2, <1>3, <1>4

\* A step is tried at most MaxAttempts times, and passes at most MaxTransient - 1 errors over.
LEMMA RetryCounts ==
  ASSUME Counts, NEW name, NEW b, NEW c, runStepWithRetry(name, b, c)
  PROVE  Counts'
  <1>1. ASSUME NEW ran, Retry(ran), UNCHANGED park PROVE Counts'
    BY <1>1, AttemptAssumption DEF Retry, Counts
  <1>2. ASSUME NEW ran, Retry(ran) PROVE UNCHANGED park
    BY <1>2 DEF Retry
  <1> QED
    BY <1>1, <1>2, EndCounts DEF runStepWithRetry, Confinement, NotOk

LEMMA OkCounts ==
  ASSUME Counts, NEW name, NEW c, NEW where \in RunPcs, GoesOn(name, c, where)
  PROVE  Counts'
  BY GotoCounts DEF GoesOn, Counts

LEMMA AttemptCounts == ASSUME Counts, AttemptStep PROVE Counts'
  <1>0. park \in BOOLEAN /\ Pipeline \cup {"fresh", "capture"} \subseteq RunPcs
    BY DEF Counts, RunPcs
  <1>1. CASE Plan \/ ShakedownPlan \/ Implement
    BY <1>0, <1>1, RetryCounts, OkCounts, EndCounts DEF Plan, ShakedownPlan, Implement, Pipeline
  <1>2. CASE AssignmentFails \/ PlanSkipped \/ EnterShip
    BY <1>0, <1>2, GotoCounts, EndCounts DEF AssignmentFails, PlanSkipped, EnterShip, Pipeline
  <1>3. CASE Pick
    <2>1. ASSUME NEW outcome \in Results, Unclaimed(outcome) PROVE Counts'
      BY <2>1 DEF Unclaimed, Counts
    <2> QED
      BY <1>0, <1>3, <2>1, GotoCounts, EndCounts DEF Pick, Pipeline, Results
  <1> QED
    BY <1>1, <1>2, <1>3 DEF AttemptStep

LEMMA ReviewCounts == ASSUME Counts, ReviewStep PROVE Counts'
  <1>0. park \in BOOLEAN /\ ReviewPcs \cup {"ship"} \subseteq RunPcs
    BY DEF Counts, RunPcs, Pipeline
  <1>1. CASE ShakedownCode
    BY <1>0, <1>1, RetryCounts, OkCounts DEF ShakedownCode
  <1>2. CASE Admit \/ BudgetEnds \/ Teardown \/ Escalate \/ Record \/ Decide
    BY <1>0, <1>2, GotoCounts, EndCounts DEF Admit, BudgetEnds, Teardown, Escalate, Record, Decide, LoopEnds,
         EscapesLoop, ReviewPcs
  <1>3. ASSUME NEW limited \in Limits PROVE (park \/ limited) \in BOOLEAN
    BY <1>0, <1>3 DEF Limits
  <1>4. CASE SeatsSettle
    <2>1. /\ park' \in BOOLEAN
          /\ \E where \in {"teardown", "judge"} : \E ran : Goto(where, ran)
      BY <1>3, <1>4 DEF SeatsSettle, LoopEnds
    <2> QED
      BY <1>0, <2>1, GotoCounts DEF ReviewPcs
  <1>5. CASE Judge
    <2>1. \E kept, outcome, unfixable, valid, limited : Ruled(kept, outcome, unfixable, valid, limited)
      BY <1>5 DEF Judge
    <2>2. \E where \in {"teardown", "revise"} : \E ran : Goto(where, ran)
      BY <2>1 DEF Ruled, LoopEnds
    <2>3. park' \in BOOLEAN
      BY <1>3, <1>5 DEF Judge
    <2> QED
      BY <1>0, <2>2, <2>3, GotoCounts DEF ReviewPcs
  <1>6. CASE Revise
    <2>1. park' \in BOOLEAN
      BY <1>3, <1>6 DEF Revise
    <2>2. \E where \in {"teardown", "seats"} : \E ran : Goto(where, ran)
      BY <1>6 DEF Revise, LoopEnds
    <2> QED
      BY <1>0, <2>1, <2>2, GotoCounts DEF ReviewPcs
  <1> QED
    BY <1>1, <1>2, <1>4, <1>5, <1>6 DEF ReviewStep

LEMMA PrCounts == ASSUME Counts, PrStep PROVE Counts'
  <1>0. park \in BOOLEAN /\ PrPcs \subseteq RunPcs
    BY DEF Counts, RunPcs, PrPcs
  <1> USE DEF PrPcs
  <1>1. CASE Repair \/ Revision
    BY <1>0, <1>1, RetryCounts, OkCounts, EndCounts DEF Repair, Revision
  <1>2. CASE preparePrShipFreshness
    BY <1>0, <1>2, GotoCounts, EndCounts DEF preparePrShipFreshness, MergeStillOpen, Fetched, NotFetched
  <1>3. CASE runFreshnessGates \/ Retype
    BY <1>0, <1>3, GotoCounts, EndCounts DEF runFreshnessGates, Retype, LinksHold
  <1>4. CASE runColdPrReviewPreflight
    BY <1>0, <1>4, GotoCounts, EndCounts DEF runColdPrReviewPreflight, HeadMoved, LinksHold, Reviewed
  <1>5. CASE ShipAgent
    <2>1. ASSUME NEW ran, DecideAgain(ran) PROVE Counts'
      BY <2>1 DEF DecideAgain, Counts
    <2> QED
      BY <1>0, <1>5, <2>1, GotoCounts, EndCounts DEF ShipAgent, BodyStays
  <1>6. CASE Squash \/ CommitSquash \/ PushBranch \/ UpsertPr \/ AutoMerge
    BY <1>0, <1>6, GotoCounts, EndCounts DEF Squash, CommitSquash, PushBranch, UpsertPr, AutoMerge, EffectFails
  <1>7. CASE Shipped
    BY <1>7, EndCounts, FinishCounts DEF Shipped, EffectFails, Results
  <1> QED
    BY <1>1, <1>2, <1>3, <1>4, <1>5, <1>6, <1>7 DEF PrStep

LEMMA DirectCounts == ASSUME Counts, DirectStep PROVE Counts'
  <1>0. park \in BOOLEAN /\ DirectPcs \subseteq RunPcs
    BY DEF Counts, RunPcs, DirectPcs
  <1> USE DEF DirectPcs
  <1>1. CASE captureShipState \/ MarkDone \/ PushMain
    BY <1>0, <1>1, GotoCounts, EndCounts DEF captureShipState, MarkDone, PushMain, PushRejected
  <1>5. CASE RemoveWorktree \/ DeleteBranch \/ DeleteClaim
    BY <1>0, <1>5, GotoCounts DEF RemoveWorktree, DeleteBranch, DeleteClaim
  <1>2. CASE Merge
    <2>1. PICK m, b, ok, marker : Merges(m, b, ok, marker)
      BY <1>2 DEF Merge
    <2> QED
      BY <1>0, <2>1, GotoCounts, EndCounts DEF Merges
  <1>3. CASE Shipwreck
    BY <1>0, <1>3, GotoCounts, FinishCounts DEF Shipwreck, Results
  <1>4. CASE CleanedUp
    BY <1>4, FinishCounts DEF CleanedUp, Results
  <1> QED
    BY <1>1, <1>2, <1>3, <1>4, <1>5 DEF DirectStep

LEMMA CountsStep == IInv /\ Counts /\ [Next]_vars => Counts'
  <1> SUFFICES ASSUME IInv, Counts, [Next]_vars PROVE Counts'
    OBVIOUS
  <1>1. CASE Work
    BY <1>1, AttemptCounts, ReviewCounts, PrCounts, DirectCounts DEF Work
  <1>2. CASE Environment
    BY <1>2 DEF Counts, Environment, PeerParks, UpstreamMoves, PeerFetches, PeerMovesMain, OperatorResolves, attemptVars
  <1>3. CASE Start \/ WaitOut \/ Resume
    <2>1. \E where \in Pipeline : Enter(where)
      BY <1>3, ResumesAtStep, CycleAssumption DEF Start, WaitOut, Resume, Pipeline
    <2> QED
      BY <2>1 DEF Enter, Counts, RunPcs, Results
  <1>4. CASE Crash
    <2>1. 1 \in 1..MaxAttempts /\ 0 \in 0..(MaxTransient - 1)
      BY AttemptAssumption
    <2>2. pc' = "idle" /\ try' = 1 /\ flaky' = 0 /\ park' = FALSE /\ out' = "crashed"
      BY <1>4 DEF Crash
    <2> QED
      BY <2>1, <2>2 DEF Counts, Results
  <1>5. CASE UNCHANGED vars
    BY <1>5 DEF Counts, vars, attemptVars
  <1> QED
    BY <1>1, <1>2, <1>3, <1>4, <1>5 DEF Next

\* How far a branch is behind: no commit, checkpoint or agent brings in what main does not have.
Within(b, n) == b.base \in 0..n /\ b.incoming \in 0..n

LEMMA CommitWithin ==
  ASSUME NEW n \in Nat, NEW b, Good(b), Within(b, n), NEW by
  PROVE  Within(Commit(b, by), n)
  <1>1. CASE ~Dirty(b)
    BY <1>1 DEF Commit
  <1>2. CASE Dirty(b)
    <2>1. /\ Commit(b, by).base = (IF b.merge = "none" THEN b.base ELSE b.incoming)
          /\ Commit(b, by).incoming = 0
      BY <1>2 DEF Commit, Good, Branch
    <2> QED
      BY <2>1 DEF Within
  <1> QED
    BY <1>1, <1>2

LEMMA CheckpointWithin ==
  ASSUME NEW n \in Nat, NEW b, Good(b), Within(b, n), NEW c \in Checkpoint(b)
  PROVE  Within(c, n)
  BY CommitWithin DEF Checkpoint

LEMMA WorksWithin ==
  ASSUME NEW n \in Nat, NEW b, Good(b), Within(b, n), NEW what \in {"plan", "code"}, NEW c \in Works(b, what)
  PROVE  Within(c, n)
  <1>1. CASE b.merge = "none"
    <2>1. Good(Edited(b, what)) /\ Within(Edited(b, what), n)
      BY <1>1 DEF Edited, Good, Branch, Within
    <2> QED
      BY <1>1, <2>1, CommitWithin DEF Works
  <1>2. CASE b.merge # "none"
    <2> DEFINE t(m) == [b EXCEPT !.merge = "added", !.marked = m]
    <2>1. ASSUME NEW m \in {b.marked, FALSE} PROVE Good(t(m)) /\ Within(t(m), n)
      BY <1>2, <2>1 DEF Good, Branch, Within
    <2>2. PICK m \in {b.marked, FALSE} : c = b \/ c = t(m) \/ c = Commit(t(m), "author")
      BY <1>2 DEF Works
    <2> HIDE DEF t
    <2> QED
      BY <2>1, <2>2, CommitWithin
  <1> QED
    BY <1>1, <1>2

\* What a branch, the shared ref and a merge know of main is not ahead of main.
Bases == /\ Within(br, upstream) /\ ref \in 0..upstream /\ upstream \in 0..MaxMain
         /\ fresh \in [fetched : 0..upstream, listed : BOOLEAN, pass : 1..2]

\* What an attempt leaves behind that fetches nothing.
Based == upstream' = upstream /\ ref' = ref /\ Within(br', upstream)

LEMMA RetryBased ==
  ASSUME IInv, Bases, NEW name, NEW b, Good(b), Within(b, upstream), NEW c, Good(c), Within(c, upstream),
         runStepWithRetry(name, b, c)
  PROVE  Within(br', upstream)
  <1>1. Good(br) /\ upstream \in Nat /\ Within(br, upstream)
    BY DEF IInv, TypeInv, MarkersInv, Bases
  <1> QED
    BY <1>1, CheckpointWithin DEF runStepWithRetry, Confinement, NotOk, ParkExit, QuarantineExit

LEMMA AttemptBased == ASSUME IInv, Bases, AttemptStep PROVE Based
  <1>0. Good(br) /\ upstream \in Nat /\ Within(br, upstream)
    BY DEF IInv, TypeInv, MarkersInv, Bases
  <1>1. UNCHANGED <<ref, upstream>>
    BY DEF AttemptStep, AssignmentFails, Pick, PlanSkipped, Plan, ShakedownPlan, Implement, EnterShip, At
  <1>2. CASE AssignmentFails \/ PlanSkipped
    BY <1>0, <1>1, <1>2 DEF AssignmentFails, PlanSkipped, Failed, Based
  <1>3. CASE Pick
    BY <1>0, <1>1, <1>3 DEF Pick, Within, Good, Branch, Based
  <1>4. ASSUME NEW what \in {"plan", "code"}, NEW name, NEW where, NEW b \in Works(br, what),
               NEW c \in Checkpoint(b), runStepWithRetry(name, b, c) \/ GoesOn(name, c, where)
        PROVE  Within(br', upstream)
    BY <1>0, <1>4, WorksGood, CheckpointGood, WorksWithin, CheckpointWithin, RetryBased DEF GoesOn
  <1>5. CASE Plan \/ Implement
    <2>1. Within(br', upstream)
      BY <1>4, <1>5 DEF Plan, Implement
    <2> QED
      BY <1>1, <2>1 DEF Based
  <1>6. CASE ShakedownPlan
    <2>1. PICK b \in Works(br, "plan") : \/ runStepWithRetry("shakedown-plan", b, b)
                                         \/ GoesOn("shakedown-plan", b, "implement")
                                         \/ br' = b /\ Failed(Rethought)
      BY <1>6 DEF ShakedownPlan
    <2> QED
      BY <1>0, <1>1, <2>1, WorksGood, WorksWithin, RetryBased DEF GoesOn, Based
  <1>7. CASE EnterShip
    BY <1>0, <1>1, <1>7, CheckpointWithin DEF EnterShip, ParkExit, Based
  <1> QED
    BY <1>1, <1>2, <1>3, <1>5, <1>6, <1>7 DEF AttemptStep

LEMMA LogWithin ==
  ASSUME NEW n \in Nat, NEW b, Good(b), Within(b, n)
  PROVE  Within(CommitsLog(b), n)
  BY DEF CommitsLog, Good, Branch, Within

LEMMA ReviewBased == ASSUME IInv, Bases, ReviewStep PROVE Based
  <1>0. Good(br) /\ upstream \in Nat /\ Within(br, upstream)
    BY DEF IInv, TypeInv, MarkersInv, Bases
  <1>1. UNCHANGED <<ref, upstream>>
    BY DEF ReviewStep, ShakedownCode, At, Admit, BudgetEnds, SeatsSettle, Judge, Revise, Teardown, Escalate,
           Record, Decide
  <1>2. CASE ShakedownCode
    <2>1. PICK b \in Works(br, "code") : \E c \in Checkpoint(b) :
             runStepWithRetry("shakedown-code", b, c) \/ GoesOn("shakedown-code", c, "ship")
      BY <1>2 DEF ShakedownCode
    <2>2. PICK c \in Checkpoint(b) :
             runStepWithRetry("shakedown-code", b, c) \/ GoesOn("shakedown-code", c, "ship")
      BY <2>1
    <2> QED
      BY <1>0, <1>1, <2>2, WorksGood, CheckpointGood, WorksWithin, CheckpointWithin, RetryBased DEF GoesOn, Based
  <1>3. CASE Revise
    BY <1>0, <1>1, <1>3, WorksGood, WorksWithin, CheckpointWithin DEF Revise, Based
  <1>4. CASE Admit \/ Teardown \/ Decide
    BY <1>0, <1>1, <1>4, CheckpointWithin DEF Admit, Teardown, Decide, EscapesLoop, ParkExit, Based
  <1>5. CASE BudgetEnds \/ SeatsSettle \/ Judge
    BY <1>0, <1>1, <1>5 DEF BudgetEnds, SeatsSettle, Judge, Based
  <1>6. CASE Escalate
    BY <1>0, <1>1, <1>6 DEF Escalate, Based, Within, Good, Branch
  <1>7. CASE Record
    BY <1>0, <1>1, <1>7, LogWithin DEF Record, Based
  <1> QED
    BY <1>2, <1>3, <1>4, <1>5, <1>6, <1>7 DEF ReviewStep

\* The merge and the squash of a direct push change nothing of what the branch has of main.
LEMMA LandedWithin ==
  ASSUME NEW n \in Nat, NEW b, Good(b), Within(b, n)
  PROVE  Within(Landed(b), n)
  BY DEF Landed, Good, Branch, Within

LEMMA DirectBased == ASSUME IInv, Bases, DirectStep PROVE Based
  <1>0. Good(br) /\ upstream \in Nat /\ Within(br, upstream)
    BY DEF IInv, TypeInv, MarkersInv, Bases
  <1>1. UNCHANGED <<ref, upstream>>
    BY DEF DirectStep, captureShipState, Merge, Shipwreck, MarkDone, PushMain, RemoveWorktree, DeleteBranch,
           DeleteClaim, CleanedUp, Tail
  <1>2. CASE \/ captureShipState \/ MarkDone \/ PushMain
             \/ RemoveWorktree \/ DeleteBranch \/ DeleteClaim \/ CleanedUp
    BY <1>0, <1>1, <1>2 DEF captureShipState, MarkDone, PushMain, RemoveWorktree, DeleteBranch, DeleteClaim,
                            CleanedUp, Based
  <1>3. CASE Merge
    <2>1. ASSUME NEW m, NEW b, Good(b), Within(b, upstream), NEW ok, NEW marker, Merges(m, b, ok, marker)
          PROVE  Within(br', upstream)
      BY <1>0, <2>1, CheckpointWithin DEF Merges, ParkExit, QuarantineExit
    <2>2. PICK b \in Works(br, "code"), ok \in BOOLEAN, marker \in BOOLEAN :
             Merges(main, b, ok, marker) \/ Merges(MovesMain, Landed(b), ok, marker)
      BY <1>3 DEF Merge
    <2>3. Good(b) /\ Within(b, upstream) /\ Good(Landed(b)) /\ Within(Landed(b), upstream)
      BY <1>0, WorksGood, WorksWithin, LandedGood, LandedWithin
    <2> QED
      BY <1>1, <2>1, <2>2, <2>3 DEF Based
  <1>4. CASE Shipwreck
    <2>1. Within([br EXCEPT !.bare = FALSE], upstream)
      BY <1>0 DEF Within, Good, Branch
    <2> QED
      BY <1>0, <1>1, <1>4, <2>1, LandedWithin DEF Shipwreck, Based
  <1> QED
    BY <1>2, <1>3, <1>4 DEF DirectStep

\* A branch that is not ahead of main is not ahead of a later main.
LEMMA WithinMore ==
  ASSUME NEW n \in Nat, NEW m \in Nat, n <= m, NEW b, Within(b, n)
  PROVE  Within(b, m)
  BY DEF Within

\* What the freshness of a pull-request ship is of.
FreshTypes == [fetched : 0..upstream, listed : BOOLEAN, pass : 1..2]

LEMMA PrBased == ASSUME IInv, Bases, PrStep PROVE Bases'
  <1>0. /\ Good(br) /\ upstream \in Nat /\ Within(br, upstream) /\ ref \in 0..upstream
        /\ upstream \in 0..MaxMain /\ fresh \in FreshTypes
    BY DEF IInv, TypeInv, MarkersInv, Bases, FreshTypes
  <1>1. upstream' = upstream
    BY DEF PrStep, preparePrShipFreshness, Repair, At, runFreshnessGates, runColdPrReviewPreflight, Revision,
           Retype, ShipAgent, Squash, CommitSquash, PushBranch, UpsertPr, AutoMerge, Shipped, Effect
  <1>2. ASSUME Within(br', upstream), UNCHANGED <<ref, fresh>> PROVE Bases'
    BY <1>0, <1>1, <1>2 DEF Bases, FreshTypes
  <1>3. CASE preparePrShipFreshness
    <2>1. CASE MergeStillOpen
      <3>1. fresh' = [fetched |-> ref, listed |-> br.merge = "unmerged", pass |-> 1]
        BY <2>1 DEF MergeStillOpen
      <3>2. fresh' \in FreshTypes
        BY <1>0, <3>1 DEF FreshTypes
      <3> QED
        BY <1>0, <1>1, <2>1, <3>2 DEF MergeStillOpen, Bases, FreshTypes
    <2>2. CASE Fetched
      <3>1. Within(Merged(br), upstream) /\ Within(Conflicted(br), upstream)
        BY <1>0 DEF Merged, Conflicted, Within, Good, Branch
      <3>2. Within(br', upstream) /\ ref' = upstream
        BY <1>0, <2>2, <3>1 DEF Fetched
      <3>3. \E l \in BOOLEAN : fresh' = [fetched |-> upstream, listed |-> l, pass |-> 1]
        BY <2>2 DEF Fetched, NotFresh
      <3>4. fresh' \in FreshTypes
        BY <1>0, <3>3 DEF FreshTypes
      <3> QED
        BY <1>0, <1>1, <3>2, <3>4 DEF Bases, FreshTypes
    <2>3. CASE NotFetched
      BY <1>0, <1>1, <2>3 DEF NotFetched, Bases, FreshTypes
    <2> QED
      BY <1>3, <2>1, <2>2, <2>3 DEF preparePrShipFreshness
  <1>4. CASE Repair
    <2>1. PICK b \in Works(br, "code") : \E c \in RepairCheckpoint(b) :
          \/ runStepWithRetry("shakedown-code", b, c)
          \/ RepairComplete(c, fresh.listed) /\ GoesOn("shakedown-code", c, "gates")
          \/ ~RepairComplete(c, fresh.listed) /\ br' = c /\ Failed(Ran("shakedown-code", TRUE))
      BY <1>4 DEF Repair
    <2>2. PICK c \in RepairCheckpoint(b) : runStepWithRetry("shakedown-code", b, c) \/ br' = c
      BY <2>1 DEF GoesOn
    <2>3. Good(b) /\ Within(b, upstream)
      BY <1>0, WorksGood, WorksWithin
    <2>4. Good(c) /\ Within(c, upstream)
      BY <1>0, <2>3, CheckpointGood, CheckpointWithin DEF RepairCheckpoint
    <2>5. Within(br', upstream)
      BY <2>2, <2>3, <2>4, RetryBased
    <2> QED
      BY <1>2, <1>4, <2>5 DEF Repair, At, prVars
  <1>5. CASE Revision
    <2>1. PICK b \in Works(br, "code") : \E c \in Checkpoint(b) :
          runStepWithRetry("shakedown-code", b, c) \/ GoesOn("shakedown-code", c, "retype")
      BY <1>5 DEF Revision
    <2>2. PICK c \in Checkpoint(b) : runStepWithRetry("shakedown-code", b, c) \/ br' = c
      BY <2>1 DEF GoesOn
    <2>3. Good(b) /\ Within(b, upstream) /\ Good(c) /\ Within(c, upstream)
      BY <1>0, WorksGood, WorksWithin, CheckpointGood, CheckpointWithin
    <2>4. Within(br', upstream)
      BY <2>2, <2>3, RetryBased
    <2> QED
      BY <1>2, <1>5, <2>4 DEF Revision, At, prVars
  <1>6. CASE runFreshnessGates \/ Retype
    <2>1. /\ Within([br EXCEPT !.facts = @ \cup {"typechecked", "recorded"}], upstream)
          /\ Within(Retyped(br), upstream)
      BY <1>0 DEF Retyped, Within, Good, Branch
    <2>2. Within(br', upstream)
      BY <1>0, <1>6, <2>1, CheckpointWithin DEF runFreshnessGates, Retype, LinksHold, ParkExit
    <2> QED
      BY <1>2, <1>6, <2>2 DEF runFreshnessGates, Retype, prVars
  <1>7. CASE runColdPrReviewPreflight
    <2>1. CASE Reviewed
      <3>1. \E F \in SUBSET Facts : br' = [br EXCEPT !.facts = F]
        BY <1>0, <2>1 DEF Reviewed, Good, Branch, Facts
      <3>2. Within(br', upstream)
        BY <1>0, <3>1 DEF Within, Good, Branch
      <3>3. \E p \in 1..2 : fresh' = [fresh EXCEPT !.pass = p]
        BY <2>1 DEF Reviewed
      <3>4. fresh' \in FreshTypes
        BY <1>0, <3>3 DEF FreshTypes
      <3> QED
        BY <1>0, <1>1, <1>7, <3>2, <3>4 DEF runColdPrReviewPreflight, Bases, FreshTypes
    <2>2. CASE HeadMoved
      <3>1. Good(Edited(br, "code")) /\ Within(Edited(br, "code"), upstream)
        BY <1>0 DEF Edited, Good, Branch, Within
      <3> QED
        BY <1>0, <1>2, <1>7, <2>2, <3>1, CommitWithin DEF HeadMoved, runColdPrReviewPreflight
    <2>3. CASE ~Reviewed /\ ~HeadMoved
      <3>1. Within(br', upstream) /\ UNCHANGED fresh
        BY <1>0, <1>7, <2>3, CheckpointWithin DEF runColdPrReviewPreflight, LinksHold, ParkExit
      <3> QED
        BY <1>2, <1>7, <3>1 DEF runColdPrReviewPreflight
    <2> QED
      BY <2>1, <2>2, <2>3
  <1>8. CASE ShipAgent
    <2>1. ASSUME BodyStays PROVE Within(br', upstream)
      BY <1>0, <2>1, CheckpointWithin DEF BodyStays, ParkExit
    <2>2. ASSUME NEW b \in Works(br, "code"), NEW ran,
                 br' = b \/ ParkExit("parked", ran, b) \/ QuarantineExit(ran, b)
          PROVE  Within(br', upstream)
      BY <1>0, <2>2, WorksGood, WorksWithin, CheckpointWithin DEF ParkExit, QuarantineExit
    <2>3. Within(br', upstream)
      BY <1>8, <2>1, <2>2 DEF ShipAgent
    <2> QED
      BY <1>2, <1>8, <2>3 DEF ShipAgent, prVars
  <1>9. CASE Squash \/ CommitSquash \/ PushBranch \/ UpsertPr \/ AutoMerge \/ Shipped
    <2>1. ASSUME NEW outcome, NEW ran, ParkExit(outcome, ran, br) PROVE Within(br', upstream)
      BY <1>0, <2>1, CheckpointWithin DEF ParkExit
    <2>2. EffectFails => Within(br', upstream)
      BY <1>0, <2>1 DEF EffectFails
    <2>3. Within([br EXCEPT !.dirty = {"code"}, !.bare = TRUE, !.esc = NoEsc], upstream)
      BY <1>0 DEF Within, Good, Branch
    <2>4. Within([br EXCEPT !.facts = @ \cup {"pushed"}], upstream)
      BY <1>0 DEF Within, Good, Branch
    <2>5. Within([Commit(br, "harness") EXCEPT !.facts = br.facts \cap {"typechecked", "preflighted"}], upstream)
      <3>1. Within(Commit(br, "harness"), upstream)
        BY <1>0, CommitWithin
      <3>2. CASE ~Dirty(br)
        BY <1>0, <3>2 DEF Commit, Within, Good, Branch
      <3>3. CASE Dirty(br)
        BY <1>0, <3>1, <3>3 DEF Commit, Within, Good, Branch
      <3> QED
        BY <3>2, <3>3
    <2>6. Within(br', upstream)
      BY <1>0, <1>9, <2>1, <2>2, <2>3, <2>4, <2>5
         DEF Squash, CommitSquash, PushBranch, UpsertPr, AutoMerge, Shipped
    <2> QED
      BY <1>2, <1>9, <2>6 DEF Squash, CommitSquash, PushBranch, UpsertPr, AutoMerge, Shipped, Effect
  <1> QED
    BY <1>3, <1>4, <1>5, <1>6, <1>7, <1>8, <1>9 DEF PrStep

LEMMA BasesStep == IInv /\ Bases /\ [Next]_vars => Bases'
  <1> SUFFICES ASSUME IInv, Bases, [Next]_vars PROVE Bases'
    OBVIOUS
  <1>0. /\ Good(br) /\ upstream \in Nat /\ Within(br, upstream) /\ ref \in 0..upstream
        /\ upstream \in 0..MaxMain /\ MaxMain \in Nat
    BY AttemptAssumption DEF IInv, TypeInv, MarkersInv, Bases
  <1>1. ASSUME Based, UNCHANGED prVars PROVE Bases'
    BY <1>1 DEF Based, prVars, Bases
  <1>2. CASE Work
    BY <1>1, <1>2, AttemptBased, ReviewBased, DirectBased, PrBased DEF Work
  <1>3. CASE UpstreamMoves /\ UNCHANGED prVars
    <2>1. upstream' = upstream + 1 /\ upstream < MaxMain /\ br' = br /\ ref' = ref /\ fresh' = fresh
      BY <1>3 DEF UpstreamMoves, prVars
    <2>2. Within(br', upstream') /\ ref' \in 0..upstream' /\ upstream' \in 0..MaxMain
      BY <1>0, <2>1, WithinMore
    <2>3. fresh' \in [fetched : 0..upstream', listed : BOOLEAN, pass : 1..2]
      BY <1>0, <2>1 DEF Bases
    <2> QED
      BY <2>2, <2>3 DEF Bases
  <1>4. CASE OperatorResolves /\ UNCHANGED prVars
    <2>1. PICK how \in {"proceed", "block"} : br' = [CommitsLog(br) EXCEPT !.esc.state = how]
      BY <1>4 DEF OperatorResolves
    <2>2. Within(br', upstream)
      BY <1>0, <2>1 DEF CommitsLog, Within, Good, Branch
    <2> QED
      BY <1>1, <1>4, <2>2 DEF OperatorResolves, Based
  <1>5. CASE Environment
    <2>1. CASE PeerParks \/ PeerFetches \/ PeerMovesMain
      BY <1>0, <1>5, <2>1 DEF Environment, PeerParks, PeerFetches, PeerMovesMain, prVars, attemptVars, Bases
    <2> QED
      BY <1>3, <1>4, <1>5, <2>1 DEF Environment
  <1>6. CASE Start \/ WaitOut \/ Resume
    <2>1. Within(br', upstream)
      BY <1>0, <1>6 DEF Start, WaitOut, Resume, Within, Good, Branch
    <2>2. /\ upstream' = upstream /\ ref' = ref
          /\ fresh' = NotFresh
      BY <1>6 DEF Start, WaitOut, Resume, Enter
    <2>3. NotFresh \in [fetched : 0..upstream, listed : BOOLEAN, pass : 1..2]
      BY <1>0 DEF NotFresh
    <2> QED
      BY <2>1, <2>2, <2>3 DEF Bases
  <1>7. CASE Crash
    <2>1. PICK b \in IF pc \in Agents THEN Works(br, IF pc \in Planning THEN "plan" ELSE "code") ELSE {br} :
          br' \in {[b EXCEPT !.facts = @ \ {"recorded"}]} \cup (IF pc \in Merging THEN {Landed(b)} ELSE {})
      BY <1>7 DEF Crash
    <2>2. Good(b) /\ Within(b, upstream)
      BY <1>0, <2>1, WorksGood, WorksWithin
    <2>3. Within(br', upstream)
      BY <1>0, <2>1, <2>2, LandedWithin DEF Within, Good, Branch
    <2>4. /\ upstream' = upstream /\ ref' = ref
          /\ fresh' = NotFresh
      BY <1>7 DEF Crash
    <2>5. NotFresh \in [fetched : 0..upstream, listed : BOOLEAN, pass : 1..2]
      BY <1>0 DEF NotFresh
    <2> QED
      BY <2>3, <2>4, <2>5 DEF Bases
  <1>8. CASE UNCHANGED vars
    BY <1>8 DEF vars, attemptVars, prVars, Bases
  <1> QED
    BY <1>2, <1>5, <1>6, <1>7, <1>8 DEF Next

\* The loop passes, and has the author revise, as often as its policy allows: a revision
\* leads to one more pass.
LoopBound == /\ rv.pass \in 0..MaxPasses /\ rv.revisions \in 0..MaxRevisions
             /\ pc = "revise" => rv.pass < MaxPasses /\ rv.revisions < MaxRevisions

LEMMA ReviewBound == ASSUME LoopInv, LoopBound, ReviewStep PROVE LoopBound'
  <1>0. rv \in Review /\ MaxPasses \in Nat \ {0} /\ MaxRevisions \in Nat
    BY ReviewAssumption DEF LoopInv
  <1>1. ASSUME pc' # "revise", rv'.pass = rv.pass, rv'.revisions = rv.revisions PROVE LoopBound'
    BY <1>1 DEF LoopBound
  <1>2. ASSUME pc' # "revise", rv' = NoReview \/ rv' = [NoReview EXCEPT !.pass = 1] PROVE LoopBound'
    <2>1. rv'.pass \in {0, 1} /\ rv'.revisions = 0
      BY <1>2 DEF NoReview
    <2> QED
      BY <1>0, <1>2, <2>1 DEF LoopBound
  <1>3. CASE ShakedownCode
    <2>1. pc' \in {"idle", "shakedown-code", "ship"} /\ rv' = rv
      BY <1>3, StepLeads DEF ShakedownCode, At, reviewVars, GoesOn, Goto
    <2> QED
      BY <1>1, <2>1
  <1>4. CASE Admit
    <2>1. /\ pc' \in {"idle", "ship", "seats"}
          /\ rv' = rv \/ rv' = [NoReview EXCEPT !.pass = 1]
      BY <1>4 DEF Admit, ParkExit, Failed, Finish, Goto
    <2> QED
      BY <1>1, <1>2, <2>1
  <1>5. CASE BudgetEnds \/ Escalate \/ Record
    <2>1. /\ pc' \in {"teardown", "notify", "record"}
          /\ rv' = rv \/ rv' = [rv EXCEPT !.outcome = "budget"] \/ rv' = [rv EXCEPT !.writeFailed = TRUE]
      BY <1>5 DEF BudgetEnds, Escalate, Record, LoopEnds, Goto
    <2>2. rv'.pass = rv.pass /\ rv'.revisions = rv.revisions
      BY <1>0, <2>1 DEF Review
    <2> QED
      BY <1>1, <2>1, <2>2
  <1>6. CASE SeatsSettle
    <2>1. /\ pc' \in {"teardown", "judge"}
          /\ \/ \E o, cands : rv' = [rv EXCEPT !.outcome = o, !.carried = cands]
             \/ \E o, cands : rv' = [rv EXCEPT !.outcome = o, !.carried = cands, !.split = TRUE]
             \/ \E cands : rv' = [rv EXCEPT !.carried = cands]
      BY <1>6 DEF SeatsSettle, LoopEnds, Goto
    <2>2. rv'.pass = rv.pass /\ rv'.revisions = rv.revisions
      BY <1>0, <2>1 DEF Review
    <2> QED
      BY <1>1, <2>1, <2>2
  <1>7. CASE Judge
    <2>1. PICK kept, outcome, unfixable, valid, limited : Ruled(kept, outcome, unfixable, valid, limited)
      BY <1>7 DEF Judge
    <2>2. \/ pc' = "teardown" /\ rv' = [rv EXCEPT !.outcome = outcome, !.carried = kept]
          \/ /\ pc' = "revise" /\ rv' = [rv EXCEPT !.carried = kept]
             /\ rv.pass # MaxPasses /\ ~(rv.revisions >= MaxRevisions)
      BY <2>1 DEF Ruled, LoopEnds, Goto
    <2>3. rv'.pass = rv.pass /\ rv'.revisions = rv.revisions
      BY <1>0, <2>2 DEF Review
    <2> QED
      BY <1>0, <2>2, <2>3 DEF LoopBound, Review
  <1>8. CASE Revise
    <2>1. pc = "revise"
      BY <1>8 DEF Revise
    <2>2. \/ pc' = "teardown" /\ \E o : rv' = [rv EXCEPT !.outcome = o]
          \/ pc' = "seats" /\ rv' = [rv EXCEPT !.pass = @ + 1, !.revisions = @ + 1]
      BY <1>8 DEF Revise, LoopEnds, Goto
    <2>3. CASE pc' = "seats" /\ rv' = [rv EXCEPT !.pass = @ + 1, !.revisions = @ + 1]
      <3>1. rv'.pass = rv.pass + 1 /\ rv'.revisions = rv.revisions + 1
        BY <1>0, <2>3 DEF Review
      <3> QED
        BY <1>0, <2>1, <2>3, <3>1 DEF LoopBound, Review
    <2>4. CASE pc' = "teardown" /\ \E o : rv' = [rv EXCEPT !.outcome = o]
      BY <1>0, <1>1, <2>4 DEF Review
    <2> QED
      BY <2>2, <2>3, <2>4
  <1>9. CASE Teardown \/ Decide
    <2>1. pc' # "revise" /\ (rv' = rv \/ rv' = NoReview)
      BY <1>9 DEF Teardown, Decide, EscapesLoop, ParkExit, Failed, Finish, Goto
    <2> QED
      BY <1>1, <1>2, <2>1
  <1> QED
    BY <1>3, <1>4, <1>5, <1>6, <1>7, <1>8, <1>9 DEF ReviewStep

LEMMA BoundStep == IInv /\ LoopInv /\ LoopBound /\ [Next]_vars => LoopBound'
  <1> SUFFICES ASSUME IInv, LoopInv, LoopBound, [Next]_vars PROVE LoopBound'
    OBVIOUS
  <1>1. CASE UNCHANGED vars
    BY <1>1 DEF vars, attemptVars, reviewVars, LoopBound
  <1>2. CASE Start \/ WaitOut \/ Resume
    <2>1. pc' \in Pipeline /\ rv' = rv
      BY <1>2, ResumesAtStep, CycleAssumption DEF Start, WaitOut, Resume, Enter, Pipeline
    <2> QED
      BY <2>1 DEF LoopBound, Pipeline
  <1>3. CASE Crash
    BY <1>3, ReviewAssumption DEF Crash, LoopBound, NoReview
  <1>4. CASE Environment
    <2>1. pc' = pc /\ rv' = rv
      BY <1>4 DEF Environment, PeerParks, UpstreamMoves, PeerFetches, PeerMovesMain, OperatorResolves,
                  attemptVars, reviewVars
    <2> QED
      BY <2>1 DEF LoopBound
  <1>5. CASE Work
    <2>1. CASE ReviewStep
      BY <2>1, ReviewBound
    <2>2. CASE (AttemptStep \/ PrStep \/ DirectStep) /\ UNCHANGED reviewVars
      BY <2>2, AttemptLeads, PrLeads, DirectLeads DEF Elsewhere, LoopBound, ReviewPcs, reviewVars
    <2> QED
      BY <1>5, <2>1, <2>2 DEF Work
  <1> QED
    BY <1>1, <1>2, <1>3, <1>4, <1>5 DEF Next

\* What an item is attempted with stays, and it is attempted MaxTries times at most.
Frame == target \in Targets /\ authoring \in BOOLEAN /\ tries \in 0..MaxTries

LEMMA FrameStep == Frame /\ [Next]_vars => Frame'
  <1> SUFFICES ASSUME Frame, [Next]_vars PROVE Frame'
    OBVIOUS
  <1>1. CASE UNCHANGED vars
    BY <1>1 DEF vars, attemptVars, reviewVars, Frame
  <1>2. CASE Next
    <2>1. UNCHANGED <<target, authoring>>
      BY <1>2 DEF Next
    <2>2. tries' = tries \/ (tries < MaxTries /\ tries' = tries + 1)
      BY <1>2 DEF Next, Start, WaitOut, Resume, Enter, Crash
    <2> QED
      BY <2>1, <2>2, CycleAssumption DEF Frame
  <1> QED
    BY <1>1, <1>2

\* Every behaviour of the attempts at an item keeps its types: no step is tried, no transient
\* error passed over, no pass or revision made beyond its bound, and nothing the attempt
\* knows of main is ahead of main.
THEOREM TypeCorrect == Spec => []TypeOK
  <1>1. Init => Counts /\ Bases /\ LoopBound /\ Frame
    <2>1. 1 \in 1..MaxAttempts /\ 0 \in 0..(MaxTransient - 1) /\ 0 \in 0..MaxMain
      BY AttemptAssumption
    <2>2. 0 \in 0..MaxPasses /\ 0 \in 0..MaxRevisions /\ 0 \in 0..MaxTries
      BY ReviewAssumption, CycleAssumption
    <2>3. Init => Counts
      BY <2>1 DEF Init, Counts, Results
    <2>4. Init => Bases
      BY <2>1 DEF Init, Bases, Within, NoBranch, NotFresh
    <2>5. Init => LoopBound /\ Frame
      BY <2>2 DEF Init, LoopBound, NoReview, Frame
    <2> QED
      BY <2>3, <2>4, <2>5
  <1>2. IInv /\ LoopInv /\ Counts /\ Bases /\ LoopBound /\ Frame => TypeOK
    BY DEF IInv, TypeInv, LoopInv, Review, Counts, Bases, Within, LoopBound, Frame, Branch, Main, Entries, TypeOK
  <1> QED
    BY <1>1, <1>2, SpecIInv, SpecLoopInv, CountsStep, BasesStep, BoundStep, FrameStep, PTL DEF Spec
=============================================================================
