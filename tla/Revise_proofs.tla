---------------------------- MODULE Revise_proofs ----------------------------
(***************************************************************************)
(* What holds of Revise for any number of campaigns, commands and resumes, *)
(* of heads, of removals of the label and of deaths.                       *)
(***************************************************************************)
EXTENDS Revise, TLAPS

PullRequests == [head : Nat, red : BOOLEAN, review : Nat, label : BOOLEAN, handoff : BOOLEAN]

\* The types that the safety invariants need; TypeCorrect has the others.
TypeInv ==
    /\ pc \in [Procs -> Pcs]
    /\ lease \in Procs \cup {None}
    /\ pr \in PullRequests
    /\ passes \in Nat /\ cleared \in Nat

\* On the way to its attempt a process has the lease.
LeasedInv == \A p \in Procs : pc[p] \in Leased => lease = p

\* Providers are orphaned by a death.
OrphanInv == \A p \in orphans : pc[p] = "dead"

\* While the label is off, the pass that it admits is still to come.
PassInv == passes <= cleared + 1 /\ (~pr.label => passes <= cleared)

IInv == TypeInv /\ LeasedInv /\ OrphanInv /\ PassInv

LEMMA InitIInv == Init => IInv
  <1> SUFFICES ASSUME Init PROVE IInv
    OBVIOUS
  <1> USE ReviseAssumption DEF Init
  <1>1. TypeInv
    BY DEF TypeInv, Pcs, PullRequests
  <1>2. LeasedInv /\ OrphanInv /\ PassInv
    BY DEF LeasedInv, Leased, OrphanInv, PassInv
  <1> QED
    BY <1>1, <1>2 DEF IInv

\* A process that moves alone, and keeps or lets go of the lease it has.
LEMMA MoveKeeps ==
  ASSUME IInv, NEW p \in Procs, NEW where \in Pcs, Goto(p, where), p \notin orphans', orphans' \subseteq orphans,
         \/ lease' = lease /\ (where \in Leased => pc[p] \in Leased)
         \/ Release(p) /\ where \notin Leased
         \/ lease = None /\ lease' = p
  PROVE  LeasedInv' /\ OrphanInv' /\ pc' \in [Procs -> Pcs] /\ lease' \in Procs \cup {None}
  <1> USE ReviseAssumption DEF IInv, TypeInv, Goto, Release
  <1>1. pc' \in [Procs -> Pcs] /\ lease' \in Procs \cup {None}
    OBVIOUS
  <1>2. LeasedInv'
    BY DEF LeasedInv
  <1>3. OrphanInv'
    BY DEF OrphanInv
  <1> QED
    BY <1>1, <1>2, <1>3

\* Every step of a living process is such a move.
LEMMA StepMoves ==
  ASSUME IInv, NEW p \in Procs, Step(p)
  PROVE  LeasedInv' /\ OrphanInv' /\ pc' \in [Procs -> Pcs] /\ lease' \in Procs \cup {None}
  <1>1. pc[p] # "dead" /\ orphans' = orphans
    BY DEF Step, List, resolveReviseTarget, acquireReviseExecution, claimRevisionExclusive,
           recordReviseInvocation, fetchReviewFindings, ensureReviseWorktree, verifyReviseWorktreeBinding,
           ReadFindings, acquireRevisionResumeLease, StartImplement, Park, Fail, EndImplement, Ship,
           resumeOne, HandBack, Executing
  <1>2. p \notin orphans
    BY <1>1 DEF IInv, OrphanInv
  <1>3. CASE pc' = pc /\ lease' = lease
    BY <1>1, <1>3 DEF IInv, TypeInv, LeasedInv, OrphanInv
  <1>4. ASSUME NEW where \in Pcs, Goto(p, where),
               \/ lease' = lease /\ (where \in Leased => pc[p] \in Leased)
               \/ Release(p) /\ where \notin Leased
               \/ lease = None /\ lease' = p
        PROVE  LeasedInv' /\ OrphanInv' /\ pc' \in [Procs -> Pcs] /\ lease' \in Procs \cup {None}
    BY <1>1, <1>2, <1>4, MoveKeeps
  <1>5. ASSUME GiveUp(p)
        PROVE  LeasedInv' /\ OrphanInv' /\ pc' \in [Procs -> Pcs] /\ lease' \in Procs \cup {None}
    <2>1. (IF p \in Sweepers THEN "idle" ELSE "done") \in Pcs \ Leased
      BY DEF Pcs, Leased
    <2> QED
      BY <1>4, <1>5, <2>1 DEF GiveUp, Leave
  <1>6. CASE List(p) \/ resolveReviseTarget(p)
    <2>1. lease' = lease /\ (pc' = pc \/ Goto(p, "done") \/ Goto(p, "acquire"))
      BY <1>6 DEF List, resolveReviseTarget
    <2> QED
      BY <1>3, <1>4, <2>1 DEF Pcs, Leased
  <1>7. CASE acquireReviseExecution(p)
    <2>1. \/ lease = None /\ lease' = p /\ (Goto(p, "audit") \/ Goto(p, "claim"))
          \/ lease' = lease /\ (Goto(p, "idle") \/ Goto(p, "done"))
      BY <1>7 DEF acquireReviseExecution, Leave
    <2> QED
      BY <1>4, <2>1 DEF Pcs, Leased
  <1>8. CASE claimRevisionExclusive(p) \/ recordReviseInvocation(p) \/ fetchReviewFindings(p) \/ ensureReviseWorktree(p)
    <2>1. \/ GiveUp(p)
          \/ /\ lease' = lease /\ pc[p] \in Leased
             /\ \E where \in {"audit", "fetch", "restore", "bind", "implement"} : Goto(p, where)
      BY <1>8 DEF claimRevisionExclusive, recordReviseInvocation, fetchReviewFindings, ensureReviseWorktree, Leased
    <2> QED
      BY <1>4, <1>5, <2>1 DEF Pcs, Leased, Executing
  <1>9. CASE verifyReviseWorktreeBinding(p)
    <2>1. Release(p) /\ \E where \in {"handoff", "idle", "done"} : Goto(p, where)
      BY <1>9 DEF verifyReviseWorktreeBinding, Leave
    <2> QED
      BY <1>4, <2>1 DEF Pcs, Leased
  <1>10. CASE ReadFindings(p) \/ resumeOne(p) \/ HandBack(p)
    <2>1. lease' = lease /\ \E where \in {"done", "reacquire", "implement", "later", "handed"} : Goto(p, where)
      BY <1>10 DEF ReadFindings, resumeOne, HandBack
    <2> QED
      BY <1>4, <2>1 DEF Pcs, Leased, Executing
  <1>11. CASE acquireRevisionResumeLease(p)
    <2>1. \/ lease = None /\ lease' = p /\ (Goto(p, "implement") \/ Goto(p, "later"))
          \/ lease' = lease /\ Goto(p, "done")
      BY <1>11 DEF acquireRevisionResumeLease
    <2> QED
      BY <1>4, <2>1 DEF Pcs, Leased, Executing
  <1>12. CASE StartImplement(p) \/ EndImplement(p)
    <2>1. GiveUp(p) \/ (lease' = lease /\ (Goto(p, "coding") \/ Goto(p, "later")))
      BY <1>12 DEF StartImplement, EndImplement
    <2> QED
      BY <1>4, <1>5, <2>1 DEF Pcs, Leased, Executing
  <1>13. CASE Park(p) \/ Fail(p) \/ Ship(p)
    <2>1. GiveUp(p) \/ (Release(p) /\ Goto(p, "parked"))
      BY <1>13 DEF Park, Fail, Ship
    <2> QED
      BY <1>4, <1>5, <2>1 DEF Pcs, Leased
  <1> QED
    BY <1>6, <1>7, <1>8, <1>9, <1>10, <1>11, <1>12, <1>13 DEF Step

\* Deaths and the world outside leave leased processes their lease.
LEMMA EnvironmentMoves ==
  ASSUME IInv, Environment
  PROVE  LeasedInv' /\ OrphanInv' /\ pc' \in [Procs -> Pcs] /\ lease' \in Procs \cup {None}
  <1> USE DEF IInv, TypeInv, LeasedInv, OrphanInv
  <1>1. CASE pc' = pc /\ lease' = lease /\ orphans' = orphans
    BY <1>1
  <1>2. ASSUME NEW p \in Procs, Resume(p)
        PROVE  LeasedInv' /\ OrphanInv' /\ pc' \in [Procs -> Pcs] /\ lease' \in Procs \cup {None}
    <2>1. /\ pc[p] = "idle" /\ lease' = lease /\ orphans' = orphans
          /\ \E where \in {"handoff", "implement", "later"} : Goto(p, where)
      BY <1>2 DEF Resume
    <2> QED
      BY <2>1 DEF Goto, Pcs, Leased, Executing
  <1>3. ASSUME NEW p \in Procs, Start(p)
        PROVE  LeasedInv' /\ OrphanInv' /\ pc' \in [Procs -> Pcs] /\ lease' \in Procs \cup {None}
    BY <1>3 DEF Start, Goto, Pcs, Leased
  <1>4. ASSUME NEW p \in Procs, Crash(p)
        PROVE  LeasedInv' /\ OrphanInv' /\ pc' \in [Procs -> Pcs] /\ lease' \in Procs \cup {None}
    <2>1. pc' = [pc EXCEPT ![p] = "dead"] /\ lease' = lease /\ orphans' \subseteq orphans \cup {p}
      BY <1>4 DEF Crash, Goto
    <2> QED
      BY <2>1 DEF Pcs, Leased
  <1>5. ASSUME NEW p \in Procs, OrphanEnds(p) \/ RemoveLease(p)
        PROVE  LeasedInv' /\ OrphanInv' /\ pc' \in [Procs -> Pcs] /\ lease' \in Procs \cup {None}
    BY <1>5 DEF OrphanEnds, RemoveLease, Leased
  <1>6. CASE Review \/ PushByHand \/ ClearLabel \/ Tidy
    BY <1>1, <1>6 DEF Review, PushByHand, ClearLabel, Tidy
  <1> QED
    BY <1>2, <1>3, <1>4, <1>5, <1>6 DEF Environment

\* New heads and new reviews leave the label alone.
LEMMA LabelKept ==
  ASSUME NEW q \in PullRequests, NEW red \in BOOLEAN
  PROVE  /\ [q EXCEPT !.head = @ + 1, !.red = FALSE] \in PullRequests
         /\ [q EXCEPT !.head = @ + 1, !.red = FALSE].label = q.label
         /\ [q EXCEPT !.review = q.head, !.red = red] \in PullRequests
         /\ [q EXCEPT !.review = q.head, !.red = red].label = q.label
  <1>1. q.head \in Nat /\ q.head + 1 \in Nat
    BY DEF PullRequests
  <1> QED
    BY <1>1 DEF PullRequests

\* The label and what it has admitted.
LEMMA PassStep ==
  ASSUME IInv, [Next]_vars
  PROVE  PassInv' /\ pr' \in PullRequests /\ passes' \in Nat /\ cleared' \in Nat
  <1> DEFINE Same == pr'.label = pr.label /\ pr' \in PullRequests /\ passes' = passes /\ cleared' = cleared
  <1> USE DEF IInv, TypeInv, PassInv, PullRequests
  <1>1. CASE Same
    BY <1>1
  <1>2. CASE ClearLabel
    <2>1. pr.label = TRUE /\ pr' = [pr EXCEPT !.label = FALSE] /\ cleared' = cleared + 1 /\ passes' = passes
      BY <1>2 DEF ClearLabel
    <2>2. pr' \in PullRequests
      BY <2>1
    <2>3. passes' <= cleared'
      BY <2>1
    <2> QED
      BY <2>1, <2>2, <2>3
  <1>3. ASSUME NEW p \in Procs, claimRevisionExclusive(p)
        PROVE  PassInv' /\ pr' \in PullRequests /\ passes' \in Nat /\ cleared' \in Nat
    <2> DEFINE claimed == [pr EXCEPT !.label = TRUE]
    <2>1. claimed \in PullRequests /\ claimed.label = TRUE
      OBVIOUS
    <2> HIDE DEF claimed
    <2>2. cleared' = cleared /\ \/ ~pr.label /\ pr' = claimed /\ passes' = passes + 1
                                \/ pr' = pr /\ passes' = passes
                                \/ pr' = claimed /\ passes' = passes
      BY <1>3 DEF claimRevisionExclusive, claimed
    <2> HIDE DEF PullRequests
    <2> QED
      BY <2>1, <2>2
  <1>4. ASSUME NEW p \in Procs, Step(p), ~claimRevisionExclusive(p)
        PROVE  Same
    <2>1. ASSUME postParkComment, passes' = passes, cleared' = cleared PROVE Same
      BY <2>1 DEF postParkComment
    <2>2. ASSUME UNCHANGED <<pr, passes, cleared>> PROVE Same
      BY <2>2
    <2>3. CASE Ship(p)
      <3> HIDE DEF PullRequests
      <3> QED
        BY <2>3, LabelKept DEF Ship
    <2> HIDE DEF Same, PullRequests
    <2>4. CASE List(p) \/ fetchReviewFindings(p)
      BY <2>1, <2>2, <2>4 DEF List, fetchReviewFindings
    <2> QED
      BY <1>4, <2>2, <2>3, <2>4 DEF Step, resolveReviseTarget, acquireReviseExecution,
           recordReviseInvocation, ensureReviseWorktree, verifyReviseWorktreeBinding,
           ReadFindings, acquireRevisionResumeLease, StartImplement, Park, Fail, EndImplement,
           resumeOne, HandBack
  <1>5. ASSUME NEW p \in Procs, Resume(p) \/ Start(p) \/ Crash(p) \/ OrphanEnds(p) \/ RemoveLease(p)
        PROVE  Same
    BY <1>5 DEF Resume, Start, Crash, OrphanEnds, RemoveLease
  <1>6. CASE Review \/ PushByHand \/ Tidy
    <2>1. Same
      <3> HIDE DEF PullRequests
      <3> QED
        BY <1>6, LabelKept DEF Review, PushByHand, Tidy
    <2> QED
      BY <1>1, <2>1
  <1>7. CASE UNCHANGED vars
    BY <1>1, <1>7 DEF vars
  <1> HIDE DEF Same
  <1> QED
    BY <1>1, <1>2, <1>3, <1>4, <1>5, <1>6, <1>7 DEF Next, Environment

LEMMA NextIInv == IInv /\ [Next]_vars => IInv'
  <1> SUFFICES ASSUME IInv, [Next]_vars PROVE IInv'
    OBVIOUS
  <1>1. LeasedInv' /\ OrphanInv' /\ pc' \in [Procs -> Pcs] /\ lease' \in Procs \cup {None}
    <2>1. CASE UNCHANGED vars
      BY <2>1 DEF vars, IInv, TypeInv, LeasedInv, OrphanInv
    <2> QED
      BY <2>1, StepMoves, EnvironmentMoves DEF Next
  <1> QED
    BY <1>1, PassStep DEF IInv, TypeInv

THEOREM ReviseInv == Spec => []IInv
  BY InitIInv, NextIInv, PTL DEF Spec

\* Claims, audits, findings and worktrees of one item are never interleaved, with
\* any number of processes: PreflightAlone is an invariant.
THEOREM PreflightSafe == Spec => []PreflightAlone
  <1>1. IInv => PreflightAlone
    BY ReviseAssumption DEF IInv, LeasedInv, PreflightAlone
  <1> QED
    BY <1>1, ReviseInv, PTL

\* The label admits one first pass each time it is off: OnePass is an invariant.
THEOREM OnePassSafe == Spec => []OnePass
  <1>1. IInv => OnePass
    BY DEF IInv, PassInv, OnePass
  <1> QED
    BY <1>1, ReviseInv, PTL

\* A holder gives up the lease when its work is over, and a human takes it from a
\* dead one when nothing of it runs: LeaseOutlivesWork holds of every step.
THEOREM LeaseSafe == Spec => LeaseOutlivesWork
  <1> DEFINE Kept == \A p \in Procs : lease = p /\ lease' # p => pc'[p] \notin Leased \cup Executing /\ p \notin orphans'
  <1>1. ASSUME IInv, [Next]_vars PROVE Kept
    <2> SUFFICES ASSUME NEW p \in Procs, lease = p, lease' # p
                 PROVE  pc'[p] \notin Leased \cup Executing /\ p \notin orphans'
      OBVIOUS
    <2>0. p # None /\ pc \in [Procs -> Pcs]
      BY <1>1, ReviseAssumption DEF IInv, TypeInv
    <2>1. \/ RemoveLease(p)
          \/ /\ pc[p] # "dead" /\ orphans' = orphans
             /\ \E where \in {"idle", "done", "handoff", "parked"} : Goto(p, where)
      <3>1. ASSUME NEW q \in Procs, Step(q), lease' # lease
            PROVE  \/ lease = None
                   \/ /\ Release(q) /\ pc[q] # "dead" /\ orphans' = orphans
                      /\ \E where \in {"idle", "done", "handoff", "parked"} : Goto(q, where)
        BY <3>1 DEF Step, List, resolveReviseTarget, acquireReviseExecution, claimRevisionExclusive,
           recordReviseInvocation, fetchReviewFindings, ensureReviseWorktree, verifyReviseWorktreeBinding,
           ReadFindings, acquireRevisionResumeLease, StartImplement, Park, Fail, EndImplement, Ship,
           resumeOne, HandBack, GiveUp, Leave, Executing
      <3>2. ASSUME NEW q \in Procs, Step(q)
            PROVE  /\ pc[p] # "dead" /\ orphans' = orphans
                   /\ \E where \in {"idle", "done", "handoff", "parked"} : Goto(p, where)
        BY <2>0, <3>1, <3>2 DEF Release
      <3>3. ASSUME Environment PROVE RemoveLease(p)
        BY <3>3 DEF Environment, Resume, Start, Crash, OrphanEnds, RemoveLease, Review, PushByHand, ClearLabel, Tidy
      <3> QED
        BY <1>1, <3>2, <3>3 DEF Next, vars
    <2>2. CASE RemoveLease(p)
      BY <2>2 DEF RemoveLease, Leased, Executing
    <2>3. CASE /\ pc[p] # "dead" /\ orphans' = orphans
               /\ \E where \in {"idle", "done", "handoff", "parked"} : Goto(p, where)
      BY <1>1, <2>0, <2>3 DEF IInv, OrphanInv, Goto, Leased, Executing
    <2> QED
      BY <2>1, <2>2, <2>3
  <1> QED
    BY <1>1, ReviseInv, PTL DEF Spec, LeaseOutlivesWork

-----------------------------------------------------------------------------
(* The types.                                                              *)

Requests == [head : 1..MaxHead, red : BOOLEAN, review : Heads, label : BOOLEAN, handoff : BOOLEAN]
Locals == [tree : BOOLEAN, base : 1..MaxHead, at : {"base", "applied"}]
Memory == [head : Heads, seen : BOOLEAN, flag : BOOLEAN, task : Heads, consumed : BOOLEAN]

\* What TypeOK says beyond the invariant.
Data ==
    /\ pr \in Requests /\ local \in Locals /\ findings \in Heads /\ own \in [Procs -> Memory]
    /\ orphans \subseteq Procs /\ cleared \in 0..MaxCleared /\ crashes \in 0..MaxCrashes

\* Heads are counted from one, and a push is guarded by their bound.
LEMMA HeadTypes == 1..MaxHead \subseteq Heads /\ 0 \in Heads /\ \A h \in 1..MaxHead : h < MaxHead => h + 1 \in 1..MaxHead
  BY ReviseAssumption DEF Heads

\* What GitHub says.
LEMMA PrTypes == ASSUME Data, [Next]_vars PROVE pr' \in Requests
  <1> USE HeadTypes DEF Data
  <1>1. /\ [pr EXCEPT !.handoff = TRUE] \in Requests
        /\ \A b \in BOOLEAN : [pr EXCEPT !.label = b] \in Requests
        /\ pr.head < MaxHead => [pr EXCEPT !.head = @ + 1, !.red = FALSE] \in Requests
        /\ \A red \in BOOLEAN : [pr EXCEPT !.review = pr.head, !.red = red] \in Requests
    <2>1. pr.head \in 1..MaxHead /\ pr.head \in Heads /\ (pr.head < MaxHead => pr.head + 1 \in 1..MaxHead)
      BY DEF Requests
    <2> HIDE HeadTypes
    <2> QED
      BY <2>1 DEF Requests
  <1> HIDE HeadTypes DEF Data
  <1> USE DEF Data
  <1>2. ASSUME postParkComment PROVE pr' \in Requests
    BY <1>1, <1>2 DEF postParkComment
  <1>3. ASSUME NEW p \in Procs, Step(p) PROVE pr' \in Requests
    <2>1. CASE List(p) \/ fetchReviewFindings(p)
      BY <1>2, <2>1 DEF List, fetchReviewFindings
    <2>2. CASE claimRevisionExclusive(p) \/ Ship(p)
      BY <1>1, <2>2 DEF claimRevisionExclusive, Ship
    <2> QED
      BY <1>3, <2>1, <2>2 DEF Step, resolveReviseTarget, acquireReviseExecution,
           recordReviseInvocation, ensureReviseWorktree, verifyReviseWorktreeBinding,
           ReadFindings, acquireRevisionResumeLease, StartImplement, Park, Fail, EndImplement,
           resumeOne, HandBack
  <1>4. CASE Review \/ PushByHand \/ ClearLabel
    BY <1>1, <1>4 DEF Review, PushByHand, ClearLabel
  <1> QED
    BY <1>3, <1>4 DEF Next, Environment, Resume, Start, Crash, OrphanEnds, RemoveLease, Tidy, vars

\* The worktree and the findings file.
LEMMA DiskTypes == ASSUME Data, [Next]_vars PROVE local' \in Locals /\ findings' \in Heads
  <1> USE DEF Data
  <1>1. /\ pr.head \in 1..MaxHead /\ pr.review \in Heads /\ local.base \in 1..MaxHead
        /\ pr.head < MaxHead => pr.head + 1 \in 1..MaxHead
    BY HeadTypes DEF Requests, Locals
  <1>2. /\ \A b \in BOOLEAN : [local EXCEPT !.tree = b] \in Locals
        /\ \A base \in 1..MaxHead : [local EXCEPT !.tree = TRUE, !.base = base] \in Locals
        /\ [local EXCEPT !.at = "applied"] \in Locals
        /\ \A base \in 1..MaxHead : [local EXCEPT !.base = base, !.at = "base"] \in Locals
    BY DEF Locals
  <1>3. ASSUME NEW p \in Procs, Step(p) PROVE local' \in Locals /\ findings' \in Heads
    <2>1. CASE ensureReviseWorktree(p)
      <3>1. findings' = findings /\ \/ local' = local
                                    \/ \E base \in 1..MaxHead : local' = [local EXCEPT !.tree = TRUE, !.base = base]
        BY <1>1, <2>1 DEF ensureReviseWorktree
      <3> QED
        BY <1>2, <3>1
    <2>2. CASE fetchReviewFindings(p) \/ EndImplement(p) \/ Ship(p)
      BY <1>1, <1>2, <2>2, HeadTypes DEF fetchReviewFindings, EndImplement, Ship
    <2> QED
      BY <1>3, <2>1, <2>2 DEF Step, List, resolveReviseTarget, acquireReviseExecution, claimRevisionExclusive,
           recordReviseInvocation, verifyReviseWorktreeBinding, ReadFindings, acquireRevisionResumeLease,
           StartImplement, Park, Fail, resumeOne, HandBack
  <1>4. CASE Tidy
    BY <1>2, <1>4 DEF Tidy
  <1> QED
    BY <1>3, <1>4 DEF Next, Environment, Resume, Start, Crash, OrphanEnds, RemoveLease, Review, PushByHand,
         ClearLabel, vars

\* What a process has in memory.
LEMMA MemoryTypes == ASSUME Data, [Next]_vars PROVE own' \in [Procs -> Memory]
  <1> USE DEF Data
  <1>1. ASSUME NEW p \in Procs, NEW m \in Memory, own' = [own EXCEPT ![p] = m] PROVE own' \in [Procs -> Memory]
    BY <1>1
  <1>2. Fresh \in Memory /\ \A b \in BOOLEAN : [Fresh EXCEPT !.flag = b] \in Memory
    BY HeadTypes DEF Fresh, Memory
  <1>3. ASSUME NEW p \in Procs, Forget(p) PROVE own' \in [Procs -> Memory]
    BY <1>1, <1>2, <1>3 DEF Forget
  <1>4. ASSUME NEW p \in Procs, Step(p) PROVE own' \in [Procs -> Memory]
    <2>0. /\ own[p] \in Memory
          /\ \A b \in BOOLEAN : [own[p] EXCEPT !.flag = b] \in Memory
          /\ \A h \in Heads : [own[p] EXCEPT !.task = h] \in Memory
          /\ [own[p] EXCEPT !.flag = FALSE, !.task = 0, !.consumed = TRUE] \in Memory
      BY HeadTypes DEF Memory
    <2>1. CASE resolveReviseTarget(p)
      <3>1. [Fresh EXCEPT !.head = pr.head, !.seen = pr.label, !.flag = TRUE] \in Memory
        BY HeadTypes DEF Fresh, Memory, Requests
      <3> QED
        BY <1>1, <2>1, <3>1 DEF resolveReviseTarget
    <2>2. CASE List(p) \/ acquireReviseExecution(p) \/ claimRevisionExclusive(p) \/ recordReviseInvocation(p)
               \/ fetchReviewFindings(p) \/ verifyReviseWorktreeBinding(p)
      BY <1>1, <1>2, <1>3, <2>2 DEF List, acquireReviseExecution, claimRevisionExclusive, recordReviseInvocation,
           fetchReviewFindings, verifyReviseWorktreeBinding
    <2>3. CASE ensureReviseWorktree(p)
      <3>1. own' = [own EXCEPT ![p] = [own[p] EXCEPT !.flag = TRUE]] \/ Forget(p)
        BY <2>3 DEF ensureReviseWorktree
      <3> QED
        BY <1>1, <1>3, <2>0, <3>1
    <2>4. CASE StartImplement(p) \/ Park(p)
      <3>1. Forget(p) \/ \E h \in Heads : own' = [own EXCEPT ![p] = [own[p] EXCEPT !.task = h]]
        BY <2>4, HeadTypes DEF StartImplement, Park
      <3> QED
        BY <1>1, <1>3, <2>0, <3>1
    <2>5. CASE EndImplement(p)
      <3>1. \/ own' = own \/ Forget(p)
            \/ own' = [own EXCEPT ![p] = [own[p] EXCEPT !.flag = FALSE, !.task = 0, !.consumed = TRUE]]
        BY <2>5 DEF EndImplement
      <3> QED
        BY <1>1, <1>3, <2>0, <3>1
    <2>6. CASE resumeOne(p)
      <3>1. \E b \in BOOLEAN : own' = [own EXCEPT ![p] = [own[p] EXCEPT !.flag = b]]
        <4> DEFINE b == (own[p].flag /\ p \in Operators) \/ findings # 0
        <4>1. own' = [own EXCEPT ![p] = [own[p] EXCEPT !.flag = b]] /\ b \in BOOLEAN
          BY <2>6 DEF resumeOne
        <4> QED
          BY <4>1
      <3> QED
        BY <1>1, <2>0, <3>1
    <2>7. CASE Fail(p) \/ Ship(p) \/ HandBack(p) \/ ReadFindings(p) \/ acquireRevisionResumeLease(p)
      BY <1>3, <2>7 DEF Fail, Ship, HandBack, ReadFindings, acquireRevisionResumeLease
    <2> QED
      BY <1>4, <2>1, <2>2, <2>3, <2>4, <2>5, <2>6, <2>7 DEF Step
  <1>5. ASSUME NEW p \in Procs, Resume(p) PROVE own' \in [Procs -> Memory]
    <2>1. \E b \in BOOLEAN : own' = [own EXCEPT ![p] = [Fresh EXCEPT !.flag = b]]
      BY <1>5 DEF Resume
    <2> QED
      BY <1>1, <1>2, <2>1
  <1>6. ASSUME NEW p \in Procs, Start(p) \/ Crash(p) PROVE own' \in [Procs -> Memory]
    BY <1>1, <1>2, <1>3, <1>6 DEF Start, Crash
  <1> QED
    BY <1>4, <1>5, <1>6 DEF Next, Environment, OrphanEnds, RemoveLease, Review, PushByHand, ClearLabel, Tidy, vars

\* Deaths and removals of the label stay within their bounds.
LEMMA CountTypes ==
  ASSUME Data, [Next]_vars
  PROVE  orphans' \subseteq Procs /\ cleared' \in 0..MaxCleared /\ crashes' \in 0..MaxCrashes
  <1> USE DEF Data
  <1>1. ASSUME NEW p \in Procs, Step(p) PROVE orphans' = orphans /\ cleared' = cleared /\ crashes' = crashes
    BY <1>1 DEF Step, List, resolveReviseTarget, acquireReviseExecution, claimRevisionExclusive,
         recordReviseInvocation, fetchReviewFindings, ensureReviseWorktree, verifyReviseWorktreeBinding, ReadFindings,
         acquireRevisionResumeLease, StartImplement, Park, Fail, EndImplement, Ship, resumeOne, HandBack
  <1>2. ASSUME NEW p \in Procs, Crash(p) PROVE orphans' \subseteq Procs /\ cleared' = cleared /\ crashes' \in 0..MaxCrashes
    BY <1>2, ReviseAssumption DEF Crash
  <1>3. CASE ClearLabel
    BY <1>3, ReviseAssumption DEF ClearLabel
  <1> QED
    BY <1>1, <1>2, <1>3 DEF Next, Environment, Resume, Start, OrphanEnds, RemoveLease, Review, PushByHand, Tidy, vars

\* Every behaviour of the revision keeps its types; no more passes begin than the label
\* admits, and none of the counted events passes its bound.
THEOREM TypeCorrect == Spec => []TypeOK
  <1>1. Init => Data
    BY HeadTypes, ReviseAssumption DEF Init, Data, Requests, Locals, Memory, Fresh
  <1>2. Data /\ [Next]_vars => Data'
    BY PrTypes, DiskTypes, MemoryTypes, CountTypes DEF Data
  <1>3. IInv /\ Data => TypeOK
    BY ReviseAssumption DEF IInv, TypeInv, PassInv, Data, Requests, Locals, Memory, TypeOK
  <1> QED
    BY <1>1, <1>2, <1>3, ReviseInv, PTL DEF Spec
=============================================================================
