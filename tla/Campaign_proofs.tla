--------------------------- MODULE Campaign_proofs ---------------------------
(***************************************************************************)
(* The campaign for any workers, items, modes and limits: the exit code    *)
(* tells the truth, and a halt launches no further cycle.                  *)
(***************************************************************************)
EXTENDS Campaign, TLAPS

\* Where a worker decides for the campaign.
Gated == {"drain", "wait", "budgetSleep", "sweep", "claim", "revise", "sweepEnd", "probe", "sleep"}

\* Where the main flow is before the pool.
Starting == {"drain", "wait", "sweep", "claim", "revise", "sweepEnd"}

\* Before the pool no worker has begun, after it all are done.
PhaseInv ==
    /\ pc[Main] \in Starting => \A w \in Workers : pc[w] = "off"
    /\ pc[Main] \notin Starting \cup {"pool"} => \A w \in Workers : pc[w] = "done"

\* One worker at a time decides, and only in a continuous campaign; what a sweep has claimed
\* is no longer to do.
GateInv ==
    /\ \A w \in Workers : pc[w] \in Gated => gate = w /\ Continuous
    /\ \A p \in Flows : pc[p] = "claim" => item[p] \notin todo

\* A revision or a resume is of an item.
ItemInv == \A p \in Flows : pc[p] \in {"claim", "revise", "resuming"} => item[p] \in Claims

\* What halts the campaign is a result that is no delivery, or a receipt that is lost.
HaltInv ==
    /\ \A w \in Workers : res[w] = "halt" => halted
    /\ undurable => halted
    /\ halted => undurable \/ ~allCompleted

\* A result that is no delivery is remembered.
ResultInv == allCompleted => \A i \in DOMAIN latest : latest[i] \in {"none", "completed"}

IInv == TypeOK /\ PhaseInv /\ GateInv /\ ItemInv /\ HaltInv /\ ResultInv /\ ExitIsHonest

LEMMA InitInv == Init => IInv
<1> SUFFICES ASSUME Init PROVE IInv
  OBVIOUS
<1> USE CampaignAssumption
<1>1. TypeOK
  <2>1. /\ mode \in {"batch", "drain", "watch"} /\ autoResume \in BOOLEAN
        /\ parked \in BOOLEAN /\ reset \in {"none", "near", "far"} /\ paused \in BOOLEAN
        /\ halted \in BOOLEAN /\ undurable \in BOOLEAN
        /\ drainComplete \in BOOLEAN /\ allCompleted \in BOOLEAN
    BY Zenon DEF Init
  <2>2. exceeded \in BOOLEAN /\ deferred \in BOOLEAN
    <3>1. CASE Continuous
      BY <3>1, Zenon DEF Init
    <3>2. CASE ~Continuous
      BY <3>2, Zenon DEF Init
    <3> QED
      BY <3>1, <3>2
  <2>3. /\ pc \in [Flows -> Paid \cup {"off", "top", "drain", "wait", "budgetSleep", "sweep", "claim",
                  "sweepEnd", "probe", "sleep", "notify", "postDrain", "done",
                  "pool", "await", "resetWait", "resume", "exited"}]
        /\ item \in [Flows -> Claims \cup {NoItem}] /\ res \in [Flows -> {"go", "halt", "empty"}]
        /\ gate \in Workers \cup {Free}
    BY DEF Init
  <2>4. /\ nextCycle \in 0..Cycles + 1
        /\ transients \in 0..TransientLimit /\ quarantines \in 0..QuarantineLimit
        /\ latest \in [Claims \cup {NoItem} -> {"none", "completed", "failed", "parked"}]
        /\ prs \subseteq Prs /\ todo \subseteq prs /\ queue \subseteq Claims /\ again \subseteq Claims
        /\ round \in 0..MaxResumeRounds /\ exit \in {Running, 0, 1, 75}
        /\ strikes \in 0..MaxStrikes
    BY DEF Init
  <2> QED
    BY <2>1, <2>2, <2>3, <2>4 DEF TypeOK
<1>2. PhaseInv /\ GateInv /\ ItemInv
  BY DEF Init, PhaseInv, GateInv, ItemInv, Starting, Gated, Flows
<1>3. HaltInv /\ ResultInv /\ ExitIsHonest
  BY DEF Init, HaltInv, ResultInv, ExitIsHonest, Flows
<1> QED
  BY <1>1, <1>2, <1>3 DEF IInv

-----------------------------------------------------------------------------
\* The types that the parts of a step keep.
SignalOK ==
    /\ parked \in BOOLEAN /\ reset \in {"none", "near", "far"} /\ paused \in BOOLEAN
    /\ strikes \in 0..MaxStrikes

HaltOK == halted \in BOOLEAN /\ undurable \in BOOLEAN

ResultOK ==
    /\ latest \in [Claims \cup {NoItem} -> {"none", "completed", "failed", "parked"}]
    /\ allCompleted \in BOOLEAN
    /\ item \in [Flows -> Claims \cup {NoItem}]

LEMMA SignalTypes ==
  ASSUME TypeOK, HitLimit \/ (ClearPark /\ UNCHANGED strikes) \/ UNCHANGED <<signal, strikes>>
  PROVE  SignalOK'
<1>1. strikes' \in 0..MaxStrikes
  BY CampaignAssumption DEF TypeOK, HitLimit
<1>2. parked' \in BOOLEAN /\ reset' \in {"none", "near", "far"} /\ paused' \in BOOLEAN
  BY Zenon DEF TypeOK, HitLimit, ClearPark, signal
<1> QED
  BY <1>1, <1>2 DEF SignalOK

LEMMA SpendTypes ==
  ASSUME TypeOK, Spend
  PROVE  exceeded' \in BOOLEAN
<1>1. exceeded \in BOOLEAN
  BY DEF TypeOK
<1>2. CASE Continuous
  BY <1>1, <1>2, Zenon DEF Spend
<1>3. CASE ~Continuous
  BY <1>1, <1>3, Zenon DEF Spend
<1> QED
  BY <1>2, <1>3

LEMMA DrainTypes ==
  ASSUME TypeOK, DrainPass
  PROVE  SignalOK' /\ HaltOK' /\ exceeded' \in BOOLEAN
<1>1. SignalOK'
  BY SignalTypes DEF DrainPass
<1>2. halted' \in BOOLEAN /\ undurable' \in BOOLEAN
  BY Zenon DEF TypeOK, DrainPass
<1> QED
  BY <1>1, <1>2, SpendTypes DEF DrainPass, HaltOK

LEMMA PushTypes ==
  ASSUME TypeOK, NEW p \in Flows, NEW o \in {"none", "completed", "failed", "parked"}, Push(p, o)
  PROVE  ResultOK'
<1>1. item[p] \in Claims \cup {NoItem}
  BY DEF TypeOK
<1>2. latest' \in [Claims \cup {NoItem} -> {"none", "completed", "failed", "parked"}]
  BY <1>1 DEF TypeOK, Push
<1>3. item' \in [Flows -> Claims \cup {NoItem}]
  BY DEF TypeOK, Push
<1>4. allCompleted' \in BOOLEAN
  BY Zenon DEF Push
<1> QED
  BY <1>2, <1>3, <1>4 DEF ResultOK

LEMMA HaltsTypes ==
  ASSUME TypeOK, NEW b, Halts(b)
  PROVE  halted' \in BOOLEAN
  BY Zenon DEF Halts

LEMMA TypeSteps == TypeOK /\ GateInv /\ ItemInv /\ [Next]_vars => TypeOK'
<1> SUFFICES ASSUME TypeOK, GateInv, ItemInv, [Next]_vars PROVE TypeOK'
  OBVIOUS
<1> USE CampaignAssumption
<1>1. ASSUME NEW p \in Flows, campaignStartDrain(p) PROVE TypeOK'
  BY <1>1, DrainTypes DEF TypeOK, SignalOK, HaltOK, campaignStartDrain, LeaveGate, Goto, flags, counters, results, sweeping, resuming, Flows, Paid
<1>2. ASSUME NEW p \in Flows, StartDrainRetries(p) PROVE TypeOK'
  BY <1>2, SignalTypes DEF TypeOK, SignalOK, StartDrainRetries, Goto, flags, budget, counters, results, sweeping, resuming, Flows, Paid
<1>3. ASSUME NEW p \in Flows, runReviseSweepOnce(p) PROVE TypeOK'
  BY <1>3 DEF TypeOK, runReviseSweepOnce, Goto, flags, signal, budget, counters, results, sweeping, resuming, Flows, Paid, Claims
<1>4. ASSUME NEW p \in Flows, ClaimRevision(p) PROVE TypeOK'
  BY <1>4 DEF TypeOK, GateInv, ClaimRevision, Goto, flags, signal, budget, counters, results, sweeping, resuming, Flows, Paid
<1>5. ASSUME NEW p \in Flows, ReviseEnds(p) PROVE TypeOK'
  BY <1>5, PushTypes, HaltsTypes, SpendTypes DEF TypeOK, ResultOK, ReviseEnds, Goto, flags, signal, counters, sweeping, resuming, Flows, Paid
<1>6. ASSUME NEW p \in Flows, SweepEnds(p) PROVE TypeOK'
  BY <1>6 DEF TypeOK, SweepEnds, LeaveGate, Goto, flags, signal, budget, counters, results, sweeping, resuming, Flows, Paid
<1>7. ASSUME NEW p \in Flows, runPostCycleReviewDrain(p) PROVE TypeOK'
  <2>1. drainComplete' \in BOOLEAN
    BY <1>7, Zenon DEF TypeOK, runPostCycleReviewDrain, AfterCycle
  <2> QED
    BY <1>7, <2>1, DrainTypes DEF TypeOK, SignalOK, HaltOK, runPostCycleReviewDrain, AfterCycle, Goto, flags, counters, results, sweeping, resuming, Flows, Paid
<1>8. ASSUME NEW p \in Flows, RateLimited(p) PROVE TypeOK'
  BY <1>8 DEF TypeOK, RateLimited, HitLimit, flags, signal, budget, counters, results, sweeping, resuming
<1>9. ASSUME NEW w \in Workers, EnterGate(w) PROVE TypeOK'
  <2>1. CASE UNCHANGED <<todo, item>>
    BY <1>9, <2>1 DEF TypeOK, EnterGate, StartSweep, Goto, flags, signal, budget, counters, results, sweeping, resuming, Flows, Paid, Claims
  <2>2. CASE StartSweep(w) /\ gate' = w
    BY <1>9, <2>2 DEF TypeOK, EnterGate, StartSweep, Goto, flags, signal, budget, counters, results, sweeping, resuming, Flows, Paid, Claims
  <2> QED
    BY <1>9, <2>1, <2>2 DEF EnterGate
<1>10. ASSUME NEW w \in Workers, Wake(w) PROVE TypeOK'
  BY <1>10 DEF TypeOK, Wake, LeaveGate, Goto, flags, signal, budget, counters, results, sweeping, resuming, Flows, Paid
<1>11. ASSUME NEW w \in Workers, Probe(w) PROVE TypeOK'
  <2>1. drainComplete' \in BOOLEAN
    BY <1>11, Zenon DEF TypeOK, Probe
  <2> QED
    BY <1>11, <2>1 DEF TypeOK, Probe, LeaveGate, Goto, flags, signal, budget, counters, results, sweeping, resuming, Flows, Paid
<1>12. ASSUME NEW w \in Workers, Pull(w) PROVE TypeOK'
  BY <1>12 DEF TypeOK, Pull, Goto, flags, signal, budget, counters, results, sweeping, resuming, Flows, Paid, Claims
<1>13. ASSUME NEW w \in Workers, CycleEnds(w) PROVE TypeOK'
  <2>1. ResultOK'
    BY <1>13, PushTypes DEF CycleEnds, TransientResult, QuarantineResult, OtherResult, Flows
  <2>2. halted' \in BOOLEAN
    BY <1>13, HaltsTypes DEF TypeOK, CycleEnds, TransientResult, QuarantineResult, OtherResult
  <2>3. transients' \in 0..TransientLimit /\ quarantines' \in 0..QuarantineLimit
    BY <1>13 DEF TypeOK, CycleEnds, TransientResult, QuarantineResult, OtherResult
  <2>4. parked' \in BOOLEAN /\ reset' \in {"none", "near", "far"} /\ paused' \in BOOLEAN
    BY <1>13, Zenon DEF TypeOK, CycleEnds, TransientResult, QuarantineResult, OtherResult, signal
  <2>5. res' \in [Flows -> {"go", "halt", "empty"}]
    <3>1. PICK r \in {"go", "halt", "empty"} : res' = [res EXCEPT ![w] = r]
      BY <1>13 DEF CycleEnds, TransientResult, QuarantineResult, OtherResult
    <3> QED
      BY <3>1 DEF TypeOK
  <2>6. exceeded' \in BOOLEAN
    BY <1>13, SpendTypes DEF CycleEnds
  <2> QED
    BY <1>13, <2>1, <2>2, <2>3, <2>4, <2>5, <2>6 DEF TypeOK, ResultOK, CycleEnds, Goto, flags, sweeping, resuming, Flows, Paid
<1>14. ASSUME NEW w \in Workers, Notified(w) PROVE TypeOK'
  BY <1>14 DEF TypeOK, Notified, AfterCycle, Goto, flags, signal, budget, counters, results, sweeping, resuming, Flows, Paid
<1>15. CASE StartPool
  BY <1>15 DEF TypeOK, StartPool, flags, signal, budget, counters, results, sweeping, resuming, Flows, Paid
<1>16. CASE ParkBlock \/ Finish
  BY <1>16 DEF TypeOK, ParkBlock, Finish, Exit, Goto, flags, signal, budget, counters, results, sweeping, resuming, Flows, Paid, Running
<1>17. CASE AwaitReset \/ ResetPassed \/ RoundEnds
  <2>1. CASE ResetPassed
    BY <2>1, SignalTypes DEF TypeOK, SignalOK, ResetPassed, Goto, flags, budget, counters, results, sweeping, Flows, Paid
  <2>2. CASE AwaitReset
    <3>1. round' \in 0..MaxResumeRounds
      BY <2>2 DEF TypeOK, AwaitReset, AnotherRound
    <3> QED
      BY <2>2, <3>1 DEF TypeOK, AwaitReset, Goto, flags, signal, budget, counters, results, sweeping, Flows, Paid
  <2>3. CASE RoundEnds
    BY <2>3 DEF TypeOK, RoundEnds, Goto, flags, signal, budget, counters, results, sweeping, Flows, Paid
  <2> QED
    BY <1>17, <2>1, <2>2, <2>3
<1>18. CASE ResumeNext \/ ResumeEnds
  <2>1. CASE ResumeNext
    <3>1. PICK i \in queue :
            /\ queue' = queue \ {i}
            /\ \/ latest' = [latest EXCEPT ![i] = "failed"] /\ allCompleted' = FALSE /\ UNCHANGED <<pc, item>>
               \/ Goto(Main, "resuming") /\ item' = [item EXCEPT ![Main] = i] /\ UNCHANGED results
      BY <2>1 DEF ResumeNext
    <3>2. allCompleted' \in BOOLEAN
      BY <3>1, Zenon DEF TypeOK, results
    <3>3. latest' \in [Claims \cup {NoItem} -> {"none", "completed", "failed", "parked"}]
      BY <3>1 DEF TypeOK, results
    <3> QED
      BY <2>1, <3>1, <3>2, <3>3 DEF TypeOK, ResumeNext, Goto, flags, signal, budget, counters, sweeping, Flows, Paid
  <2>2. CASE ResumeEnds
    <3>1. PICK o \in {"completed", "failed", "parked"}, halts \in BOOLEAN :
            /\ Push(Main, o) /\ Halts(halts)
            /\ again' = (IF o = "parked" THEN again \cup {item[Main]} ELSE again)
            /\ queue' = (IF halts THEN {} ELSE queue)
            /\ Goto(Main, IF halts THEN "await" ELSE "resume")
      BY <2>2, Zenon DEF ResumeEnds
    <3>2. ResultOK' /\ halted' \in BOOLEAN
      <4>1. Main \in Flows /\ o \in {"none", "completed", "failed", "parked"}
        BY <3>1 DEF Flows
      <4>2. ResultOK'
        BY <3>1, <4>1, PushTypes
      <4>3. halted' \in BOOLEAN
        BY <3>1, HaltsTypes
      <4> QED
        BY <4>2, <4>3
    <3>3. item[Main] \in Claims
      BY <2>2 DEF ResumeEnds, ItemInv, Flows
    <3>4. queue' \subseteq Claims /\ again' \subseteq Claims
      BY <3>1, <3>3 DEF TypeOK
    <3>5. PICK l \in {"await", "resume"} : pc' = [pc EXCEPT ![Main] = l]
      BY <3>1 DEF Goto
    <3> QED
      BY <2>2, <3>2, <3>4, <3>5 DEF TypeOK, ResultOK, ResumeEnds, flags, signal, budget, counters, sweeping, Flows, Paid
  <2> QED
    BY <1>18, <2>1, <2>2
<1>19. CASE Pause
  <2>1. parked' \in BOOLEAN /\ reset' \in {"none", "near", "far"} /\ paused' \in BOOLEAN
    BY <1>19, Zenon DEF Pause
  <2>2. strikes' \in 0..MaxStrikes
    BY <1>19 DEF Pause, TypeOK
  <2> QED
    BY <1>19, <2>1, <2>2 DEF TypeOK, Pause, flags, budget, counters, results, sweeping, resuming
<1>20. CASE TimePasses \/ UNCHANGED vars
  BY <1>20 DEF TypeOK, TimePasses, vars, flags, signal, budget, counters, results, sweeping, resuming
<1>21. CASE NewDay
  <2>1. exceeded' \in BOOLEAN
    BY <1>21, Zenon DEF NewDay
  <2> QED
    BY <1>21, <2>1 DEF TypeOK, NewDay, flags, signal, counters, results, sweeping, resuming
<1> QED
  BY <1>1, <1>2, <1>3, <1>4, <1>5, <1>6, <1>7, <1>8, <1>9, <1>10, <1>11, <1>12, <1>13, <1>14, <1>15, <1>16, <1>17, <1>18, <1>19, <1>20, <1>21
     DEF Next, Flow, Worker, MainFlow

-----------------------------------------------------------------------------
\* A step of the pool or of the main flow.
LEMMA PhaseSteps == TypeOK /\ PhaseInv /\ [Next]_vars => PhaseInv'
<1> SUFFICES ASSUME TypeOK, PhaseInv, [Next]_vars PROVE PhaseInv'
  OBVIOUS
<1> USE CampaignAssumption DEF PhaseInv, TypeOK, Flows, Starting, Goto
<1>1. ASSUME NEW w \in Workers, Flow(w) \/ Worker(w) PROVE PhaseInv'
  <2>1. pc[w] \notin {"off", "done"}
    BY <1>1 DEF Flow, Worker, campaignStartDrain, StartDrainRetries, runReviseSweepOnce, ClaimRevision, ReviseEnds, SweepEnds,
         runPostCycleReviewDrain, EnterGate, Wake, Probe, Pull, CycleEnds, Notified
  <2>2. pc'[Main] = pc[Main]
    <3>1. CASE Flow(w)
      BY <3>1 DEF Flow, campaignStartDrain, StartDrainRetries, runReviseSweepOnce, ClaimRevision, ReviseEnds, SweepEnds,
         runPostCycleReviewDrain, LeaveGate, AfterCycle
    <3>2. CASE Worker(w)
      BY <3>2 DEF Worker, EnterGate, StartSweep, Wake, Probe, Pull, CycleEnds, Notified, LeaveGate, AfterCycle
    <3> QED
      BY <1>1, <3>1, <3>2
  <2> QED
    BY <2>1, <2>2
<1>2. ASSUME Flow(Main) \/ MainFlow PROVE PhaseInv'
  <2>1. CASE Flow(Main)
    BY <2>1 DEF Flow, campaignStartDrain, StartDrainRetries, runReviseSweepOnce, ClaimRevision, ReviseEnds, SweepEnds,
         runPostCycleReviewDrain, LeaveGate, AfterCycle
  <2>2. CASE StartPool
    BY <2>2 DEF StartPool
  <2>3. CASE ParkBlock \/ Finish
    BY <2>3 DEF ParkBlock, Finish, Exit
  <2>4. CASE AwaitReset \/ ResetPassed \/ RoundEnds \/ ResumeNext \/ ResumeEnds
    BY <2>4 DEF AwaitReset, ResetPassed, RoundEnds, ResumeNext, ResumeEnds
  <2> QED
    BY <1>2, <2>1, <2>2, <2>3, <2>4 DEF MainFlow
<1>3. CASE (\E p \in Flows : RateLimited(p)) \/ Pause \/ TimePasses \/ NewDay \/ UNCHANGED vars
  BY <1>3 DEF RateLimited, Pause, TimePasses, NewDay, vars
<1> QED
  BY <1>1, <1>2, <1>3 DEF Next

-----------------------------------------------------------------------------
\* What a worker may do to the gate, the sweep and the claims.
GateStep(w) ==
    /\ mode' = mode /\ \A q \in Flows \ {w} : pc'[q] = pc[q] /\ item'[q] = item[q]
    /\ gate' = gate \/ gate \in {Free, w}
    /\ pc'[w] \in Gated => gate' = w /\ Continuous
    /\ todo' \subseteq todo \/ gate' = w
    /\ pc'[w] = "claim" => item'[w] \in Claims \ todo'
    /\ pc'[w] \in {"revise", "resuming"} => item'[w] \in Claims

LEMMA WorkerGateSteps ==
  ASSUME TypeOK, GateInv, ItemInv, NEW w \in Workers, Flow(w) \/ Worker(w)
  PROVE  GateStep(w)
<1> USE CampaignAssumption DEF Goto
<1>1. /\ pc[w] \in Gated => gate = w /\ Continuous
      /\ pc[w] \in {"claim", "revise", "resuming"} => item[w] \in Claims
      /\ w \in Flows /\ w # Main /\ prs \subseteq Claims /\ todo \subseteq prs
      /\ pc \in [Flows -> Paid \cup {"off", "top", "drain", "wait", "budgetSleep", "sweep", "claim",
                  "sweepEnd", "probe", "sleep", "notify", "postDrain", "done",
                  "pool", "await", "resetWait", "resume", "exited"}]
      /\ item \in [Flows -> Claims \cup {NoItem}]
  BY DEF GateInv, ItemInv, TypeOK, Flows, Claims
<1>2. CASE campaignStartDrain(w) \/ StartDrainRetries(w)
  BY <1>1, <1>2 DEF GateStep, Gated, campaignStartDrain, StartDrainRetries, LeaveGate, flags, sweeping, Continuous
<1>3. CASE runReviseSweepOnce(w)
  BY <1>1, <1>3 DEF GateStep, Gated, runReviseSweepOnce, flags, Continuous
<1>4. CASE ClaimRevision(w)
  BY <1>1, <1>4 DEF GateStep, Gated, ClaimRevision, flags, Continuous
<1>5. CASE ReviseEnds(w)
  BY <1>1, <1>5 DEF GateStep, Gated, ReviseEnds, Push, flags, sweeping, Continuous
<1>6. CASE SweepEnds(w)
  BY <1>1, <1>6 DEF GateStep, Gated, SweepEnds, LeaveGate, flags, sweeping, Continuous
<1>7. CASE runPostCycleReviewDrain(w)
  BY <1>1, <1>7 DEF GateStep, Gated, runPostCycleReviewDrain, AfterCycle, flags, sweeping
<1>8. CASE EnterGate(w)
  <2>1. CASE UNCHANGED <<todo, item>>
    BY <1>1, <1>8, <2>1 DEF GateStep, Gated, EnterGate, StartSweep, flags, Continuous
  <2>2. CASE gate' = w /\ StartSweep(w)
    BY <1>1, <1>8, <2>2 DEF GateStep, Gated, EnterGate, StartSweep, flags, Continuous
  <2> QED
    BY <1>8, <2>1, <2>2 DEF EnterGate
<1>9. CASE Wake(w) \/ Probe(w)
  BY <1>1, <1>9 DEF GateStep, Gated, Wake, Probe, LeaveGate, flags, sweeping, Continuous
<1>10. CASE Pull(w)
  BY <1>1, <1>10 DEF GateStep, Gated, Pull, flags, sweeping
<1>11. CASE CycleEnds(w)
  <2>1. /\ pc[w] = "pipeline" /\ pc' = [pc EXCEPT ![w] = "notify"] /\ UNCHANGED <<mode, gate, todo>>
        /\ item' = [item EXCEPT ![w] = NoItem]
    BY <1>11 DEF CycleEnds, TransientResult, QuarantineResult, OtherResult, Push, flags, sweeping
  <2> QED
    BY <1>1, <2>1 DEF GateStep, Gated
<1>12. CASE Notified(w)
  BY <1>1, <1>12 DEF GateStep, Gated, Notified, AfterCycle, flags, sweeping
<1> QED
  BY <1>2, <1>3, <1>4, <1>5, <1>6, <1>7, <1>8, <1>9, <1>10, <1>11, <1>12 DEF Flow, Worker

\* The gate passes from worker to worker; the main flow sweeps before there are any.
LEMMA GateSteps == TypeOK /\ PhaseInv /\ GateInv /\ ItemInv /\ [Next]_vars => GateInv' /\ ItemInv'
<1> SUFFICES ASSUME TypeOK, PhaseInv, GateInv, ItemInv, [Next]_vars PROVE GateInv' /\ ItemInv'
  OBVIOUS
<1>1. ASSUME NEW w \in Workers, Flow(w) \/ Worker(w) PROVE GateInv' /\ ItemInv'
  <2>1. GateStep(w)
    BY <1>1, WorkerGateSteps
  <2>2. pc[Main] # "claim"
    <3>1. pc[w] # "off"
      BY <1>1 DEF Flow, Worker, campaignStartDrain, StartDrainRetries, runReviseSweepOnce, ClaimRevision, ReviseEnds, SweepEnds,
         runPostCycleReviewDrain, EnterGate, Wake, Probe, Pull, CycleEnds, Notified
    <3> QED
      BY <3>1 DEF PhaseInv, Starting
  <2>3. ASSUME NEW v \in Workers, pc'[v] \in Gated PROVE gate' = v /\ Continuous'
    BY <2>1, <2>3, CampaignAssumption DEF GateStep, GateInv, Continuous, Flows
  <2>4. ASSUME NEW p \in Flows, pc'[p] = "claim" PROVE item'[p] \notin todo'
    <3>1. CASE p = w
      BY <2>1, <2>4, <3>1 DEF GateStep
    <3>2. CASE p # w
      <4>1. pc[p] = "claim" /\ item'[p] = item[p] /\ p \in Workers /\ p # w
        BY <2>1, <2>2, <2>4, <3>2 DEF GateStep, Flows
      <4>2. gate' = p /\ item[p] \notin todo
        BY <2>3, <2>4, <4>1 DEF GateInv, Gated
      <4> QED
        BY <2>1, <4>1, <4>2 DEF GateStep
    <3> QED
      BY <3>1, <3>2
  <2>5. ItemInv'
    BY <2>1 DEF GateStep, ItemInv
  <2> QED
    BY <2>3, <2>4, <2>5 DEF GateInv
<1>2. CASE Flow(Main)
  <2>1. pc[Main] \in Starting \/ (pc[Main] = "postDrain" /\ pc' = [pc EXCEPT ![Main] = "await"] /\ UNCHANGED <<item, mode, gate, todo>>)
    BY <1>2, CampaignAssumption DEF Flow, Starting, campaignStartDrain, StartDrainRetries, runReviseSweepOnce, ClaimRevision,
         ReviseEnds, SweepEnds, runPostCycleReviewDrain, Goto, flags, sweeping
  <2>2. CASE pc[Main] \in Starting
    <3>1. \A w \in Workers : pc[w] = "off"
      BY <2>2 DEF PhaseInv
    <3>2. /\ \A w \in Workers : pc'[w] = "off" /\ item'[w] = item[w]
          /\ pc'[Main] = "claim" => item'[Main] \in Claims \ todo'
          /\ pc'[Main] = "revise" => item'[Main] \in Claims
          /\ pc'[Main] # "resuming"
      BY <1>2, <2>2, <3>1, CampaignAssumption
         DEF TypeOK, GateInv, ItemInv, Flow, Starting, Flows, Claims, campaignStartDrain, StartDrainRetries, runReviseSweepOnce,
             ClaimRevision, ReviseEnds, SweepEnds, runPostCycleReviewDrain, LeaveGate, Goto, Push
    <3> QED
      BY <3>2, CampaignAssumption DEF GateInv, ItemInv, Gated, Flows
  <2>3. CASE pc' = [pc EXCEPT ![Main] = "await"] /\ UNCHANGED <<item, mode, gate, todo>>
    BY <2>3, CampaignAssumption DEF TypeOK, GateInv, ItemInv, Flows, Continuous, Gated
  <2> QED
    BY <2>1, <2>2, <2>3
<1>3. CASE StartPool
  <2>1. \A p \in Flows : pc'[p] \in {"pool", "done", "top"}
    BY <1>3 DEF StartPool
  <2> QED
    BY <2>1 DEF GateInv, ItemInv, Gated, Flows
<1>4. CASE ParkBlock \/ Finish \/ AwaitReset \/ ResetPassed \/ RoundEnds \/ ResumeNext \/ ResumeEnds
  <2>1. /\ UNCHANGED <<mode, gate, todo>>
        /\ \A w \in Workers : pc'[w] = pc[w] /\ item'[w] = item[w]
        /\ pc'[Main] \notin {"claim", "revise"}
        /\ pc'[Main] = "resuming" => item'[Main] \in Claims
    BY <1>4, CampaignAssumption DEF TypeOK, Flows, ParkBlock, Finish, AwaitReset, ResetPassed, RoundEnds, ResumeNext, ResumeEnds, Goto, Exit,
         Push, flags, sweeping
  <2> QED
    BY <2>1 DEF GateInv, ItemInv, Flows, Continuous
<1>5. CASE (\E p \in Flows : RateLimited(p)) \/ Pause \/ TimePasses \/ NewDay \/ UNCHANGED vars
  BY <1>5 DEF GateInv, ItemInv, RateLimited, Pause, TimePasses, NewDay, vars, flags, sweeping, Continuous
<1> QED
  BY <1>1, <1>2, <1>3, <1>4, <1>5 DEF Next, Flows, MainFlow

-----------------------------------------------------------------------------
(* What halts, and what the exit code says of it.                          *)

\* What was halted stays halted, and only a step with a result or a drain says more.
LEMMA HaltSteps == TypeOK /\ HaltInv /\ ResultInv /\ [Next]_vars => HaltInv' /\ ResultInv'
<1> SUFFICES ASSUME TypeOK, HaltInv, ResultInv, [Next]_vars PROVE HaltInv' /\ ResultInv'
  OBVIOUS
<1> USE CampaignAssumption DEF HaltInv, ResultInv
<1>1. ASSUME NEW p \in Flows, NEW o \in {"completed", "failed", "parked"}, Push(p, o)
      PROVE  /\ ResultInv'
             /\ o # "completed" => ~allCompleted'
             /\ ~allCompleted => ~allCompleted'
  BY <1>1 DEF TypeOK, Push
<1>2. ASSUME DrainPass, UNCHANGED <<latest, allCompleted>>, \A w \in Workers : res'[w] = "halt" => res[w] = "halt"
      PROVE  HaltInv' /\ ResultInv'
  BY <1>2 DEF DrainPass
<1>3. ASSUME UNCHANGED <<latest, allCompleted, halted, undurable>>, \A w \in Workers : res'[w] = "halt" => res[w] = "halt"
      PROVE  HaltInv' /\ ResultInv'
  BY <1>3
<1>4. ASSUME NEW p \in Flows, campaignStartDrain(p) \/ runPostCycleReviewDrain(p) PROVE HaltInv' /\ ResultInv'
  BY <1>2, <1>4 DEF TypeOK, Flows, campaignStartDrain, runPostCycleReviewDrain, AfterCycle, results
<1>5. ASSUME NEW p \in Flows, ReviseEnds(p) PROVE HaltInv' /\ ResultInv'
  <2>1. PICK o \in {"completed", "failed", "parked"}, halts \in BOOLEAN :
          (o = "completed" => ~halts) /\ Push(p, o) /\ Halts(halts)
    BY <1>5, Zenon DEF ReviseEnds
  <2> QED
    BY <1>1, <1>5, <2>1 DEF ReviseEnds, Halts
<1>6. CASE ResumeEnds
  <2>1. PICK o \in {"completed", "failed", "parked"}, halts \in BOOLEAN :
          (o = "completed" => ~halts) /\ Push(Main, o) /\ Halts(halts)
    BY <1>6, Zenon DEF ResumeEnds
  <2> QED
    BY <1>1, <1>6, <2>1 DEF ResumeEnds, Halts, Flows
<1>7. CASE ResumeNext
  BY <1>7 DEF ResumeNext, results
<1>8. ASSUME NEW w \in Workers, CycleEnds(w) PROVE HaltInv' /\ ResultInv'
  <2>1. CASE TransientResult(w)
    BY <1>1, <1>8, <2>1 DEF CycleEnds, TransientResult, Flows, TypeOK
  <2>2. CASE QuarantineResult(w)
    BY <1>1, <1>8, <2>2 DEF CycleEnds, QuarantineResult, Halts, Flows, TypeOK
  <2>3. CASE OtherResult(w)
    <3>1. PICK o \in {"completed", "failed", "parked"}, q \in {"go", "halt", "empty"} :
            (o = "completed" => q = "go") /\ Push(w, o) /\ res' = [res EXCEPT ![w] = q] /\ Halts(q = "halt")
      BY <2>3 DEF OtherResult
    <3>2. /\ ResultInv'
          /\ q = "halt" => ~allCompleted'
          /\ ~allCompleted => ~allCompleted'
      BY <1>1, <3>1 DEF Flows
    <3>3. undurable' = undurable /\ (halted' <=> halted \/ q = "halt")
      BY <1>8, <3>1 DEF CycleEnds, Halts, TypeOK
    <3>4. \A v \in Workers : res'[v] = "halt" => res[v] = "halt" \/ q = "halt"
      BY <3>1 DEF TypeOK, Flows
    <3> QED
      BY <3>2, <3>3, <3>4
  <2> QED
    BY <1>8, <2>1, <2>2, <2>3 DEF CycleEnds
<1>9. ASSUME NEW p \in Flows, StartDrainRetries(p) \/ runReviseSweepOnce(p) \/ ClaimRevision(p) \/ SweepEnds(p) \/ RateLimited(p)
      PROVE  HaltInv' /\ ResultInv'
  BY <1>3, <1>9 DEF StartDrainRetries, runReviseSweepOnce, ClaimRevision, SweepEnds, RateLimited, results
<1>10. ASSUME NEW w \in Workers, EnterGate(w) \/ Wake(w) \/ Probe(w) \/ Pull(w) \/ Notified(w)
       PROVE  HaltInv' /\ ResultInv'
  BY <1>3, <1>10 DEF TypeOK, Flows, EnterGate, Wake, Probe, Pull, Notified, AfterCycle, results
<1>11. CASE StartPool \/ ParkBlock \/ AwaitReset \/ ResetPassed \/ RoundEnds \/ Finish \/ Pause \/ TimePasses \/ NewDay \/ UNCHANGED vars
  BY <1>3, <1>11 DEF StartPool, ParkBlock, AwaitReset, ResetPassed, RoundEnds, Finish, Pause, TimePasses, NewDay, vars, results
<1> QED
  BY <1>4, <1>5, <1>6, <1>7, <1>8, <1>9, <1>10, <1>11 DEF Next, Flow, Worker, MainFlow

\* After the exit nothing that the exit code speaks of moves: the workers are done.
LEMMA ExitSteps ==
  ASSUME TypeOK, PhaseInv, HaltInv, ResultInv, ExitIsHonest, [Next]_vars
  PROVE  ExitIsHonest'
<1> USE CampaignAssumption
<1>1. CASE pc[Main] = "exited"
  <2>1. \A w \in Workers : pc[w] = "done"
    BY <1>1 DEF PhaseInv, Starting
  <2>2. \A p \in Flows : pc[p] \in {"done", "exited"} /\ pc[p] \notin Paid
    BY <1>1, <2>1 DEF Flows, Paid
  <2>3. CASE TimePasses \/ NewDay \/ UNCHANGED vars
    BY <1>1, <2>3 DEF ExitIsHonest, TimePasses, NewDay, vars, flags, signal, results, resuming
  <2>4. ~\E p \in Flows : Flow(p) \/ RateLimited(p)
    BY <2>2 DEF Flow, RateLimited, campaignStartDrain, StartDrainRetries, runReviseSweepOnce, ClaimRevision, ReviseEnds, SweepEnds,
         runPostCycleReviewDrain
  <2>5. ~\E w \in Workers : Worker(w)
    BY <2>1 DEF Worker, EnterGate, Wake, Probe, Pull, CycleEnds, Notified
  <2>6. ~MainFlow /\ ~Pause
    BY <1>1 DEF MainFlow, StartPool, ParkBlock, AwaitReset, ResetPassed, ResumeNext, ResumeEnds, RoundEnds, Finish, Pause
  <2> QED
    BY <2>3, <2>4, <2>5, <2>6 DEF Next
<1>2. CASE pc[Main] # "exited" /\ pc'[Main] = "exited"
  <2>1. ParkBlock \/ Finish
    <3>1. \A w \in Workers : ~Worker(w) /\ ~Flow(w)
      <4> SUFFICES ASSUME NEW w \in Workers, Worker(w) \/ Flow(w) PROVE pc'[Main] = pc[Main]
        BY <1>2
      <4>1. \E l : pc' = [pc EXCEPT ![w] = l]
        BY DEF Worker, Flow, campaignStartDrain, StartDrainRetries, runReviseSweepOnce, ClaimRevision, ReviseEnds, SweepEnds,
         runPostCycleReviewDrain, EnterGate, StartSweep, Wake, Probe, Pull, CycleEnds, Notified, LeaveGate, AfterCycle, Goto
      <4> QED
        BY <4>1 DEF TypeOK, Flows
    <3>2. ~Flow(Main)
      BY <1>2 DEF TypeOK, Flows, Flow, campaignStartDrain, StartDrainRetries, runReviseSweepOnce, ClaimRevision, ReviseEnds, SweepEnds,
         runPostCycleReviewDrain, LeaveGate, AfterCycle, Goto
    <3>3. ~(StartPool \/ AwaitReset \/ ResetPassed \/ ResumeNext \/ ResumeEnds \/ RoundEnds)
      BY <1>2 DEF TypeOK, Flows, StartPool, AwaitReset, ResetPassed, ResumeNext, ResumeEnds, RoundEnds, Goto
    <3>4. ~((\E p \in Flows : RateLimited(p)) \/ Pause \/ TimePasses \/ NewDay \/ UNCHANGED vars)
      BY <1>2 DEF RateLimited, Pause, TimePasses, NewDay, vars
    <3> QED
      BY <3>1, <3>2, <3>3, <3>4 DEF Next, MainFlow, Flows
  <2>2. UNCHANGED <<parked, halted, undurable, latest, allCompleted>>
    BY <2>1 DEF ParkBlock, Finish, signal, results
  <2>3. CASE ParkBlock
    <3>1. parked /\ exit' = (IF halted \/ undurable THEN 1 ELSE 75)
      BY <1>2, <2>3 DEF ParkBlock, Exit, Goto, TypeOK, Flows
    <3>2. parked' /\ halted' = halted /\ exit' # 0 /\ (~halted => exit' = 75)
      BY <2>2, <3>1 DEF HaltInv
    <3> QED
      BY <3>2, Zenon DEF ExitIsHonest
  <2>4. CASE Finish
    <3>1. exit' = (IF undurable THEN 1 ELSE IF parked THEN IF halted THEN 1 ELSE 75
                   ELSE IF ~halted /\ hasUnresolvedPark THEN 75 ELSE IF allCompleted THEN 0 ELSE 1)
      BY <2>4 DEF Finish, Exit
    <3>2. DOMAIN latest = Claims \cup {NoItem}
      BY DEF TypeOK
    <3> QED
      BY <2>2, <3>1, <3>2 DEF HaltInv, ResultInv, ExitIsHonest, hasUnresolvedPark
  <2> QED
    BY <2>1, <2>3, <2>4
<1> QED
  BY <1>1, <1>2 DEF ExitIsHonest

LEMMA Steps == IInv /\ [Next]_vars => IInv'
  BY TypeSteps, PhaseSteps, GateSteps, HaltSteps, ExitSteps DEF IInv

-----------------------------------------------------------------------------
\* The invariant holds in every reachable state, for any workers, items, modes and limits.
THEOREM Invariance == Spec => []IInv
  BY InitInv, Steps, PTL DEF Spec

\* Every variable keeps its type; the counters stay within the limits of the code.
THEOREM TypeCorrect == Spec => []TypeOK
<1>1. IInv => TypeOK
  BY DEF IInv
<1> QED
  BY <1>1, Invariance, PTL

\* The exit code tells the truth, whatever parked, paused, halted or was resumed on the way
\* (the summary at the end of runOrchestrator).
THEOREM ExitHonest == Spec => []ExitIsHonest
<1>1. IInv => ExitIsHonest
  BY DEF IInv
<1> QED
  BY <1>1, Invariance, PTL

\* After a halting result no worker launches another cycle (campaignHalted).
LEMMA HaltStopsSteps ==
  ASSUME IInv, [Next]_vars, halted \/ \E w \in Workers : res[w] = "halt",
         NEW w \in Workers, pc'[w] = "pipeline"
  PROVE  pc[w] = "pipeline"
<1>1. halted
  BY DEF IInv, HaltInv
<1>2. TypeOK
  BY DEF IInv
<1>3. ASSUME NEW p \in Flows, Flow(p) PROVE pc[w] = "pipeline"
  BY <1>2, <1>3 DEF TypeOK, Flows, Flow, campaignStartDrain, StartDrainRetries, runReviseSweepOnce, ClaimRevision, ReviseEnds, SweepEnds,
         runPostCycleReviewDrain, LeaveGate, AfterCycle, Goto
<1>4. ASSUME NEW v \in Workers, Worker(v) PROVE pc[w] = "pipeline"
  BY <1>1, <1>2, <1>4 DEF TypeOK, Flows, Worker, EnterGate, StartSweep, Wake, Probe, Pull, CycleEnds, Notified, LeaveGate, AfterCycle, Goto
<1>5. CASE MainFlow
  BY <1>2, <1>5, CampaignAssumption DEF TypeOK, Flows, MainFlow, StartPool, ParkBlock, AwaitReset, ResetPassed, ResumeNext, ResumeEnds, RoundEnds, Finish, Exit, Goto
<1>6. CASE (\E p \in Flows : RateLimited(p)) \/ Pause \/ TimePasses \/ NewDay \/ UNCHANGED vars
  BY <1>6 DEF RateLimited, Pause, TimePasses, NewDay, vars
<1> QED
  BY <1>3, <1>4, <1>5, <1>6 DEF Next

\* Once a worker has received a result that halts the campaign, no worker launches another
\* cycle, not even while the halting one awaits its notification.
THEOREM HaltSafe == Spec => HaltStopsCycles
<1>1. IInv /\ [Next]_vars => [(halted \/ \E w \in Workers : res[w] = "halt") =>
          \A w \in Workers : pc'[w] = "pipeline" => pc[w] = "pipeline"]_vars
  BY HaltStopsSteps
<1> QED
  BY <1>1, Invariance, PTL DEF Spec, HaltStopsCycles
=============================================================================
