------------------------------ MODULE Campaign ------------------------------
(***************************************************************************)
(* One campaign process: runOrchestrator of orchestrator.ts in its normal  *)
(* (not --resume) mode.  Workers pull cycles, behind one gate when the run *)
(* is continuous; a park signal shared by everything stops them at their   *)
(* next step boundary; the main flow drains reviews at the start, sweeps   *)
(* red pull requests, waits out a rate limit and resumes what was parked,  *)
(* and reports an exit code.                                               *)
(*                                                                         *)
(* The process is one JavaScript thread: an action runs from one await to  *)
(* the next.  What a pipeline does inside is its outcome here; a review    *)
(* drain (module ReviewDrain) is what it can do to the campaign: park it,  *)
(* spend, or lose a receipt.                                               *)
(***************************************************************************)
EXTENDS Integers

CONSTANTS Workers, Main,       \* the worker pool, and the main flow
          Items, Prs,          \* roadmap items, and items with a red pull request
          NoItem, Free,        \* a cycle that claimed nothing; nobody holds the gate
          Modes,               \* which of "batch", "drain" and "watch" to start in
          Cycles,              \* --cycles, the ceiling of a continuous run
          TransientLimit, QuarantineLimit,   \* CONSECUTIVE_..._LIMIT, 3 and 5 in the code
          MaxResumeRounds,                   \* 12 in the code
          MaxStrikes                         \* bound: rate limits hit and pauses received

ASSUME CampaignAssumption ==
    /\ Main \notin Workers /\ Free \notin Workers /\ Items \cap Prs = {}
    /\ NoItem \notin Items \cup Prs
    /\ Modes \subseteq {"batch", "drain", "watch"}
    /\ Cycles \in Nat \ {0} /\ TransientLimit \in Nat \ {0} /\ QuarantineLimit \in Nat \ {0}
    /\ MaxResumeRounds \in Nat /\ MaxStrikes \in Nat

VARIABLES
    mode, autoResume,      \* flags and configuration
    pc, item, res,         \* where each flow awaits; its item; the disposition of its result
    gate,                  \* continuousGate
    parked, reset,         \* parkSignal: resetsAt is absent or past, within --max-wait, or beyond
    paused,                \* an operator's SIGUSR2 was received
    halted, undurable,     \* campaignHalted, receiptUndurable
    exceeded, deferred,    \* the day budget is spent; campaignDrainDeferred
    drainComplete, nextCycle, transients, quarantines,
    latest, allCompleted,  \* results: the latest outcome per item, and of all
    prs, todo,             \* red pull requests without the one-pass label; left in this sweep
    queue, again, round,   \* items to resume in this round; parked again; rounds so far
    exit,                  \* the exit code, or Running
    strikes

signal == <<parked, reset, paused>>
flags == <<mode, autoResume>>
budget == <<exceeded, deferred>>
counters == <<nextCycle, transients, quarantines>>
results == <<latest, allCompleted>>
sweeping == <<prs, todo>>
resuming == <<queue, again, round>>
vars == <<flags, pc, item, res, gate, signal, halted, undurable, budget, drainComplete,
          counters, results, sweeping, resuming, exit, strikes>>

Flows == Workers \cup {Main}
Claims == Items \cup Prs
Paid == {"pipeline", "revise", "resuming"}   \* where a pipeline runs
Continuous == mode # "batch"
Running == -1

\* The types of all variables.
TypeOK ==
    /\ mode \in {"batch", "drain", "watch"} /\ autoResume \in BOOLEAN
    /\ pc \in [Flows -> Paid \cup {"off", "top", "drain", "wait", "budgetSleep", "sweep", "claim",
                  "sweepEnd", "probe", "sleep", "notify", "postDrain", "done",
                  "pool", "await", "resetWait", "resume", "exited"}]
    /\ item \in [Flows -> Claims \cup {NoItem}] /\ res \in [Flows -> {"go", "halt", "empty"}]
    /\ gate \in Workers \cup {Free}
    /\ parked \in BOOLEAN /\ reset \in {"none", "near", "far"} /\ paused \in BOOLEAN
    /\ halted \in BOOLEAN /\ undurable \in BOOLEAN
    /\ exceeded \in BOOLEAN /\ deferred \in BOOLEAN /\ drainComplete \in BOOLEAN
    /\ nextCycle \in 0..Cycles + 1
    /\ transients \in 0..TransientLimit /\ quarantines \in 0..QuarantineLimit
    /\ latest \in [Claims \cup {NoItem} -> {"none", "completed", "failed", "parked"}]
    /\ allCompleted \in BOOLEAN
    /\ prs \subseteq Prs /\ todo \subseteq prs /\ queue \subseteq Claims /\ again \subseteq Claims
    /\ round \in 0..MaxResumeRounds /\ exit \in {Running, 0, 1, 75}
    /\ strikes \in 0..MaxStrikes

\* The main flow begins with the campaign-start drain, unless the spend reconstructed
\* from the ledger is already at the cap.
Init ==
    /\ mode \in Modes /\ autoResume \in BOOLEAN
    /\ exceeded \in {FALSE} \cup IF Continuous THEN {TRUE} ELSE {}
    /\ deferred = exceeded
    /\ pc = [p \in Flows |-> IF p # Main THEN "off" ELSE IF exceeded THEN "sweep" ELSE "drain"]
    /\ item = [p \in Flows |-> NoItem] /\ res = [p \in Flows |-> "go"]
    /\ gate = Free
    /\ parked = FALSE /\ reset = "none" /\ paused = FALSE
    /\ halted = FALSE /\ undurable = FALSE /\ drainComplete = FALSE
    /\ nextCycle = 0 /\ transients = 0 /\ quarantines = 0
    /\ latest = [i \in Claims \cup {NoItem} |-> "none"] /\ allCompleted = TRUE
    /\ prs = Prs /\ todo \in SUBSET (IF Continuous THEN {} ELSE Prs)
    /\ queue = {} /\ again = {} /\ round = 0
    /\ exit = Running /\ strikes = 0

-----------------------------------------------------------------------------
Goto(p, l) == pc' = [pc EXCEPT ![p] = l]

\* The worker leaves the gate for l.
LeaveGate(w, l) == gate' = Free /\ Goto(w, l)

\* Paid work may reach the day budget, when there is one.
Spend == exceeded' \in {exceeded} \cup IF Continuous THEN {TRUE} ELSE {}

\* awaitParkReset hands back a park with no reset time, a past one, or one beyond --max-wait.
Waitable == reset = "near"

ClearPark == parked' = FALSE /\ reset' = "none" /\ UNCHANGED paused

\* A provider reports a rate limit; the reset is reported, parsed or estimated.
HitLimit ==
    /\ strikes < MaxStrikes /\ strikes' = strikes + 1
    /\ parked' = TRUE /\ reset' \in {"near", "far"}
    /\ UNCHANGED paused

\* A pass of the local review drain: done, parked by its gate, or halted because the
\* receipt of a charge was not durable, or both.
DrainPass ==
    /\ HitLimit \/ UNCHANGED <<signal, strikes>>
    /\ \/ Spend /\ UNCHANGED <<halted, undurable>>
       \/ Continuous /\ Spend /\ halted' = TRUE /\ undurable' = TRUE

\* push the result of p's item.
Push(p, outcome) ==
    /\ latest' = [latest EXCEPT ![item[p]] = outcome]
    /\ allCompleted' = (allCompleted /\ outcome = "completed")
    /\ item' = [item EXCEPT ![p] = NoItem]

\* Mutant: a halting result stops only the worker that received it.
HaltsLate(b) == UNCHANGED halted

\* campaignHalted, raised before the notification of the result is awaited.
Halts(b) == halted' = (halted \/ b)

-----------------------------------------------------------------------------
\* The campaign-start drain, by the main flow or, deferred, by a gate holder.  A park is
\* waited out in place when it can be.
campaignStartDrain(p) ==
    /\ pc[p] = "drain"
    /\ DrainPass
    /\ IF parked' /\ autoResume /\ reset' = "near" THEN Goto(p, "wait") /\ UNCHANGED gate
       ELSE IF p = Main THEN Goto(p, "sweep") /\ UNCHANGED gate
       ELSE LeaveGate(p, "top")
    /\ UNCHANGED <<flags, item, res, deferred, drainComplete, counters, results, sweeping,
                   resuming, exit>>

\* Mutant: the drain is retried with the park still signalled.
StartDrainRetriesParked(p) ==
    /\ pc[p] = "wait" /\ UNCHANGED signal
    /\ Goto(p, "drain")
    /\ UNCHANGED <<flags, item, res, gate, halted, undurable, budget, drainComplete,
                   counters, results, sweeping, resuming, exit, strikes>>

StartDrainRetries(p) ==
    /\ pc[p] = "wait" /\ ClearPark
    /\ Goto(p, "drain")
    /\ UNCHANGED <<flags, item, res, gate, halted, undurable, budget, drainComplete,
                   counters, results, sweeping, resuming, exit, strikes>>

-----------------------------------------------------------------------------
\* A sweep begins: the red pull requests it lists and finds managed, the first of which it
\* claims before it awaits anything.
StartSweep(w) ==
    \E managed \in SUBSET prs :
       \/ managed = {} /\ Goto(w, "probe") /\ todo' = {} /\ UNCHANGED item
       \/ \E q \in managed :
             Goto(w, "claim") /\ todo' = managed \ {q} /\ item' = [item EXCEPT ![w] = q]

\* Acquire the continuous gate and take its first decision.
EnterGate(w) ==
    /\ pc[w] = "top" /\ Continuous /\ gate = Free
    /\ IF halted \/ parked \/ drainComplete \/ (exceeded /\ mode = "drain")
       THEN Goto(w, "done") /\ UNCHANGED <<gate, deferred, todo, item>>
       ELSE /\ gate' = w
            /\ deferred' = (deferred /\ exceeded)
            /\ IF exceeded THEN Goto(w, "budgetSleep") /\ UNCHANGED <<todo, item>>
               ELSE IF deferred THEN Goto(w, "drain") /\ UNCHANGED <<todo, item>>
               ELSE StartSweep(w)
    /\ UNCHANGED <<flags, res, signal, halted, undurable, exceeded, drainComplete,
                   counters, results, prs, resuming, exit, strikes>>

\* Midnight has passed, or the next probe is due.
Wake(w) ==
    /\ \/ pc[w] = "budgetSleep" /\ ~exceeded
       \/ pc[w] = "sleep"
    /\ LeaveGate(w, IF parked THEN "done" ELSE "top")
    /\ UNCHANGED <<flags, item, res, signal, halted, undurable, budget, drainComplete,
                   counters, results, sweeping, resuming, exit, strikes>>

\* The revise sweep takes its next red pull request, unless the campaign is parked by now;
\* the loop does not look at the halt.
runReviseSweepOnce(p) ==
    /\ pc[p] = "sweep" /\ ~parked
    /\ \E q \in todo :
          /\ todo' = todo \ {q}
          /\ item' = [item EXCEPT ![p] = q]
    /\ Goto(p, "claim")
    /\ UNCHANGED <<flags, res, gate, signal, halted, undurable, budget, drainComplete,
                   counters, results, prs, resuming, exit, strikes>>

\* Lease and label were awaited: the pull request is skipped (leased by someone else,
\* or labelled by then), labelled but without findings, or its pipeline starts, parked or not.
ClaimRevision(p) ==
    /\ pc[p] = "claim"
    /\ \/ /\ Goto(p, "sweep") /\ prs' \in {prs, prs \ {item[p]}}
          /\ item' = [item EXCEPT ![p] = NoItem]
       \/ Goto(p, "revise") /\ prs' = prs \ {item[p]} /\ UNCHANGED item
    /\ UNCHANGED <<flags, res, gate, signal, halted, undurable, budget, drainComplete,
                   counters, results, todo, resuming, exit, strikes>>

\* A revision ends; one that halts ends the sweep too.
ReviseEnds(p) ==
    /\ pc[p] = "revise"
    /\ \E o \in {"completed", "failed", "parked"}, halts \in BOOLEAN :
          /\ o = "completed" => ~halts
          /\ Push(p, o)
          /\ Halts(halts)
          /\ Goto(p, IF halts THEN "sweepEnd" ELSE "sweep")
    /\ Spend
    /\ UNCHANGED <<flags, res, gate, signal, undurable, deferred, drainComplete, counters,
                   sweeping, resuming, exit, strikes>>

\* The sweep is over: the main flow starts the pool, a worker goes on to the free probe.
SweepEnds(p) ==
    /\ pc[p] = "sweepEnd" \/ (pc[p] = "sweep" /\ (parked \/ todo = {}))
    /\ p # Main
    /\ IF halted \/ parked THEN LeaveGate(p, "done")
       ELSE IF exceeded THEN LeaveGate(p, "top")
       ELSE Goto(p, "probe") /\ UNCHANGED gate
    /\ UNCHANGED <<flags, item, res, signal, halted, undurable, budget, drainComplete,
                   counters, results, sweeping, resuming, exit, strikes>>

\* The batch sweep of the main flow, or none when continuous; then the workers, unless
\* the sweep or the drain before it parked.
StartPool ==
    /\ pc[Main] = "sweepEnd" \/ (pc[Main] = "sweep" /\ (parked \/ todo = {}))
    /\ pc' = [p \in Flows |-> IF p = Main THEN "pool" ELSE IF parked THEN "done" ELSE "top"]
    /\ UNCHANGED <<flags, item, res, gate, signal, halted, undurable, budget, drainComplete,
                   counters, results, sweeping, resuming, exit, strikes>>

\* Mutant: a drain whose probe fails waits like a watch.
ProbeForEver(w) ==
    /\ pc[w] = "probe"
    /\ \/ /\ mode = "drain"
          /\ Goto(w, "sleep") /\ UNCHANGED <<gate, drainComplete>>
       \/ /\ mode = "drain"
          /\ LeaveGate(w, "done") /\ drainComplete' = TRUE
       \/ /\ mode = "watch" /\ nextCycle >= Cycles                 \* empty at the ceiling
          /\ LeaveGate(w, "done") /\ UNCHANGED drainComplete
       \/ /\ mode = "watch"                                       \* failed or empty: wait
          /\ Goto(w, "sleep") /\ UNCHANGED <<gate, drainComplete>>
    /\ UNCHANGED <<flags, item, res, signal, halted, undurable, budget, counters, results,
                   sweeping, resuming, exit, strikes>>

\* The free queue probe: it fails, finds the queue empty, or finds work.
Probe(w) ==
    /\ pc[w] = "probe"
    /\ \/ /\ mode = "drain"                                       \* failed: stop
          /\ LeaveGate(w, "done") /\ UNCHANGED drainComplete
       \/ /\ mode = "drain"                                       \* empty: complete
          /\ LeaveGate(w, "done") /\ drainComplete' = TRUE
       \/ /\ mode = "watch" /\ nextCycle >= Cycles                 \* empty at the ceiling
          /\ LeaveGate(w, "done") /\ UNCHANGED drainComplete
       \/ /\ mode = "watch"                                       \* failed or empty: wait
          /\ Goto(w, "sleep") /\ UNCHANGED <<gate, drainComplete>>
    /\ UNCHANGED <<flags, item, res, signal, halted, undurable, budget, counters, results,
                   sweeping, resuming, exit, strikes>>

\* Launch a cycle: at once in batch mode, with the gate just released when continuous.
Pull(w) ==
    /\ \/ pc[w] = "top" /\ ~Continuous /\ UNCHANGED gate
       \/ pc[w] = "probe" /\ gate' = Free
    /\ IF halted THEN Goto(w, "done") /\ UNCHANGED <<nextCycle, item>>
       ELSE IF nextCycle >= Cycles THEN Goto(w, "done") /\ nextCycle' = Cycles + 1 /\ UNCHANGED item
       ELSE /\ nextCycle' = nextCycle + 1
            /\ Goto(w, "pipeline")
            /\ \E i \in {i \in Items : latest[i] \in {"none", "failed"} /\ \A p \in Flows : item[p] # i}
                        \cup {NoItem} :
                  item' = [item EXCEPT ![w] = i]
    /\ UNCHANGED <<flags, res, signal, halted, undurable, budget, drainComplete, transients,
                   quarantines, results, sweeping, resuming, exit, strikes>>

\* A rate limit strikes a running pipeline.  One provider keeps a park that is already
\* signalled; the others overwrite it.
RateLimited(p) ==
    /\ pc[p] \in Paid
    /\ HitLimit
    /\ UNCHANGED <<flags, pc, item, res, gate, halted, undurable, budget, drainComplete,
                   counters, results, sweeping, resuming, exit>>

\* The same transient error so many times in a row parks the campaign with no reset.
TransientResult(w) ==
    /\ quarantines' = 0
    /\ IF transients + 1 >= TransientLimit /\ ~parked
       THEN /\ parked' = TRUE /\ reset' = "none" /\ UNCHANGED paused
            /\ Push(w, "parked")
       ELSE Push(w, "failed") /\ UNCHANGED signal
    /\ transients' = IF transients < TransientLimit THEN transients + 1 ELSE transients
    /\ res' = [res EXCEPT ![w] = "go"] /\ UNCHANGED halted

\* A quarantined item does not stop the campaign, five in a row do.
QuarantineResult(w) ==
    /\ transients' = 0
    /\ quarantines' = IF quarantines < QuarantineLimit THEN quarantines + 1 ELSE quarantines
    /\ Push(w, "failed")
    /\ res' = [res EXCEPT ![w] = IF quarantines' = QuarantineLimit THEN "halt" ELSE "go"]
    /\ Halts(quarantines' = QuarantineLimit)
    /\ UNCHANGED signal

\* Shipped, failed recoverably, found an empty queue, parked (by the signal, or for a
\* human), or failed in a way that halts the campaign.
OtherResult(w) ==
    /\ transients' = 0 /\ quarantines' = 0
    /\ \E o \in {"completed", "failed", "parked"}, r \in {"go", "halt", "empty"} :
          /\ o = "completed" => r = "go" /\ item[w] # NoItem
          /\ o = "parked" => r # "empty" /\ (item[w] # NoItem \/ parked)
          /\ r = "empty" => item[w] = NoItem
          /\ Push(w, o)
          /\ res' = [res EXCEPT ![w] = r]
          /\ Halts(r = "halt")
    /\ UNCHANGED signal

\* A cycle's result is counted, then its notification is awaited.
CycleEnds(w) ==
    /\ pc[w] = "pipeline"
    /\ TransientResult(w) \/ QuarantineResult(w) \/ OtherResult(w)
    /\ Spend
    /\ Goto(w, "notify")
    /\ UNCHANGED <<flags, gate, undurable, deferred, drainComplete, nextCycle, sweeping,
                   resuming, exit, strikes>>

\* The worker goes on to its next cycle, unless the campaign is parked, its result halts
\* it, or the item that the free probe saw was taken by somebody else.
AfterCycle(w, isParked) ==
    /\ Goto(w, IF isParked \/ res[w] = "halt" \/ (mode = "drain" /\ res[w] = "empty")
               THEN "done" ELSE "top")
    /\ drainComplete' = (drainComplete \/ (~isParked /\ mode = "drain" /\ res[w] = "empty"))
    /\ res' = [res EXCEPT ![w] = "go"]

Notified(w) ==
    /\ pc[w] = "notify"
    /\ IF parked THEN AfterCycle(w, TRUE)
       ELSE Goto(w, "postDrain") /\ UNCHANGED <<drainComplete, res>>
    /\ UNCHANGED <<flags, item, gate, signal, halted, undurable, budget, counters, results,
                   sweeping, resuming, exit, strikes>>

\* The drain after a cycle, and the one after a round of resumes.
runPostCycleReviewDrain(p) ==
    /\ pc[p] = "postDrain"
    /\ DrainPass
    /\ IF p = Main THEN Goto(p, "await") /\ UNCHANGED <<drainComplete, res>>
       ELSE AfterCycle(p, parked')
    /\ UNCHANGED <<flags, item, gate, deferred, counters, results, sweeping, resuming, exit>>

-----------------------------------------------------------------------------
Exit(code) ==
    /\ exit' = code /\ Goto(Main, "exited")
    /\ UNCHANGED <<queue, again, round>>

\* The pool has ended and the campaign is parked: list what to resume.
ParkBlock ==
    /\ pc[Main] = "pool" /\ \A w \in Workers : pc[w] = "done"
    /\ parked
    /\ LET pending == {i \in Claims : latest[i] = "parked"}
       IN  IF pending = {} \/ ~autoResume THEN Exit(IF halted \/ undurable THEN 1 ELSE 75)
           ELSE queue' = pending /\ Goto(Main, "await") /\ UNCHANGED <<again, round, exit>>
    /\ UNCHANGED <<flags, item, res, gate, signal, halted, undurable, budget, drainComplete,
                   counters, results, sweeping, strikes>>

\* Mutant: one round of resumes too many.
AnotherRoundMore == parked /\ queue # {} /\ round <= MaxResumeRounds

AnotherRound == parked /\ queue # {} /\ round < MaxResumeRounds

AwaitReset ==
    /\ pc[Main] = "await" /\ AnotherRound /\ Waitable
    /\ round' = round + 1
    /\ Goto(Main, "resetWait")
    /\ UNCHANGED <<flags, item, res, gate, signal, halted, undurable, budget, drainComplete,
                   counters, results, sweeping, queue, again, exit, strikes>>

\* The timer of awaitParkReset: whatever the signal has become meanwhile, it is cleared.
ResetPassed ==
    /\ pc[Main] = "resetWait" /\ ClearPark
    /\ Goto(Main, "resume")
    /\ again' = {}
    /\ UNCHANGED <<flags, item, res, gate, halted, undurable, budget, drainComplete,
                   counters, results, sweeping, queue, round, exit, strikes>>

\* resumeOne, for one item after the other: a revision whose lease is held fails at once,
\* any other starts its pipeline.
ResumeNext ==
    /\ pc[Main] = "resume"
    /\ \E i \in queue :
          /\ queue' = queue \ {i}
          /\ \/ /\ i \in Prs
                /\ latest' = [latest EXCEPT ![i] = "failed"] /\ allCompleted' = FALSE
                /\ UNCHANGED <<pc, item>>
             \/ Goto(Main, "resuming") /\ item' = [item EXCEPT ![Main] = i] /\ UNCHANGED results
    /\ UNCHANGED <<flags, res, gate, signal, halted, undurable, budget, drainComplete,
                   counters, sweeping, again, round, exit, strikes>>

\* A resumed pipeline ends; one that halts ends the rounds.
ResumeEnds ==
    /\ pc[Main] = "resuming"
    /\ \E o \in {"completed", "failed", "parked"}, halts \in BOOLEAN :
          /\ o = "completed" => ~halts
          /\ Push(Main, o)
          /\ again' = IF o = "parked" THEN again \cup {item[Main]} ELSE again
          /\ Halts(halts)
          /\ queue' = IF halts THEN {} ELSE queue
          /\ Goto(Main, IF halts THEN "await" ELSE "resume")
    /\ UNCHANGED <<flags, res, gate, signal, undurable, budget, drainComplete, counters, sweeping,
                   round, exit, strikes>>

RoundEnds ==
    /\ pc[Main] = "resume" /\ queue = {}
    /\ queue' = again /\ again' = {}
    /\ Goto(Main, IF parked THEN "await" ELSE "postDrain")
    /\ UNCHANGED <<flags, item, res, gate, signal, halted, undurable, budget, drainComplete,
                   counters, results, sweeping, round, exit, strikes>>

\* Mutant: a parked cycle that claimed nothing is not counted.
hasUnresolvedItemPark == \E i \in Claims : latest[i] = "parked"

hasUnresolvedPark == \E i \in Claims \cup {NoItem} : latest[i] = "parked"

\* The summary and the exit code: no park, a handback, a halt, or no round left.
Finish ==
    /\ \/ pc[Main] = "pool" /\ (\A w \in Workers : pc[w] = "done") /\ ~parked
       \/ pc[Main] = "await" /\ ~(AnotherRound /\ Waitable)
    /\ Exit(IF undurable THEN 1
            ELSE IF parked THEN IF halted THEN 1 ELSE 75
            ELSE IF ~halted /\ hasUnresolvedPark THEN 75
            ELSE IF allCompleted THEN 0 ELSE 1)
    /\ UNCHANGED <<flags, item, res, gate, signal, halted, undurable, budget, drainComplete,
                   counters, results, sweeping, strikes>>

-----------------------------------------------------------------------------
\* onPause: SIGUSR2 at any moment.
Pause ==
    /\ pc[Main] # "exited"
    /\ strikes < MaxStrikes /\ strikes' = strikes + 1
    /\ parked' = TRUE /\ reset' = "none" /\ paused' = TRUE
    /\ UNCHANGED <<flags, pc, item, res, gate, halted, undurable, budget, drainComplete,
                   counters, results, sweeping, resuming, exit>>

\* Time passes: a reset beyond --max-wait comes within it, and one that was near is past.
TimePasses ==
    /\ parked /\ reset # "none"
    /\ reset' = IF reset = "far" THEN "near" ELSE "none"
    /\ UNCHANGED <<flags, pc, item, res, gate, parked, paused, halted, undurable, budget,
                   drainComplete, counters, results, sweeping, resuming, exit, strikes>>

\* Local midnight: the day-budget tracker rolls over.
NewDay ==
    /\ exceeded /\ exceeded' = FALSE
    /\ UNCHANGED <<flags, pc, item, res, gate, signal, halted, undurable, deferred,
                   drainComplete, counters, results, sweeping, resuming, exit, strikes>>

Flow(p) ==
    \/ campaignStartDrain(p) \/ StartDrainRetries(p)
    \/ runReviseSweepOnce(p) \/ ClaimRevision(p) \/ ReviseEnds(p) \/ SweepEnds(p)
    \/ runPostCycleReviewDrain(p)

Worker(w) ==
    EnterGate(w) \/ Wake(w) \/ Probe(w) \/ Pull(w) \/ CycleEnds(w) \/ Notified(w)

MainFlow ==
    StartPool \/ ParkBlock \/ AwaitReset \/ ResetPassed \/ ResumeNext \/ ResumeEnds \/ RoundEnds \/ Finish

Next ==
    \/ \E p \in Flows : Flow(p) \/ RateLimited(p)
    \/ \E w \in Workers : Worker(w)
    \/ MainFlow \/ Pause \/ TimePasses \/ NewDay

Spec == Init /\ [][Next]_vars

\* Pipelines and drains end (every agent step has a turn and time limit), timers fire,
\* the gate is a FIFO mutex, midnight comes.  Nothing forces a limit or a pause.
Fairness ==
    /\ \A p \in Flows : WF_vars(Flow(p))
    /\ \A w \in Workers : WF_vars(Worker(w)) /\ SF_vars(EnterGate(w))
    /\ WF_vars(MainFlow) /\ WF_vars(NewDay)

FairSpec == Spec /\ Fairness

-----------------------------------------------------------------------------
\* The exit code does not lie: 0 only when every result is a delivery and nothing is left
\* parked, halted or unrecorded; and a park is reported as retryable (75) exactly when it
\* was never resolved, unless the campaign was halted (1).
ExitIsHonest ==
    pc[Main] = "exited" =>
        /\ exit = 0 => /\ ~parked /\ ~halted /\ ~undurable
                       /\ \A i \in DOMAIN latest : latest[i] \in {"none", "completed"}
        /\ LET unresolved == parked \/ \E i \in DOMAIN latest : latest[i] = "parked"
           IN  /\ unresolved /\ ~halted => exit = 75
               /\ exit = 75 => unresolved

\* Once a worker has received a result that halts the campaign, no worker launches
\* another cycle, not even while the halting worker awaits its notification.
HaltStopsCycles ==
    [][(halted \/ \E w \in Workers : res[w] = "halt") =>
          \A w \in Workers : pc'[w] = "pipeline" => pc[w] = "pipeline"]_vars

\* A park stops the pool: either its signal is cleared by a wait, or the process exits.
ParkStops == parked ~> ~parked \/ pc[Main] = "exited"

\* A campaign that is not a watch comes to an end.
CampaignEnds == <>(mode = "watch" \/ pc[Main] = "exited")

\* orchestrator.ts:1094: once a receipt is not durable, "halt every paid path": no new
\* cycle, revision or resumed pipeline starts, a revision claimed before it aside.
UndurableStopsPaidWork ==
    [][undurable => \A p \in Flows :
          pc'[p] \in Paid \cup {"claim"} => pc[p] \in {pc'[p], "claim"}]_vars

\* docs/config.md: "A manual pause (SIGUSR2) still exits parked with a resume hint".
PauseExitsParked == pc[Main] = "exited" /\ paused /\ ~halted => exit = 75
=============================================================================
