---------------------------- MODULE ReviewDrain ----------------------------
(***************************************************************************)
(* The local review of shipped pull requests: the request queue            *)
(* (review-request-queue.ts), the drain that runs the gate and posts the   *)
(* `review` commit status (orchestrator.ts), and what it reads from the    *)
(* forge (review-sweep.ts).                                                *)
(*                                                                         *)
(* A key is one (pull request, head SHA).  A campaign first drains what      *)
(* earlier runs left, once; then its workers run cycles, and after each     *)
(* cycle, whatever it ended with, the worker drains again, what the cycle   *)
(* shipped included.  Drains exclude each other through the drain lock,     *)
(* taken here at its abstract level: one holder, and an orphan's lock is    *)
(* freed after its lease (FileLock says where the code falls short).  Whole *)
(* campaigns end, crash and are started again, calls of the forge fail, and *)
(* the forge may apply a status whose answer is lost.                       *)
(***************************************************************************)
EXTENDS Naturals

CONSTANTS Keys, Workers, Campaigns,
          CampaignOf,   \* the campaign process each worker runs in
          Nobody,       \* the drain lock is free
          Orphan,       \* the drain lock of a dead campaign, before its lease expires
          DayBudget,    \* --day-budget, in reviews: every gate run costs 1
          MaxFaults,    \* bound: failed calls of the forge or the disk
          MaxCrashes,   \* bound: crashes of a campaign
          MaxParks      \* bound: rate-limit parks

ASSUME ReviewDrainAssumption ==
    /\ CampaignOf \in [Workers -> Campaigns]
    /\ Nobody \notin Workers \cup {Orphan} /\ Orphan \notin Workers
    /\ DayBudget \in Nat /\ MaxFaults \in Nat /\ MaxCrashes \in Nat /\ MaxParks \in Nat

VARIABLES
    \* the forge
    shipped, open, managed, status,
    \* the disk: the queue files, the records older than the stale window, the gate
    \* records and the day's receipts in the cycle log
    queue, stale, recorded, ledger,
    \* the campaign processes
    lock, up, phase, parked, undurable, daySpent, unreceipted,
    \* the workers
    pc, postCycle, mine, records, live, todo, cur, acked,
    \* the bounds
    faults, crashes, parks

forge == <<shipped, open, managed, status>>
disk == <<queue, stale, recorded, ledger>>
campaign == <<lock, up, phase, parked, undurable, daySpent, unreceipted>>
worker == <<pc, postCycle, mine, records, live, todo, cur, acked>>
bounds == <<faults, crashes, parks>>
vars == <<forge, disk, campaign, worker, bounds>>

\* The types of all variables; no tally goes below zero.
TypeOK ==
    /\ shipped \subseteq Keys /\ open \subseteq Keys /\ managed \subseteq Keys
    /\ status \in [Keys -> {"missing", "pending", "done"}]
    /\ queue \in [Keys -> SUBSET {"pending", "claimed"}]
    /\ stale \subseteq Keys /\ recorded \subseteq Keys /\ ledger \in Nat
    /\ lock \in Workers \cup {Nobody, Orphan}
    /\ phase \in [Campaigns -> {"start", "drain", "cycles", "resume", "over"}]
    /\ up \subseteq Campaigns /\ parked \subseteq Campaigns /\ undurable \subseteq Campaigns
    /\ daySpent \in [Campaigns -> Nat] /\ unreceipted \in [Campaigns -> Nat]
    /\ pc \in [Workers -> {"idle", "cycle", "try", "wait", "list", "candidates", "loop", "pending",
                           "gate", "receipt", "limited", "record", "post", "dequeue", "round"}]
    /\ postCycle \in [Workers -> BOOLEAN] /\ acked \in [Workers -> BOOLEAN]
    /\ mine \in [Workers -> SUBSET Keys] /\ cur \in [Workers -> SUBSET Keys]
    /\ records \in [Workers -> SUBSET Keys] /\ live \in [Workers -> SUBSET Keys]
    /\ todo \in [Workers -> SUBSET Keys]
    /\ faults \in Nat /\ crashes \in Nat /\ parks \in Nat

Init ==
    /\ shipped = {} /\ open = {} /\ managed = Keys
    /\ status = [k \in Keys |-> "missing"]
    /\ queue = [k \in Keys |-> {}]
    /\ stale = {} /\ recorded = {} /\ ledger = 0
    /\ lock = Nobody
    /\ up = Campaigns /\ phase = [c \in Campaigns |-> "start"] /\ parked = {} /\ undurable = {}
    /\ daySpent = [c \in Campaigns |-> 0] /\ unreceipted = [c \in Campaigns |-> 0]
    /\ pc = [w \in Workers |-> "idle"]
    /\ postCycle = [w \in Workers |-> FALSE] /\ acked = [w \in Workers |-> FALSE]
    /\ mine = [w \in Workers |-> {}] /\ cur = [w \in Workers |-> {}]
    /\ records = [w \in Workers |-> {}] /\ live = [w \in Workers |-> {}]
    /\ todo = [w \in Workers |-> {}]
    /\ faults = 0 /\ crashes = 0 /\ parks = 0

-----------------------------------------------------------------------------
exceeded(c) == daySpent[c] >= DayBudget

\* A drain starts no review past one of these; the review in hand is finished.
Stopped(c) == c \in parked \cup undurable \/ exceeded(c)

\* One more call failed.
Fault == faults < MaxFaults /\ faults' = faults + 1
NoFault == UNCHANGED faults

\* One more rate limit parks the campaign.
Limit(c) == parks < MaxParks /\ parks' = parks + 1 /\ parked' = parked \cup {c}
NoLimit == UNCHANGED <<parks, parked>>

AllIdle(c) == \A w \in Workers : CampaignOf[w] = c => pc[w] = "idle"

Goto(w, l) == pc' = [pc EXCEPT ![w] = l]

unclaim(k) == queue' = [queue EXCEPT ![k] = IF "claimed" \in @ THEN {"pending"} ELSE @]

\* Only a record the drain listed is claimed, handed back or completed.
HandBack(w, k) == IF k \in records[w] THEN unclaim(k) ELSE UNCHANGED queue

-----------------------------------------------------------------------------
\* runCampaignStartDrain, once for each process: before the worker pool, or, when the day's
\* budget is exhausted by then, as soon as a worker finds it rolled over.
StartDrain(w) ==
    LET c == CampaignOf[w]
    IN  /\ pc[w] = "idle" /\ c \in up \ (parked \cup undurable)
        /\ phase[c] = "start" /\ ~exceeded(c)
        /\ phase' = [phase EXCEPT ![c] = "drain"]
        /\ postCycle' = [postCycle EXCEPT ![w] = FALSE]
        /\ Goto(w, "try")
        /\ UNCHANGED <<forge, disk, lock, up, parked, undurable, daySpent, unreceipted,
                       mine, records, live, todo, cur, acked, bounds>>

\* A round of the campaign-start drain is over: the cycles begin, or after a rate limit
\* the campaign waits for the reset and drains again, or hands back.
Round(w) ==
    LET c == CampaignOf[w]
        Leave(p) == phase' = [phase EXCEPT ![c] = p] /\ Goto(w, "idle") /\ UNCHANGED parked
    IN  /\ pc[w] = "round"
        /\ \/ c \notin parked /\ Leave("cycles")
           \/ c \in parked /\ Leave("over")
           \/ c \in parked /\ parked' = parked \ {c} /\ Goto(w, "try") /\ UNCHANGED phase
        /\ UNCHANGED <<forge, disk, lock, up, undurable, daySpent, unreceipted,
                       postCycle, mine, records, live, todo, cur, acked, bounds>>

\* A worker of the pool begins a cycle, or the campaign resumes a parked one, one at a time.
BeginCycle(w) ==
    LET c == CampaignOf[w]
    IN  /\ pc[w] = "idle" /\ c \in up \ parked
        /\ \/ phase[c] = "cycles" /\ c \notin undurable /\ ~exceeded(c)
           \/ phase[c] = "resume" /\ AllIdle(c)
        /\ Goto(w, "cycle")
        /\ UNCHANGED <<forge, disk, campaign, postCycle, mine, records, live, todo, cur, acked, bounds>>

\* A cycle ends with a pull request, whose key it enqueues (a failed enqueue is not fatal to
\* the ship), with none, or at a rate limit.  Then comes a drain, unless the campaign is
\* parked; resumed cycles share one, after the last of their batch.
EndCycle(w) ==
    LET c == CampaignOf[w]
    IN  /\ pc[w] = "cycle"
        /\ \E s \in {{}} \cup {{k} : k \in Keys \ shipped} :
              /\ shipped' = shipped \cup s /\ open' = open \cup s
              /\ \/ NoFault /\ queue' = [k \in Keys |-> IF k \in s THEN {"pending"} ELSE queue[k]]
                 \/ s # {} /\ Fault /\ UNCHANGED queue
              /\ NoLimit \/ (s = {} /\ Limit(c))
              /\ \/ c \notin parked' /\ Goto(w, "try") /\ mine' = [mine EXCEPT ![w] = s]
                 \/ (c \in parked' \/ phase[c] = "resume") /\ Goto(w, "idle") /\ UNCHANGED mine
        /\ postCycle' = [postCycle EXCEPT ![w] = TRUE]
        /\ UNCHANGED <<managed, status, stale, recorded, ledger, lock, up, phase, undurable, daySpent,
                       unreceipted, records, live, todo, cur, acked, crashes>>

\* Mutant: a post-cycle drain that meets a held lock is skipped like the others.
TryLockOnce(w) ==
    /\ pc[w] = "try"
    /\ \/ lock = Nobody /\ lock' = w /\ Goto(w, "list") /\ UNCHANGED mine
       \/ lock # Nobody /\ postCycle[w] /\ Goto(w, "idle") /\ UNCHANGED lock /\ mine' = [mine EXCEPT ![w] = {}]
       \/ lock # Nobody /\ ~postCycle[w] /\ Goto(w, "round") /\ UNCHANGED <<lock, mine>>
    /\ UNCHANGED <<forge, disk, up, phase, parked, undurable, daySpent, unreceipted,
                   postCycle, records, live, todo, cur, acked, bounds>>

\* tryWithFileLock; on contention the campaign-start drain is skipped, the post-cycle
\* drain waits and lists again.
TryLock(w) ==
    /\ pc[w] = "try"
    /\ \/ lock = Nobody /\ lock' = w /\ Goto(w, "list") /\ UNCHANGED mine
       \/ lock # Nobody /\ postCycle[w] /\ Goto(w, "wait") /\ UNCHANGED <<lock, mine>>
       \/ lock # Nobody /\ ~postCycle[w] /\ Goto(w, "round") /\ UNCHANGED <<lock, mine>>
    /\ UNCHANGED <<forge, disk, up, phase, parked, undurable, daySpent, unreceipted,
                   postCycle, records, live, todo, cur, acked, bounds>>

WaitLock(w) ==
    /\ pc[w] = "wait" /\ lock = Nobody
    /\ lock' = w
    /\ Goto(w, "list")
    /\ UNCHANGED <<forge, disk, up, phase, parked, undurable, daySpent, unreceipted,
                   postCycle, mine, records, live, todo, cur, acked, bounds>>

\* Mutant: abandoned claims stay claimed.
ListUnreclaimed(w) ==
    /\ pc[w] = "list"
    /\ LET reclaimed == queue
       IN  /\ queue' = reclaimed
           /\ records' = [records EXCEPT ![w] = {k \in Keys : "pending" \in reclaimed[k]}]
    /\ Goto(w, "candidates")
    /\ UNCHANGED <<forge, stale, recorded, ledger, campaign,
                   postCycle, mine, live, todo, cur, acked, bounds>>

\* reclaimStaleReviewClaims, then listReviewRequests.
List(w) ==
    /\ pc[w] = "list"
    /\ LET reclaimed == [k \in Keys |-> IF "claimed" \in queue[k] /\ k \in stale
                                        THEN {"pending"} ELSE queue[k]]
       IN  /\ queue' = reclaimed
           /\ records' = [records EXCEPT ![w] = {k \in Keys : "pending" \in reclaimed[k]}]
    /\ Goto(w, "candidates")
    /\ UNCHANGED <<forge, stale, recorded, ledger, campaign,
                   postCycle, mine, live, todo, cur, acked, bounds>>

\* Mutant: only the queue is read, not the forge.
CandidatesQueued(w) ==
    /\ pc[w] = "candidates"
    /\ \E c \in {{k \in open : status[k] # "done"}, {}} :
          /\ IF c = {k \in open : status[k] # "done"} THEN NoFault ELSE Fault
          /\ live' = [live EXCEPT ![w] = c]
          /\ todo' = [todo EXCEPT ![w] = records[w]]
    /\ Goto(w, "loop")
    /\ UNCHANGED <<forge, disk, campaign, postCycle, mine, records, cur, acked, crashes, parks>>

\* findReviewCandidates: open pull requests whose latest review status is not terminal,
\* or none when the forge does not answer; the union with the records is the work.
Candidates(w) ==
    /\ pc[w] = "candidates"
    /\ \E c \in {{k \in open : status[k] # "done"}, {}} :
          /\ IF c = {k \in open : status[k] # "done"} THEN NoFault ELSE Fault
          /\ live' = [live EXCEPT ![w] = c]
          /\ todo' = [todo EXCEPT ![w] = records[w] \cup c]
    /\ Goto(w, "loop")
    /\ UNCHANGED <<forge, disk, campaign, postCycle, mine, records, cur, acked, crashes, parks>>

\* The drain pass is over: release the lock.
EndDrain(w) ==
    /\ pc[w] = "loop"
    /\ todo[w] = {} \/ Stopped(CampaignOf[w])
    /\ lock' = IF lock = w THEN Nobody ELSE lock
    /\ Goto(w, IF postCycle[w] THEN "idle" ELSE "round")
    /\ mine' = [mine EXCEPT ![w] = {}]
    /\ records' = [records EXCEPT ![w] = {}]
    /\ live' = [live EXCEPT ![w] = {}]
    /\ todo' = [todo EXCEPT ![w] = {}]
    /\ UNCHANGED <<forge, disk, up, phase, parked, undurable, daySpent, unreceipted,
                   postCycle, cur, acked, bounds>>

\* The checks before a review: is the item managed (an unknown answer skips this
\* round and keeps the record), and is an orphaned record's SHA already terminal (an
\* unanswered probe reads as missing); then claim the record.
Choose(w) ==
    /\ pc[w] = "loop" /\ ~Stopped(CampaignOf[w])
    /\ \E k \in todo[w] :
          LET record == k \in records[w]
              orphan == record /\ k \notin live[w]
              done == orphan /\ status[k] = "done"
              drop == queue' = [queue EXCEPT ![k] = IF record THEN {} ELSE @]
              claim == queue' = [queue EXCEPT ![k] = IF record /\ "pending" \in @
                                                     THEN {"claimed"} ELSE @]
              review == claim /\ Goto(w, "pending") /\ cur' = [cur EXCEPT ![w] = {k}]
              skip == Goto(w, "loop") /\ UNCHANGED cur
          IN  /\ todo' = [todo EXCEPT ![w] = @ \ {k}]
              /\ \/ Fault /\ skip /\ UNCHANGED queue                \* managed: unknown
                 \/ k \notin managed /\ NoFault /\ drop /\ skip
                 \/ k \in managed /\ done /\ NoFault /\ drop /\ skip
                 \/ k \in managed /\ done /\ Fault /\ review        \* the probe failed
                 \/ k \in managed /\ ~done /\ NoFault /\ review
    /\ UNCHANGED <<forge, stale, recorded, ledger, campaign,
                   postCycle, mine, records, live, acked, crashes, parks>>

\* Post the pending status; without its answer the review does not start, though the
\* forge may have applied it.
PostPending(w) ==
    /\ pc[w] = "pending"
    /\ \E k \in cur[w] :
          \/ /\ NoFault /\ Goto(w, "gate")
             /\ status' = [status EXCEPT ![k] = "pending"]
             /\ UNCHANGED <<queue, cur>>
          \/ /\ Fault /\ Goto(w, "loop") /\ HandBack(w, k)
             /\ cur' = [cur EXCEPT ![w] = {}]
             /\ \/ status' = [status EXCEPT ![k] = "pending"]
                \/ UNCHANGED status
    /\ UNCHANGED <<shipped, open, managed, stale, recorded, ledger, campaign,
                   postCycle, mine, records, live, todo, acked, crashes, parks>>

\* The gate runs: it decides, or stops at a rate limit, which parks the whole campaign and
\* which another worker may have met first; either way it is charged in memory.  A crash of
\* the gate decides too, fails closed and costs nothing.
Gate(w) ==
    /\ pc[w] = "gate"
    /\ LET c == CampaignOf[w]
           paid(l) == /\ daySpent' = [daySpent EXCEPT ![c] = @ + 1]
                      /\ unreceipted' = [unreceipted EXCEPT ![c] = @ + 1]
                      /\ Goto(w, l) /\ NoFault
       IN  \/ paid("receipt") /\ NoLimit
           \/ paid("limited") /\ (Limit(c) \/ (c \in parked /\ NoLimit))
           \/ Fault /\ Goto(w, "record") /\ NoLimit /\ UNCHANGED <<daySpent, unreceipted>>
    /\ UNCHANGED <<forge, disk, lock, up, phase, undurable,
                   postCycle, mine, records, live, todo, cur, acked, crashes>>

\* Mutant: a lost receipt does not stop the drain.
ReceiptUnlatched(w) ==
    /\ pc[w] \in {"receipt", "limited"}
    /\ LET c == CampaignOf[w]
       IN  /\ \/ /\ NoFault /\ ledger' = ledger + 1
                 /\ unreceipted' = [unreceipted EXCEPT ![c] = @ - 1]
                 /\ UNCHANGED undurable
              \/ Fault /\ UNCHANGED <<undurable, ledger, unreceipted>>
           /\ IF pc[w] = "limited"
              THEN /\ Goto(w, "loop")
                   /\ \E k \in cur[w] : HandBack(w, k)
                   /\ cur' = [cur EXCEPT ![w] = {}]
              ELSE Goto(w, "record") /\ UNCHANGED <<queue, cur>>
    /\ UNCHANGED <<forge, stale, recorded, lock, up, phase, parked, daySpent,
                   postCycle, mine, records, live, todo, acked, crashes, parks>>

\* appendDayBudgetCharge: a receipt that cannot be written halts all paid work.  A
\* limited review is then handed back; a decided one goes on to its gate record.
Receipt(w) ==
    /\ pc[w] \in {"receipt", "limited"}
    /\ LET c == CampaignOf[w]
       IN  /\ \/ /\ NoFault /\ ledger' = ledger + 1
                 /\ unreceipted' = [unreceipted EXCEPT ![c] = @ - 1]
                 /\ UNCHANGED undurable
              \/ Fault /\ undurable' = undurable \cup {c} /\ UNCHANGED <<ledger, unreceipted>>
           /\ IF pc[w] = "limited"
              THEN /\ Goto(w, "loop")
                   /\ \E k \in cur[w] : HandBack(w, k)
                   /\ cur' = [cur EXCEPT ![w] = {}]
              ELSE Goto(w, "record") /\ UNCHANGED <<queue, cur>>
    /\ UNCHANGED <<forge, stale, recorded, lock, up, phase, parked, daySpent,
                   postCycle, mine, records, live, todo, acked, crashes, parks>>

\* writeGateRecord; without the durable record nothing is posted.
Record(w) ==
    /\ pc[w] = "record"
    /\ \E k \in cur[w] :
          \/ /\ NoFault /\ Goto(w, "post")
             /\ recorded' = recorded \cup {k}
             /\ UNCHANGED <<queue, cur>>
          \/ /\ Fault /\ Goto(w, "loop") /\ HandBack(w, k)
             /\ cur' = [cur EXCEPT ![w] = {}]
             /\ UNCHANGED recorded
    /\ UNCHANGED <<forge, stale, ledger, campaign,
                   postCycle, mine, records, live, todo, acked, crashes, parks>>

\* Post the terminal status.  A failed call may have been applied.
Post(w) ==
    /\ pc[w] = "post"
    /\ \E k \in cur[w] :
          \/ /\ NoFault /\ status' = [status EXCEPT ![k] = "done"]
             /\ acked' = [acked EXCEPT ![w] = TRUE]
          \/ /\ Fault /\ \/ status' = [status EXCEPT ![k] = "done"]
                         \/ UNCHANGED status
             /\ acked' = [acked EXCEPT ![w] = FALSE]
    /\ Goto(w, "dequeue")
    /\ UNCHANGED <<shipped, open, managed, disk, campaign,
                   postCycle, mine, records, live, todo, cur, crashes, parks>>

\* Mutant: the request is completed whatever the forge answered.
DequeueUnacked(w) ==
    /\ pc[w] = "dequeue"
    /\ \E k \in cur[w] :
          IF k \in records[w] THEN queue' = [queue EXCEPT ![k] = {}]
          ELSE HandBack(w, k)
    /\ Goto(w, "loop")
    /\ cur' = [cur EXCEPT ![w] = {}]
    /\ acked' = [acked EXCEPT ![w] = FALSE]
    /\ UNCHANGED <<forge, stale, recorded, ledger, campaign,
                   postCycle, mine, records, live, todo, bounds>>

\* completeReviewRequest only after an acknowledged terminal post, else hand back.
Dequeue(w) ==
    /\ pc[w] = "dequeue"
    /\ \E k \in cur[w] :
          IF acked[w] /\ k \in records[w] THEN queue' = [queue EXCEPT ![k] = {}]
          ELSE HandBack(w, k)
    /\ Goto(w, "loop")
    /\ cur' = [cur EXCEPT ![w] = {}]
    /\ acked' = [acked EXCEPT ![w] = FALSE]
    /\ UNCHANGED <<forge, stale, recorded, ledger, campaign,
                   postCycle, mine, records, live, todo, bounds>>

-----------------------------------------------------------------------------
\* The campaign dies with its workers; the lock of a drain stays as an orphan.
Crash(c) ==
    /\ c \in up
    /\ crashes < MaxCrashes /\ crashes' = crashes + 1
    /\ up' = up \ {c} /\ parked' = parked \ {c} /\ undurable' = undurable \ {c}
    /\ lock' = IF lock \in Workers /\ CampaignOf[lock] = c THEN Orphan ELSE lock
    /\ LET Mine(w) == CampaignOf[w] = c
           Wipe(f) == [w \in Workers |-> IF Mine(w) THEN {} ELSE f[w]]
       IN  /\ pc' = [w \in Workers |-> IF Mine(w) THEN "idle" ELSE pc[w]]
           /\ acked' = [w \in Workers |-> ~Mine(w) /\ acked[w]]
           /\ mine' = Wipe(mine) /\ cur' = Wipe(cur) /\ todo' = Wipe(todo)
           /\ records' = Wipe(records) /\ live' = Wipe(live)
    /\ UNCHANGED <<forge, disk, phase, daySpent, unreceipted, postCycle, faults, parks>>

\* The campaign ends, with its limit and its latch: its cycles are used up, it is parked and
\* hands back, or it is halted.
Exit(c) ==
    /\ c \in up /\ AllIdle(c)
    /\ up' = up \ {c} /\ parked' = parked \ {c} /\ undurable' = undurable \ {c}
    /\ UNCHANGED <<forge, disk, lock, phase, daySpent, unreceipted, worker, bounds>>

\* The operator starts it again: the day's spend is rebuilt from the receipts.
Restart(c) ==
    /\ c \notin up
    /\ up' = up \cup {c}
    /\ phase' = [phase EXCEPT ![c] = "start"]
    /\ daySpent' = [daySpent EXCEPT ![c] = ledger]
    /\ unreceipted' = [unreceipted EXCEPT ![c] = 0]
    /\ UNCHANGED <<forge, disk, lock, parked, undurable, worker, bounds>>

\* The orphan's lease runs out; the next contender steals it.
LeaseExpires ==
    /\ lock = Orphan /\ lock' = Nobody
    /\ UNCHANGED <<forge, disk, up, phase, parked, undurable, daySpent, unreceipted, worker, bounds>>

\* awaitParkReset after the pool: once its workers have stopped, the campaign waits for the
\* reset and resumes the cycles that parked.
ParkResets(c) ==
    /\ c \in parked /\ phase[c] \in {"cycles", "resume"} /\ AllIdle(c)
    /\ parked' = parked \ {c}
    /\ phase' = [phase EXCEPT ![c] = "resume"]
    /\ UNCHANGED <<forge, disk, lock, up, undurable, daySpent, unreceipted, worker, bounds>>

\* Local midnight: the ledger of the new day is empty, and so is every tracker.
NewDay ==
    /\ ledger > 0 \/ \E c \in Campaigns : daySpent[c] > 0
    /\ ledger' = 0
    /\ daySpent' = [c \in Campaigns |-> 0]
    /\ UNCHANGED <<forge, queue, stale, recorded, lock, up, phase, parked, undurable, unreceipted,
                   worker, bounds>>

\* Four hours pass over a record.
Age(k) ==
    /\ queue[k] # {} /\ k \notin stale
    /\ stale' = stale \cup {k}
    /\ UNCHANGED <<forge, queue, recorded, ledger, campaign, worker, bounds>>

\* The pull request is merged, closed or pushed to: its SHA is no longer listed.
Close(k) ==
    /\ k \in open
    /\ open' = open \ {k}
    /\ UNCHANGED <<shipped, managed, status, disk, campaign, worker, bounds>>

\* Someone takes the item out of autopilot.
Unmanage(k) ==
    /\ k \in managed
    /\ managed' = managed \ {k}
    /\ UNCHANGED <<shipped, open, status, disk, campaign, worker, bounds>>

DrainStep(w) ==
    \/ TryLock(w) \/ WaitLock(w) \/ List(w) \/ Candidates(w) \/ EndDrain(w) \/ Choose(w)
    \/ PostPending(w) \/ Gate(w) \/ Receipt(w) \/ Record(w) \/ Post(w) \/ Dequeue(w) \/ Round(w)

WorkerStep(w) == StartDrain(w) \/ BeginCycle(w) \/ EndCycle(w) \/ DrainStep(w)

Next ==
    \/ \E w \in Workers : WorkerStep(w)
    \/ \E c \in Campaigns : Crash(c) \/ Exit(c) \/ Restart(c) \/ ParkResets(c)
    \/ \E k \in Keys : Age(k) \/ Close(k) \/ Unmanage(k)
    \/ LeaseExpires \/ NewDay

Spec == Init /\ [][Next]_vars

\* A drain that was begun runs to its end, and time passes over records and leases.  Nothing
\* forces a drain to begin: a campaign may idle, or end and never be started again.
Fairness ==
    /\ \A w \in Workers : WF_vars(DrainStep(w))
    /\ \A k \in Keys : WF_vars(Age(k))
    /\ WF_vars(LeaseExpires)

FairSpec == Spec /\ Fairness

-----------------------------------------------------------------------------
\* Record completion requires a positive terminal check: a request leaves the queue
\* only when its SHA carries a terminal status or its item is unmanaged, whatever call
\* failed or process died on the way.
RequestKeptUntilReviewed ==
    [][\A k \in Keys : queue[k] # {} /\ queue'[k] = {} => status[k] = "done" \/ k \notin managed]_vars

\* Every terminal status on the forge rests on a durable gate record.
StatusBackedByRecord ==
    [][\A k \in Keys : status[k] # "done" /\ status'[k] = "done" => k \in recorded]_vars

\* What the day budget cannot rebuild after a restart is at most one review of each
\* campaign: a lost receipt stops all further paid reviews.
OneUnreceiptedReview == \A c \in Campaigns : unreceipted[c] <= 1

\* A post-cycle drain that returns undisturbed has reviewed what its worker shipped,
\* also when another drain held the lock and had listed the queue before the ship.
PostCycleDelivers ==
    [][\A w \in Workers : \A k \in mine[w] :
          /\ mine'[w] = {} /\ faults' = 0 /\ crashes' = 0
          /\ ~Stopped(CampaignOf[w]) /\ k \in open \cap managed
          => status[k] = "done"]_vars

\* Drains that may review keep being begun, by cycles or by campaigns started again.
DrainsKeepComing == []<>(\E w \in Workers : pc[w] = "try" /\ ~Stopped(CampaignOf[w]))

\* As long as drains keep being begun, every shipped pull request that stays open and managed
\* gets its review, also one whose request was never written, or was handed back.
ShippedIsReviewed ==
    DrainsKeepComing =>
        \A k \in Keys : k \in shipped ~> status[k] = "done" \/ k \notin open \cap managed

\* As long as drains keep being begun, no request stays in the queue for ever, not even one
\* that a dead campaign had claimed.
RequestsDrain == DrainsKeepComing => \A k \in Keys : queue[k] # {} ~> queue[k] = {}
=============================================================================
