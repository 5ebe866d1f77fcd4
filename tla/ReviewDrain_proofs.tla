------------------------- MODULE ReviewDrain_proofs -------------------------
(***************************************************************************)
(* The review drain for any keys, workers, campaigns and bounds: no second *)
(* review is paid for while the receipt of one is lost, a request leaves   *)
(* the queue only with its review, a terminal status rests on a record,    *)
(* and a post-cycle drain delivers what its worker shipped.                *)
(***************************************************************************)
EXTENDS ReviewDrain, TLAPS

\* Where a review is in hand, and where the work of a drain is.
Reviewing == {"pending", "gate", "receipt", "limited", "record", "post", "dequeue"}

Passing == {"loop"} \cup Reviewing

\* Where a worker holds the drain lock.
Draining == {"list", "candidates"} \cup Passing

\* A review is paid for only with no receipt open, and its receipt closes it.
Charged(w) ==
    /\ pc[w] \in {"pending", "gate"} => unreceipted[CampaignOf[w]] = 0
    /\ pc[w] \in {"receipt", "limited"} => unreceipted[CampaignOf[w]] = 1

OneInHand(w) == \A j, k \in cur[w] : j = k

\* A decision is recorded, then posted, then acknowledged.
Decided(w) ==
    /\ pc[w] \notin Reviewing => cur[w] = {}
    /\ pc[w] = "post" => cur[w] \subseteq recorded
    /\ pc[w] = "dequeue" /\ acked[w] = TRUE => \A k \in cur[w] : status[k] = "done"
    /\ pc[w] = "dequeue" /\ faults = 0 => acked[w] = TRUE

\* As long as no call fails, what the worker shipped is reviewed, in hand or yet to come,
\* unless the campaign is parked.
Delivering(w) ==
    /\ mine[w] \subseteq shipped
    /\ faults = 0 /\ pc[w] \in Passing /\ CampaignOf[w] \notin parked =>
         \A k \in mine[w] \cap open \cap managed : status[k] = "done" \/ k \in todo[w] \cup cur[w]

\* What was shipped belongs to a post-cycle drain; the other drains are the campaign's first.
Placed(w) ==
    /\ pc[w] \in {"idle", "cycle"} \/ postCycle[w] = FALSE => mine[w] = {}
    /\ pc[w] \notin {"idle", "cycle"} /\ postCycle[w] = FALSE => phase[CampaignOf[w]] = "drain"
    /\ pc[w] = "round" => postCycle[w] = FALSE
    /\ pc[w] = "limited" => CampaignOf[w] \in parked

WorkerInv(w) ==
    /\ pc[w] # "idle" => CampaignOf[w] \in up
    /\ pc[w] \in Draining => lock = w
    /\ OneInHand(w) /\ Charged(w) /\ Decided(w) /\ Delivering(w) /\ Placed(w)

\* An open receipt of a live campaign is being written, or its loss has been latched.
CampaignInv(c) ==
    /\ unreceipted[c] \in {0, 1}
    /\ unreceipted[c] = 1 /\ c \in up /\ c \notin undurable =>
         \E w \in Workers : CampaignOf[w] = c /\ pc[w] \in {"receipt", "limited"}

\* Nothing else of a campaign is at work before and during its first drain.
Alone(c) ==
    /\ phase[c] = "start" => AllIdle(c)
    /\ phase[c] = "drain" => \A v, w \in Workers :
         CampaignOf[v] = c /\ CampaignOf[w] = c /\ pc[v] # "idle" /\ pc[w] # "idle" => v = w

IInv == TypeOK /\ (\A w \in Workers : WorkerInv(w)) /\ (\A c \in Campaigns : CampaignInv(c) /\ Alone(c))

\* A step of w writes its own locals, and the status, the receipts and the records only
\* under the lock.
Frame(w) ==
    /\ \A v \in Workers \ {w} : /\ pc'[v] = pc[v] /\ mine'[v] = mine[v] /\ todo'[v] = todo[v]
                                /\ cur'[v] = cur[v] /\ acked'[v] = acked[v] /\ postCycle'[v] = postCycle[v]
    /\ \A v \in Workers \ {w} : pc[v] # "idle" =>
         /\ phase'[CampaignOf[v]] = phase[CampaignOf[v]]
         /\ CampaignOf[v] \in parked => CampaignOf[v] \in parked'
    /\ \A c \in Campaigns : c # CampaignOf[w] => phase'[c] = phase[c]
    /\ lock' = lock \/ lock \in {Nobody, w}
    /\ \A c \in Campaigns : c # CampaignOf[w] \/ lock # w => unreceipted'[c] = unreceipted[c]
    /\ lock # w => status' = status
    /\ recorded \subseteq recorded' /\ shipped \subseteq shipped'
    /\ open' \subseteq open \cup (Keys \ shipped) /\ managed' = managed
    /\ up' = up /\ undurable \subseteq undurable'
    /\ faults' = 0 => faults = 0

LEMMA FrameInv ==
  ASSUME IInv, NEW w \in Workers, TypeOK', Frame(w), WorkerInv(w)', CampaignInv(CampaignOf[w])', Alone(CampaignOf[w])'
  PROVE  IInv'
<1>1. ASSUME NEW v \in Workers, v # w PROVE WorkerInv(v)'
  <2>1. WorkerInv(v) /\ CampaignOf[v] \in Campaigns
    BY ReviewDrainAssumption DEF IInv
  <2>2. /\ pc'[v] = pc[v] /\ mine'[v] = mine[v] /\ todo'[v] = todo[v]
        /\ cur'[v] = cur[v] /\ acked'[v] = acked[v] /\ postCycle'[v] = postCycle[v]
    BY <1>1 DEF Frame
  <2>3. pc[v] \in Draining =>
          /\ lock = v /\ lock' = v /\ status' = status
          /\ unreceipted'[CampaignOf[v]] = unreceipted[CampaignOf[v]]
    BY <1>1, <2>1, ReviewDrainAssumption DEF Frame, WorkerInv
  <2>4. Charged(v)'
    BY <2>1, <2>2, <2>3 DEF WorkerInv, Charged, Draining, Passing, Reviewing
  <2>5. Decided(v)'
    BY <2>1, <2>2, <2>3 DEF WorkerInv, Decided, Draining, Passing, Reviewing, Frame
  <2>6. OneInHand(v)'
    BY <2>1, <2>2 DEF WorkerInv, OneInHand
  <2>7. Delivering(v)'
    <3>1. mine[v] \subseteq shipped /\ mine'[v] \subseteq shipped'
      BY <2>1, <2>2 DEF WorkerInv, Delivering, Frame
    <3> SUFFICES ASSUME faults' = 0, pc'[v] \in Passing, CampaignOf[v] \notin parked',
                        NEW k \in mine'[v] \cap open' \cap managed'
                 PROVE  status'[k] = "done" \/ k \in todo'[v] \cup cur'[v]
      BY <3>1 DEF Delivering
    <3>2. faults = 0 /\ pc[v] \in Passing /\ CampaignOf[v] \notin parked /\ k \in mine[v] \cap open \cap managed
      BY <1>1, <2>2, <3>1 DEF Frame, Passing, Reviewing
    <3> QED
      BY <2>1, <2>2, <2>3, <3>2 DEF WorkerInv, Delivering, Draining
  <2>8. Placed(v)'
    BY <1>1, <2>1, <2>2 DEF WorkerInv, Placed, Frame
  <2> QED
    BY <2>1, <2>2, <2>3, <2>4, <2>5, <2>6, <2>7, <2>8 DEF WorkerInv, Frame
<1>2. ASSUME NEW c \in Campaigns, c # CampaignOf[w] PROVE CampaignInv(c)' /\ Alone(c)'
  <2>1. CampaignInv(c) /\ Alone(c) /\ unreceipted'[c] = unreceipted[c] /\ phase'[c] = phase[c]
    BY <1>2 DEF IInv, Frame
  <2>2. ASSUME NEW v \in Workers, CampaignOf[v] = c PROVE pc'[v] = pc[v]
    BY <1>2, <2>2 DEF Frame
  <2>3. CampaignInv(c)'
    BY <2>1, <2>2 DEF CampaignInv, Frame
  <2>4. Alone(c)'
    BY <2>1, <2>2 DEF Alone, AllIdle
  <2> QED
    BY <2>3, <2>4
<1> QED
  BY <1>1, <1>2 DEF IInv

-----------------------------------------------------------------------------
(* The steps of a worker.                                                  *)

Kept(w) == TypeOK' /\ Frame(w) /\ WorkerInv(w)' /\ CampaignInv(CampaignOf[w])' /\ Alone(CampaignOf[w])'

\* What a worker may assume.
LEMMA Has ==
  ASSUME IInv, NEW w \in Workers
  PROVE  /\ TypeOK /\ WorkerInv(w) /\ CampaignOf[w] \in Campaigns
         /\ CampaignInv(CampaignOf[w]) /\ Alone(CampaignOf[w])
         /\ w # Nobody /\ w # Orphan
         /\ \A v \in Workers : v # w /\ lock = w => pc[v] \notin Draining
  BY ReviewDrainAssumption DEF IInv, WorkerInv

LEMMA OneStays ==
  ASSUME IInv, NEW w \in Workers, cur'[w] = cur[w] \/ cur'[w] = {}
  PROVE  OneInHand(w)'
<1>1. OneInHand(w)
  BY Has DEF WorkerInv
<1> QED
  BY <1>1 DEF OneInHand

\* A step that charges nothing leaves the campaign's receipts as they are, unless it is
\* the one that wrote one.
LEMMA CampaignStays ==
  ASSUME IInv, NEW w \in Workers, pc[w] \notin {"receipt", "limited"}, Frame(w), unreceipted' = unreceipted
  PROVE  CampaignInv(CampaignOf[w])'
<1>1. CampaignInv(CampaignOf[w])
  BY Has
<1>2. ASSUME NEW v \in Workers, pc[v] \in {"receipt", "limited"} PROVE pc'[v] = pc[v]
  BY <1>2 DEF Frame
<1> QED
  BY <1>1, <1>2 DEF CampaignInv, Frame

LEMMA AloneStays ==
  ASSUME IInv, NEW w \in Workers, pc[w] # "idle", Frame(w), phase' = phase
  PROVE  Alone(CampaignOf[w])'
<1>1. Alone(CampaignOf[w])
  BY Has
<1>2. ASSUME NEW v \in Workers, pc'[v] # "idle" PROVE pc[v] # "idle"
  BY <1>2 DEF Frame
<1> QED
  BY <1>1, <1>2 DEF Alone, AllIdle

\* A campaign-start drain begins and ends while no other worker of its campaign is at work.
LEMMA StartSteps ==
  ASSUME IInv, NEW w \in Workers, StartDrain(w) \/ Round(w) \/ BeginCycle(w)
  PROVE  Kept(w)
<1> DEFINE c == CampaignOf[w]
<1>1. /\ UNCHANGED <<forge, disk, lock, up, undurable, daySpent, unreceipted,
                     mine, records, live, todo, cur, acked, bounds>>
      /\ c \in up /\ c \in Campaigns /\ pc[w] \in {"idle", "round"} /\ cur[w] = {} /\ mine[w] = {}
  BY Has DEF StartDrain, Round, BeginCycle, campaign, WorkerInv, Placed, Decided, Reviewing
<1>2. \/ /\ pc[w] = "idle" /\ phase[c] = "start" /\ pc' = [pc EXCEPT ![w] = "try"] /\ parked' = parked
         /\ phase' = [phase EXCEPT ![c] = "drain"] /\ postCycle' = [postCycle EXCEPT ![w] = FALSE]
      \/ /\ pc[w] = "round" /\ phase[c] = "drain" /\ pc' = [pc EXCEPT ![w] = "idle"] /\ parked' = parked
         /\ phase' = [phase EXCEPT ![c] = "cycles"] \/ phase' = [phase EXCEPT ![c] = "over"]
         /\ postCycle' = postCycle
      \/ /\ pc[w] = "round" /\ phase[c] = "drain" /\ pc' = [pc EXCEPT ![w] = "try"] /\ parked' = parked \ {c}
         /\ phase' = phase /\ postCycle' = postCycle /\ postCycle[w] = FALSE
      \/ /\ pc[w] = "idle" /\ phase[c] \in {"cycles", "resume"} /\ pc' = [pc EXCEPT ![w] = "cycle"]
         /\ phase' = phase /\ parked' = parked /\ postCycle' = postCycle
  BY Has DEF StartDrain, Round, BeginCycle, campaign, Goto, WorkerInv, Placed
<1>3. phase[c] \in {"start", "drain"} => \A v \in Workers \ {w} : CampaignOf[v] = c => pc[v] = "idle"
  BY <1>2, Has DEF Alone, AllIdle
<1>4. TypeOK'
  BY <1>1, <1>2, Has DEF TypeOK, forge, disk, bounds
<1>5. Frame(w)
  BY <1>1, <1>2, <1>3, Has, ReviewDrainAssumption DEF TypeOK, Frame, forge, disk, bounds
<1>6. WorkerInv(w)'
  <2>1. \/ pc'[w] = "try" /\ postCycle'[w] = FALSE /\ phase'[c] = "drain"
        \/ pc'[w] \in {"idle", "cycle"}
    BY <1>1, <1>2, Has DEF TypeOK
  <2>2. cur'[w] = {} /\ mine'[w] = {} /\ c \in up'
    BY <1>1
  <2> QED
    BY <2>1, <2>2 DEF WorkerInv, OneInHand, Charged, Decided, Delivering, Placed, Draining, Passing, Reviewing
<1>7. CampaignInv(c)'
  BY <1>1, <1>5, CampaignStays
<1>8. Alone(c)'
  BY <1>2, <1>3, <1>5, Has DEF Alone, AllIdle, Frame, TypeOK
<1> QED
  BY <1>4, <1>5, <1>6, <1>7, <1>8 DEF Kept

LEMMA EndCycleSteps ==
  ASSUME IInv, NEW w \in Workers, EndCycle(w)
  PROVE  Kept(w)
<1> DEFINE c == CampaignOf[w]
<1>1. PICK s \in {{}} \cup {{k} : k \in Keys \ shipped} :
        /\ shipped' = shipped \cup s /\ open' = open \cup s
        /\ \/ NoFault /\ queue' = [k \in Keys |-> IF k \in s THEN {"pending"} ELSE queue[k]]
           \/ s # {} /\ Fault /\ UNCHANGED queue
        /\ NoLimit \/ (s = {} /\ Limit(c))
        /\ \/ c \notin parked' /\ Goto(w, "try") /\ mine' = [mine EXCEPT ![w] = s]
           \/ (c \in parked' \/ phase[c] = "resume") /\ Goto(w, "idle") /\ UNCHANGED mine
  BY DEF EndCycle
<1>2. /\ pc[w] = "cycle" /\ postCycle' = [postCycle EXCEPT ![w] = TRUE]
      /\ UNCHANGED <<managed, status, stale, recorded, ledger, lock, up, phase, undurable, daySpent,
                     unreceipted, records, live, todo, cur, acked, crashes>>
  BY DEF EndCycle
<1>3. s \subseteq Keys \ shipped /\ cur[w] = {} /\ mine[w] = {} /\ c \in up /\ c \in Campaigns
  <2>1. s = {} \/ \E k \in Keys \ shipped : s = {k}
    BY <1>1
  <2>2. s \subseteq Keys \ shipped
    BY <2>1
  <2> QED
    BY <1>2, <2>2, Has DEF WorkerInv, Decided, Reviewing, Placed
<1>4. queue' \in [Keys -> SUBSET {"pending", "claimed"}]
  BY <1>1, Has DEF TypeOK
<1>5. \/ pc' = [pc EXCEPT ![w] = "try"] /\ mine' = [mine EXCEPT ![w] = s]
      \/ pc' = [pc EXCEPT ![w] = "idle"] /\ mine' = mine
  BY <1>1 DEF Goto
<1>6. /\ faults' \in Nat /\ parks' \in Nat /\ parked' \subseteq Campaigns /\ parked \subseteq parked'
      /\ faults' = 0 => faults = 0
  BY <1>1, <1>3, Has DEF TypeOK, Fault, NoFault, Limit, NoLimit
<1>7. TypeOK'
  BY <1>1, <1>2, <1>3, <1>4, <1>5, <1>6, Has DEF TypeOK
<1>8. Frame(w)
  BY <1>1, <1>2, <1>3, <1>5, <1>6, Has DEF TypeOK, Frame
<1>9. WorkerInv(w)'
  <2>1. \/ pc'[w] = "try" /\ mine'[w] = s
        \/ pc'[w] = "idle" /\ mine'[w] = {}
    BY <1>3, <1>5, Has DEF TypeOK
  <2>2. cur'[w] = {} /\ postCycle'[w] = TRUE /\ c \in up' /\ s \subseteq shipped'
    BY <1>1, <1>2, <1>3, Has DEF TypeOK
  <2> QED
    BY <2>1, <2>2 DEF WorkerInv, OneInHand, Charged, Decided, Delivering, Placed, Draining, Passing, Reviewing
<1>10. CampaignInv(c)' /\ Alone(c)'
  BY <1>2, <1>8, CampaignStays, AloneStays
<1> QED
  BY <1>7, <1>8, <1>9, <1>10 DEF Kept

\* The steps to the lock and the lists.
LEMMA EntrySteps ==
  ASSUME IInv, NEW w \in Workers, TryLock(w) \/ WaitLock(w) \/ List(w)
  PROVE  Kept(w)
<1>1. TypeOK'
  <2>1. CASE TryLock(w) \/ WaitLock(w)
    BY <2>1, Has DEF TypeOK, TryLock, WaitLock, Goto, forge, disk, bounds
  <2>2. CASE List(w)
    BY <2>2, Has DEF TypeOK, List, Goto, forge, campaign, bounds
  <2> QED
    BY <2>1, <2>2
<1>2. Frame(w)
  BY Has DEF TypeOK, TryLock, WaitLock, List, Goto, Frame, forge, disk, campaign, bounds
<1>3. /\ pc'[w] \in {"try", "list", "wait", "round", "candidates"}
      /\ pc'[w] = "round" => postCycle[w] = FALSE
      /\ pc'[w] \in {"list", "candidates"} => lock' = w
      /\ CampaignOf[w] \in up' /\ postCycle' = postCycle /\ phase' = phase
      /\ mine'[w] = mine[w] /\ shipped' = shipped /\ unreceipted' = unreceipted
      /\ pc[w] \in {"try", "wait", "list"} /\ cur'[w] = {}
  BY Has DEF TypeOK, WorkerInv, Decided, Reviewing, TryLock, WaitLock, List, Goto, forge, disk, campaign, bounds, Draining
<1>4. WorkerInv(w)'
  BY <1>3, Has, OneStays DEF WorkerInv, Charged, Decided, Delivering, Placed, Draining, Passing, Reviewing
<1>5. CampaignInv(CampaignOf[w])' /\ Alone(CampaignOf[w])'
  BY <1>2, <1>3, CampaignStays, AloneStays
<1> QED
  BY <1>1, <1>2, <1>4, <1>5 DEF Kept

\* The work of a drain is what the queue and the forge told: nothing that its worker
\* shipped is missing, if they answered.
LEMMA CandidatesSteps ==
  ASSUME IInv, NEW w \in Workers, Candidates(w)
  PROVE  Kept(w)
<1>1. PICK c \in {{k \in open : status[k] # "done"}, {}} :
        /\ IF c = {k \in open : status[k] # "done"} THEN NoFault ELSE Fault
        /\ live' = [live EXCEPT ![w] = c] /\ todo' = [todo EXCEPT ![w] = records[w] \cup c]
  BY DEF Candidates
<1>2. c \subseteq Keys /\ records[w] \subseteq Keys
  BY <1>1, Has DEF TypeOK
<1>3. /\ pc[w] = "candidates" /\ pc'[w] = "loop" /\ todo'[w] = records[w] \cup c
      /\ UNCHANGED <<forge, disk, campaign, postCycle, mine, records, cur, acked, crashes, parks>>
  BY <1>1, Has DEF TypeOK, Candidates, Goto
<1>4. TypeOK'
  BY <1>1, <1>2, <1>3, Has DEF TypeOK, Candidates, Goto, Fault, NoFault, forge, disk, campaign
<1>5. Frame(w)
  BY <1>1, <1>3, Has DEF TypeOK, Candidates, Goto, Frame, Fault, NoFault, forge, disk, campaign
<1>6. cur[w] = {}
  BY <1>3, Has DEF WorkerInv, Decided, Reviewing
<1>7. faults' = 0 => c = {k \in open : status[k] # "done"}
  BY <1>1, Has DEF TypeOK, Fault
<1>8. WorkerInv(w)'
  BY <1>3, <1>6, <1>7, Has, OneStays
     DEF TypeOK, WorkerInv, Charged, Decided, Delivering, Placed, Draining, Passing, Reviewing, forge, disk, campaign
<1>9. CampaignInv(CampaignOf[w])' /\ Alone(CampaignOf[w])'
  BY <1>3, <1>5, CampaignStays, AloneStays DEF campaign
<1> QED
  BY <1>4, <1>5, <1>8, <1>9 DEF Kept

LEMMA EndDrainSteps ==
  ASSUME IInv, NEW w \in Workers, EndDrain(w)
  PROVE  Kept(w)
<1>1. TypeOK'
  BY Has DEF TypeOK, EndDrain, Goto, forge, disk, bounds
<1>2. Frame(w)
  BY Has DEF TypeOK, EndDrain, Goto, Frame, forge, disk, bounds
<1>3. /\ pc'[w] = "idle" \/ (pc'[w] = "round" /\ postCycle[w] = FALSE)
      /\ mine'[w] = {} /\ cur'[w] = {} /\ unreceipted' = unreceipted /\ pc[w] = "loop"
      /\ phase' = phase /\ postCycle' = postCycle /\ up' = up
  BY Has DEF TypeOK, WorkerInv, Decided, Reviewing, EndDrain, Goto
<1>4. WorkerInv(w)'
  BY <1>3, Has, OneStays DEF WorkerInv, Charged, Decided, Delivering, Placed, Draining, Passing, Reviewing
<1>5. CampaignInv(CampaignOf[w])' /\ Alone(CampaignOf[w])'
  BY <1>2, <1>3, CampaignStays, AloneStays
<1> QED
  BY <1>1, <1>2, <1>4, <1>5 DEF Kept

\* No receipt is open when a review is chosen: its writer would hold the lock, and its
\* loss would have stopped the drain.
LEMMA NoneOpen ==
  ASSUME IInv, NEW w \in Workers, pc[w] = "loop", ~Stopped(CampaignOf[w])
  PROVE  unreceipted[CampaignOf[w]] = 0
<1>1. lock = w /\ CampaignOf[w] \in up \ undurable
  BY Has DEF WorkerInv, Draining, Passing, Reviewing, Stopped
<1>2. \A v \in Workers : pc[v] \notin {"receipt", "limited"}
  BY <1>1, Has DEF Draining, Passing, Reviewing
<1> QED
  BY <1>1, <1>2, Has DEF CampaignInv

LEMMA ChooseSteps ==
  ASSUME IInv, NEW w \in Workers, Choose(w)
  PROVE  Kept(w)
<1> DEFINE Drop(k) == queue' = [queue EXCEPT ![k] = IF k \in records[w] THEN {} ELSE @]
           Claim(k) == queue' = [queue EXCEPT ![k] = IF k \in records[w] /\ "pending" \in @ THEN {"claimed"} ELSE @]
           Skip == Goto(w, "loop") /\ UNCHANGED cur
           Review(k) == Claim(k) /\ Goto(w, "pending") /\ cur' = [cur EXCEPT ![w] = {k}]
<1>1. PICK k \in todo[w] :
        /\ todo' = [todo EXCEPT ![w] = @ \ {k}]
        /\ \/ Fault /\ Skip /\ UNCHANGED queue
           \/ NoFault /\ Drop(k) /\ Skip /\ (k \notin managed \/ status[k] = "done")
           \/ (Fault \/ NoFault) /\ Review(k)
  BY Zenon DEF Choose
<1>2. /\ pc[w] = "loop" /\ ~Stopped(CampaignOf[w]) /\ unreceipted[CampaignOf[w]] = 0
      /\ UNCHANGED <<forge, stale, recorded, ledger, campaign, postCycle, mine, records, live, acked, crashes, parks>>
  BY NoneOpen DEF Choose
<1>3. k \in Keys /\ todo'[w] = todo[w] \ {k} /\ cur[w] = {}
  <2>1. todo \in [Workers -> SUBSET Keys] /\ Decided(w)
    BY Has DEF TypeOK, WorkerInv
  <2>2. cur[w] = {}
    BY <1>2, <2>1 DEF Decided, Reviewing
  <2> QED
    BY <1>1, <2>1, <2>2
<1>4. /\ queue' \in [Keys -> SUBSET {"pending", "claimed"}] /\ (faults' = 0 => faults' = faults)
      /\ faults' \in Nat /\ (faults' = 0 => faults = 0)
  BY <1>1, <1>3, Has DEF TypeOK, Fault, NoFault
<1>5. \/ /\ pc' = [pc EXCEPT ![w] = "loop"] /\ cur' = cur
         /\ faults' = 0 => k \notin managed \/ status[k] = "done"
      \/ pc' = [pc EXCEPT ![w] = "pending"] /\ cur' = [cur EXCEPT ![w] = {k}]
  BY <1>1, Has DEF TypeOK, Goto, Fault
<1>6. TypeOK'
  BY <1>1, <1>2, <1>3, <1>4, <1>5, Has DEF TypeOK, forge, campaign
<1>7. Frame(w)
  BY <1>1, <1>2, <1>4, <1>5, Has DEF TypeOK, Frame, forge, campaign
<1>8. WorkerInv(w)'
  <2>1. CASE pc' = [pc EXCEPT ![w] = "loop"] /\ cur' = cur /\ (faults' = 0 => k \notin managed \/ status[k] = "done")
    <3>1. pc'[w] = "loop" /\ cur'[w] = {}
      BY <2>1, <1>3, Has DEF TypeOK
    <3> QED
      BY <2>1, <3>1, <1>2, <1>3, <1>4, Has, OneStays
         DEF WorkerInv, Charged, Decided, Delivering, Placed, Draining, Passing, Reviewing, forge, campaign
  <2>2. CASE pc' = [pc EXCEPT ![w] = "pending"] /\ cur' = [cur EXCEPT ![w] = {k}]
    <3>1. pc'[w] = "pending" /\ cur'[w] = {k}
      BY <2>2, Has DEF TypeOK
    <3>2. OneInHand(w)'
      BY <3>1 DEF OneInHand
    <3>3. Delivering(w)'
      BY <3>1, <1>2, <1>3, <1>4, Has DEF WorkerInv, Delivering, Passing, Reviewing, forge, campaign
    <3> QED
      BY <3>1, <3>2, <3>3, <1>2, <1>3, <1>4, Has
         DEF WorkerInv, Charged, Decided, Delivering, Placed, Draining, Passing, Reviewing, forge, campaign
  <2> QED
    BY <1>5, <2>1, <2>2
<1>9. CampaignInv(CampaignOf[w])' /\ Alone(CampaignOf[w])'
  BY <1>2, <1>7, CampaignStays, AloneStays DEF campaign
<1> QED
  BY <1>6, <1>7, <1>8, <1>9 DEF Kept

\* What is handed back stays in the queue, or was not in it.
LEMMA HandedBack ==
  ASSUME TypeOK, NEW w \in Workers, NEW k \in Keys, HandBack(w, k)
  PROVE  /\ queue' \in [Keys -> SUBSET {"pending", "claimed"}]
         /\ \A q \in Keys : queue[q] # {} => queue'[q] # {}
<1>1. CASE queue' = queue
  BY <1>1 DEF TypeOK
<1>2. CASE queue' = [queue EXCEPT ![k] = IF "claimed" \in @ THEN {"pending"} ELSE @]
  <2>1. queue' \in [Keys -> SUBSET {"pending", "claimed"}]
    BY <1>2 DEF TypeOK
  <2>2. queue'[k] = {"pending"} \/ queue'[k] = queue[k]
    BY <1>2 DEF TypeOK
  <2>3. \A q \in Keys : q # k => queue'[q] = queue[q]
    BY <1>2 DEF TypeOK
  <2> QED
    BY <2>1, <2>2, <2>3
<1> QED
  BY <1>1, <1>2 DEF HandBack, unclaim

\* The work in hand is known, and the drain lock is held.
LEMMA InHand ==
  ASSUME IInv, NEW w \in Workers, pc[w] \in Reviewing
  PROVE  lock = w /\ CampaignOf[w] \in up /\ cur[w] \subseteq Keys
  BY Has DEF WorkerInv, Draining, Passing, Reviewing, TypeOK

LEMMA PostPendingSteps ==
  ASSUME IInv, NEW w \in Workers, PostPending(w)
  PROVE  Kept(w)
<1>1. /\ pc[w] = "pending" /\ cur[w] \subseteq Keys /\ lock = w /\ CampaignOf[w] \in up
      /\ UNCHANGED <<shipped, open, managed, stale, recorded, ledger, campaign,
                     postCycle, mine, records, live, todo, acked, crashes, parks>>
  BY InHand DEF PostPending, Reviewing
<1>2. PICK k \in cur[w] :
        \/ /\ NoFault /\ Goto(w, "gate") /\ status' = [status EXCEPT ![k] = "pending"]
           /\ UNCHANGED <<queue, cur>>
        \/ /\ Fault /\ Goto(w, "loop") /\ HandBack(w, k) /\ cur' = [cur EXCEPT ![w] = {}]
           /\ status' = [status EXCEPT ![k] = "pending"] \/ UNCHANGED status
  BY DEF PostPending
<1>3. queue' \in [Keys -> SUBSET {"pending", "claimed"}]
  BY <1>1, <1>2, Has, HandedBack DEF TypeOK
<1>4. TypeOK'
  BY <1>1, <1>2, <1>3, Has DEF TypeOK, Goto, Fault, NoFault, campaign
<1>5. Frame(w)
  BY <1>1, <1>2, Has DEF TypeOK, Goto, Frame, Fault, NoFault, campaign
<1>6. WorkerInv(w)'
  <2>1. CASE Fault /\ Goto(w, "loop") /\ cur' = [cur EXCEPT ![w] = {}]
    <3>1. pc'[w] = "loop" /\ cur'[w] = {} /\ faults' # 0
      BY <2>1, Has DEF TypeOK, Goto, Fault
    <3> QED
      BY <1>1, <3>1, Has, OneStays DEF WorkerInv, Charged, Decided, Delivering, Placed, Draining, Passing, Reviewing, campaign
  <2>2. CASE NoFault /\ Goto(w, "gate") /\ status' = [status EXCEPT ![k] = "pending"] /\ cur' = cur
    <3>1. pc'[w] = "gate" /\ \A q \in Keys : q # k => status'[q] = status[q]
      BY <1>1, <2>2, Has DEF TypeOK, Goto
    <3> QED
      BY <1>1, <2>2, <3>1, Has, OneStays
         DEF TypeOK, WorkerInv, Charged, Decided, Delivering, Placed, Draining, Passing, Reviewing, NoFault, campaign
  <2> QED
    BY <1>2, <2>1, <2>2
<1>7. CampaignInv(CampaignOf[w])' /\ Alone(CampaignOf[w])'
  BY <1>1, <1>5, CampaignStays, AloneStays DEF campaign
<1> QED
  BY <1>4, <1>5, <1>6, <1>7 DEF Kept

\* The gate charges a review before its receipt is written, and parks the campaign on a
\* rate limit.
LEMMA GateSteps ==
  ASSUME IInv, NEW w \in Workers, Gate(w)
  PROVE  Kept(w)
<1> DEFINE c == CampaignOf[w]
           Paid(l) == /\ daySpent' = [daySpent EXCEPT ![c] = @ + 1]
                      /\ unreceipted' = [unreceipted EXCEPT ![c] = @ + 1]
                      /\ Goto(w, l) /\ NoFault
<1>1. /\ pc[w] = "gate" /\ lock = w /\ c \in up /\ c \in Campaigns /\ unreceipted[c] = 0 /\ cur[w] \subseteq Keys
      /\ UNCHANGED <<forge, disk, lock, up, phase, undurable, postCycle, mine, records, live, todo, cur, acked, crashes>>
  BY InHand, Has, OneStays DEF Gate, Reviewing, WorkerInv, Charged
<1>2. \/ Paid("receipt") /\ NoLimit
      \/ Paid("limited") /\ (Limit(c) \/ (c \in parked /\ NoLimit))
      \/ Fault /\ Goto(w, "record") /\ NoLimit /\ UNCHANGED <<daySpent, unreceipted>>
  BY Zenon DEF Gate
<1>3. TypeOK'
  BY <1>1, <1>2, Has DEF TypeOK, Goto, Fault, NoFault, Limit, NoLimit, forge, disk
<1>4. Frame(w)
  BY <1>1, <1>2, Has DEF TypeOK, Goto, Frame, Fault, NoFault, Limit, NoLimit, forge, disk
<1>5. \/ pc'[w] = "receipt" /\ unreceipted'[c] = 1
      \/ pc'[w] = "limited" /\ unreceipted'[c] = 1 /\ c \in parked'
      \/ pc'[w] = "record" /\ unreceipted'[c] = 0 /\ faults' # 0
  BY <1>1, <1>2, Has DEF TypeOK, Goto, Fault, Limit, NoLimit
<1>6. parked \subseteq parked'
  BY <1>2 DEF Limit, NoLimit
<1>7. WorkerInv(w)'
  BY <1>1, <1>4, <1>5, <1>6, Has, OneStays
     DEF WorkerInv, Charged, Decided, Delivering, Placed, Draining, Passing, Reviewing, Frame, forge, disk
<1>8. CampaignInv(c)'
  BY <1>5 DEF CampaignInv
<1>9. Alone(c)'
  BY <1>1, <1>4, AloneStays
<1> QED
  BY <1>3, <1>4, <1>7, <1>8, <1>9 DEF Kept

\* The receipt closes what the gate charged, or its loss is latched.
LEMMA ReceiptSteps ==
  ASSUME IInv, NEW w \in Workers, Receipt(w)
  PROVE  Kept(w)
<1> DEFINE c == CampaignOf[w]
<1>1. /\ pc[w] \in {"receipt", "limited"} /\ lock = w /\ c \in up /\ c \in Campaigns /\ unreceipted[c] = 1 /\ cur[w] \subseteq Keys
      /\ UNCHANGED <<forge, stale, recorded, lock, up, phase, parked, daySpent, postCycle, mine, records, live, todo,
                     acked, crashes, parks>>
  BY InHand, Has, OneStays DEF Receipt, Reviewing, WorkerInv, Charged
<1>2. \/ /\ NoFault /\ ledger' = ledger + 1
         /\ unreceipted' = [unreceipted EXCEPT ![c] = @ - 1] /\ UNCHANGED undurable
      \/ Fault /\ undurable' = undurable \cup {c} /\ UNCHANGED <<ledger, unreceipted>>
  BY DEF Receipt
<1>3. \/ /\ pc[w] = "limited" /\ Goto(w, "loop") /\ cur' = [cur EXCEPT ![w] = {}]
         /\ \E k \in cur[w] : HandBack(w, k)
      \/ pc[w] = "receipt" /\ Goto(w, "record") /\ UNCHANGED <<queue, cur>>
  BY <1>1 DEF Receipt
<1>4. queue' \in [Keys -> SUBSET {"pending", "claimed"}]
  BY <1>1, <1>3, Has, HandedBack DEF TypeOK
<1>5. TypeOK'
  <2>1. unreceipted' \in [Campaigns -> Nat] /\ undurable' \subseteq Campaigns /\ ledger' \in Nat /\ faults' \in Nat
    BY <1>1, <1>2, Has DEF TypeOK, Fault, NoFault
  <2>2. pc' \in [Workers -> {"idle", "cycle", "try", "wait", "list", "candidates", "loop", "pending",
                             "gate", "receipt", "limited", "record", "post", "dequeue", "round"}]
        /\ cur' \in [Workers -> SUBSET Keys]
    BY <1>3, Has DEF TypeOK, Goto
  <2> QED
    BY <1>1, <1>4, <2>1, <2>2, Has DEF TypeOK, forge
<1>6. Frame(w)
  BY <1>1, <1>2, <1>3, Has DEF TypeOK, Goto, Frame, Fault, NoFault, forge
<1>7. \/ pc'[w] = "loop" /\ cur'[w] = {} /\ c \in parked'
      \/ pc'[w] = "record" /\ cur'[w] = cur[w]
  BY <1>1, <1>3, Has DEF TypeOK, Goto, WorkerInv, Placed
<1>8. WorkerInv(w)'
  BY <1>1, <1>6, <1>7, Has, OneStays DEF WorkerInv, Charged, Decided, Delivering, Placed, Draining, Passing, Reviewing, Frame, forge
<1>9. unreceipted'[c] = 0 \/ (unreceipted'[c] = 1 /\ c \in undurable')
  BY <1>1, <1>2, Has DEF TypeOK
<1>10. CampaignInv(c)'
  BY <1>9 DEF CampaignInv
<1>11. Alone(c)'
  BY <1>1, <1>6, AloneStays
<1> QED
  BY <1>5, <1>6, <1>8, <1>10, <1>11 DEF Kept

\* A decision goes on to the forge only with its record on the disk.
LEMMA RecordSteps ==
  ASSUME IInv, NEW w \in Workers, Record(w)
  PROVE  Kept(w)
<1>1. /\ pc[w] = "record" /\ lock = w /\ CampaignOf[w] \in up /\ cur[w] \subseteq Keys
      /\ UNCHANGED <<forge, stale, ledger, campaign, postCycle, mine, records, live, todo, acked, crashes, parks>>
  BY InHand DEF Record, Reviewing
<1>2. PICK k \in cur[w] :
        \/ NoFault /\ Goto(w, "post") /\ recorded' = recorded \cup {k} /\ UNCHANGED <<queue, cur>>
        \/ /\ Fault /\ Goto(w, "loop") /\ HandBack(w, k) /\ cur' = [cur EXCEPT ![w] = {}]
           /\ UNCHANGED recorded
  BY DEF Record
<1>3. queue' \in [Keys -> SUBSET {"pending", "claimed"}]
  BY <1>1, <1>2, Has, HandedBack DEF TypeOK
<1>4. TypeOK'
  BY <1>1, <1>2, <1>3, Has DEF TypeOK, Goto, Fault, NoFault, forge, campaign
<1>5. Frame(w)
  BY <1>1, <1>2, Has DEF TypeOK, Goto, Frame, Fault, NoFault, forge, campaign
<1>6. \/ pc'[w] = "post" /\ cur'[w] = cur[w] /\ cur[w] \subseteq recorded'
      \/ pc'[w] = "loop" /\ cur'[w] = {} /\ faults' # 0
  <2>1. cur[w] \subseteq {k}
    BY <1>2, Has DEF WorkerInv, OneInHand
  <2> QED
    BY <1>2, <2>1, Has DEF TypeOK, Goto, Fault
<1>7. WorkerInv(w)'
  BY <1>1, <1>5, <1>6, Has, OneStays
     DEF WorkerInv, Charged, Decided, Delivering, Placed, Draining, Passing, Reviewing, Frame, forge, campaign
<1>8. CampaignInv(CampaignOf[w])' /\ Alone(CampaignOf[w])'
  BY <1>1, <1>5, CampaignStays, AloneStays DEF campaign
<1> QED
  BY <1>4, <1>5, <1>7, <1>8 DEF Kept

LEMMA PostSteps ==
  ASSUME IInv, NEW w \in Workers, Post(w)
  PROVE  Kept(w)
<1>1. /\ pc[w] = "post" /\ pc' = [pc EXCEPT ![w] = "dequeue"] /\ lock = w /\ CampaignOf[w] \in up
      /\ cur[w] \subseteq Keys
      /\ UNCHANGED <<shipped, open, managed, disk, campaign, postCycle, mine, records, live, todo, cur, crashes, parks>>
  BY InHand DEF Post, Reviewing, Goto
<1>2. PICK k \in cur[w] :
        \/ NoFault /\ status' = [status EXCEPT ![k] = "done"] /\ acked' = [acked EXCEPT ![w] = TRUE]
        \/ /\ Fault /\ (status' = [status EXCEPT ![k] = "done"] \/ UNCHANGED status)
           /\ acked' = [acked EXCEPT ![w] = FALSE]
  BY DEF Post
<1>3. TypeOK'
  <2>1. status' \in [Keys -> {"missing", "pending", "done"}]
    <3>1. status' = status \/ status' = [status EXCEPT ![k] = "done"]
      BY <1>2
    <3> QED
      BY <3>1, Has DEF TypeOK
  <2>3. acked' \in [Workers -> BOOLEAN]
    <3>1. acked' = [acked EXCEPT ![w] = TRUE] \/ acked' = [acked EXCEPT ![w] = FALSE]
      BY <1>2
    <3> QED
      BY <3>1, Has DEF TypeOK
  <2>4. faults' \in Nat
    BY <1>2, Has DEF TypeOK, Fault, NoFault
  <2>2. pc' \in [Workers -> {"idle", "cycle", "try", "wait", "list", "candidates", "loop", "pending",
                             "gate", "receipt", "limited", "record", "post", "dequeue", "round"}]
    BY <1>1, Has DEF TypeOK
  <2> QED
    BY <1>1, <2>1, <2>2, <2>3, <2>4, Has DEF TypeOK, disk, campaign
<1>4. Frame(w)
  BY <1>1, <1>2, Has DEF TypeOK, Frame, Fault, NoFault, disk, campaign
<1>5. /\ \/ acked'[w] = TRUE /\ status'[k] = "done"
         \/ acked'[w] = FALSE /\ faults' # 0
      /\ \A q \in Keys : status[q] = "done" => status'[q] = "done"
  BY <1>1, <1>2, Has DEF TypeOK, Fault
<1>6. pc'[w] = "dequeue" /\ cur'[w] = cur[w]
  BY <1>1, Has DEF TypeOK
<1>7. WorkerInv(w)'
  <2>1. Charged(w)' /\ OneInHand(w)'
    BY <1>6, OneStays DEF Charged
  <2>2. cur[w] = {k}
    BY <1>2, Has DEF WorkerInv, OneInHand
  <2>3. Decided(w)'
    BY <1>5, <1>6, <2>2 DEF Decided, Reviewing
  <2>4. mine[w] \subseteq shipped /\ mine'[w] = mine[w] /\ todo'[w] = todo[w] /\ mine[w] \subseteq Keys
    BY <1>1, Has DEF TypeOK, WorkerInv, Delivering
  <2>5. Delivering(w)'
    <3> SUFFICES ASSUME faults' = 0, CampaignOf[w] \notin parked', NEW q \in mine[w] \cap open' \cap managed'
                 PROVE  status'[q] = "done" \/ q \in todo[w] \cup cur[w]
      BY <1>1, <1>6, <2>4 DEF Delivering
    <3>1. faults = 0 /\ parked' = parked /\ open' = open /\ managed' = managed
      BY <1>1, <1>4 DEF Frame, campaign
    <3>2. status[q] = "done" \/ q \in todo[w] \cup cur[w]
      BY <1>1, <3>1, Has DEF WorkerInv, Delivering, Passing, Reviewing
    <3> QED
      BY <1>5, <2>4, <3>2
  <2> QED
    BY <1>1, <1>6, <2>1, <2>3, <2>5, Has DEF WorkerInv, Placed, campaign
<1>8. CampaignInv(CampaignOf[w])' /\ Alone(CampaignOf[w])'
  BY <1>1, <1>4, CampaignStays, AloneStays DEF campaign
<1> QED
  BY <1>3, <1>4, <1>7, <1>8 DEF Kept

LEMMA DequeueSteps ==
  ASSUME IInv, NEW w \in Workers, Dequeue(w)
  PROVE  Kept(w)
<1>1. /\ pc[w] = "dequeue" /\ lock = w /\ CampaignOf[w] \in up /\ cur[w] \subseteq Keys
      /\ pc' = [pc EXCEPT ![w] = "loop"] /\ cur' = [cur EXCEPT ![w] = {}] /\ acked' = [acked EXCEPT ![w] = FALSE]
      /\ UNCHANGED <<forge, stale, recorded, ledger, campaign, postCycle, mine, records, live, todo, bounds>>
  BY InHand DEF Dequeue, Reviewing, Goto
<1>2. queue' \in [Keys -> SUBSET {"pending", "claimed"}]
  <2>1. PICK k \in cur[w] : IF acked[w] /\ k \in records[w] THEN queue' = [queue EXCEPT ![k] = {}] ELSE HandBack(w, k)
    BY DEF Dequeue
  <2> QED
    BY <1>1, <2>1, Has, HandedBack DEF TypeOK
<1>3. TypeOK'
  BY <1>1, <1>2, Has DEF TypeOK, forge, campaign, bounds
<1>4. Frame(w)
  BY <1>1, Has DEF TypeOK, Frame, forge, campaign, bounds
<1>5. pc'[w] = "loop" /\ cur'[w] = {}
  BY <1>1, Has DEF TypeOK
<1>6. WorkerInv(w)'
  BY <1>1, <1>5, Has, OneStays
     DEF WorkerInv, Charged, Decided, Delivering, Placed, Draining, Passing, Reviewing, forge, campaign, bounds
<1>7. CampaignInv(CampaignOf[w])' /\ Alone(CampaignOf[w])'
  BY <1>1, <1>4, CampaignStays, AloneStays DEF campaign
<1> QED
  BY <1>3, <1>4, <1>6, <1>7 DEF Kept

LEMMA WorkerSteps ==
  ASSUME IInv, NEW w \in Workers, WorkerStep(w)
  PROVE  IInv'
<1>1. Kept(w)
  BY StartSteps, EndCycleSteps, EntrySteps, CandidatesSteps, EndDrainSteps, ChooseSteps, PostPendingSteps, GateSteps,
     ReceiptSteps, RecordSteps, PostSteps, DequeueSteps DEF WorkerStep, DrainStep
<1> QED
  BY <1>1, FrameInv DEF Kept

-----------------------------------------------------------------------------
(* The steps around the workers.                                           *)

LEMMA CrashSteps ==
  ASSUME IInv, NEW c \in Campaigns, Crash(c)
  PROVE  IInv'
<1>1. /\ up' = up \ {c} /\ parked' = parked \ {c} /\ undurable' = undurable \ {c}
      /\ lock' = (IF lock \in Workers /\ CampaignOf[lock] = c THEN Orphan ELSE lock)
      /\ UNCHANGED <<forge, disk, phase, daySpent, unreceipted, postCycle, faults, parks>>
      /\ crashes' = crashes + 1
  BY DEF Crash
<1>2. TypeOK'
  <2>1. pc' \in [Workers -> {"idle", "cycle", "try", "wait", "list", "candidates", "loop", "pending",
                             "gate", "receipt", "limited", "record", "post", "dequeue", "round"}]
    BY Has DEF Crash, IInv, TypeOK
  <2>2. /\ acked' \in [Workers -> BOOLEAN]
        /\ mine' \in [Workers -> SUBSET Keys] /\ cur' \in [Workers -> SUBSET Keys]
        /\ records' \in [Workers -> SUBSET Keys] /\ live' \in [Workers -> SUBSET Keys]
        /\ todo' \in [Workers -> SUBSET Keys]
    BY DEF Crash, IInv, TypeOK
  <2> QED
    BY <1>1, <2>1, <2>2 DEF IInv, TypeOK, forge, disk
<1>3. ASSUME NEW w \in Workers, CampaignOf[w] = c PROVE WorkerInv(w)'
  <2>1. pc'[w] = "idle" /\ mine'[w] = {} /\ cur'[w] = {}
    BY <1>3 DEF Crash
  <2> QED
    BY <2>1 DEF WorkerInv, OneInHand, Charged, Decided, Delivering, Placed, Draining, Passing, Reviewing
<1>4. ASSUME NEW w \in Workers, CampaignOf[w] # c
      PROVE  WorkerInv(w)' /\ pc'[w] = pc[w]
  <2>1. /\ pc'[w] = pc[w] /\ mine'[w] = mine[w] /\ cur'[w] = cur[w] /\ todo'[w] = todo[w]
    BY <1>4 DEF Crash
  <2>2. acked'[w] = acked[w]
    <3>1. acked'[w] = (~(CampaignOf[w] = c) /\ acked[w])
      BY DEF Crash
    <3>2. acked[w] \in BOOLEAN
      BY DEF IInv, TypeOK
    <3> QED
      BY <1>4, <3>1, <3>2
  <2>3. WorkerInv(w) /\ (CampaignOf[w] \in parked' <=> CampaignOf[w] \in parked)
        /\ (pc[w] \in Draining => lock' = w)
    BY <1>1, <1>4 DEF IInv, WorkerInv
  <2> QED
    BY <1>1, <1>4, <2>1, <2>2, <2>3
       DEF WorkerInv, OneInHand, Charged, Decided, Delivering, Placed, forge, disk
<1>5. ASSUME NEW d \in Campaigns PROVE CampaignInv(d)' /\ Alone(d)'
  <2>1. CampaignInv(d) /\ Alone(d)
    BY DEF IInv
  <2>2. \A w \in Workers : pc'[w] = "idle" \/ pc'[w] = pc[w]
    BY DEF Crash
  <2> QED
    BY <1>1, <1>4, <2>1, <2>2 DEF CampaignInv, Alone, AllIdle
<1> QED
  BY <1>2, <1>3, <1>4, <1>5 DEF IInv

\* A campaign ends, is started again or resumes while none of its workers is at work.
LEMMA CampaignSteps ==
  ASSUME IInv, NEW c \in Campaigns, Exit(c) \/ Restart(c) \/ ParkResets(c)
  PROVE  IInv'
<1>1. /\ \A d \in Campaigns \ {c} :
           /\ (d \in up' <=> d \in up) /\ (d \in parked' <=> d \in parked)
           /\ (d \in undurable' <=> d \in undurable)
           /\ unreceipted'[d] = unreceipted[d] /\ phase'[d] = phase[d]
      /\ \/ unreceipted'[c] = 0
         \/ unreceipted'[c] = unreceipted[c] /\ (c \notin up' \/ (c \in up /\ undurable' = undurable))
      /\ phase'[c] \in {"start", "resume", phase[c]}
      /\ UNCHANGED <<forge, disk, lock, worker, bounds>>
  BY DEF Exit, Restart, ParkResets, IInv, TypeOK
<1>2. AllIdle(c)
  BY DEF Exit, Restart, ParkResets, IInv, WorkerInv, AllIdle
<1>3. TypeOK'
  BY DEF Exit, Restart, ParkResets, IInv, TypeOK, forge, disk, worker, bounds
<1>4. ASSUME NEW w \in Workers PROVE WorkerInv(w)'
  <2>1. WorkerInv(w) /\ CampaignOf[w] \in Campaigns
    BY Has
  <2>2. CASE CampaignOf[w] = c
    BY <1>1, <1>2, <2>1, <2>2
       DEF WorkerInv, OneInHand, Charged, Decided, Delivering, Placed, Draining, Passing, Reviewing, AllIdle,
           forge, disk, worker, bounds
  <2>3. CASE CampaignOf[w] # c
    BY <1>1, <2>1, <2>3
       DEF WorkerInv, OneInHand, Charged, Decided, Delivering, Placed, forge, disk, worker, bounds
  <2> QED
    BY <2>2, <2>3
<1>5. ASSUME NEW d \in Campaigns PROVE CampaignInv(d)' /\ Alone(d)'
  <2>1. CampaignInv(d) /\ Alone(d)
    BY DEF IInv
  <2>2. CASE d = c
    BY <1>1, <1>2, <2>1, <2>2 DEF CampaignInv, Alone, AllIdle, worker
  <2>3. CASE d # c
    BY <1>1, <2>1, <2>3 DEF CampaignInv, Alone, AllIdle, worker
  <2> QED
    BY <2>2, <2>3
<1> QED
  BY <1>3, <1>4, <1>5 DEF IInv

\* Time passes and pull requests close.
LEMMA WorldSteps ==
  ASSUME IInv,
         (\E k \in Keys : Age(k) \/ Close(k) \/ Unmanage(k)) \/ LeaseExpires \/ NewDay \/ UNCHANGED vars
  PROVE  IInv'
<1>1. /\ open' \subseteq open /\ managed' \subseteq managed
      /\ UNCHANGED <<shipped, status, queue, recorded, up, phase, parked, undurable, unreceipted, worker, bounds>>
      /\ lock' = lock \/ lock = Orphan
  BY DEF Age, Close, Unmanage, LeaseExpires, NewDay, vars, forge, disk, campaign
<1>2. TypeOK'
  BY DEF Age, Close, Unmanage, LeaseExpires, NewDay, vars, forge, disk, campaign, worker, bounds, IInv, TypeOK
<1>3. ASSUME NEW w \in Workers PROVE WorkerInv(w)'
  <2>1. WorkerInv(w) /\ (pc[w] \in Draining => lock' = w)
    BY <1>1, Has DEF WorkerInv
  <2> QED
    BY <1>1, <2>1 DEF WorkerInv, OneInHand, Charged, Decided, Delivering, Placed, worker, bounds
<1>4. ASSUME NEW c \in Campaigns PROVE CampaignInv(c)' /\ Alone(c)'
  BY <1>1 DEF IInv, CampaignInv, Alone, AllIdle, worker
<1> QED
  BY <1>2, <1>3, <1>4 DEF IInv

-----------------------------------------------------------------------------
LEMMA InitInv == Init => IInv
<1> SUFFICES ASSUME Init PROVE IInv
  OBVIOUS
<1>1. TypeOK
  BY DEF Init, TypeOK
<1>2. ASSUME NEW w \in Workers PROVE WorkerInv(w)
  BY DEF Init, WorkerInv, OneInHand, Charged, Decided, Delivering, Placed, Draining, Passing, Reviewing
<1>3. ASSUME NEW c \in Campaigns PROVE CampaignInv(c) /\ Alone(c)
  BY DEF Init, CampaignInv, Alone, AllIdle
<1> QED
  BY <1>1, <1>2, <1>3 DEF IInv

LEMMA Steps == IInv /\ [Next]_vars => IInv'
  BY WorkerSteps, CrashSteps, CampaignSteps, WorldSteps DEF Next

\* The invariant holds in every reachable state, for any workers, campaigns and bounds.
THEOREM Invariance == Spec => []IInv
  BY InitInv, Steps, PTL DEF Spec

\* Every variable keeps its type; in particular no tally of open receipts goes below zero.
THEOREM TypeCorrect == Spec => []TypeOK
<1>1. IInv => TypeOK
  BY DEF IInv
<1> QED
  BY <1>1, Invariance, PTL

\* No campaign has more than one paid review whose receipt is lost: the receipt of a review
\* is written, or the drain is latched, before its lock lets another review start.
THEOREM OneUnreceiptedSafe == Spec => []OneUnreceiptedReview
<1>1. IInv => OneUnreceiptedReview
  BY DEF IInv, CampaignInv, OneUnreceiptedReview
<1> QED
  BY <1>1, Invariance, PTL

-----------------------------------------------------------------------------
(* The action properties.                                                  *)

Keeps(k) == queue[k] # {} /\ queue'[k] = {} => status[k] = "done" \/ k \notin managed

\* The steps that hand a request back, and those that leave the queue alone.
LEMMA QueueStays ==
  ASSUME TypeOK, NEW w \in Workers, NEW q \in Keys, queue[q] # {},
         StartDrain(w) \/ Round(w) \/ BeginCycle(w) \/ EndCycle(w) \/ TryLock(w) \/ WaitLock(w) \/ List(w) \/ Candidates(w) \/ EndDrain(w)
         \/ PostPending(w) \/ Gate(w) \/ Receipt(w) \/ Record(w) \/ Post(w)
  PROVE  queue'[q] # {}
<1>1. CASE EndCycle(w)
  <2>1. PICK s \in {{}} \cup {{k} : k \in Keys \ shipped} :
          queue' = [k \in Keys |-> IF k \in s THEN {"pending"} ELSE queue[k]] \/ queue' = queue
    BY <1>1 DEF EndCycle
  <2> QED
    BY <2>1
<1>2. CASE List(w)
  BY <1>2 DEF List
<1>3. CASE StartDrain(w) \/ Round(w) \/ BeginCycle(w) \/ TryLock(w) \/ WaitLock(w) \/ Candidates(w) \/ EndDrain(w) \/ Gate(w) \/ Post(w)
  <2>1. queue' = queue
    BY <1>3 DEF StartDrain, Round, BeginCycle, TryLock, WaitLock, Candidates, EndDrain, Gate, Post, disk
  <2> QED
    BY <2>1
<1>4. CASE PostPending(w) \/ Receipt(w) \/ Record(w)
  <2>1. queue' = queue \/ \E k \in cur[w] : HandBack(w, k)
    BY <1>4 DEF PostPending, Receipt, Record
  <2>2. cur[w] \subseteq Keys
    BY DEF TypeOK
  <2> QED
    BY <2>1, <2>2, HandedBack
<1> QED
  BY <1>1, <1>2, <1>3, <1>4

LEMMA KeepsSteps == IInv /\ [Next]_vars => \A q \in Keys : Keeps(q)
<1> SUFFICES ASSUME IInv, [Next]_vars, NEW q \in Keys, queue[q] # {}, queue'[q] = {}
             PROVE  status[q] = "done" \/ q \notin managed
  BY DEF Keeps
<1>1. TypeOK
  BY DEF IInv
<1>2. PICK w \in Workers : Choose(w) \/ Dequeue(w)
  <2>1. CASE \E w \in Workers : WorkerStep(w)
    BY <1>1, <2>1, QueueStays DEF WorkerStep, DrainStep
  <2>2. CASE UNCHANGED vars \/ (\E c \in Campaigns : Crash(c) \/ Exit(c) \/ Restart(c) \/ ParkResets(c))
             \/ (\E k \in Keys : Age(k) \/ Close(k) \/ Unmanage(k)) \/ LeaseExpires \/ NewDay
    <3>1. queue' = queue
      BY <2>2 DEF vars, disk, Crash, Exit, Restart, ParkResets, Age, Close, Unmanage, LeaseExpires, NewDay
    <3> QED
      BY <3>1
  <2> QED
    BY <2>1, <2>2 DEF Next
<1>3. CASE Choose(w)
  <2>1. PICK k \in todo[w] :
          \/ queue' = queue
          \/ queue' = [queue EXCEPT ![k] = IF k \in records[w] THEN {} ELSE @]
             /\ (k \notin managed \/ status[k] = "done")
          \/ queue' = [queue EXCEPT ![k] = IF k \in records[w] /\ "pending" \in @ THEN {"claimed"} ELSE @]
    BY <1>3, Zenon DEF Choose
  <2>2. queue \in [Keys -> SUBSET {"pending", "claimed"}]
    BY <1>1 DEF TypeOK
  <2>3. q # k => queue'[q] = queue[q]
    BY <2>1, <2>2
  <2>4. q = k
    BY <2>3
  <2>5. CASE queue' = queue
    BY <2>5
  <2>6. CASE queue' = [queue EXCEPT ![k] = IF k \in records[w] /\ "pending" \in @ THEN {"claimed"} ELSE @]
    <3>1. queue'[q] = (IF k \in records[w] /\ "pending" \in queue[q] THEN {"claimed"} ELSE queue[q])
      BY <2>2, <2>4, <2>6
    <3> QED
      BY <3>1
  <2> QED
    BY <2>1, <2>4, <2>5, <2>6
<1>4. CASE Dequeue(w)
  <2>1. PICK k \in cur[w] : IF acked[w] /\ k \in records[w] THEN queue' = [queue EXCEPT ![k] = {}] ELSE HandBack(w, k)
    BY <1>4 DEF Dequeue
  <2>2. k \in Keys
    BY <1>1 DEF TypeOK
  <2>3. acked[w] = TRUE /\ queue' = [queue EXCEPT ![k] = {}]
    BY <1>1, <2>1, <2>2, HandedBack DEF TypeOK
  <2>4. q = k
    BY <1>1, <2>3 DEF TypeOK
  <2> QED
    BY <1>4, <2>3, <2>4, Has DEF WorkerInv, Decided, Dequeue
<1> QED
  BY <1>2, <1>3, <1>4

\* A request leaves the queue only with a terminal status on its SHA or unmanaged, whatever
\* call failed or process died on the way.
THEOREM RequestKept == Spec => RequestKeptUntilReviewed
<1>1. IInv /\ [Next]_vars => [\A k \in Keys : queue[k] # {} /\ queue'[k] = {} => status[k] = "done" \/ k \notin managed]_vars
  BY KeepsSteps DEF Keeps
<1> QED
  BY <1>1, Invariance, PTL DEF Spec, RequestKeptUntilReviewed

LEMMA BackedSteps == IInv /\ [Next]_vars => \A k \in Keys : status[k] # "done" /\ status'[k] = "done" => k \in recorded
<1> SUFFICES ASSUME IInv, [Next]_vars, NEW q \in Keys, status[q] # "done", status'[q] = "done"
             PROVE  q \in recorded
  OBVIOUS
<1>1. TypeOK
  BY DEF IInv
<1>2. PICK w \in Workers : PostPending(w) \/ Post(w)
  BY DEF Next, vars, forge, WorkerStep, StartDrain, Round, BeginCycle, EndCycle, DrainStep, TryLock, WaitLock, List, Candidates, EndDrain, Choose,
         Gate, Receipt, Record, Dequeue,
         Crash, Exit, Restart, ParkResets, Age, Close, Unmanage, LeaseExpires, NewDay
<1>3. CASE PostPending(w)
  BY <1>1, <1>3 DEF PostPending, TypeOK
<1>4. CASE Post(w)
  <2>1. PICK k \in cur[w] : status' = status \/ status' = [status EXCEPT ![k] = "done"]
    BY <1>4 DEF Post
  <2>2. k \in Keys /\ q = k
    BY <1>1, <2>1 DEF TypeOK
  <2> QED
    BY <1>4, <2>2, Has DEF WorkerInv, Decided, Post
<1> QED
  BY <1>2, <1>3, <1>4

\* Every terminal status rests on a durable gate record.
THEOREM RecordBacked == Spec => StatusBackedByRecord
<1>1. IInv /\ [Next]_vars => [\A k \in Keys : status[k] # "done" /\ status'[k] = "done" => k \in recorded]_vars
  BY BackedSteps
<1> QED
  BY <1>1, Invariance, PTL DEF Spec, StatusBackedByRecord

Delivers(w) ==
    \A k \in mine[w] :
        /\ mine'[w] = {} /\ faults' = 0 /\ crashes' = 0
        /\ ~Stopped(CampaignOf[w]) /\ k \in open \cap managed
        => status[k] = "done"

LEMMA DeliversSteps == IInv /\ [Next]_vars => \A w \in Workers : Delivers(w)
<1> SUFFICES ASSUME IInv, [Next]_vars, NEW w \in Workers, NEW k \in mine[w],
                    mine'[w] = {}, faults' = 0, crashes' = 0, ~Stopped(CampaignOf[w]), k \in open \cap managed
             PROVE  status[k] = "done"
  BY DEF Delivers
<1>1. EndDrain(w)
  <2>1. TypeOK
    BY DEF IInv
  <2>2. CASE \E c \in Campaigns : Crash(c)
    BY <2>1, <2>2 DEF Crash, TypeOK
  <2>3. ASSUME NEW v \in Workers, EndCycle(v) PROVE mine'[w] # {}
    <3>1. PICK s : mine' = [mine EXCEPT ![v] = s] \/ mine' = mine
      BY <2>3 DEF EndCycle
    <3>2. v # w
      BY <2>3, Has DEF EndCycle, WorkerInv, Placed
    <3> QED
      BY <2>1, <3>1, <3>2 DEF TypeOK
  <2>4. ASSUME NEW v \in Workers, EndDrain(v), v # w PROVE mine'[w] # {}
    BY <2>1, <2>4 DEF EndDrain, TypeOK
  <2>5. mine' # mine
    OBVIOUS
  <2>6. PICK v \in Workers : EndCycle(v) \/ EndDrain(v)
    BY <2>2, <2>5 DEF Next, vars, worker, WorkerStep, StartDrain, Round, BeginCycle, DrainStep, TryLock, WaitLock, List, Candidates, Choose,
         PostPending, Gate, Receipt, Record, Post, Dequeue,
         Exit, Restart, ParkResets, Age, Close, Unmanage, LeaseExpires, NewDay
  <2> QED
    BY <2>3, <2>4, <2>6
<1>2. pc[w] = "loop" /\ todo[w] = {} /\ faults = 0 /\ CampaignOf[w] \notin parked
  BY <1>1 DEF EndDrain, Stopped, bounds
<1>3. cur[w] = {}
  BY <1>2, Has DEF WorkerInv, Decided, Reviewing
<1> QED
  BY <1>2, <1>3, Has DEF WorkerInv, Delivering, Passing

\* A post-cycle drain that returns undisturbed has reviewed what its worker shipped, also
\* when another drain held the lock and had listed the queue before the ship.
THEOREM PostCycleSafe == Spec => PostCycleDelivers
<1>1. IInv /\ [Next]_vars => [\A w \in Workers : \A k \in mine[w] :
          /\ mine'[w] = {} /\ faults' = 0 /\ crashes' = 0
          /\ ~Stopped(CampaignOf[w]) /\ k \in open \cap managed
          => status[k] = "done"]_vars
  BY DeliversSteps DEF Delivers
<1> QED
  BY <1>1, Invariance, PTL DEF Spec, PostCycleDelivers
=============================================================================
