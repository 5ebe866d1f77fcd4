-------------------------- MODULE ReviewGate_proofs --------------------------
(***************************************************************************)
(* The cold gate for any commits, blockers, cells and bounds, whatever     *)
(* runs at a time and whatever head is pushed: every line of a green head  *)
(* was read, no blocker is lost between heads, a carried refutation is     *)
(* fresh, and an operator answers every blocker.  What was written too     *)
(* late for a later review, or by two runs of one head at once, is told    *)
(* apart by the notes `late` and `overlapped`, and nothing else is.        *)
(***************************************************************************)
EXTENDS ReviewGate, FiniteSetTheorems, TLAPS

\* What the records hold.
Agreements == {"invalid", "consensus-pass", "consensus-block", "disagreement"}
Commits == Heads \cup {NoHead}
Mapped == {f \in Findings : HunkOf[f] # NoHunk}
Carry == [prior : Commits, seeds : SUBSET Findings, auto : [Findings -> Commits], narrowed : BOOLEAN]
Source == [agreement : Agreements, survivors : SUBSET Mapped, refuted : SUBSET Findings]
Disposition == [ok : BOOLEAN, agreement : Agreements, survived : SUBSET Findings,
                refuted : [Findings -> Commits]]
Run == [pc : {"idle", "review", "fleet", "source", "disposition", "post"},
        kind : {"none", "drain", "cli"}, head : Commits, carry : Carry,
        carried : SUBSET Findings, refuted : SUBSET Findings,
        decisions : [Findings -> {"none", "survives", "refuted"}],
        previous : Nat, iteration : 0..MaxPasses, gate : {"none", "pass", "block"}, ok : BOOLEAN,
        agreement : Agreements \cup {"none"}, source : Source \cup {NoRecord},
        disposition : Disposition \cup {NoRecord}]
Adjudication == [pc : {"idle", "inspected", "verified", "recorded"}, head : Commits, source : Commits,
                 survivors : SUBSET Mapped, refuted : SUBSET Findings, blockers : SUBSET Findings]

ForgeTypes ==
    /\ head \in pushed /\ pushed \subseteq Heads
    /\ status \in [Heads -> {"none", "pending", "success", "failure"}]
    /\ \A h \in Heads : status[h] # "none" \/ gateRecords[h] # NoRecord => h \in pushed

StoreTypes ==
    /\ DOMAIN gateRecords = Heads
    /\ sources \in [Heads -> Source \cup {NoRecord}]
    /\ dispositions \in [Heads -> Disposition \cup {NoRecord}]
    /\ bound \subseteq {"source", "disposition"} \X Heads
    /\ \A h \in Heads : <<"disposition", h>> \in bound => dispositions[h] \in Disposition

HistoryTypes ==
    /\ refutedAt \subseteq Heads \X Findings /\ inspected \subseteq Heads \X Paths
    /\ coldAt \subseteq Heads /\ edited \subseteq Heads \X Paths

\* A run that reviews has no result yet, and one with a result consumes nothing more.
RunOK(q) ==
    /\ q.pc # "idle" => q.head \in pushed
    /\ q.pc = "idle" => q.gate = "none" /\ q.source = NoRecord /\ q.disposition = NoRecord
    /\ q.pc = "review" => /\ q.gate = "none" /\ q.source = NoRecord /\ q.disposition = NoRecord
                          /\ reviews \in 1..MaxReviews
                          /\ q.kind # "none" /\ q.iteration < MaxPasses
    /\ q.pc # "review" => q.carry = NoCarry
    /\ q.pc \in {"source", "disposition"} => q.disposition # NoRecord

AdjOK(q) == q.pc # "idle" => q.head \in pushed /\ q.source \in Heads

ProcessTypes ==
    /\ run \in [Reviewers -> Run] /\ \A r \in Reviewers : RunOK(run[r])
    /\ adj \in [Adjudicators -> Adjudication] /\ \A a \in Adjudicators : AdjOK(adj[a])
    /\ reviews \in 0..MaxReviews /\ faults \in 0..MaxFaults

Types == ForgeTypes /\ StoreTypes /\ HistoryTypes /\ ProcessTypes

\* What is noted of the order: a run that reviews, and what it leaves behind, is of a head
\* whose review has begun; two runs of a head have overlapped.
OrderTypes == begun \subseteq Heads /\ late \subseteq Heads /\ overlapped \subseteq Heads
BegunInv ==
    /\ \A h \in Heads : dispositions[h] # NoRecord => h \in begun
    /\ \A r \in Reviewers :
          run[r].pc = "review" \/ run[r].disposition # NoRecord \/ run[r].gate = "pass" => run[r].head \in begun
OverlapInv ==
    \A r, s \in Reviewers :
        r # s /\ run[r].head = run[s].head /\ run[r].head \in Heads => run[r].head \in overlapped
OrderInv == OrderTypes /\ BegunInv /\ OverlapInv

-----------------------------------------------------------------------------
\* A complete fleet read every path with what it holds at h.
Covered(h) == \A p \in Paths : Read(p, h)

\* What is left of a complete run, and what a run builds on, is of covered heads; the
\* edits an operator lets through are of the survivors' paths.
RunCover(q) ==
    /\ q.carry.prior \in Heads => q.carry.prior \in Before(q.head) /\ Covered(q.carry.prior)
    /\ q.carry.narrowed => q.carry.prior \in Heads
    /\ q.source # NoRecord => Covered(q.head)
    /\ q.disposition # NoRecord /\ q.disposition.ok => Covered(q.head)
    /\ q.gate = "pass" => Covered(q.head)
AdjCover(y) ==
    /\ y.source \in Before(y.head) /\ Covered(y.source)
    /\ \A p \in computeTouchedPaths(y.source, y.head) : \E f \in y.survivors : HunkOf[f].path = p
CoverInv ==
    /\ \A h \in Heads : sources[h] # NoRecord => Covered(h)
    /\ \A h \in Heads : dispositions[h] # NoRecord /\ dispositions[h].ok => Covered(h)
    /\ \A r \in Reviewers : RunCover(run[r])
    /\ \A a \in Adjudicators : adj[a].pc # "idle" => AdjCover(adj[a])
    /\ \A h \in Heads : status[h] = "success" => \A p \in Paths : Read(p, h) \/ <<h, p>> \in edited

IInv == Types /\ OrderInv /\ CoverInv

-----------------------------------------------------------------------------
\* A source and a disposition that both match one gate record are of one run, unless two
\* runs of that head were under way at once.
PairsOK == \A h \in Heads \ overlapped :
              <<"source", h>> \in bound /\ <<"disposition", h>> \in bound =>
                 dispositions[h].survived \subseteq sources[h].survivors \cup sources[h].refuted
RunPair(q) ==
    /\ q.source # NoRecord => q.disposition.survived \subseteq q.source.survivors \cup q.source.refuted
    /\ q.head \notin overlapped =>
          /\ q.pc \in {"source", "disposition"} => <<"disposition", q.head>> \notin bound
          /\ q.pc = "source" => <<"source", q.head>> \notin bound
          /\ q.pc = "disposition" /\ <<"source", q.head>> \in bound =>
                q.source # NoRecord /\ sources[q.head] = q.source
PairInv == PairsOK /\ \A r \in Reviewers : RunPair(run[r])

\* What an operator is to answer is in hand, and the live verification is done.
AdjAnswers(y) ==
    /\ y.pc # "idle" /\ y.source \notin overlapped => y.blockers \subseteq y.survivors \cup y.refuted
    /\ y.pc \in {"verified", "recorded"} => {y.head} \X LiveChecked(y) \subseteq refutedAt
AnswerInv == \A a \in Adjudicators : AdjAnswers(adj[a])

-----------------------------------------------------------------------------
\* A blocker that the disposition of b holds, written before the review of a later head began.
Open(b, f) == b \notin late /\ dispositions[b] # NoRecord /\ f \in dispositions[b].survived

\* The verifier refuted f at s, nothing has touched its file since, and no head between s
\* and h saw it survive.
Since(s, f, h) ==
    /\ s \in Ancestors[h] /\ <<s, f>> \in refutedAt
    /\ Content[s][PathOf[f]] = Content[h][PathOf[f]]
    /\ \A b \in Before(h) : s \in Before(b) => ~Open(b, f)

Fresh(d, h) ==
    \A f \in Findings : d.refuted[f] # NoHead => f \notin d.survived /\ Since(d.refuted[f], f, h)
CarryFresh(c, h) ==
    \A f \in Findings : c.auto[f] # NoHead => f \notin Safety /\ c.auto[f] # h /\ Since(c.auto[f], f, h)
FreshInv ==
    /\ \A h \in Heads : dispositions[h] # NoRecord => Fresh(dispositions[h], h)
    /\ \A r \in Reviewers : /\ run[r].disposition # NoRecord => Fresh(run[r].disposition, run[r].head)
                            /\ CarryFresh(run[r].carry, run[r].head)

\* Every blocker an ancestor holds is answered or held by what came after; a run with
\* carry holds its seeds until it refutes them.
Held(S, h) == \A a \in Before(h), f \in Findings : Open(a, f) => f \in S \/ Answered(a, f, h)
RunHeld(q) ==
    /\ q.pc = "review" /\ q.carry # NoCarry => Held(q.carry.seeds, q.head)
    /\ q.carry.seeds \subseteq q.carried \cup q.refuted
    /\ q.carry.seeds \cap AutoRefutable(q.carry) = {}
    /\ q.disposition # NoRecord /\ q.disposition.ok => Held(q.disposition.survived, q.head)
    /\ q.gate = "pass" => Held({}, q.head)
HeldInv ==
    /\ \A h \in Heads : dispositions[h] # NoRecord /\ dispositions[h].ok => Held(dispositions[h].survived, h)
    /\ \A r \in Reviewers : RunHeld(run[r])

-----------------------------------------------------------------------------
(* Commits and carry.                                                      *)

\* The commits of a branch are in a line.
LEMMA Line ==
  ASSUME NEW h \in Heads
  PROVE  /\ h \in Ancestors[h] /\ Ancestors[h] \subseteq Heads /\ Before(h) \subseteq Heads
         /\ \A a \in Ancestors[h] : Ancestors[a] \subseteq Ancestors[h] /\ Before(a) \subseteq Before(h)
         /\ \A a \in Before(h) : h \notin Ancestors[a] /\ a # h /\ a \in Ancestors[h]
         /\ \A a, b \in Ancestors[h] : a \in Ancestors[b] \/ b \in Ancestors[a]
<1>1. /\ h \in Ancestors[h] /\ Ancestors[h] \subseteq Heads
      /\ \A a \in Ancestors[h] : Ancestors[a] \subseteq Ancestors[h] /\ (h \in Ancestors[a] => a = h)
  BY AncestorsAssumption
<1>2. \A a \in Before(h) : h \notin Ancestors[a] /\ a # h /\ a \in Ancestors[h]
  BY <1>1 DEF Before
<1>3. \A a \in Ancestors[h] : Before(a) \subseteq Before(h)
  BY <1>1 DEF Before
<1>4. ASSUME NEW a \in Ancestors[h], NEW b \in Ancestors[h] PROVE a \in Ancestors[b] \/ b \in Ancestors[a]
  <2>1. {a, b} \in SUBSET Ancestors[h] /\ {a, b} # {}
    OBVIOUS
  <2>2. PICK c \in {a, b} : {a, b} \subseteq Ancestors[c]
    BY <2>1, AncestorsAssumption
  <2> QED
    BY <2>2
<1> QED
  BY <1>1, <1>2, <1>3, <1>4 DEF Before

\* The watermark is a complete head, and the newest of those that match.
LEMMA WatermarkIs ==
  ASSUME NEW h \in Heads, Watermark(h) \in Heads
  PROVE  /\ Watermark(h) \in Before(h) /\ dispositions[Watermark(h)] # NoRecord
         /\ dispositions[Watermark(h)].ok
<1> DEFINE binding == {a \in Before(h) : /\ dispositions[a] # NoRecord
                                        /\ isCompleteWatermark(dispositions[a])
                                        /\ <<"disposition", a>> \in bound}
<1>1. Watermark(h) = IF binding = {} THEN NoHead ELSE CHOOSE a \in binding : binding \subseteq Ancestors[a]
  BY DEF Watermark
<1>2. binding # {}
  BY <1>1, AncestorsAssumption
<1>3. binding \in SUBSET Ancestors[h]
  BY DEF Before
<1> HIDE DEF binding
<1>4. \E a \in binding : binding \subseteq Ancestors[a]
  BY <1>2, <1>3, AncestorsAssumption
<1>5. Watermark(h) \in binding
  BY <1>1, <1>2, <1>4
<1> QED
  BY <1>5 DEF binding, isCompleteWatermark

\* What a run may start with.
LEMMA CarryIs ==
  ASSUME NEW h \in Heads, NEW pool, NEW enabled
  PROVE  \/ CarryOf(h, pool, enabled) = NoCarry
         \/ Watermark(h) \in Heads /\ CarryOf(h, pool, enabled) = planCarry(h, Watermark(h))
         \/ Watermark(h) \notin Heads /\ CarryOf(h, pool, enabled) = [NoCarry EXCEPT !.seeds = Overlay(h)]
<1>1. \/ resolveCarryOptions(h) = NoCarry
      \/ Watermark(h) \in Heads /\ resolveCarryOptions(h) = planCarry(h, Watermark(h))
      \/ Watermark(h) \notin Heads /\ resolveCarryOptions(h) = [NoCarry EXCEPT !.seeds = Overlay(h)]
  BY Zenon DEF resolveCarryOptions
<1> QED
  BY <1>1, Zenon DEF CarryOf

LEMMA RecordTypes ==
  /\ NoCarry \in Carry /\ AdjIdle \in Adjudication
  /\ Idle \in Run
<1>1. NoCarry \in Carry
  BY DEF NoCarry, Carry, Commits
<1>2. AdjIdle \in Adjudication
  BY DEF AdjIdle, Adjudication, Commits
<1>3. Idle \in Run
  <2>1. 0 \in 0..MaxPasses
    BY ReviewGateAssumption
  <2> QED
    BY <1>1, <2>1 DEF Idle, Run, Commits
<1> QED
  BY <1>1, <1>2, <1>3

LEMMA CarryType ==
  ASSUME StoreTypes, NEW h \in Heads, NEW pool, NEW enabled
  PROVE  CarryOf(h, pool, enabled) \in Carry
<1>1. \A hs \in SUBSET Before(h) : (\A a \in hs : dispositions[a] # NoRecord) => Survived(hs) \subseteq Findings
  BY Line DEF StoreTypes, Disposition, Survived
<1>2. Overlay(h) \subseteq Findings
  BY <1>1 DEF Overlay
<1>3. CASE CarryOf(h, pool, enabled) = NoCarry
  BY <1>3, RecordTypes
<1>4. CASE Watermark(h) \in Heads /\ CarryOf(h, pool, enabled) = planCarry(h, Watermark(h))
  <2>1. PICK w \in Heads : w = Watermark(h)
    BY <1>4
  <2>2. dispositions[w] \in Disposition
    BY <2>1, WatermarkIs DEF StoreTypes
  <2>3. \A f \in Findings : dispositions[w].refuted[f] \in Commits
    BY <2>2 DEF Disposition
  <2>4. planCarry(h, w).auto \in [Findings -> Commits]
    BY <2>3 DEF planCarry, Commits
  <2>5. dispositions[w].survived \cup Overlay(h) \subseteq Findings
    BY <1>2, <2>2 DEF Disposition
  <2> QED
    BY <1>4, <2>1, <2>4, <2>5 DEF planCarry, Carry, Commits
<1>5. CASE CarryOf(h, pool, enabled) = [NoCarry EXCEPT !.seeds = Overlay(h)]
  BY <1>2, <1>5, RecordTypes DEF Carry
<1> QED
  BY <1>3, <1>4, <1>5, CarryIs

-----------------------------------------------------------------------------
(* What a step does to its run.                                            *)

\* A step after the review: the run keeps its result or has none.
Tail(q, x) ==
    /\ x.pc # "review" /\ x.carry = NoCarry
    /\ \/ x.source = NoRecord /\ x.disposition = NoRecord /\ x.gate # "pass"
       \/ q.pc # "review" /\ x.head = q.head /\ x.source = q.source /\ x.disposition = q.disposition /\ x.gate = q.gate

\* A run begins at the head.
Begun(x, pool, enabled) ==
    /\ x.pc = "review" /\ x.head = head /\ x.carry = CarryOf(head, pool, enabled)
    /\ x.carried = x.carry.seeds
    /\ x.gate = "none" /\ x.source = NoRecord /\ x.disposition = NoRecord

TailStep(r) ==
    \/ \E h \in Heads : DrainStale(r, h)
    \/ \E throws \in BOOLEAN : Refuse(r, throws)
    \/ Park(r) \/ WriteFleet(r) \/ WriteFleetFails(r) \/ WriteSource(r) \/ WriteDisposition(r)
    \/ Post(r) \/ Crash(r)

\* What Idle holds.
LEMMA IdleIs ==
  /\ Idle.pc = "idle" /\ Idle.kind = "none" /\ Idle.head = NoHead /\ Idle.carry = NoCarry
  /\ Idle.carried = {} /\ Idle.refuted = {} /\ Idle.iteration = 0
  /\ Idle.gate = "none" /\ Idle.source = NoRecord /\ Idle.disposition = NoRecord
  BY DEF Idle

LEMMA TailMoves ==
  ASSUME Types, NEW r \in Reviewers, TailStep(r)
  PROVE  \E x \in Run : run' = [run EXCEPT ![r] = x] /\ Tail(run[r], x) /\ RunOK(x)'
<1> DEFINE q == run[r]
           to(x) == x \in Run /\ run' = [run EXCEPT ![r] = x] /\ Tail(q, x) /\ RunOK(x)'
<1>1. q \in Run /\ RunOK(q) /\ Idle \in Run /\ run \in [Reviewers -> Run] /\ pushed \subseteq Heads
  BY RecordTypes DEF Types, ProcessTypes, ForgeTypes
<1> SUFFICES \E x : to(x)
  OBVIOUS
<1>2. ASSUME run' = [run EXCEPT ![r] = Idle] PROVE to(Idle)
  BY <1>1, <1>2, IdleIs DEF Tail, RunOK
<1>3. ASSUME NEW pc \in {"source", "disposition", "post"}, At(r, pc), q.pc \in {"fleet", "source", "disposition"},
             pc # "post" => q.disposition # NoRecord, UNCHANGED pushed
      PROVE  \E x : to(x)
  <2>1. PICK x : x = [q EXCEPT !.pc = pc]
    OBVIOUS
  <2>2. run' = [run EXCEPT ![r] = x]
    BY <1>1, <1>3, <2>1 DEF At
  <2>3. q.carry = NoCarry /\ q.head \in pushed
    BY <1>1, <1>3 DEF RunOK
  <2>4. /\ x \in Run /\ x.pc = pc /\ x.head = q.head /\ x.carry = NoCarry /\ x.source = q.source
        /\ x.disposition = q.disposition /\ x.gate = q.gate
    BY <1>1, <2>1, <2>3 DEF Run
  <2> HIDE DEF q
  <2>5. Tail(q, x)
    BY <1>3, <2>4 DEF Tail
  <2>6. RunOK(x)'
    BY <1>3, <2>3, <2>4 DEF RunOK
  <2> QED
    BY <2>2, <2>4, <2>5, <2>6
<1>4. ASSUME NEW pc \in {"fleet", "post"}, NEW kind \in {"drain", "cli"}, NEW h \in pushed, NEW a \in {"none", "invalid"},
             run' = [run EXCEPT ![r] = [Idle EXCEPT !.pc = pc, !.kind = kind, !.head = h,
                                                    !.gate = "block", !.agreement = a]],
             UNCHANGED pushed
      PROVE  to([Idle EXCEPT !.pc = pc, !.kind = kind, !.head = h, !.gate = "block", !.agreement = a])
  <2> DEFINE x == [Idle EXCEPT !.pc = pc, !.kind = kind, !.head = h, !.gate = "block", !.agreement = a]
  <2>1. /\ x \in Run /\ x.pc = pc /\ x.head = h /\ x.gate = "block" /\ x.carry = NoCarry
        /\ x.source = NoRecord /\ x.disposition = NoRecord
    BY <1>1, IdleIs DEF Run, Commits, Agreements
  <2>2. run' = [run EXCEPT ![r] = x]
    BY <1>4
  <2> HIDE DEF x
  <2>3. Tail(q, x) /\ RunOK(x)'
    BY <1>4, <2>1 DEF Tail, RunOK
  <2> QED
    BY <2>1, <2>2, <2>3 DEF x
<1>5. CASE \E h \in Heads : DrainStale(r, h)
  <2>1. PICK h \in pushed : run' = [run EXCEPT ![r] = [Idle EXCEPT !.pc = "fleet", !.kind = "drain", !.head = h,
                                              !.gate = "block", !.agreement = "invalid"]]
    BY <1>5 DEF DrainStale
  <2>2. UNCHANGED pushed
    BY <1>5 DEF DrainStale
  <2> QED
    BY <1>4, <2>1, <2>2
<1>6. CASE \E throws \in BOOLEAN : Refuse(r, throws)
  <2>1. PICK throws \in BOOLEAN : Refuse(r, throws)
    BY <1>6
  <2>2. PICK pc \in {"fleet", "post"}, kind \in {"drain", "cli"}, h \in pushed :
          run' = [run EXCEPT ![r] = [Idle EXCEPT !.pc = pc, !.kind = kind, !.head = h,
                                                 !.gate = "block", !.agreement = "invalid"]]
    <3>1. q.pc = "review" /\ q.head \in pushed /\ q.kind \in {"drain", "cli"}
      BY <1>1, <2>1 DEF Refuse, RunOK, Run
    <3> QED
      BY <2>1, <3>1, Zenon DEF Refuse
  <2> QED
    BY <1>4, <2>1, <2>2 DEF Refuse, forge
<1>7. CASE Park(r)
  <2>1. q.pc = "review" /\ q.head \in pushed
    BY <1>1, <1>7 DEF Park, RunOK
  <2>2. CASE q.kind = "cli"
    <3>1. run' = [run EXCEPT ![r] = [Idle EXCEPT !.pc = "post", !.kind = "cli", !.head = q.head, !.gate = "block"]]
      BY <1>7, <2>2 DEF Park
    <3>2. PICK x : x = [Idle EXCEPT !.pc = "post", !.kind = "cli", !.head = q.head, !.gate = "block"]
      OBVIOUS
    <3>3. /\ x \in Run /\ x.pc = "post" /\ x.head = q.head /\ x.gate = "block" /\ x.carry = NoCarry
          /\ x.source = NoRecord /\ x.disposition = NoRecord
      BY <1>1, <2>1, <3>2, IdleIs DEF Run, Commits
    <3> HIDE DEF q
    <3>4. Tail(q, x) /\ RunOK(x)'
      BY <1>7, <2>1, <3>3 DEF Tail, RunOK, Park, forge
    <3> QED
      BY <3>1, <3>2, <3>3, <3>4
  <2>3. CASE q.kind # "cli"
    BY <1>2, <1>7, <2>3 DEF Park
  <2> QED
    BY <2>2, <2>3
<1>8. CASE WriteFleet(r) \/ WriteFleetFails(r) \/ WriteSource(r) \/ WriteDisposition(r)
  <2>1. CASE WriteFleet(r)
    <3>1. CASE q.disposition # NoRecord
      BY <1>3, <2>1, <3>1 DEF WriteFleet, forge
    <3>2. CASE q.disposition = NoRecord
      BY <1>3, <2>1, <3>2 DEF WriteFleet, forge
    <3> QED
      BY <3>1, <3>2
  <2>2. CASE WriteFleetFails(r)
    <3>1. CASE q.kind = "cli"
      BY <1>3, <2>2, <3>1 DEF WriteFleetFails, forge
    <3>2. CASE q.kind # "cli"
      BY <1>2, <2>2, <3>2 DEF WriteFleetFails
    <3> QED
      BY <3>1, <3>2
  <2>3. CASE WriteSource(r)
    BY <1>1, <1>3, <2>3 DEF WriteSource, RunOK, forge
  <2>4. CASE WriteDisposition(r)
    BY <1>3, <2>4 DEF WriteDisposition, forge
  <2> QED
    BY <1>8, <2>1, <2>2, <2>3, <2>4
<1>9. CASE Post(r) \/ Crash(r)
  BY <1>2, <1>9 DEF Post, Crash
<1> QED
  BY <1>5, <1>6, <1>7, <1>8, <1>9 DEF TailStep

LEMMA StartMoves ==
  ASSUME Types, NEW r \in Reviewers, NEW pool \in Pools, NEW enabled \in BOOLEAN,
         DrainStart(r, pool, enabled) \/ CliStart(r, pool, enabled)
  PROVE  \E x \in Run : run' = [run EXCEPT ![r] = x] /\ Begun(x, pool, enabled) /\ RunOK(x)'
<1>1. Idle \in Run /\ head \in Heads /\ head \in pushed
  BY RecordTypes DEF Types, ForgeTypes
<1>2. PICK c \in Carry : c = CarryOf(head, pool, enabled)
  BY <1>1, CarryType DEF Types
<1>3. PICK kind \in {"drain", "cli"} : Started(r, kind, head, c)
  BY <1>2 DEF DrainStart, CliStart
<1>4. PICK x : x = [Idle EXCEPT !.pc = "review", !.kind = kind, !.head = head, !.carry = c, !.carried = c.seeds]
  OBVIOUS
<1>5. run' = [run EXCEPT ![r] = x]
  BY <1>3, <1>4 DEF Started
<1>6. /\ x \in Run /\ x.pc = "review" /\ x.kind = kind /\ x.head = head /\ x.carry = c /\ x.carried = c.seeds
      /\ x.gate = "none" /\ x.source = NoRecord /\ x.disposition = NoRecord /\ x.iteration = 0
  BY <1>1, <1>4, IdleIs DEF Run, Commits, Carry
<1>7. head' = head /\ pushed' = pushed /\ reviews' \in 1..MaxReviews /\ 0 < MaxPasses
  BY ReviewGateAssumption DEF Types, ProcessTypes, DrainStart, CliStart, forge
<1>8. RunOK(x)'
  BY <1>1, <1>6, <1>7 DEF RunOK
<1> QED
  BY <1>2, <1>5, <1>6, <1>8 DEF Begun

-----------------------------------------------------------------------------
(* An iteration.                                                           *)
Outcome == [ok : BOOLEAN, decided : BOOLEAN, survives : SUBSET Findings, refutes : SUBSET Findings]

LEMMA PassTypes ==
  ASSUME NEW q \in Run, NEW report \in (SUBSET Findings) \cup {Failed}, NEW verdict \in (SUBSET Findings) \cup {Failed}
  PROVE  runVerificationPass(q, report, verdict) \in Outcome
<1> DEFINE all == q.carried \cup report
           candidates == all \ AutoRefutable(q.carry)
           kept == IF candidates = {} THEN {} ELSE candidates \ verdict
<1>1. CASE report = Failed
  BY <1>1 DEF runVerificationPass, Outcome
<1>2. CASE report # Failed
  <2>1. report \subseteq Findings /\ all \subseteq Findings /\ kept \subseteq all
    <3>1. report \subseteq Findings /\ all \subseteq Findings
      BY <1>2 DEF Run
    <3>2. candidates \subseteq all
      OBVIOUS
    <3> HIDE DEF candidates
    <3> QED
      BY <3>1, <3>2
  <2>2. \/ runVerificationPass(q, report, verdict) = [ok |-> FALSE, decided |-> FALSE, survives |-> report, refutes |-> {}]
        \/ runVerificationPass(q, report, verdict) = [ok |-> TRUE, decided |-> TRUE, survives |-> kept, refutes |-> all \ kept]
    BY <1>2, Zenon DEF runVerificationPass
  <2> HIDE DEF all, kept
  <2>3. all \ kept \subseteq Findings /\ kept \subseteq Findings
    BY <2>1
  <2>4. CASE runVerificationPass(q, report, verdict) = [ok |-> FALSE, decided |-> FALSE, survives |-> report, refutes |-> {}]
    BY <2>1, <2>4 DEF Outcome
  <2>5. CASE runVerificationPass(q, report, verdict) = [ok |-> TRUE, decided |-> TRUE, survives |-> kept, refutes |-> all \ kept]
    BY <2>3, <2>5 DEF Outcome
  <2> QED
    BY <2>2, <2>4, <2>5
<1> QED
  BY <1>1, <1>2

\* What is carried or refuted in a run stays one of the two: omission loses nothing.
LEMMA FoldIs ==
  ASSUME NEW q \in Run, NEW cells \in [Cells -> Outcome], NEW valid \in BOOLEAN
  PROVE  /\ Folded(q, cells, valid) \in Run
         /\ Folded(q, cells, valid).carried = evaluateReviewConvergence(q, cells, valid)
         /\ Folded(q, cells, valid).refuted = RefutedThisRun(q, cells, valid)
         /\ \A x : x = Folded(q, cells, valid) =>
              /\ x.pc = q.pc /\ x.kind = q.kind /\ x.head = q.head /\ x.carry = q.carry /\ x.gate = q.gate
              /\ x.source = q.source /\ x.disposition = q.disposition
              /\ q.carried \cup q.refuted \subseteq x.carried \cup x.refuted
<1>1. /\ SurvivesIn(cells) \subseteq Findings /\ RefutedIn(cells) \subseteq Findings
      /\ q.carried \subseteq Findings /\ q.refuted \subseteq Findings
  BY DEF SurvivesIn, RefutedIn, Outcome, Run
<1>2. evaluateReviewConvergence(q, cells, valid) \subseteq Findings /\ RefutedThisRun(q, cells, valid) \subseteq Findings
  BY <1>1 DEF evaluateReviewConvergence, RefutedThisRun
<1>3. q.carried \cup q.refuted \subseteq evaluateReviewConvergence(q, cells, valid) \cup RefutedThisRun(q, cells, valid)
  BY DEF evaluateReviewConvergence, RefutedThisRun
<1>4. Decisions(q, cells) \in [Findings -> {"none", "survives", "refuted"}]
  <2>1. q.decisions \in [Findings -> {"none", "survives", "refuted"}]
    BY DEF Run
  <2> QED
    BY <2>1 DEF Decisions
<1> QED
  BY <1>2, <1>3, <1>4 DEF Folded, Run

LEMMA AgreementTypes ==
  ASSUME NEW cells
  PROVE  computePrReviewAgreement(cells) \in Agreements /\ Recorded(computePrReviewAgreement(cells)) \in Agreements
<1>1. computePrReviewAgreement(cells) \in Agreements
  BY DEF computePrReviewAgreement, Agreements
<1> QED
  BY <1>1 DEF Recorded, Agreements

LEMMA SourceIs ==
  ASSUME NEW n \in Run, NEW agreement \in Agreements, buildAdjudicationSourceDraft(n, agreement) # NoRecord
  PROVE  /\ buildAdjudicationSourceDraft(n, agreement) \in Source
         /\ n.carried \subseteq buildAdjudicationSourceDraft(n, agreement).survivors
                               \cup buildAdjudicationSourceDraft(n, agreement).refuted
<1> DEFINE survivors == {f \in n.carried : n.decisions[f] = "survives"}
           refuted == {f \in n.carried : n.decisions[f] = "refuted"}
           draft == [agreement |-> Recorded(agreement), survivors |-> survivors, refuted |-> refuted]
<1>1. /\ buildAdjudicationSourceDraft(n, agreement) = draft
      /\ survivors \cup refuted = n.carried /\ \A f \in survivors : HunkOf[f] # NoHunk
  BY Zenon DEF buildAdjudicationSourceDraft
<1>2. n.carried \subseteq Findings
  BY DEF Run
<1>3. survivors \subseteq Mapped /\ refuted \subseteq Findings
  BY <1>1, <1>2 DEF Mapped
<1>4. Recorded(agreement) \in Agreements
  BY DEF Recorded, Agreements
<1> HIDE DEF survivors, refuted
<1>5. draft \in Source /\ draft.survivors = survivors /\ draft.refuted = refuted
  BY <1>3, <1>4 DEF Source
<1> QED
  BY <1>1, <1>5

\* A refutation a run leaves is the one it took over, or its own.
LEMMA DispositionIs ==
  ASSUME NEW n \in Run, NEW ok \in BOOLEAN, NEW agreement \in Agreements, NEW d,
         d = buildCarryDispositionDraft(n, ok, agreement)
  PROVE  /\ d \in Disposition /\ d.ok = ok /\ d.survived = n.carried
         /\ \A f \in Findings : d.refuted[f] # NoHead =>
              /\ f \notin n.carried
              /\ \/ n.carry.auto[f] # NoHead /\ d.refuted[f] = n.carry.auto[f]
                 \/ n.carry.auto[f] = NoHead /\ f \in n.refuted /\ d.refuted[f] = n.head
<1>1. n.carried \subseteq Findings /\ n.head \in Commits /\ n.carry.auto \in [Findings -> Commits]
  BY DEF Run, Carry
<1>2. Recorded(agreement) \in Agreements
  BY DEF Recorded, Agreements
<1> DEFINE origin(f) == IF f \in n.carried THEN NoHead
                       ELSE IF n.carry.auto[f] # NoHead THEN n.carry.auto[f]
                       ELSE IF f \in n.refuted THEN n.head ELSE NoHead
<1>3. d = [ok |-> ok, agreement |-> Recorded(agreement), survived |-> n.carried,
           refuted |-> [f \in Findings |-> origin(f)]]
  BY Zenon DEF buildCarryDispositionDraft
<1>4. ASSUME NEW f \in Findings
      PROVE  /\ origin(f) \in Commits
             /\ origin(f) # NoHead =>
                  /\ f \notin n.carried
                  /\ \/ n.carry.auto[f] # NoHead /\ origin(f) = n.carry.auto[f]
                     \/ n.carry.auto[f] = NoHead /\ f \in n.refuted /\ origin(f) = n.head
  BY <1>1 DEF Commits
<1> HIDE DEF origin
<1> QED
  BY <1>1, <1>2, <1>3, <1>4 DEF Disposition

\* The run goes on with what it carries.
Continued(q, x) ==
    /\ x.pc = "review" /\ x.head = q.head /\ x.carry = q.carry
    /\ x.gate = "none" /\ x.source = NoRecord /\ x.disposition = NoRecord
    /\ q.carried \cup q.refuted \subseteq x.carried \cup x.refuted

\* The run stops; R is what its own verifiers refuted.
Stopped(q, x, R) ==
    LET d == x.disposition
    IN  /\ x.pc = "fleet" /\ x.head = q.head /\ x.carry = NoCarry /\ d \in Disposition
        /\ q.carried \cup q.refuted \subseteq d.survived \cup R
        /\ x.gate = "pass" => d.ok /\ d.survived = {}
        /\ x.source # NoRecord => d.ok /\ d.survived \subseteq x.source.survivors \cup x.source.refuted
        /\ \A f \in Findings : d.refuted[f] # NoHead =>
              /\ f \notin d.survived
              /\ \/ q.carry.auto[f] # NoHead /\ d.refuted[f] = q.carry.auto[f]
                 \/ q.carry.auto[f] = NoHead /\ f \in R /\ d.refuted[f] = q.head
        /\ refutedAt' = refutedAt \cup {<<q.head, f>> : f \in R \ (d.survived \cup AutoRefutable(q.carry))}
        /\ inspected' = IF ~d.ok THEN inspected ELSE inspected \cup
              ({q.head} \X (IF q.carry.narrowed THEN computeTouchedPaths(q.carry.prior, q.head) ELSE Paths))
        /\ coldAt' = IF d.ok /\ q.carry = NoCarry THEN coldAt \cup {q.head} ELSE coldAt
        /\ edited' = edited

Draft(kind, h, ok, a, gate, source, d) ==
    [Idle EXCEPT !.pc = "fleet", !.kind = kind, !.head = h, !.ok = ok, !.agreement = a,
                 !.gate = gate, !.source = source, !.disposition = d]

LEMMA StoppedType ==
  ASSUME NEW kind \in {"drain", "cli"}, NEW h \in Commits, NEW ok \in BOOLEAN, NEW a \in Agreements,
         NEW gate \in {"pass", "block"}, NEW source \in Source \cup {NoRecord}, NEW d \in Disposition,
         NEW x, x = Draft(kind, h, ok, a, gate, source, d)
  PROVE  /\ x \in Run /\ x.pc = "fleet" /\ x.head = h /\ x.carry = NoCarry /\ x.gate = gate /\ x.source = source
         /\ x.disposition = d
<1>1. Idle \in Run
  BY RecordTypes
<1>2. x.carry = NoCarry
  BY <1>1, IdleIs DEF Run, Draft
<1>3. /\ x.pc = "fleet" /\ x.head = h /\ x.gate = gate /\ x.source = source /\ x.disposition = d
  BY <1>1 DEF Run, Draft
<1>4. PICK y \in Run : y = [Idle EXCEPT !.pc = "fleet", !.kind = kind, !.head = h, !.ok = ok]
  BY <1>1 DEF Run
<1>5. PICK z : z = [y EXCEPT !.agreement = a, !.gate = gate]
  OBVIOUS
<1>6. x = [z EXCEPT !.source = source, !.disposition = d]
  BY <1>1, <1>4, <1>5 DEF Run, Draft
<1>7. a \in Agreements \cup {"none"} /\ gate \in {"none", "pass", "block"} /\ d \in Disposition \cup {NoRecord}
  OBVIOUS
<1>8. z \in Run
  BY <1>5, <1>7 DEF Run
<1>9. x \in Run
  BY <1>6, <1>7, <1>8 DEF Run
<1> QED
  BY <1>2, <1>3, <1>9

LEMMA IterateMoves ==
  ASSUME Types, NEW r \in Reviewers, NEW cells \in [Cells -> Outcome], NEW budget, Iterate(r, cells, budget)
  PROVE  \E x \in Run : /\ run' = [run EXCEPT ![r] = x] /\ RunOK(x)'
                        /\ \/ Continued(run[r], x) /\ UNCHANGED history
                           \/ \E R \in SUBSET Findings : Stopped(run[r], x, R)
<1>1. PICK q \in Run : q = run[r] /\ RunOK(q) /\ q.pc = "review"
  BY DEF Types, ProcessTypes, Iterate
<1>2. PICK ok \in BOOLEAN : ok <=> \A c \in Cells : cells[c].ok
  OBVIOUS
<1>3. PICK agreement \in Agreements : agreement = computePrReviewAgreement(cells) /\ Recorded(agreement) \in Agreements
  BY AgreementTypes
<1>4. PICK valid \in BOOLEAN : valid <=> ok /\ budget # "over" /\ agreement \in {"consensus-pass", "consensus-block"}
  OBVIOUS
<1>5. PICK n \in Run : /\ n = Folded(q, cells, valid)
                       /\ n.pc = q.pc /\ n.kind = q.kind /\ n.head = q.head /\ n.carry = q.carry /\ n.gate = q.gate
                       /\ n.source = q.source /\ n.disposition = q.disposition
                       /\ q.carried \cup q.refuted \subseteq n.carried \cup n.refuted
  BY FoldIs
<1>6. IsFiniteSet(n.carried) /\ Cardinality(n.carried) \in Nat /\ (Cardinality(n.carried) = 0 => n.carried = {})
  <2>1. n.carried \subseteq Findings
    BY DEF Run
  <2> QED
    BY <2>1, FS_Subset, FS_EmptySet, FS_CardinalityType, DiffAssumption
<1>7. q.gate = "none" /\ q.source = NoRecord /\ q.disposition = NoRecord /\ q.kind \in {"drain", "cli"}
      /\ q.head \in pushed /\ reviews \in 1..MaxReviews /\ q.iteration \in Nat
  BY <1>1 DEF RunOK, Run
<1>8. pushed' = pushed /\ reviews' = reviews
  BY DEF Iterate, forge, bounds
<1> DEFINE count == Cardinality(n.carried)
           continue == /\ valid /\ count > 0 /\ budget = "open"
                       /\ q.iteration + 1 < MaxPasses
                       /\ q.iteration = 0 \/ count < q.previous
           done == [Idle EXCEPT !.pc = "fleet", !.kind = q.kind, !.head = q.head, !.ok = ok,
                                !.agreement = Recorded(agreement),
                                !.gate = IF valid /\ count = 0 THEN "pass" ELSE "block",
                                !.source = IF ok THEN buildAdjudicationSourceDraft(n, agreement) ELSE NoRecord,
                                !.disposition = buildCarryDispositionDraft(n, ok, agreement)]
           R == n.refuted
<1>9. \/ /\ continue
         /\ run' = [run EXCEPT ![r] = [n EXCEPT !.previous = count, !.iteration = q.iteration + 1]]
         /\ UNCHANGED history
      \/ /\ run' = [run EXCEPT ![r] = done]
         /\ refutedAt' = refutedAt \cup {<<q.head, f>> : f \in R \ (n.carried \cup AutoRefutable(q.carry))}
         /\ inspected' = IF ~ok THEN inspected ELSE inspected \cup
               ({q.head} \X (IF q.carry.narrowed THEN computeTouchedPaths(q.carry.prior, q.head) ELSE Paths))
         /\ coldAt' = IF ok /\ q.carry = NoCarry THEN coldAt \cup {q.head} ELSE coldAt
         /\ UNCHANGED edited
  <2> DEFINE m == run[r]
             fine == \A c \in Cells : cells[c].ok
             agreed == computePrReviewAgreement(cells)
             sound == fine /\ budget # "over" /\ agreed \in {"consensus-pass", "consensus-block"}
             next == Folded(m, cells, sound)
             size == Cardinality(next.carried)
             on == /\ sound /\ size > 0 /\ budget = "open"
                   /\ m.iteration + 1 < MaxPasses
                   /\ m.iteration = 0 \/ size < m.previous
  <2>1. \/ /\ on
           /\ run' = [run EXCEPT ![r] = [next EXCEPT !.previous = size, !.iteration = m.iteration + 1]]
           /\ UNCHANGED history
        \/ /\ run' = [run EXCEPT ![r] =
                 [Idle EXCEPT !.pc = "fleet", !.kind = m.kind, !.head = m.head, !.ok = fine,
                              !.agreement = Recorded(agreed),
                              !.gate = IF sound /\ size = 0 THEN "pass" ELSE "block",
                              !.source = IF fine THEN buildAdjudicationSourceDraft(next, agreed) ELSE NoRecord,
                              !.disposition = buildCarryDispositionDraft(next, fine, agreed)]]
           /\ refutedAt' = refutedAt \cup
                 {<<m.head, f>> : f \in next.refuted \ (next.carried \cup AutoRefutable(m.carry))}
           /\ inspected' = IF ~fine THEN inspected ELSE inspected \cup
                 ({m.head} \X (IF m.carry.narrowed THEN computeTouchedPaths(m.carry.prior, m.head) ELSE Paths))
           /\ coldAt' = IF fine /\ m.carry = NoCarry THEN coldAt \cup {m.head} ELSE coldAt
           /\ UNCHANGED edited
    BY Zenon DEF Iterate
  <2>2. m = q /\ fine = ok /\ agreed = agreement /\ sound = valid /\ next = n
    <3>1. m = q /\ fine = ok /\ agreed = agreement
      BY <1>1, <1>2, <1>3
    <3>2. sound = valid
      BY <1>4, <3>1
    <3> HIDE DEF sound
    <3> QED
      BY <1>5, <3>1, <3>2
  <2>3. size = count /\ on = continue
    <3> HIDE DEF m, sound, next
    <3> QED
      BY <2>2
  <2> HIDE DEF m, fine, agreed, sound, next, size, on, count, continue
  <2> QED
    BY <2>1, <2>2, <2>3
<1>10. CASE /\ continue
            /\ run' = [run EXCEPT ![r] = [n EXCEPT !.previous = count, !.iteration = q.iteration + 1]]
            /\ UNCHANGED history
  <2>1. PICK x : x = [n EXCEPT !.previous = count, !.iteration = q.iteration + 1]
    OBVIOUS
  <2>2. q.iteration + 1 \in 0..MaxPasses /\ q.iteration + 1 < MaxPasses
    BY <1>7, <1>10, ReviewGateAssumption
  <2>3. /\ x \in Run /\ x.pc = n.pc /\ x.kind = n.kind /\ x.head = n.head /\ x.carry = n.carry
        /\ x.carried = n.carried /\ x.refuted = n.refuted
        /\ x.gate = n.gate /\ x.source = n.source /\ x.disposition = n.disposition /\ x.iteration = q.iteration + 1
    BY <1>6, <2>1, <2>2 DEF Run
  <2> HIDE DEF continue
  <2>4. RunOK(x)'
    BY <1>1, <1>5, <1>7, <1>8, <2>2, <2>3 DEF RunOK
  <2>5. Continued(run[r], x)
    BY <1>1, <1>5, <1>7, <2>3 DEF Continued
  <2> QED
    BY <1>10, <2>1, <2>3, <2>4, <2>5
<1>11. CASE /\ run' = [run EXCEPT ![r] = done]
            /\ refutedAt' = refutedAt \cup {<<q.head, f>> : f \in R \ (n.carried \cup AutoRefutable(q.carry))}
            /\ inspected' = IF ~ok THEN inspected ELSE inspected \cup
                  ({q.head} \X (IF q.carry.narrowed THEN computeTouchedPaths(q.carry.prior, q.head) ELSE Paths))
            /\ coldAt' = IF ok /\ q.carry = NoCarry THEN coldAt \cup {q.head} ELSE coldAt
            /\ UNCHANGED edited
  <2>1. PICK x : x = done
    OBVIOUS
  <2>2. PICK d : d = buildCarryDispositionDraft(n, ok, agreement)
    OBVIOUS
  <2>3. PICK source : source = IF ok THEN buildAdjudicationSourceDraft(n, agreement) ELSE NoRecord
    OBVIOUS
  <2>4. /\ d \in Disposition /\ d.ok = ok /\ d.survived = n.carried
        /\ \A f \in Findings : d.refuted[f] # NoHead =>
              /\ f \notin n.carried
              /\ \/ n.carry.auto[f] # NoHead /\ d.refuted[f] = n.carry.auto[f]
                 \/ n.carry.auto[f] = NoHead /\ f \in n.refuted /\ d.refuted[f] = n.head
    BY <2>2, DispositionIs
  <2>5. /\ source \in Source \cup {NoRecord}
        /\ source # NoRecord => ok /\ n.carried \subseteq source.survivors \cup source.refuted
    BY <2>3, SourceIs
  <2>6. Idle \in Run /\ q.head \in Commits
    BY RecordTypes DEF Run
  <2>7. /\ x \in Run /\ x.pc = "fleet" /\ x.head = q.head /\ x.carry = NoCarry /\ x.source = source
        /\ x.disposition = d /\ x.gate = IF valid /\ count = 0 THEN "pass" ELSE "block"
    <3>1. PICK gate \in {"pass", "block"} : gate = IF valid /\ count = 0 THEN "pass" ELSE "block"
      OBVIOUS
    <3>2. x = Draft(q.kind, q.head, ok, Recorded(agreement), gate, source, d)
      BY <2>1, <2>2, <2>3, <3>1 DEF Draft
    <3> HIDE DEF count
    <3>3. /\ x \in Run /\ x.pc = "fleet" /\ x.head = q.head /\ x.carry = NoCarry /\ x.gate = gate
          /\ x.source = source /\ x.disposition = d
      <4>1. q.kind \in {"drain", "cli"} /\ source \in Source \cup {NoRecord} /\ d \in Disposition
            /\ Recorded(agreement) \in Agreements /\ q.head \in Commits
        BY <1>3, <1>7, <2>4, <2>5, <2>6
      <4> HIDE DEF done
      <4> QED
        BY <3>2, <4>1, StoppedType
    <3> QED
      BY <3>1, <3>3
  <2>8. x.gate = "pass" => ok /\ n.carried = {}
    BY <1>4, <1>6, <2>7
  <2>9. RunOK(x)'
    BY <1>7, <1>8, <2>7 DEF RunOK
  <2>10. R \in SUBSET Findings
    BY DEF Run
  <2>11. Stopped(run[r], x, R)
    <3> HIDE DEF done, count, continue
    <3>1. AutoRefutable(q.carry) = AutoRefutable(n.carry)
      BY <1>5
    <3> QED
      BY <1>1, <1>5, <1>11, <2>4, <2>5, <2>7, <2>8 DEF Stopped
  <2> QED
    BY <1>11, <2>1, <2>7, <2>9, <2>10, <2>11
<1> QED
  BY <1>9, <1>10, <1>11

-----------------------------------------------------------------------------
(* The steps.                                                              *)

\* What a step after the review writes.
Writes(q, x) ==
    \/ UNCHANGED <<stores, status>> /\ x.pc # "source" /\ (x.pc = "disposition" => q.pc = "source")
    \/ /\ UNCHANGED stores /\ x.pc = "fleet"
       /\ \E h \in pushed : status' = [status EXCEPT ![h] = "pending"]
    \/ /\ q.pc = "fleet" /\ x.pc \in {"source", "post"} /\ q.head \in Heads
       /\ gateRecords' = [gateRecords EXCEPT ![q.head] = FleetRecord(q)]
       /\ bound' = bound \ {<<"source", q.head>>, <<"disposition", q.head>>}
       /\ UNCHANGED <<sources, dispositions, status>>
    \/ /\ q.pc = "source" /\ x.pc = "disposition" /\ q.head \in Heads /\ q.source # NoRecord
       /\ sources' = [sources EXCEPT ![q.head] = q.source]
       /\ bound' = bound \cup {<<"source", q.head>>}
       /\ UNCHANGED <<gateRecords, dispositions, status>>
    \/ /\ q.pc = "disposition" /\ x.pc = "post" /\ q.head \in Heads /\ q.disposition # NoRecord
       /\ dispositions' = [dispositions EXCEPT ![q.head] = q.disposition]
       /\ bound' = bound \cup {<<"disposition", q.head>>}
       /\ UNCHANGED <<gateRecords, sources, status>>
    \/ /\ q.pc = "post" /\ x.pc = "idle" /\ q.head \in Heads /\ UNCHANGED stores
       /\ status' = [status EXCEPT ![q.head] = IF q.gate = "pass" THEN "success" ELSE "failure"]

LEMMA TailWrites ==
  ASSUME Types, NEW r \in Reviewers, TailStep(r)
  PROVE  Writes(run[r], run'[r]) /\ UNCHANGED <<head, pushed, adj, history>>
<1> DEFINE q == run[r]
<1>1. q \in Run /\ RunOK(q) /\ Idle \in Run /\ run \in [Reviewers -> Run] /\ pushed \subseteq Heads
  BY RecordTypes DEF Types, ProcessTypes, ForgeTypes
<1>2. ASSUME run' = [run EXCEPT ![r] = Idle] PROVE run'[r].pc = "idle"
  BY <1>1, <1>2, IdleIs
<1>3. ASSUME NEW pc, At(r, pc) PROVE run'[r].pc = pc
  <2>1. run'[r] = [run[r] EXCEPT !.pc = pc]
    BY <1>1, <1>3 DEF At
  <2> QED
    BY <1>1, <2>1 DEF Run
<1>4. CASE \E h \in Heads : DrainStale(r, h)
  <2>1. PICK h \in Heads : DrainStale(r, h)
    BY <1>4
  <2>2. run'[r].pc = "fleet"
    BY <1>1, <2>1 DEF DrainStale, Run
  <2> QED
    BY <2>1, <2>2 DEF DrainStale, Writes
<1>5. CASE (\E throws \in BOOLEAN : Refuse(r, throws)) \/ Park(r)
  <2>1. run'[r].pc \in {"post", "fleet", "idle"}
    <3>1. CASE \E throws \in BOOLEAN : Refuse(r, throws)
      <4>1. PICK throws \in BOOLEAN : Refuse(r, throws)
        BY <3>1
      <4>2. PICK pc \in {"post", "fleet"} : pc = IF throws /\ q.kind = "cli" THEN "post" ELSE "fleet"
        OBVIOUS
      <4>3. run'[r] = [Idle EXCEPT !.pc = pc, !.kind = q.kind, !.head = q.head, !.gate = "block", !.agreement = "invalid"]
        BY <1>1, <4>1, <4>2 DEF Refuse
      <4> QED
        BY <1>1, <4>3 DEF Run
    <3>2. CASE Park(r) /\ q.kind = "cli"
      <4>1. run'[r] = [Idle EXCEPT !.pc = "post", !.kind = "cli", !.head = q.head, !.gate = "block"]
        BY <1>1, <3>2 DEF Park
      <4> QED
        BY <1>1, <4>1 DEF Run
    <3>3. CASE Park(r) /\ q.kind # "cli"
      BY <1>2, <3>3 DEF Park
    <3> QED
      BY <1>5, <3>1, <3>2, <3>3
  <2> QED
    BY <1>5, <2>1 DEF Refuse, Park, Writes, forge
<1>6. CASE WriteFleet(r)
  BY <1>1, <1>3, <1>6 DEF WriteFleet, Writes, RunOK, forge
<1>7. CASE WriteFleetFails(r)
  BY <1>2, <1>3, <1>7 DEF WriteFleetFails, Writes, forge
<1>8. CASE WriteSource(r)
  <2>1. run'[r].pc = "disposition" /\ q.head \in Heads
    BY <1>1, <1>3, <1>8 DEF WriteSource, RunOK
  <2> QED
    BY <1>8, <2>1 DEF WriteSource, Writes, forge, stores
<1>9. CASE WriteDisposition(r)
  <2>1. run'[r].pc = "post" /\ q.head \in Heads /\ q.disposition # NoRecord
    BY <1>1, <1>3, <1>9 DEF WriteDisposition, RunOK
  <2> QED
    BY <1>9, <2>1 DEF WriteDisposition, Writes, forge, stores
<1>10. CASE Post(r)
  BY <1>1, <1>2, <1>10 DEF Post, Writes, RunOK
<1>11. CASE Crash(r)
  BY <1>2, <1>11 DEF Crash, Writes, forge
<1> QED
  BY <1>4, <1>5, <1>6, <1>7, <1>8, <1>9, <1>10, <1>11 DEF TailStep

\* A step of a gate run.
RunStep(q, x) ==
    \/ Tail(q, x) /\ Writes(q, x) /\ UNCHANGED history
    \/ /\ q.pc = "idle" /\ UNCHANGED <<stores, history>>
       /\ \E pool \in Pools, enabled \in BOOLEAN : Begun(x, pool, enabled)
       /\ status' = status \/ (head \in Heads /\ status' = [status EXCEPT ![head] = "pending"])
    \/ q.pc = "review" /\ Continued(q, x) /\ UNCHANGED <<stores, status, history>>
    \/ q.pc = "review" /\ UNCHANGED <<stores, status>> /\ \E R \in SUBSET Findings : Stopped(q, x, R)

LEMMA CellTypes ==
  ASSUME Types, NEW r \in Reviewers, run[r].pc = "review"
  PROVE  CellOutcomes(run[r]) \subseteq Outcome
<1>1. run[r] \in Run /\ reviews \in 1..MaxReviews
  BY DEF Types, ProcessTypes, RunOK
<1>2. Reports[reviews] \subseteq SUBSET Findings
  BY <1>1, ReviewGateAssumption
<1> QED
  BY <1>1, <1>2, PassTypes DEF CellOutcomes

LEMMA ReviewerMoves ==
  ASSUME Types, NEW r \in Reviewers, Reviewer(r)
  PROVE  \E x \in Run : /\ run' = [run EXCEPT ![r] = x] /\ RunOK(x)' /\ RunStep(run[r], x)
                        /\ UNCHANGED <<head, pushed, adj>>
                        /\ reviews' \in reviews..MaxReviews /\ faults' \in 0..MaxFaults
<1>1. run \in [Reviewers -> Run] /\ reviews \in 0..MaxReviews /\ faults \in 0..MaxFaults /\ head \in Heads
  BY DEF Types, ProcessTypes, ForgeTypes
<1>2. MaxReviews \in Nat /\ MaxFaults \in Nat
  BY ReviewGateAssumption
<1>3. CASE TailStep(r)
  <2>1. PICK x \in Run : run' = [run EXCEPT ![r] = x] /\ Tail(run[r], x) /\ RunOK(x)'
    BY <1>3, TailMoves
  <2>2. run'[r] = x
    BY <1>1, <2>1
  <2>3. Writes(run[r], x) /\ UNCHANGED <<head, pushed, adj, history>>
    BY <1>3, <2>2, TailWrites
  <2>4. reviews' \in reviews..MaxReviews /\ faults' \in 0..MaxFaults
    <3>1. \/ reviews' = reviews
          \/ reviews < MaxReviews /\ reviews' = reviews + 1
      BY <1>3, Zenon DEF TailStep, DrainStale, Refuse, Park, WriteFleet, WriteFleetFails, WriteSource,
                         WriteDisposition, Post, Crash, bounds
    <3>2. \/ faults' = faults
          \/ faults < MaxFaults /\ faults' = faults + 1
      BY <1>3, Zenon DEF TailStep, DrainStale, Refuse, Park, WriteFleet, WriteFleetFails, WriteSource,
                         WriteDisposition, Post, Crash, Fault, bounds
    <3> QED
      BY <1>1, <1>2, <3>1, <3>2
  <2> QED
    BY <2>1, <2>3, <2>4 DEF RunStep
<1>4. CASE \E pool \in Pools, enabled \in BOOLEAN : DrainStart(r, pool, enabled) \/ CliStart(r, pool, enabled)
  <2>1. PICK pool \in Pools, enabled \in BOOLEAN : DrainStart(r, pool, enabled) \/ CliStart(r, pool, enabled)
    BY <1>4
  <2>2. PICK x \in Run : run' = [run EXCEPT ![r] = x] /\ Begun(x, pool, enabled) /\ RunOK(x)'
    BY <2>1, StartMoves
  <2>3. /\ run[r].pc = "idle" /\ UNCHANGED <<stores, history, head, pushed, adj>>
        /\ status' = status \/ (head \in Heads /\ status' = [status EXCEPT ![head] = "pending"])
        /\ reviews' \in reviews..MaxReviews /\ faults' \in 0..MaxFaults
    BY <1>1, <1>2, <2>1 DEF DrainStart, CliStart, Fault, forge
  <2> QED
    BY <2>2, <2>3 DEF RunStep
<1>5. CASE /\ run[r].pc = "review"
           /\ \E cells \in [Cells -> CellOutcomes(run[r])], budget \in {"open", "last", "over"} :
                 Iterate(r, cells, budget)
  <2>1. PICK cells \in [Cells -> Outcome], budget \in {"open", "last", "over"} : Iterate(r, cells, budget)
    BY <1>5, CellTypes
  <2>2. PICK x \in Run : /\ run' = [run EXCEPT ![r] = x] /\ RunOK(x)'
                         /\ \/ Continued(run[r], x) /\ UNCHANGED history
                            \/ \E R \in SUBSET Findings : Stopped(run[r], x, R)
    BY <2>1, IterateMoves
  <2>3. run[r].pc = "review" /\ UNCHANGED <<stores, status, head, pushed, adj, reviews, faults>>
    BY <2>1 DEF Iterate, forge, bounds
  <2>4. RunStep(run[r], x)
    BY <2>2, <2>3 DEF RunStep
  <2>5. reviews' \in reviews..MaxReviews /\ faults' \in 0..MaxFaults
    BY <1>1, <1>2, <2>3
  <2> QED
    BY <2>2, <2>3, <2>4, <2>5
<1> QED
  BY <1>3, <1>4, <1>5 DEF Reviewer, TailStep

-----------------------------------------------------------------------------
(* The types.                                                              *)
LEMMA InitTypes == Init => Types
<1> SUFFICES ASSUME Init PROVE Types
  OBVIOUS
<1>1. ForgeTypes
  BY DEF Init, ForgeTypes
<1>2. StoreTypes
  BY DEF Init, StoreTypes
<1>3. HistoryTypes
  BY DEF Init, HistoryTypes
<1>4. ProcessTypes
  <2>1. run \in [Reviewers -> Run] /\ \A r \in Reviewers : run[r] = Idle
    BY RecordTypes DEF Init
  <2>2. adj \in [Adjudicators -> Adjudication] /\ \A a \in Adjudicators : adj[a] = AdjIdle
    BY RecordTypes DEF Init
  <2>3. RunOK(Idle) /\ AdjOK(AdjIdle)
    BY IdleIs DEF RunOK, AdjOK, AdjIdle
  <2>4. reviews \in 0..MaxReviews /\ faults \in 0..MaxFaults
    BY ReviewGateAssumption DEF Init
  <2> QED
    BY <2>1, <2>2, <2>3, <2>4 DEF ProcessTypes
<1> QED
  BY <1>1, <1>2, <1>3, <1>4 DEF Types

\* What was typed of a process stays so while commits and runs only grow.
LEMMA ProcessesKept ==
  ASSUME Types, pushed \subseteq pushed', reviews' \in reviews..MaxReviews
  PROVE  /\ \A r \in Reviewers : RunOK(run[r]) => LET q == run[r] IN
                /\ q.pc # "idle" => q.head \in pushed'
                /\ q.pc = "review" => /\ q.gate = "none" /\ q.source = NoRecord /\ q.disposition = NoRecord
                                      /\ reviews' \in 1..MaxReviews
                                      /\ q.kind # "none" /\ q.iteration < MaxPasses
         /\ \A a \in Adjudicators : adj[a].pc # "idle" => adj[a].head \in pushed' /\ adj[a].source \in Heads
<1>1. \A r \in Reviewers : RunOK(run[r])
  BY DEF Types, ProcessTypes
<1>2. reviews \in 1..MaxReviews => reviews' \in 1..MaxReviews
  BY ReviewGateAssumption
<1>3. \A a \in Adjudicators : AdjOK(adj[a])
  BY DEF Types, ProcessTypes
<1> QED
  BY <1>1, <1>2, <1>3 DEF RunOK, AdjOK

LEMMA RunTypes ==
  ASSUME Types, NEW r \in Reviewers, NEW x \in Run, run' = [run EXCEPT ![r] = x], RunOK(x)', RunStep(run[r], x),
         UNCHANGED <<head, pushed, adj>>, reviews' \in reviews..MaxReviews, faults' \in 0..MaxFaults
  PROVE  Types'
<1>1. run[r] \in Run /\ RunOK(run[r]) /\ run \in [Reviewers -> Run] /\ reviews \in 0..MaxReviews /\ head \in Heads
      /\ head \in pushed /\ pushed \subseteq Heads
  BY DEF Types, ProcessTypes, ForgeTypes
<1>2. ProcessTypes'
  <2>1. run' \in [Reviewers -> Run] /\ \A s \in Reviewers : RunOK(run[s])'
    <3>1. run' \in [Reviewers -> Run]
      BY <1>1
    <3>2. ASSUME NEW s \in Reviewers, s # r PROVE RunOK(run[s])'
      BY <1>1, <3>2, ProcessesKept DEF Types, ProcessTypes, RunOK
    <3>3. run'[r] = x
      BY <1>1
    <3> QED
      BY <3>1, <3>2, <3>3
  <2>2. adj' \in [Adjudicators -> Adjudication] /\ \A a \in Adjudicators : AdjOK(adj[a])'
    BY DEF Types, ProcessTypes, AdjOK
  <2>3. reviews' \in 0..MaxReviews
    BY <1>1, ReviewGateAssumption
  <2> QED
    BY <2>1, <2>2, <2>3 DEF ProcessTypes
<1>3. (ForgeTypes /\ StoreTypes /\ HistoryTypes)'
  <2>1. CASE Tail(run[r], x) /\ Writes(run[r], x) /\ UNCHANGED history
    <3>1. PICK q \in Run : q = run[r] /\ RunOK(q)
      BY <1>1
    <3>2. HistoryTypes'
      BY <2>1 DEF Types, HistoryTypes, history
    <3>3. StoreTypes'
      <4>1. CASE UNCHANGED stores
        BY <4>1 DEF Types, StoreTypes, stores
      <4>2. CASE ~UNCHANGED stores
        <5>1. q.pc # "idle" /\ q.head \in Heads
          BY <1>1, <2>1, <3>1, <4>2 DEF Writes, RunOK
        <5>2. q.source \in Source \cup {NoRecord} /\ q.disposition \in Disposition \cup {NoRecord}
          BY DEF Run
        <5>3. /\ DOMAIN gateRecords' = Heads
              /\ \/ sources' = sources \/ sources' = [sources EXCEPT ![q.head] = q.source]
              /\ \/ dispositions' = dispositions \/ dispositions' = [dispositions EXCEPT ![q.head] = q.disposition]
              /\ bound' \subseteq bound \cup {<<"source", q.head>>, <<"disposition", q.head>>}
          BY <2>1, <3>1, <4>2 DEF Writes, Types, StoreTypes, stores
        <5>4. \A h \in Heads : <<"disposition", h>> \in bound' => dispositions'[h] \in Disposition
          BY <2>1, <3>1, <4>2, <5>1, <5>2 DEF Writes, Types, StoreTypes, stores
        <5> QED
          BY <5>1, <5>2, <5>3, <5>4 DEF Types, StoreTypes
      <4> QED
        BY <4>1, <4>2
    <3>4. ForgeTypes'
      <4>1. \/ status' = status
            \/ \E h \in pushed, s \in {"pending", "success", "failure"} : status' = [status EXCEPT ![h] = s]
        BY <1>1, <2>1, <3>1 DEF Writes, RunOK
      <4>2. \/ gateRecords' = gateRecords
            \/ \E h \in pushed : gateRecords' = [gateRecords EXCEPT ![h] = FleetRecord(q)]
        BY <1>1, <2>1, <3>1 DEF Writes, RunOK, stores
      <4>3. status' \in [Heads -> {"none", "pending", "success", "failure"}]
            /\ \A h \in Heads : status'[h] # status[h] => h \in pushed
        BY <1>1, <4>1 DEF Types, ForgeTypes
      <4>4. \A h \in Heads : gateRecords'[h] # gateRecords[h] => h \in pushed
        BY <1>1, <4>2 DEF Types, StoreTypes
      <4> QED
        BY <1>1, <4>3, <4>4 DEF Types, ForgeTypes
    <3> QED
      BY <3>2, <3>3, <3>4
  <2>2. CASE /\ UNCHANGED <<stores, history>>
             /\ status' = status \/ (head \in Heads /\ status' = [status EXCEPT ![head] = "pending"])
    <3>1. ForgeTypes'
      BY <1>1, <2>2 DEF Types, ForgeTypes, stores
    <3> QED
      BY <2>2, <3>1 DEF Types, StoreTypes, HistoryTypes, stores, history
  <2>3. CASE run[r].pc = "review" /\ UNCHANGED <<stores, status>> /\ \E R \in SUBSET Findings : Stopped(run[r], x, R)
    <3>1. PICK R \in SUBSET Findings : Stopped(run[r], x, R)
      BY <2>3
    <3>2. run[r].head \in Heads
      BY <1>1, <2>3 DEF RunOK
    <3>3. ASSUME NEW a, NEW b PROVE computeTouchedPaths(a, b) \subseteq Paths
      BY DEF computeTouchedPaths
    <3>4. /\ {<<run[r].head, f>> : f \in R \ (x.disposition.survived \cup AutoRefutable(run[r].carry))} \subseteq Heads \X Findings
          /\ {run[r].head} \X (IF run[r].carry.narrowed THEN computeTouchedPaths(run[r].carry.prior, run[r].head) ELSE Paths)
                \subseteq Heads \X Paths
      BY <3>2, <3>3
    <3>5. /\ refutedAt' \subseteq Heads \X Findings /\ inspected' \subseteq Heads \X Paths
          /\ coldAt' \subseteq Heads /\ edited' = edited
      BY <3>1, <3>2, <3>4 DEF Types, HistoryTypes, Stopped
    <3> QED
      BY <2>3, <3>5 DEF Types, ForgeTypes, StoreTypes, HistoryTypes, stores
  <2> QED
    BY <2>1, <2>2, <2>3 DEF RunStep
<1> QED
  BY <1>2, <1>3 DEF Types

LEMMA PushTypes ==
  ASSUME Types, NEW h \in Heads, Push(h)
  PROVE  Types'
<1>1. pushed \subseteq pushed' /\ reviews' \in reviews..MaxReviews /\ head' \in pushed' /\ pushed' \subseteq Heads
      /\ UNCHANGED <<status, stores, run, adj, history, bounds>>
  BY ReviewGateAssumption DEF Push, Types, ForgeTypes, ProcessTypes, bounds
<1>2. ProcessTypes'
  BY <1>1, ProcessesKept DEF Types, ProcessTypes, RunOK, AdjOK, bounds
<1>3. ForgeTypes'
  BY <1>1 DEF Types, ForgeTypes, stores
<1>4. StoreTypes' /\ HistoryTypes'
  BY <1>1 DEF Types, StoreTypes, HistoryTypes, stores, history
<1> QED
  BY <1>2, <1>3, <1>4 DEF Types

\* A step of an operator's run.
AdjStep(y, z) ==
    /\ UNCHANGED <<head, pushed, sources, dispositions, run, inspected, coldAt, bounds>>
    /\ \/ z = AdjIdle /\ UNCHANGED <<status, gateRecords, bound, refutedAt, edited>>
       \/ /\ \E a \in Heads :
                /\ Adjudicable(a) /\ evaluateInterdiffPolicy(a, head, sources[a].survivors)
                /\ z = [pc |-> "inspected", head |-> head, source |-> a,
                        survivors |-> sources[a].survivors, refuted |-> sources[a].refuted,
                        blockers |-> IF <<"disposition", a>> \in bound THEN dispositions[a].survived ELSE {}]
          /\ UNCHANGED <<status, gateRecords, bound, refutedAt, edited>>
       \/ /\ y.pc = "inspected" /\ z = [y EXCEPT !.pc = "verified"]
          /\ refutedAt' = refutedAt \cup ({y.head} \X LiveChecked(y))
          /\ UNCHANGED <<status, gateRecords, bound, edited>>
       \/ /\ y.pc = "verified" /\ z \in {[y EXCEPT !.pc = "recorded"], AdjIdle}
          /\ gateRecords' = [gateRecords EXCEPT ![y.head] = OperatorRecord(y)]
          /\ bound' = bound \ {<<"source", y.head>>, <<"disposition", y.head>>}
          /\ UNCHANGED <<status, refutedAt, edited>>
       \/ /\ y.pc = "recorded" /\ z = AdjIdle
          /\ status' = [status EXCEPT ![y.head] = "success"]
          /\ edited' = edited \cup ({y.head} \X {HunkOf[f].path : f \in y.survivors})
          /\ UNCHANGED <<gateRecords, bound, refutedAt>>

LEMMA AdjudicatorMoves ==
  ASSUME NEW a \in Adjudicators, Adjudicator(a)
  PROVE  \E z : adj' = [adj EXCEPT ![a] = z] /\ AdjStep(adj[a], z)
<1>1. CASE \E src \in Heads : AdjInspect(a, src)
  <2>1. PICK src \in Heads : AdjInspect(a, src)
    BY <1>1
  <2> QED
    BY <2>1 DEF AdjInspect, AdjStep, forge, stores, history
<1>2. CASE AdjVerify(a)
  <2>1. adj' = [adj EXCEPT ![a] = [adj[a] EXCEPT !.pc = "verified"]]
    BY <1>2 DEF AdjVerify
  <2> QED
    BY <1>2, <2>1 DEF AdjVerify, AdjStep, forge, stores
<1>3. CASE AdjRecord(a)
  <2>1. \E z \in {[adj[a] EXCEPT !.pc = "recorded"], AdjIdle} : adj' = [adj EXCEPT ![a] = z]
    BY <1>3 DEF AdjRecord
  <2> QED
    BY <1>3, <2>1 DEF AdjRecord, AdjStep, forge, history
<1>4. CASE AdjPost(a)
  BY <1>4 DEF AdjPost, AdjStep, stores
<1>5. CASE AdjRefuse(a)
  BY <1>5 DEF AdjRefuse, AdjStep, forge, stores, history
<1> QED
  BY <1>1, <1>2, <1>3, <1>4, <1>5 DEF Adjudicator

LEMMA AdjTypes ==
  ASSUME Types, NEW a \in Adjudicators, NEW z, adj' = [adj EXCEPT ![a] = z], AdjStep(adj[a], z)
  PROVE  Types'
<1>1. adj \in [Adjudicators -> Adjudication] /\ AdjOK(adj[a]) /\ head \in Heads /\ head \in pushed /\ pushed \subseteq Heads
  BY DEF Types, ProcessTypes, ForgeTypes
<1>2. PICK y \in Adjudication : y = adj[a] /\ AdjOK(y)
  BY <1>1
<1>3. UNCHANGED <<head, pushed, sources, dispositions, run, inspected, coldAt, bounds>>
  BY DEF AdjStep
<1>4. z \in Adjudication /\ AdjOK(z)
  <2>1. CASE z = AdjIdle
    BY <2>1, RecordTypes DEF AdjOK, AdjIdle
  <2>2. CASE \/ z = [y EXCEPT !.pc = "verified"] /\ y.pc = "inspected"
             \/ z = [y EXCEPT !.pc = "recorded"] /\ y.pc = "verified"
    BY <1>2, <2>2 DEF AdjOK, Adjudication
  <2>3. ASSUME NEW src \in Heads, Adjudicable(src),
               z = [pc |-> "inspected", head |-> head, source |-> src,
                    survivors |-> sources[src].survivors, refuted |-> sources[src].refuted,
                    blockers |-> IF <<"disposition", src>> \in bound THEN dispositions[src].survived ELSE {}]
        PROVE  z \in Adjudication /\ AdjOK(z)
    <3>1. sources[src] \in Source /\ (<<"disposition", src>> \in bound => dispositions[src] \in Disposition)
      BY <2>3 DEF Adjudicable, Types, StoreTypes
    <3>2. PICK b \in SUBSET Findings : b = IF <<"disposition", src>> \in bound THEN dispositions[src].survived ELSE {}
      BY <3>1 DEF Disposition
    <3>3. sources[src].survivors \in SUBSET Mapped /\ sources[src].refuted \in SUBSET Findings
      BY <3>1 DEF Source
    <3> QED
      BY <1>1, <2>3, <3>2, <3>3 DEF Adjudication, AdjOK, Commits
  <2>4. \/ z = AdjIdle
        \/ z = [y EXCEPT !.pc = "verified"] /\ y.pc = "inspected"
        \/ z = [y EXCEPT !.pc = "recorded"] /\ y.pc = "verified"
        \/ \E src \in Heads :
              /\ Adjudicable(src)
              /\ z = [pc |-> "inspected", head |-> head, source |-> src,
                      survivors |-> sources[src].survivors, refuted |-> sources[src].refuted,
                      blockers |-> IF <<"disposition", src>> \in bound THEN dispositions[src].survived ELSE {}]
    BY <1>2, Zenon DEF AdjStep
  <2> QED
    BY <2>1, <2>2, <2>3, <2>4
<1>5. ProcessTypes'
  <2>1. adj' \in [Adjudicators -> Adjudication]
    BY <1>1, <1>4
  <2>2. \A b \in Adjudicators : AdjOK(adj[b])'
    BY <1>1, <1>3, <1>4 DEF Types, ProcessTypes, AdjOK
  <2>3. \A r \in Reviewers : RunOK(run[r])'
    BY <1>3 DEF Types, ProcessTypes, RunOK, bounds
  <2> QED
    BY <1>3, <2>1, <2>2, <2>3 DEF Types, ProcessTypes, bounds
<1>6. ForgeTypes'
  <2>1. status' = status \/ (y.head \in pushed /\ status' = [status EXCEPT ![y.head] = "success"])
    BY <1>2, Zenon DEF AdjStep, AdjOK
  <2>2. gateRecords' = gateRecords \/ (y.head \in pushed /\ gateRecords' = [gateRecords EXCEPT ![y.head] = OperatorRecord(y)])
    BY <1>2, Zenon DEF AdjStep, AdjOK
  <2> QED
    BY <1>1, <1>3, <2>1, <2>2 DEF Types, ForgeTypes, StoreTypes
<1>7. StoreTypes'
  <2>1. DOMAIN gateRecords' = Heads /\ bound' \subseteq bound
    BY <1>1 DEF Types, StoreTypes, AdjStep
  <2> QED
    BY <1>3, <2>1 DEF Types, StoreTypes
<1>8. HistoryTypes'
  <2>1. y.pc # "idle" => {y.head} \X LiveChecked(y) \subseteq Heads \X Findings
    BY <1>1, <1>2 DEF LiveChecked, AdjOK, Adjudication, Mapped
  <2>2. y.pc # "idle" => {y.head} \X {HunkOf[f].path : f \in y.survivors} \subseteq Heads \X Paths
    BY <1>1, <1>2, DiffAssumption DEF Adjudication, Mapped, AdjOK
  <2>3. refutedAt' \subseteq Heads \X Findings
    BY <1>2, <2>1 DEF Types, HistoryTypes, AdjStep
  <2>4. edited' \subseteq Heads \X Paths
    BY <1>2, <2>2 DEF Types, HistoryTypes, AdjStep
  <2> QED
    BY <1>3, <2>3, <2>4 DEF Types, HistoryTypes
<1> QED
  BY <1>5, <1>6, <1>7, <1>8 DEF Types

LEMMA TypesStep == Types /\ [Next]_vars => Types'
<1> SUFFICES ASSUME Types, [Next]_vars PROVE Types'
  OBVIOUS
<1>1. CASE UNCHANGED vars
  BY <1>1 DEF Types, ForgeTypes, StoreTypes, HistoryTypes, ProcessTypes, RunOK, AdjOK, vars, forge, stores, history, bounds
<1>2. CASE \E h \in Heads : Push(h)
  BY <1>2, PushTypes
<1>3. ASSUME NEW r \in Reviewers, Reviewer(r) PROVE Types'
  BY <1>3, ReviewerMoves, RunTypes
<1>4. ASSUME NEW a \in Adjudicators, Adjudicator(a) PROVE Types'
  BY <1>4, AdjudicatorMoves, AdjTypes
<1> QED
  BY <1>1, <1>2, <1>3, <1>4 DEF Next

-----------------------------------------------------------------------------
(* The order of the steps.                                                 *)

\* A gate run writes the disposition of its own head only.
LEMMA DispositionsMove ==
  ASSUME Types, NEW q \in Run, NEW x, RunStep(q, x)
  PROVE  \A h \in Heads : \/ dispositions'[h] = dispositions[h]
                          \/ h = q.head /\ q.pc = "disposition" /\ q.disposition # NoRecord /\ dispositions'[h] = q.disposition
  BY DEF Types, StoreTypes, RunStep, Writes, stores

\* What a run leaves behind is of the head it reviewed.
LEMMA HeadsMove ==
  ASSUME NEW q, NEW x, RunStep(q, x), x.pc # "review", x.disposition # NoRecord \/ x.gate = "pass"
  PROVE  x.head = q.head /\ (q.pc = "review" \/ q.disposition # NoRecord \/ q.gate = "pass")
  BY DEF RunStep, Tail, Begun, Continued, Stopped

\* The notes only grow.
LEMMA NotesGrow ==
  ASSUME [Next]_vars
  PROVE  begun \subseteq begun' /\ late \subseteq late' /\ overlapped \subseteq overlapped'
<1>1. CASE UNCHANGED vars
  BY <1>1 DEF vars, order
<1>2. CASE Noted
  BY <1>2 DEF Noted
<1> QED
  BY <1>1, <1>2 DEF Next

LEMMA BegunStep ==
  ASSUME Types, OrderInv, NEW r \in Reviewers, Reviewer(r), Noted
  PROVE  BegunInv'
<1>1. begun \subseteq begun'
  BY DEF Noted
<1>2. PICK x \in Run : run' = [run EXCEPT ![r] = x] /\ RunOK(x)' /\ RunStep(run[r], x) /\ UNCHANGED pushed
  BY ReviewerMoves
<1>3. PICK q \in Run : q = run[r] /\ RunOK(q) /\ run'[r] = x /\ pushed \subseteq Heads
  BY <1>2 DEF Types, ProcessTypes, ForgeTypes
<1>4. q.pc = "review" \/ q.disposition # NoRecord \/ q.gate = "pass" => q.head \in begun
  BY <1>3 DEF OrderInv, BegunInv
<1>5. ASSUME NEW h \in Heads, dispositions'[h] # NoRecord PROVE h \in begun'
  BY <1>1, <1>2, <1>3, <1>4, <1>5, DispositionsMove DEF OrderInv, BegunInv
<1>6. ASSUME x.pc = "review" \/ x.disposition # NoRecord \/ x.gate = "pass" PROVE x.head \in begun'
  <2>1. CASE x.pc = "review"
    <3>1. x.head \in Heads
      BY <1>2, <1>3, <2>1 DEF RunOK
    <3> QED
      BY <1>3, <2>1, <3>1 DEF Noted
  <2>2. CASE x.pc # "review"
    BY <1>1, <1>2, <1>3, <1>4, <1>6, <2>2, HeadsMove
  <2> QED
    BY <2>1, <2>2
<1>7. ASSUME NEW t \in Reviewers, run'[t].pc = "review" \/ run'[t].disposition # NoRecord \/ run'[t].gate = "pass"
      PROVE  run'[t].head \in begun'
  <2>1. CASE t = r
    BY <1>3, <1>6, <1>7, <2>1
  <2>2. CASE t # r
    <3>1. run'[t] = run[t]
      BY <1>2, <2>2 DEF Types, ProcessTypes
    <3> QED
      BY <1>1, <1>7, <3>1 DEF OrderInv, BegunInv
  <2> QED
    BY <2>1, <2>2
<1> QED
  BY <1>5, <1>7 DEF BegunInv

LEMMA OrderStep == Types /\ OrderInv /\ [Next]_vars => OrderInv'
<1> SUFFICES ASSUME Types, OrderInv, [Next]_vars PROVE OrderInv'
  OBVIOUS
<1>1. CASE UNCHANGED vars
  BY <1>1 DEF vars, order, stores, OrderInv, OrderTypes, BegunInv, OverlapInv
<1>2. CASE Next
  <2>1. OrderTypes'
    BY <1>2, Line DEF Next, Noted, OrderInv, OrderTypes
  <2>2. OverlapInv'
    BY <1>2 DEF Next, Noted, OverlapInv
  <2>3. ASSUME UNCHANGED <<dispositions, run>>, Noted PROVE BegunInv'
    BY <2>3 DEF Noted, OrderInv, BegunInv
  <2>4. BegunInv'
    <3>1. ASSUME NEW h \in Heads, Push(h) PROVE BegunInv'
      BY <1>2, <2>3, <3>1 DEF Push, stores, Next
    <3>2. ASSUME NEW r \in Reviewers, Reviewer(r) PROVE BegunInv'
      BY <1>2, <3>2, BegunStep DEF Next
    <3>3. ASSUME NEW a \in Adjudicators, Adjudicator(a) PROVE BegunInv'
      BY <1>2, <2>3, <3>3, AdjudicatorMoves DEF AdjStep, Next
    <3> QED
      BY <1>2, <3>1, <3>2, <3>3 DEF Next
  <2> QED
    BY <2>1, <2>2, <2>4 DEF OrderInv
<1> QED
  BY <1>1, <1>2

-----------------------------------------------------------------------------
(* What was read.                                                          *)

\* A head whose predecessor was read, and where it differs from it itself, was read.
LEMMA ReadOn ==
  ASSUME NEW h \in Heads, NEW a \in Ancestors[h], Covered(a), NEW p \in Paths, p \notin computeTouchedPaths(a, h)
  PROVE  Read(p, h)
<1>1. PICK b \in Ancestors[a] : <<b, p>> \in inspected /\ Content[b][p] = Content[a][p]
  BY DEF Covered, Read
<1>2. b \in Ancestors[h] /\ Content[a][p] = Content[h][p]
  BY <1>1, Line DEF computeTouchedPaths
<1> QED
  BY <1>1, <1>2 DEF Read

LEMMA ReadKept ==
  ASSUME inspected \subseteq inspected'
  PROVE  /\ \A h, p : Read(p, h) => Read(p, h)'
         /\ \A h : Covered(h) => Covered(h)'
  BY DEF Read, Covered

LEMMA CoverKept ==
  ASSUME inspected \subseteq inspected'
  PROVE  (\A q : RunCover(q) => RunCover(q)') /\ (\A y : AdjCover(y) => AdjCover(y)')
  BY ReadKept DEF RunCover, AdjCover

\* What a run starts with is of a covered head.
LEMMA CarryCovered ==
  ASSUME CoverInv, NEW h \in Heads, NEW pool, NEW enabled, NEW c, c = CarryOf(h, pool, enabled)
  PROVE  /\ c.prior \in Heads => c.prior \in Before(h) /\ Covered(c.prior)
         /\ c.narrowed => c.prior \in Heads
<1>1. CASE c = NoCarry
  BY <1>1, AncestorsAssumption DEF NoCarry
<1>2. CASE Watermark(h) \in Heads /\ c = planCarry(h, Watermark(h))
  BY <1>2, WatermarkIs DEF planCarry, CoverInv
<1>3. CASE c = [NoCarry EXCEPT !.seeds = Overlay(h)]
  BY <1>3, AncestorsAssumption DEF NoCarry
<1> QED
  BY <1>1, <1>2, <1>3, CarryIs

LEMMA StoppedCover ==
  ASSUME Types, CoverInv, NEW r \in Reviewers, run[r].pc = "review", NEW x, NEW R, Stopped(run[r], x, R)
  PROVE  inspected \subseteq inspected' /\ RunCover(x)'
<1>1. PICK q \in Run : q = run[r] /\ RunOK(q) /\ q.pc = "review"
  BY DEF Types, ProcessTypes
<1>2. q.head \in Heads /\ RunCover(q)
  BY <1>1 DEF CoverInv, RunOK, Types, ForgeTypes
<1>3. inspected \subseteq inspected'
  BY DEF Stopped
<1>4. ASSUME x.disposition.ok PROVE Covered(q.head)'
  <2>1. ASSUME NEW p \in Paths PROVE Read(p, q.head)'
    <3>1. CASE q.carry.narrowed /\ p \notin computeTouchedPaths(q.carry.prior, q.head)
      <4>1. q.carry.prior \in Ancestors[q.head] /\ Covered(q.carry.prior)
        BY <1>2, <3>1, Line DEF RunCover
      <4> QED
        BY <1>2, <1>3, <3>1, <4>1, ReadOn, ReadKept
    <3>2. CASE ~(q.carry.narrowed /\ p \notin computeTouchedPaths(q.carry.prior, q.head))
      <4>1. <<q.head, p>> \in inspected'
        BY <1>1, <1>4, <3>2 DEF Stopped
      <4>2. q.head \in Ancestors[q.head]
        BY <1>2, Line
      <4> QED
        BY <4>1, <4>2 DEF Read
    <3> QED
      BY <3>1, <3>2
  <2> QED
    BY <2>1 DEF Covered
<1>5. /\ x.head = q.head /\ x.carry = NoCarry /\ (x.source # NoRecord => x.disposition.ok)
      /\ (x.gate = "pass" => x.disposition.ok)
  BY <1>1 DEF Stopped
<1>6. x.carry.prior \notin Heads /\ ~x.carry.narrowed
  BY <1>5, AncestorsAssumption DEF NoCarry
<1> QED
  BY <1>3, <1>4, <1>5, <1>6 DEF RunCover

LEMMA RunCovered ==
  ASSUME Types, CoverInv, NEW r \in Reviewers, NEW x, run' = [run EXCEPT ![r] = x], RunStep(run[r], x),
         UNCHANGED <<head, pushed, adj>>
  PROVE  CoverInv'
<1>1. run \in [Reviewers -> Run] /\ head \in Heads
  BY DEF Types, ProcessTypes, ForgeTypes
<1>2. PICK q \in Run : q = run[r] /\ RunCover(q)
  BY <1>1 DEF CoverInv
<1>3. inspected \subseteq inspected' /\ edited' = edited
  BY StoppedCover DEF RunStep, history, Stopped
<1>4. RunCover(x)'
  <2>1. CASE Tail(q, x)
    <3>1. ~x.carry.narrowed /\ x.carry.prior \notin Heads
      BY <2>1, AncestorsAssumption DEF Tail, NoCarry
    <3>2. CASE x.source = NoRecord /\ x.disposition = NoRecord /\ x.gate # "pass"
      BY <3>1, <3>2 DEF RunCover
    <3>3. CASE x.head = q.head /\ x.source = q.source /\ x.disposition = q.disposition /\ x.gate = q.gate
      BY <1>2, <1>3, <3>1, <3>3, ReadKept DEF RunCover
    <3> QED
      BY <2>1, <3>2, <3>3 DEF Tail
  <2>2. ASSUME NEW pool, NEW enabled, Begun(x, pool, enabled) PROVE RunCover(x)'
    <3>1. RunCover(x)
      BY <1>1, <2>2, CarryCovered DEF Begun, RunCover
    <3> QED
      BY <1>3, <3>1, CoverKept
  <2>3. CASE Continued(q, x)
    <3>1. RunCover(x)
      BY <1>2, <2>3 DEF Continued, RunCover
    <3> QED
      BY <1>3, <3>1, CoverKept
  <2>4. ASSUME q.pc = "review", NEW R, Stopped(q, x, R) PROVE RunCover(x)'
    BY <1>2, <2>4, StoppedCover
  <2> QED
    BY <1>2, <2>1, <2>2, <2>3, <2>4 DEF RunStep
<1>5. \A s \in Reviewers : RunCover(run[s])'
  <2>1. ASSUME NEW s \in Reviewers, s # r PROVE RunCover(run[s])'
    <3>1. run'[s] = run[s] /\ RunCover(run[s])
      BY <1>1, <2>1 DEF CoverInv
    <3>2. PICK k : k = run[s]
      OBVIOUS
    <3>3. RunCover(k)'
      BY <1>3, <3>1, <3>2, CoverKept
    <3> QED
      BY <3>1, <3>2, <3>3
  <2>2. run'[r] = x
    BY <1>1
  <2> QED
    BY <1>4, <2>1, <2>2
<1>6. /\ \A h \in Heads : sources'[h] # NoRecord => Covered(h)'
      /\ \A h \in Heads : dispositions'[h] # NoRecord /\ dispositions'[h].ok => Covered(h)'
  <2>1. \A h \in Heads : \/ sources'[h] = sources[h]
                         \/ h = q.head /\ q.source # NoRecord
    BY <1>2 DEF Types, StoreTypes, RunStep, Writes, stores
  <2>2. \A h \in Heads : \/ dispositions'[h] = dispositions[h]
                         \/ h = q.head /\ q.disposition # NoRecord /\ dispositions'[h] = q.disposition
    BY <1>2 DEF Types, StoreTypes, RunStep, Writes, stores
  <2>3. /\ \A h \in Heads : sources[h] # NoRecord => Covered(h)'
        /\ \A h \in Heads : dispositions[h] # NoRecord /\ dispositions[h].ok => Covered(h)'
    BY <1>3, ReadKept DEF CoverInv
  <2>4. /\ q.source # NoRecord => Covered(q.head)'
        /\ q.disposition # NoRecord /\ q.disposition.ok => Covered(q.head)'
    BY <1>2, <1>3, ReadKept DEF RunCover
  <2> QED
    BY <2>1, <2>2, <2>3, <2>4
<1>7. \A h \in Heads : status'[h] = "success" => \A p \in Paths : Read(p, h)' \/ <<h, p>> \in edited'
  <2>1. \A h \in Heads : status'[h] = "success" => status[h] = "success" \/ (h = q.head /\ q.gate = "pass")
    BY <1>2 DEF Types, ForgeTypes, RunStep, Writes
  <2>2. q.gate = "pass" => \A p \in Paths : Read(p, q.head)
    BY <1>2 DEF RunCover, Covered
  <2> QED
    BY <1>3, <2>1, <2>2, ReadKept DEF CoverInv
<1>8. \A a \in Adjudicators : adj'[a].pc # "idle" => AdjCover(adj[a])'
  <2>1. ASSUME NEW a \in Adjudicators, adj[a].pc # "idle" PROVE AdjCover(adj[a])'
    <3>1. PICK y : y = adj[a] /\ AdjCover(y)
      BY <2>1 DEF CoverInv
    <3>2. AdjCover(y)'
      BY <1>3, <3>1, CoverKept
    <3> QED
      BY <3>1, <3>2
  <2> QED
    BY <2>1
<1> QED
  BY <1>5, <1>6, <1>7, <1>8 DEF CoverInv, RunCover, AdjCover

LEMMA AdjCovered ==
  ASSUME Types, CoverInv, NEW a \in Adjudicators, NEW z, adj' = [adj EXCEPT ![a] = z], AdjStep(adj[a], z)
  PROVE  CoverInv'
<1>1. adj \in [Adjudicators -> Adjudication] /\ head \in Heads
  BY DEF Types, ProcessTypes, ForgeTypes
<1>2. PICK y \in Adjudication : y = adj[a] /\ (y.pc # "idle" => AdjCover(y))
  BY <1>1 DEF CoverInv
<1>3. UNCHANGED <<head, pushed, sources, dispositions, run, inspected, coldAt>>
  BY DEF AdjStep
<1>4. \A h, p : Read(p, h)' <=> Read(p, h)
  BY <1>3 DEF Read
<1>5. \A h : Covered(h)' <=> Covered(h)
  BY <1>4 DEF Covered
<1>6. z.pc # "idle" => AdjCover(z)
  <2>1. CASE z = AdjIdle
    BY <2>1 DEF AdjIdle
  <2>2. CASE y.pc \in {"inspected", "verified"} /\ z.source = y.source /\ z.head = y.head /\ z.survivors = y.survivors
    BY <1>2, <2>2 DEF AdjCover
  <2>3. ASSUME NEW src \in Heads, Adjudicable(src), evaluateInterdiffPolicy(src, head, sources[src].survivors),
               z.head = head, z.source = src, z.survivors = sources[src].survivors
        PROVE  AdjCover(z)
    <3>1. src \in Before(head) /\ src \in Ancestors[head]
      BY <1>1, <2>3, Line DEF evaluateInterdiffPolicy
    <3>2. Covered(src)
      BY <2>3 DEF CoverInv, Adjudicable
    <3>3. ASSUME NEW p \in computeTouchedPaths(src, head) PROVE \E f \in z.survivors : HunkOf[f].path = p
      <4>1. PICK e \in Interdiff[<<src, head>>] : e.path = p
        BY <1>1, <3>1, <3>3, DiffAssumption DEF computeTouchedPaths
      <4>2. Contained(e, {HunkOf[f] : f \in z.survivors})
        BY <2>3, <4>1 DEF evaluateInterdiffPolicy
      <4>3. PICK x \in {HunkOf[f] : f \in z.survivors} : x.path = e.path
        BY <4>2 DEF Contained, CoveringHunks
      <4> QED
        BY <4>1, <4>3
    <3> QED
      BY <2>3, <3>1, <3>2, <3>3 DEF AdjCover
  <2>4. \/ z = AdjIdle
        \/ y.pc = "inspected" /\ z = [y EXCEPT !.pc = "verified"]
        \/ y.pc = "verified" /\ z = [y EXCEPT !.pc = "recorded"]
        \/ \E src \in Heads :
              /\ Adjudicable(src) /\ evaluateInterdiffPolicy(src, head, sources[src].survivors)
              /\ z = [pc |-> "inspected", head |-> head, source |-> src,
                      survivors |-> sources[src].survivors, refuted |-> sources[src].refuted,
                      blockers |-> IF <<"disposition", src>> \in bound THEN dispositions[src].survived ELSE {}]
    BY <1>2, Zenon DEF AdjStep
  <2>5. ASSUME NEW pc, z = [y EXCEPT !.pc = pc]
        PROVE  z.source = y.source /\ z.head = y.head /\ z.survivors = y.survivors
    BY <2>5 DEF Adjudication
  <2>6. CASE \E src \in Heads :
              /\ Adjudicable(src) /\ evaluateInterdiffPolicy(src, head, sources[src].survivors)
              /\ z = [pc |-> "inspected", head |-> head, source |-> src,
                      survivors |-> sources[src].survivors, refuted |-> sources[src].refuted,
                      blockers |-> IF <<"disposition", src>> \in bound THEN dispositions[src].survived ELSE {}]
    <3>1. PICK src \in Heads :
              /\ Adjudicable(src) /\ evaluateInterdiffPolicy(src, head, sources[src].survivors)
              /\ z.head = head /\ z.source = src /\ z.survivors = sources[src].survivors
      BY <2>6
    <3> QED
      BY <2>3, <3>1
  <2> QED
    BY <2>1, <2>2, <2>4, <2>5, <2>6
<1>7. \A b \in Adjudicators : adj'[b].pc # "idle" => AdjCover(adj[b])'
  <2>1. ASSUME NEW b \in Adjudicators, NEW k, k = adj'[b], k.pc # "idle" PROVE AdjCover(k)'
    <3>1. AdjCover(k)
      BY <1>1, <1>6, <2>1 DEF CoverInv
    <3> QED
      BY <1>5, <3>1 DEF AdjCover
  <2> QED
    BY <2>1
<1>8. \A r \in Reviewers : RunCover(run[r])'
  <2>1. ASSUME NEW r \in Reviewers, NEW k, k = run[r] PROVE RunCover(k)'
    <3>1. RunCover(k)
      BY <2>1 DEF CoverInv
    <3> QED
      BY <1>5, <3>1 DEF RunCover
  <2> QED
    BY <1>3, <2>1
<1>9. \A h \in Heads : status'[h] = "success" => \A p \in Paths : Read(p, h)' \/ <<h, p>> \in edited'
  <2>1. edited \subseteq edited'
    BY DEF AdjStep
  <2>2. CASE status' = status
    BY <1>4, <2>1, <2>2 DEF CoverInv
  <2>3. CASE /\ y.pc = "recorded" /\ status' = [status EXCEPT ![y.head] = "success"]
             /\ edited' = edited \cup ({y.head} \X {HunkOf[f].path : f \in y.survivors})
    <3>0. PICK k \in Heads : k = y.head
      BY <1>2, <2>3 DEF Types, ForgeTypes, ProcessTypes, AdjOK
    <3>1. ASSUME NEW p \in Paths PROVE Read(p, k) \/ <<k, p>> \in edited'
      <4>1. CASE p \in computeTouchedPaths(y.source, k)
        BY <1>2, <2>3, <3>0, <4>1 DEF AdjCover
      <4>2. CASE p \notin computeTouchedPaths(y.source, k)
        <5>1. y.source \in Ancestors[k] /\ Covered(y.source)
          BY <1>2, <2>3, <3>0, Line DEF AdjCover
        <5> QED
          BY <4>2, <5>1, ReadOn
      <4> QED
        BY <4>1, <4>2
    <3>2. \A h \in Heads : h # k => status'[h] = status[h]
      BY <2>3, <3>0 DEF Types, ForgeTypes
    <3> QED
      BY <1>4, <2>1, <3>0, <3>1, <3>2 DEF CoverInv
  <2> QED
    BY <1>2, <2>2, <2>3, Zenon DEF AdjStep
<1> QED
  BY <1>3, <1>5, <1>7, <1>8, <1>9 DEF CoverInv, RunCover, AdjCover

LEMMA CoverStep == IInv /\ [Next]_vars => CoverInv'
<1> SUFFICES ASSUME Types, CoverInv, [Next]_vars PROVE CoverInv'
  BY DEF IInv
<1>1. CASE UNCHANGED vars \/ \E h \in Heads : Push(h)
  <2>1. UNCHANGED <<status, sources, dispositions, run, adj, inspected, edited>>
    BY <1>1 DEF vars, forge, stores, history, Push
  <2>2. \A h, p : Read(p, h)' <=> Read(p, h)
    BY <2>1 DEF Read
  <2>3. \A h : Covered(h)' <=> Covered(h)
    BY <2>2 DEF Covered
  <2> QED
    BY <2>1, <2>2, <2>3 DEF CoverInv, RunCover, AdjCover
<1>2. ASSUME NEW r \in Reviewers, Reviewer(r) PROVE CoverInv'
  BY <1>2, ReviewerMoves, RunCovered
<1>3. ASSUME NEW a \in Adjudicators, Adjudicator(a) PROVE CoverInv'
  BY <1>3, AdjudicatorMoves, AdjCovered
<1> QED
  BY <1>1, <1>2, <1>3 DEF Next

LEMMA InitIInv == Init => IInv
<1> SUFFICES ASSUME Init PROVE IInv
  OBVIOUS
<1>1. Types
  BY InitTypes
<1>2. NoHead \notin Heads /\ NoCarry.prior = NoHead /\ ~NoCarry.narrowed
  BY AncestorsAssumption DEF NoCarry
<1>3. CoverInv
  BY <1>2, IdleIs DEF Init, CoverInv, RunCover, AdjIdle
<1>4. OrderInv
  BY <1>2, IdleIs DEF Init, OrderInv, OrderTypes, BegunInv, OverlapInv
<1> QED
  BY <1>1, <1>3, <1>4 DEF IInv

-----------------------------------------------------------------------------
(* What was read, whatever runs at a time.                                 *)
THEOREM Invariance == Spec => []IInv
<1>1. IInv /\ [Next]_vars => IInv'
  BY TypesStep, OrderStep, CoverStep DEF IInv
<1> QED
  BY <1>1, InitIInv, PTL DEF Spec

\* The variables keep their types, and statuses and records are of pushed commits (TypeOK).
THEOREM TypeCorrect == Spec => []TypeOK
<1>1. IInv => TypeOK
  <2> SUFFICES ASSUME IInv PROVE TypeOK
    OBVIOUS
  <2>1. \A r \in Reviewers : run[r] \in Run
    BY DEF IInv, Types, ProcessTypes
  <2>2. \A a \in Adjudicators : adj[a] \in Adjudication
    BY DEF IInv, Types, ProcessTypes
  <2> QED
    BY <2>1, <2>2 DEF TypeOK, IInv, Types, ForgeTypes, StoreTypes, HistoryTypes, OrderInv, OrderTypes, Run, Adjudication
<1> QED
  BY <1>1, Invariance, PTL

\* Every changed path of a green head was read by a complete fleet with the content it has,
\* or is the path of an adjudicated survivor (GreenIsRead).
THEOREM GreenSafe == Spec => []GreenIsRead
<1>1. IInv => GreenIsRead
  BY DEF IInv, CoverInv, GreenIsRead, Changed
<1> QED
  BY <1>1, Invariance, PTL

-----------------------------------------------------------------------------
(* What an operator answers.                                               *)
LEMMA PairRun ==
  ASSUME Types, OrderInv, overlapped \subseteq overlapped', PairInv, NEW r \in Reviewers, NEW x \in Run, run' = [run EXCEPT ![r] = x], RunOK(x)',
         RunStep(run[r], x)
  PROVE  PairInv'
<1>1. PICK q \in Run : q = run[r] /\ RunOK(q) /\ RunPair(q)
  BY DEF Types, ProcessTypes, PairInv, RunPair
<1>2. PairsOK
  BY DEF PairInv, PairsOK
<1>3. sources \in [Heads -> Source \cup {NoRecord}] /\ dispositions \in [Heads -> Disposition \cup {NoRecord}]
  BY DEF Types, StoreTypes
<1>4. RunPair(x)' /\ PairsOK'
  <2>1. CASE Tail(q, x) /\ Writes(q, x)
    <3>1. x.pc \in {"source", "disposition"} \/ x.source # NoRecord =>
             x.head = q.head /\ x.source = q.source /\ x.disposition = q.disposition
      BY <2>1 DEF Tail, RunOK
    <3>2. x.source # NoRecord => x.disposition.survived \subseteq x.source.survivors \cup x.source.refuted
      BY <1>1, <3>1 DEF RunPair
    <3>3. CASE UNCHANGED stores /\ x.pc # "source" /\ (x.pc = "disposition" => q.pc = "source")
      <4>1. PairsOK'
        BY <1>2, <3>3 DEF PairsOK, stores
      <4> QED
        BY <1>1, <3>1, <3>2, <3>3, <4>1 DEF RunPair, stores
    <3>4. CASE /\ q.pc = "fleet" /\ x.pc \in {"source", "post"} /\ q.head \in Heads
               /\ bound' = bound \ {<<"source", q.head>>, <<"disposition", q.head>>}
               /\ UNCHANGED <<sources, dispositions>>
      <4>1. PairsOK'
        BY <1>2, <3>4 DEF PairsOK
      <4> QED
        BY <1>1, <3>1, <3>2, <3>4, <4>1 DEF RunPair
    <3>5. CASE /\ q.pc = "source" /\ x.pc = "disposition" /\ q.head \in Heads /\ q.source # NoRecord
               /\ sources' = [sources EXCEPT ![q.head] = q.source]
               /\ bound' = bound \cup {<<"source", q.head>>}
               /\ UNCHANGED dispositions
      <4>1. PairsOK'
        BY <1>1, <1>2, <1>3, <3>5 DEF PairsOK, RunPair
      <4>2. sources'[q.head] = q.source
        BY <1>3, <3>5
      <4> QED
        BY <1>1, <3>1, <3>2, <3>5, <4>1, <4>2 DEF RunPair
    <3>6. CASE /\ q.pc = "disposition" /\ x.pc = "post" /\ q.head \in Heads /\ q.disposition # NoRecord
               /\ dispositions' = [dispositions EXCEPT ![q.head] = q.disposition]
               /\ bound' = bound \cup {<<"disposition", q.head>>}
               /\ UNCHANGED sources
      <4>1. PairsOK'
        BY <1>1, <1>2, <1>3, <3>6 DEF PairsOK, RunPair
      <4> QED
        BY <3>2, <3>6, <4>1 DEF RunPair
    <3>7. CASE UNCHANGED stores /\ x.pc \in {"fleet", "idle"}
      BY <1>2, <3>2, <3>7 DEF PairsOK, RunPair, stores
    <3> QED
      BY <2>1, <3>3, <3>4, <3>5, <3>6, <3>7 DEF Writes
  <2>2. CASE UNCHANGED stores /\ x.pc = "review" /\ x.source = NoRecord
    BY <1>2, <2>2 DEF PairsOK, RunPair, stores
  <2>3. ASSUME UNCHANGED stores, NEW R, Stopped(q, x, R) PROVE RunPair(x)' /\ PairsOK'
    BY <1>2, <2>3 DEF PairsOK, RunPair, Stopped, stores
  <2> QED
    BY <1>1, <2>1, <2>2, <2>3 DEF RunStep, Begun, Continued
<1>5. ASSUME NEW s \in Reviewers PROVE RunPair(run[s])'
  <2>1. CASE s = r
    <3>1. run'[r] = x
      BY DEF Types, ProcessTypes
    <3> QED
      BY <1>4, <2>1, <3>1
  <2>2. CASE s # r
    <3>1. PICK m \in Run : m = run[s] /\ run'[s] = m /\ RunOK(m) /\ RunPair(m)
      BY <2>2 DEF Types, ProcessTypes, PairInv
    <3>2. ASSUME m.pc \in {"source", "disposition"}, m.head \notin overlapped'
          PROVE  /\ <<"disposition", m.head>> \in bound' => <<"disposition", m.head>> \in bound
                 /\ <<"source", m.head>> \in bound' => <<"source", m.head>> \in bound
                 /\ m.head \in Heads /\ sources'[m.head] = sources[m.head]
      <4>1. m.head \in Heads
        BY <3>1, <3>2 DEF RunOK, Types, ForgeTypes
      <4>2. m.head # q.head
        BY <1>1, <2>2, <3>1, <3>2, <4>1 DEF OrderInv, OverlapInv
      <4>3. UNCHANGED stores \/ Writes(q, x)
        BY <1>1 DEF RunStep
      <4> QED
        BY <1>3, <4>1, <4>2, <4>3 DEF Writes, stores
    <3>3. RunPair(m)'
      BY <3>1, <3>2 DEF RunPair
    <3> QED
      BY <3>1, <3>3
  <2> QED
    BY <2>1, <2>2
<1> QED
  BY <1>4, <1>5 DEF PairInv, PairsOK, RunPair

LEMMA PairAdj ==
  ASSUME overlapped \subseteq overlapped', PairInv, NEW y, NEW z, AdjStep(y, z)
  PROVE  PairInv'
<1>1. bound' \subseteq bound /\ UNCHANGED <<run, sources, dispositions>>
  BY DEF AdjStep
<1> QED
  BY <1>1 DEF PairInv, PairsOK, RunPair

LEMMA PairStep == Types /\ OrderInv /\ PairInv /\ [Next]_vars => PairInv'
<1> SUFFICES ASSUME Types, OrderInv, PairInv, [Next]_vars PROVE PairInv'
  OBVIOUS
<1> overlapped \subseteq overlapped'
  BY NotesGrow
<1>1. CASE UNCHANGED vars \/ \E h \in Heads : Push(h)
  <2>1. UNCHANGED <<stores, run>>
    BY <1>1 DEF vars, Push
  <2> QED
    BY <2>1 DEF PairInv, PairsOK, RunPair, stores
<1>2. ASSUME NEW r \in Reviewers, Reviewer(r) PROVE PairInv'
  BY <1>2, ReviewerMoves, PairRun
<1>3. ASSUME NEW a \in Adjudicators, Adjudicator(a) PROVE PairInv'
  BY <1>3, AdjudicatorMoves, PairAdj
<1> QED
  BY <1>1, <1>2, <1>3 DEF Next

\* What was refuted or reviewed stays on the record.
LEMMA HistoryGrows ==
  ASSUME Types, [Next]_vars
  PROVE  refutedAt \subseteq refutedAt' /\ coldAt \subseteq coldAt'
<1>1. CASE UNCHANGED vars \/ \E h \in Heads : Push(h)
  BY <1>1 DEF vars, Push, history
<1>2. ASSUME NEW r \in Reviewers, Reviewer(r) PROVE refutedAt \subseteq refutedAt' /\ coldAt \subseteq coldAt'
  BY <1>2, ReviewerMoves DEF RunStep, Stopped, history
<1>3. ASSUME NEW a \in Adjudicators, Adjudicator(a) PROVE refutedAt \subseteq refutedAt' /\ coldAt \subseteq coldAt'
  BY <1>3, AdjudicatorMoves DEF AdjStep
<1> QED
  BY <1>1, <1>2, <1>3 DEF Next

LEMMA AnswerStep == Types /\ PairInv /\ AnswerInv /\ [Next]_vars => AnswerInv'
<1> SUFFICES ASSUME Types, PairInv, AnswerInv, [Next]_vars PROVE AnswerInv'
  OBVIOUS
<1>1. refutedAt \subseteq refutedAt'
  BY HistoryGrows
<1>2. \A a \in Adjudicators : AdjAnswers(adj[a])
  BY DEF AnswerInv, AdjAnswers
<1>3. \A y : AdjAnswers(y) => AdjAnswers(y)'
  BY <1>1, NotesGrow DEF AdjAnswers, LiveChecked
<1>4. SUFFICES \A a \in Adjudicators : AdjAnswers(adj[a])'
  BY DEF AnswerInv, AdjAnswers
<1>5. CASE UNCHANGED adj
  BY <1>2, <1>3, <1>5
<1>6. ASSUME NEW a \in Adjudicators, Adjudicator(a) PROVE \A b \in Adjudicators : AdjAnswers(adj[b])'
  <2>1. PICK z : adj' = [adj EXCEPT ![a] = z] /\ AdjStep(adj[a], z)
    BY <1>6, AdjudicatorMoves
  <2>2. adj \in [Adjudicators -> Adjudication]
    BY DEF Types, ProcessTypes
  <2>3. PICK y \in Adjudication : y = adj[a] /\ AdjAnswers(y)
    BY <1>2, <2>2
  <2>4. AdjAnswers(z)'
    <3>1. CASE z = AdjIdle
      BY <3>1 DEF AdjIdle, AdjAnswers
    <3>2. ASSUME NEW pc, z = [y EXCEPT !.pc = pc]
          PROVE  z.pc = pc /\ z.head = y.head /\ z.source = y.source /\ z.survivors = y.survivors /\ z.refuted = y.refuted
                 /\ z.blockers = y.blockers /\ LiveChecked(z) = LiveChecked(y)
      BY <3>2 DEF Adjudication, LiveChecked
    <3>3. CASE /\ y.pc = "inspected" /\ z = [y EXCEPT !.pc = "verified"]
               /\ refutedAt' = refutedAt \cup ({y.head} \X LiveChecked(y))
      <4>1. {z.head} \X LiveChecked(z) \subseteq refutedAt'
        BY <3>2, <3>3
      <4>2. LiveChecked(z)' = LiveChecked(z)
        BY DEF LiveChecked
      <4> QED
        BY <2>3, <3>2, <3>3, <4>1, <4>2, NotesGrow DEF AdjAnswers
    <3>4. CASE y.pc = "verified" /\ z = [y EXCEPT !.pc = "recorded"]
      <4>1. AdjAnswers(z)
        BY <2>3, <3>2, <3>4 DEF AdjAnswers
      <4> QED
        BY <1>3, <4>1
    <3>5. CASE \E src \in Heads :
                 /\ Adjudicable(src)
                 /\ z = [pc |-> "inspected", head |-> head, source |-> src,
                         survivors |-> sources[src].survivors, refuted |-> sources[src].refuted,
                         blockers |-> IF <<"disposition", src>> \in bound THEN dispositions[src].survived ELSE {}]
      <4>1. PICK src \in Heads :
                 /\ Adjudicable(src) /\ z.pc = "inspected" /\ z.source = src
                 /\ z.survivors = sources[src].survivors /\ z.refuted = sources[src].refuted
                 /\ z.blockers = IF <<"disposition", src>> \in bound THEN dispositions[src].survived ELSE {}
        BY <3>5
      <4>2. z.source \notin overlapped' => z.blockers \subseteq z.survivors \cup z.refuted
        BY <4>1, NotesGrow DEF Adjudicable, PairInv, PairsOK
      <4> QED
        BY <4>1, <4>2 DEF AdjAnswers
    <3>6. \/ z = AdjIdle
          \/ /\ y.pc = "inspected" /\ z = [y EXCEPT !.pc = "verified"]
             /\ refutedAt' = refutedAt \cup ({y.head} \X LiveChecked(y))
          \/ y.pc = "verified" /\ z = [y EXCEPT !.pc = "recorded"]
          \/ \E src \in Heads :
                 /\ Adjudicable(src)
                 /\ z = [pc |-> "inspected", head |-> head, source |-> src,
                         survivors |-> sources[src].survivors, refuted |-> sources[src].refuted,
                         blockers |-> IF <<"disposition", src>> \in bound THEN dispositions[src].survived ELSE {}]
      BY <2>1, <2>3, Zenon DEF AdjStep
    <3> QED
      BY <3>1, <3>3, <3>4, <3>5, <3>6
  <2>5. ASSUME NEW b \in Adjudicators, b # a PROVE AdjAnswers(adj[b])'
    <3>1. PICK k : k = adj[b] /\ AdjAnswers(k)
      BY <1>2
    <3>2. AdjAnswers(k)' /\ adj'[b] = k
      BY <1>3, <2>1, <2>2, <2>5, <3>1
    <3> QED
      BY <3>2
  <2>6. adj'[a] = z
    BY <2>1, <2>2
  <2> QED
    BY <2>4, <2>5, <2>6
<1>7. ASSUME NEW r \in Reviewers, Reviewer(r) PROVE UNCHANGED adj
  BY <1>7, ReviewerMoves
<1>8. ASSUME NEW h \in Heads, Push(h) PROVE UNCHANGED adj
  BY <1>8 DEF Push
<1>9. UNCHANGED vars => UNCHANGED adj
  BY DEF vars
<1> QED
  BY <1>5, <1>6, <1>7, <1>8, <1>9 DEF Next

LEMMA InitAnswers == Init => PairInv /\ AnswerInv
<1> SUFFICES ASSUME Init PROVE PairInv /\ AnswerInv
  OBVIOUS
<1>1. PairInv
  BY IdleIs DEF Init, PairInv, PairsOK, RunPair
<1>2. AnswerInv
  BY DEF Init, AnswerInv, AdjAnswers, AdjIdle
<1> QED
  BY <1>1, <1>2

\* An operator's pass answers every blocker of the head it adjudicates, however many gate
\* runs share the stores (OperatorAnswersAll): the source and the disposition that match
\* one gate record are of one run, unless two runs of that head overlapped.
THEOREM OperatorSafe == Spec => []OperatorAnswersAll
<1> DEFINE Inv == PairInv /\ AnswerInv
<1>1. IInv /\ Inv /\ [Next]_vars => Inv'
  BY PairStep, AnswerStep DEF IInv
<1>2. Init => Inv
  BY InitAnswers
<1>3. Inv => OperatorAnswersAll
  <2> SUFFICES ASSUME AnswerInv, NEW a \in Adjudicators, adj[a].pc = "recorded", adj[a].source \notin overlapped,
                      NEW f \in adj[a].blockers
               PROVE  <<adj[a].head, f>> \in refutedAt \/ (f \notin Safety /\ f \in adj[a].survivors)
    BY DEF OperatorAnswersAll
  <2>1. f \in adj[a].survivors \cup adj[a].refuted /\ {adj[a].head} \X LiveChecked(adj[a]) \subseteq refutedAt
    BY DEF AnswerInv, AdjAnswers
  <2> QED
    BY <2>1 DEF LiveChecked
<1> HIDE DEF Inv
<1> QED
  BY <1>1, <1>2, <1>3, Invariance, PTL DEF Spec

-----------------------------------------------------------------------------
(* What comes down the branch.                                             *)

\* A disposition below a head whose review has begun stays as it is, or is noted as late.
BelowSame(h) == \A b \in Before(h) : b \in late' \/ dispositions'[b] = dispositions[b]

LEMMA BelowBegun ==
  ASSUME Types, OrderInv, [Next]_vars, NEW h \in begun
  PROVE  BelowSame(h)
<1>1. h \in Heads /\ Before(h) \subseteq Heads
  BY Line DEF OrderInv, OrderTypes
<1>2. CASE UNCHANGED vars
  BY <1>2 DEF vars, stores, BelowSame
<1>3. CASE Noted
  BY <1>1, <1>3 DEF Noted, BelowSame
<1> QED
  BY <1>2, <1>3 DEF Next

LEMMA SinceKept ==
  ASSUME refutedAt \subseteq refutedAt', coldAt \subseteq coldAt', late \subseteq late', NEW h, BelowSame(h)
  PROVE  /\ \A s, f : Since(s, f, h) => Since(s, f, h)'
         /\ \A S : Held(S, h) => Held(S, h)'
<1>1. \A b \in Before(h) : \A f : Open(b, f)' => Open(b, f)
  BY DEF BelowSame, Open
<1>2. \A s, f : Since(s, f, h) => Since(s, f, h)'
  BY <1>1 DEF Since
<1>3. \A a, f : Answered(a, f, h) => Answered(a, f, h)'
  BY DEF Answered
<1> QED
  BY <1>1, <1>2, <1>3 DEF Held

\* What is taken over is fresh, and what is not answered yet is among the seeds.
LEMMA CarryFreshAndHeld ==
  ASSUME Types, FreshInv, HeldInv, NEW h \in Heads, NEW pool, NEW enabled, NEW c, c = CarryOf(h, pool, enabled)
  PROVE  /\ CarryFresh(c, h)
         /\ c # NoCarry => Held(c.seeds, h)
         /\ c.seeds \cap AutoRefutable(c) = {}
<1>1. CASE c = NoCarry
  BY <1>1 DEF NoCarry, CarryFresh, AutoRefutable
<1>2. ASSUME NEW w \in Heads, w = Watermark(h), c = planCarry(h, w)
      PROVE  /\ CarryFresh(c, h) /\ Held(c.seeds, h) /\ c.seeds \cap AutoRefutable(c) = {}
  <2>1. /\ w \in Before(h) /\ w \in Ancestors[h] /\ dispositions[w] # NoRecord /\ dispositions[w].ok
        /\ Fresh(dispositions[w], w) /\ Held(dispositions[w].survived, w)
    BY <1>2, WatermarkIs, Line DEF FreshInv, HeldInv
  <2>2. /\ c.seeds = dispositions[w].survived \cup Overlay(h)
        /\ \A f \in Findings : c.auto[f] # NoHead => /\ f \notin c.seeds /\ f \notin Safety
                                                      /\ PathOf[f] \notin computeTouchedPaths(w, h)
                                                      /\ c.auto[f] = dispositions[w].refuted[f]
    BY <1>2 DEF planCarry
  <2>3. ASSUME NEW a \in Before(h), w \in Before(a), NEW f, Open(a, f) PROVE f \in c.seeds
    BY <1>2, <2>2, <2>3 DEF Overlay, Survived, Open
  <2>4. ASSUME NEW f, Open(w, f) PROVE f \in c.seeds
    BY <2>2, <2>4 DEF Open
  <2>5. \A a \in Before(h) : a \in Before(w) \/ a = w \/ w \in Before(a)
    BY <2>1, Line DEF Before
  <2>6. ASSUME NEW f \in Findings, c.auto[f] # NoHead
        PROVE  f \notin Safety /\ c.auto[f] # h /\ Since(c.auto[f], f, h)
    <3>1. PICK s : s = c.auto[f] /\ Since(s, f, w)
      BY <2>1, <2>2, <2>6 DEF Fresh
    <3>2. s \in Ancestors[w] /\ s \in Ancestors[h] /\ s # h
      BY <2>1, <3>1, Line DEF Since
    <3>3. PathOf[f] \in Paths
      BY DiffAssumption
    <3>4. Content[s][PathOf[f]] = Content[h][PathOf[f]]
      BY <2>2, <2>6, <3>1, <3>3 DEF Since, computeTouchedPaths
    <3>5. ASSUME NEW b \in Before(h), s \in Before(b), Open(b, f) PROVE FALSE
      <4>1. f \notin c.seeds
        BY <2>2, <2>6
      <4>2. b \in Before(w)
        BY <2>3, <2>4, <2>5, <3>5, <4>1
      <4> QED
        BY <3>1, <3>5, <4>2 DEF Since
    <3> QED
      BY <2>2, <2>6, <3>1, <3>2, <3>4, <3>5 DEF Since
  <2>7. ASSUME NEW a \in Before(h), NEW f \in Findings, Open(a, f), f \notin c.seeds PROVE Answered(a, f, h)
    <3>1. a \in Before(w)
      BY <2>3, <2>4, <2>5, <2>7
    <3>2. Answered(a, f, w)
      BY <2>1, <2>2, <2>7, <3>1 DEF Held
    <3> QED
      BY <2>1, <3>2, Line DEF Answered
  <2>8. c.seeds \cap AutoRefutable(c) = {}
    BY <2>2 DEF AutoRefutable
  <2> QED
    BY <2>6, <2>7, <2>8 DEF CarryFresh, Held
<1>3. ASSUME Watermark(h) \notin Heads, c = [NoCarry EXCEPT !.seeds = Overlay(h)]
      PROVE  /\ CarryFresh(c, h) /\ Held(c.seeds, h) /\ c.seeds \cap AutoRefutable(c) = {}
  <2>1. c.seeds = Overlay(h) /\ \A f \in Findings : c.auto[f] = NoHead
    BY <1>3 DEF NoCarry
  <2>2. ASSUME NEW a \in Before(h), NEW f, Open(a, f) PROVE f \in c.seeds
    BY <1>3, <2>1, <2>2 DEF Overlay, Survived, Open
  <2> QED
    BY <2>1, <2>2 DEF CarryFresh, Held, AutoRefutable
<1> QED
  BY <1>1, <1>2, <1>3, CarryIs

\* What a run leaves behind when it stops.
LEMMA StoppedFreshAndHeld ==
  ASSUME Types, FreshInv, HeldInv, NEW r \in Reviewers, run[r].pc = "review", UNCHANGED dispositions,
         late \subseteq late', NEW x, NEW R \in SUBSET Findings, Stopped(run[r], x, R)
  PROVE  /\ Fresh(x.disposition, x.head)'
         /\ x.disposition.ok => Held(x.disposition.survived, x.head)'
         /\ x.gate = "pass" => Held({}, x.head)'
<1>1. PICK q \in Run : q = run[r] /\ RunOK(q) /\ q.pc = "review" /\ CarryFresh(q.carry, q.head) /\ RunHeld(q)
  BY DEF Types, ProcessTypes, FreshInv, HeldInv
<1>2. q.head \in Heads /\ q.head \in Ancestors[q.head] /\ q.head \notin Before(q.head)
  BY <1>1, Line DEF RunOK, Types, ForgeTypes
<1>3. PICK d : d = x.disposition
  OBVIOUS
<1>4. /\ x.head = q.head /\ q.carried \cup q.refuted \subseteq d.survived \cup R
      /\ \A f \in Findings : d.refuted[f] # NoHead =>
            /\ f \notin d.survived
            /\ \/ q.carry.auto[f] # NoHead /\ d.refuted[f] = q.carry.auto[f]
               \/ q.carry.auto[f] = NoHead /\ f \in R /\ d.refuted[f] = q.head
      /\ refutedAt' = refutedAt \cup {<<q.head, f>> : f \in R \ (d.survived \cup AutoRefutable(q.carry))}
      /\ coldAt' = IF d.ok /\ q.carry = NoCarry THEN coldAt \cup {q.head} ELSE coldAt
      /\ x.gate = "pass" => d.ok /\ d.survived = {}
  BY <1>1, <1>3 DEF Stopped
<1>5. (\A s, f, h : Since(s, f, h) => Since(s, f, h)') /\ (\A S, h : Held(S, h) => Held(S, h)')
  BY <1>4, SinceKept DEF BelowSame
<1>6. ASSUME NEW f \in Findings, d.refuted[f] # NoHead PROVE f \notin d.survived /\ Since(d.refuted[f], f, q.head)'
  <2>1. CASE q.carry.auto[f] # NoHead /\ d.refuted[f] = q.carry.auto[f]
    BY <1>1, <1>4, <1>5, <1>6, <2>1 DEF CarryFresh
  <2>2. CASE q.carry.auto[f] = NoHead /\ f \in R /\ d.refuted[f] = q.head
    <3>1. <<q.head, f>> \in refutedAt'
      BY <1>4, <1>6, <2>2 DEF AutoRefutable
    <3>2. \A b \in Before(q.head) : q.head \notin Before(b)
      BY <1>2, Line DEF Before
    <3> QED
      BY <1>2, <1>4, <1>6, <2>2, <3>1, <3>2 DEF Since
  <2> QED
    BY <1>4, <1>6, <2>1, <2>2
<1>7. ASSUME d.ok PROVE Held(d.survived, q.head)'
  <2>1. CASE q.carry = NoCarry
    <3>1. q.head \in coldAt'
      BY <1>4, <1>7, <2>1
    <3>2. \A a \in Before(q.head) : \A f : Answered(a, f, q.head)'
      BY <1>2, <3>1 DEF Answered
    <3> QED
      BY <3>2 DEF Held
  <2>2. CASE q.carry # NoCarry
    <3>1. Held(q.carry.seeds, q.head)'
      BY <1>1, <1>5, <2>2 DEF RunHeld
    <3>2. ASSUME NEW a \in Before(q.head), NEW f \in Findings, f \in q.carry.seeds, f \notin d.survived
          PROVE  Answered(a, f, q.head)'
      <4>1. f \in R \ (d.survived \cup AutoRefutable(q.carry))
        BY <1>1, <1>4, <3>2 DEF RunHeld
      <4>2. <<q.head, f>> \in refutedAt'
        BY <1>4, <4>1
      <4> QED
        BY <1>2, <4>2 DEF Answered
    <3> QED
      BY <3>1, <3>2 DEF Held
  <2> QED
    BY <2>1, <2>2
<1> QED
  BY <1>3, <1>4, <1>6, <1>7 DEF Fresh

DownInv == FreshInv /\ HeldInv

LEMMA DownRun ==
  ASSUME Types, OrderInv, DownInv, NEW r \in Reviewers, NEW x \in Run,
         run' = [run EXCEPT ![r] = x], RunStep(run[r], x), refutedAt \subseteq refutedAt', coldAt \subseteq coldAt',
         late \subseteq late', \A h \in begun : BelowSame(h)
  PROVE  (FreshInv /\ HeldInv)'
<1>1. run[r] \in Run /\ RunOK(run[r]) /\ run'[r] = x /\ pushed \subseteq Heads /\ head \in Heads /\ FreshInv /\ HeldInv
  BY DEF Types, ProcessTypes, ForgeTypes, DownInv
<1>2. PICK q \in Run : /\ q = run[r] /\ RunOK(q) /\ (q.disposition # NoRecord => Fresh(q.disposition, q.head))
                       /\ CarryFresh(q.carry, q.head) /\ RunHeld(q)
  BY <1>1 DEF FreshInv, HeldInv
<1>3. \A h \in Heads : \/ dispositions'[h] = dispositions[h]
                       \/ h = q.head /\ q.pc = "disposition" /\ q.disposition # NoRecord /\ dispositions'[h] = q.disposition
  BY <1>2, DispositionsMove
<1>4. q.pc = "review" \/ q.disposition # NoRecord \/ q.gate = "pass" => BelowSame(q.head)
  BY <1>2 DEF OrderInv, BegunInv
<1>5. \A h \in Heads : dispositions[h] # NoRecord => BelowSame(h)
  BY DEF OrderInv, BegunInv
<1>7. ASSUME NEW d, NEW h, BelowSame(h)
      PROVE  /\ Fresh(d, h) => Fresh(d, h)'
             /\ Held(d, h) => Held(d, h)'
  BY <1>7, SinceKept DEF Fresh
<1>8. q.disposition # NoRecord /\ q.pc # "idle" =>
         Fresh(q.disposition, q.head)' /\ (q.disposition.ok => Held(q.disposition.survived, q.head)')
  BY <1>1, <1>2, <1>4, <1>7 DEF RunHeld, RunOK
<1>9. \A h \in Heads : dispositions'[h] # NoRecord =>
         Fresh(dispositions[h], h)' /\ (dispositions'[h].ok => Held(dispositions[h].survived, h)')
  <2>1. ASSUME NEW h \in Heads, NEW d, d = dispositions'[h], d # NoRecord
        PROVE  Fresh(d, h)' /\ (d.ok => Held(d.survived, h)')
    <3>1. CASE d = dispositions[h]
      BY <1>1, <1>5, <1>7, <2>1, <3>1 DEF FreshInv, HeldInv
    <3>2. CASE h = q.head /\ q.pc = "disposition" /\ q.disposition # NoRecord /\ d = q.disposition
      BY <1>8, <3>2
    <3> QED
      BY <1>3, <2>1, <3>1, <3>2
  <2> QED
    BY <2>1
<1>10. (x.disposition # NoRecord => Fresh(x.disposition, x.head)') /\ CarryFresh(x.carry, x.head)' /\ RunHeld(x)'
  <2>1. ASSUME x.carry = NoCarry
        PROVE  CarryFresh(x.carry, x.head)' /\ x.carry.seeds = {}
    BY <2>1 DEF NoCarry, CarryFresh
  <2>2. CASE Tail(q, x)
    <3>1. CASE x.source = NoRecord /\ x.disposition = NoRecord /\ x.gate # "pass"
      BY <2>1, <2>2, <3>1 DEF Tail, RunHeld
    <3>2. CASE q.pc # "review" /\ x.head = q.head /\ x.disposition = q.disposition /\ x.gate = q.gate
      <4>1. CASE q.pc = "idle"
        BY <1>2, <2>1, <2>2, <3>2, <4>1 DEF Tail, RunHeld, RunOK
      <4>2. CASE q.pc # "idle"
        <5>1. q.gate = "pass" => Held({}, q.head)'
          BY <1>1, <1>2, <1>4, <1>7, <4>2 DEF RunHeld, RunOK
        <5> QED
          BY <1>8, <2>1, <2>2, <3>2, <4>2, <5>1 DEF Tail, RunHeld
      <4> QED
        BY <4>1, <4>2
    <3> QED
      BY <2>2, <3>1, <3>2 DEF Tail
  <2>3. ASSUME NEW pool, NEW enabled, Begun(x, pool, enabled), UNCHANGED stores
        PROVE  CarryFresh(x.carry, x.head)' /\ RunHeld(x)' /\ x.disposition = NoRecord
    <3>1. CarryFresh(x.carry, x.head) /\ RunHeld(x)
      BY <1>1, <2>3, CarryFreshAndHeld DEF Begun, RunHeld
    <3>2. \A h : BelowSame(h)
      BY <2>3 DEF BelowSame, stores
    <3>3. CarryFresh(x.carry, x.head)' /\ RunHeld(x)'
      BY <3>1, <3>2, SinceKept DEF CarryFresh, RunHeld
    <3> QED
      BY <2>3, <3>3 DEF Begun
  <2>4. CASE Continued(q, x) /\ UNCHANGED stores /\ q.pc = "review"
    <3>1. CarryFresh(x.carry, x.head) /\ RunHeld(x)
      BY <1>2, <2>4 DEF Continued, RunHeld
    <3>2. \A h : BelowSame(h)
      BY <2>4 DEF BelowSame, stores
    <3>3. CarryFresh(x.carry, x.head)' /\ RunHeld(x)'
      BY <3>1, <3>2, SinceKept DEF CarryFresh, RunHeld
    <3> QED
      BY <2>4, <3>3 DEF Continued
  <2>5. ASSUME q.pc = "review", UNCHANGED stores, NEW R \in SUBSET Findings, Stopped(q, x, R)
        PROVE  Fresh(x.disposition, x.head)' /\ CarryFresh(x.carry, x.head)' /\ RunHeld(x)'
    <3>1. /\ Fresh(x.disposition, x.head)'
          /\ x.disposition.ok => Held(x.disposition.survived, x.head)'
          /\ x.gate = "pass" => Held({}, x.head)'
      BY <1>1, <1>2, <2>5, StoppedFreshAndHeld DEF stores
    <3>2. x.carry = NoCarry /\ x.pc = "fleet"
      BY <2>5 DEF Stopped
    <3> QED
      BY <2>1, <3>1, <3>2 DEF RunHeld
  <2> QED
    BY <1>2, <2>2, <2>3, <2>4, <2>5 DEF RunStep
<1>11. ASSUME NEW s \in Reviewers, NEW m \in Run, m = run'[s]
       PROVE  (m.disposition # NoRecord => Fresh(m.disposition, m.head)') /\ CarryFresh(m.carry, m.head)' /\ RunHeld(m)'
  <2>1. CASE s = r
    BY <1>1, <1>10, <1>11, <2>1
  <2>2. CASE s # r
    <3>1. m = run[s] /\ RunOK(m) /\ (m.disposition # NoRecord => Fresh(m.disposition, m.head))
          /\ CarryFresh(m.carry, m.head) /\ RunHeld(m)
      BY <1>1, <1>11, <2>2 DEF Types, ProcessTypes, FreshInv, HeldInv
    <3>2. m.pc = "review" \/ m.disposition # NoRecord \/ m.gate = "pass" => BelowSame(m.head)
      BY <3>1 DEF OrderInv, BegunInv
    <3>3. m.disposition # NoRecord => Fresh(m.disposition, m.head)'
      BY <1>7, <3>1, <3>2
    <3>4. CarryFresh(m.carry, m.head)'
      <4>1. CASE m.pc = "review"
        BY <3>1, <3>2, <4>1, SinceKept DEF CarryFresh
      <4>2. CASE m.pc # "review"
        BY <3>1, <4>2 DEF RunOK, NoCarry, CarryFresh
      <4> QED
        BY <4>1, <4>2
    <3>5. RunHeld(m)'
      BY <1>7, <3>1, <3>2 DEF RunHeld
    <3> QED
      BY <3>3, <3>4, <3>5
  <2> QED
    BY <2>1, <2>2
<1>12. \A s \in Reviewers : run'[s] \in Run
  BY DEF Types, ProcessTypes
<1> QED
  BY <1>9, <1>11, <1>12 DEF FreshInv, HeldInv

LEMMA DownStep == Types /\ OrderInv /\ DownInv /\ [Next]_vars => DownInv'
<1> SUFFICES ASSUME Types, OrderInv, DownInv, [Next]_vars PROVE DownInv'
  OBVIOUS
<1>1. refutedAt \subseteq refutedAt' /\ coldAt \subseteq coldAt' /\ late \subseteq late'
  BY HistoryGrows, NotesGrow
<1>2. ASSUME UNCHANGED <<dispositions, run>> PROVE DownInv'
  <2>1. (\A s, f, h : Since(s, f, h) => Since(s, f, h)') /\ (\A S, h : Held(S, h) => Held(S, h)')
    BY <1>1, <1>2, SinceKept DEF BelowSame
  <2>2. /\ \A d, h : Fresh(d, h) => Fresh(d, h)'
        /\ \A c, h : CarryFresh(c, h) => CarryFresh(c, h)'
        /\ \A q : RunHeld(q) => RunHeld(q)'
    BY <2>1 DEF Fresh, CarryFresh, RunHeld
  <2> QED
    BY <1>2, <2>1, <2>2 DEF DownInv, FreshInv, HeldInv
<1>3. CASE UNCHANGED vars \/ \E h \in Heads : Push(h)
  BY <1>2, <1>3 DEF vars, Push, stores
<1>4. ASSUME NEW r \in Reviewers, Reviewer(r) PROVE DownInv'
  <2>1. \A h \in begun : BelowSame(h)
    BY BelowBegun
  <2> QED
    BY <1>1, <1>4, <2>1, ReviewerMoves, DownRun DEF DownInv
<1>5. ASSUME NEW a \in Adjudicators, Adjudicator(a) PROVE DownInv'
  BY <1>2, <1>5, AdjudicatorMoves DEF AdjStep
<1> QED
  BY <1>3, <1>4, <1>5 DEF Next

LEMMA InitDown == Init => DownInv
<1> SUFFICES ASSUME Init PROVE DownInv
  OBVIOUS
<1>1. FreshInv
  BY IdleIs DEF Init, FreshInv, CarryFresh, NoCarry
<1>2. HeldInv
  BY IdleIs DEF Init, HeldInv, RunHeld, NoCarry
<1> QED
  BY <1>1, <1>2 DEF DownInv

\* What comes down the branch stays fresh and held, whatever runs at a time.
LEMMA DownInvariance == Spec => []DownInv
<1>1. IInv /\ DownInv /\ [Next]_vars => DownInv'
  BY DownStep DEF IInv
<1> QED
  BY <1>1, InitDown, Invariance, PTL DEF Spec

\* A carried refutation was verified at an ancestor whose file is the same, is not of the
\* safety tier, and no head in between saw the blocker survive (RefutationFresh), whatever
\* gate runs overlap and whatever heads come back.
THEOREM FreshSafe == Spec => []RefutationFresh
<1>1. IInv /\ DownInv => RefutationFresh
  <2> SUFFICES ASSUME Types, FreshInv, NEW r \in Reviewers, NEW f \in AutoRefutable(run[r].carry)
               PROVE  LET s == run[r].carry.auto[f]
                      IN  /\ s \in Before(run[r].head) /\ <<s, f>> \in refutedAt /\ f \notin Safety
                          /\ Content[s][PathOf[f]] = Content[run[r].head][PathOf[f]]
                          /\ \A b \in Before(run[r].head) \ late :
                                s \in Before(b) /\ dispositions[b] # NoRecord => f \notin dispositions[b].survived
    BY DEF RefutationFresh, IInv, DownInv
  <2>1. f \in Findings /\ run[r].carry.auto[f] # NoHead
    BY DEF AutoRefutable
  <2>2. PICK s : s = run[r].carry.auto[f] /\ f \notin Safety /\ s # run[r].head /\ Since(s, f, run[r].head)
    BY <2>1 DEF FreshInv, CarryFresh
  <2> QED
    BY <2>2 DEF Since, Before, Open
<1> QED
  BY <1>1, DownInvariance, Invariance, PTL

\* A gate that passes has an answer to every blocker an ancestor's disposition holds
\* (BlockersAnswered): whatever was omitted, rerun or lost on the way.
THEOREM AnswersSafe == Spec => []BlockersAnswered
<1>1. IInv /\ DownInv => BlockersAnswered
  <2> SUFFICES ASSUME Types, HeldInv, NEW r \in Reviewers, run[r].gate = "pass",
                      NEW a \in Before(run[r].head) \ late, dispositions[a] # NoRecord, NEW f \in dispositions[a].survived
               PROVE  Answered(a, f, run[r].head)
    BY DEF BlockersAnswered, IInv, DownInv
  <2>1. run[r].pc # "idle" /\ run[r].head \in Heads
    BY DEF Types, ProcessTypes, ForgeTypes, RunOK
  <2>2. f \in Findings
    BY <2>1, Line DEF Types, StoreTypes, Disposition
  <2> QED
    BY <2>2 DEF HeldInv, RunHeld, Held, Open
<1> QED
  BY <1>1, DownInvariance, Invariance, PTL
=============================================================================
