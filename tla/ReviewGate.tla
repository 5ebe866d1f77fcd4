----------------------------- MODULE ReviewGate -----------------------------
(***************************************************************************)
(* The cold gate of one pull request, over the commits it is pushed to:    *)
(* pr-review-gate.ts (a fleet of cells discovers blockers, a verifier      *)
(* refutes or keeps them, the run converges or blocks), the evidence it    *)
(* leaves for the next head (review/carry.ts), and the operator's way out  *)
(* of a red gate (pr-adjudicate-cli.ts, review/adjudication.ts).           *)
(*                                                                         *)
(* Three stores are keyed by head: the gate records, the adjudication      *)
(* sources and the finding dispositions.  A source or a disposition holds  *)
(* the digest of the gate record's file; `bound` says which digests still  *)
(* match.  What a model answers (which blockers a cell reports, which ones *)
(* the verifier refutes, whether a call fails) is any value.               *)
(*                                                                         *)
(* Bounds of the abstraction: a branch is a tree of commits (no merges),   *)
(* a head is pushed once unless Rewind, and a blocker names one path.      *)
(***************************************************************************)
EXTENDS Naturals, FiniteSets, FiniteSetsExt

CONSTANTS Heads, NoHead,
          Ancestors,          \* the commits a head is made of, itself included
          Paths, Base, Content,  \* what each path holds at the base and at each head
          Interdiff,          \* the diff hunks from a head to a later one
          Findings, PathOf,   \* the blockers a cell can report, and their paths
          Safety,             \* the blockers whose class is of the safety tier
          HunkOf,             \* the hunk of the reviewed diff a blocker maps to, or NoHunk
          NoHunk,
          Cells,              \* drivers x labels
          Pools,              \* the provider pools a run may be configured with
          MaxPasses,          \* review.max-passes
          CarryMax,           \* CARRY_MAX_PRIOR_CANDIDATES
          Reviewers, Adjudicators,
          Failed, NoRecord,
          Rewind,             \* a force push may bring an old head back
          MaxReviews,         \* bound: gate runs
          Reports,            \* bound: the reports a cell may give in the n-th of them
          MaxFaults           \* bound: failed writes and posts, crashes, and manual runs, together

Providers == {"claude", "codex", "grok", "opencode"}
\* A branch is a line of commits back to its base.
ASSUME AncestorsAssumption ==
    /\ NoHead \notin Heads
    /\ Ancestors \in [Heads -> SUBSET Heads]
    /\ \A h \in Heads : h \in Ancestors[h]
    /\ \A h \in Heads : \A a \in Ancestors[h] :
          Ancestors[a] \subseteq Ancestors[h] /\ (h \in Ancestors[a] => a = h)
    /\ \A h \in Heads : \A S \in SUBSET Ancestors[h] : S # {} => \E a \in S : S \subseteq Ancestors[a]

\* A blocker is of one path, and so is the hunk it maps to; a diff lists every path whose
\* content differs.
ASSUME DiffAssumption ==
    /\ IsFiniteSet(Findings) /\ Safety \subseteq Findings
    /\ PathOf \in [Findings -> Paths]
    /\ \A f \in Findings : HunkOf[f] # NoHunk => HunkOf[f].path \in Paths
    /\ \A h \in Heads : \A a \in Ancestors[h] : \A p \in Paths :
          Content[a][p] # Content[h][p] => \E e \in Interdiff[<<a, h>>] : e.path = p

ASSUME ReviewGateAssumption ==
    /\ Pools \subseteq SUBSET Providers
    /\ MaxPasses \in Nat \ {0} /\ MaxReviews \in Nat /\ MaxFaults \in Nat
    /\ \A n \in 1..MaxReviews : Reports[n] \subseteq SUBSET Findings

VARIABLES
    \* the forge: the head of the pull request, every commit it had, the `review` statuses
    head, pushed, status,
    \* the stores, per head, and the digests that match
    gateRecords, sources, dispositions, bound,
    \* the processes: gate runs and pr-adjudicate
    run, adj,
    \* what happened (not in the code): verified refutations, paths a complete fleet
    \* read, complete runs that consumed no carry, paths whose narrow fix was adjudicated
    refutedAt, inspected, coldAt, edited,
    \* in which order (not in the code): heads whose review has begun, heads whose disposition
    \* was written after the review of a later head had, heads under review twice at once
    begun, late, overlapped,
    \* the bounds
    reviews, faults

forge == <<head, pushed, status>>
stores == <<gateRecords, sources, dispositions, bound>>
history == <<refutedAt, inspected, coldAt, edited>>
order == <<begun, late, overlapped>>
bounds == <<reviews, faults>>
vars == <<forge, stores, run, adj, history, order, bounds>>
-----------------------------------------------------------------------------
(* The commits. *)
Before(h) == Ancestors[h] \ {h}
computeTouchedPaths(a, h) == {p \in Paths : Content[a][p] # Content[h][p]}
Changed(h) == {p \in Paths : Content[h][p] # Base[p]}
-----------------------------------------------------------------------------
(* What a run may take over from earlier heads (review/carry.ts). *)
NoCarry == [prior |-> NoHead, seeds |-> {}, auto |-> [f \in Findings |-> NoHead], narrowed |-> FALSE]
AutoRefutable(carry) == {f \in Findings : carry.auto[f] # NoHead}

poolStoreTrust(pool) == pool \subseteq {"claude", "codex"}
\* Mutant: a run that some cell did not finish narrows the next one.
AnyWatermark(record) == TRUE

isCompleteWatermark(record) == record.ok /\ record.agreement # "invalid"
Survived(hs) == UNION {dispositions[a].survived : a \in hs}

\* The newest complete ancestor whose digest still matches; NoHead if there is none.
Watermark(h) ==
    LET binding == {a \in Before(h) : /\ dispositions[a] # NoRecord
                                      /\ isCompleteWatermark(dispositions[a])
                                      /\ <<"disposition", a>> \in bound}
    IN  IF binding = {} THEN NoHead ELSE CHOOSE a \in binding : binding \subseteq Ancestors[a]

\* Mutant: only the watermark's blockers are carried.
OverlayForgotten(h) == {}

\* The blockers of every ancestor that cannot be the watermark: incomplete, or complete
\* but newer than the watermark (its gate record was rewritten).
Overlay(h) ==
    Survived({a \in Before(h) : /\ dispositions[a] # NoRecord
                                /\ \/ ~isCompleteWatermark(dispositions[a])
                                   \/ Watermark(h) \notin Heads
                                   \/ Watermark(h) \in Before(a)})

\* Mutant: a refutation is carried over an edit of the file it is about.
planCarryTouched(h, w) ==
    LET seeds == dispositions[w].survived \cup Overlay(h)
        Eligible(f) == f \notin seeds \cup Safety
    IN  [prior |-> w, seeds |-> seeds, narrowed |-> computeTouchedPaths(w, h) # {},
         auto |-> [f \in Findings |-> IF Eligible(f) THEN dispositions[w].refuted[f] ELSE NoHead]]

planCarry(h, w) ==
    LET seeds == dispositions[w].survived \cup Overlay(h)
        touched == computeTouchedPaths(w, h)
        Eligible(f) == f \notin seeds \cup Safety /\ PathOf[f] \notin touched
    IN  [prior |-> w, seeds |-> seeds, narrowed |-> touched # {},
         auto |-> [f \in Findings |-> IF Eligible(f) THEN dispositions[w].refuted[f] ELSE NoHead]]

resolveCarryOptions(h) ==
    LET others == {a \in Heads \ {h} : dispositions[a] # NoRecord}
    IN  IF Cardinality(others) > CarryMax THEN NoCarry
        ELSE IF Watermark(h) \in Heads THEN planCarry(h, Watermark(h))
        ELSE [NoCarry EXCEPT !.seeds = Overlay(h)]
-----------------------------------------------------------------------------
(* One iteration of a gate run. *)
\* What a cell contributes: `report` is what discovery returned, `verdict` the candidates
\* the verifier refuted.  Carried blockers join the candidates of every cell; those that
\* are auto-refutable are withheld from the verifier.
runVerificationPass(q, report, verdict) ==
    IF report = Failed THEN [ok |-> FALSE, decided |-> FALSE, survives |-> {}, refutes |-> {}]
    ELSE LET all == q.carried \cup report
             candidates == all \ AutoRefutable(q.carry)
         IN  IF candidates # {} /\ verdict = Failed
             THEN [ok |-> FALSE, decided |-> FALSE, survives |-> report, refutes |-> {}]
             ELSE LET kept == IF candidates = {} THEN {} ELSE candidates \ verdict
                  IN  [ok |-> TRUE, decided |-> TRUE, survives |-> kept, refutes |-> all \ kept]

computePrReviewAgreement(cells) ==
    LET passes == {c \in Cells : cells[c].survives = {}}
    IN  IF \E c \in Cells : ~cells[c].ok THEN "invalid"
        ELSE IF passes = Cells THEN "consensus-pass"
        ELSE IF passes = {} THEN "consensus-block" ELSE "disagreement"

SurvivesIn(cells) == UNION {cells[c].survives : c \in Cells}
RefutedIn(cells) == UNION {cells[c].refutes : c \in Cells}

\* Omission never refutes; an invalid summary puts every blocker it names back.
evaluateReviewConvergence(q, cells, valid) ==
    IF valid THEN (q.carried \ RefutedIn(cells)) \cup SurvivesIn(cells)
             ELSE q.carried \cup SurvivesIn(cells) \cup RefutedIn(cells)

\* The latest decision on each blocker: a later iteration wins, and in one iteration
\* `survives` wins.
Decisions(q, cells) ==
    LET decided == {c \in Cells : cells[c].decided}
    IN  [f \in Findings |->
           CASE \E c \in decided : f \in cells[c].survives -> "survives"
             [] \E c \in decided : f \in cells[c].refutes /\ \A d \in decided : f \notin cells[d].survives
                -> "refuted"
             [] OTHER -> q.decisions[f]]

RefutedThisRun(q, cells, valid) ==
    IF valid THEN (q.refuted \cup RefutedIn(cells)) \ SurvivesIn(cells) ELSE q.refuted

\* The run after an iteration, whatever comes next.
Folded(q, cells, valid) ==
    [q EXCEPT !.carried = evaluateReviewConvergence(q, cells, valid),
              !.refuted = RefutedThisRun(q, cells, valid),
              !.decisions = Decisions(q, cells)]

\* No condition on a record tells the two adjudicable agreements apart.
Recorded(agreement) == IF agreement = "disagreement" THEN "consensus-block" ELSE agreement

\* The source an operator may adjudicate: a block of a complete fleet, with evidence for
\* every carried blocker; the ones the latest decision refuted are not survivors.  No
\* draft when a survivor maps to no hunk.
buildAdjudicationSourceDraft(q, agreement) ==
    LET survivors == {f \in q.carried : q.decisions[f] = "survives"}
        refuted == {f \in q.carried : q.decisions[f] = "refuted"}
    IN  IF /\ agreement \in {"consensus-block", "disagreement"}
           /\ survivors # {} /\ survivors \cup refuted = q.carried
           /\ \A f \in survivors : HunkOf[f] # NoHunk
        THEN [agreement |-> Recorded(agreement), survivors |-> survivors, refuted |-> refuted]
        ELSE NoRecord

\* The survivors, and the refutations: of this run (an auto-refutation keeps its origin),
\* and those carried forward that this run did not meet.
buildCarryDispositionDraft(q, ok, agreement) ==
    [ok |-> ok, agreement |-> Recorded(agreement), survived |-> q.carried,
     refuted |-> [f \in Findings |->
                    IF f \in q.carried THEN NoHead
                    ELSE IF q.carry.auto[f] # NoHead THEN q.carry.auto[f]
                    ELSE IF f \in q.refuted THEN q.head ELSE NoHead]]
-----------------------------------------------------------------------------
(* The processes. *)
NoRefutations == [f \in Findings |-> NoHead]
Idle == [pc |-> "idle", kind |-> "none", head |-> NoHead, carry |-> NoCarry, carried |-> {},
         refuted |-> {}, decisions |-> [f \in Findings |-> "none"], previous |-> 0, iteration |-> 0,
         gate |-> "none", ok |-> FALSE, agreement |-> "none", source |-> NoRecord,
         disposition |-> NoRecord]
AdjIdle == [pc |-> "idle", head |-> NoHead, source |-> NoHead, survivors |-> {}, refuted |-> {},
            blockers |-> {}]   \* blockers is history: what the source head's disposition holds

Init ==
    /\ \E h \in Heads : Before(h) = {} /\ head = h /\ pushed = {h}
    /\ status = [h \in Heads |-> "none"]
    /\ gateRecords = [h \in Heads |-> NoRecord]
    /\ sources = [h \in Heads |-> NoRecord]
    /\ dispositions = [h \in Heads |-> NoRecord]
    /\ bound = {}
    /\ run = [r \in Reviewers |-> Idle] /\ adj = [a \in Adjudicators |-> AdjIdle]
    /\ refutedAt = {} /\ inspected = {} /\ coldAt = {} /\ edited = {}
    /\ begun = {} /\ late = {} /\ overlapped = {}
    /\ reviews = 0 /\ faults = 0

\* A push: a new commit on the branch, or (a fork in the tree) a force push.
Push(h) ==
    /\ h # head /\ (h \notin pushed \/ Rewind)
    /\ Before(h) \subseteq pushed
    /\ head' = h /\ pushed' = pushed \cup {h}
    /\ UNCHANGED <<status, stores, run, adj, history, bounds>>

Fault == faults < MaxFaults /\ faults' = faults + 1

Started(r, kind, h, carry) ==
    run' = [run EXCEPT ![r] = [Idle EXCEPT !.pc = "review", !.kind = kind, !.head = h,
                                           !.carry = carry, !.carried = carry.seeds]]

\* A run consumes carry only if review.carry is on and every provider of its pool is
\* trusted with the stores; otherwise, and when git fails on the interdiff, it runs cold.
CarryOf(h, pool, enabled) ==
    IF enabled /\ poolStoreTrust(pool) THEN resolveCarryOptions(h) ELSE NoCarry

\* The drain takes the current head, which its pass listed while the status was not
\* terminal (it may be by now), and posts `pending`.
DrainStart(r, pool, enabled) ==
    /\ run[r].pc = "idle" /\ reviews < MaxReviews
    /\ IF status[head] \in {"none", "pending"} THEN UNCHANGED faults ELSE Fault
    /\ status' = [status EXCEPT ![head] = "pending"]
    /\ Started(r, "drain", head, CarryOf(head, pool, enabled))
    /\ reviews' = reviews + 1
    /\ UNCHANGED <<head, pushed, stores, adj, history>>

\* `pr-review` reviews the head it reads from the forge, whatever its status.
CliStart(r, pool, enabled) ==
    /\ run[r].pc = "idle" /\ reviews < MaxReviews /\ Fault
    /\ Started(r, "cli", head, CarryOf(head, pool, enabled))
    /\ reviews' = reviews + 1
    /\ UNCHANGED <<forge, stores, adj, history>>

\* A queued key whose head was overtaken: prepareReviewHead refuses it, the drain takes
\* that for a crash of the gate and records a block that reviewed nothing.
DrainStale(r, h) ==
    /\ run[r].pc = "idle" /\ reviews < MaxReviews
    /\ h \in pushed \ {head} /\ status[h] \in {"none", "pending"}
    /\ status' = [status EXCEPT ![h] = "pending"]
    /\ run' = [run EXCEPT ![r] = [Idle EXCEPT !.pc = "fleet", !.kind = "drain", !.head = h,
                                              !.gate = "block", !.agreement = "invalid"]]
    /\ reviews' = reviews + 1
    /\ UNCHANGED <<head, pushed, stores, adj, history, faults>>

\* The preflight refuses (the diff cannot be read, provider diversity, the budget), or the
\* gate throws before an iteration: a block with no drafts.  A throw of the CLI's gate
\* posts without a record.
Refuse(r, throws) ==
    /\ run[r].pc = "review" /\ run[r].iteration = 0
    /\ run' = [run EXCEPT ![r] = [Idle EXCEPT !.pc = IF throws /\ run[r].kind = "cli" THEN "post" ELSE "fleet",
                                              !.kind = run[r].kind, !.head = run[r].head,
                                              !.gate = "block", !.agreement = "invalid"]]
    /\ UNCHANGED <<forge, stores, adj, history, bounds>>

\* A rate limit parks the gate in any iteration: no record is written, the drain leaves the
\* status pending, and the CLI posts red.
Park(r) ==
    /\ run[r].pc = "review"
    /\ run' = [run EXCEPT ![r] = IF run[r].kind = "cli"
                                 THEN [Idle EXCEPT !.pc = "post", !.kind = "cli",
                                                   !.head = run[r].head, !.gate = "block"]
                                 ELSE Idle]
    /\ UNCHANGED <<forge, stores, adj, history, bounds>>

\* An iteration: every cell discovers, every cell's candidates are verified, and the run
\* continues, converges or stops.  The budget is open for another iteration, or not (last),
\* or overspent (over).  A run that stops drafts its records.
Iterate(r, cells, budget) ==
    LET q == run[r]
        agreement == computePrReviewAgreement(cells)
        ok == \A c \in Cells : cells[c].ok
        valid == ok /\ budget # "over" /\ agreement \in {"consensus-pass", "consensus-block"}
        next == Folded(q, cells, valid)
        count == Cardinality(next.carried)
        continue == /\ valid /\ count > 0 /\ budget = "open"
                    /\ q.iteration + 1 < MaxPasses
                    /\ q.iteration = 0 \/ count < q.previous
    IN  /\ q.pc = "review"
        /\ \/ /\ continue
              /\ run' = [run EXCEPT ![r] = [next EXCEPT !.previous = count, !.iteration = q.iteration + 1]]
              /\ UNCHANGED history
           \/ /\ ~continue
              /\ run' = [run EXCEPT ![r] =
                    [Idle EXCEPT !.pc = "fleet", !.kind = q.kind, !.head = q.head, !.ok = ok,
                                 !.agreement = Recorded(agreement),
                                 !.gate = IF valid /\ count = 0 THEN "pass" ELSE "block",
                                 !.source = IF ok THEN buildAdjudicationSourceDraft(next, agreement) ELSE NoRecord,
                                 !.disposition = buildCarryDispositionDraft(next, ok, agreement)]]
              /\ refutedAt' = refutedAt \cup
                    {<<q.head, f>> : f \in next.refuted \ (next.carried \cup AutoRefutable(q.carry))}
              /\ inspected' = IF ~ok THEN inspected ELSE inspected \cup
                    ({q.head} \X (IF q.carry.narrowed THEN computeTouchedPaths(q.carry.prior, q.head)
                                                      ELSE Paths))
              /\ coldAt' = IF ok /\ q.carry = NoCarry THEN coldAt \cup {q.head} ELSE coldAt
              /\ UNCHANGED edited
        /\ UNCHANGED <<forge, stores, adj, bounds>>
-----------------------------------------------------------------------------
(* The evidence of a finished run: the gate record, the adjudication source, the finding   *)
(* dispositions, and only then the status.  The drain and persistLocalGateEvidence write   *)
(* in the same order; each write is best effort.                                           *)
FleetRecord(q) ==
    [producer |-> "fleet", gate |-> q.gate, ok |-> q.ok, agreement |-> q.agreement,
     survivorCount |-> IF q.disposition = NoRecord THEN 0 ELSE Cardinality(q.disposition.survived)]

At(r, pc) == run' = [run EXCEPT ![r].pc = pc]

\* Rewriting the gate record breaks every digest of the old one.
WriteFleet(r) ==
    /\ run[r].pc = "fleet"
    /\ gateRecords' = [gateRecords EXCEPT ![run[r].head] = FleetRecord(run[r])]
    /\ bound' = bound \ {<<"source", run[r].head>>, <<"disposition", run[r].head>>}
    /\ At(r, IF run[r].disposition # NoRecord THEN "source" ELSE "post")
    /\ UNCHANGED <<forge, sources, dispositions, adj, history, bounds>>

\* Without a gate record the drain gives the key back and posts nothing; the CLI posts.
WriteFleetFails(r) ==
    /\ run[r].pc = "fleet" /\ Fault
    /\ IF run[r].kind = "cli" THEN At(r, "post") ELSE run' = [run EXCEPT ![r] = Idle]
    /\ UNCHANGED <<forge, stores, adj, history, reviews>>

\* The digest is that of the file as it is when the source is written.
WriteSource(r) ==
    /\ run[r].pc = "source" /\ At(r, "disposition")
    /\ LET q == run[r]
       IN  \/ /\ q.source # NoRecord
              /\ sources' = [sources EXCEPT ![q.head] = q.source]
              /\ bound' = bound \cup {<<"source", q.head>>}
              /\ UNCHANGED faults
           \/ q.source = NoRecord /\ UNCHANGED <<sources, bound, faults>>
           \/ q.source # NoRecord /\ Fault /\ UNCHANGED <<sources, bound>>
    /\ UNCHANGED <<forge, gateRecords, dispositions, adj, history, reviews>>

WriteDisposition(r) ==
    /\ run[r].pc = "disposition" /\ At(r, "post")
    /\ LET q == run[r]
       IN  \/ /\ dispositions' = [dispositions EXCEPT ![q.head] = q.disposition]
              /\ bound' = bound \cup {<<"disposition", q.head>>}
              /\ UNCHANGED faults
           \/ Fault /\ UNCHANGED <<dispositions, bound>>
    /\ UNCHANGED <<forge, gateRecords, sources, adj, history, reviews>>

\* Mutant: the gate is posted as it is, not as a commit status.
PostGate(r) ==
    /\ run[r].pc = "post" /\ run' = [run EXCEPT ![r] = Idle]
    /\ \/ status' = [status EXCEPT ![run[r].head] = run[r].gate] /\ UNCHANGED faults
       \/ Fault /\ UNCHANGED status
    /\ UNCHANGED <<head, pushed, stores, adj, history, reviews>>

Post(r) ==
    /\ run[r].pc = "post" /\ run' = [run EXCEPT ![r] = Idle]
    /\ \/ /\ status' = [status EXCEPT ![run[r].head] = IF run[r].gate = "pass" THEN "success" ELSE "failure"]
          /\ UNCHANGED faults
       \/ Fault /\ UNCHANGED status
    /\ UNCHANGED <<head, pushed, stores, adj, history, reviews>>

\* The process of a run dies between two steps.
Crash(r) ==
    /\ run[r].pc # "idle" /\ Fault /\ run' = [run EXCEPT ![r] = Idle]
    /\ UNCHANGED <<forge, stores, adj, history, reviews>>
-----------------------------------------------------------------------------
(* pr-adjudicate: an operator turns a red gate green after a narrow fix. *)
isEligibleFleetGateRecord(record) ==
    /\ record.gate = "block" /\ record.ok
    /\ record.agreement = Recorded("disagreement")
    /\ record.survivorCount >= 1

FleetHeads == {h \in Heads : gateRecords[h] # NoRecord /\ gateRecords[h].producer = "fleet"}

\* The gate record to adjudicate: the only one of a fleet, eligible, and with a source
\* that is bound to it.
Adjudicable(a) ==
    /\ FleetHeads = {a} /\ isEligibleFleetGateRecord(gateRecords[a])
    /\ sources[a] # NoRecord /\ <<"source", a>> \in bound
    /\ sources[a].agreement = gateRecords[a].agreement
    /\ Cardinality(sources[a].survivors \cup sources[a].refuted) = gateRecords[a].survivorCount

Lines(hunk) == hunk.start..hunk.end
Extent(hunks) == MapThenSumSet(LAMBDA x : Cardinality(Lines(x)), hunks)
Added(edits) == MapThenSumSet(LAMBDA e : e.added, edits)

\* The survivors' hunks that cover an edit: every removed line lies in one of them, or the
\* anchor of an insertion does.
CoveringHunks(edit, hunks) ==
    {x \in hunks : x.path = edit.path /\
        IF edit.removed = {} THEN edit.anchor \in (x.start - 1)..x.end
                             ELSE edit.removed \cap Lines(x) # {}}
Contained(edit, hunks) ==
    LET covering == CoveringHunks(edit, hunks)
    IN  /\ edit.plain /\ covering # {}
        /\ edit.removed \subseteq UNION {Lines(x) : x \in covering}
        /\ edit.added <= Extent(covering)

\* The interdiff is a narrow fix of the survivors: text edits inside their hunks, no more
\* lines added (in one edit, or in all) than the hunks have, and every survivor's edited.
evaluateInterdiffPolicy(a, h, survivors) ==
    LET hunks == {HunkOf[f] : f \in survivors}
        edits == Interdiff[<<a, h>>]
        covering == UNION {CoveringHunks(e, hunks) : e \in edits}
    IN  /\ a \in Before(h) /\ edits # {}
        /\ \A e \in edits : Contained(e, hunks)
        /\ Added(edits) <= Extent(covering)
        /\ hunks \subseteq covering

\* Everything up to the checkout of the head: the evidence is chosen here.
AdjInspect(a, src) ==
    /\ adj[a].pc = "idle" /\ Adjudicable(src)
    /\ evaluateInterdiffPolicy(src, head, sources[src].survivors)
    /\ adj' = [adj EXCEPT ![a] = [pc |-> "inspected", head |-> head, source |-> src,
                                  survivors |-> sources[src].survivors,
                                  refuted |-> sources[src].refuted,
                                  blockers |-> IF <<"disposition", src>> \in bound
                                               THEN dispositions[src].survived ELSE {}]]
    /\ UNCHANGED <<forge, stores, run, history, bounds>>

\* Mutant: what the fleet refuted at the old head is not verified again.
LiveCheckedSurvivors(q) == q.survivors \cap Safety

\* The blockers the operator's verifier must refute at the repaired head: the safety
\* survivors, and what the fleet refuted at the old one.
LiveChecked(q) == (q.survivors \cap Safety) \cup q.refuted

\* The live verification goes on only if it refutes them all, and if the head read after it
\* is the inspected one.
AdjVerify(a) ==
    /\ adj[a].pc = "inspected" /\ head = adj[a].head
    /\ adj' = [adj EXCEPT ![a].pc = "verified"]
    /\ refutedAt' = refutedAt \cup ({adj[a].head} \X LiveChecked(adj[a]))
    /\ UNCHANGED <<forge, stores, run, inspected, coldAt, edited, bounds>>

OperatorRecord(q) ==
    [producer |-> "operator", gate |-> "pass", source |-> q.source, survivors |-> q.survivors,
     refuted |-> q.refuted]

\* The operator's record takes the place of any record of the inspected head; it stays when
\* the head read after it has moved.
AdjRecord(a) ==
    /\ adj[a].pc = "verified"
    /\ LET h == adj[a].head
       IN  /\ gateRecords' = [gateRecords EXCEPT ![h] = OperatorRecord(adj[a])]
           /\ bound' = bound \ {<<"source", h>>, <<"disposition", h>>}
           /\ adj' = [adj EXCEPT ![a] = IF head = h THEN [@ EXCEPT !.pc = "recorded"] ELSE AdjIdle]
    /\ UNCHANGED <<forge, sources, dispositions, run, history, bounds>>

AdjPost(a) ==
    /\ adj[a].pc = "recorded"
    /\ status' = [status EXCEPT ![adj[a].head] = "success"]
    /\ adj' = [adj EXCEPT ![a] = AdjIdle]
    /\ edited' = edited \cup ({adj[a].head} \X {HunkOf[f].path : f \in adj[a].survivors})
    /\ UNCHANGED <<head, pushed, stores, run, refutedAt, inspected, coldAt, bounds>>

\* Anything that fails on the way, or a head that moved, refuses.
AdjRefuse(a) ==
    /\ adj[a].pc # "idle" /\ adj' = [adj EXCEPT ![a] = AdjIdle]
    /\ UNCHANGED <<forge, stores, run, history, bounds>>
-----------------------------------------------------------------------------
CellOutcomes(q) ==
    {runVerificationPass(q, report, verdict) :
        report \in Reports[reviews] \cup {Failed}, verdict \in (SUBSET Findings) \cup {Failed}}

Reviewer(r) ==
    \/ \E pool \in Pools, enabled \in BOOLEAN : DrainStart(r, pool, enabled) \/ CliStart(r, pool, enabled)
    \/ \E h \in Heads : DrainStale(r, h)
    \/ \E throws \in BOOLEAN : Refuse(r, throws)
    \/ Park(r)
    \/ /\ run[r].pc = "review"
       /\ \E cells \in [Cells -> CellOutcomes(run[r])], budget \in {"open", "last", "over"} :
             Iterate(r, cells, budget)
    \/ WriteFleet(r) \/ WriteFleetFails(r) \/ WriteSource(r) \/ WriteDisposition(r)
    \/ Post(r) \/ Crash(r)
Adjudicator(a) ==
    \/ \E src \in Heads : AdjInspect(a, src)
    \/ AdjVerify(a) \/ AdjRecord(a) \/ AdjPost(a) \/ AdjRefuse(a)

\* The order of what happens, noted with every step.
Noted ==
    /\ begun' = begun \cup {h \in Heads : \E r \in Reviewers : run'[r].pc = "review" /\ run'[r].head = h}
    /\ late' = late \cup
          {h \in Heads : dispositions'[h] # dispositions[h] /\ \E b \in begun : h \in Before(b)}
    /\ overlapped' = overlapped \cup
          {h \in Heads : \E r, s \in Reviewers : r # s /\ run'[r].head = h /\ run'[s].head = h}

Next ==
    /\ \/ \E h \in Heads : Push(h)
       \/ \E r \in Reviewers : Reviewer(r)
       \/ \E a \in Adjudicators : Adjudicator(a)
    /\ Noted

Spec == Init /\ [][Next]_vars
-----------------------------------------------------------------------------
(* The types of all variables; a run's status and records are of commits that were pushed. *)
TypeOK ==
    /\ head \in pushed /\ pushed \subseteq Heads
    /\ status \in [Heads -> {"none", "pending", "success", "failure"}]
    /\ \A h \in Heads : status[h] # "none" \/ gateRecords[h] # NoRecord => h \in pushed
    /\ bound \subseteq {"source", "disposition"} \X Heads
    /\ \A r \in Reviewers : /\ run[r].pc \in {"idle", "review", "fleet", "source", "disposition", "post"}
                            /\ run[r].carried \subseteq Findings /\ run[r].refuted \subseteq Findings
                            /\ run[r].iteration \in 0..MaxPasses
    /\ \A a \in Adjudicators : adj[a].pc \in {"idle", "inspected", "verified", "recorded"}
    /\ refutedAt \subseteq Heads \X Findings /\ inspected \cup edited \subseteq Heads \X Paths
    /\ coldAt \cup begun \cup late \cup overlapped \subseteq Heads

\* A fleet never greens a head over a blocker that an earlier head left unanswered: when
\* its gate passes, every blocker a disposition of an ancestor holds has been refuted by a
\* verifier at some head from there on, or a later head was reviewed in full without carry.
\* An omission by a fleet that read only the interdiff, a rerun, a lost write, a record
\* that an operator or a stale key rewrote in between, gate runs at once, a force push: none
\* of them loses a blocker (selectCarrySource, planCarry, applyReviewPass), except one that
\* was written down so late that the review of a later head had begun without it.
Answered(a, f, h) ==
    \E b \in Ancestors[h] : a \in Before(b) /\ (<<b, f>> \in refutedAt \/ b \in coldAt)
BlockersAnswered ==
    \A r \in Reviewers : run[r].gate = "pass" =>
        \A a \in Before(run[r].head) \ late : dispositions[a] # NoRecord =>
            \A f \in dispositions[a].survived : Answered(a, f, run[r].head)

\* Every line of a green head was read by a complete fleet: each path the pull request
\* changes was discovered, with the very content it has there, at the head or at an
\* ancestor; under an operator's pass it may also be a path of an adjudicated survivor.
\* The narrowing base only advances on complete runs (isCompleteWatermark), and only a
\* narrow fix is adjudicated (evaluateInterdiffPolicy).
Read(p, h) == \E a \in Ancestors[h] : <<a, p>> \in inspected /\ Content[a][p] = Content[h][p]
GreenIsRead ==
    \A h \in Heads : status[h] = "success" =>
        \A p \in Changed(h) :
            Read(p, h) \/ <<h, p>> \in edited

\* A carried refutation is still about what the head holds: the blocker was refuted by a
\* verifier at an ancestor whose file is the same, its class is not safety, and no head
\* reviewed in between saw it survive, if it had said so before a later review began.
RefutationFresh ==
    \A r \in Reviewers : \A f \in AutoRefutable(run[r].carry) :
        LET s == run[r].carry.auto[f]
        IN  /\ s \in Before(run[r].head) /\ <<s, f>> \in refutedAt /\ f \notin Safety
            /\ Content[s][PathOf[f]] = Content[run[r].head][PathOf[f]]
            /\ \A b \in Before(run[r].head) \ late :
                  s \in Before(b) /\ dispositions[b] # NoRecord => f \notin dispositions[b].survived

\* An operator's pass answers every blocker of the head it adjudicates, those the fleet
\* had refuted and then kept included: each one was refuted live at the repaired head, or
\* is of the judgment tier and its hunk was edited.  Two runs of that very head at once may
\* leave the source of one beside the disposition of the other.
OperatorAnswersAll ==
    \A a \in Adjudicators : adj[a].pc = "recorded" /\ adj[a].source \notin overlapped =>
        \A f \in adj[a].blockers :
            <<adj[a].head, f>> \in refutedAt \/ (f \notin Safety /\ f \in adj[a].survivors)

\* "With more than one qualifying fleet record the selection is ambiguous and the caller
\* must REFUSE" (selectUnambiguousFleetGateRecord): an operator's record is only written
\* while one head has a fleet's.
LoneEvidence ==
    [][\A h \in Heads :
         (gateRecords'[h] # gateRecords[h] /\ gateRecords'[h].producer = "operator") =>
            Cardinality(FleetHeads) = 1]_vars
=============================================================================
