----------------------- MODULE LocalAutopilot_proofs -----------------------
(***************************************************************************)
(* The local autopilot for any commands, runs and bounds: the engine only  *)
(* appends what the fold accepts, a restart is where the driver was, only  *)
(* a verified worktree becomes ready, one request makes one run, and every *)
(* run goes through the states of lifecycle.ts.                            *)
(***************************************************************************)
EXTENDS LocalAutopilot, TLAPS

Asked == {"verification_budget", "decision_required"}

\* What the fold of any journal satisfies.
Sound(j) ==
    /\ j.bad # "refused"
    /\ j.state = "paused" <=> j.pauseReason # "none"
    /\ j.state = "completed" <=> j.disposition # "none"
    /\ j.phase = "passed" => j.evidence = TRUE
    /\ j.blocked = TRUE => j.phase = "crash" /\ j.pauseReason \notin Asked

\* The phase in which a process goes on that finds another in the journal.
Again(phase) ==
    IF phase = "refused" THEN "forced" ELSE IF phase \in {"passed", "failed"} THEN "verification" ELSE phase

\* The DriveState m is that of a running journal j, or of its resume; it hears of a
\* failed verification when a repair begins.
Knows(m, j) ==
    /\ j.state = "running" /\ j.bad = "no"
    /\ m.next = j.next /\ m.repairs = j.repairs /\ m.seq = j.seq
    /\ m.phase \in {j.phase, Again(j.phase)}
    /\ m.phase \notin {"failed", "refused"} => m.failure = j.failure

\* What one event makes of a journal.
Transits(j, k) ==
    \/ k.state = j.state /\ k.pauseReason = j.pauseReason /\ k.disposition = j.disposition
    \/ j.state = "queued" /\ k.state = "running" /\ k.pauseReason = "none" /\ k.disposition = "none"
    \/ j.state = "running" /\ k.state = "paused" /\ k.pauseReason # "none" /\ k.disposition = "none"
    \/ j.state = "running" /\ k.state = "completed" /\ k.pauseReason = "none" /\ k.disposition # "none"
    \/ j.state = "paused" /\ k.state = "running" /\ k.pauseReason = "none" /\ k.disposition = "none"
    \/ j.state = "paused" /\ k.state = "completed" /\ k.pauseReason = "none" /\ k.disposition = "cancelled"

Moves(j, k) ==
    /\ k \in Journals /\ Sound(k) /\ Transits(j, k)
    /\ k.next >= j.next /\ k.repairs >= j.repairs
    /\ k.phase \in Acts /\ j.phase = "harness" /\ j.next < Script => k.next > j.next

\* The event is accepted and moves the journal.
Takes(j, e, seq) == Accepts(j, e, seq) /\ Moves(j, Applied(j, e, seq))

-----------------------------------------------------------------------------
(* The fold: each event of the engine is accepted where it is appended.    *)

LEMMA NoRunType == NoRun \in Journals /\ Sound(NoRun) /\ NoMem \in Mems
  BY AutopilotAssumption DEF NoRun, NoMem, Journals, Mems, Sound, Phases, Acts, Asked

\* run-started begins a journal as the DriveState of startRun knows it.
LEMMA StartedTakes ==
  LET e == [type |-> "run-started"]
  IN  Takes(NoRun, e, 0) /\ Knows(NoMem, Applied(NoRun, e, 0))
<1> DEFINE e == [type |-> "run-started"]
           k == [[NoRun EXCEPT !.seq = 0] EXCEPT !.state = "running"]
<1>1. Applied(NoRun, e, 0) = k
  BY Zenon DEF Applied
<1>2. Accepts(NoRun, e, 0)
  <2>1. NoRun.state = "queued" /\ "queued" # "completed"
    BY DEF NoRun
  <2> QED
    BY <2>1, Zenon DEF Accepts
<1>3. k \in Journals
  BY NoRunType DEF Journals
<1>4. /\ k.state = "running" /\ k.pauseReason = "none" /\ k.disposition = "none"
      /\ k.phase = "harness" /\ k.next = 0 /\ k.repairs = 0
      /\ k.failure = FALSE /\ k.evidence = FALSE /\ k.blocked = FALSE
      /\ k.seq = 0 /\ k.bad = "no"
  BY DEF NoRun
<1> HIDE DEF k
<1>5. NoRun.state = "queued" /\ NoRun.next = 0 /\ NoRun.repairs = 0
  BY DEF NoRun
<1>6. Moves(NoRun, k)
  BY <1>3, <1>4, <1>5, AutopilotAssumption DEF Moves, Transits, Sound, Acts, Asked
<1>7. NoMem.phase = "harness" /\ NoMem.next = 0 /\ NoMem.repairs = 0 /\ NoMem.failure = FALSE /\ NoMem.seq = 0
  BY DEF NoMem
<1>8. Knows(NoMem, k)
  BY <1>4, <1>7 DEF Knows, Again
<1> QED
  BY <1>1, <1>2, <1>6, <1>8, Zenon DEF Takes

\* A harness action, with the cursor after it.
LEMMA ProgressTakes ==
  ASSUME NEW j \in Journals, Sound(j), NEW m \in Mems, Knows(m, j), m.phase = "harness",
         NEW act \in Acts \cup {"harness"}, NEW next \in 0..Script, next >= m.next, next > m.next \/ m.next >= Script
  PROVE  LET e == [type |-> "progress", next |-> next, act |-> act]
             n == [[m EXCEPT !.next = next, !.phase = act] EXCEPT !.seq = m.seq + 1]
         IN  Takes(j, e, m.seq + 1) /\ n \in Mems /\ Knows(n, Applied(j, e, m.seq + 1))
<1> DEFINE e == [type |-> "progress", next |-> next, act |-> act]
           k == [j EXCEPT !.seq = m.seq + 1, !.evidence = FALSE, !.next = next, !.phase = act]
           n == [[m EXCEPT !.next = next, !.phase = act] EXCEPT !.seq = m.seq + 1]
<1>1. Applied(j, e, m.seq + 1) = k
  BY Zenon DEF Applied
<1>2. Accepts(j, e, m.seq + 1)
  <2>1. j.state = "running" /\ m.seq + 1 = j.seq + 1 /\ j.phase = "harness"
    BY DEF Sound, Knows, Again, Asked
  <2> QED
    BY <2>1, Zenon DEF Accepts
<1>3. k \in Journals
  <2>1. m.seq + 1 \in Nat /\ act \in Phases
    BY AutopilotAssumption DEF Knows, Journals, Mems, Phases, Acts
  <2> QED
    BY <2>1 DEF Journals
<1>4. /\ k.state = j.state /\ k.pauseReason = j.pauseReason /\ k.disposition = j.disposition
     /\ k.phase = act /\ k.next = next /\ k.repairs = j.repairs
     /\ k.failure = j.failure /\ k.evidence = FALSE /\ k.blocked = j.blocked
     /\ k.seq = m.seq + 1 /\ k.bad = j.bad
  BY DEF Journals, Mems
<1>5. n \in Mems
  <2>1. m.seq + 1 \in Nat /\ act \in Phases
    BY AutopilotAssumption DEF Knows, Journals, Mems, Phases, Acts
  <2> QED
    BY <2>1 DEF Mems
<1>6. /\ n.phase = act /\ n.next = next /\ n.repairs = m.repairs
     /\ n.failure = m.failure /\ n.seq = m.seq + 1
  BY DEF Mems
<1> HIDE DEF k, n
<1>7. Moves(j, k)
  BY <1>3, <1>4, AutopilotAssumption DEF Moves, Transits, Sound, Refused, Knows, Again, Journals, Mems, Acts, Asked
<1>8. Knows(n, k)
  BY <1>4, <1>6 DEF Knows, Again, Sound, Refused, Asked
<1> QED
  BY <1>1, <1>2, <1>5, <1>7, <1>8, Zenon DEF Takes, n

\* The harness is done, with or without a forced failure.
LEMMA FinishedTakes ==
  ASSUME NEW j \in Journals, Sound(j), NEW m \in Mems, Knows(m, j), m.phase \in {"complete", "verify-fail"},
         NEW forced \in BOOLEAN, NEW to, to = IF forced THEN "forced" ELSE "verification"
  PROVE  LET e == [type |-> "harness-finished", forced |-> forced]
             n == [[m EXCEPT !.phase = to] EXCEPT !.seq = m.seq + 1]
         IN  Takes(j, e, m.seq + 1) /\ n \in Mems /\ Knows(n, Applied(j, e, m.seq + 1))
<1> DEFINE e == [type |-> "harness-finished", forced |-> forced]
           k == [j EXCEPT !.seq = m.seq + 1, !.evidence = FALSE, !.phase = to]
           n == [[m EXCEPT !.phase = to] EXCEPT !.seq = m.seq + 1]
<1>1. Applied(j, e, m.seq + 1) = k
  BY Zenon DEF Applied
<1>2. Accepts(j, e, m.seq + 1)
  <2>1. j.state = "running" /\ m.seq + 1 = j.seq + 1 /\ j.phase \in {"harness", "complete", "verify-fail"}
    BY DEF Sound, Knows, Again, Asked
  <2> QED
    BY <2>1, Zenon DEF Accepts
<1>3. k \in Journals
  <2>1. m.seq + 1 \in Nat /\ to \in Phases
    BY AutopilotAssumption DEF Knows, Journals, Mems, Phases, Acts
  <2> QED
    BY <2>1 DEF Journals
<1>4. /\ k.state = j.state /\ k.pauseReason = j.pauseReason /\ k.disposition = j.disposition
     /\ k.phase = to /\ k.next = j.next /\ k.repairs = j.repairs
     /\ k.failure = j.failure /\ k.evidence = FALSE /\ k.blocked = j.blocked
     /\ k.seq = m.seq + 1 /\ k.bad = j.bad
  BY DEF Journals, Mems
<1>5. n \in Mems
  <2>1. m.seq + 1 \in Nat /\ to \in Phases
    BY AutopilotAssumption DEF Knows, Journals, Mems, Phases, Acts
  <2> QED
    BY <2>1 DEF Mems
<1>6. /\ n.phase = to /\ n.next = m.next /\ n.repairs = m.repairs
     /\ n.failure = m.failure /\ n.seq = m.seq + 1
  BY DEF Mems
<1> HIDE DEF k, n
<1>7. Moves(j, k)
  BY <1>3, <1>4, AutopilotAssumption DEF Moves, Transits, Sound, Refused, Knows, Again, Journals, Mems, Acts, Asked
<1>8. Knows(n, k)
  BY <1>4, <1>6 DEF Knows, Again, Sound, Refused, Asked
<1> QED
  BY <1>1, <1>2, <1>5, <1>7, <1>8, Zenon DEF Takes, n

\* A verification result; a forced failure is never a success.
LEMMA VerifiedTakes ==
  ASSUME NEW j \in Journals, Sound(j), NEW m \in Mems, Knows(m, j), m.phase \in {"verification", "forced"},
         NEW ok \in BOOLEAN, m.phase = "forced" => ~ok,
         NEW forced \in BOOLEAN, forced <=> m.phase = "forced",
         NEW to, to = IF ok THEN "passed" ELSE IF forced THEN "refused" ELSE "failed"
  PROVE  LET e == [type |-> "verification-finished", ok |-> ok, forced |-> forced]
             n == [[m EXCEPT !.phase = to] EXCEPT !.seq = m.seq + 1]
         IN  Takes(j, e, m.seq + 1) /\ n \in Mems /\ Knows(n, Applied(j, e, m.seq + 1))
<1> DEFINE e == [type |-> "verification-finished", ok |-> ok, forced |-> forced]
           k == [j EXCEPT !.seq = m.seq + 1, !.evidence = TRUE, !.failure = @ \/ ~ok, !.phase = to]
           n == [[m EXCEPT !.phase = to] EXCEPT !.seq = m.seq + 1]
<1>1. Applied(j, e, m.seq + 1) = k
  BY Zenon DEF Applied
<1>2. Accepts(j, e, m.seq + 1)
  <2>1. j.state = "running" /\ m.seq + 1 = j.seq + 1
        /\ j.phase \in {"verification", "forced", "passed", "failed", "refused"}
        /\ (ok => j.phase \notin {"forced", "refused"} /\ ~forced)
    BY DEF Sound, Knows, Again, Asked
  <2>2. e.type = "verification-finished" /\ e.ok = ok /\ e.forced = forced
    BY Zenon
  <2> HIDE DEF e
  <2>3. e.ok => j.phase \notin {"forced", "refused"} /\ ~e.forced
    BY <2>1, <2>2
  <2> QED
    BY <2>1, <2>2, <2>3, Zenon DEF Accepts
<1>3. k \in Journals
  <2>1. m.seq + 1 \in Nat /\ to \in Phases /\ (j.failure \/ ~ok) \in BOOLEAN
    BY AutopilotAssumption DEF Knows, Journals, Mems, Phases, Acts
  <2> QED
    BY <2>1 DEF Journals
<1>4. /\ k.state = j.state /\ k.pauseReason = j.pauseReason /\ k.disposition = j.disposition
     /\ k.phase = to /\ k.next = j.next /\ k.repairs = j.repairs
     /\ k.failure = (j.failure \/ ~ok) /\ k.evidence = TRUE /\ k.blocked = j.blocked
     /\ k.seq = m.seq + 1 /\ k.bad = j.bad
  BY DEF Journals, Mems
<1>5. n \in Mems
  <2>1. m.seq + 1 \in Nat /\ to \in Phases /\ (j.failure \/ ~ok) \in BOOLEAN
    BY AutopilotAssumption DEF Knows, Journals, Mems, Phases, Acts
  <2> QED
    BY <2>1 DEF Mems
<1>6. /\ n.phase = to /\ n.next = m.next /\ n.repairs = m.repairs
     /\ n.failure = m.failure /\ n.seq = m.seq + 1
  BY DEF Mems
<1> HIDE DEF k, n
<1>7. Moves(j, k)
  BY <1>3, <1>4, AutopilotAssumption DEF Moves, Transits, Sound, Refused, Knows, Again, Journals, Mems, Acts, Asked
<1>8. Knows(n, k)
  <2>1. ok => k.failure = j.failure
    BY <1>4 DEF Journals
  <2> QED
    BY <1>4, <1>6, <2>1 DEF Knows, Again
<1> QED
  BY <1>1, <1>2, <1>5, <1>7, <1>8, Zenon DEF Takes, n

\* A repair within the budget.
LEMMA RepairTakes ==
  ASSUME NEW j \in Journals, Sound(j), NEW m \in Mems, Knows(m, j), m.phase \in {"failed", "refused"},
         m.repairs < MaxRepairs
  PROVE  LET e == [type |-> "repair-attempted"]
             n == [[m EXCEPT !.repairs = @ + 1, !.failure = TRUE, !.phase = "harness"] EXCEPT !.seq = m.seq + 1]
         IN  Takes(j, e, m.seq + 1) /\ n \in Mems /\ Knows(n, Applied(j, e, m.seq + 1))
<1> DEFINE e == [type |-> "repair-attempted"]
           k == [j EXCEPT !.seq = m.seq + 1, !.evidence = FALSE, !.repairs = @ + 1, !.phase = "harness", !.failure = TRUE]
           n == [[m EXCEPT !.repairs = @ + 1, !.failure = TRUE, !.phase = "harness"] EXCEPT !.seq = m.seq + 1]
<1>1. Applied(j, e, m.seq + 1) = k
  BY Zenon DEF Applied
<1>2. Accepts(j, e, m.seq + 1)
  <2>1. j.state = "running" /\ m.seq + 1 = j.seq + 1 /\ j.phase \in {"failed", "refused"}
    BY DEF Sound, Knows, Again, Asked
  <2> QED
    BY <2>1, Zenon DEF Accepts
<1>3. k \in Journals
  <2>1. m.seq + 1 \in Nat /\ "harness" \in Phases /\ j.repairs + 1 \in 0..MaxRepairs /\ m.repairs + 1 \in 0..MaxRepairs
    BY AutopilotAssumption DEF Knows, Journals, Mems, Phases, Acts
  <2> QED
    BY <2>1 DEF Journals
<1>4. /\ k.state = j.state /\ k.pauseReason = j.pauseReason /\ k.disposition = j.disposition
     /\ k.phase = "harness" /\ k.next = j.next /\ k.repairs = j.repairs + 1
     /\ k.failure = TRUE /\ k.evidence = FALSE /\ k.blocked = j.blocked
     /\ k.seq = m.seq + 1 /\ k.bad = j.bad
  BY DEF Journals, Mems
<1>5. n \in Mems
  <2>1. m.seq + 1 \in Nat /\ "harness" \in Phases /\ j.repairs + 1 \in 0..MaxRepairs /\ m.repairs + 1 \in 0..MaxRepairs
    BY AutopilotAssumption DEF Knows, Journals, Mems, Phases, Acts
  <2> QED
    BY <2>1 DEF Mems
<1>6. /\ n.phase = "harness" /\ n.next = m.next /\ n.repairs = m.repairs + 1
     /\ n.failure = TRUE /\ n.seq = m.seq + 1
  BY DEF Mems
<1> HIDE DEF k, n
<1>7. Moves(j, k)
  BY <1>3, <1>4, AutopilotAssumption DEF Moves, Transits, Sound, Refused, Knows, Again, Journals, Mems, Acts, Asked
<1>8. Knows(n, k)
  BY <1>4, <1>6 DEF Knows, Again, Sound, Refused, Asked
<1> QED
  BY <1>1, <1>2, <1>5, <1>7, <1>8, Zenon DEF Takes, n

\* The problem that a crashed harness leaves.
LEMMA ProblemTakes ==
  ASSUME NEW j \in Journals, Sound(j), NEW m \in Mems, Knows(m, j), m.phase = "crash"
  PROVE  LET e == [type |-> "problem"]
             n == [m EXCEPT !.seq = m.seq + 1]
         IN  Takes(j, e, m.seq + 1) /\ n \in Mems /\ Knows(n, Applied(j, e, m.seq + 1))
<1> DEFINE e == [type |-> "problem"]
           k == [j EXCEPT !.seq = m.seq + 1, !.blocked = TRUE]
           n == [m EXCEPT !.seq = m.seq + 1]
<1>1. Applied(j, e, m.seq + 1) = k
  BY Zenon DEF Applied
<1>2. Accepts(j, e, m.seq + 1)
  <2>1. j.state = "running" /\ m.seq + 1 = j.seq + 1
    BY DEF Sound, Knows, Again, Asked
  <2> QED
    BY <2>1, Zenon DEF Accepts
<1>3. k \in Journals
  <2>1. m.seq + 1 \in Nat
    BY AutopilotAssumption DEF Knows, Journals, Mems, Phases, Acts
  <2> QED
    BY <2>1 DEF Journals
<1>4. /\ k.state = j.state /\ k.pauseReason = j.pauseReason /\ k.disposition = j.disposition
     /\ k.phase = j.phase /\ k.next = j.next /\ k.repairs = j.repairs
     /\ k.failure = j.failure /\ k.evidence = j.evidence /\ k.blocked = TRUE
     /\ k.seq = m.seq + 1 /\ k.bad = j.bad
  BY DEF Journals, Mems
<1>5. n \in Mems
  <2>1. m.seq + 1 \in Nat
    BY AutopilotAssumption DEF Knows, Journals, Mems, Phases, Acts
  <2> QED
    BY <2>1 DEF Mems
<1>6. /\ n.phase = m.phase /\ n.next = m.next /\ n.repairs = m.repairs
     /\ n.failure = m.failure /\ n.seq = m.seq + 1
  BY DEF Mems
<1> HIDE DEF k, n
<1>7. Moves(j, k)
  BY <1>3, <1>4, AutopilotAssumption DEF Moves, Transits, Sound, Refused, Knows, Again, Journals, Mems, Acts, Asked
<1>8. Knows(n, k)
  BY <1>4, <1>6 DEF Knows, Again, Sound, Refused, Asked
<1> QED
  BY <1>1, <1>2, <1>5, <1>7, <1>8, Zenon DEF Takes, n

\* The checkpoint of an interrupted command.
LEMMA CheckpointedTakes ==
  ASSUME NEW j \in Journals, Sound(j), NEW m \in Mems, Knows(m, j)
  PROVE  LET e == [type |-> "checkpointed"]
             n == [m EXCEPT !.seq = m.seq + 1]
         IN  Takes(j, e, m.seq + 1) /\ n \in Mems /\ Knows(n, Applied(j, e, m.seq + 1))
<1> DEFINE e == [type |-> "checkpointed"]
           k == [j EXCEPT !.seq = m.seq + 1]
           n == [m EXCEPT !.seq = m.seq + 1]
<1>1. Applied(j, e, m.seq + 1) = k
  BY Zenon DEF Applied
<1>2. Accepts(j, e, m.seq + 1)
  <2>1. j.state = "running" /\ m.seq + 1 = j.seq + 1
    BY DEF Sound, Knows, Again, Asked
  <2> QED
    BY <2>1, Zenon DEF Accepts
<1>3. k \in Journals
  <2>1. m.seq + 1 \in Nat
    BY AutopilotAssumption DEF Knows, Journals, Mems, Phases, Acts
  <2> QED
    BY <2>1 DEF Journals
<1>4. /\ k.state = j.state /\ k.pauseReason = j.pauseReason /\ k.disposition = j.disposition
     /\ k.phase = j.phase /\ k.next = j.next /\ k.repairs = j.repairs
     /\ k.failure = j.failure /\ k.evidence = j.evidence /\ k.blocked = j.blocked
     /\ k.seq = m.seq + 1 /\ k.bad = j.bad
  BY DEF Journals, Mems
<1>5. n \in Mems
  <2>1. m.seq + 1 \in Nat
    BY AutopilotAssumption DEF Knows, Journals, Mems, Phases, Acts
  <2> QED
    BY <2>1 DEF Mems
<1>6. /\ n.phase = m.phase /\ n.next = m.next /\ n.repairs = m.repairs
     /\ n.failure = m.failure /\ n.seq = m.seq + 1
  BY DEF Mems
<1> HIDE DEF k, n
<1>7. Moves(j, k)
  BY <1>3, <1>4, AutopilotAssumption DEF Moves, Transits, Sound, Refused, Knows, Again, Journals, Mems, Acts, Asked
<1>8. Knows(n, k)
  BY <1>4, <1>6 DEF Knows, Again, Sound, Refused, Asked
<1> QED
  BY <1>1, <1>2, <1>5, <1>7, <1>8, Zenon DEF Takes, n

\* A pause; the two that ask something are at phases that were not blocked.
LEMMA PausedTakes ==
  ASSUME NEW j \in Journals, Sound(j), NEW m \in Mems, Knows(m, j),
         NEW why \in {"interrupted", "verification_budget", "decision_required"},
         why # "interrupted" => m.phase \in {"failed", "refused", "decision"}
  PROVE  LET e == [type |-> "run-paused", why |-> why]
         IN  Takes(j, e, m.seq + 1) /\ Applied(j, e, m.seq + 1).disposition = "none"
<1> DEFINE e == [type |-> "run-paused", why |-> why]
           k == [j EXCEPT !.seq = m.seq + 1, !.state = "paused", !.pauseReason = why]
<1>1. Applied(j, e, m.seq + 1) = k
  BY Zenon DEF Applied
<1>2. Accepts(j, e, m.seq + 1)
  <2>1. j.state = "running" /\ m.seq + 1 = j.seq + 1
    BY DEF Sound, Knows, Again, Asked
  <2> QED
    BY <2>1, Zenon DEF Accepts
<1>3. k \in Journals
  <2>1. m.seq + 1 \in Nat
    BY AutopilotAssumption DEF Knows, Journals, Mems, Phases, Acts
  <2> QED
    BY <2>1 DEF Journals
<1>4. /\ k.state = "paused" /\ k.pauseReason = why /\ k.disposition = j.disposition
     /\ k.phase = j.phase /\ k.next = j.next /\ k.repairs = j.repairs
     /\ k.failure = j.failure /\ k.evidence = j.evidence /\ k.blocked = j.blocked
     /\ k.seq = m.seq + 1 /\ k.bad = j.bad
  BY DEF Journals, Mems
<1> HIDE DEF k
<1>7. Moves(j, k)
  BY <1>3, <1>4, AutopilotAssumption DEF Moves, Transits, Sound, Refused, Knows, Again, Journals, Mems, Acts, Asked
<1>8. k.disposition = "none"
  BY <1>4 DEF Sound, Knows
<1> QED
  BY <1>1, <1>2, <1>7, <1>8, Zenon DEF Takes

\* A completion by the driver: ready only from a passed verification.
LEMMA CompletedTakes ==
  ASSUME NEW j \in Journals, Sound(j), NEW m \in Mems, Knows(m, j),
         NEW how \in {"ready_for_review", "failed"}, how = "ready_for_review" => m.phase = "passed"
  PROVE  LET e == [type |-> "run-completed", how |-> how]
         IN  Takes(j, e, m.seq + 1) /\ Applied(j, e, m.seq + 1).disposition = how
<1> DEFINE e == [type |-> "run-completed", how |-> how]
           k == [j EXCEPT !.seq = m.seq + 1, !.state = "completed", !.pauseReason = "none", !.disposition = how]
<1>1. Applied(j, e, m.seq + 1) = k
  BY Zenon DEF Applied
<1>2. Accepts(j, e, m.seq + 1)
  <2>1. j.state = "running" /\ m.seq + 1 = j.seq + 1
        /\ (how = "ready_for_review" => j.phase = "passed" /\ j.evidence /\ ~j.blocked)
    BY DEF Sound, Knows, Again, Asked
  <2>2. e.type = "run-completed" /\ e.how = how
    BY Zenon
  <2> HIDE DEF e
  <2> QED
    BY <2>1, <2>2, Zenon DEF Accepts
<1>3. k \in Journals
  <2>1. m.seq + 1 \in Nat
    BY AutopilotAssumption DEF Knows, Journals, Mems, Phases, Acts
  <2> QED
    BY <2>1 DEF Journals
<1>4. /\ k.state = "completed" /\ k.pauseReason = "none" /\ k.disposition = how
     /\ k.phase = j.phase /\ k.next = j.next /\ k.repairs = j.repairs
     /\ k.failure = j.failure /\ k.evidence = j.evidence /\ k.blocked = j.blocked
     /\ k.seq = m.seq + 1 /\ k.bad = j.bad
  BY DEF Journals, Mems
<1> HIDE DEF k
<1>7. Moves(j, k)
  BY <1>3, <1>4, AutopilotAssumption DEF Moves, Transits, Sound, Refused, Knows, Again, Journals, Mems, Acts, Asked
<1> QED
  BY <1>1, <1>2, <1>4, <1>7, Zenon DEF Takes

\* A cancellation of any journal that is not refused.
LEMMA CancelledTakes ==
  ASSUME NEW j \in Journals, Sound(j), ~Refused(j)
  PROVE  LET e == [type |-> "run-completed", how |-> "cancelled"]
         IN  Takes(j, e, j.seq + 1) /\ Applied(j, e, j.seq + 1).disposition = "cancelled"
<1> DEFINE e == [type |-> "run-completed", how |-> "cancelled"]
           k == [j EXCEPT !.seq = j.seq + 1, !.state = "completed", !.pauseReason = "none", !.disposition = "cancelled"]
<1>1. Applied(j, e, j.seq + 1) = k
  BY Zenon DEF Applied
<1>2. Accepts(j, e, j.seq + 1)
  <2>1. j.state \in {"running", "paused"}
    BY DEF Refused, Journals
  <2> QED
    BY <2>1, Zenon DEF Accepts
<1>3. k \in Journals
  <2>1. j.seq + 1 \in Nat
    BY AutopilotAssumption DEF Knows, Journals, Mems, Phases, Acts
  <2> QED
    BY <2>1 DEF Journals
<1>4. /\ k.state = "completed" /\ k.pauseReason = "none" /\ k.disposition = "cancelled"
     /\ k.phase = j.phase /\ k.next = j.next /\ k.repairs = j.repairs
     /\ k.failure = j.failure /\ k.evidence = j.evidence /\ k.blocked = j.blocked
     /\ k.seq = j.seq + 1 /\ k.bad = j.bad
  BY DEF Journals, Mems
<1> HIDE DEF k
<1>7. Moves(j, k)
  BY <1>3, <1>4, AutopilotAssumption DEF Moves, Transits, Sound, Refused, Journals, Mems, Acts, Asked
<1> QED
  BY <1>1, <1>2, <1>4, <1>7, Zenon DEF Takes

\* A resume of a paused journal, known as continueRun computes it.
LEMMA ResumedTakes ==
  ASSUME NEW j \in Journals, Sound(j), ~Refused(j), j.state = "paused"
  PROVE  LET e == [type |-> "run-resumed"]
             n == [Resumed(j) EXCEPT !.seq = @ + 1]
         IN  Takes(j, e, j.seq + 1) /\ n \in Mems /\ Knows(n, Applied(j, e, j.seq + 1)) /\ n.phase # "passed"
<1> DEFINE e == [type |-> "run-resumed"]
           k == [[j EXCEPT !.seq = j.seq + 1] EXCEPT !.state = "running", !.pauseReason = "none",
                       !.phase = IF [j EXCEPT !.seq = j.seq + 1].pauseReason \in Asked THEN "harness" ELSE @,
                       !.evidence = @ /\ ~([j EXCEPT !.seq = j.seq + 1].pauseReason \in Asked)]
           n == [Resumed(j) EXCEPT !.seq = @ + 1]
<1>1. Applied(j, e, j.seq + 1) = k
  BY Zenon DEF Applied, Continued, Asked
<1>2. Accepts(j, e, j.seq + 1)
  BY Zenon DEF Accepts
<1>3. k \in Journals
  <2>1. j.seq + 1 \in Nat /\ "harness" \in Phases /\ (j.evidence /\ ~(j.pauseReason \in Asked)) \in BOOLEAN
    BY DEF Journals, Phases
  <2> QED
    BY <2>1 DEF Journals
<1>4. /\ k.state = "running" /\ k.pauseReason = "none" /\ k.disposition = j.disposition
     /\ k.phase = (IF j.pauseReason \in Asked THEN "harness" ELSE j.phase) /\ k.next = j.next /\ k.repairs = j.repairs
     /\ k.failure = j.failure /\ k.evidence = (j.evidence /\ ~(j.pauseReason \in Asked)) /\ k.blocked = j.blocked
     /\ k.seq = j.seq + 1 /\ k.bad = j.bad
  BY DEF Journals, Mems
<1>5. n \in Mems
  <2>1. j.seq + 1 \in Nat /\ Resumed(j).phase \in Phases
    BY DEF Resumed, Journals, Phases
  <2> QED
    BY <2>1 DEF Mems, Journals, Resumed
<1>6. /\ n.phase = (IF j.pauseReason \in Asked THEN "harness" ELSE Again(j.phase)) /\ n.next = j.next
     /\ n.repairs = j.repairs /\ n.failure = j.failure /\ n.seq = j.seq + 1
  BY DEF Mems, Journals, Resumed, Again, Asked
<1> HIDE DEF k, n
<1>7. Moves(j, k)
  BY <1>3, <1>4, AutopilotAssumption DEF Moves, Transits, Sound, Refused, Journals, Mems, Acts, Asked
<1>8. Knows(n, k) /\ n.phase # "passed"
  BY <1>4, <1>6 DEF Knows, Again, Sound, Refused, Asked
<1> QED
  BY <1>1, <1>2, <1>5, <1>7, <1>8, Zenon DEF Takes, n

\* A journal that is still running, after a crash, is known as it is.
LEMMA StillRunning ==
  ASSUME NEW j \in Journals, Sound(j), ~Refused(j), j.state # "paused"
  PROVE  Resumed(j) \in Mems /\ Knows(Resumed(j), j) /\ Resumed(j).phase # "passed"
  BY AutopilotAssumption
     DEF Resumed, Sound, Refused, Knows, Again, Journals, Mems, Phases, Acts, Asked

-----------------------------------------------------------------------------
(* The inductive invariant.                                                *)

\* What a command holds and knows at each of its places.
ProcInv(p) ==
    /\ pc[p] # "idle" => on[p] \in Runs /\ lease[on[p]] = p
    /\ pc[p] \in {"claiming", "preparing"} => journal[on[p]] = NoRun /\ mem[p] = NoMem
    /\ pc[p] \in {"preparing", "indexing"} => claim = p
    /\ pc[p] = "indexing" => index = None
    /\ pc[p] \in {"indexing"} \cup Driving => Knows(mem[p], journal[on[p]])
    /\ pc[p] \in {"indexing", "calling", "acting"} => mem[p].phase = "harness"
    /\ pc[p] = "verifying" => mem[p].phase \in {"verification", "forced"}
    /\ pc[p] = "loop" /\ mem[p].phase = "passed" => passed[on[p]] = TRUE
    /\ pc[p] \in {"idle", "claiming"} => mem[p] = NoMem

JournalsSound == \A r \in Runs : Sound(journal[r])

\* A run that began is in the index, on its way there, or known to have been left out.
Accounted ==
    \A r \in Runs : journal[r].state # "queued" =>
        \/ r \in unindexed \/ index = r
        \/ \E p \in Procs : pc[p] = "indexing" /\ on[p] = r

\* No command drives a run in whose worktree children of a dead one may work.
OrphansAlone == \A r \in orphans : lease[r] = Orphaned

IInv == TypeOK /\ JournalsSound /\ (\A p \in Procs : ProcInv(p)) /\ Accounted /\ OrphansAlone

\* A step of p writes the locals of p alone and takes no lock that another holds.
Locals(p) ==
    /\ lease' \in [Runs -> Procs \cup {None, Orphaned}] /\ claim' \in Procs \cup {None, Orphaned}
    /\ pc' \in [Procs -> Pcs] /\ on' \in [Procs -> Runs \cup {None}] /\ aborted' \in [Procs -> BOOLEAN]
    /\ mem' \in [Procs -> Mems]
    /\ \A q \in Procs \ {p} : pc'[q] = pc[q] /\ on'[q] = on[q] /\ mem'[q] = mem[q]
    /\ \A r \in Runs : lease[r] \notin {None, p} => lease'[r] = lease[r]
    /\ claim \notin {None, p} => claim' = claim

\* It moves no journal but that of the run it holds the lease of, and makes a run ready
\* only over a worktree that passed.
Writes(p) ==
    \/ journal' = journal
    \/ /\ pc[p] # "idle"
       /\ \E k \in Journals :
            /\ Moves(journal[on[p]], k) /\ journal' = [journal EXCEPT ![on[p]] = k]
            /\ journal[on[p]].state = "queued" /\ k.state # "queued" => pc'[p] = "indexing" /\ on'[p] = on[p]
            /\ k.disposition = "ready_for_review" /\ journal[on[p]].disposition = "none" => passed[on[p]] = TRUE

\* It registers the run it has begun, and leaves no orphans without their lease.
Registers(p) ==
    /\ passed' \in [Runs -> BOOLEAN] /\ orphans' \subseteq Runs /\ unindexed' \subseteq Runs
    /\ index' \in Runs \cup {None}
    /\ commands' \in 0..MaxCommands /\ crashes' \in 0..MaxCrashes
    /\ faults' \in 0..MaxFaults /\ interrupts' \in 0..MaxInterrupts
    /\ \A r \in Runs : lease[r] # p => passed'[r] = passed[r]
    /\ index' = index \/ (index = None /\ claim = p)
    /\ unindexed \subseteq unindexed'
    /\ pc[p] = "indexing" => on[p] \in unindexed' \/ index' = on[p]
    /\ \A r \in orphans' : lease'[r] = Orphaned

\* What a step that writes only its own things may assume of the others.
LEMMA StepInv ==
  ASSUME IInv, NEW p \in Procs, Locals(p), Writes(p), Registers(p), ProcInv(p)'
  PROVE  IInv'
<1>1. journal \in [Runs -> Journals] /\ journal' \in [Runs -> Journals] /\ JournalsSound'
  <2>1. journal \in [Runs -> Journals] /\ JournalsSound
    BY DEF IInv, TypeOK, Journals
  <2>2. CASE journal' = journal
    BY <2>1, <2>2 DEF JournalsSound
  <2>3. ASSUME NEW k \in Journals, Moves(journal[on[p]], k), journal' = [journal EXCEPT ![on[p]] = k]
        PROVE  journal' \in [Runs -> Journals] /\ JournalsSound'
    BY <2>1, <2>3, Zenon DEF JournalsSound, Moves
  <2> QED
    BY <2>1, <2>2, <2>3 DEF Writes
<1>2. TypeOK'
  BY <1>1 DEF TypeOK, Locals, Registers, Journals, Mems
<1>3. ASSUME NEW q \in Procs PROVE ProcInv(q)'
  <2>1. CASE q = p
    BY <2>1
  <2>2. CASE q # p
    <3>1. ProcInv(q) /\ pc'[q] = pc[q] /\ on'[q] = on[q] /\ mem'[q] = mem[q]
      BY <2>2 DEF IInv, Locals
    <3>2. ASSUME pc[q] # "idle"
          PROVE  /\ on[q] \in Runs /\ lease[on[q]] = q /\ lease'[on[q]] = q
                 /\ journal'[on[q]] = journal[on[q]] /\ passed'[on[q]] = passed[on[q]]
      <4>1. on[q] \in Runs /\ lease[on[q]] = q /\ q \notin {None, p}
        BY <2>2, <3>1, <3>2, AutopilotAssumption DEF ProcInv
      <4>2. lease'[on[q]] = q /\ passed'[on[q]] = passed[on[q]]
        BY <4>1, <2>2 DEF Locals, Registers
      <4>3. pc[p] # "idle" => on[p] # on[q]
        BY <4>1, <2>2 DEF IInv, ProcInv
      <4>4. journal'[on[q]] = journal[on[q]]
        BY <4>1, <4>3, <1>1 DEF Writes
      <4> QED
        BY <4>1, <4>2, <4>4
    <3>3. claim = q => claim' = q /\ index' = index
      BY <2>2, AutopilotAssumption DEF Locals, Registers
    <3> QED
      BY <3>1, <3>2, <3>3 DEF ProcInv, Driving
  <2> QED
    BY <2>1, <2>2
<1>4. Accounted'
  <2> SUFFICES ASSUME NEW r \in Runs, journal'[r].state # "queued"
               PROVE  \/ r \in unindexed' \/ index' = r
                      \/ \E q \in Procs : pc'[q] = "indexing" /\ on'[q] = r
    BY DEF Accounted
  <2>1. CASE journal[r].state = "queued"
    BY <1>1, <2>1 DEF Writes
  <2>2. CASE journal[r].state # "queued"
    <3>1. index' = index \/ index = None
      BY DEF Registers
    <3>2. CASE r \in unindexed \/ index = r
      BY <3>1, <3>2, AutopilotAssumption DEF Registers
    <3>3. ASSUME NEW q \in Procs, pc[q] = "indexing", on[q] = r
          PROVE  \/ r \in unindexed' \/ index' = r
                 \/ \E q1 \in Procs : pc'[q1] = "indexing" /\ on'[q1] = r
      BY <3>3 DEF Registers, Locals
    <3> QED
      BY <2>2, <3>2, <3>3 DEF IInv, Accounted
  <2> QED
    BY <2>1, <2>2
<1>5. OrphansAlone'
  BY DEF Registers, OrphansAlone
<1> QED
  BY <1>1, <1>2, <1>3, <1>4, <1>5 DEF IInv

-----------------------------------------------------------------------------
(* Each action is such a step.                                             *)

OwnStep(p) == Locals(p) /\ Writes(p) /\ Registers(p) /\ ProcInv(p)'

\* A command that returns knows nothing any more and holds nothing.
LEMMA Returns ==
  ASSUME IInv, NEW p \in Procs, Return(p)
  PROVE  Locals(p) /\ ProcInv(p)' /\ (\A r \in orphans : lease'[r] = Orphaned)
<1>1. Locals(p)
  BY NoRunType DEF IInv, TypeOK, Return, Goto, Locals, Pcs, Mems
<1>2. pc'[p] = "idle" /\ mem'[p] = NoMem
  BY DEF IInv, TypeOK, Return, Goto
<1>3. ProcInv(p)'
  BY <1>2 DEF ProcInv, Driving
<1>4. \A r \in orphans : lease'[r] = Orphaned
  BY AutopilotAssumption DEF IInv, TypeOK, OrphansAlone, Return
<1> QED
  BY <1>1, <1>3, <1>4

\* What is appended where the fold takes it is applied.
LEMMA Appended ==
  ASSUME NEW r \in Runs, NEW e, NEW seq, Takes(journal[r], e, seq), Append(r, e, seq)
  PROVE  LET k == Applied(journal[r], e, seq)
         IN  k \in Journals /\ Moves(journal[r], k) /\ journal' = [journal EXCEPT ![r] = k]
<1>1. Accepts(journal[r], e, seq) /\ Moves(journal[r], Applied(journal[r], e, seq))
  BY DEF Takes
<1>2. Applied(journal[r], e, seq) \in Journals
  BY <1>1 DEF Moves
<1>3. journal' = [journal EXCEPT ![r] = Applied(journal[r], e, seq)]
  BY <1>1, Zenon DEF Append
<1> QED
  BY <1>1, <1>2, <1>3

\* A driver that appends an event and goes on.
LEMMA GoesOn ==
  ASSUME IInv, NEW p \in Procs, pc[p] \in Driving, NEW where \in {"loop", "failing", "pausing"},
         NEW e, NEW m, NEW n \in Mems, n = [m EXCEPT !.seq = mem[p].seq + 1], EmitAndGo(p, e, m, where),
         Takes(journal[on[p]], e, mem[p].seq + 1), Knows(n, Applied(journal[on[p]], e, mem[p].seq + 1)),
         passed' \in [Runs -> BOOLEAN], \A r \in Runs : lease[r] # p => passed'[r] = passed[r],
         where = "loop" /\ n.phase = "passed" => passed'[on[p]] = TRUE
  PROVE  OwnStep(p)
<1> DEFINE k == Applied(journal[on[p]], e, mem[p].seq + 1)
<1>1. /\ on[p] \in Runs /\ lease[on[p]] = p /\ Knows(mem[p], journal[on[p]])
      /\ Sound(journal[on[p]]) /\ pc[p] \notin {"idle", "indexing"}
  BY DEF IInv, ProcInv, JournalsSound, Driving
<1>2. k \in Journals /\ Moves(journal[on[p]], k) /\ journal' = [journal EXCEPT ![on[p]] = k]
  BY <1>1, Appended DEF EmitAndGo, Emit
<1> HIDE DEF k
<1>3. Locals(p) /\ pc'[p] = where /\ on' = on /\ lease' = lease /\ mem'[p] = n
  BY DEF IInv, TypeOK, EmitAndGo, Emit, Goto, Locals, Pcs, Driving, Mems
<1>4. Writes(p)
  <2>1. k.disposition = "none" /\ journal[on[p]].state = "running"
    BY <1>1, <1>2 DEF Moves, Sound, Knows, k
  <2> QED
    BY <1>1, <1>2, <2>1 DEF Writes
<1>5. Registers(p)
  BY <1>1 DEF IInv, TypeOK, OrphansAlone, EmitAndGo, Registers, bounds
<1>6. journal'[on[p]] = k
  BY <1>1, <1>2 DEF IInv, TypeOK
<1>7. ProcInv(p)'
  BY <1>1, <1>3, <1>6 DEF ProcInv, Driving, k
<1> QED
  BY <1>3, <1>4, <1>5, <1>7 DEF OwnStep

\* A driver that appends its last event.
LEMMA GoesHome ==
  ASSUME IInv, NEW p \in Procs, pc[p] \in Driving, NEW e, EmitAndReturn(p, e),
         Takes(journal[on[p]], e, mem[p].seq + 1),
         Applied(journal[on[p]], e, mem[p].seq + 1).disposition = "ready_for_review" => passed[on[p]] = TRUE
  PROVE  OwnStep(p)
<1> DEFINE k == Applied(journal[on[p]], e, mem[p].seq + 1)
<1>1. on[p] \in Runs /\ pc[p] \notin {"idle", "indexing"} /\ journal[on[p]].state = "running"
  BY DEF IInv, ProcInv, Driving, Knows
<1>2. k \in Journals /\ Moves(journal[on[p]], k) /\ journal' = [journal EXCEPT ![on[p]] = k]
  BY <1>1, Appended DEF EmitAndReturn
<1>3. Locals(p) /\ ProcInv(p)' /\ (\A r \in orphans : lease'[r] = Orphaned)
  BY Returns DEF EmitAndReturn
<1>4. Writes(p)
  BY <1>1, <1>2 DEF Writes
<1>5. Registers(p)
  BY <1>1, <1>3 DEF IInv, TypeOK, EmitAndReturn, Registers, bounds
<1> QED
  BY <1>3, <1>4, <1>5 DEF OwnStep

\* startRun, continueRun and cancelRun: the lease was free.
LEMMA CommandSteps ==
  ASSUME IInv, NEW p \in Procs, startRun(p) \/ continueRun(p) \/ cancelRun(p)
  PROVE  OwnStep(p)
<1>1. PICK r \in Runs, first \in {"claiming", "resuming", "cancelling"} :
        Command(p, r, first) /\ (first = "claiming" => journal[r] = NoRun)
  BY Zenon DEF startRun, continueRun, cancelRun
<1>2. ProcInv(p) /\ pc[p] = "idle" /\ mem[p] = NoMem /\ lease[r] = None
  BY <1>1 DEF IInv, Command, ProcInv
<1>3. Locals(p) /\ pc'[p] = first /\ on'[p] = r /\ lease'[r] = p /\ mem' = mem
  BY <1>1, AutopilotAssumption DEF IInv, TypeOK, Command, Goto, Locals, Pcs, Driving, Mems
<1>4. ProcInv(p)'
  BY <1>1, <1>2, <1>3 DEF Command, ProcInv, Driving
<1>5. Registers(p)
  BY <1>1, <1>2, AutopilotAssumption DEF IInv, TypeOK, OrphansAlone, Command, Registers
<1> QED
  BY <1>1, <1>3, <1>4, <1>5 DEF OwnStep, Writes, Command

\* The start: the request lock, then the index that it protects, then the journal.
LEMMA ClaimSteps ==
  ASSUME IInv, NEW p \in Procs, Claim(p)
  PROVE  OwnStep(p)
<1>1. pc[p] = "claiming" /\ journal' = journal
  BY DEF Claim
<1>2. CASE claim = None /\ claim' = p /\ Goto(p, "preparing") /\ UNCHANGED <<lease, on, mem, aborted>>
  <2>1. Locals(p) /\ pc'[p] = "preparing"
    BY <1>2 DEF IInv, TypeOK, Goto, Locals, Pcs, Mems
  <2>2. ProcInv(p)'
    BY <1>1, <1>2, <2>1 DEF IInv, ProcInv, Driving
  <2>3. Registers(p)
    BY <1>1, <1>2 DEF IInv, TypeOK, OrphansAlone, Claim, Registers, bounds
  <2> QED
    BY <1>1, <2>1, <2>2, <2>3 DEF OwnStep, Writes
<1>3. CASE Return(p)
  <2>1. Registers(p)
    BY <1>1, <1>3, Returns DEF IInv, TypeOK, Claim, Registers, bounds
  <2> QED
    BY <1>1, <1>3, <2>1, Returns DEF OwnStep, Writes
<1> QED
  BY <1>2, <1>3 DEF Claim

LEMMA PrepareSteps ==
  ASSUME IInv, NEW p \in Procs, Prepare(p)
  PROVE  OwnStep(p)
<1>1. /\ pc[p] = "preparing" /\ on[p] \in Runs /\ lease[on[p]] = p /\ journal[on[p]] = NoRun
      /\ mem[p] = NoMem /\ claim = p
  BY DEF IInv, ProcInv, Prepare
<1>2. CASE index # None
  <2>1. Return(p) /\ journal' = journal
    BY <1>2 DEF Prepare
  <2>2. Registers(p)
    BY <1>1, <1>2, <2>1, Returns DEF IInv, TypeOK, Prepare, Registers, bounds
  <2> QED
    BY <2>1, <2>2, Returns DEF OwnStep, Writes
<1>3. CASE index = None
  <2> DEFINE e == [type |-> "run-started"]
             k == Applied(NoRun, e, 0)
  <2>1. Takes(NoRun, e, 0) /\ Knows(NoMem, k)
    BY StartedTakes
  <2>2. k \in Journals /\ Moves(journal[on[p]], k) /\ journal' = [journal EXCEPT ![on[p]] = k]
    BY <1>1, <1>3, <2>1, Appended DEF Prepare
  <2> HIDE DEF k
  <2>3. k.disposition = "none"
    BY <2>1, <2>2 DEF Moves, Sound, Knows, Journals
  <2>4. Locals(p) /\ pc'[p] = "indexing" /\ on' = on /\ lease' = lease /\ mem' = mem /\ claim' = claim
    BY <1>3 DEF IInv, TypeOK, Prepare, Goto, Locals, Pcs, Mems
  <2>5. Writes(p)
    BY <1>1, <2>2, <2>3, <2>4 DEF Writes
  <2>6. Registers(p)
    BY <1>1, <1>3, <2>4 DEF IInv, TypeOK, OrphansAlone, Prepare, Registers, bounds
  <2>7. journal'[on[p]] = k /\ index' = None
    BY <1>1, <1>3, <2>2 DEF IInv, TypeOK, Prepare
  <2>8. ProcInv(p)'
    BY <1>1, <2>1, <2>4, <2>7 DEF ProcInv, Driving, NoMem
  <2> QED
    BY <2>4, <2>5, <2>6, <2>8 DEF OwnStep
<1> QED
  BY <1>2, <1>3

LEMMA IndexSteps ==
  ASSUME IInv, NEW p \in Procs, Index(p)
  PROVE  OwnStep(p)
<1>1. /\ pc[p] = "indexing" /\ on[p] \in Runs /\ lease[on[p]] = p /\ index = None
      /\ claim = p /\ Knows(mem[p], journal[on[p]]) /\ journal' = journal
  BY DEF IInv, ProcInv, Index
<1>2. mem[p].phase # "passed"
  BY <1>1 DEF IInv, ProcInv
<1>3. Locals(p) /\ pc'[p] = "loop" /\ on' = on /\ lease' = lease /\ mem' = mem
  BY <1>1 DEF IInv, TypeOK, Index, Goto, Locals, Pcs, Driving, Mems
<1>4. Registers(p)
  BY <1>1, <1>3 DEF IInv, TypeOK, OrphansAlone, Index, Registers, bounds
<1>5. ProcInv(p)'
  BY <1>1, <1>2, <1>3 DEF ProcInv, Driving
<1> QED
  BY <1>1, <1>3, <1>4, <1>5 DEF OwnStep, Writes

\* continueRun takes the state that the journal tells; cancelRun ends the run in it.
LEMMA ResumeSteps ==
  ASSUME IInv, NEW p \in Procs, Resume(p)
  PROVE  OwnStep(p)
<1> DEFINE j == journal[on[p]]
<1>1. pc[p] = "resuming" /\ on[p] \in Runs /\ lease[on[p]] = p /\ j \in Journals /\ Sound(j)
  BY DEF IInv, TypeOK, JournalsSound, Journals, ProcInv, Resume
<1>2. CASE Refused(j)
  <2>1. Return(p) /\ journal' = journal
    BY <1>2, Zenon DEF Resume
  <2>2. Registers(p)
    BY <1>1, <2>1, Returns DEF IInv, TypeOK, Resume, Registers, bounds
  <2> QED
    BY <2>1, <2>2, Returns DEF OwnStep, Writes
<1>3. ASSUME ~Refused(j), NEW n \in Mems, NEW k \in Journals, mem' = [mem EXCEPT ![p] = n],
             (journal' = journal /\ k = j) \/ journal' = [journal EXCEPT ![on[p]] = k],
             Moves(j, k), Knows(n, k), n.phase # "passed"
      PROVE  OwnStep(p)
  <2>1. Goto(p, "loop") /\ UNCHANGED <<lease, claim, on, aborted>>
    BY <1>3, Zenon DEF Resume
  <2>2. UNCHANGED <<passed, orphans, index, unindexed, bounds>>
    BY DEF Resume
  <2>3. Locals(p) /\ pc'[p] = "loop" /\ mem'[p] = n
    BY <1>3, <2>1 DEF IInv, TypeOK, Goto, Locals, Pcs, Driving, Mems
  <2>4. Registers(p)
    BY <1>1, <2>1, <2>2 DEF IInv, TypeOK, OrphansAlone, Registers, bounds
  <2>5. j.state # "queued" /\ k.disposition = "none"
    BY <1>1, <1>3 DEF Refused, Moves, Sound, Knows
  <2>6. Writes(p)
    BY <1>1, <1>3, <2>5 DEF Writes
  <2>7. journal'[on[p]] = k
    BY <1>1, <1>3 DEF IInv, TypeOK
  <2>8. ProcInv(p)'
    BY <1>1, <1>3, <2>1, <2>3, <2>7 DEF ProcInv, Driving
  <2> QED
    BY <2>3, <2>4, <2>6, <2>8 DEF OwnStep
<1>4. CASE ~Refused(j) /\ j.state = "paused"
  <2> DEFINE e == [type |-> "run-resumed"]
             n == [Resumed(j) EXCEPT !.seq = @ + 1]
             k == Applied(j, e, j.seq + 1)
  <2>1. Takes(j, e, j.seq + 1) /\ n \in Mems /\ Knows(n, k) /\ n.phase # "passed"
    BY <1>1, <1>4, ResumedTakes
  <2>2. Append(on[p], e, j.seq + 1) /\ mem' = [mem EXCEPT ![p] = n]
    BY <1>4, Zenon DEF Resume
  <2>3. k \in Journals /\ Moves(j, k) /\ journal' = [journal EXCEPT ![on[p]] = k]
    BY <1>1, <2>1, <2>2, Appended
  <2> HIDE DEF n, k
  <2> QED
    BY <1>3, <1>4, <2>1, <2>2, <2>3
<1>5. CASE ~Refused(j) /\ j.state # "paused"
  <2>1. Resumed(j) \in Mems /\ Knows(Resumed(j), j) /\ Resumed(j).phase # "passed"
    BY <1>1, <1>5, StillRunning
  <2>2. mem' = [mem EXCEPT ![p] = Resumed(j)] /\ journal' = journal
    BY <1>5, Zenon DEF Resume
  <2>3. Moves(j, j)
    BY <1>1, AutopilotAssumption DEF Moves, Transits, Journals, Acts
  <2> QED
    BY <1>1, <1>3, <1>5, <2>1, <2>2, <2>3
<1> QED
  BY <1>2, <1>4, <1>5

LEMMA CancelSteps ==
  ASSUME IInv, NEW p \in Procs, Cancel(p)
  PROVE  OwnStep(p)
<1> DEFINE j == journal[on[p]]
<1>1. pc[p] = "cancelling" /\ on[p] \in Runs /\ j \in Journals /\ Sound(j) /\ Return(p)
  BY DEF IInv, TypeOK, JournalsSound, Journals, ProcInv, Cancel
<1>2. Registers(p)
  BY <1>1, Returns DEF IInv, TypeOK, Cancel, Registers, bounds
<1>3. CASE Refused(j)
  BY <1>1, <1>2, <1>3, Returns DEF Cancel, OwnStep, Writes
<1>4. CASE ~Refused(j)
  <2> DEFINE e == [type |-> "run-completed", how |-> "cancelled"]
             k == Applied(j, e, j.seq + 1)
  <2>1. Takes(j, e, j.seq + 1) /\ k.disposition = "cancelled"
    BY <1>1, <1>4, CancelledTakes
  <2>2. Append(on[p], e, j.seq + 1)
    BY <1>4, Zenon DEF Cancel
  <2>3. k \in Journals /\ Moves(j, k) /\ journal' = [journal EXCEPT ![on[p]] = k]
    BY <1>1, <2>1, <2>2, Appended
  <2> HIDE DEF k
  <2>4. Writes(p)
    BY <1>1, <1>4, <2>1, <2>3 DEF Writes, Refused
  <2> QED
    BY <1>1, <1>2, <2>4, Returns DEF OwnStep
<1> QED
  BY <1>3, <1>4

\* What a driver has in hand.
LEMMA Drives ==
  ASSUME IInv, NEW p \in Procs, pc[p] \in Driving
  PROVE  /\ ProcInv(p) /\ pc[p] \notin {"idle", "claiming", "preparing", "indexing"}
         /\ on[p] \in Runs /\ lease[on[p]] = p /\ mem[p] \in Mems
         /\ journal[on[p]] \in Journals /\ Sound(journal[on[p]]) /\ Knows(mem[p], journal[on[p]])
         /\ passed \in [Runs -> BOOLEAN]
  BY DEF IInv, TypeOK, JournalsSound, Journals, Mems, ProcInv, Driving

\* A driver that only moves on.
LEMMA WaitSteps ==
  ASSUME IInv, NEW p \in Procs, pc[p] \in Driving, NEW where \in Driving, Wait(p, where),
         where \in {"calling", "acting"} => mem[p].phase = "harness",
         where = "verifying" => mem[p].phase \in {"verification", "forced"},
         where = "loop" => mem[p].phase # "passed"
  PROVE  OwnStep(p)
<1>1. Locals(p) /\ pc'[p] = where
  BY DEF IInv, TypeOK, Wait, Goto, Locals, Pcs, Mems, disk
<1>2. Registers(p)
  BY Drives DEF IInv, TypeOK, OrphansAlone, Wait, Registers, bounds, disk
<1>3. ProcInv(p)'
  BY <1>1, Drives DEF ProcInv, Wait, Driving, disk
<1> QED
  BY <1>1, <1>2, <1>3 DEF OwnStep, Writes, Wait, disk

LEMMA HarnessSteps ==
  ASSUME IInv, NEW p \in Procs, CallHarness(p) \/ HarnessReturns(p)
  PROVE  OwnStep(p)
<1>1. pc[p] \in Driving
  BY DEF CallHarness, At, HarnessReturns, Driving
<1>2. CASE CallHarness(p)
  BY <1>1, <1>2, WaitSteps DEF CallHarness, At, Driving
<1>3. CASE HarnessReturns(p)
  <2>1. Locals(p) /\ pc'[p] \in {"loop", "acting"} /\ mem' = mem /\ on' = on /\ lease' = lease /\ journal' = journal
    BY <1>3 DEF IInv, TypeOK, HarnessReturns, Goto, Locals, Pcs, Driving, Mems
  <2>2. Registers(p)
    BY <1>1, <1>3, Drives DEF IInv, TypeOK, OrphansAlone, HarnessReturns, Registers, bounds
  <2>3. mem[p].phase = "harness"
    BY <1>1, <1>3, Drives DEF HarnessReturns, ProcInv
  <2>4. ProcInv(p)'
    BY <1>1, <2>1, <2>3, Drives DEF ProcInv, Driving
  <2> QED
    BY <2>1, <2>2, <2>4 DEF OwnStep, Writes
<1> QED
  BY <1>2, <1>3

LEMMA AcknowledgeSteps ==
  ASSUME IInv, NEW p \in Procs, Acknowledge(p)
  PROVE  OwnStep(p)
<1> USE DEF Driving
<1>1. pc[p] \in Driving
  BY DEF Acknowledge
<1>2. PICK act \in IF mem[p].next < Script THEN Acts \cup {"harness"} ELSE {"complete"} :
        LET next == IF mem[p].next < Script THEN mem[p].next + 1 ELSE mem[p].next
        IN  EmitAndGo(p, [type |-> "progress", next |-> next, act |-> act],
                      [mem[p] EXCEPT !.next = next, !.phase = act], "loop")
  BY Zenon DEF Acknowledge
<1> DEFINE next == IF mem[p].next < Script THEN mem[p].next + 1 ELSE mem[p].next
           e == [type |-> "progress", next |-> next, act |-> act]
           m == [mem[p] EXCEPT !.next = next, !.phase = act]
           n == [m EXCEPT !.seq = mem[p].seq + 1]
<1>3. act \in Acts \cup {"harness"} /\ mem[p].phase = "harness"
  BY <1>1, Drives DEF Acts, ProcInv, Acknowledge
<1>4. next \in 0..Script /\ next >= mem[p].next /\ (next > mem[p].next \/ mem[p].next >= Script)
  BY <1>1, Drives, AutopilotAssumption DEF Mems
<1> HIDE DEF next
<1>5. /\ Takes(journal[on[p]], e, mem[p].seq + 1) /\ n \in Mems
      /\ Knows(n, Applied(journal[on[p]], e, mem[p].seq + 1))
  BY <1>1, <1>3, <1>4, Drives, ProgressTakes, Zenon
<1>6. n.phase # "passed"
  BY <1>1, <1>3, Drives DEF Acts, Mems
<1>7. EmitAndGo(p, e, m, "loop") /\ passed' = passed
  BY <1>2, Zenon DEF next, Acknowledge
<1> HIDE DEF n, m, e
<1> QED
  BY <1>1, <1>5, <1>6, <1>7, Drives, GoesOn DEF n

LEMMA FinishSteps ==
  ASSUME IInv, NEW p \in Procs, FinishHarness(p)
  PROVE  OwnStep(p)
<1> DEFINE forced == mem[p].phase = "verify-fail"
           to == IF forced THEN "forced" ELSE "verification"
           e == [type |-> "harness-finished", forced |-> forced]
           m == [mem[p] EXCEPT !.phase = to]
           n == [m EXCEPT !.seq = mem[p].seq + 1]
<1>1. pc[p] \in Driving /\ mem[p].phase \in {"complete", "verify-fail"} /\ passed' = passed
  BY DEF FinishHarness, At, Driving
<1>2. EmitAndGo(p, e, m, "loop")
  BY Zenon DEF FinishHarness
<1>3. forced \in BOOLEAN
  OBVIOUS
<1>4. /\ Takes(journal[on[p]], e, mem[p].seq + 1) /\ n \in Mems
      /\ Knows(n, Applied(journal[on[p]], e, mem[p].seq + 1))
  BY <1>1, <1>3, Drives, FinishedTakes, Zenon
<1>5. n.phase # "passed"
  BY <1>1, Drives DEF Mems
<1> HIDE DEF n, m, e
<1> QED
  BY <1>1, <1>2, <1>4, <1>5, Drives, GoesOn DEF n

LEMMA VerificationSteps ==
  ASSUME IInv, NEW p \in Procs, StartVerification(p) \/ VerificationEnds(p)
  PROVE  OwnStep(p)
<1>1. pc[p] \in Driving /\ mem[p].phase \in {"verification", "forced"}
  BY DEF IInv, ProcInv, StartVerification, At, VerificationEnds, Driving
<1>2. CASE StartVerification(p)
  BY <1>1, <1>2, WaitSteps DEF StartVerification, At, Driving
<1>3. CASE VerificationEnds(p) /\ aborted[p]
  BY <1>1, <1>3, WaitSteps DEF VerificationEnds, Driving
<1>4. CASE VerificationEnds(p) /\ ~aborted[p]
  <2>1. PICK ok \in IF mem[p].phase = "forced" THEN {FALSE} ELSE BOOLEAN :
          /\ passed' = [passed EXCEPT ![on[p]] = ok]
          /\ EmitAndGo(p, [type |-> "verification-finished", ok |-> ok, forced |-> mem[p].phase = "forced"],
                       [mem[p] EXCEPT !.phase = IF ok THEN "passed" ELSE IF @ = "forced" THEN "refused" ELSE "failed"],
                       "loop")
    BY <1>4, Zenon DEF VerificationEnds
  <2> DEFINE forced == mem[p].phase = "forced"
             to == IF ok THEN "passed" ELSE IF forced THEN "refused" ELSE "failed"
             e == [type |-> "verification-finished", ok |-> ok, forced |-> forced]
             m == [mem[p] EXCEPT !.phase = to]
             n == [m EXCEPT !.seq = mem[p].seq + 1]
  <2>2. ok \in BOOLEAN /\ (mem[p].phase = "forced" => ~ok) /\ forced \in BOOLEAN
    BY <2>1
  <2>3. /\ Takes(journal[on[p]], e, mem[p].seq + 1) /\ n \in Mems
        /\ Knows(n, Applied(journal[on[p]], e, mem[p].seq + 1))
    BY <1>1, <2>2, Drives, VerifiedTakes, Zenon
  <2>4. n.phase = "passed" => ok
    BY <1>1, Drives DEF Mems
  <2>5. EmitAndGo(p, e, m, "loop") /\ passed' = [passed EXCEPT ![on[p]] = ok]
    BY <2>1, Zenon
  <2>6. /\ passed' \in [Runs -> BOOLEAN] /\ passed'[on[p]] = ok
        /\ \A r \in Runs : lease[r] # p => passed'[r] = passed[r]
    BY <1>1, <2>2, <2>5, Drives
  <2> HIDE DEF n, m, e
  <2> QED
    BY <1>1, <2>2, <2>3, <2>4, <2>5, <2>6, Drives, GoesOn DEF n
<1> QED
  BY <1>2, <1>3, <1>4

LEMMA RepairSteps ==
  ASSUME IInv, NEW p \in Procs, Repair(p)
  PROVE  OwnStep(p)
<1> DEFINE e == [type |-> "repair-attempted"]
           m == [mem[p] EXCEPT !.repairs = @ + 1, !.failure = TRUE, !.phase = "harness"]
           n == [m EXCEPT !.seq = mem[p].seq + 1]
<1>1. /\ pc[p] \in Driving /\ mem[p].phase \in {"failed", "refused"} /\ mem[p].repairs < MaxRepairs
      /\ EmitAndGo(p, e, m, "loop") /\ passed' = passed
  BY DEF Repair, At, Driving
<1>2. /\ Takes(journal[on[p]], e, mem[p].seq + 1) /\ n \in Mems
      /\ Knows(n, Applied(journal[on[p]], e, mem[p].seq + 1))
  BY <1>1, Drives, RepairTakes, Zenon
<1>3. n.phase # "passed"
  BY <1>1, Drives DEF Mems
<1> HIDE DEF n, m, e
<1> QED
  BY <1>1, <1>2, <1>3, Drives, GoesOn DEF n

\* The problem of a crashed harness, and the checkpoint of an interrupted run, each the
\* first of two events.
LEMMA NoteSteps ==
  ASSUME IInv, NEW p \in Procs, HarnessCrashed(p) \/ Checkpoint(p)
  PROVE  OwnStep(p)
<1>1. pc[p] \in Driving /\ passed' = passed
  BY DEF HarnessCrashed, Checkpoint, At, Driving
<1> DEFINE n == [mem[p] EXCEPT !.seq = mem[p].seq + 1]
<1>2. ASSUME NEW e, NEW where \in {"failing", "pausing"}, EmitAndGo(p, e, mem[p], where),
             Takes(journal[on[p]], e, mem[p].seq + 1), n \in Mems,
             Knows(n, Applied(journal[on[p]], e, mem[p].seq + 1))
      PROVE  OwnStep(p)
  BY <1>1, <1>2, Drives, GoesOn
<1>3. CASE HarnessCrashed(p)
  <2> DEFINE e == [type |-> "problem"]
  <2>1. EmitAndGo(p, e, mem[p], "failing") /\ mem[p].phase = "crash"
    BY <1>3 DEF HarnessCrashed, At
  <2>2. /\ Takes(journal[on[p]], e, mem[p].seq + 1) /\ n \in Mems
        /\ Knows(n, Applied(journal[on[p]], e, mem[p].seq + 1))
    BY <1>1, <2>1, Drives, ProblemTakes, Zenon
  <2> HIDE DEF e, n
  <2> QED
    BY <1>2, <2>1, <2>2 DEF n
<1>4. CASE Checkpoint(p)
  <2> DEFINE e == [type |-> "checkpointed"]
  <2>1. EmitAndGo(p, e, mem[p], "pausing")
    BY <1>4 DEF Checkpoint
  <2>2. /\ Takes(journal[on[p]], e, mem[p].seq + 1) /\ n \in Mems
        /\ Knows(n, Applied(journal[on[p]], e, mem[p].seq + 1))
    BY <1>1, Drives, CheckpointedTakes, Zenon
  <2> HIDE DEF e, n
  <2> QED
    BY <1>2, <2>1, <2>2 DEF n
<1> QED
  BY <1>3, <1>4

\* The last events: the pauses and the two completions.
LEMMA LastSteps ==
  ASSUME IInv, NEW p \in Procs,
         Complete(p) \/ OutOfRepairs(p) \/ AskDecision(p) \/ FailRun(p) \/ PauseInterrupted(p)
  PROVE  OwnStep(p)
<1>1. pc[p] \in Driving
  BY DEF Complete, OutOfRepairs, AskDecision, FailRun, PauseInterrupted, At, Driving
<1>2. ASSUME NEW why \in {"interrupted", "verification_budget", "decision_required"},
             why # "interrupted" => mem[p].phase \in {"failed", "refused", "decision"},
             EmitAndReturn(p, [type |-> "run-paused", why |-> why])
      PROVE  OwnStep(p)
  <2> DEFINE e == [type |-> "run-paused", why |-> why]
  <2>1. Takes(journal[on[p]], e, mem[p].seq + 1) /\ Applied(journal[on[p]], e, mem[p].seq + 1).disposition = "none"
    BY <1>1, <1>2, Drives, PausedTakes
  <2>2. EmitAndReturn(p, e)
    BY <1>2
  <2> HIDE DEF e
  <2> QED
    BY <1>1, <2>1, <2>2, GoesHome
<1>3. ASSUME NEW how \in {"ready_for_review", "failed"},
             how = "ready_for_review" => pc[p] = "loop" /\ mem[p].phase = "passed",
             EmitAndReturn(p, [type |-> "run-completed", how |-> how])
      PROVE  OwnStep(p)
  <2> DEFINE e == [type |-> "run-completed", how |-> how]
  <2>1. Takes(journal[on[p]], e, mem[p].seq + 1) /\ Applied(journal[on[p]], e, mem[p].seq + 1).disposition = how
    BY <1>1, <1>3, Drives, CompletedTakes
  <2>2. how = "ready_for_review" => passed[on[p]] = TRUE
    BY <1>1, <1>3, Drives DEF ProcInv
  <2>3. EmitAndReturn(p, e)
    BY <1>3
  <2> HIDE DEF e
  <2> QED
    BY <1>1, <2>1, <2>2, <2>3, GoesHome
<1> QED
  BY <1>2, <1>3 DEF Complete, OutOfRepairs, AskDecision, FailRun, PauseInterrupted, At

\* A command that throws, is interrupted, or is killed.
LEMMA ThrowSteps ==
  ASSUME IInv, NEW p \in Procs, Throws(p)
  PROVE  OwnStep(p)
<1>1. pc[p] # "idle" /\ on[p] \in Runs /\ Return(p) /\ journal' = journal
  BY DEF IInv, ProcInv, Throws, Driving
<1>2. Registers(p)
  BY <1>1, Returns, AutopilotAssumption DEF IInv, TypeOK, Throws, Registers
<1> QED
  BY <1>1, <1>2, Returns DEF OwnStep, Writes

LEMMA InterruptSteps ==
  ASSUME IInv, NEW p \in Procs, Interrupt(p)
  PROVE  OwnStep(p)
<1>1. Locals(p) /\ journal' = journal
  BY DEF IInv, TypeOK, Interrupt, Locals, Mems, disk
<1>2. Registers(p)
  BY AutopilotAssumption DEF IInv, TypeOK, OrphansAlone, Interrupt, Registers, disk
<1>3. ProcInv(p)'
  BY DEF IInv, Interrupt, ProcInv, disk
<1> QED
  BY <1>1, <1>2, <1>3 DEF OwnStep, Writes

LEMMA CrashSteps ==
  ASSUME IInv, NEW p \in Procs, Crash(p)
  PROVE  OwnStep(p)
<1>1. /\ pc[p] # "idle" /\ on[p] \in Runs /\ lease[on[p]] = p
      /\ journal[on[p]] \in Journals /\ Sound(journal[on[p]])
  BY DEF IInv, TypeOK, JournalsSound, Journals, ProcInv, Crash
<1>2. Locals(p) /\ pc'[p] = "idle" /\ mem'[p] = NoMem
  BY NoRunType, AutopilotAssumption DEF IInv, TypeOK, Crash, Goto, Locals, Pcs, Mems
<1>3. ProcInv(p)'
  BY <1>2 DEF ProcInv, Driving
<1>4. Writes(p)
  <2>1. CASE journal' = journal
    BY <2>1 DEF Writes
  <2>2. CASE journal' = [journal EXCEPT ![on[p]].bad = "torn"]
    <3> DEFINE j == journal[on[p]]
               k == [j EXCEPT !.bad = "torn"]
    <3>1. /\ k \in Journals /\ k.state = j.state /\ k.pauseReason = j.pauseReason
          /\ k.disposition = j.disposition /\ k.phase = j.phase /\ k.next = j.next
          /\ k.repairs = j.repairs /\ k.evidence = j.evidence /\ k.blocked = j.blocked /\ k.bad = "torn"
      BY <1>1 DEF Journals
    <3>2. Moves(j, k)
      BY <1>1, <3>1, AutopilotAssumption DEF Moves, Transits, Sound, Journals, Acts
    <3>3. journal' = [journal EXCEPT ![on[p]] = k]
      BY <2>2
    <3> QED
      BY <1>1, <3>1, <3>2, <3>3 DEF Writes
  <2> QED
    BY <2>1, <2>2 DEF Crash
<1>5. Registers(p)
  BY <1>1, AutopilotAssumption DEF IInv, TypeOK, OrphansAlone, Crash, Registers
<1> QED
  BY <1>2, <1>3, <1>4, <1>5 DEF OwnStep

\* Every step of a command.
LEMMA CommandStep ==
  ASSUME IInv, NEW p \in Procs,
         startRun(p) \/ continueRun(p) \/ cancelRun(p) \/ Engine(p) \/ Child(p)
           \/ Throws(p) \/ Interrupt(p) \/ Crash(p)
  PROVE  OwnStep(p)
<1>1. CASE Engine(p)
  <2>1. CASE Claim(p) \/ Prepare(p) \/ Index(p) \/ Resume(p) \/ Cancel(p)
    BY <2>1, ClaimSteps, PrepareSteps, IndexSteps, ResumeSteps, CancelSteps
  <2>2. CASE Drive(p)
    BY <2>2, VerificationSteps, LastSteps, RepairSteps, NoteSteps, FinishSteps, HarnessSteps, AcknowledgeSteps
       DEF Drive
  <2> QED
    BY <1>1, <2>1, <2>2 DEF Engine
<1>2. CASE Child(p)
  BY <1>2, HarnessSteps, VerificationSteps DEF Child
<1> QED
  BY <1>1, <1>2, CommandSteps, ThrowSteps, InterruptSteps, CrashSteps

\* The steps of everybody else: people, orphaned children, the operator.
OthersStep == (\E r \in Runs : Edit(r) \/ OrphanEnds(r) \/ RemoveLease(r)) \/ RemoveClaim

LEMMA OthersSteps ==
  ASSUME IInv, OthersStep
  PROVE  IInv' /\ journal' = journal
<1>1. journal' = journal /\ pc' = pc /\ on' = on /\ mem' = mem /\ index' = index /\ unindexed' = unindexed
  BY DEF OthersStep, Edit, OrphanEnds, RemoveLease, RemoveClaim
<1>2. TypeOK'
  BY DEF IInv, TypeOK, OthersStep, Edit, OrphanEnds, RemoveLease, RemoveClaim, bounds
<1>3. \A r \in Runs : lease[r] \in Procs => lease'[r] = lease[r]
  BY AutopilotAssumption DEF IInv, TypeOK, OthersStep, Edit, OrphanEnds, RemoveLease, RemoveClaim
<1>4. claim \in Procs => claim' = claim
  BY AutopilotAssumption DEF OthersStep, Edit, OrphanEnds, RemoveLease, RemoveClaim
<1>5. \A r \in Runs : lease[r] \in Procs => passed'[r] = passed[r]
  BY AutopilotAssumption DEF IInv, TypeOK, OrphansAlone, OthersStep, Edit, OrphanEnds, RemoveLease, RemoveClaim
<1>6. OrphansAlone'
  BY AutopilotAssumption DEF IInv, TypeOK, OrphansAlone, OthersStep, Edit, OrphanEnds, RemoveLease, RemoveClaim
<1>7. ASSUME NEW p \in Procs PROVE ProcInv(p)'
  <2>1. ProcInv(p)
    BY DEF IInv
  <2> QED
    BY <2>1, <1>1, <1>3, <1>4, <1>5 DEF ProcInv, Driving
<1>8. JournalsSound' /\ Accounted'
  BY <1>1 DEF IInv, JournalsSound, Accounted
<1> QED
  BY <1>1, <1>2, <1>6, <1>7, <1>8 DEF IInv

\* Every step keeps the invariant, and the journals move only as their leases and the
\* fold allow.
LEMMA Steps ==
  ASSUME IInv, [Next]_vars
  PROVE  IInv' /\ (journal' = journal \/ \E p \in Procs : Writes(p) /\ ProcInv(p))
<1>1. ASSUME NEW p \in Procs, OwnStep(p)
      PROVE  IInv' /\ Writes(p) /\ ProcInv(p)
  BY <1>1, StepInv DEF OwnStep, IInv
<1>2. CASE OthersStep
  BY <1>2, OthersSteps
<1>3. CASE UNCHANGED vars
  BY <1>3 DEF vars, IInv, TypeOK, JournalsSound, ProcInv, Accounted, OrphansAlone, Driving
<1>4. ASSUME NEW p \in Procs,
             startRun(p) \/ continueRun(p) \/ cancelRun(p) \/ Engine(p) \/ Child(p)
               \/ Throws(p) \/ Interrupt(p) \/ Crash(p)
      PROVE  OwnStep(p)
  BY <1>4, CommandStep
<1> QED
  BY <1>1, <1>2, <1>3, <1>4 DEF Next, OthersStep

LEMMA InitInv == Init => IInv
<1> SUFFICES ASSUME Init PROVE IInv
  OBVIOUS
<1>1. journal = [r \in Runs |-> NoRun] /\ NoRun.state = "queued"
  BY DEF Init, NoRun
<1>2. TypeOK
  BY NoRunType, AutopilotAssumption DEF Init, TypeOK, Pcs, Journals, Mems
<1>3. JournalsSound
  BY <1>1, NoRunType DEF JournalsSound
<1>4. \A p \in Procs : ProcInv(p)
  BY DEF Init, ProcInv, Driving
<1>5. Accounted /\ OrphansAlone
  BY <1>1 DEF Init, Accounted, OrphansAlone
<1> QED
  BY <1>2, <1>3, <1>4, <1>5 DEF IInv

-----------------------------------------------------------------------------
(* The theorems.                                                           *)

\* Every command and every journal satisfies the inductive invariant.
THEOREM Invariance == Spec => []IInv
  BY InitInv, Steps, PTL DEF Spec

\* Every command and every journal keeps its type, whatever crashes and throws.
THEOREM TypeCorrect == Spec => []TypeOK
<1>1. IInv => TypeOK
  BY DEF IInv
<1> QED
  BY <1>1, Invariance, PTL

\* The engine never appends what the fold refuses, so that only a torn record makes a
\* journal unreadable (appendRunEvent, foldRunEvents).
THEOREM JournalSafe == Spec => []JournalReadable
<1>1. IInv => JournalReadable
  BY DEF IInv, JournalsSound, Sound, JournalReadable
<1> QED
  BY <1>1, Invariance, PTL

\* Wherever a command asks the harness or verifies, its DriveState is what continueRun
\* would take from the journal: a crash loses nothing.
THEOREM RestartSafe == Spec => []RestartResumes
<1>1. IInv => RestartResumes
  <2> SUFFICES ASSUME IInv, NEW p \in Procs, pc[p] \in {"calling", "acting", "verifying"}
               PROVE  mem[p] = Resumed(journal[on[p]])
    BY DEF RestartResumes
  <2> DEFINE m == mem[p]
             j == journal[on[p]]
  <2>1. m \in Mems /\ Sound(j) /\ Knows(m, j) /\ m.phase \in {"harness", "verification", "forced"}
    BY Drives DEF ProcInv, Driving
  <2> HIDE DEF m, j
  <2>2. j.pauseReason \notin Asked
    BY <2>1 DEF Sound, Knows, Asked
  <2>3. Resumed(j) = [phase |-> m.phase, next |-> m.next, repairs |-> m.repairs,
                      failure |-> m.failure, seq |-> m.seq]
    BY <2>1, <2>2 DEF Resumed, Knows, Again, Asked
  <2>4. m = [phase |-> m.phase, next |-> m.next, repairs |-> m.repairs, failure |-> m.failure, seq |-> m.seq]
    BY <2>1 DEF Mems
  <2> QED
    BY <2>3, <2>4 DEF m, j
<1> QED
  BY <1>1, Invariance, PTL

\* Starts of one request make one run, unless the first ended between its journal and
\* the index (prepare, under the lock of the request).
THEOREM OneRunSafe == Spec => []OneRunPerRequest
<1>1. IInv => OneRunPerRequest
  <2> SUFFICES ASSUME IInv, NEW r \in Runs, NEW q \in Runs, r # q, r \notin unindexed, q \notin unindexed,
                      journal[r].state # "queued", journal[q].state # "queued"
               PROVE  FALSE
    BY DEF OneRunPerRequest
  <2>1. ASSUME NEW p1 \in Procs, NEW p2 \in Procs, pc[p1] = "indexing", pc[p2] = "indexing"
        PROVE  p1 = p2 /\ index = None
    BY <2>1 DEF IInv, ProcInv
  <2>2. None \notin Runs
    BY AutopilotAssumption
  <2> QED
    BY <2>1, <2>2 DEF IInv, Accounted
<1> QED
  BY <1>1, Invariance, PTL

\* A run becomes ready for review only over a worktree that is as its last verification
\* passed it, however many commands, edits and crashes came before.
THEOREM ReadySafe == Spec => ReadyIsVerified
<1>1. IInv /\ [Next]_vars =>
        [\A r \in Runs : journal'[r].disposition = "ready_for_review" /\ journal[r].disposition = "none"
                         => passed[r]]_vars
  <2> SUFFICES ASSUME IInv, [Next]_vars, NEW r \in Runs,
                      journal'[r].disposition = "ready_for_review", journal[r].disposition = "none"
               PROVE  passed[r] = TRUE
    OBVIOUS
  <2>1. journal' # journal
    OBVIOUS
  <2>2. PICK p \in Procs : Writes(p) /\ ProcInv(p)
    BY <2>1, Steps
  <2>3. PICK k \in Journals :
          /\ on[p] \in Runs /\ journal' = [journal EXCEPT ![on[p]] = k]
          /\ k.disposition = "ready_for_review" /\ journal[on[p]].disposition = "none" => passed[on[p]] = TRUE
    BY <2>1, <2>2 DEF Writes, ProcInv
  <2>4. r = on[p] /\ k.disposition = "ready_for_review"
    BY <2>3 DEF IInv, TypeOK
  <2> QED
    BY <2>3, <2>4
<1> QED
  BY <1>1, Invariance, PTL DEF Spec, ReadyIsVerified

\* Repairs are counted over all processes and acknowledged harness actions are not asked
\* for again.
THEOREM ProgressSafe == Spec => ProgressKept
<1>1. IInv /\ [Next]_vars =>
        [\A r \in Runs : journal'[r].next >= journal[r].next /\ journal'[r].repairs >= journal[r].repairs
                         /\ (journal'[r].phase \in Acts /\ journal[r].phase = "harness" /\ journal[r].next < Script
                               => journal'[r].next > journal[r].next)]_vars
  <2> SUFFICES ASSUME IInv, [Next]_vars, NEW r \in Runs
               PROVE  /\ journal'[r].next >= journal[r].next /\ journal'[r].repairs >= journal[r].repairs
                      /\ journal'[r].phase \in Acts /\ journal[r].phase = "harness" /\ journal[r].next < Script
                           => journal'[r].next > journal[r].next
    BY Zenon
  <2>1. CASE journal'[r] = journal[r]
    BY <2>1, AutopilotAssumption DEF IInv, TypeOK, Journals, Acts
  <2>2. CASE journal'[r] # journal[r]
    <3>1. PICK p \in Procs : Writes(p) /\ ProcInv(p)
      BY <2>2, Steps
    <3>2. PICK k \in Journals : on[p] \in Runs /\ Moves(journal[on[p]], k) /\ journal' = [journal EXCEPT ![on[p]] = k]
      BY <2>2, <3>1 DEF Writes, ProcInv
    <3>3. Moves(journal[r], journal'[r])
      BY <2>2, <3>2 DEF IInv, TypeOK
    <3> QED
      BY <3>3 DEF Moves
  <2> QED
    BY <2>1, <2>2
<1> QED
  BY <1>1, Invariance, PTL DEF Spec, ProgressKept

\* Every run goes through the transitions of lifecycle.ts and no others, each step of any
\* command being one transition of one run, or none.
THEOREM Refines == Spec => ImplementsLifecycle
<1>1. Init => Lifecycle!Init
  BY DEF Init, Lifecycle!Init, NoRun, run
<1>2. IInv /\ [Next]_vars => [Lifecycle!Next]_run
  <2> SUFFICES ASSUME IInv, [Next]_vars, journal' # journal
               PROVE  Lifecycle!Next \/ run' = run
    BY DEF run
  <2>1. PICK p \in Procs : Writes(p) /\ ProcInv(p)
    BY Steps
  <2>2. PICK s \in Runs, k \in Journals : Moves(journal[s], k) /\ journal' = [journal EXCEPT ![s] = k]
    BY <2>1 DEF Writes, ProcInv
  <2> DEFINE j == journal[s]
             image == [state |-> k.state, pauseReason |-> k.pauseReason, disposition |-> k.disposition]
  <2>3. journal \in [Runs -> Journals]
    BY DEF IInv, TypeOK, Journals
  <2>4. run' = [run EXCEPT ![s] = image]
    BY <2>2, <2>3 DEF run
  <2>5. Lifecycle!Becomes(s, k.state, k.pauseReason, k.disposition)
    BY <2>4 DEF Lifecycle!Becomes
  <2>6. run[s].state = j.state
    BY <2>2 DEF run
  <2>7. CASE k.state = j.state /\ k.pauseReason = j.pauseReason /\ k.disposition = j.disposition
    BY <2>2, <2>3, <2>4, <2>7 DEF run
  <2>8. CASE ~(k.state = j.state /\ k.pauseReason = j.pauseReason /\ k.disposition = j.disposition)
    <3>1. Transits(j, k) /\ k.pauseReason \in {"none"} \cup Lifecycle!Paused
          /\ k.disposition \in {"none"} \cup Lifecycle!Ended
      BY <2>2 DEF Moves, Journals, Lifecycle!Paused, Lifecycle!Ended
    <3>2. Lifecycle!Transition(s)
      BY <2>5, <2>6, <2>8, <3>1 DEF Transits, Lifecycle!Transition, Lifecycle!Paused, Lifecycle!Ended
    <3> QED
      BY <3>2 DEF Lifecycle!Next
  <2> QED
    BY <2>7, <2>8
<1> QED
  BY <1>1, <1>2, Invariance, PTL DEF Spec, ImplementsLifecycle, Lifecycle!Spec
=============================================================================
