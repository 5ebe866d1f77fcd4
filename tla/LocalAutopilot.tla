--------------------------- MODULE LocalAutopilot ---------------------------
(***************************************************************************)
(* local-autopilot/: runs with an append-only journal each, and the        *)
(* commands that start, resume and cancel them, any number at a time.  The *)
(* lease of a run and the lock of a request are never reclaimed; a crash   *)
(* may leave provider children at work in the worktree.  A journal is      *)
(* represented by its fold: every reader folds all events in order, so     *)
(* each is applied as it is appended, or makes the journal unreadable.     *)
(***************************************************************************)
EXTENDS Naturals

CONSTANTS Procs,       \* commands
          Runs,        \* run ids
          None,
          Orphaned,    \* a lock or lease whose holder is dead
          MaxRepairs,  \* autopilot.maxRepairs
          Script,      \* length of the adapter's script
          MaxCommands, MaxCrashes, MaxFaults, MaxInterrupts   \* bounds

ASSUME AutopilotAssumption ==
    /\ None \notin Procs \cup Runs /\ Orphaned \notin Procs /\ Orphaned # None
    /\ MaxRepairs \in Nat /\ Script \in Nat
    /\ MaxCommands \in Nat /\ MaxCrashes \in Nat /\ MaxFaults \in Nat /\ MaxInterrupts \in Nat

VARIABLES journal,    \* the fold of each run's journal
          passed,     \* whether a run's worktree is as its last verification passed it
          lease,      \* runs/<id>/lease
          orphans,    \* runs in whose worktrees children of a dead command may work
          index,      \* by-request/<requestId>: one request is made by all starts
          claim,      \* the lock of that request
          unindexed,  \* runs whose start ended between the journal and the index
          pc, on, mem, aborted,   \* of each command: place, run, DriveState, its signal
          commands, crashes, faults, interrupts

vars == <<journal, passed, lease, orphans, index, claim, unindexed, pc, on, mem, aborted, commands, crashes, faults, interrupts>>

disk == <<journal, passed, lease, orphans, index, claim, unindexed>>

bounds == <<commands, crashes, faults, interrupts>>

-----------------------------------------------------------------------------
(* foldRunEvents.                                                          *)

Acts == {"complete", "verify-fail", "decision", "crash"}

\* "forced" is a verification with forcedFailure, "failed" and "refused" are results
\* that are not ok, without and with it.
Phases == {"harness", "verification", "forced", "passed", "failed", "refused"} \cup Acts

NoRun == [state |-> "queued", pauseReason |-> "none", disposition |-> "none", phase |-> "harness",
          next |-> 0, repairs |-> 0, failure |-> FALSE, evidence |-> FALSE, blocked |-> FALSE,
          seq |-> 0, bad |-> "no"]

\* The conditions under which the fold throws, negated, for the event e numbered seq.
Accepts(j, e, seq) ==
    /\ j.state # "completed"
    /\ e.type # "run-started" => seq = j.seq + 1
    /\ CASE e.type = "run-started" -> j.state = "queued" /\ seq = 0
         [] e.type = "progress" -> j.state = "running" /\ j.phase = "harness"
         [] e.type = "harness-finished" -> j.state = "running" /\ j.phase \in {"harness", "complete", "verify-fail"}
         [] e.type = "verification-finished" ->
              /\ j.state = "running" /\ j.phase \in {"verification", "forced", "passed", "failed", "refused"}
              /\ e.ok => j.phase \notin {"forced", "refused"} /\ ~e.forced
         [] e.type = "repair-attempted" -> j.state = "running" /\ j.phase \in {"failed", "refused"}
         [] e.type = "run-resumed" -> j.state = "paused"
         [] e.type = "run-paused" -> j.state = "running"
         [] e.type = "run-completed" ->
              /\ j.state = "running" \/ (j.state = "paused" /\ e.how = "cancelled")
              /\ e.how = "ready_for_review" => j.phase = "passed" /\ j.evidence /\ ~j.blocked
         [] OTHER -> TRUE

\* Mutant: a resumed run keeps the reason of its pause.
ContinuedWithReason(j) == [j EXCEPT !.state = "running"]

\* run-resumed: an answered pause asks the harness again.
Continued(j) ==
    LET again == j.pauseReason \in {"verification_budget", "decision_required"}
    IN  [j EXCEPT !.state = "running", !.pauseReason = "none",
                  !.phase = IF again THEN "harness" ELSE @, !.evidence = @ /\ ~again]

Applied(j, e, seq) ==
    LET n == [j EXCEPT !.seq = seq]
    IN  CASE e.type = "run-started" -> [n EXCEPT !.state = "running"]
          [] e.type = "progress" -> [n EXCEPT !.evidence = FALSE, !.next = e.next, !.phase = e.act]
          [] e.type = "harness-finished" ->
               [n EXCEPT !.evidence = FALSE, !.phase = IF e.forced THEN "forced" ELSE "verification"]
          [] e.type = "verification-finished" ->
               [n EXCEPT !.evidence = TRUE, !.failure = @ \/ ~e.ok,
                         !.phase = IF e.ok THEN "passed" ELSE IF e.forced THEN "refused" ELSE "failed"]
          [] e.type = "repair-attempted" ->
               [n EXCEPT !.evidence = FALSE, !.repairs = @ + 1, !.phase = "harness", !.failure = TRUE]
          [] e.type = "run-resumed" -> Continued(n)
          [] e.type = "run-paused" -> [n EXCEPT !.state = "paused", !.pauseReason = e.why]
          [] e.type = "run-completed" -> [n EXCEPT !.state = "completed", !.pauseReason = "none", !.disposition = e.how]
          [] e.type = "problem" -> [n EXCEPT !.blocked = TRUE]
          [] OTHER -> n

\* appendRunEvent.
Append(r, e, seq) ==
    journal' = [journal EXCEPT ![r] = IF Accepts(@, e, seq) THEN Applied(@, e, seq)
                                      ELSE [@ EXCEPT !.bad = "refused"]]

-----------------------------------------------------------------------------

NoMem == [phase |-> "harness", next |-> 0, repairs |-> 0, failure |-> FALSE, seq |-> 0]

\* "loop" is the head of the loop of driveSteps, the steps after it await the adapter or
\* the verification command, or are between two appends.
Driving == {"loop", "calling", "acting", "verifying", "failing", "pausing"}

Pcs == {"idle", "claiming", "preparing", "indexing", "resuming", "cancelling"} \cup Driving

Journals == [state : {"queued", "running", "paused", "completed"},
             pauseReason : {"none", "interrupted", "verification_budget", "decision_required"},
             disposition : {"none", "ready_for_review", "failed", "cancelled"},
             phase : Phases, next : 0..Script, repairs : 0..MaxRepairs,
             failure : BOOLEAN, evidence : BOOLEAN, blocked : BOOLEAN,
             seq : Nat, bad : {"no", "refused", "torn"}]

Mems == [phase : Phases, next : 0..Script, repairs : 0..MaxRepairs, failure : BOOLEAN, seq : Nat]

TypeOK ==
    /\ journal \in [Runs -> Journals]
    /\ passed \in [Runs -> BOOLEAN]
    /\ lease \in [Runs -> Procs \cup {None, Orphaned}]
    /\ orphans \subseteq Runs /\ unindexed \subseteq Runs
    /\ index \in Runs \cup {None} /\ claim \in Procs \cup {None, Orphaned}
    /\ pc \in [Procs -> Pcs] /\ on \in [Procs -> Runs \cup {None}] /\ aborted \in [Procs -> BOOLEAN]
    /\ mem \in [Procs -> Mems]
    /\ commands \in 0..MaxCommands /\ crashes \in 0..MaxCrashes
    /\ faults \in 0..MaxFaults /\ interrupts \in 0..MaxInterrupts

Init ==
    /\ journal = [r \in Runs |-> NoRun] /\ passed = [r \in Runs |-> FALSE]
    /\ lease = [r \in Runs |-> None] /\ orphans = {} /\ unindexed = {}
    /\ index = None /\ claim = None
    /\ pc = [p \in Procs |-> "idle"] /\ on = [p \in Procs |-> None]
    /\ mem = [p \in Procs |-> NoMem] /\ aborted = [p \in Procs |-> FALSE]
    /\ commands = 0 /\ crashes = 0 /\ faults = 0 /\ interrupts = 0

Goto(p, where) == pc' = [pc EXCEPT ![p] = where]

\* The command returns, or throws, and with it its locks are released.
Return(p) ==
    /\ Goto(p, "idle")
    /\ lease' = [r \in Runs |-> IF lease[r] = p THEN None ELSE lease[r]]
    /\ claim' = IF claim = p THEN None ELSE claim
    /\ on' = [on EXCEPT ![p] = None] /\ mem' = [mem EXCEPT ![p] = NoMem]
    /\ aborted' = [aborted EXCEPT ![p] = FALSE]

\* withRunLease: a command whose lease is taken is refused and changes nothing.
Command(p, r, first) ==
    /\ pc[p] = "idle" /\ commands < MaxCommands /\ commands' = commands + 1
    /\ lease[r] = None /\ lease' = [lease EXCEPT ![r] = p]
    /\ on' = [on EXCEPT ![p] = r] /\ Goto(p, first)
    /\ UNCHANGED <<journal, passed, orphans, index, claim, unindexed, mem, aborted, crashes, faults, interrupts>>

\* A start makes a run id that nobody has used.
startRun(p) == \E r \in Runs : journal[r] = NoRun /\ Command(p, r, "claiming")

continueRun(p) == \E r \in Runs : Command(p, r, "resuming")

cancelRun(p) == \E r \in Runs : Command(p, r, "cancelling")

-----------------------------------------------------------------------------
(* startRun.                                                               *)

\* Mutant: an expired request lock is stolen from whoever holds it.
ClaimStealing(p) ==
    /\ pc[p] = "claiming"
    /\ claim' = p /\ Goto(p, "preparing") /\ UNCHANGED <<lease, on, mem, aborted>>
    /\ UNCHANGED <<journal, passed, orphans, index, unindexed, bounds>>

\* The lock of the request is had in time, or the start fails.
Claim(p) ==
    /\ pc[p] = "claiming"
    /\ \/ claim = None /\ claim' = p /\ Goto(p, "preparing") /\ UNCHANGED <<lease, on, mem, aborted>>
       \/ claim # None /\ Return(p)
    /\ UNCHANGED <<journal, passed, orphans, index, unindexed, bounds>>

\* prepare: a request that the index knows is answered by its run; otherwise the
\* worktree is made and the journal begins.
Prepare(p) ==
    /\ pc[p] = "preparing"
    /\ IF index # None
       THEN Return(p) /\ UNCHANGED <<journal, passed>>
       ELSE /\ Append(on[p], [type |-> "run-started"], 0)
            /\ passed' = [passed EXCEPT ![on[p]] = FALSE]
            /\ Goto(p, "indexing") /\ UNCHANGED <<lease, claim, on, mem, aborted>>
    /\ UNCHANGED <<orphans, index, unindexed, bounds>>

\* The index file is created exclusively, the request lock released.
Index(p) ==
    /\ pc[p] = "indexing"
    /\ IF index = None
       THEN /\ index' = on[p] /\ claim' = (IF claim = p THEN None ELSE claim) /\ Goto(p, "loop")
            /\ UNCHANGED <<unindexed, lease, on, mem, aborted>>
       ELSE unindexed' = unindexed \cup {on[p]} /\ Return(p) /\ UNCHANGED index
    /\ UNCHANGED <<journal, passed, orphans, bounds>>

-----------------------------------------------------------------------------
(* continueRun and cancelRun.                                              *)

\* Mutant: a verification that passed before the crash is taken at its word.
ResumedTrusting(j) ==
    [phase |-> IF j.pauseReason \in {"verification_budget", "decision_required"} THEN "harness" ELSE j.phase,
     next |-> j.next, repairs |-> j.repairs, failure |-> j.failure, seq |-> j.seq]

\* Mutant: the repairs of earlier processes are not counted.
ResumedUncounted(j) ==
    [phase |-> IF j.pauseReason \in {"verification_budget", "decision_required"} THEN "harness"
               ELSE IF j.phase = "refused" THEN "forced"
               ELSE IF j.phase \in {"passed", "failed"} THEN "verification" ELSE j.phase,
     next |-> j.next, repairs |-> 0, failure |-> j.failure, seq |-> j.seq]

\* Mutant: the phase is not folded; every resume asks the harness again.
ResumedAtHarness(j) ==
    [phase |-> "harness", next |-> j.next, repairs |-> j.repairs, failure |-> j.failure, seq |-> j.seq]

\* The DriveState that continueRun takes from the folded journal: a result is verified
\* again, and an answered pause asks the harness.
Resumed(j) ==
    [phase |-> IF j.pauseReason \in {"verification_budget", "decision_required"} THEN "harness"
               ELSE IF j.phase = "refused" THEN "forced"
               ELSE IF j.phase \in {"passed", "failed"} THEN "verification" ELSE j.phase,
     next |-> j.next, repairs |-> j.repairs, failure |-> j.failure, seq |-> j.seq]

\* Such a journal is answered with its snapshot or with a problem.
Refused(j) == j.bad # "no" \/ j.state \in {"queued", "completed"}

Resume(p) ==
    /\ pc[p] = "resuming"
    /\ LET j == journal[on[p]]
       IN  IF Refused(j) THEN Return(p) /\ UNCHANGED journal
           ELSE /\ IF j.state = "paused"
                   THEN /\ Append(on[p], [type |-> "run-resumed"], j.seq + 1)
                        /\ mem' = [mem EXCEPT ![p] = [Resumed(j) EXCEPT !.seq = @ + 1]]
                   ELSE mem' = [mem EXCEPT ![p] = Resumed(j)] /\ UNCHANGED journal
                /\ Goto(p, "loop") /\ UNCHANGED <<lease, claim, on, aborted>>
    /\ UNCHANGED <<passed, orphans, index, unindexed, bounds>>

Cancel(p) ==
    /\ pc[p] = "cancelling"
    /\ LET j == journal[on[p]]
       IN  IF Refused(j) THEN UNCHANGED journal
           ELSE Append(on[p], [type |-> "run-completed", how |-> "cancelled"], j.seq + 1)
    /\ Return(p)
    /\ UNCHANGED <<passed, orphans, index, unindexed, bounds>>

-----------------------------------------------------------------------------
(* driveSteps.                                                             *)

\* emit, and what the DriveState becomes.
Emit(p, e, m) ==
    /\ Append(on[p], e, mem[p].seq + 1)
    /\ mem' = [mem EXCEPT ![p] = [m EXCEPT !.seq = mem[p].seq + 1]]

EmitAndGo(p, e, m, where) ==
    /\ Emit(p, e, m) /\ Goto(p, where)
    /\ UNCHANGED <<lease, orphans, index, claim, unindexed, on, aborted, bounds>>

\* The last event of a command.
EmitAndReturn(p, e) ==
    /\ Append(on[p], e, mem[p].seq + 1)
    /\ Return(p)
    /\ UNCHANGED <<passed, orphans, index, unindexed, bounds>>

\* Mutant: the signal is not looked at.
AtUnheeding(p, phases) == pc[p] = "loop" /\ mem[p].phase \in phases

At(p, phases) == pc[p] = "loop" /\ ~aborted[p] /\ mem[p].phase \in phases

\* Nothing of the run changes but where the command is.
Wait(p, where) == Goto(p, where) /\ UNCHANGED <<disk, on, mem, aborted, bounds>>

StartVerification(p) ==
    /\ At(p, {"verification", "forced"}) /\ Wait(p, "verifying")

\* The verification command has ended: interrupted, its result counts for nothing; a
\* forced failure never becomes a success.
VerificationEnds(p) ==
    /\ pc[p] = "verifying"
    /\ IF aborted[p] THEN Wait(p, "loop")
       ELSE \E ok \in IF mem[p].phase = "forced" THEN {FALSE} ELSE BOOLEAN :
              /\ passed' = [passed EXCEPT ![on[p]] = ok]
              /\ EmitAndGo(p, [type |-> "verification-finished", ok |-> ok, forced |-> mem[p].phase = "forced"],
                           [mem[p] EXCEPT !.phase = IF ok THEN "passed" ELSE IF @ = "forced" THEN "refused" ELSE "failed"],
                           "loop")

Complete(p) ==
    /\ At(p, {"passed"})
    /\ EmitAndReturn(p, [type |-> "run-completed", how |-> "ready_for_review"])

\* Mutant: the failure is recorded but not told to the harness.
RepairSilent(p) ==
    /\ At(p, {"failed", "refused"}) /\ mem[p].repairs < MaxRepairs
    /\ EmitAndGo(p, [type |-> "repair-attempted"],
                 [mem[p] EXCEPT !.repairs = @ + 1, !.phase = "harness"], "loop")
    /\ UNCHANGED passed

Repair(p) ==
    /\ At(p, {"failed", "refused"}) /\ mem[p].repairs < MaxRepairs
    /\ EmitAndGo(p, [type |-> "repair-attempted"],
                 [mem[p] EXCEPT !.repairs = @ + 1, !.failure = TRUE, !.phase = "harness"], "loop")
    /\ UNCHANGED passed

OutOfRepairs(p) ==
    /\ At(p, {"failed", "refused"}) /\ mem[p].repairs >= MaxRepairs
    /\ EmitAndReturn(p, [type |-> "run-paused", why |-> "verification_budget"])

AskDecision(p) ==
    /\ At(p, {"decision"})
    /\ EmitAndReturn(p, [type |-> "run-paused", why |-> "decision_required"])

\* A harness that crashed ends the run, in two events.
HarnessCrashed(p) ==
    /\ At(p, {"crash"}) /\ EmitAndGo(p, [type |-> "problem"], mem[p], "failing") /\ UNCHANGED passed

FailRun(p) ==
    /\ pc[p] = "failing" /\ EmitAndReturn(p, [type |-> "run-completed", how |-> "failed"])

FinishHarness(p) ==
    /\ At(p, {"complete", "verify-fail"})
    /\ LET forced == mem[p].phase = "verify-fail"
       IN  EmitAndGo(p, [type |-> "harness-finished", forced |-> forced],
                     [mem[p] EXCEPT !.phase = IF forced THEN "forced" ELSE "verification"], "loop")
    /\ UNCHANGED passed

CallHarness(p) == At(p, {"harness"}) /\ Wait(p, "calling")

\* adapter.next has returned, and has worked in the worktree.  Interrupted, its answer
\* counts for nothing.
HarnessReturns(p) ==
    /\ pc[p] = "calling" /\ passed' = [passed EXCEPT ![on[p]] = FALSE]
    /\ Goto(p, IF aborted[p] THEN "loop" ELSE "acting")
    /\ UNCHANGED <<journal, lease, orphans, index, claim, unindexed, on, mem, aborted, bounds>>

\* Mutant: the write is acknowledged at the cursor it was read from.
AcknowledgeLate(p) ==
    /\ pc[p] = "acting"
    /\ LET next == mem[p].next
       IN  \E act \in IF mem[p].next < Script THEN Acts \cup {"harness"} ELSE {"complete"} :
             EmitAndGo(p, [type |-> "progress", next |-> next, act |-> act],
                       [mem[p] EXCEPT !.next = next, !.phase = act], "loop")
    /\ UNCHANGED passed

\* The action is acknowledged with the cursor after it; a write, committed before, leaves
\* the phase at the harness.  Past the end of its script the adapter completes.
Acknowledge(p) ==
    /\ pc[p] = "acting"
    /\ \E act \in IF mem[p].next < Script THEN Acts \cup {"harness"} ELSE {"complete"} :
         LET next == IF mem[p].next < Script THEN mem[p].next + 1 ELSE mem[p].next
         IN  EmitAndGo(p, [type |-> "progress", next |-> next, act |-> act],
                       [mem[p] EXCEPT !.next = next, !.phase = act], "loop")
    /\ UNCHANGED passed

\* After the loop: a run that was interrupted is checkpointed and paused.
Checkpoint(p) ==
    /\ pc[p] = "loop" /\ aborted[p]
    /\ EmitAndGo(p, [type |-> "checkpointed"], mem[p], "pausing") /\ UNCHANGED passed

PauseInterrupted(p) ==
    /\ pc[p] = "pausing" /\ EmitAndReturn(p, [type |-> "run-paused", why |-> "interrupted"])

-----------------------------------------------------------------------------

\* A configuration, worktree or disk error ends the command, not the run.
Throws(p) ==
    /\ pc[p] \in {"preparing", "indexing", "resuming"} \cup Driving
    /\ faults < MaxFaults /\ faults' = faults + 1
    /\ unindexed' = unindexed \cup (IF pc[p] = "indexing" THEN {on[p]} ELSE {})
    /\ Return(p)
    /\ UNCHANGED <<journal, passed, orphans, index, commands, crashes, interrupts>>

\* SIGINT is heard where the command awaits.
Interrupt(p) ==
    /\ pc[p] \in {"claiming", "calling", "verifying"} /\ ~aborted[p]
    /\ interrupts < MaxInterrupts /\ interrupts' = interrupts + 1
    /\ aborted' = [aborted EXCEPT ![p] = TRUE]
    /\ UNCHANGED <<disk, pc, on, mem, commands, crashes, faults>>

\* The command is killed: its locks stay, its children may, and a record it was writing
\* may be torn.
Crash(p) ==
    /\ pc[p] # "idle" /\ crashes < MaxCrashes /\ crashes' = crashes + 1
    /\ lease' = [r \in Runs |-> IF lease[r] = p THEN Orphaned ELSE lease[r]]
    /\ claim' = IF claim = p THEN Orphaned ELSE claim
    /\ orphans' \in {orphans, orphans \cup (IF pc[p] \in {"calling", "verifying"} THEN {on[p]} ELSE {})}
    /\ unindexed' = unindexed \cup (IF pc[p] = "indexing" THEN {on[p]} ELSE {})
    /\ \/ UNCHANGED journal
       \/ /\ pc[p] \notin {"claiming", "indexing", "calling", "verifying"}
          /\ journal' = [journal EXCEPT ![on[p]].bad = "torn"]
    /\ Goto(p, "idle") /\ on' = [on EXCEPT ![p] = None]
    /\ mem' = [mem EXCEPT ![p] = NoMem] /\ aborted' = [aborted EXCEPT ![p] = FALSE]
    /\ UNCHANGED <<passed, index, commands, faults, interrupts>>

\* Children of a dead command and people edit the worktree of a run nobody drives.
Edit(r) ==
    /\ r \in orphans \/ lease[r] \notin Procs
    /\ passed[r] /\ passed' = [passed EXCEPT ![r] = FALSE]
    /\ UNCHANGED <<journal, lease, orphans, index, claim, unindexed, pc, on, mem, aborted, bounds>>

OrphanEnds(r) ==
    /\ r \in orphans /\ orphans' = orphans \ {r}
    /\ UNCHANGED <<journal, passed, lease, index, claim, unindexed, pc, on, mem, aborted, bounds>>

\* The operator verifies that no process of the run is left and removes its lease.
RemoveLease(r) ==
    /\ lease[r] = Orphaned /\ r \notin orphans /\ lease' = [lease EXCEPT ![r] = None]
    /\ UNCHANGED <<journal, passed, orphans, index, claim, unindexed, pc, on, mem, aborted, bounds>>

RemoveClaim ==
    /\ claim = Orphaned /\ claim' = None
    /\ UNCHANGED <<journal, passed, lease, orphans, index, unindexed, pc, on, mem, aborted, bounds>>

Drive(p) ==
    \/ StartVerification(p) \/ Complete(p) \/ Repair(p) \/ OutOfRepairs(p) \/ AskDecision(p)
    \/ HarnessCrashed(p) \/ FailRun(p) \/ FinishHarness(p) \/ CallHarness(p) \/ Acknowledge(p)
    \/ Checkpoint(p) \/ PauseInterrupted(p)

\* What the engine does by itself, and what a child process does in its own time.
Engine(p) == Claim(p) \/ Prepare(p) \/ Index(p) \/ Resume(p) \/ Cancel(p) \/ Drive(p)

Child(p) == HarnessReturns(p) \/ VerificationEnds(p)

Next ==
    \/ \E p \in Procs : startRun(p) \/ continueRun(p) \/ cancelRun(p) \/ Engine(p) \/ Child(p)
                        \/ Throws(p) \/ Interrupt(p) \/ Crash(p)
    \/ \E r \in Runs : Edit(r) \/ OrphanEnds(r) \/ RemoveLease(r)
    \/ RemoveClaim

Spec == Init /\ [][Next]_vars

\* The engine goes on; a child ends when it is interrupted, by SIGKILL if need be.
FairSpec ==
    /\ Spec
    /\ \A p \in Procs : WF_vars(Engine(p)) /\ WF_vars(aborted[p] /\ Child(p))

-----------------------------------------------------------------------------
(* Properties.                                                             *)

\* The engine never appends what the fold refuses, whatever was interrupted, killed or
\* failed before: only a torn record makes a journal unreadable.
JournalReadable == \A r \in Runs : journal[r].bad # "refused"

\* At every place from which it asks the harness or verifies, a command knows what a
\* process that resumed there would read from the journal: a crash loses nothing.
RestartResumes ==
    \A p \in Procs : pc[p] \in {"calling", "acting", "verifying"} => mem[p] = Resumed(journal[on[p]])

\* Repairs are bounded over all processes that drive a run, and acknowledged harness
\* actions are not asked for again.
ProgressKept ==
    [][\A r \in Runs : journal'[r].next >= journal[r].next /\ journal'[r].repairs >= journal[r].repairs
                       /\ (journal'[r].phase \in Acts /\ journal[r].phase = "harness" /\ journal[r].next < Script
                             => journal'[r].next > journal[r].next)]_vars

\* A run becomes ready for review only over a worktree that is as its last verification
\* passed it, whatever was edited between a crash and the resume.
ReadyIsVerified ==
    [][\A r \in Runs : journal'[r].disposition = "ready_for_review" /\ journal[r].disposition = "none" => passed[r]]_vars

\* Starts of one request make one run; a second one only if the first start ended
\* between its journal and the index.
OneRunPerRequest ==
    \A r, q \in Runs : r # q /\ journal[r].state # "queued" /\ journal[q].state # "queued"
                       => r \in unindexed \/ q \in unindexed

\* What a run's snapshot shows of its journal.
run == [r \in Runs |-> [state |-> journal[r].state, pauseReason |-> journal[r].pauseReason,
                        disposition |-> journal[r].disposition]]

Lifecycle == INSTANCE RunLifecycle

\* Whatever happens to the commands, a run goes through the states of lifecycle.ts.
ImplementsLifecycle == Lifecycle!Spec

\* An interrupted command returns, even if its provider or its verification would not.
InterruptReturns == \A p \in Procs : aborted[p] ~> pc[p] = "idle"
=============================================================================
