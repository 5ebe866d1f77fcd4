# TLA+ models of Pelaggio

Pelaggio takes items from a roadmap, drives coding agents through a pipeline for
each, ships the result as a pull request, reviews pull requests locally and
revises the red ones. This directory specifies the parts of it whose correctness
depends on the order in which things happen: the locks, the pipeline that takes one
item from its plan to its ship, the campaign, the local review drain, the cold review gate of a pull
request with the evidence it hands from head to head, the revision of red pull requests, the local autopilot, and the control-plane daemon that supervises campaigns.

The modules are translated from the TypeScript sources; `PROJECT.json` names the
lines behind every definition.

## 1. The system

| component | state | operations | talks to |
|---|---|---|---|
| cross-process file lock (`file-lock.ts`) | the lock file, grave files, a lease in the content | `withFileLock`, `tryWithFileLock`, `takeIfContent`, `stealIfStale` | every process of a checkout |
| daemon state-path lock (`state-path-lock.ts`) | `${statePath}.lock` with `pid:token` | `acquireStatePathLock`, `release` | daemon starts, the pid table |
| review request queue (`review-request-queue.ts`, `effects.ts`) | files `pending`/`claimed` per (PR, head) | enqueue, claim, unclaim, complete, reclaim | ship, review drain |
| local review drain (`orchestrator.ts`, `review-sweep.ts`) | drain lock, gate records, receipts in the cycle log | campaign-start drain, post-cycle drain | the forge, the queue, the day budget |
| campaign orchestrator (`orchestrator.ts`, `continuous.ts`) | park signal, halt and budget flags, results, the gate of continuous runs | worker loop, revise sweep, auto-resume, exit | pipelines, drain, SIGUSR2 |
| supervisor (`supervisor.ts`, `state-store.ts`, `flow-event-tailer.ts`) | run records, child handles, tailers | start, pause, resume, stop, exit, boot | child processes, HTTP requests |
| log broker (`log-broker.ts`, `routes/runs.ts`) | log file, pending text, subscribers | ingest, attach, close | child stdio, SSE clients |
| revise sweep and lease (`revise-sweep.ts`, `revise-cli.ts`) | execution lease, findings file, one-pass label | claim, lease, implement, park, resume, hand to a human | campaign, the forge |
| item pipeline and steps (`pipeline.ts`, `step-executor.ts`, `steps/`, `cycle-support.ts`) | claim branch and worktree, cycle log, spent budget | pick, plan, shakedowns, implement, ship; retry, park, checkpoint, quarantine, resume | providers, git, campaign |
| providers (`providers/`) | sessions | run a step, report a limit | park signal |
| roadmap sources and git claim (`roadmap/`) | claim branches, roadmap files | pick, claim, release | git remotes |
| ship and freshness gate (`ship/`, `steps/ship.ts`, `freshness-gate-record.ts`) | gate record, merge state, local main, PR | merge main, repair, gate, pre-flight, squash, push, PR; or merge, push main, clean up | the forge, ship and shipwreck agents |
| review loop and gate (`review/`, `steps/shakedown-code.ts`, `pr-review-gate.ts`, `pr-adjudicate-cli.ts`) | passes, carried findings, outcome; per head a gate record, an adjudication source, dispositions | seats, Judge, revision, verdict; carry, record, post, adjudicate | providers, the forge |
| decision records (`decisions.ts`) | the decision log in the branch | append, commit, look up, resolve | review, the operator |
| local autopilot (`local-autopilot/`) | append-only journal, run lease, request lock and index | start, resume, cancel, drive | file lock, harness adapters |
| run lifecycle (`run-lifecycle.ts`, worker) | event segment | append with acknowledgement | supervisor's tailer |
| registry, caches, routes (`packages/server/src`) | YAML registry, caches | HTTP handlers | the web UI |
| config, CLI, TUI, stats, notifications, confinement, web, site | files and presentation | | |

Interaction. A daemon spawns `pelaggio` processes (campaigns) as children and
follows them through signals, exit events, their stdio and the activity events
they append to disk. Workers of a campaign are async functions on one JavaScript
thread: they share the park signal and the flags of the campaign and interleave at
every `await`. Campaigns of one checkout share the drain lock, the request queue,
the cycle log and the forge. An attempt at an item is a sequence of steps in a
worktree of its own, each mostly one agent's session; between attempts only the branch
and the cycle log remain, and the next one guesses from them where to go on. All files shared by processes are protected by the
expiring file lock; the daemon's state by a lock of its own kind.

What is hard: steps of processes between two system calls of a lock; a worker's
decisions about flags read before an `await`; crashes with files half-way through
a protocol; answers of the forge that are lost; leases, time limits and
resets racing with what they guard; agents that leave edits, commits or half a
merge behind, before a checkpoint that commits what it finds; gates whose result must not be
used for another HEAD; a process that ends anywhere between squash, commit, push and pull
request; a stop racing with the exit it causes;
replay racing with new lines; evidence about one head that is used for the next, in stores that
are written one after the other.

## 2. The modules

| module | of | composed with | what it promises |
|---|---|---|---|
| `TakeIfContent` | rename-verify-restore of a lock file | instantiated by both locks | |
| `FileLock` | `withFileLock`, `tryWithFileLock` | `TakeIfContent` | exclusion outside the yank window; waiters return |
| `FileLock_proofs` | theorems of `FileLock` | `FileLock`, `TLAPS` | |
| `Server_proofs` | theorems of the daemon: `Supervisor`, `LogBroker`, `StatePathLock` | these three, `TLAPS` | |
| `StatePathLock` | one daemon per state file | `TakeIfContent` | a living daemon's claim survives |
| `ReviewDrain` | queue, drain, receipts, statuses | | a request is kept until reviewed |
| `ReviewDrain_proofs` | theorems of `ReviewDrain` | `ReviewDrain`, `TLAPS` | |
| `ReviewGate` | the cold gate over the heads of a pull request, carry, adjudication | | a green head was read and leaves no blocker unanswered |
| `ReviewGate_proofs` | theorems of `ReviewGate` | `ReviewGate`, `TLAPS` | |
| `RunRecord` | abstract: what a client may believe about a run | | |
| `Supervisor` | supervisor, store, tailers | implements `RunRecord` | stop stops; no exit is lost |
| `LogBroker` | log file, attach, live delivery | | each line once, in order |
| `Attempt` | the claim branch, the cycle log, `runStepWithRetry`, the steps up to ship | | |
| `AuthoringReview` | `runShakedownCode`, `runReviewLoop`, escalations | extends `Attempt` | no safety finding is lost |
| `PrShip` | `runShip` for pull requests, its effects | extends `Attempt` | what is pushed is gated |
| `DirectShip` | `runShip` for direct push, the bookkeeping tail | extends `Attempt` | the branch outlives delivery |
| `Cycle` | the attempts at one item | extends the three | completed is delivered; attempts end |
| `Cycle_proofs` | theorems of `Cycle` | `Cycle`, `TLAPS` | |
| `Revise` | the sweep, `revise --pr` and the resumes of a revision | abstracts `Cycle` to its ends | one pass, under a lease |
| `Revise_proofs` | theorems of `Revise` | `Revise`, `TLAPS` | |
| `RunLifecycle` | abstract: the states of a local run | | |
| `LocalAutopilot` | the engine, the journal and its fold | implements `RunLifecycle` | a restart goes on where it was |
| `LocalAutopilot_proofs` | theorems of `LocalAutopilot` | `LocalAutopilot`, `TLAPS` | |
| `Campaign` | `runOrchestrator` | abstracts `ReviewDrain` to `DrainPass` | honest exit, halts stop cycles, it ends |
| `Campaign_proofs` | theorems of `Campaign` | `Campaign`, `TLAPS` | |

Each that a run checks has an `MC...` module and configuration. `StatePathLock` and `LogBroker` name their
specifications `LockSpec` and `BrokerSpec` (`LockInit`, `BrokerNext`, ...), so that one module of theorems can
extend the three modules of the daemon. Definitions whose comment begins
with *Mutant* are variants of the operator after them with one plausible bug; they
are used by no specification, and `PROJECT.json` pairs each with a property that
tells it from the real operator.

### TakeIfContent and FileLock

`path` is the content of the lock file (or `NoFile`), `take[p]` a call of
`takeIfContent` by `p`: idle, before its `rename`, or between it and the
verification with `got`, the content, in its grave. `displaced` collects contents
whose restore found the path occupied. One action is one system call: `Rename`,
`Drop` (the grave held what was wanted), `Restore` (it did not).
A content is a record of expiry, owner and call: the code writes
`<expiresAt>:<pid>-<random>`, and the number of the call stands for the random part. `FileLock` adds the two callers: `Enter`
chooses an entry point, `reclaim` says whether `reclaimStale` is off in all callers (as it is
for local-autopilot), `Acquire`/`Blocked`/`Judge`/`SoftDeadline`/`NextTry` are the turns of the wait loop,
`Contended` is `tryWithFileLock`'s answer, `Leave` the release, `Crash` a death anywhere.
`Tick` is the clock. Bounds: `MaxNow`, `MaxCalls`, `MaxCrashes`.

### StatePathLock

Daemons are numbered in the order they are started and run under pids of a
pool smaller than their number (`StartDaemon`), so pids are recycled. `Attempt` is the exclusive
create, `Read` reads the owner and probes its pid, `Take` steps `takeIfContent`,
`Kill` is SIGKILL at any place. `MaxReclaims` is `MAX_RECLAIM_ATTEMPTS`.

### ReviewDrain

A key is one (pull request, head SHA). The disk survives crashes: `queue[k]`
(file names), `stale`, `recorded`, `ledger`. `phase[c]` is how far a campaign process is: `StartDrain` begins
`runCampaignStartDrain`, once for each process (an exhausted day budget defers it), whose rounds end in `Round`; then workers
run cycles, and after each (`BeginCycle`, `EndCycle`, which may ship and enqueue) drain again; after a park of the pool `ParkResets`
lets the campaign resume what parked. Nothing else drains: a watch that finds no work sleeps, and so does the queue. In a
drain a worker's `pc` walks through `runLocalReviewDrainOnce`: `List`, `Candidates`, then per key `Choose`,
`PostPending`, `Gate`, `Receipt`, `Record`, `Post`, `Dequeue`. `Fault` is one more failed call, and a
failed post, pending or terminal, may have been applied with its answer lost. `Crash` kills a campaign
with all its workers, `Exit` is its end, `Restart` rebuilds the day's spend from the log. The drain
lock is abstract (one holder; the lock of a dead holder is freed by
`LeaseExpires`): `FileLock` says how far the real one is from that.

### ReviewGate

Commits are heads with their `Ancestors`, and `Content` says what each path holds at each of them. The forge has the head of
the pull request, what was ever pushed and a status per head; the stores have a gate record, an adjudication source and a
disposition per head. A source and a disposition carry the digest of the gate record they were written for: `bound` has those
that still match, so that rewriting a record (`WriteFleet`, `AdjRecord`) unbinds both. `run[r]` is a gate run: what it carries
(`resolveCarryOptions`: the watermark to narrow from, the blockers to ask again, the refutations to take over), one `Iterate` per
pass over the cells, then the three writes and the status, each of which may fail. `adj[a]` is `pr-adjudicate`: `AdjInspect` selects the
evidence and judges the interdiff, `AdjVerify` has the blockers refuted live and reads the head once more; the head may move before `AdjRecord` writes, which reads it again
before `AdjPost`, and it may move between these two as well. What a model answers (a cell's report, a verifier's verdict, a failed call) is
arbitrary. `refutedAt`, `inspected`, `coldAt` and `edited` are history, which the properties refer to and no action reads, and so are
the notes of the order that `Noted` takes with every step: `begun` has the heads a review of which has begun, `late` those whose
disposition was written after a review of a head above them had begun, `overlapped` those that two runs reviewed at once.

### RunRecord and Supervisor

`RunRecord` has the status of a run and its process. `Supervisor` adds the daemon:
`children` (exit events it will hear), `tailers`, and for each `stop()` call what
it waits for (`grace`) and what it will resume with (`settled`). A handler is one
step of the event loop; the continuation of `stop()` runs as a microtask before
the loop takes another event (`Turn`). `Crash` loses everything but the store;
`Boot` reattaches, and may find a dead run's pid given to another process.

### LogBroker

Lines are numbered by their place in the file. `Attach` takes the watermark and
subscribes the client's buffer in one step, `Replay` reads one line of the file,
`Settle` delivers the queue and goes live.

### Campaign

`pc[p]` is where each flow (a worker, or the main flow) awaits. `gate` is the
mutex continuous workers take before they decide; `parked`, `reset` are the park signal
with its reset time abstracted to absent-or-past, within `--max-wait`, or beyond; `halted`,
`undurable`, `exceeded`, `deferred`, `drainComplete` are the flags of
`runOrchestrator`. A pipeline is its outcome (`CycleEnds`, `ReviseEnds`,
`ResumeEnds`) and the rate limits it meets (`RateLimited`). A drain is `DrainPass`: what
`ReviewDrain` can do to a campaign. `Init` starts each mode with or without
auto-resume, with a day budget that may be spent already.

### Attempt

`br` is the claim branch and its worktree. HEAD has no number: what the program knows of
HEAD is the set `facts` (typechecked, pre-flighted, gated, pushed, and `recorded`, which only
the process remembers) and the escalation `esc` bound to the artifact; a commit takes away what
does not hold of the new HEAD. `dirty` says what kind of edits are in the tree, `merge` whether
the freshness merge is open with unmerged paths or staged, `marked` whether conflict markers
are in the tree and `markers` who committed such markers. `bare` is a branch with nothing beyond main: after the squash's soft
reset, or once main has it. `Works` is what an agent may leave behind, `Checkpoint` the harness's commit
after it, which may fail or refuse.

`pc` is the step, or what a step awaits. `steps` and `log` keep of the steps of an attempt,
and of the item's last log entry, the one thing the code reads there: the step that `detectResumeStep`
would go on at. `runStepWithRetry(name, b, c)` is every end of a step but success: park at its head, confinement violation,
park, quarantine, failure, or another try (`try` counts attempts, `flaky` transient errors).

### AuthoringReview

The passes of the cold review: `SeatsSettle` is `Promise.all` over the seats with any mix of
answers, `Judge` any ruling or none, `Ruled` whether it ends the loop, `Revise` the author's session and checkpoint. `Admit` looks
the escalation up before a loop, `Escalate` and `Record` write and commit the record of a
split, `Decide` is what follows the notification, when the operator may have answered (`OperatorResolves`).

### PrShip

`preparePrShipFreshness` fetches and merges or finds a merge still open, `Repair` is the author's session on it,
`runFreshnessGates`, `runColdPrReviewPreflight`, `Revision` and `Retype` the gates and their one
revision, `ShipAgent` the agent that writes the decision. Each effect on the forge is an action of its own (`Squash`, `CommitSquash`,
`PushBranch`, `UpsertPr`, `AutoMerge`, `Shipped`), and may fail, or be the last one before a crash.
`ref` is the ref `origin/main` that all worktrees share: a peer's fetch moves it (`PeerFetches`).

### DirectShip and Cycle

`Merge` is the ship agent with the three things the code looks at afterwards: its outcome, its marker, and whether the sha of
main moved (`verifyShipLanded`); `Shipwreck` the recovery; `MarkDone`, `PushMain`, `RemoveWorktree`, `DeleteBranch`, `DeleteClaim` the
bookkeeping tail, one action for each call, the last three of which are best effort: the worktree is removed by force whether the item was
marked done or not, the claim branch at origin goes whenever it was, even if `git branch -d` has refused the local one. An item whose worktree is
removed is not resumed. `Cycle` starts attempts (`Start`), goes on with one after a park of its own process (`WaitOut`) or in another
process, with `--from` or without (`Resume`), and kills them anywhere (`Crash`).

### Revise

One pull request whose review is red, and the processes of a host that may revise it: campaigns that sweep (`List`, `resolveReviseTarget`,
`claimRevisionExclusive`), operators' commands, and the `--resume` a parked process has printed. `pr` is what GitHub says, `local`
the worktree, `findings` the file that carries the task, `lease` the execution lease. `own[p]` is what a process remembers: whether
it has the flag, which findings implement was given (`task`), whether they were consumed. `Resume`
decides from the file and from memory whether a continuation is a revision. `EndImplement` archives the file, which
may fail. `ReleaseFails` says whether the lock of a release may be out of reach, which leaves the lease: it is FALSE in
the run, whose `HandedOver` needs it, and either in the theorems.

### RunLifecycle and LocalAutopilot

`RunLifecycle` is the table of `lifecycle.ts`. In `LocalAutopilot` a journal is represented by its fold, since every
reader folds all of it: `Accepts` is what the fold throws on, negated, `Applied` what an event does. `mem[p]` is the
`DriveState`: the engine does not look at the journal while it drives, so the two can part. One action is what is done between two
appends or awaits; `Resumed` is the state that `continueRun` takes from the journal. `Crash` leaves the lease and the lock of the request, may leave
children at work (`orphans`) and may tear the record being written; `Throws` is an error that ends the command and not
the run; `Edit` is anybody who changes a worktree that nobody drives.

## 3. The runs

| run | bounds | what it shows |
|---|---|---|
| `file_lock` | 2 processes, 4 calls, time 0..3, 2 crashes | With leases of one tick every race of a steal, a release, a time-out and a death occurs. Two hold the lock only in the window the comment of `takeIfContent` admits (`ExclusionOutsideYankWindow`), with `reclaimStale` off never (`NoReclaimExclusion`); every waiter returns (`WaiterReturns`). |
| `state_path` | 4 daemons, 3 pids, 2 attempts, 1 kill | `OneDaemonOutsideYankWindow`, `StartDecided`. Four is what a yank needs: a dead daemon, two readers of its residue, a third to take the path; the fourth pid is recycled. |
| `review_drain` | 1 key, 2 workers of 1 campaign, budget 2, 1 fault, 1 crash, 1 park | A second worker drains while the first ships; one fault can hit each call; after one crash the restart meets each half-done state. 569,411 states. The two liveness properties are conditional, see below. `RequestKeptUntilReviewed`, `OneUnreceiptedReview`, `PostCycleDelivers`, `ShippedIsReviewed`, `RequestsDrain`. |
| `review_gate` | heads `h1`, `h2`, `h3` in a line, 2 paths, blockers `f` (of a safety class) and `g`, 2 cells, 2 pools (one not trusted with the stores), 3 gate runs one at a time, 2 passes, 1 adjudicator, 1 lost write, post, crash or manual run | `BlockersAnswered`, `GreenIsRead`, `RefutationFresh`, `OperatorAnswersAll`, `TypeOK`. Three heads are what an overlay needs: a complete run, one that is incomplete or whose record is rewritten, and one that carries from both; `h2` edits `p1` inside the hunk of `f` and `h3` edits `p2` inside that of `g`, so that either may be adjudicated. In the first run a cell reports `f`, in the second nothing or both, in the third nothing; any cell or verifier may fail. 1,243,777 states. |
| `supervisor` | 2 runs, 2 stop calls, 2 crashes | Two stops of one run, or of two; a crash before and after a boot. `NoGhostActivity`, `StopStops`; `ImplementsRunRecord` is the refinement. |
| `log_broker` | 2 clients, 2 streams, 4 lines, 1 restart | A client attaches while another is live; lines come before, during and after a replay. `ReplayExact`, `LiveIsCurrent`, `AttachSettles`. |
| `campaign` | 2 workers, 1 item, 1 red PR, 2 cycles, 1 strike (a limit or a pause), limits of consecutive errors 1, 1 resume round | `ExitIsHonest`, `HaltStopsCycles` and `CampaignEnds` in all three modes. |
| `cycle` | targets auto-merge-pr and direct-push, review on and off, 2 seats, findings `f` and `s` with `s` of a safety class, 2 passes, 1 revision, 2 attempts of a step, 2 transient errors, main moves once, 2 attempts at the item, `--from ship` | Every property of an attempt, see below. |
| `cycle_resume` | auto-merge-pr, 1 finding, 1 pass, 2 attempts at the item | Expected violation of `EscalationHolds`. |
| `revise` | a campaign, a command and a typed resume, 2 heads, 1 removal of the label, 1 death | `PreflightAlone`, `OnePass`, `LeaseOutlivesWork`, `HandedOver`: with a label added and its answer lost, and children that outlive their parent. 626,178 states. |
| `revise_two` | a command with a campaign, no deaths | Expected violation of `TwoPassesNeverTogether`. |
| `autopilot` | 2 commands at once and 3 in all, 2 runs, 1 repair, scripts of 1 action, 1 crash, 1 error, 1 interrupt | `RestartResumes`, `OneRunPerRequest`, `ReadyIsVerified`, `InterruptReturns`, and `ImplementsLifecycle`, the refinement. Three commands are a start, a resume that dies, and another or a cancel. 373,038 states. |

The type invariants of the other modules, `LiveLeaseAccounted`, `LiveClaimAccounted`, `StatusBackedByRecord`, `JournalReadable` and
`ProgressKept` are theorems for every value of the constants (section 5) and need no run.

`cycle` checks `PushIsGated`, `PushedMarkersAreTheAuthors`, `CompletedIsDelivered`, `BranchOutlivesDelivery`,
`SafetyFindingsStay`, `ReviewStandsBeforeShip` and `AttemptEnds`. Two attempts are enough for an
attempt to meet whatever an earlier one left; two seats for a split; a second pass for a finding that is carried; one
movement of main for a merge, and for one that is fetched by a peer between gate and push. `TRANSIENT_MAX_ATTEMPTS` is 3
in the code, which repeats the second. The target `pull-request` is `auto-merge-pr` without `AutoMerge`. With these
bounds the run has 461,018 states.

Deadlock is checked where the system may not stop (`state_path`, whose end is a
stuttering `Done`, and `review_drain`); in the others a bounded run comes to rest (calls used up,
lines written, process exited, item completed, head green).

### Fairness

Nothing forces an error, a crash, a limit or a pause; a run may go on for ever.
- `FileLock`: a process that is alive takes its next step, and time passes. The
  wait loop sleeps and tries again, so weak fairness is enough.
- `StatePathLock`: a start runs to its end; a running daemon need not shut down.
- `ReviewDrain`: a drain that was begun goes on (gates have time limits), leases and claims grow old. Nothing forces a drain to begin: a campaign
  drains once at its start and after its cycles, and one that idles, or ended, does not. So `ShippedIsReviewed` and `RequestsDrain` have
  a hypothesis, `DrainsKeepComing`: again and again a drain begins that may start a review, by whatever cycle or new campaign. A request
  that a failed post handed back waits for the next such drain, however long that takes.
- `Supervisor`: strong fairness of exit and timer events, which the loop serves in
  order between other turns; SIGKILL kills; the service manager restarts the daemon.
- `LogBroker`: the daemon's reads of its own file complete.
- `Cycle`: weak fairness of the steps of an attempt: an agent has its turns and its time-outs, a
  command ends. Nothing forces a park, a crash, a resume or a movement of main.
- `ReviewGate` states no fairness: its properties are safety.
- `Revise`: processes go on, dead holders' leases are removed by the operator; strong fairness of `HandBack`, as a campaign
  resumes at most `MAX_RESUME_ROUNDS` times, and of a listing whose comment is posted: gh does not fail for ever.
- `LocalAutopilot`: the engine goes on; a child ends only once it is interrupted (SIGINT, then SIGKILL after a second).
- `Campaign`: awaited pipelines, drains and timers end; the gate is a FIFO mutex
  (strong fairness of `EnterGate`); midnight comes.

## 4. Findings

Expected violations:

1. **A resume passes a reviewer split** (`cycle_resume`). `docs/config.md:1259` says that a resume without
   an acknowledgement parks again, and that a blocked record cannot be acknowledged through.
   Only `runShakedownCode` looks the record up. `detectResumeStep` (`cycle-support.ts:302`) takes the step after
   the last one that was ok; a seat of the review is logged as `pr-review`, which is
   no pipeline step, and what is not one is followed by ship. So an item parked on a split resumes at
   ship, past the record. No unit test calls `detectResumeStep`.
2. **Two passes in one worktree** (`revise_two`). `docs/pr-review.md:1024` says they are never concurrent. A campaign
   that parked in implement tells by the findings file that its resume is a revision; an operator's repeat has archived it.

Divergences that the models show and that are not among the runs; those with a configuration can be repeated with it:

3. **Two daemons on one state file** (`MCStatePathLockTwo.cfg`). `docs/server.md:201` says a
   second live instance exits at startup. `takeIfContent` verifies after it has
   renamed: of two starts that read a dead daemon's residue, the slower can yank the
   faster one's fresh claim, and a third start can take the free path before the
   restore. `file-lock.ts` admits this window; the daemon's doc does not.
4. **Revisions after a lost receipt** (`MCCampaignHalt.cfg`). The comment at
   `orchestrator.ts:1092` halts "every paid path". The loops of the revise sweep and of
   the resumes look only at the park signal, so a peer's sweep claims and revises
   another pull request.
5. **A pause lost in a wait** (`MCCampaignPause.cfg`). `docs/config.md:773` says a manual
   pause still exits parked. `awaitParkReset` clears whatever the signal has become when its timer
   fires.
6. **A continuation without a lease** (`MCReviseResume.cfg`). `docs/pr-review.md:1050` says that either continuation reacquires
   the execution lease. `orchestrator.ts:1438` asks for the flag, or for memory of a process that has ended: a plain `--resume <id>` after a park
   in a later step has neither.
7. **Applied findings injected again** (`MCReviseAgain.cfg`). `docs/pr-review.md:1020` says they are not. A repeat that the head
   binding refuses has written the file before (`revise-cli.ts:252`), and leaves it for the campaign that resumes.
8. **An operator's record beside two fleet records** (`LoneEvidence` of `ReviewGate`). The comment of `selectUnambiguousFleetGateRecord`
   (`review/adjudication.ts`) wants a refusal when more than one head has a fleet's record. `pr-adjudicate` selects before the
   live verification and checks only the head afterwards, so a gate that finishes meanwhile makes the selection ambiguous unseen.

Also met: `docs/pr-review.md:240` says that only the local drain persists fleet files, and the CLI does too
(`persistLocalGateEvidence`); `docs/server.md:217` says a paused child exits 1, the
code exits 75; `docs/server.md:125` restricts stop to running or paused records, the code
accepts any; `docs/server.md:128` promises an `end` event for completed runs, which a
run of an earlier daemon never gets.

## 5. What is proved

Every safety invariant and every safety action property that a passing run checks is also a theorem, for every value of
the constants, and so are the two refinements. What follows says from which assumptions and along which argument.

`FileLock_proofs` proves, for every set of processes and every lease,
time-out and bound:

- `TypeCorrect`: `Spec => []TypeOK`;
- `LiveLeaseSafe`: `Spec => []LiveLeaseAccounted`;
- `ExclusionSafe`: `Spec => []ExclusionOutsideYankWindow`;
- `NoReclaimSafe`: `Spec => []NoReclaimExclusion`.

The assumptions are those of `FileLock` (`FileLockAssumption`): naturals, a positive lease,
and a `NoFile` that is no content. None of the properties is inductive.
The invariant is `IInv == TypeOK /\ TokenInv /\ TakeInv /\ NoReclaimInv /\ LiveLeaseAccounted`:

- `TokenInv`: whoever is inside the section or releasing wrote the content it
  believes it wrote (owner itself, its own attempt), so a release by one process can not match another's lock;
- `TakeInv`: a release takes exactly the caller's token, and a grave holds a content;
- `NoReclaimInv`: with stealing off nobody is in a steal, and the content of whoever is
  inside is the lock file or in its own grave. Two owners would own one file, hence are equal.

One lemma per conjunct shows that every action preserves it, with one step per
action; exclusion follows from `LiveLeaseAccounted` because one path can hold only
one of two distinct tokens.

`TakeInv` also says that a stealer wants a content whose lease had run out, which is
what keeps a steal from dropping a live lock.

`Server_proofs` has three parts. On `StatePathLock` it proves, for any starts, pids, reclaim attempts and kills,
`LockTypeCorrect`, `LiveClaimSafe` (`LiveClaimAccounted`) and `OneDaemonSafe`
(`OneDaemonOutsideYankWindow`). Pids are recycled, so a pid alone says nothing of who wrote a
file. The invariant is `LockInv == LockTypeOK /\ PidInv /\ ContentInv /\ LiveClaimAccounted`: no two
living daemons share a pid; every content of the lock file or a grave was *written* by a
daemon that acquired the lock, and never boots again; a reclaim wants the claim of a dead
daemon, a release its caller's own (`TakeOf`). A reader that finds its own pid in the file
has written no claim yet, so the writer is dead (`ReadDead`): this is why the code may
reclaim it without a probe.

On `Supervisor` it proves `TypeCorrect`, `NoGhostSafe` (`NoGhostActivity`) and `Refines`:
`Spec => ImplementsRunRecord`, every step of the supervisor being a step of `RunRecord` or a
stutter. The strengthening is `HandleInv`, on what the daemon's handles say of the record: a run
without a process was never started, a run with an exit listener is running, paused or abandoned
(so its exit is a step `RunRecord` allows), and a `stop()` in progress is of a run
that was started (so it may only end as abandoned).

On `LogBroker` it proves `BrokerTypeCorrect`, `ReplaySafe` (`ReplayExact`) and `LiveSafe`
(`LiveIsCurrent`) for any number of clients, streams and lines. `ClientInv` is the
strengthening: while a client replays, it has a prefix of the file that ends at or before
the watermark and its queue holds exactly the lines after the watermark; when it settles
the prefix reaches the watermark, so prefix and queue join without gap or overlap.

`Cycle_proofs` proves, for any targets, reviewers, findings, policies and bounds, `PushSafe` (`PushIsGated`), `MarkersSafe`
(`PushedMarkersAreTheAuthors`) and `DeliverySafe` (`BranchOutlivesDelivery`). The assumptions are
`AttemptAssumption`, `ReviewAssumption` and `CycleAssumption`. The invariant is
`IInv == TypeInv /\ MarkersInv /\ GateInv /\ MadeInv`:

- `Good(br)`, in `MarkersInv`, holds of the branch at every step: markers in the tree belong to an open merge, so
  no commit outside one makes markers, and a checkpoint refuses to conclude one with them; `recorded` implies
  typechecked, and a gated HEAD is pre-flighted, and typechecked unless the tree has edits, which the squash refuses;
- `GateInv` says at which steps between pre-flight and push the branch is clean, checked and not behind what was fetched;
- `MadeInv`: from the pick on there is a branch.

`BranchOutlivesDelivery` says of each step what it may take away. Only the cleanup takes anything (`OnlyCleanupTakes`), it comes after the push, and
that the push was of the work, or that a peer's commit had been taken for the merge, is in `FlowInv` below. In that last case the code
removes the worktree and the claim at origin of an undelivered item; the local branch stays, since git refuses to delete it.

The operators on branches have lemmas of their own (`CommitGood`, `CheckpointGood`, `WorksGood`), the ways a step goes on or ends
too (`GotoKept`, `ParkKept`, `StepKept`): with them nearly every action leaves `Kept` behind, from
which `IInv'` follows once (`KeptInv`). A second part proves `SafetyStays` (`SafetyFindingsStay`) and `ReviewStands`
(`ReviewStandsBeforeShip`) with `LoopInv`, on what the outcome of a loop says of the findings that are left, and a third
`CompletedSafe` (`CompletedIsDelivered`) with `FlowInv`: which effects are done at which step, and that where main was moved
by the agent alone it has the branch. A fourth proves the types (`TypeCorrect`, `Spec => []TypeOK`), which are bounds as well: `Counts` (a step
is tried, and a transient error passed over, no more often than allowed), `Bases` (no branch, ref or freshness record is ahead of main, for
which every operator on branches has a `...Within` lemma) and `LoopBound` (the author revises only where a pass and a revision are left).

`Revise_proofs` proves, for any number of campaigns, commands and resumes, `PreflightSafe`
(`PreflightAlone`), `OnePassSafe` (`OnePass`), `LeaseSafe` (`LeaseOutlivesWork`) and `TypeCorrect` (`Spec => []TypeOK`). The invariant is `TypeInv /\ LeasedInv /\ OrphanInv /\
PassInv`: whoever is between claim and binding has the lease, only the dead leave orphans, and while the label is off
the pass that it admits is still to come. One lemma (`MoveKeeps`) is about a process that moves alone and keeps, takes or lets go
of the lease; every step is shown to be such a move. `ReleaseFails` may be either.

`ReviewDrain_proofs` proves, for any keys, workers and campaigns, `TypeCorrect`, `OneUnreceiptedSafe` (`OneUnreceiptedReview`),
`RequestKept` (`RequestKeptUntilReviewed`), `RecordBacked` (`StatusBackedByRecord`) and `PostCycleSafe` (`PostCycleDelivers`). The
invariant is `TypeOK` with `WorkerInv` for every worker and `CampaignInv` for every campaign. The drain lock is the argument: whoever has a
review in hand holds it, so of what another worker's step writes (queue, records, ledger, statuses) little concerns it, and
`FrameInv` says once what a step must leave alone to keep everybody else's conjuncts. Then:

- a worker before its gate has found no receipt open, and an open receipt of a live campaign is either being written by
  the holder of the lock or was lost and has latched `undurable`, after which nobody begins a review (`Charged`, `CampaignInv`);
- a decision is recorded before it is posted and posted before the request is taken off (`Decided`), which gives the two
  action properties;
- while no call has failed, what the worker shipped is reviewed, in hand or in the rest of its list (`Delivering`), also when it waited
  for a drain that had listed the queue earlier.

`Campaign_proofs` proves, for any workers, items, modes and limits, `TypeCorrect`, `ExitHonest` (`ExitIsHonest`) and `HaltSafe`
(`HaltStopsCycles`). The invariant puts next to them the phases (no worker has begun before the pool, all are done after
it), who holds the gate (a worker that decides does, and only in a continuous campaign; what it has claimed is no longer to do), and what the flags stand for: a
halt is a result that is no delivery or a lost receipt, and a result that is no delivery is remembered in `allCompleted` and
`latest`. The exit code is computed from these after the pool, when no worker can change them any more.

`LocalAutopilot_proofs` proves, for any commands, runs and bounds, `TypeCorrect`, `JournalSafe` (`JournalReadable`), `RestartSafe`
(`RestartResumes`), `OneRunSafe` (`OneRunPerRequest`), `ReadySafe` (`ReadyIsVerified`), `ProgressSafe` (`ProgressKept`) and `Refines`
(`ImplementsLifecycle`). One lemma per event (`StartedTakes`, ..., `ResumedTakes`) says that what the engine appends from a state it
knows is accepted by the fold, leaves a journal that is `Sound`, and what the engine then knows. The invariant says that what a command knows agrees with the journal of the run
it holds the lease of (`ProcInv`), that a run that began is in the index, on its way there or known to be left out
(`Accounted`), and that no command drives a run with orphans (`OrphansAlone`). Every step of a command writes its own locals
(`Locals`), moves at most the journal it leases (`Writes`, `Moves`) and registers what it began (`Registers`); the action properties and the
refinement follow from `Writes` alone, since a move of a journal is a step of the table.

`ReviewGate_proofs` proves, for any commits, paths, blockers, cells, pools, reviewers, operators and bounds, with `AncestorsAssumption` (a
branch is a line back to its base), `DiffAssumption` (a diff lists each path whose content differs) and `ReviewGateAssumption`:

- `TypeCorrect` and `GreenSafe` (`GreenIsRead`) without any further hypothesis: several gate runs at once, force pushes, lost writes.
  `CoverInv` is the strengthening: whatever a later run may narrow from, a complete disposition or a source, is of a head
  every path of which some complete fleet read in the content it has there (`Covered`); a run that narrows reads what differs from such a head, so its own head is
  covered too, and an operator's interdiff touches only paths of survivors;
- `OperatorSafe` (`OperatorAnswersAll`), `FreshSafe` (`RefutationFresh`) and `AnswersSafe` (`BlockersAnswered`), also for several runs at once and
  force pushes. `OrderInv` is about the notes: a disposition is of a head whose review has begun, and two runs of one head have overlapped.
  `PairInv`: a source and a disposition that both match one record are of one run, unless two overlapped there, so what the operator
  is to answer is all in the source. `FreshInv`: a refutation that is kept was verified at an ancestor, the file is as it was there,
  and no head in between saw the blocker survive, the late ones apart. `HeldInv`: each blocker of an ancestor that is not late is answered, or held by the
  seeds of the run, which a pass may only drop when it refutes them. Both rest on one step (`BelowBegun`): below a head whose review
  has begun a disposition stays as it is, or its head is late from then on.

What the last three except is a limit of the code and not of the proof. The campaign's drain lock gives one run per checkout, but a `pr-review` by
hand takes no lock, and an old head that is brought back is reviewed again. A disposition that is written below a head whose run has
already chosen what it carries is not seen by that run, and if the newer disposition is then the watermark, its survivors are
lost; two runs of one head may leave the source of one beside the disposition of the other. `late` and
`overlapped` name exactly these heads, and every other blocker is answered. The proof also corrected the
model: three decisions of the code are chains of `if`, and as CASE expressions with overlapping guards they stood for a choice.

Only model-checked: every liveness property (`WaiterReturns`, `StartDecided`, `ShippedIsReviewed`, `RequestsDrain`, `StopStops`,
`AttachSettles`, `CampaignEnds`, `AttemptEnds`, `HandedOver`, `InterruptReturns`), since the prover has no rule for fairness or
ENABLED.

## 6. Simplifications

- `Campaign`: auto-pick mode; `--item` and `--resume` are left out, as are thrown errors (a lock
  time-out inside a drain), event emission and the contents of
  notifications. The campaign-start drain's own cap of 12 rounds is not reached within
  `MaxStrikes`. `TimePasses` is unfair: a reset may stay far for ever, and the campaign then hands back.
- `ReviewDrain`: every gate run costs 1 and a cycle nothing; the verdict is arbitrary (`ReviewGate` has the gate itself). After a park of the pool the
  code resumes only the cycles that parked, and the model any number; the cap of 12 rounds on start drains and resumes is left out, so is
  `--resume` of one item, which never drains.
- `ReviewGate`: a branch is a tree of commits without merges, a blocker is of one path, and its identity is given; a finding that a
  model words anew is another blocker. Budgets are `open`, `last` or `over` at any pass. Prompts, parsing, the conversion of findings and
  the assessment dialogue are left out. A git failure that makes a run go cold is modelled; one on a single probe of ancestry
  (`isAncestor`) is not: the code then drops that one record and goes on with the others, so a blocker that only this record
  holds is not carried. In the run the gate runs follow each other and the branch only grows; the
  theorems are about overlapping runs and force pushes too. That the hunk of a survivor was edited before an operator passes it is the guard of `AdjInspect`.
- `FileLock`: the jitter of the sleep is the interleaving.
- `StatePathLock`: reading the file and probing the pid in it are one step (the probe follows the read without an
  await); an owner that exits, or a pid that is given away, between the two is left out.
- `Supervisor`: the child is the process that is spawned, `pnpm`, and a SIGKILL that ends it may leave its own child
  running; the model has one process per run.
- `LogBroker`: a line has no text, so what two streams write into one unfinished
  line is not told apart. A client that has had its `end` event is unsubscribed at once, in the code after the write of that event has
  completed. A read of the log file does not fail.
- `Cycle`: an agent keeps to what its prompt and its skill forbid: it does not reset, clean or abort a merge, and a shipwreck
  agent that rolled the merge back does not report it as merged. Edits that were never committed go with a worktree that is
  removed by force. Whether an escalation was resolved is looked up, in the code, before the effects are dispatched, in `Decide` with their result. Budgets are ends that may come at any
  time. The park check at the head of a step is one with the step. Ordinary decision rows, provenance and the
  text of notes are left out. `CompletedIsDelivered` excepts a main that a peer moved, which
  `verifyShipLanded` cannot tell from the merge.
- `Revise`: one pull request; the hint that a parked process prints is taken to be read from the findings file when it is typed, where
  the code reads file and memory when it prints; its attempts are `implement` and later steps, with what `Cycle` says of them left out. The critical sections of
  the claim and lease locks are single steps. The revise workflow in CI, and the trust of comment authors, are left out.
- `LocalAutopilot`: the cursor of a harness moves as that of `fake-adapter.ts`, which may stay, where codex and grok always advance; a crash tears
  the record being written, but not that of a verification's end; an interrupt is heard where the command awaits (the lock, a call, a verification);
  one request id; configuration, consent and presentation are left out, provider sessions are one call.
- Bounds on crashes, faults and calls are constants of the modules and appear in
  guards of exactly those actions.

## 7. Not modelled, and what remains

Of the parts of section 1 that have no module, or are modelled in part:

- review gate of a pull request: still an arbitrary verdict in `ReviewDrain` and `PrShip`, whose properties hold for any; finding identity and
  the wording of reports are functions on data without interleaving;
- run lifecycle (acknowledged appends and their time-outs), roadmap sources and git claim (one push per claim, decided by the
  remote), registry, caches and routes: small protocols, each of which could be a module of its own.

Proofs that remain: that `DrainPass` of `Campaign` allows whatever a drain of `ReviewDrain` does to a campaign (a
refinement between modules whose variables differ, not yet stated), that the pre-flight of `PrShip` is a run of
`ReviewGate`, and the liveness properties, which wait for a prover with fairness.

Out of reach or out of interest: providers (agent SDKs), the operating system's
confinement, configuration and presentation, the web UI and the site.

## 8. Running

    tlc -workers 2 -config MCFileLock.cfg MCFileLock
    tlapm FileLock_proofs.tla        (and the other *_proofs modules)
