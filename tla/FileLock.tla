------------------------------ MODULE FileLock ------------------------------
(***************************************************************************)
(* The cross-process lock of file-lock.ts: withFileLock waits for the lock *)
(* and tryWithFileLock makes one attempt, both around a critical section.  *)
(* The lock file holds `<expiresAt>:<token>`; a contender that reads an    *)
(* expired content steals the lock, unless the caller passed               *)
(* reclaimStale: false.  A process may die at any point.                   *)
(***************************************************************************)
EXTENDS Naturals

CONSTANTS Procs, NoFile,
          Stale,           \* staleMs
          AcquireTimeout,  \* acquireTimeoutMs
          Slack,           \* the 2_000 of hardCap
          MaxNow,          \* bound: the clock stops here
          MaxCalls,        \* bound: calls to either function
          MaxCrashes       \* bound: processes that die

ASSUME FileLockAssumption ==
    /\ Stale \in Nat \ {0} /\ AcquireTimeout \in Nat /\ Slack \in Nat
    /\ MaxNow \in Nat /\ MaxCalls \in Nat /\ MaxCrashes \in Nat

\* A lock file holds a text, whoever wrote it.
ASSUME NoFileAssumption == NoFile \notin [exp : Nat, owner : Procs, n : Nat]

VARIABLES path, take, displaced,
          now,        \* Date.now()
          reclaim,    \* opts.reclaimStale !== false, the same for every caller of a path
          pc,         \* where each process is
          blocking,   \* blocking[p]: p called withFileLock, not tryWithFileLock
          token,      \* the content p last minted
          deadline,   \* when p's soft deadline passes
          calls,      \* how many calls were made: makes the tokens distinct
          id,         \* id[p]: the number of p's call
          crashes     \* how many processes died

vars == <<path, take, displaced, now, reclaim, pc, blocking, token, deadline, calls, id, crashes>>

T == INSTANCE TakeIfContent

\* `<expiresAt>:<pid>-<random>`
Contents == [exp : Nat, owner : Procs, n : Nat]

States == {"idle", "attempt", "retry", "soft", "judge", "steal", "crit", "release"}

hardCap(p) == deadline[p] + Stale + Slack

\* The types of all variables: clocks and counters never underflow, files and graves
\* hold contents some call minted.
TypeOK ==
    /\ path \in Contents \cup {NoFile}
    /\ take \in [Procs -> [at : {"none", "rename", "verify"},
                           want : Contents \cup {NoFile}, got : Contents \cup {NoFile}]]
    /\ displaced \subseteq Contents
    /\ now \in Nat
    /\ reclaim \in BOOLEAN
    /\ pc \in [Procs -> States]
    /\ blocking \in [Procs -> BOOLEAN]
    /\ token \in [Procs -> Contents \cup {NoFile}]
    /\ deadline \in [Procs -> Nat]
    /\ calls \in Nat
    /\ id \in [Procs -> Nat]
    /\ crashes \in Nat

Init ==
    /\ path = NoFile
    /\ take = [p \in Procs |-> T!NotTaking]
    /\ displaced = {}
    /\ now = 0
    /\ reclaim \in BOOLEAN
    /\ pc = [p \in Procs |-> "idle"]
    /\ blocking = [p \in Procs |-> FALSE]
    /\ token = [p \in Procs |-> NoFile]
    /\ deadline = [p \in Procs |-> 0]
    /\ calls = 0
    /\ id = [p \in Procs |-> 0]
    /\ crashes = 0

Goto(p, l) == pc' = [pc EXCEPT ![p] = l]

Minted(p) == [exp |-> now + Stale, owner |-> p, n |-> id[p]]

\* p's call is over: it returned, threw or reported contention, or p died.
Over(p) ==
    /\ Goto(p, "idle")
    /\ blocking' = [blocking EXCEPT ![p] = FALSE]
    /\ token' = [token EXCEPT ![p] = NoFile]
    /\ deadline' = [deadline EXCEPT ![p] = 0]
    /\ id' = [id EXCEPT ![p] = 0]

\* p's call goes on at l.
Continue(p, l) == Goto(p, l) /\ UNCHANGED <<blocking, token, deadline, id>>

\* The call.  tryWithFileLock mints its token here, withFileLock at every attempt.
Enter(p) ==
    /\ pc[p] = "idle"
    /\ calls < MaxCalls
    /\ now + AcquireTimeout + Stale + Slack < MaxNow
    /\ calls' = calls + 1
    /\ id' = [id EXCEPT ![p] = calls]
    /\ \E b \in BOOLEAN :
          /\ blocking' = [blocking EXCEPT ![p] = b]
          /\ deadline' = [deadline EXCEPT ![p] = IF b THEN now + AcquireTimeout ELSE 0]
          /\ token' = [token EXCEPT ![p] = IF b THEN NoFile
                                           ELSE [exp |-> now + Stale, owner |-> p, n |-> calls]]
    /\ Goto(p, "attempt")
    /\ UNCHANGED <<path, take, displaced, now, reclaim, crashes>>

\* The O_EXCL write succeeds: acquire, identity and expiry in one system call.
Acquire(p) ==
    /\ pc[p] \in {"attempt", "retry"}
    /\ path = NoFile
    /\ LET mine == IF blocking[p] THEN Minted(p) ELSE token[p]
       IN  path' = mine /\ token' = [token EXCEPT ![p] = mine]
    /\ Goto(p, "crit")
    /\ UNCHANGED <<take, displaced, now, reclaim, blocking, deadline, calls, id, crashes>>

\* Mutant: no deadline for a waiter that must not steal.
BlockedForEver(p) ==
    /\ pc[p] = "attempt" /\ blocking[p]
    /\ path # NoFile
    /\ reclaim
    /\ Continue(p, IF now > deadline[p] THEN "soft" ELSE "judge")
    /\ UNCHANGED <<path, take, displaced, now, reclaim, calls, crashes>>

\* EEXIST in withFileLock: give up, look at the holder's expiry once the soft
\* deadline passed, or try to steal.
Blocked(p) ==
    /\ pc[p] = "attempt" /\ blocking[p]
    /\ path # NoFile
    /\ IF now > (IF reclaim THEN hardCap(p) ELSE deadline[p]) THEN Over(p)
       ELSE /\ reclaim                           \* else: sleep, and try again
            /\ Continue(p, IF now > deadline[p] THEN "soft" ELSE "judge")
    /\ UNCHANGED <<path, take, displaced, now, reclaim, calls, crashes>>

\* Mutant: tryWithFileLock steals although the caller said reclaimStale: false.
ContendedReclaims(p) ==
    /\ pc[p] \in {"attempt", "retry"} /\ ~blocking[p]
    /\ path # NoFile
    /\ IF pc[p] = "attempt" THEN Continue(p, "judge") ELSE Over(p)
    /\ UNCHANGED <<path, take, displaced, now, reclaim, calls, crashes>>

\* EEXIST in tryWithFileLock: one steal, then report contention.
Contended(p) ==
    /\ pc[p] \in {"attempt", "retry"} /\ ~blocking[p]
    /\ path # NoFile
    /\ IF pc[p] = "attempt" /\ reclaim THEN Continue(p, "judge") ELSE Over(p)
    /\ UNCHANGED <<path, take, displaced, now, reclaim, calls, crashes>>

\* Past the soft deadline a waiter stays only while a steal is in prospect.
SoftDeadline(p) ==
    /\ pc[p] = "soft"
    /\ IF path # NoFile /\ path.exp > hardCap(p) THEN Over(p) ELSE Continue(p, "judge")
    /\ UNCHANGED <<path, take, displaced, now, reclaim, calls, crashes>>

NextTry(p) == IF blocking[p] THEN "attempt" ELSE "retry"

\* stealIfStale reads the content and takes exactly what it judged stale.
Judge(p) ==
    /\ pc[p] = "judge"
    /\ IF path = NoFile \/ now < path.exp
       THEN Goto(p, NextTry(p)) /\ UNCHANGED take
       ELSE Goto(p, "steal") /\ T!StartTake(p, path)
    /\ UNCHANGED <<path, displaced, now, reclaim, blocking, token, deadline, calls, id, crashes>>

\* Mutant: the release removes the lock file whoever owns it.
LeaveUnowned(p) ==
    /\ pc[p] = "crit"
    /\ Goto(p, "release")
    /\ T!StartTake(p, path)
    /\ UNCHANGED <<path, displaced, now, reclaim, blocking, token, deadline, calls, id, crashes>>

\* fn settled: the finally block releases, iff the file is still ours.
Leave(p) ==
    /\ pc[p] = "crit"
    /\ Goto(p, "release")
    /\ T!StartTake(p, token[p])
    /\ UNCHANGED <<path, displaced, now, reclaim, blocking, token, deadline, calls, id, crashes>>

\* A step of takeIfContent; its last one returns to stealIfStale or ends the call.
Take(p) ==
    /\ T!TakeStep(p)
    /\ IF take'[p] # T!NotTaking THEN Continue(p, pc[p])
       ELSE IF pc[p] = "steal" THEN Continue(p, NextTry(p)) ELSE Over(p)
    /\ UNCHANGED <<now, reclaim, calls, crashes>>

\* The process dies with the lock or with a grave in its hands; p stands for its
\* successor from here on.  A death elsewhere leaves nothing on disk: it is a call
\* that takes no further step.
Crash(p) ==
    /\ pc[p] = "crit" \/ take[p].at = "verify"
    /\ crashes < MaxCrashes
    /\ crashes' = crashes + 1
    /\ T!AbandonTake(p)
    /\ Over(p)
    /\ UNCHANGED <<now, reclaim, calls>>

Tick ==
    /\ now < MaxNow
    /\ now' = now + 1
    /\ UNCHANGED <<path, take, displaced, reclaim, pc, blocking, token, deadline, calls, id, crashes>>

Step(p) ==
    \/ Acquire(p) \/ Blocked(p) \/ Contended(p) \/ SoftDeadline(p)
    \/ Judge(p) \/ Leave(p) \/ Take(p)

Next == Tick \/ \E p \in Procs : Enter(p) \/ Step(p) \/ Crash(p)

Spec == Init /\ [][Next]_vars

\* The clock runs, and a live process is scheduled; nothing forces a call or a crash.
FairSpec == Spec /\ WF_vars(Tick) /\ \A p \in Procs : WF_vars(Step(p))

-----------------------------------------------------------------------------
LiveHolders == {p \in Procs : pc[p] = "crit" /\ now < token[p].exp}

\* A process whose lease has not expired still owns the lock file, or the file is
\* in the grave of a contender that is about to restore it, or it is one of the
\* losses the comment on takeIfContent admits: no other path destroys a live lease.
LiveLeaseAccounted ==
    \A p \in LiveHolders :
        path = token[p] \/ token[p] \in T!InGraves \/ token[p] \in displaced

\* Two processes inside the section with unexpired leases: only when one of them
\* was yanked, i.e. outside that window the lock is mutual exclusion whatever the
\* interleaving of steals, releases, timeouts and crashes.
ExclusionOutsideYankWindow ==
    \A p, q \in LiveHolders :
        p # q => \E r \in {p, q} : token[r] \in T!InGraves \cup displaced

\* reclaimStale: false never steals, so even an expired holder is alone: the
\* contract local-autopilot's run lease and request claim rely on.
NoReclaimExclusion ==
    ~reclaim => \A p, q \in Procs : pc[p] = "crit" /\ pc[q] = "crit" => p = q

\* No waiter waits for ever, whatever the holder does: it gets the lock or it throws.
WaiterReturns ==
    \A p \in Procs : pc[p] = "attempt" ~> pc[p] \in {"crit", "idle"}
=============================================================================
