--------------------------- MODULE StatePathLock ---------------------------
(***************************************************************************)
(* state-path-lock.ts: one control-plane daemon per state file.  A daemon  *)
(* claims `${statePath}.lock` with an O_EXCL write of `pid:token`; it      *)
(* reclaims the file of a dead pid (or of its own recycled pid) and        *)
(* refuses to start while a foreign pid is alive.  server.ts releases the  *)
(* claim in its exit handler.  Every daemon is a separate process, so its  *)
(* system calls interleave with those of the others; it may be killed at   *)
(* any of them, and its pid may then be given to the next daemon.          *)
(***************************************************************************)
EXTENDS Naturals

CONSTANTS Daemons,      \* daemon processes, numbered in the order they are started
          Pids,         \* process ids, recycled after a death
          NoFile,
          MaxReclaims,  \* MAX_RECLAIM_ATTEMPTS
          MaxKills      \* bound: daemons killed before they release

ASSUME StatePathAssumption ==
    /\ Daemons \subseteq Nat
    /\ Pids \subseteq Nat \ {0}
    /\ MaxReclaims \in Nat \ {0} /\ MaxKills \in Nat

\* A lock file holds a text, whoever wrote it.
ASSUME NoFileAssumption == NoFile \notin [pid : Pids, token : Daemons]

VARIABLES path, take, displaced,
          pc,        \* where each daemon is
          pidOf,     \* pidOf[d]: the process id d runs under, 0 before it starts
          attempts,  \* attempts[d]: failed O_EXCL writes so far
          kills

lockVars == <<path, take, displaced, pc, pidOf, attempts, kills>>

T == INSTANCE TakeIfContent WITH Procs <- Daemons

\* `${pid}:${token}`: the random token makes every claim distinct.
Claims == [pid : Pids, token : Daemons]

Claim(d) == [pid |-> pidOf[d], token |-> d]

Alive(d) == pc[d] \notin {"new", "dead"}

isPidAlive(p) == \E d \in Daemons : Alive(d) /\ pidOf[d] = p

\* The types of all variables; a start makes at most MaxReclaims attempts.
LockTypeOK ==
    /\ path \in Claims \cup {NoFile}
    /\ take \in [Daemons -> [at : {"none", "rename", "verify"},
                             want : Claims \cup {NoFile}, got : Claims \cup {NoFile}]]
    /\ displaced \subseteq Claims
    /\ pc \in [Daemons -> {"new", "attempt", "read", "reclaim", "running", "release", "dead"}]
    /\ pidOf \in [Daemons -> Pids \cup {0}]
    /\ attempts \in [Daemons -> 0..MaxReclaims]
    /\ kills \in 0..MaxKills

LockInit ==
    /\ path = NoFile
    /\ take = [d \in Daemons |-> T!NotTaking]
    /\ displaced = {}
    /\ pc = [d \in Daemons |-> "new"]
    /\ pidOf = [d \in Daemons |-> 0]
    /\ attempts = [d \in Daemons |-> 0]
    /\ kills = 0

Goto(d, l) == pc' = [pc EXCEPT ![d] = l] /\ UNCHANGED <<pidOf, attempts>>

\* The process is gone, and its pid is free.
Die(d) ==
    /\ pc' = [pc EXCEPT ![d] = "dead"]
    /\ pidOf' = [pidOf EXCEPT ![d] = 0]
    /\ attempts' = [attempts EXCEPT ![d] = 0]

\* The operating system starts d under a pid no living process has.
StartDaemon(d) ==
    /\ pc[d] = "new"
    /\ \A e \in Daemons : e < d => pc[e] # "new"
    /\ \E p \in Pids : ~isPidAlive(p) /\ pidOf' = [pidOf EXCEPT ![d] = p]
    /\ pc' = [pc EXCEPT ![d] = "attempt"]
    /\ UNCHANGED <<path, take, displaced, attempts, kills>>

\* Mutant: one attempt too many.
AttemptOnceMore(d) ==
    /\ pc[d] = "attempt"
    /\ attempts[d] <= MaxReclaims
    /\ attempts' = [attempts EXCEPT ![d] = @ + 1]
    /\ IF path = NoFile
       THEN path' = Claim(d) /\ pc' = [pc EXCEPT ![d] = "running"]
       ELSE UNCHANGED path /\ pc' = [pc EXCEPT ![d] = "read"]
    /\ UNCHANGED <<take, displaced, pidOf, kills>>

\* One turn of the loop: the O_EXCL write.
Attempt(d) ==
    /\ pc[d] = "attempt"
    /\ attempts[d] < MaxReclaims
    /\ attempts' = [attempts EXCEPT ![d] = @ + 1]
    /\ IF path = NoFile
       THEN path' = Claim(d) /\ pc' = [pc EXCEPT ![d] = "running"]
       ELSE UNCHANGED path /\ pc' = [pc EXCEPT ![d] = "read"]
    /\ UNCHANGED <<take, displaced, pidOf, kills>>

\* Mutant: the bound of the loop is never reached.
GiveUpLate(d) ==
    /\ pc[d] = "attempt"
    /\ attempts[d] > MaxReclaims
    /\ Die(d)
    /\ UNCHANGED <<path, take, displaced, kills>>

\* MAX_RECLAIM_ATTEMPTS turns failed: the daemon exits.
GiveUp(d) ==
    /\ pc[d] = "attempt"
    /\ attempts[d] = MaxReclaims
    /\ Die(d)
    /\ UNCHANGED <<path, take, displaced, kills>>

\* Mutant: the owner's pid is not probed.
ReadUnprobed(d) ==
    /\ pc[d] = "read"
    /\ \/ path = NoFile /\ Goto(d, "attempt") /\ UNCHANGED take
       \/ path # NoFile /\ Goto(d, "reclaim") /\ T!StartTake(d, path)
    /\ UNCHANGED <<path, displaced, kills>>

\* Read the content: retry if it vanished, refuse if its owner lives, else reclaim it.
Read(d) ==
    /\ pc[d] = "read"
    /\ \/ path = NoFile /\ Goto(d, "attempt") /\ UNCHANGED take
       \/ /\ path # NoFile
          /\ path.pid # pidOf[d] /\ isPidAlive(path.pid)
          /\ Die(d) /\ UNCHANGED take
       \/ /\ path # NoFile
          /\ path.pid = pidOf[d] \/ ~isPidAlive(path.pid)
          /\ Goto(d, "reclaim") /\ T!StartTake(d, path)
    /\ UNCHANGED <<path, displaced, kills>>

\* The daemon exits in order: release() in the exit handler.
Shutdown(d) ==
    /\ pc[d] = "running"
    /\ Goto(d, "release")
    /\ T!StartTake(d, Claim(d))
    /\ UNCHANGED <<path, displaced, kills>>

\* A step of takeIfContent; after the last one the starter tries again, or the
\* exit handler is done.
Take(d) ==
    /\ T!TakeStep(d)
    /\ IF take'[d] # T!NotTaking THEN Goto(d, pc[d])
       ELSE IF pc[d] = "reclaim" THEN Goto(d, "attempt") ELSE Die(d)
    /\ UNCHANGED kills

\* SIGKILL, or a crash, wherever the daemon is.
Kill(d) ==
    /\ Alive(d)
    /\ kills < MaxKills
    /\ kills' = kills + 1
    /\ Die(d)
    /\ T!AbandonTake(d)

Done == \A d \in Daemons : pc[d] = "dead"

LockNext ==
    \/ \E d \in Daemons : \/ StartDaemon(d) \/ Attempt(d) \/ GiveUp(d) \/ Read(d)
                          \/ Shutdown(d) \/ Take(d) \/ Kill(d)
    \/ Done /\ UNCHANGED lockVars

LockSpec == LockInit /\ [][LockNext]_lockVars

LockFairSpec == LockSpec /\ \A d \in Daemons : WF_lockVars(Attempt(d) \/ GiveUp(d) \/ Read(d) \/ Take(d))

-----------------------------------------------------------------------------
Owners == {d \in Daemons : pc[d] = "running"}

\* docs/server.md:200: "A second live instance exits at startup".  Two daemons that
\* both read the residue of a dead one break it: the slower one yanks the claim of the
\* faster one, and a third start takes the free path before the restore.
OneDaemon == \A d, e \in Owners : d = e

\* A running daemon's claim is in the lock file, in the grave of a starter that is
\* about to restore it, or was lost in that starter's hands: no starter deletes the
\* claim of a living daemon on any other path, its own pid's residue included.
LiveClaimAccounted ==
    \A d \in Owners :
        path = Claim(d) \/ Claim(d) \in T!InGraves \/ Claim(d) \in displaced

\* Two daemons on one state file only after a claim was yanked.
OneDaemonOutsideYankWindow ==
    \A d, e \in Owners :
        d # e => \E f \in {d, e} : Claim(f) \in T!InGraves \cup displaced

\* Every start is decided: it runs, or it exits.
StartDecided == \A d \in Daemons : pc[d] = "attempt" ~> pc[d] \in {"running", "release", "dead"}
=============================================================================
