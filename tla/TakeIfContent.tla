--------------------------- MODULE TakeIfContent ---------------------------
(***************************************************************************)
(* takeIfContent(path, expected) of file-lock.ts, repeated verbatim in     *)
(* state-path-lock.ts: remove the lock file iff it still holds `expected`. *)
(* It is three system calls, and any number of processes interleave them:  *)
(*   rename   the lock file goes, whatever it holds, to a private grave    *)
(*   drop     the grave holds what was expected: unlink it                 *)
(*   restore  it does not: put it back with an O_EXCL write, and give up   *)
(*            when a new lock file was created in the meantime             *)
(* Reading the grave is not a step: its name is random, nobody else sees   *)
(* it.  Both callers ignore the Boolean the function returns.              *)
(***************************************************************************)
CONSTANTS Procs,      \* the processes that contend for the lock
          NoFile      \* the lock file does not exist

VARIABLES path,       \* the content of the lock file, or NoFile
          take,       \* take[p]: the call p is in, [at, want, got]
          displaced   \* contents a restore or a crash failed to put back

NotTaking == [at |-> "none", want |-> NoFile, got |-> NoFile]

\* p calls takeIfContent(path, expected).
StartTake(p, expected) ==
    take' = [take EXCEPT ![p] = [at |-> "rename", want |-> expected, got |-> NoFile]]

EndTake(p) == take' = [take EXCEPT ![p] = NotTaking]

Taking(p) == take[p].at # "none"

\* The contents sitting in the graves of takes in progress.
InGraves == {take[p].got : p \in {q \in Procs : take[q].at = "verify"}}

Rename(p) ==
    /\ take[p].at = "rename"
    /\ IF path = NoFile
       THEN EndTake(p) /\ UNCHANGED path          \* already gone
       ELSE /\ path' = NoFile
            /\ take' = [take EXCEPT ![p].at = "verify", ![p].got = path]
    /\ UNCHANGED displaced

\* Mutant: the content of the grave is not compared with the expected one.
DropUnverified(p) ==
    /\ take[p].at = "verify"
    /\ EndTake(p)
    /\ UNCHANGED <<path, displaced>>

Drop(p) ==
    /\ take[p].at = "verify"
    /\ take[p].got = take[p].want
    /\ EndTake(p)
    /\ UNCHANGED <<path, displaced>>

Restore(p) ==
    /\ take[p].at = "verify"
    /\ take[p].got # take[p].want
    /\ IF path = NoFile
       THEN path' = take[p].got /\ UNCHANGED displaced
       ELSE displaced' = displaced \cup {take[p].got} /\ UNCHANGED path
    /\ EndTake(p)

\* Mutant: a process that dies with no grave leaves one.
AbandonTakeAlways(p) ==
    /\ displaced' = displaced \cup {take[p].got}
    /\ EndTake(p)
    /\ UNCHANGED path

\* p dies: a grave it has not put back stays on disk under a name nobody knows.
AbandonTake(p) ==
    /\ displaced' = IF take[p].at = "verify" THEN displaced \cup {take[p].got} ELSE displaced
    /\ EndTake(p)
    /\ UNCHANGED path

TakeStep(p) == Rename(p) \/ Drop(p) \/ Restore(p)
=============================================================================
