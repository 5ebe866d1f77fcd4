-------------------------- MODULE FileLock_proofs --------------------------
(***************************************************************************)
(* The safety properties of FileLock for any set of processes, any clock   *)
(* and any number of calls and crashes.                                    *)
(***************************************************************************)
EXTENDS FileLock, TLAPS

Owned(p) == token[p] \in Contents /\ token[p].owner = p

\* A call that minted a token minted its own.
TokenInv ==
    \A p \in Procs :
        /\ pc[p] \in {"crit", "release"} => Owned(p)
        /\ pc[p] # "idle" /\ ~blocking[p] => Owned(p)

\* What each take in progress was asked for, and what its grave holds.
TakeInv ==
    \A p \in Procs :
        /\ T!Taking(p) <=> pc[p] \in {"steal", "release"}
        /\ pc[p] = "steal" => take[p].want \in Contents /\ take[p].want.exp <= now
        /\ pc[p] = "release" => take[p].want = token[p]
        /\ take[p].at = "verify" => take[p].got \in Contents

\* Without stealing, the lock file is exactly the running holder's token.
NoReclaimInv ==
    ~reclaim =>
        \A p \in Procs :
            /\ pc[p] \notin {"soft", "judge", "steal"}
            /\ pc[p] = "crit" => path = token[p]
            /\ take[p].at = "rename" => path = token[p]
            /\ take[p].at = "verify" => take[p].got = take[p].want

IInv == TypeOK /\ TokenInv /\ TakeInv /\ NoReclaimInv /\ LiveLeaseAccounted

\* The initial states satisfy the inductive invariant.
LEMMA InitIInv == Init => IInv
  BY FileLockAssumption
  DEF Init, IInv, TypeOK, TokenInv, TakeInv, NoReclaimInv, LiveLeaseAccounted, LiveHolders,
      T!NotTaking, T!Taking, States

\* What a call's local variables become when it ends or goes on.
LocalTypes ==
    /\ pc \in [Procs -> States]
    /\ blocking \in [Procs -> BOOLEAN]
    /\ token \in [Procs -> Contents \cup {NoFile}]
    /\ deadline \in [Procs -> Nat]
    /\ id \in [Procs -> Nat]

\* Over keeps the local variables in their types.
LEMMA OverTypes == ASSUME NEW p \in Procs, LocalTypes, Over(p) PROVE LocalTypes'
  BY DEF LocalTypes, Over, Goto, States

\* Continue keeps the local variables in their types.
LEMMA ContinueTypes ==
  ASSUME NEW p \in Procs, NEW l \in States, LocalTypes, Continue(p, l) PROVE LocalTypes'
  BY DEF LocalTypes, Continue, Goto

\* The types, one step per action.
LEMMA TypeStep == IInv /\ [Next]_vars => TypeOK'
  <1> SUFFICES ASSUME IInv, [Next]_vars PROVE TypeOK'
    OBVIOUS
  <1> USE FileLockAssumption, NoFileAssumption
  <1>a. TypeOK /\ LocalTypes
    BY DEF IInv, TypeOK, LocalTypes
  <1>1. ASSUME NEW p \in Procs, Enter(p) PROVE TypeOK'
    <2>1. [exp |-> now + Stale, owner |-> p, n |-> calls] \in Contents
      BY <1>a DEF TypeOK, Contents
    <2> QED
      BY <1>1, <1>a, <2>1 DEF Enter, Goto, TypeOK, States
  <1>2. ASSUME NEW p \in Procs, Acquire(p) PROVE TypeOK'
    <2>1. Minted(p) \in Contents
      BY <1>a DEF TypeOK, Contents, Minted
    <2> QED
      BY <1>2, <1>a, <2>1 DEF Acquire, Goto, TypeOK, States
  <1>3. ASSUME NEW p \in Procs, Blocked(p) PROVE TypeOK'
    <2>1. Over(p) \/ \E l \in States : Continue(p, l)
      BY <1>3 DEF Blocked, States
    <2> QED
      BY <1>3, <1>a, <2>1, OverTypes, ContinueTypes DEF Blocked, TypeOK, LocalTypes
  <1>4. ASSUME NEW p \in Procs, Contended(p) PROVE TypeOK'
    <2>1. Over(p) \/ \E l \in States : Continue(p, l)
      BY <1>4 DEF Contended, States
    <2> QED
      BY <1>4, <1>a, <2>1, OverTypes, ContinueTypes DEF Contended, TypeOK, LocalTypes
  <1>5. ASSUME NEW p \in Procs, SoftDeadline(p) PROVE TypeOK'
    <2>1. Over(p) \/ \E l \in States : Continue(p, l)
      BY <1>5 DEF SoftDeadline, States
    <2> QED
      BY <1>5, <1>a, <2>1, OverTypes, ContinueTypes DEF SoftDeadline, TypeOK, LocalTypes
  <1>6. ASSUME NEW p \in Procs, Judge(p) PROVE TypeOK'
    <2>1. CASE path = NoFile \/ now < path.exp
      BY <1>6, <1>a, <2>1 DEF Judge, Goto, NextTry, TypeOK, States
    <2>2. CASE ~(path = NoFile \/ now < path.exp)
      BY <1>6, <1>a, <2>2 DEF Judge, Goto, T!StartTake, TypeOK, States
    <2> QED
      BY <2>1, <2>2
  <1>7. ASSUME NEW p \in Procs, Leave(p) PROVE TypeOK'
    BY <1>7, <1>a DEF Leave, Goto, T!StartTake, TypeOK, States
  <1>8. ASSUME NEW p \in Procs, Take(p) PROVE TypeOK'
    <2>1. /\ path' \in Contents \cup {NoFile}
          /\ take' \in [Procs -> [at : {"none", "rename", "verify"},
                                  want : Contents \cup {NoFile}, got : Contents \cup {NoFile}]]
          /\ displaced' \subseteq Contents
      BY <1>8, <1>a DEF Take, T!TakeStep, T!Rename, T!Drop, T!Restore, T!EndTake, T!NotTaking,
                       IInv, TakeInv, TypeOK
    <2>2. Over(p) \/ \E l \in States : Continue(p, l)
      <3>1. pc[p] \in States /\ NextTry(p) \in States
        BY <1>a DEF TypeOK, NextTry, States
      <3> QED
        BY <1>8, <3>1 DEF Take
    <2> QED
      BY <1>8, <1>a, <2>1, <2>2, OverTypes, ContinueTypes DEF Take, TypeOK, LocalTypes
  <1>9. ASSUME NEW p \in Procs, Crash(p) PROVE TypeOK'
    <2>1. take' \in [Procs -> [at : {"none", "rename", "verify"},
                              want : Contents \cup {NoFile}, got : Contents \cup {NoFile}]]
      BY <1>9, <1>a DEF Crash, T!AbandonTake, T!EndTake, T!NotTaking, TypeOK
    <2>2. displaced' \subseteq Contents
      BY <1>9, <1>a DEF Crash, T!AbandonTake, TypeOK, IInv, TakeInv
    <2> QED
      BY <1>9, <1>a, <2>1, <2>2, OverTypes DEF Crash, T!AbandonTake, TypeOK, LocalTypes
  <1>10. CASE Tick
    BY <1>10, <1>a DEF Tick, TypeOK
  <1>11. CASE UNCHANGED vars
    BY <1>11, <1>a DEF vars, TypeOK
  <1> QED
    BY <1>1, <1>2, <1>3, <1>4, <1>5, <1>6, <1>7, <1>8, <1>9, <1>10, <1>11 DEF Next, Step


\* What TokenInv says of one process.
TokenOf(q) ==
    /\ pc[q] \in {"crit", "release"} => Owned(q)
    /\ pc[q] # "idle" /\ ~blocking[q] => Owned(q)

\* A call keeps its own token: only Enter and Acquire mint one, for their caller.
LEMMA TokenStep == IInv /\ [Next]_vars => TokenInv'
  <1> SUFFICES ASSUME IInv, [Next]_vars, NEW q \in Procs PROVE TokenOf(q)'
    BY DEF TokenInv, TokenOf, Owned
  <1> USE FileLockAssumption DEF Contents, Owned, TokenOf
  <1>a. TypeOK /\ TokenOf(q)
    BY DEF IInv, TokenInv
  <1>1. ASSUME NEW p \in Procs, Enter(p) PROVE TokenOf(q)'
    BY <1>1, <1>a DEF Enter, Goto, TypeOK
  <1>2. ASSUME NEW p \in Procs, Acquire(p) PROVE TokenOf(q)'
    <2>1. Minted(p) \in Contents /\ Minted(p).owner = p
      BY <1>a DEF TypeOK, Minted
    <2>2. p = q => token'[p] = IF blocking[p] THEN Minted(p) ELSE token[p]
      BY <1>2, <1>a DEF Acquire, TypeOK
    <2>3. p = q => Owned(q)'
      BY <1>2, <1>a, <2>1, <2>2 DEF Acquire
    <2> QED
      BY <1>2, <1>a, <2>3 DEF Acquire, Goto, TypeOK
  <1>3. ASSUME NEW p \in Procs, Over(p) PROVE TokenOf(q)'
    BY <1>3, <1>a DEF Over, Goto, TypeOK
  <1>4. ASSUME NEW p \in Procs, NEW l \in States, Continue(p, l),
               l \in {"crit", "release"} => l = pc[p], pc[p] # "idle"
        PROVE  TokenOf(q)'
    BY <1>4, <1>a DEF Continue, Goto, TypeOK
  <1>5. ASSUME NEW p \in Procs, Blocked(p) \/ Contended(p) \/ SoftDeadline(p) PROVE TokenOf(q)'
    BY <1>5, <1>3, <1>4, <1>a DEF Blocked, Contended, SoftDeadline, States, TypeOK
  <1>6. ASSUME NEW p \in Procs, Judge(p) PROVE TokenOf(q)'
    BY <1>6, <1>a DEF Judge, Goto, NextTry, TypeOK
  <1>7. ASSUME NEW p \in Procs, Leave(p) PROVE TokenOf(q)'
    BY <1>7, <1>a DEF Leave, Goto, TypeOK
  <1>8. ASSUME NEW p \in Procs, Take(p) PROVE TokenOf(q)'
    <2>1. pc[p] \in {"steal", "release"}
      BY <1>8 DEF Take, T!TakeStep, T!Rename, T!Drop, T!Restore, T!Taking, IInv, TakeInv
    <2>2. NextTry(p) \in States \ {"crit", "release"}
      BY DEF NextTry, States
    <2> QED
      BY <1>8, <1>3, <1>4, <2>1, <2>2 DEF Take, States
  <1>9. ASSUME NEW p \in Procs, Crash(p) PROVE TokenOf(q)'
    BY <1>9, <1>3 DEF Crash
  <1>10. CASE Tick \/ UNCHANGED vars
    BY <1>10, <1>a DEF Tick, vars
  <1> QED
    BY <1>1, <1>2, <1>5, <1>6, <1>7, <1>8, <1>9, <1>10 DEF Next, Step

\* What TakeInv says of one process.
TakeOf(q) ==
    /\ T!Taking(q) <=> pc[q] \in {"steal", "release"}
    /\ pc[q] = "steal" => take[q].want \in Contents /\ take[q].want.exp <= now
    /\ pc[q] = "release" => take[q].want = token[q]
    /\ take[q].at = "verify" => take[q].got \in Contents

\* A take starts and ends with the call it belongs to.
LEMMA TakeInvStep == IInv /\ [Next]_vars => TakeInv'
  <1> SUFFICES ASSUME IInv, [Next]_vars, NEW q \in Procs PROVE TakeOf(q)'
    BY DEF TakeInv, TakeOf, T!Taking
  <1> USE FileLockAssumption, NoFileAssumption DEF TakeOf, T!Taking
  <1>a. TypeOK /\ TakeOf(q)
    BY DEF IInv, TakeInv
  <1>1. ASSUME NEW p \in Procs, Enter(p) \/ Acquire(p) PROVE TakeOf(q)'
    BY <1>1, <1>a DEF Enter, Acquire, Goto, TypeOK
  <1>2. ASSUME NEW p \in Procs, Blocked(p) \/ Contended(p) \/ SoftDeadline(p) PROVE TakeOf(q)'
    BY <1>2, <1>a DEF Blocked, Contended, SoftDeadline, Over, Continue, Goto, TypeOK
  <1>3. ASSUME NEW p \in Procs, Judge(p) PROVE TakeOf(q)'
    <2>1. CASE path = NoFile \/ now < path.exp
      BY <1>3, <1>a, <2>1 DEF Judge, Goto, NextTry, TypeOK
    <2>2. CASE ~(path = NoFile \/ now < path.exp)
      <3>1. path \in Contents /\ path.exp <= now
        BY <1>a, <2>2 DEF TypeOK, Contents
      <3> QED
        BY <1>3, <1>a, <2>2, <3>1 DEF Judge, Goto, T!StartTake, TypeOK
    <2> QED
      BY <2>1, <2>2
  <1>4. ASSUME NEW p \in Procs, Leave(p) PROVE TakeOf(q)'
    BY <1>4, <1>a DEF Leave, Goto, T!StartTake, TypeOK
  <1>5. ASSUME NEW p \in Procs, Take(p) PROVE TakeOf(q)'
    <2>1. CASE p # q
      BY <1>5, <1>a, <2>1 DEF Take, T!TakeStep, T!Rename, T!Drop, T!Restore, T!EndTake,
                              Over, Continue, Goto, TypeOK
    <2>2. CASE p = q /\ take'[p] = T!NotTaking
      BY <1>5, <1>a, <2>2 DEF Take, T!TakeStep, T!Rename, T!Drop, T!Restore, T!EndTake,
                              T!NotTaking, Over, Continue, Goto, NextTry, TypeOK
    <2>3. CASE p = q /\ take'[p] # T!NotTaking
      <3>1. /\ take[p].at = "rename" /\ path # NoFile
            /\ take' = [take EXCEPT ![p].at = "verify", ![p].got = path]
        BY <1>5, <1>a, <2>3 DEF Take, T!TakeStep, T!Rename, T!Drop, T!Restore, T!EndTake, TypeOK
      <3>2. Continue(p, pc[p]) /\ UNCHANGED now
        BY <1>5, <2>3 DEF Take
      <3> QED
        BY <1>a, <2>3, <3>1, <3>2 DEF Continue, Goto, TypeOK
    <2> QED
      BY <2>1, <2>2, <2>3
  <1>6. ASSUME NEW p \in Procs, Crash(p) PROVE TakeOf(q)'
    BY <1>6, <1>a DEF Crash, T!AbandonTake, T!EndTake, T!NotTaking, Over, Goto, TypeOK
  <1>7. CASE Tick
    BY <1>7, <1>a DEF Tick, TypeOK, Contents
  <1>8. CASE UNCHANGED vars
    BY <1>8, <1>a DEF vars
  <1> QED
    BY <1>1, <1>2, <1>3, <1>4, <1>5, <1>6, <1>7, <1>8 DEF Next, Step

\* What NoReclaimInv says of one process.
SoleOwner(q) ==
    /\ pc[q] \notin {"soft", "judge", "steal"}
    /\ pc[q] = "crit" => path = token[q]
    /\ take[q].at = "rename" => path = token[q]
    /\ take[q].at = "verify" => take[q].got = take[q].want

\* Nobody but the owner of the lock file removes it when nobody steals.
LEMMA NoReclaimStep == IInv /\ [Next]_vars => NoReclaimInv'
  <1> SUFFICES ASSUME IInv, [Next]_vars, ~reclaim', NEW q \in Procs PROVE SoleOwner(q)'
    BY DEF NoReclaimInv, SoleOwner
  <1> USE NoFileAssumption DEF SoleOwner
  <1>a. TypeOK /\ TokenOf(q) /\ TakeOf(q)
    BY DEF IInv, TokenInv, TakeInv, TokenOf, TakeOf
  <1>r. ~reclaim
    BY DEF Next, Step, Enter, Acquire, Blocked, Contended, SoftDeadline, Judge, Leave, Take,
           Crash, Tick, vars
  <1>s. SoleOwner(q)
    BY <1>r DEF IInv, NoReclaimInv
  <1>1. ASSUME NEW p \in Procs, Enter(p) PROVE SoleOwner(q)'
    BY <1>1, <1>a, <1>s DEF Enter, Goto, TypeOK, TakeOf, T!Taking
  <1>2. ASSUME NEW p \in Procs, Acquire(p) PROVE SoleOwner(q)'
    <2>1. pc[q] = "crit" => path \in Contents
      BY <1>a, <1>s DEF TokenOf, Owned
    <2>2. take[q].at = "rename" => path \in Contents
      BY <1>r, <1>a, <1>s DEF TakeOf, TokenOf, Owned, T!Taking
    <2> QED
      BY <1>2, <1>a, <1>s, <2>1, <2>2 DEF Acquire, Goto, TypeOK, Contents, TakeOf, T!Taking
  <1>3. ASSUME NEW p \in Procs, Blocked(p) \/ Contended(p) \/ SoftDeadline(p) PROVE SoleOwner(q)'
    <2>1. pc[p] # "soft" /\ Over(p) /\ UNCHANGED <<path, take>>
      BY <1>3, <1>r DEF Blocked, Contended, SoftDeadline, IInv, NoReclaimInv
    <2>2. p = q => take[q].at = "none"
      BY <1>3, <1>a, <2>1 DEF Blocked, Contended, SoftDeadline, TakeOf, T!Taking, TypeOK
    <2> QED
      BY <1>a, <1>s, <2>1, <2>2 DEF Over, Goto, TypeOK
  <1>4. ASSUME NEW p \in Procs, Judge(p) PROVE SoleOwner(q)'
    BY <1>4, <1>r DEF Judge, IInv, NoReclaimInv
  <1>5. ASSUME NEW p \in Procs, Leave(p) PROVE SoleOwner(q)'
    BY <1>5, <1>a, <1>s DEF Leave, Goto, T!StartTake, TypeOK
  <1>6. ASSUME NEW p \in Procs, Take(p) PROVE SoleOwner(q)'
    <2>1. pc[p] = "release" /\ Owned(p) /\ take[p].want = token[p] /\ SoleOwner(p)
      <3>1. TakeOf(p) /\ TokenOf(p) /\ SoleOwner(p) /\ T!Taking(p)
        BY <1>6, <1>r DEF Take, T!TakeStep, T!Rename, T!Drop, T!Restore, T!Taking,
                          IInv, TokenInv, TakeInv, NoReclaimInv, TokenOf, TakeOf
      <3> QED
        BY <3>1 DEF TokenOf, TakeOf
    <2>2. p # q => pc[q] # "crit" \/ path # token[p]
      BY <1>a, <1>s, <2>1 DEF TokenOf, Owned
    <2>3. p # q => take[q].at # "rename" \/ path # token[p]
      BY <1>a, <1>s, <2>1 DEF TokenOf, TakeOf, Owned, T!Taking
    <2>4. CASE T!Rename(p)
      <3>1. path = token[p] /\ path # NoFile
        BY <2>1, <2>4 DEF T!Rename, Owned, Contents
      <3>2. /\ take' = [take EXCEPT ![p].at = "verify", ![p].got = path]
            /\ path' = NoFile
        BY <2>4, <3>1 DEF T!Rename
      <3>3. Continue(p, pc[p])
        BY <1>6, <1>a, <3>2 DEF Take, T!NotTaking, TypeOK
      <3> QED
        BY <1>a, <1>s, <2>1, <2>2, <2>3, <3>1, <3>2, <3>3 DEF Continue, Goto, TypeOK
    <2>5. CASE T!Drop(p)
      <3>1. Over(p) /\ UNCHANGED path
        BY <1>6, <1>a, <2>1, <2>5 DEF Take, T!Drop, T!EndTake, TypeOK
      <3> QED
        BY <1>a, <1>s, <2>5, <3>1 DEF T!Drop, T!EndTake, T!NotTaking, Over, Goto, TypeOK
    <2>6. CASE T!Restore(p)
      BY <2>1, <2>6 DEF T!Restore
    <2> QED
      BY <1>6, <2>4, <2>5, <2>6 DEF Take, T!TakeStep
  <1>7. ASSUME NEW p \in Procs, Crash(p) PROVE SoleOwner(q)'
    BY <1>7, <1>a, <1>s DEF Crash, T!AbandonTake, T!EndTake, T!NotTaking, Over, Goto, TypeOK
  <1>8. CASE Tick \/ UNCHANGED vars
    BY <1>8, <1>s DEF Tick, vars
  <1> QED
    BY <1>1, <1>2, <1>3, <1>4, <1>5, <1>6, <1>7, <1>8 DEF Next, Step

\* What LiveLeaseAccounted says of one process.
Accounted(q) ==
    pc[q] = "crit" /\ now < token[q].exp =>
        path = token[q] \/ token[q] \in T!InGraves \/ token[q] \in displaced

\* A live lease leaves the lock file only for a grave, and the grave only for the
\* lock file or the losses: what a take drops is expired or its caller's own.
LEMMA LiveStep == IInv /\ [Next]_vars => LiveLeaseAccounted'
  <1> SUFFICES ASSUME IInv, [Next]_vars, NEW q \in Procs PROVE Accounted(q)'
    BY DEF LiveLeaseAccounted, LiveHolders, Accounted, T!InGraves
  <1> USE NoFileAssumption DEF Accounted, T!InGraves
  <1>a. TypeOK /\ TokenOf(q) /\ TakeOf(q) /\ Accounted(q)
    BY DEF IInv, TokenInv, TakeInv, LiveLeaseAccounted, LiveHolders, TokenOf, TakeOf
  <1>1. ASSUME NEW p \in Procs, Enter(p) PROVE Accounted(q)'
    BY <1>1, <1>a DEF Enter, Goto, TypeOK
  <1>2. ASSUME NEW p \in Procs, Acquire(p) PROVE Accounted(q)'
    <2>1. pc[q] = "crit" => token[q] # path
      BY <1>2, <1>a DEF Acquire, TokenOf, Owned, Contents
    <2> QED
      BY <1>2, <1>a, <2>1 DEF Acquire, Goto, TypeOK
  <1>3. ASSUME NEW p \in Procs, Blocked(p) \/ Contended(p) \/ SoftDeadline(p) PROVE Accounted(q)'
    BY <1>3, <1>a DEF Blocked, Contended, SoftDeadline, Over, Continue, Goto, TypeOK
  <1>4. ASSUME NEW p \in Procs, Judge(p) PROVE Accounted(q)'
    <2>1. take[p].at # "verify"
      BY <1>4 DEF Judge, IInv, TakeInv, T!Taking
    <2> QED
      BY <1>4, <1>a, <2>1 DEF Judge, Goto, NextTry, T!StartTake, TypeOK
  <1>5. ASSUME NEW p \in Procs, Leave(p) PROVE Accounted(q)'
    <2>1. take[p].at # "verify"
      BY <1>5 DEF Leave, IInv, TakeInv, T!Taking
    <2> QED
      BY <1>5, <1>a, <2>1 DEF Leave, Goto, T!StartTake, TypeOK
  <1>6. ASSUME NEW p \in Procs, Take(p) PROVE Accounted(q)'
    <2>1. TakeOf(p) /\ TokenOf(p) /\ T!Taking(p)
      BY <1>6 DEF Take, T!TakeStep, T!Rename, T!Drop, T!Restore, T!Taking,
                  IInv, TokenInv, TakeInv, TokenOf, TakeOf
    <2>2. UNCHANGED now
      BY <1>6 DEF Take
    <2>3. pc'[q] = "crit" => pc[q] = "crit" /\ token'[q] = token[q] /\ p # q
      <3>1. pc[p] \in {"steal", "release"}
        BY <2>1 DEF TakeOf
      <3> QED
        BY <1>6, <1>a, <3>1 DEF Take, Over, Continue, Goto, NextTry, TypeOK
    <2>4. CASE T!Rename(p)
      BY <1>a, <2>2, <2>3, <2>4 DEF T!Rename, T!EndTake, T!NotTaking, TypeOK
    <2>5. CASE T!Drop(p)
      <3>1. pc'[q] = "crit" /\ now < token[q].exp => take[p].got # token[q]
        BY <1>a, <2>1, <2>3, <2>5 DEF T!Drop, TakeOf, TokenOf, Owned, Contents, TypeOK
      <3> QED
        BY <1>a, <2>2, <2>3, <2>5, <3>1 DEF T!Drop, T!EndTake, T!NotTaking, TypeOK
    <2>6. CASE T!Restore(p)
      <3>1. ASSUME token[q] = take[p].got PROVE token[q] = path' \/ token[q] \in displaced'
        BY <2>6, <3>1 DEF T!Restore
      <3>2. path = token[q] => path' = token[q] \/ token[q] = NoFile
        BY <2>6 DEF T!Restore
      <3>3. displaced \subseteq displaced'
        BY <2>6 DEF T!Restore
      <3>4. \A r \in Procs : r # p => take'[r] = take[r]
        BY <1>a, <2>6 DEF T!Restore, T!EndTake, TypeOK
      <3>5. pc[q] = "crit" => token[q] # NoFile
        BY <1>a DEF TokenOf, Owned, Contents
      <3> QED
        BY <1>a, <2>2, <2>3, <3>1, <3>2, <3>3, <3>4, <3>5
    <2> QED
      BY <1>6, <2>4, <2>5, <2>6 DEF Take, T!TakeStep
  <1>7. ASSUME NEW p \in Procs, Crash(p) PROVE Accounted(q)'
    BY <1>7, <1>a DEF Crash, T!AbandonTake, T!EndTake, T!NotTaking, Over, Goto, TypeOK
  <1>8. CASE Tick
    BY <1>8, <1>a DEF Tick, TypeOK, TokenOf, Owned, Contents
  <1>9. CASE UNCHANGED vars
    BY <1>9, <1>a DEF vars
  <1> QED
    BY <1>1, <1>2, <1>3, <1>4, <1>5, <1>6, <1>7, <1>8, <1>9 DEF Next, Step

\* The inductive invariant holds in every reachable state.
THEOREM Invariance == Spec => []IInv
  <1>1. IInv /\ [Next]_vars => IInv'
    BY TypeStep, TokenStep, TakeInvStep, NoReclaimStep, LiveStep DEF IInv
  <1> QED
    BY InitIInv, <1>1, PTL DEF Spec

\* Every variable keeps its type.
THEOREM TypeCorrect == Spec => []TypeOK
  BY Invariance, PTL DEF IInv

\* file-lock.ts destroys an unexpired lease on no path but the yank window its
\* comment admits, for any number of contenders, calls and crashes.
THEOREM LiveLeaseSafe == Spec => []LiveLeaseAccounted
  BY Invariance, PTL DEF IInv

\* Two unexpired holders at once imply that one of them was yanked.
THEOREM ExclusionSafe == Spec => []ExclusionOutsideYankWindow
  <1>1. IInv => ExclusionOutsideYankWindow
    <2> SUFFICES ASSUME IInv, NEW p \in LiveHolders, NEW q \in LiveHolders, p # q
                 PROVE  \E r \in {p, q} : token[r] \in T!InGraves \cup displaced
      BY DEF ExclusionOutsideYankWindow
    <2>1. token[p] # token[q]
      BY DEF IInv, TokenInv, Owned, LiveHolders
    <2> QED
      BY <2>1 DEF IInv, LiveLeaseAccounted
  <1> QED
    BY Invariance, <1>1, PTL

\* With reclaimStale: false at most one process is inside, expired or not.
THEOREM NoReclaimSafe == Spec => []NoReclaimExclusion
  <1>1. IInv => NoReclaimExclusion
    BY DEF IInv, NoReclaimInv, TokenInv, Owned, NoReclaimExclusion
  <1> QED
    BY Invariance, <1>1, PTL
=============================================================================
