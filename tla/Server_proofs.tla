---------------------------- MODULE Server_proofs ----------------------------
(***************************************************************************)
(* The control plane (packages/server).  Its supervisor keeps the promises *)
(* of RunRecord, and no ended run shows live activity, for any number of   *)
(* runs, stop calls and crashes.  Replay and live delivery of the log of a *)
(* run are exact and complete, for any number of clients, streams, lines   *)
(* and restarts.  Two daemons share a state file only where a claim was    *)
(* yanked, for any number of starts, pids, reclaim attempts and kills.     *)
(***************************************************************************)
EXTENDS Supervisor, LogBroker, StatePathLock, TLAPS

\* A run without a process has no record; a child's record has not been closed by an
\* outcome; and the stops that wait or are about to resume are of recorded runs.
HandleInv ==
    /\ \A r \in Runs : proc[r] = "none" => status[r] = "none"
    /\ \A r \in children : status[r] \in {"running", "paused", "abandoned"}
    /\ \A s \in StopCalls : /\ grace[s] # NoRun => status[grace[s]] # "none"
                            /\ settled[s] # NoRun => status[settled[s]] # "none"

IInv == TypeOK /\ HandleInv /\ NoGhostActivity

\* The initial states satisfy the inductive invariant.
LEMMA InitIInv == Init => IInv
  BY DEF Init, IInv, TypeOK, HandleInv, NoGhostActivity

\* What the daemon's variables and the count of crashes become when it dies.
LEMMA CrashTypes ==
  ASSUME crashes \in Nat, CanCrash, Down
  PROVE  /\ up' \in BOOLEAN /\ children' \subseteq Runs /\ tailers' \subseteq Runs
         /\ grace' \in [StopCalls -> Runs \cup {NoRun}]
         /\ settled' \in [StopCalls -> Runs \cup {NoRun}]
         /\ crashes' \in Nat
  <1>1. crashes' \in Nat
    BY DEF CanCrash
  <1>2. up' \in BOOLEAN
    BY DEF Down
  <1> QED
    BY <1>1, <1>2 DEF Down

\* Every step keeps the types, one step per action.
LEMMA TypeStep == IInv /\ [Next]_vars => TypeOK'
  <1> SUFFICES ASSUME IInv, [Next]_vars PROVE TypeOK'
    OBVIOUS
  <1> USE DEF IInv, TypeOK
  <1>1. ASSUME NEW r \in Runs, Start(r) PROVE TypeOK'
    <2>1. CASE CanCrash /\ Down /\ UNCHANGED store
      BY <1>1, <2>1, CrashTypes DEF Start, store
    <2>2. CASE /\ NewRecord(r, TRUE)
               /\ children' = children \cup {r} /\ tailers' = tailers \cup {r}
               /\ UNCHANGED <<up, grace, settled, crashes>>
      BY <1>1, <2>2 DEF Start, NewRecord
    <2> QED
      BY <1>1, <2>1, <2>2 DEF Start
  <1>2. ASSUME NEW r \in Runs, StartFails(r) PROVE TypeOK'
    BY <1>2, CrashTypes DEF StartFails, NewRecord
  <1>3. ASSUME NEW r \in Runs, Activity(r) \/ Pause(r) PROVE TypeOK'
    BY <1>3 DEF Activity, Pause, daemon
  <1>4. ASSUME NEW r \in Runs, HandleExit(r) PROVE TypeOK'
    BY <1>4 DEF HandleExit, Close, outcome
  <1>5. ASSUME NEW r \in Runs, Dies(r) PROVE TypeOK'
    BY <1>5 DEF Dies, store, daemon
  <1>6. ASSUME NEW r \in Runs, NEW s \in StopCalls, Stop(s, r) PROVE TypeOK'
    BY <1>6 DEF Stop, Close, store
  <1>7. ASSUME NEW s \in StopCalls, StopTimesOut(s) PROVE TypeOK'
    BY <1>7 DEF StopTimesOut, store
  <1>8. ASSUME NEW s \in StopCalls, StopReturns(s) PROVE TypeOK'
    BY <1>8 DEF StopReturns, Close
  <1>9. ASSUME Crash PROVE TypeOK'
    BY <1>9, CrashTypes DEF Crash, store
  <1>10. ASSUME Boot PROVE TypeOK'
    BY <1>10 DEF Boot
  <1>11. ASSUME UNCHANGED vars PROVE TypeOK'
    BY <1>11 DEF vars, store, daemon
  <1> QED
    BY <1>1, <1>2, <1>3, <1>4, <1>5, <1>6, <1>7, <1>8, <1>9, <1>10, <1>11 DEF Next

\* No handler forgets what its handles refer to, one step per action.
LEMMA HandleStep == IInv /\ [Next]_vars => HandleInv'
  <1> SUFFICES ASSUME IInv, [Next]_vars PROVE HandleInv'
    OBVIOUS
  <1> USE DEF IInv, TypeOK, HandleInv
  <1>1. ASSUME NEW r \in Runs, Start(r) PROVE HandleInv'
    BY <1>1 DEF Start, NewRecord, CanCrash, Down, store
  <1>2. ASSUME NEW r \in Runs, StartFails(r) PROVE HandleInv'
    BY <1>2 DEF StartFails, NewRecord, CanCrash, Down
  <1>3. ASSUME NEW r \in Runs, Activity(r) \/ Pause(r) PROVE HandleInv'
    BY <1>3 DEF Activity, Pause, daemon
  <1>4. ASSUME NEW r \in Runs, HandleExit(r) PROVE HandleInv'
    BY <1>4 DEF HandleExit, Close, outcome
  <1>5. ASSUME NEW r \in Runs, Dies(r) PROVE HandleInv'
    BY <1>5 DEF Dies, store, daemon
  <1>6. ASSUME NEW r \in Runs, NEW s \in StopCalls, Stop(s, r) PROVE HandleInv'
    BY <1>6 DEF Stop, Recorded, Close, store
  <1>7. ASSUME NEW s \in StopCalls, StopTimesOut(s) PROVE HandleInv'
    BY <1>7 DEF StopTimesOut, store
  <1>8. ASSUME NEW s \in StopCalls, StopReturns(s) PROVE HandleInv'
    BY <1>8 DEF StopReturns, Close
  <1>9. ASSUME Crash PROVE HandleInv'
    BY <1>9 DEF Crash, CanCrash, Down, store
  <1>10. ASSUME Boot PROVE HandleInv'
    BY <1>10 DEF Boot
  <1>11. ASSUME UNCHANGED vars PROVE HandleInv'
    BY <1>11 DEF vars, store, daemon
  <1> QED
    BY <1>1, <1>2, <1>3, <1>4, <1>5, <1>6, <1>7, <1>8, <1>9, <1>10, <1>11 DEF Next

\* No step leaves activity in a closed record: the closing ones clear it, and the
\* tailer looks at the status.
LEMMA GhostStep == IInv /\ [Next]_vars => NoGhostActivity'
  <1> SUFFICES ASSUME IInv, [Next]_vars PROVE NoGhostActivity'
    OBVIOUS
  <1> USE DEF IInv, TypeOK, NoGhostActivity
  <1>1. ASSUME NEW r \in Runs, Start(r) \/ StartFails(r) PROVE NoGhostActivity'
    BY <1>1 DEF Start, StartFails, NewRecord, store
  <1>2. ASSUME NEW r \in Runs, Activity(r) \/ Pause(r) PROVE NoGhostActivity'
    BY <1>2 DEF Activity, Pause
  <1>3. ASSUME NEW r \in Runs, HandleExit(r) PROVE NoGhostActivity'
    BY <1>3 DEF HandleExit, Close
  <1>4. ASSUME NEW r \in Runs, NEW s \in StopCalls, Stop(s, r) PROVE NoGhostActivity'
    BY <1>4 DEF Stop, Close, store
  <1>5. ASSUME NEW s \in StopCalls, StopReturns(s) PROVE NoGhostActivity'
    BY <1>5 DEF StopReturns, Close
  <1>6. ASSUME Boot PROVE NoGhostActivity'
    BY <1>6 DEF Boot
  <1>7. ASSUME UNCHANGED store PROVE NoGhostActivity'
    BY <1>7 DEF store
  <1> QED
    BY <1>1, <1>2, <1>3, <1>4, <1>5, <1>6, <1>7
    DEF Next, Dies, StopTimesOut, Crash, vars

\* The inductive invariant holds in every reachable state.
THEOREM Invariance == Spec => []IInv
  <1>1. IInv /\ [Next]_vars => IInv'
    BY TypeStep, HandleStep, GhostStep DEF IInv
  <1> QED
    BY InitIInv, <1>1, PTL DEF Spec

\* Every variable keeps its type.
THEOREM TypeCorrect == Spec => []TypeOK
  BY Invariance, PTL DEF IInv

\* supervisor.ts leaves no activity in the record of a run that ended, whichever of an
\* exit, a stop, a poll or a boot comes first.
THEOREM NoGhostSafe == Spec => []NoGhostActivity
  BY Invariance, PTL DEF IInv

\* A step of the daemon is a step of the record, or changes neither status nor process.
LEMMA RefinesStep == IInv /\ [Next]_vars => [Record!Next]_<<status, proc>>
  <1> DEFINE Step == [Record!Next]_<<status, proc>>
  <1> SUFFICES ASSUME IInv, [Next]_vars PROVE Step
    OBVIOUS
  <1> USE DEF IInv, TypeOK, HandleInv
  <1>1. ASSUME NEW r \in Runs, Start(r) PROVE Step
    <2>1. Record!Spawn(r)
      BY <1>1 DEF Start, NewRecord, store, Record!Spawn, Record!SetStatus
    <2> QED BY <2>1 DEF Record!Next
  <1>2. ASSUME NEW r \in Runs, StartFails(r) PROVE Step
    <2>1. Record!SpawnFails(r)
      BY <1>2 DEF StartFails, NewRecord, Record!SpawnFails, Record!SetStatus
    <2> QED BY <2>1 DEF Record!Next
  <1>3. ASSUME NEW r \in Runs, Activity(r) PROVE Step
    BY <1>3 DEF Activity
  <1>4. ASSUME NEW r \in Runs, Pause(r) PROVE Step
    <2>1. Record!Pause(r)
      BY <1>4 DEF Pause, Record!Pause, Record!SetStatus
    <2> QED BY <2>1 DEF Record!Next
  <1>5. ASSUME NEW r \in Runs, HandleExit(r) PROVE Step
    <2>1. PICK o \in outcome(r) : Close(r, o, FALSE)
      BY <1>5 DEF HandleExit
    <2>2. proc' = proc /\ proc[r] = "dead" /\ r \in children
      BY <1>5 DEF HandleExit
    <2>3. CASE status[r] \in {"paused", "abandoned"}
      \* The status stays as it is.
      BY <2>1, <2>2, <2>3 DEF Close, outcome
    <2>4. CASE status[r] = "running"
      <3>1. Record!Finish(r)
        BY <2>1, <2>2, <2>4 DEF Close, outcome, Record!Finish, Record!SetStatus
      <3> QED BY <3>1 DEF Record!Next
    <2> QED BY <2>2, <2>3, <2>4
  <1>6. ASSUME NEW r \in Runs, Dies(r) PROVE Step
    <2>1. Record!Dies(r)
      BY <1>6 DEF Dies, store, Record!Dies
    <2> QED BY <2>1 DEF Record!Next
  <1>7. ASSUME NEW r \in Runs, status[r] # "none", Close(r, "abandoned", pid[r]), proc' = proc
        PROVE  Step
    <2>1. Record!Abandon({r})
      BY <1>7 DEF Close, Record!Abandon
    <2> QED BY <2>1 DEF Record!Next
  <1>8. ASSUME NEW r \in Runs, NEW s \in StopCalls, Stop(s, r) PROVE Step
    BY <1>7, <1>8 DEF Stop, Recorded, store
  <1>9. ASSUME NEW s \in StopCalls, StopReturns(s) PROVE Step
    BY <1>7, <1>9 DEF StopReturns
  <1>10. ASSUME Boot PROVE Step
    <2> DEFINE live == {r \in Runs : status[r] \in {"running", "paused"}}
    <2>1. PICK recycled \in SUBSET {r \in Runs : proc[r] = "dead"} :
             LET found == {r \in live : pid[r] /\ (proc[r] = "alive" \/ r \in recycled)}
             IN  status' = [r \in Runs |-> IF r \in live \ found THEN "abandoned" ELSE status[r]]
      BY <1>10 DEF Boot
    <2> DEFINE lost == live \ {r \in live : pid[r] /\ (proc[r] = "alive" \/ r \in recycled)}
    <2>2. Record!Abandon(lost)
      BY <1>10, <2>1 DEF Boot, Record!Abandon
    <2>3. lost \in SUBSET Runs
      OBVIOUS
    <2> QED BY <2>2, <2>3 DEF Record!Next
  <1>11. ASSUME UNCHANGED <<status, proc>> PROVE Step
    BY <1>11
  <1> QED
    BY <1>1, <1>2, <1>3, <1>4, <1>5, <1>6, <1>8, <1>9, <1>10, <1>11
    DEF Next, StopTimesOut, Crash, vars, store

\* The supervisor implements RunRecord.
THEOREM Refines == Spec => ImplementsRunRecord
  <1>1. Init => Record!Init
    BY DEF Init, Record!Init
  <1> QED
    BY <1>1, Invariance, RefinesStep, PTL DEF Spec, ImplementsRunRecord, Record!Spec

-----------------------------------------------------------------------------
(* The log of one run.                                                     *)

\* The first n lines of the file, and those after line m up to line n.
Upto(n) == [i \in 1..n |-> i]
After(m, n) == [i \in 1..(n - m) |-> m + i]

\* A client that reads the file has a prefix of what was there at its watermark, and its
\* queue has everything after the watermark; a live one has everything.
ClientInv ==
    \A c \in Clients :
        /\ phase[c] = "new" => got[c] = Upto(0) /\ queue[c] = Upto(0)
        /\ phase[c] = "replay" =>
              /\ Len(got[c]) <= snapshot[c] /\ snapshot[c] <= written
              /\ queue[c] = After(snapshot[c], written)
        /\ phase[c] = "live" => queue[c] = Upto(0)

BrokerInv == BrokerTypeOK /\ ReplayExact /\ LiveIsCurrent /\ ClientInv

-----------------------------------------------------------------------------
\* Upto and After are the sequences they look like.
LEMMA UptoSeq ==
  ASSUME NEW n \in 0..MaxLines
  PROVE  Upto(n) \in Seq(1..MaxLines) /\ Len(Upto(n)) = n
  BY LogBrokerAssumption DEF Upto

LEMMA AfterSeq ==
  ASSUME NEW n \in 0..MaxLines, NEW m \in 0..n
  PROVE  After(m, n) \in Seq(1..MaxLines) /\ Len(After(m, n)) = n - m
  BY LogBrokerAssumption DEF After

\* An empty file.
LEMMA UptoZero == Upto(0) = <<>>
  BY DEF Upto

\* Append keeps the type of a sequence of lines.
LEMMA AppendSeq ==
  ASSUME NEW s \in Seq(1..MaxLines), NEW n \in 1..MaxLines
  PROVE  Append(s, n) \in Seq(1..MaxLines)
  OBVIOUS

\* The next line goes to the end of each.
LEMMA AppendUpto ==
  ASSUME NEW n \in Nat PROVE Append(Upto(n), n + 1) = Upto(n + 1)
  BY DEF Upto

LEMMA AppendAfter ==
  ASSUME NEW n \in Nat, NEW m \in 0..n PROVE Append(After(m, n), n + 1) = After(m, n + 1)
  BY DEF After

\* The replay and the queue are the file.
LEMMA JoinUptoAfter ==
  ASSUME NEW n \in Nat, NEW m \in 0..n PROVE Upto(m) \o After(m, n) = Upto(n)
  BY DEF Upto, After

\* Nothing is after the last line.
LEMMA AfterNothing == ASSUME NEW n \in Nat PROVE After(n, n) = Upto(0)
  BY DEF Upto, After

-----------------------------------------------------------------------------
\* What a step may break.
Delivery ==
    /\ written \in 0..MaxLines
    /\ phase \in [Clients -> {"new", "replay", "live", "ended", "gone"}]
    /\ snapshot \in [Clients -> 0..MaxLines]
    /\ got \in [Clients -> Seq(1..MaxLines)] /\ queue \in [Clients -> Seq(1..MaxLines)]
    /\ ReplayExact /\ LiveIsCurrent /\ ClientInv

\* The initial states satisfy the inductive invariant.
LEMMA BrokerInitInv == BrokerInit => BrokerInv
  <1> SUFFICES ASSUME BrokerInit PROVE BrokerInv
    OBVIOUS
  <1> USE DEF BrokerInit
  <1>1. <<>> \in Seq(1..MaxLines) /\ Len(<<>>) = 0
    OBVIOUS
  <1>2. BrokerTypeOK
    <2>1. 0 \in 0..MaxLines /\ 0 \in 0..MaxRestarts
      BY LogBrokerAssumption
    <2> QED
      BY <1>1, <2>1 DEF BrokerTypeOK
  <1>3. ReplayExact
    BY <1>1, UptoZero DEF ReplayExact, Upto
  <1>4. LiveIsCurrent /\ ClientInv
    BY UptoZero DEF LiveIsCurrent, ClientInv
  <1> QED
    BY <1>2, <1>3, <1>4 DEF BrokerInv

\* A line reaches the queue of a client that replays and the end of a live one.
LEMMA EmitStep ==
  ASSUME Delivery, emit, UNCHANGED <<phase, snapshot>> PROVE Delivery'
  <1> USE DEF Delivery, emit
  <1>1. written \in Nat /\ written' = written + 1 /\ written' \in 1..MaxLines
    BY LogBrokerAssumption
  <1>2. got' \in [Clients -> Seq(1..MaxLines)] /\ queue' \in [Clients -> Seq(1..MaxLines)]
    <2>1. \A s \in Seq(1..MaxLines) : Append(s, written') \in Seq(1..MaxLines)
      BY <1>1, AppendSeq
    <2> QED
      BY <2>1
  <1>3. ASSUME NEW c \in Clients, phase[c] = "live"
        PROVE  got'[c] = Upto(written') /\ Len(got'[c]) = written'
    <2>1. got[c] = Upto(written)
      BY <1>3 DEF ReplayExact, LiveIsCurrent, Upto
    <2>2. got'[c] = Append(Upto(written), written + 1)
      BY <1>1, <1>3, <2>1
    <2>3. Append(Upto(written), written + 1) = Upto(written')
      BY <1>1, AppendUpto
    <2>4. Len(Upto(written')) = written'
      BY <1>1, UptoSeq
    <2> QED
      BY <2>2, <2>3, <2>4
  <1>4. ASSUME NEW c \in Clients, phase[c] # "live" PROVE got'[c] = got[c]
    BY <1>4
  <1>5. ReplayExact'
    BY <1>3, <1>4 DEF ReplayExact, Upto
  <1>6. LiveIsCurrent'
    BY <1>3 DEF LiveIsCurrent
  <1>7. ClientInv'
    <2> SUFFICES ASSUME NEW c \in Clients PROVE ClientInv!(c)'
      BY DEF ClientInv
    <2>1. CASE phase[c] = "replay"
      <3>1. queue'[c] = After(snapshot[c], written + 1)
        <4>1. snapshot[c] \in 0..written /\ queue[c] = After(snapshot[c], written)
          BY <2>1 DEF ClientInv
        <4>2. queue'[c] = Append(queue[c], written + 1)
          BY <1>1, <2>1
        <4> QED
          BY <1>1, <4>1, <4>2, AppendAfter
      <3> QED
        BY <1>1, <1>4, <2>1, <3>1 DEF ClientInv
    <2>2. CASE phase[c] # "replay"
      BY <1>4, <2>2 DEF ClientInv
    <2> QED
      BY <2>1, <2>2
  <1> QED
    BY <1>1, <1>2, <1>5, <1>6, <1>7

\* So it does when text without a newline is flushed.
LEMMA FlushStep ==
  ASSUME Delivery, emit \/ noEmit, UNCHANGED <<phase, snapshot>> PROVE Delivery'
  <1>1. CASE emit
    BY <1>1, EmitStep
  <1>2. CASE noEmit
    BY <1>2 DEF noEmit, Delivery, ReplayExact, LiveIsCurrent, ClientInv
  <1> QED
    BY <1>1, <1>2

-----------------------------------------------------------------------------
\* What settle sends is the whole file as it is now.
LEMMA SettleStep ==
  ASSUME Delivery, NEW c \in Clients, settle(c, Upto(written)), UNCHANGED <<written, snapshot>>
  PROVE  Delivery'
  <1> USE DEF Delivery, settle
  <1>1. Upto(written) \in Seq(1..MaxLines) /\ Len(Upto(written)) = written
    BY UptoSeq
  <1>2. <<>> \in Seq(1..MaxLines)
    OBVIOUS
  <1>3. /\ got' \in [Clients -> Seq(1..MaxLines)] /\ queue' \in [Clients -> Seq(1..MaxLines)]
        /\ phase' \in [Clients -> {"new", "replay", "live", "ended", "gone"}]
    BY <1>1, <1>2
  <1>4. ASSUME NEW d \in Clients, d # c
        PROVE  got'[d] = got[d] /\ queue'[d] = queue[d] /\ phase'[d] = phase[d]
    BY <1>4
  <1>5. got'[c] = Upto(written) /\ queue'[c] = Upto(0) /\ phase'[c] \in {"live", "ended"}
    BY UptoZero
  <1>6. ReplayExact'
    BY <1>1, <1>4, <1>5 DEF ReplayExact, Upto
  <1>7. LiveIsCurrent'
    BY <1>1, <1>4, <1>5 DEF LiveIsCurrent
  <1>8. ClientInv'
    BY <1>4, <1>5 DEF ClientInv
  <1> QED
    BY <1>3, <1>6, <1>7, <1>8

\* An attach subscribes its buffer at the watermark, or settles on an empty file.
LEMMA AttachStep == ASSUME BrokerInv, NEW c \in Clients, Attach(c) PROVE Delivery'
  <1> USE DEF BrokerInv, BrokerTypeOK, Attach, broker
  <1>1. snapshot' \in [Clients -> 0..MaxLines] /\ snapshot'[c] = written
    OBVIOUS
  <1>2. CASE written = 0
    <2>1. settle(c, Upto(written))
      BY <1>2, UptoZero
    <2>2. /\ got' = [got EXCEPT ![c] = Upto(written)] /\ queue' = [queue EXCEPT ![c] = Upto(0)]
          /\ phase' = [phase EXCEPT ![c] = IF closed THEN "ended" ELSE "live"]
      BY <2>1, UptoZero DEF settle
    <2>3. Len(Upto(written)) = written /\ Upto(written) \in Seq(1..MaxLines)
      BY UptoSeq
    <2>4. Upto(0) \in Seq(1..MaxLines)
      BY <1>2, <2>3
    <2>5. ReplayExact'
      BY <2>2, <2>3 DEF ReplayExact, Upto
    <2>6. LiveIsCurrent'
      BY <2>2, <2>3 DEF LiveIsCurrent
    <2>7. ClientInv'
      BY <1>1, <2>2 DEF ClientInv
    <2> QED
      BY <1>1, <2>2, <2>3, <2>4, <2>5, <2>6, <2>7 DEF Delivery
  <1>3. CASE written # 0
    <2>1. phase' = [phase EXCEPT ![c] = "replay"] /\ UNCHANGED <<got, queue, written>>
      BY <1>3
    <2>2. /\ Len(got[c]) = 0 /\ queue[c] = After(written, written)
      BY UptoZero, AfterNothing DEF ClientInv
    <2>3. ClientInv'
      BY <1>1, <2>1, <2>2 DEF ClientInv
    <2>4. ReplayExact' /\ LiveIsCurrent'
      BY <2>1 DEF ReplayExact, LiveIsCurrent
    <2> QED
      BY <1>1, <2>1, <2>3, <2>4 DEF Delivery
  <1> QED
    BY <1>2, <1>3

\* One more line of the file.
LEMMA ReplayStep == ASSUME BrokerInv, NEW c \in Clients, Replay(c) PROVE Delivery'
  <1> USE DEF BrokerInv, BrokerTypeOK, Replay, broker
  <1>1. PICK n \in Nat : n = Len(got[c])
    OBVIOUS
  <1>2. n < snapshot[c] /\ snapshot[c] \in 0..written /\ n + 1 \in 1..MaxLines
    <2>1. n < snapshot[c] /\ snapshot[c] <= written
      BY <1>1 DEF ClientInv
    <2>2. snapshot[c] \in 0..MaxLines
      OBVIOUS
    <2> QED
      BY <2>1, <2>2, LogBrokerAssumption
  <1>3. got[c] = Upto(n)
    BY <1>1 DEF ReplayExact, Upto
  <1>4. got' = [got EXCEPT ![c] = Upto(n + 1)]
    BY <1>1, <1>3, AppendUpto
  <1>5. Upto(n + 1) \in Seq(1..MaxLines) /\ Len(Upto(n + 1)) = n + 1
    BY <1>2, UptoSeq
  <1>6. ReplayExact'
    BY <1>4, <1>5 DEF ReplayExact, Upto
  <1>7. LiveIsCurrent'
    BY <1>4 DEF LiveIsCurrent
  <1>8. ClientInv'
    BY <1>2, <1>4, <1>5 DEF ClientInv
  <1> QED
    BY <1>4, <1>5, <1>6, <1>7, <1>8 DEF Delivery

\* The end of a replay.
LEMMA SettledStep == ASSUME BrokerInv, NEW c \in Clients, Settle(c) PROVE Delivery'
  <1> USE DEF BrokerInv, BrokerTypeOK, Settle, broker
  <1>1. got[c] = Upto(snapshot[c]) /\ queue[c] = After(snapshot[c], written)
    BY DEF ReplayExact, ClientInv, Upto
  <1>2. snapshot[c] \in 0..written /\ written \in Nat
    BY LogBrokerAssumption DEF ClientInv
  <1>3. got[c] \o queue[c] = Upto(written)
    BY <1>1, <1>2, JoinUptoAfter
  <1> QED
    BY <1>3, SettleStep DEF Delivery

\* Every step keeps the inductive invariant, one step per action.
LEMMA BrokerStep == BrokerInv /\ [BrokerNext]_brokerVars => BrokerInv'
  <1> SUFFICES ASSUME BrokerInv, [BrokerNext]_brokerVars PROVE BrokerInv'
    OBVIOUS
  <1>1. Delivery
    BY DEF BrokerInv, BrokerTypeOK, Delivery
  <1> DEFINE Rest == /\ restarts \in 0..MaxRestarts /\ pending \in BOOLEAN
                     /\ closed \in BOOLEAN /\ teed \subseteq Streams
  <1>2. Rest
    BY DEF BrokerInv, BrokerTypeOK
  <1>3. ASSUME NEW s \in Streams, Chunk(s) PROVE Delivery' /\ Rest'
    BY <1>1, <1>2, <1>3, FlushStep DEF Chunk
  <1>4. ASSUME NEW s \in Streams, StreamEnds(s) PROVE Delivery' /\ Rest'
    BY <1>1, <1>2, <1>4, FlushStep DEF StreamEnds, flush
  <1>5. ASSUME ChildExits PROVE Delivery' /\ Rest'
    BY <1>1, <1>2, <1>5, FlushStep DEF ChildExits, flush
  <1>6. ASSUME NEW c \in Clients, ClientStep(c) PROVE Delivery' /\ Rest'
    <2>1. Delivery'
      BY <1>6, AttachStep, ReplayStep, SettledStep DEF ClientStep
    <2>2. UNCHANGED <<pending, closed, teed, restarts>>
      BY <1>6 DEF ClientStep, Attach, Replay, Settle, broker
    <2> QED
      BY <1>2, <2>1, <2>2
  <1>7. ASSUME NEW c \in Clients, Leave(c) PROVE Delivery' /\ Rest'
    BY <1>1, <1>2, <1>7 DEF Leave, broker, Delivery, ReplayExact, LiveIsCurrent, ClientInv
  <1>8. ASSUME Restart PROVE Delivery' /\ Rest'
    <2>1. Rest'
      <3>1. restarts' \in 0..MaxRestarts
        BY <1>2, <1>8, LogBrokerAssumption DEF Restart
      <3> QED
        BY <1>8, <3>1 DEF Restart
    <2>2. Delivery'
      BY <1>1, <1>8 DEF Restart, Delivery, ReplayExact, LiveIsCurrent, ClientInv
    <2> QED
      BY <2>1, <2>2
  <1>9. ASSUME UNCHANGED brokerVars PROVE Delivery' /\ Rest'
    BY <1>1, <1>2, <1>9
    DEF brokerVars, broker, client, Delivery, ReplayExact, LiveIsCurrent, ClientInv
  <1>10. Delivery' /\ Rest'
    BY <1>3, <1>4, <1>5, <1>6, <1>7, <1>8, <1>9 DEF BrokerNext
  <1> QED
    BY <1>10 DEF BrokerInv, BrokerTypeOK, Delivery

\* The inductive invariant holds in every reachable state.
THEOREM BrokerInvariance == BrokerSpec => []BrokerInv
  BY BrokerInitInv, BrokerStep, PTL DEF BrokerSpec

\* Every variable keeps its type.
THEOREM BrokerTypeCorrect == BrokerSpec => []BrokerTypeOK
  BY BrokerInvariance, PTL DEF BrokerInv

\* log-broker.ts sends each client the lines of the file once, in order, with no gap,
\* whatever is printed between its watermark and the end of its replay.
THEOREM ReplaySafe == BrokerSpec => []ReplayExact
  BY BrokerInvariance, PTL DEF BrokerInv

\* A live client has missed nothing.
THEOREM LiveSafe == BrokerSpec => []LiveIsCurrent
  BY BrokerInvariance, PTL DEF BrokerInv

-----------------------------------------------------------------------------
(* The lock of the state file.                                             *)

\* Pids are recycled, but no two living daemons share one.
PidInv ==
    /\ \A d \in Daemons : pidOf[d] = 0 <=> ~Alive(d)
    /\ \A d, e \in Daemons : Alive(d) /\ Alive(e) /\ pidOf[d] = pidOf[e] => d = e

\* c was written by a daemon that has acquired the lock, under the pid it has.
Written(c) ==
    /\ c \in Claims
    /\ pc[c.token] \in {"running", "release", "dead"}
    /\ pc[c.token] # "dead" => c.pid = pidOf[c.token]

\* A reclaim wants the claim of a dead daemon, a release its caller's own.
TakeOf(d) ==
    /\ T!Taking(d) <=> pc[d] \in {"reclaim", "release"}
    /\ pc[d] = "reclaim" => take[d].want \in Claims /\ pc[take[d].want.token] = "dead"
    /\ pc[d] = "release" => take[d].want = Claim(d)
    /\ take[d].at = "verify" => Written(take[d].got)

ContentInv ==
    /\ path # NoFile => Written(path)
    /\ \A d \in Daemons : TakeOf(d)

LockInv == LockTypeOK /\ PidInv /\ ContentInv /\ LiveClaimAccounted

-----------------------------------------------------------------------------
\* The initial states satisfy the inductive invariant.
LEMMA LockInitInv == LockInit => LockInv
  <1> SUFFICES ASSUME LockInit PROVE LockInv
    OBVIOUS
  <1> USE DEF LockInit
  <1>1. LockTypeOK
    BY StatePathAssumption DEF LockTypeOK, T!NotTaking
  <1>2. PidInv /\ ContentInv /\ LiveClaimAccounted
    BY DEF PidInv, ContentInv, TakeOf, LiveClaimAccounted, Owners, Alive, T!NotTaking, T!Taking
  <1> QED
    BY <1>1, <1>2 DEF LockInv

\* The types and the pids, one step per action.
LEMMA LockTypeStep == LockInv /\ [LockNext]_lockVars => LockTypeOK'
  <1> SUFFICES ASSUME LockInv, [LockNext]_lockVars PROVE LockTypeOK'
    OBVIOUS
  <1> USE StatePathAssumption DEF LockInv, LockTypeOK
  <1>1. ASSUME NEW d \in Daemons, StartDaemon(d) PROVE LockTypeOK'
    BY <1>1 DEF StartDaemon
  <1>2. ASSUME NEW d \in Daemons, Attempt(d) PROVE LockTypeOK'
    <2>1. attempts[d] + 1 \in 0..MaxReclaims
      BY <1>2 DEF Attempt
    <2>2. path = NoFile => Claim(d) \in Claims
      BY <1>2 DEF Attempt, Claim, Claims, PidInv, Alive
    <2> QED
      BY <1>2, <2>1, <2>2 DEF Attempt
  <1>3. ASSUME NEW d \in Daemons, GiveUp(d) PROVE LockTypeOK'
    BY <1>3 DEF GiveUp, Die
  <1>4. ASSUME NEW d \in Daemons, Read(d) PROVE LockTypeOK'
    BY <1>4 DEF Read, Goto, Die, T!StartTake
  <1>5. ASSUME NEW d \in Daemons, Shutdown(d) PROVE LockTypeOK'
    <2>1. Claim(d) \in Claims
      BY <1>5 DEF Shutdown, Claim, Claims, PidInv, Alive
    <2> QED
      BY <1>5, <2>1 DEF Shutdown, Goto, T!StartTake
  <1>6. ASSUME NEW d \in Daemons, Take(d) PROVE LockTypeOK'
    <2>1. take' \in [Daemons -> [at : {"none", "rename", "verify"},
                                 want : Claims \cup {NoFile}, got : Claims \cup {NoFile}]]
      BY <1>6 DEF Take, T!TakeStep, T!Rename, T!Drop, T!Restore, T!EndTake, T!NotTaking
    <2>2. path' \in Claims \cup {NoFile} /\ displaced' \subseteq Claims
      BY <1>6 DEF Take, T!TakeStep, T!Rename, T!Drop, T!Restore, ContentInv, TakeOf, Written
    <2> QED
      BY <1>6, <2>1, <2>2 DEF Take, Goto, Die
  <1>7. ASSUME NEW d \in Daemons, Kill(d) PROVE LockTypeOK'
    <2>1. kills' \in 0..MaxKills
      BY <1>7 DEF Kill
    <2>2. displaced' \subseteq Claims
      BY <1>7 DEF Kill, T!AbandonTake, ContentInv, TakeOf, Written
    <2> QED
      BY <1>7, <2>1, <2>2 DEF Kill, Die, T!AbandonTake, T!EndTake, T!NotTaking
  <1>8. CASE UNCHANGED lockVars
    BY <1>8 DEF lockVars
  <1> QED
    BY <1>1, <1>2, <1>3, <1>4, <1>5, <1>6, <1>7, <1>8 DEF LockNext

\* A boot takes a free pid and a death frees one.
LEMMA PidStep == LockInv /\ [LockNext]_lockVars => PidInv'
  <1> SUFFICES ASSUME LockInv, [LockNext]_lockVars PROVE PidInv'
    OBVIOUS
  <1> USE StatePathAssumption DEF LockInv, LockTypeOK, PidInv, Alive
  <1>1. ASSUME NEW d \in Daemons, StartDaemon(d) PROVE PidInv'
    BY <1>1 DEF StartDaemon, isPidAlive
  <1>2. ASSUME NEW d \in Daemons, Attempt(d) PROVE PidInv'
    BY <1>2 DEF Attempt
  <1>3. ASSUME NEW d \in Daemons, Die(d) PROVE PidInv'
    BY <1>3 DEF Die
  <1>4. ASSUME NEW d \in Daemons, Read(d) \/ Shutdown(d) PROVE PidInv'
    BY <1>3, <1>4 DEF Read, Shutdown, Goto
  <1>5. ASSUME NEW d \in Daemons, GiveUp(d) \/ Kill(d) PROVE PidInv'
    BY <1>3, <1>5 DEF GiveUp, Kill
  <1>6. ASSUME NEW d \in Daemons, Take(d) PROVE PidInv'
    BY <1>3, <1>6 DEF Take, Goto
  <1>7. CASE UNCHANGED lockVars
    BY <1>7 DEF lockVars
  <1> QED
    BY <1>1, <1>2, <1>4, <1>5, <1>6, <1>7 DEF LockNext

\* A written claim stays written: its daemon never starts again.
LEMMA WrittenStep ==
  ASSUME LockInv, [LockNext]_lockVars, NEW c, Written(c) PROVE Written(c)'
  <1> USE DEF LockInv, LockTypeOK, Written, Claims
  <1>1. ASSUME NEW d \in Daemons, StartDaemon(d) \/ Attempt(d) PROVE Written(c)'
    BY <1>1 DEF StartDaemon, Attempt
  <1>2. ASSUME NEW d \in Daemons, Die(d) PROVE Written(c)'
    BY <1>2 DEF Die
  <1>3. ASSUME NEW d \in Daemons, Read(d) \/ Shutdown(d) \/ GiveUp(d) \/ Kill(d) PROVE Written(c)'
    BY <1>2, <1>3 DEF Read, Shutdown, GiveUp, Kill, Goto
  <1>4. ASSUME NEW d \in Daemons, Take(d) PROVE Written(c)'
    BY <1>2, <1>4 DEF Take, Goto
  <1>5. CASE UNCHANGED lockVars
    BY <1>5 DEF lockVars
  <1> QED
    BY <1>1, <1>3, <1>4, <1>5 DEF LockNext

\* The owner a reclaim was decided on is dead: a living one has the reader's pid, but a
\* reader has written no claim, or a pid that is alive.
LEMMA ReadDead ==
  ASSUME LockInv, NEW d \in Daemons, pc[d] = "read", path # NoFile,
         path.pid = pidOf[d] \/ ~isPidAlive(path.pid)
  PROVE  path \in Claims /\ pc[path.token] = "dead"
  BY DEF LockInv, ContentInv, Written, PidInv, isPidAlive, Alive, Claims

\* What a dead daemon was, it stays.
LEMMA DeadStep ==
  ASSUME LockInv, [LockNext]_lockVars, NEW e \in Daemons, pc[e] = "dead" PROVE pc'[e] = "dead"
  <1> USE DEF LockInv, LockTypeOK
  <1>1. ASSUME NEW d \in Daemons, Die(d) PROVE pc'[e] = "dead"
    BY <1>1 DEF Die
  <1>2. ASSUME NEW d \in Daemons,
               StartDaemon(d) \/ Attempt(d) \/ GiveUp(d) \/ Read(d) \/ Shutdown(d) \/ Kill(d)
        PROVE  pc'[e] = "dead"
    BY <1>1, <1>2 DEF StartDaemon, Attempt, GiveUp, Read, Shutdown, Kill, Goto
  <1>3. ASSUME NEW d \in Daemons, Take(d) PROVE pc'[e] = "dead"
    <2>1. pc[d] # "dead"
      BY <1>3 DEF Take, T!TakeStep, T!Rename, T!Drop, T!Restore, T!Taking, ContentInv, TakeOf
    <2> QED
      BY <1>1, <1>3, <2>1 DEF Take, Goto
  <1>4. CASE UNCHANGED lockVars
    BY <1>4 DEF lockVars
  <1> QED
    BY <1>2, <1>3, <1>4 DEF LockNext

\* Files and graves hold written claims, and takes want what they should.
LEMMA ContentStep == LockInv /\ [LockNext]_lockVars => ContentInv'
  <1> SUFFICES ASSUME LockInv, [LockNext]_lockVars PROVE ContentInv'
    OBVIOUS
  <1> USE NoFileAssumption, StatePathAssumption DEF T!Taking
  <1>a. LockTypeOK /\ ContentInv /\ PidInv
    BY DEF LockInv
  <1>w. \A c : Written(c) => Written(c)'
    BY WrittenStep
  <1>x. \A d \in Daemons : pc[d] = "dead" => pc'[d] = "dead"
    BY DeadStep
  <1>p. path' = path => (path # NoFile => Written(path))'
    BY <1>a, <1>w DEF ContentInv, Written
  <1>t. ASSUME NEW e \in Daemons, take'[e] = take[e], pc'[e] = pc[e], pidOf'[e] = pidOf[e]
        PROVE  TakeOf(e)'
    <2>1. (T!Taking(e) <=> pc[e] \in {"reclaim", "release"})'
      BY <1>t, <1>a DEF ContentInv, TakeOf
    <2>2. (pc[e] = "reclaim" => take[e].want \in Claims /\ pc[take[e].want.token] = "dead")'
      BY <1>t, <1>a, <1>x DEF ContentInv, TakeOf, Claims
    <2>3. (pc[e] = "release" => take[e].want = Claim(e))'
      <3>1. pc[e] = "release" => take[e].want = Claim(e)
        BY <1>a DEF ContentInv, TakeOf
      <3>2. Claim(e)' = Claim(e)
        BY <1>t DEF Claim
      <3> QED
        BY <1>t, <3>1, <3>2
    <2>4. (take[e].at = "verify" => Written(take[e].got))'
      BY <1>t, <1>a, <1>w DEF ContentInv, TakeOf, Written
    <2> QED
      BY <2>1, <2>2, <2>3, <2>4 DEF TakeOf
  <1>n. ASSUME NEW e \in Daemons, take'[e] = T!NotTaking, pc'[e] \notin {"reclaim", "release"}
        PROVE  TakeOf(e)'
    BY <1>n DEF TakeOf, T!NotTaking
  <1>c. ASSUME NEW d \in Daemons, (path # NoFile => Written(path))', TakeOf(d)',
               \A e \in Daemons \ {d} :
                 take'[e] = take[e] /\ pc'[e] = pc[e] /\ pidOf'[e] = pidOf[e]
        PROVE  ContentInv'
    BY <1>c, <1>t DEF ContentInv
  <1>1. ASSUME NEW d \in Daemons, StartDaemon(d) PROVE ContentInv'
    <2>1. TakeOf(d)'
      BY <1>1, <1>a DEF StartDaemon, ContentInv, TakeOf, LockTypeOK
    <2> QED
      BY <1>1, <1>a, <1>p, <1>c, <2>1 DEF StartDaemon, LockTypeOK
  <1>2. ASSUME NEW d \in Daemons, Attempt(d) PROVE ContentInv'
    <2>1. (path # NoFile => Written(path))'
      <3>1. CASE path = NoFile
        BY <1>2, <1>a, <3>1 DEF Attempt, Written, Claim, Claims, PidInv, Alive, LockTypeOK
      <3>2. CASE path # NoFile
        BY <1>2, <1>p, <3>2 DEF Attempt
      <3> QED
        BY <3>1, <3>2
    <2>2. TakeOf(d)'
      BY <1>2, <1>a DEF Attempt, ContentInv, TakeOf, LockTypeOK
    <2> QED
      BY <1>2, <1>a, <1>c, <2>1, <2>2 DEF Attempt, LockTypeOK
  <1>3. ASSUME NEW d \in Daemons, GiveUp(d) PROVE ContentInv'
    <2>1. TakeOf(d)'
      BY <1>3, <1>a DEF GiveUp, Die, ContentInv, TakeOf, LockTypeOK
    <2> QED
      BY <1>3, <1>a, <1>p, <1>c, <2>1 DEF GiveUp, Die, LockTypeOK
  <1>4. ASSUME NEW d \in Daemons, Read(d) PROVE ContentInv'
    <2>1. CASE path # NoFile /\ Goto(d, "reclaim") /\ T!StartTake(d, path)
               /\ (path.pid = pidOf[d] \/ ~isPidAlive(path.pid))
      <3>1. path \in Claims /\ pc[path.token] = "dead"
        BY <1>4, <2>1, ReadDead DEF Read
      <3>2. pc'[path.token] = "dead"
        BY <3>1, <1>x DEF Claims
      <3>3. TakeOf(d)'
        BY <1>a, <2>1, <3>1, <3>2 DEF Goto, T!StartTake, TakeOf, LockTypeOK
      <3> QED
        BY <1>4, <1>a, <1>p, <1>c, <2>1, <3>3 DEF Read, Goto, T!StartTake, LockTypeOK
    <2>2. CASE Goto(d, "attempt") /\ UNCHANGED take
      <3>1. TakeOf(d)'
        BY <1>4, <1>a, <2>2 DEF Read, Goto, ContentInv, TakeOf, LockTypeOK
      <3> QED
        BY <1>4, <1>a, <1>p, <1>c, <2>2, <3>1 DEF Read, Goto, LockTypeOK
    <2>3. CASE Die(d) /\ UNCHANGED take
      <3>1. TakeOf(d)'
        BY <1>4, <1>a, <2>3 DEF Read, Die, ContentInv, TakeOf, LockTypeOK
      <3> QED
        BY <1>4, <1>a, <1>p, <1>c, <2>3, <3>1 DEF Read, Die, LockTypeOK
    <2> QED
      BY <1>4, <2>1, <2>2, <2>3 DEF Read
  <1>5. ASSUME NEW d \in Daemons, Shutdown(d) PROVE ContentInv'
    <2>1. TakeOf(d)'
      BY <1>5, <1>a DEF Shutdown, Goto, T!StartTake, TakeOf, Claim, LockTypeOK
    <2> QED
      BY <1>5, <1>a, <1>p, <1>c, <2>1 DEF Shutdown, Goto, T!StartTake, LockTypeOK
  <1>6. ASSUME NEW d \in Daemons, Take(d) PROVE ContentInv'
    <2>1. TakeOf(d) /\ T!Taking(d) /\ pc[d] \in {"reclaim", "release"}
      BY <1>6, <1>a DEF Take, T!TakeStep, T!Rename, T!Drop, T!Restore, ContentInv, TakeOf
    <2>2. (path # NoFile => Written(path))'
      <3>1. CASE path' \in {path, NoFile}
        BY <1>p, <3>1
      <3>2. CASE path' \notin {path, NoFile}
        <4>1. take[d].at = "verify" /\ path' = take[d].got
          BY <1>6, <3>2 DEF Take, T!TakeStep, T!Rename, T!Drop, T!Restore
        <4> QED
          BY <2>1, <4>1, <1>w DEF TakeOf, Written
      <3> QED
        BY <3>1, <3>2
    <2>3. \A e \in Daemons \ {d} : take'[e] = take[e] /\ pc'[e] = pc[e] /\ pidOf'[e] = pidOf[e]
      BY <1>6, <1>a DEF Take, T!TakeStep, T!Rename, T!Drop, T!Restore, T!EndTake, Goto, Die, LockTypeOK
    <2>4. TakeOf(d)'
      <3>1. CASE take'[d] = T!NotTaking
        BY <1>6, <1>a, <1>n, <3>1 DEF Take, Goto, Die, LockTypeOK
      <3>2. CASE take'[d] # T!NotTaking
        <4>1. path # NoFile /\ take' = [take EXCEPT ![d].at = "verify", ![d].got = path]
          BY <1>6, <1>a, <3>2 DEF Take, T!TakeStep, T!Rename, T!Drop, T!Restore, T!EndTake, LockTypeOK
        <4>2. pc' = pc /\ pidOf' = pidOf
          BY <1>6, <1>a, <3>2 DEF Take, Goto, LockTypeOK
        <4>3. take'[d].at = "verify" /\ take'[d].got = path /\ take'[d].want = take[d].want
          BY <4>1, <1>a DEF LockTypeOK
        <4> QED
          BY <1>a, <2>1, <4>1, <4>2, <4>3 DEF TakeOf, Claim, ContentInv, Written
      <3> QED
        BY <3>1, <3>2
    <2> QED
      BY <1>c, <2>2, <2>3, <2>4
  <1>7. ASSUME NEW d \in Daemons, Kill(d) PROVE ContentInv'
    <2>1. TakeOf(d)'
      BY <1>7, <1>a, <1>n DEF Kill, Die, T!AbandonTake, T!EndTake, LockTypeOK
    <2> QED
      BY <1>7, <1>a, <1>p, <1>c, <2>1 DEF Kill, Die, T!AbandonTake, T!EndTake, LockTypeOK
  <1>8. CASE UNCHANGED lockVars
    BY <1>8, <1>a, <1>p, <1>t DEF lockVars, ContentInv
  <1> QED
    BY <1>1, <1>2, <1>3, <1>4, <1>5, <1>6, <1>7, <1>8 DEF LockNext

\* Where the claim of a running daemon can be.
Accounted(c) == path = c \/ c \in T!InGraves \/ c \in displaced

\* A running daemon's claim stays accounted for: a reclaim drops the claim of a dead
\* daemon, a release its caller's own, and every other claim goes back or is displaced.
LEMMA LiveStep == LockInv /\ [LockNext]_lockVars => LiveClaimAccounted'
  <1> SUFFICES ASSUME LockInv, [LockNext]_lockVars, NEW d \in Daemons, pc'[d] = "running"
               PROVE  Accounted(Claim(d))'
    BY DEF LiveClaimAccounted, Owners, Accounted
  <1> USE NoFileAssumption DEF T!Taking
  <1>a. LockTypeOK /\ ContentInv /\ PidInv
    BY DEF LockInv
  <1>1. CASE pc[d] # "running"
    <2>1. Attempt(d)
      BY <1>1, <1>a DEF LockNext, StartDaemon, Attempt, GiveUp, Read, Shutdown, Take, Kill, Goto, Die, lockVars, LockTypeOK
    <2>2. path' = Claim(d) /\ pidOf' = pidOf
      BY <1>1, <1>a, <2>1 DEF Attempt, LockTypeOK
    <2> QED
      BY <2>2 DEF Accounted, Claim
  <1>2. CASE pc[d] = "running"
    <2>0. PICK c : c = Claim(d)
      OBVIOUS
    <2>1. Accounted(c) /\ c \in Claims /\ c.token = d
      BY <2>0, <1>2, <1>a
      DEF LockInv, LiveClaimAccounted, Owners, Accounted, Claim, Claims, PidInv, Alive, LockTypeOK
    <2>2. ASSUME NEW f \in Daemons, StartDaemon(f) \/ Attempt(f) \/ GiveUp(f) \/ Read(f)
                                    \/ Shutdown(f) \/ Take(f) \/ Kill(f)
          PROVE  f # d
      <3>1. ~Take(d)
        BY <1>2, <1>a DEF Take, T!TakeStep, T!Rename, T!Drop, T!Restore, ContentInv, TakeOf
      <3> QED
        BY <2>2, <3>1, <1>2, <1>a
        DEF StartDaemon, Attempt, GiveUp, Read, Shutdown, Kill, Goto, Die, LockTypeOK
    <2>3. Claim(d)' = c
      <3>1. pidOf'[d] = pidOf[d]
        BY <2>2, <1>a
        DEF LockNext, StartDaemon, Attempt, GiveUp, Read, Shutdown, Take, Kill, Goto, Die, lockVars, LockTypeOK
      <3> QED
        BY <2>0, <3>1 DEF Claim
    <2>4. ASSUME path' = path, displaced' = displaced,
                 \A g \in Daemons : take[g].at = "verify" => take'[g] = take[g]
          PROVE  Accounted(c)'
      BY <2>1, <2>4 DEF Accounted, T!InGraves
    <2>5. ASSUME NEW f \in Daemons, StartDaemon(f) \/ GiveUp(f) PROVE Accounted(c)'
      BY <2>5, <2>4 DEF StartDaemon, GiveUp
    <2>6. ASSUME NEW f \in Daemons, Attempt(f) PROVE Accounted(c)'
      <3>1. CASE path = NoFile
        <4>1. c \in T!InGraves \/ c \in displaced
          BY <2>1, <3>1 DEF Accounted, Claims
        <4> QED
          BY <2>6, <4>1 DEF Attempt, Accounted, T!InGraves
      <3>2. CASE path # NoFile
        BY <2>6, <2>4, <3>2 DEF Attempt
      <3> QED
        BY <3>1, <3>2
    <2>7. ASSUME NEW f \in Daemons, Read(f) \/ Shutdown(f) PROVE Accounted(c)'
      <3>1. take[f].at = "none"
        BY <2>7, <1>a DEF Read, Shutdown, ContentInv, TakeOf
      <3>2. \A g \in Daemons \ {f} : take'[g] = take[g]
        BY <2>7, <1>a DEF Read, Shutdown, T!StartTake, LockTypeOK
      <3> QED
        BY <2>7, <2>4, <3>1, <3>2 DEF Read, Shutdown
    <2>8. ASSUME NEW g \in Daemons, take[g].at = "verify", take[g].got = c,
                 take'[g] = take[g]
          PROVE  Accounted(c)'
      BY <2>8 DEF Accounted, T!InGraves
    <2>9. ASSUME NEW f \in Daemons, Take(f) PROVE Accounted(c)'
      <3>1. f # d /\ TakeOf(f) /\ \A g \in Daemons \ {f} : take'[g] = take[g]
        BY <2>2, <2>9, <1>a
        DEF Take, T!TakeStep, T!Rename, T!Drop, T!Restore, T!EndTake, ContentInv, LockTypeOK
      <3>2. c \in displaced => Accounted(c)'
        BY <2>9 DEF Take, T!TakeStep, T!Rename, T!Drop, T!Restore, Accounted
      <3>3. CASE path = c
        <4>1. \/ path' = path
              \/ take' = [take EXCEPT ![f].at = "verify", ![f].got = path]
          BY <2>9, <3>3, <2>1, <1>a DEF Take, T!TakeStep, T!Rename, T!Drop, T!Restore, Claims
        <4>2. CASE path' = path
          BY <3>3, <4>2 DEF Accounted
        <4>3. CASE take' = [take EXCEPT ![f].at = "verify", ![f].got = path]
          <5>1. take'[f].at = "verify" /\ take'[f].got = c
            BY <3>3, <4>3, <1>a DEF LockTypeOK
          <5> QED
            BY <5>1 DEF Accounted, T!InGraves
        <4> QED
          BY <4>1, <4>2, <4>3
      <3>4. ASSUME NEW g \in Daemons, take[g].at = "verify", take[g].got = c
            PROVE  Accounted(c)'
        <4>1. CASE g # f
          BY <2>8, <3>1, <3>4, <4>1
        <4>2. CASE g = f
          <5>1. take[f].want # c
            BY <3>1, <3>4, <4>2, <1>2, <2>0, <2>1 DEF TakeOf, Claim
          <5>2. T!Restore(f)
            BY <2>9, <3>4, <4>2, <5>1 DEF Take, T!TakeStep, T!Rename, T!Drop
          <5> QED
            BY <3>4, <4>2, <5>2 DEF T!Restore, Accounted
        <4> QED
          BY <4>1, <4>2
      <3> QED
        BY <2>1, <3>2, <3>3, <3>4 DEF Accounted, T!InGraves
    <2>10. ASSUME NEW f \in Daemons, Kill(f) PROVE Accounted(c)'
      <3>1. \A g \in Daemons \ {f} : take'[g] = take[g]
        BY <2>10, <1>a DEF Kill, T!AbandonTake, T!EndTake, LockTypeOK
      <3>2. path = c \/ c \in displaced => Accounted(c)'
        BY <2>10 DEF Kill, T!AbandonTake, Accounted
      <3>3. ASSUME NEW g \in Daemons, take[g].at = "verify", take[g].got = c
            PROVE  Accounted(c)'
        BY <2>8, <2>10, <3>1, <3>3 DEF Kill, T!AbandonTake, Accounted
      <3> QED
        BY <2>1, <3>2, <3>3 DEF Accounted, T!InGraves
    <2>11. ASSUME UNCHANGED lockVars PROVE Accounted(c)'
      BY <2>4, <2>11 DEF lockVars
    <2>12. Accounted(c)'
      BY <2>5, <2>6, <2>7, <2>9, <2>10, <2>11 DEF LockNext
    <2> QED
      BY <2>3, <2>12 DEF Accounted
  <1> QED
    BY <1>1, <1>2

-----------------------------------------------------------------------------
\* The inductive invariant holds in every reachable state.
THEOREM LockInvariance == LockSpec => []LockInv
  <1>1. LockInv /\ [LockNext]_lockVars => LockInv'
    BY LockTypeStep, PidStep, ContentStep, LiveStep DEF LockInv
  <1> QED
    BY LockInitInv, <1>1, PTL DEF LockSpec

\* Every variable keeps its type; a start makes at most MaxReclaims attempts.
THEOREM LockTypeCorrect == LockSpec => []LockTypeOK
  <1>1. LockInv => LockTypeOK
    BY DEF LockInv
  <1> QED
    BY LockInvariance, <1>1, PTL

\* No start deletes the claim of a running daemon, its pid's residue included.
THEOREM LiveClaimSafe == LockSpec => []LiveClaimAccounted
  <1>1. LockInv => LiveClaimAccounted
    BY DEF LockInv
  <1> QED
    BY LockInvariance, <1>1, PTL

\* Two daemons serve one state file only after a claim was yanked: the lock file holds
\* one claim, and the claims of two daemons differ.
THEOREM OneDaemonSafe == LockSpec => []OneDaemonOutsideYankWindow
  <1>1. LiveClaimAccounted => OneDaemonOutsideYankWindow
    BY DEF LiveClaimAccounted, OneDaemonOutsideYankWindow, Claim
  <1> QED
    BY LiveClaimSafe, <1>1, PTL
=============================================================================
