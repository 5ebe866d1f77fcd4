------------------------------ MODULE LogBroker ------------------------------
(***************************************************************************)
(* The log of one supervised run (packages/server/src/log-broker.ts) and   *)
(* the SSE route that serves it (routes/runs.ts).                          *)
(*                                                                         *)
(* The broker tees the child's stdout and stderr into one file and to the  *)
(* subscribers of the moment.  A line is named by its place in the file,   *)
(* so the file is known by its length.  A client that attaches reads the   *)
(* file up to a watermark, asynchronously, while new lines go to a queue   *)
(* of its own; then the queue is delivered and the client is live.  The    *)
(* exit of the child closes the broker, the ends of the two streams come   *)
(* before or after it, and a restart of the daemon loses the broker and    *)
(* its streams but not the file.  Init, Next and Spec carry the name of    *)
(* the broker: Server_proofs extends this module next to Supervisor.       *)
(***************************************************************************)
EXTENDS Naturals, Sequences

CONSTANTS Clients,     \* SSE requests
          Streams,     \* stdout and stderr of the child
          MaxLines,    \* bound: lines in the file
          MaxRestarts  \* bound: restarts of the daemon

ASSUME LogBrokerAssumption == MaxLines \in Nat /\ MaxRestarts \in Nat

VARIABLES
    written,   \* lines in the file
    pending,   \* there is text after the last newline
    closed,    \* broker.closed
    teed,      \* the streams that have not ended
    phase,     \* what each client is doing
    snapshot,  \* the watermark of a client's replay
    got,       \* the lines sent to a client
    queue,     \* the lines its buffered subscriber holds
    restarts

broker == <<written, pending, closed, teed>>
client == <<phase, snapshot, got, queue>>
brokerVars == <<broker, client, restarts>>

\* The types of all variables.
BrokerTypeOK ==
    /\ written \in 0..MaxLines /\ restarts \in 0..MaxRestarts
    /\ pending \in BOOLEAN /\ closed \in BOOLEAN
    /\ teed \subseteq Streams
    /\ phase \in [Clients -> {"new", "replay", "live", "ended", "gone"}]
    /\ snapshot \in [Clients -> 0..MaxLines]
    /\ got \in [Clients -> Seq(1..MaxLines)] /\ queue \in [Clients -> Seq(1..MaxLines)]

BrokerInit ==
    /\ written = 0 /\ pending = FALSE /\ closed = FALSE /\ teed = Streams
    /\ phase = [c \in Clients |-> "new"]
    /\ snapshot = [c \in Clients |-> 0]
    /\ got = [c \in Clients |-> <<>>]
    /\ queue = [c \in Clients |-> <<>>]
    /\ restarts = 0

\* Mutant: the client itself is subscribed during its replay, not a buffer.
emitDirect ==
    /\ written < MaxLines /\ written' = written + 1
    /\ got' = [c \in Clients |-> IF phase[c] \in {"live", "replay"} THEN Append(got[c], written')
                                                                  ELSE got[c]]
    /\ UNCHANGED queue

\* Append a line to the file, then hand it to the subscribers.
emit ==
    /\ written < MaxLines /\ written' = written + 1
    /\ got' = [c \in Clients |-> IF phase[c] = "live" THEN Append(got[c], written') ELSE got[c]]
    /\ queue' = [c \in Clients |-> IF phase[c] = "replay" THEN Append(queue[c], written')
                                                          ELSE queue[c]]

noEmit == UNCHANGED <<written, got, queue>>

\* What is left after the last newline becomes a line of its own.
flush == pending' = FALSE /\ IF pending THEN emit ELSE noEmit

-----------------------------------------------------------------------------
\* A chunk of either stream: it ends a line, or leaves text after one, or both.  The
\* broker may be closed already.
Chunk(s) ==
    /\ s \in teed
    /\ \/ emit /\ pending' \in BOOLEAN
       \/ noEmit /\ pending' = TRUE
    /\ UNCHANGED <<closed, teed, phase, snapshot, restarts>>

StreamEnds(s) ==
    /\ s \in teed /\ teed' = teed \ {s}
    /\ flush
    /\ UNCHANGED <<closed, phase, snapshot, restarts>>

\* The exit event of a child of this daemon: handleExit closes the broker, then writes
\* the record.
ChildExits ==
    /\ restarts = 0 /\ ~closed
    /\ flush
    /\ closed' = TRUE
    /\ UNCHANGED <<teed, phase, snapshot, restarts>>

\* Mutant: the queue is thrown away with the subscription.
settleDropping(c, lines) ==
    /\ got' = got
    /\ queue' = [queue EXCEPT ![c] = <<>>]
    /\ phase' = [phase EXCEPT ![c] = IF closed THEN "ended" ELSE "live"]

\* A client that has no more of the file to read takes its queue and is live, or is told
\* the end if the broker is closed by now.
settle(c, lines) ==
    /\ got' = [got EXCEPT ![c] = lines]
    /\ queue' = [queue EXCEPT ![c] = <<>>]
    /\ phase' = [phase EXCEPT ![c] = IF closed THEN "ended" ELSE "live"]

\* Subscribe the buffer and take the watermark in one step; an empty file needs no
\* replay.
Attach(c) ==
    /\ phase[c] = "new"
    /\ snapshot' = [snapshot EXCEPT ![c] = written]
    /\ IF written = 0 THEN settle(c, <<>>)
       ELSE phase' = [phase EXCEPT ![c] = "replay"] /\ UNCHANGED <<got, queue>>
    /\ UNCHANGED <<broker, restarts>>

\* Mutant: the inclusive end of the range is one too far.
ReplayOneMore(c) ==
    /\ phase[c] = "replay" /\ Len(got[c]) <= snapshot[c]
    /\ got' = [got EXCEPT ![c] = Append(@, Len(@) + 1)]
    /\ UNCHANGED <<broker, phase, snapshot, queue, restarts>>

\* The read stream yields the next line below the watermark.
Replay(c) ==
    /\ phase[c] = "replay" /\ Len(got[c]) < snapshot[c]
    /\ got' = [got EXCEPT ![c] = Append(@, Len(@) + 1)]
    /\ UNCHANGED <<broker, phase, snapshot, queue, restarts>>

\* Mutant: the replay is only over when it has caught up with the writer.
SettleAtEnd(c) ==
    /\ phase[c] = "replay" /\ Len(got[c]) = written
    /\ settle(c, got[c] \o queue[c])
    /\ UNCHANGED <<broker, snapshot, restarts>>

Settle(c) ==
    /\ phase[c] = "replay" /\ Len(got[c]) = snapshot[c]
    /\ settle(c, got[c] \o queue[c])
    /\ UNCHANGED <<broker, snapshot, restarts>>

\* A client leaves.  The route listens for the abort only once the attach has resolved:
\* one that leaves during its replay stays subscribed.
Leave(c) ==
    /\ phase[c] = "live"
    /\ phase' = [phase EXCEPT ![c] = "gone"]
    /\ UNCHANGED <<broker, snapshot, got, queue, restarts>>

\* The daemon is restarted: connections and streams are lost, a run whose exit was not
\* heard is abandoned if its process died, and the next attach makes a new broker from
\* the file.
Restart ==
    /\ restarts < MaxRestarts /\ restarts' = restarts + 1
    /\ pending' = FALSE /\ closed' = FALSE /\ teed' = {}
    /\ phase' = [c \in Clients |-> IF phase[c] = "new" THEN "new" ELSE "gone"]
    /\ UNCHANGED <<written, snapshot, got, queue>>

ClientStep(c) == Attach(c) \/ Replay(c) \/ Settle(c)

BrokerNext ==
    \/ \E s \in Streams : Chunk(s) \/ StreamEnds(s)
    \/ \E c \in Clients : ClientStep(c) \/ Leave(c)
    \/ ChildExits \/ Restart

BrokerSpec == BrokerInit /\ [][BrokerNext]_brokerVars

\* The daemon's reads of its own files complete.
BrokerFairSpec == BrokerSpec /\ \A c \in Clients : WF_brokerVars(Replay(c)) /\ WF_brokerVars(Settle(c))

-----------------------------------------------------------------------------
\* Replay and live delivery together send every line at most once, in file order and
\* with no gap, whatever is emitted while the file is read.
ReplayExact == \A c \in Clients : got[c] = [i \in 1..Len(got[c]) |-> i]

\* A live client has every line of the file: nothing falls between the watermark, the
\* queue and the live subscription.
LiveIsCurrent == \A c \in Clients : phase[c] = "live" => Len(got[c]) = written

\* A client that starts its replay finishes it, however much the child goes on printing,
\* and has then every line, unless the daemon goes down.
AttachSettles == \A c \in Clients : phase[c] = "replay" ~> phase[c] # "replay"
=============================================================================
