-------------------------- MODULE FlashblockBuilder --------------------------
(***************************************************************************)
(* The payload jobs and the WebSocket sink together, as build_pipeline of  *)
(* main.rs wires them: the PublishFlashblock step owns the sink, and a     *)
(* flashblock's rank in the feed is its rank in the broadcast channel.     *)
(***************************************************************************)
EXTENDS Naturals, Sequences, SequencesExt

CONSTANTS
  NumJobs, MaxInFlight, Target, Orders, BuilderSigner, MaxPayload,
  Clients, Capacity, MaxPublished

\* The channel's bound never stops a job from publishing.
ASSUME BuilderAssumption ==
  /\ Capacity \in Nat \ {0}
  /\ MaxPublished \in Nat
  /\ NumJobs \in Nat
  /\ MaxInFlight \in Nat \ {0}
  /\ Target \in Nat
  /\ BuilderSigner \in BOOLEAN
  /\ MaxPayload \in Nat
  /\ Orders \cap {"sequencer", "builder", "barrier"} = {}
  /\ MaxPublished >= NumJobs * (Target + 1)

VARIABLES
  phase, payload, blockBase, taken, alone, failed, feed,
  tail, term, dropped, publishFailed, listener,
  conn, next, inflight, received, joined, missed

jobVars == <<phase, payload, blockBase, taken, alone, failed, feed>>
sinkVars == <<tail, term, dropped, publishFailed, listener,
              conn, next, inflight, received, joined, missed>>
vars == <<jobVars, sinkVars>>

Sink == INSTANCE WebSocketSink
Pub == INSTANCE PublishFlashblock WITH sinkUp <- Sink!HasReceivers

Init == Sink!Init /\ Pub!Init

\* A new job needs the pipeline, which lives as long as the sink.
StartJob(j) ==
  /\ ~dropped
  /\ UNCHANGED sinkVars
  /\ Pub!BeforeJob(j)

FillOrFail(j) == UNCHANGED sinkVars /\ (Pub!Fill(j) \/ Pub!Fail(j))

\* Mutant of Publish: a full channel makes the publisher wait for its receivers.
PublishWhenRoom(j) ==
  /\ \A c \in Clients : Sink!Subscribed(c) => tail < next[c] + Capacity
  /\ \/ Sink!PublishOk /\ Pub!PublishOk(j)
     \/ Sink!PublishErr /\ Pub!PublishErr(j)

Publish(j) ==
  \/ Sink!PublishOk /\ Pub!PublishOk(j)
  \/ Sink!PublishErr /\ Pub!PublishErr(j)

Advance(j) ==
  \/ /\ UNCHANGED sinkVars
     /\ \/ Pub!BreakAfterDeadline(j)
        \/ Pub!TakeBase(j)
        \/ Pub!BreakAfterMaxFlashblocks(j)
        \/ Pub!AfterJob(j)
  \/ Publish(j)

\* The last reference to the sink is the step's: running jobs keep it alive.
DropSink ==
  /\ Pub!InFlight = {}
  /\ Sink!DropSink
  /\ UNCHANGED jobVars

SinkStep ==
  /\ \/ Sink!Listener
     \/ Sink!PipelineDropped
     \/ \E c \in Clients : Sink!Broadcast(c) \/ Sink!Connect(c)
  /\ UNCHANGED jobVars

Next ==
  \/ \E j \in Pub!Jobs : StartJob(j) \/ FillOrFail(j) \/ Advance(j)
  \/ DropSink
  \/ SinkStep

Spec == Init /\ [][Next]_vars

\* The executor polls a running job until it is done. Nothing is assumed of the
\* listener, of the broadcast tasks or of the clients.
Fairness == \A j \in Pub!Jobs : WF_vars(Advance(j))
FairSpec == Spec /\ Fairness

----------------------------------------------------------------------------
\* The jobs of the builder behave as PublishFlashblock says they do over a sink
\* that fails once and for all: its sinkUp is the channel having a receiver.
ImplementsPublish == Pub!Spec

\* The i-th flashblock that a client got.
Seen(c, i) == feed[received[c][i]]

\* A client that never lagged sees the flashblocks of each payload in the order of
\* their indices, none left out between two that it sees; and, when no other job
\* overlapped the payload's, it sees the base of the payload before anything else of
\* it if and only if it was accepted before the payload's first flashblock.
GapFreeView ==
  \A c \in Clients : missed[c] = 0 => \A k \in DOMAIN received[c] :
    LET j == Seen(c, k).payload_id
        early == \A i \in DOMAIN feed : feed[i].payload_id = j => i > joined[c]
    IN /\ \A i \in 1..(k - 1) : Seen(c, i).payload_id = j =>
            /\ Seen(c, i).index < Seen(c, k).index
            /\ \A n \in Seen(c, i).index..Seen(c, k).index :
                 \E m \in i..k : Seen(c, m).payload_id = j /\ Seen(c, m).index = n
       /\ alone[j] => (early <=> \E i \in 1..k : Seen(c, i).payload_id = j /\ Seen(c, i).base = j)

\* The flashblocks that a client got, in the order it got them.
ViewOf(c) == [i \in DOMAIN received[c] |-> Seen(c, i)]

\* A client that got the base of a payload with one of the payload's flashblocks, and
\* never lagged, assembles from what it has the beginning of the payload's block, at
\* any time and whatever else fails; and the whole block, once the job is done unharmed
\* and everything sent has arrived.
ClientAssemblesBlock ==
  \A c \in Clients, j \in Pub!Jobs :
    missed[c] = 0 /\ (\E i \in DOMAIN received[c] : Seen(c, i).payload_id = j /\ Seen(c, i).base = j)
    => LET block == Pub!Assembled(ViewOf(c), j) IN
       /\ IsPrefix(block, Pub!Transactions(payload[j]))
       /\ phase[j] = "done" /\ ~failed[j] /\ inflight[c] = 0 /\ next[c] = tail
            => block = Pub!Transactions(payload[j])

\* A job that is running ends, unless the program is stopping or the listener
\* task panicked: whatever the clients and the listener do or fail to do, and
\* with no fairness of theirs, they never hold up the building of a block.
ClientsNeverHoldUpJobs ==
  \A j \in Pub!Jobs : phase[j] = "fill" ~> phase[j] = "done" \/ term \/ listener = "dead"
=============================================================================
