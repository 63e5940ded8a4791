----------------------- MODULE FlashblockBuilderProofs -----------------------
(***************************************************************************)
(* Proofs about the jobs and the sink together: the jobs see the sink that *)
(* PublishFlashblock assumes, so that what is proved of each part holds of *)
(* the whole, and a client's view follows from both.                       *)
(***************************************************************************)
EXTENDS FlashblockBuilder, FlattenLemmas, TLAPS

SinkProofs == INSTANCE WebSocketSinkProofs
PubProofs == INSTANCE PublishFlashblockProofs WITH sinkUp <- Sink!HasReceivers

\* The two instances of the sink, with and without its proofs, are one.
LEMMA SameSink ==
  /\ (Sink!Init <=> SinkProofs!Init)
  /\ ([Sink!Next]_(Sink!vars) <=> [SinkProofs!Next]_(SinkProofs!vars))
  /\ ([~Sink!HasReceivers => ~Sink!HasReceivers']_(Sink!vars)
       <=> [~SinkProofs!HasReceivers => ~SinkProofs!HasReceivers']_(SinkProofs!vars))
BY DEF
          Sink!Init, SinkProofs!Init, Sink!Next, SinkProofs!Next, Sink!Listener,
          SinkProofs!Listener, Sink!Publisher, SinkProofs!Publisher, Sink!Broadcast,
          SinkProofs!Broadcast, Sink!ListenerStart, SinkProofs!ListenerStart,
          Sink!AcceptErr, SinkProofs!AcceptErr, Sink!ListenerStop, SinkProofs!ListenerStop,
          Sink!Accept, SinkProofs!Accept, Sink!HandshakeOk, SinkProofs!HandshakeOk,
          Sink!HandshakeErr, SinkProofs!HandshakeErr, Sink!PublishOk, SinkProofs!PublishOk,
          Sink!PublishErr, SinkProofs!PublishErr, Sink!PipelineDropped,
          SinkProofs!PipelineDropped, Sink!DropSink, SinkProofs!DropSink, Sink!StopLoop,
          SinkProofs!StopLoop, Sink!Recv, SinkProofs!Recv, Sink!RecvLagged,
          SinkProofs!RecvLagged, Sink!RecvClosed, SinkProofs!RecvClosed, Sink!SendOk,
          SinkProofs!SendOk, Sink!SendErr, SinkProofs!SendErr, Sink!ClientGone,
          SinkProofs!ClientGone, Sink!Connect, SinkProofs!Connect, Sink!ResetBacklog,
          SinkProofs!ResetBacklog, Sink!HasReceivers, SinkProofs!HasReceivers,
          Sink!SocketOpen, SinkProofs!SocketOpen, Sink!Subscribed, SinkProofs!Subscribed,
          Sink!Lags, SinkProofs!Lags, Sink!vars, SinkProofs!vars, Sink!chanVars,
          SinkProofs!chanVars, Sink!termVars, SinkProofs!termVars, Sink!histVars,
          SinkProofs!histVars, Sink!connVars, SinkProofs!connVars

\* The sink of the composition behaves as a sink.
LEMMA SinkPart == Spec => Sink!Spec
<1>1. Init => Sink!Init
  BY DEF Init
<1>2. [Next]_vars => [Sink!Next]_(Sink!vars)
  <2> SUFFICES ASSUME [Next]_vars PROVE Sink!Next \/ UNCHANGED Sink!vars
    OBVIOUS
  <2>1. UNCHANGED sinkVars => UNCHANGED Sink!vars
    BY DEF sinkVars, Sink!vars, Sink!chanVars, Sink!termVars, Sink!connVars, Sink!histVars
  <2>2. CASE UNCHANGED vars BY <2>1, <2>2 DEF vars
  <2>3. ASSUME NEW j \in Pub!Jobs, StartJob(j) \/ FillOrFail(j) \/ Advance(j)
        PROVE  Sink!Next \/ UNCHANGED Sink!vars
    BY <2>1, <2>3 DEF StartJob, FillOrFail, Advance, Publish, Sink!Next, Sink!Publisher
  <2>4. CASE DropSink BY <2>4 DEF DropSink, Sink!Next, Sink!Publisher
  <2>5. CASE SinkStep BY <2>5 DEF SinkStep, Sink!Next, Sink!Publisher
  <2> QED BY <2>2, <2>3, <2>4, <2>5 DEF Next
<1> QED BY <1>1, <1>2, PTL DEF Spec, Sink!Spec

\* The jobs behave as PublishFlashblock says they do, over a sink that fails once and
\* for all: that is what it takes from the sink (FailureIsPermanent).
THEOREM JobsImplementPublish == Spec => ImplementsPublish
<1>1. Init => Pub!Init
  BY DEF Init
<1>2. [Next]_vars /\ [~Sink!HasReceivers => ~Sink!HasReceivers']_(Sink!vars)
        => [Pub!Next]_(Pub!vars)
  <2> SUFFICES ASSUME [Next]_vars, [~Sink!HasReceivers => ~Sink!HasReceivers']_(Sink!vars)
               PROVE  Pub!Next \/ UNCHANGED Pub!vars
    OBVIOUS
  <2>1. UNCHANGED Sink!vars => UNCHANGED Sink!HasReceivers
    BY DEF Sink!vars, Sink!connVars, Sink!HasReceivers, Sink!SocketOpen, Sink!Subscribed
  <2>2. ASSUME NEW j \in Pub!Jobs, StartJob(j) \/ FillOrFail(j) \/ Advance(j) PROVE Pub!Next
    BY <2>2 DEF StartJob, FillOrFail, Advance, Publish, Pub!Next, Pub!Advance
  <2>3. ASSUME UNCHANGED jobVars PROVE Pub!Next \/ UNCHANGED Pub!vars
    <3>1. UNCHANGED <<phase, payload, blockBase, taken, alone, failed, feed>>
      BY <2>3 DEF jobVars
    <3>2. CASE UNCHANGED Sink!HasReceivers
      BY <3>1, <3>2 DEF Pub!vars
    <3>3. CASE Sink!HasReceivers /\ ~Sink!HasReceivers'
      <4>1. Pub!SinkFails
        BY <3>1, <3>3 DEF Pub!SinkFails, Sink!HasReceivers, Sink!SocketOpen
      <4> QED BY <4>1 DEF Pub!Next
    <3>4. CASE ~Sink!HasReceivers /\ Sink!HasReceivers'
      BY <3>4, <2>1
    <3>5. Sink!HasReceivers \in BOOLEAN /\ Sink!HasReceivers' \in BOOLEAN
      BY DEF Sink!HasReceivers
    <3> QED BY <3>2, <3>3, <3>4, <3>5
  <2>4. DropSink \/ SinkStep \/ UNCHANGED vars => UNCHANGED jobVars
    BY DEF DropSink, SinkStep, vars
  <2> QED BY <2>2, <2>3, <2>4 DEF Next
<1>3. SinkProofs!Spec => SinkProofs!FailureIsPermanent
  BY BuilderAssumption, SinkProofs!FailurePermanent DEF SinkProofs!SinkAssumption
<1> QED
  BY <1>1, <1>2, <1>3, SameSink, SinkPart, PTL
     DEF Spec, ImplementsPublish, Pub!Spec, Sink!Spec, SinkProofs!Spec, SinkProofs!FailureIsPermanent

\* Whatever the jobs do, the builder's clients are served what FlashblockFeed promises.
THEOREM BuilderImplementsFeed == Spec => SinkProofs!ImplementsFeed
<1>1. SinkProofs!Spec => SinkProofs!ImplementsFeed
  BY BuilderAssumption, SinkProofs!FeedRefinement DEF SinkProofs!SinkAssumption
<1> QED BY <1>1, SinkPart, SameSink, PTL DEF Sink!Spec, SinkProofs!Spec

----------------------------------------------------------------------------
(* A client's view *)

LEMMA SameFlatten == \A ss : Pub!FlattenSeq(ss) = PubProofs!FlattenSeq(ss)
BY Zenon DEF Pub!FlattenSeq, PubProofs!FlattenSeq

\* The two instances of the jobs, with and without their proofs, are one.
LEMMA SameJobs ==
  /\ (Pub!Init <=> PubProofs!Init)
  /\ ([Pub!Next]_(Pub!vars) <=> [PubProofs!Next]_(PubProofs!vars))
<1>1. \A p : Pub!Transactions(p) = PubProofs!Transactions(p)
  BY SameFlatten DEF Pub!Transactions, PubProofs!Transactions, Pub!CheckpointTransactions,
                     PubProofs!CheckpointTransactions
<1>2. \A p : Pub!UnpublishedPayload(p) = PubProofs!UnpublishedPayload(p)
  BY DEF Pub!UnpublishedPayload, PubProofs!UnpublishedPayload, Pub!Context, PubProofs!Context,
         Pub!Last, PubProofs!Last
<1>3. \A j : Pub!NewFlashblock(j) = PubProofs!NewFlashblock(j)
  BY <1>1, <1>2 DEF
       Pub!NewFlashblock, PubProofs!NewFlashblock, Pub!Index, PubProofs!Index, Pub!Context,
       PubProofs!Context, Pub!Last, PubProofs!Last
<1>4. Pub!Init <=> PubProofs!Init
  BY DEF
       Pub!Init, PubProofs!Init, Pub!Jobs, PubProofs!Jobs, Pub!NoBase, PubProofs!NoBase,
       Pub!FirstNumber, PubProofs!FirstNumber
<1>5. Pub!Jobs = PubProofs!Jobs /\ ((Pub!vars' = Pub!vars) <=> (PubProofs!vars' = PubProofs!vars))
  BY DEF Pub!Jobs, PubProofs!Jobs, Pub!vars, PubProofs!vars
<1>6. \A j : (Pub!PublishOk(j) <=> PubProofs!PublishOk(j)) /\ (Pub!PublishErr(j) <=> PubProofs!PublishErr(j))
  <2>1. \A p : Pub!Barrier(p, Pub!NextNumber(Pub!Context(p)))
                 = PubProofs!Barrier(p, PubProofs!NextNumber(PubProofs!Context(p)))
    BY DEF Pub!Barrier, PubProofs!Barrier, Pub!NextNumber, PubProofs!NextNumber, Pub!Context,
           PubProofs!Context, Pub!Last, PubProofs!Last
  <2> SUFFICES ASSUME NEW j
               PROVE  (Pub!PublishOk(j) <=> PubProofs!PublishOk(j)) /\ (Pub!PublishErr(j) <=> PubProofs!PublishErr(j))
    OBVIOUS
  <2>2. Pub!PublishErr(j) <=> PubProofs!PublishErr(j)
    BY DEF Pub!PublishErr, PubProofs!PublishErr, Pub!GoTo, PubProofs!GoTo, Pub!NoBase, PubProofs!NoBase
  <2>3. Pub!NewFlashblock(j) = PubProofs!NewFlashblock(j) /\ (Pub!GoTo(j, "check") <=> PubProofs!GoTo(j, "check"))
    BY <1>3 DEF Pub!GoTo, PubProofs!GoTo
  <2>4. Pub!Barrier(payload[j], Pub!NextNumber(Pub!Context(payload[j])))
          = PubProofs!Barrier(payload[j], PubProofs!NextNumber(PubProofs!Context(payload[j])))
    BY <2>1
  <2>5. Pub!PublishOk(j) <=> PubProofs!PublishOk(j)
    BY <2>3, <2>4 DEF Pub!PublishOk, PubProofs!PublishOk, Pub!NoBase, PubProofs!NoBase
  <2> QED BY <2>2, <2>5
<1>7. \A j : (Pub!Fill(j) <=> PubProofs!Fill(j)) /\ (Pub!Fail(j) <=> PubProofs!Fail(j))
  BY DEF
       Pub!Fill, PubProofs!Fill, Pub!Fail, PubProofs!Fail, Pub!AppendOrders,
       PubProofs!AppendOrders, Pub!OrderByPriorityFee, PubProofs!OrderByPriorityFee,
       Pub!RemoveReverted, PubProofs!RemoveReverted, Pub!StepFails, PubProofs!StepFails,
       Pub!BuildError, PubProofs!BuildError, Pub!GoTo, PubProofs!GoTo, Pub!Put,
       PubProofs!Put, Pub!Context, PubProofs!Context, Pub!Staged, PubProofs!Staged,
       Pub!RemoveAt, PubProofs!RemoveAt, Pub!Last, PubProofs!Last
<1>8. \A j : /\ (Pub!BreakAfterDeadline(j) <=> PubProofs!BreakAfterDeadline(j))
            /\ (Pub!TakeBase(j) <=> PubProofs!TakeBase(j))
            /\ (Pub!BreakAfterMaxFlashblocks(j) <=> PubProofs!BreakAfterMaxFlashblocks(j))
            /\ (Pub!AfterJob(j) <=> PubProofs!AfterJob(j))
  BY DEF
       Pub!BreakAfterDeadline, PubProofs!BreakAfterDeadline, Pub!TakeBase,
       PubProofs!TakeBase, Pub!BreakAfterMaxFlashblocks, PubProofs!BreakAfterMaxFlashblocks,
       Pub!AfterJob, PubProofs!AfterJob, Pub!GoTo, PubProofs!GoTo, Pub!Put, PubProofs!Put,
       Pub!Context, PubProofs!Context, Pub!Last, PubProofs!Last, Pub!NoBase,
       PubProofs!NoBase
<1>9. \A j : Pub!BeforeJob(j) <=> PubProofs!BeforeJob(j)
  <2>1. Pub!InFlight = PubProofs!InFlight
    BY DEF Pub!InFlight, PubProofs!InFlight, Pub!Jobs, PubProofs!Jobs
  <2>2. Pub!Cardinality(Pub!InFlight) = PubProofs!Cardinality(PubProofs!InFlight)
    BY <2>1 DEF Pub!Cardinality, PubProofs!Cardinality
  <2> QED
    BY <2>1, <2>2, <1>5 DEF Pub!BeforeJob, PubProofs!BeforeJob, Pub!GoTo, PubProofs!GoTo
<1>10. Pub!SinkFails <=> PubProofs!SinkFails
  BY DEF Pub!SinkFails, PubProofs!SinkFails
<1>11. \A j : Pub!Advance(j) <=> PubProofs!Advance(j)
  BY <1>6, <1>8 DEF Pub!Advance, PubProofs!Advance
<1>12. Pub!Next <=> PubProofs!Next
  BY <1>5, <1>7, <1>9, <1>10, <1>11 DEF Pub!Next, PubProofs!Next
<1> QED BY <1>4, <1>5, <1>12

\* A flashblock's rank in the feed is its rank in the channel, and a client that never
\* lagged has the flashblocks from the one after its acceptance on.
Aligned == tail = Len(feed)

View ==
  /\ Aligned
  /\ SinkProofs!IndInv
  /\ PubProofs!IsFeed
  /\ PubProofs!TypeOK
  /\ PubProofs!PayloadInv
  /\ PubProofs!IndicesContiguous
  /\ PubProofs!BaseOnFirst
  /\ PubProofs!BlockInv
  /\ PubProofs!BlockIsItsFlashblocks

LEMMA ViewHolds == Spec => []View
<1>1. Spec => []SinkProofs!IndInv
  <2>1. SinkProofs!Spec => []SinkProofs!IndInv
    BY BuilderAssumption, SinkProofs!Invariance DEF SinkProofs!SinkAssumption
  <2> QED BY <2>1, SinkPart, SameSink, PTL DEF Sink!Spec, SinkProofs!Spec
<1>2. Spec => []PubProofs!IndInv /\ []PubProofs!BlockIsItsFlashblocks
  <2>1. PubProofs!Spec => []PubProofs!IndInv /\ []PubProofs!BlockIsItsFlashblocks
    BY BuilderAssumption, PubProofs!Invariant, PubProofs!BlockHolds DEF PubProofs!JobsAssumption
  <2> QED BY <2>1, JobsImplementPublish, SameJobs, PTL DEF ImplementsPublish, Pub!Spec, PubProofs!Spec
<1>3. PubProofs!IndInv =>
        /\ PubProofs!IsFeed /\ PubProofs!TypeOK /\ PubProofs!PayloadInv
        /\ PubProofs!IndicesContiguous /\ PubProofs!BaseOnFirst /\ PubProofs!BlockInv
  BY DEF PubProofs!IndInv
<1>4. Init => Aligned
  BY DEF Init, Sink!Init, Pub!Init, Aligned
<1>5. PubProofs!IsFeed /\ Aligned /\ [Next]_vars => Aligned'
  <2> SUFFICES ASSUME PubProofs!IsFeed, tail = Len(feed), [Next]_vars PROVE tail' = Len(feed')
    BY DEF Aligned
  <2>1. UNCHANGED <<tail, feed>> => tail' = Len(feed')
    OBVIOUS
  <2>2. ASSUME NEW fb, feed' = Append(feed, fb), tail' = tail + 1 PROVE tail' = Len(feed')
    <3>1. PICK S : feed \in Seq(S) BY DEF PubProofs!IsFeed
    <3>2. feed \in Seq(S \union {fb}) BY <3>1, SeqMonotonic
    <3> QED BY <3>2, <2>2
  <2>3. ASSUME NEW j \in Pub!Jobs, StartJob(j) \/ FillOrFail(j) PROVE UNCHANGED <<tail, feed>>
    BY <2>3 DEF StartJob, FillOrFail, sinkVars, Pub!BeforeJob, Pub!Fill, Pub!Fail, Pub!AppendOrders,
                Pub!OrderByPriorityFee, Pub!RemoveReverted, Pub!StepFails, Pub!BuildError
  <2>4. ASSUME NEW j \in Pub!Jobs, Advance(j)
        PROVE  UNCHANGED <<tail, feed>> \/ (tail' = tail + 1 /\ feed' = Append(feed, Pub!NewFlashblock(j)))
    BY <2>4 DEF Advance, Publish, sinkVars, Sink!PublishOk, Sink!PublishErr, Pub!PublishOk, Pub!PublishErr,
                Pub!BreakAfterDeadline, Pub!TakeBase, Pub!BreakAfterMaxFlashblocks, Pub!AfterJob
  <2>5. DropSink => UNCHANGED <<tail, feed>>
    BY DEF DropSink, jobVars, Sink!DropSink, Sink!chanVars
  <2>6. SinkStep => UNCHANGED <<tail, feed>>
    BY DEF SinkStep, jobVars, Sink!chanVars, Sink!Listener, Sink!PipelineDropped, Sink!Broadcast,
           Sink!Connect, Sink!ListenerStart, Sink!AcceptErr, Sink!ListenerStop, Sink!Accept,
           Sink!HandshakeOk, Sink!HandshakeErr, Sink!StopLoop, Sink!Recv, Sink!RecvLagged,
           Sink!RecvClosed, Sink!SendOk, Sink!SendErr, Sink!ClientGone
  <2>7. UNCHANGED vars => UNCHANGED <<tail, feed>>
    BY DEF vars, jobVars, sinkVars
  <2> QED BY <2>1, <2>2, <2>3, <2>4, <2>5, <2>6, <2>7 DEF Next
<1>6. View <=> /\ Aligned /\ SinkProofs!IndInv /\ PubProofs!IsFeed /\ PubProofs!TypeOK
               /\ PubProofs!PayloadInv /\ PubProofs!IndicesContiguous /\ PubProofs!BaseOnFirst
               /\ PubProofs!BlockInv /\ PubProofs!BlockIsItsFlashblocks
  BY DEF View
<1> QED BY <1>1, <1>2, <1>3, <1>4, <1>5, <1>6, PTL DEF Spec

\* What a client that never lagged has got is a stretch of the feed.
LEMMA Stretch ==
  ASSUME View, NEW c \in Clients, missed[c] = 0, NEW k \in DOMAIN received[c]
  PROVE  /\ joined[c] \in Nat /\ k \in Nat \ {0} /\ DOMAIN feed = 1..Len(feed) /\ Len(feed) \in Nat
         /\ joined[c] + k \in DOMAIN feed
         /\ \A i \in 1..k : Seen(c, i) = feed[joined[c] + i]
<1>1. /\ joined[c] \in Nat /\ received[c] \in Seq(Nat) /\ tail \in Nat /\ next[c] \in Nat
      /\ inflight[c] \in Nat /\ SinkProofs!ClientOrder(c) /\ SinkProofs!ClientCount(c)
  BY BuilderAssumption DEF View, SinkProofs!IndInv, SinkProofs!TypeOK, SinkProofs!ClientInv
<1>2. k \in 1..Len(received[c]) /\ Len(received[c]) \in Nat
  BY <1>1
<1>3. \A i \in 1..k : received[c][i] = joined[c] + i
  BY <1>1, <1>2 DEF SinkProofs!ClientOrder
<1>4. received[c][k] <= tail
  <2>1. received[c][k] + SinkProofs!Sending(c) <= next[c] /\ next[c] <= tail
    BY <1>1, <1>2 DEF SinkProofs!ClientOrder, SinkProofs!ClientCount
  <2>2. SinkProofs!Sending(c) \in {0, 1}
    BY DEF SinkProofs!Sending
  <2>3. received[c][k] \in Nat
    BY <1>1, <1>2
  <2> QED BY <2>1, <2>2, <2>3, <1>1
<1>5. DOMAIN feed = 1..Len(feed) /\ Len(feed) \in Nat
  BY DEF View, PubProofs!IsFeed
<1>6. joined[c] + k \in 1..Len(feed)
  <2>1. tail = Len(feed) BY DEF View, Aligned
  <2>2. received[c][k] = joined[c] + k BY <1>2, <1>3
  <2> QED BY <1>1, <1>2, <1>4, <2>1, <2>2
<1>7. \A i \in 1..k : Seen(c, i) = feed[joined[c] + i]
  BY <1>3 DEF Seen
<1> QED BY <1>1, <1>2, <1>5, <1>6, <1>7

\* In the feed, the indices of a payload are all there, in order, from 0 on.
LEMMA FeedOfPayload ==
  ASSUME View, NEW j, NEW a \in DOMAIN feed, NEW b \in DOMAIN feed,
         feed[a].payload_id = j, feed[b].payload_id = j
  PROVE  /\ j \in PubProofs!Jobs /\ a \in Int /\ b \in Int
         /\ feed[a].index \in Nat /\ feed[b].index \in Nat
         /\ a < b => feed[a].index < feed[b].index
         /\ \A n \in 0..feed[b].index : \E m \in DOMAIN feed : feed[m].payload_id = j /\ feed[m].index = n
<1>1. /\ j \in PubProofs!Jobs /\ feed[a].index \in Nat /\ feed[b].index \in Nat
      /\ DOMAIN feed = 1..Len(feed) /\ Len(feed) \in Nat
  BY DEF View, PubProofs!TypeOK, PubProofs!IsFlashblock, PubProofs!IsFeed
<1>2. a \in PubProofs!Positions(j) /\ b \in PubProofs!Positions(j) /\ feed[b].index \in PubProofs!Indices(j)
  BY DEF PubProofs!Positions, PubProofs!Indices
<1>3. a < b => feed[a].index < feed[b].index
  BY <1>1, <1>2 DEF View, PubProofs!IndicesContiguous
<1> DEFINE last == PubProofs!Index(PubProofs!Context(payload[j]))
<1>4. PubProofs!Indices(j) = {PubProofs!Index(n) : n \in 1..last}
  BY <1>1 DEF View, PubProofs!IndicesContiguous
<1> HIDE DEF last
<1>5. ASSUME NEW n \in 0..feed[b].index PROVE n \in PubProofs!Indices(j)
  <2>1. PICK m \in 1..last : feed[b].index = PubProofs!Index(m) BY <1>2, <1>4
  <2>2. m - 1 = feed[b].index /\ m \in Nat BY <2>1 DEF PubProofs!Index
  <2>3. n \in Nat /\ n <= feed[b].index BY <1>1
  <2>4. last \in Nat
    <3>1. PubProofs!Context(payload[j]) \in Nat \ {0}
      BY <1>1, BuilderAssumption, PubProofs!FilledContext DEF View, PubProofs!JobsAssumption
    <3> QED BY <3>1 DEF PubProofs!Index, last
  <2>5. n + 1 \in 1..last BY <2>1, <2>2, <2>3, <2>4, <1>1
  <2>6. PubProofs!Index(n + 1) = n BY <2>3 DEF PubProofs!Index
  <2> QED BY <2>5, <2>6, <1>4
<1>6. \A n \in 0..feed[b].index : \E m \in DOMAIN feed : feed[m].payload_id = j /\ feed[m].index = n
  BY <1>5 DEF PubProofs!Indices, PubProofs!Positions
<1> QED BY <1>1, <1>3, <1>6

\* A client that never lagged sees each payload's flashblocks in order and without a
\* gap and, in a job that no other overlapped, its base if it came in time: for any
\* number of jobs, of flashblocks and of clients, and any capacity of the channel.
THEOREM GapFree == Spec => []GapFreeView
<1>1. ASSUME View PROVE GapFreeView
  <2> USE <1>1
  <2> SUFFICES ASSUME NEW c \in Clients, missed[c] = 0, NEW k \in DOMAIN received[c]
      PROVE LET j == Seen(c, k).payload_id
                early == \A i \in DOMAIN feed : feed[i].payload_id = j => i > joined[c]
            IN /\ \A i \in 1..(k - 1) : Seen(c, i).payload_id = j =>
                    /\ Seen(c, i).index < Seen(c, k).index
                    /\ \A n \in Seen(c, i).index..Seen(c, k).index :
                         \E m \in i..k : Seen(c, m).payload_id = j /\ Seen(c, m).index = n
               /\ alone[j] => (early <=> \E i \in 1..k : Seen(c, i).payload_id = j /\ Seen(c, i).base = j)
    BY DEF GapFreeView
  <2> DEFINE j == Seen(c, k).payload_id
             b == joined[c] + k
             early == \A i \in DOMAIN feed : feed[i].payload_id = j => i > joined[c]
  <2>1. /\ joined[c] \in Nat /\ k \in Nat \ {0} /\ DOMAIN feed = 1..Len(feed) /\ Len(feed) \in Nat
        /\ b \in DOMAIN feed /\ \A i \in 1..k : Seen(c, i) = feed[joined[c] + i]
    BY Stretch
  <2>2. k \in 1..k /\ b \in DOMAIN feed /\ feed[b].payload_id = j /\ Seen(c, k) = feed[b]
    BY <2>1
  <2>3. \A i \in 1..k : joined[c] + i \in DOMAIN feed
    BY <2>1
  <2> HIDE DEF j, b
  <2>4. /\ j \in PubProofs!Jobs /\ feed[b].index \in Nat
        /\ \A n \in 0..feed[b].index : \E m \in DOMAIN feed : feed[m].payload_id = j /\ feed[m].index = n
    <3>1. b \in DOMAIN feed /\ feed[b].payload_id = j BY <2>2
    <3> HIDE DEF early
    <3> QED BY <3>1, FeedOfPayload
  <2>5. \A p, q \in DOMAIN feed : feed[p].payload_id = j /\ feed[q].payload_id = j /\ p < q
          => feed[p].index < feed[q].index
    BY FeedOfPayload
  <2>6. \A p \in DOMAIN feed : feed[p].payload_id = j => feed[p].index \in Nat
    BY FeedOfPayload
  <2>7. ASSUME NEW i \in 1..(k - 1), Seen(c, i).payload_id = j
        PROVE  /\ Seen(c, i).index < Seen(c, k).index
               /\ \A n \in Seen(c, i).index..Seen(c, k).index :
                    \E m \in i..k : Seen(c, m).payload_id = j /\ Seen(c, m).index = n
    <3> DEFINE a == joined[c] + i
    <3>1. i \in 1..k /\ Seen(c, i) = feed[a] /\ a \in DOMAIN feed /\ a < b /\ a \in Nat /\ b \in Nat
      BY <2>1, <2>3 DEF b
    <3>2. feed[a].index < feed[b].index /\ feed[a].index \in Nat
      BY <2>1, <2>2, <2>5, <2>6, <2>7, <3>1
    <3>3. ASSUME NEW n \in feed[a].index..feed[b].index
          PROVE  \E m \in i..k : Seen(c, m).payload_id = j /\ Seen(c, m).index = n
      <4>1. n \in 0..feed[b].index BY <3>2, <2>4
      <4>2. PICK q \in DOMAIN feed : feed[q].payload_id = j /\ feed[q].index = n
        BY <4>1, <2>4
      <4>3. ~(q < a) /\ ~(b < q)
        <5>1. feed[a].payload_id = j BY <2>7, <3>1
        <5>2. n \in Nat /\ feed[a].index <= n /\ n <= feed[b].index
          BY <3>2, <3>3, <2>4
        <5>3. q < a => n < feed[a].index BY <5>1, <4>2, <3>1, <2>5
        <5>4. b < q => feed[b].index < n BY <2>2, <4>2, <2>1, <2>5
        <5> QED BY <5>2, <5>3, <5>4, <3>2, <2>4
      <4>4. q - joined[c] \in i..k /\ joined[c] + (q - joined[c]) = q
        BY <4>3, <3>1, <2>1 DEF b
      <4>5. Seen(c, q - joined[c]) = feed[q]
        BY <4>4, <2>1, <3>1
      <4> QED BY <4>2, <4>4, <4>5
    <3> QED BY <3>1, <3>2, <3>3, <2>2
  <2>8. ASSUME alone[j]
        PROVE  early <=> \E i \in 1..k : Seen(c, i).payload_id = j /\ Seen(c, i).base = j
    <3>1. \A p \in DOMAIN feed : feed[p].payload_id = j =>
            feed[p].base = IF feed[p].index = 0 THEN j ELSE PubProofs!NoBase
      BY <2>8 DEF View, PubProofs!BaseOnFirst
    <3>2. j # PubProofs!NoBase
      BY <2>4, BuilderAssumption DEF PubProofs!Jobs, PubProofs!NoBase
    <3>3. ASSUME early PROVE \E i \in 1..k : Seen(c, i).payload_id = j /\ Seen(c, i).base = j
      <4>1. PICK q \in DOMAIN feed : feed[q].payload_id = j /\ feed[q].index = 0
        BY <2>4
      <4>2. q > joined[c] /\ ~(b < q)
        BY <3>3, <4>1, <2>1, <2>2, <2>4, <2>5, <2>6
      <4>3. q - joined[c] \in 1..k /\ joined[c] + (q - joined[c]) = q
        BY <4>2, <2>1 DEF b
      <4>4. Seen(c, q - joined[c]) = feed[q]
        BY <4>3, <2>1
      <4> QED BY <4>1, <4>3, <4>4, <3>1
    <3>4. ASSUME NEW i \in 1..k, Seen(c, i).payload_id = j, Seen(c, i).base = j PROVE early
      <4>1. Seen(c, i) = feed[joined[c] + i] /\ joined[c] + i \in DOMAIN feed
        BY <2>1, <2>3
      <4>2. feed[joined[c] + i].index = 0
        BY <4>1, <3>1, <3>2, <3>4
      <4>3. ASSUME NEW q \in DOMAIN feed, feed[q].payload_id = j PROVE q > joined[c]
        <5>1. ~(q < joined[c] + i)
          BY <4>1, <4>2, <4>3, <3>4, <2>5, <2>6
        <5> QED BY <5>1, <2>1
      <4> QED BY <4>3
    <3> QED BY <3>3, <3>4
  <2> QED BY <2>7, <2>8 DEF j
<1> QED BY <1>1, ViewHolds, PTL

\* Who got the base of a payload with one of its flashblocks was accepted before the
\* first of them: nothing of the payload precedes what the client has.
LEMMA NothingBefore ==
  ASSUME View, NEW c \in Clients, missed[c] = 0, NEW k \in DOMAIN received[c],
         Seen(c, k).base = Seen(c, k).payload_id,
         NEW q \in DOMAIN feed, feed[q].payload_id = Seen(c, k).payload_id
  PROVE  q > joined[c]
<1> DEFINE b == joined[c] + k
<1>1. /\ joined[c] \in Nat /\ k \in Nat \ {0} /\ DOMAIN feed = 1..Len(feed) /\ Len(feed) \in Nat
      /\ b \in DOMAIN feed /\ \A i \in 1..k : Seen(c, i) = feed[joined[c] + i]
  BY Stretch
<1>2. Seen(c, k) = feed[b]
  BY <1>1
<1> HIDE DEF b
<1>3. feed[b].index = 0
  BY <1>1, <1>2 DEF View, PubProofs!BaseOnFirst
<1>4. q < b => feed[q].index < feed[b].index /\ feed[q].index \in Nat
  BY <1>1, <1>2, FeedOfPayload
<1>5. ~(q < b)
  BY <1>3, <1>4
<1> QED BY <1>1, <1>5 DEF b

\* What a client that never lagged has got is the feed from the flashblock after its
\* acceptance on, up to the last when it has got everything.
LEMMA ViewIsStretch ==
  ASSUME View, NEW c \in Clients, missed[c] = 0
  PROVE  LET n == Len(received[c]) IN
         /\ joined[c] \in Nat /\ n \in Nat /\ joined[c] + n <= Len(feed)
         /\ ViewOf(c) = [i \in 1..n |-> feed[joined[c] + i]]
         /\ inflight[c] = 0 /\ next[c] = tail => joined[c] + n = Len(feed)
<1> DEFINE n == Len(received[c])
<1>1. /\ joined[c] \in Nat /\ received[c] \in Seq(Nat) /\ tail \in Nat /\ next[c] \in Nat
      /\ SinkProofs!ClientOrder(c) /\ SinkProofs!ClientCount(c)
  BY BuilderAssumption DEF View, SinkProofs!IndInv, SinkProofs!TypeOK, SinkProofs!ClientInv
<1>2. n \in Nat /\ DOMAIN received[c] = 1..n
  BY <1>1
<1>3. SinkProofs!Sending(c) \in {0, 1} /\ (inflight[c] = 0 => SinkProofs!Sending(c) = 0)
  BY DEF SinkProofs!Sending
<1>4. next[c] = joined[c] + n + SinkProofs!Sending(c) /\ next[c] <= tail /\ tail = Len(feed)
  BY <1>1, <1>2, <1>3 DEF SinkProofs!ClientCount, View, Aligned
<1>5. /\ joined[c] + n <= Len(feed)
      /\ inflight[c] = 0 /\ next[c] = tail => joined[c] + n = Len(feed)
  BY <1>1, <1>2, <1>3, <1>4
<1>6. \A i \in 1..n : Seen(c, i) = feed[joined[c] + i]
  BY <1>1 DEF SinkProofs!ClientOrder, Seen
<1>7. ViewOf(c) = [i \in 1..n |-> feed[joined[c] + i]]
  BY <1>2, <1>6 DEF ViewOf
<1> QED BY <1>1, <1>2, <1>5, <1>7

\* A client that never lagged and got the base of a payload with one of its flashblocks
\* has the beginning of the payload's block, and the whole when the job is over unharmed
\* and nothing is on its way: whatever overlapped the job, for any number of clients.
THEOREM ClientAssembles == Spec => []ClientAssemblesBlock
<1>1. ASSUME View PROVE ClientAssemblesBlock
  <2> SUFFICES ASSUME NEW c \in Clients, NEW j \in Pub!Jobs, missed[c] = 0,
                      NEW k \in DOMAIN received[c], Seen(c, k).payload_id = j, Seen(c, k).base = j
               PROVE  LET block == Pub!Assembled(ViewOf(c), j) IN
                      /\ IsPrefix(block, Pub!Transactions(payload[j]))
                      /\ phase[j] = "done" /\ ~failed[j] /\ inflight[c] = 0 /\ next[c] = tail
                           => block = Pub!Transactions(payload[j])
    BY DEF ClientAssemblesBlock
  <2> USE <1>1
  <2> DEFINE n == Len(received[c])
             block == PubProofs!Assembled(ViewOf(c), j)
             sent == PubProofs!Assembled(feed, j)
             whole == PubProofs!Transactions(payload[j])
  <2>1. /\ joined[c] \in Nat /\ n \in Nat /\ joined[c] + n <= Len(feed)
        /\ ViewOf(c) = [i \in 1..n |-> feed[joined[c] + i]]
        /\ inflight[c] = 0 /\ next[c] = tail => joined[c] + n = Len(feed)
    BY ViewIsStretch
  <2>2. \A i \in 1..joined[c] : feed[i].payload_id # j
    <3>1. DOMAIN feed = 1..Len(feed) /\ Len(feed) \in Nat
      BY DEF View, PubProofs!IsFeed
    <3>2. \A q \in DOMAIN feed : feed[q].payload_id = j => q > joined[c]
      BY NothingBefore
    <3> QED BY <2>1, <3>1, <3>2
  <2>3. PubProofs!AreFlashblocks(feed) /\ PubProofs!TypeOK /\ PubProofs!BlockInv
    BY DEF View, PubProofs!BlockInv
  <2> HIDE DEF n
  <2>4. /\ block \in Seq(PubProofs!TxSet)
        /\ PubProofs!Extends(sent, block)
        /\ joined[c] + n = Len(feed) => sent = block
    <3>1. PubProofs!JobsAssumption
      BY BuilderAssumption DEF PubProofs!JobsAssumption
    <3> DEFINE m == joined[c]
               view == PubProofs!Following(feed, m, n)
    <3>2. /\ PubProofs!AreFlashblocks(feed) /\ m \in Nat /\ n \in Nat /\ m + n <= Len(feed)
          /\ PubProofs!StartsAfter(feed, m, j)
      BY <2>1, <2>2, <2>3 DEF PubProofs!StartsAfter
    <3> HIDE DEF m
    <3>3. /\ PubProofs!Assembled(view, j) \in Seq(PubProofs!TxSet)
          /\ PubProofs!Extends(PubProofs!Assembled(feed, j), PubProofs!Assembled(view, j))
          /\ m + n = Len(feed) => PubProofs!Assembled(feed, j) = PubProofs!Assembled(view, j)
      BY <3>1, <3>2, PubProofs!AssembledAfter
    <3>4. view = ViewOf(c)
      BY <2>1 DEF m, PubProofs!Following
    <3> QED BY <3>3, <3>4 DEF m
  <2>5. j \in PubProofs!Jobs
    BY DEF Pub!Jobs, PubProofs!Jobs
  <2>6. /\ PubProofs!Extends(whole, sent)
        /\ phase[j] = "done" /\ ~failed[j] => sent = whole
    <3>1. PubProofs!Extends(whole, sent)
      BY <2>3, <2>5, BuilderAssumption, PubProofs!BlockSplit DEF PubProofs!JobsAssumption
    <3>2. phase[j] = "done" /\ ~failed[j] => sent = whole
      BY <2>5 DEF View, PubProofs!BlockIsItsFlashblocks
    <3> QED BY <3>1, <3>2
  <2>7. Pub!Assembled(ViewOf(c), j) = block
    BY SameFlatten DEF Pub!Assembled, PubProofs!Assembled, Pub!TransactionsFor, PubProofs!TransactionsFor
  <2>8. Pub!Transactions(payload[j]) = whole
    BY SameFlatten DEF Pub!Transactions, PubProofs!Transactions, Pub!CheckpointTransactions,
                       PubProofs!CheckpointTransactions
  <2> HIDE DEF block, sent, whole
  <2>9. IsPrefix(block, whole)
    <3> DEFINE T == PubProofs!TxSet
    <3>1. PICK u \in Seq(T), v \in Seq(T) : sent = block \o u /\ whole = sent \o v
      BY <2>4, <2>6 DEF PubProofs!Extends
    <3> HIDE DEF T
    <3>2. block \in Seq(T) BY <2>4 DEF T
    <3>3. u \o v \in Seq(T)
      BY ConcatProperties
    <3>4. (block \o u) \o v = block \o (u \o v)
      BY <3>2, ConcatAssociative
    <3>5. whole = block \o (u \o v)
      BY <3>1, <3>4
    <3> QED BY <3>2, <3>3, <3>5, PrefixOfConcat
  <2> QED BY <2>1, <2>4, <2>6, <2>7, <2>8, <2>9
<1> QED BY <1>1, ViewHolds, PTL
=============================================================================
