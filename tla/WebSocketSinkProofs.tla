------------------------- MODULE WebSocketSinkProofs -------------------------
(***************************************************************************)
(* Proofs about WebSocketSink, for every set of clients, every capacity of *)
(* the channel and every number of flashblocks.                            *)
(***************************************************************************)
EXTENDS WebSocketSink, SequenceTheorems, TLAPS

(***************************************************************************)
(* The inductive invariant. The listener's part says that it ends only on  *)
(* term or on a panic; a client's part ties its receiver's position, the   *)
(* flashblock in flight and the flashblocks sent together.                 *)
(***************************************************************************)
ListenerInv ==
  /\ listener = "stopped" => term
  /\ PublishFailsOnlyAfterStop
  /\ publishFailed => ~SocketOpen

Fresh == {"none", "backlog", "handshaking"}

ClientPhase(c) ==
  /\ conn[c] = "sending" => inflight[c] # 0
  /\ conn[c] \in Fresh \union {"open"} => inflight[c] = 0
  /\ conn[c] \in Fresh => received[c] = <<>> /\ missed[c] = 0

ClientCount(c) ==
  /\ next[c] <= tail
  /\ inflight[c] # 0 => inflight[c] = next[c]
  /\ next[c] = joined[c] + Len(received[c]) + missed[c] + Sending(c)

ClientOrder(c) ==
  /\ \A i \in 1..Len(received[c]) : received[c][i] + Sending(c) <= next[c]
  /\ \A i, j \in 1..Len(received[c]) : i < j => received[c][i] < received[c][j]
  /\ missed[c] = 0 => \A i \in 1..Len(received[c]) : received[c][i] = joined[c] + i

ClientInv(c) == ClientPhase(c) /\ ClientCount(c) /\ ClientOrder(c)

IndInv == TypeOK /\ ListenerInv /\ \A c \in Clients : ClientInv(c)

----------------------------------------------------------------------------
\* What Append does to a sequence of flashblocks.
LEMMA AppendNat ==
  ASSUME NEW s \in Seq(Nat), NEW n \in Nat
  PROVE  /\ Append(s, n) \in Seq(Nat)
         /\ Len(Append(s, n)) = Len(s) + 1
         /\ \A i \in 1..Len(s) : Append(s, n)[i] = s[i]
         /\ Append(s, n)[Len(s) + 1] = n
OBVIOUS

\* A client whose connection a step leaves alone keeps its invariant, because
\* the channel's tail never moves back.
LEMMA ClientUntouched ==
  ASSUME NEW c \in Clients, TypeOK, ClientInv(c), tail' \in Nat, tail <= tail',
         conn'[c] = conn[c], next'[c] = next[c], inflight'[c] = inflight[c],
         received'[c] = received[c], joined'[c] = joined[c], missed'[c] = missed[c]
  PROVE  ClientInv(c)'
BY DEF TypeOK, ClientInv, ClientPhase, ClientCount, ClientOrder, Sending, Fresh

\* Ending a connection never breaks its invariant.
LEMMA ClientEnds ==
  ASSUME NEW c \in Clients, TypeOK, ClientInv(c),
         conn'[c] = "closed",
         UNCHANGED <<tail, next, inflight, received, joined, missed>>
  PROVE  ClientInv(c)'
BY DEF TypeOK, ClientInv, ClientPhase, ClientCount, ClientOrder, Sending, Fresh

LEMMA InitInv == Init => IndInv
<1> SUFFICES ASSUME Init PROVE IndInv
  OBVIOUS
<1> USE SinkAssumption DEF Init
<1>1. TypeOK
  <2>1. <<>> \in Seq(Nat) BY EmptySeq
  <2>2. 0 \in 0..MaxPublished OBVIOUS
  <2> QED BY <2>1, <2>2 DEF TypeOK, ListenerStates, ConnStates
<1>2. ListenerInv
  BY DEF ListenerInv, PublishFailsOnlyAfterStop
<1>3. ASSUME NEW c \in Clients PROVE ClientInv(c)
  BY DEF ClientInv, ClientPhase, ClientCount, ClientOrder, Sending, Fresh
<1> QED BY <1>1, <1>2, <1>3 DEF IndInv

\* TypeOK is preserved by every step.
LEMMA NextType == IndInv /\ [Next]_vars => TypeOK'
<1> SUFFICES ASSUME IndInv, [Next]_vars PROVE TypeOK'
  OBVIOUS
<1> USE SinkAssumption DEF IndInv, TypeOK, ListenerStates, ConnStates, ResetBacklog,
        chanVars, termVars, histVars, connVars
<1>1. CASE ListenerStart BY <1>1 DEF ListenerStart
<1>2. CASE AcceptErr BY <1>2 DEF AcceptErr
<1>3. CASE ListenerStop BY <1>3 DEF ListenerStop
<1>4. ASSUME NEW c \in Clients, Accept(c) PROVE TypeOK' BY <1>4 DEF Accept
<1>5. ASSUME NEW c \in Clients, HandshakeOk(c) PROVE TypeOK' BY <1>5 DEF HandshakeOk
<1>6. ASSUME NEW c \in Clients, HandshakeErr(c) PROVE TypeOK' BY <1>6 DEF HandshakeErr
<1>7. CASE PublishOk BY <1>7 DEF PublishOk
<1>8. CASE PublishErr BY <1>8 DEF PublishErr
<1>9. CASE PipelineDropped BY <1>9 DEF PipelineDropped
<1>10. CASE DropSink BY <1>10 DEF DropSink
<1>11. ASSUME NEW c \in Clients, StopLoop(c) PROVE TypeOK' BY <1>11 DEF StopLoop
<1>12. ASSUME NEW c \in Clients, Recv(c) PROVE TypeOK' BY <1>12 DEF Recv
<1>13. ASSUME NEW c \in Clients, RecvLagged(c) PROVE TypeOK'
  <2>1. tail - Capacity \in Nat /\ tail - Capacity - next[c] \in Nat
    BY <1>13 DEF RecvLagged, Lags
  <2> QED BY <1>13, <2>1 DEF RecvLagged
<1>14. ASSUME NEW c \in Clients, RecvClosed(c) PROVE TypeOK' BY <1>14 DEF RecvClosed
<1>15. ASSUME NEW c \in Clients, SendOk(c) PROVE TypeOK'
  <2>1. Append(received[c], inflight[c]) \in Seq(Nat)
    BY AppendNat
  <2> QED BY <1>15, <2>1 DEF SendOk
<1>16. ASSUME NEW c \in Clients, SendErr(c) PROVE TypeOK' BY <1>16 DEF SendErr
<1>17. ASSUME NEW c \in Clients, ClientGone(c) PROVE TypeOK' BY <1>17 DEF ClientGone
<1>18. ASSUME NEW c \in Clients, Connect(c) PROVE TypeOK' BY <1>18 DEF Connect
<1>19. CASE UNCHANGED vars BY <1>19 DEF vars
<1> QED
  BY <1>1, <1>2, <1>3, <1>4, <1>5, <1>6, <1>7, <1>8, <1>9, <1>10, <1>11, <1>12,
     <1>13, <1>14, <1>15, <1>16, <1>17, <1>18, <1>19
     DEF Next, Listener, Publisher, Broadcast
\* The listener's part is preserved by every step.
LEMMA NextListener == IndInv /\ [Next]_vars => ListenerInv'
<1> SUFFICES ASSUME IndInv, [Next]_vars PROVE ListenerInv'
  OBVIOUS
<1> USE DEF IndInv, ListenerInv, PublishFailsOnlyAfterStop, SocketOpen, chanVars,
        termVars, connVars
<1>1. CASE ListenerStart BY <1>1 DEF ListenerStart
<1>2. CASE AcceptErr BY <1>2 DEF AcceptErr
<1>3. CASE ListenerStop BY <1>3 DEF ListenerStop
<1>4. ASSUME NEW c \in Clients, Accept(c) \/ HandshakeOk(c) \/ HandshakeErr(c)
      PROVE  ListenerInv'
  BY <1>4 DEF Accept, HandshakeOk, HandshakeErr
<1>5. CASE PublishErr BY <1>5 DEF PublishErr, HasReceivers, TypeOK
<1>6. CASE PublishOk \/ PipelineDropped \/ DropSink
  BY <1>6 DEF PublishOk, PipelineDropped, DropSink
<1>7. ASSUME NEW c \in Clients, Broadcast(c) \/ Connect(c)
      PROVE  UNCHANGED <<term, listener, publishFailed>>
  BY <1>7 DEF Broadcast, StopLoop, Recv, RecvLagged, RecvClosed, SendOk, SendErr,
              ClientGone, Connect
<1>8. CASE UNCHANGED vars BY <1>8 DEF vars
<1> QED
  BY <1>1, <1>2, <1>3, <1>4, <1>5, <1>6, <1>7, <1>8
     DEF Next, Listener, Publisher

\* A client's part is preserved by every step, its own or another's.
LEMMA NextClient == IndInv /\ [Next]_vars => \A c \in Clients : ClientInv(c)'
<1> SUFFICES ASSUME IndInv, [Next]_vars, NEW c \in Clients PROVE ClientInv(c)'
  OBVIOUS
<1>0. TypeOK /\ ClientInv(c) /\ TypeOK'
  BY NextType DEF IndInv
<1>a. tail \in Nat /\ tail' \in Nat
  BY <1>0, SinkAssumption DEF TypeOK
<1> DEFINE Untouched ==
      /\ conn'[c] = conn[c] /\ next'[c] = next[c] /\ inflight'[c] = inflight[c]
      /\ received'[c] = received[c] /\ joined'[c] = joined[c] /\ missed'[c] = missed[c]
<1>b. ASSUME tail <= tail', Untouched PROVE ClientInv(c)'
  BY <1>b, <1>0, <1>a, ClientUntouched
<1> USE DEF chanVars, termVars, histVars, connVars
\* Resetting the backlog ends c's connection or leaves it alone.
<1>c. ASSUME ResetBacklog, UNCHANGED <<tail, next, inflight, histVars>>
      PROVE  ClientInv(c)'
  <2>1. CASE conn[c] = "backlog"
    <3>1. conn'[c] = "closed" BY <1>c, <2>1 DEF ResetBacklog
    <3> QED BY <3>1, <1>c, <1>0, ClientEnds
  <2>2. CASE conn[c] # "backlog"
    <3>1. conn'[c] = conn[c] BY <1>c, <2>2 DEF ResetBacklog
    <3> QED BY <3>1, <1>c, <1>a, <1>b
  <2> QED BY <2>1, <2>2
<1>1. CASE ListenerStart \/ ListenerStop
  BY <1>1, <1>c, <1>a, <1>b DEF ListenerStart, ListenerStop
<1>2. CASE AcceptErr \/ Publisher
  BY <1>2, <1>a, <1>b DEF AcceptErr, Publisher, PublishOk, PublishErr, PipelineDropped, DropSink
<1>3. ASSUME NEW d \in Clients, Accept(d) PROVE ClientInv(c)'
  <2>1. CASE d = c
    <3>1. /\ conn[c] = "backlog" /\ conn'[c] = "handshaking"
          /\ next'[c] = tail /\ joined'[c] = tail /\ tail' = tail
          /\ UNCHANGED <<inflight, received, missed>>
      BY <1>3, <2>1, <1>0 DEF Accept, TypeOK
    <3>2. inflight[c] = 0 /\ received[c] = <<>> /\ missed[c] = 0
      BY <3>1, <1>0 DEF ClientInv, ClientPhase, Fresh
    <3> QED
      BY <3>1, <3>2, <1>a DEF ClientInv, ClientPhase, ClientCount, ClientOrder, Sending, Fresh
  <2>2. CASE d # c
    BY <1>3, <2>2, <1>0, <1>a, <1>b DEF Accept, TypeOK
  <2> QED BY <2>1, <2>2
<1>4. ASSUME NEW d \in Clients, HandshakeOk(d) PROVE ClientInv(c)'
  <2>1. CASE d = c
    <3>1. /\ conn[c] = "handshaking" /\ conn'[c] = "open"
          /\ UNCHANGED <<tail, next, inflight, received, joined, missed>>
      BY <1>4, <2>1, <1>0 DEF HandshakeOk, TypeOK
    <3> QED
      BY <3>1, <1>0 DEF ClientInv, ClientPhase, ClientCount, ClientOrder, Sending, Fresh
  <2>2. CASE d # c
    BY <1>4, <2>2, <1>0, <1>a, <1>b DEF HandshakeOk, TypeOK
  <2> QED BY <2>1, <2>2
\* The steps that end the connection of one client.
<1>5. ASSUME NEW d \in Clients,
             HandshakeErr(d) \/ StopLoop(d) \/ RecvClosed(d) \/ SendErr(d) \/ ClientGone(d)
      PROVE  ClientInv(c)'
  <2>1. /\ conn' = [conn EXCEPT ![d] = "closed"]
        /\ UNCHANGED <<tail, next, inflight, received, joined, missed>>
    BY <1>5 DEF HandshakeErr, StopLoop, RecvClosed, SendErr, ClientGone
  <2>2. CASE d = c
    <3>1. conn'[c] = "closed" BY <2>1, <2>2, <1>0 DEF TypeOK
    <3> QED BY <3>1, <2>1, <1>0, ClientEnds
  <2>3. CASE d # c
    BY <2>1, <2>3, <1>0, <1>a, <1>b DEF TypeOK
  <2> QED BY <2>2, <2>3
<1>6. ASSUME NEW d \in Clients, Recv(d) PROVE ClientInv(c)'
  <2>1. CASE d = c
    <3>1. /\ conn[c] = "open" /\ conn'[c] = "sending" /\ next[c] < tail
          /\ next'[c] = next[c] + 1 /\ inflight'[c] = next[c] + 1
          /\ UNCHANGED <<tail, received, joined, missed>>
      BY <1>6, <2>1, <1>0 DEF Recv, TypeOK
    <3>2. inflight[c] = 0 BY <3>1, <1>0 DEF ClientInv, ClientPhase
    <3>3. /\ next[c] \in Nat /\ joined[c] \in Nat /\ missed[c] \in Nat
          /\ received[c] \in Seq(Nat)
      BY <1>0 DEF TypeOK
    <3>4. ClientPhase(c)' BY <3>1, <3>3 DEF ClientPhase, Fresh
    <3>5. ClientCount(c)'
      BY <3>1, <3>2, <3>3, <1>0, <1>a DEF ClientInv, ClientCount, Sending
    <3>6. ClientOrder(c)'
      BY <3>1, <3>2, <3>3, <1>0, ElementOfSeq DEF ClientInv, ClientOrder, Sending
    <3> QED BY <3>4, <3>5, <3>6 DEF ClientInv
  <2>2. CASE d # c
    BY <1>6, <2>2, <1>0, <1>a, <1>b DEF Recv, TypeOK
  <2> QED BY <2>1, <2>2
<1>7. ASSUME NEW d \in Clients, RecvLagged(d) PROVE ClientInv(c)'
  <2>1. CASE d = c
    <3>1. /\ conn[c] = "open" /\ tail > next[c] + Capacity
          /\ next'[c] = tail - Capacity
          /\ missed'[c] = missed[c] + (tail - Capacity - next[c])
          /\ UNCHANGED <<tail, conn, inflight, received, joined>>
      BY <1>7, <2>1, <1>0 DEF RecvLagged, Lags, TypeOK
    <3>2. inflight[c] = 0 BY <3>1, <1>0 DEF ClientInv, ClientPhase
    <3>3. /\ next[c] \in Nat /\ joined[c] \in Nat /\ missed[c] \in Nat
          /\ received[c] \in Seq(Nat) /\ Capacity \in Nat
      BY <1>0, SinkAssumption DEF TypeOK
    <3>4. ClientPhase(c)' BY <3>1, <3>2, <3>3 DEF ClientPhase, Fresh
    <3>5. ClientCount(c)'
      <4>1. received' = received /\ joined' = joined /\ tail' = tail BY <3>1
      <4>2. Sending(c)' = 0 /\ Sending(c) = 0 /\ inflight'[c] = 0 BY <3>1, <3>2 DEF Sending
      <4>3. next[c] = joined[c] + Len(received[c]) + missed[c] /\ Len(received[c]) \in Nat
        BY <1>0, <3>3, <4>2 DEF ClientInv, ClientCount
      <4>4. next'[c] = joined[c] + Len(received[c]) + missed'[c]
        <5>1. \A l \in Nat : next[c] = joined[c] + l + missed[c]
                => tail - Capacity = joined[c] + l + (missed[c] + (tail - Capacity - next[c]))
          BY <3>3, <1>a
        <5> QED BY <3>1, <4>3, <5>1
      <4>5. next'[c] <= tail' BY <3>1, <3>3, <1>a
      <4>6. missed'[c] \in Nat BY <1>0 DEF TypeOK
      <4> QED BY <3>3, <4>1, <4>2, <4>3, <4>4, <4>5, <4>6 DEF ClientCount
    <3>6. missed'[c] # 0 /\ next[c] <= next'[c] /\ next'[c] \in Nat
      BY <3>1, <3>3, <1>a
    <3>7. \A i \in 1..Len(received[c]) :
             received[c][i] \in Nat /\ received[c][i] <= next[c]
      BY <3>2, <3>3, <1>0, ElementOfSeq DEF ClientInv, ClientOrder, Sending
    <3>8. \A i \in 1..Len(received[c]) : received[c][i] <= next'[c]
      BY <3>3, <3>6, <3>7
    <3>9. \A i \in 1..Len(received[c]) : received[c][i] + 0 <= next'[c]
      BY <3>7, <3>8
    <3>10. ClientOrder(c)'
      BY <3>1, <3>2, <3>6, <3>9, <1>0 DEF ClientInv, ClientOrder, Sending
    <3> QED BY <3>4, <3>5, <3>10 DEF ClientInv
  <2>2. CASE d # c
    BY <1>7, <2>2, <1>0, <1>a, <1>b DEF RecvLagged, TypeOK
  <2> QED BY <2>1, <2>2
<1>8. ASSUME NEW d \in Clients, SendOk(d) PROVE ClientInv(c)'
  <2>1. CASE d = c
    <3>1. /\ conn[c] = "sending" /\ conn'[c] = "open"
          /\ received'[c] = Append(received[c], inflight[c]) /\ inflight'[c] = 0
          /\ UNCHANGED <<tail, next, joined, missed>>
      BY <1>8, <2>1, <1>0 DEF SendOk, TypeOK
    <3>2. inflight[c] # 0 /\ inflight[c] = next[c]
      BY <3>1, <1>0 DEF ClientInv, ClientPhase, ClientCount
    <3>3. /\ next[c] \in Nat /\ joined[c] \in Nat /\ missed[c] \in Nat
          /\ received[c] \in Seq(Nat) /\ inflight[c] \in Nat
      BY <1>0 DEF TypeOK
    <3> DEFINE r == Append(received[c], inflight[c])
    <3>4. /\ r \in Seq(Nat) /\ Len(r) = Len(received[c]) + 1
          /\ \A i \in 1..Len(received[c]) : r[i] = received[c][i]
          /\ r[Len(received[c]) + 1] = inflight[c]
      BY <3>3, AppendNat
    <3>5. ClientPhase(c)' BY <3>1, <3>3 DEF ClientPhase, Fresh
    <3>6. ClientCount(c)'
      BY <3>1, <3>2, <3>3, <3>4, <1>0, <1>a DEF ClientInv, ClientCount, Sending
    <3>7. Len(received[c]) \in Nat BY <3>3
    <3>8. next[c] = joined[c] + Len(received[c]) + missed[c] + 1
      BY <1>0, <3>2 DEF ClientInv, ClientCount, Sending
    <3>9. \A i \in 1..Len(received[c]) : received[c][i] \in Nat /\ received[c][i] < next[c]
      BY <1>0, <3>2, <3>3, ElementOfSeq DEF ClientInv, ClientOrder, Sending
    <3>10. \A i \in 1..Len(r) : i \in 1..Len(received[c]) \/ i = Len(received[c]) + 1
      BY <3>4, <3>7
    <3>11. \A i \in 1..Len(r) : r[i] + 0 <= next[c]
      BY <3>2, <3>3, <3>4, <3>9, <3>10
    <3>12. \A i, j \in 1..Len(r) : i < j => r[i] < r[j]
      BY <3>2, <3>3, <3>4, <3>7, <3>9, <3>10, <1>0 DEF ClientInv, ClientOrder
    <3>13. missed[c] = 0 => \A i \in 1..Len(r) : r[i] = joined[c] + i
      <4>1. missed[c] = 0 => r[Len(received[c]) + 1] = joined[c] + (Len(received[c]) + 1)
        BY <3>2, <3>3, <3>4, <3>7, <3>8
      <4>2. missed[c] = 0 => \A i \in 1..Len(received[c]) : r[i] = joined[c] + i
        BY <3>4, <1>0 DEF ClientInv, ClientOrder
      <4> QED BY <3>10, <4>1, <4>2
    <3>14. ClientOrder(c)'
      BY <3>1, <3>11, <3>12, <3>13 DEF ClientOrder, Sending
    <3> QED BY <3>5, <3>6, <3>14 DEF ClientInv
  <2>2. CASE d # c
    BY <1>8, <2>2, <1>0, <1>a, <1>b DEF SendOk, TypeOK
  <2> QED BY <2>1, <2>2
<1>9. ASSUME NEW d \in Clients, Connect(d) PROVE ClientInv(c)'
  <2>1. CASE d = c
    <3>1. /\ conn[c] = "none" /\ conn'[c] \in {"backlog", "closed"}
          /\ UNCHANGED <<tail, next, inflight, received, joined, missed>>
      BY <1>9, <2>1, <1>0 DEF Connect, TypeOK
    <3> QED
      BY <3>1, <1>0 DEF ClientInv, ClientPhase, ClientCount, ClientOrder, Sending, Fresh
  <2>2. CASE d # c
    BY <1>9, <2>2, <1>0, <1>a, <1>b DEF Connect, TypeOK
  <2> QED BY <2>1, <2>2
<1>10. CASE UNCHANGED vars
  BY <1>10, <1>a, <1>b DEF vars
<1> QED
  BY <1>1, <1>2, <1>3, <1>4, <1>5, <1>6, <1>7, <1>8, <1>9, <1>10
     DEF Next, Listener, Broadcast

\* IndInv is an invariant of the specification.
LEMMA Invariance == Spec => []IndInv
<1>1. IndInv /\ [Next]_vars => IndInv'
  BY NextType, NextListener, NextClient DEF IndInv
<1> QED BY <1>1, InitInv, PTL DEF Spec

----------------------------------------------------------------------------
\* Type correctness of the sink's state, for every instance.
THEOREM TypeCorrect == Spec => []TypeOK
<1>1. IndInv => TypeOK BY DEF IndInv
<1> QED BY <1>1, Invariance, PTL

\* Whatever the clients do and however slow they are, every flashblock sent on
\* the channel since a client was accepted is accounted for.
THEOREM AccountingHolds == Spec => []Accounting
<1>1. IndInv => Accounting BY DEF IndInv, ClientInv, ClientCount, Accounting
<1> QED BY <1>1, Invariance, PTL

\* A client that never lagged has received, without a gap, the flashblocks
\* published since it was accepted.
THEOREM NoLossHolds == Spec => []NoLossWithoutLag
<1>1. ASSUME IndInv, NEW c \in Clients PROVE DOMAIN received[c] = 1..Len(received[c])
  BY <1>1, LenProperties DEF IndInv, TypeOK
<1>2. IndInv => NoLossWithoutLag
  BY <1>1 DEF IndInv, ClientInv, ClientOrder, NoLossWithoutLag
<1> QED BY <1>2, Invariance, PTL

\* Clients receive flashblocks in the order of publication, without repetition.
THEOREM OrderHolds == Spec => []InOrder
<1>1. ASSUME IndInv, NEW c \in Clients PROVE DOMAIN received[c] = 1..Len(received[c])
  BY <1>1, LenProperties DEF IndInv, TypeOK
<1>2. IndInv => InOrder
  BY <1>1 DEF IndInv, ClientInv, ClientOrder, InOrder
<1> QED BY <1>2, Invariance, PTL

\* publish fails only once the sink is stopping or its listener panicked.
THEOREM PublishFailsHolds == Spec => []PublishFailsOnlyAfterStop
<1>1. IndInv => PublishFailsOnlyAfterStop BY DEF IndInv, ListenerInv
<1> QED BY <1>1, Invariance, PTL
----------------------------------------------------------------------------
(* The sink implements the abstract feed. *)

\* The abstract status of a client as a function of where its connection is.
LEMMA StatusValue ==
  ASSUME NEW c \in Clients, conn \in [Clients -> ConnStates]
  PROVE  /\ feedStatus[c] = "new" <=> conn[c] \in {"none", "backlog"}
         /\ feedStatus[c] = "gone" <=> conn[c] = "closed"
         /\ feedStatus[c] = "subscribed" <=> Subscribed(c)
         /\ feedStatus[c] \in {"new", "gone", "subscribed"}
BY DEF feedStatus, Subscribed, ConnStates

\* A step that moves no connection from one abstract status to another, no
\* receiver and no flashblock is a stuttering step of the feed.
LEMMA FeedStutter ==
  ASSUME conn \in [Clients -> ConnStates], conn' \in [Clients -> ConnStates],
         \A c \in Clients : feedStatus'[c] = feedStatus[c],
         UNCHANGED <<tail, next, inflight, received>>
  PROVE  UNCHANGED Feed!feedVars
<1>1. feedStatus' = feedStatus BY DEF feedStatus
<1>2. feedCursor' = feedCursor BY DEF feedCursor, Sending
<1> QED BY <1>1, <1>2 DEF Feed!feedVars

\* When one connection ends and nothing else changes, its client leaves.
LEMMA FeedLeave ==
  ASSUME NEW c \in Clients, conn \in [Clients -> ConnStates], Subscribed(c),
         conn' = [conn EXCEPT ![c] = "closed"],
         UNCHANGED <<tail, next, inflight, received>>
  PROVE  Feed!Leave(c)
<1>1. conn' \in [Clients -> ConnStates] BY DEF ConnStates
<1>2. feedStatus[c] = "subscribed" BY StatusValue
<1>3. feedStatus' = [feedStatus EXCEPT ![c] = "gone"]
  BY DEF feedStatus
<1>4. feedCursor' = feedCursor BY DEF feedCursor, Sending
<1> QED BY <1>2, <1>3, <1>4 DEF Feed!Leave

\* When pending connections are reset, their clients are turned away.
LEMMA FeedTurnAway ==
  ASSUME conn \in [Clients -> ConnStates],
         NEW T \in SUBSET Clients, \A c \in T : conn[c] \in {"none", "backlog"},
         conn' = [c \in Clients |-> IF c \in T THEN "closed" ELSE conn[c]],
         UNCHANGED <<tail, next, inflight, received>>
  PROVE  Feed!TurnAway
<1>1. \A c \in T : feedStatus[c] = "new" BY StatusValue
<1>2. T \in SUBSET {c \in Clients : feedStatus[c] = "new"} BY <1>1
<1>3. feedStatus' = [c \in Clients |-> IF c \in T THEN "gone" ELSE feedStatus[c]]
  BY DEF feedStatus
<1>4. feedCursor' = feedCursor BY DEF feedCursor, Sending
<1> QED BY <1>2, <1>3, <1>4 DEF Feed!TurnAway

\* Every step of the sink is a step of the feed or leaves it unchanged.
LEMMA FeedStep == IndInv /\ IndInv' /\ [Next]_vars => [Feed!Next]_(Feed!feedVars)
<1> SUFFICES ASSUME IndInv, IndInv', [Next]_vars
             PROVE  Feed!Next \/ UNCHANGED Feed!feedVars
  OBVIOUS
<1>0. /\ conn \in [Clients -> ConnStates] /\ conn' \in [Clients -> ConnStates]
      /\ next \in [Clients -> Nat] /\ inflight \in [Clients -> Nat]
      /\ received \in [Clients -> Seq(Nat)] /\ tail \in Nat
      /\ \A c \in Clients : ClientInv(c)
  BY SinkAssumption DEF IndInv, TypeOK
<1> USE DEF chanVars, termVars, histVars, connVars
<1>a. ASSUME ResetBacklog, UNCHANGED <<tail, next, inflight, received>>
      PROVE  Feed!Next
  <2> DEFINE T == {c \in Clients : conn[c] = "backlog"}
  <2>1. conn' = [c \in Clients |-> IF c \in T THEN "closed" ELSE conn[c]]
    BY <1>a DEF ResetBacklog
  <2>2. Feed!TurnAway BY <2>1, <1>a, <1>0, FeedTurnAway
  <2> QED BY <2>2 DEF Feed!Next
<1>b. ASSUME UNCHANGED <<conn, tail, next, inflight, received>>
      PROVE  UNCHANGED Feed!feedVars
  <2>1. feedStatus' = feedStatus BY <1>b DEF feedStatus
  <2> QED BY <2>1, <1>b, <1>0, FeedStutter
<1>1. CASE ListenerStart \/ ListenerStop
  BY <1>1, <1>a, <1>b DEF ListenerStart, ListenerStop
<1>2. CASE AcceptErr \/ PublishErr \/ PipelineDropped \/ DropSink
  BY <1>2, <1>b DEF AcceptErr, PublishErr, PipelineDropped, DropSink
<1>3. CASE PublishOk
  <2>1. feedStatus' = feedStatus /\ feedCursor' = feedCursor
    BY <1>3 DEF PublishOk, feedStatus, feedCursor, Sending
  <2> QED BY <1>3, <2>1 DEF PublishOk, Feed!Next, Feed!Publish
<1>4. ASSUME NEW c \in Clients, Accept(c) PROVE Feed!Next
  <2>1. feedStatus[c] = "new" BY <1>4, <1>0, StatusValue DEF Accept
  <2>2. feedStatus' = [feedStatus EXCEPT ![c] = "subscribed"]
    BY <1>4, <1>0 DEF Accept, feedStatus
  <2>3. inflight[c] = 0 BY <1>4, <1>0 DEF Accept, ClientInv, ClientPhase, Fresh
  <2>4. feedCursor' = [feedCursor EXCEPT ![c] = tail]
    <3>1. \A d \in Clients : d # c => next'[d] - Sending(d)' = next[d] - Sending(d)
      BY <1>4, <1>0 DEF Accept, Sending
    <3>2. next'[c] - Sending(c)' = tail
      BY <1>4, <1>0, <2>3 DEF Accept, Sending
    <3> QED BY <3>1, <3>2 DEF feedCursor
  <2>5. Feed!Subscribe(c) BY <1>4, <2>1, <2>2, <2>4 DEF Accept, Feed!Subscribe
  <2> QED BY <2>5 DEF Feed!Next
<1>5. ASSUME NEW c \in Clients, HandshakeOk(c) PROVE UNCHANGED Feed!feedVars
  <2>1. \A d \in Clients : feedStatus'[d] = feedStatus[d]
    BY <1>5, <1>0 DEF HandshakeOk, feedStatus
  <2> QED BY <1>5, <2>1, <1>0, FeedStutter DEF HandshakeOk
<1>6. ASSUME NEW c \in Clients,
             HandshakeErr(c) \/ StopLoop(c) \/ RecvClosed(c) \/ SendErr(c) \/ ClientGone(c)
      PROVE  Feed!Next
  <2>1. /\ Subscribed(c) /\ conn' = [conn EXCEPT ![c] = "closed"]
        /\ UNCHANGED <<tail, next, inflight, received>>
    BY <1>6 DEF HandshakeErr, StopLoop, RecvClosed, SendErr, ClientGone, Subscribed
  <2>2. Feed!Leave(c) BY <2>1, <1>0, FeedLeave
  <2> QED BY <2>2 DEF Feed!Next
<1>7. ASSUME NEW c \in Clients, Recv(c) PROVE UNCHANGED Feed!feedVars
  <2>1. feedStatus' = feedStatus
    BY <1>7, <1>0 DEF Recv, feedStatus
  <2>2. inflight[c] = 0 BY <1>7, <1>0 DEF Recv, ClientInv, ClientPhase
  <2>3. \A d \in Clients : next'[d] - Sending(d)' = next[d] - Sending(d)
    BY <1>7, <1>0, <2>2 DEF Recv, Sending
  <2>4. feedCursor' = feedCursor
    BY <2>3 DEF feedCursor
  <2> QED BY <1>7, <2>1, <2>4 DEF Recv, Feed!feedVars
<1>8. ASSUME NEW c \in Clients, RecvLagged(c) PROVE Feed!Next
  <2>1. feedStatus' = feedStatus /\ feedStatus[c] = "subscribed"
    BY <1>8, <1>0, StatusValue DEF RecvLagged, feedStatus, Subscribed
  <2>2. inflight[c] = 0 BY <1>8, <1>0 DEF RecvLagged, ClientInv, ClientPhase
  <2>3. feedCursor[c] = next[c] BY <2>2, <1>0 DEF feedCursor, Sending
  <2>4. tail - Capacity \in Nat
    BY <1>8, <1>0, SinkAssumption DEF RecvLagged, Lags
  <2>5. feedCursor' = [feedCursor EXCEPT ![c] = tail - Capacity]
    <3>1. \A d \in Clients : d # c => next'[d] - Sending(d)' = next[d] - Sending(d)
      BY <1>8, <1>0 DEF RecvLagged, Sending
    <3>2. next'[c] - Sending(c)' = tail - Capacity
      BY <1>8, <1>0, <2>2, <2>4 DEF RecvLagged, Sending
    <3> QED BY <3>1, <3>2 DEF feedCursor
  <2>6. Feed!Skip(c) BY <1>8, <2>1, <2>3, <2>5 DEF RecvLagged, Lags, Feed!Skip
  <2> QED BY <2>6 DEF Feed!Next
<1>9. ASSUME NEW c \in Clients, SendOk(c) PROVE Feed!Next
  <2>1. feedStatus' = feedStatus /\ feedStatus[c] = "subscribed"
    BY <1>9, <1>0, StatusValue DEF SendOk, feedStatus, Subscribed
  <2>2. /\ inflight[c] # 0 /\ inflight[c] = next[c] /\ next[c] <= tail
        /\ next[c] \in Nat
    BY <1>9, <1>0 DEF SendOk, ClientInv, ClientPhase, ClientCount
  <2>3. /\ feedCursor[c] = next[c] - 1 /\ feedCursor[c] < tail
        /\ feedCursor[c] + 1 = inflight[c] /\ feedCursor[c] + 1 = next[c]
    BY <2>2, <1>0 DEF feedCursor, Sending
  <2>4. \A d \in Clients : d # c => next'[d] - Sending(d)' = next[d] - Sending(d)
    BY <1>9, <1>0 DEF SendOk, Sending
  <2>5. next'[c] - Sending(c)' = next[c]
    BY <1>9, <1>0 DEF SendOk, Sending
  <2>6. feedCursor' = [feedCursor EXCEPT ![c] = feedCursor[c] + 1]
    BY <2>3, <2>4, <2>5 DEF feedCursor
  <2>7. Feed!Deliver(c) BY <1>9, <2>1, <2>3, <2>6 DEF SendOk, Feed!Deliver
  <2> QED BY <2>7 DEF Feed!Next
<1>10. ASSUME NEW c \in Clients, Connect(c)
       PROVE  Feed!Next \/ UNCHANGED Feed!feedVars
  <2>1. CASE SocketOpen
    <3>1. \A d \in Clients : feedStatus'[d] = feedStatus[d]
      BY <1>10, <1>0, <2>1 DEF Connect, feedStatus
    <3> QED BY <1>10, <3>1, <1>0, FeedStutter DEF Connect
  <2>2. CASE ~SocketOpen
    <3>1. conn' = [d \in Clients |-> IF d \in {c} THEN "closed" ELSE conn[d]]
      BY <1>10, <1>0, <2>2 DEF Connect
    <3>2. Feed!TurnAway BY <1>10, <3>1, <1>0, FeedTurnAway DEF Connect
    <3> QED BY <3>2 DEF Feed!Next
  <2> QED BY <2>1, <2>2
<1>11. CASE UNCHANGED vars BY <1>11, <1>b DEF vars
<1> QED
  BY <1>1, <1>2, <1>3, <1>4, <1>5, <1>6, <1>7, <1>8, <1>9, <1>10, <1>11
     DEF Next, Listener, Publisher, Broadcast

\* The sink implements the feed that FlashblockFeed promises to subscribers:
\* every behaviour of its tasks and channels is one of the feed's.
THEOREM FeedRefinement == Spec => ImplementsFeed
<1>1. Init => Feed!Init
  <2> SUFFICES ASSUME Init PROVE Feed!Init
    OBVIOUS
  <2>1. feedStatus = [c \in Clients |-> "new"] BY DEF Init, feedStatus
  <2>2. feedCursor = [c \in Clients |-> 0] BY DEF Init, feedCursor, Sending
  <2> QED BY <2>1, <2>2 DEF Init, Feed!Init
<1> QED BY <1>1, FeedStep, Invariance, PTL DEF Spec, ImplementsFeed, Feed!Spec

\* Once no receiver is left, publish fails for ever: no later connection can
\* revive the channel.
THEOREM FailurePermanent == Spec => FailureIsPermanent
<1>1. IndInv /\ [Next]_vars => [~HasReceivers => ~HasReceivers']_vars
  <2> SUFFICES ASSUME IndInv, Next, ~HasReceivers PROVE ~HasReceivers'
    OBVIOUS
  <2>0. conn \in [Clients -> ConnStates] BY DEF IndInv, TypeOK
  <2>1. /\ listener \in {"stopped", "dead"}
        /\ \A c \in Clients : conn[c] \notin {"handshaking", "open", "sending"}
    BY DEF HasReceivers, SocketOpen, Subscribed
  <2> USE DEF chanVars, termVars, histVars, connVars
  <2>2. listener' = listener
    BY <2>1 DEF Next, Listener, ListenerStart, AcceptErr, ListenerStop, Accept,
                HandshakeOk, HandshakeErr, Publisher, PublishOk, PublishErr,
                PipelineDropped, DropSink, Broadcast, StopLoop, Recv, RecvLagged,
                RecvClosed, SendOk, SendErr, ClientGone, Connect
  <2>3. conn' = conn \/ \E c \in Clients : conn' = [conn EXCEPT ![c] = "closed"]
    BY <2>1 DEF Next, Listener, ListenerStart, AcceptErr, ListenerStop, Accept,
                HandshakeOk, HandshakeErr, Publisher, PublishOk, PublishErr,
                PipelineDropped, DropSink, Broadcast, StopLoop, Recv, RecvLagged,
                RecvClosed, SendOk, SendErr, ClientGone, Connect, SocketOpen
  <2>4. \A c \in Clients : ~Subscribed(c)'
    BY <2>0, <2>1, <2>3 DEF Subscribed
  <2> QED BY <2>1, <2>2, <2>4 DEF HasReceivers, SocketOpen
<1> QED BY <1>1, Invariance, PTL DEF Spec, FailureIsPermanent
=============================================================================
