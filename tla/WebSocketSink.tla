---------------------------- MODULE WebSocketSink ----------------------------
(***************************************************************************)
(* The WebSocketSink of publish.rs: the broadcast channel that carries the *)
(* flashblocks, the listener task that accepts clients, one broadcast task *)
(* per client, and the watch channel that stops them.                      *)
(*                                                                         *)
(* A flashblock is known by its rank among those sent on the channel.      *)
(***************************************************************************)
EXTENDS Naturals, Sequences

CONSTANTS
  Clients,       \* TCP connections; a client that reconnects is a new one
  Capacity,      \* slots of the broadcast channel (128 in the program)
  MaxPublished   \* bound on the flashblocks published in a behaviour

ASSUME SinkAssumption ==
  /\ Capacity \in Nat \ {0}
  /\ MaxPublished \in Nat

VARIABLES
  tail,          \* flashblocks sent on the broadcast channel
  term,          \* value of the watch channel
  dropped,       \* the sink, and with it the channel's sender, is dropped
  publishFailed, \* some publish returned an error
  listener,      \* where the listener task stands
  conn,          \* where each connection stands
  next,          \* position of each connection's receiver in the channel
  inflight,      \* flashblock each broadcast task is sending, 0 for none
  received,      \* flashblocks each broadcast task sent to its client
  joined,        \* value of tail when the connection was accepted
  missed         \* flashblocks each receiver was told it lagged behind

chanVars  == <<tail, publishFailed>>
termVars  == <<term, dropped>>
histVars  == <<received, joined, missed>>
connVars  == <<conn, next, inflight, histVars>>
vars == <<chanVars, termVars, listener, connVars>>

ListenerStates == {"starting", "accepting", "handshaking", "stalled", "stopped", "dead"}
ConnStates == {"none", "backlog", "handshaking", "open", "sending", "closed"}

TypeOK ==
  /\ tail \in 0..MaxPublished
  /\ term \in BOOLEAN
  /\ dropped \in BOOLEAN
  /\ publishFailed \in BOOLEAN
  /\ listener \in ListenerStates
  /\ conn \in [Clients -> ConnStates]
  /\ next \in [Clients -> Nat]
  /\ inflight \in [Clients -> Nat]
  /\ received \in [Clients -> Seq(Nat)]
  /\ joined \in [Clients -> Nat]
  /\ missed \in [Clients -> Nat]

----------------------------------------------------------------------------
\* The socket is bound, and the listener's own receiver subscribed, in new().
Init ==
  /\ tail = 0
  /\ term = FALSE
  /\ dropped = FALSE
  /\ publishFailed = FALSE
  /\ listener = "starting"
  /\ conn = [c \in Clients |-> "none"]
  /\ next = [c \in Clients |-> 0]
  /\ inflight = [c \in Clients |-> 0]
  /\ received = [c \in Clients |-> <<>>]
  /\ joined = [c \in Clients |-> 0]
  /\ missed = [c \in Clients |-> 0]

\* The connections that own a receiver of the broadcast channel.
Subscribed(c) == conn[c] \in {"handshaking", "open", "sending"}

SocketOpen == listener \notin {"stopped", "dead"}

\* Mutant of HasReceivers: the listener holds no receiver of its own.
HasReceiversOfClients == \E c \in Clients : Subscribed(c)

\* The channel's receiver count is positive: the listener holds one too.
HasReceivers == SocketOpen \/ \E c \in Clients : Subscribed(c)

\* When the listening socket closes the kernel resets the pending connections.
ResetBacklog ==
  conn' = [c \in Clients |-> IF conn[c] = "backlog" THEN "closed" ELSE conn[c]]

----------------------------------------------------------------------------
(* The listener task *)

\* Mutant of ListenerStart: a listener task that panicked is started again.
ListenerRestarts ==
  /\ listener \in {"starting", "dead"}
  /\ \/ listener' = "accepting" /\ UNCHANGED conn
     \/ listener' = "dead" /\ ResetBacklog
  /\ UNCHANGED <<chanVars, termVars, next, inflight, histVars>>

\* The set-up calls of listener_loop either all succeed or one of them panics.
ListenerStart ==
  /\ listener = "starting"
  /\ \/ listener' = "accepting" /\ UNCHANGED conn
     \/ listener' = "dead" /\ ResetBacklog
  /\ UNCHANGED <<chanVars, termVars, next, inflight, histVars>>

\* The connection's receiver starts at the channel's tail before the handshake.
Accept(c) ==
  /\ listener = "accepting"
  /\ conn[c] = "backlog"
  /\ listener' = "handshaking"
  /\ conn' = [conn EXCEPT ![c] = "handshaking"]
  /\ next' = [next EXCEPT ![c] = tail]
  /\ joined' = [joined EXCEPT ![c] = tail]
  /\ UNCHANGED <<chanVars, termVars, inflight, received, missed>>

\* accept() fails: its select! branch is disabled, only term.changed() is left.
AcceptErr ==
  /\ listener = "accepting"
  /\ listener' = "stalled"
  /\ UNCHANGED <<chanVars, termVars, connVars>>

\* Mutant of HandshakeOk: the receiver is subscribed after the handshake.
HandshakeThenSubscribe(c) ==
  /\ listener = "handshaking"
  /\ conn[c] = "handshaking"
  /\ listener' = "accepting"
  /\ conn' = [conn EXCEPT ![c] = "open"]
  /\ next' = [next EXCEPT ![c] = tail]
  /\ UNCHANGED <<chanVars, termVars, inflight, histVars>>

HandshakeOk(c) ==
  /\ listener = "handshaking"
  /\ conn[c] = "handshaking"
  /\ listener' = "accepting"
  /\ conn' = [conn EXCEPT ![c] = "open"]
  /\ UNCHANGED <<chanVars, termVars, next, inflight, histVars>>

\* Mutant of HandshakeErr: the listener goes on waiting for the failed handshake.
HandshakeErrHangs(c) ==
  /\ listener = "handshaking"
  /\ conn[c] = "handshaking"
  /\ conn' = [conn EXCEPT ![c] = "closed"]
  /\ UNCHANGED <<chanVars, termVars, listener, next, inflight, histVars>>

HandshakeErr(c) ==
  /\ listener = "handshaking"
  /\ conn[c] = "handshaking"
  /\ listener' = "accepting"
  /\ conn' = [conn EXCEPT ![c] = "closed"]
  /\ UNCHANGED <<chanVars, termVars, next, inflight, histVars>>

\* Mutant of ListenerStop: after a failed accept() nothing is waited for.
ListenerStopUnlessStalled ==
  /\ listener = "accepting"
  /\ term
  /\ listener' = "stopped"
  /\ ResetBacklog
  /\ UNCHANGED <<chanVars, termVars, next, inflight, histVars>>

ListenerStop ==
  /\ listener \in {"accepting", "stalled"}
  /\ term
  /\ listener' = "stopped"
  /\ ResetBacklog
  /\ UNCHANGED <<chanVars, termVars, next, inflight, histVars>>

----------------------------------------------------------------------------
(* The publisher and the pipeline *)

PublishOk ==
  /\ ~dropped
  /\ HasReceivers
  /\ tail < MaxPublished
  /\ tail' = tail + 1
  /\ UNCHANGED <<publishFailed, termVars, listener, connVars>>

PublishErr ==
  /\ ~dropped
  /\ ~HasReceivers
  /\ publishFailed' = TRUE
  /\ UNCHANGED <<tail, termVars, listener, connVars>>

\* watch_shutdown's task sees PipelineDropped.
PipelineDropped ==
  /\ term' = TRUE
  /\ UNCHANGED <<chanVars, dropped, listener, connVars>>

DropSink ==
  /\ ~dropped
  /\ dropped' = TRUE
  /\ term' = TRUE
  /\ UNCHANGED <<chanVars, listener, connVars>>

----------------------------------------------------------------------------
(* The broadcast task of a connection *)

StopLoop(c) ==
  /\ conn[c] = "open"
  /\ term
  /\ conn' = [conn EXCEPT ![c] = "closed"]
  /\ UNCHANGED <<chanVars, termVars, listener, next, inflight, histVars>>

Lags(c) == tail > next[c] + Capacity

\* Mutant of Recv: the receiver does not move past what it returned.
RecvAgain(c) ==
  /\ conn[c] = "open"
  /\ next[c] < tail
  /\ ~Lags(c)
  /\ conn' = [conn EXCEPT ![c] = "sending"]
  /\ inflight' = [inflight EXCEPT ![c] = next[c] + 1]
  /\ UNCHANGED <<chanVars, termVars, listener, next, histVars>>

\* Mutant of Recv: the last flashblock waits for the next one.
RecvBehind(c) ==
  /\ conn[c] = "open"
  /\ next[c] + 1 < tail
  /\ ~Lags(c)
  /\ conn' = [conn EXCEPT ![c] = "sending"]
  /\ next' = [next EXCEPT ![c] = @ + 1]
  /\ inflight' = [inflight EXCEPT ![c] = next[c] + 1]
  /\ UNCHANGED <<chanVars, termVars, listener, histVars>>

Recv(c) ==
  /\ conn[c] = "open"
  /\ next[c] < tail
  /\ ~Lags(c)
  /\ conn' = [conn EXCEPT ![c] = "sending"]
  /\ next' = [next EXCEPT ![c] = @ + 1]
  /\ inflight' = [inflight EXCEPT ![c] = next[c] + 1]
  /\ UNCHANGED <<chanVars, termVars, listener, histVars>>

\* Mutant of RecvLagged: the flashblocks skipped are not counted.
RecvLaggedUncounted(c) ==
  /\ conn[c] = "open"
  /\ Lags(c)
  /\ next' = [next EXCEPT ![c] = tail - Capacity]
  /\ UNCHANGED <<chanVars, termVars, listener, conn, inflight, histVars>>

\* Mutant of RecvLagged: the operands of the count are swapped.
RecvLaggedSwapped(c) ==
  /\ conn[c] = "open"
  /\ Lags(c)
  /\ next' = [next EXCEPT ![c] = tail - Capacity]
  /\ missed' = [missed EXCEPT ![c] = @ + (next[c] - (tail - Capacity))]
  /\ UNCHANGED <<chanVars, termVars, listener, conn, inflight, received, joined>>

\* Mutant of RecvLagged: one flashblock too many is skipped.
RecvLaggedTooFar(c) ==
  /\ conn[c] = "open"
  /\ Lags(c)
  /\ next' = [next EXCEPT ![c] = tail - Capacity + 1]
  /\ missed' = [missed EXCEPT ![c] = @ + (tail - Capacity + 1 - next[c])]
  /\ UNCHANGED <<chanVars, termVars, listener, conn, inflight, received, joined>>

\* The receiver is moved to the oldest flashblock the channel still holds.
RecvLagged(c) ==
  /\ conn[c] = "open"
  /\ Lags(c)
  /\ next' = [next EXCEPT ![c] = tail - Capacity]
  /\ missed' = [missed EXCEPT ![c] = @ + (tail - Capacity - next[c])]
  /\ UNCHANGED <<chanVars, termVars, listener, conn, inflight, received, joined>>

\* A receiver drains what the channel holds before it is told of the closing.
RecvClosed(c) ==
  /\ conn[c] = "open"
  /\ dropped
  /\ next[c] = tail
  /\ conn' = [conn EXCEPT ![c] = "closed"]
  /\ UNCHANGED <<chanVars, termVars, listener, next, inflight, histVars>>

SendOk(c) ==
  /\ conn[c] = "sending"
  /\ conn' = [conn EXCEPT ![c] = "open"]
  /\ received' = [received EXCEPT ![c] = Append(@, inflight[c])]
  /\ inflight' = [inflight EXCEPT ![c] = 0]
  /\ UNCHANGED <<chanVars, termVars, listener, next, joined, missed>>

\* The flashblock being sent stays in inflight: it is lost with the connection.
SendErr(c) ==
  /\ conn[c] = "sending"
  /\ conn' = [conn EXCEPT ![c] = "closed"]
  /\ UNCHANGED <<chanVars, termVars, listener, next, inflight, histVars>>

\* A Close message, a connection error, or no peer address at the task's start.
ClientGone(c) ==
  /\ conn[c] = "open"
  /\ conn' = [conn EXCEPT ![c] = "closed"]
  /\ UNCHANGED <<chanVars, termVars, listener, next, inflight, histVars>>

----------------------------------------------------------------------------
(* The clients *)

Connect(c) ==
  /\ conn[c] = "none"
  /\ conn' = [conn EXCEPT ![c] = IF SocketOpen THEN "backlog" ELSE "closed"]
  /\ UNCHANGED <<chanVars, termVars, listener, next, inflight, histVars>>

----------------------------------------------------------------------------
Listener ==
  \/ ListenerStart
  \/ AcceptErr
  \/ ListenerStop
  \/ \E c \in Clients : Accept(c) \/ HandshakeOk(c) \/ HandshakeErr(c)

Broadcast(c) ==
  \/ StopLoop(c)
  \/ Recv(c)
  \/ RecvLagged(c)
  \/ RecvClosed(c)
  \/ SendOk(c)
  \/ SendErr(c)
  \/ ClientGone(c)

Publisher == PublishOk \/ PublishErr \/ PipelineDropped \/ DropSink

Next ==
  \/ Listener
  \/ Publisher
  \/ \E c \in Clients : Broadcast(c) \/ Connect(c)

Spec == Init /\ [][Next]_vars

(***************************************************************************)
(* Fairness. A task that can run is run: the tokio runtime is fair, and    *)
(* tokio::select! polls its branches in random order, so a branch that is  *)
(* ready again and again is not passed over for ever (SF).                 *)
(***************************************************************************)
ServerFairness ==
  /\ WF_vars(ListenerStart)
  /\ WF_vars(\E c \in Clients : Accept(c))
  /\ SF_vars(ListenerStop)
  /\ \A c \in Clients :
       /\ SF_vars(StopLoop(c))
       /\ WF_vars(Recv(c) \/ RecvLagged(c))
       /\ WF_vars(RecvClosed(c))

\* An assumption on the peers: a handshake and a send end, well or badly. The code
\* sets no limit to either, and a live peer that stays silent breaks it.
PeerFairness ==
  \A c \in Clients :
    /\ WF_vars(HandshakeOk(c) \/ HandshakeErr(c))
    /\ WF_vars(SendOk(c) \/ SendErr(c))

FairSpec == Spec /\ ServerFairness /\ PeerFairness

----------------------------------------------------------------------------
(* Safety *)

Sending(c) == IF inflight[c] = 0 THEN 0 ELSE 1

\* Every flashblock sent on the channel since a client was accepted is
\* accounted for: sent to it, counted as lagged, being sent, or still ahead
\* (resubscribe before the handshake, Lagged, and the send await in between).
Accounting ==
  \A c \in Clients :
    next[c] = joined[c] + Len(received[c]) + missed[c] + Sending(c)

\* A client that never lagged has received exactly the flashblocks published
\* since it was accepted, those published during its handshake included.
NoLossWithoutLag ==
  \A c \in Clients : missed[c] = 0 =>
    \A i \in DOMAIN received[c] : received[c][i] = joined[c] + i

\* No client sees a flashblock twice or before an earlier one, lag included.
InOrder ==
  \A c \in Clients : \A i, j \in DOMAIN received[c] :
    i < j => received[c][i] < received[c][j]

\* publish fails for lack of receivers only once the sink is being stopped or
\* its listener task panicked, never merely because no client is connected.
PublishFailsOnlyAfterStop == publishFailed => term \/ listener = "dead"

\* Once the channel has no receiver it never has one again, whoever connects:
\* a publish that failed is followed by failures only.
FailureIsPermanent == [][~HasReceivers => ~HasReceivers']_vars

----------------------------------------------------------------------------
(* Liveness *)

\* Once term is set the listener and every broadcast task end.
ShutdownCompletes ==
  term ~> /\ listener \in {"stopped", "dead"}
          /\ \A c \in Clients : conn[c] \in {"none", "closed"}

\* Every flashblock published after a client was accepted is eventually sent to
\* it or skipped by a lag, unless the connection ends first.
DeliveredOrGone ==
  \A c \in Clients : \A n \in 1..MaxPublished :
    (Subscribed(c) /\ joined[c] < n /\ n <= tail) ~>
       (next[c] >= n /\ inflight[c] # n) \/ conn[c] = "closed"

\* A pending connection is taken up or reset unless accept() has failed.
DialAnswered ==
  \A c \in Clients :
    conn[c] = "backlog" ~> conn[c] # "backlog" \/ listener = "stalled"

\* "responsible for listening on new client connections" (publish.rs:388): a
\* pending connection is taken up or reset, whatever accept() returned.
AlwaysListening == \A c \in Clients : conn[c] = "backlog" ~> conn[c] # "backlog"

----------------------------------------------------------------------------
(* The abstract feed *)

feedStatus ==
  [c \in Clients |->
     CASE conn[c] \in {"none", "backlog"} -> "new"
       [] conn[c] = "closed" -> "gone"
       [] OTHER -> "subscribed"]

feedCursor == [c \in Clients |-> next[c] - Sending(c)]

Feed == INSTANCE FlashblockFeed WITH
          published <- tail, status <- feedStatus, cursor <- feedCursor

\* The tasks and channels of the sink implement the abstract feed.
ImplementsFeed == Feed!Spec
=============================================================================
