--------------------------- MODULE FlashblockFeed ---------------------------
(***************************************************************************)
(* What the WebSocket feed promises to an external subscriber, with no     *)
(* sockets, tasks or channels: flashblocks are numbered in the order they  *)
(* are published, a subscriber sees those published after it subscribed,   *)
(* in that order, each at most once, and misses one only by falling more   *)
(* than Capacity flashblocks behind the publisher.                         *)
(*                                                                         *)
(* WebSocketSink implements this specification.                            *)
(***************************************************************************)
EXTENDS Naturals, Sequences

CONSTANTS
  Clients,       \* connections; a client that reconnects is a new one
  Capacity,      \* flashblocks the feed keeps for a slow subscriber
  MaxPublished   \* bound on the flashblocks published in a behaviour

VARIABLES
  published,     \* number of flashblocks published so far
  status,        \* of each client: "new", "subscribed" or "gone"
  cursor,        \* last flashblock each subscriber received or skipped
  received       \* the flashblocks each subscriber received, in order

feedVars == <<published, status, cursor, received>>

Init ==
  /\ published = 0
  /\ status = [c \in Clients |-> "new"]
  /\ cursor = [c \in Clients |-> 0]
  /\ received = [c \in Clients |-> <<>>]

Publish ==
  /\ published < MaxPublished
  /\ published' = published + 1
  /\ UNCHANGED <<status, cursor, received>>

Subscribe(c) ==
  /\ status[c] = "new"
  /\ status' = [status EXCEPT ![c] = "subscribed"]
  /\ cursor' = [cursor EXCEPT ![c] = published]
  /\ UNCHANGED <<published, received>>

\* The subscriber gets the flashblock that follows its cursor.
Deliver(c) ==
  /\ status[c] = "subscribed"
  /\ cursor[c] < published
  /\ cursor' = [cursor EXCEPT ![c] = @ + 1]
  /\ received' = [received EXCEPT ![c] = Append(@, cursor[c] + 1)]
  /\ UNCHANGED <<published, status>>

\* A subscriber that is too far behind resumes at the oldest flashblock kept.
Skip(c) ==
  /\ status[c] = "subscribed"
  /\ published > cursor[c] + Capacity
  /\ cursor' = [cursor EXCEPT ![c] = published - Capacity]
  /\ UNCHANGED <<published, status, received>>

Leave(c) ==
  /\ status[c] = "subscribed"
  /\ status' = [status EXCEPT ![c] = "gone"]
  /\ UNCHANGED <<published, cursor, received>>

\* Several clients that have not subscribed yet can be turned away at once.
TurnAway ==
  /\ \E turned \in SUBSET {c \in Clients : status[c] = "new"} :
        status' = [c \in Clients |-> IF c \in turned THEN "gone" ELSE status[c]]
  /\ UNCHANGED <<published, cursor, received>>

Next ==
  \/ Publish
  \/ TurnAway
  \/ \E c \in Clients : Subscribe(c) \/ Deliver(c) \/ Skip(c) \/ Leave(c)

Spec == Init /\ [][Next]_feedVars
=============================================================================
