-------------------------- MODULE PublishFlashblock --------------------------
(***************************************************************************)
(* A payload job of the "block" pipeline of main.rs, flashblock after      *)
(* flashblock, and the PublishFlashblock step of publish.rs that turns the *)
(* checkpoints added since the last flashblock into the next one.          *)
(*                                                                         *)
(* The step is one shared instance: block_base is common to every job,     *)
(* while a payload and its context (the FlashblockNumber of its tip)       *)
(* belong to one job. Jobs may overlap: whether they do is decided by the  *)
(* payload service, outside this repository. The steps that fill a         *)
(* flashblock are the pipeline library's; they may change anything that    *)
(* follows the last barrier.                                               *)
(***************************************************************************)
EXTENDS Naturals, Sequences, FiniteSets, SequencesExt

CONSTANTS
  NumJobs,       \* payload jobs of a behaviour, started in the order 1..NumJobs
  MaxInFlight,   \* jobs that may run at the same time
  Target,        \* what BreakAfterMaxFlashblocks computes from the deadline
  Orders,        \* pool orders, one transaction each
  BuilderSigner, \* TRUE when main.rs adds the BuilderEpilogue step
  MaxPayload     \* bound on the checkpoints of a payload with builder transactions

ASSUME JobsAssumption ==
  /\ NumJobs \in Nat
  /\ MaxInFlight \in Nat \ {0}
  /\ Target \in Nat
  /\ BuilderSigner \in BOOLEAN
  /\ MaxPayload \in Nat
  /\ Orders \cap {"sequencer", "builder", "barrier"} = {}

Jobs == 1..NumJobs
NoBase == 0

VARIABLES
  phase,      \* the step each job is at
  payload,    \* of each job: the history of its current checkpoint
  blockBase,  \* the job block_base was captured from, or NoBase
  taken,      \* of each job: the base it took out for the flashblock it is sending
  alone,      \* of each job: no other job ran while it did (a history variable)
  sinkUp,     \* the sink's channel has a receiver
  failed,     \* of each job: a build, publish or pipeline step failed in it
  feed        \* the flashblocks sent to the sink, in order

vars == <<phase, payload, blockBase, taken, alone, sinkUp, failed, feed>>

Checkpoint == [tx : Orders \union {"sequencer", "builder", "barrier"}, ctx : Nat \ {0}]

\* An OpFlashblockPayload, without the fields computed from its transactions.
IsFlashblock(fb) ==
  /\ fb.payload_id \in Jobs
  /\ fb.index \in Nat
  /\ fb.base \in Jobs \union {NoBase}

TypeOK ==
  /\ phase \in [Jobs -> {"new", "fill", "publish", "send", "check", "ending", "done"}]
  /\ payload \in [Jobs -> Seq(Checkpoint)]
  /\ blockBase \in Jobs \union {NoBase}
  /\ taken \in [Jobs -> Jobs \union {NoBase}]
  /\ alone \in [Jobs -> BOOLEAN]
  /\ sinkUp \in BOOLEAN
  /\ failed \in [Jobs -> BOOLEAN]
  /\ \A i \in DOMAIN feed : IsFlashblock(feed[i])

----------------------------------------------------------------------------
(* FlashblockNumber: 1-based in the code, 0-based on the wire. *)

\* Mutant of FirstNumber: counted from zero.
FirstNumberZero == 0

FirstNumber == 1
NextNumber(n) == n + 1
Index(n) == n - 1

(* Payloads *)

Context(p) == Last(p).ctx

Put(p, tx) == Append(p, [tx |-> tx, ctx |-> Context(p)])

Barrier(p, ctx) == Append(p, [tx |-> "barrier", ctx |-> ctx])

CheckpointTransactions(cp) == IF cp.tx = "barrier" THEN <<>> ELSE <<cp.tx>>

Transactions(p) == FlattenSeq([i \in DOMAIN p |-> CheckpointTransactions(p[i])])

\* Mutant of UnpublishedPayload: the whole history of the payload.
WholePayload(p) == p

\* history_since_first_context: from the first checkpoint that has the context.
UnpublishedPayload(p) ==
  LET since == {i \in DOMAIN p : p[i].ctx = Context(p)}
  IN SubSeq(p, CHOOSE i \in since : \A k \in since : i <= k, Len(p))

\* The positions of the orders that no barrier follows.
Staged(p) ==
  {i \in DOMAIN p : p[i].tx \in Orders /\ \A k \in i..Len(p) : p[k].tx # "barrier"}

----------------------------------------------------------------------------
Init ==
  /\ phase = [j \in Jobs |-> "new"]
  /\ payload = [j \in Jobs |-> <<[tx |-> "sequencer", ctx |-> FirstNumber]>>]
  /\ blockBase = NoBase
  /\ taken = [j \in Jobs |-> NoBase]
  /\ alone = [j \in Jobs |-> TRUE]
  /\ sinkUp = TRUE
  /\ failed = [j \in Jobs |-> FALSE]
  /\ feed = <<>>

GoTo(j, step) == phase' = [phase EXCEPT ![j] = step]

InFlight == {j \in Jobs : phase[j] \notin {"new", "done"}}

\* before_job, then the prologue: the sequencer's transactions.
BeforeJob(j) ==
  /\ phase[j] = "new"
  /\ \A i \in 1..(j - 1) : phase[i] # "new"
  /\ Cardinality(InFlight) < MaxInFlight
  /\ blockBase' = j
  /\ alone' = [i \in Jobs |-> IF i = j THEN InFlight = {} ELSE alone[i] /\ i \notin InFlight]
  /\ GoTo(j, "fill")
  /\ UNCHANGED <<payload, taken, sinkUp, failed, feed>>

----------------------------------------------------------------------------
(* The pipeline that fills a flashblock: any number of rounds of its steps *)

AppendOrders(j) ==
  /\ phase[j] = "fill"
  /\ \E o \in Orders :
       /\ \A i \in DOMAIN payload[j] : payload[j][i].tx # o
       /\ payload' = [payload EXCEPT ![j] = Put(@, o)]
  /\ UNCHANGED <<phase, blockBase, taken, alone, sinkUp, failed, feed>>

\* Sorting is a series of exchanges of staged orders.
OrderByPriorityFee(j) ==
  /\ phase[j] = "fill"
  /\ LET p == payload[j] IN
     \E i, k \in Staged(p) :
       i < k /\ payload' = [payload EXCEPT ![j] = [p EXCEPT ![i] = p[k], ![k] = p[i]]]
  /\ UNCHANGED <<phase, blockBase, taken, alone, sinkUp, failed, feed>>

RemoveReverted(j) ==
  /\ phase[j] = "fill"
  /\ \E i \in Staged(payload[j]) : payload' = [payload EXCEPT ![j] = RemoveAt(@, i)]
  /\ UNCHANGED <<phase, blockBase, taken, alone, sinkUp, failed, feed>>

\* The deadline of the flashblock passes and the builder's transaction is added.
BreakAfterDeadline(j) ==
  /\ phase[j] = "fill"
  /\ payload' = [payload EXCEPT ![j] =
       IF BuilderSigner /\ Len(@) < MaxPayload THEN Put(@, "builder") ELSE @]
  /\ GoTo(j, "publish")
  /\ UNCHANGED <<blockBase, taken, alone, sinkUp, failed, feed>>

\* A step of the library fails the job.
StepFails(j) ==
  /\ phase[j] = "fill"
  /\ failed' = [failed EXCEPT ![j] = TRUE]
  /\ GoTo(j, "ending")
  /\ UNCHANGED <<payload, blockBase, taken, alone, sinkUp, feed>>

----------------------------------------------------------------------------
(* PublishFlashblock::step *)

\* build_payload fails: the outer loop is broken before anything is published.
BuildError(j) ==
  /\ phase[j] = "publish"
  /\ failed' = [failed EXCEPT ![j] = TRUE]
  /\ GoTo(j, "ending")
  /\ UNCHANGED <<payload, blockBase, taken, alone, sinkUp, feed>>

\* Mutant of TakeBase: the base is cloned, not taken.
CloneBase(j) ==
  /\ phase[j] = "publish"
  /\ taken' = [taken EXCEPT ![j] = blockBase]
  /\ GoTo(j, "send")
  /\ UNCHANGED <<payload, blockBase, alone, sinkUp, failed, feed>>

\* block_base.write().take(), under a lock of its own: what happens to block_base
\* before the flashblock is sent is another job's doing.
TakeBase(j) ==
  /\ phase[j] = "publish"
  /\ taken' = [taken EXCEPT ![j] = blockBase]
  /\ blockBase' = NoBase
  /\ GoTo(j, "send")
  /\ UNCHANGED <<payload, alone, sinkUp, failed, feed>>

NewFlashblock(j) ==
  [payload_id   |-> j,
   index        |-> Index(Context(payload[j])),
   base         |-> taken[j],
   transactions |-> Transactions(UnpublishedPayload(payload[j]))]

PublishOk(j) ==
  /\ phase[j] = "send"
  /\ sinkUp
  /\ feed' = Append(feed, NewFlashblock(j))
  /\ taken' = [taken EXCEPT ![j] = NoBase]
  /\ payload' = [payload EXCEPT ![j] = Barrier(@, NextNumber(Context(@)))]
  /\ GoTo(j, "check")
  /\ UNCHANGED <<blockBase, alone, sinkUp, failed>>

\* Mutant of PublishErr: the barrier and the next number are set all the same.
PublishErrAdvances(j) ==
  /\ phase[j] = "send"
  /\ ~sinkUp
  /\ taken' = [taken EXCEPT ![j] = NoBase]
  /\ failed' = [failed EXCEPT ![j] = TRUE]
  /\ payload' = [payload EXCEPT ![j] = Barrier(@, NextNumber(Context(@)))]
  /\ GoTo(j, "check")
  /\ UNCHANGED <<blockBase, alone, sinkUp, feed>>

\* The base taken is lost, no barrier is placed, the number stays.
PublishErr(j) ==
  /\ phase[j] = "send"
  /\ ~sinkUp
  /\ taken' = [taken EXCEPT ![j] = NoBase]
  /\ failed' = [failed EXCEPT ![j] = TRUE]
  /\ GoTo(j, "check")
  /\ UNCHANGED <<payload, blockBase, alone, sinkUp, feed>>

----------------------------------------------------------------------------
\* Mutant of BreakAfterMaxFlashblocks: the comparison is strict.
BreakOneEarly(j) ==
  /\ phase[j] = "check"
  /\ GoTo(j, IF Context(payload[j]) < Target THEN "fill" ELSE "ending")
  /\ UNCHANGED <<payload, blockBase, taken, alone, sinkUp, failed, feed>>

\* Mutant of BreakAfterMaxFlashblocks: the builder's transaction ends the block
\* instead of every flashblock.
BreakThenEpilogue(j) ==
  /\ phase[j] = "check"
  /\ LET more == Context(payload[j]) <= Target
     IN /\ GoTo(j, IF more THEN "fill" ELSE "ending")
        /\ payload' = [payload EXCEPT ![j] = IF more THEN @ ELSE Put(@, "builder")]
  /\ UNCHANGED <<blockBase, taken, alone, sinkUp, failed, feed>>

BreakAfterMaxFlashblocks(j) ==
  /\ phase[j] = "check"
  /\ GoTo(j, IF Context(payload[j]) <= Target THEN "fill" ELSE "ending")
  /\ UNCHANGED <<payload, blockBase, taken, alone, sinkUp, failed, feed>>

AfterJob(j) ==
  /\ phase[j] = "ending"
  /\ blockBase' = NoBase
  /\ GoTo(j, "done")
  /\ UNCHANGED <<payload, taken, alone, sinkUp, failed, feed>>

\* The last receiver of the channel is gone (WebSocketSink: it never returns).
SinkFails ==
  /\ sinkUp
  /\ sinkUp' = FALSE
  /\ UNCHANGED <<phase, payload, blockBase, taken, alone, failed, feed>>

Fill(j) == AppendOrders(j) \/ OrderByPriorityFee(j) \/ RemoveReverted(j)

Fail(j) == StepFails(j) \/ BuildError(j)

Advance(j) ==
  \/ BreakAfterDeadline(j)
  \/ TakeBase(j)
  \/ PublishOk(j)
  \/ PublishErr(j)
  \/ BreakAfterMaxFlashblocks(j)
  \/ AfterJob(j)

Next ==
  \/ \E j \in Jobs : BeforeJob(j) \/ Fill(j) \/ Fail(j) \/ Advance(j)
  \/ SinkFails

Spec == Init /\ [][Next]_vars

\* The executor polls a running job until it is done; BreakAfterDeadline's time
\* comes in every flashblock, however the steps that fill it go on. That a job may
\* fail is no reason for it to go on: Fail is not part of Advance.
Fairness == \A j \in Jobs : WF_vars(Advance(j))
FairSpec == Spec /\ Fairness

----------------------------------------------------------------------------
(* Safety *)

\* The places of a payload's flashblocks in the feed, and their indices.
Positions(j) == {i \in DOMAIN feed : feed[i].payload_id = j}

Indices(j) == {feed[i].index : i \in Positions(j)}

\* The checkpoints of p made under the flashblock number n are those from a to b.
IsSpan(p, n, a, b) == a <= b /\ a..b = {i \in DOMAIN p : p[i].ctx = n}

\* The flashblocks of a payload are numbered 0, 1, 2, ... in the order of the
\* feed, and the payload's context is the number of the next one: no index is
\* skipped or sent twice, failed publishes and overlapping jobs included.
IndicesContiguous ==
  \A j \in Jobs :
    /\ \A i, k \in Positions(j) : i < k => feed[i].index < feed[k].index
    /\ Indices(j) = {Index(n) : n \in 1..Index(Context(payload[j]))}

\* A flashblock of a job that no other job overlapped carries a base exactly when
\* it is the first of its payload, and the base is its own payload's ("only the
\* first flashblock should have the block_base"), though block_base is taken before
\* publish can fail; and the base of a job, whatever overlaps it, is never on a
\* later flashblock of it.
BaseOnFirst ==
  \A i \in DOMAIN feed :
    /\ alone[feed[i].payload_id] =>
         feed[i].base = IF feed[i].index = 0 THEN feed[i].payload_id ELSE NoBase
    /\ feed[i].base = feed[i].payload_id => feed[i].index = 0

\* Whatever jobs overlap and whoever takes block_base, no base is published twice,
\* nor published while it could still be taken again or while another job is
\* sending it.
BaseAtMostOnce ==
  \A i \in DOMAIN feed : feed[i].base # NoBase =>
    /\ \A k \in DOMAIN feed : feed[k].base = feed[i].base => k = i
    /\ blockBase # feed[i].base
    /\ \A j \in Jobs : taken[j] # feed[i].base

\* What was published is publicly committed: the checkpoints a payload holds under
\* the number of one of its flashblocks have, from then on, the transactions of that
\* flashblock, whatever the filling steps move or remove afterwards.
PublishedIsCommitted ==
  \A i \in DOMAIN feed :
    LET p == payload[feed[i].payload_id] IN
    \E a, b \in DOMAIN p :
      /\ IsSpan(p, NextNumber(feed[i].index), a, b)
      /\ feed[i].transactions = Transactions(SubSeq(p, a, b))

\* The transactions that the flashblocks fbs bring to the block of payload j.
TransactionsFor(fb, j) == IF fb.payload_id = j THEN fb.transactions ELSE <<>>

Assembled(fbs, j) == FlattenSeq([i \in DOMAIN fbs |-> TransactionsFor(fbs[i], j)])

\* What the flashblocks of a payload bring, in the order of the feed, is at all times
\* the beginning of its block, whatever fails and whatever the filling steps do; and a
\* job in which nothing failed ends with a block made of that and nothing else.
BlockIsItsFlashblocks ==
  \A j \in Jobs :
    /\ IsPrefix(Assembled(feed, j), Transactions(payload[j]))
    /\ phase[j] = "done" /\ ~failed[j] => Assembled(feed, j) = Transactions(payload[j])

\* A job publishes the target number of flashblocks when nothing fails, never
\* more, and at least one even if the target is zero.
TargetReached ==
  \A j \in Jobs :
    LET most == IF Target = 0 THEN 1 ELSE Target
    IN /\ Indices(j) \subseteq 0..(most - 1)
       /\ phase[j] = "done" /\ ~failed[j] => Indices(j) = 0..(most - 1)

----------------------------------------------------------------------------
(* Liveness *)

\* "Flashblocks builder will always take as long as the payload job deadline"
\* (main.rs:98): a job that is running ends, whatever the sink answers.
JobEnds == \A j \in Jobs : phase[j] = "fill" ~> phase[j] = "done"
=============================================================================
