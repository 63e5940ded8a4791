----------------------- MODULE PublishFlashblockProofs -----------------------
(***************************************************************************)
(* Proofs about PublishFlashblock, for any number of jobs, of which any    *)
(* number overlap, any target, any orders and any failures.                *)
(***************************************************************************)
EXTENDS PublishFlashblock, FlattenLemmas, SequenceTheorems, TLAPS

(***************************************************************************)
(* Payloads. The checkpoints of the current flashblock number start at a,  *)
(* which is a barrier or the payload's first checkpoint and no order: what *)
(* the filling steps may touch comes after a, what was published before.   *)
(***************************************************************************)
Fresh(p, a) ==
  /\ a \in DOMAIN p
  /\ p[a].tx \notin Orders
  /\ a = 1 \/ p[a].tx = "barrier"
  /\ \A k \in DOMAIN p : IF k < a THEN p[k].ctx < Context(p) ELSE p[k].ctx = Context(p)

\* What a filling step does to a payload: the number and what precedes its first
\* checkpoint stay.
Filled(p, q) ==
  /\ q \in Seq(Checkpoint)
  /\ Context(q) = Context(p)
  /\ \E a : Fresh(p, a) /\ Fresh(q, a) /\ \A k \in 1..a : q[k] = p[k]

LEMMA CheckpointType ==
  ASSUME NEW p \in Seq(Checkpoint)
  PROVE  /\ Len(p) \in Nat
         /\ DOMAIN p = 1..Len(p)
         /\ \A k \in DOMAIN p : p[k] \in Checkpoint
         /\ \A k \in DOMAIN p : p[k].ctx \in Nat \ {0}
<1>1. Len(p) \in Nat /\ DOMAIN p = 1..Len(p)
  BY LenProperties
<1>2. \A k \in DOMAIN p : p[k] \in Checkpoint
  BY <1>1, ElementOfSeq
<1> QED BY <1>1, <1>2 DEF Checkpoint

\* Nothing is filled by doing nothing.
LEMMA FilledReflexive ==
  ASSUME NEW p \in Seq(Checkpoint), NEW a, Fresh(p, a)
  PROVE  Filled(p, p)
BY DEF Filled

\* A checkpoint added at the end belongs to the current number.
LEMMA PutFills ==
  ASSUME NEW p \in Seq(Checkpoint), NEW a, Fresh(p, a),
         NEW tx \in Orders \union {"builder"}
  PROVE  Filled(p, Put(p, tx))
<1> DEFINE cp == [tx |-> tx, ctx |-> Context(p)]
           q == Put(p, tx)
<1>1. Len(p) \in DOMAIN p /\ Context(p) \in Nat \ {0} /\ a \in 1..Len(p)
  BY CheckpointType DEF Fresh, Context, Last
<1>2. cp \in Checkpoint
  BY <1>1 DEF Checkpoint
<1>3. /\ q \in Seq(Checkpoint)
      /\ Len(q) = Len(p) + 1
      /\ \A k \in 1..Len(p) : q[k] = p[k]
      /\ q[Len(p) + 1] = cp
  BY <1>2, AppendProperties DEF Put
<1>4. Context(q) = Context(p)
  BY <1>3 DEF Context, Last
<1>5. DOMAIN q = 1..(Len(p) + 1) /\ DOMAIN p = 1..Len(p)
  BY <1>3, CheckpointType
<1>6. ASSUME NEW k \in DOMAIN q
      PROVE  IF k < a THEN q[k].ctx < Context(q) ELSE q[k].ctx = Context(q)
  <2>1. CASE k \in 1..Len(p) BY <2>1, <1>3, <1>4, <1>5 DEF Fresh
  <2>2. CASE k = Len(p) + 1 BY <2>2, <1>1, <1>3, <1>4
  <2> QED BY <2>1, <2>2, <1>1, <1>5
<1>7. Fresh(q, a)
  BY <1>1, <1>3, <1>5, <1>6 DEF Fresh
<1> QED BY <1>1, <1>3, <1>4, <1>7 DEF Filled

\* A staged order comes after the first checkpoint of the current number.
LEMMA StagedAfterFresh ==
  ASSUME NEW p \in Seq(Checkpoint), NEW a, Fresh(p, a), NEW i \in Staged(p)
  PROVE  i \in DOMAIN p /\ a < i /\ p[i].ctx = Context(p)
<1>1. i \in DOMAIN p /\ p[i].tx \in Orders /\ \A k \in i..Len(p) : p[k].tx # "barrier"
  BY DEF Staged
<1>2. DOMAIN p = 1..Len(p) /\ Len(p) \in Nat /\ a \in 1..Len(p)
  BY CheckpointType DEF Fresh
<1>3. ~(i <= a)
  BY <1>1, <1>2 DEF Fresh
<1> QED BY <1>1, <1>2, <1>3 DEF Fresh

LEMMA ExchangeFills ==
  ASSUME NEW p \in Seq(Checkpoint), NEW a, Fresh(p, a),
         NEW i \in Staged(p), NEW k \in Staged(p)
  PROVE  Filled(p, [p EXCEPT ![i] = p[k], ![k] = p[i]])
<1> DEFINE q == [p EXCEPT ![i] = p[k], ![k] = p[i]]
<1>1. /\ i \in DOMAIN p /\ a < i /\ p[i].ctx = Context(p)
      /\ k \in DOMAIN p /\ a < k /\ p[k].ctx = Context(p)
  BY StagedAfterFresh
<1>2. /\ Len(p) \in Nat /\ DOMAIN p = 1..Len(p) /\ a \in 1..Len(p)
      /\ \A m \in DOMAIN p : p[m] \in Checkpoint
  BY CheckpointType DEF Fresh
<1>3. q \in Seq(Checkpoint) /\ Len(q) = Len(p) /\ DOMAIN q = DOMAIN p
  <2> DEFINE r == [p EXCEPT ![i] = p[k]]
  <2>1. r \in Seq(Checkpoint) /\ Len(r) = Len(p)
    BY <1>1, <1>2, ExceptSeq
  <2>2. [r EXCEPT ![k] = p[i]] \in Seq(Checkpoint) /\ Len([r EXCEPT ![k] = p[i]]) = Len(p)
    <3> HIDE DEF r
    <3> QED BY <2>1, <1>1, <1>2, ExceptSeq
  <2>3. q = [r EXCEPT ![k] = p[i]] OBVIOUS
  <2> QED BY <2>2, <2>3, <1>2, CheckpointType
<1>4. \A m \in DOMAIN p : q[m] = IF m = k THEN p[i] ELSE IF m = i THEN p[k] ELSE p[m]
  BY <1>1, <1>2
<1>5. \A m \in DOMAIN p : q[m].ctx = p[m].ctx
  BY <1>1, <1>4
<1>6. Context(q) = Context(p)
  BY <1>2, <1>3, <1>5 DEF Context, Last
<1>7. \A m \in 1..a : q[m] = p[m]
  BY <1>1, <1>2, <1>4
<1>8. Fresh(q, a)
  BY <1>2, <1>3, <1>5, <1>6, <1>7 DEF Fresh
<1> HIDE DEF q
<1> QED BY <1>3, <1>6, <1>7, <1>8 DEF Filled, q

LEMMA RemoveFills ==
  ASSUME NEW p \in Seq(Checkpoint), NEW a, Fresh(p, a), NEW i \in Staged(p)
  PROVE  Filled(p, RemoveAt(p, i))
<1> DEFINE head == SubSeq(p, 1, i - 1)
           rest == SubSeq(p, i + 1, Len(p))
           q == RemoveAt(p, i)
<1>1. i \in DOMAIN p /\ a < i
  BY StagedAfterFresh
<1>2. /\ Len(p) \in Nat /\ DOMAIN p = 1..Len(p) /\ a \in 1..Len(p) /\ i \in 1..Len(p)
      /\ \A m \in 1..Len(p) : p[m] \in Checkpoint
  BY <1>1, CheckpointType DEF Fresh
<1>3. /\ head \in Seq(Checkpoint) /\ Len(head) = i - 1
      /\ \A m \in 1..(i - 1) : head[m] = p[m]
  <2>1. 1 \in Int /\ i - 1 \in Int /\ \A m \in 1..(i - 1) : p[m] \in Checkpoint BY <1>2
  <2>2. /\ head \in Seq(Checkpoint)
        /\ Len(head) = IF 1 <= i - 1 THEN (i - 1) - 1 + 1 ELSE 0
        /\ \A m \in 1..((i - 1) - 1 + 1) : head[m] = p[1 + m - 1]
    BY <2>1, SubSeqProperties
  <2> QED BY <2>2, <1>1, <1>2
<1>4. /\ rest \in Seq(Checkpoint) /\ Len(rest) = Len(p) - i
      /\ \A m \in 1..(Len(p) - i) : rest[m] = p[m + i]
  <2>1. i + 1 \in Int /\ Len(p) \in Int /\ \A m \in (i + 1)..Len(p) : p[m] \in Checkpoint BY <1>2
  <2>2. /\ rest \in Seq(Checkpoint)
        /\ Len(rest) = IF i + 1 <= Len(p) THEN Len(p) - (i + 1) + 1 ELSE 0
        /\ \A m \in 1..(Len(p) - (i + 1) + 1) : rest[m] = p[(i + 1) + m - 1]
    BY <2>1, SubSeqProperties
  <2> QED BY <2>2, <1>2
<1>5. /\ q \in Seq(Checkpoint) /\ Len(q) = Len(p) - 1
      /\ \A m \in 1..(Len(p) - 1) : q[m] = IF m < i THEN p[m] ELSE p[m + 1]
  <2> HIDE DEF head, rest
  <2>1. /\ head \o rest \in Seq(Checkpoint)
        /\ Len(head \o rest) = Len(head) + Len(rest)
        /\ \A m \in 1..(Len(head) + Len(rest)) :
             (head \o rest)[m] = IF m <= Len(head) THEN head[m] ELSE rest[m - Len(head)]
    BY <1>3, <1>4, ConcatProperties
  <2>2. q = head \o rest BY DEF RemoveAt, head, rest
  <2>3. Len(head) + Len(rest) = Len(p) - 1 BY <1>2, <1>3, <1>4
  <2>4. ASSUME NEW m \in 1..(Len(p) - 1) PROVE q[m] = IF m < i THEN p[m] ELSE p[m + 1]
    <3>1. CASE m < i
      <4>1. m \in 1..(i - 1) /\ m <= Len(head) BY <3>1, <1>2, <1>3
      <4> QED BY <4>1, <3>1, <2>1, <2>2, <2>3, <1>3
    <3>2. CASE ~(m < i)
      <4>1. m - (i - 1) \in 1..(Len(p) - i) /\ ~(m <= Len(head)) BY <3>2, <1>2, <1>3
      <4>2. q[m] = rest[m - (i - 1)] BY <4>1, <2>1, <2>2, <2>3, <1>3
      <4>3. rest[m - (i - 1)] = p[(m - (i - 1)) + i] BY <4>1, <1>4
      <4>4. (m - (i - 1)) + i = m + 1 BY <1>2
      <4> QED BY <4>2, <4>3, <4>4, <3>2
    <3> QED BY <3>1, <3>2
  <2> QED BY <2>1, <2>2, <2>3, <2>4
<1> HIDE DEF q
<1>6. DOMAIN q = 1..(Len(p) - 1) /\ a \in 1..(Len(p) - 1)
  BY <1>1, <1>2, <1>5, CheckpointType
<1>7. Context(q) = Context(p)
  <2>1. q[Len(p) - 1].ctx = p[Len(p)].ctx
    <3>1. CASE i = Len(p)
      <4>1. Len(p) - 1 \in DOMAIN p /\ ~(Len(p) - 1 < a) /\ ~(Len(p) < a) /\ Len(p) \in DOMAIN p
        BY <3>1, <1>1, <1>2
      <4>2. p[Len(p) - 1].ctx = p[Len(p)].ctx BY <4>1 DEF Fresh
      <4>3. Len(p) - 1 \in 1..(Len(p) - 1) /\ Len(p) - 1 < i BY <3>1, <1>1, <1>2
      <4> QED BY <4>2, <4>3, <1>5
    <3>2. CASE i < Len(p)
      <4>1. Len(p) - 1 \in 1..(Len(p) - 1) /\ ~(Len(p) - 1 < i) /\ (Len(p) - 1) + 1 = Len(p)
        BY <3>2, <1>1, <1>2
      <4>2. q[Len(p) - 1] = p[(Len(p) - 1) + 1] BY <4>1, <1>5
      <4> QED BY <4>1, <4>2
    <3>3. i \in Int /\ Len(p) \in Int /\ i <= Len(p) BY <1>2
    <3>4. i = Len(p) \/ i < Len(p) BY <3>3
    <3> QED BY <3>1, <3>2, <3>4
  <2> QED BY <2>1, <1>5 DEF Context, Last
<1>8. \A m \in 1..a : q[m] = p[m]
  BY <1>1, <1>2, <1>5
<1>9. ASSUME NEW m \in DOMAIN q
      PROVE  IF m < a THEN q[m].ctx < Context(q) ELSE q[m].ctx = Context(q)
  <2>1. CASE m < i BY <2>1, <1>2, <1>5, <1>6, <1>7 DEF Fresh
  <2>2. CASE m >= i
    <3>1. q[m] = p[m + 1] /\ m + 1 \in DOMAIN p /\ ~(m < a) /\ ~(m + 1 < a)
      BY <2>2, <1>1, <1>2, <1>5, <1>6
    <3> QED BY <3>1, <1>7 DEF Fresh
  <2> QED BY <2>1, <2>2, <1>2, <1>6
<1>10. Fresh(q, a)
  BY <1>2, <1>6, <1>8, <1>9 DEF Fresh
<1> QED BY <1>5, <1>7, <1>8, <1>10 DEF Filled, q

\* A barrier starts the next number and leaves the rest alone.
LEMMA BarrierStarts ==
  ASSUME NEW p \in Seq(Checkpoint), NEW a, Fresh(p, a)
  PROVE  LET q == Barrier(p, NextNumber(Context(p))) IN
         /\ q \in Seq(Checkpoint)
         /\ Len(q) = Len(p) + 1
         /\ Context(q) = Context(p) + 1
         /\ Fresh(q, Len(p) + 1)
         /\ \A k \in 1..Len(p) : q[k] = p[k]
<1> DEFINE cp == [tx |-> "barrier", ctx |-> NextNumber(Context(p))]
           q == Barrier(p, NextNumber(Context(p)))
<1>1. Len(p) \in DOMAIN p /\ Context(p) \in Nat \ {0} /\ DOMAIN p = 1..Len(p) /\ Len(p) \in Nat
  BY CheckpointType DEF Fresh, Context, Last
<1>2. cp \in Checkpoint
  BY <1>1 DEF Checkpoint, NextNumber
<1>3. /\ q \in Seq(Checkpoint)
      /\ Len(q) = Len(p) + 1
      /\ \A k \in 1..Len(p) : q[k] = p[k]
      /\ q[Len(p) + 1] = cp
  BY <1>2, AppendProperties DEF Barrier
<1>4. Context(q) = Context(p) + 1
  BY <1>3 DEF Context, Last, NextNumber
<1>5. DOMAIN q = 1..(Len(p) + 1)
  BY <1>3, CheckpointType
<1>6. ASSUME NEW k \in DOMAIN q
      PROVE  IF k < Len(p) + 1 THEN q[k].ctx < Context(q) ELSE q[k].ctx = Context(q)
  <2>1. CASE k \in 1..Len(p)
    <3>1. p[k].ctx <= Context(p) /\ p[k].ctx \in Nat BY <2>1, <1>1, CheckpointType DEF Fresh
    <3> QED BY <2>1, <3>1, <1>1, <1>3, <1>4
  <2>2. CASE k = Len(p) + 1 BY <2>2, <1>1, <1>3, <1>4 DEF NextNumber
  <2> QED BY <2>1, <2>2, <1>1, <1>5
<1>7. Fresh(q, Len(p) + 1)
  BY <1>1, <1>3, <1>5, <1>6, JobsAssumption DEF Fresh
<1> QED BY <1>3, <1>4, <1>7

\* Two payloads agree up to m, and after m hold nothing under the number n.
AgreeUpTo(p, q, m, n) ==
  /\ m \in Nat /\ m <= Len(p) /\ m <= Len(q)
  /\ \A k \in 1..m : q[k] = p[k]
  /\ \A k \in DOMAIN p : k > m => p[k].ctx # n
  /\ \A k \in DOMAIN q : k > m => q[k].ctx # n

\* They then have the same checkpoints under that number.
LEMMA SpanKept ==
  ASSUME NEW p \in Seq(Checkpoint), NEW q \in Seq(Checkpoint), NEW m, NEW n,
         AgreeUpTo(p, q, m, n),
         NEW a \in DOMAIN p, NEW b \in DOMAIN p, IsSpan(p, n, a, b)
  PROVE  a \in DOMAIN q /\ b \in DOMAIN q /\ IsSpan(q, n, a, b) /\ SubSeq(q, a, b) = SubSeq(p, a, b)
<1>1. /\ DOMAIN p = 1..Len(p) /\ DOMAIN q = 1..Len(q) /\ Len(p) \in Nat /\ Len(q) \in Nat
      /\ \A k \in DOMAIN p : p[k] \in Checkpoint
      /\ \A k \in DOMAIN q : q[k] \in Checkpoint
  BY CheckpointType
<1>2. a \in Nat /\ b \in Nat /\ a <= b /\ a..b = {k \in DOMAIN p : p[k].ctx = n}
  BY <1>1 DEF IsSpan
<1> USE DEF AgreeUpTo
<1>3. \A k \in a..b : k \in 1..m
  BY <1>1, <1>2
<1>4. a \in 1..m /\ b \in 1..m
  BY <1>2, <1>3
<1>5. {k \in DOMAIN q : q[k].ctx = n} = {k \in DOMAIN p : p[k].ctx = n}
  BY <1>1
<1>6. SubSeq(q, a, b) = SubSeq(p, a, b)
  <2>1. \A k \in a..b : p[k] \in Checkpoint /\ q[k] = p[k]
    BY <1>1, <1>2, <1>3
  <2>2. a \in Int /\ b \in Int BY <1>2
  <2>3. /\ SubSeq(p, a, b) \in Seq(Checkpoint) /\ Len(SubSeq(p, a, b)) = b - a + 1
        /\ \A k \in 1..(b - a + 1) : SubSeq(p, a, b)[k] = p[a + k - 1]
    BY <2>1, <2>2, <1>2, SubSeqProperties
  <2>4. /\ SubSeq(q, a, b) \in Seq(Checkpoint) /\ Len(SubSeq(q, a, b)) = b - a + 1
        /\ \A k \in 1..(b - a + 1) : SubSeq(q, a, b)[k] = q[a + k - 1]
    <3>1. \A k \in a..b : q[k] \in Checkpoint BY <2>1
    <3> QED BY <3>1, <2>2, <1>2, SubSeqProperties
  <2>5. ASSUME NEW k \in 1..(b - a + 1) PROVE SubSeq(q, a, b)[k] = SubSeq(p, a, b)[k]
    <3>1. a + k - 1 \in a..b BY <1>2
    <3> QED BY <3>1, <2>1, <2>3, <2>4
  <2> QED BY <2>3, <2>4, <2>5, SeqEqual
<1> QED BY <1>1, <1>2, <1>4, <1>5, <1>6 DEF IsSpan

\* The unpublished span of a payload is what it holds under its number.
LEMMA UnpublishedSpan ==
  ASSUME NEW p \in Seq(Checkpoint), NEW a, Fresh(p, a)
  PROVE  /\ UnpublishedPayload(p) = SubSeq(p, a, Len(p))
         /\ Len(p) \in DOMAIN p
         /\ IsSpan(p, Context(p), a, Len(p))
<1> DEFINE since == {i \in DOMAIN p : p[i].ctx = Context(p)}
           first == CHOOSE i \in since : \A k \in since : i <= k
<1>1. /\ DOMAIN p = 1..Len(p) /\ Len(p) \in Nat /\ a \in 1..Len(p)
      /\ \A k \in DOMAIN p : p[k].ctx \in Nat
  BY CheckpointType DEF Fresh
<1>2. Context(p) \in Nat
  BY <1>1 DEF Context, Last
<1>3. since = a..Len(p)
  BY <1>1, <1>2 DEF Fresh
<1>4. a \in since /\ \A k \in since : a <= k
  BY <1>1, <1>3
<1>5. first \in since /\ \A k \in since : first <= k
  BY <1>4
<1>6. first = a
  <2> HIDE DEF first
  <2>1. first <= a /\ a <= first /\ first \in Int /\ a \in Int BY <1>1, <1>3, <1>4, <1>5
  <2> QED BY <2>1
<1>7. UnpublishedPayload(p) = SubSeq(p, a, Len(p))
  <2>1. UnpublishedPayload(p) = SubSeq(p, first, Len(p)) BY Zenon DEF UnpublishedPayload
  <2> HIDE DEF first
  <2> QED BY <2>1, <1>6
<1>8. IsSpan(p, Context(p), a, Len(p))
  BY <1>1, <1>3 DEF IsSpan
<1> QED BY <1>1, <1>7, <1>8

----------------------------------------------------------------------------
(***************************************************************************)
(* Blocks. Both the block of a payload and what its flashblocks bring to   *)
(* it are flattened, so that cutting a payload or a feed in two cuts the   *)
(* block in two.                                                           *)
(***************************************************************************)
TxSet == Orders \union {"sequencer", "builder", "barrier"}

Shown(p) == [i \in DOMAIN p |-> CheckpointTransactions(p[i])]

LEMMA ShownType ==
  ASSUME NEW p \in Seq(Checkpoint)
  PROVE  /\ Shown(p) \in Seq(Seq(TxSet))
         /\ Len(Shown(p)) = Len(p)
         /\ \A i \in 1..Len(p) : Shown(p)[i] = CheckpointTransactions(p[i])
         /\ Transactions(p) = FlattenSeq(Shown(p))
         /\ Transactions(p) \in Seq(TxSet)
<1> DEFINE T == Seq(TxSet)
<1>1. Len(p) \in Nat /\ DOMAIN p = 1..Len(p) /\ \A i \in 1..Len(p) : p[i] \in Checkpoint
  BY CheckpointType
<1>2. \A cp \in Checkpoint : CheckpointTransactions(cp) \in T
  <2> SUFFICES ASSUME NEW cp \in Checkpoint PROVE CheckpointTransactions(cp) \in T
    OBVIOUS
  <2>1. cp.tx \in TxSet BY DEF Checkpoint, TxSet
  <2>2. <<>> \in T /\ <<cp.tx>> \in T BY <2>1, EmptySeq
  <2> QED BY <2>2 DEF CheckpointTransactions
<1> HIDE DEF T
<1>3. Shown(p) \in [1..Len(p) -> T]
  BY <1>1, <1>2 DEF Shown
<1>4. Shown(p) \in Seq(T) /\ Len(Shown(p)) = Len(p)
  BY <1>1, <1>3, SeqDef, LenProperties
<1>5. Transactions(p) = FlattenSeq(Shown(p))
  BY Zenon DEF Transactions, Shown
<1>6. FlattenSeq(Shown(p)) \in Seq(TxSet)
  BY <1>4, FlattenType DEF T
<1> QED BY <1>1, <1>4, <1>5, <1>6 DEF T, Shown

\* A stretch of a payload is a payload.
LEMMA SubPayload ==
  ASSUME NEW p \in Seq(Checkpoint), NEW m \in Nat \ {0}, NEW n \in Nat, n <= Len(p)
  PROVE  /\ SubSeq(p, m, n) \in Seq(Checkpoint)
         /\ Shown(SubSeq(p, m, n)) = SubSeq(Shown(p), m, n)
<1> DEFINE T == Seq(TxSet)
           s == SubSeq(p, m, n)
           k == IF m <= n THEN n - m + 1 ELSE 0
<1>1. Len(p) \in Nat /\ \A i \in 1..Len(p) : p[i] \in Checkpoint
  BY CheckpointType
<1>2. /\ s \in Seq(Checkpoint) /\ Len(s) = k
      /\ \A i \in 1..(n - m + 1) : s[i] = p[m + i - 1]
  <2>1. m \in Int /\ n \in Int /\ \A i \in m..n : p[i] \in Checkpoint BY <1>1
  <2> QED BY <2>1, SubSeqProperties
<1> HIDE DEF T, s
<1>3. /\ Shown(p) \in Seq(T) /\ Len(Shown(p)) = Len(p)
      /\ \A i \in 1..Len(p) : Shown(p)[i] = CheckpointTransactions(p[i])
  BY ShownType DEF T
<1>4. /\ SubSeq(Shown(p), m, n) \in Seq(T) /\ Len(SubSeq(Shown(p), m, n)) = k
      /\ \A i \in 1..(n - m + 1) : SubSeq(Shown(p), m, n)[i] = Shown(p)[m + i - 1]
  <2>1. \A i \in 1..Len(Shown(p)) : Shown(p)[i] \in T BY <1>3, ElementOfSeq
  <2>2. m \in Int /\ n \in Int /\ \A i \in m..n : Shown(p)[i] \in T BY <2>1, <1>1, <1>3
  <2> QED BY <2>2, SubSeqProperties
<1>5. /\ Shown(s) \in Seq(T) /\ Len(Shown(s)) = k
      /\ \A i \in 1..k : Shown(s)[i] = CheckpointTransactions(s[i])
  <2>1. /\ Shown(s) \in Seq(Seq(TxSet)) /\ Len(Shown(s)) = Len(s)
        /\ \A i \in 1..Len(s) : Shown(s)[i] = CheckpointTransactions(s[i])
    BY <1>2, ShownType
  <2> QED BY <2>1, <1>2 DEF T
<1>6. ASSUME NEW i \in 1..k PROVE Shown(s)[i] = SubSeq(Shown(p), m, n)[i]
  <2>1. i \in 1..(n - m + 1) /\ m + i - 1 \in 1..Len(p) BY <1>1
  <2> QED BY <2>1, <1>2, <1>3, <1>4, <1>5
<1>7. Shown(s) = SubSeq(Shown(p), m, n)
  BY <1>4, <1>5, <1>6, SeqEqual
<1> QED BY <1>2, <1>7 DEF s

\* The block of a payload is that of what precedes a checkpoint and of the rest.
LEMMA TransactionsSplit ==
  ASSUME NEW p \in Seq(Checkpoint), NEW m \in 0..Len(p)
  PROVE  Transactions(p) = Transactions(SubSeq(p, 1, m)) \o Transactions(SubSeq(p, m + 1, Len(p)))
<1>1. /\ Len(p) \in Nat /\ Len(p) <= Len(p)
      /\ m \in Nat /\ m <= Len(p) /\ m + 1 \in Nat \ {0} /\ 1 \in Nat \ {0}
  BY CheckpointType
<1>2. /\ SubSeq(p, 1, m) \in Seq(Checkpoint)
      /\ Shown(SubSeq(p, 1, m)) = SubSeq(Shown(p), 1, m)
  BY <1>1, SubPayload
<1>3. /\ SubSeq(p, m + 1, Len(p)) \in Seq(Checkpoint)
      /\ Shown(SubSeq(p, m + 1, Len(p))) = SubSeq(Shown(p), m + 1, Len(p))
  BY <1>1, SubPayload
<1>4. Shown(p) \in Seq(Seq(TxSet)) /\ Len(Shown(p)) = Len(p) /\ Transactions(p) = FlattenSeq(Shown(p))
  BY ShownType
<1>5. FlattenSeq(Shown(p))
        = FlattenSeq(SubSeq(Shown(p), 1, m)) \o FlattenSeq(SubSeq(Shown(p), m + 1, Len(p)))
  BY <1>4, FlattenSplit
<1>6. /\ Transactions(SubSeq(p, 1, m)) = FlattenSeq(Shown(SubSeq(p, 1, m)))
      /\ Transactions(SubSeq(p, m + 1, Len(p))) = FlattenSeq(Shown(SubSeq(p, m + 1, Len(p))))
  BY <1>2, <1>3, ShownType
<1> QED BY <1>2, <1>3, <1>4, <1>5, <1>6

\* A barrier at the end of a payload brings nothing to its block.
LEMMA BarrierShowsNothing ==
  ASSUME NEW p \in Seq(Checkpoint), p # <<>>, p[Len(p)].tx = "barrier"
  PROVE  Transactions(p) = Transactions(SubSeq(p, 1, Len(p) - 1))
<1> DEFINE n == Len(p)
           head == SubSeq(p, 1, n - 1)
           end == SubSeq(p, n, n)
<1>1. n \in Nat \ {0}
  BY LenProperties, EmptySeq
<1>2. Transactions(p) = Transactions(head) \o Transactions(end)
  <2>1. n - 1 \in 0..n /\ (n - 1) + 1 = n BY <1>1
  <2> QED BY <2>1, TransactionsSplit
<1>3. /\ head \in Seq(Checkpoint)
      /\ end \in Seq(Checkpoint) /\ Shown(end) = SubSeq(Shown(p), n, n)
  <2>1. n - 1 \in Nat /\ n - 1 <= n /\ 1 \in Nat \ {0} /\ n <= n BY <1>1
  <2> QED BY <2>1, <1>1, SubPayload
<1> HIDE DEF head
<1>4. Len(end) = 1 /\ end[1] = p[n]
  <2>1. n \in Int /\ \A i \in n..n : p[i] \in Checkpoint BY <1>1, CheckpointType
  <2>2. /\ Len(end) = IF n <= n THEN n - n + 1 ELSE 0
        /\ \A i \in 1..(n - n + 1) : end[i] = p[n + i - 1]
    BY <2>1, SubSeqProperties
  <2>3. n - n + 1 = 1 /\ n + 1 - 1 = n BY <1>1
  <2> QED BY <2>2, <2>3
<1> HIDE DEF end
<1>5. Transactions(end) = <<>>
  <2>1. /\ Shown(end) \in Seq(Seq(TxSet)) /\ Len(Shown(end)) = 1
        /\ Shown(end)[1] = CheckpointTransactions(p[n]) /\ Transactions(end) = FlattenSeq(Shown(end))
    <3>1. /\ Shown(end) \in Seq(Seq(TxSet)) /\ Len(Shown(end)) = Len(end)
          /\ \A i \in 1..Len(end) : Shown(end)[i] = CheckpointTransactions(end[i])
          /\ Transactions(end) = FlattenSeq(Shown(end))
      BY <1>3, ShownType
    <3> QED BY <3>1, <1>4
  <2>2. \A i \in 1..Len(Shown(end)) : Shown(end)[i] = <<>>
    BY <2>1 DEF CheckpointTransactions
  <2> QED BY <2>1, <2>2, FlattenOfEmpty
<1>6. Transactions(head) \in Seq(TxSet)
  BY <1>3, ShownType
<1> QED BY <1>2, <1>5, <1>6, ConcatEmptySeq DEF head

\* Payloads that agree up to m have the same beginning.
LEMMA SameBeginning ==
  ASSUME NEW p \in Seq(Checkpoint), NEW q \in Seq(Checkpoint), NEW m \in Nat,
         m <= Len(p), m <= Len(q), \A k \in 1..m : q[k] = p[k]
  PROVE  SubSeq(q, 1, m) = SubSeq(p, 1, m)
<1>1. /\ Len(p) \in Nat /\ Len(q) \in Nat
      /\ \A k \in 1..Len(p) : p[k] \in Checkpoint
      /\ \A k \in 1..Len(q) : q[k] \in Checkpoint
  BY CheckpointType
<1>2. 1 \in Int /\ m \in Int /\ \A k \in 1..m : p[k] \in Checkpoint /\ q[k] \in Checkpoint
  BY <1>1
<1>3. /\ SubSeq(p, 1, m) \in Seq(Checkpoint) /\ Len(SubSeq(p, 1, m)) = IF 1 <= m THEN m - 1 + 1 ELSE 0
      /\ \A i \in 1..(m - 1 + 1) : SubSeq(p, 1, m)[i] = p[1 + i - 1]
  BY <1>2, SubSeqProperties
<1>4. /\ SubSeq(q, 1, m) \in Seq(Checkpoint) /\ Len(SubSeq(q, 1, m)) = IF 1 <= m THEN m - 1 + 1 ELSE 0
      /\ \A i \in 1..(m - 1 + 1) : SubSeq(q, 1, m)[i] = q[1 + i - 1]
  BY <1>2, SubSeqProperties
<1>5. Len(SubSeq(p, 1, m)) = m /\ Len(SubSeq(q, 1, m)) = m
  BY <1>3, <1>4
<1>6. ASSUME NEW i \in 1..m PROVE SubSeq(q, 1, m)[i] = SubSeq(p, 1, m)[i]
  <2>1. i \in 1..(m - 1 + 1) /\ 1 + i - 1 = i OBVIOUS
  <2> QED BY <2>1, <1>3, <1>4
<1> QED BY <1>3, <1>4, <1>5, <1>6, SeqEqual

\* What the flashblocks fbs bring to the block of j, one after the other.
Brought(fbs, j) == [i \in DOMAIN fbs |-> TransactionsFor(fbs[i], j)]

AreFlashblocks(fbs) ==
  (\E S : fbs \in Seq(S)) /\ \A i \in DOMAIN fbs : fbs[i].transactions \in Seq(TxSet)

LEMMA BroughtType ==
  ASSUME NEW fbs, AreFlashblocks(fbs), NEW j
  PROVE  /\ Brought(fbs, j) \in Seq(Seq(TxSet))
         /\ Len(Brought(fbs, j)) = Len(fbs) /\ Len(fbs) \in Nat /\ DOMAIN fbs = 1..Len(fbs)
         /\ \A i \in 1..Len(fbs) : Brought(fbs, j)[i] = TransactionsFor(fbs[i], j)
         /\ Assembled(fbs, j) = FlattenSeq(Brought(fbs, j))
         /\ Assembled(fbs, j) \in Seq(TxSet)
<1> DEFINE T == Seq(TxSet)
<1>1. Len(fbs) \in Nat /\ DOMAIN fbs = 1..Len(fbs)
  BY LenProperties DEF AreFlashblocks
<1>2. \A i \in 1..Len(fbs) : TransactionsFor(fbs[i], j) \in T
  BY <1>1, EmptySeq DEF AreFlashblocks, TransactionsFor
<1> HIDE DEF T
<1>3. Brought(fbs, j) \in [1..Len(fbs) -> T]
  BY <1>1, <1>2 DEF Brought
<1>4. Brought(fbs, j) \in Seq(T) /\ Len(Brought(fbs, j)) = Len(fbs)
  BY <1>1, <1>3, SeqDef, LenProperties
<1>5. Assembled(fbs, j) = FlattenSeq(Brought(fbs, j))
  BY Zenon DEF Assembled, Brought
<1>6. FlattenSeq(Brought(fbs, j)) \in Seq(TxSet)
  BY <1>4, FlattenType DEF T
<1> QED BY <1>1, <1>4, <1>5, <1>6 DEF T, Brought

\* One more flashblock brings its transactions to the end of its payload's block.
LEMMA AssembledAppend ==
  ASSUME NEW fbs, AreFlashblocks(fbs), NEW fb, fb.transactions \in Seq(TxSet), NEW j
  PROVE  /\ AreFlashblocks(Append(fbs, fb))
         /\ Assembled(Append(fbs, fb), j) = Assembled(fbs, j) \o TransactionsFor(fb, j)
<1> DEFINE gbs == Append(fbs, fb)
           T == Seq(TxSet)
<1>1. PICK S : fbs \in Seq(S)
  BY DEF AreFlashblocks
<1>2. fbs \in Seq(S \union {fb})
  BY <1>1, SeqMonotonic
<1>3. /\ gbs \in Seq(S \union {fb}) /\ Len(gbs) = Len(fbs) + 1
      /\ \A i \in 1..Len(fbs) : gbs[i] = fbs[i]
      /\ gbs[Len(fbs) + 1] = fb
  BY <1>2, AppendProperties
<1>4. Len(fbs) \in Nat /\ DOMAIN fbs = 1..Len(fbs) /\ DOMAIN gbs = 1..(Len(fbs) + 1)
  BY <1>1, <1>3, LenProperties
<1> HIDE DEF gbs
<1>5. AreFlashblocks(gbs)
  BY <1>3, <1>4 DEF AreFlashblocks
<1>6. /\ Brought(fbs, j) \in Seq(T) /\ Len(Brought(fbs, j)) = Len(fbs)
      /\ \A i \in 1..Len(fbs) : Brought(fbs, j)[i] = TransactionsFor(fbs[i], j)
      /\ Assembled(fbs, j) = FlattenSeq(Brought(fbs, j))
  BY BroughtType
<1>7. /\ Brought(gbs, j) \in Seq(T) /\ Len(Brought(gbs, j)) = Len(fbs) + 1
      /\ \A i \in 1..(Len(fbs) + 1) : Brought(gbs, j)[i] = TransactionsFor(gbs[i], j)
      /\ Assembled(gbs, j) = FlattenSeq(Brought(gbs, j))
  <2>1. /\ Brought(gbs, j) \in Seq(T) /\ Len(Brought(gbs, j)) = Len(gbs)
        /\ \A i \in 1..Len(gbs) : Brought(gbs, j)[i] = TransactionsFor(gbs[i], j)
        /\ Assembled(gbs, j) = FlattenSeq(Brought(gbs, j))
    BY <1>5, BroughtType
  <2> QED BY <2>1, <1>3
<1>8. TransactionsFor(fb, j) \in T
  BY EmptySeq DEF TransactionsFor
<1>9. Brought(gbs, j) = Append(Brought(fbs, j), TransactionsFor(fb, j))
  <2> HIDE DEF T
  <2> DEFINE ss == Append(Brought(fbs, j), TransactionsFor(fb, j))
  <2>1. /\ ss \in Seq(T) /\ Len(ss) = Len(fbs) + 1
        /\ \A i \in 1..Len(fbs) : ss[i] = Brought(fbs, j)[i]
        /\ ss[Len(fbs) + 1] = TransactionsFor(fb, j)
    BY <1>6, <1>8, AppendProperties
  <2> HIDE DEF ss
  <2>2. ASSUME NEW i \in 1..(Len(fbs) + 1) PROVE Brought(gbs, j)[i] = ss[i]
    <3>1. CASE i \in 1..Len(fbs) BY <3>1, <2>1, <1>3, <1>6, <1>7
    <3>2. CASE i = Len(fbs) + 1 BY <3>2, <2>1, <1>3, <1>7
    <3> QED BY <3>1, <3>2, <1>4
  <2>3. Brought(gbs, j) = ss
    BY <1>7, <2>1, <2>2, SeqEqual
  <2> QED BY <2>3 DEF ss
<1>10. FlattenSeq(Append(Brought(fbs, j), TransactionsFor(fb, j)))
         = FlattenSeq(Brought(fbs, j)) \o TransactionsFor(fb, j)
  BY <1>6, <1>8, FlattenAppend
<1> QED BY <1>5, <1>6, <1>7, <1>9, <1>10 DEF gbs

\* The n flashblocks that follow the first m.
Following(fbs, m, n) == [i \in 1..n |-> fbs[m + i]]

StartsAfter(fbs, m, j) == \A i \in 1..m : fbs[i].payload_id # j

\* The transactions t are the transactions s and others.
Extends(t, s) == \E u \in Seq(TxSet) : t = s \o u

\* Where the first m flashblocks are of other payloads, the n after them bring the
\* beginning of the block, or the whole if they are all.
LEMMA AssembledAfter ==
  ASSUME NEW fbs, AreFlashblocks(fbs), NEW j, NEW m \in Nat, NEW n \in Nat, m + n <= Len(fbs),
         StartsAfter(fbs, m, j)
  PROVE  /\ Assembled(Following(fbs, m, n), j) \in Seq(TxSet)
         /\ Extends(Assembled(fbs, j), Assembled(Following(fbs, m, n), j))
         /\ m + n = Len(fbs) => Assembled(fbs, j) = Assembled(Following(fbs, m, n), j)
<1> DEFINE view == Following(fbs, m, n)
           T == Seq(TxSet)
           l == Len(fbs)
           ss == Brought(fbs, j)
           head == SubSeq(ss, 1, m)
           rest == SubSeq(ss, m + 1, l)
           seen == SubSeq(rest, 1, n)
           unseen == SubSeq(rest, n + 1, l - m)
<1>1. /\ ss \in Seq(T) /\ Len(ss) = l /\ l \in Nat /\ DOMAIN fbs = 1..l
      /\ \A i \in 1..l : ss[i] = TransactionsFor(fbs[i], j)
      /\ Assembled(fbs, j) = FlattenSeq(ss)
  BY BroughtType
<1>2. m + n <= l /\ l - m \in Nat /\ n <= l - m
  BY <1>1
<1> HIDE DEF ss, T, l
<1>3. \A i \in 1..l : ss[i] \in T
  BY <1>1, ElementOfSeq
<1>4. /\ head \in Seq(T) /\ Len(head) = m
      /\ \A i \in 1..m : head[i] = ss[i]
  <2>1. 1 \in Int /\ m \in Int /\ \A i \in 1..m : ss[i] \in T BY <1>1, <1>2, <1>3
  <2>2. /\ head \in Seq(T) /\ Len(head) = IF 1 <= m THEN m - 1 + 1 ELSE 0
        /\ \A i \in 1..(m - 1 + 1) : head[i] = ss[1 + i - 1]
    BY <2>1, SubSeqProperties
  <2> QED BY <2>2, <1>2
<1>5. /\ rest \in Seq(T) /\ Len(rest) = l - m
      /\ \A i \in 1..(l - m) : rest[i] = ss[m + i]
  <2>1. m + 1 \in Int /\ l \in Int /\ \A i \in (m + 1)..l : ss[i] \in T BY <1>1, <1>2, <1>3
  <2>2. /\ rest \in Seq(T) /\ Len(rest) = IF m + 1 <= l THEN l - (m + 1) + 1 ELSE 0
        /\ \A i \in 1..(l - (m + 1) + 1) : rest[i] = ss[(m + 1) + i - 1]
    BY <2>1, SubSeqProperties
  <2> QED BY <2>2, <1>1, <1>2
<1>6. FlattenSeq(ss) = FlattenSeq(head) \o FlattenSeq(rest)
  <2>1. ss \in Seq(Seq(TxSet)) /\ m \in 0..Len(ss) BY <1>1, <1>2 DEF T
  <2>2. FlattenSeq(ss) = FlattenSeq(SubSeq(ss, 1, m)) \o FlattenSeq(SubSeq(ss, m + 1, Len(ss)))
    BY <2>1, FlattenSplit
  <2> QED BY <2>2, <1>1
<1> HIDE DEF head, rest
<1>7. FlattenSeq(head) = <<>>
  <2>1. \A i \in 1..Len(head) : head[i] = <<>>
    BY <1>1, <1>2, <1>4 DEF TransactionsFor, StartsAfter
  <2>2. head \in Seq(Seq(TxSet)) BY <1>4 DEF T
  <2> QED BY <2>1, <2>2, FlattenOfEmpty
<1>8. FlattenSeq(rest) = FlattenSeq(seen) \o FlattenSeq(unseen)
  <2>1. rest \in Seq(Seq(TxSet)) /\ n \in 0..Len(rest) BY <1>2, <1>5 DEF T
  <2>2. FlattenSeq(rest) = FlattenSeq(SubSeq(rest, 1, n)) \o FlattenSeq(SubSeq(rest, n + 1, Len(rest)))
    BY <2>1, FlattenSplit
  <2> QED BY <2>2, <1>5
<1>9. /\ seen \in Seq(T) /\ Len(seen) = n
      /\ \A i \in 1..n : seen[i] = rest[i]
  <2>1. 1 \in Int /\ n \in Int /\ \A i \in 1..n : rest[i] \in T BY <1>2, <1>5, ElementOfSeq
  <2>2. /\ seen \in Seq(T) /\ Len(seen) = IF 1 <= n THEN n - 1 + 1 ELSE 0
        /\ \A i \in 1..(n - 1 + 1) : seen[i] = rest[1 + i - 1]
    BY <2>1, SubSeqProperties
  <2> QED BY <2>2
<1>10. unseen \in Seq(T) /\ (m + n = l => unseen = <<>>)
  <2>1. n + 1 \in Int /\ l - m \in Int /\ \A i \in (n + 1)..(l - m) : rest[i] \in T
    BY <1>2, <1>5, ElementOfSeq
  <2>2. unseen \in Seq(T) BY <2>1, SubSeqProperties
  <2>3. m + n = l => l - m < n + 1 BY <1>1
  <2> QED BY <2>1, <2>2, <2>3, SubSeqEmpty
<1> HIDE DEF seen, unseen
<1>11. FlattenSeq(seen) \in Seq(TxSet) /\ FlattenSeq(unseen) \in Seq(TxSet)
  BY <1>9, <1>10, FlattenType DEF T
<1>12. Brought(view, j) = seen
  <2>1. DOMAIN view = 1..n /\ \A i \in 1..n : view[i] = fbs[m + i]
    BY DEF Following
  <2>2. Brought(view, j) = [i \in 1..n |-> TransactionsFor(fbs[m + i], j)]
    BY <2>1 DEF Brought
  <2>3. \A i \in 1..n : m + i \in 1..l /\ i \in 1..(l - m)
    BY <1>1, <1>2
  <2>4. \A i \in 1..n : seen[i] = TransactionsFor(fbs[m + i], j)
    BY <2>3, <1>1, <1>5, <1>9
  <2>5. seen = [i \in 1..n |-> seen[i]]
    BY <1>9, LenProperties
  <2> QED BY <2>2, <2>4, <2>5
<1>13. Assembled(view, j) = FlattenSeq(seen)
  <2>1. Assembled(view, j) = FlattenSeq(Brought(view, j)) BY Zenon DEF Assembled, Brought
  <2> QED BY <2>1, <1>12
<1>14. Assembled(fbs, j) = Assembled(view, j) \o FlattenSeq(unseen)
  <2>1. FlattenSeq(seen) \o FlattenSeq(unseen) \in Seq(TxSet) BY <1>11, ConcatProperties
  <2> QED BY <1>1, <1>6, <1>7, <1>8, <1>13, <2>1, ConcatEmptySeq
<1>15. m + n = l => Assembled(fbs, j) = Assembled(view, j)
  <2>1. FlattenSeq(seen) \o <<>> = FlattenSeq(seen) BY <1>11, ConcatEmptySeq
  <2> QED BY <1>10, <1>13, <1>14, <2>1, FlattenEmpty
<1> QED BY <1>11, <1>13, <1>14, <1>15 DEF l, Extends

----------------------------------------------------------------------------
(***************************************************************************)
(* The inductive invariant. It adds to the properties what a payload looks *)
(* like, where the number of a job stands at each of its steps, who can    *)
(* hold a base, what a job that runs alone still has of its own, and how   *)
(* much of a payload its flashblocks have brought so far.                  *)
(***************************************************************************)
IsFeed == \E S : feed \in Seq(S)

PayloadInv == \A j \in Jobs : \E a : Fresh(payload[j], a)

Most == IF Target = 0 THEN 1 ELSE Target

NumberInv ==
  \A j \in Jobs : LET n == Context(payload[j]) IN
    /\ phase[j] \in {"new", "fill", "publish", "send"} => n <= Most
    /\ n <= Most + 1
    /\ phase[j] = "check" /\ ~failed[j] => 2 <= n
    /\ phase[j] \in {"ending", "done"} /\ ~failed[j] => n = Most + 1

\* Nothing has been published of a job that has not started.
StartInv == \A j \in Jobs : phase[j] = "new" => Context(payload[j]) = 1

HolderInv ==
  /\ \A j \in Jobs : taken[j] # NoBase =>
       blockBase # taken[j] /\ \A k \in Jobs : taken[k] = taken[j] => k = j
  /\ \A j \in Jobs : phase[j] = "new" =>
       /\ blockBase # j
       /\ \A k \in Jobs : taken[k] # j
       /\ \A i \in DOMAIN feed : feed[i].base # j

OwnBase(j) == IF Context(payload[j]) = 1 THEN j ELSE NoBase

AloneInv ==
  \A j \in Jobs : alone[j] /\ j \in InFlight =>
    /\ \A k \in InFlight : k = j
    /\ sinkUp => /\ phase[j] \in {"fill", "publish"} => blockBase = OwnBase(j)
                 /\ phase[j] = "send" => taken[j] = OwnBase(j) /\ blockBase = NoBase
                 /\ phase[j] = "check" => 2 <= Context(payload[j]) /\ blockBase = NoBase

\* The base of a job is its block_base, or in its hands, only until it has published.
OwnBaseInv ==
  /\ \A j \in Jobs : blockBase = j =>
       phase[j] \in {"fill", "publish", "ending"} /\ Context(payload[j]) = 1
  /\ \A j \in Jobs : taken[j] = j => Context(payload[j]) = 1

\* What has been published of a payload is what precedes the first checkpoint of its
\* number, and a job that is over, or checks if it is, has published everything.
BlockInv ==
  /\ AreFlashblocks(feed)
  /\ \A j \in Jobs : \E a : /\ Fresh(payload[j], a)
                           /\ Assembled(feed, j) = Transactions(SubSeq(payload[j], 1, a - 1))

IsPublished(p) == Fresh(p, Len(p)) /\ p[Len(p)].tx = "barrier"

EndInv ==
  \A j \in Jobs : phase[j] \in {"check", "ending", "done"} /\ ~failed[j] => IsPublished(payload[j])

IndInv ==
  /\ TypeOK /\ IsFeed /\ PayloadInv /\ NumberInv /\ StartInv /\ HolderInv /\ AloneInv
  /\ OwnBaseInv /\ BlockInv /\ EndInv
  /\ IndicesContiguous /\ BaseOnFirst /\ BaseAtMostOnce /\ PublishedIsCommitted

LEMMA ContextType ==
  ASSUME NEW p \in Seq(Checkpoint), NEW a, Fresh(p, a)
  PROVE  Context(p) \in Nat \ {0}
<1>1. Len(p) \in DOMAIN p
  BY CheckpointType DEF Fresh
<1> QED BY <1>1, CheckpointType DEF Context, Last

\* Appending to the feed.
LEMMA AppendFeed ==
  ASSUME IsFeed, NEW fb, feed' = Append(feed, fb)
  PROVE  /\ IsFeed'
         /\ Len(feed) \in Nat
         /\ DOMAIN feed = 1..Len(feed)
         /\ DOMAIN feed' = 1..(Len(feed) + 1)
         /\ \A i \in DOMAIN feed : feed'[i] = feed[i]
         /\ feed'[Len(feed) + 1] = fb
<1>1. PICK S : feed \in Seq(S)
  BY DEF IsFeed
<1> DEFINE T == S \union {fb}
<1>2. feed \in Seq(T) /\ fb \in T
  BY <1>1, SeqMonotonic
<1> HIDE DEF T
<1>3. /\ feed' \in Seq(T)
      /\ Len(feed') = Len(feed) + 1
      /\ \A i \in 1..Len(feed) : feed'[i] = feed[i]
      /\ feed'[Len(feed) + 1] = fb
  BY <1>2, AppendProperties
<1>4. Len(feed) \in Nat /\ DOMAIN feed = 1..Len(feed) /\ DOMAIN feed' = 1..Len(feed')
  BY <1>2, <1>3, LenProperties
<1> QED BY <1>3, <1>4 DEF IsFeed

LEMMA InitInv == Init => IndInv
<1> SUFFICES ASSUME Init PROVE IndInv
  OBVIOUS
<1> USE DEF Init
<1> DEFINE cp == [tx |-> "sequencer", ctx |-> FirstNumber]
<1>1. feed = <<>> /\ DOMAIN feed = {} /\ IsFeed
  <2>1. <<>> \in Seq({}) /\ Len(<<>>) = 0 BY EmptySeq
  <2> QED BY <2>1, LenProperties DEF IsFeed
<1>2. /\ <<cp>> \in Seq(Checkpoint) /\ Len(<<cp>>) = 1 /\ <<cp>>[1] = cp
      /\ DOMAIN <<cp>> = {1} /\ Context(<<cp>>) = 1
  BY DEF Checkpoint, FirstNumber, Context, Last
<1>3. Fresh(<<cp>>, 1)
  BY <1>2, JobsAssumption DEF Fresh, FirstNumber
<1>4. \A j \in Jobs : payload[j] = <<cp>>
  OBVIOUS
<1>5. TypeOK
  BY <1>1, <1>2 DEF TypeOK
<1>6. PayloadInv
  BY <1>3, <1>4 DEF PayloadInv
<1>7. NumberInv
  <2>1. 1 <= Most /\ Most \in Nat BY JobsAssumption DEF Most
  <2> QED BY <2>1, <1>2, <1>4 DEF NumberInv
<1>11. StartInv
  BY <1>2, <1>4 DEF StartInv
<1>8. HolderInv /\ AloneInv
  BY <1>1 DEF HolderInv, AloneInv, InFlight, Jobs, NoBase
<1>9. IndicesContiguous
  <2>1. \A j \in Jobs : Positions(j) = {} /\ Indices(j) = {}
    BY <1>1 DEF Positions, Indices
  <2>2. 1..Index(1) = {} BY DEF Index
  <2> QED BY <2>1, <2>2, <1>2, <1>4 DEF IndicesContiguous
<1>10. BaseOnFirst /\ BaseAtMostOnce /\ PublishedIsCommitted
  BY <1>1 DEF BaseOnFirst, BaseAtMostOnce, PublishedIsCommitted
<1>12. OwnBaseInv /\ EndInv
  BY DEF OwnBaseInv, EndInv, Jobs, NoBase
<1>13. BlockInv
  <2>1. AreFlashblocks(feed) BY <1>1 DEF AreFlashblocks, IsFeed
  <2>2. \A j \in Jobs : Assembled(feed, j) = <<>>
    <3> SUFFICES ASSUME NEW j \in Jobs PROVE Assembled(feed, j) = <<>> OBVIOUS
    <3>1. [i \in DOMAIN feed |-> TransactionsFor(feed[i], j)] = <<>> BY <1>1
    <3> QED BY <3>1, FlattenEmpty, Zenon DEF Assembled
  <2>3. Transactions(SubSeq(<<cp>>, 1, 1 - 1)) = <<>>
    <3>1. SubSeq(<<cp>>, 1, 1 - 1) = <<>> BY SubSeqEmpty
    <3>2. [i \in DOMAIN <<>> |-> CheckpointTransactions(<<>>[i])] = <<>> OBVIOUS
    <3>3. Transactions(<<>>) = <<>> BY <3>2, FlattenEmpty, Zenon DEF Transactions
    <3> QED BY <3>1, <3>3
  <2> QED BY <2>1, <2>2, <2>3, <1>3, <1>4 DEF BlockInv
<1> QED BY <1>1, <1>5, <1>6, <1>7, <1>8, <1>9, <1>10, <1>11, <1>12, <1>13 DEF IndInv

----------------------------------------------------------------------------
\* Every step fills payloads and publishes nothing, or publishes one flashblock and
\* places a barrier in its payload.
LEMMA StepShape ==
  ASSUME TypeOK, PayloadInv, [Next]_vars
  PROVE  /\ payload' \in [Jobs -> Seq(Checkpoint)]
         /\ \/ feed' = feed /\ \A j \in Jobs : Filled(payload[j], payload'[j])
            \/ \E j \in Jobs : PublishOk(j)
<1>1. \A j \in Jobs : payload[j] \in Seq(Checkpoint) /\ Filled(payload[j], payload[j])
  BY FilledReflexive DEF TypeOK, PayloadInv
<1>2. payload \in [Jobs -> Seq(Checkpoint)]
  BY DEF TypeOK
<1>3. CASE UNCHANGED <<payload, feed>>
  BY <1>1, <1>2, <1>3
<1>4. ASSUME NEW j \in Jobs, NEW q, Filled(payload[j], q),
             payload' = [payload EXCEPT ![j] = q], feed' = feed
      PROVE  payload' \in [Jobs -> Seq(Checkpoint)] /\ \A i \in Jobs : Filled(payload[i], payload'[i])
  <2>1. q \in Seq(Checkpoint) BY <1>4 DEF Filled
  <2> QED BY <2>1, <1>1, <1>2, <1>4
<1>5. ASSUME NEW j \in Jobs, AppendOrders(j)
      PROVE  \E q : Filled(payload[j], q) /\ payload' = [payload EXCEPT ![j] = q] /\ feed' = feed
  BY <1>1, <1>5, PutFills DEF AppendOrders, PayloadInv
<1>6. ASSUME NEW j \in Jobs, OrderByPriorityFee(j)
      PROVE  \E q : Filled(payload[j], q) /\ payload' = [payload EXCEPT ![j] = q] /\ feed' = feed
  BY <1>1, <1>6, ExchangeFills DEF OrderByPriorityFee, PayloadInv
<1>7. ASSUME NEW j \in Jobs, RemoveReverted(j)
      PROVE  \E q : Filled(payload[j], q) /\ payload' = [payload EXCEPT ![j] = q] /\ feed' = feed
  BY <1>1, <1>7, RemoveFills DEF RemoveReverted, PayloadInv
<1>8. ASSUME NEW j \in Jobs, BreakAfterDeadline(j)
      PROVE  \E q : Filled(payload[j], q) /\ payload' = [payload EXCEPT ![j] = q] /\ feed' = feed
  <2>1. Filled(payload[j], Put(payload[j], "builder"))
    BY <1>1, PutFills DEF PayloadInv
  <2> QED BY <2>1, <1>1, <1>8 DEF BreakAfterDeadline
<1>9. ASSUME NEW j \in Jobs, PublishOk(j)
      PROVE  payload' \in [Jobs -> Seq(Checkpoint)]
  <2>1. Barrier(payload[j], NextNumber(Context(payload[j]))) \in Seq(Checkpoint)
    BY <1>1, BarrierStarts DEF PayloadInv
  <2> QED BY <2>1, <1>2, <1>9 DEF PublishOk
<1>10. ASSUME NEW j \in Jobs,
              BeforeJob(j) \/ StepFails(j) \/ BuildError(j) \/ TakeBase(j) \/ PublishErr(j)
                \/ BreakAfterMaxFlashblocks(j) \/ AfterJob(j)
       PROVE  UNCHANGED <<payload, feed>>
  BY <1>10 DEF BeforeJob, StepFails, BuildError, TakeBase, PublishErr, BreakAfterMaxFlashblocks, AfterJob
<1>11. SinkFails \/ UNCHANGED vars => UNCHANGED <<payload, feed>>
  BY DEF SinkFails, vars
<1> QED
  BY <1>3, <1>4, <1>5, <1>6, <1>7, <1>8, <1>9, <1>10, <1>11 DEF Next, Fill, Fail, Advance

LEMMA FilledContext ==
  ASSUME TypeOK, PayloadInv, NEW j \in Jobs
  PROVE  /\ Context(payload[j]) \in Nat \ {0}
         /\ payload[j] \in Seq(Checkpoint)
         /\ \A q : Filled(payload[j], q) => Context(q) = Context(payload[j])
BY ContextType DEF TypeOK, PayloadInv, Filled

\* What the publication of a flashblock does to the feed and to the payload.
LEMMA PublishShape ==
  ASSUME TypeOK, PayloadInv, IsFeed, NEW j \in Jobs, PublishOk(j)
  PROVE  /\ \A i \in Jobs : i # j => payload'[i] = payload[i]
         /\ payload'[j] = Barrier(payload[j], NextNumber(Context(payload[j])))
         /\ Context(payload'[j]) = Context(payload[j]) + 1
         /\ IsFeed'
         /\ Len(feed) \in Nat /\ DOMAIN feed = 1..Len(feed) /\ DOMAIN feed' = 1..(Len(feed) + 1)
         /\ \A i \in DOMAIN feed : feed'[i] = feed[i]
         /\ feed'[Len(feed) + 1] = NewFlashblock(j)
         /\ IsFlashblock(NewFlashblock(j))
         /\ NewFlashblock(j).payload_id = j
         /\ NewFlashblock(j).index = Index(Context(payload[j]))
         /\ NewFlashblock(j).base = taken[j]
<1>1. feed' = Append(feed, NewFlashblock(j))
  BY DEF PublishOk
<1>2. payload \in [Jobs -> Seq(Checkpoint)] /\ payload[j] \in Seq(Checkpoint)
  BY DEF TypeOK
<1>3. payload'[j] = Barrier(payload[j], NextNumber(Context(payload[j])))
  BY <1>2 DEF PublishOk
<1>4. \A i \in Jobs : i # j => payload'[i] = payload[i]
  BY <1>2 DEF PublishOk
<1>5. Context(payload'[j]) = Context(payload[j]) + 1
  BY <1>2, <1>3, BarrierStarts DEF PayloadInv
<1>6. /\ NewFlashblock(j).payload_id = j
      /\ NewFlashblock(j).index = Index(Context(payload[j]))
      /\ NewFlashblock(j).base = taken[j]
  BY DEF NewFlashblock
<1>7. IsFlashblock(NewFlashblock(j))
  BY <1>6, FilledContext DEF IsFlashblock, TypeOK, Index
<1>8. /\ IsFeed'
      /\ Len(feed) \in Nat /\ DOMAIN feed = 1..Len(feed) /\ DOMAIN feed' = 1..(Len(feed) + 1)
      /\ \A i \in DOMAIN feed : feed'[i] = feed[i]
      /\ feed'[Len(feed) + 1] = NewFlashblock(j)
  BY <1>1, AppendFeed
<1> QED BY <1>3, <1>4, <1>5, <1>6, <1>7, <1>8

\* The types, the shape of the feed and the shape of the payloads.
LEMMA NextType == IndInv /\ [Next]_vars => TypeOK' /\ IsFeed' /\ PayloadInv'
<1> SUFFICES ASSUME IndInv, [Next]_vars PROVE TypeOK' /\ IsFeed' /\ PayloadInv'
  OBVIOUS
<1>1. TypeOK /\ IsFeed /\ PayloadInv
  BY DEF IndInv
<1>2. payload' \in [Jobs -> Seq(Checkpoint)]
  BY <1>1, StepShape
<1>3. IsFeed' /\ \A i \in DOMAIN feed' : IsFlashblock(feed'[i])
  <2>1. CASE feed' = feed
    BY <2>1, <1>1 DEF TypeOK, IsFeed
  <2>2. ASSUME NEW j \in Jobs, PublishOk(j) PROVE IsFeed' /\ \A i \in DOMAIN feed' : IsFlashblock(feed'[i])
    <3>1. /\ IsFeed'
          /\ Len(feed) \in Nat /\ DOMAIN feed = 1..Len(feed) /\ DOMAIN feed' = 1..(Len(feed) + 1)
          /\ \A i \in DOMAIN feed : feed'[i] = feed[i]
          /\ feed'[Len(feed) + 1] = NewFlashblock(j) /\ IsFlashblock(NewFlashblock(j))
      BY <1>1, <2>2, PublishShape
    <3>2. \A i \in DOMAIN feed' : i \in DOMAIN feed \/ i = Len(feed) + 1
      BY <3>1
    <3> QED BY <3>1, <3>2, <1>1 DEF TypeOK
  <2> QED BY <2>1, <2>2, <1>1, StepShape
<1>4. PayloadInv'
  <2>1. CASE \A j \in Jobs : Filled(payload[j], payload'[j])
    BY <2>1 DEF Filled, PayloadInv
  <2>2. ASSUME NEW j \in Jobs, PublishOk(j) PROVE PayloadInv'
    <3>1. \A i \in Jobs : i # j => payload'[i] = payload[i]
      BY <1>1, <2>2, PublishShape
    <3>2. \E a : Fresh(payload'[j], a)
      <4>1. payload'[j] = Barrier(payload[j], NextNumber(Context(payload[j])))
        BY <1>1, <2>2, PublishShape
      <4>2. payload[j] \in Seq(Checkpoint) /\ \E a : Fresh(payload[j], a)
        BY <1>1 DEF TypeOK, PayloadInv
      <4> QED BY <4>1, <4>2, BarrierStarts
    <3> QED BY <3>1, <3>2, <1>1 DEF PayloadInv
  <2> QED BY <2>1, <2>2, <1>1, StepShape
<1>5. UNCHANGED <<phase, blockBase, taken, alone, sinkUp, failed>> =>
        /\ phase' \in [Jobs -> {"new", "fill", "publish", "send", "check", "ending", "done"}]
        /\ blockBase' \in Jobs \union {NoBase} /\ taken' \in [Jobs -> Jobs \union {NoBase}]
        /\ alone' \in [Jobs -> BOOLEAN] /\ sinkUp' \in BOOLEAN /\ failed' \in [Jobs -> BOOLEAN]
  BY <1>1 DEF TypeOK
<1>6. /\ phase' \in [Jobs -> {"new", "fill", "publish", "send", "check", "ending", "done"}]
      /\ blockBase' \in Jobs \union {NoBase} /\ taken' \in [Jobs -> Jobs \union {NoBase}]
      /\ alone' \in [Jobs -> BOOLEAN] /\ sinkUp' \in BOOLEAN /\ failed' \in [Jobs -> BOOLEAN]
  <2> USE <1>1 DEF TypeOK, GoTo
  <2>1. ASSUME NEW j \in Jobs, BeforeJob(j) PROVE <1>6 BY <2>1, Zenon DEF BeforeJob
  <2>2. ASSUME NEW j \in Jobs, Fill(j) PROVE <1>6
    BY <2>2, <1>5 DEF Fill, AppendOrders, OrderByPriorityFee, RemoveReverted
  <2>3. ASSUME NEW j \in Jobs, Fail(j) PROVE <1>6 BY <2>3 DEF Fail, StepFails, BuildError
  <2>4. ASSUME NEW j \in Jobs, BreakAfterDeadline(j) \/ TakeBase(j) PROVE <1>6
    <3>1. CASE BreakAfterDeadline(j) BY <3>1 DEF BreakAfterDeadline
    <3>2. CASE TakeBase(j) BY <3>2 DEF TakeBase
    <3> QED BY <2>4, <3>1, <3>2
  <2>5. ASSUME NEW j \in Jobs, PublishOk(j) \/ PublishErr(j) PROVE <1>6
    BY <2>5 DEF PublishOk, PublishErr
  <2>6. ASSUME NEW j \in Jobs, BreakAfterMaxFlashblocks(j) \/ AfterJob(j) PROVE <1>6
    BY <2>6 DEF BreakAfterMaxFlashblocks, AfterJob
  <2>7. CASE SinkFails BY <2>7 DEF SinkFails
  <2>8. CASE UNCHANGED vars BY <2>8 DEF vars
  <2> QED BY <2>1, <2>2, <2>3, <2>4, <2>5, <2>6, <2>7, <2>8 DEF Next, Advance
<1> QED BY <1>2, <1>3, <1>4, <1>6 DEF TypeOK, IsFlashblock

\* Where the number of a job stands at each of its steps.
LEMMA NextNumberInv == IndInv /\ [Next]_vars => NumberInv'
<1> SUFFICES ASSUME IndInv, [Next]_vars PROVE NumberInv'
  OBVIOUS
<1>1. TypeOK /\ IsFeed /\ PayloadInv /\ NumberInv
  BY DEF IndInv
<1>2. Most \in Nat /\ 1 <= Most /\ Target \in Nat /\ Most = IF Target = 0 THEN 1 ELSE Target
  BY JobsAssumption DEF Most
<1> HIDE DEF Most
<1>3. ASSUME NEW i \in Jobs
      PROVE  LET n == Context(payload'[i]) IN
        /\ phase'[i] \in {"new", "fill", "publish", "send"} => n <= Most
        /\ n <= Most + 1
        /\ phase'[i] = "check" /\ ~failed'[i] => 2 <= n
        /\ phase'[i] \in {"ending", "done"} /\ ~failed'[i] => n = Most + 1
  <2> DEFINE n == Context(payload[i])
             m == Context(payload'[i])
             goal == /\ phase'[i] \in {"new", "fill", "publish", "send"} => m <= Most
                     /\ m <= Most + 1
                     /\ phase'[i] = "check" /\ ~failed'[i] => 2 <= m
                     /\ phase'[i] \in {"ending", "done"} /\ ~failed'[i] => m = Most + 1
  <2>1. n \in Nat \ {0}
    BY <1>1, FilledContext
  <2>2. /\ phase[i] \in {"new", "fill", "publish", "send"} => n <= Most
        /\ n <= Most + 1
        /\ phase[i] = "check" /\ ~failed[i] => 2 <= n
        /\ phase[i] \in {"ending", "done"} /\ ~failed[i] => n = Most + 1
    BY <1>1 DEF NumberInv
  <2>3. ASSUME NEW j \in Jobs, PublishOk(j) PROVE goal
    <3>1. CASE i = j
      <4>1. m = n + 1 /\ phase[i] = "send" /\ phase'[i] = "check"
        BY <3>1, <2>3, <1>1, PublishShape DEF PublishOk, GoTo, TypeOK
      <4> QED BY <4>1, <2>1, <2>2, <1>2
    <3>2. CASE i # j
      <4>1. m = n /\ phase'[i] = phase[i] /\ failed'[i] = failed[i]
        BY <3>2, <2>3, <1>1, PublishShape DEF PublishOk, GoTo, TypeOK
      <4> QED BY <4>1, <2>2
    <3> QED BY <3>1, <3>2
  <2>4. ASSUME \A j \in Jobs : Filled(payload[j], payload'[j]) PROVE goal
    <3>1. m = n
      BY <2>4, <1>1, FilledContext
    <3> HIDE DEF m, n
    <3> USE DEF GoTo
    <3>2. ASSUME UNCHANGED <<phase, failed>> PROVE goal BY <3>1, <3>2, <2>2
    <3>3. phase \in [Jobs -> {"new", "fill", "publish", "send", "check", "ending", "done"}]
          /\ failed \in [Jobs -> BOOLEAN]
      BY <1>1 DEF TypeOK
    <3>4. ASSUME NEW j \in Jobs, BeforeJob(j) PROVE goal BY <3>1, <3>3, <3>4, <2>2 DEF BeforeJob
    <3>5. ASSUME NEW j \in Jobs, Fail(j) PROVE goal
      BY <3>1, <3>3, <3>5, <2>2 DEF Fail, StepFails, BuildError
    <3>6. ASSUME NEW j \in Jobs, BreakAfterDeadline(j) \/ TakeBase(j) PROVE goal
      BY <3>1, <3>3, <3>6, <2>2 DEF BreakAfterDeadline, TakeBase
    <3>7. ASSUME NEW j \in Jobs, PublishErr(j) PROVE goal
      BY <3>1, <3>3, <3>7, <2>2 DEF PublishErr
    <3>8. ASSUME NEW j \in Jobs, BreakAfterMaxFlashblocks(j) PROVE goal
      <4>1. CASE i = j
        <5>1. phase[i] = "check" /\ phase'[i] = IF n <= Target THEN "fill" ELSE "ending"
          BY <3>3, <3>8, <4>1 DEF BreakAfterMaxFlashblocks, n
        <5>2. failed'[i] = failed[i] BY <3>8 DEF BreakAfterMaxFlashblocks
        <5>3. CASE n <= Target
          BY <5>1, <5>3, <3>1, <2>1, <2>2, <1>2
        <5>4. CASE ~(n <= Target)
          <6>1. ~failed[i] => n = Most + 1 BY <5>1, <5>4, <2>1, <2>2, <1>2
          <6> QED BY <5>1, <5>2, <5>4, <6>1, <3>1, <2>2
        <5> QED BY <5>3, <5>4
      <4>2. CASE i # j
        BY <4>2, <3>1, <3>3, <3>8, <2>2 DEF BreakAfterMaxFlashblocks
      <4> QED BY <4>1, <4>2
    <3>9. ASSUME NEW j \in Jobs, AfterJob(j) PROVE goal
      BY <3>1, <3>3, <3>9, <2>2 DEF AfterJob
    <3>10. ASSUME NEW j \in Jobs, Fill(j) PROVE UNCHANGED <<phase, failed>>
      BY <3>10 DEF Fill, AppendOrders, OrderByPriorityFee, RemoveReverted
    <3>11. SinkFails \/ UNCHANGED vars => UNCHANGED <<phase, failed>>
      BY DEF SinkFails, vars
    <3> QED BY <2>3, <3>2, <3>4, <3>5, <3>6, <3>7, <3>8, <3>9, <3>10, <3>11 DEF Next, Advance
  <2> QED BY <2>3, <2>4, <1>1, StepShape
<1> QED BY <1>3 DEF NumberInv, Most

\* The index of a flashblock of j is below the number of j's next one.
LEMMA IndexBelowNumber ==
  ASSUME TypeOK, PayloadInv, IndicesContiguous, NEW i \in DOMAIN feed
  PROVE  /\ feed[i].payload_id \in Jobs
         /\ feed[i].index \in Nat
         /\ NextNumber(feed[i].index) < Context(payload[feed[i].payload_id])
<1> DEFINE j == feed[i].payload_id
<1>1. j \in Jobs /\ feed[i].index \in Nat
  BY DEF TypeOK, IsFlashblock
<1>2. Context(payload[j]) \in Nat
  BY <1>1, FilledContext
<1>3. feed[i].index \in Indices(j)
  BY DEF Indices, Positions
<1>4. PICK n \in 1..Index(Context(payload[j])) : feed[i].index = Index(n)
  BY <1>1, <1>3 DEF IndicesContiguous
<1> QED BY <1>1, <1>2, <1>4 DEF Index, NextNumber

LEMMA NextIndices == IndInv /\ [Next]_vars => IndicesContiguous'
<1> SUFFICES ASSUME IndInv, [Next]_vars PROVE IndicesContiguous'
  OBVIOUS
<1>1. TypeOK /\ IsFeed /\ PayloadInv /\ IndicesContiguous
  BY DEF IndInv
<1>2. CASE feed' = feed /\ \A j \in Jobs : Filled(payload[j], payload'[j])
  <2>1. \A j \in Jobs : Context(payload'[j]) = Context(payload[j])
    BY <1>1, <1>2, FilledContext
  <2>2. \A j \in Jobs : Positions(j)' = Positions(j) /\ Indices(j)' = Indices(j)
    BY <1>2 DEF Positions, Indices
  <2> QED BY <2>1, <2>2, <1>1, <1>2 DEF IndicesContiguous
<1>3. ASSUME NEW j \in Jobs, PublishOk(j) PROVE IndicesContiguous'
  <2> DEFINE at == Len(feed) + 1
             n == Context(payload[j])
  <2>1. /\ \A i \in Jobs : i # j => payload'[i] = payload[i]
        /\ Context(payload'[j]) = n + 1
        /\ Len(feed) \in Nat /\ DOMAIN feed = 1..Len(feed) /\ DOMAIN feed' = 1..at
        /\ \A i \in DOMAIN feed : feed'[i] = feed[i]
        /\ feed'[at].payload_id = j /\ feed'[at].index = Index(n)
    BY <1>1, <1>3, PublishShape
  <2>2. n \in Nat \ {0}
    BY <1>1, FilledContext
  <2>3. DOMAIN feed' = DOMAIN feed \union {at} /\ at \notin DOMAIN feed
    BY <2>1
  <2>4. ASSUME NEW i \in Jobs, i # j
        PROVE  Positions(i)' = Positions(i) /\ Indices(i)' = Indices(i)
    <3>1. Positions(i)' = Positions(i)
      BY <2>1, <2>3, <2>4 DEF Positions
    <3>2. \A k \in Positions(i) : feed'[k] = feed[k]
      BY <2>1 DEF Positions
    <3> QED BY <3>1, <3>2 DEF Indices
  <2>5. Positions(j)' = Positions(j) \union {at}
    BY <2>1, <2>3 DEF Positions
  <2>6. \A k \in Positions(j) : k \in DOMAIN feed /\ feed'[k] = feed[k] /\ k < at
    BY <2>1 DEF Positions
  <2>7. Indices(j)' = Indices(j) \union {Index(n)}
    BY <2>1, <2>5, <2>6 DEF Indices
  <2>8. Indices(j)' = {Index(k) : k \in 1..Index(n + 1)}
    <3>1. 1..Index(n + 1) = (1..Index(n)) \union {n}
      BY <2>2 DEF Index
    <3>2. Indices(j) = {Index(k) : k \in 1..Index(n)}
      BY <1>1 DEF IndicesContiguous
    <3> HIDE DEF n
    <3> QED BY <3>1, <3>2, <2>7
  <2>9. \A i, k \in Positions(j)' : i < k => feed'[i].index < feed'[k].index
    <3>1. \A i \in Positions(j) : feed[i].index < Index(n) /\ feed[i].index \in Nat
      <4>1. \A i \in Positions(j) : i \in DOMAIN feed /\ feed[i].payload_id = j
        BY DEF Positions
      <4> QED BY <4>1, <1>1, <2>2, IndexBelowNumber DEF Index, NextNumber
    <3>2. \A i, k \in Positions(j) : i < k => feed[i].index < feed[k].index
      BY <1>1 DEF IndicesContiguous
    <3>3. TAKE i, k \in Positions(j)'
    <3>4. CASE k = at
      <4>1. i < k => i \in Positions(j) BY <3>4, <2>1, <2>5
      <4> QED BY <3>1, <3>4, <4>1, <2>1, <2>6
    <3>5. CASE k # at
      <4>1. k \in Positions(j) /\ k < at BY <3>5, <2>5, <2>6
      <4>2. i < k => i \in Positions(j)
        BY <4>1, <2>1, <2>5, <2>6
      <4> QED BY <3>2, <4>1, <4>2, <2>6
    <3> QED BY <3>4, <3>5
  <2> HIDE DEF n, at
  <2>10. ASSUME NEW i \in Jobs
         PROVE  /\ \A m, k \in Positions(i)' : m < k => feed'[m].index < feed'[k].index
                /\ Indices(i)' = {Index(k) : k \in 1..Index(Context(payload'[i]))}
    <3>1. CASE i = j BY <3>1, <2>1, <2>8, <2>9
    <3>2. CASE i # j
      <4>1. \A k \in Positions(i) : feed'[k] = feed[k]
        BY <2>1 DEF Positions
      <4> QED BY <3>2, <4>1, <2>1, <2>4, <1>1 DEF IndicesContiguous
    <3> QED BY <3>1, <3>2
  <2> QED BY <2>10 DEF IndicesContiguous
<1> QED BY <1>1, <1>2, <1>3, StepShape

\* What was published stays, because filling steps change nothing before the first
\* checkpoint of the current number and publication changes nothing at all.
LEMMA NextCommitted == IndInv /\ [Next]_vars => PublishedIsCommitted'
<1> SUFFICES ASSUME IndInv, [Next]_vars PROVE PublishedIsCommitted'
  OBVIOUS
<1>1. TypeOK /\ IsFeed /\ PayloadInv /\ IndicesContiguous /\ PublishedIsCommitted
  BY DEF IndInv
<1> DEFINE Committed(fb, p) ==
             \E a, b \in DOMAIN p : /\ IsSpan(p, NextNumber(fb.index), a, b)
                                   /\ fb.transactions = Transactions(SubSeq(p, a, b))
<1>2. /\ \A j \in Jobs : payload[j] \in Seq(Checkpoint)
      /\ \A i \in DOMAIN feed : Committed(feed[i], payload[feed[i].payload_id])
  BY <1>1 DEF TypeOK, PublishedIsCommitted
<1>3. CASE feed' = feed /\ \A j \in Jobs : Filled(payload[j], payload'[j])
  <2> SUFFICES ASSUME NEW i \in DOMAIN feed
               PROVE  Committed(feed[i], payload'[feed[i].payload_id])
    BY <1>3 DEF PublishedIsCommitted
  <2> DEFINE p == payload[feed[i].payload_id]
             q == payload'[feed[i].payload_id]
             n == NextNumber(feed[i].index)
  <2>1. feed[i].payload_id \in Jobs /\ n \in Nat /\ n < Context(p)
    BY <1>1, IndexBelowNumber DEF NextNumber
  <2>2. p \in Seq(Checkpoint) /\ q \in Seq(Checkpoint) /\ Context(q) = Context(p)
    BY <2>1, <1>2, <1>3 DEF Filled
  <2>3. PICK first : Fresh(p, first) /\ Fresh(q, first) /\ \A k \in 1..first : q[k] = p[k]
    BY <2>1, <1>3 DEF Filled
  <2>4. PICK a \in DOMAIN p, b \in DOMAIN p :
          IsSpan(p, n, a, b) /\ feed[i].transactions = Transactions(SubSeq(p, a, b))
    BY <1>2
  <2> HIDE DEF p, q, n
  <2>5. /\ first \in 1..Len(p) /\ first \in 1..Len(q)
        /\ DOMAIN p = 1..Len(p) /\ DOMAIN q = 1..Len(q) /\ Len(p) \in Nat /\ Len(q) \in Nat
    BY <2>2, <2>3, CheckpointType DEF Fresh
  <2>6. /\ first - 1 \in Nat /\ first - 1 <= Len(p) /\ first - 1 <= Len(q)
        /\ \A k \in 1..(first - 1) : q[k] = p[k]
    BY <2>3, <2>5
  <2>7. /\ \A k \in DOMAIN p : k > first - 1 => p[k].ctx # n
        /\ \A k \in DOMAIN q : k > first - 1 => q[k].ctx # n
    <3>1. /\ \A k \in DOMAIN p : ~(k < first) => p[k].ctx = Context(p)
          /\ \A k \in DOMAIN q : ~(k < first) => q[k].ctx = Context(q)
      BY <2>3 DEF Fresh
    <3>2. Context(p) # n
      BY <2>1, <2>2, <2>3, ContextType
    <3> QED BY <3>1, <3>2, <2>2, <2>5
  <2>8. a \in DOMAIN q /\ b \in DOMAIN q /\ IsSpan(q, n, a, b) /\ SubSeq(q, a, b) = SubSeq(p, a, b)
    <3>1. AgreeUpTo(p, q, first - 1, n) BY <2>6, <2>7 DEF AgreeUpTo
    <3> QED BY <3>1, <2>2, <2>4, SpanKept, SMTT(30)
  <2> QED BY <2>4, <2>8 DEF q, n
<1>4. ASSUME NEW j \in Jobs, PublishOk(j) PROVE PublishedIsCommitted'
  <2> DEFINE p == payload[j]
             q == payload'[j]
  <2>1. /\ \A i \in Jobs : i # j => payload'[i] = payload[i]
        /\ q = Barrier(p, NextNumber(Context(p)))
        /\ Len(feed) \in Nat /\ DOMAIN feed = 1..Len(feed) /\ DOMAIN feed' = 1..(Len(feed) + 1)
        /\ \A i \in DOMAIN feed : feed'[i] = feed[i]
        /\ feed'[Len(feed) + 1] = NewFlashblock(j)
        /\ NewFlashblock(j).payload_id = j
        /\ NewFlashblock(j).index = Index(Context(p))
    BY <1>1, <1>4, PublishShape
  <2>2. PICK first : Fresh(p, first)
    BY <1>1 DEF PayloadInv
  <2>3. p \in Seq(Checkpoint) /\ Context(p) \in Nat \ {0}
    BY <1>1, FilledContext
  <2>4. /\ q \in Seq(Checkpoint) /\ Len(q) = Len(p) + 1 /\ Context(q) = Context(p) + 1
        /\ \A k \in 1..Len(p) : q[k] = p[k]
    BY <2>1, <2>2, <2>3, BarrierStarts
  <2>5. ASSUME NEW n \in Nat, n <= Context(p), NEW a \in DOMAIN p, NEW b \in DOMAIN p, IsSpan(p, n, a, b)
        PROVE  a \in DOMAIN q /\ b \in DOMAIN q /\ IsSpan(q, n, a, b) /\ SubSeq(q, a, b) = SubSeq(p, a, b)
    <3> HIDE DEF p, q
    <3>1. Len(p) \in Nat /\ DOMAIN p = 1..Len(p) /\ DOMAIN q = 1..(Len(p) + 1)
      BY <2>3, <2>4, CheckpointType
    <3>2. \A k \in DOMAIN q : k > Len(p) => q[k].ctx # n
      <4>1. \A k \in DOMAIN q : k > Len(p) => k = Len(q) BY <3>1, <2>4
      <4>2. q[Len(q)].ctx # n BY <2>3, <2>4, <2>5 DEF Context, Last
      <4> QED BY <4>1, <4>2
    <3>3. \A k \in DOMAIN p : ~(k > Len(p)) BY <3>1
    <3>4. Len(p) <= Len(p) /\ Len(p) <= Len(q) BY <3>1, <2>4
    <3>5. AgreeUpTo(p, q, Len(p), n) BY <3>1, <3>2, <3>3, <3>4, <2>4 DEF AgreeUpTo
    <3>6. p \in Seq(Checkpoint) /\ q \in Seq(Checkpoint) BY <2>3, <2>4
    <3> QED BY <3>5, <3>6, <2>5, SpanKept, SMTT(30)
  <2>6. ASSUME NEW i \in DOMAIN feed PROVE Committed(feed'[i], payload'[feed'[i].payload_id])
    <3>1. feed'[i] = feed[i] BY <2>1
    <3>2. /\ feed[i].payload_id \in Jobs /\ feed[i].index \in Nat
          /\ NextNumber(feed[i].index) < Context(payload[feed[i].payload_id])
      BY <1>1, IndexBelowNumber
    <3>3. CASE feed[i].payload_id # j
      <4>1. payload'[feed[i].payload_id] = payload[feed[i].payload_id] BY <3>2, <3>3, <2>1
      <4>2. Committed(feed[i], payload[feed[i].payload_id]) BY <1>2
      <4> QED BY <3>1, <4>1, <4>2
    <3>4. CASE feed[i].payload_id = j
      <4>1. PICK a \in DOMAIN p, b \in DOMAIN p :
              /\ IsSpan(p, NextNumber(feed[i].index), a, b)
              /\ feed[i].transactions = Transactions(SubSeq(p, a, b))
        BY <3>4, <1>2
      <4>2. NextNumber(feed[i].index) \in Nat /\ NextNumber(feed[i].index) <= Context(p)
        BY <3>2, <3>4, <2>3 DEF NextNumber
      <4>3. /\ a \in DOMAIN q /\ b \in DOMAIN q /\ IsSpan(q, NextNumber(feed[i].index), a, b)
            /\ SubSeq(q, a, b) = SubSeq(p, a, b)
        BY <4>1, <4>2, <2>5
      <4> QED BY <3>1, <3>4, <4>1, <4>3
    <3> QED BY <3>3, <3>4
  <2>7. Committed(NewFlashblock(j), q)
    <3>1. /\ UnpublishedPayload(p) = SubSeq(p, first, Len(p))
          /\ first \in DOMAIN p /\ Len(p) \in DOMAIN p /\ IsSpan(p, Context(p), first, Len(p))
      BY <2>2, <2>3, UnpublishedSpan DEF Fresh
    <3>2. /\ first \in DOMAIN q /\ Len(p) \in DOMAIN q /\ IsSpan(q, Context(p), first, Len(p))
          /\ SubSeq(q, first, Len(p)) = SubSeq(p, first, Len(p))
      <4>1. Context(p) \in Nat /\ Context(p) <= Context(p) BY <2>3
      <4> QED BY <4>1, <3>1, <2>5
    <3>3. NextNumber(NewFlashblock(j).index) = Context(p)
      BY <2>1, <2>3 DEF NextNumber, Index
    <3>4. NewFlashblock(j).transactions = Transactions(UnpublishedPayload(p))
      BY DEF NewFlashblock
    <3> QED BY <3>1, <3>2, <3>3, <3>4
  <2> HIDE DEF Committed
  <2>8. ASSUME NEW i \in DOMAIN feed' PROVE Committed(feed'[i], payload'[feed'[i].payload_id])
    <3>1. i \in DOMAIN feed \/ i = Len(feed) + 1 BY <2>1
    <3> QED BY <3>1, <2>1, <2>6, <2>7
  <2> QED BY <2>8 DEF PublishedIsCommitted, Committed
<1> QED BY <1>1, <1>3, <1>4, StepShape

\* A base is with block_base, with one job that is sending it, or in one flashblock.
LEMMA NextHolder == IndInv /\ [Next]_vars => HolderInv' /\ BaseAtMostOnce'
<1> SUFFICES ASSUME IndInv, [Next]_vars PROVE HolderInv' /\ BaseAtMostOnce'
  OBVIOUS
<1>1. TypeOK /\ IsFeed /\ PayloadInv /\ HolderInv /\ BaseAtMostOnce
  BY DEF IndInv
<1>2. /\ phase \in [Jobs -> {"new", "fill", "publish", "send", "check", "ending", "done"}]
      /\ blockBase \in Jobs \union {NoBase} /\ taken \in [Jobs -> Jobs \union {NoBase}]
      /\ NoBase \notin Jobs
      /\ \A i \in DOMAIN feed : feed[i].base \in Jobs \union {NoBase}
  BY <1>1 DEF TypeOK, IsFlashblock, NoBase, Jobs
<1> USE DEF HolderInv, BaseAtMostOnce, GoTo
<1>3. CASE UNCHANGED <<blockBase, taken, feed>> /\ \A j \in Jobs : phase'[j] = "new" => phase[j] = "new"
  BY <1>1, <1>3
<1>4. ASSUME NEW j \in Jobs, BeforeJob(j) PROVE HolderInv' /\ BaseAtMostOnce'
  <2>1. /\ phase[j] = "new" /\ blockBase' = j /\ UNCHANGED <<taken, feed>>
        /\ phase'[j] = "fill" /\ \A k \in Jobs : k # j => phase'[k] = phase[k]
    BY <1>2, <1>4 DEF BeforeJob
  <2> QED BY <2>1, <1>1, <1>2
<1>5. ASSUME NEW j \in Jobs, TakeBase(j) PROVE HolderInv' /\ BaseAtMostOnce'
  <2>1. /\ phase[j] = "publish" /\ blockBase' = NoBase /\ feed' = feed
        /\ taken' \in [Jobs -> Jobs \union {NoBase}]
        /\ taken'[j] = blockBase /\ \A k \in Jobs : k # j => taken'[k] = taken[k]
        /\ \A k \in Jobs : phase'[k] = "new" => phase[k] = "new"
    BY <1>2, <1>5 DEF TakeBase
  <2> QED BY <2>1, <1>1, <1>2
<1>6. ASSUME NEW j \in Jobs, PublishOk(j) PROVE HolderInv' /\ BaseAtMostOnce'
  <2> DEFINE at == Len(feed) + 1
  <2>1. /\ blockBase' = blockBase
        /\ taken' \in [Jobs -> Jobs \union {NoBase}]
        /\ taken'[j] = NoBase /\ \A k \in Jobs : k # j => taken'[k] = taken[k]
        /\ \A k \in Jobs : phase'[k] = "new" => phase[k] = "new"
    BY <1>2, <1>6 DEF PublishOk
  <2>2. /\ Len(feed) \in Nat /\ DOMAIN feed = 1..Len(feed) /\ DOMAIN feed' = 1..at
        /\ \A i \in DOMAIN feed : feed'[i] = feed[i]
        /\ feed'[at].base = taken[j]
    BY <1>1, <1>6, PublishShape
  <2>3. DOMAIN feed' = DOMAIN feed \union {at} /\ at \notin DOMAIN feed
    BY <2>2
  <2> HIDE DEF at
  <2>4. \A i \in DOMAIN feed' : (i \in DOMAIN feed /\ feed'[i] = feed[i]) \/ (i = at /\ feed'[i].base = taken[j])
    BY <2>2, <2>3
  <2>5. BaseAtMostOnce'
    <3>1. taken[j] # NoBase =>
            /\ blockBase' # taken[j]
            /\ \A k \in Jobs : taken'[k] # taken[j]
            /\ \A i \in DOMAIN feed : feed[i].base # taken[j]
      BY <2>1, <1>1, <1>2
    <3>2. ASSUME NEW i \in DOMAIN feed', feed'[i].base # NoBase
          PROVE  /\ \A k \in DOMAIN feed' : feed'[k].base = feed'[i].base => k = i
                 /\ blockBase' # feed'[i].base
                 /\ \A k \in Jobs : taken'[k] # feed'[i].base
      <4>1. CASE i = at BY <4>1, <3>1, <3>2, <2>3, <2>4
      <4>2. CASE i \in DOMAIN feed
        <5>1. feed'[i] = feed[i] BY <4>2, <2>2
        <5>2. \A k \in Jobs : taken'[k] # feed'[i].base
          BY <5>1, <4>2, <3>2, <2>1, <1>1
        <5>3. \A k \in DOMAIN feed' : feed'[k].base = feed'[i].base => k = i
          BY <5>1, <4>2, <3>2, <2>4, <1>1
        <5> QED BY <5>1, <5>2, <5>3, <4>2, <3>2, <2>1, <1>1
      <4> QED BY <4>1, <4>2, <2>3
    <3> QED BY <3>2
  <2>6. HolderInv'
    <3>1. \A m \in Jobs : taken'[m] # NoBase => m # j /\ taken'[m] = taken[m]
      BY <2>1
    <3>2. ASSUME NEW m \in Jobs, phase'[m] = "new" PROVE \A i \in DOMAIN feed' : feed'[i].base # m
      BY <3>2, <2>1, <2>4, <1>1
    <3>3. ASSUME NEW m \in Jobs, phase'[m] = "new" PROVE blockBase' # m /\ \A k \in Jobs : taken'[k] # m
      BY <3>3, <2>1, <1>1, <1>2
    <3> QED BY <3>1, <3>2, <3>3, <2>1, <1>1, <1>2
  <2> QED BY <2>5, <2>6
<1>7. ASSUME NEW j \in Jobs, PublishErr(j) PROVE HolderInv' /\ BaseAtMostOnce'
  <2>1. /\ blockBase' = blockBase /\ feed' = feed
        /\ taken' \in [Jobs -> Jobs \union {NoBase}]
        /\ taken'[j] = NoBase /\ \A k \in Jobs : k # j => taken'[k] = taken[k]
        /\ \A k \in Jobs : phase'[k] = "new" => phase[k] = "new"
    BY <1>2, <1>7 DEF PublishErr
  <2> QED BY <2>1, <1>1, <1>2
<1>8. ASSUME NEW j \in Jobs, AfterJob(j) PROVE HolderInv' /\ BaseAtMostOnce'
  <2>1. /\ blockBase' = NoBase /\ UNCHANGED <<taken, feed>>
        /\ \A k \in Jobs : phase'[k] = "new" => phase[k] = "new"
    BY <1>2, <1>8 DEF AfterJob
  <2> QED BY <2>1, <1>1, <1>2
<1>9. ASSUME NEW j \in Jobs, Fill(j) \/ Fail(j) \/ BreakAfterDeadline(j) \/ BreakAfterMaxFlashblocks(j)
      PROVE  UNCHANGED <<blockBase, taken, feed>> /\ \A k \in Jobs : phase'[k] = "new" => phase[k] = "new"
  BY <1>2, <1>9 DEF Fill, AppendOrders, OrderByPriorityFee, RemoveReverted, Fail, StepFails, BuildError,
                    BreakAfterDeadline, BreakAfterMaxFlashblocks
<1>10. SinkFails \/ UNCHANGED vars => UNCHANGED <<phase, blockBase, taken, feed>>
  BY DEF SinkFails, vars
<1> QED BY <1>3, <1>4, <1>5, <1>6, <1>7, <1>8, <1>9, <1>10 DEF Next, Advance

\* A job that runs alone keeps its base until its first flashblock takes it.
LEMMA NextAlone == IndInv /\ [Next]_vars => AloneInv'
<1> SUFFICES ASSUME IndInv, [Next]_vars PROVE AloneInv'
  OBVIOUS
<1>1. TypeOK /\ IsFeed /\ PayloadInv /\ AloneInv
  BY DEF IndInv
<1>2. /\ phase \in [Jobs -> {"new", "fill", "publish", "send", "check", "ending", "done"}]
      /\ blockBase \in Jobs \union {NoBase} /\ taken \in [Jobs -> Jobs \union {NoBase}]
      /\ alone \in [Jobs -> BOOLEAN]
      /\ \A i \in Jobs : Context(payload[i]) \in Nat \ {0}
  BY <1>1, FilledContext DEF TypeOK
<1> USE DEF GoTo
<1>3. ASSUME NEW j \in Jobs, PublishOk(j) PROVE AloneInv'
  <2>1. /\ phase[j] = "send" /\ phase'[j] = "check" /\ alone' = alone /\ blockBase' = blockBase
        /\ \A k \in Jobs : k # j => phase'[k] = phase[k] /\ taken'[k] = taken[k]
        /\ sinkUp
    BY <1>2, <1>3 DEF PublishOk
  <2>2. InFlight' = InFlight /\ j \in InFlight
    BY <2>1 DEF InFlight
  <2>3. Context(payload'[j]) = Context(payload[j]) + 1
    BY <1>1, <1>3, PublishShape
  <2>4. 2 <= Context(payload'[j])
    BY <2>3, <1>2
  <2> QED BY <2>1, <2>2, <2>4, <1>1 DEF AloneInv
<1>4. CASE \A i \in Jobs : Filled(payload[i], payload'[i])
  <2>1. \A i \in Jobs : Context(payload'[i]) = Context(payload[i])
    BY <1>1, <1>4, FilledContext
  <2>2. \A i \in Jobs : OwnBase(i)' = OwnBase(i)
    BY <2>1 DEF OwnBase
  <2>3. ASSUME NEW j \in Jobs, BeforeJob(j) PROVE AloneInv'
    <3>1. /\ phase[j] = "new" /\ phase'[j] = "fill" /\ blockBase' = j
          /\ \A k \in Jobs : k # j => phase'[k] = phase[k]
          /\ \A i \in Jobs : alone'[i] = IF i = j THEN InFlight = {} ELSE alone[i] /\ i \notin InFlight
      BY <1>2, <2>3 DEF BeforeJob
    <3>2. InFlight' = InFlight \union {j}
      BY <3>1 DEF InFlight
    <3>3. ASSUME NEW i \in Jobs, alone'[i], i \in InFlight' PROVE i = j /\ InFlight = {}
      BY <3>1, <3>2, <3>3
    <3>4. Context(payload[j]) = 1
      BY <3>1, <1>2 DEF IndInv, StartInv
    <3>5. OwnBase(j)' = j
      BY <3>4, <2>2 DEF OwnBase
    <3> QED BY <3>1, <3>2, <3>3, <3>5 DEF AloneInv
  <2>4. ASSUME NEW j \in Jobs, TakeBase(j) PROVE AloneInv'
    <3>1. /\ phase[j] = "publish" /\ phase'[j] = "send" /\ blockBase' = NoBase /\ taken'[j] = blockBase
          /\ \A k \in Jobs : k # j => phase'[k] = phase[k] /\ taken'[k] = taken[k]
          /\ UNCHANGED <<alone, sinkUp>>
      BY <1>2, <2>4 DEF TakeBase
    <3>2. InFlight' = InFlight /\ j \in InFlight
      BY <3>1 DEF InFlight
    <3> QED BY <3>1, <3>2, <2>2, <1>1 DEF AloneInv
  <2>5. ASSUME NEW j \in Jobs, PublishErr(j) PROVE AloneInv'
    <3>1. /\ phase[j] = "send" /\ phase'[j] = "check" /\ ~sinkUp
          /\ \A k \in Jobs : k # j => phase'[k] = phase[k]
          /\ UNCHANGED <<alone, sinkUp>>
      BY <1>2, <2>5 DEF PublishErr
    <3>2. InFlight' = InFlight
      BY <3>1 DEF InFlight
    <3> QED BY <3>1, <3>2, <1>1 DEF AloneInv
  <2>6. ASSUME NEW j \in Jobs, AfterJob(j) PROVE AloneInv'
    <3>1. /\ phase[j] = "ending" /\ phase'[j] = "done"
          /\ \A k \in Jobs : k # j => phase'[k] = phase[k]
          /\ UNCHANGED <<alone, sinkUp>>
      BY <1>2, <2>6 DEF AfterJob
    <3>2. InFlight' = InFlight \ {j} /\ j \in InFlight
      BY <3>1 DEF InFlight
    <3>3. ASSUME NEW i \in Jobs, alone[i], i \in InFlight' PROVE FALSE
      BY <3>2, <3>3, <1>1 DEF AloneInv
    <3> QED BY <3>1, <3>3 DEF AloneInv
  <2>7. ASSUME NEW j \in Jobs, BreakAfterMaxFlashblocks(j) PROVE AloneInv'
    <3>1. /\ phase[j] = "check" /\ phase'[j] \in {"fill", "ending"}
          /\ \A k \in Jobs : k # j => phase'[k] = phase[k]
          /\ UNCHANGED <<alone, sinkUp, blockBase, taken>>
      BY <1>2, <2>7 DEF BreakAfterMaxFlashblocks
    <3>2. InFlight' = InFlight /\ j \in InFlight
      BY <3>1 DEF InFlight
    <3>3. 2 <= Context(payload[j]) => OwnBase(j)' = NoBase
      BY <2>2, <1>2 DEF OwnBase
    <3> QED BY <3>1, <3>2, <3>3, <2>1, <2>2, <1>1 DEF AloneInv
  <2>8. ASSUME NEW j \in Jobs, Fail(j) PROVE AloneInv'
    <3>1. /\ phase[j] \in {"fill", "publish"} /\ phase'[j] = "ending"
          /\ \A k \in Jobs : k # j => phase'[k] = phase[k]
          /\ UNCHANGED <<alone, sinkUp, blockBase, taken>>
      BY <1>2, <2>8 DEF Fail, StepFails, BuildError
    <3>2. InFlight' = InFlight
      BY <3>1 DEF InFlight
    <3> QED BY <3>1, <3>2, <2>1, <2>2, <1>1 DEF AloneInv
  <2>9. ASSUME NEW j \in Jobs, BreakAfterDeadline(j) PROVE AloneInv'
    <3>1. /\ phase[j] = "fill" /\ phase'[j] = "publish"
          /\ \A k \in Jobs : k # j => phase'[k] = phase[k]
          /\ UNCHANGED <<alone, sinkUp, blockBase, taken>>
      BY <1>2, <2>9 DEF BreakAfterDeadline
    <3>2. InFlight' = InFlight
      BY <3>1 DEF InFlight
    <3> QED BY <3>1, <3>2, <2>1, <2>2, <1>1 DEF AloneInv
  <2>10. ASSUME UNCHANGED <<phase, alone, blockBase, taken>>, sinkUp' => sinkUp PROVE AloneInv'
    <3>1. InFlight' = InFlight
      BY <2>10 DEF InFlight
    <3> QED BY <2>10, <3>1, <2>1, <2>2, <1>1 DEF AloneInv
  <2>11. ASSUME NEW j \in Jobs, Fill(j)
         PROVE  UNCHANGED <<phase, alone, blockBase, taken>> /\ (sinkUp' => sinkUp)
    BY <2>11 DEF Fill, AppendOrders, OrderByPriorityFee, RemoveReverted
  <2>12. SinkFails \/ UNCHANGED vars => UNCHANGED <<phase, alone, blockBase, taken>> /\ (sinkUp' => sinkUp)
    BY DEF SinkFails, vars
  <2> QED
    BY <1>3, <2>3, <2>4, <2>5, <2>6, <2>7, <2>8, <2>9, <2>10, <2>11, <2>12 DEF Next, Advance
<1> QED BY <1>1, <1>3, <1>4, StepShape

LEMMA NextStart == IndInv /\ [Next]_vars => StartInv'
<1> SUFFICES ASSUME IndInv, [Next]_vars PROVE StartInv'
  OBVIOUS
<1>1. TypeOK /\ IsFeed /\ PayloadInv /\ StartInv
  BY DEF IndInv
<1>2. phase \in [Jobs -> {"new", "fill", "publish", "send", "check", "ending", "done"}]
  BY <1>1 DEF TypeOK
<1> USE DEF GoTo
<1>3. \A k \in Jobs : phase'[k] = "new" => phase[k] = "new"
  BY <1>2 DEF Next, Fill, AppendOrders, OrderByPriorityFee, RemoveReverted, Fail, StepFails, BuildError,
              Advance, BreakAfterDeadline, TakeBase, PublishOk, PublishErr, BreakAfterMaxFlashblocks,
              AfterJob, BeforeJob, SinkFails, vars
<1>4. ASSUME NEW j \in Jobs, PublishOk(j) PROVE StartInv'
  <2>1. phase'[j] # "new" /\ \A i \in Jobs : i # j => payload'[i] = payload[i]
    BY <1>1, <1>2, <1>4, PublishShape DEF PublishOk
  <2> QED BY <2>1, <1>1, <1>3 DEF StartInv
<1>5. CASE \A i \in Jobs : Filled(payload[i], payload'[i])
  BY <1>1, <1>3, <1>5, FilledContext DEF StartInv
<1> QED BY <1>1, <1>4, <1>5, StepShape

\* A first flashblock carries the base of its job when the job ran alone.
LEMMA NextBase == IndInv /\ [Next]_vars => BaseOnFirst'
<1> SUFFICES ASSUME IndInv, [Next]_vars PROVE BaseOnFirst'
  OBVIOUS
<1>1. /\ TypeOK /\ IsFeed /\ PayloadInv /\ AloneInv /\ IndicesContiguous /\ BaseOnFirst /\ HolderInv
      /\ OwnBaseInv
  BY DEF IndInv
<1>2. /\ phase \in [Jobs -> {"new", "fill", "publish", "send", "check", "ending", "done"}]
      /\ alone \in [Jobs -> BOOLEAN]
      /\ \A i \in DOMAIN feed : feed[i].payload_id \in Jobs
  BY <1>1 DEF TypeOK, IsFlashblock
<1>3. CASE UNCHANGED <<alone, feed>>
  BY <1>1, <1>3 DEF BaseOnFirst
<1>4. ASSUME NEW j \in Jobs, BeforeJob(j) PROVE BaseOnFirst'
  <2>1. /\ phase[j] = "new" /\ feed' = feed
        /\ \A i \in Jobs : i # j => (alone'[i] => alone[i])
    BY <1>2, <1>4 DEF BeforeJob
  <2>2. Context(payload[j]) = 1
    BY <2>1 DEF IndInv, StartInv
  <2>3. \A i \in DOMAIN feed : feed[i].payload_id # j
    BY <2>2, <1>1, IndexBelowNumber DEF NextNumber
  <2> QED BY <2>1, <2>3, <1>1, <1>2 DEF BaseOnFirst
<1>5. ASSUME NEW j \in Jobs, PublishOk(j) PROVE BaseOnFirst'
  <2>1. phase[j] = "send" /\ sinkUp /\ alone' = alone
    BY <1>5 DEF PublishOk
  <2>2. /\ Len(feed) \in Nat /\ DOMAIN feed = 1..Len(feed) /\ DOMAIN feed' = 1..(Len(feed) + 1)
        /\ \A i \in DOMAIN feed : feed'[i] = feed[i]
        /\ feed'[Len(feed) + 1] = NewFlashblock(j)
        /\ NewFlashblock(j).payload_id = j
        /\ NewFlashblock(j).index = Index(Context(payload[j]))
        /\ NewFlashblock(j).base = taken[j]
    BY <1>1, <1>5, PublishShape
  <2>3. alone[j] => taken[j] = OwnBase(j)
    BY <2>1, <1>1 DEF AloneInv, InFlight
  <2>4. Context(payload[j]) \in Nat \ {0}
    BY <1>1, FilledContext
  <2>5. alone[j] => taken[j] = IF Index(Context(payload[j])) = 0 THEN j ELSE NoBase
    BY <2>3, <2>4 DEF OwnBase, Index
  <2>6. \A i \in DOMAIN feed' : i \in DOMAIN feed \/ i = Len(feed) + 1
    BY <2>2
  <2>7. taken[j] = j => Index(Context(payload[j])) = 0
    BY <1>1 DEF OwnBaseInv, Index
  <2> QED BY <2>1, <2>2, <2>5, <2>6, <2>7, <1>1 DEF BaseOnFirst
<1>6. ASSUME NEW j \in Jobs, Fill(j) \/ Fail(j) \/ (Advance(j) /\ ~PublishOk(j))
      PROVE  UNCHANGED <<alone, feed>>
  BY <1>6 DEF Fill, AppendOrders, OrderByPriorityFee, RemoveReverted, Fail, StepFails, BuildError, Advance,
              BreakAfterDeadline, TakeBase, PublishErr, BreakAfterMaxFlashblocks, AfterJob
<1>7. SinkFails \/ UNCHANGED vars => UNCHANGED <<alone, feed>>
  BY DEF SinkFails, vars
<1> QED BY <1>3, <1>4, <1>5, <1>6, <1>7 DEF Next

\* The base of a job leaves block_base with the job's first attempt to publish.
LEMMA NextOwnBase == IndInv /\ [Next]_vars => OwnBaseInv'
<1> SUFFICES ASSUME IndInv, [Next]_vars PROVE OwnBaseInv'
  OBVIOUS
<1>1. TypeOK /\ IsFeed /\ PayloadInv /\ StartInv /\ OwnBaseInv
  BY DEF IndInv
<1>2. /\ phase \in [Jobs -> {"new", "fill", "publish", "send", "check", "ending", "done"}]
      /\ taken \in [Jobs -> Jobs \union {NoBase}]
      /\ \A i \in Jobs : i # NoBase
  BY <1>1 DEF TypeOK, Jobs, NoBase
<1> USE DEF GoTo
<1>3. ASSUME NEW j \in Jobs, PublishOk(j) PROVE OwnBaseInv'
  <2>1. /\ phase[j] = "send" /\ blockBase' = blockBase /\ taken'[j] = NoBase
        /\ \A k \in Jobs : k # j => phase'[k] = phase[k] /\ taken'[k] = taken[k]
    BY <1>2, <1>3 DEF PublishOk
  <2>2. \A k \in Jobs : k # j => payload'[k] = payload[k]
    BY <1>1, <1>3, PublishShape
  <2> QED BY <2>1, <2>2, <1>1, <1>2 DEF OwnBaseInv
<1>4. CASE \A i \in Jobs : Filled(payload[i], payload'[i])
  <2>1. \A i \in Jobs : Context(payload'[i]) = Context(payload[i])
    BY <1>1, <1>4, FilledContext
  <2>2. ASSUME NEW j \in Jobs, BeforeJob(j) PROVE OwnBaseInv'
    <3>1. phase[j] = "new" /\ phase'[j] = "fill" /\ blockBase' = j /\ taken' = taken
      BY <1>2, <2>2 DEF BeforeJob
    <3>2. Context(payload[j]) = 1
      BY <3>1, <1>1 DEF StartInv
    <3> QED BY <3>1, <3>2, <2>1, <1>1 DEF OwnBaseInv
  <2>3. ASSUME NEW j \in Jobs, TakeBase(j) PROVE OwnBaseInv'
    <3>1. /\ blockBase' = NoBase /\ taken'[j] = blockBase
          /\ \A k \in Jobs : k # j => taken'[k] = taken[k]
      BY <1>2, <2>3 DEF TakeBase
    <3> QED BY <3>1, <2>1, <1>1, <1>2 DEF OwnBaseInv
  <2>4. ASSUME NEW j \in Jobs, PublishErr(j) PROVE OwnBaseInv'
    <3>1. /\ phase[j] = "send" /\ blockBase' = blockBase /\ taken'[j] = NoBase
          /\ \A k \in Jobs : k # j => phase'[k] = phase[k] /\ taken'[k] = taken[k]
      BY <1>2, <2>4 DEF PublishErr
    <3> QED BY <3>1, <2>1, <1>1, <1>2 DEF OwnBaseInv
  <2>5. ASSUME NEW j \in Jobs, AfterJob(j) PROVE OwnBaseInv'
    <3>1. blockBase' = NoBase /\ taken' = taken
      BY <2>5 DEF AfterJob
    <3> QED BY <3>1, <2>1, <1>1, <1>2 DEF OwnBaseInv
  <2>6. ASSUME NEW j \in Jobs, Fill(j) \/ Fail(j) \/ BreakAfterDeadline(j) \/ BreakAfterMaxFlashblocks(j)
        PROVE  OwnBaseInv'
    <3>1. /\ blockBase' = blockBase /\ taken' = taken
          /\ \A k \in Jobs : k # j => phase'[k] = phase[k]
          /\ phase[j] = "check" \/ phase'[j] \in {"fill", "publish", "ending"}
      BY <1>2, <2>6 DEF Fill, AppendOrders, OrderByPriorityFee, RemoveReverted, Fail, StepFails, BuildError,
                        BreakAfterDeadline, BreakAfterMaxFlashblocks
    <3> QED BY <3>1, <2>1, <1>1 DEF OwnBaseInv
  <2>7. ASSUME UNCHANGED <<phase, blockBase, taken>> PROVE OwnBaseInv'
    BY <2>7, <2>1, <1>1 DEF OwnBaseInv
  <2>8. SinkFails \/ UNCHANGED vars => UNCHANGED <<phase, blockBase, taken>>
    BY DEF SinkFails, vars
  <2> QED BY <1>3, <2>2, <2>3, <2>4, <2>5, <2>6, <2>7, <2>8 DEF Next, Advance
<1> QED BY <1>1, <1>3, <1>4, StepShape

\* A payload has one first checkpoint of its number.
LEMMA FreshUnique ==
  ASSUME NEW p \in Seq(Checkpoint), NEW a, Fresh(p, a), NEW b, Fresh(p, b)
  PROVE  a = b
<1>1. /\ DOMAIN p = 1..Len(p) /\ Len(p) \in Nat
      /\ \A k \in DOMAIN p : p[k].ctx \in Nat
  BY CheckpointType
<1>2. a \in 1..Len(p) /\ b \in 1..Len(p) /\ Context(p) \in Nat
  BY <1>1 DEF Fresh, Context, Last
<1>3. ~(a < b) /\ ~(b < a)
  BY <1>1, <1>2 DEF Fresh
<1> QED BY <1>2, <1>3

\* A new flashblock brings what its payload had not published.
LEMMA NextBlock == IndInv /\ [Next]_vars => BlockInv'
<1> SUFFICES ASSUME IndInv, [Next]_vars PROVE BlockInv'
  OBVIOUS
<1>1. TypeOK /\ IsFeed /\ PayloadInv /\ BlockInv
  BY DEF IndInv
<1>2. \A i \in Jobs : payload[i] \in Seq(Checkpoint)
  BY <1>1 DEF TypeOK
<1>3. CASE feed' = feed /\ \A j \in Jobs : Filled(payload[j], payload'[j])
  <2>1. ASSUME NEW j \in Jobs
        PROVE  \E a : /\ Fresh(payload'[j], a)
                      /\ Assembled(feed, j) = Transactions(SubSeq(payload'[j], 1, a - 1))
    <3> DEFINE p == payload[j]
               q == payload'[j]
    <3>1. p \in Seq(Checkpoint) /\ q \in Seq(Checkpoint)
      BY <1>2, <1>3 DEF Filled
    <3>2. PICK a : Fresh(p, a) /\ Fresh(q, a) /\ \A k \in 1..a : q[k] = p[k]
      BY <1>3 DEF Filled
    <3>3. PICK b : Fresh(p, b) /\ Assembled(feed, j) = Transactions(SubSeq(p, 1, b - 1))
      BY <1>1 DEF BlockInv
    <3> HIDE DEF p, q
    <3>4. b = a
      BY <3>1, <3>2, <3>3, FreshUnique
    <3>5. a - 1 \in Nat /\ a - 1 <= Len(p) /\ a - 1 <= Len(q) /\ \A k \in 1..(a - 1) : k \in 1..a
      BY <3>1, <3>2, CheckpointType DEF Fresh
    <3>6. SubSeq(q, 1, a - 1) = SubSeq(p, 1, a - 1)
      BY <3>1, <3>2, <3>5, SameBeginning
    <3> QED BY <3>2, <3>3, <3>4, <3>6 DEF q
  <2> QED BY <2>1, <1>1, <1>3 DEF BlockInv
<1>4. ASSUME NEW j \in Jobs, PublishOk(j) PROVE BlockInv'
  <2> DEFINE p == payload[j]
             q == payload'[j]
             fb == NewFlashblock(j)
  <2>1. feed' = Append(feed, fb)
    BY <1>4 DEF PublishOk
  <2>2. /\ \A i \in Jobs : i # j => payload'[i] = payload[i]
        /\ q = Barrier(p, NextNumber(Context(p)))
        /\ fb.payload_id = j
    BY <1>1, <1>4, PublishShape
  <2>3. fb.transactions = Transactions(UnpublishedPayload(p))
    BY DEF NewFlashblock
  <2>4. PICK a : Fresh(p, a) /\ Assembled(feed, j) = Transactions(SubSeq(p, 1, a - 1))
    BY <1>1 DEF BlockInv
  <2>5. p \in Seq(Checkpoint)
    BY <1>2
  <2> HIDE DEF p, fb
  <2>6. q \in Seq(Checkpoint) /\ Len(q) = Len(p) + 1 /\ Fresh(q, Len(p) + 1) /\ \A k \in 1..Len(p) : q[k] = p[k]
    BY <2>2, <2>4, <2>5, BarrierStarts
  <2> HIDE DEF q
  <2>7. Len(p) \in Nat /\ a \in 1..Len(p)
    BY <2>4, <2>5, CheckpointType DEF Fresh
  <2>8. UnpublishedPayload(p) = SubSeq(p, a, Len(p))
    BY <2>4, <2>5, UnpublishedSpan
  <2>9. Transactions(p) = Transactions(SubSeq(p, 1, a - 1)) \o Transactions(SubSeq(p, a, Len(p)))
    <3>1. a - 1 \in 0..Len(p) /\ (a - 1) + 1 = a BY <2>7
    <3> QED BY <2>5, <3>1, TransactionsSplit
  <2>10. fb.transactions \in Seq(TxSet)
    <3>1. SubSeq(p, a, Len(p)) \in Seq(Checkpoint)
      <4>1. a \in Nat \ {0} /\ Len(p) <= Len(p) BY <2>7
      <4> QED BY <4>1, <2>5, <2>7, SubPayload
    <3> QED BY <3>1, <2>3, <2>8, ShownType
  <2>11. /\ AreFlashblocks(feed')
         /\ \A i : Assembled(feed', i) = Assembled(feed, i) \o TransactionsFor(fb, i)
    <3>1. AreFlashblocks(feed) BY <1>1 DEF BlockInv
    <3>2. /\ AreFlashblocks(Append(feed, fb))
          /\ \A i : Assembled(Append(feed, fb), i) = Assembled(feed, i) \o TransactionsFor(fb, i)
      BY <3>1, <2>10, AssembledAppend
    <3> QED BY <3>2, <2>1
  <2>12. Assembled(feed', j) = Transactions(p)
    BY <2>2, <2>3, <2>4, <2>8, <2>9, <2>11 DEF TransactionsFor
  <2>13. SubSeq(q, 1, Len(p)) = p
    <3>1. Len(p) <= Len(p) /\ Len(p) <= Len(q) BY <2>6, <2>7
    <3>2. SubSeq(q, 1, Len(p)) = SubSeq(p, 1, Len(p))
      BY <3>1, <2>5, <2>6, <2>7, SameBeginning
    <3> QED BY <3>2, <2>5, SubSeqFull
  <2>14. (Len(p) + 1) - 1 = Len(p)
    BY <2>7
  <2>15. ASSUME NEW i \in Jobs, i # j
         PROVE  Assembled(feed', i) = Assembled(feed, i)
    <3>1. TransactionsFor(fb, i) = <<>> BY <2>2, <2>15 DEF TransactionsFor
    <3>2. Assembled(feed, i) \in Seq(TxSet) BY <1>1, BroughtType DEF BlockInv
    <3> QED BY <3>1, <3>2, <2>11, ConcatEmptySeq
  <2>16. ASSUME NEW i \in Jobs
         PROVE  \E b : /\ Fresh(payload'[i], b)
                       /\ Assembled(feed', i) = Transactions(SubSeq(payload'[i], 1, b - 1))
    <3>1. CASE i = j BY <3>1, <2>6, <2>12, <2>13, <2>14 DEF q
    <3>2. CASE i # j BY <3>2, <2>2, <2>15, <1>1 DEF BlockInv
    <3> QED BY <3>1, <3>2
  <2> QED BY <2>11, <2>16 DEF BlockInv
<1> QED BY <1>1, <1>3, <1>4, StepShape

\* Nothing is added to a payload between its last flashblock and the end of its job.
LEMMA NextEnd == IndInv /\ [Next]_vars => EndInv'
<1> SUFFICES ASSUME IndInv, [Next]_vars PROVE EndInv'
  OBVIOUS
<1>1. TypeOK /\ IsFeed /\ PayloadInv /\ EndInv
  BY DEF IndInv
<1>2. /\ phase \in [Jobs -> {"new", "fill", "publish", "send", "check", "ending", "done"}]
      /\ payload \in [Jobs -> Seq(Checkpoint)]
      /\ failed \in [Jobs -> BOOLEAN]
  BY <1>1 DEF TypeOK
<1> DEFINE Over == {"check", "ending", "done"}
           Stays(i) == phase'[i] \in Over /\ ~failed'[i] =>
                         phase[i] \in Over /\ ~failed[i] /\ payload'[i] = payload[i]
<1> USE DEF GoTo
<1>3. ASSUME NEW j \in Jobs, PublishOk(j) PROVE EndInv'
  <2>1. \A i \in Jobs : i # j => payload'[i] = payload[i] /\ phase'[i] = phase[i] /\ failed'[i] = failed[i]
    BY <1>1, <1>2, <1>3, PublishShape DEF PublishOk
  <2>2. payload'[j] = Barrier(payload[j], NextNumber(Context(payload[j])))
    BY <1>1, <1>3, PublishShape
  <2>3. IsPublished(payload'[j])
    <3> DEFINE p == payload[j]
               q == Barrier(p, NextNumber(Context(p)))
               cp == [tx |-> "barrier", ctx |-> NextNumber(Context(p))]
    <3>1. PICK a : Fresh(p, a) BY <1>1 DEF PayloadInv
    <3>2. p \in Seq(Checkpoint) BY <1>2
    <3>3. Len(q) = Len(p) + 1 /\ Fresh(q, Len(p) + 1)
      BY <3>1, <3>2, BarrierStarts
    <3>4. q[Len(p) + 1] = cp
      <4>1. p \in Seq(Checkpoint \union {cp}) BY <3>2, SeqMonotonic
      <4>2. Append(p, cp)[Len(p) + 1] = cp BY <4>1, AppendProperties
      <4> QED BY <4>2 DEF Barrier
    <3> QED BY <3>3, <3>4, <2>2 DEF IsPublished
  <2> QED BY <2>1, <2>3, <1>1 DEF EndInv
<1>4. ASSUME \A i \in Jobs : Stays(i) PROVE EndInv'
  BY <1>1, <1>4 DEF EndInv
<1>5. ASSUME NEW j \in Jobs, Fill(j) \/ BreakAfterDeadline(j) PROVE \A i \in Jobs : Stays(i)
  <2>1. /\ phase'[j] \notin Over /\ failed' = failed
        /\ \A i \in Jobs : i # j => phase'[i] = phase[i] /\ payload'[i] = payload[i]
    BY <1>2, <1>5 DEF Fill, AppendOrders, OrderByPriorityFee, RemoveReverted, BreakAfterDeadline
  <2> QED BY <2>1
<1>6. ASSUME NEW j \in Jobs,
             BeforeJob(j) \/ Fail(j) \/ TakeBase(j) \/ PublishErr(j) \/ BreakAfterMaxFlashblocks(j) \/ AfterJob(j)
      PROVE  \A i \in Jobs : Stays(i)
  <2>1. /\ payload' = payload
        /\ \A i \in Jobs : i # j => phase'[i] = phase[i] /\ failed'[i] = failed[i]
        /\ phase'[j] \in Over /\ ~failed'[j] => phase[j] \in Over /\ ~failed[j]
    BY <1>2, <1>6 DEF BeforeJob, Fail, StepFails, BuildError, TakeBase, PublishErr, BreakAfterMaxFlashblocks,
                      AfterJob
  <2> QED BY <2>1
<1>7. SinkFails \/ UNCHANGED vars => UNCHANGED <<phase, payload, failed>>
  BY DEF SinkFails, vars
<1>8. UNCHANGED <<phase, payload, failed>> => \A i \in Jobs : Stays(i)
  OBVIOUS
<1> HIDE DEF Stays
<1> QED BY <1>3, <1>4, <1>5, <1>6, <1>7, <1>8 DEF Next, Advance

LEMMA Invariant == Spec => []IndInv
<1>1. IndInv /\ [Next]_vars => IndInv'
  BY NextType, NextNumberInv, NextStart, NextHolder, NextAlone, NextOwnBase, NextBlock, NextEnd,
     NextIndices, NextBase, NextCommitted DEF IndInv
<1> QED BY InitInv, <1>1, PTL DEF Spec

----------------------------------------------------------------------------
(* The theorems. *)

\* The variables of jobs, payloads and feed keep their types.
THEOREM TypeCorrect == Spec => []TypeOK
<1>1. IndInv => TypeOK BY DEF IndInv
<1> QED BY Invariant, <1>1, PTL

\* No index of a payload is skipped or sent twice, whatever fails or overlaps.
THEOREM IndicesHold == Spec => []IndicesContiguous
<1>1. IndInv => IndicesContiguous BY DEF IndInv
<1> QED BY Invariant, <1>1, PTL

\* block_base, taken before publishing can fail, is on the first flashblock of a job
\* that no other overlapped, and on that one only.
THEOREM BaseHolds == Spec => []BaseOnFirst
<1>1. IndInv => BaseOnFirst BY DEF IndInv
<1> QED BY Invariant, <1>1, PTL

\* However many jobs share block_base, each base is published at most once.
THEOREM BaseOnceHolds == Spec => []BaseAtMostOnce
<1>1. IndInv => BaseAtMostOnce BY DEF IndInv
<1> QED BY Invariant, <1>1, PTL

\* Published transactions stay in the payload, in their order, under their number.
THEOREM CommittedHolds == Spec => []PublishedIsCommitted
<1>1. IndInv => PublishedIsCommitted BY DEF IndInv
<1> QED BY Invariant, <1>1, PTL

\* A job publishes the target number of flashblocks, never more.
THEOREM TargetHolds == Spec => []TargetReached
<1>1. IndInv => TargetReached
  <2> SUFFICES ASSUME IndInv PROVE TargetReached
    OBVIOUS
  <2>1. TypeOK /\ PayloadInv /\ NumberInv /\ IndicesContiguous
    BY DEF IndInv
  <2>2. Most \in Nat /\ 1 <= Most /\ Most = IF Target = 0 THEN 1 ELSE Target
    BY JobsAssumption DEF Most
  <2> HIDE DEF Most
  <2>3. ASSUME NEW j \in Jobs
        PROVE  /\ Indices(j) \subseteq 0..(Most - 1)
               /\ phase[j] = "done" /\ ~failed[j] => Indices(j) = 0..(Most - 1)
    <3> DEFINE n == Context(payload[j])
    <3>1. n \in Nat \ {0}
      BY <2>1, FilledContext
    <3>2. Indices(j) = {Index(k) : k \in 1..Index(n)}
      BY <2>1 DEF IndicesContiguous
    <3>3. n <= Most + 1 /\ (phase[j] = "done" /\ ~failed[j] => n = Most + 1)
      BY <2>1 DEF NumberInv
    <3> HIDE DEF n
    <3>4. Indices(j) \subseteq 0..(Most - 1)
      BY <3>1, <3>2, <3>3, <2>2 DEF Index
    <3>5. ASSUME n = Most + 1 PROVE 0..(Most - 1) \subseteq Indices(j)
      <4>1. \A k \in 0..(Most - 1) : k + 1 \in 1..Index(n) /\ Index(k + 1) = k
        BY <3>5, <2>2 DEF Index
      <4> QED BY <4>1, <3>2
    <3> QED BY <3>3, <3>4, <3>5
  <2> QED BY <2>2, <2>3 DEF TargetReached
<1> QED BY Invariant, <1>1, PTL

\* What follows in a payload what has been published of it.
LEMMA BlockSplit ==
  ASSUME TypeOK, BlockInv, NEW j \in Jobs
  PROVE  /\ Assembled(feed, j) \in Seq(TxSet)
         /\ Extends(Transactions(payload[j]), Assembled(feed, j))
<1> DEFINE p == payload[j]
<1>1. p \in Seq(Checkpoint)
  BY DEF TypeOK
<1>2. PICK a : Fresh(p, a) /\ Assembled(feed, j) = Transactions(SubSeq(p, 1, a - 1))
  BY DEF BlockInv
<1> HIDE DEF p
<1>3. Len(p) \in Nat /\ a \in 1..Len(p) /\ a \in Nat \ {0} /\ Len(p) <= Len(p)
  BY <1>1, <1>2, CheckpointType DEF Fresh
<1>4. Transactions(p) = Transactions(SubSeq(p, 1, a - 1)) \o Transactions(SubSeq(p, a, Len(p)))
  <2>1. a - 1 \in 0..Len(p) /\ (a - 1) + 1 = a BY <1>3
  <2> QED BY <1>1, <2>1, TransactionsSplit
<1>5. SubSeq(p, a, Len(p)) \in Seq(Checkpoint)
  BY <1>1, <1>3, SubPayload
<1>6. Transactions(SubSeq(p, a, Len(p))) \in Seq(TxSet)
  BY <1>5, ShownType
<1>7. Assembled(feed, j) \in Seq(TxSet)
  BY BroughtType DEF BlockInv
<1> QED BY <1>2, <1>4, <1>6, <1>7 DEF p, Extends

\* The flashblocks of a payload are at all times the beginning of its block, and the
\* whole of it at the end of a job in which nothing failed: for any number of
\* flashblocks, of jobs that overlap and of failures.
THEOREM BlockHolds == Spec => []BlockIsItsFlashblocks
<1>1. IndInv => BlockIsItsFlashblocks
  <2> SUFFICES ASSUME IndInv, NEW j \in Jobs
               PROVE  /\ IsPrefix(Assembled(feed, j), Transactions(payload[j]))
                      /\ phase[j] = "done" /\ ~failed[j]
                           => Assembled(feed, j) = Transactions(payload[j])
    BY DEF BlockIsItsFlashblocks
  <2> DEFINE p == payload[j]
  <2>1. p \in Seq(Checkpoint) /\ TypeOK /\ BlockInv
    BY DEF IndInv, TypeOK
  <2>2. IsPrefix(Assembled(feed, j), Transactions(p))
    <3> HIDE DEF p
    <3>1. PICK u \in Seq(TxSet) : Transactions(p) = Assembled(feed, j) \o u
      BY <2>1, BlockSplit DEF p, Extends
    <3> QED BY <2>1, <3>1, BlockSplit, PrefixOfConcat
  <2>3. ASSUME phase[j] = "done", ~failed[j] PROVE Assembled(feed, j) = Transactions(p)
    <3>1. Fresh(p, Len(p)) /\ p[Len(p)].tx = "barrier"
      BY <2>3 DEF IndInv, EndInv, IsPublished
    <3>2. PICK a : Fresh(p, a) /\ Assembled(feed, j) = Transactions(SubSeq(p, 1, a - 1))
      BY <2>1 DEF BlockInv
    <3> HIDE DEF p
    <3>3. a = Len(p)
      BY <2>1, <3>1, <3>2, FreshUnique
    <3>4. p # <<>>
      <4>1. Len(p) \in 1..Len(p) BY <2>1, <3>1, CheckpointType DEF Fresh
      <4>2. Len(p) # 0 BY <4>1
      <4> QED BY <4>2, EmptySeq
    <3>5. Transactions(p) = Transactions(SubSeq(p, 1, Len(p) - 1))
      BY <2>1, <3>1, <3>4, BarrierShowsNothing
    <3> QED BY <3>2, <3>3, <3>5
  <2> QED BY <2>2, <2>3 DEF p
<1> QED BY Invariant, <1>1, PTL
=============================================================================
