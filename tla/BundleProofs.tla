---------------------------- MODULE BundleProofs ----------------------------
(***************************************************************************)
(* Proofs about Bundle, for any bundle, any number of blocks and           *)
(* flashblocks and any block times: what was decided against one header    *)
(* still holds against every later one.                                    *)
(***************************************************************************)
EXTENDS Bundle, SequenceTheorems, TLAPS

\* The bundle's variables keep their types.
THEOREM TypeCorrect == Spec => []TypeOK
<1>1. Init => TypeOK
  <2> SUFFICES ASSUME Init PROVE TypeOK
    OBVIOUS
  <2>1. PICK t \in BlockTimes : block = [number |-> 1, timestamp |-> t]
    BY DEF Init
  <2>2. t \in Nat /\ 1 \in 0..MaxBlock /\ 0 \in 0..MaxBlock /\ 0 \in 0..MaxFlashblock
    BY BundleAssumption
  <2>3. block \in Header /\ tip \in Header
    BY <2>1, <2>2 DEF Init, Header
  <2>4. flashblock \in 1..MaxFlashblock
    BY BundleAssumption DEF Init
  <2>5. inclusion \in [number : 0..MaxBlock, timestamp : Nat, flashblock : 0..MaxFlashblock]
    BY <2>2 DEF Init, NoInclusion
  <2> QED BY <2>3, <2>4, <2>5 DEF Init, TypeOK
<1>2. TypeOK /\ [Next]_vars => TypeOK'
  <2> SUFFICES ASSUME TypeOK, [Next]_vars PROVE TypeOK'
    OBVIOUS
  <2>1. CASE SendBundle BY <2>1 DEF SendBundle, TypeOK
  <2>2. CASE AppendOrders
    <3>1. /\ block.number \in 0..MaxBlock /\ block.timestamp \in Nat
          /\ flashblock \in 0..MaxFlashblock
      BY BundleAssumption DEF TypeOK, Header
    <3> QED BY <2>2, <3>1 DEF AppendOrders, TypeOK
  <2>3. CASE NextFlashblock
    BY <2>3, BundleAssumption DEF NextFlashblock, TypeOK
  <2>4. CASE NextBlock
    <3>1. PICK t \in BlockTimes :
            block' = [number |-> block.number + 1, timestamp |-> block.timestamp + t]
      BY <2>4 DEF NextBlock
    <3>2. block.number + 1 \in 0..MaxBlock /\ block.timestamp + t \in Nat
      BY <2>4, BundleAssumption DEF NextBlock, TypeOK, Header
    <3>3. block' \in Header /\ tip' \in Header
      BY <2>4, <3>1, <3>2 DEF NextBlock, TypeOK, Header
    <3> QED BY <2>4, <3>3, BundleAssumption DEF NextBlock, TypeOK
  <2>5. CASE UNCHANGED vars BY <2>5 DEF vars, TypeOK
  <2> QED BY <2>1, <2>2, <2>3, <2>4, <2>5 DEF Next
<1> QED BY <1>1, <1>2, PTL DEF Spec

----------------------------------------------------------------------------
(* A verdict outlives the header it was taken from *)

\* The fields of a bundle hold numbers, and its transactions are counted.
LEMMA BundleFields ==
  ASSUME NEW b \in Bundles
  PROVE  /\ b.txs \in Nat
         /\ \A v \in b.min_block_number \union b.max_block_number \union b.min_timestamp
                       \union b.max_timestamp \union b.min_flashblock_number
                       \union b.max_flashblock_number : v \in Nat
<1>1. \A field \in Optional : \A v \in field : v \in Nat
  BY BundleAssumption DEF Optional
<1> QED BY <1>1 DEF Bundles

\* The header h is not younger than g.
NotAfter(h, g) == h.number <= g.number /\ h.timestamp <= g.timestamp

\* The pool's verdict without the flashblock bound: too late for every later block.
TooLate(b, h) ==
  \/ b.txs = 0
  \/ Below(b.max_block_number, h.number)
  \/ Below(b.max_timestamp, h.timestamp)

LEMMA StaysTooLate ==
  ASSUME NEW b \in Bundles, NEW h \in Header, NEW g \in Header, NotAfter(h, g)
  PROVE  /\ TooLate(b, h) => TooLate(b, g)
         /\ IsPermanentlyIneligible(b, h) => IsPermanentlyIneligible(b, g)
<1>1. h.number \in Nat /\ g.number \in Nat /\ h.timestamp \in Nat /\ g.timestamp \in Nat
  BY BundleAssumption DEF Header
<1>2. \A v \in b.max_block_number : v \in Nat
  BY BundleFields
<1>3. \A v \in b.max_timestamp : v \in Nat
  BY BundleFields
<1>4. Below(b.max_block_number, h.number) => Below(b.max_block_number, g.number)
  BY <1>1, <1>2 DEF Below, NotAfter
<1>5. Below(b.max_timestamp, h.timestamp) => Below(b.max_timestamp, g.timestamp)
  BY <1>1, <1>3 DEF Below, NotAfter
<1> QED BY <1>4, <1>5 DEF TooLate, IsPermanentlyIneligible

LEMMA TooLateIsNotEligible ==
  ASSUME NEW b, NEW h, NEW fb, TooLate(b, h)
  PROVE  IsEligible(b, h, fb) # "eligible"
BY DEF TooLate, IsEligible

LEMMA IneligibleIsNotEligible ==
  ASSUME NEW b \in Bundles, NEW h \in Header, NEW fb, b.txs = 1, IsPermanentlyIneligible(b, h)
  PROVE  IsEligible(b, h, fb) # "eligible"
<1>1. CASE TooLate(b, h) BY <1>1, TooLateIsNotEligible
<1>2. CASE \E min \in b.min_block_number : Below(b.max_block_number, min)
  <2>1. PICK min \in b.min_block_number, max \in b.max_block_number : max < min
    BY <1>2 DEF Below
  <2>2. min \in Nat /\ max \in Nat /\ h.number \in Nat
    BY BundleFields, BundleAssumption DEF Header
  <2>3. max < h.number \/ min > h.number BY <2>1, <2>2
  <2>4. Below(b.max_block_number, h.number) \/ Above(b.min_block_number, h.number)
    BY <2>1, <2>3 DEF Below, Above
  <2> QED BY <2>4 DEF IsEligible
<1> QED BY <1>1, <1>2 DEF IsPermanentlyIneligible, TooLate

----------------------------------------------------------------------------
(* The inductive invariant: what was decided holds of the present header *)

Decided ==
  /\ NotAfter(tip, block)
  /\ status = "rejected" => IsPermanentlyIneligible(bundle, tip)
  /\ status = "dropped" /\ bundle.max_flashblock_number = {} => TooLate(bundle, block)

LEMMA DecidedHolds == Spec => [](TypeOK /\ Decided)
<1>1. Init => Decided
  <2> SUFFICES ASSUME Init PROVE Decided
    OBVIOUS
  <2>1. PICK t \in BlockTimes : block = [number |-> 1, timestamp |-> t]
    BY DEF Init
  <2> QED BY <2>1, BundleAssumption DEF Init, Decided, NotAfter
<1>2. TypeOK /\ TypeOK' /\ Decided /\ [Next]_vars => Decided'
  <2> SUFFICES ASSUME TypeOK, TypeOK', Decided, [Next]_vars PROVE Decided'
    OBVIOUS
  <2>1. CASE SendBundle BY <2>1 DEF SendBundle, Decided
  <2>2. CASE AppendOrders
    <3>1. status' = "dropped" /\ bundle.max_flashblock_number = {} => TooLate(bundle, block)
      BY <2>2 DEF AppendOrders, IsEligible, TooLate, Below
    <3> QED BY <2>2, <3>1 DEF AppendOrders, Decided
  <2>3. CASE NextFlashblock BY <2>3 DEF NextFlashblock, Decided
  <2>4. CASE NextBlock
    <3>1. PICK t \in BlockTimes :
            block' = [number |-> block.number + 1, timestamp |-> block.timestamp + t]
      BY <2>4 DEF NextBlock
    <3>2. t \in Nat /\ block.number \in Nat /\ block.timestamp \in Nat
      BY BundleAssumption DEF TypeOK, Header
    <3>3. NotAfter(block, block')
      BY <3>1, <3>2 DEF NotAfter
    <3>4. /\ bundle' = bundle /\ status' = status /\ tip' = block
          /\ bundle \in Bundles /\ tip \in Header /\ block \in Header /\ block' \in Header
      BY <2>4 DEF NextBlock, TypeOK
    <3>5. TooLate(bundle, block) => TooLate(bundle, block')
      BY <3>3, <3>4, StaysTooLate
    <3>6. IsPermanentlyIneligible(bundle, tip) => IsPermanentlyIneligible(bundle, block)
      BY <3>4, StaysTooLate DEF Decided
    <3> QED BY <3>3, <3>4, <3>5, <3>6 DEF Decided
  <2>5. CASE UNCHANGED vars BY <2>5 DEF vars, Decided
  <2> QED BY <2>1, <2>2, <2>3, <2>4, <2>5 DEF Next
<1> QED BY <1>1, <1>2, TypeCorrect, PTL DEF Spec

----------------------------------------------------------------------------
\* A bundle of one transaction the RPC turned away is never eligible again, however
\* long the chain goes on.
THEOREM RejectionHolds == Spec => []RejectedNeverEligible
<1>1. TypeOK /\ Decided => RejectedNeverEligible
  <2> SUFFICES ASSUME TypeOK, Decided, status = "rejected", bundle.txs = 1
               PROVE  IsEligible(bundle, block, flashblock) # "eligible"
    BY DEF RejectedNeverEligible
  <2>1. IsPermanentlyIneligible(bundle, block)
    BY StaysTooLate DEF TypeOK, Decided
  <2> QED BY <2>1, IneligibleIsNotEligible DEF TypeOK
<1> QED BY <1>1, DecidedHolds, PTL

\* A bundle without a maximum flashblock number that the pool dropped is never
\* eligible again.
THEOREM DropHolds == Spec => []DroppedForGood
<1>1. TypeOK /\ Decided => DroppedForGood
  BY TooLateIsNotEligible DEF Decided, DroppedForGood
<1> QED BY <1>1, DecidedHolds, PTL

\* What is included satisfies together all the bounds the code reads as its
\* documentation does.
THEOREM InclusionHolds == Spec => []InclusionHonoursBounds
<1> DEFINE Inv == /\ bundle.txs = 2 => status \in {"new", "rejected"}
                  /\ InclusionHonoursBounds
<1>1. Init => Inv
  BY DEF Init, InclusionHonoursBounds
<1>2. TypeOK /\ Inv /\ [Next]_vars => Inv'
  <2> SUFFICES ASSUME TypeOK, Inv, [Next]_vars PROVE Inv'
    OBVIOUS
  <2>1. CASE SendBundle
    BY <2>1 DEF SendBundle, InclusionHonoursBounds, IsPermanentlyIneligible
  <2>2. CASE AppendOrders
    <3>1. bundle.txs \in 0..2 /\ bundle' = bundle
      BY <2>2 DEF AppendOrders, TypeOK, Bundles
    <3>2. CASE status' = "dropped"
      BY <2>2, <3>1, <3>2 DEF AppendOrders, InclusionHonoursBounds
    <3>3. CASE IsEligible(bundle, block, flashblock) = "eligible" /\ status' = "included"
      <4>1. bundle.txs = 1 BY <2>2, <3>1, <3>3 DEF AppendOrders, IsEligible
      <4> QED BY <2>2, <3>1, <3>3, <4>1 DEF AppendOrders, IsEligible, InclusionHonoursBounds
    <3> QED BY <2>2, <3>2, <3>3 DEF AppendOrders
  <2>3. CASE NextFlashblock BY <2>3 DEF NextFlashblock, InclusionHonoursBounds
  <2>4. CASE NextBlock BY <2>4 DEF NextBlock, InclusionHonoursBounds
  <2>5. CASE UNCHANGED vars BY <2>5 DEF vars, InclusionHonoursBounds
  <2> QED BY <2>1, <2>2, <2>3, <2>4, <2>5 DEF Next
<1>3. Inv => InclusionHonoursBounds
  OBVIOUS
<1> QED BY <1>1, <1>2, <1>3, TypeCorrect, PTL DEF Spec

----------------------------------------------------------------------------
(* The hash *)

\* A field and what the hasher is fed for it determine one another.
LEMMA BytesOfField ==
  ASSUME NEW S, Values \subseteq S, NEW field \in Optional
  PROVE  /\ Bytes(field) \in Seq(S)
         /\ \A other \in Optional : Bytes(field) = Bytes(other) => field = other
<1>1. \A f \in Optional : f = {} \/ \E v \in Values : f = {v}
  BY DEF Optional
<1>2. Bytes({}) = <<>> /\ \A v : Bytes({v}) = <<v>>
  BY DEF Bytes
<1>3. Bytes(field) \in Seq(S)
  <2>1. CASE field = {} BY <2>1, <1>2, EmptySeq
  <2>2. CASE field # {}
    <3>1. PICK v \in Values : field = {v} BY <2>2, <1>1
    <3>2. <<v>> \in Seq(S) OBVIOUS
    <3> QED BY <3>1, <3>2, <1>2
  <2> QED BY <2>1, <2>2
<1>4. ASSUME NEW other \in Optional, Bytes(field) = Bytes(other) PROVE field = other
  <2>1. \A v : <<v>> # <<>>
    <3> SUFFICES ASSUME NEW v PROVE Len(<<v>>) # Len(<<>>) OBVIOUS
    <3> QED OBVIOUS
  <2>2. \A v, w : <<v>> = <<w>> => v = w
    OBVIOUS
  <2>3. CASE field = {} \/ other = {}
    <3>1. Bytes(field) = <<>> /\ Bytes(other) = <<>> BY <1>2, <1>4, <2>3, Zenon
    <3>2. \A f \in Optional : Bytes(f) = <<>> => f = {} BY <1>1, <1>2, <2>1, Zenon
    <3> QED BY <1>4, <3>1, <3>2
  <2>4. CASE field # {} /\ other # {}
    <3>1. PICK v \in Values, w \in Values : field = {v} /\ other = {w} BY <2>4, <1>1
    <3>2. <<v>> = <<w>> BY <3>1, <1>2, <1>4, Zenon
    <3> QED BY <3>1, <3>2
  <2> QED BY <2>3, <2>4
<1> QED BY <1>3, <1>4

\* What the hasher is fed: t, then six parts.
Parts(t, p) == t \o p[1] \o p[2] \o p[3] \o p[4] \o p[5] \o p[6]

ArePartsOf(p, S) == \A i \in 1..6 : p[i] \in Seq(S)

SameExcept(p, q, k) == \A i \in 1..6 : i # k => p[i] = q[i]

\* Sequences that differ in one of their parts differ.
LEMMA OnePartDiffers ==
  ASSUME NEW S, NEW t \in Seq(S), NEW p, ArePartsOf(p, S), NEW q, ArePartsOf(q, S),
         NEW k \in 1..6, SameExcept(p, q, k), Parts(t, p) = Parts(t, q)
  PROVE  p[k] = q[k]
<1> DEFINE Cat(s, u) == s \o u
<1>1. \A s, u \in Seq(S) : Cat(s, u) \in Seq(S)
  BY ConcatProperties
<1>2. \A s, u, v \in Seq(S) : Cat(s, v) = Cat(u, v) => s = u
  BY ConcatSimplifications
<1>3. \A s, u, v \in Seq(S) : Cat(s, u) = Cat(s, v) => u = v
  BY ConcatSimplifications
<1>4. \A r : Parts(t, r) = Cat(Cat(Cat(Cat(Cat(Cat(t, r[1]), r[2]), r[3]), r[4]), r[5]), r[6])
  BY Zenon DEF Parts
<1> HIDE DEF Cat
<1>5. /\ p[1] \in Seq(S) /\ p[2] \in Seq(S) /\ p[3] \in Seq(S)
      /\ p[4] \in Seq(S) /\ p[5] \in Seq(S) /\ p[6] \in Seq(S)
  BY DEF ArePartsOf
<1>6. /\ q[1] \in Seq(S) /\ q[2] \in Seq(S) /\ q[3] \in Seq(S)
      /\ q[4] \in Seq(S) /\ q[5] \in Seq(S) /\ q[6] \in Seq(S)
  BY DEF ArePartsOf
<1>7. /\ k # 1 => p[1] = q[1]
      /\ k # 2 => p[2] = q[2]
      /\ k # 3 => p[3] = q[3]
      /\ k # 4 => p[4] = q[4]
      /\ k # 5 => p[5] = q[5]
      /\ k # 6 => p[6] = q[6]
  BY DEF SameExcept
<1> DEFINE p1 == Cat(t, p[1])   q1 == Cat(t, q[1])
           p2 == Cat(p1, p[2])  q2 == Cat(q1, q[2])
           p3 == Cat(p2, p[3])  q3 == Cat(q2, q[3])
           p4 == Cat(p3, p[4])  q4 == Cat(q3, q[4])
           p5 == Cat(p4, p[5])  q5 == Cat(q4, q[5])
<1>8. Cat(p5, p[6]) = Cat(q5, q[6])
  BY <1>4
<1> HIDE DEF p1, p2, p3, p4, p5, q1, q2, q3, q4, q5
<1>9. p1 \in Seq(S) /\ q1 \in Seq(S)
  BY <1>1, <1>5, <1>6 DEF p1, q1
<1>10. p2 \in Seq(S) /\ q2 \in Seq(S)
  BY <1>1, <1>5, <1>6, <1>9 DEF p2, q2
<1>11. p3 \in Seq(S) /\ q3 \in Seq(S)
  BY <1>1, <1>5, <1>6, <1>10 DEF p3, q3
<1>12. p4 \in Seq(S) /\ q4 \in Seq(S)
  BY <1>1, <1>5, <1>6, <1>11 DEF p4, q4
<1>13. p5 \in Seq(S) /\ q5 \in Seq(S)
  BY <1>1, <1>5, <1>6, <1>12 DEF p5, q5
<1>14. p[6] = q[6] => p5 = q5
  BY <1>2, <1>5, <1>6, <1>8, <1>13
<1>15. p[5] = q[5] /\ p5 = q5 => p4 = q4
  BY <1>2, <1>5, <1>6, <1>12 DEF p5, q5
<1>16. p[4] = q[4] /\ p4 = q4 => p3 = q3
  BY <1>2, <1>5, <1>6, <1>11 DEF p4, q4
<1>17. p[3] = q[3] /\ p3 = q3 => p2 = q2
  BY <1>2, <1>5, <1>6, <1>10 DEF p3, q3
<1>18. p[2] = q[2] /\ p2 = q2 => p1 = q1
  BY <1>2, <1>5, <1>6, <1>9 DEF p2, q2
<1>19. CASE k = 1
  <2>1. p1 = q1 BY <1>7, <1>14, <1>15, <1>16, <1>17, <1>18, <1>19
  <2> QED BY <1>3, <1>5, <1>6, <1>19, <2>1 DEF p1, q1
<1>20. CASE k = 2
  <2>1. p2 = q2 BY <1>7, <1>14, <1>15, <1>16, <1>17, <1>20
  <2>2. p1 = q1 BY <1>7, <1>20 DEF p1, q1
  <2> QED BY <1>3, <1>5, <1>6, <1>9, <1>20, <2>1, <2>2 DEF p2, q2
<1>21. CASE k = 3
  <2>1. p3 = q3 BY <1>7, <1>14, <1>15, <1>16, <1>21
  <2>2. p2 = q2 BY <1>7, <1>21 DEF p2, p1, q2, q1
  <2> QED BY <1>3, <1>5, <1>6, <1>10, <1>21, <2>1, <2>2 DEF p3, q3
<1>22. CASE k = 4
  <2>1. p4 = q4 BY <1>7, <1>14, <1>15, <1>22
  <2>2. p3 = q3 BY <1>7, <1>22 DEF p3, p2, p1, q3, q2, q1
  <2> QED BY <1>3, <1>5, <1>6, <1>11, <1>22, <2>1, <2>2 DEF p4, q4
<1>23. CASE k = 5
  <2>1. p5 = q5 BY <1>7, <1>14, <1>23
  <2>2. p4 = q4 BY <1>7, <1>23 DEF p4, p3, p2, p1, q4, q3, q2, q1
  <2> QED BY <1>3, <1>5, <1>6, <1>12, <1>23, <2>1, <2>2 DEF p5, q5
<1>24. CASE k = 6
  <2>1. p5 = q5 BY <1>7, <1>24 DEF p5, p4, p3, p2, p1, q5, q4, q3, q2, q1
  <2> QED BY <1>3, <1>5, <1>6, <1>8, <1>13, <1>24, <2>1
<1> QED BY <1>19, <1>20, <1>21, <1>22, <1>23, <1>24

\* The bounds in the order they are fed to the hasher.
BoundNames ==
  <<"min_block_number", "max_block_number", "min_timestamp", "max_timestamp",
    "min_flashblock_number", "max_flashblock_number">>

\* Where the bundles of a pool differ in one bound, so do their hashes: for any
\* values of the bounds, and with any of the others present or absent.
THEOREM HashHolds == Spec => []EditChangesHash
<1>1. TypeOK => EditChangesHash
  <2> DEFINE S == Values \union {"tx"}
             BytesOf(b) == [i \in 1..6 |-> Bytes(b[BoundNames[i]])]
  <2> SUFFICES ASSUME TypeOK, NEW bound \in Bounds, NEW field \in Optional, bundle[bound] # field,
                      NEW edited, edited = [bundle EXCEPT ![bound] = field],
                      HashInput(edited) = HashInput(bundle)
               PROVE  FALSE
    BY DEF EditChangesHash
  <2>1. /\ bundle.txs \in Nat /\ edited.txs = bundle.txs
        /\ \A other \in Bounds : bundle[other] \in Optional
        /\ \A other \in Bounds : edited[other] = IF other = bound THEN field ELSE bundle[other]
    BY DEF TypeOK, Bundles, Bounds
  <2>2. \A b : HashInput(b) = Parts(TxBytes(b.txs), BytesOf(b))
    <3> SUFFICES ASSUME NEW b PROVE HashInput(b) = Parts(TxBytes(b.txs), BytesOf(b)) OBVIOUS
    <3> DEFINE B == BytesOf(b)
    <3>1. /\ B[1] = Bytes(b.min_block_number) /\ B[2] = Bytes(b.max_block_number)
          /\ B[3] = Bytes(b.min_timestamp) /\ B[4] = Bytes(b.max_timestamp)
          /\ B[5] = Bytes(b.min_flashblock_number) /\ B[6] = Bytes(b.max_flashblock_number)
      BY DEF BoundNames
    <3> HIDE DEF B
    <3> QED BY <3>1, Zenon DEF HashInput, Parts, B
  <2>3. \A i \in 1..6 : BoundNames[i] \in Bounds
    BY DEF BoundNames, Bounds
  <2>4. PICK k \in 1..6 : BoundNames[k] = bound /\ \A i \in 1..6 : i # k => BoundNames[i] # bound
    BY DEF BoundNames, Bounds
  <2> HIDE DEF S
  <2>5. TxBytes(bundle.txs) \in Seq(S)
    <3>1. TxBytes(bundle.txs) \in [1..bundle.txs -> S] BY DEF TxBytes, S
    <3> QED BY <2>1, <3>1, SeqDef
  <2>6. \A f \in Optional : Bytes(f) \in Seq(S)
    BY BytesOfField DEF S
  <2>7. ArePartsOf(BytesOf(bundle), S) /\ ArePartsOf(BytesOf(edited), S)
    BY <2>1, <2>3, <2>6 DEF ArePartsOf
  <2>8. SameExcept(BytesOf(edited), BytesOf(bundle), k)
    BY <2>1, <2>3, <2>4 DEF SameExcept
  <2>9. BytesOf(edited)[k] = Bytes(field) /\ BytesOf(bundle)[k] = Bytes(bundle[bound])
    BY <2>1, <2>4
  <2>10. BytesOf(edited)[k] = BytesOf(bundle)[k]
    <3>1. Parts(TxBytes(bundle.txs), BytesOf(edited)) = Parts(TxBytes(bundle.txs), BytesOf(bundle))
      BY <2>1, <2>2
    <3> HIDE DEF BytesOf
    <3> QED BY <2>5, <2>7, <2>8, <3>1, OnePartDiffers
  <2>11. Bytes(field) = Bytes(bundle[bound]) => field = bundle[bound]
    BY <2>1, BytesOfField
  <2> QED BY <2>9, <2>10, <2>11
<1> QED BY <1>1, TypeCorrect, PTL
=============================================================================
