------------------------------- MODULE Bundle -------------------------------
(***************************************************************************)
(* The life of one bundle: the eligibility rules of bundle.rs, as the RPC  *)
(* endpoint, the order pool and the AppendOrders step (all three in the    *)
(* library) use them while blocks and flashblocks follow one another.      *)
(*                                                                         *)
(* An optional field is the set of its value, empty when it is absent. The *)
(* transactions are the first of Hashes; the lists of those that may       *)
(* revert or be dropped have no part in eligibility, and are left out.     *)
(***************************************************************************)
EXTENDS Naturals, SequencesExt

CONSTANTS
  MaxBlock,      \* bound on the block numbers of a behaviour
  MaxFlashblock, \* bound on the flashblocks of a block
  BlockTimes,    \* seconds that may separate two blocks
  Values         \* values given to the fields of bundles

ASSUME BundleAssumption ==
  /\ MaxBlock \in Nat \ {0} /\ MaxFlashblock \in Nat \ {0}
  /\ BlockTimes \subseteq Nat \ {0} /\ Values \subseteq Nat

Optional == {{}} \union {{v} : v \in Values}

Bundles ==
  [txs : 0..2,
   min_block_number : Optional, max_block_number : Optional,
   min_timestamp : Optional, max_timestamp : Optional,
   min_flashblock_number : Optional, max_flashblock_number : Optional]

VARIABLES
  bundle,      \* the bundle
  block,       \* number and timestamp of the block being built
  tip,         \* number and timestamp of its parent, the last block committed
  flashblock,  \* FlashblockNumber of the payload
  status,      \* "new", "rejected" by the RPC, "pooled", "dropped", "included"
  inclusion    \* the block and flashblock that included the bundle

vars == <<bundle, block, tip, flashblock, status, inclusion>>

Header == [number : 0..MaxBlock, timestamp : Nat]

TypeOK ==
  /\ bundle \in Bundles
  /\ block \in Header /\ tip \in Header
  /\ flashblock \in 1..MaxFlashblock
  /\ status \in {"new", "rejected", "pooled", "dropped", "included"}
  /\ inclusion \in [number : 0..MaxBlock, timestamp : Nat, flashblock : 0..MaxFlashblock]

----------------------------------------------------------------------------
(* The rules, in the order the code tries them *)

Below(field, v) == \E bound \in field : bound < v
Above(field, v) == \E bound \in field : bound > v

\* Mutant of IsEligible: a block that is too early is final.
IsEligibleEarlyIsFinal(b, blk, fb) ==
  IF \/ b.txs = 0
     \/ Below(b.max_block_number, blk.number)
     \/ Above(b.min_block_number, blk.number)
     \/ Below(b.max_timestamp, blk.timestamp) THEN "permanently"
  ELSE IF \/ Below(b.min_timestamp, blk.timestamp)
          \/ Above(b.min_flashblock_number, fb) THEN "temporarily"
  ELSE IF Below(b.max_flashblock_number, fb) THEN "permanently"
  ELSE "eligible"

\* Mutant of IsEligible: the flashblock bounds are tested the wrong way round.
IsEligibleSwapped(b, blk, fb) ==
  IF b.txs = 0 \/ Below(b.max_block_number, blk.number) THEN "permanently"
  ELSE IF Above(b.min_block_number, blk.number) THEN "temporarily"
  ELSE IF Below(b.max_timestamp, blk.timestamp) THEN "permanently"
  ELSE IF \/ Below(b.min_timestamp, blk.timestamp)
          \/ Below(b.min_flashblock_number, fb) THEN "temporarily"
  ELSE IF Above(b.max_flashblock_number, fb) THEN "permanently"
  ELSE "eligible"

\* A minimum timestamp holds a bundle back once the block's timestamp exceeds it.
IsEligible(b, blk, fb) ==
  IF b.txs = 0 \/ Below(b.max_block_number, blk.number) THEN "permanently"
  ELSE IF Above(b.min_block_number, blk.number) THEN "temporarily"
  ELSE IF Below(b.max_timestamp, blk.timestamp) THEN "permanently"
  ELSE IF \/ Below(b.min_timestamp, blk.timestamp)
          \/ Above(b.min_flashblock_number, fb) THEN "temporarily"
  ELSE IF Below(b.max_flashblock_number, fb) THEN "permanently"
  ELSE "eligible"

\* Mutant of IsPermanentlyIneligible: a bundle for a later block is turned away.
IsIneligibleEarly(b, header) ==
  \/ b.txs # 1
  \/ Below(b.max_block_number, header.number)
  \/ Above(b.min_block_number, header.number + 1)
  \/ Below(b.max_timestamp, header.timestamp)

IsPermanentlyIneligible(b, header) ==
  \/ b.txs # 1
  \/ Below(b.max_block_number, header.number)
  \/ \E min \in b.min_block_number : Below(b.max_block_number, min)
  \/ Below(b.max_timestamp, header.timestamp)

----------------------------------------------------------------------------
(* What hash feeds to the hasher: the transactions, then the fields that are   *)
(* present, each in as many bytes as any other and without a mark of which it is *)

\* The bytes of a transaction's hash are not those of any field.
TxBytes(n) == [i \in 1..n |-> "tx"]

Bytes(field) == IF field = {} THEN <<>> ELSE <<CHOOSE v \in field : TRUE>>

\* Mutant of HashInput: the flashblock bounds are left out.
HashInputOfBlockBounds(b) ==
  TxBytes(b.txs)
    \o Bytes(b.min_block_number) \o Bytes(b.max_block_number)
    \o Bytes(b.min_timestamp) \o Bytes(b.max_timestamp)

HashInput(b) ==
  TxBytes(b.txs)
    \o Bytes(b.min_block_number) \o Bytes(b.max_block_number)
    \o Bytes(b.min_timestamp) \o Bytes(b.max_timestamp)
    \o Bytes(b.min_flashblock_number) \o Bytes(b.max_flashblock_number)

----------------------------------------------------------------------------
NoInclusion == [number |-> 0, timestamp |-> 0, flashblock |-> 0]

\* Building starts on top of the genesis block.
Init ==
  /\ bundle \in Bundles
  /\ tip = [number |-> 0, timestamp |-> 0]
  /\ \E t \in BlockTimes : block = [number |-> 1, timestamp |-> t]
  /\ flashblock = 1
  /\ status = "new"
  /\ inclusion = NoInclusion

\* The RPC endpoint tests the bundle against the last committed header.
SendBundle ==
  /\ status = "new"
  /\ status' = IF IsPermanentlyIneligible(bundle, tip) THEN "rejected" ELSE "pooled"
  /\ UNCHANGED <<bundle, block, tip, flashblock, inclusion>>

\* AppendOrders includes an eligible bundle, or leaves it for later when it does
\* not fit; a bundle that will not be eligible any more leaves the pool.
AppendOrders ==
  /\ status = "pooled"
  /\ \/ /\ IsEligible(bundle, block, flashblock) = "eligible"
        /\ status' = "included"
        /\ inclusion' = [number |-> block.number, timestamp |-> block.timestamp,
                         flashblock |-> flashblock]
     \/ /\ IsEligible(bundle, block, flashblock) = "permanently"
        /\ status' = "dropped"
        /\ UNCHANGED inclusion
  /\ UNCHANGED <<bundle, block, tip, flashblock>>

\* Mutant of NextFlashblock: one flashblock too many.
NextFlashblockTooFar ==
  /\ flashblock <= MaxFlashblock
  /\ flashblock' = flashblock + 1
  /\ UNCHANGED <<bundle, block, tip, status, inclusion>>

NextFlashblock ==
  /\ flashblock < MaxFlashblock
  /\ flashblock' = flashblock + 1
  /\ UNCHANGED <<bundle, block, tip, status, inclusion>>

\* A new payload starts again from the first flashblock.
NextBlock ==
  /\ block.number < MaxBlock
  /\ tip' = block
  /\ \E t \in BlockTimes :
       block' = [number |-> block.number + 1, timestamp |-> block.timestamp + t]
  /\ flashblock' = 1
  /\ UNCHANGED <<bundle, status, inclusion>>

Next == SendBundle \/ AppendOrders \/ NextFlashblock \/ NextBlock

Spec == Init /\ [][Next]_vars

----------------------------------------------------------------------------
\* "no false positives" (bundle.rs:219): a bundle of one transaction the RPC
\* turned away is not eligible in any flashblock of any later block.
RejectedNeverEligible ==
  status = "rejected" /\ bundle.txs = 1 =>
    IsEligible(bundle, block, flashblock) # "eligible"

\* A bundle dropped as permanently ineligible is never eligible afterwards, if
\* it has no maximum flashblock number (which says nothing of the next block).
DroppedForGood ==
  status = "dropped" /\ bundle.max_flashblock_number = {} =>
    IsEligible(bundle, block, flashblock) # "eligible"

Bounds ==
  {"min_block_number", "max_block_number", "min_timestamp", "max_timestamp",
   "min_flashblock_number", "max_flashblock_number"}

\* A bundle sent again with one bound set, changed or removed does not have the
\* hash of the one before it, though nothing in the hash says which bounds are
\* present: it is not taken for the bundle the pool already holds.
EditChangesHash ==
  status = "new" => \A bound \in Bounds, field \in Optional :
    bundle[bound] # field => HashInput([bundle EXCEPT ![bound] = field]) # HashInput(bundle)

\* A bundle with contradictory flashblock or block bounds is never included,
\* though the rules are tried one at a time: what is included satisfies together
\* every bound that the code reads the way its documentation does.
InclusionHonoursBounds ==
  status = "included" =>
    /\ bundle.txs = 1
    /\ ~Above(bundle.min_block_number, inclusion.number)
    /\ ~Below(bundle.max_block_number, inclusion.number)
    /\ ~Below(bundle.max_timestamp, inclusion.timestamp)
    /\ ~Above(bundle.min_flashblock_number, inclusion.flashblock)
    /\ ~Below(bundle.max_flashblock_number, inclusion.flashblock)

\* "Specifies the minimum timestamp after which transactions in this bundle may
\* be included in a block" (bundle.rs:68): not included in an earlier block.
MinTimestampHonoured ==
  status = "included" => ~Above(bundle.min_timestamp, inclusion.timestamp)
=============================================================================
