--------------------------- MODULE Flashtestations ---------------------------
(***************************************************************************)
(* The FlashtestationsPrologue step and its executor: at the head of each  *)
(* block, a transaction that registers the builder's TEE address and, when *)
(* block proofs are enabled, one that proves the block's content. The step *)
(* places no barrier behind them: the steps that fill the first flashblock *)
(* sort and remove them with the orders. The two contracts, the library's  *)
(* steps and the chain are external.                                       *)
(*                                                                         *)
(* The calls that simulate_contract_call makes are executed on a           *)
(* checkpoint of their own, which is dropped: all that is left of them is  *)
(* the value they return or their failure.                                 *)
(***************************************************************************)
EXTENDS Integers, Sequences, SequencesExt

CONSTANTS
  MaxBlocks,   \* bound on the blocks committed in a behaviour
  MaxTxs       \* bound on the transactions of a payload

ASSUME FlashtestationsAssumption == MaxBlocks \in Nat /\ MaxTxs \in Nat \ {0}

VARIABLES
  teeSigner,         \* the TEE key the manager was made with
  enableBlockProofs, \* the argument of that name
  revertProtection,  \* the argument of that name
  attestation,       \* "unasked", or what set-up got: "none" or "some"
  chain,             \* the accounts after the last committed block
  height,            \* blocks committed
  block,             \* transactions of the last committed block
  phase,             \* where the current payload job stands
  payload,           \* its transactions
  nonce,             \* the builder account's next nonce after them
  barrier,           \* how many of them its last barrier freezes
  removed            \* the kinds of those taken out of it as reverted (a history variable)

arguments == <<enableBlockProofs, revertProtection>>
jobVars == <<phase, payload, nonce, barrier, removed>>
chainVars == <<chain, height, block>>

\* registered: the TEE keys in the registry; builder: the builder account's nonce.
Accounts == [registered : SUBSET Nat, builder : Nat]

Kinds == {"sequencer", "order", "register", "prove", "epilogue"}

\* What the execution came to: the expected event, success without it, or neither.
Results == {"logged", "silent", "reverted"}

\* signer: the TEE key; covers: the hashes of the transactions that a proof is of.
Transaction ==
  [kind : Kinds, nonce : Nat, signer : Nat, covers : SUBSET (Kinds \X Nat), result : Results]

FlashtestationsTypeOK ==
  /\ enableBlockProofs \in BOOLEAN /\ revertProtection \in BOOLEAN
  /\ attestation \in {"unasked", "none", "some"}
  /\ chain \in Accounts /\ nonce \in Nat
  /\ height \in 0..MaxBlocks
  /\ phase \in {"idle", "register", "prove", "building", "publish", "published"}
  /\ block \in Seq(Transaction) /\ payload \in Seq(Transaction)
  /\ barrier \in Nat /\ removed \subseteq Kinds

----------------------------------------------------------------------------
FlashtestationsInit ==
  /\ enableBlockProofs \in BOOLEAN /\ revertProtection \in BOOLEAN
  /\ attestation = "unasked"
  /\ chain = [registered |-> {}, builder |-> 0]
  /\ nonce = 0
  /\ height = 0
  /\ block = <<>>
  /\ phase = "idle"
  /\ payload = <<>>
  /\ barrier = 0
  /\ removed = {}

\* setup: the quote is asked for once, a failure is only logged.
Setup ==
  /\ attestation = "unasked"
  /\ attestation' \in {"none", "some"}
  /\ UNCHANGED <<arguments, chainVars, jobVars>>

Plain(kind) ==
  [kind |-> kind, nonce |-> 0, signer |-> 0, covers |-> {}, result |-> "silent"]

\* A payload of the sequencer's transactions, which stay at its head.
Prologued ==
  /\ payload' = <<Plain("sequencer")>>
  /\ nonce' = chain.builder
  /\ barrier' = 1
  /\ removed' = {}

\* A payload job starts on the committed chain; without an attestation the step
\* leaves the payload as it is.
StartJob ==
  /\ phase = "idle"
  /\ attestation # "unasked"
  /\ height < MaxBlocks
  /\ Prologued
  /\ phase' = IF attestation = "some" THEN "register" ELSE "building"
  /\ UNCHANGED <<arguments, attestation, chainVars>>

\* Mutant of Execute: the nonce is read from the committed chain.
ExecuteAtChainNonce(tx) ==
  /\ payload' = Append(payload, [tx EXCEPT !.nonce = chain.builder])
  /\ nonce' = nonce + 1
  /\ UNCHANGED <<barrier, removed>>

\* execute_transaction: signed by the builder with the payload's nonce of it.
Execute(tx) ==
  /\ payload' = Append(payload, [tx EXCEPT !.nonce = nonce])
  /\ nonce' = nonce + 1
  /\ UNCHANGED <<barrier, removed>>

\* What validate_event_logged lets through: a missing event is an error only after
\* a successful execution.
Validated == Results \ {"silent"}

AddPermitTransaction ==
  /\ phase = "register"
  /\ \E result \in Validated :
       Execute([Plain("register") EXCEPT !.signer = teeSigner, !.result = result])
  /\ phase' = IF enableBlockProofs THEN "prove" ELSE "building"
  /\ UNCHANGED <<arguments, attestation, chainVars>>

Hash(tx) == <<tx.kind, tx.nonce>>

\* Mutant of AddBlockProofTransaction: hashes the payload the step was given.
ProofOfGivenPayload ==
  /\ phase = "prove"
  /\ \E result \in Validated :
       Execute([Plain("prove") EXCEPT
                  !.signer = teeSigner,
                  !.covers = {Hash(payload[k]) : k \in 1..(Len(payload) - 1)},
                  !.result = result])
  /\ phase' = "building"
  /\ UNCHANGED <<arguments, attestation, chainVars>>

AddBlockProofTransaction ==
  /\ phase = "prove"
  /\ \E result \in Validated :
       Execute([Plain("prove") EXCEPT
                  !.signer = teeSigner,
                  !.covers = {Hash(payload[k]) : k \in DOMAIN payload},
                  !.result = result])
  /\ phase' = "building"
  /\ UNCHANGED <<arguments, attestation, chainVars>>

\* Mutant of Failure: what was added before the failure is kept.
FailureKeepsPayload ==
  /\ phase \in {"register", "prove"}
  /\ phase' = "building"
  /\ UNCHANGED <<arguments, attestation, chainVars, payload, nonce, barrier, removed>>

\* Mutant of Failure: the step breaks the job.
FailureBreaksJob ==
  /\ phase \in {"register", "prove"}
  /\ phase' = "broken"
  /\ UNCHANGED <<arguments, attestation, chainVars, payload, nonce, barrier, removed>>

\* A simulated call, a signature or an execution fails, or an event is missed:
\* the step goes on with the payload it was given.
Failure ==
  /\ phase \in {"register", "prove"}
  /\ Prologued
  /\ phase' = "building"
  /\ UNCHANGED <<arguments, attestation, chainVars>>

----------------------------------------------------------------------------
(* The pipeline that fills a flashblock: any number of rounds of its steps *)

\* The transactions that the builder's account signs.
SignedKinds == {"register", "prove", "epilogue"}
Signed == {i \in DOMAIN payload : payload[i].kind \in SignedKinds}

Staged == {i \in DOMAIN payload : i > barrier}

\* The outcomes of p when all from place i on is executed again: a contract may
\* answer otherwise than before.
ExecutedAgain(p, i) ==
  LET again == {k \in i..Len(p) : p[k].kind \in {"register", "prove"}}
  IN {[k \in DOMAIN p |-> IF k \in again THEN [p[k] EXCEPT !.result = results[k]] ELSE p[k]] :
        results \in [again -> Results]}

AppendOrders ==
  /\ phase = "building"
  /\ Len(payload) < MaxTxs
  /\ payload' = Append(payload, Plain("order"))
  /\ UNCHANGED <<arguments, attestation, chainVars, phase, nonce, barrier, removed>>

\* Sorting is a series of exchanges of neighbours after the barrier. Transactions
\* of one account stay in the order of their nonces: one of the two is an order.
OrderByPriorityFee ==
  /\ phase = "building"
  /\ \E i \in Staged :
       /\ i + 1 \in Staged
       /\ "order" \in {payload[i].kind, payload[i + 1].kind}
       /\ payload' \in
            ExecutedAgain([payload EXCEPT ![i] = payload[i + 1], ![i + 1] = payload[i]], i)
  /\ UNCHANGED <<arguments, attestation, chainVars, phase, nonce, barrier, removed>>

Reverted == {i \in Signed \intersect Staged : payload[i].result = "reverted"}

\* A reverted order is taken out, and what follows it executed again.
RemoveRevertedOrder ==
  /\ phase = "building"
  /\ revertProtection
  /\ \E i \in Staged :
       /\ payload[i].kind = "order"
       /\ payload' \in ExecutedAgain(RemoveAt(payload, i), i)
  /\ UNCHANGED <<arguments, attestation, chainVars, phase, nonce, barrier, removed>>

\* So is a reverted transaction of the builder's account, and with it the later
\* ones of the account, which their nonces then keep from execution: one at a
\* time, from the last.
RemoveRevertedSigned ==
  /\ phase = "building"
  /\ revertProtection
  /\ \E i \in Signed :
       /\ \A k \in Signed : k <= i
       /\ i \in Staged /\ Reverted # {}
       /\ payload' \in ExecutedAgain(RemoveAt(payload, i), i)
       /\ nonce' = payload[i].nonce
       /\ removed' = removed \union {payload[i].kind}
  /\ UNCHANGED <<arguments, attestation, chainVars, phase, barrier>>

RemoveRevertedTransactions == RemoveRevertedOrder \/ RemoveRevertedSigned

\* The flashblock's deadline breaks the inner loop after its removal of reverted
\* transactions, if it has one.
BuilderEpilogue ==
  /\ phase = "building"
  /\ Len(payload) < MaxTxs
  /\ revertProtection => Reverted = {}
  /\ Execute(Plain("epilogue"))
  /\ phase' = "publish"
  /\ UNCHANGED <<arguments, attestation, chainVars>>

\* PublishFlashblock: a failed publish leaves the payload without its barrier.
Publish ==
  /\ phase = "publish"
  /\ barrier' \in {barrier, Len(payload)}
  /\ phase' = "published"
  /\ UNCHANGED <<arguments, attestation, chainVars, payload, nonce, removed>>

\* BreakAfterMaxFlashblocks leaves the outer loop as it is.
NextFlashblock ==
  /\ phase = "published"
  /\ phase' = "building"
  /\ UNCHANGED <<arguments, attestation, chainVars, payload, nonce, barrier, removed>>

----------------------------------------------------------------------------
(* The end of a job, and the chain *)

\* Between jobs nothing is left of a payload.
NoJob ==
  /\ phase' = "idle"
  /\ payload' = <<>>
  /\ nonce' = chain'.builder
  /\ barrier' = 0
  /\ removed' = {}

\* The payload becomes the next block: the outer loop was left after a flashblock,
\* or by a publish that could not build the block.
Commit ==
  /\ phase \in {"publish", "published"}
  /\ LET shown == {i \in DOMAIN payload :
                     payload[i].kind = "register" /\ payload[i].result = "logged"}
     IN chain' = [registered |-> chain.registered \union {payload[i].signer : i \in shown},
                  builder    |-> nonce]
  /\ height' = height + 1
  /\ block' = payload
  /\ UNCHANGED <<arguments, attestation>>
  /\ NoJob

\* The job is cancelled, a step of the library fails it, or another block is chosen.
Discard ==
  /\ phase \in {"building", "publish", "published"}
  /\ UNCHANGED <<arguments, attestation, chainVars>>
  /\ NoJob

\* The process ends: what it knows is lost, the chain is not.
Restart ==
  /\ attestation' = "unasked"
  /\ UNCHANGED <<arguments, chainVars>>
  /\ NoJob

Prologue == Setup \/ StartJob \/ AddPermitTransaction \/ AddBlockProofTransaction \/ Failure

Fill == AppendOrders \/ OrderByPriorityFee \/ RemoveRevertedTransactions

Job == Prologue \/ Fill \/ BuilderEpilogue \/ Publish \/ NextFlashblock \/ Commit \/ Discard

----------------------------------------------------------------------------
OfKind(kind) == {i \in DOMAIN payload : payload[i].kind = kind}

\* The step adds all its transactions or none, and what follows keeps it so: a
\* proof is there only if proofs are enabled, right after its registration in the
\* account's nonces; once the step is over a registration is without its proof
\* only if the proof was taken out as reverted, or proofs are disabled.
AllOrNothing ==
  /\ \A i \in OfKind("prove") :
       /\ enableBlockProofs
       /\ \E k \in OfKind("register") : k < i /\ payload[i].nonce = payload[k].nonce + 1
  /\ phase \in {"building", "publish", "published"} /\ enableBlockProofs
       /\ OfKind("register") # {} =>
         OfKind("prove") # {} \/ "prove" \in removed

\* The transactions that the builder's account signs carry, in the order of the
\* payload and without a gap, the nonces from the committed chain's up to the next
\* one of the payload's state, also after jobs that were discarded, steps that
\* failed half-way and transactions that were sorted or taken out.
BuilderNonces ==
  /\ \A i, k \in Signed : i < k => payload[i].nonce < payload[k].nonce
  /\ {payload[i].nonce : i \in Signed} = chain.builder..(nonce - 1)

BeforeWithoutOrders(i) == {k \in 1..(i - 1) : payload[k].kind # "order"}

\* A proof covers all that precedes it in its block, the registration included,
\* but orders, which can be sorted ahead of it after it was signed, and it covers
\* nothing that was taken out since.
ProofCoversWhatPrecedes ==
  \A i \in OfKind("prove") :
    /\ payload[i].covers = {Hash(payload[k]) : k \in BeforeWithoutOrders(i)}
    /\ \E k \in OfKind("register") : Hash(payload[k]) \in payload[i].covers

\* "Validate that the expected event was logged in the transaction execution"
\* (flashtestations/executor.rs:381): no block holds a registration or a proof
\* without its event.
EventLogged ==
  \A i \in DOMAIN block : block[i].kind \in {"register", "prove"} => block[i].result = "logged"
=============================================================================
