------------------------ MODULE FlashtestationsProofs ------------------------
(***************************************************************************)
(* Proofs about Flashtestations over the restarts of the program, for any  *)
(* number of blocks, transactions, keys and starts.                        *)
(***************************************************************************)
EXTENDS FlashtestationsService, FiniteSetTheorems, SequenceTheorems, TLAPS

(* Transactions *)

LEMMA PlainType ==
  ASSUME NEW kind \in Kinds
  PROVE  Plain(kind) \in Transaction /\ Plain(kind).kind = kind
BY DEF Plain, Transaction, Kinds, Results

LEMMA PayloadDomain ==
  ASSUME payload \in Seq(Transaction)
  PROVE  /\ Len(payload) \in Nat /\ DOMAIN payload = 1..Len(payload)
         /\ \A i \in DOMAIN payload : payload[i] \in Transaction
<1> DEFINE T == Transaction
<1>1. payload \in Seq(T) OBVIOUS
<1> HIDE DEF T
<1>2. /\ Len(payload) \in Nat /\ DOMAIN payload = 1..Len(payload)
      /\ \A i \in DOMAIN payload : payload[i] \in T
  BY <1>1
<1> QED BY <1>2 DEF T

LEMMA TransactionFields ==
  ASSUME NEW tx \in Transaction
  PROVE  /\ tx.kind \in Kinds /\ tx.nonce \in Nat /\ tx.signer \in Nat
         /\ tx.result \in Results
         /\ \A r \in Results : /\ [tx EXCEPT !.result = r] \in Transaction
                               /\ [tx EXCEPT !.result = r].kind = tx.kind
                               /\ [tx EXCEPT !.result = r].nonce = tx.nonce
                               /\ [tx EXCEPT !.result = r].signer = tx.signer
                               /\ [tx EXCEPT !.result = r].covers = tx.covers
BY DEF Transaction

\* What a transaction at the end of a payload changes.
LEMMA Appended ==
  ASSUME payload \in Seq(Transaction), NEW tx \in Transaction,
         payload' = Append(payload, tx)
  PROVE  /\ payload' \in Seq(Transaction) /\ Len(payload') = Len(payload) + 1
         /\ Len(payload) \in Nat
         /\ DOMAIN payload = 1..Len(payload) /\ DOMAIN payload' = 1..(Len(payload) + 1)
         /\ payload'[Len(payload) + 1] = tx
         /\ \A i \in DOMAIN payload : payload'[i] = payload[i]
         /\ Signed' = Signed \union (IF tx.kind \in SignedKinds THEN {Len(payload) + 1} ELSE {})
         /\ \A kind : OfKind(kind)' =
              OfKind(kind) \union (IF tx.kind = kind THEN {Len(payload) + 1} ELSE {})
<1> DEFINE T == Transaction
           n == Len(payload) + 1
<1>1. payload \in Seq(T) /\ tx \in T OBVIOUS
<1> HIDE DEF T
<1>2. /\ payload' \in Seq(T) /\ Len(payload') = n /\ Len(payload) \in Nat
      /\ DOMAIN payload = 1..Len(payload) /\ DOMAIN payload' = 1..n
      /\ payload'[n] = tx
      /\ \A i \in DOMAIN payload : payload'[i] = payload[i]
  BY <1>1
<1>3. DOMAIN payload' = DOMAIN payload \union {n} /\ n \notin DOMAIN payload BY <1>2
<1> HIDE DEF n
<1>4. Signed' = Signed \union (IF tx.kind \in SignedKinds THEN {n} ELSE {})
  BY <1>2, <1>3 DEF Signed
<1>5. \A kind : OfKind(kind)' = OfKind(kind) \union (IF tx.kind = kind THEN {n} ELSE {})
  BY <1>2, <1>3 DEF OfKind
<1> QED BY <1>2, <1>4, <1>5 DEF T, n

\* A transaction at the end of a payload changes nothing for the proofs before it.
LEMMA AppendKeepsProofs ==
  ASSUME payload \in Seq(Transaction), NEW tx \in Transaction,
         payload' = Append(payload, tx), NEW i \in OfKind("prove")
  PROVE  {Hash(payload'[k]) : k \in BeforeWithoutOrders(i)'} =
           {Hash(payload[k]) : k \in BeforeWithoutOrders(i)}
<1>1. /\ \A k \in DOMAIN payload : payload'[k] = payload[k]
      /\ Len(payload) \in Nat /\ DOMAIN payload = 1..Len(payload)
  BY Appended
<1>2. i \in 1..Len(payload) BY <1>1 DEF OfKind
<1>3. \A k \in 1..(i - 1) : k \in DOMAIN payload /\ payload'[k] = payload[k] BY <1>1, <1>2
<1>4. BeforeWithoutOrders(i)' = BeforeWithoutOrders(i) BY <1>3 DEF BeforeWithoutOrders
<1> QED BY <1>3, <1>4 DEF BeforeWithoutOrders

\* A payload of the sequencer's transactions alone.
LEMMA Fresh ==
  ASSUME payload' = <<Plain("sequencer")>>
  PROVE  /\ payload' \in Seq(Transaction) /\ Len(payload') = 1
         /\ Signed' = {}
         /\ \A kind \in {"register", "prove", "order"} : OfKind(kind)' = {}
<1>1. Plain("sequencer") \in Transaction /\ Plain("sequencer").kind = "sequencer"
  BY PlainType DEF Kinds
<1>2. DOMAIN payload' = {1} /\ payload'[1] = Plain("sequencer") OBVIOUS
<1> QED BY <1>1, <1>2 DEF Signed, SignedKinds, OfKind

LEMMA Cleared ==
  ASSUME payload' = <<>>
  PROVE  /\ payload' \in Seq(Transaction)
         /\ Signed' = {} /\ \A kind : OfKind(kind)' = {}
BY DEF Signed, OfKind

\* Executing again changes results and nothing else.
LEMMA ExecutedAgainKeeps ==
  ASSUME NEW p \in Seq(Transaction), NEW i \in Nat, NEW q \in ExecutedAgain(p, i)
  PROVE  /\ q \in Seq(Transaction) /\ DOMAIN q = DOMAIN p
         /\ \A k \in DOMAIN p : /\ q[k].kind = p[k].kind /\ q[k].nonce = p[k].nonce
                                /\ q[k].signer = p[k].signer /\ q[k].covers = p[k].covers
<1> DEFINE T == Transaction
           again == {k \in i..Len(p) : p[k].kind \in {"register", "prove"}}
<1>1. PICK results \in [again -> Results] :
        q = [k \in DOMAIN p |->
               IF k \in again THEN [p[k] EXCEPT !.result = results[k]] ELSE p[k]]
  BY DEF ExecutedAgain
<1>2. p \in Seq(T) OBVIOUS
<1> HIDE DEF T
<1>3. Len(p) \in Nat /\ DOMAIN p = 1..Len(p) /\ \A k \in DOMAIN p : p[k] \in T BY <1>2
<1> HIDE DEF again
<1>4. DOMAIN q = DOMAIN p BY <1>1
<1>5. ASSUME NEW k \in DOMAIN p
      PROVE  /\ q[k] \in T
             /\ q[k].kind = p[k].kind /\ q[k].nonce = p[k].nonce
             /\ q[k].signer = p[k].signer /\ q[k].covers = p[k].covers
  <2>1. p[k] \in Transaction BY <1>3 DEF T
  <2>2. CASE k \in again
    <3> DEFINE r == results[k]
    <3>1. r \in Results /\ q[k] = [p[k] EXCEPT !.result = r] BY <1>1, <2>2
    <3> HIDE DEF r
    <3> QED BY <2>1, <3>1, TransactionFields DEF T
  <2>3. CASE k \notin again BY <1>1, <2>1, <2>3 DEF T
  <2> QED BY <2>2, <2>3
<1>6. q \in Seq(T)
  <2>1. q = [k \in 1..Len(p) |-> q[k]] BY <1>1, <1>3
  <2>2. \A k \in 1..Len(p) : q[k] \in T BY <1>3, <1>5
  <2> QED BY <1>3, <2>1, <2>2
<1> QED BY <1>4, <1>5, <1>6 DEF T

----------------------------------------------------------------------------
(* The step: types, what each phase holds, nonces and proofs *)

PhaseInv ==
  /\ phase # "idle" => height < MaxBlocks
  /\ phase = "idle" => payload = <<>> /\ nonce = chain.builder
  /\ phase \in {"register", "prove"} => OfKind("prove") = {} /\ OfKind("order") = {}
  /\ phase = "register" => Len(payload) = 1 /\ OfKind("register") = {}
  /\ phase = "prove" =>
       /\ enableBlockProofs /\ Len(payload) = 2
       /\ OfKind("register") = {2} /\ payload[2].nonce + 1 = nonce

StepInv ==
  /\ FlashtestationsTypeOK
  /\ PhaseInv
  /\ chain.builder <= nonce
  /\ AllOrNothing /\ BuilderNonces /\ ProofCoversWhatPrecedes

\* Every registration of the next payload has the signer of one of this payload.
SignersKept ==
  \A i \in OfKind("register")' :
    \E k \in OfKind("register") : payload'[i].signer = payload[k].signer

\* A transaction signed by the builder takes the next nonce of the payload's state.
LEMMA Executed ==
  ASSUME StepInv, NEW tx \in Transaction, tx.kind \in SignedKinds, Execute(tx),
         UNCHANGED chain
  PROVE  /\ payload' \in Seq(Transaction) /\ Len(payload') = Len(payload) + 1
         /\ nonce' \in Nat /\ nonce' = nonce + 1 /\ chain.builder <= nonce'
         /\ UNCHANGED <<barrier, removed>>
         /\ BuilderNonces'
         /\ \A kind : OfKind(kind)' =
              OfKind(kind) \union (IF tx.kind = kind THEN {Len(payload) + 1} ELSE {})
         /\ \A i \in DOMAIN payload : payload'[i] = payload[i]
         /\ payload'[Len(payload) + 1].covers = tx.covers
         /\ payload'[Len(payload) + 1].signer = tx.signer
         /\ payload'[Len(payload) + 1].nonce = nonce
         /\ \A i \in OfKind("prove") :
              {Hash(payload'[k]) : k \in BeforeWithoutOrders(i)'} =
                {Hash(payload[k]) : k \in BeforeWithoutOrders(i)}
<1> DEFINE signed == [tx EXCEPT !.nonce = nonce]
           n == Len(payload) + 1
           low == chain.builder
           next == nonce
<1>1. payload \in Seq(Transaction) /\ nonce \in Nat /\ chain \in Accounts
  BY DEF StepInv, FlashtestationsTypeOK
<1>2. low \in Nat /\ next \in Nat /\ low <= next
  BY <1>1 DEF Accounts, StepInv
<1>3. /\ signed \in Transaction /\ signed.nonce = next /\ signed.kind = tx.kind
      /\ signed.covers = tx.covers /\ signed.signer = tx.signer
  BY <1>2 DEF Transaction
<1>4. /\ payload' = Append(payload, signed) /\ nonce' = next + 1
      /\ UNCHANGED <<barrier, removed>>
  BY DEF Execute
<1> HIDE DEF signed
<1>5. /\ payload' \in Seq(Transaction) /\ Len(payload') = n /\ Len(payload) \in Nat
      /\ DOMAIN payload = 1..Len(payload)
      /\ payload'[n] = signed
      /\ \A i \in DOMAIN payload : payload'[i] = payload[i]
      /\ Signed' = Signed \union {n}
      /\ \A kind : OfKind(kind)' = OfKind(kind) \union (IF tx.kind = kind THEN {n} ELSE {})
  BY <1>1, <1>3, <1>4, Appended
<1>6. Signed \subseteq DOMAIN payload BY DEF Signed
<1>7. \A i, k \in Signed : i < k => payload[i].nonce < payload[k].nonce
  BY DEF StepInv, BuilderNonces
<1>8. {payload[i].nonce : i \in Signed} = low..(next - 1)
  BY DEF StepInv, BuilderNonces
<1>9. \A i \in OfKind("prove") :
         {Hash(payload'[k]) : k \in BeforeWithoutOrders(i)'} =
           {Hash(payload[k]) : k \in BeforeWithoutOrders(i)}
  BY <1>1, <1>3, <1>4, AppendKeepsProofs
<1> HIDE DEF n, low, next
<1>10. \A i \in Signed : payload'[i].nonce = payload[i].nonce /\ payload[i].nonce < next /\ i < n
  <2> SUFFICES ASSUME NEW i \in Signed
               PROVE  payload'[i].nonce = payload[i].nonce /\ payload[i].nonce < next /\ i < n
    OBVIOUS
  <2>1. payload[i].nonce \in low..(next - 1) BY <1>8
  <2>2. i < n BY <1>5, <1>6 DEF n
  <2> QED BY <1>2, <1>5, <1>6, <2>1, <2>2
<1>11. \A i, k \in Signed' : i < k => payload'[i].nonce < payload'[k].nonce
  <2> SUFFICES ASSUME NEW i \in Signed', NEW k \in Signed', i < k
               PROVE  payload'[i].nonce < payload'[k].nonce
    OBVIOUS
  <2>0. n \in Nat /\ i \in Nat /\ k \in Nat BY <1>5, <1>6 DEF n
  <2>1. i \in Signed BY <1>5, <1>10, <2>0
  <2>2. CASE k \in Signed BY <1>7, <1>10, <2>1, <2>2
  <2>3. CASE k = n BY <1>3, <1>5, <1>10, <2>1, <2>3
  <2> QED BY <1>5, <2>2, <2>3
<1>12. {payload'[i].nonce : i \in Signed'} = low..(next + 1 - 1)
  <2>1. {payload'[i].nonce : i \in Signed'} = {payload[i].nonce : i \in Signed} \union {next}
    BY <1>3, <1>5, <1>10
  <2>2. low..(next + 1 - 1) = (low..(next - 1)) \union {next} BY <1>2
  <2> QED BY <1>8, <2>1, <2>2
<1>13. BuilderNonces'
  <2>1. chain'.builder = low BY DEF low
  <2>2. nonce' - 1 = next + 1 - 1 BY <1>2, <1>4
  <2> QED BY <1>11, <1>12, <2>1, <2>2 DEF BuilderNonces
<1>14. nonce' \in Nat /\ nonce' = next + 1 /\ low <= nonce' BY <1>2, <1>4
<1> QED BY <1>3, <1>4, <1>5, <1>13, <1>9, <1>14 DEF n, low, next

\* The transactions of the next payload are carried from places of this one by f,
\* those that are not orders in the same order. All of these are carried but the one
\* at place gone, if that is one: the last that the builder's account signed.
Carries(f, gone) ==
  /\ f \in [DOMAIN payload' -> DOMAIN payload]
  /\ \A k \in DOMAIN payload' :
       /\ f[k] # gone
       /\ payload'[k].kind = payload[f[k]].kind /\ payload'[k].nonce = payload[f[k]].nonce
       /\ payload'[k].signer = payload[f[k]].signer
       /\ payload'[k].covers = payload[f[k]].covers
  /\ \A k, m \in DOMAIN payload' :
       payload'[k].kind # "order" /\ payload'[m].kind # "order" => (k < m <=> f[k] < f[m])
  /\ \A i \in DOMAIN payload :
       payload[i].kind # "order" /\ i # gone => \E k \in DOMAIN payload' : f[k] = i
  /\ gone \in Signed => \A i \in Signed : i <= gone
  /\ nonce' = IF gone \in Signed THEN payload[gone].nonce ELSE nonce
  /\ removed \subseteq removed'
  /\ gone \in OfKind("prove") => "prove" \in removed'

LEMMA Carried ==
  ASSUME StepInv, phase = "building", payload' \in Seq(Transaction),
         NEW f, NEW gone, Carries(f, gone),
         gone \in DOMAIN payload => gone \in Signed \union OfKind("order"),
         UNCHANGED <<chain, enableBlockProofs, phase>>
  PROVE  /\ nonce' \in Nat /\ chain.builder <= nonce'
         /\ AllOrNothing' /\ BuilderNonces' /\ ProofCoversWhatPrecedes' /\ SignersKept
<1> USE DEF Carries
<1>1. /\ Len(payload) \in Nat /\ DOMAIN payload = 1..Len(payload)
      /\ chain.builder \in Nat /\ nonce \in Nat /\ chain.builder <= nonce
      /\ \A i \in DOMAIN payload : payload[i] \in Transaction
  BY PayloadDomain DEF StepInv, FlashtestationsTypeOK, Accounts
<1>2. Len(payload') \in Nat /\ DOMAIN payload' = 1..Len(payload')
  <2> DEFINE T == Transaction
  <2>1. payload' \in Seq(T) OBVIOUS
  <2> HIDE DEF T
  <2> QED BY <2>1
<1> DEFINE low == chain.builder
<1>3. /\ \A i, k \in Signed : i < k => payload[i].nonce < payload[k].nonce
      /\ {payload[i].nonce : i \in Signed} = low..(nonce - 1)
  BY DEF StepInv, BuilderNonces
<1>4. \A k \in DOMAIN payload' : f[k] \in DOMAIN payload /\ (k \in Signed' <=> f[k] \in Signed)
  BY DEF Signed
<1>5. \A k : \A i : i \in OfKind(k)' => f[i] \in OfKind(k)
  BY DEF OfKind
<1>6. \A i \in Signed : i = gone \/ \E k \in Signed' : f[k] = i
  <2> SUFFICES ASSUME NEW i \in Signed, i # gone PROVE \E k \in Signed' : f[k] = i
    OBVIOUS
  <2>1. i \in DOMAIN payload /\ payload[i].kind # "order" BY DEF Signed, SignedKinds
  <2>2. PICK k \in DOMAIN payload' : f[k] = i BY <2>1
  <2> QED BY <1>4, <2>2
<1>7. SignersKept
  <2> SUFFICES ASSUME NEW i \in OfKind("register")'
               PROVE  \E k \in OfKind("register") : payload'[i].signer = payload[k].signer
    BY DEF SignersKept
  <2>1. f[i] \in OfKind("register") BY <1>5
  <2>2. payload'[i].signer = payload[f[i]].signer BY DEF OfKind
  <2> QED BY <2>1, <2>2
<1>8. \A i \in OfKind("prove")' : \A m \in DOMAIN payload :
        m < f[i] /\ payload[m].kind # "order" =>
          \E k \in DOMAIN payload' : k < i /\ f[k] = m
  <2> SUFFICES ASSUME NEW i \in OfKind("prove")', NEW m \in DOMAIN payload,
                      m < f[i], payload[m].kind # "order"
               PROVE  \E k \in DOMAIN payload' : k < i /\ f[k] = m
    OBVIOUS
  <2>1. i \in DOMAIN payload' /\ payload'[i].kind # "order" BY DEF OfKind
  <2>2. f[i] \in DOMAIN payload /\ f[i] \in Signed
    BY <1>5, <2>1 DEF OfKind, Signed, SignedKinds
  <2>3. m # gone
    <3> SUFFICES ASSUME m = gone PROVE FALSE
      OBVIOUS
    <3>1. gone \in Signed BY DEF OfKind
    <3>2. f[i] <= gone BY <2>2, <3>1
    <3> QED BY <1>1, <2>2, <3>2
  <2>4. PICK k \in DOMAIN payload' : f[k] = m BY <2>3
  <2>5. payload'[k].kind # "order" BY <2>4
  <2> QED BY <2>1, <2>4, <2>5
<1>9. ASSUME NEW i \in OfKind("prove")'
      PROVE  {Hash(payload'[k]) : k \in BeforeWithoutOrders(i)'} =
               {Hash(payload[m]) : m \in BeforeWithoutOrders(f[i])}
  <2>1. /\ i \in DOMAIN payload' /\ payload'[i].kind # "order"
        /\ f[i] \in DOMAIN payload
    BY DEF OfKind
  <2>2. ASSUME NEW k \in BeforeWithoutOrders(i)'
        PROVE  f[k] \in BeforeWithoutOrders(f[i]) /\ Hash(payload'[k]) = Hash(payload[f[k]])
    <3>1. k \in 1..(i - 1) /\ payload'[k].kind # "order" BY DEF BeforeWithoutOrders
    <3>2. k \in DOMAIN payload' /\ k < i BY <1>2, <2>1, <3>1
    <3>3. f[k] < f[i] /\ f[k] \in DOMAIN payload BY <2>1, <3>1, <3>2
    <3>4. f[k] \in 1..(f[i] - 1) BY <1>1, <2>1, <3>3
    <3> QED BY <3>1, <3>2, <3>4 DEF BeforeWithoutOrders, Hash
  <2>3. ASSUME NEW m \in BeforeWithoutOrders(f[i])
        PROVE  \E k \in BeforeWithoutOrders(i)' : f[k] = m
    <3>1. m \in 1..(f[i] - 1) /\ payload[m].kind # "order" BY DEF BeforeWithoutOrders
    <3>2. m \in DOMAIN payload /\ m < f[i] BY <1>1, <2>1, <3>1
    <3>3. PICK k \in DOMAIN payload' : k < i /\ f[k] = m BY <1>8, <3>1, <3>2
    <3>4. k \in 1..(i - 1) BY <1>2, <2>1, <3>3
    <3>5. payload'[k].kind # "order" BY <3>1, <3>3
    <3> QED BY <3>3, <3>4, <3>5 DEF BeforeWithoutOrders
  <2> QED BY <2>2, <2>3
<1>10. ASSUME NEW i \in OfKind("prove")', NEW m \in OfKind("register"), m < f[i]
       PROVE  \E k \in OfKind("register")' :
                k < i /\ payload'[k].nonce = payload[m].nonce /\ payload'[k].kind = payload[m].kind
  <2>1. /\ m \in DOMAIN payload /\ payload[m].kind = "register"
        /\ payload[m].kind # "order"
    BY DEF OfKind
  <2>2. \E k \in DOMAIN payload' : k < i /\ f[k] = m BY <1>8, <1>10, <2>1
  <2>3. PICK k \in DOMAIN payload' : k < i /\ f[k] = m BY <2>2
  <2> QED BY <2>1, <2>3 DEF OfKind
<1>11. AllOrNothing'
  <2>1. ASSUME NEW i \in OfKind("prove")'
        PROVE  /\ enableBlockProofs'
               /\ \E k \in OfKind("register")' :
                    k < i /\ payload'[i].nonce = payload'[k].nonce + 1
    <3>1. f[i] \in OfKind("prove") BY <1>5
    <3>2. PICK m \in OfKind("register") :
            m < f[i] /\ payload[f[i]].nonce = payload[m].nonce + 1
      BY <3>1 DEF StepInv, AllOrNothing
    <3>3. enableBlockProofs BY <3>1 DEF StepInv, AllOrNothing
    <3>4. PICK k \in OfKind("register")' : k < i /\ payload'[k].nonce = payload[m].nonce
      BY <1>10, <3>2
    <3>5. payload'[i].nonce = payload[f[i]].nonce BY DEF OfKind
    <3> QED BY <3>2, <3>3, <3>4, <3>5
  <2>2. ASSUME enableBlockProofs, OfKind("register")' # {}
        PROVE  OfKind("prove")' # {} \/ "prove" \in removed'
    <3>1. OfKind("register") # {} BY <1>5, <2>2
    <3>2. OfKind("prove") # {} \/ "prove" \in removed
      BY <2>2, <3>1 DEF StepInv, AllOrNothing
    <3>3. CASE OfKind("prove") # {}
      <4>1. PICK m \in OfKind("prove") : TRUE BY <3>3
      <4>2. CASE m = gone BY <4>1, <4>2
      <4>3. CASE m # gone
        <5>1. PICK k \in DOMAIN payload' : f[k] = m BY <4>1, <4>3 DEF OfKind
        <5> QED BY <4>1, <5>1 DEF OfKind
      <4> QED BY <4>2, <4>3
    <3> QED BY <3>2, <3>3
  <2> QED BY <2>1, <2>2 DEF AllOrNothing
<1>12. ProofCoversWhatPrecedes'
  <2> SUFFICES ASSUME NEW i \in OfKind("prove")'
               PROVE  /\ payload'[i].covers = {Hash(payload'[k]) : k \in BeforeWithoutOrders(i)'}
                      /\ \E k \in OfKind("register")' : Hash(payload'[k]) \in payload'[i].covers
    BY DEF ProofCoversWhatPrecedes
  <2>1. f[i] \in OfKind("prove") /\ i \in DOMAIN payload' BY <1>5 DEF OfKind
  <2>2. payload[f[i]].covers = {Hash(payload[m]) : m \in BeforeWithoutOrders(f[i])}
    BY <2>1 DEF StepInv, ProofCoversWhatPrecedes
  <2>3. payload'[i].covers = {Hash(payload'[k]) : k \in BeforeWithoutOrders(i)'}
    BY <1>9, <2>1, <2>2
  <2>4. PICK m \in OfKind("register") : m < f[i] BY <2>1 DEF StepInv, AllOrNothing
  <2>5. PICK k \in OfKind("register")' : k < i BY <1>10, <2>4
  <2>6. k \in BeforeWithoutOrders(i)'
    <3>1. k \in DOMAIN payload' /\ payload'[k].kind # "order" BY <2>5 DEF OfKind
    <3>2. k \in 1..(i - 1) BY <1>2, <2>1, <2>5, <3>1
    <3> QED BY <3>1, <3>2 DEF BeforeWithoutOrders
  <2> QED BY <2>3, <2>5, <2>6
<1>13. \A i, k \in Signed' : i < k => payload'[i].nonce < payload'[k].nonce
  <2> SUFFICES ASSUME NEW i \in Signed', NEW k \in Signed', i < k
               PROVE  payload'[i].nonce < payload'[k].nonce
    OBVIOUS
  <2>1. /\ i \in DOMAIN payload' /\ k \in DOMAIN payload'
        /\ payload'[i].kind # "order" /\ payload'[k].kind # "order"
    BY DEF Signed, SignedKinds
  <2>2. f[i] < f[k] BY <2>1
  <2> QED BY <1>3, <1>4, <2>1, <2>2
<1>14. \A k \in Signed' : f[k] \in Signed /\ f[k] # gone /\ payload'[k].nonce = payload[f[k]].nonce
  BY <1>4 DEF Signed
<1>15. {payload'[k].nonce : k \in Signed'} = {payload[i].nonce : i \in Signed \ {gone}}
  <2>1. \A k \in Signed' : \E i \in Signed \ {gone} : payload'[k].nonce = payload[i].nonce
    BY <1>14
  <2>2. \A i \in Signed \ {gone} : \E k \in Signed' : payload'[k].nonce = payload[i].nonce
    BY <1>6, <1>14
  <2> QED BY <2>1, <2>2
<1>16. /\ {payload[i].nonce : i \in Signed \ {gone}} = low..(nonce' - 1)
       /\ nonce' \in Nat /\ low <= nonce'
  <2>1. CASE gone \notin Signed BY <1>1, <1>3, <2>1
  <2>2. CASE gone \in Signed
    <3> DEFINE last == payload[gone].nonce
    <3>1. \A i \in Signed : payload[i].nonce \in low..(nonce - 1) BY <1>3
    <3>2. \A i \in Signed \ {gone} : payload[i].nonce < last
      <4> SUFFICES ASSUME NEW i \in Signed, i # gone PROVE payload[i].nonce < last
        OBVIOUS
      <4>1. i \in Nat /\ gone \in Nat BY <1>1, <2>2 DEF Signed
      <4>2. i <= gone BY <2>2
      <4>3. i < gone BY <4>1, <4>2
      <4> QED BY <1>3, <2>2, <4>3
    <3>3. last \in low..(nonce - 1) BY <2>2, <3>1
    <3>4. last = nonce - 1
      <4>1. nonce - 1 \in low..(nonce - 1) BY <1>1, <3>3
      <4>2. PICK i \in Signed : payload[i].nonce = nonce - 1 BY <1>3, <4>1
      <4>3. CASE i = gone BY <4>2, <4>3
      <4>4. CASE i # gone
        <5>1. nonce - 1 < last BY <3>2, <4>2, <4>4
        <5> QED BY <1>1, <3>3, <5>1
      <4> QED BY <4>3, <4>4
    <3>5. nonce' = last BY <2>2
    <3> HIDE DEF last
    <3>6. {payload[i].nonce : i \in Signed \ {gone}} = low..(last - 1)
      <4>1. \A i \in Signed \ {gone} : payload[i].nonce \in low..(last - 1)
        BY <1>1, <3>1, <3>2, <3>3
      <4>2. ASSUME NEW v \in low..(last - 1)
            PROVE  \E i \in Signed \ {gone} : payload[i].nonce = v
        <5>1. v \in low..(nonce - 1) /\ v # last BY <1>1, <3>3, <3>4
        <5>2. PICK i \in Signed : payload[i].nonce = v BY <1>3, <5>1
        <5>3. i # gone BY <5>1, <5>2 DEF last
        <5> QED BY <5>2, <5>3
      <4> QED BY <4>1, <4>2
    <3> QED BY <1>1, <3>3, <3>5, <3>6
  <2> QED BY <2>1, <2>2
<1>17. BuilderNonces'
  <2>1. chain'.builder = low OBVIOUS
  <2> QED BY <1>13, <1>15, <1>16, <2>1 DEF BuilderNonces
<1> QED BY <1>7, <1>11, <1>12, <1>16, <1>17

----------------------------------------------------------------------------
(* One lemma for each kind of step *)

LEMMA InitStep == Init => StepInv
<1> SUFFICES ASSUME Init PROVE StepInv
  OBVIOUS
<1> USE DEF Init, FlashtestationsInit
<1>1. chain \in Accounts /\ chain.builder = 0 BY DEF Accounts
<1>2. FlashtestationsTypeOK
  BY <1>1, FlashtestationsAssumption DEF FlashtestationsTypeOK
<1>3. Signed = {} /\ OfKind("prove") = {} BY DEF Signed, OfKind
<1>4. BuilderNonces
  <2>1. nonce - 1 = -1 /\ chain.builder..(-1) = {} BY <1>1
  <2>2. {payload[i].nonce : i \in Signed} = {} BY <1>3
  <2> QED BY <1>3, <2>1, <2>2 DEF BuilderNonces
<1>5. chain.builder <= nonce BY <1>1
<1> QED BY <1>1, <1>2, <1>3, <1>4, <1>5 DEF StepInv, PhaseInv, AllOrNothing, ProofCoversWhatPrecedes

LEMMA PrologueStep == StepInv /\ (Failure \/ StartJob) => StepInv' /\ SignersKept
<1> SUFFICES ASSUME StepInv, Failure \/ StartJob PROVE StepInv' /\ SignersKept
  OBVIOUS
<1>1. /\ payload' = <<Plain("sequencer")>> /\ nonce' = chain.builder
      /\ barrier' = 1 /\ removed' = {}
      /\ phase' \in {"register", "building"} /\ height < MaxBlocks
      /\ UNCHANGED <<enableBlockProofs, revertProtection, attestation, chain, height, block>>
  BY DEF Failure, StartJob, Prologued, arguments, chainVars, StepInv, PhaseInv
<1>2. /\ payload' \in Seq(Transaction) /\ Len(payload') = 1
      /\ Signed' = {}
      /\ OfKind("register")' = {} /\ OfKind("prove")' = {} /\ OfKind("order")' = {}
  BY <1>1, Fresh
<1>3. chain \in Accounts /\ chain.builder \in Nat
  BY DEF StepInv, FlashtestationsTypeOK, Accounts
<1>4. FlashtestationsTypeOK' BY <1>1, <1>2, <1>3 DEF StepInv, FlashtestationsTypeOK
<1>5. PhaseInv' BY <1>1, <1>2 DEF PhaseInv
<1>6. AllOrNothing' BY <1>2 DEF AllOrNothing
<1>7. BuilderNonces'
  <2>1. chain.builder..(chain.builder - 1) = {} BY <1>3
  <2>2. {payload'[i].nonce : i \in Signed'} = {} BY <1>2
  <2> QED BY <1>1, <1>2, <2>1, <2>2 DEF BuilderNonces
<1>8. ProofCoversWhatPrecedes' BY <1>2 DEF ProofCoversWhatPrecedes
<1>9. chain'.builder <= nonce' BY <1>1, <1>3
<1>10. SignersKept BY <1>2 DEF SignersKept
<1> QED BY <1>4, <1>5, <1>6, <1>7, <1>8, <1>9, <1>10 DEF StepInv

\* Between jobs nothing is left of a payload.
LEMMA IdleStep == StepInv /\ (Commit \/ Discard \/ Restart) => StepInv' /\ SignersKept
<1> SUFFICES ASSUME StepInv, Commit \/ Discard \/ Restart PROVE StepInv' /\ SignersKept
  OBVIOUS
<1>0. \A i \in DOMAIN payload : payload[i].signer \in Nat
  BY PayloadDomain, TransactionFields DEF StepInv, FlashtestationsTypeOK
<1>1. /\ payload' = <<>> /\ nonce' = chain'.builder /\ phase' = "idle"
      /\ barrier' = 0 /\ removed' = {}
  BY DEF Commit, Discard, Restart, NoJob
<1>2. /\ chain' \in Accounts /\ height' \in 0..MaxBlocks /\ block' \in Seq(Transaction)
      /\ attestation' \in {"unasked", "none", "some"}
      /\ enableBlockProofs' \in BOOLEAN /\ revertProtection' \in BOOLEAN
  <2>1. CASE Commit
    <3> DEFINE signers == {payload[i].signer : i \in
                             {i \in DOMAIN payload : payload[i].kind = "register"
                                                       /\ payload[i].result = "logged"}}
    <3>1. signers \subseteq Nat BY <1>0
    <3>2. chain' = [registered |-> chain.registered \union signers, builder |-> nonce]
      BY <2>1 DEF Commit
    <3> HIDE DEF signers
    <3>3. chain' \in Accounts
      BY <3>1, <3>2 DEF StepInv, FlashtestationsTypeOK, Accounts
    <3>4. height < MaxBlocks BY <2>1 DEF Commit, StepInv, PhaseInv
    <3> QED BY <2>1, <3>3, <3>4, FlashtestationsAssumption
            DEF Commit, arguments, StepInv, FlashtestationsTypeOK
  <2>2. CASE Discard \/ Restart
    BY <2>2 DEF Discard, Restart, arguments, chainVars, StepInv, FlashtestationsTypeOK
  <2> QED BY <2>1, <2>2
<1>3. /\ payload' \in Seq(Transaction)
      /\ Signed' = {} /\ OfKind("register")' = {} /\ OfKind("prove")' = {}
  BY <1>1, Cleared
<1>4. chain'.builder \in Nat BY <1>2 DEF Accounts
<1>5. FlashtestationsTypeOK' BY <1>1, <1>2, <1>3, <1>4 DEF FlashtestationsTypeOK
<1>6. PhaseInv' BY <1>1 DEF PhaseInv
<1>7. AllOrNothing' BY <1>3 DEF AllOrNothing
<1>8. BuilderNonces'
  <2>1. chain'.builder..(chain'.builder - 1) = {} BY <1>4
  <2>2. {payload'[i].nonce : i \in Signed'} = {} BY <1>3
  <2> QED BY <1>1, <1>3, <2>1, <2>2 DEF BuilderNonces
<1>9. ProofCoversWhatPrecedes' BY <1>3 DEF ProofCoversWhatPrecedes
<1>10. chain'.builder <= nonce' BY <1>1, <1>4
<1>11. SignersKept BY <1>3 DEF SignersKept
<1> QED BY <1>5, <1>6, <1>7, <1>8, <1>9, <1>10, <1>11 DEF StepInv

\* The steps that leave the payload as it is.
LEMMA SamePayloadStep ==
  StepInv /\ (Setup \/ Publish \/ NextFlashblock \/ UNCHANGED ftVars) => StepInv' /\ SignersKept
<1> SUFFICES ASSUME StepInv, Setup \/ Publish \/ NextFlashblock \/ UNCHANGED ftVars
             PROVE  StepInv' /\ SignersKept
  OBVIOUS
<1>1. /\ UNCHANGED <<enableBlockProofs, revertProtection, chain, height, block, payload,
                     nonce, removed>>
      /\ attestation' \in {"unasked", "none", "some"}
      /\ \/ phase' = phase
         \/ /\ phase \in {"publish", "published"}
            /\ phase' \in {"published", "building"}
  BY DEF Setup, Publish, NextFlashblock, ftVars, arguments, chainVars, jobVars, StepInv,
         FlashtestationsTypeOK
<1>2. barrier' \in Nat
  BY PayloadDomain DEF Setup, Publish, NextFlashblock, ftVars, jobVars, StepInv,
                       FlashtestationsTypeOK
<1>3. UNCHANGED Signed /\ \A kind : UNCHANGED OfKind(kind) BY <1>1 DEF Signed, OfKind
<1>4. FlashtestationsTypeOK' BY <1>1, <1>2 DEF StepInv, FlashtestationsTypeOK
<1>5. PhaseInv' BY <1>1, <1>3 DEF StepInv, PhaseInv
<1>6. AllOrNothing' BY <1>1, <1>3 DEF StepInv, AllOrNothing
<1>7. BuilderNonces' BY <1>1, <1>3 DEF StepInv, BuilderNonces
<1>8. ProofCoversWhatPrecedes'
  BY <1>1, <1>3 DEF StepInv, ProofCoversWhatPrecedes, BeforeWithoutOrders
<1>9. SignersKept BY <1>1, <1>3 DEF SignersKept
<1> QED BY <1>1, <1>4, <1>5, <1>6, <1>7, <1>8, <1>9 DEF StepInv

LEMMA AppendStep == StepInv /\ AppendOrders => StepInv' /\ SignersKept
<1> SUFFICES ASSUME StepInv, AppendOrders PROVE StepInv' /\ SignersKept
  OBVIOUS
<1> DEFINE tx == Plain("order")
<1>1. /\ phase = "building" /\ payload' = Append(payload, tx)
      /\ UNCHANGED <<enableBlockProofs, revertProtection, attestation, chain, height, block,
                     phase, nonce, barrier, removed>>
  BY DEF AppendOrders, arguments, chainVars
<1>2. tx \in Transaction /\ tx.kind = "order" BY PlainType DEF Kinds
<1>3. payload \in Seq(Transaction) BY DEF StepInv, FlashtestationsTypeOK
<1>4. tx.kind \notin SignedKinds BY <1>2 DEF SignedKinds
<1> HIDE DEF tx
<1>5. /\ payload' \in Seq(Transaction)
      /\ \A i \in DOMAIN payload : payload'[i] = payload[i]
      /\ Signed' = Signed
      /\ OfKind("register")' = OfKind("register") /\ OfKind("prove")' = OfKind("prove")
  <2>1. /\ payload' \in Seq(Transaction)
        /\ \A i \in DOMAIN payload : payload'[i] = payload[i]
        /\ Signed' = Signed \union (IF tx.kind \in SignedKinds THEN {Len(payload) + 1} ELSE {})
        /\ \A kind : OfKind(kind)' =
             OfKind(kind) \union (IF tx.kind = kind THEN {Len(payload) + 1} ELSE {})
    BY <1>1, <1>2, <1>3, Appended
  <2>2. Signed' = Signed BY <1>4, <2>1
  <2>3. OfKind("register")' = OfKind("register") /\ OfKind("prove")' = OfKind("prove")
    BY <1>2, <2>1
  <2> QED BY <2>1, <2>2, <2>3
<1>6. \A i \in OfKind("prove") :
        {Hash(payload'[k]) : k \in BeforeWithoutOrders(i)'} =
          {Hash(payload[k]) : k \in BeforeWithoutOrders(i)}
  BY <1>1, <1>2, <1>3, AppendKeepsProofs
<1>7. \A kind : \A i \in OfKind(kind) : payload'[i] = payload[i] BY <1>5 DEF OfKind
<1>8. FlashtestationsTypeOK' BY <1>1, <1>5 DEF StepInv, FlashtestationsTypeOK
<1>9. PhaseInv' BY <1>1 DEF PhaseInv, StepInv
<1>10. AllOrNothing'
  <2>1. ASSUME NEW i \in OfKind("prove")'
        PROVE  /\ enableBlockProofs'
               /\ \E k \in OfKind("register")' :
                    k < i /\ payload'[i].nonce = payload'[k].nonce + 1
    <3>1. i \in OfKind("prove") /\ payload'[i] = payload[i] BY <1>5, <1>7
    <3>2. PICK k \in OfKind("register") : k < i /\ payload[i].nonce = payload[k].nonce + 1
      BY <3>1 DEF StepInv, AllOrNothing
    <3>3. k \in OfKind("register")' /\ payload'[k] = payload[k] BY <1>5, <1>7
    <3>4. enableBlockProofs' BY <1>1, <3>1 DEF StepInv, AllOrNothing
    <3> QED BY <3>1, <3>2, <3>3, <3>4
  <2>2. enableBlockProofs' /\ OfKind("register")' # {} =>
          OfKind("prove")' # {} \/ "prove" \in removed'
    BY <1>1, <1>5 DEF StepInv, AllOrNothing
  <2> QED BY <2>1, <2>2 DEF AllOrNothing
<1>11. BuilderNonces'
  <2>1. \A i \in Signed : payload'[i] = payload[i] BY <1>5 DEF Signed
  <2> QED BY <1>1, <1>5, <2>1 DEF StepInv, BuilderNonces
<1>12. ProofCoversWhatPrecedes'
  BY <1>5, <1>6, <1>7 DEF StepInv, ProofCoversWhatPrecedes
<1>13. SignersKept BY <1>5, <1>7 DEF SignersKept
<1> QED BY <1>1, <1>8, <1>9, <1>10, <1>11, <1>12, <1>13 DEF StepInv

LEMMA EpilogueStep == StepInv /\ BuilderEpilogue => StepInv' /\ SignersKept
<1> SUFFICES ASSUME StepInv, BuilderEpilogue PROVE StepInv' /\ SignersKept
  OBVIOUS
<1> DEFINE tx == Plain("epilogue")
<1>1. /\ phase = "building" /\ phase' = "publish" /\ Execute(tx)
      /\ UNCHANGED <<enableBlockProofs, revertProtection, attestation, chain, height, block>>
  BY DEF BuilderEpilogue, arguments, chainVars
<1>2. tx \in Transaction /\ tx.kind = "epilogue" /\ tx.kind \in SignedKinds
  BY PlainType DEF Kinds, SignedKinds
<1> HIDE DEF tx
<1>3. /\ payload' \in Seq(Transaction) /\ nonce' \in Nat
      /\ chain.builder <= nonce' /\ BuilderNonces'
      /\ UNCHANGED <<barrier, removed>>
      /\ \A kind : OfKind(kind)' =
           OfKind(kind) \union (IF tx.kind = kind THEN {Len(payload) + 1} ELSE {})
      /\ \A i \in DOMAIN payload : payload'[i] = payload[i]
      /\ \A i \in OfKind("prove") :
           {Hash(payload'[k]) : k \in BeforeWithoutOrders(i)'} =
             {Hash(payload[k]) : k \in BeforeWithoutOrders(i)}
  BY <1>1, <1>2, Executed
<1>4. OfKind("register")' = OfKind("register") /\ OfKind("prove")' = OfKind("prove")
  BY <1>2, <1>3
<1>5. \A kind : \A i \in OfKind(kind) : payload'[i] = payload[i] BY <1>3 DEF OfKind
<1>6. FlashtestationsTypeOK' BY <1>1, <1>3 DEF StepInv, FlashtestationsTypeOK
<1>7. PhaseInv' BY <1>1 DEF PhaseInv, StepInv
<1>8. AllOrNothing' BY <1>1, <1>3, <1>4, <1>5 DEF StepInv, AllOrNothing
<1>9. ProofCoversWhatPrecedes'
  BY <1>3, <1>4, <1>5 DEF StepInv, ProofCoversWhatPrecedes
<1>10. SignersKept BY <1>4, <1>5 DEF SignersKept
<1> QED BY <1>1, <1>3, <1>6, <1>7, <1>8, <1>9, <1>10 DEF StepInv

LEMMA PermitStep ==
  ASSUME StepInv, teeSigner \in Nat, AddPermitTransaction
  PROVE  /\ StepInv'
         /\ \A i \in OfKind("register")' : payload'[i].signer = teeSigner
<1>1. /\ phase = "register" /\ phase' = IF enableBlockProofs THEN "prove" ELSE "building"
      /\ UNCHANGED <<enableBlockProofs, revertProtection, attestation, chain, height, block>>
  BY DEF AddPermitTransaction, arguments, chainVars
<1>2. PICK result \in Validated :
        Execute([Plain("register") EXCEPT !.signer = teeSigner, !.result = result])
  BY DEF AddPermitTransaction
<1> DEFINE tx == [Plain("register") EXCEPT !.signer = teeSigner, !.result = result]
<1>3. tx \in Transaction /\ tx.kind = "register" /\ tx.signer = teeSigner
  BY DEF Plain, Transaction, Kinds, Validated
<1>4. tx.kind \in SignedKinds BY <1>3 DEF SignedKinds
<1>5. Execute(tx) BY <1>2
<1> HIDE DEF tx
<1>6. /\ payload' \in Seq(Transaction) /\ Len(payload') = Len(payload) + 1
      /\ nonce' \in Nat /\ nonce' = nonce + 1 /\ chain.builder <= nonce'
      /\ UNCHANGED <<barrier, removed>>
      /\ BuilderNonces'
      /\ \A kind : OfKind(kind)' =
           OfKind(kind) \union (IF tx.kind = kind THEN {Len(payload) + 1} ELSE {})
      /\ payload'[Len(payload) + 1].signer = tx.signer
      /\ payload'[Len(payload) + 1].nonce = nonce
  BY <1>1, <1>3, <1>4, <1>5, Executed
<1>7. /\ Len(payload) = 1 /\ height < MaxBlocks
      /\ OfKind("register") = {} /\ OfKind("prove") = {} /\ OfKind("order") = {}
  BY <1>1 DEF StepInv, PhaseInv
<1>8. /\ OfKind("register")' = {2} /\ OfKind("prove")' = {} /\ OfKind("order")' = {}
      /\ Len(payload') = 2
      /\ payload'[2].signer = teeSigner /\ payload'[2].nonce + 1 = nonce'
  BY <1>3, <1>6, <1>7
<1>9. FlashtestationsTypeOK' BY <1>1, <1>6 DEF StepInv, FlashtestationsTypeOK
<1>10. PhaseInv' BY <1>1, <1>7, <1>8 DEF PhaseInv
<1>11. AllOrNothing'
  <2>1. enableBlockProofs \in BOOLEAN BY DEF StepInv, FlashtestationsTypeOK
  <2>2. CASE enableBlockProofs BY <1>1, <1>8, <2>2 DEF AllOrNothing
  <2>3. CASE ~enableBlockProofs BY <1>1, <1>8, <2>1, <2>3 DEF AllOrNothing
  <2> QED BY <2>2, <2>3
<1>12. ProofCoversWhatPrecedes' BY <1>8 DEF ProofCoversWhatPrecedes
<1> QED BY <1>1, <1>6, <1>8, <1>9, <1>10, <1>11, <1>12 DEF StepInv

LEMMA BlockProofStep ==
  ASSUME StepInv, teeSigner \in Nat, AddBlockProofTransaction
  PROVE  StepInv' /\ SignersKept
<1>1. /\ phase = "prove" /\ phase' = "building"
      /\ UNCHANGED <<enableBlockProofs, revertProtection, attestation, chain, height, block>>
  BY DEF AddBlockProofTransaction, arguments, chainVars
<1> DEFINE hashes == {Hash(payload[k]) : k \in DOMAIN payload}
<1>2. PICK result \in Validated :
        Execute([Plain("prove") EXCEPT
                   !.signer = teeSigner, !.covers = hashes, !.result = result])
  BY DEF AddBlockProofTransaction
<1>3. /\ enableBlockProofs /\ Len(payload) = 2 /\ height < MaxBlocks
      /\ OfKind("register") = {2} /\ OfKind("prove") = {} /\ OfKind("order") = {}
      /\ payload[2].nonce + 1 = nonce
  BY <1>1 DEF StepInv, PhaseInv
<1>4. hashes \in SUBSET (Kinds \X Nat)
  <2>1. \A i \in DOMAIN payload : payload[i] \in Transaction
    BY PayloadDomain DEF StepInv, FlashtestationsTypeOK
  <2>2. \A i \in DOMAIN payload : payload[i].kind \in Kinds /\ payload[i].nonce \in Nat
    BY <2>1, TransactionFields
  <2> QED BY <2>2 DEF Hash
<1>5. /\ DOMAIN payload = {1, 2}
      /\ hashes = {Hash(payload[k]) : k \in {1, 2}} /\ 2 \in OfKind("register")
  BY <1>3, PayloadDomain DEF StepInv, FlashtestationsTypeOK
<1> HIDE DEF hashes
<1> DEFINE tx == [Plain("prove") EXCEPT
                    !.signer = teeSigner, !.covers = hashes, !.result = result]
<1>6. tx \in Transaction /\ tx.kind = "prove" /\ tx.covers = hashes
  BY <1>4 DEF Plain, Transaction, Kinds, Validated
<1>7. tx.kind \in SignedKinds BY <1>6 DEF SignedKinds
<1>8. Execute(tx) BY <1>2
<1> HIDE DEF tx
<1>9. /\ payload' \in Seq(Transaction) /\ Len(payload') = Len(payload) + 1
      /\ nonce' \in Nat /\ nonce' = nonce + 1 /\ chain.builder <= nonce'
      /\ UNCHANGED <<barrier, removed>>
      /\ BuilderNonces'
      /\ \A kind : OfKind(kind)' =
           OfKind(kind) \union (IF tx.kind = kind THEN {Len(payload) + 1} ELSE {})
      /\ \A i \in DOMAIN payload : payload'[i] = payload[i]
      /\ payload'[Len(payload) + 1].covers = tx.covers
      /\ payload'[Len(payload) + 1].nonce = nonce
  BY <1>1, <1>6, <1>7, <1>8, Executed
<1>10. /\ OfKind("register")' = {2} /\ OfKind("prove")' = {3} /\ OfKind("order")' = {}
       /\ payload'[3].covers = hashes /\ payload'[3].nonce = nonce
       /\ payload'[1] = payload[1] /\ payload'[2] = payload[2]
  BY <1>3, <1>5, <1>6, <1>9
<1>11. FlashtestationsTypeOK' BY <1>1, <1>9 DEF StepInv, FlashtestationsTypeOK
<1>12. PhaseInv' BY <1>1, <1>3 DEF PhaseInv
<1>13. AllOrNothing' BY <1>1, <1>3, <1>10 DEF AllOrNothing
<1>14. BeforeWithoutOrders(3)' = {1, 2}
  <2>1. 1..(3 - 1) = {1, 2} OBVIOUS
  <2>2. payload[1].kind # "order" /\ payload[2].kind # "order"
    BY <1>3, <1>5 DEF OfKind
  <2> QED BY <1>10, <2>1, <2>2 DEF BeforeWithoutOrders
<1>15. ProofCoversWhatPrecedes'
  BY <1>5, <1>10, <1>14 DEF ProofCoversWhatPrecedes
<1>16. SignersKept BY <1>3, <1>10 DEF SignersKept
<1> QED BY <1>1, <1>9, <1>11, <1>12, <1>13, <1>15, <1>16 DEF StepInv

LEMMA SortStep == StepInv /\ OrderByPriorityFee => StepInv' /\ SignersKept
<1> SUFFICES ASSUME StepInv, OrderByPriorityFee PROVE StepInv' /\ SignersKept
  OBVIOUS
<1>1. /\ phase = "building"
      /\ UNCHANGED <<enableBlockProofs, revertProtection, attestation, chain, height, block,
                     phase, nonce, barrier, removed>>
  BY DEF OrderByPriorityFee, arguments, chainVars
<1>2. PICK i \in Staged :
        /\ i + 1 \in Staged
        /\ "order" \in {payload[i].kind, payload[i + 1].kind}
        /\ payload' \in
             ExecutedAgain([payload EXCEPT ![i] = payload[i + 1], ![i + 1] = payload[i]], i)
  BY DEF OrderByPriorityFee
<1> DEFINE p == [payload EXCEPT ![i] = payload[i + 1], ![i + 1] = payload[i]]
           f == [k \in DOMAIN payload |->
                   IF k = i THEN i + 1 ELSE IF k = i + 1 THEN i ELSE k]
<1>3. /\ Len(payload) \in Nat /\ DOMAIN payload = 1..Len(payload)
      /\ \A k \in DOMAIN payload : payload[k] \in Transaction
      /\ payload \in Seq(Transaction)
  BY PayloadDomain DEF StepInv, FlashtestationsTypeOK
<1>4. i \in DOMAIN payload /\ i + 1 \in DOMAIN payload /\ i \in Nat
  BY <1>2, <1>3 DEF Staged
<1>5. p \in Seq(Transaction) /\ DOMAIN p = DOMAIN payload
      /\ \A k \in DOMAIN payload : p[k] = payload[f[k]]
  <2> DEFINE T == Transaction
  <2>1. payload \in Seq(T) /\ payload[i] \in T /\ payload[i + 1] \in T BY <1>3, <1>4
  <2> HIDE DEF T
  <2>2. p \in Seq(T) BY <1>4, <2>1
  <2>3. DOMAIN p = DOMAIN payload OBVIOUS
  <2>4. \A k \in DOMAIN payload : p[k] = payload[f[k]] BY <1>4
  <2> QED BY <2>2, <2>3, <2>4 DEF T
<1>6. /\ payload' \in Seq(Transaction) /\ DOMAIN payload' = DOMAIN payload
      /\ \A k \in DOMAIN payload :
           /\ payload'[k].kind = p[k].kind /\ payload'[k].nonce = p[k].nonce
           /\ payload'[k].signer = p[k].signer /\ payload'[k].covers = p[k].covers
  <2>1. payload' \in ExecutedAgain(p, i) BY <1>2
  <2> HIDE DEF p
  <2> QED BY <1>4, <1>5, <2>1, ExecutedAgainKeeps
<1>7. /\ f \in [DOMAIN payload' -> DOMAIN payload]
      /\ \A k \in DOMAIN payload' : f[k] # 0
      /\ \A k \in DOMAIN payload : \E m \in DOMAIN payload' : f[m] = k
  <2>1. \A k \in DOMAIN payload : f[k] \in DOMAIN payload /\ f[k] # 0 BY <1>3, <1>4
  <2>2. ASSUME NEW k \in DOMAIN payload PROVE \E m \in DOMAIN payload : f[m] = k
    <3>1. f[k] \in DOMAIN payload /\ f[f[k]] = k BY <1>3, <1>4
    <3> QED BY <3>1
  <2> QED BY <1>6, <2>1, <2>2
<1>8. \A k, m \in DOMAIN payload' :
        payload'[k].kind # "order" /\ payload'[m].kind # "order" => (k < m <=> f[k] < f[m])
  <2> SUFFICES ASSUME NEW k \in DOMAIN payload, NEW m \in DOMAIN payload,
                      payload[f[k]].kind # "order", payload[f[m]].kind # "order"
               PROVE  k < m <=> f[k] < f[m]
    BY <1>5, <1>6
  <2>1. ~({k, m} = {i, i + 1})
    <3>1. f[i] = i + 1 /\ f[i + 1] = i BY <1>3, <1>4
    <3> QED BY <1>2, <3>1
  <2>2. k \in Nat /\ m \in Nat BY <1>3
  <2>3. /\ f[k] = IF k = i THEN i + 1 ELSE IF k = i + 1 THEN i ELSE k
        /\ f[m] = IF m = i THEN i + 1 ELSE IF m = i + 1 THEN i ELSE m
    OBVIOUS
  <2>4. ~(k = i /\ m = i + 1) /\ ~(k = i + 1 /\ m = i) BY <2>1
  <2> HIDE DEF f
  <2> QED BY <1>4, <2>2, <2>3, <2>4
<1>9. \A k \in DOMAIN payload' :
        /\ payload'[k].kind = payload[f[k]].kind /\ payload'[k].nonce = payload[f[k]].nonce
        /\ payload'[k].signer = payload[f[k]].signer
        /\ payload'[k].covers = payload[f[k]].covers
  BY <1>5, <1>6
<1>10. 0 \notin DOMAIN payload /\ 0 \notin Signed /\ 0 \notin OfKind("prove")
  BY <1>3 DEF Signed, OfKind
<1> HIDE DEF p, f
<1>11. Carries(f, 0) BY <1>1, <1>7, <1>8, <1>9, <1>10 DEF Carries
<1>12. /\ nonce' \in Nat /\ chain.builder <= nonce'
       /\ AllOrNothing' /\ BuilderNonces' /\ ProofCoversWhatPrecedes' /\ SignersKept
  BY <1>1, <1>6, <1>10, <1>11, Carried
<1>13. FlashtestationsTypeOK' BY <1>1, <1>6 DEF StepInv, FlashtestationsTypeOK
<1>14. PhaseInv' BY <1>1 DEF StepInv, PhaseInv
<1> QED BY <1>1, <1>12, <1>13, <1>14 DEF StepInv

\* What RemoveAt leaves, and whence.
LEMMA RemoveCarries ==
  ASSUME NEW T, NEW p \in Seq(T), NEW i \in DOMAIN p
  PROVE  /\ RemoveAt(p, i) \in Seq(T)
         /\ DOMAIN RemoveAt(p, i) = 1..(Len(p) - 1)
         /\ \A k \in 1..(Len(p) - 1) :
              RemoveAt(p, i)[k] = p[IF k < i THEN k ELSE k + 1]
<1> DEFINE head == SubSeq(p, 1, i - 1)
           rest == SubSeq(p, i + 1, Len(p))
<1>1. /\ Len(p) \in Nat /\ DOMAIN p = 1..Len(p) /\ i \in 1..Len(p)
      /\ \A m \in 1..Len(p) : p[m] \in T
  OBVIOUS
<1>2. /\ head \in Seq(T) /\ Len(head) = i - 1
      /\ \A m \in 1..(i - 1) : head[m] = p[m]
  <2>1. 1 \in Int /\ i - 1 \in Int /\ \A m \in 1..(i - 1) : p[m] \in T BY <1>1
  <2>2. /\ head \in Seq(T)
        /\ Len(head) = IF 1 <= i - 1 THEN (i - 1) - 1 + 1 ELSE 0
        /\ \A m \in 1..((i - 1) - 1 + 1) : head[m] = p[1 + m - 1]
    BY <2>1, SubSeqProperties
  <2> QED BY <1>1, <2>2
<1>3. /\ rest \in Seq(T) /\ Len(rest) = Len(p) - i
      /\ \A m \in 1..(Len(p) - i) : rest[m] = p[m + i]
  <2>1. i + 1 \in Int /\ Len(p) \in Int /\ \A m \in (i + 1)..Len(p) : p[m] \in T BY <1>1
  <2>2. /\ rest \in Seq(T)
        /\ Len(rest) = IF i + 1 <= Len(p) THEN Len(p) - (i + 1) + 1 ELSE 0
        /\ \A m \in 1..(Len(p) - (i + 1) + 1) : rest[m] = p[(i + 1) + m - 1]
    BY <2>1, SubSeqProperties
  <2>3. Len(rest) = Len(p) - i BY <1>1, <2>2
  <2>4. ASSUME NEW m \in 1..(Len(p) - i) PROVE rest[m] = p[m + i]
    <3>1. m \in 1..(Len(p) - (i + 1) + 1) /\ (i + 1) + m - 1 = m + i BY <1>1
    <3> QED BY <2>2, <3>1
  <2> QED BY <2>2, <2>3, <2>4
<1>4. RemoveAt(p, i) = head \o rest BY DEF RemoveAt
<1> HIDE DEF head, rest
<1>5. /\ head \o rest \in Seq(T)
      /\ Len(head \o rest) = Len(head) + Len(rest)
      /\ \A m \in 1..(Len(head) + Len(rest)) :
           (head \o rest)[m] = IF m <= Len(head) THEN head[m] ELSE rest[m - Len(head)]
  BY <1>2, <1>3, ConcatProperties
<1>6. Len(head) + Len(rest) = Len(p) - 1 BY <1>1, <1>2, <1>3
<1> DEFINE q == head \o rest
<1>7. /\ q \in Seq(T) /\ Len(q) = Len(p) - 1
      /\ \A m \in 1..(Len(p) - 1) :
           q[m] = IF m <= Len(head) THEN head[m] ELSE rest[m - Len(head)]
  BY <1>5, <1>6
<1> HIDE DEF q
<1>8. ASSUME NEW m \in 1..(Len(p) - 1) PROVE q[m] = p[IF m < i THEN m ELSE m + 1]
  <2>1. CASE m < i
    <3>1. m \in 1..(i - 1) /\ m <= Len(head) BY <1>1, <1>2, <2>1
    <3> QED BY <1>2, <1>7, <2>1, <3>1
  <2>2. CASE ~(m < i)
    <3>1. m - (i - 1) \in 1..(Len(p) - i) /\ ~(m <= Len(head)) BY <1>1, <1>2, <2>2
    <3>2. q[m] = rest[m - (i - 1)] BY <1>2, <1>7, <3>1
    <3>3. rest[m - (i - 1)] = p[(m - (i - 1)) + i] BY <1>3, <3>1
    <3>4. (m - (i - 1)) + i = m + 1 BY <1>1
    <3> QED BY <2>2, <3>2, <3>3, <3>4
  <2> QED BY <2>1, <2>2
<1>9. DOMAIN q = 1..(Len(p) - 1) BY <1>7
<1> QED BY <1>4, <1>7, <1>8, <1>9 DEF q

LEMMA RemoveStep == StepInv /\ RemoveRevertedTransactions => StepInv' /\ SignersKept
<1> SUFFICES ASSUME StepInv, RemoveRevertedTransactions PROVE StepInv' /\ SignersKept
  OBVIOUS
<1>1. /\ phase = "building"
      /\ UNCHANGED <<enableBlockProofs, revertProtection, attestation, chain, height, block,
                     phase, barrier>>
  BY DEF RemoveRevertedTransactions, RemoveRevertedOrder, RemoveRevertedSigned, arguments,
         chainVars
<1>2. /\ Len(payload) \in Nat /\ DOMAIN payload = 1..Len(payload)
      /\ payload \in Seq(Transaction)
      /\ \A k \in DOMAIN payload : payload[k].kind \in Kinds
  BY PayloadDomain, TransactionFields DEF StepInv, FlashtestationsTypeOK
<1>3. PICK i \in DOMAIN payload :
        /\ payload' \in ExecutedAgain(RemoveAt(payload, i), i)
        /\ \/ payload[i].kind = "order" /\ UNCHANGED <<nonce, removed>>
           \/ /\ i \in Signed /\ \A k \in Signed : k <= i
              /\ nonce' = payload[i].nonce
              /\ removed' = removed \union {payload[i].kind}
  BY DEF RemoveRevertedTransactions, RemoveRevertedOrder, RemoveRevertedSigned, Signed, Staged
<1> DEFINE p == RemoveAt(payload, i)
           f == [k \in 1..(Len(payload) - 1) |-> IF k < i THEN k ELSE k + 1]
<1>4. /\ p \in Seq(Transaction) /\ DOMAIN p = 1..(Len(payload) - 1)
      /\ \A k \in 1..(Len(payload) - 1) : p[k] = payload[f[k]]
  <2>1. /\ RemoveAt(payload, i) \in Seq(Transaction)
        /\ DOMAIN RemoveAt(payload, i) = 1..(Len(payload) - 1)
        /\ \A k \in 1..(Len(payload) - 1) :
             RemoveAt(payload, i)[k] = payload[IF k < i THEN k ELSE k + 1]
    BY <1>2, RemoveCarries
  <2> QED BY <2>1
<1>5. i \in Nat BY <1>2
<1>6. /\ payload' \in Seq(Transaction) /\ DOMAIN payload' = 1..(Len(payload) - 1)
      /\ \A k \in DOMAIN payload' :
           /\ payload'[k].kind = p[k].kind /\ payload'[k].nonce = p[k].nonce
           /\ payload'[k].signer = p[k].signer /\ payload'[k].covers = p[k].covers
  <2>1. payload' \in ExecutedAgain(p, i) BY <1>3
  <2> HIDE DEF p
  <2> QED BY <1>4, <1>5, <2>1, ExecutedAgainKeeps
<1>7. /\ f \in [DOMAIN payload' -> DOMAIN payload]
      /\ \A k \in DOMAIN payload' : f[k] # i
      /\ \A k, m \in DOMAIN payload' : k < m <=> f[k] < f[m]
      /\ \A k \in DOMAIN payload : k # i => \E m \in DOMAIN payload' : f[m] = k
  <2>1. \A k \in 1..(Len(payload) - 1) : f[k] \in 1..Len(payload) /\ f[k] # i BY <1>2, <1>5
  <2>2. f \in [DOMAIN payload' -> DOMAIN payload] BY <1>2, <1>6, <2>1
  <2>3. ASSUME NEW k \in 1..(Len(payload) - 1), NEW m \in 1..(Len(payload) - 1)
        PROVE  k < m <=> f[k] < f[m]
    BY <1>2, <1>5
  <2>4. ASSUME NEW k \in DOMAIN payload, k # i
        PROVE  \E m \in 1..(Len(payload) - 1) : f[m] = k
    <3>1. CASE k < i
      <4>1. k \in 1..(Len(payload) - 1) BY <1>2, <1>5, <3>1
      <4> QED BY <3>1, <4>1
    <3>2. CASE ~(k < i)
      <4>1. k - 1 \in 1..(Len(payload) - 1) /\ ~(k - 1 < i) /\ (k - 1) + 1 = k
        BY <1>2, <1>5, <2>4, <3>2
      <4> QED BY <4>1
    <3> QED BY <3>1, <3>2
  <2> QED BY <1>6, <2>1, <2>2, <2>3, <2>4
<1>8. \A k \in DOMAIN payload' :
        /\ payload'[k].kind = payload[f[k]].kind /\ payload'[k].nonce = payload[f[k]].nonce
        /\ payload'[k].signer = payload[f[k]].signer
        /\ payload'[k].covers = payload[f[k]].covers
  BY <1>4, <1>6
<1> HIDE DEF p, f
<1>9. /\ i \in Signed => \A k \in Signed : k <= i
      /\ i \in Signed \union OfKind("order")
      /\ nonce' = IF i \in Signed THEN payload[i].nonce ELSE nonce
      /\ removed \subseteq removed' /\ removed' \subseteq Kinds
      /\ i \in OfKind("prove") => "prove" \in removed'
  <2>0. removed \subseteq Kinds BY DEF StepInv, FlashtestationsTypeOK
  <2>1. CASE payload[i].kind = "order" /\ UNCHANGED <<nonce, removed>>
    <3>1. i \notin Signed /\ i \in OfKind("order") /\ i \notin OfKind("prove")
      BY <2>1 DEF Signed, SignedKinds, OfKind
    <3> QED BY <2>0, <2>1, <3>1
  <2>2. CASE i \in Signed /\ (\A k \in Signed : k <= i) /\ nonce' = payload[i].nonce
               /\ removed' = removed \union {payload[i].kind}
    <3>1. i \in OfKind("prove") => payload[i].kind = "prove" BY DEF OfKind
    <3> QED BY <1>2, <2>0, <2>2, <3>1
  <2> QED BY <1>3, <2>1, <2>2
<1>10. Carries(f, i) BY <1>7, <1>8, <1>9 DEF Carries
<1>11. /\ nonce' \in Nat /\ chain.builder <= nonce'
       /\ AllOrNothing' /\ BuilderNonces' /\ ProofCoversWhatPrecedes' /\ SignersKept
  BY <1>1, <1>6, <1>9, <1>10, Carried
<1>12. FlashtestationsTypeOK' BY <1>1, <1>6, <1>9, <1>11 DEF StepInv, FlashtestationsTypeOK
<1>13. PhaseInv' BY <1>1 DEF StepInv, PhaseInv
<1> QED BY <1>1, <1>11, <1>12, <1>13 DEF StepInv

\* A step of the program keeps StepInv, and only the prologue registers a key.
LEMMA JobStep ==
  ASSUME StepInv, Job, teeSigner \in Nat
  PROVE  /\ StepInv'
         /\ SignersKept \/ \A i \in OfKind("register")' : payload'[i].signer = teeSigner
BY PrologueStep, IdleStep, SamePayloadStep, AppendStep, EpilogueStep, PermitStep,
   BlockProofStep, SortStep, RemoveStep DEF Job, Prologue, Fill

----------------------------------------------------------------------------
(* The key *)

UsedKeys == {used[i].key : i \in DOMAIN used}

LossIndices == {i \in 2..Len(used) : used[i].lost}

LastUsed == used[Len(used)].key

\* The program works with the key of the file, and on a block only while it runs.
RunInv ==
  /\ phase # "idle" => proc = "running"
  /\ proc = "running" => /\ exists /\ content = teeSigner
                         /\ used # <<>> /\ teeSigner = LastUsed
  /\ proc \in {"opening", "writing"} => teeSigner # Key!NoKey
  /\ proc = "writing" => exists

\* Unless it was lost, the file holds the key last served with, and it is not
\* being replaced.
KeptInv ==
  ~lost /\ used # <<>> =>
    /\ proc \in {"down", "loading", "running"}
    /\ exists /\ content = LastUsed

\* Every key served with is the first or follows a loss.
OriginInv ==
  \A i \in DOMAIN used :
    used[i].key = used[1].key \/ \E k \in LossIndices : used[i].key = used[k].key

\* Only keys served with are registered, on the chain or in a payload.
RegisteredInv ==
  /\ chain.registered \subseteq UsedKeys
  /\ \A i \in OfKind("register") : payload[i].signer \in UsedKeys

KeyInv ==
  Key!TypeOK /\ RunInv /\ KeptInv /\ OriginInv /\ KeySurvivesCrashes

\* load_or_generate_tee_key returns k, which the file holds.
LEMMA Served ==
  ASSUME KeyInv, NEW k \in 1..MaxKeys, Key!Serve(k), exists', content' = k,
         ~lost /\ used # <<>> => k = LastUsed,
         UNCHANGED <<generated, starts>>
  PROVE  KeyInv'
<1> DEFINE R == [key : 1..MaxKeys, lost : BOOLEAN]
           r == [key |-> k, lost |-> lost]
           n == Len(used) + 1
<1>0. MaxKeys \in Nat BY ServiceAssumption
<1>1. /\ proc' = "running" /\ teeSigner' = k /\ lost' = FALSE
      /\ used' = Append(used, r)
  BY DEF Key!Serve
<1>2. used \in Seq(R) /\ lost \in BOOLEAN /\ r \in R /\ r.key = k /\ r.lost = lost
  BY DEF KeyInv, Key!TypeOK
<1> HIDE DEF r, R
<1>3. /\ used' \in Seq(R) /\ Len(used') = n /\ Len(used) \in Nat
      /\ DOMAIN used = 1..Len(used) /\ DOMAIN used' = 1..n
      /\ used'[n] = r
      /\ \A i \in DOMAIN used : used'[i] = used[i]
  BY <1>1, <1>2
<1>4. used' # <<>> /\ LastUsed' = k BY <1>2, <1>3 DEF LastUsed
<1>5. Key!TypeOK'
  <2>1. exists' \in BOOLEAN /\ content' \in 0..MaxKeys /\ teeSigner' \in 0..MaxKeys
    <3>1. exists' = TRUE \/ exists' \in BOOLEAN
      OBVIOUS
    <3> QED BY <1>0, <1>1, <3>1
  <2> QED BY <1>1, <1>3, <2>1 DEF KeyInv, Key!TypeOK, R
<1>6. RunInv' BY <1>1, <1>4 DEF RunInv
<1>7. KeptInv' BY <1>1, <1>4 DEF KeptInv
<1>8. LossIndices' = LossIndices \union (IF lost /\ n >= 2 THEN {n} ELSE {})
  <2>1. 2..Len(used') = (2..Len(used)) \union (IF n >= 2 THEN {n} ELSE {}) BY <1>3
  <2>2. \A i \in 2..Len(used) : i \in DOMAIN used /\ i # n BY <1>3
  <2> QED BY <1>2, <1>3, <2>1, <2>2 DEF LossIndices
<1>9. CASE used = <<>>
  <2>1. Len(used) = 0 /\ n = 1 BY <1>9
  <2>2. DOMAIN used' = {1} /\ 2..Len(used') = {} BY <1>3, <2>1
  <2> QED BY <1>5, <1>6, <1>7, <2>2 DEF KeyInv, OriginInv, KeySurvivesCrashes
<1>10. CASE used # <<>>
  <2>1. Len(used) >= 1 /\ n >= 2 /\ Len(used) \in DOMAIN used /\ 1 \in DOMAIN used
    BY <1>2, <1>3, <1>10
  <2>2. \A i \in LossIndices : i \in DOMAIN used BY <1>3 DEF LossIndices
  <2>3. \A i \in DOMAIN used :
          used'[i].key = used'[1].key \/ \E m \in LossIndices : used'[i].key = used'[m].key
    <3> SUFFICES ASSUME NEW i \in DOMAIN used
                 PROVE  \/ used'[i].key = used'[1].key
                        \/ \E m \in LossIndices : used'[i].key = used'[m].key
      OBVIOUS
    <3>1. used'[i] = used[i] /\ used'[1] = used[1] BY <1>3, <2>1
    <3>2. CASE used[i].key = used[1].key BY <3>1, <3>2
    <3>3. CASE used[i].key # used[1].key
      <4>1. PICK m \in LossIndices : used[i].key = used[m].key
        BY <3>3 DEF KeyInv, OriginInv
      <4>2. used'[m] = used[m] BY <1>3, <2>2
      <4> QED BY <3>1, <4>1, <4>2
    <3> QED BY <3>2, <3>3
  <2>4. lost \/ k = LastUsed BY <1>10
  <2>5. OriginInv'
    <3> SUFFICES ASSUME NEW i \in DOMAIN used'
                 PROVE  used'[i].key = used'[1].key
                          \/ \E m \in LossIndices' : used'[i].key = used'[m].key
      BY DEF OriginInv
    <3>1. CASE i \in DOMAIN used BY <1>8, <2>3, <3>1
    <3>2. CASE i \notin DOMAIN used
      <4>1. i = n BY <1>3, <3>2
      <4>2. CASE lost BY <1>8, <2>1, <4>1, <4>2
      <4>3. CASE ~lost
        <5>1. used'[n].key = used'[Len(used)].key BY <1>2, <1>3, <2>1, <2>4, <4>3 DEF LastUsed
        <5> QED BY <1>8, <2>1, <2>3, <4>1, <5>1
      <4> QED BY <4>2, <4>3
    <3> QED BY <3>1, <3>2
  <2>6. KeySurvivesCrashes'
    <3> SUFFICES ASSUME NEW i \in 2..Len(used'), used'[i].key # used'[i - 1].key
                 PROVE  used'[i].lost
      BY DEF KeySurvivesCrashes
    <3>1. CASE i \in 2..Len(used)
      <4>1. i \in DOMAIN used /\ i - 1 \in DOMAIN used BY <1>3, <3>1
      <4> QED BY <1>3, <3>1, <4>1 DEF KeyInv, KeySurvivesCrashes
    <3>2. CASE i \notin 2..Len(used)
      <4>1. i = n /\ i - 1 = Len(used) BY <1>3, <2>1, <3>2
      <4> QED BY <1>2, <1>3, <2>1, <2>4, <4>1 DEF LastUsed
    <3> QED BY <3>1, <3>2
  <2> QED BY <1>5, <1>6, <1>7, <2>5, <2>6 DEF KeyInv
<1> QED BY <1>9, <1>10

LEMMA StartingStep == KeyInv /\ Starting => KeyInv'
<1> SUFFICES ASSUME KeyInv, Starting PROVE KeyInv'
  OBVIOUS
<1>1. phase' = phase BY DEF Starting, ftVars, jobVars
<1>2. /\ Key!TypeOK /\ RunInv /\ KeptInv /\ MaxKeys \in Nat /\ MaxStarts \in Nat
  BY ServiceAssumption DEF KeyInv
<1>3. ASSUME used' = used
      PROVE  /\ OriginInv' /\ KeySurvivesCrashes' /\ LastUsed' = LastUsed
  BY <1>3 DEF KeyInv, OriginInv, LossIndices, KeySurvivesCrashes, LastUsed
<1>4. ASSUME used # <<>> PROVE LastUsed \in 1..MaxKeys
  <2> DEFINE R == [key : 1..MaxKeys, lost : BOOLEAN]
  <2>1. used \in Seq(R) BY <1>2 DEF Key!TypeOK
  <2>2. \A r \in R : r.key \in 1..MaxKeys OBVIOUS
  <2> HIDE DEF R
  <2>3. used[Len(used)] \in R BY <1>4, <2>1
  <2> QED BY <2>2, <2>3 DEF LastUsed
<1>5. CASE Key!Start
  <2>1. Key!TypeOK' BY <1>2, <1>5 DEF Key!Start, Key!TypeOK
  <2>2. RunInv' /\ KeptInv'
    BY <1>1, <1>2, <1>3, <1>5 DEF Key!Start, RunInv, KeptInv
  <2> QED BY <1>3, <1>5, <2>1, <2>2 DEF Key!Start, KeyInv
<1>6. CASE Key!Load
  <2>1. /\ proc = "loading" /\ exists /\ content # Key!NoKey /\ Key!Serve(content)
        /\ UNCHANGED <<exists, content, generated, starts>>
    BY <1>6 DEF Key!Load
  <2>2. content \in 1..MaxKeys BY <1>2, <2>1 DEF Key!TypeOK, Key!NoKey
  <2>3. ~lost /\ used # <<>> => content = LastUsed BY <1>2 DEF KeptInv
  <2> QED BY <2>1, <2>2, <2>3, Served
<1>7. CASE Key!LoadFails
  <2>1. Key!TypeOK' BY <1>2, <1>7 DEF Key!LoadFails, Key!TypeOK
  <2>2. RunInv' BY <1>1, <1>2, <1>7 DEF Key!LoadFails, RunInv
  <2>3. KeptInv'
    <3> SUFFICES ASSUME ~lost', used' # <<>> PROVE FALSE
      BY DEF KeptInv
    <3>1. ~lost /\ used # <<>> /\ ~(exists /\ content # Key!NoKey)
      BY <1>7 DEF Key!LoadFails
    <3>2. exists /\ content = LastUsed BY <1>2, <3>1 DEF KeptInv
    <3> QED BY <1>4, <3>1, <3>2, <1>2 DEF Key!NoKey
  <2> QED BY <1>3, <1>7, <2>1, <2>2, <2>3 DEF Key!LoadFails, KeyInv
<1>8. CASE Key!Generate
  <2>1. Key!TypeOK' BY <1>2, <1>8 DEF Key!Generate, Key!TypeOK
  <2>2. teeSigner' # Key!NoKey BY <1>2, <1>8 DEF Key!Generate, Key!TypeOK, Key!NoKey
  <2>3. RunInv' BY <1>1, <1>2, <1>8, <2>2 DEF Key!Generate, RunInv
  <2>4. KeptInv' BY <1>2, <1>8 DEF Key!Generate, KeptInv
  <2> QED BY <1>3, <1>8, <2>1, <2>3, <2>4 DEF Key!Generate, KeyInv
<1>9. CASE Key!Open
  <2>1. Key!TypeOK' BY <1>2, <1>9 DEF Key!Open, Key!TypeOK, Key!NoKey
  <2>2. RunInv' BY <1>1, <1>2, <1>9 DEF Key!Open, RunInv
  <2>3. KeptInv' BY <1>2, <1>9 DEF Key!Open, KeptInv
  <2> QED BY <1>3, <1>9, <2>1, <2>2, <2>3 DEF Key!Open, KeyInv
<1>10. CASE Key!Write
  <2>1. /\ proc = "writing" /\ content' = teeSigner /\ Key!Serve(teeSigner)
        /\ exists' /\ UNCHANGED <<generated, starts>>
    BY <1>2, <1>10 DEF Key!Write, RunInv
  <2>2. teeSigner \in 1..MaxKeys BY <1>2, <2>1 DEF Key!TypeOK, RunInv, Key!NoKey
  <2>3. lost \/ used = <<>> BY <1>2, <2>1 DEF KeptInv
  <2> QED BY <2>1, <2>2, <2>3, Served
<1>11. CASE Key!WriteFails
  <2>1. Key!TypeOK' BY <1>2, <1>11 DEF Key!WriteFails, Key!TypeOK, Key!NoKey
  <2>2. RunInv' BY <1>1, <1>2, <1>11 DEF Key!WriteFails, RunInv
  <2>3. KeptInv' BY <1>2, <1>11 DEF Key!WriteFails, KeptInv
  <2> QED BY <1>3, <1>11, <2>1, <2>2, <2>3 DEF Key!WriteFails, KeyInv
<1>12. CASE Key!FileRemoved
  <2>0. lost' \in BOOLEAN BY <1>12 DEF Key!FileRemoved
  <2>1. Key!TypeOK'
    <3>0. content' = 0 /\ exists' = FALSE BY <1>12 DEF Key!FileRemoved, Key!NoKey
    <3>1. content' \in 0..MaxKeys BY <1>2, <3>0
    <3>2. exists' \in BOOLEAN BY <3>0
    <3> QED BY <1>2, <1>12, <2>0, <3>1, <3>2 DEF Key!FileRemoved, Key!TypeOK
  <2>2. RunInv' BY <1>1, <1>2, <1>12 DEF Key!FileRemoved, RunInv
  <2>3. KeptInv'
    <3> SUFFICES ASSUME ~lost', used' # <<>> PROVE FALSE
      BY DEF KeptInv
    <3>1. ~lost /\ used # <<>> /\ content = Key!NoKey
      BY <1>12 DEF Key!FileRemoved
    <3>2. content = LastUsed BY <1>2, <3>1 DEF KeptInv
    <3> QED BY <1>4, <3>1, <3>2, <1>2 DEF Key!NoKey
  <2> QED BY <1>3, <1>12, <2>1, <2>2, <2>3 DEF Key!FileRemoved, KeyInv
<1> QED BY <1>5, <1>6, <1>7, <1>8, <1>9, <1>10, <1>11, <1>12
        DEF Starting, Key!LoadOrGenerate

----------------------------------------------------------------------------
(* The two together *)

IndInv == StepInv /\ KeyInv /\ RegisteredInv

LEMMA Bounds == MaxKeys \in Nat /\ MaxStarts \in Nat
BY ServiceAssumption

\* What a step of the program commits of the keys that its payload registers.
LEMMA Registers ==
  ASSUME Job, RegisteredInv
  PROVE  chain'.registered \subseteq UsedKeys
<1>1. CASE Commit
  <2>1. chain'.registered = chain.registered \union
          {payload[i].signer : i \in {i \in DOMAIN payload :
             payload[i].kind = "register" /\ payload[i].result = "logged"}}
    BY <1>1 DEF Commit
  <2>2. \A i \in DOMAIN payload : payload[i].kind = "register" => payload[i].signer \in UsedKeys
    BY DEF RegisteredInv, OfKind
  <2> QED BY <2>1, <2>2 DEF RegisteredInv
<1>2. CASE ~Commit
  <2>1. UNCHANGED chain
    BY <1>2 DEF Job, Prologue, Setup, StartJob, AddPermitTransaction,
                AddBlockProofTransaction, Failure, Fill, AppendOrders, OrderByPriorityFee,
                RemoveRevertedTransactions, RemoveRevertedOrder, RemoveRevertedSigned,
                BuilderEpilogue, Publish, NextFlashblock, Discard, chainVars
  <2> QED BY <2>1 DEF RegisteredInv
<1> QED BY <1>1, <1>2

LEMMA ServingStep == IndInv /\ Serving => IndInv'
<1> SUFFICES ASSUME IndInv, Serving PROVE IndInv'
  OBVIOUS
<1>1. /\ proc = "running" /\ Job
      /\ UNCHANGED <<exists, content, proc, teeSigner, generated, starts, lost, used>>
  BY DEF Serving, keyVars
<1>2. teeSigner \in Nat BY Bounds DEF IndInv, KeyInv, Key!TypeOK
<1>3. /\ StepInv'
      /\ SignersKept \/ \A i \in OfKind("register")' : payload'[i].signer = teeSigner
  BY <1>1, <1>2, JobStep DEF IndInv
<1>4. KeyInv'
  <2>1. Key!TypeOK' BY <1>1 DEF IndInv, KeyInv, Key!TypeOK
  <2>2. RunInv' BY <1>1 DEF IndInv, KeyInv, RunInv, LastUsed
  <2>3. KeptInv' BY <1>1 DEF IndInv, KeyInv, KeptInv, LastUsed
  <2>4. OriginInv' /\ KeySurvivesCrashes'
    BY <1>1 DEF IndInv, KeyInv, OriginInv, LossIndices, KeySurvivesCrashes
  <2> QED BY <2>1, <2>2, <2>3, <2>4 DEF KeyInv
<1>5. RegisteredInv'
  <2>1. UsedKeys' = UsedKeys BY <1>1 DEF UsedKeys
  <2>2. teeSigner \in UsedKeys
    <3>1. used # <<>> /\ teeSigner = LastUsed BY <1>1 DEF IndInv, KeyInv, RunInv
    <3>2. Len(used) \in DOMAIN used
      <4> DEFINE R == [key : 1..MaxKeys, lost : BOOLEAN]
      <4>1. used \in Seq(R) BY DEF IndInv, KeyInv, Key!TypeOK
      <4> HIDE DEF R
      <4> QED BY <3>1, <4>1
    <3> QED BY <3>1, <3>2 DEF UsedKeys, LastUsed
  <2>3. chain'.registered \subseteq UsedKeys BY <1>1, Registers DEF IndInv
  <2>4. \A i \in OfKind("register")' : payload'[i].signer \in UsedKeys
    BY <1>3, <2>2 DEF IndInv, RegisteredInv, SignersKept
  <2> QED BY <2>1, <2>3, <2>4 DEF RegisteredInv
<1> QED BY <1>3, <1>4, <1>5 DEF IndInv

LEMMA StartingInv == IndInv /\ Starting => IndInv'
<1> SUFFICES ASSUME IndInv, Starting PROVE IndInv'
  OBVIOUS
<1>1. KeyInv' BY StartingStep DEF IndInv
<1>2. StepInv' BY SamePayloadStep DEF IndInv, Starting
<1>3. UNCHANGED <<chain, payload>> BY DEF Starting, ftVars, chainVars, jobVars
<1>4. UsedKeys \subseteq UsedKeys'
  <2>1. used' = used \/ \E r : used' = Append(used, r)
    BY DEF Starting, Key!LoadOrGenerate, Key!Start, Key!Load, Key!LoadFails, Key!Generate,
           Key!Open, Key!Write, Key!WriteFails, Key!FileRemoved, Key!Serve
  <2> DEFINE R == [key : 1..MaxKeys, lost : BOOLEAN]
  <2>2. used \in Seq(R) /\ used' \in Seq(R)
    BY <1>1 DEF IndInv, KeyInv, Key!TypeOK
  <2> HIDE DEF R
  <2>3. CASE used' = used BY <2>3 DEF UsedKeys
  <2>4. CASE \E r : used' = Append(used, r)
    <3>1. PICK r : used' = Append(used, r) BY <2>4
    <3>2. \A i \in DOMAIN used : i \in DOMAIN used' /\ used'[i] = used[i]
      BY <2>2, <3>1
    <3> QED BY <3>2 DEF UsedKeys
  <2> QED BY <2>1, <2>3, <2>4
<1>5. RegisteredInv' BY <1>3, <1>4 DEF IndInv, RegisteredInv, OfKind
<1> QED BY <1>1, <1>2, <1>5 DEF IndInv

LEMMA CrashStep == IndInv /\ Crash => IndInv'
<1> SUFFICES ASSUME IndInv, Crash PROVE IndInv'
  OBVIOUS
<1>1. /\ proc # "down" /\ proc' = "down" /\ teeSigner' = Key!NoKey
      /\ UNCHANGED <<exists, content, generated, starts, lost, used>>
      /\ Restart
  BY DEF Crash, Key!Crash
<1>2. StepInv' BY <1>1, IdleStep DEF IndInv
<1>3. KeyInv'
  <2>1. Key!TypeOK' BY <1>1, Bounds DEF IndInv, KeyInv, Key!TypeOK, Key!NoKey
  <2>2. RunInv' BY <1>1 DEF Restart, NoJob, RunInv
  <2>3. KeptInv' BY <1>1 DEF IndInv, KeyInv, KeptInv, LastUsed
  <2>4. OriginInv' /\ KeySurvivesCrashes'
    BY <1>1 DEF IndInv, KeyInv, OriginInv, LossIndices, KeySurvivesCrashes
  <2> QED BY <2>1, <2>2, <2>3, <2>4 DEF KeyInv
<1>4. RegisteredInv'
  <2>1. payload' = <<>> /\ UNCHANGED chain BY <1>1 DEF Restart, NoJob, chainVars
  <2>2. OfKind("register")' = {} BY <2>1, Cleared
  <2> QED BY <1>1, <2>1, <2>2 DEF IndInv, RegisteredInv, UsedKeys
<1> QED BY <1>2, <1>3, <1>4 DEF IndInv

LEMMA StutterStep == IndInv /\ UNCHANGED vars => IndInv'
<1> SUFFICES ASSUME IndInv, UNCHANGED vars PROVE IndInv'
  OBVIOUS
<1>1. UNCHANGED ftVars /\ UNCHANGED <<exists, content, proc, teeSigner, generated, starts,
                                     lost, used, phase, chain, payload>>
  BY DEF vars, keyVars, ftVars, jobVars, chainVars
<1>2. StepInv' BY <1>1, SamePayloadStep DEF IndInv
<1>3. KeyInv'
  BY <1>1 DEF IndInv, KeyInv, Key!TypeOK, RunInv, KeptInv, LastUsed, OriginInv,
              LossIndices, KeySurvivesCrashes
<1>4. RegisteredInv' BY <1>1 DEF IndInv, RegisteredInv, UsedKeys, OfKind
<1> QED BY <1>2, <1>3, <1>4 DEF IndInv

LEMMA Initially == Init => IndInv
<1> SUFFICES ASSUME Init PROVE IndInv
  OBVIOUS
<1>1. /\ exists = FALSE /\ content = 0 /\ proc = "down" /\ teeSigner = 0
      /\ generated = 0 /\ starts = 0 /\ lost = FALSE /\ used = <<>>
      /\ phase = "idle" /\ chain.registered = {} /\ payload = <<>>
  BY DEF Init, Key!Init, Key!NoKey, FlashtestationsInit
<1>2. StepInv BY InitStep
<1>3. Key!TypeOK
  <2> DEFINE R == [key : 1..MaxKeys, lost : BOOLEAN]
  <2> HIDE DEF R
  <2>1. used \in Seq(R) BY <1>1
  <2>2. exists \in BOOLEAN /\ lost \in BOOLEAN BY <1>1
  <2>3. /\ content \in 0..MaxKeys /\ teeSigner \in 0..MaxKeys
        /\ generated \in 0..MaxKeys /\ starts \in 0..MaxStarts
    BY <1>1, Bounds
  <2>4. proc \in {"down", "loading", "generating", "opening", "writing", "running"} BY <1>1
  <2> QED BY <2>1, <2>2, <2>3, <2>4 DEF Key!TypeOK, R
<1>4. RunInv /\ KeptInv BY <1>1 DEF RunInv, KeptInv
<1>5. DOMAIN used = {} /\ 2..Len(used) = {} BY <1>1
<1>6. OriginInv /\ KeySurvivesCrashes BY <1>5 DEF OriginInv, KeySurvivesCrashes
<1>7. RegisteredInv BY <1>1 DEF RegisteredInv, OfKind
<1> QED BY <1>2, <1>3, <1>4, <1>6, <1>7 DEF IndInv, KeyInv

LEMMA Invariance == Spec => []IndInv
<1>1. IndInv /\ [Next]_vars => IndInv'
  BY ServingStep, StartingInv, CrashStep, StutterStep DEF Next
<1> QED BY <1>1, Initially, PTL DEF Spec

----------------------------------------------------------------------------
(* The keys served with, counted: the first, and one for each loss *)

LEMMA Counted ==
  ASSUME OriginInv, Key!TypeOK, NEW S, S \subseteq UsedKeys
  PROVE  Cardinality(S) <= 1 + Cardinality(LossIndices)
<1> DEFINE f == [i \in LossIndices |-> used[i].key]
           T == {used[i].key : i \in LossIndices}
           first == used[1].key
<1>1. Len(used) \in Nat
  <2> DEFINE R == [key : 1..MaxKeys, lost : BOOLEAN]
  <2>1. used \in Seq(R) BY DEF Key!TypeOK
  <2> HIDE DEF R
  <2> QED BY <2>1
<1>2. IsFiniteSet(LossIndices)
  <2>1. IsFiniteSet(2..Len(used)) BY <1>1, FS_Interval
  <2> QED BY <2>1, FS_Subset DEF LossIndices
<1>3. f \in Surjection(LossIndices, T)
  BY DEF Surjection
<1>4. IsFiniteSet(T) /\ Cardinality(T) <= Cardinality(LossIndices)
  BY <1>2, <1>3, FS_Surjection
<1>5. S \subseteq T \union {first}
  BY DEF OriginInv, UsedKeys
<1> HIDE DEF T, first, f
<1>6. /\ IsFiniteSet(T \union {first})
      /\ Cardinality(T \union {first}) <= Cardinality(T) + 1
      /\ Cardinality(T) \in Nat
  <2>1. Cardinality(T) \in Nat BY <1>4, FS_CardinalityType
  <2>2. /\ IsFiniteSet(T \union {first})
        /\ Cardinality(T \union {first}) =
             IF first \in T THEN Cardinality(T) ELSE Cardinality(T) + 1
    BY <1>4, FS_AddElement
  <2> QED BY <2>1, <2>2
<1>7. IsFiniteSet(S) /\ Cardinality(S) <= Cardinality(T \union {first})
  BY <1>5, <1>6, FS_Subset
<1>8. /\ Cardinality(S) \in Nat /\ Cardinality(T \union {first}) \in Nat
      /\ Cardinality(LossIndices) \in Nat
  BY <1>2, <1>6, <1>7, FS_CardinalityType
<1> QED BY <1>4, <1>6, <1>7, <1>8

----------------------------------------------------------------------------

\* Every variable keeps its type, through the step, the starts and the crashes.
THEOREM TypeCorrect == Spec => []TypeOK
<1>1. IndInv => TypeOK BY DEF IndInv, StepInv, KeyInv, TypeOK
<1> QED BY <1>1, Invariance, PTL

\* A proof stands only after its registration, and a registration is without its
\* proof only if that was taken out as reverted, whichever calls of the step failed
\* and whatever is sorted and removed behind it.
THEOREM AllOrNothingHolds == Spec => []AllOrNothing
<1>1. IndInv => AllOrNothing BY DEF IndInv, StepInv
<1> QED BY <1>1, Invariance, PTL

\* The transactions of the builder's account carry its next nonces without a gap,
\* after failed steps, discarded jobs and crashes too.
THEOREM NoncesHold == Spec => []BuilderNonces
<1>1. IndInv => BuilderNonces BY DEF IndInv, StepInv
<1> QED BY <1>1, Invariance, PTL

\* A block proof covers all that precedes it but the orders, the registration
\* included, whatever is sorted and removed after it was signed.
THEOREM ProofCoverHolds == Spec => []ProofCoversWhatPrecedes
<1>1. IndInv => ProofCoversWhatPrecedes BY DEF IndInv, StepInv
<1> QED BY <1>1, Invariance, PTL

\* The program works on a block only with the key its file holds.
THEOREM SavedKeyHolds == Spec => []WorksWithSavedKey
<1>1. IndInv => WorksWithSavedKey BY DEF IndInv, KeyInv, RunInv, WorksWithSavedKey
<1> QED BY <1>1, Invariance, PTL

\* Crashes alone never change the key from one service to the next.
THEOREM KeySurvives == Spec => []KeySurvivesCrashes
<1>1. IndInv => KeySurvivesCrashes BY DEF IndInv, KeyInv
<1> QED BY <1>1, Invariance, PTL

\* The registry holds one address, and one more for each loss of the file.
THEOREM OneAddressHolds == Spec => []OneAddressPerKeyFile
<1>1. IndInv => OneAddressPerKeyFile
  <2> SUFFICES ASSUME IndInv PROVE OneAddressPerKeyFile
    OBVIOUS
  <2>1. OriginInv /\ Key!TypeOK /\ chain.registered \subseteq UsedKeys
    BY DEF IndInv, KeyInv, RegisteredInv
  <2>2. Cardinality(chain.registered) <= 1 + Cardinality(LossIndices)
    BY <2>1, Counted
  <2> QED BY <2>2 DEF OneAddressPerKeyFile, LossIndices
<1> QED BY <1>1, Invariance, PTL

=============================================================================
