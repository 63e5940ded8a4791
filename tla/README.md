# Specifications of the Unichain flashblocks builder

The builder produces one L2 block per payload job and publishes it piecemeal, as
*flashblocks*, on a WebSocket. This directory holds TLA+ models of its core, TLC
configurations that check them on small instances, and TLAPS proofs of what
matters most for every instance. Line numbers refer to `src/src/` of the
repository (`publish.rs:476` is `src/src/publish.rs`, line 476).

## 1. The system

| Component | Code | State it keeps | Operations | Module |
|---|---|---|---|---|
| WebSocket sink | `publish.rs:386-558` | broadcast channel, watch channel `term`, listener task, a task per client | `new`, `publish`, `watch_shutdown`, `listener_loop`, `broadcast_loop`, `drop` | `WebSocketSink` |
| What the feed promises | the same | the feed, each subscriber's cursor | publish, subscribe, deliver, skip, leave | `FlashblockFeed` |
| Publishing step and payload job | `publish.rs:64-251`, `state.rs`, `main.rs:112-148` | `block_base` (one per step), payload and `FlashblockNumber` (one per job) | `before_job`, `step`, `after_job`, the pipeline's loops | `PublishFlashblock` |
| Jobs over the sink | `main.rs:88-154` | both | wiring, shutdown | `FlashblockBuilder` |
| Limits and count | `limits.rs`, `stop.rs` | none; a clock | `create`, `partition_time_into_flashblocks`, `BreakAfterMaxFlashblocks` | `Partition`, `FlashblockSchedule` |
| Bundles | `bundle.rs` | a bundle in the pool | `is_eligible`, `is_permanently_ineligible`, `hash` | `Bundle` |
| Publishing metrics | `publish.rs:274-384` | five instants | `on_job_started`, `on_published_block`, `on_job_ended` | `PublishTimes` |
| Flashtestations | `flashtestations/step.rs`, `executor.rs`, `service.rs` | the attestation | `setup`, `step`, `add_transactions` | `Flashtestations` |
| TEE key | `flashtestations/service.rs:83-109`, `signer.rs:45-78` | a file | load, generate, save | `TeeKey` |
| Flashtestations over restarts | both | both | start, serve, crash | `FlashtestationsService` |
| Receipt RPC | `rpc.rs` | a cache nothing fills | `eth_getTransactionReceipt` | not modelled |
| Arguments, platform, playground, `fbutil`, bindings, dashboards | the rest | none that lasts | | not modelled |

How they interact. `build_pipeline` creates the sink, gives the publishing step a
reference to it, and has it watch the pipeline's drop signal. A payload job runs
`before_job`, the prologues, then an outer loop: an inner loop that fills one
flashblock until its deadline, the builder's transaction, the publishing step,
the count that breaks the loop. The publishing step reads what was added to the
payload since the last barrier, sends it to the broadcast channel and places the
next barrier. Every connected client has a receiver of that channel and a task
that forwards it. The pipeline's filling steps, the order pool and the payload
service belong to the `rblib` library, outside this repository; they are modelled
from how `main.rs` uses them and are marked external.

What is hard. The listener awaits handshakes inside its `select!`; a slow client
lags and is moved ahead; publishing can fail for good; the base is shared by jobs
that may overlap and is taken before publishing can fail; limits are recomputed
from a clock at every flashblock while the count is not; verdicts on bundles
outlive the block they were taken for; the metrics are read, swapped and reset
over three callbacks; a step adds two transactions of which the second can fail; a
key file is truncated before it is written. `PROJECT.json` lists these under
`hazards`, each at its line, with the properties that cover it.

## 2. The modules and the code

**FlashblockFeed** is the abstract specification: flashblocks are ranks; a
subscriber sees those published after it subscribed, in order, at most once, and
skips only when more than `Capacity` behind.

**WebSocketSink** follows the tasks. One action per `select!` arm or await:
`Accept` takes a connection and its receiver (`resubscribe`, before the
handshake), `HandshakeOk`/`HandshakeErr` end the handshake, `AcceptErr` disables
the accepting branch (a refutable pattern in `select!`), `ListenerStop` sees
`term`. A broadcast task is `open` (inside its `select!`) or `sending` (awaiting
`stream.send`): `Recv`, `RecvLagged`, `RecvClosed`, `StopLoop` and `ClientGone`
need the first, `SendOk` and `SendErr` the second. `PublishOk` needs a receiver:
the listener's own counts until its task ends. A flashblock is *received* when
its send completes on the connection; what the client's machine does is outside.
The channel's `100` is rounded up by the library to 128 slots, the constant
`Capacity`. A serialization error in `publish` is left out: no payload has one.

**PublishFlashblock** models a payload as the history of its checkpoints, each
with its transaction and context; `UnpublishedPayload` is `unpublished_payload`.
Every variable that belongs to a job is a function of the job, since up to
`MaxInFlight` jobs run at a time; `blockBase` is the one they share, as
`block_base: RwLock` belongs to the step. `TakeBase` is `block_base.write().take()`,
a critical section of its own: between it and `PublishOk` or `PublishErr` (phase
"send", the base in `taken`) other jobs may replace, take or reset `blockBase`.
Filling steps may add orders, exchange or remove orders that no barrier follows,
or fail. `PublishErr` keeps the payload and the number and loses the base. The sink
is one variable, `sinkUp`, that can only fail for good. `alone` only records which
jobs had no company: of these `BaseOnFirst` says that their base is on their first
flashblock. A job that overlaps another can lose its base to it, or publish the
other's; what holds of it too is that its own base is never on a later flashblock of
its own (`BaseOnFirst`) and that no base is published twice (`BaseAtMostOnce`).
`Assembled(fbs, j)` is what the flashblocks `fbs` bring to the block of job `j`.

**FlashblockBuilder** composes the two: `sinkUp` becomes the channel having a
receiver, a flashblock's rank in the feed is its rank in the channel. It is
proved to implement `PublishFlashblock`, which justifies that abstraction.

**Partition / FlashblockSchedule**: time is counted in ticks, several to a
millisecond, because the code measures nanoseconds and divides milliseconds.
`EnterFlashblock` is `FlashblockLimits::create`, called whenever the scope of the
inner loop is entered, that is once per flashblock; each flashblock may overrun.

**Bundle**: one bundle with any combination of bounds, turned away or pooled by
the RPC (against the last committed header), included or dropped by
`AppendOrders` while blocks and flashblocks follow one another. An optional field
is the set of its value. `HashInput` is the sequence that `hash` feeds to its hasher:
a value per transaction, then one per bound that is present.

**PublishTimes**: the five instants, the last value of each of five histograms,
and a log of events against which the values are judged.

**Flashtestations**: `setup`, then in each job the registration, the proof if
enabled, and `Failure` for any call that fails (`unwrap_or(payload)`). The step
places no barrier (`step.rs:121`), so that in the first flashblock, and as long as
publishing fails in the later ones, its transactions are as movable as orders:
`OrderByPriorityFee` exchanges neighbours of which one is an order (one account's
nonces stay in order), `RemoveRevertedTransactions`, unless revert protection is
off, takes out reverted ones and, with a reverted one of the builder's account, the
account's later ones, whose nonces no longer fit. What was behind the change is
executed again and may come out otherwise (`ExecutedAgain`). A reverted transaction
therefore stays until the block is committed only without revert protection; with
it every round of the inner loop ends with the removal (the guard of
`BuilderEpilogue`). `Publish` sets the barrier or fails. Jobs are committed or
discarded; `nonce` is the builder account's next one in the payload's own state,
which `nonce_of` reads.

**TeeKey**: load, generate, truncate, write; the process may end or fail at each.

**FlashtestationsService** composes the two: the manager's `teeSigner` is the key in
the process's memory, a crash loses it with the attestation and the current job,
the file and the chain stay. Most modules give their instance in the `.cfg` alone;
`MCFlashblockSchedule` defines the sets that a `.cfg` cannot write,
`MCPublishFlashblock` the symmetry of the orders. The `...Proofs` modules hold the
theorems (section 4).

Definitions called "Mutant of X" are not part of the models. Each is X with a
mistake someone could make in that code; putting it in X's place makes some
property fail, which shows that the property depends on that code.

## 3. The runs

| Run | Instance | What it shows |
|---|---|---|
| `sink` | 2 clients, 1 slot, 3 flashblocks | accounting, no loss without lag, order, how publishing fails, refinement of `FlashblockFeed`; shutdown completes, flashblocks arrive or are skipped, dials are answered |
| `publish` | 2 jobs that may overlap, target 2, 2 orders up to symmetry, builder transactions, payloads of up to 5 checkpoints with them (540 thousand states) | contiguous indices, base on the first flashblock of a job alone and no job's own base on a later one, no base twice, what was published stays, a block begins with what its flashblocks bring and ends up equal to it, target |
| `builder` | 2 jobs in turn, target 2, 1 client, 1 slot (81 thousand states) | refinement of `PublishFlashblock`; what a client sees without a gap; what it assembles is the beginning of the block, in the end all of it; clients never hold up a job |
| `schedule` | deadlines 0-13 ms, interval 4 ms, half-millisecond ticks, starts up to 4.5 ms late, overruns up to 3 ms (614 thousand states) | no drift, slots add up, gas grows |
| `bundle` | all bounds in 1-3, 3 blocks of 3 flashblocks (1.1 million states) | verdicts are right about later blocks; a changed bound changes the hash |
| `times` | clock to 9, gaps of 1-2 | time to the first flashblock, interval between blocks |
| `flashtestations` | 2 blocks, 5 transactions, proofs and revert protection on or off, 3 keys, 3 starts (4.6 million states) | a proof only behind its registration and, unless it was removed, a registration only with its proof; nonces; coverage of the proof, whatever is sorted and removed behind it; the key in use is the saved one, survives crashes, and no second address is registered without a loss of the file |

Runs that find a statement of the repository violated (`findings` quotes them):

| Run | Statement | What the code does |
|---|---|---|
| `sink_accept_error` | the sink listens for new clients | one `accept()` error ends that until shutdown |
| `publish_sink_fails` | a job takes as long as its deadline | if publishing fails for good its loop is never left |
| `bundle_min_timestamp` | included after the minimum timestamp | included before it |
| `times_inter_jobs` | interval between jobs | always zero |
| `flashtestations_event` | the expected event is validated | not when the transaction reverted: without revert protection a block with it is committed |

Other differences met while modelling, which no run states:

- `publish.rs:480` awaits the handshake inside the `select!` arm without a time
  limit; while a peer leaves it unfinished the listener does not see `term`
  (`publish.rs:466`). The liveness properties hold under `PeerFairness` only.
- `publish.rs:379-380` measures the interval between flashblocks from an instant to
  itself.
- `stop.rs:32` counts flashblocks over the whole deadline, `limits.rs:46` sizes them
  over what remains: a late start of the length of a short first slot adds a
  flashblock past the deadline (the second case of `NoDrift`).
- `limits.rs:19-21` says that the target is computed at the beginning of the job; it
  is recomputed from the remaining time at each flashblock, so the cumulative gas
  limit reaches the enclosing limit about half-way through the job.
- `flashtestations/executor.rs:242` puts `parent().parent_hash`, the grandparent's
  hash, in the content hash of a block proof; the base of a flashblock
  (`publish.rs:199`) has `parent().hash()`. The model tells proofs apart by the
  transactions they cover only.
- `rpc.rs:21` says that the RPC listens on events of the pipeline; it is given the
  pipeline and does not use it.
- `flashtestations/args.rs:58` speaks of an end of block proof; the proof is added
  at the head of the block, and orders sorted ahead of it are not covered: it covers
  all else that precedes it (`ProofCoversWhatPrecedes`).
- `flashtestations/step.rs:121` returns the two transactions without a barrier, so a
  reverted proof is removed and its registration stays (`removed` in `AllOrNothing`).

**Bounds.** Two clients are enough for one to hold up or outlive the other; one
slot and three flashblocks make a client lag behind and resume. Two jobs of two
flashblocks give a first and a later flashblock and a change of payload, and every
way for one job to meddle with the base of another; two orders can be exchanged
across a barrier if anything could. In `builder` the jobs run in turn: overlapping
ones are in `publish`, and the refinement between the two is proved for both. Only a
target of 2 is run; `TargetHolds` proves `TargetReached` for every target, zero
included, for which the code publishes one flashblock. The
schedule's deadlines cover several intervals with every remainder at two ticks to
the millisecond; an overrun of 3.5 ms, within half a millisecond of the interval,
would break `NoDrift`, whose theorem has that assumption. `MaxPayload`,
`MaxPublished`, `MaxTime`, `MaxBlock`, `MaxBlocks`, `MaxTxs`, `MaxKeys` and
`MaxStarts` only make the state spaces finite. Five transactions hold a flashblock
with registration, proof, an order and the builder's transaction, so that an order
passes the proof and the registration, and after a failed publish a second round
sorts what the first left. Deadlock is not checked: the
program stops (a dropped sink, a finished job) and the bounds end behaviours.

**Fairness.** `ServerFairness`: tokio runs every task that can run, and `select!`
polls its branches in random order, so a branch that is ready again and again is
taken (strong fairness of the `term` branches, weak of the rest). `PeerFairness`,
assumed apart, says that handshakes and sends end, well or badly. It is an
assumption on the peers: the code sets no time limit, TCP only ends the connections
of peers that are gone, and a live peer that stays silent in its handshake breaks it.
The liveness properties say nothing of such peers.
Jobs: the executor polls a running job until it ends, and the deadline of a
flashblock comes (weak fairness of `Advance`, which holds no failure: a job does
not owe its end to one). The run `builder` assumes nothing of clients or listener.

## 4. The proofs

TLAPS proves the following for every value of the constants that satisfies the
named assumptions of the modules. Few of these invariants are inductive as they
stand: each module strengthens them to one that is (`IndInv`, or `Decided` for
bundles), shows one action at a time that steps preserve it, and takes the theorems
from it.

| Module | Theorems about |
|---|---|
| `WebSocketSinkProofs` | `TypeOK`, `Accounting`, `NoLossWithoutLag`, `InOrder`, `PublishFailsOnlyAfterStop`, `FailureIsPermanent`; the sink implements `FlashblockFeed` |
| `PublishFlashblockProofs` | `TypeOK`, `IndicesContiguous`, `BaseOnFirst`, `BaseAtMostOnce`, `PublishedIsCommitted`, `BlockIsItsFlashblocks`, `TargetReached` |
| `FlashblockBuilderProofs` | jobs over the sink implement `PublishFlashblock`; the whole implements `FlashblockFeed`; `GapFreeView`, `ClientAssemblesBlock` |
| `FlashblockScheduleProofs` | `TypeOK`, `SlotsFillRemainingTime`, `GasNeverShrinks`, `NoDrift` |
| `BundleProofs` | `TypeOK`, `RejectedNeverEligible`, `DroppedForGood`, `InclusionHonoursBounds`, `EditChangesHash` |
| `PublishTimesProofs` | `TypeOK`, `TimeToFirstBlock`, `InterBlockInterval` |
| `FlashtestationsProofs` | `TypeOK`, `AllOrNothing`, `BuilderNonces`, `ProofCoversWhatPrecedes`, `WorksWithSavedKey`, `KeySurvivesCrashes`, `OneAddressPerKeyFile` |
| `FlattenLemmas` | lemmas about `FlattenSeq` that the proofs about blocks and views share |

*Sink.* The invariant adds a `ListenerInv` (who may be in a handshake or in the
backlog, what a stopped listener implies) and, per client, a `ClientInv`: the
accounting equation, the receiver not past the tail, what is in flight being the
last flashblock taken, and what was received lying between `joined` and the
receiver's position in order, with no gap while `missed = 0`. The refinement maps
statuses and cursors (`feedStatus`, `feedCursor`: the receiver less what is in
flight) and has one step per action.

*Jobs.* The invariant says where a job's number stands at each of its steps
(`NumberInv`), that a base is in one place at a time, `blockBase`, `taken` or a
flashblock, and in none before its job starts (`HolderInv`), what a job without
company still has of its own (`AloneInv`), and that the checkpoints under a payload's
current number are its tail (`PayloadInv`): sorting and removing stay within it, so
that the spans of earlier numbers stay what was published. `OwnBaseInv` says that the
base of a job is `blockBase`, or in its hands, only while its number is the first,
which is what `BaseOnFirst` needs of jobs that overlap.

`BlockIsItsFlashblocks` is not inductive: between two publications a payload has
transactions that no flashblock has. `BlockInv` says that what was published of a
payload is exactly what precedes the first checkpoint of its current number, and
`EndInv` that nothing follows the last barrier of a job that checks whether it is
over or that ended unharmed. A filling step only changes what follows that checkpoint;
publishing appends what `UnpublishedPayload` shows, which is all that follows it
(the new barrier shows nothing), to the feed and so to what is assembled of it.

*Sequences of any length.* That argument appends to, and splits, flattened sequences.
The library states induction for an operator, which the provers cannot instantiate;
`FlattenLemmas` states it for a set (`NatSetInduction`, `SeqSetInduction`), proves it
from the least element that a non-empty set of numbers has, and derives what
`FlattenSeq` makes of an appended element, of a concatenation (`FlattenConcat`) and of a
split (`FlattenSplit`), and that a concatenation has its left part as a prefix.

*Jobs over the sink.* Each step of the sink leaves `Sink!HasReceivers` as it is or is
`SinkFails`: that it is never the reverse is `FailureIsPermanent`. The theorems of
`WebSocketSinkProofs` and `PublishFlashblockProofs` are taken by instantiation, and
`GapFreeView` follows from both, a flashblock's rank in the feed being its rank in
the channel. That the sink's part of a step is a step of the sink also makes the
builder as a whole implement `FlashblockFeed`. For `ClientAssemblesBlock`, the view of
a client that never lagged is a stretch of the feed (`ViewIsStretch`). If it has the
base of a payload with a flashblock of that payload, that one has index 0
(`BaseOnFirst`), so that nothing of the payload was published before the client joined
(`NothingBefore`, from the order of the indices). What the client assembles is then
what the feed up to its position does, a prefix of `Assembled(feed, j)`, itself the
beginning of the block (`BlockIsItsFlashblocks`).

*Schedule.* Lemmas on division (`DivMod`, monotone and antitone division,
`GasMonotone`); the invariant says that the time left never grows, so that the
target never grows, while the number does. `NoDrift` is proved for
`MaxOverrun + TicksPerMs <= Interval`: the number of a flashblock and the end of
its slot add up to the deadline to within the millisecond that rounding loses, so
that an overrun is taken back by the slot after it.

*Bundles.* Block number and timestamp only grow, so that a verdict about a bound
that the chain has passed is final; what was rejected or dropped has such a bound.
For `EditChangesHash` the input of the hash is six parts after the transactions, and
two bundles that differ in one bound agree in all the others: were the inputs equal,
the equal parts in front and behind would cancel and leave the two forms of that one
bound, which differ in length or in value. Nothing is assumed of the other bounds. The
argument stops at one bound: nothing in the input says which bounds are present,
so that a bundle whose minimum block number becomes its maximum, the other bounds
absent, keeps its input.

*Metrics.* `first_block_at` is empty from the end of a job to the first flashblock of
the next; `last_block_at` outlives the jobs and is the latest of all flashblocks.

*Flashtestations.* `StepInv` says what a payload holds at each phase of the step
(the sequencer's transactions alone, then the registration with them), and that the
committed nonce is not past the payload's. Sorting and removal are both cases of
`Carries(f, gone)`: a map `f` from the places of the new payload to those of the old
that keeps the order of what is no order and leaves out at most the last transaction
of the account. `Carried` proves once, for any such map, that nonces, registration
and coverage are kept; the executions that follow only change results. `KeyInv` says
that a running program works with the key of the file, that the file holds the key
last served with unless it was lost, in which case only it is being replaced, and
that every key served with is the first one or follows a loss; `RegisteredInv` that
only such keys are registered, on the chain or in a payload. `OneAddressPerKeyFile` then
counts the losses.

Assumptions are the `ASSUME`s of the modules: `SinkAssumption`, `JobsAssumption`,
`BuilderAssumption`, `TicksAssumption`, `ScheduleAssumption`, `WholeInterval`,
`BundleAssumption`, `TimeAssumption`, `FlashtestationsAssumption` and
`ServiceAssumption`. They say that bounds are numbers, that order names are not the
names of other checkpoints, that the interval is whole milliseconds, and that
the channel's bound never stops a job.

Every safety property that a passing run checks is the statement of a theorem. Only
model-checked are the liveness properties (`ShutdownCompletes`, `DeliveredOrGone`,
`DialAnswered`, `ClientsNeverHoldUpJobs`), as fairness and ENABLED are beyond the
prover, and the five violations. No module declares a RECURSIVE operator.

## 5. Not modelled, and why

- `rpc.rs` reads a cache that nothing fills: there is no state to change.
- `flashtestations/attestation.rs` is one request; its outcome, success or failure,
  is in `Setup`. `contracts.rs` holds generated bindings. The contracts are
  external: which nonces they keep, and when they revert, is a free choice.
- `PublishFlashblock` has no transactions of the Flashtestations step: until the first
  barrier they would be moved and removed as orders are (`Flashtestations`).
- `playground.rs` sets a developer's network up once, from files, and keeps no
  state; `args.rs`, `platform.rs`, `version.rs` and `build.rs` parse and wire;
  their values are the constants of the modules.
- `tools/fbutil` prints the feed: it is a client of `FlashblockBuilder`.
- Of `bundle.rs`, `without_transaction` and the lists of transactions that may
  revert or be dropped matter to the execution of the library's steps only, which
  is outside this repository, and the EIP-2718 encoding is a conversion.
- `PublishTimes` has jobs in turn. With overlapping ones the five instants of the
  step mix, and the documentation does not say which job a duration belongs to.
- Panics on absurd arguments (an interval below a millisecond) are excluded by
  assumptions. Limits are taken to be created at each entry of the scope they are
  attached to.
- The filling of a flashblock against its limits is the library's: `main.rs` only
  names its steps, whose effects `PublishFlashblock` leaves free.
