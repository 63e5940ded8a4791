------------------------- MODULE FlashblockSchedule -------------------------
(***************************************************************************)
(* The clock of one payload job: the limits FlashblockLimits gives each    *)
(* flashblock when its scope is entered, the deadline that ends it, and    *)
(* the count after which BreakAfterMaxFlashblocks ends the job.            *)
(*                                                                         *)
(* Time is the time elapsed since the payload began to be built. Only the  *)
(* deadline of a flashblock ends its filling; the work in progress then,   *)
(* and publishing, take it past the deadline by some overrun.              *)
(***************************************************************************)
EXTENDS Partition, Sequences

CONSTANTS
  Interval,     \* flashblock interval
  Deadlines,    \* job deadlines to choose from, the leeway already taken off
  BlockTimes,   \* block times to choose from
  MaxStart,     \* bound on the time the steps before the first flashblock take
  MaxOverrun,   \* bound on the overrun of a flashblock
  GasLimit,     \* gas limit of the enclosing scope
  MaxGas        \* largest value of the gas type, where multiplication saturates

ASSUME ScheduleAssumption ==
  /\ Interval \in Nat /\ Ms(Interval) > 0
  /\ Deadlines \subseteq Nat /\ BlockTimes \subseteq Nat
  /\ MaxStart \in Nat /\ MaxOverrun \in Nat
  /\ GasLimit \in Nat /\ MaxGas \in Nat

\* The interval is given in whole milliseconds, as its default of 250ms is.
ASSUME WholeInterval == Interval = FromMs(Ms(Interval))

VARIABLES
  deadline,     \* of the job
  blockTime,    \* timestamp of the block less that of its parent
  start,        \* when the first flashblock's scope is entered
  now,          \* time elapsed
  number,       \* FlashblockNumber of the payload's tip
  phase,        \* the step the job is at
  slot,         \* limits of the flashblock: target, first (its duration), gas
  ends,         \* when the flashblock's deadline passes
  published     \* when each flashblock was published

jobVars == <<deadline, blockTime, start>>
vars == <<jobVars, now, number, phase, slot, ends, published>>

TypeOK ==
  /\ deadline \in Deadlines /\ blockTime \in BlockTimes
  /\ start \in 0..MaxStart
  /\ now \in Nat /\ number \in Nat \ {0} /\ ends \in Nat
  /\ phase \in {"enter", "fill", "publish", "check", "done"}
  /\ slot \in [target : Nat, first : Nat, gas : 0..MaxGas]
  /\ published \in Seq(Nat)

----------------------------------------------------------------------------
Init ==
  /\ deadline \in Deadlines /\ blockTime \in BlockTimes
  /\ start \in 0..MaxStart
  /\ now = start
  /\ number = 1
  /\ phase = "enter"
  /\ slot = [target |-> 0, first |-> 0, gas |-> 0]
  /\ ends = 0
  /\ published = <<>>

\* Mutant of SaturatingMul: unbounded.
UnboundedMul(a, b) == a * b

\* Mutant of SaturatingMul: wraps around.
WrappingMul(a, b) == (a * b) % (MaxGas + 1)

SaturatingMul(a, b) == SmallerOf(a * b, MaxGas)

\* checked_div, unwrap_or, saturating_mul
GasFor(target, n) ==
  SaturatingMul(IF target = 0 THEN GasLimit ELSE GasLimit \div target, n)

\* FlashblockLimits::create, at each entry of the single_flashblock scope.
EnterFlashblock ==
  /\ phase = "enter"
  /\ LET remaining == SaturatingSub(deadline, now)
         parts == PartitionTime(blockTime, remaining, Interval)
     IN /\ slot' = [target |-> parts.target,
                    first  |-> parts.first,
                    gas    |-> GasFor(parts.target, number)]
        /\ ends' = now + parts.first
  /\ phase' = "fill"
  /\ UNCHANGED <<jobVars, now, number, published>>

BreakAfterDeadline ==
  /\ phase = "fill"
  /\ \E overrun \in 0..MaxOverrun : now' = ends + overrun
  /\ phase' = "publish"
  /\ UNCHANGED <<jobVars, number, slot, ends, published>>

PublishFlashblock ==
  /\ phase = "publish"
  /\ published' = Append(published, now)
  /\ number' = number + 1
  /\ phase' = "check"
  /\ UNCHANGED <<jobVars, now, slot, ends>>

\* What BreakAfterMaxFlashblocks computes from the deadline of its own scope.
MaxFlashblocks == SlotsFor(Ms(deadline), Ms(Interval))

BreakAfterMaxFlashblocks ==
  /\ phase = "check"
  /\ phase' = IF number <= MaxFlashblocks THEN "enter" ELSE "done"
  /\ UNCHANGED <<jobVars, now, number, slot, ends, published>>

Next ==
  \/ EnterFlashblock
  \/ BreakAfterDeadline
  \/ PublishFlashblock
  \/ BreakAfterMaxFlashblocks

Spec == Init /\ [][Next]_vars
----------------------------------------------------------------------------
(* Properties *)

\* The flashblocks the remaining time has room for when the first is entered.
Planned == SlotsFor(Ms(SmallerOf(SaturatingSub(deadline, start), blockTime)), Ms(Interval))

\* When the planned flashblocks are over, at the latest.
PlannedEnd == IF start > deadline THEN start ELSE deadline + MaxOverrun

\* Overruns do not add up: the k-th of the planned flashblocks is published at
\* most its own overrun later than its place counted back from the deadline, and
\* less than a millisecond earlier, as long as an overrun is shorter than the
\* interval by a millisecond. A flashblock beyond those planned takes a full
\* interval past the deadline.
NoDrift ==
  deadline <= blockTime => \A k \in DOMAIN published :
    IF k <= Planned
    THEN LET due == published[k] + (Planned - k) * Interval
         IN deadline < due + TicksPerMs /\ due <= deadline + MaxOverrun
    ELSE published[k] <= PlannedEnd + (k - Planned) * (Interval + MaxOverrun)

\* "the sum of all flashblock durations equals the total remaining time": the
\* first flashblock and full intervals after it, from its entry on, and no
\* flashblock is longer than the interval (a sum of the last entered flashblock).
SlotsFillRemainingTime ==
  phase = "fill" =>
    LET left == Ms(SmallerOf(SaturatingSub(deadline, now), blockTime))
    IN /\ slot.first <= Interval
       /\ left > 0 => slot.first + (slot.target - 1) * Interval = FromMs(left)

\* The cumulative gas limit never shrinks from a flashblock to the next, though
\* it is divided by a target counted afresh: what earlier flashblocks committed
\* always fits under the later limit.
GasNeverShrinks ==
  [][phase = "enter" /\ number > 1 => slot'.gas >= slot.gas]_vars

=============================================================================
