------------------------------ MODULE Partition ------------------------------
(***************************************************************************)
(* How limits.rs divides the time of a payload job into flashblocks, and   *)
(* how stop.rs counts them. A duration is a number of clock ticks, of      *)
(* which TicksPerMs make a millisecond: the code measures time in          *)
(* nanoseconds and divides it in milliseconds, rounded down.               *)
(***************************************************************************)
EXTENDS Naturals

CONSTANT TicksPerMs

ASSUME TicksAssumption == TicksPerMs \in Nat \ {0}

Ms(duration) == duration \div TicksPerMs
FromMs(ms) == ms * TicksPerMs

SmallerOf(a, b) == IF a <= b THEN a ELSE b

\* Duration::saturating_sub
SaturatingSub(a, b) == IF a > b THEN a - b ELSE 0

\* Mutant of SlotsFor: the remainder gets no flashblock.
WholeSlots(ms, intervalMs) == ms \div intervalMs

\* a / b, plus one flashblock for a remainder.
SlotsFor(ms, intervalMs) ==
  IF ms % intervalMs = 0 THEN ms \div intervalMs ELSE ms \div intervalMs + 1

\* Mutant of PartitionTime: the first flashblock is a full interval.
PartitionNoOffset(blockTime, remainingTime, interval) ==
  LET remainingMs == Ms(SmallerOf(remainingTime, blockTime))
  IN [target |-> SlotsFor(remainingMs, Ms(interval)), first |-> interval]

\* The flashblocks that fit in the remaining time, and the duration of the
\* first. An interval below a millisecond would be a division by zero.
PartitionTime(blockTime, remainingTime, interval) ==
  LET remainingMs == Ms(SmallerOf(remainingTime, blockTime))
      offsetMs == remainingMs % Ms(interval)
  IN [target |-> SlotsFor(remainingMs, Ms(interval)),
      first  |-> IF offsetMs = 0 THEN interval ELSE FromMs(offsetMs)]
=============================================================================
