---------------------- MODULE FlashblockScheduleProofs ----------------------
(***************************************************************************)
(* Proofs about the schedule of a job, for every interval, job deadline,   *)
(* block time, overrun, gas limit and clock resolution.                    *)
(***************************************************************************)
EXTENDS FlashblockSchedule, TLAPS

(* Arithmetic *)

\* Division with remainder.
LEMMA DivMod ==
  ASSUME NEW a \in Nat, NEW b \in Nat, b > 0
  PROVE  /\ a \div b \in Nat
         /\ a % b \in 0..(b - 1)
         /\ a = b * (a \div b) + (a % b)
OBVIOUS

LEMMA MulMonotone ==
  ASSUME NEW a \in Nat, NEW b \in Nat, NEW m \in Nat, a <= b
  PROVE  m * a <= m * b /\ a * m <= b * m
<1>1. b - a \in Nat OBVIOUS
<1>2. m * b = m * a + m * (b - a) OBVIOUS
<1>3. m * (b - a) \in Nat BY <1>1
<1>4. m * a \in Nat /\ m * b \in Nat OBVIOUS
<1>5. m * a <= m * b BY <1>2, <1>3, <1>4
<1>6. a * m = m * a /\ b * m = m * b OBVIOUS
<1> QED BY <1>5, <1>6

\* A larger dividend has no smaller a quotient.
LEMMA DivMonotone ==
  ASSUME NEW a \in Nat, NEW b \in Nat, NEW m \in Nat, m > 0, a <= b
  PROVE  a \div m <= b \div m
<1> DEFINE p == a \div m
           q == b \div m
<1>1. p \in Nat /\ a = m * p + (a % m) /\ a % m \in 0..(m - 1) BY DivMod
<1>2. q \in Nat /\ b = m * q + (b % m) /\ b % m \in 0..(m - 1) BY DivMod
<1> HIDE DEF p, q
<1>3. SUFFICES ASSUME p >= q + 1 PROVE FALSE
  BY <1>1, <1>2 DEF p, q
<1>4. m * (q + 1) <= m * p BY <1>1, <1>2, <1>3, MulMonotone
<1>5. m * (q + 1) = m * q + m BY <1>2
<1>6. m * q \in Nat /\ m * p \in Nat BY <1>1, <1>2
<1>7. m * q + m <= a BY <1>1, <1>4, <1>5, <1>6
<1>8. b < m * q + m BY <1>2, <1>6
<1> QED BY <1>7, <1>8, <1>6

\* A larger divisor has no larger a quotient.
LEMMA DivAntitone ==
  ASSUME NEW g \in Nat, NEW s \in Nat, NEW t \in Nat, 0 < s, s <= t
  PROVE  g \div t <= g \div s
<1> DEFINE p == g \div s
           q == g \div t
<1>1. p \in Nat /\ g = s * p + (g % s) /\ g % s \in 0..(s - 1) BY DivMod
<1>2. q \in Nat /\ g = t * q + (g % t) /\ g % t \in 0..(t - 1) BY DivMod
<1> HIDE DEF p, q
<1>3. SUFFICES ASSUME q >= p + 1 PROVE FALSE
  BY <1>1, <1>2 DEF p, q
<1>4. s * (p + 1) <= s * q BY <1>1, <1>2, <1>3, MulMonotone
<1>5. s * q <= t * q BY <1>2, MulMonotone
<1>6. s * (p + 1) = s * p + s BY <1>1
<1>7. s * p \in Nat /\ s * q \in Nat /\ t * q \in Nat BY <1>1, <1>2
<1>8. s * p + s <= g BY <1>2, <1>4, <1>5, <1>6, <1>7
<1>9. g < s * p + s BY <1>1, <1>7
<1> QED BY <1>8, <1>9, <1>7

LEMMA SlotsForNat ==
  ASSUME NEW ms \in Nat, NEW i \in Nat, i > 0
  PROVE  SlotsFor(ms, i) \in Nat
BY DivMod DEF SlotsFor

\* More time has room for no fewer flashblocks.
LEMMA SlotsForMonotone ==
  ASSUME NEW a \in Nat, NEW b \in Nat, NEW i \in Nat, i > 0, a <= b
  PROVE  SlotsFor(a, i) <= SlotsFor(b, i)
<1> DEFINE p == a \div i
           q == b \div i
           r == a % i
           s == b % i
<1>1. p \in Nat /\ a = i * p + r /\ r \in 0..(i - 1) BY DivMod
<1>2. q \in Nat /\ b = i * q + s /\ s \in 0..(i - 1) BY DivMod
<1>3. p <= q BY DivMonotone
<1>4. /\ SlotsFor(a, i) = IF r = 0 THEN p ELSE p + 1
      /\ SlotsFor(b, i) = IF s = 0 THEN q ELSE q + 1
  BY DEF SlotsFor
<1> HIDE DEF p, q, r, s
<1>5. ~(s = 0 /\ r # 0 /\ p = q)
  BY <1>1, <1>2
<1> QED BY <1>1, <1>2, <1>3, <1>4, <1>5
\* A larger target does not give a larger gas limit, nor does a later flashblock
\* get a smaller one.
LEMMA GasMonotone ==
  ASSUME NEW s \in Nat, NEW t \in Nat, s <= t, NEW m \in Nat, NEW n \in Nat, m <= n
  PROVE  GasFor(t, m) <= GasFor(s, n) /\ GasFor(t, m) \in 0..MaxGas
<1> DEFINE share(target) == IF target = 0 THEN GasLimit ELSE GasLimit \div target
<1>1. GasLimit \in Nat /\ MaxGas \in Nat BY ScheduleAssumption
<1>2. ASSUME NEW k \in Nat PROVE share(k) \in Nat /\ share(k) <= GasLimit
  <2>1. CASE k = 0 BY <2>1, <1>1
  <2>2. CASE k > 0
    <3>1. GasLimit \div k <= GasLimit \div 1 BY <2>2, <1>1, DivAntitone
    <3>2. GasLimit \div 1 = GasLimit /\ GasLimit \div k \in Nat BY <2>2, <1>1, DivMod
    <3> QED BY <2>2, <3>1, <3>2
  <2> QED BY <1>2, <2>1, <2>2
<1>3. share(t) <= share(s)
  <2>1. CASE s = 0 BY <2>1, <1>2
  <2>2. CASE s > 0 BY <2>2, <1>1, DivAntitone
  <2> QED BY <2>1, <2>2
<1>4. share(s) \in Nat /\ share(t) \in Nat BY <1>2
<1>5. GasFor(t, m) = SmallerOf(share(t) * m, MaxGas) BY DEF GasFor, SaturatingMul
<1>6. GasFor(s, n) = SmallerOf(share(s) * n, MaxGas) BY DEF GasFor, SaturatingMul
<1> HIDE DEF share
<1>7. share(t) * m <= share(t) * n BY <1>4, MulMonotone
<1>8. share(t) * n <= share(s) * n BY <1>3, <1>4, MulMonotone
<1>9. share(t) * m \in Nat /\ share(t) * n \in Nat /\ share(s) * n \in Nat BY <1>4
<1> QED BY <1>1, <1>5, <1>6, <1>7, <1>8, <1>9 DEF SmallerOf

LEMMA GasRange ==
  ASSUME NEW t \in Nat, NEW n \in Nat
  PROVE  GasFor(t, n) \in 0..MaxGas
<1>1. t <= t /\ n <= n OBVIOUS
<1> QED BY <1>1, GasMonotone

----------------------------------------------------------------------------
(* The inductive invariant *)

\* The milliseconds left to fill at time t, as FlashblockLimits::create counts them.
LeftMs(t) == Ms(SmallerOf(SaturatingSub(deadline, t), blockTime))

TargetAt(t) == SlotsFor(LeftMs(t), Ms(Interval))

JobInv ==
  /\ deadline \in Nat /\ blockTime \in Nat
  /\ now \in Nat /\ ends \in Nat /\ number \in Nat \ {0}
  /\ phase \in {"enter", "fill", "publish", "check", "done"}
  /\ slot \in [target : Nat, first : Nat, gas : 0..MaxGas]

\* The limits in force are those of the time the flashblock was entered.
FillInv ==
  phase = "fill" =>
    /\ ends = now + slot.first
    /\ slot = [target |-> TargetAt(now),
               first  |-> PartitionTime(blockTime, SaturatingSub(deadline, now), Interval).first,
               gas    |-> GasFor(slot.target, number)]

\* They are still known when the next flashblock is entered, at a later time.
PastInv ==
  /\ phase = "publish" =>
       slot.gas = GasFor(slot.target, number) /\ TargetAt(now) <= slot.target
  /\ phase \in {"enter", "check", "done"} /\ number > 1 =>
       slot.gas = GasFor(slot.target, number - 1) /\ TargetAt(now) <= slot.target

IndInv == JobInv /\ FillInv /\ PastInv

LEMMA Ticks ==
  /\ TicksPerMs \in Nat /\ TicksPerMs > 0
  /\ Interval \in Nat /\ Ms(Interval) \in Nat /\ Ms(Interval) > 0
BY TicksAssumption, ScheduleAssumption, DivMod DEF Ms

LEMMA LeftMsNat ==
  ASSUME JobInv, NEW t \in Nat
  PROVE  LeftMs(t) \in Nat /\ TargetAt(t) \in Nat
<1>1. SmallerOf(SaturatingSub(deadline, t), blockTime) \in Nat
  BY DEF JobInv, SmallerOf, SaturatingSub
<1>2. LeftMs(t) \in Nat BY <1>1, Ticks, DivMod DEF LeftMs, Ms
<1> QED BY <1>2, Ticks, SlotsForNat DEF TargetAt

\* As time passes no more flashblocks are left to build.
LEMMA TargetShrinks ==
  ASSUME JobInv, NEW t \in Nat, NEW u \in Nat, t <= u
  PROVE  TargetAt(u) <= TargetAt(t)
<1> DEFINE a == SmallerOf(SaturatingSub(deadline, u), blockTime)
           b == SmallerOf(SaturatingSub(deadline, t), blockTime)
<1>1. a \in Nat /\ b \in Nat /\ a <= b
  BY DEF JobInv, SmallerOf, SaturatingSub
<1>2. LeftMs(u) <= LeftMs(t)
  BY <1>1, Ticks, DivMonotone DEF LeftMs, Ms
<1> QED BY <1>2, LeftMsNat, Ticks, SlotsForMonotone DEF TargetAt

LEMMA FirstNat ==
  ASSUME NEW b \in Nat, NEW r \in Nat
  PROVE  PartitionTime(b, r, Interval).first \in Nat
<1>1. SmallerOf(r, b) \in Nat BY DEF SmallerOf
<1>2. Ms(SmallerOf(r, b)) \in Nat BY <1>1, Ticks, DivMod DEF Ms
<1>3. Ms(SmallerOf(r, b)) % Ms(Interval) \in Nat BY <1>2, Ticks, DivMod
<1> QED BY <1>3, Ticks DEF PartitionTime, FromMs

LEMMA InitInv == Init => IndInv
<1> SUFFICES ASSUME Init PROVE IndInv
  OBVIOUS
<1>1. deadline \in Nat /\ blockTime \in Nat /\ start \in Nat /\ 0 \in 0..MaxGas
  BY ScheduleAssumption DEF Init
<1>2. JobInv BY <1>1 DEF Init, JobInv
<1>3. FillInv /\ PastInv BY DEF Init, FillInv, PastInv
<1> QED BY <1>2, <1>3 DEF IndInv

LEMMA NextInv == IndInv /\ [Next]_vars => IndInv'
<1> SUFFICES ASSUME IndInv, [Next]_vars PROVE IndInv'
  OBVIOUS
<1> USE DEF IndInv
<1>0. MaxGas \in Nat BY ScheduleAssumption
<1>1. CASE EnterFlashblock
  <2> DEFINE parts == PartitionTime(blockTime, SaturatingSub(deadline, now), Interval)
  <2>1. /\ slot' = [target |-> parts.target, first |-> parts.first,
                    gas |-> GasFor(parts.target, number)]
        /\ ends' = now + parts.first
        /\ phase' = "fill"
        /\ UNCHANGED <<deadline, blockTime, now, number>>
    BY <1>1 DEF EnterFlashblock, jobVars
  <2>2. parts.target = TargetAt(now) BY DEF PartitionTime, TargetAt, LeftMs
  <2>3. parts.target \in Nat BY <2>2, LeftMsNat DEF JobInv
  <2>4. parts.first \in Nat BY FirstNat DEF JobInv, SaturatingSub
  <2>5. GasFor(parts.target, number) \in 0..MaxGas
    <3>1. number \in Nat BY DEF JobInv
    <3> QED BY <2>3, <3>1, GasRange
  <2> HIDE DEF parts
  <2>6. JobInv' BY <2>1, <2>3, <2>4, <2>5 DEF JobInv
  <2>7. TargetAt(now)' = TargetAt(now) BY <2>1 DEF TargetAt, LeftMs
  <2>8. FillInv' BY <2>1, <2>2, <2>7 DEF FillInv, parts
  <2> QED BY <2>1, <2>6, <2>8 DEF PastInv
<1>2. CASE BreakAfterDeadline
  <2>1. /\ phase = "fill" /\ phase' = "publish"
        /\ UNCHANGED <<deadline, blockTime, number, slot, ends>>
    BY <1>2 DEF BreakAfterDeadline, jobVars
  <2>2. PICK overrun \in 0..MaxOverrun : now' = ends + overrun
    BY <1>2 DEF BreakAfterDeadline
  <2>3. now' \in Nat /\ now <= now'
    BY <2>1, <2>2, ScheduleAssumption DEF JobInv, FillInv
  <2>4. JobInv' BY <2>1, <2>3 DEF JobInv
  <2>5. TargetAt(now') <= TargetAt(now) BY <2>3, TargetShrinks DEF JobInv
  <2>6. TargetAt(now)' = TargetAt(now') BY <2>1 DEF TargetAt, LeftMs
  <2>7. PastInv' BY <2>1, <2>5, <2>6 DEF PastInv, FillInv
  <2> QED BY <2>1, <2>4, <2>7 DEF FillInv
<1>3. CASE PublishFlashblock
  <2>1. /\ phase = "publish" /\ phase' = "check" /\ number' = number + 1
        /\ UNCHANGED <<deadline, blockTime, now, slot, ends>>
    BY <1>3 DEF PublishFlashblock, jobVars
  <2>2. JobInv' BY <2>1 DEF JobInv
  <2>3. TargetAt(now)' = TargetAt(now) BY <2>1 DEF TargetAt, LeftMs
  <2>4. number' - 1 = number BY <2>1 DEF JobInv
  <2>5. PastInv' BY <2>1, <2>3, <2>4 DEF PastInv
  <2> QED BY <2>1, <2>2, <2>5 DEF FillInv
<1>4. CASE BreakAfterMaxFlashblocks \/ UNCHANGED vars
  <2>1. UNCHANGED <<deadline, blockTime, now, number, slot, ends>>
    BY <1>4 DEF BreakAfterMaxFlashblocks, jobVars, vars
  <2>2. TargetAt(now)' = TargetAt(now) BY <2>1 DEF TargetAt, LeftMs
  <2>3. CASE UNCHANGED vars
    BY <2>1, <2>2, <2>3 DEF vars, JobInv, FillInv, PastInv
  <2>4. CASE BreakAfterMaxFlashblocks
    BY <2>1, <2>2, <2>4 DEF BreakAfterMaxFlashblocks, JobInv, FillInv, PastInv
  <2> QED BY <1>4, <2>3, <2>4
<1> QED BY <1>1, <1>2, <1>3, <1>4 DEF Next

LEMMA Invariance == Spec => []IndInv
BY InitInv, NextInv, PTL DEF Spec

----------------------------------------------------------------------------
LEMMA SlotsAddUp == IndInv => SlotsFillRemainingTime
<1> SUFFICES ASSUME IndInv, phase = "fill"
             PROVE  /\ slot.first <= Interval
                    /\ LeftMs(now) > 0 =>
                         slot.first + (slot.target - 1) * Interval = FromMs(LeftMs(now))
  BY DEF SlotsFillRemainingTime, LeftMs
<1> DEFINE left == LeftMs(now)
           i == Ms(Interval)
           t == TicksPerMs
           q == left \div i
           r == left % i
<1>1. left \in Nat /\ i \in Nat /\ i > 0 /\ t \in Nat /\ t > 0 /\ Interval = i * t
  BY LeftMsNat, Ticks, WholeInterval DEF IndInv, JobInv, FromMs
<1>2. q \in Nat /\ r \in 0..(i - 1) /\ left = i * q + r
  BY <1>1, DivMod
<1>3. /\ slot.target = IF r = 0 THEN q ELSE q + 1
      /\ slot.first = IF r = 0 THEN Interval ELSE r * t
  BY DEF IndInv, FillInv, TargetAt, SlotsFor, PartitionTime, LeftMs, FromMs
<1>4. FromMs(left) = left * t BY DEF FromMs
<1> HIDE DEF left, i, t, q, r
<1>5. r * t <= i * t BY <1>1, <1>2, MulMonotone
<1>6. slot.first <= Interval BY <1>1, <1>3, <1>5
<1>7. left * t = (i * t) * q + r * t BY <1>1, <1>2
<1>8. ASSUME left > 0 PROVE slot.first + (slot.target - 1) * Interval = left * t
  <2>1. i * t \in Nat /\ r * t \in Nat BY <1>1, <1>2
  <2>2. CASE r = 0
    <3>1. Interval + (q - 1) * Interval = q * Interval BY <1>1, <1>2, <2>1
    <3>2. r * t = 0 BY <2>2, <1>1
    <3>3. (i * t) * q = q * Interval BY <1>1, <1>2, <2>1
    <3>4. left * t = q * Interval
      BY <1>1, <1>2, <1>7, <2>1, <3>2, <3>3
    <3>5. slot.first = Interval /\ slot.target = q BY <1>3, <2>2
    <3> QED BY <3>1, <3>4, <3>5
  <2>3. CASE r # 0
    <3>1. slot.target - 1 = q BY <1>2, <1>3, <2>3
    <3>2. (i * t) * q = q * Interval /\ q * Interval \in Nat BY <1>1, <1>2, <2>1
    <3> QED BY <1>3, <1>7, <2>1, <2>3, <3>1, <3>2
  <2> QED BY <2>2, <2>3
<1> QED BY <1>4, <1>6, <1>8 DEF left

\* The first flashblock and the full intervals after it add up to the time left
\* at its entry, in whole milliseconds, and it is no longer than the interval.
THEOREM TimeAddsUp == Spec => []SlotsFillRemainingTime
BY SlotsAddUp, Invariance, PTL

\* From a flashblock to the next the gas limit never shrinks, whatever overruns
\* and a shrinking target do: what was committed keeps its room.
THEOREM GasGrows == Spec => GasNeverShrinks
<1>1. IndInv /\ IndInv' /\ [Next]_vars
        => [phase = "enter" /\ number > 1 => slot'.gas >= slot.gas]_vars
  <2> SUFFICES ASSUME IndInv, Next, phase = "enter", number > 1
               PROVE  slot'.gas >= slot.gas
    OBVIOUS
  <2>1. EnterFlashblock
    BY DEF Next, BreakAfterDeadline, PublishFlashblock, BreakAfterMaxFlashblocks
  <2>2. slot'.gas = GasFor(TargetAt(now), number)
    BY <2>1 DEF EnterFlashblock, PartitionTime, TargetAt, LeftMs
  <2>3. /\ slot.gas = GasFor(slot.target, number - 1)
        /\ TargetAt(now) <= slot.target
        /\ slot.target \in Nat /\ slot.gas \in 0..MaxGas
        /\ number \in Nat /\ number - 1 \in Nat /\ number - 1 <= number
    BY DEF IndInv, JobInv, PastInv
  <2>4. TargetAt(now) \in Nat BY LeftMsNat DEF IndInv, JobInv
  <2>5. slot.gas <= slot'.gas BY <2>2, <2>3, <2>4, GasMonotone
  <2>6. slot'.gas \in 0..MaxGas BY <2>2, <2>3, <2>4, GasRange
  <2> QED BY <2>3, <2>5, <2>6, ScheduleAssumption
<1> QED BY <1>1, Invariance, PTL DEF Spec, GasNeverShrinks

----------------------------------------------------------------------------
(* Types and drift *)

LEMMA TypePreserved == IndInv' /\ TypeOK /\ [Next]_vars => TypeOK'
<1> SUFFICES ASSUME IndInv', TypeOK, [Next]_vars PROVE TypeOK'
  OBVIOUS
<1>1. UNCHANGED <<deadline, blockTime, start>>
  BY DEF Next, vars, jobVars, EnterFlashblock, BreakAfterDeadline, PublishFlashblock,
         BreakAfterMaxFlashblocks
<1>2. published' \in Seq(Nat)
  <2>1. published \in Seq(Nat) /\ now \in Nat BY DEF TypeOK
  <2>2. published' = published \/ published' = Append(published, now)
    BY DEF Next, vars, EnterFlashblock, BreakAfterDeadline, PublishFlashblock,
           BreakAfterMaxFlashblocks
  <2> QED BY <2>1, <2>2
<1> QED BY <1>1, <1>2 DEF TypeOK, IndInv, JobInv

\* The variables of the schedule keep their types; the gas limit fits its type.
THEOREM TypeCorrect == Spec => []TypeOK
<1>1. Init => TypeOK
  BY ScheduleAssumption DEF Init, TypeOK
<1> QED BY <1>1, TypePreserved, Invariance, PTL DEF Spec

\* With m planned flashblocks to come after it, a flashblock is published at t in
\* its place counted back from the deadline.
OnTime(t, m) ==
  /\ t + m * Interval <= deadline + MaxOverrun
  /\ deadline < t + m * Interval + TicksPerMs

\* m flashblocks after the planned ones are over at t.
Late(t, m) ==
  /\ t <= PlannedEnd + m * (Interval + MaxOverrun)
  /\ deadline < t + TicksPerMs

PublishedAt(t, n) ==
  IF n <= Planned THEN OnTime(t, Planned - n) ELSE Late(t, n - Planned)

\* What is left at the entry of the n-th flashblock is cut into the flashblocks
\* that are still planned.
EnteredAt(t, n) ==
  IF n <= Planned THEN TargetAt(t) = Planned - n + 1 ELSE Late(t, n - 1 - Planned)

AllInPlace == \A k \in DOMAIN published : PublishedAt(published[k], k)

DriftInv ==
  deadline <= blockTime =>
    /\ Len(published) = number - 1
    /\ AllInPlace
    /\ phase \in {"enter", "fill", "check"} => EnteredAt(now, number)
    /\ phase = "publish" => PublishedAt(now, number)

LEMMA PlannedNat ==
  ASSUME IndInv, TypeOK
  PROVE  /\ Planned \in Nat /\ Planned = TargetAt(start)
         /\ PlannedEnd \in Nat /\ MaxOverrun \in Nat
<1>1. start \in Nat BY ScheduleAssumption DEF TypeOK
<1>2. Planned = TargetAt(start) BY DEF Planned, TargetAt, LeftMs
<1>3. Planned \in Nat BY <1>1, <1>2, LeftMsNat DEF IndInv
<1> QED BY <1>1, <1>2, <1>3, ScheduleAssumption DEF PlannedEnd, IndInv, JobInv

\* With a deadline within the block time, what is left at t is the deadline less t,
\* in whole milliseconds.
LEMMA LeftIsRest ==
  ASSUME JobInv, deadline <= blockTime, NEW t \in Nat
  PROVE  /\ LeftMs(t) = Ms(SaturatingSub(deadline, t))
         /\ FromMs(LeftMs(t)) \in Nat
         /\ FromMs(LeftMs(t)) <= SaturatingSub(deadline, t)
         /\ SaturatingSub(deadline, t) < FromMs(LeftMs(t)) + TicksPerMs
<1> DEFINE rest == SaturatingSub(deadline, t)
<1>1. rest \in Nat /\ SmallerOf(rest, blockTime) = rest
  BY DEF JobInv, SaturatingSub, SmallerOf
<1>2. LeftMs(t) = rest \div TicksPerMs BY <1>1 DEF LeftMs, Ms
<1> HIDE DEF rest
<1>0. TicksPerMs \in Nat /\ TicksPerMs > 0 BY Ticks
<1>3. /\ rest \div TicksPerMs \in Nat
      /\ rest % TicksPerMs \in 0..(TicksPerMs - 1)
      /\ rest = TicksPerMs * (rest \div TicksPerMs) + (rest % TicksPerMs)
  BY <1>0, <1>1, DivMod
<1>4. FromMs(LeftMs(t)) = TicksPerMs * (rest \div TicksPerMs)
  BY <1>2, <1>3, Ticks DEF FromMs
<1>5. FromMs(LeftMs(t)) \in Nat BY <1>0, <1>3, <1>4
<1>6. LeftMs(t) = Ms(rest) BY <1>2 DEF Ms
<1>7. FromMs(LeftMs(t)) <= rest /\ rest < FromMs(LeftMs(t)) + TicksPerMs
  <2> DEFINE r == rest % TicksPerMs
             f == FromMs(LeftMs(t))
  <2>1. rest = f + r /\ r \in 0..(TicksPerMs - 1) BY <1>3, <1>4
  <2> HIDE DEF r, f
  <2>2. f <= rest /\ rest < f + TicksPerMs BY <1>0, <1>1, <1>5, <2>1 DEF f
  <2> QED BY <2>2 DEF f
<1> QED BY <1>5, <1>6, <1>7 DEF rest

\* Nothing is left exactly when no flashblock is planned.
LEMMA NoSlotsNoTime ==
  ASSUME JobInv, NEW t \in Nat
  PROVE  TargetAt(t) = 0 <=> LeftMs(t) = 0
<1> DEFINE a == LeftMs(t)
           i == Ms(Interval)
<1>1. a \in Nat /\ i \in Nat /\ i > 0 BY LeftMsNat, Ticks
<1>2. TargetAt(t) = IF a % i = 0 THEN a \div i ELSE a \div i + 1
  BY DEF TargetAt, SlotsFor
<1> HIDE DEF a, i
<1>3. a \div i \in Nat /\ a % i \in 0..(i - 1) /\ a = i * (a \div i) + (a % i)
  BY <1>1, DivMod
<1>4. a \div i = 0 /\ a % i = 0 => a = 0 BY <1>1, <1>3
<1>5. a = 0 => a \div i = 0 /\ a % i = 0 BY <1>1
<1>6. a \div i + 1 # 0 BY <1>3
<1>7. TargetAt(t) = 0 <=> a = 0 BY <1>2, <1>4, <1>5, <1>6
<1> QED BY <1>7 DEF a

\* m intervals, less at most an interval short of a millisecond, are m slots.
LEMMA RoundsUp ==
  ASSUME NEW r \in Nat, NEW m \in Nat, m > 0,
         (m - 1) * Interval + TicksPerMs <= r, r < m * Interval + TicksPerMs
  PROVE  SlotsFor(Ms(r), Ms(Interval)) = m
<1> DEFINE i == Ms(Interval)
           t == TicksPerMs
           a == r \div t
           q == a \div i
           s == a % i
<1>1. i \in Nat /\ i > 0 /\ t \in Nat /\ t > 0 /\ Interval = i * t
  BY Ticks, WholeInterval DEF FromMs
<1>2. a \in Nat /\ r = t * a + (r % t) /\ r % t \in 0..(t - 1) BY <1>1, DivMod
<1>3. Ms(r) = a BY DEF Ms
<1> HIDE DEF a
<1>4. q \in Nat /\ a = i * q + s /\ s \in 0..(i - 1) BY <1>1, <1>2, DivMod
<1>5. SlotsFor(Ms(r), i) = IF s = 0 THEN q ELSE q + 1 BY <1>3 DEF SlotsFor
<1>6. (m - 1) * Interval + t <= r /\ r < m * Interval + t OBVIOUS
<1> HIDE DEF i, t, q, s
<1> DEFINE low == (m - 1) * i
           high == m * i
<1>7. low \in Nat /\ high \in Nat /\ high = low + i BY <1>1
<1>8. (m - 1) * Interval = t * low /\ m * Interval = t * high BY <1>1
<1> HIDE DEF low, high
<1>9. a <= high
  <2> SUFFICES ASSUME a >= high + 1 PROVE FALSE BY <1>2, <1>7
  <2>1. t * (high + 1) <= t * a BY <1>1, <1>2, <1>7, MulMonotone
  <2>2. t * (high + 1) = t * high + t BY <1>1, <1>7
  <2>3. t * a \in Nat /\ t * high \in Nat BY <1>1, <1>2, <1>7
  <2> QED BY <1>1, <1>2, <1>6, <1>8, <2>1, <2>2, <2>3
<1>10. a >= low + 1
  <2> SUFFICES ASSUME a <= low PROVE FALSE BY <1>2, <1>7
  <2>1. t * a <= t * low BY <1>1, <1>2, <1>7, MulMonotone
  <2>2. t * a \in Nat /\ t * low \in Nat BY <1>1, <1>2, <1>7
  <2> QED BY <1>1, <1>2, <1>6, <1>8, <2>1, <2>2
<1>11. low = i * (m - 1) /\ high = i * m BY <1>1 DEF low, high
<1>12. CASE s = 0
  <2>1. a = i * q BY <1>4, <1>12, <1>1
  <2>2. q <= m
    <3> SUFFICES ASSUME q >= m + 1 PROVE FALSE BY <1>4
    <3>1. i * (m + 1) <= i * q BY <1>1, <1>4, MulMonotone
    <3>2. i * (m + 1) = high + i BY <1>1, <1>11
    <3> QED BY <1>1, <1>7, <1>9, <2>1, <3>1, <3>2, <1>2
  <2>3. q > m - 1
    <3> SUFFICES ASSUME q <= m - 1 PROVE FALSE BY <1>4
    <3>1. i * q <= i * (m - 1) BY <1>1, <1>4, MulMonotone
    <3> QED BY <1>2, <1>7, <1>10, <1>11, <2>1, <3>1
  <2> QED BY <1>4, <1>5, <1>12, <2>2, <2>3 DEF i
<1>13. CASE s # 0
  <2>1. i * q \in Nat BY <1>1, <1>4
  <2>2. q < m
    <3> SUFFICES ASSUME q >= m PROVE FALSE BY <1>4
    <3>1. i * m <= i * q BY <1>1, <1>4, MulMonotone
    <3> QED BY <1>4, <1>7, <1>9, <1>11, <1>13, <2>1, <3>1
  <2>3. q >= m - 1
    <3> SUFFICES ASSUME q + 1 <= m - 1 PROVE FALSE BY <1>4
    <3>1. i * (q + 1) <= i * (m - 1) BY <1>1, <1>4, MulMonotone
    <3>2. i * (q + 1) = i * q + i BY <1>1, <1>4
    <3> QED BY <1>1, <1>4, <1>7, <1>10, <1>11, <2>1, <3>1, <3>2
  <2> QED BY <1>4, <1>5, <1>13, <2>2, <2>3 DEF i
<1> QED BY <1>12, <1>13

\* A planned flashblock entered on time is published on time, and one past those
\* planned an interval and an overrun later at most.
LEMMA FillKeepsTime ==
  ASSUME IndInv, TypeOK, deadline <= blockTime, phase = "fill", EnteredAt(now, number),
         NEW overrun \in 0..MaxOverrun
  PROVE  PublishedAt(ends + overrun, number)
<1> DEFINE n == number
           P == Planned
           left == FromMs(LeftMs(now))
<1>1. /\ P \in Nat /\ PlannedEnd \in Nat /\ MaxOverrun \in Nat
      /\ n \in Nat /\ n > 0 /\ now \in Nat /\ deadline \in Nat
      /\ Interval \in Nat /\ TicksPerMs \in Nat /\ TicksPerMs > 0
      /\ overrun \in Nat /\ overrun <= MaxOverrun
  BY PlannedNat, Ticks DEF IndInv, JobInv
<1>2. /\ slot.first \in Nat /\ slot.target \in Nat
      /\ ends = now + slot.first /\ slot.target = TargetAt(now)
  BY DEF IndInv, JobInv, FillInv
<1>3. /\ slot.first <= Interval
      /\ LeftMs(now) > 0 => slot.first + (slot.target - 1) * Interval = left
  BY SlotsAddUp DEF SlotsFillRemainingTime, LeftMs
<1>4. /\ left \in Nat
      /\ left <= SaturatingSub(deadline, now)
      /\ SaturatingSub(deadline, now) < left + TicksPerMs
  BY <1>1, LeftIsRest DEF IndInv
<1> HIDE DEF n, P, left
<1>5. CASE n <= P
  <2>1. slot.target = P - n + 1 BY <1>2, <1>5 DEF EnteredAt, n, P
  <2>2. LeftMs(now) > 0
    <3>1. TargetAt(now) # 0 BY <1>1, <1>2, <1>5, <2>1
    <3>2. LeftMs(now) # 0 BY <1>1, <3>1, NoSlotsNoTime DEF IndInv
    <3> QED BY <1>1, <3>2, LeftMsNat DEF IndInv
  <2> DEFINE rest == (P - n) * Interval
  <2>3. rest \in Nat BY <1>1, <1>5
  <2>4. slot.first + rest = left
    <3>1. slot.target - 1 = P - n BY <1>1, <2>1
    <3> QED BY <1>3, <2>2, <3>1
  <2>5. left > 0
    <3>1. FromMs(LeftMs(now)) >= LeftMs(now)
      <4>1. LeftMs(now) \in Nat BY <1>1, LeftMsNat DEF IndInv
      <4>2. LeftMs(now) * 1 <= LeftMs(now) * TicksPerMs BY <1>1, <4>1, MulMonotone
      <4> QED BY <4>1, <4>2, <1>1 DEF FromMs
    <3>2. LeftMs(now) \in Nat BY <1>1, LeftMsNat DEF IndInv
    <3> QED BY <1>4, <2>2, <3>1, <3>2 DEF left
  <2> HIDE DEF rest
  <2>6. SaturatingSub(deadline, now) = deadline - now /\ deadline > now
    BY <1>1, <1>4, <2>5 DEF SaturatingSub
  <2>7. /\ ends + overrun + rest <= deadline + MaxOverrun
        /\ deadline < ends + overrun + rest + TicksPerMs
    BY <1>1, <1>2, <1>4, <2>3, <2>4, <2>6
  <2>8. OnTime(ends + overrun, P - n) BY <2>7 DEF OnTime, rest
  <2> QED BY <1>5, <2>8 DEF PublishedAt, n, P
<1>6. CASE ~(n <= P)
  <2>1. Late(now, n - 1 - P) BY <1>6 DEF EnteredAt, n, P
  <2> DEFINE step == Interval + MaxOverrun
             before == (n - 1 - P) * step
  <2>2. step \in Nat /\ n - 1 - P \in Nat BY <1>1, <1>6
  <2>3. before \in Nat BY <2>2
  <2>4. (n - P) * step = before + step BY <1>1, <2>2
  <2>5. now <= PlannedEnd + before /\ deadline < now + TicksPerMs BY <2>1 DEF Late
  <2> HIDE DEF before
  <2>6. ends + overrun <= PlannedEnd + (before + step)
    BY <1>1, <1>2, <1>3, <2>2, <2>3, <2>5
  <2>7. deadline < ends + overrun + TicksPerMs BY <1>1, <1>2, <2>5
  <2>8. Late(ends + overrun, n - P) BY <2>4, <2>6, <2>7 DEF Late
  <2> QED BY <1>1, <1>6, <2>8 DEF PublishedAt, n, P
<1> QED BY <1>5, <1>6

\* After a flashblock published on time, with an overrun that leaves a millisecond
\* of the next one, the rest of the time is cut into the flashblocks still planned.
LEMMA PublishKeepsTime ==
  ASSUME MaxOverrun + TicksPerMs <= Interval,
         IndInv, TypeOK, deadline <= blockTime, PublishedAt(now, number)
  PROVE  EnteredAt(now, number + 1)
<1> DEFINE n == number
           P == Planned
<1>1. /\ P \in Nat /\ P = TargetAt(start) /\ MaxOverrun \in Nat
      /\ n \in Nat /\ n > 0 /\ now \in Nat /\ deadline \in Nat /\ start \in Nat
      /\ Interval \in Nat /\ TicksPerMs \in Nat /\ TicksPerMs > 0
  BY PlannedNat, Ticks, ScheduleAssumption DEF IndInv, JobInv, TypeOK
<1> HIDE DEF n, P
<1>2. CASE n + 1 <= P
  <2> DEFINE m == P - n
             all == m * Interval
             most == (m - 1) * Interval
             rest == deadline - now
  <2>1. m \in Nat /\ m > 0 /\ all \in Nat /\ most \in Nat /\ all = most + Interval
    BY <1>1, <1>2
  <2>2. OnTime(now, m) BY <1>1, <1>2 DEF PublishedAt, n, P
  <2>3. now + all <= deadline + MaxOverrun /\ deadline < now + all + TicksPerMs
    BY <2>2 DEF OnTime
  <2> HIDE DEF m, all, most
  <2>4. /\ rest \in Nat /\ rest > 0
        /\ most + TicksPerMs <= rest /\ rest < all + TicksPerMs
    BY <1>1, <2>1, <2>3
  <2>5. SaturatingSub(deadline, now) = rest BY <1>1, <2>4 DEF SaturatingSub
  <2> HIDE DEF rest
  <2>6. SlotsFor(Ms(rest), Ms(Interval)) = m
    BY <2>1, <2>4, RoundsUp DEF all, most
  <2>7. LeftMs(now) = Ms(rest) BY <1>1, <2>5, LeftIsRest DEF IndInv
  <2>8. TargetAt(now) = m BY <2>6, <2>7 DEF TargetAt
  <2>9. m = P - (n + 1) + 1 BY <1>1 DEF m
  <2> QED BY <1>2, <2>8, <2>9 DEF EnteredAt, n, P
<1>3. CASE n = P
  <2>1. OnTime(now, 0) BY <1>1, <1>3 DEF PublishedAt, n, P
  <2>2. 0 * Interval = 0 /\ 0 * (Interval + MaxOverrun) = 0 BY <1>1
  <2>3. now <= deadline + MaxOverrun /\ deadline < now + TicksPerMs
    BY <1>1, <2>1, <2>2 DEF OnTime
  <2>4. PlannedEnd = deadline + MaxOverrun
    <3>1. LeftMs(start) # 0 BY <1>1, <1>3, NoSlotsNoTime DEF IndInv
    <3>2. SUFFICES ASSUME start > deadline PROVE FALSE BY <1>1 DEF PlannedEnd
    <3>3. SaturatingSub(deadline, start) = 0 BY <1>1, <3>2 DEF SaturatingSub
    <3>4. FromMs(LeftMs(start)) \in Nat /\ FromMs(LeftMs(start)) <= 0
      BY <1>1, <3>3, LeftIsRest DEF IndInv
    <3>5. LeftMs(start) \in Nat BY <1>1, LeftMsNat DEF IndInv
    <3>6. LeftMs(start) * 1 <= LeftMs(start) * TicksPerMs BY <1>1, <3>5, MulMonotone
    <3>7. LeftMs(start) <= FromMs(LeftMs(start)) BY <3>5, <3>6, <1>1 DEF FromMs
    <3> QED BY <3>1, <3>4, <3>5, <3>7
  <2>5. Late(now, 0) BY <1>1, <2>2, <2>3, <2>4 DEF Late
  <2>6. ~(n + 1 <= P) /\ (n + 1) - 1 - P = 0 BY <1>1, <1>3
  <2>7. ~(n + 1 <= P) /\ Late(now, (n + 1) - 1 - P) BY <2>5, <2>6
  <2> QED BY <2>7, Zenon DEF EnteredAt, n, P
<1>4. CASE n > P
  <2>1. ~(n <= P) /\ ~(n + 1 <= P) /\ (n + 1) - 1 - P = n - P BY <1>1, <1>4
  <2>2. Late(now, n - P) BY <2>1, Zenon DEF PublishedAt, n, P
  <2>3. ~(n + 1 <= P) /\ Late(now, (n + 1) - 1 - P) BY <2>1, <2>2
  <2> QED BY <2>3, Zenon DEF EnteredAt, n, P
<1> QED BY <1>1, <1>2, <1>3, <1>4

\* As long as an overrun leaves a millisecond of the next flashblock, flashblocks
\* stay where the deadline puts them, for every deadline, interval and clock.
THEOREM DriftBounded ==
  ASSUME MaxOverrun + TicksPerMs <= Interval
  PROVE  Spec => []NoDrift
<1>1. Init /\ IndInv /\ TypeOK => DriftInv
  <2> SUFFICES ASSUME Init, IndInv, TypeOK, deadline <= blockTime
               PROVE  EnteredAt(start, 1)
    <3>1. Init => /\ published = <<>> /\ DOMAIN published = {} /\ Len(published) = 0
                  /\ number = 1 /\ now = start /\ phase = "enter"
      BY DEF Init
    <3> QED BY <3>1 DEF DriftInv, AllInPlace
  <2>1. /\ Planned \in Nat /\ Planned = TargetAt(start) /\ PlannedEnd \in Nat
        /\ start \in Nat /\ deadline \in Nat /\ Interval \in Nat /\ MaxOverrun \in Nat
        /\ TicksPerMs \in Nat /\ TicksPerMs > 0
    BY PlannedNat, Ticks, ScheduleAssumption DEF IndInv, JobInv, TypeOK
  <2>2. CASE 1 <= Planned
    <3>1. Planned = Planned - 1 + 1 BY <2>1
    <3> QED BY <2>1, <2>2, <3>1 DEF EnteredAt
  <2>3. CASE ~(1 <= Planned)
    <3>1. Planned = 0 BY <2>1, <2>3
    <3>2. FromMs(LeftMs(start)) = 0
      <4>1. LeftMs(start) = 0 BY <2>1, <3>1, NoSlotsNoTime DEF IndInv
      <4>2. 0 * TicksPerMs = 0 BY <2>1
      <4> QED BY <4>1, <4>2 DEF FromMs
    <3>3. deadline < start + TicksPerMs
      BY <2>1, <3>2, LeftIsRest DEF IndInv, SaturatingSub
    <3>4. start <= PlannedEnd BY <2>1, <3>3 DEF PlannedEnd
    <3>5. 1 - 1 - Planned = 0 /\ 0 * (Interval + MaxOverrun) = 0 BY <2>1, <3>1
    <3>6. Late(start, 0) BY <2>1, <3>3, <3>4, <3>5 DEF Late
    <3> QED BY <2>3, <3>5, <3>6 DEF EnteredAt
  <2> QED BY <2>2, <2>3
<1>2. IndInv /\ TypeOK /\ DriftInv /\ [Next]_vars => DriftInv'
  <2> SUFFICES ASSUME IndInv, TypeOK, DriftInv, [Next]_vars, deadline' <= blockTime'
               PROVE  /\ Len(published') = number' - 1
                      /\ AllInPlace'
                      /\ phase' \in {"enter", "fill", "check"} => EnteredAt(now, number)'
                      /\ phase' = "publish" => PublishedAt(now, number)'
    BY DEF DriftInv
  <2>1. UNCHANGED <<deadline, blockTime, start>>
    BY DEF Next, vars, jobVars, EnterFlashblock, BreakAfterDeadline, PublishFlashblock,
           BreakAfterMaxFlashblocks
  <2>2. /\ Len(published) = number - 1
        /\ AllInPlace
        /\ phase \in {"enter", "fill", "check"} => EnteredAt(now, number)
        /\ phase = "publish" => PublishedAt(now, number)
    BY <2>1 DEF DriftInv
  <2>3. /\ Planned' = Planned /\ PlannedEnd' = PlannedEnd
        /\ TargetAt(now)' = TargetAt(now')
    BY <2>1 DEF Planned, PlannedEnd, TargetAt, LeftMs
  <2>4. /\ PublishedAt(now, number)' <=> PublishedAt(now', number')
        /\ EnteredAt(now, number)' <=> EnteredAt(now', number')
        /\ AllInPlace' <=> \A k \in DOMAIN published' : PublishedAt(published'[k], k)
    BY <2>1, <2>3 DEF AllInPlace, PublishedAt, EnteredAt, OnTime, Late
  <2>10. published' = published => AllInPlace'
    BY <2>2, <2>4 DEF AllInPlace
  <2>5. CASE EnterFlashblock
    BY <2>2, <2>4, <2>5, <2>10 DEF EnterFlashblock
  <2>6. CASE BreakAfterDeadline
    <3>1. PICK overrun \in 0..MaxOverrun : now' = ends + overrun
      BY <2>6 DEF BreakAfterDeadline
    <3>2. PublishedAt(ends + overrun, number)
      BY <2>1, <2>2, <2>6, FillKeepsTime DEF BreakAfterDeadline
    <3> QED BY <2>2, <2>4, <2>6, <2>10, <3>1, <3>2 DEF BreakAfterDeadline
  <2>7. CASE PublishFlashblock
    <3>1. /\ phase = "publish" /\ phase' = "check"
          /\ published' = Append(published, now)
          /\ number' = number + 1 /\ now' = now
      BY <2>7 DEF PublishFlashblock
    <3>2. EnteredAt(now, number + 1)
      BY <2>1, <2>2, <3>1, PublishKeepsTime
    <3>3. published \in Seq(Nat) /\ number \in Nat /\ now \in Nat BY DEF TypeOK
    <3>4. /\ Len(published') = number /\ DOMAIN published' = 1..number
          /\ DOMAIN published = 1..(number - 1)
          /\ \A k \in DOMAIN published : published'[k] = published[k]
          /\ published'[number] = now
      BY <2>2, <3>1, <3>3
    <3>5. ASSUME NEW k \in DOMAIN published' PROVE PublishedAt(published'[k], k)
      <4>1. CASE k = number BY <2>2, <3>1, <3>4, <4>1
      <4>2. CASE k # number
        <5>1. k \in DOMAIN published BY <3>3, <3>4, <4>2
        <5> QED BY <2>2, <3>4, <5>1 DEF AllInPlace
      <4> QED BY <4>1, <4>2
    <3> QED BY <2>4, <3>1, <3>2, <3>3, <3>4, <3>5
  <2>8. CASE BreakAfterMaxFlashblocks
    BY <2>2, <2>4, <2>8, <2>10 DEF BreakAfterMaxFlashblocks
  <2>9. CASE UNCHANGED vars
    BY <2>2, <2>4, <2>9, <2>10 DEF vars
  <2> QED BY <2>5, <2>6, <2>7, <2>8, <2>9 DEF Next
<1>3. IndInv /\ TypeOK /\ DriftInv => NoDrift
  <2> SUFFICES ASSUME IndInv, TypeOK, DriftInv, deadline <= blockTime,
                      NEW k \in DOMAIN published
               PROVE  IF k <= Planned
                      THEN OnTime(published[k], Planned - k)
                      ELSE published[k] <= PlannedEnd
                             + (k - Planned) * (Interval + MaxOverrun)
    BY DEF NoDrift, OnTime
  <2>1. PublishedAt(published[k], k) BY DEF DriftInv, AllInPlace
  <2> QED BY <2>1 DEF PublishedAt, Late
<1> QED BY <1>1, <1>2, <1>3, Invariance, TypeCorrect, PTL DEF Spec
=============================================================================
