-------------------------- MODULE PublishTimesProofs --------------------------
(***************************************************************************)
(* Proofs about the instants of the publishing step, for every series of   *)
(* jobs and flashblocks and every spacing between them.                    *)
(***************************************************************************)
EXTENDS PublishTimes, TLAPS

LastKind == IF log = <<>> THEN "end" ELSE log[Len(log)].kind

\* The last event is now, and none was later.
LogInv ==
  /\ log # <<>> => log[Len(log)].at = now
  /\ \A i \in DOMAIN log : log[i].at <= now

\* first_block_at is empty until a job publishes, and job_started is its start.
JobInv ==
  /\ LastKind \in {"start", "end"} => first_block_at = None
  /\ LastKind = "start" => job_started = now

\* last_block_at outlives the jobs.
LastBlockInv ==
  IF Published = {} THEN last_block_at = None
  ELSE last_block_at \in Published /\ \A t \in Published : t <= last_block_at

IndInv == TypeOK /\ LogInv /\ JobInv /\ LastBlockInv /\ TimeToFirstBlock /\ InterBlockInterval

Events == [kind : {"start", "publish", "end"}, at : 0..MaxTime]

LEMMA Clock == MaxTime \in Nat /\ None \in Nat /\ None > MaxTime
BY TimeAssumption DEF None

\* An event is a later instant at the end of the log.
LEMMA Logged ==
  ASSUME TypeOK, LogInv, NEW kind \in {"start", "publish", "end"}, Event(kind)
  PROVE  /\ now' \in 0..MaxTime /\ now' > now /\ now \in 0..MaxTime
         /\ log' \in Seq(Events) /\ Len(log') = Len(log) + 1
         /\ log' # <<>> /\ log'[Len(log')] = [kind |-> kind, at |-> now']
         /\ log # <<>> => /\ Len(log) > 0 /\ Len(log') > 1
                          /\ log'[Len(log') - 1] = log[Len(log)]
         /\ log = <<>> => Len(log') = 1
         /\ LastKind' = kind
         /\ LogInv'
         /\ Published' = Published \union (IF kind = "publish" THEN {now'} ELSE {})
         /\ \A t \in Published : t \in 0..MaxTime /\ t < now'
<1>1. PICK gap \in 1..MaxGap : now' = now + gap /\ now' <= MaxTime
  BY DEF Event
<1>2. now' \in 0..MaxTime /\ now' > now /\ now \in 0..MaxTime /\ MaxTime \in Nat
  <2>1. now \in 0..MaxTime BY DEF TypeOK
  <2>2. MaxTime \in Nat /\ MaxGap \in Nat BY TimeAssumption
  <2> QED BY <1>1, <2>1, <2>2
<1> DEFINE e == [kind |-> kind, at |-> now']
<1> DEFINE E == Events
<1>3. e \in E BY <1>2 DEF Events
<1>4. log \in Seq(E) /\ log' = Append(log, e) BY DEF TypeOK, Event, Events
<1> HIDE DEF e, E
<1>5. /\ log' \in Seq(E) /\ Len(log') = Len(log) + 1 /\ Len(log) \in Nat
      /\ DOMAIN log = 1..Len(log) /\ DOMAIN log' = 1..(Len(log) + 1)
      /\ \A i \in DOMAIN log : log'[i] = log[i]
      /\ log'[Len(log) + 1] = e
  BY <1>3, <1>4
<1>6. log # <<>> => Len(log) > 0 BY <1>4
<1>7. log' # <<>> BY <1>5
<1>8. log # <<>> => log'[Len(log') - 1] = log[Len(log)]
  <2> SUFFICES ASSUME log # <<>> PROVE log'[Len(log') - 1] = log[Len(log)]
    OBVIOUS
  <2>1. Len(log') - 1 = Len(log) /\ Len(log) \in DOMAIN log BY <1>5, <1>6
  <2> QED BY <1>5, <2>1
<1>9. e.kind = kind /\ e.at = now' BY DEF e
<1>10. \A i \in DOMAIN log : log[i] \in Events /\ log[i].at \in 0..MaxTime /\ log[i].at < now'
  <2> SUFFICES ASSUME NEW i \in DOMAIN log
               PROVE  log[i] \in Events /\ log[i].at \in 0..MaxTime /\ log[i].at < now'
    OBVIOUS
  <2>1. log[i] \in Events BY <1>4, <1>5 DEF E
  <2>2. log[i].at <= now BY DEF LogInv
  <2> QED BY <1>2, <2>1, <2>2 DEF Events
<1>11. LogInv'
  <2>1. ASSUME NEW i \in DOMAIN log' PROVE log'[i].at <= now'
    <3>1. CASE i \in DOMAIN log BY <1>2, <1>5, <1>10, <3>1
    <3>2. CASE i \notin DOMAIN log
      <4>1. i = Len(log) + 1 BY <1>5, <3>2
      <4> QED BY <1>2, <1>5, <1>9, <4>1
    <3> QED BY <3>1, <3>2
  <2> QED BY <1>5, <1>9, <2>1 DEF LogInv
<1>12. Published' = Published \union (IF kind = "publish" THEN {now'} ELSE {})
  <2>1. DOMAIN log' = DOMAIN log \union {Len(log) + 1} BY <1>5
  <2> QED BY <1>5, <1>9, <2>1 DEF Published
<1>13. \A t \in Published : t \in 0..MaxTime /\ t < now' BY <1>10 DEF Published
<1>14. LastKind' = kind BY <1>5, <1>7, <1>9 DEF LastKind
<1> QED BY <1>2, <1>5, <1>6, <1>7, <1>8, <1>11, <1>12, <1>13, <1>14 DEF e, E

\* Durations stay below the absent value.
LEMMA DurationRange ==
  ASSUME NEW a \in 0..None, NEW b \in 0..None
  PROVE  DurationSince(a, b) \in 0..None
BY Clock DEF DurationSince

LEMMA LatestIsMax ==
  ASSUME NEW S, NEW m \in S, S \subseteq Nat, \A t \in S : t <= m
  PROVE  Max(S) = m
<1>1. m \in S /\ \A t \in S : m >= t OBVIOUS
<1>2. PICK x : x = Max(S) OBVIOUS
<1>3. x \in S /\ \A t \in S : x >= t BY <1>1, <1>2 DEF Max
<1> QED BY <1>1, <1>2, <1>3

LEMMA InitInv == Init => IndInv
<1> SUFFICES ASSUME Init PROVE IndInv
  OBVIOUS
<1>1. Published = {} BY DEF Init, Published
<1>2. TypeOK BY Clock DEF Init, TypeOK
<1>3. Len(log) = 0 BY DEF Init
<1> QED BY <1>1, <1>2, <1>3
        DEF Init, IndInv, LogInv, JobInv, LastBlockInv, LastKind, TimeToFirstBlock,
            InterBlockInterval, Just

LEMMA StartInv == IndInv /\ OnJobStarted => IndInv'
<1> SUFFICES ASSUME IndInv, OnJobStarted PROVE IndInv'
  OBVIOUS
<1> USE DEF IndInv
<1>1. /\ Event("start")
      /\ job_started' = now' /\ job_ended' = None
      /\ inter_jobs_interval' \in {inter_jobs_interval, DurationSince(job_ended, now')}
      /\ UNCHANGED <<first_block_at, previous_block_at, last_block_at,
                     time_to_first_block, inter_block_interval, intra_block_interval,
                     idle_tail_time>>
  BY DEF OnJobStarted, Recorded
<1>2. LastKind = "end" BY DEF OnJobStarted, Running, LastKind, Last
<1>3. /\ now' \in 0..MaxTime /\ log' \in Seq(Events) /\ Len(log') \in Nat
      /\ LastKind' = "start" /\ LogInv' /\ Published' = Published
      /\ log'[Len(log')].kind = "start"
  BY <1>1, Logged
<1>4. now' \in 0..None /\ None \in 0..None BY <1>3, Clock
<1>5. DurationSince(job_ended, now') \in 0..None
  BY <1>4, DurationRange DEF TypeOK
<1>6. TypeOK' BY <1>1, <1>3, <1>4, <1>5 DEF TypeOK, Events
<1>7. JobInv' BY <1>1, <1>2, <1>3 DEF JobInv
<1>8. LastBlockInv' BY <1>1, <1>3 DEF LastBlockInv
<1>9. ~Just("start", "publish")' BY <1>3 DEF Just
<1> QED BY <1>3, <1>6, <1>7, <1>8, <1>9 DEF TimeToFirstBlock, InterBlockInterval

LEMMA PublishInv == IndInv /\ OnPublishedBlock => IndInv'
<1> SUFFICES ASSUME IndInv, OnPublishedBlock PROVE IndInv'
  OBVIOUS
<1> USE DEF IndInv
<1> DEFINE first == first_block_at = None
<1>1. /\ Event("publish") /\ Running
      /\ first_block_at' \in {now', first_block_at}
      /\ inter_block_interval' =
             Recorded(inter_block_interval, first /\ last_block_at # None,
                      DurationSince(now', last_block_at))
      /\ time_to_first_block' =
             Recorded(time_to_first_block, first /\ job_started # None,
                      DurationSince(now', job_started))
      /\ last_block_at' = now' /\ previous_block_at' = last_block_at
      /\ intra_block_interval' \in
           {intra_block_interval, DurationSince(last_block_at, last_block_at)}
      /\ UNCHANGED <<job_started, job_ended, inter_jobs_interval, idle_tail_time>>
  BY DEF OnPublishedBlock, Recorded
<1>2. log # <<>> BY <1>1 DEF Running
<1>3. /\ now' \in 0..MaxTime /\ log' \in Seq(Events) /\ now' > now /\ now \in 0..MaxTime
      /\ LastKind' = "publish" /\ LogInv' /\ Published' = Published \union {now'}
      /\ \A t \in Published : t \in 0..MaxTime /\ t < now'
      /\ log'[Len(log')] = [kind |-> "publish", at |-> now']
      /\ log'[Len(log') - 1] = log[Len(log)]
  BY <1>1, <1>2, Logged
<1>4. now' \in 0..None BY <1>3, Clock
<1>5. /\ DurationSince(now', last_block_at) \in 0..None
      /\ DurationSince(now', job_started) \in 0..None
      /\ DurationSince(last_block_at, last_block_at) \in 0..None
  BY <1>4, DurationRange DEF TypeOK
<1>6. TypeOK'
  <2>1. /\ inter_block_interval' \in 0..None /\ time_to_first_block' \in 0..None
        /\ intra_block_interval' \in 0..None
    BY <1>1, <1>5 DEF TypeOK, Recorded
  <2> QED BY <1>1, <1>3, <1>4, <2>1 DEF TypeOK, Events
<1>7. JobInv' BY <1>3 DEF JobInv
<1>8. LastBlockInv'
  <2>1. now' \in Nat BY <1>3
  <2>2. \A t \in Published' : t <= now' BY <1>3, <2>1, Clock
  <2> QED BY <1>1, <1>3, <2>2 DEF LastBlockInv
<1>9. TimeToFirstBlock'
  <2> SUFFICES ASSUME Just("start", "publish")' PROVE time_to_first_block' = Elapsed'
    BY DEF TimeToFirstBlock
  <2>1. LastKind = "start" BY <1>2, <1>3 DEF Just, LastKind
  <2>2. job_started = now /\ first BY <2>1 DEF JobInv
  <2>3. time_to_first_block' = now' - now
    BY <1>1, <1>3, <2>2, Clock DEF Recorded, DurationSince
  <2>4. Elapsed' = now' - now BY <1>2, <1>3 DEF Elapsed, LogInv
  <2> QED BY <2>3, <2>4
<1>10. InterBlockInterval'
  <2> SUFFICES ASSUME Just("start", "publish")', Published' # {now'}
               PROVE  inter_block_interval' = now' - Max(Published' \ {now'})
    BY DEF InterBlockInterval
  <2>1. LastKind = "start" BY <1>2, <1>3 DEF Just, LastKind
  <2>2. first BY <2>1 DEF JobInv
  <2>3. Published # {} BY <1>3
  <2>4. last_block_at \in Published /\ \A t \in Published : t <= last_block_at
    BY <2>3 DEF LastBlockInv
  <2>5. last_block_at \in 0..MaxTime /\ last_block_at < now' BY <1>3, <2>4
  <2>6. inter_block_interval' = now' - last_block_at
    BY <1>1, <1>3, <2>2, <2>5, Clock DEF Recorded, DurationSince
  <2>7. now' \notin Published /\ Published \subseteq Nat BY <1>3
  <2>8. Published' \ {now'} = Published BY <1>3, <2>7
  <2>9. Max(Published) = last_block_at BY <2>4, <2>7, LatestIsMax
  <2> QED BY <2>6, <2>8, <2>9
<1> QED BY <1>3, <1>6, <1>7, <1>8, <1>9, <1>10

LEMMA EndInv == IndInv /\ OnJobEnded => IndInv'
<1> SUFFICES ASSUME IndInv, OnJobEnded PROVE IndInv'
  OBVIOUS
<1> USE DEF IndInv
<1>1. /\ Event("end")
      /\ idle_tail_time' \in {idle_tail_time, DurationSince(now', last_block_at)}
      /\ job_ended' = now' /\ job_started' = None
      /\ first_block_at' = None /\ previous_block_at' = None
      /\ UNCHANGED <<last_block_at, inter_jobs_interval, time_to_first_block,
                     inter_block_interval, intra_block_interval>>
  BY DEF OnJobEnded, Recorded
<1>2. /\ now' \in 0..MaxTime /\ log' \in Seq(Events)
      /\ LastKind' = "end" /\ LogInv' /\ Published' = Published
      /\ log'[Len(log')].kind = "end"
  BY <1>1, Logged
<1>3. now' \in 0..None /\ None \in 0..None BY <1>2, Clock
<1>4. DurationSince(now', last_block_at) \in 0..None
  BY <1>3, DurationRange DEF TypeOK
<1>5. TypeOK' BY <1>1, <1>2, <1>3, <1>4 DEF TypeOK, Events
<1>6. JobInv' BY <1>1, <1>2 DEF JobInv
<1>7. LastBlockInv' BY <1>1, <1>2 DEF LastBlockInv
<1>8. ~Just("start", "publish")' BY <1>2 DEF Just
<1> QED BY <1>2, <1>5, <1>6, <1>7, <1>8 DEF TimeToFirstBlock, InterBlockInterval

LEMMA StutterInv == IndInv /\ UNCHANGED vars => IndInv'
BY DEF vars, IndInv, TypeOK, LogInv, JobInv, LastBlockInv, LastKind, TimeToFirstBlock,
       InterBlockInterval, Just, Elapsed, Published

LEMMA Invariance == Spec => []IndInv
BY InitInv, StartInv, PublishInv, EndInv, StutterInv, PTL DEF Spec, Next

----------------------------------------------------------------------------
\* The time to a first flashblock is recorded as the time since its job's start.
THEOREM FirstBlockHolds == Spec => []TimeToFirstBlock
BY Invariance, PTL DEF IndInv

\* The interval between blocks runs from the last flashblock published before,
\* whatever jobs came in between.
THEOREM InterBlockHolds == Spec => []InterBlockInterval
BY Invariance, PTL DEF IndInv

\* Instants and durations keep their types.
THEOREM TypeCorrect == Spec => []TypeOK
BY Invariance, PTL DEF IndInv
=============================================================================
