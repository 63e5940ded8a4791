---------------------------- MODULE PublishTimes ----------------------------
(***************************************************************************)
(* The Times of publish.rs: the instants the PublishFlashblock step keeps  *)
(* between jobs and flashblocks, and the durations it records from them.   *)
(* Jobs follow one another; the clock moves on between two events.         *)
(***************************************************************************)
EXTENDS Naturals, Sequences, SequencesExt, FiniteSetsExt

CONSTANTS
  MaxTime,   \* bound on the clock
  MaxGap     \* bound on the time between two events

ASSUME TimeAssumption == MaxTime \in Nat \ {0} /\ MaxGap \in Nat \ {0}

None == MaxTime + 1   \* an absent instant, or a histogram with no value yet

VARIABLES
  now,
  job_started, job_ended, first_block_at, previous_block_at, last_block_at,
  inter_jobs_interval, time_to_first_block, inter_block_interval,
  intra_block_interval, idle_tail_time,   \* last value of each histogram
  log                                     \* the events so far, with their times

vars == <<now, job_started, job_ended, first_block_at, previous_block_at,
          last_block_at, inter_jobs_interval, time_to_first_block,
          inter_block_interval, intra_block_interval, idle_tail_time, log>>

TypeOK ==
  /\ now \in 0..MaxTime
  /\ {job_started, job_ended, first_block_at, previous_block_at, last_block_at}
       \subseteq 0..None
  /\ {inter_jobs_interval, time_to_first_block, inter_block_interval,
      intra_block_interval, idle_tail_time} \subseteq 0..None
  /\ log \in Seq([kind : {"start", "publish", "end"}, at : 0..MaxTime])

Init ==
  /\ now = 0
  /\ job_started = None /\ job_ended = None
  /\ first_block_at = None /\ previous_block_at = None /\ last_block_at = None
  /\ inter_jobs_interval = None /\ time_to_first_block = None
  /\ inter_block_interval = None /\ intra_block_interval = None
  /\ idle_tail_time = None
  /\ log = <<>>

----------------------------------------------------------------------------
\* Mutant of DurationSince: does not stop at zero.
SignedDurationSince(later, earlier) == later - earlier

\* Instant::duration_since, zero when the argument is the later one.
DurationSince(later, earlier) == IF later > earlier THEN later - earlier ELSE 0

Running == log # <<>> /\ Last(log).kind # "end"

Event(kind) ==
  /\ \E gap \in 1..MaxGap : now' = now + gap /\ now' <= MaxTime
  /\ log' = Append(log, [kind |-> kind, at |-> now'])

\* A value is recorded when the instants it needs are present.
Recorded(old, present, duration) == IF present THEN duration ELSE old

\* The end of the last job is asked for the time elapsed since now.
OnJobStarted ==
  /\ ~Running
  /\ Event("start")
  /\ job_started' = now'
  /\ inter_jobs_interval' =
       Recorded(inter_jobs_interval, job_ended # None, DurationSince(job_ended, now'))
  /\ job_ended' = None
  /\ UNCHANGED <<first_block_at, previous_block_at, last_block_at,
                 time_to_first_block, inter_block_interval, intra_block_interval,
                 idle_tail_time>>

\* last_block_at is read before it is swapped, so both reads see one instant.
OnPublishedBlock ==
  /\ Running
  /\ Event("publish")
  /\ LET first == first_block_at = None
     IN /\ first_block_at' = IF first THEN now' ELSE first_block_at
        /\ inter_block_interval' =
             Recorded(inter_block_interval, first /\ last_block_at # None,
                      DurationSince(now', last_block_at))
        /\ time_to_first_block' =
             Recorded(time_to_first_block, first /\ job_started # None,
                      DurationSince(now', job_started))
  /\ last_block_at' = now'
  /\ previous_block_at' = last_block_at
  /\ intra_block_interval' =
       Recorded(intra_block_interval, last_block_at # None,
                DurationSince(last_block_at, previous_block_at'))
  /\ UNCHANGED <<job_started, job_ended, inter_jobs_interval, idle_tail_time>>

\* Mutant of OnJobEnded: the first flashblock of the job is not forgotten.
OnJobEndedKeepsFirst ==
  /\ Running
  /\ Event("end")
  /\ idle_tail_time' =
       Recorded(idle_tail_time, last_block_at # None, DurationSince(now', last_block_at))
  /\ job_ended' = now'
  /\ job_started' = None
  /\ previous_block_at' = None
  /\ UNCHANGED <<first_block_at, last_block_at, inter_jobs_interval,
                 time_to_first_block, inter_block_interval, intra_block_interval>>

\* Mutant of OnJobEnded: the last flashblock of the job is forgotten too.
OnJobEndedForgetsLast ==
  /\ Running
  /\ Event("end")
  /\ idle_tail_time' =
       Recorded(idle_tail_time, last_block_at # None, DurationSince(now', last_block_at))
  /\ job_ended' = now'
  /\ job_started' = None
  /\ first_block_at' = None /\ previous_block_at' = None /\ last_block_at' = None
  /\ UNCHANGED <<inter_jobs_interval, time_to_first_block, inter_block_interval,
                 intra_block_interval>>

OnJobEnded ==
  /\ Running
  /\ Event("end")
  /\ idle_tail_time' =
       Recorded(idle_tail_time, last_block_at # None, DurationSince(now', last_block_at))
  /\ job_ended' = now'
  /\ job_started' = None
  /\ first_block_at' = None
  /\ previous_block_at' = None
  /\ UNCHANGED <<last_block_at, inter_jobs_interval, time_to_first_block,
                 inter_block_interval, intra_block_interval>>

Next == OnJobStarted \/ OnPublishedBlock \/ OnJobEnded

Spec == Init /\ [][Next]_vars

----------------------------------------------------------------------------
\* The last two events are of these kinds, and this much time separates them.
Just(first, second) ==
  /\ Len(log) > 1
  /\ log[Len(log) - 1].kind = first
  /\ log[Len(log)].kind = second

Elapsed == log[Len(log)].at - log[Len(log) - 1].at

Published == {log[i].at : i \in {k \in DOMAIN log : log[k].kind = "publish"}}

\* "The time it takes between the beginning of a payload job until the first
\* flashblock is published" (publish.rs:303), in every job.
TimeToFirstBlock == Just("start", "publish") => time_to_first_block = Elapsed

\* "This measures time between last flashblock from block N and first flashblock
\* from block N+1" (publish.rs:295), also across a job that published nothing.
InterBlockInterval ==
  Just("start", "publish") /\ Published # {now} =>
    inter_block_interval = now - Max(Published \ {now})

\* "The time interval between the end of one payload job and the start of the
\* next" (publish.rs:299).
InterJobsInterval == Just("end", "start") => inter_jobs_interval = Elapsed

=============================================================================
