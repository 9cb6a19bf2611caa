------------------------------- MODULE Sampler ------------------------------
(***************************************************************************)
(* One sampling loop with its clock (sampler.rs, sample_during; the scrape *)
(* loops of scrape.rs are its twins).  It adds to module SamplingLoop what *)
(* decides when a tick is due and what ends up in the timeline: the        *)
(* interval with MissedTickBehavior::Skip, which forgives a tick that is   *)
(* a little late, the elapsed_ns stamp taken before the read, reads that   *)
(* take time and may fail.                                                 *)
(***************************************************************************)
EXTENDS Integers, Sequences, FiniteSets

CONSTANTS
  Loop,       \* the loop's name, for module SamplingLoop
  Period,     \* config.sample_period, in units of the clock
  Tolerance,  \* how late a tick may be and not be missed: tokio's 5 ms
  MaxTime     \* bound: the clock stops there

ASSUME SamplerAssumption ==
  /\ Period \in Nat \ {0} /\ Tolerance \in Nat /\ MaxTime \in Nat
  /\ Loop # "none"              \* see Control, below

VARIABLES
  now,        \* time since the run's reference instant
  pc,         \* where the task is
  deadline,   \* when the interval's next tick is due
  stamp,      \* elapsed_ns of the sample being taken
  timeline,   \* elapsed_ns of the samples pushed
  cancelAt,   \* when the cancel was sent, or -1
  ticks,      \* history: when each tick fired
  before      \* history: how many ticks had fired when the cancel was sent

vars == <<now, pc, deadline, stamp, timeline, cancelAt, ticks, before>>

TypeOK ==
  /\ now \in 0..MaxTime
  /\ pc \in {"absent", "spawned", "select", "polled", "fired", "sampling", "returned"}
  /\ deadline \in 0..(MaxTime + Period)
  /\ stamp \in 0..MaxTime
  /\ timeline \in Seq(0..MaxTime)
  /\ cancelAt \in {-1} \cup 0..MaxTime
  /\ ticks \in Seq(0..MaxTime)
  /\ before \in Nat

Init ==
  /\ now = 0
  /\ pc = "absent"
  /\ deadline = 0
  /\ stamp = 0
  /\ timeline = <<>>
  /\ cancelAt = -1
  /\ ticks = <<>>
  /\ before = 0

Cancelled == cancelAt # -1

\* Time passes, wherever the loop and the orchestrator are.
Pass ==
  /\ now < MaxTime
  /\ now' = now + 1
  /\ UNCHANGED <<pc, deadline, stamp, timeline, cancelAt, ticks, before>>

Spawn ==
  /\ pc = "absent"
  /\ pc' = "spawned"
  /\ UNCHANGED <<now, deadline, stamp, timeline, cancelAt, ticks, before>>

SendCancel ==
  /\ pc # "absent"
  /\ ~Cancelled
  /\ cancelAt' = now
  /\ before' = Len(ticks)
  /\ UNCHANGED <<now, pc, deadline, stamp, timeline, ticks>>

-----------------------------------------------------------------------------
\* interval(period): the first tick is due at once.
EnterLoop ==
  /\ pc = "spawned"
  /\ pc' = "select"
  /\ deadline' = now
  /\ UNCHANGED <<now, stamp, timeline, cancelAt, ticks, before>>

\* Mutant: the arms of the select! are polled the other way round.
PollCancelLast ==
  /\ pc = "select"
  /\ pc' = IF Cancelled /\ now < deadline THEN "returned" ELSE "polled"
  /\ UNCHANGED <<now, deadline, stamp, timeline, cancelAt, ticks, before>>

PollCancel ==
  /\ pc = "select"
  /\ pc' = IF Cancelled THEN "returned" ELSE "polled"
  /\ UNCHANGED <<now, deadline, stamp, timeline, cancelAt, ticks, before>>

TickPending ==
  /\ pc = "polled"
  /\ now < deadline
  /\ pc' = "select"
  /\ UNCHANGED <<now, deadline, stamp, timeline, cancelAt, ticks, before>>

\* Mutant: MissedTickBehavior::Burst, the default.
NextDeadlineBurst == deadline + Period

\* Interval::poll_tick: a tick within the tolerance is followed by the next of
\* the schedule, overdue or not; after a later one MissedTickBehavior::Skip
\* goes to the next multiple of the period after now.
NextDeadline ==
  IF now <= deadline + Tolerance THEN deadline + Period
                                 ELSE now + Period - ((now - deadline) % Period)

TickFires ==
  /\ pc = "polled"
  /\ now >= deadline
  /\ pc' = "fired"
  /\ deadline' = NextDeadline
  /\ ticks' = Append(ticks, now)
  /\ UNCHANGED <<now, stamp, timeline, cancelAt, before>>

\* Mutant: elapsed from the tick, not from the run's reference instant.
ReadClockSinceTick ==
  /\ pc = "fired"
  /\ pc' = "sampling"
  /\ stamp' = now - ticks[Len(ticks)]
  /\ UNCHANGED <<now, deadline, timeline, cancelAt, ticks, before>>

\* sample_once reads the clock first.
ReadClock ==
  /\ pc = "fired"
  /\ pc' = "sampling"
  /\ stamp' = now
  /\ UNCHANGED <<now, deadline, timeline, cancelAt, ticks, before>>

\* An error drops the tick and the loop goes on.
SampleEnds ==
  /\ pc = "sampling"
  /\ pc' = "select"
  /\ timeline' \in {Append(timeline, stamp), timeline}
  /\ UNCHANGED <<now, deadline, stamp, cancelAt, ticks, before>>

LoopStep ==
  \/ EnterLoop \/ PollCancel \/ TickPending
  \/ TickFires \/ ReadClock \/ SampleEnds

Next == Pass \/ Spawn \/ SendCancel \/ LoopStep

Spec == Init /\ [][Next]_vars /\ WF_vars(LoopStep)

-----------------------------------------------------------------------------
(* Whatever reads fail or take several periods, the timeline is in the     *)
(* order of its stamps (scrape.rs: "elapsed_ns ordering is preserved"),    *)
(* which every first/last reduction and the bracketing of steps rely on.   *)
TimelineOrdered ==
  \A i, j \in DOMAIN timeline : i < j => timeline[i] <= timeline[j]

(* What a loop that falls behind makes up for is bounded, however far it   *)
(* falls behind and however often: n + 1 ticks in a row take n slots of    *)
(* the period, but for those that fit in the tolerance.  With a period     *)
(* longer than that no two ticks fire in one slot ("it does not try to     *)
(* catch up with a burst of back-to-back samples", sampler.rs); with a     *)
(* shorter one, which the command line accepts, some do.                   *)
Slot(t) == (t - deadline) \div Period     \* deadlines keep the interval's phase

BurstBounded ==
  \A i, j \in DOMAIN ticks :
    i < j => Slot(ticks[j]) - Slot(ticks[i]) >= (j - i) - (Tolerance \div Period)

(* Of everything in the timeline, at most one sample was begun after the   *)
(* instant of the cancel, however long the reads take.                     *)
AtMostOneStampPastCancel ==
  Cancelled => Cardinality({i \in DOMAIN timeline : timeline[i] > cancelAt}) <= 1

(* The loop with its clock is one of the loops of module SamplingLoop, and *)
(* not the one that reads energy counters around its samples.              *)
Control == INSTANCE SamplingLoop WITH
  Loops   <- {Loop},
  Scrapes <- {},
  Gpu     <- "none",
  task    <- [l \in {Loop} |-> IF pc = "fired" THEN "sampling" ELSE pc],
  cancel  <- [l \in {Loop} |-> IF Cancelled THEN "sent" ELSE "open"],
  period  <- [l \in {Loop} |-> "positive"],
  late    <- [l \in {Loop} |->
               IF Cancelled THEN Len(ticks) - before ELSE 0]

ImplementsSamplingLoop == Control!LoopSpec
=============================================================================
