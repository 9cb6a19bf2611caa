---------------------------- MODULE SamplingLoop ----------------------------
(***************************************************************************)
(* The five background sampling loops of a run and their cancel channels:  *)
(* sample_during (/proc), sample_gpu_during (NVML) and the three scrapes   *)
(* scrape_during, scrape_phase_during, scrape_spec_during.  All five have  *)
(* the same control:                                                       *)
(*                                                                         *)
(*   loop { select! { biased;                                              *)
(*            _ = &mut cancel   => break,                                  *)
(*            _ = ticker.tick() => { sample; push on Ok } } }              *)
(*                                                                         *)
(* A select! is two polls, and the orchestrator runs on another thread, so *)
(* each poll is a step of its own.  Whether a tick is due is a free choice *)
(* here; module Sampler gives a loop its clock and implements this module. *)
(***************************************************************************)
EXTENDS Naturals

CONSTANTS
  Loops,      \* the loops of a run
  Scrapes,    \* those that build an HTTP client before they start
  Gpu         \* the loop that reads energy counters before and after

ASSUME LoopsAssumption == Scrapes \subseteq Loops /\ Gpu \notin Scrapes

VARIABLES
  task,       \* where each loop's task is
  cancel,     \* the loop's oneshot: "open", "sent", or its sender "dropped"
  period,     \* the configured period; interval(0) panics
  late        \* history: samples begun since the loop's cancel, at most 2

loopVars == <<task, cancel, period, late>>

Running  == {"spawned", "select", "polled", "sampling", "closing"}
Ended    == {"returned", "panicked", "aborted"}

LoopTypeOK ==
  /\ task \in [Loops -> {"absent"} \cup Running \cup Ended]
  /\ cancel \in [Loops -> {"open", "sent", "dropped"}]
  /\ period \in [Loops -> {"zero", "positive"}]
  /\ late \in [Loops -> 0..2]

LoopInit ==
  /\ task = [l \in Loops |-> "absent"]
  /\ cancel = [l \in Loops |-> "open"]
  /\ period \in [Loops -> {"zero", "positive"}]
  /\ late = [l \in Loops |-> 0]

Goto(l, from, to) ==
  /\ task[l] = from
  /\ task' = [task EXCEPT ![l] = to]

-----------------------------------------------------------------------------
(* What the orchestrator does to a loop.                                   *)

Spawn(l) ==
  /\ Goto(l, "absent", "spawned")
  /\ UNCHANGED <<cancel, period, late>>

SendCancel(l) ==
  /\ task[l] # "absent"
  /\ cancel[l] = "open"
  /\ cancel' = [cancel EXCEPT ![l] = "sent"]
  /\ UNCHANGED <<task, period, late>>

\* Returning from the run drops every sender that was never used.
DropSenders ==
  /\ cancel' = [l \in Loops |->
       IF task[l] # "absent" /\ cancel[l] = "open" THEN "dropped" ELSE cancel[l]]
  /\ UNCHANGED <<task, period, late>>

-----------------------------------------------------------------------------
(* The loop's own steps.                                                   *)

\* A client that cannot be built gives an empty timeline, not an error.
ClientFails(l) ==
  /\ l \in Scrapes
  /\ Goto(l, "spawned", "returned")
  /\ UNCHANGED <<cancel, period, late>>

\* The GPU loop has read its opening counters by then.
EnterLoop(l) ==
  /\ Goto(l, "spawned", IF period[l] = "zero" THEN "panicked" ELSE "select")
  /\ UNCHANGED <<cancel, period, late>>

\* Mutant: select! without `biased`, which may poll the tick first.
PollCancelUnbiased(l) ==
  /\ \/ Goto(l, "select", "polled")
     \/ cancel[l] # "open" /\ Goto(l, "select", IF l = Gpu THEN "closing" ELSE "returned")
  /\ UNCHANGED <<cancel, period, late>>

PollCancel(l) ==
  /\ Goto(l, "select",
       IF cancel[l] = "open" THEN "polled"
       ELSE IF l = Gpu THEN "closing" ELSE "returned")
  /\ UNCHANGED <<cancel, period, late>>

\* Neither arm is ready: the task parks until one of them wakes it.
TickPending(l) ==
  /\ Goto(l, "polled", "select")
  /\ UNCHANGED <<cancel, period, late>>

BeginSample(l) ==
  /\ Goto(l, "polled", "sampling")
  /\ late' = [late EXCEPT ![l] = IF cancel[l] # "open" /\ @ < 2 THEN @ + 1 ELSE @]
  /\ UNCHANGED <<cancel, period>>

\* Pushed or dropped, a sample is never interrupted by the cancel.
FinishSample(l) ==
  /\ Goto(l, "sampling", "select")
  /\ UNCHANGED <<cancel, period, late>>

\* The GPU loop reads its closing energy counters after the break.
CloseEnergyWindow(l) ==
  /\ Goto(l, "closing", "returned")
  /\ UNCHANGED <<cancel, period, late>>

LoopStep(l) ==
  \/ ClientFails(l) \/ EnterLoop(l)
  \/ PollCancel(l) \/ TickPending(l)
  \/ BeginSample(l) \/ FinishSample(l)
  \/ CloseEnergyWindow(l)

\* The runtime is dropped after the run has returned and stops a task at its
\* next await.  The GPU loop samples without one.
Abort(l) ==
  /\ task[l] \in {"spawned", "select"} \cup (IF l = Gpu THEN {} ELSE {"sampling"})
  /\ task' = [task EXCEPT ![l] = "aborted"]
  /\ UNCHANGED <<cancel, period, late>>

-----------------------------------------------------------------------------
LoopNext ==
  \/ \E l \in Loops : Spawn(l) \/ SendCancel(l) \/ LoopStep(l) \/ Abort(l)
  \/ DropSenders

LoopFairness == \A l \in Loops : WF_loopVars(LoopStep(l))

LoopSpec == LoopInit /\ [][LoopNext]_loopVars /\ LoopFairness

-----------------------------------------------------------------------------
(* Cancellation wins over the tick (sampler.rs, "biased"): a cancel that   *)
(* arrives between the two polls of one select! lets one more sample       *)
(* begin, and never a second one.                                          *)
AtMostOneLateSample == \A l \in Loops : late[l] <= 1

(* Why: the poll that precedes a tick saw the channel open.                *)
LateInv ==
  \A l \in Loops :
    /\ late[l] <= 1
    /\ late[l] = 1 => cancel[l] # "open"
    /\ task[l] \in {"absent", "spawned", "polled"} => late[l] = 0

(* However many ticks are due, a loop that is signalled or whose sender is *)
(* dropped comes to an end: the cancel arm is polled first.                *)
CancelledLoopsEnd ==
  \A l \in Loops :
    (task[l] \in Running /\ cancel[l] # "open") ~> task[l] \in Ended
=============================================================================
