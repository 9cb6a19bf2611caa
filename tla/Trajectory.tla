----------------------------- MODULE Trajectory -----------------------------
(***************************************************************************)
(* Attribution of a run's energy and counters to the steps of an agent     *)
(* (is-report, trajectory.rs): parse_steps reads the driver's step file,   *)
(* derive_trajectory_from_timelines withholds, places the steps one after  *)
(* the other in the run window, and slices the timelines by what it kept.  *)
(*                                                                         *)
(* Times are nanoseconds: of the wall clock in the file, since the run's   *)
(* reference instant (the anchor) in the timelines.                        *)
(***************************************************************************)
EXTENDS Integers, Sequences, FiniteSetsExt

CONSTANTS
  Cases,      \* the inputs: a step file and what the run has sampled
  Unit        \* doubled mW.ns in a millijoule: 2_000_000_000

None == -1    \* an Option without a value

Steps == [step_id : Nat, kind : {"llm_call", "tool"}, t_start : Nat, t_end : Nat]

\* A step that is kept, with its window in nanoseconds since the anchor.
KeptSteps == [step : Steps, start : Nat, end : Nat]

Blank     == [line |-> "blank"]
Malformed == [line |-> "malformed"]

Lines == {Blank, Malformed} \cup Steps

\* A timeline that was not scraped and one without samples have one effect.
Inputs ==
  [ file   : Seq(Lines),
    anchor : {None} \cup Nat,
    gpu    : Seq([at : Nat, device : Nat, power : Nat]),
    kv     : Seq([at : Nat, hits : Nat, queries : Nat]),
    phase  : Seq([ at : Nat, prompt : Nat, generation : Nat,
                   prefill_ns : {None} \cup Nat, decode_ns : {None} \cup Nat ]) ]

\* A timeline is in the order of its stamps (module Sampler).
Ordered(timeline) ==
  \A i, j \in DOMAIN timeline : i < j => timeline[i].at <= timeline[j].at

ASSUME TrajectoryAssumption ==
  /\ Cases \subseteq Inputs
  /\ \A c \in Cases : Ordered(c.gpu) /\ Ordered(c.kv) /\ Ordered(c.phase)
  /\ Unit \in Nat \ {0}

VARIABLES
  input,      \* the case at hand
  pc,         \* "parse", "gate", "place", "slice" or "end"
  line,       \* the line parse_steps is at
  steps,      \* the steps parsed
  rest,       \* those not placed yet
  kept,       \* the kept steps with their windows, in window order
  dropped,    \* the dropped ones with the reason
  lastEnd,    \* the end of the last kept window
  outcome,    \* "pending", "file_error", "withheld" or "derived"
  metrics     \* TrajectoryMetrics

vars == <<input, pc, line, steps, rest, kept, dropped, lastEnd, outcome, metrics>>

NoMetrics ==
  [ total_energy |-> 0, llm_energy |-> 0, tool_energy |-> 0, unattributed_energy |-> 0,
    run_duration |-> 0, unattributed_duration |-> 0, total_generation_tokens |-> 0,
    steps |-> <<>> ]

Init ==
  /\ input \in Cases
  /\ pc = "parse"
  /\ line = 1
  /\ steps = {} /\ rest = {}
  /\ kept = <<>> /\ dropped = <<>>
  /\ lastEnd = None
  /\ outcome = "pending"
  /\ metrics = NoMetrics

End(o) == pc' = "end" /\ outcome' = o

-----------------------------------------------------------------------------
(* parse_steps                                                             *)

BlankLine ==
  /\ pc = "parse" /\ line <= Len(input.file)
  /\ input.file[line] = Blank
  /\ line' = line + 1
  /\ UNCHANGED <<input, pc, steps, rest, kept, dropped, lastEnd, outcome, metrics>>

\* Mutant: the order of the two boundaries is not looked at.
RefusedInverted(l) ==
  \/ l \notin Steps
  \/ l \in Steps /\ \E s \in steps : s.step_id = l.step_id

\* A line is refused when it is no step, ends before it starts or has an id
\* that was seen; the first such line ends the parse.
Refused(l) ==
  \/ l \notin Steps
  \/ l \in Steps /\ l.t_end < l.t_start
  \/ l \in Steps /\ \E s \in steps : s.step_id = l.step_id

BadLine ==
  /\ pc = "parse" /\ line <= Len(input.file)
  /\ input.file[line] # Blank
  /\ Refused(input.file[line])
  /\ End("file_error")
  /\ UNCHANGED <<input, line, steps, rest, kept, dropped, lastEnd, metrics>>

StepLine ==
  /\ pc = "parse" /\ line <= Len(input.file)
  /\ input.file[line] # Blank
  /\ ~Refused(input.file[line])
  /\ steps' = steps \cup {input.file[line]}
  /\ line' = line + 1
  /\ UNCHANGED <<input, pc, rest, kept, dropped, lastEnd, outcome, metrics>>

ParseEnds ==
  /\ pc = "parse" /\ line > Len(input.file)
  /\ pc' = "gate"
  /\ UNCHANGED <<input, line, steps, rest, kept, dropped, lastEnd, outcome, metrics>>

-----------------------------------------------------------------------------
(* Withholding: no anchor, no energy basis, or a counter that goes back.   *)

KvRegressed(kv) ==
  \E i \in 1..(Len(kv) - 1) :
    kv[i + 1].hits < kv[i].hits \/ kv[i + 1].queries < kv[i].queries

\* Two timing legs are compared only when both are there; one that comes or
\* goes is a discontinuity.
LegRegressed(a, b) ==
  IF a # None /\ b # None THEN b < a ELSE a # b

\* Mutant: the ends of the timeline are compared, not its neighbours.
PhaseRegressedEnds(phase) ==
  phase # <<>> /\
    LET p == phase[1]
        q == phase[Len(phase)]
    IN \/ q.prompt < p.prompt \/ q.generation < p.generation
       \/ LegRegressed(p.prefill_ns, q.prefill_ns)
       \/ LegRegressed(p.decode_ns, q.decode_ns)

PhaseRegressed(phase) ==
  \E i \in 1..(Len(phase) - 1) :
    LET p == phase[i]
        q == phase[i + 1]
    IN \/ q.prompt < p.prompt \/ q.generation < p.generation
       \/ LegRegressed(p.prefill_ns, q.prefill_ns)
       \/ LegRegressed(p.decode_ns, q.decode_ns)

Withheld ==
  \/ input.anchor = None
  \/ Len(input.gpu) < 2
  \/ KvRegressed(input.kv)
  \/ PhaseRegressed(input.phase)

Gate ==
  /\ pc = "gate"
  /\ IF Withheld
     THEN End("withheld") /\ UNCHANGED rest
     ELSE pc' = "place" /\ rest' = steps /\ UNCHANGED outcome
  /\ UNCHANGED <<input, line, steps, kept, dropped, lastEnd, metrics>>

-----------------------------------------------------------------------------
(* Placement, in the order of (t_start, step_id).                          *)

RunStart == input.gpu[1].at
RunEnd   == input.gpu[Len(input.gpu)].at

\* Mutant: steps are taken in the order of their ids.
BeforeById(r, s) == r.step_id < s.step_id

Before(r, s) ==
  \/ r.t_start < s.t_start
  \/ r.t_start = s.t_start /\ r.step_id < s.step_id

\* Mutant: only the end of the window is looked at.
InRunByEndOnly(s) == s.t_end - input.anchor <= RunEnd

InRun(s) ==
  /\ s.t_start >= input.anchor
  /\ s.t_start - input.anchor >= RunStart
  /\ s.t_end - input.anchor <= RunEnd

Drop(s, reason) ==
  /\ dropped' = Append(dropped, [step_id |-> s.step_id, reason |-> reason])
  /\ UNCHANGED <<kept, lastEnd>>

\* Mutant: a dropped step moves the end of the last window as well.
PlaceMovesEnd(s) ==
  LET start == s.t_start - input.anchor
      end   == s.t_end - input.anchor
  IN \/ ~InRun(s) /\ Drop(s, "outside_run_window")
     \/ /\ InRun(s) /\ lastEnd # None /\ start < lastEnd
        /\ dropped' = Append(dropped, [ step_id |-> s.step_id,
                                        reason |-> "overlaps_preceding_step" ])
        /\ lastEnd' = end
        /\ UNCHANGED kept
     \/ /\ InRun(s) /\ (lastEnd = None \/ start >= lastEnd)
        /\ kept' = Append(kept, [step |-> s, start |-> start, end |-> end])
        /\ lastEnd' = end
        /\ UNCHANGED dropped

Place(s) ==
  LET start == s.t_start - input.anchor
      end   == s.t_end - input.anchor
  IN \/ ~InRun(s) /\ Drop(s, "outside_run_window")
     \/ InRun(s) /\ lastEnd # None /\ start < lastEnd /\ Drop(s, "overlaps_preceding_step")
     \/ /\ InRun(s) /\ (lastEnd = None \/ start >= lastEnd)
        /\ kept' = Append(kept, [step |-> s, start |-> start, end |-> end])
        /\ lastEnd' = end
        /\ UNCHANGED dropped

PlaceNext ==
  /\ pc = "place"
  /\ \E s \in rest :
       /\ \A r \in rest \ {s} : Before(s, r)
       /\ rest' = rest \ {s}
       /\ Place(s)
  /\ UNCHANGED <<input, pc, line, steps, outcome, metrics>>

PlaceEnds ==
  /\ pc = "place"
  /\ rest = {}
  /\ pc' = "slice"
  /\ UNCHANGED <<input, line, steps, rest, kept, dropped, lastEnd, outcome, metrics>>

-----------------------------------------------------------------------------
(* Slicing.  A segment lies between consecutive samples of one device.     *)

Segments(gpu) ==
  { g \in (DOMAIN gpu) \X (DOMAIN gpu) :
      /\ g[1] < g[2] /\ gpu[g[1]].device = gpu[g[2]].device
      /\ \A k \in (g[1] + 1)..(g[2] - 1) : gpu[k].device # gpu[g[1]].device }

\* Mutant: a segment with one end in the window counts too.
InWindowEither(gpu, g, start, end) == gpu[g[1]].at >= start \/ gpu[g[2]].at <= end

InWindow(gpu, g, start, end) == gpu[g[1]].at >= start /\ gpu[g[2]].at <= end

\* Each segment's trapezoid, doubled.
Areas(gpu) ==
  [ g \in Segments(gpu) |-> (gpu[g[1]].power + gpu[g[2]].power)
                              * (gpu[g[2]].at - gpu[g[1]].at) ]

Millijoules(gpu, segments) == SumFunctionOnSet(Areas(gpu), segments) \div Unit

Energy(gpu, start, end) ==
  Millijoules(gpu, {g \in Segments(gpu) : InWindow(gpu, g, start, end)})

\* partition_point: how many samples lie before, or not after, an instant.
CountBefore(timeline, t) == Cardinality({i \in DOMAIN timeline : timeline[i].at < t})
CountUpTo(timeline, t)   == Cardinality({i \in DOMAIN timeline : timeline[i].at <= t})

\* Mutant: the end sample is the first one after the window.
BracketPastEnd(timeline, start, end) ==
  LET lo == CountBefore(timeline, start)
      hi == CountUpTo(timeline, end) + 1
  IN IF lo < hi /\ hi <= Len(timeline) THEN <<IF lo > 0 THEN lo ELSE 1, hi>> ELSE <<>>

\* bracket: the indices of the baseline and of the end sample, if any.
Bracket(timeline, start, end) ==
  LET lo == CountBefore(timeline, start)
      hi == CountUpTo(timeline, end)
  IN IF hi > lo THEN <<IF lo > 0 THEN lo ELSE 1, hi>> ELSE <<>>

\* Deltas are Options, as are the figures made of them: a rate is the pair
\* of what is divided and by what.
StepDeltas(k) ==
  LET kv == Bracket(input.kv, k.start, k.end)
      ph == Bracket(input.phase, k.start, k.end)
      delta(timeline, b, Of(_)) ==
        IF b = <<>> THEN {} ELSE {Of(timeline[b[2]]) - Of(timeline[b[1]])}
  IN [ hits       |-> delta(input.kv, kv, LAMBDA x : x.hits),
       queries    |-> delta(input.kv, kv, LAMBDA x : x.queries),
       generation |-> delta(input.phase, ph, LAMBDA x : x.generation),
       prompt     |-> delta(input.phase, ph, LAMBDA x : x.prompt) ]

StepMetrics(k) ==
  LET d      == StepDeltas(k)
      energy == Energy(input.gpu, k.start, k.end)
  IN [ step_id |-> k.step.step_id, kind |-> k.step.kind, start |-> k.start, end |-> k.end,
       samples_in_window |-> CountUpTo(input.gpu, k.end) - CountBefore(input.gpu, k.start),
       energy_mj |-> energy, deltas |-> d,
       tokens_per_joule |->
         {<<g, energy>> : g \in {t \in d.generation : k.step.kind = "llm_call" /\ t # 0
                                                        /\ energy # 0}},
       cache_hit_rate |-> {r \in d.hits \X d.queries : r[2] > 0} ]

SaturatingSub(a, b) == IF a >= b THEN a - b ELSE 0

SumOver(f(_), kind) ==
  SumFunction([i \in {k \in DOMAIN kept : kept[k].step.kind \in kind} |-> f(kept[i])])

Sliced ==
  LET energy(k)   == Energy(input.gpu, k.start, k.end)
      duration(k) == SaturatingSub(k.end, k.start)
      total       == Millijoules(input.gpu, Segments(input.gpu))
      run         == SaturatingSub(RunEnd, RunStart)
  IN [ total_energy          |-> total,
       llm_energy            |-> SumOver(energy, {"llm_call"}),
       tool_energy           |-> SumOver(energy, {"tool"}),
       unattributed_energy   |-> SaturatingSub(total, SumOver(energy, {"llm_call", "tool"})),
       run_duration          |-> run,
       unattributed_duration |-> SaturatingSub(run, SumOver(duration, {"llm_call", "tool"})),
       total_generation_tokens |->
         IF input.phase = <<>> THEN 0
         ELSE input.phase[Len(input.phase)].generation - input.phase[1].generation,
       steps                 |-> [i \in DOMAIN kept |-> StepMetrics(kept[i])] ]

Slice ==
  /\ pc = "slice"
  /\ metrics' = Sliced
  /\ End("derived")
  /\ UNCHANGED <<input, line, steps, rest, kept, dropped, lastEnd>>

Next ==
  \/ BlankLine \/ BadLine \/ StepLine \/ ParseEnds
  \/ Gate
  \/ PlaceNext \/ PlaceEnds
  \/ Slice

Spec == Init /\ [][Next]_vars

-----------------------------------------------------------------------------
TypeOK ==
  /\ input \in Inputs
  /\ pc \in {"parse", "gate", "place", "slice", "end"}
  /\ line \in Nat
  /\ steps \subseteq Steps /\ rest \subseteq steps
  /\ kept \in Seq(KeptSteps)
  /\ dropped \in Seq([step_id : Nat,
                      reason : {"outside_run_window", "overlaps_preceding_step"}])
  /\ lastEnd \in {None} \cup Nat
  /\ outcome \in {"pending", "file_error", "withheld", "derived"}

(* "Overlapping windows would double-count energy - the one error this     *)
(* design must never commit" (trajectory.rs): the kept windows lie in the  *)
(* run, in order, and none opens before the one before it has closed.      *)
KeptStepsDisjoint ==
  /\ \A i \in DOMAIN kept :
       RunStart <= kept[i].start /\ kept[i].start <= kept[i].end /\ kept[i].end <= RunEnd
  /\ \A i, j \in DOMAIN kept : i < j => kept[i].end <= kept[j].start

(* ... so no stretch of a device's power is given to two steps.            *)
SegmentsCountedOnce ==
  \A i, j \in DOMAIN kept : \A g \in Segments(input.gpu) :
    ( /\ i # j
      /\ input.gpu[g[1]].at < input.gpu[g[2]].at
      /\ InWindow(input.gpu, g, kept[i].start, kept[i].end) )
    => ~InWindow(input.gpu, g, kept[j].start, kept[j].end)

(* Every step of the file is accounted for once, and a step in the run is  *)
(* dropped only when a kept step that starts before it, or as it starts    *)
(* with a lower id, runs into it: what was itself dropped takes no time    *)
(* from its successors, and the order of the lines is immaterial.          *)
PlacementJustified ==
  outcome = "derived" =>
    LET keptSteps == {kept[i].step : i \in DOMAIN kept}
        precedes(r, s) ==
          \/ r.t_start < s.t_start
          \/ r.t_start = s.t_start /\ r.step_id < s.step_id
        reason(s) == {dropped[i].reason : i \in {k \in DOMAIN dropped :
                                                   dropped[k].step_id = s.step_id}}
    IN /\ Len(kept) + Len(dropped) = Cardinality(steps)
       /\ \A s \in steps :
            CASE ~InRun(s) -> reason(s) = {"outside_run_window"}
              [] InRun(s) /\ (\E k \in keptSteps : precedes(k, s) /\ s.t_start < k.t_end) ->
                   reason(s) = {"overlaps_preceding_step"}
              [] OTHER -> s \in keptSteps

(* "Steps plus unattributed reconcile to total_energy_mj exactly", and the *)
(* durations to the span of the run: neither saturating_sub ever saturates *)
(* however the figures are rounded.                                        *)
Reconciles ==
  outcome = "derived" =>
    /\ metrics.llm_energy + metrics.tool_energy + metrics.unattributed_energy
         = metrics.total_energy
    /\ SumFunction([i \in DOMAIN kept |-> kept[i].end - kept[i].start])
         + metrics.unattributed_duration = metrics.run_duration

(* What a counter gained is given to one step: two steps, however far      *)
(* apart the scrapes, share an increment only when they touch and a sample *)
(* was taken at the very instant they do.  And it is a gain: a counter     *)
(* that goes back anywhere in the run withholds the metrics, so that no    *)
(* difference is below zero, where it would wrap around.                   *)
IncrementsCountedOnce ==
  outcome = "derived" =>
    /\ metrics.total_generation_tokens >= 0
    /\ \A i \in DOMAIN kept :
         LET d == metrics.steps[i].deltas
         IN \A delta \in d.hits \cup d.queries \cup d.generation \cup d.prompt : delta >= 0
    /\ \A timeline \in {input.kv, input.phase} : \A i, j \in DOMAIN kept :
         LET b == Bracket(timeline, kept[i].start, kept[i].end)
             c == Bracket(timeline, kept[j].start, kept[j].end)
         IN i < j /\ b # <<>> /\ c # <<>> /\ c[1] < b[2] =>
              \E k \in DOMAIN timeline : timeline[k].at = kept[i].end /\ kept[i].end = kept[j].start
=============================================================================
