# inferscope in TLA+

A verification project for [inferscope](../src/README.md), a profiler for LLM
inference engines written in Rust. One run of `inferscope` sends one streaming
request to an engine (or attaches to a serving one for a while), samples the
machine and the engine's counters beside it, and derives a report: latencies,
CPU and memory, energy per device, energy per phase, cache-hit rate, and the
energy and counters of each step of an agent.

There are three kinds of code in it. The first runs concurrently: a probe and
up to five sampling loops on a multi-threaded runtime, cancelled and joined in
an order that decides what the report is about. The second reads a world that
changes while it is read: processes that exit between two files, counters that
restart, lines in any order. The third is sequential and decides what may be
claimed: which samples bracket a window, when a figure is withheld, which
estimate may be called a measurement. The project models all three.

Paths below are relative to `src/crates`.

## 1. Inventory

### The parts of a run and their state

| Part | Source | State it keeps | Operations |
|---|---|---|---|
| Run orchestration | `inferscope/src/main.rs` | handles and oneshot senders of the loops, the probe's result, the collected timelines | `orchestrate`, `run_sample_only`: check, spawn, probe or sleep, cancel, join, derive, read steps, report |
| Sampling loops | `is-sysmon/src/sampler.rs`, `is-sysmon/src/gpu_nvidia.rs`, `is-metrics/src/scrape.rs` | an interval, a timeline, the receiver of a cancel | `sample_during`, `sample_gpu_during`, `scrape_during`, `scrape_phase_during`, `scrape_spec_during` |
| Streaming probe | `is-probe/src/{runner,decoder,wire,extract}.rs` | the decoder's buffer, the token stamps, `finished` | `run`: send, status, chunks, lines, trailing line, result |
| GPU energy | `is-sysmon/src/gpu_nvidia.rs`, `is-report/src/derive.rs` | two readings of the energy counters, the power samples | `read_energy_counters`, `compute_energy_delta`, `derive_gpu` |
| `/proc` sampling | `is-sysmon/src/{sampler,parse}.rs` | the sample being added up | `sample_once`, `sample_once_aggregated`: `status`, `stat`, `children` of the pid, then the first two of each child |
| Exposition parsing | `is-metrics/src/{parse,schema,scrape}.rs` | the fields read so far | `scrape_once` and its phase, speculative and LoRA kinds; `parse_series`, `LoraReading` |
| Engine counters and phase energy | `is-report/src/{derive,metrics}.rs` | timelines of counters | `derive_kvcache`, `derive_time_share`, `derive_phase_energy` |
| Trajectory attribution | `is-report/src/trajectory.rs` | steps, kept and dropped windows | `parse_steps`, `derive_trajectory_from_timelines` |
| Timing, resource, efficiency | `is-report/src/derive.rs` | none | `derive_timing`, `derive_resource`, `derive_efficiency` |
| Cost | `is-report/src/cost.rs` | none | `derive_cost` at a declared rate, `render_cost` |
| Command line | `inferscope/src/{cli,main}.rs` | the arguments, the reports archived | `parse_checked`, `Args::engine`, the mode, `run_command`, the exit status |
| Rendering, OpenTelemetry | `is-report/src/{render,metrics,resource_report,otel}.rs` | none | sections of the text, attributes and events of the span, how a reader takes an absent field |

### How they interact

* The orchestrator takes one reference `Instant`, spawns a task per loop with a
  clone of it and a oneshot receiver, and keeps the sender and the handle.
* The loops share nothing with each other. Each gets one message, its cancel,
  and gives back one value, its timeline, through its `JoinHandle`.
* The probe runs in the orchestrator's own task between the spawns and the
  cancels. On the attach path a timer takes its place, and a one-shot read of
  the LoRA state is started as the timer fires and joined last.
* The derivations read the timelines after every join. The step file is read
  after that, so a broken file is found out when the run is over.
* The finished report is rendered as text or JSON and, for a probe, exported as
  a span. An archived report comes back through `cost --report`, perhaps written
  by an earlier build.
* The engine, the GPU driver and the processes of `--pid` are outside: they can
  stall, break the connection, restart, exit between two reads, or fail a single
  query.

### What is hard

* A `select!` is two polls, and the orchestrator is on another thread: a cancel
  can come between them.
* The teardown is a sequence of ten operations with the loops running between
  any two, each of which may panic, return early or be in the middle of a
  sample; and there are early returns in it that drop the senders.
* A body cut anywhere by the transport, by the engine, or by neither.
* Counters that go back between two readings and overtake them again.
* Windows that touch, nest and cross, whose accounts must add up.
* Figures from several devices, each of which failed in its own way.
* A tree of processes read one file at a time while it changes.
* Families split over labels, of several models, with a part that repeats the
  whole, in a body whose lines come in any order.
* Requirements that a subcommand negates, flags of optional features, and an
  argument that the environment can give.
* Reports of earlier builds, whose absent fields mean different things.

`PROJECT.json` lists each of these hazards at its line with the properties that
would catch it going wrong.

### What makes each part correct

* Loops: at most one sample begins after the cancel, whatever is due; a
  cancelled loop ends; timelines are ordered; overdue ticks come in
  bursts no longer than the timer's tolerance allows.
* Orchestration: a report is printed only when nothing is running and carries
  every timeline that was gathered; nothing is awaited that was not told to
  stop; an error leaves no sampler behind; a run whose window has closed ends.
* Probe: the result is that of the whole body, however it was cut; a line is
  stamped when it arrives; a completion ends the probe.
* GPU energy: a counter figure never overstates; a sum that is called a counter
  reading is one.
* `/proc` sampling: a sample adds the processes that lived while it was read,
  each once; CPU use is work they did between two samples.
* Exposition: what is read is what the engine meant for the model; a refused
  scrape had cause in the model's own lines; a sample is whole.
* Engine counters: a delta never overstates; a rate is at most one; the parts of
  a split add up; the text tells why a rate is withheld.
* Trajectory: no stretch of energy is given to two steps; the accounts
  reconcile; a step is dropped only for a reason that holds; no difference wraps.
* Figures and projections: percentiles are of the nearest rank; intervals fit in
  the request; text and trace tell the same run.
* Cost: the parts make up the run; nothing that was not measured has a price.
* Command line: what the code takes for granted after parsing is granted; success
  means that what was to be scraped and joined was, and failure that nothing was
  printed.

## 2. Modules

| Module | What it is | Extends or instantiates |
|---|---|---|
| `SamplingLoop` | control of any number of loops and their cancel channels | |
| `Sampler` | one loop with its clock, missed ticks, slow and failed reads | implements `SamplingLoop` |
| `ProfilingRun` | abstract: what a run promises | |
| `Orchestrator` | both drivers of a run over five loops | extends `SamplingLoop`, implements `ProfilingRun` |
| `SseStream` | symbols, lines and meanings of a streamed body | |
| `WholeBodyProbe` | abstract: a probe that has the whole body | extends `SseStream` |
| `ProbeRunner` | the probe with its decoder, chunks and clock | extends `SseStream`, implements `WholeBodyProbe` |
| `Figures` | operators: timing, resource and efficiency figures | |
| `Rendering` | operators: the sections of the text, the accounting of a rate | |
| `OtelExport` | operators: the span of a report | |
| `ProbeReport` | what is reported of every result of a probe | composes `ProbeRunner` with the three above |
| `GpuEnergy` | devices, counters, the GPU loop's window and `derive_gpu` | |
| `ResourceTree` | processes, and the reads that sample them | extends `Figures` |
| `EngineSchema` | operators: the series of each engine | |
| `Exposition` | one scrape of a body, line by line | extends `EngineSchema` |
| `EngineCounters` | an engine that counts, scrapes, and the first/last derivations | extends `EngineSchema`, `Rendering` |
| `Trajectory` | step file, withholding, placement, slicing | |
| `Cost` | operators: prices and their rendering | |
| `PricedTrajectory` | the price of every derived trajectory | composes `Trajectory` with `Cost` |
| `Invocation` | invocations of the program, one after another, over an archive of reports | extends `Cost`, `Rendering` |
| `FiniteLemmas` | lemmas on finite sets: sums, extremes, ranks, initial segments | |
| `SamplerProofs`, `OrchestratorProofs`, `ProbeRunnerProofs`, `GpuEnergyProofs`, `TrajectoryProofs`, `EngineCountersProofs`, `InvocationProofs` | theorems | extend the module they are about (and of `ResourceTree` the first, `SamplingLoop` the second, `ProbeReport` the third, `PricedTrajectory` the fifth, `Exposition` the sixth) |
| `MC...` | instances for TLC, each with its configurations | extend the module they check |

Definitions with a comment that begins "Mutant:" stand beside the definition
they change. They are bugs the code could plausibly have; no specification uses
them. Each shows that a property can fail.

### How the models correspond to the code

**SamplingLoop.** `task[l]` is where the loop's future is: `select` before the
cancel arm is polled, `polled` between the two arms, `sampling` inside the tick
arm, `closing` while the GPU loop reads its closing counters. A poll is an
action because the sender runs on another thread. `cancel[l]` is the oneshot: a
receiver is ready both when the cancel was sent and when the sender was dropped.
`Abort` is the end of the runtime, which drops a future where it awaits; the GPU
loop, whose sampling is synchronous, is never dropped inside a sample. What a
read returns is not modelled here: a failed read pushes nothing and goes on.

**Sampler.** Adds the tokio interval with `MissedTickBehavior::Skip` (external),
the stamp taken before the read, and the push on success. The interval goes on by
one period after a tick that is at most `Tolerance` late (5 ms in tokio), and
skips to the next slot only after a later one. It has one loop and implements the
control of `SamplingLoop` under a refinement mapping, fairness included.

**Orchestrator.** The two drivers are straight-line code, so each is a sequence
of operations in source order (`ProbeProgram`, `SampleOnlyProgram`), with one
action per operation and `pc` as the place in it. The tasks run between any two
operations. `Init` takes the command line and what it meets: a pid that is live
or gone, an unknown clock tick, a broken step file. What a probe does is left to
`ProbeRunner`; here it ends well or not, or not at all. A panic inside the probe
itself (see the findings) unwinds through `block_on` and is not a result of
`ProbeEnds`. A period of zero, which the command line accepts, panics inside the
task. Failures to render or to export a finished report are left out.

**ProbeRunner.** The body is a sequence of symbols: the prefix `data:`, a
payload of a kind the code distinguishes (content, content with a
finish_reason, a finish_reason alone, neither, `[DONE]`, anything that is no
chunk, bytes that are not UTF-8), a comment, CR and LF. A chunk is any non-empty
prefix of what has not arrived. The body may end anywhere.

**GpuEnergy.** Devices draw a constant power for a second at a time and count
it. Each query fails on its own. A reload sets the counters to zero; one that is
overtaken by the counter again is not noticed by the code, and the property says
so: the figure is then too small, never too large. Memory, utilisation and
temperature, which no decision depends on, are left out.

**Figures, Rendering, OtelExport.** Pure code is operators, without state. An
Option is a set of at most one value, a quotient of floats the pair of its terms,
a section of the text a record of what it says. The nearest rank is computed with
the code's integer arithmetic and compared with its definition.

**ProbeReport.** Applies those operators to every state in which the probe has a
result, with whatever else the run may have measured. The clock goes on after the
probe has ended, so the time of export is any instant from then on: `main` joins,
derives and prints in between. The system clock is taken not to be adjusted
between the run's anchor and the export.

**ResourceTree.** Processes work, fork, exit and are reaped, one jiffy of work
per processor and instant. The sampler opens one file per action, so that any of
these can happen between two; any read may fail, and a read of what is gone does.
A zombie still has its `stat` and no `VmRSS`. History kept for checking (whose
readings a sample adds, the work of all at its begin and end) is in the sample
and named in the module. When samples are due is `Sampler`'s matter.

**Exposition.** A body is a sequence of lines; a line is a comment, has no value,
or is a sample with a name, a label block and a value. A label block is a
sequence of symbols, so that a key can be the end of a longer one, as the code's
search for `key="` sees it. A value is a number of halves, so that truncation and
rounding differ. Each line also carries what the engine means by it, which only
the properties look at; `Written` is the assumption that an engine's labels say
what it means, and the code's search must find those labels and no others. Each
series is read from the first line, as in the code.

**EngineCounters.** The body of an endpoint is a function from a series and a
label to a value. A scrape that fails is not a step. The rounded share of two
floats is modelled as rounding to nearest of the exact quotient. The lines
themselves are `Exposition`'s; the two share `EngineSchema`.

**Trajectory.** A step file is a sequence of blank, malformed and step lines; a
timeline is a sequence of samples in the order of their stamps, which the
module assumes and `Sampler` shows (`TimelineOrdered`). An absent timeline and an
empty one have the same effect and are one case. `Unit` stands for 2,000,000,000
(doubled mW.ns in a millijoule), and is 4 in the run so that floors bite.
`Cost` leaves out the units of an hour and of a kilowatt-hour: a price is a
product.

**Invocation.** `Argv` is what can be written: a set of flags, and the values
that decide anything. One action per stage: parse, resolve the engine, run, join
the steps, print, export; or the cost subcommand. What a run measures is a
choice here (`Orchestrator` and `EngineCounters` say what it can be). The archive
keeps every JSON report, with the build and the engine it was written by as
history, so that a reader's conclusion can be compared with what was true.

## 3. Runs

Properties of a passing run hold in every reachable state or behaviour of the
instance. A violation run checks one sentence of the repository's documentation
against the model, and TLC refutes it: see the findings.

| Run | Question | Instance |
|---|---|---|
| `sampling_loop` | does a cancel stop a loop, and with how many samples after it? | a plain, a scrape and the GPU loop; every order of spawns, cancels, drops and aborts |
| `sampler_clock` | what is in the timeline when ticks are late and reads slow? | period 2, eight instants |
| `orchestrator` | do both drivers keep the promises of a run? | five loops, the LoRA read, both periods zero or not, every pid, tick and step-file outcome |
| `orchestrator_overrun` | do scrapes stop while main waits? | the same |
| `probe_runner` | is the probe independent of how the body is cut, and its report true to it? | all bodies of two lines, some of three, cut short anywhere; five instants |
| `probe_error_status` | is an error status always returned? | the same, three instants |
| `gpu_energy` | may the energy be called what it is called? | two devices, loads of 1 and 3 mW, three ticks, one reload |
| `resource_tree` | what does a sample add up while the tree changes, and what is made of two? | a wrapper and two children, two jiffies on one processor, two samples |
| `exposition` | is what is read what the engine meant? | each kind of scrape and engine; every body of up to three or four of its lines |
| `engine_counters` | are deltas, rates and splits right across labels and restarts? | both engines, three requests, one restart, three scrapes of each kind |
| `trajectory` | do the accounts of an agent's steps, and their prices, add up? | every ordered triple of eleven windows, two device timelines, counters that rise, dip or reset, broken files; both bases |
| `invocation` | is what is accepted what the code relies on, and what is archived read rightly? | seven modes with any of six more flags, each flag beside a subcommand, reports of three builds |

The type invariant of a module is either a conjunct of one of its properties
(`GpuEnergy`, `EngineCounters`, `ProbeRunner`, `ResourceTree`, `Exposition`,
`Invocation`), and proved with it, or a theorem of its own (`SamplingLoop`,
`Sampler`, `Orchestrator`, `Trajectory`).

### Bounds, and why they are enough

* Loops do not interact, so one of each kind shows `SamplingLoop`'s invariants;
  the theorems remove the bound. `late` saturates at two: the question is one
  or more.
* `Sampler`: with a period of two in eight instants a read can span three
  periods, and a cancel can come at any point of the second. With a tolerance of
  three a tick can be late and forgiven, so that one burst of two ticks happens,
  and late enough for slots to be skipped.
* `Orchestrator`: the command lines are not all combinations, but every
  operation is reached with every loop present and absent. The state is finite
  without a bound.
* `ProbeRunner`: the decoder's memory is one line, so two lines have every cut
  inside and between them; three lines have a token before a stop and one
  after.
* `ResourceTree`: two children are the least for one that exits while the other
  is read; two samples are what a CPU figure takes; with two jiffies one can be
  spent between two files and one between two samples, by one process or two.
* `Exposition`: a family of two parts and one that repeats them, or another
  model's line before or after, fit in three lines; the phase scrape needs one
  line per series. The largest `u64` is 19, so that two parts exceed it.
* `Invocation`: flags beyond those that decide something never meet, so the six
  are enough beside each mode; one report of this build joins the three archived.
* `GpuEnergy`: two devices are the least for a mixed sum; three ticks the least
  for an integral that spans a missed one.
* `EngineCounters`: three samples are the least for a reset that the first and
  last do not show; three requests split a series over two labels twice.
* `Trajectory`: placement looks at one kept predecessor, so three steps show a
  dropped one between two others.

`CHECK_DEADLOCK FALSE` is given where the system really stops: a run that has
ended, a clock at its bound.

### Fairness

* `SamplingLoop`, `Sampler`: weak fairness of each loop's own steps. The runtime
  polls a task that is woken, and an interval wakes it again and again; reads of
  `/proc` and NVML return, and an HTTP read has a timeout of five seconds. The
  cancel arm is polled first (`biased`), so weak fairness is enough.
* `Orchestrator`: weak fairness of main, of every loop and of the LoRA read.
  *Nothing* is assumed of the probe: its client has no timeout, so a stalled
  engine keeps a run alive for ever, and `RunsEnd` starts where the window closes.
* `ProbeRunner`: weak fairness of the steps that need no byte of the network.
* `ResourceTree`, `Exposition` and the derivations have safety properties only,
  and no fairness. That reads return is part of `Sampler`'s.

## 4. Proofs

TLAPS checks these for every value of the constants that satisfies the modules'
assumptions. The assumptions name the loops apart, make inputs typed, and say:

* that a timeline of `Trajectory` is ordered, which `Sampler` proves
  (`TimelinesAreOrdered`);
* that a request to an engine counts some token, and no more cached tokens than
  its prompt has (`EngineCounters`);
* that the empty body is one the probe can meet: a stream may end at once, and a
  refused request has no stream (`ProbeRunner`);
* what earlier builds wrote (`Invocation`): an archived report has one of the two
  shapes, the fields its build knew, and a trajectory whose parts make up the
  run. Of this build's own trajectories `Trajectory` proves the last
  (`PricesAddUp`);
* that a basis is a rate by occupancy or by energy (`PricedTrajectory`);
* what an engine writes (`Exposition`: a value is one number or none, a label
  stands once in a block, and the labels name the model, the part of a family
  that repeats the others, and the running adapters, as the line is meant), and
  that a second is an even number of nanoseconds, a value being one of halves.

The theorems, and the invariant each rests on:

* **SamplerProofs**: `TypeCorrect`, `TimelinesAreOrdered`, `OneStampPastCancel`,
  `BurstsAreBounded` and `LongPeriodsDoNotBurst`, for any period and tolerance
  and any bound on the clock. `StampInv`
  says that nothing in the timeline is later than the last stamp, which makes
  the order inductive. `PastInv` says that a sample stamped after the cancel is
  the last of the timeline and that the loop then looks at its cancel or is
  gone; it needs `StampInv` where the cancel is sent. `BurstInv` says that the
  deadline lies as many slots after a tick as there are ticks from that one on,
  less those that fit in the tolerance; a tick moves the deadline by whole
  periods, so that it shifts the slots of all earlier ticks alike, and falls
  itself into the last slot before or, forgiven, into one of the few after. With
  a period above the tolerance none fits, and every tick has a slot of its own.
  `ClockedLoopIsASamplingLoop` is the safety part of `ImplementsSamplingLoop`:
  each step is a step of the loop or none. It needs `LateTicks`: the ticks since
  the cancel are the loop's late samples, and a loop about to poll its tick has
  had none.
* **SamplerProofs**, a sample of processes: `SamplesAreOfTheTree`,
  `CpuFiguresAreOfTheTree`, `WarningsAreJustified`. `ReadingInv` is what holds
  between two files: the sums so far lie between what the processes counted had
  worked at the begin and what they have worked now, what was dead at the begin
  still is, so that what `status` said of a process that lives is never of one
  of those, and the list holds nobody twice. `TakenInv` orders the samples: work
  at the end of one is no more than at the begin of the next.
* **OrchestratorProofs**, the loops alone: `LoopTypeCorrect`,
  `LateSamplesBounded`. That `late` is at most one is not inductive: a loop that
  is `polled` could have a late sample behind it. `LateInv` adds that a poll of
  the tick follows a poll of the cancel that found it open, so `late` is still
  zero there, and that a late sample implies a closed channel, so that the next
  poll leaves. `RunLateSamplesBounded` carries the bound into a run.
* **OrchestratorProofs**, the run: `TypeCorrect`; `ReportsAreComplete`,
  `JoinsFollowCancels` and `FailedProbesLeakNothing` from `TeardownInv`: for each
  operation main has *passed*, what that operation established (a passed cancel:
  the channel is closed; a passed join: the task has ended and the result says
  how), and that only the end of the run drops a channel or a task. The order of
  the two programs enters by lemmas that are facts about the two sequences:
  every loop is joined before the report and before the LoRA read, no join
  precedes its cancel, and what can fail after the probe comes after the joins of
  both samplers. `ProbeInv` adds that a result of the probe lies behind main, and
  an error at the operation that returned it. `BothPathsAreProfilingRuns` is the
  safety part of the refinement of `ProfilingRun`; `CollectInv` says that main
  holds only what was returned and starts the LoRA read once.
* **ProbeRunnerProofs**, the probe: `NoLineIsLeftWaiting` (`BufferInv`: before
  the body the decoder is empty) and `StampsIncludeRoundTrip` (`ClockInv`: the
  reference instant is the instant of the request, and each stamp is a token's
  arrival less that instant). `ProbeReadsTheWholeBody` and `ChunkingIsInvisible`
  say that chunks do not matter: what is buffered and what is on the wire make up
  a rest of the body, and the tokens so far are those of the lines before it
  (`ReadInv`). Its lemmas say how lines, ends of lines and stops lie in a prefix
  of the body and in what is left.
* **ProbeRunnerProofs**, the report: `FiguresAreOfTheRequest` (the nearest rank
  of the code's integer arithmetic is the rank of the definition, for any
  number of intervals; the intervals telescope, so they fit in the total),
  `EventsKeepTheirDistances` and `TextAndSpanTellTheSame`. `EndInv` says that a
  request that ended well took no longer than the time since its start; the clock
  goes on to the export.
* **GpuEnergyProofs**: `CounterIsTruthful`. `CounterInv` is what holds while
  the window is open: a counter has gained what was used, or, after a reload,
  shows at most what was used. `CounterGradeHolds` sums it over the devices
  (`MetricsInv`): a device that has an integral but no counter makes the sum
  mixed, so a sum of the counter grade leaves out only devices without energy.
* **EngineCountersProofs**: `DeltasAreOfTheRequests`, `HitRateAtMostOne`,
  `EnergyIsConserved`, `TextSaysWhy`. That a delta is not too large follows from
  no invariant of the present state: `KvHistory` and `PhaseHistory` relate each
  scrape to every later one and to what the lines say now. While the engine
  lives, the counters have moved by what was done; after a restart they hold at
  most what was done since. `BodyInv` says which lines an engine exposes.
  It was model-checked on the instance of `engine_counters` before it was proved.
* **EngineCountersProofs**, the lines: `ReadingsAreMeant`, `FailuresAreCaused` and
  `SamplesAreComplete` from `ReadingInv`: the fields read so far are as meant, and
  what has been read of the next one is the sum of the lines meant for it among
  those passed, all of which were numbers. It rests on a lemma about the search
  for a label: what it finds after the key's start is the text the engine wrote,
  and the value it wants is found exactly where the engine wrote it.
  `NewestIsReported` rests on `LoraInv`: the series are those of the LoRA lines
  passed, one each, by a bijection that keeps their values, so that as many share
  the newest value as lines do; a line that cannot be read ends the read, which is
  then told as failed, as a failed request is. Both invariants were model-checked on the
  instance of `exposition` first.
* **TrajectoryProofs**, placement: `TypeCorrect`, `KeptWindowsDisjoint`,
  `EnergyCountedOnce`, `EveryPlacementJustified`. `PlacedInv` says that the last
  kept window ends at `lastEnd` and that everything kept ends by it, which makes
  disjointness inductive; that no segment of positive length lies in two windows
  follows. `JustifiedInv` accounts for every step that was placed: kept in the
  order of the file, or dropped for a reason a kept step before it gives.
* **TrajectoryProofs**, figures: `IncrementsNotShared` (the increments of two
  disjoint windows are those of disjoint sets of scrapes, unless they touch where
  a sample was taken, which the statement exempts; and a window over a
  counter that went back has none) and `PricesAddUp` (the segments of the steps
  are a part of those of the run, so what is left is not negative; a price is
  linear in what is priced). `DerivedInv` says that the metrics are those sliced
  of the input.
* **InvocationProofs**: `ArgumentsChecked` and `SuccessIsComplete`. `OptionInv`
  is `TypeOK` with what each stage has (a report from the join on, an exit at the
  end only). `AcceptedInv` says that an invocation past its arguments was
  accepted, and that a run has the engine its flags name. `SuccessInv` says, stage
  by stage, what is already certain of the report and of the output, so that the
  last stage adds only its own step. `ProvenanceHolds` rests on `RecordsInv`
  (every report, archived or in the making, has the fields of its build, filled
  as that build fills them), `PricesAreOfMeasurements` on `PricedInv`.
* **FiniteLemmas**: the provers cannot unfold the recursion under a sum or do
  induction over data, so a sum is characterised by a function on the subsets of
  its domain, and a lemma about every finite set is proved of the smallest one
  that would refute it, which the library's order of subsets provides.

### What stays with TLC

* Liveness (`CancelledLoopsEnd`, `RunsEnd`, `CompletionEndsProbe`) and the
  fairness part of `ImplementsSamplingLoop` and of `ImplementsProfilingRun`: the
  prover has no ENABLED. Their safety parts are theorems, and
  `ImplementsWholeBodyProbe`, which states no fairness, is proved as a whole.
* That the lines of an instance are `Written`: TLC evaluates the assumption in the
  run `exposition`.

## 5. Findings

Two places where a violation run refutes a sentence of the repository.
`PROJECT.json` quotes the sentences.

1. `orchestrator_overrun`: the scrapes go on while main waits for the `/proc`
   and the GPU sampler, which are joined before any scrape is cancelled.
2. `probe_error_status`: an error body with a character across byte 512 makes
   the probe panic where it should return the status.

The following were met while modelling. The models contain the behaviour, where
one is named; no run is spent on them.

Of what the code does:

* A last chunk with content *and* a finish_reason, and no `[DONE]` after it, is
  reported as a truncated stream, although the engine had said it was done
  (`is-probe/src/runner.rs:35`; `ProbeRunner`: `Finish`).
* An engine that restarts and overtakes its first reading yields a rate, where
  ADR-011:150 has "a reset engine yields no rate, never a wrong one"
  (`EngineCounters`).
* A step that opens on a sample takes the sample before it as its baseline, where
  `is-report/src/trajectory.rs:340` says "at or *before*" (`Trajectory`).
* The probe stamps against an instant of its own (`is-probe/src/runner.rs:52`),
  not "the single reference instant" of `inferscope/src/main.rs:110`
  (`ProbeRunner`: `origin` and `now`). With the run's anchor the events of a span
  are therefore earlier than the arrivals, by the same time for all; without it
  they are placed by the time of export, and later (`SpanKeepsTheTokens`).
* tokio's `Skip` forgives a tick that is at most 5 ms late, so with the periods of
  1 to 5 ms that `inferscope/src/cli.rs:62` and `:100` accept overdue ticks do fire
  back to back, where `is-sysmon/src/sampler.rs:143` has "it does not try to catch
  up with a burst of back-to-back samples" (`Sampler`: `BurstBounded`).
* A trailing line that is no chunk is dropped, where with a newline it is
  malformed (`runner.rs:151`; `ProbeRunner`: `Flush` and `DecodeLine`).
* A device whose counter went back and that was sampled once, or drew nothing,
  has no integral either, so it does not mark the sum as
  `gpu_nvidia.rs:216` says (`GpuEnergy`: `Contributing`).
* SGLang's cached tokens under the reserved label `total` are left out of the
  numerator even where no other line repeats them (`is-metrics/src/schema.rs:38`).
* A family of a single line is read from its first line, also where data-parallel
  engines write several for the model (`Exposition`: `ReadingIsWhatTheEngineMeant`).
* The work of a child that exits, or cannot be read in the last sample, lowers the
  mean CPU use, and one that is newly read brings all its past work with it
  (ADR-006: "total CPU work done by the group"; `ResourceTree`:
  `CpuIsWorkOfTheTree` states the bounds that do hold).
* `--page-size` without `--engine` is accepted and dropped, and so is
  `--otel-endpoint` with `--sample-only` (`Invocation`: `EngineOf`, `PrintReport`).
* `cost --report` reads only what a sample-only run wrote; its help
  (`inferscope/src/cli.rs:590`) says "Path to a JSON report produced by a previous
  run" (`Invocation`: `Parses`).

Of what is said:

* The text of a report never shows a trajectory, the phases or the speculative
  counters (`Rendering`: `RenderText`).
* A rate withheld because its span is zero is explained as too few tokens, a CPU
  use withheld for a wall time of zero as too few samples (`Rendering`).
* `is-report/src/metrics.rs:410` says that the timeline is absent when no scrape
  succeeded; it is then present and empty, which `WithheldReason` relies on.
* `is-report/src/cost.rs:76` gives the LLM's part to steps that generated tokens;
  the code goes by the kind of the step (`Cost`: `DeriveCost`).
* The span attribute `inferscope.endpoint` holds the collector's endpoint.

## 6. Plan

Done: the loops, the run and the probe; both samplers of the machine; the
exposition and the derivations; the figures, the projections, the cost and the
command line; the theorems of section 4.

Every invariant that a passing run checks is stated by a theorem, and so is the
safety part of every refinement. What is left is liveness, which stays with TLC.

## 7. Not modelled

* Wording, units, widths and rounding of the text, and the JSON of a report.
* The text of `/proc` files: the model starts from the fields a file yields, or
  from a read that failed. Grandchildren, children forked by other threads of the
  pid (`children` is read of the main thread only), and a pid that is handed out
  again are left out.
* Escaped quotes in a label, a line's own timestamp (which the code would read as
  its value), and a body that is not UTF-8.
* Floating-point arithmetic: shares are exact quotients, rounded as the code
  rounds; ratios that are only divided are left as pairs.
* The request the probe sends, and the memory, utilisation and temperature
  figures of a GPU, on which no decision depends.
* The transport of the span, its runtime and its shutdown: the library's. A
  failure is an outcome of `Export`. This is why OpenTelemetry is listed as partly
  modelled.
* `--help` and `--version`, and the conversion of an argument's text: clap's.
* tokio, reqwest, clap and NVML: external, modelled from how the code uses them.
* Deployment files, benchmark scripts and captured evidence: no program logic.
