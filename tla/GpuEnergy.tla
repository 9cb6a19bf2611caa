----------------------------- MODULE GpuEnergy ------------------------------
(***************************************************************************)
(* The energy of a run on several GPUs: sample_gpu_during brackets its     *)
(* ticks with two readings of each device's energy counter (gpu_nvidia.rs) *)
(* and derive_gpu prefers a device's counter to the integral of its power  *)
(* (derive.rs).  Any single NVML query may fail, and a driver reload sets  *)
(* the counters back to zero.  Time is in seconds: mW.s is a millijoule.   *)
(***************************************************************************)
EXTENDS Integers, Sequences, FiniteSetsExt

CONSTANTS
  Devices,    \* indices of the GPUs
  Powers,     \* what a device can draw, in milliwatts
  Charges,    \* what a counter can show before the run
  MaxTime     \* bound on the clock

ASSUME GpuAssumption ==
  /\ Devices \subseteq Nat /\ IsFiniteSet(Devices)
  /\ Powers \subseteq Nat
  /\ Charges \subseteq Nat
  /\ MaxTime \in Nat

VARIABLES
  now,        \* time since the loop started
  power,      \* what each device draws
  counter,    \* its NVML energy counter
  pc,         \* "start", "sampling", "closed" or "derived"
  opening,    \* the counters read at the start of the window
  samples,    \* timeline.samples
  due,        \* a tick has not fired yet at this time
  energy,     \* timeline.energy; empty stands for None
  metrics,    \* what derive_gpu says of the run
  used,       \* history: the energy each device used since `opening`
  reloaded    \* history: the driver was reloaded in the window

vars == << now, power, counter, pc, opening, samples, due, energy, metrics,
           used, reloaded >>

GpuSamples == [at : 0..MaxTime, device : Devices, power : Powers]

Nothing == [mj |-> 0, source |-> "none"]

Init ==
  /\ now = 0
  /\ power \in [Devices -> Powers]
  /\ counter \in [Devices -> Charges]
  /\ pc = "start"
  /\ opening = << >>
  /\ samples = <<>>
  /\ due = TRUE
  /\ energy = << >>
  /\ metrics = Nothing
  /\ used = [d \in Devices |-> 0]
  /\ reloaded = FALSE

-----------------------------------------------------------------------------
(* The hardware.                                                           *)

Elapse ==
  /\ pc = "sampling"
  /\ now < MaxTime
  /\ now' = now + 1
  /\ counter' = [d \in Devices |-> counter[d] + power[d]]
  /\ used' = [d \in Devices |-> used[d] + power[d]]
  /\ power' \in [Devices -> Powers]
  /\ due' = TRUE
  /\ UNCHANGED <<pc, opening, samples, energy, metrics, reloaded>>

ReloadDriver ==
  /\ pc = "sampling"
  /\ ~reloaded
  /\ reloaded' = TRUE
  /\ counter' = [d \in Devices |-> 0]
  /\ UNCHANGED << now, power, pc, opening, samples, due, energy,
                  metrics, used >>

-----------------------------------------------------------------------------
(* sample_gpu_during                                                       *)

\* read_energy_counters: a device whose call fails is left out, as is one
\* that has no counter and so always fails.
CounterReadings == {[d \in read |-> counter[d]] : read \in SUBSET Devices}

OpenWindow ==
  /\ pc = "start"
  /\ pc' = "sampling"
  /\ opening' \in CounterReadings
  /\ UNCHANGED << now, power, counter, samples, due, energy,
                  metrics, used, reloaded >>

\* sample_once: every device that answers all queries, in index order.
Sampled(read) ==
  LET nth(i) == CHOOSE d \in read : Cardinality({e \in read : e < d}) = i - 1
  IN [i \in 1..Cardinality(read) |-> [at |-> now, device |-> nth(i), power |-> power[nth(i)]]]

Tick ==
  /\ pc = "sampling"
  /\ due
  /\ due' = FALSE
  /\ \E read \in SUBSET Devices : samples' = samples \o Sampled(read)
  /\ UNCHANGED << now, power, counter, pc, opening, energy,
                  metrics, used, reloaded >>

\* Mutant: a device without an opening reading counts from zero.
ComputeEnergyDeltaFromZero(start, end) ==
  LET from(d) == IF d \in DOMAIN start THEN start[d] ELSE 0
  IN [d \in {e \in DOMAIN end : end[e] >= from(e)} |-> end[d] - from(d)]

\* Mutant: the difference is taken whether or not the counter went back.
ComputeEnergyDeltaUnchecked(start, end) ==
  [d \in DOMAIN start \cap DOMAIN end |-> end[d] - start[d]]

\* compute_energy_delta: a device missing from either reading, or whose
\* counter went back, is left out.
ComputeEnergyDelta(start, end) ==
  [d \in {e \in DOMAIN start \cap DOMAIN end : end[e] >= start[e]} |-> end[d] - start[d]]

CloseWindow ==
  /\ pc = "sampling"
  /\ pc' = "closed"
  /\ \E closing \in CounterReadings : energy' = ComputeEnergyDelta(opening, closing)
  /\ UNCHANGED << now, power, counter, opening, samples, due, metrics,
                  used, reloaded >>

-----------------------------------------------------------------------------
(* derive_gpu                                                              *)

SampledDevices == {samples[i].device : i \in DOMAIN samples}

\* integrate_power_trapezoidal over the samples of one device.
Integral(d) ==
  LET own  == {i \in DOMAIN samples : samples[i].device = d}
      next(i) == CHOOSE j \in own : j > i /\ \A k \in own : k <= i \/ k >= j
      areas == [ i \in {k \in own : \E j \in own : j > k} |->
                   (samples[i].power + samples[next(i)].power)
                     * (samples[next(i)].at - samples[i].at) ]
  IN SumFunction(areas) \div 2

DeviceEnergy(d) ==
  CASE d \in DOMAIN energy                       -> [mj |-> energy[d], source |-> "counter"]
    [] d \notin DOMAIN energy /\ Integral(d) > 0 -> [mj |-> Integral(d), source |-> "integrated"]
    [] OTHER                                     -> Nothing

Contributing == {d \in SampledDevices : DeviceEnergy(d).source # "none"}

\* Mutant: one counter makes the sum counter-grade.
AggregateSourceAny ==
  IF \E d \in Contributing : DeviceEnergy(d).source = "counter" THEN "counter" ELSE "integrated"

\* "The weakest link governs".
AggregateSource ==
  IF \A d \in Contributing : DeviceEnergy(d).source = "counter" THEN "counter" ELSE "integrated"

DeriveGpu ==
  /\ pc = "closed"
  /\ pc' = "derived"
  /\ metrics' = IF Contributing = {} THEN Nothing
                ELSE [ mj     |-> SumFunction([d \in Contributing |-> DeviceEnergy(d).mj]),
                       source |-> AggregateSource ]
  /\ UNCHANGED << now, power, counter, opening, samples, due,
                  energy, used, reloaded >>

Next ==
  \/ Elapse \/ ReloadDriver
  \/ OpenWindow \/ Tick \/ CloseWindow
  \/ DeriveGpu

Spec == Init /\ [][Next]_vars

-----------------------------------------------------------------------------
TypeOK ==
  /\ now \in 0..MaxTime
  /\ power \in [Devices -> Powers]
  /\ counter \in [Devices -> Nat]
  /\ pc \in {"start", "sampling", "closed", "derived"}
  /\ \A r \in {opening, energy} :
       DOMAIN r \subseteq Devices /\ \A d \in DOMAIN r : r[d] \in Nat
  /\ samples \in Seq(GpuSamples)
  /\ due \in BOOLEAN /\ reloaded \in BOOLEAN
  /\ metrics \in [mj : Nat, source : {"none", "counter", "integrated"}]
  /\ used \in [Devices -> Nat]

(* A counter reading never claims energy the device did not use, whatever  *)
(* readings fail and whenever the driver is reloaded, is never below zero, *)
(* where it would wrap around, and without a reload is exact.              *)
CounterNeverOverstates ==
  \A d \in DOMAIN energy :
    /\ 0 <= energy[d] /\ energy[d] <= used[d]
    /\ ~reloaded => energy[d] = used[d]

(* "The aggregate is never presented as counter-grade when it is partly    *)
(* estimated" (derive.rs): what is called a counter reading holds nothing  *)
(* the trapezoids could have overstated.  The state keeps its types.       *)
CounterGradeIsMeasured ==
  /\ TypeOK
  /\ metrics.source = "counter" =>
       metrics.mj <= SumFunctionOnSet(used, SampledDevices)

(* Why CounterNeverOverstates holds: what a counter has gained since the   *)
(* opening was used since then, and after a reload all it shows was.       *)
CounterInv ==
  pc = "sampling" =>
    \A d \in DOMAIN opening :
      IF reloaded THEN counter[d] <= used[d] ELSE counter[d] = opening[d] + used[d]
=============================================================================
