--------------------------- MODULE GpuEnergyProofs --------------------------
(***************************************************************************)
(* Proofs about the energy counters: for any number of devices and any     *)
(* load, a counter reading never claims energy the device did not use, and *)
(* an aggregate that is called counter-grade claims no more than they all  *)
(* used.                                                                   *)
(***************************************************************************)
EXTENDS GpuEnergy, FiniteLemmas, TLAPS

\* The part of the types the argument needs.
CounterTypes ==
  /\ pc \in {"start", "sampling", "closed", "derived"}
  /\ power \in [Devices -> Powers]
  /\ counter \in [Devices -> Nat] /\ used \in [Devices -> Nat]
  /\ reloaded \in BOOLEAN
  /\ \A r \in {opening, energy} :
       DOMAIN r \subseteq Devices /\ \A d \in DOMAIN r : r[d] \in Nat

\* Before the window nothing was used, and there is no energy before its end.
WindowInv ==
  /\ pc = "start" => ~reloaded /\ used = [d \in Devices |-> 0]
  /\ pc \in {"start", "sampling"} => DOMAIN energy = {}

CounterIInv == CounterTypes /\ WindowInv /\ CounterInv /\ CounterNeverOverstates

\* It holds before the window.
LEMMA CounterInit == Init => CounterIInv
<1> SUFFICES ASSUME Init PROVE CounterIInv
  OBVIOUS
<1>1. DOMAIN opening = {} /\ DOMAIN energy = {}
  BY DEF Init
<1>2. counter \in [Devices -> Nat] /\ used \in [Devices -> Nat]
  BY GpuAssumption DEF Init, GpuAssumption
<1> QED BY <1>1, <1>2 DEF Init, CounterIInv, CounterTypes, WindowInv, CounterInv,
           CounterNeverOverstates

\* Every step keeps it.
LEMMA CounterStep == CounterIInv /\ [Next]_vars => CounterIInv'
<1> SUFFICES ASSUME CounterIInv, [Next]_vars PROVE CounterIInv'
  OBVIOUS
<1> USE DEF CounterIInv, CounterTypes
<1>1. CASE Elapse
  <2>1. \A d \in Devices : power[d] \in Nat
    BY GpuAssumption DEF GpuAssumption
  <2>2. /\ counter' \in [Devices -> Nat] /\ used' \in [Devices -> Nat]
        /\ \A d \in Devices : counter'[d] = counter[d] + power[d]
                              /\ used'[d] = used[d] + power[d]
    BY <1>1, <2>1 DEF Elapse
  <2>3. /\ UNCHANGED <<pc, opening, energy, reloaded>> /\ pc = "sampling"
        /\ power' \in [Devices -> Powers]
    BY <1>1 DEF Elapse
  <2>4. CounterInv'
    <3> SUFFICES ASSUME NEW d \in DOMAIN opening
                 PROVE  IF reloaded THEN counter'[d] <= used'[d]
                        ELSE counter'[d] = opening[d] + used'[d]
      BY <2>3 DEF CounterInv
    <3>1. d \in Devices /\ opening[d] \in Nat /\ counter[d] \in Nat /\ used[d] \in Nat
      OBVIOUS
    <3>2. IF reloaded THEN counter[d] <= used[d] ELSE counter[d] = opening[d] + used[d]
      BY <2>3 DEF CounterInv
    <3> QED BY <3>1, <3>2, <2>1, <2>2
  <2>5. CounterTypes'
    BY <2>2, <2>3
  <2>6. WindowInv' /\ CounterNeverOverstates'
    BY <2>3 DEF WindowInv, CounterNeverOverstates
  <2> QED BY <2>4, <2>5, <2>6
<1>2. CASE ReloadDriver
  <2>1. /\ counter' = [d \in Devices |-> 0] /\ reloaded' = TRUE /\ pc = "sampling"
        /\ UNCHANGED <<pc, power, opening, energy, used>>
    BY <1>2 DEF ReloadDriver
  <2>2. CounterTypes'
    BY <2>1
  <2>3. CounterInv'
    BY <2>1 DEF CounterInv
  <2>4. WindowInv' /\ CounterNeverOverstates'
    BY <2>1 DEF WindowInv, CounterNeverOverstates
  <2> QED BY <2>2, <2>3, <2>4
<1>3. CASE OpenWindow
  <2>1. /\ UNCHANGED <<power, counter, energy, used, reloaded>>
        /\ pc = "start" /\ pc' = "sampling"
    BY <1>3 DEF OpenWindow
  <2>2. PICK read \in SUBSET Devices : opening' = [d \in read |-> counter[d]]
    BY <1>3 DEF OpenWindow, CounterReadings
  <2>3. /\ DOMAIN opening' \subseteq Devices
        /\ \A d \in DOMAIN opening' : opening'[d] = counter[d] /\ opening'[d] \in Nat
    BY <2>2
  <2>4. CounterTypes'
    BY <2>1, <2>3
  <2>5. CounterInv'
    BY <2>1, <2>3 DEF WindowInv, CounterInv
  <2>6. WindowInv' /\ CounterNeverOverstates'
    BY <2>1 DEF WindowInv, CounterNeverOverstates
  <2> QED BY <2>4, <2>5, <2>6
<1>4. CASE Tick
  BY <1>4 DEF Tick, WindowInv, CounterInv, CounterNeverOverstates
<1>5. CASE CloseWindow
  <2>1. /\ UNCHANGED <<power, counter, opening, used, reloaded>>
        /\ pc = "sampling" /\ pc' = "closed"
    BY <1>5 DEF CloseWindow
  <2>2. PICK read \in SUBSET Devices :
               energy' = ComputeEnergyDelta(opening, [d \in read |-> counter[d]])
    BY <1>5 DEF CloseWindow, CounterReadings
  <2>3. /\ DOMAIN energy' \subseteq DOMAIN opening
        /\ \A d \in DOMAIN energy' : /\ counter[d] >= opening[d]
                                     /\ energy'[d] = counter[d] - opening[d]
    BY <2>2 DEF ComputeEnergyDelta
  <2>4. \A d \in DOMAIN energy' :
          /\ d \in Devices /\ energy'[d] \in Nat
          /\ energy'[d] <= used[d]
          /\ ~reloaded => energy'[d] = used[d]
    <3> SUFFICES ASSUME NEW d \in DOMAIN energy'
                 PROVE  /\ d \in Devices /\ energy'[d] \in Nat
                        /\ energy'[d] <= used[d]
                        /\ ~reloaded => energy'[d] = used[d]
      OBVIOUS
    <3>1. /\ d \in Devices /\ opening[d] \in Nat /\ counter[d] \in Nat /\ used[d] \in Nat
      BY <2>3
    <3>2. IF reloaded THEN counter[d] <= used[d] ELSE counter[d] = opening[d] + used[d]
      BY <2>1, <2>3 DEF CounterInv
    <3> QED BY <3>1, <3>2, <2>3
  <2>5. CounterTypes'
    BY <2>1, <2>4
  <2>6. WindowInv' /\ CounterInv' /\ CounterNeverOverstates'
    BY <2>1, <2>4 DEF WindowInv, CounterInv, CounterNeverOverstates
  <2> QED BY <2>5, <2>6
<1>6. CASE DeriveGpu
  BY <1>6 DEF DeriveGpu, WindowInv, CounterInv, CounterNeverOverstates
<1>7. CASE UNCHANGED vars
  BY <1>7 DEF vars, WindowInv, CounterInv, CounterNeverOverstates
<1> QED BY <1>1, <1>2, <1>3, <1>4, <1>5, <1>6, <1>7 DEF Next

(* A counter reading never claims energy the device did not use, is never  *)
(* negative, and is exact without a reload, for any devices, loads and     *)
(* failed readings.                                                        *)
THEOREM CounterIsTruthful == Spec => []CounterNeverOverstates
<1>1. CounterIInv => CounterNeverOverstates
  BY DEF CounterIInv
<1> QED BY CounterInit, CounterStep, <1>1, PTL DEF Spec

-----------------------------------------------------------------------------
\* What an element of a sequence is and where.
LEMMA ElementOfSeq ==
  ASSUME NEW S, NEW s \in Seq(S), NEW i \in DOMAIN s
  PROVE  s[i] \in S /\ i \in Nat
<1>1. DOMAIN s = 1..Len(s) /\ Len(s) \in Nat
  OBVIOUS
<1> QED BY <1>1

\* sample_once yields samples of its time, whatever devices answer.
LEMMA SampledType ==
  ASSUME CounterTypes, now \in 0..MaxTime, NEW read \in SUBSET Devices
  PROVE  Sampled(read) \in Seq(GpuSamples)
<1> DEFINE n == Cardinality(read)
           rank(d) == Cardinality({e \in read : e < d})
           nth(i) == CHOOSE d \in read : rank(d) = i - 1
           sample(i) == [at |-> now, device |-> nth(i), power |-> power[nth(i)]]
<1>1. /\ IsFiniteSet(read) /\ read \in SUBSET Int /\ n \in Nat
  <2>1. IsFiniteSet(Devices) /\ Devices \subseteq Nat
    BY GpuAssumption DEF GpuAssumption
  <2>2. IsFiniteSet(read)
    BY <2>1, FS_Subset
  <2> QED BY <2>1, <2>2, FS_CardinalityType
<1>2. ASSUME NEW i \in 1..n PROVE sample(i) \in GpuSamples
  <2>1. i - 1 \in Nat /\ i - 1 < n
    BY <1>1
  <2>2. \E d \in read : rank(d) = i - 1
    BY <1>1, <2>1, RankExists
  <2>3. nth(i) \in read
    BY <2>2
  <2> HIDE DEF nth
  <2> QED BY <2>3 DEF CounterTypes, GpuSamples
<1>3. Sampled(read) = [i \in 1..n |-> sample(i)]
  BY DEF Sampled
<1> HIDE DEF sample, n
<1>4. [i \in 1..n |-> sample(i)] \in [1..n -> GpuSamples]
  BY <1>2
<1> QED BY <1>1, <1>3, <1>4

\* The integral of a device's power is a number, whatever was sampled.
LEMMA IntegralIsInt ==
  ASSUME GpuAssumption, samples \in Seq(GpuSamples), NEW d
  PROVE  Integral(d) \in Int
<1> DEFINE own == {i \in DOMAIN samples : samples[i].device = d}
           inner == {k \in own : \E j \in own : j > k}
           next(i) == CHOOSE j \in own : j > i /\ \A k \in own : k <= i \/ k >= j
           areas == [ i \in inner |-> (samples[i].power + samples[next(i)].power)
                                        * (samples[next(i)].at - samples[i].at) ]
<1>1. IsFiniteSet(own) /\ own \in SUBSET Nat
  <2>1. DOMAIN samples = 1..Len(samples) /\ Len(samples) \in Nat
    OBVIOUS
  <2>2. IsFiniteSet(DOMAIN samples)
    BY <2>1, FS_Interval
  <2> QED BY <2>1, <2>2, FS_Subset
<1>2. ASSUME NEW i \in inner PROVE next(i) \in own
  <2> DEFINE later == {j \in own : j > i}
  <2>1. IsFiniteSet(later) /\ later \in SUBSET Int /\ later # {}
    BY <1>1, FS_Subset
  <2>2. PICK m \in later : \A x \in later : m <= x
    BY <2>1, LeastExists
  <2>3. m > i /\ \A k \in own : k <= i \/ k >= m
    BY <1>1, <2>2
  <2> QED BY <2>2, <2>3
<1>3. ASSUME NEW i \in own PROVE samples[i].power \in Nat /\ samples[i].at \in Nat
  <2>1. samples[i] \in GpuSamples
    BY <1>3, ElementOfSeq
  <2>2. Powers \subseteq Nat /\ 0..MaxTime \subseteq Nat
    BY GpuAssumption DEF GpuAssumption
  <2>3. samples[i].power \in Powers /\ samples[i].at \in 0..MaxTime
    BY <2>1 DEF GpuSamples
  <2> QED BY <2>2, <2>3
<1>4. \A i \in inner : areas[i] \in Int
  <2> SUFFICES ASSUME NEW i \in inner PROVE areas[i] \in Int
    OBVIOUS
  <2> DEFINE j == next(i)
  <2>1. i \in own /\ j \in own
    BY <1>2
  <2>2. /\ samples[i].power \in Nat /\ samples[i].at \in Nat
        /\ samples[j].power \in Nat /\ samples[j].at \in Nat
    BY <1>3, <2>1
  <2>3. areas[i] = (samples[i].power + samples[j].power) * (samples[j].at - samples[i].at)
    OBVIOUS
  <2> HIDE DEF j, areas
  <2> QED BY <2>2, <2>3
<1>5. SumFunctionOnSet(areas, inner) \in Int
  <2>1. IsFiniteSet(inner)
    BY <1>1, FS_Subset
  <2> HIDE DEF areas, inner
  <2> QED BY <1>4, <2>1, SumIsInt
<1>6. Integral(d) = SumFunctionOnSet(areas, inner) \div 2
  BY DEF Integral, SumFunction
<1> HIDE DEF areas, inner
<1> QED BY <1>5, <1>6

\* What the loop has sampled, and what was derived from it.
MetricsInv ==
  /\ now \in 0..MaxTime
  /\ samples \in Seq(GpuSamples)
  /\ due \in BOOLEAN
  /\ metrics \in [mj : Nat, source : {"none", "counter", "integrated"}]
  /\ metrics.source = "counter" =>
       pc = "derived" /\ metrics.mj <= SumFunctionOnSet(used, SampledDevices)

\* The sampled devices are finitely many of the devices.
LEMMA SampledDevicesFinite ==
  ASSUME samples \in Seq(GpuSamples)
  PROVE  SampledDevices \subseteq Devices /\ IsFiniteSet(SampledDevices)
<1>1. SampledDevices \subseteq Devices
  <2>1. \A i \in DOMAIN samples : samples[i] \in GpuSamples
    BY ElementOfSeq
  <2> QED BY <2>1 DEF SampledDevices, GpuSamples
<1> QED BY <1>1, GpuAssumption, FS_Subset DEF GpuAssumption

\* derive_gpu: the sum is a number, and made of counters alone it is no
\* more than what the sampled devices used.
LEMMA DerivedMetrics ==
  ASSUME CounterIInv, MetricsInv, DeriveGpu
  PROVE  /\ metrics' \in [mj : Nat, source : {"none", "counter", "integrated"}]
         /\ metrics'.source = "counter" =>
              metrics'.mj <= SumFunctionOnSet(used, SampledDevices)
<1> DEFINE mj == [d \in Contributing |-> DeviceEnergy(d).mj]
<1>1. /\ SampledDevices \subseteq Devices /\ IsFiniteSet(SampledDevices)
      /\ Contributing \subseteq SampledDevices /\ IsFiniteSet(Contributing)
  <2>1. SampledDevices \subseteq Devices /\ IsFiniteSet(SampledDevices)
    BY SampledDevicesFinite DEF MetricsInv
  <2>2. Contributing \subseteq SampledDevices
    BY DEF Contributing
  <2> QED BY <2>1, <2>2, FS_Subset
<1>2. ASSUME NEW d \in Contributing
      PROVE  /\ mj[d] \in Nat
             /\ DeviceEnergy(d).source = "counter" => mj[d] <= used[d]
  <2>1. mj[d] = DeviceEnergy(d).mj
    OBVIOUS
  <2>2. CASE d \in DOMAIN energy
    <3>1. DeviceEnergy(d) = [mj |-> energy[d], source |-> "counter"]
      BY <2>2 DEF DeviceEnergy
    <3>2. energy[d] \in Nat /\ energy[d] <= used[d]
      BY <2>2 DEF CounterIInv, CounterTypes, CounterNeverOverstates
    <3> QED BY <2>1, <3>1, <3>2
  <2>3. CASE d \notin DOMAIN energy /\ Integral(d) > 0
    <3>1. DeviceEnergy(d) = [mj |-> Integral(d), source |-> "integrated"]
      BY <2>3 DEF DeviceEnergy
    <3>2. Integral(d) \in Nat
      BY <2>3, IntegralIsInt, GpuAssumption DEF MetricsInv
    <3> QED BY <2>1, <3>1, <3>2
  <2>4. CASE d \notin DOMAIN energy /\ ~(Integral(d) > 0)
    <3>1. DeviceEnergy(d) = Nothing
      BY <2>4 DEF DeviceEnergy
    <3> QED BY <3>1 DEF Contributing, Nothing
  <2> QED BY <2>2, <2>3, <2>4
<1>3. SumFunction(mj) = SumFunctionOnSet(mj, Contributing)
  BY DEF SumFunction
<1>4. SumFunctionOnSet(mj, Contributing) \in Nat
  <2> HIDE DEF mj
  <2> QED BY <1>1, <1>2, SumIsNat
<1>5. metrics' = IF Contributing = {} THEN Nothing
                 ELSE [mj |-> SumFunction(mj), source |-> AggregateSource]
  BY DEF DeriveGpu
<1>6. AggregateSource = "counter" =>
        SumFunctionOnSet(mj, Contributing) <= SumFunctionOnSet(used, SampledDevices)
  <2> SUFFICES ASSUME AggregateSource = "counter"
               PROVE  SumFunctionOnSet(mj, Contributing)
                        <= SumFunctionOnSet(used, SampledDevices)
    OBVIOUS
  <2>1. \A d \in Contributing : DeviceEnergy(d).source = "counter"
    BY DEF AggregateSource
  <2>2. \A d \in SampledDevices : used[d] \in Nat
    BY <1>1 DEF CounterIInv, CounterTypes
  <2>3. \A d \in Contributing : mj[d] \in Int /\ used[d] \in Int /\ mj[d] <= used[d]
    BY <1>1, <1>2, <2>1, <2>2
  <2> HIDE DEF mj
  <2>4. SumFunctionOnSet(mj, Contributing) <= SumFunctionOnSet(used, Contributing)
    BY <1>1, <2>3, SumMonotone
  <2>5. SumFunctionOnSet(used, Contributing) <= SumFunctionOnSet(used, SampledDevices)
    BY <1>1, <2>2, SumOfSubset
  <2>6. /\ SumFunctionOnSet(used, Contributing) \in Nat
        /\ SumFunctionOnSet(used, SampledDevices) \in Nat
    BY <1>1, <2>2, SumIsNat
  <2> QED BY <1>4, <2>4, <2>5, <2>6
<1>7. AggregateSource \in {"counter", "integrated"}
  BY DEF AggregateSource
<1> HIDE DEF mj
<1> QED BY <1>3, <1>4, <1>5, <1>6, <1>7 DEF Nothing

\* Every step keeps what is said of the metrics.
LEMMA MetricsStep == CounterIInv /\ MetricsInv /\ [Next]_vars => MetricsInv'
<1> SUFFICES ASSUME CounterIInv, MetricsInv, [Next]_vars PROVE MetricsInv'
  OBVIOUS
<1> USE DEF MetricsInv
<1>1. CASE Elapse
  BY <1>1, GpuAssumption DEF Elapse, GpuAssumption
<1>2. CASE ReloadDriver \/ OpenWindow \/ CloseWindow
  <2>1. /\ UNCHANGED <<now, samples, due, metrics, used>>
        /\ pc \in {"start", "sampling"}
    BY <1>2 DEF ReloadDriver, OpenWindow, CloseWindow
  <2>2. UNCHANGED SampledDevices
    BY <2>1 DEF SampledDevices
  <2> QED BY <2>1, <2>2
<1>3. CASE Tick
  <2>1. PICK read \in SUBSET Devices : samples' = samples \o Sampled(read)
    BY <1>3 DEF Tick
  <2>2. samples' \in Seq(GpuSamples)
    BY <2>1, SampledType DEF CounterIInv
  <2>3. UNCHANGED <<now, metrics, pc>> /\ due' = FALSE /\ pc = "sampling"
    BY <1>3 DEF Tick
  <2> QED BY <2>2, <2>3
<1>4. CASE DeriveGpu
  <2>1. UNCHANGED <<now, samples, due, used>> /\ pc' = "derived"
    BY <1>4 DEF DeriveGpu
  <2>2. UNCHANGED SampledDevices
    BY <2>1 DEF SampledDevices
  <2> QED BY <1>4, <2>1, <2>2, DerivedMetrics
<1>5. CASE UNCHANGED vars
  <2>1. UNCHANGED SampledDevices
    BY <1>5 DEF vars, SampledDevices
  <2> QED BY <1>5, <2>1 DEF vars
<1> QED BY <1>1, <1>2, <1>3, <1>4, <1>5 DEF Next

(* "The aggregate is never presented as counter-grade when it is partly    *)
(* estimated" (derive.rs): for any devices, loads, failed readings and     *)
(* reload, what derive_gpu calls a counter reading is at most the energy   *)
(* the sampled devices used.                                               *)
THEOREM CounterGradeHolds == Spec => []CounterGradeIsMeasured
<1>1. Init => MetricsInv
  BY GpuAssumption DEF Init, MetricsInv, Nothing, GpuAssumption
<1>2. CounterIInv /\ MetricsInv => CounterGradeIsMeasured
  BY DEF CounterIInv, CounterTypes, MetricsInv, CounterGradeIsMeasured, TypeOK
<1>3. (CounterIInv /\ MetricsInv) /\ [Next]_vars => (CounterIInv /\ MetricsInv)'
  BY CounterStep, MetricsStep
<1> QED BY CounterInit, <1>1, <1>2, <1>3, PTL DEF Spec
=============================================================================
