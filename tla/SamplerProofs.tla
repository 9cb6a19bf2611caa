--------------------------- MODULE SamplerProofs ----------------------------
(***************************************************************************)
(* Proofs about sampling.  A loop's timeline: for any period, any schedule *)
(* and any reads that fail or take long, its stamps are ordered, at most   *)
(* one of them is later than the cancel, it makes up for no more ticks     *)
(* than fit in the interval's tolerance, and its control is that of module *)
(* SamplingLoop.  A sample of processes: however they come and go between  *)
(* two files, it adds each that it could read once, and what is derived of *)
(* two samples is work that was done.                                      *)
(***************************************************************************)
EXTENDS Sampler, ResourceTree, FiniteLemmas, TLAPS

\* A tick that fires leaves the next one due within a period.
LEMMA NextDeadlineBounds ==
  ASSUME now \in 0..MaxTime, deadline \in Nat, deadline <= now
  PROVE  NextDeadline \in 0..(MaxTime + Period)
<1>1. Period \in Nat \ {0} /\ MaxTime \in Nat
  BY SamplerAssumption DEF SamplerAssumption
<1>2. (now - deadline) % Period \in 0..(Period - 1)
  BY <1>1
<1> QED BY <1>1, <1>2 DEF NextDeadline

\* A loop starts with its types.
LEMMA TypeInit == Init => TypeOK
  BY SamplerAssumption DEF Init, TypeOK, SamplerAssumption

\* Every step keeps them.
LEMMA TypeStep == TypeOK /\ [Next]_vars => TypeOK'
<1> SUFFICES ASSUME TypeOK, [Next]_vars PROVE TypeOK'
  OBVIOUS
<1> USE SamplerAssumption DEF TypeOK, SamplerAssumption
<1>1. CASE Pass
  BY <1>1 DEF Pass
<1>2. CASE Spawn
  BY <1>2 DEF Spawn
<1>3. CASE SendCancel
  <2>1. Len(ticks) \in Nat
    OBVIOUS
  <2> QED BY <1>3, <2>1 DEF SendCancel
<1>4. CASE EnterLoop
  BY <1>4 DEF EnterLoop
<1>5. CASE PollCancel
  BY <1>5 DEF PollCancel
<1>6. CASE TickPending
  BY <1>6 DEF TickPending
<1>7. CASE TickFires
  <2>1. deadline' \in 0..(MaxTime + Period)
    BY <1>7, NextDeadlineBounds DEF TickFires
  <2>2. ticks' \in Seq(0..MaxTime)
    BY <1>7 DEF TickFires
  <2> QED BY <1>7, <2>1, <2>2 DEF TickFires
<1>8. CASE ReadClock
  BY <1>8 DEF ReadClock
<1>9. CASE SampleEnds
  <2>1. Append(timeline, stamp) \in Seq(0..MaxTime)
    OBVIOUS
  <2>2. timeline' = Append(timeline, stamp) \/ timeline' = timeline
    BY <1>9 DEF SampleEnds
  <2>3. timeline' \in Seq(0..MaxTime)
    BY <2>1, <2>2
  <2> QED BY <1>9, <2>3 DEF SampleEnds
<1>10. CASE UNCHANGED vars
  BY <1>10 DEF vars
<1> QED BY <1>1, <1>2, <1>3, <1>4, <1>5, <1>6, <1>7, <1>8, <1>9, <1>10 DEF Next, LoopStep

(* The loop with its clock keeps its types: no stamp, tick or deadline     *)
(* leaves the run (sampler.rs, sample_during), for any period.             *)
THEOREM TypeCorrect == Spec => []TypeOK
<1>1. Init => TypeOK
  BY TypeInit
<1>2. TypeOK /\ [Next]_vars => TypeOK'
  BY TypeStep
<1> QED BY <1>1, <1>2, PTL DEF Spec

-----------------------------------------------------------------------------
\* Nothing in the timeline is later than the last stamp, which is past.
StampInv ==
  /\ stamp <= now
  /\ \A i \in DOMAIN timeline : timeline[i] <= stamp
  /\ TimelineOrdered

\* Every step keeps the order of the stamps.
LEMMA StampStep == TypeOK /\ StampInv /\ [Next]_vars => StampInv'
<1> SUFFICES ASSUME TypeOK, StampInv, [Next]_vars PROVE StampInv'
  OBVIOUS
<1> USE SamplerAssumption DEF TypeOK, StampInv, TimelineOrdered, SamplerAssumption
<1>1. \A i \in DOMAIN timeline : timeline[i] \in Nat
  OBVIOUS
<1>2. CASE Pass
  BY <1>2 DEF Pass
<1>3. CASE ReadClock
  BY <1>1, <1>3 DEF ReadClock
<1>4. CASE SampleEnds
  <2>1. stamp' = stamp /\ now' = now
    BY <1>4 DEF SampleEnds
  <2>2. CASE timeline' = timeline
    BY <2>1, <2>2
  <2>3. CASE timeline' = Append(timeline, stamp)
    <3>1. \A i \in DOMAIN timeline' : timeline'[i] <= stamp
      BY <2>3
    <3>2. \A i, j \in DOMAIN timeline' : i < j => timeline'[i] <= timeline'[j]
      BY <2>3
    <3> QED BY <2>1, <3>1, <3>2
  <2> QED BY <1>4, <2>2, <2>3 DEF SampleEnds
<1>5. CASE UNCHANGED <<now, stamp, timeline>>
  BY <1>5
<1> QED BY <1>2, <1>3, <1>4, <1>5
     DEF Next, LoopStep, vars, Spawn, SendCancel, EnterLoop, PollCancel, TickPending, TickFires

\* It holds of every loop.
LEMMA StampCorrect == Spec => [](TypeOK /\ StampInv)
<1>1. Init => TypeOK /\ StampInv
  BY TypeInit DEF Init, StampInv, TimelineOrdered
<1>2. TypeOK /\ StampInv /\ [Next]_vars => (TypeOK /\ StampInv)'
  BY TypeStep, StampStep
<1> QED BY <1>1, <1>2, PTL DEF Spec

(* The timeline is in the order of its stamps, whichever reads fail and    *)
(* however long they take (scrape.rs, "elapsed_ns ordering is preserved"). *)
THEOREM TimelinesAreOrdered == Spec => []TimelineOrdered
<1>1. StampInv => TimelineOrdered
  BY DEF StampInv
<1> QED BY <1>1, StampCorrect, PTL

-----------------------------------------------------------------------------
\* Samples stamped after the cancel.
Past == {i \in DOMAIN timeline : timeline[i] > cancelAt}

\* There is none until the sample that the cancel found on its way, and
\* after that one the loop looks at the cancel and leaves.
PastInv ==
  Cancelled =>
    /\ Past \subseteq {Len(timeline)}
    /\ Past # {} => pc \in {"select", "returned"}

\* Every step keeps what is said of a sample past the cancel.
LEMMA PastStep == TypeOK /\ StampInv /\ PastInv /\ [Next]_vars => PastInv'
<1> SUFFICES ASSUME TypeOK, StampInv, PastInv, [Next]_vars PROVE PastInv'
  OBVIOUS
<1> USE DEF TypeOK, PastInv, Past, Cancelled
<1>1. CASE SendCancel
  <2>1. \A i \in DOMAIN timeline : timeline[i] \in Nat /\ stamp \in Nat /\ now \in Nat
    BY SamplerAssumption DEF SamplerAssumption
  <2>2. Past' = {}
    BY <1>1, <2>1 DEF SendCancel, StampInv
  <2> QED BY <2>2
<1>2. CASE PollCancel
  BY <1>2 DEF PollCancel
<1>3. CASE SampleEnds
  <2>1. cancelAt' = cancelAt /\ pc = "sampling" /\ pc' = "select"
    BY <1>3 DEF SampleEnds
  <2>2. CASE timeline' = timeline
    BY <2>1, <2>2
  <2>3. CASE timeline' = Append(timeline, stamp)
    <3>1. Cancelled => Past = {}
      BY <2>1
    <3>2. Cancelled => Past' \subseteq {Len(timeline')}
      BY <2>1, <2>3, <3>1
    <3> QED BY <2>1, <3>2
  <2> QED BY <1>3, <2>2, <2>3 DEF SampleEnds
<1>4. CASE Pass \/ EnterLoop \/ TickPending \/ TickFires \/ ReadClock
  BY <1>4 DEF Pass, EnterLoop, TickPending, TickFires, ReadClock
<1>5. CASE Spawn
  BY <1>5 DEF Spawn
<1>6. CASE UNCHANGED vars
  BY <1>6 DEF vars
<1> QED BY <1>1, <1>2, <1>3, <1>4, <1>5, <1>6 DEF Next, LoopStep

(* Of all the samples a loop hands over, at most one was begun after the   *)
(* instant of its cancel: the biased select! lets one in, never two.       *)
THEOREM OneStampPastCancel == Spec => []AtMostOneStampPastCancel
<1>1. Init => PastInv
  BY DEF Init, PastInv, Cancelled
<1>2. TypeOK /\ PastInv => AtMostOneStampPastCancel
  <2> SUFFICES ASSUME TypeOK, PastInv, Cancelled PROVE Cardinality(Past) <= 1
    BY DEF AtMostOneStampPastCancel, Past
  <2>1. IsFiniteSet({Len(timeline)}) /\ Cardinality({Len(timeline)}) = 1
    BY FS_Singleton
  <2>2. Past \subseteq {Len(timeline)}
    BY DEF PastInv
  <2> QED BY <2>1, <2>2, FS_Subset
<1> QED BY <1>1, <1>2, StampCorrect, PastStep, PTL DEF Spec

-----------------------------------------------------------------------------
\* A quotient by the period is the only one that brackets its dividend.
LEMMA QuotientBounds ==
  ASSUME NEW a \in Int
  PROVE  /\ a \div Period \in Int
         /\ (a \div Period) * Period <= a /\ a < (a \div Period) * Period + Period
BY SamplerAssumption DEF SamplerAssumption

\* A deadline that moves by whole periods moves every slot by as many.
LEMMA SlotShifts ==
  ASSUME NEW a \in Int, NEW m \in Int
  PROVE  (a - m * Period) \div Period = (a \div Period) - m
BY SamplerAssumption DEF SamplerAssumption

\* The next deadline is whole periods after the last one: one period after a
\* tick within the tolerance, else as many as bring it past now.
LEMMA NextDeadlineKeepsPhase ==
  ASSUME now \in Int, deadline \in Int
  PROVE  NextDeadline
           = IF now <= deadline + Tolerance THEN deadline + Period
             ELSE deadline + (((now - deadline) \div Period) + 1) * Period
<1> DEFINE q == (now - deadline) \div Period
<1>1. Period \in Nat \ {0} /\ Tolerance \in Nat
  BY SamplerAssumption DEF SamplerAssumption
<1>2. q \in Int /\ (now - deadline) % Period = (now - deadline) - q * Period
  BY <1>1, QuotientBounds
<1> HIDE DEF q
<1>3. q * Period \in Int /\ (q + 1) * Period = q * Period + Period
  BY <1>1, <1>2
<1> QED BY <1>1, <1>2, <1>3 DEF NextDeadline, q

\* The slots that fit in the tolerance.
Forgiven == Tolerance \div Period

\* A tick within the tolerance fires at most that many slots late.
LEMMA ForgivenBounds ==
  /\ Forgiven \in Nat
  /\ \A a \in Int : a <= Tolerance => a \div Period <= Forgiven
<1>1. Period \in Nat \ {0} /\ Tolerance \in Nat
  BY SamplerAssumption DEF SamplerAssumption
<1>2. Forgiven \in Nat
  BY <1>1 DEF Forgiven
<1>3. ASSUME NEW a \in Int, a <= Tolerance
      PROVE  a \div Period <= Tolerance \div Period
  BY <1>1, <1>3
<1> QED BY <1>2, <1>3 DEF Forgiven

\* A deadline lies as many slots after a tick as there are ticks from that
\* one on, but for those that fit in the tolerance.
BurstInv ==
  /\ pc \in {"absent", "spawned"} => ticks = <<>>
  /\ \A i \in DOMAIN ticks : Slot(ticks[i]) + (Len(ticks) + 1 - i) <= Forgiven
  /\ BurstBounded

\* Every step keeps the bound.
LEMMA BurstStep == TypeOK /\ BurstInv /\ [Next]_vars => BurstInv'
<1> SUFFICES ASSUME TypeOK, BurstInv, [Next]_vars PROVE BurstInv'
  OBVIOUS
<1>0. /\ Period \in Nat \ {0} /\ Tolerance \in Nat /\ now \in Int /\ deadline \in Int
      /\ ticks \in Seq(Int) /\ \A i \in DOMAIN ticks : ticks[i] \in Int
  BY SamplerAssumption DEF SamplerAssumption, TypeOK
<1>1. CASE TickFires
  <2> DEFINE q == (now - deadline) \div Period
             m == IF now <= deadline + Tolerance THEN 1 ELSE q + 1
             n == Len(ticks) + 1
  <2>1. q \in Nat
    <3>1. now - deadline \in Int /\ now - deadline >= 0
      BY <1>0, <1>1 DEF TickFires
    <3>2. q \in Int
      BY <3>1, QuotientBounds
    <3>3. q >= 0
      BY <1>0, <3>1
    <3> HIDE DEF q
    <3> QED BY <3>2, <3>3
  <2>2. now - deadline <= Tolerance => q <= Forgiven
    <3>1. \A a \in Int : a <= Tolerance => a \div Period <= Forgiven
      BY ForgivenBounds
    <3>2. now - deadline \in Int
      BY <1>0
    <3> QED BY <3>1, <3>2, Zenon
  <2>3. deadline' = deadline + m * Period
    <3>1. deadline' = NextDeadline
      BY <1>1 DEF TickFires
    <3> QED BY <1>0, <3>1, NextDeadlineKeepsPhase
  <2>4. Slot(now) = q
    BY DEF Slot
  <2> HIDE DEF q
  <2>5. m \in Int /\ m >= 1 /\ q - m + 1 <= Forgiven
    BY <1>0, <2>1, <2>2, ForgivenBounds
  <2> HIDE DEF m
  <2>6. \A t \in Int : /\ Slot(t) \in Int
                       /\ (t - deadline') \div Period = Slot(t) - m
    <3> SUFFICES ASSUME NEW t \in Int
                 PROVE  /\ Slot(t) \in Int
                        /\ (t - deadline') \div Period = Slot(t) - m
      OBVIOUS
    <3>1. t - deadline \in Int /\ m * Period \in Int
      BY <1>0, <2>5
    <3>2. t - deadline' = (t - deadline) - m * Period
      BY <1>0, <2>3, <3>1
    <3> QED BY <2>5, <3>1, <3>2, SlotShifts, QuotientBounds DEF Slot
  <2>7. /\ Len(ticks) \in Nat /\ DOMAIN ticks = 1..Len(ticks)
        /\ Len(ticks') = n /\ DOMAIN ticks' = 1..n
        /\ ticks'[n] = now
        /\ \A i \in DOMAIN ticks : ticks'[i] = ticks[i]
    BY <1>0, <1>1 DEF TickFires
  <2> DEFINE slot(i) == (ticks'[i] - deadline') \div Period
  <2>8. \A i \in DOMAIN ticks :
          /\ Slot(ticks[i]) \in Int /\ Slot(ticks[i]) + (n - i) <= Forgiven
          /\ slot(i) = Slot(ticks[i]) - m
    <3> SUFFICES ASSUME NEW i \in DOMAIN ticks
                 PROVE  /\ Slot(ticks[i]) \in Int /\ Slot(ticks[i]) + (n - i) <= Forgiven
                        /\ slot(i) = Slot(ticks[i]) - m
      OBVIOUS
    <3>1. Slot(ticks[i]) + (Len(ticks) + 1 - i) <= Forgiven
      BY DEF BurstInv
    <3>2. ticks[i] \in Int /\ ticks'[i] = ticks[i]
      BY <1>0, <2>7
    <3>3. Slot(ticks[i]) \in Int /\ (ticks[i] - deadline') \div Period = Slot(ticks[i]) - m
      BY <2>6, <3>2
    <3> QED BY <3>1, <3>2, <3>3
  <2>9. slot(n) = q - m
    BY <1>0, <2>4, <2>6, <2>7
  <2> HIDE DEF slot
  <2>10. \A i \in DOMAIN ticks' : slot(i) + (n + 1 - i) <= Forgiven
    <3> SUFFICES ASSUME NEW i \in 1..n PROVE slot(i) + (n + 1 - i) <= Forgiven
      BY <2>7
    <3>1. CASE i = n
      BY <2>1, <2>5, <2>7, <2>9, <3>1
    <3>2. CASE i \in DOMAIN ticks
      BY <2>5, <2>7, <2>8, <3>2, ForgivenBounds
    <3> QED BY <2>7, <3>1, <3>2
  <2>11. \A i, j \in DOMAIN ticks' : i < j => slot(j) - slot(i) >= (j - i) - Forgiven
    <3> SUFFICES ASSUME NEW i \in 1..n, NEW j \in 1..n, i < j
                 PROVE  slot(j) - slot(i) >= (j - i) - Forgiven
      BY <2>7
    <3>1. i \in DOMAIN ticks
      BY <2>7
    <3>2. CASE j \in DOMAIN ticks
      <4>1. Slot(ticks[j]) - Slot(ticks[i]) >= (j - i) - Forgiven
        BY <3>1, <3>2 DEF BurstInv, BurstBounded, Forgiven
      <4>2. /\ slot(i) = Slot(ticks[i]) - m /\ Slot(ticks[i]) \in Int
            /\ slot(j) = Slot(ticks[j]) - m /\ Slot(ticks[j]) \in Int
        BY <2>8, <3>1, <3>2
      <4> QED BY <2>5, <4>1, <4>2, ForgivenBounds
    <3>3. CASE j = n
      <4>1. /\ slot(i) = Slot(ticks[i]) - m /\ Slot(ticks[i]) \in Int
            /\ Slot(ticks[i]) + (n - i) <= Forgiven
        BY <2>8, <3>1
      <4> QED BY <2>1, <2>5, <2>7, <2>9, <3>3, <4>1, ForgivenBounds
    <3> QED BY <2>7, <3>2, <3>3
  <2>12. pc' = "fired"
    BY <1>1 DEF TickFires
  <2> QED BY <2>7, <2>10, <2>11, <2>12 DEF BurstInv, BurstBounded, Slot, slot, Forgiven
<1>2. CASE EnterLoop
  <2>1. ticks' = <<>>
    BY <1>2 DEF EnterLoop, BurstInv
  <2> QED BY <1>2, <2>1 DEF EnterLoop, BurstInv, BurstBounded
<1>3. CASE Pass \/ Spawn \/ SendCancel \/ PollCancel \/ TickPending
             \/ ReadClock \/ SampleEnds \/ UNCHANGED vars
  BY <1>3 DEF Pass, Spawn, SendCancel, PollCancel, TickPending, ReadClock, SampleEnds,
    vars, BurstInv, BurstBounded, Slot, Forgiven
<1> QED BY <1>1, <1>2, <1>3 DEF Next, LoopStep

(* A loop that falls behind, by however many periods, makes up for no more *)
(* ticks than fit in the interval's tolerance, for any period and any      *)
(* tolerance (sampler.rs, sample_during).                                  *)
THEOREM BurstsAreBounded == Spec => []BurstBounded
<1>1. Init => BurstInv
  BY DEF Init, BurstInv, BurstBounded
<1>2. BurstInv => BurstBounded
  BY DEF BurstInv
<1> QED BY <1>1, <1>2, BurstStep, TypeCorrect, PTL DEF Spec

(* Where the period is longer than the tolerance, no two ticks fire in one *)
(* slot of it.                                                             *)
THEOREM LongPeriodsDoNotBurst ==
  Tolerance < Period =>
    (Spec => [](\A i, j \in DOMAIN ticks : i < j => Slot(ticks[i]) < Slot(ticks[j])))
<1> SUFFICES ASSUME Tolerance < Period
             PROVE  Spec => [](\A i, j \in DOMAIN ticks :
                                 i < j => Slot(ticks[i]) < Slot(ticks[j]))
  OBVIOUS
<1>1. TypeOK /\ BurstBounded =>
        \A i, j \in DOMAIN ticks : i < j => Slot(ticks[i]) < Slot(ticks[j])
  <2> SUFFICES ASSUME TypeOK, BurstBounded,
                      NEW i \in DOMAIN ticks, NEW j \in DOMAIN ticks, i < j
               PROVE  Slot(ticks[i]) < Slot(ticks[j])
    OBVIOUS
  <2>1. Tolerance \div Period = 0
    BY SamplerAssumption DEF SamplerAssumption
  <2>2. i \in Nat /\ j \in Nat /\ Slot(ticks[i]) \in Int /\ Slot(ticks[j]) \in Int
    <3>1. \A k \in DOMAIN ticks : ticks[k] - deadline \in Int
      BY SamplerAssumption DEF SamplerAssumption, TypeOK
    <3>2. DOMAIN ticks \subseteq Nat
      BY DEF TypeOK
    <3> QED BY <3>1, <3>2, QuotientBounds DEF Slot
  <2> QED BY <2>1, <2>2 DEF BurstBounded
<1> QED BY <1>1, BurstsAreBounded, TypeCorrect, PTL
-----------------------------------------------------------------------------
(* The loop with its clock takes the steps of module SamplingLoop.         *)

\* The ticks since the cancel are the late samples, and the loop that polls
\* a tick has had none.
LateTicks ==
  Cancelled =>
    /\ before \in 0..Len(ticks)
    /\ Len(ticks) - before <= 1
    /\ pc \in {"absent", "spawned", "polled"} => before = Len(ticks)

\* Every step keeps what is said of late ticks.
LEMMA LateTicksStep == TypeOK /\ LateTicks /\ [Next]_vars => LateTicks'
<1> SUFFICES ASSUME TypeOK, LateTicks, [Next]_vars PROVE LateTicks'
  OBVIOUS
<1>0. Len(ticks) \in Nat /\ before \in Nat
  BY DEF TypeOK
<1> USE DEF LateTicks, Cancelled
<1>1. CASE TickFires
  <2>1. Len(ticks') = Len(ticks) + 1
    BY <1>1 DEF TickFires, TypeOK
  <2> QED BY <1>0, <1>1, <2>1 DEF TickFires
<1>2. CASE SendCancel
  BY <1>0, <1>2 DEF SendCancel, TypeOK
<1>3. CASE Pass \/ Spawn \/ EnterLoop \/ PollCancel \/ TickPending
             \/ ReadClock \/ SampleEnds \/ UNCHANGED vars
  BY <1>0, <1>3 DEF Pass, Spawn, EnterLoop, PollCancel, TickPending, ReadClock,
    SampleEnds, vars
<1> QED BY <1>1, <1>2, <1>3 DEF Next, LoopStep

\* The variables of SamplingLoop, as the loop with its clock has them.
task   == [l \in {Loop} |-> IF pc = "fired" THEN "sampling" ELSE pc]
cancel == [l \in {Loop} |-> IF Cancelled THEN "sent" ELSE "open"]
period == [l \in {Loop} |-> "positive"]
late   == [l \in {Loop} |-> IF Cancelled THEN Len(ticks) - before ELSE 0]

\* Every step of the loop with its clock is one of the loop, or leaves it be.
LEMMA ControlStep ==
  TypeOK /\ LateTicks /\ [Next]_vars => [Control!LoopNext]_<<task, cancel, period, late>>
<1> SUFFICES ASSUME TypeOK, LateTicks, [Next]_vars
             PROVE  Control!LoopNext \/ UNCHANGED <<task, cancel, period, late>>
  OBVIOUS
<1>0. Loop # "none" /\ Len(ticks) \in Nat /\ before \in Nat
  BY SamplerAssumption DEF TypeOK
<1> USE <1>0 DEF task, cancel, period, late, Cancelled
<1>1. CASE Pass \/ ReadClock \/ UNCHANGED vars
  BY <1>1 DEF Pass, ReadClock, vars
<1>2. CASE Spawn
  <2>1. Control!Spawn(Loop)
    BY <1>2 DEF Spawn, Control!Spawn, Control!Goto
  <2> QED BY <2>1 DEF Control!LoopNext
<1>3. CASE SendCancel
  <2>1. Control!SendCancel(Loop)
    BY <1>3 DEF SendCancel, Control!SendCancel, TypeOK
  <2> QED BY <2>1 DEF Control!LoopNext
<1>4. CASE EnterLoop
  <2>1. Control!EnterLoop(Loop)
    BY <1>4 DEF EnterLoop, Control!EnterLoop, Control!Goto
  <2> QED BY <2>1 DEF Control!LoopNext, Control!LoopStep
<1>5. CASE PollCancel
  <2>1. Control!PollCancel(Loop)
    BY <1>5 DEF PollCancel, Control!PollCancel, Control!Goto
  <2> QED BY <2>1 DEF Control!LoopNext, Control!LoopStep
<1>6. CASE TickPending
  <2>1. Control!TickPending(Loop)
    BY <1>6 DEF TickPending, Control!TickPending, Control!Goto
  <2> QED BY <2>1 DEF Control!LoopNext, Control!LoopStep
<1>7. CASE TickFires
  <2>1. Len(ticks') = Len(ticks) + 1
    BY <1>7 DEF TickFires, TypeOK
  <2>2. pc = "polled" /\ pc' = "fired" /\ UNCHANGED <<cancelAt, before>>
    BY <1>7 DEF TickFires
  <2>3. late[Loop] = 0 /\ late'[Loop] = IF Cancelled THEN 1 ELSE 0
    BY <2>1, <2>2 DEF LateTicks
  <2>4. late' = [late EXCEPT ![Loop] = IF cancel[Loop] # "open" /\ @ < 2 THEN @ + 1 ELSE @]
    <3>1. cancel[Loop] # "open" <=> Cancelled
      OBVIOUS
    <3>2. DOMAIN late' = {Loop}
      OBVIOUS
    <3> QED BY <2>3, <3>1, <3>2
  <2>5. Control!Goto(Loop, "polled", "sampling")
    BY <2>2 DEF Control!Goto
  <2>6. UNCHANGED <<cancel, period>>
    BY <2>2
  <2>7. Control!BeginSample(Loop)
    BY <2>4, <2>5, <2>6 DEF Control!BeginSample
  <2> QED BY <2>7 DEF Control!LoopNext, Control!LoopStep
<1>8. CASE SampleEnds
  <2>1. Control!FinishSample(Loop)
    BY <1>8 DEF SampleEnds, Control!FinishSample, Control!Goto
  <2> QED BY <2>1 DEF Control!LoopNext, Control!LoopStep
<1> QED BY <1>1, <1>2, <1>3, <1>4, <1>5, <1>6, <1>7, <1>8 DEF Next, LoopStep

(* A loop with its clock does nothing that a loop of SamplingLoop may not  *)
(* do: whatever is proved of those loops' steps holds of sample_during.    *)
(* (The fairness in ImplementsSamplingLoop stays with TLC.)                *)
THEOREM ClockedLoopIsASamplingLoop ==
  Spec => /\ Control!LoopInit
          /\ [][Control!LoopNext]_<<task, cancel, period, late>>
<1>1. Init => Control!LoopInit
  BY DEF Init, Control!LoopInit, Cancelled
<1>2. Init => LateTicks
  BY DEF Init, LateTicks, Cancelled
<1> QED BY <1>1, <1>2, LateTicksStep, ControlStep, TypeCorrect, PTL DEF Spec
-----------------------------------------------------------------------------
(* What a sample of processes adds up (module ResourceTree).               *)

\* Work is never undone.
Grown(f, g) == \A p \in Procs : f[p].user <= g[p].user /\ f[p].system <= g[p].system

\* The sample that is being added up, file by file: what it holds so far, and
\* that what was dead at its begin stays so and that status tells of proc.
ReadingInv ==
  /\ file = "idle" => proc = Parent
  /\ proc = Parent => todo = {}
  /\ file # "idle" =>
      /\ agg.began \in Accounts /\ Grown(agg.began, work) /\ agg.at <= elapsed
      /\ AddsUp(agg, work)
      /\ \A p \in agg.dead : state[p] \in {"zombie", "gone"}
      /\ \A i \in DOMAIN samples : samples[i].at <= agg.at /\ Grown(samples[i].ended, agg.began)
      /\ proc # Parent => descendants
      /\ file \in {"status", "stat"} => proc \notin agg.counted /\ (proc = Parent => agg.counted = {})
      /\ file = "children" => proc = Parent /\ descendants /\ agg.counted = {Parent}
      /\ file = "stat" => \A s \in status :
           s = [rss |-> 1024 * Kib[proc], threads |-> Threads[proc]] /\ proc \notin agg.dead

\* The samples taken, one after another.
TakenInv ==
  \A i \in DOMAIN samples :
    LET s == samples[i] IN
    /\ s.began \in Accounts /\ s.ended \in Accounts
    /\ Grown(s.began, s.ended) /\ Grown(s.ended, work) /\ s.at <= elapsed
    /\ \A j \in DOMAIN samples :
         i < j => s.at <= samples[j].at /\ Grown(s.ended, samples[j].began)

TreeInv == ReadingInv /\ TakenInv /\ SampleIsOfTheTree

\* The processes are finitely many, and their pids are numbers.
LEMMA ProcsFinite ==
  /\ IsFiniteSet(Procs) /\ Procs \subseteq Nat
  /\ Parent \in Procs /\ Children \subseteq Procs /\ Parent \notin Children
<1>1. IsFiniteSet(Children)
  BY TreeAssumption DEF TreeAssumption
<1>2. IsFiniteSet(Children \cup {Parent})
  BY <1>1, FS_AddElement
<1>3. Procs = Children \cup {Parent}
  BY DEF Procs
<1> QED BY <1>2, <1>3, TreeAssumption DEF TreeAssumption

\* What a process has worked in a mode is a number.
LEMMA AccountIsNat ==
  ASSUME NEW f \in Accounts, NEW p \in Procs, NEW mode \in {"user", "system"}
  PROVE  f[p][mode] \in Nat
<1>1. f[p] \in [user : Nat, system : Nat]
  BY DEF Accounts
<1>2. CASE mode = "user"
  BY <1>1, <1>2
<1>3. CASE mode = "system"
  BY <1>1, <1>3
<1> QED BY <1>2, <1>3

\* What a set of processes has worked, from one process to the next.
LEMMA TotalFacts ==
  ASSUME NEW f \in Accounts, NEW ps \in SUBSET Procs, NEW mode \in {"user", "system"}
  PROVE  /\ Total(f, ps, mode) \in Nat
         /\ Total(f, {}, mode) = 0
         /\ \A p \in Procs \ ps : Total(f, ps \cup {p}, mode) = f[p][mode] + Total(f, ps, mode)
<1> DEFINE h == [p \in Procs |-> f[p][mode]]
<1>1. IsFiniteSet(ps)
  BY ProcsFinite, FS_Subset
<1>2. \A p \in Procs : h[p] \in Nat /\ h[p] = f[p][mode]
  BY AccountIsNat
<1>3. \A qs : Total(f, qs, mode) = SumFunctionOnSet(h, qs)
  BY DEF Total
<1> HIDE DEF h
<1>4. SumFunctionOnSet(h, ps) \in Nat
  BY <1>1, <1>2, SumIsNat
<1>5. SumFunctionOnSet(h, {}) = 0
  BY SumOfNone
<1>6. ASSUME NEW p \in Procs \ ps
      PROVE  SumFunctionOnSet(h, ps \cup {p}) = f[p][mode] + SumFunctionOnSet(h, ps)
  <2>1. \A x \in ps \cup {p} : h[x] \in Int
    BY <1>2
  <2>2. SumFunctionOnSet(h, ps \cup {p}) = h[p] + SumFunctionOnSet(h, ps)
    BY <1>1, <2>1, SumAdd
  <2> QED BY <2>2, <1>2
<1> QED BY <1>3, <1>4, <1>5, <1>6

\* A set of processes that have worked on has worked no less.
LEMMA TotalGrows ==
  ASSUME NEW f \in Accounts, NEW g \in Accounts, Grown(f, g),
         NEW ps \in SUBSET Procs, NEW mode \in {"user", "system"}
  PROVE  Total(f, ps, mode) <= Total(g, ps, mode)
<1> DEFINE hf == [p \in Procs |-> f[p][mode]]
           hg == [p \in Procs |-> g[p][mode]]
<1>1. IsFiniteSet(ps)
  BY ProcsFinite, FS_Subset
<1>2. \A p \in Procs : hf[p] \in Int /\ hg[p] \in Int
  BY AccountIsNat
<1>3. \A p \in Procs : hf[p] <= hg[p]
  BY DEF Grown
<1>4. Total(f, ps, mode) = SumFunctionOnSet(hf, ps) /\ Total(g, ps, mode) = SumFunctionOnSet(hg, ps)
  BY DEF Total
<1> HIDE DEF hf, hg
<1> QED BY <1>1, <1>2, <1>3, <1>4, SumMonotone

\* Having grown twice is having grown.
LEMMA GrownTransitive ==
  ASSUME NEW f \in Accounts, NEW g \in Accounts, NEW h \in Accounts, Grown(f, g), Grown(g, h)
  PROVE  Grown(f, h)
<1> SUFFICES ASSUME NEW p \in Procs
             PROVE  f[p].user <= h[p].user /\ f[p].system <= h[p].system
  BY DEF Grown
<1>1. /\ f[p] \in [user : Nat, system : Nat]
      /\ g[p] \in [user : Nat, system : Nat]
      /\ h[p] \in [user : Nat, system : Nat]
  BY DEF Accounts
<1>2. /\ f[p].user <= g[p].user /\ f[p].system <= g[p].system
      /\ g[p].user <= h[p].user /\ g[p].system <= h[p].system
  BY DEF Grown
<1> QED BY <1>1, <1>2

\* Nothing undoes work by standing still.
LEMMA GrownReflexive ==
  ASSUME NEW f \in Accounts PROVE Grown(f, f)
<1> SUFFICES ASSUME NEW p \in Procs
             PROVE  f[p].user <= f[p].user /\ f[p].system <= f[p].system
  BY DEF Grown
<1>1. f[p] \in [user : Nat, system : Nat]
  BY DEF Accounts
<1> QED BY <1>1

\* What a sample adds up stays within what is worked until a later end.
LEMMA AddsUpGrows ==
  ASSUME NEW s \in Samples, NEW f \in Accounts, NEW g \in Accounts, AddsUp(s, f), Grown(f, g)
  PROVE  AddsUp(s, g)
<1>1. s.counted \in SUBSET Procs /\ s.user \in Nat /\ s.system \in Nat
  BY DEF Samples
<1>2. ASSUME NEW mode \in {"user", "system"}
      PROVE  s[mode] <= Total(g, s.counted, mode)
  <2>1. s[mode] <= Total(f, s.counted, mode)
    BY DEF AddsUp
  <2>2. Total(f, s.counted, mode) <= Total(g, s.counted, mode)
    BY <1>1, TotalGrows
  <2>3. Total(f, s.counted, mode) \in Nat /\ Total(g, s.counted, mode) \in Nat
    BY <1>1, TotalFacts
  <2>4. s[mode] \in Nat
    BY <1>1
  <2> QED BY <2>1, <2>2, <2>3, <2>4
<1> QED BY <1>2 DEF AddsUp

\* A sample with other sums is a sample.
LEMMA SumsAreSamples ==
  ASSUME NEW s \in Samples, NEW rss \in Nat, NEW threads \in Nat, NEW user \in Nat,
         NEW system \in Nat, NEW counted \in SUBSET Procs
  PROVE  [ s EXCEPT !.rss = rss, !.threads = threads, !.user = user, !.system = system,
                    !.counted = counted ] \in Samples
BY Zenon DEF Samples

\* A process that is added is added with what it had worked by then.
LEMMA AddsOne ==
  ASSUME TreeTypeOK, NEW s \in Samples, s.began \in Accounts, Grown(s.began, work),
         AddsUp(s, work), NEW p \in Procs, p \notin s.counted, p \notin s.dead
  PROVE  LET sum == Add(s, [rss |-> 1024 * Kib[p], threads |-> Threads[p]], p)
         IN /\ sum \in Samples
            /\ AddsUp(sum, work)
            /\ sum.counted = s.counted \cup {p}
            /\ sum.at = s.at /\ sum.began = s.began /\ sum.dead = s.dead
<1> DEFINE sum == Add(s, [rss |-> 1024 * Kib[p], threads |-> Threads[p]], p)
<1>1. /\ s.counted \in SUBSET Procs /\ s.user \in Nat /\ s.system \in Nat
      /\ s.rss \in Nat /\ s.threads \in Nat
  BY DEF Samples
<1>2. Kib[p] \in Nat /\ Threads[p] \in Nat
  BY TreeAssumption DEF TreeAssumption
<1>3. work \in Accounts /\ work[p] \in [user : Nat, system : Nat]
  BY DEF TreeTypeOK, Accounts
<1>4. /\ sum.rss = s.rss + 1024 * Kib[p] /\ sum.threads = s.threads + Threads[p]
      /\ sum.user = s.user + work[p].user /\ sum.system = s.system + work[p].system
      /\ sum.counted = s.counted \cup {p}
      /\ sum.at = s.at /\ sum.began = s.began /\ sum.dead = s.dead /\ sum.ended = s.ended
  BY DEF Samples, Add, ParseStat
<1>5. sum \in Samples
  <2>1. 1024 * Kib[p] \in Nat
    BY <1>2
  <2> DEFINE a == s.rss + 1024 * Kib[p]
             b == s.threads + Threads[p]
             c == s.user + work[p].user
             d == s.system + work[p].system
             e == s.counted \cup {p}
  <2>2. a \in Nat /\ b \in Nat /\ c \in Nat /\ d \in Nat /\ e \in SUBSET Procs
    BY <1>1, <1>2, <1>3, <2>1
  <2>3. sum = [s EXCEPT !.rss = a, !.threads = b, !.user = c, !.system = d, !.counted = e]
    BY DEF Add, ParseStat
  <2> HIDE DEF a, b, c, d, e, sum
  <2>4. [s EXCEPT !.rss = a, !.threads = b, !.user = c, !.system = d, !.counted = e] \in Samples
    BY <2>2, SumsAreSamples, Zenon
  <2> QED BY <2>3, <2>4
<1> HIDE DEF sum
<1>6. ASSUME NEW mode \in {"user", "system"}
      PROVE  /\ Total(sum.began, sum.counted, mode) <= sum[mode]
             /\ sum[mode] <= Total(work, sum.counted, mode)
  <2>1. sum[mode] = s[mode] + work[p][mode]
    BY <1>4
  <2>2. Total(s.began, s.counted, mode) <= s[mode] /\ s[mode] <= Total(work, s.counted, mode)
    BY DEF AddsUp
  <2>3. /\ Total(s.began, s.counted \cup {p}, mode) = s.began[p][mode] + Total(s.began, s.counted, mode)
        /\ Total(work, s.counted \cup {p}, mode) = work[p][mode] + Total(work, s.counted, mode)
        /\ Total(s.began, s.counted, mode) \in Nat /\ Total(work, s.counted, mode) \in Nat
    BY <1>1, <1>3, TotalFacts
  <2>4. s.began[p][mode] <= work[p][mode]
    BY DEF Grown
  <2>5. s.began[p][mode] \in Nat /\ work[p][mode] \in Nat
    BY <1>3, AccountIsNat
  <2>6. s[mode] \in Nat
    BY <1>1
  <2> QED BY <2>1, <2>2, <2>3, <2>4, <2>5, <2>6, <1>4
<1>7. sum.rss = 1024 * SumFunctionOnSet(Kib, sum.counted)
  <2>1. IsFiniteSet(s.counted)
    BY <1>1, ProcsFinite, FS_Subset
  <2>2. \A x \in s.counted \cup {p} : Kib[x] \in Int
    BY <1>1, TreeAssumption DEF TreeAssumption
  <2>3. SumFunctionOnSet(Kib, s.counted \cup {p}) = Kib[p] + SumFunctionOnSet(Kib, s.counted)
    BY <2>1, <2>2, SumAdd
  <2>4. SumFunctionOnSet(Kib, s.counted) \in Int
    BY <2>1, <2>2, SumIsInt
  <2>5. s.rss = 1024 * SumFunctionOnSet(Kib, s.counted)
    BY DEF AddsUp
  <2> QED BY <1>2, <1>4, <2>3, <2>4, <2>5
<1>8. sum.threads = SumFunctionOnSet(Threads, sum.counted)
  <2>1. IsFiniteSet(s.counted)
    BY <1>1, ProcsFinite, FS_Subset
  <2>2. \A x \in s.counted \cup {p} : Threads[x] \in Int
    BY <1>1, TreeAssumption DEF TreeAssumption
  <2>3. SumFunctionOnSet(Threads, s.counted \cup {p}) = Threads[p] + SumFunctionOnSet(Threads, s.counted)
    BY <2>1, <2>2, SumAdd
  <2>4. SumFunctionOnSet(Threads, s.counted) \in Int
    BY <2>1, <2>2, SumIsInt
  <2>5. s.threads = SumFunctionOnSet(Threads, s.counted)
    BY DEF AddsUp
  <2> QED BY <1>2, <1>4, <2>3, <2>4, <2>5
<1>9. sum.counted \cap sum.dead = {}
  BY <1>4 DEF AddsUp
<1>10. AddsUp(sum, work)
  BY <1>6, <1>7, <1>8, <1>9 DEF AddsUp
<1> QED BY <1>4, <1>5, <1>10 DEF sum

\* Nothing is sampled at first.
LEMMA TreeInitial == TreeInit => TreeInv
<1> SUFFICES ASSUME TreeInit PROVE TreeInv
  OBVIOUS
<1> USE DEF TreeInit
<1>1. work \in Accounts
  BY DEF NoWork, Accounts
<1>2. agg \in Samples
  BY TreeAssumption DEF Blank, Samples, TreeAssumption
<1>3. TreeTypeOK
  BY <1>1, <1>2, ProcsFinite, TreeAssumption DEF TreeTypeOK, TreeAssumption
<1> QED BY <1>3 DEF TreeInv, ReadingInv, TakenInv, SampleIsOfTheTree

\* The processes do not touch the sampler, undo no work and do not rise again.
LEMMA ProcessesMoveOn ==
  ASSUME TreeTypeOK,
         Work \/ (\E c \in Children : Fork(c) \/ Reap(c)) \/ (\E p \in Procs : Exit(p))
  PROVE  /\ UNCHANGED sampler
         /\ elapsed' \in 0..MaxElapsed /\ elapsed <= elapsed'
         /\ state' \in [Procs -> {"unborn", "running", "zombie", "gone"}]
         /\ \A p \in Procs : state[p] \in {"zombie", "gone"} => state'[p] \in {"zombie", "gone"}
         /\ work' \in Accounts /\ Grown(work, work')
<1>0. work \in Accounts /\ Grown(work, work) /\ elapsed \in Nat /\ elapsed <= elapsed
  BY GrownReflexive DEF TreeTypeOK
<1>1. CASE Work
  <2>1. PICK busy \in SUBSET Running :
          work' = [ p \in Procs |->
                      IF p \in busy THEN [work[p] EXCEPT ![Mode[p]] = @ + 1] ELSE work[p] ]
    BY <1>1 DEF Work
  <2>2. ASSUME NEW p \in Procs
        PROVE  /\ work'[p] \in [user : Nat, system : Nat]
               /\ work[p].user <= work'[p].user /\ work[p].system <= work'[p].system
    <3>1. work[p] \in [user : Nat, system : Nat] /\ Mode[p] \in {"user", "system"}
      BY <1>0, TreeAssumption DEF Accounts, TreeAssumption
    <3>2. work'[p] \in {work[p], [work[p] EXCEPT ![Mode[p]] = @ + 1]}
      BY <2>1
    <3>3. CASE work'[p] = work[p]
      BY <3>1, <3>3
    <3>4. CASE work'[p] = [work[p] EXCEPT ![Mode[p]] = @ + 1] /\ Mode[p] = "user"
      BY <3>1, <3>4
    <3>5. CASE work'[p] = [work[p] EXCEPT ![Mode[p]] = @ + 1] /\ Mode[p] = "system"
      BY <3>1, <3>5
    <3> QED BY <3>1, <3>2, <3>3, <3>4, <3>5
  <2>3. work' = [p \in Procs |-> work'[p]]
    BY <2>1
  <2>4. work' \in Accounts
    BY <2>2, <2>3 DEF Accounts
  <2>5. Grown(work, work')
    BY <2>2 DEF Grown
  <2>6. UNCHANGED <<state, sampler>> /\ elapsed' = elapsed + 1 /\ elapsed < MaxElapsed
    BY <1>1 DEF Work
  <2>7. elapsed' \in 0..MaxElapsed /\ elapsed <= elapsed'
    BY <2>6, TreeAssumption DEF TreeTypeOK, TreeAssumption
  <2> QED BY <2>4, <2>5, <2>6, <2>7 DEF TreeTypeOK
<1>2. ASSUME NEW c \in Children, Fork(c) \/ Reap(c)
      PROVE  /\ UNCHANGED <<sampler, elapsed, work>>
             /\ state' \in [Procs -> {"unborn", "running", "zombie", "gone"}]
             /\ \A p \in Procs : state[p] \in {"zombie", "gone"} => state'[p] \in {"zombie", "gone"}
  BY <1>2, ProcsFinite DEF Fork, Reap, sampler, TreeTypeOK
<1>3. ASSUME NEW q \in Procs, Exit(q)
      PROVE  /\ UNCHANGED <<sampler, elapsed, work>>
             /\ state' \in [Procs -> {"unborn", "running", "zombie", "gone"}]
             /\ \A p \in Procs : state[p] \in {"zombie", "gone"} => state'[p] \in {"zombie", "gone"}
  BY <1>3 DEF Exit, sampler, TreeTypeOK
<1> QED BY <1>0, <1>1, <1>2, <1>3 DEF TreeTypeOK

\* So they leave what is said of the samples as it was.
LEMMA ProcessesStep ==
  ASSUME TreeInv,
         Work \/ (\E c \in Children : Fork(c) \/ Reap(c)) \/ (\E p \in Procs : Exit(p))
  PROVE  TreeInv'
<1>0. TreeTypeOK
  BY DEF TreeInv, SampleIsOfTheTree
<1>1. /\ UNCHANGED <<descendants, file, proc, status, todo, agg, samples>>
      /\ elapsed' \in 0..MaxElapsed /\ elapsed <= elapsed'
      /\ state' \in [Procs -> {"unborn", "running", "zombie", "gone"}]
      /\ \A p \in Procs : state[p] \in {"zombie", "gone"} => state'[p] \in {"zombie", "gone"}
      /\ work' \in Accounts /\ Grown(work, work')
  BY <1>0, ProcessesMoveOn DEF sampler
<1>2. TreeTypeOK'
  BY <1>0, <1>1 DEF TreeTypeOK
<1>3. SampleIsOfTheTree'
  BY <1>1, <1>2 DEF TreeInv, SampleIsOfTheTree
<1>4. work \in Accounts /\ elapsed \in Nat /\ elapsed' \in Nat
  BY <1>0, <1>1, TreeAssumption DEF TreeTypeOK, TreeAssumption
<1>5. TakenInv'
  <2> SUFFICES ASSUME NEW i \in DOMAIN samples
               PROVE  Grown(samples[i].ended, work') /\ samples[i].at <= elapsed'
    BY <1>1 DEF TreeInv, TakenInv
  <2>1. /\ samples[i].ended \in Accounts /\ Grown(samples[i].ended, work)
        /\ samples[i].at <= elapsed
    BY DEF TreeInv, TakenInv
  <2>2. samples[i].at \in Nat
    <3>1. samples \in Seq(Samples)
      BY <1>0 DEF TreeTypeOK
    <3>2. samples[i] \in Samples
      BY <3>1
    <3> QED BY <3>2, TreeAssumption DEF Samples, TreeAssumption
  <2> QED BY <1>1, <1>4, <2>1, <2>2, GrownTransitive
<1>6. ReadingInv'
  <2> SUFFICES ASSUME file # "idle"
               PROVE  /\ Grown(agg.began, work') /\ agg.at <= elapsed' /\ AddsUp(agg, work')
                      /\ \A p \in agg.dead : state'[p] \in {"zombie", "gone"}
    BY <1>1 DEF TreeInv, ReadingInv
  <2>1. /\ agg.began \in Accounts /\ Grown(agg.began, work) /\ agg.at <= elapsed
        /\ AddsUp(agg, work)
        /\ \A p \in agg.dead : state[p] \in {"zombie", "gone"}
    BY DEF TreeInv, ReadingInv
  <2>2. agg \in Samples /\ agg.at \in Nat /\ agg.dead \subseteq Procs
    BY <1>0, TreeAssumption DEF TreeTypeOK, Samples, TreeAssumption
  <2> QED BY <1>1, <1>4, <2>1, <2>2, GrownTransitive, AddsUpGrows
<1> QED BY <1>3, <1>5, <1>6 DEF TreeInv

\* A sample begins with nothing added.
LEMMA BeginStep == ASSUME TreeInv, BeginSample PROVE TreeInv'
<1> USE DEF BeginSample, processes
<1>0. TreeTypeOK
  BY DEF TreeInv, SampleIsOfTheTree
<1>1. /\ agg'.at = elapsed /\ agg'.began = work /\ agg'.counted = {}
      /\ agg'.dead = {p \in Procs : state[p] \in {"zombie", "gone"}}
      /\ agg'.rss = 0 /\ agg'.threads = 0 /\ agg'.user = 0 /\ agg'.system = 0
  BY DEF Blank
<1>2. work \in Accounts /\ elapsed \in 0..MaxElapsed
  BY <1>0 DEF TreeTypeOK
<1>3. agg' \in Samples
  BY <1>2 DEF Blank, Samples
<1>4. TreeTypeOK'
  BY <1>0, <1>1, <1>3, ProcsFinite DEF TreeTypeOK, TreeInv, ReadingInv
<1>5. AddsUp(agg', work)
  <2>1. \A mode \in {"user", "system"} : Total(work, {}, mode) = 0
    BY <1>2, TotalFacts
  <2>2. SumFunctionOnSet(Kib, {}) = 0 /\ SumFunctionOnSet(Threads, {}) = 0
    BY SumOfNone
  <2> QED BY <1>1, <2>1, <2>2 DEF AddsUp
<1>6. TakenInv'
  BY DEF TreeInv, TakenInv
<1>7. ReadingInv'
  <2>1. Grown(agg'.began, work) /\ agg'.at <= elapsed
    BY <1>1, <1>2, GrownReflexive
  <2>2. \A i \in DOMAIN samples : samples[i].at <= agg'.at /\ Grown(samples[i].ended, agg'.began)
    BY <1>1 DEF TreeInv, TakenInv
  <2>3. proc' = Parent /\ todo' = {} /\ file' = "status"
    BY DEF TreeInv, ReadingInv
  <2> QED BY <1>1, <1>2, <1>5, <2>1, <2>2, <2>3 DEF ReadingInv
<1>8. SampleIsOfTheTree'
  BY <1>4 DEF TreeInv, SampleIsOfTheTree
<1> QED BY <1>6, <1>7, <1>8 DEF TreeInv

\* A sample that fails leaves the timeline as it was.
LEMMA FailedStep ==
  ASSUME TreeInv, Return(samples), UNCHANGED <<elapsed, state, work, descendants>>
  PROVE  TreeInv'
<1> USE DEF Return
<1>1. TreeTypeOK
  BY DEF TreeInv, SampleIsOfTheTree
<1>2. Blank \in Samples
  BY TreeAssumption DEF Blank, Samples, TreeAssumption
<1>3. TreeTypeOK'
  BY <1>1, <1>2, ProcsFinite DEF TreeTypeOK
<1>4. SampleIsOfTheTree'
  BY <1>3 DEF TreeInv, SampleIsOfTheTree
<1>5. TakenInv' /\ ReadingInv'
  BY DEF TreeInv, TakenInv, ReadingInv
<1> QED BY <1>4, <1>5 DEF TreeInv

\* A sample is pushed with what was worked by then.
LEMMA PushStep ==
  ASSUME TreeInv, file # "idle", NEW sample \in Samples,
         sample.at = agg.at, sample.began = agg.began, AddsUp(sample, work),
         Parent \in sample.counted, ~descendants => sample.counted = {Parent},
         Push(sample), UNCHANGED <<elapsed, state, work, descendants>>
  PROVE  TreeInv'
<1> DEFINE last == [sample EXCEPT !.ended = work]
<1> USE DEF Push, Return
<1>1. TreeTypeOK
  BY DEF TreeInv, SampleIsOfTheTree
<1>2. work \in Accounts /\ samples \in Seq(Samples) /\ Len(samples) \in Nat
  BY <1>1 DEF TreeTypeOK
<1>3. /\ last.ended = work /\ last.at = sample.at /\ last.began = sample.began
      /\ last.counted = sample.counted /\ last.dead = sample.dead
      /\ last.user = sample.user /\ last.system = sample.system
      /\ last.rss = sample.rss /\ last.threads = sample.threads
  BY DEF Samples
<1>4. last \in Samples
  BY <1>2 DEF Samples
<1>5. samples' = Append(samples, last)
  OBVIOUS
<1> HIDE DEF last
<1>6. /\ samples' \in Seq(Samples) /\ DOMAIN samples' = 1..(Len(samples) + 1)
      /\ DOMAIN samples = 1..Len(samples)
      /\ \A i \in 1..Len(samples) : samples'[i] = samples[i]
      /\ samples'[Len(samples) + 1] = last
  BY <1>2, <1>4, <1>5
<1>7. Blank \in Samples
  BY TreeAssumption DEF Blank, Samples, TreeAssumption
<1>8. TreeTypeOK'
  BY <1>1, <1>6, <1>7, ProcsFinite DEF TreeTypeOK
<1>9. AddsUp(last, work)
  <2>1. \A mode \in {"user", "system"} : last[mode] = sample[mode]
    BY <1>3
  <2> QED BY <1>3, <2>1 DEF AddsUp
<1>10. SampleIsOfTheTree'
  <2> SUFFICES ASSUME NEW i \in 1..(Len(samples) + 1)
               PROVE  /\ Parent \in samples'[i].counted
                      /\ ~descendants => samples'[i].counted = {Parent}
                      /\ AddsUp(samples'[i], samples'[i].ended)
    BY <1>6, <1>8 DEF SampleIsOfTheTree
  <2>1. CASE i = Len(samples) + 1
    BY <1>3, <1>6, <1>9, <2>1
  <2>2. CASE i \in 1..Len(samples)
    BY <1>6, <2>2 DEF TreeInv, SampleIsOfTheTree
  <2> QED BY <1>2, <2>1, <2>2
<1>11. /\ agg.began \in Accounts /\ Grown(agg.began, work) /\ agg.at <= elapsed
       /\ \A i \in 1..Len(samples) : samples[i].at <= agg.at /\ Grown(samples[i].ended, agg.began)
  BY <1>6 DEF TreeInv, ReadingInv
<1>12. TakenInv'
  <2> SUFFICES ASSUME NEW i \in 1..(Len(samples) + 1)
               PROVE  LET s == samples'[i] IN
                      /\ s.began \in Accounts /\ s.ended \in Accounts
                      /\ Grown(s.began, s.ended) /\ Grown(s.ended, work) /\ s.at <= elapsed
                      /\ \A j \in 1..(Len(samples) + 1) :
                           i < j => s.at <= samples'[j].at /\ Grown(s.ended, samples'[j].began)
    BY <1>6 DEF TakenInv
  <2>1. CASE i = Len(samples) + 1
    <3>1. ~(\E j \in 1..(Len(samples) + 1) : i < j)
      BY <1>2, <2>1
    <3> QED BY <1>2, <1>3, <1>6, <1>11, <2>1, <3>1, GrownReflexive
  <2>2. CASE i \in 1..Len(samples)
    <3>1. /\ samples[i].began \in Accounts /\ samples[i].ended \in Accounts
          /\ Grown(samples[i].began, samples[i].ended) /\ Grown(samples[i].ended, work)
          /\ samples[i].at <= elapsed
          /\ \A j \in 1..Len(samples) :
               i < j => samples[i].at <= samples[j].at /\ Grown(samples[i].ended, samples[j].began)
      BY <1>6, <2>2 DEF TreeInv, TakenInv
    <3>2. ASSUME NEW j \in 1..(Len(samples) + 1), i < j
          PROVE  samples[i].at <= samples'[j].at /\ Grown(samples[i].ended, samples'[j].began)
      <4>1. CASE j = Len(samples) + 1
        BY <1>3, <1>6, <1>11, <2>2, <4>1
      <4>2. CASE j \in 1..Len(samples)
        BY <1>6, <3>1, <3>2, <4>2
      <4> QED BY <1>2, <4>1, <4>2
    <3> QED BY <1>6, <2>2, <3>1, <3>2
  <2> QED BY <1>2, <2>1, <2>2
<1>13. ReadingInv'
  BY DEF ReadingInv
<1> QED BY <1>10, <1>12, <1>13 DEF TreeInv

\* Each child on the list is read next, once.
LEMMA NextChildStep ==
  ASSUME TreeInv, file # "idle", NEW sample \in Samples,
         sample.at = agg.at, sample.began = agg.began, sample.dead = agg.dead,
         AddsUp(sample, work), Parent \in sample.counted,
         NEW left \in SUBSET (Children \ sample.counted),
         ~descendants => sample.counted = {Parent} /\ left = {},
         NextChild(sample, left), UNCHANGED <<elapsed, state, work, descendants>>
  PROVE  TreeInv'
<1>0. TreeTypeOK
  BY DEF TreeInv, SampleIsOfTheTree
<1>1. CASE left = {}
  BY <1>1, PushStep DEF NextChild
<1>2. CASE left # {}
  <2>1. /\ file' = "status" /\ proc' = Min(left) /\ todo' = left \ {Min(left)}
        /\ agg' = sample /\ status' = {} /\ UNCHANGED samples
    BY <1>2 DEF NextChild
  <2>2. Min(left) \in left
    <3>1. left \in SUBSET Procs /\ Procs \in SUBSET Nat
      BY ProcsFinite
    <3>2. IsFiniteSet(left)
      BY <3>1, ProcsFinite, FS_Subset
    <3>3. left \in SUBSET Int
      BY <3>1
    <3> QED BY <1>2, <3>2, <3>3, MinIsLeast
  <2>3. proc' \in Children /\ proc' \notin sample.counted /\ proc' # Parent
    BY <2>1, <2>2, ProcsFinite
  <2>4. TreeTypeOK'
    BY <1>0, <2>1, <2>3, ProcsFinite DEF TreeTypeOK
  <2>5. SampleIsOfTheTree'
    BY <2>1, <2>4 DEF TreeInv, SampleIsOfTheTree
  <2>6. TakenInv'
    BY <2>1 DEF TreeInv, TakenInv
  <2>7. ReadingInv'
    BY <1>2, <2>1, <2>3 DEF TreeInv, ReadingInv
  <2> QED BY <2>5, <2>6, <2>7 DEF TreeInv
<1> QED BY <1>1, <1>2

\* A read that fails ends the sample of the parent and skips a child.
LEMMA ReadFailsStep ==
  ASSUME TreeInv, file \in {"status", "stat"}, ReadFails,
         UNCHANGED <<elapsed, state, work, descendants>>
  PROVE  TreeInv'
<1>0. TreeTypeOK
  BY DEF TreeInv, SampleIsOfTheTree
<1>1. CASE proc = Parent
  BY <1>1, FailedStep DEF ReadFails
<1>2. CASE proc # Parent
  <2>1. agg \in Samples /\ Parent \in agg.counted /\ todo \in SUBSET (Children \ agg.counted)
    BY <1>0, <1>2 DEF TreeTypeOK
  <2>2. descendants /\ AddsUp(agg, work)
    BY <1>2 DEF TreeInv, ReadingInv
  <2> QED BY <1>2, <2>1, <2>2, NextChildStep DEF ReadFails
<1> QED BY <1>1, <1>2

\* What status holds is of a process that lives.
LEMMA ReadStatusStep == ASSUME TreeInv, ReadStatus PROVE TreeInv'
<1>0. TreeTypeOK
  BY DEF TreeInv, SampleIsOfTheTree
<1>1. file = "status" /\ UNCHANGED <<elapsed, state, work, descendants>>
  BY DEF ReadStatus, processes
<1>2. CASE ReadFails
  BY <1>1, <1>2, ReadFailsStep
<1>3. CASE status' = ParseStatus(proc) /\ file' = "stat" /\ UNCHANGED <<proc, todo, agg, samples>>
  <2>1. \A s \in status' : /\ s = [rss |-> 1024 * Kib[proc], threads |-> Threads[proc]]
                           /\ state[proc] = "running"
    BY <1>3 DEF ParseStatus
  <2>2. Kib[proc] \in Nat /\ Threads[proc] \in Nat /\ 1024 * Kib[proc] \in Nat
    BY <1>0, TreeAssumption DEF TreeTypeOK, TreeAssumption
  <2>3. status' \in SUBSET [rss : Nat, threads : Nat]
    BY <2>1, <2>2
  <2>4. TreeTypeOK'
    BY <1>0, <1>1, <1>3, <2>3 DEF TreeTypeOK
  <2>5. SampleIsOfTheTree' /\ TakenInv'
    BY <1>1, <1>3, <2>4 DEF TreeInv, SampleIsOfTheTree, TakenInv
  <2>6. ReadingInv'
    BY <1>1, <1>3, <2>1 DEF TreeInv, ReadingInv
  <2> QED BY <2>5, <2>6 DEF TreeInv
<1> QED BY <1>2, <1>3 DEF ReadStatus

\* What stat and status hold is added, and the children are next.
LEMMA ReadStatStep == ASSUME TreeInv, ReadStat PROVE TreeInv'
<1>0. TreeTypeOK
  BY DEF TreeInv, SampleIsOfTheTree
<1>1. file = "stat" /\ UNCHANGED <<elapsed, state, work, descendants>>
  BY DEF ReadStat, processes
<1>2. CASE ReadFails
  BY <1>1, <1>2, ReadFailsStep
<1>3. CASE ~ReadFails
  <2> DEFINE sum == Add(agg, [rss |-> 1024 * Kib[proc], threads |-> Threads[proc]], proc)
  <2>1. status # {}
    BY <1>3 DEF ReadStat
  <2>2. /\ (CHOOSE s \in status : TRUE) = [rss |-> 1024 * Kib[proc], threads |-> Threads[proc]]
        /\ proc \notin agg.dead
    BY <1>1, <2>1 DEF TreeInv, ReadingInv
  <2>3. IF proc = Parent /\ descendants
        THEN /\ agg' = sum /\ status' = {} /\ file' = "children"
             /\ UNCHANGED <<proc, todo, samples>>
        ELSE NextChild(sum, todo)
    BY <1>3, <2>2 DEF ReadStat
  <2>4. /\ agg \in Samples /\ proc \in Procs /\ agg.began \in Accounts
        /\ Grown(agg.began, work) /\ AddsUp(agg, work) /\ proc \notin agg.counted
    BY <1>0, <1>1 DEF TreeTypeOK, TreeInv, ReadingInv
  <2>5. /\ sum \in Samples /\ AddsUp(sum, work) /\ sum.counted = agg.counted \cup {proc}
        /\ sum.at = agg.at /\ sum.began = agg.began /\ sum.dead = agg.dead
    BY <1>0, <2>2, <2>4, AddsOne
  <2> HIDE DEF sum
  <2>6. /\ Parent \in sum.counted /\ todo \in SUBSET (Children \ sum.counted)
        /\ ~descendants => sum.counted = {Parent} /\ todo = {}
        /\ proc = Parent => sum.counted = {Parent} /\ todo = {}
    BY <1>0, <1>1, <2>5 DEF TreeTypeOK, TreeInv, ReadingInv
  <2>7. CASE proc = Parent /\ descendants
    <3>1. /\ agg' = sum /\ status' = {} /\ file' = "children"
          /\ UNCHANGED <<proc, todo, samples>>
      BY <2>3, <2>7
    <3>2. TreeTypeOK'
      BY <1>0, <1>1, <2>5, <2>6, <2>7, <3>1 DEF TreeTypeOK
    <3>3. SampleIsOfTheTree' /\ TakenInv'
      BY <1>1, <3>1, <3>2 DEF TreeInv, SampleIsOfTheTree, TakenInv
    <3>4. ReadingInv'
      BY <1>1, <2>5, <2>6, <2>7, <3>1 DEF TreeInv, ReadingInv
    <3> QED BY <3>3, <3>4 DEF TreeInv
  <2>8. CASE ~(proc = Parent /\ descendants)
    BY <1>1, <2>3, <2>5, <2>6, <2>8, NextChildStep
  <2> QED BY <2>7, <2>8
<1> QED BY <1>2, <1>3

\* The list is of children, none of which has been read.
LEMMA ReadChildrenStep == ASSUME TreeInv, ReadChildren PROVE TreeInv'
<1>1. file = "children" /\ UNCHANGED <<elapsed, state, work, descendants>>
  BY DEF ReadChildren, processes
<1>2. PICK list \in {Listed, {}} : NextChild(agg, list)
  BY DEF ReadChildren
<1>3. list \in SUBSET Children
  BY DEF Listed
<1>4. /\ descendants /\ agg.counted = {Parent} /\ AddsUp(agg, work) /\ agg \in Samples
  BY <1>1 DEF TreeInv, ReadingInv, SampleIsOfTheTree, TreeTypeOK
<1>5. list \in SUBSET (Children \ agg.counted)
  BY <1>3, <1>4, ProcsFinite
<1> QED BY <1>1, <1>2, <1>4, <1>5, NextChildStep

\* Every step keeps it.
LEMMA TreeStep == TreeInv /\ [TreeNext]_treeVars => TreeInv'
<1> SUFFICES ASSUME TreeInv, [TreeNext]_treeVars PROVE TreeInv'
  OBVIOUS
<1>1. CASE Work \/ (\E c \in Children : Fork(c) \/ Reap(c)) \/ (\E p \in Procs : Exit(p))
  BY <1>1, ProcessesStep
<1>2. CASE BeginSample
  BY <1>2, BeginStep
<1>3. CASE Read
  BY <1>3, ReadStatusStep, ReadStatStep, ReadChildrenStep DEF Read
<1>4. CASE UNCHANGED treeVars
  BY <1>4 DEF treeVars, TreeInv, ReadingInv, TakenInv, SampleIsOfTheTree, TreeTypeOK
<1> QED BY <1>1, <1>2, <1>3, <1>4 DEF TreeNext

\* It holds of every run.
LEMMA TreeHolds == TreeSpec => []TreeInv
BY TreeInitial, TreeStep, PTL DEF TreeSpec

(* Whatever the processes do between two files and whichever reads fail,   *)
(* a sample adds the parent and each child it could read once (module      *)
(* ResourceTree, sample_once_aggregated), for any processes, sizes and     *)
(* number of processors.                                                   *)
THEOREM SamplesAreOfTheTree == TreeSpec => []SampleIsOfTheTree
<1>1. TreeInv => SampleIsOfTheTree
  BY DEF TreeInv
<1> QED BY <1>1, TreeHolds, PTL

\* What the figures take of a sample, and where it lies.
LEMMA TakenSample ==
  ASSUME TreeInv, NEW i \in DOMAIN samples
  PROVE  /\ samples[i] \in Samples /\ samples[i].counted \in SUBSET Procs
         /\ samples[i].at \in Nat /\ samples[i].user \in Nat /\ samples[i].system \in Nat
         /\ samples[i].began \in Accounts /\ samples[i].ended \in Accounts
         /\ Grown(samples[i].began, samples[i].ended)
         /\ Parent \in samples[i].counted
         /\ ~descendants => samples[i].counted = {Parent}
         /\ AddsUp(samples[i], samples[i].ended)
<1>1. samples \in Seq(Samples)
  BY DEF TreeInv, SampleIsOfTheTree, TreeTypeOK
<1>2. samples[i] \in Samples
  BY <1>1
<1> QED BY <1>2, TreeAssumption DEF Samples, TreeInv, TakenInv, SampleIsOfTheTree, TreeAssumption

\* Jiffies of both modes: sums of parts, and growth.
LEMMA JiffiesFacts ==
  ASSUME NEW f \in Accounts, NEW ps \in SUBSET Procs
  PROVE  /\ Jiffies(f, ps) \in Nat
         /\ \A qs \in SUBSET Procs : ps \cap qs = {} =>
              Jiffies(f, ps \cup qs) = Jiffies(f, ps) + Jiffies(f, qs)
         /\ \A qs \in SUBSET ps : Jiffies(f, qs) <= Jiffies(f, ps)
         /\ \A g \in Accounts : Grown(f, g) => Jiffies(f, ps) <= Jiffies(g, ps)
<1>1. \A rs \in SUBSET Procs, g \in Accounts : Total(g, rs, "user") \in Nat /\ Total(g, rs, "system") \in Nat
  BY TotalFacts
<1>2. ASSUME NEW qs \in SUBSET Procs, ps \cap qs = {}, NEW mode \in {"user", "system"}
      PROVE  Total(f, ps \cup qs, mode) = Total(f, ps, mode) + Total(f, qs, mode)
  <2> DEFINE h == [p \in Procs |-> f[p][mode]]
  <2>1. IsFiniteSet(ps) /\ IsFiniteSet(qs)
    BY ProcsFinite, FS_Subset
  <2>2. \A p \in ps \cup qs : h[p] \in Int
    BY AccountIsNat
  <2>3. \A rs : Total(f, rs, mode) = SumFunctionOnSet(h, rs)
    BY DEF Total
  <2> HIDE DEF h
  <2> QED BY <1>2, <2>1, <2>2, <2>3, SumOfUnion
<1>3. ASSUME NEW qs \in SUBSET Procs, ps \cap qs = {}
      PROVE  Jiffies(f, ps \cup qs) = Jiffies(f, ps) + Jiffies(f, qs)
  BY <1>1, <1>2, <1>3 DEF Jiffies
<1>4. ASSUME NEW qs \in SUBSET ps
      PROVE  Jiffies(f, qs) <= Jiffies(f, ps)
  <2>1. ASSUME NEW mode \in {"user", "system"}
        PROVE  Total(f, qs, mode) <= Total(f, ps, mode)
    <3> DEFINE k == [p \in Procs |-> f[p][mode]]
    <3>1. IsFiniteSet(ps)
      BY ProcsFinite, FS_Subset
    <3>2. \A p \in ps : k[p] \in Nat
      BY AccountIsNat
    <3>3. \A rs : Total(f, rs, mode) = SumFunctionOnSet(k, rs)
      BY DEF Total
    <3> HIDE DEF k
    <3> QED BY <3>1, <3>2, <3>3, SumOfSubset
  <2>2. qs \in SUBSET Procs
    OBVIOUS
  <2> QED BY <1>1, <2>1, <2>2 DEF Jiffies
<1>5. ASSUME NEW g \in Accounts, Grown(f, g)
      PROVE  Jiffies(f, ps) <= Jiffies(g, ps)
  <2>1. Total(f, ps, "user") <= Total(g, ps, "user") /\ Total(f, ps, "system") <= Total(g, ps, "system")
    BY <1>5, TotalGrows
  <2> QED BY <1>1, <2>1 DEF Jiffies
<1>6. Jiffies(f, ps) \in Nat
  BY <1>1 DEF Jiffies
<1> QED BY <1>3, <1>4, <1>5, <1>6

\* What a sample says of the work of those it counts.
LEMMA SampleWork ==
  ASSUME TreeInv, NEW i \in DOMAIN samples
  PROVE  LET s == samples[i] IN
         /\ Jiffies(s.began, s.counted) <= s.user + s.system
         /\ s.user + s.system <= Jiffies(s.ended, s.counted)
<1> DEFINE s == samples[i]
<1>1. /\ s.user \in Nat /\ s.system \in Nat
      /\ s.began \in Accounts /\ s.ended \in Accounts /\ s.counted \in SUBSET Procs
      /\ AddsUp(s, s.ended)
  BY TakenSample
<1>2. \A mode \in {"user", "system"} :
        Total(s.began, s.counted, mode) \in Nat /\ Total(s.ended, s.counted, mode) \in Nat
  BY <1>1, TotalFacts
<1>3. /\ Total(s.began, s.counted, "user") <= s.user /\ s.user <= Total(s.ended, s.counted, "user")
      /\ Total(s.began, s.counted, "system") <= s.system
      /\ s.system <= Total(s.ended, s.counted, "system")
  BY <1>1 DEF AddsUp
<1> HIDE DEF s
<1>4. /\ Jiffies(s.began, s.counted) <= s.user + s.system
      /\ s.user + s.system <= Jiffies(s.ended, s.counted)
  BY <1>1, <1>2, <1>3 DEF Jiffies
<1> QED BY <1>4 DEF s

\* The work between two samples, bounded by what the processes worked.
LEMMA WorkBetween ==
  ASSUME TreeInv, NEW i \in DOMAIN samples, NEW j \in DOMAIN samples, i < j
  PROVE  LET first  == samples[i]
             last   == samples[j]
             joined == last.counted \ first.counted
             delta  == JiffyDelta(first, last)
         IN /\ delta \in Nat
            /\ delta <= Jiffies(last.ended, Procs) - Jiffies(first.began, Procs \ joined)
            /\ first.counted = last.counted =>
                 /\ Jiffies(last.began, last.counted) - Jiffies(first.ended, last.counted) <= delta
                 /\ delta <= Jiffies(last.ended, last.counted) - Jiffies(first.began, last.counted)
<1> DEFINE first  == samples[i]
           last   == samples[j]
           joined == last.counted \ first.counted
           others == Procs \ (first.counted \cup last.counted)
           was    == first.user + first.system
           is     == last.user + last.system
<1>1. /\ first.counted \in SUBSET Procs /\ last.counted \in SUBSET Procs
      /\ first.user \in Nat /\ first.system \in Nat /\ last.user \in Nat /\ last.system \in Nat
      /\ first.began \in Accounts /\ first.ended \in Accounts
      /\ last.began \in Accounts /\ last.ended \in Accounts
      /\ Grown(first.began, first.ended) /\ Grown(last.began, last.ended)
  BY TakenSample
<1>2. Grown(first.ended, last.began)
  BY DEF TreeInv, TakenInv
<1>3. Grown(first.began, last.ended)
  BY <1>1, <1>2, GrownTransitive
<1>4. /\ Jiffies(first.began, first.counted) <= was /\ was <= Jiffies(first.ended, first.counted)
      /\ Jiffies(last.began, last.counted) <= is /\ is <= Jiffies(last.ended, last.counted)
  BY SampleWork
<1>5. JiffyDelta(first, last) = IF is - was > 0 THEN is - was ELSE 0
  <2>1. is - was \in Int
    BY <1>1
  <2>2. \A a, b : JiffyDelta(a, b) = Max({0, b.user + b.system - (a.user + a.system)})
    BY DEF JiffyDelta
  <2>3. last.user + last.system - (first.user + first.system) = is - was
    BY <1>1
  <2>4. JiffyDelta(first, last) = Max({0, is - was})
    BY <2>2, <2>3
  <2>5. Max({0, is - was}) = IF 0 <= is - was THEN is - was ELSE 0
    BY <2>1, OfTwo
  <2>6. 0 <= is - was <=> is - was > 0 \/ is - was = 0
    BY <1>1
  <2> HIDE DEF is, was
  <2> QED BY <2>1, <2>4, <2>5, <2>6
<1>6. was \in Nat /\ is \in Nat
  BY <1>1
<1> HIDE DEF first, last, was, is
<1>7. Jiffies(last.ended, Procs) =
        Jiffies(last.ended, last.counted) + Jiffies(last.ended, Procs \ last.counted)
  <2>1. Procs = last.counted \cup (Procs \ last.counted)
    BY <1>1
  <2>2. Procs \ last.counted \in SUBSET Procs /\ last.counted \cap (Procs \ last.counted) = {}
    OBVIOUS
  <2> QED BY <1>1, <2>1, <2>2, JiffiesFacts
<1>8. Jiffies(first.began, Procs \ joined) =
        Jiffies(first.began, first.counted) + Jiffies(first.began, others)
  <2>1. Procs \ joined = first.counted \cup others
    BY <1>1
  <2>2. others \in SUBSET Procs /\ first.counted \cap others = {}
    OBVIOUS
  <2> QED BY <1>1, <2>1, <2>2, JiffiesFacts
<1>9. Jiffies(first.began, others) <= Jiffies(last.ended, Procs \ last.counted)
  <2>1. others \in SUBSET (Procs \ last.counted) /\ others \in SUBSET Procs
    OBVIOUS
  <2>2. Procs \ last.counted \in SUBSET Procs
    OBVIOUS
  <2>3. Jiffies(first.began, others) <= Jiffies(last.ended, others)
    BY <1>1, <1>3, <2>1, JiffiesFacts
  <2>4. Jiffies(last.ended, others) <= Jiffies(last.ended, Procs \ last.counted)
    BY <1>1, <2>1, <2>2, JiffiesFacts
  <2>5. /\ Jiffies(first.began, others) \in Nat /\ Jiffies(last.ended, others) \in Nat
        /\ Jiffies(last.ended, Procs \ last.counted) \in Nat
    BY <1>1, <2>1, <2>2, JiffiesFacts
  <2> QED BY <2>3, <2>4, <2>5
<1>10. Jiffies(first.began, Procs \ joined) <= Jiffies(last.ended, Procs)
  <2>1. Procs \ joined \in SUBSET Procs /\ Procs \in SUBSET Procs
    OBVIOUS
  <2>2. Jiffies(first.began, Procs \ joined) <= Jiffies(last.ended, Procs \ joined)
    BY <1>1, <1>3, <2>1, JiffiesFacts
  <2>3. Jiffies(last.ended, Procs \ joined) <= Jiffies(last.ended, Procs)
    BY <1>1, <2>1, JiffiesFacts
  <2>4. /\ Jiffies(first.began, Procs \ joined) \in Nat
        /\ Jiffies(last.ended, Procs \ joined) \in Nat /\ Jiffies(last.ended, Procs) \in Nat
    BY <1>1, <2>1, JiffiesFacts
  <2> QED BY <2>2, <2>3, <2>4
<1>11. /\ Jiffies(first.began, first.counted) \in Nat /\ Jiffies(first.ended, first.counted) \in Nat
       /\ Jiffies(last.began, last.counted) \in Nat /\ Jiffies(last.ended, last.counted) \in Nat
       /\ Jiffies(first.began, others) \in Nat
       /\ Jiffies(last.ended, Procs \ last.counted) \in Nat
  <2>1. others \in SUBSET Procs /\ Procs \ last.counted \in SUBSET Procs
    OBVIOUS
  <2> QED BY <1>1, <2>1, JiffiesFacts
<1>12. JiffyDelta(first, last) <= Jiffies(last.ended, Procs) - Jiffies(first.began, Procs \ joined)
  BY <1>4, <1>5, <1>6, <1>7, <1>8, <1>9, <1>10, <1>11
<1>13. ASSUME first.counted = last.counted
       PROVE  /\ Jiffies(last.began, last.counted) - Jiffies(first.ended, last.counted)
                   <= JiffyDelta(first, last)
              /\ JiffyDelta(first, last)
                   <= Jiffies(last.ended, last.counted) - Jiffies(first.began, last.counted)
  <2>1. Jiffies(first.began, last.counted) <= Jiffies(last.ended, last.counted)
    BY <1>1, <1>3, JiffiesFacts
  <2> QED BY <1>4, <1>5, <1>6, <1>11, <1>13, <2>1
<1>14. JiffyDelta(first, last) \in Nat
  BY <1>5, <1>6
<1> QED BY <1>12, <1>13, <1>14 DEF first, last

\* The figure is made of the first sample and the last.
LEMMA CpuBounded == TreeInv => CpuIsWorkOfTheTree
<1> SUFFICES ASSUME TreeInv, NEW hz \in ClockTicks,
                    NEW figures \in DeriveResource(samples, hz).figures,
                    NEW cpu \in figures.cpu_mean
             PROVE  LET first == First(samples)
                        last  == Final(samples)
                        joined == last.counted \ first.counted
                    IN /\ cpu[1] \in Nat
                       /\ cpu[1] <= Jiffies(last.ended, Procs) - Jiffies(first.began, Procs \ joined)
                       /\ cpu[3] = last.at - first.at
                       /\ first.counted = last.counted =>
                            /\ Jiffies(last.began, last.counted) - Jiffies(first.ended, last.counted)
                                 <= cpu[1]
                            /\ cpu[1]
                                 <= Jiffies(last.ended, last.counted)
                                      - Jiffies(first.began, last.counted)
  BY DEF CpuIsWorkOfTheTree
<1> DEFINE first == samples[1]
           last  == samples[Len(samples)]
<1>1. figures = ResourceFigures(samples, hz)
  BY DEF DeriveResource
<1>2. cpu \in CpuMean(samples, hz)
  BY <1>1 DEF ResourceFigures
<1>3. First(samples) = first /\ Final(samples) = last
  BY DEF First, Final
<1>4. Len(samples) \in Nat /\ DOMAIN samples = 1..Len(samples)
  BY DEF TreeInv, SampleIsOfTheTree, TreeTypeOK
<1>5. /\ Len(samples) >= 2
      /\ \E tick \in hz : cpu = <<JiffyDelta(first, last), tick, Max({0, last.at - first.at})>>
  <2> HIDE DEF first, last
  <2> DEFINE wall == Max({0, last.at - first.at})
  <2>1. cpu \in IF Len(samples) < 2 \/ wall = 0 THEN {}
               ELSE {<<JiffyDelta(first, last), tick, wall>> : tick \in hz}
    BY <1>2, <1>3 DEF CpuMean
  <2> HIDE DEF wall
  <2>2. Len(samples) >= 2 /\ \E tick \in hz : cpu = <<JiffyDelta(first, last), tick, wall>>
    BY <1>4, <2>1
  <2> QED BY <2>2 DEF wall
<1>6. 1 \in DOMAIN samples /\ Len(samples) \in DOMAIN samples /\ 1 < Len(samples)
  BY <1>4, <1>5
<1>7. first.at \in Nat /\ last.at \in Nat /\ first.at <= last.at
  BY <1>6, TakenSample DEF TreeInv, TakenInv
<1>8. Max({0, last.at - first.at}) = last.at - first.at
  <2>1. last.at - first.at \in Int /\ (last.at - first.at > 0 \/ last.at - first.at = 0)
    BY <1>7
  <2> QED BY <2>1, OfTwo
<1>9. cpu[1] = JiffyDelta(first, last) /\ cpu[3] = last.at - first.at
  BY <1>5, <1>8
<1> QED BY <1>3, <1>6, <1>9, WorkBetween

(* The mean CPU use is work the processes did between the first sample and *)
(* the last (module Figures, derive_resource; module ResourceTree), for    *)
(* any tree and however it changes between them.                           *)
THEOREM CpuFiguresAreOfTheTree == TreeSpec => []CpuIsWorkOfTheTree
BY TreeHolds, CpuBounded, PTL

\* A sample that shows no time is of processes that had not worked.
LEMMA WarningJustified == TreeInv => WarningIsOfAnIdlePid
<1> SUFFICES ASSUME TreeInv, samples # <<>>
             PROVE  LET last == Final(samples) IN
                    /\ Suspicious(samples) => Jiffies(last.began, last.counted) = 0
                    /\ ( /\ ~descendants /\ Threads[Parent] = 1 /\ Kib[Parent] < 10 * 1024
                         /\ Jiffies(last.ended, {Parent}) = 0 )
                       => Suspicious(samples)
  BY DEF WarningIsOfAnIdlePid
<1> DEFINE n == Len(samples)
           last == samples[n]
<1>1. Final(samples) = last
  BY DEF Final
<1>2. n \in Nat /\ DOMAIN samples = 1..n /\ n \in DOMAIN samples
  BY DEF TreeInv, SampleIsOfTheTree, TreeTypeOK
<1> HIDE DEF n
<1>3. /\ last.user \in Nat /\ last.system \in Nat /\ last.counted \in SUBSET Procs
      /\ last.began \in Accounts /\ last.ended \in Accounts
  BY <1>2, TakenSample
<1>4. ASSUME Suspicious(samples) PROVE Jiffies(last.began, last.counted) = 0
  <2>1. last.user = 0 /\ last.system = 0
    BY <1>2, <1>4 DEF Suspicious
  <2>2. Jiffies(last.began, last.counted) <= last.user + last.system
    BY <1>2, SampleWork
  <2>3. Jiffies(last.began, last.counted) \in Nat
    BY <1>3, JiffiesFacts
  <2> QED BY <2>1, <2>2, <2>3
<1>5. ASSUME ~descendants, Threads[Parent] = 1, Kib[Parent] < 10 * 1024,
             Jiffies(last.ended, {Parent}) = 0
      PROVE  Suspicious(samples)
  <2> SUFFICES ASSUME NEW i \in DOMAIN samples
               PROVE  /\ samples[i].rss < 10 * 1024 * 1024 /\ samples[i].threads = 1
                      /\ samples[i].user = 0 /\ samples[i].system = 0
    BY DEF Suspicious
  <2> DEFINE s == samples[i]
  <2>1. /\ s.counted = {Parent} /\ AddsUp(s, s.ended) /\ s.ended \in Accounts
        /\ s.user \in Nat /\ s.system \in Nat
    BY <1>5, TakenSample
  <2>2. /\ SumFunctionOnSet(Kib, {Parent}) = Kib[Parent]
        /\ SumFunctionOnSet(Threads, {Parent}) = Threads[Parent]
        /\ Kib[Parent] \in Nat
    <3>1. Kib[Parent] \in Nat /\ Threads[Parent] \in Nat
      BY ProcsFinite, TreeAssumption DEF TreeAssumption
    <3>2. Kib[Parent] \in Int /\ Threads[Parent] \in Int
      BY <3>1
    <3>3. SumFunctionOnSet(Kib, {Parent}) = Kib[Parent]
      BY <3>2, SumOfOne
    <3>4. SumFunctionOnSet(Threads, {Parent}) = Threads[Parent]
      BY <3>2, SumOfOne
    <3> QED BY <3>1, <3>3, <3>4
  <2>3. s.rss < 10 * 1024 * 1024 /\ s.threads = 1
    BY <1>5, <2>1, <2>2 DEF AddsUp
  <2>4. Grown(s.ended, last.ended)
    <3>1. CASE i = n
      BY <1>3, <3>1, GrownReflexive
    <3>2. CASE i # n
      <4>1. i < n
        BY <1>2, <3>2
      <4>2. Grown(s.ended, last.began)
        BY <1>2, <4>1 DEF TreeInv, TakenInv
      <4>3. Grown(last.began, last.ended)
        BY <1>2, TakenSample
      <4> QED BY <1>3, <2>1, <4>2, <4>3, GrownTransitive
    <3> QED BY <3>1, <3>2
  <2>5. s.user + s.system <= Jiffies(s.ended, {Parent})
    BY <2>1, SampleWork
  <2>6. {Parent} \in SUBSET Procs
    BY ProcsFinite
  <2>7. Jiffies(s.ended, {Parent}) <= Jiffies(last.ended, {Parent})
    BY <1>3, <2>1, <2>4, <2>6, JiffiesFacts
  <2>8. Jiffies(s.ended, {Parent}) \in Nat
    BY <2>1, <2>6, JiffiesFacts
  <2> QED BY <1>5, <2>1, <2>3, <2>5, <2>7, <2>8
<1> QED BY <1>1, <1>4, <1>5

(* What is warned of had not worked, and an idle single-threaded pid is    *)
(* warned of (main.rs, orchestrate), for any processes.                    *)
THEOREM WarningsAreJustified == TreeSpec => []WarningIsOfAnIdlePid
BY TreeHolds, WarningJustified, PTL
=============================================================================
