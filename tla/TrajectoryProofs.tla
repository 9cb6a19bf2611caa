-------------------------- MODULE TrajectoryProofs --------------------------
(***************************************************************************)
(* Proofs about the placement of steps: whatever the step file and the     *)
(* timelines, a step is kept or dropped for the reason given, the kept     *)
(* windows are disjoint, no stretch of a device's power and no increment   *)
(* of a counter is given to two steps, and figures and prices add up.      *)
(***************************************************************************)
EXTENDS PricedTrajectory, FiniteLemmas, TLAPS

\* What parsing and withholding establish before a step is placed.
ParsedInv ==
  /\ input \in Inputs
  /\ Ordered(input.gpu) /\ Ordered(input.kv) /\ Ordered(input.phase)
  /\ pc \in {"parse", "gate", "place", "slice", "end"}
  /\ line \in Nat
  /\ steps \subseteq Steps
  /\ rest \subseteq steps
  /\ \A s \in steps : s.t_start <= s.t_end
  /\ pc = "place" => input.anchor \in Nat /\ Len(input.gpu) >= 2

\* The loop's invariant: the kept windows so far, and lastEnd.
PlacedInv ==
  /\ kept \in Seq(KeptSteps)
  /\ dropped \in Seq([step_id : Nat,
                      reason : {"outside_run_window", "overlaps_preceding_step"}])
  /\ outcome \in {"pending", "file_error", "withheld", "derived"}
  /\ IF kept = <<>> THEN lastEnd = None ELSE lastEnd = kept[Len(kept)].end
  /\ \A i \in DOMAIN kept :
       /\ RunStart <= kept[i].start /\ kept[i].start <= kept[i].end
       /\ kept[i].end <= RunEnd
  /\ \A i, j \in DOMAIN kept : i < j => kept[i].end <= kept[j].start

\* An element of a sequence and its place.
LEMMA ElementOfSeq ==
  ASSUME NEW S, NEW s \in Seq(S), NEW i \in DOMAIN s
  PROVE  /\ s[i] \in S
         /\ Len(s) \in Nat \ {0} /\ i \in Nat /\ 1 <= i /\ i <= Len(s)
         /\ Len(s) \in DOMAIN s /\ s[Len(s)] \in S
<1>1. DOMAIN s = 1..Len(s) /\ Len(s) \in Nat
  OBVIOUS
<1>2. i \in Nat /\ 1 <= i /\ i <= Len(s)
  BY <1>1
<1>3. Len(s) \in 1..Len(s)
  BY <1>1, <1>2
<1> QED BY <1>1, <1>2, <1>3

\* Init establishes both parts.
LEMMA PlacementInit == Init => ParsedInv /\ PlacedInv
  BY TrajectoryAssumption DEF Init, ParsedInv, PlacedInv, None

\* Every step preserves the facts about the parsed steps.
LEMMA ParsedStep == ParsedInv /\ [Next]_vars => ParsedInv'
<1> SUFFICES ASSUME ParsedInv, [Next]_vars PROVE ParsedInv'
  OBVIOUS
<1> USE DEF ParsedInv
<1>1. CASE BlankLine
  BY <1>1 DEF BlankLine
<1>2. CASE BadLine
  BY <1>2 DEF BadLine, End
<1>3. CASE StepLine
  <2>1. /\ input.file[line] \in Steps
        /\ input.file[line].t_end >= input.file[line].t_start
    BY <1>3 DEF StepLine, Refused, Steps
  <2> QED BY <2>1, <1>3 DEF StepLine
<1>4. CASE ParseEnds
  BY <1>4 DEF ParseEnds
<1>5. CASE Gate
  <2>1. CASE Withheld
    BY <2>1, <1>5 DEF Gate, End
  <2>2. CASE ~Withheld
    <3>1. input.anchor \in Nat /\ Len(input.gpu) \in Nat
      BY <2>2 DEF Withheld, Inputs
    <3> QED BY <3>1, <2>2, <1>5 DEF Gate, Withheld
  <2> QED BY <2>1, <2>2
<1>6. CASE PlaceNext
  BY <1>6 DEF PlaceNext
<1>7. CASE PlaceEnds
  BY <1>7 DEF PlaceEnds
<1>8. CASE Slice
  BY <1>8 DEF Slice, End
<1>9. CASE UNCHANGED vars
  BY <1>9 DEF vars
<1> QED BY <1>1, <1>2, <1>3, <1>4, <1>5, <1>6, <1>7, <1>8, <1>9 DEF Next

\* A kept step opens after the end of the last kept one, and so after all.
LEMMA PlaceStep ==
  ASSUME ParsedInv, PlacedInv, pc = "place", NEW s \in rest, Place(s),
         UNCHANGED <<input, outcome>>
  PROVE  PlacedInv'
<1> DEFINE start == s.t_start - input.anchor
           end   == s.t_end - input.anchor
<1>1. s \in Steps /\ s.t_start \in Nat /\ s.t_end \in Nat /\ s.t_start <= s.t_end
  BY DEF ParsedInv, Steps
<1>2. input.anchor \in Nat
  BY DEF ParsedInv
<1>a. ASSUME NEW r \in {"outside_run_window", "overlaps_preceding_step"}, Drop(s, r)
      PROVE  PlacedInv'
  <2>1. [step_id |-> s.step_id, reason |-> r]
          \in [step_id : Nat, reason : {"outside_run_window", "overlaps_preceding_step"}]
    BY <1>1 DEF Steps
  <2>2. dropped' \in Seq([step_id : Nat,
                          reason : {"outside_run_window", "overlaps_preceding_step"}])
    BY <2>1, <1>a DEF Drop, PlacedInv
  <2>3. UNCHANGED <<kept, lastEnd, input, outcome>>
    BY <1>a DEF Drop
  <2> QED BY <2>2, <2>3 DEF PlacedInv, RunStart, RunEnd
<1>3. CASE ~InRun(s) /\ Drop(s, "outside_run_window")
  BY <1>3, <1>a
<1>4. CASE Drop(s, "overlaps_preceding_step")
  BY <1>4, <1>a
<1>5. CASE /\ InRun(s) /\ (lastEnd = None \/ start >= lastEnd)
           /\ kept' = Append(kept, [step |-> s, start |-> start, end |-> end])
           /\ lastEnd' = end
           /\ UNCHANGED dropped
  <2>1. start \in Nat /\ end \in Nat /\ start <= end
    BY <1>1, <1>2, <1>5 DEF InRun
  <2>2. [step |-> s, start |-> start, end |-> end] \in KeptSteps
    BY <1>1, <2>1 DEF KeptSteps
  <2>3. kept \in Seq(KeptSteps)
    BY DEF PlacedInv
  <2>4. /\ kept' \in Seq(KeptSteps)
        /\ Len(kept') = Len(kept) + 1
        /\ DOMAIN kept' = 1..(Len(kept) + 1)
        /\ kept'[Len(kept) + 1] = [step |-> s, start |-> start, end |-> end]
        /\ \A i \in 1..Len(kept) : kept'[i] = kept[i]
        /\ Len(kept) \in Nat /\ DOMAIN kept = 1..Len(kept)
    BY <2>2, <2>3, <1>5
  <2>5. RunStart <= start /\ end <= RunEnd
    BY <1>1, <1>2, <1>5, <2>1 DEF InRun, RunStart, RunEnd, Inputs, ParsedInv
  <2>6. \A i \in 1..Len(kept) : kept[i].end <= start
    <3> SUFFICES ASSUME NEW i \in 1..Len(kept) PROVE kept[i].end <= start
      OBVIOUS
    <3>1. kept # <<>> /\ lastEnd = kept[Len(kept)].end
      BY <2>4 DEF PlacedInv
    <3>2. /\ kept[i] \in KeptSteps /\ kept[Len(kept)] \in KeptSteps
          /\ Len(kept) \in DOMAIN kept
          /\ Len(kept) \in Nat /\ i \in Nat /\ i <= Len(kept)
      BY <2>3, <2>4, ElementOfSeq
    <3>3. lastEnd # None
      BY <3>1, <3>2 DEF None, KeptSteps
    <3>4. kept[i].end <= kept[Len(kept)].end
      <4>1. CASE i = Len(kept)
        BY <4>1, <3>2 DEF KeptSteps
      <4>2. CASE i < Len(kept)
        <5>1. /\ kept[i].end <= kept[Len(kept)].start
              /\ kept[Len(kept)].start <= kept[Len(kept)].end
          BY <4>2, <2>4, <3>2 DEF PlacedInv
        <5> QED BY <5>1, <3>2 DEF KeptSteps
      <4>3. i = Len(kept) \/ i < Len(kept)
        BY <3>2
      <4> QED BY <4>1, <4>2, <4>3
    <3> QED BY <3>1, <3>2, <3>3, <3>4, <2>1, <1>5 DEF KeptSteps
  <2>7. /\ kept' # <<>> /\ lastEnd' = kept'[Len(kept')].end
    BY <2>4, <1>5
  <2>8. /\ RunStart' = RunStart /\ RunEnd' = RunEnd
    BY DEF RunStart, RunEnd
  <2>9. \A i \in DOMAIN kept' :
          /\ RunStart <= kept'[i].start /\ kept'[i].start <= kept'[i].end
          /\ kept'[i].end <= RunEnd
    <3> SUFFICES ASSUME NEW i \in 1..(Len(kept) + 1)
                 PROVE  /\ RunStart <= kept'[i].start /\ kept'[i].start <= kept'[i].end
                        /\ kept'[i].end <= RunEnd
      BY <2>4
    <3>1. CASE i = Len(kept) + 1
      BY <3>1, <2>4, <2>5, <2>1
    <3>2. CASE i \in 1..Len(kept)
      BY <3>2, <2>4 DEF PlacedInv
    <3> QED BY <3>1, <3>2, <2>4
  <2>10. \A i, j \in DOMAIN kept' : i < j => kept'[i].end <= kept'[j].start
    <3> SUFFICES ASSUME NEW i \in 1..(Len(kept) + 1), NEW j \in 1..(Len(kept) + 1), i < j
                 PROVE  kept'[i].end <= kept'[j].start
      BY <2>4
    <3>1. i \in 1..Len(kept) /\ (j = Len(kept) + 1 \/ j \in 1..Len(kept))
      BY <2>4
    <3>2. CASE j = Len(kept) + 1
      BY <3>1, <3>2, <2>4, <2>6
    <3>3. CASE j \in 1..Len(kept)
      BY <3>1, <3>3, <2>4 DEF PlacedInv
    <3> QED BY <3>1, <3>2, <3>3
  <2> QED BY <2>4, <2>7, <2>8, <2>9, <2>10, <1>5 DEF PlacedInv
<1> QED BY <1>3, <1>4, <1>5 DEF Place

\* Every step preserves the loop's invariant.
LEMMA PlacedStep == ParsedInv /\ PlacedInv /\ [Next]_vars => PlacedInv'
<1> SUFFICES ASSUME ParsedInv, PlacedInv, [Next]_vars PROVE PlacedInv'
  OBVIOUS
<1>1. CASE PlaceNext
  BY <1>1, PlaceStep DEF PlaceNext
<1>2. CASE BlankLine \/ BadLine \/ StepLine \/ ParseEnds \/ Gate \/ PlaceEnds \/ Slice
           \/ UNCHANGED vars
  <2>1. /\ UNCHANGED <<input, kept, dropped, lastEnd>>
        /\ outcome' \in {"pending", "file_error", "withheld", "derived"}
    BY <1>2 DEF BlankLine, BadLine, StepLine, ParseEnds, Gate, PlaceEnds, Slice, End,
                vars, PlacedInv
  <2> QED BY <2>1 DEF PlacedInv, RunStart, RunEnd
<1> QED BY <1>1, <1>2 DEF Next

\* Both hold of every derivation.
LEMMA PlacementCorrect == Spec => [](ParsedInv /\ PlacedInv)
<1>1. (ParsedInv /\ PlacedInv) /\ [Next]_vars => (ParsedInv /\ PlacedInv)'
  BY ParsedStep, PlacedStep
<1> QED BY PlacementInit, <1>1, PTL DEF Spec

(* A derivation keeps its types, for every step file and every timeline    *)
(* in Cases.                                                               *)
THEOREM TypeCorrect == Spec => []TypeOK
<1>1. ParsedInv /\ PlacedInv => TypeOK
  <2> SUFFICES ASSUME ParsedInv, PlacedInv PROVE TypeOK
    OBVIOUS
  <2>1. lastEnd \in {None} \cup Nat
    <3>1. CASE kept = <<>>
      BY <3>1 DEF PlacedInv
    <3>2. CASE kept # <<>>
      <4>1. kept \in Seq(KeptSteps) /\ 1 \in DOMAIN kept
        BY <3>2 DEF PlacedInv
      <4>2. kept[Len(kept)] \in KeptSteps
        BY <4>1, ElementOfSeq
      <4> QED BY <3>2, <4>2 DEF PlacedInv, KeptSteps
    <3> QED BY <3>1, <3>2
  <2> QED BY <2>1 DEF ParsedInv, PlacedInv, TypeOK
<1> QED BY PlacementCorrect, <1>1, PTL

(* The kept windows lie in the run, in order, and are disjoint.            *)
THEOREM KeptWindowsDisjoint == Spec => []KeptStepsDisjoint
<1>1. PlacedInv => KeptStepsDisjoint
  BY DEF PlacedInv, KeptStepsDisjoint
<1> QED BY PlacementCorrect, <1>1, PTL

(* No stretch of a device's power is given to two steps.                   *)
THEOREM EnergyCountedOnce == Spec => []SegmentsCountedOnce
<1>1. ParsedInv /\ PlacedInv => SegmentsCountedOnce
  <2> SUFFICES ASSUME ParsedInv, PlacedInv,
                      NEW i \in DOMAIN kept, NEW j \in DOMAIN kept,
                      NEW g \in Segments(input.gpu),
                      i # j, input.gpu[g[1]].at < input.gpu[g[2]].at,
                      InWindow(input.gpu, g, kept[i].start, kept[i].end),
                      InWindow(input.gpu, g, kept[j].start, kept[j].end)
               PROVE  FALSE
    BY DEF SegmentsCountedOnce
  <2>1. kept[i] \in KeptSteps /\ kept[j] \in KeptSteps /\ i \in Nat /\ j \in Nat
    <3>1. kept \in Seq(KeptSteps)
      BY DEF PlacedInv
    <3> QED BY <3>1, ElementOfSeq
  <2>2. input.gpu \in Seq([at : Nat, device : Nat, power : Nat])
    BY DEF ParsedInv, Inputs
  <2>3. g[1] \in DOMAIN input.gpu /\ g[2] \in DOMAIN input.gpu
    BY DEF Segments
  <2>4. input.gpu[g[1]].at \in Nat /\ input.gpu[g[2]].at \in Nat
    <3>1. /\ input.gpu[g[1]] \in [at : Nat, device : Nat, power : Nat]
          /\ input.gpu[g[2]] \in [at : Nat, device : Nat, power : Nat]
      BY <2>2, <2>3, ElementOfSeq
    <3> QED BY <3>1
  <2>5. CASE i < j
    <3>1. kept[i].end <= kept[j].start
      BY <2>5 DEF PlacedInv
    <3> QED BY <3>1, <2>1, <2>4 DEF InWindow, KeptSteps
  <2>6. CASE j < i
    <3>1. kept[j].end <= kept[i].start
      BY <2>6 DEF PlacedInv
    <3> QED BY <3>1, <2>1, <2>4 DEF InWindow, KeptSteps
  <2> QED BY <2>1, <2>5, <2>6
<1> QED BY PlacementCorrect, <1>1, PTL

-----------------------------------------------------------------------------
\* What is derived is Sliced, of an input that was not withheld.
DerivedInv ==
  /\ outcome # "pending" => pc = "end"
  /\ pc \in {"place", "slice"} => ~Withheld
  /\ outcome = "derived" => ~Withheld /\ metrics = Sliced

\* What is sliced depends on the input and the kept steps alone.
LEMMA SlicedStable ==
  ASSUME UNCHANGED <<input, kept>>
  PROVE  UNCHANGED <<Sliced, Withheld>>
<1>1. UNCHANGED Withheld
  BY DEF Withheld
<1>2. UNCHANGED Sliced
  BY DEF Sliced, SumOver, StepMetrics, StepDeltas, RunStart, RunEnd
<1> QED BY <1>1, <1>2

\* Every step keeps it.
LEMMA DerivedStep == DerivedInv /\ [Next]_vars => DerivedInv'
<1> SUFFICES ASSUME DerivedInv, [Next]_vars PROVE DerivedInv'
  OBVIOUS
<1> USE DEF DerivedInv
<1>1. CASE BlankLine \/ StepLine \/ ParseEnds \/ BadLine
  BY <1>1 DEF BlankLine, StepLine, ParseEnds, BadLine, End
<1>2. CASE Gate
  <2>1. UNCHANGED Withheld
    BY <1>2, SlicedStable DEF Gate
  <2> QED BY <1>2, <2>1 DEF Gate, End
<1>3. CASE PlaceNext
  <2>1. UNCHANGED Withheld
    BY <1>3 DEF PlaceNext, Withheld
  <2> QED BY <1>3, <2>1 DEF PlaceNext
<1>4. CASE PlaceEnds
  <2>1. UNCHANGED Withheld
    BY <1>4 DEF PlaceEnds, Withheld
  <2> QED BY <1>4, <2>1 DEF PlaceEnds
<1>5. CASE Slice
  <2>1. UNCHANGED <<Sliced, Withheld>>
    BY <1>5, SlicedStable DEF Slice
  <2> QED BY <1>5, <2>1 DEF Slice, End
<1>6. CASE UNCHANGED vars
  <2>1. UNCHANGED <<Sliced, Withheld>>
    BY <1>6, SlicedStable DEF vars
  <2> QED BY <1>6, <2>1 DEF vars
<1> QED BY <1>1, <1>2, <1>3, <1>4, <1>5, <1>6 DEF Next

\* It holds of every derivation.
LEMMA DerivedCorrect == Spec => []DerivedInv
<1>1. Init => DerivedInv
  BY DEF Init, DerivedInv
<1> QED BY <1>1, DerivedStep, PTL DEF Spec

-----------------------------------------------------------------------------
\* partition_point on a timeline in order: what lies before an instant, or
\* not after it, are the first samples.
LEMMA CountsAreCuts ==
  ASSUME NEW timeline, NEW n \in Nat, DOMAIN timeline = 1..n,
         \A i \in 1..n : timeline[i].at \in Nat,
         Ordered(timeline), NEW t \in Nat
  PROVE  /\ CountBefore(timeline, t) \in 0..n /\ CountUpTo(timeline, t) \in 0..n
         /\ \A i \in 1..n : timeline[i].at < t <=> i <= CountBefore(timeline, t)
         /\ \A i \in 1..n : timeline[i].at <= t <=> i <= CountUpTo(timeline, t)
<1> DEFINE before == {i \in 1..n : timeline[i].at < t}
           upto   == {i \in 1..n : timeline[i].at <= t}
<1>1. \A i, j \in 1..n : j <= i => timeline[j].at <= timeline[i].at
  <2> SUFFICES ASSUME NEW i \in 1..n, NEW j \in 1..n, j <= i
               PROVE  timeline[j].at <= timeline[i].at
    OBVIOUS
  <2>1. CASE j = i
    BY <2>1
  <2>2. CASE j < i
    BY <2>2 DEF Ordered
  <2> QED BY <2>1, <2>2
<1>2. /\ \A i \in before, j \in 1..n : j <= i => j \in before
      /\ \A i \in upto, j \in 1..n : j <= i => j \in upto
  BY <1>1
<1>3. before \in SUBSET (1..n) /\ upto \in SUBSET (1..n)
  OBVIOUS
<1>4. CountBefore(timeline, t) = Cardinality(before) /\ CountUpTo(timeline, t) = Cardinality(upto)
  BY DEF CountBefore, CountUpTo
<1>5. /\ \A i \in 1..n : i \in before <=> timeline[i].at < t
      /\ \A i \in 1..n : i \in upto <=> timeline[i].at <= t
  OBVIOUS
<1> HIDE DEF before, upto
<1>6. /\ Cardinality(before) \in 0..n /\ before = 1..Cardinality(before)
      /\ Cardinality(upto) \in 0..n /\ upto = 1..Cardinality(upto)
  BY <1>2, <1>3, InitialSegment
<1>7. /\ \A i \in 1..n : i \in before <=> i <= Cardinality(before)
      /\ \A i \in 1..n : i \in upto <=> i <= Cardinality(upto)
  BY <1>6
<1> QED BY <1>4, <1>5, <1>6, <1>7

\* A bracket runs forward, from a baseline that has nothing of the window
\* behind it to a sample the window holds.
LEMMA BracketOfWindow ==
  ASSUME NEW timeline, NEW n \in Nat, DOMAIN timeline = 1..n,
         \A i \in 1..n : timeline[i].at \in Nat, Ordered(timeline),
         NEW start \in Nat, NEW end \in Nat,
         Bracket(timeline, start, end) # <<>>
  PROVE  LET b == Bracket(timeline, start, end)
         IN /\ b[1] \in 1..n /\ b[2] \in 1..n /\ b[1] <= b[2]
            /\ timeline[b[2]].at <= end
            /\ \A m \in 1..n : b[1] < m => start <= timeline[m].at
<1> DEFINE lo == CountBefore(timeline, start)
           hi == CountUpTo(timeline, end)
           b  == Bracket(timeline, start, end)
<1>1. /\ lo \in 0..n /\ hi \in 0..n
      /\ \A i \in 1..n : timeline[i].at < start <=> i <= lo
      /\ \A i \in 1..n : timeline[i].at <= end <=> i <= hi
  BY CountsAreCuts
<1>2. hi > lo /\ b = <<IF lo > 0 THEN lo ELSE 1, hi>>
  BY DEF Bracket
<1>3. b[1] = (IF lo > 0 THEN lo ELSE 1) /\ b[2] = hi
  BY <1>2
<1> HIDE DEF lo, hi, b
<1>4. b[1] \in 1..n /\ b[2] \in 1..n /\ b[1] <= b[2] /\ lo <= b[1]
  BY <1>1, <1>2, <1>3
<1>5. timeline[b[2]].at <= end
  BY <1>1, <1>3, <1>4
<1>6. \A m \in 1..n : b[1] < m => start <= timeline[m].at
  BY <1>1, <1>4
<1> QED BY <1>4, <1>5, <1>6 DEF b

\* A counter that was not withheld rises over the whole run.
LEMMA KvRises ==
  ASSUME ParsedInv, ~Withheld,
         NEW a \in DOMAIN input.kv, NEW b \in DOMAIN input.kv, a <= b
  PROVE  input.kv[a].hits <= input.kv[b].hits /\ input.kv[a].queries <= input.kv[b].queries
<1> DEFINE n == Len(input.kv)
           hits == [i \in 1..n |-> input.kv[i].hits]
           queries == [i \in 1..n |-> input.kv[i].queries]
<1>1. input.kv \in Seq([at : Nat, hits : Nat, queries : Nat])
  BY DEF ParsedInv, Inputs
<1>2. n \in Nat /\ DOMAIN input.kv = 1..n
  <2> DEFINE S == [at : Nat, hits : Nat, queries : Nat]
  <2>1. input.kv \in Seq(S)
    BY <1>1
  <2> HIDE DEF S, hits, queries
  <2> QED BY <2>1
<1>3. \A i \in 1..n : hits[i] \in Int /\ queries[i] \in Int
  <2> SUFFICES ASSUME NEW i \in 1..n PROVE hits[i] \in Int /\ queries[i] \in Int
    OBVIOUS
  <2>1. input.kv[i] \in [at : Nat, hits : Nat, queries : Nat]
    BY <1>1, <1>2, ElementOfSeq
  <2> QED BY <2>1
<1>4. \A i \in 1..(n - 1) : hits[i] <= hits[i + 1] /\ queries[i] <= queries[i + 1]
  <2> SUFFICES ASSUME NEW i \in 1..(n - 1)
               PROVE  hits[i] <= hits[i + 1] /\ queries[i] <= queries[i + 1]
    OBVIOUS
  <2>1. i \in 1..n /\ i + 1 \in 1..n
    BY <1>2
  <2>2. ~( input.kv[i + 1].hits < input.kv[i].hits
            \/ input.kv[i + 1].queries < input.kv[i].queries )
    BY DEF Withheld, KvRegressed
  <2>3. /\ hits[i] \in Int /\ hits[i + 1] \in Int
        /\ queries[i] \in Int /\ queries[i + 1] \in Int
    BY <1>3, <2>1
  <2> QED BY <2>1, <2>2, <2>3
<1>5. a \in 1..n /\ b \in 1..n
  BY <1>2
<1>6. hits[a] = input.kv[a].hits /\ hits[b] = input.kv[b].hits
      /\ queries[a] = input.kv[a].queries /\ queries[b] = input.kv[b].queries
  BY <1>5
<1> HIDE DEF n, hits, queries
<1>7. hits[a] <= hits[b] /\ queries[a] <= queries[b]
  BY <1>2, <1>3, <1>4, <1>5, Rising
<1> QED BY <1>6, <1>7

\* The same of the phases.
LEMMA PhaseRises ==
  ASSUME ParsedInv, ~Withheld,
         NEW a \in DOMAIN input.phase, NEW b \in DOMAIN input.phase, a <= b
  PROVE  /\ input.phase[a].prompt <= input.phase[b].prompt
         /\ input.phase[a].generation <= input.phase[b].generation
<1> DEFINE n == Len(input.phase)
           prompt == [i \in 1..n |-> input.phase[i].prompt]
           generation == [i \in 1..n |-> input.phase[i].generation]
           Sample == [ at : Nat, prompt : Nat, generation : Nat,
                       prefill_ns : {None} \cup Nat, decode_ns : {None} \cup Nat ]
<1>1. input.phase \in Seq(Sample)
  BY DEF ParsedInv, Inputs
<1>2. n \in Nat /\ DOMAIN input.phase = 1..n
  <2> HIDE DEF Sample, prompt, generation
  <2> QED BY <1>1
<1>3. \A i \in 1..n : prompt[i] \in Int /\ generation[i] \in Int
  <2> SUFFICES ASSUME NEW i \in 1..n PROVE prompt[i] \in Int /\ generation[i] \in Int
    OBVIOUS
  <2>1. input.phase[i] \in Sample
    <3> HIDE DEF Sample
    <3> QED BY <1>1, <1>2, ElementOfSeq
  <2> QED BY <2>1
<1>4. \A i \in 1..(n - 1) : prompt[i] <= prompt[i + 1] /\ generation[i] <= generation[i + 1]
  <2> SUFFICES ASSUME NEW i \in 1..(n - 1)
               PROVE  prompt[i] <= prompt[i + 1] /\ generation[i] <= generation[i + 1]
    OBVIOUS
  <2>1. i \in 1..n /\ i + 1 \in 1..n
    BY <1>2
  <2>2. ~( input.phase[i + 1].prompt < input.phase[i].prompt
            \/ input.phase[i + 1].generation < input.phase[i].generation )
    BY DEF Withheld, PhaseRegressed
  <2>3. /\ prompt[i] \in Int /\ prompt[i + 1] \in Int
        /\ generation[i] \in Int /\ generation[i + 1] \in Int
    BY <1>3, <2>1
  <2> QED BY <2>1, <2>2, <2>3
<1>5. a \in 1..n /\ b \in 1..n
  BY <1>2
<1>6. /\ prompt[a] = input.phase[a].prompt /\ prompt[b] = input.phase[b].prompt
      /\ generation[a] = input.phase[a].generation /\ generation[b] = input.phase[b].generation
  BY <1>5
<1> HIDE DEF n, prompt, generation, Sample
<1>7. prompt[a] <= prompt[b] /\ generation[a] <= generation[b]
  BY <1>2, <1>3, <1>4, <1>5, Rising
<1> QED BY <1>6, <1>7

\* The stamps of the two counter timelines.
LEMMA TimelineStamps ==
  ASSUME ParsedInv, NEW timeline \in {input.kv, input.phase}
  PROVE  /\ Len(timeline) \in Nat /\ DOMAIN timeline = 1..Len(timeline)
         /\ \A i \in 1..Len(timeline) : timeline[i].at \in Nat
         /\ Ordered(timeline)
<1>1. CASE timeline = input.kv
  <2>1. timeline \in Seq([at : Nat, hits : Nat, queries : Nat]) /\ Ordered(timeline)
    BY <1>1 DEF ParsedInv, Inputs
  <2>2. Len(timeline) \in Nat /\ DOMAIN timeline = 1..Len(timeline)
    BY <2>1
  <2>3. \A i \in 1..Len(timeline) : timeline[i] \in [at : Nat, hits : Nat, queries : Nat]
    BY <2>1, <2>2, ElementOfSeq
  <2> QED BY <2>1, <2>2, <2>3
<1>2. CASE timeline = input.phase
  <2> DEFINE Sample == [ at : Nat, prompt : Nat, generation : Nat,
                         prefill_ns : {None} \cup Nat, decode_ns : {None} \cup Nat ]
  <2>1. timeline \in Seq(Sample) /\ Ordered(timeline)
    BY <1>2 DEF ParsedInv, Inputs
  <2>2. Len(timeline) \in Nat /\ DOMAIN timeline = 1..Len(timeline)
    BY <2>1
  <2>3. \A i \in 1..Len(timeline) : timeline[i] \in Sample
    <3> HIDE DEF Sample
    <3> QED BY <2>1, <2>2, ElementOfSeq
  <2> QED BY <2>1, <2>2, <2>3
<1> QED BY <1>1, <1>2

\* No difference a kept step is given is below zero.
LEMMA DeltasRise ==
  ASSUME ParsedInv, ~Withheld, NEW k \in KeptSteps
  PROVE  LET d == StepDeltas(k)
         IN \A delta \in d.hits \cup d.queries \cup d.generation \cup d.prompt : delta >= 0
<1> DEFINE d  == StepDeltas(k)
           kv == Bracket(input.kv, k.start, k.end)
           ph == Bracket(input.phase, k.start, k.end)
<1>1. /\ d.hits = IF kv = <<>> THEN {} ELSE {input.kv[kv[2]].hits - input.kv[kv[1]].hits}
      /\ d.queries = IF kv = <<>> THEN {}
                     ELSE {input.kv[kv[2]].queries - input.kv[kv[1]].queries}
      /\ d.generation = IF ph = <<>> THEN {}
                        ELSE {input.phase[ph[2]].generation - input.phase[ph[1]].generation}
      /\ d.prompt = IF ph = <<>> THEN {}
                    ELSE {input.phase[ph[2]].prompt - input.phase[ph[1]].prompt}
  BY DEF StepDeltas
<1>2. k.start \in Nat /\ k.end \in Nat
  BY DEF KeptSteps
<1>3. ASSUME kv # <<>>
      PROVE  /\ input.kv[kv[2]].hits - input.kv[kv[1]].hits >= 0
             /\ input.kv[kv[2]].queries - input.kv[kv[1]].queries >= 0
  <2>1. /\ kv[1] \in DOMAIN input.kv /\ kv[2] \in DOMAIN input.kv /\ kv[1] <= kv[2]
    <3> DEFINE n == Len(input.kv)
    <3>1. /\ n \in Nat /\ DOMAIN input.kv = 1..n
          /\ \A i \in 1..n : input.kv[i].at \in Nat
          /\ Ordered(input.kv)
      BY TimelineStamps
    <3> HIDE DEF n
    <3> QED BY <1>2, <1>3, <3>1, BracketOfWindow
  <2>2. input.kv \in Seq([at : Nat, hits : Nat, queries : Nat])
    BY DEF ParsedInv, Inputs
  <2>3. /\ input.kv[kv[1]] \in [at : Nat, hits : Nat, queries : Nat]
        /\ input.kv[kv[2]] \in [at : Nat, hits : Nat, queries : Nat]
    <3> HIDE DEF kv
    <3> QED BY <2>1, <2>2, ElementOfSeq
  <2> HIDE DEF kv
  <2>4. /\ input.kv[kv[1]].hits <= input.kv[kv[2]].hits
        /\ input.kv[kv[1]].queries <= input.kv[kv[2]].queries
    BY <2>1, KvRises
  <2> QED BY <2>3, <2>4
<1>4. ASSUME ph # <<>>
      PROVE  /\ input.phase[ph[2]].generation - input.phase[ph[1]].generation >= 0
             /\ input.phase[ph[2]].prompt - input.phase[ph[1]].prompt >= 0
  <2> DEFINE Sample == [ at : Nat, prompt : Nat, generation : Nat,
                         prefill_ns : {None} \cup Nat, decode_ns : {None} \cup Nat ]
  <2>1. ph[1] \in DOMAIN input.phase /\ ph[2] \in DOMAIN input.phase /\ ph[1] <= ph[2]
    <3> DEFINE n == Len(input.phase)
    <3>1. /\ n \in Nat /\ DOMAIN input.phase = 1..n
          /\ \A i \in 1..n : input.phase[i].at \in Nat
          /\ Ordered(input.phase)
      BY TimelineStamps
    <3> HIDE DEF n
    <3> QED BY <1>2, <1>4, <3>1, BracketOfWindow
  <2>2. input.phase \in Seq(Sample)
    BY DEF ParsedInv, Inputs
  <2> HIDE DEF ph
  <2>3. input.phase[ph[1]] \in Sample /\ input.phase[ph[2]] \in Sample
    <3> HIDE DEF Sample
    <3> QED BY <2>1, <2>2, ElementOfSeq
  <2>4. /\ input.phase[ph[1]].prompt <= input.phase[ph[2]].prompt
        /\ input.phase[ph[1]].generation <= input.phase[ph[2]].generation
    BY <2>1, PhaseRises
  <2> QED BY <2>3, <2>4
<1> HIDE DEF d, kv, ph
<1>5. \A delta \in d.hits \cup d.queries \cup d.generation \cup d.prompt : delta >= 0
  BY <1>1, <1>3, <1>4
<1> QED BY <1>5 DEF d

(* What a counter gained is given to one step, and is a gain: for any      *)
(* timelines in order and any step file, two kept steps share an increment *)
(* only when they touch at a sample, and no difference is below zero.      *)
THEOREM IncrementsNotShared == Spec => []IncrementsCountedOnce
<1>1. ASSUME ParsedInv, PlacedInv, DerivedInv, outcome = "derived"
      PROVE  /\ metrics.total_generation_tokens >= 0
             /\ \A i \in DOMAIN kept :
                  LET d == metrics.steps[i].deltas
                  IN \A delta \in d.hits \cup d.queries \cup d.generation \cup d.prompt : delta >= 0
             /\ \A timeline \in {input.kv, input.phase} : \A i, j \in DOMAIN kept :
                  LET b == Bracket(timeline, kept[i].start, kept[i].end)
                      c == Bracket(timeline, kept[j].start, kept[j].end)
                  IN i < j /\ b # <<>> /\ c # <<>> /\ c[1] < b[2] =>
                       \E k \in DOMAIN timeline :
                         timeline[k].at = kept[i].end /\ kept[i].end = kept[j].start
  <2>1. ~Withheld /\ metrics = Sliced
    BY <1>1 DEF DerivedInv
  <2>2. kept \in Seq(KeptSteps)
    BY <1>1 DEF PlacedInv
  <2>3. metrics.total_generation_tokens >= 0
    <3>1. metrics.total_generation_tokens =
            IF input.phase = <<>> THEN 0
            ELSE input.phase[Len(input.phase)].generation - input.phase[1].generation
      BY <2>1 DEF Sliced
    <3>2. CASE input.phase = <<>>
      BY <3>1, <3>2
    <3>3. CASE input.phase # <<>>
      <4> DEFINE Sample == [ at : Nat, prompt : Nat, generation : Nat,
                             prefill_ns : {None} \cup Nat, decode_ns : {None} \cup Nat ]
                 n == Len(input.phase)
      <4>1. input.phase \in Seq(Sample)
        BY <1>1 DEF ParsedInv, Inputs
      <4>2. 1 \in DOMAIN input.phase /\ n \in DOMAIN input.phase /\ 1 <= n
        BY <3>3, <4>1
      <4> HIDE DEF n
      <4>3. input.phase[1] \in Sample /\ input.phase[n] \in Sample
        <5> HIDE DEF Sample
        <5> QED BY <4>1, <4>2, ElementOfSeq
      <4>4. input.phase[1].generation <= input.phase[n].generation
        BY <1>1, <2>1, <4>2, PhaseRises
      <4> QED BY <3>1, <3>3, <4>3, <4>4 DEF n
    <3> QED BY <3>2, <3>3
  <2>4. ASSUME NEW i \in DOMAIN kept
        PROVE  LET d == metrics.steps[i].deltas
               IN \A delta \in d.hits \cup d.queries \cup d.generation \cup d.prompt : delta >= 0
    <3>1. kept[i] \in KeptSteps
      BY <2>2, ElementOfSeq
    <3>2. metrics.steps[i].deltas = StepDeltas(kept[i])
      BY <2>1 DEF Sliced, StepMetrics
    <3> QED BY <1>1, <2>1, <3>1, <3>2, DeltasRise
  <2>5. ASSUME NEW timeline \in {input.kv, input.phase},
               NEW i \in DOMAIN kept, NEW j \in DOMAIN kept, i < j,
               Bracket(timeline, kept[i].start, kept[i].end) # <<>>,
               Bracket(timeline, kept[j].start, kept[j].end) # <<>>,
               Bracket(timeline, kept[j].start, kept[j].end)[1]
                 < Bracket(timeline, kept[i].start, kept[i].end)[2]
        PROVE  \E k \in DOMAIN timeline :
                 timeline[k].at = kept[i].end /\ kept[i].end = kept[j].start
    <3> DEFINE b == Bracket(timeline, kept[i].start, kept[i].end)
               c == Bracket(timeline, kept[j].start, kept[j].end)
               n == Len(timeline)
    <3>1. kept[i] \in KeptSteps /\ kept[j] \in KeptSteps
      BY <2>2, ElementOfSeq
    <3>2. /\ kept[i].start \in Nat /\ kept[i].end \in Nat
          /\ kept[j].start \in Nat /\ kept[j].end \in Nat
      BY <3>1 DEF KeptSteps
    <3>3. kept[i].end <= kept[j].start
      BY <1>1, <2>5 DEF PlacedInv
    <3>4. /\ n \in Nat /\ DOMAIN timeline = 1..n
          /\ \A m \in 1..n : timeline[m].at \in Nat
          /\ Ordered(timeline)
      BY <1>1, TimelineStamps
    <3> HIDE DEF n
    <3>5. b[2] \in 1..n /\ timeline[b[2]].at <= kept[i].end
      BY <2>5, <3>2, <3>4, BracketOfWindow
    <3>6. c[1] \in 1..n /\ \A m \in 1..n : c[1] < m => kept[j].start <= timeline[m].at
      BY <2>5, <3>2, <3>4, BracketOfWindow
    <3>7. c[1] < b[2]
      BY <2>5
    <3> HIDE DEF b, c
    <3>8. timeline[b[2]].at = kept[i].end /\ kept[i].end = kept[j].start
      BY <3>2, <3>3, <3>4, <3>5, <3>6, <3>7
    <3> QED BY <3>4, <3>5, <3>8
  <2> QED BY <2>3, <2>4, <2>5
<1>2. ParsedInv /\ PlacedInv /\ DerivedInv => IncrementsCountedOnce
  BY <1>1 DEF IncrementsCountedOnce
<1> QED BY PlacementCorrect, DerivedCorrect, <1>2, PTL

-----------------------------------------------------------------------------
\* The segments of a run are finitely many, with areas that are no less than
\* zero, and zero where no time passes.
LEMMA AreasOfSegments ==
  ASSUME ParsedInv
  PROVE  /\ IsFiniteSet(Segments(input.gpu))
         /\ \A g \in Segments(input.gpu) :
              /\ Areas(input.gpu)[g] \in Nat
              /\ input.gpu[g[1]].at \in Nat /\ input.gpu[g[2]].at \in Nat
              /\ input.gpu[g[1]].at = input.gpu[g[2]].at => Areas(input.gpu)[g] = 0
              /\ input.gpu[g[1]].at <= input.gpu[g[2]].at
<1> DEFINE gpu == input.gpu
           Sample == [at : Nat, device : Nat, power : Nat]
<1>1. gpu \in Seq(Sample) /\ Ordered(gpu)
  BY DEF ParsedInv, Inputs
<1>2. IsFiniteSet(Segments(gpu))
  <2>1. Len(gpu) \in Nat /\ DOMAIN gpu = 1..Len(gpu)
    BY <1>1
  <2>2. IsFiniteSet(DOMAIN gpu)
    BY <2>1, FS_Interval
  <2>3. IsFiniteSet((DOMAIN gpu) \X (DOMAIN gpu))
    BY <2>2, FS_Product
  <2>4. Segments(gpu) \in SUBSET ((DOMAIN gpu) \X (DOMAIN gpu))
    BY DEF Segments
  <2> HIDE DEF gpu
  <2> QED BY <2>3, <2>4, FS_Subset
<1>3. ASSUME NEW g \in Segments(gpu)
      PROVE  /\ Areas(gpu)[g] \in Nat
             /\ gpu[g[1]].at \in Nat /\ gpu[g[2]].at \in Nat
             /\ gpu[g[1]].at = gpu[g[2]].at => Areas(gpu)[g] = 0
             /\ gpu[g[1]].at <= gpu[g[2]].at
  <2> DEFINE a == gpu[g[1]]
             b == gpu[g[2]]
  <2>1. g[1] \in DOMAIN gpu /\ g[2] \in DOMAIN gpu /\ g[1] < g[2]
    BY DEF Segments
  <2>2. a \in Sample /\ b \in Sample
    <3> HIDE DEF Sample, gpu
    <3> QED BY <1>1, <2>1, ElementOfSeq
  <2>3. a.at <= b.at
    BY <1>1, <2>1 DEF Ordered
  <2>4. Areas(gpu)[g] = (a.power + b.power) * (b.at - a.at)
    BY DEF Areas
  <2>5. a.power + b.power \in Nat /\ b.at - a.at \in Nat /\ a.at \in Nat /\ b.at \in Nat
    BY <2>2, <2>3
  <2>6. a.at = b.at => b.at - a.at = 0
    BY <2>5
  <2> DEFINE w == a.power + b.power
             t == b.at - a.at
  <2>7. w \in Nat /\ t \in Nat /\ Areas(gpu)[g] = w * t /\ (a.at = b.at => t = 0)
    BY <2>4, <2>5, <2>6
  <2>8. w * t \in Nat /\ (t = 0 => w * t = 0)
    <3> HIDE DEF w, t
    <3> QED BY <2>7
  <2> HIDE DEF w, t
  <2> QED BY <2>3, <2>5, <2>7, <2>8
<1> QED BY <1>2, <1>3

\* The steps' energies, each floored, fit into the run's.
LEMMA EnergiesFit ==
  ASSUME ParsedInv, PlacedInv, NEW e,
         \A i \in DOMAIN kept : e[i] = Energy(input.gpu, kept[i].start, kept[i].end)
  PROVE  /\ Millijoules(input.gpu, Segments(input.gpu)) \in Nat
         /\ \A i \in DOMAIN kept : e[i] \in Nat
         /\ SumFunctionOnSet(e, DOMAIN kept)
              <= Millijoules(input.gpu, Segments(input.gpu))
<1> DEFINE S == Segments(input.gpu)
           f == Areas(input.gpu)
           I == DOMAIN kept
           W == [i \in I |-> {g \in S : InWindow(input.gpu, g, kept[i].start, kept[i].end)}]
           h == [i \in I |-> SumFunctionOnSet(f, W[i])]
           scaled == [i \in I |-> Unit * e[i]]
           total == SumFunctionOnSet(f, S)
<1>1. IsFiniteSet(S) /\ \A g \in S : f[g] \in Nat
  BY AreasOfSegments
<1>2. IsFiniteSet(I)
  <2>1. kept \in Seq(KeptSteps)
    BY DEF PlacedInv
  <2>2. Len(kept) \in Nat /\ I = 1..Len(kept)
    BY <2>1
  <2> QED BY <2>2, FS_Interval
<1>3. \A i \in I : W[i] \in SUBSET S /\ W[i] \subseteq S
  OBVIOUS
<1>4. \A i, j \in I : i # j => \A g \in W[i] \cap W[j] : f[g] = 0
  <2> SUFFICES ASSUME NEW i \in I, NEW j \in I, i # j, NEW g \in W[i] \cap W[j]
               PROVE  f[g] = 0
    OBVIOUS
  <2>1. g \in S /\ InWindow(input.gpu, g, kept[i].start, kept[i].end)
                /\ InWindow(input.gpu, g, kept[j].start, kept[j].end)
    OBVIOUS
  <2>2. kept[i] \in KeptSteps /\ kept[j] \in KeptSteps /\ i \in Nat /\ j \in Nat
    BY ElementOfSeq DEF PlacedInv
  <2>3. kept[i].end <= kept[j].start \/ kept[j].end <= kept[i].start
    BY <2>2 DEF PlacedInv
  <2>4. input.gpu[g[1]].at = input.gpu[g[2]].at
    <3>1. /\ input.gpu[g[1]].at \in Nat /\ input.gpu[g[2]].at \in Nat
          /\ input.gpu[g[1]].at <= input.gpu[g[2]].at
      BY <2>1, AreasOfSegments
    <3> QED BY <2>1, <2>2, <2>3, <3>1 DEF InWindow, KeptSteps
  <2> QED BY <2>1, <2>4, AreasOfSegments
<1>5. \A i \in I : h[i] \in Nat
  <2> SUFFICES ASSUME NEW i \in I PROVE h[i] \in Nat
    OBVIOUS
  <2>1. IsFiniteSet(W[i]) /\ \A g \in W[i] : f[g] \in Nat
    BY <1>1, <1>3, FS_Subset
  <2>2. SumFunctionOnSet(f, W[i]) \in Nat
    <3> HIDE DEF f, W
    <3> QED BY <2>1, SumIsNat
  <2> QED BY <2>2
<1>6. total \in Nat
  <2> HIDE DEF f, S
  <2> QED BY <1>1, SumIsNat
<1>7. SumFunctionOnSet(h, I) <= total
  <2>1. \A i \in I : h[i] = SumFunctionOnSet(f, W[i])
    OBVIOUS
  <2> HIDE DEF f, S, W, h, I
  <2> QED BY <1>1, <1>2, <1>3, <1>4, <2>1, SumOfParts
<1>8. Unit \in Nat \ {0}
  BY TrajectoryAssumption DEF TrajectoryAssumption
<1>9. \A i \in I : e[i] \in Nat /\ Unit * e[i] <= h[i]
  <2> SUFFICES ASSUME NEW i \in I PROVE e[i] \in Nat /\ Unit * e[i] <= h[i]
    OBVIOUS
  <2>1. e[i] = h[i] \div Unit
    BY DEF Energy, Millijoules
  <2>2. h[i] \in Nat
    BY <1>5
  <2> HIDE DEF h
  <2> QED BY <1>8, <2>1, <2>2, Division
<1>10. Unit * SumFunctionOnSet(e, I) <= total
  <2>1. \A i \in I : e[i] \in Int /\ scaled[i] = Unit * e[i]
    <3>1. \A i \in I : e[i] \in Int
      <4> HIDE DEF h, I
      <4> QED BY <1>9
    <3>2. \A i \in I : scaled[i] = Unit * e[i]
      OBVIOUS
    <3> QED BY <3>1, <3>2
  <2>2. \A i \in I : scaled[i] \in Int /\ h[i] \in Int /\ scaled[i] <= h[i]
    <3> HIDE DEF scaled, h, I
    <3> SUFFICES ASSUME NEW i \in I PROVE scaled[i] \in Int /\ h[i] \in Int /\ scaled[i] <= h[i]
      OBVIOUS
    <3>1. scaled[i] = Unit * e[i] /\ e[i] \in Nat /\ Unit \in Nat
      BY <1>8, <1>9, <2>1
    <3>2. Unit * e[i] \in Int
      BY <3>1
    <3>3. h[i] \in Int /\ Unit * e[i] <= h[i]
      BY <1>5, <1>9
    <3> QED BY <3>1, <3>2, <3>3
  <2>3. Unit \in Int
    BY <1>8
  <2>4. \A i \in I : h[i] \in Nat
    BY <1>5
  <2> HIDE DEF I, h, scaled, total
  <2>5. SumFunctionOnSet(scaled, I) = Unit * SumFunctionOnSet(e, I)
    BY <1>2, <2>1, <2>3, SumScaled
  <2>6. SumFunctionOnSet(scaled, I) <= SumFunctionOnSet(h, I)
    BY <1>2, <2>2, SumMonotone
  <2>7. SumFunctionOnSet(scaled, I) \in Int /\ SumFunctionOnSet(h, I) \in Int
    BY <1>2, <2>2, SumIsInt
  <2> QED BY <1>6, <1>7, <2>5, <2>6, <2>7
<1>11. SumFunctionOnSet(e, I) \in Nat
  <2> HIDE DEF I
  <2> QED BY <1>2, <1>9, SumIsNat
<1>12. SumFunctionOnSet(e, I) <= total \div Unit /\ total \div Unit \in Nat
  <2> HIDE DEF I, total
  <2> QED BY <1>6, <1>8, <1>10, <1>11, Division
<1>13. Millijoules(input.gpu, Segments(input.gpu)) = total \div Unit
  BY DEF Millijoules
<1> QED BY <1>9, <1>12, <1>13

\* The kept windows, one after the other, fit into the run.
LEMMA DurationsFit ==
  ASSUME ParsedInv, PlacedInv, ~Withheld, NEW d,
         \A i \in DOMAIN kept : d[i] = kept[i].end - kept[i].start
  PROVE  /\ RunStart \in Nat /\ RunEnd \in Nat /\ RunStart <= RunEnd
         /\ \A i \in DOMAIN kept : d[i] \in Nat
         /\ SumFunctionOnSet(d, DOMAIN kept) <= RunEnd - RunStart
<1> DEFINE n == Len(kept)
<1>1. /\ RunStart \in Nat /\ RunEnd \in Nat /\ RunStart <= RunEnd
  <2> DEFINE Sample == [at : Nat, device : Nat, power : Nat]
  <2>1. input.gpu \in Seq(Sample) /\ Ordered(input.gpu) /\ Len(input.gpu) >= 2
    BY DEF ParsedInv, Inputs, Withheld
  <2>2. 1 \in DOMAIN input.gpu /\ Len(input.gpu) \in DOMAIN input.gpu /\ 1 < Len(input.gpu)
    BY <2>1
  <2>3. input.gpu[1] \in Sample /\ input.gpu[Len(input.gpu)] \in Sample
    <3> HIDE DEF Sample
    <3> QED BY <2>1, <2>2, ElementOfSeq
  <2>4. input.gpu[1].at <= input.gpu[Len(input.gpu)].at
    BY <2>1, <2>2 DEF Ordered
  <2> QED BY <2>3, <2>4 DEF RunStart, RunEnd
<1>2. n \in Nat /\ DOMAIN kept = 1..n
  <2>1. kept \in Seq(KeptSteps)
    BY DEF PlacedInv
  <2> QED BY <2>1
<1>3. \A i \in 1..n : /\ kept[i].start \in Nat /\ kept[i].end \in Nat
                      /\ RunStart <= kept[i].start /\ kept[i].start <= kept[i].end
                      /\ kept[i].end <= RunEnd
                      /\ d[i] = kept[i].end - kept[i].start /\ d[i] \in Nat
  <2> SUFFICES ASSUME NEW i \in 1..n
               PROVE  /\ kept[i].start \in Nat /\ kept[i].end \in Nat
                      /\ RunStart <= kept[i].start /\ kept[i].start <= kept[i].end
                      /\ kept[i].end <= RunEnd
                      /\ d[i] = kept[i].end - kept[i].start /\ d[i] \in Nat
    OBVIOUS
  <2>1. kept[i] \in KeptSteps
    BY <1>2, ElementOfSeq DEF PlacedInv
  <2>2. kept[i].start \in Nat /\ kept[i].end \in Nat
    BY <2>1 DEF KeptSteps
  <2>3. /\ RunStart <= kept[i].start /\ kept[i].start <= kept[i].end
        /\ kept[i].end <= RunEnd
    BY <1>2 DEF PlacedInv
  <2>4. d[i] = kept[i].end - kept[i].start
    BY <1>2
  <2> QED BY <2>2, <2>3, <2>4
<1>4. \A i, j \in 1..n : i < j => kept[i].end <= kept[j].start
  BY <1>2 DEF PlacedInv
<1> DEFINE upto(k) == SumFunctionOnSet(d, 1..k)
           span(k) == IF k = 0 THEN 0 ELSE kept[k].end - RunStart
           Bad == {k \in 0..n : ~(upto(k) <= span(k))}
<1> HIDE DEF n
<1>5. Bad = {}
  <2> SUFFICES ASSUME Bad # {} PROVE FALSE
    OBVIOUS
  <2>1. Bad \in SUBSET Int /\ IsFiniteSet(Bad)
    <3>1. IsFiniteSet(0..n) /\ Bad \in SUBSET (0..n)
      BY <1>2, FS_Interval
    <3>2. IsFiniteSet(Bad)
      <4> HIDE DEF Bad
      <4> QED BY <3>1, FS_Subset
    <3> QED BY <1>2, <3>2
  <2>2. PICK k \in Bad : \A x \in Bad : k <= x
    <3> HIDE DEF Bad
    <3> QED BY <2>1, LeastExists
  <2>3. k # 0
    <3>1. 1..0 = {} /\ upto(0) = 0
      BY SumOfNone
    <3> QED BY <2>2, <3>1
  <2>4. k \in 1..n /\ k - 1 \in 0..n /\ k - 1 \notin Bad
    BY <1>2, <2>2, <2>3
  <2>5. upto(k - 1) <= span(k - 1)
    BY <2>4
  <2>6. upto(k) = d[k] + upto(k - 1) /\ upto(k - 1) \in Nat
    <3>a. k \in Nat /\ 1 <= k /\ k <= n
      BY <1>2, <2>4
    <3>1. k \in Nat \ {0} /\ k - 1 \in Nat /\ (\A x \in 1..k : x \in 1..n) /\ (\A x \in 1..(k - 1) : x \in 1..n)
      BY <1>2, <3>a
    <3>2. (\A x \in 1..k : d[x] \in Int) /\ (\A x \in 1..(k - 1) : d[x] \in Nat)
      BY <1>3, <3>1
    <3>3. SumFunctionOnSet(d, 1..k) = d[k] + SumFunctionOnSet(d, 1..(k - 1))
      BY <3>1, <3>2, SumUpTo
    <3>4. SumFunctionOnSet(d, 1..(k - 1)) \in Nat
      BY <3>1, <3>2, SumUpToIsNat
    <3> QED BY <3>3, <3>4
  <2>7. ~(upto(k) <= span(k)) /\ span(k) = kept[k].end - RunStart
    BY <2>2, <2>3
  <2> HIDE DEF upto, Bad
  <2>8. CASE k = 1
    BY <1>1, <1>3, <2>4, <2>5, <2>6, <2>7, <2>8
  <2>9. CASE k # 1
    <3>1. k - 1 \in 1..n /\ span(k - 1) = kept[k - 1].end - RunStart
      BY <2>4, <2>9
    <3>2. kept[k - 1].end <= kept[k].start
      BY <1>4, <2>4, <3>1
    <3> HIDE DEF span
    <3> QED BY <1>1, <1>3, <2>4, <2>5, <2>6, <2>7, <3>1, <3>2
  <2> QED BY <2>8, <2>9
<1>6. upto(n) <= span(n) /\ span(n) <= RunEnd - RunStart /\ upto(n) \in Nat
  <2>1. n \in 0..n
    BY <1>2
  <2>2. upto(n) <= span(n)
    BY <1>5, <2>1
  <2>3. span(n) <= RunEnd - RunStart
    BY <1>1, <1>2, <1>3
  <2>4. IsFiniteSet(1..n) /\ \A x \in 1..n : d[x] \in Nat
    BY <1>2, <1>3, FS_Interval
  <2>5. upto(n) \in Nat
    BY <2>4, SumIsNat
  <2> HIDE DEF span, upto
  <2> QED BY <2>2, <2>3, <2>5
<1>7. span(n) \in Int
  BY <1>1, <1>2, <1>3
<1>8. SumFunctionOnSet(d, DOMAIN kept) = upto(n)
  BY <1>2
<1> HIDE DEF upto, span
<1> QED BY <1>1, <1>2, <1>3, <1>6, <1>7, <1>8

\* What belongs to the steps of either kind belongs to the kept steps.
LEMMA SplitByKind ==
  ASSUME PlacedInv, NEW f, \A i \in DOMAIN kept : f[i] \in Int
  PROVE  LET of(kinds) == {k \in DOMAIN kept : kept[k].step.kind \in kinds}
         IN /\ IsFiniteSet(DOMAIN kept)
            /\ of({"llm_call", "tool"}) = DOMAIN kept
            /\ SumFunctionOnSet(f, of({"llm_call"})) \in Int
            /\ SumFunctionOnSet(f, of({"tool"})) \in Int
            /\ SumFunctionOnSet(f, DOMAIN kept) =
                 SumFunctionOnSet(f, of({"llm_call"})) + SumFunctionOnSet(f, of({"tool"}))
<1> DEFINE of(kinds) == {k \in DOMAIN kept : kept[k].step.kind \in kinds}
           A == of({"llm_call"})
           B == of({"tool"})
<1>1. kept \in Seq(KeptSteps)
  BY DEF PlacedInv
<1>2. IsFiniteSet(DOMAIN kept)
  <2>1. Len(kept) \in Nat /\ DOMAIN kept = 1..Len(kept)
    BY <1>1
  <2> QED BY <2>1, FS_Interval
<1>3. \A k \in DOMAIN kept : kept[k].step.kind \in {"llm_call", "tool"}
  <2>1. \A k \in DOMAIN kept : kept[k] \in KeptSteps
    BY <1>1, ElementOfSeq
  <2> QED BY <2>1 DEF KeptSteps, Steps
<1>4. /\ of({"llm_call", "tool"}) = DOMAIN kept
      /\ A \cup B = DOMAIN kept /\ A \cap B = {}
      /\ A \in SUBSET DOMAIN kept /\ B \in SUBSET DOMAIN kept
  BY <1>3
<1> HIDE DEF A, B
<1>5. IsFiniteSet(A) /\ IsFiniteSet(B) /\ \A i \in A \cup B : f[i] \in Int
  BY <1>2, <1>4, FS_Subset
<1>6. SumFunctionOnSet(f, A \cup B) = SumFunctionOnSet(f, A) + SumFunctionOnSet(f, B)
  BY <1>4, <1>5, SumOfUnion
<1>7. SumFunctionOnSet(f, A) \in Int /\ SumFunctionOnSet(f, B) \in Int
  BY <1>5, SumIsInt
<1>8. SumFunctionOnSet(f, DOMAIN kept) = SumFunctionOnSet(f, A) + SumFunctionOnSet(f, B)
  BY <1>4, <1>6
<1> QED BY <1>2, <1>4, <1>7, <1>8 DEF A, B

\* A sum over the steps of some kinds is one of any function with its values.
LEMMA SumOfKind ==
  ASSUME PlacedInv, NEW K \in SUBSET DOMAIN kept, NEW f, NEW g,
         g = [i \in K |-> f[i]]
  PROVE  SumFunction(g) = SumFunctionOnSet(f, K)
<1>1. IsFiniteSet(DOMAIN kept)
  <2>1. kept \in Seq(KeptSteps)
    BY DEF PlacedInv
  <2>2. Len(kept) \in Nat /\ DOMAIN kept = 1..Len(kept)
    BY <2>1
  <2> QED BY <2>2, FS_Interval
<1>2. IsFiniteSet(K)
  BY <1>1, FS_Subset
<1>3. DOMAIN g = K /\ \A i \in K : g[i] = f[i]
  OBVIOUS
<1>4. SumFunctionOnSet(g, K) = SumFunctionOnSet(f, K)
  BY <1>2, <1>3, SumSame
<1> QED BY <1>3, <1>4 DEF SumFunction

\* What each kept step is given, on either basis, and that it is all that is
\* not left unattributed.
LEMMA WhatIsAttributed ==
  ASSUME ParsedInv, PlacedInv, DerivedInv, outcome = "derived"
  PROVE  LET energy   == [i \in DOMAIN kept |-> metrics.steps[i].energy_mj]
             duration == [i \in DOMAIN kept |-> metrics.steps[i].end - metrics.steps[i].start]
             of(kinds) == {k \in DOMAIN kept : kept[k].step.kind \in kinds}
         IN /\ metrics.steps = [i \in DOMAIN kept |-> StepMetrics(kept[i])]
            /\ \A i \in DOMAIN kept : energy[i] \in Nat /\ duration[i] \in Nat
            /\ \A i \in DOMAIN kept : duration[i] = kept[i].end - kept[i].start
            /\ metrics.llm_energy = SumFunctionOnSet(energy, of({"llm_call"}))
            /\ metrics.tool_energy = SumFunctionOnSet(energy, of({"tool"}))
            /\ metrics.total_energy \in Nat /\ metrics.unattributed_energy \in Nat
            /\ metrics.run_duration \in Nat /\ metrics.unattributed_duration \in Nat
            /\ SumFunctionOnSet(energy, DOMAIN kept) + metrics.unattributed_energy
                 = metrics.total_energy
            /\ SumFunctionOnSet(duration, DOMAIN kept) + metrics.unattributed_duration
                 = metrics.run_duration
<1> DEFINE I == DOMAIN kept
           energy   == [i \in I |-> metrics.steps[i].energy_mj]
           duration == [i \in I |-> metrics.steps[i].end - metrics.steps[i].start]
           of(kinds) == {k \in I : kept[k].step.kind \in kinds}
           E(i) == Energy(input.gpu, kept[i].start, kept[i].end)
           D(i) == SaturatingSub(kept[i].end, kept[i].start)
           total == Millijoules(input.gpu, Segments(input.gpu))
<1>1. metrics = Sliced /\ ~Withheld
  BY DEF DerivedInv
<1>2. metrics.steps = [i \in I |-> StepMetrics(kept[i])]
  BY <1>1 DEF Sliced
<1>3. \A i \in I : energy[i] = E(i) /\ duration[i] = kept[i].end - kept[i].start
  BY <1>2 DEF StepMetrics
<1>4. /\ total \in Nat /\ \A i \in I : energy[i] \in Nat
      /\ SumFunctionOnSet(energy, I) <= total
  <2> HIDE DEF energy
  <2> QED BY <1>3, EnergiesFit
<1>5. /\ RunStart \in Nat /\ RunEnd \in Nat /\ RunStart <= RunEnd
      /\ \A i \in I : duration[i] \in Nat
      /\ SumFunctionOnSet(duration, I) <= RunEnd - RunStart
  <2> HIDE DEF duration
  <2> QED BY <1>1, <1>3, DurationsFit
<1>6. /\ metrics.total_energy = total
      /\ metrics.llm_energy = SumFunction([i \in of({"llm_call"}) |-> E(i)])
      /\ metrics.tool_energy = SumFunction([i \in of({"tool"}) |-> E(i)])
      /\ metrics.unattributed_energy =
           SaturatingSub(total, SumFunction([i \in of({"llm_call", "tool"}) |-> E(i)]))
      /\ metrics.run_duration = SaturatingSub(RunEnd, RunStart)
      /\ metrics.unattributed_duration =
           SaturatingSub(metrics.run_duration,
                         SumFunction([i \in of({"llm_call", "tool"}) |-> D(i)]))
  BY <1>1 DEF Sliced, SumOver
<1>7. of({"llm_call", "tool"}) = I
  <2>1. \A i \in I : energy[i] \in Int
    BY <1>4
  <2> HIDE DEF energy
  <2> QED BY <2>1, SplitByKind
<1>8. /\ SumFunction([i \in of({"llm_call"}) |-> E(i)])
           = SumFunctionOnSet(energy, of({"llm_call"}))
      /\ SumFunction([i \in of({"tool"}) |-> E(i)])
           = SumFunctionOnSet(energy, of({"tool"}))
      /\ SumFunction([i \in of({"llm_call", "tool"}) |-> E(i)])
           = SumFunctionOnSet(energy, I)
  <2>1. ASSUME NEW K \in SUBSET I
        PROVE  SumFunction([i \in K |-> E(i)]) = SumFunctionOnSet(energy, K)
    <3>1. [i \in K |-> E(i)] = [i \in K |-> energy[i]]
      <4> HIDE DEF energy, E
      <4> QED BY <1>3
    <3> HIDE DEF energy, E
    <3> QED BY <3>1, SumOfKind
  <2>2. of({"llm_call"}) \in SUBSET I /\ of({"tool"}) \in SUBSET I /\ I \in SUBSET I
    OBVIOUS
  <2> HIDE DEF of, energy, E, I
  <2> QED BY <1>7, <2>1, <2>2
<1>9. SumFunction([i \in of({"llm_call", "tool"}) |-> D(i)]) = SumFunctionOnSet(duration, I)
  <2>1. \A i \in I : D(i) = duration[i]
    <3> SUFFICES ASSUME NEW i \in I PROVE D(i) = duration[i]
      OBVIOUS
    <3>1. kept[i] \in KeptSteps /\ kept[i].start <= kept[i].end
      BY ElementOfSeq DEF PlacedInv
    <3> QED BY <1>3, <3>1 DEF SaturatingSub, KeptSteps
  <2>2. [i \in I |-> D(i)] = [i \in I |-> duration[i]]
    <3> HIDE DEF D, duration
    <3> QED BY <2>1
  <2>3. SumFunction([i \in I |-> D(i)]) = SumFunctionOnSet(duration, I)
    <3>1. I \in SUBSET DOMAIN kept
      OBVIOUS
    <3> HIDE DEF D, duration, I
    <3> QED BY <2>2, <3>1, SumOfKind
  <2> HIDE DEF of, D, duration
  <2> QED BY <1>7, <2>3
<1>10. SumFunctionOnSet(energy, I) \in Nat /\ SumFunctionOnSet(duration, I) \in Nat
  <2>1. IsFiniteSet(I)
    <3>1. \A i \in I : energy[i] \in Int
      BY <1>4
    <3> HIDE DEF energy
    <3> QED BY <3>1, SplitByKind
  <2> HIDE DEF energy, duration, I
  <2> QED BY <1>4, <1>5, <2>1, SumIsNat
<1> HIDE DEF energy, duration, of, E, D, total, I
<1>11. /\ metrics.total_energy \in Nat /\ metrics.unattributed_energy \in Nat
       /\ SumFunctionOnSet(energy, I) + metrics.unattributed_energy = metrics.total_energy
  BY <1>4, <1>6, <1>8, <1>10 DEF SaturatingSub
<1>12. /\ metrics.run_duration \in Nat /\ metrics.unattributed_duration \in Nat
       /\ SumFunctionOnSet(duration, I) + metrics.unattributed_duration = metrics.run_duration
  BY <1>5, <1>6, <1>9, <1>10 DEF SaturatingSub
<1>13. /\ metrics.llm_energy = SumFunctionOnSet(energy, of({"llm_call"}))
       /\ metrics.tool_energy = SumFunctionOnSet(energy, of({"tool"}))
  BY <1>6, <1>8
<1> QED BY <1>2, <1>3, <1>4, <1>5, <1>11, <1>12, <1>13 DEF energy, duration, of, I

\* The figures reconcile.
LEMMA FiguresReconcile ==
  ParsedInv /\ PlacedInv /\ DerivedInv => Reconciles
<1> SUFFICES ASSUME ParsedInv, PlacedInv, DerivedInv, outcome = "derived"
             PROVE  /\ metrics.llm_energy + metrics.tool_energy + metrics.unattributed_energy
                         = metrics.total_energy
                    /\ SumFunction([i \in DOMAIN kept |-> kept[i].end - kept[i].start])
                         + metrics.unattributed_duration = metrics.run_duration
  BY DEF Reconciles
<1> DEFINE I == DOMAIN kept
           energy   == [i \in I |-> metrics.steps[i].energy_mj]
           duration == [i \in I |-> metrics.steps[i].end - metrics.steps[i].start]
           of(kinds) == {k \in I : kept[k].step.kind \in kinds}
<1>1. /\ \A i \in I : energy[i] \in Nat
      /\ \A i \in I : duration[i] = kept[i].end - kept[i].start
      /\ metrics.llm_energy = SumFunctionOnSet(energy, of({"llm_call"}))
      /\ metrics.tool_energy = SumFunctionOnSet(energy, of({"tool"}))
      /\ metrics.total_energy \in Nat /\ metrics.unattributed_energy \in Nat
      /\ metrics.run_duration \in Nat /\ metrics.unattributed_duration \in Nat
      /\ SumFunctionOnSet(energy, I) + metrics.unattributed_energy = metrics.total_energy
      /\ SumFunctionOnSet(duration, I) + metrics.unattributed_duration = metrics.run_duration
  BY WhatIsAttributed
<1>2. /\ SumFunctionOnSet(energy, of({"llm_call"})) \in Int
      /\ SumFunctionOnSet(energy, of({"tool"})) \in Int
      /\ SumFunctionOnSet(energy, I) =
           SumFunctionOnSet(energy, of({"llm_call"})) + SumFunctionOnSet(energy, of({"tool"}))
  <2>1. \A i \in I : energy[i] \in Int
    BY <1>1
  <2> HIDE DEF energy
  <2> QED BY <2>1, SplitByKind
<1>3. SumFunction([i \in I |-> kept[i].end - kept[i].start]) = SumFunctionOnSet(duration, I)
  <2>1. [i \in I |-> kept[i].end - kept[i].start] = [i \in I |-> duration[i]]
    <3> HIDE DEF duration
    <3> QED BY <1>1
  <2>2. I \in SUBSET DOMAIN kept
    OBVIOUS
  <2> HIDE DEF duration, I
  <2> QED BY <2>1, <2>2, SumOfKind
<1> HIDE DEF energy, duration, of
<1> QED BY <1>1, <1>2, <1>3

-----------------------------------------------------------------------------
\* What a step is charged per token is nothing or its price.
LEMMA ChargedOnce ==
  ASSUME NEW x \in Int, NEW G
  PROVE  SumSet({p[1] : p \in {<<x, g>> : g \in G}}) \in {0, x}
<1>1. CASE G = {}
  <2>1. {p[1] : p \in {<<x, g>> : g \in G}} = {}
    BY <1>1
  <2> QED BY <2>1, SumSetOfNone
<1>2. CASE G # {}
  <2>1. {p[1] : p \in {<<x, g>> : g \in G}} = {<<x, g>>[1] : g \in G}
    OBVIOUS
  <2>2. \A g \in G : <<x, g>>[1] = x
    OBVIOUS
  <2>3. {<<x, g>>[1] : g \in G} = {x}
    BY <1>2, <2>2
  <2> QED BY <2>1, <2>3, SumSetOfOne
<1> QED BY <1>1, <1>2

\* The quantities of either basis are those of the steps and of the rest.
LEMMA QuantitiesOfSteps ==
  ASSUME ParsedInv, PlacedInv, DerivedInv, outcome = "derived", NEW basis \in Bases
  PROVE  LET q == Quantities(metrics, basis)
         IN /\ DOMAIN metrics.steps = DOMAIN kept
            /\ \A i \in DOMAIN kept : q.steps[i] \in Nat
            /\ q.run \in Nat /\ q.unattributed \in Nat
            /\ SumFunctionOnSet(q.steps, DOMAIN kept) + q.unattributed = q.run
<1> DEFINE I == DOMAIN kept
           energy   == [i \in I |-> metrics.steps[i].energy_mj]
           duration == [i \in I |-> metrics.steps[i].end - metrics.steps[i].start]
<1>1. /\ metrics.steps = [i \in I |-> StepMetrics(kept[i])]
      /\ \A i \in I : energy[i] \in Nat /\ duration[i] \in Nat
      /\ metrics.total_energy \in Nat /\ metrics.unattributed_energy \in Nat
      /\ metrics.run_duration \in Nat /\ metrics.unattributed_duration \in Nat
      /\ SumFunctionOnSet(energy, I) + metrics.unattributed_energy = metrics.total_energy
      /\ SumFunctionOnSet(duration, I) + metrics.unattributed_duration = metrics.run_duration
  BY WhatIsAttributed
<1>2. DOMAIN metrics.steps = I
  BY <1>1
<1>3. CASE basis.basis = "occupancy"
  <2>1. Quantities(metrics, basis) = [ run |-> metrics.run_duration,
          unattributed |-> metrics.unattributed_duration, steps |-> duration ]
    BY <1>2, <1>3 DEF Quantities
  <2> HIDE DEF duration, energy
  <2> QED BY <1>1, <1>2, <2>1
<1>4. CASE basis.basis # "occupancy"
  <2>1. Quantities(metrics, basis) = [ run |-> metrics.total_energy,
          unattributed |-> metrics.unattributed_energy, steps |-> energy ]
    BY <1>2, <1>4 DEF Quantities
  <2> HIDE DEF duration, energy
  <2> QED BY <1>1, <1>2, <2>1
<1> QED BY <1>3, <1>4

\* The figures of a derived trajectory reconcile and so do their prices, on
\* every basis that may be declared.
LEMMA PricesOfDerived ==
  ParsedInv /\ PlacedInv /\ DerivedInv => PricesReconcile
<1> SUFFICES ASSUME ParsedInv, PlacedInv, DerivedInv, outcome = "derived",
                    NEW basis \in Bases, NEW c \in DeriveCost(metrics, basis)
             PROVE  LET charged == [ i \in DOMAIN c.steps |->
                                       SumSet({p[1] : p \in c.steps[i].per_token}) ]
                    IN /\ c.attributed_usd + c.unattributed_usd = c.run_usd
                       /\ c.llm_usd + c.tool_usd = c.attributed_usd
                       /\ \A i \in DOMAIN c.steps : c.steps[i].usd >= 0
                       /\ SumFunction(charged) <= c.run_usd
  BY FiguresReconcile DEF PricesReconcile
<1> DEFINE I == DOMAIN kept
           q == Quantities(metrics, basis)
           usd == [i \in I |-> basis.rate * q.steps[i]]
           tokens(i) == { n \in metrics.steps[i].deltas.generation :
                            n # 0 /\ metrics.steps[i].kind # "tool" }
           priced == [ i \in I |-> [ step_id |-> metrics.steps[i].step_id,
                                     kind |-> metrics.steps[i].kind, usd |-> usd[i],
                                     per_token |-> {<<usd[i], g>> : g \in tokens(i)} ] ]
           of(kinds) == {k \in I : kept[k].step.kind \in kinds}
           charged == [i \in I |-> SumSet({p[1] : p \in {<<usd[i], g>> : g \in tokens(i)}})]
<1>1. basis.rate \in Nat
  BY BasesAssumption
<1>2. /\ DOMAIN metrics.steps = I
      /\ \A i \in I : q.steps[i] \in Nat
      /\ q.run \in Nat /\ q.unattributed \in Nat
      /\ SumFunctionOnSet(q.steps, I) + q.unattributed = q.run
  BY QuantitiesOfSteps
<1>3. \A i \in I : metrics.steps[i].kind = kept[i].step.kind
  <2>1. metrics.steps = [i \in I |-> StepMetrics(kept[i])]
    BY WhatIsAttributed
  <2> QED BY <2>1 DEF StepMetrics
<1>4. /\ c.run_usd = basis.rate * q.run
      /\ c.attributed_usd = Summed(priced, {"llm_call", "tool"})
      /\ c.llm_usd = Summed(priced, {"llm_call"})
      /\ c.tool_usd = Summed(priced, {"tool"})
      /\ c.unattributed_usd = basis.rate * q.unattributed
      /\ c.steps = priced
  <2> HIDE DEF q
  <2>1. DeriveCost(metrics, basis) =
          IF q.run = 0 THEN {}
          ELSE { [ basis            |-> basis,
                   run_usd          |-> basis.rate * q.run,
                   attributed_usd   |-> Summed(priced, {"llm_call", "tool"}),
                   llm_usd          |-> Summed(priced, {"llm_call"}),
                   tool_usd         |-> Summed(priced, {"tool"}),
                   unattributed_usd |-> basis.rate * q.unattributed,
                   steps            |-> priced,
                   per_token        |-> { <<basis.rate * q.run, g>> :
                                            g \in {metrics.total_generation_tokens} \ {0} } ] }
    BY <1>2 DEF DeriveCost, q
  <2> HIDE DEF priced
  <2> QED BY <2>1
<1>5. \A i \in I : /\ usd[i] = basis.rate * q.steps[i] /\ usd[i] \in Int
                   /\ charged[i] \in {0, usd[i]}
  <2> SUFFICES ASSUME NEW i \in I
               PROVE  /\ usd[i] = basis.rate * q.steps[i] /\ usd[i] \in Int
                      /\ charged[i] \in {0, usd[i]}
    OBVIOUS
  <2> HIDE DEF q
  <2>1. usd[i] = basis.rate * q.steps[i]
    OBVIOUS
  <2>2. usd[i] \in Int
    BY <1>1, <1>2, <2>1
  <2>3. charged[i] = SumSet({p[1] : p \in {<<usd[i], g>> : g \in tokens(i)}})
    OBVIOUS
  <2> HIDE DEF usd, charged, tokens
  <2>4. SumSet({p[1] : p \in {<<usd[i], g>> : g \in tokens(i)}}) \in {0, usd[i]}
    BY <2>2, ChargedOnce
  <2> QED BY <2>1, <2>2, <2>3, <2>4
<1>6. ASSUME NEW kinds PROVE Summed(priced, kinds) = SumFunctionOnSet(usd, of(kinds))
  <2>1. \A i \in I : priced[i].kind = kept[i].step.kind /\ priced[i].usd = usd[i]
    <3> HIDE DEF usd, tokens
    <3> QED BY <1>3
  <2>2. DOMAIN priced = I
    OBVIOUS
  <2> HIDE DEF priced, usd
  <2>3. {j \in DOMAIN priced : priced[j].kind \in kinds} = of(kinds)
    BY <2>1, <2>2
  <2>4. [i \in of(kinds) |-> priced[i].usd] = [i \in of(kinds) |-> usd[i]]
    BY <2>1
  <2>5. of(kinds) \in SUBSET DOMAIN kept
    OBVIOUS
  <2>6. Summed(priced, kinds) = SumFunction([i \in of(kinds) |-> usd[i]])
    BY <2>3, <2>4 DEF Summed
  <2> HIDE DEF of
  <2> QED BY <2>5, <2>6, SumOfKind
<1>7. /\ SumFunctionOnSet(usd, I) + basis.rate * q.unattributed = basis.rate * q.run
      /\ SumFunctionOnSet(usd, of({"llm_call"})) + SumFunctionOnSet(usd, of({"tool"}))
           = SumFunctionOnSet(usd, of({"llm_call", "tool"}))
      /\ of({"llm_call", "tool"}) = I
      /\ \A i \in I : usd[i] >= 0
      /\ SumFunctionOnSet(charged, I) <= basis.rate * q.run
  <2> DEFINE rate == basis.rate
             qs   == q.steps
             run  == q.run
             un   == q.unattributed
  <2>1. \A i \in DOMAIN kept : qs[i] \in Nat
    BY <1>2
  <2>2. \A i \in DOMAIN kept : usd[i] = rate * qs[i]
    BY <1>5
  <2>3. \A i \in DOMAIN kept : charged[i] \in {0, usd[i]}
    BY <1>5
  <2>4. SumFunctionOnSet(qs, DOMAIN kept) + un = run
    BY <1>2
  <2>5. rate \in Nat /\ run \in Nat /\ un \in Nat
    BY <1>1, <1>2
  <2> HIDE DEF q, usd, charged, rate, qs, run, un
  <2>6. \A i \in DOMAIN kept : usd[i] \in Nat /\ charged[i] \in Nat /\ charged[i] <= usd[i]
    <3> SUFFICES ASSUME NEW i \in DOMAIN kept
                 PROVE  usd[i] \in Nat /\ charged[i] \in Nat /\ charged[i] <= usd[i]
      OBVIOUS
    <3>1. rate * qs[i] \in Nat
      BY <2>1, <2>5
    <3> QED BY <2>2, <2>3, <3>1
  <2>7. /\ IsFiniteSet(DOMAIN kept) /\ of({"llm_call", "tool"}) = DOMAIN kept
        /\ SumFunctionOnSet(usd, of({"llm_call"})) + SumFunctionOnSet(usd, of({"tool"}))
             = SumFunctionOnSet(usd, DOMAIN kept)
    <3>1. \A i \in DOMAIN kept : usd[i] \in Int
      BY <2>6
    <3> QED BY <3>1, SplitByKind
  <2>8. SumFunctionOnSet(usd, DOMAIN kept) = rate * SumFunctionOnSet(qs, DOMAIN kept)
    <3>1. /\ \A i \in DOMAIN kept : qs[i] \in Int /\ usd[i] = rate * qs[i]
          /\ rate \in Int
      BY <2>1, <2>2, <2>5
    <3> QED BY <2>7, <3>1, SumScaled
  <2>9. SumFunctionOnSet(qs, DOMAIN kept) \in Nat
    BY <2>1, <2>7, SumIsNat
  <2>10. SumFunctionOnSet(charged, DOMAIN kept) <= SumFunctionOnSet(usd, DOMAIN kept)
    <3>1. \A i \in DOMAIN kept : /\ charged[i] \in Int /\ usd[i] \in Int
                                 /\ charged[i] <= usd[i]
      BY <2>6
    <3> QED BY <2>7, <3>1, SumMonotone
  <2>11. /\ SumFunctionOnSet(charged, DOMAIN kept) \in Nat
         /\ SumFunctionOnSet(usd, DOMAIN kept) \in Nat
    <3>1. /\ \A i \in DOMAIN kept : charged[i] \in Nat
          /\ \A i \in DOMAIN kept : usd[i] \in Nat
      BY <2>6
    <3> QED BY <2>7, <3>1, SumIsNat
  <2>12. SumFunctionOnSet(usd, DOMAIN kept) + rate * un = rate * run
    <3>1. \A x \in Nat : rate * x + rate * un = rate * (x + un)
      BY <2>5
    <3> QED BY <2>4, <2>8, <2>9, <3>1
  <2>13. rate * un \in Nat /\ rate * run \in Nat
    BY <2>5
  <2>14. SumFunctionOnSet(charged, DOMAIN kept) <= rate * run
    BY <2>10, <2>11, <2>12, <2>13
  <2>15. \A i \in I : usd[i] >= 0
    BY <2>6
  <2> QED BY <2>7, <2>12, <2>14, <2>15 DEF rate, run, un
<1>8. [i \in DOMAIN c.steps |-> SumSet({p[1] : p \in c.steps[i].per_token})] = charged
  <2>1. DOMAIN c.steps = I
    BY <1>4
  <2>2. \A i \in I : c.steps[i].per_token = {<<usd[i], g>> : g \in tokens(i)}
    <3> HIDE DEF usd, tokens
    <3> QED BY <1>4
  <2> HIDE DEF usd, tokens
  <2> QED BY <2>1, <2>2
<1>9. SumFunction(charged) = SumFunctionOnSet(charged, I)
  BY DEF SumFunction
<1>10. \A i \in DOMAIN c.steps : c.steps[i].usd = usd[i] /\ i \in I
  <2> HIDE DEF usd, tokens
  <2> QED BY <1>4
<1> HIDE DEF q, usd, charged, priced, of, tokens, I
<1> QED BY <1>4, <1>6, <1>7, <1>8, <1>9, <1>10

(* The figures and the prices of every derived trajectory reconcile: both  *)
(* saturating_sub of the derivation never saturate, the prices add up on   *)
(* either basis and the tokens of the steps never cost more than the run.  *)
THEOREM PricesAddUp == Spec => []PricesReconcile
  BY PlacementCorrect, DerivedCorrect, PricesOfDerived, PTL

-----------------------------------------------------------------------------
\* Why a step is dropped, by what is kept so far.
DroppedFor(s, reason) ==
  \/ reason = "outside_run_window" /\ ~InRun(s)
  \/ /\ reason = "overlaps_preceding_step" /\ InRun(s)
     /\ \E i \in DOMAIN kept : /\ Before(kept[i].step, s)
                               /\ s.t_start < kept[i].step.t_end

\* The steps placed so far precede the rest; each of them is kept, in order
\* and with its own window, or dropped for a reason.
PlacedAll ==
  LET placed == steps \ rest
  IN /\ Len(kept) + Len(dropped) = Cardinality(placed)
     /\ \A p \in placed, r \in rest : Before(p, r)
     /\ \A i \in DOMAIN kept :
          /\ kept[i].step \in placed /\ InRun(kept[i].step)
          /\ kept[i].start = kept[i].step.t_start - input.anchor
          /\ kept[i].end = kept[i].step.t_end - input.anchor
     /\ \A i, j \in DOMAIN kept : i < j => Before(kept[i].step, kept[j].step)
     /\ \A i \in DOMAIN dropped : \E p \in placed :
          p.step_id = dropped[i].step_id /\ DroppedFor(p, dropped[i].reason)
     /\ \A p \in placed : \/ \E i \in DOMAIN kept : kept[i].step = p
                          \/ \E i \in DOMAIN dropped : dropped[i].step_id = p.step_id

JustifiedInv ==
  /\ IsFiniteSet(steps)
  /\ \A r, s \in steps : r.step_id = s.step_id => r = s
  /\ pc \in {"parse", "gate"} => kept = <<>> /\ dropped = <<>>
  /\ pc \in {"place", "slice"} \/ outcome = "derived" => input.anchor \in Nat /\ PlacedAll
  /\ pc = "slice" \/ outcome = "derived" => rest = {}

\* A step that runs into the last kept one overlaps a step that precedes it.
LEMMA OverlapIsOfAKeptStep ==
  ASSUME ParsedInv, PlacedInv, PlacedAll, input.anchor \in Nat,
         NEW s \in rest, InRun(s), lastEnd # None, s.t_start - input.anchor < lastEnd
  PROVE  DroppedFor(s, "overlaps_preceding_step")
<1>1. kept \in Seq(KeptSteps) /\ kept # <<>> /\ lastEnd = kept[Len(kept)].end
  BY DEF PlacedInv
<1> DEFINE n == Len(kept)
<1>2. n \in DOMAIN kept /\ kept[n] \in KeptSteps
  <2>1. 1 \in DOMAIN kept
    BY <1>1
  <2> QED BY <1>1, <2>1, ElementOfSeq
<1>3. kept[n].step \in steps \ rest /\ kept[n].end = kept[n].step.t_end - input.anchor
  BY <1>2 DEF PlacedAll
<1>4. Before(kept[n].step, s)
  BY <1>3 DEF PlacedAll
<1>5. s.t_start \in Nat /\ kept[n].step.t_end \in Nat
  BY <1>2 DEF ParsedInv, Steps, KeptSteps
<1>6. s.t_start < kept[n].step.t_end
  BY <1>1, <1>3, <1>5
<1> QED BY <1>2, <1>4, <1>6 DEF DroppedFor

\* Placing the first of the rest keeps all this.
LEMMA PlacingTraced ==
  ASSUME ParsedInv, PlacedInv, PlacedAll, pc = "place", IsFiniteSet(steps),
         NEW s \in rest, \A r \in rest \ {s} : Before(s, r), rest' = rest \ {s},
         Place(s), UNCHANGED <<input, steps>>
  PROVE  PlacedAll'
<1> DEFINE placed == steps \ rest
<1>1. s \in steps /\ s \notin placed /\ (steps \ rest)' = placed \cup {s}
  BY DEF ParsedInv
<1>2. /\ IsFiniteSet(placed) /\ Cardinality(placed) \in Nat
      /\ Cardinality(placed \cup {s}) = Cardinality(placed) + 1
  <2>1. IsFiniteSet(placed)
    BY FS_Subset
  <2> HIDE DEF placed
  <2> QED BY <2>1, <1>1, FS_AddElement, FS_CardinalityType
<1>3. \A p \in (steps \ rest)', r \in rest' : Before(p, r)
  <2> SUFFICES ASSUME NEW p \in placed \cup {s}, NEW r \in rest \ {s} PROVE Before(p, r)
    BY <1>1
  <2>1. CASE p = s
    BY <2>1
  <2>2. CASE p \in placed
    BY <2>2 DEF PlacedAll
  <2> QED BY <2>1, <2>2
<1>4. input.anchor \in Nat
  BY DEF ParsedInv
<1>5. kept \in Seq(KeptSteps)
  BY DEF PlacedInv
<1> DEFINE Reasons == {"outside_run_window", "overlaps_preceding_step"}
<1>6. dropped \in Seq([step_id : Nat, reason : Reasons])
  BY DEF PlacedInv
<1>7. s \in Steps
  BY DEF ParsedInv
<1>8. \A x : InRun(x)' <=> InRun(x)
  BY DEF InRun, RunStart, RunEnd
<1>9. /\ Len(kept) + Len(dropped) = Cardinality(placed)
      /\ \A i \in DOMAIN kept :
           /\ kept[i].step \in placed /\ InRun(kept[i].step)
           /\ kept[i].start = kept[i].step.t_start - input.anchor
           /\ kept[i].end = kept[i].step.t_end - input.anchor
      /\ \A i, j \in DOMAIN kept : i < j => Before(kept[i].step, kept[j].step)
      /\ \A i \in DOMAIN dropped : \E p \in placed :
           p.step_id = dropped[i].step_id /\ DroppedFor(p, dropped[i].reason)
      /\ \A p \in placed : \/ \E i \in DOMAIN kept : kept[i].step = p
                           \/ \E i \in DOMAIN dropped : dropped[i].step_id = p.step_id
  BY DEF PlacedAll
<1>a. ASSUME NEW reason \in Reasons, Drop(s, reason), DroppedFor(s, reason)
      PROVE  PlacedAll'
  <2> DEFINE e == [step_id |-> s.step_id, reason |-> reason]
             n == Len(dropped)
  <2>1. kept' = kept /\ dropped' = Append(dropped, e)
    BY <1>a DEF Drop
  <2>2. /\ n \in Nat /\ DOMAIN dropped = 1..n /\ DOMAIN dropped' = 1..(n + 1)
        /\ Len(dropped') = n + 1 /\ dropped'[n + 1] = e
        /\ \A i \in 1..n : dropped'[i] = dropped[i]
    BY <2>1, <1>6
  <2>3. Len(kept') + Len(dropped') = Cardinality((steps \ rest)')
    <3>1. Len(kept) \in Nat
      BY <1>5
    <3> HIDE DEF placed
    <3>2. Cardinality((steps \ rest)') = Cardinality(placed) + 1
      BY <1>1, <1>2
    <3>3. Len(kept) + Len(dropped) = Cardinality(placed)
      BY <1>9
    <3> QED BY <3>1, <3>2, <3>3, <1>2, <2>1, <2>2
  <2>4. \A p, r : DroppedFor(p, r)' <=> DroppedFor(p, r)
    BY <2>1, <1>8 DEF DroppedFor
  <2>5. \A i \in DOMAIN dropped' : \E p \in placed \cup {s} :
          p.step_id = dropped'[i].step_id /\ DroppedFor(p, dropped'[i].reason)
    <3> SUFFICES ASSUME NEW i \in 1..(n + 1)
                 PROVE  \E p \in placed \cup {s} :
                          p.step_id = dropped'[i].step_id /\ DroppedFor(p, dropped'[i].reason)
      BY <2>2
    <3>1. CASE i = n + 1
      <4>1. dropped'[i].step_id = s.step_id /\ dropped'[i].reason = reason
        BY <3>1, <2>2
      <4> QED BY <4>1, <1>a
    <3>2. CASE i \in 1..n
      <4>1. i \in DOMAIN dropped /\ dropped'[i] = dropped[i]
        BY <3>2, <2>2
      <4> QED BY <4>1, <1>9
    <3> QED BY <3>1, <3>2, <2>2
  <2>6. \A p \in placed \cup {s} :
          \/ \E i \in DOMAIN kept : kept[i].step = p
          \/ \E i \in DOMAIN dropped' : dropped'[i].step_id = p.step_id
    <3> SUFFICES ASSUME NEW p \in placed \cup {s}
                 PROVE  \/ \E i \in DOMAIN kept : kept[i].step = p
                        \/ \E i \in DOMAIN dropped' : dropped'[i].step_id = p.step_id
      OBVIOUS
    <3>1. CASE p = s
      <4>1. n + 1 \in DOMAIN dropped' /\ dropped'[n + 1].step_id = s.step_id
        BY <2>2
      <4> QED BY <4>1, <3>1
    <3>2. CASE p \in placed
      <4>1. \A i \in DOMAIN dropped : i \in DOMAIN dropped' /\ dropped'[i] = dropped[i]
        BY <2>2
      <4> HIDE DEF placed
      <4> QED BY <4>1, <3>2, <1>9
    <3> QED BY <3>1, <3>2
  <2>7. \A i \in DOMAIN kept' :
          /\ kept'[i].step \in placed \cup {s} /\ InRun(kept'[i].step)
          /\ kept'[i].start = kept'[i].step.t_start - input'.anchor
          /\ kept'[i].end = kept'[i].step.t_end - input'.anchor
    BY <2>1, <1>9
  <2>8. \A i, j \in DOMAIN kept' : i < j => Before(kept'[i].step, kept'[j].step)
    BY <2>1, <1>9
  <2> HIDE DEF placed
  <2> QED BY <1>1, <1>3, <1>8, <2>1, <2>3, <2>4, <2>5, <2>6, <2>7, <2>8 DEF PlacedAll, Before
<1>10. CASE ~InRun(s) /\ Drop(s, "outside_run_window")
  BY <1>10, <1>a DEF DroppedFor
<1>11. CASE /\ InRun(s) /\ lastEnd # None /\ s.t_start - input.anchor < lastEnd
            /\ Drop(s, "overlaps_preceding_step")
  <2>1. DroppedFor(s, "overlaps_preceding_step")
    BY <1>4, <1>11, OverlapIsOfAKeptStep
  <2> QED BY <2>1, <1>11, <1>a
<1>12. CASE /\ InRun(s)
            /\ kept' = Append(kept, [ step |-> s, start |-> s.t_start - input.anchor,
                                      end |-> s.t_end - input.anchor ])
            /\ UNCHANGED dropped
  <2> DEFINE k == [ step |-> s, start |-> s.t_start - input.anchor,
                    end |-> s.t_end - input.anchor ]
             n == Len(kept)
  <2>1. k \in KeptSteps
    BY <1>4, <1>7, <1>12 DEF InRun, KeptSteps, Steps, ParsedInv
  <2>2. /\ n \in Nat /\ DOMAIN kept = 1..n /\ DOMAIN kept' = 1..(n + 1)
        /\ Len(kept') = n + 1 /\ kept'[n + 1] = k
        /\ \A i \in 1..n : kept'[i] = kept[i]
    <3> HIDE DEF k
    <3> QED BY <2>1, <1>5, <1>12 DEF k
  <2>3. Len(kept') + Len(dropped') = Cardinality((steps \ rest)')
    <3>1. Len(dropped) \in Nat
      BY <1>6
    <3> HIDE DEF placed
    <3>2. Cardinality((steps \ rest)') = Cardinality(placed) + 1
      BY <1>1, <1>2
    <3>3. Len(kept) + Len(dropped) = Cardinality(placed)
      BY <1>9
    <3> QED BY <3>1, <3>2, <3>3, <1>2, <1>12, <2>2
  <2>4. \A i \in DOMAIN kept' :
          /\ kept'[i].step \in placed \cup {s} /\ InRun(kept'[i].step)
          /\ kept'[i].start = kept'[i].step.t_start - input.anchor
          /\ kept'[i].end = kept'[i].step.t_end - input.anchor
    <3> SUFFICES ASSUME NEW i \in 1..(n + 1)
                 PROVE  /\ kept'[i].step \in placed \cup {s} /\ InRun(kept'[i].step)
                        /\ kept'[i].start = kept'[i].step.t_start - input.anchor
                        /\ kept'[i].end = kept'[i].step.t_end - input.anchor
      BY <2>2
    <3>1. CASE i = n + 1
      BY <3>1, <2>2, <1>12
    <3>2. CASE i \in 1..n
      BY <3>2, <2>2, <1>9
    <3> QED BY <3>1, <3>2, <2>2
  <2>5. \A i, j \in DOMAIN kept' : i < j => Before(kept'[i].step, kept'[j].step)
    <3> SUFFICES ASSUME NEW i \in 1..(n + 1), NEW j \in 1..(n + 1), i < j
                 PROVE  Before(kept'[i].step, kept'[j].step)
      BY <2>2
    <3>1. i \in 1..n /\ kept'[i] = kept[i] /\ kept[i].step \in placed
      BY <2>2, <1>9
    <3>2. CASE j = n + 1
      <4>1. kept'[j].step = s
        BY <3>2, <2>2
      <4>2. Before(kept[i].step, s)
        BY <3>1 DEF PlacedAll
      <4> QED BY <3>1, <4>1, <4>2
    <3>3. CASE j \in 1..n
      BY <3>1, <3>3, <2>2, <1>9
    <3> QED BY <3>2, <3>3, <2>2
  <2>6. \A i \in DOMAIN dropped : \E p \in placed :
          p.step_id = dropped[i].step_id /\ DroppedFor(p, dropped[i].reason)'
    <3>1. \A i \in DOMAIN kept : i \in DOMAIN kept' /\ kept'[i] = kept[i]
      BY <2>2
    <3>2. \A p, r : DroppedFor(p, r) => DroppedFor(p, r)'
      BY <1>8, <3>1 DEF DroppedFor
    <3> HIDE DEF placed
    <3> QED BY <3>2, <1>9, <1>12
  <2>7. \A p \in placed \cup {s} :
          \/ \E i \in DOMAIN kept' : kept'[i].step = p
          \/ \E i \in DOMAIN dropped : dropped[i].step_id = p.step_id
    <3> SUFFICES ASSUME NEW p \in placed \cup {s}
                 PROVE  \/ \E i \in DOMAIN kept' : kept'[i].step = p
                        \/ \E i \in DOMAIN dropped : dropped[i].step_id = p.step_id
      OBVIOUS
    <3>1. CASE p = s
      <4>1. n + 1 \in DOMAIN kept' /\ kept'[n + 1].step = s
        BY <2>2
      <4> QED BY <4>1, <3>1
    <3>2. CASE p \in placed
      <4>1. \A i \in DOMAIN kept : i \in DOMAIN kept' /\ kept'[i] = kept[i]
        BY <2>2
      <4> HIDE DEF placed
      <4> QED BY <4>1, <3>2, <1>9
    <3> QED BY <3>1, <3>2
  <2> HIDE DEF placed, k
  <2> QED BY <1>1, <1>3, <1>8, <1>12, <2>3, <2>4, <2>5, <2>6, <2>7 DEF PlacedAll, Before
<1> QED BY <1>10, <1>11, <1>12 DEF Place

\* Every step keeps all this.
LEMMA JustifiedStep ==
  ParsedInv /\ PlacedInv /\ DerivedInv /\ JustifiedInv /\ [Next]_vars => JustifiedInv'
<1> SUFFICES ASSUME ParsedInv, PlacedInv, DerivedInv, JustifiedInv, [Next]_vars
             PROVE  JustifiedInv'
  OBVIOUS
<1>a. ASSUME UNCHANGED <<input, steps, rest, kept, dropped>> PROVE UNCHANGED PlacedAll
  BY <1>a DEF PlacedAll, DroppedFor, InRun, RunStart, RunEnd, Before
<1>1. CASE BlankLine \/ BadLine \/ ParseEnds
  <2>1. UNCHANGED <<input, steps, rest, kept, dropped>>
    BY <1>1 DEF BlankLine, BadLine, ParseEnds
  <2>2. pc' \notin {"place", "slice"} /\ outcome' # "derived"
    BY <1>1 DEF BlankLine, BadLine, ParseEnds, End, DerivedInv
  <2>3. pc' \in {"parse", "gate"} => pc \in {"parse", "gate"}
    BY <1>1 DEF BlankLine, BadLine, ParseEnds, End
  <2> QED BY <2>1, <2>2, <2>3 DEF JustifiedInv
<1>2. CASE StepLine
  <2> DEFINE l == input.file[line]
  <2>1. /\ steps' = steps \cup {l} /\ \A s \in steps : s.step_id # l.step_id
        /\ UNCHANGED <<input, pc, kept, dropped, outcome>> /\ pc = "parse"
    BY <1>2 DEF StepLine, Refused
  <2>2. IsFiniteSet(steps')
    <3>1. IsFiniteSet(steps)
      BY DEF JustifiedInv
    <3> HIDE DEF l
    <3> QED BY <2>1, <3>1, FS_AddElement
  <2>3. outcome' # "derived"
    BY <2>1 DEF DerivedInv
  <2> HIDE DEF l
  <2> QED BY <2>1, <2>2, <2>3 DEF JustifiedInv
<1>3. CASE Gate
  <2>1. UNCHANGED <<input, steps, kept, dropped>> /\ kept = <<>> /\ dropped = <<>>
    BY <1>3 DEF Gate, JustifiedInv
  <2>2. CASE Withheld
    <3>1. pc' = "end" /\ outcome' = "withheld"
      BY <1>3, <2>2 DEF Gate, End
    <3> QED BY <2>1, <3>1 DEF JustifiedInv
  <2>3. CASE ~Withheld
    <3>1. pc' = "place" /\ rest' = steps' /\ UNCHANGED outcome
      BY <1>3, <2>3 DEF Gate
    <3>2. outcome' # "derived"
      BY <1>3, <3>1 DEF Gate, DerivedInv
    <3>3. input.anchor \in Nat
      BY <2>3 DEF Withheld, ParsedInv, Inputs
    <3>4. (steps \ rest)' = {} /\ Cardinality({}) = 0
      BY <3>1, FS_EmptySet
    <3>5. /\ Len(<<>>) = 0 /\ DOMAIN <<>> = {}
      OBVIOUS
    <3>6. PlacedAll'
      <4>1. kept' = <<>> /\ dropped' = <<>>
        BY <2>1
      <4>2. DOMAIN kept' = {} /\ DOMAIN dropped' = {}
        BY <4>1, <3>5
      <4>3. Len(kept') + Len(dropped') = Cardinality((steps \ rest)')
        <5>1. Len(kept') = 0 /\ Len(dropped') = 0
          BY <4>1, <3>5
        <5>2. Cardinality((steps \ rest)') = 0
          BY <3>4
        <5> QED BY <5>1, <5>2
      <4> QED BY <4>2, <4>3, <3>4 DEF PlacedAll
    <3> QED BY <2>1, <3>1, <3>2, <3>3, <3>6 DEF JustifiedInv
  <2> QED BY <2>2, <2>3
<1>4. CASE PlaceNext
  <2>1. PICK s \in rest : /\ \A r \in rest \ {s} : Before(s, r)
                          /\ rest' = rest \ {s} /\ Place(s)
    BY <1>4 DEF PlaceNext
  <2>2. UNCHANGED <<input, pc, steps, outcome>> /\ pc = "place"
    BY <1>4 DEF PlaceNext
  <2>3. PlacedAll /\ IsFiniteSet(steps)
    BY <2>2 DEF JustifiedInv
  <2>4. PlacedAll'
    BY <2>1, <2>2, <2>3, PlacingTraced
  <2>5. outcome # "derived"
    BY <2>2 DEF DerivedInv
  <2> QED BY <2>2, <2>4, <2>5 DEF JustifiedInv
<1>5. CASE PlaceEnds \/ Slice
  <2>1. /\ UNCHANGED <<input, steps, rest, kept, dropped>> /\ rest = {}
        /\ pc \in {"place", "slice"} /\ pc' \in {"slice", "end"}
    BY <1>5 DEF PlaceEnds, Slice, End, JustifiedInv
  <2>2. UNCHANGED PlacedAll
    BY <2>1, <1>a
  <2> QED BY <2>1, <2>2 DEF JustifiedInv
<1>6. CASE UNCHANGED vars
  <2>1. UNCHANGED <<input, steps, rest, kept, dropped, pc, outcome>>
    BY <1>6 DEF vars
  <2>2. UNCHANGED PlacedAll
    BY <2>1, <1>a
  <2> QED BY <2>1, <2>2 DEF JustifiedInv
<1> QED BY <1>1, <1>2, <1>3, <1>4, <1>5, <1>6 DEF Next

\* When none is left, every step is kept or dropped as it should be.
LEMMA AllJustified ==
  ParsedInv /\ PlacedInv /\ JustifiedInv => PlacementJustified
<1> SUFFICES ASSUME ParsedInv, PlacedInv, JustifiedInv, outcome = "derived"
             PROVE  PlacementJustified
  BY DEF PlacementJustified
<1> DEFINE keptSteps == {kept[i].step : i \in DOMAIN kept}
           reason(s) == {dropped[i].reason : i \in {k \in DOMAIN dropped :
                                                      dropped[k].step_id = s.step_id}}
           overlapped(s) == \E k \in keptSteps : Before(k, s) /\ s.t_start < k.t_end
<1>1. PlacedAll /\ rest = {} /\ steps \ rest = steps /\ input.anchor \in Nat
  BY DEF JustifiedInv
<1>2. Len(kept) + Len(dropped) = Cardinality(steps)
  BY <1>1 DEF PlacedAll
<1>3. ASSUME NEW s \in keptSteps PROVE InRun(s) /\ ~overlapped(s)
  <2>1. PICK b \in DOMAIN kept : kept[b].step = s
    BY <1>3
  <2>2. InRun(s)
    BY <2>1, <1>1 DEF PlacedAll
  <2>3. ASSUME NEW k \in keptSteps, Before(k, s), s.t_start < k.t_end PROVE FALSE
    <3>1. PICK a \in DOMAIN kept : kept[a].step = k
      BY <2>3
    <3>2. kept \in Seq(KeptSteps)
      BY DEF PlacedInv
    <3>3. kept[a] \in KeptSteps /\ kept[b] \in KeptSteps /\ a \in Nat /\ b \in Nat
      BY <3>2, ElementOfSeq
    <3>4. k \in Steps /\ s \in Steps
      BY <2>1, <3>1, <3>3 DEF KeptSteps
    <3>5. a < b
      <4>1. b < a => Before(s, k)
        BY <2>1, <3>1, <1>1 DEF PlacedAll
      <4>2. ~Before(s, k) /\ k # s
        BY <2>3, <3>4 DEF Before, Steps
      <4> QED BY <2>1, <3>1, <3>3, <4>1, <4>2
    <3>6. kept[a].end <= kept[b].start
      BY <3>5 DEF PlacedInv
    <3>7. kept[a].end = k.t_end - input.anchor /\ kept[b].start = s.t_start - input.anchor
      BY <2>1, <3>1, <1>1 DEF PlacedAll
    <3>8. k.t_end <= s.t_start
      BY <3>4, <3>6, <3>7, <1>1 DEF Steps
    <3> QED BY <2>3, <3>4, <3>8 DEF Steps
  <2> QED BY <2>2, <2>3
<1>4. ASSUME NEW s \in steps, NEW i \in DOMAIN dropped, dropped[i].step_id = s.step_id
      PROVE  \/ dropped[i].reason = "outside_run_window" /\ ~InRun(s)
             \/ dropped[i].reason = "overlaps_preceding_step" /\ InRun(s) /\ overlapped(s)
  <2>1. PICK p \in steps : p.step_id = dropped[i].step_id /\ DroppedFor(p, dropped[i].reason)
    BY <1>1 DEF PlacedAll
  <2>2. p = s
    BY <2>1, <1>4 DEF JustifiedInv
  <2> QED BY <2>1, <2>2 DEF DroppedFor
<1>5. ASSUME NEW s \in steps, s \notin keptSteps
      PROVE  \E i \in DOMAIN dropped : dropped[i].step_id = s.step_id
  BY <1>1, <1>5 DEF PlacedAll
<1>6. ASSUME NEW s \in steps, ~InRun(s) PROVE reason(s) = {"outside_run_window"}
  <2>1. s \notin keptSteps
    BY <1>3, <1>6
  <2>2. \E i \in DOMAIN dropped : dropped[i].step_id = s.step_id
    BY <1>5, <2>1
  <2>3. \A i \in DOMAIN dropped :
          dropped[i].step_id = s.step_id => dropped[i].reason = "outside_run_window"
    BY <1>4, <1>6
  <2> QED BY <2>2, <2>3
<1>7. ASSUME NEW s \in steps, InRun(s), overlapped(s)
      PROVE  reason(s) = {"overlaps_preceding_step"}
  <2>1. s \notin keptSteps
    BY <1>3, <1>7
  <2>2. \E i \in DOMAIN dropped : dropped[i].step_id = s.step_id
    BY <1>5, <2>1
  <2>3. \A i \in DOMAIN dropped :
          dropped[i].step_id = s.step_id => dropped[i].reason = "overlaps_preceding_step"
    BY <1>4, <1>7
  <2> QED BY <2>2, <2>3
<1>8. ASSUME NEW s \in steps, InRun(s), ~overlapped(s) PROVE s \in keptSteps
  BY <1>4, <1>5, <1>8
<1>9. \A s \in steps :
        /\ ~InRun(s) => reason(s) = {"outside_run_window"}
        /\ InRun(s) /\ overlapped(s) => reason(s) = {"overlaps_preceding_step"}
        /\ InRun(s) /\ ~overlapped(s) => s \in keptSteps
  BY <1>6, <1>7, <1>8
<1>10. \A s \in steps :
         CASE ~InRun(s) -> reason(s) = {"outside_run_window"}
           [] InRun(s) /\ overlapped(s) -> reason(s) = {"overlaps_preceding_step"}
           [] OTHER -> s \in keptSteps
  <2> HIDE DEF reason, overlapped, keptSteps
  <2> QED BY <1>9
<1> QED BY <1>2, <1>10 DEF PlacementJustified, Before

(* Of every step file, each step is accounted for once, and one in the run *)
(* is dropped only for a kept step that precedes and runs into it.         *)
THEOREM EveryPlacementJustified == Spec => []PlacementJustified
<1>1. Init => JustifiedInv
  BY FS_EmptySet DEF Init, JustifiedInv
<1>2. /\ ParsedInv /\ PlacedInv /\ DerivedInv /\ JustifiedInv /\ [Next]_vars => JustifiedInv'
      /\ ParsedInv /\ PlacedInv /\ JustifiedInv => PlacementJustified
  BY JustifiedStep, AllJustified
<1>3. Spec => []JustifiedInv
  BY <1>1, <1>2, PlacementCorrect, DerivedCorrect, PTL DEF Spec
<1> QED BY <1>2, <1>3, PlacementCorrect, PTL

=============================================================================
