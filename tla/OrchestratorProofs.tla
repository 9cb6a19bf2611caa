------------------------- MODULE OrchestratorProofs -------------------------
(***************************************************************************)
(* For every set of loops: the loops keep their types, and a loop begins   *)
(* at most one sample after its cancel.  For every set of inputs: the      *)
(* teardown of a run loses no loop.  Main waits only for loops it has      *)
(* signalled, a report comes out only when every loop has ended and every  *)
(* timeline has been collected, and both paths of main are profiling runs. *)
(***************************************************************************)
EXTENDS Orchestrator, TLAPS

-----------------------------------------------------------------------------
(* The loops by themselves (module SamplingLoop).                          *)

\* The loops start with their types.
LEMMA LoopTypeInit == LoopInit => LoopTypeOK
BY DEF LoopInit, LoopTypeOK

\* Every step of the loops keeps the types.
LEMMA LoopTypeStep ==
  ASSUME LoopTypeOK, [LoopNext]_loopVars
  PROVE  LoopTypeOK'
<1> USE DEF LoopTypeOK, Running, Ended
<1>1. ASSUME NEW l \in Loops, Spawn(l)
      PROVE  LoopTypeOK'
  BY <1>1 DEF Spawn, Goto
<1>2. ASSUME NEW l \in Loops, SendCancel(l)
      PROVE  LoopTypeOK'
  BY <1>2 DEF SendCancel
<1>3. ASSUME NEW l \in Loops, LoopStep(l)
      PROVE  LoopTypeOK'
  <2>1. CASE ClientFails(l)
    BY <2>1 DEF ClientFails, Goto
  <2>2. CASE EnterLoop(l)
    BY <2>2 DEF EnterLoop, Goto
  <2>3. CASE PollCancel(l)
    BY <2>3 DEF PollCancel, Goto
  <2>4. CASE TickPending(l)
    BY <2>4 DEF TickPending, Goto
  <2>5. CASE BeginSample(l)
    BY <2>5 DEF BeginSample, Goto
  <2>6. CASE FinishSample(l)
    BY <2>6 DEF FinishSample, Goto
  <2>7. CASE CloseEnergyWindow(l)
    BY <2>7 DEF CloseEnergyWindow, Goto
  <2> QED
    BY <1>3, <2>1, <2>2, <2>3, <2>4, <2>5, <2>6, <2>7 DEF LoopStep
<1>4. ASSUME NEW l \in Loops, Abort(l)
      PROVE  LoopTypeOK'
  BY <1>4 DEF Abort
<1>5. CASE DropSenders
  BY <1>5 DEF DropSenders
<1>6. CASE UNCHANGED loopVars
  BY <1>6 DEF loopVars
<1> QED
  BY <1>1, <1>2, <1>3, <1>4, <1>5, <1>6 DEF LoopNext

(* The loops keep their types under any orchestrator that spawns, signals  *)
(* and drops as main.rs does.                                              *)
THEOREM LoopTypeCorrect == LoopSpec => []LoopTypeOK
<1>1. LoopInit => LoopTypeOK
  BY LoopTypeInit
<1>2. LoopTypeOK /\ [LoopNext]_loopVars => LoopTypeOK'
  BY LoopTypeStep
<1> QED
  BY <1>1, <1>2, PTL DEF LoopSpec

\* No loop is late at the start.
LEMMA LateInit == LoopInit => LateInv
<1> SUFFICES ASSUME LoopInit, NEW l \in Loops
             PROVE  /\ late[l] <= 1
                    /\ late[l] = 1 => cancel[l] # "open"
                    /\ task[l] \in {"absent", "spawned", "polled"} => late[l] = 0
  BY DEF LateInv
<1>1. late[l] = 0
  BY DEF LoopInit
<1> QED
  BY <1>1

\* Every step keeps the reason why no loop begins a second late sample.
LEMMA LateStep ==
  ASSUME LoopTypeOK, LateInv, [LoopNext]_loopVars
  PROVE  LateInv'
<1> USE DEF LoopTypeOK, LateInv
<1>1. ASSUME NEW l \in Loops, Spawn(l)
      PROVE  LateInv'
  BY <1>1 DEF Spawn, Goto
<1>2. ASSUME NEW l \in Loops, SendCancel(l)
      PROVE  LateInv'
  BY <1>2 DEF SendCancel
<1>3. ASSUME NEW l \in Loops, LoopStep(l)
      PROVE  LateInv'
  <2>1. CASE ClientFails(l)
    BY <2>1 DEF ClientFails, Goto
  <2>2. CASE EnterLoop(l)
    BY <2>2 DEF EnterLoop, Goto
  <2>3. CASE PollCancel(l)
    BY <2>3 DEF PollCancel, Goto
  <2>4. CASE TickPending(l)
    BY <2>4 DEF TickPending, Goto
  <2>5. CASE BeginSample(l)
    BY <2>5 DEF BeginSample, Goto
  <2>6. CASE FinishSample(l)
    BY <2>6 DEF FinishSample, Goto
  <2>7. CASE CloseEnergyWindow(l)
    BY <2>7 DEF CloseEnergyWindow, Goto
  <2> QED
    BY <1>3, <2>1, <2>2, <2>3, <2>4, <2>5, <2>6, <2>7 DEF LoopStep
<1>4. ASSUME NEW l \in Loops, Abort(l)
      PROVE  LateInv'
  BY <1>4 DEF Abort
<1>5. CASE DropSenders
  BY <1>5 DEF DropSenders
<1>6. CASE UNCHANGED loopVars
  BY <1>6 DEF loopVars
<1> QED
  BY <1>1, <1>2, <1>3, <1>4, <1>5, <1>6 DEF LoopNext

(* Whatever the number of loops and however their ticks, cancels, dropped  *)
(* senders and aborts interleave, no loop begins more than one sample      *)
(* after its cancel.                                                       *)
THEOREM LateSamplesBounded == LoopSpec => []AtMostOneLateSample
<1>1. LoopInit => LateInv
  BY LateInit
<1>2. LoopTypeOK /\ LateInv /\ [LoopNext]_loopVars => LateInv'
  BY LateStep
<1>3. LateInv => AtMostOneLateSample
  BY DEF LateInv, AtMostOneLateSample
<1> QED
  BY <1>1, <1>2, <1>3, LoopTypeCorrect, PTL DEF LoopSpec

-----------------------------------------------------------------------------
(* The orchestrator.                                                       *)

Programs == {ProbeProgram, SampleOnlyProgram}

-----------------------------------------------------------------------------
(* Facts about the two programs.                                           *)

\* A program ends at its report, and only there.
LEMMA ReportIsLast ==
  ASSUME NEW P \in Programs, NEW k \in 1..Len(P)
  PROVE  /\ P[k].op = "report" <=> k = Len(P)
         /\ P[k].op # "report" => k + 1 \in 1..Len(P)
<1>1. CASE P = ProbeProgram
  BY <1>1 DEF ProbeProgram, Op
<1>2. CASE P = SampleOnlyProgram
  BY <1>2 DEF SampleOnlyProgram, Op
<1> QED
  BY <1>1, <1>2 DEF Programs

\* Every loop is joined before the report.
LEMMA EveryLoopIsJoined ==
  ASSUME NEW P \in Programs, NEW l \in Loops
  PROVE  \E i \in 1..(Len(P)-1) : P[i] = Op("join", l)
<1>1. CASE P = ProbeProgram
  <2>1. /\ P[9] = Op("join", Sysmon) /\ P[11] = Op("join", Gpu)
        /\ P[16] = Op("join", Kv) /\ P[17] = Op("join", Phase)
        /\ P[18] = Op("join", SpecDec)
    BY <1>1 DEF ProbeProgram
  <2>2. Len(P) = 21
    BY <1>1 DEF ProbeProgram
  <2> QED
    BY <2>1, <2>2, OrchestratorAssumption
<1>2. CASE P = SampleOnlyProgram
  <2>1. /\ P[11] = Op("join", Sysmon) /\ P[13] = Op("join", Gpu)
        /\ P[17] = Op("join", Kv) /\ P[18] = Op("join", Phase)
        /\ P[19] = Op("join", SpecDec)
    BY <1>2 DEF SampleOnlyProgram
  <2>2. Len(P) = 23
    BY <1>2 DEF SampleOnlyProgram
  <2> QED
    BY <2>1, <2>2, OrchestratorAssumption
<1> QED
  BY <1>1, <1>2 DEF Programs

\* A loop is cancelled before it is joined.
LEMMA CancelBeforeJoin ==
  ASSUME NEW P \in Programs, NEW k \in 1..Len(P), NEW l \in Loops,
         P[k] = Op("join", l)
  PROVE  \E i \in 1..Len(P) : i < k /\ P[i] = Op("cancel", l)
<1>1. CASE P = ProbeProgram
  <2>1. /\ P[8] = Op("cancel", Sysmon) /\ P[10] = Op("cancel", Gpu)
        /\ P[13] = Op("cancel", Kv) /\ P[14] = Op("cancel", Phase)
        /\ P[15] = Op("cancel", SpecDec)
    BY <1>1 DEF ProbeProgram
  <2>2. \/ k = 9 /\ l = Sysmon
        \/ k = 11 /\ l = Gpu
        \/ k \in 16..18 /\ l \in Scrapes
    BY <1>1, OrchestratorAssumption DEF ProbeProgram, Op
  <2>3. Len(P) = 21
    BY <1>1 DEF ProbeProgram
  <2> QED
    BY <2>1, <2>2, <2>3, OrchestratorAssumption
<1>2. CASE P = SampleOnlyProgram
  <2>1. /\ P[10] = Op("cancel", Sysmon) /\ P[12] = Op("cancel", Gpu)
        /\ P[14] = Op("cancel", Kv) /\ P[15] = Op("cancel", Phase)
        /\ P[16] = Op("cancel", SpecDec)
    BY <1>2 DEF SampleOnlyProgram
  <2>2. \/ k = 11 /\ l = Sysmon
        \/ k = 13 /\ l = Gpu
        \/ k \in 17..19 /\ l \in Scrapes
    BY <1>2, OrchestratorAssumption DEF SampleOnlyProgram, Op
  <2>3. Len(P) = 23
    BY <1>2 DEF SampleOnlyProgram
  <2> QED
    BY <2>1, <2>2, <2>3, OrchestratorAssumption
<1> QED
  BY <1>1, <1>2 DEF Programs

\* All three scrapes are cancelled before any of them is joined.
LEMMA CancelsBeforeScrapeJoins ==
  ASSUME NEW P \in Programs, NEW k \in 1..Len(P),
         NEW l \in Scrapes, NEW m \in Scrapes,
         P[k] = Op("join", l)
  PROVE  \E i \in 1..Len(P) : i < k /\ P[i] = Op("cancel", m)
<1>1. CASE P = ProbeProgram
  <2>1. /\ P[13] = Op("cancel", Kv) /\ P[14] = Op("cancel", Phase)
        /\ P[15] = Op("cancel", SpecDec)
    BY <1>1 DEF ProbeProgram
  <2>2. k \in 16..18
    <3>1. P[k].op = "join" /\ P[k].on \in Scrapes
      BY DEF Op
    <3>2. k \in {9, 11} \cup (16..18)
      BY <1>1, <3>1 DEF ProbeProgram, Op
    <3>3. P[9].on = Sysmon /\ P[11].on = Gpu
      BY <1>1 DEF ProbeProgram, Op
    <3> QED
      BY <3>1, <3>2, <3>3, OrchestratorAssumption, LoopsAssumption
  <2>3. Len(P) = 21
    BY <1>1 DEF ProbeProgram
  <2>4. \A i \in 13..15 : i \in 1..Len(P) /\ i < k
    BY <2>2, <2>3
  <2>5. CASE m = Kv
    BY <2>1, <2>4, <2>5
  <2>6. CASE m = Phase
    BY <2>1, <2>4, <2>6
  <2>7. CASE m = SpecDec
    BY <2>1, <2>4, <2>7
  <2> QED
    BY <2>5, <2>6, <2>7, OrchestratorAssumption
<1>2. CASE P = SampleOnlyProgram
  <2>1. /\ P[14] = Op("cancel", Kv) /\ P[15] = Op("cancel", Phase)
        /\ P[16] = Op("cancel", SpecDec)
    BY <1>2 DEF SampleOnlyProgram
  <2>2. k \in 17..19
    <3>1. P[k].op = "join" /\ P[k].on \in Scrapes
      BY DEF Op
    <3>2. k \in {11, 13} \cup (17..19)
      BY <1>2, <3>1 DEF SampleOnlyProgram, Op
    <3>3. P[11].on = Sysmon /\ P[13].on = Gpu
      BY <1>2 DEF SampleOnlyProgram, Op
    <3> QED
      BY <3>1, <3>2, <3>3, OrchestratorAssumption, LoopsAssumption
  <2>3. Len(P) = 23
    BY <1>2 DEF SampleOnlyProgram
  <2>4. \A i \in 14..16 : i \in 1..Len(P) /\ i < k
    BY <2>2, <2>3
  <2>5. CASE m = Kv
    BY <2>1, <2>4, <2>5
  <2>6. CASE m = Phase
    BY <2>1, <2>4, <2>6
  <2>7. CASE m = SpecDec
    BY <2>1, <2>4, <2>7
  <2> QED
    BY <2>5, <2>6, <2>7, OrchestratorAssumption
<1> QED
  BY <1>1, <1>2 DEF Programs

\* The LoRA read is started before it is joined, and only on the attach path.
LEMMA LoraStartsBeforeJoin ==
  ASSUME NEW P \in Programs, NEW k \in 1..Len(P), NEW i \in 1..Len(P),
         P[k] = Op("spawn_lora", "run"), P[i] = Op("join_lora", "run")
  PROVE  k < i /\ P = SampleOnlyProgram
<1>1. CASE P = ProbeProgram
  BY <1>1 DEF ProbeProgram, Op
<1>2. CASE P = SampleOnlyProgram
  <2>1. k = 9
    BY <1>2 DEF SampleOnlyProgram, Op
  <2>2. i = 22
    BY <1>2 DEF SampleOnlyProgram, Op
  <2> QED
    BY <1>2, <2>1, <2>2
<1> QED
  BY <1>1, <1>2 DEF Programs

\* Every loop is joined before the LoRA read is.
LEMMA LoopsAreJoinedBeforeLora ==
  ASSUME NEW P \in Programs, NEW k \in 1..Len(P), NEW l \in Loops,
         P[k] = Op("join_lora", "run")
  PROVE  \E i \in 1..Len(P) : i < k /\ P[i] = Op("join", l)
<1>1. CASE P = ProbeProgram
  BY <1>1 DEF ProbeProgram, Op
<1>2. CASE P = SampleOnlyProgram
  <2>1. k = 22
    BY <1>2 DEF SampleOnlyProgram, Op
  <2>2. /\ P[11] = Op("join", Sysmon) /\ P[13] = Op("join", Gpu)
        /\ P[17] = Op("join", Kv) /\ P[18] = Op("join", Phase)
        /\ P[19] = Op("join", SpecDec)
    BY <1>2 DEF SampleOnlyProgram
  <2>3. Len(P) = 23
    BY <1>2 DEF SampleOnlyProgram
  <2> QED
    BY <2>1, <2>2, <2>3, OrchestratorAssumption
<1> QED
  BY <1>1, <1>2 DEF Programs

\* The LoRA read belongs to the other path.
LEMMA ProbeHasNoLora ==
  ASSUME NEW k \in 1..Len(ProbeProgram)
  PROVE  ProbeProgram[k].op \notin {"spawn_lora", "join_lora"}
BY DEF ProbeProgram, Op

\* There it is awaited last, before the report.
LEMMA LoraIsJoined ==
  /\ SampleOnlyProgram[22] = Op("join_lora", "run")
  /\ Len(SampleOnlyProgram) = 23
BY DEF SampleOnlyProgram

\* The program of a run is one of the two.
LEMMA ProgramIsOne == Program \in Programs
BY DEF Program, Programs

-----------------------------------------------------------------------------
(* The run drives the loops as they expect.                                *)

\* Every step of a run is a step of the loops or leaves them alone.
LEMMA RunStepsLoops ==
  ASSUME [Next]_vars
  PROVE  [LoopNext]_loopVars
<1>1. ASSUME ReturnErr
      PROVE  LoopNext
  BY <1>1 DEF ReturnErr, LoopNext
<1>2. CASE MainStep
  <2>1. CASE CheckPid \/ RequirePid \/ CheckProbe \/ Derive \/ ReadSteps
    BY <1>1, <2>1 DEF CheckPid, RequirePid, CheckProbe, Derive, ReadSteps
  <2>2. ASSUME NEW l \in Loops, SpawnLoop(l) \/ CancelLoop(l) \/ JoinLoop(l)
        PROVE  [LoopNext]_loopVars
    BY <2>2 DEF SpawnLoop, CancelLoop, JoinLoop, LoopNext
  <2>3. CASE Sleep \/ SpawnLora \/ JoinLora \/ Report
    BY <2>3 DEF Sleep, SpawnLora, JoinLora, Report
  <2> QED
    BY <1>2, <2>1, <2>2, <2>3 DEF MainStep
<1>3. CASE ProbeEnds \/ LoraAnswers \/ ShutdownLora
  BY <1>3 DEF ProbeEnds, LoraAnswers, ShutdownLora
<1>4. ASSUME NEW l \in Loops, LoopRuns(l) \/ Shutdown(l)
      PROVE  [LoopNext]_loopVars
  BY <1>4 DEF LoopRuns, Shutdown, LoopNext
<1>5. CASE UNCHANGED vars
  BY <1>5 DEF vars, loopVars
<1> QED
  BY <1>2, <1>3, <1>4, <1>5 DEF Next

(* Whatever the inputs, and wherever main is, no loop of a run begins more *)
(* than one sample after its cancel.                                       *)
THEOREM RunLateSamplesBounded == Spec => []AtMostOneLateSample
<1>1. Init => LoopInit
  BY DEF Init
<1>2. LoopInit => LoopTypeOK /\ LateInv
  BY LoopTypeInit, LateInit
<1>3. LoopTypeOK /\ LateInv /\ [LoopNext]_loopVars => LoopTypeOK' /\ LateInv'
  BY LoopTypeStep, LateStep
<1>4. [Next]_vars => [LoopNext]_loopVars
  BY RunStepsLoops
<1>5. LateInv => AtMostOneLateSample
  BY DEF LateInv, AtMostOneLateSample
<1> QED
  BY <1>1, <1>2, <1>3, <1>4, <1>5, PTL DEF Spec

-----------------------------------------------------------------------------
(* Types.                                                                  *)

\* An operation that is not the report leaves pc inside the program.
LEMMA StepStaysInside ==
  ASSUME TypeOK, NEW op, NEW on, At(op, on), op # "report", Step
  PROVE  pc' \in 1..Len(Program)
<1>1. Program[pc].op = op
  BY DEF At, Op
<1> QED
  BY <1>1, ReportIsLast, ProgramIsOne DEF TypeOK, Step

\* A run starts with its types.
LEMMA TypeInit == Init => TypeOK
<1>1. 1 \in 1..Len(ProbeProgram) /\ 1 \in 1..Len(SampleOnlyProgram)
  BY DEF ProbeProgram, SampleOnlyProgram
<1> QED
  BY <1>1, LoopTypeInit DEF Init, TypeOK, Program

\* Every step of a run keeps the types.
LEMMA TypeStep ==
  ASSUME TypeOK, [Next]_vars
  PROVE  TypeOK'
<1>1. LoopTypeOK'
  BY LoopTypeStep, RunStepsLoops DEF TypeOK
<1>2. args' = args
  <2>1. ReturnErr => args' = args
    BY DEF ReturnErr
  <2> QED
    BY <2>1 DEF Next, vars, mainVars, MainStep, CheckPid, RequirePid, SpawnLoop,
      CancelLoop, JoinLoop, Sleep, SpawnLora, CheckProbe, Derive, ReadSteps,
      JoinLora, Report, ProbeEnds, LoraAnswers, LoopRuns, Shutdown, ShutdownLora
<1>3. Program' = Program
  BY <1>2 DEF Program, ProbeProgram, SampleOnlyProgram, Op
<1>4. pc' \in 1..Len(Program)
  <2>1. ASSUME UNCHANGED pc
        PROVE  pc' \in 1..Len(Program)
    BY <2>1 DEF TypeOK
  <2>2. ASSUME NEW op, NEW on, At(op, on), op # "report", Step \/ ReturnErr
        PROVE  pc' \in 1..Len(Program)
    BY <2>1, <2>2, StepStaysInside DEF ReturnErr
  <2>3. CASE CheckPid
    BY <2>2, <2>3 DEF CheckPid
  <2>4. CASE RequirePid
    BY <2>2, <2>4 DEF RequirePid
  <2>5. ASSUME NEW l \in Loops, SpawnLoop(l) \/ CancelLoop(l) \/ JoinLoop(l)
        PROVE  pc' \in 1..Len(Program)
    BY <2>2, <2>5 DEF SpawnLoop, CancelLoop, JoinLoop
  <2>6. CASE Sleep \/ SpawnLora \/ JoinLora \/ ProbeEnds
    BY <2>2, <2>6 DEF Sleep, SpawnLora, JoinLora, ProbeEnds
  <2>7. CASE CheckProbe \/ Derive \/ ReadSteps
    BY <2>2, <2>7 DEF CheckProbe, Derive, ReadSteps
  <2>8. CASE Report
    BY <2>1, <2>8 DEF Report
  <2>9. CASE LoraAnswers \/ ShutdownLora
    BY <2>1, <2>9 DEF LoraAnswers, ShutdownLora
  <2>10. ASSUME NEW l \in Loops, LoopRuns(l) \/ Shutdown(l)
         PROVE  pc' \in 1..Len(Program)
    BY <2>1, <2>10 DEF LoopRuns, Shutdown, mainVars
  <2>11. CASE UNCHANGED vars
    BY <2>1, <2>11 DEF vars
  <2> QED
    BY <2>3, <2>4, <2>5, <2>6, <2>7, <2>8, <2>9, <2>10, <2>11 DEF Next, MainStep
<1>5. /\ probe' \in {"pending", "ok", "failed"}
      /\ result' \in [Loops \cup {Lora} -> {"pending", "none", "some"}]
      /\ lora' \in {"absent", "reading", "observed", "read_failed", "aborted"}
      /\ outcome' \in {"none", "report", "error"}
  <2> USE DEF TypeOK
  <2>1. CASE CheckPid \/ RequirePid \/ CheckProbe \/ Derive \/ ReadSteps
    BY <2>1 DEF CheckPid, RequirePid, CheckProbe, Derive, ReadSteps, ReturnErr
  <2>2. ASSUME NEW l \in Loops, SpawnLoop(l) \/ CancelLoop(l) \/ JoinLoop(l)
        PROVE  <1>5!:
    BY <2>2 DEF SpawnLoop, CancelLoop, JoinLoop
  <2>3. CASE Sleep \/ SpawnLora \/ JoinLora \/ ProbeEnds \/ Report
    BY <2>3 DEF Sleep, SpawnLora, JoinLora, ProbeEnds, Report
  <2>4. CASE LoraAnswers \/ ShutdownLora
    BY <2>4 DEF LoraAnswers, ShutdownLora
  <2>5. ASSUME NEW l \in Loops, LoopRuns(l) \/ Shutdown(l)
        PROVE  <1>5!:
    BY <2>5 DEF LoopRuns, Shutdown, mainVars
  <2>6. CASE UNCHANGED vars
    BY <2>6 DEF vars
  <2> QED
    BY <2>1, <2>2, <2>3, <2>4, <2>5, <2>6 DEF Next, MainStep
<1> QED
  BY <1>1, <1>2, <1>3, <1>4, <1>5 DEF TypeOK

(* The state of a run keeps its types, and main never runs off the end of  *)
(* its program.                                                            *)
THEOREM TypeCorrect == Spec => []TypeOK
BY TypeInit, TypeStep, PTL DEF Spec

-----------------------------------------------------------------------------
(* Teardown.                                                               *)

\* The operations behind main, after a step and after a standstill.
LEMMA PassedStep ==
  ASSUME TypeOK, UNCHANGED args, NEW op, NEW on
  PROVE  /\ Step => ( Passed(op, on)' <=> Passed(op, on) \/ Program[pc] = Op(op, on) )
         /\ UNCHANGED pc => ( Passed(op, on)' <=> Passed(op, on) )
<1>1. Program' = Program
  BY DEF Program, ProbeProgram, SampleOnlyProgram, Op
<1>2. Op(op, on)' = Op(op, on)
  BY DEF Op
<1>3. pc \in 1..Len(Program)
  BY DEF TypeOK
<1>4. ASSUME NEW i \in 1..Len(Program)
      PROVE  i < pc + 1 <=> i < pc \/ i = pc
  BY <1>3, <1>4
<1>5. CASE Step
  <2>1. pc' = pc + 1
    BY <1>5 DEF Step
  <2>2. Passed(op, on)' <=> \E i \in 1..Len(Program) : i < pc + 1 /\ Program[i] = Op(op, on)
    BY <1>1, <1>2, <2>1 DEF Passed
  <2>3. @ <=> Passed(op, on) \/ Program[pc] = Op(op, on)
    BY <1>3, <1>4 DEF Passed
  <2>4. pc' # pc
    BY <1>3, <2>1
  <2> QED
    BY <2>2, <2>3, <2>4
<1>6. CASE UNCHANGED pc
  <2>1. ~Step
    BY <1>3, <1>6 DEF Step
  <2> QED
    BY <1>1, <1>2, <1>6, <2>1 DEF Passed
<1>7. CASE ~Step /\ ~UNCHANGED pc
  BY <1>7
<1> QED
  BY <1>5, <1>6, <1>7

\* At the start no operation is behind main.
LEMMA TeardownInit == Init => TeardownInv
<1> SUFFICES ASSUME Init
             PROVE  TeardownInv
  OBVIOUS
<1>1. TypeOK
  BY TypeInit
<1>2. ASSUME NEW op, NEW on
      PROVE  ~Passed(op, on)
  <2>1. \A i \in 1..Len(Program) : ~(i < pc)
    BY <1>1 DEF Init, TypeOK
  <2> QED
    BY <2>1 DEF Passed
<1>3. ASSUME NEW l \in Loops
      PROVE  LoopTornDown(l)
  BY <1>2, <1>3 DEF Init, LoopInit, LoopTornDown
<1> QED
  BY <1>2, <1>3 DEF Init, TeardownInv, LoraTornDown

\* A loop's own step, or its abort, moves a task that has not ended.
LEMMA LoopMoves ==
  ASSUME TypeOK, NEW m \in Loops, LoopStep(m) \/ Abort(m)
  PROVE  /\ task[m] \notin Ended \cup {"absent"}
         /\ task'[m] # "absent"
         /\ \A l \in Loops \ {m} : task'[l] = task[l]
         /\ UNCHANGED cancel
         /\ LoopStep(m) => task'[m] # "aborted"
<1> USE DEF TypeOK, LoopTypeOK, Ended
<1>1. CASE Abort(m)
  <2>1. task[m] \notin Ended \cup {"absent"}
    BY <1>1 DEF Abort
  <2>2. ~LoopStep(m) \/ task'[m] = "aborted"
    BY <1>1 DEF Abort
  <2>3. ASSUME LoopStep(m)
        PROVE  task'[m] # "aborted"
    BY <2>3 DEF LoopStep, Goto, ClientFails, EnterLoop, PollCancel, TickPending,
      BeginSample, FinishSample, CloseEnergyWindow
  <2> QED
    BY <1>1, <2>1, <2>3 DEF Abort
<1>2. CASE LoopStep(m)
  BY <1>2 DEF LoopStep, Goto, ClientFails, EnterLoop, PollCancel, TickPending,
    BeginSample, FinishSample, CloseEnergyWindow
<1> QED
  BY <1>1, <1>2

\* No step undoes what the operations behind main did to a loop.
LEMMA LoopTeardownStep ==
  ASSUME TypeOK, TeardownInv, [Next]_vars, NEW l \in Loops
  PROVE  LoopTornDown(l)'
<1>1. LoopTornDown(l)
  BY DEF TeardownInv
<1>2. ASSUME UNCHANGED args
      PROVE  Wanted(l)' <=> Wanted(l)
  BY <1>2 DEF Wanted
\* Main goes on, and the operation it leaves behind is about something else.
<1>3. ASSUME UNCHANGED <<args, outcome>>, UNCHANGED task[l], UNCHANGED cancel[l],
             UNCHANGED result[l], Step,
             Program[pc] # Op("cancel", l), Program[pc] # Op("join", l)
      PROVE  LoopTornDown(l)'
  BY <1>1, <1>2, <1>3, PassedStep DEF LoopTornDown
\* Main returns early.
<1>4. ASSUME ReturnErr
      PROVE  LoopTornDown(l)'
  BY <1>1, <1>2, <1>4, PassedStep
  DEF LoopTornDown, ReturnErr, DropSenders, TypeOK, LoopTypeOK
\* Main stands still and the loop's task and channel too.
<1>5. ASSUME UNCHANGED <<args, pc>>, UNCHANGED task[l], UNCHANGED cancel[l],
             UNCHANGED result[l], outcome' = "none" => outcome = "none"
      PROVE  LoopTornDown(l)'
  BY <1>1, <1>2, <1>5, PassedStep DEF LoopTornDown
<1>6. ASSUME NEW op, NEW on, At(op, on)
      PROVE  Program[pc] = Op(op, on) /\ outcome = "none"
  BY <1>6 DEF At
<1>0. ASSUME NEW op, NEW on, At(op, on), op # "cancel", op # "join"
      PROVE  Program[pc] # Op("cancel", l) /\ Program[pc] # Op("join", l)
  <2>1. Program[pc].op = op
    BY <1>0 DEF At, Op
  <2> QED
    BY <1>0, <2>1 DEF Op
<1>7. l # Lora /\ l \in Loops \cup {Lora}
  BY OrchestratorAssumption
<1> USE DEF TypeOK, LoopTypeOK
<1>8. CASE CheckPid \/ RequirePid \/ CheckProbe \/ Derive \/ ReadSteps
  <2>1. Program[pc] # Op("cancel", l) /\ Program[pc] # Op("join", l)
    BY <1>0, <1>8 DEF CheckPid, RequirePid, CheckProbe, Derive, ReadSteps
  <2>2. \/ ReturnErr
        \/ Step /\ UNCHANGED <<args, probe, result, lora, outcome, loopVars>>
    BY <1>8 DEF CheckPid, RequirePid, CheckProbe, Derive, ReadSteps
  <2> QED
    BY <1>3, <1>4, <2>1, <2>2 DEF loopVars
<1>9. ASSUME NEW m \in Loops, SpawnLoop(m)
      PROVE  LoopTornDown(l)'
  <2>1. CASE l = m /\ Wanted(l)
    <3>1. /\ task[l] = "absent" /\ task'[l] = "spawned"
          /\ UNCHANGED <<args, outcome, cancel, result>> /\ Step
      BY <1>9, <2>1 DEF SpawnLoop, Spawn, Goto
    <3>2. ~Passed("join", l)
      BY <1>1, <2>1, <3>1 DEF LoopTornDown, Ended
    <3>3. Program[pc] # Op("cancel", l) /\ Program[pc] # Op("join", l)
      BY <1>0, <1>9 DEF SpawnLoop
    <3> QED
      BY <1>1, <1>2, <2>1, <3>1, <3>2, <3>3, PassedStep DEF LoopTornDown
  <2>2. CASE ~(l = m /\ Wanted(l))
    <3>1. UNCHANGED task[l] /\ UNCHANGED cancel[l]
      BY <1>9, <2>2 DEF SpawnLoop, Spawn, Goto, loopVars
    <3>2. /\ UNCHANGED <<args, outcome, result>> /\ Step
          /\ Program[pc] # Op("cancel", l) /\ Program[pc] # Op("join", l)
      BY <1>0, <1>9 DEF SpawnLoop
    <3> QED
      BY <1>3, <3>1, <3>2
  <2> QED
    BY <2>1, <2>2
<1>10. ASSUME NEW m \in Loops, CancelLoop(m)
       PROVE  LoopTornDown(l)'
  <2>0. /\ UNCHANGED <<args, outcome, result, task>> /\ Step
        /\ Program[pc] = Op("cancel", m) /\ outcome = "none"
    BY <1>6, <1>10 DEF CancelLoop, SendCancel, loopVars
  <2>1. CASE l = m
    <3>1. Wanted(l) => cancel'[l] = "sent"
      BY <1>10, <2>1 DEF CancelLoop, SendCancel
    <3>2. ~Wanted(l) => cancel'[l] = cancel[l]
      BY <1>10, <2>1 DEF CancelLoop, loopVars
    <3>3. Program[pc] # Op("join", l)
      BY <2>0 DEF Op
    <3> QED
      BY <1>1, <1>2, <2>0, <3>1, <3>2, <3>3, PassedStep DEF LoopTornDown
  <2>2. CASE l # m
    <3>1. UNCHANGED cancel[l]
      BY <1>10, <2>2 DEF CancelLoop, SendCancel, loopVars
    <3> QED
      BY <1>3, <2>0, <2>2, <3>1 DEF Op
  <2> QED
    BY <2>1, <2>2
<1>11. ASSUME NEW m \in Loops, JoinLoop(m)
       PROVE  LoopTornDown(l)'
  <2>0. /\ UNCHANGED <<args, outcome, task, cancel>> /\ Step
        /\ Program[pc] = Op("join", m) /\ outcome = "none"
    BY <1>6, <1>11 DEF JoinLoop, loopVars
  <2>1. CASE l = m
    <3>1. /\ result'[l] = IF task[l] = "returned" THEN "some" ELSE "none"
          /\ Wanted(l) => task[l] \in Ended
      BY <1>7, <1>11, <2>1 DEF JoinLoop
    <3>2. Program[pc] # Op("cancel", l)
      BY <2>0 DEF Op
    <3> QED
      BY <1>1, <1>2, <2>0, <3>1, <3>2, PassedStep DEF LoopTornDown
  <2>2. CASE l # m
    <3>1. UNCHANGED result[l]
      BY <1>7, <1>11, <2>2 DEF JoinLoop
    <3> QED
      BY <1>3, <2>0, <2>2, <3>1 DEF Op
  <2> QED
    BY <2>1, <2>2
<1>12. CASE Sleep \/ SpawnLora \/ JoinLora \/ ProbeEnds
  <2>1. /\ UNCHANGED <<args, outcome, task, cancel>> /\ Step
        /\ UNCHANGED result[l]
    BY <1>7, <1>12 DEF Sleep, SpawnLora, JoinLora, ProbeEnds, loopVars
  <2>2. Program[pc] # Op("cancel", l) /\ Program[pc] # Op("join", l)
    BY <1>0, <1>12 DEF Sleep, SpawnLora, JoinLora, ProbeEnds
  <2> QED
    BY <1>3, <2>1, <2>2
<1>13. CASE Report \/ LoraAnswers \/ ShutdownLora
  BY <1>5, <1>13 DEF Report, LoraAnswers, ShutdownLora, loopVars
<1>14. ASSUME NEW m \in Loops, LoopRuns(m) \/ Shutdown(m)
       PROVE  LoopTornDown(l)'
  <2>1. /\ UNCHANGED <<args, pc, result, outcome>>
        /\ LoopStep(m) \/ (Abort(m) /\ outcome # "none")
    BY <1>14 DEF LoopRuns, Shutdown, mainVars
  <2>2. /\ task[m] \notin Ended \cup {"absent"}
        /\ \A x \in Loops \ {m} : task'[x] = task[x]
        /\ UNCHANGED cancel
        /\ LoopStep(m) => task'[m] # "aborted"
    BY <2>1, LoopMoves
  <2>3. CASE l # m
    BY <1>5, <2>1, <2>2, <2>3
  <2>4. CASE l = m
    <3>1. Wanted(l) /\ ~Passed("join", l)
      BY <1>1, <2>2, <2>4 DEF LoopTornDown
    <3> QED
      BY <1>1, <1>2, <2>1, <2>2, <2>4, <3>1, PassedStep DEF LoopTornDown
  <2> QED
    BY <2>3, <2>4
<1>15. CASE UNCHANGED vars
  BY <1>5, <1>15 DEF vars
<1> QED
  BY <1>8, <1>9, <1>10, <1>11, <1>12, <1>13, <1>14, <1>15 DEF Next, MainStep

\* No step undoes what the operations behind main did to the LoRA read.
LEMMA LoraTeardownStep ==
  ASSUME TypeOK, TeardownInv, [Next]_vars
  PROVE  LoraTornDown'
<1>1. LoraTornDown
  BY DEF TeardownInv
<1>2. UNCHANGED <<args, lora, outcome>> /\ UNCHANGED result[Lora] /\ Step
        /\ Program[pc] # Op("join_lora", "run")
      => LoraTornDown'
  BY <1>1, PassedStep DEF LoraTornDown
<1>3. UNCHANGED <<args, pc, lora>> /\ UNCHANGED result[Lora]
        /\ (outcome' = "none" => outcome = "none")
      => LoraTornDown'
  BY <1>1, PassedStep DEF LoraTornDown
<1>4. ReturnErr => LoraTornDown'
  BY <1>3 DEF ReturnErr
<1>5. ASSUME NEW op, NEW on, At(op, on)
      PROVE  /\ outcome = "none" /\ Program[pc] = Op(op, on)
             /\ op # "join_lora" => Program[pc] # Op("join_lora", "run")
  <2>1. Program[pc].op = op
    BY <1>5 DEF At, Op
  <2> QED
    BY <1>5, <2>1 DEF At, Op
<1> USE DEF TypeOK
<1>6. CASE CheckPid \/ RequirePid \/ CheckProbe \/ Derive \/ ReadSteps
  <2>1. Program[pc] # Op("join_lora", "run")
    BY <1>5, <1>6 DEF CheckPid, RequirePid, CheckProbe, Derive, ReadSteps
  <2>2. \/ ReturnErr
        \/ Step /\ UNCHANGED <<args, probe, result, lora, outcome, loopVars>>
    BY <1>6 DEF CheckPid, RequirePid, CheckProbe, Derive, ReadSteps
  <2> QED
    BY <1>2, <1>4, <2>1, <2>2
<1>7. ASSUME NEW l \in Loops, SpawnLoop(l) \/ CancelLoop(l) \/ JoinLoop(l)
      PROVE  LoraTornDown'
  <2>1. Program[pc] # Op("join_lora", "run")
    BY <1>5, <1>7 DEF SpawnLoop, CancelLoop, JoinLoop
  <2>2. UNCHANGED <<args, lora, outcome>> /\ UNCHANGED result[Lora] /\ Step
    BY <1>7, OrchestratorAssumption DEF SpawnLoop, CancelLoop, JoinLoop
  <2> QED
    BY <1>2, <2>1, <2>2
<1>8. CASE Sleep \/ ProbeEnds
  <2>1. Program[pc] # Op("join_lora", "run")
    BY <1>5, <1>8 DEF Sleep, ProbeEnds
  <2>2. UNCHANGED <<args, lora, outcome>> /\ UNCHANGED result[Lora] /\ Step
    BY <1>8 DEF Sleep, ProbeEnds
  <2> QED
    BY <1>2, <2>1, <2>2
<1>9. CASE SpawnLora
  <2>1. /\ Program[pc] = Op("spawn_lora", "run") /\ outcome = "none"
        /\ Program[pc] # Op("join_lora", "run")
    BY <1>5, <1>9 DEF SpawnLora
  <2>2. /\ UNCHANGED <<args, outcome, result>> /\ Step
        /\ lora' \in {"reading", lora}
    BY <1>9 DEF SpawnLora
  <2>3. ~Passed("join_lora", "run") /\ args.sample_only
    <3>1. Program = SampleOnlyProgram /\ args.sample_only
      BY <2>1, ProbeHasNoLora DEF Program, Op
    <3>2. ASSUME NEW i \in 1..Len(Program), Program[i] = Op("join_lora", "run")
          PROVE  ~(i < pc)
      <4>1. pc < i
        BY <2>1, <3>2, LoraStartsBeforeJoin, ProgramIsOne
      <4> QED
        BY <4>1
    <3> QED
      BY <3>1, <3>2 DEF Passed
  <2> QED
    BY <1>1, <2>1, <2>2, <2>3, PassedStep DEF LoraTornDown
<1>10. CASE JoinLora
  <2>1. /\ UNCHANGED <<args, outcome, lora>> /\ Step /\ lora # "reading"
        /\ result'[Lora] = IF lora = "absent" THEN "none" ELSE "some"
    BY <1>10 DEF JoinLora
  <2>2. Program[pc] = Op("join_lora", "run") /\ outcome = "none"
    BY <1>5, <1>10 DEF JoinLora
  <2>3. args.sample_only
    BY <2>2, ProbeHasNoLora DEF Program, Op
  <2> QED
    BY <1>1, <2>1, <2>2, <2>3, PassedStep DEF LoraTornDown
<1>11. CASE Report
  BY <1>3, <1>11 DEF Report
<1>12. CASE LoraAnswers \/ ShutdownLora
  <2>1. UNCHANGED <<args, pc, result, outcome>> /\ lora = "reading"
    BY <1>12 DEF LoraAnswers, ShutdownLora
  <2>2. ~Passed("join_lora", "run") /\ args.sample_only
    BY <1>1, <2>1 DEF LoraTornDown
  <2>3. outcome = "none" => lora' # "aborted"
    BY <1>12 DEF LoraAnswers, ShutdownLora
  <2> QED
    BY <2>1, <2>2, <2>3, PassedStep DEF LoraTornDown
<1>13. ASSUME NEW m \in Loops, LoopRuns(m) \/ Shutdown(m)
       PROVE  LoraTornDown'
  BY <1>3, <1>13 DEF LoopRuns, Shutdown, mainVars
<1>14. CASE UNCHANGED vars
  BY <1>3, <1>14 DEF vars
<1> QED
  BY <1>6, <1>7, <1>8, <1>9, <1>10, <1>11, <1>12, <1>13, <1>14 DEF Next, MainStep

\* A report comes from the last operation, and main stays there.
LEMMA ReportStep ==
  ASSUME TypeOK, TeardownInv, [Next]_vars
  PROVE  (outcome = "report" => pc = Len(Program))'
<1>1. args' = args /\ (outcome = "none" \/ pc' = pc)
  BY DEF Next, vars, mainVars, MainStep, CheckPid, RequirePid, SpawnLoop,
    CancelLoop, JoinLoop, Sleep, SpawnLora, CheckProbe, Derive, ReadSteps,
    JoinLora, Report, ProbeEnds, LoraAnswers, LoopRuns, Shutdown, ShutdownLora,
    ReturnErr, At
<1>2. Program' = Program
  BY <1>1 DEF Program, ProbeProgram, SampleOnlyProgram, Op
<1>3. outcome' # outcome => Report \/ outcome' = "error"
  BY DEF Next, vars, mainVars, MainStep, CheckPid, RequirePid, SpawnLoop,
    CancelLoop, JoinLoop, Sleep, SpawnLora, CheckProbe, Derive, ReadSteps,
    JoinLora, Report, ProbeEnds, LoraAnswers, LoopRuns, Shutdown, ShutdownLora,
    ReturnErr
<1>4. Report => pc' = pc /\ Program[pc].op = "report"
  BY DEF Report, At, Op
<1>5. Program[pc].op = "report" => pc = Len(Program)
  BY ReportIsLast, ProgramIsOne DEF TypeOK
<1> QED
  BY <1>1, <1>2, <1>3, <1>4, <1>5 DEF TeardownInv

\* Every step keeps what a passed operation established.
LEMMA TeardownStep ==
  ASSUME TypeOK, TeardownInv, [Next]_vars
  PROVE  TeardownInv'
BY LoopTeardownStep, LoraTeardownStep, ReportStep DEF TeardownInv

\* It holds of every run.
LEMMA TeardownCorrect == Spec => [](TypeOK /\ TeardownInv)
<1>1. TypeOK /\ TeardownInv /\ [Next]_vars => TypeOK' /\ TeardownInv'
  BY TypeStep, TeardownStep
<1> QED
  BY <1>1, TypeInit, TeardownInit, PTL DEF Spec

\* The teardown invariant is why a report is complete ...
LEMMA TornDownReportIsComplete ==
  ASSUME TypeOK, TeardownInv
  PROVE  ReportComplete
<1> SUFFICES ASSUME outcome = "report"
             PROVE  /\ \A l \in Loops :
                         /\ task[l] \notin Running
                         /\ result[l] = "some" <=> task[l] = "returned"
                    /\ lora # "reading"
                    /\ result[Lora] = "some" <=> lora \in {"observed", "read_failed"}
  BY DEF ReportComplete
<1>1. pc = Len(Program)
  BY DEF TeardownInv
<1>2. ASSUME NEW l \in Loops
      PROVE  /\ task[l] \notin Running
             /\ result[l] = "some" <=> task[l] = "returned"
  <2>1. Passed("join", l)
    <3>1. PICK i \in 1..(Len(Program)-1) : Program[i] = Op("join", l)
      BY EveryLoopIsJoined, ProgramIsOne
    <3>2. i \in 1..Len(Program) /\ i < pc
      BY <1>1 DEF TypeOK
    <3> QED
      BY <3>1, <3>2 DEF Passed
  <2>2. LoopTornDown(l)
    BY DEF TeardownInv
  <2>3. task[l] \in Ended \cup {"absent"}
    BY <2>1, <2>2 DEF LoopTornDown
  <2> QED
    BY <2>1, <2>2, <2>3 DEF LoopTornDown, Ended, Running
<1>3. /\ lora # "reading"
      /\ result[Lora] = "some" <=> lora \in {"observed", "read_failed"}
  <2>1. CASE ~args.sample_only
    BY <2>1 DEF TeardownInv, LoraTornDown
  <2>2. CASE args.sample_only
    <3>1. Program = SampleOnlyProgram
      BY <2>2 DEF Program
    <3>2. Passed("join_lora", "run")
      BY <1>1, <3>1, LoraIsJoined DEF Passed
    <3> QED
      BY <3>2 DEF TeardownInv, LoraTornDown
  <2> QED
    BY <2>1, <2>2
<1> QED
  BY <1>2, <1>3

\* ... and why main waits only for loops it has signalled.
LEMMA TornDownJoinsAfterCancels ==
  ASSUME TypeOK, TeardownInv
  PROVE  JoinsAfterCancels
<1>1. ASSUME NEW l \in Loops, Awaits(l)
      PROVE  /\ outcome = "none" /\ Program[pc] = Op("join", l)
             /\ pc \in 1..Len(Program) /\ Wanted(l)
  BY <1>1 DEF Awaits, At, TypeOK, TeardownInv, LoopTornDown, Running
<1>2. ASSUME NEW m \in Loops, Wanted(m), outcome = "none", Passed("cancel", m)
      PROVE  cancel[m] = "sent"
  BY <1>2 DEF TeardownInv, LoopTornDown, TypeOK, LoopTypeOK
<1>3. ASSUME NEW l \in Loops, Awaits(l)
      PROVE  cancel[l] = "sent"
  <2>1. Passed("cancel", l)
    BY <1>1, <1>3, CancelBeforeJoin, ProgramIsOne DEF Passed
  <2> QED
    BY <1>1, <1>2, <1>3, <2>1
<1>4. ASSUME NEW l \in Scrapes, Awaits(l), NEW m \in Scrapes
      PROVE  cancel[m] = "sent"
  <2>1. l \in Loops /\ m \in Loops
    BY LoopsAssumption
  <2>2. Passed("cancel", m)
    BY <1>1, <1>4, <2>1, CancelsBeforeScrapeJoins, ProgramIsOne DEF Passed
  <2>3. Wanted(m) <=> Wanted(l)
    BY OrchestratorAssumption, LoopsAssumption DEF Wanted
  <2> QED
    BY <1>1, <1>2, <1>4, <2>1, <2>2, <2>3
<1>5. ASSUME NEW l \in Loops, At("join_lora", "run")
      PROVE  task[l] \notin Running
  <2>1. Program[pc] = Op("join_lora", "run") /\ pc \in 1..Len(Program)
    BY <1>5 DEF At, TypeOK
  <2>2. Passed("join", l)
    BY <2>1, LoopsAreJoinedBeforeLora, ProgramIsOne DEF Passed
  <2>3. task[l] \in Ended \cup {"absent"}
    BY <2>2 DEF TeardownInv, LoopTornDown
  <2> QED
    BY <2>3 DEF Ended, Running
<1> QED
  BY <1>3, <1>4, <1>5 DEF JoinsAfterCancels

(* A report is printed only when nothing the run spawned is still running, *)
(* and no timeline that a loop returned is missing from it.                *)
THEOREM ReportsAreComplete == Spec => []ReportComplete
<1>1. TypeOK /\ TeardownInv => ReportComplete
  BY TornDownReportIsComplete
<1> QED
  BY <1>1, TeardownCorrect, PTL

(* Main never waits for a loop it has not told to stop, nor for one scrape *)
(* before it has told all three: no join can deadlock.  And it comes to    *)
(* wait for the LoRA read only when every loop has ended.                  *)
THEOREM JoinsFollowCancels == Spec => []JoinsAfterCancels
<1>1. TypeOK /\ TeardownInv => JoinsAfterCancels
  BY TornDownJoinsAfterCancels
<1> QED
  BY <1>1, TeardownCorrect, PTL

-----------------------------------------------------------------------------
(* Errors.                                                                 *)

\* The operations that can return early.
Fallible == {"check_pid", "require_pid", "check_probe", "derive", "read_steps"}

\* A result of the probe lies behind main, and an error at the operation
\* that returned it.
ProbeInv ==
  /\ probe # "pending" => ~args.sample_only /\ Passed("run_probe", "run")
  /\ outcome = "error" => Program[pc].op \in Fallible

\* What can fail after the probe comes after the joins of both samplers.
LEMMA SamplersAreJoinedFirst ==
  ASSUME NEW i \in 1..Len(ProbeProgram), NEW k \in 1..Len(ProbeProgram), i < k,
         ProbeProgram[i] = Op("run_probe", "run"), ProbeProgram[k].op \in Fallible,
         NEW l \in {Sysmon, Gpu}
  PROVE  \E j \in 1..Len(ProbeProgram) : j < k /\ ProbeProgram[j] = Op("join", l)
<1>1. i = 7
  BY DEF ProbeProgram, Op
<1>2. k \in {1, 12, 19, 20}
  BY DEF ProbeProgram, Op, Fallible
<1>3. ProbeProgram[9] = Op("join", Sysmon) /\ ProbeProgram[11] = Op("join", Gpu)
  BY DEF ProbeProgram
<1>4. Len(ProbeProgram) = 21
  BY DEF ProbeProgram
<1> QED
  BY <1>1, <1>2, <1>3, <1>4

\* Only a run with a probe has the operation that ends it.
LEMMA RunProbeIsOfTheProbePath ==
  ASSUME NEW k \in 1..Len(SampleOnlyProgram)
  PROVE  SampleOnlyProgram[k] # Op("run_probe", "run")
BY DEF SampleOnlyProgram, Op

\* No probe has ended at first.
LEMMA ProbeInit == Init => ProbeInv
BY DEF Init, ProbeInv

\* Every step keeps where the result of a probe lies.
LEMMA ProbeStep ==
  ASSUME TypeOK, ProbeInv, [Next]_vars
  PROVE  ProbeInv'
<1>1. ASSUME UNCHANGED <<args, probe, outcome>>, Step \/ UNCHANGED pc, outcome # "error"
      PROVE  ProbeInv'
  BY <1>1, PassedStep DEF ProbeInv
<1>2. Program' = Program \/ args' # args
  BY DEF Program, ProbeProgram, SampleOnlyProgram, Op
<1>3. ASSUME UNCHANGED <<args, probe, outcome, pc>>
      PROVE  ProbeInv'
  BY <1>2, <1>3, PassedStep DEF ProbeInv
<1>4. ASSUME NEW op \in Fallible, NEW on, At(op, on), ReturnErr
      PROVE  ProbeInv'
  <2>1. Program[pc].op = op /\ UNCHANGED <<args, probe, pc>>
    BY <1>4 DEF At, Op, ReturnErr
  <2> QED
    BY <1>2, <2>1, PassedStep DEF ProbeInv
<1>5. CASE CheckPid \/ RequirePid \/ CheckProbe \/ Derive \/ ReadSteps
  <2>1. outcome = "none" /\ \E op \in Fallible : At(op, "run")
    BY <1>5 DEF CheckPid, RequirePid, CheckProbe, Derive, ReadSteps, Fallible, At
  <2>2. ReturnErr \/ (Step /\ UNCHANGED <<args, probe, outcome>>)
    BY <1>5 DEF CheckPid, RequirePid, CheckProbe, Derive, ReadSteps
  <2> QED
    BY <1>1, <1>4, <2>1, <2>2
<1>6. ASSUME NEW l \in Loops, SpawnLoop(l) \/ CancelLoop(l) \/ JoinLoop(l)
      PROVE  ProbeInv'
  BY <1>1, <1>6 DEF SpawnLoop, CancelLoop, JoinLoop, At
<1>7. CASE Sleep \/ SpawnLora \/ JoinLora
  BY <1>1, <1>7 DEF Sleep, SpawnLora, JoinLora, At
<1>8. CASE ProbeEnds
  <2>1. /\ Program[pc] = Op("run_probe", "run") /\ outcome = "none"
        /\ UNCHANGED <<args, outcome>> /\ Step
    BY <1>8 DEF ProbeEnds, At
  <2>2. Passed("run_probe", "run")'
    BY <2>1, PassedStep
  <2>3. ~args.sample_only
    BY <2>1, RunProbeIsOfTheProbePath DEF Program, TypeOK
  <2> QED
    BY <2>1, <2>2, <2>3 DEF ProbeInv
<1>9. CASE Report
  <2>1. outcome' = "report" /\ UNCHANGED <<args, pc, probe>>
    BY <1>9 DEF Report
  <2> QED
    BY <2>1, PassedStep DEF ProbeInv
<1>10. CASE LoraAnswers \/ ShutdownLora
  BY <1>3, <1>10 DEF LoraAnswers, ShutdownLora
<1>11. ASSUME NEW l \in Loops, LoopRuns(l) \/ Shutdown(l)
       PROVE  ProbeInv'
  BY <1>3, <1>11 DEF LoopRuns, Shutdown, mainVars
<1>12. CASE UNCHANGED vars
  BY <1>3, <1>12 DEF vars
<1> QED
  BY <1>5, <1>6, <1>7, <1>8, <1>9, <1>10, <1>11, <1>12 DEF Next, MainStep

\* Both samplers are joined where a probe's error can come out.
LEMMA FailedProbeLeavesNoSampler ==
  ASSUME TypeOK, TeardownInv, ProbeInv
  PROVE  ProbeFailureLeaksNoSampler
<1> SUFFICES ASSUME outcome = "error", probe = "failed", NEW l \in {Sysmon, Gpu}
             PROVE  task[l] \notin Running
  BY DEF ProbeFailureLeaksNoSampler
<1>1. Program = ProbeProgram /\ Program[pc].op \in Fallible /\ pc \in 1..Len(Program)
  BY DEF ProbeInv, Program, TypeOK
<1>2. PICK i \in 1..Len(Program) : i < pc /\ Program[i] = Op("run_probe", "run")
  BY DEF ProbeInv, Passed
<1>3. Passed("join", l)
  BY <1>1, <1>2, SamplersAreJoinedFirst DEF Passed
<1>4. LoopTornDown(l)
  BY OrchestratorAssumption DEF TeardownInv
<1> QED
  BY <1>3, <1>4 DEF LoopTornDown, Ended, Running

(* The probe's error comes out only after both samplers are cleaned up,    *)
(* and so does any later one of a run whose probe has failed.              *)
THEOREM FailedProbesLeakNothing == Spec => []ProbeFailureLeaksNoSampler
<1>1. TypeOK /\ ProbeInv /\ [Next]_vars => ProbeInv'
  BY ProbeStep
<1>2. TypeOK /\ TeardownInv /\ ProbeInv => ProbeFailureLeaksNoSampler
  BY FailedProbeLeavesNoSampler
<1> QED
  BY <1>1, <1>2, ProbeInit, TeardownCorrect, PTL DEF Spec
-----------------------------------------------------------------------------
(* Either path is a profiling run.                                         *)

\* The run holds only what was returned to it, and the LoRA read begins once.
CollectInv ==
  /\ \A l \in Loops : result[l] = "some" => task[l] = "returned"
  /\ result[Lora] = "some" => lora \in {"observed", "read_failed"}
  /\ lora # "absent" => Passed("spawn_lora", "run")

\* No program starts the LoRA read twice.
LEMMA LoraStartsOnce ==
  ASSUME NEW P \in Programs, NEW k \in 1..Len(P), NEW i \in 1..Len(P),
         P[k] = Op("spawn_lora", "run"), P[i] = Op("spawn_lora", "run")
  PROVE  i = k
<1>1. CASE P = ProbeProgram
  BY <1>1 DEF ProbeProgram, Op
<1>2. CASE P = SampleOnlyProgram
  <2>1. k = 9 /\ i = 9
    BY <1>2 DEF SampleOnlyProgram, Op
  <2> QED
    BY <2>1
<1> QED
  BY <1>1, <1>2 DEF Programs

\* Main starts the LoRA read only when there is none.
LEMMA NoLoraBeforeItsStart ==
  ASSUME TypeOK, CollectInv, SpawnLora
  PROVE  lora = "absent"
<1>1. Program[pc] = Op("spawn_lora", "run") /\ pc \in 1..Len(Program)
  BY DEF SpawnLora, At, TypeOK
<1>2. \A i \in 1..Len(Program) : Program[i] = Op("spawn_lora", "run") => ~(i < pc)
  BY <1>1, LoraStartsOnce, ProgramIsOne
<1> QED
  BY <1>2 DEF CollectInv, Passed

\* No step makes the run hold what was not returned to it.
LEMMA CollectStep ==
  ASSUME TypeOK, TeardownInv, CollectInv, [Next]_vars
  PROVE  CollectInv'
<1>1. args' = args
  BY DEF Next, vars, mainVars, MainStep, CheckPid, RequirePid, SpawnLoop,
    CancelLoop, JoinLoop, Sleep, SpawnLora, CheckProbe, Derive, ReadSteps,
    JoinLora, Report, ProbeEnds, LoraAnswers, LoopRuns, Shutdown, ShutdownLora,
    ReturnErr
<1>2. Step \/ UNCHANGED pc
  BY DEF Next, vars, mainVars, MainStep, CheckPid, RequirePid, SpawnLoop,
    CancelLoop, JoinLoop, Sleep, SpawnLora, CheckProbe, Derive, ReadSteps,
    JoinLora, Report, ProbeEnds, LoraAnswers, LoopRuns, Shutdown, ShutdownLora,
    ReturnErr
<1>3. Passed("spawn_lora", "run") => Passed("spawn_lora", "run")'
  BY <1>1, <1>2, PassedStep
<1>4. ASSUME UNCHANGED <<result, lora>>, UNCHANGED task
      PROVE  CollectInv'
  BY <1>3, <1>4 DEF CollectInv
<1>5. CASE CheckPid \/ RequirePid \/ CheckProbe \/ Derive \/ ReadSteps
             \/ Sleep \/ ProbeEnds \/ Report \/ UNCHANGED vars
  BY <1>4, <1>5 DEF CheckPid, RequirePid, CheckProbe, Derive, ReadSteps, Sleep,
    ProbeEnds, Report, ReturnErr, DropSenders, loopVars, vars
<1>6. ASSUME NEW l \in Loops, SpawnLoop(l)
      PROVE  CollectInv'
  <2>1. UNCHANGED <<result, lora>>
    BY <1>6 DEF SpawnLoop
  <2>2. \A m \in Loops : task[m] = "returned" => task'[m] = "returned"
    BY <1>6 DEF SpawnLoop, Spawn, Goto, loopVars, TypeOK, LoopTypeOK
  <2> QED
    BY <1>3, <2>1, <2>2 DEF CollectInv
<1>7. ASSUME NEW l \in Loops, CancelLoop(l)
      PROVE  CollectInv'
  BY <1>4, <1>7 DEF CancelLoop, SendCancel, loopVars
<1>8. ASSUME NEW l \in Loops, JoinLoop(l)
      PROVE  CollectInv'
  <2>1. /\ UNCHANGED <<lora, task>>
        /\ result' = [result EXCEPT ![l] = IF task[l] = "returned" THEN "some" ELSE "none"]
    BY <1>8 DEF JoinLoop, loopVars
  <2> QED
    BY <1>3, <2>1, OrchestratorAssumption DEF CollectInv, TypeOK
<1>9. CASE SpawnLora
  <2>1. lora = "absent"
    BY <1>9, NoLoraBeforeItsStart
  <2>2. Passed("spawn_lora", "run")'
    BY <1>1, <1>9, PassedStep DEF SpawnLora, At
  <2> QED
    BY <1>9, <2>1, <2>2 DEF CollectInv, SpawnLora, loopVars
<1>10. CASE LoraAnswers \/ ShutdownLora
  BY <1>3, <1>10 DEF CollectInv, LoraAnswers, ShutdownLora, loopVars
<1>11. CASE JoinLora
  <2>1. lora \notin {"reading", "aborted"}
    BY <1>11 DEF JoinLora, At, TeardownInv, LoraTornDown
  <2>2. /\ UNCHANGED <<lora, task>>
        /\ result' = [result EXCEPT ![Lora] = IF lora = "absent" THEN "none" ELSE "some"]
    BY <1>11 DEF JoinLora, loopVars
  <2> QED
    BY <1>3, <2>1, <2>2, OrchestratorAssumption DEF CollectInv, TypeOK
<1>12. ASSUME NEW l \in Loops, LoopRuns(l) \/ Shutdown(l)
       PROVE  CollectInv'
  <2>1. UNCHANGED <<result, lora>> /\ (LoopStep(l) \/ Abort(l))
    BY <1>12 DEF LoopRuns, Shutdown, mainVars
  <2>2. \A m \in Loops : task[m] = "returned" => task'[m] = "returned"
    BY <2>1, LoopMoves DEF Ended
  <2> QED
    BY <1>3, <2>1, <2>2 DEF CollectInv
<1> QED
  BY <1>5, <1>6, <1>7, <1>8, <1>9, <1>10, <1>11, <1>12 DEF Next, MainStep

\* It holds of every run.
LEMMA CollectCorrect == Spec => []CollectInv
<1>1. Init => CollectInv
  BY OrchestratorAssumption DEF Init, CollectInv
<1>2. TypeOK /\ TeardownInv /\ CollectInv /\ [Next]_vars => CollectInv'
  BY CollectStep
<1> QED
  BY <1>1, <1>2, TeardownCorrect, PTL DEF Spec
\* The background tasks of a run, as ProfilingRun sees them.
live == {l \in Loops : task[l] \in Running} \cup {t \in {Lora} : lora = "reading"}
made == {l \in Loops : task[l] = "returned"}
          \cup {t \in {Lora} : lora \in {"observed", "read_failed"}}
held == {t \in Loops \cup {Lora} : result[t] = "some"}

\* What a loop does on its own, or at shutdown, ends its task or does not.
LEMMA LoopEnds ==
  ASSUME TypeOK, NEW l \in Loops, LoopStep(l) \/ Abort(l)
  PROVE  /\ task[l] \in Running
         /\ task'[l] \in Running \cup Ended
<1> USE DEF TypeOK, LoopTypeOK, Running, Ended
<1>1. CASE Abort(l)
  BY <1>1 DEF Abort
<1>2. CASE LoopStep(l)
  BY <1>2 DEF LoopStep, Goto, ClientFails, EnterLoop, PollCancel, TickPending,
    BeginSample, FinishSample, CloseEnergyWindow
<1> QED
  BY <1>1, <1>2

\* A task that ends returns its timeline or vanishes.
LEMMA EndedTask ==
  ASSUME TypeOK, NEW l \in Loops, LoopStep(l) \/ Abort(l),
         UNCHANGED <<result, lora, outcome>>
  PROVE  \/ UNCHANGED <<live, made, held, outcome>>
         \/ Abstract!Return(l) \/ Abstract!Vanish(l)
<1>1. /\ task[l] \in Running
      /\ task'[l] \in Running \cup Ended
      /\ \A m \in Loops \ {l} : task'[m] = task[m]
  BY LoopEnds, LoopMoves
<1>2. UNCHANGED held
  BY DEF held
<1>3. CASE task'[l] \in Running
  BY <1>1, <1>2, <1>3 DEF live, made, Running
<1>4. CASE task'[l] = "returned"
  <2>1. l \in live /\ live' = live \ {l} /\ made' = made \cup {l}
    BY <1>1, <1>4, OrchestratorAssumption DEF live, made, Running
  <2> QED
    BY <1>2, <2>1 DEF Abstract!Return, live, made, held
<1>5. CASE task'[l] \in {"panicked", "aborted"}
  <2>1. l \in live /\ live' = live \ {l} /\ made' = made
    BY <1>1, <1>5, OrchestratorAssumption DEF live, made, Running
  <2> QED
    BY <1>2, <2>1 DEF Abstract!Vanish, live, made, held
<1> QED
  BY <1>1, <1>3, <1>4, <1>5 DEF Ended

\* Every step of either path is a step of a profiling run, or none.
LEMMA RunStep ==
  ASSUME TypeOK, TeardownInv, CollectInv, [Next]_vars
  PROVE  [Abstract!Next]_<<live, made, held, outcome>>
<1>0. Lora \notin Loops
  BY OrchestratorAssumption
<1>1. ASSUME UNCHANGED <<task, lora, result, outcome>>
      PROVE  UNCHANGED <<live, made, held, outcome>>
  BY <1>1 DEF live, made, held
<1>2. ASSUME ReturnErr, outcome = "none"
      PROVE  Abstract!Next
  <2>1. outcome' = "error" /\ UNCHANGED <<task, lora, result>>
    BY <1>2 DEF ReturnErr, DropSenders
  <2>2. UNCHANGED <<live, made, held>>
    BY <2>1 DEF live, made, held
  <2> QED
    BY <1>2, <2>1, <2>2 DEF Abstract!Next, Abstract!Fail, live, made, held
<1>3. CASE CheckPid \/ RequirePid \/ CheckProbe \/ Derive \/ ReadSteps
  <2>1. outcome = "none" /\ (ReturnErr \/ UNCHANGED <<task, lora, result, outcome>>)
    BY <1>3 DEF CheckPid, RequirePid, CheckProbe, Derive, ReadSteps, At, loopVars
  <2> QED
    BY <1>1, <1>2, <2>1
<1>4. ASSUME NEW l \in Loops, SpawnLoop(l)
      PROVE  [Abstract!Next]_<<live, made, held, outcome>>
  <2>1. outcome = "none" /\ UNCHANGED <<lora, result, outcome>>
    BY <1>4 DEF SpawnLoop, At
  <2>2. CASE UNCHANGED task
    BY <1>1, <2>1, <2>2
  <2>3. CASE Spawn(l)
    <3>1. task[l] = "absent" /\ task' = [task EXCEPT ![l] = "spawned"]
      BY <2>3 DEF Spawn, Goto
    <3>2. l \notin live \cup made /\ live' = live \cup {l} /\ UNCHANGED <<made, held>>
      BY <1>0, <2>1, <3>1 DEF live, made, held, Running, TypeOK, LoopTypeOK
    <3> QED
      BY <2>1, <3>2 DEF Abstract!Next, Abstract!Launch, live, made, held
  <2> QED
    BY <1>4, <2>2, <2>3 DEF SpawnLoop, loopVars
<1>5. ASSUME NEW l \in Loops, CancelLoop(l)
      PROVE  [Abstract!Next]_<<live, made, held, outcome>>
  BY <1>1, <1>5 DEF CancelLoop, SendCancel, loopVars
\* A result that is collected was made, and one that is not was never held.
<1>6. ASSUME NEW t \in Loops \cup {Lora}, outcome = "none",
             UNCHANGED <<task, lora, outcome>>,
             result' = [result EXCEPT ![t] = IF t \in made THEN "some" ELSE "none"]
      PROVE  [Abstract!Next]_<<live, made, held, outcome>>
  <2>1. UNCHANGED <<live, made>>
    BY <1>6 DEF live, made
  <2>2. held' = IF t \in made THEN held \cup {t} ELSE held \ {t}
    BY <1>6 DEF held, TypeOK
  <2>3. held \subseteq made
    BY DEF held, made, CollectInv
  <2>4. CASE t \in made
    BY <1>6, <2>1, <2>2, <2>4 DEF Abstract!Next, Abstract!Collect, live, made, held
  <2>5. CASE t \notin made
    BY <1>6, <2>1, <2>2, <2>3, <2>5
  <2> QED
    BY <2>4, <2>5
<1>7. ASSUME NEW l \in Loops, JoinLoop(l)
      PROVE  [Abstract!Next]_<<live, made, held, outcome>>
  <2>1. l \in made <=> task[l] = "returned"
    BY <1>0 DEF made
  <2> QED
    BY <1>6, <1>7, <2>1 DEF JoinLoop, At, loopVars
<1>8. CASE JoinLora
  <2>1. lora \in {"absent", "observed", "read_failed"}
    BY <1>8 DEF JoinLora, At, TypeOK, TeardownInv, LoraTornDown
  <2>2. Lora \in made <=> lora # "absent"
    BY <1>0, <2>1 DEF made
  <2>3. result' = [result EXCEPT ![Lora] = IF Lora \in made THEN "some" ELSE "none"]
    BY <1>8, <2>2 DEF JoinLora
  <2> QED
    BY <1>6, <1>8, <2>3 DEF JoinLora, At, loopVars
<1>9. CASE SpawnLora
  <2>1. lora = "absent" /\ outcome = "none" /\ UNCHANGED <<task, result, outcome>>
    BY <1>9, NoLoraBeforeItsStart DEF SpawnLora, At, loopVars
  <2>2. CASE lora' = lora
    BY <1>1, <2>1, <2>2
  <2>3. CASE lora' = "reading"
    <3>1. Lora \notin live \cup made /\ live' = live \cup {Lora} /\ UNCHANGED <<made, held>>
      BY <1>0, <2>1, <2>3 DEF live, made, held
    <3> QED
      BY <2>1, <3>1 DEF Abstract!Next, Abstract!Launch, live, made, held
  <2> QED
    BY <1>9, <2>2, <2>3 DEF SpawnLora
<1>10. CASE LoraAnswers
  <2>1. /\ lora = "reading" /\ lora' \in {"observed", "read_failed"}
        /\ UNCHANGED <<task, result, outcome>>
    BY <1>10 DEF LoraAnswers, loopVars
  <2>2. Lora \in live /\ live' = live \ {Lora} /\ made' = made \cup {Lora} /\ UNCHANGED held
    BY <1>0, <2>1 DEF live, made, held
  <2> QED
    BY <2>1, <2>2 DEF Abstract!Next, Abstract!Return, live, made, held
<1>11. CASE ShutdownLora
  <2>1. /\ lora = "reading" /\ lora' = "aborted"
        /\ UNCHANGED <<task, result, outcome>>
    BY <1>11 DEF ShutdownLora, loopVars
  <2>2. Lora \in live /\ live' = live \ {Lora} /\ UNCHANGED <<made, held>>
    BY <1>0, <2>1 DEF live, made, held
  <2> QED
    BY <2>1, <2>2 DEF Abstract!Next, Abstract!Vanish, live, made, held
\* A report is complete as soon as it is out, and it changes no task.
<1>12. CASE Report
  <2>1. outcome = "none" /\ outcome' = "report" /\ UNCHANGED <<task, lora, result>>
    BY <1>12 DEF Report, At, loopVars
  <2>2. ReportComplete'
    BY TypeStep, TeardownStep, TornDownReportIsComplete, PTL
  <2>3. /\ \A l \in Loops : task[l] \notin Running /\ (result[l] = "some" <=> task[l] = "returned")
        /\ lora # "reading"
        /\ result[Lora] = "some" <=> lora \in {"observed", "read_failed"}
    BY <2>1, <2>2 DEF ReportComplete
  <2>4. live = {} /\ held = made /\ UNCHANGED <<live, made, held>>
    BY <2>1, <2>3 DEF live, made, held
  <2> QED
    BY <2>1, <2>4 DEF Abstract!Next, Abstract!Report, live, made, held
<1>13. CASE Sleep \/ ProbeEnds \/ UNCHANGED vars
  BY <1>1, <1>13 DEF Sleep, ProbeEnds, loopVars, vars
<1>14. ASSUME NEW l \in Loops, LoopRuns(l) \/ Shutdown(l)
       PROVE  [Abstract!Next]_<<live, made, held, outcome>>
  <2>1. UNCHANGED <<result, lora, outcome>> /\ (LoopStep(l) \/ Abort(l))
    BY <1>14 DEF LoopRuns, Shutdown, mainVars
  <2> QED
    BY <2>1, EndedTask DEF Abstract!Next
<1> QED
  BY <1>3, <1>4, <1>5, <1>7, <1>8, <1>9, <1>10, <1>11, <1>12, <1>13, <1>14
  DEF Next, MainStep

(* Both drivers do only what ProfilingRun allows (main.rs, orchestrate and *)
(* run_sample_only): they launch nothing twice or after the end, hold only *)
(* what was returned, and report when no task is left.  (The fairness in   *)
(* ImplementsProfilingRun stays with TLC.)                                 *)
THEOREM BothPathsAreProfilingRuns ==
  Spec => /\ Abstract!Init
          /\ [][Abstract!Next]_<<live, made, held, outcome>>
<1>1. Init => Abstract!Init
  BY OrchestratorAssumption DEF Init, LoopInit, Abstract!Init, Running
<1>2. TypeOK /\ TeardownInv /\ CollectInv /\ [Next]_vars
        => [Abstract!Next]_<<live, made, held, outcome>>
  BY RunStep
<1> QED
  BY <1>1, <1>2, TeardownCorrect, CollectCorrect, PTL DEF Spec
=============================================================================
