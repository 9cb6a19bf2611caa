---------------------------- MODULE Orchestrator ----------------------------
(***************************************************************************)
(* The thread that drives a run (main.rs): `orchestrate` for the probe     *)
(* path and `run_sample_only` for the attach path.  Both spawn the         *)
(* sampling loops, let the window of the run pass, then tear the loops     *)
(* down in a fixed order.  That order is the program, so it is written     *)
(* down once per path as a sequence of operations, in source order; each   *)
(* operation is an action, and loops run between any two of them.          *)
(***************************************************************************)
EXTENDS SamplingLoop, Sequences

CONSTANTS
  Sysmon, Kv, Phase, SpecDec,   \* with Gpu, the five loops
  Lora,                         \* the one-shot LoRA read
  Inputs                        \* the command lines and surroundings of a run

Args ==
  [ sample_only : BOOLEAN,
    pid         : {"absent", "live", "gone"},
    gpu         : BOOLEAN,                  \* asked for, and NVML started
    metrics     : BOOLEAN,                  \* endpoint, model and engine given
    clock_tick  : {"known", "unknown"},     \* sysconf(_SC_CLK_TCK)
    steps_file  : {"absent", "valid", "broken"} ]

ASSUME OrchestratorAssumption ==
  /\ Loops = {Sysmon, Gpu, Kv, Phase, SpecDec}
  /\ Scrapes = {Kv, Phase, SpecDec}
  /\ Sysmon \notin Scrapes \cup {Gpu}
  /\ Kv # Phase /\ Kv # SpecDec /\ Phase # SpecDec
  /\ Lora \notin Loops
  /\ Inputs \subseteq Args

VARIABLES
  args,       \* what the command line asks for and what it meets
  pc,         \* the operation main is at
  probe,      \* the probe's result: "pending", "ok" or "failed"
  result,     \* what each join gave: "pending", "none" or "some"
  lora,       \* the LoRA task of the attach path
  outcome     \* of the run: "none" while it lasts, "report" or "error"

mainVars == <<args, pc, probe, result, lora, outcome>>
vars == <<args, pc, probe, result, lora, outcome, task, cancel, period, late>>

-----------------------------------------------------------------------------
Op(op, on) == [op |-> op, on |-> on]

\* Mutant: each scrape is joined before the next is cancelled.
ProbeProgramPairwise ==
  << Op("check_pid", "run"),
     Op("spawn", Sysmon), Op("spawn", Gpu),
     Op("spawn", Kv), Op("spawn", Phase), Op("spawn", SpecDec),
     Op("run_probe", "run"),
     Op("cancel", Sysmon), Op("join", Sysmon),
     Op("cancel", Gpu), Op("join", Gpu),
     Op("check_probe", "run"),
     Op("cancel", Kv), Op("join", Kv),
     Op("cancel", Phase), Op("join", Phase),
     Op("cancel", SpecDec), Op("join", SpecDec),
     Op("derive", "run"), Op("read_steps", "run"), Op("report", "run") >>

\* orchestrate
ProbeProgram ==
  << Op("check_pid", "run"),
     Op("spawn", Sysmon), Op("spawn", Gpu),
     Op("spawn", Kv), Op("spawn", Phase), Op("spawn", SpecDec),
     Op("run_probe", "run"),
     Op("cancel", Sysmon), Op("join", Sysmon),
     Op("cancel", Gpu), Op("join", Gpu),
     Op("check_probe", "run"),
     Op("cancel", Kv), Op("cancel", Phase), Op("cancel", SpecDec),
     Op("join", Kv), Op("join", Phase), Op("join", SpecDec),
     Op("derive", "run"), Op("read_steps", "run"), Op("report", "run") >>

\* Mutant: the LoRA read is awaited where it is started.
SampleOnlyProgramLoraFirst ==
  << Op("check_pid", "run"), Op("require_pid", "run"),
     Op("spawn", Sysmon), Op("spawn", Gpu),
     Op("spawn", Kv), Op("spawn", Phase), Op("spawn", SpecDec),
     Op("sleep", "run"),
     Op("spawn_lora", "run"), Op("join_lora", "run"),
     Op("cancel", Sysmon), Op("join", Sysmon),
     Op("cancel", Gpu), Op("join", Gpu),
     Op("cancel", Kv), Op("cancel", Phase), Op("cancel", SpecDec),
     Op("join", Kv), Op("join", Phase), Op("join", SpecDec),
     Op("derive", "run"), Op("read_steps", "run"), Op("report", "run") >>

\* run_sample_only
SampleOnlyProgram ==
  << Op("check_pid", "run"), Op("require_pid", "run"),
     Op("spawn", Sysmon), Op("spawn", Gpu),
     Op("spawn", Kv), Op("spawn", Phase), Op("spawn", SpecDec),
     Op("sleep", "run"),
     Op("spawn_lora", "run"),
     Op("cancel", Sysmon), Op("join", Sysmon),
     Op("cancel", Gpu), Op("join", Gpu),
     Op("cancel", Kv), Op("cancel", Phase), Op("cancel", SpecDec),
     Op("join", Kv), Op("join", Phase), Op("join", SpecDec),
     Op("derive", "run"), Op("read_steps", "run"), Op("join_lora", "run"),
     Op("report", "run") >>

Program == IF args.sample_only THEN SampleOnlyProgram ELSE ProbeProgram

At(op, on) ==
  /\ outcome = "none"
  /\ Program[pc] = Op(op, on)

Step == pc' = pc + 1

\* Which loops this run spawns: a failed NVML start is only a warning.
Wanted(l) ==
  CASE l = Sysmon     -> args.pid # "absent"
    [] l = Gpu        -> args.gpu
    [] l \in Scrapes  -> args.metrics

Init ==
  /\ args \in Inputs
  /\ pc = 1
  /\ probe = "pending"
  /\ result = [t \in Loops \cup {Lora} |-> "pending"]
  /\ lora = "absent"
  /\ outcome = "none"
  /\ LoopInit
  /\ period[Gpu] = period[Sysmon]                  \* --sample-period-ms
  /\ \A l \in Scrapes : period[l] = period[Kv]     \* --metrics-period-ms

\* An early return leaves pc where it is and drops the unused senders.
ReturnErr ==
  /\ outcome' = "error"
  /\ DropSenders
  /\ UNCHANGED <<args, pc, probe, result, lora>>

-----------------------------------------------------------------------------
CheckPid ==
  /\ At("check_pid", "run")
  /\ IF args.pid = "gone"
     THEN ReturnErr
     ELSE Step /\ UNCHANGED <<args, probe, result, lora, outcome, loopVars>>

RequirePid ==
  /\ At("require_pid", "run")
  /\ IF args.pid = "absent"
     THEN ReturnErr
     ELSE Step /\ UNCHANGED <<args, probe, result, lora, outcome, loopVars>>

SpawnLoop(l) ==
  /\ At("spawn", l)
  /\ IF Wanted(l) THEN Spawn(l) ELSE UNCHANGED loopVars
  /\ Step
  /\ UNCHANGED <<args, probe, result, lora, outcome>>

\* Mutant: the probe's error is returned at once.
ProbeEndsWithError ==
  /\ At("run_probe", "run")
  /\ \/ /\ probe' = "ok"
        /\ Step
        /\ UNCHANGED <<args, result, lora, outcome, loopVars>>
     \/ /\ probe' = "failed"
        /\ outcome' = "error"
        /\ DropSenders
        /\ UNCHANGED <<args, pc, result, lora>>

\* The probe owns the window; its result is kept and looked at later.
ProbeEnds ==
  /\ At("run_probe", "run")
  /\ probe' \in {"ok", "failed"}
  /\ Step
  /\ UNCHANGED <<args, result, lora, outcome, loopVars>>

\* The attach path's window is a timer.
Sleep ==
  /\ At("sleep", "run")
  /\ Step
  /\ UNCHANGED <<args, probe, result, lora, outcome, loopVars>>

\* Started as the window closes, and not awaited here.
SpawnLora ==
  /\ At("spawn_lora", "run")
  /\ lora' = IF args.metrics THEN "reading" ELSE lora
  /\ Step
  /\ UNCHANGED <<args, probe, result, outcome, loopVars>>

LoraAnswers ==
  /\ lora = "reading"
  /\ lora' \in {"observed", "read_failed"}
  /\ UNCHANGED <<args, pc, probe, result, outcome, loopVars>>

\* Mutant: the speculative scrape's sender is kept and never used.
CancelLoopForgetsOne(l) ==
  /\ At("cancel", l)
  /\ IF Wanted(l) /\ l # SpecDec THEN SendCancel(l) ELSE UNCHANGED loopVars
  /\ Step
  /\ UNCHANGED <<args, probe, result, lora, outcome>>

CancelLoop(l) ==
  /\ At("cancel", l)
  /\ IF Wanted(l) THEN SendCancel(l) ELSE UNCHANGED loopVars
  /\ Step
  /\ UNCHANGED <<args, probe, result, lora, outcome>>

\* Mutant: takes what there is without waiting for the task.
JoinLoopDetached(l) ==
  /\ At("join", l)
  /\ result' = [result EXCEPT ![l] = IF task[l] = "returned" THEN "some" ELSE "none"]
  /\ Step
  /\ UNCHANGED <<args, probe, lora, outcome, loopVars>>

\* Mutant: a panicked task fails the run.
JoinLoopPropagates(l) ==
  /\ At("join", l)
  /\ Wanted(l) => task[l] \in Ended
  /\ IF task[l] = "panicked"
     THEN ReturnErr
     ELSE /\ result' = [result EXCEPT ![l] =
                          IF task[l] = "returned" THEN "some" ELSE "none"]
          /\ Step
          /\ UNCHANGED <<args, probe, lora, outcome, loopVars>>

\* A task that panicked gives None and a warning, never an error.
JoinLoop(l) ==
  /\ At("join", l)
  /\ Wanted(l) => task[l] \in Ended
  /\ result' = [result EXCEPT ![l] =
                  IF task[l] = "returned" THEN "some" ELSE "none"]
  /\ Step
  /\ UNCHANGED <<args, probe, lora, outcome, loopVars>>

CheckProbe ==
  /\ At("check_probe", "run")
  /\ IF probe = "failed"
     THEN ReturnErr
     ELSE Step /\ UNCHANGED <<args, probe, result, lora, outcome, loopVars>>

\* The CPU percentage needs the clock tick, once there are two samples.
Derive ==
  /\ At("derive", "run")
  /\ \/ /\ args.clock_tick = "unknown"
        /\ result[Sysmon] = "some"
        /\ ReturnErr
     \/ Step /\ UNCHANGED <<args, probe, result, lora, outcome, loopVars>>

\* Read after the run; a broken file is fatal even then.
ReadSteps ==
  /\ At("read_steps", "run")
  /\ IF args.steps_file = "broken"
     THEN ReturnErr
     ELSE Step /\ UNCHANGED <<args, probe, result, lora, outcome, loopVars>>

JoinLora ==
  /\ At("join_lora", "run")
  /\ lora # "reading"
  /\ result' = [result EXCEPT ![Lora] = IF lora = "absent" THEN "none" ELSE "some"]
  /\ Step
  /\ UNCHANGED <<args, probe, lora, outcome, loopVars>>

Report ==
  /\ At("report", "run")
  /\ outcome' = "report"
  /\ UNCHANGED <<args, pc, probe, result, lora, loopVars>>

MainStep ==
  \/ CheckPid \/ RequirePid
  \/ \E l \in Loops : SpawnLoop(l) \/ CancelLoop(l) \/ JoinLoop(l)
  \/ Sleep \/ SpawnLora
  \/ CheckProbe \/ Derive \/ ReadSteps \/ JoinLora \/ Report

-----------------------------------------------------------------------------
LoopRuns(l) == LoopStep(l) /\ UNCHANGED mainVars

\* main returns, the runtime is dropped, and with it every task still there.
Shutdown(l) ==
  /\ outcome # "none"
  /\ Abort(l)
  /\ UNCHANGED mainVars

ShutdownLora ==
  /\ outcome # "none"
  /\ lora = "reading"
  /\ lora' = "aborted"
  /\ UNCHANGED <<args, pc, probe, result, outcome, loopVars>>

Next ==
  \/ MainStep
  \/ ProbeEnds
  \/ LoraAnswers
  \/ \E l \in Loops : LoopRuns(l) \/ Shutdown(l)
  \/ ShutdownLora

(* The runtime runs every task that can run.  A sample ends: /proc reads   *)
(* and NVML calls return and a scrape has a five second timeout, as has    *)
(* the LoRA read.  Nothing is assumed of the probe, which has no timeout.  *)
Fairness ==
  /\ WF_vars(MainStep)
  /\ WF_vars(LoraAnswers)
  /\ \A l \in Loops : WF_vars(LoopRuns(l))

Spec == Init /\ [][Next]_vars /\ Fairness

-----------------------------------------------------------------------------
TypeOK ==
  /\ LoopTypeOK
  /\ args \in Inputs
  /\ pc \in 1..Len(Program)
  /\ probe \in {"pending", "ok", "failed"}
  /\ result \in [Loops \cup {Lora} -> {"pending", "none", "some"}]
  /\ lora \in {"absent", "reading", "observed", "read_failed", "aborted"}
  /\ outcome \in {"none", "report", "error"}

(* A report is printed only when nothing the run spawned is still running, *)
(* and it carries the timeline of every loop that returned one: a timeline *)
(* is missing exactly when its loop was not asked for or panicked.         *)
ReportComplete ==
  outcome = "report" =>
    /\ \A l \in Loops :
         /\ task[l] \notin Running
         /\ result[l] = "some" <=> task[l] = "returned"
    /\ lora # "reading"
    /\ result[Lora] = "some" <=> lora \in {"observed", "read_failed"}

(* The inductive strengthening of ReportComplete and JoinsAfterCancels:    *)
(* what the operations main has behind it have established.                *)
Passed(op, on) == \E i \in 1..Len(Program) : i < pc /\ Program[i] = Op(op, on)

LoopTornDown(l) ==
  /\ ~Wanted(l) => task[l] = "absent"
  /\ outcome = "none" => cancel[l] # "dropped" /\ task[l] # "aborted"
  /\ Passed("cancel", l) /\ Wanted(l) => cancel[l] # "open"
  /\ Passed("join", l) =>
       /\ Wanted(l) => task[l] \in Ended
       /\ result[l] = "some" <=> task[l] = "returned"

LoraTornDown ==
  /\ outcome = "none" => lora # "aborted"
  /\ ~args.sample_only => lora = "absent" /\ result[Lora] = "pending"
  /\ Passed("join_lora", "run") =>
       /\ lora # "reading"
       /\ result[Lora] = "some" <=> lora \in {"observed", "read_failed"}

TeardownInv ==
  /\ \A l \in Loops : LoopTornDown(l)
  /\ LoraTornDown
  /\ outcome = "report" => pc = Len(Program)

Awaits(l) == At("join", l) /\ task[l] \in Running

(* main waits only for a loop it has told to stop, and by the time it      *)
(* waits for one scrape it has told all three (main.rs, "Every cancel      *)
(* first, then every await").  A slow LoRA endpoint holds nothing back:    *)
(* when main comes to wait for that read, every loop has ended.            *)
JoinsAfterCancels ==
  /\ \A l \in Loops : Awaits(l) => cancel[l] = "sent"
  /\ (\E l \in Scrapes : Awaits(l)) =>
       \A m \in Scrapes : cancel[m] = "sent"
  /\ At("join_lora", "run") => \A l \in Loops : task[l] \notin Running

(* The probe's error comes out only after both samplers are cleaned up.    *)
ProbeFailureLeaksNoSampler ==
  (outcome = "error" /\ probe = "failed") =>
    /\ task[Sysmon] \notin Running
    /\ task[Gpu] \notin Running

(* A run whose window closes ends: no join waits for ever.  And best       *)
(* effort: once the probe has succeeded, no panic, failed client or lost   *)
(* sample keeps the report from coming out.                                *)
RunsEnd ==
  /\ (probe # "pending" \/ args.sample_only) ~> outcome # "none"
  /\ ( probe = "ok" /\ args.clock_tick = "known" /\ args.steps_file # "broken" )
       ~> outcome = "report"

(* Either path is a profiling run.                                         *)
Abstract == INSTANCE ProfilingRun WITH
  Tasks   <- Loops \cup {Lora},
  live    <- {l \in Loops : task[l] \in Running}
               \cup {t \in {Lora} : lora = "reading"},
  made    <- {l \in Loops : task[l] = "returned"}
               \cup {t \in {Lora} : lora \in {"observed", "read_failed"}},
  held    <- {t \in Loops \cup {Lora} : result[t] = "some"},
  outcome <- outcome

ImplementsProfilingRun == Abstract!Spec

(* "cancelling one loop and waiting for it before signalling the next      *)
(* would let the others keep scraping past the end of the run window"      *)
(* (main.rs): no scrape that was not told to stop begins a read while main *)
(* waits for another loop.                                                 *)
NoScrapeDuringAJoin ==
  [][\A l \in Scrapes :
       (BeginSample(l) /\ \E m \in Loops \ {l} : Awaits(m))
          => cancel[l] # "open"]_vars
=============================================================================
