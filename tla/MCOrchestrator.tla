--------------------------- MODULE MCOrchestrator ---------------------------
EXTENDS Orchestrator

CONSTANTS sysmon, gpu, kv, phase, spec, loraRead

Input(sample_only, pid, useGpu, metrics, tick, steps) ==
  [ sample_only |-> sample_only, pid |-> pid, gpu |-> useGpu,
    metrics |-> metrics, clock_tick |-> tick, steps_file |-> steps ]

\* The probe path: every surrounding with the samplers alone, the scrapes
\* alone, and all five loops.
ProbeInputs ==
  { Input(FALSE, pid, useGpu, FALSE, tick, steps) :
      pid \in {"absent", "live", "gone"}, useGpu \in BOOLEAN,
      tick \in {"known", "unknown"}, steps \in {"absent", "valid", "broken"} }
  \cup { Input(FALSE, "absent", FALSE, TRUE, "known", "absent"),
         Input(FALSE, "live", TRUE, TRUE, "known", "valid") }

\* The attach path likewise; it always samples /proc.
AttachInputs ==
  { Input(TRUE, "live", FALSE, TRUE, "known", steps) : steps \in {"absent", "broken"} }
  \cup { Input(TRUE, pid, TRUE, FALSE, tick, "valid") :
           pid \in {"absent", "live", "gone"}, tick \in {"known", "unknown"} }

BothPaths == ProbeInputs \cup AttachInputs
=============================================================================
