\* Both paths of main.rs, each with every combination of loops it can spawn.
CONSTANTS
  sysmon = sysmon
  gpu = gpu
  kv = kv
  phase = phase
  spec = spec
  loraRead = loraRead
  Loops = {sysmon, gpu, kv, phase, spec}
  Scrapes = {kv, phase, spec}
  Sysmon = sysmon
  Gpu = gpu
  Kv = kv
  Phase = phase
  SpecDec = spec
  Lora = loraRead
  Inputs <- BothPaths
SPECIFICATION Spec
INVARIANTS
  ReportComplete
  JoinsAfterCancels
  ProbeFailureLeaksNoSampler
PROPERTIES
  RunsEnd
  ImplementsProfilingRun
\* A finished run stops.
CHECK_DEADLOCK FALSE
