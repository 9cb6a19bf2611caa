\* What the scrapes do while main joins the samplers.
CONSTANTS
  sysmon = sysmon
  gpu = gpu
  kv = kv
  phase = phase
  spec = spec
  loraRead = loraRead
  Loops = {sysmon, gpu, kv, phase, spec}
  Scrapes = {kv, phase, spec}
  Sysmon = sysmon
  Gpu = gpu
  Kv = kv
  Phase = phase
  SpecDec = spec
  Lora = loraRead
  Inputs <- BothPaths
SPECIFICATION Spec
PROPERTY NoScrapeDuringAJoin
\* A finished run stops.
CHECK_DEADLOCK FALSE
