\* A /proc loop, the GPU loop and two scrapes, with every order of spawns,
\* ticks, cancels, dropped senders and aborts.
CONSTANTS
  proc = proc
  gpu = gpu
  kv = kv
  Loops = {proc, gpu, kv}
  Scrapes = {kv}
  Gpu = gpu
SPECIFICATION LoopSpec
INVARIANT AtMostOneLateSample
PROPERTIES CancelledLoopsEnd
\* Every task may have ended.
CHECK_DEADLOCK FALSE
