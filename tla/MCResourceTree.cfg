\* A wrapper and two children.
CONSTANTS
  Parent = 1
  Children = {2, 3}
  Kib <- Sizes
  Threads <- ThreadCounts
  ClockTicks <- Answers
  Mode <- Modes
  Cores = 1
  MaxElapsed = 2
  MaxSamples = 2
SPECIFICATION TreeSpec
INVARIANTS SampleIsOfTheTree CpuIsWorkOfTheTree WarningIsOfAnIdlePid
\* The run ends.
CHECK_DEADLOCK FALSE
