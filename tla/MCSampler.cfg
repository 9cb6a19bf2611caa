\* A clock of eight instants, ticks two apart and a tolerance of three: ticks
\* that are late and forgiven or missed, reads that span several periods and
\* cancels at every point of the loop.
CONSTANTS
  Loop = "sysmon"
  Period = 2
  Tolerance = 3
  MaxTime = 7
SPECIFICATION Spec
INVARIANTS TimelineOrdered BurstBounded AtMostOneStampPastCancel
PROPERTY ImplementsSamplingLoop
\* The clock stops at MaxTime.
CHECK_DEADLOCK FALSE
