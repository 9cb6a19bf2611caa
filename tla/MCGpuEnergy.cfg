\* Two devices, three ticks, a reload at any time.
CONSTANTS
  Devices = {0, 1}
  Powers = {1, 3}
  Charges = {0, 2}
  MaxTime = 2
SPECIFICATION Spec
INVARIANTS CounterNeverOverstates CounterGradeIsMeasured
\* A derivation ends.
CHECK_DEADLOCK FALSE
