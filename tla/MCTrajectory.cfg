CONSTANTS
  Cases <- AllCases
  Unit = 4
  Bases <- AllBases

SPECIFICATION Spec

INVARIANTS
  SegmentsCountedOnce
  PlacementJustified
  IncrementsCountedOnce
  PricesReconcile

\* A derivation ends.
CHECK_DEADLOCK FALSE
