\* Either engine, three requests, a restart, up to three scrapes of a kind.
CONSTANTS
  Requests <- SomeRequests
  Totals = {0, 1, 7}
  MaxRequests = 3
  MaxRestarts = 1
  MaxScrapes = 3
SPECIFICATION Spec
INVARIANTS DeltasNeverOverstate RateAtMostOne SplitsConserveEnergy
  TextTellsTheRate
\* The run ends.
CHECK_DEADLOCK FALSE
