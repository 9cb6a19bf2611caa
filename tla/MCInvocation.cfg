\* Any invocations after one report of this build was archived.
CONSTANTS
  GivenSets <- SomeGiven
  BesideSets <- SomeBeside
  Rates <- SomeRates
  Trajectories <- SomeTrajectories
  Archives <- SomeArchives
  MaxRuns = 1
SPECIFICATION Spec
INVARIANTS
  ArgumentsAreChecked
  SuccessMeansAllWasDone
  ProvenanceIsTrue
  PricesOnlyMeasurements
