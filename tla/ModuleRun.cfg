CONSTANTS
  NumModules = 2
  NumSamples = 2
  BatchSize = 2
  InFlightLimit = 2
  PageSize = 1
  RestartLimit = 1
  MaxExits = 2
  MaxFaults = 1
SPECIFICATION Spec
INVARIANT CountsMatch
INVARIANT FinishedTruthful
INVARIANT LeasesAreHeld
PROPERTY FlowSpec
PROPERTY ThreadEnds
PROPERTY CancellationDrains
\* A job that failed or was handed over stops.
CHECK_DEADLOCK FALSE
