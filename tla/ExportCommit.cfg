CONSTANTS
  Configs <- MCConfigs
  Counts = {"solo", "duo"}
  UserTexts <- MCUserTexts
  UserShapes = {"nine", "eight", "raw", "broken"}
  Indexes = {"i"}
  MaxJobs = 3
  MaxCrashes = 2
  MaxFaults = 4
  Restores = {}
  Exports = {}
SPECIFICATION CommitSpec
INVARIANT DatasetSurvives
INVARIANT OriginalRecoverable
INVARIANT AbsentDatasetIsJournaled
INVARIANT TruthfulWithinTwoFaults
PROPERTY StartupResolves
PROPERTY SwitchSpec
PROPERTY DatasetReturns
\* A discarded job stops, and so may a system whose faults are spent.
CHECK_DEADLOCK FALSE
