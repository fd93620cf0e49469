CONSTANTS
  Configs <- MCConfigs
  Counts = {"solo", "duo"}
  UserTexts <- MCUserTexts
  UserShapes = {"nine", "eight", "raw", "broken"}
  Indexes = {"i"}
  MaxJobs = 3
  MaxCrashes = 2
  Restores = {r1, r2}
  Exports = {e1}
  MaxFaults = 2
SPECIFICATION RestoreSpec
INVARIANT WholeTreeStands
\* Left-over directories refuse every further request.
CHECK_DEADLOCK FALSE
