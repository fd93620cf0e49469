SPECIFICATION SampleSpec
CONSTANTS
  MaxFaults = 0
  Restores = {}
  Exports = {}
  Configs <- MCConfigs
  Counts = {"solo", "duo"}
  UserTexts <- MCUserTexts
  UserShapes = {"nine", "eight", "raw", "broken"}
  Indexes = {"i"}
  MaxJobs = 3
  MaxCrashes = 2
INVARIANT MatchMeansReplaced
PROPERTY WorkPublished
\* After its last job the dataset stays.
CHECK_DEADLOCK FALSE
