SPECIFICATION OcrSpec
CONSTANTS
  NumSamples = 2
  BatchSize = 2
  HeartbeatLimit = 2
  TextSize = 4
  PayloadLimit = 4
  FrameLimit = 5
  Devices = {"auto", "cuda"}
  Limits = {0, 2304}
  Cards = {0, 12, 24}
  Parents <- MCParents
  Leftovers <- MCLeftovers
  RestartLimit = 1
  MaxFaults = 2
  MaxChanges = 1
  MaxPauses = 1
  PerItem = 2
  Budget = 3
  MaxExtra = 1
  StreakLimit = 2
  WindowMin = 3
  WindowSize = 3
INVARIANT OneRuntime
INVARIANT OutcomeReported
CHECK_DEADLOCK FALSE
