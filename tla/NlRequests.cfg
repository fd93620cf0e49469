CONSTANTS
  NumSamples = 2
  BatchSize = 2
  HeartbeatLimit = 2
  TextSize = 4
  PayloadLimit = 4
  FrameLimit = 5
  Devices = {"auto", "cuda"}
  Limits = {0, 2304}
  Cards = {0, 24}
  Parents <- MCParents
  Leftovers <- MCLeftovers
  RestartLimit = 1
  MaxFaults = 2
  MaxChanges = 1
  MaxPauses = 1
  PerItem = 2
  Budget = 3
  MaxExtra = 1
  StreakLimit = 2
  WindowMin = 3
  WindowSize = 3
SPECIFICATION NlSpec
INVARIANT UnknownKept
INVARIANT BudgetKept
 
\* A finished module and a failed job stop.
CHECK_DEADLOCK FALSE
