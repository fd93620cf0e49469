CONSTANTS
  NumSamples = 1
  Requests = {q1, q2}
  MaxVersion = 3
  MaxArrivals = 4
  Attempts = 3
  PerSample = 2
  MaxFaults = 1
SYMMETRY RequestSymmetry
SPECIFICATION Spec
INVARIANT ExportsWithinBudget
INVARIANT AttemptsWithinBudget
PROPERTY SettledStays
\* An exported, a failed and a cancelled job stop.
CHECK_DEADLOCK FALSE
