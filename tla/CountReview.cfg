CONSTANTS
  solo = solo
  duo = duo
  NumSamples = 2
  Counts = {solo, duo}
  Clients = {c1, c2}
  Inputs <- MCInputs
  PageSize = 1
  MaxVersion = 3
  MaxFaults = 1
SYMMETRY ClientSymmetry
SPECIFICATION Spec
INVARIANT AppliedAsDecided
INVARIANT ReviewedBeforeApplied
PROPERTY NoDecisionLost
CHECK_DEADLOCK FALSE
