CONSTANTS
  Jobs = {j1, j2, j3}
  Keep = 1
  MaxFaults = 1
SYMMETRY JobSymmetry
SPECIFICATION Spec
INVARIANT StartupServes
\* All jobs are gone at last.
CHECK_DEADLOCK FALSE
