CONSTANTS
  Plan <- MCPlan
  Runtimes = {"caption-e621", "policy", "ocr-gpu"}
  Companion <- MCCompanion
  KeepsCuda = {"caption-e621"}
  GpuOnly = {"ocr-gpu"}
  OcrProbed = {"ocr-gpu"}
  MaxRuns = 2
  MaxFaults = 2
  MaxTries = 2
  MaxBreaks = 2
SPECIFICATION MCSpec
INVARIANT InstalledIsWhole
INVARIANT FailedRunRestores
INVARIANT OneWriteBehind
INVARIANT FailureRestores
INVARIANT OldUntilAllIsNew
\* Both programs rest when their runs are used up.
CHECK_DEADLOCK FALSE
