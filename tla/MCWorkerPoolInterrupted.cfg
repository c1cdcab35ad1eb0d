CONSTANTS
  ConfiguredWorkers = 2
  BufPerWorker = 1
  TotalJobs = 2
  MaxRequests = 1
  Delay = TRUE
  MaxSent = 3
SPECIFICATION Spec
INVARIANT OkMeansRanToCompletion
\* The recorded ok that an interrupted sweep gets. A sweep ends, and nothing happens after its entry is recorded
CHECK_DEADLOCK FALSE
