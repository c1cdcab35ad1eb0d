CONSTANTS
  ConfiguredWorkers = 2
  BufPerWorker = 1
  TotalJobs = 4
  MaxRequests = 1
  Delay = TRUE
  MaxSent = 3
SPECIFICATION FairSpec
INVARIANTS CutShortIsRecorded WireWithinCap
PROPERTIES SweepEnds
\* a sweep ends, and nothing happens after its entry is recorded
CHECK_DEADLOCK FALSE
