CONSTANTS
  MaxFaults = 2
  MaxFindings = 1
  Scans <- MCScans
SPECIFICATION Spec
INVARIANTS GapsAreRecorded GatesHold PythonOkIsWhole
PROPERTY EndedScanReturns
\* Run returns, and nothing happens after it has
CHECK_DEADLOCK FALSE
