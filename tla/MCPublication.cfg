SPECIFICATION Spec
CONSTANTS
  j1 = j1
  j2 = j2
  Jobs = {j1, j2}
  MaxFindings = 2
  MaxAnalyzers = 4
  MaxBodyBytes = 8
  Envs <- MCEnvs
  Scans <- MCScans
  Reports <- MCReports
  Executions <- MCExecutions
  Durations = {1}
  Edited <- MCEdited
  MaxTransportAttempts = 2
  DecisionTimeout = 2
  MaxWait = 2
  MaxReruns = 1
  JiraFloor = "HIGH"
  NotifyFloor = "CRITICAL"
  Sinks = {"slack", "teams"}
  Chunk = 1
  MaxResults = 2
INVARIANTS
  PassMeansDecided
  OnOneIssue
PROPERTIES
  SubmitEnds
CHECK_DEADLOCK FALSE
