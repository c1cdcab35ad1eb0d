SPECIFICATION Spec
CONSTANTS
  Blackbox <- MCBlackbox
  CodeReports <- MCCodeReports
  Documents <- MCDocuments
  Policies <- MCPolicies
  Commands <- MCCommands
  MaxEvidence = 4
INVARIANTS
  StatusIgnoresOrder
  ProofSurvives
  ImportsNeedAStrongMatch
  ProductionStaysVisible
  RelaxedSaysWhatItOverrode
  OwnFindingsExport
CHECK_DEADLOCK FALSE
