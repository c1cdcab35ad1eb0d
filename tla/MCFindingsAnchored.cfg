SPECIFICATION Spec
CONSTANTS
  Blackbox <- MCBlackbox
  CodeReports <- MCCodeReports
  Documents <- MCDocuments
  Policies <- MCPolicies
  Commands <- MCCommands
  MaxEvidence = 3
INVARIANT AnchoredStaysVisible
CHECK_DEADLOCK FALSE
