SPECIFICATION Spec
CONSTANTS
  NumPaths = 3
  Approved <- MCApproved
  PrepareFile = 2
  Required <- MCRequired
  WorkspaceTexts <- MCTexts
  VerificationBudget = 1
  AgentRuntimeMinTurns = 4
  AgentRuntimeMaxTurns = 4
  TurnsPerVerification = 2
  MaxCalls = 2
INVARIANTS
  AcceptedIsValidated
CHECK_DEADLOCK FALSE
