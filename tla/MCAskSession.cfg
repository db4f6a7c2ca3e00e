SPECIFICATION FairSpec
CONSTANTS
  NumPaths = 3
  Approved <- MCApproved
  PrepareFile = 2
  Required <- MCRequired
  WorkspaceTexts <- MCTexts
  VerificationBudget = 1
  AgentRuntimeMinTurns = 4
  AgentRuntimeMaxTurns = 4
  TurnsPerVerification = 2
  MaxCalls = 2
INVARIANTS
  TypeOK
  WorkspaceProtected
  AcceptedAfterAPass
  AcceptedWithinBudget
  PassCoversCandidates
PROPERTIES
  SessionEnds
CHECK_DEADLOCK FALSE
