SPECIFICATION Spec
CONSTANTS
  Groups = {"g", "h"}
  Limits = {0, 1, 2, 5}
  MaxSteps = 5
INVARIANTS
  BatchesAreMaximalRuns
  ReportedLimitIsEnforced
  ContiguityMeansOneBatchPerGroup
CHECK_DEADLOCK FALSE
