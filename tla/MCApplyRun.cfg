SPECIFICATION FairSpec
CONSTANTS
  NumPhases = 4
  Batches <- MCBatches
  Keys <- MCKeys
  Producer <- MCProducer
  Secret = {"token"}
  Optional = {"note"}
  MaxFaults = 4
INVARIANTS
  TypeOK
  SecretsNeverStored
  CompletedReallyRan
  ResumeSeesEarlierExports
  PlanMatchesApply
PROPERTIES
  RerunsOnlyForSecrets
  EventuallyAllCompleted
