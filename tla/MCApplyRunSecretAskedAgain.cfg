SPECIFICATION Spec
CONSTANTS
  NumPhases = 4
  Batches <- MCBatches
  Keys <- MCKeys
  Producer <- MCProducer
  Secret = {"token"}
  Optional = {"note"}
  MaxFaults = 2
INVARIANT
  SecretAskedAgain
