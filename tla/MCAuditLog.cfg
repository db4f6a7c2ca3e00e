SPECIFICATION Spec
CONSTANTS
  MaxFiles = 3
  MaxSize = 1
  MaxRecords = 14
  MaxFaults = 3
INVARIANTS
  TypeOK
  FaultsCostLittle
PROPERTIES
  ImplementsRetainedLog
