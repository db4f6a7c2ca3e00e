SPECIFICATION Spec
CONSTANTS
  Procs = {"p"}
  Fallbacks <- OldPlaces
  MaxSaves = 4
INVARIANTS
  TypeOK
  TargetWhole
PROPERTIES
  ImplementsStateStore
