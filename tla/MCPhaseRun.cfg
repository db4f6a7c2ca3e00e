SPECIFICATION FairSpec
CONSTANTS
  Phases <- MCPhases
  Keys <- MCKeys
INVARIANTS
  TypeOK
  ParallelismBound
  RootCauseReported
  FewLateStarts
  BatchBarrier
  NamedStepFailed
PROPERTIES
  PhaseEnds
  ImplementsAtomicPhase
