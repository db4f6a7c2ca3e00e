SPECIFICATION Spec
CONSTANTS
  Roots = {"here", "there"}
  Here = "here"
  Servers = {"server"}
  Default = "server"
  Scenarios = {"apply", "join"}
  MaxSaved = 1
INVARIANT
  ShowAgreesWithApply
