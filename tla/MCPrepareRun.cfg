CONSTANTS
  Steps <- MCSteps
  Repo <- MCRepo
  Packages <- MCPackages
  Images <- MCImages
  Url <- MCUrl
  Offline <- MCOffline
  Workflows <- MCWorkflows
  MaxVersion = 2
  Retry = 1
  MaxFaults = 1
  Torn = Torn
  Absent = Absent
SPECIFICATION FairPrepareSpec
INVARIANTS TypeOK RepoWhole  PreparedAsAsked VerifiedIsPrepared
PROPERTY StartingOverHelps
