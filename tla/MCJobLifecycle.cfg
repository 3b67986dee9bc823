\* One job, with failing calls, crashes or shutdowns, and progress requests.
SPECIFICATION Spec
CONSTANTS
  j1 = j1
  j2 = j2
  None = None
  Jobs <- MCOneJob
  Recover = TRUE
  Faults = TRUE
  MaxPolls = 2
  MaxBoots = 2
  MayLoad <- MCEveryLoad
INVARIANTS
  TypeOK
  AcknowledgedSurvives
  IndexPointsToBlobs
PROPERTIES
  CancelIsFinal
CHECK_DEADLOCK FALSE
