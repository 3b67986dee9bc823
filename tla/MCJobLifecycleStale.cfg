\* A slow save of a progress request.
SPECIFICATION Spec
CONSTANTS
  j1 = j1
  j2 = j2
  None = None
  Jobs <- MCOneJob
  Recover = TRUE
  Faults = FALSE
  MaxPolls = 1
  MaxBoots = 0
  MayLoad <- MCEveryLoad
INVARIANTS
  StorageSettles
CHECK_DEADLOCK FALSE
