\* Two jobs that share the index, with a crash or a shutdown and recovery.
SPECIFICATION FairSpec
CONSTANTS
  j1 = j1
  j2 = j2
  None = None
  Jobs <- MCTwoJobs
  Recover = TRUE
  Faults = FALSE
  MaxPolls = 0
  MaxBoots = 1
  MayLoad <- MCOneLoad
INVARIANTS
  StorageSettles
  RecoveredInIndex
  CompletedHasResult
PROPERTIES
  JobsEnd
CHECK_DEADLOCK FALSE
