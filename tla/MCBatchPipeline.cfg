SPECIFICATION Spec
CONSTANTS
  NoKey = NoKey
  Failed = Failed
  Labels <- AllLabels
  Jobs <- AllJobs
INVARIANTS
  RowsAsAlone
  ErrorFreeIsComplete
  PlansAccepted
  HaloOptimal
  ShardRowsExact
  RewriteIsSchedulable
CHECK_DEADLOCK FALSE
