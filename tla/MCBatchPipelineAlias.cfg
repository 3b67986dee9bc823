SPECIFICATION Spec
CONSTANTS
  NoKey = NoKey
  Failed = Failed
  Labels <- AllLabels
  Jobs <- Coincidence
INVARIANT
  SingleValueServesEveryRow
CHECK_DEADLOCK FALSE
