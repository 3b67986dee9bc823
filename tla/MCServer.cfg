\* Two requests that may share a batch, and one that nobody can serve; calls
\* fail, time out, are cancelled.
SPECIFICATION Spec
CONSTANTS
  ra = ra
  rb = rb
  rc = rc
  g1 = g1
  g2 = g2
  Workflows <- MCWorkflows
  PartitionOf <- MCGpuPartitionOf
  Batches <- MCGpuBatches
  Requests <- MCThreeRequests
  RequestOf <- MCThreeRequestOf
  NodesOf <- MCNodesOf
  Workers <- MCGpuList
  GpuWorkers <- MCGpuWorkers
  Meets <- MCGpuMeets
  CpuGroup = 0
  GpuGroup <- MCGpuOrNone
  Flaky <- MCNoGpu
  MaxExecutions = 2
  Faults = TRUE
  PollTimeout = TRUE
SYMMETRY MCGpuSymmetry
INVARIANTS
  TypeOK
  WorkersAccountedFor
  CancelNeedsAllMembers
  CancelReachesExecution
CHECK_DEADLOCK FALSE
