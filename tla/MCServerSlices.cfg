\* A request in two batches, one of them shared with another request.
SPECIFICATION Spec
CONSTANTS
  ra = ra
  rb = rb
  rc = rc
  g1 = g1
  g2 = g2
  Workflows <- MCWorkflows
  PartitionOf <- MCPartitionOf
  Batches <- MCBatches
  Requests <- MCRequests
  RequestOf <- MCRequestOf
  NodesOf <- MCNodesOf
  Workers <- MCWorkers
  GpuWorkers <- MCNoGpu
  Meets <- MCMeets
  CpuGroup = 1
  GpuGroup <- MCGpuGroup
  Flaky <- MCNoGpu
  MaxExecutions = 3
  Faults = FALSE
  PollTimeout = FALSE
INVARIANTS
  AnsweredOnce
  SuccessIsComplete
  NodesConserved
  TracesOwn
CHECK_DEADLOCK FALSE
