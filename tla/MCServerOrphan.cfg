\* A cancellation that arrives while the batch is being submitted.
SPECIFICATION Spec
CONSTANTS
  ra = ra
  rb = rb
  rc = rc
  g1 = g1
  g2 = g2
  Workflows <- MCTwo
  PartitionOf <- MCTwoPartitionOf
  Batches <- MCTwoBatches
  Requests <- MCRequests
  RequestOf <- MCTwoRequestOf
  NodesOf <- MCTwoNodesOf
  Workers <- MCWorkers
  GpuWorkers <- MCNoGpu
  Meets <- MCMeets
  CpuGroup = 1
  GpuGroup <- MCGpuGroup
  Flaky <- MCFlaky
  MaxExecutions = 2
  Faults = FALSE
  PollTimeout = FALSE
INVARIANTS
  CancelStopsRuntime
CHECK_DEADLOCK FALSE
