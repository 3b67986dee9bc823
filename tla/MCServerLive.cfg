\* Every request is answered: workers come and go, acquisitions time out.
SPECIFICATION FairSpec
CONSTANTS
  ra = ra
  rb = rb
  rc = rc
  g1 = g1
  g2 = g2
  Workflows <- MCTwo
  PartitionOf <- MCTwoPartitionOf
  Batches <- MCTwoBatches
  Requests <- MCRequests
  RequestOf <- MCTwoRequestOf
  NodesOf <- MCTwoNodesOf
  Workers <- MCWorkers
  GpuWorkers <- MCNoGpu
  Meets <- MCMeets
  CpuGroup = 1
  GpuGroup <- MCGpuGroup
  Flaky <- MCFlaky
  MaxExecutions = 2
  Faults = FALSE
  PollTimeout = TRUE
PROPERTIES
  EveryRequestReleased
CHECK_DEADLOCK FALSE
