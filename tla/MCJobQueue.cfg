\* The queue: safety, refinement of the abstract one, and that nothing starves.
SPECIFICATION FairSpec
CONSTANTS
  Workflows <- MCWorkflows
  Jobs <- MCJobs
  Users <- MCUsers
  Partitions <- MCPartitions
  ItemsOf <- MCItemsOf
  UserOf <- MCUserOf
  PriorityOf <- MCPriorityOf
  PartOf <- MCPartOf
  Recurring <- MCRecurring
  Quantum <- MCQuantum
  BatchSize = 2
  StarvationLimit = 1
  MissCap = 2
  None = None
INVARIANTS
  TypeOK
  QueuesConsistent
  ReservationSound
  StarvedGoFirst
  EveryUserServed
  NoLostWakeup
PROPERTIES
  ReserveIsPure
  ImplementsWorkflowQueue
  EventuallyDispatched
