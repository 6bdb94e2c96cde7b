\* One denomination, three transactions, a queue of two events, and one fault:
\* a write that fails, or an unload in a crash with whatever is queued.
SPECIFICATION FairSpec
CONSTANTS
  Denoms = {d1}
  QUEUE_CAPACITY = 2
  FailedTxs = FALSE
  MaxTxs = 3
  MaxFaults = 1
INVARIANTS AccountTablesComplete CheckpointCoversSpends
PROPERTIES SpendsAreIndexed
CHECK_DEADLOCK FALSE
