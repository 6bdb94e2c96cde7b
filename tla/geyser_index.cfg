\* A ledger of three transactions, some failed, a queue that never fills and no
\* fault: the plainest life of the plugin.
SPECIFICATION Spec
CONSTANTS
  Denoms = {d1}
  QUEUE_CAPACITY = 8
  FailedTxs = TRUE
  MaxTxs = 3
  MaxFaults = 0
INVARIANTS RowsAreLeaves
CHECK_DEADLOCK FALSE
