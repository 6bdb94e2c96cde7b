\* Two denominations, three leaves over two transactions, and a tick that stops
\* anywhere; the node returns every transaction it lists.
SPECIFICATION FairSpec
CONSTANTS
  Denoms = {d1, d2}
  MaxLeaves = 3
  MaxTxs = 2
  MaxAborts = 1
  PageLimit = 1
  RpcMayMiss = FALSE
INVARIANTS IndexMirrorsTree
PROPERTIES IndexCatchesUp
