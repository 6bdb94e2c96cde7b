\* One denomination, two requests that share the cache, and a node that may not
\* have a transaction it has listed.
SPECIFICATION ApiSpec
CONSTANTS
  Denoms = {d1}
  MaxLeaves = 2
  MaxTxs = 2
  MaxAborts = 0
  PageLimit = 1
  RpcMayMiss = TRUE
  Queries = {q1, q2}
INVARIANTS ServedProofsVerify ServedProofsAreCurrent NoFalseAlarm
