\* Two parties, one of them always listed and the other now and then, a deposit
\* that pays its fee elsewhere, quotes on the same budget, a crash and a restart.
SPECIFICATION Spec
CONSTANTS
  Requests = {r1}
  Ips = {ip1}
  Parties = {"ann", "mal"}
  Bodies = {"w1", "w2", "d1", "d2"}
  Decoded <- PolicyDecoded
  FeeAta = "fees"
  FeeAmountMicro = 1
  DenomTiers = {0}
  RateIpLimit = 1
  RateRecipientLimit = 1
  RateWindow = 2
  ReplayTtl = 1
  MaxTxPerWindow = 1
  SpendWindow = 1
  MinBalance = 2
  BalanceCacheTime = 1
  Routes = {"withdraw", "deposit", "quote", "deposit-quote"}
  SanctionLists <- PolicyLists
  InitialBalance = 3
  MaxTime = 2
  MaxCrashes = 1
INVARIANTS
  
  RateLimited
