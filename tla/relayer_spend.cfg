\* Two requests in overlapping stretches, three texts, windows that slide past
\* their first entry.
SPECIFICATION Spec
SYMMETRY Interchangeable
CONSTANTS
  Requests = {r1, r2}
  Ips = {ip1}
  Parties = {"ann"}
  Bodies = {w1, w2, w3}
  Decoded <- SpendDecoded
  FeeAta = "fees"
  FeeAmountMicro = 1
  DenomTiers = {0}
  RateIpLimit = 1
  RateRecipientLimit = 1
  RateWindow = 0
  ReplayTtl = 2
  MaxTxPerWindow = 1
  SpendWindow = 2
  MinBalance = 2
  BalanceCacheTime = 2
  Routes = {"withdraw"}
  SanctionLists <- SpendLists
  InitialBalance = 4
  MaxTime = 2
  MaxCrashes = 0
INVARIANTS
  NoReplayInFlight
  FloorReadRecently
  
