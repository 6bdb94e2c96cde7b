\* Spending change: what the risk document promises of a tier note.
SPECIFICATION WellFormedSpec
CONSTANTS
  d1 = d1  d2 = d2
  alice = alice  fees = fees  foreign = foreign
  usdc = usdc  other = other
  DenomIds = {d1}
  Wallets = {alice, fees}
  Signers = {admin}
  Mints = {usdc}
  WalletMint <- MintsOfWallets
  Nullifiers = {n1, n2, n3}
  VKs = {k1}
  TierAmounts = {2}
  FeeBps = {0, 5}
  Capacity = 3
  RootHistoryLen = 2
  VkLockSlots = 1
  BpsBase = 10
  InitialFunds = 4
  MaxSlot = 0
  MaxLeafAmount = 2
  NoKey = NoKey
  NoAccount = NoAccount
SYMMETRY Symmetry
INVARIANTS ChangeCarriesForward
