\* Two tiers whose vaults may take each other's fees: the pool implements the
\* abstract ledger.
SPECIFICATION Spec
CONSTANTS
  d1 = d1  d2 = d2
  alice = alice  fees = fees  foreign = foreign
  usdc = usdc  other = other
  DenomIds = {d1, d2}
  Wallets = {alice}
  Signers = {admin}
  Mints = {usdc}
  WalletMint <- MintsOfWallets
  Nullifiers = {n1, n2}
  VKs = {k1}
  TierAmounts = {2}
  FeeBps = {0, 5}
  Capacity = 3
  RootHistoryLen = 2
  VkLockSlots = 1
  BpsBase = 10
  InitialFunds = 4
  MaxSlot = 0
  MaxLeafAmount = 2
  NoKey = NoKey
  NoAccount = NoAccount
SYMMETRY TierSymmetry
INVARIANTS Solvent PaidOncePerNote
PROPERTIES ImplementsLedger
