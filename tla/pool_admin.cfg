\* Administration: two keys, a lock of two slots, an outsider who signs, a fee
\* vault of the wrong mint, and a ring that wraps meanwhile.
SPECIFICATION Spec
CONSTANTS
  d1 = d1  d2 = d2
  alice = alice  fees = fees  foreign = foreign
  usdc = usdc  other = other
  DenomIds = {d1}
  Wallets = {alice, foreign}
  Signers = {admin, outsider}
  Mints = {usdc, other}
  WalletMint <- MintsOfWallets
  Nullifiers = {n1}
  VKs = {k1, k2}
  TierAmounts = {1}
  FeeBps = {5}
  Capacity = 3
  RootHistoryLen = 2
  VkLockSlots = 2
  BpsBase = 10
  InitialFunds = 2
  MaxSlot = 3
  MaxLeafAmount = 1
  NoKey = NoKey
  NoAccount = NoAccount
SYMMETRY Symmetry
INVARIANTS TypeOK KnownRootsAreWindow UnspentNotesPayable
PROPERTIES VkChangesOnlyAfterNotice
