\* Escrow: one job at a time, an agent who may be the client, two mints of which
\* the page knows one, a browser clock one step off, and enough time for an
\* accepted job to expire, complete and be disputed.  Messaging: a message each
\* way, whose PDA is used twice; texts that fit, that no transaction holds, that
\* the program does not, and that the page refuses.
SPECIFICATION WebSpec
CONSTANTS
  alice = alice  bob = bob  p1 = p1  p2 = p2
  Clients = {alice}
  Users = {alice, bob}
  Nonces = {n1}
  Mints = {usdc, other}
  PageMint = usdc
  ClockSkew = 1
  Prices = {0, 1}
  InitialFunds = 1
  Timeout = 2
  MaxTime = 5
  NoUser = NoUser
  NoMint = NoMint
  NoTerms = NoTerms
  NoIx = NoIx
  Writers = {alice, bob}
  Pairs <- EachOther
  MsgNonces = {n1}
  Bodies <- Sealed
  NoBody = NoBody
  NoRow = NoRow
  MAX_MSG_BYTES = 1024
  InitialRent = 1
  MaxUses = 2
  Texts = {5, 700, 725, 1025}
  Passphrases = {p1, p2}
  NoPassphrase = NoPassphrase
INVARIANTS VaultBacksJob RefundsRespectWindows   KeptUntilEnded SentStaysReadable ShownTextWasSent
PROPERTIES ImplementsContract ClicksMeanWhatTheyShow DisputesEnd ClientNeverLockedOut SubmissionsEnd
\* Everything may be settled and closed at the end of time.
CHECK_DEADLOCK FALSE
