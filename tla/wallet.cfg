\* One instance: two calls of any kind over three tier commitments; merchants ask
\* for three amounts within the ceiling and one above it, for a payee on the list
\* or not.  Pages: two tabs, and two payments or deposits.
SPECIFICATION WalletOrSdkSpec
CONSTANTS
  Calls = {k1, k2}
  Tier = 4
  InitialNotes = 3
  maxAmountMicro = 3
  maxRetries = 2
  payToAllowlist = {m1}
  Payees = {m1, m2}
  Micros = {1, 2, 3, 4}
  Resources = {r1}
  Tabs = {t1, t2}
  FirstNote = {1}
  MaxCommitments = 3
INVARIANTS NoteIsSumOfCalls SettledOncePerCall StoredNoteIsTheMoney
CHECK_DEADLOCK FALSE
