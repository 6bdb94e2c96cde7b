------------------------------ MODULE QietrPool ------------------------------
(***************************************************************************)
(* The qietr-pool Anchor program: fixed-denomination shielded pool.        *)
(*                                                                         *)
(* Instructions are atomic on Solana (one transaction either commits or    *)
(* leaves every account as it was), so each instruction is one action and  *)
(* an error path is a step that does not happen.  What interleaves is the  *)
(* order in which depositors, spenders and the admin get their             *)
(* transactions in, the slot clock, and redeployments of the program.      *)
(*                                                                         *)
(* Data abstraction.  A commitment Poseidon(secret, nullifier, amount) is  *)
(* the record of what it hides: its nullifier and amount (two notes that   *)
(* differ only in the secret behave alike).  The Merkle tree only grows,   *)
(* so a root is the number of leaves it commits to; 0 stands for the       *)
(* all-zero history slot, which is_known_root refuses.  The Merkle module  *)
(* shows that the on-chain frontier computes the root of exactly those     *)
(* leaves.                                                                 *)
(***************************************************************************)
EXTENDS Integers, FiniteSets, Sequences

CONSTANTS
  DenomIds,        \* denom_id values; denomination d's vault account is named d
  Wallets,         \* canonical associated token accounts of users
  Signers,         \* keys that sign admin instructions
  Mints,           \* SPL mints
  WalletMint,      \* WalletMint[w]: the mint of wallet w
  Nullifiers,      \* nullifiers (and, being hashed injectively, nullifier hashes)
  VKs,             \* verifying keys a build may embed
  TierAmounts,     \* amount_micro_usdc values the admin may choose
  FeeBps,          \* fee_bps arguments initialize_pool is called with
  Capacity,        \* 2^MERKLE_DEPTH
  RootHistoryLen,  \* ROOT_HISTORY_LEN
  VkLockSlots,     \* PENDING_VK_LOCK_SLOTS
  BpsBase,         \* 10000
  InitialFunds,    \* what each wallet holds at the start
  MaxSlot,         \* bound on the clock
  MaxLeafAmount,   \* bound on the amount an arbitrary commitment may hide
  NoKey, NoAccount \* [0u8; 32] and Pubkey::default(), as in a zeroed account

Payable == 0 .. MaxLeafAmount
Note == [nullifier : Nullifiers, amount : Payable]
TokenAccounts == Wallets \cup DenomIds

ASSUME ConstantsOK ==
  /\ WalletMint \in [Wallets -> Mints]
  /\ NoKey \notin VKs
  /\ NoAccount \notin TokenAccounts \cup Signers \cup Mints
  /\ Wallets \cap DenomIds = {}
  /\ TierAmounts \subseteq Payable \ {0}
  /\ MaxLeafAmount \in Nat
  /\ BpsBase \in Nat \ {0} /\ FeeBps \subseteq 0 .. BpsBase
  /\ Capacity \in Nat \ {0}
  /\ RootHistoryLen \in Nat \ {0}
  /\ VkLockSlots \in Nat \ {0}
  /\ InitialFunds \in Nat /\ MaxSlot \in Nat
  /\ Mints # {} /\ Signers # {}
  /\ IsFiniteSet(Nullifiers)

VARIABLES
  config,        \* the PoolConfig account
  denomination,  \* denom_id -> Denomination account
  tree,          \* denom_id -> MerkleTree account
  leaves,        \* denom_id -> notes behind the appended commitments
  nullifiers,    \* existing NullifierRecord PDAs, by their seeds
  balance,       \* SPL balances of wallets and of the vaults
  slot,          \* Clock::get().slot
  embeddedVk,    \* VERIFYINGKEY of the deployed build
  announced,     \* history: every queue_vk_upgrade, with its slot
  payout         \* history: micro-USDC that left a vault for a nullifier

vars == <<config, denomination, tree, leaves, nullifiers, balance, slot,
          embeddedVk, announced, payout>>

-----------------------------------------------------------------------------
(* Accounts *)

Config == [exists : BOOLEAN, admin : Signers \cup {NoAccount},
           fee_bps : 0 .. BpsBase, paused : BOOLEAN,
           verifying_key_hash : VKs \cup {NoKey},
           pending_vk_hash : VKs \cup {NoKey},
           pending_applies_at_slot : Nat,
           fee_vault : TokenAccounts \cup {NoAccount}]

Denomination == [exists : BOOLEAN, amount : Payable,
                 mint : Mints \cup {NoAccount}, deposit_count : Nat]

MerkleTree == [next_leaf_index : 0 .. Capacity,
               root_cursor : 0 .. RootHistoryLen - 1,
               root_history : [0 .. RootHistoryLen - 1 -> 0 .. Capacity]]

TypeOK ==
  /\ config \in Config
  /\ denomination \in [DenomIds -> Denomination]
  /\ tree \in [DenomIds -> MerkleTree]
  /\ leaves \in [DenomIds -> Seq(Note)]
  /\ nullifiers \subseteq DenomIds \X Nullifiers
  /\ balance \in [TokenAccounts -> Nat]
  /\ slot \in Nat
  /\ embeddedVk \in VKs
  /\ announced \subseteq [hash : VKs, slot : Nat]
  /\ payout \in [DenomIds -> [Nullifiers -> Nat]]

EmptyTree == [next_leaf_index |-> 0, root_cursor |-> 0,
              root_history |-> [i \in 0 .. RootHistoryLen - 1 |-> 0]]

\* Mutants of AppendRoot: the cursor runs past the ring; the ring is one short.
AppendRoot_noWrap(t) ==
  LET cursor == (t.root_cursor + 1) % (RootHistoryLen + 1)
      count  == t.next_leaf_index + 1
  IN [next_leaf_index |-> count,
      root_cursor     |-> cursor,
      root_history    |-> [t.root_history EXCEPT ![cursor] = count]]
AppendRoot_shortRing(t) ==
  LET cursor == (t.root_cursor + 1) % (RootHistoryLen - 1)
      count  == t.next_leaf_index + 1
  IN [next_leaf_index |-> count,
      root_cursor     |-> cursor,
      root_history    |-> [t.root_history EXCEPT ![cursor] = count]]

\* merkle.rs append, with the new root named by its leaf count.
AppendRoot(t) ==
  LET cursor == (t.root_cursor + 1) % RootHistoryLen
      count  == t.next_leaf_index + 1
  IN [next_leaf_index |-> count,
      root_cursor     |-> cursor,
      root_history    |-> [t.root_history EXCEPT ![cursor] = count]]

TreeHasRoom(t) == t.next_leaf_index < Capacity

\* Mutant of is_known_root: any root but the zero root will do.
is_known_root_any(t, root) == root # 0

is_known_root(t, root) ==
  /\ root # 0
  /\ \E i \in 0 .. RootHistoryLen - 1 : t.root_history[i] = root

\* SPL Token transfer; a transfer to itself leaves the account as it was.
Transfer(bal, from, to, amt) ==
  [[bal EXCEPT ![from] = @ - amt] EXCEPT ![to] = @ + amt]

MintOf(acct) ==
  IF acct \in DenomIds THEN denomination[acct].mint ELSE WalletMint[acct]

TokenAccountExists(acct) ==
  acct \in Wallets \/ (acct \in DenomIds /\ denomination[acct].exists)

-----------------------------------------------------------------------------
(* The statements the QietrPayment circuit has proofs of, as the public    *)
(* signals of each: a leaf under the root hides the amount and the         *)
(* nullifier, a positive part of the amount is paid to the recipient, and  *)
(* the change commitment hides the rest.  Anybody may also build a tree of *)
(* his own and prove a payment under its root.                             *)
OffChainRoot == Capacity + 1

Signals == [amount : Payable, root : 0 .. OffChainRoot, nullifier : Nullifiers,
            recipient : Wallets, payment : Payable, change : Note]

Payment(note, root, recipient, payment, n) ==
  [amount |-> note.amount, root |-> root, nullifier |-> note.nullifier,
   recipient |-> recipient, payment |-> payment,
   change |-> [nullifier |-> n, amount |-> note.amount - payment]]

\* A leaf, and a root it is under.
Membership(ls) ==
  {m \in (1 .. Len(ls)) \X (1 .. Len(ls)) : m[1] <= m[2]}

\* Mutant of QietrPayment: paymentAmount < amount.
QietrPayment_strict(ls) ==
  UNION { {Payment(ls[m[1]], m[2], w, p, n) :
              w \in Wallets, p \in 1 .. ls[m[1]].amount - 1, n \in Nullifiers}
          : m \in Membership(ls) }

QietrPayment(ls) ==
  (UNION { {Payment(ls[m[1]], m[2], w, p, n) :
               w \in Wallets, p \in 1 .. ls[m[1]].amount, n \in Nullifiers}
           : m \in Membership(ls) })
  \cup
  (UNION { {Payment(note, OffChainRoot, w, p, n) :
               w \in Wallets, p \in 1 .. note.amount, n \in Nullifiers}
           : note \in Note })

\* lib.rs withdraw, step 9: the protocol fee, and the account that takes it.
FeeOf(payment) ==
  IF config.fee_vault = NoAccount THEN 0
  ELSE (payment * config.fee_bps) \div BpsBase

\* Mutant of NetOf: the fee is taken on top of the payment.
NetOf_onTop(payment) == payment

NetOf(payment) == payment - FeeOf(payment)

\* The fee_vault argument (None is NoAccount) is looked at only once the
\* pool has one.
FeeVaultAccepted(fv) == config.fee_vault # NoAccount => fv = config.fee_vault

\* Mutant of SeedBoundToProof: the PDA seed is not tied to the proof.
SeedBoundToProof_not(arg, s) == TRUE

\* arg is the instruction argument the NullifierRecord PDA is derived from.
SeedBoundToProof(arg, s) == arg = s.nullifier

\* What Anchor checks before the body runs: the accounts exist and fit, and
\* the `init` of the NullifierRecord PDA needs it not to exist.
DepositAccounts(d, wallet) ==
  /\ config.exists /\ denomination[d].exists
  /\ WalletMint[wallet] = denomination[d].mint

WithdrawAccounts(d, arg, acct, fv) ==
  /\ config.exists /\ denomination[d].exists
  /\ MintOf(acct) = denomination[d].mint
  /\ <<d, arg>> \notin nullifiers
  /\ fv # NoAccount => MintOf(fv) = denomination[d].mint

-----------------------------------------------------------------------------
Init ==
  /\ config = [exists |-> FALSE, admin |-> NoAccount, fee_bps |-> 0,
               paused |-> FALSE, verifying_key_hash |-> NoKey,
               pending_vk_hash |-> NoKey, pending_applies_at_slot |-> 0,
               fee_vault |-> NoAccount]
  /\ denomination = [d \in DenomIds |-> [exists |-> FALSE, amount |-> 0,
                                         mint |-> NoAccount, deposit_count |-> 0]]
  /\ tree = [d \in DenomIds |-> EmptyTree]
  /\ leaves = [d \in DenomIds |-> << >>]
  /\ nullifiers = {}
  /\ balance = [a \in TokenAccounts |-> IF a \in Wallets THEN InitialFunds ELSE 0]
  /\ slot = 0
  /\ embeddedVk \in VKs
  /\ announced = {}
  /\ payout = [d \in DenomIds |-> [n \in Nullifiers |-> 0]]

\* `init` on the config PDA: the first caller becomes the admin, once.
initialize_pool(signer, bps) ==
  /\ ~config.exists
  /\ config' = [exists |-> TRUE, admin |-> signer, fee_bps |-> bps,
                paused |-> FALSE, verifying_key_hash |-> embeddedVk,
                pending_vk_hash |-> NoKey, pending_applies_at_slot |-> 0,
                fee_vault |-> NoAccount]
  /\ UNCHANGED <<denomination, tree, leaves, nullifiers, balance, slot,
                 embeddedVk, announced, payout>>

AdminSigned(signer) == config.exists /\ signer = config.admin

initialize_denomination(signer, d, amt, mint) ==
  /\ AdminSigned(signer)
  /\ ~denomination[d].exists
  /\ denomination' = [denomination EXCEPT ![d] =
                        [exists |-> TRUE, amount |-> amt, mint |-> mint,
                         deposit_count |-> 0]]
  /\ tree' = [tree EXCEPT ![d] = EmptyTree]
  /\ UNCHANGED <<config, leaves, nullifiers, balance, slot, embeddedVk,
                 announced, payout>>

CountDeposit(denom) == [denom EXCEPT !.deposit_count = @ + 1]

\* The commitment is opaque to the program: it may hide any amount, or a
\* nullifier already used.
deposit(d, wallet, note) ==
  /\ DepositAccounts(d, wallet)
  /\ ~config.paused
  /\ balance[wallet] >= denomination[d].amount
  /\ TreeHasRoom(tree[d])
  /\ balance' = Transfer(balance, wallet, d, denomination[d].amount)
  /\ tree' = [tree EXCEPT ![d] = AppendRoot(@)]
  /\ leaves' = [leaves EXCEPT ![d] = Append(@, note)]
  /\ denomination' = [denomination EXCEPT ![d] = CountDeposit(@)]
  /\ UNCHANGED <<config, nullifiers, slot, embeddedVk, announced, payout>>

\* arg drives the NullifierRecord PDA, acct is the recipient token account
\* and fv the optional fee vault; all three come from whoever submits.
WithdrawAccepted(d, arg, s, acct, fv) ==
  /\ WithdrawAccounts(d, arg, acct, fv)
  /\ ~config.paused
  /\ SeedBoundToProof(arg, s)
  /\ s.recipient = acct
  /\ embeddedVk = config.verifying_key_hash
  /\ is_known_root(tree[d], s.root)
  /\ s.amount = denomination[d].amount
  /\ s \in QietrPayment(leaves[d])
  /\ FeeVaultAccepted(fv)
  /\ balance[d] >= s.payment
  /\ TreeHasRoom(tree[d])

withdraw(d, arg, s, acct, fv) ==
  /\ WithdrawAccepted(d, arg, s, acct, fv)
  /\ nullifiers' = nullifiers \cup {<<d, arg>>}
  /\ LET net == Transfer(balance, d, acct, NetOf(s.payment))
     IN balance' = IF config.fee_vault = NoAccount THEN net
                   ELSE Transfer(net, d, config.fee_vault, FeeOf(s.payment))
  /\ tree' = [tree EXCEPT ![d] = AppendRoot(@)]
  /\ leaves' = [leaves EXCEPT ![d] = Append(@, s.change)]
  /\ payout' = [payout EXCEPT ![d][s.nullifier] = @ + s.payment]
  /\ UNCHANGED <<config, denomination, slot, embeddedVk, announced>>

set_paused(signer, paused) ==
  /\ AdminSigned(signer)
  /\ config' = [config EXCEPT !.paused = paused]
  /\ UNCHANGED <<denomination, tree, leaves, nullifiers, balance, slot,
                 embeddedVk, announced, payout>>

\* Mutant of queue_vk_upgrade: a second call keeps the lock of the first.
queue_vk_upgrade_keepLock(signer, vk) ==
  /\ AdminSigned(signer)
  /\ config' = [config EXCEPT !.pending_vk_hash = vk,
                              !.pending_applies_at_slot =
                                 IF @ = 0 THEN slot + VkLockSlots ELSE @]
  /\ announced' = announced \cup {[hash |-> vk, slot |-> slot]}
  /\ UNCHANGED <<denomination, tree, leaves, nullifiers, balance, slot,
                 embeddedVk, payout>>

\* A second call replaces the pending hash and restarts its lock.
queue_vk_upgrade(signer, vk) ==
  /\ AdminSigned(signer)
  /\ config' = [config EXCEPT !.pending_vk_hash = vk,
                              !.pending_applies_at_slot = slot + VkLockSlots]
  /\ announced' = announced \cup {[hash |-> vk, slot |-> slot]}
  /\ UNCHANGED <<denomination, tree, leaves, nullifiers, balance, slot,
                 embeddedVk, payout>>

apply_vk_upgrade(signer) ==
  /\ AdminSigned(signer)
  /\ config.pending_applies_at_slot # 0
  /\ slot >= config.pending_applies_at_slot
  /\ config' = [config EXCEPT !.verifying_key_hash = config.pending_vk_hash,
                              !.pending_vk_hash = NoKey,
                              !.pending_applies_at_slot = 0]
  /\ UNCHANGED <<denomination, tree, leaves, nullifiers, balance, slot,
                 embeddedVk, announced, payout>>

\* Any token account will do: its mint is only looked at by withdraw.
set_fee_vault(signer, acct) ==
  /\ AdminSigned(signer)
  /\ TokenAccountExists(acct)
  /\ config' = [config EXCEPT !.fee_vault = acct]
  /\ UNCHANGED <<denomination, tree, leaves, nullifiers, balance, slot,
                 embeddedVk, announced, payout>>

\* The upgrade authority deploys a build with another embedded key.
Redeploy(vk) ==
  /\ vk # embeddedVk
  /\ embeddedVk' = vk
  /\ UNCHANGED <<config, denomination, tree, leaves, nullifiers, balance,
                 slot, announced, payout>>

Tick ==
  /\ slot < MaxSlot
  /\ slot' = slot + 1
  /\ UNCHANGED <<config, denomination, tree, leaves, nullifiers, balance,
                 embeddedVk, announced, payout>>

AdminStep ==
  \E signer \in Signers :
    \/ \E bps \in FeeBps : initialize_pool(signer, bps)
    \/ \E d \in DenomIds, amt \in TierAmounts, mint \in Mints :
          initialize_denomination(signer, d, amt, mint)
    \/ \E b \in BOOLEAN : set_paused(signer, b)
    \/ \E vk \in VKs : queue_vk_upgrade(signer, vk)
    \/ apply_vk_upgrade(signer)
    \/ \E acct \in TokenAccounts : set_fee_vault(signer, acct)

UserStep ==
  \E d \in DenomIds :
    \/ \E w \in Wallets, note \in Note : deposit(d, w, note)
    \/ \E s \in QietrPayment(leaves[d]), arg \in Nullifiers, acct \in Wallets,
          fv \in TokenAccounts \cup {NoAccount} : withdraw(d, arg, s, acct, fv)

ChainStep == Tick \/ \E vk \in VKs : Redeploy(vk)

Next == AdminStep \/ UserStep \/ ChainStep

Spec == Init /\ [][Next]_vars

-----------------------------------------------------------------------------
(* Properties *)

\* Nullifiers of tier-valued notes in d's tree that are not spent: each of
\* them can claim the full tier amount.
LiveNullifiers(d) ==
  {n \in Nullifiers :
     /\ \E i \in 1 .. Len(leaves[d]) :
           leaves[d][i] = [nullifier |-> n, amount |-> denomination[d].amount]
     /\ <<d, n>> \notin nullifiers}

\* Every vault can pay every outstanding tier note in full, whatever was
\* deposited, spent in part, appended as change or taken as a fee (deposit
\* and withdraw in lib.rs; the program never compares the two totals).
Solvent ==
  \A d \in DenomIds :
    balance[d] >= denomination[d].amount * Cardinality(LiveNullifiers(d))

\* A nullifier moves money out of a vault only once, at most one tier
\* amount, and is on record from then on (NullifierRecord PDA).
PaidOncePerNote ==
  \A d \in DenomIds, n \in Nullifiers :
    /\ payout[d][n] <= denomination[d].amount
    /\ payout[d][n] > 0 <=> <<d, n>> \in nullifiers

\* is_known_root accepts exactly the roots after the last RootHistoryLen
\* appends, deposits and withdraws alike (the ring buffer of merkle.rs).
KnownRootsAreWindow ==
  \A d \in DenomIds :
    LET n == tree[d].next_leaf_index
    IN \A k \in 0 .. Capacity :
         is_known_root(tree[d], k) <=> (k >= 1 /\ k <= n /\ k > n - RootHistoryLen)

\* The pool keeps the promise of the abstract ledger: a tier's live notes
\* are its outstanding tier-valued nullifiers, its funds the vault's balance
\* (every instruction of lib.rs is a step of the ledger or leaves it alone).
Ledger == INSTANCE ShieldedLedger WITH
  tier  <- [d \in DenomIds |-> denomination[d].amount],
  live  <- [d \in DenomIds |-> LiveNullifiers(d)],
  spent <- [d \in DenomIds |-> {n \in Nullifiers : <<d, n>> \in nullifiers}],
  funds <- [d \in DenomIds |-> balance[d]]

ImplementsLedger == Ledger!Spec

\* The key hash withdraws are checked against changes only to the hash of
\* the latest announcement, and only once that one stood for the whole lock
\* (queue_vk_upgrade and apply_vk_upgrade; a redeployment alone never does).
VkChangesOnlyAfterNotice ==
  [][config.exists /\ config'.verifying_key_hash # config.verifying_key_hash =>
       \E a \in announced :
         /\ a.hash = config'.verifying_key_hash
         /\ a.slot + VkLockSlots <= slot
         /\ \A b \in announced : b.slot <= a.slot]_vars

\* The conditions outside a spender's control under which withdraw works.
PoolServes(d) ==
  /\ denomination[d].exists /\ ~config.paused
  /\ embeddedVk = config.verifying_key_hash
  /\ TreeHasRoom(tree[d])
  /\ config.fee_vault # NoAccount => MintOf(config.fee_vault) = denomination[d].mint

\* Some proof of paying p from the note passes every check of withdraw.
CanPay(d, note, w, p) ==
  \E s \in QietrPayment(leaves[d]) :
    /\ s.nullifier = note.nullifier /\ s.payment = p
    /\ WithdrawAccepted(d, note.nullifier, s, w, config.fee_vault)

\* While the pool serves, the owner of an outstanding tier note can pay any
\* part of it to any wallet of the mint: the newest root covers every leaf
\* and the vault never runs short (withdraw's checks taken together).
UnspentNotesPayable ==
  \A d \in DenomIds : PoolServes(d) =>
    \A n \in LiveNullifiers(d), w \in Wallets, p \in 1 .. denomination[d].amount :
      WalletMint[w] = denomination[d].mint =>
        CanPay(d, [nullifier |-> n, amount |-> denomination[d].amount], w, p)

\* docs/dev/08-security-risks.md T7: "A 100 USDC tier note can be spent in
\* any combination of payments; the change commitment carries forward."
\* So a note in the tree with something left in it can pay something.
ChangeCarriesForward ==
  \A d \in DenomIds : PoolServes(d) =>
    \A i \in 1 .. Len(leaves[d]) :
      LET note == leaves[d][i]
      IN note.amount \in 1 .. denomination[d].amount
         /\ <<d, note.nullifier>> \notin nullifiers =>
           \E w \in Wallets, p \in 1 .. note.amount : CanPay(d, note, w, p)
=============================================================================
