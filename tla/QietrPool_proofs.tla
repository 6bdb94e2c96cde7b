--------------------------- MODULE QietrPool_proofs ---------------------------
(***************************************************************************)
(* Proofs about QietrPool for every value of its constants: its type       *)
(* invariant, the key timelock and the window of known roots; then its     *)
(* money: the solvency of the vaults, no double payment, the ledger it     *)
(* implements, and that a note outstanding can be paid with.               *)
(***************************************************************************)
EXTENDS QietrPool, ProofLemmas

-----------------------------------------------------------------------------
(* Facts about the operators *)

\* The protocol fee never exceeds the payment it is taken from: fee_bps is
\* at most 10000 (initialize_pool), so the checked_sub in withdraw succeeds.
LEMMA FeeBounded ==
  ASSUME NEW p \in Nat, NEW b \in 0 .. BpsBase
  PROVE  (p * b) \div BpsBase \in 0 .. p
<1>1. BpsBase \in Nat /\ BpsBase > 0 /\ b \in Nat /\ b <= BpsBase
  BY ConstantsOK
<1>2. p * b \in Nat /\ p * b <= p * BpsBase /\ p * BpsBase \in Nat
  BY <1>1
<1> DEFINE q == (p * b) \div BpsBase
<1>3. q \in Nat /\ BpsBase * q <= p * b
  BY <1>1, <1>2
<1>4. BpsBase * q <= BpsBase * p
  BY <1>1, <1>2, <1>3
<1>5. q <= p
  BY <1>1, <1>3, <1>4
<1> QED BY <1>3, <1>5

\* Every statement the circuit proves is made of public signals, pays a
\* positive part of the amount it claims and puts the rest into the change.
LEMMA PaymentTyped ==
  ASSUME NEW ls \in Seq(Note), NEW s \in QietrPayment(ls), Len(ls) <= Capacity
  PROVE  /\ s \in Signals
         /\ s.payment \in 1 .. s.amount
         /\ s.change.amount = s.amount - s.payment
         /\ s.root # OffChainRoot =>
              \E i \in 1 .. Len(ls) :
                /\ i <= s.root
                /\ ls[i] = [nullifier |-> s.nullifier, amount |-> s.amount]
<1>1. MaxLeafAmount \in Nat /\ Capacity \in Nat
  BY ConstantsOK
<1>2. ASSUME NEW note \in Note, NEW root \in 0 .. OffChainRoot, NEW w \in Wallets,
             NEW p \in 1 .. note.amount, NEW n \in Nullifiers,
             s = Payment(note, root, w, p, n)
      PROVE  /\ s \in Signals
             /\ s.payment \in 1 .. s.amount
             /\ s.change.amount = s.amount - s.payment
             /\ note = [nullifier |-> s.nullifier, amount |-> s.amount]
             /\ s.root = root
  <2>1. note.amount \in Nat /\ note.amount <= MaxLeafAmount
    BY <1>1 DEF Note, Payable
  <2>2. note.amount - p \in Payable /\ p \in Payable
    BY <2>1, <1>1 DEF Payable
  <2> QED BY <1>1, <1>2, <2>1, <2>2 DEF Payment, Signals, Note
<1>3. CASE \E m \in Membership(ls), w \in Wallets, n \in Nullifiers :
             \E p \in 1 .. ls[m[1]].amount : s = Payment(ls[m[1]], m[2], w, p, n)
  <2>1. PICK m \in Membership(ls), w \in Wallets, n \in Nullifiers :
               \E p \in 1 .. ls[m[1]].amount : s = Payment(ls[m[1]], m[2], w, p, n)
    BY <1>3
  <2>2. PICK p \in 1 .. ls[m[1]].amount : s = Payment(ls[m[1]], m[2], w, p, n)
    BY <2>1
  <2>3. /\ m[1] \in 1 .. Len(ls) /\ m[2] \in 1 .. Len(ls) /\ m[1] <= m[2]
        /\ ls[m[1]] \in Note
    BY DEF Membership
  <2>4. m[2] \in 0 .. OffChainRoot
    BY <2>3, <1>1 DEF OffChainRoot
  <2> QED BY <1>2, <2>2, <2>3, <2>4
<1>4. CASE \E note \in Note, w \in Wallets, n \in Nullifiers :
             \E p \in 1 .. note.amount : s = Payment(note, OffChainRoot, w, p, n)
  <2>1. PICK note \in Note, w \in Wallets, n \in Nullifiers :
               \E p \in 1 .. note.amount : s = Payment(note, OffChainRoot, w, p, n)
    BY <1>4
  <2>2. PICK p \in 1 .. note.amount : s = Payment(note, OffChainRoot, w, p, n)
    BY <2>1
  <2>3. OffChainRoot \in 0 .. OffChainRoot
    BY <1>1 DEF OffChainRoot
  <2> QED BY <1>2, <2>2, <2>3
<1> QED BY <1>3, <1>4 DEF QietrPayment

\* One append leaves a well-formed tree with one more leaf (merkle.rs).
LEMMA AppendRootTyped ==
  ASSUME NEW t \in MerkleTree, TreeHasRoom(t)
  PROVE  /\ AppendRoot(t) \in MerkleTree
         /\ AppendRoot(t).next_leaf_index = t.next_leaf_index + 1
<1>1. RootHistoryLen \in Nat \ {0} /\ Capacity \in Nat
  BY ConstantsOK
<1>2. t.root_cursor + 1 \in Nat
  BY <1>1 DEF MerkleTree
<1>3. (t.root_cursor + 1) % RootHistoryLen \in 0 .. RootHistoryLen - 1
  BY <1>1, <1>2, DivMod
<1>4. t.next_leaf_index + 1 \in 0 .. Capacity
  BY <1>1 DEF MerkleTree, TreeHasRoom
<1> QED BY <1>3, <1>4 DEF MerkleTree, AppendRoot

\* A covered SPL transfer takes the amount from one account and gives it to
\* the other; nobody else's balance moves.
LEMMA TransferTyped ==
  ASSUME NEW bal \in [TokenAccounts -> Nat], NEW from \in TokenAccounts,
         NEW to \in TokenAccounts, NEW amt \in Nat, amt <= bal[from]
  PROVE  /\ Transfer(bal, from, to, amt) \in [TokenAccounts -> Nat]
         /\ Transfer(bal, from, to, amt)[from] >= bal[from] - amt
         /\ from # to => Transfer(bal, from, to, amt)[to] = bal[to] + amt
         /\ \A a \in TokenAccounts \ {from} :
              Transfer(bal, from, to, amt)[a] >= bal[a]
<1>1. CASE from = to
  BY <1>1 DEF Transfer
<1>2. CASE from # to
  BY <1>2 DEF Transfer
<1> QED BY <1>1, <1>2

-----------------------------------------------------------------------------
(* Types *)

\* The leaf count is the number of leaves, and a tier that is not open has
\* none: what makes the signals of a proof well typed.
LeavesCounted ==
  \A d \in DenomIds :
    /\ tree[d].next_leaf_index = Len(leaves[d])
    /\ ~denomination[d].exists => leaves[d] = << >>

TypeInv == TypeOK /\ LeavesCounted

LEMMA InitTypeInv == Init => TypeInv
<1> SUFFICES ASSUME Init PROVE TypeInv
  OBVIOUS
<1>1. RootHistoryLen \in Nat \ {0} /\ Capacity \in Nat \ {0} /\ InitialFunds \in Nat
      /\ MaxLeafAmount \in Nat /\ BpsBase \in Nat
  BY ConstantsOK
<1>2. EmptyTree \in MerkleTree /\ EmptyTree.next_leaf_index = 0
  BY <1>1 DEF EmptyTree, MerkleTree
<1>3. config \in Config
  BY <1>1 DEF Init, Config
<1>4. denomination \in [DenomIds -> Denomination]
  BY <1>1 DEF Init, Denomination, Payable
<1>5. leaves \in [DenomIds -> Seq(Note)] /\ \A d \in DenomIds : leaves[d] = << >>
  BY DEF Init
<1>6. balance \in [TokenAccounts -> Nat]
  BY <1>1 DEF Init
<1>7. TypeOK
  BY <1>2, <1>3, <1>4, <1>5, <1>6 DEF Init, TypeOK
<1>8. LeavesCounted
  BY <1>2, <1>5 DEF Init, LeavesCounted
<1> QED BY <1>7, <1>8 DEF TypeInv

\* An instruction on the config account alone keeps every type.
LEMMA ConfigStepTypeInv ==
  ASSUME TypeInv, config' \in Config, announced' \subseteq [hash : VKs, slot : Nat],
         UNCHANGED <<denomination, tree, leaves, nullifiers, balance, slot,
                     embeddedVk, payout>>
  PROVE  TypeInv'
BY DEF TypeInv, TypeOK, LeavesCounted

\* What appending a note to d's tree (deposit, withdraw) does to the types.
LEMMA AppendTypeInv ==
  ASSUME TypeInv, NEW d \in DenomIds, NEW note \in Note, TreeHasRoom(tree[d]),
         denomination[d].exists,
         tree' = [tree EXCEPT ![d] = AppendRoot(@)],
         leaves' = [leaves EXCEPT ![d] = Append(@, note)],
         \A e \in DenomIds : denomination'[e].exists = denomination[e].exists
  PROVE  /\ tree' \in [DenomIds -> MerkleTree]
         /\ leaves' \in [DenomIds -> Seq(Note)]
         /\ LeavesCounted'
<1>1. tree[d] \in MerkleTree /\ leaves[d] \in Seq(Note)
  BY DEF TypeInv, TypeOK
<1>2. AppendRoot(tree[d]) \in MerkleTree
      /\ AppendRoot(tree[d]).next_leaf_index = tree[d].next_leaf_index + 1
  BY <1>1, AppendRootTyped
<1>3. Append(leaves[d], note) \in Seq(Note)
      /\ Len(Append(leaves[d], note)) = Len(leaves[d]) + 1
  BY <1>1
<1>4. tree' \in [DenomIds -> MerkleTree] /\ leaves' \in [DenomIds -> Seq(Note)]
  BY <1>2, <1>3 DEF TypeInv, TypeOK
<1>5. ASSUME NEW e \in DenomIds
      PROVE  /\ tree'[e].next_leaf_index = Len(leaves'[e])
             /\ ~denomination'[e].exists => leaves'[e] = << >>
  <2>1. CASE e = d
    BY <2>1, <1>2, <1>3 DEF TypeInv, TypeOK, LeavesCounted
  <2>2. CASE e # d
    BY <2>2 DEF TypeInv, TypeOK, LeavesCounted
  <2> QED BY <2>1, <2>2
<1> QED BY <1>4, <1>5 DEF LeavesCounted

LEMMA DepositTypeInv ==
  ASSUME TypeInv, NEW d \in DenomIds, NEW w \in Wallets, NEW note \in Note,
         deposit(d, w, note)
  PROVE  TypeInv'
<1>1. denomination[d].exists /\ TreeHasRoom(tree[d])
  BY DEF deposit, DepositAccounts
<1>2. denomination[d] \in Denomination
  BY DEF TypeInv, TypeOK
<1>3. denomination' \in [DenomIds -> Denomination]
      /\ \A e \in DenomIds : denomination'[e].exists = denomination[e].exists
  <2>1. CountDeposit(denomination[d]) \in Denomination
        /\ CountDeposit(denomination[d]).exists = denomination[d].exists
    BY <1>2 DEF Denomination, CountDeposit
  <2>2. denomination' = [denomination EXCEPT ![d] = CountDeposit(denomination[d])]
    BY DEF deposit
  <2> QED BY <2>1, <2>2 DEF TypeInv, TypeOK
<1>4. /\ tree' \in [DenomIds -> MerkleTree]
      /\ leaves' \in [DenomIds -> Seq(Note)]
      /\ LeavesCounted'
  <2>1. tree' = [tree EXCEPT ![d] = AppendRoot(@)]
        /\ leaves' = [leaves EXCEPT ![d] = Append(@, note)]
    BY DEF deposit
  <2> QED BY <1>1, <1>3, <2>1, AppendTypeInv
<1>5. balance' \in [TokenAccounts -> Nat]
  <2>1. /\ balance \in [TokenAccounts -> Nat]
        /\ w \in TokenAccounts /\ d \in TokenAccounts
        /\ denomination[d].amount \in Nat
        /\ denomination[d].amount <= balance[w]
    BY <1>2, ConstantsOK
    DEF deposit, TypeInv, TypeOK, TokenAccounts, Denomination, Payable
  <2> QED BY <2>1, TransferTyped DEF deposit
<1> QED BY <1>3, <1>4, <1>5 DEF deposit, TypeInv, TypeOK

\* What a withdraw that passes the checks claims and pays.
LEMMA WithdrawFacts ==
  ASSUME TypeInv, NEW d \in DenomIds, NEW arg \in Nullifiers,
         NEW s \in QietrPayment(leaves[d]), NEW acct \in Wallets,
         NEW fv \in TokenAccounts \cup {NoAccount},
         withdraw(d, arg, s, acct, fv)
  PROVE  /\ s \in Signals /\ arg = s.nullifier
         /\ s.payment \in 1 .. denomination[d].amount
         /\ s.change.amount = denomination[d].amount - s.payment
         /\ \E i \in 1 .. Len(leaves[d]) :
              leaves[d][i] = [nullifier |-> s.nullifier,
                              amount |-> denomination[d].amount]
         /\ <<d, s.nullifier>> \notin nullifiers
         /\ FeeOf(s.payment) \in 0 .. s.payment
         /\ NetOf(s.payment) \in 0 .. s.payment
         /\ NetOf(s.payment) + FeeOf(s.payment) = s.payment
         /\ s.payment <= balance[d]
<1>1. /\ is_known_root(tree[d], s.root) /\ s.amount = denomination[d].amount
      /\ arg = s.nullifier /\ <<d, arg>> \notin nullifiers
      /\ balance[d] >= s.payment
  BY DEF withdraw, WithdrawAccepted, SeedBoundToProof, WithdrawAccounts
<1>2. tree[d] \in MerkleTree /\ leaves[d] \in Seq(Note) /\ Len(leaves[d]) <= Capacity
  BY ConstantsOK DEF TypeInv, TypeOK, LeavesCounted, MerkleTree
<1>3. s.root # OffChainRoot
  BY SMTT(30), <1>1, <1>2, ConstantsOK DEF is_known_root, MerkleTree, OffChainRoot
<1>4. /\ s \in Signals
      /\ s.payment \in 1 .. s.amount
      /\ s.change.amount = s.amount - s.payment
      /\ \E i \in 1 .. Len(leaves[d]) :
           /\ i <= s.root
           /\ leaves[d][i] = [nullifier |-> s.nullifier, amount |-> s.amount]
  BY <1>2, <1>3, PaymentTyped
<1>5. s.payment \in Nat /\ balance[d] \in Nat
  BY <1>4, ConstantsOK DEF Signals, Payable, TypeInv, TypeOK, TokenAccounts
<1>6. FeeOf(s.payment) \in 0 .. s.payment
  <2>1. CASE config.fee_vault = NoAccount
    BY <2>1, <1>5 DEF FeeOf
  <2>2. CASE config.fee_vault # NoAccount
    <3>1. config.fee_bps \in 0 .. BpsBase
      BY DEF TypeInv, TypeOK, Config
    <3> QED BY <2>2, <3>1, <1>5, FeeBounded DEF FeeOf
  <2> QED BY <2>1, <2>2
<1>7. NetOf(s.payment) \in 0 .. s.payment
      /\ NetOf(s.payment) + FeeOf(s.payment) = s.payment
  BY <1>5, <1>6 DEF NetOf
<1> QED BY <1>1, <1>4, <1>5, <1>6, <1>7

\* Both transfers of a withdraw are covered, and together take at most the
\* payment out of the vault: less when the fee vault is the vault itself.
LEMMA WithdrawBalance ==
  ASSUME TypeInv, NEW d \in DenomIds, NEW arg \in Nullifiers,
         NEW s \in QietrPayment(leaves[d]), NEW acct \in Wallets,
         NEW fv \in TokenAccounts \cup {NoAccount},
         withdraw(d, arg, s, acct, fv)
  PROVE  /\ balance' \in [TokenAccounts -> Nat]
         /\ balance'[d] >= balance[d] - s.payment
         /\ \A e \in DenomIds \ {d} : balance'[e] >= balance[e]
<1> DEFINE fee == FeeOf(s.payment)
           net == NetOf(s.payment)
           mid == Transfer(balance, d, acct, net)
<1>1. /\ s.payment \in Nat /\ fee \in Nat /\ net \in Nat /\ net + fee = s.payment
      /\ s.payment <= balance[d]
  <2>1. /\ s \in Signals /\ fee \in 0 .. s.payment /\ net \in 0 .. s.payment
        /\ net + fee = s.payment /\ s.payment <= balance[d]
    BY ZenonT(40), WithdrawFacts
  <2>2. s.payment \in Nat
    BY <2>1, ConstantsOK DEF Signals, Payable
  <2> QED BY <2>1, <2>2
<1>2. /\ balance \in [TokenAccounts -> Nat]
      /\ d \in TokenAccounts /\ acct \in TokenAccounts /\ acct # d
  BY ConstantsOK DEF TypeInv, TypeOK, TokenAccounts
<1>3. /\ config.fee_vault # NoAccount => config.fee_vault \in TokenAccounts
      /\ balance' = IF config.fee_vault = NoAccount THEN mid
                    ELSE Transfer(mid, d, config.fee_vault, fee)
  BY DEF withdraw, TypeInv, TypeOK, Config
<1>4. config.fee_vault = NoAccount => fee = 0
  BY DEF FeeOf
<1> HIDE DEF fee, net
<1>5. /\ mid \in [TokenAccounts -> Nat]
      /\ mid[d] >= balance[d] - net
      /\ \A a \in TokenAccounts \ {d} : mid[a] >= balance[a]
  BY <1>1, <1>2, TransferTyped
<1> HIDE DEF mid
<1>6. CASE config.fee_vault = NoAccount
  BY <1>1, <1>2, <1>3, <1>4, <1>5, <1>6 DEF TokenAccounts
<1>7. CASE config.fee_vault # NoAccount
  <2> DEFINE fvault == config.fee_vault
             fin == Transfer(mid, d, fvault, fee)
  <2>1. fvault \in TokenAccounts /\ fee <= mid[d]
    BY <1>1, <1>2, <1>3, <1>5, <1>7
  <2> HIDE DEF fvault
  <2>2. /\ fin \in [TokenAccounts -> Nat]
        /\ fin[d] >= mid[d] - fee
        /\ \A a \in TokenAccounts \ {d} : fin[a] >= mid[a]
    BY <1>1, <1>2, <1>5, <2>1, TransferTyped
  <2>3. balance' = fin
    BY <1>3, <1>7 DEF fvault
  <2> HIDE DEF fin
  <2>4. balance'[d] >= balance[d] - s.payment
    BY <1>1, <1>2, <1>5, <2>2, <2>3
  <2>5. ASSUME NEW e \in DenomIds \ {d} PROVE balance'[e] >= balance[e]
    <3>1. e \in TokenAccounts \ {d}
      BY DEF TokenAccounts
    <3>2. fin[e] >= mid[e] /\ mid[e] >= balance[e]
      BY <3>1, <1>5, <2>2
    <3> QED BY <3>1, <3>2, <2>2, <2>3, <1>2, <1>5
  <2> QED BY <2>2, <2>3, <2>4, <2>5
<1> QED BY <1>6, <1>7

LEMMA WithdrawTypeInv ==
  ASSUME TypeInv, NEW d \in DenomIds, NEW arg \in Nullifiers,
         NEW s \in QietrPayment(leaves[d]), NEW acct \in Wallets,
         NEW fv \in TokenAccounts \cup {NoAccount},
         withdraw(d, arg, s, acct, fv)
  PROVE  TypeInv'
<1>1. s \in Signals
  BY WithdrawFacts
<1>6. s.payment \in Nat /\ s.nullifier \in Nullifiers /\ s.change \in Note
  BY <1>1, ConstantsOK DEF Signals, Payable
<1>2. /\ tree' \in [DenomIds -> MerkleTree]
      /\ leaves' \in [DenomIds -> Seq(Note)]
      /\ LeavesCounted'
  <2>1. /\ denomination[d].exists /\ TreeHasRoom(tree[d])
        /\ tree' = [tree EXCEPT ![d] = AppendRoot(@)]
        /\ leaves' = [leaves EXCEPT ![d] = Append(@, s.change)]
        /\ \A e \in DenomIds : denomination'[e].exists = denomination[e].exists
    BY DEF withdraw, WithdrawAccepted, WithdrawAccounts
  <2> QED BY <1>6, <2>1, AppendTypeInv
<1>3. balance' \in [TokenAccounts -> Nat]
  BY WithdrawBalance
<1>4. payout' \in [DenomIds -> [Nullifiers -> Nat]]
  BY <1>6 DEF withdraw, TypeInv, TypeOK
<1>5. nullifiers' \subseteq DenomIds \X Nullifiers
  BY DEF withdraw, TypeInv, TypeOK
<1> QED BY <1>2, <1>3, <1>4, <1>5 DEF withdraw, TypeInv, TypeOK

\* The admin instructions that write only the config account.
ConfigStep(signer) ==
  \/ \E bps \in FeeBps : initialize_pool(signer, bps)
  \/ \E b \in BOOLEAN : set_paused(signer, b)
  \/ \E vk \in VKs : queue_vk_upgrade(signer, vk)
  \/ apply_vk_upgrade(signer)
  \/ \E acct \in TokenAccounts : set_fee_vault(signer, acct)

\* Every step is one of five kinds.
LEMMA NextCases ==
  ASSUME Next
  PROVE  \/ \E signer \in Signers : ConfigStep(signer)
         \/ \E signer \in Signers, d \in DenomIds, amt \in TierAmounts, mint \in Mints :
              initialize_denomination(signer, d, amt, mint)
         \/ \E d \in DenomIds, w \in Wallets, note \in Note : deposit(d, w, note)
         \/ \E d \in DenomIds : \E s \in QietrPayment(leaves[d]), arg \in Nullifiers,
               acct \in Wallets, fv \in TokenAccounts \cup {NoAccount} :
              withdraw(d, arg, s, acct, fv)
         \/ ChainStep
BY DEF Next, AdminStep, UserStep, ConfigStep

LEMMA ConfigStepTyped ==
  ASSUME TypeInv, NEW signer \in Signers, ConfigStep(signer)
  PROVE  /\ config' \in Config
         /\ announced' \subseteq [hash : VKs, slot : Nat]
         /\ UNCHANGED <<denomination, tree, leaves, nullifiers, balance, slot,
                        embeddedVk, payout>>
<1>1. /\ config \in Config /\ announced \subseteq [hash : VKs, slot : Nat]
      /\ slot \in Nat /\ embeddedVk \in VKs
  BY DEF TypeInv, TypeOK
<1>2. ASSUME NEW bps \in FeeBps, initialize_pool(signer, bps)
      PROVE config' \in Config /\ announced' = announced
  BY <1>1, <1>2, ConstantsOK DEF initialize_pool, Config
<1>3. ASSUME NEW b \in BOOLEAN, set_paused(signer, b)
      PROVE config' \in Config /\ announced' = announced
  BY <1>1, <1>3 DEF set_paused, Config
<1>4. ASSUME NEW vk \in VKs, queue_vk_upgrade(signer, vk)
      PROVE config' \in Config /\ announced' \subseteq [hash : VKs, slot : Nat]
  <2>1. slot + VkLockSlots \in Nat
    BY <1>1, ConstantsOK
  <2>2. config' \in Config
    BY <1>1, <1>4, <2>1 DEF queue_vk_upgrade, Config
  <2> QED BY <1>1, <1>4, <2>2 DEF queue_vk_upgrade
<1>5. ASSUME apply_vk_upgrade(signer)
      PROVE config' \in Config /\ announced' = announced
  BY <1>1, <1>5 DEF apply_vk_upgrade, Config
<1>6. ASSUME NEW acct \in TokenAccounts, set_fee_vault(signer, acct)
      PROVE config' \in Config /\ announced' = announced
  BY <1>1, <1>6 DEF set_fee_vault, Config
<1>7. UNCHANGED <<denomination, tree, leaves, nullifiers, balance, slot,
                  embeddedVk, payout>>
  BY DEF ConfigStep, initialize_pool, set_paused, queue_vk_upgrade,
         apply_vk_upgrade, set_fee_vault
<1> QED BY <1>1, <1>2, <1>3, <1>4, <1>5, <1>6, <1>7 DEF ConfigStep

LEMMA OpenTierTypeInv ==
  ASSUME TypeInv, NEW signer \in Signers, NEW d \in DenomIds,
         NEW amt \in TierAmounts, NEW mint \in Mints,
         initialize_denomination(signer, d, amt, mint)
  PROVE  TypeInv'
<1>1. denomination' \in [DenomIds -> Denomination]
  BY ConstantsOK DEF initialize_denomination, TypeInv, TypeOK, Denomination
<1>2. EmptyTree \in MerkleTree /\ EmptyTree.next_leaf_index = 0
  BY ConstantsOK DEF EmptyTree, MerkleTree
<1>3. tree' \in [DenomIds -> MerkleTree]
  BY <1>2 DEF initialize_denomination, TypeInv, TypeOK
<1>4. ASSUME NEW e \in DenomIds
      PROVE  /\ tree'[e].next_leaf_index = Len(leaves'[e])
             /\ ~denomination'[e].exists => leaves'[e] = << >>
  <2>1. CASE e = d
    BY <2>1, <1>2 DEF initialize_denomination, TypeInv, TypeOK, LeavesCounted
  <2>2. CASE e # d
    BY <2>2 DEF initialize_denomination, TypeInv, TypeOK, LeavesCounted
  <2> QED BY <2>1, <2>2
<1>5. LeavesCounted'
  BY <1>4 DEF LeavesCounted
<1> QED BY <1>1, <1>3, <1>5 DEF initialize_denomination, TypeInv, TypeOK

LEMMA NextTypeInv == TypeInv /\ [Next]_vars => TypeInv'
<1> SUFFICES ASSUME TypeInv, [Next]_vars PROVE TypeInv'
  OBVIOUS
<1>1. ASSUME NEW signer \in Signers, ConfigStep(signer) PROVE TypeInv'
  BY <1>1, ConfigStepTyped, ConfigStepTypeInv
<1>2. ASSUME NEW signer \in Signers, NEW d \in DenomIds, NEW amt \in TierAmounts,
             NEW mint \in Mints, initialize_denomination(signer, d, amt, mint)
      PROVE TypeInv'
  BY <1>2, OpenTierTypeInv
<1>3. ASSUME NEW d \in DenomIds, NEW w \in Wallets, NEW note \in Note,
             deposit(d, w, note)
      PROVE TypeInv'
  BY <1>3, DepositTypeInv
<1>4. ASSUME NEW d \in DenomIds, NEW s \in QietrPayment(leaves[d]),
             NEW arg \in Nullifiers, NEW acct \in Wallets,
             NEW fv \in TokenAccounts \cup {NoAccount}, withdraw(d, arg, s, acct, fv)
      PROVE TypeInv'
  BY <1>4, WithdrawTypeInv
<1>5. CASE ChainStep
  BY <1>5 DEF ChainStep, Tick, Redeploy, TypeInv, TypeOK, LeavesCounted
<1>6. CASE UNCHANGED vars
  BY <1>6 DEF vars, TypeInv, TypeOK, LeavesCounted
<1> QED BY <1>1, <1>2, <1>3, <1>4, <1>5, <1>6, NextCases

LEMMA TypeInvariant == Spec => []TypeInv
BY InitTypeInv, NextTypeInv, PTL DEF Spec

\* Every account keeps its type whatever sequence of instructions is run:
\* balances never go negative, the leaf count stays within the tree and the
\* cursor within the ring.
THEOREM TypeCorrect == Spec => []TypeOK
<1>1. TypeInv => TypeOK
  BY DEF TypeInv
<1> QED BY <1>1, TypeInvariant, PTL

-----------------------------------------------------------------------------
(* The key timelock *)

\* What stands in the pending fields was announced when it says, last.
PendingAnnounced ==
  /\ \A b \in announced : b.slot <= slot
  /\ config.pending_applies_at_slot # 0 =>
       \E a \in announced :
         /\ a.hash = config.pending_vk_hash
         /\ a.slot + VkLockSlots = config.pending_applies_at_slot
         /\ \A b \in announced : b.slot <= a.slot

LEMMA NextPendingAnnounced ==
  TypeInv /\ PendingAnnounced /\ [Next]_vars => PendingAnnounced'
<1> SUFFICES ASSUME TypeInv, PendingAnnounced, [Next]_vars PROVE PendingAnnounced'
  OBVIOUS
<1>1. /\ slot \in Nat /\ VkLockSlots \in Nat /\ config \in Config
      /\ \A b \in announced : b.slot \in Nat
  BY ConstantsOK DEF TypeInv, TypeOK
<1>2. ASSUME NEW signer \in Signers, NEW vk \in VKs, queue_vk_upgrade(signer, vk)
      PROVE  PendingAnnounced'
  <2> DEFINE a == [hash |-> vk, slot |-> slot]
  <2>1. /\ announced' = announced \cup {a} /\ slot' = slot
        /\ config'.pending_vk_hash = vk
        /\ config'.pending_applies_at_slot = slot + VkLockSlots
    BY <1>1, <1>2 DEF queue_vk_upgrade, Config
  <2>2. \A b \in announced' : b.slot <= slot
    BY <2>1, <1>1 DEF PendingAnnounced
  <2>3. a \in announced' /\ a.hash = vk /\ a.slot = slot
    BY <2>1
  <2> QED BY <2>1, <2>2, <2>3 DEF PendingAnnounced
<1>3. ASSUME NEW signer \in Signers,
             \/ \E bps \in FeeBps : initialize_pool(signer, bps)
             \/ apply_vk_upgrade(signer)
      PROVE  PendingAnnounced'
  <2>1. CASE \E bps \in FeeBps : initialize_pool(signer, bps)
    BY <2>1 DEF initialize_pool, PendingAnnounced
  <2>2. CASE apply_vk_upgrade(signer)
    <3>1. /\ config'.pending_applies_at_slot = 0
          /\ announced' = announced /\ slot' = slot
      BY <1>1, <2>2 DEF apply_vk_upgrade, Config
    <3> QED BY <3>1 DEF PendingAnnounced
  <2> QED BY <1>3, <2>1, <2>2
<1>4. ASSUME /\ UNCHANGED announced /\ slot' \in Nat /\ slot' >= slot
             /\ config'.pending_vk_hash = config.pending_vk_hash
             /\ config'.pending_applies_at_slot = config.pending_applies_at_slot
      PROVE  PendingAnnounced'
  <2>1. \A b \in announced' : b.slot <= slot'
    BY <1>1, <1>4 DEF PendingAnnounced
  <2> QED BY <1>4, <2>1 DEF PendingAnnounced
<1>5. ASSUME NEW signer \in Signers,
             \/ \E b \in BOOLEAN : set_paused(signer, b)
             \/ \E acct \in TokenAccounts : set_fee_vault(signer, acct)
      PROVE  PendingAnnounced'
  <2>1. /\ UNCHANGED <<announced, slot>>
        /\ config'.pending_vk_hash = config.pending_vk_hash
        /\ config'.pending_applies_at_slot = config.pending_applies_at_slot
    BY <1>1, <1>5 DEF set_paused, set_fee_vault, Config
  <2> QED BY <1>1, <1>4, <2>1
<1>6. CASE ChainStep
  BY <1>1, <1>4, <1>6 DEF ChainStep, Tick, Redeploy
<1>7. CASE \/ \E signer \in Signers, d \in DenomIds, amt \in TierAmounts, mint \in Mints :
                initialize_denomination(signer, d, amt, mint)
           \/ UserStep
           \/ UNCHANGED vars
  <2>1. UNCHANGED <<config, announced, slot>>
    BY <1>7 DEF UserStep, initialize_denomination, deposit, withdraw, vars
  <2> QED BY <1>1, <1>4, <2>1
<1> QED BY <1>2, <1>3, <1>5, <1>6, <1>7 DEF Next, AdminStep

\* The key withdraws are checked against changes only to the one that was
\* announced last, and that stood announced for the whole lock: a
\* redeployment cannot bring in a key of its own, and a second announcement
\* cannot inherit the waiting time of the first.
THEOREM VkTimelock == Spec => VkChangesOnlyAfterNotice
<1> DEFINE Noticed ==
      config.exists /\ config'.verifying_key_hash # config.verifying_key_hash =>
        \E a \in announced :
          /\ a.hash = config'.verifying_key_hash
          /\ a.slot + VkLockSlots <= slot
          /\ \A b \in announced : b.slot <= a.slot
<1>1. Init => PendingAnnounced
  BY DEF Init, PendingAnnounced
<1>2. TypeInv /\ PendingAnnounced /\ [Next]_vars => [Noticed]_vars
  <2> SUFFICES ASSUME TypeInv, PendingAnnounced, Next, config.exists,
                      config'.verifying_key_hash # config.verifying_key_hash
               PROVE \E a \in announced :
                       /\ a.hash = config'.verifying_key_hash
                       /\ a.slot + VkLockSlots <= slot
                       /\ \A b \in announced : b.slot <= a.slot
    OBVIOUS
  <2>1. config \in Config
    BY DEF TypeInv, TypeOK
  <2>2. PICK signer \in Signers : apply_vk_upgrade(signer)
    <3>1. ASSUME NEW signer \in Signers,
                 \/ \E b \in BOOLEAN : set_paused(signer, b)
                 \/ \E vk \in VKs : queue_vk_upgrade(signer, vk)
                 \/ \E acct \in TokenAccounts : set_fee_vault(signer, acct)
          PROVE FALSE
      BY <2>1, <3>1 DEF set_paused, queue_vk_upgrade, set_fee_vault, Config
    <3>2. ASSUME NEW signer \in Signers, NEW bps \in FeeBps, initialize_pool(signer, bps)
          PROVE FALSE
      BY <3>2 DEF initialize_pool
    <3>3. ~ChainStep /\ ~UserStep
      BY DEF ChainStep, UserStep, Tick, Redeploy, deposit, withdraw
    <3>4. ASSUME NEW signer \in Signers, NEW d \in DenomIds, NEW amt \in TierAmounts,
                 NEW mint \in Mints, initialize_denomination(signer, d, amt, mint)
          PROVE FALSE
      BY <3>4 DEF initialize_denomination
    <3> QED BY <3>1, <3>2, <3>3, <3>4 DEF Next, AdminStep
  <2>3. /\ config.pending_applies_at_slot # 0
        /\ slot >= config.pending_applies_at_slot
        /\ config'.verifying_key_hash = config.pending_vk_hash
    BY <2>1, <2>2 DEF apply_vk_upgrade, Config
  <2> QED BY <2>3 DEF PendingAnnounced
<1>3. Spec => []PendingAnnounced
  BY <1>1, NextPendingAnnounced, TypeInvariant, PTL DEF Spec
<1>4. Spec => [][Noticed]_vars
  BY <1>2, <1>3, TypeInvariant, PTL DEF Spec
<1> QED BY <1>4 DEF VkChangesOnlyAfterNotice

-----------------------------------------------------------------------------
(* The window of known roots *)

\* A tree after n appends: the slot of the n-th root is n modulo the ring's
\* length, every recent root is in its slot and no other root is anywhere.
RingOf(t) ==
  LET n == t.next_leaf_index
  IN /\ t.root_cursor = n % RootHistoryLen
     /\ \A k \in 1 .. n : k > n - RootHistoryLen =>
          t.root_history[k % RootHistoryLen] = k
     /\ \A i \in 0 .. RootHistoryLen - 1 : t.root_history[i] # 0 =>
          LET k == t.root_history[i]
          IN k <= n /\ k > n - RootHistoryLen /\ i = k % RootHistoryLen

RingInv == \A d \in DenomIds : RingOf(tree[d])

LEMMA EmptyTreeRing == EmptyTree \in MerkleTree /\ RingOf(EmptyTree)
<1>1. RootHistoryLen \in Nat \ {0} /\ Capacity \in Nat
  BY ConstantsOK
<1>2. 0 % RootHistoryLen = 0
  BY <1>1
<1> QED BY <1>1, <1>2 DEF EmptyTree, MerkleTree, RingOf

\* append overwrites exactly the slot of the one root that leaves the window.
LEMMA AppendRing ==
  ASSUME NEW t \in MerkleTree, RingOf(t), TreeHasRoom(t)
  PROVE  RingOf(AppendRoot(t))
<1> DEFINE n == t.next_leaf_index
           L == RootHistoryLen
           u == AppendRoot(t)
           c == (n + 1) % L
<1>1. /\ L \in Nat \ {0} /\ n \in Nat /\ n + 1 \in Nat
      /\ t.root_history \in [0 .. L - 1 -> 0 .. Capacity]
      /\ Capacity \in Nat
  BY ConstantsOK DEF MerkleTree
<1>2. (t.root_cursor + 1) % L = c
  BY <1>1, ModSucc DEF RingOf
<1>3. c \in 0 .. L - 1
  BY <1>1, DivMod
<1>4. /\ u.next_leaf_index = n + 1 /\ u.root_cursor = c
      /\ u.root_history = [t.root_history EXCEPT ![c] = n + 1]
  BY <1>2 DEF AppendRoot
<1>5. ASSUME NEW k \in 1 .. n, k > n - L
      PROVE  t.root_history[k % L] = k
  BY <1>5 DEF RingOf
<1>6. ASSUME NEW i \in 0 .. L - 1, t.root_history[i] # 0
      PROVE  /\ t.root_history[i] <= n /\ t.root_history[i] > n - L
             /\ i = t.root_history[i] % L
  BY <1>6 DEF RingOf
<1>7. c = (n + 1) % L
  OBVIOUS
<1> HIDE DEF u, c, n, L
<1>8. ASSUME NEW k \in 1 .. n + 1, k > (n + 1) - L
      PROVE  u.root_history[k % L] = k
  <2>0. k \in Nat
    BY <1>1
  <2>1. k % L \in 0 .. L - 1
    BY <2>0, <1>1, DivMod
  <2>2. CASE k = n + 1
    BY <2>2, <1>1, <1>3, <1>4, <1>7
  <2>3. CASE k # n + 1
    <3>1. k \in 1 .. n /\ k > n - L /\ k < n + 1 /\ n + 1 < k + L
      BY <2>3, <1>1, <1>8
    <3>2. k % L # c
      BY <3>1, <2>0, <1>1, <1>7, ModDistinct
    <3>3. t.root_history[k % L] = k
      BY <3>1, <1>5
    <3> QED BY <3>2, <3>3, <2>1, <1>1, <1>3, <1>4
  <2> QED BY <2>2, <2>3
<1>9. ASSUME NEW i \in 0 .. L - 1, u.root_history[i] # 0
      PROVE  /\ u.root_history[i] <= n + 1
             /\ u.root_history[i] > (n + 1) - L
             /\ i = u.root_history[i] % L
  <2>1. CASE i = c
    BY <2>1, <1>1, <1>3, <1>4, <1>7
  <2>2. CASE i # c
    <3> DEFINE k == t.root_history[i]
    <3>1. u.root_history[i] = k /\ k \in Nat
      BY <2>2, <1>1, <1>3, <1>4
    <3>2. k # 0 /\ k <= n /\ k > n - L /\ i = k % L
      BY <3>1, <1>9, <1>6
    <3> HIDE DEF k
    <3>3. k # (n + 1) - L
      <4>1. SUFFICES ASSUME k = (n + 1) - L PROVE FALSE
        OBVIOUS
      <4>2. n + 1 = L + k /\ L * 1 = L /\ 1 \in Int
        <5>1. L \in Nat /\ n \in Nat
          BY <1>1
        <5> QED BY <5>1, <4>1
      <4>3. (n + 1) % L = k % L
        <5>1. n + 1 = L * 1 + k
          BY <4>2
        <5>2. L \in Nat \ {0} /\ n + 1 \in Nat
          BY <1>1
        <5> QED BY <5>1, <5>2, <4>2, <3>1, SameMod
      <4> QED BY <4>3, <3>2, <2>2, <1>7
    <3> QED BY <3>1, <3>2, <3>3, <1>1
  <2> QED BY <2>1, <2>2
<1>10. u.root_cursor = u.next_leaf_index % L
  BY <1>4, <1>7
<1> QED BY <1>4, <1>8, <1>9, <1>10 DEF RingOf, u, L

LEMMA NextRingInv == TypeInv /\ RingInv /\ [Next]_vars => RingInv'
<1> SUFFICES ASSUME TypeInv, RingInv, [Next]_vars PROVE RingInv'
  OBVIOUS
<1>1. ASSUME NEW d \in DenomIds, TreeHasRoom(tree[d]),
             tree' = [tree EXCEPT ![d] = AppendRoot(@)]
      PROVE  RingInv'
  <2>1. tree[d] \in MerkleTree /\ RingOf(tree[d])
    BY DEF TypeInv, TypeOK, RingInv
  <2>2. RingOf(AppendRoot(tree[d]))
    BY <1>1, <2>1, AppendRing
  <2>3. ASSUME NEW e \in DenomIds PROVE RingOf(tree'[e])
    <3>1. CASE e = d
      BY <3>1, <1>1, <2>2 DEF TypeInv, TypeOK
    <3>2. CASE e # d
      <4>1. tree'[e] = tree[e]
        BY <3>2, <1>1 DEF TypeInv, TypeOK
      <4> QED BY <4>1 DEF RingInv
    <3> QED BY <3>1, <3>2
  <2> QED BY <2>3 DEF RingInv
<1>2. ASSUME NEW d \in DenomIds, tree' = [tree EXCEPT ![d] = EmptyTree]
      PROVE  RingInv'
  <2>1. ASSUME NEW e \in DenomIds PROVE RingOf(tree'[e])
    <3>1. CASE e = d
      BY <3>1, <1>2, EmptyTreeRing DEF TypeInv, TypeOK
    <3>2. CASE e # d
      <4>1. tree'[e] = tree[e]
        BY <3>2, <1>2 DEF TypeInv, TypeOK
      <4> QED BY <4>1 DEF RingInv
    <3> QED BY <3>1, <3>2
  <2> QED BY <2>1 DEF RingInv
<1>3. CASE UNCHANGED tree
  BY <1>3 DEF RingInv
<1>4. ASSUME NEW signer \in Signers, ConfigStep(signer) PROVE UNCHANGED tree
  BY <1>4, ConfigStepTyped
<1>5. CASE ChainStep \/ UNCHANGED vars
  BY <1>3, <1>5 DEF ChainStep, Tick, Redeploy, vars
<1>6. ASSUME NEW signer \in Signers, NEW d \in DenomIds, NEW amt \in TierAmounts,
             NEW mint \in Mints, initialize_denomination(signer, d, amt, mint)
      PROVE  RingInv'
  BY <1>2, <1>6 DEF initialize_denomination
<1>7. ASSUME NEW d \in DenomIds, NEW w \in Wallets, NEW note \in Note,
             deposit(d, w, note)
      PROVE  RingInv'
  BY <1>1, <1>7 DEF deposit
<1>8. ASSUME NEW d \in DenomIds, NEW s \in QietrPayment(leaves[d]),
             NEW arg \in Nullifiers, NEW acct \in Wallets,
             NEW fv \in TokenAccounts \cup {NoAccount}, withdraw(d, arg, s, acct, fv)
      PROVE  RingInv'
  BY <1>1, <1>8 DEF withdraw, WithdrawAccepted
<1> QED BY <1>3, <1>4, <1>5, <1>6, <1>7, <1>8, NextCases

\* is_known_root accepts a root exactly when it is one of the last
\* ROOT_HISTORY_LEN roots of its tree, deposits and withdraws alike: the
\* window never shrinks below that, and no older root comes back.
THEOREM RootWindow == Spec => []KnownRootsAreWindow
<1>1. Init => RingInv
  BY EmptyTreeRing DEF Init, RingInv
<1>2. TypeInv /\ RingInv => KnownRootsAreWindow
  <2> SUFFICES ASSUME TypeInv, RingInv, NEW d \in DenomIds, NEW k \in 0 .. Capacity
               PROVE  is_known_root(tree[d], k) <=>
                        /\ k >= 1 /\ k <= tree[d].next_leaf_index
                        /\ k > tree[d].next_leaf_index - RootHistoryLen
    BY DEF KnownRootsAreWindow
  <2>1. /\ RootHistoryLen \in Nat \ {0} /\ Capacity \in Nat
        /\ tree[d] \in MerkleTree /\ RingOf(tree[d])
    BY ConstantsOK DEF TypeInv, TypeOK, RingInv
  <2>2. tree[d].next_leaf_index \in Nat
    BY <2>1 DEF MerkleTree
  <2>3. k % RootHistoryLen \in 0 .. RootHistoryLen - 1
    BY <2>1, DivMod
  <2>4. is_known_root(tree[d], k) =>
          /\ k >= 1 /\ k <= tree[d].next_leaf_index
          /\ k > tree[d].next_leaf_index - RootHistoryLen
    BY <2>1, <2>2 DEF is_known_root, RingOf
  <2>5. /\ k >= 1 /\ k <= tree[d].next_leaf_index
        /\ k > tree[d].next_leaf_index - RootHistoryLen
        => is_known_root(tree[d], k)
    BY <2>1, <2>2, <2>3 DEF is_known_root, RingOf
  <2> QED BY <2>4, <2>5
<1>3. Spec => []RingInv
  BY <1>1, NextRingInv, TypeInvariant, PTL DEF Spec
<1> QED BY <1>2, <1>3, TypeInvariant, PTL

-----------------------------------------------------------------------------
(***************************************************************************)
(* Theorems about the money of the pool: every vault covers its            *)
(* outstanding tier notes, and a nullifier is paid at most once, at most   *)
(* one tier amount.                                                        *)
(***************************************************************************)

SolventAt(d) ==
  balance[d] >= denomination[d].amount * Cardinality(LiveNullifiers(d))

-----------------------------------------------------------------------------
(* Live nullifiers *)

LEMMA LiveFinite ==
  ASSUME NEW d \in DenomIds
  PROVE  IsFiniteSet(LiveNullifiers(d)) /\ Cardinality(LiveNullifiers(d)) \in Nat
<1>1. LiveNullifiers(d) \in SUBSET Nullifiers
  BY DEF LiveNullifiers
<1>2. IsFiniteSet(LiveNullifiers(d))
  BY <1>1, ConstantsOK, FS_Subset
<1> QED BY <1>2, FS_CardinalityType

\* A tier whose amount, leaves and nullifiers are left alone, and whose
\* vault loses nothing, stays solvent.
LEMMA SolventUntouched ==
  ASSUME TypeInv, TypeInv', NEW e \in DenomIds, SolventAt(e),
         leaves'[e] = leaves[e], denomination'[e].amount = denomination[e].amount,
         \A n \in Nullifiers : <<e, n>> \in nullifiers' <=> <<e, n>> \in nullifiers,
         balance'[e] >= balance[e]
  PROVE  SolventAt(e)'
<1>1. LiveNullifiers(e)' = LiveNullifiers(e)
  BY DEF LiveNullifiers
<1> DEFINE need == denomination[e].amount * Cardinality(LiveNullifiers(e))
<1>2. SolventAt(e)' <=> balance'[e] >= need
  BY <1>1 DEF SolventAt
<1>3. /\ denomination[e].amount \in Nat /\ balance[e] \in Nat /\ balance'[e] \in Nat
      /\ Cardinality(LiveNullifiers(e)) \in Nat
  BY LiveFinite, ConstantsOK
  DEF TypeInv, TypeOK, TokenAccounts, Denomination, Payable
<1>4. need \in Nat /\ balance[e] >= need
  BY <1>3 DEF SolventAt
<1> HIDE DEF need
<1> QED BY <1>2, <1>3, <1>4

LEMMA TimesMonotone ==
  ASSUME NEW a \in Nat, NEW k \in Nat, NEW m \in Nat, m <= k
  PROVE  a * m <= a * k
<1>1. a * k = a * m + a * (k - m) /\ a * (k - m) >= 0
  OBVIOUS
<1> QED BY <1>1

\* A deposit makes the nullifier of a tier-valued note live, unless it was spent.
LEMMA LiveAfterDeposit ==
  ASSUME TypeInv, NEW d \in DenomIds, NEW note \in Note,
         leaves' = [leaves EXCEPT ![d] = Append(@, note)], nullifiers' = nullifiers,
         denomination'[d].amount = denomination[d].amount
  PROVE  LiveNullifiers(d)' = LiveNullifiers(d) \cup
           {n \in Nullifiers : /\ note = [nullifier |-> n, amount |-> denomination[d].amount]
                               /\ <<d, n>> \notin nullifiers}
<1>1. leaves[d] \in Seq(Note) /\ leaves'[d] = Append(leaves[d], note)
  BY DEF TypeInv, TypeOK
<1>2. ASSUME NEW x
      PROVE  (\E i \in 1 .. Len(leaves'[d]) : leaves'[d][i] = x) <=>
                (note = x \/ \E i \in 1 .. Len(leaves[d]) : leaves[d][i] = x)
  <2>1. /\ Len(leaves'[d]) = Len(leaves[d]) + 1 /\ Len(leaves[d]) \in Nat
        /\ leaves'[d][Len(leaves[d]) + 1] = note
        /\ \A i \in 1 .. Len(leaves[d]) : leaves'[d][i] = leaves[d][i]
    BY <1>1
  <2>2. \A i \in 1 .. Len(leaves'[d]) : i \in 1 .. Len(leaves[d]) \/ i = Len(leaves[d]) + 1
    BY <2>1
  <2>3. /\ \A i \in 1 .. Len(leaves[d]) : i \in 1 .. Len(leaves'[d])
        /\ Len(leaves[d]) + 1 \in 1 .. Len(leaves'[d])
    BY <2>1
  <2> QED BY <2>1, <2>2, <2>3
<1> QED BY <1>2 DEF LiveNullifiers

\* A withdraw ends the life of the nullifier it spends, and its change is worth
\* less than the tier amount.
LEMMA LiveAfterWithdraw ==
  ASSUME TypeInv, NEW d \in DenomIds, NEW arg \in Nullifiers,
         NEW s \in QietrPayment(leaves[d]), NEW acct \in Wallets,
         NEW fv \in TokenAccounts \cup {NoAccount}, withdraw(d, arg, s, acct, fv)
  PROVE  /\ s.nullifier \in LiveNullifiers(d)
         /\ LiveNullifiers(d)' = LiveNullifiers(d) \ {s.nullifier}
<1> DEFINE A == denomination[d].amount
<1>1. /\ s \in Signals /\ arg = s.nullifier /\ s.payment \in 1 .. A
      /\ s.change.amount = A - s.payment
      /\ \E i \in 1 .. Len(leaves[d]) :
            leaves[d][i] = [nullifier |-> s.nullifier, amount |-> A]
      /\ <<d, s.nullifier>> \notin nullifiers
  BY WithdrawFacts
<1>2. s.nullifier \in Nullifiers /\ s.change \in Note /\ A \in Nat
  BY <1>1, ConstantsOK DEF Signals, TypeInv, TypeOK, Denomination, Payable
<1>3. /\ denomination' = denomination /\ nullifiers' = nullifiers \cup {<<d, s.nullifier>>}
      /\ leaves' = [leaves EXCEPT ![d] = Append(@, s.change)]
  BY <1>1 DEF withdraw
<1>4. leaves[d] \in Seq(Note) /\ leaves'[d] = Append(leaves[d], s.change) /\ s.change.amount # A
  BY <1>1, <1>2, <1>3 DEF TypeInv, TypeOK
<1>5. ASSUME NEW n \in Nullifiers
      PROVE  (\E i \in 1 .. Len(leaves'[d]) : leaves'[d][i] = [nullifier |-> n, amount |-> A]) <=>
                (\E i \in 1 .. Len(leaves[d]) : leaves[d][i] = [nullifier |-> n, amount |-> A])
  <2>1. /\ Len(leaves'[d]) = Len(leaves[d]) + 1 /\ Len(leaves[d]) \in Nat
        /\ leaves'[d][Len(leaves[d]) + 1] = s.change
        /\ \A i \in 1 .. Len(leaves[d]) : leaves'[d][i] = leaves[d][i]
    BY <1>2, <1>4
  <2>2. s.change # [nullifier |-> n, amount |-> A]
    BY <1>4
  <2>3. \A i \in 1 .. Len(leaves'[d]) : i \in 1 .. Len(leaves[d]) \/ i = Len(leaves[d]) + 1
    BY <2>1
  <2>4. \A i \in 1 .. Len(leaves[d]) : i \in 1 .. Len(leaves'[d])
    BY <2>1
  <2> QED BY <2>1, <2>2, <2>3, <2>4
<1>6. \A n \in Nullifiers : <<d, n>> \in nullifiers' <=> <<d, n>> \in nullifiers \/ n = s.nullifier
  BY <1>3
<1>7. LiveNullifiers(d)' = LiveNullifiers(d) \ {s.nullifier}
  BY <1>3, <1>5, <1>6 DEF LiveNullifiers
<1> QED BY <1>1, <1>2, <1>7 DEF LiveNullifiers

\* A deposit makes at most one nullifier live, and brings one tier amount.
LEMMA SolventDeposit ==
  ASSUME TypeInv, TypeInv', NEW d \in DenomIds, NEW w \in Wallets, NEW note \in Note,
         deposit(d, w, note), SolventAt(d)
  PROVE  SolventAt(d)'
<1> DEFINE L == LiveNullifiers(d)
           A == denomination[d].amount
<1>1. /\ denomination[d] \in Denomination /\ leaves[d] \in Seq(Note)
      /\ balance[d] \in Nat /\ balance'[d] \in Nat
      /\ A \in Nat
  BY ConstantsOK DEF TypeInv, TypeOK, TokenAccounts, Denomination, Payable
<1>2. denomination'[d].amount = A
  <2>1. CountDeposit(denomination[d]).amount = A
    BY <1>1 DEF CountDeposit, Denomination
  <2> QED BY <2>1 DEF deposit, TypeInv, TypeOK
<1>4. LiveNullifiers(d)' \in SUBSET (L \cup {note.nullifier})
  <2>1. \A n \in Nullifiers : note = [nullifier |-> n, amount |-> A] => n = note.nullifier
    OBVIOUS
  <2>2. leaves' = [leaves EXCEPT ![d] = Append(@, note)] /\ nullifiers' = nullifiers
    BY DEF deposit
  <2>3. LiveNullifiers(d)' = L \cup
          {n \in Nullifiers : /\ note = [nullifier |-> n, amount |-> A]
                              /\ <<d, n>> \notin nullifiers}
    BY <1>2, <2>2, LiveAfterDeposit
  <2> HIDE DEF L, A
  <2> QED BY <2>1, <2>3
<1>5. IsFiniteSet(L) /\ Cardinality(L) \in Nat
      /\ Cardinality(LiveNullifiers(d)') \in Nat
  <2>1. IsFiniteSet(L \cup {note.nullifier})
    BY LiveFinite, FS_AddElement
  <2>2. IsFiniteSet(LiveNullifiers(d)')
    BY <2>1, <1>4, FS_Subset
  <2> QED BY <2>2, LiveFinite, FS_CardinalityType
<1>6. Cardinality(LiveNullifiers(d)') <= Cardinality(L) + 1
  <2>1. IsFiniteSet(L \cup {note.nullifier})
        /\ Cardinality(L \cup {note.nullifier}) <= Cardinality(L) + 1
    BY <1>5, FS_AddElement
  <2>2. Cardinality(LiveNullifiers(d)') <= Cardinality(L \cup {note.nullifier})
    BY <1>4, <2>1, FS_Subset
  <2>3. Cardinality(L \cup {note.nullifier}) \in Nat
    BY <2>1, FS_CardinalityType
  <2> QED BY <1>5, <2>1, <2>2, <2>3
<1>7. balance'[d] = balance[d] + A
  <2>1. /\ balance \in [TokenAccounts -> Nat] /\ w \in TokenAccounts
        /\ d \in TokenAccounts /\ w # d /\ A <= balance[w]
        /\ balance' = Transfer(balance, w, d, A)
    BY ConstantsOK DEF deposit, TypeInv, TypeOK, TokenAccounts
  <2> HIDE DEF A
  <2> QED BY <1>1, <2>1, TransferTyped
<1> DEFINE k == Cardinality(L)
           m == Cardinality(LiveNullifiers(d)')
<1>8. balance[d] >= A * k /\ (SolventAt(d)' <=> balance'[d] >= A * m)
  BY <1>2 DEF SolventAt
<1> HIDE DEF k, m, A, L
<1>9. A * m <= A * (k + 1) /\ A * (k + 1) = A * k + A
  <2>1. k \in Nat /\ m \in Nat /\ m <= k + 1 /\ k + 1 \in Nat
    BY <1>5, <1>6 DEF k, m
  <2> QED BY SMTT(30), <2>1, <1>1, TimesMonotone
<1>10. A * k \in Nat /\ A * m \in Nat
  BY <1>1, <1>5 DEF k, m
<1> QED BY <1>1, <1>7, <1>8, <1>9, <1>10

\* A withdraw takes at most the payment, and the nullifier it spends was live.
LEMMA SolventWithdraw ==
  ASSUME TypeInv, TypeInv', NEW d \in DenomIds, NEW arg \in Nullifiers,
         NEW s \in QietrPayment(leaves[d]), NEW acct \in Wallets,
         NEW fv \in TokenAccounts \cup {NoAccount},
         withdraw(d, arg, s, acct, fv), SolventAt(d)
  PROVE  SolventAt(d)'
<1> DEFINE L == LiveNullifiers(d)
           A == denomination[d].amount
<1>1. /\ leaves[d] \in Seq(Note) /\ balance[d] \in Nat /\ balance'[d] \in Nat
      /\ A \in Nat
  BY ConstantsOK DEF TypeInv, TypeOK, TokenAccounts, Denomination, Payable
<1>2. s.payment \in 1 .. A
  BY WithdrawFacts
<1>4. s.nullifier \in L /\ LiveNullifiers(d)' = L \ {s.nullifier}
  BY LiveAfterWithdraw
<1>5. denomination' = denomination
  BY DEF withdraw
<1>7. IsFiniteSet(L) /\ Cardinality(L) \in Nat
      /\ IsFiniteSet(L \ {s.nullifier})
      /\ Cardinality(L \ {s.nullifier}) = Cardinality(L) - 1
      /\ Cardinality(L \ {s.nullifier}) \in Nat
  <2>1. IsFiniteSet(L) /\ Cardinality(L) \in Nat
    BY LiveFinite
  <2>2. IsFiniteSet(L \ {s.nullifier})
        /\ Cardinality(L \ {s.nullifier}) = Cardinality(L) - 1
    BY <1>4, <2>1, FS_RemoveElement
  <2> QED BY <2>1, <2>2, FS_CardinalityType
<1>8. Cardinality(LiveNullifiers(d)') \in Nat
      /\ Cardinality(LiveNullifiers(d)') <= Cardinality(L) - 1
  <2>1. IsFiniteSet(LiveNullifiers(d)')
        /\ Cardinality(LiveNullifiers(d)') <= Cardinality(L \ {s.nullifier})
    BY <1>4, <1>7, FS_Subset
  <2> QED BY <1>7, <2>1, FS_CardinalityType
<1>9. balance'[d] >= balance[d] - s.payment
  BY WithdrawBalance
<1> DEFINE k == Cardinality(L)
           m == Cardinality(LiveNullifiers(d)')
<1>10. balance[d] >= A * k /\ (SolventAt(d)' <=> balance'[d] >= A * m)
  BY <1>5 DEF SolventAt
<1> HIDE DEF k, m, A, L
<1>11. A * m <= A * (k - 1) /\ A * (k - 1) = A * k - A
  <2>1. k - 1 \in Nat /\ m \in Nat /\ m <= k - 1 /\ k \in Nat
    BY <1>7, <1>8 DEF k, m
  <2> QED BY <2>1, <1>1, TimesMonotone
<1> QED BY <1>1, <1>2, <1>7, <1>8, <1>9, <1>10, <1>11 DEF k, m

\* A tier opens with no leaves, so with nothing owed.
LEMMA SolventOpen ==
  ASSUME TypeInv, TypeInv', NEW signer \in Signers, NEW d \in DenomIds,
         NEW amt \in TierAmounts, NEW mint \in Mints,
         initialize_denomination(signer, d, amt, mint)
  PROVE  SolventAt(d)'
<1>1. leaves'[d] = << >>
  BY DEF initialize_denomination, TypeInv, LeavesCounted
<1>2. LiveNullifiers(d)' = {}
  BY <1>1 DEF LiveNullifiers
<1>3. Cardinality(LiveNullifiers(d)') = 0
  BY <1>2, FS_EmptySet
<1>4. denomination'[d].amount \in Nat /\ balance'[d] \in Nat
  BY ConstantsOK DEF TypeInv, TypeOK, TokenAccounts, Denomination, Payable
<1> QED BY <1>3, <1>4 DEF SolventAt

LEMMA NextSolvent ==
  TypeInv /\ TypeInv' /\ Solvent /\ [Next]_vars => Solvent'
<1> SUFFICES ASSUME TypeInv, TypeInv', Solvent, [Next]_vars, NEW e \in DenomIds
             PROVE SolventAt(e)'
  BY DEF Solvent, SolventAt
<1>1. SolventAt(e)
  BY DEF Solvent, SolventAt
<1>2. /\ balance[e] \in Nat /\ e \in TokenAccounts
      /\ denomination[e] \in Denomination
  BY DEF TypeInv, TypeOK, TokenAccounts
<1>3. CASE UNCHANGED <<denomination, leaves, nullifiers, balance>>
  BY <1>1, <1>2, <1>3, SolventUntouched
<1>4. ASSUME NEW signer \in Signers, ConfigStep(signer) PROVE SolventAt(e)'
  BY <1>3, <1>4, ConfigStepTyped
<1>5. CASE ChainStep \/ UNCHANGED vars
  BY <1>3, <1>5 DEF ChainStep, Tick, Redeploy, vars
<1>6. ASSUME NEW signer \in Signers, NEW d \in DenomIds, NEW amt \in TierAmounts,
             NEW mint \in Mints, initialize_denomination(signer, d, amt, mint)
      PROVE  SolventAt(e)'
  <2>1. CASE e = d
    BY <1>6, <2>1, SolventOpen
  <2>2. CASE e # d
    <3>1. /\ denomination'[e] = denomination[e] /\ leaves' = leaves
          /\ nullifiers' = nullifiers /\ balance' = balance
      BY <1>6, <2>2 DEF initialize_denomination, TypeInv, TypeOK
    <3> QED BY <1>1, <1>2, <3>1, SolventUntouched
  <2> QED BY <2>1, <2>2
<1>7. ASSUME NEW d \in DenomIds, NEW w \in Wallets, NEW note \in Note,
             deposit(d, w, note)
      PROVE  SolventAt(e)'
  <2>1. CASE e = d
    BY <1>1, <1>7, <2>1, SolventDeposit
  <2>2. CASE e # d
    <3>1. /\ denomination'[e] = denomination[e] /\ leaves'[e] = leaves[e]
          /\ nullifiers' = nullifiers
      BY <1>7, <2>2 DEF deposit, TypeInv, TypeOK
    <3>2. balance'[e] = balance[e]
      BY <1>2, <1>7, <2>2, ConstantsOK DEF deposit, Transfer, TypeInv, TypeOK, TokenAccounts
    <3> QED BY <1>1, <1>2, <3>1, <3>2, SolventUntouched
  <2> QED BY <2>1, <2>2
<1>8. ASSUME NEW d \in DenomIds, NEW s \in QietrPayment(leaves[d]),
             NEW arg \in Nullifiers, NEW acct \in Wallets,
             NEW fv \in TokenAccounts \cup {NoAccount}, withdraw(d, arg, s, acct, fv)
      PROVE  SolventAt(e)'
  <2>1. CASE e = d
    BY <1>1, <1>8, <2>1, SolventWithdraw
  <2>2. CASE e # d
    <3>1. /\ denomination' = denomination /\ leaves'[e] = leaves[e]
          /\ nullifiers' = nullifiers \cup {<<d, arg>>}
      BY <1>8, <2>2 DEF withdraw, TypeInv, TypeOK
    <3>2. balance'[e] >= balance[e]
      BY <1>8, <2>2, WithdrawBalance
    <3>3. \A n \in Nullifiers : <<e, n>> \in nullifiers' <=> <<e, n>> \in nullifiers
      BY <2>2, <3>1
    <3> QED BY <1>1, <3>1, <3>2, <3>3, SolventUntouched
  <2> QED BY <2>1, <2>2
<1> QED BY <1>3, <1>4, <1>5, <1>6, <1>7, <1>8, NextCases

\* Whatever was deposited, spent in part, appended as change or taken as a
\* fee, every vault can pay every outstanding tier note in full.
THEOREM VaultsSolvent == Spec => []Solvent
<1>1. Init => Solvent
  <2> SUFFICES ASSUME Init, NEW d \in DenomIds PROVE SolventAt(d)
    BY DEF Solvent, SolventAt
  <2>1. LiveNullifiers(d) = {}
    BY DEF Init, LiveNullifiers
  <2>2. Cardinality(LiveNullifiers(d)) = 0
    BY <2>1, FS_EmptySet
  <2>3. denomination[d].amount = 0 /\ balance[d] = 0
    BY ConstantsOK DEF Init, TokenAccounts
  <2> QED BY <2>2, <2>3 DEF SolventAt
<1> QED BY <1>1, NextSolvent, TypeInvariant, PTL DEF Spec

-----------------------------------------------------------------------------
(* Nullifiers are paid once *)

\* A nullifier was paid only from a tier that is open, so no tier's amount
\* changes under a payment that was made.
PaidWhereOpen ==
  \A d \in DenomIds, n \in Nullifiers : payout[d][n] > 0 => denomination[d].exists

PaidInv == PaidOncePerNote /\ PaidWhereOpen

\* A withdraw spends a fresh nullifier, for at most the tier amount.
LEMMA WithdrawOnce ==
  ASSUME TypeInv, NEW d \in DenomIds, NEW arg \in Nullifiers,
         NEW s \in QietrPayment(leaves[d]), NEW acct \in Wallets,
         NEW fv \in TokenAccounts \cup {NoAccount},
         withdraw(d, arg, s, acct, fv)
  PROVE  /\ s \in Signals /\ arg = s.nullifier
         /\ s.payment \in 1 .. denomination[d].amount
         /\ <<d, s.nullifier>> \notin nullifiers
<1>1. /\ s \in Signals /\ arg = s.nullifier
      /\ s.payment \in 1 .. denomination[d].amount
      /\ \E i \in 1 .. Len(leaves[d]) :
              leaves[d][i] = [nullifier |-> s.nullifier,
                              amount |-> denomination[d].amount]
      /\ <<d, s.nullifier>> \notin nullifiers
  BY WithdrawFacts
<1> QED BY <1>1

LEMMA NextPaidInv == TypeInv /\ PaidInv /\ [Next]_vars => PaidInv'
<1> DEFINE Paid(d, n) == /\ payout[d][n] <= denomination[d].amount
                         /\ payout[d][n] > 0 <=> <<d, n>> \in nullifiers
                         /\ payout[d][n] > 0 => denomination[d].exists
<1> SUFFICES ASSUME TypeInv, PaidInv, [Next]_vars,
                    NEW e \in DenomIds, NEW n \in Nullifiers
             PROVE  Paid(e, n)'
  BY DEF PaidInv, PaidOncePerNote, PaidWhereOpen
<1>1. Paid(e, n) /\ payout[e][n] \in Nat /\ denomination[e] \in Denomination
  BY DEF PaidInv, PaidOncePerNote, PaidWhereOpen, TypeInv, TypeOK
<1>2. CASE /\ payout'[e][n] = payout[e][n]
           /\ <<e, n>> \in nullifiers' <=> <<e, n>> \in nullifiers
           /\ denomination'[e].amount = denomination[e].amount
           /\ denomination'[e].exists = denomination[e].exists
  BY <1>1, <1>2
<1>3. ASSUME NEW signer \in Signers, ConfigStep(signer) PROVE Paid(e, n)'
  BY <1>2, <1>3, ConfigStepTyped
<1>4. CASE ChainStep \/ UNCHANGED vars
  BY <1>2, <1>4 DEF ChainStep, Tick, Redeploy, vars
<1>5. ASSUME NEW signer \in Signers, NEW d \in DenomIds, NEW amt \in TierAmounts,
             NEW mint \in Mints, initialize_denomination(signer, d, amt, mint)
      PROVE  Paid(e, n)'
  <2>1. payout' = payout /\ nullifiers' = nullifiers
    BY <1>5 DEF initialize_denomination
  <2>2. CASE e = d
    <3>1. /\ denomination'[e].amount = amt /\ amt \in Nat
          /\ denomination'[e].exists /\ ~denomination[e].exists
      BY <1>5, <2>2, ConstantsOK DEF initialize_denomination, TypeInv, TypeOK, Payable
    <3>2. payout[e][n] = 0
      BY <1>1, <3>1
    <3> QED BY <1>1, <2>1, <3>1, <3>2
  <2>3. CASE e # d
    BY <1>2, <1>5, <2>1, <2>3 DEF initialize_denomination, TypeInv, TypeOK
  <2> QED BY <2>2, <2>3
<1>6. ASSUME NEW d \in DenomIds, NEW w \in Wallets, NEW note \in Note,
             deposit(d, w, note)
      PROVE  Paid(e, n)'
  <2>1. /\ payout' = payout /\ nullifiers' = nullifiers
        /\ denomination' = [denomination EXCEPT ![d] = CountDeposit(denomination[d])]
    BY <1>6 DEF deposit
  <2>2. CountDeposit(denomination[e]).amount = denomination[e].amount
        /\ CountDeposit(denomination[e]).exists = denomination[e].exists
    BY <1>1 DEF CountDeposit, Denomination
  <2>3. denomination'[e] \in {denomination[e], CountDeposit(denomination[e])}
    BY <2>1 DEF TypeInv, TypeOK
  <2>4. denomination'[e].amount = denomination[e].amount
        /\ denomination'[e].exists = denomination[e].exists
    BY <2>2, <2>3
  <2> QED BY <1>2, <2>1, <2>4
<1>7. ASSUME NEW d \in DenomIds, NEW s \in QietrPayment(leaves[d]),
             NEW arg \in Nullifiers, NEW acct \in Wallets,
             NEW fv \in TokenAccounts \cup {NoAccount}, withdraw(d, arg, s, acct, fv)
      PROVE  Paid(e, n)'
  <2>1. /\ s.payment \in 1 .. denomination[d].amount /\ arg = s.nullifier
        /\ <<d, s.nullifier>> \notin nullifiers /\ s \in Signals
    BY <1>7, WithdrawOnce
  <2>2. /\ denomination' = denomination
        /\ nullifiers' = nullifiers \cup {<<d, s.nullifier>>}
        /\ payout' = [payout EXCEPT ![d][s.nullifier] = @ + s.payment]
        /\ denomination[d].exists
    BY <1>7, <2>1 DEF withdraw, WithdrawAccepted, WithdrawAccounts
  <2>3. CASE e = d /\ n = s.nullifier
    <3>1. payout[e][n] = 0
      BY <1>1, <2>1, <2>3
    <3>2. payout'[e][n] = payout[e][n] + s.payment
      BY <2>2, <2>3 DEF TypeInv, TypeOK
    <3>3. denomination[e].amount \in Nat
      BY <1>1, ConstantsOK DEF Denomination, Payable
    <3>4. s.payment \in Nat /\ payout'[e][n] = s.payment
      BY <2>1, <2>3, <3>1, <3>2, <3>3
    <3> QED BY <2>1, <2>2, <2>3, <3>3, <3>4
  <2>4. CASE ~(e = d /\ n = s.nullifier)
    <3>1. payout'[e][n] = payout[e][n]
      BY <2>2, <2>4 DEF TypeInv, TypeOK
    <3>2. <<e, n>> \in nullifiers' <=> <<e, n>> \in nullifiers
      BY <2>2, <2>4
    <3> QED BY <1>2, <2>2, <3>1, <3>2
  <2> QED BY <2>3, <2>4
<1> QED BY <1>3, <1>4, <1>5, <1>6, <1>7, NextCases

\* No sequence of instructions moves money out of a vault for a nullifier
\* twice, or more than one tier amount for it.
THEOREM NoDoublePayment == Spec => []PaidOncePerNote
<1>1. Init => PaidInv
  BY ConstantsOK DEF Init, PaidInv, PaidOncePerNote, PaidWhereOpen
<1>2. PaidInv => PaidOncePerNote
  BY DEF PaidInv
<1> QED BY <1>1, <1>2, NextPaidInv, TypeInvariant, PTL DEF Spec

-----------------------------------------------------------------------------
(* The pool implements ShieldedLedger: initialize_denomination, deposit and  *)
(* withdraw are one step of the ledger each, every other step is none.       *)

absTier == [d \in DenomIds |-> denomination[d].amount]
absLive == [d \in DenomIds |-> LiveNullifiers(d)]
absSpent == [d \in DenomIds |-> {n \in Nullifiers : <<d, n>> \in nullifiers}]
absFunds == [d \in DenomIds |-> balance[d]]

\* The ledger tells an open tier by its amount, the program by its account.
OpenTiers == \A d \in DenomIds : denomination[d].exists <=> denomination[d].amount # 0

LEMMA OpenTiersInit == Init => OpenTiers
BY DEF Init, OpenTiers

LEMMA OpenTiersNext == TypeInv /\ OpenTiers /\ [Next]_vars => OpenTiers'
<1> SUFFICES ASSUME TypeInv, OpenTiers, [Next]_vars, NEW e \in DenomIds
             PROVE  (denomination[e].exists <=> denomination[e].amount # 0)'
  BY DEF OpenTiers
<1>1. /\ denomination[e].exists <=> denomination[e].amount # 0
      /\ denomination[e] \in Denomination /\ denomination \in [DenomIds -> Denomination]
  BY DEF OpenTiers, TypeInv, TypeOK
<1>2. CASE UNCHANGED denomination
  BY <1>1, <1>2
<1>3. ASSUME NEW signer \in Signers, NEW d \in DenomIds, NEW amt \in TierAmounts,
             NEW mint \in Mints, initialize_denomination(signer, d, amt, mint)
      PROVE  (denomination[e].exists <=> denomination[e].amount # 0)'
  <2>1. amt # 0 /\ denomination' = [denomination EXCEPT ![d] =
                      [exists |-> TRUE, amount |-> amt, mint |-> mint, deposit_count |-> 0]]
    BY <1>3, ConstantsOK DEF initialize_denomination
  <2> QED BY <1>1, <2>1
<1>4. ASSUME NEW d \in DenomIds, NEW w \in Wallets, NEW note \in Note, deposit(d, w, note)
      PROVE  (denomination[e].exists <=> denomination[e].amount # 0)'
  <2>1. denomination'[e] \in {denomination[e], CountDeposit(denomination[e])}
    BY <1>1, <1>4 DEF deposit
  <2>2. /\ CountDeposit(denomination[e]).exists = denomination[e].exists
        /\ CountDeposit(denomination[e]).amount = denomination[e].amount
    BY <1>1 DEF CountDeposit, Denomination
  <2> QED BY <1>1, <2>1, <2>2
<1>5. CASE ChainStep \/ UNCHANGED vars
  BY <1>2, <1>5 DEF ChainStep, Tick, Redeploy, vars
<1>6. ASSUME NEW signer \in Signers, ConfigStep(signer)
      PROVE  (denomination[e].exists <=> denomination[e].amount # 0)'
  BY <1>2, <1>6, ConfigStepTyped
<1>7. ASSUME NEW d \in DenomIds, NEW s \in QietrPayment(leaves[d]),
             NEW arg \in Nullifiers, NEW acct \in Wallets,
             NEW fv \in TokenAccounts \cup {NoAccount}, withdraw(d, arg, s, acct, fv)
      PROVE  (denomination[e].exists <=> denomination[e].amount # 0)'
  BY <1>2, <1>7 DEF withdraw
<1> QED BY <1>3, <1>4, <1>5, <1>6, <1>7, NextCases

\* A tier's notes are told by its amount, its leaves and its nullifiers.
LEMMA SameLive ==
  ASSUME NEW e \in DenomIds, leaves'[e] = leaves[e],
         denomination'[e].amount = denomination[e].amount,
         \A n \in Nullifiers : <<e, n>> \in nullifiers' <=> <<e, n>> \in nullifiers
  PROVE  LiveNullifiers(e)' = LiveNullifiers(e)
BY DEF LiveNullifiers

LEMMA LedgerInitRefines == Init => Ledger!Init
<1> SUFFICES ASSUME Init PROVE Ledger!Init
  OBVIOUS
<1>1. \A d \in DenomIds : denomination[d].amount = 0 /\ LiveNullifiers(d) = {} /\ balance[d] = 0
  BY ConstantsOK DEF Init, LiveNullifiers, TokenAccounts
<1>2. nullifiers = {}
  BY DEF Init
<1> QED BY <1>1, <1>2 DEF Ledger!Init

\* Steps that touch no tier, no leaf, no nullifier and no vault.
LEMMA LedgerStutters ==
  ASSUME UNCHANGED <<denomination, leaves, nullifiers, balance>>
  PROVE  UNCHANGED Ledger!ledgerVars
<1>1. \A e \in DenomIds : LiveNullifiers(e)' = LiveNullifiers(e)
  BY SameLive
<1> QED BY <1>1 DEF Ledger!ledgerVars

LEMMA OpenRefines ==
  ASSUME TypeInv, TypeInv', OpenTiers, NEW signer \in Signers, NEW d \in DenomIds,
         NEW amt \in TierAmounts, NEW mint \in Mints,
         initialize_denomination(signer, d, amt, mint)
  PROVE  Ledger!Next
<1>1. /\ ~denomination[d].exists /\ leaves' = leaves /\ nullifiers' = nullifiers
      /\ balance' = balance /\ denomination \in [DenomIds -> Denomination]
      /\ denomination' = [denomination EXCEPT ![d] =
            [exists |-> TRUE, amount |-> amt, mint |-> mint, deposit_count |-> 0]]
  BY DEF initialize_denomination, TypeInv, TypeOK
<1>2. leaves[d] = << >> /\ LiveNullifiers(d) = {} /\ LiveNullifiers(d)' = {}
  BY <1>1 DEF TypeInv, LeavesCounted, LiveNullifiers
<1>3. absTier[d] = 0 /\ absTier' = [absTier EXCEPT ![d] = amt]
  BY <1>1 DEF absTier, OpenTiers
<1>4. absLive' = absLive
  <2>1. \A e \in DenomIds \ {d} : LiveNullifiers(e)' = LiveNullifiers(e)
    BY <1>1, SameLive
  <2> QED BY <1>2, <2>1 DEF absLive
<1>5. absSpent' = absSpent /\ absFunds' = absFunds
  BY <1>1 DEF absSpent, absFunds
<1>6. Ledger!Open(d, amt)
  BY <1>3, <1>4, <1>5 DEF Ledger!Open, absTier, absLive, absSpent, absFunds
<1> QED BY <1>6 DEF Ledger!Next

LEMMA DepositRefines ==
  ASSUME TypeInv, OpenTiers, NEW d \in DenomIds, NEW w \in Wallets, NEW note \in Note,
         deposit(d, w, note)
  PROVE  Ledger!Next
<1> DEFINE A == denomination[d].amount
<1>0. PICK born \in SUBSET Nullifiers :
        born = {n \in Nullifiers : note = [nullifier |-> n, amount |-> A]}
  OBVIOUS
<1>1. /\ denomination[d].exists /\ denomination \in [DenomIds -> Denomination]
      /\ balance \in [TokenAccounts -> Nat] /\ w \in TokenAccounts /\ d \in TokenAccounts
      /\ w \notin DenomIds
  BY ConstantsOK DEF deposit, DepositAccounts, TypeInv, TypeOK, TokenAccounts
<1>2. /\ denomination' = [denomination EXCEPT ![d] = CountDeposit(@)]
      /\ leaves' = [leaves EXCEPT ![d] = Append(@, note)] /\ nullifiers' = nullifiers
      /\ balance' = [[balance EXCEPT ![w] = @ - A] EXCEPT ![d] = @ + A]
  BY DEF deposit, Transfer
<1>3. \A e \in DenomIds : denomination'[e].amount = denomination[e].amount
  <2>1. CountDeposit(denomination[d]).amount = denomination[d].amount
    BY <1>1 DEF CountDeposit, Denomination
  <2> QED BY <1>1, <1>2, <2>1
<1>4. absTier' = absTier /\ absSpent' = absSpent /\ absTier[d] = A /\ A # 0
  BY <1>1, <1>2, <1>3 DEF absTier, absSpent, OpenTiers
<1>5. absFunds' = [absFunds EXCEPT ![d] = @ + A]
  <2>1. \A e \in DenomIds : balance'[e] = IF e = d THEN balance[e] + A ELSE balance[e]
    BY <1>1, <1>2 DEF TokenAccounts
  <2> QED BY <2>1 DEF absFunds
<1>6. absLive' = [absLive EXCEPT ![d] = @ \cup (born \ absSpent[d])]
  <2>1. LiveNullifiers(d)' = LiveNullifiers(d) \cup
          {n \in Nullifiers : /\ note = [nullifier |-> n, amount |-> A]
                              /\ <<d, n>> \notin nullifiers}
    BY <1>2, <1>3, LiveAfterDeposit
  <2>2. LiveNullifiers(d)' = LiveNullifiers(d) \cup (born \ absSpent[d])
    BY <1>0, <2>1 DEF absSpent
  <2>3. \A e \in DenomIds \ {d} : LiveNullifiers(e)' = LiveNullifiers(e)
    <3>1. \A e \in DenomIds \ {d} : leaves'[e] = leaves[e]
      BY <1>2 DEF TypeInv, TypeOK
    <3> QED BY <1>2, <1>3, <3>1, SameLive
  <2> QED BY <2>2, <2>3 DEF absLive
<1>7. \A m, n \in born : m = n
  BY <1>0
<1> HIDE DEF A
<1>8. Ledger!Deposit(d, born)
  BY <1>4, <1>5, <1>6, <1>7 DEF Ledger!Deposit, absTier, absLive, absSpent, absFunds
<1> QED BY <1>8 DEF Ledger!Next

\* What a withdraw moves between vaults: the payment leaves one, and the fee may
\* stay in it or go to another.
LEMMA WithdrawVaults ==
  ASSUME TypeInv, NEW d \in DenomIds, NEW arg \in Nullifiers,
         NEW s \in QietrPayment(leaves[d]), NEW acct \in Wallets,
         NEW fv \in TokenAccounts \cup {NoAccount}, withdraw(d, arg, s, acct, fv)
  PROVE  \E keeper \in DenomIds : \E kept \in 0 .. s.payment :
           absFunds' = [[absFunds EXCEPT ![d] = @ - s.payment] EXCEPT ![keeper] = @ + kept]
<1> DEFINE fee == FeeOf(s.payment)
           net == NetOf(s.payment)
           mid == Transfer(balance, d, acct, net)
<1>1. /\ s.payment \in Nat /\ fee \in 0 .. s.payment /\ fee \in Nat /\ net \in Nat
      /\ net + fee = s.payment
  <2>1. /\ s \in Signals /\ fee \in 0 .. s.payment /\ net \in 0 .. s.payment
        /\ net + fee = s.payment
    BY ZenonT(40), WithdrawFacts
  <2>2. s.payment \in Nat
    BY <2>1, ConstantsOK DEF Signals, Payable
  <2> QED BY <2>1, <2>2
<1>2. /\ balance \in [TokenAccounts -> Nat] /\ acct \notin DenomIds /\ acct \in TokenAccounts
      /\ DenomIds \subseteq TokenAccounts
  BY ConstantsOK DEF TypeInv, TypeOK, TokenAccounts
<1>3. /\ config.fee_vault # NoAccount => config.fee_vault \in TokenAccounts
      /\ balance' = IF config.fee_vault = NoAccount THEN mid
                    ELSE Transfer(mid, d, config.fee_vault, fee)
  BY DEF withdraw, TypeInv, TypeOK, Config
<1>4. config.fee_vault = NoAccount => fee = 0
  BY DEF FeeOf
<1> HIDE DEF fee, net
<1>5. mid \in [TokenAccounts -> Int]
      /\ \A e \in DenomIds : mid[e] = IF e = d THEN balance[e] - net ELSE balance[e]
  BY <1>1, <1>2 DEF Transfer
<1> HIDE DEF mid
<1>6. CASE config.fee_vault \notin DenomIds
  <2>1. \A e \in DenomIds : balance'[e] = IF e = d THEN balance[e] - s.payment ELSE balance[e]
    <3>1. CASE config.fee_vault = NoAccount
      BY <1>1, <1>2, <1>3, <1>4, <1>5, <3>1
    <3>2. CASE config.fee_vault # NoAccount
      <4>1. balance' = [[mid EXCEPT ![d] = @ - fee] EXCEPT ![config.fee_vault] = @ + fee]
        BY <1>3, <3>2 DEF Transfer
      <4>2. \A e \in DenomIds : balance'[e] = IF e = d THEN mid[e] - fee ELSE mid[e]
        BY <1>2, <1>3, <1>5, <1>6, <3>2, <4>1
      <4>3. balance[d] \in Nat
        BY <1>2
      <4> QED BY <1>1, <1>5, <4>2, <4>3
    <3> QED BY <3>1, <3>2
  <2>2. \A e \in DenomIds : balance[e] \in Nat
    BY <1>2
  <2>3. absFunds' = [[absFunds EXCEPT ![d] = @ - s.payment] EXCEPT ![d] = @ + 0]
    <3>1. (balance[d] - s.payment) + 0 = balance[d] - s.payment
      BY <1>1, <2>2
    <3> QED BY <2>1, <3>1 DEF absFunds
  <2>4. 0 \in 0 .. s.payment
    BY <1>1
  <2> WITNESS d \in DenomIds
  <2> WITNESS 0 \in 0 .. s.payment
  <2> QED BY <2>3
<1>7. CASE config.fee_vault \in DenomIds
  <2> DEFINE f == config.fee_vault
  <2>1. balance' = [[mid EXCEPT ![d] = @ - fee] EXCEPT ![f] = @ + fee]
    BY <1>2, <1>3, <1>7, ConstantsOK DEF Transfer
  <2> HIDE DEF f
  <2>2. \A e \in DenomIds : balance[e] \in Nat /\ mid[e] \in Int
    BY <1>2, <1>5
  <2>3. f \in DenomIds
    BY <1>7 DEF f
  <2>4. \A e \in DenomIds :
          balance'[e] = (balance[e] - (IF e = d THEN s.payment ELSE 0)) + (IF e = f THEN fee ELSE 0)
    <3>1. \A e \in DenomIds :
            balance'[e] = (mid[e] - (IF e = d THEN fee ELSE 0)) + (IF e = f THEN fee ELSE 0)
      BY <1>1, <1>2, <1>5, <2>1, <2>2, <2>3
    <3> QED BY <1>1, <1>5, <2>2, <3>1
  <2>5. absFunds' = [[absFunds EXCEPT ![d] = @ - s.payment] EXCEPT ![f] = @ + fee]
    BY <1>1, <2>2, <2>3, <2>4 DEF absFunds
  <2> QED BY <1>1, <2>3, <2>5
<1> QED BY <1>6, <1>7

LEMMA WithdrawRefines ==
  ASSUME TypeInv, NEW d \in DenomIds, NEW arg \in Nullifiers,
         NEW s \in QietrPayment(leaves[d]), NEW acct \in Wallets,
         NEW fv \in TokenAccounts \cup {NoAccount}, withdraw(d, arg, s, acct, fv)
  PROVE  Ledger!Next
<1> DEFINE n == s.nullifier
<1>1. /\ n \in LiveNullifiers(d) /\ LiveNullifiers(d)' = LiveNullifiers(d) \ {n}
      /\ n \in Nullifiers
  BY LiveAfterWithdraw DEF LiveNullifiers
<1>2. /\ denomination' = denomination /\ leaves' = [leaves EXCEPT ![d] = Append(@, s.change)]
      /\ nullifiers' = nullifiers \cup {<<d, n>>}
      /\ s.payment \in 1 .. absTier[d]
  <2>1. arg = s.nullifier /\ s.payment \in 1 .. denomination[d].amount
    BY WithdrawOnce
  <2> QED BY <2>1 DEF withdraw, absTier
<1>3. absTier' = absTier
  BY <1>2 DEF absTier
<1>4. absLive' = [absLive EXCEPT ![d] = @ \ {n}] /\ n \in absLive[d]
  <2>1. \A e \in DenomIds \ {d} : LiveNullifiers(e)' = LiveNullifiers(e)
    <3>1. \A e \in DenomIds \ {d} :
            /\ leaves'[e] = leaves[e]
            /\ \A m \in Nullifiers : <<e, m>> \in nullifiers' <=> <<e, m>> \in nullifiers
      BY <1>2 DEF TypeInv, TypeOK
    <3> QED BY <1>2, <3>1, SameLive
  <2> HIDE DEF n
  <2> QED BY <1>1, <2>1 DEF absLive
<1>5. absSpent' = [absSpent EXCEPT ![d] = @ \cup {n}]
  BY <1>1, <1>2 DEF absSpent
<1>6. PICK keeper \in DenomIds, kept \in 0 .. s.payment :
        absFunds' = [[absFunds EXCEPT ![d] = @ - s.payment] EXCEPT ![keeper] = @ + kept]
  BY WithdrawVaults
<1> HIDE DEF n
<1>7. Ledger!Spend(d, n, s.payment, keeper, kept)
  BY <1>3, <1>4, <1>5, <1>6 DEF Ledger!Spend, absTier, absLive, absSpent, absFunds
<1>8. s.payment \in 1 .. denomination[d].amount
  BY <1>2 DEF absTier
<1> QED BY <1>1, <1>6, <1>7, <1>8 DEF Ledger!Next

LEMMA LedgerStep ==
  ASSUME TypeInv, TypeInv', OpenTiers, [Next]_vars
  PROVE  [Ledger!Next]_(Ledger!ledgerVars)
<1>1. CASE ChainStep \/ UNCHANGED vars
  BY <1>1, LedgerStutters DEF ChainStep, Tick, Redeploy, vars
<1>2. ASSUME NEW signer \in Signers, ConfigStep(signer) PROVE UNCHANGED Ledger!ledgerVars
  BY <1>2, ConfigStepTyped, LedgerStutters
<1> QED BY <1>1, <1>2, OpenRefines, DepositRefines, WithdrawRefines, NextCases

\* The pool is a ledger of live notes: whatever is deposited, proved and taken as
\* fees, a note is spent once and releases at most its tier amount (lib.rs).
THEOREM PoolImplements == Spec => ImplementsLedger
<1>1. TypeInv /\ TypeInv' /\ OpenTiers /\ [Next]_vars => [Ledger!Next]_(Ledger!ledgerVars)
  BY LedgerStep
<1> QED BY <1>1, LedgerInitRefines, OpenTiersInit, OpenTiersNext, TypeInvariant, PTL
        DEF Spec, Ledger!Spec, ImplementsLedger

-----------------------------------------------------------------------------
(* An outstanding note can be paid with                                     *)

\* A leaf is under the newest root, and the window always holds that one.
LEMMA NewestRootKnown ==
  ASSUME TypeInv, KnownRootsAreWindow, NEW d \in DenomIds, NEW i \in 1 .. Len(leaves[d])
  PROVE  /\ <<i, Len(leaves[d])>> \in Membership(leaves[d])
         /\ is_known_root(tree[d], Len(leaves[d]))
<1>1. /\ leaves[d] \in Seq(Note) /\ Len(leaves[d]) \in Nat
      /\ tree[d].next_leaf_index = Len(leaves[d])
      /\ tree[d].next_leaf_index \in 0 .. Capacity
  BY DEF TypeInv, TypeOK, LeavesCounted, MerkleTree
<1>2. Len(leaves[d]) \in 1 .. Len(leaves[d]) /\ i <= Len(leaves[d])
  BY <1>1
<1>3. <<i, Len(leaves[d])>> \in Membership(leaves[d])
  BY <1>2 DEF Membership
<1>4. /\ Len(leaves[d]) >= 1
      /\ Len(leaves[d]) > tree[d].next_leaf_index - RootHistoryLen
  BY <1>1, <1>2, ConstantsOK
<1>5. is_known_root(tree[d], Len(leaves[d]))
  BY <1>1, <1>4 DEF KnownRootsAreWindow
<1> QED BY <1>3, <1>5

\* A solvent vault with an outstanding note covers a whole tier amount.
LEMMA VaultCovers ==
  ASSUME TypeInv, Solvent, NEW d \in DenomIds, NEW n \in LiveNullifiers(d)
  PROVE  balance[d] >= denomination[d].amount
<1>1. /\ IsFiniteSet(LiveNullifiers(d)) /\ Cardinality(LiveNullifiers(d)) \in Nat
  BY LiveFinite
<1>2. Cardinality(LiveNullifiers(d)) >= 1
  <2>1. LiveNullifiers(d) # {}
    OBVIOUS
  <2> QED BY <1>1, <2>1, FS_EmptySet
<1>3. denomination[d].amount \in Nat /\ balance[d] \in Nat
  BY ConstantsOK DEF TypeInv, TypeOK, Denomination, Payable, TokenAccounts
<1>4. denomination[d].amount <= denomination[d].amount * Cardinality(LiveNullifiers(d))
  <2> DEFINE a == denomination[d].amount  c == Cardinality(LiveNullifiers(d))
  <2>1. a \in Nat /\ c \in Nat /\ c >= 1
    BY <1>1, <1>2, <1>3
  <2> HIDE DEF a, c
  <2>2. a * 1 <= a * c /\ a * 1 = a
    BY <2>1
  <2> QED BY <2>2 DEF a, c
<1>5. denomination[d].amount * Cardinality(LiveNullifiers(d)) \in Nat
  BY <1>1, <1>3
<1>6. balance[d] >= denomination[d].amount * Cardinality(LiveNullifiers(d))
  BY DEF Solvent
<1> QED BY <1>3, <1>4, <1>5, <1>6

\* The proof that pays p of the note to w, made under the newest root.
LEMMA ProofForNote ==
  ASSUME TypeInv, KnownRootsAreWindow, NEW d \in DenomIds, NEW n \in LiveNullifiers(d),
         NEW w \in Wallets, NEW p \in 1 .. denomination[d].amount
  PROVE  \E s \in QietrPayment(leaves[d]) :
           /\ s.nullifier = n /\ s.payment = p /\ s.recipient = w
           /\ s.amount = denomination[d].amount
           /\ is_known_root(tree[d], s.root)
<1>1. PICK i \in 1 .. Len(leaves[d]) :
             leaves[d][i] = [nullifier |-> n, amount |-> denomination[d].amount]
  BY DEF LiveNullifiers
<1>2. n \in Nullifiers
  BY DEF LiveNullifiers
<1> DEFINE note == leaves[d][i]
           s == Payment(note, Len(leaves[d]), w, p, n)
           m == <<i, Len(leaves[d])>>
<1>3. m \in Membership(leaves[d]) /\ is_known_root(tree[d], Len(leaves[d]))
  BY NewestRootKnown
<1>4. m[1] = i /\ m[2] = Len(leaves[d])
  OBVIOUS
<1>5. note.amount = denomination[d].amount /\ note.nullifier = n
  BY <1>1
<1>6. s \in {Payment(leaves[d][m[1]], m[2], v, q, k) :
                v \in Wallets, q \in 1 .. leaves[d][m[1]].amount, k \in Nullifiers}
  BY <1>2, <1>4, <1>5
<1>7. s \in QietrPayment(leaves[d])
  BY <1>3, <1>6 DEF QietrPayment
<1>8. /\ s.nullifier = n /\ s.payment = p /\ s.recipient = w
      /\ s.amount = denomination[d].amount /\ s.root = Len(leaves[d])
  BY <1>5 DEF Payment
<1> QED BY <1>3, <1>7, <1>8

\* No tier is open before the pool is: its first transaction is the admin's.
TiersUnderPool == \A d \in DenomIds : denomination[d].exists => config.exists

LEMMA NextTiersUnderPool ==
  TypeInv /\ TiersUnderPool /\ [Next]_vars => TiersUnderPool'
<1> SUFFICES ASSUME TypeInv, TiersUnderPool, [Next]_vars, NEW e \in DenomIds,
                    denomination'[e].exists
             PROVE  config'.exists
  BY DEF TiersUnderPool
<1>1. ASSUME NEW signer \in Signers, ConfigStep(signer) PROVE config'.exists
  <2>1. config \in Config
    BY DEF TypeInv, TypeOK
  <2>2. config.exists
    BY <1>1, ConfigStepTyped DEF TiersUnderPool
  <2> QED BY <1>1, <2>1, <2>2 DEF ConfigStep, initialize_pool, set_paused,
             queue_vk_upgrade, apply_vk_upgrade, set_fee_vault, Config
<1>2. ASSUME NEW signer \in Signers, NEW d \in DenomIds, NEW amt \in TierAmounts,
             NEW mint \in Mints, initialize_denomination(signer, d, amt, mint)
      PROVE  config'.exists
  BY <1>2 DEF initialize_denomination, AdminSigned
<1>3. ASSUME NEW d \in DenomIds, NEW w \in Wallets, NEW note \in Note, deposit(d, w, note)
      PROVE  config'.exists
  BY <1>3 DEF deposit, DepositAccounts
<1>4. ASSUME NEW d \in DenomIds, NEW s \in QietrPayment(leaves[d]),
             NEW arg \in Nullifiers, NEW acct \in Wallets,
             NEW fv \in TokenAccounts \cup {NoAccount}, withdraw(d, arg, s, acct, fv)
      PROVE  config'.exists
  BY <1>4 DEF withdraw, WithdrawAccepted, WithdrawAccounts
<1>5. CASE ChainStep \/ UNCHANGED vars
  BY <1>5 DEF ChainStep, Tick, Redeploy, vars, TiersUnderPool
<1> QED BY <1>1, <1>2, <1>3, <1>4, <1>5, NextCases

\* The owner of an outstanding tier note is never locked out by what others
\* deposit, spend or append while the pool serves, whatever the size of the
\* tree, the root window and the fee: the newest root is known, it covers every
\* leaf, and the vault holds the payment (withdraw's checks taken together).
THEOREM NotesPayable == Spec => []UnspentNotesPayable
<1>1. TypeInv /\ TiersUnderPool /\ Solvent /\ KnownRootsAreWindow => UnspentNotesPayable
  <2> SUFFICES ASSUME TypeInv, TiersUnderPool, Solvent, KnownRootsAreWindow,
                      NEW d \in DenomIds, PoolServes(d), NEW n \in LiveNullifiers(d),
                      NEW w \in Wallets, NEW p \in 1 .. denomination[d].amount,
                      WalletMint[w] = denomination[d].mint
               PROVE  CanPay(d, [nullifier |-> n, amount |-> denomination[d].amount], w, p)
    BY DEF UnspentNotesPayable
  <2>1. PICK s \in QietrPayment(leaves[d]) :
               /\ s.nullifier = n /\ s.payment = p /\ s.recipient = w
               /\ s.amount = denomination[d].amount
               /\ is_known_root(tree[d], s.root)
    BY ProofForNote
  <2>2. balance[d] >= p
    <3>1. balance[d] >= denomination[d].amount
      BY VaultCovers
    <3>2. denomination[d].amount \in Nat /\ balance[d] \in Nat
      BY ConstantsOK DEF TypeInv, TypeOK, Denomination, Payable, TokenAccounts
    <3> QED BY <3>1, <3>2
  <2>3. WithdrawAccounts(d, n, w, config.fee_vault)
    <3>1. config.exists
      BY DEF PoolServes, TiersUnderPool
    <3>2. MintOf(w) = denomination[d].mint
      BY ConstantsOK DEF MintOf
    <3>3. <<d, n>> \notin nullifiers
      BY DEF LiveNullifiers
    <3> QED BY <3>1, <3>2, <3>3 DEF WithdrawAccounts, PoolServes
  <2>4. WithdrawAccepted(d, n, s, w, config.fee_vault)
    BY <2>1, <2>2, <2>3 DEF WithdrawAccepted, PoolServes, SeedBoundToProof, FeeVaultAccepted
  <2> QED BY <2>1, <2>4 DEF CanPay
<1>2. Init => TiersUnderPool
  BY DEF Init, TiersUnderPool
<1>3. Spec => []TiersUnderPool
  BY <1>2, NextTiersUnderPool, TypeInvariant, PTL DEF Spec
<1> QED BY <1>1, <1>3, TypeInvariant, VaultsSolvent, RootWindow, PTL
=============================================================================
