------------------------ MODULE IndexerGeyser_proofs -------------------------
(***************************************************************************)
(* Proofs about the Geyser plugin (IndexerGeyser): the account tables are    *)
(* complete once everything reported is written, and the checkpoint never    *)
(* runs ahead of the nullifiers, up to what the plugin is known to lose.     *)
(*                                                                          *)
(* The queue is first in first out, and what an event relies on is reported  *)
(* before it: a denomination before its trees and nullifiers, a nullifier    *)
(* before the checkpoint that covers it.  So every event that the tables     *)
(* must hold is at every moment stored, in the queue before whatever relies  *)
(* on it, yet to be reported, or of a tier that is counted as lost.          *)
(***************************************************************************)
EXTENDS IndexerGeyser, ProofLemmas, SequenceTheorems, FiniteSetTheorems, TLAPS

-----------------------------------------------------------------------------
(* The inductive invariant *)

Ops == {"register", "deposit", "withdraw", "failed"}
Slots == {leaves \in SUBSET Nat : IsFiniteSet(leaves)}

AccountEvents ==
  [kind : {"Denomination"}, denom : Denoms]
  \cup [kind : {"MerkleTree"}, denom : Denoms, leaves : Slots]
  \cup [kind : {"NullifierRecord"}, denom : Denoms, nullifier : Nat]
Events ==
  AccountEvents
  \cup [kind : {"InsertCommitment"}, denom : Denoms, leaf_index : Nat, leaf : Nat]
  \cup [kind : {"Checkpoint"}, last_slot : Nat, last_signature : Nat]

TypeOK ==
  /\ ledger \in Seq([op : Ops, denom : Denoms])
  /\ accounts \in Seq([slot : Nat, writes : SUBSET AccountEvents])
  /\ txs \in Seq(Nat \ {0}) /\ rooted \in Nat /\ loaded \in BOOLEAN
  /\ leaf_index_cache \in [Denoms -> Nat] /\ stamping \in Nat
  /\ queue \in Seq(Events)
  /\ roots \in [Denoms -> SUBSET (Nat \X Slots)]
  /\ progress \in [last_slot : Nat, last_signature : Nat]
  /\ lost \subseteq everLost

\* Nothing happens in a tier that is not registered.
LedgerInv ==
  \A s \in 1 .. Len(ledger) :
    ledger[s].op # "register" => ledger[s].denom \in RegisteredAt(s - 1)

\* The slots to report are the last ones of the ledger, each with the accounts
\* its transaction wrote, but for a snapshot at the head.  While that is being
\* reported no transaction and no root is.
ReportInv ==
  /\ ~loaded => accounts = <<>> /\ txs = <<>> /\ stamping = None
  /\ Len(accounts) <= Len(ledger) + 1
  /\ \A i \in 1 .. Len(accounts) : accounts[i].slot = Len(ledger) - Len(accounts) + i
  /\ \A i \in 2 .. Len(accounts) : \A s \in {accounts[i].slot} : accounts[i].writes = WritesOf(s)
  /\ accounts # <<>> => \A h \in {accounts[1].slot} :
       \/ h \in 1 .. Len(ledger) /\ accounts[1].writes \subseteq WritesOf(h)
       \/ /\ accounts[1].writes \subseteq Snapshot(h).writes
          /\ rooted = h /\ stamping = None /\ \A i \in 1 .. Len(txs) : txs[i] > h
  /\ stamping # None => stamping <= Len(ledger) - Len(accounts)

\* What the tables must hold of the first n slots.
Needed(n) ==
  {DenominationAccount(d) : d \in RegisteredAt(n)}
  \cup {MerkleTree(d, n) : d \in {e \in RegisteredAt(n) : LeavesAt(n, e) # {}}}
  \cup {NullifierRecord(s) : s \in SpentAt(n)}

InTables(e) ==
  \/ e.kind = "Denomination" /\ e.denom \in denominations
  \/ e.kind = "MerkleTree" /\ <<Cardinality(e.leaves), e.leaves>> \in roots[e.denom]
  \/ e.kind = "NullifierRecord" /\ e.nullifier \in nullifiers

\* An event is stored, among the first i of the queue, or of a tier that lost one.
Pending(e, i) == e.denom \in lost \/ InTables(e) \/ \E k \in 1 .. i : queue[k] = e

\* Everything reported is stored or on its way.
SecureInv ==
  loaded =>
    /\ accounts = <<>> => \A h \in {Len(ledger)} : \A e \in Needed(h) : Pending(e, Len(queue))
    /\ accounts # <<>> => \A h \in {accounts[1].slot} :
         /\ \A e \in Needed(h) : Pending(e, Len(queue)) \/ e \in accounts[1].writes
         /\ \A d \in RegisteredAt(h - 1) : Pending(DenominationAccount(d), Len(queue))

\* An event whose row refers to a denomination.
Refers(e) == e.kind = "NullifierRecord" \/ (e.kind = "MerkleTree" /\ e.leaves # {})

\* A tree that the ledger has, or had.
TreeOf(e) == \E m \in 0 .. Len(ledger) : e.leaves = LeavesAt(m, e.denom)

\* What an event relies on is stored, or among the first i of the queue.
Sound(e, i) ==
  /\ e.kind = "MerkleTree" => TreeOf(e)
  /\ Refers(e) => Pending(DenominationAccount(e.denom), i)
  /\ e.kind = "Checkpoint" =>
       /\ e.last_slot \in 0 .. Len(ledger)
       /\ \A s \in SpentAt(e.last_slot) : Pending(NullifierRecord(s), i)

\* What an event in the queue relies on is before it.
QueueInv == \A i \in 1 .. Len(queue) : \A e \in {queue[i]} : Sound(e, i - 1)

ProgressInv == progress.last_slot \in 0 .. Len(ledger) /\ CheckpointCoversSpends

PluginInv == TypeOK /\ LedgerInv /\ ReportInv /\ SecureInv /\ QueueInv /\ ProgressInv

-----------------------------------------------------------------------------
(* The ledger *)

LEMMA LedgerTypes ==
  ASSUME ledger \in Seq([op : Ops, denom : Denoms])
  PROVE  /\ Len(ledger) \in Nat /\ DOMAIN ledger = 1 .. Len(ledger)
         /\ \A s \in 1 .. Len(ledger) : ledger[s].op \in Ops /\ ledger[s].denom \in Denoms
<1>1. Len(ledger) \in Nat /\ DOMAIN ledger = 1 .. Len(ledger)
  BY LenProperties
<1>2. \A s \in 1 .. Len(ledger) : ledger[s] \in [op : Ops, denom : Denoms]
  BY ElementOfSeq
<1> QED
  BY <1>1, <1>2

\* The leaves of a tree are a finite set that grows with the ledger, so two of
\* the same size are the same.
LEMMA LeavesFinite ==
  ASSUME NEW n \in Int, NEW d
  PROVE  LeavesAt(n, d) \in Slots /\ Cardinality(LeavesAt(n, d)) \in Nat
<1>1. IsFiniteSet(1 .. n)
  BY FS_Interval
<1>2. LeavesAt(n, d) \subseteq 1 .. n
  BY DEF LeavesAt
<1>3. IsFiniteSet(LeavesAt(n, d))
  BY <1>1, <1>2, FS_Subset
<1>4. LeavesAt(n, d) \subseteq Nat
  BY <1>2
<1> QED
  BY <1>3, <1>4, FS_CardinalityType DEF Slots

LEMMA LeavesOfSize ==
  ASSUME NEW m \in Int, NEW n \in Int, NEW d,
         Cardinality(LeavesAt(m, d)) = Cardinality(LeavesAt(n, d))
  PROVE  LeavesAt(m, d) = LeavesAt(n, d)
<1>1. IsFiniteSet(LeavesAt(m, d)) /\ IsFiniteSet(LeavesAt(n, d))
  BY LeavesFinite DEF Slots
<1>2. CASE m <= n
  <2>1. LeavesAt(m, d) \subseteq LeavesAt(n, d)
    BY <1>2 DEF LeavesAt
  <2> QED
    BY <1>1, <2>1, FS_Subset
<1>3. CASE n <= m
  <2>1. LeavesAt(n, d) \subseteq LeavesAt(m, d)
    BY <1>3 DEF LeavesAt
  <2> QED
    BY <1>1, <2>1, FS_Subset
<1> QED
  BY <1>2, <1>3

LEMMA RegisteredStays ==
  ASSUME NEW m \in Int, NEW n \in Int, m <= n
  PROVE  RegisteredAt(m) \subseteq RegisteredAt(n) /\ SpentAt(m) \subseteq SpentAt(n)
BY DEF RegisteredAt, SpentAt

\* What the ledger says of its first slots does not change when it grows.
LEMMA PastStays ==
  ASSUME TypeOK, NEW n \in Int, n <= Len(ledger),
         \A s \in 1 .. Len(ledger) : ledger'[s] = ledger[s]
  PROVE  /\ RegisteredAt(n)' = RegisteredAt(n) /\ SpentAt(n)' = SpentAt(n)
         /\ \A d : LeavesAt(n, d)' = LeavesAt(n, d) /\ MerkleTree(d, n)' = MerkleTree(d, n)
         /\ \A s \in 1 .. n : NullifierRecord(s)' = NullifierRecord(s)
         /\ \A s \in 1 .. n : WritesOf(s)' = WritesOf(s)
         /\ Needed(n)' = Needed(n) /\ Snapshot(n)' = Snapshot(n)
<1>1. \A s \in 1 .. n : ledger'[s] = ledger[s]
  BY LedgerTypes DEF TypeOK
<1>2. RegisteredAt(n)' = RegisteredAt(n) /\ SpentAt(n)' = SpentAt(n)
  BY <1>1 DEF RegisteredAt, SpentAt
<1>3. ASSUME NEW m \in Int, m <= n, NEW d
      PROVE  LeavesAt(m, d)' = LeavesAt(m, d) /\ MerkleTree(d, m)' = MerkleTree(d, m)
  <2>1. \A s \in 1 .. m : ledger'[s] = ledger[s]
    BY <1>1, <1>3
  <2>2. LeavesAt(m, d)' = LeavesAt(m, d)
    BY <2>1 DEF LeavesAt, Appends
  <2> QED
    BY <2>2 DEF MerkleTree
<1>4. \A s \in 1 .. n : NullifierRecord(s)' = NullifierRecord(s)
  BY <1>1 DEF NullifierRecord
<1>5. ASSUME NEW s \in 1 .. n
      PROVE  WritesOf(s)' = WritesOf(s)
  <2>1. ledger'[s] = ledger[s]
    BY <1>1
  <2>2. s \in Int /\ s <= n
    OBVIOUS
  <2>3. MerkleTree(ledger[s].denom, s)' = [kind |-> "MerkleTree", denom |-> ledger'[s].denom,
                                          leaves |-> LeavesAt(s, ledger[s].denom)']
    BY <2>1 DEF MerkleTree
  <2> QED
    BY <1>3, <1>4, <2>1, <2>2 DEF WritesOf, DenominationAccount
<1>6. Needed(n)' = Needed(n)
  <2>1. {MerkleTree(d, n) : d \in {e \in RegisteredAt(n) : LeavesAt(n, e) # {}}}'
          = {MerkleTree(d, n) : d \in {e \in RegisteredAt(n) : LeavesAt(n, e) # {}}}
    BY <1>2, <1>3
  <2>2. {NullifierRecord(s) : s \in SpentAt(n)}' = {NullifierRecord(s) : s \in SpentAt(n)}
    <3>1. SpentAt(n) \subseteq 1 .. n
      BY DEF SpentAt
    <3> QED
      BY <1>2, <1>4, <3>1
  <2> QED
    BY <1>2, <2>1, <2>2 DEF Needed, DenominationAccount
<1>7. Snapshot(n)' = Snapshot(n)
  <2>1. UNION {{DenominationAccount(d), MerkleTree(d, n)} : d \in RegisteredAt(n)}'
          = UNION {{DenominationAccount(d), MerkleTree(d, n)} : d \in RegisteredAt(n)}
    BY <1>2, <1>3 DEF DenominationAccount
  <2>2. {NullifierRecord(s) : s \in SpentAt(n)}' = {NullifierRecord(s) : s \in SpentAt(n)}
    <3>1. SpentAt(n) \subseteq 1 .. n
      BY DEF SpentAt
    <3> QED
      BY <1>2, <1>4, <3>1
  <2> QED
    BY <2>1, <2>2 DEF Snapshot
<1> QED
  BY <1>2, <1>3, <1>4, <1>5, <1>6, <1>7

\* What a slot adds to the tables is among the accounts it writes.
LEMMA NeededNext ==
  ASSUME TypeOK, NEW n \in Nat, n + 1 <= Len(ledger)
  PROVE  Needed(n + 1) \subseteq Needed(n) \cup WritesOf(n + 1)
<1>1. n + 1 \in 1 .. Len(ledger) /\ ledger[n + 1].op \in Ops
  BY LedgerTypes DEF TypeOK
<1>2. \A s \in 1 .. n + 1 : s \in 1 .. n \/ s = n + 1
  OBVIOUS
<1>3. ASSUME NEW d \in RegisteredAt(n + 1), d \notin RegisteredAt(n)
      PROVE  ledger[n + 1].op = "register" /\ ledger[n + 1].denom = d
  BY <1>2, <1>3 DEF RegisteredAt
<1>4. ASSUME NEW d, ~Appends(n + 1, d)
      PROVE  LeavesAt(n + 1, d) = LeavesAt(n, d)
  BY <1>2, <1>4 DEF LeavesAt
<1>5. ASSUME NEW s \in SpentAt(n + 1), s \notin SpentAt(n)
      PROVE  s = n + 1 /\ ledger[n + 1].op = "withdraw"
  BY <1>2, <1>5 DEF SpentAt
<1>6. ASSUME NEW d \in RegisteredAt(n + 1)
      PROVE  DenominationAccount(d) \in Needed(n) \cup WritesOf(n + 1)
  <2>1. CASE d \in RegisteredAt(n)
    BY <2>1 DEF Needed
  <2>2. CASE d \notin RegisteredAt(n)
    BY <1>3, <2>2 DEF WritesOf
  <2> QED
    BY <2>1, <2>2
<1>7. ASSUME NEW d \in RegisteredAt(n + 1), LeavesAt(n + 1, d) # {}
      PROVE  MerkleTree(d, n + 1) \in Needed(n) \cup WritesOf(n + 1)
  <2>1. CASE Appends(n + 1, d)
    BY <2>1 DEF WritesOf, Appends
  <2>2. CASE ~Appends(n + 1, d) /\ d \in RegisteredAt(n)
    <3>1. LeavesAt(n + 1, d) = LeavesAt(n, d)
      BY <1>4, <2>2
    <3>2. MerkleTree(d, n + 1) = MerkleTree(d, n)
      BY <3>1 DEF MerkleTree
    <3> QED
      BY <1>7, <2>2, <3>1, <3>2 DEF Needed
  <2>3. CASE d \notin RegisteredAt(n)
    BY <1>3, <2>3 DEF WritesOf
  <2> QED
    BY <2>1, <2>2, <2>3
<1>8. ASSUME NEW s \in SpentAt(n + 1)
      PROVE  NullifierRecord(s) \in Needed(n) \cup WritesOf(n + 1)
  <2>1. CASE s \in SpentAt(n)
    BY <2>1 DEF Needed
  <2>2. CASE s \notin SpentAt(n)
    BY <1>5, <2>2 DEF WritesOf
  <2> QED
    BY <2>1, <2>2
<1>9. ASSUME NEW e \in Needed(n + 1)
      PROVE  e \in Needed(n) \cup WritesOf(n + 1)
  BY <1>6, <1>7, <1>8 DEF Needed
<1> QED
  BY <1>9

\* A tier that has a leaf was registered before the leaf.
LEMMA LeafRegistered ==
  ASSUME TypeOK, LedgerInv, NEW n \in Int, n <= Len(ledger), NEW d, NEW s \in LeavesAt(n, d)
  PROVE  d \in RegisteredAt(s - 1) /\ d \in RegisteredAt(n - 1) /\ d \in Denoms
<1>1. s \in 1 .. Len(ledger) /\ s <= n /\ Appends(s, d)
  BY LedgerTypes DEF LeavesAt, TypeOK
<1>2. d \in RegisteredAt(s - 1)
  BY <1>1 DEF LedgerInv, Appends
<1>3. ledger[s].denom = d /\ ledger[s].denom \in Denoms
  BY <1>1, LedgerTypes DEF TypeOK, Appends
<1>4. s - 1 \in Int /\ n - 1 \in Int /\ s - 1 <= n - 1
  BY <1>1
<1> QED
  BY <1>2, <1>3, <1>4, RegisteredStays

\* The accounts a slot wrote, and those of a snapshot, are as the ledger had
\* them, and what they refer to was registered before.
Faithful(e, n) ==
  /\ e \in AccountEvents
  /\ Refers(e) => e.denom \in RegisteredAt(n - 1)
  /\ e.kind = "MerkleTree" => e.leaves = LeavesAt(n, e.denom)
  /\ e.kind = "NullifierRecord" => e.nullifier \in SpentAt(n) /\ e = NullifierRecord(e.nullifier)

LEMMA DenominationFaithful ==
  ASSUME NEW d \in Denoms, NEW n
  PROVE  Faithful(DenominationAccount(d), n)
BY DEF Faithful, DenominationAccount, AccountEvents, Refers

LEMMA TreeFaithful ==
  ASSUME TypeOK, LedgerInv, NEW n \in 0 .. Len(ledger), NEW d \in Denoms
  PROVE  Faithful(MerkleTree(d, n), n)
<1>1. Len(ledger) \in Nat
  BY LedgerTypes DEF TypeOK
<1>2. LeavesAt(n, d) \in Slots
  BY LeavesFinite
<1>3. LeavesAt(n, d) # {} => d \in RegisteredAt(n - 1)
  BY <1>1, LeafRegistered
<1> QED
  BY <1>2, <1>3 DEF Faithful, MerkleTree, AccountEvents, Refers

LEMMA NullifierFaithful ==
  ASSUME TypeOK, LedgerInv, NEW n \in 0 .. Len(ledger), NEW s \in SpentAt(n)
  PROVE  Faithful(NullifierRecord(s), n)
<1>1. Len(ledger) \in Nat /\ s \in 1 .. Len(ledger) /\ s \in 1 .. n /\ ledger[s].op = "withdraw"
  BY LedgerTypes DEF TypeOK, SpentAt
<1>2. ledger[s].denom \in Denoms /\ s \in Nat
  BY <1>1, LedgerTypes DEF TypeOK
<1>3. s \in LeavesAt(n, ledger[s].denom)
  BY <1>1 DEF LeavesAt, Appends
<1>4. ledger[s].denom \in RegisteredAt(n - 1)
  BY <1>1, <1>3, LeafRegistered
<1> QED
  BY <1>2, <1>4 DEF Faithful, NullifierRecord, AccountEvents, Refers

LEMMA WritesFaithful ==
  ASSUME TypeOK, LedgerInv, NEW n \in 1 .. Len(ledger), NEW e \in WritesOf(n)
  PROVE  Faithful(e, n)
<1>1. Len(ledger) \in Nat /\ ledger[n].op \in Ops /\ ledger[n].denom \in Denoms
  BY LedgerTypes DEF TypeOK
<1>2. \/ e = DenominationAccount(ledger[n].denom)
      \/ e = MerkleTree(ledger[n].denom, n)
      \/ e = NullifierRecord(n) /\ ledger[n].op = "withdraw"
  BY <1>1 DEF WritesOf, Ops
<1>3. ledger[n].op = "withdraw" => n \in SpentAt(n)
  BY <1>1 DEF SpentAt
<1> QED
  BY <1>1, <1>2, <1>3, DenominationFaithful, TreeFaithful, NullifierFaithful

LEMMA RegisteredTypes ==
  ASSUME TypeOK, NEW n \in Int, n <= Len(ledger)
  PROVE  RegisteredAt(n) \subseteq Denoms
<1>1. \A s \in 1 .. n : ledger[s].denom \in Denoms
  BY LedgerTypes DEF TypeOK
<1> QED
  BY <1>1 DEF RegisteredAt

LEMMA SnapshotWrites ==
  ASSUME NEW n, NEW e
  PROVE  e \in Snapshot(n).writes <=>
           \/ \E d \in RegisteredAt(n) : e = DenominationAccount(d) \/ e = MerkleTree(d, n)
           \/ \E s \in SpentAt(n) : e = NullifierRecord(s)
<1> DEFINE Accounts == UNION {{DenominationAccount(d), MerkleTree(d, n)} : d \in RegisteredAt(n)}
<1>1. e \in Accounts <=> \E d \in RegisteredAt(n) : e \in {DenominationAccount(d), MerkleTree(d, n)}
  BY Zenon
<1> DEFINE Nullifiers == {NullifierRecord(s) : s \in SpentAt(n)}
<1>2. Snapshot(n) = [slot |-> n, writes |-> Accounts \cup Nullifiers]
  BY DEF Snapshot
<1>3. e \in Nullifiers <=> \E s \in SpentAt(n) : e = NullifierRecord(s)
  OBVIOUS
<1> HIDE DEF Accounts, Nullifiers
<1> QED
  BY <1>1, <1>2, <1>3

LEMMA SnapshotFaithful ==
  ASSUME TypeOK, LedgerInv, NEW n \in 0 .. Len(ledger), NEW e \in Snapshot(n).writes
  PROVE  Faithful(e, n)
<1>1. Len(ledger) \in Nat /\ n \in Int /\ n <= Len(ledger)
  BY LedgerTypes DEF TypeOK
<1>2. \/ \E d \in RegisteredAt(n) : e = DenominationAccount(d) \/ e = MerkleTree(d, n)
      \/ \E s \in SpentAt(n) : e = NullifierRecord(s)
  BY SnapshotWrites
<1>3. \A d \in RegisteredAt(n) : d \in Denoms
  BY <1>1, RegisteredTypes
<1> QED
  BY <1>2, <1>3, DenominationFaithful, TreeFaithful, NullifierFaithful

\* The accounts of a snapshot hold all that the tables need.
LEMMA SnapshotComplete ==
  ASSUME NEW n
  PROVE  Needed(n) \subseteq Snapshot(n).writes
<1>1. ASSUME NEW e \in Needed(n)
      PROVE  e \in Snapshot(n).writes
  BY SnapshotWrites DEF Needed
<1> QED
  BY <1>1

\* Every event that the tables need, for n slots of the ledger, has a row.
Kept(e) ==
  /\ e \in AccountEvents
  /\ e.kind = "Denomination" \/ Refers(e)
  /\ e.kind = "MerkleTree" => TreeOf(e)

LEMMA NeededKept ==
  ASSUME TypeOK, LedgerInv, NEW n \in 0 .. Len(ledger), NEW e \in Needed(n)
  PROVE  Kept(e)
<1>1. Len(ledger) \in Nat /\ n \in Int /\ n <= Len(ledger)
  BY LedgerTypes DEF TypeOK
<1>2. Faithful(e, n)
  BY SnapshotComplete, SnapshotFaithful
<1>3. e.kind = "MerkleTree" => e.leaves # {}
  BY DEF Needed, DenominationAccount, MerkleTree, NullifierRecord
<1>4. e.kind \in {"Denomination", "MerkleTree", "NullifierRecord"}
  BY <1>2 DEF Faithful, AccountEvents
<1> QED
  BY <1>2, <1>3, <1>4 DEF Kept, Faithful, Refers, TreeOf

LEMMA DenominationKept ==
  ASSUME NEW d \in Denoms
  PROVE  Kept(DenominationAccount(d))
BY DEF Kept, DenominationAccount, AccountEvents

-----------------------------------------------------------------------------
(* What a step does to the events that are on their way *)

\* What is stored or queued stays so when the queue only grows.
LEMMA PendingStays ==
  ASSUME NEW e, NEW i \in Nat, Pending(e, i), UNCHANGED db, lost \subseteq lost',
         \A k \in 1 .. i : queue'[k] = queue[k]
  PROVE  Pending(e, i)'
BY DEF Pending, InTables, db

LEMMA PendingLater ==
  ASSUME NEW e, NEW i \in Nat, NEW j \in Nat, i <= j, Pending(e, i)
  PROVE  Pending(e, j)
BY DEF Pending

\* What one event relies on stays before it when the queue only grows.
LEMMA SoundStays ==
  ASSUME TypeOK, NEW e, NEW i \in Nat, Sound(e, i), UNCHANGED db, lost \subseteq lost',
         \A k \in 1 .. i : queue'[k] = queue[k],
         Len(ledger') \in Nat, Len(ledger) <= Len(ledger'),
         \A s \in 1 .. Len(ledger) : ledger'[s] = ledger[s]
  PROVE  Sound(e, i)'
<1>1. Len(ledger) \in Nat
  BY LedgerTypes DEF TypeOK
<1>2. ASSUME e.kind = "MerkleTree"
      PROVE  TreeOf(e)'
  <2>1. PICK m \in 0 .. Len(ledger) : e.leaves = LeavesAt(m, e.denom)
    BY <1>2 DEF Sound, TreeOf
  <2>2. LeavesAt(m, e.denom)' = LeavesAt(m, e.denom)
    BY <1>1, PastStays
  <2>3. m \in 0 .. Len(ledger')
    BY <1>1
  <2> QED
    BY <2>1, <2>2, <2>3 DEF TreeOf
<1>3. ASSUME Refers(e)
      PROVE  Pending(DenominationAccount(e.denom), i)'
  <2>1. Pending(DenominationAccount(e.denom), i)
    BY <1>3 DEF Sound
  <2> QED
    BY <2>1, PendingStays DEF DenominationAccount
<1>4. ASSUME e.kind = "Checkpoint"
      PROVE  /\ e.last_slot \in 0 .. Len(ledger')
             /\ \A s \in SpentAt(e.last_slot)' : Pending(NullifierRecord(s), i)'
  <2>1. /\ e.last_slot \in 0 .. Len(ledger)
        /\ \A s \in SpentAt(e.last_slot) : Pending(NullifierRecord(s), i)
    BY <1>4 DEF Sound
  <2>2. e.last_slot \in Int /\ e.last_slot <= Len(ledger)
    BY <1>1, <2>1
  <2>3. SpentAt(e.last_slot)' = SpentAt(e.last_slot)
    BY <2>2, PastStays
  <2>4. ASSUME NEW s \in SpentAt(e.last_slot)
        PROVE  Pending(NullifierRecord(s), i)'
    <3>1. s \in 1 .. Len(ledger)
      BY <1>1, <2>2 DEF SpentAt
    <3>2. PICK x : x = NullifierRecord(s)
      OBVIOUS
    <3>3. NullifierRecord(s)' = x
      BY <3>1, <3>2 DEF NullifierRecord
    <3>4. Pending(x, i)'
      BY <2>1, <3>2, PendingStays
    <3> QED
      BY <3>3, <3>4
  <2> QED
    BY <1>1, <2>1, <2>3, <2>4
<1> QED
  BY <1>2, <1>3, <1>4 DEF Sound, Refers

\* Enqueue: the event is last, or what it was of is lost.
LEMMA EnqueueStep ==
  ASSUME TypeOK, NEW ev \in Events, NEW d, Enqueue(ev, d)
  PROVE  /\ queue' \in Seq(Events) /\ lost' \subseteq everLost'
         /\ lost \subseteq lost' /\ everLost \subseteq everLost'
         /\ Len(queue) \in Nat /\ Len(queue') \in Nat /\ Len(queue) <= Len(queue')
         /\ \A k \in 1 .. Len(queue) : queue'[k] = queue[k]
         /\ \/ Len(queue') = Len(queue) + 1 /\ queue'[Len(queue) + 1] = ev
            \/ queue' = queue /\ d \subseteq lost'
<1>1. Len(queue) \in Nat /\ queue \in Seq(Events)
  BY LenProperties DEF TypeOK
<1>2. CASE queue' = Append(queue, ev) /\ UNCHANGED <<lost, everLost>>
  BY <1>1, <1>2, AppendProperties DEF TypeOK
<1>3. CASE UNCHANGED queue /\ lost' = lost \cup d /\ everLost' = everLost \cup d
  BY <1>1, <1>3 DEF TypeOK
<1> QED
  BY <1>2, <1>3 DEF Enqueue

\* The queue stays sound when a sound event is put at its end.
LEMMA QueueGrows ==
  ASSUME TypeOK, QueueInv, NEW ev \in Events, NEW d, Enqueue(ev, d), Sound(ev, Len(queue)),
         UNCHANGED db, UNCHANGED ledger
  PROVE  QueueInv'
<1> USE EnqueueStep
<1>1. Len(ledger) \in Nat /\ Len(queue) \in Nat /\ Len(queue') \in Nat
  BY LedgerTypes DEF TypeOK
<1>2. ASSUME NEW i \in 1 .. Len(queue'), NEW e, Sound(e, i - 1), i - 1 <= Len(queue)
      PROVE  Sound(e, i - 1)'
  <2>1. i - 1 \in Nat /\ \A k \in 1 .. i - 1 : queue'[k] = queue[k]
    BY <1>1, <1>2
  <2>2. lost \subseteq lost'
    OBVIOUS
  <2> QED
    BY <1>1, <1>2, <2>1, <2>2, SoundStays
<1>3. ASSUME NEW i \in 1 .. Len(queue'), NEW e \in {queue'[i]}
      PROVE  Sound(e, i - 1)'
  <2>1. CASE i \in 1 .. Len(queue)
    <3>1. queue[i] = e
      BY <1>3, <2>1
    <3>2. Sound(e, i - 1)
      BY <2>1, <3>1 DEF QueueInv
    <3> QED
      BY <1>1, <1>2, <2>1, <3>2
  <2>2. CASE i \notin 1 .. Len(queue)
    <3>1. i = Len(queue) + 1 /\ e = ev
      BY <1>1, <1>3, <2>2
    <3>2. Sound(ev, i - 1)
      BY <1>1, <3>1
    <3> QED
      BY <1>1, <1>2, <3>1, <3>2
  <2> QED
    BY <2>1, <2>2
<1> QED
  BY <1>3 DEF QueueInv

\* What is on its way stays so when the queue grows.
LEMMA PendingGrows ==
  ASSUME TypeOK, NEW ev \in Events, NEW d, Enqueue(ev, d), UNCHANGED db,
         NEW e, Pending(e, Len(queue))
  PROVE  Pending(e, Len(queue))'
<1>1. /\ lost \subseteq lost' /\ Len(queue) \in Nat /\ Len(queue') \in Nat
      /\ Len(queue) <= Len(queue') /\ \A k \in 1 .. Len(queue) : queue'[k] = queue[k]
  BY EnqueueStep
<1>2. PICK n \in Nat : n = Len(queue)
  BY <1>1
<1>3. Pending(e, n)'
  BY <1>1, <1>2, PendingStays
<1>4. PICK m \in Nat : m = Len(queue')
  BY <1>1
<1>5. Pending(e, m)'
  BY <1>1, <1>2, <1>3, <1>4 DEF Pending
<1> QED
  BY <1>4, <1>5 DEF Pending

\* An event that is put on the queue is on its way, or lost.
LEMMA EnqueuedPending ==
  ASSUME TypeOK, NEW ev \in Events, Enqueue(ev, {ev.denom})
  PROVE  Pending(ev, Len(queue))'
<1>1. /\ Len(queue) \in Nat
      /\ \/ Len(queue') = Len(queue) + 1 /\ queue'[Len(queue) + 1] = ev
         \/ queue' = queue /\ {ev.denom} \subseteq lost'
  BY EnqueueStep
<1> QED
  BY <1>1 DEF Pending

-----------------------------------------------------------------------------
(* What is being reported *)

\* The slot at the head of the reports, and the accounts it has left to report.
LEMMA HeadReport ==
  ASSUME TypeOK, LedgerInv, ReportInv, accounts # <<>>
  PROVE  /\ Len(accounts) \in Nat \ {0} /\ Len(ledger) \in Nat
         /\ Head(accounts) = accounts[1] /\ accounts[1] \in [slot : Nat, writes : SUBSET AccountEvents]
         /\ accounts[1].slot \in 0 .. Len(ledger)
         /\ accounts[1].slot = Len(ledger) - Len(accounts) + 1
         /\ Reported = accounts[1].slot - 1
         /\ \A w \in accounts[1].writes : Faithful(w, accounts[1].slot)
<1>1. Len(accounts) \in Nat \ {0} /\ Head(accounts) = accounts[1] /\ Len(ledger) \in Nat
  BY HeadTailProperties, LenProperties, EmptySeq, LedgerTypes DEF TypeOK
<1>2. accounts[1] \in [slot : Nat, writes : SUBSET AccountEvents]
  <2>1. accounts \in Seq([slot : Nat, writes : SUBSET AccountEvents]) /\ 1 \in 1 .. Len(accounts)
    BY <1>1 DEF TypeOK
  <2> QED
    BY <2>1, ElementOfSeq, Zenon
<1>3. accounts[1].slot = Len(ledger) - Len(accounts) + 1 /\ accounts[1].slot \in 0 .. Len(ledger)
  BY <1>1, <1>2 DEF ReportInv
<1>4. Reported = accounts[1].slot - 1
  BY <1>1 DEF Reported
<1>5. ASSUME NEW w \in accounts[1].writes
      PROVE  Faithful(w, accounts[1].slot)
  <2>1. \/ accounts[1].slot \in 1 .. Len(ledger) /\ w \in WritesOf(accounts[1].slot)
        \/ w \in Snapshot(accounts[1].slot).writes
    BY DEF ReportInv
  <2> QED
    BY <1>3, <2>1, WritesFaithful, SnapshotFaithful
<1> QED
  BY <1>1, <1>2, <1>3, <1>4, <1>5

\* A checkpoint for a slot all of whose accounts were reported comes after the
\* nullifiers it covers.
LEMMA CheckpointSound ==
  ASSUME TypeOK, LedgerInv, ReportInv, SecureInv, loaded,
         NEW n \in Nat, n <= Len(ledger) - Len(accounts) \/ n <= Reported,
         accounts # <<>> => accounts[1].writes \subseteq WritesOf(accounts[1].slot),
         NEW sig \in Nat
  PROVE  Sound([kind |-> "Checkpoint", last_slot |-> n, last_signature |-> sig], Len(queue))
<1>1. Len(ledger) \in Nat /\ Len(accounts) \in Nat
  BY LedgerTypes, LenProperties DEF TypeOK
<1>2. n \in 0 .. Len(ledger)
  <2>1. CASE accounts = <<>>
    BY <1>1, <2>1, EmptySeq DEF Reported
  <2>2. CASE accounts # <<>>
    BY <1>1, <2>2, HeadReport
  <2> QED
    BY <2>1, <2>2
<1>3. ASSUME NEW s \in SpentAt(n)
      PROVE  Pending(NullifierRecord(s), Len(queue))
  <2>1. s \in 1 .. n /\ s \in SpentAt(Len(ledger)) /\ ledger[s].op = "withdraw"
    BY <1>1, <1>2, <1>3 DEF SpentAt
  <2>2. CASE accounts = <<>>
    <3>1. NullifierRecord(s) \in Needed(Len(ledger))
      BY <2>1 DEF Needed
    <3> QED
      BY <2>2, <3>1 DEF SecureInv
  <2>3. CASE accounts # <<>>
    <3> DEFINE h == accounts[1].slot
    <3>1. h \in 0 .. Len(ledger) /\ n <= h - 1 /\ accounts[1].writes \subseteq WritesOf(h)
      BY <1>1, <2>3, HeadReport
    <3>2. s \in SpentAt(h) /\ s # h
      BY <1>1, <1>2, <2>1, <3>1 DEF SpentAt
    <3>3. NullifierRecord(s) \in Needed(h)
      BY <3>2 DEF Needed
    <3>4. NullifierRecord(s) \notin WritesOf(h)
      BY <3>2 DEF WritesOf, NullifierRecord, DenominationAccount, MerkleTree
    <3> QED
      BY <2>3, <3>1, <3>3, <3>4 DEF SecureInv
  <2> QED
    BY <2>2, <2>3
<1> DEFINE c == [kind |-> "Checkpoint", last_slot |-> n, last_signature |-> sig]
<1>4. c.kind = "Checkpoint" /\ c.last_slot = n /\ ~Refers(c)
  BY DEF Refers
<1> QED
  BY <1>2, <1>3, <1>4 DEF Sound

\* The account being reported is sound: what it refers to was reported before.
LEMMA ReportedSound ==
  ASSUME TypeOK, LedgerInv, ReportInv, SecureInv, loaded, accounts # <<>>,
         NEW w \in accounts[1].writes
  PROVE  Sound(w, Len(queue)) /\ w \in Events /\ w \in AccountEvents
<1>1. Faithful(w, accounts[1].slot) /\ accounts[1].slot \in 0 .. Len(ledger)
  BY HeadReport
<1>2. w.kind # "Checkpoint" /\ w \in Events
  BY <1>1 DEF Faithful, AccountEvents, Events
<1>3. Refers(w) => Pending(DenominationAccount(w.denom), Len(queue))
  BY <1>1 DEF Faithful, SecureInv
<1> QED
  BY <1>1, <1>2, <1>3 DEF Sound, Faithful, TreeOf

\* The next slot has its turn once all that the one before needs is on its way.
LEMMA HeadDone ==
  ASSUME TypeOK, LedgerInv, ReportInv, accounts # <<>>, accounts' = Tail(accounts),
         UNCHANGED <<ledger, loaded, rooted, txs, stamping>>, loaded,
         \A e \in Needed(accounts[1].slot) : Pending(e, Len(queue))'
  PROVE  /\ accounts' \in Seq([slot : Nat, writes : SUBSET AccountEvents])
         /\ ReportInv' /\ SecureInv'
<1> DEFINE h == accounts[1].slot
<1>1. /\ Len(accounts) \in Nat \ {0} /\ Len(ledger) \in Nat /\ h \in 0 .. Len(ledger)
      /\ h = Len(ledger) - Len(accounts) + 1
  BY HeadReport
<1>2. /\ accounts' \in Seq([slot : Nat, writes : SUBSET AccountEvents])
      /\ Len(accounts') = Len(accounts) - 1
      /\ \A i \in 1 .. Len(accounts) - 1 : accounts'[i] = accounts[i + 1]
  <2>1. accounts \in Seq([slot : Nat, writes : SUBSET AccountEvents])
    BY DEF TypeOK
  <2> QED
    BY <1>1, <2>1, HeadTailProperties
<1>3. PICK n \in Nat : n = h
  BY <1>1
<1> HIDE DEF h
<1>4. ASSUME NEW m \in 0 .. Len(ledger)
      PROVE  /\ Needed(m)' = Needed(m) /\ RegisteredAt(m)' = RegisteredAt(m)
             /\ m # 0 => WritesOf(m)' = WritesOf(m)
  <2>1. \A s \in 1 .. Len(ledger) : ledger'[s] = ledger[s]
    OBVIOUS
  <2>2. m \in Int /\ m <= Len(ledger) /\ (m # 0 => m \in 1 .. m)
    BY <1>1
  <2> QED
    BY <2>1, <2>2, PastStays
<1>5. ASSUME NEW i \in 1 .. Len(accounts')
      PROVE  /\ accounts'[i].slot = Len(ledger) - Len(accounts') + i
             /\ accounts'[i].slot = n + i
             /\ accounts'[i].writes = WritesOf(n + i) /\ n + i \in 1 .. Len(ledger)
             /\ accounts'[i].writes = WritesOf(n + i)'
  <2>1. i + 1 \in 2 .. Len(accounts) /\ i + 1 \in 1 .. Len(accounts) /\ accounts'[i] = accounts[i + 1]
    BY <1>1, <1>2
  <2>2. accounts[i + 1].slot = Len(ledger) - Len(accounts) + (i + 1)
    BY <2>1 DEF ReportInv
  <2> i <= Len(accounts) - 1 /\ i \in Nat \ {0}
    BY <1>1, <1>2
  <2>3. accounts[i + 1].slot = n + i /\ n + i \in 1 .. Len(ledger)
    BY <1>1, <1>3, <2>1, <2>2
  <2>4. accounts[i + 1].writes = WritesOf(n + i)
    BY <2>1, <2>3 DEF ReportInv
  <2>5. WritesOf(n + i)' = WritesOf(n + i)
    BY <1>1, <1>4, <2>3
  <2> QED
    BY <1>1, <1>2, <2>1, <2>2, <2>3, <2>4, <2>5
<1>6. ReportInv'
  <2>1. /\ Len(accounts') <= Len(ledger) + 1
        /\ stamping # None => stamping <= Len(ledger) - Len(accounts')
    BY <1>1, <1>2 DEF ReportInv, TypeOK, None
  <2>2. ASSUME NEW i \in 2 .. Len(accounts'), NEW s \in {accounts'[i].slot}
        PROVE  accounts'[i].writes = WritesOf(s)'
    <3>1. i \in 1 .. Len(accounts')
      BY <1>1, <1>2
    <3>2. s = n + i /\ accounts'[i].writes = WritesOf(n + i)'
      BY <1>5, <2>2, <3>1
    <3> QED
      BY <3>2
  <2>3. accounts' # <<>> => 1 \in 1 .. Len(accounts')
    BY <1>1, <1>2, EmptySeq
  <2>4. accounts' # <<>> => \A m \in {accounts'[1].slot} :
                              m \in 1 .. Len(ledger) /\ accounts'[1].writes \subseteq WritesOf(m)'
    BY <1>5, <2>3
  <2>5. \A i \in 1 .. Len(accounts') : accounts'[i].slot = Len(ledger) - Len(accounts') + i
    BY <1>5
  <2> QED
    BY <2>1, <2>2, <2>4, <2>5 DEF ReportInv
<1>7. SecureInv'
  <2>1. ASSUME accounts' = <<>>, NEW m \in {Len(ledger')}, NEW e \in Needed(m)'
        PROVE  Pending(e, Len(queue))'
    <3>1. Len(accounts') = 0
      BY <2>1, EmptySeq
    <3>2. m = n /\ n \in 0 .. Len(ledger)
      <4>1. Len(accounts) - 1 = 0
        BY <1>2, <3>1
      <4>2. ledger' = ledger /\ m = Len(ledger')
        BY <2>1
      <4>3. h = Len(ledger)
        BY <1>1, <4>1
      <4> QED
        BY <1>1, <1>3, <4>2, <4>3
    <3>3. m = n /\ Needed(n)' = Needed(n)
      BY <1>4, <3>2
    <3> QED
      BY <1>3, <2>1, <3>3 DEF h
  <2>2. ASSUME accounts' # <<>>, NEW m \in {accounts'[1].slot}
        PROVE  /\ \A e \in Needed(m)' : Pending(e, Len(queue))' \/ e \in accounts'[1].writes
               /\ \A d \in RegisteredAt(m - 1)' : Pending(DenominationAccount(d), Len(queue))'
    <3>1. 1 \in 1 .. Len(accounts')
      BY <1>1, <1>2, <2>2, EmptySeq
    <3>2. m = n + 1 /\ m - 1 = n /\ n + 1 \in 1 .. Len(ledger) /\ accounts'[1].writes = WritesOf(n + 1)
      BY <1>3, <1>5, <2>2, <3>1
    <3>3. Needed(n + 1) \subseteq Needed(n) \cup WritesOf(n + 1)
      <4>1. n \in Nat /\ n + 1 <= Len(ledger)
        BY <1>1, <3>2
      <4> QED
        BY <4>1, NeededNext
    <3>4. Needed(n + 1)' = Needed(n + 1) /\ RegisteredAt(n)' = RegisteredAt(n)
      BY SMTT(30), <1>1, <1>3, <1>4, <3>2
    <3>5. \A d \in RegisteredAt(n) : DenominationAccount(d) \in Needed(n)
      BY DEF Needed
    <3>6. \A d \in RegisteredAt(n) : Pending(DenominationAccount(d), Len(queue))'
      BY <1>3, <3>5 DEF h
    <3>7. \A e \in Needed(n + 1) : Pending(e, Len(queue))' \/ e \in accounts'[1].writes
      BY <1>3, <3>2, <3>3 DEF h
    <3> QED
      BY <3>2, <3>4, <3>6, <3>7
  <2> QED
    BY <2>1, <2>2 DEF SecureInv
<1> QED
  BY <1>2, <1>6, <1>7

\* What the ledger says stays while no transaction lands.
LEMMA LedgerViews ==
  ASSUME UNCHANGED ledger, NEW n
  PROVE  /\ Needed(n)' = Needed(n) /\ RegisteredAt(n)' = RegisteredAt(n)
         /\ WritesOf(n)' = WritesOf(n) /\ Snapshot(n)' = Snapshot(n)
         /\ SpentAt(n)' = SpentAt(n) /\ \A d : LeavesAt(n, d)' = LeavesAt(n, d)
         /\ NullifierRecord(n)' = NullifierRecord(n)
BY DEF Needed, RegisteredAt, WritesOf, Snapshot, SpentAt, LeavesAt, Appends, NullifierRecord,
       MerkleTree, DenominationAccount

LEMMA QueueSame ==
  ASSUME QueueInv, UNCHANGED <<ledger, queue, db, lost>>
  PROVE  QueueInv'
<1>1. ASSUME NEW e, NEW i, Pending(e, i)
      PROVE  Pending(e, i)'
  BY <1>1 DEF Pending, InTables, db
<1>2. ASSUME NEW e, NEW i, Sound(e, i)
      PROVE  Sound(e, i)'
  <2>1. TreeOf(e) => TreeOf(e)'
    BY LedgerViews DEF TreeOf
  <2>2. ASSUME Pending(DenominationAccount(e.denom), i)
        PROVE  Pending(DenominationAccount(e.denom), i)'
    <3>1. PICK a : a = DenominationAccount(e.denom)
      OBVIOUS
    <3>2. Pending(a, i)'
      BY <1>1, <2>2, <3>1
    <3> QED
      BY <3>1, <3>2 DEF DenominationAccount
  <2>3. ASSUME NEW s, Pending(NullifierRecord(s), i)
        PROVE  Pending(NullifierRecord(s), i)'
    <3>1. PICK x : x = NullifierRecord(s)
      OBVIOUS
    <3>2. Pending(x, i)'
      BY <1>1, <2>3, <3>1
    <3>3. NullifierRecord(s)' = x
      BY <3>1, LedgerViews
    <3> QED
      BY <3>2, <3>3
  <2>4. SpentAt(e.last_slot)' = SpentAt(e.last_slot)
    BY LedgerViews
  <2> QED
    BY <1>2, <2>1, <2>2, <2>3, <2>4 DEF Sound, Refers
<1> QED
  BY <1>2 DEF QueueInv

LEMMA LedgerSame ==
  ASSUME LedgerInv, UNCHANGED ledger
  PROVE  LedgerInv'
BY DEF LedgerInv, RegisteredAt

LEMMA ProgressSame ==
  ASSUME ProgressInv, UNCHANGED <<ledger, nullifiers, progress>>, everLost \subseteq everLost'
  PROVE  ProgressInv'
BY DEF ProgressInv, CheckpointCoversSpends, SpentAt

\* One account of the slot at the head has been reported, and others have not.
LEMMA HeadShrinks ==
  ASSUME TypeOK, LedgerInv, ReportInv, accounts # <<>>, loaded, NEW w,
         accounts' = [accounts EXCEPT ![1].writes = @ \ {w}],
         UNCHANGED <<ledger, loaded, rooted, txs, stamping>>,
         \A e \in Needed(accounts[1].slot) : Pending(e, Len(queue))' \/ e \in accounts[1].writes \ {w},
         \A d \in RegisteredAt(accounts[1].slot - 1) : Pending(DenominationAccount(d), Len(queue))'
  PROVE  /\ accounts' \in Seq([slot : Nat, writes : SUBSET AccountEvents])
         /\ ReportInv' /\ SecureInv'
<1> DEFINE h == accounts[1].slot
<1>1. /\ Len(accounts) \in Nat \ {0} /\ Len(ledger) \in Nat /\ h \in 0 .. Len(ledger)
      /\ accounts[1] \in [slot : Nat, writes : SUBSET AccountEvents]
  BY HeadReport
<1>2. PICK rest \in SUBSET AccountEvents : rest = accounts[1].writes \ {w}
  BY <1>1
<1>3. PICK n \in Nat : n = h
  BY <1>1
<1>4. PICK first \in [slot : Nat, writes : SUBSET AccountEvents] :
        first = [slot |-> n, writes |-> rest] /\ first = [accounts[1] EXCEPT !.writes = @ \ {w}]
  BY <1>1, <1>2, <1>3
<1>5. accounts' = [accounts EXCEPT ![1] = first]
  BY <1>4
<1>6. accounts \in Seq([slot : Nat, writes : SUBSET AccountEvents]) /\ DOMAIN accounts = 1 .. Len(accounts)
  BY LenProperties DEF TypeOK
<1>7. /\ accounts' \in Seq([slot : Nat, writes : SUBSET AccountEvents])
      /\ Len(accounts') = Len(accounts) /\ accounts' # <<>> /\ accounts'[1] = first
      /\ \A i \in 2 .. Len(accounts) : accounts'[i] = accounts[i]
  BY <1>1, <1>5, <1>6, ExceptSeq, EmptySeq
<1>8. first.slot = n /\ first.writes = rest /\ rest \subseteq accounts[1].writes
  BY <1>2, <1>4
<1>9. /\ Needed(n)' = Needed(n) /\ RegisteredAt(n - 1)' = RegisteredAt(n - 1)
      /\ Snapshot(n)' = Snapshot(n) /\ \A s \in 1 .. Len(ledger) : WritesOf(s)' = WritesOf(s)
  <2>1. \A s \in 1 .. Len(ledger) : ledger'[s] = ledger[s]
    OBVIOUS
  <2>2. n \in Int /\ n - 1 \in Int /\ Len(ledger) \in Int /\ n <= Len(ledger) /\ n - 1 <= Len(ledger)
    BY <1>1, <1>3
  <2> QED
    BY <2>1, <2>2, PastStays
<1>10. ReportInv'
  <2>1. ASSUME NEW i \in 1 .. Len(accounts')
        PROVE  accounts'[i].slot = Len(ledger') - Len(accounts') + i
    <3>1. i \in 1 .. Len(accounts) /\ accounts[i].slot = Len(ledger) - Len(accounts) + i
      BY <1>7 DEF ReportInv
    <3>2. CASE i = 1
      BY <1>3, <1>7, <1>8, <3>1, <3>2
    <3>3. CASE i \in 2 .. Len(accounts)
      BY <1>7, <3>1, <3>3
    <3> QED
      BY <1>1, <3>1, <3>2, <3>3
  <2>2. ASSUME NEW i \in 2 .. Len(accounts'), NEW s \in {accounts'[i].slot}
        PROVE  accounts'[i].writes = WritesOf(s)'
    <3>1. i \in 2 .. Len(accounts) /\ i \in 1 .. Len(accounts) /\ accounts'[i] = accounts[i]
      BY <1>1, <1>7
    <3>2. accounts[i].writes = WritesOf(s) /\ s = Len(ledger) - Len(accounts) + i
      BY <2>2, <3>1 DEF ReportInv
    <3>3. h = Len(ledger) - Len(accounts) + 1
      BY SMTT(30), <1>1 DEF ReportInv
    <3>4. s \in 1 .. Len(ledger)
      BY <1>1, <3>1, <3>2, <3>3
    <3> QED
      BY <1>9, <3>1, <3>2, <3>4
  <2>3. ASSUME NEW m \in {accounts'[1].slot}
        PROVE  \/ m \in 1 .. Len(ledger') /\ accounts'[1].writes \subseteq WritesOf(m)'
               \/ /\ accounts'[1].writes \subseteq Snapshot(m)'.writes
                  /\ rooted' = m /\ stamping' = None /\ \A i \in 1 .. Len(txs') : txs'[i] > m
    <3>1. m = n /\ n = h /\ accounts'[1].writes \subseteq accounts[1].writes
      BY <1>3, <1>7, <1>8, <2>3
    <3>2. \/ n \in 1 .. Len(ledger) /\ accounts[1].writes \subseteq WritesOf(n)
          \/ /\ accounts[1].writes \subseteq Snapshot(n).writes
             /\ rooted = n /\ stamping = None /\ \A i \in 1 .. Len(txs) : txs[i] > n
      BY <1>3 DEF ReportInv
    <3> QED
      BY <1>9, <3>1, <3>2
  <2> QED
    BY <1>7, <2>1, <2>2, <2>3 DEF ReportInv
<1>11. SecureInv'
  <2>1. accounts'[1].slot = n /\ accounts'[1].writes = accounts[1].writes \ {w}
    BY <1>2, <1>7, <1>8
  <2> QED
    BY <1>3, <1>7, <1>9, <2>1 DEF SecureInv
<1> QED
  BY <1>7, <1>10, <1>11

-----------------------------------------------------------------------------
(* The callbacks *)

LEMMA UpdateAccountInv ==
  ASSUME PluginInv, NEW w, UpdateAccount(w)
  PROVE  PluginInv'
<1> USE DEF PluginInv
<1>1. accounts # <<>> /\ loaded /\ w \in accounts[1].writes /\ Head(accounts) = accounts[1]
  BY HeadReport DEF UpdateAccount, Reporting
<1>2. /\ UNCHANGED <<ledger, txs, rooted, loaded, stamping, db, faults>>
      /\ Enqueue(w, {w.denom})
      /\ accounts' = IF accounts[1].writes = {w} THEN Tail(accounts)
                     ELSE [accounts EXCEPT ![1].writes = @ \ {w}]
      /\ \/ UNCHANGED leaf_index_cache
         \/ /\ w.kind = "MerkleTree"
            /\ leaf_index_cache' = [leaf_index_cache EXCEPT ![w.denom] = Cardinality(w.leaves)]
  BY <1>1 DEF UpdateAccount, Reporting
<1>3. Sound(w, Len(queue)) /\ w \in Events /\ w \in AccountEvents
  BY <1>1, ReportedSound
<1>4. /\ queue' \in Seq(Events) /\ lost' \subseteq everLost' /\ everLost \subseteq everLost'
  BY <1>2, <1>3, EnqueueStep
<1>5. QueueInv'
  <2>1. {w.denom} = {w.denom}' /\ UNCHANGED db /\ UNCHANGED ledger
    BY <1>2
  <2> QED
    BY <1>2, <1>3, <2>1, QueueGrows
<1>6. \A e : Pending(e, Len(queue)) => Pending(e, Len(queue))'
  BY <1>2, <1>3, PendingGrows
<1>7. Pending(w, Len(queue))'
  BY <1>2, <1>3, EnqueuedPending
<1>8. ASSUME NEW e \in Needed(accounts[1].slot)
      PROVE  Pending(e, Len(queue))' \/ e \in accounts[1].writes \ {w}
  <2>1. Pending(e, Len(queue)) \/ e \in accounts[1].writes
    BY <1>1 DEF SecureInv
  <2> QED
    BY <1>6, <1>7, <2>1
<1>9. \A d \in RegisteredAt(accounts[1].slot - 1) : Pending(DenominationAccount(d), Len(queue))'
  <2>1. ASSUME NEW d \in RegisteredAt(accounts[1].slot - 1)
        PROVE  Pending(DenominationAccount(d), Len(queue))'
    <3>1. Pending(DenominationAccount(d), Len(queue))
      BY <1>1 DEF SecureInv
    <3>2. PICK x : x = DenominationAccount(d)
      OBVIOUS
    <3>3. Pending(x, Len(queue))'
      BY <1>6, <3>1, <3>2
    <3> QED
      BY <3>2, <3>3 DEF DenominationAccount
  <2> QED
    BY <2>1
<1>10. /\ accounts' \in Seq([slot : Nat, writes : SUBSET AccountEvents])
       /\ ReportInv' /\ SecureInv'
  <2>1. CASE accounts[1].writes = {w}
    BY <1>1, <1>2, <1>8, <2>1, HeadDone
  <2>2. CASE accounts[1].writes # {w}
    BY <1>1, <1>2, <1>8, <1>9, <2>2, HeadShrinks
  <2> QED
    BY <2>1, <2>2
<1>11. leaf_index_cache' \in [Denoms -> Nat]
  <2>1. w.kind = "MerkleTree" => w.denom \in Denoms /\ Cardinality(w.leaves) \in Nat
    BY <1>3, FS_CardinalityType DEF AccountEvents, Slots
  <2> QED
    BY <1>2, <2>1 DEF TypeOK
<1>12. TypeOK'
  BY <1>2, <1>4, <1>10, <1>11 DEF TypeOK, db
<1> QED
  BY <1>2, <1>4, <1>5, <1>10, <1>12, LedgerSame, ProgressSame DEF db

LEMMA NothingToReportInv ==
  ASSUME PluginInv, NothingToReport
  PROVE  PluginInv'
<1> USE DEF PluginInv
<1>1. /\ accounts # <<>> /\ loaded /\ accounts[1].writes = {} /\ accounts' = Tail(accounts)
      /\ UNCHANGED <<ledger, txs, rooted, plugin, queue, db, faults, lost, everLost>>
  BY HeadReport DEF NothingToReport
<1>2. \A e : Pending(e, Len(queue)) => Pending(e, Len(queue))'
  BY <1>1 DEF Pending, InTables, db
<1>3. \A e \in Needed(accounts[1].slot) : Pending(e, Len(queue))'
  BY <1>1, <1>2 DEF SecureInv
<1>4. /\ accounts' \in Seq([slot : Nat, writes : SUBSET AccountEvents])
      /\ ReportInv' /\ SecureInv'
  BY <1>1, <1>3, HeadDone DEF plugin
<1>5. TypeOK'
  BY <1>1, <1>4 DEF TypeOK, db, plugin
<1>6. QueueInv'
  BY <1>1, QueueSame
<1> QED
  BY <1>1, <1>4, <1>5, <1>6, LedgerSame, ProgressSame DEF db

LEMMA SecureSame ==
  ASSUME SecureInv, UNCHANGED <<ledger, loaded, accounts>>,
         \A e : Pending(e, Len(queue)) => Pending(e, Len(queue))'
  PROVE  SecureInv'
<1>1. ASSUME NEW h, NEW d \in RegisteredAt(h - 1), Pending(DenominationAccount(d), Len(queue))
      PROVE  Pending(DenominationAccount(d), Len(queue))'
  <2>1. PICK x : x = DenominationAccount(d)
    OBVIOUS
  <2>2. Pending(x, Len(queue))'
    BY <1>1, <2>1
  <2> QED
    BY <2>1, <2>2 DEF DenominationAccount
<1> QED
  BY <1>1, LedgerViews DEF SecureInv

\* A transaction or a root is reported when the head is no snapshot.
LEMMA ReportSame ==
  ASSUME TypeOK, ReportInv, loaded, UNCHANGED <<ledger, loaded, accounts>>,
         accounts # <<>> =>
           accounts[1].slot \in 1 .. Len(ledger)
           /\ accounts[1].writes \subseteq WritesOf(accounts[1].slot),
         stamping' # None => stamping' <= Len(ledger) - Len(accounts)
  PROVE  ReportInv'
<1>1. \A i \in 2 .. Len(accounts') : \A s \in {accounts'[i].slot} : accounts'[i].writes = WritesOf(s)'
  BY LedgerViews DEF ReportInv
<1>2. accounts' # <<>> => \A h \in {accounts'[1].slot} :
                            h \in 1 .. Len(ledger') /\ accounts'[1].writes \subseteq WritesOf(h)'
  BY LedgerViews
<1> QED
  BY <1>1, <1>2 DEF ReportInv

\* The head is no snapshot once the plugin is told of a later transaction.
LEMMA NotifiedHead ==
  ASSUME TypeOK, LedgerInv, ReportInv, Notified
  PROVE  /\ loaded /\ stamping = None /\ txs # <<>> /\ Head(txs) \in Nat \ {0}
         /\ Head(txs) <= Len(ledger) - Len(accounts) /\ txs' \in Seq(Nat \ {0})
         /\ accounts # <<>> =>
              accounts[1].slot \in 1 .. Len(ledger)
              /\ accounts[1].writes \subseteq WritesOf(accounts[1].slot)
<1>1. /\ loaded /\ stamping = None /\ txs # <<>> /\ txs' = Tail(txs) /\ Head(txs) <= Reported
  BY DEF Notified
<1>2. txs \in Seq(Nat \ {0}) /\ Len(txs) \in Nat \ {0} /\ Head(txs) = txs[1] /\ txs[1] \in Nat \ {0}
  BY <1>1, HeadTailProperties, LenProperties, EmptySeq, ElementOfSeq DEF TypeOK
<1>3. txs' \in Seq(Nat \ {0})
  BY <1>1, <1>2, HeadTailProperties
<1>4. Len(ledger) \in Nat /\ (accounts = <<>> => Len(accounts) = 0)
  BY LedgerTypes, EmptySeq DEF TypeOK
<1>5. CASE accounts = <<>>
  BY <1>1, <1>2, <1>3, <1>4, <1>5 DEF Reported
<1>6. CASE accounts # <<>>
  <2>1. accounts[1].slot = Len(ledger) - Len(accounts) + 1 /\ Reported = accounts[1].slot - 1
        /\ Len(accounts) \in Nat
    BY <1>6, HeadReport
  <2>2. ~(txs[1] > accounts[1].slot) /\ 1 \in 1 .. Len(txs)
    BY <1>1, <1>2, <1>4, <2>1
  <2>3. accounts[1].slot \in 1 .. Len(ledger) /\ accounts[1].writes \subseteq WritesOf(accounts[1].slot)
    BY <1>6, <2>2 DEF ReportInv
  <2> QED
    BY <1>1, <1>2, <1>3, <1>4, <2>1, <2>3
<1> QED
  BY <1>5, <1>6

LEMMA NotifyDepositInv ==
  ASSUME PluginInv, NotifyDeposit
  PROVE  PluginInv'
<1> USE DEF PluginInv
<1>1. Notified
  BY DEF NotifyDeposit
<1>2. /\ loaded /\ Head(txs) \in Nat \ {0} /\ Head(txs) <= Len(ledger) - Len(accounts) /\ txs' \in Seq(Nat \ {0})
      /\ accounts # <<>> =>
           accounts[1].slot \in 1 .. Len(ledger)
           /\ accounts[1].writes \subseteq WritesOf(accounts[1].slot)
  BY <1>1, NotifiedHead
<1>3. PICK d : d = ledger[Head(txs)].denom
  OBVIOUS
<1>4. PICK ev : ev = [kind |-> "InsertCommitment", denom |-> d,
                      leaf_index |-> leaf_index_cache[d], leaf |-> Head(txs)]
  OBVIOUS
<1>5. /\ UNCHANGED <<ledger, accounts, rooted, loaded, db, faults>> /\ Enqueue(ev, {})
      /\ leaf_index_cache' = [leaf_index_cache EXCEPT ![d] = @ + 1] /\ stamping' = Head(txs)
  BY <1>3, <1>4 DEF NotifyDeposit
<1>6. Len(ledger) \in Nat /\ Len(accounts) \in Nat
  BY LedgerTypes, LenProperties DEF TypeOK
<1>7. d \in Denoms /\ ev \in Events /\ leaf_index_cache' \in [Denoms -> Nat]
  <2>1. Head(txs) \in 1 .. Len(ledger)
    BY <1>2, <1>6
  <2>2. d \in Denoms
    BY <1>3, <2>1, LedgerTypes DEF TypeOK
  <2>3. PICK n \in Nat : n = leaf_index_cache[d]
    BY <2>2 DEF TypeOK
  <2>4. PICK slot \in Nat : slot = Head(txs)
    BY <1>2
  <2>5. ev = [kind |-> "InsertCommitment", denom |-> d, leaf_index |-> n, leaf |-> slot]
    BY <1>4, <2>3, <2>4
  <2>6. ev \in [kind : {"InsertCommitment"}, denom : Denoms, leaf_index : Nat, leaf : Nat]
    BY <2>2, <2>5
  <2>7. leaf_index_cache' = [leaf_index_cache EXCEPT ![d] = n + 1]
    BY <1>5, <2>3
  <2>8. leaf_index_cache' \in [Denoms -> Nat]
    BY <2>2, <2>7 DEF TypeOK
  <2> QED
    BY <2>2, <2>6, <2>8 DEF Events
<1>8. Sound(ev, Len(queue))
  BY <1>4 DEF Sound, Refers
<1>9. /\ queue' \in Seq(Events) /\ lost' \subseteq everLost' /\ everLost \subseteq everLost'
  BY <1>5, <1>7, EnqueueStep
<1>10. QueueInv'
  BY <1>5, <1>7, <1>8, QueueGrows
<1>11. \A e : Pending(e, Len(queue)) => Pending(e, Len(queue))'
  BY <1>5, <1>7, PendingGrows
<1>12. ReportInv' /\ SecureInv'
  BY <1>2, <1>5, <1>11, ReportSame, SecureSame
<1>13. TypeOK'
  BY <1>2, <1>5, <1>7, <1>9 DEF TypeOK, db
<1> QED
  BY <1>5, <1>9, <1>10, <1>12, <1>13, LedgerSame, ProgressSame DEF db

LEMMA CheckpointInv ==
  ASSUME PluginInv, loaded, NEW n \in Nat, NEW sig \in Nat,
         n <= Len(ledger) - Len(accounts) \/ n <= Reported,
         accounts # <<>> =>
           accounts[1].slot \in 1 .. Len(ledger)
           /\ accounts[1].writes \subseteq WritesOf(accounts[1].slot),
         Enqueue([kind |-> "Checkpoint", last_slot |-> n, last_signature |-> sig], {}),
         UNCHANGED <<ledger, accounts, txs, loaded, leaf_index_cache, db, faults>>,
         rooted' \in Nat, stamping' = None \/ stamping' = stamping
  PROVE  PluginInv'
<1> USE DEF PluginInv
<1> DEFINE ev == [kind |-> "Checkpoint", last_slot |-> n, last_signature |-> sig]
<1>1. ev \in Events /\ Sound(ev, Len(queue))
  BY CheckpointSound DEF Events
<1>2. Enqueue(ev, {}) /\ UNCHANGED db /\ UNCHANGED ledger
  OBVIOUS
<1> HIDE DEF ev
<1>3. /\ queue' \in Seq(Events) /\ lost' \subseteq everLost' /\ everLost \subseteq everLost'
  BY <1>1, <1>2, EnqueueStep
<1>4. QueueInv'
  BY <1>1, <1>2, QueueGrows
<1>5. \A e : Pending(e, Len(queue)) => Pending(e, Len(queue))'
  BY <1>1, <1>2, PendingGrows
<1>6. ReportInv' /\ SecureInv'
  <2>1. stamping' # None => stamping' <= Len(ledger) - Len(accounts)
    BY DEF ReportInv
  <2> QED
    BY <1>5, <2>1, ReportSame, SecureSame
<1>7. TypeOK'
  BY <1>3 DEF TypeOK, db, None
<1> QED
  BY <1>3, <1>4, <1>6, <1>7, LedgerSame, ProgressSame DEF db

LEMMA StampSignatureInv ==
  ASSUME PluginInv, StampSignature
  PROVE  PluginInv'
<1> USE DEF PluginInv
<1>1. /\ loaded /\ stamping # None /\ stamping' = None
      /\ Enqueue([kind |-> "Checkpoint", last_slot |-> stamping, last_signature |-> stamping], {})
      /\ UNCHANGED <<ledger, accounts, txs, rooted, loaded, leaf_index_cache, db, faults>>
  BY DEF StampSignature, validator
<1>2. PICK n \in Nat : n = stamping
  BY DEF TypeOK
<1>3. n <= Len(ledger) - Len(accounts)
  BY <1>1, <1>2 DEF ReportInv
<1>4. accounts # <<>> =>
        accounts[1].slot \in 1 .. Len(ledger)
        /\ accounts[1].writes \subseteq WritesOf(accounts[1].slot)
  BY <1>1 DEF ReportInv
<1>5. rooted' \in Nat
  BY <1>1 DEF TypeOK
<1> QED
  BY <1>1, <1>2, <1>3, <1>4, <1>5, CheckpointInv

LEMMA SlotRootedInv ==
  ASSUME PluginInv, SlotRooted
  PROVE  PluginInv'
<1> USE DEF PluginInv
<1>1. PICK n \in Nat : n = rooted + 1
  BY DEF TypeOK
<1>2. /\ loaded /\ rooted < Reported /\ rooted' = n
      /\ Enqueue([kind |-> "Checkpoint", last_slot |-> n, last_signature |-> None], {})
      /\ UNCHANGED <<ledger, accounts, txs, loaded, leaf_index_cache, stamping, db, faults>>
  BY <1>1 DEF SlotRooted, plugin
<1>3. Reported \in Int
  <2>1. CASE accounts = <<>>
    BY <2>1, LedgerTypes DEF Reported, TypeOK
  <2>2. CASE accounts # <<>>
    BY <2>2, HeadReport
  <2> QED
    BY <2>1, <2>2
<1>4. n <= Reported
  BY <1>1, <1>2, <1>3 DEF TypeOK
<1>5. accounts # <<>> =>
        accounts[1].slot \in 1 .. Len(ledger)
        /\ accounts[1].writes \subseteq WritesOf(accounts[1].slot)
  BY <1>1, <1>4, HeadReport DEF ReportInv
<1> QED
  BY <1>2, <1>4, <1>5, CheckpointInv DEF None

LEMMA NotifyOtherInv ==
  ASSUME PluginInv, NotifyOther
  PROVE  PluginInv'
<1> USE DEF PluginInv
<1>1. Notified /\ UNCHANGED <<ledger, accounts, rooted, plugin, queue, db, faults, lost, everLost>>
  BY DEF NotifyOther
<1>2. /\ loaded /\ stamping = None /\ txs' \in Seq(Nat \ {0})
      /\ accounts # <<>> =>
           accounts[1].slot \in 1 .. Len(ledger)
           /\ accounts[1].writes \subseteq WritesOf(accounts[1].slot)
  BY <1>1, NotifiedHead
<1>3. \A e : Pending(e, Len(queue)) => Pending(e, Len(queue))'
  BY <1>1 DEF Pending, InTables, db
<1>4. ReportInv' /\ SecureInv'
  BY <1>1, <1>2, <1>3, ReportSame, SecureSame DEF plugin
<1>5. TypeOK'
  BY <1>1, <1>2 DEF TypeOK, db, plugin
<1>6. QueueInv'
  BY <1>1, QueueSame
<1> QED
  BY <1>1, <1>4, <1>5, <1>6, LedgerSame, ProgressSame DEF db

-----------------------------------------------------------------------------
(* The worker thread *)

\* Writing an event takes no row away that the tables must keep: a root is
\* replaced by a root of as many leaves, which is the same.
LEMMA RowsStay ==
  ASSUME TypeOK, NEW h \in Events, TreeOf(h) \/ h.kind # "MerkleTree", Store(h),
         NEW e, Kept(e), InTables(e)
  PROVE  InTables(e)'
<1>1. denominations \subseteq denominations' /\ nullifiers \subseteq nullifiers'
  BY DEF Store
<1>2. CASE e.kind # "MerkleTree"
  BY <1>1, <1>2 DEF InTables
<1>3. CASE e.kind = "MerkleTree"
  <2> DEFINE row == <<Cardinality(e.leaves), e.leaves>>
  <2>1. e.denom \in Denoms /\ row \in roots[e.denom] /\ roots \in [Denoms -> SUBSET (Nat \X Slots)]
    BY <1>3 DEF InTables, Kept, AccountEvents, TypeOK
  <2>2. PICK m \in 0 .. Len(ledger) : e.leaves = LeavesAt(m, e.denom)
    BY <1>3 DEF Kept, TreeOf
  <2>3. CASE h.kind # "MerkleTree" \/ h.denom # e.denom
    <3>1. roots'[e.denom] = roots[e.denom]
      BY <2>1, <2>3 DEF Store
    <3> QED
      BY <1>3, <2>1, <3>1 DEF InTables
  <2>4. CASE h.kind = "MerkleTree" /\ h.denom = e.denom
    <3>1. PICK n \in 0 .. Len(ledger) : h.leaves = LeavesAt(n, e.denom)
      BY <2>4 DEF TreeOf
    <3>2. roots'[e.denom] = {r \in roots[e.denom] : r[1] # Cardinality(h.leaves)}
                              \cup {<<Cardinality(h.leaves), h.leaves>>}
      BY <2>1, <2>4 DEF Store
    <3>3. Cardinality(h.leaves) = Cardinality(e.leaves) => h.leaves = e.leaves
      BY <2>2, <3>1, LedgerTypes, LeavesOfSize DEF TypeOK
    <3>4. row[1] = Cardinality(e.leaves)
      OBVIOUS
    <3>5. row \in roots'[e.denom]
      BY <2>1, <3>2, <3>3, <3>4
    <3> QED
      BY <1>3, <3>5 DEF InTables
  <2> QED
    BY <2>3, <2>4
<1> QED
  BY <1>2, <1>3

\* What the worker does to the tables with the head of the queue: it writes it,
\* or a foreign key refuses it, or the write fails.
Popped(h) ==
  /\ queue' = Tail(queue) /\ lost \subseteq lost'
  /\ \/ Insertable(h) /\ Store(h)
     \/ ~Insertable(h) /\ UNCHANGED db
     \/ UNCHANGED db /\ (h.kind # "Checkpoint" => h.denom \in lost')

LEMMA QueueHead ==
  ASSUME TypeOK, QueueInv, queue # <<>>
  PROVE  /\ Len(queue) \in Nat \ {0} /\ Head(queue) = queue[1] /\ queue[1] \in Events
         /\ Sound(queue[1], 0) /\ Tail(queue) \in Seq(Events)
         /\ Len(Tail(queue)) = Len(queue) - 1
         /\ \A k \in 1 .. Len(queue) - 1 : Tail(queue)[k] = queue[k + 1]
<1>1. queue \in Seq(Events)
  BY DEF TypeOK
<1>2. Len(queue) \in Nat \ {0} /\ Head(queue) = queue[1]
  BY <1>1, HeadTailProperties, LenProperties, EmptySeq
<1>3. 1 \in 1 .. Len(queue)
  BY <1>2
<1>4. queue[1] \in Events
  BY <1>1, <1>3, ElementOfSeq
<1>5. Sound(queue[1], 0)
  BY <1>3 DEF QueueInv
<1> QED
  BY <1>1, <1>2, <1>4, <1>5, HeadTailProperties

LEMMA PendingPops ==
  ASSUME TypeOK, QueueInv, queue # <<>>, Popped(queue[1]),
         NEW e, Kept(e), NEW i \in 1 .. Len(queue), Pending(e, i)
  PROVE  Pending(e, i - 1)'
<1>1. PICK h \in Events : h = queue[1] /\ Sound(h, 0)
  BY QueueHead
<1>2. /\ Len(queue) \in Nat \ {0} /\ queue' = Tail(queue) /\ Len(queue') = Len(queue) - 1
      /\ \A k \in 1 .. Len(queue) - 1 : queue'[k] = queue[k + 1]
  BY QueueHead DEF Popped
<1>3. e.kind \in {"Denomination", "MerkleTree", "NullifierRecord"}
      /\ (e.kind # "Denomination" => Refers(e))
  BY DEF Kept, AccountEvents
<1>4. CASE e.denom \in lost
  BY <1>4 DEF Pending, Popped
<1>5. CASE InTables(e)
  <2>1. UNCHANGED db => InTables(e)'
    BY <1>5 DEF InTables, db
  <2>2. Store(h) => InTables(e)'
    BY <1>1, <1>5, RowsStay DEF Sound
  <2> QED
    BY <1>1, <2>1, <2>2 DEF Pending, Popped
<1>6. CASE e = h
  <2>1. CASE Insertable(h) /\ Store(h)
    <3>1. InTables(e)'
      <4>1. CASE e.kind = "Denomination"
        BY <1>6, <2>1, <4>1 DEF Store, InTables
      <4>2. CASE e.kind = "NullifierRecord"
        BY <1>6, <2>1, <4>2 DEF Store, InTables
      <4>3. CASE e.kind = "MerkleTree"
        <5>1. e.denom \in Denoms
          BY DEF Kept, AccountEvents
        <5> QED
          BY <1>6, <2>1, <4>3, <5>1 DEF Store, InTables, TypeOK
      <4> QED
        BY <1>3, <4>1, <4>2, <4>3
    <3> QED
      BY <3>1 DEF Pending
  <2>2. CASE ~Insertable(h)
    <3>1. h.kind # "Denomination" /\ h.denom \notin denominations
      BY <2>2 DEF Insertable
    <3>2. Pending(DenominationAccount(h.denom), 0)
      BY <1>1, <1>3, <1>6, <3>1 DEF Sound
    <3>3. h.denom \in lost
      BY <3>1, <3>2 DEF Pending, InTables, DenominationAccount
    <3> QED
      BY <1>6, <3>3 DEF Pending, Popped
  <2>3. CASE h.kind # "Checkpoint" => h.denom \in lost'
    BY <1>3, <1>6, <2>3 DEF Pending
  <2> QED
    BY <1>1, <2>1, <2>2, <2>3 DEF Popped
<1>7. ASSUME NEW k \in 2 .. i, queue[k] = e
      PROVE  Pending(e, i - 1)'
  <2>1. k - 1 \in 1 .. i - 1 /\ k - 1 \in 1 .. Len(queue) - 1 /\ k - 1 + 1 = k
    BY <1>2
  <2>2. queue'[k - 1] = e
    BY <1>2, <1>7, <2>1
  <2> QED
    BY <2>1, <2>2 DEF Pending
<1>8. e.denom \in lost \/ InTables(e) \/ e = h \/ \E k \in 2 .. i : queue[k] = e
  BY <1>1 DEF Pending
<1> QED
  BY <1>4, <1>5, <1>6, <1>7, <1>8

LEMMA PoppedQueue ==
  ASSUME TypeOK, QueueInv, queue # <<>>, Popped(queue[1]), UNCHANGED ledger
  PROVE  QueueInv'
<1>1. /\ Len(queue) \in Nat \ {0} /\ Len(queue') = Len(queue) - 1
      /\ \A k \in 1 .. Len(queue) - 1 : queue'[k] = queue[k + 1]
  BY QueueHead DEF Popped
<1>2. ASSUME NEW i \in 1 .. Len(queue'), NEW e \in {queue'[i]}
      PROVE  Sound(e, i - 1)'
  <2>1. i \in 1 .. Len(queue) /\ i + 1 \in 1 .. Len(queue) /\ e = queue[i + 1] /\ i + 1 - 1 = i
    BY <1>1, <1>2
  <2>2. Sound(e, i) /\ e \in Events
    <3>1. e \in Events
      BY <2>1, ElementOfSeq DEF TypeOK
    <3> QED
      BY <2>1, <3>1 DEF QueueInv
  <2>3. ASSUME e.kind = "MerkleTree"
        PROVE  TreeOf(e)'
    BY <2>2, <2>3, LedgerViews DEF Sound, TreeOf
  <2>4. ASSUME Refers(e)
        PROVE  Pending(DenominationAccount(e.denom), i - 1)'
    <3>1. PICK a : a = DenominationAccount(e.denom)
      OBVIOUS
    <3>2. e.denom \in Denoms
      BY <2>2, <2>4 DEF Events, AccountEvents, Refers
    <3>3. Pending(a, i) /\ Kept(a)
      BY <2>2, <2>4, <3>1, <3>2, DenominationKept DEF Sound
    <3>4. Pending(a, i - 1)'
      BY <2>1, <3>3, PendingPops
    <3> QED
      BY <3>1, <3>4 DEF DenominationAccount
  <2>5. ASSUME e.kind = "Checkpoint"
        PROVE  /\ e.last_slot \in 0 .. Len(ledger')
               /\ \A s \in SpentAt(e.last_slot)' : Pending(NullifierRecord(s), i - 1)'
    <3>1. /\ e.last_slot \in 0 .. Len(ledger)
          /\ \A s \in SpentAt(e.last_slot) : Pending(NullifierRecord(s), i)
      BY <2>2, <2>5 DEF Sound
    <3>2. SpentAt(e.last_slot)' = SpentAt(e.last_slot)
      BY LedgerViews
    <3>3. ASSUME NEW s \in SpentAt(e.last_slot)
          PROVE  Pending(NullifierRecord(s), i - 1)'
      <4>1. PICK x : x = NullifierRecord(s)
        OBVIOUS
      <4>2. Kept(x)
        <5>1. /\ s \in 1 .. Len(ledger) /\ ledger[s].denom \in Denoms /\ s \in Nat
          BY <3>1, LedgerTypes DEF TypeOK, SpentAt
        <5> QED
          BY <4>1, <5>1 DEF Kept, NullifierRecord, AccountEvents, Refers
      <4>3. Pending(x, i - 1)'
        BY <2>1, <3>1, <4>1, <4>2, PendingPops
      <4>4. NullifierRecord(s)' = x
        BY <4>1, LedgerViews
      <4> QED
        BY <4>3, <4>4
    <3> QED
      BY <3>1, <3>2, <3>3
  <2> QED
    BY <2>3, <2>4, <2>5 DEF Sound, Refers
<1> QED
  BY <1>2 DEF QueueInv

LEMMA PoppedSecure ==
  ASSUME TypeOK, LedgerInv, ReportInv, SecureInv, QueueInv, queue # <<>>, Popped(queue[1]),
         UNCHANGED <<ledger, accounts, loaded>>
  PROVE  SecureInv'
<1>1. /\ Len(queue) \in Nat \ {0} /\ Len(queue') = Len(queue) - 1 /\ Len(queue) \in 1 .. Len(queue)
      /\ Len(ledger) \in Nat
  BY QueueHead, LedgerTypes DEF Popped, TypeOK
<1>2. ASSUME NEW e, Kept(e), Pending(e, Len(queue))
      PROVE  Pending(e, Len(queue))'
  <2>1. PICK i \in 1 .. Len(queue) : i = Len(queue)
    BY <1>1
  <2>2. Pending(e, i - 1)'
    BY <1>2, <2>1, PendingPops
  <2>3. i - 1 = Len(queue')
    BY <1>1, <2>1
  <2> QED
    BY <2>2, <2>3 DEF Pending
<1>3. ASSUME NEW h, NEW e \in Needed(h), h \in 0 .. Len(ledger), Pending(e, Len(queue))
      PROVE  Pending(e, Len(queue))'
  BY <1>2, <1>3, NeededKept
<1>4. ASSUME NEW h \in 0 .. Len(ledger), NEW d \in RegisteredAt(h - 1),
             Pending(DenominationAccount(d), Len(queue))
      PROVE  Pending(DenominationAccount(d), Len(queue))'
  <2>1. PICK a : a = DenominationAccount(d)
    OBVIOUS
  <2>2. h - 1 \in Int /\ h - 1 <= Len(ledger)
    BY <1>1
  <2>3. Kept(a)
    BY <2>1, <2>2, RegisteredTypes, DenominationKept
  <2>4. Pending(a, Len(queue))'
    BY <1>2, <1>4, <2>1, <2>3
  <2> QED
    BY <2>1, <2>4 DEF DenominationAccount
<1>5. ASSUME loaded, accounts = <<>>, NEW h \in {Len(ledger)}, NEW e \in Needed(h)
      PROVE  Pending(e, Len(queue))'
  BY <1>1, <1>3, <1>5 DEF SecureInv
<1>6. ASSUME loaded, accounts # <<>>, NEW h \in {accounts[1].slot}
      PROVE  /\ \A e \in Needed(h) : Pending(e, Len(queue))' \/ e \in accounts[1].writes
             /\ \A d \in RegisteredAt(h - 1) : Pending(DenominationAccount(d), Len(queue))'
  <2>1. h \in 0 .. Len(ledger)
    BY <1>6, HeadReport
  <2>2. /\ \A e \in Needed(h) : Pending(e, Len(queue)) \/ e \in accounts[1].writes
        /\ \A d \in RegisteredAt(h - 1) : Pending(DenominationAccount(d), Len(queue))
    BY <1>6 DEF SecureInv
  <2> QED
    BY <1>3, <1>4, <2>1, <2>2
<1> QED
  BY <1>5, <1>6, LedgerViews DEF SecureInv

LEMMA StoreTypes ==
  ASSUME TypeOK, NEW h \in Events, Store(h)
  PROVE  roots' \in [Denoms -> SUBSET (Nat \X Slots)]
         /\ progress' \in [last_slot : Nat, last_signature : Nat]
<1>1. roots' \in [Denoms -> SUBSET (Nat \X Slots)]
  <2>1. CASE h.kind # "MerkleTree"
    BY <2>1 DEF Store, TypeOK
  <2>2. CASE h.kind = "MerkleTree"
    <3>1. h.denom \in Denoms /\ h.leaves \in Slots
      BY <2>2 DEF Events, AccountEvents
    <3>2. Cardinality(h.leaves) \in Nat
      BY <3>1, FS_CardinalityType DEF Slots
    <3>3. PICK new : new = {r \in roots[h.denom] : r[1] # Cardinality(h.leaves)}
                             \cup {<<Cardinality(h.leaves), h.leaves>>}
      OBVIOUS
    <3>4. roots[h.denom] \in SUBSET (Nat \X Slots)
      BY <3>1 DEF TypeOK
    <3>5. <<Cardinality(h.leaves), h.leaves>> \in Nat \X Slots
      BY <3>1, <3>2
    <3>6. new \in SUBSET (Nat \X Slots)
      BY <3>3, <3>4, <3>5
    <3>7. roots' = [roots EXCEPT ![h.denom] = new]
      BY <2>2, <3>3 DEF Store
    <3> QED
      BY <3>6, <3>7 DEF TypeOK
  <2> QED
    BY <2>1, <2>2
<1>2. progress' \in [last_slot : Nat, last_signature : Nat]
  <2>1. CASE h.kind # "Checkpoint"
    BY <2>1 DEF Store, TypeOK
  <2>2. CASE h.kind = "Checkpoint"
    <3>1. h.last_slot \in Nat /\ h.last_signature \in Nat
      BY <2>2 DEF Events, AccountEvents
    <3> QED
      BY <2>2, <3>1 DEF Store, TypeOK
  <2> QED
    BY <2>1, <2>2
<1> QED
  BY <1>1, <1>2

LEMMA ReportUntouched ==
  ASSUME ReportInv, UNCHANGED <<validator, plugin>>
  PROVE  ReportInv'
<1>1. UNCHANGED <<ledger, accounts, txs, rooted, loaded, stamping>>
  BY DEF validator, plugin
<1> QED
  BY <1>1, LedgerViews DEF ReportInv

LEMMA WriteEventInv ==
  ASSUME PluginInv, WriteEvent
  PROVE  PluginInv'
<1> USE DEF PluginInv
<1>1. queue # <<>> /\ UNCHANGED <<validator, plugin, faults, lost, everLost>> /\ queue' = Tail(queue)
  BY DEF WriteEvent
<1>2. PICK h \in Events : h = queue[1] /\ h = Head(queue) /\ Sound(h, 0)
  BY <1>1, QueueHead
<1>3. (Insertable(h) /\ Store(h)) \/ (~Insertable(h) /\ UNCHANGED db)
  BY <1>2 DEF WriteEvent
<1>4. Popped(queue[1])
  BY <1>1, <1>2, <1>3 DEF Popped
<1>5. UNCHANGED <<ledger, accounts, txs, rooted, loaded, leaf_index_cache, stamping>>
  BY <1>1 DEF validator, plugin
<1>6. QueueInv' /\ SecureInv' /\ ReportInv' /\ LedgerInv'
  BY <1>1, <1>4, <1>5, PoppedQueue, PoppedSecure, ReportUntouched, LedgerSame
<1>7. TypeOK'
  <2>1. roots' \in [Denoms -> SUBSET (Nat \X Slots)]
        /\ progress' \in [last_slot : Nat, last_signature : Nat]
    BY <1>3, StoreTypes DEF TypeOK, db
  <2>2. queue' \in Seq(Events)
    BY <1>1, QueueHead
  <2> QED
    BY <1>1, <1>5, <2>1, <2>2 DEF TypeOK
<1>8. ProgressInv'
  <2>1. nullifiers \subseteq nullifiers'
    BY <1>3 DEF Store, db
  <2>2. CASE progress' = progress
    BY <1>1, <1>5, <2>1, <2>2 DEF ProgressInv, CheckpointCoversSpends, SpentAt
  <2>3. CASE h.kind = "Checkpoint" /\ progress'.last_slot = h.last_slot
    <3>1. h.last_slot \in 0 .. Len(ledger)
      BY <1>2, <2>3 DEF Sound
    <3>2. ASSUME NEW s \in SpentAt(h.last_slot)
          PROVE  ledger[s].denom \in everLost \/ s \in nullifiers
      <4>1. Pending(NullifierRecord(s), 0)
        BY <1>2, <2>3 DEF Sound
      <4>2. ledger[s].denom \in lost \/ s \in nullifiers
        BY <4>1 DEF Pending, InTables, NullifierRecord
      <4> QED
        BY <4>2 DEF TypeOK
    <3>3. \A s \in SpentAt(progress.last_slot)' : s \in SpentAt(h.last_slot)
      BY <1>5, <2>3 DEF SpentAt
    <3> QED
      BY <1>1, <1>5, <2>1, <2>3, <3>1, <3>2, <3>3 DEF ProgressInv, CheckpointCoversSpends
  <2>4. progress' = progress \/ (h.kind = "Checkpoint" /\ progress'.last_slot = h.last_slot)
        \/ (progress'.last_slot = progress.last_slot)
    BY <1>3 DEF Store, db
  <2>5. CASE progress'.last_slot = progress.last_slot
    BY <1>1, <1>5, <2>1, <2>5 DEF ProgressInv, CheckpointCoversSpends, SpentAt
  <2> QED
    BY <2>2, <2>3, <2>4, <2>5
<1> QED
  BY <1>6, <1>7, <1>8

LEMMA WriteFailsInv ==
  ASSUME PluginInv, WriteFails
  PROVE  PluginInv'
<1> USE DEF PluginInv
<1>1. queue # <<>> /\ UNCHANGED <<validator, plugin, db>> /\ queue' = Tail(queue)
  BY DEF WriteFails
<1>2. PICK h \in Events : h = queue[1] /\ h = Head(queue)
  BY <1>1, QueueHead
<1>3. PICK d : d = IF h.kind = "Checkpoint" THEN {} ELSE {h.denom}
  OBVIOUS
<1>4. lost' = lost \cup d /\ everLost' = everLost \cup d
  BY <1>2, <1>3 DEF WriteFails
<1>5. Popped(queue[1])
  BY <1>1, <1>2, <1>3, <1>4 DEF Popped
<1>6. UNCHANGED <<ledger, accounts, txs, rooted, loaded, leaf_index_cache, stamping>>
  BY <1>1 DEF validator, plugin
<1>7. QueueInv' /\ SecureInv' /\ ReportInv' /\ LedgerInv'
  BY <1>1, <1>5, <1>6, PoppedQueue, PoppedSecure, ReportUntouched, LedgerSame
<1>8. TypeOK'
  <2>1. queue' \in Seq(Events)
    BY <1>1, QueueHead
  <2> QED
    BY <1>1, <1>4, <1>6, <2>1 DEF TypeOK, db
<1> QED
  BY <1>1, <1>4, <1>6, <1>7, <1>8, ProgressSame DEF db

-----------------------------------------------------------------------------
(* The ledger grows *)

LeavesTyped == \A n \in Int : \A d : LeavesAt(n, d) \in Slots

LEMMA LeavesTypes == LeavesTyped
BY LeavesFinite DEF LeavesTyped

NeededStep ==
  \A n \in Nat : n + 1 <= Len(ledger) => Needed(n + 1) \subseteq Needed(n) \cup WritesOf(n + 1)

LEMMA NeededGrows == TypeOK => NeededStep
BY NeededNext DEF NeededStep

\* A tier with an unspent note is registered.
LEMMA LegalRegistered ==
  ASSUME TypeOK, LedgerInv, NEW op \in Ops \ {"register"}, NEW d \in Denoms,
         Legal([op |-> op, denom |-> d])
  PROVE  d \in RegisteredAt(Len(ledger))
<1> DEFINE Txs(o) == {s \in DOMAIN ledger : ledger[s] = [op |-> o, denom |-> d]}
<1>1. Len(ledger) \in Nat /\ DOMAIN ledger = 1 .. Len(ledger)
  BY LedgerTypes DEF TypeOK
<1>2. CASE op \in {"deposit", "failed"}
  BY <1>2 DEF Legal
<1>3. CASE op = "withdraw"
  <2>1. Cardinality(Txs("withdraw")) < Cardinality(Txs("deposit"))
    BY <1>3 DEF Legal
  <2>2. IsFiniteSet(Txs("withdraw")) /\ IsFiniteSet(Txs("deposit"))
    <3>1. IsFiniteSet(1 .. Len(ledger))
      BY <1>1, FS_Interval
    <3> QED
      BY <1>1, <3>1, FS_Subset
  <2>3. Txs("deposit") # {}
    <3>1. Cardinality(Txs("withdraw")) \in Nat
      BY <2>2, FS_CardinalityType
    <3>2. Cardinality({}) = 0
      BY FS_EmptySet
    <3> HIDE DEF Txs
    <3> QED
      BY <2>1, <3>1, <3>2
  <2>4. PICK s \in 1 .. Len(ledger) : ledger[s] = [op |-> "deposit", denom |-> d]
    BY <1>1, <2>3
  <2>5. d \in RegisteredAt(s - 1)
    BY <2>4 DEF LedgerInv
  <2> QED
    BY <1>1, <2>5, RegisteredStays
<1> QED
  BY <1>2, <1>3 DEF Ops

LEMMA LandLedger ==
  ASSUME TypeOK, LedgerInv, NEW op \in Ops, NEW d \in Denoms, Land([op |-> op, denom |-> d])
  PROVE  /\ ledger' \in Seq([op : Ops, denom : Denoms]) /\ Len(ledger') = Len(ledger) + 1
         /\ \A s \in 1 .. Len(ledger) : ledger'[s] = ledger[s]
         /\ LedgerInv'
<1>1. Len(ledger) \in Nat /\ ledger \in Seq([op : Ops, denom : Denoms])
  BY LedgerTypes DEF TypeOK
<1>2. PICK tx \in [op : Ops, denom : Denoms] : tx = [op |-> op, denom |-> d]
  OBVIOUS
<1>3. ledger' = Append(ledger, tx) /\ Legal([op |-> op, denom |-> d])
  BY <1>2 DEF Land
<1>4. /\ ledger' \in Seq([op : Ops, denom : Denoms]) /\ Len(ledger') = Len(ledger) + 1
      /\ ledger'[Len(ledger) + 1] = tx
      /\ \A s \in 1 .. Len(ledger) : ledger'[s] = ledger[s]
  BY <1>1, <1>3, AppendProperties
<1>5. ASSUME NEW s \in 1 .. Len(ledger'), ledger'[s].op # "register"
      PROVE  ledger'[s].denom \in RegisteredAt(s - 1)'
  <2>1. s - 1 \in Int /\ s - 1 <= Len(ledger)
    BY <1>1, <1>4
  <2>2. RegisteredAt(s - 1)' = RegisteredAt(s - 1)
    BY <1>4, <2>1, PastStays
  <2>3. CASE s \in 1 .. Len(ledger)
    BY <1>4, <1>5, <2>2, <2>3 DEF LedgerInv
  <2>4. CASE s = Len(ledger) + 1
    <3>1. op # "register" /\ d \in RegisteredAt(Len(ledger)) /\ s - 1 = Len(ledger)
      BY <1>1, <1>2, <1>3, <1>4, <1>5, <2>4, LegalRegistered
    <3> QED
      BY <1>2, <1>4, <2>2, <2>4, <3>1
  <2> QED
    BY <1>1, <1>4, <2>3, <2>4
<1> QED
  BY <1>4, <1>5 DEF LedgerInv

LEMMA LandInv ==
  ASSUME PluginInv, NEW op \in Ops, NEW d \in Denoms, Land([op |-> op, denom |-> d])
  PROVE  PluginInv'
<1> USE DEF PluginInv
<1>1. /\ ledger' \in Seq([op : Ops, denom : Denoms]) /\ Len(ledger') = Len(ledger) + 1
      /\ \A s \in 1 .. Len(ledger) : ledger'[s] = ledger[s]
      /\ LedgerInv' /\ Len(ledger) \in Nat
  BY LandLedger, LedgerTypes DEF TypeOK
<1>2. /\ UNCHANGED <<rooted, plugin, queue, db, faults, lost, everLost>>
      /\ IF loaded
         THEN /\ accounts' = Append(accounts, Report(Len(ledger))')
              /\ txs' = Append(txs, Len(ledger'))
         ELSE UNCHANGED <<accounts, txs>>
  BY DEF Land
<1>3. PICK n \in Nat \ {0} : n = Len(ledger) + 1
  BY <1>1
<1>4. PICK new : new = [slot |-> n, writes |-> WritesOf(n)']
  OBVIOUS
<1>5. Report(Len(ledger))' = new
  <2>1. Len(ledger') = n
    BY <1>1, <1>3
  <2>2. WritesOf(Len(ledger))' = WritesOf(n)'
    BY <2>1 DEF WritesOf, MerkleTree, LeavesAt, DenominationAccount, NullifierRecord, Appends
  <2> QED
    BY <1>4, <2>1, <2>2 DEF Report
<1>6. ASSUME NEW m \in Int, m <= Len(ledger)
      PROVE  /\ Needed(m)' = Needed(m) /\ RegisteredAt(m)' = RegisteredAt(m)
             /\ Snapshot(m)' = Snapshot(m) /\ SpentAt(m)' = SpentAt(m)
             /\ \A s \in 1 .. m : WritesOf(s)' = WritesOf(s)
  BY <1>1, <1>6, PastStays
<1>7. new \in [slot : Nat, writes : SUBSET AccountEvents]
  <2>1. LeavesTyped'
    BY LeavesTypes, PTL
  <2>2. PICK leaves \in Slots : leaves = LeavesAt(n, d)'
    BY <2>1 DEF LeavesTyped
  <2>3. ledger'[n] = [op |-> op, denom |-> d]
    <3>1. PICK tx : tx = [op |-> op, denom |-> d]
      OBVIOUS
    <3> QED
      BY <1>1, <1>3, <3>1, AppendProperties DEF Land, TypeOK
  <2>4. WritesOf(n)' \subseteq {[kind |-> "Denomination", denom |-> d],
                             [kind |-> "MerkleTree", denom |-> d, leaves |-> leaves],
                             [kind |-> "NullifierRecord", denom |-> d, nullifier |-> n]}
    BY <2>2, <2>3 DEF WritesOf, MerkleTree, DenominationAccount, NullifierRecord, LeavesAt, Appends
  <2>5. WritesOf(n)' \subseteq AccountEvents
    BY <2>4 DEF AccountEvents
  <2> QED
    BY <1>4, <2>5
<1>8. Len(accounts) \in Nat /\ Len(txs) \in Nat
  BY LenProperties DEF TypeOK
<1>9. loaded => /\ accounts' \in Seq([slot : Nat, writes : SUBSET AccountEvents])
                /\ Len(accounts') = Len(accounts) + 1 /\ accounts'[Len(accounts) + 1] = new
                /\ \A i \in 1 .. Len(accounts) : accounts'[i] = accounts[i]
  <2>1. accounts \in Seq([slot : Nat, writes : SUBSET AccountEvents])
    BY DEF TypeOK
  <2>2. loaded => accounts' = Append(accounts, new)
    BY <1>2, <1>5
  <2>3. CASE loaded
    <3>1. accounts' = Append(accounts, new)
      BY <2>2, <2>3
    <3> QED
      BY <1>7, <2>1, <3>1, AppendProperties
  <2> QED
    BY <2>3
<1>10. loaded => /\ txs' \in Seq(Nat \ {0}) /\ Len(txs') = Len(txs) + 1
                 /\ txs'[Len(txs) + 1] = n /\ \A i \in 1 .. Len(txs) : txs'[i] = txs[i]
  <2>1. txs \in Seq(Nat \ {0})
    BY DEF TypeOK
  <2>2. loaded => txs' = Append(txs, n)
    BY <1>1, <1>2, <1>3
  <2>3. CASE loaded
    <3>1. txs' = Append(txs, n)
      BY <2>2, <2>3
    <3>2. n \in Nat \ {0}
      BY <1>1
    <3> QED
      BY <2>1, <3>1, <3>2, AppendProperties
  <2> QED
    BY <2>3
<1>11. TypeOK'
  BY <1>1, <1>2, <1>9, <1>10 DEF TypeOK, db, plugin
<1>12. ReportInv'
  <2>1. CASE ~loaded
    <3>1. /\ accounts' = <<>> /\ txs' = <<>> /\ stamping' = None /\ ~loaded' /\ Len(accounts') = 0
      BY <1>2, <2>1, EmptySeq DEF ReportInv, plugin
    <3> QED
      BY <1>1, <3>1 DEF ReportInv
  <2>2. CASE loaded
    <3>1. Len(accounts') <= Len(ledger') + 1
          /\ (stamping' # None => stamping' <= Len(ledger') - Len(accounts'))
      <4>1. Len(accounts') = Len(accounts) + 1 /\ stamping' = stamping
        BY <1>2, <1>9, <2>2 DEF plugin
      <4>2. /\ Len(accounts) <= Len(ledger) + 1 /\ stamping \in Nat
            /\ stamping # None => stamping <= Len(ledger) - Len(accounts)
        BY DEF ReportInv, TypeOK
      <4>3. PICK a \in Nat, l \in Nat : a = Len(accounts) /\ l = Len(ledger)
        BY <1>1, <1>8
      <4>4. Len(accounts') = a + 1 /\ Len(ledger') = l + 1
        BY <1>1, <4>1, <4>3
      <4>5. a + 1 <= (l + 1) + 1 /\ (stamping # None => stamping <= (l + 1) - (a + 1))
        BY <4>2, <4>3
      <4> QED
        BY <4>1, <4>4, <4>5
    <3>2. ASSUME NEW i \in 1 .. Len(accounts')
          PROVE  accounts'[i].slot = Len(ledger') - Len(accounts') + i
      <4>1. CASE i \in 1 .. Len(accounts)
        <5>1. accounts[i].slot = Len(ledger) - Len(accounts) + i /\ accounts'[i] = accounts[i]
          BY <1>9, <2>2, <4>1 DEF ReportInv
        <5>2. Len(ledger') - Len(accounts') = Len(ledger) - Len(accounts)
          <6>1. Len(accounts') = Len(accounts) + 1
            BY <1>9, <2>2
          <6>2. Len(ledger') = Len(ledger) + 1 /\ Len(ledger) \in Nat
            BY <1>1
          <6> QED
            BY <1>8, <6>1, <6>2
        <5> QED
          BY <5>1, <5>2
      <4>2. CASE i = Len(accounts) + 1
        BY <1>1, <1>3, <1>4, <1>8, <1>9, <2>2, <4>2
      <4> QED
        BY <1>8, <1>9, <2>2, <4>1, <4>2
    <3>3. ASSUME NEW i \in 2 .. Len(accounts'), NEW s \in {accounts'[i].slot}
          PROVE  accounts'[i].writes = WritesOf(s)'
      <4>1. CASE i \in 2 .. Len(accounts)
        <5>1. i \in 1 .. Len(accounts) /\ accounts'[i] = accounts[i]
          BY <1>8, <1>9, <2>2, <4>1
        <5>2. accounts[i].writes = WritesOf(s) /\ s = Len(ledger) - Len(accounts) + i
          BY <3>3, <4>1, <5>1 DEF ReportInv
        <5>3. Len(accounts) <= Len(ledger) + 1
          BY DEF ReportInv
        <5>4. s \in Int /\ s <= Len(ledger) /\ s \in 1 .. s
          BY <1>1, <1>8, <4>1, <5>2, <5>3
        <5> QED
          BY <1>6, <5>1, <5>2, <5>4
      <4>2. CASE i = Len(accounts) + 1
        BY <1>4, <1>9, <2>2, <3>3, <4>2
      <4> QED
        BY <1>8, <1>9, <2>2, <4>1, <4>2
    <3>4. ASSUME NEW h \in {accounts'[1].slot}
          PROVE  \/ h \in 1 .. Len(ledger') /\ accounts'[1].writes \subseteq WritesOf(h)'
                 \/ /\ accounts'[1].writes \subseteq Snapshot(h)'.writes
                    /\ rooted' = h /\ stamping' = None /\ \A i \in 1 .. Len(txs') : txs'[i] > h
      <4>1. CASE accounts = <<>>
        <5>1. accounts'[1] = new /\ h = n
          BY <1>4, <1>9, <2>2, <3>4, <4>1, EmptySeq
        <5> QED
          BY <1>1, <1>3, <1>4, <5>1
      <4>2. CASE accounts # <<>>
        <5>1. h \in 0 .. Len(ledger) /\ accounts'[1] = accounts[1] /\ h = accounts[1].slot
          BY <1>9, <2>2, <3>4, <4>2, HeadReport
        <5>2. h \in Int /\ h <= Len(ledger) /\ (h \in 1 .. Len(ledger) => h \in 1 .. h)
          BY <1>1, <5>1
        <5>3. CASE h \in 1 .. Len(ledger) /\ accounts[1].writes \subseteq WritesOf(h)
          BY <1>1, <1>6, <5>1, <5>2, <5>3
        <5>4. CASE /\ accounts[1].writes \subseteq Snapshot(h).writes
                   /\ rooted = h /\ stamping = None /\ \A i \in 1 .. Len(txs) : txs[i] > h
          <6>1. ASSUME NEW i \in 1 .. Len(txs')
                PROVE  txs'[i] > h
            <7>1. n > h
              BY <1>1, <1>3, <5>1
            <7>2. i \in 1 .. Len(txs) \/ i = Len(txs) + 1
              BY <1>8, <1>10, <2>2
            <7> QED
              BY <1>10, <2>2, <5>4, <7>1, <7>2
          <6> QED
            BY <1>2, <1>6, <5>1, <5>2, <5>4, <6>1 DEF plugin
        <5> QED
          BY <4>2, <5>1, <5>3, <5>4 DEF ReportInv
      <4> QED
        BY <4>1, <4>2
    <3>5. loaded'
      BY <1>2, <2>2 DEF plugin
    <3> QED
      BY <3>1, <3>2, <3>3, <3>4, <3>5 DEF ReportInv
  <2> QED
    BY <2>1, <2>2
<1>13. \A e : Pending(e, Len(queue)) => Pending(e, Len(queue))'
  BY <1>2 DEF Pending, InTables, db
<1>14. ASSUME NEW m, NEW a \in RegisteredAt(m), Pending(DenominationAccount(a), Len(queue))
       PROVE  Pending(DenominationAccount(a), Len(queue))'
  <2>1. PICK x : x = DenominationAccount(a)
    OBVIOUS
  <2>2. Pending(x, Len(queue))'
    BY <1>13, <1>14, <2>1
  <2> QED
    BY <2>1, <2>2 DEF DenominationAccount
<1>15. SecureInv'
  <2>1. CASE ~loaded
    BY <1>2, <2>1 DEF SecureInv, plugin
  <2>2. CASE loaded /\ accounts = <<>>
    <3>1. accounts'[1] = new /\ accounts' # <<>> /\ new.slot = n /\ new.writes = WritesOf(n)'
      <4>1. Len(accounts) = 0
        BY <2>2, EmptySeq
      <4>2. Len(accounts') = 1 /\ accounts'[1] = new
        BY <1>9, <2>2, <4>1
      <4>3. accounts' # <<>>
        BY <4>2, EmptySeq
      <4> QED
        BY <1>4, <4>2, <4>3
    <3>2. Needed(n)' \subseteq Needed(n - 1)' \cup WritesOf(n)'
      <4>1. TypeOK' => NeededStep'
        BY NeededGrows, PTL
      <4>2. PICK m \in Nat : m = n - 1
        BY <1>3
      <4>3. Needed(m + 1)' \subseteq Needed(m)' \cup WritesOf(m + 1)'
        BY <1>1, <1>3, <1>11, <4>1, <4>2 DEF NeededStep
      <4>4. m + 1 = n
        BY <1>3, <4>2
      <4> QED
        BY <4>2, <4>3, <4>4
    <3>3. n - 1 \in Int /\ n - 1 <= Len(ledger) /\ n - 1 = Len(ledger)
      BY <1>1, <1>3
    <3>4. Needed(n - 1)' = Needed(n - 1) /\ RegisteredAt(n - 1)' = RegisteredAt(n - 1)
      BY <1>6, <3>3
    <3>5. \A e \in Needed(n - 1) : Pending(e, Len(queue))
      BY <2>2, <3>3 DEF SecureInv
    <3>6. \A a \in RegisteredAt(n - 1) : Pending(DenominationAccount(a), Len(queue))
      BY <3>5 DEF Needed
    <3>7. \A e \in Needed(n)' : Pending(e, Len(queue))' \/ e \in accounts'[1].writes
      BY <1>13, <3>1, <3>2, <3>4, <3>5
    <3>8. \A a \in RegisteredAt(n - 1)' : Pending(DenominationAccount(a), Len(queue))'
      BY <1>14, <3>4, <3>6
    <3> QED
      BY <3>1, <3>7, <3>8 DEF SecureInv
  <2>3. CASE loaded /\ accounts # <<>>
    <3>1. PICK h \in 0 .. Len(ledger) : h = accounts[1].slot
      BY <2>3, HeadReport
    <3>2. accounts'[1] = accounts[1] /\ accounts' # <<>>
      BY <1>8, <1>9, <2>3, HeadReport, EmptySeq
    <3>3. h \in Int /\ h <= Len(ledger) /\ h - 1 \in Int /\ h - 1 <= Len(ledger)
      BY <1>1, <3>1
    <3>4. Needed(h)' = Needed(h) /\ RegisteredAt(h - 1)' = RegisteredAt(h - 1)
      BY <1>6, <3>3
    <3>5. /\ \A e \in Needed(h) : Pending(e, Len(queue)) \/ e \in accounts[1].writes
          /\ \A a \in RegisteredAt(h - 1) : Pending(DenominationAccount(a), Len(queue))
      BY <2>3, <3>1 DEF SecureInv
    <3>6. /\ \A e \in Needed(h)' : Pending(e, Len(queue))' \/ e \in accounts'[1].writes
          /\ \A a \in RegisteredAt(h - 1)' : Pending(DenominationAccount(a), Len(queue))'
      BY <1>13, <1>14, <3>2, <3>4, <3>5
    <3> QED
      BY <3>1, <3>2, <3>6 DEF SecureInv
  <2> QED
    BY <2>1, <2>2, <2>3
<1>16. QueueInv'
  <2>1. ASSUME NEW i \in 1 .. Len(queue'), NEW e \in {queue'[i]}
        PROVE  Sound(e, i - 1)'
    <3>1. queue' = queue /\ lost \subseteq lost' /\ UNCHANGED db
      BY <1>2
    <3>2. Sound(e, i - 1)
      BY <2>1, <3>1 DEF QueueInv
    <3>3. i - 1 \in Nat /\ \A k \in 1 .. i - 1 : queue'[k] = queue[k]
      BY <3>1
    <3>4. Len(ledger') \in Nat /\ Len(ledger) <= Len(ledger')
      BY <1>1
    <3> QED
      BY <1>1, <3>1, <3>2, <3>3, <3>4, SoundStays
  <2> QED
    BY <2>1 DEF QueueInv
<1>17. ProgressInv'
  <2>1. PICK p \in 0 .. Len(ledger) : p = progress.last_slot /\ p = progress'.last_slot
    BY <1>2 DEF ProgressInv, db
  <2>2. p \in Int /\ p <= Len(ledger)
    BY <1>1, <2>1
  <2>3. SpentAt(p)' = SpentAt(p)
    BY <1>6, <2>2
  <2>4. \A s \in SpentAt(p) : ledger[s].denom \in everLost \/ s \in nullifiers
    BY <2>1 DEF ProgressInv, CheckpointCoversSpends
  <2>5. \A s \in SpentAt(p) : s \in 1 .. Len(ledger)
    BY <1>1, <2>2 DEF SpentAt
  <2>6. \A s \in SpentAt(p)' : ledger'[s].denom \in everLost' \/ s \in nullifiers'
    BY <1>1, <1>2, <2>3, <2>4, <2>5 DEF db
  <2>7. SpentAt(progress.last_slot)' = SpentAt(p)'
    BY <2>1 DEF SpentAt
  <2> QED
    BY <1>1, <2>1, <2>6, <2>7 DEF ProgressInv, CheckpointCoversSpends
<1> QED
  BY <1>1, <1>11, <1>12, <1>15, <1>16, <1>17

-----------------------------------------------------------------------------
(* Loading and unloading *)

LEMMA OnLoadInv ==
  ASSUME PluginInv, NEW n \in 0 .. Len(ledger), OnLoad(n)
  PROVE  PluginInv'
<1> USE DEF PluginInv
<1> DEFINE Later == [i \in 1 .. Len(ledger) - n |-> Report(n + i)]
           LaterTxs == [i \in 1 .. Len(ledger) - n |-> n + i]
<1>1. /\ loaded' = TRUE /\ leaf_index_cache' = [d \in Denoms |-> 0] /\ stamping' = None
      /\ queue' = <<>> /\ accounts' = <<Snapshot(n)>> \o Later /\ txs' = LaterTxs
      /\ rooted' = n /\ lost' = RegisteredAt(n) \ denominations
      /\ everLost' = everLost \cup lost' /\ UNCHANGED <<ledger, db, faults>>
  BY DEF OnLoad
<1>2. Len(ledger) \in Nat /\ n \in Nat /\ Len(ledger) - n \in Nat
  BY LedgerTypes DEF TypeOK
<1>3. Snapshot(n) \in [slot : Nat, writes : SUBSET AccountEvents] /\ Snapshot(n).slot = n
  <2>1. Snapshot(n).writes \subseteq AccountEvents
    BY SnapshotFaithful DEF Faithful
  <2>2. Snapshot(n) = [slot |-> n, writes |-> Snapshot(n).writes]
    BY DEF Snapshot
  <2>3. PICK w \in SUBSET AccountEvents : w = Snapshot(n).writes
    BY <2>1
  <2> QED
    BY <1>2, <2>2, <2>3
<1>4. ASSUME NEW i \in 1 .. Len(ledger) - n
      PROVE  /\ Report(n + i) \in [slot : Nat, writes : SUBSET AccountEvents]
             /\ Report(n + i).slot = n + i /\ Report(n + i).writes = WritesOf(n + i)
             /\ n + i \in 1 .. Len(ledger) /\ n + i \in Nat \ {0} /\ n + i > n
  <2>1. n + i \in 1 .. Len(ledger) /\ n + i \in Nat \ {0} /\ n + i > n
    BY <1>2
  <2>2. WritesOf(n + i) \subseteq AccountEvents
    BY <2>1, WritesFaithful DEF Faithful
  <2> QED
    BY <2>1, <2>2 DEF Report
<1>5. /\ Later \in Seq([slot : Nat, writes : SUBSET AccountEvents]) /\ Len(Later) = Len(ledger) - n
      /\ LaterTxs \in Seq(Nat \ {0}) /\ Len(LaterTxs) = Len(ledger) - n
  BY <1>2, <1>4, IsASeq, LenProperties
<1>6. /\ accounts' \in Seq([slot : Nat, writes : SUBSET AccountEvents])
      /\ Len(accounts') = Len(ledger) - n + 1 /\ accounts'[1] = Snapshot(n) /\ accounts' # <<>>
      /\ \A i \in 2 .. Len(ledger) - n + 1 : accounts'[i] = Report(n + i - 1)
  <2>1. PICK snapshot \in [slot : Nat, writes : SUBSET AccountEvents] : snapshot = Snapshot(n)
    BY <1>3
  <2>2. PICK later \in Seq([slot : Nat, writes : SUBSET AccountEvents]) :
          later = Later /\ Len(later) = Len(ledger) - n
    BY <1>5
  <2>3. accounts' = <<snapshot>> \o later
    BY <1>1, <2>1, <2>2
  <2>4. \A i \in 1 .. Len(ledger) - n : later[i] = Report(n + i)
    BY <2>2
  <2>5. <<snapshot>> \in Seq([slot : Nat, writes : SUBSET AccountEvents]) /\ Len(<<snapshot>>) = 1
        /\ <<snapshot>>[1] = snapshot
    OBVIOUS
  <2> HIDE DEF Later
  <2>6. /\ accounts' \in Seq([slot : Nat, writes : SUBSET AccountEvents])
        /\ Len(accounts') = Len(ledger) - n + 1 /\ accounts'[1] = snapshot
        /\ \A i \in 2 .. Len(ledger) - n + 1 : accounts'[i] = later[i - 1]
    BY <1>2, <2>2, <2>3, <2>5, ConcatProperties
  <2>7. ASSUME NEW i \in 2 .. Len(ledger) - n + 1
        PROVE  accounts'[i] = Report(n + i - 1)
    <3>1. i - 1 \in 1 .. Len(ledger) - n /\ n + (i - 1) = n + i - 1
      BY <1>2
    <3> QED
      BY <2>4, <2>6, <3>1
  <2>8. accounts' # <<>>
    BY <1>2, <2>6, EmptySeq
  <2> QED
    BY <2>1, <2>6, <2>7, <2>8
<1> HIDE DEF Later
<1>7. TypeOK'
  BY <1>1, <1>2, <1>5, <1>6 DEF TypeOK, db, None
<1>8. ReportInv'
  <2> PICK len \in Nat : len = Len(ledger) /\ len = Len(ledger') /\ Len(accounts') = len - n + 1
    BY <1>1, <1>2, <1>6
  <2>1. ASSUME NEW i \in 2 .. Len(accounts')
        PROVE  /\ accounts'[i].slot = Len(ledger') - Len(accounts') + i
               /\ \A s \in {accounts'[i].slot} : accounts'[i].writes = WritesOf(s)'
    <3>1. PICK k \in 1 .. Len(ledger) - n : k = i - 1
      BY <1>2, <1>6
    <3>2. accounts'[i] = Report(n + k)
      <4>1. n + i - 1 = n + k /\ i \in 2 .. Len(ledger) - n + 1
        BY <1>2, <1>6, <3>1
      <4> QED
        BY <1>6, <4>1
    <3>3. accounts'[i].slot = n + k /\ accounts'[i].writes = WritesOf(n + k)
      BY <1>4, <3>2
    <3>4. WritesOf(n + k)' = WritesOf(n + k)
      BY <1>1, LedgerViews
    <3>5. n + k = len - (len - n + 1) + i
      BY <1>2, <3>1
    <3> QED
      BY <3>3, <3>4, <3>5
  <2>2. accounts'[1].slot = Len(ledger') - Len(accounts') + 1
    <3>1. n = len - (len - n + 1) + 1
      BY <1>2
    <3> QED
      BY <1>3, <1>6, <3>1
  <2>3. ASSUME NEW i \in 1 .. Len(accounts')
        PROVE  accounts'[i].slot = Len(ledger') - Len(accounts') + i
    <3>1. i = 1 \/ i \in 2 .. Len(accounts')
      BY <1>2
    <3> QED
      BY <2>1, <2>2, <3>1
  <2>4. \A i \in 1 .. Len(txs') : txs'[i] > n
    BY <1>1, <1>2, <1>5
  <2>5. accounts'[1].writes \subseteq Snapshot(n)'.writes
    BY <1>1, <1>6, LedgerViews
  <2>6. Len(accounts') <= Len(ledger') + 1
    BY <1>1, <1>2, <1>6
  <2> QED
    BY <1>1, <1>3, <1>6, <2>1, <2>3, <2>4, <2>5, <2>6 DEF ReportInv
<1>9. SecureInv'
  <2>1. Needed(n)' = Needed(n) /\ RegisteredAt(n - 1)' = RegisteredAt(n - 1)
    BY <1>1, LedgerViews
  <2>2. \A e \in Needed(n)' : e \in accounts'[1].writes
    BY <1>6, <2>1, SnapshotComplete
  <2>3. ASSUME NEW d \in RegisteredAt(n - 1)'
        PROVE  Pending(DenominationAccount(d), Len(queue))'
    <3>1. d \in RegisteredAt(n)
      BY <1>2, <2>1, RegisteredStays
    <3> QED
      BY <1>1, <3>1 DEF Pending, InTables, DenominationAccount, db
  <2>4. accounts'[1].slot = n
    BY <1>3, <1>6
  <2> QED
    BY <1>6, <2>2, <2>3, <2>4 DEF SecureInv
<1>10. QueueInv'
  BY <1>1, EmptySeq DEF QueueInv
<1> QED
  BY <1>1, <1>7, <1>8, <1>9, <1>10, LedgerSame, ProgressSame DEF db

LEMMA OnUnloadInv ==
  ASSUME PluginInv, OnUnload
  PROVE  PluginInv'
<1> USE DEF PluginInv
<1>1. /\ loaded' = FALSE /\ accounts' = <<>> /\ txs' = <<>> /\ rooted' = 0
      /\ leaf_index_cache' = [d \in Denoms |-> 0] /\ stamping' = None
      /\ UNCHANGED <<ledger, queue, db, lost, everLost>>
  BY DEF OnUnload
<1>2. TypeOK'
  <2>1. /\ accounts' \in Seq([slot : Nat, writes : SUBSET AccountEvents])
        /\ txs' \in Seq(Nat \ {0})
    BY <1>1, EmptySeq
  <2> QED
    BY <1>1, <2>1 DEF TypeOK, db, None
<1>3. Len(accounts') = 0 /\ Len(ledger) \in Nat
  BY <1>1, EmptySeq, LedgerTypes DEF TypeOK
<1>4. ReportInv' /\ SecureInv'
  BY <1>1, <1>3 DEF ReportInv, SecureInv
<1>5. QueueInv'
  BY <1>1, QueueSame
<1> QED
  BY <1>1, <1>2, <1>4, <1>5, LedgerSame, ProgressSame DEF db

-----------------------------------------------------------------------------
(* Theorems *)

LEMMA PluginInit == Init => PluginInv
<1> SUFFICES ASSUME Init PROVE PluginInv
  OBVIOUS
<1>1. Len(ledger) = 0 /\ Len(accounts) = 0 /\ Len(queue) = 0
  BY EmptySeq DEF Init
<1>2. TypeOK
  <2>1. /\ <<>> \in Seq([op : Ops, denom : Denoms])
        /\ <<>> \in Seq([slot : Nat, writes : SUBSET AccountEvents])
        /\ <<>> \in Seq(Nat \ {0}) /\ <<>> \in Seq(Events)
    BY EmptySeq
  <2>2. roots \in [Denoms -> SUBSET (Nat \X Slots)] /\ leaf_index_cache \in [Denoms -> Nat]
    BY DEF Init
  <2>3. progress \in [last_slot : Nat, last_signature : Nat]
    BY DEF Init, None
  <2> QED
    BY <2>1, <2>2, <2>3 DEF Init, TypeOK, None
<1>3. LedgerInv /\ ReportInv /\ SecureInv /\ QueueInv
  BY <1>1 DEF Init, LedgerInv, ReportInv, SecureInv, QueueInv
<1>4. ProgressInv
  BY <1>1 DEF Init, ProgressInv, CheckpointCoversSpends, SpentAt
<1> QED
  BY <1>2, <1>3, <1>4 DEF PluginInv

LEMMA PluginStep ==
  ASSUME PluginInv, [Next]_vars
  PROVE  PluginInv'
<1>1. CASE UNCHANGED vars
  <2>1. UNCHANGED <<ledger, accounts, txs, rooted, loaded, leaf_index_cache, stamping, queue, db, lost, everLost>>
    BY <1>1 DEF vars, validator, plugin
  <2>2. TypeOK'
    BY <2>1 DEF PluginInv, TypeOK, db
  <2>3. QueueInv'
    BY <2>1, QueueSame DEF PluginInv
  <2>4. \A e : Pending(e, Len(queue)) => Pending(e, Len(queue))'
    BY <2>1 DEF Pending, InTables, db
  <2>5. ReportInv'
    BY <2>1, ReportUntouched DEF PluginInv, validator, plugin
  <2> QED
    BY <2>1, <2>2, <2>3, <2>4, <2>5, LedgerSame, SecureSame, ProgressSame DEF PluginInv, db
<1>2. CASE \E op \in {"register", "deposit", "withdraw", "failed"}, d \in Denoms :
             Land([op |-> op, denom |-> d])
  BY <1>2, LandInv DEF Ops
<1>3. CASE Callback
  BY <1>3, UpdateAccountInv, NothingToReportInv, NotifyDepositInv, StampSignatureInv,
     NotifyOtherInv, SlotRootedInv DEF Callback
<1>4. CASE WriteEvent \/ WriteFails \/ OnUnload
  BY <1>4, WriteEventInv, WriteFailsInv, OnUnloadInv
<1>5. CASE \E n \in 0 .. Len(ledger) : OnLoad(n)
  BY <1>5, OnLoadInv
<1> QED
  BY <1>1, <1>2, <1>3, <1>4, <1>5 DEF Next

\* The events of the plugin are in order: every event the tables need is stored,
\* in the queue before what relies on it, yet to be reported, or counted as lost
\* (update_account, enqueue, run_worker).
THEOREM EventsInOrder == Spec => []PluginInv
<1>1. PluginInv /\ [Next]_vars => PluginInv'
  BY PluginStep
<1> QED
  BY <1>1, PluginInit, PTL DEF Spec

\* The checkpoint never runs ahead of the nullifiers, through crashes, full queues
\* and failed writes (update_slot_status and the order of the queue).
THEOREM CheckpointBehind == Spec => []CheckpointCoversSpends
<1>1. PluginInv => CheckpointCoversSpends
  BY DEF PluginInv, ProgressInv
<1> QED
  BY <1>1, EventsInOrder, PTL

\* Once everything reported is written, the latest root and every nullifier of
\* every tier that lost no event is stored (update_account, run_worker).
THEOREM TablesComplete == Spec => []AccountTablesComplete
<1>1. PluginInv => AccountTablesComplete
  <2> SUFFICES ASSUME PluginInv, Drained, NEW d \in RegisteredAt(Len(ledger)) \ lost
               PROVE  /\ LeavesAt(Len(ledger), d) # {} =>
                           <<Cardinality(LeavesAt(Len(ledger), d)), LeavesAt(Len(ledger), d)>> \in roots[d]
                      /\ {s \in SpentAt(Len(ledger)) : ledger[s].denom = d} \subseteq nullifiers
    BY DEF AccountTablesComplete
  <2>1. loaded /\ accounts = <<>> /\ Len(queue) = 0
    BY EmptySeq DEF Drained
  <2>2. \A e \in Needed(Len(ledger)) : e.denom \in lost \/ InTables(e)
    BY <2>1 DEF PluginInv, SecureInv, Pending
  <2>3. ASSUME LeavesAt(Len(ledger), d) # {}
        PROVE  <<Cardinality(LeavesAt(Len(ledger), d)), LeavesAt(Len(ledger), d)>> \in roots[d]
    <3>1. MerkleTree(d, Len(ledger)) \in Needed(Len(ledger))
      BY <2>3 DEF Needed
    <3> QED
      BY <2>2, <3>1 DEF InTables, MerkleTree
  <2>4. ASSUME NEW s \in SpentAt(Len(ledger)), ledger[s].denom = d
        PROVE  s \in nullifiers
    <3>1. NullifierRecord(s) \in Needed(Len(ledger))
      BY DEF Needed
    <3> QED
      BY <2>2, <2>4, <3>1 DEF InTables, NullifierRecord
  <2> QED
    BY <2>3, <2>4
<1> QED
  BY <1>1, EventsInOrder, PTL

-----------------------------------------------------------------------------
(* Catching up ends *)

\* Callbacks still to be made for the ledger as it is, the accounts of the slot
\* at the head aside: two for a transaction that may be a deposit, one for a slot
\* to be rooted.
CallsLeft == 2 * Len(txs) + (IF stamping = None THEN 0 ELSE 1) + (Len(ledger) - rooted)
AccountsLeft == IF accounts = <<>> THEN 0 ELSE Cardinality(accounts[1].writes)

\* What is left to do, most significant first: slots whose accounts are to be
\* reported; callbacks, each of which may queue an event; events to be written.
Backlog == <<Len(accounts), AccountsLeft + CallsLeft, Len(queue)>>

LEMMA AccountsFinite ==
  ASSUME NEW n \in Int
  PROVE  IsFiniteSet(WritesOf(n)) /\ IsFiniteSet(Snapshot(n).writes)
<1>1. IsFiniteSet(WritesOf(n))
  <2> DEFINE d == ledger[n].denom
             all == {DenominationAccount(d), MerkleTree(d, n), NullifierRecord(n)}
  <2>1. WritesOf(n) \subseteq all
    BY DEF WritesOf
  <2>2. IsFiniteSet(all)
    <3>1. IsFiniteSet({DenominationAccount(d)})
      BY FS_Singleton
    <3>2. IsFiniteSet({DenominationAccount(d)} \cup {MerkleTree(d, n)})
      BY <3>1, FS_AddElement
    <3>3. IsFiniteSet(({DenominationAccount(d)} \cup {MerkleTree(d, n)}) \cup {NullifierRecord(n)})
      BY <3>2, FS_AddElement
    <3>4. all = ({DenominationAccount(d)} \cup {MerkleTree(d, n)}) \cup {NullifierRecord(n)}
      OBVIOUS
    <3> QED
      BY <3>3, <3>4
  <2> HIDE DEF all
  <2> QED
    BY <2>1, <2>2, FS_Subset
<1>2. IsFiniteSet(1 .. n)
  BY FS_Interval
<1>3. IsFiniteSet(RegisteredAt(n))
  <2> DEFINE slots == {s \in 1 .. n : ledger[s].op = "register"}
             denomOf == [s \in slots |-> ledger[s].denom]
  <2>1. IsFiniteSet(slots)
    <3>1. slots \subseteq 1 .. n
      OBVIOUS
    <3> QED
      BY <1>2, <3>1, FS_Subset
  <2>2. RegisteredAt(n) = {denomOf[s] : s \in slots}
    BY DEF RegisteredAt
  <2> HIDE DEF denomOf, slots
  <2> QED
    BY <2>1, <2>2, FiniteImage
<1>4. IsFiniteSet(SpentAt(n))
  <2>1. SpentAt(n) \subseteq 1 .. n
    BY DEF SpentAt
  <2> QED
    BY <1>2, <2>1, FS_Subset
<1> DEFINE tier == [d \in RegisteredAt(n) |-> DenominationAccount(d)]
           treeOf == [d \in RegisteredAt(n) |-> MerkleTree(d, n)]
           record == [s \in SpentAt(n) |-> NullifierRecord(s)]
           tiers == {tier[d] : d \in RegisteredAt(n)}
           trees == {treeOf[d] : d \in RegisteredAt(n)}
           records == {record[s] : s \in SpentAt(n)}
<1>5. \A e \in Snapshot(n).writes : e \in tiers \/ e \in trees \/ e \in records
  BY SnapshotWrites
<1>6. IsFiniteSet(tiers) /\ IsFiniteSet(trees) /\ IsFiniteSet(records)
  <2> HIDE DEF tier, treeOf, record
  <2> QED
    BY <1>3, <1>4, FiniteImage
<1> HIDE DEF tiers, trees, records
<1>7. IsFiniteSet((tiers \cup trees) \cup records)
  BY <1>6, FS_Union
<1>8. Snapshot(n).writes \subseteq (tiers \cup trees) \cup records
  BY <1>5
<1>9. IsFiniteSet(Snapshot(n).writes)
  BY <1>7, <1>8, FS_Subset
<1> QED
  BY <1>1, <1>9

LEMMA HeadFinite ==
  ASSUME TypeOK, LedgerInv, ReportInv, accounts # <<>>
  PROVE  IsFiniteSet(accounts[1].writes) /\ Cardinality(accounts[1].writes) \in Nat
<1>1. accounts[1].slot \in Int
  BY HeadReport
<1>2. \/ accounts[1].writes \subseteq WritesOf(accounts[1].slot)
      \/ accounts[1].writes \subseteq Snapshot(accounts[1].slot).writes
  BY DEF ReportInv
<1>3. IsFiniteSet(accounts[1].writes)
  BY <1>1, <1>2, AccountsFinite, FS_Subset
<1> QED
  BY <1>3, FS_CardinalityType

\* No slot is rooted that the ledger does not have.
RootedInv == rooted <= Len(ledger)

LEMMA RootedStep ==
  ASSUME TypeOK, LedgerInv, ReportInv, RootedInv, [Next]_vars
  PROVE  RootedInv'
<1>0. rooted \in Nat /\ Len(ledger) \in Nat
  BY LedgerTypes DEF TypeOK
<1>1. CASE \E op \in {"register", "deposit", "withdraw", "failed"}, d \in Denoms :
             Land([op |-> op, denom |-> d])
  <2>1. PICK tx : ledger' = Append(ledger, tx) /\ UNCHANGED rooted
    BY <1>1 DEF Land
  <2>2. Len(ledger') = Len(ledger) + 1
    BY <2>1, AppendProperties DEF TypeOK
  <2> QED
    BY <1>0, <2>1, <2>2 DEF RootedInv
<1>2. CASE SlotRooted
  <2>1. rooted < Reported /\ rooted' = rooted + 1 /\ UNCHANGED ledger
    BY <1>2 DEF SlotRooted
  <2>2. Reported \in Int /\ Reported <= Len(ledger)
    <3>1. CASE accounts = <<>>
      BY <1>0, <3>1 DEF Reported
    <3>2. CASE accounts # <<>>
      BY <1>0, <3>2, HeadReport
    <3> QED
      BY <3>1, <3>2
  <2> QED
    BY <1>0, <2>1, <2>2 DEF RootedInv
<1>3. CASE \E n \in 0 .. Len(ledger) : OnLoad(n)
  BY <1>0, <1>3 DEF OnLoad, RootedInv
<1>4. CASE OnUnload
  BY <1>0, <1>4 DEF OnUnload, RootedInv
<1>5. CASE UNCHANGED <<ledger, rooted>>
  BY <1>5 DEF RootedInv
<1>6. (\E w : UpdateAccount(w)) \/ NothingToReport \/ NotifyDeposit \/ StampSignature \/ NotifyOther
        \/ WriteEvent \/ WriteFails \/ UNCHANGED vars
      => UNCHANGED <<ledger, rooted>>
  BY DEF UpdateAccount, NothingToReport, NotifyDeposit, StampSignature, NotifyOther, WriteEvent,
         WriteFails, vars, validator
<1> QED
  BY <1>1, <1>2, <1>3, <1>4, <1>5, <1>6 DEF Next, Callback

BacklogTyped ==
  /\ Len(accounts) \in Nat /\ AccountsLeft \in Nat /\ CallsLeft \in Nat /\ Len(queue) \in Nat
  /\ Len(txs) \in Nat /\ Len(ledger) \in Nat /\ rooted \in Nat

LEMMA BacklogTypes == TypeOK /\ LedgerInv /\ ReportInv /\ RootedInv => BacklogTyped
<1> SUFFICES ASSUME TypeOK, LedgerInv, ReportInv, RootedInv PROVE BacklogTyped
  OBVIOUS
<1>1. /\ Len(accounts) \in Nat /\ Len(queue) \in Nat /\ Len(txs) \in Nat /\ Len(ledger) \in Nat
      /\ rooted \in Nat
  BY LenProperties, LedgerTypes DEF TypeOK
<1>2. AccountsLeft \in Nat
  BY HeadFinite DEF AccountsLeft
<1>3. CallsLeft \in Nat
  BY <1>1 DEF CallsLeft, RootedInv
<1> QED
  BY <1>1, <1>2, <1>3 DEF BacklogTyped

\* The accounts of the slot at the head are one fewer, or there is one slot fewer.
LEMMA ReportingShrinks ==
  ASSUME TypeOK, LedgerInv, ReportInv, NEW w, Reporting(w)
  PROVE  \/ Len(accounts') < Len(accounts)
         \/ Len(accounts') = Len(accounts) /\ AccountsLeft' < AccountsLeft
<1>1. /\ accounts # <<>> /\ w \in accounts[1].writes /\ Len(accounts) \in Nat \ {0}
      /\ accounts' = IF accounts[1].writes = {w} THEN Tail(accounts)
                     ELSE [accounts EXCEPT ![1].writes = @ \ {w}]
  BY HeadReport DEF Reporting
<1>2. accounts \in Seq([slot : Nat, writes : SUBSET AccountEvents])
  BY DEF TypeOK
<1>3. CASE accounts[1].writes = {w}
  <2>1. Len(Tail(accounts)) = Len(accounts) - 1
    BY <1>1, <1>2, HeadTailProperties
  <2>2. Len(accounts') = Len(accounts) - 1
    BY <1>1, <1>3, <2>1
  <2>3. Len(accounts) \in Nat
    BY <1>1
  <2> QED
    BY <2>2, <2>3
<1>4. CASE accounts[1].writes # {w}
  <2>1. accounts[1] \in [slot : Nat, writes : SUBSET AccountEvents]
    BY <1>1, HeadReport
  <2>2. PICK first : first = [accounts[1] EXCEPT !.writes = @ \ {w}]
    OBVIOUS
  <2>7. first \in [slot : Nat, writes : SUBSET AccountEvents]
        /\ first.writes = accounts[1].writes \ {w}
    BY <2>1, <2>2
  <2>3. accounts' = [accounts EXCEPT ![1] = first]
    BY <1>1, <1>4, <2>2
  <2>4. Len(accounts') = Len(accounts) /\ accounts' # <<>> /\ accounts'[1] = first
    <3>1. 1 \in 1 .. Len(accounts) /\ DOMAIN accounts = 1 .. Len(accounts)
      BY <1>1, <1>2, LenProperties
    <3>2. Len(accounts') = Len(accounts) /\ accounts'[1] = first
      BY <1>2, <2>3, <2>7, <3>1, ExceptSeq
    <3> QED
      BY <1>1, <3>2, EmptySeq
  <2>5. AccountsLeft = Cardinality(accounts[1].writes)
        /\ AccountsLeft' = Cardinality(accounts[1].writes \ {w})
    BY <1>1, <2>4, <2>7 DEF AccountsLeft
  <2>6. Cardinality(accounts[1].writes \ {w}) = Cardinality(accounts[1].writes) - 1
        /\ Cardinality(accounts[1].writes) \in Nat
    BY <1>1, HeadFinite, FS_RemoveElement
  <2> QED
    BY <2>4, <2>5, <2>6
<1> QED
  BY <1>3, <1>4

\* A step that neither adds to the ledger nor loads or unloads the plugin leaves
\* less to do.
LEMMA BacklogStep ==
  ASSUME TypeOK, LedgerInv, ReportInv, BacklogTyped, BacklogTyped', Next,
         UNCHANGED <<ledger, loaded>>
  PROVE  Below(Backlog', Backlog)
<1>0. AccountsLeft \in Nat /\ AccountsLeft' \in Nat /\ CallsLeft \in Nat /\ CallsLeft' \in Nat
  BY DEF BacklogTyped
<1> DEFINE OneLess == \/ AccountsLeft' < AccountsLeft /\ CallsLeft' = CallsLeft
                      \/ AccountsLeft' = AccountsLeft /\ CallsLeft' < CallsLeft
<1>sum. OneLess => AccountsLeft' + CallsLeft' < AccountsLeft + CallsLeft
  <2>1. ASSUME NEW a \in Nat, NEW b \in Nat, NEW c \in Nat, NEW d \in Nat,
               (a < b /\ c = d) \/ (a = b /\ c < d)
        PROVE  a + c < b + d
    BY <2>1
  <2> QED
    BY <1>0, <2>1, Zenon
<1>1. ASSUME \/ Len(accounts') < Len(accounts)
             \/ Len(accounts') = Len(accounts) /\ AccountsLeft' + CallsLeft' < AccountsLeft + CallsLeft
             \/ UNCHANGED <<accounts, txs, stamping, rooted>> /\ Len(queue') < Len(queue)
      PROVE  Below(Backlog', Backlog)
  <2>1. CASE UNCHANGED <<accounts, txs, stamping, rooted>> /\ Len(queue') < Len(queue)
    <3>1. AccountsLeft' = AccountsLeft /\ CallsLeft' = CallsLeft
      BY <2>1 DEF AccountsLeft, CallsLeft
    <3> QED
      BY <2>1, <3>1 DEF Below, Backlog
  <2>2. CASE Len(accounts') = Len(accounts)
             /\ AccountsLeft' + CallsLeft' < AccountsLeft + CallsLeft
    BY <2>2 DEF Below, Backlog
  <2>3. CASE Len(accounts') < Len(accounts)
    BY <2>3 DEF Below, Backlog
  <2> QED
    BY <1>1, <2>1, <2>2, <2>3
<1>2. ASSUME UNCHANGED accounts, CallsLeft' < CallsLeft
      PROVE  Below(Backlog', Backlog)
  <2>1. AccountsLeft' = AccountsLeft
    BY <1>2 DEF AccountsLeft
  <2>2. AccountsLeft' + CallsLeft' < AccountsLeft + CallsLeft
    BY <1>2, <1>sum, <2>1
  <2> QED
    BY <1>1, <1>2, <2>2
<1>3. ASSUME NEW w, UpdateAccount(w) PROVE Below(Backlog', Backlog)
  <2>1. Reporting(w) /\ UNCHANGED <<txs, stamping, rooted>>
    BY <1>3 DEF UpdateAccount
  <2>2. CallsLeft' = CallsLeft
    BY <2>1 DEF CallsLeft
  <2>3. AccountsLeft' < AccountsLeft => AccountsLeft' + CallsLeft' < AccountsLeft + CallsLeft
    BY <1>sum, <2>2
  <2> QED
    BY <1>1, <2>1, <2>3, ReportingShrinks
<1>4. CASE NothingToReport
  <2>1. accounts \in Seq([slot : Nat, writes : SUBSET AccountEvents]) /\ accounts # <<>>
        /\ accounts' = Tail(accounts)
    BY <1>4 DEF NothingToReport, TypeOK
  <2>2. Len(accounts') = Len(accounts) - 1 /\ Len(accounts) \in Nat
    BY <2>1, HeadTailProperties DEF BacklogTyped
  <2> QED
    BY <1>1, <2>2
<1>5. ASSUME Notified PROVE Len(txs') = Len(txs) - 1 /\ stamping = None
  BY <1>5, HeadTailProperties DEF Notified, TypeOK
<1>6. CASE NotifyDeposit
  <2>1. Notified /\ UNCHANGED <<accounts, rooted>>
    BY <1>6 DEF NotifyDeposit
  <2>2. CallsLeft = 2 * Len(txs) + (Len(ledger) - rooted)
        /\ CallsLeft' <= 2 * (Len(txs) - 1) + 1 + (Len(ledger) - rooted)
    BY <1>5, <2>1 DEF CallsLeft, BacklogTyped
  <2> QED
    BY <1>2, <2>1, <2>2 DEF BacklogTyped
<1>7. CASE NotifyOther
  <2>1. Notified /\ UNCHANGED <<accounts, rooted, stamping>>
    BY <1>7 DEF NotifyOther, plugin
  <2>2. CallsLeft = 2 * Len(txs) + (Len(ledger) - rooted)
        /\ CallsLeft' = 2 * (Len(txs) - 1) + (Len(ledger) - rooted)
    BY <1>5, <2>1 DEF CallsLeft, BacklogTyped
  <2> QED
    BY <1>2, <2>1, <2>2 DEF BacklogTyped
<1>8. CASE StampSignature
  <2>1. stamping # None /\ stamping' = None /\ UNCHANGED <<accounts, rooted, txs>>
    BY <1>8 DEF StampSignature, validator
  <2>2. CallsLeft = 2 * Len(txs) + 1 + (Len(ledger) - rooted)
        /\ CallsLeft' = 2 * Len(txs) + (Len(ledger) - rooted)
    BY <2>1 DEF CallsLeft, BacklogTyped
  <2> QED
    BY <1>2, <2>1, <2>2 DEF BacklogTyped
<1>9. CASE SlotRooted
  <2>1. rooted' = rooted + 1 /\ UNCHANGED <<accounts, txs, stamping>>
    BY <1>9 DEF SlotRooted, plugin
  <2>2. CallsLeft' = CallsLeft - 1
    BY <2>1 DEF CallsLeft, BacklogTyped
  <2> QED
    BY <1>2, <2>1, <2>2 DEF BacklogTyped
<1>10. CASE WriteEvent \/ WriteFails
  <2>1. queue # <<>> /\ queue' = Tail(queue) /\ UNCHANGED <<accounts, txs, stamping, rooted>>
    BY <1>10 DEF WriteEvent, WriteFails, validator, plugin
  <2>2. Len(queue') = Len(queue) - 1
    BY <2>1, HeadTailProperties DEF TypeOK
  <2>3. Len(queue') < Len(queue)
    BY <2>2 DEF BacklogTyped
  <2> QED
    BY <1>1, <2>1, <2>3
<1>11. ASSUME NEW tx, Land(tx) PROVE FALSE
  <2>1. ledger' = Append(ledger, tx)
    BY <1>11 DEF Land
  <2>2. Len(ledger') = Len(ledger) + 1
    BY <2>1, AppendProperties DEF TypeOK
  <2> QED
    BY <2>2 DEF BacklogTyped
<1>12. ~OnUnload /\ ~(\E n \in 0 .. Len(ledger) : OnLoad(n))
  BY DEF OnUnload, OnLoad
<1> QED
  BY <1>3, <1>4, <1>6, <1>7, <1>8, <1>9, <1>10, <1>11, <1>12 DEF Next, Callback

\* While the ledger pauses and the plugin stays loaded, every callback and every
\* write, done, refused, dropped or failed, leaves less to do in the order
\* LexTriples, in which nothing can go down for ever (LexWellFounded): the plugin
\* reaches the moment of which AccountTablesComplete speaks, and neither a full
\* queue nor a write that fails makes work for it.  This is what SpendsAreIndexed
\* needs besides fairness (enqueue, run_worker, which puts nothing back).
THEOREM CatchingUpEnds ==
  Spec => [][UNCHANGED <<ledger, loaded>> => <<Backlog', Backlog>> \in LexTriples]_vars
<1> DEFINE Inv == PluginInv /\ RootedInv
           Shrinks == UNCHANGED <<ledger, loaded>> => <<Backlog', Backlog>> \in LexTriples
<1>1. Init => Inv
  <2>1. Init => RootedInv
    BY EmptySeq DEF Init, RootedInv
  <2> QED
    BY <2>1, PluginInit
<1>2. Inv /\ [Next]_vars => Inv'
  BY PluginStep, RootedStep DEF PluginInv
<1>3. Inv => BacklogTyped /\ Backlog \in Triples
  <2>1. Inv => BacklogTyped
    BY BacklogTypes DEF PluginInv
  <2>2. BacklogTyped => Backlog \in Triples
    BY DEF BacklogTyped, Backlog, Triples
  <2> QED
    BY <2>1, <2>2
<1>4. Inv' => BacklogTyped' /\ (Backlog \in Triples)'
  BY <1>3, PTL
<1>5. Inv /\ [Next]_vars => [Shrinks]_vars
  <2> SUFFICES ASSUME Inv, Next, UNCHANGED <<ledger, loaded>>
               PROVE  <<Backlog', Backlog>> \in LexTriples
    OBVIOUS
  <2>1. /\ BacklogTyped /\ BacklogTyped'
        /\ Backlog \in Triples /\ Backlog' \in Triples
    BY <1>2, <1>3, <1>4
  <2>2. Below(Backlog', Backlog)
    BY <2>1, BacklogStep DEF PluginInv
  <2> QED
    BY <2>1, <2>2 DEF LexTriples
<1> QED
  BY <1>1, <1>2, <1>5, PTL DEF Spec
=============================================================================
