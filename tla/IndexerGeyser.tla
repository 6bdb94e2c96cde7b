--------------------------- MODULE IndexerGeyser ----------------------------
(***************************************************************************)
(* The Geyser plugin of qietr-indexer.  The validator calls it back for     *)
(* every account write, every transaction and every rooted slot; it puts    *)
(* write events on a bounded queue, and a worker thread writes them to      *)
(* Postgres, each at most once.                                             *)
(*                                                                          *)
(* The validator is external.  It has one transaction per slot; account     *)
(* writes and transactions reach the plugin on two threads, each in ledger  *)
(* order; the writes of one transaction come in any order, and the          *)
(* transaction itself some time after them, as the validator that Cargo.toml *)
(* pins does it.  A validator that starts first reports every account as it  *)
(* is in some snapshot and then replays the slots after it.  Forks are left  *)
(* out: the plugin's README excludes them.                                  *)
(*                                                                          *)
(* A leaf and a nullifier are named by the slot that created them, so the   *)
(* leaves of a tree are a set of slots, and a leaf's index is the number of  *)
(* leaves of earlier slots.  A root stands for the leaves it is the root of. *)
(***************************************************************************)
EXTENDS Integers, Sequences, FiniteSets

CONSTANTS
  Denoms,
  QUEUE_CAPACITY,
  FailedTxs,              \* deposits that fail are on the ledger too
  MaxTxs, MaxFaults       \* bounds of what is explored

ASSUME GeyserConstants ==
  /\ QUEUE_CAPACITY \in Nat \ {0}
  /\ {MaxTxs, MaxFaults} \subseteq Nat
  /\ FailedTxs \in BOOLEAN

VARIABLES
  ledger,       \* external: the pool's transactions, one per slot
  accounts,     \* external: account writes to report, a set of them per slot
  txs,          \* external: slots whose transaction is to be reported
  rooted,       \* external: the last slot reported as rooted
  loaded,       \* the plugin has a writer
  leaf_index_cache,
  stamping,     \* the deposit whose second event notify_transaction is yet to queue
  queue,
  denominations, roots, nullifiers, commitments, progress,   \* Postgres
  faults,       \* unloads and failed writes so far
  lost,         \* history: denominations whose events were not all stored since the load
  everLost      \* history: the same since the beginning

validator == <<ledger, accounts, txs, rooted>>
plugin == <<loaded, leaf_index_cache, stamping>>
db == <<denominations, roots, nullifiers, commitments, progress>>
vars == <<validator, plugin, queue, db, faults, lost, everLost>>

-----------------------------------------------------------------------------
(* What the ledger says after its first n slots *)

None == 0
Appends(slot, d) ==
  ledger[slot].denom = d /\ ledger[slot].op \in {"deposit", "withdraw"}
LeavesAt(n, d) == {slot \in 1 .. n : Appends(slot, d)}
RegisteredAt(n) == {ledger[slot].denom : slot \in {s \in 1 .. n : ledger[s].op = "register"}}
SpentAt(n) == {slot \in 1 .. n : ledger[slot].op = "withdraw"}

DenominationAccount(d) == [kind |-> "Denomination", denom |-> d]
MerkleTree(d, n) == [kind |-> "MerkleTree", denom |-> d, leaves |-> LeavesAt(n, d)]
NullifierRecord(slot) ==
  [kind |-> "NullifierRecord", denom |-> ledger[slot].denom, nullifier |-> slot]

\* The accounts of the program that a transaction of the ledger wrote.
WritesOf(slot) ==
  LET tx == ledger[slot] IN
  CASE tx.op \in {"register", "deposit"} ->
         {DenominationAccount(tx.denom), MerkleTree(tx.denom, slot)}
    [] tx.op = "withdraw" -> {MerkleTree(tx.denom, slot), NullifierRecord(slot)}
    [] OTHER -> {}
Report(slot) == [slot |-> slot, writes |-> WritesOf(slot)]
Snapshot(n) ==
  [slot |-> n,
   writes |-> (UNION {{DenominationAccount(d), MerkleTree(d, n)} : d \in RegisteredAt(n)})
              \cup {NullifierRecord(slot) : slot \in SpentAt(n)}]

\* The last slot all of whose account writes have been reported.
Reported == IF accounts = <<>> THEN Len(ledger) ELSE Head(accounts).slot - 1

Init ==
  /\ ledger = <<>> /\ accounts = <<>> /\ txs = <<>> /\ rooted = 0
  /\ loaded = FALSE /\ leaf_index_cache = [d \in Denoms |-> 0] /\ stamping = None
  /\ queue = <<>>
  /\ denominations = {} /\ roots = [d \in Denoms |-> {}] /\ nullifiers = {}
  /\ commitments = {} /\ progress = [last_slot |-> 0, last_signature |-> None]
  /\ faults = 0 /\ lost = {} /\ everLost = {}

\* A program never accepts a withdraw without an unspent tier note.
Legal(tx) ==
  LET Count(op) == Cardinality({s \in DOMAIN ledger : ledger[s] = [op |-> op, denom |-> tx.denom]})
  IN CASE tx.op = "register" -> tx.denom \notin RegisteredAt(Len(ledger))
       [] tx.op = "deposit" -> tx.denom \in RegisteredAt(Len(ledger))
       [] tx.op = "withdraw" -> Count("withdraw") < Count("deposit")
       [] tx.op = "failed" -> FailedTxs /\ tx.denom \in RegisteredAt(Len(ledger))

Land(tx) ==
  /\ Len(ledger) < MaxTxs /\ Legal(tx)
  /\ ledger' = Append(ledger, tx)
  /\ IF loaded
     THEN /\ accounts' = Append(accounts, Report(Len(ledger))')
          /\ txs' = Append(txs, Len(ledger'))
     ELSE UNCHANGED <<accounts, txs>>
  /\ UNCHANGED <<rooted, plugin, queue, db, faults, lost, everLost>>

-----------------------------------------------------------------------------
(* The queue *)

\* try_send: an event that finds the queue full is dropped.
Enqueue(event, d) ==
  IF Len(queue) < QUEUE_CAPACITY
  THEN queue' = Append(queue, event) /\ UNCHANGED <<lost, everLost>>
  ELSE UNCHANGED queue /\ lost' = lost \cup d /\ everLost' = everLost \cup d

-----------------------------------------------------------------------------
(* Callbacks *)

\* The account write w of the slot now being reported has been reported.
Reporting(w) ==
  /\ loaded /\ accounts # <<>>
  /\ w \in Head(accounts).writes
  /\ accounts' = IF Head(accounts).writes = {w} THEN Tail(accounts)
                 ELSE [accounts EXCEPT ![1].writes = @ \ {w}]

\* A slot that wrote no account of the program has nothing to report.
NothingToReport ==
  /\ loaded /\ accounts # <<>> /\ Head(accounts).writes = {}
  /\ accounts' = Tail(accounts)
  /\ UNCHANGED <<ledger, txs, rooted, plugin, queue, db, faults, lost, everLost>>

\* Mutant. Only an account the plugin has seen change is stored, not one of a snapshot.
UpdateAccount_noStartup(w) ==
  /\ Reporting(w)
  /\ IF w.kind = "MerkleTree"
     THEN leaf_index_cache' = [leaf_index_cache EXCEPT ![w.denom] = Cardinality(w.leaves)]
     ELSE UNCHANGED leaf_index_cache
  /\ IF Head(accounts).writes \subseteq WritesOf(Head(accounts).slot)
     THEN Enqueue(w, {w.denom}) ELSE UNCHANGED <<queue, lost, everLost>>
  /\ UNCHANGED <<ledger, txs, rooted, loaded, stamping, db, faults>>

\* update_account.  A tree account also sets the cache.
UpdateAccount(w) ==
  /\ Reporting(w)
  /\ IF w.kind = "MerkleTree"
     THEN leaf_index_cache' = [leaf_index_cache EXCEPT ![w.denom] = Cardinality(w.leaves)]
     ELSE UNCHANGED leaf_index_cache
  /\ Enqueue(w, {w.denom})
  /\ UNCHANGED <<ledger, txs, rooted, loaded, stamping, db, faults>>

\* notify_transaction is called for the next transaction.
Notified ==
  /\ loaded /\ stamping = None /\ txs # <<>> /\ Head(txs) <= Reported
  /\ txs' = Tail(txs)

\* notify_transaction, a deposit: the index is taken from the cache, which is
\* incremented.  Whether the transaction succeeded is not looked at.
NotifyDeposit ==
  /\ Notified
  /\ LET slot == Head(txs)  d == ledger[slot].denom IN
       /\ ledger[slot].op \in {"deposit", "failed"}
       /\ Enqueue([kind |-> "InsertCommitment", denom |-> d,
                   leaf_index |-> leaf_index_cache[d], leaf |-> slot], {})
       /\ leaf_index_cache' = [leaf_index_cache EXCEPT ![d] = @ + 1]
       /\ stamping' = slot
  /\ UNCHANGED <<ledger, accounts, rooted, loaded, db, faults>>

\* The second event of a deposit: a checkpoint with its signature.
StampSignature ==
  /\ loaded /\ stamping # None
  /\ Enqueue([kind |-> "Checkpoint", last_slot |-> stamping, last_signature |-> stamping], {})
  /\ stamping' = None
  /\ UNCHANGED <<validator, loaded, leaf_index_cache, db, faults>>

\* notify_transaction, anything else: "withdraw is captured via NullifierRecord".
NotifyOther ==
  /\ Notified
  /\ ledger[Head(txs)].op \notin {"deposit", "failed"}
  /\ UNCHANGED <<ledger, accounts, rooted, plugin, queue, db, faults, lost, everLost>>

\* Mutant. The checkpoint is written at once instead of queued.
SlotRooted_direct ==
  /\ loaded /\ rooted < Reported
  /\ rooted' = rooted + 1
  /\ progress' = [last_slot |-> rooted', last_signature |-> None]
  /\ UNCHANGED <<ledger, accounts, txs, plugin, queue, denominations, roots, nullifiers,
                 commitments, faults, lost, everLost>>

\* update_slot_status(Rooted): a slot is rooted after its accounts are written.
SlotRooted ==
  /\ loaded /\ rooted < Reported
  /\ rooted' = rooted + 1
  /\ Enqueue([kind |-> "Checkpoint", last_slot |-> rooted', last_signature |-> None], {})
  /\ UNCHANGED <<ledger, accounts, txs, plugin, db, faults>>

-----------------------------------------------------------------------------
(* The worker thread *)

\* Every table but ingest_progress refers to denominations.
Insertable(e) == e.kind \in {"Denomination", "Checkpoint"} \/ e.denom \in denominations

\* handle_event: one upsert or insert.
Store(e) ==
  /\ denominations' = IF e.kind = "Denomination" THEN denominations \cup {e.denom} ELSE denominations
  /\ roots' =
       IF e.kind # "MerkleTree" THEN roots
       ELSE [roots EXCEPT ![e.denom] =
               {r \in @ : r[1] # Cardinality(e.leaves)}
               \cup {<<Cardinality(e.leaves), e.leaves>>}]
  /\ nullifiers' = IF e.kind = "NullifierRecord" THEN nullifiers \cup {e.nullifier} ELSE nullifiers
  /\ commitments' =
       IF e.kind # "InsertCommitment"
          \/ \E row \in commitments : row[1] = e.denom /\ row[2] = e.leaf_index
       THEN commitments
       ELSE commitments \cup {<<e.denom, e.leaf_index, e.leaf>>}
  /\ progress' =
       IF e.kind # "Checkpoint" THEN progress
       ELSE [last_slot |-> IF e.last_slot > progress.last_slot THEN e.last_slot
                           ELSE progress.last_slot,
             last_signature |-> e.last_signature]

\* Mutant. A write that fails is tried again before any other.
WriteEvent_requeue ==
  /\ queue # <<>>
  /\ IF Insertable(Head(queue)) THEN Store(Head(queue)) /\ queue' = Tail(queue)
     ELSE UNCHANGED <<db, queue>>
  /\ UNCHANGED <<validator, plugin, faults, lost, everLost>>

\* One event written, or refused by a foreign key and forgotten.
WriteEvent ==
  /\ queue # <<>>
  /\ IF Insertable(Head(queue)) THEN Store(Head(queue)) ELSE UNCHANGED db
  /\ queue' = Tail(queue)
  /\ UNCHANGED <<validator, plugin, faults, lost, everLost>>

\* Postgres is away: the event is logged and not put back.
WriteFails ==
  /\ queue # <<>> /\ faults < MaxFaults
  /\ queue' = Tail(queue) /\ faults' = faults + 1
  /\ LET e == Head(queue)  d == IF e.kind = "Checkpoint" THEN {} ELSE {e.denom} IN
       lost' = lost \cup d /\ everLost' = everLost \cup d
  /\ UNCHANGED <<validator, plugin, db>>

-----------------------------------------------------------------------------
(* Loading and unloading *)

\* on_load, in a validator that starts from the snapshot of slot n.  A new
\* plugin has an empty cache and an empty queue.
OnLoad(n) ==
  /\ ~loaded /\ loaded' = TRUE
  /\ leaf_index_cache' = [d \in Denoms |-> 0] /\ stamping' = None
  /\ queue' = <<>>
  /\ accounts' = <<Snapshot(n)>> \o [i \in 1 .. Len(ledger) - n |-> Report(n + i)]
  /\ txs' = [i \in 1 .. Len(ledger) - n |-> n + i]
  /\ rooted' = n
  /\ lost' = RegisteredAt(n) \ denominations
  /\ everLost' = everLost \cup lost'
  /\ UNCHANGED <<ledger, db, faults>>

\* on_unload: nothing is reported any more.  The worker drains the queue as far
\* as the process lives: a crash is an unload followed by no write.
OnUnload ==
  /\ loaded /\ faults < MaxFaults
  /\ loaded' = FALSE /\ faults' = faults + 1
  /\ accounts' = <<>> /\ txs' = <<>> /\ rooted' = 0
  /\ leaf_index_cache' = [d \in Denoms |-> 0] /\ stamping' = None
  /\ UNCHANGED <<ledger, queue, db, lost, everLost>>

Callback ==
  \/ \E w \in IF accounts = <<>> THEN {} ELSE Head(accounts).writes : UpdateAccount(w)
  \/ NothingToReport \/ NotifyDeposit \/ StampSignature \/ NotifyOther \/ SlotRooted

Next ==
  \/ \E op \in {"register", "deposit", "withdraw", "failed"}, d \in Denoms :
       Land([op |-> op, denom |-> d])
  \/ Callback \/ WriteEvent \/ WriteFails
  \/ \E n \in 0 .. Len(ledger) : OnLoad(n)
  \/ OnUnload

Spec == Init /\ [][Next]_vars

\* The validator goes on calling back and the worker thread goes on receiving.
FairSpec == Spec /\ WF_vars(Callback) /\ WF_vars(WriteEvent)

-----------------------------------------------------------------------------
(* Properties *)

Drained == loaded /\ accounts = <<>> /\ queue = <<>>

\* Once everything reported is written, the account tables are complete: every
\* nullifier record and the latest root of every non-empty tree is there, also
\* after a crash with a full queue, unless an event of that denomination was
\* dropped, failed, or preceded its denomination in the snapshot
\* (update_account, enqueue, run_worker).
AccountTablesComplete ==
  Drained =>
    \A d \in RegisteredAt(Len(ledger)) \ lost :
      LET leaves == LeavesAt(Len(ledger), d) IN
      /\ leaves # {} => <<Cardinality(leaves), leaves>> \in roots[d]
      /\ {s \in SpentAt(Len(ledger)) : ledger[s].denom = d} \subseteq nullifiers

\* ingest_progress never runs ahead of the tables: a note spent at or before
\* last_slot is in nullifiers, whenever the plugin is stopped, unless an event
\* was lost otherwise than with the whole queue (update_slot_status, the queue).
CheckpointCoversSpends ==
  \A s \in SpentAt(progress.last_slot) :
    ledger[s].denom \in everLost \/ s \in nullifiers

\* While the plugin stays loaded it catches up again and again with a ledger that
\* pauses: everything reported is written or refused, and every spent note is in
\* nullifiers unless an event of its denomination was lost (run_worker never
\* stops at a write that fails).
SpendsAreIndexed ==
  []<>(loaded => /\ Drained
                 /\ \A s \in SpentAt(Len(ledger)) : s \in nullifiers \/ ledger[s].denom \in lost)

\* README.md: leaf_index "is correct for monotonic, finalized ingest".  Every
\* row of commitments is the leaf at that index of the tree (handle_pool_ix).
RowsAreLeaves ==
  \A row \in commitments :
    LET leaves == LeavesAt(Len(ledger), row[1])
    IN row[3] \in leaves /\ Cardinality({slot \in leaves : slot < row[3]}) = row[2]
=============================================================================
