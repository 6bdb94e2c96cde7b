--------------------------- MODULE IndexerPoller ----------------------------
(***************************************************************************)
(* The RPC poller of qietr-indexer: it copies the pool's accounts and the   *)
(* leaves its transactions appended into Postgres, one statement at a time. *)
(* A tick is                                                                *)
(*                                                                          *)
(*   idle -ReadAccounts-> accounts -Write*, StartListing-> list -ReadPage*-> *)
(*        { fetch -FetchTx-> append -AppendLeaf*, Checkpoint-> } idle        *)
(*                                                                          *)
(* and may stop after any statement: the process dies, or a query fails and *)
(* main() starts the next tick.  Only this process writes the database, so  *)
(* a statement and the reads that lead to it are one step.                  *)
(*                                                                          *)
(* The chain beside it is what the pool program does: a successful          *)
(* transaction appends one leaf per deposit or withdraw, a failed one none. *)
(* A leaf is a number, used once: a commitment hides a random secret, which *)
(* db.ts relies on.  A root stands for the list of leaves it is the root    *)
(* of, which MerkleTree justifies.  Slots and amounts are left out.         *)
(***************************************************************************)
EXTENDS Integers, Sequences, FiniteSets

CONSTANTS
  Denoms,
  MaxLeaves, MaxTxs,    \* bounds of the chain that is explored
  MaxAborts,            \* ticks that may stop half way
  PageLimit,            \* signatures in one answer of the node: 1000
  RpcMayMiss            \* the node may not have a transaction it has listed

ASSUME IndexerConstants ==
  /\ {MaxLeaves, MaxTxs, MaxAborts} \subseteq Nat /\ PageLimit \in Nat \ {0}
  /\ RpcMayMiss \in BOOLEAN

VARIABLES
  registered,   \* chain: denominations that exist
  chain,        \* chain: the pool's transactions, each its pool instructions
  tree,         \* chain: leaves of each denomination's tree
  spent,        \* chain: nullifier records of each denomination
  denominations, roots, nullifiers, commitments, checkpoint,   \* Postgres
  poller,       \* the poller's program counter and what it holds in memory
  aborts

onChain == <<registered, chain, tree, spent>>
db == <<denominations, roots, nullifiers, commitments, checkpoint>>
vars == <<onChain, db, poller, aborts>>

-----------------------------------------------------------------------------
Unseeded == -1

Asleep ==
  [pc |-> "idle", denoms |-> {}, trees |-> {}, spent |-> {},
   cursor |-> 0, upto |-> 0, before |-> 0, ixs |-> <<>>, nextLeaf |-> [d \in Denoms |-> Unseeded]]

\* Bound: a transaction has at most two pool instructions.
LeafAt(tx, i, d) ==
  IF i \in DOMAIN tx /\ tx[i].denom = d THEN <<tx[i].leaf>> ELSE <<>>
LeavesOf(tx, d) == LeafAt(tx, 1, d) \o LeafAt(tx, 2, d)
Withdraws(tx, d) == {i \in DOMAIN tx : tx[i].op = "withdraw" /\ tx[i].denom = d}

Leaves == UNION {{tree[d][i] : i \in DOMAIN tree[d]} : d \in Denoms}
Instructions(leaf) ==
  {[op |-> o, denom |-> d, leaf |-> leaf] : o \in {"deposit", "withdraw"}, d \in registered}

Init ==
  /\ registered = {} /\ chain = <<>>
  /\ tree = [d \in Denoms |-> <<>>] /\ spent = [d \in Denoms |-> {}]
  /\ denominations = {} /\ checkpoint = 0
  /\ roots = [d \in Denoms |-> {}] /\ nullifiers = [d \in Denoms |-> {}]
  /\ commitments = [d \in Denoms |-> {}]
  /\ poller = Asleep /\ aborts = 0

-----------------------------------------------------------------------------
(* The chain *)

Register(d) ==
  /\ d \notin registered
  /\ registered' = registered \cup {d}
  /\ UNCHANGED <<chain, tree, spent, db, poller, aborts>>

Land(tx) ==
  /\ chain' = Append(chain, tx)
  /\ tree' = [d \in Denoms |-> tree[d] \o LeavesOf(tx, d)]
  /\ spent' = [d \in Denoms |-> spent[d] \cup {<<Len(chain'), i>> : i \in Withdraws(tx, d)}]
  /\ UNCHANGED <<registered, db, poller, aborts>>

\* A transaction that failed or only touches other accounts, one with a pool
\* instruction, and one with two.
ChainStep ==
  \/ \E d \in Denoms : Register(d)
  \/ /\ Len(chain) < MaxTxs
     /\ \E last \in 0 .. MaxLeaves :
          /\ Leaves = 1 .. last
          /\ \/ Land(<<>>)
             \/ /\ last + 1 <= MaxLeaves
                /\ \E ix \in Instructions(last + 1) : Land(<<ix>>)
             \/ /\ last + 2 <= MaxLeaves
                /\ \E ix1 \in Instructions(last + 1), ix2 \in Instructions(last + 2) :
                     Land(<<ix1, ix2>>)

-----------------------------------------------------------------------------
(* db.ts: one statement each *)

upsertDenomination(d) == denominations' = denominations \cup {d}

\* The root filed under a leaf count is replaced.
upsertRoot(d, count, root) ==
  roots' = [roots EXCEPT ![d] = {r \in @ : r[1] # count} \cup {<<count, root>>}]

\* ON CONFLICT DO NOTHING, on the index and on the nullifier hash.
insertCommitment(d, index, leaf) ==
  commitments' = [commitments EXCEPT ![d] =
    IF \E row \in @ : row[1] = index THEN @ ELSE @ \cup {<<index, leaf>>}]
insertNullifier(d, hash) == nullifiers' = [nullifiers EXCEPT ![d] = @ \cup {hash}]

\* The last signature is set, whatever it was.
saveCheckpoint(signature) == checkpoint' = signature
getCheckpoint == checkpoint

maxLeafIndex(d) ==
  IF commitments[d] = {} THEN -1
  ELSE CHOOSE n \in {row[1] : row \in commitments[d]} : \A row \in commitments[d] : row[1] <= n
commitmentExists(d, leaf) == \E row \in commitments[d] : row[2] = leaf

-----------------------------------------------------------------------------
(* rpc.ts: one answer of the node each *)

getAllProgramAccounts ==
  [denoms |-> registered,
   trees |-> {<<d, tree[d]>> : d \in registered},
   spent |-> UNION {{<<d, n>> : n \in spent[d]} : d \in registered}]

\* The newest signatures below `before` and after `until`, a page of them.
SignaturesBelow(before, until) ==
  LET page == {n \in until + 1 .. Len(chain) : before > 0 => n < before}
  IN {n \in page : Cardinality({m \in page : m > n}) < PageLimit}

-----------------------------------------------------------------------------
(* syncAccountState *)

\* Mutant. The accounts are read until a denomination is known, then not again.
ReadAccounts_once ==
  /\ poller.pc = "idle"
  /\ poller' = [Asleep EXCEPT !.pc = "accounts",
                  !.denoms = IF denominations = {} THEN registered ELSE {}]
  /\ UNCHANGED <<onChain, db, aborts>>

\* getAllProgramAccounts: one answer of the node.  A tree account carries its
\* leaf count and its latest root.
ReadAccounts ==
  /\ poller.pc = "idle"
  /\ poller' = [Asleep EXCEPT !.pc = "accounts", !.denoms = getAllProgramAccounts.denoms,
                  !.trees = getAllProgramAccounts.trees, !.spent = getAllProgramAccounts.spent]
  /\ UNCHANGED <<onChain, db, aborts>>

\* upsertDenomination, for every denomination before anything that refers to it
WriteDenomination(d) ==
  /\ poller.pc = "accounts" /\ d \in poller.denoms
  /\ upsertDenomination(d)
  /\ poller' = [poller EXCEPT !.denoms = @ \ {d}]
  /\ UNCHANGED <<onChain, roots, nullifiers, commitments, checkpoint, aborts>>

\* Mutant. The row is filed under the index of the last leaf, not the count.
WriteRoot_offByOne(t) ==
  /\ poller.pc = "accounts" /\ poller.denoms = {} /\ t \in poller.trees
  /\ upsertRoot(t[1], Len(t[2]) - 1, t[2])
  /\ poller' = [poller EXCEPT !.trees = @ \ {t}]
  /\ UNCHANGED <<onChain, denominations, nullifiers, commitments, checkpoint, aborts>>

\* upsertRoot, keyed by leaf count
WriteRoot(t) ==
  /\ poller.pc = "accounts" /\ poller.denoms = {} /\ t \in poller.trees
  /\ upsertRoot(t[1], Len(t[2]), t[2])
  /\ poller' = [poller EXCEPT !.trees = @ \ {t}]
  /\ UNCHANGED <<onChain, denominations, nullifiers, commitments, checkpoint, aborts>>

\* insertNullifier, ON CONFLICT DO NOTHING
WriteNullifier(n) ==
  /\ poller.pc = "accounts" /\ poller.denoms = {} /\ poller.trees = {} /\ n \in poller.spent
  /\ insertNullifier(n[1], n[2])
  /\ poller' = [poller EXCEPT !.spent = @ \ {n}]
  /\ UNCHANGED <<onChain, denominations, roots, commitments, checkpoint, aborts>>

-----------------------------------------------------------------------------
(* syncCommitments *)

\* getCheckpoint, then getNewSignatures from the newest backwards.
StartListing ==
  /\ poller.pc = "accounts"
  /\ poller.denoms = {} /\ poller.trees = {} /\ poller.spent = {}
  /\ poller' = [Asleep EXCEPT !.pc = "list", !.cursor = getCheckpoint]
  /\ UNCHANGED <<onChain, db, aborts>>

\* Mutant. Only the first page is read.
ReadPage_first ==
  /\ poller.pc = "list"
  /\ LET page == SignaturesBelow(poller.before, poller.cursor) IN
       poller' = IF page = {} THEN Asleep
                 ELSE [poller EXCEPT !.pc = "fetch", !.upto = Len(chain),
                         !.cursor = Len(chain) - Cardinality(page)]
  /\ UNCHANGED <<onChain, db, aborts>>

\* One page; the chain may have grown since the one before, which is for the
\* next tick.  The last page is short or empty.  They are taken oldest first.
ReadPage ==
  /\ poller.pc = "list"
  /\ LET page == SignaturesBelow(poller.before, poller.cursor)
         upto == IF poller.before = 0 THEN Len(chain) ELSE poller.upto
     IN poller' =
          IF Cardinality(page) = PageLimit
          THEN [poller EXCEPT !.upto = upto,
                  !.before = CHOOSE n \in page : \A m \in page : n <= m]
          ELSE IF upto = poller.cursor THEN Asleep
          ELSE [poller EXCEPT !.pc = "fetch", !.upto = upto, !.before = 0]
  /\ UNCHANGED <<onChain, db, aborts>>

\* getPoolIxs: the instructions of the next transaction, none if the node
\* answers null for it.
FetchTx ==
  /\ poller.pc = "fetch"
  /\ \E ixs \in {chain[poller.cursor + 1]} \cup IF RpcMayMiss THEN {<<>>} ELSE {} :
       poller' = [poller EXCEPT !.pc = "append", !.ixs = ixs]
  /\ UNCHANGED <<onChain, db, aborts>>

\* leafFor: the index is read once a tick and counted up in memory.
LeafFor(d) ==
  IF poller.nextLeaf[d] = Unseeded THEN maxLeafIndex(d) + 1 ELSE poller.nextLeaf[d]

\* Mutant. A leaf that is indexed already is inserted again on a re-scan.
AppendLeaf_noDedup ==
  /\ poller.pc = "append" /\ poller.ixs # <<>>
  /\ LET ix == Head(poller.ixs) IN
       IF ix.denom \notin denominations
       THEN poller' = Asleep /\ UNCHANGED commitments
       ELSE /\ insertCommitment(ix.denom, LeafFor(ix.denom), ix.leaf)
            /\ poller' = [poller EXCEPT !.ixs = Tail(@), !.nextLeaf[ix.denom] = LeafFor(ix.denom) + 1]
  /\ UNCHANGED <<onChain, denominations, roots, nullifiers, checkpoint, aborts>>

\* appendLeaf for the next instruction.  A leaf of a denomination that has no
\* row yet breaks the foreign key and ends the tick.
AppendLeaf ==
  /\ poller.pc = "append" /\ poller.ixs # <<>>
  /\ LET ix == Head(poller.ixs) IN
       IF commitmentExists(ix.denom, ix.leaf)
       THEN poller' = [poller EXCEPT !.ixs = Tail(@)] /\ UNCHANGED commitments
       ELSE IF ix.denom \notin denominations
       THEN poller' = Asleep /\ UNCHANGED commitments
       ELSE /\ insertCommitment(ix.denom, LeafFor(ix.denom), ix.leaf)
            /\ poller' = [poller EXCEPT !.ixs = Tail(@), !.nextLeaf[ix.denom] = LeafFor(ix.denom) + 1]
  /\ UNCHANGED <<onChain, denominations, roots, nullifiers, checkpoint, aborts>>

\* checkpoint, after all the leaves of a signature
Checkpoint ==
  /\ poller.pc = "append" /\ poller.ixs = <<>>
  /\ saveCheckpoint(poller.cursor + 1)
  /\ poller' = IF poller.cursor + 1 = poller.upto THEN Asleep
               ELSE [poller EXCEPT !.pc = "fetch", !.cursor = @ + 1]
  /\ UNCHANGED <<onChain, denominations, roots, nullifiers, commitments, aborts>>

\* The tick stops here: a crash, a shutdown or a failed query.
Abort ==
  /\ poller.pc # "idle" /\ aborts < MaxAborts
  /\ aborts' = aborts + 1
  /\ poller' = Asleep
  /\ UNCHANGED <<onChain, db>>

PollerStep ==
  \/ ReadAccounts
  \/ \E d \in poller.denoms : WriteDenomination(d)
  \/ \E t \in poller.trees : WriteRoot(t)
  \/ \E n \in poller.spent : WriteNullifier(n)
  \/ StartListing \/ ReadPage \/ FetchTx \/ AppendLeaf \/ Checkpoint

Next == ChainStep \/ PollerStep \/ Abort

Spec == Init /\ [][Next]_vars

\* main() runs ticks for ever, so a poller that can take its next step does.
FairSpec == Spec /\ WF_vars(PollerStep)

-----------------------------------------------------------------------------
(* Properties *)

Mirror(leaves) == {<<i - 1, leaves[i]>> : i \in DOMAIN leaves}

\* The stored leaves of a denomination are at every moment the first leaves of
\* its tree, each at its index, whatever ticks are cut short and scanned again
\* (index.ts syncCommitments, db.ts commitmentExists).
IndexMirrorsTree ==
  \A d \in Denoms : \E n \in 0 .. Len(tree[d]) :
    commitments[d] = Mirror(SubSeq(tree[d], 1, n))

\* A denomination's index never lags for ever: a leaf on chain is eventually
\* stored, also when its denomination was registered after the tick had read the
\* accounts and the tick broke the foreign key; and a spent note is eventually
\* known to be (index.ts main, the retry loop).
IndexCatchesUp ==
  \A d \in Denoms :
    /\ \A n \in 1 .. MaxLeaves : Len(tree[d]) >= n ~> Cardinality(commitments[d]) >= n
    /\ \A n \in 1 .. MaxTxs : <<n, 1>> \in spent[d] ~> <<n, 1>> \in nullifiers[d]
=============================================================================
