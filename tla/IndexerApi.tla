----------------------------- MODULE IndexerApi -----------------------------
(***************************************************************************)
(* The read API of qietr-indexer on the database the poller is writing:     *)
(* GET /merkle-proof asks four queries, each of which sees the tables as    *)
(* they are at that moment, and keeps its answers in a cache.               *)
(*                                                                          *)
(*   idle -Ask-> count -CountLeaves-> target -FindTarget-> leaves           *)
(*        -ReadLeaves-> root -CrossCheck-> replied -> idle                   *)
(*                                                                          *)
(* An answer is the leaf's index and the leaves its path and root were      *)
(* computed from (MerkleTree!buildInclusionPath), so a proof verifies on     *)
(* chain when that list is what the tree held at some time and the leaf is   *)
(* at that index.  A cache entry may expire at any moment.                  *)
(***************************************************************************)
EXTENDS IndexerPoller, SequencesExt

CONSTANT Queries        \* requests the API can be serving at a time

VARIABLES
  query,       \* what each request is doing
  proofCache   \* (denomination, leaf) -> answer; NoProof where there is none

apiVars == <<vars, query, proofCache>>

NoProof == [index |-> -1, leaves |-> <<>>]
NoQuery == [pc |-> "idle", denom |-> "none", leaf |-> 0, from |-> 0,
            index |-> -1, leaves |-> <<>>, status |-> "none"]
Reply(status, q, proof) ==
  [q EXCEPT !.pc = "replied", !.status = status, !.index = proof.index, !.leaves = proof.leaves]

ApiInit ==
  /\ Init
  /\ query = [r \in Queries |-> NoQuery]
  /\ proofCache = [d \in Denoms |-> [leaf \in 1 .. MaxLeaves |-> NoProof]]

Stored(d) == Cardinality(commitments[d])
Become(r, q) == query' = [query EXCEPT ![r] = q]

Ask(r, d, leaf) ==
  /\ query[r] = NoQuery
  /\ Become(r, [NoQuery EXCEPT !.pc = "count", !.denom = d, !.leaf = leaf])
  /\ UNCHANGED <<vars, proofCache>>

\* Mutant. An entry is good until it expires, whatever the tree has become.
CountLeaves_anySize(r) ==
  /\ query[r].pc = "count"
  /\ LET q == [query[r] EXCEPT !.from = Stored(query[r].denom)]
         cached == proofCache[q.denom][q.leaf]
     IN Become(r, IF cached # NoProof THEN Reply("ok", q, cached)
                  ELSE [q EXCEPT !.pc = "target"])
  /\ UNCHANGED <<vars, proofCache>>

\* SELECT COUNT, then the cache, whose entry must be of this very size
CountLeaves(r) ==
  /\ query[r].pc = "count"
  /\ LET q == [query[r] EXCEPT !.from = Stored(query[r].denom)]
         cached == proofCache[q.denom][q.leaf]
     IN Become(r, IF cached # NoProof /\ Len(cached.leaves) = q.from
                  THEN Reply("ok", q, cached)
                  ELSE [q EXCEPT !.pc = "target"])
  /\ UNCHANGED <<vars, proofCache>>

\* The row of the commitment, LIMIT 1
FindTarget(r) ==
  /\ query[r].pc = "target"
  /\ LET q == query[r]
         rows == {row \in commitments[q.denom] : row[2] = q.leaf}
     IN IF rows = {} THEN Become(r, Reply("commitment_not_found", q, NoProof))
        ELSE \E row \in rows : Become(r, [q EXCEPT !.pc = "leaves", !.index = row[1]])
  /\ UNCHANGED <<vars, proofCache>>

\* Every row in index order; a missing index is an error.
Contiguous(rows) == {row[1] : row \in rows} = 0 .. Cardinality(rows) - 1
InOrder(rows) == [i \in 1 .. Cardinality(rows) |-> (CHOOSE row \in rows : row[1] = i - 1)[2]]

ReadLeaves(r) ==
  /\ query[r].pc = "leaves"
  /\ LET q == query[r]
         rows == commitments[q.denom]
     IN Become(r, IF Contiguous(rows)
                  THEN [q EXCEPT !.pc = "root", !.leaves = InOrder(rows)]
                  ELSE Reply("ingest_gap", q, NoProof))
  /\ UNCHANGED <<vars, proofCache>>

RootRows(q) == {row \in roots[q.denom] : row[1] = Len(q.leaves)}

\* Mutant. The cache key has no commitment in it.
CrossCheck_sharedEntry(r) ==
  /\ query[r].pc = "root"
  /\ LET q == query[r]
         proof == [index |-> q.index, leaves |-> q.leaves]
     IN IF \E row \in RootRows(q) : row[2] # q.leaves
        THEN Become(r, Reply("root_mismatch", q, NoProof)) /\ UNCHANGED proofCache
        ELSE /\ Become(r, Reply("ok", q, proof))
             /\ proofCache' = [proofCache EXCEPT ![q.denom] = [leaf \in 1 .. MaxLeaves |-> proof]]
  /\ UNCHANGED vars

\* The computed root is compared with the stored root of that many leaves, when
\* there is one; the answer is cached under the size it was computed for.
CrossCheck(r) ==
  /\ query[r].pc = "root"
  /\ LET q == query[r]
         proof == [index |-> q.index, leaves |-> q.leaves]
     IN IF \E row \in RootRows(q) : row[2] # q.leaves
        THEN Become(r, Reply("root_mismatch", q, NoProof)) /\ UNCHANGED proofCache
        ELSE /\ Become(r, Reply("ok", q, proof))
             /\ proofCache' = [proofCache EXCEPT ![q.denom][q.leaf] = proof]
  /\ UNCHANGED vars

\* The client has its answer.
Finish(r) ==
  /\ query[r].pc = "replied"
  /\ Become(r, NoQuery)
  /\ UNCHANGED <<vars, proofCache>>

Expire(d, leaf) ==
  /\ proofCache[d][leaf] # NoProof
  /\ proofCache' = [proofCache EXCEPT ![d][leaf] = NoProof]
  /\ UNCHANGED <<vars, query>>

\* The API process restarts.
Restart ==
  /\ query' = [r \in Queries |-> NoQuery]
  /\ proofCache' = [d \in Denoms |-> [leaf \in 1 .. MaxLeaves |-> NoProof]]
  /\ UNCHANGED vars

ApiStep ==
  \/ \E r \in Queries :
       \/ \E d \in Denoms, leaf \in 1 .. MaxLeaves : Ask(r, d, leaf)
       \/ CountLeaves(r) \/ FindTarget(r) \/ ReadLeaves(r) \/ CrossCheck(r) \/ Finish(r)
  \/ \E d \in Denoms, leaf \in 1 .. MaxLeaves : Expire(d, leaf)
  \/ Restart

ApiNext == ApiStep \/ (Next /\ UNCHANGED <<query, proofCache>>)

ApiSpec == ApiInit /\ [][ApiNext]_apiVars

-----------------------------------------------------------------------------
(* Properties *)

Verifies(q) ==
  /\ IsPrefix(q.leaves, tree[q.denom])
  /\ q.index + 1 \in DOMAIN q.leaves /\ q.leaves[q.index + 1] = q.leaf

Served(r) == query[r].pc = "replied" /\ query[r].status = "ok"

\* The poller has skipped a transaction that the node did not return, so that a
\* later leaf is stored under an index that is not its own (IndexerPoller FetchTx).
Damaged(d) ==
  ~\E n \in 0 .. Len(tree[d]) : commitments[d] = Mirror(SubSeq(tree[d], 1, n))

\* Every proof served is one of the leaf asked for under a root the pool's tree
\* has had, although its parts were read by separate queries while the poller
\* was writing, as long as the stored leaves are the tree's (merkle-proof.ts).
ServedProofsVerify ==
  \A r \in Queries : Served(r) => Verifies(query[r]) \/ Damaged(query[r].denom)

\* A proof is never of a smaller tree than the database held when the request
\* was counted, so an old root is not served from the cache for longer than the
\* tree stands still (merkle-proof.ts:68-80).
ServedProofsAreCurrent ==
  \A r \in Queries : Served(r) => Len(query[r].leaves) >= query[r].from

\* The two loud failures go off only when the stored leaves are not the tree's:
\* the roots come from account snapshots and the leaves from the transactions,
\* and either may be ahead of the other (merkle-proof.ts:104-139).
NoFalseAlarm ==
  \A r \in Queries :
    query[r].status \in {"ingest_gap", "root_mismatch"} => Damaged(query[r].denom)
=============================================================================
