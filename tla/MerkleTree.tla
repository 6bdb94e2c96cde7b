----------------------------- MODULE MerkleTree -----------------------------
(***************************************************************************)
(* The commitment tree: the on-chain append with its frontier and its ring *)
(* of recent roots (qietr-pool merkle.rs), the inclusion paths the indexer *)
(* and the SDK rebuild from the leaves (poseidon-tree.ts, merkle.ts) and   *)
(* the circuit that checks them (MerkleTreeChecker).  Three programs in    *)
(* three languages have to agree on one tree.                              *)
(*                                                                         *)
(* Poseidon-2 is a free constructor (the pair of its arguments): it is     *)
(* collision resistant and nothing else is assumed of it.                  *)
(***************************************************************************)
EXTENDS Integers, Sequences

CONSTANTS
  Depth,           \* MERKLE_DEPTH
  RootHistoryLen,  \* ROOT_HISTORY_LEN
  Commitments,     \* leaves a deposit or a withdraw may append
  Zero             \* [0u8; 32]

ASSUME TreeConstantsOK ==
  /\ Depth \in Nat \ {0} /\ RootHistoryLen \in Nat \ {0} /\ Commitments # {}

VARIABLES
  next_leaf_index, filled_subtree, root_history, root_cursor,
  leaves           \* history: the appended leaves, in order

vars == <<next_leaf_index, filled_subtree, root_history, root_cursor, leaves>>

Levels == 0 .. Depth - 1
poseidon_hash_two(left, right) == <<left, right>>

\* `current_index` at each level of a walk up from a leaf, `idx` off chain: the
\* place of the node the walk is at.
Position(index) ==
  LET at[d \in 0 .. Depth] == IF d = 0 THEN index ELSE at[d - 1] \div 2
  IN at

\* Is the node at level d a right child?
IsRight(index, d) == Position(index)[d] % 2 = 1

\* Leaves under a node of level d; those under the root are the `capacity`.
LeavesUnder[d \in 0 .. Depth] == IF d = 0 THEN 1 ELSE 2 * LeavesUnder[d - 1]
capacity == LeavesUnder[Depth]

\* Roots of empty subtrees: `zero_hashes` on chain, `zeros` off chain.
zero_hashes[i \in 0 .. Depth] ==
  IF i = 0 THEN Zero ELSE poseidon_hash_two(zero_hashes[i - 1], zero_hashes[i - 1])

-----------------------------------------------------------------------------
(* On chain *)

Init ==
  /\ next_leaf_index = 0
  /\ filled_subtree = [i \in Levels |-> Zero]
  /\ root_history = [i \in 0 .. RootHistoryLen - 1 |-> Zero]
  /\ root_cursor = 0
  /\ leaves = << >>

\* current_hash before each level of append's walk; [Depth] is the new root.
Walk(leaf) ==
  LET current_hash[i \in 0 .. Depth] ==
        IF i = 0 THEN leaf
        ELSE IF IsRight(next_leaf_index, i - 1)
             THEN poseidon_hash_two(filled_subtree[i - 1], current_hash[i - 1])
             ELSE poseidon_hash_two(current_hash[i - 1], zero_hashes[i - 1])
  IN current_hash

\* Mutant of append: the frontier is also written on the way up from right
\* children.
append_storeAlways(leaf) ==
  LET current_hash == Walk(leaf)
      next_cursor  == (root_cursor + 1) % RootHistoryLen
  IN /\ next_leaf_index < capacity
     /\ filled_subtree' = [i \in Levels |-> current_hash[i]]
     /\ next_leaf_index' = next_leaf_index + 1
     /\ root_history' = [root_history EXCEPT ![next_cursor] = current_hash[Depth]]
     /\ root_cursor' = next_cursor
     /\ leaves' = Append(leaves, leaf)

append(leaf) ==
  LET current_hash == Walk(leaf)
      next_cursor  == (root_cursor + 1) % RootHistoryLen
  IN /\ next_leaf_index < capacity
     /\ filled_subtree' = [i \in Levels |->
          IF IsRight(next_leaf_index, i) THEN filled_subtree[i] ELSE current_hash[i]]
     /\ next_leaf_index' = next_leaf_index + 1
     /\ root_history' = [root_history EXCEPT ![next_cursor] = current_hash[Depth]]
     /\ root_cursor' = next_cursor
     /\ leaves' = Append(leaves, leaf)

is_known_root(root) ==
  root # Zero /\ \E i \in 0 .. RootHistoryLen - 1 : root_history[i] = root

Next == \E leaf \in Commitments : append(leaf)

Spec == Init /\ [][Next]_vars

-----------------------------------------------------------------------------
(* Off chain: the indexer's buildInclusionPath; the SDK's _walk is the same *)

\* Node i (from 0) of a level, or the empty subtree to its right.
NodeOr(level, i, zero) == IF i < Len(level) THEN level[i + 1] ELSE zero

LevelsOf(ls) ==
  LET level[d \in 0 .. Depth] ==
        IF d = 0 THEN ls
        ELSE LET below == level[d - 1]
             IN [i \in 1 .. (Len(below) + 1) \div 2 |->
                   poseidon_hash_two(below[2*i - 1],
                                     NodeOr(below, 2*i - 1, zero_hashes[d - 1]))]
  IN level

\* Mutant of buildInclusionPath: a missing sibling is the zero leaf at every
\* level.
buildInclusionPath_zeroLeaf(ls, index) ==
  LET level == LevelsOf(ls)
      sibling(d) == LET i == Position(index)[d]
                    IN IF IsRight(index, d) THEN i - 1 ELSE i + 1
  IN [pathElements |-> [d \in Levels |-> NodeOr(level[d], sibling(d), Zero)],
      pathIndices  |-> [d \in Levels |-> IF IsRight(index, d) THEN 1 ELSE 0],
      root         |-> NodeOr(level[Depth], 0, zero_hashes[Depth])]

buildInclusionPath(ls, index) ==
  LET level == LevelsOf(ls)
      sibling(d) == LET i == Position(index)[d]
                    IN IF IsRight(index, d) THEN i - 1 ELSE i + 1
  IN [pathElements |-> [d \in Levels |-> NodeOr(level[d], sibling(d), zero_hashes[d])],
      pathIndices  |-> [d \in Levels |-> IF IsRight(index, d) THEN 1 ELSE 0],
      root         |-> NodeOr(level[Depth], 0, zero_hashes[Depth])]

\* Mutant of DualMux: the selector is ignored.
DualMux_unordered(a, b, s) == <<a, b>>

\* In circuit: DualMux orders the pair, HashLeftRight hashes it.
DualMux(a, b, s) == IF s = 0 THEN <<a, b>> ELSE <<b, a>>

MerkleTreeChecker(leaf, pathElements, pathIndices) ==
  LET currentHash[i \in 0 .. Depth] ==
        IF i = 0 THEN leaf
        ELSE LET in == DualMux(currentHash[i - 1], pathElements[i - 1], pathIndices[i - 1])
             IN poseidon_hash_two(in[1], in[2])
  IN currentHash[Depth]

-----------------------------------------------------------------------------
(* Properties *)

\* The nodes of the binary tree over these leaves and Zeros without end: what
\* they are, whoever computes them and from what.  Those above the first
\* `capacity` leaves are a tree of height Depth.
ReferenceNodes(ls) ==
  LET node[d \in 0 .. Depth] ==
        IF d = 0 THEN [j \in Nat |-> NodeOr(ls, j, Zero)]
        ELSE [j \in Nat |-> poseidon_hash_two(node[d - 1][2*j], node[d - 1][2*j + 1])]
  IN node
ReferenceRoot(ls) == ReferenceNodes(ls)[Depth][0]

\* The latest leaf count that was written to a history slot (0: none yet).
CountInSlot(i) ==
  LET ks == {k \in 1 .. next_leaf_index : k % RootHistoryLen = i}
  IN IF ks = {} THEN 0 ELSE CHOOSE k \in ks : \A j \in ks : j <= k

\* Each history slot holds the root of the tree as it was after the latest
\* append to that slot, computed from the frontier alone (merkle.rs append):
\* this is what lets QietrPool name a root by its leaf count.
HistoryHoldsReferenceRoots ==
  \A i \in 0 .. RootHistoryLen - 1 :
    root_history[i] = IF CountInSlot(i) = 0 THEN Zero
                      ELSE ReferenceRoot(SubSeq(leaves, 1, CountInSlot(i)))

\* Every path the indexer or the SDK rebuilds, from the leaves as they were
\* at any root still in the window, satisfies the circuit and leads to a
\* root the program accepts (poseidon-tree.ts against merkle.rs and circom).
RebuiltPathsAreAccepted ==
  \A k \in 1 .. next_leaf_index : k > next_leaf_index - RootHistoryLen =>
    \A index \in 0 .. k - 1 :
      LET path == buildInclusionPath(SubSeq(leaves, 1, k), index)
          root == MerkleTreeChecker(leaves[index + 1], path.pathElements,
                                    path.pathIndices)
      IN root = path.root /\ is_known_root(root)

\* No path, whichever nodes of the tree it is put together from, takes a
\* commitment to an accepted root except from a position where it was
\* appended (MerkleTreeChecker's constraints, DualMux included).  Zero, which
\* pads the tree, hashes no note.
OnlyLeavesVerify ==
  LET level == LevelsOf(leaves)
      nodes(d) == {level[d][i] : i \in 1 .. Len(level[d])} \cup {zero_hashes[d]}
  IN \A bits \in [Levels -> {0, 1}],
        siblings \in {f \in [Levels -> UNION {nodes(d) : d \in Levels}] :
                        \A d \in Levels : f[d] \in nodes(d)},
        leaf \in Commitments \ {Zero} :
       is_known_root(MerkleTreeChecker(leaf, siblings, bits)) =>
         \E i \in 1 .. next_leaf_index :
           /\ leaves[i] = leaf
           /\ \A d \in Levels : bits[d] = 1 <=> IsRight(i - 1, d)
=============================================================================
