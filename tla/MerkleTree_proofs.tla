-------------------------- MODULE MerkleTree_proofs --------------------------
(***************************************************************************)
(* Proofs about MerkleTree for a tree of any height and a ring of any      *)
(* length.  Both the tree and the code that computes it are defined by     *)
(* recursion, on levels that are finitely many: each recursive function is *)
(* shown to exist, and then reasoned about by induction on the level.      *)
(***************************************************************************)
EXTENDS MerkleTree, ProofLemmas

-----------------------------------------------------------------------------
(* The recursive functions exist: those on the levels up to n do for n = 0 *)
(* and, if for n, for n + 1.                                               *)

LEMMA PositionDef ==
  ASSUME NEW index \in Nat
  PROVE  Position(index) =
           [d \in 0 .. Depth |-> IF d = 0 THEN index ELSE Position(index)[d - 1] \div 2]
<1> DEFINE Upto(n, at) == at = [d \in 0 .. n |-> IF d = 0 THEN index ELSE at[d - 1] \div 2]
           S == {n \in Nat : \E at : Upto(n, at)}
<1>1. 0 \in S
  <2>1. Upto(0, [d \in 0 .. 0 |-> index])
    OBVIOUS
  <2> QED BY <2>1
<1>2. ASSUME NEW n \in 0 .. Depth - 1, n \in S PROVE n + 1 \in S
  <2>1. PICK at : Upto(n, at)
    BY <1>2
  <2> DEFINE more == [d \in 0 .. n + 1 |-> IF d = n + 1 THEN at[n] \div 2 ELSE at[d]]
  <2>2. Upto(n + 1, more)
    BY <2>1, TreeConstantsOK
  <2>3. n + 1 \in Nat
    BY TreeConstantsOK
  <2> HIDE DEF Upto, more
  <2> QED BY <2>2, <2>3
<1>3. Depth \in S
  <2> HIDE DEF S
  <2> QED BY <1>1, <1>2, UpTo, TreeConstantsOK
<1>4. \E at : Upto(Depth, at)
  BY <1>3
<1>5. Position(index) = CHOOSE at : Upto(Depth, at)
  BY DEF Position
<1> QED BY <1>4, <1>5

LEMMA LeavesUnderDef ==
  LeavesUnder = [d \in 0 .. Depth |-> IF d = 0 THEN 1 ELSE 2 * LeavesUnder[d - 1]]
<1> DEFINE Upto(n, g) == g = [d \in 0 .. n |-> IF d = 0 THEN 1 ELSE 2 * g[d - 1]]
           S == {n \in Nat : \E g : Upto(n, g)}
<1>1. 0 \in S
  <2>1. Upto(0, [d \in 0 .. 0 |-> 1])
    OBVIOUS
  <2> QED BY <2>1
<1>2. ASSUME NEW n \in 0 .. Depth - 1, n \in S PROVE n + 1 \in S
  <2>1. PICK g : Upto(n, g)
    BY <1>2
  <2> DEFINE more == [d \in 0 .. n + 1 |-> IF d = n + 1 THEN 2 * g[n] ELSE g[d]]
  <2>2. Upto(n + 1, more)
    BY <2>1, TreeConstantsOK
  <2>3. n + 1 \in Nat
    BY TreeConstantsOK
  <2> HIDE DEF Upto, more
  <2> QED BY <2>2, <2>3
<1>3. Depth \in S
  <2> HIDE DEF S
  <2> QED BY <1>1, <1>2, UpTo, TreeConstantsOK
<1>4. \E g : Upto(Depth, g)
  BY <1>3
<1>5. LeavesUnder = CHOOSE g : Upto(Depth, g)
  BY DEF LeavesUnder
<1> QED BY <1>4, <1>5

LEMMA ZeroHashesDef ==
  zero_hashes = [i \in 0 .. Depth |->
                   IF i = 0 THEN Zero
                   ELSE poseidon_hash_two(zero_hashes[i - 1], zero_hashes[i - 1])]
<1> DEFINE Upto(n, g) == g = [i \in 0 .. n |->
                                IF i = 0 THEN Zero
                                ELSE poseidon_hash_two(g[i - 1], g[i - 1])]
           S == {n \in Nat : \E g : Upto(n, g)}
<1>1. 0 \in S
  <2>1. Upto(0, [i \in 0 .. 0 |-> Zero])
    OBVIOUS
  <2> QED BY <2>1
<1>2. ASSUME NEW n \in 0 .. Depth - 1, n \in S PROVE n + 1 \in S
  <2>1. PICK g : Upto(n, g)
    BY <1>2
  <2> DEFINE more == [i \in 0 .. n + 1 |->
                        IF i = n + 1 THEN poseidon_hash_two(g[n], g[n]) ELSE g[i]]
  <2>2. Upto(n + 1, more)
    BY <2>1, TreeConstantsOK
  <2>3. n + 1 \in Nat
    BY TreeConstantsOK
  <2> HIDE DEF Upto, more
  <2> QED BY <2>2, <2>3
<1>3. Depth \in S
  <2> HIDE DEF S
  <2> QED BY <1>1, <1>2, UpTo, TreeConstantsOK
<1>4. \E g : Upto(Depth, g)
  BY <1>3
<1>5. zero_hashes = CHOOSE g : Upto(Depth, g)
  BY DEF zero_hashes
<1> QED BY <1>4, <1>5

LEMMA WalkDef ==
  ASSUME NEW leaf
  PROVE  Walk(leaf) =
           [i \in 0 .. Depth |->
              IF i = 0 THEN leaf
              ELSE IF IsRight(next_leaf_index, i - 1)
                   THEN poseidon_hash_two(filled_subtree[i - 1], Walk(leaf)[i - 1])
                   ELSE poseidon_hash_two(Walk(leaf)[i - 1], zero_hashes[i - 1])]
<1> DEFINE Upto(n, g) == g = [i \in 0 .. n |->
              IF i = 0 THEN leaf
              ELSE IF IsRight(next_leaf_index, i - 1)
                   THEN poseidon_hash_two(filled_subtree[i - 1], g[i - 1])
                   ELSE poseidon_hash_two(g[i - 1], zero_hashes[i - 1])]
           S == {n \in Nat : \E g : Upto(n, g)}
<1>1. 0 \in S
  <2>1. Upto(0, [i \in 0 .. 0 |-> leaf])
    OBVIOUS
  <2> QED BY <2>1
<1>2. ASSUME NEW n \in 0 .. Depth - 1, n \in S PROVE n + 1 \in S
  <2>1. PICK g : Upto(n, g)
    BY <1>2
  <2> DEFINE more == [i \in 0 .. n + 1 |->
                        IF i = n + 1
                        THEN IF IsRight(next_leaf_index, n)
                             THEN poseidon_hash_two(filled_subtree[n], g[n])
                             ELSE poseidon_hash_two(g[n], zero_hashes[n])
                        ELSE g[i]]
  <2>2. Upto(n + 1, more)
    BY <2>1, TreeConstantsOK
  <2>3. n + 1 \in Nat
    BY TreeConstantsOK
  <2> HIDE DEF Upto, more
  <2> QED BY <2>2, <2>3
<1>3. Depth \in S
  <2> HIDE DEF S
  <2> QED BY <1>1, <1>2, UpTo, TreeConstantsOK
<1>4. \E g : Upto(Depth, g)
  BY <1>3
<1>5. Walk(leaf) = CHOOSE g : Upto(Depth, g)
  BY DEF Walk
<1> QED BY <1>4, <1>5

LEMMA LevelsOfDef ==
  ASSUME NEW ls
  PROVE  LevelsOf(ls) =
           [d \in 0 .. Depth |->
              IF d = 0 THEN ls
              ELSE LET below == LevelsOf(ls)[d - 1]
                   IN [i \in 1 .. (Len(below) + 1) \div 2 |->
                         poseidon_hash_two(below[2*i - 1],
                                           NodeOr(below, 2*i - 1, zero_hashes[d - 1]))]]
<1> DEFINE Over(below, zero) ==
             [i \in 1 .. (Len(below) + 1) \div 2 |->
                poseidon_hash_two(below[2*i - 1], NodeOr(below, 2*i - 1, zero))]
           Row(g, d) == IF d = 0 THEN ls ELSE Over(g[d - 1], zero_hashes[d - 1])
           Upto(n, g) == g = [d \in 0 .. n |-> Row(g, d)]
           S == {n \in Nat : \E g : Upto(n, g)}
<1>1. 0 \in S
  <2>1. Upto(0, [d \in 0 .. 0 |-> ls])
    OBVIOUS
  <2> QED BY <2>1
<1>2. ASSUME NEW n \in 0 .. Depth - 1, n \in S PROVE n + 1 \in S
  <2>1. PICK g : Upto(n, g)
    BY <1>2
  <2> DEFINE more == [d \in 0 .. n + 1 |->
                        IF d = n + 1 THEN Over(g[n], zero_hashes[n]) ELSE g[d]]
  <2>2. Upto(n + 1, more)
    <3> HIDE DEF Over
    <3> QED BY <2>1, TreeConstantsOK
  <2>3. n + 1 \in Nat
    BY TreeConstantsOK
  <2> HIDE DEF Upto, more
  <2> QED BY <2>2, <2>3
<1>3. Depth \in S
  <2> HIDE DEF S
  <2> QED BY <1>1, <1>2, UpTo, TreeConstantsOK
<1>4. \E g : Upto(Depth, g)
  BY <1>3
<1>5. LevelsOf(ls) = CHOOSE g : Upto(Depth, g)
  BY DEF LevelsOf
<1> QED BY <1>4, <1>5

LEMMA ReferenceNodesDef ==
  ASSUME NEW ls
  PROVE  ReferenceNodes(ls) =
           [d \in 0 .. Depth |->
              IF d = 0 THEN [j \in Nat |-> NodeOr(ls, j, Zero)]
              ELSE [j \in Nat |-> poseidon_hash_two(ReferenceNodes(ls)[d - 1][2*j],
                                                    ReferenceNodes(ls)[d - 1][2*j + 1])]]
<1> DEFINE Over(row) == [j \in Nat |-> poseidon_hash_two(row[2*j], row[2*j + 1])]
           Row(g, d) == IF d = 0 THEN [j \in Nat |-> NodeOr(ls, j, Zero)] ELSE Over(g[d - 1])
           Upto(n, g) == g = [d \in 0 .. n |-> Row(g, d)]
           S == {n \in Nat : \E g : Upto(n, g)}
<1>1. 0 \in S
  <2>1. Upto(0, [d \in 0 .. 0 |-> [j \in Nat |-> NodeOr(ls, j, Zero)]])
    OBVIOUS
  <2> QED BY <2>1
<1>2. ASSUME NEW n \in 0 .. Depth - 1, n \in S PROVE n + 1 \in S
  <2>1. PICK g : Upto(n, g)
    BY <1>2
  <2> DEFINE more == [d \in 0 .. n + 1 |-> IF d = n + 1 THEN Over(g[n]) ELSE g[d]]
  <2>2. Upto(n + 1, more)
    <3> HIDE DEF Over
    <3> QED BY <2>1, TreeConstantsOK
  <2>3. n + 1 \in Nat
    BY TreeConstantsOK
  <2> HIDE DEF Upto, more
  <2> QED BY <2>2, <2>3
<1>3. Depth \in S
  <2> HIDE DEF S
  <2> QED BY <1>1, <1>2, UpTo, TreeConstantsOK
<1>4. \E g : Upto(Depth, g)
  BY <1>3
<1>5. ReferenceNodes(ls) = CHOOSE g : Upto(Depth, g)
  BY DEF ReferenceNodes
<1> QED BY <1>4, <1>5

LEMMA CheckerDef ==
  ASSUME NEW leaf, NEW pathElements, NEW pathIndices
  PROVE  \E currentHash :
           /\ currentHash =
                [i \in 0 .. Depth |->
                   IF i = 0 THEN leaf
                   ELSE LET in == DualMux(currentHash[i - 1], pathElements[i - 1],
                                          pathIndices[i - 1])
                        IN poseidon_hash_two(in[1], in[2])]
           /\ MerkleTreeChecker(leaf, pathElements, pathIndices) = currentHash[Depth]
<1> DEFINE Upto(n, g) == g = [i \in 0 .. n |->
              IF i = 0 THEN leaf
              ELSE LET in == DualMux(g[i - 1], pathElements[i - 1], pathIndices[i - 1])
                   IN poseidon_hash_two(in[1], in[2])]
           S == {n \in Nat : \E g : Upto(n, g)}
<1>1. 0 \in S
  <2>1. Upto(0, [i \in 0 .. 0 |-> leaf])
    OBVIOUS
  <2> QED BY <2>1
<1>2. ASSUME NEW n \in 0 .. Depth - 1, n \in S PROVE n + 1 \in S
  <2>1. PICK g : Upto(n, g)
    BY <1>2
  <2> DEFINE more == [i \in 0 .. n + 1 |->
                        IF i = n + 1
                        THEN LET in == DualMux(g[n], pathElements[n], pathIndices[n])
                             IN poseidon_hash_two(in[1], in[2])
                        ELSE g[i]]
  <2> DEFINE RHS(h, i) == IF i = 0 THEN leaf
              ELSE LET in == DualMux(h[i - 1], pathElements[i - 1], pathIndices[i - 1])
                   IN poseidon_hash_two(in[1], in[2])
  <2>4. ASSUME NEW i \in 0 .. n + 1 PROVE more[i] = RHS(more, i)
    <3>1. CASE i = n + 1
      BY <3>1, TreeConstantsOK
    <3>2. CASE i # n + 1
      <4>1. i \in 0 .. n /\ more[i] = g[i] /\ g[i] = RHS(g, i)
        BY <2>1, <3>2
      <4>2. i = 0 \/ more[i - 1] = g[i - 1]
        BY <4>1
      <4> QED BY <4>1, <4>2
    <3> QED BY <3>1, <3>2
  <2>2. Upto(n + 1, more)
    <3>1. more = [i \in 0 .. n + 1 |-> more[i]]
      OBVIOUS
    <3> HIDE DEF more
    <3> QED BY <2>4, <3>1
  <2>3. n + 1 \in Nat
    BY TreeConstantsOK
  <2> HIDE DEF Upto, more
  <2> QED BY <2>2, <2>3
<1>3. Depth \in S
  <2> HIDE DEF S
  <2> QED BY <1>1, <1>2, UpTo, TreeConstantsOK
<1>4. PICK g : g = CHOOSE h : Upto(Depth, h)
  OBVIOUS
<1>5. Upto(Depth, g)
  BY <1>3, <1>4
<1>6. MerkleTreeChecker(leaf, pathElements, pathIndices) = g[Depth]
  BY <1>4 DEF MerkleTreeChecker
<1> HIDE DEF S
<1> QED BY <1>5, <1>6

-----------------------------------------------------------------------------
(* Places in the tree *)

\* A right child is one more than twice its parent's place, a left child twice it.
LEMMA Halves ==
  ASSUME NEW p \in Nat, NEW q \in Nat, q = p \div 2
  PROVE  /\ p % 2 = 1 => p = 2 * q + 1 /\ p - 1 = 2 * q /\ p - 1 \in Nat
         /\ p % 2 # 1 => p = 2 * q
OBVIOUS

\* Level by level, a walk halves its place.
LEMMA Walks ==
  ASSUME NEW index \in Nat
  PROVE  /\ Position(index)[0] = index
         /\ \A d \in 0 .. Depth : Position(index)[d] \in Nat
         /\ \A d \in Levels : Position(index)[d + 1] = Position(index)[d] \div 2
<1> DEFINE at == Position(index)
           S == {d \in 0 .. Depth : at[d] \in Nat}
<1>1. at[0] = index /\ \A d \in Levels : at[d + 1] = at[d] \div 2
  BY PositionDef, TreeConstantsOK DEF Levels
<1> HIDE DEF at
<1>2. 0 \in S
  BY <1>1, TreeConstantsOK
<1>3. \A d \in 0 .. Depth - 1 : d \in S => d + 1 \in S
  BY <1>1, TreeConstantsOK DEF Levels
<1>4. \A d \in 0 .. Depth : d \in S
  <2> HIDE DEF S
  <2> QED BY <1>2, <1>3, UpTo, TreeConstantsOK
<1> QED BY <1>1, <1>4 DEF at

\* A node has twice the leaves of one a level below.
LEMMA Capacities ==
  /\ \A d \in 0 .. Depth : LeavesUnder[d] \in Nat
  /\ LeavesUnder[0] = 1
  /\ \A d \in Levels : LeavesUnder[d + 1] = 2 * LeavesUnder[d]
<1> DEFINE S == {d \in 0 .. Depth : LeavesUnder[d] \in Nat}
<1>1. LeavesUnder[0] = 1
  BY LeavesUnderDef, TreeConstantsOK
<1>2. ASSUME NEW d \in Levels PROVE LeavesUnder[d + 1] = 2 * LeavesUnder[d]
  <2>1. d + 1 \in 0 .. Depth /\ d + 1 # 0 /\ (d + 1) - 1 = d
    BY TreeConstantsOK DEF Levels
  <2> QED BY <2>1, LeavesUnderDef
<1>3. 0 \in S
  BY <1>1, TreeConstantsOK
<1>4. \A d \in 0 .. Depth - 1 : d \in S => d + 1 \in S
  BY <1>2, TreeConstantsOK DEF Levels
<1>5. \A d \in 0 .. Depth : d \in S
  <2> HIDE DEF S
  <2> QED BY <1>3, <1>4, UpTo, TreeConstantsOK
<1> QED BY <1>1, <1>2, <1>5

LEMMA CapacityNat == capacity \in Nat
BY Capacities, TreeConstantsOK DEF capacity

\* There is one place at the top for all the leaves the capacity allows.
LEMMA OneRoot ==
  ASSUME NEW index \in Nat, index < capacity
  PROVE  Position(index)[Depth] = 0
<1> DEFINE at == Position(index)
           S == {d \in 0 .. Depth : at[d] < LeavesUnder[Depth - d]}
<1>1. /\ at[0] = index /\ \A d \in 0 .. Depth : at[d] \in Nat
      /\ \A d \in Levels : at[d + 1] = at[d] \div 2
  BY Walks
<1> HIDE DEF at
<1>2. 0 \in S
  BY <1>1, TreeConstantsOK DEF capacity
<1>3. ASSUME NEW d \in 0 .. Depth - 1, d \in S PROVE d + 1 \in S
  <2>1. Depth - (d + 1) \in Levels /\ (Depth - (d + 1)) + 1 = Depth - d
    BY TreeConstantsOK DEF Levels
  <2>2. LeavesUnder[Depth - d] = 2 * LeavesUnder[Depth - (d + 1)]
    BY <2>1, Capacities
  <2>3. LeavesUnder[Depth - (d + 1)] \in Nat
    <3>1. Depth - (d + 1) \in 0 .. Depth
      BY TreeConstantsOK
    <3> QED BY <3>1, Capacities
  <2>4. at[d + 1] = at[d] \div 2 /\ at[d] \in Nat
    BY <1>1, TreeConstantsOK DEF Levels
  <2> QED BY <1>3, <2>2, <2>3, <2>4, TreeConstantsOK
<1>4. Depth \in S
  <2> HIDE DEF S
  <2> QED BY <1>2, <1>3, UpTo, TreeConstantsOK
<1> QED BY <1>1, <1>4, Capacities, TreeConstantsOK DEF at

\* At every level, the walk from the next leaf is in the same place or one to the
\* right.
LEMMA NextWalk ==
  ASSUME NEW index \in Nat, NEW d \in 0 .. Depth
  PROVE  \/ Position(index + 1)[d] = Position(index)[d]
         \/ Position(index + 1)[d] = Position(index)[d] + 1
<1> DEFINE at == Position(index)
           next == Position(index + 1)
           S == {e \in 0 .. Depth : next[e] = at[e] \/ next[e] = at[e] + 1}
<1>1. /\ at[0] = index /\ \A e \in 0 .. Depth : at[e] \in Nat
      /\ \A e \in Levels : at[e + 1] = at[e] \div 2
  BY Walks
<1>2. /\ next[0] = index + 1
      /\ \A e \in Levels : next[e + 1] = next[e] \div 2
  BY Walks
<1> HIDE DEF at, next
<1>3. 0 \in S
  BY <1>1, <1>2, TreeConstantsOK
<1>4. ASSUME NEW e \in 0 .. Depth - 1, e \in S PROVE e + 1 \in S
  <2>1. e \in Levels /\ e + 1 \in 0 .. Depth /\ at[e] \in Nat
    BY <1>1, TreeConstantsOK DEF Levels
  <2> QED BY <1>1, <1>2, <1>4, <2>1
<1>5. d \in S
  <2> HIDE DEF S
  <2> QED BY <1>3, <1>4, UpTo, TreeConstantsOK
<1> QED BY <1>5 DEF at, next

-----------------------------------------------------------------------------
(* The reference tree *)

\* A node of the reference tree is the pair of the two below it.
LEMMA Nodes ==
  ASSUME NEW ls, NEW j \in Nat
  PROVE  /\ ReferenceNodes(ls)[0][j] = NodeOr(ls, j, Zero)
         /\ \A d \in Levels : ReferenceNodes(ls)[d + 1][j] =
              <<ReferenceNodes(ls)[d][2*j], ReferenceNodes(ls)[d][2*j + 1]>>
<1>1. ReferenceNodes(ls)[0] = [i \in Nat |-> NodeOr(ls, i, Zero)]
  BY ReferenceNodesDef, TreeConstantsOK
<1>2. ASSUME NEW d \in Levels
      PROVE  ReferenceNodes(ls)[d + 1] =
               [i \in Nat |-> <<ReferenceNodes(ls)[d][2*i], ReferenceNodes(ls)[d][2*i + 1]>>]
  <2>1. d + 1 \in 0 .. Depth /\ d + 1 # 0 /\ (d + 1) - 1 = d
    BY TreeConstantsOK DEF Levels
  <2> DEFINE Over(row) == [i \in Nat |-> poseidon_hash_two(row[2*i], row[2*i + 1])]
  <2>2. ReferenceNodes(ls) =
          [e \in 0 .. Depth |-> IF e = 0 THEN [i \in Nat |-> NodeOr(ls, i, Zero)]
                               ELSE Over(ReferenceNodes(ls)[e - 1])]
    BY ReferenceNodesDef
  <2>3. ReferenceNodes(ls)[d + 1] = Over(ReferenceNodes(ls)[d])
    <3> HIDE DEF Over
    <3> QED BY <2>1, <2>2
  <2> QED BY <2>3 DEF poseidon_hash_two
<1> QED BY <1>1, <1>2

\* An empty subtree is the pair of two a level lower.
LEMMA Zeros ==
  /\ zero_hashes[0] = Zero
  /\ \A d \in Levels : zero_hashes[d + 1] = <<zero_hashes[d], zero_hashes[d]>>
<1>1. zero_hashes[0] = Zero
  BY ZeroHashesDef, TreeConstantsOK
<1>2. ASSUME NEW d \in Levels PROVE zero_hashes[d + 1] = <<zero_hashes[d], zero_hashes[d]>>
  <2>1. d + 1 \in 0 .. Depth /\ d + 1 # 0 /\ (d + 1) - 1 = d
    BY TreeConstantsOK DEF Levels
  <2> QED BY <2>1, ZeroHashesDef DEF poseidon_hash_two
<1> QED BY <1>1, <1>2

\* An append changes no node to the left of its walk.
LEMMA NodesLeft ==
  ASSUME NEW ls \in Seq(Commitments), NEW leaf \in Commitments,
         NEW d \in 0 .. Depth, NEW j \in Nat, j < Position(Len(ls))[d]
  PROVE  ReferenceNodes(Append(ls, leaf))[d][j] = ReferenceNodes(ls)[d][j]
<1> DEFINE at == Position(Len(ls))
           new == ReferenceNodes(Append(ls, leaf))
           old == ReferenceNodes(ls)
           S == {e \in 0 .. Depth : \A i \in Nat : i < at[e] => new[e][i] = old[e][i]}
<1>1. /\ at[0] = Len(ls) /\ \A e \in 0 .. Depth : at[e] \in Nat
      /\ \A e \in Levels : at[e + 1] = at[e] \div 2
  BY Walks
<1>2. \A i \in Nat : /\ new[0][i] = NodeOr(Append(ls, leaf), i, Zero)
                     /\ \A e \in Levels : new[e + 1][i] = <<new[e][2*i], new[e][2*i + 1]>>
  BY Nodes
<1>3. \A i \in Nat : /\ old[0][i] = NodeOr(ls, i, Zero)
                     /\ \A e \in Levels : old[e + 1][i] = <<old[e][2*i], old[e][2*i + 1]>>
  BY Nodes
<1> HIDE DEF at, new, old
<1>4. 0 \in S
  <2> SUFFICES ASSUME NEW i \in Nat, i < Len(ls) PROVE new[0][i] = old[0][i]
    BY <1>1, TreeConstantsOK
  <2>1. i < Len(Append(ls, leaf)) /\ Append(ls, leaf)[i + 1] = ls[i + 1]
    OBVIOUS
  <2> QED BY <1>2, <1>3, <2>1 DEF NodeOr
<1>5. ASSUME NEW e \in 0 .. Depth - 1, e \in S PROVE e + 1 \in S
  <2>1. e \in Levels /\ e + 1 \in 0 .. Depth /\ at[e] \in Nat /\ at[e + 1] = at[e] \div 2
    BY <1>1, TreeConstantsOK DEF Levels
  <2>2. ASSUME NEW i \in Nat, i < at[e + 1] PROVE new[e + 1][i] = old[e + 1][i]
    <3>1. 2*i \in Nat /\ 2*i + 1 \in Nat /\ 2*i < at[e] /\ 2*i + 1 < at[e]
      BY <2>1, <2>2
    <3>2. new[e][2*i] = old[e][2*i] /\ new[e][2*i + 1] = old[e][2*i + 1]
      BY <1>5, <3>1
    <3>3. new[e + 1][i] = <<new[e][2*i], new[e][2*i + 1]>>
      BY <1>2, <2>1
    <3>4. old[e + 1][i] = <<old[e][2*i], old[e][2*i + 1]>>
      BY <1>3, <2>1
    <3> QED BY <3>2, <3>3, <3>4
  <2> QED BY <2>1, <2>2
<1>6. d \in S
  <2> HIDE DEF S
  <2> QED BY <1>4, <1>5, UpTo, TreeConstantsOK
<1> QED BY <1>6 DEF at, new, old

\* What is to the right of the walk is empty.
LEMMA NodesRight ==
  ASSUME NEW ls \in Seq(Commitments), NEW leaf \in Commitments,
         NEW d \in 0 .. Depth, NEW j \in Nat, j > Position(Len(ls))[d]
  PROVE  ReferenceNodes(Append(ls, leaf))[d][j] = zero_hashes[d]
<1> DEFINE at == Position(Len(ls))
           new == ReferenceNodes(Append(ls, leaf))
           S == {e \in 0 .. Depth : \A i \in Nat : i > at[e] => new[e][i] = zero_hashes[e]}
<1>1. /\ at[0] = Len(ls) /\ \A e \in 0 .. Depth : at[e] \in Nat
      /\ \A e \in Levels : at[e + 1] = at[e] \div 2
  BY Walks
<1>2. \A i \in Nat : /\ new[0][i] = NodeOr(Append(ls, leaf), i, Zero)
                     /\ \A e \in Levels : new[e + 1][i] = <<new[e][2*i], new[e][2*i + 1]>>
  BY Nodes
<1> HIDE DEF at, new
<1>3. 0 \in S
  <2> SUFFICES ASSUME NEW i \in Nat, i > Len(ls) PROVE new[0][i] = Zero
    BY <1>1, Zeros, TreeConstantsOK
  <2>1. ~(i < Len(Append(ls, leaf)))
    OBVIOUS
  <2> QED BY <1>2, <2>1 DEF NodeOr
<1>4. ASSUME NEW e \in 0 .. Depth - 1, e \in S PROVE e + 1 \in S
  <2>1. e \in Levels /\ e + 1 \in 0 .. Depth /\ at[e] \in Nat /\ at[e + 1] = at[e] \div 2
    BY <1>1, TreeConstantsOK DEF Levels
  <2>2. ASSUME NEW i \in Nat, i > at[e + 1] PROVE new[e + 1][i] = zero_hashes[e + 1]
    <3>1. 2*i \in Nat /\ 2*i + 1 \in Nat /\ 2*i > at[e] /\ 2*i + 1 > at[e]
      BY <2>1, <2>2
    <3>2. new[e][2*i] = zero_hashes[e] /\ new[e][2*i + 1] = zero_hashes[e]
      BY <1>4, <3>1
    <3> QED BY <1>2, <2>1, <3>2, Zeros
  <2> QED BY <2>1, <2>2
<1>5. d \in S
  <2> HIDE DEF S
  <2> QED BY <1>3, <1>4, UpTo, TreeConstantsOK
<1> QED BY <1>5 DEF at, new

-----------------------------------------------------------------------------
(* Appending *)

\* Where the walk from the next leaf will come from the right, the frontier holds
\* the node to its left.
FrontierOf(ls) ==
  \A d \in Levels : IsRight(Len(ls), d) =>
    filled_subtree[d] = ReferenceNodes(ls)[d][Position(Len(ls))[d] - 1]

\* The walk passes through the nodes of the tree with the new leaf.
LEMMA WalkIsReference ==
  ASSUME leaves \in Seq(Commitments), next_leaf_index = Len(leaves), FrontierOf(leaves),
         NEW leaf \in Commitments, NEW d \in 0 .. Depth
  PROVE  Walk(leaf)[d] = ReferenceNodes(Append(leaves, leaf))[d][Position(Len(leaves))[d]]
<1> DEFINE at == Position(Len(leaves))
           new == ReferenceNodes(Append(leaves, leaf))
           walk == Walk(leaf)
           S == {e \in 0 .. Depth : walk[e] = new[e][at[e]]}
<1>1. /\ at[0] = Len(leaves) /\ \A e \in 0 .. Depth : at[e] \in Nat
      /\ \A e \in Levels : at[e + 1] = at[e] \div 2
  BY Walks
<1>2. \A i \in Nat : /\ new[0][i] = NodeOr(Append(leaves, leaf), i, Zero)
                     /\ \A e \in Levels : new[e + 1][i] = <<new[e][2*i], new[e][2*i + 1]>>
  BY Nodes
<1>3. walk[0] = leaf
  BY WalkDef, TreeConstantsOK
<1>4. ASSUME NEW e \in Levels
      PROVE  walk[e + 1] = IF at[e] % 2 = 1 THEN <<filled_subtree[e], walk[e]>>
                                            ELSE <<walk[e], zero_hashes[e]>>
  <2>1. e + 1 \in 0 .. Depth /\ e + 1 # 0 /\ (e + 1) - 1 = e
    BY TreeConstantsOK DEF Levels
  <2> DEFINE Up(i) == IF i = 0 THEN leaf
                      ELSE IF IsRight(next_leaf_index, i - 1)
                           THEN poseidon_hash_two(filled_subtree[i - 1], walk[i - 1])
                           ELSE poseidon_hash_two(walk[i - 1], zero_hashes[i - 1])
  <2>2. walk = [i \in 0 .. Depth |-> Up(i)]
    BY WalkDef
  <2>3. walk[e + 1] = Up(e + 1)
    <3> HIDE DEF Up, walk
    <3> QED BY <2>1, <2>2
  <2> HIDE DEF walk
  <2> QED BY <2>1, <2>3 DEF IsRight, poseidon_hash_two
<1>5. 0 \in S
  <2>1. Len(leaves) < Len(Append(leaves, leaf)) /\ Append(leaves, leaf)[Len(leaves) + 1] = leaf
    OBVIOUS
  <2> QED BY <1>1, <1>2, <1>3, <2>1, TreeConstantsOK DEF NodeOr
<1>6. ASSUME NEW e \in 0 .. Depth - 1, e \in S PROVE e + 1 \in S
  <2>1. e \in Levels /\ e \in 0 .. Depth /\ e + 1 \in 0 .. Depth
    BY TreeConstantsOK DEF Levels
  <2>2. at[e] \in Nat /\ at[e + 1] \in Nat /\ at[e + 1] = at[e] \div 2
    BY <1>1, <2>1
  <2>3. new[e + 1][at[e + 1]] = <<new[e][2 * at[e + 1]], new[e][2 * at[e + 1] + 1]>>
    BY <1>2, <2>1, <2>2
  <2>4. CASE at[e] % 2 = 1
    <3>1. at[e] = 2 * at[e + 1] + 1 /\ at[e] - 1 \in Nat /\ at[e] - 1 < at[e]
      <4> HIDE DEF at
      <4>1. at[e] = 2 * at[e + 1] + 1 /\ at[e] - 1 \in Nat
        BY <2>2, <2>4, Halves
      <4> QED BY <2>2, <4>1
    <3>2. filled_subtree[e] = ReferenceNodes(leaves)[e][at[e] - 1]
      BY <2>1, <2>4 DEF FrontierOf, IsRight
    <3>3. filled_subtree[e] = new[e][at[e] - 1]
      BY <2>1, <3>1, <3>2, NodesLeft
    <3>4. walk[e + 1] = <<new[e][2 * at[e + 1]], new[e][2 * at[e + 1] + 1]>>
      <4>1. walk[e + 1] = <<filled_subtree[e], walk[e]>> /\ walk[e] = new[e][at[e]]
        BY <1>4, <1>6, <2>1, <2>4
      <4>2. at[e] - 1 = 2 * at[e + 1]
        BY <2>2, <3>1
      <4> HIDE DEF walk, new, at
      <4> QED BY <3>1, <3>3, <4>1, <4>2
    <3> QED BY <2>1, <2>3, <3>4
  <2>5. CASE at[e] % 2 # 1
    <3>1. at[e] = 2 * at[e + 1] /\ at[e] + 1 \in Nat /\ at[e] + 1 > at[e]
      BY <2>2, <2>5
    <3>2. new[e][at[e] + 1] = zero_hashes[e]
      BY <2>1, <3>1, NodesRight
    <3>3. walk[e + 1] = <<walk[e], zero_hashes[e]>> /\ walk[e] = new[e][at[e]]
      BY <1>4, <1>6, <2>1, <2>5
    <3> HIDE DEF walk, new, at
    <3> QED BY <2>1, <2>3, <3>1, <3>2, <3>3
  <2> QED BY <2>4, <2>5
<1>7. d \in S
  <2> HIDE DEF S
  <2> QED BY <1>5, <1>6, UpTo, TreeConstantsOK
<1> QED BY <1>7

\* The frontier is the one the next leaf will need.
LEMMA FrontierMoves ==
  ASSUME leaves \in Seq(Commitments), next_leaf_index = Len(leaves), FrontierOf(leaves),
         NEW leaf \in Commitments, append(leaf)
  PROVE  FrontierOf(leaves)'
<1> DEFINE at == Position(Len(leaves))
           next == Position(Len(leaves) + 1)
<1>1. leaves' = Append(leaves, leaf) /\ Len(leaves') = Len(leaves) + 1
  BY DEF append
<1>2. SUFFICES ASSUME NEW d \in Levels, next[d] % 2 = 1
               PROVE  filled_subtree'[d] = ReferenceNodes(leaves')[d][next[d] - 1]
  BY <1>1 DEF FrontierOf, IsRight
<1>3. d \in 0 .. Depth /\ at[d] \in Nat /\ next[d] \in Nat
  BY Walks, TreeConstantsOK DEF Levels
<1>4. filled_subtree'[d] = IF at[d] % 2 = 1 THEN filled_subtree[d] ELSE Walk(leaf)[d]
  BY DEF append, IsRight
<1>5. next[d] = at[d] \/ next[d] = at[d] + 1
  BY <1>3, NextWalk
<1>6. CASE at[d] % 2 = 1
  <2>1. next[d] = at[d] /\ at[d] - 1 \in Nat /\ at[d] - 1 < at[d]
    <3> HIDE DEF at, next
    <3> QED BY <1>2, <1>3, <1>5, <1>6
  <2>2. filled_subtree[d] = ReferenceNodes(leaves)[d][at[d] - 1]
    BY <1>6 DEF FrontierOf, IsRight
  <2>3. ReferenceNodes(leaves')[d][at[d] - 1] = ReferenceNodes(leaves)[d][at[d] - 1]
    BY <1>1, <1>3, <2>1, NodesLeft
  <2> HIDE DEF at, next
  <2> QED BY <1>4, <1>6, <2>1, <2>2, <2>3
<1>7. CASE at[d] % 2 # 1
  <2>1. next[d] - 1 = at[d]
    <3> HIDE DEF at, next
    <3> QED BY <1>2, <1>3, <1>5, <1>7
  <2>2. Walk(leaf)[d] = ReferenceNodes(leaves')[d][at[d]]
    BY <1>1, <1>3, WalkIsReference
  <2> HIDE DEF at, next
  <2> QED BY <1>4, <1>7, <2>1, <2>2
<1> QED BY <1>6, <1>7

\* The root that append pushes is that of the tree with the new leaf.
LEMMA PushedRoot ==
  ASSUME leaves \in Seq(Commitments), next_leaf_index = Len(leaves), FrontierOf(leaves),
         NEW leaf \in Commitments, append(leaf)
  PROVE  Walk(leaf)[Depth] = ReferenceRoot(leaves')
<1>1. leaves' = Append(leaves, leaf) /\ Len(leaves) < capacity /\ Len(leaves) \in Nat
  BY DEF append
<1>2. Position(Len(leaves))[Depth] = 0
  BY <1>1, OneRoot
<1>3. Walk(leaf)[Depth] = ReferenceNodes(leaves')[Depth][0]
  BY <1>1, <1>2, WalkIsReference, TreeConstantsOK
<1> QED BY <1>3 DEF ReferenceRoot

-----------------------------------------------------------------------------
(* The ring of roots *)

Slots == 0 .. RootHistoryLen - 1

\* CountInSlot after n appends.
LatestIn(i, n) ==
  LET ks == {k \in 1 .. n : k % RootHistoryLen = i}
  IN IF ks = {} THEN 0 ELSE CHOOSE k \in ks : \A j \in ks : j <= k

\* An append takes its slot over and leaves the others to who had them.
LEMMA LatestNext ==
  ASSUME NEW n \in Nat, NEW i \in Slots
  PROVE  LatestIn(i, n + 1) = IF (n + 1) % RootHistoryLen = i THEN n + 1 ELSE LatestIn(i, n)
<1> DEFINE ks(m) == {k \in 1 .. m : k % RootHistoryLen = i}
<1>1. CASE (n + 1) % RootHistoryLen = i
  <2>1. n + 1 \in ks(n + 1) /\ \A j \in ks(n + 1) : j \in Nat /\ j <= n + 1
    BY <1>1
  <2> HIDE DEF ks
  <2>2. (CHOOSE k \in ks(n + 1) : \A j \in ks(n + 1) : j <= k) = n + 1
    BY <2>1
  <2> QED BY <1>1, <2>1, <2>2 DEF LatestIn, ks
<1>2. CASE (n + 1) % RootHistoryLen # i
  <2>1. ks(n + 1) = ks(n)
    BY <1>2
  <2> DEFINE latest(s) == IF s = {} THEN 0 ELSE CHOOSE k \in s : \A j \in s : j <= k
  <2>2. LatestIn(i, n + 1) = latest(ks(n + 1)) /\ LatestIn(i, n) = latest(ks(n))
    BY DEF LatestIn
  <2> HIDE DEF ks, latest
  <2> QED BY <1>2, <2>1, <2>2
<1> QED BY <1>1, <1>2

\* No slot is ahead of the appends.
LEMMA LatestRange ==
  ASSUME NEW n \in Nat, NEW i \in Slots
  PROVE  LatestIn(i, n) \in 0 .. n
<1> DEFINE S == {m \in 0 .. n : LatestIn(i, m) \in 0 .. m}
<1>1. 0 \in S
  BY DEF LatestIn
<1>2. ASSUME NEW m \in 0 .. n - 1, m \in S PROVE m + 1 \in S
  BY <1>2, LatestNext
<1>3. n \in S
  <2> HIDE DEF S
  <2> QED BY <1>1, <1>2, UpTo
<1> QED BY <1>3

\* What a slot holds is less than a turn of the ring old.
LEMMA LatestIsRecent ==
  ASSUME NEW n \in Nat, NEW i \in Slots, LatestIn(i, n) # 0
  PROVE  LatestIn(i, n) \in 1 .. n /\ LatestIn(i, n) > n - RootHistoryLen
<1> DEFINE Recent(m) == LatestIn(i, m) # 0 =>
                          LatestIn(i, m) > m - RootHistoryLen
                          /\ LatestIn(i, m) % RootHistoryLen = i
           S == {m \in 0 .. n : Recent(m)}
<1>1. 0 \in S
  <2>1. LatestIn(i, 0) = 0
    BY LatestRange
  <2> QED BY <2>1
<1>2. ASSUME NEW m \in 0 .. n - 1, m \in S PROVE m + 1 \in S
  <2>1. m \in Nat /\ m + 1 \in 0 .. n /\ LatestIn(i, m) \in 0 .. m
        /\ RootHistoryLen \in Nat \ {0}
    BY LatestRange, TreeConstantsOK
  <2>2. LatestIn(i, m + 1) =
          IF (m + 1) % RootHistoryLen = i THEN m + 1 ELSE LatestIn(i, m)
    BY <2>1, LatestNext
  <2>3. CASE (m + 1) % RootHistoryLen = i
    BY <2>1, <2>2, <2>3
  <2>4. CASE (m + 1) % RootHistoryLen # i /\ LatestIn(i, m) # 0
    <3> DEFINE c == LatestIn(i, m)
    <3>1. c \in Nat /\ c > m - RootHistoryLen /\ c % RootHistoryLen = i
      BY <1>2, <2>1, <2>4
    <3>2. LatestIn(i, m + 1) = c
      BY <2>2, <2>4
    <3> HIDE DEF c
    <3>3. m + 1 # RootHistoryLen * 1 + c
      <4> SUFFICES ASSUME m + 1 = RootHistoryLen * 1 + c PROVE FALSE
        OBVIOUS
      <4>1. (m + 1) % RootHistoryLen = c % RootHistoryLen
        <5>1. m + 1 \in Nat /\ 1 \in Int
          BY <2>1
        <5> QED BY <2>1, <3>1, <5>1, SameMod
      <4> QED BY <2>4, <3>1, <4>1
    <3>4. c > (m + 1) - RootHistoryLen
      BY <2>1, <3>1, <3>3
    <3> QED BY <2>1, <3>1, <3>2, <3>4
  <2> QED BY <2>1, <2>2, <2>3, <2>4
<1>3. n \in S
  <2> HIDE DEF S
  <2>1. \A m \in 0 .. n : m \in S
    BY <1>1, <1>2, UpTo
  <2> QED BY <2>1
<1> QED BY <1>3, LatestRange

\* A root in the window is the latest in its slot.
LEMMA LatestInWindow ==
  ASSUME NEW n \in Nat, NEW k \in 1 .. n, k > n - RootHistoryLen
  PROVE  k % RootHistoryLen \in Slots /\ LatestIn(k % RootHistoryLen, n) = k
<1> DEFINE ks == {j \in 1 .. n : j % RootHistoryLen = k % RootHistoryLen}
<1>1. k % RootHistoryLen \in Slots
  BY DivMod, TreeConstantsOK DEF Slots
<1>2. k \in Nat /\ k \in ks /\ \A j \in ks : j \in Nat
  OBVIOUS
<1>3. ASSUME NEW j \in ks PROVE j <= k
  <2>1. j \in 1 .. n /\ j % RootHistoryLen = k % RootHistoryLen
    BY <1>3
  <2>2. SUFFICES ASSUME k < j PROVE FALSE
    BY <2>1
  <2>3. j < k + RootHistoryLen /\ k \in Nat /\ j \in Nat
    BY <2>1, TreeConstantsOK
  <2> QED BY <2>1, <2>2, <2>3, ModDistinct, TreeConstantsOK
<1> HIDE DEF ks
<1>4. (CHOOSE m \in ks : \A j \in ks : j <= m) = k
  <2>1. \A m \in ks : (\A j \in ks : j <= m) => m = k
    BY <1>2, <1>3
  <2>2. \A j \in ks : j <= k
    BY <1>3
  <2> QED BY <1>2, <2>1, <2>2
<1> QED BY <1>1, <1>2, <1>4 DEF LatestIn, ks

-----------------------------------------------------------------------------
(* What the program keeps *)

TreeInv ==
  /\ leaves \in Seq(Commitments) /\ next_leaf_index = Len(leaves)
  /\ next_leaf_index <= capacity
  /\ FrontierOf(leaves)
  /\ root_cursor = next_leaf_index % RootHistoryLen
  /\ root_history = [i \in Slots |-> root_history[i]]
  /\ HistoryHoldsReferenceRoots

\* The property over LatestIn, to speak of the counts before and after a step.
LEMMA HistoryOf ==
  ASSUME NEW n, n = next_leaf_index
  PROVE  HistoryHoldsReferenceRoots <=>
           \A i \in Slots :
             root_history[i] = IF LatestIn(i, n) = 0 THEN Zero
                               ELSE ReferenceRoot(SubSeq(leaves, 1, LatestIn(i, n)))
BY DEF HistoryHoldsReferenceRoots, CountInSlot, LatestIn, Slots

\* An empty tree's frontier is never needed: its first walk is from the left.
LEMMA TreeInit == Init => TreeInv
<1> SUFFICES ASSUME Init PROVE TreeInv
  OBVIOUS
<1>1. leaves = << >> /\ leaves \in Seq(Commitments) /\ next_leaf_index = Len(leaves)
  BY DEF Init
<1>2. capacity \in Nat
  BY CapacityNat
<1>3. FrontierOf(leaves)
  <2>1. \A d \in 0 .. Depth : Position(0)[d] = 0
    <3> DEFINE S == {d \in 0 .. Depth : Position(0)[d] = 0}
    <3>1. 0 \in S
      BY Walks, TreeConstantsOK
    <3>2. \A d \in 0 .. Depth - 1 : d \in S => d + 1 \in S
      BY Walks, TreeConstantsOK DEF Levels
    <3> HIDE DEF S
    <3>3. \A d \in 0 .. Depth : d \in S
      BY <3>1, <3>2, UpTo, TreeConstantsOK
    <3> QED BY <3>3 DEF S
  <2>2. \A d \in Levels : Position(0)[d] = 0
    BY <2>1, TreeConstantsOK DEF Levels
  <2> QED BY <1>1, <2>2 DEF FrontierOf, IsRight
<1>4. root_cursor = next_leaf_index % RootHistoryLen
  BY TreeConstantsOK DEF Init
<1>5. root_history = [i \in Slots |-> root_history[i]]
  BY DEF Init, Slots
<1>6. HistoryHoldsReferenceRoots
  <2>1. next_leaf_index = 0 /\ \A i \in Slots : LatestIn(i, 0) = 0 /\ root_history[i] = Zero
    <3>1. \A i \in Slots : LatestIn(i, 0) = 0
      BY LatestRange
    <3> QED BY <3>1 DEF Init, Slots
  <2> QED BY <2>1, HistoryOf
<1> QED BY <1>1, <1>2, <1>3, <1>4, <1>5, <1>6 DEF TreeInv, Init

\* Walk and frontier are right together, and one ring slot changes.
LEMMA TreeStep == TreeInv /\ [Next]_vars => TreeInv'
<1> SUFFICES ASSUME TreeInv, [Next]_vars PROVE TreeInv'
  OBVIOUS
<1>1. CASE UNCHANGED vars
  <2>1. HistoryHoldsReferenceRoots'
    BY <1>1 DEF TreeInv, HistoryHoldsReferenceRoots, CountInSlot, vars
  <2> QED BY <1>1, <2>1 DEF TreeInv, vars, FrontierOf
<1>2. ASSUME NEW leaf \in Commitments, append(leaf) PROVE TreeInv'
  <2> DEFINE n == next_leaf_index
             cursor == (root_cursor + 1) % RootHistoryLen
  <2>1. n = Len(leaves) /\ n \in Nat /\ n < capacity /\ capacity \in Nat
    BY <1>2, CapacityNat DEF TreeInv, append
  <2>2. leaves' = Append(leaves, leaf) /\ leaves' \in Seq(Commitments)
        /\ next_leaf_index' = n + 1 /\ Len(leaves') = n + 1
    BY <1>2, <2>1 DEF TreeInv, append
  <2>3. FrontierOf(leaves)'
    BY <1>2, FrontierMoves DEF TreeInv
  <2>4. cursor = (n + 1) % RootHistoryLen /\ cursor \in Slots
    <3>1. root_cursor = n % RootHistoryLen
      BY DEF TreeInv
    <3>2. n + 1 \in Nat /\ RootHistoryLen \in Nat \ {0}
      BY <2>1, TreeConstantsOK
    <3> HIDE DEF n
    <3> QED BY <2>1, <3>1, <3>2, ModSucc, DivMod DEF Slots
  <2>5. root_history' = [root_history EXCEPT ![cursor] = ReferenceRoot(leaves')]
    BY <1>2, PushedRoot DEF TreeInv, append
  <2>6. root_history' = [i \in Slots |-> root_history'[i]]
    BY <2>4, <2>5 DEF TreeInv
  <2>7. ASSUME NEW i \in Slots
        PROVE  root_history'[i] = IF LatestIn(i, n + 1) = 0 THEN Zero
                                  ELSE ReferenceRoot(SubSeq(leaves', 1, LatestIn(i, n + 1)))
    <3>1. CASE i = cursor
      <4>1. LatestIn(i, n + 1) = n + 1
        BY <2>1, <2>4, <3>1, LatestNext
      <4>2. root_history'[i] = ReferenceRoot(leaves')
        BY <2>4, <2>5, <3>1 DEF TreeInv
      <4>3. SubSeq(leaves', 1, n + 1) = leaves'
        BY <2>1, <2>2
      <4>4. LatestIn(i, n + 1) # 0
        BY <2>1, <4>1
      <4> QED BY <4>1, <4>2, <4>3, <4>4
    <3>2. CASE i # cursor
      <4>1. LatestIn(i, n + 1) = LatestIn(i, n) /\ LatestIn(i, n) \in 0 .. n
        BY <2>1, <2>4, <3>2, LatestNext, LatestRange
      <4>2. root_history'[i] = root_history[i]
        BY <2>4, <2>5, <3>2 DEF TreeInv
      <4>3. root_history[i] = IF LatestIn(i, n) = 0 THEN Zero
                              ELSE ReferenceRoot(SubSeq(leaves, 1, LatestIn(i, n)))
        BY HistoryOf DEF TreeInv
      <4>4. SubSeq(leaves', 1, LatestIn(i, n)) = SubSeq(leaves, 1, LatestIn(i, n))
        BY <2>1, <2>2, <4>1 DEF TreeInv
      <4> HIDE DEF n
      <4> QED BY <4>1, <4>2, <4>3, <4>4
    <3> QED BY <3>1, <3>2
  <2>8. HistoryHoldsReferenceRoots'
    BY <2>2, <2>7 DEF HistoryHoldsReferenceRoots, CountInSlot, LatestIn, Slots
  <2>9. root_cursor' = next_leaf_index' % RootHistoryLen
    BY <1>2, <2>2, <2>4 DEF append
  <2> HIDE DEF n
  <2> QED BY <2>1, <2>2, <2>3, <2>6, <2>8, <2>9 DEF TreeInv
<1> QED BY <1>1, <1>2 DEF Next

LEMMA TreeInvariant == Spec => []TreeInv
BY TreeInit, TreeStep, PTL DEF Spec

\* Whatever the height of the tree and the length of the ring, the frontier's log
\* work is the whole tree's: each slot of the ring has the root of all the leaves
\* up to the last append that wrote it (merkle.rs append).
THEOREM RootsAreReference == Spec => []HistoryHoldsReferenceRoots
<1>1. TreeInv => HistoryHoldsReferenceRoots
  BY DEF TreeInv
<1> QED BY <1>1, TreeInvariant, PTL

-----------------------------------------------------------------------------
(* Paths rebuilt off chain *)

\* The level one above: half as many nodes, rounded up.
Above(below, zero) ==
  [i \in 1 .. (Len(below) + 1) \div 2 |->
     poseidon_hash_two(below[2*i - 1], NodeOr(below, 2*i - 1, zero))]

\* Each level of the rebuilt tree is the one above the last.
LEMMA LevelAbove ==
  ASSUME NEW ls
  PROVE  /\ LevelsOf(ls)[0] = ls
         /\ \A d \in Levels : LevelsOf(ls)[d + 1] = Above(LevelsOf(ls)[d], zero_hashes[d])
<1>1. LevelsOf(ls) = [d \in 0 .. Depth |->
        IF d = 0 THEN ls ELSE Above(LevelsOf(ls)[d - 1], zero_hashes[d - 1])]
  BY LevelsOfDef DEF Above
<1>2. ASSUME NEW d \in Levels
      PROVE  LevelsOf(ls)[d + 1] = Above(LevelsOf(ls)[d], zero_hashes[d])
  <2>1. d + 1 \in 0 .. Depth /\ d + 1 # 0 /\ (d + 1) - 1 = d
    BY TreeConstantsOK DEF Levels
  <2> QED BY <1>1, <2>1
<1>3. LevelsOf(ls)[0] = ls
  BY <1>1, TreeConstantsOK
<1> QED BY <1>2, <1>3

\* With empty subtrees to its right, a level is a row of the reference tree.
IsRow(level, zero, row) ==
  Len(level) \in Nat /\ \A j \in Nat : NodeOr(level, j, zero) = row[j]

\* If a level is a row of the reference tree, so is the one above it.
LEMMA AboveIsRow ==
  ASSUME NEW below, NEW zero, NEW node, IsRow(below, zero, node)
  PROVE  IsRow(Above(below, zero), <<zero, zero>>, [j \in Nat |-> <<node[2*j], node[2*j + 1]>>])
<1> DEFINE m == (Len(below) + 1) \div 2
           above == Above(below, zero)
<1>0. Len(below) \in Nat /\ \A j \in Nat : NodeOr(below, j, zero) = node[j]
  BY DEF IsRow
<1>1. m \in Nat /\ above = [i \in 1 .. m |-> <<below[2*i - 1], NodeOr(below, 2*i - 1, zero)>>]
  BY <1>0 DEF Above, poseidon_hash_two
<1>2. Len(above) = m
  <2> HIDE DEF m, above
  <2>1. DOMAIN above = 1 .. m
    BY <1>1
  <2> QED BY <1>1, <2>1
<1>3. ASSUME NEW j \in Nat
      PROVE  NodeOr(above, j, <<zero, zero>>) = <<node[2*j], node[2*j + 1]>>
  <2>1. NodeOr(below, 2*j, zero) = node[2*j] /\ NodeOr(below, 2*j + 1, zero) = node[2*j + 1]
    BY <1>0
  <2>2. CASE j < m
    <3>1. j + 1 \in 1 .. m /\ 2*j < Len(below) /\ 2*(j + 1) - 1 = 2*j + 1
      BY <1>0, <2>2
    <3>2. above[j + 1] = <<below[2*j + 1], NodeOr(below, 2*j + 1, zero)>>
      <4> HIDE DEF above, m
      <4> QED BY <1>1, <3>1
    <3>3. below[2*j + 1] = node[2*j]
      BY <2>1, <3>1 DEF NodeOr
    <3>4. NodeOr(above, j, <<zero, zero>>) = above[j + 1]
      BY <1>2, <2>2 DEF NodeOr
    <3> QED BY <2>1, <3>2, <3>3, <3>4
  <2>3. CASE ~(j < m)
    <3>1. ~(2*j < Len(below)) /\ ~(2*j + 1 < Len(below))
      BY <1>0, <2>3
    <3>2. node[2*j] = zero /\ node[2*j + 1] = zero
      BY <2>1, <3>1 DEF NodeOr
    <3>3. NodeOr(above, j, <<zero, zero>>) = <<zero, zero>>
      BY <1>2, <2>3 DEF NodeOr
    <3> QED BY <3>2, <3>3
  <2> QED BY <2>2, <2>3
<1> QED BY <1>1, <1>2, <1>3 DEF IsRow

\* Built from the leaves there are, each level has the reference tree's nodes.
LEMMA LevelsAreReference ==
  ASSUME NEW ls \in Seq(Commitments), NEW d \in 0 .. Depth, NEW j \in Nat
  PROVE  NodeOr(LevelsOf(ls)[d], j, zero_hashes[d]) = ReferenceNodes(ls)[d][j]
<1> DEFINE level == LevelsOf(ls)
           node == ReferenceNodes(ls)
           S == {e \in 0 .. Depth : IsRow(level[e], zero_hashes[e], node[e])}
<1>1. level[0] = ls /\ \A e \in Levels : level[e + 1] = Above(level[e], zero_hashes[e])
  BY LevelAbove
<1>2. \A i \in Nat : /\ node[0][i] = NodeOr(ls, i, Zero)
                     /\ \A e \in Levels : node[e + 1][i] = <<node[e][2*i], node[e][2*i + 1]>>
  BY Nodes
<1> HIDE DEF level, node
<1>3. 0 \in S
  BY <1>1, <1>2, Zeros, TreeConstantsOK DEF IsRow
<1>4. ASSUME NEW e \in 0 .. Depth - 1, e \in S PROVE e + 1 \in S
  <2>1. e \in Levels /\ e + 1 \in 0 .. Depth
    BY TreeConstantsOK DEF Levels
  <2> DEFINE pairs == [i \in Nat |-> <<node[e][2*i], node[e][2*i + 1]>>]
  <2>2. level[e + 1] = Above(level[e], zero_hashes[e])
        /\ zero_hashes[e + 1] = <<zero_hashes[e], zero_hashes[e]>>
    BY <1>1, <2>1, Zeros
  <2>3. IsRow(level[e + 1], zero_hashes[e + 1], pairs)
    BY <1>4, <2>2, AboveIsRow
  <2>4. \A i \in Nat : node[e + 1][i] = pairs[i]
    BY <1>2, <2>1
  <2> HIDE DEF pairs
  <2> QED BY <2>1, <2>3, <2>4 DEF IsRow
<1>5. d \in S
  <2> HIDE DEF S
  <2> QED BY <1>3, <1>4, UpTo, TreeConstantsOK
<1> QED BY <1>5 DEF level, node, IsRow

\* The circuit's next hash, from a node, its sibling and the side it is on.
LEMMA CheckerSteps ==
  ASSUME NEW leaf, NEW siblings, NEW bits
  PROVE  \E hash :
           /\ hash[0] = leaf
           /\ hash[Depth] = MerkleTreeChecker(leaf, siblings, bits)
           /\ \A d \in Levels :
                hash[d + 1] = IF bits[d] = 0 THEN <<hash[d], siblings[d]>>
                                             ELSE <<siblings[d], hash[d]>>
<1>1. PICK hash :
        /\ hash = [i \in 0 .. Depth |->
                     IF i = 0 THEN leaf
                     ELSE LET in == DualMux(hash[i - 1], siblings[i - 1], bits[i - 1])
                          IN poseidon_hash_two(in[1], in[2])]
        /\ MerkleTreeChecker(leaf, siblings, bits) = hash[Depth]
  BY CheckerDef
<1>2. hash[0] = leaf
  BY <1>1, TreeConstantsOK
<1>3. ASSUME NEW d \in Levels
      PROVE  hash[d + 1] = IF bits[d] = 0 THEN <<hash[d], siblings[d]>>
                                          ELSE <<siblings[d], hash[d]>>
  <2>1. d + 1 \in 0 .. Depth /\ d + 1 # 0 /\ (d + 1) - 1 = d
    BY TreeConstantsOK DEF Levels
  <2> DEFINE in == DualMux(hash[d], siblings[d], bits[d])
  <2>2. hash[d + 1] = poseidon_hash_two(in[1], in[2])
    BY <1>1, <2>1
  <2> QED BY <2>2 DEF DualMux, poseidon_hash_two
<1> QED BY <1>1, <1>2, <1>3

\* The sibling that a path names at level d.
SiblingAt(at, d) == IF at[d] % 2 = 1 THEN at[d] - 1 ELSE at[d] + 1

\* Along a rebuilt path the circuit hashes the nodes of the reference tree.
LEMMA PathChecks ==
  ASSUME NEW ls \in Seq(Commitments), Len(ls) <= capacity, NEW index \in 0 .. Len(ls) - 1
  PROVE  LET path == buildInclusionPath(ls, index)
         IN /\ path.root = ReferenceRoot(ls)
            /\ MerkleTreeChecker(ls[index + 1], path.pathElements, path.pathIndices) = path.root
<1> DEFINE path == buildInclusionPath(ls, index)
           at == Position(index)
           node == ReferenceNodes(ls)
<1>1. /\ index \in Nat /\ index < capacity /\ index < Len(ls) /\ Len(ls) \in Nat
  BY CapacityNat
<1>2. /\ at[0] = index /\ \A d \in 0 .. Depth : at[d] \in Nat
      /\ \A d \in Levels : at[d + 1] = at[d] \div 2
  BY <1>1, Walks
<1>3. at[Depth] = 0
  BY <1>1, OneRoot
<1>4. path.root = node[Depth][0]
  BY LevelsAreReference, TreeConstantsOK DEF buildInclusionPath
<1>5. ASSUME NEW d \in Levels
      PROVE  /\ path.pathElements[d] = node[d][SiblingAt(at, d)]
             /\ path.pathIndices[d] = IF at[d] % 2 = 1 THEN 1 ELSE 0
  <2>1. d \in 0 .. Depth /\ at[d] \in Nat /\ SiblingAt(at, d) \in Nat
    <3>1. d \in 0 .. Depth /\ at[d] \in Nat
      BY <1>2, TreeConstantsOK DEF Levels
    <3> HIDE DEF at
    <3>2. at[d] % 2 = 1 => at[d] > 0
      BY <3>1
    <3> QED BY <3>1, <3>2 DEF SiblingAt
  <2>2. path.pathElements[d] = NodeOr(LevelsOf(ls)[d], SiblingAt(at, d), zero_hashes[d])
    BY DEF buildInclusionPath, SiblingAt, IsRight
  <2>3. path.pathIndices[d] = IF at[d] % 2 = 1 THEN 1 ELSE 0
    BY DEF buildInclusionPath, IsRight
  <2> QED BY <2>1, <2>2, <2>3, LevelsAreReference
<1> HIDE DEF path, at, node
<1>6. PICK hash :
        /\ hash[0] = ls[index + 1]
        /\ hash[Depth] = MerkleTreeChecker(ls[index + 1], path.pathElements, path.pathIndices)
        /\ \A d \in Levels :
             hash[d + 1] = IF path.pathIndices[d] = 0 THEN <<hash[d], path.pathElements[d]>>
                                                      ELSE <<path.pathElements[d], hash[d]>>
  BY CheckerSteps
<1> DEFINE S == {d \in 0 .. Depth : hash[d] = node[d][at[d]]}
<1>7. 0 \in S
  <2>1. node[0][index] = ls[index + 1]
    BY <1>1, Nodes DEF node, NodeOr
  <2> QED BY <1>2, <1>6, <2>1, TreeConstantsOK
<1>8. ASSUME NEW d \in 0 .. Depth - 1, d \in S PROVE d + 1 \in S
  <2>1. d \in Levels /\ d \in 0 .. Depth /\ d + 1 \in 0 .. Depth
    BY TreeConstantsOK DEF Levels
  <2>2. at[d] \in Nat /\ at[d + 1] \in Nat /\ at[d + 1] = at[d] \div 2
    BY <1>2, <2>1
  <2>3. node[d + 1][at[d + 1]] = <<node[d][2 * at[d + 1]], node[d][2 * at[d + 1] + 1]>>
    BY <2>1, <2>2, Nodes DEF node
  <2>4. CASE at[d] % 2 = 1
    <3>1. at[d] = 2 * at[d + 1] + 1 /\ SiblingAt(at, d) = 2 * at[d + 1]
      BY <2>2, <2>4, Halves DEF SiblingAt
    <3>2. hash[d + 1] = <<node[d][SiblingAt(at, d)], node[d][at[d]]>>
      <4>1. path.pathIndices[d] = 1 /\ path.pathElements[d] = node[d][SiblingAt(at, d)]
        BY <1>5, <2>1, <2>4
      <4>2. hash[d + 1] = IF path.pathIndices[d] = 0 THEN <<hash[d], path.pathElements[d]>>
                                                     ELSE <<path.pathElements[d], hash[d]>>
        BY <1>6, <2>1
      <4>3. hash[d] = node[d][at[d]]
        BY <1>8
      <4> QED BY <4>1, <4>2, <4>3
    <3> QED BY <2>1, <2>3, <3>1, <3>2
  <2>5. CASE at[d] % 2 # 1
    <3>1. at[d] = 2 * at[d + 1] /\ SiblingAt(at, d) = 2 * at[d + 1] + 1
      BY <2>2, <2>5, Halves DEF SiblingAt
    <3>2. hash[d + 1] = <<node[d][at[d]], node[d][SiblingAt(at, d)]>>
      BY <1>5, <1>6, <1>8, <2>1, <2>5
    <3> QED BY <2>1, <2>3, <3>1, <3>2
  <2> QED BY <2>4, <2>5
<1>9. hash[Depth] = node[Depth][0]
  <2>1. Depth \in S
    <3> HIDE DEF S
    <3>1. \A d \in 0 .. Depth : d \in S
      BY <1>7, <1>8, UpTo, TreeConstantsOK
    <3> QED BY <3>1, TreeConstantsOK
  <2> QED BY <1>3, <2>1
<1> QED BY <1>4, <1>6, <1>9 DEF ReferenceRoot, path, node

\* No root is the zero bytes if no hash is.
LEMMA RootIsHash ==
  ASSUME \A left, right : poseidon_hash_two(left, right) # Zero, NEW ls
  PROVE  ReferenceRoot(ls) # Zero
<1>1. Depth - 1 \in Levels /\ (Depth - 1) + 1 = Depth
  BY TreeConstantsOK DEF Levels
<1>2. ReferenceNodes(ls)[Depth][0] =
        <<ReferenceNodes(ls)[Depth - 1][2*0], ReferenceNodes(ls)[Depth - 1][2*0 + 1]>>
  BY <1>1, Nodes
<1> QED BY <1>2 DEF ReferenceRoot, poseidon_hash_two

\* Until as many appends later as the ring is long, a root is in the ring.
LEMMA RootsInWindow ==
  ASSUME TreeInv, NEW k \in 1 .. next_leaf_index, k > next_leaf_index - RootHistoryLen
  PROVE  \E i \in 0 .. RootHistoryLen - 1 :
           root_history[i] = ReferenceRoot(SubSeq(leaves, 1, k))
<1>1. next_leaf_index \in Nat /\ k # 0
  BY DEF TreeInv
<1>2. k % RootHistoryLen \in Slots /\ LatestIn(k % RootHistoryLen, next_leaf_index) = k
  BY <1>1, LatestInWindow
<1>3. root_history[k % RootHistoryLen] = ReferenceRoot(SubSeq(leaves, 1, k))
  BY <1>1, <1>2, HistoryOf DEF TreeInv
<1> QED BY <1>2, <1>3 DEF Slots

\* A path from the indexer or the SDK that is as old as the window allows passes
\* the circuit's check and is against a root the program knows.  That nothing
\* hashes to Zero, the one root is_known_root refuses, is assumed of Poseidon.
THEOREM PathsAccepted ==
  ASSUME \A left, right : poseidon_hash_two(left, right) # Zero
  PROVE  Spec => []RebuiltPathsAreAccepted
<1>1. TreeInv => RebuiltPathsAreAccepted
  <2> SUFFICES ASSUME TreeInv,
                      NEW k \in 1 .. next_leaf_index, k > next_leaf_index - RootHistoryLen,
                      NEW index \in 0 .. k - 1
               PROVE  LET path == buildInclusionPath(SubSeq(leaves, 1, k), index)
                          root == MerkleTreeChecker(leaves[index + 1], path.pathElements,
                                                    path.pathIndices)
                      IN root = path.root /\ is_known_root(root)
    BY DEF RebuiltPathsAreAccepted
  <2> DEFINE ls == SubSeq(leaves, 1, k)
  <2>1. /\ ls \in Seq(Commitments) /\ Len(ls) = k /\ Len(ls) <= capacity
        /\ index \in 0 .. Len(ls) - 1 /\ ls[index + 1] = leaves[index + 1]
    BY CapacityNat DEF TreeInv
  <2>2. \E i \in 0 .. RootHistoryLen - 1 : root_history[i] = ReferenceRoot(ls)
    BY RootsInWindow
  <2>3. ReferenceRoot(ls) # Zero
    BY RootIsHash
  <2> HIDE DEF ls
  <2> QED BY <2>1, <2>2, <2>3, PathChecks DEF is_known_root, ls
<1> QED BY <1>1, TreeInvariant, PTL

\* Of a path that reaches the root of a tree, whatever siblings it has, leaf and
\* sides are those of a place in the tree: hashing loses nothing.
LEMMA PathsLeadToPlaces ==
  ASSUME NEW ls \in Seq(Commitments), NEW bits \in [Levels -> {0, 1}], NEW siblings, NEW leaf,
         MerkleTreeChecker(leaf, siblings, bits) = ReferenceRoot(ls)
  PROVE  \E j \in Nat : /\ NodeOr(ls, j, Zero) = leaf
                        /\ \A d \in Levels : bits[d] = 1 <=> IsRight(j, d)
<1> DEFINE node == ReferenceNodes(ls)
<1>1. PICK hash :
        /\ hash[0] = leaf /\ hash[Depth] = node[Depth][0]
        /\ \A d \in Levels :
             hash[d + 1] = IF bits[d] = 0 THEN <<hash[d], siblings[d]>>
                                          ELSE <<siblings[d], hash[d]>>
  BY CheckerSteps DEF ReferenceRoot
<1>2. \A i \in Nat : /\ node[0][i] = NodeOr(ls, i, Zero)
                     /\ \A d \in Levels : node[d + 1][i] = <<node[d][2*i], node[d][2*i + 1]>>
  BY Nodes
<1> HIDE DEF node
<1> DEFINE Found(e, at) ==
             \A d \in Depth - e .. Depth :
               /\ at[d] \in Nat /\ hash[d] = node[d][at[d]]
               /\ d < Depth => at[d] = 2 * at[d + 1] + bits[d]
           S == {e \in 0 .. Depth : \E at : Found(e, at)}
<1>3. 0 \in S
  <2>1. Found(0, [d \in Depth .. Depth |-> 0])
    BY <1>1, TreeConstantsOK
  <2> HIDE DEF Found
  <2> QED BY <2>1, TreeConstantsOK
<1>4. ASSUME NEW e \in 0 .. Depth - 1, e \in S PROVE e + 1 \in S
  <2>1. PICK at : Found(e, at)
    BY <1>4
  <2> DEFINE b == Depth - (e + 1)
             more == [d \in b .. Depth |-> IF d = b THEN 2 * at[b + 1] + bits[b] ELSE at[d]]
  <2>2. b \in Levels /\ b \in Nat /\ b + 1 = Depth - e /\ b + 1 \in Depth - e .. Depth
        /\ b < Depth /\ e + 1 \in 0 .. Depth
    BY TreeConstantsOK DEF Levels
  <2>3. at[b + 1] \in Nat /\ hash[b + 1] = node[b + 1][at[b + 1]]
    BY <2>1, <2>2
  <2> HIDE DEF b
  <2>4. /\ node[b + 1][at[b + 1]] = <<node[b][2 * at[b + 1]], node[b][2 * at[b + 1] + 1]>>
        /\ hash[b + 1] = IF bits[b] = 0 THEN <<hash[b], siblings[b]>>
                                        ELSE <<siblings[b], hash[b]>>
        /\ bits[b] \in {0, 1}
    BY <1>1, <1>2, <2>2, <2>3
  <2>5. more[b] \in Nat /\ hash[b] = node[b][more[b]] /\ more[b] = 2 * at[b + 1] + bits[b]
    <3>1. more[b] = 2 * at[b + 1] + bits[b]
      BY <2>2, TreeConstantsOK
    <3> HIDE DEF more
    <3>2. CASE bits[b] = 0
      BY <2>3, <2>4, <3>1, <3>2
    <3>3. CASE bits[b] = 1
      BY <2>3, <2>4, <3>1, <3>3
    <3> QED BY <2>4, <3>2, <3>3
  <2>6. \A d \in b + 1 .. Depth : more[d] = at[d]
    BY <2>2, TreeConstantsOK
  <2> HIDE DEF more
  <2>7. ASSUME NEW d \in b .. Depth
        PROVE  /\ more[d] \in Nat /\ hash[d] = node[d][more[d]]
               /\ d < Depth => more[d] = 2 * more[d + 1] + bits[d]
    <3>1. CASE d = b
      <4>1. more[d + 1] = at[b + 1]
        BY <2>2, <2>6, <3>1, TreeConstantsOK
      <4> QED BY <2>5, <3>1, <4>1
    <3>2. CASE d # b
      <4>1. d \in Depth - e .. Depth /\ d \in b + 1 .. Depth
            /\ (d < Depth => d + 1 \in b + 1 .. Depth)
        BY <2>2, <3>2, TreeConstantsOK
      <4>2. more[d] = at[d] /\ (d < Depth => more[d + 1] = at[d + 1])
        BY <2>6, <4>1
      <4>3. /\ at[d] \in Nat /\ hash[d] = node[d][at[d]]
            /\ d < Depth => at[d] = 2 * at[d + 1] + bits[d]
        BY <2>1, <4>1
      <4> QED BY <4>2, <4>3
    <3> QED BY <3>1, <3>2
  <2>8. Found(e + 1, more)
    BY <2>7 DEF b
  <2> HIDE DEF Found
  <2> QED BY <2>2, <2>8
<1>5. PICK at : Found(Depth, at)
  <2>1. \A e \in 0 .. Depth : e \in S
    <3> HIDE DEF S
    <3> QED BY <1>3, <1>4, UpTo, TreeConstantsOK
  <2> HIDE DEF Found
  <2> QED BY <2>1, TreeConstantsOK
<1>6. \A d \in 0 .. Depth : at[d] \in Nat /\ hash[d] = node[d][at[d]]
  BY <1>5, TreeConstantsOK
<1>7. \A d \in Levels : at[d] = 2 * at[d + 1] + bits[d] /\ bits[d] \in {0, 1}
  BY <1>5, TreeConstantsOK DEF Levels
<1> HIDE DEF Found, S
<1>8. at[0] \in Nat /\ NodeOr(ls, at[0], Zero) = leaf
  BY <1>1, <1>2, <1>6, TreeConstantsOK
<1>9. \A d \in 0 .. Depth : Position(at[0])[d] = at[d]
  <2> DEFINE T == {d \in 0 .. Depth : Position(at[0])[d] = at[d]}
  <2>1. 0 \in T
    BY <1>8, Walks, TreeConstantsOK
  <2>2. ASSUME NEW d \in 0 .. Depth - 1, d \in T PROVE d + 1 \in T
    <3>1. d \in Levels /\ d + 1 \in 0 .. Depth
      BY TreeConstantsOK DEF Levels
    <3>2. Position(at[0])[d + 1] = Position(at[0])[d] \div 2
      BY <1>8, <3>1, Walks
    <3>3. at[d + 1] = at[d] \div 2
      <4>1. at[d] = 2 * at[d + 1] + bits[d] /\ bits[d] \in {0, 1} /\ at[d + 1] \in Nat
        BY <1>6, <1>7, <3>1
      <4>2. at[d] \div 2 = (2 * at[d + 1] + bits[d]) \div 2
        BY <4>1
      <4> QED BY <4>1, <4>2, HalfOf
    <3> QED BY <2>2, <3>1, <3>2, <3>3
  <2> HIDE DEF T
  <2>3. \A d \in 0 .. Depth : d \in T
    BY <2>1, <2>2, UpTo, TreeConstantsOK
  <2> QED BY <2>3 DEF T
<1>10. ASSUME NEW d \in Levels PROVE bits[d] = 1 <=> IsRight(at[0], d)
  <2>1. d \in 0 .. Depth /\ d + 1 \in 0 .. Depth
    BY TreeConstantsOK DEF Levels
  <2>2. at[d] = 2 * at[d + 1] + bits[d] /\ bits[d] \in {0, 1} /\ at[d + 1] \in Nat
    BY <1>6, <1>7, <2>1
  <2>3. at[d] % 2 = bits[d]
    BY <2>2
  <2>4. Position(at[0])[d] = at[d]
    BY <1>9, <2>1
  <2> QED BY <2>2, <2>3, <2>4 DEF IsRight
<1> QED BY <1>8, <1>10

\* The circuit cannot be satisfied with a commitment nobody appended, or with one
\* from elsewhere than where it was appended, by any choice of siblings; Poseidon
\* is collision free here by being a constructor (MerkleTreeChecker, DualMux).
THEOREM OnlyLeaves == Spec => []OnlyLeavesVerify
<1>1. TreeInv => OnlyLeavesVerify
  <2> SUFFICES ASSUME TreeInv, NEW bits \in [Levels -> {0, 1}], NEW siblings,
                      NEW leaf \in Commitments \ {Zero},
                      is_known_root(MerkleTreeChecker(leaf, siblings, bits))
               PROVE  \E i \in 1 .. next_leaf_index :
                        /\ leaves[i] = leaf
                        /\ \A d \in Levels : bits[d] = 1 <=> IsRight(i - 1, d)
    BY DEF OnlyLeavesVerify
  <2> DEFINE root == MerkleTreeChecker(leaf, siblings, bits)
  <2>1. PICK s \in Slots : root_history[s] = root /\ root # Zero
    BY DEF is_known_root, Slots
  <2>2. next_leaf_index \in Nat /\ next_leaf_index = Len(leaves) /\ leaves \in Seq(Commitments)
    BY DEF TreeInv
  <2> DEFINE k == LatestIn(s, next_leaf_index)
  <2>3. k \in 1 .. next_leaf_index /\ root = ReferenceRoot(SubSeq(leaves, 1, k))
    <3>1. k \in 0 .. next_leaf_index
      BY <2>2, LatestRange
    <3>2. root_history[s] = IF k = 0 THEN Zero ELSE ReferenceRoot(SubSeq(leaves, 1, k))
      BY HistoryOf DEF TreeInv
    <3> HIDE DEF k, root
    <3> QED BY <2>1, <2>2, <3>1, <3>2
  <2> HIDE DEF k
  <2> DEFINE ls == SubSeq(leaves, 1, k)
  <2>4. ls \in Seq(Commitments) /\ Len(ls) = k /\ \A i \in 1 .. k : ls[i] = leaves[i]
    BY <2>2, <2>3
  <2>5. PICK j \in Nat : /\ NodeOr(ls, j, Zero) = leaf
                         /\ \A d \in Levels : bits[d] = 1 <=> IsRight(j, d)
    <3> HIDE DEF ls
    <3>1. root = ReferenceRoot(ls)
      BY <2>3 DEF ls
    <3> QED BY <2>4, <3>1, PathsLeadToPlaces
  <2> HIDE DEF ls
  <2>6. j < k /\ leaf = ls[j + 1]
    BY <2>4, <2>5 DEF NodeOr
  <2>7. j + 1 \in 1 .. next_leaf_index /\ leaves[j + 1] = leaf /\ (j + 1) - 1 = j
    BY <2>2, <2>3, <2>4, <2>6
  <2> QED BY <2>5, <2>7
<1> QED BY <1>1, TreeInvariant, PTL

-----------------------------------------------------------------------------
(* A root is a leaf count *)

RootAt(k) == ReferenceRoot(SubSeq(leaves, 1, k))

\* What QietrPool takes for granted when it names the root after the k-th append k:
\* these roots differ, the program knows exactly the latest RootHistoryLen of
\* them, and it knows no other.
CountsNameRoots ==
  /\ \A j, k \in 1 .. next_leaf_index : RootAt(j) = RootAt(k) => j = k
  /\ \A k \in 1 .. next_leaf_index :
       is_known_root(RootAt(k)) <=> k > next_leaf_index - RootHistoryLen
  /\ \A root : is_known_root(root) => \E k \in 1 .. next_leaf_index : root = RootAt(k)

\* Two places under one root with the same sides all the way are one place.
LEMMA SidesArePlace ==
  ASSUME NEW i \in Nat, NEW j \in Nat, i < capacity, j < capacity,
         \A d \in Levels : IsRight(i, d) <=> IsRight(j, d)
  PROVE  i = j
<1> DEFINE at == Position(i)
           to == Position(j)
           S == {e \in 0 .. Depth : at[Depth - e] = to[Depth - e]}
<1>1. /\ at[0] = i /\ \A d \in 0 .. Depth : at[d] \in Nat
      /\ \A d \in Levels : at[d + 1] = at[d] \div 2
  BY Walks
<1>2. /\ to[0] = j /\ \A d \in 0 .. Depth : to[d] \in Nat
      /\ \A d \in Levels : to[d + 1] = to[d] \div 2
  BY Walks
<1>3. \A d \in Levels : at[d] % 2 = 1 <=> to[d] % 2 = 1
  BY DEF IsRight
<1>4. at[Depth] = 0 /\ to[Depth] = 0
  BY OneRoot
<1> HIDE DEF at, to
<1>5. 0 \in S
  BY <1>4, TreeConstantsOK
<1>6. ASSUME NEW e \in 0 .. Depth - 1, e \in S PROVE e + 1 \in S
  <2> DEFINE d == Depth - (e + 1)
  <2>1. d \in Levels /\ d \in 0 .. Depth /\ d + 1 = Depth - e /\ e + 1 \in 0 .. Depth
    BY TreeConstantsOK DEF Levels
  <2> HIDE DEF d
  <2>2. at[d] \in Nat /\ to[d] \in Nat /\ at[d] \div 2 = to[d] \div 2
    BY <1>1, <1>2, <1>6, <2>1
  <2>3. at[d] % 2 = 1 <=> to[d] % 2 = 1
    BY <1>3, <2>1
  <2>4. at[d] = to[d]
    BY <2>2, <2>3
  <2> QED BY <2>1, <2>4 DEF d
<1>7. Depth \in S
  <2> HIDE DEF S
  <2>1. \A e \in 0 .. Depth : e \in S
    BY <1>5, <1>6, UpTo, TreeConstantsOK
  <2> QED BY <2>1, TreeConstantsOK
<1> QED BY <1>1, <1>2, <1>7, TreeConstantsOK

\* The path of the last leaf leads to no root of a tree without it.
LEMMA RootsDiffer ==
  ASSUME TreeInv, Zero \notin Commitments,
         NEW j \in 1 .. next_leaf_index, NEW k \in 1 .. next_leaf_index, j < k
  PROVE  RootAt(j) # RootAt(k)
<1> SUFFICES ASSUME RootAt(j) = RootAt(k) PROVE FALSE
  OBVIOUS
<1> DEFINE older == SubSeq(leaves, 1, j)
           newer == SubSeq(leaves, 1, k)
           path == buildInclusionPath(newer, k - 1)
<1>1. /\ leaves \in Seq(Commitments) /\ next_leaf_index = Len(leaves)
      /\ Len(leaves) <= capacity /\ capacity \in Nat
  BY CapacityNat DEF TreeInv
<1>2. older \in Seq(Commitments) /\ Len(older) = j
  BY <1>1
<1>3. /\ newer \in Seq(Commitments) /\ Len(newer) = k /\ Len(newer) <= capacity
      /\ k - 1 \in 0 .. Len(newer) - 1 /\ newer[(k - 1) + 1] = leaves[k]
      /\ leaves[k] \in Commitments
  BY <1>1
<1>4. path.pathIndices = [d \in Levels |-> IF IsRight(k - 1, d) THEN 1 ELSE 0]
  BY DEF buildInclusionPath
<1> HIDE DEF older, newer, path
<1>5. MerkleTreeChecker(leaves[k], path.pathElements, path.pathIndices) = ReferenceRoot(newer)
  BY <1>3, PathChecks DEF path
<1>6. ReferenceRoot(newer) = ReferenceRoot(older)
  BY DEF RootAt, older, newer
<1>7. path.pathIndices \in [Levels -> {0, 1}]
  BY <1>4
<1>8. PICK p \in Nat : /\ NodeOr(older, p, Zero) = leaves[k]
                       /\ \A d \in Levels : path.pathIndices[d] = 1 <=> IsRight(p, d)
  BY <1>2, <1>5, <1>6, <1>7, PathsLeadToPlaces
<1>9. p < j
  BY <1>2, <1>3, <1>8 DEF NodeOr
<1>10. \A d \in Levels : IsRight(p, d) <=> IsRight(k - 1, d)
  BY <1>4, <1>8
<1>11. p = k - 1
  <2>1. k - 1 \in Nat /\ k - 1 < capacity /\ p < capacity
    BY <1>1, <1>9
  <2> QED BY <1>10, <2>1, SidesArePlace
<1> QED BY <1>1, <1>9, <1>11

\* The program's ring of roots is QietrPool's ring of counts: what
\* KnownRootsAreWindow says there of counts is true of the hashes that the program
\* compares (merkle.rs append, state.rs is_known_root).  A commitment is a hash too,
\* and none is Zero.
THEOREM RootsNameCounts ==
  ASSUME Zero \notin Commitments, \A left, right : poseidon_hash_two(left, right) # Zero
  PROVE  Spec => []CountsNameRoots
<1>1. ASSUME TreeInv PROVE CountsNameRoots
  <2> DEFINE n == next_leaf_index
  <2>1. n \in Nat
    BY <1>1 DEF TreeInv
  <2>2. \A j, k \in 1 .. n : RootAt(j) = RootAt(k) => j = k
    <3> SUFFICES ASSUME NEW j \in 1 .. n, NEW k \in 1 .. n, RootAt(j) = RootAt(k), j # k
                 PROVE  FALSE
      OBVIOUS
    <3>1. j < k \/ k < j
      BY <2>1
    <3> QED BY <1>1, <3>1, RootsDiffer
  <2>3. ASSUME NEW root, is_known_root(root)
        PROVE  \E k \in 1 .. n : k > n - RootHistoryLen /\ root = RootAt(k)
    <3>1. PICK s \in Slots : root_history[s] = root /\ root # Zero
      BY <2>3 DEF is_known_root, Slots
    <3>2. root = IF LatestIn(s, n) = 0 THEN Zero ELSE RootAt(LatestIn(s, n))
      BY <1>1, <3>1, HistoryOf DEF TreeInv, RootAt
    <3>3. LatestIn(s, n) # 0
      BY <3>1, <3>2
    <3>4. LatestIn(s, n) \in 1 .. n /\ LatestIn(s, n) > n - RootHistoryLen
      BY <2>1, <3>3, LatestIsRecent
    <3> QED BY <3>2, <3>3, <3>4
  <2>4. ASSUME NEW k \in 1 .. n, k > n - RootHistoryLen PROVE is_known_root(RootAt(k))
    <3>1. RootAt(k) # Zero
      BY RootIsHash DEF RootAt
    <3> QED BY <1>1, <2>4, <3>1, RootsInWindow DEF is_known_root, RootAt
  <2>5. ASSUME NEW k \in 1 .. n, is_known_root(RootAt(k)) PROVE k > n - RootHistoryLen
    <3>1. PICK m \in 1 .. n : m > n - RootHistoryLen /\ RootAt(k) = RootAt(m)
      BY <2>3, <2>5
    <3> QED BY <2>2, <3>1
  <2> QED BY <2>2, <2>3, <2>4, <2>5 DEF CountsNameRoots
<1> QED BY <1>1, TreeInvariant, PTL
=============================================================================
