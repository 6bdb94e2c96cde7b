--------------------------- MODULE Indexer_proofs ---------------------------
(***************************************************************************)
(* Proofs about the indexer's poller (IndexerPoller) and the API that reads  *)
(* what it writes (IndexerApi).                                             *)
(*                                                                          *)
(* The stored leaves of a denomination are the mirror of some list of        *)
(* leaves, whatever the node returns and whenever a tick stops: the index a  *)
(* leaf is stored under is the number of leaves stored before it.  That      *)
(* alone is what the API needs.  That the list is the tree's needs a node    *)
(* that returns the transactions it lists, and the order of the scan.        *)
(***************************************************************************)
EXTENDS IndexerApi, ProofLemmas, SequenceTheorems, FiniteSetTheorems, TLAPS

-----------------------------------------------------------------------------
(* Lists of leaves, their prefixes and their rows *)

\* A prefix agrees with the list as far as it goes.
LEMMA PrefixElements ==
  ASSUME NEW s \in Seq(Nat), NEW t \in Seq(Nat)
  PROVE  IsPrefix(s, t) <=> Len(s) <= Len(t) /\ \A i \in 1 .. Len(s) : s[i] = t[i]
<1>1. ASSUME Len(s) <= Len(t)
      PROVE  /\ Len(SubSeq(t, 1, Len(s))) = Len(s)
             /\ SubSeq(t, 1, Len(s)) \in Seq(Nat)
             /\ \A i \in 1 .. Len(s) : SubSeq(t, 1, Len(s))[i] = t[i]
  BY <1>1, SubSeqProperties
<1>2. SubSeq(s, 1, Len(s)) = s
  BY SubSeqFull
<1>3. ASSUME Len(s) <= Len(t), \A i \in 1 .. Len(s) : s[i] = t[i]
      PROVE  s = SubSeq(t, 1, Len(s))
  BY <1>1, <1>3, SeqEqual
<1> QED
  BY <1>1, <1>2, <1>3 DEF IsPrefix

\* The rows of a list.
LEMMA MirrorRows ==
  ASSUME NEW s \in Seq(Nat)
  PROVE  /\ \A row \in Mirror(s) :
              /\ row[1] \in 0 .. Len(s) - 1 /\ row[2] = s[row[1] + 1]
              /\ row = <<row[1], row[2]>> /\ row[2] \in Nat
         /\ \A i \in 1 .. Len(s) : <<i - 1, s[i]>> \in Mirror(s)
  BY DEF Mirror

LEMMA MirrorAppend ==
  ASSUME NEW s \in Seq(Nat), NEW x \in Nat
  PROVE  Mirror(Append(s, x)) = Mirror(s) \cup {<<Len(s), x>>}
<1> DEFINE t == Append(s, x)
<1>1. /\ t \in Seq(Nat) /\ Len(t) = Len(s) + 1 /\ t[Len(s) + 1] = x
      /\ \A i \in 1 .. Len(s) : t[i] = s[i]
  OBVIOUS
<1>2. DOMAIN t = 1 .. Len(s) + 1 /\ DOMAIN s = 1 .. Len(s)
  BY <1>1
<1> HIDE DEF t
<1>3. ASSUME NEW i \in 1 .. Len(s) + 1
      PROVE  <<i - 1, t[i]>> \in Mirror(s) \cup {<<Len(s), x>>}
  <2>1. CASE i \in 1 .. Len(s)
    BY <1>1, <1>2, <2>1 DEF Mirror
  <2>2. CASE i = Len(s) + 1
    <3>1. i - 1 = Len(s)
      BY <2>2
    <3> QED
      BY <1>1, <2>2, <3>1
  <2> QED
    BY <2>1, <2>2
<1>4. ASSUME NEW i \in 1 .. Len(s)
      PROVE  <<i - 1, s[i]>> \in Mirror(t)
  <2>1. <<i - 1, t[i]>> \in Mirror(t)
    BY <1>1, MirrorRows
  <2> QED
    BY <1>1, <2>1
<1>5. <<Len(s), x>> \in Mirror(t)
  <2>1. Len(s) + 1 \in DOMAIN t /\ (Len(s) + 1) - 1 = Len(s)
    BY <1>2
  <2> QED
    BY <1>1, <2>1 DEF Mirror
<1>6. Mirror(t) \subseteq Mirror(s) \cup {<<Len(s), x>>}
  BY <1>2, <1>3 DEF Mirror
<1>7. Mirror(s) \cup {<<Len(s), x>>} \subseteq Mirror(t)
  BY <1>2, <1>4, <1>5 DEF Mirror
<1> QED
  BY <1>6, <1>7 DEF t

\* Rows that are among another list's rows are those of a prefix of it.
LEMMA MirrorPrefix ==
  ASSUME NEW s \in Seq(Nat), NEW t \in Seq(Nat)
  PROVE  Mirror(s) \subseteq Mirror(t) <=> IsPrefix(s, t)
<1>1. ASSUME Mirror(s) \subseteq Mirror(t), NEW i \in 1 .. Len(s)
      PROVE  i \in 1 .. Len(t) /\ s[i] = t[i]
  <2>1. <<i - 1, s[i]>> \in Mirror(t)
    BY <1>1, MirrorRows
  <2>2. i - 1 \in 0 .. Len(t) - 1 /\ s[i] = t[(i - 1) + 1]
    BY <2>1, MirrorRows
  <2> QED
    BY <2>2
<1>2. ASSUME Mirror(s) \subseteq Mirror(t)
      PROVE  Len(s) <= Len(t)
  <2>1. CASE Len(s) = 0
    BY <2>1, LenProperties
  <2>2. CASE Len(s) # 0
    BY <1>1, <1>2, <2>2, LenProperties
  <2> QED
    BY <2>1, <2>2
<1>3. ASSUME Len(s) <= Len(t), \A i \in 1 .. Len(s) : s[i] = t[i]
      PROVE  Mirror(s) \subseteq Mirror(t)
  <2>1. ASSUME NEW row \in Mirror(s)
        PROVE  row \in Mirror(t)
    <3>1. PICK i \in 1 .. Len(s) : row = <<i - 1, s[i]>>
      BY DEF Mirror
    <3>2. i \in 1 .. Len(t) /\ s[i] = t[i]
      BY <1>3, LenProperties
    <3>3. <<i - 1, t[i]>> \in Mirror(t)
      BY <3>2, MirrorRows
    <3> QED
      BY <3>1, <3>2, <3>3
  <2> QED
    BY <2>1
<1> QED
  BY <1>1, <1>2, <1>3, PrefixElements

LEMMA MirrorSize ==
  ASSUME NEW s \in Seq(Nat)
  PROVE  IsFiniteSet(Mirror(s)) /\ Cardinality(Mirror(s)) = Len(s)
<1> DEFINE f == [i \in 1 .. Len(s) |-> <<i - 1, s[i]>>]
<1>1. f \in [1 .. Len(s) -> Mirror(s)]
  BY MirrorRows
<1>2. \A i, j \in 1 .. Len(s) : f[i] = f[j] => i = j
  <2>1. \A i, j \in 1 .. Len(s) : f[i] = f[j] => i - 1 = j - 1
    OBVIOUS
  <2> QED
    BY <2>1
<1>3. \A row \in Mirror(s) : \E i \in 1 .. Len(s) : f[i] = row
  BY DEF Mirror
<1>4. f \in Bijection(1 .. Len(s), Mirror(s))
  BY <1>1, <1>2, <1>3 DEF Bijection, Injection, Surjection, IsInjective
<1>5. IsFiniteSet(1 .. Len(s)) /\ Cardinality(1 .. Len(s)) = Len(s)
  <2>1. Len(s) \in Nat
    OBVIOUS
  <2>2. /\ IsFiniteSet(1 .. Len(s))
        /\ Cardinality(1 .. Len(s)) = IF 1 > Len(s) THEN 0 ELSE Len(s) - 1 + 1
    BY <2>1, FS_Interval
  <2> QED
    BY <2>1, <2>2
<1>6. ExistsBijection(1 .. Len(s), Mirror(s))
  BY <1>4 DEF ExistsBijection
<1> QED
  BY <1>5, <1>6, FS_Bijection

-----------------------------------------------------------------------------
(* Types, and where the scan is *)

Ixs == [op : {"deposit", "withdraw"}, denom : Denoms, leaf : Nat]
Txs == {tx \in Seq(Ixs) : Len(tx) <= 2}

ChainTypeOK ==
  /\ registered \subseteq Denoms
  /\ chain \in Seq(Txs)
  /\ tree \in [Denoms -> Seq(Nat)]

DbTypeOK ==
  /\ roots \in [Denoms -> SUBSET (Nat \X Seq(Nat))]
  /\ commitments \in [Denoms -> SUBSET (Int \X Nat)]

PollerTypeOK ==
  poller \in [pc : {"idle", "accounts", "list", "fetch", "append"},
              denoms : {poller.denoms}, trees : SUBSET (Denoms \X Seq(Nat)),
              spent : {poller.spent}, cursor : Nat, upto : Nat, before : {poller.before},
              ixs : Seq(Ixs), nextLeaf : [Denoms -> Int]]

\* A tick scans from the checkpoint to a signature it has listed.
ScanInv ==
  /\ checkpoint \in 0 .. Len(chain)
  /\ poller.pc \in {"list", "fetch", "append"} => poller.cursor = checkpoint
  /\ poller.pc \in {"fetch", "append"} => poller.cursor < poller.upto /\ poller.upto <= Len(chain)
  /\ poller.pc = "list" /\ poller.before # 0 =>
       poller.cursor <= poller.upto /\ poller.upto <= Len(chain)

TypeOK == ChainTypeOK /\ DbTypeOK /\ PollerTypeOK /\ ScanInv

\* What a transaction appends to a tree, and in what order.
LEMMA LeavesOfTx ==
  ASSUME NEW tx \in Txs, NEW d \in Denoms
  PROVE  /\ LeavesOf(tx, d) \in Seq(Nat)
         /\ \A i \in 1 .. Len(LeavesOf(tx, d)) : \E k \in 1 .. Len(tx) :
              tx[k].denom = d /\ tx[k].leaf = LeavesOf(tx, d)[i]
         /\ \A k \in 1 .. Len(tx) : tx[k].denom = d =>
              \E i \in 1 .. Len(LeavesOf(tx, d)) : LeavesOf(tx, d)[i] = tx[k].leaf
         /\ \A last \in Nat :
              (\A k \in 1 .. Len(tx) : tx[k].leaf = last + k) =>
                \A i, j \in 1 .. Len(LeavesOf(tx, d)) :
                  i < j => LeavesOf(tx, d)[i] < LeavesOf(tx, d)[j]
<1>1. Len(tx) \in {0, 1, 2} /\ DOMAIN tx = 1 .. Len(tx) /\ tx \in Seq(Ixs)
  <2>1. tx \in Seq(Ixs) /\ Len(tx) <= 2
    BY DEF Txs
  <2>2. Len(tx) \in Nat /\ DOMAIN tx = 1 .. Len(tx)
    BY <2>1, LenProperties
  <2> QED
    BY <2>1, <2>2
<1>2. \A k \in 1 .. Len(tx) : tx[k] \in Ixs /\ tx[k].leaf \in Nat
  <2>1. \A k \in 1 .. Len(tx) : tx[k] \in Ixs
    BY <1>1, ElementOfSeq
  <2> QED
    BY <2>1 DEF Ixs
<1> DEFINE a == LeafAt(tx, 1, d)
           b == LeafAt(tx, 2, d)
<1>3. a = IF 1 <= Len(tx) /\ tx[1].denom = d THEN <<tx[1].leaf>> ELSE <<>>
  BY <1>1 DEF LeafAt
<1>4. b = IF 2 <= Len(tx) /\ tx[2].denom = d THEN <<tx[2].leaf>> ELSE <<>>
  BY <1>1 DEF LeafAt
<1>5. LeavesOf(tx, d) = a \o b
  BY DEF LeavesOf
<1> HIDE DEF a, b
<1>6. CASE Len(tx) = 0
  <2>1. a \o b = <<>>
    BY <1>3, <1>4, <1>6
  <2> QED
    BY <1>5, <1>6, <2>1
<1>7. CASE Len(tx) = 1
  <2>1. CASE tx[1].denom = d
    <3>1. a \o b = <<tx[1].leaf>>
      BY <1>2, <1>3, <1>4, <1>7, <2>1
    <3> QED
      BY <1>2, <1>5, <1>7, <2>1, <3>1
  <2>2. CASE tx[1].denom # d
    <3>1. a \o b = <<>>
      BY <1>3, <1>4, <1>7, <2>2
    <3> QED
      BY <1>5, <1>7, <2>2, <3>1
  <2> QED
    BY <2>1, <2>2
<1>8. CASE Len(tx) = 2
  <2>1. CASE tx[1].denom = d /\ tx[2].denom = d
    <3>1. a = <<tx[1].leaf>> /\ b = <<tx[2].leaf>>
      BY <1>3, <1>4, <1>8, <2>1
    <3>2. <<tx[1].leaf>> \in Seq(Nat) /\ <<tx[2].leaf>> \in Seq(Nat)
      BY <1>2, <1>8
    <3>3. /\ a \o b \in Seq(Nat) /\ Len(a \o b) = 2
          /\ (a \o b)[1] = tx[1].leaf /\ (a \o b)[2] = tx[2].leaf
      BY <3>1, <3>2, ConcatProperties
    <3> QED
      BY <1>2, <1>5, <1>8, <2>1, <3>3
  <2>2. CASE tx[1].denom = d /\ tx[2].denom # d
    <3>1. a \o b = <<tx[1].leaf>>
      BY <1>2, <1>3, <1>4, <1>8, <2>2
    <3> QED
      BY <1>2, <1>5, <1>8, <2>2, <3>1
  <2>3. CASE tx[1].denom # d /\ tx[2].denom = d
    <3>1. a \o b = <<tx[2].leaf>>
      BY <1>2, <1>3, <1>4, <1>8, <2>3
    <3> QED
      BY <1>2, <1>5, <1>8, <2>3, <3>1
  <2>4. CASE tx[1].denom # d /\ tx[2].denom # d
    <3>1. a \o b = <<>>
      BY <1>3, <1>4, <1>8, <2>4
    <3> QED
      BY <1>5, <1>8, <2>4, <3>1
  <2> QED
    BY <2>1, <2>2, <2>3, <2>4
<1> QED
  BY <1>1, <1>6, <1>7, <1>8

\* A step of the chain registers a tier or lands a transaction whose leaves are
\* the next numbers.
LEMMA ChainSteps ==
  ASSUME ChainTypeOK, ChainStep
  PROVE  \/ \E d \in Denoms : Register(d)
         \/ \E tx \in Txs, last \in Nat :
              /\ Leaves = 1 .. last
              /\ \A k \in 1 .. Len(tx) : tx[k].leaf = last + k
              /\ Land(tx)
<1>1. CASE \E d \in Denoms : Register(d)
  BY <1>1
<1>2. ASSUME NEW last \in 0 .. MaxLeaves, Leaves = 1 .. last, Land(<<>>)
      PROVE  \E tx \in Txs, n \in Nat :
               /\ Leaves = 1 .. n
               /\ \A k \in 1 .. Len(tx) : tx[k].leaf = n + k
               /\ Land(tx)
  <2>1. <<>> \in Txs /\ Len(<<>>) = 0
    BY DEF Txs
  <2>2. last \in Nat
    BY IndexerConstants
  <2>3. \A k \in 1 .. Len(<<>>) : <<>>[k].leaf = last + k
    BY <2>1
  <2> QED
    BY <1>2, <2>1, <2>2, <2>3
<1>3. ASSUME NEW leaf \in Nat, NEW ix \in Instructions(leaf)
      PROVE  ix \in Ixs /\ ix.leaf = leaf
  BY <1>3 DEF Instructions, Ixs, ChainTypeOK
<1>4. ASSUME NEW last \in 0 .. MaxLeaves, Leaves = 1 .. last,
             NEW ix \in Instructions(last + 1), Land(<<ix>>)
      PROVE  \E tx \in Txs, n \in Nat :
               /\ Leaves = 1 .. n
               /\ \A k \in 1 .. Len(tx) : tx[k].leaf = n + k
               /\ Land(tx)
  <2>1. last \in Nat /\ last + 1 \in Nat
    BY IndexerConstants
  <2>2. ix \in Ixs /\ ix.leaf = last + 1
    BY <1>3, <1>4, <2>1
  <2>3. <<ix>> \in Txs /\ Len(<<ix>>) = 1 /\ <<ix>>[1] = ix
    BY <2>2 DEF Txs
  <2>4. \A k \in 1 .. Len(<<ix>>) : <<ix>>[k].leaf = last + k
    BY <2>2, <2>3
  <2> QED
    BY <1>4, <2>1, <2>3, <2>4
<1>5. ASSUME NEW last \in 0 .. MaxLeaves, Leaves = 1 .. last,
             NEW ix1 \in Instructions(last + 1), NEW ix2 \in Instructions(last + 2),
             Land(<<ix1, ix2>>)
      PROVE  \E tx \in Txs, n \in Nat :
               /\ Leaves = 1 .. n
               /\ \A k \in 1 .. Len(tx) : tx[k].leaf = n + k
               /\ Land(tx)
  <2>1. last \in Nat /\ last + 1 \in Nat /\ last + 2 \in Nat
    BY IndexerConstants
  <2>2. ix1 \in Ixs /\ ix1.leaf = last + 1 /\ ix2 \in Ixs /\ ix2.leaf = last + 2
    BY <1>3, <1>5, <2>1
  <2>3. /\ <<ix1, ix2>> \in Txs /\ Len(<<ix1, ix2>>) = 2
        /\ <<ix1, ix2>>[1] = ix1 /\ <<ix1, ix2>>[2] = ix2
    BY <2>2 DEF Txs
  <2>4. \A k \in 1 .. Len(<<ix1, ix2>>) : <<ix1, ix2>>[k].leaf = last + k
    BY <2>2, <2>3
  <2> QED
    BY <1>5, <2>1, <2>3, <2>4
<1> QED
  BY <1>2, <1>4, <1>5 DEF ChainStep

THEOREM InitTypes == Init => TypeOK
<1> SUFFICES ASSUME Init PROVE TypeOK
  OBVIOUS
<1> USE DEF Init
<1>1. ChainTypeOK
  <2>1. tree \in [Denoms -> Seq(Nat)]
    OBVIOUS
  <2> QED
    BY <2>1 DEF ChainTypeOK
<1>2. DbTypeOK
  BY DEF DbTypeOK
<1>3. PollerTypeOK
  BY DEF PollerTypeOK, Asleep, Unseeded
<1>4. ScanInv
  BY DEF ScanInv, Asleep
<1> QED
  BY <1>1, <1>2, <1>3, <1>4 DEF TypeOK

LEMMA AsleepType ==
  /\ Asleep.pc = "idle" /\ Asleep.ixs = <<>> /\ Asleep.trees = {}
  /\ Asleep.nextLeaf = [d \in Denoms |-> Unseeded]
  /\ Asleep \in [pc : {"idle", "accounts", "list", "fetch", "append"},
                 denoms : {Asleep.denoms}, trees : SUBSET (Denoms \X Seq(Nat)),
                 spent : {Asleep.spent}, cursor : Nat, upto : Nat, before : {Asleep.before},
                 ixs : Seq(Ixs), nextLeaf : [Denoms -> Int]]
BY DEF Asleep, Unseeded

\* Everything keeps its type, and the scan its place.
LEMMA ChainTypes ==
  ASSUME TypeOK, ChainStep
  PROVE  TypeOK'
<1> USE DEF TypeOK
<1>1. CASE \E d \in Denoms : Register(d)
  BY <1>1 DEF Register, ChainTypeOK, DbTypeOK, PollerTypeOK, ScanInv, db
<1>2. ASSUME NEW tx \in Txs, Land(tx)
      PROVE  TypeOK'
  <2>1. chain' = Append(chain, tx) /\ chain' \in Seq(Txs) /\ Len(chain') = Len(chain) + 1
    BY <1>2 DEF Land, ChainTypeOK
  <2>2. tree' \in [Denoms -> Seq(Nat)]
    BY <1>2, LeavesOfTx, ConcatProperties DEF Land, ChainTypeOK
  <2>3. ChainTypeOK'
    BY <1>2, <2>1, <2>2 DEF ChainTypeOK, Land
  <2>4. UNCHANGED <<roots, commitments, checkpoint, poller>> /\ Len(chain) \in Nat
    BY <1>2 DEF Land, db, ChainTypeOK
  <2>5. ScanInv'
    BY <2>1, <2>4 DEF ScanInv, PollerTypeOK
  <2> QED
    BY <2>3, <2>4, <2>5 DEF DbTypeOK, PollerTypeOK
<1> QED
  BY <1>1, <1>2, ChainSteps

LEMMA AccountTypes ==
  ASSUME TypeOK,
         \/ ReadAccounts \/ StartListing
         \/ \E d \in poller.denoms : WriteDenomination(d)
         \/ \E t \in poller.trees : WriteRoot(t)
         \/ \E n \in poller.spent : WriteNullifier(n)
  PROVE  TypeOK'
<1> USE DEF TypeOK, PollerTypeOK
<1>1. CASE ReadAccounts
  <2>1. getAllProgramAccounts.trees \in SUBSET (Denoms \X Seq(Nat))
    BY DEF getAllProgramAccounts, ChainTypeOK
  <2>2. poller' = [Asleep EXCEPT !.pc = "accounts", !.denoms = getAllProgramAccounts.denoms,
                     !.trees = getAllProgramAccounts.trees, !.spent = getAllProgramAccounts.spent]
    BY <1>1 DEF ReadAccounts
  <2>3. PollerTypeOK' /\ poller'.pc = "accounts"
    BY <2>1, <2>2, AsleepType DEF Asleep
  <2> QED
    BY <1>1, <2>3 DEF ReadAccounts, onChain, db, ChainTypeOK, DbTypeOK, ScanInv
<1>2. CASE StartListing
  <2>1. checkpoint \in Nat
    BY DEF ScanInv
  <2>2. poller' = [Asleep EXCEPT !.pc = "list", !.cursor = checkpoint]
    BY <1>2 DEF StartListing, getCheckpoint
  <2>3. /\ PollerTypeOK' /\ poller'.pc = "list" /\ poller'.cursor = checkpoint
        /\ poller'.before = 0
    BY <2>1, <2>2, AsleepType DEF Asleep
  <2> QED
    BY <1>2, <2>3 DEF StartListing, onChain, db, ChainTypeOK, DbTypeOK, ScanInv
<1>3. ASSUME NEW d, WriteDenomination(d)
      PROVE  TypeOK'
  BY <1>3 DEF WriteDenomination, upsertDenomination, onChain, ChainTypeOK, DbTypeOK, ScanInv
<1>4. ASSUME NEW t \in poller.trees, WriteRoot(t)
      PROVE  TypeOK'
  <2>1. t \in Denoms \X Seq(Nat)
    OBVIOUS
  <2>2. t[1] \in Denoms /\ t[2] \in Seq(Nat) /\ Len(t[2]) \in Nat
    BY <2>1
  <2>3. roots' \in [Denoms -> SUBSET (Nat \X Seq(Nat))]
    BY <1>4, <2>2 DEF WriteRoot, upsertRoot, DbTypeOK
  <2> QED
    BY <1>4, <2>3 DEF WriteRoot, onChain, ChainTypeOK, DbTypeOK, ScanInv
<1>5. ASSUME NEW n, WriteNullifier(n)
      PROVE  TypeOK'
  BY <1>5 DEF WriteNullifier, onChain, ChainTypeOK, DbTypeOK, ScanInv
<1> QED
  BY <1>1, <1>2, <1>3, <1>4, <1>5

\* The largest index of a mirrored list is that of its last leaf.
LEMMA NextIndex ==
  ASSUME NEW d, NEW s \in Seq(Nat), commitments[d] = Mirror(s)
  PROVE  maxLeafIndex(d) + 1 = Len(s)
<1>1. Len(s) \in Nat
  OBVIOUS
<1>2. CASE Len(s) = 0
  <2>1. ASSUME NEW row \in Mirror(s)
        PROVE  FALSE
    <3>1. row[1] \in 0 .. Len(s) - 1
      BY MirrorRows
    <3> QED
      BY <1>2, <3>1
  <2> QED
    BY <1>2, <2>1 DEF maxLeafIndex
<1>3. CASE Len(s) # 0
  <2>1. <<Len(s) - 1, s[Len(s)]>> \in commitments[d]
    BY <1>1, <1>3, MirrorRows
  <2>2. \A row \in commitments[d] : row[1] \in Int /\ row[1] <= Len(s) - 1
    BY <1>1, MirrorRows
  <2> DEFINE ns == {row[1] : row \in commitments[d]}
  <2>3. Len(s) - 1 \in ns
    BY <2>1
  <2>4. \A n \in ns : (\A row \in commitments[d] : row[1] <= n) => n = Len(s) - 1
    BY <1>1, <2>1, <2>2
  <2>5. (CHOOSE n \in ns : \A row \in commitments[d] : row[1] <= n) = Len(s) - 1
    BY <2>2, <2>3, <2>4
  <2>6. maxLeafIndex(d) = Len(s) - 1
    BY <2>1, <2>5 DEF maxLeafIndex
  <2> QED
    BY <1>1, <2>6
<1> QED
  BY <1>2, <1>3

-----------------------------------------------------------------------------
(* The stored leaves are a list, whatever was skipped *)

MirrorInv ==
  \A d \in Denoms : \E s \in Seq(Nat) :
    /\ commitments[d] = Mirror(s)
    /\ poller.nextLeaf[d] \in {Unseeded, Len(s)}

\* An instruction's leaf is stored already, cannot be stored, or becomes the
\* last of its list.
AppendsTo(ix, s) ==
  /\ ~commitmentExists(ix.denom, ix.leaf)
  /\ commitments[ix.denom] = Mirror(s)
  /\ commitments' = [commitments EXCEPT ![ix.denom] = Mirror(Append(s, ix.leaf))]
  /\ poller' = [poller EXCEPT !.ixs = Tail(@), !.nextLeaf[ix.denom] = Len(s) + 1]

LEMMA AppendCases ==
  ASSUME TypeOK, MirrorInv, AppendLeaf
  PROVE  /\ poller.pc = "append" /\ poller.ixs # <<>> /\ Head(poller.ixs) \in Ixs
         /\ \/ /\ commitmentExists(Head(poller.ixs).denom, Head(poller.ixs).leaf)
               /\ poller' = [poller EXCEPT !.ixs = Tail(@)]
               /\ UNCHANGED commitments
            \/ poller' = Asleep /\ UNCHANGED commitments
            \/ \E s \in Seq(Nat) : AppendsTo(Head(poller.ixs), s)
<1>1. poller.pc = "append" /\ poller.ixs # <<>> /\ poller.ixs \in Seq(Ixs)
  BY DEF AppendLeaf, TypeOK, PollerTypeOK
<1>2. PICK ix : ix = Head(poller.ixs)
  OBVIOUS
<1>3. ix \in Ixs
  BY <1>1, <1>2, HeadTailProperties
<1>4. ix.denom \in Denoms /\ ix.leaf \in Nat
  BY <1>3 DEF Ixs
<1>5. PICK s \in Seq(Nat) : /\ commitments[ix.denom] = Mirror(s)
                            /\ poller.nextLeaf[ix.denom] \in {Unseeded, Len(s)}
  BY <1>4 DEF MirrorInv
<1>6. LeafFor(ix.denom) = Len(s)
  BY <1>5, NextIndex DEF LeafFor
<1>7. \A row \in commitments[ix.denom] : row[1] # Len(s)
  BY <1>5, MirrorRows
<1>8. CASE commitmentExists(ix.denom, ix.leaf)
  BY <1>1, <1>2, <1>3, <1>8 DEF AppendLeaf
<1>9. CASE ~commitmentExists(ix.denom, ix.leaf) /\ ix.denom \notin denominations
  BY <1>1, <1>2, <1>3, <1>9 DEF AppendLeaf
<1>10. CASE ~commitmentExists(ix.denom, ix.leaf) /\ ix.denom \in denominations
  <2>1. /\ insertCommitment(ix.denom, Len(s), ix.leaf)
        /\ poller' = [poller EXCEPT !.ixs = Tail(@), !.nextLeaf[ix.denom] = Len(s) + 1]
    BY <1>2, <1>6, <1>10 DEF AppendLeaf
  <2>2. commitments \in [Denoms -> SUBSET (Int \X Nat)]
    BY DEF TypeOK, DbTypeOK
  <2>3. commitments' = [commitments EXCEPT ![ix.denom] =
                          commitments[ix.denom] \cup {<<Len(s), ix.leaf>>}]
    BY <1>4, <1>7, <2>1, <2>2 DEF insertCommitment
  <2>4. commitments[ix.denom] \cup {<<Len(s), ix.leaf>>} = Mirror(Append(s, ix.leaf))
    BY <1>4, <1>5, MirrorAppend
  <2>5. AppendsTo(ix, s)
    BY <1>5, <1>10, <2>1, <2>3, <2>4 DEF AppendsTo
  <2> QED
    BY <1>1, <1>2, <1>3, <2>5
<1> QED
  BY <1>8, <1>9, <1>10

LEMMA AppendsFields ==
  ASSUME TypeOK, NEW ix, NEW s, AppendsTo(ix, s)
  PROVE  /\ poller'.ixs = Tail(poller.ixs)
         /\ poller'.pc = poller.pc /\ poller'.cursor = poller.cursor
         /\ poller'.upto = poller.upto /\ poller'.trees = poller.trees
<1>1. PICK ixs : ixs = Tail(poller.ixs)
  OBVIOUS
<1>2. PICK next : next = [poller.nextLeaf EXCEPT ![ix.denom] = Len(s) + 1]
  OBVIOUS
<1>3. poller' = [poller EXCEPT !.ixs = ixs, !.nextLeaf = next]
  BY <1>1, <1>2 DEF AppendsTo, TypeOK, PollerTypeOK
<1> QED
  BY <1>1, <1>3 DEF TypeOK, PollerTypeOK

\* What an append step does to the types and the list.
LEMMA AppendKeepsMirror ==
  ASSUME TypeOK, MirrorInv, AppendLeaf
  PROVE  TypeOK' /\ MirrorInv'
<1>1. UNCHANGED <<onChain, roots, checkpoint>>
  BY DEF AppendLeaf
<1>2. poller.pc = "append" /\ poller.ixs # <<>> /\ poller.ixs \in Seq(Ixs)
  BY DEF AppendLeaf, TypeOK, PollerTypeOK
<1>3. Tail(poller.ixs) \in Seq(Ixs)
  BY <1>2, HeadTailProperties
<1>4. CASE poller' = [poller EXCEPT !.ixs = Tail(@)] /\ UNCHANGED commitments
  <2>1. PollerTypeOK' /\ poller'.pc = poller.pc /\ poller'.cursor = poller.cursor
        /\ poller'.upto = poller.upto /\ poller'.nextLeaf = poller.nextLeaf
    BY <1>3, <1>4 DEF TypeOK, PollerTypeOK
  <2> QED
    BY <1>1, <1>2, <1>4, <2>1
       DEF TypeOK, ChainTypeOK, DbTypeOK, ScanInv, MirrorInv, onChain
<1>5. CASE poller' = Asleep /\ UNCHANGED commitments
  <2>1. PollerTypeOK' /\ poller'.pc = "idle" /\ \A d \in Denoms : poller'.nextLeaf[d] = Unseeded
    BY <1>5, AsleepType DEF PollerTypeOK
  <2> QED
    BY <1>1, <1>5, <2>1 DEF TypeOK, ChainTypeOK, DbTypeOK, ScanInv, MirrorInv, onChain
<1>6. ASSUME NEW s \in Seq(Nat), AppendsTo(Head(poller.ixs), s)
      PROVE  TypeOK' /\ MirrorInv'
  <2>1. PICK ix \in Ixs : ix = Head(poller.ixs)
    BY AppendCases
  <2>2. ix.denom \in Denoms /\ ix.leaf \in Nat
    BY <2>1 DEF Ixs
  <2>3. Append(s, ix.leaf) \in Seq(Nat) /\ Len(Append(s, ix.leaf)) = Len(s) + 1
    BY <2>2, AppendProperties
  <2>4. PICK t \in Seq(Nat) : t = Append(s, ix.leaf)
    BY <2>3
  <2>5. /\ commitments' = [commitments EXCEPT ![ix.denom] = Mirror(t)]
        /\ poller' = [poller EXCEPT !.ixs = Tail(@), !.nextLeaf[ix.denom] = Len(t)]
    BY <1>6, <2>1, <2>3, <2>4 DEF AppendsTo
  <2>6. Mirror(t) \subseteq Int \X Nat
    BY MirrorRows
  <2>7. commitments' \in [Denoms -> SUBSET (Int \X Nat)]
    BY <2>2, <2>5, <2>6 DEF TypeOK, DbTypeOK
  <2>8. /\ PollerTypeOK' /\ poller'.pc = poller.pc /\ poller'.cursor = poller.cursor
        /\ poller'.upto = poller.upto
        /\ poller'.nextLeaf = [poller.nextLeaf EXCEPT ![ix.denom] = Len(t)]
    <3>1. PICK ixs \in Seq(Ixs) : ixs = Tail(poller.ixs)
      BY <1>3
    <3>2. PICK next : next = [poller.nextLeaf EXCEPT ![ix.denom] = Len(t)]
      OBVIOUS
    <3>3. Len(t) \in Int
      BY LenProperties
    <3>4. next \in [Denoms -> Int]
      BY <2>2, <3>2, <3>3 DEF TypeOK, PollerTypeOK
    <3>5. poller' = [poller EXCEPT !.ixs = ixs, !.nextLeaf = next]
      BY <2>5, <3>1, <3>2 DEF TypeOK, PollerTypeOK
    <3> QED
      BY <3>2, <3>4, <3>5 DEF TypeOK, PollerTypeOK
  <2>9. TypeOK'
    BY <1>1, <1>2, <2>7, <2>8 DEF TypeOK, ChainTypeOK, DbTypeOK, ScanInv, onChain
  <2>10. ASSUME NEW d \in Denoms
         PROVE  \E u \in Seq(Nat) :
                  commitments'[d] = Mirror(u) /\ poller'.nextLeaf[d] \in {Unseeded, Len(u)}
    <3>1. CASE d = ix.denom
      BY <2>2, <2>5, <2>8, <3>1 DEF TypeOK, DbTypeOK, PollerTypeOK
    <3>2. CASE d # ix.denom
      <4>1. commitments'[d] = commitments[d] /\ poller'.nextLeaf[d] = poller.nextLeaf[d]
        BY <2>5, <2>8, <3>2 DEF TypeOK, DbTypeOK, PollerTypeOK
      <4> QED
        BY <4>1 DEF MirrorInv
    <3> QED
      BY <3>1, <3>2
  <2> QED
    BY <2>9, <2>10 DEF MirrorInv
<1> QED
  BY <1>4, <1>5, <1>6, AppendCases

LEMMA ScanTypes ==
  ASSUME TypeOK, ReadPage \/ FetchTx \/ Checkpoint \/ Abort
  PROVE  TypeOK'
<1> USE DEF TypeOK
<1>0. Len(chain) \in Nat
  BY DEF ChainTypeOK
<1>1. CASE ReadPage
  <2>1. UNCHANGED <<onChain, db>> /\ poller.pc = "list"
    BY <1>1 DEF ReadPage
  <2> DEFINE page == SignaturesBelow(poller.before, poller.cursor)
             upto == IF poller.before = 0 THEN Len(chain) ELSE poller.upto
             oldest == CHOOSE n \in page : \A m \in page : n <= m
  <2>2. poller' = IF Cardinality(page) = PageLimit
                  THEN [poller EXCEPT !.upto = upto, !.before = oldest]
                  ELSE IF upto = poller.cursor THEN Asleep
                  ELSE [poller EXCEPT !.pc = "fetch", !.upto = upto, !.before = 0]
    BY <1>1 DEF ReadPage
  <2>3. upto = IF poller.before = 0 THEN Len(chain) ELSE poller.upto
    OBVIOUS
  <2> HIDE DEF page, upto, oldest
  <2>4. upto \in Nat /\ poller.cursor <= upto /\ upto <= Len(chain)
    BY <1>0, <2>1, <2>3 DEF ScanInv, PollerTypeOK
  <2>5. CASE poller' = [poller EXCEPT !.upto = upto, !.before = oldest]
    BY <2>1, <2>4, <2>5 DEF onChain, db, ChainTypeOK, DbTypeOK, PollerTypeOK, ScanInv
  <2>6. CASE poller' = Asleep
    BY <2>1, <2>6, AsleepType DEF onChain, db, ChainTypeOK, DbTypeOK, PollerTypeOK, ScanInv
  <2>7. CASE upto # poller.cursor
             /\ poller' = [poller EXCEPT !.pc = "fetch", !.upto = upto, !.before = 0]
    <3>1. /\ PollerTypeOK' /\ poller'.pc = "fetch" /\ poller'.cursor = poller.cursor
          /\ poller'.upto = upto
      BY <2>4, <2>7 DEF PollerTypeOK
    <3>2. poller.cursor < upto
      BY <2>4, <2>7 DEF PollerTypeOK
    <3> QED
      BY <2>1, <2>4, <3>1, <3>2 DEF onChain, db, ChainTypeOK, DbTypeOK, ScanInv
  <2> QED
    BY <2>2, <2>5, <2>6, <2>7
<1>2. CASE FetchTx
  <2>1. UNCHANGED <<onChain, db>> /\ poller.pc = "fetch"
    BY <1>2 DEF FetchTx
  <2>2. PICK ixs \in {chain[poller.cursor + 1]} \cup {<<>>} :
          poller' = [poller EXCEPT !.pc = "append", !.ixs = ixs]
    BY <1>2 DEF FetchTx
  <2>3. poller.cursor + 1 \in 1 .. Len(chain)
    BY <1>0, <2>1 DEF ScanInv, PollerTypeOK
  <2>4. chain[poller.cursor + 1] \in Seq(Ixs)
    BY <2>3, ElementOfSeq DEF ChainTypeOK, Txs
  <2>5. ixs = chain[poller.cursor + 1] \/ ixs = <<>>
    BY <2>2
  <2>6. ixs \in Seq(Ixs)
    <3>1. <<>> \in Seq(Ixs)
      OBVIOUS
    <3> QED
      BY <2>4, <2>5, <3>1
  <2> QED
    BY <2>1, <2>2, <2>6 DEF onChain, db, ChainTypeOK, DbTypeOK, PollerTypeOK, ScanInv
<1>3. CASE Checkpoint
  <2>1. /\ UNCHANGED <<onChain, roots, commitments>> /\ poller.pc = "append"
        /\ checkpoint' = poller.cursor + 1
        /\ poller' = IF poller.cursor + 1 = poller.upto THEN Asleep
                     ELSE [poller EXCEPT !.pc = "fetch", !.cursor = @ + 1]
    BY <1>3 DEF Checkpoint, saveCheckpoint
  <2>2. poller.cursor \in Nat /\ poller.upto \in Nat
        /\ poller.cursor < poller.upto /\ poller.upto <= Len(chain)
    BY <2>1 DEF ScanInv, PollerTypeOK
  <2>3. CASE poller' = Asleep
    <3>1. PollerTypeOK' /\ poller'.pc = "idle"
      BY <2>3, AsleepType DEF PollerTypeOK
    <3>2. checkpoint' \in 0 .. Len(chain)
      BY <1>0, <2>1, <2>2
    <3> QED
      BY <2>1, <3>1, <3>2 DEF onChain, ChainTypeOK, DbTypeOK, ScanInv
  <2>4. CASE poller.cursor + 1 # poller.upto
             /\ poller' = [poller EXCEPT !.pc = "fetch", !.cursor = @ + 1]
    <3>1. /\ PollerTypeOK' /\ poller'.pc = "fetch" /\ poller'.cursor = poller.cursor + 1
          /\ poller'.upto = poller.upto
      <4>1. PICK next \in Nat : next = poller.cursor + 1
        BY <2>2
      <4>2. poller' = [poller EXCEPT !.pc = "fetch", !.cursor = next]
        BY <2>4, <4>1
      <4> QED
        BY <4>1, <4>2 DEF PollerTypeOK
    <3>2. checkpoint' \in 0 .. Len(chain) /\ poller.cursor + 1 < poller.upto
      BY <1>0, <2>1, <2>2, <2>4
    <3> QED
      BY <2>1, <2>2, <3>1, <3>2 DEF onChain, ChainTypeOK, DbTypeOK, ScanInv
  <2> QED
    BY <2>1, <2>3, <2>4
<1>4. CASE Abort
  BY <1>4, AsleepType DEF Abort, onChain, db, ChainTypeOK, DbTypeOK, PollerTypeOK, ScanInv
<1> QED
  BY <1>1, <1>2, <1>3, <1>4

\* Every other step leaves the stored leaves alone, and the indexes held in
\* memory alone or forgets them.
LEMMA OthersKeepMirror ==
  ASSUME TypeOK, MirrorInv,
         \/ ChainStep
         \/ ReadAccounts \/ StartListing
         \/ \E d \in poller.denoms : WriteDenomination(d)
         \/ \E t \in poller.trees : WriteRoot(t)
         \/ \E n \in poller.spent : WriteNullifier(n)
         \/ ReadPage \/ FetchTx \/ Checkpoint \/ Abort
  PROVE  MirrorInv' /\ UNCHANGED commitments
<1>1. UNCHANGED commitments
  BY DEF ChainStep, Register, Land, ReadAccounts, StartListing, WriteDenomination, WriteRoot,
         WriteNullifier, ReadPage, FetchTx, Checkpoint, Abort, db
<1>2. poller'.nextLeaf = poller.nextLeaf \/ poller'.nextLeaf = Asleep.nextLeaf
  <2> USE DEF TypeOK, PollerTypeOK
  <2>1. CASE ChainStep
    BY <2>1 DEF ChainStep, Register, Land
  <2>2. CASE ReadAccounts
    BY <2>2 DEF ReadAccounts, Asleep
  <2>3. CASE StartListing
    BY <2>3 DEF StartListing, Asleep
  <2>4. CASE \/ \E d \in poller.denoms : WriteDenomination(d)
             \/ \E t \in poller.trees : WriteRoot(t)
             \/ \E n \in poller.spent : WriteNullifier(n)
    BY <2>4 DEF WriteDenomination, WriteRoot, WriteNullifier
  <2>5. CASE ReadPage
    BY <2>5 DEF ReadPage
  <2>6. CASE FetchTx \/ Checkpoint \/ Abort
    BY <2>6 DEF FetchTx, Checkpoint, Abort
  <2> QED
    BY <2>1, <2>2, <2>3, <2>4, <2>5, <2>6
<1>3. \A d \in Denoms : Asleep.nextLeaf[d] = Unseeded
  BY AsleepType
<1> QED
  BY <1>1, <1>2, <1>3 DEF MirrorInv

-----------------------------------------------------------------------------
(* Leaves and roots are those of the trees *)

On(trees, d, leaf) == \E i \in 1 .. Len(trees[d]) : trees[d][i] = leaf

\* Every leaf the chain, the poller or the database knows is on its tree.
KnownInv ==
  /\ \A c \in 1 .. Len(chain) : \A k \in 1 .. Len(chain[c]) :
       On(tree, chain[c][k].denom, chain[c][k].leaf)
  /\ \A k \in 1 .. Len(poller.ixs) : On(tree, poller.ixs[k].denom, poller.ixs[k].leaf)
  /\ \A d \in Denoms : \A row \in commitments[d] : On(tree, d, row[2])

\* A root row is of a tree that was, filed under its size.
RootsInv ==
  /\ \A d \in Denoms : \A row \in roots[d] : row[1] = Len(row[2]) /\ IsPrefix(row[2], tree[d])
  /\ \A t \in poller.trees : IsPrefix(t[2], tree[t[1]])

AccountSteps ==
  \/ ReadAccounts \/ StartListing
  \/ \E d \in poller.denoms : WriteDenomination(d)
  \/ \E t \in poller.trees : WriteRoot(t)
  \/ \E n \in poller.spent : WriteNullifier(n)

LEMMA StepCases ==
  Next => ChainStep \/ AccountSteps \/ ReadPage \/ FetchTx \/ AppendLeaf \/ Checkpoint \/ Abort
BY DEF Next, PollerStep, AccountSteps

\* Only a transaction of the chain changes the trees, and it adds to their ends.
LEMMA ChainWaits ==
  ASSUME AccountSteps \/ ReadPage \/ FetchTx \/ AppendLeaf \/ Checkpoint \/ Abort
  PROVE  UNCHANGED <<chain, tree>>
BY DEF AccountSteps, ReadAccounts, StartListing, WriteDenomination, WriteRoot, WriteNullifier,
       ReadPage, FetchTx, AppendLeaf, Checkpoint, Abort, onChain

LEMMA LandedTree ==
  ASSUME TypeOK, NEW tx \in Txs, Land(tx), NEW d \in Denoms
  PROVE  /\ tree'[d] = tree[d] \o LeavesOf(tx, d)
         /\ Len(tree'[d]) = Len(tree[d]) + Len(LeavesOf(tx, d))
         /\ Len(tree[d]) \in Nat /\ Len(LeavesOf(tx, d)) \in Nat
         /\ \A i \in 1 .. Len(tree[d]) : tree'[d][i] = tree[d][i]
         /\ \A i \in 1 .. Len(LeavesOf(tx, d)) :
              tree'[d][Len(tree[d]) + i] = LeavesOf(tx, d)[i]
<1>1. tree'[d] = tree[d] \o LeavesOf(tx, d)
  BY DEF Land, TypeOK, ChainTypeOK
<1>2. tree[d] \in Seq(Nat) /\ LeavesOf(tx, d) \in Seq(Nat)
  BY LeavesOfTx DEF TypeOK, ChainTypeOK
<1>3. Len(tree[d]) \in Nat /\ Len(LeavesOf(tx, d)) \in Nat
  BY <1>2, LenProperties
<1>4. PICK s, t : s = tree[d] /\ t = LeavesOf(tx, d)
  OBVIOUS
<1>5. /\ Len(s \o t) = Len(s) + Len(t)
      /\ \A i \in 1 .. Len(s) + Len(t) :
           (s \o t)[i] = IF i <= Len(s) THEN s[i] ELSE t[i - Len(s)]
  BY <1>2, <1>4, ConcatProperties
<1>6. \A i \in 1 .. Len(s) : i \in 1 .. Len(s) + Len(t) /\ i <= Len(s)
  BY <1>3, <1>4
<1>7. \A i \in 1 .. Len(t) : /\ Len(s) + i \in 1 .. Len(s) + Len(t) /\ ~(Len(s) + i <= Len(s))
                             /\ (Len(s) + i) - Len(s) = i
  BY <1>3, <1>4
<1> QED
  BY <1>1, <1>3, <1>4, <1>5, <1>6, <1>7

LEMMA TreeGrows ==
  ASSUME TypeOK, Next, NEW d \in Denoms
  PROVE  /\ Len(tree[d]) <= Len(tree'[d])
         /\ \A i \in 1 .. Len(tree[d]) : tree'[d][i] = tree[d][i]
<1>1. Len(tree[d]) \in Nat
  BY LenProperties DEF TypeOK, ChainTypeOK
<1>2. CASE tree' = tree
  BY <1>1, <1>2
<1>3. CASE ChainStep
  <2>1. CASE \E e \in Denoms : Register(e)
    BY <1>2, <2>1 DEF Register
  <2>2. ASSUME NEW tx \in Txs, Land(tx)
        PROVE  /\ Len(tree[d]) <= Len(tree'[d])
               /\ \A i \in 1 .. Len(tree[d]) : tree'[d][i] = tree[d][i]
    BY <2>2, LandedTree
  <2> QED
    BY <1>3, <2>1, <2>2, ChainSteps DEF TypeOK
<1> QED
  BY <1>2, <1>3, StepCases, ChainWaits

LEMMA OnTreeStays ==
  ASSUME TypeOK, Next, NEW d \in Denoms, NEW leaf, On(tree, d, leaf)
  PROVE  On(tree', d, leaf)
<1>1. PICK i \in 1 .. Len(tree[d]) : tree[d][i] = leaf
  BY DEF On
<1>2. Len(tree[d]) \in Nat /\ Len(tree'[d]) \in Nat
  <2>1. TypeOK' \/ tree'[d] \in Seq(Nat)
    <3>1. CASE ChainStep
      BY <3>1, ChainTypes
    <3>2. CASE ~ChainStep
      BY <3>2, StepCases, ChainWaits DEF TypeOK, ChainTypeOK
    <3> QED
      BY <3>1, <3>2
  <2> QED
    BY <2>1, LenProperties DEF TypeOK, ChainTypeOK
<1>3. i \in 1 .. Len(tree'[d]) /\ tree'[d][i] = leaf
  BY <1>1, <1>2, TreeGrows
<1> QED
  BY <1>3 DEF On

\* An instruction the poller holds was one before, or is of a transaction.
LEMMA HeldInstructions ==
  ASSUME TypeOK, MirrorInv, Next, NEW k \in 1 .. Len(poller'.ixs)
  PROVE  \/ \E m \in 1 .. Len(poller.ixs) : poller'.ixs[k] = poller.ixs[m]
         \/ \E c \in 1 .. Len(chain) : \E m \in 1 .. Len(chain[c]) : poller'.ixs[k] = chain[c][m]
<1>1. CASE poller'.ixs = poller.ixs
  BY <1>1
<1>2. CASE poller'.ixs = <<>>
  <2>1. Len(poller'.ixs) = 0
    BY <1>2
  <2> QED
    BY <2>1
<1>3. CASE poller.ixs # <<>> /\ poller'.ixs = Tail(poller.ixs)
  <2>1. poller.ixs \in Seq(Ixs)
    BY DEF TypeOK, PollerTypeOK
  <2>2. /\ Len(poller'.ixs) = Len(poller.ixs) - 1 /\ Len(poller.ixs) \in Nat
        /\ poller'.ixs[k] = poller.ixs[k + 1]
    BY <1>3, <2>1, HeadTailProperties, LenProperties
  <2>3. k + 1 \in 1 .. Len(poller.ixs)
    BY <2>2
  <2> QED
    BY <2>2, <2>3
<1>4. CASE ChainStep
  BY <1>1, <1>4 DEF ChainStep, Register, Land
<1>5. CASE AccountSteps
  BY <1>1, <1>2, <1>5
     DEF AccountSteps, ReadAccounts, StartListing, WriteDenomination, WriteRoot, WriteNullifier,
         Asleep, TypeOK, PollerTypeOK
<1>6. CASE ReadPage
  BY <1>1, <1>2, <1>6 DEF ReadPage, Asleep, TypeOK, PollerTypeOK
<1>7. CASE Checkpoint \/ Abort
  <2>1. CASE Checkpoint
    <3>1. poller' = Asleep \/ poller' = [poller EXCEPT !.pc = "fetch", !.cursor = poller.cursor + 1]
      BY <2>1 DEF Checkpoint
    <3>2. CASE poller' = Asleep
      BY <1>2, <3>2, AsleepType
    <3>3. CASE poller' = [poller EXCEPT !.pc = "fetch", !.cursor = poller.cursor + 1]
      BY <1>1, <3>3 DEF TypeOK, PollerTypeOK
    <3> QED
      BY <3>1, <3>2, <3>3
  <2>2. CASE Abort
    BY <1>2, <2>2, AsleepType DEF Abort
  <2> QED
    BY <1>7, <2>1, <2>2
<1>8. CASE AppendLeaf
  <2>1. poller'.ixs = Tail(poller.ixs) \/ poller'.ixs = <<>>
    <3>1. CASE poller' = [poller EXCEPT !.ixs = Tail(@)]
      BY <3>1 DEF TypeOK, PollerTypeOK
    <3>2. CASE poller' = Asleep
      BY <3>2, AsleepType
    <3>3. ASSUME NEW s \in Seq(Nat), AppendsTo(Head(poller.ixs), s)
          PROVE  poller'.ixs = Tail(poller.ixs)
      BY <3>3, AppendsFields
    <3> QED
      BY <1>8, <3>1, <3>2, <3>3, AppendCases
  <2> QED
    BY <1>2, <1>3, <1>8, <2>1, AppendCases
<1>9. CASE FetchTx
  <2>1. poller.pc = "fetch" /\ poller.cursor + 1 \in 1 .. Len(chain)
    BY <1>9 DEF FetchTx, TypeOK, ScanInv, PollerTypeOK, ChainTypeOK
  <2>2. poller'.ixs = chain[poller.cursor + 1] \/ poller'.ixs = <<>>
    BY <1>9 DEF FetchTx, TypeOK, PollerTypeOK
  <2>3. CASE poller'.ixs = chain[poller.cursor + 1]
    BY <2>1, <2>3
  <2> QED
    BY <1>2, <2>2, <2>3
<1> QED
  BY <1>4, <1>5, <1>6, <1>7, <1>8, <1>9, StepCases

\* A stored row was stored before, or is the leaf of the next instruction.
LEMMA StoredRows ==
  ASSUME TypeOK, MirrorInv, Next, NEW d \in Denoms
  PROVE  /\ commitments[d] \subseteq commitments'[d]
         /\ \A row \in commitments'[d] :
              \/ row \in commitments[d]
              \/ /\ poller.ixs # <<>> /\ d = Head(poller.ixs).denom
                 /\ row[2] = Head(poller.ixs).leaf
<1>1. CASE UNCHANGED commitments
  BY <1>1
<1>2. ASSUME poller.ixs # <<>>, Head(poller.ixs) \in Ixs,
             NEW s \in Seq(Nat), AppendsTo(Head(poller.ixs), s)
      PROVE  /\ commitments[d] \subseteq commitments'[d]
             /\ \A row \in commitments'[d] :
                  \/ row \in commitments[d]
                  \/ /\ poller.ixs # <<>> /\ d = Head(poller.ixs).denom
                     /\ row[2] = Head(poller.ixs).leaf
  <2>1. PICK ix \in Ixs : ix = Head(poller.ixs)
    BY <1>2
  <2>2. ix.denom \in Denoms /\ ix.leaf \in Nat
    BY <2>1 DEF Ixs
  <2>3. CASE d # ix.denom
    BY <1>2, <2>1, <2>3 DEF AppendsTo, TypeOK, DbTypeOK
  <2>4. CASE d = ix.denom
    <3>1. commitments'[d] = commitments[d] \cup {<<Len(s), ix.leaf>>}
      BY <1>2, <2>1, <2>2, <2>4, MirrorAppend DEF AppendsTo, TypeOK, DbTypeOK
    <3> QED
      BY <1>2, <2>1, <2>4, <3>1
  <2> QED
    BY <2>3, <2>4
<1>3. CASE AppendLeaf
  BY <1>1, <1>2, <1>3, AppendCases
<1> QED
  BY <1>1, <1>3, StepCases, OthersKeepMirror DEF AccountSteps

LEMMA ChainElements ==
  ASSUME TypeOK, NEW c \in 1 .. Len(chain), NEW k \in 1 .. Len(chain[c])
  PROVE  /\ chain[c] \in Txs /\ Len(chain[c]) \in Nat
         /\ chain[c][k] \in Ixs /\ chain[c][k].denom \in Denoms /\ chain[c][k].leaf \in Nat
<1>1. chain[c] \in Txs
  BY ElementOfSeq DEF TypeOK, ChainTypeOK
<1>2. chain[c] \in Seq(Ixs)
  BY <1>1 DEF Txs
<1>3. chain[c][k] \in Ixs /\ Len(chain[c]) \in Nat
  BY <1>2, ElementOfSeq, LenProperties
<1> QED
  BY <1>1, <1>3 DEF Ixs

\* What a landed transaction adds to the chain and to the trees.
LEMMA LandedChain ==
  ASSUME TypeOK, NEW tx \in Txs, Land(tx)
  PROVE  /\ Len(chain') = Len(chain) + 1 /\ Len(chain) \in Nat
         /\ chain'[Len(chain) + 1] = tx
         /\ \A c \in 1 .. Len(chain) : chain'[c] = chain[c]
         /\ \A k \in 1 .. Len(tx) : tx[k] \in Ixs /\ On(tree', tx[k].denom, tx[k].leaf)
<1>1. /\ Len(chain') = Len(chain) + 1 /\ Len(chain) \in Nat
      /\ chain'[Len(chain) + 1] = tx
      /\ \A c \in 1 .. Len(chain) : chain'[c] = chain[c]
  BY DEF Land, TypeOK, ChainTypeOK
<1>2. ASSUME NEW k \in 1 .. Len(tx)
      PROVE  tx[k] \in Ixs /\ On(tree', tx[k].denom, tx[k].leaf)
  <2>1. tx[k] \in Ixs
    BY ElementOfSeq DEF Txs
  <2>2. PICK d \in Denoms : d = tx[k].denom
    BY <2>1 DEF Ixs
  <2>3. PICK i \in 1 .. Len(LeavesOf(tx, d)) : LeavesOf(tx, d)[i] = tx[k].leaf
    BY <2>2, LeavesOfTx
  <2>4. /\ tree'[d][Len(tree[d]) + i] = tx[k].leaf
        /\ Len(tree[d]) + i \in 1 .. Len(tree'[d])
    <3>1. \A n \in 1 .. Len(LeavesOf(tx, d)) :
            /\ tree'[d][Len(tree[d]) + n] = LeavesOf(tx, d)[n]
            /\ Len(tree[d]) + n \in 1 .. Len(tree'[d])
      BY LandedTree
    <3> QED
      BY <2>3, <3>1
  <2>5. On(tree', d, tx[k].leaf)
    BY <2>4 DEF On
  <2> QED
    BY <2>1, <2>2, <2>5
<1> QED
  BY <1>1, <1>2

LEMMA KnownStep ==
  ASSUME TypeOK, MirrorInv, KnownInv, Next
  PROVE  KnownInv'
<1>1. ASSUME NEW c \in 1 .. Len(chain), NEW k \in 1 .. Len(chain[c])
      PROVE  On(tree', chain[c][k].denom, chain[c][k].leaf)
  BY <1>1, ChainElements, OnTreeStays DEF KnownInv
<1>2. ASSUME NEW c \in 1 .. Len(chain'), NEW k \in 1 .. Len(chain'[c])
      PROVE  On(tree', chain'[c][k].denom, chain'[c][k].leaf)
  <2>1. CASE UNCHANGED chain
    BY <1>1, <2>1
  <2>2. ASSUME NEW tx \in Txs, Land(tx)
        PROVE  On(tree', chain'[c][k].denom, chain'[c][k].leaf)
    <3>1. CASE c = Len(chain) + 1
      BY <2>2, <3>1, LandedChain
    <3>2. CASE c \in 1 .. Len(chain)
      BY <1>1, <2>2, <3>2, LandedChain
    <3> QED
      BY <2>2, <3>1, <3>2, LandedChain
  <2>3. CASE ChainStep
    BY <2>1, <2>2, <2>3, ChainSteps DEF Register, TypeOK
  <2> QED
    BY <2>1, <2>3, StepCases, ChainWaits
<1>3. ASSUME NEW m \in 1 .. Len(poller.ixs)
      PROVE  /\ poller.ixs[m] \in Ixs
             /\ On(tree', poller.ixs[m].denom, poller.ixs[m].leaf)
  <2>1. poller.ixs[m] \in Ixs
    BY ElementOfSeq DEF TypeOK, PollerTypeOK
  <2>2. poller.ixs[m].denom \in Denoms
    BY <2>1 DEF Ixs
  <2> QED
    BY <2>1, <2>2, OnTreeStays DEF KnownInv
<1>4. ASSUME NEW k \in 1 .. Len(poller'.ixs)
      PROVE  On(tree', poller'.ixs[k].denom, poller'.ixs[k].leaf)
  BY <1>1, <1>3, HeldInstructions
<1>5. ASSUME NEW d \in Denoms, NEW row \in commitments'[d]
      PROVE  On(tree', d, row[2])
  <2>1. CASE row \in commitments[d]
    BY <2>1, OnTreeStays DEF KnownInv
  <2>2. CASE poller.ixs # <<>> /\ d = Head(poller.ixs).denom /\ row[2] = Head(poller.ixs).leaf
    <3>1. poller.ixs \in Seq(Ixs)
      BY DEF TypeOK, PollerTypeOK
    <3>2. 1 \in 1 .. Len(poller.ixs) /\ Head(poller.ixs) = poller.ixs[1]
      BY <2>2, <3>1
    <3> QED
      BY <1>3, <2>2, <3>2
  <2> QED
    BY <2>1, <2>2, StoredRows
<1> QED
  BY <1>2, <1>4, <1>5 DEF KnownInv

\* A prefix of a tree stays one.
LEMMA PrefixStays ==
  ASSUME TypeOK, TypeOK', Next, NEW d \in Denoms, NEW s \in Seq(Nat), IsPrefix(s, tree[d])
  PROVE  IsPrefix(s, tree'[d])
<1>1. tree[d] \in Seq(Nat) /\ tree'[d] \in Seq(Nat)
  BY DEF TypeOK, ChainTypeOK
<1>2. Len(s) <= Len(tree[d]) /\ \A i \in 1 .. Len(s) : s[i] = tree[d][i]
  BY <1>1, PrefixElements
<1>3. Len(s) \in Nat /\ Len(tree[d]) \in Nat /\ Len(tree'[d]) \in Nat
  BY <1>1, LenProperties
<1>4. \A i \in 1 .. Len(s) : i \in 1 .. Len(tree[d])
  BY <1>2, <1>3
<1>5. Len(s) <= Len(tree'[d]) /\ \A i \in 1 .. Len(s) : s[i] = tree'[d][i]
  BY <1>2, <1>3, <1>4, TreeGrows
<1> QED
  BY <1>1, <1>5, PrefixElements

LEMMA RootsStep ==
  ASSUME TypeOK, TypeOK', MirrorInv, RootsInv, Next
  PROVE  RootsInv'
<1>1. ASSUME NEW d \in Denoms, NEW row \in roots[d]
      PROVE  row[1] = Len(row[2]) /\ IsPrefix(row[2], tree'[d])
  <2>1. row[2] \in Seq(Nat)
    BY DEF TypeOK, DbTypeOK
  <2> QED
    BY <2>1, PrefixStays DEF RootsInv
<1>2. ASSUME NEW t \in poller.trees
      PROVE  IsPrefix(t[2], tree'[t[1]])
  <2>1. t[1] \in Denoms /\ t[2] \in Seq(Nat)
    BY DEF TypeOK, PollerTypeOK
  <2> QED
    BY <2>1, PrefixStays DEF RootsInv
<1>3. ASSUME NEW d \in Denoms
      PROVE  \A row \in roots'[d] :
               \/ row \in roots[d]
               \/ \E t \in poller.trees : d = t[1] /\ row = <<Len(t[2]), t[2]>>
  <2>1. CASE UNCHANGED roots
    BY <2>1
  <2>2. ASSUME NEW t \in poller.trees, WriteRoot(t)
        PROVE  \A row \in roots'[d] :
                 \/ row \in roots[d]
                 \/ \E u \in poller.trees : d = u[1] /\ row = <<Len(u[2]), u[2]>>
    <3>1. t[1] \in Denoms
      BY DEF TypeOK, PollerTypeOK
    <3> QED
      BY <2>2, <3>1 DEF WriteRoot, upsertRoot, TypeOK, DbTypeOK
  <2>3. CASE AccountSteps
    BY <2>1, <2>2, <2>3 DEF AccountSteps, ReadAccounts, StartListing, WriteDenomination,
                            WriteNullifier, db
  <2>4. CASE ChainStep \/ ReadPage \/ FetchTx \/ AppendLeaf \/ Checkpoint \/ Abort
    BY <2>1, <2>4 DEF ChainStep, Register, Land, ReadPage, FetchTx, AppendLeaf, Checkpoint, Abort, db
  <2> QED
    BY <2>3, <2>4, StepCases
<1>4. ASSUME NEW t \in poller'.trees
      PROVE  IsPrefix(t[2], tree'[t[1]])
  <2>1. CASE poller'.trees \subseteq poller.trees
    BY <1>2, <2>1
  <2>2. CASE ReadAccounts
    <3>1. poller'.trees = {<<d, tree[d]>> : d \in registered}
      BY <2>2 DEF ReadAccounts, getAllProgramAccounts, Asleep
    <3>2. PICK d \in Denoms : t = <<d, tree[d]>>
      BY <3>1 DEF TypeOK, ChainTypeOK
    <3>3. tree' = tree /\ tree[d] \in Seq(Nat)
      BY <2>2 DEF ReadAccounts, onChain, TypeOK, ChainTypeOK
    <3>4. IsPrefix(tree[d], tree[d])
      BY <3>3, PrefixElements, LenProperties
    <3> QED
      BY <3>2, <3>3, <3>4
  <2>3. CASE \/ \E d \in poller.denoms : WriteDenomination(d)
             \/ \E u \in poller.trees : WriteRoot(u)
             \/ \E n \in poller.spent : WriteNullifier(n)
    <3>1. (\E d \in poller.denoms : WriteDenomination(d)) => poller'.trees \subseteq poller.trees
      BY DEF WriteDenomination, TypeOK, PollerTypeOK
    <3>2. (\E u \in poller.trees : WriteRoot(u)) => poller'.trees \subseteq poller.trees
      BY DEF WriteRoot, TypeOK, PollerTypeOK
    <3>3. (\E n \in poller.spent : WriteNullifier(n)) => poller'.trees \subseteq poller.trees
      BY DEF WriteNullifier, TypeOK, PollerTypeOK
    <3>4. poller'.trees \subseteq poller.trees
      BY <2>3, <3>1, <3>2, <3>3
    <3> QED
      BY <2>1, <3>4
  <2>4. CASE StartListing
    BY <2>4, AsleepType DEF StartListing, Asleep
  <2>5. CASE ChainStep
    BY <2>1, <2>5 DEF ChainStep, Register, Land
  <2>6. CASE ReadPage \/ FetchTx \/ Abort
    <3>1. CASE ReadPage
      <4>1. \/ poller' = Asleep
            \/ \E upto, before :
                 \/ poller' = [poller EXCEPT !.upto = upto, !.before = before]
                 \/ poller' = [poller EXCEPT !.pc = "fetch", !.upto = upto, !.before = before]
        BY <3>1 DEF ReadPage
      <4> QED
        BY <2>1, <4>1, AsleepType DEF TypeOK, PollerTypeOK
    <3>2. CASE FetchTx
      <4>1. \E ixs : poller' = [poller EXCEPT !.pc = "append", !.ixs = ixs]
        BY <3>2 DEF FetchTx
      <4> QED
        BY <2>1, <4>1 DEF TypeOK, PollerTypeOK
    <3>3. CASE Abort
      BY <2>1, <3>3, AsleepType DEF Abort
    <3> QED
      BY <2>6, <3>1, <3>2, <3>3
  <2>7. CASE Checkpoint
    <3>1. poller' = Asleep \/ poller' = [poller EXCEPT !.pc = "fetch", !.cursor = poller.cursor + 1]
      BY <2>7 DEF Checkpoint
    <3> QED
      BY <2>1, <3>1, AsleepType DEF TypeOK, PollerTypeOK
  <2>8. CASE AppendLeaf
    <3>1. CASE poller' = [poller EXCEPT !.ixs = Tail(@)]
      BY <2>1, <3>1 DEF TypeOK, PollerTypeOK
    <3>2. ASSUME NEW s \in Seq(Nat), AppendsTo(Head(poller.ixs), s)
          PROVE  poller'.trees = poller.trees
      BY <3>2, AppendsFields
    <3> QED
      BY <2>1, <2>8, <3>1, <3>2, AppendCases, AsleepType
  <2> QED
    BY <2>2, <2>3, <2>4, <2>5, <2>6, <2>7, <2>8, StepCases DEF AccountSteps
<1>5. ASSUME NEW d \in Denoms, NEW row \in roots'[d]
      PROVE  row[1] = Len(row[2]) /\ IsPrefix(row[2], tree'[d])
  <2>1. CASE row \in roots[d]
    BY <1>1, <2>1
  <2>2. ASSUME NEW t \in poller.trees, d = t[1], row = <<Len(t[2]), t[2]>>
        PROVE  row[1] = Len(row[2]) /\ IsPrefix(row[2], tree'[d])
    BY <1>2, <2>2
  <2> QED
    BY <1>3, <2>1, <2>2
<1> QED
  BY <1>4, <1>5 DEF RootsInv

-----------------------------------------------------------------------------
(* The invariant of the poller, whatever the node returns *)

IndexInv == TypeOK /\ MirrorInv /\ KnownInv /\ RootsInv

THEOREM InitIndex == Init => IndexInv
<1> SUFFICES ASSUME Init PROVE IndexInv
  OBVIOUS
<1>1. TypeOK
  BY InitTypes
<1>2. /\ chain = <<>> /\ poller.ixs = <<>> /\ poller.trees = {} /\ poller = Asleep
      /\ commitments = [d \in Denoms |-> {}] /\ roots = [d \in Denoms |-> {}]
  BY DEF Init, Asleep
<1>3. MirrorInv
  <2>1. <<>> \in Seq(Nat) /\ Mirror(<<>>) = {}
    BY MirrorRows DEF Mirror
  <2>2. \A d \in Denoms : poller.nextLeaf[d] = Unseeded
    BY <1>2, AsleepType
  <2> QED
    BY <1>2, <2>1, <2>2 DEF MirrorInv
<1>4. KnownInv
  BY <1>2 DEF KnownInv
<1>5. RootsInv
  BY <1>2 DEF RootsInv
<1> QED
  BY <1>1, <1>3, <1>4, <1>5 DEF IndexInv

THEOREM IndexStep == IndexInv /\ [Next]_vars => IndexInv'
<1> SUFFICES ASSUME IndexInv, [Next]_vars PROVE IndexInv'
  OBVIOUS
<1>1. CASE UNCHANGED vars
  <2>1. UNCHANGED <<registered, chain, tree, roots, commitments, checkpoint, poller>>
    BY <1>1 DEF vars, onChain, db
  <2> QED
    BY <2>1 DEF IndexInv, TypeOK, ChainTypeOK, DbTypeOK, PollerTypeOK, ScanInv, MirrorInv,
                KnownInv, RootsInv, On
<1>2. CASE Next
  <2>1. TypeOK' /\ MirrorInv'
    BY <1>2, StepCases, ChainTypes, AccountTypes, AppendKeepsMirror, ScanTypes, OthersKeepMirror
       DEF IndexInv, AccountSteps
  <2> QED
    BY <1>2, <2>1, KnownStep, RootsStep DEF IndexInv
<1> QED
  BY <1>1, <1>2

-----------------------------------------------------------------------------
(* Against a node that returns what it lists, the list is the tree's *)

\* Every leaf of a tree is of a transaction.
InChain(transactions, trees) ==
  \A d \in Denoms : \A i \in 1 .. Len(trees[d]) :
    \E c \in 1 .. Len(transactions) : \E k \in 1 .. Len(transactions[c]) :
      transactions[c][k].denom = d /\ transactions[c][k].leaf = trees[d][i]

\* Leaves are numbered in the order of the chain.
OrderInv ==
  /\ \A d \in Denoms : \A i, j \in 1 .. Len(tree[d]) : i < j => tree[d][i] < tree[d][j]
  /\ \A c1, c2 \in 1 .. Len(chain) :
       \A k1 \in 1 .. Len(chain[c1]) : \A k2 \in 1 .. Len(chain[c2]) :
         c1 < c2 \/ (c1 = c2 /\ k1 < k2) => chain[c1][k1].leaf < chain[c2][k2].leaf
  /\ InChain(chain, tree)

Filed(rows, ix) == \E row \in rows[ix.denom] : row[2] = ix.leaf

\* Everything before the instruction the scan is at is stored.
CoverInv ==
  /\ \A c \in 1 .. checkpoint : \A k \in 1 .. Len(chain[c]) : Filed(commitments, chain[c][k])
  /\ poller.pc = "append" =>
       \E j \in 0 .. Len(chain[checkpoint + 1]) :
         /\ Len(poller.ixs) + j = Len(chain[checkpoint + 1])
         /\ \A m \in 1 .. Len(poller.ixs) : poller.ixs[m] = chain[checkpoint + 1][j + m]
         /\ \A k \in 1 .. j : Filed(commitments, chain[checkpoint + 1][k])

RowsOfTree == \A d \in Denoms : commitments[d] \subseteq Mirror(tree[d])

\* The leaves that exist are the first numbers, so new ones are larger.
LEMMA LeavesBelow ==
  ASSUME TypeOK, NEW last \in Nat, Leaves = 1 .. last,
         NEW d \in Denoms, NEW i \in 1 .. Len(tree[d])
  PROVE  tree[d][i] \in 1 .. last
<1>1. i \in DOMAIN tree[d]
  BY LenProperties DEF TypeOK, ChainTypeOK
<1> QED
  BY <1>1 DEF Leaves

LEMMA OrderStutters ==
  ASSUME OrderInv, UNCHANGED <<chain, tree>>
  PROVE  OrderInv'
<1>1. chain' = chain /\ tree' = tree
  OBVIOUS
<1>2. \A d \in Denoms : \A i, j \in 1 .. Len(tree'[d]) : i < j => tree'[d][i] < tree'[d][j]
  BY <1>1 DEF OrderInv
<1>3. \A c1, c2 \in 1 .. Len(chain') :
        \A k1 \in 1 .. Len(chain'[c1]) : \A k2 \in 1 .. Len(chain'[c2]) :
          c1 < c2 \/ (c1 = c2 /\ k1 < k2) => chain'[c1][k1].leaf < chain'[c2][k2].leaf
  BY <1>1 DEF OrderInv
<1>4. InChain(chain', tree')
  BY <1>1 DEF OrderInv
<1> QED
  BY <1>2, <1>3, <1>4 DEF OrderInv

LEMMA OrderStep ==
  ASSUME TypeOK, KnownInv, OrderInv, Next
  PROVE  OrderInv'
<1>1. CASE UNCHANGED <<chain, tree>>
  BY <1>1, OrderStutters
<1>2. ASSUME NEW tx \in Txs, NEW last \in Nat, Leaves = 1 .. last,
             \A k \in 1 .. Len(tx) : tx[k].leaf = last + k, Land(tx)
      PROVE  OrderInv'
  <2>1. ASSUME NEW d \in Denoms, NEW i \in 1 .. Len(LeavesOf(tx, d))
        PROVE  /\ \E k \in 1 .. Len(tx) : tx[k].denom = d /\ tx[k].leaf = LeavesOf(tx, d)[i]
               /\ LeavesOf(tx, d)[i] > last /\ LeavesOf(tx, d)[i] \in Nat
    <3>1. PICK k \in 1 .. Len(tx) : tx[k].denom = d /\ tx[k].leaf = LeavesOf(tx, d)[i]
      BY LeavesOfTx
    <3>2. k >= 1 /\ k \in Nat
      BY LenProperties DEF Txs
    <3>3. LeavesOf(tx, d)[i] = last + k
      BY <1>2, <3>1
    <3> QED
      BY <3>1, <3>2, <3>3
  <2>2. ASSUME NEW d \in Denoms, NEW i \in 1 .. Len(tree'[d])
        PROVE  \/ i \in 1 .. Len(tree[d]) /\ tree'[d][i] = tree[d][i]
               \/ \E m \in 1 .. Len(LeavesOf(tx, d)) :
                    i = Len(tree[d]) + m /\ tree'[d][i] = LeavesOf(tx, d)[m]
    <3>1. /\ Len(tree'[d]) = Len(tree[d]) + Len(LeavesOf(tx, d))
          /\ Len(tree[d]) \in Nat /\ Len(LeavesOf(tx, d)) \in Nat
      BY <1>2, LandedTree
    <3>2. CASE i <= Len(tree[d])
      BY <1>2, <3>1, <3>2, LandedTree
    <3>3. CASE i > Len(tree[d])
      <4>1. PICK m \in 1 .. Len(LeavesOf(tx, d)) : i = Len(tree[d]) + m
        <5>1. i - Len(tree[d]) \in 1 .. Len(LeavesOf(tx, d))
          BY <3>1, <3>3
        <5>2. i = Len(tree[d]) + (i - Len(tree[d]))
          BY <3>1
        <5> QED
          BY <5>1, <5>2
      <4> QED
        BY <1>2, <4>1, LandedTree
    <3> QED
      BY <3>1, <3>2, <3>3
  <2>3. ASSUME NEW d \in Denoms, NEW i \in 1 .. Len(tree'[d]), NEW j \in 1 .. Len(tree'[d]), i < j
        PROVE  tree'[d][i] < tree'[d][j]
    <3>0. Len(tree[d]) \in Nat /\ Len(LeavesOf(tx, d)) \in Nat
      BY <1>2, LandedTree
    <3>1. CASE i \in 1 .. Len(tree[d]) /\ j \in 1 .. Len(tree[d])
      BY <1>2, <2>3, <3>1, LandedTree DEF OrderInv, InChain
    <3>2. ASSUME i \in 1 .. Len(tree[d]), NEW m \in 1 .. Len(LeavesOf(tx, d)),
                 tree'[d][i] = tree[d][i], tree'[d][j] = LeavesOf(tx, d)[m]
          PROVE  tree'[d][i] < tree'[d][j]
      <4>1. tree[d][i] \in 1 .. last
        BY <1>2, <3>2, LeavesBelow
      <4> QED
        BY <2>1, <3>2, <4>1
    <3>3. ASSUME NEW m \in 1 .. Len(LeavesOf(tx, d)), NEW n \in 1 .. Len(LeavesOf(tx, d)),
                 i = Len(tree[d]) + m, tree'[d][i] = LeavesOf(tx, d)[m],
                 j = Len(tree[d]) + n, tree'[d][j] = LeavesOf(tx, d)[n]
          PROVE  tree'[d][i] < tree'[d][j]
      <4>1. m < n
        BY <2>3, <3>0, <3>3
      <4> QED
        BY <1>2, <3>3, <4>1, LeavesOfTx
    <3>4. ASSUME NEW m \in 1 .. Len(LeavesOf(tx, d)), i = Len(tree[d]) + m,
                 j \in 1 .. Len(tree[d])
          PROVE  FALSE
      BY <2>3, <3>0, <3>4
    <3> QED
      BY <2>2, <3>1, <3>2, <3>3, <3>4
  <2>4. ASSUME NEW c1 \in 1 .. Len(chain'), NEW c2 \in 1 .. Len(chain'),
               NEW k1 \in 1 .. Len(chain'[c1]), NEW k2 \in 1 .. Len(chain'[c2]),
               c1 < c2 \/ (c1 = c2 /\ k1 < k2)
        PROVE  chain'[c1][k1].leaf < chain'[c2][k2].leaf
    <3>1. CASE c2 \in 1 .. Len(chain)
      <4>1. c1 \in 1 .. Len(chain)
        BY <1>2, <2>4, <3>1, LandedChain
      <4>2. chain'[c1] = chain[c1] /\ chain'[c2] = chain[c2]
        BY <1>2, <3>1, <4>1, LandedChain
      <4> QED
        BY <2>4, <3>1, <4>1, <4>2 DEF OrderInv, InChain
    <3>2. CASE c2 = Len(chain) + 1 /\ c1 \in 1 .. Len(chain)
      <4>1. chain'[c2] = tx /\ chain'[c1] = chain[c1]
        BY <1>2, <3>2, LandedChain
      <4>2. chain'[c2][k2].leaf = last + k2 /\ k2 >= 1 /\ k2 \in Nat
        BY <1>2, <4>1, LenProperties DEF Txs
      <4>3. PICK d \in Denoms : d = chain[c1][k1].denom
        BY <3>2, <4>1, ChainElements
      <4>4. PICK i \in 1 .. Len(tree[d]) : tree[d][i] = chain[c1][k1].leaf
        BY <3>2, <4>1, <4>3 DEF KnownInv, On
      <4>5. chain[c1][k1].leaf \in 1 .. last
        BY <1>2, <4>4, LeavesBelow
      <4> QED
        BY <4>1, <4>2, <4>5
    <3>3. CASE c2 = Len(chain) + 1 /\ c1 = Len(chain) + 1
      <4>1. chain'[c2] = tx /\ chain'[c1] = tx /\ k1 < k2
        BY <1>2, <2>4, <3>3, LandedChain
      <4>2. chain'[c1][k1].leaf = last + k1 /\ chain'[c2][k2].leaf = last + k2
        BY <1>2, <4>1
      <4>3. k1 \in Nat /\ k2 \in Nat
        BY <4>1, LenProperties DEF Txs
      <4> QED
        BY <4>1, <4>2, <4>3
    <3>4. c1 \in 1 .. Len(chain) \/ c1 = Len(chain) + 1
      BY <1>2, LandedChain
    <3>5. c2 \in 1 .. Len(chain) \/ c2 = Len(chain) + 1
      BY <1>2, LandedChain
    <3> QED
      BY <3>1, <3>2, <3>3, <3>4, <3>5
  <2>5. ASSUME NEW d \in Denoms, NEW i \in 1 .. Len(tree'[d])
        PROVE  \E c \in 1 .. Len(chain') : \E k \in 1 .. Len(chain'[c]) :
                 chain'[c][k].denom = d /\ chain'[c][k].leaf = tree'[d][i]
    <3>1. CASE i \in 1 .. Len(tree[d]) /\ tree'[d][i] = tree[d][i]
      <4>1. PICK c \in 1 .. Len(chain) : \E k \in 1 .. Len(chain[c]) :
              chain[c][k].denom = d /\ chain[c][k].leaf = tree[d][i]
        BY <3>1 DEF OrderInv, InChain
      <4>2. c \in 1 .. Len(chain') /\ chain'[c] = chain[c]
        BY <1>2, <4>1, LandedChain
      <4> QED
        BY <3>1, <4>1, <4>2
    <3>2. ASSUME NEW m \in 1 .. Len(LeavesOf(tx, d)), tree'[d][i] = LeavesOf(tx, d)[m]
          PROVE  \E c \in 1 .. Len(chain') : \E k \in 1 .. Len(chain'[c]) :
                   chain'[c][k].denom = d /\ chain'[c][k].leaf = tree'[d][i]
      <4>1. PICK k \in 1 .. Len(tx) : tx[k].denom = d /\ tx[k].leaf = LeavesOf(tx, d)[m]
        BY <2>1
      <4>2. Len(chain) + 1 \in 1 .. Len(chain') /\ chain'[Len(chain) + 1] = tx
        BY <1>2, LandedChain
      <4> QED
        BY <3>2, <4>1, <4>2
    <3> QED
      BY <2>2, <3>1, <3>2
  <2> QED
    BY <2>3, <2>4, <2>5 DEF OrderInv, InChain
<1>3. CASE ChainStep
  BY <1>1, <1>2, <1>3, ChainSteps DEF Register, TypeOK
<1> QED
  BY <1>1, <1>3, StepCases, ChainWaits

\* A stored leaf stays stored.
LEMMA FiledStays ==
  ASSUME TypeOK, MirrorInv, Next, NEW ix, ix.denom \in Denoms, Filed(commitments, ix)
  PROVE  Filed(commitments', ix)
BY StoredRows DEF Filed

\* The next leaf to be stored is the next one of its tree: the smaller leaves of
\* the tree come from instructions the scan has passed.
LEMMA NextOfTree ==
  ASSUME IndexInv, OrderInv, CoverInv, RowsOfTree, poller.pc = "append", poller.ixs # <<>>,
         NEW ix \in Ixs, ix = Head(poller.ixs), ~Filed(commitments, ix),
         NEW s \in Seq(Nat), commitments[ix.denom] = Mirror(s)
  PROVE  <<Len(s), ix.leaf>> \in Mirror(tree[ix.denom])
<1>1. PICK d \in Denoms : d = ix.denom
  BY DEF Ixs
<1>2. tree[d] \in Seq(Nat) /\ Len(tree[d]) \in Nat /\ Len(s) \in Nat
  BY LenProperties DEF IndexInv, TypeOK, ChainTypeOK
<1>3. IsPrefix(s, tree[d])
  BY <1>1, <1>2, MirrorPrefix DEF RowsOfTree
<1>4. Len(s) <= Len(tree[d]) /\ \A i \in 1 .. Len(s) : s[i] = tree[d][i]
  BY <1>2, <1>3, PrefixElements
<1>5. poller.ixs \in Seq(Ixs) /\ poller.ixs[1] = ix /\ 1 \in 1 .. Len(poller.ixs)
  BY DEF IndexInv, TypeOK, PollerTypeOK
<1>6. PICK c : c = checkpoint + 1
  OBVIOUS
<1>7. c \in 1 .. Len(chain) /\ \A b \in 1 .. Len(chain) : b < c => b \in 1 .. checkpoint
  BY <1>6, LenProperties DEF IndexInv, TypeOK, ScanInv, ChainTypeOK, PollerTypeOK
<1>8. PICK j \in 0 .. Len(chain[c]) :
        /\ Len(poller.ixs) + j = Len(chain[c])
        /\ poller.ixs[1] = chain[c][j + 1]
        /\ \A k \in 1 .. j : Filed(commitments, chain[c][k])
  BY <1>5, <1>6 DEF CoverInv
<1>9. Len(chain[c]) \in Nat
  BY <1>7, ElementOfSeq, LenProperties DEF IndexInv, TypeOK, ChainTypeOK, Txs
<1>10. j + 1 \in 1 .. Len(chain[c]) /\ chain[c][j + 1] = ix
  BY <1>5, <1>8, <1>9, LenProperties
<1>11. PICK i \in 1 .. Len(tree[d]) : tree[d][i] = ix.leaf
  BY <1>1, <1>5 DEF IndexInv, KnownInv, On
<1>12. CASE i <= Len(s)
  <2>1. s[i] = ix.leaf /\ <<i - 1, s[i]>> \in Mirror(s)
    BY <1>2, <1>4, <1>11, <1>12, MirrorRows
  <2>2. Filed(commitments, ix)
    BY <2>1 DEF Filed
  <2> QED
    BY <2>2
<1>13. CASE i > Len(s) + 1
  <2>1. Len(s) + 1 \in 1 .. Len(tree[d])
    BY <1>2, <1>11, <1>13
  <2>2. PICK leaf \in Nat : leaf = tree[d][Len(s) + 1]
    BY <1>2, <2>1, ElementOfSeq
  <2>3. leaf < ix.leaf
    BY <1>11, <1>13, <2>1, <2>2 DEF OrderInv, InChain
  <2>14. leaf \in Nat /\ ix.leaf \in Nat
    BY <2>2 DEF Ixs
  <2>15. ~(ix.leaf < leaf)
    BY <2>3, <2>14
  <2>12. PICK b \in 1 .. Len(chain) : \E k \in 1 .. Len(chain[b]) :
           chain[b][k].denom = d /\ chain[b][k].leaf = leaf
    BY SMTT(30), <2>1, <2>2 DEF OrderInv, InChain
  <2>4. PICK k \in 1 .. Len(chain[b]) : chain[b][k].denom = d /\ chain[b][k].leaf = leaf
    BY <2>12
  <2>5. b < c \/ (b = c /\ k < j + 1)
    <3>1. Len(chain[b]) \in Nat
      BY ElementOfSeq, LenProperties DEF IndexInv, TypeOK, ChainTypeOK, Txs
    <3>2. CASE c < b
      <4>1. ix.leaf < leaf
        BY SMTT(30), <1>7, <1>10, <2>4, <3>2 DEF OrderInv, InChain
      <4> QED
        BY <2>15, <4>1
    <3>3. CASE b = c /\ j + 1 < k
      <4>1. ix.leaf < leaf
        BY <1>7, <1>10, <2>4, <3>3 DEF OrderInv, InChain
      <4> QED
        BY <2>15, <4>1
    <3>4. CASE b = c /\ j + 1 = k
      BY <1>10, <2>3, <2>4, <2>14, <3>4
    <3>5. b \in Nat /\ c \in Nat /\ k \in Nat /\ j \in Nat
      BY <1>7, <1>8, <1>9, <2>4, <3>1, LenProperties DEF IndexInv, TypeOK, ChainTypeOK
    <3> QED
      BY <3>2, <3>3, <3>4, <3>5
  <2>6. Filed(commitments, chain[b][k])
    <3>1. CASE b < c
      BY <1>7, <2>4, <3>1 DEF CoverInv
    <3>2. CASE b = c /\ k < j + 1
      <4>1. k \in 1 .. j
        BY <1>8, <1>9, <2>4, <3>2
      <4> QED
        BY <1>8, <3>2, <4>1
    <3> QED
      BY <2>5, <3>1, <3>2
  <2>7. PICK row \in Mirror(s) : row[2] = leaf
    BY <1>1, <2>4, <2>6 DEF Filed
  <2>8. row[1] + 1 \in 1 .. Len(s) /\ s[row[1] + 1] = leaf
    <3>1. PICK n \in 0 .. Len(s) - 1 : n = row[1] /\ row[2] = s[n + 1]
      BY <2>7, MirrorRows
    <3>2. n + 1 \in 1 .. Len(s)
      BY <1>2
    <3> QED
      BY <2>7, <3>1, <3>2
  <2>9. PICK m \in 1 .. Len(s) : tree[d][m] = leaf
    BY <1>4, <2>8
  <2>10. m \in 1 .. Len(tree[d]) /\ m < Len(s) + 1
    <3>1. ASSUME NEW x \in Nat, NEW y \in Nat, x <= y, NEW z \in 1 .. x
          PROVE  z \in 1 .. y /\ z < x + 1
      BY <3>1
    <3>2. Len(s) <= Len(tree[d])
      BY <1>4
    <3> QED
      BY ZenonT(30), <1>2, <3>1, <3>2
  <2>11. tree[d][m] < tree[d][Len(s) + 1]
    BY <2>1, <2>10 DEF OrderInv, InChain
  <2> QED
    BY <2>2, <2>9, <2>11
<1>14. CASE i = Len(s) + 1
  <2>1. <<i - 1, tree[d][i]>> \in Mirror(tree[d])
    BY <1>2, <1>11, MirrorRows
  <2>2. i - 1 = Len(s)
    BY <1>2, <1>14
  <2> QED
    BY <1>1, <1>11, <2>1, <2>2
<1> QED
  BY <1>2, <1>11, <1>12, <1>13, <1>14

LEMMA RowsStep ==
  ASSUME IndexInv, IndexInv', OrderInv, CoverInv, RowsOfTree, Next
  PROVE  RowsOfTree'
<1>1. ASSUME NEW d \in Denoms
      PROVE  Mirror(tree[d]) \subseteq Mirror(tree'[d])
  <2>1. tree[d] \in Seq(Nat) /\ tree'[d] \in Seq(Nat)
    BY DEF IndexInv, TypeOK, ChainTypeOK
  <2>2. IsPrefix(tree[d], tree'[d])
    BY <2>1, TreeGrows, PrefixElements DEF IndexInv
  <2> QED
    BY <2>1, <2>2, MirrorPrefix
<1>2. CASE UNCHANGED commitments
  BY <1>1, <1>2 DEF RowsOfTree
<1>3. ASSUME poller.pc = "append", poller.ixs # <<>>, NEW ix \in Ixs, ix = Head(poller.ixs),
             NEW s \in Seq(Nat), AppendsTo(ix, s)
      PROVE  RowsOfTree'
  <2>1. ix.denom \in Denoms /\ ix.leaf \in Nat
    BY DEF Ixs
  <2>2. <<Len(s), ix.leaf>> \in Mirror(tree[ix.denom])
    BY <1>3, NextOfTree DEF AppendsTo, Filed, commitmentExists
  <2>3. commitments' = [commitments EXCEPT ![ix.denom] = commitments[ix.denom] \cup {<<Len(s), ix.leaf>>}]
    BY <1>3, <2>1, MirrorAppend DEF AppendsTo
  <2>4. commitments \in [Denoms -> SUBSET (Int \X Nat)]
    BY DEF IndexInv, TypeOK, DbTypeOK
  <2>5. ASSUME NEW d \in Denoms
        PROVE  commitments'[d] \subseteq Mirror(tree[d])
    <3>1. CASE d = ix.denom
      BY <2>2, <2>3, <2>4, <3>1 DEF RowsOfTree
    <3>2. CASE d # ix.denom
      BY <2>3, <2>4, <3>2 DEF RowsOfTree
    <3> QED
      BY <3>1, <3>2
  <2> QED
    BY <1>1, <2>5 DEF RowsOfTree
<1>4. CASE AppendLeaf
  BY <1>2, <1>3, <1>4, AppendCases DEF IndexInv
<1> QED
  BY <1>2, <1>4, StepCases, OthersKeepMirror DEF AccountSteps, IndexInv

LEMMA ChainStays ==
  ASSUME TypeOK, Next, NEW c \in 1 .. Len(chain)
  PROVE  chain'[c] = chain[c]
<1>1. CASE UNCHANGED chain
  BY <1>1
<1>2. CASE ChainStep
  BY <1>1, <1>2, ChainSteps, LandedChain DEF Register, TypeOK
<1> QED
  BY <1>1, <1>2, StepCases, ChainWaits

LEMMA CoverStep ==
  ASSUME RpcMayMiss = FALSE, IndexInv, CoverInv, Next
  PROVE  CoverInv'
<1>1. /\ checkpoint \in Nat /\ Len(chain) \in Nat /\ checkpoint <= Len(chain)
      /\ poller.pc = "append" => poller.cursor = checkpoint /\ checkpoint + 1 \in 1 .. Len(chain)
  BY LenProperties DEF IndexInv, TypeOK, ScanInv, ChainTypeOK, PollerTypeOK
<1>2. ASSUME NEW c \in 1 .. Len(chain), NEW k \in 1 .. Len(chain[c]),
             Filed(commitments, chain[c][k])
      PROVE  Filed(commitments', chain'[c][k])
  <2>1. PICK ix \in Ixs : ix = chain[c][k]
    BY ChainElements DEF IndexInv
  <2>2. Filed(commitments', ix)
    BY <1>2, <2>1, FiledStays DEF IndexInv, Ixs
  <2> QED
    BY <2>1, <2>2, ChainStays DEF IndexInv
<1>3. \A c \in 1 .. checkpoint : c \in 1 .. Len(chain)
  BY <1>1
<1>4. \A c \in 1 .. checkpoint : \A k \in 1 .. Len(chain'[c]) : Filed(commitments', chain'[c][k])
  BY <1>2, <1>3, ChainStays DEF IndexInv, CoverInv
<1>5. CASE UNCHANGED checkpoint /\ poller'.pc # "append"
  BY <1>4, <1>5 DEF CoverInv
<1>6. CASE UNCHANGED <<checkpoint, poller>> /\ poller.pc = "append"
  <2>1. PICK c \in 1 .. Len(chain) : c = checkpoint + 1
    BY <1>1, <1>6
  <2>2. PICK j \in 0 .. Len(chain[c]) :
          /\ Len(poller.ixs) + j = Len(chain[c])
          /\ \A m \in 1 .. Len(poller.ixs) : poller.ixs[m] = chain[c][j + m]
          /\ \A k \in 1 .. j : Filed(commitments, chain[c][k])
    BY <1>6, <2>1 DEF CoverInv
  <2>3. chain'[c] = chain[c] /\ Len(chain[c]) \in Nat
    BY ChainStays, ElementOfSeq, LenProperties DEF IndexInv, TypeOK, ChainTypeOK, Txs
  <2>4. \A k \in 1 .. j : Filed(commitments', chain'[c][k])
    <3>1. \A k \in 1 .. j : k \in 1 .. Len(chain[c])
      BY <2>3
    <3> QED
      BY <1>2, <2>2, <3>1
  <2> QED
    BY <1>4, <1>6, <2>1, <2>2, <2>3, <2>4 DEF CoverInv
<1>7. CASE ChainStep
  <2>1. UNCHANGED <<checkpoint, poller>>
    BY <1>7 DEF ChainStep, Register, Land, db
  <2> QED
    BY <1>5, <1>6, <2>1
<1>8. CASE AccountSteps \/ ReadPage \/ Abort
  <2>1. UNCHANGED checkpoint
    BY <1>8 DEF AccountSteps, ReadAccounts, StartListing, WriteDenomination, WriteRoot,
                WriteNullifier, ReadPage, Abort, db
  <2>2. poller'.pc # "append"
    <3>1. CASE AccountSteps
      <4>1. CASE ReadAccounts
        BY <4>1 DEF ReadAccounts, Asleep
      <4>2. CASE StartListing
        BY <4>2 DEF StartListing, Asleep
      <4>3. CASE \/ \E d \in poller.denoms : WriteDenomination(d)
                 \/ \E t \in poller.trees : WriteRoot(t)
                 \/ \E n \in poller.spent : WriteNullifier(n)
        BY <4>3 DEF WriteDenomination, WriteRoot, WriteNullifier, IndexInv, TypeOK, PollerTypeOK
      <4> QED
        BY <3>1, <4>1, <4>2, <4>3 DEF AccountSteps
    <3>2. CASE ReadPage
      <4>1. poller' = Asleep \/ \E upto, oldest :
              \/ poller' = [poller EXCEPT !.upto = upto, !.before = oldest]
              \/ poller' = [poller EXCEPT !.pc = "fetch", !.upto = upto, !.before = 0]
        BY <3>2 DEF ReadPage
      <4>2. poller.pc = "list"
        BY <3>2 DEF ReadPage
      <4> QED
        BY <4>1, <4>2, AsleepType DEF IndexInv, TypeOK, PollerTypeOK
    <3>3. CASE Abort
      BY <3>3, AsleepType DEF Abort
    <3> QED
      BY <1>8, <3>1, <3>2, <3>3
  <2> QED
    BY <1>5, <2>1, <2>2
<1>9. CASE FetchTx
  <2>1. UNCHANGED <<checkpoint, chain, commitments>> /\ poller.pc = "fetch"
    BY <1>9 DEF FetchTx, db, onChain
  <2>2. PICK c \in 1 .. Len(chain) : c = checkpoint + 1 /\ c = poller.cursor + 1
    BY <1>1, <2>1 DEF IndexInv, TypeOK, ScanInv, PollerTypeOK
  <2>3. poller'.ixs = chain[c]
    BY <1>9, <2>2 DEF FetchTx, IndexInv, TypeOK, PollerTypeOK
  <2>4. Len(chain[c]) \in Nat
    BY ElementOfSeq, LenProperties DEF IndexInv, TypeOK, ChainTypeOK, Txs
  <2>5. /\ 0 \in 0 .. Len(chain[c]) /\ Len(chain[c]) + 0 = Len(chain[c])
        /\ \A m \in 1 .. Len(chain[c]) : 0 + m = m
        /\ \A k \in 1 .. 0 : FALSE
    BY <2>4
  <2> QED
    BY <1>4, <2>1, <2>2, <2>3, <2>5 DEF CoverInv
<1>10. CASE AppendLeaf
  <2>1. UNCHANGED <<checkpoint, chain>> /\ poller.pc = "append" /\ poller.ixs # <<>>
    BY <1>10 DEF AppendLeaf, onChain
  <2>2. PICK ix \in Ixs : ix = Head(poller.ixs)
    BY <1>10, AppendCases DEF IndexInv
  <2>3. PICK c \in 1 .. Len(chain) : c = checkpoint + 1
    BY <1>1, <2>1
  <2>4. PICK j \in 0 .. Len(chain[c]) :
          /\ Len(poller.ixs) + j = Len(chain[c])
          /\ \A m \in 1 .. Len(poller.ixs) : poller.ixs[m] = chain[c][j + m]
          /\ \A k \in 1 .. j : Filed(commitments, chain[c][k])
    BY <2>1, <2>3 DEF CoverInv
  <2>5. poller.ixs \in Seq(Ixs) /\ Len(chain[c]) \in Nat /\ Len(poller.ixs) \in Nat
    BY ElementOfSeq, LenProperties DEF IndexInv, TypeOK, ChainTypeOK, PollerTypeOK, Txs
  <2>6. poller.ixs[1] = ix /\ Len(poller.ixs) >= 1
    BY <2>1, <2>2, <2>5, HeadTailProperties, EmptySeq
  <2>7. ASSUME poller'.ixs = Tail(poller.ixs), Filed(commitments', ix)
        PROVE  CoverInv'
    <3>1. /\ Len(poller'.ixs) = Len(poller.ixs) - 1
          /\ \A m \in 1 .. Len(poller'.ixs) : poller'.ixs[m] = poller.ixs[m + 1]
      BY <2>1, <2>5, <2>7, HeadTailProperties
    <3>2. PICK i : i = j + 1
      OBVIOUS
    <3>3. /\ i \in 0 .. Len(chain[c]) /\ Len(poller'.ixs) + i = Len(chain[c])
          /\ chain[c][i] = ix /\ \A k \in 1 .. i : k \in 1 .. j \/ k = i
      <4>1. PICK n \in Nat : n = Len(poller.ixs) /\ n >= 1 /\ Len(poller'.ixs) = n - 1
        BY <2>5, <2>6, <3>1
      <4>2. n + j = Len(chain[c]) /\ chain[c][j + 1] = ix
        BY <2>4, <2>6, <4>1
      <4>3. i \in 0 .. Len(chain[c]) /\ \A k \in 1 .. i : k \in 1 .. j \/ k = i
        BY <2>5, <3>2, <4>1, <4>2
      <4>4. Len(poller'.ixs) + i = Len(chain[c])
        <5>1. j \in Nat /\ i \in Nat
          BY <2>5, <3>2
        <5>2. (n - 1) + i = n + j
          BY <3>2, <5>1
        <5> QED
          BY <4>1, <4>2, <5>2
      <4>5. chain[c][i] = ix
        BY <3>2, <4>2
      <4> QED
        BY <4>3, <4>4, <4>5
    <3>4. \A m \in 1 .. Len(poller'.ixs) : poller'.ixs[m] = chain[c][i + m]
      <4>1. ASSUME NEW m \in 1 .. Len(poller'.ixs)
            PROVE  /\ m + 1 \in 1 .. Len(poller.ixs) /\ j + (m + 1) = i + m
        BY <2>4, <2>5, <3>1, <3>2
      <4> QED
        BY <2>4, <3>1, <4>1
    <3>5. ASSUME NEW k \in 1 .. i
          PROVE  Filed(commitments', chain'[c][k])
      <4>1. CASE k = i
        BY <2>1, <2>7, <3>3, <4>1
      <4>2. CASE k \in 1 .. j
        <5>1. k \in 1 .. Len(chain[c])
          BY <2>5, <4>2
        <5> QED
          BY <1>2, <2>4, <4>2, <5>1
      <4> QED
        BY <3>3, <4>1, <4>2
    <3> QED
      BY <1>4, <2>1, <2>3, <3>3, <3>4, <3>5 DEF CoverInv
  <2>8. CASE commitmentExists(ix.denom, ix.leaf) /\ poller' = [poller EXCEPT !.ixs = Tail(@)]
    <3>1. poller'.ixs = Tail(poller.ixs)
      BY <2>8 DEF IndexInv, TypeOK, PollerTypeOK
    <3>2. Filed(commitments', ix)
      BY <2>8, FiledStays DEF Filed, commitmentExists, IndexInv, Ixs
    <3> QED
      BY <2>7, <3>1, <3>2
  <2>9. ASSUME NEW s \in Seq(Nat), AppendsTo(ix, s)
        PROVE  CoverInv'
    <3>1. ix.denom \in Denoms /\ ix.leaf \in Nat
      BY DEF Ixs
    <3>2. <<Len(s), ix.leaf>> \in commitments'[ix.denom]
      BY <2>9, <3>1, MirrorAppend DEF AppendsTo, IndexInv, TypeOK, DbTypeOK
    <3>3. Filed(commitments', ix)
      BY <3>2 DEF Filed
    <3> QED
      BY <2>7, <2>9, <3>3, AppendsFields DEF IndexInv
  <2>10. CASE poller' = Asleep
    BY <1>5, <2>1, <2>10, AsleepType
  <2> QED
    BY <1>10, <2>2, <2>8, <2>9, <2>10, AppendCases DEF IndexInv
<1>11. CASE Checkpoint
  <2>1. /\ UNCHANGED <<chain, commitments>> /\ poller.pc = "append" /\ poller.ixs = <<>>
        /\ checkpoint' = poller.cursor + 1
        /\ poller' = Asleep \/ poller' = [poller EXCEPT !.pc = "fetch", !.cursor = poller.cursor + 1]
    BY <1>11 DEF Checkpoint, saveCheckpoint, onChain
  <2>2. poller'.pc # "append"
    BY <2>1, AsleepType DEF IndexInv, TypeOK, PollerTypeOK
  <2>3. PICK c \in 1 .. Len(chain) : c = checkpoint + 1
    BY <1>1, <2>1
  <2>4. PICK j \in 0 .. Len(chain[c]) :
          /\ Len(poller.ixs) + j = Len(chain[c])
          /\ \A k \in 1 .. j : Filed(commitments, chain[c][k])
    BY <2>1, <2>3 DEF CoverInv
  <2>5. j = Len(chain[c])
    BY <2>1, <2>4, ElementOfSeq, LenProperties DEF IndexInv, TypeOK, ChainTypeOK, Txs
  <2>6. \A b \in 1 .. checkpoint' : b \in 1 .. checkpoint \/ b = c
    BY <1>1, <2>1, <2>3
  <2> QED
    BY <1>4, <2>1, <2>2, <2>4, <2>5, <2>6 DEF CoverInv
<1> QED
  BY <1>7, <1>8, <1>9, <1>10, <1>11, StepCases

\* What the scan keeps when the node returns what it lists: the stored leaves are
\* the tree's, and all those the checkpoint has passed are among them.
CopyInv == IndexInv /\ OrderInv /\ CoverInv /\ RowsOfTree

LEMMA CopyInvariant ==
  ASSUME RpcMayMiss = FALSE
  PROVE  Spec => []CopyInv
<1>1. Init => CopyInv
  <2> SUFFICES ASSUME Init PROVE OrderInv /\ CoverInv /\ RowsOfTree
    BY InitIndex DEF CopyInv
  <2>1. OrderInv
    BY DEF Init, OrderInv, InChain
  <2>2. CoverInv
    BY DEF Init, CoverInv, Asleep
  <2>3. RowsOfTree
    BY DEF Init, RowsOfTree
  <2> QED
    BY <2>1, <2>2, <2>3
<1>2. CopyInv /\ [Next]_vars => CopyInv'
  <2> SUFFICES ASSUME CopyInv, [Next]_vars PROVE CopyInv'
    OBVIOUS
  <2>1. IndexInv'
    BY IndexStep DEF CopyInv
  <2>2. CASE UNCHANGED vars
    <3>1. UNCHANGED <<chain, tree, commitments, checkpoint, poller>>
      BY <2>2 DEF vars, onChain, db
    <3>2. OrderInv'
      BY <3>1, OrderStutters DEF CopyInv
    <3>3. CoverInv'
      BY <3>1 DEF CopyInv, CoverInv
    <3>4. RowsOfTree'
      BY <3>1 DEF CopyInv, RowsOfTree
    <3> QED
      BY <2>1, <3>2, <3>3, <3>4 DEF CopyInv
  <2>3. CASE Next
    <3>1. OrderInv'
      BY <2>3, OrderStep DEF CopyInv, IndexInv
    <3>2. CoverInv'
      BY <2>3, CoverStep DEF CopyInv
    <3>3. RowsOfTree'
      BY <2>1, <2>3, RowsStep DEF CopyInv
    <3> QED
      BY <2>1, <3>1, <3>2, <3>3 DEF CopyInv
  <2> QED
    BY <2>2, <2>3
<1> QED
  BY <1>1, <1>2, PTL DEF Spec

\* The stored leaves of a denomination are at every moment the first leaves of
\* its tree, against a node that returns the transactions it lists
\* (IndexMirrorsTree; index.ts syncCommitments, db.ts commitmentExists).
THEOREM StoredIsTree ==
  ASSUME RpcMayMiss = FALSE
  PROVE  Spec => []IndexMirrorsTree
<1>1. CopyInv => IndexMirrorsTree
  <2> SUFFICES ASSUME CopyInv, NEW d \in Denoms
               PROVE  \E n \in 0 .. Len(tree[d]) : commitments[d] = Mirror(SubSeq(tree[d], 1, n))
    BY DEF IndexMirrorsTree
  <2>1. PICK s \in Seq(Nat) : commitments[d] = Mirror(s)
    BY DEF CopyInv, IndexInv, MirrorInv
  <2>2. tree[d] \in Seq(Nat)
    BY DEF CopyInv, IndexInv, TypeOK, ChainTypeOK
  <2>3. IsPrefix(s, tree[d])
    BY <2>1, <2>2, MirrorPrefix DEF CopyInv, RowsOfTree
  <2>4. Len(s) \in 0 .. Len(tree[d]) /\ s = SubSeq(tree[d], 1, Len(s))
    BY <2>2, <2>3, SubSeqFull, LenProperties DEF IsPrefix
  <2> QED
    BY <2>1, <2>4
<1> QED
  BY <1>1, CopyInvariant, PTL

\* A leaf is indexed once the checkpoint has passed its transaction.
Indexed(d, leaf) ==
  \E c \in 1 .. checkpoint : \E k \in 1 .. Len(chain[c]) :
    chain[c][k].denom = d /\ chain[c][k].leaf = leaf

IndexedIsStored ==
  \A d \in Denoms, leaf \in Nat :
    Indexed(d, leaf) =>
      \E i \in 1 .. Len(tree[d]) : tree[d][i] = leaf /\ <<i - 1, leaf>> \in commitments[d]

LEMMA CopyHoldsIndexed == CopyInv => IndexedIsStored
<1> SUFFICES ASSUME CopyInv, NEW d \in Denoms, NEW leaf \in Nat, Indexed(d, leaf)
             PROVE  \E i \in 1 .. Len(tree[d]) :
                      tree[d][i] = leaf /\ <<i - 1, leaf>> \in commitments[d]
  BY DEF IndexedIsStored
<1>1. PICK c \in 1 .. checkpoint : \E k \in 1 .. Len(chain[c]) :
        chain[c][k].denom = d /\ chain[c][k].leaf = leaf
  BY DEF Indexed
<1>2. PICK k \in 1 .. Len(chain[c]) : chain[c][k].denom = d /\ chain[c][k].leaf = leaf
  BY <1>1
<1>3. Filed(commitments, chain[c][k])
  BY DEF CopyInv, CoverInv
<1>4. PICK row \in commitments[d] : row[2] = leaf
  BY <1>2, <1>3 DEF Filed
<1>5. row \in Mirror(tree[d]) /\ tree[d] \in Seq(Nat) /\ Len(tree[d]) \in Nat
  BY LenProperties DEF CopyInv, RowsOfTree, IndexInv, TypeOK, ChainTypeOK
<1>6. PICK n \in 0 .. Len(tree[d]) - 1 :
        n = row[1] /\ row = <<n, leaf>> /\ leaf = tree[d][n + 1]
  BY <1>4, <1>5, MirrorRows
<1>7. n + 1 \in 1 .. Len(tree[d]) /\ (n + 1) - 1 = n
  BY <1>5
<1> QED
  BY <1>4, <1>6, <1>7

\* The checkpoint never runs ahead of the leaves: whatever ticks are cut short,
\* started again or break a foreign key, every leaf of a transaction it has passed
\* is stored, and under the index it has in its tree.  So no leaf is left behind
\* by resuming after the checkpoint (index.ts syncCommitments: saveCheckpoint
\* comes after the leaves of a signature).
THEOREM NothingSkipped ==
  ASSUME RpcMayMiss = FALSE
  PROVE  Spec => []IndexedIsStored
BY CopyInvariant, CopyHoldsIndexed, PTL

-----------------------------------------------------------------------------
(* A tick ends *)

\* What a tick has left to do, most significant first: the phase it is in, the
\* rows, signatures or transactions of that phase, the instructions at hand.  A
\* transaction counts twice, for its fetch and for its leaves.
TickWork(p) ==
  IF p.pc = "accounts"
    THEN <<4, Cardinality(p.denoms) + Cardinality(p.trees) + Cardinality(p.spent), 0>>
  ELSE IF p.pc = "list" THEN IF p.before = 0 THEN <<3, 0, 0>> ELSE <<2, p.before, 0>>
  ELSE IF p.pc = "fetch" THEN <<1, 2 * (p.upto - p.cursor), 0>>
  ELSE IF p.pc = "append" THEN <<1, 2 * (p.upto - p.cursor) - 1, Len(p.ixs)>>
  ELSE <<0, 0, 0>>

\* What the node answers with, and what is left of it, is finite.
AnswersFinite ==
  /\ IsFiniteSet(registered) /\ \A d \in Denoms : IsFiniteSet(spent[d])
  /\ IsFiniteSet(poller.denoms) /\ IsFiniteSet(poller.trees) /\ IsFiniteSet(poller.spent)
  /\ poller.before \in Nat

LEMMA AccountsFinite ==
  ASSUME TypeOK, AnswersFinite
  PROVE  /\ IsFiniteSet(getAllProgramAccounts.denoms)
         /\ IsFiniteSet(getAllProgramAccounts.trees)
         /\ IsFiniteSet(getAllProgramAccounts.spent)
<1>0. IsFiniteSet(registered) /\ registered \subseteq Denoms
  BY DEF AnswersFinite, TypeOK, ChainTypeOK
<1> DEFINE trees == {tree[d] : d \in registered}
           spents == {spent[d] : d \in registered}
<1>1. IsFiniteSet(trees) /\ IsFiniteSet(spents)
  BY <1>0, FiniteImage
<1>2. IsFiniteSet(UNION spents)
  <2>1. \A T \in spents : IsFiniteSet(T)
    BY <1>0 DEF AnswersFinite
  <2> HIDE DEF spents
  <2> QED
    BY <1>1, <2>1, FS_UNION
<1>3. IsFiniteSet(registered \X trees) /\ IsFiniteSet(registered \X UNION spents)
  <2> HIDE DEF trees, spents
  <2> QED
    BY <1>0, <1>1, <1>2, FS_Product
<1>4. /\ getAllProgramAccounts.trees \subseteq registered \X trees
      /\ getAllProgramAccounts.spent \subseteq registered \X UNION spents
  BY DEF getAllProgramAccounts
<1>5. getAllProgramAccounts.denoms = registered
  BY DEF getAllProgramAccounts
<1> HIDE DEF trees, spents
<1> QED
  BY <1>0, <1>3, <1>4, <1>5, FS_Subset

\* A full page is of signatures below the one asked from, so the next is asked
\* from further back.
LEMMA PagesDescend ==
  ASSUME NEW before \in Nat, NEW until \in Nat, Len(chain) \in Nat,
         NEW page, page = SignaturesBelow(before, until), Cardinality(page) = PageLimit,
         NEW oldest, oldest = CHOOSE n \in page : \A m \in page : n <= m
  PROVE  oldest \in Nat /\ oldest # 0 /\ (before # 0 => oldest < before)
<1>1. page \subseteq until + 1 .. Len(chain) /\ \A n \in page : before > 0 => n < before
  BY DEF SignaturesBelow
<1>2. page \in SUBSET Nat
  BY <1>1
<1>3. page # {}
  BY FS_EmptySet, IndexerConstants
<1>4. oldest \in page
  <2>1. \E n \in page : \A m \in page : n <= m
    BY <1>2, <1>3, LeastNat
  <2> QED
    BY <2>1
<1>5. oldest \in until + 1 .. Len(chain) /\ (before > 0 => oldest < before)
  BY <1>1, <1>4
<1>6. oldest \in Nat /\ oldest # 0
  <2>1. \A n \in until + 1 .. Len(chain) : n \in Nat /\ n # 0
    OBVIOUS
  <2> QED
    BY <1>5, <2>1, Zenon
<1>7. before # 0 => before > 0
  OBVIOUS
<1> QED
  BY <1>5, <1>6, <1>7

LEMMA FiniteStep ==
  ASSUME TypeOK, AnswersFinite, [Next]_vars
  PROVE  AnswersFinite'
<1>1. CASE \E d \in Denoms : Register(d)
  <2>1. PICK d \in Denoms : Register(d)
    BY <1>1
  <2>2. registered' = registered \cup {d} /\ UNCHANGED <<spent, poller>>
    BY <2>1 DEF Register
  <2>3. IsFiniteSet(registered')
    BY <2>2, FS_AddElement DEF AnswersFinite
  <2> QED
    BY <2>2, <2>3 DEF AnswersFinite
<1>2. ASSUME NEW tx \in Txs, Land(tx)
      PROVE  AnswersFinite'
  <2>1. /\ UNCHANGED <<registered, poller>>
        /\ spent' = [d \in Denoms |->
                       spent[d] \cup {<<Len(chain'), i>> : i \in Withdraws(tx, d)}]
    BY <1>2 DEF Land
  <2>2. ASSUME NEW d \in Denoms
        PROVE  IsFiniteSet({<<Len(chain'), i>> : i \in Withdraws(tx, d)})
    <3>1. Withdraws(tx, d) \subseteq 1 .. Len(tx) /\ Len(tx) \in Nat
      BY LenProperties DEF Withdraws, Txs
    <3>2. IsFiniteSet(1 .. Len(tx))
      BY <3>1, FS_Interval
    <3>3. IsFiniteSet(Withdraws(tx, d))
      BY <3>1, <3>2, FS_Subset
    <3> QED
      BY <3>3, FinitePairs
  <2>3. ASSUME NEW d \in Denoms PROVE IsFiniteSet(spent'[d])
    BY <2>1, <2>2, FS_Union DEF AnswersFinite
  <2> QED
    BY <2>1, <2>3 DEF AnswersFinite
<1>3. CASE ReadAccounts
  <2>1. UNCHANGED <<registered, spent>>
    BY <1>3 DEF ReadAccounts, onChain
  <2>2. poller' = [Asleep EXCEPT !.pc = "accounts", !.denoms = getAllProgramAccounts.denoms,
                     !.trees = getAllProgramAccounts.trees, !.spent = getAllProgramAccounts.spent]
    BY <1>3 DEF ReadAccounts
  <2>3. /\ poller'.denoms = getAllProgramAccounts.denoms
        /\ poller'.trees = getAllProgramAccounts.trees
        /\ poller'.spent = getAllProgramAccounts.spent
        /\ poller'.before = 0
    BY <2>2 DEF Asleep
  <2> QED
    BY <2>1, <2>3, AccountsFinite DEF AnswersFinite
<1>4. ASSUME UNCHANGED <<registered, spent>>, poller'.before \in Nat,
             poller'.denoms \subseteq poller.denoms,
             poller'.trees \subseteq poller.trees, poller'.spent \subseteq poller.spent
      PROVE  AnswersFinite'
  BY <1>4, FS_Subset DEF AnswersFinite
<1> DEFINE Quiet(p) == /\ p.before = poller.before \/ p.before = 0
                       /\ p.denoms \subseteq poller.denoms
                       /\ p.trees \subseteq poller.trees /\ p.spent \subseteq poller.spent
<1>5. Quiet(Asleep)
  BY DEF Asleep
<1>6. CASE ReadPage
  <2> DEFINE page == SignaturesBelow(poller.before, poller.cursor)
             upto == IF poller.before = 0 THEN Len(chain) ELSE poller.upto
             oldest == CHOOSE n \in page : \A m \in page : n <= m
  <2>1. UNCHANGED <<registered, spent>>
    BY <1>6 DEF ReadPage, onChain
  <2>2. poller' = IF Cardinality(page) = PageLimit
                  THEN [poller EXCEPT !.upto = upto, !.before = oldest]
                  ELSE IF upto = poller.cursor THEN Asleep
                  ELSE [poller EXCEPT !.pc = "fetch", !.upto = upto, !.before = 0]
    BY <1>6 DEF ReadPage
  <2>3. poller.before \in Nat /\ poller.cursor \in Nat /\ Len(chain) \in Nat
    BY LenProperties DEF AnswersFinite, TypeOK, PollerTypeOK, ChainTypeOK
  <2>4. Cardinality(page) = PageLimit => oldest \in Nat
    BY <2>3, PagesDescend
  <2> HIDE DEF page, upto, oldest
  <2>5. CASE poller' = Asleep
    BY <1>4, <1>5, <2>1, <2>3, <2>5
  <2>6. CASE Cardinality(page) = PageLimit
             /\ poller' = [poller EXCEPT !.upto = upto, !.before = oldest]
    <3>1. poller'.before = oldest /\ poller'.denoms = poller.denoms
          /\ poller'.trees = poller.trees /\ poller'.spent = poller.spent
      BY <2>6 DEF TypeOK, PollerTypeOK
    <3> QED
      BY <1>4, <2>1, <2>4, <2>6, <3>1
  <2>7. CASE poller' = [poller EXCEPT !.pc = "fetch", !.upto = upto, !.before = 0]
    <3>1. poller'.before = 0 /\ poller'.denoms = poller.denoms
          /\ poller'.trees = poller.trees /\ poller'.spent = poller.spent
      BY <2>7 DEF TypeOK, PollerTypeOK
    <3> QED
      BY <1>4, <2>1, <3>1
  <2> QED
    BY <2>2, <2>5, <2>6, <2>7
<1>7. ASSUME \/ \E d \in poller.denoms : WriteDenomination(d)
             \/ \E t \in poller.trees : WriteRoot(t)
             \/ \E n \in poller.spent : WriteNullifier(n)
             \/ StartListing \/ FetchTx \/ AppendLeaf \/ Checkpoint \/ Abort
      PROVE  UNCHANGED <<registered, spent>> /\ Quiet(poller')
  <2>1. UNCHANGED <<registered, spent>>
    <3>1. CASE \/ \E d \in poller.denoms : WriteDenomination(d)
               \/ \E t \in poller.trees : WriteRoot(t)
               \/ \E n \in poller.spent : WriteNullifier(n)
      BY <3>1 DEF WriteDenomination, WriteRoot, WriteNullifier, onChain
    <3>2. CASE StartListing \/ FetchTx \/ AppendLeaf
      BY <3>2 DEF StartListing, FetchTx, AppendLeaf, onChain
    <3>3. CASE Checkpoint \/ Abort
      BY <3>3 DEF Checkpoint, Abort, onChain
    <3> QED
      BY <1>7, <3>1, <3>2, <3>3
  <2>2. CASE \/ \E d \in poller.denoms : WriteDenomination(d)
             \/ \E t \in poller.trees : WriteRoot(t)
             \/ \E n \in poller.spent : WriteNullifier(n)
    <3>1. CASE \E d \in poller.denoms : WriteDenomination(d)
      BY <2>1, <3>1 DEF WriteDenomination, TypeOK, PollerTypeOK
    <3>2. CASE \E t \in poller.trees : WriteRoot(t)
      BY <2>1, <3>2 DEF WriteRoot, TypeOK, PollerTypeOK
    <3>3. CASE \E n \in poller.spent : WriteNullifier(n)
      BY <2>1, <3>3 DEF WriteNullifier, TypeOK, PollerTypeOK
    <3> QED
      BY <2>2, <3>1, <3>2, <3>3
  <2>3. CASE StartListing
    BY <2>1, <2>3 DEF StartListing, Asleep
  <2>4. CASE FetchTx
    BY <2>1, <2>4 DEF FetchTx, TypeOK, PollerTypeOK
  <2>5. CASE AppendLeaf
    <3>1. PICK next : poller' = Asleep \/ poller' = [poller EXCEPT !.ixs = Tail(@)]
                      \/ poller' = [poller EXCEPT !.ixs = Tail(@),
                                      !.nextLeaf[Head(poller.ixs).denom] = next]
      BY <2>5 DEF AppendLeaf
    <3> QED
      BY <1>5, <2>1, <3>1 DEF TypeOK, PollerTypeOK
  <2>6. CASE Checkpoint
    BY <1>5, <2>1, <2>6 DEF Checkpoint, TypeOK, PollerTypeOK
  <2>7. CASE Abort
    BY <1>5, <2>1, <2>7 DEF Abort
  <2> QED
    BY <1>7, <2>2, <2>3, <2>4, <2>5, <2>6, <2>7
<1>8. CASE \/ \E d \in poller.denoms : WriteDenomination(d)
           \/ \E t \in poller.trees : WriteRoot(t)
           \/ \E n \in poller.spent : WriteNullifier(n)
           \/ StartListing \/ FetchTx \/ AppendLeaf \/ Checkpoint \/ Abort
  BY <1>4, <1>7, <1>8 DEF AnswersFinite
<1>9. CASE UNCHANGED vars
  BY <1>9 DEF vars, onChain, AnswersFinite
<1>10. CASE ChainStep
  BY <1>1, <1>2, <1>10, ChainSteps DEF TypeOK
<1> QED
  BY <1>3, <1>6, <1>8, <1>9, <1>10, StepCases DEF AccountSteps

LEMMA WorkFits ==
  ASSUME TypeOK, AnswersFinite
  PROVE  TickWork(poller) \in Triples
<1>1. /\ Cardinality(poller.denoms) \in Nat /\ Cardinality(poller.trees) \in Nat
      /\ Cardinality(poller.spent) \in Nat /\ poller.before \in Nat
  BY FS_CardinalityType DEF AnswersFinite
<1>2. /\ poller.cursor \in Nat /\ poller.upto \in Nat /\ Len(poller.ixs) \in Nat
      /\ poller.pc \in {"fetch", "append"} => poller.cursor < poller.upto
  BY LenProperties DEF TypeOK, PollerTypeOK, ScanInv
<1>3. poller.pc \in {"fetch", "append"} =>
        /\ 2 * (poller.upto - poller.cursor) \in Nat
        /\ 2 * (poller.upto - poller.cursor) - 1 \in Nat
  BY <1>2
<1>4. Cardinality(poller.denoms) + Cardinality(poller.trees) + Cardinality(poller.spent) \in Nat
  BY <1>1
<1> QED
  BY <1>1, <1>2, <1>3, <1>4 DEF TickWork, Triples

\* Every step of a tick leaves less to do, whatever the chain does meanwhile.
LEMMA WorkStep ==
  ASSUME TypeOK, AnswersFinite, PollerStep \/ Abort, poller.pc # "idle"
  PROVE  Below(TickWork(poller'), TickWork(poller))
<1>0. /\ poller.cursor \in Nat /\ poller.upto \in Nat /\ Len(chain) \in Nat
      /\ poller.pc \in {"fetch", "append"} => poller.cursor < poller.upto
      /\ poller.before \in Nat /\ poller.ixs \in Seq(Ixs)
  BY LenProperties DEF TypeOK, PollerTypeOK, ScanInv, ChainTypeOK, AnswersFinite
<1>1. ASSUME poller' = Asleep PROVE Below(TickWork(poller'), TickWork(poller))
  <2>1. TickWork(Asleep) = <<0, 0, 0>>
    BY DEF TickWork, Asleep
  <2>2. TickWork(poller)[1] \in 1 .. 4
    <3>1. poller.pc \in {"accounts", "list", "fetch", "append"}
      BY DEF TypeOK, PollerTypeOK
    <3> QED
      BY <3>1 DEF TickWork
  <2>3. TickWork(poller')[1] = 0
    BY <1>1, <2>1
  <2> QED
    BY <2>2, <2>3 DEF Below
<1> DEFINE a == Cardinality(poller.denoms)
           b == Cardinality(poller.trees)
           c == Cardinality(poller.spent)
<1>2. a \in Nat /\ b \in Nat /\ c \in Nat
  BY FS_CardinalityType DEF AnswersFinite
<1>3. ASSUME NEW x, poller.pc = "accounts",
             \/ x \in poller.denoms /\ poller' = [poller EXCEPT !.denoms = @ \ {x}]
             \/ x \in poller.trees /\ poller' = [poller EXCEPT !.trees = @ \ {x}]
             \/ x \in poller.spent /\ poller' = [poller EXCEPT !.spent = @ \ {x}]
      PROVE  Below(TickWork(poller'), TickWork(poller))
  <2> DEFINE m == Cardinality(poller'.denoms) + Cardinality(poller'.trees)
                    + Cardinality(poller'.spent)
  <2>1. TickWork(poller) = <<4, a + b + c, 0>>
    BY <1>3 DEF TickWork
  <2>2. poller'.pc = "accounts"
    BY <1>3 DEF TypeOK, PollerTypeOK
  <2>3. TickWork(poller') = <<4, m, 0>>
    BY <2>2 DEF TickWork
  <2>4. m = a + b + c - 1
    <3>1. CASE x \in poller.denoms /\ poller' = [poller EXCEPT !.denoms = @ \ {x}]
      <4>1. poller'.denoms = poller.denoms \ {x} /\ UNCHANGED <<poller.trees, poller.spent>>
        BY <3>1 DEF TypeOK, PollerTypeOK
      <4>2. Cardinality(poller.denoms \ {x}) = a - 1
        BY <3>1, FS_RemoveElement DEF AnswersFinite
      <4> QED
        BY <1>2, <4>1, <4>2
    <3>2. CASE x \in poller.trees /\ poller' = [poller EXCEPT !.trees = @ \ {x}]
      <4>1. poller'.trees = poller.trees \ {x} /\ UNCHANGED <<poller.denoms, poller.spent>>
        BY <3>2 DEF TypeOK, PollerTypeOK
      <4>2. Cardinality(poller.trees \ {x}) = b - 1
        BY <3>2, FS_RemoveElement DEF AnswersFinite
      <4> QED
        BY <1>2, <4>1, <4>2
    <3>3. CASE x \in poller.spent /\ poller' = [poller EXCEPT !.spent = @ \ {x}]
      <4>1. poller'.spent = poller.spent \ {x} /\ UNCHANGED <<poller.denoms, poller.trees>>
        BY <3>3 DEF TypeOK, PollerTypeOK
      <4>2. Cardinality(poller.spent \ {x}) = c - 1
        BY <3>3, FS_RemoveElement DEF AnswersFinite
      <4> QED
        BY <1>2, <4>1, <4>2
    <3> QED
      BY <1>3, <3>1, <3>2, <3>3
  <2> HIDE DEF m, a, b, c
  <2>5. m < a + b + c
    BY <1>2, <2>4
  <2> QED
    BY <2>1, <2>3, <2>5 DEF Below
<1>4. CASE \E d \in poller.denoms : WriteDenomination(d)
  BY <1>3, <1>4 DEF WriteDenomination
<1>5. CASE \E t \in poller.trees : WriteRoot(t)
  BY <1>3, <1>5 DEF WriteRoot
<1>6. CASE \E n \in poller.spent : WriteNullifier(n)
  BY <1>3, <1>6 DEF WriteNullifier
<1>7. CASE StartListing
  <2>1. poller.pc = "accounts" /\ poller'.pc = "list" /\ poller'.before = 0
    BY <1>7 DEF StartListing, Asleep
  <2> QED
    BY <2>1 DEF TickWork, Below
<1>8. CASE ReadPage
  <2> DEFINE page == SignaturesBelow(poller.before, poller.cursor)
             upto == IF poller.before = 0 THEN Len(chain) ELSE poller.upto
             oldest == CHOOSE n \in page : \A m \in page : n <= m
  <2>1. poller.pc = "list"
    BY <1>8 DEF ReadPage
  <2>2. poller' = IF Cardinality(page) = PageLimit
                  THEN [poller EXCEPT !.upto = upto, !.before = oldest]
                  ELSE IF upto = poller.cursor THEN Asleep
                  ELSE [poller EXCEPT !.pc = "fetch", !.upto = upto, !.before = 0]
    BY <1>8 DEF ReadPage
  <2>3. Cardinality(page) = PageLimit =>
          /\ oldest \in Nat /\ oldest # 0
          /\ poller.before # 0 => oldest < poller.before
    BY <1>0, PagesDescend
  <2> HIDE DEF page, upto, oldest
  <2>4. CASE Cardinality(page) = PageLimit
             /\ poller' = [poller EXCEPT !.upto = upto, !.before = oldest]
    <3>1. poller'.pc = "list" /\ poller'.before = oldest
      BY <2>1, <2>4 DEF TypeOK, PollerTypeOK
    <3>2. TickWork(poller') = <<2, oldest, 0>>
      BY <2>3, <2>4, <3>1 DEF TickWork
    <3>3. TickWork(poller) = IF poller.before = 0 THEN <<3, 0, 0>> ELSE <<2, poller.before, 0>>
      BY <2>1 DEF TickWork
    <3> QED
      BY <2>3, <2>4, <3>2, <3>3 DEF Below
  <2>5. CASE poller' = [poller EXCEPT !.pc = "fetch", !.upto = upto, !.before = 0]
    <3>1. poller'.pc = "fetch"
      BY <2>5 DEF TypeOK, PollerTypeOK
    <3> QED
      BY <2>1, <3>1 DEF TickWork, Below
  <2> QED
    BY <1>1, <2>2, <2>4, <2>5
<1>9. CASE FetchTx
  <2>1. PICK ixs : poller.pc = "fetch" /\ poller' = [poller EXCEPT !.pc = "append", !.ixs = ixs]
    BY <1>9 DEF FetchTx
  <2>2. /\ poller'.pc = "append" /\ poller'.upto = poller.upto
        /\ poller'.cursor = poller.cursor
    BY <2>1 DEF TypeOK, PollerTypeOK
  <2>3. /\ TickWork(poller)[1] = 1 /\ TickWork(poller')[1] = 1
        /\ TickWork(poller)[2] = 2 * (poller.upto - poller.cursor)
        /\ TickWork(poller')[2] = 2 * (poller.upto - poller.cursor) - 1
    BY <2>1, <2>2 DEF TickWork
  <2> QED
    BY <1>0, <2>3 DEF Below
<1>10. CASE AppendLeaf
  <2>1. PICK next : \/ poller' = Asleep \/ poller' = [poller EXCEPT !.ixs = Tail(@)]
                    \/ poller' = [poller EXCEPT !.ixs = Tail(@),
                                    !.nextLeaf[Head(poller.ixs).denom] = next]
    BY <1>10 DEF AppendLeaf
  <2>2. poller.pc = "append" /\ poller.ixs # <<>>
    BY <1>10 DEF AppendLeaf
  <2>3. CASE poller' # Asleep
    <3>1. /\ poller'.pc = "append" /\ poller'.ixs = Tail(poller.ixs)
          /\ poller'.upto = poller.upto /\ poller'.cursor = poller.cursor
      BY <2>1, <2>2, <2>3 DEF TypeOK, PollerTypeOK
    <3>2. Len(Tail(poller.ixs)) < Len(poller.ixs)
      BY <1>0, <2>2
    <3>3. /\ TickWork(poller)[1] = TickWork(poller')[1]
          /\ TickWork(poller)[2] = TickWork(poller')[2]
          /\ TickWork(poller)[3] = Len(poller.ixs)
          /\ TickWork(poller')[3] = Len(Tail(poller.ixs))
      BY <2>2, <3>1 DEF TickWork
    <3> QED
      BY <3>2, <3>3 DEF Below
  <2> QED
    BY <1>1, <2>3
<1>11. CASE Checkpoint
  <2>1. /\ poller.pc = "append"
        /\ poller' = IF poller.cursor + 1 = poller.upto THEN Asleep
                     ELSE [poller EXCEPT !.pc = "fetch", !.cursor = @ + 1]
    BY <1>11 DEF Checkpoint
  <2>2. CASE poller' = [poller EXCEPT !.pc = "fetch", !.cursor = @ + 1]
    <3>1. /\ poller'.pc = "fetch" /\ poller'.upto = poller.upto
          /\ poller'.cursor = poller.cursor + 1
      BY <2>2 DEF TypeOK, PollerTypeOK
    <3>2. /\ TickWork(poller)[1] = 1 /\ TickWork(poller')[1] = 1
          /\ TickWork(poller)[2] = 2 * (poller.upto - poller.cursor) - 1
          /\ TickWork(poller')[2] = 2 * (poller.upto - (poller.cursor + 1))
      BY <2>1, <3>1 DEF TickWork
    <3> QED
      BY <1>0, <3>2 DEF Below
  <2> QED
    BY <1>1, <2>1, <2>2
<1>12. CASE Abort
  BY <1>1, <1>12 DEF Abort
<1>13. ~ReadAccounts
  BY DEF ReadAccounts
<1> QED
  BY <1>4, <1>5, <1>6, <1>7, <1>8, <1>9, <1>10, <1>11, <1>12, <1>13 DEF PollerStep

\* Every tick of the poller ends, however fast the chain grows, however many
\* pages there are to list and whatever the node misses: each of its steps, a
\* crash included, leaves less to do in the order LexTriples, in which nothing can
\* go down for ever (LexWellFounded).  This is what IndexCatchesUp needs besides
\* fairness (index.ts main, syncCommitments; rpc.ts getNewSignatures).
THEOREM TicksShrink ==
  Spec => [][poller.pc # "idle" =>
               poller' = poller \/ <<TickWork(poller'), TickWork(poller)>> \in LexTriples]_vars
<1> DEFINE Inv == IndexInv /\ AnswersFinite
           Shrinks == poller.pc # "idle" =>
             poller' = poller \/ <<TickWork(poller'), TickWork(poller)>> \in LexTriples
<1>1. Init => Inv
  <2> SUFFICES ASSUME Init PROVE AnswersFinite
    BY InitIndex
  <2>1. registered = {} /\ (\A d \in Denoms : spent[d] = {}) /\ poller = Asleep
    BY DEF Init
  <2> QED
    BY <2>1, FS_EmptySet DEF AnswersFinite, Asleep
<1>2. Inv /\ [Next]_vars => Inv'
  BY IndexStep, FiniteStep DEF IndexInv
<1>3. Inv => TickWork(poller) \in Triples
  BY WorkFits DEF IndexInv
<1>4. Inv' => (TickWork(poller) \in Triples)'
  BY <1>3, PTL
<1>5. Inv /\ [Next]_vars => [Shrinks]_vars
  <2> SUFFICES ASSUME Inv, Next, poller.pc # "idle", poller' # poller
               PROVE  <<TickWork(poller'), TickWork(poller)>> \in LexTriples
    OBVIOUS
  <2>1. Inv'
    BY <1>2
  <2>2. TickWork(poller) \in Triples
    BY <1>3
  <2>3. TickWork(poller') \in Triples
    BY <1>4, <2>1
  <2>4. ~ChainStep
    BY DEF ChainStep, Register, Land
  <2>5. Below(TickWork(poller'), TickWork(poller))
    BY <2>4, WorkStep DEF Next, IndexInv
  <2> QED
    BY <2>2, <2>3, <2>5 DEF LexTriples
<1> QED
  BY <1>1, <1>2, <1>5, PTL DEF Spec

-----------------------------------------------------------------------------
(* The API: what a request has read stays true of the stored leaves *)

\* Indexes below `from` are filed.
Counted(rows, from) == from \in Nat /\ \A i \in 0 .. from - 1 : \E row \in rows : row[1] = i

\* An answer is of leaves that are stored, with the leaf asked for among them.
Proves(rows, leaf, index, leaves) ==
  /\ leaves \in Seq(Nat) /\ index \in 0 .. Len(leaves) - 1 /\ leaves[index + 1] = leaf
  /\ Mirror(leaves) \subseteq rows

Asked ==
  [pc : {"count", "target", "leaves", "root", "replied"}, denom : Denoms,
   leaf : 1 .. MaxLeaves, from : Nat, index : Int, leaves : Seq(Nat),
   status : {"none", "ok", "commitment_not_found", "ingest_gap", "root_mismatch"}]

QueryOK(q, rows, leaves) ==
  /\ q.pc \in {"target", "leaves", "root"} => Counted(rows, q.from)
  /\ q.pc = "leaves" => <<q.index, q.leaf>> \in rows
  /\ q.pc = "root" \/ (q.pc = "replied" /\ q.status = "ok") =>
       Proves(rows, q.leaf, q.index, q.leaves) /\ Len(q.leaves) >= q.from
  /\ q.status = "root_mismatch" => ~(rows \subseteq Mirror(leaves))
  /\ q.status # "ingest_gap"

GoodQuery(q, rows, trees) ==
  q = NoQuery \/ (q \in Asked /\ QueryOK(q, rows[q.denom], trees[q.denom]))

QueriesInv ==
  /\ query \in [Queries -> Asked \cup {NoQuery}]
  /\ \A r \in Queries : GoodQuery(query[r], commitments, tree)

CacheInv ==
  /\ proofCache \in [Denoms -> [1 .. MaxLeaves -> [index : Int, leaves : Seq(Nat)]]]
  /\ \A d \in Denoms : \A leaf \in 1 .. MaxLeaves :
       LET cached == proofCache[d][leaf] IN
       cached # NoProof => Proves(commitments[d], leaf, cached.index, cached.leaves)

ApiInv == IndexInv /\ OrderInv /\ QueriesInv /\ CacheInv

\* The stored leaves are damaged exactly when they are not rows of the tree.
LEMMA DamagedRows ==
  ASSUME IndexInv, NEW d \in Denoms
  PROVE  Damaged(d) <=> ~(commitments[d] \subseteq Mirror(tree[d]))
<1>1. PICK s \in Seq(Nat) : commitments[d] = Mirror(s)
  BY DEF IndexInv, MirrorInv
<1>2. tree[d] \in Seq(Nat) /\ Len(tree[d]) \in Nat
  BY LenProperties DEF IndexInv, TypeOK, ChainTypeOK
<1>3. ASSUME IsPrefix(s, tree[d])
      PROVE  \E n \in 0 .. Len(tree[d]) : commitments[d] = Mirror(SubSeq(tree[d], 1, n))
  <2>1. Len(s) \in 0 .. Len(tree[d]) /\ s = SubSeq(tree[d], 1, Len(s))
    BY <1>2, <1>3, SubSeqFull, LenProperties DEF IsPrefix
  <2> QED
    BY <1>1, <2>1
<1>4. ASSUME NEW n \in 0 .. Len(tree[d]), commitments[d] = Mirror(SubSeq(tree[d], 1, n))
      PROVE  commitments[d] \subseteq Mirror(tree[d])
  <2>1. PICK t : t = SubSeq(tree[d], 1, n)
    OBVIOUS
  <2>2. /\ t \in Seq(Nat) /\ Len(t) = n
        /\ \A i \in 1 .. n : t[i] = tree[d][i]
    <3>1. n \in Nat /\ \A i \in 1 .. n : i \in 1 .. Len(tree[d]) /\ tree[d][i] \in Nat
      BY <1>2, ElementOfSeq
    <3>2. /\ SubSeq(tree[d], 1, n) \in Seq(Nat)
          /\ Len(SubSeq(tree[d], 1, n)) = IF 1 <= n THEN n - 1 + 1 ELSE 0
          /\ \A i \in 1 .. n - 1 + 1 : SubSeq(tree[d], 1, n)[i] = tree[d][1 + i - 1]
      BY <3>1, SubSeqProperties
    <3> QED
      BY <2>1, <3>1, <3>2
  <2>3. IsPrefix(t, tree[d])
    <3>1. tree[d] \in Seq(Nat) /\ Len(t) <= Len(tree[d])
      BY <1>2, <2>2
    <3>2. \A i \in 1 .. Len(t) : t[i] = tree[d][i]
      BY <2>2
    <3> QED
      BY <2>2, <3>1, <3>2, PrefixElements
  <2> QED
    <3>1. Mirror(t) \subseteq Mirror(tree[d])
      BY <1>2, <2>2, <2>3, MirrorPrefix
    <3> QED
      BY <1>4, <2>1, <3>1
<1>5. commitments[d] \subseteq Mirror(tree[d]) <=> IsPrefix(s, tree[d])
  BY <1>1, <1>2, MirrorPrefix
<1> QED
  BY <1>3, <1>4, <1>5 DEF Damaged

\* Damage stays: the leaf that is out of place is on the tree already, so the
\* tree does not grow to have it there.
LEMMA DamageStays ==
  ASSUME IndexInv, IndexInv', OrderInv', Next, NEW d \in Denoms,
         ~(commitments[d] \subseteq Mirror(tree[d]))
  PROVE  ~(commitments'[d] \subseteq Mirror(tree'[d]))
<1>1. PICK row \in commitments[d] : row \notin Mirror(tree[d])
  OBVIOUS
<1>2. row \in commitments'[d]
  BY StoredRows DEF IndexInv
<1>3. PICK j \in 1 .. Len(tree[d]) : tree[d][j] = row[2]
  BY DEF IndexInv, KnownInv, On
<1>4. /\ tree[d] \in Seq(Nat) /\ tree'[d] \in Seq(Nat)
      /\ Len(tree[d]) \in Nat /\ Len(tree'[d]) \in Nat
  BY LenProperties DEF IndexInv, TypeOK, ChainTypeOK
<1>5. j \in 1 .. Len(tree'[d]) /\ tree'[d][j] = row[2]
  BY <1>3, <1>4, TreeGrows DEF IndexInv
<1>6. ASSUME row \in Mirror(tree'[d])
      PROVE  FALSE
  <2>1. PICK i \in 1 .. Len(tree'[d]) : row = <<i - 1, tree'[d][i]>>
    BY <1>4, <1>6 DEF Mirror
  <2>2. CASE i \in 1 .. Len(tree[d])
    <3>1. tree'[d][i] = tree[d][i] /\ <<i - 1, tree[d][i]>> \in Mirror(tree[d])
      BY <1>4, <2>2, TreeGrows, MirrorRows DEF IndexInv
    <3> QED
      BY <1>1, <2>1, <3>1
  <2>3. CASE j < i
    <3>1. tree'[d][j] < tree'[d][i]
      BY <1>5, <2>3 DEF OrderInv, InChain
    <3>2. tree'[d][i] = row[2] /\ tree'[d][i] \in Nat
      BY <1>4, <2>1, ElementOfSeq
    <3> QED
      BY <1>5, <3>1, <3>2
  <2>4. i \in 1 .. Len(tree[d]) \/ j < i
    BY <1>3, <1>4
  <2> QED
    BY <2>2, <2>3, <2>4
<1> QED
  BY <1>2, <1>6

\* A step of the chain or the poller takes nothing back that a request has read.
LEMMA QueriesStay ==
  ASSUME ApiInv, IndexInv', OrderInv', Next, UNCHANGED <<query, proofCache>>
  PROVE  QueriesInv' /\ CacheInv'
<1>1. \A d \in Denoms : commitments[d] \subseteq commitments'[d]
  BY StoredRows DEF ApiInv, IndexInv
<1>2. ASSUME NEW r \in Queries
      PROVE  GoodQuery(query[r], commitments', tree')
  <2>1. CASE query[r] = NoQuery
    BY <2>1 DEF GoodQuery
  <2>2. CASE query[r] # NoQuery
    <3>1. PICK q \in Asked : q = query[r] /\ QueryOK(q, commitments[q.denom], tree[q.denom])
      BY <2>2 DEF ApiInv, QueriesInv, GoodQuery
    <3>2. PICK d \in Denoms : d = q.denom
      BY DEF Asked
    <3>3. /\ commitments[d] \subseteq commitments'[d]
          /\ ~(commitments[d] \subseteq Mirror(tree[d])) => ~(commitments'[d] \subseteq Mirror(tree'[d]))
      BY <1>1, DamageStays DEF ApiInv
    <3>4. QueryOK(q, commitments'[d], tree'[d])
      BY <3>1, <3>2, <3>3 DEF QueryOK, Counted, Proves
    <3> QED
      BY <3>1, <3>2, <3>4 DEF GoodQuery
  <2> QED
    BY <2>1, <2>2
<1>3. QueriesInv'
  BY <1>2 DEF ApiInv, QueriesInv
<1>4. CacheInv'
  BY <1>1 DEF ApiInv, CacheInv, Proves
<1> QED
  BY <1>3, <1>4

\* The same, for the steps of the API, which leave the database alone.
LEMMA QueryBecomes ==
  ASSUME ApiInv, UNCHANGED vars, NEW r \in Queries, NEW q, Become(r, q),
         GoodQuery(q, commitments, tree)
  PROVE  QueriesInv'
<1>1. UNCHANGED <<commitments, tree>>
  BY DEF vars, onChain, db
<1>2. query' = [query EXCEPT ![r] = q]
  BY DEF Become
<1>3. q \in Asked \cup {NoQuery}
  BY DEF GoodQuery
<1>4. query' \in [Queries -> Asked \cup {NoQuery}]
  BY <1>2, <1>3 DEF ApiInv, QueriesInv
<1>5. ASSUME NEW p \in Queries
      PROVE  GoodQuery(query'[p], commitments', tree')
  BY <1>1, <1>2 DEF ApiInv, QueriesInv
<1> QED
  BY <1>4, <1>5 DEF QueriesInv

\* What a request that is under way knows.
LEMMA UnderWay ==
  ASSUME ApiInv, NEW r \in Queries, query[r].pc # "idle"
  PROVE  /\ query[r] \in Asked /\ query[r].denom \in Denoms
         /\ QueryOK(query[r], commitments[query[r].denom], tree[query[r].denom])
<1>1. query[r] # NoQuery
  BY DEF NoQuery
<1> QED
  BY <1>1 DEF ApiInv, QueriesInv, GoodQuery, Asked

\* The number of rows is the number of the indexes that are filed.
LEMMA StoredCount ==
  ASSUME IndexInv, NEW d \in Denoms, NEW s \in Seq(Nat), commitments[d] = Mirror(s)
  PROVE  Stored(d) = Len(s) /\ Counted(commitments[d], Len(s))
<1>1. Stored(d) = Len(s) /\ Len(s) \in Nat
  BY MirrorSize, LenProperties DEF Stored
<1>2. ASSUME NEW i \in 0 .. Len(s) - 1
      PROVE  \E row \in commitments[d] : row[1] = i
  <2>1. i + 1 \in 1 .. Len(s) /\ (i + 1) - 1 = i
    BY <1>1
  <2>2. <<(i + 1) - 1, s[i + 1]>> \in Mirror(s)
    BY <2>1, MirrorRows
  <2> QED
    BY <2>1, <2>2
<1> QED
  BY <1>1, <1>2 DEF Counted

LEMMA CountLeavesKeeps ==
  ASSUME ApiInv, NEW r \in Queries, CountLeaves(r)
  PROVE  QueriesInv'
<1>1. query[r].pc = "count"
  BY DEF CountLeaves
<1>2. PICK q0 \in Asked : q0 = query[r] /\ QueryOK(q0, commitments[q0.denom], tree[q0.denom])
  BY <1>1, UnderWay
<1>3. PICK d \in Denoms : d = q0.denom
  BY DEF Asked
<1>4. PICK s \in Seq(Nat) : commitments[d] = Mirror(s)
  BY DEF ApiInv, IndexInv, MirrorInv
<1>5. Stored(d) = Len(s) /\ Counted(commitments[d], Len(s)) /\ Len(s) \in Nat
  BY <1>4, StoredCount, LenProperties DEF ApiInv
<1>6. PICK q : q = [q0 EXCEPT !.from = Len(s)]
  OBVIOUS
<1>7. /\ q \in Asked /\ q.from = Len(s) /\ q.denom = d /\ q.leaf = q0.leaf
      /\ q.leaf \in 1 .. MaxLeaves /\ q.status = q0.status /\ q.pc = "count"
  BY <1>1, <1>2, <1>3, <1>5, <1>6 DEF Asked
<1>8. PICK cached : cached = proofCache[d][q.leaf]
  OBVIOUS
<1>9. /\ cached \in [index : Int, leaves : Seq(Nat)]
      /\ cached # NoProof => Proves(commitments[d], q.leaf, cached.index, cached.leaves)
  BY <1>7, <1>8 DEF ApiInv, CacheInv
<1>10. UNCHANGED vars
  BY DEF CountLeaves
<1>11. Become(r, IF cached # NoProof /\ Len(cached.leaves) = q.from
                 THEN Reply("ok", q, cached) ELSE [q EXCEPT !.pc = "target"])
  BY <1>2, <1>3, <1>5, <1>6, <1>7, <1>8 DEF CountLeaves
<1>12. CASE cached # NoProof /\ Len(cached.leaves) = q.from
  <2>1. PICK p : p = Reply("ok", q, cached)
    OBVIOUS
  <2>2. /\ p \in Asked /\ p.pc = "replied" /\ p.status = "ok" /\ p.denom = d /\ p.leaf = q.leaf
        /\ p.from = q.from /\ p.index = cached.index /\ p.leaves = cached.leaves
    BY <1>7, <1>9, <2>1 DEF Reply, Asked
  <2>3. Len(p.leaves) >= p.from
    BY <1>5, <1>7, <1>12, <2>2
  <2>4. GoodQuery(p, commitments, tree)
    BY <1>9, <1>12, <2>2, <2>3 DEF GoodQuery, QueryOK
  <2> QED
    BY <1>10, <1>11, <1>12, <2>1, <2>4, QueryBecomes
<1>13. CASE ~(cached # NoProof /\ Len(cached.leaves) = q.from)
  <2>1. PICK p : p = [q EXCEPT !.pc = "target"]
    OBVIOUS
  <2>2. /\ p \in Asked /\ p.pc = "target" /\ p.status = q0.status /\ p.denom = d
        /\ p.from = Len(s)
    BY <1>7, <2>1 DEF Asked
  <2>3. GoodQuery(p, commitments, tree)
    BY <1>2, <1>3, <1>5, <2>2 DEF GoodQuery, QueryOK
  <2> QED
    BY <1>10, <1>11, <1>13, <2>1, <2>3, QueryBecomes
<1> QED
  BY <1>12, <1>13

LEMMA NoProofType == NoProof \in [index : Int, leaves : Seq(Nat)]
<1>1. -1 \in Int /\ <<>> \in Seq(Nat)
  OBVIOUS
<1> QED
  BY <1>1 DEF NoProof

LEMMA FindTargetKeeps ==
  ASSUME ApiInv, NEW r \in Queries, FindTarget(r)
  PROVE  QueriesInv'
<1>1. query[r].pc = "target" /\ UNCHANGED vars
  BY DEF FindTarget
<1>2. PICK q \in Asked : q = query[r] /\ QueryOK(q, commitments[q.denom], tree[q.denom])
  BY <1>1, UnderWay
<1>3. PICK d \in Denoms : d = q.denom
  BY DEF Asked
<1>4. CASE Become(r, Reply("commitment_not_found", q, NoProof))
  <2>1. PICK p : p = Reply("commitment_not_found", q, NoProof)
    OBVIOUS
  <2>2. /\ p \in Asked /\ p.pc = "replied" /\ p.status = "commitment_not_found" /\ p.denom = d
    BY <1>3, <2>1, NoProofType DEF Reply, Asked
  <2>3. GoodQuery(p, commitments, tree)
    BY <2>2 DEF GoodQuery, QueryOK
  <2> QED
    BY <1>1, <1>4, <2>1, <2>3, QueryBecomes
<1>5. ASSUME NEW row \in commitments[d], row[2] = q.leaf,
             Become(r, [q EXCEPT !.pc = "leaves", !.index = row[1]])
      PROVE  QueriesInv'
  <2>1. row \in Int \X Nat
    BY DEF ApiInv, IndexInv, TypeOK, DbTypeOK
  <2>2. row[1] \in Int /\ row = <<row[1], row[2]>>
    BY <2>1
  <2>3. PICK p : p = [q EXCEPT !.pc = "leaves", !.index = row[1]]
    OBVIOUS
  <2>4. /\ p \in Asked /\ p.pc = "leaves" /\ p.status = q.status /\ p.denom = d
        /\ p.from = q.from /\ p.leaf = q.leaf /\ p.index = row[1]
    BY <1>3, <2>2, <2>3 DEF Asked
  <2>5. Counted(commitments[d], p.from) /\ <<p.index, p.leaf>> \in commitments[d]
    BY <1>1, <1>2, <1>3, <1>5, <2>2, <2>4 DEF QueryOK
  <2>6. GoodQuery(p, commitments, tree)
    BY <1>2, <1>3, <2>4, <2>5 DEF GoodQuery, QueryOK
  <2> QED
    BY <1>1, <1>5, <2>3, <2>6, QueryBecomes
<1>6. \/ Become(r, Reply("commitment_not_found", q, NoProof))
      \/ \E row \in commitments[d] :
           row[2] = q.leaf /\ Become(r, [q EXCEPT !.pc = "leaves", !.index = row[1]])
  BY <1>2, <1>3 DEF FindTarget
<1> QED
  BY <1>4, <1>5, <1>6

\* The rows read are the whole list, in its order.
LEMMA ReadRows ==
  ASSUME NEW s \in Seq(Nat)
  PROVE  Contiguous(Mirror(s)) /\ InOrder(Mirror(s)) = s
<1>1. Cardinality(Mirror(s)) = Len(s) /\ Len(s) \in Nat
  BY MirrorSize, LenProperties
<1>2. ASSUME NEW i \in 1 .. Len(s)
      PROVE  (CHOOSE row \in Mirror(s) : row[1] = i - 1)[2] = s[i]
  <2>1. <<i - 1, s[i]>> \in Mirror(s) /\ <<i - 1, s[i]>>[1] = i - 1
    BY MirrorRows
  <2>2. PICK row : row = CHOOSE x \in Mirror(s) : x[1] = i - 1
    OBVIOUS
  <2>3. row \in Mirror(s) /\ row[1] = i - 1
    BY <2>1, <2>2
  <2>4. row[2] = s[row[1] + 1]
    BY <2>3, MirrorRows
  <2>5. row[1] + 1 = i
    BY <1>1, <2>3
  <2> QED
    BY <2>2, <2>4, <2>5
<1>3. ASSUME NEW n \in 0 .. Len(s) - 1
      PROVE  n \in {row[1] : row \in Mirror(s)}
  <2>1. n + 1 \in 1 .. Len(s) /\ (n + 1) - 1 = n
    BY <1>1
  <2>2. <<(n + 1) - 1, s[n + 1]>> \in Mirror(s)
    BY <2>1, MirrorRows
  <2> QED
    BY <2>1, <2>2
<1>4. {row[1] : row \in Mirror(s)} \subseteq 0 .. Len(s) - 1
  BY MirrorRows
<1>5. {row[1] : row \in Mirror(s)} = 0 .. Len(s) - 1
  BY <1>3, <1>4
<1>6. s = [i \in 1 .. Len(s) |-> s[i]]
  BY LenProperties, SeqDef
<1> QED
  BY <1>1, <1>2, <1>5, <1>6 DEF Contiguous, InOrder

LEMMA ReadLeavesKeeps ==
  ASSUME ApiInv, NEW r \in Queries, ReadLeaves(r)
  PROVE  QueriesInv'
<1>1. query[r].pc = "leaves" /\ UNCHANGED vars
  BY DEF ReadLeaves
<1>2. PICK q \in Asked : q = query[r] /\ QueryOK(q, commitments[q.denom], tree[q.denom])
  BY <1>1, UnderWay
<1>3. PICK d \in Denoms : d = q.denom
  BY DEF Asked
<1>4. PICK s \in Seq(Nat) : commitments[d] = Mirror(s)
  BY DEF ApiInv, IndexInv, MirrorInv
<1>5. Become(r, [q EXCEPT !.pc = "root", !.leaves = s])
  BY <1>2, <1>3, <1>4, ReadRows DEF ReadLeaves
<1>6. PICK p : p = [q EXCEPT !.pc = "root", !.leaves = s]
  OBVIOUS
<1>7. /\ p \in Asked /\ p.pc = "root" /\ p.status = q.status /\ p.denom = d
      /\ p.from = q.from /\ p.leaf = q.leaf /\ p.index = q.index /\ p.leaves = s
  BY <1>3, <1>6 DEF Asked
<1>8. Counted(commitments[d], q.from) /\ <<q.index, q.leaf>> \in commitments[d]
  BY <1>1, <1>2, <1>3 DEF QueryOK
<1>9. Len(s) \in Nat
  BY LenProperties
<1>10. Proves(commitments[d], p.leaf, p.index, p.leaves)
  BY <1>4, <1>7, <1>8, MirrorRows DEF Proves
<1>11. Len(s) >= q.from
  <2>1. CASE q.from = 0
    BY <1>9, <2>1
  <2>2. CASE q.from # 0
    <3>1. q.from \in Nat /\ q.from - 1 \in 0 .. q.from - 1
      BY <1>8, <2>2 DEF Counted
    <3>2. PICK row \in Mirror(s) : row[1] = q.from - 1
      BY <1>4, <1>8, <3>1 DEF Counted
    <3>3. row[1] \in 0 .. Len(s) - 1
      BY MirrorRows
    <3> QED
      BY <1>9, <3>1, <3>2, <3>3
  <2> QED
    BY <2>1, <2>2
<1>12. GoodQuery(p, commitments, tree)
  BY <1>2, <1>3, <1>7, <1>8, <1>10, <1>11 DEF GoodQuery, QueryOK
<1> QED
  BY <1>1, <1>5, <1>6, <1>12, QueryBecomes

\* A stored root that differs is of a tree that the stored leaves are not of.
LEMMA MismatchIsDamage ==
  ASSUME IndexInv, NEW d \in Denoms, NEW leaves \in Seq(Nat),
         Mirror(leaves) \subseteq commitments[d],
         NEW row \in roots[d], row[1] = Len(leaves), row[2] # leaves
  PROVE  ~(commitments[d] \subseteq Mirror(tree[d]))
<1>1. tree[d] \in Seq(Nat) /\ row[2] \in Seq(Nat)
  BY DEF IndexInv, TypeOK, ChainTypeOK, DbTypeOK
<1>2. row[1] = Len(row[2]) /\ IsPrefix(row[2], tree[d])
  BY DEF IndexInv, RootsInv
<1>3. ASSUME commitments[d] \subseteq Mirror(tree[d])
      PROVE  FALSE
  <2>1. IsPrefix(leaves, tree[d])
    BY <1>1, <1>3, MirrorPrefix
  <2>2. \A i \in 1 .. Len(leaves) : leaves[i] = tree[d][i]
    BY <1>1, <2>1, PrefixElements
  <2>3. \A i \in 1 .. Len(row[2]) : row[2][i] = tree[d][i]
    BY <1>1, <1>2, PrefixElements
  <2>4. Len(row[2]) = Len(leaves) /\ \A i \in 1 .. Len(leaves) : row[2][i] = leaves[i]
    BY <1>2, <2>2, <2>3
  <2>5. row[2] = leaves
    BY <1>1, <2>4, SeqEqual
  <2> QED
    BY <2>5
<1> QED
  BY <1>3

LEMMA CrossCheckKeeps ==
  ASSUME ApiInv, NEW r \in Queries, CrossCheck(r)
  PROVE  QueriesInv' /\ CacheInv'
<1>1. query[r].pc = "root" /\ UNCHANGED vars
  BY DEF CrossCheck
<1>2. UNCHANGED commitments
  BY <1>1 DEF vars, db
<1>3. PICK q \in Asked : q = query[r] /\ QueryOK(q, commitments[q.denom], tree[q.denom])
  BY <1>1, UnderWay
<1>4. PICK d \in Denoms : d = q.denom
  BY DEF Asked
<1>5. Proves(commitments[d], q.leaf, q.index, q.leaves) /\ Len(q.leaves) >= q.from
  BY <1>1, <1>3, <1>4 DEF QueryOK
<1>6. PICK proof : proof = [index |-> q.index, leaves |-> q.leaves]
  OBVIOUS
<1>7. /\ proof.index = q.index /\ proof.leaves = q.leaves /\ q.leaf \in 1 .. MaxLeaves
      /\ proof \in [index : Int, leaves : Seq(Nat)]
  BY <1>6 DEF Asked
<1>8. ASSUME NEW row \in roots[d], row[1] = Len(q.leaves), row[2] # q.leaves,
             Become(r, Reply("root_mismatch", q, NoProof)), UNCHANGED proofCache
      PROVE  QueriesInv' /\ CacheInv'
  <2>1. ~(commitments[d] \subseteq Mirror(tree[d]))
    BY <1>5, <1>7, <1>8, MismatchIsDamage DEF ApiInv, Proves
  <2>2. PICK p : p = Reply("root_mismatch", q, NoProof)
    OBVIOUS
  <2>3. p \in Asked /\ p.pc = "replied" /\ p.status = "root_mismatch" /\ p.denom = d
    BY <1>4, <2>2, NoProofType DEF Reply, Asked
  <2>4. GoodQuery(p, commitments, tree)
    BY <2>1, <2>3 DEF GoodQuery, QueryOK
  <2> QED
    BY <1>1, <1>2, <1>8, <2>2, <2>4, QueryBecomes DEF ApiInv, CacheInv
<1>9. ASSUME Become(r, Reply("ok", q, proof)),
             proofCache' = [proofCache EXCEPT ![d][q.leaf] = proof]
      PROVE  QueriesInv' /\ CacheInv'
  <2>1. PICK p : p = Reply("ok", q, proof)
    OBVIOUS
  <2>2. /\ p \in Asked /\ p.pc = "replied" /\ p.status = "ok" /\ p.denom = d
        /\ p.from = q.from /\ p.leaf = q.leaf /\ p.index = q.index /\ p.leaves = q.leaves
    BY <1>4, <1>7, <2>1 DEF Reply, Asked
  <2>3. GoodQuery(p, commitments, tree)
    BY <1>5, <2>2 DEF GoodQuery, QueryOK
  <2>4. QueriesInv'
    BY <1>1, <1>9, <2>1, <2>3, QueryBecomes
  <2>5. proofCache' \in [Denoms -> [1 .. MaxLeaves -> [index : Int, leaves : Seq(Nat)]]]
    BY <1>7, <1>9 DEF ApiInv, CacheInv
  <2>6. ASSUME NEW e \in Denoms, NEW leaf \in 1 .. MaxLeaves
        PROVE  \/ proofCache'[e][leaf] = proofCache[e][leaf]
               \/ e = d /\ leaf = q.leaf /\ proofCache'[e][leaf] = proof
    BY <1>7, <1>9 DEF ApiInv, CacheInv
  <2>7. ASSUME NEW e \in Denoms, NEW leaf \in 1 .. MaxLeaves, proofCache'[e][leaf] # NoProof
        PROVE  Proves(commitments[e], leaf, proofCache'[e][leaf].index, proofCache'[e][leaf].leaves)
    <3>1. CASE proofCache'[e][leaf] = proofCache[e][leaf]
      BY <2>7, <3>1 DEF ApiInv, CacheInv
    <3>2. CASE e = d /\ leaf = q.leaf /\ proofCache'[e][leaf] = proof
      BY <1>5, <1>7, <3>2
    <3> QED
      BY <2>6, <3>1, <3>2
  <2>8. CacheInv'
    BY <1>2, <2>5, <2>7 DEF CacheInv
  <2> QED
    BY <2>4, <2>8
<1>10. \/ \E row \in roots[d] :
            /\ row[1] = Len(q.leaves) /\ row[2] # q.leaves
            /\ Become(r, Reply("root_mismatch", q, NoProof)) /\ UNCHANGED proofCache
       \/ /\ Become(r, Reply("ok", q, proof))
          /\ proofCache' = [proofCache EXCEPT ![d][q.leaf] = proof]
  BY <1>3, <1>4, <1>6 DEF CrossCheck, RootRows
<1> QED
  BY <1>8, <1>9, <1>10

LEMMA AskKeeps ==
  ASSUME ApiInv, NEW r \in Queries, NEW d \in Denoms, NEW leaf \in 1 .. MaxLeaves, Ask(r, d, leaf)
  PROVE  QueriesInv'
<1>1. PICK p : p = [NoQuery EXCEPT !.pc = "count", !.denom = d, !.leaf = leaf]
  OBVIOUS
<1>2. p \in Asked /\ p.pc = "count" /\ p.status = "none"
  <2>1. -1 \in Int /\ <<>> \in Seq(Nat) /\ 0 \in Nat
    OBVIOUS
  <2> QED
    BY <1>1, <2>1 DEF NoQuery, Asked
<1>3. GoodQuery(p, commitments, tree)
  BY <1>2 DEF GoodQuery, QueryOK
<1> QED
  BY <1>1, <1>3, QueryBecomes DEF Ask

THEOREM InitApi == ApiInit => ApiInv
<1> SUFFICES ASSUME ApiInit PROVE ApiInv
  OBVIOUS
<1>1. IndexInv
  BY InitIndex DEF ApiInit
<1>2. OrderInv
  BY DEF ApiInit, Init, OrderInv, InChain
<1>3. QueriesInv
  BY DEF ApiInit, QueriesInv, GoodQuery
<1>4. CacheInv
  BY NoProofType DEF ApiInit, CacheInv
<1> QED
  BY <1>1, <1>2, <1>3, <1>4 DEF ApiInv

THEOREM ApiInvStep == ApiInv /\ [ApiNext]_apiVars => ApiInv'
<1> SUFFICES ASSUME ApiInv, [ApiNext]_apiVars PROVE ApiInv'
  OBVIOUS
<1>1. CASE UNCHANGED vars /\ QueriesInv' /\ CacheInv'
  <2>1. IndexInv'
    BY <1>1, IndexStep DEF ApiInv
  <2>2. OrderInv'
    BY <1>1, OrderStutters DEF ApiInv, vars, onChain
  <2> QED
    BY <1>1, <2>1, <2>2 DEF ApiInv
<1>2. CASE Next /\ UNCHANGED <<query, proofCache>>
  <2>1. IndexInv' /\ OrderInv'
    BY <1>2, IndexStep, OrderStep DEF ApiInv, IndexInv
  <2> QED
    BY <1>2, <2>1, QueriesStay DEF ApiInv
<1>3. CASE UNCHANGED apiVars
  <2>1. UNCHANGED vars /\ UNCHANGED <<query, proofCache, commitments, tree>>
    BY <1>3 DEF apiVars, vars, onChain, db
  <2>2. QueriesInv' /\ CacheInv'
    BY <2>1 DEF ApiInv, QueriesInv, CacheInv
  <2> QED
    BY <1>1, <2>1, <2>2
<1>4. CASE ApiStep
  <2>1. ASSUME UNCHANGED vars, UNCHANGED proofCache, QueriesInv'
        PROVE  ApiInv'
    <3>1. CacheInv'
      BY <2>1 DEF ApiInv, CacheInv, vars, db
    <3> QED
      BY <1>1, <2>1, <3>1
  <2>2. ASSUME NEW r \in Queries, NEW d \in Denoms, NEW leaf \in 1 .. MaxLeaves, Ask(r, d, leaf)
        PROVE  ApiInv'
    BY <2>1, <2>2, AskKeeps DEF Ask
  <2>3. ASSUME NEW r \in Queries, CountLeaves(r)
        PROVE  ApiInv'
    BY <2>1, <2>3, CountLeavesKeeps DEF CountLeaves
  <2>4. ASSUME NEW r \in Queries, FindTarget(r)
        PROVE  ApiInv'
    BY <2>1, <2>4, FindTargetKeeps DEF FindTarget
  <2>5. ASSUME NEW r \in Queries, ReadLeaves(r)
        PROVE  ApiInv'
    BY <2>1, <2>5, ReadLeavesKeeps DEF ReadLeaves
  <2>6. ASSUME NEW r \in Queries, CrossCheck(r)
        PROVE  ApiInv'
    BY <1>1, <2>6, CrossCheckKeeps DEF CrossCheck
  <2>7. ASSUME NEW r \in Queries, Finish(r)
        PROVE  ApiInv'
    <3>1. GoodQuery(NoQuery, commitments, tree)
      BY DEF GoodQuery
    <3>2. Become(r, NoQuery) /\ UNCHANGED vars /\ UNCHANGED proofCache
      BY <2>7 DEF Finish
    <3>3. QueriesInv'
      BY <3>1, <3>2, QueryBecomes
    <3> QED
      BY <2>1, <3>2, <3>3
  <2>8. ASSUME NEW d \in Denoms, NEW leaf \in 1 .. MaxLeaves, Expire(d, leaf)
        PROVE  ApiInv'
    <3>1. UNCHANGED vars /\ UNCHANGED <<query, commitments, tree>>
      BY <2>8 DEF Expire, vars, onChain, db
    <3>2. QueriesInv'
      BY <3>1 DEF ApiInv, QueriesInv
    <3>3. CacheInv'
      <4>1. proofCache' = [proofCache EXCEPT ![d][leaf] = NoProof]
        BY <2>8 DEF Expire
      <4>2. proofCache' \in [Denoms -> [1 .. MaxLeaves -> [index : Int, leaves : Seq(Nat)]]]
        BY <4>1, NoProofType DEF ApiInv, CacheInv
      <4>3. ASSUME NEW e \in Denoms, NEW l \in 1 .. MaxLeaves
            PROVE  proofCache'[e][l] = proofCache[e][l] \/ proofCache'[e][l] = NoProof
        BY <4>1 DEF ApiInv, CacheInv
      <4> QED
        BY <3>1, <4>2, <4>3 DEF ApiInv, CacheInv
    <3> QED
      BY <1>1, <3>1, <3>2, <3>3
  <2>9. CASE Restart
    <3>1. UNCHANGED vars /\ UNCHANGED <<commitments, tree>>
      BY <2>9 DEF Restart, vars, onChain, db
    <3>2. QueriesInv'
      BY <2>9, <3>1 DEF Restart, QueriesInv, GoodQuery
    <3>3. CacheInv'
      BY <2>9, <3>1, NoProofType DEF Restart, CacheInv
    <3> QED
      BY <1>1, <3>1, <3>2, <3>3
  <2> QED
    BY <1>4, <2>2, <2>3, <2>4, <2>5, <2>6, <2>7, <2>8, <2>9 DEF ApiStep
<1> QED
  BY <1>2, <1>3, <1>4 DEF ApiNext

THEOREM ApiInvHolds == ApiSpec => []ApiInv
BY InitApi, ApiInvStep, PTL DEF ApiSpec

\* Every proof served is one of the leaf asked for under a root the tree has had,
\* as long as the stored leaves are the tree's (ServedProofsVerify;
\* merkle-proof.ts).
THEOREM ProofsVerify == ApiSpec => []ServedProofsVerify
<1>1. ApiInv => ServedProofsVerify
  <2> SUFFICES ASSUME ApiInv, NEW r \in Queries, Served(r), ~Damaged(query[r].denom)
               PROVE  Verifies(query[r])
    BY DEF ServedProofsVerify
  <2>1. query[r].pc = "replied" /\ query[r].status = "ok"
    BY DEF Served
  <2>2. PICK q \in Asked : q = query[r] /\ QueryOK(q, commitments[q.denom], tree[q.denom])
    BY <2>1, UnderWay
  <2>3. PICK d \in Denoms : d = q.denom
    BY DEF Asked
  <2>4. Proves(commitments[d], q.leaf, q.index, q.leaves)
    BY <2>1, <2>2, <2>3 DEF QueryOK
  <2>5. commitments[d] \subseteq Mirror(tree[d])
    BY <2>2, <2>3, DamagedRows DEF ApiInv
  <2>6. tree[d] \in Seq(Nat)
    BY DEF ApiInv, IndexInv, TypeOK, ChainTypeOK
  <2>7. IsPrefix(q.leaves, tree[d])
    BY <2>4, <2>5, <2>6, MirrorPrefix DEF Proves
  <2>8. q.index + 1 \in DOMAIN q.leaves
    BY <2>4, LenProperties DEF Proves
  <2> QED
    BY <2>2, <2>3, <2>4, <2>7, <2>8 DEF Verifies, Proves
<1> QED
  BY <1>1, ApiInvHolds, PTL

\* A proof is never of fewer leaves than were stored when the request counted
\* them, whatever the cache holds (ServedProofsAreCurrent; merkle-proof.ts:68-80).
THEOREM ProofsAreCurrent == ApiSpec => []ServedProofsAreCurrent
<1>1. ApiInv => ServedProofsAreCurrent
  BY UnderWay DEF ServedProofsAreCurrent, Served, QueryOK
<1> QED
  BY <1>1, ApiInvHolds, PTL

\* The API cries ingest_gap or root_mismatch only over leaves that are not the
\* tree's (NoFalseAlarm; merkle-proof.ts:104-139).
THEOREM AlarmsAreTrue == ApiSpec => []NoFalseAlarm
<1>1. ApiInv => NoFalseAlarm
  <2> SUFFICES ASSUME ApiInv, NEW r \in Queries,
                      query[r].status \in {"ingest_gap", "root_mismatch"}
               PROVE  Damaged(query[r].denom)
    BY DEF NoFalseAlarm
  <2>1. query[r] # NoQuery
    BY DEF NoQuery
  <2>2. /\ query[r] \in Asked /\ query[r].denom \in Denoms
        /\ QueryOK(query[r], commitments[query[r].denom], tree[query[r].denom])
    BY <2>1 DEF ApiInv, QueriesInv, GoodQuery, Asked
  <2> QED
    BY <2>2, DamagedRows DEF ApiInv, QueryOK
<1> QED
  BY <1>1, ApiInvHolds, PTL
-----------------------------------------------------------------------------
(* The poller and the API together, against a node that returns what it lists *)

\* The API only reads what the poller writes.
THEOREM ApiRunsPoller == ApiSpec => Spec
<1>1. ApiInit => Init
  BY DEF ApiInit
<1>2. [ApiNext]_apiVars => [Next]_vars
  BY DEF ApiNext, ApiStep, Ask, CountLeaves, FindTarget, ReadLeaves, CrossCheck, Finish, Expire,
         Restart, apiVars
<1> QED
  BY <1>1, <1>2, PTL DEF ApiSpec, Spec

QueriesTyped == query \in [Queries -> Asked \cup {NoQuery}]

AnswersHold ==
  \A r \in Queries :
    /\ Served(r) => Verifies(query[r])
    /\ query[r].status \notin {"ingest_gap", "root_mismatch"}

\* Every proof the API serves verifies and its alarms stay silent, without the way
\* out that ServedProofsVerify and NoFalseAlarm leave for damaged leaves: the
\* poller's scan does not damage them (merkle-proof.ts on index.ts
\* syncCommitments).
THEOREM AnswersAreGood ==
  ASSUME RpcMayMiss = FALSE
  PROVE  ApiSpec => []AnswersHold
<1>1. IndexMirrorsTree /\ QueriesTyped /\ ServedProofsVerify /\ NoFalseAlarm => AnswersHold
  <2> SUFFICES ASSUME IndexMirrorsTree, QueriesTyped, ServedProofsVerify, NoFalseAlarm,
                      NEW r \in Queries
               PROVE  /\ Served(r) => Verifies(query[r])
                      /\ query[r].status \notin {"ingest_gap", "root_mismatch"}
    BY DEF AnswersHold
  <2>1. CASE query[r] = NoQuery
    BY <2>1 DEF NoQuery, Served
  <2>2. CASE query[r] \in Asked
    <3>1. ~Damaged(query[r].denom)
      BY <2>2 DEF Asked, Damaged, IndexMirrorsTree
    <3> QED
      BY <3>1 DEF ServedProofsVerify, NoFalseAlarm
  <2> QED
    BY <2>1, <2>2 DEF QueriesTyped
<1>2. ApiInv => QueriesTyped
  BY DEF ApiInv, QueriesInv, QueriesTyped
<1> QED
  BY <1>1, <1>2, ApiRunsPoller, StoredIsTree, ApiInvHolds, ProofsVerify, AlarmsAreTrue, PTL

\* A request is told that its commitment is not there.
NotFound(r) ==
  query[r].status # "commitment_not_found" /\ query'[r].status = "commitment_not_found"

\* Only the query for the target row answers that, and only when there is none.
LEMMA NotFoundStep ==
  ASSUME QueriesTyped, [ApiNext]_apiVars, NEW r \in Queries, NotFound(r)
  PROVE  /\ query[r] \in Asked
         /\ \A row \in commitments[query[r].denom] : row[2] # query[r].leaf
<1>1. /\ query \in [Queries -> Asked \cup {NoQuery}]
      /\ query[r].status # "commitment_not_found"
      /\ query'[r].status = "commitment_not_found"
  BY DEF QueriesTyped, NotFound
<1>2. \A status, q, proof : q \in Asked => Reply(status, q, proof).status = status
  BY DEF Reply, Asked
<1>3. query' # query
  BY <1>1
<1>4. PICK x \in Queries :
        \/ \E d \in Denoms, leaf \in 1 .. MaxLeaves : Ask(x, d, leaf)
        \/ CountLeaves(x) \/ FindTarget(x) \/ ReadLeaves(x) \/ CrossCheck(x) \/ Finish(x)
  <2>1. ~Restart
    BY <1>1 DEF Restart, NoQuery
  <2>2. ~(\E d \in Denoms, leaf \in 1 .. MaxLeaves : Expire(d, leaf))
    BY <1>3 DEF Expire
  <2> QED
    BY <1>3, <2>1, <2>2 DEF ApiNext, ApiStep, apiVars
<1>5. x = r
  <2>1. \E q : Become(x, q)
    BY <1>4 DEF Ask, CountLeaves, FindTarget, ReadLeaves, CrossCheck, Finish
  <2> QED
    BY <1>1, <2>1 DEF Become
<1>6. \A q : Become(r, q) => query'[r] = q
  BY <1>1 DEF Become
<1>7. query[r] \in Asked \/ query[r] = NoQuery
  BY <1>1
<1>8. ~(\E d \in Denoms, leaf \in 1 .. MaxLeaves : Ask(r, d, leaf)) /\ ~Finish(r)
  <2>1. ASSUME NEW d, NEW leaf, Ask(r, d, leaf) PROVE FALSE
    <3>1. PICK q : q = [NoQuery EXCEPT !.pc = "count", !.denom = d, !.leaf = leaf]
      OBVIOUS
    <3>2. q.status = "none" /\ query'[r] = q
      BY <1>6, <2>1, <3>1 DEF Ask, NoQuery
    <3> QED
      BY <1>1, <3>2
  <2>2. ~Finish(r)
    BY <1>1, <1>6 DEF Finish, NoQuery
  <2> QED
    BY <2>1, <2>2
<1>9. ~ReadLeaves(r) /\ ~CrossCheck(r)
  <2>1. ASSUME query[r] \in Asked PROVE ~ReadLeaves(r)
    <3> SUFFICES ASSUME ReadLeaves(r) PROVE FALSE
      OBVIOUS
    <3>1. PICK leaves : leaves = InOrder(commitments[query[r].denom])
      OBVIOUS
    <3>2. PICK q : q = [query[r] EXCEPT !.pc = "root", !.leaves = leaves]
      OBVIOUS
    <3>3. q.status = query[r].status
      BY <2>1, <3>2 DEF Asked
    <3>4. query'[r] = q \/ query'[r] = Reply("ingest_gap", query[r], NoProof)
      BY <1>6, <3>1, <3>2 DEF ReadLeaves
    <3> QED
      BY <1>1, <1>2, <2>1, <3>3, <3>4
  <2>2. ASSUME query[r] \in Asked PROVE ~CrossCheck(r)
    BY <1>1, <1>2, <1>6, <2>2 DEF CrossCheck
  <2> QED
    BY <1>7, <2>1, <2>2 DEF ReadLeaves, CrossCheck, NoQuery
<1>10. ~CountLeaves(r)
  <2> SUFFICES ASSUME CountLeaves(r) PROVE FALSE
    OBVIOUS
  <2>1. query[r] \in Asked
    BY <1>7 DEF CountLeaves, NoQuery
  <2>2. PICK q : q = [query[r] EXCEPT !.from = Stored(query[r].denom)]
    OBVIOUS
  <2>3. q.status = query[r].status /\ [q EXCEPT !.pc = "target"].status = query[r].status
        /\ \A proof : Reply("ok", q, proof).status = "ok"
    BY <2>1, <2>2 DEF Asked, Reply
  <2> QED
    BY <1>1, <1>6, <2>2, <2>3 DEF CountLeaves
<1>11. FindTarget(r)
  BY <1>4, <1>5, <1>8, <1>9, <1>10
<1>12. query[r] \in Asked
  <2>1. query[r].pc = "target" /\ NoQuery.pc = "idle"
    BY <1>11 DEF FindTarget, NoQuery
  <2> QED
    BY <1>7, <2>1
<1>13. \A i : [query[r] EXCEPT !.pc = "leaves", !.index = i].status = query[r].status
  BY <1>12 DEF Asked
<1>14. {row \in commitments[query[r].denom] : row[2] = query[r].leaf} = {}
  BY <1>1, <1>6, <1>11, <1>13 DEF FindTarget
<1> QED
  BY <1>12, <1>14

\* A payer whose note is indexed is never told that it is unknown: the 404 of the
\* API speaks of leaves the scan has not reached, whatever the request has read
\* before (merkle-proof.ts, the query for the target row).
THEOREM IndexedIsFound ==
  ASSUME RpcMayMiss = FALSE
  PROVE  ApiSpec => [][\A r \in Queries :
                         NotFound(r) => ~Indexed(query[r].denom, query[r].leaf)]_apiVars
<1>1. CopyInv /\ QueriesTyped /\ [ApiNext]_apiVars =>
        [\A r \in Queries :
           NotFound(r) => ~Indexed(query[r].denom, query[r].leaf)]_apiVars
  <2> SUFFICES ASSUME CopyInv, QueriesTyped, [ApiNext]_apiVars, NEW r \in Queries, NotFound(r),
                      Indexed(query[r].denom, query[r].leaf)
               PROVE  FALSE
    OBVIOUS
  <2>1. /\ query[r].denom \in Denoms /\ query[r].leaf \in Nat
        /\ \A row \in commitments[query[r].denom] : row[2] # query[r].leaf
    BY NotFoundStep DEF Asked
  <2>2. PICK i \in 1 .. Len(tree[query[r].denom]) :
          <<i - 1, query[r].leaf>> \in commitments[query[r].denom]
    BY <2>1, CopyHoldsIndexed DEF IndexedIsStored
  <2> QED
    BY <2>1, <2>2
<1>2. ApiInv => QueriesTyped
  BY DEF ApiInv, QueriesInv, QueriesTyped
<1> QED
  BY <1>1, <1>2, CopyInvariant, ApiRunsPoller, ApiInvHolds, PTL DEF ApiSpec
=============================================================================
