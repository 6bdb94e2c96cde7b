----------------------------- MODULE ProofLemmas -----------------------------
(***************************************************************************)
(* Facts that more than one of the proofs needs, or that are not about one  *)
(* of the components: division and remainder, induction over a bounded     *)
(* range, a well-founded order, images of finite sets.                     *)
(***************************************************************************)
EXTENDS Integers, TLAPS, FiniteSetTheorems, WellFoundedInduction

-----------------------------------------------------------------------------
(* Arithmetic of the ring buffer *)

\* What % and \div are on the naturals (the ring index of merkle.rs).
LEMMA DivMod ==
  ASSUME NEW a \in Nat, NEW L \in Nat \ {0}
  PROVE  /\ a % L \in 0 .. L - 1
         /\ a \div L \in Nat
         /\ a = L * (a \div L) + (a % L)
  OBVIOUS

\* Half of a number and of its successor, when the number is even (the parent of
\* two siblings, merkle.ts).
LEMMA HalfOf ==
  ASSUME NEW n \in Nat, NEW b \in {0, 1}
  PROVE  (2 * n + b) \div 2 = n
<1>1. (2 * n) \div 2 = n
  OBVIOUS
<1>2. (2 * n + 1) \div 2 = n
  OBVIOUS
<1> QED
  BY <1>1, <1>2

\* Quotient and remainder are unique.
LEMMA Unique ==
  ASSUME NEW L \in Nat \ {0}, NEW q \in Int, NEW r \in 0 .. L - 1,
         NEW p \in Int, NEW t \in 0 .. L - 1, L * q + r = L * p + t
  PROVE  q = p /\ r = t
<1>1. ASSUME NEW x \in Int, NEW y \in Int, x < y PROVE L * x + L <= L * y
  <2>1. x + 1 <= y BY <1>1
  <2>2. L * (x + 1) <= L * y BY <2>1
  <2>3. L * (x + 1) = L * x + L OBVIOUS
  <2> QED BY <2>2, <2>3
<1>2. ~(q < p)
  <2>1. SUFFICES ASSUME q < p PROVE FALSE OBVIOUS
  <2>2. L * q + L <= L * p BY <2>1, <1>1
  <2>3. L*q \in Int /\ L*p \in Int OBVIOUS
  <2> QED BY <2>2, <2>3
<1>3. ~(p < q)
  <2>1. SUFFICES ASSUME p < q PROVE FALSE OBVIOUS
  <2>2. L * p + L <= L * q BY <2>1, <1>1
  <2>3. L*q \in Int /\ L*p \in Int OBVIOUS
  <2> QED BY <2>2, <2>3
<1>4. q = p BY <1>2, <1>3
<1> QED BY <1>4

\* Adding a multiple of L does not change the remainder.
LEMMA SameMod ==
  ASSUME NEW a \in Nat, NEW b \in Nat, NEW k \in Int, NEW L \in Nat \ {0},
         b = L * k + a
  PROVE  b % L = a % L
<1> DEFINE p == a \div L
           q == b \div L
<1>1. a = L * p + (a % L) /\ a % L \in 0 .. L - 1 /\ p \in Nat
  BY DivMod
<1>2. b = L * q + (b % L) /\ b % L \in 0 .. L - 1 /\ q \in Nat
  BY DivMod
<1> DEFINE m == k + p
           r == a % L
           t == b % L
<1>3. L * m = L * k + L * p /\ m \in Int
  BY <1>1
<1>4. L * q + t = L * m + r
  BY <1>1, <1>2, <1>3
<1>5. r \in 0 .. L - 1 /\ t \in 0 .. L - 1 /\ q \in Int
  BY <1>1, <1>2
<1> HIDE DEF p, q, m, r, t
<1>6. t = r
  BY <1>3, <1>4, <1>5, Unique
<1> QED BY <1>6 DEF r, t

\* The cursor of append, (cursor + 1) % ROOT_HISTORY_LEN, follows the leaf
\* count modulo the ring's length.
LEMMA ModSucc ==
  ASSUME NEW a \in Nat, NEW L \in Nat \ {0}
  PROVE  ((a % L) + 1) % L = (a + 1) % L
<1> DEFINE p == a \div L
           b == (a % L) + 1
           c == a + 1
<1>1. a = L * p + (a % L) /\ a % L \in 0 .. L - 1 /\ p \in Nat
  BY DivMod
<1>2. b \in Nat /\ c \in Nat /\ c = L * p + b
  BY <1>1
<1>4. p \in Int BY <1>1
<1> HIDE DEF p, b, c
<1>3. c % L = b % L
  BY <1>2, <1>4, SameMod
<1> QED BY <1>3 DEF b, c

\* Fewer than L appends apart, two roots are in different slots.
LEMMA ModDistinct ==
  ASSUME NEW a \in Nat, NEW b \in Nat, NEW L \in Nat \ {0}, a < b, b < a + L
  PROVE  a % L # b % L
<1> SUFFICES ASSUME a % L = b % L PROVE FALSE OBVIOUS
<1>1. a = L * (a \div L) + (a % L) /\ a \div L \in Nat /\ a % L \in 0..L-1
  BY DivMod
<1>2. b = L * (b \div L) + (b % L) /\ b \div L \in Nat
  BY DivMod
<1> DEFINE x == (b \div L) - (a \div L)
<1>3. x \in Int BY <1>1, <1>2
<1>4. L * x = L * (b \div L) - L * (a \div L) BY <1>1, <1>2
<1>5. L * x = b - a BY <1>1, <1>2, <1>4
<1> HIDE DEF x
<1>6. x > 0 BY <1>3, <1>5
<1>7. L * x >= L BY <1>3, <1>6
<1> QED BY <1>5, <1>7

-----------------------------------------------------------------------------
(* Induction *)

\* The segments below the members of S are finite sets, the smallest of which is
\* that of the least member.
LEMMA LeastNat ==
  ASSUME NEW S \in SUBSET Nat, S # {}
  PROVE  \E n \in S : \A m \in S : n <= m
<1> DEFINE T == {1 .. n : n \in S}
           R == StrictSubsetOrdering(Nat)
<1>1. IsWellFoundedOn(R, FiniteSubsetsOf(Nat))
  BY FS_StrictSubsetOrderingWellFounded
<1>2. \A n \in S : 1 .. n \in FiniteSubsetsOf(Nat)
  BY FS_Interval DEF FiniteSubsetsOf
<1>3. T \subseteq FiniteSubsetsOf(Nat) /\ T # {}
  BY <1>2
<1>4. PICK t \in T : \A u \in T : ~ (<<u, t>> \in R)
  <2> HIDE DEF T, R
  <2> QED BY <1>1, <1>3, WFMin
<1>5. PICK n \in S : t = 1 .. n
  OBVIOUS
<1>6. ASSUME NEW m \in S, ~(n <= m) PROVE FALSE
  <2>1. m < n /\ n \in 1 .. n /\ ~(n \in 1 .. m)
    BY <1>6
  <2>2. 1 .. m \subseteq 1 .. n /\ 1 .. m # 1 .. n
    BY <2>1
  <2>3. <<1 .. m, 1 .. n>> \in R
    BY <1>2, <2>2 DEF StrictSubsetOrdering
  <2> QED BY <1>4, <1>5, <2>3
<1> QED BY <1>6

\* A set that has 0 and, with every number below N, the next one has all of
\* 0 .. N.
LEMMA UpTo ==
  ASSUME NEW S, NEW N \in Nat, 0 \in S,
         \A d \in 0 .. N - 1 : d \in S => d + 1 \in S
  PROVE  \A d \in 0 .. N : d \in S
<1> DEFINE Missing == {d \in 0 .. N : d \notin S}
<1> SUFFICES ASSUME Missing # {} PROVE FALSE
  OBVIOUS
<1>1. PICK n \in Missing : \A m \in Missing : n <= m
  <2>1. Missing \in SUBSET Nat
    OBVIOUS
  <2> HIDE DEF Missing
  <2> QED BY <2>1, LeastNat
<1>2. n # 0 /\ n - 1 \in 0 .. N - 1
  BY <1>1
<1>3. n - 1 \notin Missing
  BY <1>1, <1>2
<1> QED BY <1>1, <1>2, <1>3
-----------------------------------------------------------------------------
(* The order of the work a loop has left *)

\* Triples in lexicographic order.
Triples == Nat \X Nat \X Nat

Below(a, b) ==
  \/ a[1] < b[1]
  \/ a[1] = b[1] /\ a[2] < b[2]
  \/ a[1] = b[1] /\ a[2] = b[2] /\ a[3] < b[3]

LexTriples == {p \in Triples \X Triples : Below(p[1], p[2])}

\* Nothing can go down in that order for ever.
LEMMA LexWellFounded == IsWellFoundedOn(LexTriples, Triples)
<1> SUFFICES ASSUME NEW T, T \subseteq Triples, T # {}
             PROVE  \E x \in T : \A y \in T : ~ (<<y, x>> \in LexTriples)
  BY MinWF
<1> DEFINE F == {t[1] : t \in T}
<1>1. PICK i \in F : \A j \in F : i <= j
  <2>1. F \in SUBSET Nat /\ F # {}
    BY DEF Triples
  <2> HIDE DEF F
  <2> QED BY <2>1, LeastNat
<1> DEFINE U == {t \in T : t[1] = i}
           G == {t[2] : t \in U}
<1>2. PICK k \in G : \A j \in G : k <= j
  <2>1. G \in SUBSET Nat /\ G # {}
    BY DEF Triples
  <2> HIDE DEF G
  <2> QED BY <2>1, LeastNat
<1> DEFINE V == {t \in U : t[2] = k}
           H == {t[3] : t \in V}
<1>3. PICK m \in H : \A j \in H : m <= j
  <2>1. H \in SUBSET Nat /\ H # {}
    BY DEF Triples
  <2> HIDE DEF H
  <2> QED BY <2>1, LeastNat
<1>4. PICK x \in T : x[1] = i /\ x[2] = k /\ x[3] = m
  OBVIOUS
<1>5. ASSUME NEW y \in T, Below(y, x) PROVE FALSE
  <2>1. y[1] \in Nat /\ y[2] \in Nat /\ y[3] \in Nat /\ i \in Nat /\ k \in Nat /\ m \in Nat
    BY DEF Triples
  <2>2. ~(y[1] < i)
    BY <1>1, <2>1
  <2>3. y[1] = i => ~(y[2] < k)
    BY <1>2, <2>1
  <2>4. y[1] = i /\ y[2] = k => ~(y[3] < m)
    BY <1>3, <2>1
  <2> QED BY <1>4, <1>5, <2>2, <2>3, <2>4 DEF Below
<1> QED BY <1>5 DEF LexTriples
-----------------------------------------------------------------------------
(* Finite sets *)

\* The values of a function on a finite set are finitely many.
LEMMA FiniteImage ==
  ASSUME NEW S, IsFiniteSet(S), NEW f
  PROVE  IsFiniteSet({f[x] : x \in S})
<1> DEFINE T == {f[x] : x \in S}
           g == [x \in S |-> f[x]]
<1>1. g \in Surjection(S, T)
  BY DEF Surjection
<1> HIDE DEF g, T
<1>2. IsFiniteSet(T)
  BY <1>1, FS_Surjection
<1> QED
  BY <1>2 DEF T

LEMMA FinitePairs ==
  ASSUME NEW S, IsFiniteSet(S), NEW n
  PROVE  IsFiniteSet({<<n, x>> : x \in S})
<1> DEFINE T == {<<n, x>> : x \in S}
           g == [x \in S |-> <<n, x>>]
<1>1. g \in Surjection(S, T)
  BY DEF Surjection
<1> HIDE DEF g, T
<1>2. IsFiniteSet(T)
  BY <1>1, FS_Surjection
<1> QED
  BY <1>2 DEF T
=============================================================================
