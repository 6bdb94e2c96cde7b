---------------------------- MODULE ShieldedLedger ----------------------------
(***************************************************************************)
(* What the pool promises, with no trees, roots, proofs or time: each tier *)
(* holds a set of live notes, each worth one tier amount; a note is spent  *)
(* at most once, and spending it releases at most its tier amount.  The    *)
(* QietrPool module implements this.                                       *)
(***************************************************************************)
EXTENDS Integers, FiniteSets

CONSTANTS DenomIds, Nullifiers, TierAmounts

VARIABLES
  tier,   \* amount of each open tier, 0 if it is not open
  live,   \* per tier, the notes that can still be spent
  spent,  \* per tier, the notes that were
  funds   \* per tier, the money held for them

ledgerVars == <<tier, live, spent, funds>>

Init ==
  /\ tier = [d \in DenomIds |-> 0]
  /\ live = [d \in DenomIds |-> {}]
  /\ spent = [d \in DenomIds |-> {}]
  /\ funds = [d \in DenomIds |-> 0]

Open(d, amount) ==
  /\ tier[d] = 0
  /\ tier' = [tier EXCEPT ![d] = amount]
  /\ UNCHANGED <<live, spent, funds>>

\* A deposit of one tier amount makes at most one new note live: a note that
\* was spent stays spent, and an ill-formed one is never live.
Deposit(d, notes) ==
  /\ tier[d] # 0
  /\ \A m, n \in notes : m = n
  /\ live' = [live EXCEPT ![d] = @ \cup (notes \ spent[d])]
  /\ funds' = [funds EXCEPT ![d] = @ + tier[d]]
  /\ UNCHANGED <<tier, spent>>

\* Part of what leaves one tier may be a fee kept in another tier's vault.
Spend(d, n, paid, keeper, kept) ==
  /\ n \in live[d]
  /\ live' = [live EXCEPT ![d] = @ \ {n}]
  /\ spent' = [spent EXCEPT ![d] = @ \cup {n}]
  /\ funds' = [[funds EXCEPT ![d] = @ - paid] EXCEPT ![keeper] = @ + kept]
  /\ UNCHANGED tier

Next ==
  \/ \E d \in DenomIds, amount \in TierAmounts : Open(d, amount)
  \/ \E d \in DenomIds, notes \in SUBSET Nullifiers : Deposit(d, notes)
  \/ \E d, keeper \in DenomIds, n \in Nullifiers :
       \E paid \in 1 .. tier[d] : \E kept \in 0 .. paid :
         Spend(d, n, paid, keeper, kept)

Spec == Init /\ [][Next]_ledgerVars
=============================================================================
