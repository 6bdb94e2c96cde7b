----------------------------- MODULE MCQietrPool -----------------------------
(* Small instances of QietrPool for TLC. *)
EXTENDS QietrPool, TLC

CONSTANTS d1, d2, alice, fees, foreign, usdc, other

\* Every wallet holds USDC, except one of another mint.
MintsOfWallets == [w \in Wallets |-> IF w = foreign THEN other ELSE usdc]

\* Every depositor uses the SDK, which deposits a note of the tier amount.
DepositsAreWellFormed ==
  \A d \in DenomIds :
    denomination'[d].deposit_count > denomination[d].deposit_count =>
      leaves'[d][Len(leaves'[d])].amount = denomination[d].amount

WellFormedSpec == Init /\ [][Next /\ DepositsAreWellFormed]_vars

Symmetry == Permutations(Nullifiers) \cup Permutations(Signers)
TierSymmetry == Permutations(DenomIds) \cup Permutations(Nullifiers)
=============================================================================
