--------------------------- MODULE MCQietrRelayer ---------------------------
(* Small instances of QietrRelayer: what the texts of each run decode to.   *)
EXTENDS QietrRelayer, TLC

Withdraw(n, who) ==
  [id |-> n, sponsored |-> TRUE,
   ixs |-> <<[op |-> "withdraw", denom |-> 0, party |-> who]>>]
Deposit(n, who, to, fee) ==
  [id |-> n, sponsored |-> TRUE,
   ixs |-> <<[op |-> "transfer", dest |-> to, amount |-> fee],
             [op |-> "deposit", denom |-> 0, party |-> who]>>]

\* Screening and rate limits: a withdraw to each party, one depositor who is
\* always listed, and one deposit that pays the fee to somebody else.
PolicyDecoded ==
  [b \in {"w1", "w2", "d1", "d2"} |->
     CASE b = "w1" -> Withdraw(1, "ann")
       [] b = "w2" -> Withdraw(2, "mal")
       [] b = "d1" -> Deposit(3, "mal", "fees", 1)
       [] b = "d2" -> Deposit(4, "ann", "elsewhere", 1)]
PolicyLists == {{"mal"}, {"ann", "mal"}}

\* The spend guard and the replay guard: every text is a withdraw of its own for
\* one party, so texts, like request slots, are interchangeable.
SpendDecoded == [b \in Bodies |-> Withdraw(b, "ann")]
SpendLists == {{}}
Interchangeable == Permutations(Requests) \cup Permutations(Bodies)
=============================================================================
