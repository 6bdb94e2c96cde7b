---------------------------- MODULE EscrowContract ----------------------------
(***************************************************************************)
(* What the job escrow promises: the price of a job is taken from its      *)
(* client once, is in the pot until it is settled, and then goes in full   *)
(* either to the agent named at the start, after that agent delivered, or  *)
(* back to the client.  The QietrEscrow module implements this.            *)
(***************************************************************************)
EXTENDS Integers

CONSTANTS Clients, Nonces, Users, Mints, Prices, NoTerms

Jobs == Clients \X Nonces
ClientOf(k) == k[1]

VARIABLES
  phase,  \* of each job
  terms,  \* agent, price and mint of each job that is on record
  pot,    \* what is held for each job
  purse   \* what each user holds of each mint

contractVars == <<phase, terms, pot, purse>>

Init ==
  /\ phase = [k \in Jobs |-> "none"]
  /\ terms = [k \in Jobs |-> NoTerms]
  /\ pot = [k \in Jobs |-> 0]
  /\ purse \in [Users \X Mints -> Nat]

Fund(k, t) ==
  /\ phase[k] = "none"
  /\ phase' = [phase EXCEPT ![k] = "held"]
  /\ terms' = [terms EXCEPT ![k] = t]
  /\ pot' = [pot EXCEPT ![k] = t.price]
  /\ purse' = [purse EXCEPT ![<<ClientOf(k), t.mint>>] = @ - t.price]

Deliver(k) ==
  /\ phase[k] = "held"
  /\ phase' = [phase EXCEPT ![k] = "delivered"]
  /\ UNCHANGED <<terms, pot, purse>>

Settle(k, outcome, user) ==
  /\ phase' = [phase EXCEPT ![k] = outcome]
  /\ pot' = [pot EXCEPT ![k] = 0]
  /\ purse' = [purse EXCEPT ![<<user, terms[k].mint>>] = @ + terms[k].price]
  /\ UNCHANGED terms

Pay(k) == phase[k] = "delivered" /\ Settle(k, "paid", terms[k].agent)

Refund(k) ==
  phase[k] \in {"held", "delivered"} /\ Settle(k, "refunded", ClientOf(k))

Forget(k) ==
  /\ phase[k] \in {"paid", "refunded"}
  /\ phase' = [phase EXCEPT ![k] = "closed"]
  /\ terms' = [terms EXCEPT ![k] = NoTerms]
  /\ UNCHANGED <<pot, purse>>

Terms == [agent : Users, price : Prices, mint : Mints]

Next ==
  \E k \in Jobs :
    \/ \E t \in Terms : Fund(k, t)
    \/ Deliver(k) \/ Pay(k) \/ Refund(k) \/ Forget(k)

Spec == Init /\ [][Next]_contractVars
=============================================================================
