----------------------------- MODULE QietrEscrow -----------------------------
(***************************************************************************)
(* The qietr-escrow Anchor program: a client locks the price of a job in a *)
(* vault; the agent accepts and completes; the client releases or          *)
(* disputes; timeouts give the money back.                                 *)
(*                                                                         *)
(* Every instruction is atomic.  What interleaves is who gets in first,    *)
(* and the clock: the client's cancel races the agent's complete, and a    *)
(* dispute races its own timeout, which runs from completion.              *)
(*                                                                         *)
(* A job is named by the seeds of its two PDAs, <<client, nonce>>.  Time   *)
(* is counted in steps; 0 is "not stamped yet", as in the code.            *)
(***************************************************************************)
EXTENDS Integers

CONSTANTS
  Clients,       \* keys that create jobs
  Users,         \* every key that signs, clients and agents included
  Nonces, Mints,
  Prices,        \* price_micro arguments, 0 included
  InitialFunds,  \* of each user in each mint
  Timeout,       \* ACCEPT_TIMEOUT_SECONDS = DISPUTE_TIMEOUT_SECONDS
  MaxTime,       \* bound on the clock
  NoUser, NoMint, NoTerms

ASSUME EscrowConstantsOK ==
  /\ Clients \subseteq Users /\ NoUser \notin Users /\ NoMint \notin Mints
  /\ Prices \subseteq Nat /\ InitialFunds \in Nat
  /\ Timeout \in Nat \ {0} /\ MaxTime \in Nat \ {0}

VARIABLES
  job,      \* Job account of each <<client, nonce>>
  vault,    \* escrow_vault token account of each <<client, nonce>>
  balance,  \* the users' token accounts, one per owner and mint
  now       \* Clock::get().unix_timestamp

vars == <<job, vault, balance, now>>

Jobs == Clients \X Nonces
ClientOf(k) == k[1]

JobState == {"Created", "Accepted", "Completed", "Released", "Disputed", "Refunded"}
Open == {"Created", "Accepted", "Completed", "Disputed"}

Job == [exists : BOOLEAN, agent : Users \cup {NoUser}, price_micro : Nat,
        accepted_at : Nat, completed_at : Nat, resolved_at : Nat, state : JobState]

NoJob == [exists |-> FALSE, agent |-> NoUser, price_micro |-> 0, accepted_at |-> 0,
          completed_at |-> 0, resolved_at |-> 0, state |-> "Created"]

TypeOK ==
  /\ job \in [Jobs -> Job]
  /\ vault \in [Jobs -> [exists : BOOLEAN, mint : Mints \cup {NoMint}, amount : Nat]]
  /\ balance \in [Users \X Mints -> Nat]
  /\ now \in 1 .. MaxTime
  /\ \A k \in Jobs : job[k].accepted_at <= now /\ job[k].completed_at <= now

Init ==
  /\ job = [k \in Jobs |-> NoJob]
  /\ vault = [k \in Jobs |-> [exists |-> FALSE, mint |-> NoMint, amount |-> 0]]
  /\ balance = [a \in Users \X Mints |-> InitialFunds]
  /\ now = 1

\* The CPI-signed transfer of the whole price out of the vault, to the token
\* account of a user in the vault's mint (the constraints on the ATAs), which
\* fails unless the vault holds it.
VaultHoldsPrice(k) == vault[k].amount >= job[k].price_micro
VaultPays(k, user) ==
  LET price == job[k].price_micro
  IN /\ vault' = [vault EXCEPT ![k].amount = @ - price]
     /\ balance' = [balance EXCEPT ![<<user, vault[k].mint>>] = @ + price]

SetState(k, state) == job' = [job EXCEPT ![k].state = state]

\* Bound: nothing is stamped so late that the clock could not time it out.
StampBound == now + Timeout <= MaxTime

-----------------------------------------------------------------------------
(* What each instruction requires, and what it does.                        *)

\* `init` of both PDAs: the vault of an earlier job with this nonce is never
\* closed, so the nonce cannot be used again.
CanCreate(k, price, mint) ==
  /\ ~job[k].exists /\ ~vault[k].exists
  /\ price > 0
  /\ balance[<<ClientOf(k), mint>>] >= price

create_job(k, agent, price, mint) ==
  /\ CanCreate(k, price, mint)
  /\ job' = [job EXCEPT ![k] = [NoJob EXCEPT !.exists = TRUE, !.agent = agent,
                                             !.price_micro = price]]
  /\ vault' = [vault EXCEPT ![k] = [exists |-> TRUE, mint |-> mint, amount |-> price]]
  /\ balance' = [balance EXCEPT ![<<ClientOf(k), mint>>] = @ - price]
  /\ UNCHANGED now

CanAccept(k, signer) ==
  /\ job[k].exists /\ job[k].state = "Created"
  /\ signer = job[k].agent
  /\ StampBound

accept_job(k, signer) ==
  /\ CanAccept(k, signer)
  /\ job' = [job EXCEPT ![k].accepted_at = now, ![k].state = "Accepted"]
  /\ UNCHANGED <<vault, balance, now>>

CanComplete(k, signer) ==
  /\ job[k].exists /\ job[k].state = "Accepted"
  /\ signer = job[k].agent
  /\ StampBound

complete_job(k, signer) ==
  /\ CanComplete(k, signer)
  /\ job' = [job EXCEPT ![k].completed_at = now, ![k].state = "Completed"]
  /\ UNCHANGED <<vault, balance, now>>

CanRelease(k, signer) ==
  /\ job[k].exists /\ job[k].state = "Completed"
  /\ signer = ClientOf(k)
  /\ VaultHoldsPrice(k)

release_payment(k, signer) ==
  /\ CanRelease(k, signer)
  /\ VaultPays(k, job[k].agent)
  /\ SetState(k, "Released")
  /\ UNCHANGED now

\* Mutant of dispute_job: a released job can be disputed too.
dispute_job_late(k, signer) ==
  /\ job[k].exists /\ job[k].state \in {"Completed", "Released"}
  /\ signer = ClientOf(k)
  /\ SetState(k, "Disputed")
  /\ UNCHANGED <<vault, balance, now>>

CanDispute(k, signer) ==
  /\ job[k].exists /\ job[k].state = "Completed"
  /\ signer = ClientOf(k)

dispute_job(k, signer) ==
  /\ CanDispute(k, signer)
  /\ SetState(k, "Disputed")
  /\ UNCHANGED <<vault, balance, now>>

\* Mutant of CanCancel: as soon as the agent accepted.
CanCancel_noTimeout(k, signer) ==
  /\ job[k].exists /\ signer = ClientOf(k)
  /\ job[k].state \in {"Created", "Accepted"}
  /\ VaultHoldsPrice(k)

CanCancel(k, signer) ==
  /\ job[k].exists /\ signer = ClientOf(k)
  /\ \/ job[k].state = "Created"
     \/ job[k].state = "Accepted" /\ now >= job[k].accepted_at + Timeout
  /\ VaultHoldsPrice(k)

cancel_job(k, signer) ==
  /\ CanCancel(k, signer)
  /\ VaultPays(k, ClientOf(k))
  /\ SetState(k, "Refunded")
  /\ UNCHANGED now

\* Mutant of CanResolve: only the client may call it.
CanResolve_clientOnly(k, caller) ==
  /\ job[k].exists /\ job[k].state = "Disputed"
  /\ caller = ClientOf(k)
  /\ now >= job[k].completed_at + Timeout
  /\ VaultHoldsPrice(k)

\* Anyone may call it; the money can only go to the client.
CanResolve(k, caller) ==
  /\ job[k].exists /\ job[k].state = "Disputed"
  /\ caller \in Users
  /\ now >= job[k].completed_at + Timeout
  /\ VaultHoldsPrice(k)

resolve_dispute(k, caller) ==
  /\ CanResolve(k, caller)
  /\ VaultPays(k, ClientOf(k))
  /\ job' = [job EXCEPT ![k].resolved_at = now, ![k].state = "Refunded"]
  /\ UNCHANGED now

\* Mutant of CanClose: a disputed job counts as over.
CanClose_disputed(k) == job[k].exists /\ job[k].state \in {"Released", "Refunded", "Disputed"}

\* Anyone may close a settled job and take the rent; the vault stays.
CanClose(k) == job[k].exists /\ job[k].state \in {"Released", "Refunded"}

close_job(k) ==
  /\ CanClose(k)
  /\ job' = [job EXCEPT ![k] = NoJob]
  /\ UNCHANGED <<vault, balance, now>>

Tick ==
  /\ now < MaxTime
  /\ now' = now + 1
  /\ UNCHANGED <<job, vault, balance>>

Next ==
  \/ \E k \in Jobs, signer \in Users :
       \/ accept_job(k, signer) \/ complete_job(k, signer)
       \/ release_payment(k, signer) \/ dispute_job(k, signer)
       \/ cancel_job(k, signer) \/ resolve_dispute(k, signer)
  \/ \E k \in Jobs : close_job(k)
  \/ \E k \in Jobs, agent \in Users, price \in Prices, mint \in Mints :
       create_job(k, agent, price, mint)
  \/ Tick

Spec == Init /\ [][Next]_vars

-----------------------------------------------------------------------------
(* Properties *)

\* The vault of an open job holds its price, every other vault is empty: no
\* job is settled twice, and none is closed over its money (the transfers of
\* lib.rs against close_job, which leaves the vault behind).
VaultBacksJob ==
  \A k \in Jobs :
    vault[k].amount = IF job[k].exists /\ job[k].state \in Open
                      THEN job[k].price_micro ELSE 0

\* An agent who accepted has a whole timeout to complete, and one who
\* completed is refused payment only by a dispute that stood until a whole
\* timeout after completion (cancel_job, dispute_job and resolve_dispute).
RefundsRespectWindows ==
  \A k \in Jobs : job[k].exists /\ job[k].state = "Refunded" =>
    \/ job[k].accepted_at = 0
    \/ job[k].completed_at = 0 /\ now >= job[k].accepted_at + Timeout
    \/ job[k].completed_at > 0 /\ job[k].resolved_at >= job[k].completed_at + Timeout

\* The program is an escrow contract as a client and an agent understand it:
\* the price goes, once and in full, to the agent who delivered or back.
PhaseOf(k) ==
  CASE ~vault[k].exists -> "none"
    [] vault[k].exists /\ ~job[k].exists -> "closed"
    [] job[k].exists /\ job[k].state \in {"Created", "Accepted"} -> "held"
    [] job[k].exists /\ job[k].state \in {"Completed", "Disputed"} -> "delivered"
    [] job[k].exists /\ job[k].state = "Released" -> "paid"
    [] job[k].exists /\ job[k].state = "Refunded" -> "refunded"

Contract == INSTANCE EscrowContract WITH
  phase <- [k \in Jobs |-> PhaseOf(k)],
  terms <- [k \in Jobs |-> IF job[k].exists
                           THEN [agent |-> job[k].agent, price |-> job[k].price_micro,
                                 mint |-> vault[k].mint]
                           ELSE NoTerms],
  pot   <- [k \in Jobs |-> vault[k].amount],
  purse <- balance

ImplementsContract == Contract!Spec
=============================================================================
