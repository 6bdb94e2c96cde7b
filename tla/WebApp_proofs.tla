---------------------------- MODULE WebApp_proofs ----------------------------
(***************************************************************************)
(* Theorems about what agents deal through: the escrow and the messaging   *)
(* program, each whoever calls it, and then the web app's pages for them,  *)
(* whatever the users, jobs, messages, texts and clocks.  The pages share  *)
(* sendAndConfirm, so one invariant says what its reports rest on          *)
(* (ConfirmInv); the two others say what a page may rely on when a         *)
(* transaction it sent a while ago lands (ClickInv), and what the inbox    *)
(* shows while others write (MailInv).                                     *)
(***************************************************************************)
EXTENDS WebApp, TLAPS

-----------------------------------------------------------------------------
(* The job escrow, for every number of clients, jobs, users, mints and     *)
(* prices, every timeout and every clock.                                  *)
(*                                                                         *)
(* VaultBacksJob and RefundsRespectWindows are not inductive alone.  What  *)
(* the program relies on and never writes down is JobShape: a job account  *)
(* has its vault and its price, and its state tells which of its stamps    *)
(* are set.                                                                *)

JobShape ==
  \A k \in Jobs :
    /\ ~job[k].exists => job[k] = NoJob
    /\ job[k].exists => /\ vault[k].exists /\ vault[k].mint \in Mints
                        /\ job[k].agent \in Users
                        /\ job[k].price_micro \in Prices \ {0}
    /\ job[k].state = "Created" => job[k].accepted_at = 0 /\ job[k].completed_at = 0
    /\ job[k].state = "Accepted" => job[k].completed_at = 0
    /\ job[k].state \in {"Completed", "Disputed"} => job[k].completed_at > 0

EscrowInv == TypeOK /\ JobShape /\ VaultBacksJob /\ RefundsRespectWindows

Vaults == [Jobs -> [exists : BOOLEAN, mint : Mints \cup {NoMint}, amount : Nat]]

LEMMA ClientIsUser ==
  ASSUME NEW k \in Jobs
  PROVE  ClientOf(k) \in Users
BY EscrowConstantsOK DEF Jobs, ClientOf

\* What the vault of an open job holds, and where a payment from it goes.
LEMMA OpenVault ==
  ASSUME EscrowInv, NEW k \in Jobs, job[k].exists, job[k].state \in Open
  PROVE  /\ vault[k].amount = job[k].price_micro /\ vault[k].mint \in Mints
         /\ job[k].price_micro \in Nat /\ job[k].agent \in Users
BY DEF EscrowInv, TypeOK, Job, JobShape, VaultBacksJob

\* Paying the price of an open job to a user empties its vault.
LEMMA PaysWhole ==
  ASSUME EscrowInv, NEW k \in Jobs, NEW user \in Users,
         job[k].exists, job[k].state \in Open, VaultPays(k, user)
  PROVE  /\ vault' = [vault EXCEPT ![k].amount = 0]
         /\ balance' = [balance EXCEPT ![<<user, vault[k].mint>>] = @ + job[k].price_micro]
         /\ vault' \in Vaults
         /\ balance' \in [Users \X Mints -> Nat]
<1>1. /\ vault[k].amount = job[k].price_micro /\ vault[k].mint \in Mints
      /\ job[k].price_micro \in Nat
  BY OpenVault
<1>2. vault \in Vaults /\ balance \in [Users \X Mints -> Nat]
  BY DEF EscrowInv, TypeOK, Vaults
<1>3. vault' = [vault EXCEPT ![k].amount = 0]
  <2>1. vault[k].amount - job[k].price_micro = 0
    BY <1>1
  <2>2. vault' = [vault EXCEPT ![k].amount = vault[k].amount - job[k].price_micro]
    BY DEF VaultPays
  <2> QED BY <2>1, <2>2
<1>4. balance' = [balance EXCEPT ![<<user, vault[k].mint>>] = @ + job[k].price_micro]
  BY DEF VaultPays
<1>5. vault' \in Vaults
  BY <1>2, <1>3 DEF Vaults
<1>6. balance' \in [Users \X Mints -> Nat]
  <2>1. <<user, vault[k].mint>> \in Users \X Mints
    BY <1>1
  <2>2. balance[<<user, vault[k].mint>>] + job[k].price_micro \in Nat
    BY <1>1, <1>2, <2>1
  <2> QED BY <1>2, <1>4, <2>1, <2>2
<1> QED BY <1>3, <1>4, <1>5, <1>6

LEMMA EscrowInitInv == Init => EscrowInv
BY EscrowConstantsOK
   DEF Init, EscrowInv, TypeOK, JobShape, VaultBacksJob, RefundsRespectWindows,
       Job, NoJob, JobState, Open

-----------------------------------------------------------------------------
\* The invariant is a fact about each job and its vault, so a step that changes
\* one job keeps it when the new account and the new vault are as they should be.
OneJobOK(k) ==
  /\ ~job[k].exists => job[k] = NoJob
  /\ job[k].exists => /\ vault[k].exists /\ vault[k].mint \in Mints
                      /\ job[k].agent \in Users
                      /\ job[k].price_micro \in Prices \ {0}
  /\ job[k].state = "Created" => job[k].accepted_at = 0 /\ job[k].completed_at = 0
  /\ job[k].state = "Accepted" => job[k].completed_at = 0
  /\ job[k].state \in {"Completed", "Disputed"} => job[k].completed_at > 0
  /\ job[k].accepted_at <= now /\ job[k].completed_at <= now
  /\ vault[k].amount = IF job[k].exists /\ job[k].state \in Open
                       THEN job[k].price_micro ELSE 0
  /\ job[k].exists /\ job[k].state = "Refunded" =>
       \/ job[k].accepted_at = 0
       \/ job[k].completed_at = 0 /\ now >= job[k].accepted_at + Timeout
       \/ job[k].completed_at > 0 /\ job[k].resolved_at >= job[k].completed_at + Timeout

Shapes ==
  /\ job \in [Jobs -> Job] /\ vault \in Vaults
  /\ balance \in [Users \X Mints -> Nat] /\ now \in 1 .. MaxTime

LEMMA InvByJob == EscrowInv <=> Shapes /\ \A k \in Jobs : OneJobOK(k)
BY DEF EscrowInv, TypeOK, JobShape, VaultBacksJob, RefundsRespectWindows, OneJobOK,
       Shapes, Vaults

LEMMA OneJobChanges ==
  ASSUME EscrowInv, Shapes', NEW k \in Jobs, OneJobOK(k)', UNCHANGED now,
         \A x \in Jobs \ {k} : job'[x] = job[x] /\ vault'[x] = vault[x]
  PROVE  EscrowInv'
<1>1. \A x \in Jobs : OneJobOK(x)
  BY InvByJob
<1>2. \A x \in Jobs \ {k} : OneJobOK(x)'
  BY <1>1 DEF OneJobOK
<1>3. \A x \in Jobs : OneJobOK(x)'
  BY <1>2
<1> QED
  BY <1>3 DEF EscrowInv, TypeOK, JobShape, VaultBacksJob, RefundsRespectWindows,
              OneJobOK, Shapes, Vaults

-----------------------------------------------------------------------------
LEMMA CreateInv ==
  ASSUME EscrowInv, NEW k \in Jobs, NEW agent \in Users, NEW price \in Prices,
         NEW mint \in Mints, create_job(k, agent, price, mint)
  PROVE  EscrowInv'
<1> DEFINE new == [NoJob EXCEPT !.exists = TRUE, !.agent = agent, !.price_micro = price]
           payer == <<ClientOf(k), mint>>
<1>1. /\ job \in [Jobs -> Job] /\ vault \in Vaults
      /\ balance \in [Users \X Mints -> Nat] /\ now \in 1 .. MaxTime
  BY DEF EscrowInv, TypeOK, Vaults
<1>2. price \in Nat /\ price > 0
  BY EscrowConstantsOK DEF create_job, CanCreate
<1>3. /\ new \in Job /\ new.exists /\ new.agent = agent /\ new.price_micro = price
      /\ new.state = "Created" /\ new.accepted_at = 0 /\ new.completed_at = 0
  BY <1>2 DEF NoJob, Job, JobState
<1>4. payer \in Users \X Mints
  BY ClientIsUser
<1>5. balance[payer] - price \in Nat
  BY <1>1, <1>2, <1>4 DEF create_job, CanCreate
<1>6. job' = [job EXCEPT ![k] = new]
  BY DEF create_job, CanCreate
<1>7. vault' = [vault EXCEPT ![k] = [exists |-> TRUE, mint |-> mint, amount |-> price]]
  BY DEF create_job, CanCreate
<1>8. balance' \in [Users \X Mints -> Nat]
  BY <1>1, <1>5 DEF create_job, CanCreate
<1>9. job' \in [Jobs -> Job] /\ vault' \in Vaults /\ now' = now
  BY <1>1, <1>2, <1>3, <1>6, <1>7 DEF create_job, CanCreate, Vaults
<1>10. Shapes'
  BY <1>1, <1>8, <1>9 DEF Shapes
<1>11. /\ job'[k] = new
       /\ vault'[k] = [exists |-> TRUE, mint |-> mint, amount |-> price]
       /\ \A x \in Jobs \ {k} : job'[x] = job[x] /\ vault'[x] = vault[x]
  BY <1>1, <1>6, <1>7 DEF Vaults
<1>12. OneJobOK(k)'
  BY <1>1, <1>2, <1>3, <1>9, <1>11 DEF OneJobOK, Open
<1> HIDE DEF new
<1> QED BY <1>9, <1>10, <1>11, <1>12, OneJobChanges

\* The three instructions that move a job on and leave its money alone, and the
\* close, which forgets a settled one.
LEMMA JobOnly ==
  ASSUME EscrowInv, NEW k \in Jobs, NEW new \in Job,
         job' = [job EXCEPT ![k] = new], UNCHANGED <<vault, balance, now>>
  PROVE  /\ Shapes' /\ UNCHANGED now /\ job'[k] = new /\ vault'[k] = vault[k]
         /\ \A x \in Jobs \ {k} : job'[x] = job[x] /\ vault'[x] = vault[x]
BY DEF EscrowInv, TypeOK, Shapes, Vaults

LEMMA JobFields ==
  ASSUME EscrowInv, NEW k \in Jobs
  PROVE  /\ job[k] \in Job /\ OneJobOK(k) /\ now \in Nat /\ now > 0
         /\ job \in [Jobs -> Job] /\ Timeout \in Nat
BY EscrowConstantsOK, InvByJob DEF EscrowInv, TypeOK

LEMMA AcceptInv ==
  ASSUME EscrowInv, NEW k \in Jobs, NEW signer \in Users, accept_job(k, signer)
  PROVE  EscrowInv'
<1> DEFINE new == [job[k] EXCEPT !.accepted_at = now, !.state = "Accepted"]
<1>1. job[k] \in Job /\ OneJobOK(k) /\ now \in Nat /\ now > 0 /\ job \in [Jobs -> Job]
  BY JobFields
<1>2. /\ new \in Job /\ new.exists /\ new.agent = job[k].agent
      /\ new.price_micro = job[k].price_micro /\ new.state = "Accepted"
      /\ new.accepted_at = now /\ new.completed_at = job[k].completed_at
  BY <1>1 DEF Job, JobState, accept_job, CanAccept
<1>3. job' = [job EXCEPT ![k] = new] /\ UNCHANGED <<vault, balance, now>>
  BY <1>1 DEF accept_job, CanAccept, Job
<1> HIDE DEF new
<1>4. /\ Shapes' /\ UNCHANGED now /\ job'[k] = new /\ vault'[k] = vault[k]
      /\ \A x \in Jobs \ {k} : job'[x] = job[x] /\ vault'[x] = vault[x]
  BY <1>2, <1>3, JobOnly
<1>5. OneJobOK(k)'
  BY <1>1, <1>2, <1>4 DEF OneJobOK, Open, accept_job, CanAccept
<1> QED BY <1>4, <1>5, OneJobChanges

LEMMA CompleteInv ==
  ASSUME EscrowInv, NEW k \in Jobs, NEW signer \in Users, complete_job(k, signer)
  PROVE  EscrowInv'
<1> DEFINE new == [job[k] EXCEPT !.completed_at = now, !.state = "Completed"]
<1>1. job[k] \in Job /\ OneJobOK(k) /\ now \in Nat /\ now > 0 /\ job \in [Jobs -> Job]
  BY JobFields
<1>2. /\ new \in Job /\ new.exists /\ new.agent = job[k].agent
      /\ new.price_micro = job[k].price_micro /\ new.state = "Completed"
      /\ new.accepted_at = job[k].accepted_at /\ new.completed_at = now
  BY <1>1 DEF Job, JobState, complete_job, CanComplete
<1>3. job' = [job EXCEPT ![k] = new] /\ UNCHANGED <<vault, balance, now>>
  BY <1>1 DEF complete_job, CanComplete, Job
<1> HIDE DEF new
<1>4. /\ Shapes' /\ UNCHANGED now /\ job'[k] = new /\ vault'[k] = vault[k]
      /\ \A x \in Jobs \ {k} : job'[x] = job[x] /\ vault'[x] = vault[x]
  BY <1>2, <1>3, JobOnly
<1>5. OneJobOK(k)'
  BY <1>1, <1>2, <1>4 DEF OneJobOK, Open, complete_job, CanComplete
<1> QED BY <1>4, <1>5, OneJobChanges

LEMMA DisputeInv ==
  ASSUME EscrowInv, NEW k \in Jobs, NEW signer \in Users, dispute_job(k, signer)
  PROVE  EscrowInv'
<1> DEFINE new == [job[k] EXCEPT !.state = "Disputed"]
<1>1. job[k] \in Job /\ OneJobOK(k) /\ now \in Nat /\ now > 0 /\ job \in [Jobs -> Job]
  BY JobFields
<1>2. /\ new \in Job /\ new.exists /\ new.agent = job[k].agent
      /\ new.price_micro = job[k].price_micro /\ new.state = "Disputed"
      /\ new.accepted_at = job[k].accepted_at /\ new.completed_at = job[k].completed_at
  BY <1>1 DEF Job, JobState, dispute_job, CanDispute
<1>3. job' = [job EXCEPT ![k] = new] /\ UNCHANGED <<vault, balance, now>>
  BY <1>1 DEF dispute_job, CanDispute, SetState, Job
<1> HIDE DEF new
<1>4. /\ Shapes' /\ UNCHANGED now /\ job'[k] = new /\ vault'[k] = vault[k]
      /\ \A x \in Jobs \ {k} : job'[x] = job[x] /\ vault'[x] = vault[x]
  BY <1>2, <1>3, JobOnly
<1>5. OneJobOK(k)'
  BY <1>1, <1>2, <1>4 DEF OneJobOK, Open, dispute_job, CanDispute
<1> QED BY <1>4, <1>5, OneJobChanges

LEMMA CloseInv ==
  ASSUME EscrowInv, NEW k \in Jobs, close_job(k)
  PROVE  EscrowInv'
<1>1. job[k] \in Job /\ OneJobOK(k) /\ now \in Nat /\ now > 0 /\ job \in [Jobs -> Job]
  BY JobFields
<1>2. /\ NoJob \in Job /\ ~NoJob.exists /\ NoJob.state = "Created"
      /\ NoJob.accepted_at = 0 /\ NoJob.completed_at = 0
  BY DEF NoJob, Job, JobState
<1>3. /\ Shapes' /\ UNCHANGED now /\ job'[k] = NoJob /\ vault'[k] = vault[k]
      /\ \A x \in Jobs \ {k} : job'[x] = job[x] /\ vault'[x] = vault[x]
  BY <1>2, JobOnly DEF close_job, CanClose
<1>4. vault[k].amount = 0
  BY <1>1 DEF close_job, CanClose, OneJobOK, Open
<1>5. OneJobOK(k)'
  BY <1>1, <1>2, <1>3, <1>4 DEF OneJobOK
<1> QED BY <1>3, <1>5, OneJobChanges

-----------------------------------------------------------------------------
\* Release, cancel and resolve settle a job: its vault is paid out whole, and
\* its account keeps everything but the state, and resolved_at when resolved.
LEMMA SettleInv ==
  ASSUME EscrowInv, NEW k \in Jobs, NEW user \in Users, NEW new \in Job,
         job[k].exists, job[k].state \in Open, VaultPays(k, user),
         job' = [job EXCEPT ![k] = new], UNCHANGED now,
         new.exists, new.agent = job[k].agent, new.price_micro = job[k].price_micro,
         new.accepted_at = job[k].accepted_at, new.completed_at = job[k].completed_at,
         \/ new.state = "Released"
         \/ /\ new.state = "Refunded"
            /\ \/ new.accepted_at = 0
               \/ new.completed_at = 0 /\ now >= new.accepted_at + Timeout
               \/ new.completed_at > 0 /\ new.resolved_at >= new.completed_at + Timeout
  PROVE  EscrowInv'
<1>1. /\ vault' = [vault EXCEPT ![k].amount = 0]
      /\ vault' \in Vaults /\ balance' \in [Users \X Mints -> Nat]
  BY PaysWhole
<1>2. /\ vault \in Vaults /\ now \in 1 .. MaxTime /\ job \in [Jobs -> Job]
  BY DEF EscrowInv, TypeOK, Vaults
<1>3. Shapes'
  BY <1>1, <1>2 DEF Shapes
<1>4. /\ job'[k] = new
      /\ vault'[k].exists = vault[k].exists /\ vault'[k].mint = vault[k].mint
      /\ vault'[k].amount = 0
      /\ \A x \in Jobs \ {k} : job'[x] = job[x] /\ vault'[x] = vault[x]
  BY <1>1, <1>2 DEF Vaults
<1>5. OneJobOK(k)
  BY JobFields
<1>6. OneJobOK(k)'
  BY <1>2, <1>4, <1>5 DEF OneJobOK, Open
<1> QED BY <1>3, <1>4, <1>6, OneJobChanges

LEMMA ReleaseInv ==
  ASSUME EscrowInv, NEW k \in Jobs, NEW signer \in Users, release_payment(k, signer)
  PROVE  EscrowInv'
<1> DEFINE new == [job[k] EXCEPT !.state = "Released"]
<1>1. job[k] \in Job /\ OneJobOK(k) /\ job \in [Jobs -> Job]
  BY JobFields
<1>2. job[k].exists /\ job[k].state \in Open /\ job[k].agent \in Users
  BY <1>1 DEF release_payment, CanRelease, OneJobOK, Open
<1>3. /\ new \in Job /\ new.exists /\ new.agent = job[k].agent
      /\ new.price_micro = job[k].price_micro /\ new.state = "Released"
      /\ new.accepted_at = job[k].accepted_at /\ new.completed_at = job[k].completed_at
  BY <1>1, <1>2 DEF Job, JobState
<1>4. job' = [job EXCEPT ![k] = new] /\ UNCHANGED now
  BY <1>1 DEF release_payment, CanRelease, SetState, Job
<1>5. VaultPays(k, job[k].agent)
  BY DEF release_payment, CanRelease
<1> HIDE DEF new
<1> QED BY <1>2, <1>3, <1>4, <1>5, SettleInv

LEMMA CancelInv ==
  ASSUME EscrowInv, NEW k \in Jobs, NEW signer \in Users, cancel_job(k, signer)
  PROVE  EscrowInv'
<1> DEFINE new == [job[k] EXCEPT !.state = "Refunded"]
<1>1. job[k] \in Job /\ OneJobOK(k) /\ job \in [Jobs -> Job]
  BY JobFields
<1>2. job[k].exists /\ job[k].state \in Open /\ ClientOf(k) \in Users
  BY <1>1, ClientIsUser DEF cancel_job, CanCancel, Open
<1>3. /\ new \in Job /\ new.exists /\ new.agent = job[k].agent
      /\ new.price_micro = job[k].price_micro /\ new.state = "Refunded"
      /\ new.accepted_at = job[k].accepted_at /\ new.completed_at = job[k].completed_at
  BY <1>1, <1>2 DEF Job, JobState
<1>4. job' = [job EXCEPT ![k] = new] /\ UNCHANGED now
  BY <1>1 DEF cancel_job, CanCancel, SetState, Job
<1>5. VaultPays(k, ClientOf(k))
  BY DEF cancel_job, CanCancel
<1>6. \/ new.accepted_at = 0
      \/ new.completed_at = 0 /\ now >= new.accepted_at + Timeout
  BY <1>1, <1>3 DEF cancel_job, CanCancel, OneJobOK
<1> HIDE DEF new
<1> QED BY <1>2, <1>3, <1>4, <1>5, <1>6, SettleInv

LEMMA ResolveInv ==
  ASSUME EscrowInv, NEW k \in Jobs, NEW caller \in Users, resolve_dispute(k, caller)
  PROVE  EscrowInv'
<1> DEFINE new == [job[k] EXCEPT !.resolved_at = now, !.state = "Refunded"]
<1>1. job[k] \in Job /\ OneJobOK(k) /\ job \in [Jobs -> Job] /\ now \in Nat
  BY JobFields
<1>2. job[k].exists /\ job[k].state \in Open /\ ClientOf(k) \in Users
  BY <1>1, ClientIsUser DEF resolve_dispute, CanResolve, Open
<1>3. /\ new \in Job /\ new.exists /\ new.agent = job[k].agent
      /\ new.price_micro = job[k].price_micro /\ new.state = "Refunded"
      /\ new.accepted_at = job[k].accepted_at /\ new.completed_at = job[k].completed_at
      /\ new.resolved_at = now
  BY <1>1, <1>2 DEF Job, JobState
<1>4. job' = [job EXCEPT ![k] = new] /\ UNCHANGED now
  BY <1>1 DEF resolve_dispute, CanResolve, Job
<1>5. VaultPays(k, ClientOf(k))
  BY DEF resolve_dispute, CanResolve
<1>6. new.completed_at > 0 /\ new.resolved_at >= new.completed_at + Timeout
  BY <1>1, <1>3 DEF resolve_dispute, CanResolve, OneJobOK
<1> HIDE DEF new
<1> QED BY <1>2, <1>3, <1>4, <1>5, <1>6, SettleInv

LEMMA TickInv == EscrowInv /\ Tick => EscrowInv'
<1> SUFFICES ASSUME EscrowInv, Tick PROVE EscrowInv'
  OBVIOUS
<1>1. /\ now \in 1 .. MaxTime /\ now' \in 1 .. MaxTime /\ now <= now'
      /\ Timeout \in Nat /\ job \in [Jobs -> Job]
  BY EscrowConstantsOK DEF EscrowInv, TypeOK, Tick
<1>2. Shapes'
  BY <1>1, InvByJob DEF Shapes, Tick
<1>3. ASSUME NEW k \in Jobs PROVE OneJobOK(k)'
  <2>1. OneJobOK(k) /\ job[k] \in Job
    BY JobFields
  <2> QED BY <1>1, <2>1 DEF OneJobOK, Tick, Job
<1> QED
  BY <1>2, <1>3 DEF EscrowInv, TypeOK, JobShape, VaultBacksJob, RefundsRespectWindows,
                    OneJobOK, Shapes, Vaults

LEMMA EscrowNextInv == EscrowInv /\ [Next]_vars => EscrowInv'
<1> SUFFICES ASSUME EscrowInv, [Next]_vars PROVE EscrowInv'
  OBVIOUS
<1>1. CASE UNCHANGED vars
  BY <1>1 DEF vars, EscrowInv, TypeOK, JobShape, VaultBacksJob, RefundsRespectWindows
<1>2. CASE Next
  BY <1>2, TickInv, CreateInv, AcceptInv, CompleteInv, ReleaseInv, DisputeInv, CancelInv,
     ResolveInv, CloseInv DEF Next
<1> QED BY <1>1, <1>2

LEMMA EscrowInvariant == Spec => []EscrowInv
BY EscrowInitInv, EscrowNextInv, PTL DEF Spec

\* Jobs, vaults and balances keep their shape, and nothing is stamped in the
\* future (the instructions of lib.rs and their Clock reads).
THEOREM EscrowTyped == Spec => []TypeOK
<1>1. EscrowInv => TypeOK
  BY DEF EscrowInv
<1> QED BY <1>1, EscrowInvariant, PTL

\* The money of a job is in its vault exactly while the job is open, whoever
\* calls which instruction in which order: no job is settled twice and none is
\* closed over its price.
THEOREM EscrowBacked == Spec => []VaultBacksJob
<1>1. EscrowInv => VaultBacksJob
  BY DEF EscrowInv
<1> QED BY <1>1, EscrowInvariant, PTL

\* A refund is never early: not before the agent's whole window after accepting
\* and, after completing, not before a dispute's whole window (cancel_job,
\* resolve_dispute).
THEOREM WindowsRespected == Spec => []RefundsRespectWindows
<1>1. EscrowInv => RefundsRespectWindows
  BY DEF EscrowInv
<1> QED BY <1>1, EscrowInvariant, PTL

-----------------------------------------------------------------------------
(* The way out of a vault.  That somebody takes it needs fairness and stays  *)
(* with TLC (DisputesEnd, ClientNeverLockedOut); that there is one, and that *)
(* nobody can close or postpone it, does not.                                *)

\* What is left of a window that runs from `stamp`, at most a whole one.
WindowRuns(stamp) == stamp <= now /\ now < stamp + Timeout

MoneyHasAnExit ==
  \A k \in Jobs : vault[k].amount > 0 =>
    /\ job[k].exists /\ job[k].state \in Open
    /\ job[k].state = "Created" => CanCancel(k, ClientOf(k))
    /\ job[k].state = "Accepted" =>
         CanCancel(k, ClientOf(k)) \/ WindowRuns(job[k].accepted_at)
    /\ job[k].state = "Completed" => CanRelease(k, ClientOf(k)) /\ CanDispute(k, ClientOf(k))
    /\ job[k].state = "Disputed" =>
         (\A caller \in Users : CanResolve(k, caller)) \/ WindowRuns(job[k].completed_at)

\* At no moment is money stranded in a vault: every vault that holds some has its
\* job, and in each state somebody who wants it out either can get it out now, for
\* a disputed job anybody, or has to wait no longer than the window that is
\* running (cancel_job, release_payment, dispute_job and resolve_dispute, taken
\* together; close_job drops no account that money still depends on).
THEOREM NoMoneyStranded == Spec => []MoneyHasAnExit
<1>1. EscrowInv => MoneyHasAnExit
  <2> SUFFICES ASSUME EscrowInv, NEW k \in Jobs, vault[k].amount > 0
               PROVE  /\ job[k].exists /\ job[k].state \in Open
                      /\ job[k].state = "Created" => CanCancel(k, ClientOf(k))
                      /\ job[k].state = "Accepted" =>
                           CanCancel(k, ClientOf(k)) \/ WindowRuns(job[k].accepted_at)
                      /\ job[k].state = "Completed" =>
                           CanRelease(k, ClientOf(k)) /\ CanDispute(k, ClientOf(k))
                      /\ job[k].state = "Disputed" =>
                           \/ \A caller \in Users : CanResolve(k, caller)
                           \/ WindowRuns(job[k].completed_at)
    BY DEF MoneyHasAnExit
  <2>1. job[k].exists /\ job[k].state \in Open
    BY DEF EscrowInv, VaultBacksJob
  <2>2. VaultHoldsPrice(k)
    BY <2>1, OpenVault DEF VaultHoldsPrice
  <2>3. /\ job[k].accepted_at \in Nat /\ job[k].accepted_at <= now
        /\ job[k].completed_at \in Nat /\ job[k].completed_at <= now
        /\ now \in Nat /\ Timeout \in Nat
    BY EscrowConstantsOK DEF EscrowInv, TypeOK, Job
  <2>4. job[k].state = "Accepted" => CanCancel(k, ClientOf(k)) \/ WindowRuns(job[k].accepted_at)
    BY <2>1, <2>2, <2>3 DEF CanCancel, WindowRuns
  <2>5. job[k].state = "Disputed" => \/ \A caller \in Users : CanResolve(k, caller)
                                     \/ WindowRuns(job[k].completed_at)
    BY <2>1, <2>2, <2>3 DEF CanResolve, WindowRuns
  <2> QED BY <2>1, <2>2, <2>4, <2>5 DEF CanCancel, CanRelease, CanDispute
<1> QED BY <1>1, EscrowInvariant, PTL

\* What a step may do to the exits of a job: to stay one, to be the way the money
\* leaves, or, for a cancel, to be the agent's own next move.
Refunds(k) == job'[k].state = "Refunded" /\ vault'[k].amount = 0

ExitsStay(k) ==
  /\ (\E caller \in Users : CanResolve(k, caller)) =>
       (\A caller \in Users : CanResolve(k, caller))' \/ Refunds(k)
  /\ CanCancel(k, ClientOf(k)) =>
       \/ CanCancel(k, ClientOf(k))' \/ Refunds(k)
       \/ accept_job(k, job[k].agent) \/ complete_job(k, job[k].agent)
  /\ vault[k].amount > 0 /\ job'[k].state = job[k].state => job'[k] = job[k]

\* A step on one job leaves the exits of the others as they are.
LEMMA OtherExits ==
  ASSUME EscrowInv, NEW k \in Jobs, job'[k] = job[k], vault'[k] = vault[k],
         now' \in Nat, now <= now'
  PROVE  ExitsStay(k)
<1>1. /\ job[k].accepted_at + Timeout \in Nat /\ job[k].completed_at + Timeout \in Nat
      /\ now \in Nat
  BY EscrowConstantsOK DEF EscrowInv, TypeOK, Job
<1>2. VaultHoldsPrice(k)' <=> VaultHoldsPrice(k)
  BY DEF VaultHoldsPrice
<1>3. \A n \in Nat : now >= n => now' >= n
  BY <1>1
<1>4. ASSUME NEW caller \in Users, CanResolve(k, caller)
      PROVE  (\A other \in Users : CanResolve(k, other))'
  BY <1>1, <1>2, <1>3, <1>4 DEF CanResolve
<1>5. CanCancel(k, ClientOf(k)) => CanCancel(k, ClientOf(k))'
  BY <1>1, <1>2, <1>3 DEF CanCancel, ClientOf
<1> QED BY <1>4, <1>5 DEF ExitsStay

\* A refund takes the money and every exit with it.
LEMMA RefundExits ==
  ASSUME EscrowInv, NEW k \in Jobs, job[k].exists, job[k].state \in Open,
         VaultPays(k, ClientOf(k)), job'[k].state = "Refunded"
  PROVE  ExitsStay(k)
<1>1. vault' = [vault EXCEPT ![k].amount = 0]
  BY PaysWhole, ClientIsUser
<1>2. vault'[k].amount = 0
  BY <1>1 DEF EscrowInv, TypeOK
<1>3. job'[k].state # job[k].state
  BY DEF Open
<1> QED BY <1>2, <1>3 DEF ExitsStay, Refunds

LEMMA StepExits ==
  ASSUME EscrowInv, [Next]_vars, NEW k \in Jobs
  PROVE  ExitsStay(k)
<1>1. job \in [Jobs -> Job] /\ vault \in Vaults /\ now \in Nat /\ ClientOf(k) \in Users
  BY ClientIsUser DEF EscrowInv, TypeOK, Vaults
<1>2. now' \in Nat /\ now <= now'
  <2>1. now' = now \/ now' = now + 1
    BY DEF Next, vars, Tick, create_job, accept_job, complete_job, release_payment,
       dispute_job, cancel_job, resolve_dispute, close_job
  <2> QED BY <1>1, <2>1
<1>3. CASE Tick \/ UNCHANGED vars
  BY <1>2, <1>3, OtherExits DEF Tick, vars
<1>4. ASSUME NEW x \in Jobs, x # k, NEW signer \in Users,
             \/ accept_job(x, signer) \/ complete_job(x, signer) \/ release_payment(x, signer)
             \/ dispute_job(x, signer) \/ cancel_job(x, signer) \/ resolve_dispute(x, signer)
      PROVE  ExitsStay(k)
  <2>1. job'[k] = job[k]
    BY <1>1, <1>4 DEF accept_job, complete_job, release_payment, dispute_job, cancel_job,
       resolve_dispute, SetState
  <2>2. vault'[k] = vault[k]
    <3>1. CASE accept_job(x, signer) \/ complete_job(x, signer) \/ dispute_job(x, signer)
      BY <3>1 DEF accept_job, complete_job, dispute_job
    <3>2. CASE release_payment(x, signer) \/ cancel_job(x, signer) \/ resolve_dispute(x, signer)
      <4>1. \E user : VaultPays(x, user)
        BY <3>2 DEF release_payment, cancel_job, resolve_dispute
      <4> QED BY <1>1, <1>4, <4>1 DEF VaultPays, Vaults
    <3> QED BY <1>4, <3>1, <3>2
  <2> QED BY <1>2, <2>1, <2>2, OtherExits
<1>5. ASSUME NEW x \in Jobs, NEW agent \in Users, NEW price \in Prices, NEW mint \in Mints,
             create_job(x, agent, price, mint)
      PROVE  ExitsStay(k)
  <2>1. CASE x # k
    <3>1. job'[k] = job[k] /\ vault'[k] = vault[k]
      BY <1>1, <1>5, <2>1 DEF create_job
    <3> QED BY <1>2, <3>1, OtherExits
  <2>2. CASE x = k
    <3>1. ~job[k].exists
      BY <1>5, <2>2 DEF create_job, CanCreate
    <3>2. vault[k].amount = 0
      BY <3>1 DEF EscrowInv, VaultBacksJob
    <3> QED BY <3>1, <3>2 DEF ExitsStay, CanResolve, CanCancel
  <2> QED BY <2>1, <2>2
<1>6. ASSUME NEW x \in Jobs, close_job(x)
      PROVE  ExitsStay(k)
  <2>1. CASE x # k
    <3>1. job'[k] = job[k] /\ vault'[k] = vault[k]
      BY <1>1, <1>6, <2>1 DEF close_job
    <3> QED BY <1>2, <3>1, OtherExits
  <2>2. CASE x = k
    <3>1. job[k].state \in {"Released", "Refunded"}
      BY <1>6, <2>2 DEF close_job, CanClose
    <3>2. vault[k].amount = 0
      BY <3>1 DEF EscrowInv, VaultBacksJob, Open
    <3> QED BY <3>1, <3>2 DEF ExitsStay, CanResolve, CanCancel
  <2> QED BY <2>1, <2>2
<1>7. ASSUME NEW signer \in Users, accept_job(k, signer) \/ complete_job(k, signer)
      PROVE  ExitsStay(k)
  <2>1. signer = job[k].agent /\ job[k].state \in {"Created", "Accepted"}
    BY <1>7 DEF accept_job, CanAccept, complete_job, CanComplete
  <2>2. job'[k].state # job[k].state
    BY <1>1, <1>7 DEF accept_job, CanAccept, complete_job, CanComplete, Job
  <2> QED BY <1>7, <2>1, <2>2 DEF ExitsStay, CanResolve
<1>8. ASSUME NEW signer \in Users, release_payment(k, signer) \/ dispute_job(k, signer)
      PROVE  ExitsStay(k)
  <2>1. job[k].state = "Completed"
    BY <1>8 DEF release_payment, CanRelease, dispute_job, CanDispute
  <2>2. job'[k].state # job[k].state
    BY <1>1, <1>8, <2>1 DEF release_payment, dispute_job, SetState, Job
  <2> QED BY <2>1, <2>2 DEF ExitsStay, CanResolve, CanCancel
<1>9. ASSUME NEW signer \in Users, cancel_job(k, signer) \/ resolve_dispute(k, signer)
      PROVE  ExitsStay(k)
  <2>1. /\ job[k].exists /\ job[k].state \in Open
        /\ VaultPays(k, ClientOf(k))
    BY <1>9 DEF cancel_job, CanCancel, resolve_dispute, CanResolve, Open
  <2>2. job'[k].state = "Refunded"
    BY <1>1, <1>9 DEF cancel_job, resolve_dispute, SetState, Job
  <2> QED BY <2>1, <2>2, RefundExits
<1> QED BY <1>3, <1>4, <1>5, <1>6, <1>7, <1>8, <1>9 DEF Next

\* An exit that is open stays open until the money leaves by it: once a dispute
\* has timed out only the refund ends that anybody may resolve it, a cancel is
\* only ever overtaken by the agent's accept or complete, and no step restarts a
\* window that is running, so that the wait NoMoneyStranded speaks of is over
\* after one window (the races of cancel_job with complete_job and of dispute_job
\* with resolve_dispute).
THEOREM ExitsStayOpen == Spec => [][\A k \in Jobs : ExitsStay(k)]_vars
<1>1. EscrowInv /\ [Next]_vars => [\A k \in Jobs : ExitsStay(k)]_vars
  BY StepExits
<1> QED BY <1>1, EscrowInvariant, PTL DEF Spec

-----------------------------------------------------------------------------
(* The program implements EscrowContract: each instruction is one step of the *)
(* contract, or none (accept, dispute, and the clock).                        *)

absPhase == [k \in Jobs |-> PhaseOf(k)]
TermsOf(k) == IF job[k].exists
              THEN [agent |-> job[k].agent, price |-> job[k].price_micro,
                    mint |-> vault[k].mint]
              ELSE NoTerms
absTerms == [k \in Jobs |-> TermsOf(k)]
absPot == [k \in Jobs |-> vault[k].amount]

LEMMA SameJobs == Contract!Jobs = Jobs /\ \A k : Contract!ClientOf(k) = ClientOf(k)
BY DEF Contract!Jobs, Jobs, Contract!ClientOf, ClientOf

LEMMA InitRefines == Init => Contract!Init
BY SameJobs, EscrowConstantsOK DEF Init, Contract!Init, NoJob, PhaseOf

\* A step that changes one job and its vault changes one entry of each map.
LEMMA OneJobMaps ==
  ASSUME NEW k \in Jobs, \A x \in Jobs \ {k} : job'[x] = job[x] /\ vault'[x] = vault[x]
  PROVE  /\ absPhase' = [absPhase EXCEPT ![k] = PhaseOf(k)']
         /\ absTerms' = [absTerms EXCEPT ![k] = TermsOf(k)']
         /\ absPot' = [absPot EXCEPT ![k] = vault'[k].amount]
<1>1. \A x \in Jobs \ {k} : PhaseOf(x)' = PhaseOf(x)
  BY DEF PhaseOf
<1>2. \A x \in Jobs \ {k} : TermsOf(x)' = TermsOf(x)
  BY DEF TermsOf
<1>3. absPhase' = [absPhase EXCEPT ![k] = PhaseOf(k)']
  BY <1>1 DEF absPhase
<1>4. absTerms' = [absTerms EXCEPT ![k] = TermsOf(k)']
  BY <1>2 DEF absTerms
<1>5. absPot' = [absPot EXCEPT ![k] = vault'[k].amount]
  BY DEF absPot
<1> QED BY <1>3, <1>4, <1>5

\* Nothing of the job but stamps or a state of the same phase: a stutter.
LEMMA StutterRefines ==
  ASSUME EscrowInv, NEW k \in Jobs, UNCHANGED balance,
         \A x \in Jobs \ {k} : job'[x] = job[x] /\ vault'[x] = vault[x],
         PhaseOf(k)' = PhaseOf(k), TermsOf(k)' = TermsOf(k),
         vault'[k].amount = vault[k].amount
  PROVE  UNCHANGED Contract!contractVars
<1>1. absPhase' = [absPhase EXCEPT ![k] = PhaseOf(k)]
  BY OneJobMaps
<1>2. absTerms' = [absTerms EXCEPT ![k] = TermsOf(k)]
  BY OneJobMaps
<1>3. absPot' = [absPot EXCEPT ![k] = vault[k].amount]
  BY OneJobMaps
<1>4. absPhase' = absPhase
  BY <1>1 DEF absPhase
<1>5. absTerms' = absTerms
  BY <1>2 DEF absTerms
<1>6. absPot' = absPot
  BY <1>3 DEF absPot
<1> QED BY <1>4, <1>5, <1>6 DEF Contract!contractVars, absPhase, absTerms, absPot, TermsOf

LEMMA CreateRefines ==
  ASSUME EscrowInv, NEW k \in Jobs, NEW agent \in Users, NEW price \in Prices,
         NEW mint \in Mints, create_job(k, agent, price, mint)
  PROVE  Contract!Next
<1> DEFINE t == [agent |-> agent, price |-> price, mint |-> mint]
<1>1. job \in [Jobs -> Job] /\ vault \in Vaults
  BY DEF EscrowInv, TypeOK, Vaults
<1>2. /\ job'[k] = [NoJob EXCEPT !.exists = TRUE, !.agent = agent, !.price_micro = price]
      /\ vault'[k] = [exists |-> TRUE, mint |-> mint, amount |-> price]
      /\ \A x \in Jobs \ {k} : job'[x] = job[x] /\ vault'[x] = vault[x]
  BY <1>1 DEF create_job, CanCreate, Vaults
<1>3. /\ job'[k].exists /\ job'[k].state = "Created" /\ job'[k].agent = agent
      /\ job'[k].price_micro = price /\ vault'[k].exists
      /\ vault'[k].mint = mint /\ vault'[k].amount = price
  BY <1>2 DEF NoJob
<1>4. PhaseOf(k) = "none" /\ PhaseOf(k)' = "held" /\ TermsOf(k)' = t
  BY <1>3 DEF create_job, CanCreate, PhaseOf, TermsOf
<1>5. /\ absPhase' = [absPhase EXCEPT ![k] = PhaseOf(k)']
      /\ absTerms' = [absTerms EXCEPT ![k] = TermsOf(k)']
      /\ absPot' = [absPot EXCEPT ![k] = vault'[k].amount]
  BY <1>2, OneJobMaps
<1>6. absPhase[k] = "none"
  BY <1>4 DEF absPhase
<1>7. balance' = [balance EXCEPT ![<<ClientOf(k), mint>>] = @ - price]
  BY DEF create_job, CanCreate
<1>8. Contract!Fund(k, t)
  BY <1>3, <1>4, <1>5, <1>6, <1>7
     DEF Contract!Fund, Contract!ClientOf, ClientOf, absPhase, absTerms, absPot, TermsOf
<1>9. t \in Contract!Terms
  BY DEF Contract!Terms
<1> QED BY <1>8, <1>9, SameJobs DEF Contract!Next

LEMMA AcceptRefines ==
  ASSUME EscrowInv, NEW k \in Jobs, NEW signer \in Users, accept_job(k, signer)
  PROVE  UNCHANGED Contract!contractVars
<1>1. job \in [Jobs -> Job] /\ job[k] \in Job
  BY DEF EscrowInv, TypeOK
<1>2. /\ job'[k].exists /\ job'[k].state = "Accepted" /\ job'[k].agent = job[k].agent
      /\ job'[k].price_micro = job[k].price_micro
      /\ \A x \in Jobs \ {k} : job'[x] = job[x]
      /\ UNCHANGED <<vault, balance>>
  BY <1>1 DEF accept_job, CanAccept, Job
<1>3. PhaseOf(k)' = PhaseOf(k) /\ TermsOf(k)' = TermsOf(k)
  BY <1>2 DEF accept_job, CanAccept, PhaseOf, TermsOf
<1> QED BY <1>2, <1>3, StutterRefines

LEMMA DisputeRefines ==
  ASSUME EscrowInv, NEW k \in Jobs, NEW signer \in Users, dispute_job(k, signer)
  PROVE  UNCHANGED Contract!contractVars
<1>1. job \in [Jobs -> Job] /\ job[k] \in Job
  BY DEF EscrowInv, TypeOK
<1>2. /\ job'[k].exists /\ job'[k].state = "Disputed" /\ job'[k].agent = job[k].agent
      /\ job'[k].price_micro = job[k].price_micro
      /\ \A x \in Jobs \ {k} : job'[x] = job[x]
      /\ UNCHANGED <<vault, balance>>
  BY <1>1 DEF dispute_job, CanDispute, SetState, Job
<1>3. PhaseOf(k)' = PhaseOf(k) /\ TermsOf(k)' = TermsOf(k)
  BY <1>2 DEF dispute_job, CanDispute, PhaseOf, TermsOf
<1> QED BY <1>2, <1>3, StutterRefines

LEMMA CompleteRefines ==
  ASSUME EscrowInv, NEW k \in Jobs, NEW signer \in Users, complete_job(k, signer)
  PROVE  Contract!Next
<1>1. job \in [Jobs -> Job] /\ job[k] \in Job /\ OneJobOK(k)
  BY JobFields
<1>2. /\ job'[k].exists /\ job'[k].state = "Completed" /\ job'[k].agent = job[k].agent
      /\ job'[k].price_micro = job[k].price_micro
      /\ \A x \in Jobs \ {k} : job'[x] = job[x]
      /\ UNCHANGED <<vault, balance>>
  BY <1>1 DEF complete_job, CanComplete, Job
<1>3. PhaseOf(k) = "held" /\ PhaseOf(k)' = "delivered" /\ TermsOf(k)' = TermsOf(k)
  BY <1>1, <1>2 DEF complete_job, CanComplete, PhaseOf, TermsOf, OneJobOK
<1>4. /\ absPhase' = [absPhase EXCEPT ![k] = "delivered"]
      /\ absTerms' = [absTerms EXCEPT ![k] = TermsOf(k)]
      /\ absPot' = [absPot EXCEPT ![k] = vault[k].amount]
  BY <1>2, <1>3, OneJobMaps
<1>5. absPhase[k] = "held" /\ absTerms' = absTerms /\ absPot' = absPot
  BY <1>3, <1>4 DEF absPhase, absTerms, absPot
<1>6. Contract!Deliver(k)
  BY <1>2, <1>4, <1>5 DEF Contract!Deliver, absPhase, absTerms, absPot, TermsOf
<1> QED BY <1>6, SameJobs DEF Contract!Next

LEMMA CloseRefines ==
  ASSUME EscrowInv, NEW k \in Jobs, close_job(k)
  PROVE  Contract!Next
<1>1. job \in [Jobs -> Job] /\ OneJobOK(k)
  BY JobFields
<1>2. /\ ~job'[k].exists /\ \A x \in Jobs \ {k} : job'[x] = job[x]
      /\ UNCHANGED <<vault, balance>>
  BY <1>1 DEF close_job, CanClose, NoJob
<1>3. /\ PhaseOf(k) \in {"paid", "refunded"} /\ PhaseOf(k)' = "closed"
      /\ TermsOf(k)' = NoTerms
  BY <1>1, <1>2 DEF close_job, CanClose, PhaseOf, TermsOf, OneJobOK
<1>4. /\ absPhase' = [absPhase EXCEPT ![k] = "closed"]
      /\ absTerms' = [absTerms EXCEPT ![k] = NoTerms]
      /\ absPot' = [absPot EXCEPT ![k] = vault[k].amount]
  BY <1>2, <1>3, OneJobMaps
<1>5. absPhase[k] \in {"paid", "refunded"} /\ absPot' = absPot
  BY <1>3, <1>4 DEF absPhase, absPot
<1>6. Contract!Forget(k)
  BY <1>2, <1>4, <1>5 DEF Contract!Forget, absPhase, absTerms, absPot, TermsOf
<1> QED BY <1>6, SameJobs DEF Contract!Next

\* Release, cancel and resolve, as steps of the contract.
LEMMA SettleRefines ==
  ASSUME EscrowInv, NEW k \in Jobs, NEW user \in Users, NEW outcome,
         job[k].exists, job[k].state \in Open, VaultPays(k, user),
         job'[k].exists, job'[k].agent = job[k].agent,
         job'[k].price_micro = job[k].price_micro,
         \A x \in Jobs \ {k} : job'[x] = job[x],
         PhaseOf(k)' = outcome
  PROVE  Contract!Settle(k, outcome, user)
<1>1. /\ vault' = [vault EXCEPT ![k].amount = 0]
      /\ balance' = [balance EXCEPT ![<<user, vault[k].mint>>] = @ + job[k].price_micro]
  BY PaysWhole
<1>2. vault \in Vaults
  BY DEF EscrowInv, TypeOK, Vaults
<1>3. /\ vault'[k].amount = 0 /\ vault'[k].mint = vault[k].mint
      /\ \A x \in Jobs \ {k} : vault'[x] = vault[x]
  BY <1>1, <1>2 DEF Vaults
<1>4. TermsOf(k)' = TermsOf(k)
  BY <1>3 DEF TermsOf
<1>5. /\ absPhase' = [absPhase EXCEPT ![k] = outcome]
      /\ absTerms' = [absTerms EXCEPT ![k] = TermsOf(k)]
      /\ absPot' = [absPot EXCEPT ![k] = 0]
  BY <1>3, <1>4, OneJobMaps
<1>6. absTerms' = absTerms
  BY <1>5 DEF absTerms
<1>7. absTerms[k].mint = vault[k].mint /\ absTerms[k].price = job[k].price_micro
  BY DEF absTerms, TermsOf
<1>8. balance' = [balance EXCEPT ![<<user, absTerms[k].mint>>] = @ + absTerms[k].price]
  BY <1>1, <1>7
<1> QED
  BY <1>5, <1>6, <1>8 DEF Contract!Settle, absPhase, absTerms, absPot, TermsOf

LEMMA ReleaseRefines ==
  ASSUME EscrowInv, NEW k \in Jobs, NEW signer \in Users, release_payment(k, signer)
  PROVE  Contract!Next
<1>1. job \in [Jobs -> Job] /\ job[k] \in Job /\ OneJobOK(k)
  BY JobFields
<1>2. job[k].exists /\ job[k].state \in Open /\ job[k].agent \in Users /\ vault[k].exists
  BY <1>1 DEF release_payment, CanRelease, OneJobOK, Open
<1>3. /\ job'[k].exists /\ job'[k].state = "Released" /\ job'[k].agent = job[k].agent
      /\ job'[k].price_micro = job[k].price_micro
      /\ \A x \in Jobs \ {k} : job'[x] = job[x]
  BY <1>1, <1>2 DEF release_payment, CanRelease, SetState, Job
<1>4. vault'[k].exists
  BY <1>2 DEF release_payment, CanRelease, VaultPays, EscrowInv, TypeOK
<1>5. PhaseOf(k) = "delivered" /\ PhaseOf(k)' = "paid"
  BY <1>2, <1>3, <1>4 DEF release_payment, CanRelease, PhaseOf
<1>6. PICK payee \in Users : payee = job[k].agent
  BY <1>2
<1>7. VaultPays(k, payee)
  BY <1>6 DEF release_payment, CanRelease, VaultPays
<1>8. Contract!Settle(k, "paid", payee)
  BY <1>2, <1>3, <1>5, <1>7, SettleRefines
<1>9. absTerms[k].agent = payee /\ absPhase[k] = "delivered"
  BY <1>2, <1>5, <1>6 DEF absTerms, TermsOf, absPhase
<1>10. Contract!Pay(k)
  BY <1>8, <1>9 DEF Contract!Pay, Contract!Settle, absPhase, absTerms, TermsOf
<1> QED BY <1>10, SameJobs DEF Contract!Next

LEMMA RefundRefines ==
  ASSUME EscrowInv, NEW k \in Jobs, job[k].exists, job[k].state \in Open,
         VaultPays(k, ClientOf(k)),
         job'[k].exists, job'[k].state = "Refunded", job'[k].agent = job[k].agent,
         job'[k].price_micro = job[k].price_micro,
         \A x \in Jobs \ {k} : job'[x] = job[x]
  PROVE  Contract!Next
<1>1. OneJobOK(k) /\ ClientOf(k) \in Users
  BY JobFields, ClientIsUser
<1>2. vault[k].exists /\ vault'[k].exists
  BY <1>1 DEF OneJobOK, VaultPays, EscrowInv, TypeOK
<1>3. PhaseOf(k) \in {"held", "delivered"} /\ PhaseOf(k)' = "refunded"
  BY <1>2 DEF PhaseOf, Open
<1>4. Contract!Settle(k, "refunded", ClientOf(k))
  BY <1>1, <1>3, SettleRefines
<1>5. Contract!Refund(k)
  BY <1>3, <1>4, SameJobs DEF Contract!Refund
<1> QED BY <1>5, SameJobs DEF Contract!Next

LEMMA CancelRefines ==
  ASSUME EscrowInv, NEW k \in Jobs, NEW signer \in Users, cancel_job(k, signer)
  PROVE  Contract!Next
<1>1. job \in [Jobs -> Job] /\ job[k] \in Job
  BY JobFields
<1>2. /\ job[k].exists /\ job[k].state \in Open /\ VaultPays(k, ClientOf(k))
      /\ job'[k].exists /\ job'[k].state = "Refunded" /\ job'[k].agent = job[k].agent
      /\ job'[k].price_micro = job[k].price_micro
      /\ \A x \in Jobs \ {k} : job'[x] = job[x]
  BY <1>1 DEF cancel_job, CanCancel, SetState, Job, Open
<1> QED BY <1>2, RefundRefines

LEMMA ResolveRefines ==
  ASSUME EscrowInv, NEW k \in Jobs, NEW caller \in Users, resolve_dispute(k, caller)
  PROVE  Contract!Next
<1>1. job \in [Jobs -> Job] /\ job[k] \in Job
  BY JobFields
<1>2. /\ job[k].exists /\ job[k].state \in Open /\ VaultPays(k, ClientOf(k))
      /\ job'[k].exists /\ job'[k].state = "Refunded" /\ job'[k].agent = job[k].agent
      /\ job'[k].price_micro = job[k].price_micro
      /\ \A x \in Jobs \ {k} : job'[x] = job[x]
  BY <1>1 DEF resolve_dispute, CanResolve, Job, Open
<1> QED BY <1>2, RefundRefines

LEMMA NextRefines ==
  ASSUME EscrowInv, [Next]_vars
  PROVE  [Contract!Next]_(Contract!contractVars)
<1>1. CASE UNCHANGED vars \/ Tick
  <2>1. UNCHANGED <<job, vault, balance>>
    BY <1>1 DEF vars, Tick
  <2>2. absPhase' = absPhase
    BY <2>1 DEF absPhase, PhaseOf
  <2>3. absTerms' = absTerms /\ absPot' = absPot
    BY <2>1 DEF absTerms, TermsOf, absPot
  <2> QED BY <2>1, <2>2, <2>3 DEF Contract!contractVars, absPhase, absTerms, absPot, TermsOf
<1>2. CASE Next /\ ~Tick
  BY <1>2, CreateRefines, AcceptRefines, CompleteRefines, ReleaseRefines, DisputeRefines,
     CancelRefines, ResolveRefines, CloseRefines DEF Next
<1> QED BY <1>1, <1>2

\* The escrow program does what EscrowContract promises, for all jobs at once:
\* the price leaves the client once and goes once and in full to the agent who
\* delivered or back (lib.rs, create_job to close_job).
THEOREM EscrowImplements == Spec => ImplementsContract
<1>1. EscrowInv /\ [Next]_vars => [Contract!Next]_(Contract!contractVars)
  BY NextRefines
<1> QED BY <1>1, InitRefines, EscrowInvariant, PTL DEF Spec, Contract!Spec, ImplementsContract

-----------------------------------------------------------------------------
(* The messaging program: whatever the writers, the nonces and the number  *)
(* of messages, a message is kept until its recipient ends it.             *)
(* KeptUntilEnded is inductive beside the type invariant: `init` finds a PDA *)
(* free only if everything sent to it was ended, and the two other         *)
(* instructions are signed by the recipient and end what is there.         *)

\* MsgTypeOK with any set of bodies: a page seals what it sends, and callers of
\* the program need not.
TypedWith(bodies) ==
  /\ message \in [Messages -> [exists : BOOLEAN, body : bodies \cup {NoBody}]]
  /\ lamports \in [Writers -> Nat]
  /\ posted \in [Messages -> Seq(bodies)]
  /\ ended \in [Messages -> Nat]
  /\ \A m \in Messages : ended[m] <= Len(posted[m])

MsgInv(bodies) == TypedWith(bodies) /\ KeptUntilEnded

LEMMA MessageParties ==
  ASSUME NEW m \in Messages
  PROVE  From(m) \in Writers /\ To(m) \in Writers
BY MsgConstants DEF Messages, From, To

LEMMA MsgInitInv ==
  ASSUME NEW bodies, MsgInit
  PROVE  MsgInv(bodies)
BY MsgConstants DEF MsgInit, MsgInv, TypedWith, KeptUntilEnded, NoMessage

\* A PDA without an account has nothing on it that is not ended.
LEMMA FreeIsEnded ==
  ASSUME NEW bodies, MsgInv(bodies), NEW m \in Messages, ~message[m].exists
  PROVE  ended[m] = Len(posted[m])
<1>1. Len(posted[m]) \in Nat /\ ended[m] \in Nat /\ ended[m] <= Len(posted[m])
  BY DEF MsgInv, TypedWith
<1>2. ~(ended[m] < Len(posted[m]))
  BY DEF MsgInv, KeptUntilEnded
<1> QED BY <1>1, <1>2

LEMMA SendKeeps ==
  ASSUME NEW bodies, MsgInv(bodies), NEW m \in Messages, NEW body \in bodies, send(m, body)
  PROVE  MsgInv(bodies)'
<1>1. posted[m] \in Seq(bodies) /\ lamports[From(m)] \in Nat /\ ended[m] \in Nat
  BY MessageParties DEF MsgInv, TypedWith
<1>2. /\ Append(posted[m], body) \in Seq(bodies)
      /\ Len(Append(posted[m], body)) = Len(posted[m]) + 1
      /\ Append(posted[m], body)[Len(posted[m]) + 1] = body
      /\ Len(posted[m]) \in Nat
  BY <1>1
<1>3. ended[m] = Len(posted[m])
  BY FreeIsEnded DEF send
<1>4. TypedWith(bodies)'
  <2>1. lamports[From(m)] - 1 \in Nat
    BY <1>1 DEF send
  <2>2. message' \in [Messages -> [exists : BOOLEAN, body : bodies \cup {NoBody}]]
    BY DEF send, MsgInv, TypedWith
  <2>3. lamports' \in [Writers -> Nat]
    BY <2>1 DEF send, MsgInv, TypedWith
  <2>4. posted' \in [Messages -> Seq(bodies)] /\ ended' \in [Messages -> Nat]
    BY <1>2 DEF send, MsgInv, TypedWith
  <2>5. ASSUME NEW x \in Messages PROVE ended'[x] <= Len(posted'[x])
    <3>1. CASE x = m
      BY <3>1, <1>2, <1>3 DEF send, MsgInv, TypedWith
    <3>2. CASE x # m
      BY <3>2 DEF send, MsgInv, TypedWith
    <3> QED BY <3>1, <3>2
  <2> QED BY <2>2, <2>3, <2>4, <2>5 DEF TypedWith
<1>5. KeptUntilEnded'
  <2> SUFFICES ASSUME NEW x \in Messages, ended'[x] < Len(posted'[x])
               PROVE  /\ ended'[x] = Len(posted'[x]) - 1
                      /\ message'[x].exists /\ message'[x].body = posted'[x][Len(posted'[x])]
    BY DEF KeptUntilEnded
  <2>1. CASE x = m
    BY <2>1, <1>2, <1>3 DEF send, MsgInv, TypedWith
  <2>2. CASE x # m
    BY <2>2 DEF send, MsgInv, TypedWith, KeptUntilEnded
  <2> QED BY <2>1, <2>2
<1> QED BY <1>4, <1>5 DEF MsgInv

\* The two instructions the recipient signs: everything sent to m is ended, and
\* nothing else is touched.
LEMMA EndKeeps ==
  ASSUME NEW bodies, MsgInv(bodies), NEW m \in Messages,
         message' \in [Messages -> [exists : BOOLEAN, body : bodies \cup {NoBody}]],
         \A x \in Messages \ {m} : message'[x] = message[x],
         lamports' \in [Writers -> Nat],
         Signs(m, To(m)), UNCHANGED posted
  PROVE  MsgInv(bodies)'
<1>1. /\ ended' = [ended EXCEPT ![m] = Len(posted[m])]
      /\ Len(posted[m]) \in Nat
  BY DEF Signs, MsgInv, TypedWith
<1>2. TypedWith(bodies)'
  BY <1>1 DEF MsgInv, TypedWith
<1>3. KeptUntilEnded'
  BY <1>1 DEF MsgInv, TypedWith, KeptUntilEnded
<1> QED BY <1>2, <1>3 DEF MsgInv

LEMMA DeleteKeeps ==
  ASSUME NEW bodies, MsgInv(bodies), NEW m \in Messages, NEW signer \in Writers,
         delete(m, signer)
  PROVE  MsgInv(bodies)'
<1>1. /\ message' \in [Messages -> [exists : BOOLEAN, body : bodies \cup {NoBody}]]
      /\ \A x \in Messages \ {m} : message'[x] = message[x]
      /\ lamports' \in [Writers -> Nat]
  BY DEF delete, MsgInv, TypedWith
<1> QED BY <1>1, EndKeeps DEF delete

LEMMA CloseKeeps ==
  ASSUME NEW bodies, MsgInv(bodies), NEW m \in Messages, NEW signer \in Writers,
         close(m, signer)
  PROVE  MsgInv(bodies)'
<1>1. /\ message' \in [Messages -> [exists : BOOLEAN, body : bodies \cup {NoBody}]]
      /\ \A x \in Messages \ {m} : message'[x] = message[x]
      /\ lamports' \in [Writers -> Nat]
  BY DEF close, NoMessage, MsgInv, TypedWith
<1> QED BY <1>1, EndKeeps DEF close

LEMMA NothingMoves ==
  ASSUME NEW bodies, MsgInv(bodies), UNCHANGED msgVars
  PROVE  MsgInv(bodies)'
BY DEF msgVars, MsgInv, TypedWith, KeptUntilEnded

LEMMA MsgInvariant == MsgSpec => []MsgInv(Bodies)
<1>1. MsgInit => MsgInv(Bodies)
  BY MsgInitInv
<1>2. MsgInv(Bodies) /\ [MsgNext]_msgVars => MsgInv(Bodies)'
  BY NothingMoves, SendKeeps, DeleteKeeps, CloseKeeps DEF MsgNext
<1> QED BY <1>1, <1>2, PTL DEF MsgSpec

-----------------------------------------------------------------------------
\* Messages keep their shape, and no more of a PDA's messages are ended than
\* were sent to it (the accounts of lib.rs Send, Delete and Close).
THEOREM MessagesTyped == MsgSpec => []MsgTypeOK
<1>1. MsgInv(Bodies) => MsgTypeOK
  BY DEF MsgInv, TypedWith, MsgTypeOK
<1> QED BY <1>1, MsgInvariant, PTL

\* No order of sends, deletes and closes by any signers loses or replaces a
\* message its recipient has not ended, for any number of them (lib.rs: the
\* seeds, `init`, and the `to` of Delete and Close).
THEOREM MessagesKept == MsgSpec => []KeptUntilEnded
<1>1. MsgInv(Bodies) => KeptUntilEnded
  BY DEF MsgInv
<1> QED BY <1>1, MsgInvariant, PTL

-----------------------------------------------------------------------------
(* What the pages send                                                      *)

Steps == {"idle", "signing", "polling", "height", "lastCheck"}
SentBodies == Bodies \cup {encryptMsgBody(text, passphrase) :
                             text \in Texts, passphrase \in Passphrases}
MailBodies == SentBodies \cup {NoBody}

EscrowIxs == [action : Actions, k : Jobs]
             \cup [action : {"create"}, k : Jobs, agent : Users, price : Prices]
MailIxs == [action : {"send"}, m : Messages, body : SentBodies]
           \cup [action : {"delete"}, m : Messages, body : MailBodies]
Submissions ==
  [pc : Steps, ix : {NoIx} \cup EscrowIxs \cup MailIxs,
   tx : {"none", "pending", "ok", "failed"}, expired : BOOLEAN,
   report : {"none", "success", "failed", "expired", "error"}]

\* A button was pressed, and its instruction is the page's.
Asked == submission.pc # "idle" \/ submission.tx # "none"
IxOfPage == Asked => submission.ix \in IF page = "escrow" THEN EscrowIxs ELSE MailIxs

\* While sendAndConfirm runs nothing is reported, and before it has sent nothing
\* can land; its last look comes after the window.
ConfirmInv ==
  /\ submission \in Submissions /\ page \in {"escrow", "messaging"} /\ IxOfPage
  /\ submission.pc # "idle" => submission.report = "none"
  /\ submission.pc = "signing" => submission.tx = "none"
  /\ submission.pc = "lastCheck" => submission.expired
  /\ ReportsAreTrue

-----------------------------------------------------------------------------
(* sendAndConfirm *)

\* The steps of ConfirmTx that touch only the submission.
SendSteps == Broadcast \/ Confirming \/ WindowPasses \/ Forget
             \/ \E how \in {"ok", "failed"} : Lands(how)

LEMMA NothingSentTyped == NothingSent \in Submissions
BY DEF NothingSent, Submissions, Steps

LEMMA SendStepConfirm ==
  ASSUME ConfirmInv, SendSteps, UNCHANGED page
  PROVE  ConfirmInv' /\ submission'.ix = submission.ix
<1> USE DEF ConfirmInv, ReportsAreTrue, InFlight, IxOfPage, Asked, Submissions, Steps, At,
            Goto, Report
<1>1. CASE Broadcast
  BY <1>1 DEF Broadcast
<1>2. CASE Forget
  BY <1>2 DEF Forget
<1>3. CASE WindowPasses
  BY <1>3 DEF WindowPasses
<1>4. CASE \E how \in {"ok", "failed"} : Lands(how)
  BY <1>4 DEF Lands
<1>5. CASE NotSent \/ RpcThrows \/ PollPending \/ StillValid \/ WindowGone
  BY <1>5 DEF NotSent, RpcThrows, PollPending, StillValid, WindowGone
<1>6. CASE PollConfirmed \/ PollFailed \/ LastCheck
  BY <1>6 DEF PollConfirmed, PollFailed, LastCheck
<1> QED BY <1>1, <1>2, <1>3, <1>4, <1>5, <1>6 DEF SendSteps, Confirming

\* Nothing is asked, and nothing takes effect, but by a button and a landing.
LEMMA SendStepAsked ==
  ASSUME ConfirmInv, SendSteps
  PROVE  /\ Asked' => Asked
         /\ submission'.tx = "ok" => submission.tx = "ok" \/ Lands("ok")
BY DEF SendSteps, Asked, ConfirmInv, Submissions, Steps, Broadcast, Confirming, WindowPasses,
       Forget, Lands, InFlight, NotSent, RpcThrows, PollPending, StillValid, WindowGone,
       PollConfirmed, PollFailed, LastCheck, At, Goto, Report

\* A button pressed, or a send that throws before anything is sent.
LEMMA SubmitConfirm ==
  ASSUME ConfirmInv, UNCHANGED page,
         NEW ix \in IF page = "escrow" THEN EscrowIxs ELSE MailIxs, Submit(ix)
  PROVE  ConfirmInv' /\ submission'.ix = ix /\ submission'.tx = "none"
BY DEF Submit, NothingSent, ConfirmInv, ReportsAreTrue, InFlight, IxOfPage, Asked, Submissions,
       Steps, At

LEMMA ThrowConfirm ==
  ASSUME ConfirmInv, UNCHANGED page, submission' = [NothingSent EXCEPT !.report = "error"]
  PROVE  ConfirmInv' /\ ~Asked' /\ submission'.tx = "none"
BY DEF NothingSent, ConfirmInv, ReportsAreTrue, InFlight, IxOfPage, Asked, Submissions, Steps

-----------------------------------------------------------------------------
(* The escrow page                                                          *)

\* The two instructions the program takes from anyone are only ever sent by the
\* client, to whom their buttons were shown.
ClickInv ==
  page = "escrow" /\ Asked /\ submission.ix.action \in {"close", "resolve"} =>
    visitor = ClientOf(submission.ix.k)

LEMMA SameSubmission ==
  ASSUME ConfirmInv, ClickInv, UNCHANGED <<page, visitor, submission>>
  PROVE  ConfirmInv' /\ ClickInv'
BY DEF ConfirmInv, ClickInv, ReportsAreTrue, InFlight, IxOfPage, Asked

LEMMA SendStepClick ==
  ASSUME ConfirmInv, ClickInv, SendSteps, UNCHANGED <<page, visitor>>
  PROVE  ConfirmInv' /\ ClickInv'
<1>1. ConfirmInv' /\ submission'.ix = submission.ix
  BY SendStepConfirm
<1>2. Asked' => Asked
  BY SendStepAsked
<1> QED BY <1>1, <1>2 DEF ClickInv

\* What is sent was on offer.
LEMMA ButtonClick ==
  ASSUME ConfirmInv, page = "escrow", UNCHANGED page,
         NEW k \in Jobs, NEW action \in Actions, HandleAction(k, action)
  PROVE  ConfirmInv' /\ ClickInv'
<1> DEFINE ix == [action |-> action, k |-> k]
<1>1. ix \in EscrowIxs
  BY DEF EscrowIxs
<1>2. ConfirmInv' /\ submission'.ix = ix
  BY <1>1, SubmitConfirm DEF HandleAction
<1>3. action \in {"close", "resolve"} => visitor = ClientOf(k)
  BY DEF HandleAction, Offered
<1>4. UNCHANGED visitor
  BY DEF HandleAction
<1> QED BY <1>2, <1>3, <1>4 DEF ClickInv

LEMMA CreateClick ==
  ASSUME ConfirmInv, page = "escrow", UNCHANGED page, NEW k \in Jobs, NEW agent \in Users,
         NEW price \in Prices, HandleCreate(k, agent, price)
  PROVE  ConfirmInv' /\ ClickInv'
<1> DEFINE ix == [action |-> "create", k |-> k, agent |-> agent, price |-> price]
<1>1. ix \in EscrowIxs
  BY DEF EscrowIxs
<1>2. ConfirmInv' /\ submission'.ix = ix
  BY <1>1, SubmitConfirm DEF HandleCreate
<1> QED BY <1>2 DEF ClickInv

\* What a step of the escrow page does to the submission.
LEMMA EscrowSteps ==
  ASSUME PagesNext
  PROVE  /\ UNCHANGED visitor
         /\ \/ UNCHANGED submission
            \/ SendSteps
            \/ \E k \in Jobs, action \in Actions : HandleAction(k, action)
            \/ \E k \in Jobs, agent \in Users, price \in Prices : HandleCreate(k, agent, price)
<1>1. CASE Elsewhere
  BY <1>1 DEF Elsewhere, pageVars
<1>2. CASE FetchJobs \/ CreateForm \/ RowButtons
  BY <1>2 DEF FetchJobs, CreateForm, RowButtons, HandleAction, HandleCreate
<1>3. CASE Reload \/ Confirm \/ Expire
  BY <1>3 DEF Reload, Confirm, Expire, SendSteps
<1>4. CASE SendRaw \/ LandOk \/ LandFailed
  BY <1>4 DEF SendRaw, LandOk, LandFailed, SendSteps
<1> QED BY <1>1, <1>2, <1>3, <1>4 DEF PagesNext, PageStep

LEMMA EscrowStepInv ==
  ASSUME ConfirmInv, ClickInv, OnEscrow(PagesNext)
  PROVE  ConfirmInv' /\ ClickInv'
BY EscrowSteps, SameSubmission, SendStepClick, ButtonClick, CreateClick DEF OnEscrow

-----------------------------------------------------------------------------
(* The messaging page                                                       *)

MailTypeOK ==
  /\ message \in [Messages -> [exists : BOOLEAN, body : MailBodies]]
  /\ posted \in [Messages -> Seq(SentBodies)]
  /\ ended \in [Messages -> Nat]
  /\ inbox \in [Messages -> MailBodies \cup {NoRow}]
  /\ decrypted \in [Messages -> MailBodies]

In(body, bodies) == \E i \in 1 .. Len(bodies) : bodies[i] = body

\* Bodies on chain and rows of the inbox are emptied or were posted; a row or a
\* text is only ever one of a message to the visitor.
InboxInv ==
  /\ \A m \in Messages : message[m].exists =>
       message[m].body = NoBody \/ In(message[m].body, posted[m])
  /\ \A m \in Messages : inbox[m] # NoRow =>
       To(m) = visitor /\ (inbox[m] = NoBody \/ In(inbox[m], posted[m]))
  /\ \A m \in Messages : decrypted[m] # NoBody =>
       To(m) = visitor /\ In(decrypted[m], posted[m])

\* A message the page sends is one only this page can send; once it landed it is
\* there until its recipient ends it.
Readable(m, body) ==
  ended[m] = Len(posted[m]) \/ (message[m].exists /\ message[m].body = body)
SentInv ==
  page = "messaging" /\ Asked /\ submission.ix.action = "send" =>
    /\ From(submission.ix.m) = visitor
    /\ submission.tx = "ok" => Readable(submission.ix.m, submission.ix.body)

MailInv == MailTypeOK /\ InboxInv /\ SentInv

LEMMA SealedBodies == NoBody \notin SentBodies
BY MsgConstants, MessagingConstants DEF SentBodies

\* Posting only adds.
LEMMA InAppend ==
  ASSUME NEW bodies \in Seq(SentBodies), NEW body \in SentBodies
  PROVE  /\ Append(bodies, body) \in Seq(SentBodies)
         /\ Len(Append(bodies, body)) = Len(bodies) + 1 /\ Len(bodies) \in Nat
         /\ In(body, Append(bodies, body))
         /\ \A b : In(b, bodies) => In(b, Append(bodies, body))
<1>1. /\ Append(bodies, body) \in Seq(SentBodies)
      /\ Len(Append(bodies, body)) = Len(bodies) + 1 /\ Len(bodies) \in Nat
      /\ Append(bodies, body)[Len(bodies) + 1] = body
      /\ \A i \in 1 .. Len(bodies) : Append(bodies, body)[i] = bodies[i]
  OBVIOUS
<1>2. In(body, Append(bodies, body))
  BY <1>1 DEF In
<1>3. \A b : In(b, bodies) => In(b, Append(bodies, body))
  BY <1>1 DEF In
<1> QED BY <1>1, <1>2, <1>3

\* The three instructions of the program, by anybody.
Calls(m, body) ==
  send(m, body) \/ \E signer \in Writers : delete(m, signer) \/ close(m, signer)

LEMMA CallTyped ==
  ASSUME MailTypeOK, NEW m \in Messages, NEW body, Calls(m, body),
         send(m, body) => body \in SentBodies,
         UNCHANGED <<inbox, decrypted>>
  PROVE  /\ MailTypeOK'
         /\ \A x \in Messages : \A b : In(b, posted[x]) => In(b, posted'[x])
<1>1. posted[m] \in Seq(SentBodies) /\ Len(posted[m]) \in Nat
  BY DEF MailTypeOK
<1>2. (body \in SentBodies => body \in MailBodies) /\ NoBody \in MailBodies
  BY DEF MailBodies
<1>3. CASE send(m, body)
  <2>1. body \in SentBodies /\ Append(posted[m], body) \in Seq(SentBodies)
    BY <1>1, <1>3, InAppend
  <2>2. MailTypeOK'
    BY <1>2, <1>3, <2>1 DEF send, MailTypeOK
  <2>3. ASSUME NEW x \in Messages, NEW b, In(b, posted[x]) PROVE In(b, posted'[x])
    BY <1>1, <1>3, <2>3, InAppend DEF send, MailTypeOK
  <2> QED BY <2>2, <2>3
<1>4. ASSUME NEW signer \in Writers, delete(m, signer) \/ close(m, signer)
      PROVE  MailTypeOK' /\ posted' = posted
  <2>1. message' \in [Messages -> [exists : BOOLEAN, body : MailBodies]]
    <3>1. message[m] \in [exists : BOOLEAN, body : MailBodies]
      BY DEF MailTypeOK
    <3>2. CASE delete(m, signer)
      <4>1. message' = [message EXCEPT ![m] = [message[m] EXCEPT !.body = NoBody]]
        BY <3>1, <3>2 DEF delete, MailTypeOK
      <4>2. [message[m] EXCEPT !.body = NoBody] \in [exists : BOOLEAN, body : MailBodies]
        BY <1>2, <3>1
      <4> QED BY <4>1, <4>2 DEF MailTypeOK
    <3>3. CASE close(m, signer)
      <4>1. NoMessage \in [exists : BOOLEAN, body : MailBodies]
        BY <1>2 DEF NoMessage
      <4> QED BY <3>3, <4>1 DEF close, MailTypeOK
    <3> QED BY <1>4, <3>2, <3>3
  <2>2. posted' = posted /\ Signs(m, signer)
    BY <1>4 DEF delete, close
  <2>3. ended' \in [Messages -> Nat]
    BY <1>1, <2>2 DEF Signs, MailTypeOK
  <2> QED BY <2>1, <2>2, <2>3 DEF MailTypeOK
<1> QED BY <1>3, <1>4 DEF Calls

LEMMA CallInbox ==
  ASSUME MailTypeOK, InboxInv, NEW m \in Messages, NEW body, Calls(m, body),
         send(m, body) => body \in SentBodies,
         UNCHANGED <<visitor, inbox, decrypted>>
  PROVE  InboxInv'
<1>1. \A x \in Messages : \A b : In(b, posted[x]) => In(b, posted'[x])
  BY CallTyped
<1>2. ASSUME NEW x \in Messages, message'[x].exists
      PROVE  message'[x].body = NoBody \/ In(message'[x].body, posted'[x])
  <2>1. CASE send(m, body) /\ x = m
    <3>1. posted[m] \in Seq(SentBodies)
      BY DEF MailTypeOK
    <3>2. posted'[m] = Append(posted[m], body) /\ message'[m].body = body
      BY <2>1 DEF send, MailTypeOK
    <3> QED BY <2>1, <3>1, <3>2, InAppend
  <2>2. CASE ~(send(m, body) /\ x = m)
    <3>1. message'[x].body = NoBody
          \/ (message[x].exists /\ message'[x].body = message[x].body)
      <4>1. CASE x = m
        <5>1. PICK signer \in Writers : delete(m, signer) \/ close(m, signer)
          BY <2>2, <4>1 DEF Calls
        <5> QED BY <1>2, <4>1, <5>1 DEF delete, close, NoMessage, MailTypeOK
      <4>2. CASE x # m
        <5>1. message'[x] = message[x]
          BY <4>2 DEF Calls, send, delete, close, MailTypeOK
        <5> QED BY <1>2, <5>1
      <4> QED BY <4>1, <4>2
    <3> QED BY <1>1, <3>1 DEF InboxInv
  <2> QED BY <2>1, <2>2
<1>3. ASSUME NEW x \in Messages, inbox'[x] # NoRow
      PROVE  To(x) = visitor' /\ (inbox'[x] = NoBody \/ In(inbox'[x], posted'[x]))
  BY <1>1, <1>3 DEF InboxInv
<1>4. ASSUME NEW x \in Messages, decrypted'[x] # NoBody
      PROVE  To(x) = visitor' /\ In(decrypted'[x], posted'[x])
  BY <1>1, <1>4 DEF InboxInv
<1> QED BY <1>2, <1>3, <1>4 DEF InboxInv

\* Nobody but its sender and its recipient can touch a message that is there.
LEMMA CallReadable ==
  ASSUME MailTypeOK, NEW m \in Messages, NEW body, Calls(m, body),
         NEW x \in Messages, NEW b, Readable(x, b), send(m, body) => m # x
  PROVE  Readable(x, b)'
<1>1. posted[m] \in Seq(SentBodies) /\ Len(posted[m]) \in Nat
  BY DEF MailTypeOK
<1>2. CASE m # x
  <2>1. ended'[x] = ended[x] /\ posted'[x] = posted[x] /\ message'[x] = message[x]
    BY <1>2 DEF Calls, send, delete, close, Signs, MailTypeOK
  <2> QED BY <2>1 DEF Readable
<1>3. CASE m = x
  <2>1. PICK signer \in Writers : delete(m, signer) \/ close(m, signer)
    BY <1>3 DEF Calls
  <2>2. posted' = posted /\ ended' = [ended EXCEPT ![m] = Len(posted[m])]
    BY <2>1 DEF delete, close, Signs
  <2> QED BY <1>3, <2>2 DEF Readable, MailTypeOK
<1> QED BY <1>2, <1>3

\* Nothing on chain changes: what is shown still is of a message posted.
LEMMA SendStepMail ==
  ASSUME ConfirmInv, MailInv, SendSteps, ~Lands("ok"), UNCHANGED <<page, visitor, msgVars>>,
         MailTypeOK', InboxInv'
  PROVE  ConfirmInv' /\ MailInv'
<1>1. ConfirmInv' /\ submission'.ix = submission.ix
  BY SendStepConfirm
<1>2. (Asked' => Asked) /\ (submission'.tx = "ok" => submission.tx = "ok")
  BY SendStepAsked
<1>3. SentInv'
  BY <1>1, <1>2 DEF MailInv, SentInv, Readable, msgVars
<1> QED BY <1>1, <1>3 DEF MailInv

LEMMA ShownSame ==
  ASSUME MailInv, UNCHANGED <<visitor, msgVars, inbox, decrypted>>
  PROVE  MailTypeOK' /\ InboxInv'
BY DEF MailInv, MailTypeOK, InboxInv, msgVars

\* sendAndConfirm, as the page sees it: a row may go.
LEMMA ConfirmingMail ==
  ASSUME ConfirmInv, MailInv, UNCHANGED page,
         MailSendRaw \/ MailLandFailed \/ MailConfirm \/ MailExpire \/ MailReload
  PROVE  ConfirmInv' /\ MailInv'
<1>1. SendSteps /\ UNCHANGED <<visitor, msgVars>>
  BY DEF MailSendRaw, MailLandFailed, MailConfirm, MailExpire, MailReload, SendSteps
<1>2. ~Lands("ok")
  BY DEF MailSendRaw, MailLandFailed, MailConfirm, MailExpire, MailReload, ConfirmInv, Submissions,
         Steps, Broadcast, Confirming, WindowPasses, Forget, Lands, InFlight, NotSent, RpcThrows,
         PollPending, StillValid, WindowGone, PollConfirmed, PollFailed, LastCheck, At, Goto, Report
<1>3. CASE MailSendRaw \/ MailLandFailed \/ MailExpire
  <2>1. UNCHANGED <<inbox, decrypted>>
    BY <1>3 DEF MailSendRaw, MailLandFailed, MailExpire
  <2> QED BY <1>1, <1>2, <2>1, ShownSame, SendStepMail
<1>4. CASE MailConfirm \/ MailReload
  <2>1. NoBody \in MailBodies
    BY DEF MailBodies
  <2>2. \A m \in Messages : inbox'[m] \in {inbox[m], NoRow} /\ decrypted'[m] \in {decrypted[m], NoBody}
    BY <1>4 DEF MailConfirm, MailReload, MailInv, MailTypeOK
  <2>3. inbox' \in [Messages -> MailBodies \cup {NoRow}] /\ decrypted' \in [Messages -> MailBodies]
    BY <1>4, <2>1 DEF MailConfirm, MailReload, MailInv, MailTypeOK
  <2>4. MailTypeOK'
    BY <1>1, <2>3 DEF MailInv, MailTypeOK, msgVars
  <2>5. InboxInv'
    BY <1>1, <2>2 DEF MailInv, InboxInv, msgVars
  <2> QED BY <1>1, <1>2, <2>4, <2>5, SendStepMail
<1> QED BY <1>3, <1>4

LEMMA LandMail ==
  ASSUME ConfirmInv, MailInv, page = "messaging", UNCHANGED page, MailLandOk
  PROVE  ConfirmInv' /\ MailInv'
<1>1. SendSteps /\ Lands("ok") /\ UNCHANGED <<visitor, inbox, decrypted>>
  BY DEF MailLandOk, SendSteps
<1>2. ConfirmInv' /\ submission'.ix = submission.ix
  BY <1>1, SendStepConfirm
<1>3. Asked /\ submission.ix \in MailIxs
  BY <1>1 DEF Lands, InFlight, ConfirmInv, IxOfPage, Asked
<1>4. PICK ix \in MailIxs : ix = submission.ix
  BY <1>3
<1>5. CASE ix.action = "send"
  <2>1. ix.m \in Messages /\ ix.body \in SentBodies /\ send(ix.m, ix.body)
    BY <1>4, <1>5 DEF MailIxs, MailLandOk, MailExecute
  <2>2. MailTypeOK' /\ InboxInv'
    BY <1>1, <2>1, CallTyped, CallInbox DEF Calls, MailInv
  <2>3. Readable(ix.m, ix.body)'
    BY <2>1 DEF send, Readable, MailInv, MailTypeOK
  <2>4. SentInv'
    BY <1>1, <1>2, <1>3, <1>4, <2>3 DEF SentInv, MailInv, Readable
  <2> QED BY <1>2, <2>2, <2>4 DEF MailInv
<1>6. CASE ix.action = "delete"
  <2>1. ix.m \in Messages /\ delete(ix.m, visitor)
    BY <1>4, <1>6 DEF MailIxs, MailLandOk, MailExecute
  <2>2. visitor \in Writers
    BY <2>1, MsgConstants DEF delete, To, Messages
  <2>3. MailTypeOK' /\ InboxInv'
    <3>1. ~send(ix.m, NoBody) /\ Calls(ix.m, NoBody)
      BY <2>1, <2>2 DEF Calls, send, delete
    <3> QED BY <1>1, <2>1, <3>1, CallTyped, CallInbox DEF MailInv
  <2>4. SentInv'
    BY <1>2, <1>4, <1>6 DEF SentInv
  <2> QED BY <1>2, <2>3, <2>4 DEF MailInv
<1> QED BY <1>4, <1>5, <1>6 DEF MailIxs

LEMMA ElsewhereMail ==
  ASSUME ConfirmInv, MailInv, page = "messaging", UNCHANGED page, MailElsewhere
  PROVE  ConfirmInv' /\ MailInv'
<1>1. UNCHANGED <<visitor, inbox, decrypted, submission>>
  BY DEF MailElsewhere, inboxVars
<1>2. ConfirmInv'
  BY <1>1 DEF ConfirmInv, ReportsAreTrue, InFlight, IxOfPage, Asked
<1>3. PICK m \in Messages :
        \/ From(m) # visitor /\ \E body \in Bodies : send(m, body)
        \/ \E signer \in Writers : delete(m, signer) \/ close(m, signer)
  BY DEF MailElsewhere
<1>4. PICK body : /\ Calls(m, body)
                  /\ send(m, body) => body \in SentBodies /\ From(m) # visitor
  <2>1. CASE From(m) # visitor /\ \E b \in Bodies : send(m, b)
    BY <2>1 DEF Calls, SentBodies
  <2>2. CASE \E signer \in Writers : delete(m, signer) \/ close(m, signer)
    <3>1. ~send(m, NoBody) /\ Calls(m, NoBody)
      BY <2>2 DEF Calls, send, delete, close
    <3> QED BY <3>1
  <2> QED BY <1>3, <2>1, <2>2
<1>5. MailTypeOK' /\ InboxInv'
  BY <1>1, <1>4, CallTyped, CallInbox DEF MailInv
<1>6. SentInv'
  <2> SUFFICES ASSUME Asked, submission.ix.action = "send"
               PROVE  /\ From(submission.ix.m) = visitor
                      /\ submission.tx = "ok" =>
                           \/ ended'[submission.ix.m] = Len(posted'[submission.ix.m])
                           \/ /\ message'[submission.ix.m].exists
                              /\ message'[submission.ix.m].body = submission.ix.body
    BY <1>1 DEF SentInv, Readable, Asked
  <2>1. PICK ix \in MailIxs : ix = submission.ix
    BY DEF ConfirmInv, IxOfPage
  <2>2. ix.m \in Messages /\ From(ix.m) = visitor
    BY <2>1 DEF MailIxs, MailInv, SentInv
  <2>3. submission.tx = "ok" => Readable(ix.m, ix.body)
    BY <2>1 DEF MailInv, SentInv
  <2>4. submission.tx = "ok" => Readable(ix.m, ix.body)'
    BY <1>4, <2>2, <2>3, CallReadable DEF MailInv
  <2> QED BY <2>1, <2>2, <2>4 DEF Readable
<1> QED BY <1>2, <1>5, <1>6 DEF MailInv

\* The form and the inbox: nothing on chain changes.
LEMMA FormMail ==
  ASSUME ConfirmInv, MailInv, page = "messaging", UNCHANGED page,
         NEW m \in Messages, NEW text \in Texts, NEW passphrase \in Passphrases \cup {NoPassphrase},
         HandleSend(m, text, passphrase)
  PROVE  ConfirmInv' /\ MailInv'
<1> DEFINE body == encryptMsgBody(text, passphrase)
           ix == [action |-> "send", m |-> m, body |-> body]
<1>1. body \in SentBodies
  BY DEF HandleSend, PageLets, SentBodies
<1>2. ix \in MailIxs
  BY <1>1 DEF MailIxs
<1>3. Submit(ix) /\ From(m) = visitor /\ UNCHANGED <<msgVars, visitor, inbox, decrypted>>
  BY DEF HandleSend
<1> HIDE DEF body
<1>4. ConfirmInv' /\ submission'.ix = ix /\ submission'.tx = "none"
  BY <1>2, <1>3, SubmitConfirm
<1>5. SentInv'
  BY <1>3, <1>4 DEF SentInv
<1> QED BY <1>3, <1>4, <1>5, ShownSame DEF MailInv

LEMMA ThrowMail ==
  ASSUME ConfirmInv, MailInv, UNCHANGED page, NEW text, NEW passphrase,
         HandleSendThrows(text, passphrase)
  PROVE  ConfirmInv' /\ MailInv'
<1>1. ConfirmInv' /\ ~Asked'
  BY ThrowConfirm DEF HandleSendThrows
<1>2. MailTypeOK' /\ InboxInv'
  BY ShownSame DEF HandleSendThrows
<1> QED BY <1>1, <1>2 DEF MailInv, SentInv

LEMMA DeleteMail ==
  ASSUME ConfirmInv, MailInv, page = "messaging", UNCHANGED page, NEW m \in Messages,
         HandleDelete(m)
  PROVE  ConfirmInv' /\ MailInv'
<1> DEFINE ix == [action |-> "delete", m |-> m, body |-> inbox[m]]
<1>1. inbox[m] \in MailBodies
  BY DEF HandleDelete, MailInv, MailTypeOK
<1>2. ix \in MailIxs
  BY <1>1 DEF MailIxs
<1>3. Submit(ix) /\ UNCHANGED <<msgVars, visitor, inbox, decrypted>>
  BY DEF HandleDelete
<1>4. ConfirmInv' /\ submission'.ix = ix
  BY <1>2, <1>3, SubmitConfirm
<1>5. SentInv'
  BY <1>4 DEF SentInv
<1> QED BY <1>3, <1>4, <1>5, ShownSame DEF MailInv

LEMMA ViewMail ==
  ASSUME ConfirmInv, MailInv, UNCHANGED page,
         FetchInbox \/ \E m \in Messages, passphrase \in Passphrases \cup {NoPassphrase} :
                         HandleDecrypt(m, passphrase)
  PROVE  ConfirmInv' /\ MailInv'
<1>1. UNCHANGED <<msgVars, visitor, submission>>
  BY DEF FetchInbox, HandleDecrypt
<1>2. ConfirmInv' /\ SentInv'
  BY <1>1 DEF ConfirmInv, ReportsAreTrue, InFlight, IxOfPage, Asked, MailInv, SentInv, Readable, msgVars
<1>3. CASE FetchInbox
  <2>1. inbox' \in [Messages -> MailBodies \cup {NoRow}] /\ decrypted' = decrypted
    BY <1>3 DEF FetchInbox, MailInv, MailTypeOK
  <2>2. ASSUME NEW m \in Messages, inbox'[m] # NoRow
        PROVE  To(m) = visitor /\ message[m].exists /\ inbox'[m] = message[m].body
    BY <1>3, <2>2 DEF FetchInbox
  <2> QED BY <1>1, <1>2, <2>1, <2>2 DEF MailInv, MailTypeOK, InboxInv, msgVars
<1>4. ASSUME NEW m \in Messages, NEW passphrase, HandleDecrypt(m, passphrase)
      PROVE  ConfirmInv' /\ MailInv'
  <2>1. inbox[m] \in MailBodies /\ inbox[m] # NoBody /\ inbox[m] # NoRow
    BY <1>4 DEF HandleDecrypt, Decrypts, MailInv, MailTypeOK
  <2>2. decrypted' \in [Messages -> MailBodies] /\ inbox' = inbox
    BY <1>4, <2>1 DEF HandleDecrypt, MailInv, MailTypeOK
  <2>3. \A x \in Messages : decrypted'[x] = IF x = m THEN inbox[m] ELSE decrypted[x]
    BY <1>4 DEF HandleDecrypt, MailInv, MailTypeOK
  <2> QED BY <1>1, <1>2, <2>1, <2>2, <2>3 DEF MailInv, MailTypeOK, InboxInv, msgVars
<1> QED BY <1>3, <1>4

LEMMA MessagingStepInv ==
  ASSUME ConfirmInv, MailInv, OnMessaging(MailNext)
  PROVE  ConfirmInv' /\ MailInv'
<1>1. page = "messaging" /\ UNCHANGED page /\ MailNext
  BY DEF OnMessaging
<1>2. CASE MailElsewhere
  BY <1>1, <1>2, ElsewhereMail
<1>3. CASE SendForm
  BY <1>1, <1>3, FormMail, ThrowMail DEF SendForm
<1>4. CASE InboxView
  BY <1>1, <1>4, DeleteMail, ViewMail DEF InboxView
<1>5. CASE MailLandOk
  BY <1>1, <1>5, LandMail
<1>6. CASE MailReload \/ MailSendRaw \/ MailLandFailed \/ MailConfirm \/ MailExpire
  BY <1>1, <1>6, ConfirmingMail
<1> QED BY <1>1, <1>2, <1>3, <1>4, <1>5, <1>6 DEF MailNext, MailStep

-----------------------------------------------------------------------------
(* Both pages                                                               *)

WebInv == ConfirmInv /\ ClickInv /\ MailInv

LEMMA WebInitInv == WebInit => WebInv
<1> SUFFICES ASSUME WebInit PROVE WebInv
  OBVIOUS
<1>1. submission = NothingSent /\ ~Asked /\ submission.report = "none"
  BY DEF WebInit, PagesInit, NothingSent, Asked
<1>2. ConfirmInv
  BY <1>1, NothingSentTyped DEF WebInit, ConfirmInv, ReportsAreTrue, IxOfPage, NothingSent
<1>3. MailTypeOK /\ InboxInv
  BY DEF WebInit, MailInit, MsgInit, NoMessage, MailTypeOK, InboxInv, MailBodies
<1> QED BY <1>1, <1>2, <1>3 DEF WebInv, ClickInv, MailInv, SentInv

LEMMA WebNextInv == WebInv /\ [WebNext]_webVars => WebInv'
<1> SUFFICES ASSUME WebInv, [WebNext]_webVars PROVE WebInv'
  OBVIOUS
<1>1. CASE OnEscrow(PagesNext)
  <2>1. ConfirmInv' /\ ClickInv'
    BY <1>1, EscrowStepInv DEF WebInv
  <2>2. UNCHANGED <<page, visitor, msgVars, inbox, decrypted>> /\ page = "escrow"
    BY <1>1, EscrowSteps DEF OnEscrow, mailOnly
  <2>3. MailTypeOK' /\ InboxInv'
    BY <2>2, ShownSame DEF WebInv
  <2> QED BY <2>1, <2>2, <2>3 DEF WebInv, MailInv, SentInv
<1>2. CASE OnMessaging(MailNext)
  <2>1. ConfirmInv' /\ MailInv'
    BY <1>2, MessagingStepInv DEF WebInv
  <2> QED BY <1>2, <2>1 DEF WebInv, ClickInv, OnMessaging
<1>3. CASE UNCHANGED webVars
  <2>1. UNCHANGED <<page, visitor, submission, msgVars, inbox, decrypted>>
    BY <1>3 DEF webVars, allVars, pageVars, mailVars, inboxVars
  <2>2. ConfirmInv' /\ ClickInv'
    BY <2>1, SameSubmission DEF WebInv
  <2>3. MailTypeOK' /\ InboxInv'
    BY <2>1, ShownSame DEF WebInv
  <2> QED BY <2>1, <2>2, <2>3 DEF WebInv, MailInv, SentInv, Readable, Asked, msgVars
<1> QED BY <1>1, <1>2, <1>3 DEF WebNext

LEMMA WebInvariant == WebSpec => []WebInv
BY WebInitInv, WebNextInv, PTL DEF WebSpec

\* What sendAndConfirm reports is true and stays true, on either page, however
\* the polls, the window and the landing interleave: a transaction reported as
\* expired has not landed and cannot any more (confirm-tx.ts: the last look is
\* taken after the window).
THEOREM ReportsTrue == WebSpec => []ReportsAreTrue
<1>1. WebInv => ReportsAreTrue
  BY DEF WebInv, ConfirmInv
<1> QED BY <1>1, WebInvariant, PTL

\* Whatever is fetched, decrypted, deleted, closed and sent again in between,
\* text under a row was sent in that PDA to the visitor (MessagingManager).
THEOREM ShownWasSent == WebSpec => []ShownTextWasSent
<1>1. WebInv => ShownTextWasSent
  BY DEF WebInv, MailInv, InboxInv, ShownTextWasSent, In
<1> QED BY <1>1, WebInvariant, PTL

\* A send reported as successful can be read with its passphrase until the
\* recipient ends it (handleSend, sendAndConfirm and the three instructions).
THEOREM SentReadable == WebSpec => []SentStaysReadable
<1>1. WebInv => SentStaysReadable
  <2> SUFFICES ASSUME WebInv, submission.report = "success", submission.ix.action = "send",
                      ended[submission.ix.m] # Len(posted[submission.ix.m])
               PROVE  /\ message[submission.ix.m].exists
                      /\ Decrypts(message[submission.ix.m].body, submission.ix.body.passphrase)
    BY DEF SentStaysReadable
  <2>1. submission.tx = "ok" /\ Asked
    BY DEF WebInv, ConfirmInv, ReportsAreTrue, Asked
  <2>2. page = "messaging" /\ submission.ix \in MailIxs
    BY <2>1 DEF WebInv, ConfirmInv, IxOfPage, EscrowIxs, Actions
  <2>3. submission.ix.body \in SentBodies
    BY <2>2 DEF MailIxs
  <2>4. Readable(submission.ix.m, submission.ix.body)
    BY <2>1, <2>2 DEF WebInv, MailInv, SentInv
  <2> QED BY <2>3, <2>4, SealedBodies DEF Readable, Decrypts
<1> QED BY <1>1, WebInvariant, PTL

-----------------------------------------------------------------------------
(* A click does what the button said                                        *)

\* The program's own checks, read off the job as it is when an instruction
\* takes effect, against availableActions.
LEMMA ExecutedWasOffered ==
  ASSUME NEW k \in Jobs, NEW action \in Actions, Execute([action |-> action, k |-> k]),
         action \in {"close", "resolve"} => visitor = ClientOf(k)
  PROVE  /\ job[k].exists
         /\ job[k].agent # ClientOf(k) => action \in Offered(k, job[k])
<1> DEFINE row == job[k]
<1>1. CASE action = "accept" /\ accept_job(k, visitor)
  BY <1>1 DEF accept_job, CanAccept, Offered
<1>2. CASE action = "complete" /\ complete_job(k, visitor)
  BY <1>2 DEF complete_job, CanComplete, Offered
<1>3. CASE action = "release" /\ release_payment(k, visitor)
  BY <1>3 DEF release_payment, CanRelease, Offered
<1>4. CASE action = "dispute" /\ dispute_job(k, visitor)
  BY <1>4 DEF dispute_job, CanDispute, Offered
<1>5. CASE action = "resolve" /\ resolve_dispute(k, visitor)
  BY <1>5 DEF resolve_dispute, CanResolve, Offered
<1>6. CASE action = "cancel" /\ cancel_job(k, visitor)
  BY <1>6 DEF cancel_job, CanCancel, Offered
<1>7. CASE action = "close" /\ close_job(k)
  BY <1>7 DEF close_job, CanClose, Offered
<1> QED BY <1>1, <1>2, <1>3, <1>4, <1>5, <1>6, <1>7 DEF Execute, Actions

LEMMA ClickStep ==
  ASSUME WebInv, [WebNext]_webVars, InFlight, submission'.tx = "ok",
         submission.ix.action \in Actions
  PROVE  /\ job[submission.ix.k].exists
         /\ job[submission.ix.k].agent # ClientOf(submission.ix.k) =>
              submission.ix.action \in Offered(submission.ix.k, job[submission.ix.k])
<1>1. Asked /\ submission.tx = "pending"
  BY DEF InFlight, Asked
<1>2. page = "escrow" /\ submission.ix \in EscrowIxs
  BY <1>1 DEF WebInv, ConfirmInv, IxOfPage, MailIxs, Actions
<1>3. PICK ix \in [action : Actions, k : Jobs] : ix = submission.ix
  BY <1>2 DEF EscrowIxs, Actions
<1>4. PagesNext
  BY <1>1, <1>2 DEF WebNext, OnEscrow, OnMessaging, webVars, allVars, pageVars
<1>5. LandOk
  <2>1. CASE SendRaw \/ LandFailed \/ Confirm \/ Expire \/ Reload
    BY <1>1, <2>1 DEF SendRaw, LandFailed, Confirm, Expire, Reload, WebInv, ConfirmInv, Submissions,
       Steps, Broadcast, Confirming, WindowPasses, Forget, Lands, InFlight, NotSent, RpcThrows,
       PollPending, StillValid, WindowGone, PollConfirmed, PollFailed, LastCheck, At, Goto, Report
  <2>2. CASE Elsewhere \/ FetchJobs
    BY <1>1, <2>2 DEF Elsewhere, FetchJobs, pageVars
  <2>3. CASE CreateForm \/ RowButtons
    BY <2>3 DEF CreateForm, RowButtons, HandleCreate, HandleAction, Submit, NothingSent
  <2> QED BY <1>4, <2>1, <2>2, <2>3 DEF PagesNext, PageStep
<1>6. Execute([action |-> ix.action, k |-> ix.k])
  BY <1>3, <1>5 DEF LandOk
<1>7. ix.action \in {"close", "resolve"} => visitor = ClientOf(ix.k)
  BY <1>1, <1>2, <1>3 DEF WebInv, ClickInv
<1> QED BY <1>3, <1>6, <1>7, ExecutedWasOffered

\* Whatever happens to a job between the fetch, the click, the signature and the
\* landing, and whatever the browser's clock says, a button of the escrow page
\* takes effect only in a state for which the page offers it, or not at all
\* (availableActions and handleAction against the eight instructions).
THEOREM ClicksMeant == WebSpec => ClicksMeanWhatTheyShow
<1>1. WebInv /\ [WebNext]_webVars =>
        [InFlight /\ submission'.tx = "ok" /\ submission.ix.action \in Actions =>
           LET ix == submission.ix  row == job[submission.ix.k]
           IN row.exists /\ (row.agent # ClientOf(ix.k) => ix.action \in Offered(ix.k, row))
        ]_allVars
  BY ClickStep
<1> QED BY <1>1, WebInvariant, PTL DEF WebSpec, ClicksMeanWhatTheyShow

-----------------------------------------------------------------------------
(* The programs under their pages                                           *)

VisitorInv == visitor \in Users /\ visitor \in Writers

LEMMA VisitorStays == WebSpec => []VisitorInv
<1>1. WebInit => VisitorInv
  BY DEF WebInit, PagesInit, MailInit, VisitorInv
<1>2. VisitorInv /\ [WebNext]_webVars => VisitorInv'
  <2> SUFFICES ASSUME VisitorInv, [WebNext]_webVars PROVE UNCHANGED visitor
    BY DEF VisitorInv
  <2>1. CASE OnEscrow(PagesNext)
    BY <2>1, EscrowSteps DEF OnEscrow
  <2>2. CASE OnMessaging(MailNext)
    BY <2>2 DEF OnMessaging, MailNext, MailStep, MailElsewhere, SendForm, InboxView, HandleSend,
       HandleSendThrows, FetchInbox, HandleDecrypt, HandleDelete, MailSendRaw, MailLandOk,
       MailLandFailed, MailConfirm, MailExpire, MailReload, inboxVars
  <2>3. CASE UNCHANGED webVars
    BY <2>3 DEF webVars, allVars, pageVars
  <2> QED BY <2>1, <2>2, <2>3 DEF WebNext
<1> QED BY <1>1, <1>2, PTL DEF WebSpec

\* What a landing executes is an instruction of the program.
LEMMA ExecuteIsNext ==
  ASSUME VisitorInv, NEW ix \in EscrowIxs, Execute(ix)
  PROVE  Next
<1>1. CASE ix.action = "create" /\ create_job(ix.k, ix.agent, ix.price, PageMint)
  <2>1. ix.k \in Jobs /\ ix.agent \in Users /\ ix.price \in Prices
    BY <1>1 DEF EscrowIxs, Actions
  <2> QED BY <1>1, <2>1, PageConstants DEF Next
<1>2. ix.k \in Jobs
  BY DEF EscrowIxs
<1> QED BY <1>1, <1>2 DEF Execute, Next, VisitorInv

LEMMA EscrowUnderPages ==
  ASSUME VisitorInv, WebInv, [WebNext]_webVars
  PROVE  [Next]_vars
<1>1. CASE OnEscrow(PagesNext)
  <2>1. CASE LandOk
    <3>1. page = "escrow" /\ Asked
      BY <1>1, <2>1 DEF OnEscrow, LandOk, Lands, InFlight, Asked
    <3>2. submission.ix \in EscrowIxs
      BY <3>1 DEF WebInv, ConfirmInv, IxOfPage
    <3> QED BY <2>1, <3>2, ExecuteIsNext DEF LandOk
  <2>2. CASE Elsewhere
    BY <2>2 DEF Elsewhere
  <2>3. CASE FetchJobs \/ CreateForm \/ RowButtons \/ Reload \/ SendRaw \/ LandFailed
             \/ Confirm \/ Expire
    BY <2>3 DEF FetchJobs, CreateForm, HandleCreate, RowButtons, HandleAction, Reload, SendRaw,
       LandFailed, Confirm, Expire
  <2> QED BY <1>1, <2>1, <2>2, <2>3 DEF OnEscrow, PagesNext, PageStep
<1>2. CASE OnMessaging(MailNext)
  BY <1>2 DEF OnMessaging, escrowOnly
<1>3. CASE UNCHANGED webVars
  BY <1>3 DEF webVars, allVars
<1> QED BY <1>1, <1>2, <1>3 DEF WebNext

\* The pages are callers of the escrow program like any other: whatever they
\* show, send, lose or report, the accounts behave as the program's, so every
\* theorem about the escrow above holds of them (handleAction, handleCreate).
THEOREM PagesCallEscrow == WebSpec => Spec
<1>1. WebInit => Init
  BY DEF WebInit, PagesInit
<1> QED BY <1>1, EscrowUnderPages, VisitorStays, WebInvariant, PTL DEF WebSpec, Spec

\* Under the pages too the money of a job is in its vault while it is open and has
\* a way out of it, no refund is early, and the program is the contract (lib.rs
\* behind the page).
THEOREM EscrowUnderPagesHolds ==
  WebSpec => [](VaultBacksJob /\ RefundsRespectWindows /\ MoneyHasAnExit) /\ ImplementsContract
BY PagesCallEscrow, EscrowBacked, WindowsRespected, NoMoneyStranded, EscrowImplements, PTL

-----------------------------------------------------------------------------
(* The buttons work                                                         *)

\* The program takes what the page offers on a copy that is up to date: the vault
\* of an open job holds its price.
LEMMA OfferIsAccepted ==
  ASSUME EscrowInv, NEW k \in Jobs, job[k].exists, PaysOutIn(k), visitor \in Users,
         NEW action \in Offered(k, job[k]),
         LetsThrough(job[k], action, now),
         action \in {"accept", "complete"} => StampBound
  PROVE  Accepted([action |-> action, k |-> k])
<1>1. job[k].state \in JobState
  BY DEF EscrowInv, TypeOK, Job
<1>2. job[k].state \in Open => VaultHoldsPrice(k)
  BY OpenVault DEF VaultHoldsPrice
<1>3. CASE job[k].state = "Created"
  BY <1>2, <1>3 DEF Offered, Accepted, CanCancel, CanAccept, Open
<1>4. CASE job[k].state = "Accepted"
  BY <1>2, <1>4 DEF Offered, Accepted, CanComplete, CanCancel, LetsThrough, Open
<1>5. CASE job[k].state = "Completed"
  BY <1>2, <1>5 DEF Offered, Accepted, CanRelease, CanDispute, Open
<1>6. CASE job[k].state = "Disputed"
  BY <1>2, <1>6 DEF Offered, Accepted, CanResolve, LetsThrough, Open
<1>7. CASE job[k].state \in {"Released", "Refunded"}
  BY <1>7 DEF Offered, Accepted, CanClose
<1> QED BY <1>1, <1>3, <1>4, <1>5, <1>6, <1>7 DEF JobState

\* With a fresh list and the right time no button of the escrow page ends in a
\* raw program error (availableActions and handleAction against the checks of
\* the instructions, and against what the vault holds).
THEOREM ActionsWork == WebSpec => []OfferedActionsWork
<1>1. EscrowInv /\ VisitorInv => OfferedActionsWork
  BY OfferIsAccepted DEF OfferedActionsWork, Concerns, VisitorInv
<1> QED BY <1>1, PagesCallEscrow, EscrowInvariant, VisitorStays, PTL

-----------------------------------------------------------------------------
(* Messages are kept under their page                                       *)

LEMMA MessagesUnderPages ==
  ASSUME VisitorInv, WebInv, [WebNext]_webVars, MsgInv(SentBodies)
  PROVE  MsgInv(SentBodies)'
<1>1. CASE OnEscrow(PagesNext) \/ UNCHANGED webVars
  <2>1. UNCHANGED msgVars
    BY <1>1 DEF OnEscrow, mailOnly, webVars, mailVars
  <2> QED BY <2>1, NothingMoves
<1>2. CASE OnMessaging(MailElsewhere)
  BY <1>2, SendKeeps, DeleteKeeps, CloseKeeps DEF OnMessaging, MailElsewhere, SentBodies
<1>3. CASE OnMessaging(MailLandOk)
  <2>1. page = "messaging" /\ Asked /\ MailExecute(submission.ix)
    BY <1>3 DEF OnMessaging, MailLandOk, Lands, InFlight, Asked
  <2>2. submission.ix \in MailIxs
    BY <2>1 DEF WebInv, ConfirmInv, IxOfPage
  <2>3. CASE submission.ix.action = "send" /\ send(submission.ix.m, submission.ix.body)
    BY <2>2, <2>3, SendKeeps DEF MailIxs
  <2>4. CASE submission.ix.action = "delete" /\ delete(submission.ix.m, visitor)
    BY <2>2, <2>4, DeleteKeeps DEF MailIxs, VisitorInv
  <2> QED BY <2>1, <2>3, <2>4 DEF MailExecute
<1>4. CASE OnMessaging(SendForm \/ InboxView \/ MailReload \/ MailSendRaw \/ MailLandFailed
                       \/ MailConfirm \/ MailExpire)
  <2>1. UNCHANGED msgVars
    BY <1>4 DEF OnMessaging, SendForm, HandleSend, HandleSendThrows, InboxView, FetchInbox,
       HandleDecrypt, HandleDelete, MailReload, MailSendRaw, MailLandFailed, MailConfirm,
       MailExpire
  <2> QED BY <2>1, NothingMoves
<1> QED BY <1>1, <1>2, <1>3, <1>4 DEF WebNext, MailNext, MailStep, OnMessaging

\* Sealed by the page or not, and with rows deleted and nonces used again, no
\* message is lost or replaced that its recipient has not ended (handleSend and
\* handleDelete over the three instructions).
THEOREM KeptUnderPages == WebSpec => []KeptUntilEnded
<1>1. WebInit => MsgInv(SentBodies)
  BY MsgInitInv DEF WebInit, MailInit
<1>2. MsgInv(SentBodies) => KeptUntilEnded
  BY DEF MsgInv
<1> QED BY <1>1, <1>2, MessagesUnderPages, VisitorStays, WebInvariant, PTL DEF WebSpec
=============================================================================
