------------------------- MODULE QietrRelayer_proofs -------------------------
(***************************************************************************)
(* Theorems about the relayer, for any number of overlapping requests,      *)
(* clients, texts and crashes and any limits, lists and times: first what   *)
(* the guards let through, then the sliding windows.  GuardInv says what    *)
(* each stretch of a handler may rely on when it resumes after an await.    *)
(***************************************************************************)
EXTENDS QietrRelayer, SequenceTheorems, FiniteSetTheorems, WellFoundedInduction, TLAPS

-----------------------------------------------------------------------------
(* What a request carries from one await to the next.                       *)

PastGuard == {"lookup", "screened", "balance", "answer", "send", "sent"}
RequestRecords ==
  [pc : PastGuard \cup {"idle", "admitted"},
   route : {"none", "withdraw", "deposit"}, body : Bodies \cup {"none"},
   at : Int, now : Int, bal : Nat, readAt : Int]

RelayerTypeOK ==
  /\ up \in BOOLEAN /\ clock \in Nat /\ balance \in Nat
  /\ req \in [Requests -> RequestRecords]
  /\ seen \in [Bodies -> Int]
  /\ cache \in [bal : Nat, at : Int, readAt : Int]
  /\ paidAt \in [Txs -> Int]

\* Requests live in the process, which has a list in force while it serves.
ServesWithList ==
  /\ up => blocked \in SanctionLists
  /\ ~up => \A r \in Requests : req[r] = Idle

\* A request past the replay guard holds a text remembered no earlier than the
\* request was admitted.
Remembered ==
  \A r \in Requests :
    /\ req[r].pc # "idle" => req[r].body \in Bodies
    /\ req[r].pc \in PastGuard => req[r].at <= seen[req[r].body]

\* What the checks a transaction has passed leave true of it.
Lawful(tx) ==
  /\ \E list \in SanctionLists : PartyOf(tx) \notin list
  /\ Len(tx.ixs) = 2 => PaysFee(tx.ixs[1])
Screened ==
  \A r \in Requests :
    /\ req[r].pc = "lookup" => ValidWithdraw(Tx(r))
    /\ req[r].pc \in PastGuard \ {"lookup"} => Lawful(Tx(r))

\* A balance is never dated later than the node read it.
DatedBeforeRead ==
  /\ cache.at <= cache.readAt
  /\ \A r \in Requests :
       /\ req[r].pc = "balance" => req[r].now <= clock
       /\ req[r].pc = "answer" => req[r].now <= req[r].readAt

GuardInv ==
  /\ RelayerTypeOK /\ ServesWithList /\ Remembered /\ Screened /\ DatedBeforeRead
  /\ NoReplayInFlight /\ FloorReadRecently /\ PaidOnlyWithinPolicy

-----------------------------------------------------------------------------
LEMMA LongAgoIsPast == LongAgo \in Int /\ LongAgo < 0
<1>1. SpendWindow \in Nat /\ ReplayTtl \in Nat /\ BalanceCacheTime \in Nat
  BY RelayerConstants
<1> QED BY <1>1 DEF LongAgo

LEMMA IdleIsRequest == Idle \in RequestRecords
BY LongAgoIsPast DEF Idle, RequestRecords

LEMMA GuardInitInv == Init => GuardInv
<1> SUFFICES ASSUME Init PROVE GuardInv
  OBVIOUS
<1>1. LongAgo \in Int
  BY LongAgoIsPast
<1>2. \A r \in Requests : req[r].pc = "idle"
  BY DEF Init, Idle
<1>3. RelayerTypeOK
  BY RelayerConstants, <1>1, IdleIsRequest DEF Init, RelayerTypeOK, NoBalance
<1>4. ServesWithList
  BY DEF Init, ServesWithList
<1>5. Remembered /\ Screened /\ NoReplayInFlight /\ FloorReadRecently
  BY <1>2 DEF Remembered, Screened, NoReplayInFlight, FloorReadRecently, PastGuard
<1>6. DatedBeforeRead
  BY <1>1, <1>2 DEF Init, NoBalance, DatedBeforeRead
<1>7. PaidOnlyWithinPolicy
  BY DEF Init, PaidOnlyWithinPolicy, Txs
<1> QED BY <1>3, <1>4, <1>5, <1>6, <1>7 DEF GuardInv

-----------------------------------------------------------------------------
(* Steps that change one request and leave what the guards read alone.      *)

\* A request becomes q; what the guards remember of it stays, and the caches and
\* the chain keep what the invariant says of them.
LEMMA OneRequestStep ==
  ASSUME GuardInv, NEW r \in Requests, NEW q \in RequestRecords, up,
         req' = [req EXCEPT ![r] = q],
         UNCHANGED <<up, clock, seen, blocked>>,
         balance' \in Nat, paidAt' \in [Txs -> Int], PaidOnlyWithinPolicy',
         cache' \in [bal : Nat, at : Int, readAt : Int], cache'.at <= cache'.readAt,
         q.pc # "idle" => q.body \in Bodies,
         q.pc \in PastGuard => req[r].pc \in PastGuard /\ q.body = req[r].body
                                /\ q.at = req[r].at,
         q.pc = "lookup" => ValidWithdraw(Decoded[q.body]),
         q.pc \in PastGuard \ {"lookup"} => Lawful(Decoded[q.body]),
         q.pc = "balance" => q.now <= clock,
         q.pc = "answer" => q.now <= q.readAt,
         q.pc = "send" => q.bal >= MinBalance /\ q.now - q.readAt < BalanceCacheTime
  PROVE  GuardInv'
<1> USE DEF GuardInv
<1>1. RelayerTypeOK'
  BY DEF RelayerTypeOK
<1>2. \A x \in Requests : req'[x] = IF x = r THEN q ELSE req[x]
  BY DEF RelayerTypeOK
<1>3. ServesWithList'
  BY DEF ServesWithList
<1>4. Remembered'
  BY <1>2 DEF Remembered
<1>5. Screened'
  BY <1>2 DEF Screened, Tx
<1>6. DatedBeforeRead'
  BY <1>2 DEF DatedBeforeRead
<1>7. FloorReadRecently'
  BY <1>2 DEF FloorReadRecently
<1>9. NoReplayInFlight'
  <2>1. \A x \in Requests : req'[x].pc \notin {"idle", "admitted"} =>
          req[x].pc \notin {"idle", "admitted"} /\ req'[x].body = req[x].body
          /\ req'[x].at = req[x].at
    BY <1>2 DEF RequestRecords, PastGuard
  <2> QED BY <2>1 DEF NoReplayInFlight
<1> QED BY <1>1, <1>3, <1>4, <1>5, <1>6, <1>7, <1>9

LEMMA OneRequest ==
  ASSUME GuardInv, NEW r \in Requests, NEW q \in RequestRecords, up,
         req' = [req EXCEPT ![r] = q],
         UNCHANGED <<up, clock, seen, cache, blocked, balance, paidAt>>,
         q.pc # "idle" => q.body \in Bodies,
         q.pc \in PastGuard => req[r].pc \in PastGuard /\ q.body = req[r].body
                                /\ q.at = req[r].at,
         q.pc = "lookup" => ValidWithdraw(Decoded[q.body]),
         q.pc \in PastGuard \ {"lookup"} => Lawful(Decoded[q.body]),
         q.pc = "balance" => q.now <= clock,
         q.pc = "answer" => q.now <= q.readAt,
         q.pc = "send" => q.bal >= MinBalance /\ q.now - q.readAt < BalanceCacheTime
  PROVE  GuardInv'
<1>1. /\ balance' \in Nat /\ paidAt' \in [Txs -> Int] /\ PaidOnlyWithinPolicy'
      /\ cache' \in [bal : Nat, at : Int, readAt : Int] /\ cache'.at <= cache'.readAt
  BY DEF GuardInv, RelayerTypeOK, DatedBeforeRead, PaidOnlyWithinPolicy
<1> QED BY <1>1, OneRequestStep

\* A request that ends, whatever it was doing.
LEMMA Ends ==
  ASSUME GuardInv, NEW r \in Requests, up, req' = [req EXCEPT ![r] = Idle],
         UNCHANGED <<up, clock, seen, cache, blocked, balance, paidAt>>
  PROVE  GuardInv'
<1>1. Idle.pc = "idle" /\ "idle" \notin PastGuard
  BY DEF Idle, PastGuard
<1> QED BY <1>1, IdleIsRequest, OneRequest

\* No request changes, and nothing the invariant reads except the clock.
LEMMA NoRequest ==
  ASSUME GuardInv, clock' \in Nat, clock' >= clock,
         UNCHANGED <<up, req, seen, cache, blocked, balance, paidAt>>
  PROVE  GuardInv'
<1>1. DatedBeforeRead'
  BY DEF GuardInv, RelayerTypeOK, RequestRecords, DatedBeforeRead
<1> QED
  BY <1>1 DEF GuardInv, RelayerTypeOK, ServesWithList, Remembered, Screened, Tx,
              NoReplayInFlight, FloorReadRecently, PaidOnlyWithinPolicy

\* A request that is not idle is served.
LEMMA Serving ==
  ASSUME GuardInv, NEW r \in Requests, req[r].pc # "idle"
  PROVE  up /\ blocked \in SanctionLists
BY DEF GuardInv, ServesWithList, Idle

-----------------------------------------------------------------------------
(* The spend guard up to its first await.                                   *)

LEMMA AfterBalanceAllows ==
  ASSUME NEW q \in RequestRecords, NEW bal \in Nat, NEW readAt \in Int,
         q.now - readAt < BalanceCacheTime
  PROVE  LET next == AfterBalance(q, bal, readAt) IN
         /\ next \in RequestRecords
         /\ next # Idle => /\ next.pc = "send" /\ next.body = q.body /\ next.at = q.at
                           /\ next.bal >= MinBalance
                           /\ next.now - next.readAt < BalanceCacheTime
<1> DEFINE sent == [q EXCEPT !.pc = "send", !.bal = bal, !.readAt = readAt]
<1>1. sent \in RequestRecords
  BY DEF RequestRecords, PastGuard
<1>2. /\ sent.pc = "send" /\ sent.body = q.body /\ sent.at = q.at
      /\ sent.bal = bal /\ sent.now = q.now /\ sent.readAt = readAt
  BY DEF RequestRecords
<1>3. bal >= MinBalance \/ bal < MinBalance
  BY RelayerConstants
<1>4. CASE bal < MinBalance
  BY <1>4, IdleIsRequest DEF AfterBalance
<1>5. CASE ~(bal < MinBalance)
  BY <1>1, <1>2, <1>3, <1>5 DEF AfterBalance
<1> QED BY <1>4, <1>5

\* The record a request has after the check: it ended, it waits for a balance,
\* or it may send on the one in the cache.
SpendChecked(q, next) ==
  /\ next \in RequestRecords
  /\ next.pc \in {"idle", "balance", "send"}
  /\ next.pc # "idle" => next.body = q.body /\ next.at = q.at
  /\ next.pc = "balance" => next.now = clock
  /\ next.pc = "send" =>
       next.bal >= MinBalance /\ next.now - next.readAt < BalanceCacheTime

LEMMA SpendCheckOutcome ==
  ASSUME GuardInv, NEW r \in Requests, NEW q \in RequestRecords, SpendCheck(r, q)
  PROVE  \E next : SpendChecked(q, next) /\ req' = [req EXCEPT ![r] = next]
<1> DEFINE live == DropExpired(spendHits, clock - SpendWindow)
           asked == [q EXCEPT !.now = clock]
           next == IF Len(live) >= MaxTxPerWindow THEN Idle
                   ELSE IF clock - cache.at < BalanceCacheTime
                        THEN AfterBalance(asked, cache.bal, cache.readAt)
                        ELSE [asked EXCEPT !.pc = "balance"]
<1>1. clock \in Nat /\ cache \in [bal : Nat, at : Int, readAt : Int] /\ cache.at <= cache.readAt
  BY DEF GuardInv, RelayerTypeOK, DatedBeforeRead
<1>2. asked \in RequestRecords /\ asked.body = q.body /\ asked.at = q.at /\ asked.now = clock
  BY <1>1 DEF RequestRecords
<1>3. Idle.pc = "idle"
  BY DEF Idle
<1>4. CASE Len(live) >= MaxTxPerWindow
  BY <1>3, <1>4, IdleIsRequest DEF SpendCheck, SpendChecked
<1>5. CASE ~(Len(live) >= MaxTxPerWindow) /\ clock - cache.at < BalanceCacheTime
  <2>1. cache.bal \in Nat /\ cache.readAt \in Int /\ asked.now - cache.readAt < BalanceCacheTime
    <3>1. cache.bal \in Nat /\ cache.readAt \in Int /\ cache.at \in Int /\ cache.at <= cache.readAt
      BY <1>1
    <3>2. BalanceCacheTime \in Int /\ clock \in Int /\ clock - cache.at < BalanceCacheTime
      BY <1>1, <1>5, RelayerConstants
    <3>3. clock - cache.readAt < BalanceCacheTime
      <4> HIDE DEF live, asked, next
      <4> QED BY <3>1, <3>2
    <3> QED BY <1>2, <3>1, <3>3
  <2> DEFINE after == AfterBalance(asked, cache.bal, cache.readAt)
  <2>2. /\ after \in RequestRecords
        /\ after # Idle => /\ after.pc = "send" /\ after.body = asked.body
                           /\ after.at = asked.at /\ after.bal >= MinBalance
                           /\ after.now - after.readAt < BalanceCacheTime
    BY <1>2, <2>1, AfterBalanceAllows
  <2>3. SpendChecked(q, after)
    BY <1>2, <1>3, <2>2 DEF SpendChecked
  <2>4. req' = [req EXCEPT ![r] = after]
    BY <1>5 DEF SpendCheck
  <2> QED BY <2>3, <2>4
<1>6. CASE ~(Len(live) >= MaxTxPerWindow) /\ ~(clock - cache.at < BalanceCacheTime)
  <2> DEFINE waits == [asked EXCEPT !.pc = "balance"]
  <2>1. /\ waits \in RequestRecords /\ waits.pc = "balance"
        /\ waits.body = q.body /\ waits.at = q.at /\ waits.now = clock
    BY <1>2 DEF RequestRecords, PastGuard
  <2>2. req' = [req EXCEPT ![r] = waits]
    BY <1>6 DEF SpendCheck
  <2> QED BY <2>1, <2>2 DEF SpendChecked
<1> QED BY <1>4, <1>5, <1>6

-----------------------------------------------------------------------------
(* Admission: the text is remembered in the same stretch it was looked for. *)

LEMMA Admitted ==
  ASSUME GuardInv, NEW r \in Requests, NEW q \in RequestRecords,
         req[r].pc = "admitted", ~IsReplay(req[r].body),
         seen' = [seen EXCEPT ![req[r].body] = clock],
         req' = [req EXCEPT ![r] = q],
         UNCHANGED <<up, clock, cache, blocked, balance, paidAt>>,
         q.pc \in {"idle", "lookup", "balance", "send"},
         q.pc # "idle" => q.body = req[r].body /\ q.at = clock,
         q.pc = "lookup" => ValidWithdraw(Decoded[q.body]),
         q.pc \in {"balance", "send"} => Lawful(Decoded[q.body]),
         q.pc = "balance" => q.now <= clock,
         q.pc = "send" => q.bal >= MinBalance /\ q.now - q.readAt < BalanceCacheTime
  PROVE  GuardInv'
<1> USE DEF GuardInv
<1> DEFINE b == req[r].body
<1>1. b \in Bodies /\ up
  BY Serving DEF Remembered
<1>2. \A x \in Requests : req'[x] = IF x = r THEN q ELSE req[x]
  BY DEF RelayerTypeOK
<1>3. clock \in Nat /\ \A c \in Bodies : seen[c] \in Int
  BY DEF RelayerTypeOK
<1>4. \A c \in Bodies : seen'[c] = IF c = b THEN clock ELSE seen[c]
  BY DEF RelayerTypeOK
<1>5. seen[b] + ReplayTtl <= clock
  BY <1>1, <1>3, RelayerConstants DEF IsReplay
<1>6. RelayerTypeOK'
  BY <1>1, <1>3 DEF RelayerTypeOK
<1>7. ServesWithList'
  BY <1>1 DEF ServesWithList
<1>8. \A x \in Requests : req[x].at \in Int
  BY DEF RelayerTypeOK, RequestRecords
<1>9. Remembered'
  <2> SUFFICES ASSUME NEW x \in Requests
               PROVE  /\ req'[x].pc # "idle" => req'[x].body \in Bodies
                      /\ req'[x].pc \in PastGuard => req'[x].at <= seen'[req'[x].body]
    BY DEF Remembered
  <2>1. CASE x = r
    BY <2>1, <1>1, <1>2, <1>3, <1>4 DEF PastGuard
  <2>2. CASE x # r /\ req[x].pc \in PastGuard
    <3>1. req[x].body \in Bodies /\ req[x].at <= seen[req[x].body]
      BY <2>2 DEF Remembered, PastGuard
    <3>2. seen[req[x].body] <= seen'[req[x].body]
      BY <3>1, <1>3, <1>4, <1>5, RelayerConstants
    <3>3. req[x].at <= seen'[req[x].body]
      BY <3>1, <3>2, <1>3, <1>4, <1>8
    <3> QED BY <2>2, <3>1, <3>3, <1>2
  <2>3. CASE x # r /\ req[x].pc \notin PastGuard
    BY <2>3, <1>2 DEF Remembered
  <2> QED BY <2>1, <2>2, <2>3
<1>10. Screened'
  BY <1>2 DEF Screened, Tx, PastGuard
<1>11. DatedBeforeRead'
  BY <1>2 DEF DatedBeforeRead
<1>12. FloorReadRecently'
  BY <1>2 DEF FloorReadRecently
<1>13. PaidOnlyWithinPolicy'
  BY DEF PaidOnlyWithinPolicy
<1>14. NoReplayInFlight'
  <2>1. ASSUME NEW x \in Requests, x # r, req[x].pc \notin {"idle", "admitted"},
               req[x].body = b
        PROVE  clock - req[x].at >= ReplayTtl
    <3>1. req[x].pc \in PastGuard
      BY <2>1 DEF RelayerTypeOK, RequestRecords
    <3>2. req[x].at <= seen[b]
      BY <3>1, <2>1 DEF Remembered
    <3> QED BY <3>2, <1>1, <1>3, <1>5, <1>8, RelayerConstants
  <2>2. ASSUME NEW x \in Requests, NEW y \in Requests, x # y,
               req'[x].pc \notin {"idle", "admitted"},
               req'[y].pc \notin {"idle", "admitted"}, req'[x].body = req'[y].body
        PROVE  \/ req'[x].at - req'[y].at >= ReplayTtl
               \/ req'[y].at - req'[x].at >= ReplayTtl
    <3>1. CASE x = r
      BY <3>1, <2>1, <2>2, <1>2
    <3>2. CASE y = r
      BY <3>2, <2>1, <2>2, <1>2
    <3>3. CASE x # r /\ y # r
      BY <3>3, <2>2, <1>2 DEF NoReplayInFlight
    <3> QED BY <3>1, <3>2, <3>3
  <2> QED BY <2>2 DEF NoReplayInFlight
<1> QED BY <1>6, <1>7, <1>9, <1>10, <1>11, <1>12, <1>13, <1>14

-----------------------------------------------------------------------------
(* The actions.                                                             *)

LEMMA ArriveInv ==
  ASSUME GuardInv, NEW r \in Requests, NEW route \in {"withdraw", "deposit"},
         NEW key, NEW b \in Bodies, Arrive(r, route, key, b)
  PROVE  GuardInv'
<1> DEFINE q == [Idle EXCEPT !.pc = "admitted", !.route = route, !.body = b]
<1>1. q \in RequestRecords /\ q.pc = "admitted" /\ q.body = b /\ "admitted" \notin PastGuard
  BY IdleIsRequest DEF RequestRecords, PastGuard
<1>2. UNCHANGED <<up, clock, seen, cache, blocked, balance, paidAt>> /\ up
  BY DEF Arrive, chain
<1>3. CASE RateAllows(key)
  <2>1. req' = [req EXCEPT ![r] = q]
    BY <1>3 DEF Arrive
  <2> QED BY <1>1, <1>2, <2>1, OneRequest
<1>4. CASE ~RateAllows(key)
  <2>1. req' = req
    BY <1>4 DEF Arrive
  <2> QED BY <1>2, <2>1, NoRequest DEF GuardInv, RelayerTypeOK
<1> QED BY <1>3, <1>4

LEMMA AdmitWithdrawInv ==
  ASSUME GuardInv, NEW r \in Requests, AdmitWithdraw(r)
  PROVE  GuardInv'
<1> DEFINE q == [req[r] EXCEPT !.pc = "lookup", !.at = clock]
<1>1. req[r] \in RequestRecords /\ clock \in Nat
  BY DEF GuardInv, RelayerTypeOK
<1>2. q \in RequestRecords /\ q.pc = "lookup" /\ q.body = req[r].body /\ q.at = clock
  <2>1. "lookup" \in PastGuard /\ clock \in Int
    BY <1>1 DEF PastGuard
  <2> QED BY <1>1, <2>1 DEF RequestRecords
<1>3. /\ req[r].pc = "admitted" /\ ~IsReplay(req[r].body)
      /\ seen' = [seen EXCEPT ![req[r].body] = clock]
      /\ UNCHANGED <<up, clock, cache, blocked, balance, paidAt>>
  BY DEF AdmitWithdraw, chain
<1>4. CASE ValidWithdraw(Tx(r)) /\ Tx(r).ixs[1].denom \in DenomTiers
  <2>1. req' = [req EXCEPT ![r] = q]
    BY <1>4, <1>1 DEF AdmitWithdraw, GuardInv, RelayerTypeOK
  <2>2. ValidWithdraw(Decoded[q.body])
    BY <1>4, <1>2 DEF Tx
  <2> QED BY <1>2, <1>3, <2>1, <2>2, Admitted
<1>5. CASE ~(ValidWithdraw(Tx(r)) /\ Tx(r).ixs[1].denom \in DenomTiers)
  <2>1. req' = [req EXCEPT ![r] = Idle]
    BY <1>5 DEF AdmitWithdraw
  <2>2. Idle.pc = "idle"
    BY DEF Idle
  <2> QED BY <1>3, <2>1, <2>2, IdleIsRequest, Admitted
<1> QED BY <1>4, <1>5

LEMMA AdmitDepositInv ==
  ASSUME GuardInv, NEW r \in Requests, AdmitDeposit(r)
  PROVE  GuardInv'
<1> DEFINE q == [req[r] EXCEPT !.at = clock]
<1>1. req[r] \in RequestRecords /\ clock \in Nat
  BY DEF GuardInv, RelayerTypeOK
<1>2. q \in RequestRecords /\ q.body = req[r].body /\ q.at = clock
  BY <1>1 DEF RequestRecords
<1>3. /\ req[r].pc = "admitted" /\ ~IsReplay(req[r].body)
      /\ seen' = [seen EXCEPT ![req[r].body] = clock]
      /\ UNCHANGED <<up, clock, cache, blocked, balance, paidAt>>
  BY DEF AdmitDeposit, chain
<1>4. CASE ValidDeposit(Tx(r)) /\ PartyOf(Tx(r)) \notin blocked
  <2>1. SpendCheck(r, q)
    BY <1>4 DEF AdmitDeposit
  <2>2. PICK next : SpendChecked(q, next) /\ req' = [req EXCEPT ![r] = next]
    BY <1>2, <2>1, SpendCheckOutcome
  <2>3. Lawful(Tx(r))
    BY <1>3, <1>4, Serving DEF Lawful, ValidDeposit
  <2>4. next.pc \in {"balance", "send"} => Lawful(Decoded[next.body])
    BY <1>2, <2>2, <2>3 DEF SpendChecked, Tx
  <2>5. next.pc = "balance" => next.now <= clock
    BY <1>1, <2>2 DEF SpendChecked
  <2> QED BY <1>2, <1>3, <2>2, <2>4, <2>5, Admitted DEF SpendChecked
<1>5. CASE ~(ValidDeposit(Tx(r)) /\ PartyOf(Tx(r)) \notin blocked)
  <2>1. req' = [req EXCEPT ![r] = Idle]
    BY <1>5 DEF AdmitDeposit
  <2>2. Idle.pc = "idle"
    BY DEF Idle
  <2> QED BY <1>3, <2>1, <2>2, IdleIsRequest, Admitted
<1> QED BY <1>4, <1>5

LEMMA ScreenInv ==
  ASSUME GuardInv, NEW r \in Requests, Screen(r)
  PROVE  GuardInv'
<1> DEFINE q == [req[r] EXCEPT !.pc = "screened"]
<1>1. req[r] \in RequestRecords /\ req[r].pc = "lookup" /\ up /\ blocked \in SanctionLists
  BY Serving DEF GuardInv, RelayerTypeOK, Screen
<1>2. /\ q \in RequestRecords /\ q.pc = "screened" /\ q.body = req[r].body
      /\ q.at = req[r].at /\ "lookup" \in PastGuard
  BY <1>1 DEF RequestRecords, PastGuard
<1>3. UNCHANGED <<up, clock, seen, cache, blocked, balance, paidAt>>
  BY DEF Screen, chain
<1>4. CASE req' = [req EXCEPT ![r] = Idle]
  BY <1>1, <1>3, <1>4, Ends
<1>5. CASE PartyOf(Tx(r)) \notin blocked /\ req' = [req EXCEPT ![r] = q]
  <2>1. ValidWithdraw(Tx(r))
    BY <1>1 DEF GuardInv, Screened
  <2>2. Lawful(Decoded[q.body])
    BY <1>1, <1>2, <1>5, <2>1 DEF Lawful, ValidWithdraw, Tx
  <2>3. q.body \in Bodies
    BY <1>1, <1>2 DEF GuardInv, Remembered
  <2> QED BY <1>1, <1>2, <1>3, <1>5, <2>2, <2>3, OneRequest
<1> QED BY <1>4, <1>5 DEF Screen

LEMMA CheckSpendInv ==
  ASSUME GuardInv, NEW r \in Requests, CheckSpend(r)
  PROVE  GuardInv'
<1>1. /\ req[r] \in RequestRecords /\ req[r].pc = "screened" /\ up
      /\ req[r].body \in Bodies /\ Lawful(Decoded[req[r].body])
  BY Serving DEF GuardInv, RelayerTypeOK, CheckSpend, Remembered, Screened, Tx, PastGuard
<1>2. UNCHANGED <<up, clock, seen, cache, blocked, balance, paidAt>>
  BY DEF CheckSpend, chain
<1>3. PICK next : SpendChecked(req[r], next) /\ req' = [req EXCEPT ![r] = next]
  BY <1>1, SpendCheckOutcome DEF CheckSpend
<1>4. /\ next.pc # "idle" => next.body \in Bodies
      /\ next.pc \in PastGuard => req[r].pc \in PastGuard /\ next.body = req[r].body
                                   /\ next.at = req[r].at
      /\ next.pc \in PastGuard \ {"lookup"} => Lawful(Decoded[next.body])
  BY <1>1, <1>3 DEF SpendChecked, PastGuard
<1>5. next.pc = "balance" => next.now <= clock
  BY <1>3 DEF SpendChecked, GuardInv, RelayerTypeOK
<1> QED BY <1>1, <1>2, <1>3, <1>4, <1>5, OneRequest DEF SpendChecked

LEMMA RpcReadsInv ==
  ASSUME GuardInv, NEW r \in Requests, RpcReads(r)
  PROVE  GuardInv'
<1> DEFINE q == [req[r] EXCEPT !.pc = "answer", !.bal = balance, !.readAt = clock]
<1>1. /\ req[r] \in RequestRecords /\ req[r].pc = "balance" /\ up
      /\ req[r].body \in Bodies /\ Lawful(Decoded[req[r].body])
      /\ req[r].now <= clock /\ clock \in Int /\ balance \in Nat
  BY Serving DEF GuardInv, RelayerTypeOK, RpcReads, Remembered, Screened, Tx, PastGuard,
                 DatedBeforeRead
<1>2. /\ q \in RequestRecords /\ q.pc = "answer" /\ q.body = req[r].body /\ q.at = req[r].at
      /\ q.now = req[r].now /\ q.readAt = clock
  <2>1. "answer" \in PastGuard
    BY DEF PastGuard
  <2> QED BY <1>1, <2>1 DEF RequestRecords
<1>3. req' = [req EXCEPT ![r] = q]
  BY DEF RpcReads, GuardInv, RelayerTypeOK
<1>4. UNCHANGED <<up, clock, seen, cache, blocked, balance, paidAt>>
  BY DEF RpcReads, guards, chain
<1>5. "balance" \in PastGuard
  BY DEF PastGuard
<1> QED BY <1>1, <1>2, <1>3, <1>4, <1>5, OneRequest

LEMMA BalanceAnsweredInv ==
  ASSUME GuardInv, NEW r \in Requests, BalanceAnswered(r)
  PROVE  GuardInv'
<1> DEFINE q == req[r]
           next == AfterBalance(q, q.bal, q.readAt)
<1>1. /\ q \in RequestRecords /\ q.pc = "answer" /\ up
      /\ q.body \in Bodies /\ Lawful(Decoded[q.body]) /\ q.now <= q.readAt
  BY Serving DEF GuardInv, RelayerTypeOK, BalanceAnswered, Remembered, Screened, Tx, PastGuard,
                 DatedBeforeRead
<1>2. q.bal \in Nat /\ q.readAt \in Int /\ q.now \in Int
  BY <1>1 DEF RequestRecords
<1>3. q.now - q.readAt < BalanceCacheTime
  BY <1>1, <1>2, RelayerConstants
<1>4. /\ next \in RequestRecords
      /\ next # Idle => /\ next.pc = "send" /\ next.body = q.body /\ next.at = q.at
                        /\ next.bal >= MinBalance
                        /\ next.now - next.readAt < BalanceCacheTime
  BY <1>1, <1>2, <1>3, AfterBalanceAllows
<1>5. Idle.pc = "idle" /\ "idle" \notin PastGuard /\ "answer" \in PastGuard
  BY DEF Idle, PastGuard
<1>6. req' = [req EXCEPT ![r] = next]
  BY DEF BalanceAnswered, GuardInv, RelayerTypeOK
<1>7. UNCHANGED <<up, clock, seen, blocked>>
  BY DEF BalanceAnswered
<1>8. /\ cache' \in [bal : Nat, at : Int, readAt : Int] /\ cache'.at <= cache'.readAt
  BY <1>1, <1>2 DEF BalanceAnswered
<1>9. balance' \in Nat /\ paidAt' \in [Txs -> Int] /\ PaidOnlyWithinPolicy'
  BY DEF BalanceAnswered, chain, GuardInv, RelayerTypeOK, PaidOnlyWithinPolicy
<1>10. CASE next = Idle
  BY <1>1, <1>4, <1>5, <1>6, <1>7, <1>8, <1>9, <1>10, OneRequestStep
<1>11. CASE next # Idle
  <2> HIDE DEF next
  <2>1. next.pc = "send" /\ next.body = q.body /\ next.at = q.at
    BY <1>4, <1>11
  <2> QED BY <1>1, <1>4, <1>5, <1>6, <1>7, <1>8, <1>9, <1>11, <2>1, OneRequestStep
<1> QED BY <1>10, <1>11

LEMMA ForwardInv ==
  ASSUME GuardInv, NEW r \in Requests, Forward(r)
  PROVE  GuardInv'
<1> DEFINE q == [req[r] EXCEPT !.pc = "sent", !.now = LongAgo, !.bal = 0, !.readAt = LongAgo]
<1>1. /\ req[r] \in RequestRecords /\ req[r].pc = "send" /\ up
      /\ req[r].body \in Bodies /\ Lawful(Decoded[req[r].body])
      /\ clock \in Nat /\ balance \in Nat /\ paidAt \in [Txs -> Int]
  BY Serving DEF GuardInv, RelayerTypeOK, Forward, Remembered, Screened, Tx, PastGuard
<1>2. /\ q \in RequestRecords /\ q.pc = "sent" /\ q.body = req[r].body /\ q.at = req[r].at
      /\ "send" \in PastGuard
  <2>1. "sent" \in PastGuard /\ "send" \in PastGuard /\ LongAgo \in Int
    BY LongAgoIsPast DEF PastGuard
  <2> QED BY <1>1, <2>1 DEF RequestRecords
<1>3. /\ req' = [req EXCEPT ![r] = q] /\ UNCHANGED <<up, clock, seen, cache, blocked>>
      /\ balance' = balance - 1 /\ balance > 0
      /\ paidAt' = [paidAt EXCEPT ![Decoded[req[r].body].id] = clock]
  BY DEF Forward, Tx, guards, GuardInv, RelayerTypeOK
<1>4. balance' \in Nat /\ paidAt' \in [Txs -> Int]
  <2>1. clock \in Int /\ balance - 1 \in Nat
    BY <1>1, <1>3
  <2> QED BY <1>1, <1>3, <2>1
<1>5. PaidOnlyWithinPolicy'
  <2> SUFFICES ASSUME NEW b \in Bodies, paidAt'[Decoded[b].id] # LongAgo
               PROVE  Lawful(Decoded[b])
    BY DEF PaidOnlyWithinPolicy, Lawful
  <2>1. CASE Decoded[b].id = Decoded[req[r].body].id
    BY <2>1, <1>1, RelayerConstants
  <2>2. CASE Decoded[b].id # Decoded[req[r].body].id
    <3>1. paidAt[Decoded[b].id] # LongAgo
      BY <2>2, <1>1, <1>3 DEF Txs
    <3> QED BY <3>1 DEF GuardInv, PaidOnlyWithinPolicy, Lawful
  <2> QED BY <2>1, <2>2
<1>6. /\ cache' \in [bal : Nat, at : Int, readAt : Int] /\ cache'.at <= cache'.readAt
  BY <1>3 DEF GuardInv, RelayerTypeOK, DatedBeforeRead
<1> QED BY <1>1, <1>2, <1>3, <1>4, <1>5, <1>6, OneRequestStep

LEMMA CrashInv == GuardInv /\ Crash => GuardInv'
<1> SUFFICES ASSUME GuardInv, Crash PROVE GuardInv'
  OBVIOUS
<1>1. LongAgo \in Int
  BY LongAgoIsPast
<1>2. \A r \in Requests : req'[r] = Idle /\ req'[r].pc = "idle"
  BY DEF Crash, Idle
<1>3. RelayerTypeOK'
  BY <1>1, IdleIsRequest DEF Crash, NoBalance, GuardInv, RelayerTypeOK
<1>4. ServesWithList'
  BY <1>2 DEF Crash, ServesWithList
<1>5. Remembered' /\ Screened' /\ NoReplayInFlight' /\ FloorReadRecently'
  BY <1>2 DEF Remembered, Screened, NoReplayInFlight, FloorReadRecently, PastGuard
<1>6. DatedBeforeRead'
  BY <1>1, <1>2 DEF Crash, NoBalance, DatedBeforeRead
<1>7. PaidOnlyWithinPolicy'
  BY DEF Crash, GuardInv, PaidOnlyWithinPolicy
<1> QED BY <1>3, <1>4, <1>5, <1>6, <1>7 DEF GuardInv

\* Start and ReloadSanctions put a list in force and touch nothing else.
LEMMA NewList ==
  ASSUME GuardInv, up', blocked' \in SanctionLists,
         UNCHANGED <<clock, req, seen, cache, balance, paidAt>>
  PROVE  GuardInv'
BY DEF GuardInv, RelayerTypeOK, ServesWithList, Remembered, Screened, Tx,
       DatedBeforeRead, NoReplayInFlight, FloorReadRecently, PaidOnlyWithinPolicy

LEMMA GuardNextInv == GuardInv /\ [Next]_vars => GuardInv'
<1> SUFFICES ASSUME GuardInv, [Next]_vars PROVE GuardInv'
  OBVIOUS
<1>1. clock \in Nat /\ clock >= clock
  BY DEF GuardInv, RelayerTypeOK
<1>2. CASE UNCHANGED vars
  BY <1>1, <1>2, NoRequest DEF vars, guards, chain
<1>3. ASSUME NEW r \in Requests, Handle(r) PROVE GuardInv'
  <2>1. ASSUME NEW ip \in Ips, NEW b \in Bodies, Submit(r, ip, b) \/ SubmitDeposit(r, ip, b)
        PROVE  GuardInv'
    BY <2>1, ArriveInv DEF Submit, SubmitDeposit
  <2>2. CASE RejectReplay(r) \/ Fail(r) \/ Commit(r) \/ LoseAnswer(r)
    <3>1. /\ req' = [req EXCEPT ![r] = Idle] /\ req[r].pc # "idle"
          /\ UNCHANGED <<up, clock, seen, cache, blocked, balance, paidAt>>
      BY <2>2 DEF RejectReplay, Fail, Commit, LoseAnswer, guards, chain
    <3> QED BY <3>1, Serving, Ends
  <2> QED
    BY <1>3, <2>1, <2>2, AdmitWithdrawInv, AdmitDepositInv, ScreenInv, CheckSpendInv,
       RpcReadsInv, BalanceAnsweredInv, ForwardInv DEF Handle
<1>4. ASSUME NEW ip \in Ips, Quote(ip) \/ DepositQuote(ip) PROVE GuardInv'
  <2>1. UNCHANGED <<up, clock, req, seen, cache, blocked, balance, paidAt>>
    BY <1>4 DEF Quote, DepositQuote, chain
  <2> QED BY <1>1, <2>1, NoRequest
<1>5. CASE Start
  BY <1>5, NewList DEF Start, guards, chain
<1>6. CASE Crash
  BY <1>6, CrashInv
<1>7. CASE ReloadSanctions
  BY <1>7, NewList DEF ReloadSanctions, guards, chain
<1>8. CASE Tick
  <2>1. clock' \in Nat /\ clock' >= clock
    BY <1>1, <1>8 DEF Tick
  <2> QED BY <1>8, <2>1, NoRequest DEF Tick, chain
<1> QED BY <1>2, <1>3, <1>4, <1>5, <1>6, <1>7, <1>8 DEF Next

-----------------------------------------------------------------------------
\* Whatever the order of reloads, crashes, awaits and overlapping requests, the
\* relayer pays for no party every list names and for no deposit that leaves its
\* fee elsewhere (index.ts fail-closed start, submit.ts, submit-deposit.ts).
THEOREM PolicyHolds == Spec => []PaidOnlyWithinPolicy
<1>1. GuardInv => PaidOnlyWithinPolicy
  BY DEF GuardInv
<1> QED BY <1>1, GuardInitInv, GuardNextInv, PTL DEF Spec

\* Two requests past the replay guard hold one text only a whole TTL apart, for
\* any number of requests and any TTL (replay-guard.ts admit).
THEOREM ReplaysHeldOff == Spec => []NoReplayInFlight
<1>1. GuardInv => NoReplayInFlight
  BY DEF GuardInv
<1> QED BY <1>1, GuardInitInv, GuardNextInv, PTL DEF Spec

\* A send rests on a balance at the floor read within the cache time before the
\* check, however late or out of order the answers come (spend-guard.ts).
THEOREM FloorHolds == Spec => []FloorReadRecently
<1>1. GuardInv => FloorReadRecently
  BY DEF GuardInv
<1> QED BY <1>1, GuardInitInv, GuardNextInv, PTL DEF Spec

-----------------------------------------------------------------------------
(***************************************************************************)
(* Theorems about the relayer's sliding windows.  RateInv: a bucket, once   *)
(* trimmed, is exactly the record of the calls this process allowed.        *)
(* CapInv: for every time from the start of the window on, no more of the   *)
(* transactions the guard heard of were paid after it than sends counted    *)
(* after it, and a request that passed the cap has a place reserved by the  *)
(* number of slots.                                                         *)
(***************************************************************************)

-----------------------------------------------------------------------------
(* What the window keeps of a bucket: the first time it still covers and    *)
(* everything after it.                                                     *)

LEMMA LeastIndex ==
  ASSUME NEW T, T \subseteq Nat, T # {}
  PROVE  \E i \in T : \A j \in T : i <= j
<1>1. PICK i \in T : \A j \in T : ~(<<j, i>> \in OpToRel(<, Nat))
  BY NatLessThanWellFounded, WFMin
<1>2. ASSUME NEW j \in T PROVE i <= j
  <2>1. i \in Nat /\ j \in Nat
    OBVIOUS
  <2>2. ~(j < i)
    BY <1>1, <2>1 DEF OpToRel
  <2> QED BY <2>1, <2>2
<1> QED BY <1>2

LEMMA DropAll ==
  ASSUME NEW times \in Seq(Int), NEW cutoff \in Int,
         \A i \in 1 .. Len(times) : ~(times[i] > cutoff)
  PROVE  DropExpired(times, cutoff) = <<>>
<1>1. {i \in 1 .. Len(times) : times[i] > cutoff} = {}
  OBVIOUS
<1>2. DropExpired(times, cutoff) = SubSeq(times, Len(times) + 1, Len(times))
  BY <1>1 DEF DropExpired
<1>3. Len(times) \in Int /\ Len(times) < Len(times) + 1
  BY LenProperties
<1> QED BY <1>2, <1>3, SubSeqEmpty

LEMMA DropNothing ==
  ASSUME NEW cutoff \in Int
  PROVE  DropExpired(<<>>, cutoff) = <<>>
<1>1. <<>> \in Seq(Int) /\ \A i \in 1 .. Len(<<>>) : ~(<<>>[i] > cutoff)
  OBVIOUS
<1> QED BY <1>1, DropAll

LEMMA DropBefore ==
  ASSUME NEW times \in Seq(Int), NEW cutoff \in Int,
         NEW first \in 1 .. Len(times), times[first] > cutoff,
         \A j \in 1 .. first - 1 : ~(times[j] > cutoff)
  PROVE  DropExpired(times, cutoff) = SubSeq(times, first, Len(times))
<1> DEFINE kept == {i \in 1 .. Len(times) : times[i] > cutoff}
<1>1. first \in kept /\ \A i \in kept : first <= i
  OBVIOUS
<1>2. \A i \in kept : (\A j \in kept : i <= j) => i = first
  BY <1>1
<1>3. (CHOOSE i \in kept : \A j \in kept : i <= j) = first
  BY <1>1, <1>2
<1> QED BY <1>1, <1>3 DEF DropExpired

\* Both cases: nothing is left, or a first time that is.
LEMMA DropCases ==
  ASSUME NEW times \in Seq(Int), NEW cutoff \in Int
  PROVE  \/ \A i \in 1 .. Len(times) : ~(times[i] > cutoff)
         \/ \E first \in 1 .. Len(times) :
              /\ times[first] > cutoff
              /\ \A j \in 1 .. first - 1 : ~(times[j] > cutoff)
<1> DEFINE kept == {i \in 1 .. Len(times) : times[i] > cutoff}
<1>1. CASE kept = {}
  BY <1>1
<1>2. CASE kept # {}
  <2>1. kept \subseteq Nat
    OBVIOUS
  <2>2. PICK first \in kept : \A j \in kept : first <= j
    BY <1>2, <2>1, LeastIndex
  <2>3. first \in 1 .. Len(times) /\ times[first] > cutoff /\ Len(times) \in Nat
    OBVIOUS
  <2>4. ASSUME NEW j \in 1 .. first - 1 PROVE ~(times[j] > cutoff)
    <3>1. j \in 1 .. Len(times) /\ ~(first <= j)
      BY <2>3
    <3> QED BY <3>1, <2>2
  <2> QED BY <2>3, <2>4
<1> QED BY <1>1, <1>2

\* The window drops the first k times, which are all out of it, and stops at one
\* that is not.
Drops(times, cutoff, kept, k) ==
  /\ k \in 0 .. Len(times)
  /\ kept \in Seq(Int) /\ Len(kept) = Len(times) - k
  /\ \A i \in 1 .. Len(kept) : kept[i] = times[i + k]
  /\ \A j \in 1 .. k : ~(times[j] > cutoff)
  /\ k < Len(times) => times[k + 1] > cutoff

LEMMA DropExpiredDrops ==
  ASSUME NEW times \in Seq(Int), NEW cutoff \in Int
  PROVE  \E k \in 0 .. Len(times) : Drops(times, cutoff, DropExpired(times, cutoff), k)
<1>0. Len(times) \in Nat
  OBVIOUS
<1>1. CASE \A i \in 1 .. Len(times) : ~(times[i] > cutoff)
  <2>1. DropExpired(times, cutoff) = <<>>
    BY <1>1, DropAll
  <2>2. <<>> \in Seq(Int) /\ Len(<<>>) = 0
    OBVIOUS
  <2>3. Drops(times, cutoff, <<>>, Len(times))
    BY <1>0, <1>1, <2>2 DEF Drops
  <2> QED BY <1>0, <2>1, <2>3
<1>2. ASSUME NEW first \in 1 .. Len(times), times[first] > cutoff,
             \A j \in 1 .. first - 1 : ~(times[j] > cutoff)
      PROVE  Drops(times, cutoff, DropExpired(times, cutoff), first - 1)
  <2> DEFINE kept == SubSeq(times, first, Len(times))
  <2>1. DropExpired(times, cutoff) = kept
    BY <1>2, DropBefore
  <2>2. first \in Int /\ Len(times) \in Int /\ \A i \in first .. Len(times) : times[i] \in Int
    OBVIOUS
  <2>3. /\ kept \in Seq(Int)
        /\ Len(kept) = IF first <= Len(times) THEN Len(times) - first + 1 ELSE 0
        /\ \A i \in 1 .. Len(times) - first + 1 : kept[i] = times[first + i - 1]
    BY <2>2, SubSeqProperties
  <2>4. Len(kept) = Len(times) - (first - 1)
    BY <2>2, <2>3
  <2>5. ASSUME NEW i \in 1 .. Len(kept) PROVE kept[i] = times[i + (first - 1)]
    <3>1. i \in 1 .. Len(times) - first + 1 /\ first + i - 1 = i + (first - 1)
      BY <2>2, <2>4
    <3> QED BY <2>3, <3>1
  <2>6. (first - 1) \in 0 .. Len(times) /\ first - 1 + 1 = first
    BY <1>0
  <2> HIDE DEF kept
  <2>7. Drops(times, cutoff, kept, first - 1)
    BY <1>2, <2>3, <2>4, <2>5, <2>6 DEF Drops
  <2> QED BY <2>1, <2>7
<1>3. \A first \in 1 .. Len(times) : first - 1 \in 0 .. Len(times)
  BY <1>0
<1> QED BY <1>0, <1>1, <1>2, <1>3, DropCases

LEMMA DropExpiredSeq ==
  ASSUME NEW times \in Seq(Int), NEW cutoff \in Int
  PROVE  /\ DropExpired(times, cutoff) \in Seq(Int)
         /\ Len(DropExpired(times, cutoff)) <= Len(times)
<1>1. PICK k \in 0 .. Len(times) : Drops(times, cutoff, DropExpired(times, cutoff), k)
  BY DropExpiredDrops
<1>2. Len(times) \in Nat
  OBVIOUS
<1> QED BY <1>1, <1>2 DEF Drops

\* Trimming for an earlier time first changes nothing.
LEMMA DropTwice ==
  ASSUME NEW times \in Seq(Int), NEW c \in Int, NEW d \in Int, c <= d
  PROVE  DropExpired(DropExpired(times, c), d) = DropExpired(times, d)
<1> DEFINE early == DropExpired(times, c)
           late == DropExpired(early, d)
           once == DropExpired(times, d)
<1>1. early \in Seq(Int)
  BY DropExpiredSeq
<1>2. PICK a \in 0 .. Len(times) : Drops(times, c, early, a)
  BY DropExpiredDrops
<1>3. PICK b \in 0 .. Len(early) : Drops(early, d, late, b)
  BY <1>1, DropExpiredDrops
<1>4. PICK k \in 0 .. Len(times) : Drops(times, d, once, k)
  BY DropExpiredDrops
<1> HIDE DEF early, late, once
<1>5. Len(times) \in Nat /\ Len(early) = Len(times) - a /\ \A i \in 1 .. Len(times) : times[i] \in Int
  BY <1>2 DEF Drops
<1>6. ASSUME NEW j \in 1 .. a + b PROVE ~(times[j] > d)
  <2>1. CASE j <= a
    <3>1. ~(times[j] > c) /\ times[j] \in Int
      BY <2>1, <1>2, <1>5 DEF Drops
    <3> QED BY <3>1
  <2>2. CASE ~(j <= a)
    <3>1. j - a \in 1 .. b /\ j - a \in 1 .. Len(early) /\ (j - a) + a = j
      BY <2>2, <1>5
    <3>2. ~(early[j - a] > d) /\ early[j - a] = times[(j - a) + a]
      BY <3>1, <1>2, <1>3 DEF Drops
    <3> QED BY <3>1, <3>2
  <2> QED BY <2>1, <2>2
<1>7. a + b < Len(times) => times[a + b + 1] > d
  <2> SUFFICES ASSUME a + b < Len(times) PROVE times[a + b + 1] > d
    OBVIOUS
  <2>1. b < Len(early) /\ b + 1 \in 1 .. Len(early) /\ (b + 1) + a = a + b + 1
    BY <1>5
  <2>2. early[b + 1] > d /\ early[b + 1] = times[(b + 1) + a]
    BY <2>1, <1>2, <1>3 DEF Drops
  <2> QED BY <2>1, <2>2
<1>8. k = a + b
  <2>1. ~(k < a + b)
    <3> SUFFICES ASSUME k < a + b PROVE FALSE
      OBVIOUS
    <3>1. k + 1 \in 1 .. a + b /\ k < Len(times)
      BY <1>5
    <3>2. times[k + 1] > d
      BY <3>1, <1>4 DEF Drops
    <3> QED BY <3>1, <3>2, <1>6
  <2>2. ~(a + b < k)
    <3> SUFFICES ASSUME a + b < k PROVE FALSE
      OBVIOUS
    <3>1. a + b + 1 \in 1 .. k /\ a + b < Len(times)
      BY <1>5
    <3>2. ~(times[a + b + 1] > d)
      BY <3>1, <1>4 DEF Drops
    <3> QED BY <3>1, <3>2, <1>7
  <2> QED BY <2>1, <2>2, <1>5
<1>9. Len(late) = Len(once) /\ Len(once) = Len(times) - (a + b)
  BY <1>3, <1>4, <1>5, <1>8 DEF Drops
<1>10. ASSUME NEW i \in 1 .. Len(late) PROVE late[i] = once[i]
  <2>1. i + b \in 1 .. Len(early) /\ (i + b) + a = i + k
    BY <1>5, <1>8, <1>9
  <2>2. late[i] = early[i + b] /\ early[i + b] = times[(i + b) + a] /\ once[i] = times[i + k]
    BY <2>1, <1>2, <1>3, <1>4, <1>9 DEF Drops
  <2> QED BY <2>1, <2>2
<1>11. late \in Seq(Int) /\ once \in Seq(Int)
  BY <1>3, <1>4 DEF Drops
<1>12. late = once
  BY <1>9, <1>10, <1>11, SeqEqual
<1> QED BY <1>12 DEF late, once, early

-----------------------------------------------------------------------------
(* The rate limiter.                                                        *)

\* A bucket trimmed to the window is the record of the calls allowed in it.
RateInv ==
  /\ clock \in Nat
  /\ hits \in [Keys -> Seq(Int)]
  /\ recent = [k \in Keys |-> LiveHits(k)]
  /\ RateLimited

LEMMA LimitIsNat == \A k \in Keys : LimitOf(k) \in Nat
BY RelayerConstants DEF LimitOf

LEMMA RateInitInv == Init => RateInv
<1> SUFFICES ASSUME Init PROVE RateInv
  OBVIOUS
<1>1. clock = 0 /\ hits = [k \in Keys |-> <<>>] /\ recent = [k \in Keys |-> <<>>]
  BY DEF Init
<1>2. <<>> \in Seq(Int) /\ Len(<<>>) = 0 /\ clock - RateWindow \in Int
  BY <1>1, RelayerConstants
<1>3. DropExpired(<<>>, clock - RateWindow) = <<>>
  BY <1>2, DropNothing
<1>4. \A k \in Keys : LiveHits(k) = <<>>
  BY <1>1, <1>3 DEF LiveHits
<1>5. RateLimited
  BY <1>1, <1>2, LimitIsNat DEF RateLimited
<1> QED BY <1>1, <1>2, <1>4, <1>5 DEF RateInv

\* A trimmed bucket is a sequence of times that trimming again leaves alone.
LEMMA LiveIsTrimmed ==
  ASSUME RateInv, NEW k \in Keys
  PROVE  /\ LiveHits(k) \in Seq(Int) /\ recent[k] = LiveHits(k)
         /\ DropExpired(LiveHits(k), clock - RateWindow) = LiveHits(k)
<1>1. hits[k] \in Seq(Int) /\ clock - RateWindow \in Int
  BY RelayerConstants DEF RateInv
<1>2. clock - RateWindow <= clock - RateWindow
  BY <1>1
<1> QED BY <1>1, <1>2, DropExpiredSeq, DropTwice DEF LiveHits, RateInv

LEMMA RateCheckInv ==
  ASSUME RateInv, NEW key, RateCheck(key), UNCHANGED clock
  PROVE  RateInv'
<1> DEFINE cutoff == clock - RateWindow
<1>1. clock \in Nat /\ cutoff \in Int
  BY RelayerConstants DEF RateInv
<1>2. CASE RateAllows(key)
  <2>1. /\ hits' = [hits EXCEPT ![key] = Append(LiveHits(key), clock)]
        /\ recent' = [recent EXCEPT ![key] = DropExpired(Append(recent[key], clock), cutoff)]
        /\ Len(LiveHits(key)) < LimitOf(key)
    BY <1>2 DEF RateCheck, RateAllows
  <2>2. ASSUME NEW k \in Keys
        PROVE  /\ hits'[k] \in Seq(Int) /\ recent'[k] = LiveHits(k)'
               /\ Len(recent'[k]) <= LimitOf(k)
    <3>1. CASE k = key
      <4> DEFINE longer == Append(LiveHits(k), clock)
      <4>1. LiveHits(k) \in Seq(Int) /\ recent[k] = LiveHits(k)
        BY LiveIsTrimmed
      <4>2. longer \in Seq(Int) /\ Len(longer) = Len(LiveHits(k)) + 1 /\ Len(LiveHits(k)) \in Nat
        BY <4>1, <1>1
      <4>3. hits'[k] = longer /\ recent'[k] = DropExpired(longer, cutoff)
        BY <2>1, <3>1, <4>1 DEF RateInv
      <4>4. LiveHits(k)' = DropExpired(longer, cutoff)
        BY <4>3 DEF LiveHits
      <4> HIDE DEF longer, cutoff
      <4>5. DropExpired(longer, cutoff) \in Seq(Int) /\ Len(DropExpired(longer, cutoff)) <= Len(longer)
        BY <4>2, <1>1, DropExpiredSeq
      <4>6. Len(DropExpired(longer, cutoff)) <= LimitOf(k)
        BY <4>2, <4>5, <2>1, <3>1, LimitIsNat
      <4> QED BY <4>2, <4>3, <4>4, <4>6
    <3>2. CASE k # key
      <4>1. hits'[k] = hits[k] /\ recent'[k] = recent[k]
        BY <2>1, <3>2 DEF RateInv
      <4> QED BY <4>1 DEF RateInv, LiveHits, RateLimited
    <3> QED BY <3>1, <3>2
  <2>3. hits' \in [Keys -> Seq(Int)] /\ recent' = [k \in Keys |-> LiveHits(k)']
    BY <2>1, <2>2 DEF RateInv
  <2> QED BY <1>1, <2>2, <2>3 DEF RateInv, RateLimited
<1>3. CASE ~RateAllows(key)
  <2>1. hits' = [hits EXCEPT ![key] = LiveHits(key)] /\ recent' = recent
    BY <1>3 DEF RateCheck
  <2>2. ASSUME NEW k \in Keys
        PROVE  hits'[k] \in Seq(Int) /\ LiveHits(k)' = LiveHits(k)
    <3>1. CASE k = key
      <4>1. hits'[k] = LiveHits(k)
        BY <2>1, <3>1 DEF RateInv
      <4> QED BY <4>1, LiveIsTrimmed DEF LiveHits
    <3>2. CASE k # key
      BY <2>1, <3>2 DEF RateInv, LiveHits
    <3> QED BY <3>1, <3>2
  <2>3. hits' \in [Keys -> Seq(Int)] /\ recent' = [k \in Keys |-> LiveHits(k)']
    BY <2>1, <2>2 DEF RateInv
  <2> QED BY <1>1, <2>1, <2>3 DEF RateInv, RateLimited
<1> QED BY <1>2, <1>3

LEMMA RateTickInv == RateInv /\ Tick => RateInv'
<1> SUFFICES ASSUME RateInv, Tick PROVE RateInv'
  OBVIOUS
<1>1. clock \in Nat /\ clock' = clock + 1 /\ hits' = hits
  BY DEF RateInv, Tick
<1>2. ASSUME NEW k \in Keys
      PROVE  recent'[k] = LiveHits(k)' /\ Len(recent'[k]) <= LimitOf(k)
  <2> DEFINE c == clock - RateWindow
             d == clock + 1 - RateWindow
  <2>1. hits[k] \in Seq(Int) /\ c \in Int /\ d \in Int /\ c <= d
    BY SMTT(30), <1>1, RelayerConstants DEF RateInv
  <2>2. recent[k] = DropExpired(hits[k], c) /\ recent[k] \in Seq(Int)
    BY <2>1, LiveIsTrimmed DEF LiveHits
  <2>3. recent'[k] = DropExpired(recent[k], d) /\ LiveHits(k)' = DropExpired(hits[k], d)
    <3>1. recent'[k] = DropExpired(recent[k], d)
      BY DEF Tick
    <3>2. LiveHits(k)' = DropExpired(hits[k], d)
      <4>1. LiveHits(k)' = DropExpired(hits'[k], clock' - RateWindow)
        BY DEF LiveHits
      <4>2. hits'[k] = hits[k] /\ clock' - RateWindow = d
        BY <1>1, RelayerConstants
      <4> QED BY <4>1, <4>2
    <3> QED BY <3>1, <3>2
  <2> HIDE DEF c, d
  <2>4. recent'[k] = LiveHits(k)'
    BY <2>1, <2>2, <2>3, DropTwice
  <2>5. Len(recent'[k]) <= Len(recent[k]) /\ recent'[k] \in Seq(Int)
    BY <2>1, <2>2, <2>3, DropExpiredSeq
  <2>6. Len(recent[k]) <= LimitOf(k)
    BY DEF RateInv, RateLimited
  <2> QED BY <2>2, <2>4, <2>5, <2>6, LimitIsNat
<1>3. recent' = [k \in Keys |-> LiveHits(k)']
  BY <1>2 DEF Tick
<1> QED BY <1>1, <1>2, <1>3 DEF RateInv, RateLimited

LEMMA RateNextInv == RateInv /\ [Next]_vars => RateInv'
<1> SUFFICES ASSUME RateInv, [Next]_vars PROVE RateInv'
  OBVIOUS
<1>1. ASSUME UNCHANGED <<clock, hits, recent>> PROVE RateInv'
  BY <1>1 DEF RateInv, RateLimited, LiveHits
<1>2. CASE UNCHANGED vars
  BY <1>1, <1>2 DEF vars, guards
<1>3. ASSUME NEW r \in Requests, Handle(r) PROVE RateInv'
  <2>1. ASSUME NEW ip \in Ips, NEW b \in Bodies, Submit(r, ip, b) \/ SubmitDeposit(r, ip, b)
        PROVE  RateInv'
    BY <2>1, RateCheckInv DEF Submit, SubmitDeposit, Arrive
  <2>2. CASE Screen(r)
    <3>1. UNCHANGED clock
      BY <2>2 DEF Screen
    <3>2. CASE PartyOf(Tx(r)) \in blocked
      BY <2>2, <3>1, <3>2, <1>1 DEF Screen
    <3>3. CASE PartyOf(Tx(r)) \notin blocked
      BY <2>2, <3>1, <3>3, RateCheckInv DEF Screen
    <3> QED BY <3>2, <3>3
  <2>3. CASE RejectReplay(r) \/ AdmitWithdraw(r) \/ AdmitDeposit(r) \/ CheckSpend(r)
             \/ RpcReads(r) \/ BalanceAnswered(r) \/ Fail(r) \/ Forward(r) \/ Commit(r)
             \/ LoseAnswer(r)
    BY <2>3, <1>1 DEF RejectReplay, AdmitWithdraw, AdmitDeposit, CheckSpend, RpcReads,
       BalanceAnswered, Fail, Forward, Commit, LoseAnswer, guards
  <2> QED BY <1>3, <2>1, <2>2, <2>3 DEF Handle
<1>4. ASSUME NEW ip \in Ips, Quote(ip) \/ DepositQuote(ip) PROVE RateInv'
  BY <1>4, RateCheckInv DEF Quote, DepositQuote
<1>5. CASE Crash
  <2>1. clock' = clock /\ hits' = [k \in Keys |-> <<>>] /\ recent' = [k \in Keys |-> <<>>]
    BY <1>5 DEF Crash
  <2>2. <<>> \in Seq(Int) /\ Len(<<>>) = 0 /\ clock \in Nat /\ clock - RateWindow \in Int
    BY RelayerConstants DEF RateInv
  <2>3. DropExpired(<<>>, clock - RateWindow) = <<>>
    BY <2>2, DropNothing
  <2>4. \A k \in Keys : LiveHits(k)' = <<>>
    BY <2>1, <2>3 DEF LiveHits
  <2>5. RateLimited'
    BY <2>1, <2>2, LimitIsNat DEF RateLimited
  <2> QED BY <2>1, <2>2, <2>4, <2>5 DEF RateInv
<1>6. CASE Start \/ ReloadSanctions
  BY <1>6, <1>1 DEF Start, ReloadSanctions, guards
<1>7. CASE Tick
  BY <1>7, RateTickInv
<1> QED BY <1>2, <1>3, <1>4, <1>5, <1>6, <1>7 DEF Next

\* In no stretch as long as the window does a process allow a key more calls
\* than its limit, for any limits, windows and overlapping requests
\* (rate-limit.ts, the sliding window every route shares).
THEOREM RatesHold == Spec => []RateLimited
<1>1. RateInv => RateLimited
  BY DEF RateInv
<1> QED BY <1>1, RateInitInv, RateNextInv, PTL DEF Spec

-----------------------------------------------------------------------------
(* The spend guard: how many of the counted sends lie after a time.         *)

Over(times, c) == {i \in 1 .. Len(times) : times[i] > c}

LEMMA OverFinite ==
  ASSUME NEW times \in Seq(Int), NEW c \in Int
  PROVE  /\ IsFiniteSet(Over(times, c)) /\ Cardinality(Over(times, c)) \in Nat
         /\ Cardinality(Over(times, c)) <= Len(times)
<1>1. Len(times) \in Nat /\ Over(times, c) \in SUBSET (1 .. Len(times))
  BY DEF Over
<1>2. IsFiniteSet(1 .. Len(times)) /\ Cardinality(1 .. Len(times)) = Len(times)
  <2>1. 1 \in Int /\ Len(times) \in Int
    BY <1>1
  <2>2. /\ IsFiniteSet(1 .. Len(times))
        /\ Cardinality(1 .. Len(times)) = IF 1 > Len(times) THEN 0 ELSE Len(times) - 1 + 1
    BY <2>1, FS_Interval
  <2> QED BY <1>1, <2>2
<1> QED BY <1>1, <1>2, FS_Subset, FS_CardinalityType

LEMMA OverLater ==
  ASSUME NEW times \in Seq(Int), NEW c \in Int, NEW d \in Int, c <= d
  PROVE  Cardinality(Over(times, d)) <= Cardinality(Over(times, c))
<1>1. ASSUME NEW i \in Over(times, d) PROVE i \in Over(times, c)
  <2>1. i \in 1 .. Len(times) /\ times[i] > d /\ times[i] \in Int
    BY <1>1 DEF Over
  <2> QED BY <2>1 DEF Over
<1> QED BY <1>1, OverFinite, FS_Subset

LEMMA OverAppend ==
  ASSUME NEW times \in Seq(Int), NEW c \in Int, NEW t \in Int
  PROVE  Cardinality(Over(Append(times, t), c)) =
           Cardinality(Over(times, c)) + (IF t > c THEN 1 ELSE 0)
<1> DEFINE longer == Append(times, t)
           last == Len(times) + 1
<1>1. /\ Len(times) \in Nat /\ Len(longer) = last /\ longer[last] = t
      /\ \A i \in 1 .. Len(times) : longer[i] = times[i]
  OBVIOUS
<1> HIDE DEF longer
<1>2. IsFiniteSet(Over(times, c)) /\ Cardinality(Over(times, c)) \in Nat /\ last \notin Over(times, c)
  <2>1. last \notin Over(times, c)
    BY <1>1 DEF Over
  <2> QED BY <2>1, OverFinite
<1>3. CASE t > c
  <2>1. Over(longer, c) = Over(times, c) \cup {last}
    BY <1>1, <1>3 DEF Over
  <2>2. Cardinality(Over(longer, c)) = Cardinality(Over(times, c)) + 1
    BY <1>2, <2>1, FS_AddElement
  <2> QED BY <1>3, <2>2 DEF longer
<1>4. CASE ~(t > c)
  <2>1. Over(longer, c) = Over(times, c)
    BY <1>1, <1>4 DEF Over
  <2> QED BY <1>2, <1>4, <2>1 DEF longer
<1> QED BY <1>3, <1>4

\* Trimming the window loses nothing that lies after its start.
LEMMA OverDropped ==
  ASSUME NEW times \in Seq(Int), NEW cutoff \in Int, NEW c \in Int, cutoff <= c
  PROVE  Cardinality(Over(DropExpired(times, cutoff), c)) = Cardinality(Over(times, c))
<1> DEFINE kept == DropExpired(times, cutoff)
           S == Over(kept, c)
           T == Over(times, c)
<1>1. kept \in Seq(Int)
  BY DropExpiredSeq
<1>2. PICK k \in 0 .. Len(times) : Drops(times, cutoff, kept, k)
  BY DropExpiredDrops
<1> HIDE DEF kept
<1> DEFINE f == [i \in S |-> i + k]
<1>3. /\ Len(times) \in Nat /\ Len(kept) = Len(times) - k
      /\ \A i \in 1 .. Len(kept) : kept[i] = times[i + k]
  BY <1>2 DEF Drops
<1>4. ASSUME NEW i \in S PROVE i \in Nat /\ f[i] = i + k /\ f[i] \in T
  <2>1. i \in 1 .. Len(kept) /\ kept[i] > c
    BY DEF Over
  <2>2. i + k \in 1 .. Len(times) /\ times[i + k] > c
    BY <2>1, <1>3
  <2> QED BY <2>1, <2>2 DEF Over
<1>5. ASSUME NEW j \in T PROVE \E i \in S : f[i] = j
  <2>1. j \in 1 .. Len(times) /\ times[j] > c /\ times[j] \in Int
    BY DEF Over
  <2>2. ~(j <= k)
    <3>1. \A x \in 1 .. k : ~(times[x] > cutoff)
      BY <1>2 DEF Drops
    <3> QED BY <2>1, <3>1
  <2>3. j - k \in 1 .. Len(kept) /\ (j - k) + k = j
    BY <1>3, <2>1, <2>2
  <2>4. j - k \in S
    BY <1>3, <2>1, <2>3 DEF Over
  <2> QED BY <2>3, <2>4
<1>6. \A a, b \in S : f[a] = f[b] => a = b
  BY <1>4
<1> HIDE DEF f, S, T
<1>7. f \in [S -> T]
  BY <1>4 DEF f
<1>8. f \in Bijection(S, T)
  BY <1>5, <1>6, <1>7 DEF Bijection, Injection, Surjection, IsInjective
<1>9. ExistsBijection(S, T)
  BY <1>8 DEF ExistsBijection
<1>10. IsFiniteSet(S)
  BY <1>1, OverFinite DEF S
<1>11. Cardinality(T) = Cardinality(S)
  BY <1>9, <1>10, FS_Bijection
<1> QED BY <1>11 DEF S, T, kept

-----------------------------------------------------------------------------
(* Transactions the guard heard of, and requests it has let past the cap.   *)

Paid == {t \in Txs : paidAt[t] # LongAgo}
Sent == {r \in Requests : req[r].pc = "sent"}
Passed == {r \in Requests : req[r].pc \in {"balance", "answer", "send", "sent"}}
Counted == (Paid \ forgotten) \ {Tx(r).id : r \in Sent}
CountedOver(c) == {t \in Counted : paidAt[t] > c}
Cutoff == clock - SpendWindow

\* No more of the counted transactions than of the counted sends lie after c.
SendsCoverPayments ==
  \A c \in Int : Cutoff <= c =>
    Cardinality(CountedOver(c)) <= Cardinality(Over(spendHits, c))

\* Requests past the cap and counted sends share the places there are.
PlacesReserved ==
  Cardinality(Over(spendHits, Cutoff)) + Cardinality(Passed)
    <= MaxTxPerWindow - 1 + Cardinality(Requests)

CapInv ==
  /\ GuardInv
  /\ spendHits \in Seq(Int)
  /\ IsFiniteSet(Paid)
  /\ \A t \in Txs : paidAt[t] <= clock
  /\ \A r \in Sent : Tx(r).id \in Paid
  /\ SendsCoverPayments /\ PlacesReserved

LEMMA CutoffIsInt == CapInv => Cutoff \in Int
BY SMTT(30), RelayerConstants DEF CapInv, GuardInv, RelayerTypeOK, Cutoff

LEMMA PassedFinite ==
  /\ IsFiniteSet(Passed) /\ Cardinality(Passed) \in Nat
  /\ Cardinality(Requests) \in Nat /\ Cardinality(Passed) <= Cardinality(Requests)
<1>1. Passed \in SUBSET Requests /\ IsFiniteSet(Requests)
  BY RelayerConstants DEF Passed
<1> QED BY <1>1, FS_Subset, FS_CardinalityType

LEMMA CountedFinite ==
  ASSUME CapInv, NEW c \in Int
  PROVE  IsFiniteSet(CountedOver(c)) /\ Cardinality(CountedOver(c)) \in Nat
<1>1. CountedOver(c) \in SUBSET Paid /\ IsFiniteSet(Paid)
  BY DEF CapInv, CountedOver, Counted
<1> QED BY <1>1, FS_Subset, FS_CardinalityType

\* The invariant bounds what the window saw paid.
LEMMA CapBound == CapInv => SpendCapWithinOverlap
<1> SUFFICES ASSUME CapInv PROVE SpendCapWithinOverlap
  OBVIOUS
<1> DEFINE W == {t \in Txs \ forgotten : paidAt[t] > Cutoff}
           Carried == {Tx(r).id : r \in Sent}
<1>1. clock \in Nat /\ Cutoff \in Int /\ spendHits \in Seq(Int)
  BY CutoffIsInt DEF CapInv, GuardInv, RelayerTypeOK
<1>2. LongAgo < Cutoff /\ LongAgo \in Int
  <2>1. SpendWindow \in Nat /\ ReplayTtl \in Nat /\ BalanceCacheTime \in Nat
    BY RelayerConstants
  <2> QED BY <1>1, <2>1 DEF LongAgo, Cutoff
<1>3. W \subseteq CountedOver(Cutoff) \cup Carried
  <2> SUFFICES ASSUME NEW t \in W, t \notin Carried PROVE t \in CountedOver(Cutoff)
    OBVIOUS
  <2>1. t \in Txs /\ t \notin forgotten /\ paidAt[t] > Cutoff /\ paidAt[t] # LongAgo
    BY <1>1, <1>2
  <2> QED BY <2>1 DEF CountedOver, Counted, Paid
<1>4. Sent \in SUBSET Passed /\ IsFiniteSet(Passed)
  BY PassedFinite DEF Sent, Passed
<1>5. /\ IsFiniteSet(Sent) /\ Cardinality(Sent) <= Cardinality(Passed)
      /\ Cardinality(Sent) \in Nat /\ Cardinality(Passed) \in Nat
  BY <1>4, FS_Subset, FS_CardinalityType
<1>6. IsFiniteSet(Carried) /\ Cardinality(Carried) <= Cardinality(Sent)
  <2> DEFINE f == [r \in Sent |-> Tx(r).id]
  <2>1. f \in [Sent -> Carried] /\ \A t \in Carried : \E r \in Sent : f[r] = t
    OBVIOUS
  <2>2. f \in Surjection(Sent, Carried)
    BY <2>1 DEF Surjection
  <2> HIDE DEF f, Carried
  <2> QED BY <1>5, <2>2, FS_Surjection
<1> HIDE DEF Carried, W
<1>7. IsFiniteSet(CountedOver(Cutoff)) /\ Cardinality(CountedOver(Cutoff)) \in Nat
  BY <1>1, CountedFinite
<1>8. /\ IsFiniteSet(CountedOver(Cutoff) \cup Carried)
      /\ Cardinality(CountedOver(Cutoff) \cup Carried)
           = Cardinality(CountedOver(Cutoff)) + Cardinality(Carried)
             - Cardinality(CountedOver(Cutoff) \cap Carried)
  BY <1>6, <1>7, FS_Union
<1>9. Cardinality(Carried) \in Nat /\ Cardinality(CountedOver(Cutoff) \cap Carried) \in Nat
  <2>1. CountedOver(Cutoff) \cap Carried \in SUBSET Carried
    OBVIOUS
  <2> QED BY <1>6, <2>1, FS_Subset, FS_CardinalityType
<1>10. Cardinality(W) <= Cardinality(CountedOver(Cutoff) \cup Carried) /\ Cardinality(W) \in Nat
  <2>1. W \in SUBSET (CountedOver(Cutoff) \cup Carried)
    BY <1>3
  <2> QED BY <1>8, <2>1, FS_Subset, FS_CardinalityType
<1>11. Cardinality(CountedOver(Cutoff)) <= Cardinality(Over(spendHits, Cutoff))
  BY <1>1 DEF CapInv, SendsCoverPayments
<1>12. Cardinality(Over(spendHits, Cutoff)) \in Nat
  BY <1>1, OverFinite
<1>13. Cardinality(W) <= MaxTxPerWindow - 1 + Cardinality(Requests)
  <2>1. Cardinality(Over(spendHits, Cutoff)) + Cardinality(Passed)
          <= MaxTxPerWindow - 1 + Cardinality(Requests)
    BY DEF CapInv, PlacesReserved
  <2>2. MaxTxPerWindow \in Nat /\ Cardinality(Requests) \in Nat
    BY RelayerConstants, PassedFinite
  <2>3. Cardinality(CountedOver(Cutoff) \cup Carried)
          <= Cardinality(CountedOver(Cutoff)) + Cardinality(Carried)
    BY <1>7, <1>8, <1>9
  <2> QED BY <1>5, <1>6, <1>7, <1>9, <1>10, <1>11, <1>12, <2>1, <2>2, <2>3,
             FS_CardinalityType, <1>8
<1> QED BY <1>13 DEF SpendCapWithinOverlap, W, Cutoff

-----------------------------------------------------------------------------
(* Steps on which no transaction becomes or stops being counted.            *)

\* Requests that hold a sent transaction keep it, and the window loses nothing.
LEMMA CountedKept ==
  ASSUME CapInv, GuardInv', PlacesReserved',
         UNCHANGED <<clock, paidAt, forgotten>>,
         \A r \in Requests :
           /\ req'[r].pc = "sent" <=> req[r].pc = "sent"
           /\ req'[r].pc = "sent" => req'[r].body = req[r].body,
         spendHits' \in Seq(Int),
         \A c \in Int : Cutoff <= c =>
           Cardinality(Over(spendHits', c)) = Cardinality(Over(spendHits, c))
  PROVE  CapInv'
<1>1. Sent' = Sent /\ Paid' = Paid /\ Cutoff' = Cutoff
  BY DEF Sent, Paid, Cutoff
<1>2. \A r \in Sent : Tx(r)' = Tx(r)
  BY DEF Sent, Tx
<1>3. {Tx(r).id : r \in Sent}' = {Tx(r).id : r \in Sent}
  BY <1>1, <1>2
<1>4. Counted' = Counted
  BY <1>1, <1>3 DEF Counted
<1>5. \A c \in Int : CountedOver(c)' = CountedOver(c)
  BY <1>4 DEF CountedOver
<1>6. SendsCoverPayments'
  BY <1>1, <1>5 DEF CapInv, SendsCoverPayments
<1>7. \A r \in Sent' : Tx(r)'.id \in Paid'
  BY <1>1, <1>2 DEF CapInv
<1> QED BY <1>1, <1>6, <1>7 DEF CapInv

\* Nothing in what the cap is about changes.
LEMMA CapUntouched ==
  ASSUME CapInv, GuardInv', UNCHANGED <<clock, paidAt, forgotten, spendHits, req>>
  PROVE  CapInv'
<1>1. PlacesReserved'
  BY DEF CapInv, PlacesReserved, Passed, Cutoff
<1> QED BY <1>1, CountedKept DEF CapInv

\* One request moves on without sending or having sent: it either had passed
\* the cap already, or has not, or passed it now with a place left.
LEMMA OneMoves ==
  ASSUME CapInv, GuardInv', NEW r \in Requests, NEW q,
         req' = [req EXCEPT ![r] = q], req[r].pc # "sent", q.pc # "sent",
         UNCHANGED <<clock, paidAt, forgotten>>,
         spendHits' \in Seq(Int),
         \A c \in Int : Cutoff <= c =>
           Cardinality(Over(spendHits', c)) = Cardinality(Over(spendHits, c)),
         \/ q.pc \notin {"balance", "answer", "send"}
         \/ req[r].pc \in {"balance", "answer", "send"}
         \/ Cardinality(Over(spendHits', Cutoff)) <= MaxTxPerWindow - 1
  PROVE  CapInv'
<1>1. \A x \in Requests : req'[x] = IF x = r THEN q ELSE req[x]
  BY DEF CapInv, GuardInv, RelayerTypeOK
<1>2. Cutoff \in Int /\ Cutoff <= Cutoff /\ Cutoff' = Cutoff
  <2>1. Cutoff \in Int /\ Cutoff' = Cutoff
    BY CutoffIsInt DEF Cutoff
  <2> QED BY <2>1
<1>3. /\ Cardinality(Over(spendHits', Cutoff)) = Cardinality(Over(spendHits, Cutoff))
      /\ Cardinality(Over(spendHits, Cutoff)) \in Nat
  BY <1>2, OverFinite DEF CapInv
<1>4. Cardinality(Passed)' \in Nat /\ Cardinality(Passed)' <= Cardinality(Requests)
      /\ Cardinality(Requests) \in Nat /\ MaxTxPerWindow \in Nat
  <2>1. Passed' \in SUBSET Requests /\ IsFiniteSet(Requests)
    BY RelayerConstants DEF Passed
  <2> QED BY <2>1, RelayerConstants, FS_Subset, FS_CardinalityType
<1>5. PlacesReserved'
  <2>1. CASE q.pc \notin {"balance", "answer", "send"} \/ req[r].pc \in {"balance", "answer", "send"}
    <3>1. Passed' \in SUBSET Passed
      BY <2>1, <1>1 DEF Passed
    <3>2. Cardinality(Passed)' <= Cardinality(Passed) /\ Cardinality(Passed) \in Nat
      BY <3>1, PassedFinite, FS_Subset
    <3>3. Cardinality(Over(spendHits, Cutoff)) + Cardinality(Passed)
            <= MaxTxPerWindow - 1 + Cardinality(Requests)
      BY DEF CapInv, PlacesReserved
    <3>4. Cardinality(Over(spendHits', Cutoff)) + Cardinality(Passed)'
            <= MaxTxPerWindow - 1 + Cardinality(Requests)
      BY <1>3, <1>4, <3>2, <3>3
    <3> QED BY <1>2, <3>4 DEF PlacesReserved
  <2>2. CASE Cardinality(Over(spendHits', Cutoff)) <= MaxTxPerWindow - 1
    <3>1. Cardinality(Over(spendHits', Cutoff)) + Cardinality(Passed)'
            <= MaxTxPerWindow - 1 + Cardinality(Requests)
      BY <1>3, <1>4, <2>2
    <3> QED BY <1>2, <3>1 DEF PlacesReserved
  <2> QED BY <2>1, <2>2
<1> QED BY <1>1, <1>5, CountedKept

\* The same with the sends left alone.
LEMMA OneMovesOnly ==
  ASSUME CapInv, GuardInv', NEW r \in Requests, NEW q,
         req' = [req EXCEPT ![r] = q], req[r].pc # "sent", q.pc # "sent",
         UNCHANGED <<clock, paidAt, forgotten, spendHits>>,
         \/ q.pc \notin {"balance", "answer", "send"}
         \/ req[r].pc \in {"balance", "answer", "send"}
  PROVE  CapInv'
BY OneMoves DEF CapInv

\* spendGuard.check(): trims the window and lets a request past only below the cap.
LEMMA SpendCheckCap ==
  ASSUME CapInv, GuardInv', NEW r \in Requests, NEW q \in RequestRecords,
         SpendCheck(r, q), req[r].pc # "sent", UNCHANGED <<clock, paidAt, forgotten>>
  PROVE  CapInv'
<1> DEFINE live == DropExpired(spendHits, clock - SpendWindow)
<1>1. spendHits \in Seq(Int) /\ Cutoff \in Int /\ Cutoff = clock - SpendWindow /\ GuardInv
  BY CutoffIsInt DEF CapInv, Cutoff
<1>2. spendHits' = live
  BY DEF SpendCheck
<1> HIDE DEF live
<1>3. live \in Seq(Int) /\ Len(live) \in Nat
  BY <1>1, DropExpiredSeq DEF live
<1>4. \A c \in Int : Cutoff <= c =>
        Cardinality(Over(spendHits', c)) = Cardinality(Over(spendHits, c))
  BY <1>1, <1>2, OverDropped DEF live
<1>5. PICK next : SpendChecked(q, next) /\ req' = [req EXCEPT ![r] = next]
  BY <1>1, SpendCheckOutcome
<1>6. next.pc # "sent"
  BY <1>5 DEF SpendChecked
<1>7. CASE Len(live) >= MaxTxPerWindow
  <2>1. req' = [req EXCEPT ![r] = Idle]
    BY <1>7 DEF SpendCheck, live
  <2>2. Idle.pc = "idle"
    BY DEF Idle
  <2> QED BY <1>2, <1>3, <1>4, <2>1, <2>2, OneMoves
<1>8. CASE ~(Len(live) >= MaxTxPerWindow)
  <2>1. Cardinality(Over(spendHits', Cutoff)) <= Len(live) /\ Cardinality(Over(spendHits', Cutoff)) \in Nat
    BY <1>1, <1>2, <1>3, OverFinite
  <2>2. Cardinality(Over(spendHits', Cutoff)) <= MaxTxPerWindow - 1
    BY <1>3, <1>8, <2>1, RelayerConstants
  <2> QED BY <1>2, <1>3, <1>4, <1>5, <1>6, <2>2, OneMoves
<1> QED BY <1>7, <1>8

-----------------------------------------------------------------------------
(* Steps that pay, count a payment, or lose one.                            *)

\* The payment is carried by its request: nothing becomes counted.
LEMMA ForwardCap ==
  ASSUME CapInv, GuardInv', NEW r \in Requests, Forward(r)
  PROVE  CapInv'
<1> DEFINE t == Tx(r).id
<1>1. /\ req[r].pc = "send" /\ req[r].body \in Bodies /\ clock \in Nat
      /\ req \in [Requests -> RequestRecords] /\ paidAt \in [Txs -> Int]
  BY DEF CapInv, GuardInv, RelayerTypeOK, Remembered, Forward
<1>2. t \in Txs
  BY <1>1 DEF Tx, Txs
<1>3. /\ paidAt[t] = LongAgo /\ paidAt' = [paidAt EXCEPT ![t] = clock]
      /\ UNCHANGED <<clock, spendHits, forgotten>>
      /\ \A x \in Requests : x # r => req'[x] = req[x]
      /\ req'[r].pc = "sent" /\ req'[r].body = req[r].body
  BY <1>1 DEF Forward, guards, RequestRecords
<1>4. LongAgo < clock /\ LongAgo \in Int
  BY <1>1, LongAgoIsPast
<1>5. \A x \in Txs : paidAt'[x] = IF x = t THEN clock ELSE paidAt[x]
  BY <1>1, <1>3
<1>6. t \notin Paid /\ Paid' = Paid \cup {t}
  BY <1>2, <1>3, <1>4, <1>5 DEF Paid
<1>7. Sent' = Sent \cup {r} /\ Cutoff' = Cutoff
  BY <1>1, <1>3 DEF Sent, Cutoff
<1>8. \A x \in Sent' : Tx(x)' = Tx(x)
  BY <1>1, <1>3, <1>7 DEF Tx, Sent
<1>9. {Tx(x).id : x \in Sent}' = {Tx(x).id : x \in Sent} \cup {t}
  BY <1>7, <1>8
<1> HIDE DEF t
<1>10. Counted' = Counted
  BY <1>3, <1>6, <1>9 DEF Counted
<1>11. \A c \in Int : CountedOver(c)' = CountedOver(c)
  <2>1. \A x \in Counted : paidAt'[x] = paidAt[x]
    BY <1>5, <1>6 DEF Counted, Paid
  <2> QED BY <1>10, <2>1 DEF CountedOver
<1>12. SendsCoverPayments'
  BY <1>3, <1>7, <1>11 DEF CapInv, SendsCoverPayments
<1>13. Passed' = Passed
  BY <1>1, <1>3 DEF Passed
<1>14. PlacesReserved'
  BY <1>3, <1>7, <1>13 DEF CapInv, PlacesReserved
<1>15. IsFiniteSet(Paid)'
  BY <1>6, FS_AddElement DEF CapInv
<1>16. \A x \in Txs : paidAt'[x] <= clock'
  BY <1>1, <1>3, <1>5 DEF CapInv
<1>17. \A x \in Sent' : Tx(x)'.id \in Paid'
  BY <1>6, <1>7, <1>8 DEF CapInv, t
<1> QED BY <1>3, <1>12, <1>14, <1>15, <1>16, <1>17 DEF CapInv

\* A sent request leaves: its place is free again.
LEMMA SentLeaves ==
  ASSUME CapInv, NEW r \in Requests, req[r].pc = "sent", req' = [req EXCEPT ![r] = Idle]
  PROVE  /\ Sent' = Sent \ {r} /\ \A x \in Sent' : Tx(x)' = Tx(x)
         /\ {Tx(x).id : x \in Sent} \subseteq {Tx(x).id : x \in Sent}' \cup {Tx(r).id}
         /\ Cardinality(Passed)' = Cardinality(Passed) - 1
         /\ Tx(r).id \in Paid
<1>1. \A x \in Requests : req'[x] = IF x = r THEN Idle ELSE req[x]
  BY DEF CapInv, GuardInv, RelayerTypeOK
<1>2. Idle.pc = "idle"
  BY DEF Idle
<1>3. Sent' = Sent \ {r} /\ Passed' = Passed \ {r} /\ r \in Passed /\ r \in Sent
  BY <1>1, <1>2 DEF Sent, Passed
<1>4. \A x \in Sent' : Tx(x)' = Tx(x)
  BY <1>1, <1>3 DEF Tx, Sent
<1>5. {Tx(x).id : x \in Sent} \subseteq {Tx(x).id : x \in Sent}' \cup {Tx(r).id}
  BY <1>3, <1>4
<1>6. Cardinality(Passed)' = Cardinality(Passed) - 1
  BY <1>3, PassedFinite, FS_RemoveElement
<1>7. Tx(r).id \in Paid
  BY <1>3 DEF CapInv
<1> QED BY <1>3, <1>4, <1>5, <1>6, <1>7

\* The payment becomes counted together with a send no earlier than it.
LEMMA CommitCap ==
  ASSUME CapInv, GuardInv', NEW r \in Requests, Commit(r)
  PROVE  CapInv'
<1> DEFINE t == Tx(r).id
<1>1. /\ req[r].pc = "sent" /\ req' = [req EXCEPT ![r] = Idle]
      /\ spendHits' = Append(spendHits, clock) /\ UNCHANGED <<clock, paidAt, forgotten>>
  BY DEF Commit, chain
<1>2. /\ Sent' = Sent \ {r} /\ \A x \in Sent' : Tx(x)' = Tx(x)
      /\ {Tx(x).id : x \in Sent} \subseteq {Tx(x).id : x \in Sent}' \cup {t}
      /\ Cardinality(Passed)' = Cardinality(Passed) - 1 /\ t \in Paid
  BY <1>1, SentLeaves
<1> HIDE DEF t
<1>3. /\ clock \in Int /\ spendHits \in Seq(Int) /\ paidAt \in [Txs -> Int]
      /\ Cutoff \in Int /\ Cutoff <= Cutoff /\ Cutoff' = Cutoff
  <2>1. Cutoff \in Int /\ Cutoff' = Cutoff
    BY <1>1, CutoffIsInt DEF Cutoff
  <2> QED BY <2>1 DEF CapInv, GuardInv, RelayerTypeOK
<1>4. Paid' = Paid /\ Counted' \subseteq Counted \cup {t}
  BY <1>1, <1>2 DEF Paid, Counted
<1>5. t \in Txs /\ paidAt[t] <= clock /\ paidAt[t] \in Int
  BY <1>2, <1>3 DEF Paid, CapInv
<1>6. spendHits' \in Seq(Int)
  BY <1>1, <1>3
<1>7. ASSUME NEW c \in Int
      PROVE  Cardinality(Over(spendHits', c))
               = Cardinality(Over(spendHits, c)) + (IF clock > c THEN 1 ELSE 0)
  BY <1>1, <1>3, OverAppend
<1>8. SendsCoverPayments'
  <2> SUFFICES ASSUME NEW c \in Int, Cutoff <= c
               PROVE  Cardinality(CountedOver(c)') <= Cardinality(Over(spendHits', c))
    BY <1>3 DEF SendsCoverPayments
  <2>1. /\ IsFiniteSet(CountedOver(c)) /\ Cardinality(CountedOver(c)) \in Nat
        /\ Cardinality(CountedOver(c)) <= Cardinality(Over(spendHits, c))
        /\ Cardinality(Over(spendHits, c)) \in Nat
    BY <1>3, CountedFinite, OverFinite DEF CapInv, SendsCoverPayments
  <2>2. CASE clock > c
    <3>1. CountedOver(c)' \in SUBSET (CountedOver(c) \cup {t})
      BY <1>1, <1>4 DEF CountedOver
    <3>2. /\ IsFiniteSet(CountedOver(c) \cup {t})
          /\ Cardinality(CountedOver(c) \cup {t})
               = IF t \in CountedOver(c) THEN Cardinality(CountedOver(c))
                                         ELSE Cardinality(CountedOver(c)) + 1
      BY <2>1, FS_AddElement
    <3>3. /\ Cardinality(CountedOver(c)') <= Cardinality(CountedOver(c) \cup {t})
          /\ Cardinality(CountedOver(c)') \in Nat
      BY <3>1, <3>2, FS_Subset, FS_CardinalityType
    <3>4. Cardinality(Over(spendHits', c)) = Cardinality(Over(spendHits, c)) + 1
      BY <1>7, <2>2
    <3> QED BY <2>1, <3>2, <3>3, <3>4
  <2>3. CASE ~(clock > c)
    <3>1. ~(paidAt[t] > c)
      BY <1>3, <1>5, <2>3
    <3>2. CountedOver(c)' \in SUBSET CountedOver(c)
      BY <1>1, <1>4, <3>1 DEF CountedOver
    <3>3. Cardinality(CountedOver(c)') <= Cardinality(CountedOver(c)) /\ Cardinality(CountedOver(c)') \in Nat
      BY <2>1, <3>2, FS_Subset, FS_CardinalityType
    <3>4. Cardinality(Over(spendHits', c)) = Cardinality(Over(spendHits, c))
      BY <1>7, <2>1, <2>3
    <3> QED BY <2>1, <3>3, <3>4
  <2> QED BY <2>2, <2>3
<1>9. PlacesReserved'
  <2>1. /\ Cardinality(Over(spendHits, Cutoff)) + Cardinality(Passed)
             <= MaxTxPerWindow - 1 + Cardinality(Requests)
        /\ Cardinality(Over(spendHits, Cutoff)) \in Nat /\ Cardinality(Passed) \in Nat
        /\ Cardinality(Requests) \in Nat /\ MaxTxPerWindow \in Nat
    BY <1>3, PassedFinite, OverFinite, RelayerConstants DEF CapInv, PlacesReserved
  <2>2. Cardinality(Over(spendHits', Cutoff)) <= Cardinality(Over(spendHits, Cutoff)) + 1
        /\ Cardinality(Over(spendHits', Cutoff)) \in Nat
    <3> DEFINE before == Cardinality(Over(spendHits, Cutoff))
               after == Cardinality(Over(spendHits', Cutoff))
    <3>1. after = before + (IF clock > Cutoff THEN 1 ELSE 0)
      BY <1>3, <1>7
    <3>2. before \in Nat
      BY <2>1
    <3> HIDE DEF before, after
    <3>3. after <= before + 1 /\ after \in Nat
      BY <3>1, <3>2
    <3> QED BY <3>3 DEF before, after
  <2>3. Cardinality(Over(spendHits', Cutoff)) + Cardinality(Passed)'
          <= MaxTxPerWindow - 1 + Cardinality(Requests)
    BY <1>2, <2>1, <2>2
  <2> QED BY <1>3, <2>3 DEF PlacesReserved
<1>10. \A x \in Sent' : Tx(x)'.id \in Paid'
  BY <1>2, <1>4 DEF CapInv
<1> QED BY <1>1, <1>4, <1>6, <1>8, <1>9, <1>10 DEF CapInv

\* The guard never hears of the payment, which is then left out of the count.
LEMMA LoseAnswerCap ==
  ASSUME CapInv, GuardInv', NEW r \in Requests, LoseAnswer(r)
  PROVE  CapInv'
<1> DEFINE t == Tx(r).id
<1>1. /\ req[r].pc = "sent" /\ req' = [req EXCEPT ![r] = Idle]
      /\ forgotten' = forgotten \cup {t} /\ UNCHANGED <<clock, paidAt, spendHits>>
  BY DEF LoseAnswer, guards
<1>2. /\ Sent' = Sent \ {r} /\ \A x \in Sent' : Tx(x)' = Tx(x)
      /\ {Tx(x).id : x \in Sent} \subseteq {Tx(x).id : x \in Sent}' \cup {t}
      /\ Cardinality(Passed)' = Cardinality(Passed) - 1 /\ t \in Paid
  BY <1>1, SentLeaves
<1> HIDE DEF t
<1>3. Paid' = Paid /\ Counted' \subseteq Counted /\ Cutoff' = Cutoff
  BY <1>1, <1>2 DEF Paid, Counted, Cutoff
<1>4. SendsCoverPayments'
  <2> SUFFICES ASSUME NEW c \in Int, Cutoff <= c
               PROVE  Cardinality(CountedOver(c)') <= Cardinality(Over(spendHits, c))
    BY <1>1, <1>3 DEF SendsCoverPayments
  <2>1. /\ IsFiniteSet(CountedOver(c)) /\ Cardinality(CountedOver(c)) \in Nat
        /\ Cardinality(CountedOver(c)) <= Cardinality(Over(spendHits, c))
        /\ Cardinality(Over(spendHits, c)) \in Nat
    BY CountedFinite, OverFinite DEF CapInv, SendsCoverPayments
  <2>2. CountedOver(c)' \in SUBSET CountedOver(c)
    BY <1>1, <1>3 DEF CountedOver
  <2>3. Cardinality(CountedOver(c)') <= Cardinality(CountedOver(c)) /\ Cardinality(CountedOver(c)') \in Nat
    BY <2>1, <2>2, FS_Subset, FS_CardinalityType
  <2> QED BY <2>1, <2>3
<1>5. PlacesReserved'
  <2>1. /\ Cardinality(Over(spendHits, Cutoff)) + Cardinality(Passed)
             <= MaxTxPerWindow - 1 + Cardinality(Requests)
        /\ Cardinality(Over(spendHits, Cutoff)) \in Nat /\ Cardinality(Passed) \in Nat
        /\ Cardinality(Requests) \in Nat /\ MaxTxPerWindow \in Nat
    BY CutoffIsInt, PassedFinite, OverFinite, RelayerConstants DEF CapInv, PlacesReserved
  <2>2. Cardinality(Over(spendHits, Cutoff)) + Cardinality(Passed)'
          <= MaxTxPerWindow - 1 + Cardinality(Requests)
    BY <1>2, <2>1
  <2> QED BY <1>1, <1>3, <2>2 DEF PlacesReserved
<1>6. \A x \in Sent' : Tx(x)'.id \in Paid'
  BY <1>2, <1>3 DEF CapInv
<1> QED BY <1>1, <1>3, <1>4, <1>5, <1>6 DEF CapInv

\* After a crash no payment is counted and no request is under way.
LEMMA CrashCap ==
  ASSUME CapInv, GuardInv', Crash
  PROVE  CapInv'
<1>1. /\ UNCHANGED <<clock, paidAt>> /\ forgotten' = Paid /\ spendHits' = <<>>
      /\ \A r \in Requests : req'[r].pc = "idle"
  BY DEF Crash, Idle, Paid
<1>2. Sent' = {} /\ Passed' = {} /\ Counted' = {} /\ Paid' = Paid
  BY <1>1 DEF Sent, Passed, Counted, Paid
<1>3. <<>> \in Seq(Int) /\ \A c \in Int : Over(<<>>, c) = {}
  BY DEF Over
<1>4. \A c \in Int : CountedOver(c)' = {}
  BY <1>2 DEF CountedOver
<1>5. Cardinality({}) = 0
  BY FS_EmptySet
<1>6. SendsCoverPayments'
  BY <1>1, <1>3, <1>4, <1>5 DEF SendsCoverPayments
<1>7. Cardinality(Requests) \in Nat /\ Cardinality(Requests) # 0 /\ MaxTxPerWindow \in Nat
  BY RelayerConstants, FS_EmptySet, FS_CardinalityType
<1>8. PlacesReserved'
  <2>1. Cutoff' \in Int
    BY <1>1, CutoffIsInt DEF Cutoff
  <2>2. Over(spendHits', Cutoff') = {}
    BY <1>1, <1>3, <2>1
  <2>3. 0 + 0 <= MaxTxPerWindow - 1 + Cardinality(Requests)
    BY <1>7
  <2> QED BY <1>2, <1>5, <2>2, <2>3 DEF PlacesReserved
<1> QED BY <1>1, <1>2, <1>3, <1>6, <1>8 DEF CapInv

\* The window moves on: what is bounded after its old start is after its new one.
LEMMA TickCap ==
  ASSUME CapInv, GuardInv', Tick
  PROVE  CapInv'
<1>1. UNCHANGED <<req, spendHits, paidAt, forgotten>> /\ clock' = clock + 1
  BY DEF Tick, chain
<1>2. /\ Cutoff \in Int /\ Cutoff' \in Int /\ Cutoff <= Cutoff' /\ clock \in Nat
      /\ spendHits \in Seq(Int) /\ paidAt \in [Txs -> Int]
  <2>1. Cutoff \in Int /\ clock \in Nat /\ SpendWindow \in Nat
    BY CutoffIsInt, RelayerConstants DEF CapInv, GuardInv, RelayerTypeOK
  <2>2. Cutoff' \in Int /\ Cutoff <= Cutoff'
    BY <1>1, <2>1 DEF Cutoff
  <2> QED BY <2>1, <2>2 DEF CapInv, GuardInv, RelayerTypeOK
<1>3. Sent' = Sent /\ Passed' = Passed /\ Paid' = Paid /\ \A x \in Sent : Tx(x)' = Tx(x)
  BY <1>1 DEF Sent, Passed, Paid, Tx
<1>4. Counted' = Counted
  BY <1>1, <1>3 DEF Counted
<1>5. SendsCoverPayments'
  <2> SUFFICES ASSUME NEW c \in Int, Cutoff' <= c
               PROVE  Cardinality(CountedOver(c)') <= Cardinality(Over(spendHits', c))
    BY DEF SendsCoverPayments
  <2>1. CountedOver(c)' = CountedOver(c) /\ Over(spendHits', c) = Over(spendHits, c)
    BY <1>1, <1>4 DEF CountedOver
  <2>2. Cutoff <= c
    BY <1>2
  <2> QED BY <2>1, <2>2 DEF CapInv, SendsCoverPayments
<1>6. PlacesReserved'
  <2>1. /\ Cardinality(Over(spendHits, Cutoff)) + Cardinality(Passed)
             <= MaxTxPerWindow - 1 + Cardinality(Requests)
        /\ Cardinality(Over(spendHits, Cutoff)) \in Nat /\ Cardinality(Passed) \in Nat
        /\ Cardinality(Requests) \in Nat /\ MaxTxPerWindow \in Nat
    BY <1>2, PassedFinite, OverFinite, RelayerConstants DEF CapInv, PlacesReserved
  <2>2. /\ Cardinality(Over(spendHits, Cutoff')) <= Cardinality(Over(spendHits, Cutoff))
        /\ Cardinality(Over(spendHits, Cutoff')) \in Nat
    BY <1>2, OverLater, OverFinite
  <2>3. Cardinality(Over(spendHits, Cutoff')) + Cardinality(Passed)
          <= MaxTxPerWindow - 1 + Cardinality(Requests)
    BY <2>1, <2>2
  <2> QED BY <1>1, <1>3, <2>3 DEF PlacesReserved
<1>7. \A t \in Txs : paidAt'[t] <= clock'
  <2>1. ASSUME NEW t \in Txs PROVE paidAt[t] <= clock + 1
    <3>1. paidAt[t] \in Int /\ paidAt[t] <= clock
      BY <1>2 DEF CapInv
    <3> QED BY <1>2, <3>1
  <2> QED BY <1>1, <2>1
<1>8. \A x \in Sent' : Tx(x)'.id \in Paid'
  BY <1>3 DEF CapInv
<1> QED BY <1>1, <1>3, <1>5, <1>6, <1>7, <1>8 DEF CapInv

-----------------------------------------------------------------------------
LEMMA CapInitInv == Init => CapInv
<1> SUFFICES ASSUME Init PROVE CapInv
  OBVIOUS
<1>1. /\ clock = 0 /\ spendHits = <<>> /\ forgotten = {}
      /\ \A t \in Txs : paidAt[t] = LongAgo
      /\ \A r \in Requests : req[r].pc = "idle"
  BY DEF Init, Idle
<1>2. LongAgo \in Int /\ LongAgo <= 0 /\ Cutoff \in Int
  BY <1>1, LongAgoIsPast, RelayerConstants DEF Cutoff
<1>3. Sent = {} /\ Passed = {} /\ Paid = {} /\ Counted = {}
  BY <1>1 DEF Sent, Passed, Paid, Counted
<1>4. <<>> \in Seq(Int) /\ \A c \in Int : Over(<<>>, c) = {}
  BY DEF Over
<1>5. \A c \in Int : CountedOver(c) = {}
  BY <1>3 DEF CountedOver
<1>6. IsFiniteSet({}) /\ Cardinality({}) = 0
  BY FS_EmptySet
<1>7. SendsCoverPayments
  <2>1. ASSUME NEW c \in Int
        PROVE  Cardinality(CountedOver(c)) = 0 /\ Cardinality(Over(spendHits, c)) = 0
    BY <1>1, <1>4, <1>5, <1>6
  <2> QED BY <2>1 DEF SendsCoverPayments
<1>8. PlacesReserved
  <2>1. Cardinality(Requests) \in Nat /\ Cardinality(Requests) # 0 /\ MaxTxPerWindow \in Nat
    BY RelayerConstants, FS_EmptySet, FS_CardinalityType
  <2>2. 0 + 0 <= MaxTxPerWindow - 1 + Cardinality(Requests)
    BY <2>1
  <2> QED BY <1>1, <1>2, <1>3, <1>4, <1>6, <2>2 DEF PlacesReserved
<1> QED BY <1>1, <1>2, <1>3, <1>4, <1>6, <1>7, <1>8, GuardInitInv DEF CapInv

LEMMA CapNextInv == CapInv /\ [Next]_vars => CapInv'
<1> SUFFICES ASSUME CapInv, [Next]_vars PROVE CapInv'
  OBVIOUS
<1>1. GuardInv'
  BY GuardNextInv DEF CapInv
<1>2. CASE UNCHANGED vars
  BY <1>1, <1>2, CapUntouched DEF vars, guards, chain
<1>3. ASSUME NEW r \in Requests, Handle(r) PROVE CapInv'
  <2> DEFINE q == req[r]
  <2>1. q \in RequestRecords /\ clock \in Int /\ balance \in Nat
    BY DEF CapInv, GuardInv, RelayerTypeOK
  <2>2. Idle.pc = "idle"
    BY DEF Idle
  <2>3. ASSUME NEW ip \in Ips, NEW b \in Bodies, NEW route, NEW key, Arrive(r, route, key, b)
        PROVE  CapInv'
    <3> DEFINE arrived == [Idle EXCEPT !.pc = "admitted", !.route = route, !.body = b]
    <3>1. req[r].pc = "idle" /\ UNCHANGED <<clock, paidAt, forgotten, spendHits>>
      BY <2>2, <2>3 DEF Arrive, chain
    <3>2. arrived.pc = "admitted"
      BY DEF Idle
    <3>3. CASE RateAllows(key)
      <4>1. req' = [req EXCEPT ![r] = arrived]
        BY <2>3, <3>3 DEF Arrive
      <4> HIDE DEF arrived
      <4> QED BY <1>1, <3>1, <3>2, <4>1, OneMovesOnly
    <3>4. CASE ~RateAllows(key)
      BY <1>1, <2>3, <3>1, <3>4, CapUntouched DEF Arrive
    <3> QED BY <3>3, <3>4
  <2>4. ASSUME NEW ip \in Ips, NEW b \in Bodies, Submit(r, ip, b) \/ SubmitDeposit(r, ip, b)
        PROVE  CapInv'
    BY <2>3, <2>4 DEF Submit, SubmitDeposit
  <2>5. CASE RejectReplay(r) \/ Fail(r)
    <3>1. /\ req' = [req EXCEPT ![r] = Idle] /\ req[r].pc # "sent"
          /\ UNCHANGED <<clock, paidAt, forgotten, spendHits>>
      BY <2>5 DEF RejectReplay, Fail, guards, chain
    <3> QED BY <1>1, <2>2, <3>1, OneMovesOnly
  <2>6. CASE AdmitWithdraw(r)
    <3> DEFINE next == IF ValidWithdraw(Tx(r)) /\ Tx(r).ixs[1].denom \in DenomTiers
                       THEN [q EXCEPT !.pc = "lookup", !.at = clock] ELSE Idle
    <3>1. next.pc \in {"lookup", "idle"}
      BY <2>1, <2>2 DEF RequestRecords
    <3>2. /\ req' = [req EXCEPT ![r] = next] /\ req[r].pc # "sent"
          /\ UNCHANGED <<clock, paidAt, forgotten, spendHits>>
      BY <2>6 DEF AdmitWithdraw, chain, CapInv, GuardInv, RelayerTypeOK
    <3> HIDE DEF next
    <3> QED BY <1>1, <3>1, <3>2, OneMovesOnly
  <2>7. CASE AdmitDeposit(r)
    <3> DEFINE stamped == [q EXCEPT !.at = clock]
    <3>1. stamped \in RequestRecords
      BY <2>1 DEF RequestRecords
    <3>2. req[r].pc # "sent" /\ UNCHANGED <<clock, paidAt, forgotten>>
      BY <2>7 DEF AdmitDeposit, chain
    <3>3. CASE ValidDeposit(Tx(r)) /\ PartyOf(Tx(r)) \notin blocked
      <4>1. SpendCheck(r, stamped)
        BY <2>7, <3>3 DEF AdmitDeposit
      <4> QED BY <1>1, <3>1, <3>2, <4>1, SpendCheckCap
    <3>4. CASE ~(ValidDeposit(Tx(r)) /\ PartyOf(Tx(r)) \notin blocked)
      <4>1. req' = [req EXCEPT ![r] = Idle] /\ UNCHANGED spendHits
        BY <2>7, <3>4 DEF AdmitDeposit
      <4> QED BY <1>1, <2>2, <3>2, <4>1, OneMovesOnly
    <3> QED BY <3>3, <3>4
  <2>8. CASE Screen(r)
    <3> DEFINE passes == [q EXCEPT !.pc = "screened"]
    <3>1. passes.pc = "screened"
      BY <2>1 DEF RequestRecords
    <3>2. /\ req' = [req EXCEPT ![r] = Idle] \/ req' = [req EXCEPT ![r] = passes]
          /\ req[r].pc # "sent" /\ UNCHANGED <<clock, paidAt, forgotten, spendHits>>
      BY <2>8 DEF Screen, chain, CapInv, GuardInv, RelayerTypeOK
    <3> HIDE DEF passes
    <3> QED BY <1>1, <2>2, <3>1, <3>2, OneMovesOnly
  <2>9. CASE CheckSpend(r)
    <3>1. SpendCheck(r, q) /\ req[r].pc # "sent" /\ UNCHANGED <<clock, paidAt, forgotten>>
      BY <2>9 DEF CheckSpend, chain
    <3> QED BY <1>1, <2>1, <3>1, SpendCheckCap
  <2>10. CASE RpcReads(r)
    <3> DEFINE read == [q EXCEPT !.pc = "answer", !.bal = balance, !.readAt = clock]
    <3>1. read.pc = "answer"
      BY <2>1 DEF RequestRecords
    <3>2. /\ req' = [req EXCEPT ![r] = read] /\ req[r].pc = "balance"
          /\ UNCHANGED <<clock, paidAt, forgotten, spendHits>>
      BY <2>10 DEF RpcReads, guards, chain, CapInv, GuardInv, RelayerTypeOK
    <3> HIDE DEF read
    <3> QED BY <1>1, <3>1, <3>2, OneMovesOnly
  <2>11. CASE BalanceAnswered(r)
    <3> DEFINE next == AfterBalance(q, q.bal, q.readAt)
    <3>1. next.pc \in {"idle", "send"}
      BY <2>1, <2>2 DEF RequestRecords, AfterBalance
    <3>2. /\ req' = [req EXCEPT ![r] = next] /\ req[r].pc = "answer"
          /\ UNCHANGED <<clock, paidAt, forgotten, spendHits>>
      BY <2>11 DEF BalanceAnswered, chain, CapInv, GuardInv, RelayerTypeOK
    <3> HIDE DEF next
    <3> QED BY <1>1, <3>1, <3>2, OneMovesOnly
  <2> QED
    BY <1>1, <1>3, <2>4, <2>5, <2>6, <2>7, <2>8, <2>9, <2>10, <2>11,
       ForwardCap, CommitCap, LoseAnswerCap DEF Handle
<1>4. ASSUME NEW ip \in Ips, Quote(ip) \/ DepositQuote(ip) PROVE CapInv'
  BY <1>1, <1>4, CapUntouched DEF Quote, DepositQuote, chain
<1>5. CASE Start \/ ReloadSanctions
  BY <1>1, <1>5, CapUntouched DEF Start, ReloadSanctions, guards, chain
<1>6. CASE Crash
  BY <1>1, <1>6, CrashCap
<1>7. CASE Tick
  BY <1>1, <1>7, TickCap
<1> QED BY <1>2, <1>3, <1>4, <1>5, <1>6, <1>7 DEF Next

\* In a window the relayer pays for at most the cap plus the requests that can
\* overlap, whatever the cap, the window and the number of slots, leaving aside
\* the payments whose answer was lost (spend-guard.ts check and commit).
THEOREM SpendCapHolds == Spec => []SpendCapWithinOverlap
BY CapInitInv, CapNextInv, CapBound, PTL DEF Spec
=============================================================================
