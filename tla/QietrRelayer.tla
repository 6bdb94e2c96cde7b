---------------------------- MODULE QietrRelayer ----------------------------
(***************************************************************************)
(* The relayer (qietr-relayer): one Node process that sponsors the SOL fee  *)
(* of withdraw and gasless-deposit transactions.  A handler runs without    *)
(* interruption between two awaits and any other handler may run at an      *)
(* await, so an action below is one such stretch:                           *)
(*                                                                          *)
(*   idle -Arrive-> admitted -AdmitWithdraw-> lookup -Screen-> screened     *)
(*        -CheckSpend-> [balance -RpcReads-> answer -BalanceAnswered->]     *)
(*        send -Forward-> sent -Commit | LoseAnswer-> idle                  *)
(*                                                                          *)
(* A deposit goes from admitted straight to the spend guard (AdmitDeposit). *)
(* Everything the guards remember is process memory, lost in a crash; what  *)
(* the fee payer spent is on the chain and is not.                          *)
(*                                                                          *)
(* A body is the base64 text of a request and Decoded gives the transaction *)
(* it holds.  Authentication is stateless and left out: an arriving request *)
(* is one that passed it.  A fee costs one unit whatever the transaction.   *)
(***************************************************************************)
EXTENDS Integers, Sequences, FiniteSets

CONSTANTS
  Requests,             \* the requests the process can be serving at a time
  Ips,                  \* client addresses
  Parties,              \* ATA owners and depositors
  Bodies,               \* texts a client may post
  Decoded,              \* Bodies -> [id, sponsored, ixs], the transaction in a text
  FeeAta,               \* the account gasless deposits pay their fee to
  FeeAmountMicro,       \* and the least fee they pay
  DenomTiers,           \* configured denominations
  RateIpLimit, RateRecipientLimit, RateWindow,
  ReplayTtl,
  MaxTxPerWindow, SpendWindow, MinBalance, BalanceCacheTime,
  Routes,               \* the routes clients call
  SanctionLists,        \* the lists the sanctions source may serve over time
  InitialBalance,       \* SOL of the fee payer
  MaxTime, MaxCrashes   \* bounds of the exploration

ASSUME RelayerConstants ==
  /\ {RateIpLimit, RateRecipientLimit, RateWindow, ReplayTtl, MaxTxPerWindow,
      SpendWindow, MinBalance, BalanceCacheTime, InitialBalance,
      FeeAmountMicro, MaxTime, MaxCrashes} \subseteq Nat
  /\ SanctionLists # {} /\ SanctionLists \subseteq SUBSET Parties
  /\ Routes \subseteq {"withdraw", "deposit", "quote", "deposit-quote"}
  /\ IsFiniteSet(Requests) /\ Requests # {}
  /\ BalanceCacheTime > 0
  \* Two texts of one transaction decode to the same thing.
  /\ \A b, c \in Bodies : Decoded[b].id = Decoded[c].id => Decoded[b] = Decoded[c]

VARIABLES
  up,          \* the process is serving
  clock,       \* Date.now()
  req,         \* what each request slot is doing
  hits,        \* rate limiter buckets: key -> times, oldest first
  seen,        \* replay guard: body -> time it was admitted
  spendHits,   \* spend guard: times of committed sends, oldest first
  cache,       \* spend guard: balance, the time it is dated, and (history) read
  blocked,     \* the sanctions list in force
  balance,     \* on chain: SOL of the fee payer
  paidAt,      \* on chain: when the fee payer paid for a transaction
  forgotten,   \* history: paid transactions the guard never heard about
  recent,      \* history: calls this process allowed each key within the rate window
  crashes

guards == <<hits, seen, spendHits, cache, recent>>
chain == <<balance, paidAt, forgotten>>
vars == <<up, clock, req, guards, blocked, chain, crashes>>

-----------------------------------------------------------------------------
Txs == {Decoded[b].id : b \in Bodies}
LongAgo == -1 - SpendWindow - ReplayTtl - BalanceCacheTime

Keys == ({"ip", "deposit", "deposit-quote"} \X Ips) \cup ({"recipient"} \X Parties)
LimitOf(key) == IF key[1] = "recipient" THEN RateRecipientLimit ELSE RateIpLimit

Idle == [pc |-> "idle", route |-> "none", body |-> "none",
         at |-> LongAgo, now |-> LongAgo, bal |-> 0, readAt |-> LongAgo]

\* Where the sliding windows shift expired times off the front of a bucket.
DropExpired(times, cutoff) ==
  LET kept == {i \in 1 .. Len(times) : times[i] > cutoff}
      first == IF kept = {} THEN Len(times) + 1
               ELSE CHOOSE i \in kept : \A j \in kept : i <= j
  IN SubSeq(times, first, Len(times))

\* limiter.check(key): the bucket after the call, and whether it allows it.
LiveHits(key) == DropExpired(hits[key], clock - RateWindow)
\* Mutant. The limiter lets through the call that reaches the limit plus one.
RateAllows_offByOne(key) == Len(LiveHits(key)) <= LimitOf(key)

RateAllows(key) == Len(LiveHits(key)) < LimitOf(key)
RateCheck(key) ==
  IF RateAllows(key)
  THEN /\ hits' = [hits EXCEPT ![key] = Append(LiveHits(key), clock)]
       /\ recent' = [recent EXCEPT ![key] = DropExpired(Append(@, clock), clock - RateWindow)]
  ELSE /\ hits' = [hits EXCEPT ![key] = LiveHits(key)]
       /\ UNCHANGED recent

\* replayGuard.admit(body)
IsReplay(b) == seen[b] + ReplayTtl > clock

\* decodeAndValidateWithdraw and decodeAndValidateDeposit
ValidWithdraw(tx) ==
  /\ tx.sponsored
  /\ Len(tx.ixs) = 1
  /\ tx.ixs[1].op = "withdraw"
PaysFee(transfer) == transfer.dest = FeeAta /\ transfer.amount >= FeeAmountMicro
ValidDeposit(tx) ==
  /\ tx.sponsored
  /\ Len(tx.ixs) = 2
  /\ tx.ixs[1].op = "transfer" /\ PaysFee(tx.ixs[1])
  /\ tx.ixs[2].op = "deposit"

Tx(r) == Decoded[req[r].body]
\* The account owner a transaction is screened for: its last instruction's.
PartyOf(tx) == tx.ixs[Len(tx.ixs)].party

\* spendGuard.check() up to its first await, for a request in record q: trim
\* the window, apply the cap, then use the cached balance or ask for it.
AfterBalance(q, bal, readAt) ==
  IF bal < MinBalance THEN Idle
  ELSE [q EXCEPT !.pc = "send", !.bal = bal, !.readAt = readAt]
SpendCheck(r, q) ==
  LET live == DropExpired(spendHits, clock - SpendWindow)
      asked == [q EXCEPT !.now = clock]
  IN /\ spendHits' = live
     /\ req' = [req EXCEPT ![r] =
          IF Len(live) >= MaxTxPerWindow THEN Idle
          ELSE IF clock - cache.at < BalanceCacheTime
               THEN AfterBalance(asked, cache.bal, cache.readAt)
               ELSE [asked EXCEPT !.pc = "balance"]]

-----------------------------------------------------------------------------
NoBalance == [bal |-> 0, at |-> LongAgo, readAt |-> LongAgo]

Init ==
  /\ up = FALSE /\ clock = 0 /\ crashes = 0
  /\ req = [r \in Requests |-> Idle]
  /\ hits = [k \in Keys |-> <<>>] /\ recent = [k \in Keys |-> <<>>]
  /\ seen = [b \in Bodies |-> LongAgo]
  /\ spendHits = <<>>
  /\ cache = NoBalance
  /\ blocked = {}
  /\ balance = InitialBalance
  /\ paidAt = [t \in Txs |-> LongAgo]
  /\ forgotten = {}

\* Mutant. A list that cannot be loaded at start-up leaves an empty one in force.
Start_failOpen ==
  /\ ~up /\ up' = TRUE
  /\ \E list \in SanctionLists \cup {{}} : blocked' = list
  /\ UNCHANGED <<clock, req, guards, chain, crashes>>

\* main(): the process serves only once the configured list has been loaded.
Start ==
  /\ ~up /\ up' = TRUE
  /\ \E list \in SanctionLists : blocked' = list
  /\ UNCHANGED <<clock, req, guards, chain, crashes>>

\* The process stops; requests, guards and list go with its memory.
Crash ==
  /\ up /\ crashes < MaxCrashes
  /\ up' = FALSE /\ crashes' = crashes + 1
  /\ req' = [r \in Requests |-> Idle]
  /\ hits' = [k \in Keys |-> <<>>] /\ recent' = [k \in Keys |-> <<>>]
  /\ seen' = [b \in Bodies |-> LongAgo]
  /\ spendHits' = <<>>
  /\ cache' = NoBalance
  /\ blocked' = {}
  /\ forgotten' = {t \in Txs : paidAt[t] # LongAgo}
  /\ UNCHANGED <<clock, balance, paidAt>>

\* The hourly refresh; one that fails leaves the list in force as it was.
ReloadSanctions ==
  /\ up
  /\ \E list \in SanctionLists : blocked' = list
  /\ UNCHANGED <<up, clock, req, guards, chain, crashes>>

\* GET /quote, on the budget of /submit, and GET /deposit-quote, on its own,
\* change nothing but the caller's bucket.
Quote(ip) ==
  /\ up /\ "quote" \in Routes
  /\ RateCheck(<<"ip", ip>>)
  /\ UNCHANGED <<up, clock, req, seen, spendHits, cache, blocked, chain, crashes>>
DepositQuote(ip) ==
  /\ up /\ "deposit-quote" \in Routes
  /\ RateCheck(<<"deposit-quote", ip>>)
  /\ UNCHANGED <<up, clock, req, seen, spendHits, cache, blocked, chain, crashes>>

\* POST /submit and /submit-deposit up to the await of the IP limiter, each on
\* a key of its own.
Arrive(r, route, key, b) ==
  /\ up /\ route \in Routes /\ req[r] = Idle
  /\ RateCheck(key)
  /\ req' = IF RateAllows(key)
            THEN [req EXCEPT ![r] = [Idle EXCEPT !.pc = "admitted",
                                       !.route = route, !.body = b]]
            ELSE req
  /\ UNCHANGED <<up, clock, seen, spendHits, cache, blocked, chain, crashes>>
Submit(r, ip, b) == Arrive(r, "withdraw", <<"ip", ip>>, b)
SubmitDeposit(r, ip, b) == Arrive(r, "deposit", <<"deposit", ip>>, b)

\* 409 replayed_tx
RejectReplay(r) ==
  /\ req[r].pc = "admitted" /\ IsReplay(req[r].body)
  /\ req' = [req EXCEPT ![r] = Idle]
  /\ UNCHANGED <<up, clock, guards, blocked, chain, crashes>>

\* Mutant. The text is not remembered on admission, only looked for.
AdmitWithdraw_notRemembered(r) ==
  /\ req[r].pc = "admitted" /\ req[r].route = "withdraw"
  /\ ~IsReplay(req[r].body)
  /\ req' = [req EXCEPT ![r] =
       IF ValidWithdraw(Tx(r)) /\ Tx(r).ixs[1].denom \in DenomTiers
       THEN [@ EXCEPT !.pc = "lookup", !.at = clock] ELSE Idle]
  /\ UNCHANGED <<up, clock, guards, blocked, chain, crashes>>

\* /submit: remember the body, validate it, then await the recipient account.
AdmitWithdraw(r) ==
  /\ req[r].pc = "admitted" /\ req[r].route = "withdraw"
  /\ ~IsReplay(req[r].body)
  /\ seen' = [seen EXCEPT ![req[r].body] = clock]
  /\ req' = [req EXCEPT ![r] =
       IF ValidWithdraw(Tx(r)) /\ Tx(r).ixs[1].denom \in DenomTiers
       THEN [@ EXCEPT !.pc = "lookup", !.at = clock] ELSE Idle]
  /\ UNCHANGED <<up, clock, hits, spendHits, cache, blocked, chain, recent, crashes>>

\* /submit-deposit: remember, validate, screen the depositor, check the spend.
AdmitDeposit(r) ==
  /\ req[r].pc = "admitted" /\ req[r].route = "deposit"
  /\ ~IsReplay(req[r].body)
  /\ seen' = [seen EXCEPT ![req[r].body] = clock]
  /\ IF ValidDeposit(Tx(r)) /\ PartyOf(Tx(r)) \notin blocked
     THEN SpendCheck(r, [req[r] EXCEPT !.at = clock])
     ELSE req' = [req EXCEPT ![r] = Idle] /\ UNCHANGED spendHits
  /\ UNCHANGED <<up, clock, hits, cache, blocked, chain, recent, crashes>>

\* The recipient account arrives: its owner is screened and rate limited.
Screen(r) ==
  LET key == <<"recipient", PartyOf(Tx(r))>>
  IN /\ req[r].pc = "lookup"
     /\ IF PartyOf(Tx(r)) \in blocked
        THEN req' = [req EXCEPT ![r] = Idle] /\ UNCHANGED <<hits, recent>>
        ELSE /\ RateCheck(key)
             /\ req' = [req EXCEPT ![r] =
                  IF RateAllows(key) THEN [@ EXCEPT !.pc = "screened"] ELSE Idle]
     /\ UNCHANGED <<up, clock, seen, spendHits, cache, blocked, chain, crashes>>

CheckSpend(r) ==
  /\ req[r].pc = "screened"
  /\ SpendCheck(r, req[r])
  /\ UNCHANGED <<up, clock, hits, seen, cache, blocked, chain, recent, crashes>>

\* External: the RPC node reads the balance while the handler awaits it.
RpcReads(r) ==
  /\ req[r].pc = "balance"
  /\ req' = [req EXCEPT ![r] = [@ EXCEPT !.pc = "answer", !.bal = balance, !.readAt = clock]]
  /\ UNCHANGED <<up, clock, guards, blocked, chain, crashes>>

\* Mutant. The balance is dated when the answer arrives, not when it was asked for.
BalanceAnswered_datedOnArrival(r) ==
  /\ req[r].pc = "answer"
  /\ cache' = [bal |-> req[r].bal, at |-> clock, readAt |-> req[r].readAt]
  /\ req' = [req EXCEPT ![r] = AfterBalance(@, @.bal, @.readAt)]
  /\ UNCHANGED <<up, clock, hits, seen, spendHits, blocked, chain, recent, crashes>>

\* The answer is cached under the time the check began, then compared.
BalanceAnswered(r) ==
  /\ req[r].pc = "answer"
  /\ cache' = [bal |-> req[r].bal, at |-> req[r].now, readAt |-> req[r].readAt]
  /\ req' = [req EXCEPT ![r] = AfterBalance(@, @.bal, @.readAt)]
  /\ UNCHANGED <<up, clock, hits, seen, spendHits, blocked, chain, recent, crashes>>

\* The recipient account is missing or an RPC read fails, or the send is
\* refused before it costs anything: the request ends with an error.
Fail(r) ==
  /\ req[r].pc \in {"lookup", "balance", "answer", "send"}
  /\ req' = [req EXCEPT ![r] = Idle]
  /\ UNCHANGED <<up, clock, guards, blocked, chain, crashes>>

\* sendTransaction reaches the chain, which takes a transaction at most once.
Forward(r) ==
  /\ req[r].pc = "send"
  /\ paidAt[Tx(r).id] = LongAgo /\ balance > 0
  /\ paidAt' = [paidAt EXCEPT ![Tx(r).id] = clock]
  /\ balance' = balance - 1
  /\ req' = [req EXCEPT ![r] = [@ EXCEPT !.pc = "sent", !.now = LongAgo,
                                           !.bal = 0, !.readAt = LongAgo]]
  /\ UNCHANGED <<up, clock, guards, blocked, forgotten, crashes>>

\* Mutant. The send is not counted.
Commit_uncounted(r) ==
  /\ req[r].pc = "sent"
  /\ req' = [req EXCEPT ![r] = Idle]
  /\ UNCHANGED <<up, clock, guards, blocked, chain, crashes>>

\* The signature comes back and the send is counted.
Commit(r) ==
  /\ req[r].pc = "sent"
  /\ spendHits' = Append(spendHits, clock)
  /\ req' = [req EXCEPT ![r] = Idle]
  /\ UNCHANGED <<up, clock, hits, seen, cache, blocked, chain, recent, crashes>>

\* sendTransaction throws after the fact: a timeout or a dropped connection.
LoseAnswer(r) ==
  /\ req[r].pc = "sent"
  /\ forgotten' = forgotten \cup {Tx(r).id}
  /\ req' = [req EXCEPT ![r] = Idle]
  /\ UNCHANGED <<up, clock, guards, blocked, balance, paidAt, crashes>>

Tick ==
  /\ clock < MaxTime /\ clock' = clock + 1
  /\ recent' = [k \in Keys |-> DropExpired(recent[k], clock + 1 - RateWindow)]
  /\ UNCHANGED <<up, req, hits, seen, spendHits, cache, blocked, chain, crashes>>

Handle(r) ==
  \/ \E ip \in Ips, b \in Bodies : Submit(r, ip, b) \/ SubmitDeposit(r, ip, b)
  \/ RejectReplay(r) \/ AdmitWithdraw(r) \/ AdmitDeposit(r)
  \/ Screen(r) \/ CheckSpend(r) \/ RpcReads(r) \/ BalanceAnswered(r)
  \/ Fail(r) \/ Forward(r) \/ Commit(r) \/ LoseAnswer(r)

Next ==
  \/ \E r \in Requests : Handle(r)
  \/ \E ip \in Ips : Quote(ip) \/ DepositQuote(ip)
  \/ Start \/ Crash \/ ReloadSanctions \/ Tick

Spec == Init /\ [][Next]_vars
-----------------------------------------------------------------------------
(* Properties *)

\* While the process lives, in no stretch of time as long as the window is a key
\* allowed more calls than its limit, whichever of the routes, the quotes and the
\* overlapping requests they come from (rate-limit.ts, the sliding window).
RateLimited == \A k \in Keys : Len(recent[k]) <= LimitOf(k)

\* Two requests past the replay guard never hold the same text unless a whole
\* TTL separates their admissions: the text is remembered before the handler
\* first awaits, not when the send succeeds (replay-guard.ts admit, used by
\* /submit and /submit-deposit).
NoReplayInFlight ==
  \A r, s \in Requests :
    (/\ r # s /\ req[r].pc \notin {"idle", "admitted"}
     /\ req[s].pc \notin {"idle", "admitted"} /\ req[r].body = req[s].body)
    => \/ req[r].at - req[s].at >= ReplayTtl
       \/ req[s].at - req[r].at >= ReplayTtl

\* A request is sent only on a balance at or above the floor that the node read
\* less than the cache time before the check, even when balance answers come
\* back late or in another order than they were asked (spend-guard.ts balance).
FloorReadRecently ==
  \A r \in Requests : req[r].pc = "send" =>
    req[r].bal >= MinBalance /\ req[r].now - req[r].readAt < BalanceCacheTime

\* What the spend cap does guarantee although it is checked before the send and
\* counted after it: in a window the relayer pays for at most the cap plus the
\* requests that can overlap, leaving aside the sends whose answer was lost.
SpendCapWithinOverlap ==
  Cardinality({t \in Txs \ forgotten : paidAt[t] > clock - SpendWindow})
    <= MaxTxPerWindow - 1 + Cardinality(Requests)

\* Whatever the order of reloads, crashes and awaits, the relayer never pays for
\* a party that every version of the list names, nor for a gasless deposit that
\* leaves its fee elsewhere (index.ts fail-closed start, submit.ts step 4,
\* submit-deposit.ts steps 2 and 3).
PaidOnlyWithinPolicy ==
  \A b \in Bodies : LET tx == Decoded[b] IN
    paidAt[tx.id] # LongAgo =>
      /\ \E list \in SanctionLists : PartyOf(tx) \notin list
      /\ Len(tx.ixs) = 2 => PaysFee(tx.ixs[1])
=============================================================================
