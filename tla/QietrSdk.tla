------------------------------ MODULE QietrSdk ------------------------------
(***************************************************************************)
(* One instance of the SDK: deposits, payments and x402 fetches that run at *)
(* the same time over one note.  A step runs from one await to the next;    *)
(* whatever is awaited, a node, the indexer or a merchant, may answer, fail,*)
(* or fail after having done what it was asked.                             *)
(*                                                                          *)
(* The note is the set of its commitments.  A commitment is named by the    *)
(* transaction that creates it: its secret is drawn anew in every attempt.  *)
(* Every call is made on one tier.  What the chain does with a transaction  *)
(* is what QietrPool's deposit and withdraw do, cut down to what a wallet   *)
(* sees: a withdraw takes a whole unspent tier commitment and leaves its    *)
(* change.                                                                  *)
(*                                                                          *)
(* The promises between the end of a payment and wrapFetch's setNote        *)
(* resolve without any I/O: they are one step here.                         *)
(***************************************************************************)
EXTENDS Integers, Sequences, FiniteSets

CONSTANTS
  Calls,             \* the calls an application makes
  Tier,              \* amount of a tier commitment
  InitialNotes,      \* tier commitments the note is loaded with
  maxAmountMicro, maxRetries, payToAllowlist,    \* wrapFetch's options
  Payees, Micros, Resources    \* what merchants ask for

ASSUME SdkConstants ==
  /\ {Tier, InitialNotes, maxAmountMicro, maxRetries} \subseteq Nat \ {0}
  /\ Micros \subseteq Nat
  /\ payToAllowlist \subseteq Payees
  /\ "initial" \notin Calls

VARIABLES
  note,         \* this.note
  calls,        \* each call's program counter and locals
  mempool,      \* transactions a node has and the ledger does not
  leaves, spent,     \* the pool: commitments appended, and spent
  sent,         \* history: transactions the SDK sent
  returned      \* history: transactions whose signature sendIxs returned

chain == <<mempool, leaves, spent>>
vars == <<note, calls, chain, sent, returned>>

-----------------------------------------------------------------------------
NoCommitment == [by |-> <<"none", 0>>, amount |-> 0]
Initial == {[by |-> <<"initial", i>>, amount |-> Tier] : i \in 1 .. InitialNotes}

\* A requirement of a merchant's `accepts` that matches scheme, network and asset.
Requirements == [payTo : Payees, micro : Micros, resource : Resources]
NoRequirement == [payTo |-> "none", micro |-> 0, resource |-> "none"]

Idle == [op |-> "none", pc |-> "idle", attempts |-> 0, settled |-> {},
         requirement |-> NoRequirement, sorted |-> {}, commitment |-> NoCommitment]

\* The transaction that call k sends in its current attempt.
Tx(k) ==
  LET call == calls[k]  spends == call.commitment  by == <<k, call.attempts>> IN
  IF call.op = "deposit"
  THEN [by |-> by, spends |-> NoCommitment, adds |-> {[by |-> by, amount |-> Tier]},
        requirement |-> NoRequirement]
  ELSE [by |-> by, spends |-> spends,
        adds |-> {[by |-> by, amount |-> spends.amount - call.requirement.micro]},
        requirement |-> call.requirement]
\* The commitments worth keeping: change of zero is appended but not noted.
Kept(tx) == {c \in tx.adds : c.amount > 0}

Init ==
  /\ note = Initial
  /\ calls = [k \in Calls |-> Idle]
  /\ mempool = {} /\ leaves = Initial /\ spent = {}
  /\ sent = {} /\ returned = {}

Goto(k, pc) == calls' = [calls EXCEPT ![k].pc = pc]
Throw(k) == Goto(k, "thrown")

-----------------------------------------------------------------------------
(* The chain: a transaction lands if the program accepts it, or it fails or *)
(* expires.                                                                  *)

Accepted(tx) ==
  tx.spends # NoCommitment => tx.spends.amount = Tier /\ tx.spends \in leaves \ spent

Land(tx) ==
  /\ tx \in mempool /\ Accepted(tx)
  /\ mempool' = mempool \ {tx}
  /\ leaves' = leaves \cup tx.adds
  /\ spent' = spent \cup ({tx.spends} \ {NoCommitment})
  /\ UNCHANGED <<note, calls, sent, returned>>

\* Also a root that left the window, a paused pool, a wallet without USDC.
Expire(tx) ==
  /\ tx \in mempool
  /\ mempool' = mempool \ {tx}
  /\ UNCHANGED <<note, calls, leaves, spent, sent, returned>>

-----------------------------------------------------------------------------
(* deposit, depositGasless: the secret exists only in the call until the end *)

StartDeposit(k) ==
  /\ calls[k].pc = "idle"
  /\ calls' = [calls EXCEPT ![k].op = "deposit", ![k].pc = "send"]
  /\ UNCHANGED <<note, chain, sent, returned>>

-----------------------------------------------------------------------------
(* payMicroExact *)

\* The smallest commitment that covers the payment.
Covers(micro) == {c \in note : c.amount >= micro}
Smallest(micro) == {c \in Covers(micro) : \A other \in Covers(micro) : c.amount <= other.amount}

\* Up to the first await: the commitment is chosen from the note as it is now.
Choose(k, req, attempts, settled) ==
  \E c \in Smallest(req.micro) :
    calls' = [calls EXCEPT ![k].pc = "lookup", ![k].requirement = req,
                ![k].sorted = note, ![k].commitment = c,
                ![k].attempts = attempts, ![k].settled = settled]

StartPay(k, req) ==
  /\ calls[k].pc = "idle"
  /\ req.micro > 0 /\ Covers(req.micro) # {}
  /\ \E c \in Smallest(req.micro) :
       calls' = [calls EXCEPT ![k].op = "pay", ![k].pc = "lookup",
                   ![k].requirement = req, ![k].sorted = note, ![k].commitment = c]
  /\ UNCHANGED <<note, chain, sent, returned>>

\* merkleProof, nullifierStatus and the proof.  The indexer may lag: it knows
\* no leaf that did not land, and not every nullifier that did.
Lookup(k) ==
  /\ calls[k].pc = "lookup"
  /\ \/ calls[k].commitment \in leaves /\ Goto(k, "send")
     \/ Throw(k)
  /\ UNCHANGED <<note, chain, sent, returned>>

\* Preflight runs on a bank that may not have seen another spend yet.
Preflight(tx) == tx.spends # NoCommitment => tx.spends.amount = Tier /\ tx.spends \in leaves

\* sendIxs: refused or unsigned and never sent; sent; or sent with the answer lost.
Send(k) ==
  /\ calls[k].pc = "send"
  /\ \/ Throw(k) /\ UNCHANGED <<mempool, sent>>
     \/ /\ Preflight(Tx(k))
        /\ mempool' = mempool \cup {Tx(k)} /\ sent' = sent \cup {Tx(k)}
        /\ Goto(k, "confirm") \/ Throw(k)
  /\ UNCHANGED <<note, leaves, spent, returned>>

\* Mutant. The note is rebuilt from the copy read before the payment.
Finish_stale(k) ==
  /\ calls[k].pc = "confirm"
  /\ note' = (IF calls[k].op = "deposit" THEN note
              ELSE calls[k].sorted \ {calls[k].commitment}) \cup Kept(Tx(k))
  /\ returned' = returned \cup {Tx(k)}
  /\ IF calls[k].op # "fetch" THEN Goto(k, "done")
     ELSE calls' = [calls EXCEPT ![k].pc = "fetching",
                      ![k].settled = @ \cup {calls[k].requirement}]
  /\ UNCHANGED <<chain, sent>>

\* Mutant. What was settled is not remembered.
Finish_noSettled(k) ==
  /\ calls[k].pc = "confirm"
  /\ note' = (note \ {calls[k].commitment}) \cup Kept(Tx(k))
  /\ returned' = returned \cup {Tx(k)}
  /\ Goto(k, IF calls[k].op # "fetch" THEN "done" ELSE "fetching")
  /\ UNCHANGED <<chain, sent>>

\* confirmTransaction ends one way or another and is not looked at.  The note
\* is brought up to date from what it is now; wrapFetch marks the requirement
\* settled and repeats the request with the signature.
Finish(k) ==
  /\ calls[k].pc = "confirm"
  /\ note' = (note \ {calls[k].commitment}) \cup Kept(Tx(k))
  /\ returned' = returned \cup {Tx(k)}
  /\ IF calls[k].op # "fetch" THEN Goto(k, "done")
     ELSE calls' = [calls EXCEPT ![k].pc = "fetching",
                      ![k].settled = @ \cup {calls[k].requirement}]
  /\ UNCHANGED <<chain, sent>>

-----------------------------------------------------------------------------
(* wrapFetch *)

StartFetch(k) ==
  /\ calls[k].pc = "idle"
  /\ calls' = [calls EXCEPT ![k].op = "fetch", ![k].pc = "fetching"]
  /\ UNCHANGED <<note, chain, sent, returned>>

\* A timeout, a network error, or no requirement we can meet.
FetchThrows(k) ==
  /\ calls[k].pc = "fetching" /\ Throw(k)
  /\ UNCHANGED <<note, chain, sent, returned>>

\* An answer other than 402, or a 402 after the last attempt.
FetchReturns(k) ==
  /\ calls[k].pc = "fetching" /\ Goto(k, "done")
  /\ UNCHANGED <<note, chain, sent, returned>>

\* The spend guard: ceiling, allowlist, and nothing settled twice in a call.
Payable(k, req) ==
  /\ req.micro > 0 /\ req.micro <= maxAmountMicro
  /\ req.payTo \in payToAllowlist
  /\ req \notin calls[k].settled

\* A 402 with attempts left.
PaymentRequired(k, req) ==
  /\ calls[k].pc = "fetching" /\ calls[k].attempts < maxRetries
  /\ IF Payable(k, req) /\ Covers(req.micro) # {}
     THEN Choose(k, req, calls[k].attempts + 1, calls[k].settled)
     ELSE Throw(k)
  /\ UNCHANGED <<note, chain, sent, returned>>

-----------------------------------------------------------------------------
Next ==
  \/ \E tx \in mempool : Land(tx) \/ Expire(tx)
  \/ \E k \in Calls :
       \/ StartDeposit(k) \/ StartFetch(k)
       \/ \E req \in Requirements : StartPay(k, req) \/ PaymentRequired(k, req)
       \/ Lookup(k) \/ Send(k) \/ Finish(k)
       \/ FetchThrows(k) \/ FetchReturns(k)

Spec == Init /\ [][Next]_vars

-----------------------------------------------------------------------------
(* Properties *)

\* However calls overlap, the note is what they returned put together: it has
\* every commitment a returned transaction created and none that one spent.
\* A call that used the note it read before its awaits would bring a spent
\* commitment back or forget another call's change (payMicroExact, deposit).
NoteIsSumOfCalls ==
  note = (Initial \cup UNION {Kept(tx) : tx \in returned}) \ {tx.spends : tx \in returned}

\* Within one call a requirement is paid at most once, whatever the merchant
\* answers and however a payment fails (wrapFetch's `settled`; x402.test.mjs:
\* "pays at most once for the same requirement").
SettledOncePerCall ==
  \A tx1, tx2 \in sent :
    /\ tx1.by[1] = tx2.by[1] /\ calls[tx1.by[1]].op = "fetch"
    /\ tx1.requirement = tx2.requirement
    => tx1 = tx2

=============================================================================
