----------------------------- MODULE EscrowPages -----------------------------
(***************************************************************************)
(* The escrow page of the web app (EscrowManager) over the QietrEscrow      *)
(* program: one visitor lists the jobs of their wallet, presses the buttons *)
(* the list offers, and sends through ConfirmTx, while everybody else, and  *)
(* the visitor's own scripts, call the program directly.                    *)
(*                                                                          *)
(* What the list shows is a copy: the job may change between the fetch, the *)
(* click, the signature and the landing.  The page decides from the copy    *)
(* and from the browser's clock, the program from the job and the chain's.  *)
(***************************************************************************)
EXTENDS QietrEscrow, ConfirmTx, FiniteSets

CONSTANTS
  PageMint,     \* USDC_MINT_DEVNET: what the page locks and pays out in
  ClockSkew     \* how far the browser's clock may be off, in steps

ASSUME PageConstants == PageMint \in Mints /\ ClockSkew \in Nat

VARIABLE rows   \* what My jobs lists: copies of jobs, NoJob where it lists none

pageVars == <<visitor, rows, submission>>
allVars == <<vars, pageVars>>

Actions == {"accept", "complete", "release", "dispute", "resolve", "cancel", "close"}

-----------------------------------------------------------------------------
(* What the page shows and allows *)

\* fetchJobs finds a job by its client's key and by its agent's.
Concerns(k, row) == row.exists /\ visitor \in {ClientOf(k), row.agent}

\* Mutant. The client of a completed job is not offered the dispute.
Offered_noDispute(k, row) ==
  LET isClient == visitor = ClientOf(k)  isAgent == visitor = row.agent
  IN CASE row.state = "Created" ->
            {a \in {"cancel"} : isClient} \cup {a \in {"accept"} : isAgent}
       [] row.state = "Accepted" -> IF isAgent THEN {"complete"}
                                    ELSE {a \in {"cancel"} : isClient}
       [] row.state = "Completed" -> {a \in {"release"} : isClient}
       [] row.state = "Disputed" -> {a \in {"resolve"} : isClient}
       [] OTHER -> {a \in {"close"} : isClient}

\* Mutant. A job that was accepted can already be disputed.
Offered_earlyDispute(k, row) ==
  LET isClient == visitor = ClientOf(k)  isAgent == visitor = row.agent
  IN CASE row.state = "Created" ->
            {a \in {"cancel"} : isClient} \cup {a \in {"accept"} : isAgent}
       [] row.state = "Accepted" -> IF isAgent THEN {"complete"}
                                    ELSE {a \in {"cancel", "dispute"} : isClient}
       [] row.state = "Completed" -> {a \in {"release", "dispute"} : isClient}
       [] row.state = "Disputed" -> {a \in {"resolve"} : isClient}
       [] OTHER -> {a \in {"close"} : isClient}

\* availableActions: the buttons beside a row.
Offered(k, row) ==
  LET isClient == visitor = ClientOf(k)  isAgent == visitor = row.agent
  IN CASE row.state = "Created" ->
            {a \in {"cancel"} : isClient} \cup {a \in {"accept"} : isAgent}
       [] row.state = "Accepted" -> IF isAgent THEN {"complete"}
                                    ELSE {a \in {"cancel"} : isClient}
       [] row.state = "Completed" -> {a \in {"release", "dispute"} : isClient}
       [] row.state = "Disputed" -> {a \in {"resolve"} : isClient}
       [] OTHER -> {a \in {"close"} : isClient}

\* handleAction refuses what the program would, by the browser's clock.
LetsThrough(row, action, local) ==
  /\ action = "resolve" => local >= row.completed_at + Timeout
  /\ action = "cancel" /\ row.state = "Accepted" => local >= row.accepted_at + Timeout

-----------------------------------------------------------------------------
(* What an instruction of the page does.  The accounts it names are those of*)
(* PageMint: the program refuses them for a vault of another mint.          *)

PaysOutIn(k) == vault[k].mint = PageMint

Accepted(ix) ==
  \/ ix.action = "create"   /\ CanCreate(ix.k, ix.price, PageMint)
  \/ ix.action = "accept"   /\ CanAccept(ix.k, visitor)
  \/ ix.action = "complete" /\ CanComplete(ix.k, visitor)
  \/ ix.action = "release"  /\ PaysOutIn(ix.k) /\ CanRelease(ix.k, visitor)
  \/ ix.action = "dispute"  /\ CanDispute(ix.k, visitor)
  \/ ix.action = "resolve"  /\ PaysOutIn(ix.k) /\ CanResolve(ix.k, visitor)
  \/ ix.action = "cancel"   /\ PaysOutIn(ix.k) /\ CanCancel(ix.k, visitor)
  \/ ix.action = "close"    /\ CanClose(ix.k)

Execute(ix) ==
  \/ ix.action = "create"   /\ create_job(ix.k, ix.agent, ix.price, PageMint)
  \/ ix.action = "accept"   /\ accept_job(ix.k, visitor)
  \/ ix.action = "complete" /\ complete_job(ix.k, visitor)
  \/ ix.action = "release"  /\ PaysOutIn(ix.k) /\ release_payment(ix.k, visitor)
  \/ ix.action = "dispute"  /\ dispute_job(ix.k, visitor)
  \/ ix.action = "resolve"  /\ PaysOutIn(ix.k) /\ resolve_dispute(ix.k, visitor)
  \/ ix.action = "cancel"   /\ PaysOutIn(ix.k) /\ cancel_job(ix.k, visitor)
  \/ ix.action = "close"    /\ close_job(ix.k)

-----------------------------------------------------------------------------
PagesInit ==
  /\ Init
  /\ visitor \in Users
  /\ rows = [k \in Jobs |-> NoJob]
  /\ submission = NothingSent

\* fetchJobs: on connecting, after a success, and at Refresh.
FetchJobs ==
  /\ rows' = [k \in Jobs |-> IF Concerns(k, job[k]) THEN job[k] ELSE NoJob]
  /\ UNCHANGED <<vars, visitor, submission>>

\* handleAction up to the signature.
HandleAction(k, action) ==
  /\ rows[k].exists /\ action \in Offered(k, rows[k])
  /\ \E local \in now - ClockSkew .. now + ClockSkew : LetsThrough(rows[k], action, local)
  /\ Submit([action |-> action, k |-> k])
  /\ UNCHANGED <<vars, visitor, rows>>

\* handleCreate: the balance is looked at first, and the nonce is new.
HandleCreate(k, agent, price) ==
  /\ ClientOf(k) = visitor /\ ~vault[k].exists
  /\ price > 0 /\ balance[<<visitor, PageMint>>] >= price
  /\ Submit([action |-> "create", k |-> k, agent |-> agent, price |-> price])
  /\ UNCHANGED <<vars, visitor, rows>>

\* The two forms: creation's, and the buttons beside the rows.
CreateForm == \E k \in Jobs, agent \in Users, price \in Prices : HandleCreate(k, agent, price)
RowButtons == \E k \in Jobs, action \in Actions : HandleAction(k, action)

\* Preflight runs the transaction against the job as it is now.
SendRaw ==
  /\ Broadcast /\ Accepted(submission.ix)
  /\ UNCHANGED <<vars, visitor, rows>>

LandOk == Lands("ok") /\ Execute(submission.ix) /\ UNCHANGED <<visitor, rows>>
LandFailed ==
  /\ InFlight /\ ~Accepted(submission.ix)
  /\ Lands("failed") /\ UNCHANGED <<vars, visitor, rows>>

Confirm == Confirming /\ UNCHANGED <<vars, visitor, rows>>
Expire == WindowPasses /\ UNCHANGED <<vars, visitor, rows>>

\* The page is closed and opened again; its list is empty until it is fetched.
Reload ==
  /\ Forget /\ rows' = [k \in Jobs |-> NoJob]
  /\ UNCHANGED <<vars, visitor>>

Elsewhere == Next /\ UNCHANGED pageVars

PageStep ==
  \/ FetchJobs \/ CreateForm \/ RowButtons \/ Reload
  \/ SendRaw \/ LandOk \/ LandFailed \/ Confirm \/ Expire

PagesNext == Elsewhere \/ PageStep

PagesSpec == PagesInit /\ [][PagesNext]_allVars

\* A keeper who is not the client calls resolve_dispute on a disputed job, as
\* the program invites anyone to.
Keep(k, keeper) == resolve_dispute(k, keeper) /\ UNCHANGED pageVars
TimePasses == Tick /\ UNCHANGED pageVars

\* A client who wants the money back stays at the page: refreshes the list and
\* presses, time and again, whatever leads there.  The wallet signs and the
\* network takes a transaction at least now and then.
GoesForRefund == \E k \in Jobs, action \in {"cancel", "dispute", "resolve"} : HandleAction(k, action)
ClientStays ==
  /\ WF_allVars(FetchJobs) /\ WF_allVars(Confirm) /\ WF_allVars(Expire)
  /\ SF_allVars(GoesForRefund) /\ SF_allVars(SendRaw) /\ SF_allVars(LandOk)

-----------------------------------------------------------------------------
(* Properties *)

\* A click does what the button said or nothing: whatever happened to the job
\* since the row was fetched, an instruction of the page takes effect only in
\* a state for which the page offers it (the copy in JobRow against the
\* program's own checks).  A client who is their own agent is set aside: the
\* page offers them no cancel once they accepted, the program still has one.
ClicksMeanWhatTheyShow ==
  [][InFlight /\ submission'.tx = "ok" /\ submission.ix.action \in Actions =>
       LET ix == submission.ix  row == job[submission.ix.k]
       IN row.exists /\ (row.agent # ClientOf(ix.k) => ix.action \in Offered(ix.k, row))
    ]_allVars

\* With an up-to-date list and a clock that is right, every button that is
\* offered and not refused by the page is accepted by the program, so that no
\* visitor is sent into a raw program error (handleAction's guards and
\* availableActions against the eight instructions).
OfferedActionsWork ==
  \A k \in Jobs : Concerns(k, job[k]) /\ PaysOutIn(k) =>
    \A action \in Offered(k, job[k]) :
      /\ LetsThrough(job[k], action, now)
      /\ action \in {"accept", "complete"} => StampBound
      => Accepted([action |-> action, k |-> k])

\* A dispute ends, whatever its client does (resolve_dispute is open to all).
DisputesEnd ==
  \A k \in Jobs : job[k].exists /\ job[k].state = "Disputed" ~> vault[k].amount = 0

\* No agent, idle or hostile, can keep a client who asks for it at the page from
\* getting the money out of the vault: cancel_job's timeout, dispute_job and
\* resolve_dispute leave no state without an exit, the page always offers the
\* one there is, and a stale list or a lost transaction only delays it.
ClientNeverLockedOut ==
  ClientStays =>
    \A k \in Jobs :
      (/\ vault[k].amount > 0 /\ PaysOutIn(k)
       /\ visitor = ClientOf(k) /\ job[k].agent # visitor) ~> vault[k].amount = 0
=============================================================================
