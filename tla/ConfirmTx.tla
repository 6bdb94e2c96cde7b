------------------------------ MODULE ConfirmTx ------------------------------
(***************************************************************************)
(* sendAndConfirm (qietr-web, confirm-tx.ts): how the escrow and messaging  *)
(* pages send a transaction and find out what became of it.  One wallet at  *)
(* one page, one transaction at a time.                                     *)
(*                                                                          *)
(*   idle -Submit-> signing -Broadcast-> polling -PollPending-> height      *)
(*        height -StillValid-> polling | height -WindowGone-> lastCheck     *)
(*                                                                          *)
(* and back to idle, with a report, from every one of them.  What lands is  *)
(* what commitment `confirmed` shows: a block that is merely processed may  *)
(* be abandoned and its transaction land later, or never.  A rebroadcast    *)
(* repeats a transaction the network already has and changes nothing here.  *)
(***************************************************************************)

CONSTANT NoIx       \* the instruction of a page that has sent nothing

VARIABLES
  visitor,        \* the wallet that is connected
  submission
(* pc       where sendAndConfirm is: idle, signing, polling, height,        *)
(*          lastCheck                                                       *)
(* ix       what the transaction does                                       *)
(* tx       none; pending: signed, and may land; or how it landed: ok,      *)
(*          failed                                                          *)
(* expired  the height of the chain is past lastValidBlockHeight            *)
(* report   what the page told its user: none, success, failed, expired,    *)
(*          error                                                           *)

NothingSent == [pc |-> "idle", ix |-> NoIx, tx |-> "none", expired |-> FALSE, report |-> "none"]

\* A signed transaction can still land until its blockhash expires.
InFlight == submission.tx = "pending" /\ ~submission.expired

At(pc) == submission.pc = pc
Goto(pc) == submission' = [submission EXCEPT !.pc = pc]
Report(what) == submission' = [submission EXCEPT !.pc = "idle", !.report = what]

\* A button is pressed: the blockhash is read and the wallet asked to sign.
\* Bound: nobody presses while an earlier transaction of theirs may still land.
Submit(ix) ==
  /\ At("idle") /\ ~InFlight
  /\ submission' = [NothingSent EXCEPT !.pc = "signing", !.ix = ix]

\* The wallet refuses, the node cannot be reached, or preflight fails.
NotSent == At("signing") /\ Report("error")

\* sendRawTransaction; the guard is preflight's, and the page's to add.
Broadcast ==
  /\ At("signing")
  /\ submission' = [submission EXCEPT !.pc = "polling", !.tx = "pending"]

\* External: the transaction lands one way or the other, or its window goes.
Lands(how) == InFlight /\ submission' = [submission EXCEPT !.tx = how]
WindowPasses ==
  /\ submission.tx # "none" /\ ~submission.expired
  /\ submission' = [submission EXCEPT !.expired = TRUE]

\* isOnChain, before the window is looked at.
PollConfirmed == At("polling") /\ submission.tx = "ok" /\ Report("success")
PollFailed    == At("polling") /\ submission.tx = "failed" /\ Report("failed")
PollPending   == At("polling") /\ submission.tx = "pending" /\ Goto("height")

\* Mutant. The window is asked of the node, which moves it with every new blockhash.
StillValid_always == At("height") /\ Goto("polling")

\* getBlockHeight: within the window, rebroadcast and poll again.
StillValid == At("height") /\ ~submission.expired /\ Goto("polling")
WindowGone == At("height") /\ submission.expired /\ Goto("lastCheck")

\* Mutant. The window is gone, so the transaction is given up without a look.
LastCheck_none == At("lastCheck") /\ Report("expired")

\* One final look: a transaction may have landed in the block that closed the
\* window.  One that landed and failed is reported as expired too.
LastCheck ==
  /\ At("lastCheck")
  /\ Report(IF submission.tx = "ok" THEN "success" ELSE "expired")

\* Any of these calls can fail; nothing is known of the transaction then.
RpcThrows ==
  /\ submission.pc \in {"polling", "height", "lastCheck"}
  /\ Report("error")

\* The page is closed or reloaded: the transaction goes on without it.
Forget == submission' = [submission EXCEPT !.pc = "idle", !.report = "none"]

Confirming ==
  \/ NotSent \/ PollConfirmed \/ PollFailed \/ PollPending
  \/ StillValid \/ WindowGone \/ LastCheck \/ RpcThrows

-----------------------------------------------------------------------------
(* Properties *)

\* The report is true and stays true.  Success means the transaction took
\* effect; failed, that it landed and did not; expired, that it took no effect
\* and never will, however close to the end of the window it landed, so that
\* sending it again does nothing twice (confirm-tx.ts: "this is what closes the
\* false-negative race").
ReportsAreTrue ==
  /\ submission.report = "success" => submission.tx = "ok"
  /\ submission.report = "failed" => submission.tx = "failed"
  /\ submission.report = "expired" => submission.tx # "ok" /\ ~InFlight
=============================================================================
