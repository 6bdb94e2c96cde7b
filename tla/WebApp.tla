-------------------------------- MODULE WebApp --------------------------------
(***************************************************************************)
(* The agents' half of the web app (qietr-web): the escrow page and the     *)
(* messaging page.  They are separate routes that share the connected       *)
(* wallet and ConfirmTx, and nothing on chain or in localStorage.  Leaving  *)
(* a route unmounts its components, which the pages' own reload actions     *)
(* already show, so a behaviour stays with one of them.                     *)
(***************************************************************************)
EXTENDS EscrowPages, MessagingPages

VARIABLE page

webVars == <<page, allVars, mailVars>>

mailOnly == <<msgVars, inbox, decrypted>>
escrowOnly == <<vars, rows>>

WebInit ==
  /\ page \in {"escrow", "messaging"}
  /\ PagesInit /\ MailInit

OnEscrow(A) == page = "escrow" /\ A /\ UNCHANGED <<page, mailOnly>>
OnMessaging(A) == page = "messaging" /\ A /\ UNCHANGED <<page, escrowOnly>>

WebNext == OnEscrow(PagesNext) \/ OnMessaging(MailNext)

\* Time passes, and some keeper looks after every dispute.
WebSpec ==
  /\ WebInit /\ [][WebNext]_webVars
  /\ WF_webVars(OnEscrow(TimePasses))
  /\ \A k \in Jobs : \E keeper \in Users \ {ClientOf(k)} : WF_webVars(OnEscrow(Keep(k, keeper)))
=============================================================================
