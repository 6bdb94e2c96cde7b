-------------------------------- MODULE Wallet --------------------------------
(***************************************************************************)
(* The two levels a user's note is kept at: calls that overlap in one       *)
(* instance of the SDK (QietrSdk), and the pages of the web app, which make *)
(* one call at a time in an instance of their own each and share            *)
(* localStorage (WalletPages).  An application is one or the other, so a    *)
(* behaviour is of one of them.                                             *)
(***************************************************************************)
EXTENDS QietrSdk, WalletPages

VARIABLE application

walletAndSdkVars == <<application, vars, walletVars>>

WalletOrSdkInit == application \in {"instance", "pages"} /\ Init /\ WalletInit

WalletOrSdkNext ==
  \/ application = "instance" /\ Next /\ UNCHANGED <<application, walletVars>>
  \/ application = "pages" /\ WalletNext /\ UNCHANGED <<application, vars>>

WalletOrSdkSpec == WalletOrSdkInit /\ [][WalletOrSdkNext]_walletAndSdkVars
=============================================================================
