---------------------------- MODULE MessagingPages ----------------------------
(***************************************************************************)
(* The messaging page of the web app (MessagingManager and the SDK's msg.ts)*)
(* over the QietrMsg program.  The visitor seals a text with a passphrase   *)
(* and sends it through ConfirmTx; reads the inbox, which is a copy; tries  *)
(* passphrases on its rows; deletes rows.  Everybody else calls the program *)
(* directly, and may use the nonce of a closed message again.               *)
(*                                                                          *)
(* A text is its length in UTF-8 bytes; a body is <<text, passphrase>> as   *)
(* encryptMsgBody makes it, with the length that gives.                     *)
(***************************************************************************)
EXTENDS QietrMsg, ConfirmTx

CONSTANTS
  Texts,          \* what the visitor types
  Passphrases,
  NoPassphrase,   \* the field is empty
  NoRow

VARIABLES
  inbox,          \* the rows: the body of each PDA listed, NoRow of the others
  decrypted       \* the texts shown, by PDA; NoBody where none is

inboxVars == <<visitor, inbox, decrypted, submission>>
mailVars == <<msgVars, inboxVars>>

-----------------------------------------------------------------------------
(* Sealing *)

\* base64 of salt, nonce, ciphertext and tag
EncryptedLen(text) == 4 * ((16 + 12 + 16 + text + 2) \div 3)
encryptMsgBody(text, passphrase) ==
  [text |-> text, passphrase |-> passphrase, len |-> EncryptedLen(text)]

\* A sealed body is at least salt, nonce and tag, so it is no emptied account's.
ASSUME MessagingConstants ==
  \A text \in Texts, passphrase \in Passphrases :
    encryptMsgBody(text, passphrase) # NoBody

\* decryptMsgBody: a body that is too short, or whose tag the key does not give.
Decrypts(body, passphrase) == body # NoBody /\ body.passphrase = passphrase

\* handleSend's checks, on the text as typed.
PageLets(text, passphrase) == text \in 1 .. 1024 /\ passphrase # NoPassphrase
\* buildSendMsgIx's, on the sealed body.
Builds(body) == body.len <= MAX_MSG_BYTES
\* External: web3.js puts no more than 1232 bytes in a transaction, 289 of them
\* taken; this one is refused when it is signed.
FitsTransaction(ix) == ix.action = "send" => ix.body.len <= 943

-----------------------------------------------------------------------------
MailExecute(ix) ==
  \/ ix.action = "send" /\ send(ix.m, ix.body)
  \/ ix.action = "delete" /\ delete(ix.m, visitor)

MailInit ==
  /\ MsgInit
  /\ visitor \in Writers
  /\ inbox = [m \in Messages |-> NoRow]
  /\ decrypted = [m \in Messages |-> NoBody]
  /\ submission = NothingSent

\* The nonce is eight random bytes, so no account was ever there.
HandleSend(m, text, passphrase) ==
  LET body == encryptMsgBody(text, passphrase)
  IN /\ From(m) = visitor /\ posted[m] = <<>>
     /\ PageLets(text, passphrase) /\ Builds(body)
     /\ Submit([action |-> "send", m |-> m, body |-> body])
     /\ UNCHANGED <<msgVars, visitor, inbox, decrypted>>

\* What the page let through can still be too long for the builder.
HandleSendThrows(text, passphrase) ==
  /\ PageLets(text, passphrase) /\ ~Builds(encryptMsgBody(text, passphrase))
  /\ At("idle") /\ ~InFlight
  /\ submission' = [NothingSent EXCEPT !.report = "error"]
  /\ UNCHANGED <<msgVars, visitor, inbox, decrypted>>

\* Mutant. The filter compares the sender's field.
FetchInbox_from ==
  /\ inbox' = [m \in Messages |-> IF message[m].exists /\ From(m) = visitor
                                  THEN message[m].body ELSE NoRow]
  /\ UNCHANGED <<msgVars, visitor, decrypted, submission>>

\* fetchInbox: the accounts of the right size whose recipient is the visitor,
\* the emptied ones included.  What is decrypted stays.
FetchInbox ==
  /\ inbox' = [m \in Messages |-> IF message[m].exists /\ To(m) = visitor
                                  THEN message[m].body ELSE NoRow]
  /\ UNCHANGED <<msgVars, visitor, decrypted, submission>>

\* Offered beside a row whose text is not shown.
HandleDecrypt(m, passphrase) ==
  /\ inbox[m] # NoRow /\ decrypted[m] = NoBody
  /\ passphrase # NoPassphrase /\ Decrypts(inbox[m], passphrase)
  /\ decrypted' = [decrypted EXCEPT ![m] = inbox[m]]
  /\ UNCHANGED <<msgVars, visitor, inbox, submission>>

HandleDelete(m) ==
  /\ inbox[m] # NoRow
  /\ Submit([action |-> "delete", m |-> m, body |-> inbox[m]])
  /\ UNCHANGED <<msgVars, visitor, inbox, decrypted>>

\* The form that sends, and the inbox with its buttons.
SendForm ==
  \E text \in Texts, passphrase \in Passphrases \cup {NoPassphrase} :
    HandleSendThrows(text, passphrase) \/ \E m \in Messages : HandleSend(m, text, passphrase)
InboxView ==
  \/ FetchInbox
  \/ \E m \in Messages : HandleDelete(m)
  \/ \E m \in Messages, passphrase \in Passphrases \cup {NoPassphrase} :
       HandleDecrypt(m, passphrase)

MailSendRaw ==
  /\ Broadcast /\ FitsTransaction(submission.ix) /\ ENABLED MailExecute(submission.ix)
  /\ UNCHANGED <<msgVars, visitor, inbox, decrypted>>

MailLandOk ==
  Lands("ok") /\ MailExecute(submission.ix) /\ UNCHANGED <<visitor, inbox, decrypted>>
MailLandFailed ==
  /\ InFlight /\ ~ENABLED MailExecute(submission.ix)
  /\ Lands("failed") /\ UNCHANGED <<msgVars, visitor, inbox, decrypted>>

\* A row goes when its delete is confirmed; the account is still there.
MailConfirm ==
  /\ Confirming
  /\ inbox' = IF submission'.report = "success" /\ submission.ix.action = "delete"
              THEN [inbox EXCEPT ![submission.ix.m] = NoRow] ELSE inbox
  /\ UNCHANGED <<msgVars, visitor, decrypted>>

MailExpire == WindowPasses /\ UNCHANGED <<msgVars, visitor, inbox, decrypted>>

MailReload ==
  /\ Forget
  /\ inbox' = [m \in Messages |-> NoRow]
  /\ decrypted' = [m \in Messages |-> NoBody]
  /\ UNCHANGED <<msgVars, visitor>>

\* Everybody calls the program directly, but the visitor sends from the page.
MailElsewhere ==
  /\ \E m \in Messages :
       \/ From(m) # visitor /\ \E body \in Bodies : send(m, body)
       \/ \E signer \in Writers : delete(m, signer) \/ close(m, signer)
  /\ UNCHANGED inboxVars

MailStep ==
  \/ SendForm \/ InboxView \/ MailReload
  \/ MailSendRaw \/ MailLandOk \/ MailLandFailed \/ MailConfirm \/ MailExpire

MailNext == MailElsewhere \/ MailStep

MailSpec == MailInit /\ [][MailNext]_mailVars

\* The page keeps polling while it is open, and blocks keep coming.
MailFairness == WF_mailVars(MailConfirm) /\ WF_mailVars(MailExpire)

-----------------------------------------------------------------------------
(* Properties *)

\* A send reported as successful is at its PDA, whole and readable with the
\* passphrase it was sealed with, until its recipient has ended it, whatever
\* the recipient's page, other senders and closed accounts do meanwhile
\* (handleSend's success after sendAndConfirm).
SentStaysReadable ==
  LET ix == submission.ix
  IN submission.report = "success" /\ ix.action = "send" =>
       \/ ended[ix.m] = Len(posted[ix.m])
       \/ message[ix.m].exists /\ Decrypts(message[ix.m].body, ix.body.passphrase)

\* Text shown under a row was sent to the visitor in that PDA, by its sender:
\* the rows and the texts are fetched, kept and dropped at different times, and
\* fetchInbox does not clear the texts.
ShownTextWasSent ==
  \A m \in Messages : decrypted[m] # NoBody =>
    To(m) = visitor /\ \E i \in 1 .. Len(posted[m]) : posted[m][i] = decrypted[m]

\* No button stays at "Sending" for ever: whatever the network does with the
\* transaction, the page comes to a report (sendAndConfirm's loop ends).
SubmissionsEnd ==
  MailFairness => (submission.pc \in {"polling", "height", "lastCheck"} ~> At("idle"))
=============================================================================
