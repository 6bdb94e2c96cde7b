------------------------------- MODULE QietrMsg -------------------------------
(***************************************************************************)
(* The qietr-msg Anchor program: a message is an account of fixed size at   *)
(* the PDA of its sender, its recipient and a nonce.  The sender pays its   *)
(* rent; only the recipient can empty it (delete) or end it (close), and    *)
(* close gives the rent to the recipient.  The same PDA can then be used    *)
(* again.                                                                   *)
(*                                                                          *)
(* A body stands for the bytes of one: what it was made from and how long   *)
(* it is.  Rent is counted in accounts.                                     *)
(***************************************************************************)
EXTENDS Integers, Sequences

CONSTANTS
  Writers,          \* keys that send and receive
  Pairs,            \* <<sender, recipient>>: who writes to whom
  MsgNonces,
  Bodies,           \* records with a length `len`
  NoBody,           \* 1024 zeros, body_len 0
  MAX_MSG_BYTES,
  InitialRent,      \* the accounts each writer can pay for
  MaxUses           \* bound on the messages sent to one PDA

ASSUME MsgConstants ==
  /\ Pairs \subseteq Writers \X Writers
  /\ \A b \in Bodies : b.len \in Nat
  /\ NoBody \notin Bodies
  /\ MAX_MSG_BYTES \in Nat /\ InitialRent \in Nat /\ MaxUses \in Nat

VARIABLES
  message,    \* the account at the PDA of each pair and nonce
  lamports,   \* rent each writer could pay
  posted,     \* history: the bodies sent to each PDA, in order
  ended       \* history: how many of these its recipient signed the end of

msgVars == <<message, lamports, posted, ended>>

Messages == Pairs \X MsgNonces
From(m) == m[1][1]
To(m) == m[1][2]

NoMessage == [exists |-> FALSE, body |-> NoBody]

Signs(m, signer) ==
  ended' = IF signer = To(m) THEN [ended EXCEPT ![m] = Len(posted[m])] ELSE ended

MsgTypeOK ==
  /\ message \in [Messages -> [exists : BOOLEAN, body : Bodies \cup {NoBody}]]
  /\ lamports \in [Writers -> Nat]
  /\ posted \in [Messages -> Seq(Bodies)]
  /\ ended \in [Messages -> Nat]
  /\ \A m \in Messages : ended[m] <= Len(posted[m])

MsgInit ==
  /\ message = [m \in Messages |-> NoMessage]
  /\ lamports = [w \in Writers |-> InitialRent]
  /\ posted = [m \in Messages |-> <<>>]
  /\ ended = [m \in Messages |-> 0]

\* Mutant. init_if_needed: a message can be sent over another.
send_again(m, body) ==
  /\ body.len <= MAX_MSG_BYTES
  /\ lamports[From(m)] > 0 /\ Len(posted[m]) < MaxUses
  /\ message' = [message EXCEPT ![m] = [exists |-> TRUE, body |-> body]]
  /\ lamports' = [lamports EXCEPT ![From(m)] = @ - 1]
  /\ posted' = [posted EXCEPT ![m] = Append(@, body)]
  /\ UNCHANGED ended

\* `init` at the seeds of the signer, the recipient and the nonce.
send(m, body) ==
  /\ body.len <= MAX_MSG_BYTES
  /\ ~message[m].exists
  /\ lamports[From(m)] > 0 /\ Len(posted[m]) < MaxUses
  /\ message' = [message EXCEPT ![m] = [exists |-> TRUE, body |-> body]]
  /\ lamports' = [lamports EXCEPT ![From(m)] = @ - 1]
  /\ posted' = [posted EXCEPT ![m] = Append(@, body)]
  /\ UNCHANGED ended

\* Mutant. The constraint of Delete names the sender too.
delete_bySender(m, signer) ==
  /\ message[m].exists /\ signer \in {From(m), To(m)}
  /\ message' = [message EXCEPT ![m].body = NoBody]
  /\ Signs(m, signer)
  /\ UNCHANGED <<lamports, posted>>

\* The body is overwritten, the account stays.
delete(m, signer) ==
  /\ message[m].exists /\ signer = To(m)
  /\ message' = [message EXCEPT ![m].body = NoBody]
  /\ Signs(m, signer)
  /\ UNCHANGED <<lamports, posted>>

\* `close = recipient`
close(m, signer) ==
  /\ message[m].exists /\ signer = To(m)
  /\ message' = [message EXCEPT ![m] = NoMessage]
  /\ lamports' = [lamports EXCEPT ![signer] = @ + 1]
  /\ Signs(m, signer)
  /\ UNCHANGED posted

MsgNext ==
  \E m \in Messages :
    \/ \E body \in Bodies : send(m, body)
    \/ \E signer \in Writers : delete(m, signer) \/ close(m, signer)

MsgSpec == MsgInit /\ [][MsgNext]_msgVars

-----------------------------------------------------------------------------
(* Properties *)

\* A message stays as it was sent, whoever calls what in whatever order, until
\* its recipient signs its end, and no other is sent to its PDA before (the
\* seeds, `init` and the constraints of Send, Delete and Close).
KeptUntilEnded ==
  \A m \in Messages : ended[m] < Len(posted[m]) =>
    /\ ended[m] = Len(posted[m]) - 1
    /\ message[m].exists /\ message[m].body = posted[m][Len(posted[m])]
=============================================================================
