------------------------------- MODULE MCWebApp -------------------------------
(* Two people, who hire each other and write to each other. *)
EXTENDS WebApp

CONSTANTS alice, bob, p1, p2

EachOther == {<<alice, bob>>, <<bob, alice>>}
Sealed == {encryptMsgBody(text, passphrase) : text \in {5}, passphrase \in {p1, p2}}
=============================================================================
