----------------------------- MODULE Wallet_proofs -----------------------------
(***************************************************************************)
(* Theorems about the wallet, for any number of calls, commitments,         *)
(* retries, merchants, tabs and payments: first the calls that overlap in   *)
(* one instance of the SDK, then the pages that hold the user's money.      *)
(*                                                                          *)
(* A commitment is named by the attempt that creates it, so the first       *)
(* argument is about names.  SdkInv says which attempts of a call have been *)
(* sent and which have returned; a payment that returns then creates a name *)
(* that no transaction has created or spent.                                *)
(***************************************************************************)
EXTENDS Wallet, FiniteSetTheorems, TLAPS

-----------------------------------------------------------------------------
(* Calls of one instance of the SDK.                                        *)

NamedCommitments == [by : (Calls \cup {"initial", "none"}) \X Nat, amount : Int]
CallRecords ==
  [op : {"none", "deposit", "pay", "fetch"},
   pc : {"idle", "lookup", "send", "confirm", "fetching", "done", "thrown"},
   attempts : Nat, settled : SUBSET (Requirements \cup {NoRequirement}),
   requirement : Requirements \cup {NoRequirement},
   sorted : SUBSET NamedCommitments, commitment : NamedCommitments]

\* Commitments the note had at some time.
Noted == Initial \cup UNION {Kept(tx) : tx \in returned}

SdkTypeOK ==
  /\ calls \in [Calls -> CallRecords]
  /\ note \subseteq NamedCommitments

\* What a call spends it found in the note.
SpendsFromNote ==
  \A k \in Calls :
    /\ calls[k].commitment \in Noted \cup {NoCommitment}
    /\ calls[k].op \in {"none", "deposit"} => calls[k].commitment = NoCommitment

\* The attempt a call is in has not been sent before `send`, and is what waits
\* for its confirmation after.
NotSentYet == {"idle", "lookup", "send"}
AttemptsInOrder ==
  /\ \A tx \in sent :
       /\ tx.by \in Calls \X Nat /\ tx.by[2] <= calls[tx.by[1]].attempts
       /\ calls[tx.by[1]].pc \in NotSentYet => tx.by[2] < calls[tx.by[1]].attempts
  /\ \A k \in Calls :
       /\ calls[k].pc = "confirm" => Tx(k) \in sent
       /\ calls[k].pc = "idle" => calls[k].attempts = 0 /\ calls[k].op = "none"
       /\ calls[k].pc = "fetching" => calls[k].op = "fetch"

\* A transaction that returned did so in an attempt that is over.
ReturnedOnce ==
  /\ returned \subseteq sent
  /\ \A tx \in returned :
       /\ calls[tx.by[1]].pc = "confirm" => tx.by[2] < calls[tx.by[1]].attempts
       /\ tx.spends \in Noted \cup {NoCommitment}
       /\ \A c \in tx.adds : c.by = tx.by

\* What a fetch has sent it has settled, or it is on the way, or nothing follows.
SettledOrLast ==
  \A k \in Calls : calls[k].op = "fetch" =>
    /\ \A tx \in sent : tx.by[1] = k =>
         \/ tx.requirement \in calls[k].settled
         \/ calls[k].pc = "confirm" /\ tx.requirement = calls[k].requirement
         \/ calls[k].pc = "thrown"
    /\ calls[k].pc \in {"lookup", "send"} => calls[k].requirement \notin calls[k].settled

SdkInv ==
  /\ SdkTypeOK /\ SpendsFromNote /\ AttemptsInOrder /\ ReturnedOnce /\ SettledOrLast
  /\ NoteIsSumOfCalls /\ SettledOncePerCall

-----------------------------------------------------------------------------
LEMMA InitialNamed ==
  /\ Initial \subseteq NamedCommitments /\ NoCommitment \in NamedCommitments
  /\ NoCommitment.amount = 0
  /\ \A c \in Initial : c.by[1] = "initial"
<1>1. Tier \in Int /\ InitialNotes \in Nat
  BY SdkConstants
<1>2. ASSUME NEW i \in 1 .. InitialNotes
      PROVE  [by |-> <<"initial", i>>, amount |-> Tier] \in NamedCommitments
  <2>1. <<"initial", i>> \in (Calls \cup {"initial", "none"}) \X Nat
    BY <1>1
  <2> QED BY <1>1, <2>1 DEF NamedCommitments
<1>3. NoCommitment \in NamedCommitments
  BY DEF NoCommitment, NamedCommitments
<1> QED BY <1>2, <1>3 DEF Initial, NoCommitment

\* What the transaction of a call's attempt is made of.
LEMMA TxParts ==
  ASSUME SdkTypeOK, NEW k \in Calls
  PROVE  /\ Tx(k).by = <<k, calls[k].attempts>> /\ Tx(k).by \in Calls \X Nat
         /\ Tx(k).by[1] = k /\ Tx(k).by[2] = calls[k].attempts
         /\ Tx(k).spends = IF calls[k].op = "deposit" THEN NoCommitment ELSE calls[k].commitment
         /\ calls[k].op = "fetch" => Tx(k).requirement = calls[k].requirement
         /\ \A c \in Tx(k).adds : c.by = Tx(k).by /\ c \in NamedCommitments
<1> DEFINE by == <<k, calls[k].attempts>>
           change == calls[k].commitment.amount - calls[k].requirement.micro
<1>1. /\ calls[k] \in CallRecords /\ calls[k].attempts \in Nat
      /\ calls[k].commitment \in NamedCommitments
      /\ calls[k].requirement \in Requirements \cup {NoRequirement}
  BY DEF SdkTypeOK, CallRecords
<1>2. calls[k].requirement.micro \in Int
  <2>1. \A micro \in Micros : micro \in Int
    BY SdkConstants
  <2> QED BY <1>1, <2>1 DEF Requirements, NoRequirement
<1>3. change \in Int /\ Tier \in Int
  BY <1>1, <1>2, SdkConstants DEF NamedCommitments
<1>4. by \in Calls \X Nat /\ by \in (Calls \cup {"initial", "none"}) \X Nat /\ by[1] = k /\ by[2] = calls[k].attempts
  BY <1>1
<1> HIDE DEF by, change
<1>5. [by |-> by, amount |-> Tier] \in NamedCommitments /\ [by |-> by, amount |-> change] \in NamedCommitments
  BY <1>3, <1>4 DEF NamedCommitments
<1>6. CASE calls[k].op = "deposit"
  <2>1. Tx(k) = [by |-> by, spends |-> NoCommitment, adds |-> {[by |-> by, amount |-> Tier]},
                 requirement |-> NoRequirement]
    BY <1>6 DEF Tx, by
  <2> QED BY <1>4, <1>5, <1>6, <2>1 DEF by
<1>7. CASE calls[k].op # "deposit"
  <2>1. Tx(k) = [by |-> by, spends |-> calls[k].commitment,
                 adds |-> {[by |-> by, amount |-> change]}, requirement |-> calls[k].requirement]
    BY <1>7 DEF Tx, by, change
  <2> QED BY <1>4, <1>5, <1>7, <2>1 DEF by
<1> QED BY <1>6, <1>7

LEMMA SdkInitInv == Init => SdkInv
<1> SUFFICES ASSUME Init PROVE SdkInv
  OBVIOUS
<1>1. /\ note = Initial /\ sent = {} /\ returned = {}
      /\ \A k \in Calls : calls[k] = Idle
  BY DEF Init
<1>2. Idle \in CallRecords
  BY InitialNamed DEF Idle, CallRecords
<1>3. Noted = Initial
  BY <1>1 DEF Noted
<1>4. SdkTypeOK
  BY <1>1, <1>2, InitialNamed DEF Init, SdkTypeOK
<1>5. SpendsFromNote /\ AttemptsInOrder /\ ReturnedOnce /\ SettledOrLast
  BY <1>1 DEF SpendsFromNote, AttemptsInOrder, ReturnedOnce, SettledOrLast, Idle
<1>6. NoteIsSumOfCalls /\ SettledOncePerCall
  BY <1>1 DEF NoteIsSumOfCalls, SettledOncePerCall
<1> QED BY <1>4, <1>5, <1>6 DEF SdkInv

-----------------------------------------------------------------------------
\* One call moves on, and neither the note nor what was sent changes.
LEMMA CallMoves ==
  ASSUME SdkInv, NEW k \in Calls, NEW q \in CallRecords, calls' = [calls EXCEPT ![k] = q],
         UNCHANGED <<note, sent, returned>>,
         calls[k].pc \notin {"confirm", "thrown"}, q.pc \notin {"idle", "confirm"},
         q.commitment \in Noted \cup {NoCommitment},
         q.op \in {"none", "deposit"} => q.commitment = NoCommitment,
         q.pc = "fetching" => q.op = "fetch",
         \/ q.attempts = calls[k].attempts /\ (q.pc \in NotSentYet => calls[k].pc \in NotSentYet)
         \/ q.attempts = calls[k].attempts + 1,
         calls[k].op = "fetch" => q.op = "fetch" /\ q.settled = calls[k].settled,
         calls[k].op # "fetch" => q.op # "fetch" \/ calls[k].pc = "idle",
         q.op = "fetch" /\ q.pc \in {"lookup", "send"} => q.requirement \notin q.settled
  PROVE  SdkInv'
<1> USE DEF SdkInv
<1>1. \A j \in Calls : calls'[j] = IF j = k THEN q ELSE calls[j]
  BY DEF SdkTypeOK
<1>2. q.attempts \in Nat /\ calls[k].attempts \in Nat
  BY DEF SdkTypeOK, CallRecords
<1>3. Noted' = Noted
  BY DEF Noted
<1>4. SdkTypeOK'
  BY DEF SdkTypeOK
<1>5. SpendsFromNote'
  BY <1>1, <1>3 DEF SpendsFromNote
<1>6. \A j \in Calls : j # k => Tx(j)' = Tx(j)
  BY <1>1 DEF Tx
<1>7. ASSUME NEW tx \in sent, tx.by[1] = k
      PROVE  tx.by[2] \in Nat /\ tx.by[2] <= q.attempts
             /\ (q.pc \in NotSentYet => tx.by[2] < q.attempts)
  <2>1. /\ tx.by[2] \in Nat /\ tx.by[2] <= calls[k].attempts
        /\ calls[k].pc \in NotSentYet => tx.by[2] < calls[k].attempts
    BY <1>7 DEF AttemptsInOrder
  <2> QED BY <1>2, <2>1
<1>8. AttemptsInOrder'
  <2>1. ASSUME NEW tx \in sent'
        PROVE  /\ tx.by \in Calls \X Nat /\ tx.by[2] <= calls'[tx.by[1]].attempts
               /\ calls'[tx.by[1]].pc \in NotSentYet => tx.by[2] < calls'[tx.by[1]].attempts
    <3>1. tx \in sent /\ tx.by \in Calls \X Nat /\ tx.by[1] \in Calls
      BY DEF AttemptsInOrder
    <3>2. CASE tx.by[1] = k
      BY <3>1, <3>2, <1>1, <1>7
    <3>3. CASE tx.by[1] # k
      BY <3>1, <3>3, <1>1 DEF AttemptsInOrder
    <3> QED BY <3>2, <3>3
  <2>2. \A j \in Calls : /\ calls'[j].pc = "confirm" => Tx(j)' \in sent'
                         /\ calls'[j].pc = "idle" => calls'[j].attempts = 0 /\ calls'[j].op = "none"
                         /\ calls'[j].pc = "fetching" => calls'[j].op = "fetch"
    BY <1>1, <1>6 DEF AttemptsInOrder
  <2> QED BY <2>1, <2>2 DEF AttemptsInOrder
<1>9. ReturnedOnce'
  <2>1. ASSUME NEW tx \in returned'
        PROVE  calls'[tx.by[1]].pc = "confirm" => tx.by[2] < calls'[tx.by[1]].attempts
    <3>1. tx \in sent /\ tx \in returned /\ tx.by[1] \in Calls
      BY DEF ReturnedOnce, AttemptsInOrder
    <3> QED BY <3>1, <1>1 DEF ReturnedOnce
  <2> QED BY <2>1, <1>3 DEF ReturnedOnce
<1>10. SettledOrLast'
  <2> SUFFICES ASSUME NEW j \in Calls, calls'[j].op = "fetch"
               PROVE  /\ \A tx \in sent : tx.by[1] = j =>
                           \/ tx.requirement \in calls'[j].settled
                           \/ calls'[j].pc = "confirm" /\ tx.requirement = calls'[j].requirement
                           \/ calls'[j].pc = "thrown"
                      /\ calls'[j].pc \in {"lookup", "send"} =>
                           calls'[j].requirement \notin calls'[j].settled
    BY DEF SettledOrLast
  <2>1. CASE j # k
    BY <2>1, <1>1 DEF SettledOrLast
  <2>2. CASE j = k /\ calls[k].op = "fetch"
    BY <2>2, <1>1 DEF SettledOrLast
  <2>3. CASE j = k /\ calls[k].op # "fetch"
    <3>1. calls[k].pc = "idle" /\ calls[k].attempts = 0
      BY <2>3, <1>1 DEF AttemptsInOrder
    <3>2. \A tx \in sent : tx.by[1] # k
      <4> SUFFICES ASSUME NEW tx \in sent, tx.by[1] = k PROVE FALSE
        OBVIOUS
      <4>1. tx.by[2] \in Nat /\ tx.by[2] < 0
        BY <3>1 DEF AttemptsInOrder, NotSentYet
      <4> QED BY <4>1
    <3> QED BY <2>3, <3>2, <1>1
  <2> QED BY <2>1, <2>2, <2>3
<1>11. NoteIsSumOfCalls'
  BY DEF NoteIsSumOfCalls
<1>12. SettledOncePerCall'
  <2> SUFFICES ASSUME NEW tx1 \in sent, NEW tx2 \in sent, tx1.by[1] = tx2.by[1],
                      calls'[tx1.by[1]].op = "fetch", tx1.requirement = tx2.requirement
               PROVE  tx1 = tx2
    BY DEF SettledOncePerCall
  <2>1. tx1.by[1] \in Calls /\ tx1.by[2] \in Nat
    BY DEF AttemptsInOrder
  <2>2. CASE calls[tx1.by[1]].op = "fetch"
    BY <2>2 DEF SettledOncePerCall
  <2>3. CASE calls[tx1.by[1]].op # "fetch"
    <3>1. tx1.by[1] = k /\ calls[k].pc = "idle" /\ calls[k].attempts = 0
      BY <2>1, <2>3, <1>1 DEF AttemptsInOrder
    <3>2. tx1.by[2] < 0
      BY <3>1 DEF AttemptsInOrder, NotSentYet
    <3> QED BY <2>1, <3>2
  <2> QED BY <2>2, <2>3
<1> QED BY <1>4, <1>5, <1>8, <1>9, <1>10, <1>11, <1>12

-----------------------------------------------------------------------------
(* The transaction goes out: its attempt's name is new.                     *)

LEMMA Sends ==
  ASSUME SdkInv, NEW k \in Calls, NEW pc \in {"confirm", "thrown"}, calls[k].pc = "send",
         calls' = [calls EXCEPT ![k].pc = pc], sent' = sent \cup {Tx(k)},
         UNCHANGED <<note, returned>>
  PROVE  SdkInv'
<1> USE DEF SdkInv
<1> DEFINE q == [calls[k] EXCEPT !.pc = pc]
           new == Tx(k)
<1>1. calls[k] \in CallRecords /\ calls[k].attempts \in Nat
  BY DEF SdkTypeOK, CallRecords
<1>2. /\ q \in CallRecords /\ q.pc = pc /\ q.op = calls[k].op /\ q.attempts = calls[k].attempts
      /\ q.settled = calls[k].settled /\ q.requirement = calls[k].requirement
      /\ q.commitment = calls[k].commitment
  BY <1>1 DEF CallRecords
<1>3. \A j \in Calls : calls'[j] = IF j = k THEN q ELSE calls[j]
  BY DEF SdkTypeOK
<1> HIDE DEF q
<1>4. /\ new.by \in Calls \X Nat /\ new.by[1] = k /\ new.by[2] = calls[k].attempts
      /\ calls[k].op = "fetch" => new.requirement = calls[k].requirement
  BY TxParts
<1>5. \A j \in Calls : Tx(j)' = Tx(j)
  BY ZenonT(40), <1>2, <1>3 DEF Tx
<1>6. Noted' = Noted
  BY DEF Noted
<1> HIDE DEF new
<1>7. SdkTypeOK'
  BY <1>2, <1>3 DEF SdkTypeOK
<1>8. SpendsFromNote'
  BY <1>2, <1>3, <1>6 DEF SpendsFromNote
<1>9. "confirm" \notin NotSentYet /\ "thrown" \notin NotSentYet /\ "send" \in NotSentYet
  BY DEF NotSentYet
<1>10. AttemptsInOrder'
  <2>1. ASSUME NEW tx \in sent'
        PROVE  /\ tx.by \in Calls \X Nat /\ tx.by[2] <= calls'[tx.by[1]].attempts
               /\ calls'[tx.by[1]].pc \in NotSentYet => tx.by[2] < calls'[tx.by[1]].attempts
    <3>1. CASE tx = new
      BY <3>1, <1>1, <1>2, <1>3, <1>4, <1>9
    <3>2. CASE tx \in sent
      <4>1. tx.by \in Calls \X Nat /\ tx.by[1] \in Calls
        BY <3>2 DEF AttemptsInOrder
      <4> QED BY <3>2, <4>1, <1>2, <1>3, <1>9 DEF AttemptsInOrder
    <3> QED BY <3>1, <3>2 DEF new
  <2>2. \A j \in Calls : calls'[j].pc = "confirm" => Tx(j)' \in sent'
    BY <1>3, <1>5 DEF AttemptsInOrder
  <2>3. \A j \in Calls : /\ calls'[j].pc = "idle" => calls'[j].attempts = 0 /\ calls'[j].op = "none"
                         /\ calls'[j].pc = "fetching" => calls'[j].op = "fetch"
    BY <1>2, <1>3 DEF AttemptsInOrder
  <2> QED BY <2>1, <2>2, <2>3 DEF AttemptsInOrder
<1>11. ReturnedOnce'
  <2>1. ASSUME NEW tx \in returned
        PROVE  calls'[tx.by[1]].pc = "confirm" => tx.by[2] < calls'[tx.by[1]].attempts
    <3>1. tx \in sent /\ tx.by[1] \in Calls
      BY DEF ReturnedOnce, AttemptsInOrder
    <3>2. CASE tx.by[1] = k
      BY <3>1, <3>2, <1>2, <1>3, <1>9 DEF AttemptsInOrder
    <3>3. CASE tx.by[1] # k
      BY <3>1, <3>3, <1>3 DEF ReturnedOnce
    <3> QED BY <3>2, <3>3
  <2> QED BY <2>1, <1>6 DEF ReturnedOnce
<1>12. \A tx \in sent : tx.by[1] = k /\ calls[k].op = "fetch" =>
         tx.requirement \in calls[k].settled
  BY DEF SettledOrLast
<1>13. calls[k].op = "fetch" => calls[k].requirement \notin calls[k].settled
  BY DEF SettledOrLast
<1>14. SettledOrLast'
  <2> SUFFICES ASSUME NEW j \in Calls, calls'[j].op = "fetch"
               PROVE  /\ \A tx \in sent' : tx.by[1] = j =>
                           \/ tx.requirement \in calls'[j].settled
                           \/ calls'[j].pc = "confirm" /\ tx.requirement = calls'[j].requirement
                           \/ calls'[j].pc = "thrown"
                      /\ calls'[j].pc \in {"lookup", "send"} =>
                           calls'[j].requirement \notin calls'[j].settled
    BY DEF SettledOrLast
  <2>1. CASE j # k
    BY <2>1, <1>3, <1>4 DEF SettledOrLast, new
  <2>2. CASE j = k
    BY <2>2, <1>2, <1>3, <1>4, <1>12 DEF new
  <2> QED BY <2>1, <2>2
<1>15. NoteIsSumOfCalls'
  BY DEF NoteIsSumOfCalls
<1>16. SettledOncePerCall'
  <2> SUFFICES ASSUME NEW tx1 \in sent', NEW tx2 \in sent', tx1.by[1] = tx2.by[1],
                      calls'[tx1.by[1]].op = "fetch", tx1.requirement = tx2.requirement
               PROVE  tx1 = tx2
    BY DEF SettledOncePerCall
  <2>1. tx1.by[1] \in Calls
    BY <1>10 DEF AttemptsInOrder
  <2>2. calls[tx1.by[1]].op = "fetch"
    BY <2>1, <1>2, <1>3
  <2>3. CASE tx1 \in sent /\ tx2 \in sent
    BY <2>2, <2>3 DEF SettledOncePerCall
  <2>4. ASSUME NEW tx \in sent, tx.by[1] = k, calls[k].op = "fetch" PROVE tx.requirement # new.requirement
    BY <2>4, <1>4, <1>12, <1>13
  <2>5. CASE tx1 = new \/ tx2 = new
    BY <2>2, <2>4, <2>5, <1>4 DEF new
  <2> QED BY <2>3, <2>5 DEF new
<1> QED BY <1>7, <1>8, <1>10, <1>11, <1>14, <1>15, <1>16

-----------------------------------------------------------------------------
(* A call returns: what it created was neither created nor spent before.    *)

LEMMA FinishInv ==
  ASSUME SdkInv, NEW k \in Calls, Finish(k)
  PROVE  SdkInv'
<1> USE DEF SdkInv
<1> DEFINE new == Tx(k)
           q == IF calls[k].op # "fetch" THEN [calls[k] EXCEPT !.pc = "done"]
                ELSE [calls[k] EXCEPT !.pc = "fetching",
                        !.settled = calls[k].settled \cup {calls[k].requirement}]
           spentBy == {tx.spends : tx \in returned}
<1>1. /\ calls[k] \in CallRecords /\ calls[k].attempts \in Nat /\ calls[k].pc = "confirm"
      /\ new \in sent
  BY DEF SdkTypeOK, CallRecords, Finish, AttemptsInOrder
<1>2. /\ new.by \in Calls \X Nat /\ new.by[1] = k /\ new.by[2] = calls[k].attempts
      /\ new.spends = IF calls[k].op = "deposit" THEN NoCommitment ELSE calls[k].commitment
      /\ \A c \in new.adds : c.by = new.by /\ c \in NamedCommitments
  BY TxParts
<1>3. new.spends = calls[k].commitment
  BY <1>2 DEF SpendsFromNote
<1>4. /\ note' = (note \ {new.spends}) \cup Kept(new) /\ returned' = returned \cup {new}
      /\ sent' = sent /\ calls' = [calls EXCEPT ![k] = q]
  BY <1>3 DEF Finish, Goto, SdkTypeOK
<1>5. /\ q \in CallRecords /\ q.pc \in {"done", "fetching"} /\ q.op = calls[k].op
      /\ q.attempts = calls[k].attempts /\ q.commitment = calls[k].commitment
      /\ calls[k].op = "fetch" => q.settled = calls[k].settled \cup {calls[k].requirement}
      /\ q.pc = "fetching" => q.op = "fetch"
  BY <1>1 DEF CallRecords
<1>6. \A j \in Calls : calls'[j] = IF j = k THEN q ELSE calls[j]
  BY <1>4 DEF SdkTypeOK
<1> HIDE DEF q, new
<1>7. Noted' = Noted \cup Kept(new)
  BY <1>4 DEF Noted
<1>8. \A c \in Kept(new) : c.by = new.by /\ c # NoCommitment /\ c \in NamedCommitments
  BY <1>2, InitialNamed DEF Kept
<1>9. ASSUME NEW c \in Kept(new), c \in Noted PROVE FALSE
  <2>1. CASE c \in Initial
    <3>1. c.by[1] = "initial" /\ c.by[1] = k
      BY <2>1, <1>2, <1>8, InitialNamed
    <3> QED BY <3>1, SdkConstants
  <2>2. ASSUME NEW tx \in returned, c \in Kept(tx) PROVE FALSE
    <3>1. c.by = tx.by
      BY <2>2 DEF Kept, ReturnedOnce
    <3>2. tx.by[1] = k /\ tx.by[2] = calls[k].attempts
      BY <3>1, <1>2, <1>8
    <3>3. tx.by[2] < calls[k].attempts
      BY <3>2, <1>1 DEF ReturnedOnce
    <3> QED BY <3>2, <3>3, <1>1
  <2> QED BY <2>1, <2>2, <1>9 DEF Noted
<1>10. spentBy \subseteq Noted \cup {NoCommitment} /\ new.spends \in Noted \cup {NoCommitment}
  BY <1>3 DEF ReturnedOnce, SpendsFromNote
<1>11. NoteIsSumOfCalls'
  <2>1. note = Noted \ spentBy
    BY DEF NoteIsSumOfCalls, Noted
  <2>2. {tx.spends : tx \in returned'} = spentBy \cup {new.spends}
    BY <1>4
  <2> HIDE DEF spentBy
  <2>3. note' = Noted' \ (spentBy \cup {new.spends})
    BY <2>1, <1>4, <1>7, <1>8, <1>9, <1>10
  <2> QED BY <2>2, <2>3 DEF NoteIsSumOfCalls, Noted
<1>12. SdkTypeOK'
  BY <1>4, <1>5, <1>8 DEF SdkTypeOK
<1>13. SpendsFromNote'
  BY <1>5, <1>6, <1>7 DEF SpendsFromNote
<1>14. "confirm" \notin NotSentYet /\ "done" \notin NotSentYet /\ "fetching" \notin NotSentYet
  BY DEF NotSentYet
<1>15. AttemptsInOrder'
  <2>1. ASSUME NEW tx \in sent
        PROVE  /\ tx.by \in Calls \X Nat /\ tx.by[2] <= calls'[tx.by[1]].attempts
               /\ calls'[tx.by[1]].pc \in NotSentYet => tx.by[2] < calls'[tx.by[1]].attempts
    <3>1. tx.by \in Calls \X Nat /\ tx.by[1] \in Calls
      BY DEF AttemptsInOrder
    <3> QED BY <3>1, <1>5, <1>6, <1>14 DEF AttemptsInOrder
  <2>2. \A j \in Calls : calls'[j].pc \in {"confirm", "idle"} => j # k
    BY <1>5, <1>6
  <2>3. \A j \in Calls : j # k => Tx(j)' = Tx(j)
    BY <1>6 DEF Tx
  <2>4. \A j \in Calls : /\ calls'[j].pc = "confirm" => Tx(j)' \in sent'
                         /\ calls'[j].pc = "idle" => calls'[j].attempts = 0 /\ calls'[j].op = "none"
                         /\ calls'[j].pc = "fetching" => calls'[j].op = "fetch"
    BY <1>4, <1>5, <1>6, <2>2, <2>3 DEF AttemptsInOrder
  <2> QED BY <1>4, <2>1, <2>4 DEF AttemptsInOrder
<1>16. ReturnedOnce'
  <2>1. ASSUME NEW tx \in returned'
        PROVE  /\ tx \in sent /\ tx.spends \in Noted' \cup {NoCommitment}
               /\ \A c \in tx.adds : c.by = tx.by
    BY <1>1, <1>2, <1>4, <1>7, <1>10 DEF ReturnedOnce
  <2>2. ASSUME NEW tx \in returned', calls'[tx.by[1]].pc = "confirm"
        PROVE  tx.by[2] < calls'[tx.by[1]].attempts
    <3>1. tx.by[1] \in Calls
      BY <2>1 DEF AttemptsInOrder
    <3>2. tx.by[1] # k
      BY <2>2, <3>1, <1>5, <1>6
    <3> QED BY <2>2, <3>1, <3>2, <1>2, <1>4, <1>6 DEF ReturnedOnce
  <2> QED BY <2>1, <2>2, <1>4 DEF ReturnedOnce
<1>17. SettledOrLast'
  <2> SUFFICES ASSUME NEW j \in Calls, calls'[j].op = "fetch"
               PROVE  /\ \A tx \in sent : tx.by[1] = j =>
                           \/ tx.requirement \in calls'[j].settled
                           \/ calls'[j].pc = "confirm" /\ tx.requirement = calls'[j].requirement
                           \/ calls'[j].pc = "thrown"
                      /\ calls'[j].pc \in {"lookup", "send"} =>
                           calls'[j].requirement \notin calls'[j].settled
    BY <1>4 DEF SettledOrLast
  <2>1. CASE j # k
    BY <2>1, <1>6 DEF SettledOrLast
  <2>2. CASE j = k
    <3>1. \A tx \in sent : tx.by[1] = k =>
            tx.requirement \in calls[k].settled \/ tx.requirement = calls[k].requirement
      BY <2>2, <1>1, <1>5, <1>6 DEF SettledOrLast
    <3> QED BY <2>2, <3>1, <1>5, <1>6
  <2> QED BY <2>1, <2>2
<1>18. SettledOncePerCall'
  <2>1. \A tx \in sent : calls'[tx.by[1]].op = calls[tx.by[1]].op
    <3>1. \A tx \in sent : tx.by[1] \in Calls
      BY DEF AttemptsInOrder
    <3> QED BY <3>1, <1>5, <1>6
  <2> QED BY <2>1, <1>4 DEF SettledOncePerCall
<1> QED BY <1>11, <1>12, <1>13, <1>15, <1>16, <1>17, <1>18

-----------------------------------------------------------------------------
LEMMA SdkUntouched ==
  ASSUME SdkInv, UNCHANGED <<note, calls, sent, returned>>
  PROVE  SdkInv'
BY DEF SdkInv, SdkTypeOK, SpendsFromNote, AttemptsInOrder, ReturnedOnce, SettledOrLast,
       NoteIsSumOfCalls, SettledOncePerCall, Noted, Tx

\* The commitment a payment chooses is one the note has.
LEMMA ChosenFromNote ==
  ASSUME SdkInv, NEW micro, NEW c \in Smallest(micro)
  PROVE  c \in NamedCommitments /\ c \in Noted
BY DEF SdkInv, SdkTypeOK, NoteIsSumOfCalls, Noted, Smallest, Covers

LEMMA SdkNextInv == SdkInv /\ [Next]_vars => SdkInv'
<1> SUFFICES ASSUME SdkInv, [Next]_vars PROVE SdkInv'
  OBVIOUS
<1>1. CASE UNCHANGED vars
  BY <1>1, SdkUntouched DEF vars
<1>2. ASSUME NEW tx \in mempool, Land(tx) \/ Expire(tx) PROVE SdkInv'
  BY <1>2, SdkUntouched DEF Land, Expire
<1>3. ASSUME NEW k \in Calls,
             \/ StartDeposit(k) \/ StartFetch(k)
             \/ \E req \in Requirements : StartPay(k, req) \/ PaymentRequired(k, req)
             \/ Lookup(k) \/ Send(k) \/ Finish(k)
             \/ FetchThrows(k) \/ FetchReturns(k)
      PROVE  SdkInv'
  <2>1. /\ calls[k] \in CallRecords /\ calls \in [Calls -> CallRecords]
        /\ calls[k].commitment \in Noted \cup {NoCommitment} /\ note \subseteq NamedCommitments
        /\ calls[k].op \in {"none", "deposit"} => calls[k].commitment = NoCommitment
        /\ calls[k].pc = "idle" => calls[k].attempts = 0 /\ calls[k].op = "none"
        /\ calls[k].pc = "fetching" => calls[k].op = "fetch"
    BY DEF SdkInv, SdkTypeOK, SpendsFromNote, AttemptsInOrder
  <2>2. CASE StartDeposit(k)
    <3> DEFINE q == [calls[k] EXCEPT !.op = "deposit", !.pc = "send"]
    <3>1. /\ q \in CallRecords /\ q.op = "deposit" /\ q.pc = "send" /\ q.attempts = calls[k].attempts
          /\ q.commitment = calls[k].commitment
      BY <2>1 DEF CallRecords
    <3>2. /\ calls[k].pc = "idle" /\ calls' = [calls EXCEPT ![k] = q]
          /\ UNCHANGED <<note, sent, returned>>
      BY <2>1, <2>2 DEF StartDeposit
    <3> HIDE DEF q
    <3> QED BY <2>1, <3>1, <3>2, CallMoves DEF NotSentYet
  <2>3. CASE StartFetch(k)
    <3> DEFINE q == [calls[k] EXCEPT !.op = "fetch", !.pc = "fetching"]
    <3>1. /\ q \in CallRecords /\ q.op = "fetch" /\ q.pc = "fetching" /\ q.attempts = calls[k].attempts
          /\ q.commitment = calls[k].commitment
      BY <2>1 DEF CallRecords
    <3>2. /\ calls[k].pc = "idle" /\ calls' = [calls EXCEPT ![k] = q]
          /\ UNCHANGED <<note, sent, returned>>
      BY <2>1, <2>3 DEF StartFetch
    <3> HIDE DEF q
    <3> QED BY <2>1, <3>1, <3>2, CallMoves DEF NotSentYet
  <2>4. ASSUME NEW req \in Requirements, StartPay(k, req) PROVE SdkInv'
    <3>1. PICK c \in Smallest(req.micro) :
            calls' = [calls EXCEPT ![k].op = "pay", ![k].pc = "lookup",
                        ![k].requirement = req, ![k].sorted = note, ![k].commitment = c]
      BY <2>4 DEF StartPay
    <3> DEFINE q == [calls[k] EXCEPT !.op = "pay", !.pc = "lookup",
                       !.requirement = req, !.sorted = note, !.commitment = c]
    <3>2. c \in NamedCommitments /\ c \in Noted
      BY ChosenFromNote
    <3>3. /\ q \in CallRecords /\ q.op = "pay" /\ q.pc = "lookup" /\ q.attempts = calls[k].attempts
          /\ q.commitment = c
      BY <2>1, <3>2 DEF CallRecords
    <3>4. /\ calls[k].pc = "idle" /\ calls' = [calls EXCEPT ![k] = q]
          /\ UNCHANGED <<note, sent, returned>>
      BY <2>1, <2>4, <3>1 DEF StartPay
    <3> HIDE DEF q
    <3> QED BY <2>1, <3>2, <3>3, <3>4, CallMoves DEF NotSentYet
  <2>5. ASSUME calls[k].pc \in {"lookup", "send", "fetching"}, Throw(k) \/ Goto(k, "done"),
               UNCHANGED <<note, sent, returned>>
        PROVE  SdkInv'
    <3>1. PICK pc \in {"thrown", "done"} : calls' = [calls EXCEPT ![k].pc = pc]
      BY <2>5 DEF Throw, Goto
    <3> DEFINE q == [calls[k] EXCEPT !.pc = pc]
    <3>2. /\ q \in CallRecords /\ q.pc = pc /\ q.op = calls[k].op /\ q.attempts = calls[k].attempts
          /\ q.settled = calls[k].settled /\ q.commitment = calls[k].commitment
      BY <2>1 DEF CallRecords
    <3>3. calls' = [calls EXCEPT ![k] = q]
      BY <2>1, <3>1
    <3> HIDE DEF q
    <3> QED BY <2>1, <2>5, <3>2, <3>3, CallMoves DEF NotSentYet
  <2>6. CASE Lookup(k)
    <3>1. calls[k].pc = "lookup" /\ UNCHANGED <<note, sent, returned>>
      BY <2>6 DEF Lookup
    <3>2. CASE Throw(k)
      BY <2>5, <3>1, <3>2
    <3>3. CASE Goto(k, "send")
      <4> DEFINE q == [calls[k] EXCEPT !.pc = "send"]
      <4>1. /\ q \in CallRecords /\ q.pc = "send" /\ q.op = calls[k].op
            /\ q.attempts = calls[k].attempts /\ q.settled = calls[k].settled
            /\ q.requirement = calls[k].requirement /\ q.commitment = calls[k].commitment
        BY <2>1 DEF CallRecords
      <4>2. calls' = [calls EXCEPT ![k] = q]
        BY <2>1, <3>3 DEF Goto
      <4>3. calls[k].op = "fetch" => calls[k].requirement \notin calls[k].settled
        BY <3>1 DEF SdkInv, SettledOrLast
      <4> HIDE DEF q
      <4> QED BY <2>1, <3>1, <4>1, <4>2, <4>3, CallMoves DEF NotSentYet
    <3> QED BY <2>6, <3>2, <3>3 DEF Lookup
  <2>7. CASE Send(k)
    <3>1. calls[k].pc = "send" /\ UNCHANGED <<note, returned>>
      BY <2>7 DEF Send
    <3>2. CASE Throw(k) /\ UNCHANGED sent
      BY <2>5, <3>1, <3>2
    <3>3. CASE sent' = sent \cup {Tx(k)} /\ (Goto(k, "confirm") \/ Throw(k))
      BY <3>1, <3>3, Sends DEF Goto, Throw
    <3> QED BY <2>7, <3>2, <3>3 DEF Send
  <2>8. CASE FetchThrows(k) \/ FetchReturns(k)
    BY <2>8, <2>5 DEF FetchThrows, FetchReturns
  <2>9. ASSUME NEW req \in Requirements, PaymentRequired(k, req) PROVE SdkInv'
    <3>1. calls[k].pc = "fetching" /\ UNCHANGED <<note, sent, returned>>
      BY <2>9 DEF PaymentRequired
    <3>2. CASE Throw(k)
      BY <2>5, <3>1, <3>2
    <3>3. CASE Payable(k, req) /\ Choose(k, req, calls[k].attempts + 1, calls[k].settled)
      <4>1. PICK c \in Smallest(req.micro) :
              calls' = [calls EXCEPT ![k].pc = "lookup", ![k].requirement = req,
                          ![k].sorted = note, ![k].commitment = c,
                          ![k].attempts = calls[k].attempts + 1, ![k].settled = calls[k].settled]
        BY <3>3 DEF Choose
      <4> DEFINE q == [calls[k] EXCEPT !.pc = "lookup", !.requirement = req,
                         !.sorted = note, !.commitment = c,
                         !.attempts = calls[k].attempts + 1, !.settled = calls[k].settled]
      <4>2. c \in NamedCommitments /\ c \in Noted /\ calls[k].attempts + 1 \in Nat
        BY <2>1, ChosenFromNote DEF CallRecords
      <4>3. /\ q \in CallRecords /\ q.op = calls[k].op /\ q.pc = "lookup"
            /\ q.attempts = calls[k].attempts + 1 /\ q.settled = calls[k].settled
            /\ q.requirement = req /\ q.commitment = c
        BY <2>1, <4>2 DEF CallRecords
      <4>4. calls' = [calls EXCEPT ![k] = q]
        BY <2>1, <4>1
      <4>5. req \notin calls[k].settled
        BY <3>3 DEF Payable
      <4> HIDE DEF q
      <4>6. q.op = "fetch"
        BY <2>1, <3>1, <4>3
      <4> QED BY <2>1, <3>1, <4>2, <4>3, <4>4, <4>5, <4>6, CallMoves
    <3> QED BY <2>9, <3>2, <3>3 DEF PaymentRequired
  <2> QED
    BY <1>3, <2>2, <2>3, <2>4, <2>6, <2>7, <2>8, <2>9, FinishInv
<1> QED BY <1>1, <1>2, <1>3 DEF Next

-----------------------------------------------------------------------------
\* Steps of the pages leave the SDK's instance alone.
LEMMA InstanceInv == SdkInv /\ [WalletOrSdkNext]_walletAndSdkVars => SdkInv'
<1>1. WalletOrSdkNext => [Next]_vars
  BY DEF WalletOrSdkNext
<1>2. UNCHANGED walletAndSdkVars => UNCHANGED vars
  BY DEF walletAndSdkVars
<1> QED BY <1>1, <1>2, SdkNextInv

LEMMA InstanceInit == WalletOrSdkInit => SdkInv
BY SdkInitInv DEF WalletOrSdkInit

\* However calls overlap, fail and retry, the note is what the calls that
\* returned put together, for any number of calls and commitments
\* (payMicroExact and deposit rebuild it from this.note after their awaits).
THEOREM NoteIsSum == WalletOrSdkSpec => []NoteIsSumOfCalls
<1>1. SdkInv => NoteIsSumOfCalls
  BY DEF SdkInv
<1> QED BY <1>1, InstanceInit, InstanceInv, PTL DEF WalletOrSdkSpec

\* Within one fetch a requirement is paid at most once, for any number of
\* retries and whatever the merchants answer (wrapFetch's `settled`).
THEOREM PaidAtMostOnce == WalletOrSdkSpec => []SettledOncePerCall
<1>1. SdkInv => SettledOncePerCall
  BY DEF SdkInv
<1> QED BY <1>1, InstanceInit, InstanceInv, PTL DEF WalletOrSdkSpec

-----------------------------------------------------------------------------
(***************************************************************************)
(* The theorem about the pages that hold the user's money, for any number   *)
(* of tabs and payments.                                                    *)
(*                                                                          *)
(* A payment's change is known to no one but the tab that made it until     *)
(* that tab saves it, so two tabs only ever meet in what is stored; and a   *)
(* copy marked `fresh` still is what is stored.  PagesInv says so of each   *)
(* tab.                                                                     *)
(***************************************************************************)

FormPages == {"direct", "x402"}
TabRecords ==
  [page : {"none", "note", "direct", "x402", "deposit"},
   pc : {"idle", "paying", "landed", "paid"},
   mode : {"idle", "creating", "restoring", "loaded", "clearing"},
   hasBlob : BOOLEAN, note : SUBSET Nat, updated : SUBSET Nat,
   spends : Nat, change : Nat, fresh : BOOLEAN, updatedFresh : BOOLEAN]

\* Every commitment a tab can name.
Holds(tab) == tab.note \cup tab.updated \cup {tab.change}
InFlight(tab) == tab.pc \in {"landed", "paid"}

PageShape(tab) ==
  /\ tab.page \notin FormPages => tab.pc = "idle" /\ tab.updated = NoNote
  /\ tab.page = "note" /\ tab.mode = "creating" => ~tab.hasBlob
  /\ tab.page = "note" /\ tab.mode = "loaded" => tab.hasBlob

\* What `fresh` says: the copy is still what is stored.
FreshIsStored(tab, content) ==
  tab.fresh =>
    /\ tab.pc \in {"paying", "landed"} => tab.note = content
    /\ tab.page = "note" /\ tab.note # NoNote => tab.note = content
    /\ tab.page = "note" /\ ~tab.hasBlob => content = NoNote

\* getUpdatedNote() differs from what is stored by the payment not yet saved, or
\* by one whose error kept it from being saved.
UpdatedAccounted(tab, content, known) ==
  /\ tab.updated # NoNote /\ tab.updatedFresh =>
       Difference(content, tab.updated) \subseteq
         known \cup (IF tab.pc = "paid" THEN {tab.spends, tab.change} ELSE {})
  /\ tab.pc = "paid" => tab.change \in tab.updated /\ tab.spends \notin tab.updated \ {tab.change}

\* A payment that landed took what it spent and left its change.
Landed(tab, pool, known) ==
  InFlight(tab) => /\ tab.change # 0 /\ tab.change \in pool \cup known
                   /\ tab.spends \in pool => tab.spends \in known

TabOK(tab, content, pool, known, n) ==
  /\ tab \in TabRecords
  /\ Holds(tab) \cup {tab.spends} \subseteq 0 .. n
  /\ PageShape(tab) /\ FreshIsStored(tab, content)
  /\ UpdatedAccounted(tab, content, known) /\ Landed(tab, pool, known)

\* The change of a payment under way is nowhere but in its tab.
ChangeOnlyHere(t) ==
  InFlight(tabs[t]) =>
    /\ tabs[t].change \notin stored \cup file
    /\ \A u \in Tabs \ {t} : tabs[t].change \notin Holds(tabs[u])

MoneyAccounted ==
  \A c \in Difference(stored, unspent) :
    c \in excused \/ \E t \in Tabs : c \in Abandoned(tabs[t])

PagesInv ==
  /\ tabs \in [Tabs -> TabRecords] /\ made \in Nat
  /\ stored \cup file \subseteq 0 .. made /\ unspent \subseteq 1 .. made
  /\ \A t \in Tabs : TabOK(tabs[t], stored, unspent, excused, made)
  /\ \A t \in Tabs : ChangeOnlyHere(t)
  /\ MoneyAccounted

-----------------------------------------------------------------------------
\* A tab moves on and nothing is stored: it names nothing the other tabs have
\* under way, and what is spent or made is part of its payment or excused.
LEMMA TabMoves ==
  ASSUME PagesInv, NEW t \in Tabs, NEW q, Set(t, q), UNCHANGED <<stored, file>>,
         made' \in {made, made + 1}, excused \subseteq excused', unspent' \subseteq 1 .. made',
         Abandoned(tabs[t]) \subseteq Abandoned(q) \cup excused',
         unspent \ unspent' \subseteq tabs[t].note,
         unspent' \ unspent \subseteq {made + 1},
         (unspent \ unspent') \cup (unspent' \ unspent) \subseteq Abandoned(q) \cup excused',
         Holds(q) \subseteq {0, made + 1} \cup stored \cup Holds(tabs[t]),
         TabOK(q, stored, unspent', excused', made'),
         InFlight(q) => /\ q.change \notin stored \cup file
                        /\ \A u \in Tabs \ {t} : q.change \notin Holds(tabs[u])
  PROVE  PagesInv'
<1>1. /\ tabs' \in [Tabs -> TabRecords] /\ tabs'[t] = q /\ made \in Nat
      /\ \A u \in Tabs \ {t} : tabs'[u] = tabs[u]
  BY DEF PagesInv, Set, TabOK
<1>2. made' \in Nat /\ (stored \cup file)' \subseteq 0 .. made'
  BY <1>1 DEF PagesInv
<1>3. ASSUME NEW u \in Tabs \ {t}
      PROVE  /\ TabOK(tabs[u], stored, unspent', excused', made')
             /\ InFlight(tabs[u]) => tabs[u].change \notin Holds(q)
  <2>1. /\ TabOK(tabs[u], stored, unspent, excused, made)
        /\ InFlight(tabs[u]) => /\ tabs[u].change \notin stored
                                /\ tabs[u].change \notin Holds(tabs[t])
    BY DEF PagesInv, ChangeOnlyHere
  <2>2. Holds(tabs[u]) \cup {tabs[u].spends} \subseteq 0 .. made
    BY <2>1 DEF TabOK
  <2>3. Holds(tabs[u]) \cup {tabs[u].spends} \subseteq 0 .. made'
    BY <1>1, <2>2
  <2>4. made + 1 \notin Holds(tabs[u]) \cup {tabs[u].spends} /\ tabs[u].change \in Holds(tabs[u])
    BY <1>1, <2>2 DEF Holds
  <2>5. Landed(tabs[u], unspent', excused')
    <3>1. tabs[t].note \subseteq Holds(tabs[t])
      BY DEF Holds
    <3> QED BY <2>1, <2>4, <3>1 DEF TabOK, Landed
  <2>6. UpdatedAccounted(tabs[u], stored, excused')
    BY <2>1 DEF TabOK, UpdatedAccounted
  <2>7. TabOK(tabs[u], stored, unspent', excused', made')
    BY <2>1, <2>3, <2>5, <2>6 DEF TabOK
  <2>8. ASSUME InFlight(tabs[u]) PROVE tabs[u].change \notin Holds(q)
    <3>1. tabs[u].change # 0
      BY <2>1, <2>8 DEF TabOK, Landed
    <3> QED BY <2>1, <2>4, <2>8, <3>1
  <2> QED BY <2>7, <2>8
<1>4. \A u \in Tabs : TabOK(tabs'[u], stored', unspent', excused', made')
  BY <1>1, <1>3
<1>5. ASSUME NEW u \in Tabs PROVE ChangeOnlyHere(u)'
  <2>1. CASE u = t
    BY <1>1, <2>1 DEF ChangeOnlyHere
  <2>2. CASE u # t
    BY <1>1, <1>3, <2>2 DEF ChangeOnlyHere, PagesInv
  <2> QED BY <2>1, <2>2
<1>6. ASSUME NEW c \in Difference(stored, unspent')
      PROVE  c \in excused' \/ \E u \in Tabs : c \in Abandoned(tabs'[u])
  <2>1. CASE c \in (unspent \ unspent') \cup (unspent' \ unspent)
    BY <1>1, <2>1
  <2>2. CASE c \notin (unspent \ unspent') \cup (unspent' \ unspent)
    <3>1. c \in Difference(stored, unspent)
      BY <1>6, <2>2 DEF Difference, In
    <3>2. c \in excused \/ \E u \in Tabs : c \in Abandoned(tabs[u])
      BY <3>1 DEF PagesInv, MoneyAccounted
    <3> QED BY <1>1, <3>2
  <2> QED BY <2>1, <2>2
<1>7. MoneyAccounted'
  BY <1>6 DEF MoneyAccounted
<1> QED BY <1>1, <1>2, <1>4, <1>5, <1>7 DEF PagesInv

\* A tab that has nothing under way any more stores `content`, and every
\* other copy is out of date.
LEMMA TabStores ==
  ASSUME PagesInv, NEW t \in Tabs, NEW content, NEW q, NEW isFresh \in BOOLEAN,
         Store(t, content, q, isFresh), UNCHANGED <<unspent, made>>,
         q \in TabRecords, q.pc = "idle",
         content \cup file' \subseteq {0} \cup stored \cup file \cup Holds(tabs[t]),
         Holds(q) \subseteq {0} \cup stored \cup file \cup Holds(tabs[t]),
         TabOK([q EXCEPT !.fresh = TRUE], content, unspent, excused', made),
         \A c \in Difference(content, unspent) :
           c \in excused' \/ \E u \in Tabs \ {t} : c \in Abandoned(tabs[u])
  PROVE  PagesInv'
<1> DEFINE q0 == [q EXCEPT !.fresh = TRUE]
           Old(u) == [tabs[u] EXCEPT !.fresh = FALSE, !.updatedFresh = FALSE]
<1>1. /\ stored' = content /\ tabs' = [u \in Tabs |-> IF u = t THEN q0 ELSE Old(u)]
      /\ excused \subseteq excused'
  BY DEF Store
<1>2. /\ q0 \in TabRecords /\ q0.pc = "idle" /\ Holds(q0) = Holds(q)
  BY DEF TabRecords, Holds
<1>3. ASSUME NEW u \in Tabs \ {t}
      PROVE  /\ Old(u) \in TabRecords /\ Holds(Old(u)) = Holds(tabs[u])
             /\ InFlight(Old(u)) = InFlight(tabs[u]) /\ Old(u).change = tabs[u].change
             /\ Abandoned(Old(u)) = Abandoned(tabs[u])
             /\ TabOK(Old(u), content, unspent, excused', made)
  <2>1. tabs[u] \in TabRecords /\ TabOK(tabs[u], stored, unspent, excused, made)
    BY DEF PagesInv
  <2> DEFINE o == Old(u)
  <2>2. /\ o \in TabRecords /\ ~o.fresh /\ ~o.updatedFresh
        /\ o.page = tabs[u].page /\ o.pc = tabs[u].pc /\ o.mode = tabs[u].mode
        /\ o.hasBlob = tabs[u].hasBlob /\ o.note = tabs[u].note /\ o.updated = tabs[u].updated
        /\ o.spends = tabs[u].spends /\ o.change = tabs[u].change
    BY <2>1 DEF TabRecords
  <2> HIDE DEF o
  <2>3. Holds(o) = Holds(tabs[u]) /\ InFlight(o) = InFlight(tabs[u]) /\ Abandoned(o) = Abandoned(tabs[u])
    BY <2>2 DEF Holds, InFlight, Abandoned
  <2>4. PageShape(o) /\ FreshIsStored(o, content) /\ UpdatedAccounted(o, content, excused')
    BY <2>1, <2>2 DEF TabOK, PageShape, FreshIsStored, UpdatedAccounted
  <2>5. Landed(o, unspent, excused')
    BY <1>1, <2>1, <2>2, <2>3 DEF TabOK, Landed
  <2>6. TabOK(o, content, unspent, excused', made)
    BY <2>1, <2>2, <2>3, <2>4, <2>5 DEF TabOK
  <2> QED BY <2>2, <2>3, <2>6 DEF o
<1> HIDE DEF q0, Old
<1>4. /\ tabs' \in [Tabs -> TabRecords] /\ tabs'[t] = q0
      /\ \A u \in Tabs \ {t} : tabs'[u] = Old(u)
  BY <1>1, <1>2, <1>3
<1>5. made' \in Nat /\ (stored \cup file)' \subseteq 0 .. made' /\ unspent' \subseteq 1 .. made'
  <2>1. /\ made \in Nat /\ stored \cup file \subseteq 0 .. made
        /\ TabOK(tabs[t], stored, unspent, excused, made)
    BY DEF PagesInv
  <2>2. Holds(tabs[t]) \subseteq 0 .. made /\ 0 \in 0 .. made
    BY <2>1 DEF TabOK
  <2> QED BY <1>1, <2>1, <2>2 DEF PagesInv
<1>6. \A u \in Tabs : TabOK(tabs'[u], stored', unspent', excused', made')
  BY <1>1, <1>3, <1>4 DEF q0
<1>7. ASSUME NEW u \in Tabs PROVE ChangeOnlyHere(u)'
  <2>1. CASE u = t
    BY <1>2, <1>4, <2>1 DEF ChangeOnlyHere, InFlight
  <2>2. CASE u # t
    <3>1. /\ tabs'[u] = Old(u) /\ InFlight(Old(u)) = InFlight(tabs[u])
          /\ Old(u).change = tabs[u].change
      BY <1>3, <1>4, <2>2
    <3>2. SUFFICES ASSUME InFlight(tabs[u])
                   PROVE  /\ tabs[u].change \notin stored' \cup file'
                          /\ \A v \in Tabs \ {u} : tabs[u].change \notin Holds(tabs'[v])
      BY <3>1 DEF ChangeOnlyHere
    <3>3. /\ tabs[u].change # 0 /\ tabs[u].change \notin stored \cup file
          /\ \A v \in Tabs \ {u} : tabs[u].change \notin Holds(tabs[v])
      BY <3>2 DEF PagesInv, ChangeOnlyHere, TabOK, Landed
    <3>4. tabs[u].change \notin stored' \cup file' /\ tabs[u].change \notin Holds(q)
      BY <1>1, <2>2, <3>3
    <3>5. \A v \in Tabs \ {u} : Holds(tabs'[v]) = IF v = t THEN Holds(q) ELSE Holds(tabs[v])
      BY <1>2, <1>3, <1>4
    <3> QED BY <3>3, <3>4, <3>5
  <2> QED BY <2>1, <2>2
<1>8. MoneyAccounted'
  <2>1. \A u \in Tabs \ {t} : Abandoned(tabs'[u]) = Abandoned(tabs[u])
    BY <1>3, <1>4
  <2> QED BY <1>1, <2>1 DEF MoneyAccounted
<1> QED BY <1>4, <1>5, <1>6, <1>7, <1>8 DEF PagesInv

\* A tab that has nothing under way shows another form or begins a payment.
LEMMA QuietMove ==
  ASSUME PagesInv, NEW t \in Tabs, NEW q, Set(t, q),
         UNCHANGED <<stored, file, unspent, made, excused>>,
         ~InFlight(tabs[t]), ~InFlight(q), q \in TabRecords, q.spends <= made,
         Holds(q) \subseteq {0} \cup stored \cup Holds(tabs[t]),
         PageShape(q), FreshIsStored(q, stored), UpdatedAccounted(q, stored, excused)
  PROVE  PagesInv'
<1>1. /\ made \in Nat /\ stored \subseteq 0 .. made /\ unspent \subseteq 1 .. made
      /\ Holds(tabs[t]) \subseteq 0 .. made
  BY DEF PagesInv, TabOK
<1>2. Holds(q) \cup {q.spends} \subseteq 0 .. made
  <2>1. q.spends \in Nat
    BY DEF TabRecords
  <2> QED BY <1>1, <2>1
<1>3. TabOK(q, stored, unspent, excused, made)
  BY <1>2 DEF TabOK, Landed
<1>4. Abandoned(tabs[t]) = {}
  BY DEF InFlight, Abandoned
<1> QED BY <1>1, <1>3, <1>4, TabMoves

LEMMA NoNoteTyped == NoNote \in SUBSET Nat
BY DEF NoNote

\* What the invariant says of one tab.
LEMMA TabFacts ==
  ASSUME PagesInv, NEW t \in Tabs
  PROVE  /\ tabs[t] \in TabRecords /\ made \in Nat
         /\ TabOK(tabs[t], stored, unspent, excused, made)
         /\ tabs[t].note \cup tabs[t].updated \subseteq Holds(tabs[t])
         /\ tabs[t].change \in Holds(tabs[t])
         /\ stored \cup file \subseteq 0 .. made /\ unspent \subseteq 1 .. made
         /\ Holds(tabs[t]) \subseteq 0 .. made
         /\ tabs[t].spends \in 0 .. made
         /\ \A u \in Tabs : Holds(tabs[u]) \subseteq 0 .. made
BY DEF PagesInv, TabOK, Holds

\* Opening a page leaves the payment of the one before to chance.
LEMMA OpenPageInv ==
  ASSUME PagesInv, NEW t \in Tabs, NEW page \in {"note", "direct", "x402", "deposit"},
         OpenPage(t, page)
  PROVE  PagesInv'
<1> DEFINE q == [Closed EXCEPT !.page = page, !.hasBlob = stored # NoNote, !.fresh = TRUE]
<1>1. Set(t, q) /\ excused' = excused \cup Abandoned(tabs[t]) /\ UNCHANGED <<stored, file, unspent, made>>
  BY DEF OpenPage
<1>2. /\ q \in TabRecords /\ q.page = page /\ q.pc = "idle" /\ q.mode = "idle"
      /\ (~q.hasBlob => stored = NoNote) /\ q.note = NoNote /\ q.updated = NoNote
      /\ q.spends = 0 /\ q.change = 0
  <2> DEFINE has == stored # NoNote
  <2>1. has \in BOOLEAN /\ (~has => stored = NoNote)
    OBVIOUS
  <2>2. q = [Closed EXCEPT !.page = page, !.hasBlob = has, !.fresh = TRUE]
    OBVIOUS
  <2> HIDE DEF q, has
  <2>3. /\ Closed \in TabRecords /\ Closed.pc = "idle" /\ Closed.mode = "idle"
        /\ Closed.note = NoNote /\ Closed.updated = NoNote
        /\ Closed.spends = 0 /\ Closed.change = 0
    BY DEF Closed, TabRecords, NoNote
  <2>4. /\ q \in TabRecords /\ q.page = page /\ q.pc = Closed.pc /\ q.mode = Closed.mode
        /\ q.hasBlob = has /\ q.note = Closed.note /\ q.updated = Closed.updated
        /\ q.spends = Closed.spends /\ q.change = Closed.change
    BY <2>1, <2>2, <2>3 DEF TabRecords
  <2> QED BY <2>1, <2>3, <2>4
<1> HIDE DEF q
<1>3. Holds(q) = {0} /\ ~InFlight(q)
  BY <1>2 DEF Holds, InFlight, NoNote
<1>4. PageShape(q) /\ FreshIsStored(q, stored) /\ UpdatedAccounted(q, stored, excused')
  BY <1>2 DEF PageShape, FreshIsStored, UpdatedAccounted
<1>5. TabOK(q, stored, unspent', excused', made')
  BY <1>1, <1>2, <1>3, <1>4, TabFacts DEF TabOK, Landed
<1> QED BY <1>1, <1>3, <1>5, TabFacts, TabMoves

\* The note page's forms that store nothing.
LEMMA NotePageInv ==
  ASSUME PagesInv, NEW t \in Tabs,
         \/ ActionButtons(t) \/ Unlock(t)
         \/ Cancel(t) /\ tabs[t].page = "note"
  PROVE  PagesInv'
<1> DEFINE tab == tabs[t]
<1>1. /\ tab \in TabRecords /\ PageShape(tab) /\ FreshIsStored(tab, stored)
      /\ UpdatedAccounted(tab, stored, excused) /\ tab.spends <= made
  BY TabFacts DEF TabOK
<1>2. tab.page = "note" /\ tab.pc = "idle" /\ tab.updated = NoNote /\ ~InFlight(tab)
  BY <1>1 DEF PageShape, ActionButtons, Unlock, Shows, Cancel, FormPages, InFlight
<1>3. stored \subseteq Nat
  BY TabFacts
<1>4. CASE ActionButtons(t)
  <2>1. PICK mode \in {"creating", "restoring", "loaded", "clearing"} :
          /\ mode = "creating" => ~tab.hasBlob
          /\ mode = "loaded" => tab.hasBlob
          /\ Set(t, [tab EXCEPT !.mode = mode,
                       !.note = IF mode \in {"creating", "loaded"} THEN NoNote ELSE @])
    BY <1>4 DEF ActionButtons
  <2> DEFINE q == [tab EXCEPT !.mode = mode,
                     !.note = IF mode \in {"creating", "loaded"} THEN NoNote ELSE @]
  <2>2. /\ q \in TabRecords /\ q.page = tab.page /\ q.pc = tab.pc /\ q.mode = mode
        /\ q.hasBlob = tab.hasBlob /\ q.note \in {NoNote, tab.note} /\ q.updated = tab.updated
        /\ q.spends = tab.spends /\ q.change = tab.change /\ q.fresh = tab.fresh
    <3> DEFINE copy == IF mode \in {"creating", "loaded"} THEN NoNote ELSE tab.note
    <3>1. copy \in SUBSET Nat /\ copy \in {NoNote, tab.note}
      BY <1>1 DEF TabRecords, NoNote
    <3>2. q = [tab EXCEPT !.mode = mode, !.note = copy]
      OBVIOUS
    <3> HIDE DEF q, tab, copy
    <3> QED BY <1>1, <3>1, <3>2 DEF TabRecords
  <2>3. Set(t, q) /\ UNCHANGED <<stored, file, unspent, made, excused>>
    BY <1>4, <2>1 DEF ActionButtons
  <2> HIDE DEF q, tab
  <2>4. /\ PageShape(q) /\ FreshIsStored(q, stored) /\ UpdatedAccounted(q, stored, excused)
    BY <1>1, <1>2, <2>1, <2>2 DEF PageShape, FreshIsStored, UpdatedAccounted
  <2>5. Holds(q) \subseteq {0} \cup Holds(tab) /\ ~InFlight(q)
    BY <1>2, <2>2 DEF Holds, InFlight, NoNote
  <2> QED BY <1>1, <1>2, <2>2, <2>3, <2>4, <2>5, QuietMove DEF tab
<1>5. CASE Unlock(t)
  <2> DEFINE q == [tab EXCEPT !.note = stored, !.fresh = TRUE]
  <2>1. Set(t, q) /\ tab.hasBlob /\ UNCHANGED <<stored, file, unspent, made, excused>> /\ tab.mode = "loaded"
    BY <1>5 DEF Unlock, Shows
  <2>2. /\ q \in TabRecords /\ q.page = tab.page /\ q.pc = tab.pc /\ q.mode = tab.mode
        /\ q.hasBlob = tab.hasBlob /\ q.note = stored /\ q.updated = tab.updated
        /\ q.spends = tab.spends /\ q.change = tab.change
    BY <1>1, <1>3 DEF TabRecords
  <2> HIDE DEF q, tab
  <2>3. /\ PageShape(q) /\ FreshIsStored(q, stored) /\ UpdatedAccounted(q, stored, excused)
    BY <1>1, <1>2, <2>1, <2>2 DEF PageShape, FreshIsStored, UpdatedAccounted
  <2>4. Holds(q) \subseteq stored \cup Holds(tab) /\ ~InFlight(q)
    BY <1>2, <2>2 DEF Holds, InFlight
  <2> QED BY <1>1, <1>2, <2>1, <2>2, <2>3, <2>4, QuietMove DEF tab
<1>6. CASE Cancel(t)
  <2> DEFINE q == [tab EXCEPT !.mode = "idle"]
  <2>1. Set(t, q) /\ UNCHANGED <<stored, file, unspent, made, excused>>
    BY <1>6 DEF Cancel
  <2>2. /\ q \in TabRecords /\ q.page = tab.page /\ q.pc = tab.pc /\ q.mode = "idle"
        /\ q.hasBlob = tab.hasBlob /\ q.note = tab.note /\ q.updated = tab.updated
        /\ q.spends = tab.spends /\ q.change = tab.change /\ q.fresh = tab.fresh
    BY <1>1 DEF TabRecords
  <2> HIDE DEF q, tab
  <2>3. /\ PageShape(q) /\ FreshIsStored(q, stored) /\ UpdatedAccounted(q, stored, excused)
    BY <1>1, <1>2, <2>2 DEF PageShape, FreshIsStored, UpdatedAccounted
  <2>4. Holds(q) \subseteq Holds(tab) /\ ~InFlight(q)
    BY <1>2, <2>2 DEF Holds, InFlight
  <2> QED BY <1>1, <1>2, <2>1, <2>2, <2>3, <2>4, QuietMove DEF tab
<1> QED BY <1>4, <1>5, <1>6

-----------------------------------------------------------------------------
\* A payment begins with what is stored; a fetch may end unpaid.
LEMMA FormInv ==
  ASSUME PagesInv, NEW t \in Tabs, tabs[t].page \in FormPages,
         StartPaying(t) \/ FetchUnpaid(t)
  PROVE  PagesInv'
<1> DEFINE tab == tabs[t]
<1>1. /\ tab \in TabRecords /\ UpdatedAccounted(tab, stored, excused) /\ tab.spends <= made
      /\ stored \subseteq Nat /\ stored \subseteq 0 .. made /\ made \in Nat
  BY TabFacts DEF TabOK
<1>2. CASE StartPaying(t)
  <2> DEFINE q == [tab EXCEPT !.pc = "paying", !.note = stored, !.fresh = TRUE]
  <2>1. tab.pc = "idle" /\ Set(t, q) /\ UNCHANGED <<stored, file, unspent, made, excused>>
    BY <1>2 DEF StartPaying
  <2>2. /\ q \in TabRecords /\ q.page = tab.page /\ q.pc = "paying" /\ q.note = stored
        /\ q.updated = tab.updated /\ q.spends = tab.spends /\ q.change = tab.change
        /\ q.updatedFresh = tab.updatedFresh
    BY <1>1 DEF TabRecords
  <2> HIDE DEF q, tab
  <2>3. tab.page \in FormPages /\ tab.page # "note"
    BY DEF tab, FormPages
  <2>4. PageShape(q) /\ FreshIsStored(q, stored) /\ UpdatedAccounted(q, stored, excused)
    BY <1>1, <2>1, <2>2, <2>3 DEF PageShape, FreshIsStored, UpdatedAccounted
  <2>5. Holds(q) \subseteq stored \cup Holds(tab) /\ ~InFlight(q) /\ ~InFlight(tab)
    BY <2>1, <2>2 DEF Holds, InFlight
  <2> QED BY <1>1, <2>1, <2>2, <2>4, <2>5, QuietMove DEF tab
<1>3. CASE FetchUnpaid(t)
  <2> DEFINE q == Done(tab)
  <2>1. tab.pc = "paying" /\ tab.updated = NoNote
        /\ Set(t, q) /\ UNCHANGED <<stored, file, unspent, made, excused>>
    BY <1>3 DEF FetchUnpaid
  <2>2. /\ q \in TabRecords /\ q.page = tab.page /\ q.pc = "idle" /\ q.note = NoNote
        /\ q.updated = tab.updated /\ q.spends = 0 /\ q.change = 0
    BY <1>1, NoNoteTyped DEF TabRecords, Done
  <2> HIDE DEF q, tab
  <2>3. tab.page \in FormPages /\ tab.page # "note"
    BY DEF tab, FormPages
  <2>4. PageShape(q) /\ FreshIsStored(q, stored) /\ UpdatedAccounted(q, stored, excused)
    BY <2>1, <2>2, <2>3 DEF PageShape, FreshIsStored, UpdatedAccounted
  <2>5. Holds(q) \subseteq {0} \cup Holds(tab) /\ ~InFlight(q) /\ ~InFlight(tab)
    BY <2>1, <2>2 DEF Holds, InFlight, NoNote
  <2> QED BY <1>1, <2>1, <2>2, <2>4, <2>5, QuietMove DEF tab
<1> QED BY <1>2, <1>3

\* The transaction lands: its change is a new name, known to this tab.
LEMMA PaymentLandsInv ==
  ASSUME PagesInv, NEW t \in Tabs, PaymentLands(t)
  PROVE  PagesInv'
<1> DEFINE tab == tabs[t]
<1>1. PICK c \in tab.note \cap unspent :
        /\ Set(t, [tab EXCEPT !.pc = "landed", !.spends = c, !.change = made + 1])
        /\ unspent' = (unspent \ {c}) \cup {made + 1}
  BY DEF PaymentLands
<1> DEFINE q == [tab EXCEPT !.pc = "landed", !.spends = c, !.change = made + 1]
<1>2. tab.pc = "paying" /\ made' = made + 1 /\ UNCHANGED <<stored, file, excused>>
  BY DEF PaymentLands
<1>3. /\ tab \in TabRecords /\ TabOK(tab, stored, unspent, excused, made) /\ made \in Nat
      /\ tab.note \cup tab.updated \subseteq Holds(tab) /\ c \in 1 .. made
      /\ unspent \subseteq 1 .. made /\ Holds(tab) \subseteq 0 .. made
  BY TabFacts
<1>4. /\ q \in TabRecords /\ q.page = tab.page /\ q.pc = "landed" /\ q.note = tab.note
      /\ q.updated = tab.updated /\ q.spends = c /\ q.change = made + 1
      /\ q.fresh = tab.fresh /\ q.updatedFresh = tab.updatedFresh
  <2>1. c \in Nat /\ made + 1 \in Nat
    BY <1>3
  <2> QED BY <1>3, <2>1 DEF TabRecords
<1> HIDE DEF q, tab
<1>5. tab.page \in FormPages /\ tab.page # "note"
  BY <1>2, <1>3 DEF TabOK, PageShape, FormPages
<1>6. PageShape(q) /\ FreshIsStored(q, stored) /\ UpdatedAccounted(q, stored, excused')
  BY <1>2, <1>3, <1>4, <1>5 DEF TabOK, PageShape, FreshIsStored, UpdatedAccounted
<1>7. Abandoned(q) = {c, made + 1} /\ Abandoned(tab) = {} /\ c # made + 1 /\ c # 0 /\ made + 1 # 0
  BY <1>2, <1>3, <1>4 DEF Abandoned
<1>8. Landed(q, unspent', excused')
  BY <1>1, <1>4, <1>7 DEF Landed
<1>9. /\ Holds(q) \subseteq {made + 1} \cup Holds(tab)
      /\ Holds(q) \cup {q.spends} \subseteq 0 .. made'
  <2>1. Holds(q) \subseteq {made + 1} \cup Holds(tab)
    BY <1>4 DEF Holds
  <2> QED BY <1>2, <1>3, <1>4, <2>1
<1>10. TabOK(q, stored, unspent', excused', made')
  BY <1>4, <1>6, <1>8, <1>9 DEF TabOK
<1>11. /\ q.change \notin stored \cup file
       /\ \A u \in Tabs \ {t} : q.change \notin Holds(tabs[u])
  BY <1>3, <1>4, TabFacts
<1>12. /\ unspent' \subseteq 1 .. made'
       /\ unspent \ unspent' \subseteq {c} /\ unspent' \ unspent \subseteq {made + 1}
  BY <1>1, <1>2, <1>3
<1>13. Set(t, q)
  BY <1>1 DEF q, tab
<1> QED BY <1>1, <1>2, <1>7, <1>9, <1>10, <1>11, <1>12, <1>13, TabMoves DEF tab

\* An error loses sight of a payment that landed.
LEMMA PaymentThrowsInv ==
  ASSUME PagesInv, NEW t \in Tabs, PaymentThrows(t)
  PROVE  PagesInv'
<1> DEFINE tab == tabs[t]
           q == [tab EXCEPT !.pc = "idle", !.note = NoNote, !.spends = 0, !.change = 0]
<1>1. /\ tab.pc \in {"paying", "landed", "paid"} /\ Set(t, q)
      /\ excused' = excused \cup Abandoned(tab) /\ UNCHANGED <<stored, file, unspent, made>>
  BY DEF PaymentThrows
<1>2. /\ tab \in TabRecords /\ TabOK(tab, stored, unspent, excused, made) /\ made \in Nat
      /\ unspent \subseteq 1 .. made /\ Holds(tab) \subseteq 0 .. made
  BY TabFacts
<1>3. /\ q \in TabRecords /\ q.page = tab.page /\ q.pc = "idle" /\ q.note = NoNote
      /\ q.updated = tab.updated /\ q.spends = 0 /\ q.change = 0
      /\ q.updatedFresh = tab.updatedFresh
  BY <1>2, NoNoteTyped DEF TabRecords
<1> HIDE DEF q, tab
<1>4. tab.page \in FormPages /\ tab.page # "note"
  BY <1>1, <1>2 DEF TabOK, PageShape, FormPages
<1>5. PageShape(q) /\ FreshIsStored(q, stored)
  BY <1>3, <1>4 DEF PageShape, FreshIsStored
<1>6. UpdatedAccounted(q, stored, excused')
  <2>1. 0 \notin Difference(stored, tab.updated)
    BY DEF Difference, In, NoNote
  <2>2. tab.pc = "paid" => Abandoned(tab) = {tab.spends, tab.change} \ {0}
    BY DEF Abandoned
  <2> QED BY <1>1, <1>2, <1>3, <2>1, <2>2 DEF TabOK, UpdatedAccounted
<1>7. Holds(q) \subseteq {0} \cup Holds(tab) /\ ~InFlight(q)
  BY <1>3 DEF Holds, InFlight, NoNote
<1>8. TabOK(q, stored, unspent', excused', made')
  <2>1. Holds(q) \cup {q.spends} \subseteq 0 .. made
    BY <1>2, <1>3, <1>7
  <2> QED BY <1>1, <1>3, <1>5, <1>6, <1>7, <2>1 DEF TabOK, Landed
<1> QED BY <1>1, <1>2, <1>7, <1>8, TabMoves DEF tab

\* payMicroExact returns: its change takes the place of what it spent.
LEMMA PaymentReturnsInv ==
  ASSUME PagesInv, NEW t \in Tabs, PaymentReturns(t)
  PROVE  PagesInv'
<1> DEFINE tab == tabs[t]
           left == (tab.note \ {tab.spends}) \cup {tab.change}
           q == [tab EXCEPT !.pc = "paid", !.note = left,
                            !.updated = left, !.updatedFresh = tab.fresh]
<1>1. tab.pc = "landed" /\ Set(t, q) /\ UNCHANGED <<stored, file, unspent, made, excused>>
  BY DEF PaymentReturns
<1>2. /\ tab \in TabRecords /\ TabOK(tab, stored, unspent, excused, made) /\ made \in Nat
      /\ unspent \subseteq 1 .. made /\ Holds(tab) \subseteq 0 .. made
  BY TabFacts
<1>3. left \subseteq Holds(tab) /\ left \in SUBSET Nat
  BY <1>2 DEF Holds, TabRecords
<1>4. tab.change \in left /\ tab.spends \notin left \ {tab.change}
      /\ Difference(tab.note, left) \subseteq {tab.spends, tab.change}
  BY DEF Difference, In
<1> HIDE DEF left
<1>5. /\ q \in TabRecords /\ q.page = tab.page /\ q.pc = "paid" /\ q.note = left
      /\ q.updated = left /\ q.spends = tab.spends /\ q.change = tab.change
      /\ q.updatedFresh = tab.fresh
  BY <1>2, <1>3 DEF TabRecords
<1> HIDE DEF q, tab
<1>6. tab.page \in FormPages /\ tab.page # "note" /\ InFlight(tab) /\ InFlight(q)
  BY <1>1, <1>2, <1>5 DEF TabOK, PageShape, FormPages, InFlight
<1>7. PageShape(q) /\ FreshIsStored(q, stored)
  BY <1>5, <1>6 DEF PageShape, FreshIsStored
<1>8. UpdatedAccounted(q, stored, excused)
  BY <1>1, <1>2, <1>4, <1>5 DEF TabOK, FreshIsStored, UpdatedAccounted
<1>9. Landed(q, unspent, excused)
  BY <1>2, <1>5, <1>6 DEF TabOK, Landed
<1>10. Holds(q) \subseteq Holds(tab) /\ Abandoned(tab) = Abandoned(q)
  <2>1. tab.change \in Holds(tab)
    BY DEF Holds
  <2> QED BY <1>1, <1>3, <1>5, <2>1 DEF Holds, Abandoned
<1>11. TabOK(q, stored, unspent, excused, made)
  BY <1>2, <1>5, <1>7, <1>8, <1>9, <1>10 DEF TabOK
<1>12. q.change \notin stored \cup file /\ \A u \in Tabs \ {t} : q.change \notin Holds(tabs[u])
  BY <1>5, <1>6 DEF PagesInv, ChangeOnlyHere, tab
<1> QED BY <1>1, <1>2, <1>10, <1>11, <1>12, TabMoves DEF tab

\* It returns although nothing landed: what it spent and its change are excused.
LEMMA ReturnsWithoutLandingInv ==
  ASSUME PagesInv, NEW t \in Tabs, ReturnsWithoutLanding(t)
  PROVE  PagesInv'
<1> DEFINE tab == tabs[t]
           leftOf(c) == (tab.note \ {c}) \cup {made + 1}
<1>1. PICK c \in tab.note :
        /\ Set(t, [tab EXCEPT !.pc = "paid", !.note = leftOf(c), !.spends = c,
                     !.change = made + 1, !.updated = leftOf(c), !.updatedFresh = tab.fresh])
        /\ excused' = excused \cup {c, made + 1}
  BY DEF ReturnsWithoutLanding
<1> DEFINE left == leftOf(c)
           q == [tab EXCEPT !.pc = "paid", !.note = left, !.spends = c,
                   !.change = made + 1, !.updated = left, !.updatedFresh = tab.fresh]
<1>2. tab.pc = "paying" /\ made' = made + 1 /\ UNCHANGED <<stored, file, unspent>>
  BY DEF ReturnsWithoutLanding
<1>3. /\ tab \in TabRecords /\ TabOK(tab, stored, unspent, excused, made) /\ made \in Nat
      /\ tab.note \subseteq Holds(tab) /\ unspent \subseteq 1 .. made
      /\ Holds(tab) \subseteq 0 .. made
  BY TabFacts
<1>4. left \subseteq {made + 1} \cup Holds(tab) /\ left \in SUBSET Nat /\ c \in 0 .. made
      /\ made + 1 \in Nat /\ c \in Nat
  BY <1>3
<1>5. made + 1 \in left /\ c \notin left \ {made + 1}
      /\ Difference(tab.note, left) \subseteq {c, made + 1}
  BY DEF Difference, In
<1>6. Set(t, q)
  BY <1>1
<1> HIDE DEF left
<1>7. /\ q \in TabRecords /\ q.page = tab.page /\ q.pc = "paid" /\ q.note = left
      /\ q.updated = left /\ q.spends = c /\ q.change = made + 1
      /\ q.updatedFresh = tab.fresh
  BY <1>3, <1>4 DEF TabRecords
<1> HIDE DEF q, tab
<1>8. tab.page \in FormPages /\ tab.page # "note" /\ Abandoned(tab) = {}
  BY <1>2, <1>3 DEF TabOK, PageShape, FormPages, Abandoned
<1>9. PageShape(q) /\ FreshIsStored(q, stored)
  BY <1>7, <1>8 DEF PageShape, FreshIsStored
<1>10. UpdatedAccounted(q, stored, excused')
  BY <1>1, <1>2, <1>3, <1>5, <1>7 DEF TabOK, FreshIsStored, UpdatedAccounted
<1>11. Landed(q, unspent', excused')
  BY <1>1, <1>3, <1>7 DEF Landed
<1>12. /\ Holds(q) \subseteq {made + 1} \cup Holds(tab)
       /\ Holds(q) \cup {q.spends} \subseteq 0 .. made'
  <2>1. Holds(q) \subseteq {made + 1} \cup Holds(tab)
    BY <1>4, <1>7 DEF Holds
  <2> QED BY <1>2, <1>3, <1>4, <1>7, <2>1
<1>13. TabOK(q, stored, unspent', excused', made')
  BY <1>2, <1>7, <1>9, <1>10, <1>11, <1>12 DEF TabOK
<1>14. q.change \notin stored \cup file /\ \A u \in Tabs \ {t} : q.change \notin Holds(tabs[u])
  BY <1>3, <1>7, TabFacts
<1>15. unspent' \subseteq 1 .. made' /\ excused \subseteq excused'
  BY <1>1, <1>2, <1>3
<1> QED BY <1>2, <1>6, <1>8, <1>12, <1>13, <1>14, <1>15, TabMoves DEF tab

\* A deposit leaves every tab as it is.
LEMMA DepositInv ==
  ASSUME PagesInv, NEW t \in Tabs, Deposit(t)
  PROVE  PagesInv'
<1> DEFINE q == tabs[t]
<1>1. /\ unspent' = unspent \cup {made + 1} /\ made' = made + 1
      /\ excused' = excused \cup {made + 1} /\ UNCHANGED <<stored, file, tabs>>
  BY DEF Deposit
<1>2. /\ TabOK(q, stored, unspent, excused, made) /\ made \in Nat /\ q.spends \in 0 .. made
      /\ unspent \subseteq 1 .. made /\ Holds(q) \subseteq 0 .. made
  BY TabFacts
<1>3. Set(t, q)
  BY <1>1 DEF Set, PagesInv
<1>4. UpdatedAccounted(q, stored, excused') /\ Landed(q, unspent', excused')
  BY <1>1, <1>2 DEF TabOK, UpdatedAccounted, Landed
<1>5. Holds(q) \cup {q.spends} \subseteq 0 .. made'
  BY <1>1, <1>2
<1>6. TabOK(q, stored, unspent', excused', made')
  BY <1>2, <1>4, <1>5 DEF TabOK
<1>7. InFlight(q) => /\ q.change \notin stored \cup file
                     /\ \A u \in Tabs \ {t} : q.change \notin Holds(tabs[u])
  BY DEF PagesInv, ChangeOnlyHere
<1>8. unspent' \subseteq 1 .. made'
  BY <1>1, <1>2
<1> QED BY <1>1, <1>3, <1>6, <1>7, <1>8, TabMoves

-----------------------------------------------------------------------------
\* The note page stores what it shows, or a note in place of what is there.
LEMMA NotePageStores ==
  ASSUME PagesInv, NEW t \in Tabs, NEW content, NEW q, NEW isFresh \in BOOLEAN,
         Store(t, content, q, isFresh), UNCHANGED <<unspent, made>>,
         tabs[t].page = "note", q \in TabRecords, q.page = "note", q.pc = "idle",
         q.mode # "creating", q.mode = "loaded" => q.hasBlob, ~q.hasBlob => content = NoNote,
         q.note \in {content, NoNote}, q.updated = NoNote,
         q.spends = tabs[t].spends, q.change = tabs[t].change,
         content \cup file' \subseteq {0} \cup stored \cup file \cup Holds(tabs[t]),
         isFresh => In(content) = In(stored)
  PROVE  PagesInv'
<1> DEFINE tab == tabs[t]
           q0 == [q EXCEPT !.fresh = TRUE]
<1>1. /\ tab \in TabRecords /\ TabOK(tab, stored, unspent, excused, made) /\ made \in Nat
      /\ stored \cup file \subseteq 0 .. made /\ Holds(tab) \subseteq 0 .. made
      /\ tab.spends \in 0 .. made /\ tab.change \in Holds(tab)
  BY TabFacts
<1>2. excused' = excused \cup (IF isFresh THEN {} ELSE Difference(stored, content))
  BY DEF Store
<1>3. /\ q0 \in TabRecords /\ q0.page = "note" /\ q0.pc = "idle" /\ q0.mode = q.mode
      /\ q0.hasBlob = q.hasBlob /\ q0.note = q.note /\ q0.updated = NoNote
      /\ q0.spends = q.spends /\ q0.change = q.change /\ Holds(q0) = Holds(q)
  BY DEF TabRecords, Holds
<1> HIDE DEF q0, tab
<1>4. PageShape(q0) /\ FreshIsStored(q0, content) /\ UpdatedAccounted(q0, content, excused')
      /\ Landed(q0, unspent, excused')
  BY <1>3 DEF PageShape, FreshIsStored, UpdatedAccounted, Landed, InFlight
<1>5. Holds(q) \subseteq {0} \cup stored \cup file \cup Holds(tab)
  BY <1>1 DEF Holds, NoNote, tab
<1>6. Holds(q0) \cup {q0.spends} \subseteq 0 .. made
  BY <1>1, <1>3, <1>5 DEF tab
<1>7. TabOK(q0, content, unspent, excused', made)
  BY <1>3, <1>4, <1>6 DEF TabOK
<1>8. ASSUME NEW c \in Difference(content, unspent)
      PROVE  c \in excused' \/ \E u \in Tabs \ {t} : c \in Abandoned(tabs[u])
  <2>1. c \in excused' \/ c \in Difference(stored, unspent)
    BY <1>2, <1>8 DEF Difference
  <2>2. Abandoned(tab) = {}
    BY <1>1 DEF tab, TabOK, PageShape, FormPages, Abandoned
  <2> QED BY <1>2, <2>1, <2>2 DEF PagesInv, MoneyAccounted, tab
<1> QED BY <1>5, <1>7, <1>8, TabStores DEF q0, tab

\* Creating, backing up, restoring and clearing.
LEMMA NotePageStoresInv ==
  ASSUME PagesInv, NEW t \in Tabs, CreateNote(t) \/ Backup(t) \/ Restore(t) \/ Clear(t)
  PROVE  PagesInv'
<1> DEFINE tab == tabs[t]
<1>1. /\ tab \in TabRecords /\ PageShape(tab) /\ FreshIsStored(tab, stored)
      /\ file \subseteq Nat /\ tab.fresh \in BOOLEAN /\ tab.note \subseteq Holds(tab)
  <2>1. tab \in TabRecords /\ TabOK(tab, stored, unspent, excused, made)
        /\ tab.note \subseteq Holds(tab) /\ file \subseteq 0 .. made
    BY TabFacts
  <2> QED BY <2>1 DEF TabOK, TabRecords
<1>2. tab.page = "note" /\ tab.pc = "idle" /\ tab.updated = NoNote
  BY <1>1 DEF PageShape, FormPages, CreateNote, Backup, Restore, Clear, ShowsBackup, Shows
<1>3. CASE CreateNote(t)
  <2> DEFINE q == [tab EXCEPT !.hasBlob = TRUE, !.note = {}, !.mode = "loaded"]
  <2>1. Store(t, {}, q, tab.fresh) /\ UNCHANGED <<file, unspent, made>> /\ tab.mode = "creating"
    BY <1>3 DEF CreateNote, Shows
  <2>2. /\ q \in TabRecords /\ q.page = tab.page /\ q.pc = tab.pc /\ q.mode = "loaded"
        /\ q.hasBlob /\ q.note = {} /\ q.updated = tab.updated
        /\ q.spends = tab.spends /\ q.change = tab.change
    BY <1>1 DEF TabRecords
  <2>3. tab.fresh => In({}) = In(stored)
    BY <1>1, <1>2, <2>1 DEF PageShape, FreshIsStored, In
  <2> HIDE DEF q
  <2> QED BY <1>1, <1>2, <2>1, <2>2, <2>3, NotePageStores
<1>4. CASE Backup(t)
  <2>1. /\ Store(t, tab.note, tab, tab.fresh) /\ file' = tab.note
        /\ tab.mode = "loaded" /\ tab.note # NoNote /\ UNCHANGED <<unspent, made>>
    BY <1>4 DEF Backup, ShowsBackup, Shows
  <2>2. tab.hasBlob /\ (tab.fresh => tab.note = stored)
    BY <1>1, <1>2, <2>1 DEF PageShape, FreshIsStored
  <2> HIDE DEF tab
  <2>3. tab = tabs[t]
    BY DEF tab
  <2> QED BY <1>1, <1>2, <2>1, <2>2, <2>3, NotePageStores
<1>5. CASE Restore(t)
  <2> DEFINE q == [tab EXCEPT !.hasBlob = TRUE, !.note = file, !.mode = "loaded"]
  <2>1. Store(t, file, q, FALSE) /\ UNCHANGED <<file, unspent, made>>
    BY <1>5 DEF Restore
  <2>2. /\ q \in TabRecords /\ q.page = tab.page /\ q.pc = tab.pc /\ q.mode = "loaded"
        /\ q.hasBlob /\ q.note = file /\ q.updated = tab.updated
        /\ q.spends = tab.spends /\ q.change = tab.change
    BY <1>1 DEF TabRecords
  <2> HIDE DEF q
  <2> QED BY <1>2, <2>1, <2>2, NotePageStores
<1>6. CASE Clear(t)
  <2> DEFINE q == [tab EXCEPT !.hasBlob = FALSE, !.note = NoNote, !.mode = "idle"]
  <2>1. Store(t, NoNote, q, FALSE) /\ UNCHANGED <<file, unspent, made>>
    BY <1>6 DEF Clear
  <2>2. /\ q \in TabRecords /\ q.page = tab.page /\ q.pc = tab.pc /\ q.mode = "idle"
        /\ q.note = NoNote /\ q.updated = tab.updated
        /\ q.spends = tab.spends /\ q.change = tab.change
    BY <1>1, NoNoteTyped DEF TabRecords
  <2>3. NoNote \subseteq {0}
    BY DEF NoNote
  <2> HIDE DEF q
  <2> QED BY <1>2, <2>1, <2>2, <2>3, NotePageStores
<1> QED BY <1>3, <1>4, <1>5, <1>6

\* A form saves what getUpdatedNote() gives: what was stored but for the payment,
\* whose two commitments are then where the pool has them.
LEMMA SaveInv ==
  ASSUME PagesInv, NEW t \in Tabs, tabs[t].page \in FormPages, SaveDirect(t) \/ SaveFetch(t)
  PROVE  PagesInv'
<1> DEFINE tab == tabs[t]
           content == tab.updated
           isFresh == tab.updatedFresh
           qd == [Done(tab) EXCEPT !.updated = NoNote]
           qf == [Done(tab) EXCEPT !.updatedFresh = TRUE]
           q0(q) == [q EXCEPT !.fresh = TRUE]
<1>1. /\ tab \in TabRecords /\ TabOK(tab, stored, unspent, excused, made) /\ made \in Nat
      /\ stored \cup file \subseteq 0 .. made /\ Holds(tab) \subseteq 0 .. made
      /\ content \subseteq Holds(tab) /\ isFresh \in BOOLEAN
  BY TabFacts DEF TabRecords
<1>2. tab.pc = "paid" \/ (tab.pc = "paying" /\ content # NoNote)
  BY DEF SaveDirect, SaveFetch
<1>3. PICK q \in {qd, qf} : Store(t, content, q, isFresh) /\ UNCHANGED <<file, unspent, made>>
  BY DEF SaveDirect, SaveFetch
<1>4. /\ q0(q) \in TabRecords /\ q \in TabRecords /\ q.page = tab.page /\ q.pc = "idle"
      /\ q.note = NoNote /\ q.updated \in {content, NoNote} /\ q.spends = 0 /\ q.change = 0
      /\ q0(q).page = q.page /\ q0(q).pc = q.pc /\ q0(q).note = q.note
      /\ q0(q).updated = q.updated /\ q0(q).spends = 0 /\ q0(q).change = 0
  <2> HIDE DEF tab
  <2>1. CASE q = qd
    BY <1>1, <2>1, NoNoteTyped DEF TabRecords, Done
  <2>2. CASE q = qf
    BY <1>1, <2>2, NoNoteTyped DEF TabRecords, Done
  <2> QED BY <1>3, <2>1, <2>2
<1> HIDE DEF qd, qf, q0, tab, content, isFresh
<1>5. tab.page \in FormPages /\ tab.page # "note"
  BY DEF tab, FormPages
<1>6. Holds(q) \subseteq {0} \cup Holds(tab) /\ Holds(q0(q)) = Holds(q)
  BY <1>1, <1>4 DEF Holds, NoNote
<1>7. TabOK(q0(q), content, unspent, excused', made)
  <2>1. PageShape(q0(q)) /\ FreshIsStored(q0(q), content) /\ Landed(q0(q), unspent, excused')
    BY <1>4, <1>5 DEF PageShape, FreshIsStored, Landed, InFlight
  <2>2. Difference(content, content) = {}
    BY DEF Difference
  <2>3. UpdatedAccounted(q0(q), content, excused')
    BY <1>4, <2>2 DEF UpdatedAccounted
  <2>4. Holds(q0(q)) \cup {q0(q).spends} \subseteq 0 .. made
    BY <1>1, <1>4, <1>6
  <2> QED BY <1>4, <2>1, <2>3, <2>4 DEF TabOK
<1>8. ASSUME NEW c \in Difference(content, unspent)
      PROVE  c \in excused' \/ \E u \in Tabs \ {t} : c \in Abandoned(tabs[u])
  <2>1. excused' = excused \cup (IF isFresh THEN {} ELSE Difference(stored, content))
    BY <1>3 DEF Store
  <2> DEFINE paid == IF tab.pc = "paid" THEN {tab.spends, tab.change} ELSE {}
  <2>2. Abandoned(tab) \subseteq paid
    BY <1>2 DEF Abandoned
  <2>3. /\ tab.pc = "paid" => /\ tab.change \in content /\ tab.change # 0
                              /\ tab.spends \notin content \ {tab.change}
                              /\ tab.change \in unspent \cup excused
                              /\ tab.spends \in unspent => tab.spends \in excused
        /\ content # NoNote /\ isFresh => Difference(stored, content) \subseteq excused \cup paid
    BY <1>1 DEF TabOK, UpdatedAccounted, Landed, InFlight, content, isFresh
  <2>4. content # NoNote
    BY <1>2, <2>3 DEF NoNote
  <2>5. CASE c \in paid
    <3>1. tab.pc = "paid" /\ c \in {tab.spends, tab.change}
      BY <2>5
    <3> QED BY <1>8, <2>1, <2>3, <3>1 DEF Difference, In
  <2>6. CASE c \notin paid
    <3>1. c \in Difference(stored, content) \/ c \in Difference(stored, unspent)
      BY <1>8 DEF Difference
    <3>2. CASE c \in Difference(stored, content)
      BY <2>1, <2>3, <2>4, <2>6, <3>2
    <3>3. CASE c \in Difference(stored, unspent)
      BY <2>1, <2>2, <2>6, <3>3 DEF PagesInv, MoneyAccounted, tab
    <3> QED BY <3>1, <3>2, <3>3
  <2> QED BY <2>5, <2>6
<1>9. content \cup file' \subseteq {0} \cup stored \cup file \cup Holds(tab)
  BY <1>1, <1>3
<1> QED BY <1>1, <1>3, <1>4, <1>6, <1>7, <1>8, <1>9, TabStores DEF q0, tab

-----------------------------------------------------------------------------
LEMMA PagesInitInv == WalletInit => PagesInv
<1> SUFFICES ASSUME WalletInit PROVE PagesInv
  OBVIOUS
<1>1. /\ stored = FirstNote /\ file = FirstNote /\ unspent = FirstNote
      /\ tabs = [t \in Tabs |-> Closed] /\ made = Cardinality(FirstNote) /\ excused = {}
  BY DEF WalletInit
<1>2. made \in Nat /\ FirstNote = 1 .. made
  BY <1>1, WalletConstants, FS_CardinalityType
<1>3. /\ Closed \in TabRecords /\ Closed.pc = "idle" /\ Closed.page = "none" /\ Closed.fresh = FALSE
      /\ Closed.updated = NoNote /\ Holds(Closed) = {0} /\ Closed.spends = 0
  BY NoNoteTyped DEF Closed, TabRecords, Holds, NoNote
<1>4. TabOK(Closed, stored, unspent, excused, made) /\ ~InFlight(Closed)
  <2> HIDE DEF Closed
  <2>1. PageShape(Closed) /\ FreshIsStored(Closed, stored) /\ ~InFlight(Closed)
        /\ UpdatedAccounted(Closed, stored, excused)
    BY <1>3 DEF PageShape, FreshIsStored, InFlight, UpdatedAccounted
  <2> QED BY <1>2, <1>3, <2>1 DEF TabOK, Landed
<1>5. MoneyAccounted
  BY <1>1 DEF MoneyAccounted, Difference
<1>6. \A t \in Tabs : ChangeOnlyHere(t)
  BY <1>1, <1>4 DEF ChangeOnlyHere
<1>7. tabs \in [Tabs -> TabRecords] /\ \A t \in Tabs : TabOK(tabs[t], stored, unspent, excused, made)
  BY <1>1, <1>3, <1>4
<1>8. stored \cup file \subseteq 0 .. made /\ unspent \subseteq 1 .. made
  <2>1. 1 .. made \subseteq 0 .. made
    BY <1>2
  <2> QED BY <1>1, <1>2, <2>1
<1> QED BY <1>2, <1>5, <1>6, <1>7, <1>8 DEF PagesInv

LEMMA PagesNextInv == PagesInv /\ [WalletNext]_walletVars => PagesInv'
<1> SUFFICES ASSUME PagesInv, [WalletNext]_walletVars PROVE PagesInv'
  OBVIOUS
<1>1. CASE UNCHANGED walletVars
  BY <1>1 DEF walletVars, PagesInv, ChangeOnlyHere, MoneyAccounted, TabOK, PageShape,
              FreshIsStored, UpdatedAccounted, Landed, InFlight, Difference, In, Holds, Abandoned
<1>2. CASE WalletNext
  <2> SUFFICES ASSUME NEW t \in Tabs,
                 \/ \E page \in {"note", "direct", "x402", "deposit"} : OpenPage(t, page)
                 \/ ActionButtons(t) \/ CreateNoteForm(t) \/ UnlockForm(t) \/ Backup(t)
                 \/ RestoreForm(t) \/ ClearForm(t)
                 \/ DirectForm(t) \/ X402Form(t) \/ PaymentThrows(t)
                 \/ PaymentLands(t) \/ PaymentReturns(t) \/ ReturnsWithoutLanding(t)
                 \/ TierPicker(t)
               PROVE PagesInv'
    BY <1>2 DEF WalletNext
  <2>1. CASE \E page \in {"note", "direct", "x402", "deposit"} : OpenPage(t, page)
    BY <2>1, OpenPageInv
  <2>2. CASE ActionButtons(t) \/ UnlockForm(t)
    BY <2>2, NotePageInv DEF UnlockForm, Shows
  <2>3. CASE CreateNoteForm(t) \/ RestoreForm(t) \/ ClearForm(t) \/ Backup(t)
    BY <2>3, NotePageInv, NotePageStoresInv DEF CreateNoteForm, RestoreForm, ClearForm, Shows
  <2>4. CASE DirectForm(t) \/ X402Form(t)
    BY <2>4, FormInv, SaveInv DEF DirectForm, X402Form, FormPages
  <2>5. CASE PaymentThrows(t) \/ PaymentLands(t) \/ PaymentReturns(t) \/ ReturnsWithoutLanding(t)
    BY <2>5, PaymentThrowsInv, PaymentLandsInv, PaymentReturnsInv, ReturnsWithoutLandingInv
  <2>6. CASE TierPicker(t)
    BY <2>6, DepositInv DEF TierPicker
  <2> QED BY <2>1, <2>2, <2>3, <2>4, <2>5, <2>6
<1> QED BY <1>1, <1>2

\* For any number of tabs and payments, in any order of opening, unlocking,
\* paying, saving and backing up, the stored note is what can be spent but for
\* payments under way and the known causes (saveEncryptedNote, getUpdatedNote).
THEOREM MoneyIsStored == WalletOrSdkSpec => []StoredNoteIsTheMoney
<1>1. WalletOrSdkInit => PagesInv
  BY PagesInitInv DEF WalletOrSdkInit
<1>2. PagesInv /\ [WalletOrSdkNext]_walletAndSdkVars => PagesInv'
  <2>1. WalletOrSdkNext => [WalletNext]_walletVars
    BY DEF WalletOrSdkNext
  <2>2. UNCHANGED walletAndSdkVars => UNCHANGED walletVars
    BY DEF walletAndSdkVars
  <2> QED BY <2>1, <2>2, PagesNextInv
<1>3. PagesInv => StoredNoteIsTheMoney
  BY DEF PagesInv, MoneyAccounted, StoredNoteIsTheMoney, InFlightOf
<1> QED BY <1>1, <1>2, <1>3, PTL DEF WalletOrSdkSpec
=============================================================================
