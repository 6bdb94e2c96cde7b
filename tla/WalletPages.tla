------------------------------ MODULE WalletPages ------------------------------
(***************************************************************************)
(* The pages of the web app that hold the user's money: the note page       *)
(* (NoteManager), the two payment forms (PayForms), the deposit page        *)
(* (TierPicker), in any number of browser tabs over one localStorage.       *)
(*                                                                          *)
(* The stored note is the only place a commitment's secret survives in.     *)
(* Every page works on a copy of it that it took when it was opened,        *)
(* unlocked or used to pay, saves the whole note, and is told of no other   *)
(* tab's save: what a tab saves from a copy that is no longer what is       *)
(* stored undoes what was saved between.                                    *)
(*                                                                          *)
(* A note is the set of its commitments, numbered as they are made.  What   *)
(* a payment does in the SDK and on chain is cut down to what a page sees   *)
(* of QietrSdk: it may throw, land, do both, or return without landing,     *)
(* since sendIxs looks at no confirmation.  Passphrases are right: a wrong  *)
(* one changes nothing.                                                     *)
(***************************************************************************)
EXTENDS Integers, FiniteSets

CONSTANTS
  Tabs,
  FirstNote,         \* the commitments the user starts with: 1 .. n
  MaxCommitments     \* bound on the commitments ever made

ASSUME WalletConstants ==
  /\ IsFiniteSet(FirstNote) /\ FirstNote = 1 .. Cardinality(FirstNote)
  /\ MaxCommitments \in Nat

Commitments == 1 .. MaxCommitments
NoNote == {0}        \* null: no blob, or no note in memory

VARIABLES
  stored,      \* the note in qietr.note.v1.encrypted
  file,        \* the backup file downloaded last
  tabs,        \* what each tab shows and holds
  unspent,     \* the pool: the user's commitments that can be spent
  made,        \* how many commitments were made
  excused      \* history: commitments whose loss has one of the known causes

walletVars == <<stored, file, tabs, unspent, made, excused>>

\* hasBlob  what the note page believes of localStorage
\* mode     the form the note page shows
\* note     the copy in memory: NoteManager's, or the SDK's of this page
\* updated  getUpdatedNote() of the page's SDK
\* spends, change   the payment under way
\* fresh, updatedFresh   history: nothing was stored since the copy was taken
Closed == [page |-> "none", pc |-> "idle", mode |-> "idle", hasBlob |-> FALSE, note |-> NoNote,
           updated |-> NoNote, spends |-> 0, change |-> 0,
           fresh |-> FALSE, updatedFresh |-> FALSE]

WalletInit ==
  /\ stored = FirstNote /\ file = FirstNote /\ unspent = FirstNote
  /\ tabs = [t \in Tabs |-> Closed]
  /\ made = Cardinality(FirstNote)
  /\ excused = {}

-----------------------------------------------------------------------------
(* Storage *)

In(content) == content \ NoNote
Difference(one, other) == (In(one) \ In(other)) \cup (In(other) \ In(one))

\* saveEncryptedNote, clearEncryptedNote: the blob becomes `content`, the
\* tab becomes `tab`, and every other copy is out of date.  A save from an outdated
\* copy, and one the user means to lose by, excuses all it changes.
Store(t, content, tab, isFresh) ==
  /\ stored' = content
  /\ tabs' = [u \in Tabs |->
       IF u = t THEN [tab EXCEPT !.fresh = TRUE]
       ELSE [tabs[u] EXCEPT !.fresh = FALSE, !.updatedFresh = FALSE]]
  /\ excused' = excused \cup (IF isFresh THEN {} ELSE Difference(stored, content))

Set(t, tab) == tabs' = [tabs EXCEPT ![t] = tab]

\* What the payment under way leaves behind if nothing more is heard of it:
\* once it has landed, the change, and the spent commitment where it is stored.
Abandoned(tab) == IF tab.pc \in {"landed", "paid"} THEN {tab.spends, tab.change} \ {0} ELSE {}

-----------------------------------------------------------------------------
\* A page is opened, reloaded or left; whatever it was doing is forgotten.
OpenPage(t, page) ==
  /\ Set(t, [Closed EXCEPT !.page = page, !.hasBlob = stored # NoNote, !.fresh = TRUE])
  /\ excused' = excused \cup Abandoned(tabs[t])
  /\ UNCHANGED <<stored, file, unspent, made>>

-----------------------------------------------------------------------------
(* The note page: a row of buttons that choose a form, and the form *)

ActionButtons(t) ==
  /\ tabs[t].page = "note"
  /\ \E mode \in {"creating", "restoring", "loaded", "clearing"} :
       /\ mode = "creating" => ~tabs[t].hasBlob
       /\ mode \in {"loaded", "clearing"} => tabs[t].hasBlob
       /\ Set(t, [tabs[t] EXCEPT !.mode = mode,
                    !.note = IF mode \in {"creating", "loaded"} THEN NoNote ELSE @])
  /\ UNCHANGED <<stored, file, unspent, made, excused>>

Shows(t, mode) == tabs[t].page = "note" /\ tabs[t].mode = mode
ShowsBackup(t) == Shows(t, "loaded") /\ tabs[t].note # NoNote

\* onCancel, of every form but the backup's.
Cancel(t) ==
  /\ Set(t, [tabs[t] EXCEPT !.mode = "idle"])
  /\ UNCHANGED <<stored, file, unspent, made, excused>>

CreateNote(t) ==
  /\ Shows(t, "creating")
  /\ Store(t, {}, [tabs[t] EXCEPT !.hasBlob = TRUE, !.note = {}, !.mode = "loaded"],
           tabs[t].fresh)
  /\ UNCHANGED <<file, unspent, made>>

Unlock(t) ==
  /\ Shows(t, "loaded") /\ tabs[t].hasBlob /\ tabs[t].note = NoNote /\ stored # NoNote
  /\ Set(t, [tabs[t] EXCEPT !.note = stored, !.fresh = TRUE])
  /\ UNCHANGED <<stored, file, unspent, made, excused>>

\* onBackup seals the note in memory, saves it and downloads it.
Backup(t) ==
  /\ ShowsBackup(t)
  /\ Store(t, tabs[t].note, tabs[t], tabs[t].fresh)
  /\ file' = tabs[t].note
  /\ UNCHANGED <<unspent, made>>

\* The user replaces the stored note, or removes it, having been warned.
Restore(t) ==
  /\ Shows(t, "restoring")
  /\ Store(t, file, [tabs[t] EXCEPT !.hasBlob = TRUE, !.note = file, !.mode = "loaded"], FALSE)
  /\ UNCHANGED <<file, unspent, made>>

Clear(t) ==
  /\ Shows(t, "clearing")
  /\ Store(t, NoNote, [tabs[t] EXCEPT !.hasBlob = FALSE, !.note = NoNote, !.mode = "idle"], FALSE)
  /\ UNCHANGED <<file, unspent, made>>

CreateNoteForm(t) == Shows(t, "creating") /\ (CreateNote(t) \/ Cancel(t))
UnlockForm(t) ==
  Shows(t, "loaded") /\ tabs[t].hasBlob /\ tabs[t].note = NoNote /\ (Unlock(t) \/ Cancel(t))
RestoreForm(t) == Shows(t, "restoring") /\ (Restore(t) \/ Cancel(t))
ClearForm(t) == Shows(t, "clearing") /\ (Clear(t) \/ Cancel(t))

-----------------------------------------------------------------------------
(* The payment forms: unlock and setNote, pay, save what the SDK says is left *)

\* handlePay and handleFetch up to the submission.
StartPaying(t) ==
  /\ tabs[t].pc = "idle" /\ stored # NoNote
  /\ Set(t, [tabs[t] EXCEPT !.pc = "paying", !.note = stored, !.fresh = TRUE])
  /\ UNCHANGED <<stored, file, unspent, made, excused>>

\* External: the transaction lands; the payment has change.
PaymentLands(t) ==
  /\ tabs[t].pc = "paying" /\ made < MaxCommitments
  /\ \E c \in tabs[t].note \cap unspent :
       /\ Set(t, [tabs[t] EXCEPT !.pc = "landed", !.spends = c, !.change = made + 1])
       /\ unspent' = (unspent \ {c}) \cup {made + 1}
  /\ made' = made + 1
  /\ UNCHANGED <<stored, file, excused>>

\* Nothing was paid, or the answer was lost, or a later step of a fetch failed
\* after a payment had returned: the form shows the error and saves nothing.
PaymentThrows(t) ==
  /\ tabs[t].pc \in {"paying", "landed", "paid"}
  /\ Set(t, [tabs[t] EXCEPT !.pc = "idle", !.note = NoNote, !.spends = 0, !.change = 0])
  /\ excused' = excused \cup Abandoned(tabs[t])
  /\ UNCHANGED <<stored, file, unspent, made>>

\* payMicroExact returns with the change in place of what it spent.
PaymentReturns(t) ==
  /\ tabs[t].pc = "landed"
  /\ LET left == (tabs[t].note \ {tabs[t].spends}) \cup {tabs[t].change}
     IN Set(t, [tabs[t] EXCEPT !.pc = "paid", !.note = left,
                               !.updated = left, !.updatedFresh = tabs[t].fresh])
  /\ UNCHANGED <<stored, file, unspent, made, excused>>

\* The same when the transaction failed or expired, which sendIxs does not see:
\* the note now has a commitment that never was for one that is not spent.
ReturnsWithoutLanding(t) ==
  /\ tabs[t].pc = "paying" /\ made < MaxCommitments
  /\ \E c \in tabs[t].note :
       LET left == (tabs[t].note \ {c}) \cup {made + 1}
       IN /\ Set(t, [tabs[t] EXCEPT !.pc = "paid", !.note = left, !.spends = c,
                       !.change = made + 1, !.updated = left, !.updatedFresh = tabs[t].fresh])
          /\ excused' = excused \cup {c, made + 1}
  /\ made' = made + 1
  /\ UNCHANGED <<stored, file, unspent>>

Done(tab) == [tab EXCEPT !.pc = "idle", !.note = NoNote, !.spends = 0, !.change = 0]

\* Mutant. The note that was unlocked is saved, not the one the payment left.
SaveDirect_before(t) ==
  /\ tabs[t].pc = "paid"
  /\ Store(t, (tabs[t].note \cup {tabs[t].spends}) \ {tabs[t].change},
           [Done(tabs[t]) EXCEPT !.updated = NoNote], tabs[t].fresh)
  /\ UNCHANGED <<file, unspent, made>>

\* handlePay saves result.updatedNote.
SaveDirect(t) ==
  /\ tabs[t].pc = "paid"
  /\ Store(t, tabs[t].updated, [Done(tabs[t]) EXCEPT !.updated = NoNote], tabs[t].updatedFresh)
  /\ UNCHANGED <<file, unspent, made>>

\* handleFetch: whether this fetch paid or not, getUpdatedNote() is saved if any
\* fetch of this form has paid.  setNote does not set it.
SaveFetch(t) ==
  /\ tabs[t].pc \in {"paying", "paid"} /\ tabs[t].updated # NoNote
  /\ Store(t, tabs[t].updated, [Done(tabs[t]) EXCEPT !.updatedFresh = TRUE], tabs[t].updatedFresh)
  /\ UNCHANGED <<file, unspent, made>>

\* A fetch that paid nothing, in a form where none has.
FetchUnpaid(t) ==
  /\ tabs[t].pc = "paying" /\ tabs[t].updated = NoNote
  /\ Set(t, Done(tabs[t]))
  /\ UNCHANGED <<stored, file, unspent, made, excused>>

\* Each form has one button, which is disabled from the click to the report.
DirectForm(t) == tabs[t].page = "direct" /\ (StartPaying(t) \/ SaveDirect(t))
X402Form(t) == tabs[t].page = "x402" /\ (StartPaying(t) \/ SaveFetch(t) \/ FetchUnpaid(t))

-----------------------------------------------------------------------------
\* handleDeposit: the SDK's note gets the commitment; nothing saves that note.
Deposit(t) ==
  /\ made < MaxCommitments
  /\ unspent' = unspent \cup {made + 1}
  /\ made' = made + 1
  /\ excused' = excused \cup {made + 1}
  /\ UNCHANGED <<stored, file, tabs>>

TierPicker(t) == tabs[t].page = "deposit" /\ Deposit(t)

-----------------------------------------------------------------------------
WalletNext ==
  \E t \in Tabs :
    \/ \E page \in {"note", "direct", "x402", "deposit"} : OpenPage(t, page)
    \/ ActionButtons(t) \/ CreateNoteForm(t) \/ UnlockForm(t) \/ Backup(t)
    \/ RestoreForm(t) \/ ClearForm(t)
    \/ DirectForm(t) \/ X402Form(t) \/ PaymentThrows(t)
    \/ PaymentLands(t) \/ PaymentReturns(t) \/ ReturnsWithoutLanding(t)
    \/ TierPicker(t)

WalletSpec == WalletInit /\ [][WalletNext]_walletVars

-----------------------------------------------------------------------------
(* Properties *)

InFlightOf(t) == Abandoned(tabs[t])

\* The stored note is the user's money: it has every commitment that can be
\* spent and none that cannot, but for what a payment under way is changing,
\* unless one of these happened to the commitment: it was deposited from the
\* deposit page; its payment threw, or its page was left, after it landed; its
\* payment returned though it never landed; the note was cleared or an older one
\* restored; it was stored or spent by another tab after a tab took the copy it
\* then saved, which for the x402 form is its last payment and not its last
\* unlocking.  No other order of unlocking, paying, backing up and
\* opening pages in the tabs costs a commitment (NoteManager, DirectForm,
\* X402Form, getUpdatedNote).
StoredNoteIsTheMoney ==
  Difference(stored, unspent) \subseteq excused \cup UNION {InFlightOf(t) : t \in Tabs}
=============================================================================
