---------------------------- MODULE ProgramLayouts ----------------------------
(***************************************************************************)
(* What the three Anchor programs read and write: the bytes of their        *)
(* accounts and of their instructions' data, and the accounts each          *)
(* instruction names, in order, with what it needs of them.                 *)
(*                                                                          *)
(* A layout is a sequence of <<field, bytes>>, as Borsh puts the fields of  *)
(* a struct one after the other; the first is the discriminator, named for  *)
(* what it is a hash of.  An account is <<address, what it must be>>; the   *)
(* address of a PDA is the sequence of its seeds.                           *)
(***************************************************************************)
EXTENDS Integers, Sequences, FiniteSets

\* Where each field of a layout is: {<<field, offset, bytes>>}.
End(layout) ==
  LET end[i \in 0 .. Len(layout)] == IF i = 0 THEN 0 ELSE end[i - 1] + layout[i][2]
  IN end
Size(layout) == End(layout)[Len(layout)]
Slices(layout) == {<<layout[i][1], End(layout)[i - 1], layout[i][2]>> : i \in 1 .. Len(layout)}

\* What an instruction needs of an account.
R == {}
W == {"writable"}
S == {"signer"}
WS == {"writable", "signer"}

TokenProgram == <<<<"token program">>, R>>
SystemProgram == <<<<"system program">>, R>>

-----------------------------------------------------------------------------
(* qietr-pool: accounts *)

Denomination ==
  << <<"account:Denomination", 8>>, <<"denom_id", 1>>, <<"amount_micro_usdc", 8>>,
     <<"deposit_count", 8>>, <<"vault", 32>>, <<"mint", 32>>, <<"vault_bump", 1>>, <<"bump", 1>> >>

MerkleTreeAccount ==
  << <<"account:MerkleTree", 8>>, <<"denom_id", 1>>, <<"next_leaf_index", 8>>,
     <<"filled_subtree", 20 * 32>>, <<"root_history", 30 * 32>>, <<"root_cursor", 1>>,
     <<"bump", 1>>, <<"zero_hashes", 20 * 32>> >>

NullifierRecord ==
  << <<"account:NullifierRecord", 8>>, <<"denom_id", 1>>, <<"nullifier_hash", 32>>,
     <<"spent_at_slot", 8>>, <<"bump", 1>> >>

(* ... and instructions *)

PoolSeeds ==
  [config       |-> <<"config">>,
   denomination |-> <<"denom", "denom_id">>,
   tree         |-> <<"tree", "denom_id">>,
   vault        |-> <<"vault", "denom_id">>,
   nullifier    |-> <<"nullifier", "denom_id", "nullifier_hash">>]

\* A user's token accounts are their associated ones.
Ata(owner) == <<"ata", owner, "mint">>

deposit_data == << <<"global:deposit", 8>>, <<"denom_id", 1>>, <<"commitment", 32>> >>

DepositAccounts ==
  << <<PoolSeeds.config, R>>, <<PoolSeeds.denomination, W>>, <<PoolSeeds.tree, W>>,
     <<PoolSeeds.vault, W>>, <<Ata("depositor"), W>>, <<<<"depositor">>, WS>>, TokenProgram >>

withdraw_data ==
  << <<"global:withdraw", 8>>, <<"denom_id", 1>>, <<"nullifier_hash", 32>>, <<"proof", 256>>,
     <<"amount", 32>>, <<"root", 32>>, <<"nullifierHash", 32>>, <<"recipient", 32>>,
     <<"paymentAmount", 32>>, <<"changeCommitment", 32>> >>

\* fee_vault is optional: the program's own key stands for none.
WithdrawAccounts(fee_vault) ==
  << <<PoolSeeds.config, R>>, <<PoolSeeds.denomination, R>>, <<PoolSeeds.tree, W>>,
     <<PoolSeeds.vault, W>>, <<PoolSeeds.nullifier, W>>, <<Ata("recipient"), W>>,
     IF fee_vault THEN <<<<"fee_vault">>, W>> ELSE <<<<"program">>, R>>,
     <<<<"fee_payer">>, WS>>, TokenProgram, SystemProgram >>

SetFeeVaultAccounts ==
  << <<PoolSeeds.config, W>>, <<<<"admin">>, S>>, <<<<"fee_vault">>, R>> >>

\* verify: how the 256 bytes of a proof are cut up.
verify == << <<"a", 64>>, <<"b", 128>>, <<"c", 64>> >>

\* The circuit's inputs in the order they are declared, and the public ones.
CircuitInputs ==
  << "secret", "nullifier", "amount", "newSecret", "newNullifier", "pathElements",
     "pathIndices", "root", "nullifierHash", "recipient", "paymentAmount", "changeCommitment" >>
PublicInputs ==
  {"nullifierHash", "root", "recipient", "paymentAmount", "changeCommitment", "amount"}

-----------------------------------------------------------------------------
(* qietr-escrow *)

JobAccount ==
  << <<"account:Job", 8>>, <<"client", 32>>, <<"agent", 32>>, <<"nonce", 8>>,
     <<"price_micro", 8>>, <<"created_at", 8>>, <<"accepted_at", 8>>, <<"completed_at", 8>>,
     <<"resolved_at", 8>>, <<"state", 1>>, <<"bump", 1>>, <<"escrow_bump", 1>> >>

create_job_data ==
  << <<"global:create_job", 8>>, <<"agent", 32>>, <<"nonce", 8>>, <<"price_micro", 8>> >>

EscrowSeeds ==
  [job |-> <<"job", "client", "nonce">>,
   vault |-> <<"escrow", "client", "nonce">>]

CreateJob ==
  << <<EscrowSeeds.job, W>>, <<EscrowSeeds.vault, W>>, <<Ata("client"), W>>, <<<<"client">>, WS>>,
     <<<<"mint">>, R>>, TokenProgram, SystemProgram, <<<<"rent">>, R>> >>

AcceptJob      == << <<EscrowSeeds.job, W>>, <<<<"agent">>, S>> >>
CompleteJob    == << <<EscrowSeeds.job, W>>, <<<<"agent">>, S>> >>
DisputeJob     == << <<EscrowSeeds.job, W>>, <<<<"client">>, S>> >>
CloseJob       == << <<EscrowSeeds.job, W>>, <<<<"claimant">>, WS>> >>
ReleasePayment ==
  << <<EscrowSeeds.job, W>>, <<EscrowSeeds.vault, W>>, <<Ata("agent"), W>>, <<<<"client">>, S>>, TokenProgram >>
CancelJob ==
  << <<EscrowSeeds.job, W>>, <<EscrowSeeds.vault, W>>, <<Ata("client"), W>>, <<<<"client">>, S>>, TokenProgram >>
ResolveDispute ==
  << <<EscrowSeeds.job, W>>, <<EscrowSeeds.vault, W>>, <<Ata("client"), W>>, <<<<"caller">>, S>>, TokenProgram >>

-----------------------------------------------------------------------------
(* qietr-msg *)

MessageAccount ==
  << <<"account:Message", 8>>, <<"from", 32>>, <<"to", 32>>, <<"nonce", 8>>, <<"timestamp", 8>>,
     <<"body_len", 2>>, <<"bump", 1>>, <<"body", 1024>> >>

MsgSeeds(from) == <<"msg", from, "to", "nonce">>

\* A vector is its length and its bytes.
send_data(bytes) ==
  << <<"global:send", 8>>, <<"to", 32>>, <<"nonce", 8>>, <<"body length", 4>>, <<"body", bytes>> >>

SendAccounts == << <<MsgSeeds("sender"), W>>, <<<<"sender">>, WS>>, SystemProgram >>
DeleteAccounts == << <<MsgSeeds("from"), W>>, <<<<"recipient">>, S>> >>
\* `close` credits the recipient, who has to be writable for it.
CloseAccounts == << <<MsgSeeds("from"), W>>, <<<<"recipient">>, WS>> >>
=============================================================================
