----------------------------- MODULE ClientCodecs -----------------------------
(***************************************************************************)
(* What the TypeScript side writes for the programs and reads of them: the  *)
(* SDK's instruction builders, address derivations and account parsers, the *)
(* poller's and the relayer's decoders, the pages' account filters, the     *)
(* prover's packing, the sealed notes and messages, and the HTTP calls of   *)
(* the SDK's clients with the routes that answer them.                      *)
(*                                                                          *)
(* Every offset is the one the TypeScript writes down, by hand; the layouts *)
(* of ProgramLayouts come from the programs' structs.                       *)
(***************************************************************************)
EXTENDS ProgramLayouts

\* data.set(bytes, offset), one triple each; a data of that many bytes.
Data(length, sets) == [length |-> length, sets |-> sets]
Ix(data, keys) == [data |-> data, keys |-> keys]
\* One field written after the other, as with a running offset.
Running(layout) == Data(Size(layout), Slices(layout))
DiscOnly(disc) == Data(8, {<<disc, 0, 8>>})

-----------------------------------------------------------------------------
(* program.ts, chain.ts *)

findPoolConfigPda == <<"config">>
findDenominationPda == <<"denom", "denom_id">>
findMerkleTreePda == <<"tree", "denom_id">>
findVaultPda == <<"vault", "denom_id">>
findNullifierPda == <<"nullifier", "denom_id", "nullifier_hash">>
findAssociatedTokenAddress(owner, mint) == <<"ata", owner, mint>>

buildTransferIx(source, destination, authority) ==
  Ix(Data(9, {<<"transfer", 0, 1>>, <<"amount", 1, 8>>}),
     << <<source, W>>, <<destination, W>>, <<authority, S>> >>)

buildSetFeeVaultIx(config, admin, feeVault) ==
  Ix(DiscOnly("global:set_fee_vault"), << <<config, W>>, <<admin, S>>, <<feeVault, R>> >>)

\* Mutant. The commitment starts where the denomination is.
buildDepositIx_overlap(accts) ==
  Ix(Data(41, {<<"global:deposit", 0, 8>>, <<"denom_id", 8, 1>>, <<"commitment", 8, 32>>}),
     << <<accts.config, R>>, <<accts.denomination, W>>, <<accts.tree, W>>, <<accts.vault, W>>,
        <<accts.depositorAta, W>>, <<accts.depositor, WS>>, TokenProgram >>)

buildDepositIx(accts) ==
  Ix(Data(41, {<<"global:deposit", 0, 8>>, <<"denom_id", 8, 1>>, <<"commitment", 9, 32>>}),
     << <<accts.config, R>>, <<accts.denomination, W>>, <<accts.tree, W>>, <<accts.vault, W>>,
        <<accts.depositorAta, W>>, <<accts.depositor, WS>>, TokenProgram >>)

\* publicSignals is written as it comes from the prover.
buildWithdrawIx(publicSignals, accts) ==
  Ix(Running(<< <<"global:withdraw", 8>>, <<"denom_id", 1>>, <<"nullifier_hash", 32>>, <<"proof", 256>> >>
             \o [i \in 1 .. Len(publicSignals) |-> <<publicSignals[i], 32>>]),
     << <<accts.config, R>>, <<accts.denomination, R>>, <<accts.tree, W>>, <<accts.vault, W>>,
        <<accts.nullifier, W>>, <<accts.recipientAta, W>>,
        IF accts.feeVault = <<"none">> THEN <<<<"program">>, R>> ELSE <<accts.feeVault, W>>,
        <<accts.feePayer, WS>>, TokenProgram, SystemProgram >>)

-----------------------------------------------------------------------------
(* prover.ts *)

\* The names the witness is made of, and the order snarkjs returns the
\* public ones in: that of their declaration in the circuit.
buildWitness ==
  {"secret", "nullifier", "amount", "newSecret", "newNullifier", "pathElements", "pathIndices",
   "root", "nullifierHash", "recipient", "paymentAmount", "changeCommitment"}

packG1 == << <<"x", 32>>, <<"y", 32>> >>
packG2 == << <<"x1", 32>>, <<"x0", 32>>, <<"y1", 32>>, <<"y0", 32>> >>
proveGroth16 ==
  [proofBytes |-> {<<"a", 0, Size(packG1)>>, <<"b", 64, Size(packG2)>>, <<"c", 64 + 128, Size(packG1)>>},
   publicSignals |-> SelectSeq(CircuitInputs, LAMBDA input : input \in PublicInputs)]

-----------------------------------------------------------------------------
(* sdk.ts: the transactions it puts together *)

deposit ==
  buildDepositIx([config |-> findPoolConfigPda, denomination |-> findDenominationPda,
                  tree |-> findMerkleTreePda, vault |-> findVaultPda,
                  depositorAta |-> findAssociatedTokenAddress("depositor", "mint"),
                  depositor |-> <<"depositor">>])

depositGasless ==
  << buildTransferIx(findAssociatedTokenAddress("depositor", "mint"), <<"quote.feeAta">>, <<"depositor">>),
     deposit >>

\* payMicroExact compares two of the signals before it sends; it names no fee vault.
payMicroExact ==
  [nullifierHash |-> proveGroth16.publicSignals[2 + 1],
   recipient |-> proveGroth16.publicSignals[3 + 1],
   ix |-> buildWithdrawIx(proveGroth16.publicSignals,
     [config |-> findPoolConfigPda, denomination |-> findDenominationPda,
      tree |-> findMerkleTreePda, vault |-> findVaultPda, nullifier |-> findNullifierPda,
      recipientAta |-> findAssociatedTokenAddress("recipient", "mint"),
      feeVault |-> <<"none">>, feePayer |-> <<"fee_payer">>])]

-----------------------------------------------------------------------------
(* escrow.ts *)

findJobPda(client) == <<"job", client, "nonce">>
findEscrowVaultPda(client) == <<"escrow", client, "nonce">>

buildCreateJobIx(agent, client, clientAta, mint) ==
  Ix(Data(56, {<<"global:create_job", 0, 8>>, <<agent, 8, 32>>, <<"nonce", 40, 8>>, <<"price_micro", 48, 8>>}),
     << <<findJobPda(client), W>>, <<findEscrowVaultPda(client), W>>, <<clientAta, W>>, <<<<client>>, WS>>,
        <<<<mint>>, R>>, TokenProgram, SystemProgram, <<<<"rent">>, R>> >>)
buildAcceptJobIx(job, agent) == Ix(DiscOnly("global:accept_job"), << <<job, W>>, <<<<agent>>, S>> >>)
buildCompleteJobIx(job, agent) == Ix(DiscOnly("global:complete_job"), << <<job, W>>, <<<<agent>>, S>> >>)
buildReleasePaymentIx(job, escrowVault, agentAta, client) ==
  Ix(DiscOnly("global:release_payment"),
     << <<job, W>>, <<escrowVault, W>>, <<agentAta, W>>, <<<<client>>, S>>, TokenProgram >>)
buildDisputeJobIx(job, client) == Ix(DiscOnly("global:dispute_job"), << <<job, W>>, <<<<client>>, S>> >>)
buildCancelJobIx(job, escrowVault, clientAta, client) ==
  Ix(DiscOnly("global:cancel_job"),
     << <<job, W>>, <<escrowVault, W>>, <<clientAta, W>>, <<<<client>>, S>>, TokenProgram >>)
buildResolveDisputeIx(job, escrowVault, clientAta, caller) ==
  Ix(DiscOnly("global:resolve_dispute"),
     << <<job, W>>, <<escrowVault, W>>, <<clientAta, W>>, <<<<caller>>, S>>, TokenProgram >>)
buildCloseJobIx(job, claimant) == Ix(DiscOnly("global:close_job"), << <<job, W>>, <<<<claimant>>, WS>> >>)

-----------------------------------------------------------------------------
(* msg.ts *)

findMsgPda(from) == <<"msg", from, "to", "nonce">>

buildSendMsgIx(sender, bytes) ==
  Ix(Running(<< <<"global:send", 8>>, <<"to", 32>>, <<"nonce", 8>>, <<"body length", 4>>, <<"body", bytes>> >>),
     << <<findMsgPda(sender), W>>, <<<<sender>>, WS>>, SystemProgram >>)
buildDeleteMsgIx(msg, recipient) == Ix(DiscOnly("global:delete"), << <<msg, W>>, <<<<recipient>>, S>> >>)
buildCloseMsgIx(msg, recipient) == Ix(DiscOnly("global:close"), << <<msg, W>>, <<<<recipient>>, WS>> >>)

-----------------------------------------------------------------------------
(* Readers.  Each refuses what is shorter than min bytes, then reads.        *)

Reader(min, reads) == [min |-> min, reads |-> reads]

JOB_ACCOUNT_SIZE == 8 + 32 + 32 + 8 + 8 + 8 + 8 + 8 + 8 + 1 + 1 + 1

\* Mutant. The field added last, resolvedAt, is left out: what follows it is
\* read eight bytes early.
parseJobAccount_old ==
  Reader(JOB_ACCOUNT_SIZE,
    {<<"account:Job", 0, 8>>, <<"client", 8, 32>>, <<"agent", 40, 32>>, <<"nonce", 72, 8>>,
     <<"price_micro", 80, 8>>, <<"created_at", 88, 8>>, <<"accepted_at", 96, 8>>,
     <<"completed_at", 104, 8>>, <<"state", 112, 1>>, <<"bump", 113, 1>>, <<"escrow_bump", 114, 1>>})

parseJobAccount ==
  Reader(JOB_ACCOUNT_SIZE,
    {<<"account:Job", 0, 8>>, <<"client", 8, 32>>, <<"agent", 40, 32>>, <<"nonce", 72, 8>>,
     <<"price_micro", 80, 8>>, <<"created_at", 88, 8>>, <<"accepted_at", 96, 8>>,
     <<"completed_at", 104, 8>>, <<"resolved_at", 112, 8>>, <<"state", 120, 1>>,
     <<"bump", 121, 1>>, <<"escrow_bump", 122, 1>>})

\* The body is cut to body_len bytes of the field.
parseMessageAccount ==
  [reader |-> Reader(1115,
     {<<"account:Message", 0, 8>>, <<"from", 8, 32>>, <<"to", 40, 32>>, <<"nonce", 72, 8>>,
      <<"timestamp", 80, 8>>, <<"body_len", 88, 2>>, <<"body", 91, 1024>>}),
   pda |-> <<"msg", "from", "to", "nonce">>]

decodeDenomination ==
  Reader(8 + 1 + 8 + 8 + 32 + 32 + 1 + 1,
    {<<"denom_id", 8, 1>>, <<"amount_micro_usdc", 9, 8>>, <<"deposit_count", 17, 8>>, <<"vault", 25, 32>>})

\* The root is 32 bytes of the history, at root_cursor.
decodeMerkleTree ==
  Reader(8 + 1 + 8 + 32 * 20 + 32 * 30 + 1 + 1 + 32 * 20,
    {<<"denom_id", 8, 1>>, <<"next_leaf_index", 9, 8>>, <<"root_history", 17 + 32 * 20, 32 * 30>>,
     <<"root_cursor", 17 + 32 * 20 + 32 * 30, 1>>})

decodeNullifierRecord ==
  Reader(8 + 1 + 32 + 8 + 1, {<<"denom_id", 8, 1>>, <<"nullifier_hash", 9, 32>>, <<"spent_at_slot", 41, 8>>})

parseDepositIx ==
  Reader(8 + 1 + 32, {<<"global:deposit", 0, 8>>, <<"denom_id", 8, 1>>, <<"commitment", 9, 32>>})

parseWithdrawIx ==
  Reader(489, {<<"global:withdraw", 0, 8>>, <<"denom_id", 8, 1>>, <<"changeCommitment", 457, 32>>})

\* The attestor's watcher checks no length.
poll == Reader(0, {<<"denom_id", 8, 1>>, <<"nullifier_hash", 9, 32>>, <<"spent_at_slot", 41, 8>>})

\* An SPL token account.
decodeAtaOwner == Reader(64, {<<"owner", 32, 32>>})
TokenAccount == << <<"mint", 32>>, <<"owner", 32>>, <<"amount", 8>>, <<"rest", 93>> >>

\* The relayer on what it is asked to pay for: the data, and an account by index.
decodeAndValidateWithdraw ==
  [data |-> Reader(9, {<<"global:withdraw", 0, 8>>, <<"denom_id", 8, 1>>}), recipientAta |-> 5]
decodeAndValidateDeposit ==
  [transfer |-> Reader(9, {<<"transfer", 0, 1>>, <<"amount", 1, 8>>}), feeDestination |-> 1,
   deposit |-> Reader(9, {<<"global:deposit", 0, 8>>, <<"denom_id", 8, 1>>}), depositor |-> 5]

\* getProgramAccounts of the pages: accounts of this size with the user's key there.
JobFilters == {[dataSize |-> JOB_ACCOUNT_SIZE, memcmp |-> <<"client", 8, 32>>],
               [dataSize |-> JOB_ACCOUNT_SIZE, memcmp |-> <<"agent", 40, 32>>]}
InboxFilter == [dataSize |-> 1115, memcmp |-> <<"to", 40, 32>>]

\* A sealed note or message of n bytes of plain text: written, and cut up again.
encryptNote(n) == << <<"salt", 16>>, <<"nonce", 12>>, <<"ciphertext+tag", n + 16>> >>
decryptNote(length) ==
  Reader(16 + 12 + 16, {<<"salt", 0, 16>>, <<"nonce", 16, 12>>, <<"ciphertext+tag", 28, length - 28>>})
decryptMsgBody(length) ==
  Reader(16 + 12 + 16, {<<"salt", 0, 16>>, <<"nonce", 16, 12>>, <<"ciphertext+tag", 28, length - 28>>})

-----------------------------------------------------------------------------
(* HTTP: what a client sends and reads, what a route requires and answers    *)

Call(verb, path, sends, reads) == [verb |-> verb, path |-> path, sends |-> sends, reads |-> reads]
Route(verb, path, requires, answers) ==
  [verb |-> verb, path |-> path, requires |-> requires, answers |-> answers]

RelayerClient ==
  [health |-> Call("GET", "/health", {}, {"ok", "feePayer"}),
   quote |->
     Call("GET", "/deposit-quote", {},
          {"feePayer", "feeAta", "feeAmountMicro", "blockhash", "lastValidBlockHeight", "feeBps"}),
   submitDeposit |-> Call("POST", "/submit-deposit", {"tx_base64"}, {"signature"})]

healthRoute == Route("GET", "/health", {}, {"ok", "feePayer"})
depositQuoteRoute ==
  Route("GET", "/deposit-quote", {},
        {"feePayer", "feeAta", "feeAmountMicro", "blockhash", "lastValidBlockHeight", "feeBps"})
submitDepositRoute == Route("POST", "/submit-deposit", {"tx_base64"}, {"signature"})

IndexerClient ==
  [denominations |->
     Call("GET", "/denominations", {},
          {"denomId", "amountMicroUsdc", "depositCount", "vaultAddress", "lastSeenSlot", "currentRoot",
           "leafCount", "updatedAt"}),
   merkleProof |->
     Call("GET", "/merkle-proof", {"denomId", "commitment"},
          {"denomId", "leafIndex", "leafCount", "root", "pathElements", "pathIndices"}),
   nullifierStatus |->
     Call("GET", "/nullifier-status", {"denomId", "nullifierHash"}, {"spent", "spentAtSlot", "spentAt"})]

denominationsRoute ==
  Route("GET", "/denominations", {},
        {"denomId", "amountMicroUsdc", "depositCount", "vaultAddress", "lastSeenSlot", "currentRoot", "leafCount", "updatedAt"})
merkleProofRoute ==
  Route("GET", "/merkle-proof", {"denomId", "commitment"},
        {"denomId", "leafIndex", "leafCount", "root", "pathElements", "pathIndices"})
nullifierStatusRoute ==
  Route("GET", "/nullifier-status", {"denomId", "nullifierHash"}, {"spent", "spentAtSlot", "spentAt"})
=============================================================================
