------------------------------- MODULE Interop -------------------------------
(***************************************************************************)
(* The programs and their off-chain twins: what the TypeScript writes is    *)
(* what the programs read, what it reads is what they write, and the tree   *)
(* it rebuilds from the leaves is theirs (MerkleTree).                      *)
(*                                                                          *)
(* Each side is compiled, tested and shipped apart; nothing generates one   *)
(* from the other.                                                          *)
(***************************************************************************)
EXTENDS MerkleTree, ClientCodecs, TLC

VARIABLE exchange   \* what one side is writing for the other: a name below, or "none"

-----------------------------------------------------------------------------
(* Instructions: the SDK writes one, a program runs it *)

Sent(ix, data, accounts) == [ix |-> ix, data |-> data, accounts |-> accounts]
Only(disc) == << <<disc, 8>> >>

Job == findJobPda("client")
Vault == findEscrowVaultPda("client")
AtaOf(owner) == findAssociatedTokenAddress(owner, "mint")

Instructions ==
  [deposit |-> Sent(deposit, deposit_data, DepositAccounts),
   withdraw |-> Sent(payMicroExact.ix, withdraw_data, WithdrawAccounts(FALSE)),
   set_fee_vault |-> Sent(buildSetFeeVaultIx(PoolSeeds.config, <<"admin">>, <<"fee_vault">>),
                          Only("global:set_fee_vault"), SetFeeVaultAccounts),
   create_job |-> Sent(buildCreateJobIx("agent", "client", AtaOf("client"), "mint"),
                       create_job_data, CreateJob),
   accept_job |-> Sent(buildAcceptJobIx(Job, "agent"), Only("global:accept_job"), AcceptJob),
   complete_job |-> Sent(buildCompleteJobIx(Job, "agent"), Only("global:complete_job"), CompleteJob),
   release_payment |-> Sent(buildReleasePaymentIx(Job, Vault, AtaOf("agent"), "client"),
                            Only("global:release_payment"), ReleasePayment),
   dispute_job |-> Sent(buildDisputeJobIx(Job, "client"), Only("global:dispute_job"), DisputeJob),
   cancel_job |-> Sent(buildCancelJobIx(Job, Vault, AtaOf("client"), "client"),
                       Only("global:cancel_job"), CancelJob),
   resolve_dispute |-> Sent(buildResolveDisputeIx(Job, Vault, AtaOf("client"), "caller"),
                            Only("global:resolve_dispute"), ResolveDispute),
   close_job |-> Sent(buildCloseJobIx(Job, "claimant"), Only("global:close_job"), CloseJob),
   send_nothing |-> Sent(buildSendMsgIx("sender", 0), send_data(0), SendAccounts),
   send_most |-> Sent(buildSendMsgIx("sender", 1024), send_data(1024), SendAccounts),
   delete |-> Sent(buildDeleteMsgIx(findMsgPda("from"), "recipient"), Only("global:delete"), DeleteAccounts),
   close |-> Sent(buildCloseMsgIx(findMsgPda("from"), "recipient"), Only("global:close"), CloseAccounts)]

\* An instruction is the one the program expects: its data byte by byte, its
\* accounts in order, each with the privileges the program asks for, and no
\* signer more than the program names.
Matches(sent) ==
  /\ sent.ix.data = Running(sent.data)
  /\ Len(sent.ix.keys) = Len(sent.accounts)
  /\ \A i \in 1 .. Len(sent.accounts) :
       LET key == sent.ix.keys[i]  account == sent.accounts[i]
       IN /\ key[1] = account[1] /\ account[2] \subseteq key[2]
          /\ "signer" \in key[2] => "signer" \in account[2]

-----------------------------------------------------------------------------
(* Records: a program or the SDK writes one, somebody off chain reads it *)

Record(data, reader) == [data |-> data, reader |-> reader]
Box(n) == encryptNote(n)

Records ==
  [job |-> Record(Running(JobAccount), parseJobAccount),
   message |-> Record(Running(MessageAccount), parseMessageAccount.reader),
   denomination |-> Record(Running(Denomination), decodeDenomination),
   merkle_tree |-> Record(Running(MerkleTreeAccount), decodeMerkleTree),
   nullifier |-> Record(Running(NullifierRecord), decodeNullifierRecord),
   nullifier_abroad |-> Record(Running(NullifierRecord), poll),
   token_account |-> Record(Running(TokenAccount), decodeAtaOwner),
   indexed_deposit |-> Record(deposit.data, parseDepositIx),
   indexed_withdraw |-> Record(payMicroExact.ix.data, parseWithdrawIx),
   relayed_withdraw |-> Record(payMicroExact.ix.data, decodeAndValidateWithdraw.data),
   relayed_transfer |-> Record(depositGasless[1].data, decodeAndValidateDeposit.transfer),
   relayed_deposit |-> Record(depositGasless[2].data, decodeAndValidateDeposit.deposit),
   empty_note |-> Record(Running(Box(0)), decryptNote(Size(Box(0)))),
   longest_text |-> Record(Running(Box(661)), decryptMsgBody(Size(Box(661))))]

\* A reader takes every record of that layout and reads whole fields of it.
Reads(record) ==
  record.reader.min <= record.data.length /\ record.reader.reads \subseteq record.data.sets

\* The accounts a reader finds by their place, and the filters that find records.
PlacesAreRight ==
  /\ payMicroExact.ix.keys[decodeAndValidateWithdraw.recipientAta + 1][1] = Ata("recipient")
  /\ depositGasless[1].keys[decodeAndValidateDeposit.feeDestination + 1][1] = <<"quote.feeAta">>
  /\ depositGasless[2].keys[decodeAndValidateDeposit.depositor + 1][1] = <<"depositor">>
  /\ parseMessageAccount.pda = MsgSeeds("from")
FiltersFind(filter, layout) == filter.dataSize = Size(layout) /\ filter.memcmp \in Slices(layout)

-----------------------------------------------------------------------------
(* HTTP calls: a client of the SDK makes one, a route answers it *)

Calls == RelayerClient @@ IndexerClient
Routes == [health |-> healthRoute, quote |-> depositQuoteRoute,
           submitDeposit |-> submitDepositRoute, denominations |-> denominationsRoute,
           merkleProof |-> merkleProofRoute, nullifierStatus |-> nullifierStatusRoute]

Served(call, route) ==
  /\ route.verb = call.verb /\ route.path = call.path
  /\ route.requires \subseteq call.sends /\ call.reads \subseteq route.answers

-----------------------------------------------------------------------------
Exchanges == DOMAIN Instructions \cup DOMAIN Records \cup DOMAIN Calls

\* The tree grows, or something is written beside an empty one.
InteropInit == Init /\ exchange = "none"
InteropNext ==
  \/ exchange = "none" /\ Next /\ UNCHANGED exchange
  \/ exchange = "none" /\ Init /\ exchange' \in Exchanges /\ UNCHANGED vars
InteropSpec == InteropInit /\ [][InteropNext]_<<vars, exchange>>

-----------------------------------------------------------------------------
(* Properties *)

\* Every instruction the SDK builds is the instruction its program runs:
\* discriminator, arguments, derived addresses, account order and privileges
\* (program.ts, escrow.ts, msg.ts, sdk.ts against the programs' contexts),
\* with the prover's signals in the order the program gives the verifier.
InstructionsMatchPrograms ==
  /\ exchange \in DOMAIN Instructions => Matches(Instructions[exchange])
  /\ exchange = "withdraw" =>
       /\ payMicroExact.nullifierHash = "nullifierHash" /\ payMicroExact.recipient = "recipient"
       /\ buildWitness = {CircuitInputs[i] : i \in 1 .. Len(CircuitInputs)}
       /\ proveGroth16.proofBytes = Slices(verify)

\* Everything off chain reads what was written for it: the parsers and
\* filters the programs' accounts, the relayer and the poller the SDK's
\* instructions, a note or a message its own sealing, and each client call
\* finds its route and its answer (escrow.ts:262, msg.ts:203, decode.ts,
\* tx-validation.ts, relayer-client.ts, indexer-client.ts).
ReadersReadWhatIsWritten ==
  /\ exchange \in DOMAIN Records => Reads(Records[exchange]) /\ PlacesAreRight
  /\ exchange = "job" => \A filter \in JobFilters : FiltersFind(filter, JobAccount)
  /\ exchange = "message" => FiltersFind(InboxFilter, MessageAccount)
  /\ exchange \in DOMAIN Calls => Served(Calls[exchange], Routes[exchange])
=============================================================================
