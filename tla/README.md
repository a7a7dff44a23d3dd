# PolyPay: specification, model checking and proofs

PolyPay is a multisignature wallet whose signers stay private. A signer is a
*commitment* (a hash of a secret), and an approval is a zero-knowledge proof that the
prover knows the secret of a commitment and signed one particular transaction. Proofs
are verified and aggregated by zkVerify; a contract on Horizen or Base checks the
aggregation and executes the transaction. A backend (NestJS, PostgreSQL) deploys wallets,
collects the votes, drives aggregation and submits executions through one relayer
account, and takes paid deposits (x402).

This directory specifies the parts of the system in which money, votes, accounts and
status can go wrong: the contract, the votes, the nonces, the executor with its relayer
and its reconciler, the deployment of accounts, paid deposits, the submission of proofs,
and how a change gets to the list in the browser. Paths below are relative to
`src/packages/`.

## 1. Inventory

State, operations, what is hard, and what makes it correct.

| Component | State | Operations | Hard behaviour, and what is correct |
|---|---|---|---|
| Contract `hardhat/contracts/MetaMultiSigWallet.sol` | `commitments` (array), `signaturesRequired`, `usedNonces`, `usedNullifiers`, balances | `execute`, `addSigners`, `removeSigners`, `updateSignaturesRequired`, `batchTransfer(Multi)`, `receive` | replayed and repeated proofs, signers that change between vote and execution, all-or-nothing calls. Quorum of different current signers; one execution per nonce; never locked out |
| Circuit `nextjs/public/circuit/src/main.nr` | none | prove | nullifier binds signer and transaction |
| Transaction service `backend/src/transaction/transaction.service.ts` | tables `Transaction`, `Vote`, `ReservedNonce` | `createTransaction`, `approve`, `deny`, `checkIfFailed`, `reserveNonce` | waits of up to 150 s between check and write; read-committed queries. One vote per signer; a nonce given out once; FAILED only if hopeless |
| Executor `backend/src/transaction/transaction-executor.service.ts` | `status`, `txHash`, `threshold` of the row; `proofStatus` of votes | `executeOnChain` (aggregate, collect, submit, record), `markExecuted`, revert | concurrent requests, lost answers, failing database, restarts. EXECUTED only what the chain executed; nothing stuck |
| Relayer `backend/src/relayer-wallet/relayer-wallet.service.ts` | one account per chain | `executeTransaction`, `deployAccount` | submission without an answer, receipts that come late |
| Reconciler `backend/src/transaction/transaction-reconciler.scheduler.ts` | none (two snapshots) | cron every two hours: rows with a hash; stale rows without | works on a snapshot while executions go on |
| zkVerify service `backend/src/zkverify/` | verification-key cache file | submit, poll, register key | polling for one status, a file that concurrent calls write and remove. Only a right proof is accepted; the file heals |
| Account service `backend/src/account/` | `Account`, `AccountSigner`, `User` | create, createBatch (one deployment per chain) | partial failure after a deployment, clients that send again, users made meanwhile. Accounts are contracts; a batch is all or nothing |
| x402 `backend/src/x402/` | `X402Deposit` | verify, settle, record | settled but not recorded; checks before the insert; the facilitator's word is taken. Nothing settled twice, no payment without a row, SETTLED as answered |
| Events `backend/src/events/`, `nextjs/services/socket`, `nextjs/hooks` | rooms of sockets; the query cache | join, emit; subscribe, invalidate, fetch | events during a fetch, switches, reconnections. What was heard is shown |
| Auth `backend/src/auth/`, client `nextjs/services/api/apiClient.ts` | access and refresh tokens | login, refresh, logout | several requests that refresh at once |
| Batch items `backend/src/batch-item/` | drafts | create, edit, delete | consumed by `createTransaction` while others copy or delete them |
| Contact book, users, notifications | rows | create, read, update, delete | none that touches execution |
| Price, balance alert, admin, analytics, feature requests, llms.txt, Snag | caches, reports | cron jobs, reads | none that touches execution |
| Quests, rewards, claims, partner reports | rows, transfers | (not imported by `app.module.ts`) | double payment of a claim |
| Shared package, web client | DTOs, encoders; stores and hooks | | wording and layout, and the proof generation |

How they interact: the client reserves a nonce, proves, and calls `createTransaction`
(or `approve`); the transaction service waits for zkVerify to include the proof and inserts
the vote. Any member may call `execute`; the executor marks the row EXECUTING, polls
zkVerify until no vote is pending, reads the aggregated votes, and hands them to the
relayer, which estimates gas (a simulation of the contract), submits, calls back with the hash, and
waits for the receipt. The reconciler reads the rows and the chain. All of them share
the rows `Transaction` and `Vote` and take no lock on them. After its writes a handler
emits an event to the room of the account, and the clients in it load their lists again.
An account comes to be by one deployment per chain through the same relayer, followed by
one database transaction; logins write the same table of users. Paid deposits share
nothing with the rest but the table of accounts.

## 2. Modules

| Module | Models | Extends / instantiates |
|---|---|---|
| `MetaMultiSigWallet` | the contract, its circuit, deposits | |
| `SignerArray` | the loops over the array `commitments` | instantiates `MetaMultiSigWallet` with `commitments <- Range(array)` |
| `TransactionVoting` | rows and votes; `approve`, `deny`, `checkIfFailed` | |
| `TransactionExecution` | executor, relayer, mempool and chain, reconciler, restarts | extends `TransactionVoting`, instantiates `MetaMultiSigWallet` |
| `NonceReservation` | `reserveNonce`, `createTransaction`, batch drafts | |
| `AccountDeployment` | `create`, `createBatch`, `deployAccount`, the client's retry, logins | |
| `X402Deposit` | `processDeposit`, the facilitator, the USDC contract | instantiates `DepositLedger` |
| `DepositLedger` | what `X402Deposit` promises, without requests, restarts and answers | |
| `ZkVerification` | `submitProofAndWaitFinalized`, the key cache, the jobs of zkVerify | |
| `AccountEvents` | emits, rooms, the socket of a client, the list and its cache | |
| `...Proofs` | theorems about the module of that name | each extends its module |
| `MC...` | values of the constants for TLC | each extends its module |

### MetaMultiSigWallet

One EVM transaction is one step. A `require` that fails undoes everything, so all guards
of `execute`, those of the inner call included, are conjuncts of the one action
`Execute`. A hash of a transaction is the pair of its nonce and its call, a proof is
the pair of a commitment and a hash, and a nullifier is that same pair (the circuit
fixes it). `attested` is what the aggregation contract vouches for; anybody may prove
anything he knows the secret for, so outsiders prove too, and `ProofLists` holds lists
with repetitions and with outsiders. `executions` is a history variable: what was executed, by
whose approval, against which signers and which threshold.

`commitments` is a set in this module and an array in the contract. `SignerArray` is the array: a
step is one iteration of a loop on the storage that the running call has changed so far (`working`).

| Code | Actions |
|---|---|
| the call to itself, `require`s on lengths | `Begin`, `EnterLoop` |
| `addSigners`: search, push | `AddOne` |
| `removeSigners`: search, swap with the last, pop | `RemoveOne` (by `SwapPop`) |
| the end of the call | `Return`, or `Revert`, which undoes the iterations before the `require` that failed |

Its properties compare the loops with `MetaMultiSigWallet` (instantiated with `commitments <- Range(array)`): a
call reverts, at whatever iteration, exactly if the set guards are false, and when it returns it
has done what the set operation says.

### TransactionVoting and TransactionExecution

`rows` is the table `Transaction` (status, hash, threshold, and whether `updatedAt` is
older than 30 minutes); `votes` is the table `Vote`, a DENY or an APPROVE with its
`proofStatus`. The row of a transaction also stands for its nonce, which is unique per
account and chain. Handlers are cut at every `await` after which another request can
have changed what they read:

| Code | Actions |
|---|---|
| `approve` | `BeginApprove`, then `RecordApproval` or `ApprovalRejected` |
| `deny`, `checkIfFailed` | `BeginDeny`, `RecordDenial`, `CheckIfFailed`, `MarkFailed` |
| `executeOnChain` | `ReadTransaction`, `MarkExecuting` |
| `aggregateProofs`, `getExecutionData` | `SettleProof`, `AllProofsSettled`, `CollectProofs` |
| `RelayerService.executeTransaction` | `EstimateGas`, `Submit` or `SubmitUnanswered`, `PersistHash`, `GetReceipt` or `ReceiptTimeout` |
| `catch` of `executeOnChain` | `PreSubmissionFails`, `DatabaseFails`, `RevertToPending` |
| `markExecuted` | `MarkExecuted` (and `ReconcileMined`), both by `Recorded` and `RecordingThrows` |
| chain | `Mine`, `MineReverted`, `Deposit` |
| reconciler | `SweepHashed`, `Reconcile`, `SkipReconcile`, `SweepStale`, `ResetStale`, `EndSweep`, `SweepFails` |
| time, restarts | `Grow`, `Crash` |

The look-up of the account by address alone in `handleAddSignerExecution` and
`handleRemoveSignerExecution` is `RecordingThrows`: since accounts are unique per
(address, chainId) the database client refuses that query.

The abstract specification of this composition is the contract's own. `WalletSpec` is
`MetaMultiSigWallet!Spec` under the mapping of `attested` to the aggregated votes
(`ProvedOnChain`): a settled vote is the contract's `Attest`, a mined submission is
`Execute` with the list of its proofs, and everything else stutters. So whatever holds
of the contract holds of a wallet that this service drives (`ServiceKeepsWallet`, section 6).

### NonceReservation

`reserveNonce` is one database transaction of four queries at the read-committed level:
`CleanExpired`, `ReadTransactions`, `ReadReservations`, `CommitReservation`. What it deletes
is gone for others at its commit (`cleaned`), and another delete of the same rows waits
(`Locked`). `createTransaction` is `FindReservation`, before the wait for zkVerify, and
`CommitTransaction` or `CommitFails`, after it. The two steps know the reservation by its nonce and by
its id, as the code does; the model keeps the reservation that the client was given (`own`)
apart from the one that was found (`found`).

`items` are the drafts of the table `BatchItem`. A batch copies its drafts in
`FindReservation`, and its commit deletes them on connections of their own, one delete per draft, so
that a draft which is gone makes the commit fail (`CommitFails`) after other drafts of the batch were
deleted for good. `DeleteItem` is the owner.

### AccountDeployment

A form (`Submissions`) makes one request or, after an error or 30 seconds, a second one with the
same content (`retry: 1` of the query client, `Attempts`). A request deploys on its chains one after another and then
commits everything in one database transaction.

| Code | Actions |
|---|---|
| the client | `Submit`, `Succeed`, `Fail` (send again, or give up), `TimeOut` |
| validation, `deployAccount` | `SendDeployment`, `SendFails`, `GetReceipt`, `ReceiptTimeout`; the chain is `Mine` |
| `createBatch` in the database | `FindUsers`, `CommitAccounts` or `CommitRefused` |
| after the commit | `Announce`, `ReadBackFails` |
| a login | `FindUser`, `CreateUser` |
| restart | `Crash` |

Addresses are those of `CREATE`, numbered by the chain: the same address may be in use on two
chains. The validation of `create` is the guard `Valid`; a signer who is listed twice passes it,
and passes the constructor, and is refused by the unique key of `AccountSigner` at the commit.

### X402Deposit

| Code | Actions |
|---|---|
| `processDeposit` up to the insert | `BeginDeposit`, `CheckAuthorizationState`, `CheckRateLimit`, `CreateDeposit` |
| the facilitator's verify and settle | `Verify`, `Settle`, `SettleAnswered`, `SettleFails` |
| the outcome | `RecordSettled`, `RecordFailed`, `UpdateRefused` |
| the chain | `Transfer`, `Void` (the buyer uses the authorization elsewhere), `Expire` |
| time, restarts | `LeaveWindow` (a row leaves the minute of the rate limit), `Crash` |

The facilitators are not in the repository. One that was asked to settle may transfer
at any time until the authorization expires, whether or not it answered, and what it answers need
not be true: the service takes `success` and a hash for a settlement without a look at the chain. `asked` counts
the requests to settle, `vouched` are the authorizations of which a `success` was answered, and `transfers` those whose
money has moved.

`DepositLedger` is the abstract specification: an authorization is opened (if no other has its nonce and it pays an account), charged,
paid, confirmed, and decided. `LedgerSpec` is its `Spec` under the mapping of the entries to the authorizations of the rows, by
their status (`WithOutcome`), of `confirmed` to `vouched` and of `paid` to `transfers`; checks, verifications, failed calls, refused
updates and restarts are stuttering. Settling takes a confirmation and not the money, as in the code. A failed entry
may still be paid, for a lost answer says nothing about the money.

### ZkVerification

| Code | Actions |
|---|---|
| `loadOrRegisterVk` | `LoadKey`, `RegisterKey`, `RegisterWithoutHash`, `RegisterFails`, `ReadKeyBack` |
| `submitProof` with its retries | `SubmitProof`, `SubmitRefused`, `SubmitUnanswered` |
| `waitForFinalized` | `Poll`, `PollFails` |
| zkVerify | `Advance`: a job goes on, or fails, by itself |
| restart | `Crash` |

`cache` is the file of the verification key: absent, valid, or invalid (written from an
answer without a hash). It survives a restart. `registered` is whether zkVerify knows the key. The steps of a call are three groups:
those that wait for nothing or for a request with a timeout (`OwnStep`), and those that wait for `register-vk`
(`RegistrationEnds`) and for `job-status` (`PollEnds`), whose requests have none.

### AccountEvents

An event carries nothing that is shown; it makes the client ask again. So an account is
a `version`, what a handler still has to emit is `owed`, and a list is the version it was read at. `heard` is what was
committed when the page last heard an event, and `missed` whether one came when the first load of the list had been read
and not answered yet, and nothing was read since; both only serve the properties.

| Code | Actions |
|---|---|
| handlers that commit, then emit | `Commit`, `Emit` |
| `markExecuted`, which emits inside its database transaction | `EmitExecuted`, then `CommitExecuted` or `RollBackExecuted` |
| `useSocketConnection`, `socketManager` | `SwitchAccount`, `Connect`, `LoseConnection` |
| `useSocketEvent`, pages | `OpenPage`, `ClosePage`, `Resubscribe` |
| invalidation and fetch | `Deliver`, `Read`, `Answer`, `FetchFails`, `Age` |

`SwitchAccount` has the order of the effects of React: all clean-ups, then the effects of the inner components (the
list subscribes), then those of the outer one (the socket is connected).

## 3. Runs

All invariants and properties have a mutant: a plausible mistake in one definition
under which TLC finds the property violated. Mutants stand before the definition they
replace and are marked `Mutant:`.

### Properties that hold

* `wallet` (`wallet.cfg`): two signers, an outsider, nonces 0 and 1, a batch, a joining signer, a
  leaving signer, a new threshold, and calls that the `require`s refuse. All of the contract's properties.
* `signer_array`: every list of up to three of five commitments (zero included) with
  thresholds 0 to 3, on every reachable array of up to five; also that no commitment gets into the array twice. It
  checks for deadlock too: whatever the list, a call returns or reverts.
* `exec_race`: one payment, three signers, threshold 2, two `execute` requests, two
  submissions, calls that outlive the stale sweep. EXECUTED implies executed on-chain;
  at most one submission succeeds; who denied is never counted; votes are final; FAILED implies not
  executed; the service drives the contract as its specification allows (`WalletSpec`); who records an execution
  leaves the hash of the submission that succeeded (`RecordedHashMined`).
  The wallet holds twice the amount, so that only the nonce prevents a second payment.
* `exec_recovery`: one request at a time, two payments of which the balance covers one, lost answers, failing queries, one
  restart, under fairness: every row leaves EXECUTING.
* `nonce_pair`: concurrent reservations that are alive have different nonces, creation consumes the
  reservation that it found, and no draft is paid by two transactions.
* `account`: a batch on two chains, a single account, and orders that are refused by the validation, by the
  contract and by the database, with one fault and a login at the same time. Accounts of the database exist, can reach their
  thresholds, and are recorded for all chains of a batch or for none; without faults an order is recorded once and, if
  only one of its signers is new, in the end.
* `x402`: two requests, with one authorization or with two, over one restart or refused update, with a facilitator whose answers
  may be lost or wrong. The overlap cannot be seen in the table or in the money: both keep the ledger (`LedgerSpec`). What the
  facilitator answered is what the row says, unless a fault came between (`SettledAsReported`). A row is decided, if the
  facilitator ends every call (`FacilitatorAnswers`), unless the backend stopped or the database refused the update.
* `zk`: three calls, one with a right proof and one without the key, two faults. Who is
  accepted has a right proof in a block; a valid hash stays; an invalid one goes; every call is answered, if zkVerify
  ends every request (`ZkVerifyAnswers`).
* `events`: a user with two accounts, of which one changes twice, and one fault. What was committed when an event is heard is in the
  list that results, except where the event came between the reading for the first load and its answer (`missed`).

### Statements of the repository that the code does not meet

Each of these runs checks one property and TLC finds a violation. `PROJECT.json` quotes
the line.

* `exec_signers`: an executed `ADD_SIGNER` or `REMOVE_SIGNER` stays EXECUTING for ever (`RecordingThrows`).
* `exec_final`: of two requests the slower one overwrites EXECUTED with EXECUTING and then PENDING.
* `events_switch`: after the account is switched while the list is shown, the list is subscribed to
  nothing: events arrive and do not make it load (`ArrivalsReloadTheList`), until the page is left.

The first two move no money twice: `OneSubmissionSucceeds` and `WalletSpec` hold
throughout, because the contract decides. What is wrong is the backend's account of it.

### Observed while modelling

What the models can do although a reader of the code might not expect it, and which no
property of a run denies:

* A failing request erases the hash that another request has stored, and of two requests that
  both submit, the last to store its hash wins, which may be the one that reverts. An EXECUTED row may then show
  the hash of a failed attempt.
* The same needs no two requests. With four submissions one caller suffices, who begins again after each
  time-out: a sweep still works on the hash of the first submission, which reverted, when the second request
  executes the row; it resets the row to PENDING under that request, which then stores its hash in a PENDING row
  and times out. A third request begins on that row, the sweep records the second submission as the success it was, and
  the third request puts its own hash over it. `RecordedHashMined` allows this last step and no other;
  `RequestsApart` (section 6) names what has to be excluded.
* A row whose write of the hash failed is taken for a pre-submission failure by the stale sweep although it was submitted.
* The two reads of `reserveNonce` may straddle the commit of `createTransaction`; the nonce of a
  transaction is then given out again, and the insert of the second transaction fails. An
  expired reservation passes on somebody else's reservation of the same nonce, which `own` and `found` keep apart.
* When the threshold is raised after a submission whose answer was lost, `checkIfFailed`
  compares with the new one and may give up what the wallet has executed. `FailedNotExecuted` is stated for a fixed threshold.
* The reconciler alone can violate `ExecutedIsFinal` too: with two payments and a deposit between two of its iterations it
  resets a row that was executed after its snapshot.
* `processDeposit` looks the account up by its address alone (`x402.service.ts:266-275`). The comment there says that the
  look-up is scoped to Base chains; it is not. If the address is in use on Horizen as well, the Horizen account may be the one that is
  found, and a deposit to the Base account is refused. No money moves.
* A facilitator that answers `success` for a settlement that did not happen gets its row SETTLED (`x402.service.ts:624-633` and
  `742-750`): the answer is not compared with the chain. `SettledMeansPaid` has its truth as a hypothesis.
* The calls to the facilitator (`x402.service.ts:590`, `609`, `698`, `729`) and two of those to zkVerify
  (`zkverify.service.ts:227` and `281`, unlike `184` and `212`) are given no timeout. One that is never answered leaves the
  deposit PENDING, or the login, creation or approval waiting, without any fault; the two liveness properties
  have the end of these calls as a hypothesis.
* A deposit may be paid and say PENDING (a restart, a refused update, or silence after the transfer) or FAILED (a lost answer). No
  code looks for either.
* An event that arrives when the first load of the list has been read by the server and has not been answered yet is lost: the query library
  does not cancel a request that has no data to fall back on, and its answer makes the query valid. The list shows the old
  version until the next event or, after `staleTime`, the next mount. Without `missed`, TLC finds this against `HeardIsShown` and `HeardIsShownEventually`.
* An EXECUTED event is emitted inside the database transaction (`transaction-executor.service.ts:275`): a client that loads before the
  commit shows the old status until the next event or mount, and one that hears of a roll-back has loaded for nothing.
* A right proof whose job is already Aggregated at every poll after its inclusion is rejected (`zkverify.service.ts:233`).
* A client that gave up after 30 seconds and sends its creation again gets two accounts if both attempts succeed;
  `RecordedOnce` is stated for runs without a fault. Contracts of a batch that failed half-way stay without rows.

## 4. Bounds

* `Signers` has three members with threshold 2 in `exec_race`: the smallest account in which a quorum can be reached
  in different ways, one denial does not decide and two do. `exec_recovery`
  uses one signer, since the votes play no part in it.
* Two requests race, as more would only repeat the same pairs of steps. Two hashes give
  every request a submission. The theorems have no such bounds.
* `MaxCrashes` bounds restarts and aborted sweeps, and `MaxFaults` restarts, lost answers and failing
  queries. They are finite in the fair runs by necessity: a backend that restarts for ever finishes nothing. `MaxFaults` is 1 in
  `x402`, `account` and `events` and 2 in `zk`, where a lost answer and a registration without a hash are to happen in one behaviour.
* `MaxBalance` bounds deposits of money; `MaxReservations` (4) lets a nonce be reserved, expire, be
  reserved again and be used, with one reservation by the other client in between.
* `RateLimit` is 1 with two requests, so that they pass it together. `MaxPolls` (3) and `MaxRetries` (2) stand for the
  limits of the code, which are larger: one poll that sees a status, one that misses it, and the last one.
* Two accounts of a user suffice for a switch there and back; `MaxVersion` 2 lets an event arrive during the fetch for the one before.
* Symmetry is used in safety runs only, over signers other than the creator, hashes, callers, clients and drafts.
* `CHECK_DEADLOCK FALSE` wherever the system may stop: all nonces are used, all transactions decided, all forms and
  requests answered, or all reservations of the bound made. `signer_array` checks for deadlock.

## 5. Fairness

`TransactionExecution!FairSpec` assumes weak fairness of every request's next step (Node resumes a settled
`await`, and every wait has a timeout), of the chain (what is in the mempool is mined), of
the sweep (the cron job fires), of the passing of time (`Grow`), and strong fairness of
`Reconcile`: a sweep that asks for a receipt that exists, again and again, once gets it.
Nothing is assumed of people: nobody has to vote or to ask for an execution. A transaction that the mempool
drops is outside these assumptions; its row would stay EXECUTING.

* `X402Deposit`, `ZkVerification`: weak fairness of the steps by which a request goes on by itself (`OwnStep`), which wait for nothing, for
  the database, or for a request with a timeout. Nothing is assumed of the facilitator's calls, of the
  other requests to zkVerify, of its jobs or of the chain. That those calls end is the hypothesis `FacilitatorAnswers` of `EveryDepositDecided`,
  and `ZkVerifyAnswers` of `EveryCallAnswered`, each weak fairness of all outcomes of a call together; `FileHeals` needs neither.
* `AccountDeployment`: the steps of every request, mining, and with the client's reaction to an answer. The timer of the client is not fair.
* `AccountEvents`: what was committed is emitted, what was sent arrives or its connection is lost, and a request is answered.
  `Connect` is not fair, since socket.io gives up after five attempts, and no user has to open a page.
* `MetaMultiSigWallet`, `SignerArray` and `NonceReservation` promise nothing that must happen.

## 6. Proofs

Eight modules of theorems, checked by TLAPS, for all values of the constants that
satisfy the named assumptions of the modules: any number of signers, transactions,
concurrent requests, chains, authorizations, restarts and faults.

### MetaMultiSigWalletProofs

| Theorem | Argument |
|---|---|
| `TypeCorrect` | inductive as it stands. A balance stays a natural number because `CanPay` compares the whole batch with it |
| `WalletNeverLockedOut` | `TypeOK /\ NeverLockedOut` is inductive. The `require`s compare *lengths of lists* where the invariant is about the *cardinality of sets*: `AddedCardinality` and `RemovedCardinality` bridge this by `InjectiveSeqCardinality` (a list without repetitions has as many elements as its length) |
| `ExecutionsAreQuorumApproved` | `AcceptedProofsAreDistinct`: proofs with different nullifiers for one transaction come from different signers, so the length that `execute` compares with the threshold is a number of people |
| `NoncesExecuteOnce` | inductive as it stands |
| `NullifiersAreThoseOfExecutions` | from the type invariant, inductive |
| `QuorumChangesWallet` | an action property: every other action leaves signers, threshold and balances alone or adds to them |

Assumptions: `CommitmentsAssumption` (finitely many commitments), `InputsAssumption`
(types of the inputs) and `DeploymentAssumption` (the `require`s of the constructor, and
initial signers that are different, which the unique key of `AccountSigner` provides and
the constructor does not check).

### SignerArrayProofs

The invariant (`Inv`: `TypeOK` and `LoopInv`) says what a call has done after any number of iterations. With `Done` for the
part of the list that is behind it: these commitments are different (`DoneDiffer`), and `working` holds the
signers of `array` and them (`Added`), or without them (`Removed`), each once. `PushAdds` and `SwapPopRemoves` are
the facts about the array that one iteration needs; the last element as the one to be removed is a
case of the second.

| Theorem | Argument |
|---|---|
| `ArrayIsASet` | `TypeOK` is inductive together with `LoopInv`; that the threshold stays below the length needs that every iteration changes the length by one |
| `LoopsRefuseAsSets` | `FailureIsRefusal`: a `require` that fails names a commitment because of which the set guard is false. `FinishedIsDone`: a loop that came through has met none |
| `LoopsImplementSets` | an action property, `ReturnComputesSets` |

Assumptions: `CallsAssumption`, and `InitialArrayAssumption` (the constructor's `require`s and different initial signers).

### TransactionExecutionProofs

The inductive invariant is `Inv`. None of its parts is inductive without others:

* `CallsHoldSubmissions`: a request that has a hash holds it of a submission of its own
  transaction, and one that records a success holds one that succeeded.
* `SubmissionsUseNonces`: a submission that succeeded has used up its nonce; nonces stay used (`ExecutedOnChain`, `OneSubmissionSucceeds`).
* `HashesAreOwn`: the hash of a row, in the table or in the snapshot of a sweep, is that of a submission of that row.
  This is why a sweep that works on old data still records only the truth.
* `ProofsAreVotes`: the proofs of a request, of a submission and of an execution are aggregated votes, which no step takes back (`VotesKept`).

| Theorem | Argument |
|---|---|
| `TypeCorrect`, `ExecutedIsOnChain`, `OneSuccess` | parts of `Inv` |
| `DeniersAreNotCounted` | from `ProofsAreVotes`: a vote is either aggregated or a denial |
| `VotesAreFinal` | an action property, `VotesKept` |
| `GivenUpIsNotExecuted` | a second invariant, `Voting`: who gives up has counted more denials than the threshold leaves room for, who sends has a quorum of approvals, and the two exclude each other. It needs the hypothesis `NoThresholdUpdates` (no transaction of the account changes the threshold); section 3 says what happens without |
| `ServiceImplementsWallet` | refinement: `AttestStep` (a settled proof is `Attest`), `MineIsExecute` (a mined submission is `Execute` with `SetToSeq` of its proofs, a list without repetitions by `SetToSeqLists`), everything else stutters |
| `ServiceKeepsWallet`, `ServiceChangesWalletByQuorum` | the theorems of `MetaMultiSigWalletProofs`, instantiated for the wallet of the service (`WalletFacts`). `WalletDeployed` proves that the service meets their assumptions, `SameWallet` that both instances are one wallet, and the refinement does the rest |
| `EveryExecutionWasVoted` | from `QuorumApproved` of the contract and `ProofsAreVotes` of the service: what the wallet counted as proofs of a quorum are votes in the database |
| `RecordedHashesAreMined` | an action property. `HashSources` lists every way in which a step can change the hash of a row; a recording knows its hash from a request that waits for it or from a sweep, and both know submissions of this row that succeeded |
| `ShownHashesAreOwn` | from `HashSources` and `HashesAreOwn` |
| `ShownHashesAreMined` | under the hypothesis `RequestsApart`: no two requests work on one transaction, and none begins on a row of which a hash is known, to the row or to the sweep. Then nobody knows a hash before the request has stored it (`RequestsAreFirst`), so nobody overwrites that of a success. The code checks neither part; section 3 says what happens without |

The assumptions are the named ones of the modules; `WalletAssumption` is what the constructor of the wallet requires.

### NonceReservationProofs

`Numbered` (ids, and with them nonces, stay below `nextId`), `Indexed` (ids and nonces are unique in the table), `Remembered`
(what a request knows of a reservation is what the table holds under that id, or the reservation is gone) and `OwnDiffers` (no
reservation was given to two clients) make `LiveReservationsDiffer` inductive. `DraftsAreProposedOnce` and `CreationIsReserved` follow from the deletes
inside the creating transaction.

### X402DepositProofs

`Custody` (rows are unique by nonce, a request past its insert owns its row alone, and nothing was asked or paid for without a
row), `Begun` (a request works on an authorization to an account that it found), `Reported` (a SETTLED row, and a request that has the answer,
have the word of the facilitator), `Recorded` (an answer is in the table or with its request, unless there was a fault)
and `Bounded` (counted requests and recent rows together against the limit). The theorems:
`OneSettlement`, `EveryPaymentHasItsRow`, `OutcomesAreReported`, `DecisionsAreFinal`, `RateLimitOvershoot`, and the refinement `DepositsKeepLedger`:
`CreateOpens` (the unique key makes an insert the first of its nonce, whatever the checks before it saw), `RecordOutcome` (an
update moves one entry from pending to its outcome, because the request owns that row alone) and `LedgerStep`, which takes from `Custody` that
a settlement is asked for once and only of a pending entry, and from `Reported` that a settled one is confirmed.

None of these assumes that the facilitator tells the truth. `SettledMeansPaid` does: with the hypothesis `FacilitatorIsTruthful`
(`vouched \subseteq transfers`) a SETTLED row has its transfer. The service adds no wrong SETTLED of its own, and cannot detect one.

### ZkVerificationProofs

`OwnJob` (a call polls a job of its own, and that proof is right), `AcceptedStays` (a block is not undone), `HashIsRegistered` (a valid file
names a key that zkVerify knows) and `PollsLeft` (the loops keep to their limits). The theorems: `AcceptanceIsEarned`, `KeysAreRegistered`, `HashIsKept`.

### AccountEventsProofs

`SocketOfShown` (a socket asks for and is in the room of the account shown) and `Current` (what a fetch has read is neither older
than the list nor than what was heard, where the list did not miss an event). The theorems: `RoomFollowsAccount`, `HeardEventsAreShown`, `ListIsMonotone`.

### AccountDeploymentProofs

`Known` and `Working` (a request that is worked on passed the checks, and the steps behind it are mined contracts of its own), `Distinct`
(an address names one contract of its chain), `Whole` (a request has recorded nothing, or the contracts of all chains of its order) and `Retried` (without faults a second attempt begins
only after the first has failed without recording). The theorems: `RecordedAccountsExist`, `RecordedQuorums`,
`AnnouncementsAreTrue`, `BatchesAreWhole`, `RetriesRecordOnce`.

### What is proved and what is only checked

The type invariants of `NonceReservation`, `X402Deposit`, `ZkVerification`, `AccountEvents` and `AccountDeployment`, and
`KeyIsRegistered`, `AnnouncedIsRecorded` and `DecidedIsFinal`, are proved and not repeated in a run; neither are the theorems about the composition of
service and contract. Every invariant, action property and refinement that a passing run checks is the statement of a theorem. Only model-checked is
liveness (`NeverStuckExecuting`, `EveryDepositDecided`, `EveryOrderFulfilled`, `FileHeals`, `EveryCallAnswered`,
`HeardIsShownEventually`), which is out of the prover's reach.

Three theorems have a hypothesis on the behaviours: `GivenUpIsNotExecuted` (`NoThresholdUpdates`), `ShownHashesAreMined`
(`RequestsApart`) and `SettledMeansPaid` (`FacilitatorIsTruthful`). In each case the conclusion is false without it, and section 3
describes how.

## 7. Not modelled

* ERC20 tokens that misbehave and reentrancy through a recipient; the ordering of the relayer's own nonces, and
  replacement or loss of transactions in the mempool.
* A second chain with an account of the same address in the executor: the threshold update and the removal of votes select by
  address alone. A row that is EXECUTING while another transaction changes the threshold keeps the old one; the contract compares
  with the new one in any case.
* The signers of an account in the database after its creation are constant: only signer changes would alter them, and those
  are never recorded (`exec_signers`).
* Tokens: they are signed and not stored, so a refresh depends on nothing that happened before. What several requests of one
  page do when each of them refreshes (`apiClient.ts`) is not modelled.
* Rooms of persons and the notifications sent to them; events missed while disconnected, for which nothing asks later.
* Drafts lost when a creation is rolled back and contracts orphaned by a batch that fails are states of the models; no property
  denies them, since the code accepts them.
* Validation of DTOs, which is declarative; formatting, logging and analytics; the web pages, forms, generated contract tables and
  text served by `llms-txt`; users, contacts, notifications, prices, alerts and reports, which are single rows, caches in front of
  an API or queries. Quests, rewards and claims are not imported by `app.module.ts`.

Measured in lines, most of the repository is of this last kind: pages and their components are by far its largest part, and
lists of constants and generated files much of the rest. The map covers the code in which state is changed by several actors, which is
a small share of the lines. Components without a module are listed in section 1 and, with the reason, in `PROJECT.json`.

## 8. Plan

Done: the contract and its array; votes, execution and recovery; nonces and drafts; deployment of accounts; paid deposits; zkVerify;
events; the safety properties of each of them as theorems; the composition of service and contract, and the ledger of paid deposits. What remains, in the order of its worth:

1. The session of the client: concurrent refreshes in `apiClient.ts`, `useAuth.ts` and `useIdentityStore.ts`, with log-outs between
   request and answer.
2. Two chains with one address in `TransactionExecution`, for the updates that select by address, and threshold changes across rows.
3. `ZkVerification` as the refinement of `RecordApproval` and `ApprovalRejected`.
4. Claims, if they are ever switched on.

## 9. How to run

    tlc -workers 2 -config wallet.cfg MCMetaMultiSigWallet
    tlc -workers 2 -config signer_array.cfg MCSignerArray
    tlc -workers 2 -config nonce_pair.cfg MCNonceReservation
    tlc -workers 2 -config exec_race.cfg MCTransactionExecution        # also exec_recovery, exec_signers, exec_final
    tlc -workers 2 -config account.cfg MCAccountDeployment
    tlc -workers 2 -config x402.cfg MCX402Deposit
    tlc -workers 2 -config zk.cfg MCZkVerification
    tlc -workers 2 -config events.cfg MCAccountEvents                  # also events_switch
    tlapm TransactionExecutionProofs.tla                               # and the other ...Proofs modules

The longest passing run (`x402`) takes a little more than two minutes, most take under one, each module of proofs a minute or two, and `TransactionExecutionProofs` four.
