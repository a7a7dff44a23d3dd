------------------------- MODULE TransactionExecution -------------------------
(***************************************************************************)
(* How a voted transaction gets to the chain and back into the database:   *)
(*   backend/src/transaction/transaction-executor.service.ts    (callers)  *)
(*   backend/src/relayer-wallet/relayer-wallet.service.ts       (relayer)  *)
(*   backend/src/transaction/transaction-reconciler.scheduler.ts (sweep)   *)
(* composed with the votes (TransactionVoting) and with the contract       *)
(* (MetaMultiSigWallet), on which a submission ends up mined or reverted.  *)
(*                                                                         *)
(* Every `execute` request is a caller.  Nothing in the backend keeps two  *)
(* of them from working on one transaction, and each is cut at the awaits  *)
(* after which the row may have changed.                                   *)
(***************************************************************************)
EXTENDS TransactionVoting, SequencesExt

CONSTANTS
    Callers,            \* concurrent executeOnChain calls
    CallOf,             \* TxIds -> what buildExecuteParams makes of the row
    SlowCalls,          \* may a call outlive the 30 minutes of the stale sweep?
    MaxCrashes,         \* bound: restarts, and sweeps that the database aborts
    NoTx,               \* an idle caller's transaction
    Commitments, ZeroCommitment, Tokens, InitialCommitments, InitialRequired,
    InitialBalances, DepositAmounts, MaxBalance     \* see MetaMultiSigWallet

VARIABLES
    calls,          \* Callers -> [pc, txId, threshold, proofs, hash]
    submissions,    \* Hashes -> [state, txId, proofs]: the relayer's transactions
    sweep,          \* the reconciler: [pc, hashed, stale], rows of its queries
    crashes,
    commitments, signaturesRequired, usedNonces, usedNullifiers, balances, executions

walletVars == <<commitments, signaturesRequired, usedNonces, usedNullifiers, balances,
                executions>>
serviceVars == <<calls, submissions, sweep, crashes>>
vars == <<votingVars, serviceVars, walletVars>>

\* Two calls have the same nonce only if they are the same row
\* (@@unique([accountAddress, chainId, nonce])), so the row stands for its nonce.
Statement(s, t) == <<s, <<t, CallOf[t]>>>>
ProvedOnChain == UNION {{Statement(s, t) : s \in Aggregated(t)} : t \in TxIds}

Wallet == INSTANCE MetaMultiSigWallet WITH
    Nonces <- TxIds,
    Calls <- Range(CallOf),
    Statements <- {Statement(s, t) : s \in Signers, t \in TxIds},
    ProofLists <- UNION {[1..n -> Signers] : n \in 0..Cardinality(Signers)},
    attested <- ProvedOnChain

\* Every row is a call that the wallet can decode, and every signer of the
\* database is a commitment.
ASSUME CallsAssumption ==
    /\ CallOf \in [TxIds -> Wallet!Call]
    /\ Signers \subseteq Commitments
    /\ NoTx \notin TxIds
    /\ MaxCrashes \in Nat

\* What the wallet was deployed with: the `require`s of its constructor.
ASSUME WalletAssumption ==
    /\ IsFiniteSet(Commitments)
    /\ InitialCommitments \subseteq Commitments
    /\ ZeroCommitment \notin InitialCommitments
    /\ InitialRequired \in 1..Cardinality(InitialCommitments)
    /\ InitialBalances \in [Tokens -> Nat]
    /\ DepositAmounts \subseteq Nat

CallSteps == {"idle", "read", "aggregating", "finalising", "estimating", "sending",
              "persisting", "waiting", "recording", "reverting"}
Call == [pc : CallSteps, txId : TxIds \union {NoTx}, threshold : Nat,
         proofs : SUBSET Signers, hash : Hashes \union {NoHash}]
Idle == [pc |-> "idle", txId |-> NoTx, threshold |-> 0, proofs |-> {}, hash |-> NoHash]

Submission == [state : {"unused", "mempool", "success", "reverted"},
               txId : TxIds \union {NoTx}, proofs : SUBSET Signers]
Unused == [state |-> "unused", txId |-> NoTx, proofs |-> {}]

At(c, pc) == calls[c].pc = pc
Goto(c, pc) == calls' = [calls EXCEPT ![c].pc = pc]
Return(c) == calls' = [calls EXCEPT ![c] = Idle]

\* The state of the voting handlers other than the rows and the votes.
requestVars == <<approving, denying>>
restVars == <<requestVars, walletVars, sweep, crashes>>

-----------------------------------------------------------------------------
(* executeOnChain: taking the transaction.                                 *)

\* findUnique, and the check that the row is PENDING.
ReadTransaction(c, t) ==
    /\ At(c, "idle")
    /\ rows[t].status = "PENDING"
    /\ calls' = [calls EXCEPT ![c] =
           [Idle EXCEPT !.pc = "read", !.txId = t, !.threshold = rows[t].threshold]]
    /\ UNCHANGED <<rows, votes, submissions, restVars>>

\* updateStatusAndEmit: EXECUTING, whatever the status is by now.
MarkExecuting(c) ==
    /\ At(c, "read")
    /\ rows' = [rows EXCEPT ![calls[c].txId] = WithStatus(@, "EXECUTING")]
    /\ Goto(c, "aggregating")
    /\ UNCHANGED <<votes, submissions, restVars>>

-----------------------------------------------------------------------------
(* aggregateProofs and getExecutionData.                                   *)

\* One getJobStatus answer that settles a proof; other answers are waited out.
SettleProof(c, s, outcome) ==
    /\ At(c, "aggregating")
    /\ s \in Unproved(calls[c].txId)
    /\ votes' = [votes EXCEPT ![calls[c].txId][s] = outcome]
    /\ UNCHANGED <<rows, calls, submissions, restVars>>

\* The count after the loop finds no pending proof; the call goes on, perhaps
\* after the 40 s of cross-chain finalization.
AllProofsSettled(c) ==
    /\ At(c, "aggregating")
    /\ Unproved(calls[c].txId) = {}
    /\ Goto(c, "finalising")
    /\ UNCHANGED <<rows, votes, submissions, restVars>>

\* All aggregated approvals are taken, compared with the threshold the row had
\* when the call began.
CollectProofs(c) ==
    LET proofs == Aggregated(calls[c].txId) IN
    /\ At(c, "finalising")
    /\ IF Cardinality(proofs) < calls[c].threshold
       THEN Goto(c, "reverting")
       ELSE calls' = [calls EXCEPT ![c].pc = "estimating", ![c].proofs = proofs]
    /\ UNCHANGED <<rows, votes, submissions, restVars>>

-----------------------------------------------------------------------------
(* relayerService.executeTransaction                                       *)

Executable(t, proofs) == Wallet!Executable(t, CallOf[t], SetToSeq(proofs))

\* Balance checks and gas estimation, which simulates the contract's execute.
EstimateGas(c) ==
    /\ At(c, "estimating")
    /\ Goto(c, IF Executable(calls[c].txId, calls[c].proofs) THEN "sending" ELSE "reverting")
    /\ UNCHANGED <<rows, votes, submissions, restVars>>

\* writeContract answers with a hash.
Submit(c) ==
    /\ At(c, "sending")
    /\ \E h \in Hashes :
          /\ submissions[h] = Unused
          /\ submissions' = [submissions EXCEPT ![h] =
                 [state |-> "mempool", txId |-> calls[c].txId, proofs |-> calls[c].proofs]]
          /\ calls' = [calls EXCEPT ![c].pc = "persisting", ![c].hash = h]
    /\ UNCHANGED <<rows, votes, restVars>>

\* The node takes the transaction, but its answer is lost: writeContract throws.
SubmitUnanswered(c) ==
    /\ At(c, "sending")
    /\ \E h \in Hashes :
          /\ submissions[h] = Unused
          /\ submissions' = [submissions EXCEPT ![h] =
                 [state |-> "mempool", txId |-> calls[c].txId, proofs |-> calls[c].proofs]]
    /\ Goto(c, "reverting")
    /\ UNCHANGED <<rows, votes, restVars>>

\* Anything else thrown before the submission: ten minutes of polling with a
\* proof still pending, a query the database refuses, an RPC node out of reach.
PreSubmissionFails(c) ==
    /\ calls[c].pc \in {"aggregating", "finalising", "estimating", "sending"}
    /\ Goto(c, "reverting")
    /\ UNCHANGED <<rows, votes, submissions, restVars>>

\* onTxSubmitted: the hash goes into the row, whatever the row says by now.
PersistHash(c) ==
    /\ At(c, "persisting")
    /\ rows' = [rows EXCEPT ![calls[c].txId] = Written([@ EXCEPT !.txHash = calls[c].hash])]
    /\ Goto(c, "waiting")
    /\ UNCHANGED <<votes, submissions, restVars>>

\* Mutant: a hash is taken for a receipt.
GetReceiptWithoutWaiting(c) ==
    /\ At(c, "waiting")
    /\ Goto(c, "recording")
    /\ UNCHANGED <<rows, votes, submissions, restVars>>

\* waitForReceiptWithRetry: a receipt, or giving up after its retries.
GetReceipt(c) ==
    /\ At(c, "waiting")
    /\ \/ submissions[calls[c].hash].state = "success" /\ Goto(c, "recording")
       \/ submissions[calls[c].hash].state = "reverted" /\ Goto(c, "reverting")
    /\ UNCHANGED <<rows, votes, submissions, restVars>>

\* The row stays EXECUTING with its hash, for the reconciler.
ReceiptTimeout(c) ==
    /\ At(c, "waiting")
    /\ Return(c)
    /\ UNCHANGED <<rows, votes, submissions, restVars>>

-----------------------------------------------------------------------------
(* markExecuted, a database transaction, and the revert.                   *)

\* handleAddSignerExecution and handleRemoveSignerExecution look the account up
\* by its address alone, which is no unique key of the table since accounts are
\* per chain: the client refuses the query and the transaction is rolled back.
RecordingThrows(t) == CallOf[t].kind \in {"addSigners", "removeSigners"}

\* The row, and for a new threshold every other PENDING row of the account.
Recorded(t, h) ==
    [u \in TxIds |->
        IF u = t
        THEN WithStatus([rows[t] EXCEPT !.txHash = h], "EXECUTED")
        ELSE IF CallOf[t].kind = "updateSignaturesRequired" /\ rows[u].status = "PENDING"
             THEN Written([rows[u] EXCEPT !.threshold = CallOf[t].required])
             ELSE rows[u]]

MarkExecuted(c) ==
    /\ At(c, "recording")
    /\ ~RecordingThrows(calls[c].txId)
    /\ rows' = Recorded(calls[c].txId, calls[c].hash)
    /\ Return(c)
    /\ UNCHANGED <<votes, submissions, restVars>>

\* The database refuses a write, and the call ends.  Before the submission the
\* row is as it was; after it, it stays EXECUTING for the reconciler.  This is
\* also how a markExecuted that always throws ends.
DatabaseFails(c) ==
    /\ \/ At(c, "read")
       \/ At(c, "persisting")
       \/ At(c, "recording")
       \/ At(c, "reverting")
    /\ Return(c)
    /\ UNCHANGED <<rows, votes, submissions, restVars>>

\* conditionalRevertToPending: only a row that is EXECUTING, whoever made it so.
RevertToPending(c) ==
    LET t == calls[c].txId IN
    /\ At(c, "reverting")
    /\ rows' = IF rows[t].status = "EXECUTING"
               THEN [rows EXCEPT ![t] = WithStatus([@ EXCEPT !.txHash = NoHash], "PENDING")]
               ELSE rows
    /\ Return(c)
    /\ UNCHANGED <<votes, submissions, restVars>>

-----------------------------------------------------------------------------
(* The chain.                                                              *)

Mine(h) ==
    LET sub == submissions[h] IN
    /\ sub.state = "mempool"
    /\ UNCHANGED <<rows, votes, calls, sweep, crashes, requestVars>>
    /\ Wallet!Execute(sub.txId, CallOf[sub.txId], SetToSeq(sub.proofs))
    /\ submissions' = [submissions EXCEPT ![h].state = "success"]

MineReverted(h) ==
    LET sub == submissions[h] IN
    /\ sub.state = "mempool"
    /\ ~Executable(sub.txId, sub.proofs)
    /\ submissions' = [submissions EXCEPT ![h].state = "reverted"]
    /\ UNCHANGED <<rows, votes, calls, restVars>>

\* Somebody tops the wallet up.
Deposit(token, amount) ==
    /\ UNCHANGED <<votingVars, serviceVars>>
    /\ Wallet!Deposit(token, amount)

-----------------------------------------------------------------------------
(* The reconciler, every two hours.                                        *)

NotSweeping == [pc |-> "idle", hashed |-> {}, stale |-> {}]

\* Mutant: the sweep looks for reverted rows only.
SweepHashedPending ==
    /\ sweep.pc = "idle"
    /\ sweep' = [pc |-> "hashed", stale |-> {},
                 hashed |-> {<<t, rows[t].txHash>> : t \in
                                {u \in TxIds : /\ rows[u].txHash # NoHash
                                               /\ rows[u].status = "PENDING"}}]
    /\ UNCHANGED <<votingVars, calls, submissions, crashes, walletVars>>

\* Its first query: the rows with a hash, as they are now.
SweepHashed ==
    /\ sweep.pc = "idle"
    /\ sweep' = [pc |-> "hashed", stale |-> {},
                 hashed |-> {<<t, rows[t].txHash>> : t \in
                                {u \in TxIds : /\ rows[u].txHash # NoHash
                                               /\ rows[u].status \in {"EXECUTING", "PENDING"}}}]
    /\ UNCHANGED <<votingVars, calls, submissions, crashes, walletVars>>

\* The iterations over the snapshot, in any order.  A receipt never changes, so
\* reading it and acting on it are one step; the row may have changed since
\* the snapshot, and both writes are unconditional.
ReconcileMined(t, h) ==
    /\ submissions[h].state = "success"
    /\ ~RecordingThrows(t)
    /\ rows' = Recorded(t, h)

ReconcileReverted(t, h) ==
    /\ submissions[h].state = "reverted"
    /\ rows' = [rows EXCEPT ![t] = WithStatus([@ EXCEPT !.txHash = NoHash], "PENDING")]

Reconcile(t, h) ==
    /\ sweep.pc = "hashed"
    /\ <<t, h>> \in sweep.hashed
    /\ sweep' = [sweep EXCEPT !.hashed = @ \ {<<t, h>>}]
    /\ ReconcileMined(t, h) \/ ReconcileReverted(t, h)
    /\ UNCHANGED <<votes, requestVars, calls, submissions, crashes, walletVars>>

\* No receipt yet, no answer from the node, or markExecuted throws: the next
\* sweep tries again.
SkipReconcile(t, h) ==
    /\ sweep.pc = "hashed"
    /\ <<t, h>> \in sweep.hashed
    /\ sweep' = [sweep EXCEPT !.hashed = @ \ {<<t, h>>}]
    /\ UNCHANGED <<votingVars, calls, submissions, crashes, walletVars>>

\* Its second query: EXECUTING for 30 minutes without a hash.
SweepStale ==
    /\ sweep.pc = "hashed"
    /\ sweep.hashed = {}
    /\ sweep' = [pc |-> "stale", hashed |-> {},
                 stale |-> {t \in TxIds : /\ rows[t].txHash = NoHash
                                          /\ rows[t].status = "EXECUTING"
                                          /\ rows[t].stale}]
    /\ UNCHANGED <<votingVars, calls, submissions, crashes, walletVars>>

ResetStale(t) ==
    /\ sweep.pc = "stale"
    /\ t \in sweep.stale
    /\ rows' = [rows EXCEPT ![t] = WithStatus([@ EXCEPT !.txHash = NoHash], "PENDING")]
    /\ sweep' = [sweep EXCEPT !.stale = @ \ {t}]
    /\ UNCHANGED <<votes, requestVars, calls, submissions, crashes, walletVars>>

EndSweep ==
    /\ sweep.pc = "stale"
    /\ sweep.stale = {}
    /\ sweep' = NotSweeping
    /\ UNCHANGED <<votingVars, calls, submissions, crashes, walletVars>>

-----------------------------------------------------------------------------
(* Time and crashes.                                                       *)

\* Thirty minutes without a write.  A call takes ten minutes of aggregation and
\* its HTTP time; with SlowCalls it may take more.
Grow(t) ==
    /\ rows[t].status = "EXECUTING"
    /\ ~rows[t].stale
    /\ SlowCalls \/ \A c \in Callers : calls[c].txId # t
    /\ rows' = [rows EXCEPT ![t].stale = TRUE]
    /\ UNCHANGED <<votes, calls, submissions, restVars>>

\* The backend restarts: requests and the sweep are gone, rows and chain stay.
Crash ==
    /\ crashes < MaxCrashes
    /\ crashes' = crashes + 1
    /\ calls' = [c \in Callers |-> Idle]
    /\ sweep' = NotSweeping
    /\ approving' = [t \in TxIds |-> {}]
    /\ denying' = [t \in TxIds |-> [s \in Signers |-> "idle"]]
    /\ UNCHANGED <<rows, votes, submissions, walletVars>>

\* One of the sweep's own queries or resets is refused, which ends it.
SweepFails ==
    /\ crashes < MaxCrashes
    /\ crashes' = crashes + 1
    /\ sweep.pc # "idle"
    /\ sweep' = NotSweeping
    /\ UNCHANGED <<votingVars, calls, submissions, walletVars>>

-----------------------------------------------------------------------------

Init ==
    /\ VotingInit
    /\ calls = [c \in Callers |-> Idle]
    /\ submissions = [h \in Hashes |-> Unused]
    /\ sweep = NotSweeping
    /\ crashes = 0
    /\ commitments = InitialCommitments
    /\ signaturesRequired = InitialRequired
    /\ usedNonces = {}
    /\ usedNullifiers = {}
    /\ balances = InitialBalances
    /\ executions = {}

\* What the backend does with a request once it has begun.
CallStep(c) ==
    \/ MarkExecuting(c)
    \/ \E s \in Signers, outcome \in {"aggregated", "failed"} : SettleProof(c, s, outcome)
    \/ AllProofsSettled(c)
    \/ CollectProofs(c)
    \/ EstimateGas(c)
    \/ Submit(c)
    \/ SubmitUnanswered(c)
    \/ PreSubmissionFails(c)
    \/ PersistHash(c)
    \/ GetReceipt(c)
    \/ ReceiptTimeout(c)
    \/ MarkExecuted(c)
    \/ DatabaseFails(c)
    \/ RevertToPending(c)

SweepStep ==
    \/ SweepHashed
    \/ \E t \in TxIds, h \in Hashes : Reconcile(t, h) \/ SkipReconcile(t, h)
    \/ SweepStale
    \/ \E t \in TxIds : ResetStale(t)
    \/ EndSweep

ChainStep(h) == Mine(h) \/ MineReverted(h)

Next ==
    \/ VotingNext /\ UNCHANGED <<serviceVars, walletVars>>
    \/ \E c \in Callers, t \in TxIds : ReadTransaction(c, t)
    \/ \E c \in Callers : CallStep(c)
    \/ \E h \in Hashes : ChainStep(h)
    \/ \E token \in Tokens, amount \in DepositAmounts : Deposit(token, amount)
    \/ SweepStep
    \/ \E t \in TxIds : Grow(t)
    \/ Crash
    \/ SweepFails

Spec == Init /\ [][Next]_vars

\* Node's event loop resumes every pending await, the cron job fires, time
\* passes, a transaction in the mempool is eventually mined, and a sweep that
\* looks for a receipt again and again eventually gets it.  Nothing makes
\* people vote, ask for an execution, or the backend crash.
Fairness ==
    /\ \A c \in Callers : WF_vars(CallStep(c))
    /\ \A h \in Hashes : WF_vars(ChainStep(h))
    /\ WF_vars(SweepStep)
    /\ \A t \in TxIds, h \in Hashes : SF_vars(Reconcile(t, h))
    /\ \A t \in TxIds : WF_vars(Grow(t))

FairSpec == Spec /\ Fairness

-----------------------------------------------------------------------------
(* Properties.                                                             *)

TypeOK ==
    /\ VotingTypeOK
    /\ calls \in [Callers -> Call]
    /\ submissions \in [Hashes -> Submission]
    /\ sweep \in [pc : {"idle", "hashed", "stale"}, hashed : SUBSET (TxIds \X Hashes),
                  stale : SUBSET TxIds]
    /\ crashes \in 0..MaxCrashes
    /\ Wallet!TypeOK

\* Whatever calls, sweeps, denials and crashes interleave, a row says EXECUTED
\* only if the wallet has executed that transaction.
ExecutedOnChain ==
    \A t \in TxIds : rows[t].status = "EXECUTED" => t \in usedNonces

Mined(h, t) ==
    /\ h # NoHash
    /\ submissions[h].state = "success"
    /\ submissions[h].txId = t

\* Whoever records an execution, a request or a sweep with an old snapshot,
\* leaves the hash of the one submission of that transaction that succeeded; a
\* second recording changes nothing.  Only a request that submits the executed
\* transaction once more puts its own hash in the place of it.
RecordedHashMined ==
    [][\A t \in TxIds : rows'[t].status = "EXECUTED" /\ rows'[t] # rows[t] =>
           \/ Mined(rows'[t].txHash, t)
           \/ /\ rows[t].status = "EXECUTED"
              /\ \E c \in Callers : /\ At(c, "persisting")
                                    /\ calls[c].txId = t
                                    /\ rows'[t].txHash = calls[c].hash]_vars

\* The wallet executes at most one submission of a transaction, even when
\* several calls get past the gas estimation.
OneSubmissionSucceeds ==
    \A g, h \in Hashes :
        /\ submissions[g].state = "success"
        /\ submissions[h].state = "success"
        /\ submissions[g].txId = submissions[h].txId
        => g = h

\* Nobody who denied a transaction is counted for it on-chain, also when the
\* approval of the same signer was on its way to zkVerify at the time.
DenierNeverCounted ==
    \A e \in executions : e.approvers \intersect Denials(e.nonce) = {}

\* A transaction the service gave up is one the wallet has not executed.
FailedNotExecuted ==
    \A t \in TxIds : rows[t].status = "FAILED" => t \notin usedNonces

\* No row stays EXECUTING for ever.
NeverStuckExecuting ==
    \A t \in TxIds : rows[t].status = "EXECUTING" ~> rows[t].status # "EXECUTING"

\* EXECUTED is final.
ExecutedIsFinal ==
    [][\A t \in TxIds : rows[t].status = "EXECUTED" => rows'[t].status = "EXECUTED"]_vars

\* A vote, once cast, stays on its side.
VoteIsFinal ==
    [][\A t \in TxIds : Approvals(t) \subseteq Approvals(t)' /\ Denials(t) \subseteq Denials(t)']_vars

\* The contract's own specification: all the properties of MetaMultiSigWallet
\* hold of a wallet driven by this service.
WalletSpec == Wallet!Spec

=============================================================================
