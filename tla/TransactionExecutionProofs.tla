---------------------- MODULE TransactionExecutionProofs ----------------------
(***************************************************************************)
(* Proofs about the votes, the executor, the reconciler and the contract   *)
(* they drive, for every set of transactions, signers, concurrent requests *)
(* and submissions, any number of restarts, and calls as slow as can be.   *)
(*                                                                         *)
(* The argument runs along the submissions of the relayer.  A request that *)
(* waits for a receipt, and a row that has a hash, know a submission of    *)
(* their own transaction; a submission that has succeeded has used up the  *)
(* nonce of its transaction, and a nonce stays used.  So whoever records   *)
(* EXECUTED, the request or the sweep, is right, however many of them work *)
(* on the row.  The proofs of a submission are votes that stay aggregated, *)
(* which keeps deniers out.  Giving up and executing exclude one another   *)
(* because both count against one threshold: that is the second invariant, *)
(* Voting, which needs that no transaction changes it.                     *)
(***************************************************************************)
EXTENDS TransactionExecution, FiniteSetTheorems, FunctionTheorems, TLAPS

\* The list of proofs that is submitted names every signer of its set once.
LEMMA SetToSeqLists ==
  ASSUME NEW S \in SUBSET Signers
  PROVE  /\ SetToSeq(S) \in [1..Cardinality(S) -> Signers]
         /\ Range(SetToSeq(S)) = S
         /\ Cardinality(S) \in 0..Cardinality(Signers)
  <1> DEFINE s == SetToSeq(S)
  <1>1. /\ IsFiniteSet(S)
        /\ Cardinality(S) \in Nat
        /\ Cardinality(S) <= Cardinality(Signers)
    BY SignersAssumption, FS_Subset, FS_CardinalityType
  <1>2. PICK f : f \in Bijection(1..Cardinality(S), S)
    BY <1>1, FS_CardinalityType, Fun_ExistsBij DEF ExistsBijection
  <1>3. f \in [1..Cardinality(S) -> S] /\ IsInjective(f)
    BY <1>2 DEF Bijection, Injection, IsInjective
  <1>4. s \in [1..Cardinality(S) -> S] /\ IsInjective(s)
    BY <1>3 DEF SetToSeq
  <1>5. s \in Bijection(1..Cardinality(S), Range(s))
    BY <1>4, Fun_IsInj, Fun_InjMeansBijImage DEF IsInjective
  <1>6. /\ IsFiniteSet(1..Cardinality(S))
        /\ Cardinality(1..Cardinality(S)) = Cardinality(S)
    BY <1>1, FS_Interval
  <1>7. Cardinality(Range(s)) = Cardinality(S)
    BY <1>5, <1>6, FS_Bijection, Fun_ExistsBij
  <1>8. Range(s) \subseteq S
    BY <1>4 DEF Range
  <1>9. Range(s) = S
    BY <1>1, <1>7, <1>8, FS_Subset
  <1> QED
    BY <1>1, <1>4, <1>9

-----------------------------------------------------------------------------
(* The type invariant.                                                     *)

\* What zkVerify has aggregated are statements of signers about transactions.
LEMMA ProvedStatements ==
  /\ ProvedOnChain \subseteq Commitments \X (TxIds \X Range(CallOf))
  /\ (ProvedOnChain \subseteq Commitments \X (TxIds \X Range(CallOf)))'
  BY CallsAssumption DEF ProvedOnChain, Aggregated, Statement, Range

\* A write of the status, the hash or both keeps a row a row.
LEMMA WritesTyped ==
  ASSUME NEW row \in Row, NEW status \in Statuses, NEW h \in Hashes \union {NoHash}
  PROVE  /\ WithStatus(row, status) \in Row
         /\ WithStatus([row EXCEPT !.txHash = h], status) \in Row
  BY DEF WithStatus, Written, Row

\* So does a write of the hash alone.
LEMMA HashWriteTyped ==
  ASSUME NEW row \in Row, NEW h \in Hashes
  PROVE  Written([row EXCEPT !.txHash = h]) \in Row
  BY DEF Written, Row

\* And the passing of time.
LEMMA AgedTyped ==
  ASSUME NEW row \in Row
  PROVE  [row EXCEPT !.stale = TRUE] \in Row
  BY DEF Row

\* A call that takes its proofs or its hash remains a call.
LEMMA TakingTyped ==
  ASSUME NEW call \in Call, NEW pc \in CallSteps, NEW S \in SUBSET Signers
  PROVE  /\ [call EXCEPT !.pc = pc, !.proofs = S] \in Call
         /\ \A h \in Hashes : [call EXCEPT !.pc = pc, !.hash = h] \in Call
  BY DEF Call

\* Moving a call on, or ending it, keeps it a call.
LEMMA GotoTyped ==
  ASSUME calls \in [Callers -> Call], NEW c \in Callers,
         (\E pc \in CallSteps : Goto(c, pc)) \/ Return(c)
  PROVE  calls' \in [Callers -> Call]
  BY DEF Goto, Return, Idle, Call, CallSteps

\* The voting handlers keep the types of the rows and the votes.
LEMMA VotingTyped ==
  ASSUME VotingTypeOK, VotingNext
  PROVE  VotingTypeOK'
  <1> PICK t \in TxIds, s \in Signers :
           \/ BeginApprove(t, s)
           \/ RecordApproval(t, s)
           \/ ApprovalRejected(t, s)
           \/ BeginDeny(t, s)
           \/ RecordDenial(t, s)
           \/ CheckIfFailed(t, s)
           \/ MarkFailed(t, s)
    BY DEF VotingNext
  <1> USE DEF VotingTypeOK
  <1>1. CASE BeginApprove(t, s)
    BY <1>1 DEF BeginApprove
  <1>2. CASE RecordApproval(t, s)
    BY <1>2 DEF RecordApproval, VoteStates
  <1>3. CASE ApprovalRejected(t, s)
    BY <1>3 DEF ApprovalRejected
  <1>4. CASE BeginDeny(t, s)
    BY <1>4 DEF BeginDeny, DenySteps
  <1>5. CASE RecordDenial(t, s)
    <2>1. CASE votes[t][s] = "none"
      <3>1. votes' = [votes EXCEPT ![t][s] = "deny"]
        BY <1>5, <2>1 DEF RecordDenial
      <3>2. votes' \in [TxIds -> [Signers -> VoteStates]]
        BY <3>1 DEF VoteStates
      <3>3. denying' = [denying EXCEPT ![t][s] = "recorded"]
        BY <1>5, <2>1 DEF RecordDenial
      <3>4. denying' \in [TxIds -> [Signers -> DenySteps]]
        BY <3>3 DEF DenySteps
      <3> QED
        BY <1>5, <3>2, <3>4 DEF RecordDenial
    <2>2. CASE votes[t][s] # "none"
      BY <1>5, <2>2 DEF RecordDenial, DenySteps
    <2> QED
      BY <2>1, <2>2
  <1>6. CASE CheckIfFailed(t, s)
    BY <1>6 DEF CheckIfFailed, DenySteps
  <1>7. CASE MarkFailed(t, s)
    BY <1>7, WritesTyped DEF MarkFailed, DenySteps, Statuses
  <1> QED
    BY <1>1, <1>2, <1>3, <1>4, <1>5, <1>6, <1>7

\* Writing an outcome, and the thresholds that go with it, keeps rows rows.
LEMMA RecordedTyped ==
  ASSUME rows \in [TxIds -> Row], NEW t \in TxIds, NEW h \in Hashes
  PROVE  Recorded(t, h) \in [TxIds -> Row]
  <1>1. CallOf[t].required \in Nat
    BY CallsAssumption DEF Wallet!Call
  <1> SUFFICES ASSUME NEW u \in TxIds PROVE Recorded(t, h)[u] \in Row
    BY DEF Recorded
  <1>2. CASE u = t
    BY <1>2 DEF Recorded, Row, Statuses, WithStatus, Written
  <1>3. CASE u # t /\ CallOf[t].kind = "updateSignaturesRequired" /\ rows[u].status = "PENDING"
    BY <1>1, <1>3 DEF Recorded, Row, Written
  <1>4. CASE u # t /\ ~(CallOf[t].kind = "updateSignaturesRequired" /\ rows[u].status = "PENDING")
    BY <1>4 DEF Recorded
  <1> QED
    BY <1>2, <1>3, <1>4

\* A call that is not idle works on a transaction of the account; once it has
\* submitted it holds the hash of a submission of that very transaction, and it
\* records only what succeeded.
HoldsSubmission(c) ==
    /\ ~At(c, "idle") => calls[c].txId \in TxIds
    /\ calls[c].pc \in {"persisting", "waiting", "recording"} =>
           /\ calls[c].hash \in Hashes
           /\ submissions[calls[c].hash].state # "unused"
           /\ submissions[calls[c].hash].txId = calls[c].txId
    /\ At(c, "recording") => submissions[calls[c].hash].state = "success"

CallsHoldSubmissions == \A c \in Callers : HoldsSubmission(c)

\* The chain is given transactions of the account, and what has succeeded has
\* used up its nonce.
SubmissionsUseNonces ==
    \A h \in Hashes :
        /\ submissions[h].state # "unused" => submissions[h].txId \in TxIds
        /\ submissions[h].state = "success" => submissions[h].txId \in usedNonces

SubmissionOf(h, t) == submissions[h].state # "unused" /\ submissions[h].txId = t

\* The hash of a row, now or in the snapshot of a sweep, is that of a submission
\* of it.
HashesAreOwn ==
    /\ \A t \in TxIds : rows[t].txHash # NoHash => SubmissionOf(rows[t].txHash, t)
    /\ \A p \in sweep.hashed : SubmissionOf(p[2], p[1])

Base == TypeOK /\ CallsHoldSubmissions /\ SubmissionsUseNonces

\* The steps of a request keep the types of what they touch.
LEMMA CallStepTyped ==
  ASSUME Base, NEW c \in Callers, CallStep(c)
  PROVE  /\ VotingTypeOK'
         /\ calls' \in [Callers -> Call]
         /\ submissions' \in [Hashes -> Submission]
  <1> USE DEF Base, TypeOK, VotingTypeOK, restVars, requestVars
  <1>1. CASE MarkExecuting(c)
    <2>1. calls[c].txId \in TxIds
      BY <1>1 DEF MarkExecuting, At, CallsHoldSubmissions, HoldsSubmission
    <2>2. calls' \in [Callers -> Call]
      BY <1>1, GotoTyped DEF MarkExecuting, CallSteps
    <2>3. rows' \in [TxIds -> Row]
      BY <1>1, <2>1, WritesTyped DEF MarkExecuting, Statuses
    <2> QED
      BY <1>1, <2>2, <2>3 DEF MarkExecuting
  <1>2. ASSUME NEW s \in Signers, NEW outcome \in {"aggregated", "failed"}, SettleProof(c, s, outcome)
        PROVE  /\ VotingTypeOK'
               /\ calls' \in [Callers -> Call]
               /\ submissions' \in [Hashes -> Submission]
    BY <1>2 DEF SettleProof, VoteStates
  <1>3. CASE AllProofsSettled(c)
    BY <1>3, GotoTyped DEF AllProofsSettled, CallSteps
  <1>4. CASE CollectProofs(c)
    <2>1. Aggregated(calls[c].txId) \subseteq Signers
      BY DEF Aggregated
    <2>2. calls' \in [Callers -> Call]
      <3>1. CASE Goto(c, "reverting")
        BY <3>1, GotoTyped DEF CallSteps
      <3>2. CASE calls' = [calls EXCEPT ![c].pc = "estimating", ![c].proofs = Aggregated(calls[c].txId)]
        <4>1. calls' = [calls EXCEPT ![c] =
                  [calls[c] EXCEPT !.pc = "estimating", !.proofs = Aggregated(calls[c].txId)]]
          BY <3>2
        <4>2. [calls[c] EXCEPT !.pc = "estimating", !.proofs = Aggregated(calls[c].txId)] \in Call
          BY <2>1, TakingTyped DEF CallSteps
        <4> QED
          BY <4>1, <4>2
      <3> QED
        BY <1>4, <3>1, <3>2 DEF CollectProofs
    <2> QED
      BY <1>4, <2>2 DEF CollectProofs
  <1>5. CASE EstimateGas(c)
    BY <1>5, GotoTyped DEF EstimateGas, CallSteps
  <1>6. CASE Submit(c)
    <2>1. PICK h \in Hashes :
             /\ submissions' = [submissions EXCEPT ![h] =
                    [state |-> "mempool", txId |-> calls[c].txId, proofs |-> calls[c].proofs]]
             /\ calls' = [calls EXCEPT ![c].pc = "persisting", ![c].hash = h]
      BY <1>6 DEF Submit
    <2>2. calls' \in [Callers -> Call]
      <3>1. calls' = [calls EXCEPT ![c] = [calls[c] EXCEPT !.pc = "persisting", !.hash = h]]
        BY <2>1
      <3>2. [calls[c] EXCEPT !.pc = "persisting", !.hash = h] \in Call
        BY TakingTyped DEF CallSteps
      <3> QED
        BY <3>1, <3>2
    <2>3. submissions' \in [Hashes -> Submission]
      BY <2>1 DEF Submission, Call
    <2> QED
      BY <1>6, <2>2, <2>3 DEF Submit
  <1>7. CASE SubmitUnanswered(c)
    <2>1. PICK h \in Hashes : submissions' = [submissions EXCEPT ![h] =
                    [state |-> "mempool", txId |-> calls[c].txId, proofs |-> calls[c].proofs]]
      BY <1>7 DEF SubmitUnanswered
    <2>2. calls' \in [Callers -> Call]
      BY <1>7, GotoTyped DEF SubmitUnanswered, CallSteps
    <2>3. submissions' \in [Hashes -> Submission]
      BY <2>1 DEF Submission, Call
    <2> QED
      BY <1>7, <2>2, <2>3 DEF SubmitUnanswered
  <1>8. CASE PreSubmissionFails(c)
    BY <1>8, GotoTyped DEF PreSubmissionFails, CallSteps
  <1>9. CASE PersistHash(c)
    <2>1. calls[c].txId \in TxIds /\ calls[c].hash \in Hashes
      BY <1>9 DEF PersistHash, At, CallsHoldSubmissions, HoldsSubmission
    <2>2. calls' \in [Callers -> Call]
      BY <1>9, GotoTyped DEF PersistHash, CallSteps
    <2>3. rows' \in [TxIds -> Row]
      BY <1>9, <2>1, HashWriteTyped DEF PersistHash
    <2> QED
      BY <1>9, <2>2, <2>3 DEF PersistHash
  <1>10. CASE GetReceipt(c)
    BY <1>10, GotoTyped DEF GetReceipt, CallSteps
  <1>11. CASE ReceiptTimeout(c)
    BY <1>11, GotoTyped DEF ReceiptTimeout
  <1>12. CASE MarkExecuted(c)
    <2>1. calls[c].txId \in TxIds /\ calls[c].hash \in Hashes
      BY <1>12 DEF MarkExecuted, At, CallsHoldSubmissions, HoldsSubmission
    <2>2. calls' \in [Callers -> Call]
      BY <1>12, GotoTyped DEF MarkExecuted
    <2>3. rows' \in [TxIds -> Row]
      BY <1>12, <2>1, RecordedTyped DEF MarkExecuted
    <2> QED
      BY <1>12, <2>2, <2>3 DEF MarkExecuted
  <1>13. CASE DatabaseFails(c)
    BY <1>13, GotoTyped DEF DatabaseFails
  <1>14. CASE RevertToPending(c)
    <2>1. calls[c].txId \in TxIds
      BY <1>14 DEF RevertToPending, At, CallsHoldSubmissions, HoldsSubmission
    <2>2. calls' \in [Callers -> Call]
      BY <1>14, GotoTyped DEF RevertToPending
    <2>3. rows' \in [TxIds -> Row]
      BY <1>14, <2>1, WritesTyped DEF RevertToPending, Statuses
    <2> QED
      BY <1>14, <2>2, <2>3 DEF RevertToPending
  <1> QED
    BY <1>1, <1>2, <1>3, <1>4, <1>5, <1>6, <1>7, <1>8, <1>9, <1>10, <1>11, <1>12, <1>13, <1>14
    DEF CallStep

\* What the chain does to submissions: it mines them or lets them revert.
LEMMA ChainStepTyped ==
  ASSUME Base, NEW h \in Hashes, ChainStep(h)
  PROVE  /\ UNCHANGED <<votingVars, calls, sweep, crashes>>
         /\ submissions' \in [Hashes -> Submission]
  <1> USE DEF Base, TypeOK
  <1>1. CASE Mine(h)
    BY <1>1 DEF Mine, Submission, votingVars, requestVars
  <1>2. CASE MineReverted(h)
    BY <1>2 DEF MineReverted, Submission, votingVars, requestVars, restVars
  <1> QED
    BY <1>1, <1>2 DEF ChainStep

\* The steps of the sweep keep the types of what they touch.
LEMMA SweepStepTyped ==
  ASSUME Base, HashesAreOwn, SweepStep
  PROVE  /\ rows' \in [TxIds -> Row]
         /\ UNCHANGED <<votes, requestVars, calls, submissions, crashes, walletVars>>
         /\ sweep' \in [pc : {"idle", "hashed", "stale"}, hashed : SUBSET (TxIds \X Hashes),
                        stale : SUBSET TxIds]
  <1> USE DEF Base, TypeOK, VotingTypeOK, votingVars, requestVars
  <1>1. CASE SweepHashed
    <2>1. \A t \in TxIds : rows[t].txHash \in Hashes \union {NoHash}
      BY DEF Row
    <2> QED
      BY <1>1, <2>1 DEF SweepHashed
  <1>2. ASSUME NEW t \in TxIds, NEW h \in Hashes, Reconcile(t, h) \/ SkipReconcile(t, h)
        PROVE  /\ rows' \in [TxIds -> Row]
               /\ UNCHANGED <<votes, requestVars, calls, submissions, crashes, walletVars>>
               /\ sweep' \in [pc : {"idle", "hashed", "stale"}, hashed : SUBSET (TxIds \X Hashes),
                              stale : SUBSET TxIds]
    <2>1. CASE Reconcile(t, h)
      <3>1. rows' \in [TxIds -> Row]
        <4>1. CASE ReconcileMined(t, h)
          BY <4>1, RecordedTyped DEF ReconcileMined
        <4>2. CASE ReconcileReverted(t, h)
          BY <4>2, WritesTyped DEF ReconcileReverted, Statuses
        <4> QED
          BY <2>1, <4>1, <4>2 DEF Reconcile
      <3> QED
        BY <2>1, <3>1 DEF Reconcile
    <2>2. CASE SkipReconcile(t, h)
      BY <2>2 DEF SkipReconcile
    <2> QED
      BY <1>2, <2>1, <2>2
  <1>3. CASE SweepStale
    BY <1>3 DEF SweepStale
  <1>4. ASSUME NEW t \in TxIds, ResetStale(t)
        PROVE  /\ rows' \in [TxIds -> Row]
               /\ UNCHANGED <<votes, requestVars, calls, submissions, crashes, walletVars>>
               /\ sweep' \in [pc : {"idle", "hashed", "stale"}, hashed : SUBSET (TxIds \X Hashes),
                              stale : SUBSET TxIds]
    <2>1. rows' \in [TxIds -> Row]
      BY <1>4, WritesTyped DEF ResetStale, Statuses
    <2> QED
      BY <1>4, <2>1 DEF ResetStale
  <1>5. CASE EndSweep
    BY <1>5 DEF EndSweep, NotSweeping
  <1> QED
    BY <1>1, <1>2, <1>3, <1>4, <1>5 DEF SweepStep

\* What a mined submission does to the contract keeps the contract's types.
LEMMA ExecuteTyped ==
  ASSUME Base, NEW h \in Hashes, Mine(h)
  PROVE  Wallet!TypeOK'
  <1> DEFINE t == submissions[h].txId
             call == CallOf[t]
             proofs == SetToSeq(submissions[h].proofs)
  <1>1. t \in TxIds /\ submissions[h].proofs \in SUBSET Signers
    BY DEF Base, TypeOK, SubmissionsUseNonces, Mine, Submission
  <1>2. call \in Wallet!Call /\ call \in Range(CallOf)
    BY <1>1, CallsAssumption DEF Range
  <1>3. Range(proofs) \subseteq Commitments
    BY <1>1, SetToSeqLists, CallsAssumption
  <1>4. Wallet!Execute(t, call, proofs)
    BY DEF Mine
  <1>5. Wallet!TypeOK
    BY DEF Base, TypeOK
  <1>6. call.list \in Seq(Commitments) /\ call.required \in Nat
    BY <1>2 DEF Wallet!Call
  <1>7. Range(call.list) \subseteq Commitments
    BY <1>6 DEF Range
  <1> HIDE DEF t, call, proofs
  <1>8. /\ commitments' \subseteq Commitments
        /\ signaturesRequired' \in Nat
        /\ balances' \in [Tokens -> Nat]
    <2>1. CASE Wallet!Pay(call)
      <3>1. \A token \in Tokens : balances[token] - Wallet!Spent(call, token) \in Nat
        BY <1>5, <2>1 DEF Wallet!Pay, Wallet!CanPay, Wallet!TypeOK
      <3> QED
        BY <1>5, <2>1, <3>1 DEF Wallet!Pay, Wallet!TypeOK
    <2>2. CASE Wallet!AddSigners(call)
      BY <1>5, <1>6, <1>7, <2>2 DEF Wallet!AddSigners, Wallet!TypeOK, Range, Wallet!Range
    <2>3. CASE Wallet!RemoveSigners(call)
      BY <1>5, <1>6, <2>3 DEF Wallet!RemoveSigners, Wallet!TypeOK
    <2>4. CASE Wallet!UpdateSignaturesRequired(call)
      BY <1>5, <1>6, <2>4 DEF Wallet!UpdateSignaturesRequired, Wallet!TypeOK
    <2> QED
      BY <1>4, <2>1, <2>2, <2>3, <2>4 DEF Wallet!Execute, Wallet!InnerCall
  <1>9. usedNonces' \subseteq TxIds
    BY <1>1, <1>4, <1>5 DEF Wallet!Execute, Wallet!TypeOK
  <1>10. usedNullifiers' \subseteq Commitments \X Wallet!TxHashes
    BY <1>1, <1>2, <1>3, <1>4, <1>5
    DEF Wallet!Execute, Wallet!TypeOK, Wallet!SpentNullifiers, Wallet!Nullifier, Wallet!TxHash,
        Wallet!TxHashes, Range, Wallet!Range
  <1>11. executions' \subseteq
           [nonce : TxIds, call : Range(CallOf), approvers : SUBSET Commitments,
            signers : SUBSET Commitments, required : Nat]
    BY <1>1, <1>2, <1>3, <1>4, <1>5 DEF Wallet!Execute, Wallet!TypeOK, Wallet!Execution, Range, Wallet!Range
  <1>12. ProvedOnChain' \subseteq Commitments \X Wallet!TxHashes
    BY ProvedStatements DEF Wallet!TxHashes
  <1> QED
    BY <1>8, <1>9, <1>10, <1>11, <1>12 DEF Wallet!TypeOK

\* A deposit, and every step that leaves the contract alone.
LEMMA DepositTyped ==
  ASSUME Base, NEW token \in Tokens, NEW amount \in DepositAmounts, Deposit(token, amount)
  PROVE  Wallet!TypeOK'
  <1>1. balances' \in [Tokens -> Nat]
    BY WalletAssumption DEF Base, TypeOK, Deposit, Wallet!Deposit, Wallet!TypeOK
  <1> QED
    BY <1>1, ProvedStatements
    DEF Base, TypeOK, Deposit, Wallet!Deposit, Wallet!TypeOK, Wallet!TxHashes

\* The statements that zkVerify has aggregated keep their type by themselves.
LEMMA WalletUntouchedTyped ==
  ASSUME Base, UNCHANGED walletVars
  PROVE  Wallet!TypeOK'
  BY ProvedStatements DEF Base, TypeOK, Wallet!TypeOK, Wallet!TxHashes, walletVars

\* A request touches neither the contract nor the voting handlers nor the sweep.
LEMMA CallStepFrame ==
  ASSUME NEW c \in Callers, CallStep(c)
  PROVE  UNCHANGED restVars
  BY DEF CallStep, MarkExecuting, SettleProof, AllProofsSettled, CollectProofs, EstimateGas, Submit,
         SubmitUnanswered, PreSubmissionFails, PersistHash, GetReceipt, ReceiptTimeout, MarkExecuted,
         DatabaseFails, RevertToPending

\* Every step keeps the type invariant, given what the calls and the rows know
\* of the submissions.
LEMMA StepTyped ==
  ASSUME Base, HashesAreOwn, [Next]_vars
  PROVE  TypeOK'
  <1> USE DEF Base
  <1>1. CASE VotingNext /\ UNCHANGED <<serviceVars, walletVars>>
    BY <1>1, VotingTyped, WalletUntouchedTyped DEF TypeOK, serviceVars
  <1>2. ASSUME NEW c \in Callers, NEW t \in TxIds, ReadTransaction(c, t)
        PROVE  TypeOK'
    <2>1. [Idle EXCEPT !.pc = "read", !.txId = t, !.threshold = rows[t].threshold] \in Call
      BY DEF TypeOK, VotingTypeOK, Row, Idle, Call, CallSteps
    <2>2. calls' \in [Callers -> Call]
      BY <1>2, <2>1 DEF ReadTransaction, TypeOK
    <2> QED
      BY <1>2, <2>2, WalletUntouchedTyped
      DEF ReadTransaction, TypeOK, VotingTypeOK, restVars, requestVars
  <1>3. ASSUME NEW c \in Callers, CallStep(c)
        PROVE  TypeOK'
    BY <1>3, CallStepTyped, CallStepFrame, WalletUntouchedTyped DEF TypeOK, restVars
  <1>4. ASSUME NEW h \in Hashes, ChainStep(h)
        PROVE  TypeOK'
    <2>1. Wallet!TypeOK'
      <3>1. CASE Mine(h)
        BY <3>1, ExecuteTyped
      <3>2. CASE MineReverted(h)
        BY <3>2, WalletUntouchedTyped DEF MineReverted, restVars
      <3> QED
        BY <1>4, <3>1, <3>2 DEF ChainStep
    <2> QED
      BY <1>4, <2>1, ChainStepTyped DEF TypeOK, VotingTypeOK, votingVars
  <1>5. ASSUME NEW token \in Tokens, NEW amount \in DepositAmounts, Deposit(token, amount)
        PROVE  TypeOK'
    BY <1>5, DepositTyped DEF Deposit, TypeOK, VotingTypeOK, votingVars, serviceVars
  <1>6. CASE SweepStep
    BY <1>6, SweepStepTyped, WalletUntouchedTyped DEF TypeOK, VotingTypeOK, requestVars
  <1>7. ASSUME NEW t \in TxIds, Grow(t)
        PROVE  TypeOK'
    <2>0. [rows[t] EXCEPT !.stale = TRUE] \in Row
      BY AgedTyped DEF TypeOK, VotingTypeOK
    <2>1. rows' \in [TxIds -> Row]
      BY <1>7, <2>0 DEF Grow, TypeOK, VotingTypeOK
    <2> QED
      BY <1>7, <2>1, WalletUntouchedTyped DEF Grow, TypeOK, VotingTypeOK, restVars, requestVars
  <1>8. CASE Crash
    <2>1. calls' \in [Callers -> Call]
      BY <1>8 DEF Crash, Idle, Call, CallSteps
    <2>3. crashes' \in 0..MaxCrashes
      BY <1>8, CallsAssumption DEF Crash, TypeOK
    <2>2. /\ approving' \in [TxIds -> SUBSET Signers]
          /\ denying' \in [TxIds -> [Signers -> DenySteps]]
      BY <1>8 DEF Crash, DenySteps
    <2> QED
      BY <1>8, <2>1, <2>2, <2>3, WalletUntouchedTyped DEF Crash, TypeOK, VotingTypeOK, NotSweeping
  <1>9. CASE SweepFails
    BY <1>9, CallsAssumption, WalletUntouchedTyped
    DEF SweepFails, TypeOK, VotingTypeOK, votingVars, NotSweeping
  <1>10. CASE UNCHANGED vars
    BY <1>10, WalletUntouchedTyped DEF vars, TypeOK, VotingTypeOK, votingVars, serviceVars
  <1> QED
    BY <1>1, <1>2, <1>3, <1>4, <1>5, <1>6, <1>7, <1>8, <1>9, <1>10 DEF Next

-----------------------------------------------------------------------------
(* Who changes what.                                                       *)

\* Submissions are made by requests and decided by the chain; nonces are used
\* up by the chain.
LEMMA SubmissionSteps ==
  ASSUME [Next]_vars
  PROVE  \/ UNCHANGED <<submissions, usedNonces, executions>>
         \/ \E c \in Callers : Submit(c) \/ SubmitUnanswered(c)
         \/ \E h \in Hashes : Mine(h) \/ MineReverted(h)
  <1>1. ASSUME NEW c \in Callers, CallStep(c)
        PROVE  \/ UNCHANGED <<submissions, usedNonces, executions>>
               \/ Submit(c) \/ SubmitUnanswered(c)
    BY <1>1
    DEF CallStep, MarkExecuting, SettleProof, AllProofsSettled, CollectProofs, EstimateGas,
        PreSubmissionFails, PersistHash, GetReceipt, ReceiptTimeout, MarkExecuted,
        DatabaseFails, RevertToPending, restVars, walletVars
  <1>2. CASE SweepStep
    BY <1>2 DEF SweepStep, SweepHashed, Reconcile, SkipReconcile, SweepStale, ResetStale, EndSweep,
                walletVars
  <1>3. ASSUME NEW token \in Tokens, NEW amount \in DepositAmounts, Deposit(token, amount)
        PROVE  UNCHANGED <<submissions, usedNonces, executions>>
    BY <1>3 DEF Deposit, Wallet!Deposit, serviceVars
  <1>4. ASSUME \/ VotingNext /\ UNCHANGED <<serviceVars, walletVars>>
               \/ \E c \in Callers, t \in TxIds : ReadTransaction(c, t)
               \/ \E t \in TxIds : Grow(t)
               \/ Crash
               \/ SweepFails
               \/ UNCHANGED vars
        PROVE  UNCHANGED <<submissions, usedNonces, executions>>
    BY <1>4 DEF ReadTransaction, Grow, Crash, SweepFails, vars, serviceVars, walletVars, restVars
  <1> QED
    BY <1>1, <1>2, <1>3, <1>4 DEF Next, ChainStep

\* Votes are written by the voting handlers and settled by requests.
LEMMA VoteSteps ==
  ASSUME [Next]_vars
  PROVE  \/ UNCHANGED votes
         \/ \E t \in TxIds, s \in Signers : RecordApproval(t, s) \/ RecordDenial(t, s)
         \/ \E c \in Callers, s \in Signers, outcome \in {"aggregated", "failed"} :
                SettleProof(c, s, outcome)
  <1>1. ASSUME NEW c \in Callers, CallStep(c)
        PROVE  \/ UNCHANGED votes
               \/ \E s \in Signers, outcome \in {"aggregated", "failed"} :
                      SettleProof(c, s, outcome)
    BY <1>1
    DEF CallStep, MarkExecuting, AllProofsSettled, CollectProofs, EstimateGas, Submit,
        SubmitUnanswered, PreSubmissionFails, PersistHash, GetReceipt, ReceiptTimeout, MarkExecuted,
        DatabaseFails, RevertToPending
  <1>2. CASE SweepStep
    BY <1>2 DEF SweepStep, SweepHashed, Reconcile, SkipReconcile, SweepStale, ResetStale, EndSweep,
                votingVars
  <1>3. CASE VotingNext
    BY <1>3 DEF VotingNext, BeginApprove, ApprovalRejected, BeginDeny, CheckIfFailed, MarkFailed
  <1>4. ASSUME \/ \E c \in Callers, t \in TxIds : ReadTransaction(c, t)
               \/ \E h \in Hashes : ChainStep(h)
               \/ \E token \in Tokens, amount \in DepositAmounts : Deposit(token, amount)
               \/ \E t \in TxIds : Grow(t)
               \/ Crash
               \/ SweepFails
               \/ UNCHANGED vars
        PROVE  UNCHANGED votes
    BY <1>4 DEF ReadTransaction, ChainStep, Mine, MineReverted, Deposit, Grow, Crash, SweepFails,
                vars, votingVars
  <1> QED
    BY <1>1, <1>2, <1>3, <1>4 DEF Next

\* Rows are written by a denial that decides, by requests, by the sweep and by
\* the clock.
LEMMA RowSteps ==
  ASSUME [Next]_vars
  PROVE  \/ UNCHANGED rows
         \/ \E t \in TxIds, s \in Signers : MarkFailed(t, s)
         \/ \E c \in Callers :
                MarkExecuting(c) \/ PersistHash(c) \/ MarkExecuted(c) \/ RevertToPending(c)
         \/ \E t \in TxIds, h \in Hashes : Reconcile(t, h)
         \/ \E t \in TxIds : ResetStale(t) \/ Grow(t)
  <1>1. ASSUME NEW c \in Callers, CallStep(c)
        PROVE  \/ UNCHANGED rows
               \/ MarkExecuting(c) \/ PersistHash(c) \/ MarkExecuted(c) \/ RevertToPending(c)
    BY <1>1
    DEF CallStep, SettleProof, AllProofsSettled, CollectProofs, EstimateGas, Submit,
        SubmitUnanswered, PreSubmissionFails, GetReceipt, ReceiptTimeout, DatabaseFails
  <1>2. CASE SweepStep
    BY <1>2 DEF SweepStep, SweepHashed, SkipReconcile, SweepStale, EndSweep, votingVars
  <1>3. CASE VotingNext
    BY <1>3 DEF VotingNext, BeginApprove, RecordApproval, ApprovalRejected, BeginDeny, RecordDenial,
                CheckIfFailed
  <1>4. ASSUME \/ \E c \in Callers, t \in TxIds : ReadTransaction(c, t)
               \/ \E h \in Hashes : ChainStep(h)
               \/ \E token \in Tokens, amount \in DepositAmounts : Deposit(token, amount)
               \/ Crash
               \/ SweepFails
               \/ UNCHANGED vars
        PROVE  UNCHANGED rows
    BY <1>4 DEF ReadTransaction, ChainStep, Mine, MineReverted, Deposit, Crash, SweepFails,
                vars, votingVars
  <1> QED
    BY <1>1, <1>2, <1>3, <1>4 DEF Next

\* A vote that was cast stays on its side, and an aggregated one stays
\* aggregated: the inserts of the handlers are refused where a vote exists, and
\* only votes that are pending are settled.
LEMMA VotesKept ==
  ASSUME TypeOK, [Next]_vars, NEW u \in TxIds
  PROVE  /\ Aggregated(u) \subseteq Aggregated(u)'
         /\ Denials(u) \subseteq Denials(u)'
         /\ Approvals(u) \subseteq Approvals(u)'
  <1> USE DEF Aggregated, Denials, Approvals
  <1>1. CASE UNCHANGED votes
    BY <1>1
  <1>2. ASSUME NEW t \in TxIds, NEW s \in Signers, RecordApproval(t, s) \/ RecordDenial(t, s)
        PROVE  /\ Aggregated(u) \subseteq Aggregated(u)'
               /\ Denials(u) \subseteq Denials(u)'
               /\ Approvals(u) \subseteq Approvals(u)'
    <2>1. \/ UNCHANGED votes
          \/ /\ votes[t][s] = "none"
             /\ \E vote \in {"pending", "deny"} : votes' = [votes EXCEPT ![t][s] = vote]
      BY <1>2 DEF RecordApproval, RecordDenial
    <2>2. \A r \in Signers : votes[u][r] # "none" => votes'[u][r] = votes[u][r]
      BY <2>1 DEF TypeOK, VotingTypeOK
    <2> QED
      BY <2>2
  <1>3. ASSUME NEW c \in Callers, NEW s \in Signers, NEW outcome \in {"aggregated", "failed"},
               SettleProof(c, s, outcome)
        PROVE  /\ Aggregated(u) \subseteq Aggregated(u)'
               /\ Denials(u) \subseteq Denials(u)'
               /\ Approvals(u) \subseteq Approvals(u)'
    <2> DEFINE t == calls[c].txId
    <2>1. votes[t][s] = "pending" /\ votes' = [votes EXCEPT ![t][s] = outcome]
      BY <1>3 DEF SettleProof, Unproved
    <2>2. \A r \in Signers : votes[u][r] # "pending" => votes'[u][r] = votes[u][r]
      BY <2>1 DEF TypeOK, VotingTypeOK
    <2>3. \A r \in Signers : votes[u][r] = "pending" => votes'[u][r] \in {"pending", outcome}
      BY <2>1 DEF TypeOK, VotingTypeOK
    <2> QED
      BY <2>2, <2>3
  <1> QED
    BY <1>1, <1>2, <1>3, VoteSteps

\* A submission that was made stays what it is, a success stays a success, and
\* a nonce that was used stays used.
LEMMA SubmissionsKept ==
  ASSUME Base, [Next]_vars
  PROVE  /\ usedNonces \subseteq usedNonces'
         /\ \A h \in Hashes : submissions[h].state # "unused" =>
                /\ submissions'[h].state # "unused"
                /\ submissions'[h].txId = submissions[h].txId
                /\ submissions'[h].proofs = submissions[h].proofs
                /\ submissions[h].state = "success" => submissions'[h].state = "success"
  <1> DEFINE Goal == /\ usedNonces \subseteq usedNonces'
                     /\ \A h \in Hashes : submissions[h].state # "unused" =>
                            /\ submissions'[h].state # "unused"
                            /\ submissions'[h].txId = submissions[h].txId
                            /\ submissions'[h].proofs = submissions[h].proofs
                            /\ submissions[h].state = "success" => submissions'[h].state = "success"
  <1>0. submissions \in [Hashes -> Submission]
    BY DEF Base, TypeOK
  <1>1. CASE UNCHANGED <<submissions, usedNonces, executions>>
    BY <1>1
  <1>2. ASSUME NEW c \in Callers, Submit(c) \/ SubmitUnanswered(c)
        PROVE  Goal
    <2>1. UNCHANGED usedNonces
      BY <1>2 DEF Submit, SubmitUnanswered, restVars, walletVars
    <2>2. PICK h \in Hashes :
             /\ submissions[h].state = "unused"
             /\ submissions' = [submissions EXCEPT ![h] =
                   [state |-> "mempool", txId |-> calls[c].txId, proofs |-> calls[c].proofs]]
      BY <1>2 DEF Submit, SubmitUnanswered, Unused
    <2> QED
      BY <1>0, <2>1, <2>2
  <1>3. ASSUME NEW h \in Hashes, Mine(h) \/ MineReverted(h)
        PROVE  Goal
    <2>1. usedNonces \subseteq usedNonces'
      BY <1>3 DEF Mine, MineReverted, Wallet!Execute, restVars, walletVars
    <2>2. PICK state \in {"success", "reverted"} :
             /\ submissions[h].state = "mempool"
             /\ submissions' = [submissions EXCEPT ![h].state = state]
      BY <1>3 DEF Mine, MineReverted
    <2> QED
      BY <1>0, <2>1, <2>2 DEF Submission
  <1> QED
    BY <1>1, <1>2, <1>3, SubmissionSteps

-----------------------------------------------------------------------------
(* What calls, rows and sweeps know of submissions.                        *)

\* Calls are changed by requests, from their first step on, and by a restart.
LEMMA CallActions ==
  ASSUME [Next]_vars
  PROVE  \/ \E c \in Callers : CallStep(c)
         \/ \E c \in Callers, t \in TxIds : ReadTransaction(c, t)
         \/ Crash
         \/ UNCHANGED calls
  <1>1. ASSUME SweepStep
        PROVE  UNCHANGED calls
    BY <1>1 DEF SweepStep, SweepHashed, Reconcile, SkipReconcile, SweepStale, ResetStale, EndSweep
  <1>2. ASSUME \/ VotingNext /\ UNCHANGED <<serviceVars, walletVars>>
               \/ \E h \in Hashes : ChainStep(h)
               \/ \E token \in Tokens, amount \in DepositAmounts : Deposit(token, amount)
               \/ \E t \in TxIds : Grow(t)
               \/ SweepFails
               \/ UNCHANGED vars
        PROVE  UNCHANGED calls
    BY <1>2 DEF ChainStep, Mine, MineReverted, Deposit, Grow, SweepFails, vars, serviceVars
  <1> QED
    BY <1>1, <1>2 DEF Next

\* A call that a step leaves alone still holds its submission.
LEMMA HoldKept ==
  ASSUME Base, [Next]_vars, NEW c \in Callers, calls'[c] = calls[c]
  PROVE  HoldsSubmission(c)'
  BY SubmissionsKept DEF Base, CallsHoldSubmissions, HoldsSubmission, At

\* A request works on its own call only.
LEMMA OneCall ==
  ASSUME TypeOK, NEW c \in Callers, CallStep(c), NEW d \in Callers, d # c
  PROVE  calls'[d] = calls[d]
  BY DEF TypeOK, CallStep, MarkExecuting, SettleProof, AllProofsSettled, CollectProofs, EstimateGas,
         Submit, SubmitUnanswered, PreSubmissionFails, PersistHash, GetReceipt, ReceiptTimeout,
         MarkExecuted, DatabaseFails, RevertToPending, Goto, Return

\* A call that is moved on to a step without a submission, or ended, is not
\* idle unless it has ended.
LEMMA HoldEarly ==
  ASSUME Base, NEW c \in Callers, ~At(c, "idle"),
         \/ \E pc \in CallSteps \ {"persisting", "waiting", "recording"} : Goto(c, pc)
         \/ Return(c)
  PROVE  HoldsSubmission(c)'
  <1>0. calls \in [Callers -> Call] /\ calls[c].txId \in TxIds
    BY DEF Base, TypeOK, CallsHoldSubmissions, HoldsSubmission
  <1>1. ASSUME NEW pc \in CallSteps \ {"persisting", "waiting", "recording"}, Goto(c, pc)
        PROVE  HoldsSubmission(c)'
    <2>1. calls'[c] = [calls[c] EXCEPT !.pc = pc]
      BY <1>0, <1>1 DEF Goto
    <2>2. calls'[c].pc = pc /\ calls'[c].txId = calls[c].txId
      BY <1>0, <2>1 DEF Call
    <2> QED
      BY <1>0, <1>1, <2>2 DEF HoldsSubmission, At
  <1>2. CASE Return(c)
    BY <1>0, <1>2 DEF Return, Idle, HoldsSubmission, At
  <1> QED
    BY <1>1, <1>2

\* Every step keeps what calls know of their submissions.
LEMMA CallsHoldKept ==
  ASSUME Base, [Next]_vars
  PROVE  CallsHoldSubmissions'
  <1> USE DEF Base
  <1>1. ASSUME NEW c \in Callers, CallStep(c)
        PROVE  HoldsSubmission(c)'
    <2>1. CASE \/ MarkExecuting(c) \/ AllProofsSettled(c) \/ EstimateGas(c) \/ SubmitUnanswered(c)
               \/ PreSubmissionFails(c) \/ ReceiptTimeout(c) \/ MarkExecuted(c)
               \/ DatabaseFails(c) \/ RevertToPending(c)
      <3>1. /\ ~At(c, "idle")
            /\ \/ \E pc \in CallSteps \ {"persisting", "waiting", "recording"} : Goto(c, pc)
               \/ Return(c)
        BY <2>1 DEF MarkExecuting, AllProofsSettled, EstimateGas, SubmitUnanswered,
                    PreSubmissionFails, ReceiptTimeout, MarkExecuted, DatabaseFails,
                    RevertToPending, At, CallSteps
      <3> QED
        BY <3>1, HoldEarly
    <2>2. ASSUME NEW s \in Signers, NEW outcome \in {"aggregated", "failed"},
                 SettleProof(c, s, outcome)
          PROVE  HoldsSubmission(c)'
      BY <2>2, HoldKept DEF SettleProof
    <2>3. CASE CollectProofs(c)
      <3>1. calls[c].txId \in TxIds
        BY <2>3 DEF CollectProofs, CallsHoldSubmissions, HoldsSubmission, At
      <3>2. calls \in [Callers -> Call]
        BY DEF TypeOK
      <3>3. calls'[c].txId = calls[c].txId /\ calls'[c].pc \in {"reverting", "estimating"}
        <4>1. CASE Goto(c, "reverting")
          BY <3>2, <4>1 DEF Goto, Call
        <4>2. CASE calls' = [calls EXCEPT ![c].pc = "estimating",
                                          ![c].proofs = Aggregated(calls[c].txId)]
          BY <3>2, <4>2 DEF Call
        <4> QED
          BY <2>3, <4>1, <4>2 DEF CollectProofs
      <3> QED
        BY <3>1, <3>3 DEF HoldsSubmission, At
    <2>4. CASE Submit(c)
      <3>1. PICK h \in Hashes :
               /\ submissions' = [submissions EXCEPT ![h] =
                     [state |-> "mempool", txId |-> calls[c].txId, proofs |-> calls[c].proofs]]
               /\ calls' = [calls EXCEPT ![c].pc = "persisting", ![c].hash = h]
        BY <2>4 DEF Submit
      <3>2. /\ calls'[c].pc = "persisting"
            /\ calls'[c].hash = h
            /\ calls'[c].txId = calls[c].txId
        BY <3>1 DEF TypeOK, Call
      <3>3. submissions'[h] = [state |-> "mempool", txId |-> calls[c].txId, proofs |-> calls[c].proofs]
        BY <3>1 DEF TypeOK
      <3>4. calls[c].txId \in TxIds
        BY <2>4 DEF Submit, At, CallsHoldSubmissions, HoldsSubmission
      <3> QED
        BY <3>2, <3>3, <3>4 DEF HoldsSubmission, At
    <2>5. CASE PersistHash(c) \/ GetReceipt(c)
      <3>1. PICK pc \in {"waiting", "recording", "reverting"} :
               /\ Goto(c, pc)
               /\ pc = "recording" => submissions[calls[c].hash].state = "success"
        BY <2>5 DEF PersistHash, GetReceipt
      <3>2. UNCHANGED submissions /\ calls[c].pc \in {"persisting", "waiting"}
        BY <2>5 DEF PersistHash, GetReceipt, At
      <3>3. calls'[c] = [calls[c] EXCEPT !.pc = pc]
        BY <3>1 DEF Goto, TypeOK
      <3> QED
        BY <3>1, <3>2, <3>3 DEF HoldsSubmission, CallsHoldSubmissions, At, TypeOK, Call
    <2> QED
      BY <1>1, <2>1, <2>2, <2>3, <2>4, <2>5 DEF CallStep
  <1>2. ASSUME NEW c \in Callers, CallStep(c), NEW d \in Callers
        PROVE  HoldsSubmission(d)'
    BY <1>1, <1>2, OneCall, HoldKept
  <1>3. ASSUME NEW c \in Callers, NEW t \in TxIds, ReadTransaction(c, t), NEW d \in Callers
        PROVE  HoldsSubmission(d)'
    <2>1. CASE d = c
      BY <1>3, <2>1 DEF ReadTransaction, HoldsSubmission, At, TypeOK, Idle
    <2>2. CASE d # c
      BY <1>3, <2>2, HoldKept DEF ReadTransaction, TypeOK
    <2> QED
      BY <2>1, <2>2
  <1>4. CASE Crash
    BY <1>4 DEF Crash, CallsHoldSubmissions, HoldsSubmission, At, Idle
  <1>5. CASE UNCHANGED calls
    BY <1>5, HoldKept DEF CallsHoldSubmissions
  <1> QED
    BY <1>2, <1>3, <1>4, <1>5, CallActions DEF CallsHoldSubmissions

\* Every step keeps that what succeeded has used up its nonce.
LEMMA SubmissionsUseKept ==
  ASSUME Base, [Next]_vars
  PROVE  SubmissionsUseNonces'
  <1> USE DEF Base
  <1>1. CASE UNCHANGED <<submissions, usedNonces, executions>>
    BY <1>1 DEF SubmissionsUseNonces
  <1>2. ASSUME NEW c \in Callers, Submit(c) \/ SubmitUnanswered(c)
        PROVE  SubmissionsUseNonces'
    <2>1. UNCHANGED usedNonces
      BY <1>2 DEF Submit, SubmitUnanswered, restVars, walletVars
    <2>2. PICK h \in Hashes : submissions' = [submissions EXCEPT ![h] =
                   [state |-> "mempool", txId |-> calls[c].txId, proofs |-> calls[c].proofs]]
      BY <1>2 DEF Submit, SubmitUnanswered
    <2>3. calls[c].txId \in TxIds
      BY <1>2 DEF Submit, SubmitUnanswered, At, CallsHoldSubmissions, HoldsSubmission
    <2> QED
      BY <2>1, <2>2, <2>3 DEF SubmissionsUseNonces, TypeOK
  <1>3. ASSUME NEW h \in Hashes, Mine(h)
        PROVE  SubmissionsUseNonces'
    <2>1. submissions' = [submissions EXCEPT ![h].state = "success"]
      BY <1>3 DEF Mine
    <2>2. usedNonces' = usedNonces \union {submissions[h].txId}
      BY <1>3 DEF Mine, Wallet!Execute
    <2>3. submissions[h].state # "unused"
      BY <1>3 DEF Mine
    <2> QED
      BY <2>1, <2>2, <2>3 DEF SubmissionsUseNonces, TypeOK, Submission
  <1>4. ASSUME NEW h \in Hashes, MineReverted(h)
        PROVE  SubmissionsUseNonces'
    <2>1. submissions' = [submissions EXCEPT ![h].state = "reverted"] /\ UNCHANGED usedNonces
      BY <1>4 DEF MineReverted, restVars, walletVars
    <2>2. submissions[h].state # "unused"
      BY <1>4 DEF MineReverted
    <2> QED
      BY <2>1, <2>2 DEF SubmissionsUseNonces, TypeOK, Submission
  <1> QED
    BY <1>1, <1>2, <1>3, <1>4, SubmissionSteps

\* What may become of a row in one step: a hash is its own, EXECUTED is backed
\* by a success, FAILED is decided by a denial, and only a call that updates the
\* threshold changes one.
RowEvolves(t) ==
    /\ \/ rows'[t].txHash \in {NoHash, rows[t].txHash}
       \/ SubmissionOf(rows'[t].txHash, t)
    /\ rows'[t].status = "EXECUTED" =>
           \/ rows[t].status = "EXECUTED"
           \/ \E h \in Hashes : SubmissionOf(h, t) /\ submissions[h].state = "success"
    /\ rows'[t].status = "FAILED" =>
           rows[t].status = "FAILED" \/ \E s \in Signers : denying[t][s] = "hopeless"
    /\ \/ rows'[t].threshold = rows[t].threshold
       \/ \E u \in TxIds : CallOf[u].kind = "updateSignaturesRequired"

\* The fields of a row after a write of its status,
LEMMA StatusFields ==
  ASSUME NEW row \in Row, NEW status
  PROVE  /\ WithStatus(row, status).status = status
         /\ WithStatus(row, status).txHash = row.txHash
         /\ WithStatus(row, status).threshold = row.threshold
  BY DEF WithStatus, Written, Row

\* of its hash,
LEMMA HashFields ==
  ASSUME NEW row \in Row, NEW h
  PROVE  /\ Written([row EXCEPT !.txHash = h]).status = row.status
         /\ Written([row EXCEPT !.txHash = h]).txHash = h
         /\ Written([row EXCEPT !.txHash = h]).threshold = row.threshold
  BY DEF Written, Row

\* and of both.
LEMMA BothFields ==
  ASSUME NEW row \in Row, NEW status, NEW h
  PROVE  /\ WithStatus([row EXCEPT !.txHash = h], status).status = status
         /\ WithStatus([row EXCEPT !.txHash = h], status).txHash = h
         /\ WithStatus([row EXCEPT !.txHash = h], status).threshold = row.threshold
  BY DEF WithStatus, Written, Row

\* A success that is recorded, by a request or by the sweep, is that of the row;
\* other rows get at most another threshold.
LEMMA RecordedEvolves ==
  ASSUME TypeOK, NEW u \in TxIds, NEW h \in Hashes, rows' = Recorded(u, h),
         SubmissionOf(h, u), submissions[h].state = "success", NEW t \in TxIds
  PROVE  RowEvolves(t)
  <1>1. rows[t] \in Row
    BY DEF TypeOK, VotingTypeOK
  <1>2. CASE t = u
    <2>1. rows'[t] = WithStatus([rows[t] EXCEPT !.txHash = h], "EXECUTED")
      BY <1>2 DEF Recorded
    <2> QED
      BY <1>1, <1>2, <2>1, BothFields DEF RowEvolves
  <1>3. CASE t # u /\ CallOf[u].kind = "updateSignaturesRequired" /\ rows[t].status = "PENDING"
    <2>1. rows'[t] = Written([rows[t] EXCEPT !.threshold = CallOf[u].required])
      BY <1>3 DEF Recorded
    <2>2. rows'[t].status = rows[t].status /\ rows'[t].txHash = rows[t].txHash
      BY <1>1, <2>1 DEF Written, Row
    <2> QED
      BY <1>3, <2>2 DEF RowEvolves
  <1>4. CASE t # u /\ ~(CallOf[u].kind = "updateSignaturesRequired" /\ rows[t].status = "PENDING")
    BY <1>4 DEF Recorded, RowEvolves
  <1> QED
    BY <1>2, <1>3, <1>4

\* A write of one row that neither records a success nor changes a threshold.
LEMMA OneWriteEvolves ==
  ASSUME TypeOK, NEW u, NEW row, rows' = [rows EXCEPT ![u] = row], NEW t \in TxIds,
         u = t =>
             /\ row.threshold = rows[t].threshold
             /\ \/ row.txHash \in {NoHash, rows[t].txHash}
                \/ SubmissionOf(row.txHash, t)
             /\ \/ row.status \in {"PENDING", "EXECUTING", rows[t].status}
                \/ row.status = "FAILED" /\ \E s \in Signers : denying[t][s] = "hopeless"
  PROVE  RowEvolves(t)
  <1>0. rows \in [TxIds -> Row]
    BY DEF TypeOK, VotingTypeOK
  <1>1. CASE u = t
    <2>1. rows'[t] = row
      BY <1>0, <1>1
    <2> QED
      BY <1>1, <2>1 DEF RowEvolves
  <1>2. CASE u # t
    <2>1. rows'[t] = rows[t]
      BY <1>0, <1>2
    <2> QED
      BY <2>1 DEF RowEvolves
  <1> QED
    BY <1>1, <1>2

\* Every step takes rows only where they may go.
LEMMA RowsEvolve ==
  ASSUME Base, HashesAreOwn, [Next]_vars, NEW t \in TxIds
  PROVE  RowEvolves(t)
  <1>0. /\ rows \in [TxIds -> Row]
        /\ rows[t] \in Row
        /\ calls \in [Callers -> Call]
    BY DEF Base, TypeOK, VotingTypeOK
  <1>1. CASE UNCHANGED rows
    BY <1>1 DEF RowEvolves
  <1>2. ASSUME NEW u \in TxIds, NEW s \in Signers, MarkFailed(u, s)
        PROVE  RowEvolves(t)
    <2> DEFINE row == WithStatus(rows[u], "FAILED")
    <2>1. denying[u][s] = "hopeless" /\ rows' = [rows EXCEPT ![u] = row]
      BY <1>2 DEF MarkFailed
    <2>2. row.status = "FAILED" /\ row.txHash = rows[u].txHash /\ row.threshold = rows[u].threshold
      BY <1>0, StatusFields
    <2> HIDE DEF row
    <2> QED
      BY <2>1, <2>2, OneWriteEvolves DEF Base
  <1>3. ASSUME NEW c \in Callers, MarkExecuting(c)
        PROVE  RowEvolves(t)
    <2> DEFINE u == calls[c].txId
               row == WithStatus(rows[u], "EXECUTING")
    <2>1. u \in TxIds /\ rows' = [rows EXCEPT ![u] = row]
      BY <1>3 DEF MarkExecuting, At, Base, CallsHoldSubmissions, HoldsSubmission
    <2>2. /\ row.status = "EXECUTING"
          /\ row.txHash = rows[u].txHash
          /\ row.threshold = rows[u].threshold
      BY <1>0, <2>1, StatusFields
    <2> HIDE DEF row, u
    <2> QED
      BY <2>1, <2>2, OneWriteEvolves DEF Base
  <1>4. ASSUME NEW c \in Callers, PersistHash(c)
        PROVE  RowEvolves(t)
    <2> DEFINE u == calls[c].txId
               row == Written([rows[u] EXCEPT !.txHash = calls[c].hash])
    <2>1. u \in TxIds /\ SubmissionOf(calls[c].hash, u)
      BY <1>4 DEF PersistHash, At, Base, CallsHoldSubmissions, HoldsSubmission, SubmissionOf
    <2>2. rows' = [rows EXCEPT ![u] = row]
      BY <1>4 DEF PersistHash
    <2>3. /\ row.status = rows[u].status
          /\ row.txHash = calls[c].hash
          /\ row.threshold = rows[u].threshold
      BY <1>0, <2>1, HashFields
    <2> HIDE DEF row, u
    <2> QED
      BY <2>1, <2>2, <2>3, OneWriteEvolves DEF Base
  <1>5. ASSUME NEW c \in Callers, MarkExecuted(c)
        PROVE  RowEvolves(t)
    <2>1. /\ calls[c].txId \in TxIds
          /\ calls[c].hash \in Hashes
          /\ SubmissionOf(calls[c].hash, calls[c].txId)
          /\ submissions[calls[c].hash].state = "success"
      BY <1>5 DEF MarkExecuted, At, Base, CallsHoldSubmissions, HoldsSubmission, SubmissionOf
    <2> QED
      BY <1>5, <2>1, RecordedEvolves DEF MarkExecuted, Base
  <1>6. ASSUME NEW u \in TxIds,
               rows' = [rows EXCEPT ![u] = WithStatus([@ EXCEPT !.txHash = NoHash], "PENDING")]
        PROVE  RowEvolves(t)
    <2> DEFINE row == WithStatus([rows[u] EXCEPT !.txHash = NoHash], "PENDING")
    <2>1. rows' = [rows EXCEPT ![u] = row]
      BY <1>6
    <2>2. row.status = "PENDING" /\ row.txHash = NoHash /\ row.threshold = rows[u].threshold
      <3>1. rows[u] \in Row
        BY <1>0
      <3> QED
        BY <3>1 DEF WithStatus, Written, Row
    <2> HIDE DEF row
    <2> QED
      BY <2>1, <2>2, OneWriteEvolves DEF Base
  <1>7. ASSUME NEW c \in Callers, RevertToPending(c)
        PROVE  RowEvolves(t)
    <2>1. calls[c].txId \in TxIds
      BY <1>7 DEF RevertToPending, At, Base, CallsHoldSubmissions, HoldsSubmission
    <2> QED
      BY <1>1, <1>6, <1>7, <2>1 DEF RevertToPending
  <1>8. ASSUME NEW u \in TxIds, NEW h \in Hashes, Reconcile(u, h)
        PROVE  RowEvolves(t)
    <2>1. SubmissionOf(h, u)
      BY <1>8 DEF Reconcile, HashesAreOwn
    <2>2. CASE ReconcileMined(u, h)
      BY <2>1, <2>2, RecordedEvolves DEF ReconcileMined, Base
    <2>3. CASE ReconcileReverted(u, h)
      BY <1>6, <2>3 DEF ReconcileReverted
    <2> QED
      BY <1>8, <2>2, <2>3 DEF Reconcile
  <1>9. ASSUME NEW u \in TxIds, ResetStale(u)
        PROVE  RowEvolves(t)
    BY <1>6, <1>9 DEF ResetStale
  <1>10. ASSUME NEW u \in TxIds, Grow(u)
         PROVE  RowEvolves(t)
    <2>1. rows' = [rows EXCEPT ![u].stale = TRUE]
      BY <1>10 DEF Grow
    <2> QED
      BY <1>0, <2>1 DEF RowEvolves, Row
  <1> QED
    BY <1>1, <1>2, <1>3, <1>4, <1>5, <1>7, <1>8, <1>9, <1>10, RowSteps

\* What the sweep holds of the table comes from its query.
LEMMA SnapshotSteps ==
  ASSUME TypeOK, [Next]_vars, NEW p \in sweep'.hashed
  PROVE  p \in sweep.hashed \/ SweepHashed
  <1>1. sweep \in [pc : {"idle", "hashed", "stale"}, hashed : SUBSET (TxIds \X Hashes),
                   stale : SUBSET TxIds]
    BY DEF TypeOK
  <1>2. CASE SweepStep
    <2>1. \/ SweepHashed
          \/ \E q : sweep' = [sweep EXCEPT !.hashed = @ \ {q}]
          \/ \E q : sweep' = [sweep EXCEPT !.stale = @ \ {q}]
          \/ sweep'.hashed = {}
      <3>1. CASE SweepStale \/ EndSweep
        BY <3>1 DEF SweepStale, EndSweep, NotSweeping
      <3>2. ASSUME NEW t \in TxIds, NEW h \in Hashes, Reconcile(t, h) \/ SkipReconcile(t, h)
            PROVE  sweep' = [sweep EXCEPT !.hashed = @ \ {<<t, h>>}]
        BY <3>2 DEF Reconcile, SkipReconcile
      <3>3. ASSUME NEW t \in TxIds, ResetStale(t)
            PROVE  sweep' = [sweep EXCEPT !.stale = @ \ {t}]
        BY <3>3 DEF ResetStale
      <3> QED
        BY <1>2, <3>1, <3>2, <3>3 DEF SweepStep
    <2> QED
      BY <1>1, <2>1
  <1>3. CASE Crash \/ SweepFails
    BY <1>3 DEF Crash, SweepFails, NotSweeping
  <1>4. ASSUME \/ VotingNext /\ UNCHANGED <<serviceVars, walletVars>>
               \/ \E c \in Callers, t \in TxIds : ReadTransaction(c, t)
               \/ \E h \in Hashes : ChainStep(h)
               \/ \E token \in Tokens, amount \in DepositAmounts : Deposit(token, amount)
               \/ \E t \in TxIds : Grow(t)
               \/ UNCHANGED vars
        PROVE  UNCHANGED sweep
    BY <1>4 DEF ReadTransaction, ChainStep, Mine, MineReverted, Deposit, Grow, vars,
                serviceVars, restVars
  <1>5. ASSUME NEW c \in Callers, CallStep(c)
        PROVE  UNCHANGED sweep
    BY <1>5, CallStepFrame DEF restVars
  <1> QED
    BY <1>2, <1>3, <1>4, <1>5 DEF Next

\* Every step keeps that hashes are of submissions of their rows.
LEMMA HashesKept ==
  ASSUME Base, HashesAreOwn, [Next]_vars
  PROVE  HashesAreOwn'
  <1>1. ASSUME NEW t \in TxIds, NEW h \in Hashes, SubmissionOf(h, t)
        PROVE  SubmissionOf(h, t)'
    BY <1>1, SubmissionsKept DEF SubmissionOf
  <1>2. ASSUME NEW t \in TxIds, rows'[t].txHash # NoHash
        PROVE  SubmissionOf(rows[t].txHash, t)'
    <2>1. SubmissionOf(rows'[t].txHash, t)
      BY <1>2, RowsEvolve DEF RowEvolves, HashesAreOwn
    <2>2. rows'[t].txHash \in Hashes
      BY <1>2, StepTyped DEF TypeOK, VotingTypeOK, Row
    <2> QED
      BY <2>1, <2>2, SubmissionsKept DEF SubmissionOf
  <1>3. ASSUME NEW p \in sweep'.hashed
        PROVE  SubmissionOf(p[2], p[1])'
    <2>1. p \in TxIds \X Hashes
      BY StepTyped DEF TypeOK
    <2>2. SubmissionOf(p[2], p[1])
      <3>1. CASE p \in sweep.hashed
        BY <3>1 DEF HashesAreOwn
      <3>2. CASE SweepHashed
        BY <3>2 DEF SweepHashed, HashesAreOwn
      <3>3. p \in sweep.hashed \/ SweepHashed
        BY SnapshotSteps DEF Base
      <3> QED
        BY <3>1, <3>2, <3>3
    <2> QED
      BY <1>1, <2>1, <2>2
  <1> QED
    BY <1>2, <1>3 DEF HashesAreOwn

\* Every step keeps that what is EXECUTED was executed.
LEMMA ExecutedKept ==
  ASSUME Base, HashesAreOwn, ExecutedOnChain, [Next]_vars
  PROVE  ExecutedOnChain'
  <1> SUFFICES ASSUME NEW t \in TxIds, rows'[t].status = "EXECUTED"
               PROVE  t \in usedNonces'
    BY DEF ExecutedOnChain
  <1>1. CASE rows[t].status = "EXECUTED"
    BY <1>1, SubmissionsKept DEF ExecutedOnChain
  <1>2. ASSUME NEW h \in Hashes, SubmissionOf(h, t), submissions[h].state = "success"
        PROVE  t \in usedNonces'
    BY <1>2, SubmissionsKept DEF SubmissionOf, Base, SubmissionsUseNonces
  <1> QED
    BY <1>1, <1>2, RowsEvolve DEF RowEvolves

\* The wallet executes a nonce once, so that a second submission of the same
\* transaction cannot succeed.
LEMMA OneSuccessKept ==
  ASSUME Base, OneSubmissionSucceeds, [Next]_vars
  PROVE  OneSubmissionSucceeds'
  <1> SUFFICES ASSUME NEW g \in Hashes, NEW h \in Hashes,
                      submissions'[g].state = "success",
                      submissions'[h].state = "success",
                      submissions'[g].txId = submissions'[h].txId
               PROVE  g = h
    BY DEF OneSubmissionSucceeds
  <1>0. submissions \in [Hashes -> Submission]
    BY DEF Base, TypeOK
  <1>1. CASE UNCHANGED <<submissions, usedNonces, executions>>
    BY <1>1 DEF OneSubmissionSucceeds
  <1>2. ASSUME NEW c \in Callers, Submit(c) \/ SubmitUnanswered(c)
        PROVE  g = h
    <2>1. PICK k \in Hashes : submissions' = [submissions EXCEPT ![k] =
                   [state |-> "mempool", txId |-> calls[c].txId, proofs |-> calls[c].proofs]]
      BY <1>2 DEF Submit, SubmitUnanswered
    <2>2. g # k /\ h # k
      BY <1>0, <2>1
    <2> QED
      BY <1>0, <2>1, <2>2 DEF OneSubmissionSucceeds
  <1>3. ASSUME NEW k \in Hashes, Mine(k)
        PROVE  g = h
    <2>1. submissions' = [submissions EXCEPT ![k].state = "success"]
      BY <1>3 DEF Mine
    <2>2. submissions[k].txId \notin usedNonces
      BY <1>3 DEF Mine, Wallet!Execute, Wallet!Authorised
    <2>3. \A j \in Hashes : submissions[j].state = "success" => submissions[j].txId \in usedNonces
      BY DEF Base, SubmissionsUseNonces
    <2>4. \A j \in Hashes : submissions'[j].txId = submissions[j].txId
      BY <1>0, <2>1 DEF Submission
    <2>5. \A j \in Hashes : j # k => submissions'[j].state = submissions[j].state
      BY <1>0, <2>1
    <2> QED
      BY <2>2, <2>3, <2>4, <2>5 DEF OneSubmissionSucceeds
  <1>4. ASSUME NEW k \in Hashes, MineReverted(k)
        PROVE  g = h
    <2>1. submissions' = [submissions EXCEPT ![k].state = "reverted"]
      BY <1>4 DEF MineReverted
    <2>2. g # k /\ h # k
      BY <1>0, <2>1 DEF Submission
    <2> QED
      BY <1>0, <2>1, <2>2 DEF OneSubmissionSucceeds
  <1> QED
    BY <1>1, <1>2, <1>3, <1>4, SubmissionSteps

-----------------------------------------------------------------------------
(* Proofs are votes.                                                       *)

\* The proofs of a call, of a submission and of an execution are aggregated
\* votes for their transaction.
ProofsAreVotes ==
    /\ \A c \in Callers : ~At(c, "idle") => calls[c].proofs \subseteq Aggregated(calls[c].txId)
    /\ \A h \in Hashes : submissions[h].state # "unused" =>
           submissions[h].proofs \subseteq Aggregated(submissions[h].txId)
    /\ \A e \in executions : e.approvers \subseteq Aggregated(e.nonce)

\* What an execution leaves behind: its transaction, and the set of its proofs.
LEMMA MinedExecution ==
  ASSUME Base, NEW h \in Hashes, Mine(h)
  PROVE  /\ submissions[h].txId \in TxIds
         /\ usedNonces' = usedNonces \union {submissions[h].txId}
         /\ \A e \in executions' \ executions :
                e.nonce = submissions[h].txId /\ e.approvers = submissions[h].proofs
  <1>1. submissions[h].txId \in TxIds /\ submissions[h].proofs \in SUBSET Signers
    BY DEF Base, TypeOK, SubmissionsUseNonces, Mine, Submission
  <1>2. Wallet!Range(SetToSeq(submissions[h].proofs)) = submissions[h].proofs
    BY <1>1, SetToSeqLists DEF Range, Wallet!Range
  <1>3. Wallet!Execute(submissions[h].txId, CallOf[submissions[h].txId],
                       SetToSeq(submissions[h].proofs))
    BY DEF Mine
  <1>4. usedNonces' = usedNonces \union {submissions[h].txId}
    BY <1>3 DEF Wallet!Execute
  <1>5. executions' = executions \union
            {[nonce |-> submissions[h].txId, call |-> CallOf[submissions[h].txId],
              approvers |-> submissions[h].proofs, signers |-> commitments,
              required |-> signaturesRequired]}
    BY <1>2, <1>3 DEF Wallet!Execute, Wallet!Execution
  <1> QED
    BY <1>1, <1>4, <1>5

\* How the proofs of a call come about: it has those it had, or none yet, or it
\* takes what is aggregated.
LEMMA CallProofs ==
  ASSUME Base, [Next]_vars, NEW d \in Callers, calls'[d].pc # "idle"
  PROVE  /\ \/ /\ ~At(d, "idle")
               /\ calls'[d].txId = calls[d].txId
               /\ calls'[d].threshold = calls[d].threshold
               /\ calls'[d].proofs = calls[d].proofs
               /\ calls'[d].pc \in {"estimating", "sending"} =>
                      calls[d].pc \in {"estimating", "sending"}
            \/ /\ ~At(d, "idle")
               /\ calls'[d].txId = calls[d].txId
               /\ calls'[d].threshold = calls[d].threshold
               /\ calls'[d].proofs = Aggregated(calls[d].txId)
               /\ ~(Cardinality(calls'[d].proofs) < calls[d].threshold)
            \/ /\ calls'[d].txId \in TxIds
               /\ calls'[d].threshold = rows[calls'[d].txId].threshold
               /\ calls'[d].proofs = {}
               /\ calls'[d].pc = "read"
  <1> DEFINE Kept == /\ ~At(d, "idle")
                     /\ calls'[d].txId = calls[d].txId
                     /\ calls'[d].threshold = calls[d].threshold
                     /\ calls'[d].proofs = calls[d].proofs
                     /\ calls'[d].pc \in {"estimating", "sending"} =>
                            calls[d].pc \in {"estimating", "sending"}
             Taken == /\ ~At(d, "idle")
                      /\ calls'[d].txId = calls[d].txId
                      /\ calls'[d].threshold = calls[d].threshold
                      /\ calls'[d].proofs = Aggregated(calls[d].txId)
                      /\ ~(Cardinality(calls'[d].proofs) < calls[d].threshold)
             Begun == /\ calls'[d].txId \in TxIds
                      /\ calls'[d].threshold = rows[calls'[d].txId].threshold
                      /\ calls'[d].proofs = {}
                      /\ calls'[d].pc = "read"
  <1>0. calls \in [Callers -> Call]
    BY DEF Base, TypeOK
  <1>1. CASE calls'[d] = calls[d]
    BY <1>1 DEF At
  <1>2. ASSUME NEW pc \in CallSteps, Goto(d, pc), ~At(d, "idle"),
               pc \in {"estimating", "sending"} => calls[d].pc \in {"estimating", "sending"}
        PROVE  Kept
    <2>1. calls'[d] = [calls[d] EXCEPT !.pc = pc]
      BY <1>0, <1>2 DEF Goto
    <2> QED
      BY <1>0, <1>2, <2>1 DEF Call
  <1>3. CASE Return(d)
    BY <1>0, <1>3 DEF Return, Idle
  <1>4. CASE CollectProofs(d)
    <2>1. CASE Goto(d, "reverting")
      BY <1>2, <1>4, <2>1 DEF CollectProofs, At, CallSteps
    <2>2. CASE /\ calls' = [calls EXCEPT ![d].pc = "estimating",
                                         ![d].proofs = Aggregated(calls[d].txId)]
               /\ ~(Cardinality(Aggregated(calls[d].txId)) < calls[d].threshold)
      <3>1. calls'[d] = [calls[d] EXCEPT !.pc = "estimating",
                                         !.proofs = Aggregated(calls[d].txId)]
        BY <1>0, <2>2
      <3> QED
        BY <1>0, <1>4, <2>2, <3>1 DEF Call, CollectProofs, At
    <2> QED
      BY <1>4, <2>1, <2>2 DEF CollectProofs
  <1>5. CASE Submit(d)
    <2>1. PICK h \in Hashes : calls' = [calls EXCEPT ![d].pc = "persisting", ![d].hash = h]
      BY <1>5 DEF Submit
    <2>2. calls'[d] = [calls[d] EXCEPT !.pc = "persisting", !.hash = h]
      BY <1>0, <2>1
    <2> QED
      BY <1>0, <1>5, <2>2 DEF Submit, At, Call
  <1>6. CASE EstimateGas(d)
    <2>1. PICK pc \in {"sending", "reverting"} : Goto(d, pc)
      BY <1>6 DEF EstimateGas
    <2> QED
      BY <1>2, <1>6, <2>1 DEF EstimateGas, At, CallSteps
  <1>7. CASE \/ MarkExecuting(d) \/ AllProofsSettled(d) \/ SubmitUnanswered(d)
             \/ PreSubmissionFails(d) \/ PersistHash(d) \/ GetReceipt(d)
    <2>1. PICK pc \in {"aggregating", "finalising", "reverting", "waiting", "recording"} :
              Goto(d, pc)
      BY <1>7 DEF MarkExecuting, AllProofsSettled, SubmitUnanswered, PreSubmissionFails,
                  PersistHash, GetReceipt
    <2>2. ~At(d, "idle")
      BY <1>7 DEF MarkExecuting, AllProofsSettled, SubmitUnanswered, PreSubmissionFails,
                  PersistHash, GetReceipt, At
    <2> QED
      BY <1>2, <2>1, <2>2 DEF CallSteps
  <1>8. ASSUME NEW t \in TxIds, ReadTransaction(d, t)
        PROVE  Begun
    <2>1. calls'[d] = [Idle EXCEPT !.pc = "read", !.txId = t, !.threshold = rows[t].threshold]
      BY <1>0, <1>8 DEF ReadTransaction
    <2> QED
      BY <2>1 DEF Idle
  <1>9. ASSUME CallStep(d)
        PROVE  Kept \/ Taken \/ Begun
    <2>1. \/ Return(d) \/ calls'[d] = calls[d] \/ CollectProofs(d) \/ Submit(d) \/ EstimateGas(d)
          \/ MarkExecuting(d) \/ AllProofsSettled(d) \/ SubmitUnanswered(d)
          \/ PreSubmissionFails(d) \/ PersistHash(d) \/ GetReceipt(d)
      BY <1>9 DEF CallStep, SettleProof, ReceiptTimeout, MarkExecuted, DatabaseFails, RevertToPending
    <2> QED
      BY <2>1, <1>1, <1>3, <1>4, <1>5, <1>6, <1>7
  <1>10. ASSUME NEW c \in Callers, CallStep(c) \/ (\E t \in TxIds : ReadTransaction(c, t)), c # d
         PROVE  calls'[d] = calls[d]
    BY <1>0, <1>10, OneCall DEF Base, ReadTransaction
  <1>11. CASE Crash
    BY <1>11 DEF Crash, Idle
  <1> QED
    BY <1>1, <1>8, <1>9, <1>10, <1>11, CallActions

\* A new submission has the transaction and the proofs of the call that made it.
LEMMA NewSubmission ==
  ASSUME Base, [Next]_vars, NEW h \in Hashes,
         submissions[h].state = "unused", submissions'[h].state # "unused"
  PROVE  \E c \in Callers : /\ At(c, "sending")
                            /\ calls[c].txId \in TxIds
                            /\ submissions'[h].txId = calls[c].txId
                            /\ submissions'[h].proofs = calls[c].proofs
                            /\ submissions'[h].state = "mempool"
  <1>0. submissions \in [Hashes -> Submission]
    BY DEF Base, TypeOK
  <1>1. PICK c \in Callers : Submit(c) \/ SubmitUnanswered(c)
    <2>1. ~\E k \in Hashes : Mine(k) \/ MineReverted(k)
      <3> SUFFICES ASSUME NEW k \in Hashes, Mine(k) \/ MineReverted(k)
                   PROVE  FALSE
        OBVIOUS
      <3>1. PICK state : submissions' = [submissions EXCEPT ![k].state = state]
        BY DEF Mine, MineReverted
      <3>2. submissions[k].state = "mempool"
        BY DEF Mine, MineReverted
      <3> QED
        BY <1>0, <3>1, <3>2
    <2> QED
      BY <2>1, SubmissionSteps
  <1>2. At(c, "sending") /\ calls[c].txId \in TxIds
    BY <1>1 DEF Submit, SubmitUnanswered, At, Base, CallsHoldSubmissions, HoldsSubmission
  <1>3. PICK k \in Hashes : submissions' = [submissions EXCEPT ![k] =
                [state |-> "mempool", txId |-> calls[c].txId, proofs |-> calls[c].proofs]]
    BY <1>1 DEF Submit, SubmitUnanswered
  <1>4. k = h
    BY <1>0, <1>3
  <1> QED
    BY <1>0, <1>2, <1>3, <1>4

\* Nonces are used up, and executions made, by mining only.
LEMMA NewNonce ==
  ASSUME Base, [Next]_vars
  PROVE  \/ UNCHANGED <<usedNonces, executions>>
         \/ \E h \in Hashes : Mine(h)
  <1>1. ASSUME NEW c \in Callers, Submit(c) \/ SubmitUnanswered(c)
        PROVE  UNCHANGED <<usedNonces, executions>>
    BY <1>1 DEF Submit, SubmitUnanswered, restVars, walletVars
  <1>2. ASSUME NEW h \in Hashes, MineReverted(h)
        PROVE  UNCHANGED <<usedNonces, executions>>
    BY <1>2 DEF MineReverted, restVars, walletVars
  <1> QED
    BY <1>1, <1>2, SubmissionSteps

\* Every step keeps that proofs are aggregated votes.
LEMMA ProofsKept ==
  ASSUME Base, ProofsAreVotes, [Next]_vars
  PROVE  ProofsAreVotes'
  <1>0. TypeOK /\ executions \subseteq
               [nonce : TxIds, call : Range(CallOf), approvers : SUBSET Commitments,
                signers : SUBSET Commitments, required : Nat]
    BY DEF Base, TypeOK, Wallet!TypeOK, Range, Wallet!Range
  <1>1. ASSUME NEW c \in Callers, calls'[c].pc # "idle"
        PROVE  calls'[c].proofs \subseteq Aggregated(calls[c].txId)'
    <2>1. calls'[c].txId \in TxIds
      BY <1>1, CallsHoldKept DEF CallsHoldSubmissions, HoldsSubmission, At
    <2>2. calls'[c].proofs \subseteq Aggregated(calls'[c].txId)
      BY <1>1, CallProofs DEF ProofsAreVotes
    <2> QED
      BY <1>0, <2>1, <2>2, VotesKept DEF Aggregated
  <1>2. ASSUME NEW h \in Hashes, submissions'[h].state # "unused"
        PROVE  submissions'[h].proofs \subseteq Aggregated(submissions[h].txId)'
    <2>1. submissions'[h].txId \in TxIds
      BY <1>2, SubmissionsUseKept DEF SubmissionsUseNonces
    <2>2. submissions'[h].proofs \subseteq Aggregated(submissions'[h].txId)
      <3>1. CASE submissions[h].state = "unused"
        BY <1>2, <3>1, NewSubmission DEF ProofsAreVotes, At
      <3>2. CASE submissions[h].state # "unused"
        BY <3>2, SubmissionsKept DEF ProofsAreVotes
      <3> QED
        BY <3>1, <3>2
    <2> QED
      BY <1>0, <2>1, <2>2, VotesKept DEF Aggregated
  <1>3. ASSUME NEW e \in executions'
        PROVE  e.approvers \subseteq Aggregated(e.nonce)'
    <2>1. CASE e \in executions
      BY <1>0, <2>1, VotesKept DEF ProofsAreVotes
    <2>2. CASE e \notin executions
      <3>1. PICK h \in Hashes : Mine(h)
        BY <1>3, <2>2, NewNonce
      <3>2. /\ submissions[h].txId \in TxIds
            /\ e.nonce = submissions[h].txId
            /\ e.approvers = submissions[h].proofs
        BY <1>3, <2>2, <3>1, MinedExecution
      <3>3. submissions[h].state # "unused"
        BY <3>1 DEF Mine
      <3> QED
        BY <1>0, <3>2, <3>3, VotesKept DEF ProofsAreVotes
    <2> QED
      BY <2>1, <2>2
  <1> QED
    BY <1>1, <1>2, <1>3 DEF ProofsAreVotes, At

\* Whoever has denied has no aggregated vote.
LEMMA DeniersAreNotAggregated ==
  ASSUME NEW t \in TxIds
  PROVE  Aggregated(t) \intersect Denials(t) = {}
  BY DEF Aggregated, Denials

-----------------------------------------------------------------------------
(* Giving up.                                                              *)

\* No transaction of the account changes the threshold, on-chain or in the rows.
NoThresholdUpdates == \A t \in TxIds : CallOf[t].kind # "updateSignaturesRequired"

\* Even if all who have not denied it approve, the transaction stays below its
\* threshold.
Hopeless(t) == Cardinality(Signers) - Cardinality(Denials(t)) < InitialThreshold

QuorumOf(S) == Cardinality(S) >= InitialThreshold

ThresholdsFixed ==
    /\ \A t \in TxIds : rows[t].threshold = InitialThreshold
    /\ \A c \in Callers : ~At(c, "idle") => calls[c].threshold = InitialThreshold

GivenUpIsHopeless ==
    \A t \in TxIds :
        (rows[t].status = "FAILED" \/ \E s \in Signers : denying[t][s] = "hopeless")
            => Hopeless(t)

\* What is sent, and what has used up its nonce, had a quorum of the row.
QuorumsAreSent ==
    /\ \A c \in Callers : calls[c].pc \in {"estimating", "sending"} => QuorumOf(calls[c].proofs)
    /\ \A h \in Hashes : submissions[h].state # "unused" => QuorumOf(submissions[h].proofs)
    /\ \A t \in usedNonces : QuorumOf(Aggregated(t))

Voting == ThresholdsFixed /\ GivenUpIsHopeless /\ QuorumsAreSent

\* Sets without a common element are counted apart.
LEMMA DisjointUnion ==
  ASSUME NEW S, IsFiniteSet(S), NEW T, IsFiniteSet(T), S \intersect T = {}
  PROVE  Cardinality(S \union T) = Cardinality(S) + Cardinality(T)
  <1>1. Cardinality(S \intersect T) = 0
    BY FS_EmptySet
  <1>2. Cardinality(S \union T) = Cardinality(S) + Cardinality(T) - Cardinality(S \intersect T)
    BY FS_Union
  <1>3. Cardinality(S) \in Nat /\ Cardinality(T) \in Nat
    BY FS_CardinalityType
  <1> QED
    BY <1>1, <1>2, <1>3

\* Counting the votes of a transaction.
LEMMA VoteCounts ==
  ASSUME TypeOK, NEW t \in TxIds
  PROVE  /\ MaxPossibleApproves(t) = Cardinality(Signers) - Cardinality(Denials(t))
         /\ Cardinality(Aggregated(t)) <= Cardinality(Signers) - Cardinality(Denials(t))
         /\ Cardinality(Signers) \in Nat
         /\ Cardinality(Denials(t)) \in Nat
         /\ Cardinality(Aggregated(t)) \in Nat
  <1>1. /\ Approvals(t) \in SUBSET Signers
        /\ Denials(t) \in SUBSET Signers
        /\ Aggregated(t) \in SUBSET Signers
        /\ Approvals(t) \intersect Denials(t) = {}
        /\ Aggregated(t) \intersect Denials(t) = {}
        /\ Aggregated(t) \union Denials(t) \in SUBSET Signers
    BY DEF Approvals, Denials, Aggregated
  <1>2. /\ IsFiniteSet(Approvals(t)) /\ Cardinality(Approvals(t)) \in Nat
        /\ IsFiniteSet(Denials(t)) /\ Cardinality(Denials(t)) \in Nat
        /\ IsFiniteSet(Aggregated(t)) /\ Cardinality(Aggregated(t)) \in Nat
        /\ Cardinality(Signers) \in Nat
    BY <1>1, SignersAssumption, FS_Subset, FS_CardinalityType
  <1>3. Cardinality(Voted(t)) = Cardinality(Approvals(t)) + Cardinality(Denials(t))
    BY <1>1, <1>2, DisjointUnion DEF Voted
  <1>4. Cardinality(Aggregated(t) \union Denials(t))
            = Cardinality(Aggregated(t)) + Cardinality(Denials(t))
    BY <1>1, <1>2, DisjointUnion
  <1>5. Cardinality(Aggregated(t) \union Denials(t)) <= Cardinality(Signers)
    BY <1>1, SignersAssumption, FS_Subset
  <1> QED
    BY <1>2, <1>3, <1>4, <1>5 DEF MaxPossibleApproves

\* More denials do not give hope back, and more votes keep a quorum.
LEMMA VotesDecide ==
  ASSUME TypeOK, TypeOK', [Next]_vars, NEW t \in TxIds
  PROVE  /\ Hopeless(t) => Hopeless(t)'
         /\ QuorumOf(Aggregated(t)) => QuorumOf(Aggregated(t))'
  <1>1. /\ Denials(t) \subseteq Denials(t)'
        /\ Aggregated(t) \subseteq Aggregated(t)'
    BY VotesKept
  <1>2. Denials(t)' \in SUBSET Signers /\ Aggregated(t)' \in SUBSET Signers
    BY DEF Denials, Aggregated
  <1>3. IsFiniteSet(Denials(t)') /\ IsFiniteSet(Aggregated(t)')
    BY <1>2, SignersAssumption, FS_Subset
  <1>4. /\ Cardinality(Denials(t)) <= Cardinality(Denials(t)')
        /\ Cardinality(Aggregated(t)) <= Cardinality(Aggregated(t)')
    BY <1>1, <1>3, FS_Subset
  <1>5. Cardinality(Denials(t)') \in Nat /\ Cardinality(Aggregated(t)') \in Nat
    BY <1>3, FS_CardinalityType
  <1>6. InitialThreshold \in Int /\ Cardinality(Signers) \in Nat
    BY ThresholdAssumption, VoteCounts
  <1>7. Cardinality(Denials(t)) \in Nat /\ Cardinality(Aggregated(t)) \in Nat
    BY VoteCounts
  <1> QED
    BY <1>4, <1>5, <1>6, <1>7 DEF Hopeless, QuorumOf

\* A deny request gives up on what it has counted.
LEMMA GivingUp ==
  ASSUME [Next]_vars, TypeOK, NEW t \in TxIds, NEW s \in Signers, denying'[t][s] = "hopeless"
  PROVE  \/ denying[t][s] = "hopeless"
         \/ MaxPossibleApproves(t) < rows[t].threshold
  <1>0. denying \in [TxIds -> [Signers -> DenySteps]]
    BY DEF TypeOK, VotingTypeOK
  <1>1. CASE UNCHANGED denying
    BY <1>1
  <1>2. CASE Crash
    BY <1>2 DEF Crash
  <1>3. ASSUME NEW u \in TxIds, NEW r \in Signers, CheckIfFailed(u, r)
        PROVE  \/ denying[t][s] = "hopeless"
               \/ MaxPossibleApproves(t) < rows[t].threshold
    BY <1>0, <1>3 DEF CheckIfFailed
  <1>4. ASSUME NEW u \in TxIds, NEW r \in Signers,
               BeginDeny(u, r) \/ RecordDenial(u, r) \/ MarkFailed(u, r)
        PROVE  denying[t][s] = "hopeless"
    <2>1. PICK step : step # "hopeless" /\ denying' = [denying EXCEPT ![u][r] = step]
      BY <1>4 DEF BeginDeny, RecordDenial, MarkFailed
    <2> QED
      BY <1>0, <2>1
  <1>5. \/ UNCHANGED denying
        \/ Crash
        \/ \E u \in TxIds, r \in Signers :
               CheckIfFailed(u, r) \/ BeginDeny(u, r) \/ RecordDenial(u, r) \/ MarkFailed(u, r)
    <2>1. CASE VotingNext
      BY <2>1 DEF VotingNext, BeginApprove, RecordApproval, ApprovalRejected
    <2>2. ASSUME NEW c \in Callers, CallStep(c)
          PROVE  UNCHANGED denying
      BY <2>2, CallStepFrame DEF restVars, requestVars
    <2>3. CASE SweepStep
      BY <2>3 DEF SweepStep, SweepHashed, Reconcile, SkipReconcile, SweepStale, ResetStale, EndSweep,
                  votingVars, requestVars
    <2>4. ASSUME \/ \E c \in Callers, u \in TxIds : ReadTransaction(c, u)
                 \/ \E h \in Hashes : ChainStep(h)
                 \/ \E token \in Tokens, amount \in DepositAmounts : Deposit(token, amount)
                 \/ \E u \in TxIds : Grow(u)
                 \/ SweepFails
                 \/ UNCHANGED vars
          PROVE  UNCHANGED denying
      BY <2>4 DEF ReadTransaction, ChainStep, Mine, MineReverted, Deposit, Grow, SweepFails, vars,
                  votingVars, restVars, requestVars
    <2> QED
      BY <2>1, <2>2, <2>3, <2>4 DEF Next
  <1> QED
    BY <1>1, <1>2, <1>3, <1>4, <1>5

\* Every step keeps all this, as long as no threshold is updated.
LEMMA VotingKept ==
  ASSUME NoThresholdUpdates, Base, HashesAreOwn, ProofsAreVotes, Voting, [Next]_vars
  PROVE  Voting'
  <1>0. TypeOK /\ TypeOK'
    BY StepTyped DEF Base
  <1>1. ThresholdsFixed'
    <2>1. \A t \in TxIds : rows'[t].threshold = InitialThreshold
      BY RowsEvolve DEF RowEvolves, NoThresholdUpdates, Voting, ThresholdsFixed
    <2>2. \A c \in Callers : calls'[c].pc # "idle" => calls'[c].threshold = InitialThreshold
      BY CallProofs DEF Voting, ThresholdsFixed
    <2> QED
      BY <2>1, <2>2 DEF ThresholdsFixed, At
  <1>2. GivenUpIsHopeless'
    <2> SUFFICES ASSUME NEW t \in TxIds,
                        \/ rows'[t].status = "FAILED"
                        \/ \E s \in Signers : denying'[t][s] = "hopeless"
                 PROVE  Hopeless(t)'
      BY DEF GivenUpIsHopeless
    <2>1. Hopeless(t)
      <3>1. CASE rows'[t].status = "FAILED"
        BY <3>1, RowsEvolve DEF RowEvolves, Voting, GivenUpIsHopeless
      <3>2. ASSUME NEW s \in Signers, denying'[t][s] = "hopeless"
            PROVE  Hopeless(t)
        <4>1. CASE denying[t][s] = "hopeless"
          BY <4>1 DEF Voting, GivenUpIsHopeless
        <4>2. CASE MaxPossibleApproves(t) < rows[t].threshold
          BY <1>0, <4>2, VoteCounts DEF Hopeless, Voting, ThresholdsFixed
        <4> QED
          BY <1>0, <3>2, <4>1, <4>2, GivingUp
      <3> QED
        BY <3>1, <3>2
    <2> QED
      BY <1>0, <2>1, VotesDecide
  <1>3. QuorumsAreSent'
    <2>1. ASSUME NEW c \in Callers, calls'[c].pc \in {"estimating", "sending"}
          PROVE  QuorumOf(calls[c].proofs)'
      <3>1. calls'[c].pc # "idle"
        BY <2>1
      <3>2. CASE /\ calls'[c].proofs = calls[c].proofs
                 /\ calls[c].pc \in {"estimating", "sending"}
        BY <3>2 DEF Voting, QuorumsAreSent, QuorumOf
      <3>3. CASE /\ ~At(c, "idle")
                 /\ calls'[c].proofs = Aggregated(calls[c].txId)
                 /\ ~(Cardinality(calls'[c].proofs) < calls[c].threshold)
        <4>1. calls[c].threshold = InitialThreshold /\ calls[c].txId \in TxIds
          BY <3>3 DEF Voting, ThresholdsFixed, Base, CallsHoldSubmissions, HoldsSubmission
        <4>2. Cardinality(calls'[c].proofs) \in Nat /\ InitialThreshold \in Int
          BY <1>0, <3>3, <4>1, VoteCounts, ThresholdAssumption
        <4> QED
          BY <3>3, <4>1, <4>2 DEF QuorumOf
      <3> QED
        BY <2>1, <3>1, <3>2, <3>3, CallProofs
    <2>2. ASSUME NEW h \in Hashes, submissions'[h].state # "unused"
          PROVE  QuorumOf(submissions[h].proofs)'
      <3>1. CASE submissions[h].state = "unused"
        BY <2>2, <3>1, NewSubmission DEF Voting, QuorumsAreSent, QuorumOf, At
      <3>2. CASE submissions[h].state # "unused"
        BY <3>2, SubmissionsKept DEF Voting, QuorumsAreSent, QuorumOf
      <3> QED
        BY <3>1, <3>2
    <2>3. ASSUME NEW t \in usedNonces'
          PROVE  QuorumOf(Aggregated(t))'
      <3>0. t \in TxIds
        BY <1>0 DEF TypeOK, Wallet!TypeOK
      <3>1. QuorumOf(Aggregated(t))
        <4>1. CASE t \in usedNonces
          BY <4>1 DEF Voting, QuorumsAreSent
        <4>2. CASE t \notin usedNonces
          <5>1. PICK h \in Hashes : Mine(h)
            BY <2>3, <4>2, NewNonce
          <5>2. t = submissions[h].txId /\ submissions[h].state # "unused"
            BY <2>3, <4>2, <5>1, MinedExecution DEF Mine
          <5>3. /\ QuorumOf(submissions[h].proofs)
                /\ submissions[h].proofs \subseteq Aggregated(t)
            BY <5>2 DEF Voting, QuorumsAreSent, ProofsAreVotes
          <5>4. Aggregated(t) \in SUBSET Signers
            BY DEF Aggregated
          <5>5. IsFiniteSet(Aggregated(t))
            BY <5>4, SignersAssumption, FS_Subset
          <5>6. IsFiniteSet(submissions[h].proofs)
                /\ Cardinality(submissions[h].proofs) <= Cardinality(Aggregated(t))
            BY <5>3, <5>5, FS_Subset
          <5> QED
            BY <5>3, <5>5, <5>6, FS_CardinalityType, ThresholdAssumption DEF QuorumOf
        <4> QED
          BY <4>1, <4>2
      <3> QED
        BY <1>0, <3>0, <3>1, VotesDecide
    <2> QED
      BY <2>1, <2>2, <2>3 DEF QuorumsAreSent
  <1> QED
    BY <1>1, <1>2, <1>3 DEF Voting

-----------------------------------------------------------------------------
(* The theorems.                                                           *)

Inv ==
    /\ Base
    /\ HashesAreOwn
    /\ ExecutedOnChain
    /\ OneSubmissionSucceeds
    /\ ProofsAreVotes

\* Nothing is executed, sent or even read in the beginning.
LEMMA InitInv ==
  ASSUME Init
  PROVE  Inv
  <1> USE DEF Init, VotingInit
  <1>1. VotingTypeOK
    <2>1. rows \in [TxIds -> Row]
      <3>1. InitialThreshold \in Nat
        BY ThresholdAssumption, SignersAssumption, FS_CardinalityType
      <3> QED
        BY <3>1 DEF Row, Statuses
    <2> QED
      BY <2>1 DEF VotingTypeOK, VoteStates, DenySteps
  <1>2. calls \in [Callers -> Call] /\ submissions \in [Hashes -> Submission]
    BY DEF Idle, Call, CallSteps, Unused, Submission
  <1>3. Wallet!TypeOK
    BY WalletAssumption, ProvedStatements DEF Wallet!TypeOK, Wallet!TxHashes
  <1>4. TypeOK
    BY <1>1, <1>2, <1>3, CallsAssumption DEF TypeOK, NotSweeping
  <1>5. CallsHoldSubmissions
    BY DEF CallsHoldSubmissions, HoldsSubmission, At, Idle
  <1>6. \A h \in Hashes : submissions[h].state = "unused"
    BY DEF Unused
  <1>7. HashesAreOwn /\ ExecutedOnChain
    BY DEF HashesAreOwn, ExecutedOnChain, NotSweeping
  <1>8. ProofsAreVotes
    BY <1>6 DEF ProofsAreVotes, At, Idle
  <1> QED
    BY <1>4, <1>5, <1>6, <1>7, <1>8 DEF Inv, Base, SubmissionsUseNonces, OneSubmissionSucceeds

\* The invariant is inductive.
LEMMA NextInv ==
  ASSUME Inv, [Next]_vars
  PROVE  Inv'
  BY StepTyped, CallsHoldKept, SubmissionsUseKept, HashesKept, ExecutedKept, OneSuccessKept,
     ProofsKept
  DEF Inv, Base

\* It holds of every execution of the service.
THEOREM Invariance == Spec => []Inv
  <1>1. Init => Inv
    BY InitInv
  <1>2. Inv /\ [Next]_vars => Inv'
    BY NextInv
  <1> QED
    BY <1>1, <1>2, PTL DEF Spec

\* The rows, the votes, the requests and the contract keep their types, for any
\* number of transactions, signers, requests and restarts.
THEOREM TypeCorrect == Spec => []TypeOK
  <1>1. Inv => TypeOK
    BY DEF Inv, Base
  <1> QED
    BY <1>1, Invariance, PTL

\* A row that says EXECUTED was executed by the wallet, whatever requests,
\* sweeps, denials and restarts interleave.
THEOREM ExecutedIsOnChain == Spec => []ExecutedOnChain
  <1>1. Inv => ExecutedOnChain
    BY DEF Inv
  <1> QED
    BY <1>1, Invariance, PTL

\* Of all submissions of a transaction at most one succeeds.
THEOREM OneSuccess == Spec => []OneSubmissionSucceeds
  <1>1. Inv => OneSubmissionSucceeds
    BY DEF Inv
  <1> QED
    BY <1>1, Invariance, PTL

\* Whoever denied a transaction is not among its approvers on-chain.
THEOREM DeniersAreNotCounted == Spec => []DenierNeverCounted
  <1>1. Inv => DenierNeverCounted
    <2> SUFFICES ASSUME Inv, NEW e \in executions
                 PROVE  e.approvers \intersect Denials(e.nonce) = {}
      BY DEF DenierNeverCounted
    <2>1. e.nonce \in TxIds
      BY DEF Inv, Base, TypeOK, Wallet!TypeOK
    <2>2. e.approvers \subseteq Aggregated(e.nonce)
      BY DEF Inv, ProofsAreVotes
    <2> QED
      BY <2>1, <2>2, DeniersAreNotAggregated
  <1> QED
    BY <1>1, Invariance, PTL

\* A vote stays on its side.
THEOREM VotesAreFinal == Spec => VoteIsFinal
  <1>1. Inv /\ [Next]_vars =>
      [\A t \in TxIds : Approvals(t) \subseteq Approvals(t)' /\ Denials(t) \subseteq Denials(t)']_vars
    BY VotesKept DEF Inv, Base
  <1> QED
    BY <1>1, Invariance, PTL DEF Spec, VoteIsFinal

\* As long as no transaction changes the threshold, what was given up is not
\* executed: hope is lost only below the threshold with which proofs are sent.
THEOREM GivenUpIsNotExecuted ==
  ASSUME NoThresholdUpdates
  PROVE  Spec => []FailedNotExecuted
  <1>1. Init => Voting
    <2> SUFFICES ASSUME Init
                 PROVE  Voting
      OBVIOUS
    <2>1. ThresholdsFixed
      BY DEF Init, VotingInit, ThresholdsFixed, At, Idle
    <2>2. GivenUpIsHopeless
      BY DEF Init, VotingInit, GivenUpIsHopeless
    <2>3. QuorumsAreSent
      BY DEF Init, VotingInit, QuorumsAreSent, Idle, Unused
    <2> QED
      BY <2>1, <2>2, <2>3 DEF Voting
  <1>2. Inv /\ Voting /\ [Next]_vars => Voting'
    BY VotingKept DEF Inv
  <1>3. Inv /\ Voting => FailedNotExecuted
    <2> SUFFICES ASSUME Inv, Voting, NEW t \in TxIds, rows[t].status = "FAILED", t \in usedNonces
                 PROVE  FALSE
      BY DEF FailedNotExecuted
    <2>1. Hopeless(t) /\ QuorumOf(Aggregated(t))
      BY DEF Voting, GivenUpIsHopeless, QuorumsAreSent
    <2> QED
      BY <2>1, VoteCounts, ThresholdAssumption DEF Hopeless, QuorumOf, Inv, Base
  <1> QED
    BY <1>1, <1>2, <1>3, Invariance, PTL DEF Spec

-----------------------------------------------------------------------------
(* The hash that is shown.                                                 *)

\* A step leaves the hash of a row or takes it away, and an EXECUTED row with it;
\* or it is a request that has submitted the transaction, or a sweep that knows
\* the hash.
HashSource(t) ==
    \/ /\ rows'[t].txHash \in {NoHash, rows[t].txHash}
       /\ rows'[t].status = "EXECUTED" => rows'[t] = rows[t]
    \/ \E c \in Callers :
           /\ PersistHash(c)
           /\ calls[c].txId = t
           /\ rows'[t].txHash = calls[c].hash
           /\ rows'[t].status = rows[t].status
    \/ \E c \in Callers :
           /\ MarkExecuted(c)
           /\ calls[c].txId = t
           /\ Mined(rows'[t].txHash, t)
    \/ \E h \in Hashes :
           /\ <<t, h>> \in sweep.hashed
           /\ Mined(rows'[t].txHash, t)

\* A recording puts the hash of a success into the row of its transaction, and
\* into no other.
LEMMA RecordedHashes ==
  ASSUME TypeOK, NEW u \in TxIds, NEW h \in Hashes, NEW t \in TxIds, rows' = Recorded(u, h),
         SubmissionOf(h, u), submissions[h].state = "success"
  PROVE  /\ t = u => Mined(rows'[t].txHash, t)
         /\ t # u => /\ rows'[t].txHash = rows[t].txHash
                     /\ rows'[t].status = "EXECUTED" => rows'[t] = rows[t]
  <1>1. rows[t] \in Row
    BY DEF TypeOK, VotingTypeOK
  <1>2. CASE t = u
    <2>1. rows'[t] = WithStatus([rows[t] EXCEPT !.txHash = h], "EXECUTED")
      BY <1>2 DEF Recorded
    <2> DEFINE row == WithStatus([rows[t] EXCEPT !.txHash = h], "EXECUTED")
    <2>2. row.txHash = h
      BY <1>1 DEF WithStatus, Written, Row
    <2>3. rows'[t] = row
      BY <2>1
    <2> HIDE DEF row
    <2>4. rows'[t].txHash = h
      BY <2>2, <2>3
    <2>5. h # NoHash
      BY NoHashAssumption
    <2> QED
      BY <1>2, <2>4, <2>5 DEF Mined, SubmissionOf
  <1>3. CASE t # u /\ CallOf[u].kind = "updateSignaturesRequired" /\ rows[t].status = "PENDING"
    <2>1. rows'[t] = Written([rows[t] EXCEPT !.threshold = CallOf[u].required])
      BY <1>3 DEF Recorded
    <2>2. rows'[t].status = rows[t].status /\ rows'[t].txHash = rows[t].txHash
      BY <1>1, <2>1 DEF Written, Row
    <2> QED
      BY <1>3, <2>2
  <1>4. CASE t # u /\ ~(CallOf[u].kind = "updateSignaturesRequired" /\ rows[t].status = "PENDING")
    BY <1>4 DEF Recorded
  <1> QED
    BY <1>2, <1>3, <1>4

\* A write of one row that leaves its hash or takes it away.
LEMMA OneWriteHashes ==
  ASSUME TypeOK, NEW u, NEW row, rows' = [rows EXCEPT ![u] = row], NEW t \in TxIds,
         u = t => row.txHash \in {NoHash, rows[t].txHash} /\ row.status # "EXECUTED"
  PROVE  HashSource(t)
  <1>0. rows \in [TxIds -> Row]
    BY DEF TypeOK, VotingTypeOK
  <1>1. CASE u = t
    <2>1. rows'[t] = row
      BY <1>0, <1>1
    <2> QED
      BY <1>1, <2>1 DEF HashSource
  <1>2. CASE u # t
    <2>1. rows'[t] = rows[t]
      BY <1>0, <1>2
    <2> QED
      BY <2>1 DEF HashSource
  <1> QED
    BY <1>1, <1>2

\* Every step is one of these.
LEMMA HashSources ==
  ASSUME Base, HashesAreOwn, [Next]_vars, NEW t \in TxIds
  PROVE  HashSource(t)
  <1>0. /\ rows \in [TxIds -> Row]
        /\ rows[t] \in Row
        /\ calls \in [Callers -> Call]
    BY DEF Base, TypeOK, VotingTypeOK
  <1>1. CASE UNCHANGED rows
    BY <1>1 DEF HashSource
  <1>2. ASSUME NEW u \in TxIds, NEW s \in Signers, MarkFailed(u, s)
        PROVE  HashSource(t)
    <2> DEFINE row == WithStatus(rows[u], "FAILED")
    <2>1. rows' = [rows EXCEPT ![u] = row]
      BY <1>2 DEF MarkFailed
    <2>2. row.status = "FAILED" /\ row.txHash = rows[u].txHash
      BY <1>0, StatusFields
    <2> HIDE DEF row
    <2> QED
      BY <2>1, <2>2, OneWriteHashes DEF Base
  <1>3. ASSUME NEW c \in Callers, MarkExecuting(c)
        PROVE  HashSource(t)
    <2> DEFINE u == calls[c].txId
               row == WithStatus(rows[u], "EXECUTING")
    <2>1. u \in TxIds /\ rows' = [rows EXCEPT ![u] = row]
      BY <1>3 DEF MarkExecuting, At, Base, CallsHoldSubmissions, HoldsSubmission
    <2>2. row.status = "EXECUTING" /\ row.txHash = rows[u].txHash
      BY <1>0, <2>1, StatusFields
    <2> HIDE DEF row, u
    <2> QED
      BY <2>1, <2>2, OneWriteHashes DEF Base
  <1>4. ASSUME NEW c \in Callers, PersistHash(c)
        PROVE  HashSource(t)
    <2> DEFINE u == calls[c].txId
               row == Written([rows[u] EXCEPT !.txHash = calls[c].hash])
    <2>1. u \in TxIds
      BY <1>4 DEF PersistHash, At, Base, CallsHoldSubmissions, HoldsSubmission
    <2>2. rows' = [rows EXCEPT ![u] = row]
      BY <1>4 DEF PersistHash
    <2>3. row.status = rows[u].status /\ row.txHash = calls[c].hash
      BY <1>0, <2>1, HashFields
    <2>4. CASE u = t
      <3>1. rows'[t] = row
        BY <1>0, <2>2, <2>4
      <3> QED
        BY <1>4, <2>3, <2>4, <3>1 DEF HashSource
    <2>5. CASE u # t
      <3>1. rows'[t] = rows[t]
        BY <1>0, <2>2, <2>5
      <3> QED
        BY <3>1 DEF HashSource
    <2> QED
      BY <2>4, <2>5
  <1>5. ASSUME NEW c \in Callers, MarkExecuted(c)
        PROVE  HashSource(t)
    <2>1. /\ calls[c].txId \in TxIds
          /\ calls[c].hash \in Hashes
          /\ SubmissionOf(calls[c].hash, calls[c].txId)
          /\ submissions[calls[c].hash].state = "success"
      BY <1>5 DEF MarkExecuted, At, Base, CallsHoldSubmissions, HoldsSubmission, SubmissionOf
    <2>2. /\ t = calls[c].txId => Mined(rows'[t].txHash, t)
          /\ t # calls[c].txId => /\ rows'[t].txHash = rows[t].txHash
                                  /\ rows'[t].status = "EXECUTED" => rows'[t] = rows[t]
      BY <1>5, <2>1, RecordedHashes DEF MarkExecuted, Base
    <2> QED
      BY <1>5, <2>2 DEF HashSource
  <1>6. ASSUME NEW u \in TxIds,
               rows' = [rows EXCEPT ![u] = WithStatus([@ EXCEPT !.txHash = NoHash], "PENDING")]
        PROVE  HashSource(t)
    <2> DEFINE row == WithStatus([rows[u] EXCEPT !.txHash = NoHash], "PENDING")
    <2>1. rows' = [rows EXCEPT ![u] = row]
      BY <1>6
    <2>2. row.status = "PENDING" /\ row.txHash = NoHash
      <3>1. rows[u] \in Row
        BY <1>0
      <3> QED
        BY <3>1 DEF WithStatus, Written, Row
    <2> HIDE DEF row
    <2> QED
      BY <2>1, <2>2, OneWriteHashes DEF Base
  <1>7. ASSUME NEW c \in Callers, RevertToPending(c)
        PROVE  HashSource(t)
    <2>1. calls[c].txId \in TxIds
      BY <1>7 DEF RevertToPending, At, Base, CallsHoldSubmissions, HoldsSubmission
    <2> QED
      BY <1>1, <1>6, <1>7, <2>1 DEF RevertToPending
  <1>8. ASSUME NEW u \in TxIds, NEW h \in Hashes, Reconcile(u, h)
        PROVE  HashSource(t)
    <2>1. SubmissionOf(h, u) /\ <<u, h>> \in sweep.hashed
      BY <1>8 DEF Reconcile, HashesAreOwn
    <2>2. CASE ReconcileMined(u, h)
      <3>1. /\ t = u => Mined(rows'[t].txHash, t)
            /\ t # u => /\ rows'[t].txHash = rows[t].txHash
                        /\ rows'[t].status = "EXECUTED" => rows'[t] = rows[t]
        BY <2>1, <2>2, RecordedHashes DEF ReconcileMined, Base
      <3> QED
        BY <2>1, <3>1 DEF HashSource
    <2>3. CASE ReconcileReverted(u, h)
      BY <1>6, <2>3 DEF ReconcileReverted
    <2> QED
      BY <1>8, <2>2, <2>3 DEF Reconcile
  <1>9. ASSUME NEW u \in TxIds, ResetStale(u)
        PROVE  HashSource(t)
    BY <1>6, <1>9 DEF ResetStale
  <1>10. ASSUME NEW u \in TxIds, Grow(u)
         PROVE  HashSource(t)
    <2> DEFINE row == [rows[u] EXCEPT !.stale = TRUE]
    <2>1. rows' = [rows EXCEPT ![u] = row]
      BY <1>10 DEF Grow
    <2>2. row.status = "EXECUTING" /\ row.txHash = rows[u].txHash
      <3>1. rows[u] \in Row
        BY <1>0
      <3> QED
        BY <1>10, <3>1 DEF Grow, Row
    <2> HIDE DEF row
    <2> QED
      BY <2>1, <2>2, OneWriteHashes DEF Base
  <1> QED
    BY <1>1, <1>2, <1>3, <1>4, <1>5, <1>7, <1>8, <1>9, <1>10, RowSteps

\* Whoever records an execution leaves the hash of the submission that
\* succeeded; only a request that submits once more overwrites it.
THEOREM RecordedHashesAreMined == Spec => RecordedHashMined
  <1>1. Inv /\ [Next]_vars =>
          [\A t \in TxIds : rows'[t].status = "EXECUTED" /\ rows'[t] # rows[t] =>
             \/ Mined(rows'[t].txHash, t)
             \/ /\ rows[t].status = "EXECUTED"
                /\ \E c \in Callers : /\ At(c, "persisting")
                                      /\ calls[c].txId = t
                                      /\ rows'[t].txHash = calls[c].hash]_vars
    BY HashSources DEF Inv, HashSource, PersistHash
  <1> QED
    BY <1>1, Invariance, PTL DEF Spec, RecordedHashMined

\* The hash of a row that was executed is, in every interleaving, that of a
\* submission of this transaction, and one of them has succeeded.
ShownHashIsOwn ==
    \A t \in TxIds : rows[t].status = "EXECUTED" =>
        /\ rows[t].txHash # NoHash
        /\ SubmissionOf(rows[t].txHash, t)
        /\ \E h \in Hashes : Mined(h, t)

\* Nothing takes the hash from an executed row, and a success stays one.
LEMMA OwnHashKept ==
  ASSUME Base, HashesAreOwn, HashesAreOwn', ShownHashIsOwn, [Next]_vars
  PROVE  ShownHashIsOwn'
  <1> SUFFICES ASSUME NEW t \in TxIds, rows'[t].status = "EXECUTED"
               PROVE  /\ rows'[t].txHash # NoHash
                      /\ \E h \in Hashes : Mined(h, t)'
    BY DEF ShownHashIsOwn, HashesAreOwn
  <1>1. ASSUME NEW h \in Hashes, Mined(h, t)
        PROVE  Mined(h, t)'
    BY <1>1, SubmissionsKept DEF Mined
  <1>2. CASE rows'[t] = rows[t]
    BY <1>1, <1>2 DEF ShownHashIsOwn
  <1>3. ASSUME NEW c \in Callers, PersistHash(c), rows'[t].txHash = calls[c].hash,
               rows[t].status = "EXECUTED"
        PROVE  rows'[t].txHash # NoHash /\ \E h \in Hashes : Mined(h, t)'
    <2>1. calls[c].hash \in Hashes
      BY <1>3 DEF PersistHash, At, Base, CallsHoldSubmissions, HoldsSubmission
    <2> QED
      BY <1>1, <1>3, <2>1, NoHashAssumption DEF ShownHashIsOwn
  <1>4. CASE Mined(rows'[t].txHash, t)
    <2>1. rows'[t].txHash \in Hashes
      BY <1>4, StepTyped DEF Mined, TypeOK, VotingTypeOK, Row
    <2> QED
      BY <1>1, <1>4, <2>1 DEF Mined
  <1> QED
    BY <1>2, <1>3, <1>4, HashSources DEF HashSource

\* However requests and sweeps interleave, the explorer link of an executed
\* transaction shows an attempt at this transaction, one of which succeeded.
THEOREM ShownHashesAreOwn == Spec => []ShownHashIsOwn
  <1>1. Init => ShownHashIsOwn
    BY DEF Init, VotingInit, ShownHashIsOwn
  <1>2. Inv /\ Inv' /\ ShownHashIsOwn /\ [Next]_vars => ShownHashIsOwn'
    BY OwnHashKept DEF Inv
  <1> QED
    BY <1>1, <1>2, Invariance, PTL DEF Spec

\* No two requests work on one transaction, and none begins on a row of which a
\* hash is known: in the row, or in what the sweep has read of it.  The code
\* checks neither.  Two requests have to overlap for the one; for the other, an
\* iteration of the sweep has to overlap with a whole request and the submission
\* of the next.
RequestsApart ==
    \A c \in Callers : ~At(c, "idle") =>
        /\ \A d \in Callers \ {c} : calls[d].txId # calls[c].txId
        /\ At(c, "read") =>
               /\ rows[calls[c].txId].txHash = NoHash
               /\ \A h \in Hashes : <<calls[c].txId, h>> \notin sweep.hashed

\* The hash of an executed transaction is the one submission of it that
\* succeeded.
ExecutedHashMined ==
    \A t \in TxIds : rows[t].status = "EXECUTED" =>
        /\ rows[t].txHash # NoHash
        /\ submissions[rows[t].txHash].state = "success"

BeforeHash == {"read", "aggregating", "finalising", "estimating", "sending", "persisting"}

\* No hash is known of a transaction whose request has not stored its own.
RequestsAreFirst ==
    \A c \in Callers : calls[c].pc \in BeforeHash =>
        /\ rows[calls[c].txId].txHash = NoHash
        /\ \A h \in Hashes : <<calls[c].txId, h>> \notin sweep.hashed

\* Where a request is when it has moved on or ended.
LEMMA NextStep ==
  ASSUME TypeOK, NEW c \in Callers
  PROVE  /\ \A pc : Goto(c, pc) => calls'[c].pc = pc
         /\ Return(c) => calls'[c].pc = "idle"
  <1>1. calls \in [Callers -> Call]
    BY DEF TypeOK
  <1> QED
    BY <1>1 DEF Goto, Return, Idle, Call

\* Whoever has not stored a hash now had not before, unless he has just begun.
LEMMA CallAdvances ==
  ASSUME Base, [Next]_vars, NEW d \in Callers, calls'[d].pc \in BeforeHash \ {"read"}
  PROVE  /\ calls[d].pc \in BeforeHash
         /\ calls'[d].txId = calls[d].txId
         /\ ~PersistHash(d)
         /\ ~MarkExecuted(d)
  <1> USE DEF BeforeHash
  <1>0. calls \in [Callers -> Call]
    BY DEF Base, TypeOK
  <1>1. ~PersistHash(d) /\ ~MarkExecuted(d)
    BY NextStep DEF Base, PersistHash, MarkExecuted
  <1>2. CASE calls'[d] = calls[d]
    BY <1>1, <1>2
  <1>3. CASE CallStep(d)
    <2>1. calls'[d].txId = calls[d].txId
      BY <1>3, CallProofs DEF BeforeHash
    <2>2. calls[d].pc \in BeforeHash
      <3>1. CASE \/ MarkExecuting(d) \/ AllProofsSettled(d) \/ CollectProofs(d)
                 \/ EstimateGas(d) \/ Submit(d)
        BY <3>1 DEF MarkExecuting, AllProofsSettled, CollectProofs, EstimateGas, Submit, At
      <3>2. CASE \E s \in Signers, outcome \in {"aggregated", "failed"} : SettleProof(d, s, outcome)
        BY <3>2 DEF SettleProof
      <3>3. CASE \E pc \in {"reverting", "waiting", "recording"} : Goto(d, pc)
        BY <3>3, NextStep DEF Base
      <3>4. CASE Return(d)
        BY <3>4, NextStep DEF Base
      <3>5. \/ Return(d) \/ \E pc \in {"reverting", "waiting", "recording"} : Goto(d, pc)
            \/ MarkExecuting(d) \/ AllProofsSettled(d) \/ CollectProofs(d)
            \/ EstimateGas(d) \/ Submit(d)
            \/ \E s \in Signers, outcome \in {"aggregated", "failed"} : SettleProof(d, s, outcome)
        BY <1>3 DEF CallStep, SubmitUnanswered, PreSubmissionFails, PersistHash, GetReceipt,
                    ReceiptTimeout, MarkExecuted, DatabaseFails, RevertToPending
      <3> QED
        BY <3>1, <3>2, <3>3, <3>4, <3>5
    <2> QED
      BY <1>1, <2>1, <2>2
  <1>4. ASSUME NEW t \in TxIds, ReadTransaction(d, t)
        PROVE  FALSE
    <2>1. calls'[d].pc = "read"
      BY <1>0, <1>4 DEF ReadTransaction, Idle
    <2> QED
      BY <2>1
  <1>5. ASSUME NEW c \in Callers, CallStep(c) \/ (\E t \in TxIds : ReadTransaction(c, t)), c # d
        PROVE  calls'[d] = calls[d]
    BY <1>0, <1>5, OneCall DEF Base, ReadTransaction
  <1>6. ~Crash
    BY DEF Crash, Idle
  <1> QED
    BY <1>2, <1>3, <1>4, <1>5, <1>6, CallActions

\* Where requests keep apart, they stay the first to know a hash.
LEMMA FirstKept ==
  ASSUME Base, HashesAreOwn, RequestsApart, RequestsApart', RequestsAreFirst, [Next]_vars
  PROVE  RequestsAreFirst'
  <1> SUFFICES ASSUME NEW c \in Callers, calls'[c].pc \in BeforeHash
               PROVE  /\ rows'[calls'[c].txId].txHash = NoHash
                      /\ \A h \in Hashes : <<calls'[c].txId, h>> \notin sweep'.hashed
    BY DEF RequestsAreFirst
  <1>1. CASE calls'[c].pc = "read"
    BY <1>1 DEF RequestsApart, At
  <1>2. CASE calls'[c].pc # "read"
    <2>1. /\ calls[c].pc \in BeforeHash
          /\ calls'[c].txId = calls[c].txId
          /\ ~PersistHash(c) /\ ~MarkExecuted(c)
      BY <1>2, CallAdvances
    <2>2. PICK t \in TxIds : t = calls[c].txId
      BY <2>1 DEF Base, CallsHoldSubmissions, HoldsSubmission, At, BeforeHash
    <2>3. /\ rows[t].txHash = NoHash
          /\ \A h \in Hashes : <<t, h>> \notin sweep.hashed
      BY <2>1, <2>2 DEF RequestsAreFirst
    <2>4. \A d \in Callers : d # c => calls[d].txId # t
      BY <2>1, <2>2 DEF RequestsApart, At, BeforeHash
    <2>5. rows'[t].txHash = NoHash
      BY <2>1, <2>3, <2>4, HashSources DEF HashSource
    <2>6. ASSUME NEW h \in Hashes, <<t, h>> \in sweep'.hashed
          PROVE  FALSE
      <3>1. SweepHashed
        BY <2>3, <2>6, SnapshotSteps DEF Base
      <3> QED
        BY <2>3, <2>6, <3>1 DEF SweepHashed
    <2> QED
      BY <2>1, <2>2, <2>5, <2>6
  <1> QED
    BY <1>1, <1>2

\* Where requests are the first to know a hash, nobody overwrites that of an
\* executed transaction.
LEMMA MinedHashKept ==
  ASSUME Base, HashesAreOwn, RequestsAreFirst, ExecutedHashMined, [Next]_vars
  PROVE  ExecutedHashMined'
  <1> SUFFICES ASSUME NEW t \in TxIds, rows'[t].status = "EXECUTED"
               PROVE  /\ rows'[t].txHash # NoHash
                      /\ submissions'[rows'[t].txHash].state = "success"
    BY DEF ExecutedHashMined
  <1>0. rows[t] \in Row /\ rows'[t] \in Row
    BY StepTyped DEF Base, TypeOK, VotingTypeOK
  <1>1. CASE rows'[t] = rows[t]
    <2>1. rows[t].txHash \in Hashes /\ submissions[rows[t].txHash].state = "success"
      BY <1>0, <1>1 DEF ExecutedHashMined, Row
    <2> QED
      BY <1>1, <2>1, SubmissionsKept, NoHashAssumption
  <1>2. CASE Mined(rows'[t].txHash, t)
    <2>1. rows'[t].txHash \in Hashes
      BY <1>0, <1>2 DEF Mined, Row
    <2> QED
      BY <1>2, <2>1, SubmissionsKept DEF Mined
  <1>3. ASSUME NEW c \in Callers, PersistHash(c), calls[c].txId = t, rows[t].status = "EXECUTED"
        PROVE  FALSE
    <2>1. rows[t].txHash = NoHash
      BY <1>3 DEF PersistHash, At, RequestsAreFirst, BeforeHash
    <2> QED
      BY <1>3, <2>1 DEF ExecutedHashMined
  <1> QED
    BY <1>1, <1>2, <1>3, HashSources DEF HashSource

\* As long as requests keep apart, the hash shown for an executed transaction is
\* the submission that succeeded, whoever recorded it and however old the sweep's
\* knowledge was.
THEOREM ShownHashesAreMined == Spec /\ []RequestsApart => []ExecutedHashMined
  <1>1. Init => RequestsAreFirst /\ ExecutedHashMined
    BY DEF Init, VotingInit, RequestsAreFirst, ExecutedHashMined, BeforeHash, Idle
  <1>2. /\ Inv /\ RequestsApart /\ RequestsApart'
        /\ RequestsAreFirst /\ ExecutedHashMined /\ [Next]_vars
        => RequestsAreFirst' /\ ExecutedHashMined'
    BY FirstKept, MinedHashKept DEF Inv
  <1> QED
    BY <1>1, <1>2, Invariance, PTL DEF Spec

-----------------------------------------------------------------------------
(* The service drives the contract as the contract's specification says.   *)

\* Votes that are cast are not aggregated yet; one that is settled may be.
LEMMA AttestStep ==
  ASSUME TypeOK, [Next]_vars
  PROVE  \/ ProvedOnChain' = ProvedOnChain
         \/ \E t \in TxIds, s \in Signers :
                /\ ProvedOnChain' = ProvedOnChain \union {Statement(s, t)}
                /\ UNCHANGED walletVars
  <1>0. votes \in [TxIds -> [Signers -> VoteStates]]
    BY DEF TypeOK, VotingTypeOK
  <1>1. CASE UNCHANGED votes
    BY <1>1 DEF ProvedOnChain, Aggregated
  <1>2. ASSUME NEW t \in TxIds, NEW s \in Signers, RecordApproval(t, s) \/ RecordDenial(t, s)
        PROVE  ProvedOnChain' = ProvedOnChain
    <2>1. \/ UNCHANGED votes
          \/ /\ votes[t][s] = "none"
             /\ \E vote \in {"pending", "deny"} : votes' = [votes EXCEPT ![t][s] = vote]
      BY <1>2 DEF RecordApproval, RecordDenial
    <2>2. \A u \in TxIds : Aggregated(u)' = Aggregated(u)
      BY <1>0, <2>1 DEF Aggregated
    <2> QED
      BY <2>2 DEF ProvedOnChain
  <1>3. ASSUME NEW c \in Callers, NEW s \in Signers, NEW outcome \in {"aggregated", "failed"},
               SettleProof(c, s, outcome)
        PROVE  \/ ProvedOnChain' = ProvedOnChain
               \/ \E t \in TxIds :
                      /\ ProvedOnChain' = ProvedOnChain \union {Statement(s, t)}
                      /\ UNCHANGED walletVars
    <2>1. PICK t : /\ votes[t][s] = "pending"
                   /\ votes' = [votes EXCEPT ![t][s] = outcome]
                   /\ UNCHANGED walletVars
      BY <1>3 DEF SettleProof, Unproved, restVars
    <2>2. CASE t \in TxIds /\ outcome = "aggregated"
      <3>1. \A u \in TxIds, r \in Signers :
                votes'[u][r] = IF u = t /\ r = s THEN outcome ELSE votes[u][r]
        BY <1>0, <2>1, <2>2
      <3>2. Aggregated(t)' = Aggregated(t) \union {s}
        BY <2>2, <3>1 DEF Aggregated
      <3>3. \A u \in TxIds : u # t => Aggregated(u)' = Aggregated(u)
        BY <3>1 DEF Aggregated
      <3>4. ProvedOnChain' = ProvedOnChain \union {Statement(s, t)}
        BY <2>2, <3>2, <3>3 DEF ProvedOnChain
      <3> QED
        BY <2>1, <2>2, <3>4
    <2>3. CASE ~(t \in TxIds /\ outcome = "aggregated")
      <3>1. \A u \in TxIds, r \in Signers :
                votes'[u][r] = "aggregated" <=> votes[u][r] = "aggregated"
        BY <1>0, <2>1, <2>3
      <3>2. \A u \in TxIds : Aggregated(u)' = Aggregated(u)
        BY <3>1 DEF Aggregated
      <3> QED
        BY <3>2 DEF ProvedOnChain
    <2> QED
      BY <2>2, <2>3
  <1> QED
    BY <1>1, <1>2, <1>3, VoteSteps

\* Mining touches no vote.
LEMMA MineIsExecute ==
  ASSUME Base, NEW h \in Hashes, Mine(h)
  PROVE  \E n \in TxIds, call \in Range(CallOf),
            proofs \in UNION {[1..k -> Signers] : k \in 0..Cardinality(Signers)} :
                Wallet!Execute(n, call, proofs)
  <1> DEFINE t == submissions[h].txId
             proofs == SetToSeq(submissions[h].proofs)
  <1>1. t \in TxIds /\ submissions[h].proofs \in SUBSET Signers
    BY DEF Base, TypeOK, SubmissionsUseNonces, Mine, Submission
  <1>2. CallOf[t] \in Range(CallOf)
    BY <1>1, CallsAssumption DEF Range
  <1>3. proofs \in UNION {[1..k -> Signers] : k \in 0..Cardinality(Signers)}
    BY <1>1, SetToSeqLists
  <1>4. Wallet!Execute(t, CallOf[t], proofs)
    BY DEF Mine
  <1> QED
    BY <1>1, <1>2, <1>3, <1>4

\* Every step of the service, of its requests, sweeps and votes, is a step of
\* the contract's specification or leaves the contract alone.
LEMMA WalletStep ==
  ASSUME Base, [Next]_vars
  PROVE  [Wallet!Next]_(Wallet!vars)
  <1>1. ASSUME NEW h \in Hashes, Mine(h)
        PROVE  Wallet!Next
    BY <1>1, MineIsExecute DEF Wallet!Next, Range, Wallet!Range
  <1>2. ASSUME NEW token \in Tokens, NEW amount \in DepositAmounts, Deposit(token, amount)
        PROVE  Wallet!Next
    BY <1>2 DEF Deposit, Wallet!Next
  <1>3. ASSUME NEW t \in TxIds, NEW s \in Signers,
               ProvedOnChain' = ProvedOnChain \union {Statement(s, t)}, UNCHANGED walletVars
        PROVE  Wallet!Next
    <2>1. Statement(s, t)[1] = s /\ Statement(s, t)[2] = <<t, CallOf[t]>>
      BY DEF Statement
    <2>2. Statement(s, t) = <<Statement(s, t)[1], Statement(s, t)[2]>>
      BY DEF Statement
    <2>3. Wallet!Attest(Statement(s, t)[1], Statement(s, t)[2])
      BY <1>3, <2>2 DEF Wallet!Attest, walletVars
    <2> QED
      BY <2>3 DEF Wallet!Next
  <1>4. CASE UNCHANGED walletVars
    BY <1>3, <1>4, AttestStep DEF Base, Wallet!vars, walletVars
  <1>5. \/ UNCHANGED walletVars
        \/ \E h \in Hashes : Mine(h)
        \/ \E token \in Tokens, amount \in DepositAmounts : Deposit(token, amount)
    <2>1. CASE SweepStep
      BY <2>1 DEF SweepStep, SweepHashed, Reconcile, SkipReconcile, SweepStale, ResetStale, EndSweep
    <2>2. ASSUME NEW c \in Callers, CallStep(c)
          PROVE  UNCHANGED walletVars
      BY <2>2, CallStepFrame DEF restVars
    <2>3. ASSUME \/ VotingNext /\ UNCHANGED <<serviceVars, walletVars>>
                 \/ \E c \in Callers, u \in TxIds : ReadTransaction(c, u)
                 \/ \E h \in Hashes : MineReverted(h)
                 \/ \E u \in TxIds : Grow(u)
                 \/ Crash
                 \/ SweepFails
                 \/ UNCHANGED vars
          PROVE  UNCHANGED walletVars
      BY <2>3 DEF ReadTransaction, MineReverted, Grow, Crash, SweepFails, vars, restVars
    <2> QED
      BY <2>1, <2>2, <2>3 DEF Next, ChainStep
  <1> QED
    BY <1>1, <1>2, <1>4, <1>5

\* The service implements the contract's specification, with the aggregated
\* votes for what zkVerify has attested: whatever the requests, the sweeps and
\* the restarts do, what happens to the wallet is what MetaMultiSigWallet allows.
THEOREM ServiceImplementsWallet == Spec => WalletSpec
  <1>1. Init => Wallet!Init
    <2> SUFFICES ASSUME Init
                 PROVE  Wallet!Init
      OBVIOUS
    <2>1. ProvedOnChain = {}
      BY DEF Init, VotingInit, ProvedOnChain, Aggregated
    <2> QED
      BY <2>1 DEF Init, Wallet!Init
  <1>2. Inv /\ [Next]_vars => [Wallet!Next]_(Wallet!vars)
    BY WalletStep DEF Inv
  <1> QED
    BY <1>1, <1>2, Invariance, PTL DEF Spec, WalletSpec, Wallet!Spec

-----------------------------------------------------------------------------
(* What the contract guarantees, the service inherits.                     *)

\* The theorems about the contract, for the wallet of the service.
WalletFacts == INSTANCE MetaMultiSigWalletProofs WITH
    Nonces <- TxIds,
    Calls <- Range(CallOf),
    Statements <- {Statement(s, t) : s \in Signers, t \in TxIds},
    ProofLists <- UNION {[1..n -> Signers] : n \in 0..Cardinality(Signers)},
    attested <- ProvedOnChain

\* The deployment, the calls and the votes of the service are such that the
\* contract is meant to work.
LEMMA WalletDeployed ==
  /\ WalletFacts!CommitmentsAssumption
  /\ WalletFacts!InputsAssumption
  /\ WalletFacts!DeploymentAssumption
  <1>1. WalletFacts!CommitmentsAssumption
    BY WalletAssumption DEF WalletFacts!CommitmentsAssumption, IsFiniteSet, WalletFacts!IsFiniteSet
  <1>2. Range(CallOf) \subseteq WalletFacts!Call
    BY CallsAssumption DEF Range, Wallet!Call, WalletFacts!Call, Wallet!Item, WalletFacts!Item,
       Wallet!Kinds, WalletFacts!Kinds
  <1>3. {Statement(s, t) : s \in Signers, t \in TxIds}
            \subseteq Commitments \X (TxIds \X Range(CallOf))
    BY CallsAssumption DEF Statement, Range
  <1>4. UNION {[1..n -> Signers] : n \in 0..Cardinality(Signers)} \subseteq Seq(Commitments)
    <2> SUFFICES ASSUME NEW n \in 0..Cardinality(Signers), NEW proofs \in [1..n -> Signers]
                 PROVE  proofs \in Seq(Commitments)
      OBVIOUS
    <2>1. n \in Nat
      BY SignersAssumption, FS_CardinalityType
    <2>2. proofs \in [1..n -> Commitments]
      BY CallsAssumption
    <2> QED
      BY <2>1, <2>2
  <1>5. WalletFacts!InputsAssumption
    BY <1>2, <1>3, <1>4, WalletAssumption DEF WalletFacts!InputsAssumption, Range, WalletFacts!Range
  <1>6. WalletFacts!DeploymentAssumption
    BY WalletAssumption DEF WalletFacts!DeploymentAssumption, Cardinality, WalletFacts!Cardinality,
       IsFiniteSet, WalletFacts!IsFiniteSet
  <1> QED
    BY <1>1, <1>5, <1>6

\* They are about this wallet.
LEMMA SameWallet ==
  /\ WalletFacts!Init = Wallet!Init
  /\ WalletFacts!Next = Wallet!Next
  /\ WalletFacts!NeverLockedOut = Wallet!NeverLockedOut
  /\ WalletFacts!QuorumApproved = Wallet!QuorumApproved
  /\ WalletFacts!NonceExecutesOnce = Wallet!NonceExecutesOnce
  /\ WalletFacts!NullifiersMatchExecutions = Wallet!NullifiersMatchExecutions
  <1>1. WalletFacts!Init = Wallet!Init
    BY DEF Wallet!Init, WalletFacts!Init
  <1>2. \A s \in {Statement(s, t) : s \in Signers, t \in TxIds} :
            WalletFacts!Attest(s[1], s[2]) = Wallet!Attest(s[1], s[2])
    BY DEF Wallet!Attest, WalletFacts!Attest
  <1>3. \A call \in Range(CallOf) : WalletFacts!InnerCall(call) = Wallet!InnerCall(call)
    BY DEF Wallet!InnerCall, WalletFacts!InnerCall, Wallet!Pay, WalletFacts!Pay,
       Wallet!CanPay, WalletFacts!CanPay, Wallet!Spent, WalletFacts!Spent, Wallet!FoldLeft,
       WalletFacts!FoldLeft, Wallet!MapThenFoldSet, WalletFacts!MapThenFoldSet, Wallet!Max,
       WalletFacts!Max, Wallet!AddSigners, WalletFacts!AddSigners, Wallet!CanAddSigners,
       WalletFacts!CanAddSigners, Wallet!RemoveSigners, WalletFacts!RemoveSigners,
       Wallet!CanRemoveSigners, WalletFacts!CanRemoveSigners,
       Wallet!UpdateSignaturesRequired, WalletFacts!UpdateSignaturesRequired,
       Wallet!CanUpdateSignaturesRequired, WalletFacts!CanUpdateSignaturesRequired,
       Wallet!IsInjective, WalletFacts!IsInjective, Wallet!Range, WalletFacts!Range,
       Wallet!Cardinality, WalletFacts!Cardinality, Wallet!IsFiniteSet,
       WalletFacts!IsFiniteSet
  <1>4. \A n, call, proofs :
            WalletFacts!Authorised(n, call, proofs) = Wallet!Authorised(n, call, proofs)
    BY DEF Wallet!Authorised, WalletFacts!Authorised, Wallet!ProofsAccepted,
       WalletFacts!ProofsAccepted, Wallet!Nullifier, WalletFacts!Nullifier, Wallet!TxHash,
       WalletFacts!TxHash
  <1>5. \A n, call, proofs :
            WalletFacts!SpentNullifiers(n, call, proofs) = Wallet!SpentNullifiers(n, call, proofs)
    BY DEF Wallet!SpentNullifiers, WalletFacts!SpentNullifiers, Wallet!Nullifier,
       WalletFacts!Nullifier, Wallet!TxHash, WalletFacts!TxHash, Wallet!Range,
       WalletFacts!Range
  <1>6. \A n, call, proofs :
            WalletFacts!Execution(n, call, proofs) = Wallet!Execution(n, call, proofs)
    BY DEF Wallet!Execution, WalletFacts!Execution, Wallet!Range, WalletFacts!Range
  <1>7. \A n \in TxIds, call \in Range(CallOf) : \A proofs :
            WalletFacts!Execute(n, call, proofs) = Wallet!Execute(n, call, proofs)
    BY <1>3, <1>4, <1>5, <1>6 DEF Wallet!Execute, WalletFacts!Execute
  <1>8. \A token, amount : WalletFacts!Deposit(token, amount) = Wallet!Deposit(token, amount)
    BY DEF Wallet!Deposit, WalletFacts!Deposit
  <1>9. WalletFacts!Next = Wallet!Next
    BY <1>2, <1>7, <1>8 DEF Wallet!Next, WalletFacts!Next, Wallet!Range, WalletFacts!Range,
       Wallet!Cardinality, WalletFacts!Cardinality, Wallet!IsFiniteSet,
       WalletFacts!IsFiniteSet
  <1>10. WalletFacts!NeverLockedOut = Wallet!NeverLockedOut
    BY DEF Wallet!NeverLockedOut, WalletFacts!NeverLockedOut, Wallet!Cardinality,
       WalletFacts!Cardinality, Wallet!IsFiniteSet, WalletFacts!IsFiniteSet
  <1>11. WalletFacts!QuorumApproved = Wallet!QuorumApproved
    BY DEF Wallet!QuorumApproved, WalletFacts!QuorumApproved, Wallet!TxHash,
       WalletFacts!TxHash, Wallet!Cardinality, WalletFacts!Cardinality, Wallet!IsFiniteSet,
       WalletFacts!IsFiniteSet
  <1>12. WalletFacts!NonceExecutesOnce = Wallet!NonceExecutesOnce
    BY DEF Wallet!NonceExecutesOnce, WalletFacts!NonceExecutesOnce
  <1>13. WalletFacts!NullifiersMatchExecutions = Wallet!NullifiersMatchExecutions
    BY DEF Wallet!NullifiersMatchExecutions, WalletFacts!NullifiersMatchExecutions,
       Wallet!TxHash, WalletFacts!TxHash
  <1> QED
    BY <1>1, <1>9, <1>10, <1>11, <1>12, <1>13

\* What the service does with it is what those theorems assume.
LEMMA WalletRuns == Spec => WalletFacts!Spec
  <1>1. Wallet!Init => WalletFacts!Init
    BY SameWallet
  <1>2. [Wallet!Next]_(Wallet!vars) => [WalletFacts!Next]_(WalletFacts!vars)
    BY SameWallet DEF Wallet!vars, WalletFacts!vars
  <1>3. Spec => Wallet!Spec
    BY ServiceImplementsWallet DEF WalletSpec
  <1> QED
    BY <1>1, <1>2, <1>3, PTL DEF Wallet!Spec, WalletFacts!Spec

\* Whatever the service makes the wallet execute, the wallet keeps as many
\* signers as a call of it needs; every execution has the proofs of a quorum of
\* the signers of that moment; a transaction is executed once; and only the
\* nullifiers of executions are spent.
THEOREM ServiceKeepsWallet ==
  Spec => /\ []Wallet!NeverLockedOut
          /\ []Wallet!QuorumApproved
          /\ []Wallet!NonceExecutesOnce
          /\ []Wallet!NullifiersMatchExecutions
  <1>1. WalletFacts!Spec => []WalletFacts!NeverLockedOut
    BY WalletDeployed, WalletFacts!WalletNeverLockedOut, PTL
  <1>2. WalletFacts!Spec => []WalletFacts!QuorumApproved
    BY WalletDeployed, WalletFacts!ExecutionsAreQuorumApproved, PTL
  <1>3. WalletFacts!Spec => []WalletFacts!NonceExecutesOnce
    BY WalletDeployed, WalletFacts!NoncesExecuteOnce, PTL
  <1>4. WalletFacts!Spec => []WalletFacts!NullifiersMatchExecutions
    BY WalletDeployed, WalletFacts!NullifiersAreThoseOfExecutions, PTL
  <1>5. /\ WalletFacts!NeverLockedOut => Wallet!NeverLockedOut
        /\ WalletFacts!QuorumApproved => Wallet!QuorumApproved
        /\ WalletFacts!NonceExecutesOnce => Wallet!NonceExecutesOnce
        /\ WalletFacts!NullifiersMatchExecutions => Wallet!NullifiersMatchExecutions
    BY SameWallet
  <1> QED
    BY <1>1, <1>2, <1>3, <1>4, <1>5, WalletRuns, PTL

\* What is executed was voted for: by as many different signers as the wallet
\* required at that moment, each of them one of its signers, none of whom has
\* denied it.
ExecutionsWereVoted ==
    \A e \in executions :
        /\ Cardinality(e.approvers) >= e.required
        /\ e.approvers \subseteq e.signers
        /\ \A s \in e.approvers : votes[e.nonce][s] = "aggregated"

\* No interleaving of votes, requests and sweeps makes the wallet execute a
\* transaction that a quorum of its signers did not vote for in the service.
THEOREM EveryExecutionWasVoted == Spec => []ExecutionsWereVoted
  <1>1. Inv /\ Wallet!QuorumApproved => ExecutionsWereVoted
    <2> SUFFICES ASSUME Inv, Wallet!QuorumApproved, NEW e \in executions
                 PROVE  /\ Cardinality(e.approvers) >= e.required
                        /\ e.approvers \subseteq e.signers
                        /\ \A s \in e.approvers : votes[e.nonce][s] = "aggregated"
      BY DEF ExecutionsWereVoted
    <2>1. /\ Wallet!Cardinality(e.approvers) >= e.required
          /\ e.approvers \subseteq e.signers
      BY DEF Wallet!QuorumApproved
    <2>2. Wallet!Cardinality(e.approvers) = Cardinality(e.approvers)
      BY DEF Cardinality, Wallet!Cardinality, IsFiniteSet, Wallet!IsFiniteSet
    <2>3. e.approvers \subseteq Aggregated(e.nonce)
      BY DEF Inv, ProofsAreVotes
    <2> QED
      BY <2>1, <2>2, <2>3 DEF Aggregated
  <1> QED
    BY <1>1, Invariance, ServiceKeepsWallet, PTL

\* Nothing the service does changes the signers or the threshold of the wallet,
\* or takes money out of it, but an execution that a quorum approved.
THEOREM ServiceChangesWalletByQuorum == Spec => Wallet!OnlyQuorumChangesWallet
  <1>1. WalletFacts!Spec => WalletFacts!OnlyQuorumChangesWallet
    BY WalletDeployed, WalletFacts!QuorumChangesWallet, PTL
  <1> QED
    BY <1>1, WalletRuns, PTL
    DEF WalletFacts!OnlyQuorumChangesWallet, Wallet!OnlyQuorumChangesWallet, Wallet!vars,
        WalletFacts!vars, Cardinality, WalletFacts!Cardinality, Wallet!Cardinality
=============================================================================
