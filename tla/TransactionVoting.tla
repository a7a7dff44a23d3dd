-------------------------- MODULE TransactionVoting --------------------------
(***************************************************************************)
(* The rows of the tables Transaction and Vote of one account, and the     *)
(* handlers approve and deny of                                            *)
(* backend/src/transaction/transaction.service.ts.                         *)
(*                                                                         *)
(* A handler is cut at every await after which another request may have    *)
(* changed what it read.  approve waits up to 150 s for zkVerify between   *)
(* its checks and the insert of the vote, and never repeats the checks.    *)
(* deny inserts its vote, reads everything back, and writes FAILED.        *)
(*                                                                         *)
(* The rows exist from the start: they are what createTransaction leaves,  *)
(* with the creator's approval (NonceReservation.tla is about creation).   *)
(***************************************************************************)
EXTENDS Integers, FiniteSets

CONSTANTS
    TxIds,              \* the account's transactions
    Signers,            \* the account's signers in the database
    Creator,            \* TxIds -> Signers
    InitialThreshold,   \* what createTransaction copies from the chain
    Hashes,             \* hashes of on-chain submissions
    NoHash              \* txHash is null

ASSUME CreatorAssumption == Creator \in [TxIds -> Signers]
ASSUME SignersAssumption == IsFiniteSet(Signers)
ASSUME ThresholdAssumption == InitialThreshold \in 1..Cardinality(Signers)
ASSUME NoHashAssumption == NoHash \notin Hashes

VARIABLES
    rows,       \* TxIds -> [status, txHash, threshold, stale]
    votes,      \* TxIds -> Signers -> how the signer voted
    approving,  \* TxIds -> approvals waiting for zkVerify
    denying     \* TxIds -> Signers -> where the signer's deny request stands

votingVars == <<rows, votes, approving, denying>>

Statuses == {"PENDING", "EXECUTING", "EXECUTED", "FAILED"}

\* A vote row that does not exist, a DENY, or an APPROVE by its proofStatus.
VoteStates == {"none", "deny", "pending", "aggregated", "failed"}

DenySteps == {"idle", "checked", "recorded", "hopeless"}

\* stale: nothing has written the row for 30 minutes (updatedAt).
Row == [status : Statuses, txHash : Hashes \union {NoHash}, threshold : Nat,
        stale : BOOLEAN]

Approvals(t) == {s \in Signers : votes[t][s] \in {"pending", "aggregated", "failed"}}
Denials(t) == {s \in Signers : votes[t][s] = "deny"}
Voted(t) == Approvals(t) \union Denials(t)
Aggregated(t) == {s \in Signers : votes[t][s] = "aggregated"}
Unproved(t) == {s \in Signers : votes[t][s] = "pending"}

\* A write of some columns of the row: Prisma also sets updatedAt.
Written(row) == [row EXCEPT !.stale = FALSE]
WithStatus(row, status) == Written([row EXCEPT !.status = status])

Open(t) == rows[t].status \notin {"EXECUTED", "FAILED"}

-----------------------------------------------------------------------------
(* approve *)

BeginApprove(t, s) ==
    /\ Open(t)
    /\ votes[t][s] = "none"
    /\ s \notin approving[t]
    /\ approving' = [approving EXCEPT ![t] = @ \union {s}]
    /\ UNCHANGED <<rows, votes, denying>>

\* Mutant: an upsert, as if the unique index were not there.
RecordApprovalAnyway(t, s) ==
    /\ s \in approving[t]
    /\ votes' = [votes EXCEPT ![t][s] = "pending"]
    /\ approving' = [approving EXCEPT ![t] = @ \ {s}]
    /\ UNCHANGED <<rows, denying>>

\* zkVerify accepted the proof: the insert, which the unique index on
\* (txId, voterCommitment) refuses if the signer has voted meanwhile.
RecordApproval(t, s) ==
    /\ s \in approving[t]
    /\ votes' = IF votes[t][s] = "none" THEN [votes EXCEPT ![t][s] = "pending"]
                                        ELSE votes
    /\ approving' = [approving EXCEPT ![t] = @ \ {s}]
    /\ UNCHANGED <<rows, denying>>

\* zkVerify refused it, or did not include it in a block in time.
ApprovalRejected(t, s) ==
    /\ s \in approving[t]
    /\ approving' = [approving EXCEPT ![t] = @ \ {s}]
    /\ UNCHANGED <<rows, votes, denying>>

-----------------------------------------------------------------------------
(* deny *)

BeginDeny(t, s) ==
    /\ Open(t)
    /\ votes[t][s] = "none"
    /\ denying[t][s] = "idle"
    /\ denying' = [denying EXCEPT ![t][s] = "checked"]
    /\ UNCHANGED <<rows, votes, approving>>

\* Mutant: an upsert, as if the unique index were not there.
RecordDenialAnyway(t, s) ==
    /\ denying[t][s] = "checked"
    /\ votes' = [votes EXCEPT ![t][s] = "deny"]
    /\ denying' = [denying EXCEPT ![t][s] = "recorded"]
    /\ UNCHANGED <<rows, approving>>

RecordDenial(t, s) ==
    /\ denying[t][s] = "checked"
    /\ IF votes[t][s] = "none"
       THEN /\ votes' = [votes EXCEPT ![t][s] = "deny"]
            /\ denying' = [denying EXCEPT ![t][s] = "recorded"]
       ELSE /\ denying' = [denying EXCEPT ![t][s] = "idle"]
            /\ UNCHANGED votes
    /\ UNCHANGED <<rows, approving>>

\* Mutant: only the signers who have not voted yet.
MaxPossibleApprovesOfSilent(t) == Cardinality(Signers) - Cardinality(Voted(t))

\* checkIfFailed: an approval counts whether or not its proof can still be
\* aggregated, and so do votes of people who have not voted yet.
MaxPossibleApproves(t) ==
    Cardinality(Approvals(t)) + (Cardinality(Signers) - Cardinality(Voted(t)))

CheckIfFailed(t, s) ==
    /\ denying[t][s] = "recorded"
    /\ denying' = [denying EXCEPT ![t][s] =
           IF MaxPossibleApproves(t) < rows[t].threshold THEN "hopeless" ELSE "idle"]
    /\ UNCHANGED <<rows, votes, approving>>

\* Mutant: the status that the table's enumeration has and the service has not.
MarkOutdated(t, s) ==
    /\ denying[t][s] = "hopeless"
    /\ rows' = [rows EXCEPT ![t] = WithStatus(@, "OUTDATED")]
    /\ denying' = [denying EXCEPT ![t][s] = "idle"]
    /\ UNCHANGED <<votes, approving>>

\* The update is unconditional: whatever the status has become by now.
MarkFailed(t, s) ==
    /\ denying[t][s] = "hopeless"
    /\ rows' = [rows EXCEPT ![t] = WithStatus(@, "FAILED")]
    /\ denying' = [denying EXCEPT ![t][s] = "idle"]
    /\ UNCHANGED <<votes, approving>>

-----------------------------------------------------------------------------

VotingInit ==
    /\ rows = [t \in TxIds |-> [status |-> "PENDING", txHash |-> NoHash,
                                threshold |-> InitialThreshold, stale |-> FALSE]]
    /\ votes = [t \in TxIds |->
                   [s \in Signers |-> IF s = Creator[t] THEN "pending" ELSE "none"]]
    /\ approving = [t \in TxIds |-> {}]
    /\ denying = [t \in TxIds |-> [s \in Signers |-> "idle"]]

VotingNext ==
    \E t \in TxIds, s \in Signers :
        \/ BeginApprove(t, s)
        \/ RecordApproval(t, s)
        \/ ApprovalRejected(t, s)
        \/ BeginDeny(t, s)
        \/ RecordDenial(t, s)
        \/ CheckIfFailed(t, s)
        \/ MarkFailed(t, s)

VotingTypeOK ==
    /\ rows \in [TxIds -> Row]
    /\ votes \in [TxIds -> [Signers -> VoteStates]]
    /\ approving \in [TxIds -> SUBSET Signers]
    /\ denying \in [TxIds -> [Signers -> DenySteps]]
=============================================================================
