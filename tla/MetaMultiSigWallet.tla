------------------------- MODULE MetaMultiSigWallet -------------------------
(***************************************************************************)
(* The on-chain wallet: hardhat/contracts/MetaMultiSigWallet.sol.          *)
(*                                                                         *)
(* A wallet is a set of signer commitments, a number of signatures that a  *)
(* call needs, the nonces and the nullifiers already spent, and balances.  *)
(* Anybody may submit `execute` (the relayer does); what authorises a call *)
(* is the list of proofs that comes with it.  One EVM transaction is one   *)
(* step: a `require` that fails anywhere, the inner call included, undoes  *)
(* the whole transaction, so a failing execution is a stuttering step and  *)
(* every guard below is a conjunct of the only action that changes state.  *)
(*                                                                         *)
(* commitments is a set here and an array in the contract.  The order of   *)
(* the array is visible only in getCommitments(); that the contract's      *)
(* loops over the array compute the set operations used here is stated in  *)
(* SignerArray.tla and proved in SignerArrayProofs.tla, for every array    *)
(* without duplicates.                                                     *)
(***************************************************************************)
EXTENDS Integers, FiniteSets, Sequences, SequencesExt

CONSTANTS
    Commitments,        \* commitments that proofs or signer lists can name
    ZeroCommitment,     \* the commitment 0, which the contract refuses
    Nonces,             \* nonces that the backend hands out
    Tokens,             \* native ETH and the ERC20 tokens the wallet holds
    Calls,              \* the (to, value, data) triples that are proposed
    InitialCommitments, \* constructor argument
    InitialRequired,    \* constructor argument
    InitialBalances,
    Statements,         \* statements <<commitment, txHash>> that somebody may prove
    ProofLists,         \* lists of proofs that somebody may submit
    DepositAmounts,
    MaxBalance          \* more of a token than there is

Kinds == {"transfer", "batchTransfer", "addSigners", "removeSigners",
          "updateSignaturesRequired"}

\* One line of a batch, or the whole of a transfer.
Item == [token : Tokens, amount : Nat]

\* What `to.call{value}(data)` decodes to.  A kind reads only its own fields.
Call == [kind : Kinds, items : Seq(Item), list : Seq(Commitments), required : Nat]

ASSUME CommitmentsAssumption == IsFiniteSet(Commitments)
ASSUME InputsAssumption ==
    /\ Calls \subseteq Call
    /\ Statements \subseteq Commitments \X (Nonces \X Calls)
    /\ ProofLists \subseteq Seq(Commitments)
    /\ DepositAmounts \subseteq Nat
\* The `require`s of the constructor, and the distinct signers of every
\* account the backend persists (AccountSigner is unique per user, account).
ASSUME DeploymentAssumption ==
    /\ InitialCommitments \subseteq Commitments
    /\ ZeroCommitment \notin InitialCommitments
    /\ InitialRequired \in 1..Cardinality(InitialCommitments)
    /\ InitialBalances \in [Tokens -> Nat]

VARIABLES
    commitments,        \* the current signers
    signaturesRequired,
    usedNonces,
    usedNullifiers,
    balances,           \* token -> amount held by the wallet
    attested,           \* statements <<commitment, txHash>> zkVerify has aggregated
    executions          \* history: one record per successful execute

vars == <<commitments, signaturesRequired, usedNonces, usedNullifiers, balances,
          attested, executions>>

-----------------------------------------------------------------------------
(* Hashes and proofs.                                                      *)

\* keccak256(address, chainId, nonce, to, value, data): injective.
TxHash(nonce, call) == <<nonce, call>>
TxHashes == Nonces \X Calls

\* The circuit outputs hash(secret, txHash), and commitment = hash(secret, secret):
\* one nullifier per signer and transaction.
Nullifier(commitment, txHash) == <<commitment, txHash>>

\* Mutant: the nullifiers are compared with earlier transactions only.
ProofsAcceptedWithRepeats(proofs, txHash) ==
    \A i \in DOMAIN proofs :
        /\ Nullifier(proofs[i], txHash) \notin usedNullifiers
        /\ proofs[i] \in commitments
        /\ <<proofs[i], txHash>> \in attested

\* The loop over `proofs`: each one is a current signer's, attested for this
\* very transaction, and spends a nullifier that neither an earlier
\* transaction nor an earlier proof of the same list has spent.
ProofsAccepted(proofs, txHash) ==
    \A i \in DOMAIN proofs :
        /\ Nullifier(proofs[i], txHash) \notin usedNullifiers
        /\ \A j \in 1..(i - 1) :
               Nullifier(proofs[j], txHash) # Nullifier(proofs[i], txHash)
        /\ proofs[i] \in commitments
        /\ <<proofs[i], txHash>> \in attested

-----------------------------------------------------------------------------
(* The inner call.                                                         *)

Spent(call, token) ==
    FoldLeft(LAMBDA sum, item : IF item.token = token THEN sum + item.amount ELSE sum,
             0, call.items)

\* Mutant: the results of the transfers are ignored.
CanPayUnfunded(call) == call.items # <<>>

\* Transfers of ETH and of ERC20 tokens, one or a whole batch: all or nothing.
CanPay(call) ==
    /\ call.items # <<>>
    /\ \A token \in Tokens : Spent(call, token) \in 0..balances[token]

CanAddSigners(call) ==
    /\ call.list # <<>>
    /\ call.required > 0
    /\ call.required <= Cardinality(commitments) + Len(call.list)
    /\ ZeroCommitment \notin Range(call.list)
    /\ Range(call.list) \intersect commitments = {}
    /\ IsInjective(call.list)

\* Mutant: the new threshold is compared with the signers before the removal.
CanRemoveSignersBelowThreshold(call) ==
    /\ call.list # <<>>
    /\ Cardinality(commitments) > Len(call.list)
    /\ call.required > 0
    /\ call.required <= Cardinality(commitments)
    /\ Range(call.list) \subseteq commitments
    /\ IsInjective(call.list)

CanRemoveSigners(call) ==
    /\ call.list # <<>>
    /\ Cardinality(commitments) > Len(call.list)
    /\ call.required > 0
    /\ call.required <= Cardinality(commitments) - Len(call.list)
    /\ Range(call.list) \subseteq commitments
    /\ IsInjective(call.list)

CanUpdateSignaturesRequired(call) ==
    /\ call.required > 0
    /\ call.required <= Cardinality(commitments)

CanInnerCall(call) ==
    \/ call.kind \in {"transfer", "batchTransfer"} /\ CanPay(call)
    \/ call.kind = "addSigners" /\ CanAddSigners(call)
    \/ call.kind = "removeSigners" /\ CanRemoveSigners(call)
    \/ call.kind = "updateSignaturesRequired" /\ CanUpdateSignaturesRequired(call)

Pay(call) ==
    /\ CanPay(call)
    /\ balances' = [token \in Tokens |-> balances[token] - Spent(call, token)]
    /\ UNCHANGED <<commitments, signaturesRequired>>

AddSigners(call) ==
    /\ CanAddSigners(call)
    /\ commitments' = commitments \union Range(call.list)
    /\ signaturesRequired' = call.required
    /\ UNCHANGED balances

RemoveSigners(call) ==
    /\ CanRemoveSigners(call)
    /\ commitments' = commitments \ Range(call.list)
    /\ signaturesRequired' = call.required
    /\ UNCHANGED balances

UpdateSignaturesRequired(call) ==
    /\ CanUpdateSignaturesRequired(call)
    /\ signaturesRequired' = call.required
    /\ UNCHANGED <<commitments, balances>>

InnerCall(call) ==
    \/ call.kind \in {"transfer", "batchTransfer"} /\ Pay(call)
    \/ call.kind = "addSigners" /\ AddSigners(call)
    \/ call.kind = "removeSigners" /\ RemoveSigners(call)
    \/ call.kind = "updateSignaturesRequired" /\ UpdateSignaturesRequired(call)

-----------------------------------------------------------------------------
(* The entry points.                                                       *)

\* A proof of knowledge of the commitment's secret over txHash reaches the
\* zkVerify aggregation contract (circuit, zkVerify and its relay to the
\* wallet's chain).  Whether the prover is a signer is not checked here.
Attest(commitment, txHash) ==
    /\ attested' = attested \union {<<commitment, txHash>>}
    /\ UNCHANGED <<commitments, signaturesRequired, usedNonces, usedNullifiers,
                   balances, executions>>

\* Mutant: the nonce is left to the nullifiers.
AuthorisedByNullifiers(nonce, call, proofs) ==
    /\ Len(proofs) >= signaturesRequired
    /\ ProofsAccepted(proofs, TxHash(nonce, call))

\* Mutant: one approval short.
AuthorisedOneShort(nonce, call, proofs) ==
    /\ nonce \notin usedNonces
    /\ Len(proofs) + 1 >= signaturesRequired
    /\ ProofsAccepted(proofs, TxHash(nonce, call))

Authorised(nonce, call, proofs) ==
    /\ nonce \notin usedNonces
    /\ Len(proofs) >= signaturesRequired
    /\ ProofsAccepted(proofs, TxHash(nonce, call))

\* What an execution leaves behind, for the properties.
Execution(nonce, call, proofs) ==
    [nonce |-> nonce, call |-> call, approvers |-> Range(proofs),
     signers |-> commitments, required |-> signaturesRequired]

\* Whether `execute` would succeed now: what gas estimation finds out.
Executable(nonce, call, proofs) ==
    Authorised(nonce, call, proofs) /\ CanInnerCall(call)

\* Mutant: only the first proof's nullifier is recorded.
SpentNullifiersOfFirst(nonce, call, proofs) ==
    {Nullifier(Head(proofs), TxHash(nonce, call))}

SpentNullifiers(nonce, call, proofs) ==
    {Nullifier(c, TxHash(nonce, call)) : c \in Range(proofs)}

\* Mutant: neither the nonce nor the nullifiers are recorded.
ExecuteForgetful(nonce, call, proofs) ==
    /\ Authorised(nonce, call, proofs)
    /\ InnerCall(call)
    /\ executions' = executions \union {Execution(nonce, call, proofs)}
    /\ UNCHANGED <<attested, usedNonces, usedNullifiers>>

Execute(nonce, call, proofs) ==
    /\ Authorised(nonce, call, proofs)
    /\ usedNullifiers' = usedNullifiers \union SpentNullifiers(nonce, call, proofs)
    /\ usedNonces' = usedNonces \union {nonce}
    /\ InnerCall(call)
    /\ executions' = executions \union {Execution(nonce, call, proofs)}
    /\ UNCHANGED attested

\* receive(): a deposit.
Deposit(token, amount) ==
    /\ balances[token] + amount <= MaxBalance
    /\ balances' = [balances EXCEPT ![token] = @ + amount]
    /\ UNCHANGED <<commitments, signaturesRequired, usedNonces, usedNullifiers,
                   attested, executions>>

Init ==
    /\ commitments = InitialCommitments
    /\ signaturesRequired = InitialRequired
    /\ usedNonces = {}
    /\ usedNullifiers = {}
    /\ balances = InitialBalances
    /\ attested = {}
    /\ executions = {}

Next ==
    \/ \E s \in Statements : Attest(s[1], s[2])
    \/ \E n \in Nonces, call \in Calls, proofs \in ProofLists : Execute(n, call, proofs)
    \/ \E token \in Tokens, amount \in DepositAmounts : Deposit(token, amount)

Spec == Init /\ [][Next]_vars

-----------------------------------------------------------------------------
(* Properties.                                                             *)

TypeOK ==
    /\ commitments \subseteq Commitments
    /\ signaturesRequired \in Nat
    /\ usedNonces \subseteq Nonces
    /\ usedNullifiers \subseteq Commitments \X TxHashes
    /\ balances \in [Tokens -> Nat]
    /\ attested \subseteq Commitments \X TxHashes
    /\ executions \subseteq
           [nonce : Nonces, call : Calls, approvers : SUBSET Commitments,
            signers : SUBSET Commitments, required : Nat]

\* No sequence of signer changes can lock the wallet: there are always at
\* least as many signers as a call needs, and a call always needs one.
NeverLockedOut ==
    /\ signaturesRequired >= 1
    /\ signaturesRequired <= Cardinality(commitments)

\* Every execution was approved by at least as many *different* people as the
\* wallet required at that moment, each of them a signer at that moment, and
\* each having proved that very nonce and call.
QuorumApproved ==
    \A e \in executions :
        /\ Cardinality(e.approvers) >= e.required
        /\ e.approvers \subseteq e.signers
        /\ e.approvers \X {TxHash(e.nonce, e.call)} \subseteq attested

\* A nonce authorises at most one execution, whatever proofs are replayed, and
\* the wallet's nonce set is exactly the nonces executed: a reverted call
\* burns none.
NonceExecutesOnce ==
    /\ \A e, f \in executions : e.nonce = f.nonce => e = f
    /\ usedNonces = {e.nonce : e \in executions}

\* The nullifiers spent are exactly those of the approvers of the executions.
NullifiersMatchExecutions ==
    usedNullifiers = UNION {e.approvers \X {TxHash(e.nonce, e.call)} : e \in executions}

\* Only an execution that a quorum of the signers of that moment approved
\* changes who the signers are, how many are needed, or takes money out.
OnlyQuorumChangesWallet ==
    [][(\/ commitments' # commitments
        \/ signaturesRequired' # signaturesRequired
        \/ \E token \in Tokens : balances'[token] < balances[token])
       => \E e \in executions' \ executions :
              /\ e.signers = commitments
              /\ Cardinality(e.approvers \intersect commitments) >= signaturesRequired]_vars
=============================================================================
