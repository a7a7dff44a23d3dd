---------------------- MODULE MetaMultiSigWalletProofs ----------------------
(***************************************************************************)
(* Proofs about the contract, for every set of commitments, nonces, calls  *)
(* and proof lists, every deployment, and every balance.                   *)
(*                                                                         *)
(* Each invariant is inductive together with the type invariant, except    *)
(* that a nonce is new only because usedNonces is exactly the nonces of    *)
(* the executions, which is why NonceExecutesOnce has two parts.  The fact *)
(* behind the quorum is arithmetic about lists: the nullifier check makes  *)
(* the list of proofs injective, so its length counts people.              *)
(***************************************************************************)
EXTENDS MetaMultiSigWallet, FiniteSetTheorems, FunctionTheorems, TLAPS

-----------------------------------------------------------------------------
(* Lists.                                                                  *)

\* The commitments that a list names are commitments.
LEMMA RangeOfList ==
  ASSUME NEW S, NEW s \in Seq(S)
  PROVE  Range(s) \subseteq S /\ IsFiniteSet(Range(s))
  <1>1. Len(s) \in Nat /\ s \in [1..Len(s) -> S]
    OBVIOUS
  <1>2. Range(s) \subseteq S
    BY <1>1, Fun_RangeProperties
  <1>3. s \in Surjection(1..Len(s), Range(s))
    BY <1>1, Fun_RangeProperties
  <1>4. IsFiniteSet(1..Len(s))
    BY <1>1, FS_Interval
  <1>5. IsFiniteSet(Range(s))
    BY <1>3, <1>4, FS_Surjection
  <1> QED
    BY <1>2, <1>5

\* A list without repetitions has as many elements as its length says.
LEMMA InjectiveSeqCardinality ==
  ASSUME NEW S, NEW s \in Seq(S), IsInjective(s)
  PROVE  Cardinality(Range(s)) = Len(s)
  <1>1. /\ Len(s) \in Nat
        /\ s \in [1..Len(s) -> S]
        /\ DOMAIN s = 1..Len(s)
    OBVIOUS
  <1>2. s \in Injection(1..Len(s), S)
    BY <1>1, Fun_IsInj DEF IsInjective
  <1>3. s \in Bijection(1..Len(s), Range(s))
    BY <1>2, Fun_InjMeansBijImage
  <1>4. /\ IsFiniteSet(1..Len(s))
        /\ Cardinality(1..Len(s)) = Len(s)
    BY <1>1, FS_Interval
  <1>5. ExistsBijection(1..Len(s), Range(s))
    BY <1>3, Fun_ExistsBij
  <1> QED
    BY <1>4, <1>5, FS_Bijection

\* The loop of execute accepts no commitment twice: it would meet its own
\* nullifier.
LEMMA AcceptedProofsAreDistinct ==
  ASSUME NEW proofs \in Seq(Commitments), NEW txHash, ProofsAccepted(proofs, txHash)
  PROVE  /\ IsInjective(proofs)
         /\ Range(proofs) \subseteq commitments
         /\ Range(proofs) \X {txHash} \subseteq attested
         /\ Cardinality(Range(proofs)) = Len(proofs)
  <1>1. /\ Len(proofs) \in Nat
        /\ DOMAIN proofs = 1..Len(proofs)
    OBVIOUS
  <1>2. ASSUME NEW i \in DOMAIN proofs, NEW j \in DOMAIN proofs, j < i
        PROVE  proofs[j] # proofs[i]
    <2>1. j \in 1..(i - 1)
      BY <1>1, <1>2
    <2>2. Nullifier(proofs[j], txHash) # Nullifier(proofs[i], txHash)
      BY <2>1 DEF ProofsAccepted
    <2> QED
      BY <2>2
  <1>3. IsInjective(proofs)
    <2> SUFFICES ASSUME NEW a \in DOMAIN proofs, NEW b \in DOMAIN proofs,
                        proofs[a] = proofs[b], a # b
                 PROVE  FALSE
      BY DEF IsInjective
    <2>1. a < b \/ b < a
      BY <1>1
    <2> QED
      BY <2>1, <1>2
  <1>4. \A i \in DOMAIN proofs : proofs[i] \in commitments /\ <<proofs[i], txHash>> \in attested
    BY DEF ProofsAccepted
  <1>5. Cardinality(Range(proofs)) = Len(proofs)
    BY <1>3, InjectiveSeqCardinality
  <1>6. Range(proofs) \subseteq commitments
    BY <1>4 DEF Range
  <1>7. Range(proofs) \X {txHash} \subseteq attested
    <2> SUFFICES ASSUME NEW c \in Range(proofs)
                 PROVE  <<c, txHash>> \in attested
      OBVIOUS
    <2> QED
      BY <1>4 DEF Range
  <1> QED
    BY <1>3, <1>5, <1>6, <1>7

-----------------------------------------------------------------------------
(* The type invariant.                                                     *)

\* The constructor leaves a wallet of the right type.
LEMMA InitTypeOK == Init => TypeOK
  <1> SUFFICES ASSUME Init PROVE TypeOK
    OBVIOUS
  <1>1. IsFiniteSet(InitialCommitments)
    BY CommitmentsAssumption, DeploymentAssumption, FS_Subset
  <1>2. Cardinality(InitialCommitments) \in Nat
    BY <1>1, FS_CardinalityType
  <1>3. InitialRequired \in Nat
    BY <1>2, DeploymentAssumption
  <1> QED
    BY <1>3, DeploymentAssumption DEF Init, TypeOK

\* The fields of a proposed call have the types the wallet reads them at.
LEMMA CallFields ==
  ASSUME NEW call \in Calls
  PROVE  /\ call.list \in Seq(Commitments)
         /\ call.required \in Nat
         /\ Range(call.list) \subseteq Commitments
  <1>1. call.list \in Seq(Commitments) /\ call.required \in Nat
    BY InputsAssumption DEF Call
  <1> QED
    BY <1>1, RangeOfList

\* No inner call that succeeds takes the contract's variables out of their
\* types; a payment leaves no balance below zero.
LEMMA InnerCallTypeOK ==
  ASSUME TypeOK, NEW call \in Calls, InnerCall(call)
  PROVE  /\ commitments' \subseteq Commitments
         /\ signaturesRequired' \in Nat
         /\ balances' \in [Tokens -> Nat]
  <1>1. CASE Pay(call)
    <2>1. \A token \in Tokens : balances[token] - Spent(call, token) \in Nat
      <3> SUFFICES ASSUME NEW token \in Tokens
                   PROVE  balances[token] - Spent(call, token) \in Nat
        OBVIOUS
      <3>1. balances[token] \in Nat
        BY DEF TypeOK
      <3>2. Spent(call, token) \in 0..balances[token]
        BY <1>1 DEF Pay, CanPay
      <3> QED
        BY <3>1, <3>2
    <2>2. balances' \in [Tokens -> Nat]
      BY <1>1, <2>1 DEF Pay
    <2> QED
      BY <1>1, <2>2 DEF Pay, TypeOK
  <1>2. CASE AddSigners(call)
    BY <1>2, CallFields DEF AddSigners, TypeOK
  <1>3. CASE RemoveSigners(call)
    BY <1>3, CallFields DEF RemoveSigners, TypeOK
  <1>4. CASE UpdateSignaturesRequired(call)
    BY <1>4, CallFields DEF UpdateSignaturesRequired, TypeOK
  <1> QED
    BY <1>1, <1>2, <1>3, <1>4 DEF InnerCall

\* No step of the wallet leaves the types.
LEMMA TypeOKStep == TypeOK /\ [Next]_vars => TypeOK'
  <1> SUFFICES ASSUME TypeOK, [Next]_vars PROVE TypeOK'
    OBVIOUS
  <1>1. ASSUME NEW s \in Statements, Attest(s[1], s[2])
        PROVE  TypeOK'
    <2>1. <<s[1], s[2]>> \in Commitments \X TxHashes
      BY InputsAssumption DEF TxHashes
    <2> QED
      BY <1>1, <2>1 DEF Attest, TypeOK
  <1>2. ASSUME NEW n \in Nonces, NEW call \in Calls, NEW proofs \in ProofLists,
               Execute(n, call, proofs)
        PROVE  TypeOK'
    <2>1. Range(proofs) \subseteq Commitments
      BY InputsAssumption, RangeOfList
    <2>2. TxHash(n, call) \in TxHashes
      BY DEF TxHash, TxHashes
    <2>3. usedNonces' \subseteq Nonces
      BY <1>2 DEF Execute, TypeOK
    <2>4. usedNullifiers' \subseteq Commitments \X TxHashes
      BY <1>2, <2>1, <2>2 DEF Execute, SpentNullifiers, Nullifier, TypeOK
    <2>5. Execution(n, call, proofs) \in
             [nonce : Nonces, call : Calls, approvers : SUBSET Commitments,
              signers : SUBSET Commitments, required : Nat]
      BY <2>1 DEF Execution, TypeOK
    <2>6. InnerCall(call)
      BY <1>2 DEF Execute
    <2>7. /\ attested' = attested
          /\ executions' = executions \union {Execution(n, call, proofs)}
      BY <1>2 DEF Execute
    <2> QED
      BY <2>3, <2>4, <2>5, <2>6, <2>7, InnerCallTypeOK DEF TypeOK
  <1>3. ASSUME NEW token \in Tokens, NEW amount \in DepositAmounts, Deposit(token, amount)
        PROVE  TypeOK'
    <2>1. amount \in Nat
      BY InputsAssumption
    <2>2. balances' \in [Tokens -> Nat]
      BY <1>3, <2>1 DEF Deposit, TypeOK
    <2> QED
      BY <1>3, <2>2 DEF Deposit, TypeOK
  <1>4. CASE UNCHANGED vars
    BY <1>4 DEF vars, TypeOK
  <1> QED
    BY <1>1, <1>2, <1>3, <1>4 DEF Next

\* The contract's variables keep their types.
THEOREM TypeCorrect == Spec => []TypeOK
  BY InitTypeOK, TypeOKStep, PTL DEF Spec

-----------------------------------------------------------------------------
(* The wallet is never locked out.                                         *)

\* The constructor checks the threshold against the signers.
LEMMA InitNeverLockedOut == Init => NeverLockedOut
  <1> SUFFICES ASSUME Init PROVE NeverLockedOut
    OBVIOUS
  <1>1. IsFiniteSet(InitialCommitments)
    BY CommitmentsAssumption, DeploymentAssumption, FS_Subset
  <1>2. Cardinality(InitialCommitments) \in Nat
    BY <1>1, FS_CardinalityType
  <1> QED
    BY <1>2, DeploymentAssumption DEF Init, NeverLockedOut

\* The cardinalities behind the `require`s of addSigners and removeSigners,
\* which the contract computes from lengths of arrays.
LEMMA AddedCardinality ==
  ASSUME TypeOK, NEW call \in Calls, CanAddSigners(call)
  PROVE  Cardinality(commitments \union Range(call.list))
             = Cardinality(commitments) + Len(call.list)
  <1>1. IsFiniteSet(commitments)
    BY CommitmentsAssumption, FS_Subset DEF TypeOK
  <1>2. IsFiniteSet(Range(call.list))
    BY CallFields, RangeOfList
  <1>3. Cardinality(Range(call.list)) = Len(call.list)
    BY CallFields, InjectiveSeqCardinality DEF CanAddSigners
  <1>4. commitments \intersect Range(call.list) = {}
    BY DEF CanAddSigners
  <1>5. Cardinality(commitments \union Range(call.list))
            = Cardinality(commitments) + Cardinality(Range(call.list)) - 0
    BY <1>1, <1>2, <1>4, FS_Union, FS_EmptySet
  <1>6. Cardinality(commitments) \in Nat /\ Len(call.list) \in Nat
    BY <1>1, CallFields, FS_CardinalityType
  <1> QED
    BY <1>3, <1>5, <1>6

\* A removal takes away as many signers as its list has commitments.
LEMMA RemovedCardinality ==
  ASSUME TypeOK, NEW call \in Calls, CanRemoveSigners(call)
  PROVE  Cardinality(commitments \ Range(call.list))
             = Cardinality(commitments) - Len(call.list)
  <1>1. IsFiniteSet(commitments)
    BY CommitmentsAssumption, FS_Subset DEF TypeOK
  <1>2. Cardinality(Range(call.list)) = Len(call.list)
    BY CallFields, InjectiveSeqCardinality DEF CanRemoveSigners
  <1>3. commitments \intersect Range(call.list) = Range(call.list)
    BY DEF CanRemoveSigners
  <1>4. Cardinality(commitments \ Range(call.list))
            = Cardinality(commitments) - Cardinality(commitments \intersect Range(call.list))
    BY <1>1, FS_Difference
  <1>5. Cardinality(commitments \intersect Range(call.list)) = Len(call.list)
    BY <1>2, <1>3
  <1> QED
    BY <1>4, <1>5

\* Every way of changing the signers or the threshold keeps one within the other.
LEMMA NeverLockedOutStep == TypeOK /\ NeverLockedOut /\ [Next]_vars => NeverLockedOut'
  <1> SUFFICES ASSUME TypeOK, NeverLockedOut, [Next]_vars PROVE NeverLockedOut'
    OBVIOUS
  <1>1. ASSUME NEW s \in Statements, Attest(s[1], s[2])
        PROVE  NeverLockedOut'
    BY <1>1 DEF Attest, NeverLockedOut
  <1>2. ASSUME NEW n \in Nonces, NEW call \in Calls, NEW proofs \in ProofLists,
               Execute(n, call, proofs)
        PROVE  NeverLockedOut'
    <2>1. call.required \in Nat /\ InnerCall(call)
      BY <1>2, CallFields DEF Execute
    <2>2. CASE Pay(call)
      BY <2>2 DEF Pay, NeverLockedOut
    <2>3. CASE AddSigners(call)
      BY <2>1, <2>3, AddedCardinality DEF AddSigners, CanAddSigners, NeverLockedOut
    <2>4. CASE RemoveSigners(call)
      BY <2>1, <2>4, RemovedCardinality DEF RemoveSigners, CanRemoveSigners, NeverLockedOut
    <2>5. CASE UpdateSignaturesRequired(call)
      BY <2>1, <2>5 DEF UpdateSignaturesRequired, CanUpdateSignaturesRequired, NeverLockedOut
    <2> QED
      BY <2>1, <2>2, <2>3, <2>4, <2>5 DEF InnerCall
  <1>3. ASSUME NEW token \in Tokens, NEW amount \in DepositAmounts, Deposit(token, amount)
        PROVE  NeverLockedOut'
    BY <1>3 DEF Deposit, NeverLockedOut
  <1>4. CASE UNCHANGED vars
    BY <1>4 DEF vars, NeverLockedOut
  <1> QED
    BY <1>1, <1>2, <1>3, <1>4 DEF Next

\* addSigners, removeSigners and updateSignaturesRequired never leave fewer
\* signers than a call needs, nor a call that needs nobody.
THEOREM WalletNeverLockedOut == Spec => []NeverLockedOut
  BY InitTypeOK, TypeOKStep, InitNeverLockedOut, NeverLockedOutStep, PTL DEF Spec

-----------------------------------------------------------------------------
(* Every execution has a quorum.                                           *)

\* What the guards of execute say of the record it leaves.
LEMMA NewExecutionApproved ==
  ASSUME TypeOK, NEW n \in Nonces, NEW call \in Calls, NEW proofs \in ProofLists,
         Execute(n, call, proofs)
  PROVE  LET e == Execution(n, call, proofs) IN
         /\ Cardinality(e.approvers) >= signaturesRequired
         /\ e.approvers \subseteq commitments
         /\ e.approvers \X {TxHash(n, call)} \subseteq attested
  <1>1. proofs \in Seq(Commitments)
    BY InputsAssumption
  <1>2. ProofsAccepted(proofs, TxHash(n, call)) /\ Len(proofs) >= signaturesRequired
    BY DEF Execute, Authorised
  <1>3. /\ Cardinality(Range(proofs)) = Len(proofs)
        /\ Range(proofs) \subseteq commitments
        /\ Range(proofs) \X {TxHash(n, call)} \subseteq attested
    BY <1>1, <1>2, AcceptedProofsAreDistinct
  <1> QED
    BY <1>2, <1>3 DEF Execution

\* Old executions stay approved, and a new one is approved by its guards.
LEMMA QuorumApprovedStep == TypeOK /\ QuorumApproved /\ [Next]_vars => QuorumApproved'
  <1> SUFFICES ASSUME TypeOK, QuorumApproved, [Next]_vars PROVE QuorumApproved'
    OBVIOUS
  <1>1. ASSUME NEW s \in Statements, Attest(s[1], s[2])
        PROVE  QuorumApproved'
    BY <1>1 DEF Attest, QuorumApproved
  <1>2. ASSUME NEW n \in Nonces, NEW call \in Calls, NEW proofs \in ProofLists,
               Execute(n, call, proofs)
        PROVE  QuorumApproved'
    <2> DEFINE new == Execution(n, call, proofs)
    <2>1. executions' = executions \union {new} /\ attested' = attested
      BY <1>2 DEF Execute
    <2>2. /\ new.nonce = n /\ new.call = call
          /\ new.signers = commitments /\ new.required = signaturesRequired
      BY DEF Execution
    <2>3. /\ Cardinality(new.approvers) >= new.required
          /\ new.approvers \subseteq new.signers
          /\ new.approvers \X {TxHash(new.nonce, new.call)} \subseteq attested
      BY <1>2, <2>2, NewExecutionApproved
    <2> HIDE DEF new
    <2> QED
      BY <2>1, <2>3 DEF QuorumApproved
  <1>3. ASSUME NEW token \in Tokens, NEW amount \in DepositAmounts, Deposit(token, amount)
        PROVE  QuorumApproved'
    BY <1>3 DEF Deposit, QuorumApproved
  <1>4. CASE UNCHANGED vars
    BY <1>4 DEF vars, QuorumApproved
  <1> QED
    BY <1>1, <1>2, <1>3, <1>4 DEF Next

\* A repeated proof, a proof of somebody else's transaction or of somebody who
\* is not a signer never helps to reach signaturesRequired.
THEOREM ExecutionsAreQuorumApproved == Spec => []QuorumApproved
  <1>1. Init => QuorumApproved
    BY DEF Init, QuorumApproved
  <1> QED
    BY <1>1, InitTypeOK, TypeOKStep, QuorumApprovedStep, PTL DEF Spec

-----------------------------------------------------------------------------
(* Nonces and nullifiers.                                                  *)

\* An execution adds exactly its own, unused, nonce.
LEMMA NonceExecutesOnceStep == NonceExecutesOnce /\ [Next]_vars => NonceExecutesOnce'
  <1> SUFFICES ASSUME NonceExecutesOnce, [Next]_vars PROVE NonceExecutesOnce'
    OBVIOUS
  <1>1. ASSUME NEW s \in Statements, Attest(s[1], s[2])
        PROVE  NonceExecutesOnce'
    BY <1>1 DEF Attest, NonceExecutesOnce
  <1>2. ASSUME NEW n \in Nonces, NEW call \in Calls, NEW proofs \in ProofLists,
               Execute(n, call, proofs)
        PROVE  NonceExecutesOnce'
    <2> DEFINE new == Execution(n, call, proofs)
    <2>1. /\ executions' = executions \union {new}
          /\ usedNonces' = usedNonces \union {n}
          /\ n \notin usedNonces
      BY <1>2 DEF Execute, Authorised
    <2>2. new.nonce = n
      BY DEF Execution
    <2> HIDE DEF new
    <2>3. \A e \in executions : e.nonce # new.nonce
      BY <2>1, <2>2 DEF NonceExecutesOnce
    <2>4. \A e, f \in executions' : e.nonce = f.nonce => e = f
      BY <2>1, <2>3 DEF NonceExecutesOnce
    <2>5. usedNonces' = {e.nonce : e \in executions'}
      BY <2>1, <2>2 DEF NonceExecutesOnce
    <2> QED
      BY <2>4, <2>5 DEF NonceExecutesOnce
  <1>3. ASSUME NEW token \in Tokens, NEW amount \in DepositAmounts, Deposit(token, amount)
        PROVE  NonceExecutesOnce'
    BY <1>3 DEF Deposit, NonceExecutesOnce
  <1>4. CASE UNCHANGED vars
    BY <1>4 DEF vars, NonceExecutesOnce
  <1> QED
    BY <1>1, <1>2, <1>3, <1>4 DEF Next

\* However often a call and its proofs are submitted, its nonce executes once.
THEOREM NoncesExecuteOnce == Spec => []NonceExecutesOnce
  <1>1. Init => NonceExecutesOnce
    BY DEF Init, NonceExecutesOnce
  <1> QED
    BY <1>1, NonceExecutesOnceStep, PTL DEF Spec

\* An execution spends exactly the nullifiers of its approvers.
LEMMA NullifiersStep ==
  NullifiersMatchExecutions /\ [Next]_vars => NullifiersMatchExecutions'
  <1> SUFFICES ASSUME NullifiersMatchExecutions, [Next]_vars
               PROVE  NullifiersMatchExecutions'
    OBVIOUS
  <1>1. ASSUME NEW s \in Statements, Attest(s[1], s[2])
        PROVE  NullifiersMatchExecutions'
    BY <1>1 DEF Attest, NullifiersMatchExecutions
  <1>2. ASSUME NEW n \in Nonces, NEW call \in Calls, NEW proofs \in ProofLists,
               Execute(n, call, proofs)
        PROVE  NullifiersMatchExecutions'
    <2> DEFINE new == Execution(n, call, proofs)
               Spends(e) == e.approvers \X {TxHash(e.nonce, e.call)}
    <2>1. SpentNullifiers(n, call, proofs) = Range(proofs) \X {TxHash(n, call)}
      BY DEF SpentNullifiers, Nullifier
    <2>2. Spends(new) = Range(proofs) \X {TxHash(n, call)}
      BY DEF Execution
    <2>3. /\ executions' = executions \union {new}
          /\ usedNullifiers' = usedNullifiers \union Spends(new)
      BY <1>2, <2>1, <2>2 DEF Execute
    <2>4. usedNullifiers = UNION {Spends(e) : e \in executions}
      BY DEF NullifiersMatchExecutions
    <2> HIDE DEF new, Spends
    <2>5. usedNullifiers' = UNION {Spends(e) : e \in executions'}
      BY <2>3, <2>4
    <2> QED
      BY <2>5 DEF Spends, NullifiersMatchExecutions
  <1>3. ASSUME NEW token \in Tokens, NEW amount \in DepositAmounts, Deposit(token, amount)
        PROVE  NullifiersMatchExecutions'
    BY <1>3 DEF Deposit, NullifiersMatchExecutions
  <1>4. CASE UNCHANGED vars
    BY <1>4 DEF vars, NullifiersMatchExecutions
  <1> QED
    BY <1>1, <1>2, <1>3, <1>4 DEF Next

\* No nullifier is burned by an execution that did not happen, and none of an
\* execution that did stays free.
THEOREM NullifiersAreThoseOfExecutions == Spec => []NullifiersMatchExecutions
  <1>1. Init => NullifiersMatchExecutions
    BY DEF Init, NullifiersMatchExecutions
  <1> QED
    BY <1>1, NullifiersStep, PTL DEF Spec

-----------------------------------------------------------------------------
(* Who changes the wallet.                                                 *)

\* A step that changes the wallet is an execution whose approvers are a quorum.
LEMMA QuorumChangesStep ==
  ASSUME TypeOK, NonceExecutesOnce, [Next]_vars,
         \/ commitments' # commitments
         \/ signaturesRequired' # signaturesRequired
         \/ \E token \in Tokens : balances'[token] < balances[token]
  PROVE  \E e \in executions' \ executions :
             /\ e.signers = commitments
             /\ Cardinality(e.approvers \intersect commitments) >= signaturesRequired
  <1>1. ASSUME NEW n \in Nonces, NEW call \in Calls, NEW proofs \in ProofLists,
               Execute(n, call, proofs)
        PROVE  \E e \in executions' \ executions :
                   /\ e.signers = commitments
                   /\ Cardinality(e.approvers \intersect commitments) >= signaturesRequired
    <2> DEFINE new == Execution(n, call, proofs)
    <2>1. executions' = executions \union {new} /\ n \notin usedNonces
      BY <1>1 DEF Execute, Authorised
    <2>2. new.nonce = n /\ new.signers = commitments
      BY DEF Execution
    <2>3. /\ Cardinality(new.approvers) >= signaturesRequired
          /\ new.approvers \subseteq commitments
      BY <1>1, NewExecutionApproved
    <2> HIDE DEF new
    <2>4. new \notin executions
      BY <2>1, <2>2 DEF NonceExecutesOnce
    <2>5. new.approvers \intersect commitments = new.approvers
      BY <2>3
    <2> QED
      BY <2>1, <2>2, <2>3, <2>4, <2>5
  <1>2. ASSUME NEW s \in Statements, Attest(s[1], s[2])
        PROVE  FALSE
    <2>1. UNCHANGED <<commitments, signaturesRequired, balances>>
      BY <1>2 DEF Attest
    <2>2. \A token \in Tokens : ~(balances[token] < balances[token])
      BY DEF TypeOK
    <2> QED
      BY <2>1, <2>2
  <1>3. ASSUME NEW token \in Tokens, NEW amount \in DepositAmounts, Deposit(token, amount)
        PROVE  FALSE
    <2>1. amount \in Nat /\ UNCHANGED <<commitments, signaturesRequired>>
      BY <1>3, InputsAssumption DEF Deposit
    <2>2. \A u \in Tokens : ~(balances'[u] < balances[u])
      BY <1>3, <2>1 DEF Deposit, TypeOK
    <2> QED
      BY <2>1, <2>2
  <1>4. CASE UNCHANGED vars
    <2>1. \A token \in Tokens : ~(balances[token] < balances[token])
      BY DEF TypeOK
    <2> QED
      BY <1>4, <2>1 DEF vars
  <1> QED
    BY <1>1, <1>2, <1>3, <1>4 DEF Next

\* Nothing but a quorum of the current signers changes the signers or the
\* threshold, or takes money out of the wallet.
THEOREM QuorumChangesWallet == Spec => OnlyQuorumChangesWallet
  <1>1. TypeOK /\ NonceExecutesOnce /\ [Next]_vars =>
        [(\/ commitments' # commitments
          \/ signaturesRequired' # signaturesRequired
          \/ \E token \in Tokens : balances'[token] < balances[token])
         => \E e \in executions' \ executions :
                /\ e.signers = commitments
                /\ Cardinality(e.approvers \intersect commitments) >= signaturesRequired]_vars
    BY QuorumChangesStep
  <1> QED
    BY <1>1, TypeCorrect, NoncesExecuteOnce, PTL DEF Spec, OnlyQuorumChangesWallet

=============================================================================
