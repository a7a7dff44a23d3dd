------------------------ MODULE MCMetaMultiSigWallet ------------------------
(***************************************************************************)
(* A wallet of two signers, one outsider, two nonces and one token, for    *)
(* TLC.  The calls include the ones each `require` refuses.                *)
(***************************************************************************)
EXTENDS MetaMultiSigWallet

CONSTANTS c0, c1, c2, c3, eth

MCCommitments == {c0, c1, c2, c3}
MCNonces == 0..1
MCTokens == {eth}
MCInitialCommitments == {c1, c2}
MCInitialBalances == [token \in MCTokens |-> 1]

Transfers(amounts) ==
    [kind |-> "batchTransfer", list |-> <<>>, required |-> 0,
     items |-> [i \in DOMAIN amounts |-> [token |-> eth, amount |-> amounts[i]]]]
Governance(kind, list, required) ==
    [kind |-> kind, items |-> <<>>, list |-> list, required |-> required]

Batch == Transfers(<<1, 1>>)
Join == Governance("addSigners", <<c3>>, 3)
JoinTwice == Governance("addSigners", <<c3, c3>>, 4)
Leave == Governance("removeSigners", <<c2>>, 1)
LeaveTooHigh == Governance("removeSigners", <<c2>>, 2)
RaiseToThree == Governance("updateSignaturesRequired", <<>>, 3)

MCCalls == {Batch, Join, JoinTwice, Leave, LeaveTooHigh, RaiseToThree}
Provers == {c1, c2, c3}
\* Nonce 0 goes to a payment or a joining signer, nonce 1 to a leaving signer
\* or a new threshold.  The outsider c3 proves some of the calls too.
MCStatements ==
    {c1, c2} \X ({0} \X {Batch, Join, JoinTwice})
    \union {c1, c2} \X ({1} \X {Leave, LeaveTooHigh, RaiseToThree})
    \union {c3} \X {<<0, Batch>>, <<1, Leave>>}
\* A proof may be repeated.
MCProofLists == UNION {[1..n -> Provers] : n \in 0..3}
MCDepositAmounts == {1}
=============================================================================
