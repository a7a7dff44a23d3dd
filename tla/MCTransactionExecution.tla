----------------------- MODULE MCTransactionExecution -----------------------
(***************************************************************************)
(* Small accounts for TLC: kinds of transactions and their on-chain calls. *)
(***************************************************************************)
EXTENDS TransactionExecution, TLC

CONSTANTS t1, t2, s1, s2, s3, h1, h2, c1, c2, zero, eth

MCCall(kind, items, list, required) ==
    [kind |-> kind, items |-> items, list |-> list, required |-> required]
Payment == MCCall("transfer", <<[token |-> eth, amount |-> 1]>>, <<>>, 0)
Expel == MCCall("removeSigners", <<>>, <<s3>>, 2)

MCCreator == [t \in TxIds |-> s1]
OnePayment == (t1 :> Payment)
TwoPayments == (t1 :> Payment) @@ (t2 :> Payment)
OneExpulsion == (t1 :> Expel)
MCBalances == [token \in Tokens |-> 1]
MCTwice == [token \in Tokens |-> 2]
MCCommitments == {s1, s2, s3}

\* Votes are the same for every signer but the creator; hashes and callers are
\* interchangeable.
MCSymmetry == Permutations({s2, s3}) \union Permutations(Hashes) \union Permutations(Callers)
=============================================================================
