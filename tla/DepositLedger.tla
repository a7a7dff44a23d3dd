---------------------------- MODULE DepositLedger ----------------------------
(***************************************************************************)
(* What paid deposits promise: an abstract specification of X402Deposit.   *)
(*                                                                         *)
(* There are no requests here, and no service that may stop between two    *)
(* steps: an authorization is opened, charged, paid and decided, each at   *)
(* most once and in this order, and an entry never changes after that.     *)
(*                                                                         *)
(* What decides is the word of the facilitator, not the money: a failed    *)
(* entry may have been paid, or may be paid later, when the answer was     *)
(* lost; a settled one was paid if what was confirmed is true.             *)
(***************************************************************************)
EXTENDS Naturals

CONSTANTS Authorizations, Accounts

VARIABLES
    pending, settled, failed,   \* the entries, by what has become of them
    asked,                      \* Authorizations -> how often money was asked for
    confirmed,                  \* what the facilitator says has been paid
    paid                        \* authorizations whose money has moved

vars == <<pending, settled, failed, asked, confirmed, paid>>

Entries == pending \union settled \union failed

\* The first authorization of its nonce, to an account of the service.
Open(a) ==
    /\ [address |-> a.to, chain |-> a.chain] \in Accounts
    /\ \A b \in Entries : b.nonce # a.nonce
    /\ pending' = pending \union {a}
    /\ UNCHANGED <<settled, failed, asked, confirmed, paid>>

\* Money is asked for once, and only of an open entry.
Charge(a) ==
    /\ a \in pending
    /\ asked[a] = 0
    /\ asked' = [asked EXCEPT ![a] = 1]
    /\ UNCHANGED <<pending, settled, failed, confirmed, paid>>

\* It moves if it was asked for, sooner or later, or never.
Pay(a) ==
    /\ asked[a] # 0
    /\ a \notin paid
    /\ paid' = paid \union {a}
    /\ UNCHANGED <<pending, settled, failed, asked, confirmed>>

\* Nothing is confirmed that was not asked for.
Confirm(a) ==
    /\ asked[a] # 0
    /\ confirmed' = confirmed \union {a}
    /\ UNCHANGED <<pending, settled, failed, asked, paid>>

\* Nothing is settled that was not confirmed.
Settle(a) ==
    /\ a \in pending
    /\ a \in confirmed
    /\ settled' = settled \union {a}
    /\ pending' = pending \ {a}
    /\ UNCHANGED <<failed, asked, confirmed, paid>>

Fail(a) ==
    /\ a \in pending
    /\ failed' = failed \union {a}
    /\ pending' = pending \ {a}
    /\ UNCHANGED <<settled, asked, confirmed, paid>>

Init ==
    /\ pending = {} /\ settled = {} /\ failed = {}
    /\ asked = [a \in Authorizations |-> 0]
    /\ confirmed = {}
    /\ paid = {}

Next ==
    \E a \in Authorizations :
        Open(a) \/ Charge(a) \/ Pay(a) \/ Confirm(a) \/ Settle(a) \/ Fail(a)

Spec == Init /\ [][Next]_vars
=============================================================================
