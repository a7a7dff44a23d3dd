-------------------------- MODULE AccountDeployment --------------------------
(***************************************************************************)
(* From a form in the browser to a wallet with its rows:                   *)
(*   nextjs/hooks/api/useAccount.ts, services/queryClient.ts    (client)   *)
(*   backend/src/account/account.service.ts       (create and createBatch) *)
(*   backend/src/relayer-wallet/relayer-wallet.service.ts  (deployAccount) *)
(*   backend/src/auth/auth.service.ts    (login, which creates users too)  *)
(*                                                                         *)
(* `create` is `createBatch` with one chain.  The client gives a request   *)
(* 30 seconds, less than deployments on several chains may take, and sends *)
(* it again after any error: the first attempt may still be at work.       *)
(***************************************************************************)
EXTENDS Naturals, FiniteSets, SequencesExt

CONSTANTS
    Submissions,        \* forms that are sent
    Logins,             \* concurrent logins
    Commitments,        \* of people
    ZeroCommitment,     \* a commitment that the constructor refuses
    KnownUsers,         \* commitments that have a row from the beginning
    Chains,
    Orders,             \* Submissions -> what may be asked for: sets of
                        \* [signers, threshold, chains, creator]
    MaxFaults,          \* bound: restarts, lost or late answers, refused writes
    None

ASSUME CommitmentsAssumption ==
    /\ IsFiniteSet(Commitments)
    /\ None \notin Commitments
    /\ KnownUsers \subseteq Commitments
    /\ IsFiniteSet(Chains)
    /\ MaxFaults \in Nat

AllOrders == UNION {Orders[s] : s \in Submissions}

ASSUME OrdersAssumption ==
    \A o \in AllOrders :
        /\ o.signers \in Seq(Commitments)
        /\ o.chains \in Seq(Chains)
        /\ o.threshold \in Nat \ {0}
        /\ o.creator \in KnownUsers

VARIABLES
    client,     \* Submissions -> [phase, order, attempt]
    requests,   \* Requests -> [pc, left, deployed, missing, sent]
    logins,     \* Logins -> the commitment whose row is about to be created
    users,      \* table User, by commitment
    accounts,   \* table Account with AccountSigner
    told,       \* ACCOUNT_CREATED events: [to, chain, address]
    contracts,  \* the relayer's deployments: [by, chain, address, signers, threshold, mined]
    faults

database == <<users, accounts>>
vars == <<client, requests, logins, database, told, contracts, faults>>

Attempts == {1, 2}
Requests == Submissions \X Attempts

\* An address is made of the relayer and its nonce on the chain, so the two
\* chains may give out the same address.  Only the order of nonces matters.
Address == Nat
NextAddress(chain) == Cardinality({k \in contracts : k.chain = chain})

Steps == {"absent", "deploying", "waiting", "inserting", "announcing", "done", "failed"}
Request == [pc : Steps, left : Seq(Chains), deployed : SUBSET [chain : Chains, address : Address],
            missing : SUBSET Commitments, sent : Address \union {None}]
Absent == [pc |-> "absent", left |-> <<>>, deployed |-> {}, missing |-> {}, sent |-> None]

Order(q) == client[q[1]].order
At(q, pc) == requests[q].pc = pc
Goto(q, pc) == requests' = [requests EXCEPT ![q].pc = pc]
Throw(q) == requests' = [requests EXCEPT ![q] = [Absent EXCEPT !.pc = "failed"]]

-----------------------------------------------------------------------------
(* The checks of create and createBatch.                                   *)

Valid(o) ==
    /\ o.creator \in ToSet(o.signers)
    /\ o.threshold <= Len(o.signers)
    /\ o.chains # <<>>
    /\ IsInjective(o.chains)

\* The constructor does not compare the commitments with each other.
Deployable(o) == ZeroCommitment \notin ToSet(o.signers)

\* What the request is after the checks.
Received(o) ==
    IF Valid(o) THEN [Absent EXCEPT !.pc = "deploying", !.left = o.chains]
                ELSE [Absent EXCEPT !.pc = "failed"]

-----------------------------------------------------------------------------
(* The client.                                                             *)

Submit(s, o) ==
    /\ client[s].phase = "idle"
    /\ o \in Orders[s]
    /\ client' = [client EXCEPT ![s] = [phase |-> "waiting", order |-> o, attempt |-> 1]]
    /\ requests' = [requests EXCEPT ![<<s, 1>>] = Received(o)]
    /\ UNCHANGED <<logins, database, told, contracts, faults>>

Waiting(s, pcs) == client[s].phase = "waiting" /\ requests[<<s, client[s].attempt>>].pc \in pcs

Succeed(s) ==
    /\ Waiting(s, {"done"})
    /\ client' = [client EXCEPT ![s].phase = "succeeded"]
    /\ UNCHANGED <<requests, logins, database, told, contracts, faults>>

\* failureCount < 1.  The messages of the server have no "400" in them, so that
\* refused requests are sent again like the others.
Resend(s) ==
    /\ client[s].attempt = 1
    /\ client' = [client EXCEPT ![s].attempt = 2]
    /\ requests' = [requests EXCEPT ![<<s, 2>>] = Received(client[s].order)]

GiveUp(s) ==
    /\ client[s].attempt = 2
    /\ client' = [client EXCEPT ![s].phase = "gaveUp"]
    /\ UNCHANGED requests

\* Mutant: mutations are not sent again.
FailWithoutRetry(s) ==
    /\ Waiting(s, {"failed"})
    /\ client' = [client EXCEPT ![s].phase = "gaveUp"]
    /\ UNCHANGED <<requests, logins, database, told, contracts, faults>>

Fail(s) ==
    /\ Waiting(s, {"failed"})
    /\ Resend(s) \/ GiveUp(s)
    /\ UNCHANGED <<logins, database, told, contracts, faults>>

\* 30 seconds without an answer, while the server goes on.
TimeOut(s) ==
    /\ faults < MaxFaults
    /\ faults' = faults + 1
    /\ Waiting(s, Steps \ {"done", "failed"})
    /\ Resend(s) \/ GiveUp(s)
    /\ UNCHANGED <<logins, database, told, contracts>>

-----------------------------------------------------------------------------
(* deployAccount, chain after chain.                                       *)

WithContract(q) ==
    contracts \union {[by |-> q, chain |-> Head(requests[q].left),
                       address |-> NextAddress(Head(requests[q].left)),
                       signers |-> Order(q).signers, threshold |-> Order(q).threshold,
                       mined |-> FALSE]}

\* deployContract estimates the gas first, which runs the constructor.
SendDeployment(q) ==
    /\ At(q, "deploying")
    /\ requests[q].left # <<>>
    /\ IF Deployable(Order(q))
       THEN /\ contracts' = WithContract(q)
            /\ requests' = [requests EXCEPT
                   ![q].pc = "waiting", ![q].sent = NextAddress(Head(requests[q].left))]
       ELSE Throw(q) /\ UNCHANGED contracts
    /\ UNCHANGED <<client, logins, database, told, faults>>

\* The node takes the deployment or does not, and its answer is lost.
SendFails(q) ==
    /\ faults < MaxFaults
    /\ faults' = faults + 1
    /\ At(q, "deploying")
    /\ requests[q].left # <<>>
    /\ contracts' \in {contracts, WithContract(q)}
    /\ Throw(q)
    /\ UNCHANGED <<client, logins, database, told>>

Deployed(q) ==
    requests' = [requests EXCEPT
        ![q].pc = "deploying",
        ![q].left = Tail(@),
        ![q].deployed = @ \union {[chain |-> Head(requests[q].left), address |-> requests[q].sent]},
        ![q].sent = None]

\* Mutant: the address is computed, the receipt is not waited for.
GetAddressAtOnce(q) ==
    /\ At(q, "waiting")
    /\ Deployed(q)
    /\ UNCHANGED <<client, logins, database, told, contracts, faults>>

\* waitForReceiptWithRetry.
GetReceipt(q) ==
    /\ At(q, "waiting")
    /\ \E k \in contracts :
           k.chain = Head(requests[q].left) /\ k.address = requests[q].sent /\ k.mined
    /\ Deployed(q)
    /\ UNCHANGED <<client, logins, database, told, contracts, faults>>

ReceiptTimeout(q) ==
    /\ faults < MaxFaults
    /\ faults' = faults + 1
    /\ At(q, "waiting")
    /\ Throw(q)
    /\ UNCHANGED <<client, logins, database, told, contracts>>

Mine(k) ==
    /\ ~k.mined
    /\ contracts' = (contracts \ {k}) \union {[k EXCEPT !.mined = TRUE]}
    /\ UNCHANGED <<client, requests, logins, database, told, faults>>

-----------------------------------------------------------------------------
(* The database transaction.                                               *)

\* findUnique of every signer, on one connection, before any of the creates.
FindUsers(q) ==
    /\ At(q, "deploying")
    /\ requests[q].left = <<>>
    /\ requests' = [requests EXCEPT
           ![q].pc = "inserting", ![q].missing = ToSet(Order(q).signers) \ users]
    /\ UNCHANGED <<client, logins, database, told, contracts, faults>>

Rows(q, deployed) ==
    {[chain |-> d.chain, address |-> d.address, threshold |-> Order(q).threshold,
      signers |-> ToSet(Order(q).signers), creator |-> Order(q).creator] : d \in deployed}

\* The creates meet none of the unique keys: commitment of User, user and
\* account of AccountSigner, address and chain of Account.
Insertable(q) ==
    /\ requests[q].missing \intersect users = {}
    /\ IsInjective(Order(q).signers)
    /\ \A d \in requests[q].deployed, a \in accounts :
           ~(a.chain = d.chain /\ a.address = d.address)

\* Mutant: signers with skipDuplicates.
CommitAccountsSkippingDuplicates(q) ==
    /\ At(q, "inserting")
    /\ IF requests[q].missing \intersect users = {}
       THEN /\ users' = users \union requests[q].missing
            /\ accounts' = accounts \union Rows(q, requests[q].deployed)
            /\ Goto(q, "announcing")
       ELSE Throw(q) /\ UNCHANGED database
    /\ UNCHANGED <<client, logins, told, contracts, faults>>

\* Mutant: a database transaction for each of the accounts.
CommitAccountsOneByOne(q) ==
    LET rest == {d \in requests[q].deployed : Rows(q, {d}) \intersect accounts = {}} IN
    /\ At(q, "inserting")
    /\ IF rest = {}
       THEN Goto(q, "announcing") /\ UNCHANGED database
       ELSE /\ users' = users \union requests[q].missing
            /\ \E d \in rest : accounts' = accounts \union Rows(q, {d})
            /\ UNCHANGED requests
    /\ UNCHANGED <<client, logins, told, contracts, faults>>

\* Whoever inserts a key first wins; the other waits for its commit and is
\* rolled back as a whole.
CommitAccounts(q) ==
    /\ At(q, "inserting")
    /\ IF Insertable(q)
       THEN /\ users' = users \union requests[q].missing
            /\ accounts' = accounts \union Rows(q, requests[q].deployed)
            /\ Goto(q, "announcing")
       ELSE Throw(q) /\ UNCHANGED database
    /\ UNCHANGED <<client, logins, told, contracts, faults>>

CommitRefused(q) ==
    /\ faults < MaxFaults
    /\ faults' = faults + 1
    /\ At(q, "inserting")
    /\ Throw(q)
    /\ UNCHANGED <<client, logins, database, told, contracts>>

\* Mutant: nobody caught what the socket server throws.
AnnounceOrThrow(q) ==
    /\ At(q, "announcing")
    /\ Goto(q, "done") \/ Throw(q)
    /\ UNCHANGED <<client, logins, database, told, contracts, faults>>

Announcements(q) ==
    {[to |-> s, chain |-> d.chain, address |-> d.address] :
        s \in ToSet(Order(q).signers) \ {Order(q).creator}, d \in requests[q].deployed}

Announce(q) ==
    /\ At(q, "announcing")
    /\ told' = told \union Announcements(q)
    /\ Goto(q, "done")
    /\ UNCHANGED <<client, logins, database, contracts, faults>>

\* create reads the account again for its answer.
ReadBackFails(q) ==
    /\ faults < MaxFaults
    /\ faults' = faults + 1
    /\ At(q, "announcing")
    /\ told' = told \union Announcements(q)
    /\ Throw(q)
    /\ UNCHANGED <<client, logins, database, contracts>>

-----------------------------------------------------------------------------
(* login, after its proof was verified; restarts.                          *)

FindUser(l, u) ==
    /\ logins[l] = None
    /\ u \notin users \union {ZeroCommitment}
    /\ logins' = [logins EXCEPT ![l] = u]
    /\ UNCHANGED <<client, requests, database, told, contracts, faults>>

\* The create of a user who exists by now throws.
CreateUser(l) ==
    /\ logins[l] # None
    /\ users' = users \union {logins[l]}
    /\ logins' = [logins EXCEPT ![l] = None]
    /\ UNCHANGED <<client, requests, accounts, told, contracts, faults>>

Crash ==
    /\ faults < MaxFaults
    /\ faults' = faults + 1
    /\ requests' = [q \in Requests |->
           IF requests[q].pc \in {"absent", "done"} THEN requests[q]
           ELSE [Absent EXCEPT !.pc = "failed"]]
    /\ logins' = [l \in Logins |-> None]
    /\ UNCHANGED <<client, database, told, contracts>>

-----------------------------------------------------------------------------

Init ==
    /\ client = [s \in Submissions |-> [phase |-> "idle", order |-> None, attempt |-> 1]]
    /\ requests = [q \in Requests |-> Absent]
    /\ logins = [l \in Logins |-> None]
    /\ users = KnownUsers
    /\ accounts = {}
    /\ told = {}
    /\ contracts = {}
    /\ faults = 0

RequestStep(q) ==
    \/ SendDeployment(q)
    \/ GetReceipt(q)
    \/ FindUsers(q)
    \/ CommitAccounts(q)
    \/ Announce(q)

Next ==
    \/ \E s \in Submissions, o \in AllOrders : Submit(s, o)
    \/ \E s \in Submissions : Succeed(s) \/ Fail(s) \/ TimeOut(s)
    \/ \E q \in Requests :
           \/ RequestStep(q)
           \/ SendFails(q) \/ ReceiptTimeout(q) \/ CommitRefused(q) \/ ReadBackFails(q)
    \/ \E k \in contracts : Mine(k)
    \/ \E l \in Logins, u \in Commitments : FindUser(l, u)
    \/ \E l \in Logins : CreateUser(l)
    \/ Crash

Spec == Init /\ [][Next]_vars

\* Node resumes every await; the chain mines what it has taken; the client
\* hears an answer or its timer.
FairSpec ==
    /\ Spec
    /\ \A q \in Requests : WF_vars(RequestStep(q))
    /\ WF_vars(\E k \in contracts : Mine(k))
    /\ \A s \in Submissions : WF_vars(Succeed(s) \/ Fail(s))

-----------------------------------------------------------------------------
(* Properties.                                                             *)

\* The shapes of what the client, account.service.ts and the tables hold.
TypeOK ==
    /\ client \in [Submissions -> [phase : {"idle", "waiting", "succeeded", "gaveUp"},
                                   order : AllOrders \union {None}, attempt : Attempts]]
    /\ requests \in [Requests -> Request]
    /\ logins \in [Logins -> Commitments \union {None}]
    /\ users \subseteq Commitments
    /\ accounts \subseteq [chain : Chains, address : Address, threshold : Nat,
                           signers : SUBSET Commitments, creator : Commitments]
    /\ told \subseteq [to : Commitments, chain : Chains, address : Address]
    /\ contracts \subseteq [by : Requests, chain : Chains, address : Address,
                            signers : Seq(Commitments), threshold : Nat, mined : BOOLEAN]
    /\ faults \in 0..MaxFaults

\* An account of the database is a contract that exists, on that chain, with
\* those signers and that threshold, even if the same address is in use on
\* another chain and attempts overlap.
AccountsAreDeployed ==
    \A a \in accounts : \E k \in contracts :
        /\ k.mined
        /\ k.chain = a.chain
        /\ k.address = a.address
        /\ ToSet(k.signers) = a.signers
        /\ k.threshold = a.threshold

\* The signers of an account can reach its threshold, and they are users.  The
\* constructor counts a list and checks no duplicates; the database refuses them.
QuorumIsReachable ==
    \A a \in accounts :
        /\ a.threshold <= Cardinality(a.signers)
        /\ a.creator \in a.signers
        /\ a.signers \subseteq users

\* Who is told of an account is one of its signers and did not create it, and
\* finds it when he asks: no event precedes the commit.
AnnouncedIsRecorded ==
    \A e \in told : \E a \in accounts :
        /\ a.chain = e.chain
        /\ a.address = e.address
        /\ e.to \in a.signers \ {a.creator}

Recorded(q) == {k \in contracts : k.by = q /\ \E a \in accounts :
                    a.chain = k.chain /\ a.address = k.address}

\* createBatch records the accounts of all chains or of none, whatever fails
\* between them.
BatchIsAllOrNothing ==
    \A q \in Requests :
        Recorded(q) = {} \/ {k.chain : k \in Recorded(q)} = ToSet(Order(q).chains)

\* The retry of the client repeats no creation that was recorded, as long as
\* answers arrive: nothing that can fail stands between the commit and the answer.
RecordedOnce ==
    faults = 0 =>
        \A s \in Submissions : Recorded(<<s, 1>>) = {} \/ Recorded(<<s, 2>>) = {}

\* What can be fulfilled: the only obstacle is one signer who is not a user yet.
Fulfillable(o) ==
    /\ Valid(o)
    /\ Deployable(o)
    /\ IsInjective(o.signers)
    /\ Cardinality(ToSet(o.signers) \ users) <= 1

Fulfilled(s) ==
    \E i \in Attempts :
        /\ requests[<<s, i>>].left = <<>>
        /\ requests[<<s, i>>].deployed # {}
        /\ Rows(<<s, i>>, requests[<<s, i>>].deployed) \subseteq accounts

\* A creation that loses the race for a user to a login or to another creation
\* is made good by the one retry of the client: as long as nothing of the
\* infrastructure fails, every order is recorded on all of its chains in the
\* end.  (If the client's timer fires, one login can beat both attempts.)
EveryOrderFulfilled ==
    \A s \in Submissions :
        (client[s].phase = "waiting" /\ Fulfillable(client[s].order))
            ~> (Fulfilled(s) \/ faults > 0)
=============================================================================
