----------------------------- MODULE X402Deposit -----------------------------
(***************************************************************************)
(* Paid deposits, backend/src/x402/x402.service.ts: a buyer signs an       *)
(* EIP-3009 authorization, the service checks it, writes a row, has a      *)
(* facilitator verify and settle it, and records the outcome.              *)
(*                                                                         *)
(* The facilitator and the USDC contract are not in the repository.  A     *)
(* facilitator that is asked to settle may transfer at any later time and  *)
(* may answer or not; what it answers need not be true, and the service    *)
(* does not compare it with the chain.  The contract transfers an          *)
(* authorization at most once (authorizationState) and never after         *)
(* validBefore.                                                            *)
(***************************************************************************)
EXTENDS Naturals, FiniteSets

CONSTANTS
    Requests,           \* concurrent processDeposit calls
    Authorizations,     \* what buyers sign: [from, nonce, to, chain, value, signer]
    Accounts,           \* table Account: [address, chain]
    SupportedChains,    \* isX402SupportedChain
    MinDeposit, MaxDeposit,
    RateLimit,          \* PER_MULTISIG_RATE_LIMIT_COUNT
    MaxFaults,          \* bound: restarts and refused database writes
    None                \* no authorization

ASSUME BoundsAssumption ==
    /\ IsFiniteSet(Requests)
    /\ Requests # {}
    /\ MinDeposit \in Nat /\ MaxDeposit \in Nat
    /\ RateLimit \in Nat \ {0}
    /\ MaxFaults \in Nat

ASSUME InputsAssumption ==
    /\ \A a \in Authorizations : a.value \in Nat
    /\ IsFiniteSet(Authorizations)
    /\ None \notin Authorizations
    /\ \A acc \in Accounts : acc = [address |-> acc.address, chain |-> acc.chain]

VARIABLES
    deposits,   \* table X402Deposit: rows [auth, chain, status, recent]
    requests,   \* Requests -> [pc, auth, chain]
    asked,      \* Authorizations -> how often a settlement was asked for
    settling,   \* settlements the facilitator still works on
    vouched,    \* authorizations of which it has answered that they are settled
    transfers,  \* authorizations the facilitator has had transferred
    voided,     \* those the buyer cancelled, or had transferred by others
    expired,    \* those whose validBefore has passed
    faults

serviceVars == <<deposits, requests, asked>>
tokenVars == <<transfers, voided, expired>>
facilitatorVars == <<settling, vouched>>
vars == <<serviceVars, facilitatorVars, tokenVars, faults>>

Statuses == {"PENDING", "SETTLED", "FAILED"}

\* A row keeps buyer, multisig, amount and nonce of the authorization it was
\* made for.  The hash that a SETTLED row has is left out: it is a string of the
\* answer, which nobody reads.  recent: created within the window of the rate
\* limit.
Row == [auth : Authorizations, chain : {acc.chain : acc \in Accounts},
        status : Statuses, recent : BOOLEAN]

Steps == {"idle", "unused", "unconsumed", "counted", "created", "verified",
          "settling", "settled", "failing"}
Request == [pc : Steps, auth : Authorizations \union {None},
            chain : {acc.chain : acc \in Accounts} \union {None}]
Idle == [pc |-> "idle", auth |-> None, chain |-> None]

At(r, pc) == requests[r].pc = pc
Goto(r, pc) == requests' = [requests EXCEPT ![r].pc = pc]
Return(r) == requests' = [requests EXCEPT ![r] = Idle]
Auth(r) == requests[r].auth

\* principalAuthNonce is unique for all buyers and chains; the contract keeps
\* nonces per buyer.
WithNonce(nonce) == {d \in deposits : d.auth.nonce = nonce}
RecentOf(address) == {d \in deposits : d.auth.to = address /\ d.recent}
SameOnChain(a, b) == a.chain = b.chain /\ a.from = b.from /\ a.nonce = b.nonce
Consumed(a) == \E b \in transfers \union voided : SameOnChain(a, b)
Payable(a) == ~Consumed(a) /\ a \notin expired

\* WithStatus: an update of the row of r, which is known by its id.
WithStatus(r, status) ==
    {IF d.auth = Auth(r) THEN [d EXCEPT !.status = status] ELSE d : d \in deposits}

-----------------------------------------------------------------------------
(* Before the row: checks of the request, each on what it reads.           *)

\* Network, recipient, amount, validity and signature, against one account.
ValidFor(a, acc) ==
    /\ acc.chain \in SupportedChains
    /\ a.chain = acc.chain
    /\ a.to = acc.address
    /\ a.value >= MinDeposit
    /\ a.value <= MaxDeposit
    /\ a \notin expired
    /\ a.signer = a.from

\* assertAccount takes whichever account of the address comes first, on any
\* chain; then the validation and the look-up of the nonce.  Whoever is refused
\* leaves nothing behind.
BeginDeposit(r, a, acc) ==
    /\ At(r, "idle")
    /\ ValidFor(a, acc)
    /\ WithNonce(a.nonce) = {}
    /\ requests' = [requests EXCEPT ![r] = [pc |-> "unused", auth |-> a, chain |-> acc.chain]]
    /\ UNCHANGED <<deposits, asked, facilitatorVars, tokenVars, faults>>

\* authorizationState of the USDC contract.
CheckAuthorizationState(r) ==
    /\ At(r, "unused")
    /\ IF Consumed(Auth(r)) THEN Return(r) ELSE Goto(r, "unconsumed")
    /\ UNCHANGED <<deposits, asked, facilitatorVars, tokenVars, faults>>

\* Mutant: one more.
CheckRateLimitOffByOne(r) ==
    /\ At(r, "unconsumed")
    /\ IF Cardinality(RecentOf(Auth(r).to)) > RateLimit THEN Return(r) ELSE Goto(r, "counted")
    /\ UNCHANGED <<deposits, asked, facilitatorVars, tokenVars, faults>>

CheckRateLimit(r) ==
    /\ At(r, "unconsumed")
    /\ IF Cardinality(RecentOf(Auth(r).to)) >= RateLimit THEN Return(r) ELSE Goto(r, "counted")
    /\ UNCHANGED <<deposits, asked, facilitatorVars, tokenVars, faults>>

\* Mutant: an upsert, so that a failed deposit can be tried again.
CreateOrResumeDeposit(r) ==
    /\ At(r, "counted")
    /\ deposits' = {d \in deposits : d.auth.nonce # Auth(r).nonce} \union
           {[auth |-> Auth(r), chain |-> requests[r].chain, status |-> "PENDING",
             recent |-> TRUE]}
    /\ Goto(r, "created")
    /\ UNCHANGED <<asked, facilitatorVars, tokenVars, faults>>

\* The unique index refuses the nonce that another request has inserted since.
CreateDeposit(r) ==
    /\ At(r, "counted")
    /\ IF WithNonce(Auth(r).nonce) # {}
       THEN Return(r) /\ UNCHANGED deposits
       ELSE /\ deposits' = deposits \union
                   {[auth |-> Auth(r), chain |-> requests[r].chain, status |-> "PENDING",
                     recent |-> TRUE]}
            /\ Goto(r, "created")
    /\ UNCHANGED <<asked, facilitatorVars, tokenVars, faults>>

-----------------------------------------------------------------------------
(* cdpVerify or facilitatorVerify, cdpSettle or facilitatorSettle.         *)

\* Mutant: the verification stands outside of the try.
VerifyUncaught(r) ==
    /\ At(r, "created")
    /\ Goto(r, "verified") \/ Return(r)
    /\ UNCHANGED <<deposits, asked, facilitatorVars, tokenVars, faults>>

\* The facilitator says that the authorization is valid (it need not be, and if
\* it was, may not be any more), or something else, or the call fails.
Verify(r) ==
    /\ At(r, "created")
    /\ Goto(r, "verified") \/ Goto(r, "failing")
    /\ UNCHANGED <<deposits, asked, facilitatorVars, tokenVars, faults>>

Settle(r) ==
    /\ At(r, "verified")
    /\ settling' = settling \union {Auth(r)}
    /\ UNCHANGED vouched
    /\ asked' = [asked EXCEPT ![Auth(r)] = @ + 1]
    /\ Goto(r, "settling")
    /\ UNCHANGED <<deposits, tokenVars, faults>>

\* Mutant: an answer without `success` is taken for one.
SettleAnsweredAnyhow(r) ==
    /\ At(r, "settling")
    /\ Goto(r, "settled")
    /\ UNCHANGED <<deposits, asked, facilitatorVars, tokenVars, faults>>

\* `success` and a hash, which is believed.
SettleAnswered(r) ==
    /\ At(r, "settling")
    /\ vouched' = vouched \union {Auth(r)}
    /\ Goto(r, "settled")
    /\ UNCHANGED <<deposits, asked, settling, tokenVars, faults>>

\* Any other answer, or a call that fails, whatever becomes of the settlement.
SettleFails(r) ==
    /\ At(r, "settling")
    /\ Goto(r, "failing")
    /\ UNCHANGED <<deposits, asked, facilitatorVars, tokenVars, faults>>

-----------------------------------------------------------------------------
(* Recording the outcome.                                                  *)

RecordSettled(r) ==
    /\ At(r, "settled")
    /\ deposits' = WithStatus(r, "SETTLED")
    /\ Return(r)
    /\ UNCHANGED <<asked, facilitatorVars, tokenVars, faults>>

\* Mutant: the row is deleted, so that the buyer may try again.
ForgetFailed(r) ==
    /\ At(r, "failing")
    /\ deposits' = {d \in deposits : d.auth # Auth(r)}
    /\ Return(r)
    /\ UNCHANGED <<asked, facilitatorVars, tokenVars, faults>>

\* The catch of everything after the row was created.
RecordFailed(r) ==
    /\ At(r, "failing")
    /\ deposits' = WithStatus(r, "FAILED")
    /\ Return(r)
    /\ UNCHANGED <<asked, facilitatorVars, tokenVars, faults>>

\* The database refuses the update.  That of a settled deposit is caught and
\* goes on as a failure; that of a failed one is not.
UpdateRefused(r) ==
    /\ faults < MaxFaults
    /\ faults' = faults + 1
    /\ \/ At(r, "settled") /\ Goto(r, "failing")
       \/ At(r, "failing") /\ Return(r)
    /\ UNCHANGED <<deposits, asked, facilitatorVars, tokenVars>>

\* The backend restarts.
Crash ==
    /\ faults < MaxFaults
    /\ faults' = faults + 1
    /\ requests' = [r \in Requests |-> Idle]
    /\ UNCHANGED <<deposits, asked, facilitatorVars, tokenVars>>

-----------------------------------------------------------------------------
(* Facilitator, token contract, buyers and time.                           *)

Transfer(a) ==
    /\ a \in settling
    /\ Payable(a)
    /\ transfers' = transfers \union {a}
    /\ settling' = settling \ {a}
    /\ UNCHANGED <<serviceVars, vouched, voided, expired, faults>>

Void(a) ==
    /\ Payable(a)
    /\ voided' = voided \union {a}
    /\ UNCHANGED <<serviceVars, facilitatorVars, transfers, expired, faults>>

Expire(a) ==
    /\ a \notin expired
    /\ expired' = expired \union {a}
    /\ UNCHANGED <<serviceVars, facilitatorVars, transfers, voided, faults>>

LeaveWindow(d) ==
    /\ d.recent
    /\ deposits' = (deposits \ {d}) \union {[d EXCEPT !.recent = FALSE]}
    /\ UNCHANGED <<requests, asked, facilitatorVars, tokenVars, faults>>

-----------------------------------------------------------------------------

Init ==
    /\ deposits = {}
    /\ requests = [r \in Requests |-> Idle]
    /\ asked = [a \in Authorizations |-> 0]
    /\ settling = {}
    /\ vouched = {}
    /\ transfers = {}
    /\ voided = {}
    /\ expired = {}
    /\ faults = 0

\* What the backend does with a request, once it has begun, by itself.
OwnStep(r) ==
    \/ CheckAuthorizationState(r)
    \/ CheckRateLimit(r)
    \/ CreateDeposit(r)
    \/ Settle(r)
    \/ RecordSettled(r)
    \/ RecordFailed(r)

RequestStep(r) ==
    \/ OwnStep(r)
    \/ Verify(r)
    \/ SettleAnswered(r) \/ SettleFails(r)

Next ==
    \/ \E r \in Requests, a \in Authorizations, acc \in Accounts : BeginDeposit(r, a, acc)
    \/ \E r \in Requests : RequestStep(r) \/ UpdateRefused(r)
    \/ Crash
    \/ \E a \in Authorizations : Transfer(a) \/ Void(a) \/ Expire(a)
    \/ \E d \in deposits : LeaveWindow(d)

Spec == Init /\ [][Next]_vars

\* Node resumes every await of the database and of the node of the chain, whose
\* client has a timeout.  Nothing is assumed of the calls to the facilitator,
\* which have none.
FairSpec == Spec /\ \A r \in Requests : WF_vars(OwnStep(r))

-----------------------------------------------------------------------------
(* Properties.                                                             *)

\* The shapes of the rows and of the requests of x402.service.ts.
TypeOK ==
    /\ deposits \subseteq Row
    /\ requests \in [Requests -> Request]
    /\ asked \in [Authorizations -> Nat]
    /\ settling \subseteq Authorizations
    /\ vouched \subseteq Authorizations
    /\ transfers \subseteq Authorizations
    /\ voided \subseteq Authorizations
    /\ expired \subseteq Authorizations
    /\ faults \in 0..MaxFaults

WithOutcome(status) == {d.auth : d \in {e \in deposits : e.status = status}}

\* The table says of a deposit what the facilitator has said of it, over overlaps
\* and restarts: nothing else makes a row SETTLED, and a `success` is recorded by
\* the request that got it unless the backend stops or the database refuses.
SettledAsReported ==
    /\ WithOutcome("SETTLED") \subseteq vouched
    /\ \A a \in vouched :
           \/ a \in WithOutcome("SETTLED")
           \/ \E r \in Requests : At(r, "settled") /\ Auth(r) = a
           \/ faults > 0

\* Two requests with one authorization, at once or one after another and over
\* restarts, ask for its settlement once: what the look-up before the insert
\* misses, the insert refuses.
AskedOnce ==
    \A a, b \in Authorizations :
        asked[a] > 0 /\ asked[b] > 0 /\ a.nonce = b.nonce => a = b /\ asked[a] = 1

\* No money moves for the service without a row that says whose it was.
PaidIsRecorded ==
    \A a \in transfers : \E d \in deposits : d.auth = a

\* The count is taken before the insert, so concurrent requests overshoot the
\* limit, but by less than their number: rows of the window and requests that
\* were counted are together below RateLimit plus the number of requests.
OvershootBounded ==
    \A acc \in Accounts :
        LET counted == {r \in Requests : At(r, "counted") /\ Auth(r).to = acc.address} IN
        Cardinality(RecentOf(acc.address)) + Cardinality(counted)
            < RateLimit + Cardinality(Requests)

Ledger == INSTANCE DepositLedger WITH
    pending <- WithOutcome("PENDING"),
    settled <- WithOutcome("SETTLED"),
    failed <- WithOutcome("FAILED"),
    confirmed <- vouched,
    paid <- transfers

\* The table and the money keep the ledger: no overlap of requests, restart or
\* answer opens, charges or pays an authorization twice, settles what was not
\* confirmed, or changes or loses an entry that is SETTLED or FAILED.
LedgerSpec == Ledger!Spec

\* Every call to the facilitator ends, in an answer or an error.
FacilitatorAnswers ==
    \A r \in Requests : WF_vars(Verify(r)) /\ WF_vars(SettleAnswered(r) \/ SettleFails(r))

\* A row does not stay PENDING, if the facilitator ends every call, unless the
\* backend stopped or the database refused its update: nothing looks for such
\* rows later.
EveryDepositDecided ==
    FacilitatorAnswers =>
        \A a \in Authorizations :
            (\E d \in deposits : d.auth = a /\ d.status = "PENDING")
                ~> (faults > 0 \/ \E d \in deposits : d.auth = a /\ d.status # "PENDING")
=============================================================================
