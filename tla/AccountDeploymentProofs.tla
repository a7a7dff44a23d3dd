----------------------- MODULE AccountDeploymentProofs -----------------------
(***************************************************************************)
(* Proofs about the creation of accounts, for every set of forms, orders,  *)
(* chains and logins, and any number of faults.                            *)
(*                                                                         *)
(* The argument: a request that is being answered has passed the checks,   *)
(* and every step that it has behind it is backed by contracts of its own, *)
(* which keep their place on the chain; what it commits is made of those.  *)
(***************************************************************************)
EXTENDS AccountDeployment, FiniteSetTheorems, SequenceTheorems, TLAPS

Active == {"deploying", "waiting", "inserting", "announcing"}

\* A request exists once its form was sent, the second one after a retry; it is
\* worked on only after the checks.
Known ==
    /\ \A s \in Submissions : client[s].phase = "idle" =>
           \A i \in Attempts : At(<<s, i>>, "absent")
    /\ \A s \in Submissions : client[s].attempt = 1 => At(<<s, 2>>, "absent")
    /\ \A s \in Submissions : client[s].phase # "idle" => client[s].order \in AllOrders
    /\ \A q \in Requests : requests[q].pc \in Active => Valid(Order(q))
    /\ \A q \in Requests : At(q, "waiting") =>
           requests[q].left # <<>> /\ requests[q].sent \in Address

-----------------------------------------------------------------------------
(* Types.                                                                  *)

\* At the start nothing was asked for.
LEMMA InitTypeOK == Init => TypeOK /\ Known
  BY CommitmentsAssumption, OrdersAssumption
  DEF Init, TypeOK, Known, At, Absent, Request, Steps, Attempts, Requests, Active

\* A request that is worked on has an order, and its order is of the shape of
\* the form.
LEMMA OrderKnown ==
  ASSUME TypeOK, Known, NEW q \in Requests, ~At(q, "absent")
  PROVE  /\ client[q[1]].phase # "idle"
         /\ Order(q) \in AllOrders
         /\ Order(q).signers \in Seq(Commitments)
         /\ Order(q).chains \in Seq(Chains)
         /\ Order(q).threshold \in Nat \ {0}
         /\ Order(q).creator \in Commitments
  <1>1. PICK s \in Submissions, i \in Attempts : q = <<s, i>>
    BY DEF Requests
  <1>2. client[s].phase # "idle"
    BY <1>1 DEF Known
  <1>3. Order(q) \in AllOrders
    BY <1>1, <1>2 DEF Known, Order
  <1>4. KnownUsers \subseteq Commitments
    BY CommitmentsAssumption
  <1> QED
    BY <1>1, <1>2, <1>3, <1>4, OrdersAssumption

\* A request is an attempt of a form.
LEMMA FormOfRequest ==
  /\ \A q \in Requests : q[1] \in Submissions /\ q[2] \in Attempts /\ q = <<q[1], q[2]>>
  /\ \A s \in Submissions, i \in Attempts : <<s, i>> \in Requests
  BY DEF Requests

\* What is left of a request that threw.
LEMMA FailedType ==
  /\ [Absent EXCEPT !.pc = "failed"] \in Request
  /\ [Absent EXCEPT !.pc = "failed"].pc = "failed"
  <1>1. Absent \in Request
    BY DEF Absent, Request, Steps
  <1> QED
    BY <1>1 DEF Request, Steps

\* The row of a request before its work.
LEMMA ReceivedType ==
  ASSUME NEW o \in AllOrders
  PROVE  /\ Received(o) \in Request
         /\ Received(o).pc \in {"deploying", "failed"}
         /\ Received(o).pc = "deploying" => Valid(o)
  <1>1. CASE Valid(o)
    <2> DEFINE r == [Absent EXCEPT !.pc = "deploying", !.left = o.chains]
    <2>1. o.chains \in Seq(Chains)
      BY OrdersAssumption
    <2>2. Absent \in Request
      BY DEF Absent, Request, Steps
    <2>3. r \in Request /\ r.pc = "deploying"
      BY <2>1, <2>2 DEF Request, Steps
    <2>4. Received(o) = r
      BY <1>1 DEF Received
    <2> QED
      BY <1>1, <2>3, <2>4
  <1>2. CASE ~Valid(o)
    BY <1>2, FailedType DEF Received
  <1> QED
    BY <1>1, <1>2

\* A request at work goes on, or throws: its row keeps its type.
LEMMA ReplacedTypes ==
  ASSUME TypeOK, Known, NEW q \in Requests, ~At(q, "absent"), NEW r \in Request,
         requests' = [requests EXCEPT ![q] = r], UNCHANGED client,
         r.pc # "absent",
         r.pc \in Active => requests[q].pc \in Active,
         r.pc = "waiting" => r.left # <<>> /\ r.sent \in Address
  PROVE  requests' \in [Requests -> Request] /\ Known'
  <1>1. 2 \in Attempts
    BY DEF Attempts
  <1> QED
    BY <1>1, FormOfRequest DEF TypeOK, Known, At, Active, Order

\* A request that throws keeps its type.
LEMMA ThrowType ==
  ASSUME TypeOK, Known, NEW q \in Requests, ~At(q, "absent"), Throw(q), UNCHANGED client
  PROVE  requests' \in [Requests -> Request] /\ Known'
  <1> DEFINE f == [Absent EXCEPT !.pc = "failed"]
  <1>1. f \in Request /\ f.pc = "failed"
    BY FailedType
  <1>2. requests' = [requests EXCEPT ![q] = f]
    BY DEF Throw
  <1> HIDE DEF f
  <1> QED
    BY <1>1, <1>2, ReplacedTypes DEF Active

\* A step of the client keeps the types.
LEMMA ClientTypes ==
  ASSUME TypeOK, Known, NEW s \in Submissions,
         \/ \E o \in AllOrders : Submit(s, o)
         \/ Succeed(s) \/ Fail(s) \/ TimeOut(s)
  PROVE  TypeOK' /\ Known'
  <1> USE DEF TypeOK, database
  <1>1. ASSUME NEW o \in AllOrders, Submit(s, o) PROVE TypeOK' /\ Known'
    <2>1. <<s, 1>> \in Requests /\ 1 \in Attempts
      BY DEF Requests, Attempts
    <2>2. TypeOK'
      BY <1>1, <2>1, ReceivedType DEF Submit
    <2>3. Known'
      BY <1>1, <2>1, ReceivedType DEF Submit, Known, At, Requests, Attempts, Order, Active
    <2> QED
      BY <2>2, <2>3
  <1>2. CASE Succeed(s)
    BY <1>2, FormOfRequest DEF Succeed, Waiting, Known, At, Order
  <1>3. ASSUME client[s].phase = "waiting", Resend(s) \/ GiveUp(s)
        PROVE  /\ client' \in [Submissions -> [phase : {"idle", "waiting", "succeeded", "gaveUp"},
                                   order : AllOrders \union {None}, attempt : Attempts]]
               /\ requests' \in [Requests -> Request]
               /\ Known'
    <2>1. CASE Resend(s)
      <3>1. client[s].order \in AllOrders
        BY <1>3 DEF Known
      <3>2. <<s, 2>> \in Requests /\ 2 \in Attempts
        BY DEF Requests, Attempts
      <3>3. requests' \in [Requests -> Request]
        BY <2>1, <3>1, <3>2, ReceivedType DEF Resend
      <3>4. Known'
        BY <1>3, <2>1, <3>1, <3>2, ReceivedType
        DEF Resend, Known, At, Requests, Attempts, Order, Active
      <3> QED
        BY <2>1, <3>2, <3>3, <3>4 DEF Resend
    <2>2. CASE GiveUp(s)
      BY <1>3, <2>2, FormOfRequest DEF GiveUp, Known, At, Order
    <2> QED
      BY <1>3, <2>1, <2>2
  <1>4. CASE Fail(s)
    BY <1>3, <1>4 DEF Fail, Waiting
  <1>5. CASE TimeOut(s)
    <2>1. faults' \in 0..MaxFaults
      BY <1>5, CommitmentsAssumption DEF TimeOut
    <2> QED
      BY <1>3, <1>5, <2>1 DEF TimeOut, Waiting
  <1> QED
    BY <1>1, <1>2, <1>4, <1>5

\* The next address of a chain is a number, and sending to the next chain of a
\* request makes a row of the shape of a contract.
LEMMA WithContractType ==
  ASSUME TypeOK, Known, IsFiniteSet(contracts), NEW q \in Requests,
         At(q, "deploying"), requests[q].left # <<>>
  PROVE  /\ Head(requests[q].left) \in Chains
         /\ NextAddress(Head(requests[q].left)) \in Address
         /\ WithContract(q) \subseteq
                [by : Requests, chain : Chains, address : Address,
                 signers : Seq(Commitments), threshold : Nat, mined : BOOLEAN]
         /\ IsFiniteSet(WithContract(q))
  <1> DEFINE c == Head(requests[q].left)
             k == [by |-> q, chain |-> c, address |-> NextAddress(c),
                   signers |-> Order(q).signers, threshold |-> Order(q).threshold,
                   mined |-> FALSE]
  <1>1. c \in Chains
    <2>1. requests[q].left \in Seq(Chains)
      BY DEF TypeOK, Request
    <2> QED
      BY <2>1, HeadTailProperties
  <1>2. NextAddress(c) \in Address
    <2> DEFINE on == {l \in contracts : l.chain = c}
    <2>1. IsFiniteSet(on)
      BY FS_Subset
    <2> QED
      BY <2>1, FS_CardinalityType DEF NextAddress, Address
  <1>3. Order(q).signers \in Seq(Commitments) /\ Order(q).threshold \in Nat
    BY OrderKnown DEF At
  <1>4. WithContract(q) = contracts \union {k}
    BY DEF WithContract
  <1>5. k \in [by : Requests, chain : Chains, address : Address,
               signers : Seq(Commitments), threshold : Nat, mined : BOOLEAN]
    BY <1>1, <1>2, <1>3
  <1>6. IsFiniteSet(contracts \union {k})
    BY FS_AddElement
  <1> QED
    BY <1>1, <1>2, <1>4, <1>5, <1>6 DEF TypeOK

\* A step of one request, faults included, keeps the types.
LEMMA RequestTypes ==
  ASSUME TypeOK, Known, IsFiniteSet(contracts), NEW q \in Requests,
         \/ RequestStep(q)
         \/ SendFails(q) \/ ReceiptTimeout(q) \/ CommitRefused(q) \/ ReadBackFails(q)
  PROVE  TypeOK' /\ Known' /\ IsFiniteSet(contracts')
  <1> USE DEF TypeOK, database
  <1>1. CASE SendDeployment(q)
    <2>1. CASE Deployable(Order(q))
      <3> DEFINE a == NextAddress(Head(requests[q].left))
      <3>1. a \in Address /\ contracts' = WithContract(q)
        BY <1>1, <2>1, WithContractType DEF SendDeployment
      <3> HIDE DEF a
      <3> DEFINE r == [requests[q] EXCEPT !.pc = "waiting", !.sent = a]
      <3>2. r \in Request /\ r.pc = "waiting" /\ r.left # <<>> /\ r.sent \in Address
        BY <1>1, <3>1 DEF SendDeployment, Request, Steps
      <3>5. requests' = [requests EXCEPT ![q] = r]
        BY <1>1, <2>1 DEF SendDeployment, a
      <3> HIDE DEF r
      <3>6. At(q, "deploying") /\ UNCHANGED client
        BY <1>1 DEF SendDeployment
      <3>3. requests' \in [Requests -> Request] /\ Known'
        BY <3>2, <3>5, <3>6, ReplacedTypes DEF At, Active
      <3> QED
        BY <1>1, <3>1, <3>3, WithContractType DEF SendDeployment
    <2>2. CASE ~Deployable(Order(q))
      <3>1. Throw(q) /\ UNCHANGED contracts
        BY <1>1, <2>2 DEF SendDeployment
      <3> QED
        BY <1>1, <3>1, ThrowType DEF SendDeployment, At
    <2> QED
      BY <2>1, <2>2
  <1>2. CASE SendFails(q)
    <2>1. faults' \in 0..MaxFaults
      BY <1>2, CommitmentsAssumption DEF SendFails
    <2>2. requests' \in [Requests -> Request] /\ Known'
      BY <1>2, ThrowType DEF SendFails, At
    <2> QED
      BY <1>2, <2>1, <2>2, WithContractType DEF SendFails
  <1>3. CASE GetReceipt(q)
    <2> DEFINE c == Head(requests[q].left)
               d == [chain |-> c, address |-> requests[q].sent]
    <2>1. c \in Chains /\ Tail(requests[q].left) \in Seq(Chains)
      <3>1. requests[q].left \in Seq(Chains) /\ requests[q].left # <<>>
        BY <1>3 DEF GetReceipt, Request, Known
      <3> QED
        BY <3>1, HeadTailProperties
    <2>2. d \in [chain : Chains, address : Address]
      BY <1>3, <2>1 DEF GetReceipt, Known
    <2> DEFINE r == [requests[q] EXCEPT !.pc = "deploying", !.left = Tail(@),
                         !.deployed = @ \union {d}, !.sent = None]
    <2>3. requests' = [requests EXCEPT ![q] = r]
      BY <1>3 DEF GetReceipt, Deployed
    <2> HIDE DEF d
    <2>4. r \in Request /\ r.pc = "deploying"
      BY <2>1, <2>2 DEF Request, Steps
    <2> HIDE DEF r
    <2>5. At(q, "waiting") /\ UNCHANGED client
      BY <1>3 DEF GetReceipt
    <2>6. requests' \in [Requests -> Request] /\ Known'
      BY <2>3, <2>4, <2>5, ReplacedTypes DEF At, Active
    <2> QED
      BY <1>3, <2>6 DEF GetReceipt
  <1>4. CASE ReceiptTimeout(q)
    <2>1. faults' \in 0..MaxFaults
      BY <1>4, CommitmentsAssumption DEF ReceiptTimeout
    <2> QED
      BY <1>4, <2>1, ThrowType DEF ReceiptTimeout, At
  <1>5. CASE FindUsers(q)
    <2>1. Order(q).signers \in Seq(Commitments)
      BY <1>5, OrderKnown DEF FindUsers, At
    <2>2. ToSet(Order(q).signers) \ users \subseteq Commitments
      BY <2>1 DEF ToSet
    <2> DEFINE m == ToSet(Order(q).signers) \ users
               r == [requests[q] EXCEPT !.pc = "inserting", !.missing = m]
    <2>3. requests' = [requests EXCEPT ![q] = r]
      BY <1>5 DEF FindUsers
    <2> HIDE DEF m
    <2>4. r \in Request /\ r.pc = "inserting"
      BY <2>2 DEF Request, Steps, m
    <2> HIDE DEF r
    <2>5. At(q, "deploying") /\ UNCHANGED client
      BY <1>5 DEF FindUsers
    <2>6. requests' \in [Requests -> Request] /\ Known'
      BY <2>3, <2>4, <2>5, ReplacedTypes DEF At, Active
    <2> QED
      BY <1>5, <2>6 DEF FindUsers
  <1>6. CASE CommitAccounts(q)
    <2>1. CASE Insertable(q)
      <3>1. users' \subseteq Commitments
        BY <1>6, <2>1 DEF CommitAccounts, Request
      <3>2. accounts' \subseteq [chain : Chains, address : Address, threshold : Nat,
                                 signers : SUBSET Commitments, creator : Commitments]
        <4>1. accounts' = accounts \union Rows(q, requests[q].deployed)
          BY <1>6, <2>1 DEF CommitAccounts
        <4>2. requests[q].deployed \subseteq [chain : Chains, address : Address]
          BY DEF Request
        <4>3. /\ ToSet(Order(q).signers) \subseteq Commitments
              /\ Order(q).threshold \in Nat
              /\ Order(q).creator \in Commitments
          BY <1>6, OrderKnown DEF CommitAccounts, At, ToSet
        <4> QED
          BY <4>1, <4>2, <4>3 DEF Rows
      <3> DEFINE r == [requests[q] EXCEPT !.pc = "announcing"]
      <3>3. r \in Request /\ r.pc = "announcing" /\ requests' = [requests EXCEPT ![q] = r]
        BY <1>6, <2>1 DEF CommitAccounts, Goto, Request, Steps
      <3> HIDE DEF r
      <3>4. At(q, "inserting") /\ UNCHANGED client
        BY <1>6 DEF CommitAccounts
      <3>5. requests' \in [Requests -> Request] /\ Known'
        BY <3>3, <3>4, ReplacedTypes DEF At, Active
      <3> QED
        BY <1>6, <3>1, <3>2, <3>5 DEF CommitAccounts
    <2>2. CASE ~Insertable(q)
      <3>1. Throw(q) /\ UNCHANGED database
        BY <1>6, <2>2 DEF CommitAccounts
      <3> QED
        BY <1>6, <3>1, ThrowType DEF CommitAccounts, At
    <2> QED
      BY <2>1, <2>2
  <1>7. CASE CommitRefused(q)
    <2>1. faults' \in 0..MaxFaults
      BY <1>7, CommitmentsAssumption DEF CommitRefused
    <2> QED
      BY <1>7, <2>1, ThrowType DEF CommitRefused, At
  <1>8. ASSUME At(q, "announcing")
        PROVE  Announcements(q) \subseteq [to : Commitments, chain : Chains, address : Address]
    <2>1. ToSet(Order(q).signers) \subseteq Commitments
      BY <1>8, OrderKnown DEF At, ToSet
    <2>2. requests[q].deployed \subseteq [chain : Chains, address : Address]
      BY DEF Request
    <2> QED
      BY <2>1, <2>2 DEF Announcements
  <1>9. CASE Announce(q)
    <2> DEFINE r == [requests[q] EXCEPT !.pc = "done"]
    <2>1. r \in Request /\ r.pc = "done" /\ requests' = [requests EXCEPT ![q] = r]
      BY <1>9 DEF Announce, Goto, Request, Steps
    <2> HIDE DEF r
    <2>2. At(q, "announcing") /\ UNCHANGED client
      BY <1>9 DEF Announce
    <2>3. requests' \in [Requests -> Request] /\ Known'
      BY <2>1, <2>2, ReplacedTypes DEF At, Active
    <2> QED
      BY <1>8, <1>9, <2>3 DEF Announce
  <1>10. CASE ReadBackFails(q)
    <2>1. faults' \in 0..MaxFaults
      BY <1>10, CommitmentsAssumption DEF ReadBackFails
    <2> QED
      BY <1>8, <1>10, <2>1, ThrowType DEF ReadBackFails, At
  <1> QED
    BY <1>1, <1>2, <1>3, <1>4, <1>5, <1>6, <1>7, <1>9, <1>10 DEF RequestStep

\* A step of a login, of a chain or of the process keeps the types.
LEMMA OtherTypes ==
  ASSUME TypeOK, Known, IsFiniteSet(contracts),
         \/ \E k \in contracts : Mine(k)
         \/ \E l \in Logins, u \in Commitments : FindUser(l, u)
         \/ \E l \in Logins : CreateUser(l)
         \/ Crash
         \/ UNCHANGED vars
  PROVE  TypeOK' /\ Known' /\ IsFiniteSet(contracts')
  <1> USE DEF TypeOK, database
  <1>1. ASSUME NEW k \in contracts, Mine(k) PROVE TypeOK' /\ Known' /\ IsFiniteSet(contracts')
    <2> DEFINE m == [k EXCEPT !.mined = TRUE]
    <2>1. contracts' = (contracts \ {k}) \union {m}
      BY <1>1 DEF Mine
    <2>2. m \in [by : Requests, chain : Chains, address : Address,
                 signers : Seq(Commitments), threshold : Nat, mined : BOOLEAN]
      OBVIOUS
    <2> HIDE DEF m
    <2>3. IsFiniteSet(contracts')
      BY <2>1, FS_RemoveElement, FS_AddElement
    <2> QED
      BY <1>1, <2>1, <2>2, <2>3 DEF Mine, Known, At, Order
  <1>2. ASSUME NEW l \in Logins, NEW u \in Commitments, FindUser(l, u) \/ CreateUser(l)
        PROVE  TypeOK' /\ Known' /\ IsFiniteSet(contracts')
    BY <1>2 DEF FindUser, CreateUser, Known, At, Order
  <1>3. CASE Crash
    <2>1. faults' \in 0..MaxFaults
      BY <1>3, CommitmentsAssumption DEF Crash
    <2> DEFINE f == [Absent EXCEPT !.pc = "failed"]
    <2>2. f \in Request /\ f.pc = "failed"
      BY FailedType
    <2>3. requests' = [q \in Requests |-> IF requests[q].pc \in {"absent", "done"}
                                          THEN requests[q] ELSE f]
      BY <1>3 DEF Crash
    <2> HIDE DEF f
    <2>4. requests' \in [Requests -> Request]
      BY <2>2, <2>3
    <2>5. Known'
      <3>1. UNCHANGED client
        BY <1>3 DEF Crash
      <3>2. \A q \in Requests :
                \/ requests'[q] = requests[q]
                \/ requests'[q] = f /\ ~At(q, "absent")
        BY <2>3 DEF At
      <3>3. 2 \in Attempts
        BY DEF Attempts
      <3> QED
        <4>1. \A q \in Requests :
                  /\ At(q, "absent") => At(q, "absent")'
                  /\ requests'[q].pc \in Active => requests'[q] = requests[q]
                  /\ At(q, "waiting")' => requests'[q] = requests[q]
          BY <2>2, <3>2 DEF At, Active
        <4> QED
          BY <3>1, <3>3, <4>1, FormOfRequest DEF Known, At, Order
    <2> QED
      BY <1>3, <2>1, <2>4, <2>5 DEF Crash
  <1>4. CASE UNCHANGED vars
    BY <1>4 DEF vars, Known, At, Order
  <1>5. ASSUME NEW l \in Logins, CreateUser(l)
        PROVE  TypeOK' /\ Known' /\ IsFiniteSet(contracts')
    BY <1>5 DEF CreateUser, Known, At, Order
  <1> QED
    BY <1>1, <1>2, <1>3, <1>4, <1>5

-----------------------------------------------------------------------------

Typed == TypeOK /\ Known /\ IsFiniteSet(contracts)

\* Every step keeps the types.
LEMMA TypedStep == Typed /\ [Next]_vars => Typed'
  <1> SUFFICES ASSUME Typed, [Next]_vars PROVE Typed'
    OBVIOUS
  <1>1. ASSUME NEW s \in Submissions,
               \/ \E o \in AllOrders : Submit(s, o)
               \/ Succeed(s) \/ Fail(s) \/ TimeOut(s)
        PROVE  Typed'
    <2>1. TypeOK' /\ Known'
      BY <1>1, ClientTypes DEF Typed
    <2>2. UNCHANGED contracts
      BY <1>1 DEF Submit, Succeed, Fail, TimeOut
    <2> QED
      BY <2>1, <2>2 DEF Typed
  <1>2. ASSUME NEW q \in Requests,
               \/ RequestStep(q)
               \/ SendFails(q) \/ ReceiptTimeout(q) \/ CommitRefused(q) \/ ReadBackFails(q)
        PROVE  Typed'
    BY <1>2, RequestTypes DEF Typed
  <1>3. CASE \/ \E k \in contracts : Mine(k)
             \/ \E l \in Logins, u \in Commitments : FindUser(l, u)
             \/ \E l \in Logins : CreateUser(l)
             \/ Crash
             \/ UNCHANGED vars
    BY <1>3, OtherTypes DEF Typed
  <1> QED
    BY <1>1, <1>2, <1>3 DEF Next

\* What is recorded of a form, a request, an account, an event and a contract
\* keeps its shape.
THEOREM TypeCorrect == Spec => []TypeOK
  <1>1. Init => Typed
    BY InitTypeOK, FS_EmptySet DEF Init, Typed
  <1>2. Typed /\ [Next]_vars => Typed'
    BY TypedStep
  <1>3. Typed => TypeOK
    BY DEF Typed
  <1> QED
    BY <1>1, <1>2, <1>3, PTL DEF Spec

(* Contracts keep their place on the chain.                                *)

\* The relayer's nonce gives every contract of a chain an address of its own.
Distinct ==
    /\ \A k \in contracts : k.address < NextAddress(k.chain)
    /\ \A k, l \in contracts : k.chain = l.chain /\ k.address = l.address => k = l

\* A deployment takes the next address of its chain.
LEMMA SendDistinct ==
  ASSUME Typed, Distinct, NEW q \in Requests, At(q, "deploying"),
         requests[q].left # <<>>, contracts' = WithContract(q)
  PROVE  Distinct'
  <1>1. PICK c, k : /\ contracts' = contracts \union {k}
                    /\ k.chain = c
                    /\ k.address = NextAddress(c)
    <2> DEFINE c == Head(requests[q].left)
               k == [by |-> q, chain |-> c, address |-> NextAddress(c),
                     signers |-> Order(q).signers, threshold |-> Order(q).threshold,
                     mined |-> FALSE]
    <2>1. contracts' = contracts \union {k} /\ k.chain = c /\ k.address = NextAddress(c)
      BY DEF WithContract
    <2> HIDE DEF c, k
    <2> QED
      BY <2>1
  <1> DEFINE On(x) == {l \in contracts : l.chain = x}
  <1>2. \A x : IsFiniteSet(On(x)) /\ NextAddress(x) = Cardinality(On(x)) /\ NextAddress(x) \in Nat
    <2> TAKE x
    <2>1. IsFiniteSet(On(x))
      BY FS_Subset DEF Typed
    <2> QED
      BY <2>1, FS_CardinalityType DEF NextAddress
  <1>3. k \notin contracts
    <2>1. NextAddress(c) \in Nat
      BY <1>2
    <2> QED
      BY <1>1, <2>1 DEF Distinct
  <1>4. NextAddress(c)' = NextAddress(c) + 1
    <2>1. {l \in contracts' : l.chain = c} = On(c) \union {k} /\ k \notin On(c)
      BY <1>1, <1>3
    <2>2. IsFiniteSet(On(c)) /\ NextAddress(c) = Cardinality(On(c))
      BY <1>2
    <2>3. NextAddress(c)' = Cardinality({l \in contracts' : l.chain = c})
      BY DEF NextAddress
    <2> HIDE DEF On
    <2>4. Cardinality(On(c) \union {k}) = Cardinality(On(c)) + 1
      BY <2>1, <2>2, FS_AddElement
    <2> QED
      BY <2>1, <2>2, <2>3, <2>4
  <1>5. \A x : x # c => NextAddress(x)' = NextAddress(x)
    <2> SUFFICES ASSUME NEW x, x # c PROVE NextAddress(x)' = NextAddress(x)
      OBVIOUS
    <2>1. {l \in contracts' : l.chain = x} = On(x)
      BY <1>1
    <2> QED
      BY <2>1 DEF NextAddress
  <1>6. \A l \in contracts : l.address \in Nat
    BY DEF Typed, TypeOK, Address
  <1>7. ASSUME NEW l \in contracts' PROVE l.address < NextAddress(l.chain)'
    <2>0. NextAddress(c) \in Nat
      BY <1>2
    <2>1. CASE l = k
      BY <1>1, <1>4, <2>0, <2>1
    <2>2. CASE l \in contracts /\ l.chain = c
      BY <1>4, <1>6, <2>0, <2>2 DEF Distinct
    <2>3. CASE l \in contracts /\ l.chain # c
      BY <1>5, <2>3 DEF Distinct
    <2> QED
      BY <1>1, <2>1, <2>2, <2>3
  <1>8. ASSUME NEW l \in contracts, l.chain = c PROVE l.address # k.address
    BY <1>1, <1>2, <1>6, <1>8 DEF Distinct
  <1>9. ASSUME NEW l \in contracts', NEW m \in contracts',
               l.chain = m.chain, l.address = m.address
        PROVE  l = m
    BY <1>1, <1>8, <1>9 DEF Distinct
  <1> QED
    BY <1>7, <1>9 DEF Distinct

\* Mining changes no address.
LEMMA MineDistinct ==
  ASSUME Typed, Distinct, NEW k \in contracts, Mine(k)
  PROVE  Distinct'
  <1> DEFINE m == [k EXCEPT !.mined = TRUE]
             On(x) == {l \in contracts : l.chain = x}
  <1>1. contracts' = (contracts \ {k}) \union {m}
    BY DEF Mine
  <1>2. m.chain = k.chain /\ m.address = k.address /\ m # k
    <2>1. k \in [by : Requests, chain : Chains, address : Address,
                 signers : Seq(Commitments), threshold : Nat, mined : BOOLEAN]
      BY DEF Typed, TypeOK
    <2>2. m.mined = TRUE /\ k.mined = FALSE
      BY <2>1 DEF Mine
    <2> QED
      BY <2>1, <2>2
  <1> HIDE DEF m
  <1>3. m \notin contracts
    BY <1>2 DEF Distinct
  <1>4. \A x : NextAddress(x)' = NextAddress(x)
    <2> TAKE x
    <2>1. IsFiniteSet(On(x)) /\ Cardinality(On(x)) \in Nat
      BY FS_Subset, FS_CardinalityType DEF Typed
    <2>2. NextAddress(x)' = Cardinality({l \in contracts' : l.chain = x})
      BY DEF NextAddress
    <2>3. CASE x = k.chain
      <3>1. {l \in contracts' : l.chain = x} = (On(x) \ {k}) \union {m}
        BY <1>1, <1>2, <2>3
      <3>2. k \in On(x) /\ m \notin On(x) \ {k}
        BY <1>3, <2>3
      <3>3. IsFiniteSet(On(x) \ {k}) /\ Cardinality(On(x) \ {k}) = Cardinality(On(x)) - 1
        BY <2>1, <3>2, FS_RemoveElement
      <3>4. Cardinality((On(x) \ {k}) \union {m}) = Cardinality(On(x) \ {k}) + 1
        BY <3>2, <3>3, FS_AddElement
      <3>5. NextAddress(x) = Cardinality(On(x))
        BY DEF NextAddress
      <3> HIDE DEF On
      <3>6. Cardinality((On(x) \ {k}) \union {m}) = Cardinality(On(x))
        BY <2>1, <3>3, <3>4
      <3>7. NextAddress(x)' = Cardinality((On(x) \ {k}) \union {m})
        BY <2>2, <3>1, Zenon
      <3> QED
        BY <3>5, <3>6, <3>7
    <2>4. CASE x # k.chain
      <3>1. {l \in contracts' : l.chain = x} = On(x)
        BY <1>1, <1>2, <2>4
      <3> QED
        BY <2>2, <3>1 DEF NextAddress
    <2> QED
      BY <2>3, <2>4
  <1> QED
    BY <1>1, <1>2, <1>4 DEF Distinct

\* What becomes of the contracts in a step: one more, one mined, or nothing.
LEMMA ContractSteps ==
  ASSUME [Next]_vars
  PROVE  \/ \E q \in Requests : /\ SendDeployment(q) \/ SendFails(q)
                                /\ contracts' = WithContract(q)
         \/ \E k \in contracts : Mine(k)
         \/ UNCHANGED contracts
  BY DEF Next, vars, RequestStep, Submit, Succeed, Fail, TimeOut, SendDeployment, SendFails,
         GetReceipt, ReceiptTimeout, FindUsers, CommitAccounts, CommitRefused, Announce,
         ReadBackFails, FindUser, CreateUser, Crash

\* Every step keeps addresses distinct.
LEMMA DistinctStep == Typed /\ Distinct /\ [Next]_vars => Distinct'
  <1> SUFFICES ASSUME Typed, Distinct, [Next]_vars PROVE Distinct'
    OBVIOUS
  <1>1. CASE \E q \in Requests : /\ SendDeployment(q) \/ SendFails(q)
                                 /\ contracts' = WithContract(q)
    BY <1>1, SendDistinct DEF SendDeployment, SendFails
  <1>2. CASE \E k \in contracts : Mine(k)
    BY <1>2, MineDistinct
  <1>3. CASE UNCHANGED contracts
    BY <1>3 DEF Distinct, NextAddress
  <1> QED
    BY <1>1, <1>2, <1>3, ContractSteps

-----------------------------------------------------------------------------
(* What a request has behind it.                                           *)

\* The same contract, perhaps mined in the meantime.
SameContract(k, l) ==
    /\ l.by = k.by
    /\ l.chain = k.chain
    /\ l.address = k.address
    /\ l.signers = k.signers
    /\ l.threshold = k.threshold
    /\ k.mined => l.mined

Own(q, k) ==
    /\ k.by = q
    /\ k.signers = Order(q).signers
    /\ k.threshold = Order(q).threshold

\* Every address that it recorded is a mined contract of its own; the one that it
\* waits for is its own; it has found or creates every signer; what it announces
\* is recorded.
Working(q) ==
    /\ requests[q].pc \in Active =>
           \A d \in requests[q].deployed : \E k \in contracts :
               Own(q, k) /\ k.chain = d.chain /\ k.address = d.address /\ k.mined
    /\ At(q, "waiting") =>
           \E k \in contracts :
               /\ Own(q, k)
               /\ k.chain = Head(requests[q].left)
               /\ k.address = requests[q].sent
    /\ At(q, "inserting") => ToSet(Order(q).signers) \subseteq users \union requests[q].missing
    /\ At(q, "announcing") => Rows(q, requests[q].deployed) \subseteq accounts

\* No step takes a contract, a user or an account away.
LEMMA Growing ==
  ASSUME Typed, [Next]_vars
  PROVE  /\ \A k \in contracts : \E l \in contracts' : SameContract(k, l)
         /\ users \subseteq users'
         /\ accounts \subseteq accounts'
  <1>1. \A k \in contracts : SameContract(k, k)
    BY DEF SameContract
  <1>2. \A k \in contracts : \E l \in contracts' : SameContract(k, l)
    <2>1. CASE \E q \in Requests : contracts' = WithContract(q)
      BY <1>1, <2>1 DEF WithContract
    <2>2. ASSUME NEW m \in contracts, Mine(m)
          PROVE  \A k \in contracts : \E l \in contracts' : SameContract(k, l)
      <3>1. m \in [by : Requests, chain : Chains, address : Address,
                   signers : Seq(Commitments), threshold : Nat, mined : BOOLEAN]
        BY DEF Typed, TypeOK
      <3>2. SameContract(m, [m EXCEPT !.mined = TRUE])
        BY <3>1 DEF SameContract
      <3>3. contracts' = (contracts \ {m}) \union {[m EXCEPT !.mined = TRUE]}
        BY <2>2 DEF Mine
      <3> QED
        BY <1>1, <3>2, <3>3
    <2>3. CASE UNCHANGED contracts
      BY <1>1, <2>3
    <2> QED
      BY <2>1, <2>2, <2>3, ContractSteps
  <1>3. users \subseteq users' /\ accounts \subseteq accounts'
    BY DEF Next, vars, database, RequestStep, Submit, Succeed, Fail, TimeOut, SendDeployment,
           SendFails, GetReceipt, ReceiptTimeout, FindUsers, CommitAccounts, CommitRefused,
           Announce, ReadBackFails, Mine, FindUser, CreateUser, Crash
  <1> QED
    BY <1>2, <1>3

\* What a step does to a request: it leaves it alone, begins it, ends it, or is
\* one of its own.
LEMMA Moves ==
  ASSUME Typed, [Next]_vars, NEW q \in Requests
  PROVE  \/ requests'[q] = requests[q] /\ (At(q, "absent") \/ Order(q)' = Order(q))
         \/ requests'[q] = Received(Order(q)') /\ At(q, "absent")
         \/ /\ requests'[q].pc \in {"done", "failed"}
            /\ ~At(q, "absent")
            /\ Order(q)' = Order(q)
         \/ SendDeployment(q) /\ contracts' = WithContract(q)
         \/ GetReceipt(q)
         \/ FindUsers(q)
         \/ CommitAccounts(q) /\ Insertable(q)
  <1> DEFINE Untouched == requests'[q] = requests[q] /\ (At(q, "absent") \/ Order(q)' = Order(q))
             Begun == requests'[q] = Received(Order(q)') /\ At(q, "absent")
             Ended == /\ requests'[q].pc \in {"done", "failed"}
                      /\ ~At(q, "absent")
                      /\ Order(q)' = Order(q)
  <1> USE DEF Typed, TypeOK
  <1>1. ASSUME NEW s \in Submissions, NEW o \in AllOrders, Submit(s, o)
        PROVE  Untouched \/ Begun
    <2>1. CASE q = <<s, 1>>
      BY <1>1, <2>1, FormOfRequest DEF Submit, Known, Order, Attempts
    <2>2. CASE q[1] = s /\ q # <<s, 1>>
      BY <1>1, <2>2, FormOfRequest DEF Submit, Known
    <2>3. CASE q[1] # s
      BY <1>1, <2>3, FormOfRequest DEF Submit, Order
    <2> QED
      BY <2>1, <2>2, <2>3
  <1>2. ASSUME NEW s \in Submissions, Succeed(s) PROVE Untouched
    BY <1>2, FormOfRequest DEF Succeed, Order
  <1>3. ASSUME NEW s \in Submissions, Fail(s) \/ TimeOut(s) PROVE Untouched \/ Begun
    <2>1. CASE Resend(s)
      BY <2>1, FormOfRequest DEF Resend, Order, Known, Attempts
    <2>2. CASE GiveUp(s)
      BY <2>2, FormOfRequest DEF GiveUp, Order
    <2> QED
      BY <1>3, <2>1, <2>2 DEF Fail, TimeOut
  <1>4. ASSUME NEW p \in Requests, p # q,
               \/ RequestStep(p)
               \/ SendFails(p) \/ ReceiptTimeout(p) \/ CommitRefused(p) \/ ReadBackFails(p)
        PROVE  Untouched
    BY <1>4 DEF RequestStep, SendDeployment, SendFails, GetReceipt, Deployed, ReceiptTimeout,
                FindUsers, CommitAccounts, CommitRefused, Announce, ReadBackFails, Throw, Goto,
                Order
  <1>5. ASSUME Throw(q), ~At(q, "absent"), UNCHANGED client PROVE Ended
    BY <1>5, FailedType DEF Throw, Order
  <1>6. CASE RequestStep(q)
    <2>1. CASE Announce(q)
      BY <2>1 DEF Announce, Goto, At, Order, Request
    <2>2. CASE SendDeployment(q) \/ CommitAccounts(q)
      BY <1>5, <2>2 DEF SendDeployment, CommitAccounts, At
    <2> QED
      BY <1>6, <2>1, <2>2 DEF RequestStep
  <1>7. CASE SendFails(q) \/ ReceiptTimeout(q) \/ CommitRefused(q) \/ ReadBackFails(q)
    BY <1>5, <1>7 DEF SendFails, ReceiptTimeout, CommitRefused, ReadBackFails, At
  <1>8. CASE Crash
    <2>1. \/ requests'[q] = requests[q]
          \/ requests'[q] = [Absent EXCEPT !.pc = "failed"] /\ ~At(q, "absent")
      BY <1>8 DEF Crash, At
    <2>2. Order(q)' = Order(q)
      BY <1>8 DEF Crash, Order
    <2> QED
      BY <2>1, <2>2, FailedType
  <1>9. CASE \/ \E k \in contracts : Mine(k)
             \/ \E l \in Logins, u \in Commitments : FindUser(l, u)
             \/ \E l \in Logins : CreateUser(l)
             \/ UNCHANGED vars
    BY <1>9 DEF Mine, FindUser, CreateUser, vars, Order
  <1> QED
    BY <1>1, <1>2, <1>3, <1>4, <1>6, <1>7, <1>8, <1>9 DEF Next

\* A step that leaves the row and the order of a request alone keeps what it has
\* behind it, since nothing is taken away.
LEMMA WorkingKept ==
  ASSUME Typed, [Next]_vars, NEW q \in Requests, Working(q),
         Order(q)' = Order(q),
         requests'[q].pc = requests[q].pc,
         requests'[q].left = requests[q].left,
         requests'[q].deployed = requests[q].deployed,
         requests'[q].missing = requests[q].missing,
         requests'[q].sent = requests[q].sent
  PROVE  Working(q)'
  <1>1. /\ \A k \in contracts : \E l \in contracts' : SameContract(k, l)
        /\ users \subseteq users'
        /\ accounts \subseteq accounts'
    BY Growing
  <1>2. \A k, l : SameContract(k, l) /\ Own(q, k) => Own(q, l)'
    BY DEF SameContract, Own
  <1>3. ASSUME requests[q].pc \in Active
        PROVE  \A d \in requests[q].deployed : \E l \in contracts' :
                   Own(q, l)' /\ l.chain = d.chain /\ l.address = d.address /\ l.mined
    <2> SUFFICES ASSUME NEW d \in requests[q].deployed
                 PROVE  \E l \in contracts' :
                    Own(q, l)' /\ l.chain = d.chain /\ l.address = d.address /\ l.mined
      OBVIOUS
    <2>1. PICK k \in contracts :
              Own(q, k) /\ k.chain = d.chain /\ k.address = d.address /\ k.mined
      BY <1>3 DEF Working
    <2>2. PICK l \in contracts' : SameContract(k, l)
      BY <1>1
    <2>3. Own(q, l)'
      BY <1>2, <2>1, <2>2
    <2> QED
      BY <2>1, <2>2, <2>3 DEF SameContract
  <1>4. ASSUME At(q, "waiting")
        PROVE  \E l \in contracts' :
                   /\ Own(q, l)'
                   /\ l.chain = Head(requests[q].left)
                   /\ l.address = requests[q].sent
    <2>1. PICK k \in contracts :
              Own(q, k) /\ k.chain = Head(requests[q].left) /\ k.address = requests[q].sent
      BY <1>4 DEF Working
    <2>2. PICK l \in contracts' : SameContract(k, l)
      BY <1>1
    <2>3. Own(q, l)'
      BY <1>2, <2>1, <2>2
    <2> QED
      BY <2>1, <2>2, <2>3 DEF SameContract
  <1>5. At(q, "inserting")' => ToSet(Order(q)'.signers) \subseteq users' \union requests'[q].missing
    BY <1>1 DEF Working, At
  <1>6. At(q, "announcing")' => Rows(q, requests[q].deployed)' \subseteq accounts'
    <2>1. \A D : Rows(q, D)' = Rows(q, D)
      BY DEF Rows
    <2>2. requests[q].deployed' = requests[q].deployed
      OBVIOUS
    <2>3. Rows(q, requests[q].deployed)' = Rows(q, requests[q].deployed)
      BY <2>2 DEF Rows
    <2> QED
      BY <1>1, <2>3 DEF Working, At
  <1> QED
    BY <1>3, <1>4, <1>5, <1>6 DEF Working, At

\* Every step of a request adds what the next one relies on.
LEMMA WorkingStep ==
  ASSUME Typed, Distinct, [Next]_vars, NEW q \in Requests, Working(q)
  PROVE  Working(q)'
  <1> USE DEF Typed, TypeOK
  <1>1. CASE requests'[q] = requests[q] /\ (At(q, "absent") \/ Order(q)' = Order(q))
    <2>1. CASE At(q, "absent")
      BY <1>1, <2>1 DEF Working, At, Active
    <2>2. CASE Order(q)' = Order(q)
      BY <1>1, <2>2, WorkingKept
    <2> QED
      BY <1>1, <2>1, <2>2
  <1>2. CASE requests'[q] = Received(Order(q)') /\ At(q, "absent")
    <2>1. \A o : /\ Received(o).pc \in {"deploying", "failed"}
                 /\ Received(o).deployed = {}
      BY DEF Received, Absent
    <2> QED
      BY <1>2, <2>1 DEF Working, At, Active
  <1>3. CASE requests'[q].pc \in {"done", "failed"}
    BY <1>3 DEF Working, At, Active
  <1>4. CASE SendDeployment(q) /\ contracts' = WithContract(q)
    <2>1. PICK k : /\ k \in contracts'
                   /\ Own(q, k)
                   /\ k.chain = Head(requests[q].left)
                   /\ k.address = NextAddress(Head(requests[q].left))
      <3> DEFINE c == Head(requests[q].left)
                 k == [by |-> q, chain |-> c, address |-> NextAddress(c),
                       signers |-> Order(q).signers, threshold |-> Order(q).threshold,
                       mined |-> FALSE]
      <3>1. k \in contracts' /\ Own(q, k) /\ k.chain = c /\ k.address = NextAddress(c)
        BY <1>4 DEF WithContract, Own
      <3> HIDE DEF k
      <3> QED
        BY <3>1
    <2>2. At(q, "deploying") /\ requests[q].left # <<>> /\ UNCHANGED <<client, users, accounts>>
      BY <1>4 DEF SendDeployment, database
    <2>3. CASE Deployable(Order(q))
      <3>1. requests' = [requests EXCEPT ![q].pc = "waiting",
                             ![q].sent = NextAddress(Head(requests[q].left))]
        BY <1>4, <2>3 DEF SendDeployment
      <3>2. /\ requests'[q].pc = "waiting"
            /\ requests'[q].left = requests[q].left
            /\ requests'[q].deployed = requests[q].deployed
            /\ requests'[q].sent = NextAddress(Head(requests[q].left))
        BY <3>1 DEF Request
      <3>3. Order(q)' = Order(q)
        BY <2>2 DEF Order
      <3>4. contracts \subseteq contracts'
        BY <1>4 DEF WithContract
      <3>5. \A l : Own(q, l)' <=> Own(q, l)
        BY <3>3 DEF Own
      <3>6. \A d \in requests[q].deployed : \E l \in contracts :
               Own(q, l) /\ l.chain = d.chain /\ l.address = d.address /\ l.mined
        BY <2>2 DEF Working, At, Active
      <3>7. Own(q, k)' /\ k.chain = Head(requests'[q].left) /\ k.address = requests'[q].sent
        BY <2>1, <3>2, <3>5
      <3>8. \A d \in requests'[q].deployed : \E l \in contracts' :
               Own(q, l)' /\ l.chain = d.chain /\ l.address = d.address /\ l.mined
        BY <3>2, <3>4, <3>5, <3>6
      <3> QED
        BY <2>1, <3>2, <3>7, <3>8 DEF Working, At
    <2>4. CASE ~Deployable(Order(q))
      <3>1. requests'[q] = [Absent EXCEPT !.pc = "failed"]
        BY <1>4, <2>4 DEF SendDeployment, Throw
      <3> QED
        BY <3>1, FailedType DEF Working, At, Active
    <2> QED
      BY <2>3, <2>4
  <1>5. CASE GetReceipt(q)
    <2>1. /\ At(q, "waiting")
          /\ UNCHANGED <<client, contracts, users, accounts>>
      BY <1>5 DEF GetReceipt, database
    <2>2. PICK m \in contracts :
              m.chain = Head(requests[q].left) /\ m.address = requests[q].sent /\ m.mined
      BY <1>5 DEF GetReceipt
    <2>3. PICK k \in contracts :
              /\ Own(q, k)
              /\ k.chain = Head(requests[q].left)
              /\ k.address = requests[q].sent
      BY <2>1 DEF Working
    <2>4. k = m
      BY <2>2, <2>3 DEF Distinct
    <2> DEFINE d == [chain |-> Head(requests[q].left), address |-> requests[q].sent]
    <2>5. d.chain = k.chain /\ d.address = k.address
      BY <2>3
    <2> HIDE DEF d
    <2>6. requests'[q].pc = "deploying" /\ requests'[q].deployed = requests[q].deployed \union {d}
      BY <1>5 DEF GetReceipt, Deployed, Request, d
    <2>7. \A l : Own(q, l)' <=> Own(q, l)
      BY <2>1 DEF Own, Order
    <2>8. \A e \in requests[q].deployed : \E l \in contracts :
             Own(q, l) /\ l.chain = e.chain /\ l.address = e.address /\ l.mined
      BY <2>1 DEF Working, At, Active
    <2>9. \A e \in requests'[q].deployed : \E l \in contracts' :
             Own(q, l)' /\ l.chain = e.chain /\ l.address = e.address /\ l.mined
      BY <2>1, <2>2, <2>3, <2>4, <2>5, <2>6, <2>7, <2>8
    <2> QED
      BY <2>6, <2>9 DEF Working, At
  <1>6. CASE FindUsers(q)
    <2>1. At(q, "deploying") /\ UNCHANGED <<client, contracts, users, accounts>>
      BY <1>6 DEF FindUsers, database
    <2>2. /\ requests'[q].pc = "inserting"
          /\ requests'[q].deployed = requests[q].deployed
          /\ requests'[q].missing = ToSet(Order(q).signers) \ users
      BY <1>6 DEF FindUsers, Request
    <2>3. Order(q)' = Order(q)
      BY <2>1 DEF Order
    <2>4. \A l : Own(q, l)' <=> Own(q, l)
      BY <2>3 DEF Own
    <2>5. \A e \in requests'[q].deployed : \E l \in contracts' :
             Own(q, l)' /\ l.chain = e.chain /\ l.address = e.address /\ l.mined
      BY <2>1, <2>2, <2>4 DEF Working, At, Active
    <2>6. ToSet(Order(q)'.signers) \subseteq users' \union requests'[q].missing
      BY <2>1, <2>2, <2>3
    <2> QED
      BY <2>2, <2>5, <2>6 DEF Working, At
  <1>7. CASE CommitAccounts(q) /\ Insertable(q)
    <2>1. At(q, "inserting") /\ UNCHANGED <<client, contracts>>
      BY <1>7 DEF CommitAccounts
    <2>2. requests'[q].pc = "announcing" /\ requests'[q].deployed = requests[q].deployed
      BY <1>7 DEF CommitAccounts, Goto, Request
    <2>3. Order(q)' = Order(q)
      BY <2>1 DEF Order
    <2>4. \A l : Own(q, l)' <=> Own(q, l)
      BY <2>3 DEF Own
    <2>5. \A e \in requests'[q].deployed : \E l \in contracts' :
             Own(q, l)' /\ l.chain = e.chain /\ l.address = e.address /\ l.mined
      BY <2>1, <2>2, <2>4 DEF Working, At, Active
    <2>6. Rows(q, requests[q].deployed) \subseteq accounts'
      BY <1>7 DEF CommitAccounts
    <2>7. Rows(q, requests[q].deployed)' = Rows(q, requests[q].deployed)
      BY <2>2, <2>3 DEF Rows
    <2> QED
      BY <2>2, <2>5, <2>6, <2>7 DEF Working, At
  <1> QED
    BY <1>1, <1>2, <1>3, <1>4, <1>5, <1>6, <1>7, Moves

-----------------------------------------------------------------------------
(* What is recorded.                                                       *)

Backed ==
    /\ Typed
    /\ Distinct
    /\ \A q \in Requests : Working(q)

\* The database changes by a commit, or users are added.
LEMMA DatabaseSteps ==
  ASSUME [Next]_vars
  PROVE  \/ \E q \in Requests : CommitAccounts(q) /\ Insertable(q)
         \/ UNCHANGED accounts /\ users \subseteq users'
  BY DEF Next, vars, database, RequestStep, Submit, Succeed, Fail, TimeOut, SendDeployment,
         SendFails, GetReceipt, ReceiptTimeout, FindUsers, CommitAccounts, CommitRefused,
         Announce, ReadBackFails, Mine, FindUser, CreateUser, Crash

\* What is known of every request is an invariant.
LEMMA BackedInvariant == Spec => []Backed
  <1>1. Init => Backed
    <2> SUFFICES ASSUME Init PROVE Backed
      OBVIOUS
    <2>1. Typed
      BY InitTypeOK, FS_EmptySet DEF Init, Typed
    <2>2. \A q \in Requests : requests[q].pc \notin Active
      BY DEF Init, Absent, Active
    <2>3. contracts = {}
      BY DEF Init
    <2> QED
      BY <2>1, <2>2, <2>3 DEF Backed, Distinct, Working, At, Active
  <1>2. Backed /\ [Next]_vars => Backed'
    BY TypedStep, DistinctStep, WorkingStep DEF Backed
  <1> QED
    BY <1>1, <1>2, PTL DEF Spec

\* AccountsAreDeployed: every account of the database is a mined contract on its
\* chain, with its signers and its threshold, whatever overlaps and fails.
THEOREM RecordedAccountsExist == Spec => []AccountsAreDeployed
  <1>1. Init => AccountsAreDeployed
    BY DEF Init, AccountsAreDeployed
  <1>2. AccountsAreDeployed /\ Backed /\ [Next]_vars => AccountsAreDeployed'
    <2> SUFFICES ASSUME AccountsAreDeployed, Backed, [Next]_vars PROVE AccountsAreDeployed'
      OBVIOUS
    <2>1. \A k \in contracts : \E l \in contracts' : SameContract(k, l)
      BY Growing DEF Backed
    <2> SUFFICES ASSUME NEW a \in accounts'
                 PROVE  \E k \in contracts' :
                            /\ k.mined
                            /\ k.chain = a.chain
                            /\ k.address = a.address
                            /\ ToSet(k.signers) = a.signers
                            /\ k.threshold = a.threshold
      BY DEF AccountsAreDeployed
    <2>2. \E k \in contracts :
              /\ k.mined
              /\ k.chain = a.chain
              /\ k.address = a.address
              /\ ToSet(k.signers) = a.signers
              /\ k.threshold = a.threshold
      <3>1. CASE a \in accounts
        BY <3>1 DEF AccountsAreDeployed
      <3>2. CASE a \notin accounts
        <4>1. PICK q \in Requests : CommitAccounts(q) /\ Insertable(q)
          BY <3>2, DatabaseSteps
        <4>2. a \in Rows(q, requests[q].deployed) /\ At(q, "inserting")
          BY <3>2, <4>1 DEF CommitAccounts
        <4>3. PICK d \in requests[q].deployed :
                 /\ a.chain = d.chain
                 /\ a.address = d.address
                 /\ a.threshold = Order(q).threshold
                 /\ a.signers = ToSet(Order(q).signers)
          BY <4>2 DEF Rows
        <4>4. PICK k \in contracts :
                 Own(q, k) /\ k.chain = d.chain /\ k.address = d.address /\ k.mined
          BY <4>2, <4>3 DEF Backed, Working, At, Active
        <4> QED
          BY <4>3, <4>4 DEF Own
      <3> QED
        BY <3>1, <3>2
    <2>3. PICK k \in contracts :
              /\ k.mined
              /\ k.chain = a.chain
              /\ k.address = a.address
              /\ ToSet(k.signers) = a.signers
              /\ k.threshold = a.threshold
      BY <2>2
    <2>4. PICK l \in contracts' : SameContract(k, l)
      BY <2>1
    <2> QED
      BY <2>3, <2>4 DEF SameContract
  <1> QED
    BY <1>1, <1>2, BackedInvariant, PTL DEF Spec

\* A list without repetitions is as long as its set is large.
LEMMA InjectiveLength ==
  ASSUME NEW S, NEW l \in Seq(S), IsInjective(l)
  PROVE  Cardinality(ToSet(l)) = Len(l)
  <1>1. DOMAIN l = 1..Len(l) /\ Len(l) \in Nat
    OBVIOUS
  <1>2. l \in Bijection(1..Len(l), ToSet(l))
    BY <1>1 DEF Bijection, Injection, Surjection, IsInjective, ToSet
  <1>3. ExistsBijection(1..Len(l), ToSet(l))
    BY <1>2 DEF ExistsBijection
  <1> QED
    BY <1>1, <1>3, FS_CountingElements

\* QuorumIsReachable: the threshold of every account is within the number of its
\* signers, who are users, and its creator is one of them.
THEOREM RecordedQuorums == Spec => []QuorumIsReachable
  <1>1. Init => QuorumIsReachable
    BY DEF Init, QuorumIsReachable
  <1>2. QuorumIsReachable /\ Backed /\ [Next]_vars => QuorumIsReachable'
    <2> SUFFICES ASSUME QuorumIsReachable, Backed, [Next]_vars, NEW a \in accounts'
                 PROVE  /\ a.threshold <= Cardinality(a.signers)
                        /\ a.creator \in a.signers
                        /\ a.signers \subseteq users'
      BY DEF QuorumIsReachable
    <2>1. users \subseteq users'
      BY Growing DEF Backed
    <2>2. CASE a \in accounts
      BY <2>1, <2>2 DEF QuorumIsReachable
    <2>3. CASE a \notin accounts
      <3>1. PICK q \in Requests : CommitAccounts(q) /\ Insertable(q)
        BY <2>3, DatabaseSteps
      <3>2. a \in Rows(q, requests[q].deployed) /\ At(q, "inserting")
        BY <2>3, <3>1 DEF CommitAccounts
      <3>3. /\ a.threshold = Order(q).threshold
            /\ a.signers = ToSet(Order(q).signers)
            /\ a.creator = Order(q).creator
        BY <3>2 DEF Rows
      <3>4. Valid(Order(q)) /\ IsInjective(Order(q).signers)
        BY <3>1, <3>2 DEF Insertable, Backed, Typed, Known, At, Active
      <3>5. Order(q).signers \in Seq(Commitments)
        BY <3>2, OrderKnown DEF Backed, Typed, At
      <3>6. Cardinality(ToSet(Order(q).signers)) = Len(Order(q).signers)
        BY <3>4, <3>5, InjectiveLength
      <3>7. a.signers \subseteq users'
        BY <3>1, <3>2, <3>3 DEF Backed, Working, CommitAccounts
      <3> QED
        BY <3>3, <3>4, <3>6, <3>7 DEF Valid
    <2> QED
      BY <2>2, <2>3
  <1> QED
    BY <1>1, <1>2, BackedInvariant, PTL DEF Spec

\* AnnouncedIsRecorded: whoever is told of an account is one of its signers and
\* not its creator, and finds the row when he asks for it.
THEOREM AnnouncementsAreTrue == Spec => []AnnouncedIsRecorded
  <1>1. Init => AnnouncedIsRecorded
    BY DEF Init, AnnouncedIsRecorded
  <1>2. AnnouncedIsRecorded /\ Backed /\ [Next]_vars => AnnouncedIsRecorded'
    <2> SUFFICES ASSUME AnnouncedIsRecorded, Backed, [Next]_vars, NEW e \in told'
                 PROVE  \E a \in accounts' :
                            /\ a.chain = e.chain
                            /\ a.address = e.address
                            /\ e.to \in a.signers \ {a.creator}
      BY DEF AnnouncedIsRecorded
    <2>1. accounts \subseteq accounts'
      BY Growing DEF Backed
    <2>2. CASE e \in told
      BY <2>1, <2>2 DEF AnnouncedIsRecorded
    <2>3. CASE e \notin told
      <3>1. PICK q \in Requests : At(q, "announcing") /\ e \in Announcements(q)
        BY <2>3 DEF Next, vars, database, RequestStep, Submit, Succeed, Fail, TimeOut,
               SendDeployment, SendFails, GetReceipt, ReceiptTimeout, FindUsers,
               CommitAccounts, CommitRefused, Announce, ReadBackFails, Mine, FindUser,
               CreateUser, Crash
      <3>2. PICK d \in requests[q].deployed :
               /\ e.chain = d.chain
               /\ e.address = d.address
               /\ e.to \in ToSet(Order(q).signers) \ {Order(q).creator}
        BY <3>1 DEF Announcements
      <3>3. PICK a \in Rows(q, requests[q].deployed) :
               /\ a.chain = d.chain
               /\ a.address = d.address
               /\ a.signers = ToSet(Order(q).signers)
               /\ a.creator = Order(q).creator
        <4> DEFINE row == [chain |-> d.chain, address |-> d.address,
                           threshold |-> Order(q).threshold,
                           signers |-> ToSet(Order(q).signers), creator |-> Order(q).creator]
        <4>1. row \in Rows(q, requests[q].deployed)
          BY DEF Rows
        <4>2. /\ row.chain = d.chain
              /\ row.address = d.address
              /\ row.signers = ToSet(Order(q).signers)
              /\ row.creator = Order(q).creator
          OBVIOUS
        <4> HIDE DEF row
        <4> QED
          BY <4>1, <4>2
      <3>4. a \in accounts
        BY <3>1 DEF Backed, Working
      <3> QED
        BY <2>1, <3>2, <3>3, <3>4
    <2> QED
      BY <2>2, <2>3
  <1> QED
    BY <1>1, <1>2, BackedInvariant, PTL DEF Spec

-----------------------------------------------------------------------------
(* Batches are recorded as a whole, and once.                              *)

Unrecorded(q) == Recorded(q) = {}

ChainsOf(q) == {d.chain : d \in requests[q].deployed}

\* A request deploys on the chains of its order, one after the other, and nothing
\* of it is recorded before everything is.
Whole(q) ==
    /\ \A k \in contracts : k.by = q =>
           ~At(q, "absent") /\ k.chain \in ToSet(Order(q).chains)
    /\ requests[q].pc \in {"deploying", "waiting", "inserting"} =>
           /\ Unrecorded(q)
           /\ ChainsOf(q) \union ToSet(requests[q].left) = ToSet(Order(q).chains)
    /\ At(q, "inserting") => requests[q].left = <<>>
    /\ Unrecorded(q) \/ {k.chain : k \in Recorded(q)} = ToSet(Order(q).chains)
    /\ faults = 0 /\ At(q, "failed") => Unrecorded(q)

\* A second attempt without a fault follows a first one that failed.
Retried ==
    \A s \in Submissions :
        client[s].attempt = 2 /\ faults = 0 => At(<<s, 1>>, "failed")

\* A contract after a step was there before it or is a new one of a request that
\* is deploying, at the next address of its next chain.
LEMMA Origins ==
  ASSUME Typed, [Next]_vars, NEW l \in contracts'
  PROVE  \/ \E k \in contracts : SameContract(k, l)
         \/ /\ l.by \in Requests
            /\ At(l.by, "deploying")
            /\ requests[l.by].left # <<>>
            /\ l.chain = Head(requests[l.by].left)
            /\ l.address = NextAddress(l.chain)
            /\ UNCHANGED <<client, accounts>>
  <1>1. ASSUME l \in contracts PROVE \E k \in contracts : SameContract(k, l)
    BY <1>1 DEF SameContract
  <1>2. CASE \E q \in Requests : /\ SendDeployment(q) \/ SendFails(q)
                                 /\ contracts' = WithContract(q)
    BY <1>1, <1>2 DEF WithContract, SendDeployment, SendFails, database
  <1>3. ASSUME NEW m \in contracts, Mine(m)
        PROVE  \E k \in contracts : SameContract(k, l)
    <2>1. m \in [by : Requests, chain : Chains, address : Address,
                 signers : Seq(Commitments), threshold : Nat, mined : BOOLEAN]
      BY DEF Typed, TypeOK
    <2>2. SameContract(m, [m EXCEPT !.mined = TRUE])
      BY <2>1 DEF SameContract
    <2>3. contracts' = (contracts \ {m}) \union {[m EXCEPT !.mined = TRUE]}
      BY <1>3 DEF Mine
    <2> QED
      BY <1>1, <2>2, <2>3
  <1> QED
    BY <1>1, <1>2, <1>3, ContractSteps

\* Only its own commit records a contract.
LEMMA RecordedKept ==
  ASSUME Backed, AccountsAreDeployed, [Next]_vars, NEW q \in Requests,
         ~(CommitAccounts(q) /\ Insertable(q))
  PROVE  /\ {k.chain : k \in Recorded(q)'} = {k.chain : k \in Recorded(q)}
         /\ Unrecorded(q) => Unrecorded(q)'
  <1>1. ASSUME NEW l \in Recorded(q)'
        PROVE  \E k \in Recorded(q) : k.chain = l.chain
    <2>1. PICK a \in accounts' : a.chain = l.chain /\ a.address = l.address
      BY DEF Recorded
    <2>2. l \in contracts' /\ l.by = q
      BY DEF Recorded
    <2>3. CASE UNCHANGED accounts /\ l.address = NextAddress(l.chain)
      <3>1. PICK k \in contracts : k.chain = a.chain /\ k.address = a.address
        BY <2>1, <2>3 DEF AccountsAreDeployed
      <3>2. k.address < NextAddress(k.chain) /\ k.address \in Nat
        BY DEF Backed, Distinct, Typed, TypeOK, Address
      <3> QED
        BY <2>1, <2>3, <3>1, <3>2
    <2>4. ASSUME NEW k \in contracts, SameContract(k, l)
          PROVE  k \in Recorded(q)
      <3>1. CASE a \in accounts
        BY <2>1, <2>2, <2>4, <3>1 DEF Recorded, SameContract
      <3>2. CASE a \notin accounts
        <4>1. PICK p \in Requests : CommitAccounts(p) /\ Insertable(p)
          BY <3>2, DatabaseSteps
        <4>2. a \in Rows(p, requests[p].deployed) /\ At(p, "inserting")
          BY <3>2, <4>1 DEF CommitAccounts
        <4>3. PICK d \in requests[p].deployed : a.chain = d.chain /\ a.address = d.address
          BY <4>2 DEF Rows
        <4>4. PICK m \in contracts :
                 Own(p, m) /\ m.chain = d.chain /\ m.address = d.address
          BY <4>2 DEF Backed, Working, At, Active
        <4>5. m = k
          BY <2>1, <2>4, <4>3, <4>4 DEF SameContract, Backed, Distinct
        <4>6. p = q
          BY <2>2, <2>4, <4>4, <4>5 DEF SameContract, Own
        <4> QED
          BY <4>1, <4>6
      <3> QED
        BY <3>1, <3>2
    <2>5. \/ \E k \in contracts : SameContract(k, l)
          \/ UNCHANGED accounts /\ l.address = NextAddress(l.chain)
      BY <2>2, Origins DEF Backed
    <2> QED
      BY <2>3, <2>4, <2>5 DEF SameContract
  <1>2. ASSUME NEW k \in Recorded(q)
        PROVE  \E l \in Recorded(q)' : l.chain = k.chain
    <2>1. k \in contracts /\ accounts \subseteq accounts'
      BY Growing DEF Recorded, Backed
    <2>2. PICK l \in contracts' : SameContract(k, l)
      BY <2>1, Growing DEF Backed
    <2>3. l \in Recorded(q)'
      BY <2>1, <2>2 DEF Recorded, SameContract
    <2> QED
      BY <2>2, <2>3 DEF SameContract
  <1> QED
    BY <1>1, <1>2 DEF Unrecorded

\* Without a fault, a request fails before it has recorded anything.
LEMMA FailsEarly ==
  ASSUME Typed, [Next]_vars, NEW q \in Requests, faults' = 0, At(q, "failed")'
  PROVE  faults = 0 /\ requests[q].pc \in {"absent", "deploying", "inserting", "failed"}
  <1> USE DEF Typed, TypeOK
  <1>1. faults \in Nat /\ faults + 1 # 0
    BY CommitmentsAssumption
  <1>2. ASSUME NEW s \in Submissions,
               \/ \E o \in AllOrders : Submit(s, o)
               \/ Fail(s)
               \/ TimeOut(s)
        PROVE  faults = 0 /\ (At(q, "absent") \/ requests'[q] = requests[q])
    <2>1. CASE \E o \in AllOrders : Submit(s, o)
      BY <2>1, FormOfRequest DEF Submit, Known, Attempts
    <2>2. CASE Fail(s)
      BY <2>2, FormOfRequest DEF Fail, Resend, GiveUp, Known, At, Attempts
    <2>3. CASE TimeOut(s)
      BY <1>1, <2>3 DEF TimeOut
    <2> QED
      BY <1>2, <2>1, <2>2, <2>3
  <1>3. ASSUME NEW s \in Submissions, Succeed(s)
        PROVE  faults = 0 /\ requests'[q] = requests[q]
    BY <1>3 DEF Succeed
  <1>4. ASSUME NEW p \in Requests, RequestStep(p)
        PROVE  faults = 0 /\ requests[q].pc \in {"absent", "deploying", "inserting", "failed"}
    <2>1. CASE p # q
      BY <1>4, <2>1 DEF RequestStep, SendDeployment, GetReceipt, Deployed, FindUsers,
                CommitAccounts, Announce, Throw, Goto, At
    <2>2. CASE p = q
      BY <1>4, <2>2 DEF RequestStep, SendDeployment, GetReceipt, Deployed, FindUsers,
                CommitAccounts, Announce, Goto, At, Request
    <2> QED
      BY <2>1, <2>2
  <1>5. ASSUME NEW p \in Requests,
               SendFails(p) \/ ReceiptTimeout(p) \/ CommitRefused(p) \/ ReadBackFails(p)
        PROVE  FALSE
    BY <1>1, <1>5 DEF SendFails, ReceiptTimeout, CommitRefused, ReadBackFails
  <1>6. CASE Crash
    BY <1>1, <1>6 DEF Crash
  <1>7. CASE \/ \E k \in contracts : Mine(k)
             \/ \E l \in Logins, u \in Commitments : FindUser(l, u)
             \/ \E l \in Logins : CreateUser(l)
             \/ UNCHANGED vars
    BY <1>7 DEF Mine, FindUser, CreateUser, vars, At
  <1> QED
    BY <1>2, <1>3, <1>4, <1>5, <1>6, <1>7 DEF Next, At

Recording ==
    /\ Backed
    /\ AccountsAreDeployed

\* The chain that is next, and the others that are left.
LEMMA HeadTailSet ==
  ASSUME NEW S, NEW l \in Seq(S), l # <<>>
  PROVE  ToSet(l) = {Head(l)} \union ToSet(Tail(l))
  <1>1. /\ Tail(l) \in Seq(S)
        /\ Len(Tail(l)) = Len(l) - 1
        /\ \A i \in 1..Len(Tail(l)) : Tail(l)[i] = l[i + 1]
    BY HeadTailProperties
  <1>2. Len(l) \in Nat \ {0} /\ Head(l) = l[1]
    OBVIOUS
  <1>3. \A i \in 1..Len(l) : i = 1 \/ (i - 1 \in 1..Len(Tail(l)) /\ l[i] = Tail(l)[i - 1])
    BY <1>1, <1>2
  <1>4. \A i \in 1..Len(Tail(l)) : i + 1 \in 1..Len(l)
    BY <1>1, <1>2
  <1>5. DOMAIN l = 1..Len(l) /\ DOMAIN Tail(l) = 1..Len(Tail(l))
    BY <1>1
  <1>6. 1 \in 1..Len(l)
    BY <1>2
  <1>7. ASSUME NEW x \in ToSet(l) PROVE x \in {Head(l)} \union ToSet(Tail(l))
    BY <1>2, <1>3, <1>5 DEF ToSet
  <1>8. ASSUME NEW x \in {Head(l)} \union ToSet(Tail(l)) PROVE x \in ToSet(l)
    BY <1>1, <1>2, <1>4, <1>5, <1>6 DEF ToSet
  <1> QED
    BY <1>7, <1>8

\* Contracts are on chains of the order of their request.
LEMMA OrderedChains ==
  ASSUME Recording, [Next]_vars, NEW q \in Requests, Whole(q), NEW l \in contracts', l.by = q
  PROVE  /\ ~At(q, "absent")
         /\ Order(q)' = Order(q)
         /\ ~At(q, "absent")'
         /\ l.chain \in ToSet(Order(q).chains)
  <1>1. ~At(q, "absent") /\ l.chain \in ToSet(Order(q).chains)
    <2>1. ASSUME NEW k \in contracts, SameContract(k, l)
          PROVE  ~At(q, "absent") /\ l.chain \in ToSet(Order(q).chains)
      BY <2>1 DEF SameContract, Whole
    <2>2. ASSUME At(q, "deploying"), requests[q].left # <<>>, l.chain = Head(requests[q].left)
          PROVE  ~At(q, "absent") /\ l.chain \in ToSet(Order(q).chains)
      <3>1. requests[q].left \in Seq(Chains)
        BY DEF Recording, Backed, Typed, TypeOK, Request
      <3>2. Head(requests[q].left) \in ToSet(requests[q].left)
        BY <2>2, <3>1 DEF ToSet
      <3> QED
        BY <2>2, <3>2 DEF Whole, At
    <2> QED
      BY <2>1, <2>2, Origins DEF Recording, Backed
  <1>2. Order(q)' = Order(q) /\ ~At(q, "absent")'
    <2>1. CASE requests'[q] = requests[q] /\ (At(q, "absent") \/ Order(q)' = Order(q))
      BY <1>1, <2>1 DEF At
    <2>2. CASE requests'[q].pc \in {"done", "failed"} /\ Order(q)' = Order(q)
      BY <2>2 DEF At
    <2>3. CASE SendDeployment(q) \/ GetReceipt(q) \/ FindUsers(q) \/ CommitAccounts(q)
      <3>1. UNCHANGED client
        BY <2>3 DEF SendDeployment, GetReceipt, FindUsers, CommitAccounts
      <3>2. ~At(q, "absent")'
        BY <2>3, FailedType DEF SendDeployment, GetReceipt, Deployed, FindUsers, CommitAccounts,
               Throw, Goto, At, Recording, Backed, Typed, TypeOK, Request
      <3> QED
        BY <3>1, <3>2 DEF Order
    <2> QED
      BY <1>1, <2>1, <2>2, <2>3, Moves DEF Recording, Backed
  <1> QED
    BY <1>1, <1>2

\* Every step of a request but its commit records nothing of it; the commit
\* records all.
LEMMA WholeStep ==
  ASSUME Recording, [Next]_vars, NEW q \in Requests, Whole(q)
  PROVE  Whole(q)'
  <1> USE DEF Recording, Backed
  <1>1. \A l \in contracts' : l.by = q =>
            ~At(q, "absent")' /\ l.chain \in ToSet(Order(q)'.chains)
    BY OrderedChains
  <1>2. CASE ~(CommitAccounts(q) /\ Insertable(q))
    <2>1. /\ {k.chain : k \in Recorded(q)'} = {k.chain : k \in Recorded(q)}
          /\ Unrecorded(q) => Unrecorded(q)'
      BY <1>2, RecordedKept
    <2>2. At(q, "absent") => Unrecorded(q)
      BY DEF Whole, Unrecorded, Recorded
    <2>3. Unrecorded(q)' \/ {k.chain : k \in Recorded(q)'} = ToSet(Order(q)'.chains)
      <3>1. ASSUME ~Unrecorded(q)' PROVE Order(q)' = Order(q)
        BY <3>1, OrderedChains DEF Unrecorded, Recorded
      <3> QED
        BY <2>1, <3>1 DEF Whole
    <2>4. (faults = 0 /\ At(q, "failed"))' => Unrecorded(q)'
      <3> SUFFICES ASSUME faults' = 0, At(q, "failed")' PROVE Unrecorded(q)'
        OBVIOUS
      <3>1. faults = 0 /\ requests[q].pc \in {"absent", "deploying", "inserting", "failed"}
        BY FailsEarly
      <3> QED
        BY <2>1, <2>2, <3>1 DEF Whole, At
    <2>5. /\ requests'[q].pc \in {"deploying", "waiting", "inserting"} =>
                 /\ Unrecorded(q)'
                 /\ ChainsOf(q)' \union ToSet(requests'[q].left) = ToSet(Order(q)'.chains)
          /\ At(q, "inserting")' => requests'[q].left = <<>>
      <3>1. CASE requests'[q] = requests[q] /\ (At(q, "absent") \/ Order(q)' = Order(q))
        <4>1. CASE At(q, "absent")
          BY <3>1, <4>1 DEF At
        <4>2. CASE Order(q)' = Order(q)
          BY <2>1, <3>1, <4>2 DEF Whole, ChainsOf, At
        <4> QED
          BY <3>1, <4>1, <4>2
      <3>2. CASE requests'[q] = Received(Order(q)') /\ At(q, "absent")
        <4>1. \A o : /\ Received(o).pc \in {"deploying", "failed"}
                     /\ Received(o).deployed = {}
                     /\ Received(o).pc = "deploying" => Received(o).left = o.chains
          BY DEF Received, Absent
        <4>2. ChainsOf(q)' = {}
          BY <3>2, <4>1 DEF ChainsOf
        <4>3. requests'[q].pc = "deploying" => requests'[q].left = Order(q)'.chains
          BY <3>2, <4>1
        <4> QED
          BY <2>1, <2>2, <3>2, <4>1, <4>2, <4>3 DEF At
      <3>3. CASE requests'[q].pc \in {"done", "failed"}
        BY <3>3 DEF At
      <3>4. CASE SendDeployment(q) /\ contracts' = WithContract(q)
        <4>1. At(q, "deploying") /\ UNCHANGED client
          BY <3>4 DEF SendDeployment
        <4>2. CASE Deployable(Order(q))
          <5>1. /\ requests'[q].pc = "waiting"
                /\ requests'[q].left = requests[q].left
                /\ requests'[q].deployed = requests[q].deployed
            BY <3>4, <4>2 DEF SendDeployment, Typed, TypeOK, Request
          <5> QED
            BY <2>1, <4>1, <5>1 DEF Whole, ChainsOf, Order, At
        <4>3. CASE ~Deployable(Order(q))
          <5>1. requests'[q] = [Absent EXCEPT !.pc = "failed"]
            BY <3>4, <4>3 DEF SendDeployment, Throw, Typed, TypeOK
          <5> QED
            BY <5>1, FailedType DEF At
        <4> QED
          BY <4>2, <4>3
      <3>5. CASE GetReceipt(q)
        <4>1. At(q, "waiting") /\ UNCHANGED client
          BY <3>5 DEF GetReceipt
        <4>2. requests[q].left \in Seq(Chains) /\ requests[q].left # <<>>
          BY <4>1 DEF Typed, TypeOK, Request, Known
        <4> DEFINE d == [chain |-> Head(requests[q].left), address |-> requests[q].sent]
        <4>3. /\ requests'[q].pc = "deploying"
              /\ requests'[q].left = Tail(requests[q].left)
              /\ requests'[q].deployed = requests[q].deployed \union {d}
          BY <3>5 DEF GetReceipt, Deployed, Typed, TypeOK, Request
        <4>4. d.chain = Head(requests[q].left)
          OBVIOUS
        <4> HIDE DEF d
        <4>5. ChainsOf(q)' = ChainsOf(q) \union {Head(requests[q].left)}
          BY <4>3, <4>4 DEF ChainsOf
        <4>6. ToSet(requests[q].left) = {Head(requests[q].left)} \union ToSet(Tail(requests[q].left))
          BY <4>2, HeadTailSet
        <4>7. Unrecorded(q)' /\ ChainsOf(q) \union ToSet(requests[q].left) = ToSet(Order(q).chains)
          BY <2>1, <4>1 DEF Whole, At
        <4>8. ChainsOf(q)' \union ToSet(requests'[q].left) = ToSet(Order(q).chains)
          BY <4>3, <4>5, <4>6, <4>7
        <4> QED
          BY <4>1, <4>3, <4>7, <4>8 DEF Order, At
      <3>6. CASE FindUsers(q)
        <4>1. At(q, "deploying") /\ UNCHANGED client /\ requests[q].left = <<>>
          BY <3>6 DEF FindUsers
        <4>2. /\ requests'[q].pc = "inserting"
              /\ requests'[q].left = requests[q].left
              /\ requests'[q].deployed = requests[q].deployed
          BY <3>6 DEF FindUsers, Typed, TypeOK, Request
        <4> QED
          BY <2>1, <4>1, <4>2 DEF Whole, ChainsOf, Order, At
      <3> QED
        BY <1>2, <3>1, <3>2, <3>3, <3>4, <3>5, <3>6, Moves
    <2> QED
      BY <1>1, <2>3, <2>4, <2>5 DEF Whole
  <1>3. CASE CommitAccounts(q) /\ Insertable(q)
    <2>1. At(q, "inserting") /\ UNCHANGED <<client, contracts>>
      BY <1>3 DEF CommitAccounts
    <2>2. requests'[q].pc = "announcing"
      BY <1>3 DEF CommitAccounts, Goto, Typed, TypeOK, Request
    <2>3. Order(q)' = Order(q)
      BY <2>1 DEF Order
    <2>4. ChainsOf(q) = ToSet(Order(q).chains)
      <3>1. ToSet(<<>>) = {}
        BY DEF ToSet
      <3> QED
        BY <2>1, <3>1 DEF Whole, At
    <2>5. ASSUME NEW c \in ToSet(Order(q).chains)
          PROVE  \E k \in Recorded(q)' : k.chain = c
      <3>1. PICK d \in requests[q].deployed : d.chain = c
        BY <2>4, <2>5 DEF ChainsOf
      <3>2. PICK k \in contracts : Own(q, k) /\ k.chain = d.chain /\ k.address = d.address
        BY <2>1 DEF Working, At, Active
      <3> DEFINE row == [chain |-> d.chain, address |-> d.address,
                         threshold |-> Order(q).threshold,
                         signers |-> ToSet(Order(q).signers), creator |-> Order(q).creator]
      <3>3. row \in accounts'
        BY <1>3 DEF CommitAccounts, Rows
      <3>4. row.chain = d.chain /\ row.address = d.address
        OBVIOUS
      <3> HIDE DEF row
      <3>5. k \in Recorded(q)'
        BY <2>1, <3>2, <3>3, <3>4 DEF Recorded, Own
      <3> QED
        BY <3>1, <3>2, <3>5
    <2>6. \A k \in Recorded(q)' : k.chain \in ToSet(Order(q).chains)
      BY <1>1, <2>3 DEF Recorded
    <2>7. {k.chain : k \in Recorded(q)'} = ToSet(Order(q).chains)
      BY <2>5, <2>6
    <2> QED
      BY <1>1, <2>2, <2>3, <2>7 DEF Whole, At
  <1> QED
    BY <1>2, <1>3

\* A request that failed is not worked on again.
LEMMA FailedStays ==
  ASSUME Typed, [Next]_vars, NEW q \in Requests, At(q, "failed")
  PROVE  At(q, "failed")'
  <1> USE DEF Typed, TypeOK
  <1>1. ASSUME NEW s \in Submissions, NEW o \in AllOrders, Submit(s, o)
        PROVE  At(q, "failed")'
    BY <1>1, FormOfRequest DEF Submit, Known, At, Attempts
  <1>2. ASSUME NEW s \in Submissions, Fail(s) \/ TimeOut(s) PROVE At(q, "failed")'
    <2>1. CASE Resend(s)
      BY <2>1, FormOfRequest DEF Resend, Known, At, Attempts
    <2>2. CASE GiveUp(s)
      BY <2>2 DEF GiveUp, At
    <2> QED
      BY <1>2, <2>1, <2>2 DEF Fail, TimeOut
  <1>3. ASSUME NEW p \in Requests,
               \/ RequestStep(p)
               \/ SendFails(p) \/ ReceiptTimeout(p) \/ CommitRefused(p) \/ ReadBackFails(p)
        PROVE  At(q, "failed")'
    <2>1. p # q
      BY <1>3 DEF RequestStep, SendDeployment, SendFails, GetReceipt, ReceiptTimeout, FindUsers,
                  CommitAccounts, CommitRefused, Announce, ReadBackFails, At
    <2>2. requests'[q] = requests[q]
      BY <1>3, <2>1 DEF RequestStep, SendDeployment, SendFails, GetReceipt, Deployed,
                  ReceiptTimeout, FindUsers, CommitAccounts, CommitRefused, Announce,
                  ReadBackFails, Throw, Goto
    <2> QED
      BY <2>2 DEF At
  <1>4. CASE Crash
    BY <1>4, FailedType DEF Crash, At
  <1>5. CASE \/ \E s \in Submissions : Succeed(s)
             \/ \E k \in contracts : Mine(k)
             \/ \E l \in Logins, u \in Commitments : FindUser(l, u)
             \/ \E l \in Logins : CreateUser(l)
             \/ UNCHANGED vars
    BY <1>5 DEF Succeed, Mine, FindUser, CreateUser, vars, At
  <1> QED
    BY <1>1, <1>2, <1>3, <1>4, <1>5 DEF Next

\* A second attempt without a fault keeps following a failed one.
LEMMA RetriedStep == Typed /\ Retried /\ [Next]_vars => Retried'
  <1> SUFFICES ASSUME Typed, Retried, [Next]_vars, NEW s \in Submissions,
                      client'[s].attempt = 2, faults' = 0
               PROVE  At(<<s, 1>>, "failed")'
    BY DEF Retried
  <1> USE DEF Typed, TypeOK
  <1>1. <<s, 1>> \in Requests
    BY DEF Requests, Attempts
  <1>2. faults \in Nat /\ faults + 1 # 0
    BY CommitmentsAssumption
  <1>3. At(<<s, 1>>, "failed") /\ faults = 0
    <2>1. ASSUME NEW t \in Submissions, NEW o \in AllOrders, Submit(t, o)
          PROVE  client[s].attempt = 2 /\ faults = 0
      BY <2>1 DEF Submit
    <2>2. ASSUME NEW t \in Submissions, Fail(t)
          PROVE  At(<<s, 1>>, "failed") /\ faults = 0
      BY <2>2 DEF Fail, Waiting, Resend, GiveUp, Retried, At
    <2>3. ASSUME NEW t \in Submissions, TimeOut(t) PROVE FALSE
      BY <1>2, <2>3 DEF TimeOut
    <2>4. ASSUME NEW t \in Submissions, Succeed(t)
          PROVE  client[s].attempt = 2 /\ faults = 0
      BY <2>4 DEF Succeed
    <2>5. ASSUME NEW q \in Requests, RequestStep(q)
          PROVE  client[s].attempt = 2 /\ faults = 0
      BY <2>5 DEF RequestStep, SendDeployment, GetReceipt, FindUsers, CommitAccounts, Announce
    <2>6. ASSUME NEW q \in Requests,
                 SendFails(q) \/ ReceiptTimeout(q) \/ CommitRefused(q) \/ ReadBackFails(q)
          PROVE  FALSE
      BY <1>2, <2>6 DEF SendFails, ReceiptTimeout, CommitRefused, ReadBackFails
    <2>7. CASE Crash
      BY <1>2, <2>7 DEF Crash
    <2>8. CASE \/ \E k \in contracts : Mine(k)
               \/ \E l \in Logins, u \in Commitments : FindUser(l, u)
               \/ \E l \in Logins : CreateUser(l)
               \/ UNCHANGED vars
      BY <2>8 DEF Mine, FindUser, CreateUser, vars, Retried
    <2> QED
      BY <2>1, <2>2, <2>3, <2>4, <2>5, <2>6, <2>7, <2>8 DEF Next, Retried
  <1> QED
    BY <1>1, <1>3, FailedStays

\* All that is known of recorded requests is an invariant.
LEMMA RecordingInvariant ==
  Spec => [](Recording /\ (\A q \in Requests : Whole(q)) /\ Retried)
  <1>1. Init => (\A q \in Requests : Whole(q)) /\ Retried
    <2> SUFFICES ASSUME Init PROVE (\A q \in Requests : Whole(q)) /\ Retried
      OBVIOUS
    <2>1. \A q \in Requests : At(q, "absent")
      BY DEF Init, Absent, At
    <2>2. contracts = {} /\ \A s \in Submissions : client[s].attempt = 1
      BY DEF Init
    <2>3. \A q \in Requests : Unrecorded(q)
      BY <2>2 DEF Unrecorded, Recorded
    <2> QED
      BY <2>1, <2>2, <2>3 DEF Whole, Retried, At
  <1>2. Recording /\ (\A q \in Requests : Whole(q)) /\ Retried /\ [Next]_vars
            => (\A q \in Requests : Whole(q))' /\ Retried'
    BY WholeStep, RetriedStep DEF Recording, Backed
  <1>3. Spec => []Recording
    BY BackedInvariant, RecordedAccountsExist, PTL DEF Recording
  <1> QED
    BY <1>1, <1>2, <1>3, PTL DEF Spec

\* BatchIsAllOrNothing: the contracts that a request deployed are recorded on all
\* chains of its order or on none, whatever fails between them.
THEOREM BatchesAreWhole == Spec => []BatchIsAllOrNothing
  <1>1. (\A q \in Requests : Whole(q)) => BatchIsAllOrNothing
    BY DEF Whole, Unrecorded, BatchIsAllOrNothing
  <1> QED
    BY <1>1, RecordingInvariant, PTL

\* RecordedOnce: while no fault has occurred, one of the two attempts of a form
\* has recorded nothing.
THEOREM RetriesRecordOnce == Spec => []RecordedOnce
  <1>1. Recording /\ (\A q \in Requests : Whole(q)) /\ Retried => RecordedOnce
    <2> SUFFICES ASSUME Recording, \A q \in Requests : Whole(q), Retried, faults = 0,
                        NEW s \in Submissions
                 PROVE  Recorded(<<s, 1>>) = {} \/ Recorded(<<s, 2>>) = {}
      BY DEF RecordedOnce
    <2>1. <<s, 1>> \in Requests /\ <<s, 2>> \in Requests
      BY DEF Requests, Attempts
    <2>2. CASE client[s].attempt = 1
      <3>1. At(<<s, 2>>, "absent")
        BY <2>2 DEF Recording, Backed, Typed, Known
      <3> QED
        BY <2>1, <3>1 DEF Whole, Recorded
    <2>3. CASE client[s].attempt = 2
      BY <2>1, <2>3 DEF Whole, Retried, Unrecorded
    <2>4. client[s].attempt \in {1, 2}
      BY DEF Recording, Backed, Typed, TypeOK, Attempts
    <2> QED
      BY <2>2, <2>3, <2>4
  <1> QED
    BY <1>1, RecordingInvariant, PTL
=============================================================================
